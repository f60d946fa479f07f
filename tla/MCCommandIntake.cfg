\* One process, one owner and one guest, two commands and two heads.
SPECIFICATION FairSpec
CONSTANTS
  Procs = {p}
  Owners = {o}
  Guests = {g}
  MaxHeads = 2
  MaxComments = 2
  MaxFailures = 1
CONSTRAINT
  SameAuthorOrNoFailure
INVARIANTS
  TypeOK
  PublicReviewsAreRateLimited
  StopSilencesAutomatic
PROPERTIES
  CommandsAreServed
  DueCommandsAreAnswered

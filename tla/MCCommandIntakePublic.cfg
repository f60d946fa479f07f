\* Two public commands of one author: the older one takes every window.
SPECIFICATION FairSpec
CONSTANTS
  Procs = {p}
  Owners = {o}
  Guests = {g}
  MaxHeads = 2
  MaxComments = 2
  MaxFailures = 0
PROPERTIES
  PublicCommandsAreAnswered

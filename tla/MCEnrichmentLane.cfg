\* Two issues, the daemon and an operator; two edits of one issue or one of each.
SPECIFICATION FairSpec
CONSTANTS
  Issues = {i1, i2}
  Nothing = Nothing
  Daemon = d
  Operators = {o}
  Nobody = Nobody
  Orphan = Orphan
  MaxEdits = 2
  Body <- MCBody
  MaxIssues = 1
  MaxFailures = 1
INVARIANTS
  TypeOK
  OneComment
  NothingForgotten
  HeartbeatTellsTheCycle
PROPERTIES
  CleanupComes
  EveryEditIsAnswered

\* A discovery review and a failed-head retry of the same head.  Deadlock is
\* not checked: a head with a settled row really is done.
SPECIFICATION Spec
CONSTANTS
  Workers = {w1, w2}
  Nobody = Nobody
  Orphan = Orphan
  Revs = {r1}
  NoRev = NoRev
  Kinds = {"daemon", "retry"}
  MaxRuns = 2
  MaxPosts = 2
  MaxGrants = 0
CHECK_DEADLOCK FALSE
INVARIANT AtMostOneReviewPerHead

\* One worker and two requests of the owner, one after the other.
SPECIFICATION Spec
CONSTANTS
  Workers = {w1}
  Nobody = Nobody
  Orphan = Orphan
  Revs = {}
  NoRev = NoRev
  Requests = {c1, c2}
  NoRequest = NoRequest
INVARIANT SecondCommandStillPosts

\* Two concurrent invocations of every kind that can post, two revisions.
SPECIFICATION Spec
CONSTANTS
  Workers = {w1, w2}
  Nobody = Nobody
  Orphan = Orphan
  Revs = {r1, r2}
  NoRev = NoRev
  Kinds = {"daemon", "requeue", "retry", "command", "manual", "approved", "dryrun", "refresh"}
  MaxRuns = 2
  MaxPosts = 2
  MaxGrants = 2
SYMMETRY Symmetry
VIEW View
INVARIANTS
  TypeOK
  DiscoveryPostsFirst
  PublishedIsRecorded
  ApprovalSpentOnce
  ClaimIsReleased
  ApprovedRevisionIsPosted

SPECIFICATION Spec
CONSTANTS
  h1 = h1
  h2 = h2
  repoA = repoA
  repoB = repoB
  org = org
  zai = zai
  Runners = {p1, p2}
  NoRunner = NoRunner
  Tools = {op}
  Heads = {h1}
  NoHead = NoHead
  Repo <- MCRepo
  Org <- MCOrg
  Provider <- MCOneProvider
  AutoClass <- MCAutoClass
  MaxJobs = 2
  MaxActive = 2
  MaxProvider = 2
  MaxOrg = 2
  MaxRepo = 2
  Reserve = 1
  MaxQueued = 2
  Aging = TRUE
SYMMETRY Symmetry
CONSTRAINT NotAllTaken
INVARIANTS
  TypeOK
  HeadReviewedByOne
PROPERTY SlotsAreKept

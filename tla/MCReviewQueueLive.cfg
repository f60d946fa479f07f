SPECIFICATION FairSpec
CONSTANTS
  h1 = h1
  h2 = h2
  repoA = repoA
  repoB = repoB
  org = org
  zai = zai
  Runners = {p1}
  NoRunner = NoRunner
  Tools = {}
  Heads = {h1, h2}
  NoHead = NoHead
  Repo <- MCRepo
  Org <- MCOrg
  Provider <- MCOneProvider
  AutoClass <- MCAutoClass
  MaxJobs = 2
  MaxActive = 1
  MaxProvider = 2
  MaxOrg = 3
  MaxRepo = 2
  Reserve = 1
  MaxQueued = 3
  Aging = TRUE
INVARIANTS
  ManualReserveHonoured
PROPERTY EveryJobSettles

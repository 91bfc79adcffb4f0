SPECIFICATION FairSpec
CONSTANTS
  j1 = j1
  j2 = j2
  home = home
  Jobs = {j1, j2}
  Paths = {home}
  HomePath = home
  Chunks = 2
  Life = 1
INVARIANTS InitOnce ClearsItsOwn OneDumpPerTab WroteMeansComplete
PROPERTIES MenuAppears DumpEnds

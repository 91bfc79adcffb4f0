SPECIFICATION FairSpec
CONSTANTS
  g1 = g1
  g2 = g2
  A = A
  B = B
  GameThreads = {g1}
  Names = {A, B}
  NoName = NoName
  GoneTime = 1
  Capacities = {1, 2, 3}
  Values <- MCValues
  Unset = Unset
INVARIANT CopiesBounded
 
CHECK_DEADLOCK FALSE

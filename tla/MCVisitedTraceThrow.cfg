SPECIFICATION Spec
CONSTANTS
  g1 = g1
  g2 = g2
  A = A
  B = B
  GameThreads = {g1, g2}
  Names = {A, B}
  NoName = NoName
  GoneTime = 1
  Capacities = {1, 2}
  Values <- MCValues
  Unset = Unset
INVARIANT NeverThrows
CHECK_DEADLOCK FALSE

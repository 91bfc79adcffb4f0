SPECIFICATION Spec
CONSTANTS
  game = game
  unity = unity
  a = a
  b = b
  w1 = w1
  w2 = w2
  g1 = g1
  Modules = {game, unity}
  Functions = {a, b}
  ModuleOf <- InLibrary
  Workers = {w1, w2}
  GameThreads = {}
  LogCapacity = 1
  None = None
INVARIANT StoppedIsClean

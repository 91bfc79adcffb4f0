SPECIFICATION FairSpec
CONSTANTS
  m1 = m1
  t1 = t1
  t2 = t2
  g1 = g1
  g2 = g2
  Methods = {m1}
  Togglers = {t1, t2}
  GameThreads = {g1, g2}
  CallStates <- AutoOffOn
  MaxHits = 2
  Free = Free
  None = None
INVARIANTS TypeOK RegistryConsistent NoDanglingListener SavedBytesOriginal HitsExact
PROPERTIES ImplementsAtomicHooks EveryCallReturns

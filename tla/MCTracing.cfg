SPECIFICATION FairSpec
CONSTANTS
  m1 = m1
  m2 = m2
  s1 = s1
  Order <- TwoMethods
  MaxFunctions = 1
  Stoppers = {s1}
  UserToggles <- JustToggle
INVARIANTS TypeOK CaptureAccounted SessionWithinLimit StartExclusive
PROPERTY CaptureSettles

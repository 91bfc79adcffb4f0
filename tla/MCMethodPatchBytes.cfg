SPECIFICATION Spec
CONSTANTS
  start = start
  isPro = isPro
  t1 = t1
  t2 = t2
  Methods = {start, isPro}
  Void = {start}
  Togglers = {t1}
  Cells = 4
  None = None
INVARIANT SavedIsOriginal

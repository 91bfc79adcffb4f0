SPECIFICATION Spec
CONSTANTS
  start = start
  isPro = isPro
  t1 = t1
  t2 = t2
  Methods = {isPro}
  Void = {}
  Togglers = {t1, t2}
  Cells = 3
  None = None
INVARIANTS TypeOK BytesAreOriginal ShownIsSo

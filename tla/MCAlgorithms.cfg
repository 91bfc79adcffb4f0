SPECIFICATION Spec
CONSTANTS
  AddrBits = 6
  IntBits = 4
  MaxOffset = 2
  MethodLists <- MCMethodLists
  PageSize = 4
  Layouts <- MCLayouts
  Replaced <- MCReplaced
  Biases = {8, 20}
  NoBase = 1000
  Half = 2
  Typed <- MCTyped
INVARIANTS LabelSound BaseRecovered OffsetsDoNotWrap ReturnsTyped
CHECK_DEADLOCK FALSE

CONSTANTS
  N = 3
  ShapesFor <- UnlistedShapesFor
  WordBits = 8
  PtrBits = 4
  NoConst = NoConst
  NoError = NoError
  StackBound = 8
SPECIFICATION Spec
INVARIANT SinkTableFollowed
CHECK_DEADLOCK FALSE

CONSTANTS
  N = 4
  ShapesFor <- ChecksFor
  WordBits = 8
  PtrBits = 4
  NoConst = NoConst
  NoError = NoError
  StackBound = 8
SPECIFICATION Spec
INVARIANT TypeOK
INVARIANT SpecSinksMasked
INVARIANT TolerantUsesUnmasked
INVARIANT SinkListMatchesClosure
PROPERTY Termination
CHECK_DEADLOCK FALSE

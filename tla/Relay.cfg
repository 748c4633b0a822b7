SPECIFICATION Spec
CONSTANTS
  Size = 3
  Budget = 2
  EncodeCap = 8
  EncodeBatchMax = 2
  WireCap = 5
  RecvCap = 7
  WriteBatchMax = 2
INVARIANTS Conserved EndComesLast
PROPERTIES StreamSpec Delivered Ends
CHECK_DEADLOCK FALSE

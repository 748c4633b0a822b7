SPECIFICATION Spec
CONSTANTS
  Attempts = 3
  MaxPayload = 2
  MaxPadding = 1
  SeqModulus = 2
  OutMax = 10
  InMax = 6
  None = None
  Flavors = {"v4", "shaped", "unshaped", "raw"}
CHECK_DEADLOCK FALSE
INVARIANTS
  FreshNonces
  InSync
PROPERTIES
  Delivered

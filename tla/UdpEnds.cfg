SPECIFICATION Spec
CONSTANTS
  Assocs = {a1, a2}
  Conns = {k1, k2}
  Addrs <- OneAddr
  ClientIp = "local"
  Kinds = {"ok"}
  Controls = 1
  ClientMax = 1
  ServerMax = 1
  Cap = 2
  MaxDatagrams = 2
  MaxReplies = 2
  Outbound = "direct"
  None = None
CHECK_DEADLOCK FALSE
PROPERTIES
  AssociationEnds

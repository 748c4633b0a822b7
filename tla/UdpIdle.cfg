SPECIFICATION Spec
CONSTANTS
  Assocs = {a1}
  Conns = {k1}
  Addrs <- OneAddr
  ClientIp = "local"
  Kinds = {"ok"}
  Controls = 1
  ClientMax = 1
  ServerMax = 1
  Cap = 2
  MaxDatagrams = 2
  MaxReplies = 2
  Outbound = "direct"
  None = None
CHECK_DEADLOCK FALSE
PROPERTIES
  IdleCloses

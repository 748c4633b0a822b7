SPECIFICATION Safety
CONSTANTS
  Assocs = {a1, a2}
  Conns = {k1, k2}
  Addrs <- MCAddrs
  ClientIp = "local"
  Kinds = {"ok", "frag", "bad", "big"}
  Controls = 2
  ClientMax = 1
  ServerMax = 1
  Cap = 4
  MaxDatagrams = 2
  MaxReplies = 2
  Outbound = "direct"
  None = None
SYMMETRY Symmetric
CHECK_DEADLOCK FALSE
INVARIANTS
  SlotsExact
  OneClient
  DatagramsInOrder

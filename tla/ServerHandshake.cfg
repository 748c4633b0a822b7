SPECIFICATION Spec
CONSTANTS
  Conns = {c1, c2}
  s1 = s1
  s2 = s2
  Streams <- MCStreams
  Selections = {"auto", "v4", "v6"}
  Permits = {1, 2}
  PrefixMax = 4
  EarlyMax = 1
  ShiftMax = 1
CHECK_DEADLOCK FALSE
INVARIANTS
  PermitsExact
  Handoff
  SaltOnce
PROPERTIES
  HandshakeEnds
  Admitted

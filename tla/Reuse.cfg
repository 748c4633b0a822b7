SPECIFICATION Spec
CONSTANTS
  Sessions = {s1, s2}
  Conns = {c1, c2}
  MaxSize = 1
  MaxData = 1
  None = None
  NoSession = NoSession
INVARIANTS OneOwner Isolated PooledIsQuiet
PROPERTIES Answered Reclaimed
CHECK_DEADLOCK FALSE

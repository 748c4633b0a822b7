SPECIFICATION Spec
CONSTANTS
  t1 = t1
  t2 = t2
  b1 = b1
  b2 = b2
  None = None
  Tasks = {t1, t2}
  Blocks = {b1, b2}
  Classes = {1, 2}
  Shards = 2
  CachedBlocks = 1
  MaxCached = 2
INVARIANTS
  LeasedExact
  Exclusive
PROPERTY
  EnsureEnds

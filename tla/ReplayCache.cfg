CONSTANTS
  Threads = {t1, t2}
  Salts = {a, b, c}
  Cap = 2
  TTL = 2
  MaxTime = 4
  MaxAccepted = 4
SYMMETRY Symmetry
SPECIFICATION Spec
INVARIANTS NoEarlyReplay IndexExact
CHECK_DEADLOCK FALSE

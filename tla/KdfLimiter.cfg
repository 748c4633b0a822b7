CONSTANTS
  Tasks = {t1, t2, t3, t4, t5}
  Inflight = 2
  Queued = 2
SPECIFICATION Spec
INVARIANTS PermitsConserved NoIdlePermit
PROPERTY QueuedRuns

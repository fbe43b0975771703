\* DBWrite: a manual compaction that is cancelled
SPECIFICATION Spec
CONSTANTS
  t1 = t1
  t2 = t2
  t3 = t3
  Nobody = Nobody
  Threads <- TwoThreads
  MemCapacity = 0
  Slowdown = 1
  Trigger = 1
  Stop = 2
  Kinds = {"put", "range"}
  Faults = {"background"}
  MaxCalls = 4
CHECK_DEADLOCK FALSE
SYMMETRY Interchangeable
INVARIANTS
  RoundsKeepTheirManual

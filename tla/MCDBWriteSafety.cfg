\* DBWrite: four calls by three threads, with failures
SPECIFICATION Spec
CONSTANTS
  t1 = t1
  t2 = t2
  t3 = t3
  Nobody = Nobody
  Threads <- ThreeThreads
  MemCapacity = 0
  Slowdown = 1
  Trigger = 1
  Stop = 2
  Kinds = {"put", "sync", "get", "flush"}
  Faults = {"append", "sync", "file", "background"}
  MaxCalls = 4
CHECK_DEADLOCK FALSE
SYMMETRY Interchangeable
INVARIANTS
  WritesAreKept
  ReadsAreComplete
  NobodyForgotten
PROPERTIES
  FlushFlushes

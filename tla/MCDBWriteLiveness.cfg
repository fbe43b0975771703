\* DBWrite: every call returns
SPECIFICATION FairSpec
CONSTANTS
  t1 = t1
  t2 = t2
  t3 = t3
  Nobody = Nobody
  Threads <- TwoThreads
  MemCapacity = 0
  Slowdown = 1
  Trigger = 1
  Stop = 2
  Kinds = {"put", "sync", "get", "flush", "range"}
  Faults = {"append", "sync", "file", "background"}
  MaxCalls = 3
CHECK_DEADLOCK FALSE
PROPERTIES
  CallsReturn
  CloseEnds

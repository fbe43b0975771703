\* MCStorage, the lock only: a process tries to open the database a second time
SPECIFICATION Spec
CONSTANTS
  Parts = {"lock"}
  BlockSize = 5
  HeaderSize = 2
  Sizes <- FewSizes
  Reuse = FALSE
  LogFaults = {"append", "sync"}
  MaxRecords = 3
  MaxFailures = 1
  MaxLogCrashes = 2
  Existing = FALSE
  Crashes = {"process", "machine"}
  Writeback = {}
  Faults = {"table", "manifest"}
  MaxEntries = 2
  MaxNumber = 5
  MaxCrashes = 1
  Keys = {1, 2}
  NumLevels = 3
  MaxMemLevel = 1
  Manual = TRUE
  Deletes = TRUE
  Cuts = "above deletions"
  MaxWrites = 3
  MaxSnapshots = 2
  Clients = {c1, c2, c3}
  Tables = {1, 2, 3}
  Hash <- HashThree
  Capacity = 2
  SmallestTable = 1
  ListKeys = {1, 2, 3}
  MaxHeight = 2
  IterKeys = {1, 2, 3}
  Flushed = 2
  Buffered = 1
  Inserted = 1
  Blocks = 2
  Openers = {1, 2, 3}
  Processes = {"p", "q"}
  ProcessOf <- FirstTwo
  Destroyers = {}
  Threads = {1, 2, 3, 4}
  MaxMmaps = 2
  MaxOpenFiles = 1
CHECK_DEADLOCK FALSE
INVARIANTS
  HeldByOneProcess

\* MCStorage, the levels only: outputs are cut anywhere, and what is deleted
\* comes back
SPECIFICATION Spec
CONSTANTS
  Parts = {"levels"}
  BlockSize = 5
  HeaderSize = 2
  Sizes <- FewSizes
  Reuse = FALSE
  LogFaults = {"append", "sync"}
  MaxRecords = 3
  MaxFailures = 1
  MaxLogCrashes = 2
  Existing = FALSE
  Crashes = {"process", "machine"}
  Writeback = {}
  Faults = {"table", "manifest"}
  MaxEntries = 2
  MaxNumber = 5
  MaxCrashes = 1
  Keys = {1, 2}
  NumLevels = 2
  MaxMemLevel = 0
  Manual = FALSE
  Deletes = TRUE
  Cuts = "anywhere"
  MaxWrites = 4
  MaxSnapshots = 1
  Clients = {c1, c2, c3}
  Tables = {1, 2, 3}
  Hash <- HashThree
  Capacity = 2
  SmallestTable = 1
  ListKeys = {1, 2, 3}
  MaxHeight = 2
  IterKeys = {1, 2, 3}
  Flushed = 2
  Buffered = 1
  Inserted = 1
  Blocks = 2
  Openers = {1, 2, 3}
  Processes = {"p", "q"}
  ProcessOf <- FirstTwo
  Destroyers = {1, 3}
  Threads = {1, 2, 3, 4}
  MaxMmaps = 2
  MaxOpenFiles = 1
CHECK_DEADLOCK FALSE
INVARIANTS
  ReadsFindTheLatest

\* MCStorage: all parts
\* log: three records, one append or sync that fails, two crashes
\* files: a new database, two entries, a table or a manifest that fails, a crash
\* levels: two keys, three writes or deletions, two snapshots
\* cache: three clients and tables, room for two, a hash table of one slot
\* list: three keys, two levels; the reader sees no other reader
\* iterator: three keys and four entries, two blocks, one may be damaged
\* lock: two threads of a process and one of another, DestroyDB by one of each
\* limiter: four threads, two maps and one descriptor
SPECIFICATION Spec
CONSTANTS
  Parts = {"log", "files", "levels", "cache", "list", "iterator", "lock", "limiter"}
  BlockSize = 5
  HeaderSize = 2
  Sizes <- FewSizes
  Reuse = FALSE
  LogFaults = {"append", "sync"}
  MaxRecords = 3
  MaxFailures = 1
  MaxLogCrashes = 2
  Existing = FALSE
  Crashes = {"process", "machine"}
  Writeback = {}
  Faults = {"table", "manifest"}
  MaxEntries = 2
  MaxNumber = 5
  MaxCrashes = 1
  Keys = {1, 2}
  NumLevels = 3
  MaxMemLevel = 1
  Manual = TRUE
  Deletes = TRUE
  Cuts = "above deletions"
  MaxWrites = 3
  MaxSnapshots = 2
  Clients = {c1, c2, c3}
  Tables = {1, 2, 3}
  Hash <- HashThree
  Capacity = 2
  SmallestTable = 1
  ListKeys = {1, 2, 3}
  MaxHeight = 2
  IterKeys = {1, 2, 3}
  Flushed = 2
  Buffered = 1
  Inserted = 1
  Blocks = 2
  Openers = {1, 2, 3}
  Processes = {"p", "q"}
  ProcessOf <- FirstTwo
  Destroyers = {1, 3}
  Threads = {1, 2, 3, 4}
  MaxMmaps = 2
  MaxOpenFiles = 1
SYMMETRY Symmetry
CHECK_DEADLOCK FALSE
INVARIANTS
  RecordsAreFound
  ReaderIsExact
  
  RecoveryIsExact
  VersionsExist
  
  
  
  CacheIsSound
  ReadersAreSafe
  FollowsTheMap
  LockIsKept
  LimitsAreKept

  

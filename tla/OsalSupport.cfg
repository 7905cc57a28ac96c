SPECIFICATION SupportSpec
CONSTANTS
  cb1 = cb1
  cb2 = cb2
  MutexThreads = {t1, t2}
  MutexSlots = {1, 2}
  MaxMutexId = 3
  MutexNames = {m, n}
  Settings <- DeadlockSettings
  Waits = {1, 2}
  Quiet = TRUE
  Nobody = Nobody
  TrackedObjects = {o1, o2}
  TrackedKeys <- SomeKeys
  TrackerSize = 2
  MaxTotal = 3
  NoKey = NoKey
  HeapThreads = {t1}
  HeapBlocks = {b1, b2}
  BlockSizes = {1, 3}
  HeapWord = 16
  HeapPercents = {0, 3}
  HeapFull = 4
  HeapProc <- ProcReadings
  LogLevels = {1, 3}
  LogSizes = {1, 2}
  LogCounts = {1, 2, 4}
  MaxLogFiles = 5
  MaxLines = 4
  QueueDepth = 2
CHECK_DEADLOCK FALSE
INVARIANTS
  MutexPointers
  MutexReport
  TrackerExact
  HeapUsage
  LogBackupsInOrder
PROPERTIES
  MutexTimedReturns
  AppShutsDown

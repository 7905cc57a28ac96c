CONSTANTS
  Clients = {c1, c2}
  Creators = {c1}
  Exclusive = TRUE
  NTasks = 2
  MaxThreads = 3
  Pthreads = {P1, P2}
  Names = {p, q}
  Cooperative = {1, 3}
  None = None
CHECK_DEADLOCK FALSE
SPECIFICATION FairSpec
INVARIANTS IdsExact OwnRecord SyncLive ExitNotLost LeaksSeen
PROPERTIES ImplementsService DeleteReturns AskedEnds

CONSTANTS
  Clients = {c1}
  Creators = {c1}
  Exclusive = TRUE
  NTasks = 1
  MaxThreads = 2
  Pthreads = {P1, P2}
  Names = {p}
  Cooperative = {1}
  None = None
CHECK_DEADLOCK FALSE
SPECIFICATION Spec
INVARIANT StopOnlyIfAsked

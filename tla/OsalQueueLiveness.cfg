CONSTANTS
  t1 = t1
  t2 = t2
  t3 = t3
  Threads = {t1, t2, t3}
  Creators = {t1}
  NSlots = 1
  MaxId = 1
  Depth = 1
  Names = {q}
  Msgs = {a}
  TooBig = TooBig
  NoMsg = NoMsg
  None = None
CHECK_DEADLOCK FALSE
SPECIFICATION FairSpec
PROPERTIES DeletedIsFreed BlockedCallReturns

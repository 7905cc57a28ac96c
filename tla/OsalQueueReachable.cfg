CONSTANTS
  t1 = t1
  t2 = t2
  t3 = t3
  Threads = {t1, t2, t3}
  Creators = {t1, t2}
  NSlots = 1
  MaxId = 2
  Depth = 1
  Names = {p, q}
  Msgs = {a}
  TooBig = TooBig
  NoMsg = NoMsg
  None = None
CHECK_DEADLOCK FALSE
SPECIFICATION Spec
INVARIANT Reachable

CONSTANTS
  t1 = t1
  t2 = t2
  t3 = t3
  Threads = {t1, t2, t3}
  Creators = {t1}
  NSlots = 1
  MaxId = 1
  Depth = 2
  Names = {q}
  Msgs = {a, b}
  TooBig = TooBig
  NoMsg = NoMsg
  None = None
CHECK_DEADLOCK FALSE
SPECIFICATION Spec
INVARIANTS NoLostWakeup GetReportsDelivery
PROPERTIES ImplementsFifo
SYMMETRY OneCreatesSymmetry

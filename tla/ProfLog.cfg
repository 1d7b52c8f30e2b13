SPECIFICATION Spec
CONSTANTS
  Threads = {t1, t2, t3}
  MAX_TID = 3
  ARR_SIZE = 2
  MaxCalls = 3
  Signals = {"TERM"}
  Raw = raw
  Nil = nil
INVARIANTS OneOwnerEach LogComplete DumpedOnce LockNotReentered
PROPERTY ExitEnds
CHECK_DEADLOCK FALSE

SPECIFICATION Spec
CONSTANTS
  Threads = {t1, t2}
  Starts = {0, 1, 3}
  Sizes = {1, 3}
  Entries = {n1, n2}
  PageSize = 2
  ROUTE_THRESHOLD = 2
  MLOCK_FIRST_N = 1
  MlockBudget = 3
  MaxInt = 2
  MaxSize = 5
  HotList = TRUE
  Failures = {"libc", "entry", "mlock"}
  Nobody = nobody
  Nil = nil
INVARIANTS EntriesMatchBlocks LockedPagesAreUsed
SYMMETRY MCSymmetry

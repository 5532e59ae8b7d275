SPECIFICATION LockSpec
CONSTANTS
  t1 = t1
  t2 = t2
  a = a
  b = b
  Threads = {t1, t2}
  Keys = {a, b}
  NamesOf <- Mixed
  FileLocks = TRUE
  TimeLimits = TRUE
  LongHeld = FALSE
  Throws = FALSE
  MaxLocks = 2
INVARIANT
  NoFileLeft
CHECK_DEADLOCK FALSE

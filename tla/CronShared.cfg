SPECIFICATION Spec
CONSTANTS
  Procs = {p1, p2}
  Jobs = {j1}
  Chats = {c1}
  TaskIds = {t1, t2}
  MaxConcurrent = 1
  MaxFailures = 2
  MaxPerChat = 1
  RetryDelay = 1
  Delays = {1}
  RunLimits = {0}
  MaxTime = 1
  RunBound = 0
  Dreaming = FALSE
  DbFaults = FALSE
CHECK_DEADLOCK FALSE
INVARIANT NoDuplicateFire

SPECIFICATION Spec
CONSTANTS
  Procs = {p1}
  Jobs = {j1, j2}
  Chats = {c1}
  TaskIds = {t1, t2}
  MaxConcurrent = 2
  MaxFailures = 2
  MaxPerChat = 1
  RetryDelay = 1
  Delays = {1}
  RunLimits = {2}
  MaxTime = 2
  RunBound = 1
  Dreaming = FALSE
  DbFaults = TRUE
SYMMETRY TaskJobSymmetry
CHECK_DEADLOCK FALSE
INVARIANTS
  TypeOK
  NoDuplicateFire
  SnapshotIsCurrent
  FailingJobIsOff
  QuotaHolds
  InactiveForAReason
PROPERTIES
  InactiveIsFinal
  ExhaustedJobStops

SPECIFICATION FairSpec
CONSTANTS
  Procs = {p1}
  Jobs = {j1, j2}
  Chats = {c1}
  TaskIds = {t1, t2}
  MaxConcurrent = 1
  MaxFailures = 2
  MaxPerChat = 2
  RetryDelay = 1
  Delays = {1}
  RunLimits = {0}
  MaxTime = 2
  RunBound = 0
  Dreaming = TRUE
  DbFaults = FALSE
CHECK_DEADLOCK FALSE
INVARIANTS
  NoOrphanClaim
  FiresWithinLimit
PROPERTIES
  DueJobIsClaimed
  ClaimIsReleased

SPECIFICATION Spec
CONSTANTS
  Chats = {c1}
  NewIds = {n1}
  Msgs = {m1, m2}
  Observed = {}
  NoSession = NoSession
  NoRun = NoRun
CHECK_DEADLOCK FALSE
INVARIANT QueueHasAWorker

SPECIFICATION FairSpec
CONSTANTS
  Chats = {c1}
  NewIds = {n1, n2}
  Msgs = {m1, m2}
  Observed = {}
  NoSession = NoSession
  NoRun = NoRun
CHECK_DEADLOCK FALSE
PROPERTIES
  SwitchesAreSavedInOrder
  QueuedIsTaken
  StopReturns

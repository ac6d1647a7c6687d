SPECIFICATION Spec
CONSTANTS
  Chats = {c1}
  NewIds = {n1}
  Msgs = {m1, m2, m3, o1}
  Observed = {o1}
  NoSession = NoSession
  NoRun = NoRun
SYMMETRY MsgSymmetry
CHECK_DEADLOCK FALSE
INVARIANTS
  TypeOK
  LiveRunIsTracked
  QueueHasAWorkerUnlessEarly
  TakenInOrder
  SeesWhatWasAnswered
  NoRunOutlivesStop
PROPERTIES
  ImplementsLane

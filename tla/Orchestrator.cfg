SPECIFICATION FairSpec
CONSTANTS
  Tasks = {k1, k2}
  Sessions = {s1}
  MaxChildren = 1
  Runs = {r1, r2}
  NoRun = NoRun
  SessionOf <- OneSession
  DrawnBy <- FirstByMain
  Main = r1
  First = k1
  Concurrency = 1
  Awaited = {k1}
  Faulty = {k2}
CHECK_DEADLOCK FALSE
INVARIANTS
  StoppedStaysCancelled
  OutcomeIsTold
  ChildLimit
  SlotIsNotLeaked
PROPERTY RunGetsItsTurn

SPECIFICATION FairSpec
CONSTANTS
  Tasks = {k1}
  Sessions = {s1}
  MaxChildren = 1
  Runs = {r1}
  NoRun = NoRun
  SessionOf <- OneSession
  DrawnBy <- FirstByMain
  Main = r1
  First = k1
  Concurrency = 1
  Awaited = {k1}
  Faulty = {}
CHECK_DEADLOCK FALSE
INVARIANT WaiterIsAnswered

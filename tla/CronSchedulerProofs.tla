------------------------ MODULE CronSchedulerProofs ------------------------
(* Proofs about CronScheduler. *)
EXTENDS CronScheduler, FiniteSetTheorems, TLAPS

USE DEF NoLimit, Claims

LEMMA BlankRowType == BlankRow \in Row
<1>1. (CHOOSE c \in Chats : TRUE) \in Chats
  BY ConstantsAssumption
<1> QED
  BY <1>1 DEF BlankRow, Row, Modes

LEMMA FlagsType ==
  ASSUME NEW r \in Row
  PROVE  /\ [r EXCEPT !.claimed = FALSE] \in Row
         /\ [r EXCEPT !.claimed = TRUE] \in Row
         /\ [r EXCEPT !.active = FALSE, !.claimed = FALSE] \in Row
  BY DEF Row

(* The two updates that settle a fire keep a row a row. *)
LEMMA SettledRowType ==
  ASSUME NEW r \in Row, NEW n \in Nat, NEW b \in BOOLEAN, now \in Nat
  PROVE  /\ [Completed(r) EXCEPT !.next = n] \in Row
         /\ [Completed(r) EXCEPT !.next = n, !.active = FALSE] \in Row
         /\ Failed(r, b) \in Row
<1>1. /\ [Completed(r) EXCEPT !.next = n] \in Row
      /\ [Completed(r) EXCEPT !.next = n, !.active = FALSE] \in Row
  <2>1. Completed(r) \in Row
    <3>1. r.runs + 1 \in Nat
      BY DEF Row
    <3>2. ASSUME NEW k \in Nat
          PROVE  [r EXCEPT !.runs = k, !.claimed = FALSE, !.fails = 0] \in Row
      BY DEF Row
    <3> QED
      BY <3>1, <3>2 DEF Completed
  <2>2. ASSUME NEW c \in Row
        PROVE  /\ [c EXCEPT !.next = n] \in Row
               /\ [c EXCEPT !.next = n, !.active = FALSE] \in Row
    BY DEF Row
  <2> QED
    BY <2>1, <2>2
<1>2. Failed(r, b) \in Row
  <2>1. /\ (r.active /\ ~b) \in BOOLEAN
        /\ now + RetryDelay \in Nat
        /\ r.fails + 1 \in Nat
    BY ConstantsAssumption DEF Row
  <2>2. ASSUME NEW a \in BOOLEAN, NEW k \in Nat, NEW f \in Nat
        PROVE  [r EXCEPT !.claimed = FALSE, !.fails = f, !.next = k,
                         !.active = a] \in Row
    BY DEF Row
  <2> QED
    BY <2>1, <2>2 DEF Failed
<1> QED
  BY <1>1, <1>2

LEMMA NextFireType ==
  ASSUME NEW snap \in Row, NEW at \in Nat
  PROVE  NextFire(snap, at) \subseteq Nat
  BY ConstantsAssumption DEF NextFire, Row, Modes

LEMMA RecomputedType ==
  ASSUME NEW old \in Row, NEW m \in Modes, NEW d \in Delays \cup {0},
         NEW x \in RunLimits, now \in Nat
  PROVE  Recomputed(old, m, d, x) \subseteq Row
<1>1. /\ BlankRow \in Row /\ m \in Modes /\ d \in Nat /\ x \in Nat
      /\ Delays \subseteq Nat /\ old.next \in Nat /\ old.every \in Nat
      /\ old.fireAt \in Nat /\ old.max \in Nat
  BY BlankRowType, ConstantsAssumption DEF Row
<1> DEFINE at  == IF d = 0 THEN old.fireAt ELSE now + d
           len == IF d = 0 THEN old.every ELSE d
           times == CASE m = "once"     -> {n \in {at} : n > now}
                      [] m = "interval" -> {n \in {now + len, old.next} :
                                              /\ len # 0
                                              /\ n = now + len \/ (d = 0 /\ m = old.mode)}
                      [] m = "cron"     -> {now + n : n \in Delays}
           new(n) == [BlankRow EXCEPT !.mode = m, !.next = n,
             !.max    = IF m = "once" THEN NoLimit ELSE IF x = NoLimit THEN old.max ELSE x,
             !.fireAt = IF m = "once" THEN n ELSE 0,
             !.every  = IF m = "interval" THEN len ELSE 0]
<1>2. at \in Nat /\ len \in Nat
  BY <1>1
<1>3. times \subseteq Nat
  BY <1>1, <1>2 DEF Modes
<1>4. \A n \in Nat : new(n) \in Row
  BY <1>1, <1>2 DEF Row, Modes
<1>5. Recomputed(old, m, d, x) = {new(n) : n \in times}
  BY DEF Recomputed
<1> HIDE DEF times, new
<1> QED
  BY <1>3, <1>4, <1>5

LEMMA AvailableType ==
  ASSUME NEW p \in Procs
  PROVE  Available(p) \in Nat
<1>1. IsFiniteSet(TasksOf(p))
  BY ConstantsAssumption, FS_Subset DEF TasksOf
<1>2. InUse(p) \in Nat
  BY <1>1, FS_CardinalityType DEF InUse
<1> QED
  BY <1>2, ConstantsAssumption DEF Available

LEMMA EveryRowType ==
  ASSUME TypeOK, NEW j \in Jobs, NEW r \in Row
  PROVE  [row EXCEPT ![j] = r] \in [Jobs -> Row]
  BY DEF TypeOK

(* What each operation does to the database variables is well typed. *)
LEMMA StatusType ==
  ASSUME NEW x \in Task, x.st # "free", NEW s \in Claims \cup {"reporting"}
  PROVE  [x EXCEPT !.st = s] \in Task
  BY DEF Task, NoTask

LEMMA SettleType ==
  ASSUME TypeOK, NEW t \in TaskIds, CompleteFire(t) \/ MarkFailed(t)
  PROVE  row' \in [Jobs -> Row] /\ task' \in [TaskIds -> Task]
<1> DEFINE j == task[t].job
<1>1. /\ j \in Jobs /\ task[t].snap \in Row /\ row[j] \in Row /\ now \in Nat
      /\ row \in [Jobs -> Row]
  BY DEF TypeOK, CompleteFire, MarkFailed, Task, NoTask, Claims
<1>2. task' \in [TaskIds -> Task]
  <2>1. NoTask \in Task
    BY DEF Task
  <2>2. task[t].st = "failed" => [task[t] EXCEPT !.st = "reporting"] \in Task
    BY StatusType DEF TypeOK
  <2> QED
    BY <2>1, <2>2 DEF TypeOK, CompleteFire, MarkFailed, Free
<1>3. ASSUME NEW r \in Row, UpdateRow(j, r)
      PROVE  row' \in [Jobs -> Row]
  BY <1>1, <1>3 DEF UpdateRow
<1> SUFFICES row' \in [Jobs -> Row]
  BY <1>2
<1>4. CASE CompleteFire(t)
  <2>1. CASE UpdateRow(j, [Completed(row[j]) EXCEPT !.next = now, !.active = FALSE])
    <3>1. [Completed(row[j]) EXCEPT !.next = now, !.active = FALSE] \in Row
      BY <1>1, SettledRowType
    <3> HIDE DEF j
    <3> QED
      BY <2>1, <3>1, <1>3
  <2>2. ASSUME NEW n \in NextFire(task[t].snap, now),
               UpdateRow(j, [Completed(row[j]) EXCEPT !.next = n])
        PROVE  row' \in [Jobs -> Row]
    <3>1. n \in Nat
      BY <1>1, NextFireType
    <3>2. [Completed(row[j]) EXCEPT !.next = n] \in Row
      BY <1>1, <3>1, SettledRowType
    <3> HIDE DEF j
    <3> QED
      BY <2>2, <3>2, <1>3
  <2> QED
    BY <1>4, <2>1, <2>2 DEF CompleteFire
<1>5. CASE MarkFailed(t)
  <2>1. UpdateRow(j, Failed(row[j], GivesUp(task[t].snap)))
    BY <1>5 DEF MarkFailed
  <2>2. GivesUp(task[t].snap) \in BOOLEAN
    BY DEF GivesUp
  <2>3. Failed(row[j], GivesUp(task[t].snap)) \in Row
    BY <1>1, <2>2, SettledRowType
  <2> QED
    BY <2>1, <2>3, <1>3
<1> QED
  BY <1>4, <1>5

LEMMA ClaimType ==
  ASSUME TypeOK, NEW S, Claim(S)
  PROVE  row' \in [Jobs -> Row]
<1>1. \A j \in Jobs : row[j] \in Row /\ [row[j] EXCEPT !.claimed = TRUE] \in Row
  BY FlagsType DEF TypeOK
<1> QED
  BY <1>1 DEF Claim

(* The claim of the jobs S, held as the tasks T. *)
ClaimedAs(p, S, T) ==
  \E g \in [T -> S] :
    /\ \A a, b \in T : g[a] = g[b] => a = b
    /\ \A j \in S : \E t \in T : g[t] = j
    /\ Claim(S)
    /\ task' = [t \in TaskIds |->
                 IF t \in T
                 THEN [st |-> "claimed", proc |-> p, job |-> g[t],
                       snap |-> row[g[t]]]
                 ELSE task[t]]

LEMMA TypeStep == TypeOK /\ [Next]_vars => TypeOK'
<1> SUFFICES ASSUME TypeOK, [Next]_vars
             PROVE  TypeOK'
  OBVIOUS
<1> USE DEF dbVars, procVars
<1>1. CASE Tick
  BY <1>1 DEF TypeOK, Tick
<1>2. ASSUME NEW p \in Procs, Start(p) \/ Stop(p) \/ Stopped(p) \/ Crash(p)
      PROVE  TypeOK'
  <2>1. CASE Start(p)
    <3>1. row' \in [Jobs -> Row]
      BY <2>1, FlagsType DEF Start, ReleaseStaleClaims, TypeOK
    <3> QED
      BY <2>1, <3>1 DEF TypeOK, Start
  <2>2. CASE Stop(p)
    <3>1. row' \in [Jobs -> Row]
      BY <2>2, ClaimType DEF Stop
    <3>2. task' \in [TaskIds -> Task]
      BY <2>2 DEF TypeOK, Stop, Task
    <3> QED
      BY <2>2, <3>1, <3>2 DEF TypeOK, Stop, Sleeping
  <2>3. CASE Stopped(p)
    BY <2>3 DEF TypeOK, Stopped, Call
  <2>4. CASE Crash(p)
    BY <2>4 DEF TypeOK, Crash, Task, Call, Sleeping
  <2> QED
    BY <1>2, <2>1, <2>2, <2>3, <2>4
<1>3. ASSUME NEW p \in Procs, Poll(p) \/ DreamingEnds(p)
      PROVE  TypeOK'
  <2>1. CASE PollTick(p)
    <3>1. Available(p) \in Nat
      BY AvailableType
    <3> QED
      BY <2>1, <3>1, ConstantsAssumption DEF TypeOK, PollTick
  <2>2. CASE ClaimDueJobs(p)
    <3>0. PICK S \in FirstDue(poll[p].limit),
               T \in SUBSET {t \in TaskIds : task[t].st = "free"} : ClaimedAs(p, S, T)
      BY <2>2 DEF ClaimDueJobs, ClaimedAs
    <3>1. PICK g \in [T -> S] :
            /\ Claim(S)
            /\ task' = [t \in TaskIds |->
                 IF t \in T
                 THEN [st |-> "claimed", proc |-> p, job |-> g[t],
                       snap |-> row[g[t]]]
                 ELSE task[t]]
      BY <3>0 DEF ClaimedAs
    <3>2. S \subseteq Jobs
      BY DEF FirstDue, Due, TypeOK
    <3>3. \A j \in Jobs : row[j] \in Row
      BY DEF TypeOK
    <3>4. row' \in [Jobs -> Row]
      BY <3>1, ClaimType
    <3>5. \A t \in T : [st |-> "claimed", proc |-> p, job |-> g[t],
                        snap |-> row[g[t]]] \in Task
      BY <3>2, <3>3 DEF Task, Claims
    <3>6. task' \in [TaskIds -> Task]
      BY <3>1, <3>5 DEF TypeOK
    <3> QED
      BY <2>2, <3>4, <3>6 DEF TypeOK, ClaimDueJobs
  <2>3. CASE DispatchFires(p)
    <3>1. task' \in [TaskIds -> Task]
      BY <2>3, StatusType DEF DispatchFires, TypeOK, NoTask, Claims
    <3> QED
      BY <2>3, <3>1 DEF TypeOK, DispatchFires, Sleeping
  <2>4. CASE DreamingEnds(p)
    BY <2>4 DEF TypeOK, DreamingEnds
  <2>5. CASE ClaimRaises(p)
    <3>1. row' \in [Jobs -> Row]
      BY <2>5, ClaimType DEF ClaimRaises
    <3> QED
      BY <2>5, <3>1 DEF TypeOK, ClaimRaises, Sleeping
  <2> QED
    BY <1>3, <2>1, <2>2, <2>3, <2>4, <2>5 DEF Poll
<1>4. ASSUME NEW p \in Procs, Tools(p)
      PROVE  TypeOK'
  <2>1. ASSUME NEW j \in Jobs, NEW c \in Chats, CountForInsert(p, j, c)
        PROVE  TypeOK'
    <3>1. PICK m \in Modes, d \in Delays, x \in RunLimits :
            insert' = [insert EXCEPT ![p] =
              [st |-> "pending", job |-> j,
               row |-> [chat |-> c, mode |-> m,
                        fireAt |-> IF m = "once" THEN now + d ELSE 0,
                        every |-> IF m = "interval" THEN d ELSE 0,
                        max |-> x, runs |-> 0, fails |-> 0,
                        active |-> TRUE, claimed |-> FALSE, next |-> now + d]]]
      BY <2>1 DEF CountForInsert
    <3>2. now + d \in Nat /\ d \in Nat /\ x \in Nat
      BY ConstantsAssumption DEF TypeOK
    <3>3. ASSUME NEW r \in Row
          PROVE  [insert EXCEPT ![p] = [st |-> "pending", job |-> j, row |-> r]]
                   \in [Procs -> Call(issued \cup {j})]
      BY DEF TypeOK, Call
    <3>4. [chat |-> c, mode |-> m,
           fireAt |-> IF m = "once" THEN now + d ELSE 0,
           every |-> IF m = "interval" THEN d ELSE 0,
           max |-> x, runs |-> 0, fails |-> 0,
           active |-> TRUE, claimed |-> FALSE, next |-> now + d] \in Row
      BY <3>2 DEF Row
    <3>5. issued' = issued \cup {j}
      BY <2>1 DEF CountForInsert
    <3>6. insert' \in [Procs -> Call(issued')]
      BY <3>1, <3>3, <3>4, <3>5
    <3> QED
      BY <2>1, <3>6 DEF TypeOK, CountForInsert
  <2>2. CASE InsertRow(p)
    <3>1. insert[p].job \in Jobs /\ insert[p].row \in Row
      BY <2>2 DEF TypeOK, InsertRow, LockFree, Call, NoCall
    <3>2. insert[p].job \in issued
      BY <2>2 DEF TypeOK, InsertRow, LockFree, Call, NoCall
    <3> QED
      BY <2>2, <3>1, <3>2 DEF TypeOK, InsertRow, Call
  <2>3. ASSUME NEW j \in Jobs, CancelJob(p, j) \/ DeleteJob(p, j)
        PROVE  TypeOK'
    <3>1. [row[j] EXCEPT !.active = FALSE, !.claimed = FALSE] \in Row
      BY FlagsType DEF TypeOK
    <3>2. CASE CancelJob(p, j)
      <4>1. row' \in [Jobs -> Row]
        BY <3>1, <3>2 DEF TypeOK, CancelJob
      <4> QED
        BY <3>2, <4>1 DEF TypeOK, CancelJob, Active
    <3>3. CASE DeleteJob(p, j)
      BY <3>3, BlankRowType DEF TypeOK, DeleteJob
    <3> QED
      BY <2>3, <3>2, <3>3
  <2>4. ASSUME NEW j \in Jobs, UpdateReads(p, j)
        PROVE  TypeOK'
    <3>1. PICK m \in Modes, d \in Delays \cup {0}, x \in RunLimits :
            \E new \in Recomputed(row[j], m, d, x) :
              update' = [update EXCEPT ![p] = [st |-> "pending", job |-> j, row |-> new]]
      BY <2>4 DEF UpdateReads
    <3>2. Recomputed(row[j], m, d, x) \subseteq Row
      BY RecomputedType DEF TypeOK
    <3>3. update' \in [Procs -> Call(Jobs)]
      BY <3>1, <3>2 DEF TypeOK, Call
    <3> QED
      BY <2>4, <3>3 DEF TypeOK, UpdateReads
  <2>5. CASE UpdateWrites(p)
    <3> DEFINE j == update[p].job
               new == update[p].row
    <3>1. j \in Jobs /\ new \in Row
      BY <2>5 DEF TypeOK, UpdateWrites, Call, NoCall
    <3>2. ASSUME NEW r \in Row
          PROVE  [r EXCEPT !.mode = new.mode, !.max = new.max,
                    !.fireAt = new.fireAt, !.every = new.every,
                    !.next = new.next, !.fails = 0] \in Row
      BY <3>1 DEF Row
    <3>3. row' \in [Jobs -> Row]
      BY <2>5, <3>1, <3>2 DEF TypeOK, UpdateWrites
    <3> QED
      BY <2>5, <3>3 DEF TypeOK, UpdateWrites, Call
  <2>6. CASE ToolAbandoned(p)
    BY <2>6 DEF TypeOK, ToolAbandoned, Call
  <2> QED
    BY <1>4, <2>1, <2>2, <2>3, <2>4, <2>5, <2>6 DEF Tools
<1>5. ASSUME NEW t \in TaskIds, Fire(t)
      PROVE  TypeOK'
  <2>1. CASE CompleteFire(t) \/ MarkFailed(t)
    BY <2>1, SettleType DEF TypeOK, CompleteFire, MarkFailed
  <2>2. CASE FireReturns(t) \/ FireRaises(t) \/ ErrorSent(t) \/ CancelFire(t) \/ SettlingRaises(t)
    <3>1. NoTask \in Task
      BY DEF Task
    <3>2. Begun(t) => \A s \in Claims : [task[t] EXCEPT !.st = s] \in Task
      BY StatusType DEF TypeOK, Begun
    <3>3. task' \in [TaskIds -> Task]
      BY <2>2, <3>1, <3>2 DEF TypeOK, FireReturns, FireRaises, ErrorSent, CancelFire,
                  SettlingRaises, Free, Claims
    <3> QED
      BY <2>2, <3>3 DEF TypeOK, FireReturns, FireRaises, ErrorSent, CancelFire, SettlingRaises
  <2> QED
    BY <1>5, <2>1, <2>2 DEF Fire
<1>6. CASE UNCHANGED vars
  BY <1>6 DEF TypeOK, vars
<1> QED
  BY <1>1, <1>2, <1>3, <1>4, <1>5, <1>6 DEF Next

(* Every variable keeps its type, for any number of processes, jobs and
   tasks and every configuration of the scheduler. *)
THEOREM TypeCorrect == Spec => []TypeOK
<1>1. Init => TypeOK
  BY BlankRowType DEF Init, TypeOK, Task, Call, Sleeping
<1> QED
  BY <1>1, TypeStep, PTL DEF Spec

(***************************************************************************)
(* The inductive invariant of one process on its database.                 *)
(***************************************************************************)
OneProcess == \E p : Procs = {p}

FiredJobsAreIssued == \A t \in TaskIds : Live(t) => task[t].job \in issued

(* An insert that has counted the quota inserts a fresh, unfired job. *)
InsertsAreFresh ==
  \A p \in Procs : ~LockFree(p) =>
    /\ insert[p].job \notin stored
    /\ \A t \in TaskIds : Live(t) => task[t].job # insert[p].job
    /\ insert[p].row.active
    /\ insert[p].row.fails = 0

TasksHaveAProcess == \A t \in TaskIds : Live(t) => proc[task[t].proc] # "down"

(* Outside "up" the poll loop is gone, with the batch it held. *)
NoBatchUnlessUp ==
  \A p \in Procs : proc[p] # "up" =>
    /\ poll[p].pc = "sleeping"
    /\ \A t \in TaskIds : task[t].st = "claimed" => task[t].proc # p

Jobwise == /\ NoDuplicateFire /\ SnapshotIsCurrent
           /\ FiredJobsAreIssued /\ InsertsAreFresh
           /\ FailingJobIsOff /\ InactiveForAReason

Taskwise == TasksHaveAProcess /\ NoBatchUnlessUp

(* The quota holds, with room for the insert that has counted it. *)
QuotaInv ==
  /\ IsFiniteSet(stored)
  /\ QuotaHolds
  /\ \A p \in Procs : ~LockFree(p) => HasRoom(insert[p].row.chat)

IInv == TypeOK /\ Jobwise /\ Taskwise /\ QuotaInv

(* A step that leaves the database alone and may end tasks and inserts. *)
Quiet ==
  /\ UNCHANGED dbVars
  /\ \A t \in TaskIds : Live(t)' => /\ Live(t)
                                    /\ task'[t].job = task[t].job
                                    /\ task'[t].snap = task[t].snap
  /\ \A p \in Procs : insert'[p] = insert[p] \/ insert'[p] = NoCall

LEMMA SnapshotFields ==
  ASSUME NEW r \in Row, NEW s \in Row, r = [s EXCEPT !.claimed = TRUE]
  PROVE  /\ r.claimed
         /\ r.fails = s.fails /\ r.runs = s.runs /\ r.max = s.max
         /\ r.mode = s.mode /\ r.active = s.active
  BY DEF Row

LEMMA TaskFields ==
  ASSUME TypeOK, NEW t \in TaskIds, Live(t)
  PROVE  /\ task[t].job \in Jobs /\ task[t].snap \in Row /\ task[t].proc \in Procs
         /\ row[task[t].job] \in Row
  BY DEF TypeOK, Task, NoTask, Live

(* What the snapshot of a live fire tells about its row. *)
LEMMA SnapshotTells ==
  ASSUME TypeOK, SnapshotIsCurrent, NEW t \in TaskIds, Live(t), Active(task[t].job)
  PROVE  LET r == row[task[t].job]
             s == task[t].snap
         IN /\ r.claimed
            /\ r.fails = s.fails /\ r.runs = s.runs /\ r.max = s.max
            /\ r.mode = s.mode /\ r.active = s.active
  BY TaskFields, SnapshotFields, ZenonT(40) DEF SnapshotIsCurrent

LEMMA QuietSteps ==
  ASSUME TypeOK,
         \/ Tick
         \/ \E p \in Procs : \/ Stopped(p) \/ Crash(p) \/ ToolAbandoned(p)
                             \/ PollTick(p) \/ DispatchFires(p) \/ DreamingEnds(p)
                             \/ \E j \in Jobs : UpdateReads(p, j)
         \/ \E t \in TaskIds : \/ FireReturns(t) \/ FireRaises(t) \/ ErrorSent(t)
                               \/ CancelFire(t) \/ SettlingRaises(t)
  PROVE  Quiet
<1> USE DEF Quiet, dbVars, procVars, Live, Claims
<1>1. CASE Tick
  BY <1>1 DEF Tick
<1>2. ASSUME NEW p \in Procs, Stopped(p) \/ Crash(p) \/ ToolAbandoned(p)
      PROVE  Quiet
  BY <1>2 DEF Stopped, Crash, ToolAbandoned, TypeOK, NoTask
<1>3. ASSUME NEW p \in Procs,
             PollTick(p) \/ DreamingEnds(p) \/ \E j \in Jobs : UpdateReads(p, j)
      PROVE  Quiet
  BY <1>3 DEF PollTick, DreamingEnds, UpdateReads
<1>4. ASSUME NEW p \in Procs, DispatchFires(p)
      PROVE  Quiet
  <2>1. ASSUME NEW t \in TaskIds, task[t].st = "claimed"
        PROVE  /\ [task[t] EXCEPT !.st = "running"].job = task[t].job
               /\ [task[t] EXCEPT !.st = "running"].snap = task[t].snap
    BY <2>1 DEF TypeOK, Task, NoTask
  <2> QED
    BY <1>4, <2>1 DEF DispatchFires
<1>5. ASSUME NEW t \in TaskIds,
             \/ FireReturns(t) \/ FireRaises(t) \/ ErrorSent(t)
             \/ CancelFire(t) \/ SettlingRaises(t)
      PROVE  Quiet
  <2>1. CASE Free(t)
    BY <1>5, <2>1 DEF FireReturns, FireRaises, ErrorSent, CancelFire, SettlingRaises, Free,
                      NoTask, TypeOK
  <2>2. ASSUME NEW s \in {"succeeded", "failed", "cancelled"}, Begun(t),
               task' = [task EXCEPT ![t].st = s]
        PROVE  Quiet
    <3>1. \A u \in TaskIds : /\ task[t].st # "free"
                             /\ task'[u].job = task[u].job
                             /\ task'[u].snap = task[u].snap
                             /\ u # t => task'[u] = task[u]
      BY <2>2 DEF TypeOK, Task, NoTask, Begun
    <3> QED
      BY <1>5, <2>2, <3>1 DEF FireReturns, FireRaises, ErrorSent, CancelFire, SettlingRaises, Begun
  <2> QED
    BY <1>5, <2>1, <2>2 DEF FireReturns, FireRaises, ErrorSent, CancelFire, SettlingRaises
<1> QED
  BY <1>1, <1>2, <1>3, <1>4, <1>5

LEMMA QuietJobwise == Jobwise /\ Quiet => Jobwise'
<1> SUFFICES ASSUME Jobwise, Quiet
             PROVE  Jobwise'
  OBVIOUS
<1> USE DEF Jobwise, Quiet, dbVars
<1>1. NoDuplicateFire'
  BY DEF NoDuplicateFire
<1>2. SnapshotIsCurrent'
  BY DEF SnapshotIsCurrent, Active
<1>3. FiredJobsAreIssued'
  BY DEF FiredJobsAreIssued
<1>4. InsertsAreFresh'
  BY DEF InsertsAreFresh, LockFree, NoCall
<1>5. FailingJobIsOff' /\ InactiveForAReason'
  BY DEF FailingJobIsOff, InactiveForAReason
<1> QED
  BY <1>1, <1>2, <1>3, <1>4, <1>5

(* A fire settles: its row gets new columns, its task is gone. *)
LEMMA SettledJobwise ==
  ASSUME TypeOK, Jobwise, NEW t \in TaskIds, Live(t), NEW new \in Row,
         UpdateRow(task[t].job, new),
         \A u \in TaskIds : Live(u)' => u # t /\ task'[u] = task[u],
         UNCHANGED <<issued, stored, cancelled, insert>>,
         task[t].job \in stored =>
           /\ new.active => new.fails < MaxFailures
           /\ ~new.active => \/ task[t].job \in cancelled
                             \/ new.runs > 0
                             \/ new.fails >= MaxFailures
  PROVE  Jobwise'
<1> DEFINE j == task[t].job
<1>1. /\ \A u \in TaskIds : Live(u)' => u # t /\ Live(u) /\ task'[u] = task[u]
      /\ j \in Jobs
      /\ \A k \in Jobs : row'[k] = IF k = j /\ j \in stored THEN new ELSE row[k]
  BY TaskFields DEF Live, UpdateRow, TypeOK
<1>2. \A u \in TaskIds : Live(u)' => task[u].job # j /\ task[u].job \in Jobs
  BY <1>1, TaskFields DEF Jobwise, NoDuplicateFire
<1> USE DEF Jobwise
<1>3. NoDuplicateFire'
  BY <1>1 DEF NoDuplicateFire
<1>4. SnapshotIsCurrent'
  BY <1>1, <1>2 DEF SnapshotIsCurrent, Active
<1>5. FiredJobsAreIssued' /\ InsertsAreFresh'
  BY <1>1 DEF FiredJobsAreIssued, InsertsAreFresh, LockFree
<1>6. FailingJobIsOff'
  BY <1>1 DEF FailingJobIsOff, TypeOK
<1>7. InactiveForAReason'
  BY <1>1 DEF InactiveForAReason, TypeOK
<1> QED
  BY <1>3, <1>4, <1>5, <1>6, <1>7

LEMMA SettledTaskGone ==
  ASSUME TypeOK, NEW t \in TaskIds, Free(t) \/ task' = [task EXCEPT ![t].st = "reporting"]
  PROVE  \A u \in TaskIds : Live(u)' => u # t /\ task'[u] = task[u]
  BY DEF Free, Live, NoTask, Claims, TypeOK, Task

LEMMA CompletedFields ==
  ASSUME NEW r \in Row
  PROVE  /\ Completed(r) \in Row
         /\ Completed(r).runs = r.runs + 1 /\ Completed(r).fails = 0
         /\ Completed(r).max = r.max /\ Completed(r).chat = r.chat
         /\ Completed(r).active = r.active /\ Completed(r).mode = r.mode
<1>1. r.runs + 1 \in Nat
  BY DEF Row
<1>2. ASSUME NEW k \in Nat
      PROVE  LET c == [r EXCEPT !.runs = k, !.claimed = FALSE, !.fails = 0]
             IN /\ c \in Row /\ c.runs = k /\ c.fails = 0
                /\ c.max = r.max /\ c.chat = r.chat
                /\ c.active = r.active /\ c.mode = r.mode
  BY DEF Row
<1> DEFINE next == r.runs + 1
<1>3. Completed(r) = [r EXCEPT !.runs = next, !.claimed = FALSE, !.fails = 0]
  BY DEF Completed
<1>4. next \in Nat
  BY <1>1
<1> HIDE DEF next
<1>5. LET c == [r EXCEPT !.runs = next, !.claimed = FALSE, !.fails = 0]
      IN /\ c \in Row /\ c.runs = next /\ c.fails = 0
         /\ c.max = r.max /\ c.chat = r.chat
         /\ c.active = r.active /\ c.mode = r.mode
  BY <1>2, <1>4
<1> QED
  BY <1>3, <1>5 DEF next

LEMMA FailedFields ==
  ASSUME NEW r \in Row, NEW off \in BOOLEAN, now \in Nat
  PROVE  /\ Failed(r, off).fails = r.fails + 1 /\ Failed(r, off).runs = r.runs
         /\ Failed(r, off).chat = r.chat
         /\ Failed(r, off).active <=> (r.active /\ ~off)
<1> DEFINE f == r.fails + 1
           n == now + RetryDelay
           a == r.active /\ ~off
<1>1. f \in Nat /\ n \in Nat /\ a \in BOOLEAN
  BY ConstantsAssumption DEF Row
<1>2. Failed(r, off) = [r EXCEPT !.claimed = FALSE, !.fails = f, !.next = n, !.active = a]
  BY DEF Failed
<1>3. ASSUME NEW x \in Nat, NEW y \in Nat, NEW z \in BOOLEAN
      PROVE  LET q == [r EXCEPT !.claimed = FALSE, !.fails = x, !.next = y, !.active = z]
             IN q.fails = x /\ q.active = z /\ q.runs = r.runs /\ q.chat = r.chat
  BY DEF Row
<1> HIDE DEF f, n, a
<1>4. /\ Failed(r, off).fails = f /\ Failed(r, off).active = a
      /\ Failed(r, off).runs = r.runs /\ Failed(r, off).chat = r.chat
  BY <1>1, <1>2, <1>3
<1> QED
  BY <1>4 DEF f, a

LEMMA CompleteJobwise ==
  ASSUME TypeOK, Jobwise, NEW t \in TaskIds, CompleteFire(t)
  PROVE  Jobwise'
<1> DEFINE j == task[t].job
<1>1. /\ Live(t) /\ j \in Jobs /\ row[j] \in Row /\ task[t].snap \in Row
      /\ now \in Nat
  BY TaskFields DEF CompleteFire, Live, TypeOK, Claims
<1>2. row[j].runs + 1 > 0 /\ MaxFailures > 0 /\ row[j].runs \in Nat
  BY <1>1, ConstantsAssumption DEF Row
<1>3. ASSUME NEW n \in Nat
      PROVE  LET go  == [Completed(row[j]) EXCEPT !.next = n]
                 off == [Completed(row[j]) EXCEPT !.next = n, !.active = FALSE]
             IN /\ go \in Row /\ off \in Row /\ ~off.active
                /\ go.fails = 0 /\ off.fails = 0
                /\ go.runs = row[j].runs + 1 /\ off.runs = row[j].runs + 1
  <2>1. ASSUME NEW c \in Row
        PROVE  /\ ~[c EXCEPT !.next = n, !.active = FALSE].active
               /\ [c EXCEPT !.next = n, !.active = FALSE].fails = c.fails
               /\ [c EXCEPT !.next = n, !.active = FALSE].runs = c.runs
               /\ [c EXCEPT !.next = n].fails = c.fails
               /\ [c EXCEPT !.next = n].runs = c.runs
    BY DEF Row
  <2> DEFINE done == Completed(row[j])
  <2>2. /\ done \in Row /\ done.runs = row[j].runs + 1 /\ done.fails = 0
        /\ [done EXCEPT !.next = n] \in Row
        /\ [done EXCEPT !.next = n, !.active = FALSE] \in Row
    BY <1>1, CompletedFields, SettledRowType
  <2>3. /\ ~[done EXCEPT !.next = n, !.active = FALSE].active
        /\ [done EXCEPT !.next = n, !.active = FALSE].fails = done.fails
        /\ [done EXCEPT !.next = n, !.active = FALSE].runs = done.runs
        /\ [done EXCEPT !.next = n].fails = done.fails
        /\ [done EXCEPT !.next = n].runs = done.runs
    <3> HIDE DEF done
    <3> QED
      BY <2>1, <2>2
  <2> QED
    BY <2>2, <2>3, Zenon
<1>4. \E new \in Row : /\ UpdateRow(j, new)
                       /\ new.runs = row[j].runs + 1 /\ new.fails = 0
  <2>1. CASE UpdateRow(j, [Completed(row[j]) EXCEPT !.next = now, !.active = FALSE])
    BY <1>1, <1>3, <2>1
  <2>2. ASSUME NEW n \in NextFire(task[t].snap, now),
               UpdateRow(j, [Completed(row[j]) EXCEPT !.next = n])
        PROVE  \E new \in Row : /\ UpdateRow(j, new)
                                /\ new.runs = row[j].runs + 1 /\ new.fails = 0
    <3>1. n \in Nat
      BY <1>1, NextFireType
    <3> QED
      BY <1>3, <2>2, <3>1
  <2> QED
    BY <2>1, <2>2 DEF CompleteFire
<1>5. UNCHANGED <<issued, stored, cancelled, insert>> /\ Free(t)
  BY DEF CompleteFire
<1>6. \A u \in TaskIds : Live(u)' => u # t /\ task'[u] = task[u]
  BY <1>5, SettledTaskGone
<1> QED
  BY <1>1, <1>2, <1>4, <1>5, <1>6, SettledJobwise

LEMMA FailedJobwise ==
  ASSUME TypeOK, Jobwise, NEW t \in TaskIds, MarkFailed(t)
  PROVE  Jobwise'
<1> DEFINE j == task[t].job
           s == task[t].snap
           new == Failed(row[j], GivesUp(s))
<1>1. /\ Live(t) /\ j \in Jobs /\ row[j] \in Row /\ s \in Row /\ now \in Nat
  BY TaskFields DEF MarkFailed, Live, TypeOK, Claims
<1>2. GivesUp(s) \in BOOLEAN
  BY DEF GivesUp
<1>3. new \in Row
  BY <1>1, <1>2, SettledRowType
<1>4. /\ row[j].fails \in Nat /\ s.fails \in Nat /\ row[j].active \in BOOLEAN
      /\ row[j].runs \in Nat /\ MaxFailures \in Nat
  BY <1>1, ConstantsAssumption DEF Row
<1>5. /\ new.fails = row[j].fails + 1 /\ new.runs = row[j].runs
      /\ new.active <=> (row[j].active /\ ~GivesUp(s))
  BY <1>1, <1>2, FailedFields
<1>6. Active(j) => s.fails = row[j].fails
  BY <1>1, SnapshotTells DEF Jobwise
<1>7. ASSUME j \in stored
      PROVE  /\ new.active => new.fails < MaxFailures
             /\ ~new.active => \/ j \in cancelled
                               \/ new.runs > 0
                               \/ new.fails >= MaxFailures
  <2> HIDE DEF s, new
  <2>1. row[j].active => s.fails = row[j].fails
    BY <1>6, <1>7 DEF Active
  <2>2. ~row[j].active => j \in cancelled \/ row[j].runs > 0 \/ row[j].fails >= MaxFailures
    BY <1>7 DEF Jobwise, InactiveForAReason
  <2>3. GivesUp(s) <=> s.fails + 1 >= MaxFailures
    BY DEF GivesUp
  <2> HIDE DEF j
  <2> QED
    BY <1>4, <1>5, <2>1, <2>2, <2>3
<1>8. UpdateRow(j, new) /\ UNCHANGED <<issued, stored, cancelled, insert>>
  BY DEF MarkFailed
<1>9. \A u \in TaskIds : Live(u)' => u # t /\ task'[u] = task[u]
  BY SettledTaskGone DEF MarkFailed
<1> QED
  BY <1>1, <1>3, <1>7, <1>8, <1>9, SettledJobwise

LEMMA ClaimJobwise ==
  ASSUME TypeOK, Jobwise, NEW p \in Procs, ClaimDueJobs(p)
  PROVE  Jobwise'
<1>1. PICK S \in FirstDue(poll[p].limit),
           T \in SUBSET {t \in TaskIds : task[t].st = "free"} : ClaimedAs(p, S, T)
  BY DEF ClaimDueJobs, ClaimedAs
<1>2. PICK g \in [T -> S] :
        /\ \A a, b \in T : g[a] = g[b] => a = b
        /\ Claim(S)
        /\ task' = [t \in TaskIds |->
             IF t \in T
             THEN [st |-> "claimed", proc |-> p, job |-> g[t], snap |-> row[g[t]]]
             ELSE task[t]]
  BY <1>1 DEF ClaimedAs
<1>3. \A j \in S : /\ j \in stored /\ j \in Jobs /\ j \in issued
                   /\ row[j].active /\ ~row[j].claimed
  BY DEF FirstDue, Due, TypeOK
<1>4. UNCHANGED <<issued, stored, cancelled, insert>>
  BY DEF ClaimDueJobs
<1>5. \A t \in TaskIds : Live(t) => task[t].job \in Jobs /\ task[t].job \notin S
  BY <1>3, TaskFields, SnapshotTells DEF Jobwise, Active
<1>6. \A t \in TaskIds :
        /\ t \in T => /\ task'[t].job = g[t] /\ task'[t].snap = row[g[t]] /\ g[t] \in S
        /\ t \notin T => task'[t] = task[t]
  BY <1>2
<1>7. \A j \in Jobs : /\ row'[j].active = row[j].active /\ row'[j].fails = row[j].fails
                      /\ row'[j].runs = row[j].runs
                      /\ j \notin S => row'[j] = row[j]
                      /\ j \in S => row'[j] = [row[j] EXCEPT !.claimed = TRUE]
  BY <1>2 DEF TypeOK, Row, Claim
<1> USE DEF Jobwise
<1>8. NoDuplicateFire'
  BY <1>2, <1>5, <1>6 DEF NoDuplicateFire, Live
<1>9. SnapshotIsCurrent'
  <2> SUFFICES ASSUME NEW t \in TaskIds, Live(t)', Active(task[t].job)'
               PROVE  row'[task'[t].job] = [task'[t].snap EXCEPT !.claimed = TRUE]
    BY DEF SnapshotIsCurrent
  <2>1. CASE t \in T
    BY <1>3, <1>6, <1>7, <2>1
  <2>2. CASE t \notin T
    <3>1. Live(t) /\ task[t].job \in Jobs /\ task[t].job \notin S /\ task'[t] = task[t]
      BY <1>5, <1>6, <2>2 DEF Live
    <3>2. Active(task[t].job)
      BY <1>4, <1>7, <3>1 DEF Active
    <3> QED
      BY <1>7, <3>1, <3>2 DEF SnapshotIsCurrent
  <2> QED
    BY <2>1, <2>2
<1>10. FiredJobsAreIssued'
  BY <1>3, <1>4, <1>6 DEF FiredJobsAreIssued, Live
<1>11. InsertsAreFresh'
  BY <1>3, <1>4, <1>6 DEF InsertsAreFresh, Live, LockFree
<1>12. FailingJobIsOff' /\ InactiveForAReason'
  BY <1>4, <1>7 DEF FailingJobIsOff, InactiveForAReason, TypeOK
<1> QED
  BY <1>8, <1>9, <1>10, <1>11, <1>12

(* A claim that is abandoned halfway leaves claimed rows, and tasks may go. *)
LEMMA AbandonedClaimJobwise ==
  ASSUME TypeOK, Jobwise, NEW p \in Procs, Stop(p) \/ ClaimRaises(p)
  PROVE  Jobwise'
<1>1. PICK S \in ClaimedSoFar(p) : Claim(S)
  BY DEF Stop, ClaimRaises
<1>2. \A j \in S : /\ j \in stored /\ j \in Jobs
                   /\ row[j].active /\ ~row[j].claimed
  BY DEF ClaimedSoFar, FirstDue, Due, TypeOK
<1>3. UNCHANGED <<issued, stored, cancelled, insert>>
  BY DEF Stop, ClaimRaises
<1>4. \A t \in TaskIds : Live(t)' => Live(t) /\ task'[t] = task[t]
  BY DEF Stop, ClaimRaises, Live, NoTask, Claims, TypeOK
<1>5. \A t \in TaskIds : Live(t) => task[t].job \in Jobs /\ task[t].job \notin S
  BY <1>2, TaskFields, SnapshotTells DEF Jobwise, Active
<1>6. \A j \in Jobs : /\ row'[j].active = row[j].active /\ row'[j].fails = row[j].fails
                      /\ row'[j].runs = row[j].runs
                      /\ j \notin S => row'[j] = row[j]
  BY <1>1 DEF TypeOK, Row, Claim
<1> USE DEF Jobwise
<1>7. NoDuplicateFire' /\ FiredJobsAreIssued' /\ InsertsAreFresh'
  BY <1>3, <1>4 DEF NoDuplicateFire, FiredJobsAreIssued, InsertsAreFresh, LockFree
<1>8. SnapshotIsCurrent'
  BY <1>3, <1>4, <1>5, <1>6 DEF SnapshotIsCurrent, Active
<1>9. FailingJobIsOff' /\ InactiveForAReason'
  BY <1>3, <1>6 DEF FailingJobIsOff, InactiveForAReason, TypeOK
<1> QED
  BY <1>7, <1>8, <1>9

(* The tools, and the start of the only process. *)
LEMMA ToolsJobwise ==
  ASSUME OneProcess, TypeOK, Jobwise, Taskwise, NEW p \in Procs,
         \/ Start(p) \/ InsertRow(p) \/ UpdateWrites(p)
         \/ \E j \in Jobs : CancelJob(p, j) \/ DeleteJob(p, j)
         \/ \E j \in Jobs, c \in Chats : CountForInsert(p, j, c)
  PROVE  Jobwise'
<1> USE DEF Jobwise
<1>1. CASE Start(p)
  <2>1. \A t \in TaskIds : ~Live(t)
    BY <1>1, TaskFields DEF OneProcess, Taskwise, TasksHaveAProcess, Start
  <2>2. \A j \in Jobs : /\ row'[j].active = row[j].active
                        /\ row'[j].fails = row[j].fails
                        /\ row'[j].runs = row[j].runs
    BY <1>1 DEF Start, ReleaseStaleClaims, TypeOK, Row
  <2>3. UNCHANGED <<issued, stored, cancelled, insert, task>>
    BY <1>1 DEF Start
  <2>4. FailingJobIsOff' /\ InactiveForAReason'
    BY <2>2, <2>3 DEF FailingJobIsOff, InactiveForAReason, TypeOK
  <2> QED
    BY <2>1, <2>3, <2>4 DEF NoDuplicateFire, SnapshotIsCurrent,
       FiredJobsAreIssued, InsertsAreFresh, Live, LockFree
<1>2. CASE InsertRow(p)
  <2> DEFINE k == insert[p].job
             r == insert[p].row
  <2>1. /\ k \in Jobs /\ r \in Row /\ k \in issued /\ k \notin stored
        /\ \A t \in TaskIds : Live(t) => task[t].job # k
        /\ r.active /\ r.fails = 0
    BY <1>2 DEF InsertRow, TypeOK, Call, NoCall, LockFree, InsertsAreFresh
  <2>2. /\ \A j \in Jobs : row'[j] = IF j = k THEN r ELSE row[j]
        /\ stored' = stored \cup {k}
        /\ UNCHANGED <<issued, cancelled, task>>
        /\ \A q \in Procs : LockFree(q)'
    BY <1>2, Zenon DEF InsertRow, TypeOK, OneProcess, LockFree, NoCall
  <2>3. 0 < MaxFailures
    BY ConstantsAssumption
  <2> HIDE DEF k, r
  <2>4. SnapshotIsCurrent'
    BY <2>1, <2>2, TaskFields DEF SnapshotIsCurrent, Active, Live
  <2>5. FailingJobIsOff' /\ InactiveForAReason'
    BY <2>1, <2>2, <2>3 DEF FailingJobIsOff, InactiveForAReason, TypeOK
  <2> QED
    BY <2>2, <2>4, <2>5 DEF NoDuplicateFire, FiredJobsAreIssued, InsertsAreFresh, Live
<1>3. CASE UpdateWrites(p)
  <2> DEFINE k == update[p].job
             n == update[p].row
             r == [row[k] EXCEPT !.mode = n.mode, !.max = n.max,
                     !.fireAt = n.fireAt, !.every = n.every,
                     !.next = n.next, !.fails = 0]
  <2>1. k \in Jobs /\ row[k] \in Row /\ n \in Row
    BY <1>3 DEF UpdateWrites, TypeOK, Call, NoCall
  <2>2. r.active = row[k].active /\ r.fails = 0
    BY <2>1 DEF Row
  <2>3. row' = IF Updatable(k) THEN [row EXCEPT ![k] = r] ELSE row
    BY <1>3 DEF UpdateWrites
  <2>4. UNCHANGED <<issued, stored, cancelled, task, insert>>
    BY <1>3 DEF UpdateWrites
  <2>5. Updatable(k) => \A t \in TaskIds : Live(t) => task[t].job # k
    BY SnapshotTells DEF Updatable
  <2>6. 0 < MaxFailures
    BY ConstantsAssumption
  <2>7. \A j \in Jobs : row'[j] = IF j = k /\ Updatable(k) THEN r ELSE row[j]
    <3> HIDE DEF k, r
    <3> QED
      BY <2>1, <2>3 DEF TypeOK
  <2> HIDE DEF k, r, n
  <2>8. SnapshotIsCurrent'
    BY <2>2, <2>4, <2>5, <2>7, TaskFields DEF SnapshotIsCurrent, Active, Live, Updatable
  <2>9. FailingJobIsOff' /\ InactiveForAReason'
    BY <2>2, <2>4, <2>6, <2>7 DEF FailingJobIsOff, InactiveForAReason, TypeOK,
                                 Updatable, Active
  <2> QED
    BY <2>4, <2>8, <2>9 DEF NoDuplicateFire, FiredJobsAreIssued, InsertsAreFresh,
                            Live, LockFree
<1>4. ASSUME NEW k \in Jobs, CancelJob(p, k)
      PROVE  Jobwise'
  <2>1. /\ \A j \in Jobs : /\ j # k => row'[j] = row[j]
                           /\ ~row'[k].active
        /\ UNCHANGED <<issued, stored, task, insert>>
        /\ cancelled' = cancelled \cup {k}
    BY <1>4 DEF CancelJob, TypeOK, Row, procVars
  <2> QED
    BY <2>1, TaskFields DEF NoDuplicateFire, SnapshotIsCurrent, FiredJobsAreIssued,
       InsertsAreFresh, FailingJobIsOff, InactiveForAReason, Live, LockFree, Active, TypeOK
<1>5. ASSUME NEW k \in Jobs, DeleteJob(p, k)
      PROVE  Jobwise'
  <2>1. /\ \A j \in Jobs : j # k => row'[j] = row[j]
        /\ UNCHANGED <<issued, cancelled, task, insert>>
        /\ stored' = stored \ {k}
    BY <1>5 DEF DeleteJob, TypeOK, procVars
  <2> QED
    BY <2>1, TaskFields DEF NoDuplicateFire, SnapshotIsCurrent, FiredJobsAreIssued,
       InsertsAreFresh, FailingJobIsOff, InactiveForAReason, Live, LockFree, Active, TypeOK
<1>6. ASSUME NEW k \in Jobs, NEW c \in Chats, CountForInsert(p, k, c)
      PROVE  Jobwise'
  <2>1. /\ UNCHANGED <<stored, row, cancelled, task>>
        /\ k \notin issued /\ issued' = issued \cup {k} /\ stored \subseteq issued
        /\ \A q \in Procs : q = p /\ LockFree(q)
    BY <1>6 DEF CountForInsert, OneProcess, TypeOK
  <2>2. insert'[p].job = k /\ insert'[p].row.active /\ insert'[p].row.fails = 0
    BY <1>6 DEF CountForInsert, TypeOK
  <2>3. InsertsAreFresh'
    BY <2>1, <2>2 DEF InsertsAreFresh, FiredJobsAreIssued, Live
  <2> QED
    BY <2>1, <2>3 DEF NoDuplicateFire, SnapshotIsCurrent, FiredJobsAreIssued,
       FailingJobIsOff, InactiveForAReason, Live, Active
<1> QED
  BY <1>1, <1>2, <1>3, <1>4, <1>5, <1>6

LEMMA JobwiseStep ==
  ASSUME OneProcess, TypeOK, Jobwise, Taskwise, [Next]_vars
  PROVE  Jobwise'
<1>1. CASE Tick
  BY <1>1, QuietSteps, QuietJobwise
<1>2. ASSUME NEW p \in Procs,
             \/ Start(p) \/ Stop(p) \/ Stopped(p) \/ Crash(p)
             \/ Poll(p) \/ DreamingEnds(p) \/ Tools(p)
      PROVE  Jobwise'
  BY <1>2, QuietSteps, QuietJobwise, ClaimJobwise, AbandonedClaimJobwise, ToolsJobwise
     DEF Poll, Tools
<1>3. ASSUME NEW t \in TaskIds, Fire(t)
      PROVE  Jobwise'
  BY <1>3, QuietSteps, QuietJobwise, CompleteJobwise, FailedJobwise DEF Fire
<1>4. CASE UNCHANGED vars
  <2>1. Quiet
    BY <1>4 DEF Quiet, vars, dbVars, procVars, Live
  <2> QED
    BY <2>1, QuietJobwise
<1> QED
  BY <1>1, <1>2, <1>3, <1>4 DEF Next

LEMMA TaskwiseStep ==
  ASSUME TypeOK, Taskwise, [Next]_vars
  PROVE  Taskwise'
<1> USE DEF Taskwise, TasksHaveAProcess, NoBatchUnlessUp
<1>1. CASE Tick \/ UNCHANGED vars
  BY <1>1 DEF Tick, vars, dbVars, procVars, Live
<1>2. ASSUME NEW p \in Procs, Start(p) \/ Stop(p) \/ Stopped(p) \/ Crash(p)
      PROVE  Taskwise'
  <2>1. CASE Start(p)
    BY <2>1 DEF Start, Live, TypeOK
  <2>2. CASE Stop(p)
    BY <2>2, TaskFields DEF Stop, Live, NoTask, Sleeping, TypeOK
  <2>3. CASE Stopped(p)
    <3>1. \A t \in TaskIds : Live(t) => task[t].proc # p
      BY <2>3 DEF Stopped, TasksOf, Dispatched, Live, TypeOK, Task, NoTask
    <3> QED
      BY <2>3, <3>1, TaskFields DEF Stopped, Live, TypeOK
  <2>4. CASE Crash(p)
    BY <2>4, TaskFields DEF Crash, Live, NoTask, Sleeping, TypeOK
  <2> QED
    BY <1>2, <2>1, <2>2, <2>3, <2>4
<1>3. ASSUME NEW p \in Procs,
             PollTick(p) \/ ClaimRaises(p) \/ DispatchFires(p) \/ DreamingEnds(p)
      PROVE  Taskwise'
  <2>1. CASE PollTick(p) \/ ClaimRaises(p) \/ DreamingEnds(p)
    BY <2>1 DEF PollTick, ClaimRaises, DreamingEnds, Live, TypeOK, Sleeping
  <2>2. CASE DispatchFires(p)
    <3>1. \A t \in TaskIds : /\ Live(t)' => Live(t) /\ task'[t].proc = task[t].proc
                             /\ task'[t].st = "claimed" => task[t].st = "claimed"
      BY <2>2 DEF DispatchFires, Live, TypeOK, Task, NoTask
    <3> QED
      BY <2>2, <3>1 DEF DispatchFires, TypeOK, Sleeping
  <2> QED
    BY <1>3, <2>1, <2>2
<1>4. ASSUME NEW p \in Procs, ClaimDueJobs(p)
      PROVE  Taskwise'
  <2>1. PICK S \in FirstDue(poll[p].limit),
             T \in SUBSET {t \in TaskIds : task[t].st = "free"} : ClaimedAs(p, S, T)
    BY <1>4 DEF ClaimDueJobs, ClaimedAs
  <2>2. \A t \in TaskIds : task'[t] = task[t] \/ task'[t].proc = p
    BY <2>1 DEF ClaimedAs
  <2>3. /\ proc[p] = "up" /\ proc' = proc
        /\ \A q \in Procs : q # p => poll'[q] = poll[q]
    BY <1>4 DEF ClaimDueJobs, TypeOK
  <2>4. TasksHaveAProcess'
    BY <2>2, <2>3, Zenon DEF Live
  <2>5. NoBatchUnlessUp'
    BY <2>2, <2>3
  <2> QED
    BY <2>4, <2>5
<1>5. ASSUME NEW p \in Procs, Tools(p)
      PROVE  Taskwise'
  BY <1>5 DEF Tools, CountForInsert, InsertRow, CancelJob, DeleteJob, UpdateReads,
              UpdateWrites, ToolAbandoned, Live, procVars
<1>6. ASSUME NEW t \in TaskIds, Fire(t)
      PROVE  Taskwise'
  <2>1. UNCHANGED <<proc, poll>>
    BY <1>6 DEF Fire, FireReturns, FireRaises, ErrorSent, CompleteFire, MarkFailed,
                CancelFire, SettlingRaises
  <2>2. \/ Free(t)
        \/ /\ Live(t)
           /\ \E s \in {"succeeded", "failed", "cancelled", "reporting"} :
                task' = [task EXCEPT ![t].st = s]
    BY <1>6 DEF Fire, FireReturns, FireRaises, ErrorSent, CompleteFire, MarkFailed,
                CancelFire, SettlingRaises, Begun, Live
  <2>3. \A u \in TaskIds : /\ Live(u)' => Live(u) /\ task'[u].proc = task[u].proc
                           /\ task'[u].st = "claimed" => task[u].st = "claimed"
    <3>1. \A u \in TaskIds \ {t} : task'[u] = task[u]
      BY <2>2 DEF Free, TypeOK
    <3>2. CASE Free(t)
      <4>1. task'[t] = NoTask
        BY <3>2 DEF Free, TypeOK
      <4>2. task'[t].st = "free"
        BY <4>1 DEF NoTask
      <4> QED
        BY <3>1, <4>2 DEF Live
    <3>3. CASE ~Free(t)
      <4>1. PICK s \in {"succeeded", "failed", "cancelled", "reporting"} :
              task' = [task EXCEPT ![t].st = s]
        BY <2>2, <3>3
      <4>2. task'[t].proc = task[t].proc /\ task'[t].st = s
        BY <4>1 DEF TypeOK, Task
      <4> QED
        BY <2>2, <3>1, <3>3, <4>2 DEF Live
    <3> QED
      BY <3>2, <3>3
  <2> QED
    BY <2>1, <2>3 DEF Live
<1> QED
  BY <1>1, <1>2, <1>3, <1>4, <1>5, <1>6 DEF Next, Poll

(* No row becomes active or leaves its chat, and none appears. *)
Gentle ==
  /\ stored' \subseteq stored
  /\ \A j \in stored' : row'[j].active => row[j].active /\ row'[j].chat = row[j].chat

(* No job has run more often than before. *)
NoRun == \A j \in stored : row'[j].runs <= row[j].runs

LEMMA SettledGentle ==
  ASSUME TypeOK, NEW t \in TaskIds, CompleteFire(t) \/ MarkFailed(t)
  PROVE  Gentle /\ (MarkFailed(t) => NoRun)
<1> DEFINE j == task[t].job
<1>1. /\ Live(t) /\ j \in Jobs /\ row[j] \in Row /\ task[t].snap \in Row
      /\ now \in Nat /\ stored' = stored /\ row[j].runs \in Nat /\ stored \subseteq Jobs
      /\ \A k \in Jobs : row[k].runs \in Nat
  BY TaskFields DEF CompleteFire, MarkFailed, Live, TypeOK, Row
<1>2. ASSUME NEW new \in Row, UpdateRow(j, new),
             new.active => row[j].active, new.chat = row[j].chat
      PROVE  Gentle /\ (new.runs = row[j].runs => NoRun)
  <2> HIDE DEF j
  <2>1. \A k \in Jobs : row'[k] = IF k = j /\ j \in stored THEN new ELSE row[k]
    BY <1>1, <1>2 DEF UpdateRow, TypeOK
  <2> QED
    BY <1>1, <1>2, <2>1 DEF Gentle, NoRun
<1>3. CASE MarkFailed(t)
  <2> DEFINE new == Failed(row[j], GivesUp(task[t].snap))
  <2>1. GivesUp(task[t].snap) \in BOOLEAN
    BY DEF GivesUp
  <2>2. /\ new \in Row /\ UpdateRow(j, new) /\ new.chat = row[j].chat
        /\ new.active => row[j].active
        /\ new.runs = row[j].runs
    BY <1>1, <1>3, <2>1, SettledRowType, FailedFields DEF MarkFailed
  <2> HIDE DEF new, j
  <2> QED
    BY <1>2, <2>2
<1>4. CASE CompleteFire(t)
  <2> DEFINE done == Completed(row[j])
  <2>1. done \in Row /\ done.chat = row[j].chat /\ done.active = row[j].active
    BY <1>1, CompletedFields
  <2>2. ASSUME NEW n \in Nat,
               \/ UpdateRow(j, [done EXCEPT !.next = n])
               \/ UpdateRow(j, [done EXCEPT !.next = n, !.active = FALSE])
        PROVE  Gentle
    <3>1. /\ [done EXCEPT !.next = n] \in Row
          /\ [done EXCEPT !.next = n].active = done.active
          /\ [done EXCEPT !.next = n].chat = done.chat
          /\ [done EXCEPT !.next = n, !.active = FALSE] \in Row
          /\ ~[done EXCEPT !.next = n, !.active = FALSE].active
          /\ [done EXCEPT !.next = n, !.active = FALSE].chat = done.chat
      <4> HIDE DEF done
      <4> QED
        BY <2>1 DEF Row
    <3> HIDE DEF done, j
    <3> QED
      BY <1>2, <2>1, <2>2, <3>1
  <2>3. NextFire(task[t].snap, now) \subseteq Nat
    BY <1>1, NextFireType
  <2>4. ~MarkFailed(t)
    BY <1>4 DEF CompleteFire, MarkFailed
  <2> QED
    BY <1>1, <1>4, <2>2, <2>3, <2>4 DEF CompleteFire
<1> QED
  BY <1>3, <1>4

LEMMA GentleSteps ==
  ASSUME TypeOK, [Next]_vars
  PROVE  \/ Gentle /\ NoRun
         \/ \E p \in Procs : InsertRow(p)
         \/ Gentle /\ \E t \in TaskIds : CompleteFire(t)
<1>1. /\ stored \subseteq Jobs
      /\ \A j \in Jobs : row[j].runs \in Nat /\ row[j] \in Row
  BY DEF TypeOK, Row
<1>2. ASSUME UNCHANGED <<row, stored>>
      PROVE  Gentle /\ NoRun
  BY <1>1, <1>2 DEF Gentle, NoRun
<1>3. ASSUME Quiet
      PROVE  Gentle /\ NoRun
  BY <1>2, <1>3 DEF Quiet, dbVars
<1>4. ASSUME NEW p \in Procs, Start(p) \/ Stop(p) \/ ClaimDueJobs(p) \/ ClaimRaises(p)
      PROVE  Gentle /\ NoRun
  <2>1. stored' = stored
    BY <1>4 DEF Start, Stop, ClaimDueJobs, ClaimRaises
  <2>2. \A j \in Jobs : /\ row'[j].active = row[j].active
                        /\ row'[j].chat = row[j].chat
                        /\ row'[j].runs = row[j].runs
    <3>1. CASE Start(p)
      BY <3>1 DEF Start, ReleaseStaleClaims, TypeOK, Row
    <3>2. CASE \E S : Claim(S)
      BY <3>2 DEF Claim, TypeOK, Row
    <3>3. Stop(p) \/ ClaimDueJobs(p) \/ ClaimRaises(p) => \E S : Claim(S)
      BY DEF Stop, ClaimDueJobs, ClaimRaises
    <3> QED
      BY <1>4, <3>1, <3>2, <3>3
  <2> QED
    BY <1>1, <2>1, <2>2 DEF Gentle, NoRun
<1>5. ASSUME NEW p \in Procs, NEW k \in Jobs, CancelJob(p, k) \/ DeleteJob(p, k)
      PROVE  Gentle /\ NoRun
  <2>1. CASE CancelJob(p, k)
    <3>1. ~row'[k].active /\ row'[k].runs = row[k].runs
      BY <2>1, <1>1 DEF CancelJob, TypeOK, Row
    <3> QED
      BY <1>1, <2>1, <3>1 DEF CancelJob, Gentle, NoRun, TypeOK
  <2>2. CASE DeleteJob(p, k)
    <3>1. row'[k].runs = 0
      BY <2>2 DEF DeleteJob, TypeOK, BlankRow
    <3> QED
      BY <1>1, <2>2, <3>1 DEF DeleteJob, Gentle, NoRun, TypeOK
  <2> QED
    BY <1>5, <2>1, <2>2
<1>6. ASSUME NEW p \in Procs, UpdateWrites(p)
      PROVE  Gentle /\ NoRun
  <2> DEFINE k == update[p].job
             n == update[p].row
             r == [row[k] EXCEPT !.mode = n.mode, !.max = n.max,
                     !.fireAt = n.fireAt, !.every = n.every,
                     !.next = n.next, !.fails = 0]
  <2>1. k \in Jobs /\ n \in Row
    BY <1>6 DEF UpdateWrites, TypeOK, Call, NoCall
  <2>2. r.active = row[k].active /\ r.chat = row[k].chat /\ r.runs = row[k].runs
    BY <1>1, <2>1 DEF Row
  <2>3. stored' = stored /\ (row' = row \/ row' = [row EXCEPT ![k] = r])
    BY <1>6 DEF UpdateWrites
  <2>4. \A j \in Jobs : row'[j] = row[j] \/ (j = k /\ row'[j] = r)
    <3> HIDE DEF k, r
    <3> QED
      BY <2>1, <2>3 DEF TypeOK
  <2> HIDE DEF k, n, r
  <2> QED
    BY <1>1, <2>2, <2>3, <2>4 DEF Gentle, NoRun
<1>7. ASSUME NEW p \in Procs, NEW j \in Jobs, NEW c \in Chats, CountForInsert(p, j, c)
      PROVE  Gentle /\ NoRun
  BY <1>2, <1>7 DEF CountForInsert
<1>8. CASE UNCHANGED vars
  BY <1>2, <1>8 DEF vars, dbVars
<1>9. CASE Tick
  BY <1>3, <1>9, QuietSteps
<1>10. ASSUME NEW p \in Procs,
              \/ Start(p) \/ Stop(p) \/ Stopped(p) \/ Crash(p)
              \/ Poll(p) \/ DreamingEnds(p) \/ Tools(p)
       PROVE  (Gentle /\ NoRun) \/ \E q \in Procs : InsertRow(q)
  BY <1>3, <1>4, <1>5, <1>6, <1>7, <1>10, QuietSteps DEF Poll, Tools
<1>11. ASSUME NEW t \in TaskIds, Fire(t)
       PROVE  (Gentle /\ NoRun) \/ (Gentle /\ \E u \in TaskIds : CompleteFire(u))
  BY <1>3, <1>11, QuietSteps, SettledGentle DEF Fire
<1> QED
  BY <1>8, <1>9, <1>10, <1>11 DEF Next

(* What the insert that lands adds: a job that was not stored. *)
LEMMA InsertLands ==
  ASSUME TypeOK, Jobwise, NEW p \in Procs, InsertRow(p)
  PROVE  \E k \in Jobs :
           /\ k \notin stored /\ stored' = stored \cup {k}
           /\ \A j \in Jobs : j # k => row'[j] = row[j]
           /\ row'[k].chat = insert[p].row.chat
<1>1. insert[p].job \in Jobs /\ insert[p].job \notin stored
  BY DEF Jobwise, InsertsAreFresh, InsertRow, TypeOK, Call, NoCall, LockFree
<1> QED
  BY <1>1 DEF InsertRow, TypeOK

LEMMA GentleQuota ==
  ASSUME TypeOK, IsFiniteSet(stored), Gentle, NEW c
  PROVE  /\ IsFiniteSet(stored')
         /\ Cardinality(ActiveIn(c)') \in Nat /\ Cardinality(ActiveIn(c)) \in Nat
         /\ Cardinality(ActiveIn(c)') <= Cardinality(ActiveIn(c))
<1>1. IsFiniteSet(stored')
  BY FS_Subset DEF Gentle
<1>2. ActiveIn(c)' \subseteq ActiveIn(c)
  BY DEF Gentle, ActiveIn
<1>3. ActiveIn(c) \subseteq stored
  BY DEF ActiveIn
<1> QED
  BY <1>1, <1>2, <1>3, FS_Subset, FS_CardinalityType

(* Only CountForInsert begins an insert. *)
LEMMA InsertSteps ==
  ASSUME TypeOK, OneProcess, [Next]_vars, NEW p \in Procs,
         insert'[p] # insert[p], insert'[p] # NoCall
  PROVE  \E j \in Jobs, c \in Chats : CountForInsert(p, j, c)
<1>1. ~Quiet /\ insert' # insert
  BY DEF Quiet
<1>2. CASE Tick \/ UNCHANGED vars
  BY <1>1, <1>2 DEF Tick, vars, procVars
<1>3. ASSUME NEW q \in Procs,
             \/ Start(q) \/ Stop(q) \/ Stopped(q) \/ Crash(q) \/ Poll(q) \/ DreamingEnds(q)
      PROVE  FALSE
  BY <1>1, <1>3, QuietSteps DEF Poll, Start, Stop, ClaimDueJobs, ClaimRaises
<1>4. ASSUME NEW q \in Procs, Tools(q)
      PROVE  \E j \in Jobs, c \in Chats : CountForInsert(q, j, c)
  <2>1. CASE InsertRow(q)
    BY <2>1 DEF InsertRow, OneProcess, TypeOK
  <2> QED
    BY <1>1, <1>4, <2>1, QuietSteps DEF Tools, CancelJob, DeleteJob, UpdateReads, UpdateWrites, procVars
<1>5. ASSUME NEW t \in TaskIds, Fire(t)
      PROVE  FALSE
  BY <1>1, <1>5, QuietSteps DEF Fire, CompleteFire, MarkFailed
<1>6. \A q \in Procs : q = p
  BY DEF OneProcess
<1> QED
  BY <1>2, <1>3, <1>4, <1>5, <1>6 DEF Next

LEMMA QuotaStep ==
  ASSUME OneProcess, TypeOK, Jobwise, QuotaInv, [Next]_vars
  PROVE  QuotaInv'
<1> USE DEF QuotaInv
<1>1. MaxPerChat \in Nat
  BY ConstantsAssumption
<1>2. ASSUME Gentle
      PROVE  QuotaInv'
  <2>1. /\ IsFiniteSet(stored')
        /\ \A c : /\ Cardinality(ActiveIn(c)') \in Nat /\ Cardinality(ActiveIn(c)) \in Nat
                  /\ Cardinality(ActiveIn(c)') <= Cardinality(ActiveIn(c))
    BY <1>2, GentleQuota
  <2>2. QuotaHolds'
    BY <1>1, <2>1 DEF QuotaHolds
  <2>3. \A c : HasRoom(c) => HasRoom(c)'
    BY <1>1, <2>1 DEF HasRoom
  <2>4. ASSUME NEW p \in Procs, ~LockFree(p)'
        PROVE  HasRoom(insert[p].row.chat)'
    <3>1. CASE insert'[p] = insert[p]
      BY <2>3, <2>4, <3>1 DEF LockFree
    <3>2. CASE insert'[p] # insert[p]
      <4>1. PICK j \in Jobs, c \in Chats : CountForInsert(p, j, c)
        BY <2>4, <3>2, InsertSteps DEF LockFree, NoCall
      <4>2. insert'[p].row.chat = c /\ HasRoom(c)
        BY <4>1 DEF CountForInsert, TypeOK
      <4> QED
        BY <2>3, <4>2
    <3> QED
      BY <3>1, <3>2
  <2> QED
    BY <2>1, <2>2, <2>4
<1>3. ASSUME NEW p \in Procs, InsertRow(p)
      PROVE  QuotaInv'
  <2>1. \A q \in Procs : q = p /\ LockFree(q)'
    BY <1>3 DEF InsertRow, LockFree, NoCall, OneProcess, TypeOK
  <2>2. PICK k \in Jobs :
          /\ k \notin stored /\ stored' = stored \cup {k}
          /\ \A j \in Jobs : j # k => row'[j] = row[j]
          /\ row'[k].chat = insert[p].row.chat
    BY <1>3, InsertLands
  <2>3. IsFiniteSet(stored')
    BY <2>2, FS_AddElement
  <2>4. HasRoom(insert[p].row.chat)
    BY <1>3 DEF InsertRow
  <2>5. ASSUME NEW c \in Chats
        PROVE  Cardinality(ActiveIn(c)') <= MaxPerChat
    <3>1. IsFiniteSet(ActiveIn(c)) /\ Cardinality(ActiveIn(c)) \in Nat
      BY FS_Subset, FS_CardinalityType DEF ActiveIn
    <3>2. CASE c = insert[p].row.chat
      <4>1. ActiveIn(c)' \subseteq ActiveIn(c) \cup {k}
        BY <2>2 DEF ActiveIn, TypeOK
      <4>2. /\ IsFiniteSet(ActiveIn(c) \cup {k})
            /\ Cardinality(ActiveIn(c) \cup {k}) = Cardinality(ActiveIn(c)) + 1
            /\ Cardinality(ActiveIn(c) \cup {k}) \in Nat
        <5>1. k \notin ActiveIn(c)
          BY <2>2 DEF ActiveIn
        <5> QED
          BY <3>1, <5>1, FS_AddElement
      <4>3. /\ Cardinality(ActiveIn(c)') \in Nat
            /\ Cardinality(ActiveIn(c)') <= Cardinality(ActiveIn(c) \cup {k})
        BY <4>1, <4>2, FS_Subset, FS_CardinalityType
      <4> QED
        BY <1>1, <2>4, <3>1, <3>2, <4>2, <4>3 DEF HasRoom
    <3>3. CASE c # insert[p].row.chat
      <4>1. ActiveIn(c)' \subseteq ActiveIn(c)
        BY <2>2, <3>3 DEF ActiveIn, TypeOK
      <4>2. /\ Cardinality(ActiveIn(c)') \in Nat
            /\ Cardinality(ActiveIn(c)') <= Cardinality(ActiveIn(c))
        BY <3>1, <4>1, FS_Subset, FS_CardinalityType
      <4> QED
        BY <1>1, <3>1, <4>2 DEF QuotaHolds
    <3> QED
      BY <3>2, <3>3
  <2> QED
    BY <2>1, <2>3, <2>5 DEF QuotaHolds
<1> QED
  BY <1>2, <1>3, GentleSteps

LEMMA InvInit == Init => IInv
<1> SUFFICES ASSUME Init
             PROVE  IInv
  OBVIOUS
<1>1. TypeOK
  BY BlankRowType DEF Init, TypeOK, Task, Call, Sleeping
<1>2. Jobwise
  BY DEF Init, Jobwise, NoDuplicateFire, SnapshotIsCurrent, FiredJobsAreIssued,
     InsertsAreFresh, FailingJobIsOff, InactiveForAReason, Live, LockFree, NoTask, NoCall
<1>3. Taskwise
  BY DEF Init, Taskwise, TasksHaveAProcess, NoBatchUnlessUp, Live, NoTask, Sleeping
<1>4. \A c : ActiveIn(c) = {}
  BY DEF Init, ActiveIn
<1>5. QuotaInv
  BY <1>4, FS_EmptySet, ConstantsAssumption
     DEF Init, QuotaInv, QuotaHolds, LockFree, NoCall
<1> QED
  BY <1>1, <1>2, <1>3, <1>5 DEF IInv

LEMMA InvStep == OneProcess /\ IInv /\ [Next]_vars => IInv'
  BY TypeStep, JobwiseStep, TaskwiseStep, QuotaStep DEF IInv

(* IInv is inductive when one process uses the database. *)
THEOREM Invariance == ASSUME OneProcess PROVE Spec => []IInv
  BY InvInit, InvStep, PTL DEF Spec

(* Only one task fires a job, whatever polls, tools, crashes and restarts
   of the one process interleave. *)
THEOREM OneFireAtATime == ASSUME OneProcess PROVE Spec => []NoDuplicateFire
<1>1. IInv => NoDuplicateFire
  BY DEF IInv, Jobwise
<1> QED
  BY <1>1, Invariance, PTL

(* The row a fire read when it was claimed is the row it settles. *)
THEOREM SnapshotsStayCurrent == ASSUME OneProcess PROVE Spec => []SnapshotIsCurrent
<1>1. IInv => SnapshotIsCurrent
  BY DEF IInv, Jobwise
<1> QED
  BY <1>1, Invariance, PTL

(* max_consecutive_failures turns a job off. *)
THEOREM FailingJobsStop == ASSUME OneProcess PROVE Spec => []FailingJobIsOff
<1>1. IInv => FailingJobIsOff
  BY DEF IInv, Jobwise
<1> QED
  BY <1>1, Invariance, PTL

(* No job becomes inactive for another reason than a fire or a cancel. *)
THEOREM NoJobIsLost == ASSUME OneProcess PROVE Spec => []InactiveForAReason
<1>1. IInv => InactiveForAReason
  BY DEF IInv, Jobwise
<1> QED
  BY <1>1, Invariance, PTL

(* max_jobs_per_chat holds: write_lock covers the count and the insert. *)
THEOREM QuotaIsKept == ASSUME OneProcess PROVE Spec => []QuotaHolds
<1>1. IInv => QuotaHolds
  BY DEF IInv, QuotaInv
<1> QED
  BY <1>1, Invariance, PTL

(* No step of the scheduler brings an inactive job back. *)
THEOREM InactiveStaysInactive == ASSUME OneProcess PROVE Spec => InactiveIsFinal
<1>1. ASSUME IInv, [Next]_vars
      PROVE  \A j \in stored \cap stored' : ~row[j].active => ~row'[j].active
  <2>1. CASE Gentle
    BY <2>1 DEF Gentle
  <2>2. ASSUME NEW p \in Procs, InsertRow(p)
        PROVE  \A j \in stored \cap stored' : ~row[j].active => ~row'[j].active
    BY <1>1, <2>2, InsertLands DEF IInv, TypeOK
  <2> QED
    BY <1>1, <2>1, <2>2, GentleSteps DEF IInv
<1>2. IInv /\ [Next]_vars
        => [\A j \in stored \cap stored' : ~row[j].active => ~row'[j].active]_vars
  BY <1>1
<1> QED
  BY <1>2, Invariance, PTL DEF Spec, InactiveIsFinal

LEMMA CompletionWithinLimit ==
  ASSUME TypeOK, Jobwise, NEW t \in TaskIds, CompleteFire(t),
         NEW j \in stored, row'[j].runs > row[j].runs, row'[j].active
  PROVE  /\ row[j].mode # "once"
         /\ row[j].max # NoLimit => row'[j].runs < row[j].max
<1> DEFINE k == task[t].job
           done == Completed(row[k])
<1>1. /\ Live(t) /\ k \in Jobs /\ row[k] \in Row /\ task[t].snap \in Row
      /\ now \in Nat /\ j \in Jobs /\ row[j].runs \in Nat
      /\ row[j].max \in Nat
  BY TaskFields DEF CompleteFire, Live, TypeOK, Row
<1>2. /\ done \in Row /\ done.runs = row[k].runs + 1 /\ done.active = row[k].active
  BY <1>1, CompletedFields
<1>3. ASSUME NEW new \in Row, UpdateRow(k, new)
      PROVE  j = k /\ row'[j] = new
  <2> HIDE DEF k
  <2>1. \A i \in Jobs : row'[i] = IF i = k /\ k \in stored THEN new ELSE row[i]
    BY <1>1, <1>3 DEF UpdateRow, TypeOK
  <2> QED
    BY <1>1, <2>1
<1>4. ASSUME NEW n \in Nat
      PROVE  /\ [done EXCEPT !.next = n] \in Row
             /\ [done EXCEPT !.next = n].runs = done.runs
             /\ [done EXCEPT !.next = n].active = done.active
             /\ [done EXCEPT !.next = n, !.active = FALSE] \in Row
             /\ ~[done EXCEPT !.next = n, !.active = FALSE].active
  <2> HIDE DEF done
  <2> QED
    BY <1>2 DEF Row
<1>5. PICK n \in NextFire(task[t].snap, now) : UpdateRow(k, [done EXCEPT !.next = n])
  <2>1. ~UpdateRow(k, [done EXCEPT !.next = now, !.active = FALSE])
    <3> HIDE DEF k, done
    <3> QED
      BY <1>1, <1>3, <1>4
  <2> QED
    BY <2>1 DEF CompleteFire
<1>6. n \in Nat
  BY <1>1, NextFireType
<1>7. /\ j = k /\ row'[j].runs = row[j].runs + 1 /\ row[j].active
  <2>1. j = k /\ row'[j] = [done EXCEPT !.next = n]
    BY <1>3, <1>4, <1>5, <1>6
  <2> HIDE DEF done
  <2> QED
    BY <1>2, <1>4, <1>6, <2>1
<1>8. LET s == task[t].snap IN row[j].runs = s.runs /\ row[j].max = s.max /\ row[j].mode = s.mode
  BY <1>1, <1>7, SnapshotTells DEF Jobwise, Active
<1>9. LET s == task[t].snap IN s.mode # "once" /\ (s.max # 0 => ~(s.runs + 1 >= s.max))
  BY <1>5 DEF NextFire
<1> QED
  BY <1>1, <1>7, <1>8, <1>9

(* The fire that exhausts max_runs, or fires a one-shot job, is its last. *)
THEOREM RunLimitIsKept == ASSUME OneProcess PROVE Spec => ExhaustedJobStops
<1> DEFINE Last(j) ==
      (j \in stored /\ row'[j].runs > row[j].runs /\ row'[j].active)
        => /\ row[j].mode # "once"
           /\ row[j].max # NoLimit => row'[j].runs < row[j].max
<1>1. ASSUME IInv, [Next]_vars, NEW j \in Jobs
      PROVE  Last(j)
  <2>1. IInv' /\ TypeOK /\ TypeOK' /\ Jobwise
    BY <1>1, InvStep DEF IInv
  <2>2. row[j].runs \in Nat /\ row'[j].runs \in Nat
    BY <2>1 DEF TypeOK, Row
  <2>3. CASE NoRun
    BY <2>2, <2>3 DEF NoRun
  <2>4. ASSUME NEW p \in Procs, InsertRow(p)
        PROVE  Last(j)
    <3>1. j \in stored => row'[j] = row[j]
      BY <1>1, <2>1, <2>4, InsertLands
    <3> QED
      BY <2>2, <3>1
  <2>5. ASSUME NEW t \in TaskIds, CompleteFire(t)
        PROVE  Last(j)
    BY <2>1, <2>5, CompletionWithinLimit
  <2> QED
    BY <1>1, <2>1, <2>3, <2>4, <2>5, GentleSteps
<1>2. IInv /\ [Next]_vars => [\A j \in Jobs : Last(j)]_vars
  BY <1>1
<1> QED
  BY <1>2, Invariance, PTL DEF Spec, ExhaustedJobStops

(***************************************************************************)
(* The fires of a process, for any number of processes: what the poll loop *)
(* has promised itself, counted and holds is within the limit.             *)
(***************************************************************************)
Batch(p) == {t \in TaskIds : task[t].st = "claimed" /\ task[t].proc = p}

FiresInv(p) ==
  /\ Cardinality(TasksOf(p)) <= MaxConcurrent
  /\ poll[p].pc = "claiming" => Cardinality(TasksOf(p)) + poll[p].limit <= MaxConcurrent
  /\ Batch(p) # {} => poll[p].pc = "claimed"
  /\ poll[p].pc = "claimed" => Cardinality(TasksOf(p) \cup Batch(p)) <= MaxConcurrent

(* The claims of one process that is up and whose writes do not fail: each
   has its fire, and an insert under way brings none. *)
ClaimsAreServed ==
  \A p \in Procs :
    /\ proc[p] = "up" =>
         \A j \in stored : row[j].claimed => \E t \in TaskIds : Live(t) /\ task[t].job = j
    /\ ~LockFree(p) => ~insert[p].row.claimed

(* Task t is over, as it was, or further on in its fire. *)
Calm(t) ==
  \/ task'[t].st = "free"
  \/ task'[t] = task[t]
  \/ Dispatched(t) /\ task'[t].st # "claimed" /\ task'[t].proc = task[t].proc

LEMMA CalmTasks ==
  ASSUME NEW p \in Procs, \A t \in TaskIds : Calm(t)
  PROVE  TasksOf(p)' \subseteq TasksOf(p) /\ Batch(p)' \subseteq Batch(p)
  BY DEF Calm, TasksOf, Batch, Dispatched

LEMMA TaskSets ==
  ASSUME NEW p
  PROVE  /\ IsFiniteSet(TasksOf(p)) /\ IsFiniteSet(Batch(p))
         /\ IsFiniteSet(TasksOf(p) \cup Batch(p))
         /\ Cardinality(TasksOf(p)) \in Nat
         /\ Cardinality(TasksOf(p) \cup Batch(p)) \in Nat
<1>1. IsFiniteSet(TasksOf(p)) /\ IsFiniteSet(Batch(p)) /\ IsFiniteSet(TasksOf(p) \cup Batch(p))
  BY ConstantsAssumption, FS_Subset DEF TasksOf, Batch
<1> QED
  BY <1>1, FS_CardinalityType

LEMMA FewerTasks ==
  ASSUME NEW A, IsFiniteSet(A), NEW B, B \subseteq A
  PROVE  Cardinality(B) <= Cardinality(A) /\ Cardinality(A) \in Nat /\ Cardinality(B) \in Nat
  BY FS_Subset, FS_CardinalityType

(* A step that starts no fire of p, and in which p's loop stays where it is
   or goes to sleep with nothing in its hands. *)
LEMMA FiresStay ==
  ASSUME TypeOK, NEW p \in Procs, FiresInv(p), \A t \in TaskIds : Calm(t),
         poll'[p] = poll[p] \/ (poll'[p].pc = "sleeping" /\ Batch(p)' = {})
  PROVE  FiresInv(p)'
<1> DEFINE A  == TasksOf(p)
           B  == Batch(p)
           A1 == TasksOf(p)'
           B1 == Batch(p)'
<1>1. A1 \subseteq A /\ B1 \subseteq B
  BY CalmTasks
<1>2. IsFiniteSet(A) /\ IsFiniteSet(A \cup B)
  BY TaskSets
<1>3. /\ Cardinality(A) <= MaxConcurrent
      /\ poll[p].pc = "claiming" => Cardinality(A) + poll[p].limit <= MaxConcurrent
      /\ B # {} => poll[p].pc = "claimed"
      /\ poll[p].pc = "claimed" => Cardinality(A \cup B) <= MaxConcurrent
  BY DEF FiresInv
<1>4. poll'[p] = poll[p] \/ (poll'[p].pc = "sleeping" /\ B1 = {})
  OBVIOUS
<1>5. poll[p].limit \in Nat /\ MaxConcurrent \in Nat
  BY ConstantsAssumption DEF TypeOK
<1>6. SUFFICES /\ Cardinality(A1) <= MaxConcurrent
               /\ poll'[p].pc = "claiming" => Cardinality(A1) + poll'[p].limit <= MaxConcurrent
               /\ B1 # {} => poll'[p].pc = "claimed"
               /\ poll'[p].pc = "claimed" => Cardinality(A1 \cup B1) <= MaxConcurrent
  BY ConstantsAssumption DEF FiresInv
<1> HIDE DEF A, B, A1, B1
<1>7. Cardinality(A1) <= Cardinality(A) /\ Cardinality(A) \in Nat /\ Cardinality(A1) \in Nat
  BY <1>1, <1>2, FewerTasks
<1>8. /\ Cardinality(A1 \cup B1) <= Cardinality(A \cup B)
      /\ Cardinality(A \cup B) \in Nat /\ Cardinality(A1 \cup B1) \in Nat
  <2>1. A1 \cup B1 \subseteq A \cup B
    BY <1>1
  <2> QED
    BY <1>2, <2>1, FewerTasks
<1>9. Cardinality(A1) <= MaxConcurrent
  BY <1>3, <1>5, <1>7
<1>10. poll'[p].pc = "claiming" => Cardinality(A1) + poll'[p].limit <= MaxConcurrent
  <2>1. ASSUME poll'[p].pc = "claiming"
        PROVE  poll'[p] = poll[p] /\ poll[p].pc = "claiming"
    BY <1>4, <2>1
  <2>2. ASSUME poll'[p].pc = "claiming"
        PROVE  Cardinality(A1) + poll[p].limit <= MaxConcurrent
    BY <1>3, <1>5, <1>7, <2>1, <2>2
  <2> QED
    BY <2>1, <2>2
<1>11. B1 # {} => poll'[p].pc = "claimed"
  BY <1>1, <1>3, <1>4
<1>12. poll'[p].pc = "claimed" => Cardinality(A1 \cup B1) <= MaxConcurrent
  <2>1. poll'[p].pc = "claimed" => poll[p].pc = "claimed"
    BY <1>4
  <2> QED
    BY <1>3, <1>5, <1>8, <2>1
<1> QED
  BY <1>9, <1>10, <1>11, <1>12

(* Every handler but the three of the poll loop that count, claim and
   dispatch. *)
LEMMA CalmSteps ==
  ASSUME TypeOK, NEW p \in Procs, FiresInv(p),
         \/ Tick \/ UNCHANGED vars
         \/ \E q \in Procs : \/ Start(q) \/ Stop(q) \/ Stopped(q) \/ Crash(q)
                             \/ ClaimRaises(q) \/ DreamingEnds(q) \/ Tools(q)
         \/ \E t \in TaskIds : Fire(t)
  PROVE  FiresInv(p)'
<1>1. CASE Tick \/ UNCHANGED vars
  <2>1. (\A t \in TaskIds : Calm(t)) /\ poll' = poll
    BY <1>1 DEF Tick, vars, procVars, Calm
  <2> QED
    BY <2>1, FiresStay
<1>2. ASSUME NEW q \in Procs, Start(q) \/ Stopped(q) \/ DreamingEnds(q) \/ Tools(q)
      PROVE  FiresInv(p)'
  <2>1. (\A t \in TaskIds : Calm(t)) /\ poll' = poll
    BY <1>2 DEF Start, Stopped, DreamingEnds, Tools, CountForInsert, InsertRow, CancelJob,
                DeleteJob, UpdateReads, UpdateWrites, ToolAbandoned, procVars, Calm
  <2> QED
    BY <2>1, FiresStay
<1>3. ASSUME NEW q \in Procs, Stop(q) \/ Crash(q)
      PROVE  FiresInv(p)'
  <2>1. \A t \in TaskIds : Calm(t)
    BY <1>3 DEF Stop, Crash, Calm, NoTask
  <2>2. p # q => poll'[p] = poll[p]
    BY <1>3 DEF Stop, Crash, TypeOK
  <2>3. p = q => poll'[p].pc = "sleeping" /\ Batch(p)' = {}
    BY <1>3 DEF Stop, Crash, TypeOK, Sleeping, Batch, NoTask
  <2> QED
    BY <2>1, <2>2, <2>3, FiresStay
<1>4. ASSUME NEW q \in Procs, ClaimRaises(q)
      PROVE  FiresInv(p)'
  <2>1. (\A t \in TaskIds : Calm(t)) /\ task' = task
    BY <1>4 DEF ClaimRaises, Calm
  <2>2. p # q => poll'[p] = poll[p]
    BY <1>4 DEF ClaimRaises, TypeOK
  <2>3. p = q => poll'[p].pc = "sleeping" /\ Batch(p)' = {}
    BY <1>4, <2>1 DEF ClaimRaises, TypeOK, Sleeping, Batch, FiresInv
  <2> QED
    BY <2>1, <2>2, <2>3, FiresStay
<1>5. ASSUME NEW t \in TaskIds, Fire(t)
      PROVE  FiresInv(p)'
  <2>1. poll' = poll
    BY <1>5 DEF Fire, FireReturns, FireRaises, ErrorSent, CompleteFire, MarkFailed,
                CancelFire, SettlingRaises
  <2>2. \/ Free(t)
        \/ /\ Dispatched(t)
           /\ \E s \in {"succeeded", "failed", "cancelled", "reporting"} :
                task' = [task EXCEPT ![t].st = s]
    BY <1>5 DEF Fire, FireReturns, FireRaises, ErrorSent, CompleteFire, MarkFailed,
                CancelFire, SettlingRaises, Begun, Dispatched
  <2>3. \A u \in TaskIds \ {t} : task'[u] = task[u]
    BY <2>2 DEF Free, TypeOK
  <2>4. Calm(t)
    <3>1. CASE Free(t)
      BY <3>1 DEF Free, TypeOK, NoTask, Calm
    <3>2. CASE ~Free(t)
      <4>1. PICK s \in {"succeeded", "failed", "cancelled", "reporting"} :
              task' = [task EXCEPT ![t].st = s]
        BY <2>2, <3>2
      <4>2. task'[t].proc = task[t].proc /\ task'[t].st = s
        BY <2>2, <3>2, <4>1 DEF TypeOK, Task, NoTask, Dispatched
      <4> QED
        BY <2>2, <3>2, <4>2 DEF Calm
    <3> QED
      BY <3>1, <3>2
  <2> QED
    BY <2>1, <2>3, <2>4, FiresStay DEF Calm
<1> QED
  BY <1>1, <1>2, <1>3, <1>4, <1>5

(* claim_due_jobs takes no more rows than its LIMIT, one task for each. *)
LEMMA ClaimIsBounded ==
  ASSUME NEW p, NEW n \in Nat, NEW S \in FirstDue(n),
         NEW T \in SUBSET TaskIds, ClaimedAs(p, S, T)
  PROVE  IsFiniteSet(T) /\ Cardinality(T) \in Nat /\ Cardinality(T) <= n
<1>1. IsFiniteSet(T)
  BY ConstantsAssumption, FS_Subset
<1>2. PICK g \in [T -> S] : (\A a, b \in T : g[a] = g[b] => a = b) /\ \A j \in S : \E t \in T : g[t] = j
  BY DEF ClaimedAs
<1>3. g \in Surjection(T, S) /\ g \in Injection(T, S)
  BY <1>2 DEF Surjection, Injection, IsInjective
<1>4. IsFiniteSet(S)
  BY <1>1, <1>3, FS_Surjection
<1>5. Cardinality(T) <= Cardinality(S)
  BY <1>3, <1>4, FS_Injection
<1>6. Cardinality(S) <= n
  BY DEF FirstDue
<1> QED
  BY <1>1, <1>4, <1>5, <1>6, FS_CardinalityType

(* A turn of the loop asks for what the tasks in hand leave of the limit. *)
LEMMA PollTickFires ==
  ASSUME TypeOK, NEW p \in Procs, NEW q \in Procs, FiresInv(p), PollTick(q)
  PROVE  FiresInv(p)'
<1>1. (\A t \in TaskIds : Calm(t)) /\ task' = task
  BY DEF PollTick, Calm
<1>2. CASE p # q
  BY <1>1, <1>2, FiresStay DEF PollTick, TypeOK
<1>3. CASE p = q
  <2>1. /\ poll'[p].pc = "claiming" /\ poll'[p].limit = Available(p) /\ Available(p) > 0
        /\ poll[p].pc = "sleeping"
    BY <1>3 DEF PollTick, TypeOK
  <2>2. TasksOf(p)' = TasksOf(p) /\ Batch(p)' = {}
    BY <1>1, <2>1 DEF TasksOf, Batch, Dispatched, FiresInv
  <2>3. Cardinality(TasksOf(p)) \in Nat /\ MaxConcurrent \in Nat
    BY TaskSets, ConstantsAssumption
  <2>4. Cardinality(TasksOf(p)) + Available(p) <= MaxConcurrent
    BY <2>1, <2>3 DEF Available, InUse
  <2> QED
    BY <2>1, <2>2, <2>4, ConstantsAssumption DEF FiresInv
<1> QED
  BY <1>2, <1>3

LEMMA ClaimFires ==
  ASSUME TypeOK, NEW p \in Procs, NEW q \in Procs, FiresInv(p), ClaimDueJobs(q)
  PROVE  FiresInv(p)'
<1>1. PICK S \in FirstDue(poll[q].limit),
           T \in SUBSET {t \in TaskIds : task[t].st = "free"} : ClaimedAs(q, S, T)
  BY DEF ClaimDueJobs, ClaimedAs
<1>2. /\ \A t \in T : task'[t].st = "claimed" /\ task'[t].proc = q
      /\ \A t \in TaskIds \ T : task'[t] = task[t]
  BY <1>1 DEF ClaimedAs
<1>3. \A t \in T : task[t].st = "free"
  OBVIOUS
<1>4. TasksOf(p)' = TasksOf(p)
  BY <1>2, <1>3 DEF TasksOf, Dispatched
<1>5. CASE p # q
  <2>1. Batch(p)' = Batch(p) /\ poll'[p] = poll[p]
    BY <1>2, <1>3, <1>5 DEF Batch, ClaimDueJobs, TypeOK
  <2> QED
    BY <1>4, <2>1, ConstantsAssumption DEF FiresInv
<1>6. CASE p = q
  <2>1. poll[p].pc = "claiming" /\ poll'[p].pc = "claimed" /\ poll[p].limit \in Nat
    BY <1>6 DEF ClaimDueJobs, TypeOK
  <2>2. Batch(p)' = T
    BY <1>2, <1>6, <2>1 DEF Batch, FiresInv
  <2> DEFINE A == TasksOf(p)
  <2>3. IsFiniteSet(T) /\ Cardinality(T) \in Nat /\ Cardinality(T) <= poll[p].limit
    BY <1>1, <1>6, <2>1, ClaimIsBounded
  <2>4. IsFiniteSet(A) /\ Cardinality(A) \in Nat /\ Cardinality(A) + poll[p].limit <= MaxConcurrent
    BY <2>1, TaskSets DEF FiresInv
  <2> HIDE DEF A
  <2>5. Cardinality(A \cup T) <= MaxConcurrent /\ Cardinality(A) <= MaxConcurrent
    <3>1. Cardinality(A \cup T) = Cardinality(A) + Cardinality(T) - Cardinality(A \cap T)
      BY <2>3, <2>4, FS_Union
    <3>2. Cardinality(A \cap T) \in Nat
      BY <2>4, FS_Intersection, FS_CardinalityType
    <3>3. MaxConcurrent \in Nat
      BY ConstantsAssumption
    <3> QED
      BY <2>1, <2>3, <2>4, <3>1, <3>2, <3>3
  <2>6. Cardinality(TasksOf(p) \cup T) <= MaxConcurrent /\ Cardinality(TasksOf(p)) <= MaxConcurrent
    BY <2>5 DEF A
  <2> QED
    BY <1>4, <2>1, <2>2, <2>6, ConstantsAssumption DEF FiresInv
<1> QED
  BY <1>5, <1>6

LEMMA DispatchKeepsFires ==
  ASSUME TypeOK, NEW p \in Procs, NEW q \in Procs, FiresInv(p), DispatchFires(q)
  PROVE  FiresInv(p)'
<1>1. \A t \in TaskIds :
        IF task[t].st = "claimed" /\ task[t].proc = q
        THEN task'[t].st = "running" /\ task'[t].proc = q
        ELSE task'[t] = task[t]
  BY DEF DispatchFires, TypeOK, Task, NoTask
<1>2. CASE p # q
  <2>1. TasksOf(p)' = TasksOf(p) /\ Batch(p)' = Batch(p) /\ poll'[p] = poll[p]
    BY <1>1, <1>2 DEF TasksOf, Batch, Dispatched, DispatchFires, TypeOK
  <2> QED
    BY <2>1, ConstantsAssumption DEF FiresInv
<1>3. CASE p = q
  <2>1. TasksOf(p)' = TasksOf(p) \cup Batch(p) /\ Batch(p)' = {}
    BY <1>1, <1>3 DEF TasksOf, Batch, Dispatched
  <2>2. poll[p].pc = "claimed" /\ poll'[p].pc = "sleeping"
    BY <1>3 DEF DispatchFires, TypeOK, Sleeping
  <2> QED
    BY <2>1, <2>2, ConstantsAssumption DEF FiresInv
<1> QED
  BY <1>2, <1>3

(* max_concurrent_fires bounds the fires of each process, however many
   processes share the database: the poll loop counts before it claims. *)
THEOREM FiresAreLimited == Spec => []FiresWithinLimit
<1> DEFINE All == \A p \in Procs : FiresInv(p)
<1>1. Init => All
  <2>1. ASSUME Init, NEW p \in Procs PROVE FiresInv(p)
    <3>1. TasksOf(p) = {} /\ Batch(p) = {} /\ poll[p].pc = "sleeping"
      BY <2>1 DEF Init, TasksOf, Batch, Dispatched, NoTask, Sleeping
    <3> QED
      BY <3>1, FS_EmptySet, ConstantsAssumption DEF FiresInv
  <2> QED
    BY <2>1
<1>2. TypeOK /\ All /\ [Next]_vars => All'
  <2>1. ASSUME TypeOK, [Next]_vars, NEW p \in Procs, FiresInv(p) PROVE FiresInv(p)'
    BY <2>1, CalmSteps, PollTickFires, ClaimFires, DispatchKeepsFires DEF Next, Poll
  <2> QED
    BY <2>1
<1>3. All => FiresWithinLimit
  BY DEF FiresInv, FiresWithinLimit
<1> HIDE DEF All
<1> QED
  BY <1>1, <1>2, <1>3, TypeCorrect, PTL DEF Spec

(***************************************************************************)
(* No claim without its fire, when one process is on the database and no   *)
(* write fails.                                                            *)
(***************************************************************************)
LEMMA ClaimsInit == Init => ClaimsAreServed
  BY DEF Init, ClaimsAreServed, LockFree, NoCall

(* A step that claims no row, ends no fire and begins no insert. *)
LEMMA ClaimsStay ==
  ASSUME ClaimsAreServed,
         stored' \subseteq stored,
         \A j \in stored' : row'[j].claimed => row[j].claimed,
         \A p \in Procs : proc'[p] = "up" => proc[p] = "up",
         \A t \in TaskIds : Live(t) => Live(t)' /\ task'[t].job = task[t].job,
         \A p \in Procs : insert'[p] = insert[p] \/ insert'[p] = NoCall
  PROVE  ClaimsAreServed'
  BY DEF ClaimsAreServed, LockFree, NoCall

(* A step after which no process is up. *)
LEMMA ClaimsWait ==
  ASSUME ClaimsAreServed, \A p \in Procs : proc'[p] # "up",
         \A p \in Procs : insert'[p] = insert[p] \/ insert'[p] = NoCall
  PROVE  ClaimsAreServed'
  BY DEF ClaimsAreServed, LockFree, NoCall

(* The fire of task t ends with its row's claim cleared. *)
LEMMA ClaimSettled ==
  ASSUME TypeOK, ClaimsAreServed, NEW t \in TaskIds, NEW j, j = task[t].job,
         NEW r \in Row, ~r.claimed, UpdateRow(j, r), Live(t),
         UNCHANGED <<stored, proc, insert>>,
         \A u \in TaskIds \ {t} : task'[u] = task[u]
  PROVE  ClaimsAreServed'
<1>1. j \in Jobs
  BY TaskFields
<1>2. \A k \in stored : row'[k].claimed => row[k].claimed /\ k # j
  BY <1>1 DEF UpdateRow, TypeOK
<1>3. \A k \in stored : row'[k].claimed => \A u \in TaskIds : Live(u) /\ task[u].job = k => Live(u)' /\ task'[u].job = k
  BY <1>2 DEF Live
<1> QED
  BY <1>2, <1>3 DEF ClaimsAreServed, LockFree

LEMMA SettledUnclaimed ==
  ASSUME NEW r \in Row, NEW n \in Nat, NEW b \in BOOLEAN, now \in Nat
  PROVE  /\ ~[Completed(r) EXCEPT !.next = n].claimed
         /\ ~[Completed(r) EXCEPT !.next = n, !.active = FALSE].claimed
         /\ ~Failed(r, b).claimed
<1>1. \A k, m : ~[r EXCEPT !.runs = k, !.claimed = FALSE, !.fails = m].claimed
  BY DEF Row
<1>2. ~Completed(r).claimed /\ Completed(r) \in Row
  BY <1>1, CompletedFields DEF Completed
<1>3. ASSUME NEW c \in Row, ~c.claimed
      PROVE  ~[c EXCEPT !.next = n].claimed /\ ~[c EXCEPT !.next = n, !.active = FALSE].claimed
  BY <1>3 DEF Row
<1>4. \A f, k, a : ~[r EXCEPT !.claimed = FALSE, !.fails = f, !.next = k, !.active = a].claimed
  BY DEF Row
<1> QED
  BY <1>2, <1>3, <1>4 DEF Failed

LEMMA ClaimsStep ==
  ASSUME OneProcess, DbFaults = FALSE, TypeOK, Taskwise, ClaimsAreServed, [Next]_vars
  PROVE  ClaimsAreServed'
<1>1. PICK p \in Procs : \A q \in Procs : q = p
  BY DEF OneProcess
<1>2. CASE Tick \/ UNCHANGED vars
  BY <1>2, ClaimsStay DEF Tick, vars, dbVars, procVars, Live
<1>3. CASE Start(p)
  BY <1>3 DEF Start, ReleaseStaleClaims, ClaimsAreServed, LockFree, TypeOK, Row
<1>4. CASE Stop(p)
  <2>1. proc'[p] = "stopping" /\ insert' = insert
    BY <1>4 DEF Stop, TypeOK
  <2> QED
    BY <1>1, <2>1, ClaimsWait
<1>5. CASE Stopped(p) \/ Crash(p)
  <2>1. proc'[p] = "down" /\ insert'[p] = NoCall
    BY <1>5 DEF Stopped, Crash, TypeOK
  <2> QED
    BY <1>1, <2>1, ClaimsWait
<1>6. CASE PollTick(p) \/ DreamingEnds(p)
  BY <1>6, ClaimsStay DEF PollTick, DreamingEnds, dbVars, Live
<1>7. CASE ClaimDueJobs(p)
  <2>1. PICK S \in FirstDue(poll[p].limit),
             T \in SUBSET {t \in TaskIds : task[t].st = "free"} : ClaimedAs(p, S, T)
    BY <1>7 DEF ClaimDueJobs, ClaimedAs
  <2>2. PICK g \in [T -> S] :
          /\ \A j \in S : \E t \in T : g[t] = j
          /\ Claim(S)
          /\ task' = [t \in TaskIds |->
                       IF t \in T
                       THEN [st |-> "claimed", proc |-> p, job |-> g[t], snap |-> row[g[t]]]
                       ELSE task[t]]
    BY <2>1 DEF ClaimedAs
  <2>3. \A t \in T : Live(t)' /\ task'[t].job = g[t]
    BY <2>2 DEF Live
  <2>4. \A j \in S : \E t \in TaskIds : Live(t)' /\ task'[t].job = j
    BY <2>2, <2>3
  <2>5. \A j \in stored \ S : row'[j] = row[j]
    BY <2>2 DEF Claim, TypeOK
  <2>6. \A t \in TaskIds : Live(t) => Live(t)' /\ task'[t].job = task[t].job
    BY <2>2 DEF Live
  <2>7. UNCHANGED <<stored, proc, insert>>
    BY <1>7 DEF ClaimDueJobs
  <2> QED
    BY <2>4, <2>5, <2>6, <2>7 DEF ClaimsAreServed, LockFree
<1>8. CASE ClaimRaises(p)
  BY <1>8 DEF ClaimRaises
<1>9. CASE DispatchFires(p)
  <2>1. \A t \in TaskIds : Live(t) => Live(t)' /\ task'[t].job = task[t].job
    BY <1>9 DEF DispatchFires, Live, TypeOK, Task, NoTask
  <2> QED
    BY <1>9, <2>1, ClaimsStay DEF DispatchFires, dbVars
<1>10. CASE Tools(p)
  <2>1. ASSUME NEW j \in Jobs, NEW c \in Chats, CountForInsert(p, j, c)
        PROVE  ClaimsAreServed'
    <3>1. ~insert'[p].row.claimed /\ UNCHANGED <<stored, row, proc, task>>
      BY <2>1 DEF CountForInsert, TypeOK
    <3> QED
      BY <1>1, <3>1 DEF ClaimsAreServed, Live
  <2>2. CASE InsertRow(p)
    <3>1. insert[p].job \in Jobs /\ ~insert[p].row.claimed
      BY <2>2 DEF InsertRow, ClaimsAreServed, TypeOK, Call, LockFree, NoCall
    <3>2. /\ stored' = stored \cup {insert[p].job} /\ UNCHANGED <<proc, task>>
          /\ \A j \in stored' : row'[j].claimed => j \in stored /\ row[j].claimed
          /\ insert'[p] = NoCall
      BY <2>2, <3>1 DEF InsertRow, TypeOK
    <3> QED
      BY <1>1, <3>2 DEF ClaimsAreServed, Live, LockFree, NoCall
  <2>3. ASSUME NEW j \in Jobs, CancelJob(p, j) \/ DeleteJob(p, j) \/ UpdateReads(p, j)
        PROVE  ClaimsAreServed'
    <3>1. /\ \A k \in stored : row'[k].claimed => row[k].claimed \/ k \notin stored'
          /\ stored' \subseteq stored /\ UNCHANGED <<proc, task, insert>>
      BY <2>3 DEF CancelJob, DeleteJob, UpdateReads, dbVars, procVars, TypeOK, Row
    <3> QED
      BY <3>1, ClaimsStay DEF Live
  <2>4. CASE UpdateWrites(p)
    <3>1. /\ \A k \in stored : row'[k].claimed => row[k].claimed
          /\ UNCHANGED <<stored, proc, task, insert>>
      BY <2>4 DEF UpdateWrites, TypeOK, Row
    <3> QED
      BY <3>1, ClaimsStay DEF Live
  <2>5. CASE ToolAbandoned(p)
    BY <1>1, <2>5, ClaimsStay DEF ToolAbandoned, dbVars, Live, TypeOK
  <2> QED
    BY <1>10, <2>1, <2>2, <2>3, <2>4, <2>5 DEF Tools
<1>11. ASSUME NEW t \in TaskIds, Fire(t)
       PROVE  ClaimsAreServed'
  <2>1. CASE FireReturns(t) \/ FireRaises(t)
    <3>1. PICK s \in {"succeeded", "failed"} : task' = [task EXCEPT ![t].st = s] /\ Begun(t)
      BY <2>1 DEF FireReturns, FireRaises
    <3>2. \A u \in TaskIds : Live(u) => Live(u)' /\ task'[u].job = task[u].job
      BY <3>1 DEF Live, Begun, TypeOK, Task, NoTask
    <3> QED
      BY <2>1, <3>2, ClaimsStay DEF FireReturns, FireRaises, dbVars
  <2>2. CASE ErrorSent(t)
    <3>1. \A u \in TaskIds : Live(u) => Live(u)' /\ task'[u].job = task[u].job
      BY <2>2 DEF ErrorSent, Free, Live, TypeOK
    <3> QED
      BY <2>2, <3>1, ClaimsStay DEF ErrorSent, dbVars
  <2>3. CASE CancelFire(t)
    <3>1. proc[p] = "stopping" /\ UNCHANGED <<proc, insert>>
      <4>1. task[t].proc \in Procs
        BY <2>3 DEF CancelFire, Dispatched, TypeOK, Task, NoTask
      <4> QED
        BY <1>1, <2>3, <4>1 DEF CancelFire
    <3> QED
      BY <1>1, <3>1, ClaimsWait
  <2>4. CASE SettlingRaises(t)
    BY <2>4 DEF SettlingRaises
  <2>5. CASE CompleteFire(t)
    <3>1. Live(t) /\ now \in Nat /\ row[task[t].job] \in Row /\ UNCHANGED <<stored, proc, insert>>
      BY <2>5, TaskFields DEF CompleteFire, Live, TypeOK
    <3>2. PICK n \in Nat :
            \/ UpdateRow(task[t].job, [Completed(row[task[t].job]) EXCEPT !.next = n])
            \/ UpdateRow(task[t].job, [Completed(row[task[t].job]) EXCEPT !.next = n, !.active = FALSE])
      <4>1. NextFire(task[t].snap, now) \subseteq Nat
        BY <3>1, NextFireType, TaskFields
      <4> QED
        BY <2>5, <3>1, <4>1 DEF CompleteFire
    <3>3. \A u \in TaskIds \ {t} : task'[u] = task[u]
      BY <2>5 DEF CompleteFire, Free, TypeOK
    <3>4. PICK r \in Row : ~r.claimed /\ UpdateRow(task[t].job, r)
      BY <3>1, <3>2, SettledUnclaimed, SettledRowType
    <3> QED
      BY <3>1, <3>3, <3>4, ClaimSettled
  <2>6. CASE MarkFailed(t)
    <3>1. Live(t) /\ now \in Nat /\ row[task[t].job] \in Row /\ UNCHANGED <<stored, proc, insert>>
      BY <2>6, TaskFields DEF MarkFailed, Live, TypeOK
    <3>2. GivesUp(task[t].snap) \in BOOLEAN
      BY DEF GivesUp
    <3>3. \A u \in TaskIds \ {t} : task'[u] = task[u]
      BY <2>6 DEF MarkFailed, Free, TypeOK
    <3>4. UpdateRow(task[t].job, Failed(row[task[t].job], GivesUp(task[t].snap)))
      BY <2>6 DEF MarkFailed
    <3>5. PICK r \in Row : ~r.claimed /\ UpdateRow(task[t].job, r)
      BY <3>1, <3>2, <3>4, SettledUnclaimed, SettledRowType
    <3> QED
      BY <3>1, <3>3, <3>5, ClaimSettled
  <2> QED
    BY <1>11, <2>1, <2>2, <2>3, <2>4, <2>5, <2>6 DEF Fire
<1> QED
  BY <1>1, <1>2, <1>3, <1>4, <1>5, <1>6, <1>7, <1>8, <1>9, <1>10, <1>11 DEF Next, Poll

(* While the one process runs and no write fails, a claimed row has the fire
   that will settle it, whatever polls, tools and restarts interleave. *)
THEOREM ClaimsHaveFires ==
  ASSUME OneProcess, DbFaults = FALSE PROVE Spec => []NoOrphanClaim
<1>1. IInv /\ ClaimsAreServed /\ [Next]_vars => ClaimsAreServed'
  BY ClaimsStep DEF IInv
<1>2. ClaimsAreServed => NoOrphanClaim
  BY DEF ClaimsAreServed, NoOrphanClaim, OneProcess
<1> QED
  BY <1>1, <1>2, ClaimsInit, Invariance, PTL DEF Spec
=============================================================================

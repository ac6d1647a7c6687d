--------------------------- MODULE CronScheduler ---------------------------
(***************************************************************************)
(* The cron scheduler of nahida_bot: SchedulerService (scheduler/          *)
(* service.py) over CronRepository (scheduler/repository.py) and the       *)
(* cron_jobs table of one SQLite file.                                     *)
(*                                                                         *)
(* A process polls the table, claims the due rows, dispatches one asyncio  *)
(* task per claimed row and settles the row when the task ends.  Between   *)
(* any two awaits another handler may run: the cron_* tools, stop(), the   *)
(* end of another fire.  The process may also crash; a restart releases    *)
(* every claim it finds.  Procs has one element in a normal deployment and *)
(* two when a second process opens the same database file.                 *)
(*                                                                         *)
(* Time is a discrete clock.  A prompt, a channel and an agent's reply do  *)
(* not appear: a fire either returns or raises.                            *)
(***************************************************************************)
EXTENDS Naturals, FiniteSets

CONSTANTS
  Procs,          \* processes that run the scheduler on the same database
  Jobs,           \* the job ids uuid4() may yield; an id is issued once
  Chats,          \* session keys "{platform}:{chat_id}"
  TaskIds,        \* names for asyncio fire tasks (and claimed, undispatched jobs)
  MaxConcurrent,  \* SchedulerConfig.max_concurrent_fires
  MaxFailures,    \* SchedulerConfig.max_consecutive_failures
  MaxPerChat,     \* SchedulerConfig.max_jobs_per_chat
  RetryDelay,     \* SchedulerConfig.failure_retry_seconds, in ticks
  Delays,         \* delays a caller asks for and a cron expression resolves to
  RunLimits,      \* values of max_runs a caller passes; NoLimit for None
  MaxTime,        \* bound: the clock stops here
  RunBound,       \* bound: no update_job is called on a job that ran this often
  Dreaming,       \* SchedulerConfig.memory_dreaming_enabled
  DbFaults        \* may the settling write of a fire raise an exception?

NoLimit == 0      \* max_runs IS NULL; a given max_runs is validated to be > 0

ASSUME ConstantsAssumption ==
  /\ IsFiniteSet(TaskIds)
  /\ Chats # {}
  /\ MaxConcurrent \in Nat
  /\ MaxFailures \in Nat \ {0}
  /\ MaxPerChat \in Nat
  /\ RetryDelay \in Nat \ {0}
  /\ Delays \subseteq Nat \ {0}
  /\ RunLimits \subseteq Nat
  /\ MaxTime \in Nat
  /\ RunBound \in Nat
  /\ Dreaming \in BOOLEAN
  /\ DbFaults \in BOOLEAN

Modes == {"once", "interval", "cron"}

(* A row of cron_jobs: the columns the scheduler's decisions depend on. *)
Row == [chat : Chats, mode : Modes, fireAt : Nat, every : Nat, max : Nat,
        runs : Nat, fails : Nat, active : BOOLEAN, claimed : BOOLEAN,
        next : Nat]

BlankRow == [chat |-> CHOOSE c \in Chats : TRUE, mode |-> "once",
             fireAt |-> 0, every |-> 0, max |-> NoLimit, runs |-> 0,
             fails |-> 0, active |-> FALSE, claimed |-> FALSE, next |-> 0]

VARIABLES
  now,        \* the wall clock
  issued,     \* job ids handed out by create_job
  stored,     \* ids with a row in cron_jobs
  row,        \* the rows; BlankRow outside stored
  cancelled,  \* history: ids a cancel_job found active
  proc,       \* "down", "up" (_running) or "stopping" (inside stop())
  poll,       \* where the poll loop is, and the limit it computed
  task,       \* the fire tasks and the jobs claimed but not yet dispatched
  dream,      \* a memory-dreaming task is in _active_tasks
  insert,     \* an insert_job_with_quota holding write_lock, or none
  update      \* an update_job between its read and its write, or none

dbVars   == <<issued, stored, row, cancelled>>
procVars == <<proc, poll, task, dream, insert, update>>
vars     == <<now, dbVars, procVars>>

NoTask   == [st |-> "free"]
Claims   == {"claimed", "running", "succeeded", "failed", "cancelled"}
Task     == {NoTask} \cup [st : Claims \cup {"reporting"},
                           proc : Procs, job : Jobs, snap : Row]
Sleeping == [pc |-> "sleeping", limit |-> 0]
NoCall   == [st |-> "none"]
Call(J)  == {NoCall} \cup [st : {"pending"}, job : J, row : Row]

Live(t)       == task[t].st \in Claims      \* the task works under a claim
Dispatched(t) == task[t].st \notin {"free", "claimed"}    \* in _active_tasks
TasksOf(p)    == {t \in TaskIds : Dispatched(t) /\ task[t].proc = p}
Active(j)     == j \in stored /\ row[j].active
LockFree(p)   == insert[p].st = "none"      \* DatabaseEngine.write_lock

TypeOK ==
  /\ now \in Nat
  /\ issued \subseteq Jobs
  /\ stored \subseteq issued
  /\ row \in [Jobs -> Row]
  /\ cancelled \subseteq issued
  /\ proc \in [Procs -> {"down", "up", "stopping"}]
  /\ poll \in [Procs -> [pc : {"sleeping", "claiming", "claimed"}, limit : Nat]]
  /\ task \in [TaskIds -> Task]
  /\ dream \in [Procs -> BOOLEAN]
  /\ insert \in [Procs -> Call(issued)]
  /\ update \in [Procs -> Call(Jobs)]

Init ==
  /\ now = 0
  /\ issued = {}
  /\ stored = {}
  /\ row = [j \in Jobs |-> BlankRow]
  /\ cancelled = {}
  /\ proc = [p \in Procs |-> "down"]
  /\ poll = [p \in Procs |-> Sleeping]
  /\ task = [t \in TaskIds |-> NoTask]
  /\ dream = [p \in Procs |-> FALSE]
  /\ insert = [p \in Procs |-> NoCall]
  /\ update = [p \in Procs |-> NoCall]

Tick ==
  /\ now < MaxTime
  /\ now' = now + 1
  /\ UNCHANGED <<dbVars, procVars>>

----------------------------------------------------------------------------
(* claim_due_jobs *)

\* Mutant: the SELECT forgets claimed_at IS NULL.
DueOrClaimed == {j \in stored : row[j].active /\ row[j].next <= now}

Due == {j \in stored : row[j].active /\ ~row[j].claimed /\ row[j].next <= now}

(* ORDER BY next_fire_at LIMIT n *)
FirstDue(n) ==
  {S \in SUBSET Due :
     /\ Cardinality(S) <= n
     /\ S # Due => Cardinality(S) = n
     /\ \A j \in S, k \in Due \ S : row[j].next <= row[k].next}

Claim(S) ==
  row' = [j \in Jobs |-> IF j \in S THEN [row[j] EXCEPT !.claimed = TRUE] ELSE row[j]]

(* The rows the UPDATEs of a claim under way may have reached: the connection
   keeps them in its open transaction, which the next writer commits. *)
ClaimedSoFar(p) ==
  IF poll[p].pc = "claiming" /\ LockFree(p)
  THEN UNION {FirstDue(n) : n \in 0 .. poll[p].limit}
  ELSE {{}}

----------------------------------------------------------------------------
(* Lifecycle *)

\* Mutants: the release switches the claimed jobs off, or clears nothing.
ReleaseByDeactivating ==
  row' = [j \in Jobs |-> [row[j] EXCEPT !.claimed = FALSE, !.active = @ /\ ~row[j].claimed]]
ReleaseNothing == row' = row

ReleaseStaleClaims ==
  row' = [j \in Jobs |-> [row[j] EXCEPT !.claimed = FALSE]]

Start(p) ==
  /\ proc[p] = "down"
  /\ ReleaseStaleClaims
  /\ proc' = [proc EXCEPT ![p] = "up"]
  /\ UNCHANGED <<now, issued, stored, cancelled, poll, task, dream, insert, update>>

(* stop() cancels the poll task first.  A batch claimed but not dispatched is
   dropped and a claim under way is abandoned: their rows stay claimed. *)
Stop(p) ==
  /\ proc[p] = "up"
  /\ \E S \in ClaimedSoFar(p) : Claim(S)
  /\ proc' = [proc EXCEPT ![p] = "stopping"]
  /\ poll' = [poll EXCEPT ![p] = Sleeping]
  /\ task' = [t \in TaskIds |->
                IF task[t].st = "claimed" /\ task[t].proc = p
                THEN NoTask ELSE task[t]]
  /\ UNCHANGED <<now, issued, stored, cancelled, dream, insert, update>>

(* stop() returns once gather() has: every fire task has ended. *)
Stopped(p) ==
  /\ proc[p] = "stopping"
  /\ TasksOf(p) = {}
  /\ ~dream[p]
  /\ proc' = [proc EXCEPT ![p] = "down"]
  /\ insert' = [insert EXCEPT ![p] = NoCall]
  /\ update' = [update EXCEPT ![p] = NoCall]
  /\ UNCHANGED <<now, dbVars, poll, task, dream>>

Crash(p) ==
  /\ proc[p] # "down"
  /\ proc' = [proc EXCEPT ![p] = "down"]
  /\ poll' = [poll EXCEPT ![p] = Sleeping]
  /\ task' = [t \in TaskIds |->
                IF task[t].st # "free" /\ task[t].proc = p THEN NoTask ELSE task[t]]
  /\ dream' = [dream EXCEPT ![p] = FALSE]
  /\ insert' = [insert EXCEPT ![p] = NoCall]
  /\ update' = [update EXCEPT ![p] = NoCall]
  /\ UNCHANGED <<now, dbVars>>

----------------------------------------------------------------------------
(* The poll loop *)

InUse(p) == Cardinality(TasksOf(p)) + (IF dream[p] THEN 1 ELSE 0)

\* Mutants: the active tasks are not counted; one slot too few.
AvailableIgnoringTasks(p) == MaxConcurrent
AvailableButOne(p) == IF InUse(p) + 1 < MaxConcurrent THEN MaxConcurrent - InUse(p) - 1 ELSE 0

Available(p) == IF InUse(p) < MaxConcurrent THEN MaxConcurrent - InUse(p) ELSE 0

(* One turn of the loop up to its first await.  `available` is computed
   before the dreaming task is dispatched. *)
PollTick(p) ==
  /\ proc[p] = "up"
  /\ poll[p].pc = "sleeping"
  /\ Available(p) > 0
  /\ poll' = [poll EXCEPT ![p] = [pc |-> "claiming", limit |-> Available(p)]]
  /\ \E due \in {FALSE, Dreaming} : dream' = [dream EXCEPT ![p] = @ \/ due]
  /\ UNCHANGED <<now, dbVars, proc, task, insert, update>>

(* The claimed rows as the poll loop holds them: the SELECT's values. *)
ClaimDueJobs(p) ==
  /\ poll[p].pc = "claiming"
  /\ LockFree(p)
  /\ \E S \in FirstDue(poll[p].limit),
        T \in SUBSET {t \in TaskIds : task[t].st = "free"} :
       \E g \in [T -> S] :
         /\ \A a, b \in T : g[a] = g[b] => a = b
         /\ \A j \in S : \E t \in T : g[t] = j
         /\ Claim(S)
         /\ task' = [t \in TaskIds |->
                      IF t \in T
                      THEN [st |-> "claimed", proc |-> p, job |-> g[t],
                            snap |-> row[g[t]]]
                      ELSE task[t]]
  /\ poll' = [poll EXCEPT ![p] = [pc |-> "claimed", limit |-> 0]]
  /\ UNCHANGED <<now, issued, stored, cancelled, proc, dream, insert, update>>

(* fetch_all, an UPDATE or the commit raises: logged as scheduler.poll_error. *)
ClaimRaises(p) ==
  /\ DbFaults
  /\ poll[p].pc = "claiming"
  /\ \E S \in ClaimedSoFar(p) : Claim(S)
  /\ poll' = [poll EXCEPT ![p] = Sleeping]
  /\ UNCHANGED <<now, issued, stored, cancelled, proc, task, dream, insert, update>>

DispatchFires(p) ==
  /\ poll[p].pc = "claimed"
  /\ task' = [t \in TaskIds |->
                IF task[t].st = "claimed" /\ task[t].proc = p
                THEN [task[t] EXCEPT !.st = "running"] ELSE task[t]]
  /\ poll' = [poll EXCEPT ![p] = Sleeping]
  /\ UNCHANGED <<now, dbVars, proc, dream, insert, update>>

DreamingEnds(p) ==
  /\ dream[p]
  /\ dream' = [dream EXCEPT ![p] = FALSE]
  /\ UNCHANGED <<now, dbVars, proc, poll, task, insert, update>>

----------------------------------------------------------------------------
(* A fire task *)

Begun(t)  == task[t].st = "running"
Ended(t)  == task[t].st \in {"succeeded", "failed", "cancelled"}

\* Mutant: the task that is over keeps its job and snapshot.
FreeKeepsJob(t) == task' = [task EXCEPT ![t].st = "free"]

Free(t) == task' = [task EXCEPT ![t] = NoTask]

(* _execute_fire returns (the reply was sent, or there is no agent), or
   raises: an agent or channel error, or wait_for's timeout. *)
FireReturns(t) ==
  /\ Begun(t)
  /\ task' = [task EXCEPT ![t].st = "succeeded"]
  /\ UNCHANGED <<now, dbVars, proc, poll, dream, insert, update>>

FireRaises(t) ==
  /\ Begun(t)
  /\ task' = [task EXCEPT ![t].st = "failed"]
  /\ UNCHANGED <<now, dbVars, proc, poll, dream, insert, update>>

\* Mutant: max_runs compared with the count before this run.
NextFireOneTooMany(snap, at) ==
  IF snap.mode = "once" \/ (snap.max # NoLimit /\ snap.runs >= snap.max) THEN {}
  ELSE IF snap.mode = "interval" THEN {at + snap.every}
  ELSE {at + d : d \in Delays}

(* _compute_next_fire on the snapshot taken at the claim: the set of times
   it may return; empty when it returns None. *)
NextFire(snap, at) ==
  IF snap.mode = "once" \/ (snap.max # NoLimit /\ snap.runs + 1 >= snap.max)
  THEN {}
  ELSE IF snap.mode = "interval" THEN {at + snap.every}
  ELSE {at + d : d \in Delays}

(* UPDATE cron_jobs SET ... WHERE job_id = ?: no row, no effect. *)
UpdateRow(j, new) == row' = IF j \in stored THEN [row EXCEPT ![j] = new] ELSE row

\* Mutant: completing a fire reactivates the job.
CompletedAndActive(r) == [r EXCEPT !.runs = @ + 1, !.claimed = FALSE, !.fails = 0, !.active = TRUE]

Completed(r) == [r EXCEPT !.runs = @ + 1, !.claimed = FALSE, !.fails = 0]

CompleteFire(t) ==
  LET j     == task[t].job
      nexts == NextFire(task[t].snap, now)
      done  == Completed(row[j])
  IN
  /\ task[t].st = "succeeded"
  /\ LockFree(task[t].proc)
  /\ \/ /\ nexts = {}
        /\ UpdateRow(j, [done EXCEPT !.next = now, !.active = FALSE])
     \/ \E n \in nexts : UpdateRow(j, [done EXCEPT !.next = n])
  /\ Free(t)
  /\ UNCHANGED <<now, issued, stored, cancelled, proc, poll, dream, insert, update>>

\* Mutant: the count before this failure is compared.
GivesUpLate(snap) == snap.fails >= MaxFailures

GivesUp(snap) == snap.fails + 1 >= MaxFailures

\* Mutant: a failed fire keeps its claim.
FailedStillClaimed(r, off) ==
  [r EXCEPT !.fails = @ + 1, !.next = now + RetryDelay, !.active = @ /\ ~off]

Failed(r, off) ==
  [r EXCEPT !.claimed = FALSE, !.fails = @ + 1, !.next = now + RetryDelay,
            !.active = @ /\ ~off]

(* After a timeout or an error the task then sends a message to the chat,
   still in _active_tasks. *)
MarkFailed(t) ==
  LET j == task[t].job IN
  /\ task[t].st \in {"failed", "cancelled"}
  /\ LockFree(task[t].proc)
  /\ UpdateRow(j, Failed(row[j], GivesUp(task[t].snap)))
  /\ IF task[t].st = "failed" THEN task' = [task EXCEPT ![t].st = "reporting"]
                              ELSE Free(t)
  /\ UNCHANGED <<now, issued, stored, cancelled, proc, poll, dream, insert, update>>

(* _send_error returns: it swallows what the channel raises. *)
ErrorSent(t) ==
  /\ task[t].st = "reporting"
  /\ Free(t)
  /\ UNCHANGED <<now, dbVars, proc, poll, dream, insert, update>>

(* stop()'s grace period ends and gather() cancels the tasks: a running fire
   goes to its CancelledError handler; a settling write is abandoned. *)
CancelFire(t) ==
  /\ Dispatched(t) /\ proc[task[t].proc] = "stopping"
  /\ \/ /\ Begun(t)
        /\ task' = [task EXCEPT ![t].st = "cancelled"]
     \/ /\ task[t].st \in {"succeeded", "failed", "reporting"}
        /\ Free(t)
  /\ UNCHANGED <<now, dbVars, proc, poll, dream, insert, update>>

(* complete_fire or mark_failed raises: nothing in _fire_job catches it. *)
SettlingRaises(t) ==
  /\ DbFaults
  /\ Ended(t)
  /\ Free(t)
  /\ UNCHANGED <<now, dbVars, proc, poll, dream, insert, update>>

----------------------------------------------------------------------------
(* The cron_* tools: create_job, cancel_job, delete_job, update_job *)

ActiveIn(c) == {j \in stored : row[j].active /\ row[j].chat = c}

\* Mutant: the quota admits one job too many.
HasRoomForOneMore(c) == Cardinality(ActiveIn(c)) <= MaxPerChat

HasRoom(c) == Cardinality(ActiveIn(c)) < MaxPerChat

(* insert_job_with_quota up to the end of its SELECT COUNT: it holds
   write_lock until InsertRow. *)
CountForInsert(p, j, c) ==
  /\ proc[p] # "down"
  /\ LockFree(p)
  /\ j \notin issued
  /\ HasRoom(c)
  /\ issued' = issued \cup {j}
  /\ \E m \in Modes, d \in Delays, x \in RunLimits :
       insert' = [insert EXCEPT ![p] =
         [st |-> "pending", job |-> j,
          row |-> [chat |-> c, mode |-> m,
                   fireAt |-> IF m = "once" THEN now + d ELSE 0,
                   every |-> IF m = "interval" THEN d ELSE 0,
                   max |-> x, runs |-> 0, fails |-> 0,
                   active |-> TRUE, claimed |-> FALSE, next |-> now + d]]]
  /\ UNCHANGED <<now, stored, row, cancelled, proc, poll, task, dream, update>>

InsertRow(p) ==
  /\ ~LockFree(p)
  /\ stored' = stored \cup {insert[p].job}
  /\ row' = [row EXCEPT ![insert[p].job] = insert[p].row]
  /\ insert' = [insert EXCEPT ![p] = NoCall]
  /\ UNCHANGED <<now, issued, cancelled, proc, poll, task, dream, update>>

CancelJob(p, j) ==
  /\ proc[p] # "down"
  /\ LockFree(p)
  /\ Active(j)
  /\ row' = [row EXCEPT ![j].active = FALSE, ![j].claimed = FALSE]
  /\ cancelled' = cancelled \cup {j}
  /\ UNCHANGED <<now, issued, stored, procVars>>

DeleteJob(p, j) ==
  /\ proc[p] # "down"
  /\ LockFree(p)
  /\ j \in stored
  /\ stored' = stored \ {j}
  /\ row' = [row EXCEPT ![j] = BlankRow]
  /\ UNCHANGED <<now, issued, cancelled, procVars>>

(* The columns update_job computes from the row it read and the arguments:
   the resulting mode m, a delay d (0: none given), a limit x.  One row per
   next_fire_at it may choose, none when it raises.  An interval job keeps
   its next_fire_at when neither an interval nor a mode is given. *)
Recomputed(old, m, d, x) ==
  LET at  == IF d = 0 THEN old.fireAt ELSE now + d
      len == IF d = 0 THEN old.every ELSE d
      times == CASE m = "once"     -> {n \in {at} : n > now}
                 [] m = "interval" -> {n \in {now + len, old.next} :
                                         /\ len # 0
                                         /\ n = now + len \/ (d = 0 /\ m = old.mode)}
                 [] m = "cron"     -> {now + n : n \in {k \in Delays : d # 0 \/ m = old.mode}}
  IN {[BlankRow EXCEPT !.mode = m, !.next = n,
         !.max    = IF m = "once" THEN NoLimit ELSE IF x = NoLimit THEN old.max ELSE x,
         !.fireAt = IF m = "once" THEN n ELSE 0,
         !.every  = IF m = "interval" THEN len ELSE 0] : n \in times}

UpdateReads(p, j) ==
  /\ proc[p] # "down"
  /\ update[p].st = "none"
  /\ Active(j)
  /\ ~row[j].claimed
  /\ row[j].runs < RunBound
  /\ \E m \in Modes, d \in Delays \cup {0}, x \in RunLimits :
       \E new \in Recomputed(row[j], m, d, x) :
         update' = [update EXCEPT ![p] = [st |-> "pending", job |-> j, row |-> new]]
  /\ UNCHANGED <<now, dbVars, proc, poll, task, dream, insert>>

\* Mutant: only the read checks claimed_at.
UpdatableActive(j) == Active(j)

(* WHERE job_id = ? AND is_active = 1 AND claimed_at IS NULL *)
Updatable(j) == Active(j) /\ ~row[j].claimed

UpdateWrites(p) ==
  LET j   == update[p].job
      new == update[p].row
  IN
  /\ update[p].st = "pending"
  /\ LockFree(p)
  /\ row' = IF Updatable(j)
            THEN [row EXCEPT ![j] = [@ EXCEPT !.mode = new.mode, !.max = new.max,
                    !.fireAt = new.fireAt, !.every = new.every,
                    !.next = new.next, !.fails = 0]]
            ELSE row
  /\ update' = [update EXCEPT ![p] = NoCall]
  /\ UNCHANGED <<now, issued, stored, cancelled, proc, poll, task, dream, insert>>

(* The tool's write raises, or the agent run that called it is cancelled. *)
ToolAbandoned(p) ==
  /\ \/ /\ insert[p].st = "pending"
        /\ insert' = [insert EXCEPT ![p] = NoCall]
        /\ UNCHANGED update
     \/ /\ update[p].st = "pending"
        /\ update' = [update EXCEPT ![p] = NoCall]
        /\ UNCHANGED insert
  /\ UNCHANGED <<now, dbVars, proc, poll, task, dream>>

----------------------------------------------------------------------------
Poll(p) == PollTick(p) \/ ClaimDueJobs(p) \/ ClaimRaises(p) \/ DispatchFires(p)

Tools(p) ==
  \/ \E j \in Jobs, c \in Chats : CountForInsert(p, j, c)
  \/ InsertRow(p)
  \/ \E j \in Jobs : CancelJob(p, j) \/ DeleteJob(p, j) \/ UpdateReads(p, j)
  \/ UpdateWrites(p)
  \/ ToolAbandoned(p)

Fire(t) == \/ FireReturns(t) \/ FireRaises(t)
           \/ CompleteFire(t) \/ MarkFailed(t) \/ ErrorSent(t)
           \/ CancelFire(t) \/ SettlingRaises(t)

Next ==
  \/ Tick
  \/ \E p \in Procs : \/ Start(p) \/ Stop(p) \/ Stopped(p) \/ Crash(p)
                      \/ Poll(p) \/ DreamingEnds(p)
                      \/ Tools(p)
  \/ \E t \in TaskIds : Fire(t)

Spec == Init /\ [][Next]_vars

(* The event loop runs every ready step; wait_for bounds a fire by
   job_timeout_seconds; whoever stops or loses the process starts it again.
   Nothing forces a user to call a tool, a process to stop or to crash. *)
Fairness ==
  /\ \A p \in Procs : /\ WF_vars(PollTick(p) \/ ClaimDueJobs(p) \/ DispatchFires(p))
                      /\ WF_vars(DreamingEnds(p))
                      /\ WF_vars(InsertRow(p))
                      /\ WF_vars(UpdateWrites(p))
                      /\ WF_vars(Stopped(p))
                      /\ WF_vars(Start(p))
  /\ \A t \in TaskIds : /\ WF_vars(FireReturns(t) \/ FireRaises(t))
                        /\ WF_vars(CompleteFire(t) \/ MarkFailed(t) \/ ErrorSent(t))

FairSpec == Spec /\ Fairness

----------------------------------------------------------------------------
(* Properties *)

(* No job is fired by two tasks at once: claim_due_jobs hides a claimed row
   from every later poll until the fire is settled. *)
NoDuplicateFire ==
  \A t, u \in TaskIds : Live(t) /\ Live(u) /\ task[t].job = task[u].job => t = u

(* _compute_next_fire and _mark_failed decide on the row as it was at the
   claim.  As long as the row is active, it still is what was claimed. *)
SnapshotIsCurrent ==
  \A t \in TaskIds :
    Live(t) /\ Active(task[t].job)
      => row[task[t].job] = [task[t].snap EXCEPT !.claimed = TRUE]

(* While the scheduler runs, every claimed row has a task that will settle
   it: no row is hidden from the poll with nobody working on it. *)
NoOrphanClaim ==
  (\A p \in Procs : proc[p] = "up")
    => \A j \in stored : row[j].claimed => \E t \in TaskIds : Live(t) /\ task[t].job = j

(* max_consecutive_failures: a job that failed that often in a row is off. *)
FailingJobIsOff == \A j \in stored : row[j].active => row[j].fails < MaxFailures

(* max_jobs_per_chat holds whatever tools and fires interleave. *)
QuotaHolds == \A c \in Chats : Cardinality(ActiveIn(c)) <= MaxPerChat

(* max_concurrent_fires bounds the fire tasks of a process. *)
FiresWithinLimit == \A p \in Procs : Cardinality(TasksOf(p)) <= MaxConcurrent

(* An inactive job never becomes active again: not when a fire that was
   running while it was cancelled settles, not when an update that read it
   before writes after. *)
InactiveIsFinal ==
  [][\A j \in stored \cap stored' : ~row[j].active => ~row'[j].active]_vars

(* A job leaves the active state only because a fire of it completed, its
   last allowed failure was recorded, or a tool took it away: a stored
   one-shot job is not lost by a crash, a restart or an update. *)
InactiveForAReason ==
  \A j \in stored : ~row[j].active => \/ j \in cancelled
                                      \/ row[j].runs > 0
                                      \/ row[j].fails >= MaxFailures

(* The fire that uses up max_runs, or fires a one-shot job, is the last. *)
ExhaustedJobStops ==
  [][\A j \in Jobs : (j \in stored /\ row'[j].runs > row[j].runs /\ row'[j].active)
        => /\ row[j].mode # "once"
           /\ row[j].max # NoLimit => row'[j].runs < row[j].max]_vars

(* Liveness: a due job is fired once the scheduler stays up. *)
DueJobIsClaimed ==
  \A j \in Jobs : \A p \in Procs :
    <>[](proc[p] = "up")
      => ((j \in Due) ~> ~(j \in Due))

(* Liveness: no claim lasts: the fire settles it, or the next start does. *)
ClaimIsReleased ==
  \A j \in Jobs : (j \in stored /\ row[j].claimed) ~> ~(j \in stored /\ row[j].claimed)

============================================================================

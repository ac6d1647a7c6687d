---------------------------- MODULE Orchestrator ----------------------------
(***************************************************************************)
(* AgentOrchestrator (agent/orchestration/service.py) with AgentRegistry   *)
(* and the background_tasks ledger: a parent run spawns subagents, each in *)
(* an asyncio task of its own behind a semaphore; a tool or a command may  *)
(* wait for one or stop it while it runs.  Every await may be followed by  *)
(* a step of somebody else, and a cancelled coroutine gets CancelledError  *)
(* at its next step.  Every subagent notifies its requester (one with      *)
(* notify_policy "silent" skips the delivery).                             *)
(***************************************************************************)
EXTENDS Naturals, FiniteSets

CONSTANTS
  Tasks,        \* bound: the task ids spawn_subagent may draw ...
  DrawnBy,      \* bound: ... in each parent run
  Sessions,     \* requester sessions
  Runs,         \* bound: the parent runs there are at once: of a session the
                \* router's, and one for each cron job that fires in it, as
                \* only the router has a tracker; when one has ended the
                \* next takes its name
  NoRun,
  SessionOf,    \* the requester session of a parent run
  MaxChildren,  \* OrchestrationConfig.max_child_agents_per_run
  Concurrency,  \* OrchestrationConfig.subagent_concurrency
  Awaited,      \* bound: the tasks some agent_wait may wait for
  Faulty        \* bound: the tasks whose writes to the ledger and the memory
                \* may raise

ASSUME ConstantsAssumption ==
  /\ IsFiniteSet(Tasks)
  /\ IsFiniteSet(Runs)
  /\ NoRun \notin Runs
  /\ SessionOf \in [Runs -> Sessions]
  /\ DrawnBy \in [Runs -> SUBSET Tasks]
  /\ MaxChildren \in Nat \ {0}
  /\ Concurrency \in Nat \ {0}
  /\ Awaited \subseteq Tasks
  /\ Faulty \subseteq Tasks

VARIABLES
  parent,   \* the run that spawned a task, which names its requester session
  ledger,   \* background_tasks.status, "none" without a row
  reg,      \* AgentRun.status in the registry, "none" when not registered
  pc,       \* where spawn_subagent or _run_subagent is
  out,      \* the terminal status the run is recording
  cancel,   \* task.cancel() was called, CancelledError not delivered yet
  told,     \* the completion appended to the requester's session: "unsure" when
            \* the append was cut off or raised, "twice" when there are two
  stop,     \* where a stop_task is: "unseen" when it found no run
  wait,     \* a wait_for_task: "none", "waiting", or "killed" by CancelledError
  stopped,  \* history: tasks a stop_task that saw them registered, or over,
            \* has finished on
  troubled  \* history: tasks that a stop_task found not registered yet, or
            \* gave up, and none has finished on since

vars == <<parent, ledger, reg, pc, out, cancel, told, stop, wait,
          stopped, troubled>>

Terminal == {"succeeded", "failed", "timed_out", "cancelled"}
Status   == {"queued", "running"} \cup Terminal

(* "recording" and "delivering" are inside the try, "handling" and
   "reporting" in an except clause, with a finally clause around both;
   "created" and "starting" are before the try.  A coroutine has returned
   ("ended"), or CancelledError or an exception of a handler has left it
   ("cancelled", "raised"); it was "dropped" by a cancellation or "refused" by
   a failing write before the try; or it is "lost": never started, or the
   process ended. *)
InTry    == {"running", "recording", "delivering"}
Handlers == {"handling", "reporting"}
Alive    == {"created", "starting"} \cup InTry \cup Handlers
Gone     == {"ended", "cancelled", "raised", "dropped", "refused", "lost"}

TypeOK ==
  /\ parent \in [Tasks -> Runs \cup {NoRun}]
  /\ ledger \in [Tasks -> Status \cup {"none"}]
  /\ reg \in [Tasks -> Status \cup {"none"}]
  /\ pc \in [Tasks -> {"none", "creating"} \cup Alive \cup Gone]
  /\ out \in [Tasks -> Terminal \cup {"none"}]
  /\ cancel \in [Tasks -> BOOLEAN]
  /\ told \in [Tasks -> Terminal \cup {"none", "unsure", "twice"}]
  /\ stop \in [Tasks -> {"none", "recording", "unseen", "early"}]
  /\ wait \in [Tasks -> {"none", "waiting", "killed"}]
  /\ stopped \subseteq Tasks
  /\ troubled \subseteq Tasks

Init ==
  /\ parent = [k \in Tasks |-> NoRun]
  /\ ledger = [k \in Tasks |-> "none"]
  /\ reg = [k \in Tasks |-> "none"]
  /\ pc = [k \in Tasks |-> "none"]
  /\ out = [k \in Tasks |-> "none"]
  /\ cancel = [k \in Tasks |-> FALSE]
  /\ told = [k \in Tasks |-> "none"]
  /\ stop = [k \in Tasks |-> "none"]
  /\ wait = [k \in Tasks |-> "none"]
  /\ stopped = {} /\ troubled = {}

Goto(k, to)   == pc' = [pc EXCEPT ![k] = to]
Registry(k, st) == reg' = [reg EXCEPT ![k] = st]
Ledger(k, st) == ledger' = [ledger EXCEPT ![k] = st]
Trouble(k)    == troubled' = troubled \cup ({k} \ stopped)

----------------------------------------------------------------------------
(* spawn_subagent *)

RunsOf(s) == {r \in Runs : SessionOf[r] = s}

Active(k) == reg[k] \in {"queued", "running"}

\* Mutant: only the runs that hold the semaphore count.
RunningChildren(s) == {k \in Tasks : parent[k] \in RunsOf(s) /\ reg[k] = "running"}

ActiveChildren(s) == {k \in Tasks : parent[k] \in RunsOf(s) /\ Active(k)}

Spawning(r) == {k \in Tasks : parent[k] = r /\ pc[k] = "creating"}

(* A run executes its tool calls one after the other, so it has one spawn under
   way at most; those of the other runs of its session are not counted yet. *)
Spawn(k, r) ==
  /\ pc[k] = "none" /\ k \in DrawnBy[r]
  /\ Spawning(r) = {}
  /\ Cardinality(ActiveChildren(SessionOf[r])) < MaxChildren
  /\ parent' = [parent EXCEPT ![k] = r]
  /\ Goto(k, "creating")
  /\ UNCHANGED <<ledger, reg, out, cancel, told, stop, wait, stopped, troubled>>

CreateRow(k) ==
  /\ pc[k] = "creating" /\ ledger[k] = "none"
  /\ Ledger(k, "queued")
  /\ UNCHANGED <<parent, reg, pc, out, cancel, told, stop, wait, stopped, troubled>>

(* create() has returned: register and create_task, with no await between. *)
Register(k) ==
  /\ pc[k] = "creating" /\ ledger[k] # "none"
  /\ Registry(k, "queued")
  /\ Goto(k, "created")
  /\ UNCHANGED <<parent, ledger, out, cancel, told, stop, wait, stopped, troubled>>

(* The parent run is stopped, or the INSERT raises: a row may stay behind. *)
SpawnAbandoned(k) ==
  /\ pc[k] = "creating"
  /\ Goto(k, "lost")
  /\ UNCHANGED <<parent, ledger, reg, out, cancel, told, stop, wait, stopped, troubled>>

----------------------------------------------------------------------------
(* _run_subagent *)

\* Mutant: a run that ended by CancelledError never gives its slot back.
HoldersAndCancelled == {k \in Tasks : pc[k] \in {"starting", "cancelled"} \cup InTry \cup Handlers}

Holders == {k \in Tasks : pc[k] \in {"starting"} \cup InTry \cup Handlers}

Proceeds(k, at) == pc[k] = at /\ ~cancel[k]

Acquire(k) ==
  /\ Proceeds(k, "created")
  /\ Cardinality(Holders) < Concurrency
  /\ Registry(k, "running")
  /\ Goto(k, "starting")
  /\ UNCHANGED <<parent, ledger, out, cancel, told, stop, wait, stopped, troubled>>

RecordRunning(k) ==
  /\ Proceeds(k, "starting")
  /\ Ledger(k, "running")
  /\ Goto(k, "running")
  /\ UNCHANGED <<parent, reg, out, cancel, told, stop, wait, stopped, troubled>>

\* Mutant: the timeout branch forgets the delivery.
ToldUnlessTimedOut(k) ==
  CASE out[k] = "timed_out" -> told[k]
    [] OTHER -> IF told[k] \in {"none", "unsure"} THEN out[k] ELSE "twice"

Told(k) == IF told[k] \in {"none", "unsure"} THEN out[k] ELSE "twice"

(* A write that is cancelled or raises may have taken effect: sqlite's thread
   goes on with it, and a statement whose commit failed is part of the next
   commit. *)
WriteUnderWay(k) ==
  \/ pc[k] \in {"created", "running"} /\ UNCHANGED <<ledger, told>>
  \/ pc[k] = "starting" /\ (ledger' = ledger \/ Ledger(k, "running")) /\ UNCHANGED told
  \/ /\ pc[k] \in {"recording", "handling"}
     /\ ledger' = ledger \/ Ledger(k, out[k])
     /\ UNCHANGED told
  \/ /\ pc[k] \in {"delivering", "reporting"}
     /\ told' = [told EXCEPT ![k] = IF @ \in Terminal THEN "twice" ELSE "unsure"]
     /\ UNCHANGED ledger

(* The write of RUNNING raises before the try: nothing unregisters the run. *)
RecordRunningRaises(k) ==
  /\ k \in Faulty
  /\ Proceeds(k, "starting")
  /\ Goto(k, "refused")
  /\ WriteUnderWay(k)
  /\ UNCHANGED <<parent, reg, out, cancel, stop, wait, stopped, troubled>>

(* The executor returns an answer, or an error or an empty answer... *)
Returns(k) ==
  /\ Proceeds(k, "running")
  /\ \E st \in {"succeeded", "failed"} :
       Registry(k, st) /\ out' = [out EXCEPT ![k] = st]
  /\ Goto(k, "recording")
  /\ UNCHANGED <<parent, ledger, cancel, told, stop, wait, stopped, troubled>>

(* ... or it raises, TimeoutError or another exception. *)
Raises(k) ==
  /\ Proceeds(k, "running")
  /\ \E st \in {"timed_out", "failed"} :
       Registry(k, st) /\ out' = [out EXCEPT ![k] = st]
  /\ Goto(k, "handling")
  /\ UNCHANGED <<parent, ledger, cancel, told, stop, wait, stopped, troubled>>

RecordOutcome(k) ==
  /\ \/ Proceeds(k, "recording") /\ Goto(k, "delivering")
     \/ Proceeds(k, "handling") /\ Goto(k, "reporting")
  /\ Ledger(k, out[k])
  /\ UNCHANGED <<parent, reg, out, cancel, told, stop, wait, stopped, troubled>>

(* A run whose except clause re-raises CancelledError ends as cancelled. *)
Ending(k) == IF out[k] = "cancelled" /\ pc[k] \in Handlers THEN "cancelled" ELSE "ended"

Deliver(k) ==
  /\ Proceeds(k, "delivering") \/ Proceeds(k, "reporting")
  /\ told' = [told EXCEPT ![k] = Told(k)]
  /\ Registry(k, "none")
  /\ Goto(k, Ending(k))
  /\ out' = [out EXCEPT ![k] = "none"]
  /\ UNCHANGED <<parent, ledger, cancel, stop, wait, stopped, troubled>>

(* Recording or delivering raises: inside the try the handler takes over and
   records "failed", in a handler only the finally clause is left. *)
WriteRaises(k) ==
  /\ k \in Faulty
  /\ WriteUnderWay(k)
  /\ \/ /\ Proceeds(k, "recording") \/ Proceeds(k, "delivering")
        /\ Registry(k, "failed")
        /\ out' = [out EXCEPT ![k] = "failed"]
        /\ Goto(k, "handling")
     \/ /\ Proceeds(k, "handling") \/ Proceeds(k, "reporting")
        /\ Registry(k, "none")
        /\ Goto(k, "raised")
        /\ out' = [out EXCEPT ![k] = "none"]
  /\ UNCHANGED <<parent, cancel, stop, wait, stopped, troubled>>

(* CancelledError is raised where the coroutine is. *)
Cancelled(k) ==
  /\ pc[k] \in Alive /\ cancel[k]
  /\ cancel' = [cancel EXCEPT ![k] = FALSE]
  /\ WriteUnderWay(k)
  /\ \/ /\ pc[k] \in {"created", "starting"}    \* no finally clause yet
        /\ Goto(k, "dropped")
        /\ UNCHANGED <<reg, out>>
     \/ /\ pc[k] \in InTry
        /\ Registry(k, "cancelled")
        /\ out' = [out EXCEPT ![k] = "cancelled"]
        /\ Goto(k, "handling")
     \/ /\ pc[k] \in Handlers
        /\ Registry(k, "none")
        /\ Goto(k, "cancelled")
        /\ out' = [out EXCEPT ![k] = "none"]
  /\ UNCHANGED <<parent, stop, wait, stopped, troubled>>

----------------------------------------------------------------------------
(* stop_task and wait_for_task *)

\* Mutant: the ledger is updated but the asyncio task goes on.
CancelsNothing(k) == cancel' = cancel

CancelsTask(k) == cancel' = [cancel EXCEPT ![k] = pc[k] \in Alive]

(* The row was read; registered runs that are not done are cancelled. *)
StopTask(k) ==
  /\ ledger[k] # "none" /\ stop[k] = "none"
  /\ CancelsTask(k)
  /\ \/ /\ pc[k] = "creating"
        /\ stop' = [stop EXCEPT ![k] = "early"]
        /\ Trouble(k)
     \/ /\ pc[k] # "creating"
        /\ stop' = [stop EXCEPT ![k] = IF reg[k] = "none" THEN "unseen" ELSE "recording"]
        /\ UNCHANGED troubled
  /\ UNCHANGED <<parent, ledger, reg, pc, out, told, wait, stopped>>

\* Mutant: the registry keeps the status the run had.
RegistryKeeps(k) == reg' = reg

MarksRegistry(k) ==
  reg' = [reg EXCEPT ![k] = IF @ # "none" /\ stop[k] = "recording" THEN "cancelled" ELSE @]

(* The write a cancelled run was awaiting is ahead of this one, behind
   write_lock and in sqlite's thread: CancelledError has reached the run by
   then, unless the executor is still unwinding. *)
StopRecords(k) ==
  /\ stop[k] # "none"
  /\ cancel[k] => pc[k] = "running"
  /\ Ledger(k, "cancelled")
  /\ MarksRegistry(k)
  /\ stop' = [stop EXCEPT ![k] = "none"]
  /\ \/ stop[k] = "early" /\ UNCHANGED <<stopped, troubled>>
     \/ stop[k] # "early" /\ stopped' = stopped \cup {k} /\ troubled' = troubled \ {k}
  /\ UNCHANGED <<parent, pc, out, cancel, told, wait>>

(* The write raises, or the run that called the tool is stopped itself. *)
StopAbandoned(k) ==
  /\ stop[k] # "none"
  /\ Ledger(k, "cancelled") \/ ledger' = ledger
  /\ stop' = [stop EXCEPT ![k] = "none"]
  /\ Trouble(k)
  /\ UNCHANGED <<parent, reg, pc, out, cancel, told, wait, stopped>>

(* wait_for_task on a run that is not registered returns the row at once. *)
WaitForTask(k) ==
  /\ k \in Awaited /\ wait[k] = "none" /\ reg[k] # "none"
  /\ wait' = [wait EXCEPT ![k] = "waiting"]
  /\ UNCHANGED <<parent, ledger, reg, pc, out, cancel, told, stop, stopped, troubled>>

(* shield() passes the CancelledError of a cancelled task on to the waiter. *)
WaitReturns(k) ==
  /\ wait[k] = "waiting"
  /\ \/ pc[k] \in {"cancelled", "dropped"} /\ wait' = [wait EXCEPT ![k] = "killed"]
     \/ pc[k] \notin {"cancelled", "dropped"} /\ wait' = [wait EXCEPT ![k] = "none"]   \* or timed out
  /\ UNCHANGED <<parent, ledger, reg, pc, out, cancel, told, stop, stopped, troubled>>

----------------------------------------------------------------------------
(* The process ends and a new one starts: nothing awaits the subagents, their
   handlers find the database closed, and nothing looks at the old rows. *)
Restart ==
  /\ pc' = [k \in Tasks |-> IF pc[k] \in Alive \cup {"creating"} THEN "lost" ELSE pc[k]]
  /\ reg' = [k \in Tasks |-> "none"]
  /\ cancel' = [k \in Tasks |-> FALSE]
  /\ stop' = [k \in Tasks |-> "none"]
  /\ wait' = [k \in Tasks |-> "none"]
  /\ out' = [k \in Tasks |-> "none"]
  /\ UNCHANGED <<parent, ledger, told, stopped, troubled>>

----------------------------------------------------------------------------
RunStep(k) ==
  \/ Acquire(k) \/ RecordRunning(k) \/ RecordRunningRaises(k)
  \/ Returns(k) \/ Raises(k) \/ RecordOutcome(k) \/ Deliver(k)
  \/ WriteRaises(k) \/ Cancelled(k)

Next ==
  \/ Restart
  \/ \E k \in Tasks :
       \/ \E r \in Runs : Spawn(k, r)
       \/ CreateRow(k) \/ Register(k) \/ SpawnAbandoned(k)
       \/ RunStep(k)
       \/ StopTask(k) \/ StopRecords(k) \/ StopAbandoned(k)
       \/ WaitForTask(k) \/ WaitReturns(k)

Spec == Init /\ [][Next]_vars

(* The event loop runs what is ready; the executor's wait_for bounds a run. *)
Fairness ==
  \A k \in Tasks : /\ WF_vars(RunStep(k))
                   /\ WF_vars(CreateRow(k) \/ Register(k))
                   /\ WF_vars(StopRecords(k) \/ StopAbandoned(k))

FairSpec == Spec /\ Fairness

----------------------------------------------------------------------------
(* Properties *)

(* A stop_task that has returned is the last word: whatever the run was
   recording, its row stays cancelled.  Not so when the run was registered
   only after the stop. *)
StoppedStaysCancelled ==
  \A k \in stopped : ledger[k] = "cancelled"

(* A run that has returned and that nobody stopped has told its requester what
   the ledger says, also when it had to record a second outcome because a write
   inside the try raised.  It has told so once, but for an append that raised:
   what was inserted by then is committed with the next write. *)
OutcomeIsTold ==
  \A k \in Tasks : pc[k] = "ended" /\ k \notin stopped \cup troubled => told[k] = ledger[k]

(* max_child_agents_per_run bounds the queued and running children of a run,
   although the check is before an await and the registration after it.  The
   check counts those of the session: with the spawns of its other runs it may
   have one more for each of these. *)
ChildLimit ==
  /\ \A r \in Runs : Cardinality({k \in Tasks : parent[k] = r /\ Active(k)}) <= MaxChildren
  /\ \A s \in Sessions : RunsOf(s) # {} =>
       Cardinality({k \in Tasks : parent[k] \in RunsOf(s) /\ Active(k)})
         < MaxChildren + Cardinality(RunsOf(s))

(* A run that has entered its try gives its slot of the limit back, however it
   ends.  Before the try nothing does: the slot of a run whose first write
   raised is lost until a stop_task finds it, and that of a run that was
   cancelled there until a stop_task has finished. *)
SlotIsNotLeaked ==
  \A k \in Tasks : Active(k) /\ pc[k] \notin Alive =>
    pc[k] = "refused" \/ (pc[k] = "dropped" /\ k \notin stopped)

(* Liveness: a spawned run gets the semaphore or is given up, whatever
   becomes of the runs before it. *)
RunGetsItsTurn == \A k \in Tasks : (pc[k] = "created") ~> (pc[k] # "created")

(* agent_wait returns the terminal summary of the task, or its state at the
   timeout: it never ends with the waiter cancelled. *)
WaiterIsAnswered == \A k \in Tasks : wait[k] # "killed"
============================================================================

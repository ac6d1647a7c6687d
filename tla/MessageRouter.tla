--------------------------- MODULE MessageRouter ---------------------------
(***************************************************************************)
(* MessageRouter (core/router.py) with the ActiveRunTracker and the        *)
(* persistence of SessionRunner.run_stream (core/session_runner.py), and   *)
(* the /stop and /new commands (plugins/builtin/commands.py).              *)
(*                                                                         *)
(* A message is resolved to a session when it arrives.  An idle session    *)
(* gets a background task that runs the agent; a busy one queues the       *)
(* message, and the task that ends takes the next one.  Everything between *)
(* two awaits is one step.  An agent and a memory store are configured.    *)
(*                                                                         *)
(* A run is named by the message it answers.                               *)
(***************************************************************************)
EXTENDS Naturals, Sequences, Functions

CONSTANTS
  Chats,      \* a chat's deterministic session "{platform}:{chat_id}" is the chat
  NewIds,     \* bound: the session ids /new may mint
  Msgs,       \* bound: the inbound messages that are not commands
  Observed,   \* those of a group that are not addressed to the bot
  NoSession,  \* no override, no session
  NoRun       \* the tracker has no run

ASSUME ConstantsAssumption ==
  /\ Chats \cap NewIds = {}
  /\ NoSession \notin Chats \cup NewIds
  /\ NoRun \notin Msgs
  /\ Observed \subseteq Msgs

Sessions == Chats \cup NewIds

VARIABLES
  phase,    \* "down", "starting" and "restoring" (start() awaits the store,
            \* and has read it), "up", "stopping"
  active,   \* _active_sessions, the default filled in
  loaded,   \* the overrides restore_active_sessions has read
  saves,    \* the _do_persist tasks, in the order they take write_lock
  saved,    \* the active_sessions table
  minted,   \* history: the ids /new made, in order
  pending,  \* _pending
  tracked,  \* ActiveRunTracker._runs: the run registered for a session
  at,       \* where a message and its run are
  sid,      \* the session a message was resolved to
  awaited,  \* the tasks stop() gathers
  turns,    \* which of a message's turns are in the memory store
  seen,     \* history: the messages in the history a live run was given
  ahead,    \* history: for a message that is queued or being answered, those
            \* of its session which were when it arrived and still are
  early     \* history: in this process a run was cancelled before its try

sessionVars == <<active, loaded, saves, saved, minted>>
queueVars   == <<pending, tracked, at, sid, awaited, ahead, early>>
memoryVars  == <<turns, seen>>
vars        == <<phase, sessionVars, queueVars, memoryVars>>

(* The body of a run, in order: scheduled and loading the display settings,
   before the try; inside it, the settings and the history; the agent and
   its replies; the user's turn; the assistant's; the consolidation. *)
InTry == {"loading", "thinking", "saving", "answering", "consolidating",
          "failing"}

(* "cancelling" and "aborting": cancelled inside or before the try, with
   CancelledError not delivered yet. *)
Running == InTry \cup {"created", "cancelling", "aborting"}

(* "done": answered and stored.  "dead": its task ended without its finally.
   "over": failed, stopped, dropped, lost in a crash, or observed. *)
Over == {"done", "dead", "over"}

Live(m) == at[m] \in Running

InHand(s) == {m \in Msgs : sid[m] = s /\ (Live(m) \/ at[m] = "queued")}

TypeOK ==
  /\ phase \in {"down", "starting", "restoring", "up", "stopping"}
  /\ active \in [Chats -> Sessions]
  /\ loaded \in [Chats -> Sessions \cup {NoSession}]
  /\ saves \in Seq(Chats \X NewIds)
  /\ saved \in [Chats -> Sessions \cup {NoSession}]
  /\ minted \in Seq(NewIds)
  /\ pending \in [Sessions -> Seq(Msgs)]
  /\ tracked \in [Sessions -> Msgs \cup {NoRun}]
  /\ at \in [Msgs -> Running \cup Over \cup {"new", "queued", "observing"}]
  /\ sid \in [Msgs -> Sessions \cup {NoSession}]
  /\ awaited \subseteq Msgs
  /\ turns \in [Msgs -> {"none", "user", "both"}]
  /\ seen \in [Msgs -> SUBSET Msgs]
  /\ ahead \in [Msgs -> SUBSET Msgs]
  /\ early \in BOOLEAN

NothingRead == [c \in Chats |-> NoSession]

Init ==
  /\ phase = "down"
  /\ active = [c \in Chats |-> c]
  /\ loaded = NothingRead
  /\ saves = <<>>
  /\ saved = [c \in Chats |-> NoSession]
  /\ minted = <<>>
  /\ pending = [s \in Sessions |-> <<>>]
  /\ tracked = [s \in Sessions |-> NoRun]
  /\ at = [m \in Msgs |-> "new"]
  /\ sid = [m \in Msgs |-> NoSession]
  /\ awaited = {}
  /\ turns = [m \in Msgs |-> "none"]
  /\ seen = [m \in Msgs |-> {}]
  /\ ahead = [m \in Msgs |-> {}]
  /\ early = FALSE

Moved(m, to) == [at EXCEPT ![m] = to]

(* Every message that is somewhere in From goes to `to`. *)
MovedAll(From, to) == [m \in Msgs |-> IF at[m] \in From THEN to ELSE at[m]]

----------------------------------------------------------------------------
(* start(), restore_active_sessions(), stop(), a crash *)

(* A new process subscribes first and reads the overrides afterwards. *)
Start ==
  /\ phase = "down"
  /\ phase' = "starting"
  /\ active' = [c \in Chats |-> c]
  /\ saves' = <<>>
  /\ pending' = [s \in Sessions |-> <<>>]
  /\ tracked' = [s \in Sessions |-> NoRun]
  /\ at' = MovedAll({"observing"}, "over")
  /\ UNCHANGED <<loaded, saved, minted, sid, awaited, ahead, early, memoryVars>>

RestoreReads ==
  /\ phase = "starting"
  /\ phase' = "restoring"
  /\ loaded' = saved
  /\ UNCHANGED <<active, saves, saved, minted, queueVars, memoryVars>>

\* Mutant: chats without a stored override are restored too.
RestoredVerbatim == loaded

Restored == [c \in Chats |-> IF loaded[c] = NoSession THEN active[c] ELSE loaded[c]]

(* The read is applied, or it raised: logged, and nothing is restored. *)
RestoreApplies ==
  /\ \/ phase = "restoring" /\ active' = Restored
     \/ phase = "starting" /\ UNCHANGED active
  /\ phase' = "up"
  /\ loaded' = NothingRead
  /\ UNCHANGED <<saves, saved, minted, queueVars, memoryVars>>

(* tracker.all_runs whose task is not done *)
Unfinished == {m \in Msgs : Live(m) /\ \E s \in Sessions : tracked[s] = m}

Stop ==
  /\ phase = "up"
  /\ phase' = "stopping"
  /\ awaited' = Unfinished
  /\ UNCHANGED <<sessionVars, pending, tracked, at, sid, ahead, early, memoryVars>>

\* Mutant: stop() waits for the tracker to be empty.
TrackerIsEmpty == \A s \in Sessions : tracked[s] = NoRun

GatherReturns == \A m \in awaited : ~Live(m)

(* gather() waits for the tasks it was given; the queues are cleared. *)
Stopped ==
  /\ phase = "stopping"
  /\ GatherReturns
  /\ phase' = "down"
  /\ pending' = [s \in Sessions |-> <<>>]
  /\ at' = MovedAll({"queued"}, "over")
  /\ awaited' = {}
  /\ ahead' = [m \in Msgs |-> {}]
  /\ early' = FALSE
  /\ UNCHANGED <<sessionVars, tracked, sid, memoryVars>>

Crash ==
  /\ phase # "down"
  /\ phase' = "down"
  /\ saves' = <<>>
  /\ pending' = [s \in Sessions |-> <<>>]
  /\ tracked' = [s \in Sessions |-> NoRun]
  /\ at' = MovedAll(Running \cup {"queued", "observing"}, "over")
  /\ awaited' = {}
  /\ loaded' = NothingRead
  /\ seen' = [m \in Msgs |-> {}]
  /\ ahead' = [m \in Msgs |-> {}]
  /\ early' = FALSE
  /\ UNCHANGED <<active, saved, minted, sid, turns>>

----------------------------------------------------------------------------
(* Inbound messages: _handle_message_received and _dispatch_message *)

\* Mutant: nobody looks at the tracker.
NeverBusy(s) == FALSE

Busy(s) == tracked[s] # NoRun

(* A message that was published before stop() unsubscribed may arrive during
   it; the handler then returns. *)
Arrive(m, c) ==
  LET s == active[c] IN
  /\ phase # "down"
  /\ at[m] = "new" /\ m \notin Observed
  /\ sid' = [sid EXCEPT ![m] = s]
  /\ \/ /\ phase = "stopping"
        /\ at' = Moved(m, "over")
        /\ UNCHANGED <<pending, tracked, ahead>>
     \/ /\ phase # "stopping" /\ Busy(s)
        /\ at' = Moved(m, "queued")
        /\ pending' = [pending EXCEPT ![s] = Append(@, m)]
        /\ ahead' = [ahead EXCEPT ![m] = InHand(s)]
        /\ UNCHANGED tracked
     \/ /\ phase # "stopping" /\ ~Busy(s)
        /\ at' = Moved(m, "created")
        /\ tracked' = [tracked EXCEPT ![s] = m]
        /\ ahead' = [ahead EXCEPT ![m] = InHand(s)]
        /\ UNCHANGED pending
  /\ UNCHANGED <<phase, sessionVars, awaited, early, memoryVars>>

(* MessageObserved: stored as context, never answered. *)
Observe(m, c) ==
  /\ phase # "down"
  /\ at[m] = "new" /\ m \in Observed
  /\ at' = Moved(m, "observing")
  /\ sid' = [sid EXCEPT ![m] = active[c]]
  /\ UNCHANGED <<phase, sessionVars, pending, tracked, awaited, ahead, early, memoryVars>>

PersistObserved(m) ==
  /\ at[m] = "observing"
  /\ at' = Moved(m, "over")
  /\ turns' = [turns EXCEPT ![m] = "user"]
  /\ UNCHANGED <<phase, sessionVars, pending, tracked, sid, awaited, ahead, early, seen>>

----------------------------------------------------------------------------
(* /stop and /new: both act in one step *)

\* Mutant: request_stop unregisters the run it cancels.
UnregisteredAtStop(m) == tracked' = [tracked EXCEPT ![sid[m]] = NoRun]

StillRegistered(m) == tracked' = tracked

(* request_stop: the CancelledError reaches the task at its next step. *)
RequestStop(m) ==
  /\ \/ at[m] = "created" /\ at' = Moved(m, "aborting") /\ early' = TRUE
     \/ at[m] \in InTry /\ at' = Moved(m, "cancelling") /\ UNCHANGED early
  /\ StillRegistered(m)

(* "Agent already finished.": the entry goes, the queue stays. *)
ForgetDoneRun(m) ==
  /\ at[m] = "dead"
  /\ tracked' = [tracked EXCEPT ![sid[m]] = NoRun]
  /\ UNCHANGED <<at, early>>

StopCommand(c) ==
  /\ phase # "down"
  /\ Busy(active[c])
  /\ LET m == tracked[active[c]] IN RequestStop(m) \/ ForgetDoneRun(m)
  /\ UNCHANGED <<phase, sessionVars, pending, sid, awaited, ahead, memoryVars>>

(* set_active_session; the override is persisted by a task nobody awaits. *)
NewSession(c) ==
  /\ phase # "down"
  /\ \E n \in NewIds \ Range(minted) :
       /\ minted' = Append(minted, n)
       /\ active' = [active EXCEPT ![c] = n]
       /\ saves' = Append(saves, <<c, n>>)
  /\ UNCHANGED <<phase, loaded, saved, queueVars, memoryVars>>

\* Mutant: the last task reaches the table first.
LastSaveFirst == [save |-> saves[Len(saves)], rest |-> SubSeq(saves, 1, Len(saves) - 1)]

NextSave == [save |-> Head(saves), rest |-> Tail(saves)]

(* One _do_persist task writes its override, or fails with a log line. *)
PersistOverride ==
  /\ saves # <<>>
  /\ LET s == NextSave.save IN
       \/ saved' = [saved EXCEPT ![s[1]] = s[2]]
       \/ UNCHANGED saved
  /\ saves' = NextSave.rest
  /\ UNCHANGED <<phase, active, loaded, minted, queueVars, memoryVars>>

----------------------------------------------------------------------------
(* A run: _run_agent_in_background over SessionRunner.run_stream *)

Step(m, from, to) == at[m] = from /\ at' = Moved(m, to)

RunUnchanged == UNCHANGED <<phase, sessionVars, pending, tracked, sid, awaited, ahead, early>>

EnterTry(m) ==
  /\ Step(m, "created", "loading")
  /\ RunUnchanged /\ UNCHANGED memoryVars

LoadHistory(m) ==
  /\ Step(m, "loading", "thinking")
  /\ seen' = [seen EXCEPT ![m] =
       {n \in Msgs : sid[n] = sid[m] /\ turns[n] # "none"}]
  /\ RunUnchanged /\ UNCHANGED turns

(* The agent's texts and its final response are sent as they come. *)
AgentReplies(m) ==
  /\ Step(m, "thinking", "saving")
  /\ RunUnchanged /\ UNCHANGED memoryVars

(* An empty final response leaves no assistant turn. *)
SaveUserTurn(m) ==
  /\ Step(m, "saving", "answering") \/ Step(m, "saving", "consolidating")
  /\ turns' = [turns EXCEPT ![m] = "user"]
  /\ RunUnchanged /\ UNCHANGED seen

SaveAssistantTurn(m) ==
  /\ Step(m, "answering", "consolidating")
  /\ turns' = [turns EXCEPT ![m] = "both"]
  /\ RunUnchanged /\ UNCHANGED seen

(* A store, a provider or a channel raises: an apology is sent.  The
   consolidation swallows its errors. *)
RunRaises(m) ==
  /\ \E st \in InTry \ {"consolidating", "failing"} : Step(m, st, "failing")
  /\ RunUnchanged /\ UNCHANGED memoryVars

\* Mutant: the run is finished as soon as its reply is out.
OutcomeAtReply(st) ==
  CASE st \in {"saving", "consolidating"} -> {"done"}
    [] st \in {"failing", "cancelling"} -> {"over"}
    [] OTHER                -> {}

(* What a run is when it reaches its finally clause; none if it is not there. *)
Outcome(st) ==
  CASE st = "consolidating" -> {"done"}
    [] st \in {"failing", "cancelling"} -> {"over"}
    [] OTHER                -> {}

(* The messages that are over are ahead of none. *)
SettleAhead ==
  ahead' = [k \in Msgs |->
              {n \in ahead[k] : at'[k] \notin Over /\ at'[n] \notin Over}]

\* Mutants: the newest message is next; there is no next one.
TakeNewest(q) == [first |-> q[Len(q)], rest |-> SubSeq(q, 1, Len(q) - 1)]
NoNext(s) == FALSE

TakeNext(q) == [first |-> Head(q), rest |-> Tail(q)]
HasNext(s) == pending[s] # <<>>

\* Mutant: a run that ends during stop() takes the next message.
DrainsAlways == TRUE

Drains == phase # "stopping"

(* The finally clause: unregister, then drop the queue or dispatch its head. *)
Finish(m) ==
  LET s == sid[m]
      next == TakeNext(pending[s])
  IN
  \E out \in Outcome(at[m]) :
    /\ \/ /\ Drains /\ HasNext(s)
          /\ tracked' = [tracked EXCEPT ![s] = next.first]
          /\ pending' = [pending EXCEPT ![s] = next.rest]
          /\ at' = [at EXCEPT ![m] = out, ![next.first] = "created"]
       \/ /\ Drains /\ ~HasNext(s)
          /\ tracked' = [tracked EXCEPT ![s] = NoRun]
          /\ at' = Moved(m, out)
          /\ UNCHANGED pending
       \/ /\ ~Drains
          /\ tracked' = [tracked EXCEPT ![s] = NoRun]
          /\ pending' = [pending EXCEPT ![s] = <<>>]
          /\ at' = [k \in Msgs |-> IF k = m THEN out
                                   ELSE IF k \in Range(pending[s]) THEN "over"
                                   ELSE at[k]]
    /\ seen' = [seen EXCEPT ![m] = {}]
    /\ SettleAhead
    /\ UNCHANGED <<phase, sessionVars, sid, awaited, early, turns>>

(* Cancelled before its try: no handler and no finally clause runs, and the
   tracker keeps an entry whose task is done. *)
DieUnfinished(m) ==
  /\ Step(m, "aborting", "dead")
  /\ SettleAhead
  /\ UNCHANGED <<phase, sessionVars, pending, tracked, sid, awaited, early, memoryVars>>

----------------------------------------------------------------------------
RunStep(m) ==
  \/ EnterTry(m) \/ LoadHistory(m) \/ AgentReplies(m)
  \/ SaveUserTurn(m) \/ SaveAssistantTurn(m)
  \/ RunRaises(m) \/ Finish(m) \/ DieUnfinished(m)

Next ==
  \/ Start \/ RestoreReads \/ RestoreApplies \/ Stop \/ Stopped \/ Crash
  \/ \E c \in Chats : \/ StopCommand(c) \/ NewSession(c)
                      \/ \E m \in Msgs : Arrive(m, c) \/ Observe(m, c)
  \/ PersistOverride
  \/ \E m \in Msgs : PersistObserved(m) \/ RunStep(m)

Spec == Init /\ [][Next]_vars

(* The event loop runs what is ready, and providers, tools, stores and
   channels answer or time out.  Nothing forces a user, a stop or a crash. *)
Fairness ==
  /\ WF_vars(Start)
  /\ WF_vars(RestoreReads \/ RestoreApplies)
  /\ WF_vars(Stopped)
  /\ WF_vars(PersistOverride)
  /\ \A m \in Msgs : WF_vars(RunStep(m)) /\ WF_vars(PersistObserved(m))

FairSpec == Spec /\ Fairness

----------------------------------------------------------------------------
(* Properties *)

(* What a lane sees of a message that is at st. *)
LaneState(st) ==
  CASE st = "new"      -> "new"
    [] st = "queued"   -> "waiting"
    [] st \in Running  -> "serving"
    [] OTHER           -> "gone"

(* The router implements SessionLane: one run per session at a time, no
   message answered twice, none answered after it was dropped. *)
Lane == INSTANCE SessionLane WITH
  state <- [m \in Msgs |-> LaneState(at[m])],
  lane  <- [m \in Msgs |-> IF LaneState(at[m]) \in {"waiting", "serving"}
                           THEN sid[m] ELSE NoSession]

ImplementsLane == Lane!Spec

(* Whatever ran, stopped or died before it, a live run is the one registered
   for its session: /stop and stop() reach it. *)
LiveRunIsTracked == \A m \in Msgs : Live(m) => tracked[sid[m]] = m

(* "Per-session queues for messages arriving while agent is busy": where
   messages wait there is a run that will take them over. *)
QueueHasAWorker ==
  \A s \in Sessions : pending[s] # <<>> => tracked[s] # NoRun /\ Live(tracked[s])

(* As long as no run was cancelled before its try. *)
QueueHasAWorkerUnlessEarly == ~early => QueueHasAWorker

(* Messages of one session are taken in the order they arrived, unless a run
   was cancelled before its try. *)
TakenInOrder ==
  \A m \in Msgs : \A n \in ahead[m] :
    ~early /\ at[n] = "queued" => at[m] = "queued"

(* A run is given the turns of every message its session answered before. *)
SeesWhatWasAnswered ==
  \A m, n \in Msgs :
    /\ at[m] \in InTry \ {"loading", "failing"}
    /\ at[n] = "done" /\ sid[n] = sid[m]
    => n \in seen[m]

(* When stop() has returned no run is left. *)
NoRunOutlivesStop == phase = "down" => \A m \in Msgs : ~Live(m)

(* The table never goes back to a session the chat left. *)
SwitchesAreSavedInOrder ==
  [][\A c \in Chats : \A i, j \in DOMAIN minted :
       saved[c] = minted[i] /\ saved'[c] = minted[j] => i <= j]_vars

(* Liveness: a queued message is taken or dropped, unless some run is
   cancelled before its try. *)
QueuedIsTaken ==
  \A m \in Msgs : (at[m] = "queued") ~> (at[m] # "queued" \/ early)

(* Liveness: stop() returns. *)
StopReturns == (phase = "stopping") ~> (phase = "down")
============================================================================

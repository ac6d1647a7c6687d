------------------------- MODULE MessageRouterProofs -------------------------
(***************************************************************************)
(* Proofs about MessageRouter: its types, its queue and tracker invariants *)
(* and that it implements SessionLane.                                     *)
(***************************************************************************)
EXTENDS MessageRouter, TLAPS

States == Running \cup Over \cup {"new", "queued", "observing"}

LEMMA MovedType ==
  ASSUME TypeOK, NEW m \in Msgs, NEW to \in States
  PROVE  Moved(m, to) \in [Msgs -> States]
  BY DEF TypeOK, Moved, States

LEMMA MovedAllType ==
  ASSUME TypeOK, NEW From, NEW to \in States
  PROVE  MovedAll(From, to) \in [Msgs -> States]
  BY DEF TypeOK, MovedAll, States

LEMMA EmptyQueues == [s \in Sessions |-> <<>>] \in [Sessions -> Seq(Msgs)]
<1>1. <<>> \in Seq(Msgs)
  OBVIOUS
<1> QED
  BY <1>1

LEMMA NobodyTracked == [s \in Sessions |-> NoRun] \in [Sessions -> Msgs \cup {NoRun}]
  OBVIOUS

(* Taking the head of a queue. *)
LEMMA TakeType ==
  ASSUME NEW S, NEW q \in Seq(S), q # <<>>
  PROVE  /\ Head(q) \in S /\ Tail(q) \in Seq(S)
         /\ Head(q) = q[1] /\ 1 \in DOMAIN q
         /\ \A i \in DOMAIN Tail(q) : i + 1 \in DOMAIN q /\ Tail(q)[i] = q[i + 1]
  OBVIOUS

LEMMA SettleAheadType ==
  TypeOK /\ SettleAhead => ahead' \in [Msgs -> SUBSET Msgs]
<1> SUFFICES ASSUME TypeOK, SettleAhead
             PROVE  ahead' \in [Msgs -> SUBSET Msgs]
  OBVIOUS
<1>1. ASSUME NEW k \in Msgs
      PROVE  {n \in ahead[k] : at'[k] \notin Over /\ at'[n] \notin Over} \in SUBSET Msgs
  BY DEF TypeOK
<1> QED
  BY <1>1 DEF SettleAhead

LEMMA TypeStep == TypeOK /\ [Next]_vars => TypeOK'
<1> SUFFICES ASSUME TypeOK, [Next]_vars
             PROVE  TypeOK'
  OBVIOUS
<1> USE DEF sessionVars, queueVars, memoryVars
<1>1. CASE Start
  <2>1. at' \in [Msgs -> States] /\ pending' \in [Sessions -> Seq(Msgs)]
    BY <1>1, MovedAllType, EmptyQueues DEF Start, States, Over
  <2>2. tracked' \in [Sessions -> Msgs \cup {NoRun}] /\ saves' \in Seq(Chats \X NewIds)
    BY <1>1, NobodyTracked DEF Start
  <2>3. active' \in [Chats -> Sessions] /\ phase' = "starting"
    BY <1>1 DEF Start, Sessions
  <2>4. UNCHANGED <<loaded, saved, minted, sid, awaited, ahead, early, turns, seen>>
    BY <1>1 DEF Start
  <2> QED
    BY <2>1, <2>2, <2>3, <2>4 DEF TypeOK, States
<1>2. CASE RestoreReads
  BY <1>2 DEF TypeOK, RestoreReads
<1>3. CASE RestoreApplies
  BY <1>3 DEF TypeOK, RestoreApplies, Restored, NothingRead
<1>4. CASE Stop
  BY <1>4 DEF TypeOK, Stop, Unfinished
<1>5. CASE Stopped
  <2>1. at' \in [Msgs -> States] /\ pending' \in [Sessions -> Seq(Msgs)]
    BY <1>5, MovedAllType, EmptyQueues DEF Stopped, States, Over
  <2>2. /\ phase' = "down" /\ awaited' = {} /\ early' = FALSE
        /\ ahead' = [m \in Msgs |-> {}]
        /\ UNCHANGED <<active, loaded, saves, saved, minted, tracked, sid, turns, seen>>
    BY <1>5 DEF Stopped
  <2> QED
    BY <2>1, <2>2 DEF TypeOK, States
<1>6. CASE Crash
  <2>1. at' \in [Msgs -> States] /\ pending' \in [Sessions -> Seq(Msgs)]
    BY <1>6, MovedAllType, EmptyQueues DEF Crash, States, Over
  <2>2. tracked' \in [Sessions -> Msgs \cup {NoRun}] /\ saves' \in Seq(Chats \X NewIds)
    BY <1>6, NobodyTracked DEF Crash
  <2>3. /\ phase' = "down" /\ awaited' = {} /\ early' = FALSE
        /\ loaded' \in [Chats -> Sessions \cup {NoSession}]
    BY <1>6 DEF Crash, NothingRead
  <2>4. seen' \in [Msgs -> SUBSET Msgs] /\ ahead' \in [Msgs -> SUBSET Msgs]
    BY <1>6 DEF Crash
  <2>5. UNCHANGED <<active, saved, minted, sid, turns>>
    BY <1>6 DEF Crash
  <2> QED
    BY <2>1, <2>2, <2>3, <2>4, <2>5 DEF TypeOK, States
<1>7. ASSUME NEW c \in Chats, NEW m \in Msgs, Arrive(m, c)
      PROVE  TypeOK'
  <2> DEFINE s == active[c]
  <2>1. s \in Sessions
    BY DEF TypeOK
  <2>2. /\ UNCHANGED <<phase, active, loaded, saves, saved, minted, awaited, early, turns, seen>>
        /\ sid' = [sid EXCEPT ![m] = s]
        /\ \E to \in {"over", "queued", "created"} : at' = Moved(m, to)
        /\ tracked' = tracked \/ tracked' = [tracked EXCEPT ![s] = m]
        /\ pending' = pending \/ pending' = [pending EXCEPT ![s] = Append(@, m)]
        /\ ahead' = ahead \/ ahead' = [ahead EXCEPT ![m] = InHand(s)]
    BY <1>7 DEF Arrive
  <2> HIDE DEF s
  <2>3. at' \in [Msgs -> States] /\ sid' \in [Msgs -> Sessions \cup {NoSession}]
    BY <2>1, <2>2, MovedType DEF TypeOK, States, Over, Running
  <2>4. tracked' \in [Sessions -> Msgs \cup {NoRun}]
    BY <2>1, <2>2 DEF TypeOK
  <2>5. pending' \in [Sessions -> Seq(Msgs)]
    <3>1. Append(pending[s], m) \in Seq(Msgs)
      BY <2>1 DEF TypeOK
    <3> QED
      BY <2>1, <2>2, <3>1 DEF TypeOK
  <2>6. ahead' \in [Msgs -> SUBSET Msgs]
    <3>1. InHand(s) \in SUBSET Msgs
      BY DEF InHand
    <3> QED
      BY <2>2, <3>1 DEF TypeOK
  <2> QED
    BY <2>2, <2>3, <2>4, <2>5, <2>6 DEF TypeOK, States
<1>8. ASSUME NEW c \in Chats, NEW m \in Msgs, Observe(m, c)
      PROVE  TypeOK'
  <2>1. at' \in [Msgs -> States] /\ sid' \in [Msgs -> Sessions \cup {NoSession}]
    BY <1>8, MovedType DEF TypeOK, Observe, States
  <2> QED
    BY <1>8, <2>1 DEF TypeOK, Observe, States
<1>9. ASSUME NEW m \in Msgs, PersistObserved(m)
      PROVE  TypeOK'
  BY <1>9, MovedType DEF TypeOK, PersistObserved, States, Over
<1>10. ASSUME NEW c \in Chats, StopCommand(c)
       PROVE  TypeOK'
  <2>1. PICK m \in Msgs : RequestStop(m) \/ ForgetDoneRun(m)
    BY <1>10 DEF TypeOK, StopCommand, Busy
  <2>2. CASE RequestStop(m)
    <3>1. at' \in [Msgs -> States] /\ tracked' = tracked
      BY <2>2, MovedType DEF RequestStop, StillRegistered, States, Running
    <3>3. early' = TRUE \/ early' = early
      BY <2>2 DEF RequestStop
    <3>2. UNCHANGED <<phase, active, loaded, saves, saved, minted, pending, sid, awaited, ahead,
                      turns, seen>>
      BY <1>10 DEF StopCommand
    <3> QED
      BY <3>1, <3>2, <3>3 DEF TypeOK, States
  <2>3. CASE ForgetDoneRun(m)
    BY <1>10, <2>3 DEF TypeOK, StopCommand, ForgetDoneRun
  <2> QED
    BY <2>1, <2>2, <2>3
<1>11. ASSUME NEW c \in Chats, NewSession(c)
       PROVE  TypeOK'
  <2>1. PICK n \in NewIds : /\ minted' = Append(minted, n)
                            /\ active' = [active EXCEPT ![c] = n]
                            /\ saves' = Append(saves, <<c, n>>)
    BY <1>11 DEF NewSession
  <2>2. <<c, n>> \in Chats \X NewIds
    OBVIOUS
  <2>3. saves' \in Seq(Chats \X NewIds) /\ minted' \in Seq(NewIds)
    BY <2>1, <2>2 DEF TypeOK
  <2> QED
    BY <1>11, <2>1, <2>3 DEF TypeOK, NewSession, Sessions
<1>12. CASE PersistOverride
  <2> DEFINE s == Head(saves)
  <2>1. s \in Chats \X NewIds /\ Tail(saves) \in Seq(Chats \X NewIds)
    BY <1>12, TakeType DEF TypeOK, PersistOverride
  <2>2. s[1] \in Chats /\ s[2] \in NewIds
    BY <2>1
  <2>3. saves' = Tail(saves) /\ (saved' = [saved EXCEPT ![s[1]] = s[2]] \/ saved' = saved)
    BY <1>12 DEF PersistOverride, NextSave
  <2> QED
    BY <1>12, <2>1, <2>2, <2>3 DEF TypeOK, PersistOverride, Sessions
<1>13. ASSUME NEW m \in Msgs, RunStep(m), ~Finish(m)
       PROVE  TypeOK'
  <2>1. CASE EnterTry(m) \/ AgentReplies(m) \/ RunRaises(m)
    BY <2>1, MovedType DEF TypeOK, EnterTry, AgentReplies, RunRaises, Step, RunUnchanged,
                           States, Running, InTry
  <2>2. CASE LoadHistory(m)
    BY <2>2, MovedType DEF TypeOK, LoadHistory, Step, RunUnchanged, States, Running, InTry
  <2>3. CASE SaveUserTurn(m) \/ SaveAssistantTurn(m)
    <3>1. /\ at' \in [Msgs -> States]
          /\ \E t \in {"user", "both"} : turns' = [turns EXCEPT ![m] = t]
          /\ RunUnchanged /\ UNCHANGED seen
      BY <2>3, MovedType DEF SaveUserTurn, SaveAssistantTurn, Step, States, Running, InTry
    <3>2. turns' \in [Msgs -> {"none", "user", "both"}]
      BY <3>1 DEF TypeOK
    <3> QED
      BY <3>1, <3>2 DEF TypeOK, RunUnchanged, States
  <2>4. CASE DieUnfinished(m)
    BY <2>4, MovedType, SettleAheadType DEF TypeOK, DieUnfinished, Step, States, Over
  <2> QED
    BY <1>13, <2>1, <2>2, <2>3, <2>4 DEF RunStep
<1>14. ASSUME NEW m \in Msgs, Finish(m)
       PROVE  TypeOK'
  <2> DEFINE s == sid[m]
             q == pending[s]
  <2>1. PICK out \in Outcome(at[m]) :
          /\ \/ /\ Drains /\ HasNext(s)
                /\ tracked' = [tracked EXCEPT ![s] = Head(q)]
                /\ pending' = [pending EXCEPT ![s] = Tail(q)]
                /\ at' = [at EXCEPT ![m] = out, ![Head(q)] = "created"]
             \/ /\ Drains /\ ~HasNext(s)
                /\ tracked' = [tracked EXCEPT ![s] = NoRun]
                /\ at' = Moved(m, out)
                /\ UNCHANGED pending
             \/ /\ ~Drains
                /\ tracked' = [tracked EXCEPT ![s] = NoRun]
                /\ pending' = [pending EXCEPT ![s] = <<>>]
                /\ at' = [k \in Msgs |-> IF k = m THEN out
                                          ELSE IF k \in Range(q) THEN "over" ELSE at[k]]
          /\ seen' = [seen EXCEPT ![m] = {}]
          /\ SettleAhead
          /\ UNCHANGED <<phase, sessionVars, sid, awaited, early, turns>>
    BY <1>14 DEF Finish, TakeNext
  <2>2. out \in Over
    BY <2>1 DEF Outcome, Over
  <2>3. /\ ahead' \in [Msgs -> SUBSET Msgs]
        /\ seen' \in [Msgs -> SUBSET Msgs]
    BY <2>1, SettleAheadType DEF TypeOK
  <2>4. at' \in [Msgs -> States]
    <3>1. CASE at' = [at EXCEPT ![m] = out, ![Head(q)] = "created"]
      BY <2>2, <3>1 DEF TypeOK, States, Running
    <3>2. CASE at' = Moved(m, out)
      BY <2>2, <3>2, MovedType DEF States
    <3>3. CASE at' = [k \in Msgs |-> IF k = m THEN out
                                     ELSE IF k \in Range(q) THEN "over" ELSE at[k]]
      BY <2>2, <3>3 DEF TypeOK, States, Over
    <3> QED
      BY <2>1, <3>1, <3>2, <3>3
  <2>5. /\ tracked' \in [Sessions -> Msgs \cup {NoRun}]
        /\ pending' \in [Sessions -> Seq(Msgs)]
    <3>1. CASE s \in Sessions
      <4>1. q \in Seq(Msgs)
        BY <3>1 DEF TypeOK
      <4>2. q # <<>> => Head(q) \in Msgs /\ Tail(q) \in Seq(Msgs)
        BY <4>1, TakeType
      <4>3. tracked' \in [Sessions -> Msgs \cup {NoRun}]
        BY <2>1, <3>1, <4>2 DEF TypeOK, HasNext
      <4>4. pending' \in [Sessions -> Seq(Msgs)]
        <5>1. <<>> \in Seq(Msgs)
          OBVIOUS
        <5> QED
          BY <2>1, <3>1, <4>2, <5>1 DEF TypeOK, HasNext
      <4> QED
        BY <4>3, <4>4
    <3>2. CASE s \notin Sessions
      <4>1. tracked' = tracked /\ pending' = pending
        BY <2>1, <3>2 DEF TypeOK
      <4> QED
        BY <4>1 DEF TypeOK
    <3> QED
      BY <3>1, <3>2
  <2> QED
    BY <2>1, <2>3, <2>4, <2>5 DEF TypeOK, States
<1>15. CASE UNCHANGED vars
  BY <1>15 DEF TypeOK, vars
<1> QED
  BY <1>1, <1>2, <1>3, <1>4, <1>5, <1>6, <1>7, <1>8, <1>9, <1>10, <1>11, <1>12,
     <1>13, <1>14, <1>15 DEF Next

LEMMA InitType == Init => TypeOK
<1> SUFFICES ASSUME Init
             PROVE  TypeOK
  OBVIOUS
<1>1. pending \in [Sessions -> Seq(Msgs)] /\ tracked \in [Sessions -> Msgs \cup {NoRun}]
  BY EmptyQueues, NobodyTracked DEF Init
<1>2. saves \in Seq(Chats \X NewIds) /\ minted \in Seq(NewIds)
  BY DEF Init
<1>3. /\ active \in [Chats -> Sessions]
      /\ loaded \in [Chats -> Sessions \cup {NoSession}]
      /\ saved \in [Chats -> Sessions \cup {NoSession}]
      /\ sid \in [Msgs -> Sessions \cup {NoSession}]
  BY DEF Init, Sessions, NothingRead
<1>4. /\ at \in [Msgs -> States] /\ turns \in [Msgs -> {"none", "user", "both"}]
      /\ seen \in [Msgs -> SUBSET Msgs] /\ ahead \in [Msgs -> SUBSET Msgs]
  BY DEF Init, States
<1>5. phase = "down" /\ awaited = {} /\ early = FALSE
  BY DEF Init
<1> QED
  BY <1>1, <1>2, <1>3, <1>4, <1>5 DEF TypeOK, States

(* Every variable keeps its type. *)
THEOREM TypeCorrect == Spec => []TypeOK
  BY InitType, TypeStep, PTL DEF Spec

----------------------------------------------------------------------------
(* The inductive invariant: what the queues and the tracker say of the runs *)

QueuesHoldTheQueued ==
  \A s \in Sessions : \A i \in DOMAIN pending[s] :
    at[pending[s][i]] = "queued" /\ sid[pending[s][i]] = s

QueuesAreDistinct ==
  \A s \in Sessions : \A i, j \in DOMAIN pending[s] :
    pending[s][i] = pending[s][j] => i = j

TrackedIsOfItsSession ==
  \A s \in Sessions : tracked[s] # NoRun =>
    sid[tracked[s]] = s /\ at[tracked[s]] \in Running \cup {"dead"}

RunsHaveSessions == \A m \in Msgs : Live(m) => sid[m] \in Sessions

StoppingAwaits == phase = "stopping" => \A m \in Msgs : Live(m) => m \in awaited

DeathsAreEarly ==
  phase # "down" /\ ~early =>
    \A s \in Sessions : tracked[s] # NoRun => at[tracked[s]] \notin {"aborting", "dead"}

Inv ==
  /\ TypeOK
  /\ QueuesHoldTheQueued
  /\ QueuesAreDistinct
  /\ TrackedIsOfItsSession
  /\ RunsHaveSessions
  /\ LiveRunIsTracked
  /\ StoppingAwaits
  /\ DeathsAreEarly
  /\ QueueHasAWorkerUnlessEarly
  /\ NoRunOutlivesStop

(* A step that touches neither runs nor queues. *)
LEMMA OtherStep ==
  ASSUME Inv, TypeOK', UNCHANGED <<pending, tracked, at, sid, awaited, early>>,
         phase' = phase \/ {phase, phase'} \cap {"down", "stopping"} = {}
  PROVE  Inv'
<1>1. QueuesHoldTheQueued' /\ QueuesAreDistinct'
  BY DEF Inv, QueuesHoldTheQueued, QueuesAreDistinct
<1>2. TrackedIsOfItsSession' /\ RunsHaveSessions' /\ LiveRunIsTracked'
  BY DEF Inv, TrackedIsOfItsSession, RunsHaveSessions, LiveRunIsTracked, Live
<1>3. StoppingAwaits' /\ DeathsAreEarly' /\ NoRunOutlivesStop'
  BY DEF Inv, StoppingAwaits, DeathsAreEarly, NoRunOutlivesStop, Live
<1>4. QueueHasAWorkerUnlessEarly'
  BY DEF Inv, QueueHasAWorkerUnlessEarly, QueueHasAWorker, Live
<1> QED
  BY <1>1, <1>2, <1>3, <1>4 DEF Inv

(* A live run goes on, or is cancelled: it stays the run of its session. *)
LEMMA RunGoesOn ==
  ASSUME Inv, TypeOK', NEW m \in Msgs, NEW to \in Running,
         Live(m), at' = Moved(m, to), to = "aborting" => early',
         at[m] = "aborting" => to = "aborting",
         early' = early \/ early' = TRUE,
         UNCHANGED <<phase, pending, tracked, sid, awaited>>
  PROVE  Inv'
<1>1. /\ Live(m)' /\ at' \in [Msgs -> States] /\ at \in [Msgs -> States]
      /\ \A k \in Msgs \ {m} : at'[k] = at[k]
      /\ at'[m] = to
  BY DEF Inv, TypeOK, Moved, Live, States
<1>2. QueuesHoldTheQueued' /\ QueuesAreDistinct'
  <2>1. ASSUME NEW s \in Sessions, NEW i \in DOMAIN pending[s]
        PROVE  at'[pending[s][i]] = "queued" /\ sid[pending[s][i]] = s
    <3>1. pending[s][i] \in Msgs /\ at[pending[s][i]] = "queued" /\ sid[pending[s][i]] = s
      BY <2>1 DEF Inv, TypeOK, QueuesHoldTheQueued
    <3>2. pending[s][i] # m
      BY <3>1 DEF Live, Running, InTry
    <3> QED
      BY <1>1, <3>1, <3>2
  <2> QED
    BY <2>1 DEF Inv, QueuesHoldTheQueued, QueuesAreDistinct
<1>3. TrackedIsOfItsSession' /\ RunsHaveSessions' /\ LiveRunIsTracked'
  <2>1. \A k \in Msgs : Live(k)' <=> Live(k)
    BY <1>1 DEF Live
  <2>2. LiveRunIsTracked'
    BY <2>1 DEF Inv, LiveRunIsTracked
  <2>3. RunsHaveSessions'
    BY <1>1, <2>1 DEF Inv, RunsHaveSessions, Live
  <2>4. TrackedIsOfItsSession'
    <3>1. ASSUME NEW s \in Sessions, tracked[s] # NoRun
          PROVE  sid[tracked[s]] = s /\ at'[tracked[s]] \in Running \cup {"dead"}
      <4>1. /\ tracked[s] \in Msgs /\ sid[tracked[s]] = s
            /\ at[tracked[s]] \in Running \cup {"dead"}
        BY <3>1 DEF Inv, TypeOK, TrackedIsOfItsSession
      <4> QED
        BY <1>1, <4>1
    <3> QED
      BY <3>1 DEF TrackedIsOfItsSession
  <2> QED
    BY <2>2, <2>3, <2>4
<1>4. StoppingAwaits' /\ NoRunOutlivesStop'
  BY <1>1 DEF Inv, StoppingAwaits, NoRunOutlivesStop, Live
<1>5. DeathsAreEarly'
  <2>1. SUFFICES ASSUME phase # "down", ~early', NEW s \in Sessions, tracked[s] # NoRun
                 PROVE  at'[tracked[s]] \notin {"aborting", "dead"}
    BY DEF DeathsAreEarly
  <2>2. ~early /\ tracked[s] \in Msgs
    BY <2>1 DEF Inv, TypeOK
  <2>3. at[tracked[s]] \notin {"aborting", "dead"}
    BY <2>1, <2>2 DEF Inv, DeathsAreEarly
  <2> QED
    BY <1>1, <2>1, <2>2, <2>3 DEF Running, InTry
<1>6. QueueHasAWorkerUnlessEarly'
  <2>1. SUFFICES ASSUME ~early', NEW s \in Sessions, pending[s] # <<>>
                 PROVE  tracked[s] # NoRun /\ at'[tracked[s]] \in Running
    BY DEF QueueHasAWorkerUnlessEarly, QueueHasAWorker, Live
  <2>2. tracked[s] # NoRun /\ at[tracked[s]] \in Running /\ tracked[s] \in Msgs
    BY <2>1 DEF Inv, TypeOK, QueueHasAWorkerUnlessEarly, QueueHasAWorker, Live
  <2> QED
    BY <1>1, <2>2
<1> QED
  BY <1>2, <1>3, <1>4, <1>5, <1>6 DEF Inv

(* A process starts or dies: nothing is queued, running or tracked. *)
LEMMA EmptyProcess ==
  ASSUME TypeOK',
         \A s \in Sessions : pending'[s] = <<>> /\ tracked'[s] = NoRun,
         \A m \in Msgs : at'[m] \notin Running
  PROVE  Inv'
<1>1. QueuesHoldTheQueued' /\ QueuesAreDistinct'
  BY DEF QueuesHoldTheQueued, QueuesAreDistinct
<1>2. TrackedIsOfItsSession' /\ RunsHaveSessions' /\ LiveRunIsTracked'
  BY DEF TrackedIsOfItsSession, RunsHaveSessions, LiveRunIsTracked, Live
<1>3. StoppingAwaits' /\ DeathsAreEarly' /\ NoRunOutlivesStop'
  BY DEF StoppingAwaits, DeathsAreEarly, NoRunOutlivesStop, Live
<1>4. QueueHasAWorkerUnlessEarly'
  BY DEF QueueHasAWorkerUnlessEarly, QueueHasAWorker
<1> QED
  BY <1>1, <1>2, <1>3, <1>4 DEF Inv

LEMMA CrashKeepsInv == Inv /\ Crash => Inv'
<1> SUFFICES ASSUME Inv, Crash
             PROVE  Inv'
  OBVIOUS
<1>1. TypeOK'
  BY TypeStep DEF Inv, Next
<1>2. \A s \in Sessions : pending'[s] = <<>> /\ tracked'[s] = NoRun
  BY DEF Crash
<1>3. \A m \in Msgs : at'[m] \notin Running
  BY DEF Crash, MovedAll, Running, InTry
<1> QED
  BY <1>1, <1>2, <1>3, EmptyProcess

LEMMA StartKeepsInv == Inv /\ Start => Inv'
<1> SUFFICES ASSUME Inv, Start
             PROVE  Inv'
  OBVIOUS
<1>1. TypeOK'
  BY TypeStep DEF Inv, Next
<1>2. \A s \in Sessions : pending'[s] = <<>> /\ tracked'[s] = NoRun
  BY DEF Start
<1>3. \A m \in Msgs : at[m] \notin Running
  BY DEF Inv, NoRunOutlivesStop, Live, Start
<1>4. \A m \in Msgs : at'[m] \notin Running
  BY <1>3 DEF Start, MovedAll, Running, InTry
<1> QED
  BY <1>1, <1>2, <1>4, EmptyProcess

(* stop() awaits every run: all of them are tracked. *)
LEMMA StopKeepsInv == Inv /\ Stop => Inv'
<1> SUFFICES ASSUME Inv, Stop
             PROVE  Inv'
  OBVIOUS
<1>1. TypeOK'
  BY TypeStep DEF Inv, Next
<1>2. UNCHANGED <<pending, tracked, at, sid, early>> /\ phase = "up" /\ phase' = "stopping"
  BY DEF Stop
<1>3. QueuesHoldTheQueued' /\ QueuesAreDistinct'
  BY <1>2 DEF Inv, QueuesHoldTheQueued, QueuesAreDistinct
<1>4. TrackedIsOfItsSession' /\ RunsHaveSessions' /\ LiveRunIsTracked'
  BY <1>2 DEF Inv, TrackedIsOfItsSession, RunsHaveSessions, LiveRunIsTracked, Live
<1>5. DeathsAreEarly' /\ NoRunOutlivesStop'
  BY <1>2 DEF Inv, DeathsAreEarly, NoRunOutlivesStop
<1>6. QueueHasAWorkerUnlessEarly'
  BY <1>2 DEF Inv, QueueHasAWorkerUnlessEarly, QueueHasAWorker, Live
<1>7. StoppingAwaits'
  <2>1. \A m \in Msgs : Live(m) => m \in Unfinished
    BY DEF Inv, RunsHaveSessions, LiveRunIsTracked, Unfinished
  <2> QED
    BY <1>2, <2>1 DEF Stop, StoppingAwaits, Live
<1> QED
  BY <1>1, <1>3, <1>4, <1>5, <1>6, <1>7 DEF Inv

(* stop() returns when every run it awaits has ended, and these are all. *)
LEMMA StoppedKeepsInv == Inv /\ Stopped => Inv'
<1> SUFFICES ASSUME Inv, Stopped
             PROVE  Inv'
  OBVIOUS
<1>1. TypeOK'
  BY TypeStep DEF Inv, Next
<1>2. UNCHANGED <<tracked, sid>> /\ phase' = "down"
  BY DEF Stopped
<1>3. \A s \in Sessions : pending'[s] = <<>>
  BY DEF Stopped
<1>4. \A m \in Msgs : at[m] \notin Running
  BY DEF Inv, Stopped, StoppingAwaits, GatherReturns, Live
<1>5. \A m \in Msgs : /\ at'[m] \notin Running
                      /\ at[m] # "queued" => at'[m] = at[m]
  BY <1>4 DEF Stopped, MovedAll, Running, InTry
<1>6. QueuesHoldTheQueued' /\ QueuesAreDistinct'
  BY <1>3 DEF QueuesHoldTheQueued, QueuesAreDistinct
<1>7. RunsHaveSessions' /\ LiveRunIsTracked' /\ NoRunOutlivesStop'
  BY <1>5 DEF RunsHaveSessions, LiveRunIsTracked, NoRunOutlivesStop, Live
<1>8. StoppingAwaits' /\ DeathsAreEarly'
  BY <1>2 DEF StoppingAwaits, DeathsAreEarly
<1>9. QueueHasAWorkerUnlessEarly'
  BY <1>3 DEF QueueHasAWorkerUnlessEarly, QueueHasAWorker
<1>10. TrackedIsOfItsSession'
  <2>1. ASSUME NEW s \in Sessions, tracked[s] # NoRun
        PROVE  sid[tracked[s]] = s /\ at'[tracked[s]] \in Running \cup {"dead"}
    <3>1. /\ tracked[s] \in Msgs /\ sid[tracked[s]] = s
          /\ at[tracked[s]] \in Running \cup {"dead"}
      BY <2>1 DEF Inv, TypeOK, TrackedIsOfItsSession
    <3> QED
      BY <1>4, <1>5, <3>1
  <2> QED
    BY <1>2, <2>1 DEF TrackedIsOfItsSession
<1> QED
  BY <1>1, <1>6, <1>7, <1>8, <1>9, <1>10 DEF Inv

(* A message that is never queued nor answered. *)
LEMMA Bystander ==
  ASSUME Inv, TypeOK', NEW m \in Msgs, NEW to \in {"observing", "over"},
         at[m] \in {"new", "observing"}, at' = Moved(m, to),
         \A k \in Msgs \ {m} : sid'[k] = sid[k],
         UNCHANGED <<phase, pending, tracked, awaited, early>>
  PROVE  Inv'
<1>1. /\ at'[m] = to /\ ~Live(m) /\ to \notin Running
      /\ \A k \in Msgs \ {m} : at'[k] = at[k] /\ sid'[k] = sid[k]
  BY DEF Inv, TypeOK, Moved, Live, Running, InTry
<1>2. \A k \in Msgs : at'[k] \in Running => at[k] \in Running /\ at'[k] = at[k] /\ sid'[k] = sid[k]
  BY <1>1
<1>3. QueuesHoldTheQueued' /\ QueuesAreDistinct'
  <2>1. ASSUME NEW s \in Sessions, NEW i \in DOMAIN pending[s]
        PROVE  at'[pending[s][i]] = "queued" /\ sid'[pending[s][i]] = s
    <3>1. pending[s][i] \in Msgs /\ at[pending[s][i]] = "queued" /\ sid[pending[s][i]] = s
      BY <2>1 DEF Inv, TypeOK, QueuesHoldTheQueued
    <3> QED
      BY <1>1, <3>1
  <2> QED
    BY <2>1 DEF Inv, QueuesHoldTheQueued, QueuesAreDistinct
<1>4. RunsHaveSessions' /\ LiveRunIsTracked'
  BY <1>2 DEF Inv, RunsHaveSessions, LiveRunIsTracked, Live
<1>5. StoppingAwaits' /\ NoRunOutlivesStop'
  BY <1>2 DEF Inv, StoppingAwaits, NoRunOutlivesStop, Live
<1>6. ASSUME NEW s \in Sessions, tracked[s] # NoRun
      PROVE  /\ sid'[tracked[s]] = s
             /\ at'[tracked[s]] = at[tracked[s]]
             /\ at[tracked[s]] \in Running \cup {"dead"}
  <2>1. /\ tracked[s] \in Msgs /\ sid[tracked[s]] = s
        /\ at[tracked[s]] \in Running \cup {"dead"}
    BY <1>6 DEF Inv, TypeOK, TrackedIsOfItsSession
  <2>2. tracked[s] # m
    BY <2>1 DEF Running, InTry
  <2> QED
    BY <1>1, <2>1, <2>2
<1>7. TrackedIsOfItsSession' /\ DeathsAreEarly'
  BY <1>6 DEF Inv, TrackedIsOfItsSession, DeathsAreEarly
<1>8. QueueHasAWorkerUnlessEarly'
  BY <1>6 DEF Inv, QueueHasAWorkerUnlessEarly, QueueHasAWorker, Live
<1> QED
  BY <1>3, <1>4, <1>5, <1>7, <1>8 DEF Inv

(* A message that joins a busy session's queue. *)
LEMMA QueueingKeepsInv ==
  ASSUME Inv, TypeOK', NEW m \in Msgs, NEW s \in Sessions,
         phase # "down", Busy(s), at[m] = "new",
         at' = Moved(m, "queued"),
         sid' = [sid EXCEPT ![m] = s],
         pending' = [pending EXCEPT ![s] = Append(@, m)],
         UNCHANGED <<phase, tracked, awaited, early>>
  PROVE  Inv'
<1>1. /\ at'[m] = "queued" /\ sid'[m] = s /\ ~Live(m)
      /\ \A k \in Msgs \ {m} : at'[k] = at[k] /\ sid'[k] = sid[k]
  BY DEF Inv, TypeOK, Moved, Live, Running, InTry
<1>2. \A k \in Msgs : at'[k] \in Running => at[k] \in Running /\ at'[k] = at[k] /\ sid'[k] = sid[k]
  BY <1>1 DEF Running, InTry
<1>3. ASSUME NEW t \in Sessions, NEW i \in DOMAIN pending[t]
      PROVE  /\ pending[t][i] \in Msgs \ {m}
             /\ at'[pending[t][i]] = "queued" /\ sid'[pending[t][i]] = t
  <2>1. pending[t][i] \in Msgs /\ at[pending[t][i]] = "queued" /\ sid[pending[t][i]] = t
    BY <1>3 DEF Inv, TypeOK, QueuesHoldTheQueued
  <2> QED
    BY <1>1, <2>1
<1>4. ASSUME NEW t \in Sessions, NEW i \in DOMAIN pending'[t]
      PROVE  \/ i \in DOMAIN pending[t] /\ pending'[t][i] = pending[t][i]
             \/ t = s /\ i = Len(pending[s]) + 1 /\ pending'[t][i] = m
  <2>1. pending[t] \in Seq(Msgs) /\ pending[s] \in Seq(Msgs)
    BY DEF Inv, TypeOK
  <2>2. CASE t # s
    BY <1>4, <2>2 DEF Inv, TypeOK
  <2>3. CASE t = s
    <3>1. pending'[t] = Append(pending[s], m)
      BY <2>3 DEF Inv, TypeOK
    <3> QED
      BY <1>4, <2>1, <2>3, <3>1
  <2> QED
    BY <2>2, <2>3
<1>5. QueuesHoldTheQueued'
  BY <1>1, <1>3, <1>4 DEF QueuesHoldTheQueued
<1>6. QueuesAreDistinct'
  BY <1>3, <1>4 DEF Inv, QueuesAreDistinct
<1>7. RunsHaveSessions' /\ LiveRunIsTracked'
  BY <1>2 DEF Inv, RunsHaveSessions, LiveRunIsTracked, Live
<1>8. StoppingAwaits' /\ NoRunOutlivesStop'
  BY <1>2 DEF Inv, StoppingAwaits, NoRunOutlivesStop, Live
<1>9. ASSUME NEW t \in Sessions, tracked[t] # NoRun
      PROVE  /\ sid'[tracked[t]] = t
             /\ at'[tracked[t]] = at[tracked[t]]
             /\ at[tracked[t]] \in Running \cup {"dead"}
  <2>1. /\ tracked[t] \in Msgs /\ sid[tracked[t]] = t
        /\ at[tracked[t]] \in Running \cup {"dead"}
    BY <1>9 DEF Inv, TypeOK, TrackedIsOfItsSession
  <2>2. tracked[t] # m
    BY <2>1 DEF Running, InTry
  <2> QED
    BY <1>1, <2>1, <2>2
<1>10. TrackedIsOfItsSession' /\ DeathsAreEarly'
  BY <1>9 DEF Inv, TrackedIsOfItsSession, DeathsAreEarly
<1>11. QueueHasAWorkerUnlessEarly'
  <2>1. SUFFICES ASSUME ~early, NEW t \in Sessions, pending'[t] # <<>>
                 PROVE  tracked[t] # NoRun /\ at'[tracked[t]] \in Running
    BY DEF QueueHasAWorkerUnlessEarly, QueueHasAWorker, Live
  <2>2. CASE t # s
    <3>1. pending[t] # <<>>
      BY <2>1, <2>2 DEF Inv, TypeOK
    <3> QED
      BY <1>9, <2>1, <3>1 DEF Inv, QueueHasAWorkerUnlessEarly, QueueHasAWorker, Live
  <2>3. CASE t = s
    <3>1. tracked[t] # NoRun
      BY <2>3 DEF Busy
    <3>2. at[tracked[t]] \notin {"aborting", "dead"}
      BY <2>1, <3>1 DEF Inv, DeathsAreEarly
    <3> QED
      BY <1>9, <3>1, <3>2
  <2> QED
    BY <2>2, <2>3
<1> QED
  BY <1>5, <1>6, <1>7, <1>8, <1>10, <1>11 DEF Inv

(* A message that is dispatched at once. *)
LEMMA DispatchKeepsInv ==
  ASSUME Inv, TypeOK', NEW m \in Msgs, NEW s \in Sessions,
         phase \notin {"down", "stopping"}, ~Busy(s), at[m] = "new",
         at' = Moved(m, "created"),
         sid' = [sid EXCEPT ![m] = s],
         tracked' = [tracked EXCEPT ![s] = m],
         UNCHANGED <<phase, pending, awaited, early>>
  PROVE  Inv'
<1>1. /\ at'[m] = "created" /\ sid'[m] = s /\ tracked'[s] = m
      /\ \A k \in Msgs \ {m} : at'[k] = at[k] /\ sid'[k] = sid[k]
      /\ \A t \in Sessions \ {s} : tracked'[t] = tracked[t]
  BY DEF Inv, TypeOK, Moved
<1>2. QueuesHoldTheQueued' /\ QueuesAreDistinct'
  <2>1. ASSUME NEW t \in Sessions, NEW i \in DOMAIN pending[t]
        PROVE  at'[pending[t][i]] = "queued" /\ sid'[pending[t][i]] = t
    <3>1. pending[t][i] \in Msgs /\ at[pending[t][i]] = "queued" /\ sid[pending[t][i]] = t
      BY <2>1 DEF Inv, TypeOK, QueuesHoldTheQueued
    <3> QED
      BY <1>1, <3>1
  <2> QED
    BY <2>1 DEF Inv, QueuesHoldTheQueued, QueuesAreDistinct
<1>3. ASSUME NEW t \in Sessions, t # s, tracked[t] # NoRun
      PROVE  /\ sid'[tracked[t]] = t
             /\ at'[tracked[t]] = at[tracked[t]]
             /\ at[tracked[t]] \in Running \cup {"dead"}
  <2>1. /\ tracked[t] \in Msgs /\ sid[tracked[t]] = t
        /\ at[tracked[t]] \in Running \cup {"dead"}
    BY <1>3 DEF Inv, TypeOK, TrackedIsOfItsSession
  <2>2. tracked[t] # m
    BY <2>1 DEF Running, InTry
  <2> QED
    BY <1>1, <2>1, <2>2
<1>4. m # NoRun /\ at'[m] \in Running
  BY <1>1, ConstantsAssumption DEF Running
<1>5. TrackedIsOfItsSession'
  BY <1>1, <1>3, <1>4 DEF TrackedIsOfItsSession
<1>6. DeathsAreEarly'
  BY <1>1, <1>3 DEF Inv, DeathsAreEarly
<1>7. ASSUME NEW k \in Msgs, k # m, at'[k] \in Running
      PROVE  sid'[k] \in Sessions /\ tracked'[sid'[k]] = k
  <2>1. at[k] \in Running /\ sid'[k] = sid[k]
    BY <1>1, <1>7
  <2>2. sid[k] \in Sessions /\ tracked[sid[k]] = k
    BY <2>1 DEF Inv, RunsHaveSessions, LiveRunIsTracked, Live
  <2>3. sid[k] # s
    BY <2>2, ConstantsAssumption DEF Busy
  <2> QED
    BY <1>1, <2>1, <2>2, <2>3
<1>8. RunsHaveSessions' /\ LiveRunIsTracked'
  BY <1>1, <1>7 DEF RunsHaveSessions, LiveRunIsTracked, Live
<1>9. StoppingAwaits' /\ NoRunOutlivesStop'
  BY DEF StoppingAwaits, NoRunOutlivesStop
<1>10. QueueHasAWorkerUnlessEarly'
  <2>1. SUFFICES ASSUME ~early, NEW t \in Sessions, pending[t] # <<>>
                 PROVE  tracked'[t] # NoRun /\ at'[tracked'[t]] \in Running
    BY DEF QueueHasAWorkerUnlessEarly, QueueHasAWorker, Live
  <2>2. tracked[t] # NoRun /\ Live(tracked[t])
    BY <2>1 DEF Inv, QueueHasAWorkerUnlessEarly, QueueHasAWorker
  <2> QED
    BY <1>1, <1>3, <1>4, <2>2 DEF Live
<1> QED
  BY <1>2, <1>5, <1>6, <1>8, <1>9, <1>10 DEF Inv

LEMMA ArriveKeepsInv ==
  ASSUME Inv, NEW c \in Chats, NEW m \in Msgs, Arrive(m, c)
  PROVE  Inv'
<1>1. TypeOK'
  BY TypeStep DEF Inv, Next
<1>2. active[c] \in Sessions
  BY DEF Inv, TypeOK
<1>3. \A k \in Msgs \ {m} : sid'[k] = sid[k]
  BY DEF Inv, TypeOK, Arrive
<1>4. CASE phase = "stopping"
  BY <1>1, <1>3, <1>4, Bystander DEF Arrive
<1>5. CASE phase # "stopping" /\ Busy(active[c])
  BY <1>1, <1>2, <1>5, QueueingKeepsInv DEF Arrive
<1>6. CASE phase # "stopping" /\ ~Busy(active[c])
  BY <1>1, <1>2, <1>6, DispatchKeepsInv DEF Arrive
<1> QED
  BY <1>4, <1>5, <1>6

(* The second /stop drops the entry of a task that is done. *)
LEMMA ForgetKeepsInv ==
  ASSUME Inv, TypeOK', NEW s \in Sessions, phase # "down", tracked[s] # NoRun,
         at[tracked[s]] = "dead",
         tracked' = [tracked EXCEPT ![s] = NoRun],
         UNCHANGED <<phase, pending, at, sid, awaited, early>>
  PROVE  Inv'
<1>1. early
  BY DEF Inv, DeathsAreEarly
<1>2. tracked'[s] = NoRun /\ \A t \in Sessions \ {s} : tracked'[t] = tracked[t]
  BY DEF Inv, TypeOK
<1>3. QueuesHoldTheQueued' /\ QueuesAreDistinct' /\ RunsHaveSessions'
  BY DEF Inv, QueuesHoldTheQueued, QueuesAreDistinct, RunsHaveSessions, Live
<1>4. StoppingAwaits' /\ NoRunOutlivesStop'
  BY DEF Inv, StoppingAwaits, NoRunOutlivesStop, Live
<1>5. DeathsAreEarly' /\ QueueHasAWorkerUnlessEarly'
  BY <1>1 DEF DeathsAreEarly, QueueHasAWorkerUnlessEarly
<1>6. TrackedIsOfItsSession'
  BY <1>2 DEF Inv, TrackedIsOfItsSession
<1>7. LiveRunIsTracked'
  <2>1. ASSUME NEW k \in Msgs, at[k] \in Running
        PROVE  tracked'[sid[k]] = k
    <3>1. sid[k] \in Sessions /\ tracked[sid[k]] = k
      BY <2>1 DEF Inv, RunsHaveSessions, LiveRunIsTracked, Live
    <3>2. sid[k] # s
      BY <2>1, <3>1 DEF Running, InTry
    <3> QED
      BY <1>2, <3>1, <3>2
  <2> QED
    BY <2>1 DEF LiveRunIsTracked, Live
<1> QED
  BY <1>3, <1>4, <1>5, <1>6, <1>7 DEF Inv

LEMMA StopCommandKeepsInv ==
  ASSUME Inv, NEW c \in Chats, StopCommand(c)
  PROVE  Inv'
<1> DEFINE s == active[c]
           m == tracked[s]
<1>1. TypeOK'
  BY TypeStep DEF Inv, Next
<1>2. /\ s \in Sessions /\ m # NoRun /\ m \in Msgs /\ sid[m] = s
      /\ phase # "down"
      /\ UNCHANGED <<phase, pending, sid, awaited>>
  BY DEF Inv, TypeOK, StopCommand, Busy, TrackedIsOfItsSession
<1>3. RequestStop(m) \/ ForgetDoneRun(m)
  BY DEF StopCommand
<1> HIDE DEF m, s
<1>4. CASE at[m] = "created" /\ RequestStop(m)
  <2>1. /\ at' = Moved(m, "aborting") /\ early' = TRUE /\ tracked' = tracked
        /\ "aborting" \in Running /\ Live(m)
    BY <1>4 DEF RequestStop, StillRegistered, Running, InTry, Live
  <2> QED
    BY <1>1, <1>2, <2>1, RunGoesOn
<1>5. CASE at[m] \in InTry /\ RequestStop(m)
  <2>1. /\ at' = Moved(m, "cancelling") /\ early' = early /\ tracked' = tracked
        /\ "cancelling" \in Running /\ Live(m) /\ at[m] # "aborting"
    BY <1>5 DEF RequestStop, StillRegistered, Running, InTry, Live
  <2> QED
    BY <1>1, <1>2, <2>1, RunGoesOn
<1>6. CASE ForgetDoneRun(m)
  BY <1>1, <1>2, <1>6, ForgetKeepsInv DEF ForgetDoneRun, m
<1> QED
  BY <1>3, <1>4, <1>5, <1>6 DEF RequestStop

(* The run of a session ends without its finally clause: it was early. *)
LEMMA DieKeepsInv ==
  ASSUME Inv, NEW m \in Msgs, DieUnfinished(m)
  PROVE  Inv'
<1>1. TypeOK'
  BY TypeStep DEF Inv, Next, RunStep
<1>2. /\ at[m] = "aborting" /\ at' = Moved(m, "dead")
      /\ UNCHANGED <<phase, pending, tracked, sid, awaited, early>>
  BY DEF DieUnfinished, Step
<1>3. /\ at'[m] = "dead" /\ \A k \in Msgs \ {m} : at'[k] = at[k]
      /\ Live(m)
  BY <1>2 DEF Inv, TypeOK, Moved, Live, Running
<1>4. early
  <2>1. sid[m] \in Sessions /\ tracked[sid[m]] = m /\ phase # "down" /\ m # NoRun
    BY <1>3, ConstantsAssumption
       DEF Inv, RunsHaveSessions, LiveRunIsTracked, NoRunOutlivesStop
  <2> QED
    BY <1>2, <2>1 DEF Inv, DeathsAreEarly
<1>5. \A k \in Msgs : at'[k] \in Running => at[k] \in Running
  BY <1>3 DEF Running, InTry
<1>6. QueuesHoldTheQueued' /\ QueuesAreDistinct'
  <2>1. ASSUME NEW t \in Sessions, NEW i \in DOMAIN pending[t]
        PROVE  at'[pending[t][i]] = "queued" /\ sid'[pending[t][i]] = t
    <3>1. pending[t][i] \in Msgs /\ at[pending[t][i]] = "queued" /\ sid[pending[t][i]] = t
      BY <2>1 DEF Inv, TypeOK, QueuesHoldTheQueued
    <3> QED
      BY <1>2, <1>3, <3>1
  <2> QED
    BY <1>2, <2>1 DEF Inv, QueuesHoldTheQueued, QueuesAreDistinct
<1>7. RunsHaveSessions' /\ LiveRunIsTracked'
  BY <1>2, <1>5 DEF Inv, RunsHaveSessions, LiveRunIsTracked, Live
<1>8. StoppingAwaits' /\ NoRunOutlivesStop'
  BY <1>2, <1>5 DEF Inv, StoppingAwaits, NoRunOutlivesStop, Live
<1>9. DeathsAreEarly' /\ QueueHasAWorkerUnlessEarly'
  BY <1>2, <1>4 DEF DeathsAreEarly, QueueHasAWorkerUnlessEarly
<1>10. TrackedIsOfItsSession'
  <2>1. ASSUME NEW s \in Sessions, tracked[s] # NoRun
        PROVE  sid[tracked[s]] = s /\ at'[tracked[s]] \in Running \cup {"dead"}
    <3>1. /\ tracked[s] \in Msgs /\ sid[tracked[s]] = s
          /\ at[tracked[s]] \in Running \cup {"dead"}
      BY <2>1 DEF Inv, TypeOK, TrackedIsOfItsSession
    <3> QED
      BY <1>3, <3>1
  <2> QED
    BY <1>2, <2>1 DEF TrackedIsOfItsSession
<1> QED
  BY <1>1, <1>6, <1>7, <1>8, <1>9, <1>10 DEF Inv

(* The run of m ends; `gone` are the messages of its session that are dropped
   and `next`, if any, is the one that takes the session over. *)
LEMMA EndKeepsInv ==
  ASSUME Inv, TypeOK', NEW m \in Msgs, NEW s \in Sessions,
         Live(m), sid[m] = s,
         NEW next \in Msgs \cup {NoRun},
         next # NoRun => sid[next] = s /\ at[next] = "queued",
         next # NoRun => phase # "stopping",
         tracked' = [tracked EXCEPT ![s] = next],
         at'[m] \in Over,
         next # NoRun => at'[next] = "created",
         \A k \in Msgs \ {m, next} :
           at'[k] # at[k] => at[k] = "queued" /\ sid[k] = s /\ at'[k] = "over",
         \A t \in Sessions \ {s} : pending'[t] = pending[t],
         \A i \in DOMAIN pending'[s] :
           /\ pending'[s][i] \in Msgs /\ at'[pending'[s][i]] = "queued"
           /\ sid[pending'[s][i]] = s,
         \A i, j \in DOMAIN pending'[s] : pending'[s][i] = pending'[s][j] => i = j,
         next = NoRun => pending'[s] = <<>>,
         UNCHANGED <<phase, sid, awaited, early>>
  PROVE  Inv'
<1>1. /\ tracked[s] = m /\ m # NoRun /\ phase # "down" /\ at'[m] \notin Running
      /\ tracked'[s] = next /\ \A t \in Sessions \ {s} : tracked'[t] = tracked[t]
  BY ConstantsAssumption
     DEF Inv, TypeOK, LiveRunIsTracked, NoRunOutlivesStop, Live, Over, Running, InTry
<1>2. ASSUME NEW k \in Msgs, at'[k] \in Running
      PROVE  k # next => at[k] \in Running /\ at'[k] = at[k] /\ k # m
  BY <1>1, <1>2 DEF Running, InTry
<1>3. QueuesHoldTheQueued' /\ QueuesAreDistinct'
  <2>1. ASSUME NEW t \in Sessions \ {s}, NEW i \in DOMAIN pending[t]
        PROVE  at'[pending[t][i]] = "queued" /\ sid[pending[t][i]] = t
    <3>1. pending[t][i] \in Msgs /\ at[pending[t][i]] = "queued" /\ sid[pending[t][i]] = t
      BY <2>1 DEF Inv, TypeOK, QueuesHoldTheQueued
    <3>2. pending[t][i] \notin {m, next}
      BY <3>1, <2>1, ConstantsAssumption
    <3> QED
      BY <3>1, <3>2, <2>1
  <2>2. QueuesHoldTheQueued'
    BY <2>1 DEF QueuesHoldTheQueued
  <2>3. QueuesAreDistinct'
    BY DEF Inv, QueuesAreDistinct
  <2> QED
    BY <2>2, <2>3
<1>4. ASSUME NEW k \in Msgs, at'[k] \in Running
      PROVE  sid[k] \in Sessions /\ tracked'[sid[k]] = k
  <2>1. CASE k = next
    BY <1>1, <1>4, <2>1, ConstantsAssumption
  <2>2. CASE k # next
    <3>1. at[k] \in Running /\ k # m
      BY <1>2, <1>4, <2>2
    <3>2. sid[k] \in Sessions /\ tracked[sid[k]] = k
      BY <3>1 DEF Inv, RunsHaveSessions, LiveRunIsTracked, Live
    <3> QED
      BY <1>1, <3>1, <3>2
  <2> QED
    BY <2>1, <2>2
<1>5. RunsHaveSessions' /\ LiveRunIsTracked'
  BY <1>4 DEF RunsHaveSessions, LiveRunIsTracked, Live
<1>6. NoRunOutlivesStop'
  BY <1>1 DEF NoRunOutlivesStop
<1>7. StoppingAwaits'
  BY <1>2, ConstantsAssumption DEF Inv, StoppingAwaits, Live
<1>8. ASSUME NEW t \in Sessions, t # s, tracked[t] # NoRun
      PROVE  /\ sid[tracked[t]] = t
             /\ at'[tracked[t]] = at[tracked[t]]
             /\ at[tracked[t]] \in Running \cup {"dead"}
  <2>1. /\ tracked[t] \in Msgs /\ sid[tracked[t]] = t
        /\ at[tracked[t]] \in Running \cup {"dead"}
    BY <1>8 DEF Inv, TypeOK, TrackedIsOfItsSession
  <2>2. tracked[t] # m /\ tracked[t] # next
    BY <2>1, <1>8, ConstantsAssumption
  <2> QED
    BY <1>8, <2>1, <2>2
<1>9. TrackedIsOfItsSession'
  BY <1>1, <1>8 DEF TrackedIsOfItsSession, Running
<1>10. DeathsAreEarly'
  BY <1>1, <1>8 DEF Inv, DeathsAreEarly
<1>11. QueueHasAWorkerUnlessEarly'
  <2>1. SUFFICES ASSUME ~early, NEW t \in Sessions, pending'[t] # <<>>
                 PROVE  tracked'[t] # NoRun /\ at'[tracked'[t]] \in Running
    BY DEF QueueHasAWorkerUnlessEarly, QueueHasAWorker, Live
  <2>2. CASE t = s
    BY <1>1, <2>1, <2>2 DEF Running
  <2>3. CASE t # s
    <3>1. tracked[t] # NoRun /\ Live(tracked[t])
      BY <2>1, <2>3 DEF Inv, QueueHasAWorkerUnlessEarly, QueueHasAWorker
    <3> QED
      BY <1>1, <1>8, <2>3, <3>1 DEF Live
  <2> QED
    BY <2>2, <2>3
<1> QED
  BY <1>3, <1>5, <1>6, <1>7, <1>9, <1>10, <1>11 DEF Inv

(* Over what the finally clause chooses from. *)
LEMMA OutcomeLemma ==
  ASSUME NEW st, NEW out \in Outcome(st)
  PROVE  st \in {"consolidating", "failing", "cancelling"} /\ out \in {"done", "over"}
  BY DEF Outcome

LEMMA FinishKeepsInv ==
  ASSUME Inv, NEW m \in Msgs, Finish(m)
  PROVE  Inv'
<1> DEFINE s == sid[m]
           q == pending[s]
<1>1. TypeOK'
  BY TypeStep DEF Inv, Next, RunStep
<1>2. PICK out \in Outcome(at[m]) :
        /\ \/ /\ Drains /\ HasNext(s)
              /\ tracked' = [tracked EXCEPT ![s] = Head(q)]
              /\ pending' = [pending EXCEPT ![s] = Tail(q)]
              /\ at' = [at EXCEPT ![m] = out, ![Head(q)] = "created"]
           \/ /\ Drains /\ ~HasNext(s)
              /\ tracked' = [tracked EXCEPT ![s] = NoRun]
              /\ at' = Moved(m, out)
              /\ UNCHANGED pending
           \/ /\ ~Drains
              /\ tracked' = [tracked EXCEPT ![s] = NoRun]
              /\ pending' = [pending EXCEPT ![s] = <<>>]
              /\ at' = [k \in Msgs |-> IF k = m THEN out
                                       ELSE IF k \in Range(q) THEN "over" ELSE at[k]]
        /\ UNCHANGED <<phase, sid, awaited, early>>
  BY DEF Finish, TakeNext
<1>3. out \in Over /\ Live(m)
  BY OutcomeLemma DEF Over, Live, Running, InTry
<1>4. s \in Sessions /\ q \in Seq(Msgs)
  BY <1>3 DEF Inv, TypeOK, RunsHaveSessions
<1>5. \A i \in DOMAIN q : q[i] \in Msgs /\ at[q[i]] = "queued" /\ sid[q[i]] = s /\ q[i] # m
  BY <1>3, <1>4 DEF Inv, QueuesHoldTheQueued, Live, Running, InTry
<1>6. \A i, j \in DOMAIN q : q[i] = q[j] => i = j
  BY <1>4 DEF Inv, QueuesAreDistinct
<1>7. at \in [Msgs -> States] /\ pending \in [Sessions -> Seq(Msgs)]
  BY DEF Inv, TypeOK, States
<1>8. CASE Drains /\ HasNext(s)
  <2>1. /\ Head(q) \in Msgs /\ Tail(q) \in Seq(Msgs)
        /\ Head(q) = q[1] /\ 1 \in DOMAIN q
        /\ \A i \in DOMAIN Tail(q) : i + 1 \in DOMAIN q /\ Tail(q)[i] = q[i + 1]
    BY <1>4, <1>8, TakeType DEF HasNext
  <2>2. /\ sid[Head(q)] = s /\ at[Head(q)] = "queued" /\ Head(q) # m
        /\ Head(q) # NoRun /\ phase # "stopping"
    BY <1>5, <1>8, <2>1, ConstantsAssumption DEF Drains
  <2>3. /\ tracked' = [tracked EXCEPT ![s] = Head(q)]
        /\ pending'[s] = Tail(q)
        /\ \A t \in Sessions \ {s} : pending'[t] = pending[t]
        /\ at'[m] = out /\ at'[Head(q)] = "created"
        /\ \A k \in Msgs \ {m, Head(q)} : at'[k] = at[k]
    BY <1>2, <1>4, <1>7, <1>8, <2>1, <2>2
  <2> HIDE DEF s, q
  <2>4. \A i \in DOMAIN Tail(q) : /\ Tail(q)[i] \in Msgs \ {m, Head(q)}
                                  /\ at[Tail(q)[i]] = "queued" /\ sid[Tail(q)[i]] = s
    <3>1. ASSUME NEW i \in DOMAIN Tail(q)
          PROVE  Tail(q)[i] \in Msgs \ {m, Head(q)} /\ at[Tail(q)[i]] = "queued"
                 /\ sid[Tail(q)[i]] = s
      <4>1. i \in Nat \ {0} /\ i + 1 \in DOMAIN q /\ Tail(q)[i] = q[i + 1]
        BY <2>1
      <4>2. q[i + 1] # q[1]
        BY <1>6, <2>1, <4>1
      <4> QED
        BY <1>5, <2>1, <4>1, <4>2
    <3> QED
      BY <3>1
  <2>5. \A i, j \in DOMAIN Tail(q) : Tail(q)[i] = Tail(q)[j] => i = j
    <3>1. ASSUME NEW i \in DOMAIN Tail(q), NEW j \in DOMAIN Tail(q), Tail(q)[i] = Tail(q)[j]
          PROVE  i = j
      <4>1. i \in Nat /\ j \in Nat /\ i + 1 = j + 1
        BY <1>6, <2>1, <3>1
      <4> QED
        BY <4>1
    <3> QED
      BY <3>1
  <2>6. sid[m] = s
    BY DEF s
  <2>7. \A i \in DOMAIN pending'[s] :
          /\ pending'[s][i] \in Msgs /\ at'[pending'[s][i]] = "queued"
          /\ sid[pending'[s][i]] = s
    BY <2>3, <2>4
  <2>8. \A i, j \in DOMAIN pending'[s] : pending'[s][i] = pending'[s][j] => i = j
    BY <2>3, <2>5
  <2> QED
    BY <1>1, <1>2, <1>3, <1>4, <2>1, <2>2, <2>3, <2>6, <2>7, <2>8, EndKeepsInv
<1>9. CASE Drains /\ ~HasNext(s)
  <2>1. /\ tracked' = [tracked EXCEPT ![s] = NoRun] /\ pending' = pending
        /\ pending'[s] = <<>>
        /\ at'[m] = out /\ \A k \in Msgs \ {m} : at'[k] = at[k]
    BY <1>2, <1>7, <1>9 DEF HasNext, Moved
  <2>2. \A i \in DOMAIN pending'[s] : FALSE
    BY <2>1
  <2> QED
    BY <1>1, <1>2, <1>3, <1>4, <2>1, <2>2, EndKeepsInv
<1>10. CASE ~Drains
  <2>1. /\ tracked' = [tracked EXCEPT ![s] = NoRun]
        /\ pending'[s] = <<>>
        /\ \A t \in Sessions \ {s} : pending'[t] = pending[t]
        /\ at'[m] = out
        /\ \A k \in Msgs \ {m} : at'[k] # at[k] => k \in Range(q) /\ at'[k] = "over"
    BY <1>2, <1>4, <1>7, <1>10
  <2>2. \A k \in Range(q) : at[k] = "queued" /\ sid[k] = s
    BY <1>5 DEF Range
  <2>3. \A i \in DOMAIN pending'[s] : FALSE
    BY <2>1
  <2> QED
    BY <1>1, <1>2, <1>3, <1>4, <2>1, <2>2, <2>3, EndKeepsInv
<1> QED
  BY <1>2, <1>8, <1>9, <1>10

LEMMA RunStepKeepsInv ==
  ASSUME Inv, NEW m \in Msgs, RunStep(m)
  PROVE  Inv'
<1>1. TypeOK'
  BY TypeStep DEF Inv, Next
<1>2. CASE EnterTry(m) \/ LoadHistory(m) \/ AgentReplies(m) \/ SaveUserTurn(m)
           \/ SaveAssistantTurn(m) \/ RunRaises(m)
  <2>1. /\ at[m] \in InTry \cup {"created"}
        /\ \E to \in InTry : at' = Moved(m, to)
        /\ RunUnchanged
    BY <1>2 DEF EnterTry, LoadHistory, AgentReplies, SaveUserTurn, SaveAssistantTurn,
                RunRaises, Step, InTry
  <2>2. PICK to \in InTry : at' = Moved(m, to)
    BY <2>1
  <2>3. to \in Running /\ to # "aborting" /\ Live(m) /\ at[m] # "aborting"
    BY <2>1 DEF Running, InTry, Live
  <2> QED
    BY <1>1, <2>1, <2>2, <2>3, RunGoesOn DEF RunUnchanged
<1>3. CASE Finish(m)
  BY <1>3, FinishKeepsInv
<1>4. CASE DieUnfinished(m)
  BY <1>4, DieKeepsInv
<1> QED
  BY <1>2, <1>3, <1>4 DEF RunStep

LEMMA InvStep == Inv /\ [Next]_vars => Inv'
<1> SUFFICES ASSUME Inv, [Next]_vars
             PROVE  Inv'
  OBVIOUS
<1>1. TypeOK'
  BY TypeStep DEF Inv
<1>2. CASE RestoreReads \/ RestoreApplies
  BY <1>1, <1>2, OtherStep DEF RestoreReads, RestoreApplies, queueVars
<1>3. CASE PersistOverride \/ \E c \in Chats : NewSession(c)
  BY <1>1, <1>3, OtherStep DEF PersistOverride, NewSession, queueVars
<1>4. ASSUME NEW c \in Chats, NEW m \in Msgs, Observe(m, c)
      PROVE  Inv'
  BY <1>1, <1>4, Bystander DEF Observe, Inv, TypeOK
<1>5. ASSUME NEW m \in Msgs, PersistObserved(m)
      PROVE  Inv'
  BY <1>1, <1>5, Bystander DEF PersistObserved
<1>6. CASE UNCHANGED vars
  BY <1>1, <1>6, OtherStep DEF vars, queueVars
<1> QED
  BY <1>2, <1>3, <1>4, <1>5, <1>6, StartKeepsInv, StopKeepsInv, StoppedKeepsInv,
     CrashKeepsInv, StopCommandKeepsInv, ArriveKeepsInv, RunStepKeepsInv DEF Next

LEMMA InitInv == Init => Inv
<1> SUFFICES ASSUME Init
             PROVE  Inv
  OBVIOUS
<1>1. TypeOK
  BY InitType
<1>2. /\ \A s \in Sessions : pending[s] = <<>> /\ tracked[s] = NoRun
      /\ \A m \in Msgs : at[m] \notin Running
  BY DEF Init, Running, InTry
<1>3. QueuesHoldTheQueued /\ QueuesAreDistinct
  BY <1>2 DEF QueuesHoldTheQueued, QueuesAreDistinct
<1>4. TrackedIsOfItsSession /\ RunsHaveSessions /\ LiveRunIsTracked
  BY <1>2 DEF TrackedIsOfItsSession, RunsHaveSessions, LiveRunIsTracked, Live
<1>5. StoppingAwaits /\ DeathsAreEarly /\ NoRunOutlivesStop
  BY <1>2 DEF StoppingAwaits, DeathsAreEarly, NoRunOutlivesStop, Live
<1>6. QueueHasAWorkerUnlessEarly
  BY <1>2 DEF QueueHasAWorkerUnlessEarly, QueueHasAWorker
<1> QED
  BY <1>1, <1>3, <1>4, <1>5, <1>6 DEF Inv

LEMMA Invariance == Spec => []Inv
  BY InitInv, InvStep, PTL DEF Spec

(* A live run is registered for its session: /stop and stop() reach it. *)
THEOREM RunsAreReachable == Spec => []LiveRunIsTracked
<1>1. Inv => LiveRunIsTracked
  BY DEF Inv
<1> QED
  BY <1>1, Invariance, PTL

(* Where messages wait there is a run that will take them over, as long as
   no run was cancelled before its try. *)
THEOREM QueuesAreServed == Spec => []QueueHasAWorkerUnlessEarly
<1>1. Inv => QueueHasAWorkerUnlessEarly
  BY DEF Inv
<1> QED
  BY <1>1, Invariance, PTL

(* When stop() has returned no run is left. *)
THEOREM StopLeavesNoRun == Spec => []NoRunOutlivesStop
<1>1. Inv => NoRunOutlivesStop
  BY DEF Inv
<1> QED
  BY <1>1, Invariance, PTL

----------------------------------------------------------------------------
(* The router implements SessionLane *)

Lanes == {"new", "waiting", "serving", "gone"}

LEMMA LaneStates ==
  /\ LaneState("new") = "new"
  /\ LaneState("queued") = "waiting"
  /\ \A st \in Running : LaneState(st) = "serving"
  /\ \A st \in Over \cup {"observing"} : LaneState(st) = "gone"
<1>1. LaneState("new") = "new"
  BY DEF LaneState, Running, InTry
<1>2. LaneState("queued") = "waiting"
  BY DEF LaneState, Running, InTry
<1>3. ASSUME NEW st \in Running
      PROVE  LaneState(st) = "serving"
  <2>1. st # "new" /\ st # "queued"
    BY DEF Running, InTry
  <2> QED
    BY <2>1 DEF LaneState
<1>4. ASSUME NEW st \in Over \cup {"observing"}
      PROVE  LaneState(st) = "gone"
  <2>1. st # "new" /\ st # "queued" /\ st \notin Running
    BY DEF Over, Running, InTry
  <2> QED
    BY <2>1 DEF LaneState
<1> QED
  BY <1>1, <1>2, <1>3, <1>4

(* The lane does not see the step of k. *)
LaneKeeps(k) ==
  /\ LaneState(at'[k]) = LaneState(at[k])
  /\ LaneState(at[k]) \in {"waiting", "serving"} => sid'[k] = sid[k]

LEMMA LaneUnchanged ==
  ASSUME \A k \in Msgs : LaneKeeps(k)
  PROVE  UNCHANGED Lane!laneVars
  BY DEF LaneKeeps, Lane!laneVars

LEMMA LaneLeaves ==
  ASSUME NEW S \in SUBSET Msgs,
         \A k \in S : LaneState(at[k]) # "gone" /\ LaneState(at'[k]) = "gone",
         \A k \in Msgs \ S : LaneKeeps(k)
  PROVE  Lane!Next
<1>1. Lane!Leave(S)
  BY DEF LaneKeeps, Lane!Leave
<1> QED
  BY <1>1 DEF Lane!Next

(* One message moves and the others stay where they are. *)
LEMMA OneMoves ==
  ASSUME Inv, NEW m \in Msgs, NEW to \in States, at' = Moved(m, to)
  PROVE  at'[m] = to /\ \A k \in Msgs \ {m} : at'[k] = at[k]
  BY DEF Inv, TypeOK, Moved

LEMMA RunMovesUnseen ==
  ASSUME Inv, NEW m \in Msgs, NEW to \in Running, Live(m), at' = Moved(m, to),
         sid' = sid
  PROVE  UNCHANGED Lane!laneVars
<1>1. at'[m] = to /\ \A k \in Msgs \ {m} : at'[k] = at[k]
  BY OneMoves DEF States
<1>2. LaneState(at'[m]) = LaneState(at[m])
  BY <1>1, LaneStates DEF Live
<1> QED
  BY <1>1, <1>2, LaneUnchanged DEF LaneKeeps

LEMMA LaneTakes ==
  ASSUME NEW m \in Msgs, NEW s \in Sessions, Lane!Wait(m, s) \/ Lane!Serve(m, s)
  PROVE  Lane!Next
  BY Zenon DEF Lane!Next

LEMMA ArriveIsALaneStep ==
  ASSUME Inv, NEW c \in Chats, NEW m \in Msgs, Arrive(m, c)
  PROVE  Lane!Next
<1>0. PICK s \in Sessions : s = active[c]
  BY DEF Inv, TypeOK
<1>1. at[m] = "new" /\ LaneState(at[m]) = "new"
  BY LaneStates DEF Inv, TypeOK, Arrive
<1>2. sid'[m] = s /\ \A k \in Msgs \ {m} : sid'[k] = sid[k]
  BY <1>0, <1>1 DEF Inv, TypeOK, Arrive
<1>3. \A to \in {"over", "queued", "created"} : at' = Moved(m, to) =>
        at'[m] = to /\ \A k \in Msgs \ {m} : at'[k] = at[k]
  BY OneMoves DEF States, Over, Running
<1>4. CASE phase = "stopping"
  <2>1. at'[m] = "over" /\ \A k \in Msgs \ {m} : at'[k] = at[k]
    BY <1>0, <1>3, <1>4 DEF Arrive
  <2>2. LaneState(at'[m]) = "gone"
    BY <2>1, LaneStates DEF Over
  <2> QED
    BY <1>1, <1>2, <2>1, <2>2, LaneLeaves DEF LaneKeeps
<1>5. CASE phase # "stopping" /\ Busy(s)
  <2>1. at'[m] = "queued" /\ \A k \in Msgs \ {m} : at'[k] = at[k]
    BY <1>0, <1>3, <1>5 DEF Arrive
  <2>2. LaneState(at'[m]) = "waiting"
    BY <2>1, LaneStates
  <2>3. Lane!Wait(m, s)
    BY <1>1, <1>2, <2>1, <2>2 DEF Lane!Wait
  <2> QED
    BY <2>3, LaneTakes
<1>6. CASE phase # "stopping" /\ ~Busy(s)
  <2>1. at'[m] = "created" /\ \A k \in Msgs \ {m} : at'[k] = at[k]
    BY <1>0, <1>3, <1>6 DEF Arrive
  <2>2. LaneState(at'[m]) = "serving"
    BY <2>1, LaneStates DEF Running
  <2>3. \A k \in Msgs : LaneState(at[k]) = "serving" => sid[k] # s
    <3>1. ASSUME NEW k \in Msgs, LaneState(at[k]) = "serving", sid[k] = s
          PROVE  FALSE
      <4>1. at[k] \in Running
        BY <3>1, LaneStates DEF Inv, TypeOK
      <4>2. tracked[s] = k
        BY <3>1, <4>1 DEF Inv, LiveRunIsTracked, Live
      <4> QED
        BY <1>6, <4>2, ConstantsAssumption DEF Busy
    <3> QED
      BY <3>1
  <2>4. Lane!Serving(s) = {}
    BY <2>3 DEF Lane!Serving
  <2>5. Lane!Serve(m, s)
    BY <1>1, <1>2, <2>1, <2>2, <2>4 DEF Lane!Serve
  <2> QED
    BY <2>5, LaneTakes
<1> QED
  BY <1>4, <1>5, <1>6

LEMMA StopsAreLaneSteps ==
  ASSUME Inv, Stopped \/ Crash
  PROVE  Lane!Next
<1> DEFINE S == {k \in Msgs : at[k] \in Running \cup {"queued"}}
<1>1. sid' = sid
  BY DEF Stopped, Crash
<1>2. \A k \in Msgs : IF k \in S THEN at'[k] = "over"
                      ELSE at'[k] # at[k] => at[k] = "observing" /\ at'[k] = "over"
  <2>1. CASE Crash
    BY <2>1 DEF Crash, MovedAll, Running, InTry
  <2>2. CASE Stopped
    <3>1. \A k \in Msgs : at[k] \notin Running
      BY <2>2 DEF Inv, Stopped, StoppingAwaits, GatherReturns, Live
    <3> QED
      BY <2>2, <3>1 DEF Stopped, MovedAll
  <2> QED
    BY <2>1, <2>2
<1>3. \A k \in S : LaneState(at[k]) # "gone" /\ LaneState(at'[k]) = "gone"
  BY <1>2, LaneStates DEF Over
<1>4. \A k \in Msgs \ S : LaneState(at'[k]) = LaneState(at[k])
  BY <1>2, LaneStates DEF Over
<1> HIDE DEF S
<1>5. S \in SUBSET Msgs
  BY DEF S
<1> QED
  BY <1>1, <1>3, <1>4, <1>5, LaneLeaves DEF LaneKeeps

LEMMA LaneHands ==
  ASSUME NEW m \in Msgs, NEW n \in Msgs, Lane!HandOver(m, n)
  PROVE  Lane!Next
  BY Zenon DEF Lane!Next

LEMMA FinishIsALaneStep ==
  ASSUME Inv, NEW m \in Msgs, Finish(m)
  PROVE  Lane!Next
<1>1. PICK s : s = sid[m]
  OBVIOUS
<1>2. PICK q : q = pending[s]
  OBVIOUS
<1>3. PICK out \in Outcome(at[m]) :
        \/ /\ HasNext(s)
           /\ at' = [at EXCEPT ![m] = out, ![Head(q)] = "created"]
        \/ at' = Moved(m, out)
        \/ at' = [k \in Msgs |-> IF k = m THEN out
                                 ELSE IF k \in Range(q) THEN "over" ELSE at[k]]
  BY <1>1, <1>2 DEF Finish, TakeNext
<1>4. /\ out \in Over /\ Live(m) /\ at \in [Msgs -> States] /\ sid' = sid
      /\ LaneState(out) = "gone" /\ LaneState(at[m]) = "serving"
  BY OutcomeLemma, LaneStates DEF Inv, TypeOK, States, Finish, Over, Live, Running, InTry
<1>5. s \in Sessions /\ q \in Seq(Msgs)
  BY <1>1, <1>2, <1>4 DEF Inv, TypeOK, RunsHaveSessions
<1>6. \A i \in DOMAIN q : q[i] \in Msgs /\ at[q[i]] = "queued" /\ sid[q[i]] = s /\ q[i] # m
  BY <1>1, <1>2, <1>4, <1>5 DEF Inv, QueuesHoldTheQueued, Live, Running, InTry
<1>7. CASE HasNext(s) /\ at' = [at EXCEPT ![m] = out, ![Head(q)] = "created"]
  <2>1. PICK n : n = Head(q)
    OBVIOUS
  <2>2. n = q[1] /\ 1 \in DOMAIN q
    BY <1>2, <1>5, <1>7, <2>1, TakeType DEF HasNext
  <2>3. n \in Msgs /\ at[n] = "queued" /\ sid[n] = s /\ n # m
    BY <1>6, <2>2
  <2>4. at'[m] = out /\ at'[n] = "created" /\ \A k \in Msgs \ {m, n} : at'[k] = at[k]
    BY <1>4, <1>7, <2>1, <2>3
  <2>5. LaneState(at[n]) = "waiting" /\ LaneState(at'[n]) = "serving"
    BY <2>3, <2>4, LaneStates DEF Running
  <2>6. Lane!HandOver(m, n)
    BY <1>1, <1>4, <2>3, <2>4, <2>5 DEF Lane!HandOver
  <2> QED
    BY <2>3, <2>6, LaneHands
<1>8. CASE at' = Moved(m, out)
  <2>1. at'[m] = out /\ \A k \in Msgs \ {m} : at'[k] = at[k]
    BY <1>4, <1>8, OneMoves DEF States
  <2> QED
    BY <1>4, <2>1, LaneLeaves DEF LaneKeeps
<1>9. CASE at' = [k \in Msgs |-> IF k = m THEN out
                                 ELSE IF k \in Range(q) THEN "over" ELSE at[k]]
  <2>1. PICK S : S = {m} \cup Range(q)
    OBVIOUS
  <2>2. S \in SUBSET Msgs /\ \A k \in S \ {m} : at[k] = "queued"
    BY <1>6, <2>1 DEF Range
  <2>3. /\ at'[m] = out
        /\ \A k \in S \ {m} : at'[k] = "over"
        /\ \A k \in Msgs \ S : at'[k] = at[k]
    BY <1>9, <2>1, <2>2
  <2>4. \A k \in S : LaneState(at[k]) # "gone" /\ LaneState(at'[k]) = "gone"
    BY <1>4, <2>2, <2>3, LaneStates DEF Over
  <2> QED
    BY <1>4, <2>2, <2>3, <2>4, LaneLeaves DEF LaneKeeps
<1> QED
  BY <1>3, <1>7, <1>8, <1>9

LEMMA LaneStep == Inv /\ [Next]_vars => [Lane!Next]_(Lane!laneVars)
<1> SUFFICES ASSUME Inv, [Next]_vars
             PROVE  Lane!Next \/ UNCHANGED Lane!laneVars
  OBVIOUS
<1>1. CASE UNCHANGED <<at, sid>>
  BY <1>1, LaneUnchanged DEF LaneKeeps
<1>2. CASE Start
  <2>1. \A k \in Msgs : at'[k] # at[k] => at[k] = "observing" /\ at'[k] = "over"
    BY <1>2 DEF Start, MovedAll
  <2>2. \A k \in Msgs : LaneState(at'[k]) = LaneState(at[k])
    BY <2>1, LaneStates DEF Over
  <2> QED
    BY <1>2, <2>2, LaneUnchanged DEF LaneKeeps, Start
<1>3. ASSUME NEW c \in Chats, NEW m \in Msgs, Observe(m, c)
      PROVE  Lane!Next
  <2>1. at[m] = "new" /\ at'[m] = "observing" /\ \A k \in Msgs \ {m} : at'[k] = at[k]
    BY <1>3, OneMoves DEF Observe, States
  <2>2. \A k \in Msgs \ {m} : sid'[k] = sid[k]
    BY <1>3 DEF Inv, TypeOK, Observe
  <2>3. LaneState(at[m]) # "gone" /\ LaneState(at'[m]) = "gone"
    BY <2>1, LaneStates
  <2> QED
    BY <2>1, <2>2, <2>3, LaneLeaves DEF LaneKeeps
<1>4. ASSUME NEW m \in Msgs, PersistObserved(m)
      PROVE  UNCHANGED Lane!laneVars
  <2>1. at[m] = "observing" /\ at'[m] = "over" /\ \A k \in Msgs \ {m} : at'[k] = at[k]
    BY <1>4, OneMoves DEF PersistObserved, States, Over
  <2>2. LaneState(at'[m]) = LaneState(at[m])
    BY <2>1, LaneStates DEF Over
  <2> QED
    BY <1>4, <2>1, <2>2, LaneUnchanged DEF LaneKeeps, PersistObserved
<1>5. ASSUME NEW c \in Chats, StopCommand(c)
      PROVE  UNCHANGED Lane!laneVars
  <2>1. PICK m \in Msgs : RequestStop(m) \/ ForgetDoneRun(m)
    BY <1>5 DEF Inv, TypeOK, StopCommand, Busy
  <2>2. CASE ForgetDoneRun(m)
    BY <1>5, <2>2, LaneUnchanged DEF LaneKeeps, ForgetDoneRun, StopCommand
  <2>3. CASE RequestStop(m)
    <3>1. PICK to \in {"aborting", "cancelling"} : at' = Moved(m, to)
      BY <2>3 DEF RequestStop
    <3>2. to \in Running /\ Live(m)
      BY <2>3 DEF RequestStop, Live, Running
    <3> QED
      BY <1>5, <3>1, <3>2, RunMovesUnseen DEF StopCommand
  <2> QED
    BY <2>1, <2>2, <2>3
<1>6. ASSUME NEW m \in Msgs, RunStep(m)
      PROVE  Lane!Next \/ UNCHANGED Lane!laneVars
  <2>1. CASE EnterTry(m) \/ LoadHistory(m) \/ AgentReplies(m) \/ SaveUserTurn(m)
             \/ SaveAssistantTurn(m) \/ RunRaises(m)
    <3>1. /\ Live(m) /\ sid' = sid
          /\ \E to \in InTry : at' = Moved(m, to)
      BY <2>1 DEF EnterTry, LoadHistory, AgentReplies, SaveUserTurn, SaveAssistantTurn,
                  RunRaises, Step, InTry, Live, Running, RunUnchanged
    <3>2. PICK to \in InTry : at' = Moved(m, to)
      BY <3>1
    <3> QED
      BY <3>1, <3>2, RunMovesUnseen DEF Running
  <2>2. CASE DieUnfinished(m)
    <3>1. at[m] = "aborting" /\ at'[m] = "dead" /\ \A k \in Msgs \ {m} : at'[k] = at[k]
      BY <2>2, OneMoves DEF DieUnfinished, Step, States, Over
    <3>2. LaneState(at[m]) # "gone" /\ LaneState(at'[m]) = "gone"
      BY <3>1, LaneStates DEF Over, Running
    <3> QED
      BY <2>2, <3>1, <3>2, LaneLeaves DEF LaneKeeps, DieUnfinished
  <2> QED
    BY <1>6, <2>1, <2>2, FinishIsALaneStep DEF RunStep
<1>7. CASE \/ RestoreReads \/ RestoreApplies \/ Stop \/ PersistOverride
           \/ UNCHANGED vars \/ \E c \in Chats : NewSession(c)
  <2>1. UNCHANGED <<at, sid>>
    BY <1>7 DEF RestoreReads, RestoreApplies, Stop, PersistOverride, NewSession, vars, queueVars
  <2> QED
    BY <1>1, <2>1
<1> QED
  BY <1>2, <1>3, <1>4, <1>5, <1>6, <1>7, StopsAreLaneSteps, ArriveIsALaneStep DEF Next

(* Every behaviour of the router is one of SessionLane: a session serves one
   message at a time, and a message that was served or dropped stays so. *)
THEOREM RouterImplementsLane == Spec => ImplementsLane
<1>1. Init => Lane!Init
  BY LaneStates DEF Init, Lane!Init
<1> QED
  BY <1>1, LaneStep, Invariance, PTL DEF Spec, ImplementsLane, Lane!Spec

(* By its specification alone a lane serves one message at a time. *)
LEMMA LanesAreSerial == Lane!Spec => []Lane!OneAtATime
<1>1. Lane!Init => Lane!OneAtATime
  BY DEF Lane!Init, Lane!OneAtATime
<1>2. Lane!OneAtATime /\ [Lane!Next]_(Lane!laneVars) => Lane!OneAtATime'
  <2> DEFINE st == [m \in Msgs |-> LaneState(at[m])]
             ln == [m \in Msgs |-> IF LaneState(at[m]) \in {"waiting", "serving"}
                                    THEN sid[m] ELSE NoSession]
             One(u, v) == \A m, n \in Msgs :
                            u[m] = "serving" /\ u[n] = "serving" /\ v[m] = v[n] => m = n
  <2>1. (Lane!OneAtATime <=> One(st, ln)) /\ (Lane!OneAtATime' <=> One(st', ln'))
    BY DEF Lane!OneAtATime
  <2>2. DOMAIN st = Msgs /\ DOMAIN ln = Msgs
    OBVIOUS
  <2>3. UNCHANGED Lane!laneVars => st' = st /\ ln' = ln
    BY DEF Lane!laneVars
  <2>4. \A m \in Msgs, s \in Sessions : Lane!Wait(m, s) =>
          st' = [st EXCEPT ![m] = "waiting"] /\ ln' = [ln EXCEPT ![m] = s]
    BY DEF Lane!Wait
  <2>5. \A m \in Msgs, s \in Sessions : Lane!Serve(m, s) =>
          /\ \A n \in Msgs : ~ (st[n] = "serving" /\ ln[n] = s)
          /\ st' = [st EXCEPT ![m] = "serving"] /\ ln' = [ln EXCEPT ![m] = s]
    BY DEF Lane!Serve, Lane!Serving
  <2>6. \A m, n \in Msgs : Lane!HandOver(m, n) =>
          /\ st[m] = "serving" /\ ln[n] = ln[m]
          /\ st' = [st EXCEPT ![m] = "gone", ![n] = "serving"]
          /\ ln' = [ln EXCEPT ![m] = NoSession]
    BY DEF Lane!HandOver
  <2>7. \A S \in SUBSET Msgs : Lane!Leave(S) =>
          \A n \in Msgs : st'[n] = (IF n \in S THEN "gone" ELSE st[n]) /\ (n \notin S => ln'[n] = ln[n])
    BY DEF Lane!Leave
  <2> HIDE DEF st, ln
  <2> SUFFICES ASSUME One(st, ln), [Lane!Next]_(Lane!laneVars)
               PROVE  One(st', ln')
    BY <2>1
  <2>8. CASE UNCHANGED Lane!laneVars
    BY <2>3, <2>8
  <2>9. ASSUME NEW m \in Msgs, NEW s \in Sessions, Lane!Wait(m, s) PROVE One(st', ln')
    BY <2>2, <2>4, <2>9
  <2>10. ASSUME NEW m \in Msgs, NEW s \in Sessions, Lane!Serve(m, s) PROVE One(st', ln')
    BY <2>2, <2>5, <2>10
  <2>11. ASSUME NEW m \in Msgs, NEW n \in Msgs, Lane!HandOver(m, n) PROVE One(st', ln')
    BY <2>2, <2>6, <2>11
  <2>12. ASSUME NEW S \in SUBSET Msgs, Lane!Leave(S) PROVE One(st', ln')
    BY <2>7, <2>12
  <2> QED
    BY <2>8, <2>9, <2>10, <2>11, <2>12 DEF Lane!Next
<1> QED
  BY <1>1, <1>2, PTL DEF Lane!Spec

(* So the router runs one message of a session at a time, whatever is
   queued, stopped, handed over or lost in a crash. *)
THEOREM RunsAreSerial == Spec => []Lane!OneAtATime
  BY RouterImplementsLane, LanesAreSerial, PTL DEF ImplementsLane

----------------------------------------------------------------------------
(* The messages of a session are taken in the order they arrived *)

Held(m) == Live(m) \/ at[m] = "queued"

QueuedIsInItsQueue ==
  \A m \in Msgs : at[m] = "queued" =>
    sid[m] \in Sessions /\ \E i \in DOMAIN pending[sid[m]] : pending[sid[m]][i] = m

AheadIsHeld ==
  \A m \in Msgs : \A n \in ahead[m] : Held(m) /\ Held(n) /\ sid[n] = sid[m]

QueuesInOrder ==
  \A s \in Sessions : \A i, j \in DOMAIN pending[s] :
    i < j => pending[s][j] \notin ahead[pending[s][i]]

DownIsIdle == phase = "down" => \A m \in Msgs : at[m] # "queued"

OrderInv ==
  /\ QueuedIsInItsQueue
  /\ AheadIsHeld
  /\ QueuesInOrder
  /\ DownIsIdle
  /\ TakenInOrder

(* A step that neither queues nor dispatches nor ends a message. *)
LEMMA OrderUnseen ==
  ASSUME Inv, OrderInv, UNCHANGED <<pending, ahead>>, early => early',
         phase' = "down" => phase = "down",
         \A k \in Msgs : at'[k] = "queued" <=> at[k] = "queued",
         \A k \in Msgs : Held(k) => Held(k)' /\ sid'[k] = sid[k]
  PROVE  OrderInv'
<1>1. QueuedIsInItsQueue' /\ DownIsIdle'
  BY DEF OrderInv, QueuedIsInItsQueue, DownIsIdle, Held
<1>2. AheadIsHeld'
  BY DEF OrderInv, AheadIsHeld, Inv, TypeOK
<1>3. QueuesInOrder'
  BY DEF OrderInv, QueuesInOrder
<1>4. TakenInOrder'
  BY DEF OrderInv, TakenInOrder, Inv, TypeOK
<1> QED
  BY <1>1, <1>2, <1>3, <1>4 DEF OrderInv

(* Nothing is held: nothing is ahead of anything. *)
LEMMA OrderIdle ==
  ASSUME \A k \in Msgs : ahead'[k] = {} /\ at'[k] # "queued",
         \A s \in Sessions : pending'[s] = <<>>
  PROVE  OrderInv'
  BY DEF OrderInv, QueuedIsInItsQueue, AheadIsHeld, QueuesInOrder, DownIsIdle, TakenInOrder

(* Some messages end; the others of their session close up. *)
LEMMA OrderSettles ==
  ASSUME Inv, OrderInv, SettleAhead, UNCHANGED <<phase, sid, early>>,
         \A k \in Msgs : at'[k] = "queued" => at[k] = "queued",
         \A k \in Msgs : Held(k) /\ at'[k] \notin Over => Held(k)',
         QueuedIsInItsQueue', QueuesInOrder',
         \A m \in Msgs : at[m] = "queued" /\ at'[m] \notin Over \cup {"queued"} =>
           \A n \in ahead[m] : at'[n] # "queued"
  PROVE  OrderInv'
<1>1. ASSUME NEW m \in Msgs, NEW n \in ahead'[m]
      PROVE  n \in ahead[m] /\ n \in Msgs /\ at'[m] \notin Over /\ at'[n] \notin Over
  BY <1>1 DEF SettleAhead, Inv, TypeOK
<1>2. AheadIsHeld'
  BY <1>1 DEF OrderInv, AheadIsHeld
<1>3. TakenInOrder'
  BY <1>1 DEF OrderInv, TakenInOrder
<1>4. DownIsIdle'
  BY DEF OrderInv, DownIsIdle
<1> QED
  BY <1>2, <1>3, <1>4 DEF OrderInv

LEMMA OrderAtProcessSteps ==
  ASSUME Inv, OrderInv, Start \/ Stopped \/ Crash
  PROVE  OrderInv'
<1>1. CASE Start
  <2>1. \A k \in Msgs : ~Held(k)
    BY <1>1 DEF OrderInv, DownIsIdle, Inv, NoRunOutlivesStop, Held, Start
  <2>2. \A k \in Msgs : ahead[k] = {}
    BY <2>1 DEF OrderInv, AheadIsHeld
  <2>3. \A k \in Msgs : at'[k] # "queued"
    BY <1>1, <2>1 DEF Held, Start, MovedAll
  <2> QED
    BY <1>1, <2>2, <2>3, OrderIdle DEF Start
<1>2. CASE Stopped
  BY <1>2, OrderIdle DEF Stopped, MovedAll
<1>3. CASE Crash
  BY <1>3, OrderIdle DEF Crash, MovedAll
<1> QED
  BY <1>1, <1>2, <1>3

LEMMA OrderAtDie ==
  ASSUME Inv, OrderInv, NEW m \in Msgs, DieUnfinished(m)
  PROVE  OrderInv'
<1>1. /\ at[m] = "aborting" /\ at'[m] = "dead" /\ \A k \in Msgs \ {m} : at'[k] = at[k]
      /\ UNCHANGED <<phase, pending, sid, early>> /\ SettleAhead
  BY OneMoves DEF DieUnfinished, Step, States, Over
<1>2. QueuedIsInItsQueue'
  BY <1>1 DEF OrderInv, QueuedIsInItsQueue
<1>3. QueuesInOrder'
  <2>1. ASSUME NEW s \in Sessions, NEW i \in DOMAIN pending[s], NEW j \in DOMAIN pending[s], i < j
        PROVE  pending[s][j] \notin ahead'[pending[s][i]]
    <3>1. pending[s][i] \in Msgs /\ pending[s][j] \notin ahead[pending[s][i]]
      BY <2>1 DEF Inv, TypeOK, OrderInv, QueuesInOrder
    <3> QED
      BY <1>1, <3>1 DEF SettleAhead
  <2> QED
    BY <1>1, <2>1 DEF QueuesInOrder
<1>4. /\ \A k \in Msgs : at'[k] = "queued" => at[k] = "queued"
      /\ \A k \in Msgs : Held(k) /\ at'[k] \notin Over => Held(k)'
      /\ \A k \in Msgs : ~(at[k] = "queued" /\ at'[k] \notin Over \cup {"queued"})
  BY <1>1 DEF Held, Live, Over
<1> QED
  BY <1>1, <1>2, <1>3, <1>4, OrderSettles

LEMMA OrderAtArrive ==
  ASSUME Inv, OrderInv, NEW c \in Chats, NEW m \in Msgs, Arrive(m, c)
  PROVE  OrderInv'
<1>1. PICK s \in Sessions : s = active[c]
  BY DEF Inv, TypeOK
<1>2. /\ at[m] = "new" /\ ~Held(m) /\ UNCHANGED <<phase, early>> /\ phase # "down"
      /\ sid'[m] = s /\ \A k \in Msgs \ {m} : sid'[k] = sid[k]
  BY <1>1 DEF Inv, TypeOK, Arrive, Held, Live, Running, InTry
<1>3. \A to \in {"over", "queued", "created"} : at' = Moved(m, to) =>
        at'[m] = to /\ \A k \in Msgs \ {m} : at'[k] = at[k]
  BY OneMoves DEF States, Over, Running
<1>4. CASE phase = "stopping"
  <2>1. /\ at'[m] = "over" /\ \A k \in Msgs \ {m} : at'[k] = at[k]
        /\ UNCHANGED <<pending, ahead>>
    BY <1>3, <1>4 DEF Arrive
  <2>2. \A k \in Msgs : Held(k) => Held(k)' /\ sid'[k] = sid[k]
    BY <1>2, <2>1 DEF Held, Live
  <2> QED
    BY <1>2, <2>1, <2>2, OrderUnseen
<1>5. CASE phase # "stopping"
  <2>1. /\ at'[m] \in {"queued", "created"} /\ Held(m)'
        /\ \A k \in Msgs \ {m} : at'[k] = at[k]
        /\ ahead'[m] = InHand(s) /\ \A k \in Msgs \ {m} : ahead'[k] = ahead[k]
    BY <1>1, <1>3, <1>5 DEF Arrive, Inv, TypeOK, Held, Live, Running
  <2>2. \A k \in Msgs : m \notin ahead[k]
    BY <1>2 DEF OrderInv, AheadIsHeld
  <2>3. \A k \in Msgs : Held(k) => k # m /\ Held(k)' /\ sid'[k] = sid[k]
    BY <1>2, <2>1 DEF Held, Live
  <2>4. AheadIsHeld'
    <3>1. ASSUME NEW k \in Msgs, NEW n \in ahead'[k]
          PROVE  Held(k)' /\ Held(n)' /\ sid'[n] = sid'[k]
      <4>1. CASE k = m
        <5>1. n \in Msgs /\ Held(n) /\ sid[n] = s
          BY <2>1, <3>1, <4>1 DEF InHand, Held
        <5> QED
          BY <1>2, <2>1, <2>3, <4>1, <5>1
      <4>2. CASE k # m
        <5>1. n \in Msgs /\ Held(k) /\ Held(n) /\ sid[n] = sid[k]
          BY <2>1, <3>1, <4>2 DEF OrderInv, AheadIsHeld, Inv, TypeOK
        <5> QED
          BY <2>3, <5>1
      <4> QED
        BY <4>1, <4>2
    <3> QED
      BY <3>1 DEF AheadIsHeld
  <2>5. DownIsIdle'
    BY <1>2 DEF DownIsIdle
  <2>6. CASE Busy(s)
    <3>1. at'[m] = "queued" /\ pending' = [pending EXCEPT ![s] = Append(@, m)]
      BY <1>1, <1>3, <1>5, <2>6 DEF Arrive
    <3>2. ASSUME NEW t \in Sessions, NEW i \in DOMAIN pending[t]
          PROVE  i \in DOMAIN pending'[t] /\ pending'[t][i] = pending[t][i]
                 /\ pending[t][i] \in Msgs /\ at[pending[t][i]] = "queued"
      BY <3>1, <3>2 DEF Inv, TypeOK, QueuesHoldTheQueued
    <3>3. /\ pending[s] \in Seq(Msgs) /\ pending'[s] = Append(pending[s], m)
          /\ \A t \in Sessions \ {s} : pending'[t] = pending[t]
      BY <3>1 DEF Inv, TypeOK
    <3>4. /\ Len(pending[s]) + 1 \in DOMAIN pending'[s]
          /\ pending'[s][Len(pending[s]) + 1] = m
          /\ \A i \in DOMAIN pending'[s] : i \in DOMAIN pending[s] \/ i = Len(pending[s]) + 1
          /\ \A i \in DOMAIN pending[s] : i < Len(pending[s]) + 1
      BY <3>3
    <3>5. QueuedIsInItsQueue'
      <4>1. ASSUME NEW k \in Msgs, at'[k] = "queued"
            PROVE  sid'[k] \in Sessions
                   /\ \E i \in DOMAIN pending'[sid'[k]] : pending'[sid'[k]][i] = k
        <5>1. CASE k = m
          BY <1>2, <3>4, <5>1
        <5>2. CASE k # m
          <6>1. sid'[k] = sid[k] /\ at[k] = "queued"
            BY <1>2, <2>1, <4>1, <5>2
          <6> QED
            BY <3>2, <6>1 DEF OrderInv, QueuedIsInItsQueue
        <5> QED
          BY <5>1, <5>2
      <4> QED
        BY <4>1 DEF QueuedIsInItsQueue
    <3>6. QueuesInOrder'
      <4>1. ASSUME NEW t \in Sessions, NEW i \in DOMAIN pending'[t],
                   NEW j \in DOMAIN pending'[t], i < j
            PROVE  pending'[t][j] \notin ahead'[pending'[t][i]]
        <5>1. CASE j \in DOMAIN pending[t]
          <6>1. i \in DOMAIN pending[t]
            BY <3>3, <3>4, <4>1, <5>1
          <6>2. /\ pending'[t][i] = pending[t][i] /\ pending'[t][j] = pending[t][j]
                /\ pending[t][i] \in Msgs \ {m}
            BY <1>2, <3>2, <5>1, <6>1
          <6> QED
            BY <2>1, <4>1, <5>1, <6>1, <6>2 DEF OrderInv, QueuesInOrder
        <5>2. CASE j \notin DOMAIN pending[t]
          <6>1. t = s /\ j = Len(pending[s]) + 1 /\ pending'[t][j] = m
            BY <3>3, <3>4, <4>1, <5>2
          <6>2. i \in DOMAIN pending[t]
            BY <3>4, <4>1, <6>1
          <6>3. pending'[t][i] = pending[t][i] /\ pending[t][i] \in Msgs \ {m}
            BY <1>2, <3>2, <6>2
          <6> QED
            BY <2>1, <2>2, <6>1, <6>3
        <5> QED
          BY <5>1, <5>2
      <4> QED
        BY <4>1 DEF QueuesInOrder
    <3>7. TakenInOrder'
      <4>1. ASSUME NEW k \in Msgs, NEW n \in ahead'[k], ~early, at'[n] = "queued"
            PROVE  at'[k] = "queued"
        <5>1. CASE k = m
          BY <3>1, <5>1
        <5>2. CASE k # m
          <6>1. n \in ahead[k] /\ n \in Msgs \ {m}
            BY <2>1, <2>2, <4>1, <5>2 DEF Inv, TypeOK
          <6> QED
            BY <2>1, <4>1, <5>2, <6>1 DEF OrderInv, TakenInOrder
        <5> QED
          BY <5>1, <5>2
      <4> QED
        BY <1>2, <4>1 DEF TakenInOrder
    <3> QED
      BY <2>4, <2>5, <3>5, <3>6, <3>7 DEF OrderInv
  <2>7. CASE ~Busy(s)
    <3>1. at'[m] = "created" /\ pending' = pending
      BY <1>1, <1>3, <1>5, <2>7 DEF Arrive
    <3>2. \A t \in Sessions : \A i \in DOMAIN pending[t] :
            pending[t][i] \in Msgs \ {m}
      BY <1>2 DEF Inv, TypeOK, QueuesHoldTheQueued
    <3>3. QueuedIsInItsQueue'
      BY <1>2, <2>1, <3>1 DEF OrderInv, QueuedIsInItsQueue
    <3>4. QueuesInOrder'
      BY <2>1, <3>1, <3>2 DEF OrderInv, QueuesInOrder
    <3>5. ~early => \A n \in InHand(s) : at[n] # "queued"
      <4>1. SUFFICES ASSUME ~early, NEW n \in Msgs, sid[n] = s, at[n] = "queued"
                     PROVE  FALSE
        BY DEF InHand
      <4>2. pending[s] # <<>>
        BY <4>1 DEF OrderInv, QueuedIsInItsQueue
      <4> QED
        BY <2>7, <4>1, <4>2 DEF Inv, QueueHasAWorkerUnlessEarly, QueueHasAWorker, Busy
    <3>6. TakenInOrder'
      <4>1. ASSUME NEW k \in Msgs, NEW n \in ahead'[k], ~early, at'[n] = "queued"
            PROVE  at'[k] = "queued"
        <5>1. n \in Msgs \ {m}
          BY <2>1, <3>1, <4>1 DEF InHand, Inv, TypeOK
        <5>2. CASE k = m
          BY <2>1, <3>5, <4>1, <5>1, <5>2
        <5>3. CASE k # m
          BY <2>1, <4>1, <5>1, <5>3 DEF OrderInv, TakenInOrder
        <5> QED
          BY <5>2, <5>3
      <4> QED
        BY <1>2, <4>1 DEF TakenInOrder
    <3> QED
      BY <2>4, <2>5, <3>3, <3>4, <3>6 DEF OrderInv
  <2> QED
    BY <2>6, <2>7
<1> QED
  BY <1>4, <1>5

LEMMA AheadShrinks ==
  ASSUME Inv, SettleAhead, NEW k \in Msgs
  PROVE  ahead'[k] \subseteq ahead[k]
  BY DEF SettleAhead

LEMMA OrderAtFinish ==
  ASSUME Inv, OrderInv, NEW m \in Msgs, Finish(m)
  PROVE  OrderInv'
<1>1. PICK s : s = sid[m]
  OBVIOUS
<1>2. PICK q : q = pending[s]
  OBVIOUS
<1>3. PICK out \in Outcome(at[m]) :
        /\ \/ /\ Drains /\ HasNext(s)
              /\ pending' = [pending EXCEPT ![s] = Tail(q)]
              /\ at' = [at EXCEPT ![m] = out, ![Head(q)] = "created"]
           \/ /\ Drains /\ ~HasNext(s)
              /\ at' = Moved(m, out)
              /\ UNCHANGED pending
           \/ /\ ~Drains
              /\ pending' = [pending EXCEPT ![s] = <<>>]
              /\ at' = [k \in Msgs |-> IF k = m THEN out
                                       ELSE IF k \in Range(q) THEN "over" ELSE at[k]]
        /\ SettleAhead
        /\ UNCHANGED <<phase, sid, early>>
  BY <1>1, <1>2 DEF Finish, TakeNext
<1>4. /\ out \in Over /\ Live(m)
      /\ at \in [Msgs -> States] /\ pending \in [Sessions -> Seq(Msgs)]
  BY OutcomeLemma DEF Inv, TypeOK, States, Over, Live, Running, InTry
<1>5. s \in Sessions /\ q \in Seq(Msgs)
  BY <1>1, <1>2, <1>4 DEF Inv, RunsHaveSessions
<1>6. \A i \in DOMAIN q : q[i] \in Msgs /\ at[q[i]] = "queued" /\ sid[q[i]] = s /\ q[i] # m
  BY <1>1, <1>2, <1>4, <1>5 DEF Inv, QueuesHoldTheQueued, Live, Running, InTry
<1>7. \A i, j \in DOMAIN q : i < j => q[j] \notin ahead[q[i]]
  BY <1>2, <1>5 DEF OrderInv, QueuesInOrder
<1>8. ASSUME NEW k \in Msgs, at[k] = "queued", sid[k] = s
      PROVE  \E i \in DOMAIN q : q[i] = k
  BY <1>2, <1>8 DEF OrderInv, QueuedIsInItsQueue
<1>9. ASSUME NEW t \in Sessions \ {s}, NEW i \in DOMAIN pending[t], NEW j \in DOMAIN pending[t],
             i < j
      PROVE  pending[t][j] \notin ahead'[pending[t][i]]
  <2>1. pending[t][i] \in Msgs /\ pending[t][j] \notin ahead[pending[t][i]]
    BY <1>4, <1>9 DEF OrderInv, QueuesInOrder
  <2> QED
    BY <1>3, <2>1, AheadShrinks
<1>10. CASE Drains /\ HasNext(s)
  <2>1. PICK n : n = Head(q)
    OBVIOUS
  <2>2. /\ n = q[1] /\ 1 \in DOMAIN q /\ Tail(q) \in Seq(Msgs)
        /\ \A i \in DOMAIN Tail(q) : /\ i \in Nat /\ i + 1 \in DOMAIN q
                                     /\ Tail(q)[i] = q[i + 1]
        /\ \A i \in DOMAIN q : i = 1 \/ i - 1 \in DOMAIN Tail(q)
        /\ \A i \in DOMAIN q : i \in Nat \ {0}
    BY <1>2, <1>5, <1>10, <2>1, TakeType DEF HasNext
  <2>3. n \in Msgs /\ at[n] = "queued" /\ sid[n] = s /\ n # m
    BY <1>6, <2>2
  <2>4. /\ at'[m] = out /\ at'[n] = "created" /\ \A k \in Msgs \ {m, n} : at'[k] = at[k]
        /\ pending'[s] = Tail(q) /\ \A t \in Sessions \ {s} : pending'[t] = pending[t]
    BY <1>3, <1>4, <1>5, <1>10, <2>1, <2>3
  <2>5. \A k \in Msgs : at'[k] = "queued" => at[k] = "queued" /\ k \notin {m, n}
    BY <1>4, <2>4 DEF Over
  <2>6. \A k \in Msgs : Held(k) /\ at'[k] \notin Over => Held(k)'
    BY <1>4, <2>4 DEF Held, Live, Running
  <2>7. QueuedIsInItsQueue'
    <3>1. ASSUME NEW k \in Msgs, at'[k] = "queued"
          PROVE  sid[k] \in Sessions /\ \E i \in DOMAIN pending'[sid[k]] : pending'[sid[k]][i] = k
      <4>1. at[k] = "queued" /\ k # n
        BY <2>5, <3>1
      <4>2. CASE sid[k] = s
        <5>1. PICK i \in DOMAIN q : q[i] = k
          BY <1>8, <4>1, <4>2
        <5>2. i - 1 \in DOMAIN Tail(q) /\ Tail(q)[i - 1] = q[i]
          <6>1. i # 1 /\ i \in Nat \ {0}
            BY <2>2, <4>1, <5>1
          <6>2. i - 1 \in DOMAIN Tail(q) /\ (i - 1) + 1 = i
            BY <2>2, <6>1
          <6> QED
            BY <2>2, <6>2
        <5> QED
          BY <1>5, <2>4, <4>2, <5>1, <5>2
      <4>3. CASE sid[k] # s
        BY <2>4, <4>1, <4>3 DEF OrderInv, QueuedIsInItsQueue
      <4> QED
        BY <4>2, <4>3
    <3> QED
      BY <1>3, <3>1 DEF QueuedIsInItsQueue
  <2>8. ASSUME NEW i \in DOMAIN Tail(q), NEW j \in DOMAIN Tail(q), i < j
        PROVE  Tail(q)[j] \notin ahead'[Tail(q)[i]]
    <3>1. /\ i + 1 \in DOMAIN q /\ j + 1 \in DOMAIN q /\ i + 1 < j + 1
          /\ Tail(q)[i] = q[i + 1] /\ Tail(q)[j] = q[j + 1]
      BY <2>2, <2>8
    <3>2. q[i + 1] \in Msgs /\ q[j + 1] \notin ahead[q[i + 1]]
      BY <1>6, <1>7, <3>1
    <3> QED
      BY <1>3, <3>1, <3>2, AheadShrinks
  <2>9. QueuesInOrder'
    BY <1>9, <2>4, <2>8 DEF QueuesInOrder
  <2>10. \A x \in ahead[n] : at'[x] # "queued"
    <3>1. SUFFICES ASSUME NEW x \in ahead[n], at'[x] = "queued"
                   PROVE  FALSE
      OBVIOUS
    <3>2. x \in Msgs /\ sid[x] = s
      BY <2>3, <3>1 DEF OrderInv, AheadIsHeld, Inv, TypeOK
    <3>3. at[x] = "queued" /\ x # n
      BY <2>5, <3>1, <3>2
    <3>4. PICK i \in DOMAIN q : q[i] = x
      BY <1>8, <3>2, <3>3
    <3>5. 1 < i
      BY <2>2, <3>3, <3>4
    <3> QED
      BY <1>7, <2>2, <3>1, <3>4, <3>5
  <2>11. \A k \in Msgs : at[k] = "queued" /\ at'[k] \notin Over \cup {"queued"} => k = n
    BY <1>4, <2>4
  <2> QED
    BY <1>3, <2>5, <2>6, <2>7, <2>9, <2>10, <2>11, OrderSettles
<1>11. CASE Drains /\ ~HasNext(s)
  <2>1. /\ at'[m] = out /\ \A k \in Msgs \ {m} : at'[k] = at[k]
        /\ pending' = pending /\ q = <<>>
    BY <1>2, <1>3, <1>4, <1>11 DEF Moved, HasNext
  <2>2. \A k \in Msgs : at'[k] = "queued" => at[k] = "queued"
    BY <1>4, <2>1 DEF Over
  <2>3. /\ \A k \in Msgs : Held(k) /\ at'[k] \notin Over => Held(k)'
        /\ \A k \in Msgs : ~(at[k] = "queued" /\ at'[k] \notin Over \cup {"queued"})
    BY <1>4, <2>1 DEF Held, Live
  <2>4. QueuedIsInItsQueue'
    BY <1>3, <2>1, <2>2 DEF OrderInv, QueuedIsInItsQueue
  <2>5. QueuesInOrder'
    <3>1. \A i \in DOMAIN pending[s] : FALSE
      BY <1>2, <2>1
    <3> QED
      BY <1>9, <2>1, <3>1 DEF QueuesInOrder
  <2> QED
    BY <1>3, <2>2, <2>3, <2>4, <2>5, OrderSettles
<1>12. CASE ~Drains
  <2>1. /\ at'[m] = out
        /\ \A k \in Range(q) \ {m} : at'[k] = "over" \/ k \notin Msgs
        /\ \A k \in Msgs \ (Range(q) \cup {m}) : at'[k] = at[k]
        /\ pending'[s] = <<>> /\ \A t \in Sessions \ {s} : pending'[t] = pending[t]
    BY <1>3, <1>4, <1>5, <1>12
  <2>2. \A k \in Msgs : at'[k] = "queued" => at[k] = "queued" /\ k \notin Range(q)
    BY <1>4, <2>1 DEF Over
  <2>3. /\ \A k \in Msgs : Held(k) /\ at'[k] \notin Over => Held(k)'
        /\ \A k \in Msgs : ~(at[k] = "queued" /\ at'[k] \notin Over \cup {"queued"})
    BY <1>4, <2>1 DEF Held, Live, Over
  <2>4. \A k \in Msgs : at'[k] = "queued" => sid[k] # s
    BY <1>8, <2>2 DEF Range
  <2>5. QueuedIsInItsQueue'
    BY <1>3, <2>1, <2>2, <2>4 DEF OrderInv, QueuedIsInItsQueue
  <2>6. QueuesInOrder'
    BY <1>9, <2>1 DEF QueuesInOrder
  <2> QED
    BY <1>3, <2>2, <2>3, <2>5, <2>6, OrderSettles
<1> QED
  BY <1>3, <1>10, <1>11, <1>12

LEMMA OrderStep == Inv /\ OrderInv /\ [Next]_vars => OrderInv'
<1> SUFFICES ASSUME Inv, OrderInv, [Next]_vars
             PROVE  OrderInv'
  OBVIOUS
<1>1. ASSUME UNCHANGED <<pending, at, sid, ahead, early>>, phase' = "down" => phase = "down"
      PROVE  OrderInv'
  <2>1. \A k \in Msgs : (at'[k] = "queued" <=> at[k] = "queued")
                        /\ (Held(k) => Held(k)' /\ sid'[k] = sid[k])
    BY <1>1 DEF Held, Live
  <2> QED
    BY <1>1, <2>1, OrderUnseen
<1>2. CASE \/ RestoreReads \/ RestoreApplies \/ Stop \/ PersistOverride
           \/ UNCHANGED vars \/ \E c \in Chats : NewSession(c)
  <2>1. UNCHANGED <<pending, at, sid, ahead, early>> /\ (phase' = "down" => phase = "down")
    BY <1>2 DEF RestoreReads, RestoreApplies, Stop, PersistOverride, NewSession, vars, queueVars
  <2> QED
    BY <1>1, <2>1
<1>3. ASSUME NEW m \in Msgs, NEW to \in States, at' = Moved(m, to),
             at[m] # "queued", to # "queued", Held(m) => to \in Running,
             sid'[m] = sid[m] \/ ~Held(m), \A k \in Msgs \ {m} : sid'[k] = sid[k],
             UNCHANGED <<phase, pending, ahead>>, early => early'
      PROVE  OrderInv'
  <2>1. at'[m] = to /\ \A k \in Msgs \ {m} : at'[k] = at[k]
    BY <1>3, OneMoves
  <2>2. \A k \in Msgs : (at'[k] = "queued" <=> at[k] = "queued")
                        /\ (Held(k) => Held(k)' /\ sid'[k] = sid[k])
    BY <1>3, <2>1 DEF Held, Live
  <2> QED
    BY <1>3, <2>2, OrderUnseen
<1>4. ASSUME NEW c \in Chats, NEW m \in Msgs, Observe(m, c)
      PROVE  OrderInv'
  <2>1. at[m] = "new" /\ ~Held(m) /\ "observing" \in States
    BY <1>4 DEF Observe, Held, Live, Running, InTry, States
  <2>2. \A k \in Msgs \ {m} : sid'[k] = sid[k]
    BY <1>4 DEF Inv, TypeOK, Observe
  <2> QED
    BY <1>3, <1>4, <2>1, <2>2 DEF Observe
<1>5. ASSUME NEW m \in Msgs, PersistObserved(m)
      PROVE  OrderInv'
  <2>1. at[m] = "observing" /\ ~Held(m) /\ "over" \in States
    BY <1>5 DEF PersistObserved, Held, Live, Running, InTry, States, Over
  <2> QED
    BY <1>3, <1>5, <2>1 DEF PersistObserved
<1>6. ASSUME NEW c \in Chats, StopCommand(c)
      PROVE  OrderInv'
  <2>1. PICK m \in Msgs : RequestStop(m) \/ ForgetDoneRun(m)
    BY <1>6 DEF Inv, TypeOK, StopCommand, Busy
  <2>2. CASE ForgetDoneRun(m)
    BY <1>1, <1>6, <2>2 DEF ForgetDoneRun, StopCommand
  <2>3. CASE RequestStop(m)
    <3>1. PICK to \in {"aborting", "cancelling"} : at' = Moved(m, to)
      BY <2>3 DEF RequestStop
    <3>2. to \in Running /\ to \in States /\ to # "queued" /\ at[m] # "queued"
          /\ (early => early')
      BY <2>3 DEF RequestStop, Running, InTry, States
    <3> QED
      BY <1>3, <1>6, <3>1, <3>2 DEF StopCommand
  <2> QED
    BY <2>1, <2>2, <2>3
<1>7. ASSUME NEW m \in Msgs, RunStep(m)
      PROVE  OrderInv'
  <2>1. CASE EnterTry(m) \/ LoadHistory(m) \/ AgentReplies(m) \/ SaveUserTurn(m)
             \/ SaveAssistantTurn(m) \/ RunRaises(m)
    <3>1. /\ at[m] # "queued" /\ RunUnchanged
          /\ \E to \in InTry : at' = Moved(m, to)
      BY <2>1 DEF EnterTry, LoadHistory, AgentReplies, SaveUserTurn, SaveAssistantTurn,
                  RunRaises, Step, InTry
    <3>2. PICK to \in InTry : at' = Moved(m, to)
      BY <3>1
    <3>3. to \in Running /\ to \in States /\ to # "queued"
      BY DEF Running, InTry, States
    <3> QED
      BY <1>3, <3>1, <3>2, <3>3 DEF RunUnchanged
  <2> QED
    BY <1>7, <2>1, OrderAtDie, OrderAtFinish DEF RunStep
<1> QED
  BY <1>2, <1>4, <1>5, <1>6, <1>7, OrderAtProcessSteps, OrderAtArrive DEF Next

(* Messages of one session are taken in the order they arrived, unless a run
   was cancelled before its try. *)
THEOREM OrderIsKept == Spec => []TakenInOrder
<1>1. Init => Inv /\ OrderInv
  <2>1. Init => OrderInv
    BY DEF Init, OrderInv, QueuedIsInItsQueue, AheadIsHeld, QueuesInOrder, DownIsIdle,
           TakenInOrder
  <2> QED
    BY <2>1, InitInv
<1>2. OrderInv => TakenInOrder
  BY DEF OrderInv
<1> QED
  BY <1>1, <1>2, InvStep, OrderStep, PTL DEF Spec

----------------------------------------------------------------------------
(* What a run is given of the messages its session answered before: nobody
   of its session can finish while it has read its history and is live. *)
Given == InTry \ {"loading", "failing"}

AnsweredIsStored ==
  \A n \in Msgs : at[n] \in {"consolidating", "done"} => turns[n] # "none"

SeenInv == SeesWhatWasAnswered /\ AnsweredIsStored

(* A step that finishes no message and gives no run its history. *)
LEMMA SeenStays ==
  ASSUME SeenInv,
         \A m \in Msgs : at'[m] \in Given => at[m] \in Given /\ seen'[m] = seen[m],
         \A m \in Msgs : at'[m] = "done" => at[m] = "done",
         \A m \in Msgs : at[m] # "new" => sid'[m] = sid[m],
         \A m \in Msgs : at'[m] \in {"consolidating", "done"} =>
           \/ at[m] \in {"consolidating", "done"} /\ turns'[m] = turns[m]
           \/ turns'[m] # "none"
  PROVE  SeenInv'
<1>1. \A m \in Msgs : at[m] \in Given \cup {"done"} => sid'[m] = sid[m]
  BY DEF Given, InTry
<1>2. SeesWhatWasAnswered'
  BY <1>1 DEF SeenInv, SeesWhatWasAnswered, Given
<1>3. AnsweredIsStored'
  BY DEF SeenInv, AnsweredIsStored
<1> QED
  BY <1>2, <1>3 DEF SeenInv

LEMMA SeenAtRunStep ==
  ASSUME Inv, SeenInv, NEW m \in Msgs, RunStep(m), ~Finish(m)
  PROVE  SeenInv'
<1> USE DEF Step, RunUnchanged, Moved
<1>1. CASE EnterTry(m) \/ AgentReplies(m) \/ RunRaises(m)
  <2>1. UNCHANGED <<sid, turns, seen>>
    BY <1>1 DEF EnterTry, AgentReplies, RunRaises, memoryVars
  <2>2. /\ \A k \in Msgs \ {m} : at'[k] = at[k]
        /\ at'[m] \in {"loading", "saving", "failing"} /\ (at'[m] = "saving" => at[m] = "thinking")
    BY <1>1 DEF EnterTry, AgentReplies, RunRaises, Inv, TypeOK
  <2> QED
    BY <2>1, <2>2, SeenStays DEF Given, InTry
<1>2. CASE LoadHistory(m)
  <2>1. /\ \A k \in Msgs \ {m} : at'[k] = at[k] /\ seen'[k] = seen[k]
        /\ at'[m] = "thinking" /\ at[m] = "loading"
        /\ seen'[m] = {n \in Msgs : sid[n] = sid[m] /\ turns[n] # "none"}
        /\ UNCHANGED <<sid, turns>>
    BY <1>2 DEF LoadHistory, Inv, TypeOK
  <2> QED
    BY <2>1 DEF SeenInv, SeesWhatWasAnswered, AnsweredIsStored, InTry
<1>3. CASE SaveUserTurn(m)
  <2>1. /\ \A k \in Msgs \ {m} : at'[k] = at[k] /\ turns'[k] = turns[k]
        /\ at'[m] \in {"answering", "consolidating"} /\ at[m] = "saving"
        /\ turns'[m] = "user" /\ UNCHANGED <<sid, seen>>
    BY <1>3 DEF SaveUserTurn, Inv, TypeOK
  <2> QED
    BY <2>1, SeenStays DEF Given, InTry
<1>4. CASE SaveAssistantTurn(m)
  <2>1. /\ \A k \in Msgs \ {m} : at'[k] = at[k] /\ turns'[k] = turns[k]
        /\ at'[m] = "consolidating" /\ at[m] = "answering"
        /\ turns'[m] = "both" /\ UNCHANGED <<sid, seen>>
    BY <1>4 DEF SaveAssistantTurn, Inv, TypeOK
  <2> QED
    BY <2>1, SeenStays DEF Given, InTry
<1>5. CASE DieUnfinished(m)
  <2>1. /\ \A k \in Msgs \ {m} : at'[k] = at[k]
        /\ at'[m] = "dead" /\ UNCHANGED <<sid, turns, seen>>
    BY <1>5 DEF DieUnfinished, memoryVars, Inv, TypeOK
  <2> QED
    BY <2>1, SeenStays DEF Given, InTry
<1> QED
  BY <1>1, <1>2, <1>3, <1>4, <1>5 DEF RunStep

(* A run that finishes is the one live run of its session, and the one that
   takes over has not read its history. *)
LEMMA SeenAtFinish ==
  ASSUME Inv, SeenInv, NEW m \in Msgs, Finish(m)
  PROVE  SeenInv'
<1>1. PICK out \in Outcome(at[m]) :
        /\ \/ at' = [at EXCEPT ![m] = out, ![Head(pending[sid[m]])] = "created"]
           \/ at' = Moved(m, out)
           \/ at' = [k \in Msgs |-> IF k = m THEN out
                                    ELSE IF k \in Range(pending[sid[m]]) THEN "over" ELSE at[k]]
        /\ seen' = [seen EXCEPT ![m] = {}]
        /\ UNCHANGED <<sid, turns>>
  BY DEF Finish, TakeNext
<1>2. /\ out \in {"done", "over"} /\ (out = "done" => at[m] = "consolidating")
      /\ Live(m)
  BY <1>1 DEF Outcome, Live, Running, InTry
<1>3. \A k \in Msgs \ {m} : at'[k] \in {"created", "over"} \/ at'[k] = at[k]
  BY <1>1 DEF Moved, Inv, TypeOK
<1>4. at'[m] \in {"created", "over"} \/ at'[m] = out
  BY <1>1 DEF Moved, Inv, TypeOK
<1>5. \A k \in Msgs \ {m} : seen'[k] = seen[k]
  BY <1>1 DEF Inv, TypeOK
<1>6. \A k \in Msgs \ {m} : at[k] \in Given => sid[k] # sid[m]
  BY <1>2 DEF Inv, LiveRunIsTracked, Live, Given, Running
<1>7. ASSUME NEW k \in Msgs, at'[k] \in Given
      PROVE  k # m /\ at[k] \in Given /\ seen'[k] = seen[k]
  <2>1. k # m
    BY <1>2, <1>4, <1>7 DEF Given, InTry
  <2>2. at'[k] = at[k]
    BY <1>3, <1>7, <2>1 DEF Given, InTry
  <2> QED
    BY <1>5, <1>7, <2>1, <2>2
<1>8. SeesWhatWasAnswered'
  <2>1. SUFFICES ASSUME NEW k \in Msgs, NEW n \in Msgs, at'[k] \in Given,
                        at'[n] = "done", sid'[n] = sid'[k]
                 PROVE  n \in seen'[k]
    BY DEF SeesWhatWasAnswered, Given
  <2>2. at[k] \in Given /\ seen'[k] = seen[k] /\ sid[k] # sid[m]
    BY <1>6, <1>7, <2>1
  <2>3. n # m /\ at[n] = "done"
    BY <1>1, <1>3, <2>1, <2>2
  <2> QED
    BY <1>1, <2>1, <2>2, <2>3 DEF SeenInv, SeesWhatWasAnswered, Given
<1>9. AnsweredIsStored'
  BY <1>1, <1>2, <1>3, <1>4 DEF SeenInv, AnsweredIsStored
<1> QED
  BY <1>8, <1>9 DEF SeenInv

LEMMA SeenStep == Inv /\ SeenInv /\ [Next]_vars => SeenInv'
<1> SUFFICES ASSUME Inv, SeenInv, [Next]_vars
             PROVE  SeenInv'
  OBVIOUS
<1> USE DEF sessionVars, queueVars, memoryVars
<1>1. CASE RestoreReads \/ RestoreApplies \/ Stop \/ PersistOverride \/ UNCHANGED vars
  <2>1. UNCHANGED <<at, sid, turns, seen>>
    BY <1>1 DEF RestoreReads, RestoreApplies, Stop, PersistOverride, vars
  <2> QED
    BY <2>1, SeenStays
<1>2. CASE Start \/ Stopped
  <2>1. /\ \A k \in Msgs : at'[k] \in {at[k], "over"}
        /\ UNCHANGED <<sid, turns, seen>>
    BY <1>2 DEF Start, Stopped, MovedAll
  <2> QED
    BY <2>1, SeenStays DEF Given, InTry
<1>3. CASE Crash
  <2>1. /\ \A k \in Msgs : at'[k] = "over" \/ (at'[k] = at[k] /\ at[k] \notin Given)
        /\ UNCHANGED <<sid, turns>>
    BY <1>3 DEF Crash, MovedAll, Given, Running
  <2> QED
    BY <2>1, SeenStays DEF Given, InTry
<1>4. ASSUME NEW c \in Chats, NEW m \in Msgs, Arrive(m, c) \/ Observe(m, c)
      PROVE  SeenInv'
  <2>1. /\ at[m] = "new" /\ at'[m] \in {"over", "queued", "created", "observing"}
        /\ \A k \in Msgs \ {m} : at'[k] = at[k] /\ sid'[k] = sid[k]
        /\ UNCHANGED <<turns, seen>>
    BY <1>4 DEF Arrive, Observe, Moved, Inv, TypeOK
  <2> QED
    BY <2>1, SeenStays DEF Given, InTry
<1>5. ASSUME NEW m \in Msgs, PersistObserved(m)
      PROVE  SeenInv'
  <2>1. /\ at'[m] = "over" /\ \A k \in Msgs \ {m} : at'[k] = at[k] /\ turns'[k] = turns[k]
        /\ UNCHANGED <<sid, seen>>
    BY <1>5 DEF PersistObserved, Moved, Inv, TypeOK
  <2> QED
    BY <2>1, SeenStays DEF Given, InTry
<1>6. ASSUME NEW c \in Chats, StopCommand(c)
      PROVE  SeenInv'
  <2>1. /\ \A k \in Msgs : at'[k] \in {at[k], "aborting", "cancelling"}
        /\ UNCHANGED <<sid, turns, seen>>
    BY <1>6 DEF StopCommand, RequestStop, ForgetDoneRun, Moved, Inv, TypeOK
  <2> QED
    BY <2>1, SeenStays DEF Given, InTry
<1>7. ASSUME NEW c \in Chats, NewSession(c)
      PROVE  SeenInv'
  <2>1. UNCHANGED <<at, sid, turns, seen>>
    BY <1>7 DEF NewSession
  <2> QED
    BY <2>1, SeenStays
<1>8. ASSUME NEW m \in Msgs, RunStep(m)
      PROVE  SeenInv'
  BY <1>8, SeenAtRunStep, SeenAtFinish
<1> QED
  BY <1>1, <1>2, <1>3, <1>4, <1>5, <1>6, <1>7, <1>8 DEF Next

(* A run is given the turns of every message its session answered before,
   for any number of messages, chats and processes one after the other. *)
THEOREM HistoryIsComplete == Spec => []SeesWhatWasAnswered
<1>1. Init => SeenInv
  BY DEF Init, SeenInv, SeesWhatWasAnswered, AnsweredIsStored, InTry
<1>2. SeenInv => SeesWhatWasAnswered
  BY DEF SeenInv
<1> QED
  BY <1>1, <1>2, SeenStep, Invariance, PTL DEF Spec

----------------------------------------------------------------------------
(* The overrides of /new reach the table in the order they were made: the
   tasks that persist them take write_lock in the order they were created. *)
MintedOnce == \A i, j \in DOMAIN minted : minted[i] = minted[j] => i = j

SavesInOrder ==
  \A k, l \in DOMAIN saves : \A i, j \in DOMAIN minted :
    k < l /\ saves[k][2] = minted[i] /\ saves[l][2] = minted[j] => i < j

SavedIsMinted ==
  \A c \in Chats : saved[c] # NoSession => \E i \in DOMAIN minted : saved[c] = minted[i]

SavesAreMinted ==
  \A k \in DOMAIN saves : \E i \in DOMAIN minted : saves[k][2] = minted[i]

SavedIsOlder ==
  \A c \in Chats : \A k \in DOMAIN saves : \A i, j \in DOMAIN minted :
    saved[c] = minted[i] /\ saves[k][2] = minted[j] => i < j

MintInv == MintedOnce /\ SavesInOrder /\ SavedIsMinted /\ SavesAreMinted /\ SavedIsOlder

LEMMA Appended ==
  ASSUME NEW S, NEW q \in Seq(S), NEW x \in S
  PROVE  /\ DOMAIN Append(q, x) = DOMAIN q \cup {Len(q) + 1}
         /\ \A i \in DOMAIN q : Append(q, x)[i] = q[i] /\ i < Len(q) + 1
         /\ Append(q, x)[Len(q) + 1] = x /\ Len(q) + 1 \notin DOMAIN q
  OBVIOUS

LEMMA MintAtNewSession ==
  ASSUME TypeOK, MintInv, NEW c \in Chats, NewSession(c)
  PROVE  MintInv'
<1>1. PICK n \in NewIds \ Range(minted) : /\ minted' = Append(minted, n)
                                          /\ saves' = Append(saves, <<c, n>>)
                                          /\ saved' = saved
  BY DEF NewSession
<1> DEFINE N == Len(minted) + 1
           K == Len(saves) + 1
<1>2. /\ DOMAIN minted' = DOMAIN minted \cup {N}
      /\ \A i \in DOMAIN minted : minted'[i] = minted[i] /\ i < N
      /\ minted'[N] = n /\ N \notin DOMAIN minted
  BY <1>1, Appended DEF TypeOK
<1>3. <<c, n>> \in Chats \X NewIds
  OBVIOUS
<1>4. /\ DOMAIN saves' = DOMAIN saves \cup {K}
      /\ \A k \in DOMAIN saves : saves'[k] = saves[k] /\ k < K
      /\ saves'[K] = <<c, n>> /\ K \notin DOMAIN saves
  BY <1>1, <1>3, Appended DEF TypeOK
<1>5. /\ DOMAIN minted \subseteq Nat /\ DOMAIN saves \subseteq Nat
      /\ N \in Nat /\ K \in Nat
  BY DEF TypeOK
<1>6. \A i \in DOMAIN minted : minted[i] # n
  BY DEF Range
<1>7. saves'[K][2] = n
  BY <1>4
<1> HIDE DEF N, K
<1>8. MintedOnce'
  BY <1>2, <1>6 DEF MintInv, MintedOnce
<1>9. \A k \in DOMAIN saves : saves'[k][2] # n
  BY <1>4, <1>6 DEF MintInv, SavesAreMinted
<1>10. SavesInOrder'
  <2>1. SUFFICES ASSUME NEW k \in DOMAIN saves', NEW l \in DOMAIN saves',
                        NEW i \in DOMAIN minted', NEW j \in DOMAIN minted',
                        k < l, saves'[k][2] = minted'[i], saves'[l][2] = minted'[j]
                 PROVE  i < j
    BY DEF SavesInOrder
  <2>2. k \in DOMAIN saves
    BY <1>4, <1>5, <2>1
  <2>3. i \in DOMAIN minted
    BY <1>2, <1>9, <2>1, <2>2
  <2>4. CASE l = K
    <3>1. j = N
      BY <1>2, <1>6, <1>7, <2>1, <2>4
    <3> QED
      BY <1>2, <2>3, <3>1
  <2>5. CASE l # K
    <3>1. l \in DOMAIN saves /\ j \in DOMAIN minted
      BY <1>2, <1>4, <1>9, <2>1, <2>5
    <3> QED
      BY <1>2, <1>4, <2>1, <2>2, <2>3, <3>1 DEF MintInv, SavesInOrder
  <2> QED
    BY <2>4, <2>5
<1>11. SavedIsMinted' /\ SavesAreMinted'
  <2>1. SavedIsMinted'
    BY <1>1, <1>2 DEF MintInv, SavedIsMinted
  <2>2. ASSUME NEW k \in DOMAIN saves'
        PROVE  \E i \in DOMAIN minted' : saves'[k][2] = minted'[i]
    <3>1. CASE k = K
      BY <1>2, <1>7, <3>1
    <3>2. CASE k \in DOMAIN saves
      BY <1>2, <1>4, <3>2 DEF MintInv, SavesAreMinted
    <3> QED
      BY <1>4, <3>1, <3>2
  <2> QED
    BY <2>1, <2>2 DEF SavesAreMinted
<1>12. SavedIsOlder'
  <2>1. SUFFICES ASSUME NEW d \in Chats, NEW k \in DOMAIN saves',
                        NEW i \in DOMAIN minted', NEW j \in DOMAIN minted',
                        saved[d] = minted'[i], saves'[k][2] = minted'[j]
                 PROVE  i < j
    BY <1>1 DEF SavedIsOlder
  <2>2. saved[d] # n
    BY <1>6, ConstantsAssumption DEF MintInv, SavedIsMinted
  <2>3. i \in DOMAIN minted
    BY <1>2, <2>1, <2>2
  <2>4. CASE k = K
    <3>1. j = N
      BY <1>2, <1>6, <1>7, <2>1, <2>4
    <3> QED
      BY <1>2, <2>3, <3>1
  <2>5. CASE k # K
    <3>1. k \in DOMAIN saves /\ j \in DOMAIN minted
      BY <1>2, <1>4, <1>9, <2>1, <2>5
    <3> QED
      BY <1>2, <1>4, <2>1, <2>3, <3>1 DEF MintInv, SavedIsOlder
  <2> QED
    BY <2>4, <2>5
<1> QED
  BY <1>8, <1>10, <1>11, <1>12 DEF MintInv

(* The save that is written is the first, and no older than what the table
   holds; the saves behind it are younger. *)
LEMMA MintAtPersist ==
  ASSUME TypeOK, MintInv, PersistOverride
  PROVE  /\ MintInv'
         /\ \A c \in Chats : \A i, j \in DOMAIN minted :
              saved[c] = minted[i] /\ saved'[c] = minted[j] => i <= j
<1> DEFINE s == Head(saves)
<1>1. /\ saves # <<>> /\ saves' = Tail(saves) /\ minted' = minted
      /\ saved' = saved \/ saved' = [saved EXCEPT ![s[1]] = s[2]]
  BY DEF PersistOverride, NextSave
<1>2. /\ s \in Chats \X NewIds /\ s = saves[1] /\ 1 \in DOMAIN saves
      /\ \A k \in DOMAIN saves' : k + 1 \in DOMAIN saves /\ saves'[k] = saves[k + 1]
      /\ saves' \in Seq(Chats \X NewIds)
  BY <1>1, TakeType DEF TypeOK
<1>3. /\ DOMAIN minted \subseteq Nat /\ DOMAIN saves' \subseteq Nat \ {0}
      /\ \A k \in DOMAIN saves' : 1 < k + 1
  BY <1>2 DEF TypeOK
<1>4. \A c \in Chats : saved'[c] = saved[c] \/ saved'[c] = saves[1][2]
  BY <1>1, <1>2 DEF TypeOK
<1> HIDE DEF s
<1>5. SavesInOrder'
  <2>1. SUFFICES ASSUME NEW k \in DOMAIN saves', NEW l \in DOMAIN saves',
                        NEW i \in DOMAIN minted, NEW j \in DOMAIN minted,
                        k < l, saves'[k][2] = minted[i], saves'[l][2] = minted[j]
                 PROVE  i < j
    BY <1>1 DEF SavesInOrder
  <2>2. k + 1 < l + 1
    BY <1>3, <2>1
  <2> QED
    BY <1>2, <2>1, <2>2 DEF MintInv, SavesInOrder
<1>6. SavedIsMinted' /\ SavesAreMinted' /\ MintedOnce'
  BY <1>1, <1>2, <1>4 DEF MintInv, SavedIsMinted, SavesAreMinted, MintedOnce
<1>7. MintedOnce /\ SavesInOrder /\ SavedIsMinted /\ SavesAreMinted /\ SavedIsOlder
  BY DEF MintInv
<1>8. SavedIsOlder'
  <2>1. SUFFICES ASSUME NEW c \in Chats, NEW k \in DOMAIN saves',
                        NEW i \in DOMAIN minted, NEW j \in DOMAIN minted,
                        saved'[c] = minted[i], saves'[k][2] = minted[j]
                 PROVE  i < j
    BY <1>1 DEF SavedIsOlder
  <2>2. k + 1 \in DOMAIN saves /\ saves[k + 1][2] = minted[j] /\ 1 < k + 1
    BY <1>2, <1>3, <2>1
  <2>3. CASE saved'[c] = saved[c]
    BY <1>7, <2>1, <2>2, <2>3 DEF SavedIsOlder
  <2>4. CASE saved'[c] = saves[1][2]
    BY <1>2, <1>7, <2>1, <2>2, <2>4 DEF SavesInOrder
  <2> QED
    BY <1>4, <2>3, <2>4
<1>9. ASSUME NEW c \in Chats, NEW i \in DOMAIN minted, NEW j \in DOMAIN minted,
             saved[c] = minted[i], saved'[c] = minted[j]
      PROVE  i <= j
  <2>1. i \in Nat /\ j \in Nat
    BY <1>3
  <2>2. CASE saved'[c] = saved[c]
    <3>1. i = j
      BY <1>7, <1>9, <2>2 DEF MintedOnce
    <3> QED
      BY <2>1, <3>1
  <2>3. CASE saved'[c] = saves[1][2]
    <3>1. saves[1][2] = minted[j]
      BY <1>9, <2>3
    <3>2. i < j
      BY <1>2, <1>7, <1>9, <3>1 DEF SavedIsOlder
    <3> QED
      BY <2>1, <3>2
  <2> QED
    BY <1>4, <2>2, <2>3
<1> QED
  BY <1>5, <1>6, <1>8, <1>9 DEF MintInv

(* A step that saves nothing and makes no session; Start and Crash forget
   the saves under way. *)
LEMMA MintStays ==
  ASSUME MintInv, saves' = saves \/ saves' = <<>>, UNCHANGED <<saved, minted>>
  PROVE  MintInv'
<1>1. DOMAIN saves' \subseteq DOMAIN saves /\ \A k \in DOMAIN saves' : saves'[k] = saves[k]
  OBVIOUS
<1> QED
  BY <1>1 DEF MintInv, MintedOnce, SavesInOrder, SavedIsMinted, SavesAreMinted, SavedIsOlder

LEMMA MintStep ==
  ASSUME TypeOK, MintInv, [Next]_vars
  PROVE  /\ MintInv'
         /\ \A c \in Chats : \A i, j \in DOMAIN minted :
              saved[c] = minted[i] /\ saved'[c] = minted[j] => i <= j
<1>1. CASE PersistOverride
  BY <1>1, MintAtPersist
<1>2. ASSUME \A c \in Chats : \A i, j \in DOMAIN minted :
               saved[c] = minted[i] /\ saved'[c] = minted[j] => i = j
      PROVE  \A c \in Chats : \A i, j \in DOMAIN minted :
               saved[c] = minted[i] /\ saved'[c] = minted[j] => i <= j
  BY <1>2 DEF TypeOK
<1>3. saved' = saved => \A c \in Chats : \A i, j \in DOMAIN minted :
                          saved[c] = minted[i] /\ saved'[c] = minted[j] => i = j
  BY DEF MintInv, MintedOnce
<1>4. ASSUME NEW c \in Chats, NewSession(c)
      PROVE  MintInv' /\ saved' = saved
  BY <1>4, MintAtNewSession DEF NewSession
<1>5. CASE ~PersistOverride /\ ~ \E c \in Chats : NewSession(c)
  <2>1. (saves' = saves \/ saves' = <<>>) /\ UNCHANGED <<saved, minted>>
    BY <1>5 DEF Next, vars, sessionVars, Start, RestoreReads, RestoreApplies, Stop, Stopped,
       Crash, StopCommand, Arrive, Observe, PersistObserved, RunStep, RunUnchanged, EnterTry,
       LoadHistory, AgentReplies, SaveUserTurn, SaveAssistantTurn, RunRaises, Finish,
       DieUnfinished
  <2> QED
    BY <1>2, <1>3, <2>1, MintStays
<1> QED
  BY <1>1, <1>2, <1>3, <1>4, <1>5

(* The table never goes back to a session a chat has left: the tasks nobody
   awaits write in the order of the /new commands, in one process. *)
THEOREM SwitchesStayInOrder == Spec => SwitchesAreSavedInOrder
<1>1. Init => MintInv
  BY DEF Init, MintInv, MintedOnce, SavesInOrder, SavedIsMinted, SavesAreMinted, SavedIsOlder
<1>2. TypeOK /\ MintInv /\ [Next]_vars => MintInv'
  BY MintStep
<1>3. TypeOK /\ MintInv /\ [Next]_vars =>
        [\A c \in Chats : \A i, j \in DOMAIN minted :
           saved[c] = minted[i] /\ saved'[c] = minted[j] => i <= j]_vars
  BY MintStep
<1> QED
  BY <1>1, <1>2, <1>3, TypeCorrect, PTL DEF Spec, SwitchesAreSavedInOrder
=============================================================================

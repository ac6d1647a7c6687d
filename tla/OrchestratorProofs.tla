------------------------- MODULE OrchestratorProofs -------------------------
(***************************************************************************)
(* Theorems about Orchestrator, for any number of tasks, sessions, runs    *)
(* and slots.  Every action but Restart touches one task, and all that the *)
(* four safety properties need but the count of children relates pieces of *)
(* state of one task: IInv is an invariant per task, and bounds on what a   *)
(* run and a session have queued, running or about to be registered.       *)
(***************************************************************************)
EXTENDS Orchestrator, TLAPS, FiniteSetTheorems

(* What a task has where its coroutine is. *)
PlaceInv(k) ==
  /\ pc[k] = "none" => ledger[k] = "none" /\ reg[k] = "none" /\ stop[k] = "none"
  /\ pc[k] = "creating" => reg[k] = "none"
  /\ pc[k] = "created" => reg[k] = "queued"
  /\ pc[k] \in Alive => reg[k] # "none"
  /\ pc[k] \in {"recording", "delivering"} \cup Handlers => out[k] \in Terminal
  /\ cancel[k] => pc[k] \in Alive

(* A run that will write nothing but "cancelled" any more. *)
Doomed(k) ==
  \/ pc[k] \in Gone
  \/ pc[k] = "running" /\ cancel[k]
  \/ pc[k] \in Handlers /\ out[k] = "cancelled"

(* What a stop_task knows of the run whose row it is about to write. *)
StopInv(k) ==
  /\ stop[k] = "early" => k \in troubled
  /\ stop[k] = "unseen" => pc[k] \in Gone /\ reg[k] = "none"
  /\ stop[k] = "recording" => Doomed(k) \/ cancel[k]
  /\ k \in stopped => Doomed(k) /\ ledger[k] = "cancelled"

(* Whoever has left the try is no longer registered; whoever never entered it
   loses its slot to the stop that finishes on it. *)
SlotInv(k) ==
  /\ pc[k] \in {"ended", "cancelled", "raised", "lost"} => reg[k] = "none"
  /\ pc[k] = "dropped" /\ k \in stopped => ~Active(k)

(* A run that has not been cancelled since it started to record. *)
Unhurt(k) == pc[k] \in Handlers => out[k] # "cancelled"

(* What has been told, and what is recorded, on the way to the end. *)
ToldInv(k) ==
  k \notin stopped \cup troubled =>
    /\ pc[k] \notin Gone /\ Unhurt(k) => told[k] \in {"none", "unsure"}
    /\ pc[k] \in {"delivering", "reporting"} /\ Unhurt(k) => ledger[k] = out[k]
    /\ pc[k] = "ended" => told[k] = ledger[k]

TaskInv(k) == PlaceInv(k) /\ StopInv(k) /\ SlotInv(k) /\ ToldInv(k)

Children(r) == {k \in Tasks : parent[k] = r /\ Active(k)}

(* The children a run and a session are charged with: those that are counted,
   and those that have passed the check and are not registered yet. *)
RunCharge(r) == Children(r) \cup Spawning(r)

SpawningIn(s) == {k \in Tasks : parent[k] \in RunsOf(s) /\ pc[k] = "creating"}

Charged(s) == ActiveChildren(s) \cup SpawningIn(s)

OneSpawnARun ==
  \A j, k \in Tasks : pc[j] = "creating" /\ pc[k] = "creating" /\ parent[j] = parent[k] => j = k

ChildInv ==
  /\ OneSpawnARun
  /\ \A k \in Tasks : pc[k] # "none" => parent[k] \in Runs
  /\ \A r \in Runs : Cardinality(RunCharge(r)) <= MaxChildren
  /\ \A s \in Sessions : RunsOf(s) # {} =>
       Cardinality(Charged(s)) < MaxChildren + Cardinality(RunsOf(s))

IInv == TypeOK /\ (\A k \in Tasks : TaskInv(k)) /\ ChildInv

(* Everything about task j is as it was. *)
Same(j) ==
  /\ parent'[j] = parent[j] /\ ledger'[j] = ledger[j] /\ reg'[j] = reg[j]
  /\ pc'[j] = pc[j] /\ out'[j] = out[j] /\ cancel'[j] = cancel[j]
  /\ told'[j] = told[j] /\ stop'[j] = stop[j]
  /\ (j \in stopped') = (j \in stopped) /\ (j \in troubled') = (j \in troubled)

OthersStay(k) == \A j \in Tasks \ {k} : Same(j)

(* Task k is charged to its session only if it was before. *)
NoNewCharge(k) ==
  /\ parent' = parent
  /\ pc'[k] = "creating" => pc[k] = "creating"
  /\ pc[k] = "none" => pc'[k] = "none"
  /\ reg'[k] \in {"queued", "running"}
       => reg[k] \in {"queued", "running"} \/ pc[k] = "creating"

LEMMA TaskStays ==
  ASSUME NEW j \in Tasks, Same(j), TaskInv(j)
  PROVE  TaskInv(j)'
BY DEF Same, TaskInv, PlaceInv, Doomed, StopInv, SlotInv, Active, Unhurt, ToldInv

LEMMA FlagSet ==
  ASSUME NEW c \in [Tasks -> BOOLEAN], NEW k \in Tasks, NEW b \in BOOLEAN
  PROVE  [c EXCEPT ![k] = b] \in [Tasks -> BOOLEAN]
OBVIOUS

LEMMA ValueSet ==
  ASSUME NEW S, NEW f \in [Tasks -> S], NEW k \in Tasks, NEW v \in S
  PROVE  [f EXCEPT ![k] = v] \in [Tasks -> S]
OBVIOUS

LEMMA CreateRowStep ==
  ASSUME TypeOK, NEW k \in Tasks, TaskInv(k), CreateRow(k)
  PROVE  TypeOK' /\ TaskInv(k)' /\ OthersStay(k) /\ NoNewCharge(k)
<1> USE DEF CreateRow, Goto, Registry, Ledger, Trouble, Proceeds, Terminal, Status, InTry, Handlers, Alive, Gone, Active
<1>1. TypeOK'
  BY DEF TypeOK
<1>2. PlaceInv(k)'
  BY DEF TypeOK, TaskInv, PlaceInv, StopInv, Doomed
<1>3. StopInv(k)'
  BY DEF TypeOK, TaskInv, PlaceInv, StopInv, Doomed
<1>4. SlotInv(k)'
  BY DEF TypeOK, TaskInv, PlaceInv, StopInv, SlotInv, Doomed
<1>5. ToldInv(k)'
  BY SMT DEF TypeOK, TaskInv, PlaceInv, StopInv, ToldInv, Unhurt
<1>6. OthersStay(k)
  BY DEF TypeOK, OthersStay, Same
<1>7. NoNewCharge(k)
  BY DEF TypeOK, TaskInv, PlaceInv, StopInv, Doomed, NoNewCharge
<1>8. QED
  BY <1>1, <1>2, <1>3, <1>4, <1>5, <1>6, <1>7 DEF TaskInv

LEMMA RegisterStep ==
  ASSUME TypeOK, NEW k \in Tasks, TaskInv(k), Register(k)
  PROVE  TypeOK' /\ TaskInv(k)' /\ OthersStay(k) /\ NoNewCharge(k)
<1> USE DEF Register, Goto, Registry, Ledger, Trouble, Proceeds, Terminal, Status, InTry, Handlers, Alive, Gone, Active
<1>1. TypeOK'
  BY DEF TypeOK
<1>2. PlaceInv(k)'
  BY DEF TypeOK, TaskInv, PlaceInv, StopInv, Doomed
<1>3. StopInv(k)'
  BY DEF TypeOK, TaskInv, PlaceInv, StopInv, Doomed
<1>4. SlotInv(k)'
  BY DEF TypeOK, TaskInv, PlaceInv, StopInv, SlotInv, Doomed
<1>5. ToldInv(k)'
  BY SMT DEF TypeOK, TaskInv, PlaceInv, StopInv, ToldInv, Unhurt
<1>6. OthersStay(k)
  BY DEF TypeOK, OthersStay, Same
<1>7. NoNewCharge(k)
  BY DEF TypeOK, TaskInv, PlaceInv, StopInv, Doomed, NoNewCharge
<1>8. QED
  BY <1>1, <1>2, <1>3, <1>4, <1>5, <1>6, <1>7 DEF TaskInv

LEMMA SpawnAbandonedStep ==
  ASSUME TypeOK, NEW k \in Tasks, TaskInv(k), SpawnAbandoned(k)
  PROVE  TypeOK' /\ TaskInv(k)' /\ OthersStay(k) /\ NoNewCharge(k)
<1> USE DEF SpawnAbandoned, Goto, Registry, Ledger, Trouble, Proceeds, Terminal, Status, InTry, Handlers, Alive, Gone, Active
<1>1. TypeOK'
  BY DEF TypeOK
<1>2. PlaceInv(k)'
  BY DEF TypeOK, TaskInv, PlaceInv, StopInv, Doomed
<1>3. StopInv(k)'
  BY DEF TypeOK, TaskInv, PlaceInv, StopInv, Doomed
<1>4. SlotInv(k)'
  BY DEF TypeOK, TaskInv, PlaceInv, StopInv, SlotInv, Doomed
<1>5. ToldInv(k)'
  BY SMT DEF TypeOK, TaskInv, PlaceInv, StopInv, ToldInv, Unhurt
<1>6. OthersStay(k)
  BY DEF TypeOK, OthersStay, Same
<1>7. NoNewCharge(k)
  BY DEF TypeOK, TaskInv, PlaceInv, StopInv, Doomed, NoNewCharge
<1>8. QED
  BY <1>1, <1>2, <1>3, <1>4, <1>5, <1>6, <1>7 DEF TaskInv

LEMMA AcquireStep ==
  ASSUME TypeOK, NEW k \in Tasks, TaskInv(k), Acquire(k)
  PROVE  TypeOK' /\ TaskInv(k)' /\ OthersStay(k) /\ NoNewCharge(k)
<1> USE DEF Acquire, Goto, Registry, Ledger, Trouble, Proceeds, Terminal, Status, InTry, Handlers, Alive, Gone, Active
<1>1. TypeOK'
  BY DEF TypeOK
<1>2. PlaceInv(k)'
  BY DEF TypeOK, TaskInv, PlaceInv, StopInv, Doomed
<1>3. StopInv(k)'
  BY DEF TypeOK, TaskInv, PlaceInv, StopInv, Doomed
<1>4. SlotInv(k)'
  BY DEF TypeOK, TaskInv, PlaceInv, StopInv, SlotInv, Doomed
<1>5. ToldInv(k)'
  BY SMT DEF TypeOK, TaskInv, PlaceInv, StopInv, ToldInv, Unhurt
<1>6. OthersStay(k)
  BY DEF TypeOK, OthersStay, Same
<1>7. NoNewCharge(k)
  BY DEF TypeOK, TaskInv, PlaceInv, StopInv, Doomed, NoNewCharge
<1>8. QED
  BY <1>1, <1>2, <1>3, <1>4, <1>5, <1>6, <1>7 DEF TaskInv

LEMMA RecordRunningStep ==
  ASSUME TypeOK, NEW k \in Tasks, TaskInv(k), RecordRunning(k)
  PROVE  TypeOK' /\ TaskInv(k)' /\ OthersStay(k) /\ NoNewCharge(k)
<1> USE DEF RecordRunning, Goto, Registry, Ledger, Trouble, Proceeds, Terminal, Status, InTry, Handlers, Alive, Gone, Active
<1>1. TypeOK'
  BY DEF TypeOK
<1>2. PlaceInv(k)'
  BY DEF TypeOK, TaskInv, PlaceInv, StopInv, Doomed
<1>3. StopInv(k)'
  BY DEF TypeOK, TaskInv, PlaceInv, StopInv, Doomed
<1>4. SlotInv(k)'
  BY DEF TypeOK, TaskInv, PlaceInv, StopInv, SlotInv, Doomed
<1>5. ToldInv(k)'
  BY SMT DEF TypeOK, TaskInv, PlaceInv, StopInv, ToldInv, Unhurt
<1>6. OthersStay(k)
  BY DEF TypeOK, OthersStay, Same
<1>7. NoNewCharge(k)
  BY DEF TypeOK, TaskInv, PlaceInv, StopInv, Doomed, NoNewCharge
<1>8. QED
  BY <1>1, <1>2, <1>3, <1>4, <1>5, <1>6, <1>7 DEF TaskInv

LEMMA RecordRunningRaisesStep ==
  ASSUME TypeOK, NEW k \in Tasks, TaskInv(k), RecordRunningRaises(k)
  PROVE  TypeOK' /\ TaskInv(k)' /\ OthersStay(k) /\ NoNewCharge(k)
<1> USE DEF RecordRunningRaises, Goto, Registry, Ledger, Trouble, Proceeds, WriteUnderWay, Terminal, Status, InTry, Handlers, Alive, Gone, Active
<1>1. TypeOK'
  BY DEF TypeOK
<1>2. PlaceInv(k)'
  BY DEF TypeOK, TaskInv, PlaceInv, StopInv, Doomed
<1>3. StopInv(k)'
  BY DEF TypeOK, TaskInv, PlaceInv, StopInv, Doomed
<1>4. SlotInv(k)'
  BY DEF TypeOK, TaskInv, PlaceInv, StopInv, SlotInv, Doomed
<1>5. ToldInv(k)'
  BY SMT DEF TypeOK, TaskInv, PlaceInv, StopInv, ToldInv, Unhurt
<1>6. OthersStay(k)
  BY DEF TypeOK, OthersStay, Same
<1>7. NoNewCharge(k)
  BY DEF TypeOK, TaskInv, PlaceInv, StopInv, Doomed, NoNewCharge
<1>8. QED
  BY <1>1, <1>2, <1>3, <1>4, <1>5, <1>6, <1>7 DEF TaskInv

LEMMA ReturnsStep ==
  ASSUME TypeOK, NEW k \in Tasks, TaskInv(k), Returns(k)
  PROVE  TypeOK' /\ TaskInv(k)' /\ OthersStay(k) /\ NoNewCharge(k)
<1> USE DEF Returns, Goto, Registry, Ledger, Trouble, Proceeds, Terminal, Status, InTry, Handlers, Alive, Gone, Active
<1>1. TypeOK'
  BY DEF TypeOK
<1>2. PlaceInv(k)'
  BY DEF TypeOK, TaskInv, PlaceInv, StopInv, Doomed
<1>3. StopInv(k)'
  BY DEF TypeOK, TaskInv, PlaceInv, StopInv, Doomed
<1>4. SlotInv(k)'
  BY DEF TypeOK, TaskInv, PlaceInv, StopInv, SlotInv, Doomed
<1>5. ToldInv(k)'
  BY SMT DEF TypeOK, TaskInv, PlaceInv, StopInv, ToldInv, Unhurt
<1>6. OthersStay(k)
  BY DEF TypeOK, OthersStay, Same
<1>7. NoNewCharge(k)
  BY DEF TypeOK, TaskInv, PlaceInv, StopInv, Doomed, NoNewCharge
<1>8. QED
  BY <1>1, <1>2, <1>3, <1>4, <1>5, <1>6, <1>7 DEF TaskInv

LEMMA RaisesStep ==
  ASSUME TypeOK, NEW k \in Tasks, TaskInv(k), Raises(k)
  PROVE  TypeOK' /\ TaskInv(k)' /\ OthersStay(k) /\ NoNewCharge(k)
<1> USE DEF Raises, Goto, Registry, Ledger, Trouble, Proceeds, Terminal, Status, InTry, Handlers, Alive, Gone, Active
<1>1. TypeOK'
  BY DEF TypeOK
<1>2. PlaceInv(k)'
  BY DEF TypeOK, TaskInv, PlaceInv, StopInv, Doomed
<1>3. StopInv(k)'
  BY DEF TypeOK, TaskInv, PlaceInv, StopInv, Doomed
<1>4. SlotInv(k)'
  BY DEF TypeOK, TaskInv, PlaceInv, StopInv, SlotInv, Doomed
<1>5. ToldInv(k)'
  BY SMT DEF TypeOK, TaskInv, PlaceInv, StopInv, ToldInv, Unhurt
<1>6. OthersStay(k)
  BY DEF TypeOK, OthersStay, Same
<1>7. NoNewCharge(k)
  BY DEF TypeOK, TaskInv, PlaceInv, StopInv, Doomed, NoNewCharge
<1>8. QED
  BY <1>1, <1>2, <1>3, <1>4, <1>5, <1>6, <1>7 DEF TaskInv

LEMMA RecordOutcomeStep ==
  ASSUME TypeOK, NEW k \in Tasks, TaskInv(k), RecordOutcome(k)
  PROVE  TypeOK' /\ TaskInv(k)' /\ OthersStay(k) /\ NoNewCharge(k)
<1> USE DEF RecordOutcome, Goto, Registry, Ledger, Trouble, Proceeds, Terminal, Status, InTry, Handlers, Alive, Gone, Active
<1>1. TypeOK'
  BY DEF TypeOK
<1>2. PlaceInv(k)'
  BY DEF TypeOK, TaskInv, PlaceInv, StopInv, Doomed
<1>3. StopInv(k)'
  BY DEF TypeOK, TaskInv, PlaceInv, StopInv, Doomed
<1>4. SlotInv(k)'
  BY DEF TypeOK, TaskInv, PlaceInv, StopInv, SlotInv, Doomed
<1>5. ToldInv(k)'
  BY SMT DEF TypeOK, TaskInv, PlaceInv, StopInv, ToldInv, Unhurt
<1>6. OthersStay(k)
  BY DEF TypeOK, OthersStay, Same
<1>7. NoNewCharge(k)
  BY DEF TypeOK, TaskInv, PlaceInv, StopInv, Doomed, NoNewCharge
<1>8. QED
  BY <1>1, <1>2, <1>3, <1>4, <1>5, <1>6, <1>7 DEF TaskInv

LEMMA DeliverStep ==
  ASSUME TypeOK, NEW k \in Tasks, TaskInv(k), Deliver(k)
  PROVE  TypeOK' /\ TaskInv(k)' /\ OthersStay(k) /\ NoNewCharge(k)
<1> USE DEF Deliver, Goto, Registry, Ledger, Trouble, Proceeds, Told, Ending, Terminal, Status, InTry, Handlers, Alive, Gone, Active
<1>1. TypeOK'
  <2>1. told' \in [Tasks -> Terminal \cup {"none", "unsure", "twice"}]
    BY DEF TypeOK, TaskInv, PlaceInv
  <2>2. (parent' = parent) /\ ledger' \in [Tasks -> Status \cup {"none"}]
    BY DEF TypeOK
  <2>3. (reg' \in [Tasks -> Status \cup {"none"}]) /\ out' \in [Tasks -> Terminal \cup {"none"}]
    BY DEF TypeOK
  <2>4. pc' \in [Tasks -> {"none", "creating"} \cup Alive \cup Gone]
    BY DEF TypeOK
  <2>5. (cancel' \in [Tasks -> BOOLEAN]) /\ (stop' = stop) /\ (wait' = wait)
    BY DEF TypeOK
  <2>6. (stopped' = stopped) /\ (troubled' \subseteq Tasks)
    BY DEF TypeOK
  <2>7. QED
    BY <2>1, <2>2, <2>3, <2>4, <2>5, <2>6 DEF TypeOK
<1>2. PlaceInv(k)'
  BY DEF TypeOK, TaskInv, PlaceInv, StopInv, Doomed
<1>3. StopInv(k)'
  BY DEF TypeOK, TaskInv, PlaceInv, StopInv, Doomed
<1>4. SlotInv(k)'
  BY DEF TypeOK, TaskInv, PlaceInv, StopInv, SlotInv, Doomed
<1>5. ToldInv(k)'
  <2>1. SUFFICES ASSUME k \notin stopped \cup troubled, pc[k] \notin Handlers \/ out[k] # "cancelled"
                 PROVE  told'[k] = ledger'[k]
    BY SMT DEF TypeOK, ToldInv, Unhurt
  <2>2. told[k] \in {"none", "unsure"} /\ ledger[k] = out[k]
    BY <2>1 DEF TaskInv, ToldInv, Unhurt
  <2>3. told'[k] = out[k] /\ ledger'[k] = ledger[k]
    BY <2>2 DEF TypeOK
  <2>4. QED
    BY <2>2, <2>3
<1>6. OthersStay(k)
  BY DEF TypeOK, OthersStay, Same
<1>7. NoNewCharge(k)
  BY DEF TypeOK, TaskInv, PlaceInv, StopInv, Doomed, NoNewCharge
<1>8. QED
  BY <1>1, <1>2, <1>3, <1>4, <1>5, <1>6, <1>7 DEF TaskInv

LEMMA WriteRaisesStep ==
  ASSUME TypeOK, NEW k \in Tasks, TaskInv(k), WriteRaises(k)
  PROVE  TypeOK' /\ TaskInv(k)' /\ OthersStay(k) /\ NoNewCharge(k)
<1> USE DEF WriteRaises, Goto, Registry, Ledger, Trouble, Proceeds, WriteUnderWay, Terminal, Status, InTry, Handlers, Alive, Gone, Active
<1>1. TypeOK'
  <2>1. told' \in [Tasks -> Terminal \cup {"none", "unsure", "twice"}]
    BY DEF TypeOK, TaskInv, PlaceInv
  <2>2. (parent' = parent) /\ ledger' \in [Tasks -> Status \cup {"none"}]
    BY DEF TypeOK
  <2>3. (reg' \in [Tasks -> Status \cup {"none"}]) /\ out' \in [Tasks -> Terminal \cup {"none"}]
    BY ZenonT(40) DEF TypeOK
  <2>4. pc' \in [Tasks -> {"none", "creating"} \cup Alive \cup Gone]
    <3>1. pc' = [pc EXCEPT ![k] = "handling"] \/ pc' = [pc EXCEPT ![k] = "raised"]
      OBVIOUS
    <3>2. pc \in [Tasks -> {"none", "creating"} \cup Alive \cup Gone]
      BY DEF TypeOK
    <3>3. QED
      BY <3>1, <3>2
  <2>5. (cancel' \in [Tasks -> BOOLEAN]) /\ (stop' = stop) /\ (wait' = wait)
    BY DEF TypeOK
  <2>6. (stopped' = stopped) /\ (troubled' \subseteq Tasks)
    BY DEF TypeOK
  <2>7. QED
    BY <2>1, <2>2, <2>3, <2>4, <2>5, <2>6 DEF TypeOK
<1>2. PlaceInv(k)'
  BY DEF TypeOK, TaskInv, PlaceInv, StopInv, Doomed
<1>3. StopInv(k)'
  BY DEF TypeOK, TaskInv, PlaceInv, StopInv, Doomed
<1>4. SlotInv(k)'
  BY DEF TypeOK, TaskInv, PlaceInv, StopInv, SlotInv, Doomed
<1>5. ToldInv(k)'
  BY SMT DEF TypeOK, TaskInv, PlaceInv, StopInv, ToldInv, Unhurt
<1>6. OthersStay(k)
  BY DEF TypeOK, OthersStay, Same
<1>7. NoNewCharge(k)
  BY DEF TypeOK, TaskInv, PlaceInv, StopInv, Doomed, NoNewCharge
<1>8. QED
  BY <1>1, <1>2, <1>3, <1>4, <1>5, <1>6, <1>7 DEF TaskInv

LEMMA CancelledStep ==
  ASSUME TypeOK, NEW k \in Tasks, TaskInv(k), Cancelled(k)
  PROVE  TypeOK' /\ TaskInv(k)' /\ OthersStay(k) /\ NoNewCharge(k)
<1> USE DEF Cancelled, Goto, Registry, Ledger, Trouble, Proceeds, WriteUnderWay, Told, Terminal, Status, InTry, Handlers, Alive, Gone, Active
<1>1. TypeOK'
  <2>1. told' \in [Tasks -> Terminal \cup {"none", "unsure", "twice"}]
    BY DEF TypeOK
  <2>2. (parent' = parent) /\ ledger' \in [Tasks -> Status \cup {"none"}]
    BY ZenonT(40) DEF TypeOK
  <2>3. (reg' \in [Tasks -> Status \cup {"none"}]) /\ out' \in [Tasks -> Terminal \cup {"none"}]
    <3>1. \/ reg' = reg /\ out' = out
          \/ reg' = [reg EXCEPT ![k] = "cancelled"] /\ out' = [out EXCEPT ![k] = "cancelled"]
          \/ reg' = [reg EXCEPT ![k] = "none"] /\ out' = [out EXCEPT ![k] = "none"]
      BY Zenon
    <3>2. (reg \in [Tasks -> Status \cup {"none"}]) /\ out \in [Tasks -> Terminal \cup {"none"}]
      BY DEF TypeOK
    <3>3. {"cancelled", "none"} \subseteq (Status \cup {"none"}) \cap (Terminal \cup {"none"})
      OBVIOUS
    <3> HIDE DEF Cancelled, Registry, Status, Terminal, Goto, Alive, Gone
    <3>4. QED
      BY <3>1, <3>2, <3>3, ValueSet
  <2>4. pc' \in [Tasks -> {"none", "creating"} \cup Alive \cup Gone]
    <3>1. \/ pc' = [pc EXCEPT ![k] = "dropped"]
          \/ pc' = [pc EXCEPT ![k] = "handling"]
          \/ pc' = [pc EXCEPT ![k] = "cancelled"]
      BY Zenon
    <3>2. pc \in [Tasks -> {"none", "creating"} \cup Alive \cup Gone]
      BY DEF TypeOK
    <3>3. {"dropped", "handling", "cancelled"} \subseteq {"none", "creating"} \cup Alive \cup Gone
      OBVIOUS
    <3> HIDE DEF Cancelled, Registry, Status, Terminal, Goto, Alive, Gone
    <3>4. QED
      BY <3>1, <3>2, <3>3, ValueSet
  <2>5. (cancel' \in [Tasks -> BOOLEAN]) /\ (stop' = stop) /\ (wait' = wait)
    BY DEF TypeOK
  <2>6. (stopped' = stopped) /\ (troubled' \subseteq Tasks)
    BY DEF TypeOK
  <2>7. QED
    BY <2>1, <2>2, <2>3, <2>4, <2>5, <2>6 DEF TypeOK
<1>2. PlaceInv(k)'
  BY DEF TypeOK, TaskInv, PlaceInv, StopInv, Doomed
<1>3. StopInv(k)'
  BY DEF TypeOK, TaskInv, PlaceInv, StopInv, Doomed
<1>4. SlotInv(k)'
  BY DEF TypeOK, TaskInv, PlaceInv, StopInv, SlotInv, Doomed
<1>5. ToldInv(k)'
  BY SMT DEF TypeOK, TaskInv, PlaceInv, StopInv, ToldInv, Unhurt
<1>6. OthersStay(k)
  BY DEF TypeOK, OthersStay, Same
<1>7. NoNewCharge(k)
  BY DEF TypeOK, TaskInv, PlaceInv, StopInv, Doomed, NoNewCharge
<1>8. QED
  BY <1>1, <1>2, <1>3, <1>4, <1>5, <1>6, <1>7 DEF TaskInv

LEMMA StopTaskStep ==
  ASSUME TypeOK, NEW k \in Tasks, TaskInv(k), StopTask(k)
  PROVE  TypeOK' /\ TaskInv(k)' /\ OthersStay(k) /\ NoNewCharge(k)
<1>0. cancel' \in [Tasks -> BOOLEAN]
  <2>1. cancel' = [cancel EXCEPT ![k] = pc[k] \in Alive] /\ cancel \in [Tasks -> BOOLEAN]
    BY DEF TypeOK, StopTask, CancelsTask
  <2>2. (pc[k] \in Alive) \in BOOLEAN
    OBVIOUS
  <2>3. QED
    BY <2>1, <2>2, FlagSet, Zenon
<1> USE DEF StopTask, Goto, Registry, Ledger, Trouble, Proceeds, CancelsTask, Terminal, Status, InTry, Handlers, Alive, Gone, Active
<1>1. TypeOK'
  <2>1. cancel' \in [Tasks -> BOOLEAN]
    BY <1>0
  <2>2. stop' \in [Tasks -> {"none", "recording", "unseen", "early"}]
    BY DEF TypeOK
  <2>3. troubled' \subseteq Tasks
    BY DEF TypeOK
  <2>4. QED
    BY <2>1, <2>2, <2>3 DEF TypeOK
<1>2. PlaceInv(k)'
  BY DEF TypeOK, TaskInv, PlaceInv, StopInv, Doomed
<1>3. StopInv(k)'
  <2>1. pc' = pc /\ out' = out /\ ledger' = ledger /\ reg' = reg /\ stopped' = stopped
    OBVIOUS
  <2>2. cancel'[k] = (pc[k] \in Alive)
    <3>1. cancel' = [cancel EXCEPT ![k] = pc[k] \in Alive] /\ DOMAIN cancel = Tasks
      BY DEF TypeOK
    <3> QED
      BY <3>1, Zenon
  <2>3. StopInv(k) /\ PlaceInv(k) /\ pc[k] \in {"none", "creating"} \cup Alive \cup Gone
    BY DEF TypeOK, TaskInv
  <2>4. Doomed(k) => Doomed(k)'
    BY <2>1, <2>2 DEF Doomed
  <2>5. CASE pc[k] = "creating"
    <3>1. stop'[k] = "early" /\ k \in troubled'
      <4>1. k \notin stopped
        BY <2>3, <2>5 DEF StopInv, Doomed
      <4>2. stop' = [stop EXCEPT ![k] = "early"] /\ troubled' = troubled \cup ({k} \ stopped)
            /\ DOMAIN stop = Tasks
        BY <2>5 DEF TypeOK
      <4> QED
        BY <4>1, <4>2
    <3> QED
      BY <2>1, <2>3, <2>4, <3>1 DEF StopInv
  <2>6. CASE pc[k] # "creating"
    <3>1. stop'[k] = (IF reg[k] = "none" THEN "unseen" ELSE "recording")
      BY <2>6 DEF TypeOK
    <3>2. pc[k] # "none"
      BY <2>3 DEF PlaceInv
    <3>3. reg[k] = "none" => pc[k] \in Gone
      BY <2>3, <2>6, <3>2 DEF PlaceInv
    <3>4. reg[k] # "none" => cancel'[k] \/ pc[k] \in Gone
      BY <2>2, <2>3, <2>6, <3>2
    <3> QED
      BY <2>1, <2>3, <2>4, <3>1, <3>3, <3>4 DEF StopInv, Doomed
  <2> QED
    BY <2>5, <2>6
<1>4. SlotInv(k)'
  BY DEF TypeOK, TaskInv, PlaceInv, StopInv, SlotInv, Doomed
<1>5. ToldInv(k)'
  BY SMT DEF TypeOK, TaskInv, PlaceInv, StopInv, ToldInv, Unhurt
<1>6. OthersStay(k)
  BY DEF TypeOK, OthersStay, Same
<1>7. NoNewCharge(k)
  BY DEF TypeOK, TaskInv, PlaceInv, StopInv, Doomed, NoNewCharge
<1>8. QED
  BY <1>1, <1>2, <1>3, <1>4, <1>5, <1>6, <1>7 DEF TaskInv

LEMMA StopRecordsStep ==
  ASSUME TypeOK, NEW k \in Tasks, TaskInv(k), StopRecords(k)
  PROVE  TypeOK' /\ TaskInv(k)' /\ OthersStay(k) /\ NoNewCharge(k)
<1> USE DEF StopRecords, Goto, Registry, Ledger, Trouble, Proceeds, MarksRegistry, Terminal, Status, InTry, Handlers, Alive, Gone, Active
<1>1. TypeOK'
  BY DEF TypeOK
<1>2. PlaceInv(k)'
  <2>1. reg'[k] = IF reg[k] # "none" /\ stop[k] = "recording" THEN "cancelled" ELSE reg[k]
    BY DEF TypeOK
  <2>2. pc[k] = "created" => stop[k] # "recording"
    BY DEF TaskInv, StopInv, Doomed
  <2>3. pc[k] # "none"
    BY DEF TaskInv, PlaceInv
  <2>4. QED
    BY <2>1, <2>2, <2>3 DEF TypeOK, TaskInv, PlaceInv
<1>3. StopInv(k)'
  BY DEF TypeOK, TaskInv, PlaceInv, StopInv, Doomed
<1>4. SlotInv(k)'
  BY DEF TypeOK, TaskInv, PlaceInv, StopInv, SlotInv, Doomed
<1>5. ToldInv(k)'
  BY SMT DEF TypeOK, TaskInv, PlaceInv, StopInv, ToldInv, Unhurt
<1>6. OthersStay(k)
  BY DEF TypeOK, OthersStay, Same
<1>7. NoNewCharge(k)
  BY DEF TypeOK, TaskInv, PlaceInv, StopInv, Doomed, NoNewCharge
<1>8. QED
  BY <1>1, <1>2, <1>3, <1>4, <1>5, <1>6, <1>7 DEF TaskInv

LEMMA StopAbandonedStep ==
  ASSUME TypeOK, NEW k \in Tasks, TaskInv(k), StopAbandoned(k)
  PROVE  TypeOK' /\ TaskInv(k)' /\ OthersStay(k) /\ NoNewCharge(k)
<1> USE DEF StopAbandoned, Goto, Registry, Ledger, Trouble, Proceeds, Terminal, Status, InTry, Handlers, Alive, Gone, Active
<1>1. TypeOK'
  BY DEF TypeOK
<1>2. PlaceInv(k)'
  BY DEF TypeOK, TaskInv, PlaceInv, StopInv, Doomed
<1>3. StopInv(k)'
  BY DEF TypeOK, TaskInv, PlaceInv, StopInv, Doomed
<1>4. SlotInv(k)'
  BY DEF TypeOK, TaskInv, PlaceInv, StopInv, SlotInv, Doomed
<1>5. ToldInv(k)'
  BY SMT DEF TypeOK, TaskInv, PlaceInv, StopInv, ToldInv, Unhurt
<1>6. OthersStay(k)
  BY DEF TypeOK, OthersStay, Same
<1>7. NoNewCharge(k)
  BY DEF TypeOK, TaskInv, PlaceInv, StopInv, Doomed, NoNewCharge
<1>8. QED
  BY <1>1, <1>2, <1>3, <1>4, <1>5, <1>6, <1>7 DEF TaskInv

LEMMA WaitForTaskStep ==
  ASSUME TypeOK, NEW k \in Tasks, TaskInv(k), WaitForTask(k)
  PROVE  TypeOK' /\ TaskInv(k)' /\ OthersStay(k) /\ NoNewCharge(k)
<1> USE DEF WaitForTask, Goto, Registry, Ledger, Trouble, Proceeds, Terminal, Status, InTry, Handlers, Alive, Gone, Active
<1>1. TypeOK'
  BY DEF TypeOK
<1>2. PlaceInv(k)'
  BY DEF TypeOK, TaskInv, PlaceInv, StopInv, Doomed
<1>3. StopInv(k)'
  BY DEF TypeOK, TaskInv, PlaceInv, StopInv, Doomed
<1>4. SlotInv(k)'
  BY DEF TypeOK, TaskInv, PlaceInv, StopInv, SlotInv, Doomed
<1>5. ToldInv(k)'
  BY SMT DEF TypeOK, TaskInv, PlaceInv, StopInv, ToldInv, Unhurt
<1>6. OthersStay(k)
  BY DEF TypeOK, OthersStay, Same
<1>7. NoNewCharge(k)
  BY DEF TypeOK, TaskInv, PlaceInv, StopInv, Doomed, NoNewCharge
<1>8. QED
  BY <1>1, <1>2, <1>3, <1>4, <1>5, <1>6, <1>7 DEF TaskInv

LEMMA WaitReturnsStep ==
  ASSUME TypeOK, NEW k \in Tasks, TaskInv(k), WaitReturns(k)
  PROVE  TypeOK' /\ TaskInv(k)' /\ OthersStay(k) /\ NoNewCharge(k)
<1> USE DEF WaitReturns, Goto, Registry, Ledger, Trouble, Proceeds, Terminal, Status, InTry, Handlers, Alive, Gone, Active
<1>1. TypeOK'
  BY DEF TypeOK
<1>2. PlaceInv(k)'
  BY DEF TypeOK, TaskInv, PlaceInv, StopInv, Doomed
<1>3. StopInv(k)'
  BY DEF TypeOK, TaskInv, PlaceInv, StopInv, Doomed
<1>4. SlotInv(k)'
  BY DEF TypeOK, TaskInv, PlaceInv, StopInv, SlotInv, Doomed
<1>5. ToldInv(k)'
  BY SMT DEF TypeOK, TaskInv, PlaceInv, StopInv, ToldInv, Unhurt
<1>6. OthersStay(k)
  BY DEF TypeOK, OthersStay, Same
<1>7. NoNewCharge(k)
  BY DEF TypeOK, TaskInv, PlaceInv, StopInv, Doomed, NoNewCharge
<1>8. QED
  BY <1>1, <1>2, <1>3, <1>4, <1>5, <1>6, <1>7 DEF TaskInv

LEMMA SpawnStep ==
  ASSUME TypeOK, NEW k \in Tasks, NEW r \in Runs, TaskInv(k), Spawn(k, r)
  PROVE  TypeOK' /\ TaskInv(k)' /\ OthersStay(k)
<1> USE DEF Spawn, Goto, Terminal, Status, InTry, Handlers, Alive, Gone, Active
<1>1. TypeOK'
  BY DEF TypeOK
<1>2. PlaceInv(k)'
  BY DEF TypeOK, TaskInv, PlaceInv
<1>3. StopInv(k)'
  BY DEF TypeOK, TaskInv, PlaceInv, StopInv, Doomed
<1>4. SlotInv(k)'
  BY DEF TypeOK, TaskInv, PlaceInv, SlotInv
<1>5. ToldInv(k)'
  BY SMT DEF TypeOK, TaskInv, ToldInv, Unhurt
<1>6. OthersStay(k)
  BY DEF TypeOK, OthersStay, Same
<1>7. QED
  BY <1>1, <1>2, <1>3, <1>4, <1>5, <1>6 DEF TaskInv

LEMMA RestartStep ==
  ASSUME TypeOK, \A k \in Tasks : TaskInv(k), Restart
  PROVE  TypeOK' /\ \A k \in Tasks : TaskInv(k)' /\ NoNewCharge(k)
<1> USE DEF Restart, Terminal, Status, InTry, Handlers, Alive, Gone, Active
<1>1. TypeOK'
  <2>1. pc' \in [Tasks -> {"none", "creating"} \cup Alive \cup Gone]
    BY DEF TypeOK
  <2>2. /\ reg' \in [Tasks -> Status \cup {"none"}]
        /\ cancel' \in [Tasks -> BOOLEAN]
        /\ stop' \in [Tasks -> {"none", "recording", "unseen", "early"}]
        /\ wait' \in [Tasks -> {"none", "waiting", "killed"}]
        /\ out' \in [Tasks -> Terminal \cup {"none"}]
    OBVIOUS
  <2>3. QED
    BY <2>1, <2>2 DEF TypeOK
<1>2. SUFFICES ASSUME NEW k \in Tasks
               PROVE  TaskInv(k)' /\ NoNewCharge(k)
  BY <1>1
<1>3. PlaceInv(k)'
  BY DEF TypeOK, TaskInv, PlaceInv
<1>4. StopInv(k)'
  BY DEF TypeOK, TaskInv, PlaceInv, StopInv, Doomed
<1>5. SlotInv(k)'
  BY DEF TypeOK, SlotInv
<1>6. ToldInv(k)'
  BY SMT DEF TypeOK, TaskInv, ToldInv, Unhurt
<1>7. NoNewCharge(k)
  BY DEF TypeOK, NoNewCharge
<1>8. QED
  BY <1>3, <1>4, <1>5, <1>6, <1>7 DEF TaskInv

(* The sets of children that are counted are finite. *)
LEMMA ChildrenFinite ==
  ASSUME NEW x
  PROVE  /\ IsFiniteSet(Children(x)) /\ IsFiniteSet(RunCharge(x))
         /\ IsFiniteSet(ActiveChildren(x)) /\ IsFiniteSet(SpawningIn(x))
         /\ IsFiniteSet(Charged(x)) /\ IsFiniteSet(RunsOf(x))
<1>1. /\ IsFiniteSet(Children(x)) /\ IsFiniteSet(RunCharge(x))
      /\ IsFiniteSet(ActiveChildren(x)) /\ IsFiniteSet(SpawningIn(x))
      /\ IsFiniteSet(Charged(x))
  BY ConstantsAssumption, FS_Subset DEF Children, RunCharge, Spawning, ActiveChildren, SpawningIn, Charged
<1>2. IsFiniteSet(RunsOf(x))
  BY ConstantsAssumption, FS_Subset DEF RunsOf
<1>3. QED
  BY <1>1, <1>2

LEMMA SubsetCounts ==
  ASSUME NEW A, NEW B, IsFiniteSet(B), A \subseteq B
  PROVE  /\ IsFiniteSet(A) /\ Cardinality(A) \in Nat /\ Cardinality(B) \in Nat
         /\ Cardinality(A) <= Cardinality(B)
<1>1. IsFiniteSet(A) /\ Cardinality(A) <= Cardinality(B)
  BY FS_Subset
<1>2. QED
  BY <1>1, FS_CardinalityType

LEMMA OneMore ==
  ASSUME NEW S, IsFiniteSet(S), NEW x
  PROVE  /\ IsFiniteSet(S \cup {x}) /\ Cardinality(S \cup {x}) \in Nat
         /\ Cardinality(S) \in Nat /\ Cardinality(S \cup {x}) <= Cardinality(S) + 1
<1>1. IsFiniteSet(S \cup {x}) /\ Cardinality(S) \in Nat
  BY FS_AddElement, FS_CardinalityType
<1>2. Cardinality(S \cup {x}) \in Nat
  BY <1>1, FS_CardinalityType
<1>3. Cardinality(S \cup {x}) = Cardinality(S) \/ Cardinality(S \cup {x}) = Cardinality(S) + 1
  BY FS_AddElement
<1>4. QED
  BY <1>1, <1>2, <1>3

(* A step that charges no new child keeps both limits. *)
LEMMA RunChargeLeaves ==
  ASSUME ChildInv, NEW r \in Runs, RunCharge(r)' \subseteq RunCharge(r)
  PROVE  Cardinality(RunCharge(r)') <= MaxChildren
<1> DEFINE A == RunCharge(r)'
           B == RunCharge(r)
<1>1. IsFiniteSet(B) /\ A \subseteq B /\ Cardinality(B) <= MaxChildren
  BY ChildrenFinite DEF ChildInv
<1> HIDE DEF A, B
<1>2. Cardinality(A) <= MaxChildren
  BY <1>1, SubsetCounts, ConstantsAssumption
<1>3. QED
  BY <1>2 DEF A

LEMMA ChargeLeaves ==
  ASSUME ChildInv, NEW s \in Sessions, RunsOf(s) # {}, Charged(s)' \subseteq Charged(s)
  PROVE  Cardinality(Charged(s)') < MaxChildren + Cardinality(RunsOf(s))
<1> DEFINE A == Charged(s)'
           B == Charged(s)
           N == Cardinality(RunsOf(s))
<1>1. IsFiniteSet(B) /\ A \subseteq B /\ Cardinality(B) < MaxChildren + N
  BY ChildrenFinite DEF ChildInv
<1>2. N \in Nat
  BY ChildrenFinite, FS_CardinalityType
<1> HIDE DEF A, B, N
<1>3. Cardinality(A) < MaxChildren + N
  BY <1>1, <1>2, SubsetCounts, ConstantsAssumption
<1>4. QED
  BY <1>3 DEF A, N

LEMMA ChildrenStay ==
  ASSUME TypeOK, ChildInv, \A k \in Tasks : Same(k) \/ NoNewCharge(k), parent' = parent
  PROVE  ChildInv'
<1>1. OneSpawnARun'
  BY DEF ChildInv, OneSpawnARun, Same, NoNewCharge
<1>2. \A k \in Tasks : pc'[k] # "none" => parent'[k] \in Runs
  BY DEF ChildInv, Same, NoNewCharge
<1>3. ASSUME NEW r \in Runs PROVE Cardinality(RunCharge(r)') <= MaxChildren
  <2>1. RunCharge(r)' \subseteq RunCharge(r)
    BY DEF RunCharge, Children, Spawning, Active, Same, NoNewCharge
  <2>2. QED
    BY <2>1, RunChargeLeaves
<1>4. ASSUME NEW s \in Sessions, RunsOf(s) # {}
      PROVE  Cardinality(Charged(s)') < MaxChildren + Cardinality(RunsOf(s))
  <2>1. Charged(s)' \subseteq Charged(s)
    BY DEF Charged, ActiveChildren, SpawningIn, Active, Same, NoNewCharge
  <2>2. QED
    BY <1>4, <2>1, ChargeLeaves
<1>5. QED
  BY <1>1, <1>2, <1>3, <1>4, Zenon DEF ChildInv, RunsOf

(* While a run is about to spawn, the spawns under way in its session are of
   its other runs, one each. *)
LEMMA OthersSpawn ==
  ASSUME ChildInv, NEW r \in Runs, Spawning(r) = {}
  PROVE  /\ Cardinality(SpawningIn(SessionOf[r])) \in Nat
         /\ Cardinality(RunsOf(SessionOf[r])) \in Nat
         /\ Cardinality(SpawningIn(SessionOf[r])) < Cardinality(RunsOf(SessionOf[r]))
<1> DEFINE s == SessionOf[r]
           A == SpawningIn(s)
           R == RunsOf(s)
           f == [k \in A |-> parent[k]]
<1>1. IsFiniteSet(A) /\ IsFiniteSet(R) /\ r \in R
  BY ChildrenFinite DEF RunsOf
<1>2. f \in [A -> R \ {r}]
  BY DEF SpawningIn, Spawning, RunsOf
<1>3. \A j, k \in A : f[j] = f[k] => j = k
  BY DEF ChildInv, OneSpawnARun, SpawningIn
<1>4. /\ IsFiniteSet(R \ {r}) /\ Cardinality(R \ {r}) = Cardinality(R) - 1
      /\ Cardinality(A) \in Nat /\ Cardinality(R) \in Nat
  BY <1>1, FS_RemoveElement, FS_CardinalityType
<1>5. Cardinality(R \ {r}) \in Nat
  BY <1>4, FS_CardinalityType
<1> HIDE DEF A, R, f
<1>6. ~(Cardinality(R \ {r}) < Cardinality(A))
  <2>1. SUFFICES ASSUME Cardinality(R \ {r}) < Cardinality(A) PROVE FALSE
    OBVIOUS
  <2>2. \E j, k \in A : j # k /\ f[j] = f[k]
    BY <1>1, <1>2, <1>4, <2>1, FS_PigeonHole
  <2>3. QED
    BY <1>3, <2>2
<1>7. Cardinality(A) < Cardinality(R)
  BY <1>4, <1>5, <1>6
<1>8. QED
  BY <1>4, <1>7 DEF A, R

(* The guard of spawn_subagent counts the children of the session that are
   registered, so the run gets at most its limit; those the guard does not
   see are fewer than the runs of the session. *)
LEMMA SpawnChildren ==
  ASSUME TypeOK, ChildInv, NEW k \in Tasks, NEW r \in Runs, Spawn(k, r)
  PROVE  ChildInv'
<1> DEFINE s == SessionOf[r]
<1>0. /\ pc[k] = "none" /\ Spawning(r) = {} /\ Cardinality(ActiveChildren(s)) < MaxChildren
      /\ pc' = [pc EXCEPT ![k] = "creating"] /\ parent' = [parent EXCEPT ![k] = r]
      /\ reg' = reg /\ s \in Sessions /\ r \in RunsOf(s)
  BY ConstantsAssumption DEF Spawn, Goto, RunsOf
<1>1. OneSpawnARun'
  BY <1>0 DEF TypeOK, ChildInv, OneSpawnARun, Spawning
<1>2. \A j \in Tasks : pc'[j] # "none" => parent'[j] \in Runs
  BY <1>0 DEF TypeOK, ChildInv
<1>3. ASSUME NEW q \in Runs PROVE Cardinality(RunCharge(q)') <= MaxChildren
  <2>1. CASE q # r
    <3>1. RunCharge(q)' \subseteq RunCharge(q)
      BY <1>0, <2>1 DEF TypeOK, RunCharge, Children, Spawning, Active
    <3>2. QED
      BY <3>1, RunChargeLeaves
  <2>2. CASE q = r
    <3> DEFINE A == ActiveChildren(s)
               C == RunCharge(q)'
    <3>1. C \subseteq A \cup {k}
      BY <1>0, <2>2 DEF TypeOK, RunCharge, Children, Spawning, Active, ActiveChildren
    <3>2. IsFiniteSet(A) /\ Cardinality(A) < MaxChildren
      BY <1>0, ChildrenFinite
    <3> HIDE DEF A, C
    <3>3. /\ IsFiniteSet(A \cup {k}) /\ Cardinality(A \cup {k}) <= Cardinality(A) + 1
          /\ Cardinality(A) \in Nat /\ Cardinality(A \cup {k}) \in Nat
      BY <3>2, OneMore
    <3>4. Cardinality(C) \in Nat /\ Cardinality(C) <= Cardinality(A \cup {k})
      BY <3>1, <3>3, SubsetCounts
    <3>5. Cardinality(C) <= MaxChildren
      BY <3>2, <3>3, <3>4, ConstantsAssumption
    <3>6. QED
      BY <3>5 DEF C
  <2>3. QED
    BY <2>1, <2>2
<1>4. ASSUME NEW t \in Sessions, RunsOf(t) # {}
      PROVE  Cardinality(Charged(t)') < MaxChildren + Cardinality(RunsOf(t))
  <2>1. CASE t # s
    <3>1. Charged(t)' \subseteq Charged(t)
      BY <1>0, <2>1 DEF TypeOK, Charged, ActiveChildren, SpawningIn, Active, RunsOf
    <3>2. QED
      BY <1>4, <3>1, ChargeLeaves
  <2>2. CASE t = s
    <3> DEFINE A == ActiveChildren(s)
               B == SpawningIn(s)
               N == Cardinality(RunsOf(s))
               C == Charged(t)'
    <3>1. C \subseteq (A \cup B) \cup {k}
      BY <1>0, <2>2 DEF TypeOK, Charged, ActiveChildren, SpawningIn, Active
    <3>2. IsFiniteSet(A) /\ IsFiniteSet(B) /\ Cardinality(A) < MaxChildren
      BY <1>0, ChildrenFinite
    <3>3. Cardinality(B) \in Nat /\ N \in Nat /\ Cardinality(B) < N
      BY <1>0, OthersSpawn
    <3> HIDE DEF A, B, N, C
    <3>4. /\ IsFiniteSet(A \cup B) /\ Cardinality(A) \in Nat /\ Cardinality(A \cup B) \in Nat
          /\ Cardinality(A \cup B) <= Cardinality(A) + Cardinality(B)
      <4>1. /\ Cardinality(A \cap B) \in Nat /\ Cardinality(A) \in Nat
            /\ IsFiniteSet(A \cup B) /\ Cardinality(A \cup B) \in Nat
        BY <3>2, FS_Intersection, FS_Union, FS_CardinalityType
      <4>2. Cardinality(A \cup B) = Cardinality(A) + Cardinality(B) - Cardinality(A \cap B)
        BY <3>2, FS_Union
      <4>3. QED
        BY <3>3, <4>1, <4>2
    <3>5. /\ IsFiniteSet((A \cup B) \cup {k}) /\ Cardinality((A \cup B) \cup {k}) \in Nat
          /\ Cardinality((A \cup B) \cup {k}) <= Cardinality(A \cup B) + 1
      BY <3>4, OneMore
    <3>6. Cardinality(C) \in Nat /\ Cardinality(C) <= Cardinality((A \cup B) \cup {k})
      BY <3>1, <3>5, SubsetCounts
    <3>7. Cardinality(C) < MaxChildren + N
      BY <3>2, <3>3, <3>4, <3>5, <3>6, ConstantsAssumption
    <3>8. QED
      BY <2>2, <3>7 DEF C, N
  <2>3. QED
    BY <2>1, <2>2
<1>5. QED
  BY <1>1, <1>2, <1>3, <1>4, Zenon DEF ChildInv, RunsOf

LEMMA InitHolds == Init => IInv
<1>1. SUFFICES ASSUME Init PROVE IInv
  OBVIOUS
<1>2. TypeOK
  <2>1. \A A, B : \A b \in B : [k \in A |-> b] \in [A -> B]
    OBVIOUS
  <2>3. told \in [Tasks -> Terminal \cup {"none", "unsure", "twice"}]
    BY <1>1, <2>1 DEF Init
  <2>4. (stopped \subseteq Tasks) /\ (troubled \subseteq Tasks)
    BY <1>1 DEF Init
  <2>5. QED
    BY <1>1, <2>1, <2>3, <2>4, SMT DEF Init, TypeOK
<1>3. \A k \in Tasks : TaskInv(k)
  BY <1>1 DEF Init, TaskInv, PlaceInv, StopInv, SlotInv, ToldInv, Unhurt, Alive, InTry, Handlers, Gone
<1>4. \A k \in Tasks : pc[k] = "none" /\ reg[k] = "none"
  BY <1>1 DEF Init
<1>5. ASSUME NEW r \in Runs PROVE Cardinality(RunCharge(r)) <= MaxChildren
  <2>1. RunCharge(r) = {}
    BY <1>4, SMT DEF RunCharge, Children, Spawning, Active
  <2>2. QED
    BY <2>1, FS_EmptySet, ConstantsAssumption
<1>6. ASSUME NEW s \in Sessions
      PROVE  Cardinality(Charged(s)) < MaxChildren + Cardinality(RunsOf(s))
  <2>1. Charged(s) = {}
    BY <1>4, SMT DEF Charged, ActiveChildren, SpawningIn, Active
  <2>2. Cardinality(RunsOf(s)) \in Nat
    BY ChildrenFinite, FS_CardinalityType
  <2>3. QED
    BY <2>1, <2>2, FS_EmptySet, ConstantsAssumption
<1>7. ChildInv
  BY <1>4, <1>5, <1>6 DEF ChildInv, OneSpawnARun
<1>8. QED
  BY <1>2, <1>3, <1>7 DEF IInv

(* A step of one task keeps the invariant when it keeps that task's. *)
LEMMA OneTaskMoves ==
  ASSUME IInv, NEW k \in Tasks, TypeOK', TaskInv(k)', OthersStay(k), ChildInv'
  PROVE  IInv'
<1>1. ASSUME NEW j \in Tasks PROVE TaskInv(j)'
  <2>1. CASE j = k
    BY <2>1
  <2>2. CASE j # k
    BY <2>2, TaskStays DEF OthersStay, IInv
  <2>3. QED
    BY <2>1, <2>2
<1>2. QED
  BY <1>1 DEF IInv

LEMMA OneTaskRuns ==
  ASSUME IInv, NEW k \in Tasks, TypeOK', TaskInv(k)', OthersStay(k), NoNewCharge(k)
  PROVE  IInv'
<1>1. (\A j \in Tasks : Same(j) \/ NoNewCharge(j)) /\ parent' = parent
  BY DEF OthersStay, NoNewCharge
<1>2. ChildInv'
  BY <1>1, ChildrenStay DEF IInv
<1>3. QED
  BY <1>2, OneTaskMoves

LEMMA NextKeeps == IInv /\ [Next]_vars => IInv'
<1>1. SUFFICES ASSUME IInv, [Next]_vars PROVE IInv'
  OBVIOUS
<1>2. TypeOK /\ ChildInv /\ \A k \in Tasks : TaskInv(k)
  BY <1>1 DEF IInv
<1>3. CASE Restart
  <2>1. TypeOK' /\ \A k \in Tasks : TaskInv(k)' /\ NoNewCharge(k)
    BY <1>2, <1>3, RestartStep
  <2>2. ChildInv'
    BY <1>2, <1>3, <2>1, ChildrenStay DEF Restart
  <2>3. QED
    BY <2>1, <2>2 DEF IInv
<1>4. ASSUME NEW k \in Tasks, NEW r \in Runs, Spawn(k, r) PROVE IInv'
  BY <1>1, <1>2, <1>4, SpawnStep, SpawnChildren, OneTaskMoves
<1>5. ASSUME NEW k \in Tasks, CreateRow(k) PROVE IInv'
  BY <1>1, <1>2, <1>5, CreateRowStep, OneTaskRuns
<1>6. ASSUME NEW k \in Tasks, Register(k) PROVE IInv'
  BY <1>1, <1>2, <1>6, RegisterStep, OneTaskRuns
<1>7. ASSUME NEW k \in Tasks, SpawnAbandoned(k) PROVE IInv'
  BY <1>1, <1>2, <1>7, SpawnAbandonedStep, OneTaskRuns
<1>8. ASSUME NEW k \in Tasks, Acquire(k) PROVE IInv'
  BY <1>1, <1>2, <1>8, AcquireStep, OneTaskRuns
<1>9. ASSUME NEW k \in Tasks, RecordRunning(k) PROVE IInv'
  BY <1>1, <1>2, <1>9, RecordRunningStep, OneTaskRuns
<1>10. ASSUME NEW k \in Tasks, RecordRunningRaises(k) PROVE IInv'
  BY <1>1, <1>2, <1>10, RecordRunningRaisesStep, OneTaskRuns
<1>11. ASSUME NEW k \in Tasks, Returns(k) PROVE IInv'
  BY <1>1, <1>2, <1>11, ReturnsStep, OneTaskRuns
<1>12. ASSUME NEW k \in Tasks, Raises(k) PROVE IInv'
  BY <1>1, <1>2, <1>12, RaisesStep, OneTaskRuns
<1>13. ASSUME NEW k \in Tasks, RecordOutcome(k) PROVE IInv'
  BY <1>1, <1>2, <1>13, RecordOutcomeStep, OneTaskRuns
<1>14. ASSUME NEW k \in Tasks, Deliver(k) PROVE IInv'
  BY <1>1, <1>2, <1>14, DeliverStep, OneTaskRuns
<1>15. ASSUME NEW k \in Tasks, WriteRaises(k) PROVE IInv'
  BY <1>1, <1>2, <1>15, WriteRaisesStep, OneTaskRuns
<1>16. ASSUME NEW k \in Tasks, Cancelled(k) PROVE IInv'
  BY <1>1, <1>2, <1>16, CancelledStep, OneTaskRuns
<1>17. ASSUME NEW k \in Tasks, StopTask(k) PROVE IInv'
  BY <1>1, <1>2, <1>17, StopTaskStep, OneTaskRuns
<1>18. ASSUME NEW k \in Tasks, StopRecords(k) PROVE IInv'
  BY <1>1, <1>2, <1>18, StopRecordsStep, OneTaskRuns
<1>19. ASSUME NEW k \in Tasks, StopAbandoned(k) PROVE IInv'
  BY <1>1, <1>2, <1>19, StopAbandonedStep, OneTaskRuns
<1>20. ASSUME NEW k \in Tasks, WaitForTask(k) PROVE IInv'
  BY <1>1, <1>2, <1>20, WaitForTaskStep, OneTaskRuns
<1>21. ASSUME NEW k \in Tasks, WaitReturns(k) PROVE IInv'
  BY <1>1, <1>2, <1>21, WaitReturnsStep, OneTaskRuns
<1>22. CASE UNCHANGED vars
  <2>1. \A k \in Tasks : Same(k)
    BY <1>22 DEF vars, Same
  <2>2. TypeOK'
    BY <1>2, <1>22 DEF vars, TypeOK
  <2>3. \A k \in Tasks : TaskInv(k)'
    BY <1>2, <2>1, TaskStays
  <2>4. ChildInv'
    BY <1>2, <1>22, <2>1, ChildrenStay DEF vars
  <2>5. QED
    BY <2>2, <2>3, <2>4 DEF IInv
<1>23. QED
  BY <1>1, <1>3, <1>4, <1>5, <1>6, <1>7, <1>8, <1>9, <1>10, <1>11, <1>12, <1>13, <1>14, <1>15, <1>16, <1>17, <1>18, <1>19, <1>20, <1>21, <1>22 DEF Next, RunStep

(* In every reachable state each task is where its ledger row, its registry
   entry and the stops under way allow, and no run and no session is charged
   with more children than their limits. *)
THEOREM Invariance == Spec => []IInv
<1>1. QED
  BY InitHolds, NextKeeps, PTL DEF Spec

(* Type correctness: parent, ledger, registry and the rest keep their types. *)
THEOREM TypeCorrect == Spec => []TypeOK
<1>1. IInv => TypeOK
  BY DEF IInv
<1>2. QED
  BY <1>1, Invariance, PTL

(* stop_task is final: once it has returned, whatever the run was recording
   or delivering when CancelledError reached it, its row stays cancelled. *)
THEOREM StopIsFinal == Spec => []StoppedStaysCancelled
<1>1. IInv => StoppedStaysCancelled
  BY DEF IInv, TypeOK, TaskInv, StopInv, StoppedStaysCancelled
<1>2. QED
  BY <1>1, Invariance, PTL

(* A run of _run_subagent that has returned has told its requester what the
   ledger says, once but for an append that raised, unless it was stopped. *)
THEOREM OutcomesAreTold == Spec => []OutcomeIsTold
<1>1. IInv => OutcomeIsTold
  BY DEF IInv, TaskInv, ToldInv, OutcomeIsTold
<1>2. QED
  BY <1>1, Invariance, PTL

(* max_child_agents_per_run holds of every run; a session may exceed it by at
   most one child for each further run it has at once. *)
THEOREM ChildrenAreLimited == Spec => []ChildLimit
<1>1. ASSUME IInv, NEW r \in Runs PROVE Cardinality(Children(r)) <= MaxChildren
  <2> DEFINE A == Children(r)
             B == RunCharge(r)
  <2>1. IsFiniteSet(B) /\ A \subseteq B /\ Cardinality(B) <= MaxChildren
    BY <1>1, ChildrenFinite DEF RunCharge, IInv, ChildInv
  <2> HIDE DEF A, B
  <2>2. Cardinality(A) <= MaxChildren
    BY <2>1, SubsetCounts, ConstantsAssumption
  <2>3. QED
    BY <2>2 DEF A
<1>2. ASSUME IInv, NEW s \in Sessions, RunsOf(s) # {}
      PROVE  Cardinality(ActiveChildren(s)) < MaxChildren + Cardinality(RunsOf(s))
  <2> DEFINE A == ActiveChildren(s)
             B == Charged(s)
             N == Cardinality(RunsOf(s))
  <2>1. IsFiniteSet(B) /\ A \subseteq B /\ Cardinality(B) < MaxChildren + N
    BY <1>2, ChildrenFinite DEF Charged, IInv, ChildInv
  <2>2. N \in Nat
    BY ChildrenFinite, FS_CardinalityType
  <2> HIDE DEF A, B, N
  <2>3. Cardinality(A) < MaxChildren + N
    BY <2>1, <2>2, SubsetCounts, ConstantsAssumption
  <2>4. QED
    BY <2>3 DEF A, N
<1>3. IInv => ChildLimit
  BY <1>1, <1>2, Zenon DEF ChildLimit, Children, ActiveChildren
<1>4. QED
  BY <1>3, Invariance, PTL

(* A subagent that has entered its try gives its slot of the limit back; one
   that was dropped before it gives it back to the stop that finishes. *)
THEOREM SlotsComeBack == Spec => []SlotIsNotLeaked
<1>1. IInv => SlotIsNotLeaked
  BY DEF IInv, TypeOK, TaskInv, PlaceInv, SlotInv, SlotIsNotLeaked, Active, Gone
<1>2. QED
  BY <1>1, Invariance, PTL
=============================================================================

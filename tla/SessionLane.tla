---------------------------- MODULE SessionLane ----------------------------
(***************************************************************************)
(* What a reader of MessageRouter may rely on: every session is a lane     *)
(* that serves one message at a time.  A message is served at most once;   *)
(* it leaves the lane when its run ends, or without a run when the process *)
(* stops or crashes.                                                       *)
(***************************************************************************)
CONSTANTS Msgs, Sessions, NoSession

VARIABLES
  state,  \* per message: "new", "waiting", "serving" or "gone"
  lane    \* the session it waits for or is served in, else NoSession

laneVars == <<state, lane>>

Init ==
  /\ state = [m \in Msgs |-> "new"]
  /\ lane = [m \in Msgs |-> NoSession]

Serving(s) == {m \in Msgs : state[m] = "serving" /\ lane[m] = s}

Wait(m, s) ==
  /\ state[m] = "new"
  /\ state' = [state EXCEPT ![m] = "waiting"]
  /\ lane' = [lane EXCEPT ![m] = s]

Serve(m, s) ==
  /\ state[m] = "new"
  /\ Serving(s) = {}
  /\ state' = [state EXCEPT ![m] = "serving"]
  /\ lane' = [lane EXCEPT ![m] = s]

(* The lane goes from one message to the next in a single step. *)
HandOver(m, n) ==
  /\ state[m] = "serving"
  /\ state[n] = "waiting"
  /\ lane[n] = lane[m]
  /\ state' = [state EXCEPT ![m] = "gone", ![n] = "serving"]
  /\ lane' = [lane EXCEPT ![m] = NoSession]

Leave(S) ==
  /\ \A m \in S : state[m] # "gone"
  /\ state' = [m \in Msgs |-> IF m \in S THEN "gone" ELSE state[m]]
  /\ lane' = [m \in Msgs |-> IF m \in S THEN NoSession ELSE lane[m]]

Next ==
  \/ \E m \in Msgs, s \in Sessions : Wait(m, s) \/ Serve(m, s)
  \/ \E m, n \in Msgs : HandOver(m, n)
  \/ \E S \in SUBSET Msgs : Leave(S)

Spec == Init /\ [][Next]_laneVars

----------------------------------------------------------------------------
(* A lane serves one message at a time. *)
OneAtATime == \A m, n \in Msgs : state[m] = "serving" /\ state[n] = "serving"
                                 /\ lane[m] = lane[n] => m = n
============================================================================

--------------------------- MODULE MCOrchestrator ---------------------------
(* Instances of Orchestrator for TLC: the parent runs are of one session.  They
   are interchangeable, so the first task may be taken to be of Main. *)
EXTENDS Orchestrator

CONSTANTS Main, First

OneSession == [r \in Runs |-> CHOOSE s \in Sessions : TRUE]

FirstByMain == [r \in Runs |-> IF r = Main THEN Tasks ELSE Tasks \ {First}]
============================================================================

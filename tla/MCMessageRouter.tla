-------------------------- MODULE MCMessageRouter --------------------------
(* Instances of MessageRouter for TLC. *)
EXTENDS MessageRouter, TLC

MsgSymmetry == Permutations(Msgs \ Observed)
============================================================================

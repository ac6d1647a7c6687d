-------------------------- MODULE MCCronScheduler --------------------------
(* Instances of CronScheduler for TLC. *)
EXTENDS CronScheduler, TLC

TaskJobSymmetry == Permutations(TaskIds) \cup Permutations(Jobs)
============================================================================

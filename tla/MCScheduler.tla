---------------------------- MODULE MCScheduler ----------------------------
(* Scheduler on small sets: the tasks are interchangeable. *)
EXTENDS Scheduler, TLC

TaskSymmetry == Permutations(Task)
=============================================================================

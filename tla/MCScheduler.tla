---------------------------- MODULE MCScheduler ----------------------------
(***************************************************************************)
(* Two threads, a task and one that repeats.                               *)
(***************************************************************************)
EXTENDS Scheduler
=============================================================================

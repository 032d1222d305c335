---------------------------- MODULE MCCheckQueue ----------------------------
(* The script-check pool on a small instance. *)
EXTENDS CheckQueue, TLC

(* Worker threads run the same code, and so do checks. *)
PoolSymmetry == Permutations(Workers) \cup Permutations(Checks)
=============================================================================

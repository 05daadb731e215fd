---------------------------- MODULE MCAssignments ----------------------------
(* Assignments with requests that may change places. *)
EXTENDS Assignments, TLC

Symmetric == Permutations(Requests)
=============================================================================

------------------------------ MODULE MCSession ------------------------------
(* Instances of Session for TLC. *)
EXTENDS Session, TLC

Symmetric == Permutations(Pairs) \cup Permutations(Requests) \cup Permutations(Passwords)
=============================================================================

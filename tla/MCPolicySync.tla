---------------------------- MODULE MCPolicySync -----------------------------
(* PolicySync with instances and requests that may change places. *)
EXTENDS PolicySync, TLC

Symmetric == Permutations(Instances) \cup Permutations(Requests)
=============================================================================

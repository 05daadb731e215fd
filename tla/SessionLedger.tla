---------------------------- MODULE SessionLedger ----------------------------
(***************************************************************************)
(* What the token store promises about refresh tokens, apart from Redis,   *)
(* requests and clocks: a session is opened once, by a token that was      *)
(* never used; its head moves to a fresh token, in one indivisible step,   *)
(* and when it is closed it stays closed.                                  *)
(***************************************************************************)
CONSTANTS Pairs, None

VARIABLES
    head,  \* session -> the one refresh token that can be spent, or None
    used   \* every token ever handed to a session

vars == <<head, used>>

Init == head = [s \in Pairs |-> None] /\ used = {}

Use(q) == q \notin used /\ used' = used \cup {q}

\* A session is named by the token that opens it.
Open(q) == Use(q) /\ head' = [head EXCEPT ![q] = q]

Advance(s, q) == head[s] # None /\ Use(q) /\ head' = [head EXCEPT ![s] = q]

Close(s) == head[s] # None /\ head' = [head EXCEPT ![s] = None] /\ UNCHANGED used

Next ==
    \/ \E q \in Pairs : Open(q)
    \/ \E s, q \in Pairs : Advance(s, q)
    \/ \E s \in Pairs : Close(s)

Spec == Init /\ [][Next]_vars
=============================================================================

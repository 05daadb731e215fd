------------------------------ MODULE UserAdmin ------------------------------
(***************************************************************************)
(* The user administration: requests that edit and delete rows of sys_user *)
(* while the service keeps a last active super administrator.              *)
(*                                                                         *)
(* Update reads the row, applies the fields the request names to what it   *)
(* read, and only then opens the transaction that writes the result; both  *)
(* it and Delete lock their own row and count the other super              *)
(* administrators without locking them (PostgreSQL, READ COMMITTED: a      *)
(* count sees what is committed when it runs).  What the transaction does  *)
(* to role assignments is the subject of Assignments.                      *)
(***************************************************************************)
EXTENDS Naturals, FiniteSets

CONSTANTS Users, Requests, None

ASSUME UserAdminAssumption == None \notin Requests \cup Users

VARIABLES
    row,        \* sys_user, committed: existence, is_super_admin, is_enable
    lock,       \* user -> the transaction that holds its row, or None
    pc, job,    \* the administrators' requests
    overlapped  \* history: two removals were both past their count at once

vars == <<row, lock, pc, job, overlapped>>

Switches == {"super", "enabled"}
Row   == [status: {"absent", "live", "deleted"}, super: BOOLEAN, enabled: BOOLEAN]
Steps == {"idle", "lock", "count", "commit"}
\* want is the row to write; license is history: the switches the request may
\* turn, because it named them or because the row changed after it was read.
Job   == [user: Users \cup {None}, want: Row, license: SUBSET Switches]

Absent  == [status |-> "absent", super |-> FALSE, enabled |-> FALSE]
Deleted == [Absent EXCEPT !.status = "deleted"]
NoJob   == [user |-> None, want |-> Absent, license |-> {}]

Counts(r) == r.status = "live" /\ r.super /\ r.enabled
Active(u) == Counts(row[u])

Init ==
    /\ row \in [Users -> {r \in Row : r.status # "deleted"
                                       /\ (r.status = "absent" => r = Absent)}]
    /\ \E u \in Users : Active(u)  \* db/seeds
    /\ lock = [u \in Users |-> None]
    /\ pc = [r \in Requests |-> "idle"]
    /\ job = [r \in Requests |-> NoJob]
    /\ overlapped = FALSE

Begin(r, j) ==
    /\ pc[r] = "idle"
    /\ pc' = [pc EXCEPT ![r] = "lock"]
    /\ job' = [job EXCEPT ![r] = j]

\* The transaction ends: by a commit, a rollback or the loss of its connection.
Release(r) == [u \in Users |-> IF lock[u] = r THEN None ELSE lock[u]]
End(r) ==
    /\ pc' = [pc EXCEPT ![r] = "idle"]
    /\ job' = [job EXCEPT ![r] = NoJob]
    /\ lock' = Release(r)

-----------------------------------------------------------------------------
\* createEnt: the row appears with what the request asks for.
Create(r, u, super, enabled) ==
    /\ pc[r] = "idle"
    /\ row[u].status = "absent"
    /\ row' = [row EXCEPT ![u] = [status |-> "live", super |-> super,
                                  enabled |-> enabled]]
    /\ UNCHANGED <<lock, pc, job, overlapped>>

\* The fields a request leaves out keep what Update read.
AppliedDefaulting(read, edit) ==
    [read EXCEPT !.super = IF "super" \in DOMAIN edit THEN edit.super ELSE @,
                 !.enabled = IF "enabled" \in DOMAIN edit THEN edit.enabled ELSE TRUE]
Applied(read, edit) ==
    [read EXCEPT !.super = IF "super" \in DOMAIN edit THEN edit.super ELSE @,
                 !.enabled = IF "enabled" \in DOMAIN edit THEN edit.enabled ELSE @]

Edits == UNION {[named -> BOOLEAN] : named \in SUBSET Switches}

\* Update finds its user and prepares the row, outside any transaction.
Update(r, u, edit) ==
    /\ row[u].status = "live"
    /\ Begin(r, [user |-> u, want |-> Applied(row[u], edit),
                 license |-> DOMAIN edit])
    /\ UNCHANGED <<row, lock, overlapped>>

\* Delete looks for its user only inside the transaction.
Delete(r, u) ==
    /\ row[u].status # "absent"
    /\ Begin(r, [user |-> u, want |-> Deleted, license |-> {}])
    /\ UNCHANGED <<row, lock, overlapped>>

\* What the request is about to write takes an active super administrator away.
Removes(r) == Active(job[r].user) /\ ~Counts(job[r].want)

\* SELECT ... FOR UPDATE; a row deleted while the request waited ends it.
LockRow(r) ==
    /\ pc[r] = "lock"
    /\ LET u == job[r].user IN
       /\ lock[u] = None
       /\ IF row[u].status = "live"
          THEN /\ lock' = [lock EXCEPT ![u] = r]
               /\ pc' = [pc EXCEPT ![r] = IF Removes(r) THEN "count" ELSE "commit"]
               /\ UNCHANGED job
          ELSE End(r)
    /\ UNCHANGED <<row, overlapped>>

AnyOtherSuperAdmin(u) ==
    \E v \in Users \ {u} : row[v].status = "live" /\ row[v].super
AnotherSuperAdmin(u) == \E v \in Users \ {u} : Active(v)

RefusedHoldingRow(r) ==
    /\ pc' = [pc EXCEPT ![r] = "idle"]
    /\ job' = [job EXCEPT ![r] = NoJob]
    /\ UNCHANGED lock
Refused(r) == End(r)

EnsureAnotherSuperAdmin(r) ==
    /\ pc[r] = "count"
    /\ IF AnotherSuperAdmin(job[r].user)
       THEN pc' = [pc EXCEPT ![r] = "commit"] /\ UNCHANGED <<job, lock>>
       ELSE Refused(r)
    /\ UNCHANGED <<row, overlapped>>

\* The UPDATE and the COMMIT; nobody else can have written the locked row.
Commit(r) ==
    /\ pc[r] = "commit"
    /\ LET u == job[r].user IN
       /\ row' = [row EXCEPT ![u] = job[r].want]
       /\ job' = [s \in Requests |->
                    IF s = r THEN NoJob
                    ELSE IF job[s].user = u THEN [job[s] EXCEPT !.license = Switches]
                    ELSE job[s]]
       /\ overlapped' =
            (overlapped \/ /\ Removes(r)
                           /\ \E s \in Requests \ {r} : pc[s] = "commit" /\ Removes(s))
    /\ pc' = [pc EXCEPT ![r] = "idle"]
    /\ lock' = Release(r)

\* Every error return rolls back.
Abort(r) ==
    /\ pc[r] # "idle"
    /\ End(r)
    /\ UNCHANGED <<row, overlapped>>

Progress(r) == LockRow(r) \/ EnsureAnotherSuperAdmin(r) \/ Commit(r)

Arrive(r) == \E u \in Users :
    \/ Delete(r, u)
    \/ \E edit \in Edits : Update(r, u, edit)
    \/ \E super, enabled \in BOOLEAN : Create(r, u, super, enabled)

Next == \E r \in Requests : Arrive(r) \/ Progress(r) \/ Abort(r)

Spec == Init /\ [][Next]_vars

\* A transaction that holds its row runs on; PostgreSQL grants a row to the
\* transactions that wait for it in turn.
Fairness == \A r \in Requests : WF_vars(Progress(r)) /\ SF_vars(LockRow(r))

FairSpec == Spec /\ Fairness
-----------------------------------------------------------------------------
\* The variables hold what the code stores, and a row is locked by the one
\* transaction that is between its SELECT FOR UPDATE and its end.
TypeOK ==
    /\ row \in [Users -> Row]
    /\ pc \in [Requests -> Steps]
    /\ job \in [Requests -> Job]
    /\ overlapped \in BOOLEAN
    /\ lock \in [Users -> Requests \cup {None}]
    /\ \A u \in Users, r \in Requests :
          lock[u] = r <=> pc[r] \in {"count", "commit"} /\ job[r].user = u

\* docs/rbac.md: "it is forbidden to disable, downgrade or delete the last
\* enabled, undeleted super administrator".
SuperAdminRemains == \E u \in Users : Active(u)

\* ensureAnotherSuperAdmin does its work but for one interleaving: the service
\* is left without an active super administrator only after two removals had
\* both been counted before either of them committed.
LossNeedsOverlap == SuperAdminRemains \/ overlapped

\* A switch of an existing user turns only by a request that named it, or by one
\* that had read the row before it changed (user.usecase Update), or with the
\* deletion of the user; and no edit, however old the row it read, brings a
\* deleted user back.
RowsChangeOnPurpose ==
    [][\A u \in Users :
          /\ row[u].status = "deleted" => row'[u] = row[u]
          /\ \A f \in Switches : row[u].status = "live" /\ row'[u][f] # row[u][f] =>
                \/ row'[u] = Deleted
                \/ \E r \in Requests : /\ pc[r] = "commit" /\ job[r].user = u
                                       /\ f \in job[r].license]_vars

\* No request waits forever for its row: whoever holds it, a refused removal
\* included, gives it back.
RowsComeFree == \A r \in Requests : pc[r] = "lock" ~> pc[r] # "lock"
=============================================================================

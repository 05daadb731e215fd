------------------------------ MODULE Relations ------------------------------
(***************************************************************************)
(* What the user and rbac services promise about who has which role and    *)
(* which role has which permission, apart from SQL, row locks and the      *)
(* order of statements: a request takes effect in one indivisible step, or *)
(* it fails and has none.  A relation is granted only between rows that    *)
(* can have it, and what is deleted takes its relations along.             *)
(***************************************************************************)
CONSTANTS Users, Roles, Perms, Requests, None

VARIABLES
    row,      \* existence of a user, role or permission
    enabled,  \* whether a role is
    granted,  \* the relations: pairs of a user and a role, or a role and a permission
    asked,    \* what a request is to do
    meanwhile \* what other replacements for its subject have granted since it asked

vars == <<row, enabled, granted, asked, meanwhile>>

Pairs == (Users \X Roles) \cup (Roles \X Perms)
Of(n) == {e \in Pairs : e[1] = n}
To(n) == {e \in Pairs : e[2] = n}

Live(n) == row[n] = "live"
Grantable(e) == Live(e[2]) /\ (e[2] \in Roles => enabled[e[2]])

Idle == [op |-> None, subject |-> None, want |-> {}, on |-> FALSE]
OnUser == {"createUser", "updateUser", "replaceUserRoles", "deleteUser"}
OnRole == {"replaceRolePermissions", "deleteRole", "updateRole"}
Task == [op: OnUser, subject: Users, want: SUBSET Pairs, on: BOOLEAN]
          \cup [op: OnRole, subject: Roles, want: SUBSET Pairs, on: BOOLEAN]
          \cup [op: {"deletePermission"}, subject: Perms, want: SUBSET Pairs, on: BOOLEAN]

Init ==
    /\ row \in [Users \cup Roles \cup Perms -> {"absent", "live"}]
    /\ enabled \in [Roles -> BOOLEAN]
    /\ granted \subseteq {e \in Pairs : Live(e[1]) /\ Live(e[2])}
    /\ asked = [r \in Requests |-> Idle]
    /\ meanwhile = [r \in Requests |-> {}]

Ask(r) ==
    /\ asked[r] = Idle
    /\ asked'[r] \in Task /\ asked'[r].want \subseteq Of(asked'[r].subject)
    /\ asked' = [asked EXCEPT ![r] = asked'[r]]
    /\ meanwhile' = [meanwhile EXCEPT ![r] = {}]
    /\ UNCHANGED <<row, enabled, granted>>

Ends(r, op) == asked[r].op = op /\ asked' = [asked EXCEPT ![r] = Idle]
Fail(r) == Ends(r, asked[r].op) /\ UNCHANGED <<row, enabled, granted, meanwhile>>

Removed(n) == Live(n) /\ row' = [row EXCEPT ![n] = "deleted"] /\ UNCHANGED <<enabled, meanwhile>>

\* The subject gets what was asked for, and keeps some of what it had.
Assigned(r, kept) ==
    /\ \A e \in asked[r].want : Grantable(e)
    /\ granted' = (granted \ Of(asked[r].subject)) \cup asked[r].want \cup kept
    /\ UNCHANGED enabled

CreateUser(r) ==
    LET u == asked[r].subject IN
    /\ Ends(r, "createUser") /\ Assigned(r, {})
    /\ row[u] = "absent" /\ row' = [row EXCEPT ![u] = "live"] /\ UNCHANGED meanwhile

UpdateUser(r) ==
    /\ Ends(r, "updateUser") /\ Live(asked[r].subject) /\ Assigned(r, {})
    /\ UNCHANGED <<row, meanwhile>>

\* ReplaceUserRoles and ReplaceRolePermissions: of what its subject had a request
\* keeps at most what others that replace the same relations have granted since it
\* asked.  One that met no other leaves exactly what it was asked for.
Replace(r) ==
    /\ \E op \in {"replaceUserRoles", "replaceRolePermissions"},
          kept \in SUBSET (granted \cap Of(asked[r].subject) \cap meanwhile[r]) :
             Ends(r, op) /\ Live(asked[r].subject) /\ Assigned(r, kept)
    /\ meanwhile' = [s \in Requests |->
                       IF s # r /\ asked[s].subject = asked[r].subject
                       THEN meanwhile[s] \cup asked[r].want ELSE meanwhile[s]]
    /\ UNCHANGED row

DeleteUser(r) ==
    LET u == asked[r].subject IN
    Ends(r, "deleteUser") /\ Removed(u) /\ granted' = granted \ Of(u)

\* A role that a user has is not deleted.
DeleteRole(r) ==
    LET n == asked[r].subject IN
    /\ Ends(r, "deleteRole") /\ Removed(n)
    /\ granted \cap To(n) = {} /\ granted' = granted \ Of(n)

DeletePermission(r) ==
    LET n == asked[r].subject IN
    Ends(r, "deletePermission") /\ Removed(n) /\ granted' = granted \ To(n)

UpdateRole(r) ==
    LET n == asked[r].subject IN
    /\ Ends(r, "updateRole") /\ Live(n)
    /\ enabled' = [enabled EXCEPT ![n] = asked[r].on]
    /\ UNCHANGED <<row, granted, meanwhile>>

Next ==
    \E r \in Requests :
        \/ Ask(r) \/ Fail(r)
        \/ CreateUser(r) \/ UpdateUser(r) \/ Replace(r) \/ UpdateRole(r)
        \/ DeleteUser(r) \/ DeleteRole(r) \/ DeletePermission(r)

Spec == Init /\ [][Next]_vars
=============================================================================

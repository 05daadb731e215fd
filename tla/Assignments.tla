----------------------------- MODULE Assignments -----------------------------
(***************************************************************************)
(* Who has which role and which role has which permission: the relation    *)
(* tables sys_user_role and sys_role_menu, and the transactions of the     *)
(* user and rbac services that write them.  The database has no foreign    *)
(* keys; row locks keep the relations consistent.                          *)
(*                                                                         *)
(* The isolation is READ COMMITTED.  A statement sees what is committed    *)
(* when it starts and what its own transaction wrote; when it finds a row  *)
(* that another transaction has written or locked it waits for the end of  *)
(* that transaction and then looks at the row again.  A relation row is    *)
(* an edge; draft holds its uncommitted version and so its write lock.     *)
(*                                                                         *)
(* A request is one goroutine with one transaction; its steps are the      *)
(* statements.  Notifying the access control afterwards is left to Session *)
(* and PolicySync.                                                         *)
(***************************************************************************)
EXTENDS Naturals, FiniteSets

CONSTANTS Users, Roles, Perms,  \* primary keys, told apart by table
          Requests, None

ASSUME AssignmentsAssumption ==
    /\ Users \cup Roles \cup Perms \subseteq Nat
    /\ Users \cap Roles = {} /\ Users \cap Perms = {} /\ Roles \cap Perms = {}
    /\ None \notin Requests \cup Users \cup Roles \cup Perms
    /\ None \notin (Users \X Roles) \cup (Roles \X Perms)

Rows  == Users \cup Roles \cup Perms
Edges == (Users \X Roles) \cup (Roles \X Perms)
Owner(e)  == e[1]
Target(e) == e[2]
Of(n)     == {e \in Edges : Owner(e) = n}
To(n)     == {e \in Edges : Target(e) = n}

VARIABLES
    row,      \* committed existence of a user, role or permission
    enabled,  \* sys_role.is_enable, committed
    edge,     \* committed relation rows; "gone" is soft-deleted
    draft,    \* uncommitted relation rows: who wrote them, and what
    share,    \* FOR SHARE locks
    excl,     \* FOR UPDATE locks, and those an UPDATE takes
    pc, job,  \* the requests
    meanwhile \* history: request -> what others that replace the relations of the
              \* same owner have granted by a commit since it began

tables == <<row, enabled, edge, meanwhile>>
locks  == <<draft, share, excl>>
vars   == <<tables, locks, pc, job>>

Writes  == {"none", "live", "gone"}
NoDraft == [by |-> None, to |-> "none"]
Draft   == [by: Requests \cup {None}, to: Writes]

Replacements == {"createUser", "updateUser", "replaceUserRoles",
                 "replaceRolePermissions"}
Deletions    == {"deleteUser", "deleteRole", "deletePermission"}
Ops   == Replacements \cup Deletions \cup {"updateRole"}
Steps == {"new", "lock", "resolve", "take", "count", "affected", "delete",
          "clear", "clearing", "write", "insert", "restore", "commit", "done"}

\* want: the edges a replacement is to leave live; on: the switch of a role
\* update; todo: the rows a statement has still to visit; at: the row being
\* written; seen: the users a role update will invalidate.
Job == [op: Ops \cup {None}, subject: Rows \cup {None}, want: SUBSET Edges,
        on: BOOLEAN, todo: SUBSET Edges, at: Edges \cup {None}, seen: SUBSET Users]
NoJob == [op |-> None, subject |-> None, want |-> {}, on |-> FALSE,
          todo |-> {}, at |-> None, seen |-> {}]

Init ==
    /\ row \in [Rows -> {"absent", "live"}]
    /\ \A n \in Roles \cup Perms : row[n] = "live"
    /\ enabled \in [Roles -> BOOLEAN]
    /\ edge \in [Edges -> Writes]
    /\ \A e \in Edges : row[Owner(e)] = "absent" => edge[e] = "none"
    /\ draft = [e \in Edges |-> NoDraft]
    /\ share = [n \in Rows |-> {}]
    /\ excl = [n \in Rows |-> None]
    /\ pc = [r \in Requests |-> "new"]
    /\ job = [r \in Requests |-> NoJob]
    /\ meanwhile = [r \in Requests |-> {}]

-----------------------------------------------------------------------------
Op(r)      == job[r].op
Subject(r) == job[r].subject

VisibleTo(r, e) == IF draft[e].by = r THEN draft[e].to ELSE edge[e]
EdgeFree(r, e)  == draft[e].by \in {None, r}
ShareFree(r, n) == excl[n] \in {None, r}
ExclFreeOfUpdates(r, n) == excl[n] \in {None, r}
ExclFree(r, n)  == excl[n] \in {None, r} /\ share[n] \subseteq {r}

Existing(n)   == row[n] = "live"
Assignable(n) == Existing(n) /\ (n \in Roles => enabled[n])

Goto(r, step)       == pc' = [pc EXCEPT ![r] = step]
GotoWith(r, step, todo) ==
    Goto(r, step) /\ job' = [job EXCEPT ![r].todo = todo]

\* The end of a transaction: its locks fall, its drafts become rows or nothing.
Unlock(r) ==
    /\ draft' = [e \in Edges |-> IF draft[e].by = r THEN NoDraft ELSE draft[e]]
    /\ share' = [n \in Rows |-> share[n] \ {r}]
    /\ excl' = [n \in Rows |-> IF excl[n] = r THEN None ELSE excl[n]]
    /\ pc' = [pc EXCEPT ![r] = "done"]
    /\ job' = [job EXCEPT ![r] = NoJob]
Rollback(r) == Unlock(r) /\ UNCHANGED tables

-----------------------------------------------------------------------------
(* The order of the statements *)

FirstUnlocked(op) == CASE op = "createUser" -> "resolve"
                       [] op = "deletePermission" -> "clear"
                       [] OTHER -> "lock"
First(op) == IF op = "createUser" THEN "resolve" ELSE "lock"

Sharing == {"replaceUserRoles", "replaceRolePermissions"}

AfterLock(op) ==
    CASE op \in Replacements -> "resolve"
      [] op = "deleteUser" -> "delete"
      [] op = "deleteRole" -> "count"
      [] op = "deletePermission" -> "clear"
      [] op = "updateRole" -> "affected"

AfterClear(op) ==
    CASE op \in Replacements -> "write"
      [] op = "deleteUser" -> "commit"
      [] op \in {"deleteRole", "deletePermission"} -> "delete"

AfterDelete(op) == IF op = "deleteUser" THEN "clear" ELSE "commit"

\* The relation rows that a transaction soft-deletes first.
ScopeAskedFor(r) == CASE Op(r) \in Sharing -> job[r].want
                      [] Op(r) = "deletePermission" -> To(Subject(r))
                      [] OTHER -> Of(Subject(r))
Scope(r) == IF Op(r) = "deletePermission" THEN To(Subject(r)) ELSE Of(Subject(r))

-----------------------------------------------------------------------------
(* The statements *)

Start(r, op, n, want, on) ==
    /\ pc[r] = "new"
    /\ job' = [job EXCEPT ![r] = [NoJob EXCEPT !.op = op, !.subject = n,
                                               !.want = want, !.on = on]]
    /\ Goto(r, First(op))
    /\ UNCHANGED <<tables, locks>>

\* SELECT ... FOR SHARE or FOR UPDATE of the subject.
Lock(r) ==
    /\ pc[r] = "lock"
    /\ LET n == Subject(r) IN
       /\ IF Op(r) \in Sharing THEN ShareFree(r, n) ELSE ExclFree(r, n)
       /\ IF row[n] = "live"
          THEN /\ IF Op(r) \in Sharing
                  THEN share' = [share EXCEPT ![n] = @ \cup {r}] /\ UNCHANGED excl
                  ELSE excl' = [excl EXCEPT ![n] = r] /\ UNCHANGED share
               /\ Goto(r, AfterLock(Op(r)))
               /\ UNCHANGED <<tables, draft, job>>
          ELSE Rollback(r)

\* resolveRoleIDs, rolesByCodes, permissionsByCodes: every code must name an
\* assignable row, both in the snapshot of the query and when it is locked.
Resolve(r) ==
    /\ pc[r] = "resolve"
    /\ IF \A e \in job[r].want : Assignable(Target(e))
       THEN /\ GotoWith(r, IF job[r].want = {} THEN "clear" ELSE "take", job[r].want)
            /\ UNCHANGED <<tables, locks>>
       ELSE Rollback(r)

\* ORDER BY id ... FOR SHARE.
Foremost(e, todo) == \A f \in todo : Target(e) <= Target(f)

TakenUnlocked(r, n) == share
Taken(r, n) == [share EXCEPT ![n] = @ \cup {r}]

Take(r) ==
    /\ pc[r] = "take"
    /\ \E e \in job[r].todo :
       LET rest == job[r].todo \ {e} IN
       /\ Foremost(e, job[r].todo)
       /\ ShareFree(r, Target(e))
       /\ IF Assignable(Target(e))
          THEN /\ share' = Taken(r, Target(e))
               /\ GotoWith(r, IF rest = {} THEN "clear" ELSE "take", rest)
               /\ UNCHANGED <<tables, draft, excl>>
          ELSE Rollback(r)

\* DeleteRole refuses while a user has the role.
UncountedUsers(n) == n \notin Roles
HasUsers(n) == \E e \in To(n) : edge[e] = "live"

Count(r) ==
    /\ pc[r] = "count"
    /\ IF HasUsers(Subject(r))
       THEN Rollback(r)
       ELSE Goto(r, "clear") /\ UNCHANGED <<tables, locks, job>>

\* userIDsForRole: whom the update of a role concerns.
Affected(r) ==
    /\ pc[r] = "affected"
    /\ job' = [job EXCEPT ![r].seen =
                 {u \in Users : edge[<<u, Subject(r)>>] = "live"}]
    /\ Goto(r, "commit")
    /\ UNCHANGED <<tables, locks>>

\* UPDATE ... SET deleted_at of the subject, which locks it if need be.
Delete(r) ==
    /\ pc[r] = "delete"
    /\ ExclFree(r, Subject(r))
    /\ excl' = [excl EXCEPT ![Subject(r)] = r]
    /\ Goto(r, AfterDelete(Op(r)))
    /\ UNCHANGED <<tables, draft, share, job>>

\* UPDATE ... SET deleted_at WHERE ... AND deleted_at IS NULL, over the rows
\* its snapshot shows.
Clear(r) ==
    /\ pc[r] = "clear"
    /\ LET todo == {e \in Scope(r) : VisibleTo(r, e) = "live"} IN
       IF todo = {}
       THEN GotoWith(r, AfterClear(Op(r)), job[r].want)
       ELSE GotoWith(r, "clearing", todo)
    /\ UNCHANGED <<tables, locks>>

\* A row that is no longer live when its lock is had is left alone.
Clearing(r) ==
    /\ pc[r] = "clearing"
    /\ \E e \in job[r].todo :
       LET rest == job[r].todo \ {e} IN
       /\ EdgeFree(r, e)
       /\ draft' = IF VisibleTo(r, e) = "live"
                   THEN [draft EXCEPT ![e] = [by |-> r, to |-> "gone"]]
                   ELSE draft
       /\ IF rest = {}
          THEN GotoWith(r, AfterClear(Op(r)), job[r].want)
          ELSE GotoWith(r, "clearing", rest)
    /\ UNCHANGED <<tables, share, excl>>

\* The rbac service writes its relations in the order of their locks, the user
\* service in the order the client gave.
Turn(r, e) == Op(r) \in Sharing => Foremost(e, job[r].todo)

\* SELECT of one relation row, soft-deleted ones included.
Write(r) ==
    /\ pc[r] = "write"
    /\ IF job[r].todo = {}
       THEN Goto(r, "commit") /\ UNCHANGED job
       ELSE \E e \in job[r].todo :
            /\ Turn(r, e)
            /\ Goto(r, IF VisibleTo(r, e) = "none" THEN "insert" ELSE "restore")
            /\ job' = [job EXCEPT ![r].todo = @ \ {e}, ![r].at = e]
    /\ UNCHANGED <<tables, locks>>

Drafted(r, e, to) == [draft EXCEPT ![e] = [by |-> r, to |-> to]]

\* The unique index on the pair makes an insertion wait for another one that
\* is not committed, and fail if it was.
Insert(r) ==
    /\ pc[r] = "insert"
    /\ LET e == job[r].at IN
       /\ EdgeFree(r, e)
       /\ IF edge[e] = "none"
          THEN /\ draft' = Drafted(r, e, "live")
               /\ Goto(r, "write")
               /\ UNCHANGED <<tables, share, excl, job>>
          ELSE Rollback(r)

Restore(r) ==
    /\ pc[r] = "restore"
    /\ LET e == job[r].at IN
       /\ EdgeFree(r, e)
       /\ draft' = Drafted(r, e, "live")
    /\ Goto(r, "write")
    /\ UNCHANGED <<tables, share, excl, job>>

\* Who replaces the relations of the same owner at the same time.
Rivals(r) == {s \in Requests \ {r} : Op(r) \in Sharing /\ Subject(s) = Subject(r)}

Commit(r) ==
    /\ pc[r] = "commit"
    /\ edge' = [e \in Edges |-> IF draft[e].by = r THEN draft[e].to ELSE edge[e]]
    /\ row' = IF Op(r) \in Deletions THEN [row EXCEPT ![Subject(r)] = "deleted"]
              ELSE IF Op(r) = "createUser" THEN [row EXCEPT ![Subject(r)] = "live"]
              ELSE row
    /\ enabled' = IF Op(r) = "updateRole"
                  THEN [enabled EXCEPT ![Subject(r)] = job[r].on] ELSE enabled
    /\ meanwhile' = [s \in Requests |-> IF s \in Rivals(r) THEN meanwhile[s] \cup job[r].want
                                                           ELSE meanwhile[s]]
    /\ Unlock(r)

\* An error return, a lost connection, or the victim of a deadlock.
Abort(r) == pc[r] \notin {"new", "done"} /\ Rollback(r)

-----------------------------------------------------------------------------
\* A new user gets a primary key of its own.
Unborn(u) == row[u] = "absent" /\ \A r \in Requests : Subject(r) # u

Arrive(r) ==
    \/ \E u \in Users : \E want \in SUBSET Of(u) :
          \/ Unborn(u) /\ Start(r, "createUser", u, want, FALSE)
          \/ row[u] # "absent" /\ \E op \in {"updateUser", "replaceUserRoles"} :
                                    Start(r, op, u, want, FALSE)
    \/ \E u \in Users : row[u] # "absent" /\ Start(r, "deleteUser", u, {}, FALSE)
    \/ \E n \in Roles : \/ \E on \in BOOLEAN : Start(r, "updateRole", n, {}, on)
                        \/ Start(r, "deleteRole", n, {}, FALSE)
                        \/ \E want \in SUBSET Of(n) :
                              Start(r, "replaceRolePermissions", n, want, FALSE)
    \/ \E n \in Perms : Start(r, "deletePermission", n, {}, FALSE)

Statement(r) ==
    \/ Lock(r) \/ Resolve(r) \/ Take(r) \/ Count(r) \/ Affected(r) \/ Delete(r)
    \/ Clear(r) \/ Clearing(r) \/ Write(r) \/ Insert(r) \/ Restore(r) \/ Commit(r)

Ended == \A r \in Requests : pc[r] = "done"

Next == \/ \E r \in Requests : Arrive(r) \/ Statement(r) \/ Abort(r)
        \/ Ended /\ UNCHANGED vars

Spec == Init /\ [][Next]_vars
-----------------------------------------------------------------------------
(* Properties *)

\* The variables hold what the tables and the lock manager hold, and a row is
\* not locked for update and shared by different transactions at once.
TypeOK ==
    /\ row \in [Rows -> {"absent", "live", "deleted"}]
    /\ enabled \in [Roles -> BOOLEAN]
    /\ edge \in [Edges -> Writes]
    /\ draft \in [Edges -> Draft]
    /\ share \in [Rows -> SUBSET Requests]
    /\ excl \in [Rows -> Requests \cup {None}]
    /\ pc \in [Requests -> Steps]
    /\ job \in [Requests -> Job]
    /\ meanwhile \in [Requests -> SUBSET Edges]
    /\ \A n \in Rows : excl[n] # None => share[n] \subseteq {excl[n]}

\* README.md: "the consistency of the relations is maintained by application
\* transactions and row locks".  No committed relation points from or to a row
\* that is deleted, whatever assignments and deletions overlap.
NoDanglingRelation ==
    \A e \in Edges : edge[e] = "live" => row[Owner(e)] = "live" /\ row[Target(e)] = "live"

\* When a role update is about to commit, the users it will invalidate include
\* all who have the role: an assignment cannot slip in between (UpdateRole).
UpdateSeesHolders ==
    \A r \in Requests :
        pc[r] = "commit" /\ Op(r) = "updateRole" =>
            \A u \in Users : edge[<<u, Subject(r)>>] = "live" => u \in job[r].seen

\* The relations of its subject as the transaction of a request sees them.
Granted(r) == {e \in Of(Subject(r)) : VisibleTo(r, e) = "live"}
Replaced(r) == pc[r] = "commit" /\ Op(r) \in Replacements

\* A replacement about to commit grants everything it was asked for; and when it
\* holds its user for update or has created it (user.persistence) it grants nothing else, whatever
\* other requests wrote between its statements.
ReplacementHolds ==
    \A r \in Requests : Replaced(r) =>
        /\ job[r].want \subseteq Granted(r)
        /\ Op(r) \in {"createUser", "updateUser"} => Granted(r) = job[r].want

\* A request waits for another one.
WaitsFor(r, s) ==
    /\ r # s
    /\ \/ /\ pc[r] = "lock"
          /\ \/ excl[Subject(r)] = s
             \/ Op(r) \notin Sharing /\ s \in share[Subject(r)]
       \/ /\ pc[r] = "take"
          /\ \E e \in job[r].todo : Foremost(e, job[r].todo) /\ excl[Target(e)] = s
       \/ pc[r] = "delete" /\ (excl[Subject(r)] = s \/ s \in share[Subject(r)])
       \/ pc[r] = "clearing" /\ \E e \in job[r].todo : draft[e].by = s
       \/ pc[r] \in {"insert", "restore"} /\ draft[job[r].at].by = s

Stuck(D) == D # {} /\ \A r \in D : \E s \in D : WaitsFor(r, s)

\* In every group of requests that wait for each other, however many, there are
\* two replacements for one and the same owner, which share its row; or deletions
\* of two permissions, each visiting the roles in its own order, and calls that
\* visit the permissions of two roles.  The order of the locks (ORDER BY id, and
\* the subject before all) excludes every other deadlock.
DeadlocksAreKnown ==
    \A D \in SUBSET Requests : Stuck(D) =>
        \/ \E r, s \in D : /\ r # s /\ Subject(r) = Subject(s)
                           /\ Op(r) \in Sharing /\ Op(s) \in Sharing
        \/ \E p, q, r, s \in D :
              /\ Op(p) = "deletePermission" /\ Op(q) = "deletePermission"
              /\ {Op(r), Op(s)} \subseteq {"deleteRole", "replaceRolePermissions"}
              /\ Subject(p) # Subject(q) /\ Subject(r) # Subject(s)

\* The services implement Relations, by the rows that are committed and not
\* soft-deleted and what the requests have to do.
Granting == INSTANCE Relations WITH
    granted <- {e \in Edges : edge[e] = "live"},
    asked <- [r \in Requests |-> [op |-> job[r].op, subject |-> job[r].subject,
                                   want |-> job[r].want, on |-> job[r].on]]

\* Seen through what is committed, every interleaving of statements, rollbacks and
\* victims of deadlocks is a behaviour of Relations: a replacement grants all it was
\* asked for, to live and enabled rows only.  If it holds its user for update its
\* subject is left with nothing else; if it shares the row, with nothing else but
\* what another replacement has granted there since it began.  A deletion takes
\* exactly its own relations along, and no role is deleted that a user has.
ImplementsRelations == Granting!Spec

LiveOf(n) == {e \in Of(n) : edge[e] = "live"}

\* rbac.service.go: ReplaceUserRoles "atomically replaces" the roles; docs/rbac.md:
\* it takes the complete set.  So when a replacement commits, its subject is left
\* with what it asked for, or with what a concurrent one, as if it were the later,
\* had put there: never with a mixture.
ReplacementIsWhole ==
    [][\A r \in Requests, u \in Users :
          pc[r] = "commit" /\ Op(r) = "replaceUserRoles" /\ u = Subject(r)
             /\ pc'[r] = "done" =>
                LiveOf(u)' \in {job[r].want, LiveOf(u)}]_vars
=============================================================================

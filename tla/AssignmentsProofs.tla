-------------------------- MODULE AssignmentsProofs --------------------------
(***************************************************************************)
(* For any number of users, roles, permissions and concurrent requests:    *)
(* the row locks keep the relations free of dangling rows, a role update   *)
(* sees all holders of the role, a replacement grants what it was asked    *)
(* for, only deadlocks of two known kinds are possible, and the whole is   *)
(* an implementation of Relations.                                         *)
(***************************************************************************)
EXTENDS Assignments, TLAPS

\* What the assumptions on the constants say of None.
LEMMA NoneIsFresh == None \notin Requests /\ None \notin Rows /\ None \notin Edges
BY AssignmentsAssumption DEF Rows, Edges

\* The ends of a relation row.
LEMMA EdgeEnds ==
    /\ \A e \in Edges : Owner(e) \in Rows /\ Target(e) \in Rows
    /\ \A u \in Users, n \in Roles :
          <<u, n>> \in Edges /\ Owner(<<u, n>>) = u /\ Target(<<u, n>>) = n
    /\ \A e \in Edges : Target(e) \in Roles => Owner(e) \in Users
    /\ \A e \in Edges : Owner(e) \in Users => Target(e) \in Roles
    /\ \A e \in Edges : Target(e) \notin Users
BY AssignmentsAssumption DEF Edges, Rows, Owner, Target

OnUsers == {"createUser", "updateUser", "replaceUserRoles", "deleteUser"}
OnRoles == {"replaceRolePermissions", "deleteRole", "updateRole"}
Writing == {"write", "insert", "restore", "commit"}
Ready   == {"clear", "clearing"} \cup Writing
Taking  == {"resolve", "take"} \cup Ready

StepsOf(op) ==
    CASE op = "createUser" -> Taking
      [] op \in Replacements \ {"createUser"} -> {"lock"} \cup Taking
      [] op \in Deletions ->
           {"lock", "delete", "clear", "clearing", "commit"}
             \cup (IF op = "deleteRole" THEN {"count"} ELSE {})
      [] op = "updateRole" -> {"lock", "affected", "commit"}

UnderWay(r) == pc[r] \notin {"new", "done"}

\* A request under way has an operation, a subject of the kind of that
\* operation, and is at a statement of it; what it has still to visit is its own.
JobOK(r) ==
    /\ ~UnderWay(r) => job[r] = NoJob
    /\ UnderWay(r) =>
        /\ Op(r) \in Ops /\ pc[r] \in StepsOf(Op(r))
        /\ Op(r) \in OnUsers => Subject(r) \in Users
        /\ Op(r) \in OnRoles => Subject(r) \in Roles
        /\ Op(r) = "deletePermission" => Subject(r) \in Perms
        /\ job[r].want \subseteq Of(Subject(r))
        /\ Op(r) \notin Replacements => job[r].want = {}
        /\ pc[r] \in {"take"} \cup Writing => job[r].todo \subseteq job[r].want
        /\ pc[r] = "clearing" => job[r].todo \subseteq Scope(r)
        /\ pc[r] \in {"lock", "count", "affected", "delete", "commit"} => job[r].todo = {}
        /\ pc[r] \in {"insert", "restore"} => job[r].at \in job[r].want

\* Past its first statement a request holds its subject, and the row is live; a
\* user who is being created is nobody else's subject.
HoldsSubject(r) ==
    /\ UnderWay(r) /\ Op(r) = "createUser" =>
          /\ row[Subject(r)] = "absent"
          /\ \A s \in Requests \ {r} : Subject(s) # Subject(r)
    /\ UnderWay(r) /\ Op(r) # "createUser" /\ pc[r] # "lock" =>
          /\ row[Subject(r)] = "live"
          /\ IF Op(r) \in Sharing THEN r \in share[Subject(r)]
             ELSE excl[Subject(r)] = r

\* ... and the rows it is going to assign, which can still be assigned.
HoldsTargets(r) ==
    Op(r) \in Replacements =>
        \A e \in job[r].want :
            (pc[r] = "take" /\ e \notin job[r].todo) \/ pc[r] \in Ready =>
                /\ row[Target(e)] = "live" /\ r \in share[Target(e)]
                /\ Target(e) \in Roles => enabled[Target(e)]

\* The drafts of a request: only what it is to grant becomes live, and what it
\* has dealt with is.
Drafts(r) ==
    /\ \A e \in Edges : draft[e].by = r =>
          /\ UnderWay(r)
          /\ draft[e].to = "live" =>
                Op(r) \in Replacements /\ pc[r] \in Writing /\ e \in job[r].want
    /\ Op(r) \in Replacements /\ pc[r] \in Writing =>
          \A e \in job[r].want \ job[r].todo :
             \/ draft[e] = [by |-> r, to |-> "live"]
             \/ pc[r] \in {"insert", "restore"} /\ e = job[r].at

\* Once the relations of a subject held for update are cleared, no other request
\* makes one of them live again.
Cleared(r) ==
    /\ pc[r] = "clearing" /\ Op(r) \notin Sharing =>
          \A e \in Scope(r) \ job[r].todo : VisibleTo(r, e) # "live"
    /\ Op(r) \in {"createUser", "updateUser"} /\ pc[r] \in Writing =>
          \A e \in Of(Subject(r)) : VisibleTo(r, e) = "live" => e \in job[r].want
    /\ \/ Op(r) = "deleteUser" /\ pc[r] = "commit"
       \/ Op(r) \in {"deleteRole", "deletePermission"} /\ pc[r] \in {"delete", "commit"}
       => \A e \in Scope(r) : VisibleTo(r, e) # "live"

\* A role without users gets none while it is being deleted.
Counted(r) ==
    Op(r) = "deleteRole" /\ pc[r] \in {"clear", "clearing", "delete", "commit"} =>
        \A e \in To(Subject(r)) : edge[e] # "live"

\* Nor does a role get more users than its update has seen.
Seen(r) ==
    pc[r] = "commit" /\ Op(r) = "updateRole" =>
        \A u \in Users : edge[<<u, Subject(r)>>] = "live" => u \in job[r].seen

RequestOK(r) ==
    /\ JobOK(r) /\ HoldsSubject(r) /\ HoldsTargets(r) /\ Drafts(r)
    /\ Cleared(r) /\ Counted(r) /\ Seen(r)

IInv == TypeOK /\ NoDanglingRelation /\ \A r \in Requests : RequestOK(r)

USE NoneIsFresh DEF vars, tables, locks

-----------------------------------------------------------------------------
\* The initial jobs type.
LEMMA NoJobType == NoJob \in Job /\ NoDraft \in Draft
BY DEF NoJob, Job, NoDraft, Draft, Writes

\* Every initial state satisfies the inductive invariant.
LEMMA InitIInv == Init => IInv
<1> SUFFICES ASSUME Init PROVE IInv
  OBVIOUS
<1>1. TypeOK
  BY NoJobType DEF Init, TypeOK, Steps
<1>2. NoDanglingRelation
  <2> SUFFICES ASSUME NEW e \in Edges, edge[e] = "live"
               PROVE  row[Owner(e)] = "live" /\ row[Target(e)] = "live"
    BY DEF NoDanglingRelation
  <2> QED
    BY EdgeEnds DEF Init, Rows
<1>3. ASSUME NEW r \in Requests PROVE RequestOK(r)
  <2>1. pc[r] = "new" /\ job[r] = NoJob /\ \A e \in Edges : draft[e].by # r
    BY DEF Init, NoDraft
  <2>2. JobOK(r) /\ HoldsSubject(r) /\ HoldsTargets(r) /\ Drafts(r)
    BY <2>1 DEF JobOK, UnderWay, HoldsSubject, HoldsTargets, Drafts, NoJob, Op, Ready,
                Writing
  <2>3. Cleared(r) /\ Counted(r) /\ Seen(r)
    BY <2>1 DEF Cleared, Counted, Seen, Writing, Op, NoJob
  <2> QED
    BY <2>2, <2>3 DEF RequestOK
<1> QED
  BY <1>1, <1>2, <1>3 DEF IInv

-----------------------------------------------------------------------------
\* A statement of one request that does not commit leaves the others as they are.
LEMMA StepKeeps ==
    ASSUME IInv, NEW r \in Requests, UNCHANGED tables, TypeOK', RequestOK(r)',
           \A s \in Requests \ {r} : pc'[s] = pc[s] /\ job'[s] = job[s],
           \A s \in Requests \ {r} :
              UnderWay(s) /\ Op(s) = "createUser" => job'[r].subject # Subject(s),
           \A e \in Edges : draft'[e] = draft[e] \/
              (draft[e].by \in {None, r} /\ draft'[e].by \in {None, r}),
           \A n \in Rows : share'[n] \ {r} = share[n] \ {r},
           \A n \in Rows : excl'[n] = excl[n] \/
              (excl[n] \in {None, r} /\ excl'[n] \in {None, r})
    PROVE  IInv'
<1>1. NoDanglingRelation'
  BY DEF IInv, NoDanglingRelation
<1>2. ASSUME NEW s \in Requests \ {r} PROVE RequestOK(s)'
  <2>0. /\ RequestOK(s) /\ pc'[s] = pc[s] /\ job'[s] = job[s] /\ s # None /\ s # r
        /\ row' = row /\ edge' = edge
    BY DEF IInv
  <2>1. /\ \A e \in Edges : draft[e].by = s \/ draft'[e].by = s => draft'[e] = draft[e]
        /\ \A n \in Rows : (s \in share'[n]) = (s \in share[n])
        /\ \A n \in Rows : (excl'[n] = s) = (excl[n] = s)
    BY <2>0
  <2>2. JobOK(s)'
    BY <2>0 DEF RequestOK, JobOK, UnderWay, Op, Subject, Scope
  <2>3. UnderWay(s) => Subject(s) \in Rows /\ Subject(s) # None
    BY <2>0 DEF RequestOK, JobOK, Rows, OnUsers, OnRoles, Ops, Replacements, Deletions
  <2>4. HoldsSubject(s)'
    <3>1. ASSUME UnderWay(s), Op(s) = "createUser", NEW t \in Requests \ {s}
          PROVE  job'[t].subject # Subject(s)
      BY <3>1, <2>0, <2>3 DEF RequestOK, HoldsSubject, Subject
    <3> QED
      BY <3>1, <2>0, <2>1, <2>3 DEF RequestOK, HoldsSubject, UnderWay, Op, Subject
  <2>5. HoldsTargets(s)'
    <3>1. job[s].want \subseteq Edges
      BY DEF IInv, TypeOK, Job
    <3> QED
      BY <3>1, <2>0, <2>1, EdgeEnds DEF RequestOK, HoldsTargets, Op
  <2>6. Drafts(s)'
    <3>1. job[s].want \subseteq Edges
      BY DEF IInv, TypeOK, Job
    <3> QED
      BY <3>1, <2>0, <2>1 DEF RequestOK, Drafts, Op, UnderWay
  <2>7. \A e \in Edges : VisibleTo(s, e)' = VisibleTo(s, e)
    BY <2>0, <2>1 DEF VisibleTo
  <2>8. Cleared(s)'
    BY <2>0, <2>7 DEF RequestOK, Cleared, Op, Subject, Scope, Of, To
  <2>9. Counted(s)' /\ Seen(s)'
    BY <2>0 DEF RequestOK, Counted, Seen, Op, Subject
  <2> QED
    BY <2>2, <2>4, <2>5, <2>6, <2>8, <2>9 DEF RequestOK
<1> QED
  BY <1>1, <1>2 DEF IInv

\* A request that keeps or forgets its subject stays clear of users being created.
LEMMA SubjectKept ==
    ASSUME IInv, NEW r \in Requests, job'[r].subject \in {job[r].subject, None}
    PROVE  \A s \in Requests \ {r} :
              UnderWay(s) /\ Op(s) = "createUser" => job'[r].subject # Subject(s)
<1> SUFFICES ASSUME NEW s \in Requests \ {r}, UnderWay(s), Op(s) = "createUser"
             PROVE  job'[r].subject # Subject(s)
  OBVIOUS
<1>1. Subject(s) \in Users /\ Subject(s) # None
  BY DEF IInv, RequestOK, JobOK, OnUsers, Rows
<1> QED
  BY <1>1 DEF IInv, RequestOK, HoldsSubject, Subject

\* What the end of a transaction does to its request and its locks.
LEMMA UnlockFacts ==
    ASSUME TypeOK, NEW r \in Requests, Unlock(r)
    PROVE  /\ pc'[r] = "done" /\ job'[r] = NoJob
           /\ \A s \in Requests \ {r} : pc'[s] = pc[s] /\ job'[s] = job[s]
           /\ \A e \in Edges : draft'[e] = IF draft[e].by = r THEN NoDraft ELSE draft[e]
           /\ \A n \in Rows : share'[n] = share[n] \ {r}
           /\ \A n \in Rows : excl'[n] = IF excl[n] = r THEN None ELSE excl[n]
           /\ draft' \in [Edges -> Draft] /\ share' \in [Rows -> SUBSET Requests]
           /\ excl' \in [Rows -> Requests \cup {None}]
           /\ pc' \in [Requests -> Steps] /\ job' \in [Requests -> Job]
           /\ \A n \in Rows : excl'[n] # None => share'[n] \subseteq {excl'[n]}
<1>1. /\ draft' \in [Edges -> Draft] /\ share' \in [Rows -> SUBSET Requests]
      /\ excl' \in [Rows -> Requests \cup {None}]
      /\ pc' \in [Requests -> Steps] /\ job' \in [Requests -> Job]
  BY NoJobType DEF Unlock, TypeOK, Steps
<1> QED
  BY <1>1 DEF Unlock, TypeOK

\* A request that is done satisfies its part of the invariant.
LEMMA DoneOK ==
    ASSUME NEW r \in Requests, pc'[r] \in {"new", "done"}, job'[r] = NoJob,
           \A e \in Edges : draft'[e].by # r
    PROVE  RequestOK(r)'
BY DEF RequestOK, JobOK, UnderWay, HoldsSubject, HoldsTargets, Drafts, Cleared, Counted,
       Seen, NoJob, Op, Ready, Writing

\* A rollback keeps the invariant.
LEMMA RollbackInv == ASSUME IInv, NEW r \in Requests, Rollback(r) PROVE IInv'
<1> USE UnlockFacts DEF Rollback
<1>1. RequestOK(r)'
  BY DoneOK DEF IInv, NoDraft
<1>2. TypeOK'
  BY DEF IInv, TypeOK
<1>3. job'[r].subject \in {job[r].subject, None}
  BY DEF NoJob, IInv
<1> QED
  BY <1>1, <1>2, <1>3, SubjectKept, StepKeeps DEF IInv, NoDraft

-----------------------------------------------------------------------------
\* A statement that changes no table, lock or draft and moves its request on.
LEMMA QuietInv ==
    ASSUME IInv, NEW r \in Requests, UNCHANGED <<tables, locks>>,
           NEW step \in Steps, Goto(r, step),
           NEW j \in Job, job' = [job EXCEPT ![r] = j], j.subject = Subject(r),
           RequestOK(r)'
    PROVE  IInv'
<1>1. TypeOK'
  BY DEF IInv, TypeOK, Goto
<1>2. job'[r].subject \in {job[r].subject, None}
  BY DEF IInv, TypeOK, Subject
<1>3. \A s \in Requests \ {r} : pc'[s] = pc[s] /\ job'[s] = job[s]
  BY DEF IInv, TypeOK, Goto
<1> QED
  BY <1>1, <1>2, <1>3, SubjectKept, StepKeeps

\* An arriving request keeps the invariant.
LEMMA StartInv ==
    ASSUME IInv, NEW r \in Requests, NEW op \in Ops, NEW n \in Rows,
           NEW want \in SUBSET Of(n), NEW on \in BOOLEAN, Start(r, op, n, want, on),
           op \in OnUsers => n \in Users, op \in OnRoles => n \in Roles,
           op = "deletePermission" => n \in Perms,
           op \notin Replacements => want = {},
           op = "createUser" => \A s \in Requests : Subject(s) # n,
           n \in Users /\ op # "createUser" => row[n] # "absent",
           op = "createUser" => row[n] = "absent"
    PROVE  IInv'
<1> DEFINE j == [NoJob EXCEPT !.op = op, !.subject = n, !.want = want, !.on = on]
<1>1. j \in Job /\ j.op = op /\ j.subject = n /\ j.want = want /\ j.todo = {}
  BY DEF NoJob, Job, Of
<1>2. /\ pc[r] = "new" /\ pc'[r] = First(op) /\ job'[r] = j /\ UNCHANGED <<tables, locks>>
      /\ \A s \in Requests \ {r} : pc'[s] = pc[s] /\ job'[s] = job[s]
  BY DEF Start, Goto, IInv, TypeOK
<1> HIDE DEF j
<1>3. First(op) = IF op = "createUser" THEN "resolve" ELSE "lock"
  BY DEF First
<1>4. TypeOK'
  BY <1>1, <1>3 DEF Start, Goto, IInv, TypeOK, Steps, j
<1>5. \A s \in Requests \ {r} :
         UnderWay(s) /\ Op(s) = "createUser" => job'[r].subject # Subject(s)
  <2> SUFFICES ASSUME NEW s \in Requests \ {r}, UnderWay(s), Op(s) = "createUser"
               PROVE  n # Subject(s)
    BY <1>1, <1>2
  <2>1. Subject(s) \in Users /\ row[Subject(s)] = "absent"
    BY DEF IInv, RequestOK, JobOK, OnUsers, HoldsSubject
  <2> QED
    BY <2>1
<1>6. \A e \in Edges : draft[e].by # r
  BY <1>2 DEF IInv, RequestOK, Drafts, UnderWay
<1>7. RequestOK(r)'
  <2>1. pc'[r] \in StepsOf(op) /\ pc'[r] \in {"lock", "resolve"}
    BY <1>2, <1>3 DEF StepsOf, Taking, Deletions, Ops
  <2>2. JobOK(r)'
    BY <1>1, <1>2, <2>1 DEF JobOK, UnderWay, Op, Subject, Writing
  <2>3. HoldsSubject(r)'
    BY <1>1, <1>2, <1>3 DEF HoldsSubject, UnderWay, Op, Subject
  <2>4. HoldsTargets(r)' /\ Drafts(r)' /\ Cleared(r)' /\ Counted(r)' /\ Seen(r)'
    BY <1>2, <1>6, <2>1 DEF HoldsTargets, Drafts, Cleared, Counted, Seen, Ready, Writing,
       Op, UnderWay
  <2> QED
    BY <2>2, <2>3, <2>4 DEF RequestOK
<1> QED
  BY <1>2, <1>4, <1>5, <1>7, StepKeeps

\* Every request that can arrive does so as StartInv requires.
LEMMA ArriveInv == ASSUME IInv, NEW r \in Requests, Arrive(r) PROVE IInv'
<1> USE DEF Ops, Replacements, Deletions, OnUsers, OnRoles, Rows
<1>1. CASE \E u \in Users : \E want \in SUBSET Of(u) :
              Unborn(u) /\ Start(r, "createUser", u, want, FALSE)
  BY <1>1, StartInv DEF Unborn
<1>2. CASE \E u \in Users : \E want \in SUBSET Of(u) :
              row[u] # "absent" /\ \E op \in {"updateUser", "replaceUserRoles"} :
                                     Start(r, op, u, want, FALSE)
  BY <1>2, StartInv
<1>3. CASE \E u \in Users : row[u] # "absent" /\ Start(r, "deleteUser", u, {}, FALSE)
  BY <1>3, StartInv
<1>4. ASSUME NEW n \in Roles,
             \/ \E on \in BOOLEAN : Start(r, "updateRole", n, {}, on)
             \/ Start(r, "deleteRole", n, {}, FALSE)
             \/ \E want \in SUBSET Of(n) :
                   Start(r, "replaceRolePermissions", n, want, FALSE)
      PROVE  IInv'
  <2>1. n \notin Users
    BY AssignmentsAssumption
  <2> QED
    BY <1>4, <2>1, StartInv
<1>5. ASSUME NEW n \in Perms, Start(r, "deletePermission", n, {}, FALSE) PROVE IInv'
  <2>1. n \notin Users
    BY AssignmentsAssumption
  <2> QED
    BY <1>5, <2>1, StartInv
<1> QED
  BY <1>1, <1>2, <1>3, <1>4, <1>5 DEF Arrive

-----------------------------------------------------------------------------
\* What is known of a request under way, in terms of its operation.
LEMMA UnderWayFacts ==
    ASSUME IInv, NEW r \in Requests, UnderWay(r)
    PROVE  /\ r # None /\ RequestOK(r) /\ TypeOK
           /\ Op(r) \in Ops /\ pc[r] \in StepsOf(Op(r))
           /\ Subject(r) \in Rows /\ job[r] \in Job
           /\ job[r].want \subseteq Of(Subject(r)) /\ job[r].want \subseteq Edges
           /\ Scope(r) \subseteq Edges
<1>1. JobOK(r) /\ TypeOK
  BY DEF IInv, RequestOK
<1>2. Subject(r) \in Rows
  BY <1>1 DEF JobOK, OnUsers, OnRoles, Rows, Ops, Replacements, Deletions
<1> QED
  BY <1>1, <1>2 DEF IInv, JobOK, TypeOK, Of, To, Scope

\* Which operations reach which statements.
LEMMA OpAt ==
    ASSUME IInv, NEW r \in Requests, UnderWay(r)
    PROVE  /\ pc[r] \in {"resolve", "take", "write", "insert", "restore"} =>
                 Op(r) \in Replacements
           /\ pc[r] = "count" => Op(r) = "deleteRole"
           /\ pc[r] = "affected" => Op(r) = "updateRole"
           /\ pc[r] = "delete" => Op(r) \in Deletions
           /\ pc[r] \in {"clear", "clearing"} => Op(r) \in Replacements \cup Deletions
BY UnderWayFacts DEF StepsOf, Ops, Replacements, Deletions, Taking, Ready, Writing

\* The statements of a replacement and of a deletion.
LEMMA OpSteps ==
    /\ \A op \in Replacements : Taking \subseteq StepsOf(op)
    /\ \A op \in Deletions : {"delete", "clear", "clearing", "commit"} \subseteq StepsOf(op)
    /\ StepsOf("updateRole") = {"lock", "affected", "commit"}
BY DEF StepsOf, Replacements, Deletions, Taking, Ready, Writing

\* Locking the subject keeps the invariant.
LEMMA LockInv == ASSUME IInv, NEW r \in Requests, Lock(r) PROVE IInv'
<1> DEFINE n == Subject(r)
<1>0. pc[r] = "lock" /\ UnderWay(r)
  BY DEF Lock, UnderWay
<1>1. n \in Rows /\ RequestOK(r) /\ TypeOK /\ job[r] \in Job /\ Op(r) \in Ops
      /\ "lock" \in StepsOf(Op(r)) /\ r # None
  BY <1>0, UnderWayFacts
<1>2. CASE row[n] # "live"
  BY <1>2, RollbackInv DEF Lock
<1>3. CASE row[n] = "live"
  <2>1. /\ pc' = [pc EXCEPT ![r] = AfterLock(Op(r))] /\ UNCHANGED <<tables, draft, job>>
        /\ IF Op(r) \in Sharing
           THEN share' = [share EXCEPT ![n] = @ \cup {r}] /\ UNCHANGED excl /\ ShareFree(r, n)
           ELSE excl' = [excl EXCEPT ![n] = r] /\ UNCHANGED share /\ ExclFree(r, n)
    BY <1>3 DEF Lock, Goto
  <2>2. /\ Op(r) # "createUser" /\ AfterLock(Op(r)) \in StepsOf(Op(r))
        /\ AfterLock(Op(r)) \in {"resolve", "delete", "count", "clear", "affected"}
        /\ AfterLock(Op(r)) = "delete" => Op(r) = "deleteUser"
    BY <1>1 DEF AfterLock, StepsOf, Taking, Ready, Writing, Ops, Replacements, Deletions
  <2>3. TypeOK'
    BY <1>1, <2>1, <2>2 DEF TypeOK, ShareFree, ExclFree, Steps
  <2>4. JobOK(r)'
    BY <1>0, <1>1, <2>1, <2>2 DEF RequestOK, JobOK, UnderWay, Op, Subject, TypeOK, Writing
  <2>5. HoldsSubject(r)'
    BY <1>0, <1>1, <1>3, <2>1, <2>2 DEF HoldsSubject, UnderWay, Op, Subject, TypeOK
  <2>6. HoldsTargets(r)' /\ Drafts(r)' /\ Cleared(r)' /\ Counted(r)' /\ Seen(r)'
    <3>1. pc'[r] = AfterLock(Op(r)) /\ job' = job /\ draft' = draft
          /\ Op(r)' = Op(r) /\ Subject(r)' = Subject(r)
      BY <1>1, <2>1 DEF TypeOK, Op, Subject
    <3>2. AfterLock(Op(r)) = "clear" => Op(r) = "deletePermission"
      BY <1>1 DEF AfterLock, Ops, Replacements, Deletions
    <3>3. \A e \in Edges : draft[e].by = r => draft[e].to # "live"
      BY <1>0, <1>1 DEF RequestOK, Drafts, Writing
    <3> QED
      BY <1>1, <2>2, <3>1, <3>2, <3>3 DEF HoldsTargets, Drafts, Cleared, Counted,
         Seen, Ready, Writing, UnderWay, Replacements, RequestOK
  <2>7. RequestOK(r)'
    BY <2>4, <2>5, <2>6 DEF RequestOK
  <2>8. /\ \A s \in Requests \ {r} : pc'[s] = pc[s] /\ job'[s] = job[s]
        /\ \A m \in Rows : share'[m] \ {r} = share[m] \ {r}
        /\ \A m \in Rows : excl'[m] = excl[m] \/
              (excl[m] \in {None, r} /\ excl'[m] \in {None, r})
        /\ job'[r].subject \in {job[r].subject, None}
    BY <1>1, <2>1 DEF TypeOK, ExclFree
  <2> QED
    BY <2>1, <2>3, <2>7, <2>8, SubjectKept, StepKeeps
<1> QED
  BY <1>2, <1>3

\* Looking up the rows to assign keeps the invariant.
LEMMA ResolveInv == ASSUME IInv, NEW r \in Requests, Resolve(r) PROVE IInv'
<1>0. pc[r] = "resolve" /\ UnderWay(r)
  BY DEF Resolve, UnderWay
<1>1. RequestOK(r) /\ TypeOK /\ job[r] \in Job /\ job[r].want \subseteq Edges
      /\ Op(r) \in Replacements
  BY <1>0, UnderWayFacts, OpAt
<1>2. CASE ~ \A e \in job[r].want : Assignable(Target(e))
  BY <1>2, RollbackInv DEF Resolve
<1>3. CASE \A e \in job[r].want : Assignable(Target(e))
  <2> DEFINE step == IF job[r].want = {} THEN "clear" ELSE "take"
             j == [job[r] EXCEPT !.todo = job[r].want]
  <2>1. Goto(r, step) /\ job' = [job EXCEPT ![r] = j] /\ UNCHANGED <<tables, locks>>
        /\ step \in Steps /\ j \in Job /\ j.subject = Subject(r) /\ j.todo = job[r].want
        /\ j.op = Op(r) /\ j.want = job[r].want
    BY <1>1, <1>3 DEF Resolve, GotoWith, Steps, Job, TypeOK, Subject, Op
  <2>2. pc'[r] = step /\ job'[r] = j
    BY <1>1, <2>1 DEF Goto, TypeOK
  <2>3. step \in StepsOf(Op(r)) /\ step \in {"take", "clear"}
    BY <1>1, OpSteps DEF Taking, Ready
  <2>4. JobOK(r)'
    BY <1>0, <1>1, <2>1, <2>2, <2>3 DEF RequestOK, JobOK, UnderWay, Op, Subject, Writing
  <2>5. HoldsSubject(r)'
    <3>1. \A s \in Requests \ {r} : job'[s] = job[s]
      BY <1>1, <2>1 DEF TypeOK
    <3> QED
      BY <1>0, <1>1, <2>1, <2>2, <2>3, <3>1 DEF RequestOK, HoldsSubject, UnderWay, Op, Subject
  <2>6. HoldsTargets(r)' /\ Drafts(r)' /\ Cleared(r)' /\ Counted(r)' /\ Seen(r)'
    BY <1>0, <1>1, <2>1, <2>2, <2>3 DEF RequestOK, HoldsTargets, Drafts, Cleared, Counted,
       Seen, Ready, Writing, UnderWay, Op, Replacements
  <2> HIDE DEF step, j
  <2>7. RequestOK(r)'
    BY <2>4, <2>5, <2>6 DEF RequestOK
  <2> QED
    BY <2>1, <2>7, QuietInv
<1> QED
  BY <1>2, <1>3

\* Locking a row to assign keeps the invariant.
LEMMA TakeInv == ASSUME IInv, NEW r \in Requests, Take(r) PROVE IInv'
<1>0. pc[r] = "take" /\ UnderWay(r)
  BY DEF Take, UnderWay
<1>1. /\ RequestOK(r) /\ TypeOK /\ job[r] \in Job /\ job[r].want \subseteq Edges
      /\ Op(r) \in Replacements /\ r # None /\ job[r].todo \subseteq job[r].want
  BY <1>0, UnderWayFacts, OpAt DEF RequestOK, JobOK
<1>2. PICK e \in job[r].todo :
         /\ ShareFree(r, Target(e))
         /\ IF Assignable(Target(e))
            THEN /\ share' = Taken(r, Target(e))
                 /\ GotoWith(r, IF job[r].todo \ {e} = {} THEN "clear" ELSE "take",
                             job[r].todo \ {e})
                 /\ UNCHANGED <<tables, draft, excl>>
            ELSE Rollback(r)
  BY DEF Take
<1>3. CASE ~Assignable(Target(e))
  BY <1>2, <1>3, RollbackInv
<1>4. CASE Assignable(Target(e))
  <2> DEFINE rest == job[r].todo \ {e}
             step == IF rest = {} THEN "clear" ELSE "take"
             j == [job[r] EXCEPT !.todo = rest]
  <2>1. /\ pc' = [pc EXCEPT ![r] = step] /\ job' = [job EXCEPT ![r] = j]
        /\ share' = [share EXCEPT ![Target(e)] = @ \cup {r}]
        /\ UNCHANGED <<tables, draft, excl>>
        /\ j \in Job /\ j.todo = rest /\ j.op = Op(r) /\ j.want = job[r].want
        /\ j.subject = Subject(r) /\ row[Target(e)] = "live"
        /\ Target(e) \in Roles => enabled[Target(e)]
    BY <1>1, <1>2, <1>4 DEF GotoWith, Goto, Taken, Job, Subject, Op, Assignable, Existing
  <2>2. Target(e) \in Rows /\ e \in job[r].want /\ rest \subseteq job[r].want
    BY <1>1, EdgeEnds
  <2>3. step \in StepsOf(Op(r)) /\ step \in {"take", "clear"} /\ (step = "clear" => rest = {})
    BY <1>1, OpSteps DEF Taking, Ready
  <2> HIDE DEF step, j, rest
  <2>4. pc'[r] = step /\ job'[r] = j /\ Op(r)' = Op(r) /\ Subject(r)' = Subject(r)
    BY <1>1, <2>1 DEF TypeOK, Op, Subject
  <2>5. \A s \in Requests \ {r} : pc'[s] = pc[s] /\ job'[s] = job[s]
    BY <1>1, <2>1 DEF TypeOK
  <2>6. \A n \in Rows : share'[n] = IF n = Target(e) THEN share[n] \cup {r} ELSE share[n]
    BY <1>1, <2>1, <2>2 DEF TypeOK
  <2>7. TypeOK'
    BY <1>1, <1>2, <2>1, <2>2, <2>3 DEF TypeOK, ShareFree, Steps
  <2>8. JobOK(r)'
    BY <1>0, <1>1, <2>1, <2>2, <2>3, <2>4 DEF RequestOK, JobOK, UnderWay, Writing
  <2>9. HoldsSubject(r)'
    BY <1>0, <1>1, <2>1, <2>3, <2>4, <2>5, <2>6, UnderWayFacts
    DEF RequestOK, HoldsSubject, UnderWay, Subject
  <2>10. HoldsTargets(r)'
    <3> SUFFICES ASSUME NEW f \in job[r].want, f \notin rest \/ step = "clear"
                 PROVE  /\ row[Target(f)] = "live" /\ r \in share'[Target(f)]
                        /\ Target(f) \in Roles => enabled[Target(f)]
      BY <2>1, <2>3, <2>4 DEF HoldsTargets, Ready, Writing
    <3>1. Target(f) \in Rows /\ f \notin rest
      BY <1>1, <2>3, EdgeEnds
    <3>2. CASE f = e
      BY <2>1, <2>6, <3>1, <3>2
    <3>3. CASE f # e
      BY <1>0, <1>1, <2>6, <3>1, <3>3 DEF rest, RequestOK, HoldsTargets
    <3> QED
      BY <3>2, <3>3
  <2>11. Drafts(r)' /\ Cleared(r)' /\ Counted(r)' /\ Seen(r)'
    BY <1>0, <1>1, <2>1, <2>3, <2>4 DEF RequestOK, Drafts, Cleared, Counted, Seen,
       Ready, Writing, UnderWay, Replacements
  <2>12. RequestOK(r)'
    BY <2>8, <2>9, <2>10, <2>11 DEF RequestOK
  <2>13. \A n \in Rows : share'[n] \ {r} = share[n] \ {r}
    BY <2>6
  <2>14. job'[r].subject \in {job[r].subject, None}
    BY <2>1, <2>4 DEF Subject
  <2> QED
    BY <2>1, <2>5, <2>7, <2>12, <2>13, <2>14, SubjectKept, StepKeeps
<1> QED
  BY <1>3, <1>4

-----------------------------------------------------------------------------
\* Counting the users of a role keeps the invariant.
LEMMA CountInv == ASSUME IInv, NEW r \in Requests, Count(r) PROVE IInv'
<1>0. pc[r] = "count" /\ UnderWay(r)
  BY DEF Count, UnderWay
<1>1. /\ RequestOK(r) /\ TypeOK /\ job[r] \in Job /\ Op(r) = "deleteRole" /\ r # None
  BY <1>0, UnderWayFacts, OpAt
<1>2. CASE HasUsers(Subject(r))
  BY <1>2, RollbackInv DEF Count
<1>3. CASE ~HasUsers(Subject(r))
  <2>1. Goto(r, "clear") /\ UNCHANGED <<tables, locks, job>> /\ pc'[r] = "clear"
    BY <1>1, <1>3 DEF Count, Goto, TypeOK
  <2>2. JobOK(r)' /\ HoldsSubject(r)'
    BY <1>0, <1>1, <2>1, OpSteps DEF RequestOK, JobOK, HoldsSubject, UnderWay, Op, Subject,
       Writing, Deletions
  <2>3. HoldsTargets(r)' /\ Drafts(r)' /\ Cleared(r)' /\ Seen(r)'
    BY <1>0, <1>1, <2>1 DEF RequestOK, HoldsTargets, Drafts, Cleared, Seen, Ready,
       Writing, UnderWay, Op, Replacements
  <2>4. Counted(r)'
    BY <1>3, <2>1 DEF Counted, HasUsers, To, Subject
  <2>5. RequestOK(r)'
    BY <2>2, <2>3, <2>4 DEF RequestOK
  <2>6. job' = [job EXCEPT ![r] = job[r]] /\ job[r].subject = Subject(r)
    BY <1>1, <2>1 DEF TypeOK, Subject
  <2> QED
    BY <1>1, <2>1, <2>5, <2>6, QuietInv DEF Steps
<1> QED
  BY <1>2, <1>3

\* Reading whom a role update concerns keeps the invariant.
LEMMA AffectedInv == ASSUME IInv, NEW r \in Requests, Affected(r) PROVE IInv'
<1> DEFINE users == {u \in Users : edge[<<u, Subject(r)>>] = "live"}
           j == [job[r] EXCEPT !.seen = users]
<1>0. pc[r] = "affected" /\ UnderWay(r)
  BY DEF Affected, UnderWay
<1>1. /\ RequestOK(r) /\ TypeOK /\ job[r] \in Job /\ Op(r) = "updateRole" /\ r # None
  BY <1>0, UnderWayFacts, OpAt
<1>2. /\ job' = [job EXCEPT ![r] = j] /\ Goto(r, "commit") /\ UNCHANGED <<tables, locks>>
      /\ j \in Job /\ j.subject = Subject(r) /\ j.op = Op(r) /\ j.want = job[r].want
      /\ j.todo = job[r].todo /\ j.seen = users
  BY <1>1 DEF Affected, Job, Subject, Op
<1> HIDE DEF j
<1>3. pc'[r] = "commit" /\ job'[r] = j /\ Op(r)' = Op(r) /\ Subject(r)' = Subject(r)
  BY <1>1, <1>2 DEF Goto, TypeOK, Op, Subject
<1>4. JobOK(r)' /\ HoldsSubject(r)'
  BY <1>0, <1>1, <1>2, <1>3, OpSteps DEF RequestOK, JobOK, HoldsSubject, UnderWay, Writing,
     Replacements
<1>5. HoldsTargets(r)' /\ Drafts(r)' /\ Cleared(r)' /\ Counted(r)'
  BY <1>0, <1>1, <1>2, <1>3 DEF RequestOK, HoldsTargets, Drafts, Cleared, Counted, Ready,
     Writing, UnderWay, Replacements
<1>6. Seen(r)'
  BY <1>2, <1>3 DEF Seen
<1>7. RequestOK(r)'
  BY <1>4, <1>5, <1>6 DEF RequestOK
<1> QED
  BY <1>2, <1>7, QuietInv DEF Steps

\* Deleting the subject keeps the invariant: its lock is already held.
LEMMA DeleteInv == ASSUME IInv, NEW r \in Requests, Delete(r) PROVE IInv'
<1>0. pc[r] = "delete" /\ UnderWay(r)
  BY DEF Delete, UnderWay
<1>1. /\ RequestOK(r) /\ TypeOK /\ job[r] \in Job /\ Op(r) \in Deletions /\ r # None
      /\ Subject(r) \in Rows
  BY <1>0, UnderWayFacts, OpAt
<1>2. excl[Subject(r)] = r
  BY <1>0, <1>1 DEF RequestOK, HoldsSubject, Deletions, Sharing
<1>3. UNCHANGED <<tables, locks, job>> /\ Goto(r, AfterDelete(Op(r)))
  BY <1>1, <1>2 DEF Delete, TypeOK
<1>4. /\ pc'[r] = AfterDelete(Op(r)) /\ AfterDelete(Op(r)) \in {"clear", "commit"}
      /\ AfterDelete(Op(r)) = "clear" <=> Op(r) = "deleteUser"
  BY <1>1, <1>3 DEF Goto, TypeOK, AfterDelete
<1>5. JobOK(r)' /\ HoldsSubject(r)'
  BY <1>0, <1>1, <1>2, <1>3, <1>4, OpSteps DEF RequestOK, JobOK, HoldsSubject, UnderWay,
     Writing, Op, Subject, Deletions, Replacements
<1>6. HoldsTargets(r)' /\ Drafts(r)' /\ Seen(r)'
  BY <1>0, <1>1, <1>3, <1>4 DEF RequestOK, HoldsTargets, Drafts, Seen, Ready,
     Writing, UnderWay, Op, Replacements, Deletions
<1>7. Cleared(r)' /\ Counted(r)'
  BY <1>0, <1>1, <1>3, <1>4 DEF RequestOK, Cleared, Counted, Writing, VisibleTo, Scope,
     Op, Subject, Deletions
<1>8. RequestOK(r)'
  BY <1>5, <1>6, <1>7 DEF RequestOK
<1>9. job' = [job EXCEPT ![r] = job[r]] /\ job[r].subject = Subject(r)
  BY <1>1, <1>3 DEF TypeOK, Subject
<1> QED
  BY <1>1, <1>3, <1>4, <1>8, <1>9, QuietInv DEF Steps

-----------------------------------------------------------------------------
\* Where the clearing of the relations leads, and that it may.
LEMMA AfterClearFacts ==
    ASSUME IInv, NEW r \in Requests, pc[r] \in {"clear", "clearing"}
    PROVE  /\ UnderWay(r) /\ RequestOK(r) /\ TypeOK /\ r # None /\ job[r] \in Job
           /\ AfterClear(Op(r)) \in StepsOf(Op(r)) /\ AfterClear(Op(r)) \in Steps
           /\ AfterClear(Op(r)) \in {"write", "commit", "delete"}
           /\ Op(r) \in Replacements \cup Deletions /\ "clearing" \in StepsOf(Op(r))
           /\ Op(r) \in Replacements <=> AfterClear(Op(r)) = "write"
           /\ Op(r) = "deleteUser" <=> AfterClear(Op(r)) = "commit"
           /\ Op(r) \in {"deleteRole", "deletePermission"} <=> AfterClear(Op(r)) = "delete"
           /\ job[r].want \subseteq Edges /\ Scope(r) \subseteq Edges
           /\ \A e \in Edges : draft[e].by = r => draft[e].to # "live"
           /\ Op(r) \in Replacements => Scope(r) = Of(Subject(r))
<1>1. UnderWay(r)
  BY DEF UnderWay
<1>2. Op(r) \in Replacements \cup Deletions
  BY <1>1, OpAt
<1>3. RequestOK(r) /\ TypeOK /\ r # None /\ job[r] \in Job /\ job[r].want \subseteq Edges
      /\ Scope(r) \subseteq Edges
  BY <1>1, UnderWayFacts
<1>4. \A e \in Edges : draft[e].by = r => draft[e].to # "live"
  BY <1>3 DEF RequestOK, Drafts, Writing
<1> QED
  BY <1>1, <1>2, <1>3, <1>4, OpSteps
  DEF AfterClear, Replacements, Deletions, Taking, Ready, Writing, Steps, Scope

\* Once nothing is left to clear, the request satisfies its part of the invariant
\* at the next statement.
LEMMA ClearedOK ==
    ASSUME IInv, NEW r \in Requests, pc[r] \in {"clear", "clearing"},
           UNCHANGED <<tables, share, excl>>,
           pc'[r] = AfterClear(Op(r)), job'[r] = [job[r] EXCEPT !.todo = job[r].want],
           \A s \in Requests \ {r} : job'[s] = job[s],
           \A e \in Edges : draft'[e].by = r => draft'[e].to # "live",
           Op(r) \notin Sharing => \A e \in Scope(r) : VisibleTo(r, e)' # "live"
    PROVE  RequestOK(r)'
<1> USE AfterClearFacts
<1> DEFINE j == [job[r] EXCEPT !.todo = job[r].want]
<1>1. /\ j.op = Op(r) /\ j.subject = Subject(r) /\ j.want = job[r].want
      /\ j.todo = job[r].want /\ job'[r] = j
  BY DEF Job, Op, Subject
<1> HIDE DEF j
<1>2. Op(r)' = Op(r) /\ Subject(r)' = Subject(r) /\ Scope(r)' = Scope(r)
      /\ job[r].want \subseteq Of(Subject(r))
  BY <1>1 DEF Op, Subject, Scope, RequestOK, JobOK, UnderWay
<1>3. JobOK(r)'
  BY <1>1, <1>2 DEF RequestOK, JobOK, UnderWay, Writing, Replacements, Deletions
<1>4. HoldsSubject(r)'
  BY <1>1, <1>2 DEF RequestOK, HoldsSubject, UnderWay, Subject
<1>5. HoldsTargets(r)'
  BY <1>1, <1>2 DEF RequestOK, HoldsTargets, Ready, Writing
<1>6. Drafts(r)'
  <2>1. UnderWay(r)' /\ job'[r].want \ job'[r].todo = {}
    BY <1>1 DEF UnderWay
  <2> QED
    BY <2>1 DEF Drafts
<1>7. Cleared(r)'
  BY <1>1, <1>2 DEF Cleared, Writing, Sharing, Replacements, Deletions
<1>8. Counted(r)' /\ Seen(r)'
  BY <1>1, <1>2 DEF RequestOK, Counted, Seen, Writing, Deletions, Replacements
<1> QED
  BY <1>3, <1>4, <1>5, <1>6, <1>7, <1>8 DEF RequestOK

\* ... and as long as something is left, at this one.
LEMMA ClearingOK ==
    ASSUME IInv, NEW r \in Requests, pc[r] \in {"clear", "clearing"},
           UNCHANGED <<tables, share, excl>>, NEW todo \in SUBSET Scope(r),
           pc'[r] = "clearing", job'[r] = [job[r] EXCEPT !.todo = todo],
           \A s \in Requests \ {r} : job'[s] = job[s],
           \A e \in Edges : draft'[e].by = r => draft'[e].to # "live",
           Op(r) \notin Sharing => \A e \in Scope(r) \ todo : VisibleTo(r, e)' # "live"
    PROVE  RequestOK(r)'
<1> USE AfterClearFacts
<1> DEFINE j == [job[r] EXCEPT !.todo = todo]
<1>1. /\ j.op = Op(r) /\ j.subject = Subject(r) /\ j.want = job[r].want
      /\ j.todo = todo /\ job'[r] = j
  BY DEF Job, Op, Subject
<1> HIDE DEF j
<1>2. Op(r)' = Op(r) /\ Subject(r)' = Subject(r) /\ Scope(r)' = Scope(r)
      /\ job[r].want \subseteq Of(Subject(r))
  BY <1>1 DEF Op, Subject, Scope, RequestOK, JobOK, UnderWay
<1>3. JobOK(r)'
  BY <1>1, <1>2 DEF RequestOK, JobOK, UnderWay, Writing
<1>4. HoldsSubject(r)'
  BY <1>1, <1>2 DEF RequestOK, HoldsSubject, UnderWay, Subject
<1>5. HoldsTargets(r)'
  BY <1>1, <1>2 DEF RequestOK, HoldsTargets, Ready, Writing
<1>6. Drafts(r)' /\ Cleared(r)'
  BY <1>1, <1>2 DEF RequestOK, Drafts, Cleared, UnderWay, Writing
<1>7. Counted(r)' /\ Seen(r)'
  BY <1>1, <1>2 DEF RequestOK, Counted, Seen
<1> QED
  BY <1>3, <1>4, <1>5, <1>6, <1>7 DEF RequestOK

\* Starting to clear the relations keeps the invariant.
LEMMA ClearInv == ASSUME IInv, NEW r \in Requests, Clear(r) PROVE IInv'
<1>0. pc[r] = "clear"
  BY DEF Clear
<1> USE <1>0, AfterClearFacts
<1>1. UNCHANGED <<tables, locks>> /\ \A e \in Edges : VisibleTo(r, e)' = VisibleTo(r, e)
  BY DEF Clear, VisibleTo
<1> DEFINE todo == {e \in Scope(r) : VisibleTo(r, e) = "live"}
<1>2. CASE todo = {}
  <2> DEFINE j == [job[r] EXCEPT !.todo = job[r].want]
  <2>1. Goto(r, AfterClear(Op(r))) /\ job' = [job EXCEPT ![r] = j] /\ j \in Job
        /\ j.subject = Subject(r)
    BY <1>2 DEF Clear, GotoWith, Job, Subject
  <2>2. pc'[r] = AfterClear(Op(r)) /\ job'[r] = j
        /\ \A s \in Requests \ {r} : job'[s] = job[s]
    BY <2>1 DEF Goto, TypeOK
  <2>3. \A e \in Scope(r) : VisibleTo(r, e)' # "live"
    BY <1>1, <1>2
  <2>4. RequestOK(r)'
    <3>1. pc[r] \in {"clear", "clearing"} /\ UNCHANGED <<tables, share, excl>>
          /\ \A e \in Edges : draft'[e].by = r => draft'[e].to # "live"
      BY <1>1
    <3> HIDE DEF j, todo
    <3> QED
      BY <1>1, <2>2, <2>3, <3>1, ClearedOK DEF j
  <2> QED
    BY <1>1, <2>1, <2>4, QuietInv
<1>3. CASE todo # {}
  <2> DEFINE j == [job[r] EXCEPT !.todo = todo]
  <2>1. Goto(r, "clearing") /\ job' = [job EXCEPT ![r] = j] /\ j \in Job
        /\ j.subject = Subject(r)
    BY <1>3 DEF Clear, GotoWith, Job, Subject
  <2>2. RequestOK(r)'
    <3>1. /\ pc'[r] = "clearing" /\ job'[r] = [job[r] EXCEPT !.todo = todo]
          /\ \A s \in Requests \ {r} : job'[s] = job[s]
      BY <2>1 DEF Goto, TypeOK
    <3>2. /\ pc[r] \in {"clear", "clearing"} /\ UNCHANGED <<tables, share, excl>>
          /\ \A e \in Edges : draft'[e].by = r => draft'[e].to # "live"
          /\ todo \in SUBSET Scope(r) /\ \A e \in Scope(r) \ todo : VisibleTo(r, e)' # "live"
      BY <1>1
    <3> HIDE DEF j, todo
    <3> QED
      BY <3>1, <3>2, ClearingOK
  <2> QED
    BY <1>1, <2>1, <2>2, QuietInv DEF Steps
<1> QED
  BY <1>2, <1>3

\* Soft-deleting one relation keeps the invariant.
LEMMA ClearingInv == ASSUME IInv, NEW r \in Requests, Clearing(r) PROVE IInv'
<1>0. pc[r] = "clearing"
  BY DEF Clearing
<1> USE <1>0, AfterClearFacts
<1>1. PICK e \in job[r].todo :
         /\ EdgeFree(r, e)
         /\ draft' = IF VisibleTo(r, e) = "live"
                     THEN [draft EXCEPT ![e] = [by |-> r, to |-> "gone"]] ELSE draft
         /\ IF job[r].todo \ {e} = {}
            THEN GotoWith(r, AfterClear(Op(r)), job[r].want)
            ELSE GotoWith(r, "clearing", job[r].todo \ {e})
         /\ UNCHANGED <<tables, share, excl>>
  BY DEF Clearing
<1>2. job[r].todo \subseteq Scope(r) /\ e \in Edges
  BY DEF RequestOK, JobOK
<1>3. /\ \A f \in Edges \ {e} : draft'[f] = draft[f]
      /\ draft'[e] = draft[e] \/ draft'[e] = [by |-> r, to |-> "gone"]
      /\ draft' \in [Edges -> Draft] /\ VisibleTo(r, e)' # "live"
      /\ \A f \in Edges \ {e} : VisibleTo(r, f)' = VisibleTo(r, f)
  BY <1>1, <1>2 DEF TypeOK, Draft, Writes, VisibleTo
<1>4. \A f \in Edges : draft'[f].by = r => draft'[f].to # "live"
  BY <1>3
<1>5. Op(r) \notin Sharing => \A f \in Scope(r) \ (job[r].todo \ {e}) : VisibleTo(r, f)' # "live"
  BY <1>3 DEF RequestOK, Cleared
<1> DEFINE step == IF job[r].todo \ {e} = {} THEN AfterClear(Op(r)) ELSE "clearing"
           rest == IF job[r].todo \ {e} = {} THEN job[r].want ELSE job[r].todo \ {e}
           j == [job[r] EXCEPT !.todo = rest]
<1>6. /\ pc' = [pc EXCEPT ![r] = step] /\ job' = [job EXCEPT ![r] = j]
      /\ step \in Steps /\ j \in Job
  BY <1>1, <1>2 DEF GotoWith, Goto, Job, Steps
<1>7. /\ pc'[r] = step /\ job'[r] = j
      /\ \A s \in Requests \ {r} : pc'[s] = pc[s] /\ job'[s] = job[s]
  BY <1>6 DEF TypeOK
<1>8. RequestOK(r)'
  <2>1. CASE job[r].todo \ {e} = {}
    BY <1>1, <1>4, <1>5, <1>7, <2>1, ClearedOK
  <2>2. CASE job[r].todo \ {e} # {}
    <3> DEFINE todo == job[r].todo \ {e}
    <3>1. todo \in SUBSET Scope(r) /\ pc[r] \in {"clear", "clearing"}
          /\ UNCHANGED <<tables, share, excl>>
      BY <1>1, <1>2
    <3>2. /\ pc'[r] = "clearing" /\ job'[r] = [job[r] EXCEPT !.todo = todo]
          /\ \A s \in Requests \ {r} : job'[s] = job[s]
      BY <1>7, <2>2
    <3>3. Op(r) \notin Sharing => \A f \in Scope(r) \ todo : VisibleTo(r, f)' # "live"
      BY <1>5
    <3> HIDE DEF todo
    <3> QED BY <1>4, <3>1, <3>2, <3>3, ClearingOK
  <2> QED
    BY <2>1, <2>2
<1>9. TypeOK'
  BY <1>1, <1>3, <1>6 DEF TypeOK
<1>10. job'[r].subject \in {job[r].subject, None}
  BY <1>7 DEF Job
<1>11. \A f \in Edges : draft'[f] = draft[f] \/
          (draft[f].by \in {None, r} /\ draft'[f].by \in {None, r})
  BY <1>1, <1>3 DEF EdgeFree
<1> QED
  BY <1>1, <1>7, <1>8, <1>9, <1>10, <1>11, SubjectKept, StepKeeps

-----------------------------------------------------------------------------
\* A replacement at one of its writes.
LEMMA WritingFacts ==
    ASSUME IInv, NEW r \in Requests, pc[r] \in {"write", "insert", "restore"}
    PROVE  /\ UnderWay(r) /\ RequestOK(r) /\ TypeOK /\ r # None /\ job[r] \in Job
           /\ Op(r) \in Replacements /\ Writing \subseteq StepsOf(Op(r))
           /\ job[r].want \subseteq Edges /\ job[r].want \subseteq Of(Subject(r))
           /\ job[r].todo \subseteq job[r].want /\ Scope(r) = Of(Subject(r))
<1>1. UnderWay(r) /\ Op(r) \in Replacements
  BY OpAt DEF UnderWay
<1> QED
  BY <1>1, UnderWayFacts, OpSteps
  DEF RequestOK, JobOK, Taking, Ready, Writing, Scope, Replacements

\* Moving on among the writes: the parts of the invariant besides the drafts.
LEMMA WritingOK ==
    ASSUME IInv, NEW r \in Requests, pc[r] \in {"write", "insert", "restore"},
           UNCHANGED <<tables, share, excl>>, pc'[r] \in Writing,
           NEW j \in Job, job'[r] = j, j.op = Op(r), j.subject = Subject(r),
           j.want = job[r].want, j.todo \subseteq job[r].todo,
           pc'[r] = "commit" => j.todo = {},
           pc'[r] \in {"insert", "restore"} => j.at \in job[r].want,
           \A s \in Requests \ {r} : job'[s] = job[s],
           Drafts(r)',
           \A e \in Edges : VisibleTo(r, e)' = "live" =>
              VisibleTo(r, e) = "live" \/ e \in job[r].want
    PROVE  RequestOK(r)'
<1> USE WritingFacts
<1>1. Op(r)' = Op(r) /\ Subject(r)' = Subject(r) /\ Scope(r)' = Scope(r)
  BY DEF Op, Subject, Scope
<1>2. JobOK(r)'
  BY <1>1 DEF RequestOK, JobOK, UnderWay, Writing, Replacements
<1>3. HoldsSubject(r)' /\ HoldsTargets(r)'
  BY <1>1 DEF RequestOK, HoldsSubject, HoldsTargets, UnderWay, Subject, Ready, Writing
<1>4. Cleared(r)'
  BY <1>1 DEF RequestOK, Cleared, Writing, Replacements, Of
<1>5. Counted(r)' /\ Seen(r)'
  BY <1>1 DEF Counted, Seen, Replacements
<1> QED
  BY <1>2, <1>3, <1>4, <1>5 DEF RequestOK

\* Looking up the next relation to write keeps the invariant.
LEMMA WriteInv == ASSUME IInv, NEW r \in Requests, Write(r) PROVE IInv'
<1>0. pc[r] = "write" /\ UNCHANGED <<tables, locks>>
  BY DEF Write
<1> USE <1>0, WritingFacts
<1>1. \A e \in Edges : VisibleTo(r, e)' = VisibleTo(r, e)
  BY DEF VisibleTo
<1>2. CASE job[r].todo = {}
  <2>1. /\ Goto(r, "commit") /\ job' = job /\ pc'[r] = "commit"
        /\ job' = [job EXCEPT ![r] = job[r]]
    BY <1>2 DEF Write, Goto, TypeOK
  <2>2. Drafts(r)'
    BY <2>1 DEF RequestOK, Drafts, UnderWay, Writing, Op
  <2>3. RequestOK(r)'
    BY <1>1, <1>2, <2>1, <2>2, WritingOK DEF Writing, Op, Subject
  <2> QED
    BY <2>1, <2>3, QuietInv DEF Steps, Subject
<1>3. CASE job[r].todo # {}
  <2>1. PICK e \in job[r].todo :
           /\ Goto(r, IF VisibleTo(r, e) = "none" THEN "insert" ELSE "restore")
           /\ job' = [job EXCEPT ![r].todo = @ \ {e}, ![r].at = e]
    BY <1>3 DEF Write
  <2> DEFINE step == IF VisibleTo(r, e) = "none" THEN "insert" ELSE "restore"
             j == [job[r] EXCEPT !.todo = job[r].todo \ {e}, !.at = e]
  <2>a. e \in Edges /\ job[r].todo \ {e} \subseteq Edges
    OBVIOUS
  <2>2. /\ j \in Job /\ j.op = Op(r) /\ j.subject = Subject(r) /\ j.want = job[r].want
        /\ j.todo = job[r].todo \ {e} /\ j.at = e /\ step \in {"insert", "restore"}
    <3>1. job[r] \in Job
      OBVIOUS
    <3>2. j \in Job
      BY ONLY <2>a, <3>1 DEF Job
    <3>3. j.op = job[r].op /\ j.subject = job[r].subject /\ j.want = job[r].want
          /\ j.todo = job[r].todo \ {e} /\ j.at = e
      BY ONLY <3>1 DEF Job
    <3> QED
      BY <3>2, <3>3 DEF Op, Subject
  <2>3. job' = [job EXCEPT ![r] = j]
    BY <2>1 DEF TypeOK
  <2> HIDE DEF j, step
  <2>4. /\ Goto(r, step) /\ pc'[r] = step /\ job'[r] = j
        /\ \A s \in Requests \ {r} : job'[s] = job[s]
    BY <2>1, <2>3 DEF Goto, TypeOK, step
  <2>5. Drafts(r)'
    <3>1. Op(r)' = Op(r) /\ UnderWay(r)'
      BY <2>2, <2>4 DEF Op, UnderWay
    <3>2. \A f \in Edges : draft[f].by = r /\ draft[f].to = "live" => f \in job[r].want
      BY DEF RequestOK, Drafts
    <3>3. \A f \in job[r].want \ job[r].todo : draft[f] = [by |-> r, to |-> "live"]
      BY DEF RequestOK, Drafts, Writing
    <3> QED
      BY <2>2, <2>4, <3>1, <3>2, <3>3 DEF Drafts, Writing
  <2>6. RequestOK(r)'
    BY <1>1, <2>2, <2>4, <2>5, WritingOK DEF Writing
  <2> QED
    BY <2>2, <2>3, <2>4, <2>6, QuietInv DEF Steps
<1> QED
  BY <1>2, <1>3

\* Making a relation live, new or restored, keeps the invariant.
LEMMA DraftInv ==
    ASSUME IInv, NEW r \in Requests, pc[r] \in {"insert", "restore"},
           EdgeFree(r, job[r].at), draft' = Drafted(r, job[r].at, "live"),
           Goto(r, "write"), UNCHANGED <<tables, share, excl, job>>
    PROVE  IInv'
<1> USE WritingFacts
<1> DEFINE e == job[r].at
<1>1. e \in Edges /\ e \in job[r].want
  BY DEF RequestOK, JobOK
<1>2. /\ draft' \in [Edges -> Draft] /\ draft'[e] = [by |-> r, to |-> "live"]
      /\ \A f \in Edges \ {e} : draft'[f] = draft[f]
  BY <1>1 DEF Drafted, TypeOK, Draft, Writes
<1>3. pc'[r] = "write" /\ \A s \in Requests \ {r} : pc'[s] = pc[s] /\ job'[s] = job[s]
  BY DEF Goto, TypeOK
<1>4. TypeOK'
  BY <1>2 DEF TypeOK, Goto, Steps
<1>5. Drafts(r)'
  <2>1. Op(r)' = Op(r) /\ UnderWay(r)'
    BY <1>3 DEF Op, UnderWay
  <2> QED
    BY <1>1, <1>2, <1>3, <2>1 DEF RequestOK, Drafts, Writing
<1>6. \A f \in Edges \ {e} : VisibleTo(r, f)' = VisibleTo(r, f)
  BY <1>2 DEF VisibleTo
<1>7. RequestOK(r)'
  BY <1>1, <1>3, <1>5, <1>6, WritingOK DEF Writing, Op, Subject
<1>8. \A f \in Edges : draft'[f] = draft[f] \/
         (draft[f].by \in {None, r} /\ draft'[f].by \in {None, r})
  BY <1>2 DEF EdgeFree
<1> QED
  BY <1>3, <1>4, <1>7, <1>8, SubjectKept, StepKeeps

\* Inserting and restoring relations keep the invariant.
LEMMA InsertInv == ASSUME IInv, NEW r \in Requests, Insert(r) \/ Restore(r) PROVE IInv'
<1>1. CASE Restore(r)
  BY <1>1, DraftInv DEF Restore
<1>2. CASE Insert(r)
  BY <1>2, DraftInv, RollbackInv DEF Insert
<1> QED
  BY <1>1, <1>2

-----------------------------------------------------------------------------
\* Whoever has a live draft holds both of its ends.
LEMMA LiveDraft ==
    ASSUME IInv, NEW s \in Requests, NEW e \in Edges,
           draft[e].by = s, draft[e].to = "live"
    PROVE  /\ UnderWay(s) /\ Op(s) \in Replacements /\ e \in job[s].want
           /\ Owner(e) = Subject(s)
           /\ row[Target(e)] = "live" /\ s \in share[Target(e)]
           /\ Op(s) = "createUser" => row[Owner(e)] = "absent"
           /\ Op(s) # "createUser" =>
                 row[Owner(e)] = "live" /\ (s \in share[Owner(e)] \/ excl[Owner(e)] = s)
<1>1. RequestOK(s)
  BY DEF IInv
<1>2. UnderWay(s) /\ Op(s) \in Replacements /\ pc[s] \in Writing /\ e \in job[s].want
  BY <1>1 DEF RequestOK, Drafts
<1>3. Owner(e) = Subject(s)
  BY <1>1, <1>2 DEF RequestOK, JobOK, Of
<1>4. row[Target(e)] = "live" /\ s \in share[Target(e)]
  BY <1>1, <1>2 DEF RequestOK, HoldsTargets, Ready
<1> QED
  BY <1>1, <1>2, <1>3, <1>4 DEF RequestOK, HoldsSubject, Writing

\* A row held for update takes no new relation from another request.
LEMMA NoNewTarget ==
    ASSUME IInv, NEW s \in Requests, NEW t \in Requests \ {s}, NEW e \in Edges,
           excl[Target(e)] = t
    PROVE  ~(draft[e].by = s /\ draft[e].to = "live")
BY LiveDraft, EdgeEnds DEF IInv, TypeOK

\* Nor does what a request clears, unless it merely shares its subject.
LEMMA NotMadeLive ==
    ASSUME IInv, NEW s \in Requests, NEW t \in Requests \ {s}, NEW e \in Edges,
           UnderWay(t), Op(t) \notin Sharing, Op(t) = "createUser" \/ pc[t] # "lock",
           e \in Scope(t)
    PROVE  ~(draft[e].by = s /\ draft[e].to = "live")
<1> SUFFICES ASSUME draft[e].by = s, draft[e].to = "live" PROVE FALSE
  OBVIOUS
<1>1. RequestOK(t) /\ Op(t) \in Ops /\ Subject(t) \in Rows /\ TypeOK
  BY UnderWayFacts
<1>2. CASE Op(t) = "deletePermission"
  <2>1. Target(e) = Subject(t) /\ excl[Subject(t)] = t
    BY <1>1, <1>2 DEF Scope, To, RequestOK, HoldsSubject
  <2> QED
    BY <2>1, NoNewTarget
<1>3. CASE Op(t) # "deletePermission"
  <2>1. Owner(e) = Subject(t) /\ Subject(s) = Subject(t)
    BY <1>3, LiveDraft DEF Scope, Of
  <2>2. Op(t) # "createUser" /\ Op(s) # "createUser"
    BY <1>1, <2>1, LiveDraft DEF RequestOK, HoldsSubject
  <2>3. excl[Subject(t)] = t /\ (s \in share[Subject(t)] \/ excl[Subject(t)] = s)
    BY <1>1, <2>1, <2>2, LiveDraft DEF RequestOK, HoldsSubject
  <2> QED
    BY <1>1, <2>3 DEF TypeOK
<1> QED
  BY <1>2, <1>3

\* What a commit does to the tables.
LEMMA CommitFacts ==
    ASSUME IInv, NEW s \in Requests, Commit(s)
    PROVE  /\ UnderWay(s) /\ pc[s] = "commit" /\ Subject(s) \in Rows /\ RequestOK(s)
           /\ Unlock(s)
           /\ \A e \in Edges : edge'[e] = "live" =>
                 \/ edge[e] = "live" /\ draft[e].by # s
                 \/ draft[e].by = s /\ draft[e].to = "live"
           /\ \A n \in Rows \ {Subject(s)} : row'[n] = row[n]
           /\ Op(s) \notin Deletions =>
                 \A n \in Rows : row'[n] = row[n] \/ (Op(s) = "createUser" /\ row'[n] = "live")
           /\ Op(s) = "createUser" => row'[Subject(s)] = "live"
           /\ row' \in [Rows -> {"absent", "live", "deleted"}]
           /\ enabled' \in [Roles -> BOOLEAN] /\ edge' \in [Edges -> Writes]
           /\ meanwhile' \in [Requests -> SUBSET Edges]
           /\ s # None
<1>1. UnderWay(s) /\ pc[s] = "commit" /\ Unlock(s)
  BY DEF Commit, UnderWay
<1>2. Subject(s) \in Rows /\ RequestOK(s) /\ TypeOK /\ job[s] \in Job /\ s # None
  BY <1>1, UnderWayFacts
<1>3. /\ \A n \in Rows \ {Subject(s)} : row'[n] = row[n]
      /\ Op(s) \notin Deletions =>
            \A n \in Rows : row'[n] = row[n] \/ (Op(s) = "createUser" /\ row'[n] = "live")
      /\ Op(s) = "createUser" => row'[Subject(s)] = "live"
      /\ row' \in [Rows -> {"absent", "live", "deleted"}]
  <2>1. row \in [Rows -> {"absent", "live", "deleted"}]
    BY <1>2 DEF TypeOK
  <2>2. CASE Op(s) \in Deletions
    <3>1. row' = [row EXCEPT ![Subject(s)] = "deleted"] /\ Op(s) # "createUser"
      BY <2>2 DEF Commit, Deletions
    <3> QED
      BY <1>2, <2>1, <2>2, <3>1
  <2>3. CASE Op(s) = "createUser"
    <3>1. row' = [row EXCEPT ![Subject(s)] = "live"]
      BY <2>3 DEF Commit, Deletions
    <3> QED
      BY <1>2, <2>1, <2>3, <3>1
  <2>4. CASE Op(s) \notin Deletions /\ Op(s) # "createUser"
    BY <2>1, <2>4 DEF Commit
  <2> QED
    BY <2>2, <2>3, <2>4
<1>4. enabled' \in [Roles -> BOOLEAN]
  BY <1>2 DEF Commit, TypeOK, Job
<1>5. edge' \in [Edges -> Writes]
  BY <1>2 DEF Commit, TypeOK, Draft
<1>6. \A e \in Edges : edge'[e] = IF draft[e].by = s THEN draft[e].to ELSE edge[e]
  BY DEF Commit
<1>7. meanwhile' \in [Requests -> SUBSET Edges]
  <2>1. job[s].want \subseteq Edges /\ meanwhile \in [Requests -> SUBSET Edges]
    BY <1>2 DEF TypeOK, Job
  <2> QED
    BY <2>1 DEF Commit
<1> QED
  BY <1>1, <1>2, <1>3, <1>4, <1>5, <1>6, <1>7

\* No relation that is live after a commit dangles.
LEMMA CommitNoDangling == ASSUME IInv, NEW s \in Requests, Commit(s) PROVE NoDanglingRelation'
<1> SUFFICES ASSUME NEW e \in Edges, edge'[e] = "live"
             PROVE  row'[Owner(e)] = "live" /\ row'[Target(e)] = "live"
  BY DEF NoDanglingRelation
<1> USE CommitFacts, EdgeEnds
<1>1. CASE draft[e].by = s /\ draft[e].to = "live"
  <2>1. Op(s) \notin Deletions
    BY <1>1, LiveDraft DEF Replacements, Deletions
  <2> QED
    BY <1>1, <2>1, LiveDraft
<1>2. CASE edge[e] = "live" /\ draft[e].by # s
  <2>1. row[Owner(e)] = "live" /\ row[Target(e)] = "live"
    BY <1>2 DEF IInv, NoDanglingRelation
  <2>2. CASE Op(s) \notin Deletions
    BY <2>1, <2>2
  <2>3. CASE Op(s) \in Deletions
    <3>1. e \notin Scope(s)
      BY <1>2, <2>3 DEF RequestOK, Cleared, VisibleTo, Deletions
    <3>2. Op(s) = "deletePermission" => Subject(s) # Owner(e) /\ Subject(s) # Target(e)
      <4>1. Op(s) = "deletePermission" => Subject(s) \in Perms /\ Target(e) # Subject(s)
        BY <3>1 DEF RequestOK, JobOK, Scope, To
      <4>2. Owner(e) \notin Perms
        BY AssignmentsAssumption DEF Edges, Owner
      <4> QED
        BY <4>1, <4>2
    <3>3. Op(s) = "deleteUser" => Subject(s) # Owner(e) /\ Subject(s) # Target(e)
      BY <3>1 DEF RequestOK, JobOK, Scope, Of, OnUsers
    <3>4. Op(s) = "deleteRole" => Subject(s) # Owner(e) /\ Subject(s) # Target(e)
      BY <1>2, <3>1 DEF RequestOK, Counted, Scope, Of, To
    <3>5. Subject(s) # Owner(e) /\ Subject(s) # Target(e)
      BY <2>3, <3>2, <3>3, <3>4 DEF Deletions
    <3> QED
      BY <2>1, <3>5
  <2> QED
    BY <2>2, <2>3
<1> QED
  BY <1>1, <1>2

\* A commit leaves the other requests as they are.
LEMMA CommitOthers ==
    ASSUME IInv, NEW s \in Requests, Commit(s), NEW t \in Requests \ {s}
    PROVE  RequestOK(t)'
<1> USE CommitFacts
<1>0. /\ RequestOK(t) /\ TypeOK /\ t # s /\ t # None
      /\ pc'[t] = pc[t] /\ job'[t] = job[t] /\ job'[s] = NoJob
      /\ \A e \in Edges : draft[e].by = t \/ draft'[e].by = t => draft'[e] = draft[e]
      /\ \A n \in Rows : (t \in share'[n]) = (t \in share[n])
      /\ \A n \in Rows : (excl'[n] = t) = (excl[n] = t)
  BY UnlockFacts DEF IInv, NoDraft
<1>1. JobOK(t)'
  BY <1>0 DEF RequestOK, JobOK, UnderWay, Op, Subject, Scope
<1>2. ASSUME NEW n \in Rows, row[n] = "live", excl[n] = t \/ t \in share[n]
      PROVE  row'[n] = "live"
  <2>1. CASE Op(s) \in Deletions
    <3>1. excl[Subject(s)] = s
      BY <2>1 DEF RequestOK, HoldsSubject, Deletions, Sharing
    <3>2. n # Subject(s)
      BY <1>0, <1>2, <3>1 DEF TypeOK
    <3> QED
      BY <1>2, <3>2
  <2>2. CASE Op(s) \notin Deletions
    BY <1>2, <2>2
  <2> QED
    BY <2>1, <2>2
<1>3. UnderWay(t) => Subject(t) \in Rows /\ Subject(t) # None
  BY UnderWayFacts
<1>4. HoldsSubject(t)'
  <2>1. ASSUME UnderWay(t), Op(t) = "createUser"
        PROVE  /\ row'[Subject(t)] = "absent"
               /\ \A q \in Requests \ {t} : job'[q].subject # Subject(t)
    <3>1. row[Subject(t)] = "absent" /\ \A q \in Requests \ {t} : Subject(q) # Subject(t)
      BY <1>0, <2>1 DEF RequestOK, HoldsSubject
    <3>2. \A q \in Requests \ {t} : job'[q].subject # Subject(t)
      BY <1>0, <1>3, <2>1, <3>1, UnlockFacts DEF Subject, NoJob
    <3> QED
      BY <1>0, <1>3, <2>1, <3>1, <3>2
  <2>2. ASSUME UnderWay(t), Op(t) # "createUser", pc[t] # "lock"
        PROVE  /\ row'[Subject(t)] = "live"
               /\ IF Op(t) \in Sharing THEN t \in share'[Subject(t)]
                  ELSE excl'[Subject(t)] = t
    BY <1>0, <1>2, <1>3, <2>2 DEF RequestOK, HoldsSubject
  <2> QED
    BY <1>0, <2>1, <2>2 DEF HoldsSubject, UnderWay, Op, Subject
<1>5. HoldsTargets(t)'
  <2> SUFFICES ASSUME Op(t) \in Replacements, NEW e \in job[t].want,
                      (pc[t] = "take" /\ e \notin job[t].todo) \/ pc[t] \in Ready
               PROVE  /\ row'[Target(e)] = "live" /\ t \in share'[Target(e)]
                      /\ Target(e) \in Roles => enabled'[Target(e)]
    BY <1>0 DEF HoldsTargets, Op
  <2>1. /\ row[Target(e)] = "live" /\ t \in share[Target(e)]
        /\ Target(e) \in Roles => enabled[Target(e)]
    BY <1>0 DEF RequestOK, HoldsTargets
  <2>2. Target(e) \in Rows
    BY <1>0, EdgeEnds DEF TypeOK, Job
  <2>3. Target(e) \in Roles => enabled'[Target(e)]
    <3>1. CASE Op(s) = "updateRole"
      <4>1. excl[Subject(s)] = s
        BY <3>1 DEF RequestOK, HoldsSubject, Sharing
      <4>2. Target(e) # Subject(s)
        BY <1>0, <2>1, <2>2, <4>1 DEF TypeOK
      <4>3. enabled' = [enabled EXCEPT ![Subject(s)] = job[s].on]
        BY <3>1 DEF Commit
      <4> QED
        BY <1>0, <2>1, <4>2, <4>3 DEF TypeOK
    <3>2. CASE Op(s) # "updateRole"
      BY <2>1, <3>2 DEF Commit
    <3> QED
      BY <3>1, <3>2
  <2> QED
    BY <1>0, <1>2, <2>1, <2>2, <2>3
<1>6. Drafts(t)'
  <2>1. job[t].want \subseteq Edges
    BY <1>0 DEF TypeOK, Job
  <2> QED
    BY <1>0, <2>1 DEF RequestOK, Drafts, Op, UnderWay
<1>7. ASSUME NEW e \in Edges, ~(draft[e].by = s /\ draft[e].to = "live"),
             VisibleTo(t, e)' = "live"
      PROVE  VisibleTo(t, e) = "live"
  BY <1>0, <1>7 DEF VisibleTo
<1>8. Cleared(t)'
  <2>1. Op(t)' = Op(t) /\ Subject(t)' = Subject(t) /\ Scope(t)' = Scope(t)
    BY <1>0 DEF Op, Subject, Scope
  <2>2. ASSUME UnderWay(t), Op(t) \notin Sharing, Op(t) = "createUser" \/ pc[t] # "lock",
               NEW e \in Scope(t), VisibleTo(t, e)' = "live"
        PROVE  VisibleTo(t, e) = "live"
    BY <1>7, <2>2, NotMadeLive, UnderWayFacts
  <2>3. Op(t) \in Replacements => Scope(t) = Of(Subject(t))
    BY DEF Scope, Replacements
  <2>4. ASSUME pc[t] = "clearing", Op(t) \notin Sharing, NEW e \in Scope(t) \ job[t].todo
        PROVE  VisibleTo(t, e)' # "live"
    BY <1>0, <2>2, <2>4 DEF RequestOK, Cleared, UnderWay
  <2>5. ASSUME Op(t) \in {"createUser", "updateUser"}, pc[t] \in Writing,
               NEW e \in Of(Subject(t)), VisibleTo(t, e)' = "live"
        PROVE  e \in job[t].want
    BY <1>0, <2>2, <2>3, <2>5 DEF RequestOK, Cleared, UnderWay, Writing, Replacements, Sharing
  <2>6. ASSUME \/ Op(t) = "deleteUser" /\ pc[t] = "commit"
               \/ Op(t) \in {"deleteRole", "deletePermission"} /\ pc[t] \in {"delete", "commit"},
               NEW e \in Scope(t)
        PROVE  VisibleTo(t, e)' # "live"
    BY <1>0, <2>2, <2>6 DEF RequestOK, Cleared, UnderWay, Sharing
  <2> QED
    BY <1>0, <2>1, <2>4, <2>5, <2>6 DEF Cleared
<1>9. Counted(t)'
  <2> SUFFICES ASSUME Op(t) = "deleteRole", pc[t] \in {"clear", "clearing", "delete", "commit"},
                      NEW e \in To(Subject(t))
               PROVE  edge'[e] # "live"
    BY <1>0 DEF Counted, Op, Subject, To
  <2>1. excl[Subject(t)] = t /\ edge[e] # "live"
    BY <1>0 DEF RequestOK, HoldsSubject, Counted, UnderWay, Sharing
  <2>2. e \in Edges /\ Target(e) = Subject(t)
    BY DEF To
  <2> QED
    BY <2>1, <2>2, NoNewTarget
<1>10. Seen(t)'
  <2> SUFFICES ASSUME pc[t] = "commit", Op(t) = "updateRole", NEW u \in Users,
                      edge'[<<u, Subject(t)>>] = "live"
               PROVE  u \in job[t].seen
    BY <1>0 DEF Seen, Op, Subject
  <2>1. excl[Subject(t)] = t /\ Subject(t) \in Roles
    BY <1>0 DEF RequestOK, HoldsSubject, JobOK, OnRoles, UnderWay, Sharing
  <2>2. <<u, Subject(t)>> \in Edges /\ Target(<<u, Subject(t)>>) = Subject(t)
    BY <2>1, EdgeEnds
  <2>3. edge[<<u, Subject(t)>>] = "live"
    BY <2>1, <2>2, NoNewTarget
  <2> QED
    BY <1>0, <2>3 DEF RequestOK, Seen
<1> QED
  BY <1>1, <1>4, <1>5, <1>6, <1>8, <1>9, <1>10 DEF RequestOK

\* A commit keeps the invariant.
LEMMA CommitInv == ASSUME IInv, NEW s \in Requests, Commit(s) PROVE IInv'
<1> USE CommitFacts, UnlockFacts
<1>1. TypeOK'
  BY DEF IInv, TypeOK
<1>2. RequestOK(s)'
  BY DoneOK DEF IInv, NoDraft
<1> QED
  BY <1>1, <1>2, CommitNoDangling, CommitOthers DEF IInv

-----------------------------------------------------------------------------
\* The inductive invariant is one.
THEOREM StepIInv == IInv /\ [Next]_vars => IInv'
<1> SUFFICES ASSUME IInv, [Next]_vars PROVE IInv'
  OBVIOUS
<1>1. ASSUME NEW r \in Requests, Arrive(r) PROVE IInv'
  BY <1>1, ArriveInv
<1>2. ASSUME NEW r \in Requests, Statement(r) PROVE IInv'
  BY <1>2, LockInv, ResolveInv, TakeInv, CountInv, AffectedInv, DeleteInv, ClearInv,
     ClearingInv, WriteInv, InsertInv, CommitInv DEF Statement
<1>3. ASSUME NEW r \in Requests, Abort(r) PROVE IInv'
  BY <1>3, RollbackInv DEF Abort
<1>4. CASE UNCHANGED vars
  BY <1>4 DEF IInv, TypeOK, NoDanglingRelation, RequestOK, JobOK, HoldsSubject, HoldsTargets,
     Drafts, Cleared, Counted, Seen, UnderWay, Op, Subject, Scope, VisibleTo
<1> QED
  BY <1>1, <1>2, <1>3, <1>4 DEF Next

\* It holds in every reachable state.
THEOREM Invariance == Spec => []IInv
BY InitIInv, StepIInv, PTL DEF Spec

\* Every behaviour keeps the types and never shares a row locked for update.
THEOREM TypeCorrect == Spec => []TypeOK
BY Invariance, PTL DEF IInv

\* No relation ever points from or to a deleted row, though the database has no
\* foreign keys (README.md).
THEOREM NothingDangles == Spec => []NoDanglingRelation
BY Invariance, PTL DEF IInv

\* A role update invalidates every user who has the role (rbac UpdateRole).
THEOREM UpdateReachesHolders == Spec => []UpdateSeesHolders
<1>1. IInv => UpdateSeesHolders
  BY DEF IInv, RequestOK, Seen, UpdateSeesHolders
<1> QED
  BY <1>1, Invariance, PTL

\* What a replacement commits is what it was asked for, and nothing else if it
\* holds its user for update (user.persistence updateEnt, createEnt).
THEOREM ReplacementKept == Spec => []ReplacementHolds
<1>1. IInv => ReplacementHolds
  <2> SUFFICES ASSUME IInv, NEW r \in Requests, Replaced(r)
               PROVE  /\ job[r].want \subseteq Granted(r)
                      /\ Op(r) \in {"createUser", "updateUser"} => Granted(r) = job[r].want
    BY DEF ReplacementHolds
  <2>1. UnderWay(r) /\ RequestOK(r) /\ job[r].want \subseteq Of(Subject(r)) /\ r # None
        /\ job[r].want \subseteq Edges
    BY UnderWayFacts DEF Replaced, UnderWay
  <2>2. \A e \in job[r].want : VisibleTo(r, e) = "live"
    <3>1. job[r].todo = {} /\ pc[r] = "commit" /\ Op(r) \in Replacements
      BY <2>1 DEF RequestOK, JobOK, Replaced
    <3>2. \A e \in job[r].want : draft[e] = [by |-> r, to |-> "live"]
      BY <2>1, <3>1 DEF RequestOK, Drafts, Writing
    <3> QED
      BY <3>2 DEF VisibleTo
  <2>3. Op(r) \in {"createUser", "updateUser"} =>
           \A e \in Of(Subject(r)) : VisibleTo(r, e) = "live" => e \in job[r].want
    BY <2>1 DEF RequestOK, Cleared, Replaced, Writing
  <2> QED
    BY <2>1, <2>2, <2>3 DEF Granted
<1> QED
  BY <1>1, Invariance, PTL

-----------------------------------------------------------------------------
(* Who waits for whom *)

\* The locks of a request: what it writes is in its scope, what it holds for
\* update is its subject, and before the first lock it has nothing.
LocksOf(r) ==
    /\ \A e \in Edges : draft[e].by = r =>
          /\ e \in Scope(r) /\ Op(r) # "updateRole"
          /\ \/ pc[r] \in {"clearing"} \cup Writing
             \/ pc[r] = "delete" /\ Op(r) # "deleteUser"
    /\ \A n \in Rows : excl[n] = r =>
          n = Subject(r) /\ Op(r) \notin Sharing /\ pc[r] \notin {"new", "lock", "done"}
    /\ \A n \in Rows : r \in share[n] => pc[r] \notin {"new", "lock", "done"}

LocksKnown == \A r \in Requests : LocksOf(r)

\* A step of one request that gives the others no locks.
LEMMA LocksOfOthers ==
    ASSUME LocksKnown, NEW r \in Requests, LocksOf(r)',
           \A s \in Requests \ {r} : pc'[s] = pc[s] /\ job'[s] = job[s],
           \A e \in Edges, s \in Requests \ {r} : draft'[e].by = s => draft[e].by = s,
           \A n \in Rows, s \in Requests \ {r} : excl'[n] = s => excl[n] = s,
           \A n \in Rows, s \in Requests \ {r} : s \in share'[n] => s \in share[n]
    PROVE  LocksKnown'
<1> SUFFICES ASSUME NEW s \in Requests \ {r} PROVE LocksOf(s)'
  BY DEF LocksKnown
<1>1. LocksOf(s) /\ pc'[s] = pc[s] /\ job'[s] = job[s]
  BY DEF LocksKnown
<1>2. Scope(s)' = Scope(s) /\ Op(s)' = Op(s) /\ Subject(s)' = Subject(s)
  BY <1>1 DEF Scope, Op, Subject, Of, To
<1> QED
  BY <1>1, <1>2 DEF LocksOf

\* A request that ends has nothing left.
LEMMA UnlockedKnown ==
    ASSUME TypeOK, LocksKnown, NEW r \in Requests, Unlock(r) PROVE LocksKnown'
<1>1. LocksOf(r)'
  BY UnlockFacts DEF LocksOf, NoDraft
<1> QED
  BY <1>1, UnlockFacts, LocksOfOthers DEF NoDraft

\* A statement that takes no lock and writes nothing.
LEMMA QuietLocks ==
    ASSUME TypeOK, LocksKnown, NEW r \in Requests, UNCHANGED locks,
           NEW step \in Steps \ {"new", "lock", "done"}, Goto(r, step),
           job'[r].op = Op(r), job'[r].subject = Subject(r),
           \A s \in Requests \ {r} : job'[s] = job[s],
           \/ step \in {"clearing"} \cup Writing
           \/ step = "delete" /\ Op(r) # "deleteUser"
           \/ pc[r] \in {"lock", "resolve", "take", "count", "affected", "clear"}
    PROVE  LocksKnown'
<1>1. pc'[r] = step /\ \A s \in Requests \ {r} : pc'[s] = pc[s]
  BY DEF Goto, TypeOK
<1>2. Op(r)' = Op(r) /\ Subject(r)' = Subject(r) /\ Scope(r)' = Scope(r)
  BY DEF Op, Subject, Scope, Of, To
<1>3. LocksOf(r)'
  BY <1>1, <1>2 DEF LocksKnown, LocksOf, Writing
<1> QED
  BY <1>1, <1>3, LocksOfOthers

\* A statement that writes relation rows.
LEMMA WritingLocks ==
    ASSUME TypeOK, LocksKnown, NEW r \in Requests, UNCHANGED <<share, excl>>,
           pc[r] \in {"clearing"} \cup Writing, Op(r) # "updateRole",
           NEW step \in Steps \ {"new", "lock", "done"}, Goto(r, step),
           job'[r].op = Op(r), job'[r].subject = Subject(r),
           \A s \in Requests \ {r} : job'[s] = job[s],
           NEW e \in Scope(r), e \in Edges,
           \A f \in Edges \ {e} : draft'[f] = draft[f],
           draft'[e] = draft[e] \/ draft'[e].by = r,
           \/ step \in {"clearing"} \cup Writing
           \/ step = "delete" /\ Op(r) # "deleteUser"
    PROVE  LocksKnown'
<1>1. pc'[r] = step /\ \A s \in Requests \ {r} : pc'[s] = pc[s]
  BY DEF Goto, TypeOK
<1>2. Op(r)' = Op(r) /\ Subject(r)' = Subject(r) /\ Scope(r)' = Scope(r)
  BY DEF Op, Subject, Scope, Of, To
<1>3. LocksOf(r)'
  BY <1>1, <1>2 DEF LocksKnown, LocksOf, Writing
<1>4. \A f \in Edges, s \in Requests \ {r} : draft'[f].by = s => draft[f].by = s
  OBVIOUS
<1> QED
  BY <1>1, <1>3, <1>4, LocksOfOthers

\* Every statement keeps that account of the locks.
LEMMA StatementLocks ==
    ASSUME IInv, LocksKnown, NEW r \in Requests, Statement(r) PROVE LocksKnown'
<1>0. TypeOK /\ r # None
  BY DEF IInv
<1>00. pc[r] \notin {"new", "done"} => UnderWay(r) /\ RequestOK(r) /\ job[r] \in Job
                 /\ Op(r) \in Ops /\ Subject(r) \in Rows /\ Scope(r) \subseteq Edges
                 /\ job[r].want \subseteq Of(Subject(r))
  BY UnderWayFacts DEF UnderWay
<1>1. CASE Lock(r)
  <2>0. pc[r] = "lock" /\ Subject(r) \in Rows /\ Op(r) \in Ops
    BY <1>1, <1>00 DEF Lock
  <2>1. CASE row[Subject(r)] # "live"
    BY <1>0, <1>1, <2>1, UnlockedKnown DEF Lock, Rollback
  <2>2. CASE row[Subject(r)] = "live"
    <3>1. /\ \A n \in Rows \ {Subject(r)} : excl'[n] = excl[n] /\ share'[n] = share[n]
          /\ excl'[Subject(r)] = r => Op(r) \notin Sharing \/ excl[Subject(r)] = r
          /\ \A s \in Requests \ {r} : (excl'[Subject(r)] = s => excl[Subject(r)] = s)
               /\ (s \in share'[Subject(r)] => s \in share[Subject(r)])
          /\ pc'[r] = AfterLock(Op(r)) /\ \A s \in Requests \ {r} : pc'[s] = pc[s]
          /\ draft' = draft /\ job' = job
      BY <1>0, <1>1, <2>0, <2>2 DEF Lock, Goto, TypeOK
    <3>2. AfterLock(Op(r)) \notin {"new", "lock", "done"}
      BY <2>0 DEF AfterLock, Ops, Replacements, Deletions
    <3>3. LocksOf(r) /\ Scope(r)' = Scope(r) /\ Op(r)' = Op(r) /\ Subject(r)' = Subject(r)
      BY <3>1 DEF LocksKnown, Scope, Op, Subject, Of, To
    <3>4. LocksOf(r)'
      BY <2>0, <3>1, <3>2, <3>3 DEF LocksOf, Writing
    <3> QED
      BY <3>1, <3>4, LocksOfOthers
  <2> QED
    BY <2>1, <2>2
<1>2. CASE Resolve(r)
  <2>0. pc[r] = "resolve"
    BY <1>2 DEF Resolve
  <2>1. CASE Rollback(r)
    BY <1>0, <2>1, UnlockedKnown DEF Rollback
  <2>2. CASE ~Rollback(r)
    <3>1. \E step \in {"clear", "take"} : Goto(r, step)
      BY <1>2, <2>2 DEF Resolve, GotoWith
    <3>2. /\ UNCHANGED locks /\ job'[r].op = Op(r) /\ job'[r].subject = Subject(r)
          /\ \A s \in Requests \ {r} : job'[s] = job[s]
      BY <1>0, <1>00, <1>2, <2>0, <2>2 DEF Resolve, GotoWith, TypeOK, Op, Subject, Job
    <3> QED
      BY <1>0, <2>0, <3>1, <3>2, QuietLocks DEF Steps
  <2> QED
    BY <2>1, <2>2
<1>3. CASE Take(r)
  <2>0. pc[r] = "take"
    BY <1>3 DEF Take
  <2>1. CASE Rollback(r)
    BY <1>0, <2>1, UnlockedKnown DEF Rollback
  <2>2. CASE ~Rollback(r)
    <3>1. PICK e \in job[r].todo : share' = Taken(r, Target(e)) /\ UNCHANGED <<draft, excl>>
                    /\ GotoWith(r, IF job[r].todo \ {e} = {} THEN "clear" ELSE "take",
                                job[r].todo \ {e})
      BY <1>3, <2>2 DEF Take
    <3>2. /\ pc'[r] \in {"clear", "take"} /\ \A s \in Requests \ {r} : pc'[s] = pc[s]
          /\ job'[r].op = Op(r) /\ job'[r].subject = Subject(r)
          /\ \A s \in Requests \ {r} : job'[s] = job[s]
      BY <1>0, <1>00, <2>0, <3>1 DEF GotoWith, Goto, TypeOK, Op, Subject, Job
    <3>3. \A n \in Rows, s \in Requests \ {r} : s \in share'[n] => s \in share[n]
      BY <1>0, <3>1 DEF Taken, TypeOK
    <3>4. Scope(r)' = Scope(r) /\ Op(r)' = Op(r) /\ Subject(r)' = Subject(r) /\ LocksOf(r)
      BY <3>2 DEF LocksKnown, Scope, Op, Subject, Of, To
    <3>5. LocksOf(r)'
      BY <2>0, <3>1, <3>2, <3>4 DEF LocksOf, Writing
    <3> QED
      BY <3>1, <3>2, <3>3, <3>5, LocksOfOthers
  <2> QED
    BY <2>1, <2>2
<1>4. CASE Count(r) \/ Affected(r)
  <2>1. CASE Rollback(r)
    BY <1>0, <2>1, UnlockedKnown DEF Rollback
  <2>2. CASE ~Rollback(r)
    <3>1. /\ \E step \in {"clear", "commit"} : Goto(r, step)
          /\ pc[r] \in {"count", "affected"} /\ UNCHANGED locks
      BY <1>4, <2>2 DEF Count, Affected
    <3>2. /\ job'[r].op = Op(r) /\ job'[r].subject = Subject(r)
          /\ \A s \in Requests \ {r} : job'[s] = job[s]
      BY <1>0, <1>00, <1>4, <2>2, <3>1 DEF Count, Affected, TypeOK, Op, Subject, Job
    <3> QED
      BY <1>0, <3>1, <3>2, QuietLocks DEF Steps
  <2> QED
    BY <2>1, <2>2
<1>5. CASE Delete(r)
  <2>0. /\ pc[r] = "delete" /\ pc'[r] = AfterDelete(Op(r)) /\ Op(r) \in Deletions
        /\ \A s \in Requests \ {r} : pc'[s] = pc[s]
        /\ draft' = draft /\ share' = share /\ job' = job
        /\ excl' = [excl EXCEPT ![Subject(r)] = r]
    BY <1>0, <1>00, <1>5, OpAt DEF Delete, Goto, TypeOK
  <2>1. /\ \A n \in Rows \ {Subject(r)} : excl'[n] = excl[n]
        /\ excl'[Subject(r)] = r
    BY <1>0, <1>00, <2>0 DEF TypeOK
  <2>2. LocksOf(r) /\ Scope(r)' = Scope(r) /\ Op(r)' = Op(r) /\ Subject(r)' = Subject(r)
    BY <2>0 DEF LocksKnown, Scope, Op, Subject, Of, To
  <2>3. Op(r) \notin Sharing /\ AfterDelete(Op(r)) \notin {"new", "lock", "done"}
        /\ (AfterDelete(Op(r)) = "commit" \/ Op(r) = "deleteUser")
    BY <2>0 DEF Deletions, Sharing, AfterDelete
  <2>4. LocksOf(r)'
    BY <2>0, <2>1, <2>2, <2>3 DEF LocksOf, Writing
  <2>5. \A n \in Rows, s \in Requests \ {r} : excl'[n] = s => excl[n] = s
    BY <2>1
  <2> QED
    BY <2>0, <2>4, <2>5, LocksOfOthers
<1>6. CASE Clear(r)
  <2>0. pc[r] = "clear" /\ UNCHANGED locks
    BY <1>6 DEF Clear
  <2>1. AfterClear(Op(r)) \in {"write", "commit", "delete"}
    BY <2>0, AfterClearFacts
  <2>2. \E step \in {"write", "commit", "delete", "clearing"} : Goto(r, step)
    BY <1>6, <2>1 DEF Clear, GotoWith
  <2>3. /\ job'[r].op = Op(r) /\ job'[r].subject = Subject(r)
        /\ \A s \in Requests \ {r} : job'[s] = job[s]
    BY <1>0, <1>00, <1>6, <2>0 DEF Clear, GotoWith, TypeOK, Op, Subject, Job
  <2> QED
    BY <1>0, <2>0, <2>2, <2>3, QuietLocks DEF Steps
<1>7. CASE Clearing(r)
  <2>0. pc[r] = "clearing"
    BY <1>7 DEF Clearing
  <2>1. PICK e \in job[r].todo :
          /\ draft' = IF VisibleTo(r, e) = "live"
                      THEN [draft EXCEPT ![e] = [by |-> r, to |-> "gone"]] ELSE draft
          /\ IF job[r].todo \ {e} = {}
             THEN GotoWith(r, AfterClear(Op(r)), job[r].want)
             ELSE GotoWith(r, "clearing", job[r].todo \ {e})
    BY <1>7 DEF Clearing
  <2>2. e \in Scope(r) /\ e \in Edges
    BY <1>00, <2>0 DEF RequestOK, JobOK
  <2>3. /\ \A f \in Edges \ {e} : draft'[f] = draft[f]
        /\ draft'[e] = draft[e] \/ draft'[e].by = r
    BY <1>0, <2>1, <2>2 DEF TypeOK
  <2>4. /\ AfterClear(Op(r)) \in {"write", "commit", "delete"}
        /\ AfterClear(Op(r)) = "delete" => Op(r) # "deleteUser"
        /\ Op(r) # "updateRole"
    BY <2>0, AfterClearFacts DEF AfterClear, Replacements, Deletions
  <2>5. PICK step \in {"write", "commit", "delete", "clearing"} :
          Goto(r, step) /\ (step = "delete" => Op(r) # "deleteUser")
    BY <2>1, <2>4 DEF GotoWith
  <2>6. /\ job'[r].op = Op(r) /\ job'[r].subject = Subject(r)
        /\ \A s \in Requests \ {r} : job'[s] = job[s]
    BY <1>0, <1>00, <2>0, <2>1 DEF GotoWith, TypeOK, Op, Subject, Job
  <2>7. UNCHANGED <<share, excl>>
    BY <1>7 DEF Clearing
  <2> QED
    BY <1>0, <2>0, <2>2, <2>3, <2>4, <2>5, <2>6, <2>7, WritingLocks
    DEF Steps, Writing
<1>8. CASE Write(r)
  <2>0. pc[r] = "write" /\ UNCHANGED locks
    BY <1>8 DEF Write
  <2>1. \E step \in Writing : Goto(r, step)
    BY <1>8 DEF Write, Writing
  <2>2. /\ job'[r].op = Op(r) /\ job'[r].subject = Subject(r)
        /\ \A s \in Requests \ {r} : job'[s] = job[s]
    <3>1. CASE job' = job
      BY <3>1 DEF Op, Subject
    <3>2. CASE \E e \in job[r].todo :
                 job' = [job EXCEPT ![r].todo = @ \ {e}, ![r].at = e]
      <4>1. PICK e : job' = [job EXCEPT ![r].todo = @ \ {e}, ![r].at = e]
        BY <3>2
      <4>2. job'[r] = [job[r] EXCEPT !.todo = @ \ {e}, !.at = e]
            /\ \A s \in Requests \ {r} : job'[s] = job[s]
        BY <1>0, <4>1 DEF TypeOK
      <4>3. job[r] \in Job
        BY <1>00, <2>0
      <4> QED BY <4>2, <4>3 DEF Op, Subject, Job
    <3> QED
      BY <1>8, <3>1, <3>2 DEF Write
  <2> QED
    BY <1>0, <2>0, <2>1, <2>2, QuietLocks DEF Steps, Writing
<1>9. CASE Insert(r) \/ Restore(r)
  <2>1. CASE Rollback(r)
    BY <1>0, <2>1, UnlockedKnown DEF Rollback
  <2>2. CASE ~Rollback(r)
    <3>1. /\ pc[r] \in {"insert", "restore"} /\ draft' = Drafted(r, job[r].at, "live")
          /\ Goto(r, "write") /\ UNCHANGED <<share, excl, job>>
      BY <1>9, <2>2 DEF Insert, Restore
    <3>2. job[r].at \in Scope(r) /\ job[r].at \in Edges /\ Op(r) # "updateRole"
      BY <1>00, <3>1, WritingFacts, OpAt DEF RequestOK, JobOK, UnderWay, Replacements
    <3>3. /\ \A f \in Edges \ {job[r].at} : draft'[f] = draft[f]
          /\ draft'[job[r].at].by = r
      BY <1>0, <3>1, <3>2 DEF Drafted, TypeOK
    <3> QED
      BY <1>0, <3>1, <3>2, <3>3, WritingLocks DEF Steps, Writing, Op, Subject
  <2> QED
    BY <2>1, <2>2
<1>10. CASE Commit(r)
  BY <1>0, <1>10, UnlockedKnown DEF Commit
<1> QED
  BY <1>1, <1>2, <1>3, <1>4, <1>5, <1>6, <1>7, <1>8, <1>9, <1>10 DEF Statement

\* So does every step.
LEMMA StepLocks == IInv /\ LocksKnown /\ [Next]_vars => LocksKnown'
<1> SUFFICES ASSUME IInv, LocksKnown, [Next]_vars PROVE LocksKnown'
  OBVIOUS
<1>1. ASSUME NEW r \in Requests, Arrive(r) PROVE LocksKnown'
  <2>1. PICK op, n, want, on : Start(r, op, n, want, on)
    BY <1>1 DEF Arrive
  <2>2. LocksOf(r) /\ pc[r] = "new" /\ UNCHANGED locks
        /\ \A s \in Requests \ {r} : pc'[s] = pc[s] /\ job'[s] = job[s]
    BY <2>1 DEF Start, LocksKnown, IInv, TypeOK, Goto
  <2>3. LocksOf(r)'
    BY <2>2 DEF LocksOf, Writing
  <2> QED
    BY <2>2, <2>3, LocksOfOthers
<1>2. ASSUME NEW r \in Requests, Statement(r) PROVE LocksKnown'
  BY <1>2, StatementLocks
<1>3. ASSUME NEW r \in Requests, Abort(r) PROVE LocksKnown'
  BY <1>3, UnlockedKnown DEF Abort, Rollback, IInv
<1>4. CASE UNCHANGED vars
  BY <1>4 DEF LocksKnown, LocksOf, Scope, Op, Subject
<1> QED
  BY <1>1, <1>2, <1>3, <1>4 DEF Next

\* A request that waits for another one is where one can wait, and the other has
\* what it waits for: the subject a request still has to lock, the target of an
\* assignment, or a draft in both their scopes.
LEMMA WaitingFacts ==
    ASSUME IInv, LocksKnown, NEW r \in Requests, NEW s \in Requests, WaitsFor(r, s)
    PROVE  /\ r # s /\ UnderWay(r) /\ RequestOK(r) /\ pc[s] # "lock"
           /\ \/ pc[r] = "lock"
              \/ /\ pc[r] = "take" /\ Op(r) \in Replacements
                 /\ Subject(s) \notin Users /\ Op(s) \notin Sharing
              \/ /\ pc[r] \in {"clearing", "insert", "restore"}
                 /\ \E e \in Scope(r) \cap Scope(s) : e \in Edges /\ draft[e].by = s
<1>1. r # s /\ UnderWay(r) /\ TypeOK /\ LocksOf(s)
  BY DEF WaitsFor, UnderWay, IInv, LocksKnown
<1>2. /\ RequestOK(r) /\ Subject(r) \in Rows /\ Scope(r) \subseteq Edges
      /\ job[r].want \subseteq Edges /\ Op(r) \in Ops
  BY <1>1, UnderWayFacts
<1>3. CASE pc[r] = "lock"
  BY <1>1, <1>2, <1>3 DEF WaitsFor, LocksOf
<1>4. CASE pc[r] = "take"
  <2>1. PICK e \in job[r].todo : excl[Target(e)] = s
    BY <1>4 DEF WaitsFor
  <2>2. e \in Edges /\ Target(e) \in Rows /\ Target(e) \notin Users
    BY <1>1, <1>2, <1>4, EdgeEnds DEF RequestOK, JobOK
  <2> QED
    BY <1>1, <1>2, <1>4, <2>1, <2>2, OpAt DEF LocksOf
<1>5. CASE pc[r] = "delete"
  <2>1. excl[Subject(r)] = r
    BY <1>1, <1>2, <1>5, OpAt DEF RequestOK, HoldsSubject, Deletions, Sharing
  <2> QED
    BY <1>1, <1>2, <1>5, <2>1 DEF WaitsFor, TypeOK
<1>6. CASE pc[r] = "clearing"
  <2>1. \E e \in job[r].todo : draft[e].by = s
    BY <1>6 DEF WaitsFor
  <2>2. job[r].todo \subseteq Scope(r)
    BY <1>1, <1>2, <1>6 DEF RequestOK, JobOK
  <2> QED
    BY <1>1, <1>2, <1>6, <2>1, <2>2 DEF LocksOf, Writing
<1>7. CASE pc[r] \in {"insert", "restore"}
  <2>1. draft[job[r].at].by = s
    BY <1>7 DEF WaitsFor
  <2>2. job[r].at \in Scope(r)
    BY <1>1, <1>2, <1>7, WritingFacts DEF RequestOK, JobOK
  <2> QED
    BY <1>1, <1>2, <1>7, <2>1, <2>2 DEF LocksOf, Writing
<1> QED
  BY <1>3, <1>4, <1>5, <1>6, <1>7 DEF WaitsFor

\* Who clears or writes relations for a role.
ForRole(r) == Op(r) \in {"deleteRole", "replaceRolePermissions"} /\ Subject(r) \in Roles

\* A wait for a draft, between requests that both write: either they replace the
\* relations of one owner, or the draft is of a role and a permission, and one of
\* them works for the role and the other deletes the permission.
LEMMA DraftWait ==
    ASSUME IInv, LocksKnown, NEW r \in Requests, NEW s \in Requests, r # s,
           UnderWay(r), UnderWay(s),
           pc[r] \in {"clearing", "insert", "restore"},
           pc[s] \in {"clearing", "insert", "restore"},
           NEW e \in Scope(r) \cap Scope(s), e \in Edges
    PROVE  \/ Op(r) \in Sharing /\ Op(s) \in Sharing /\ Subject(r) = Subject(s)
           \/ Op(r) = "deletePermission" /\ ForRole(s) /\ e = <<Subject(s), Subject(r)>>
           \/ Op(s) = "deletePermission" /\ ForRole(r) /\ e = <<Subject(r), Subject(s)>>
<1>0. /\ TypeOK /\ RequestOK(r) /\ RequestOK(s)
      /\ Op(r) \in Ops /\ Op(s) \in Ops /\ Subject(r) \in Rows /\ Subject(s) \in Rows
  BY UnderWayFacts DEF IInv
<1>1. CASE Subject(r) = Subject(s)
  <2>1. Op(r) # "createUser" /\ Op(s) # "createUser"
    BY <1>0, <1>1 DEF RequestOK, HoldsSubject
  <2>2. Op(r) \in Sharing /\ Op(s) \in Sharing
    BY <1>0, <1>1, <2>1 DEF RequestOK, HoldsSubject, TypeOK
  <2> QED
    BY <1>1, <2>2
<1>2. CASE Subject(r) # Subject(s)
  <2>1. ASSUME NEW p \in {r, s}, NEW q \in {r, s}, p # q, Op(p) = "deletePermission"
        PROVE  ForRole(q) /\ e = <<Subject(q), Subject(p)>>
    <3>1. Subject(p) \in Perms /\ Target(e) = Subject(p)
      BY <1>0, <2>1 DEF RequestOK, JobOK, Scope, To
    <3>2. e \in Roles \X Perms
      BY <3>1, AssignmentsAssumption DEF Edges, Target
    <3>3. Op(q) # "deletePermission"
      BY <1>2, <2>1, <3>1 DEF Scope, To
    <3>4. Owner(e) = Subject(q) /\ Subject(q) \in Roles
      BY <2>1, <3>2, <3>3 DEF Scope, Of, Owner
    <3>5. Op(q) \notin OnUsers
      BY <1>0, <2>1, <3>4, AssignmentsAssumption DEF RequestOK, JobOK
    <3>6. Op(q) # "updateRole"
      BY <2>1, OpAt DEF Replacements, Deletions
    <3>7. ForRole(q)
      BY <1>0, <2>1, <3>3, <3>4, <3>5, <3>6
         DEF ForRole, Ops, Replacements, Deletions, OnUsers
    <3>8. e = <<Owner(e), Target(e)>>
      BY <3>2 DEF Owner, Target
    <3> QED
      BY <3>1, <3>4, <3>7, <3>8
  <2>2. Op(r) = "deletePermission" \/ Op(s) = "deletePermission"
    BY <1>2 DEF Scope, Of
  <2> QED
    BY <2>1, <2>2
<1> QED
  BY <1>1, <1>2

\* Who is waited for and waits in turn has drafts and waits for a draft, or takes a
\* target of a replacement from one that has drafts.
LEMMA WaitForDraft ==
    ASSUME IInv, LocksKnown, NEW D \in SUBSET Requests, Stuck(D)
    PROVE  \E r \in D : pc[r] \in {"clearing", "insert", "restore"}
<1>1. PICK r \in D : TRUE
  BY DEF Stuck
<1>2. PICK s \in D : WaitsFor(r, s)
  BY <1>1 DEF Stuck
<1>3. PICK t \in D : WaitsFor(s, t)
  BY <1>2 DEF Stuck
<1>4. PICK u \in D : WaitsFor(t, u)
  BY <1>3 DEF Stuck
<1>5. pc[s] # "lock" /\ pc[t] # "lock"
  BY <1>2, <1>3, WaitingFacts
<1>6. CASE pc[s] = "take"
  <2>1. Subject(t) \notin Users /\ Op(t) \notin Sharing
    BY <1>3, <1>6, WaitingFacts
  <2>2. UnderWay(t) /\ RequestOK(t)
    BY <1>4, WaitingFacts
  <2>3. Op(t) \notin Replacements
    BY <2>1, <2>2 DEF RequestOK, JobOK, OnUsers, Replacements, Sharing
  <2> QED
    BY <1>4, <1>5, <2>3, WaitingFacts
<1> QED
  BY <1>3, <1>5, <1>6, WaitingFacts

\* A writer that waits in a group waits for a writer of it.
LEMMA WriterWaitsForWriter ==
    ASSUME IInv, LocksKnown, NEW D \in SUBSET Requests, Stuck(D), NEW r \in D,
           pc[r] \in {"clearing", "insert", "restore"}
    PROVE  \E s \in D : \E e \in Edges :
              /\ r # s /\ UnderWay(r) /\ UnderWay(s)
              /\ pc[s] \in {"clearing", "insert", "restore"}
              /\ e \in Scope(r) \cap Scope(s) /\ draft[e].by = s
<1>1. PICK s \in D : WaitsFor(r, s)
  BY DEF Stuck
<1>2. PICK e \in Scope(r) \cap Scope(s) : e \in Edges /\ draft[e].by = s
  BY <1>1, WaitingFacts
<1>3. PICK t \in D : WaitsFor(s, t)
  BY <1>1 DEF Stuck
<1>4. pc[s] \in {"clearing", "insert", "restore"}
  BY <1>1, <1>2, <1>3, WaitingFacts DEF LocksKnown, LocksOf, Writing
<1> QED
  BY <1>1, <1>2, <1>3, <1>4, WaitingFacts

LEMMA LocksAreKnown == Spec => []LocksKnown
<1>1. Init => LocksKnown
  BY DEF Init, LocksKnown, LocksOf, NoDraft
<1> QED
  BY <1>1, StepLocks, Invariance, PTL DEF Spec

\* Whatever the tables and however many requests: a deadlock needs two replacements
\* of one owner, or two deletions of permissions that meet the writers of two roles
\* (replaceUserRoleRelations and its like; the locks are taken by ascending id).
THEOREM DeadlocksKnown == Spec => []DeadlocksAreKnown
<1>1. IInv /\ LocksKnown => DeadlocksAreKnown
  <2> SUFFICES ASSUME IInv, LocksKnown, NEW D \in SUBSET Requests, Stuck(D),
                      ~ \E r, s \in D : /\ r # s /\ Subject(r) = Subject(s)
                                        /\ Op(r) \in Sharing /\ Op(s) \in Sharing
               PROVE  \E p, q, r, s \in D :
                        /\ Op(p) = "deletePermission" /\ Op(q) = "deletePermission"
                        /\ {Op(r), Op(s)} \subseteq {"deleteRole", "replaceRolePermissions"}
                        /\ Subject(p) # Subject(q) /\ Subject(r) # Subject(s)
    BY DEF DeadlocksAreKnown
  <2> DEFINE Writer(r) == r \in D /\ pc[r] \in {"clearing", "insert", "restore"}
             Waits(r, s, e) == /\ e \in Edges /\ draft[e].by = s /\ r # s
                               /\ \/ /\ Op(r) = "deletePermission" /\ ForRole(s)
                                     /\ e = <<Subject(s), Subject(r)>>
                                  \/ /\ Op(s) = "deletePermission" /\ ForRole(r)
                                     /\ e = <<Subject(r), Subject(s)>>
  <2>1. ASSUME NEW r, Writer(r) PROVE \E s, e : Writer(s) /\ Waits(r, s, e)
    <3>1. PICK s \in D, e \in Edges :
              /\ r # s /\ UnderWay(r) /\ UnderWay(s)
              /\ pc[s] \in {"clearing", "insert", "restore"}
              /\ e \in Scope(r) \cap Scope(s) /\ draft[e].by = s
      BY <2>1, WriterWaitsForWriter
    <3>2. \/ Op(r) = "deletePermission" /\ ForRole(s) /\ e = <<Subject(s), Subject(r)>>
          \/ Op(s) = "deletePermission" /\ ForRole(r) /\ e = <<Subject(r), Subject(s)>>
      BY <2>1, <3>1, DraftWait
    <3> QED
      BY <3>1, <3>2
  <2>2. \E p : Writer(p) /\ Op(p) = "deletePermission"
    <3>1. PICK r : Writer(r)
      BY WaitForDraft
    <3> QED
      BY <2>1, <3>1
  <2>3. PICK p : Writer(p) /\ Op(p) = "deletePermission"
    BY <2>2
  <2>4. PICK r, e : Writer(r) /\ Waits(p, r, e)
    BY <2>1, <2>3
  <2>5. PICK q, f : Writer(q) /\ Waits(r, q, f)
    BY <2>1, <2>4
  <2>6. ForRole(r) /\ e = <<Subject(r), Subject(p)>>
    BY <2>3, <2>4 DEF ForRole
  <2>7. Op(q) = "deletePermission" /\ f = <<Subject(r), Subject(q)>>
    BY <2>5, <2>6 DEF ForRole
  <2>8. PICK s, g : Writer(s) /\ Waits(q, s, g)
    BY <2>1, <2>5
  <2>9. ForRole(s) /\ g = <<Subject(s), Subject(q)>>
    BY <2>7, <2>8 DEF ForRole
  <2>10. Subject(p) # Subject(q)
    BY <2>4, <2>5, <2>6, <2>7
  <2>11. Subject(r) # Subject(s)
    BY <2>5, <2>7, <2>8, <2>9
  <2> QED
    BY <2>3, <2>4, <2>5, <2>6, <2>7, <2>8, <2>9, <2>10, <2>11 DEF ForRole
<1> QED
  BY <1>1, LocksAreKnown, Invariance, PTL
-----------------------------------------------------------------------------
(* What a replacement meets *)

\* Once a replacement that shares its subject has cleared it, whatever is there
\* and not its own draft was granted in the meantime; a request that has not begun
\* has met nobody.
MeanwhileOK(r) ==
    /\ pc[r] = "new" => meanwhile[r] = {}
    /\ Op(r) \in Sharing /\ pc[r] \in {"clearing"} \cup Writing =>
          \A e \in Of(Subject(r)) :
              edge[e] = "live" /\ draft[e].by # r =>
                  e \in meanwhile[r] \/ (pc[r] = "clearing" /\ e \in job[r].todo)

MeanwhileKnown == \A r \in Requests : MeanwhileOK(r)

\* Without a commit the other requests have met nobody new.
LEMMA MeanwhileOfOthers ==
    ASSUME IInv, MeanwhileKnown, NEW r \in Requests, UNCHANGED tables,
           \A s \in Requests \ {r} : pc'[s] = pc[s] /\ job'[s] = job[s],
           \A s \in Requests \ {r}, e \in Edges : draft[e].by = s => draft'[e].by = s,
           MeanwhileOK(r)'
    PROVE  MeanwhileKnown'
<1> SUFFICES ASSUME NEW s \in Requests \ {r} PROVE MeanwhileOK(s)'
  BY DEF MeanwhileKnown
<1>1. MeanwhileOK(s) /\ pc'[s] = pc[s] /\ job'[s] = job[s] /\ UNCHANGED <<edge, meanwhile>>
  BY DEF MeanwhileKnown
<1>2. \A e \in Of(Subject(s)) : draft[e].by = s => draft'[e].by = s
  BY DEF Of
<1> QED
  BY <1>1, <1>2 DEF MeanwhileOK, Op, Subject, Of

\* The end of a transaction without effect.
LEMMA RollbackMeanwhile ==
    ASSUME IInv, MeanwhileKnown, NEW r \in Requests, Rollback(r)
    PROVE  MeanwhileKnown'
<1>1. /\ UNCHANGED tables /\ pc'[r] = "done"
      /\ \A s \in Requests \ {r} : pc'[s] = pc[s] /\ job'[s] = job[s]
      /\ \A s \in Requests \ {r}, e \in Edges : draft[e].by = s => draft'[e].by = s
  BY DEF Rollback, Unlock, IInv, TypeOK
<1>2. MeanwhileOK(r)'
  BY <1>1 DEF MeanwhileOK, Writing
<1> QED
  BY <1>1, <1>2, MeanwhileOfOthers

\* A commit grants to a request that has cleared the same owner only what a rival
\* was asked for: whoever holds the owner for update is kept out.
LEMMA CommitMeanwhile ==
    ASSUME IInv, MeanwhileKnown, NEW s \in Requests, Commit(s)
    PROVE  MeanwhileKnown'
<1> SUFFICES ASSUME NEW t \in Requests PROVE MeanwhileOK(t)'
  BY DEF MeanwhileKnown
<1>1. CASE t = s
  <2>1. TypeOK /\ Unlock(s)
    BY CommitFacts DEF IInv
  <2>2. pc'[s] = "done"
    BY <2>1, UnlockFacts
  <2> QED
    BY <1>1, <2>2 DEF MeanwhileOK, Writing
<1>2. CASE t # s
  <2>1. /\ MeanwhileOK(t) /\ TypeOK /\ RequestOK(t)
        /\ pc'[t] = pc[t] /\ job'[t] = job[t]
        /\ \A e \in Edges : draft[e].by = t => draft'[e].by = t
    BY <1>2, CommitFacts, UnlockFacts DEF MeanwhileKnown, IInv
  <2>2. meanwhile'[t] = IF t \in Rivals(s) THEN meanwhile[t] \cup job[s].want
                                           ELSE meanwhile[t]
    BY DEF Commit
  <2>3. pc[t] = "new" => meanwhile'[t] = {}
    <3>1. pc[t] = "new" => t \notin Rivals(s)
      <4>1. pc[t] = "new" => Subject(t) = None
        BY <2>1 DEF RequestOK, JobOK, UnderWay, Subject, NoJob
      <4>2. Subject(s) # None
        BY CommitFacts
      <4> QED
        BY <4>1, <4>2 DEF Rivals
    <3> QED
      BY <2>1, <2>2, <3>1 DEF MeanwhileOK
  <2>4. ASSUME Op(t) \in Sharing, pc[t] \in {"clearing"} \cup Writing,
               NEW e \in Of(Subject(t)), edge'[e] = "live", draft'[e].by # t
        PROVE  e \in meanwhile'[t] \/ (pc[t] = "clearing" /\ e \in job[t].todo)
    <3>1. e \in Edges /\ Owner(e) = Subject(t)
      BY DEF Of
    <3>2. draft[e].by # t
      BY <2>1, <2>4, <3>1
    <3>3. CASE edge[e] = "live"
      BY <2>1, <2>2, <2>4, <3>2, <3>3 DEF MeanwhileOK
    <3>4. CASE edge[e] # "live"
      <4>1. draft[e].by = s /\ draft[e].to = "live"
        BY <2>4, <3>1, <3>4, CommitFacts
      <4>2. Subject(s) = Subject(t) /\ e \in job[s].want /\ Op(s) \in Replacements
        BY <3>1, <4>1, LiveDraft
      <4>3. UnderWay(t) /\ Op(t) # "createUser" /\ pc[t] # "lock"
        BY <2>4 DEF UnderWay, Writing, Sharing
      <4>4. row[Subject(t)] = "live" /\ t \in share[Subject(t)] /\ Subject(t) \in Rows
        BY <2>1, <2>4, <3>1, <4>3, EdgeEnds DEF RequestOK, HoldsSubject
      <4>5. Op(s) \in Sharing
        <5>1. Op(s) # "createUser"
          BY <3>1, <4>1, <4>4, LiveDraft
        <5>2. excl[Subject(s)] # s
          BY <1>2, <2>1, <4>2, <4>4, CommitFacts DEF TypeOK
        <5>3. UnderWay(s) /\ pc[s] # "lock" /\ RequestOK(s)
          BY CommitFacts
        <5> QED
          BY <5>1, <5>2, <5>3 DEF RequestOK, HoldsSubject
      <4>6. t \in Rivals(s)
        BY <1>2, <4>2, <4>5 DEF Rivals
      <4> QED
        BY <2>2, <4>2, <4>6
    <3> QED
      BY <3>3, <3>4
  <2> QED
    BY <2>1, <2>3, <2>4 DEF MeanwhileOK, Op, Subject, Of, Owner
<1> QED
  BY <1>1, <1>2

\* Before a request has looked for what to clear nothing is said of it.
LEMMA EarlyMeanwhile ==
    ASSUME IInv, MeanwhileKnown, NEW r \in Requests, UNCHANGED <<tables, draft>>,
           \A s \in Requests \ {r} : pc'[s] = pc[s] /\ job'[s] = job[s],
           pc'[r] \notin {"new", "clearing"} \cup Writing \/ Op(r)' \notin Sharing,
           pc'[r] # "new"
    PROVE  MeanwhileKnown'
<1>1. MeanwhileOK(r)'
  BY DEF MeanwhileOK
<1> QED
  BY <1>1, MeanwhileOfOthers

\* At its writes the drafts of a request only grow.
LEMMA WritingMeanwhile ==
    ASSUME IInv, MeanwhileKnown, NEW r \in Requests, UNCHANGED tables,
           pc[r] \in Writing, pc'[r] \in Writing, Op(r)' = Op(r), Subject(r)' = Subject(r),
           \A s \in Requests \ {r} : pc'[s] = pc[s] /\ job'[s] = job[s],
           \A s \in Requests, e \in Edges : draft[e].by = s => draft'[e].by = s
    PROVE  MeanwhileKnown'
<1>1. MeanwhileOK(r) /\ \A e \in Of(Subject(r)) : draft[e].by = r => draft'[e].by = r
  BY DEF MeanwhileKnown, Of
<1>2. MeanwhileOK(r)'
  BY <1>1 DEF MeanwhileOK, Writing, Of
<1> QED
  BY <1>2, MeanwhileOfOthers

\* The rows to be cleared are all that are there.
LEMMA ClearMeanwhile ==
    ASSUME IInv, MeanwhileKnown, NEW r \in Requests, Clear(r)
    PROVE  MeanwhileKnown'
<1> DEFINE todo == {e \in Scope(r) : VisibleTo(r, e) = "live"}
<1>1. /\ UNCHANGED <<tables, draft>> /\ pc[r] = "clear"
      /\ IF todo = {} THEN GotoWith(r, AfterClear(Op(r)), job[r].want)
                      ELSE GotoWith(r, "clearing", todo)
  BY DEF Clear
<1>2. TypeOK /\ UnderWay(r) /\ Op(r) \in Ops
  BY <1>1, UnderWayFacts DEF UnderWay
<1>3. \A s \in Requests \ {r} : pc'[s] = pc[s] /\ job'[s] = job[s]
  BY <1>1, <1>2 DEF GotoWith, Goto, TypeOK
<1>4. Op(r) \in Sharing => Scope(r) = Of(Subject(r))
  BY DEF Scope, Sharing
<1>5. /\ Op(r)' = Op(r) /\ Subject(r)' = Subject(r)
      /\ IF todo = {} THEN pc'[r] = AfterClear(Op(r))
                      ELSE pc'[r] = "clearing" /\ job'[r].todo = todo
  BY <1>1, <1>2 DEF GotoWith, Goto, TypeOK, Job, Op, Subject
<1>6. MeanwhileOK(r)'
  <2>1. pc'[r] # "new"
    BY <1>1, <1>5, AfterClearFacts
  <2>2. ASSUME Op(r) \in Sharing, NEW e \in Of(Subject(r)), edge[e] = "live",
               draft[e].by # r
        PROVE  pc'[r] = "clearing" /\ e \in job'[r].todo
    <3>1. e \in todo
      BY <1>4, <2>2 DEF VisibleTo
    <3> HIDE DEF todo
    <3> QED
      BY <1>5, <3>1
  <2> QED
    BY <1>1, <1>5, <2>1, <2>2 DEF MeanwhileOK, Of
<1> QED
  BY <1>1, <1>3, <1>6, MeanwhileOfOthers

\* A row that is taken off the list is gone, or drafted to be.
LEMMA ClearingMeanwhile ==
    ASSUME IInv, MeanwhileKnown, NEW r \in Requests, Clearing(r)
    PROVE  MeanwhileKnown'
<1>1. PICK e \in job[r].todo :
         /\ EdgeFree(r, e)
         /\ draft' = IF VisibleTo(r, e) = "live"
                     THEN [draft EXCEPT ![e] = [by |-> r, to |-> "gone"]] ELSE draft
         /\ IF job[r].todo \ {e} = {}
            THEN GotoWith(r, AfterClear(Op(r)), job[r].want)
            ELSE GotoWith(r, "clearing", job[r].todo \ {e})
         /\ UNCHANGED tables /\ pc[r] = "clearing"
  BY DEF Clearing
<1>2. TypeOK /\ UnderWay(r) /\ Op(r) \in Ops /\ MeanwhileOK(r) /\ e \in Edges /\ r # None
  BY <1>1, UnderWayFacts DEF UnderWay, MeanwhileKnown, RequestOK, JobOK
<1>3. /\ \A s \in Requests \ {r} : pc'[s] = pc[s] /\ job'[s] = job[s]
      /\ Op(r)' = Op(r) /\ Subject(r)' = Subject(r)
      /\ IF job[r].todo \ {e} = {} THEN pc'[r] = AfterClear(Op(r))
         ELSE pc'[r] = "clearing" /\ job'[r].todo = job[r].todo \ {e}
  BY <1>1, <1>2 DEF GotoWith, Goto, TypeOK, Job, Op, Subject
<1>4. /\ \A f \in Edges \ {e} : draft'[f] = draft[f]
      /\ VisibleTo(r, e) = "live" => draft'[e].by = r
      /\ VisibleTo(r, e) # "live" => draft'[e] = draft[e]
  BY <1>1, <1>2 DEF TypeOK
<1>5. \A s \in Requests, f \in Edges : draft[f].by = s => draft'[f].by = s
  BY <1>1, <1>2, <1>4 DEF EdgeFree
<1>6. MeanwhileOK(r)'
  <2>1. pc'[r] # "new"
    BY <1>1, <1>3, AfterClearFacts
  <2>2. ASSUME Op(r) \in Sharing, NEW f \in Of(Subject(r)), edge[f] = "live",
               draft'[f].by # r
        PROVE  f \in meanwhile[r] \/ (pc'[r] = "clearing" /\ f \in job'[r].todo)
    <3>1. f \in Edges /\ draft[f].by # r
      BY <1>5, <2>2 DEF Of
    <3>2. f \in meanwhile[r] \/ f \in job[r].todo
      BY <1>1, <1>2, <2>2, <3>1 DEF MeanwhileOK
    <3>3. f # e
      BY <1>4, <2>2, <3>1 DEF VisibleTo
    <3> QED
      BY <1>3, <3>2, <3>3
  <2> QED
    BY <1>1, <1>3, <2>1, <2>2 DEF MeanwhileOK, Of
<1> QED
  BY <1>1, <1>3, <1>5, <1>6, MeanwhileOfOthers

\* Every statement keeps that account.
LEMMA StatementMeanwhile ==
    ASSUME IInv, MeanwhileKnown, NEW r \in Requests, Statement(r)
    PROVE  MeanwhileKnown'
<1>0. TypeOK /\ r # None
  BY DEF IInv
<1>00. pc[r] \notin {"new", "done"} =>
          UnderWay(r) /\ RequestOK(r) /\ Op(r) \in Ops /\ pc[r] \in StepsOf(Op(r)) /\ job[r] \in Job
  BY UnderWayFacts DEF UnderWay
<1>1. CASE Rollback(r)
  BY <1>1, RollbackMeanwhile
<1>2. CASE ~Rollback(r) /\ (Lock(r) \/ Count(r))
  <2>1. /\ UNCHANGED <<tables, draft, job>> /\ \A s \in Requests \ {r} : pc'[s] = pc[s]
        /\ pc'[r] = AfterLock(Op(r)) \/ pc'[r] = "clear"
        /\ Op(r) \in Ops
    BY <1>0, <1>00, <1>2 DEF Lock, Count, Goto, TypeOK
  <2>2. pc'[r] \notin {"new", "clearing"} \cup Writing
    BY <2>1 DEF AfterLock, Ops, Replacements, Deletions, Writing
  <2> QED
    BY <2>1, <2>2, EarlyMeanwhile
<1>3. CASE ~Rollback(r) /\ (Resolve(r) \/ Take(r))
  <2>1. /\ UNCHANGED <<tables, draft>>
        /\ \E step \in {"clear", "take"} : \E todo : GotoWith(r, step, todo)
    BY <1>3 DEF Resolve, Take
  <2>2. /\ \A s \in Requests \ {r} : pc'[s] = pc[s] /\ job'[s] = job[s]
        /\ pc'[r] \in {"clear", "take"}
    BY <1>0, <2>1 DEF GotoWith, Goto, TypeOK
  <2> QED
    BY <2>1, <2>2, EarlyMeanwhile DEF Writing
<1>4. CASE Affected(r)
  <2>1. Op(r) = "updateRole" /\ job[r] \in Job
    BY <1>00, <1>4 DEF Affected, StepsOf, Ops, Replacements, Deletions, Taking, Ready, Writing
  <2>2. /\ UNCHANGED <<tables, draft>> /\ pc'[r] = "commit"
        /\ \A s \in Requests \ {r} : pc'[s] = pc[s] /\ job'[s] = job[s]
        /\ job'[r] = [job[r] EXCEPT !.seen = {u \in Users : edge[<<u, Subject(r)>>] = "live"}]
    BY <1>0, <1>4 DEF Affected, Goto, TypeOK
  <2>3. Op(r)' = "updateRole"
    BY <2>1, <2>2 DEF Op, Job
  <2> QED
    BY <2>2, <2>3, EarlyMeanwhile DEF Sharing
<1>5. CASE Delete(r)
  <2>1. Op(r) \in Deletions
    BY <1>00, <1>5 DEF Delete, StepsOf, Ops, Replacements, Deletions, Taking, Ready, Writing
  <2>2. /\ UNCHANGED <<tables, draft, job>> /\ pc'[r] \in {"clear", "commit"}
        /\ \A s \in Requests \ {r} : pc'[s] = pc[s]
    BY <1>0, <1>5 DEF Delete, Goto, AfterDelete, TypeOK
  <2>3. Op(r)' \notin Sharing
    BY <2>1, <2>2 DEF Op, Deletions, Sharing
  <2> QED
    BY <2>2, <2>3, EarlyMeanwhile
<1>6. CASE Clear(r)
  BY <1>6, ClearMeanwhile
<1>7. CASE Clearing(r)
  BY <1>7, ClearingMeanwhile
<1>8. CASE Write(r)
  <2>1. /\ UNCHANGED <<tables, draft>> /\ pc[r] = "write"
        /\ \E step \in {"commit", "insert", "restore"} : Goto(r, step)
        /\ \/ job' = job
           \/ \E todo, at : job' = [job EXCEPT ![r].todo = todo, ![r].at = at]
    BY <1>8 DEF Write
  <2>2. /\ pc'[r] \in Writing /\ \A s \in Requests \ {r} : pc'[s] = pc[s] /\ job'[s] = job[s]
        /\ Op(r)' = Op(r) /\ Subject(r)' = Subject(r)
    <3>1. pc'[r] \in Writing /\ \A s \in Requests \ {r} : pc'[s] = pc[s]
      BY <1>0, <2>1 DEF Goto, TypeOK, Writing
    <3>2. /\ \A s \in Requests \ {r} : job'[s] = job[s]
          /\ Op(r)' = Op(r) /\ Subject(r)' = Subject(r)
      <4>1. CASE job' = job
        BY <4>1 DEF Op, Subject
      <4>2. ASSUME NEW todo, NEW at, job' = [job EXCEPT ![r].todo = todo, ![r].at = at]
            PROVE  /\ \A s \in Requests \ {r} : job'[s] = job[s]
                   /\ Op(r)' = Op(r) /\ Subject(r)' = Subject(r)
        BY <1>0, <4>2 DEF TypeOK, Job, Op, Subject
      <4> QED
        BY <2>1, <4>1, <4>2
    <3> QED
      BY <3>1, <3>2
  <2> QED
    BY <2>1, <2>2, WritingMeanwhile DEF Writing
<1>9. CASE ~Rollback(r) /\ (Insert(r) \/ Restore(r))
  <2>1. /\ UNCHANGED <<tables, job>> /\ pc[r] \in {"insert", "restore"} /\ Goto(r, "write")
        /\ EdgeFree(r, job[r].at) /\ draft' = Drafted(r, job[r].at, "live")
    BY <1>9 DEF Insert, Restore
  <2>2. /\ pc'[r] = "write" /\ \A s \in Requests \ {r} : pc'[s] = pc[s]
        /\ Op(r)' = Op(r) /\ Subject(r)' = Subject(r)
    BY <1>0, <2>1 DEF Goto, TypeOK, Op, Subject
  <2>3. \A s \in Requests, e \in Edges : draft[e].by = s => draft'[e].by = s
    BY <1>0, <2>1 DEF Drafted, EdgeFree, TypeOK
  <2> QED
    BY <2>1, <2>2, <2>3, WritingMeanwhile DEF Writing
<1>10. CASE Commit(r)
  BY <1>10, CommitMeanwhile
<1> QED
  BY <1>1, <1>2, <1>3, <1>4, <1>5, <1>6, <1>7, <1>8, <1>9, <1>10 DEF Statement

\* So does every step.
LEMMA StepMeanwhile == IInv /\ MeanwhileKnown /\ [Next]_vars => MeanwhileKnown'
<1> SUFFICES ASSUME IInv, MeanwhileKnown, [Next]_vars PROVE MeanwhileKnown'
  OBVIOUS
<1>1. ASSUME NEW r \in Requests, Arrive(r) PROVE MeanwhileKnown'
  <2>1. PICK op, n, want, on : Start(r, op, n, want, on)
    BY <1>1 DEF Arrive
  <2>2. /\ UNCHANGED <<tables, draft>> /\ pc'[r] = First(op)
        /\ \A s \in Requests \ {r} : pc'[s] = pc[s] /\ job'[s] = job[s]
    BY <2>1 DEF Start, IInv, TypeOK, Goto
  <2> QED
    BY <2>2, EarlyMeanwhile DEF First, Writing
<1>2. ASSUME NEW r \in Requests, Statement(r) PROVE MeanwhileKnown'
  BY <1>2, StatementMeanwhile
<1>3. ASSUME NEW r \in Requests, Abort(r) PROVE MeanwhileKnown'
  BY <1>3, RollbackMeanwhile DEF Abort
<1>4. CASE UNCHANGED vars
  BY <1>4 DEF MeanwhileKnown, MeanwhileOK, Op, Subject
<1> QED
  BY <1>1, <1>2, <1>3, <1>4 DEF Next

LEMMA MeanwhileIsKnown == Spec => []MeanwhileKnown
<1>1. Init => MeanwhileKnown
  BY DEF Init, MeanwhileKnown, MeanwhileOK, Writing
<1> QED
  BY <1>1, StepMeanwhile, Invariance, PTL DEF Spec

-----------------------------------------------------------------------------
(* The services implement Relations *)

\* The tasks and the relations of the refinement mapping of ImplementsRelations.
Task(r) == [op |-> Op(r), subject |-> Subject(r), want |-> job[r].want, on |-> job[r].on]
Tasks   == [r \in Requests |-> Task(r)]
Live    == {e \in Edges : edge[e] = "live"}

\* A request that ends has nothing more to do.
LEMMA TaskEnds ==
    ASSUME IInv, NEW r \in Requests, Unlock(r)
    PROVE  Tasks' = [Tasks EXCEPT ![r] = Granting!Idle]
<1>1. /\ job'[r] = NoJob
      /\ \A s \in Requests \ {r} : job'[s] = job[s]
  BY UnlockFacts DEF IInv
<1>2. Task(r)' = Granting!Idle
  BY <1>1 DEF Task, Op, Subject, NoJob, Granting!Idle
<1>3. \A s \in Requests \ {r} : Task(s)' = Task(s)
  BY <1>1 DEF Task, Op, Subject
<1> QED
  BY <1>2, <1>3 DEF Tasks

\* A rollback is a failure of the task.
LEMMA RollbackFails ==
    ASSUME IInv, NEW r \in Requests, Rollback(r)
    PROVE  Granting!Fail(r)
<1>1. Tasks' = [Tasks EXCEPT ![r] = Granting!Idle] /\ UNCHANGED tables
  BY TaskEnds DEF Rollback
<1> QED
  BY <1>1 DEF Granting!Fail, Granting!Ends, Tasks, Task, Op, Subject

\* What a request that arrives is to do.
LEMMA StartAsks ==
    ASSUME IInv, MeanwhileKnown, NEW r \in Requests, NEW op \in Ops, NEW n \in Rows,
           NEW want \in SUBSET Of(n), NEW on \in BOOLEAN, Start(r, op, n, want, on),
           op \in OnUsers => n \in Users, op \in OnRoles => n \in Roles,
           op = "deletePermission" => n \in Perms
    PROVE  Granting!Ask(r)
<1> DEFINE task == [op |-> op, subject |-> n, want |-> want, on |-> on]
<1>1. job[r] = NoJob /\ UNCHANGED tables
  BY DEF Start, IInv, RequestOK, JobOK, UnderWay
<1>2. /\ job'[r] = [NoJob EXCEPT !.op = op, !.subject = n, !.want = want, !.on = on]
      /\ \A s \in Requests \ {r} : job'[s] = job[s]
  BY DEF Start, IInv, TypeOK
<1>3. Task(r) = Granting!Idle /\ Task(r)' = task
  BY <1>1, <1>2 DEF Task, Op, Subject, NoJob, Granting!Idle
<1>4. \A s \in Requests : Task(s)' = IF s = r THEN task ELSE Task(s)
  BY <1>2, <1>3 DEF Task, Op, Subject
<1>5. task \in Granting!Task /\ task.want \subseteq Granting!Of(task.subject)
  BY DEF Granting!Task, Granting!OnUser, Granting!OnRole, Granting!Of, Granting!Pairs,
     Of, Edges, Owner, Ops, Replacements, Deletions, OnUsers, OnRoles
<1> HIDE DEF task
<1>6. Tasks'[r] = task /\ Tasks' = [Tasks EXCEPT ![r] = task] /\ Tasks[r] = Granting!Idle
  BY <1>3, <1>4 DEF Tasks
<1>7. meanwhile' = [meanwhile EXCEPT ![r] = {}]
  <2>1. meanwhile[r] = {} /\ meanwhile \in [Requests -> SUBSET Edges]
    BY DEF Start, MeanwhileKnown, MeanwhileOK, IInv, TypeOK
  <2> QED
    BY <1>1, <2>1
<1> QED
  BY <1>1, <1>5, <1>6, <1>7 DEF Granting!Ask, Tasks, Task, Op, Subject

\* Every arrival is the asking of one of the tasks.
LEMMA ArriveAsks ==
    ASSUME IInv, MeanwhileKnown, NEW r \in Requests, Arrive(r)
    PROVE  Granting!Ask(r)
<1> USE StartAsks DEF Ops, Replacements, Deletions, OnUsers, OnRoles, Rows
<1>1. CASE \E u \in Users : \E want \in SUBSET Of(u) :
              \E op \in {"createUser", "updateUser", "replaceUserRoles"} :
                 Start(r, op, u, want, FALSE)
  BY <1>1
<1>2. CASE \E u \in Users : Start(r, "deleteUser", u, {}, FALSE)
  BY <1>2
<1>3. CASE \E n \in Roles : \/ \E on \in BOOLEAN : Start(r, "updateRole", n, {}, on)
                            \/ Start(r, "deleteRole", n, {}, FALSE)
                            \/ \E want \in SUBSET Of(n) :
                                  Start(r, "replaceRolePermissions", n, want, FALSE)
  BY <1>3
<1>4. CASE \E n \in Perms : Start(r, "deletePermission", n, {}, FALSE)
  BY <1>4
<1> QED
  BY <1>1, <1>2, <1>3, <1>4 DEF Arrive

\* A statement before the last neither changes what is committed nor the task, or
\* it ends in a rollback.
LEMMA StatementIsSilent ==
    ASSUME IInv, NEW r \in Requests, Statement(r), ~Commit(r), ~Rollback(r)
    PROVE  UNCHANGED tables /\ Tasks' = Tasks
<1>1. UNCHANGED tables
  BY DEF Statement, Lock, Resolve, Take, Count, Affected, Delete, Clear, Clearing, Write,
     Insert, Restore
<1>2. \/ job' = job
      \/ \E todo : job' = [job EXCEPT ![r].todo = todo]
      \/ \E seen : job' = [job EXCEPT ![r].seen = seen]
      \/ \E todo, at : job' = [job EXCEPT ![r].todo = todo, ![r].at = at]
  <2>1. CASE Lock(r) \/ Count(r) \/ Delete(r) \/ Insert(r) \/ Restore(r)
    BY <2>1 DEF Lock, Count, Delete, Insert, Restore
  <2>2. CASE Resolve(r) \/ Take(r) \/ Clear(r) \/ Clearing(r)
    BY <2>2 DEF Resolve, Take, Clear, Clearing, GotoWith
  <2>3. CASE Affected(r)
    BY <2>3 DEF Affected
  <2>4. CASE Write(r)
    BY <2>4 DEF Write
  <2> QED
    BY <2>1, <2>2, <2>3, <2>4 DEF Statement
<1>3. ASSUME NEW s \in Requests PROVE Task(s)' = Task(s)
  <2>1. job[s] \in Job /\ \A q \in Requests \ {r} : job'[q] = job[q]
    BY <1>2 DEF IInv, TypeOK
  <2>2. CASE s # r
    BY <2>1, <2>2 DEF Task, Op, Subject
  <2>3. CASE s = r
    <3>1. \/ job'[s] = job[s]
          \/ \E todo : job'[s] = [job[s] EXCEPT !.todo = todo]
          \/ \E seen : job'[s] = [job[s] EXCEPT !.seen = seen]
          \/ \E todo, at : job'[s] = [job[s] EXCEPT !.todo = todo, !.at = at]
      <4>1. job \in [Requests -> Job]
        BY DEF IInv, TypeOK
      <4>2. CASE job' = job
        BY <4>2
      <4>3. ASSUME NEW todo, job' = [job EXCEPT ![r].todo = todo]
            PROVE  job'[s] = [job[s] EXCEPT !.todo = todo]
        BY <2>3, <4>1, <4>3
      <4>4. ASSUME NEW seen, job' = [job EXCEPT ![r].seen = seen]
            PROVE  job'[s] = [job[s] EXCEPT !.seen = seen]
        BY <2>3, <4>1, <4>4
      <4>5. ASSUME NEW todo, NEW at, job' = [job EXCEPT ![r].todo = todo, ![r].at = at]
            PROVE  job'[s] = [job[s] EXCEPT !.todo = todo, !.at = at]
        BY <2>3, <4>1, <4>5
      <4> QED
        BY <1>2, <4>2, <4>3, <4>4, <4>5
    <3>2. /\ job'[s].op = job[s].op /\ job'[s].subject = job[s].subject
          /\ job'[s].want = job[s].want /\ job'[s].on = job[s].on
      BY <2>1, <3>1 DEF Job
    <3> QED
      BY <3>2 DEF Task, Op, Subject
  <2> QED
    BY <2>2, <2>3
<1> QED
  BY <1>1, <1>3 DEF Tasks

\* What a commit makes of the relations: those in the scope of the request become
\* what it sees, the others stay.
LEMMA CommitRelations ==
    ASSUME IInv, LocksKnown, NEW s \in Requests, Commit(s)
    PROVE  /\ Live' \subseteq Edges /\ Live \subseteq Edges
           /\ \A e \in Edges : e \in Live' <=> VisibleTo(s, e) = "live"
           /\ \A e \in Edges \ Scope(s) : e \in Live' <=> e \in Live
<1>1. \A e \in Edges : edge'[e] = VisibleTo(s, e)
  BY DEF Commit, VisibleTo
<1>2. \A e \in Edges \ Scope(s) : draft[e].by # s
  BY DEF LocksKnown, LocksOf
<1> QED
  BY <1>1, <1>2 DEF Live, VisibleTo

\* Committing a replacement leaves its owner what was asked for, and of what it
\* already had at most what others granted in the meantime.
LEMMA ReplacementCommits ==
    ASSUME IInv, LocksKnown, MeanwhileKnown, NEW s \in Requests, Commit(s), Op(s) \in Replacements
    PROVE  \E kept \in SUBSET (Live \cap Of(Subject(s))) :
              /\ Live' = (Live \ Of(Subject(s))) \cup job[s].want \cup kept
              /\ Op(s) \in {"createUser", "updateUser"} => kept = {}
              /\ kept \subseteq meanwhile[s]
<1>1. /\ pc[s] = "commit" /\ RequestOK(s) /\ UnderWay(s)
      /\ job[s].want \subseteq Of(Subject(s)) /\ job[s].want \subseteq Edges
      /\ Scope(s) = Of(Subject(s))
  BY CommitFacts, UnderWayFacts DEF Scope, Replacements
<1>2. \A e \in job[s].want : VisibleTo(s, e) = "live"
  <2>1. job[s].todo = {}
    BY <1>1 DEF RequestOK, JobOK
  <2>2. \A e \in job[s].want : draft[e] = [by |-> s, to |-> "live"]
    BY <1>1, <2>1 DEF RequestOK, Drafts, Writing
  <2> QED
    BY <2>2 DEF VisibleTo
<1>3. \A e \in Edges : draft[e].by = s /\ draft[e].to = "live" => e \in job[s].want
  BY <1>1 DEF RequestOK, Drafts
<1>4. CASE Op(s) \in {"createUser", "updateUser"}
  <2>1. \A e \in Of(Subject(s)) : VisibleTo(s, e) = "live" => e \in job[s].want
    BY <1>1, <1>4 DEF RequestOK, Cleared, Writing
  <2>2. Live' = (Live \ Of(Subject(s))) \cup job[s].want \cup {}
    BY <1>1, <1>2, <2>1, CommitRelations
  <2>3. {} \in SUBSET (Live \cap Of(Subject(s))) /\ {} \subseteq meanwhile[s]
    OBVIOUS
  <2> QED
    BY <2>2, <2>3
<1>5. CASE Op(s) \notin {"createUser", "updateUser"}
  <2> DEFINE kept == {e \in Live \cap Of(Subject(s)) :
                         VisibleTo(s, e) = "live" /\ e \notin job[s].want}
  <2>1. \A e \in Edges : VisibleTo(s, e) = "live" => e \in job[s].want \/ e \in Live
    BY <1>3 DEF VisibleTo, Live
  <2>2. Live' = (Live \ Of(Subject(s))) \cup job[s].want \cup kept
    BY <1>1, <1>2, <2>1, CommitRelations
  <2>3. kept \subseteq meanwhile[s]
    <3> SUFFICES ASSUME NEW e \in kept PROVE e \in meanwhile[s]
      OBVIOUS
    <3>1. e \in Of(Subject(s)) /\ e \in Edges /\ edge[e] = "live" /\ draft[e].by # s
      BY <1>3 DEF Live, VisibleTo
    <3>2. MeanwhileOK(s) /\ Op(s) \in Sharing
      BY <1>5 DEF MeanwhileKnown, Replacements, Sharing
    <3> QED
      BY <1>1, <3>1, <3>2 DEF MeanwhileOK, Writing
  <2> QED
    BY <1>5, <2>2, <2>3
<1> QED
  BY <1>4, <1>5

\* Committing a deletion takes exactly the relations in its scope along.
LEMMA DeletionCommits ==
    ASSUME IInv, LocksKnown, NEW s \in Requests, Commit(s), Op(s) \in Deletions
    PROVE  Live' = Live \ Scope(s)
<1>1. pc[s] = "commit" /\ RequestOK(s)
  BY CommitFacts
<1>2. \A e \in Scope(s) : VisibleTo(s, e) # "live"
  BY <1>1 DEF RequestOK, Cleared, Deletions
<1> QED
  BY <1>2, CommitRelations

\* A commit is the step of Relations for its operation.
LEMMA CommitIsStep ==
    ASSUME IInv, LocksKnown, MeanwhileKnown, NEW s \in Requests, Commit(s)
    PROVE  Granting!Next
<1> DEFINE n == Subject(s)
<1>1. /\ pc[s] = "commit" /\ RequestOK(s) /\ UnderWay(s) /\ TypeOK /\ Op(s) \in Ops
      /\ n \in Rows /\ job[s].want \subseteq Edges
      /\ Tasks' = [Tasks EXCEPT ![s] = Granting!Idle] /\ Tasks[s] = Task(s)
  BY CommitFacts, UnderWayFacts, TaskEnds DEF Tasks
<1>2. /\ Op(s) = "createUser" => row[n] = "absent"
      /\ Op(s) # "createUser" => row[n] = "live"
  BY <1>1 DEF RequestOK, HoldsSubject
<1>3. Granting!Of(n) = Of(n) /\ Granting!To(n) = To(n)
  BY DEF Granting!Of, Granting!To, Granting!Pairs, Of, To, Edges, Owner, Target
<1>4. ASSUME NEW op, op = Op(s) PROVE Granting!Ends(s, op)
  BY <1>1, <1>4 DEF Granting!Ends, Tasks, Task, Op, Subject
<1>m. /\ meanwhile' = [t \in Requests |->
                         IF t # s /\ Op(s) \in Sharing /\ Tasks[t].subject = Tasks[s].subject
                         THEN meanwhile[t] \cup Tasks[s].want ELSE meanwhile[t]]
      /\ Op(s) \notin Sharing => meanwhile' = meanwhile
  <2>1. \A t \in Requests : t \in Rivals(s) <=>
           t # s /\ Op(s) \in Sharing /\ Tasks[t].subject = Tasks[s].subject
    BY DEF Rivals, Tasks, Task
  <2>2. Tasks[s].want = job[s].want /\ meanwhile \in [Requests -> SUBSET Edges]
    BY <1>1 DEF Task, TypeOK
  <2>3. meanwhile' = [t \in Requests |-> IF t \in Rivals(s) THEN meanwhile[t] \cup job[s].want
                                                            ELSE meanwhile[t]]
    BY DEF Commit
  <2> QED
    BY <2>1, <2>2, <2>3
<1>5. CASE Op(s) \in Replacements
  <2>1. PICK kept \in SUBSET (Live \cap Of(n)) :
           /\ Live' = (Live \ Of(n)) \cup job[s].want \cup kept
           /\ Op(s) \in {"createUser", "updateUser"} => kept = {}
           /\ kept \subseteq meanwhile[s]
    BY <1>5, ReplacementCommits
  <2>2. \A e \in job[s].want : Granting!Grantable(e)
    <3>1. \A e \in job[s].want :
             row[Target(e)] = "live" /\ (Target(e) \in Roles => enabled[Target(e)])
      BY <1>1, <1>5 DEF RequestOK, HoldsTargets, Ready, Writing
    <3> QED
      BY <3>1 DEF Granting!Grantable, Granting!Live, Target
  <2>3. enabled' = enabled
    BY <1>5 DEF Commit, Replacements
  <2>4. Granting!Assigned(s, kept)
    BY <1>3, <2>1, <2>2, <2>3 DEF Granting!Assigned, Live, Tasks, Task, Subject
  <2>5. CASE Op(s) = "createUser"
    <3>1. row' = [row EXCEPT ![n] = "live"] /\ kept = {}
      BY <2>1, <2>5 DEF Commit, Deletions
    <3>2. Granting!CreateUser(s)
      BY <1>2, <1>4, <1>m, <2>4, <2>5, <3>1 DEF Granting!CreateUser, Tasks, Task, Subject, Sharing
    <3> QED
      BY <3>2 DEF Granting!Next
  <2>6. CASE Op(s) # "createUser"
    <3>1. row' = row
      BY <1>5, <2>6 DEF Commit, Deletions, Replacements
    <3>2. CASE Op(s) = "updateUser"
      <4>1. Granting!UpdateUser(s)
        BY <1>2, <1>4, <1>m, <2>1, <2>4, <3>1, <3>2
        DEF Granting!UpdateUser, Granting!Live, Subject, Sharing
      <4> QED
        BY <4>1 DEF Granting!Next
    <3>3. CASE Op(s) # "updateUser"
      <4>1. Op(s) \in {"replaceUserRoles", "replaceRolePermissions"}
        BY <1>5, <2>6, <3>3 DEF Replacements
      <4>2. kept \in SUBSET (Live \cap Granting!Of(n) \cap meanwhile[s])
        BY <1>3, <2>1
      <4>3. meanwhile' = [t \in Requests |->
                            IF t # s /\ Tasks[t].subject = Tasks[s].subject
                            THEN meanwhile[t] \cup Tasks[s].want ELSE meanwhile[t]]
        BY <1>m, <4>1 DEF Sharing
      <4>4. Granting!Replace(s)
        BY <1>2, <1>4, <2>4, <3>1, <4>1, <4>2, <4>3
        DEF Granting!Replace, Granting!Live, Live, Tasks, Task, Subject
      <4> QED
        BY <4>4 DEF Granting!Next
    <3> QED
      BY <3>2, <3>3
  <2> QED
    BY <2>5, <2>6
<1>6. CASE Op(s) \in Deletions
  <2>1. Live' = Live \ Scope(s)
    BY <1>6, DeletionCommits
  <2>2. Granting!Removed(n)
    BY <1>2, <1>6, <1>m DEF Commit, Granting!Removed, Granting!Live, Deletions, Sharing
  <2>3. CASE Op(s) = "deleteUser"
    <3>1. Granting!DeleteUser(s)
      BY <1>3, <1>4, <2>1, <2>2, <2>3
      DEF Granting!DeleteUser, Scope, Live, Tasks, Task, Subject
    <3> QED
      BY <3>1 DEF Granting!Next
  <2>4. CASE Op(s) = "deleteRole"
    <3>1. Live \cap To(n) = {}
      BY <1>1, <2>4 DEF RequestOK, Counted, Live, To
    <3>2. Granting!DeleteRole(s)
      BY <1>3, <1>4, <2>1, <2>2, <2>4, <3>1
      DEF Granting!DeleteRole, Scope, Live, Tasks, Task, Subject
    <3> QED
      BY <3>2 DEF Granting!Next
  <2>5. CASE Op(s) = "deletePermission"
    <3>1. Granting!DeletePermission(s)
      BY <1>3, <1>4, <2>1, <2>2, <2>5
      DEF Granting!DeletePermission, Scope, Live, Tasks, Task, Subject
    <3> QED
      BY <3>1 DEF Granting!Next
  <2> QED
    BY <1>6, <2>3, <2>4, <2>5 DEF Deletions
<1>7. CASE Op(s) = "updateRole"
  <2>1. \A e \in Edges : draft[e].by # s
    BY <1>7 DEF LocksKnown, LocksOf
  <2>2. Live' = Live
    BY <2>1, CommitRelations DEF VisibleTo, Live
  <2>3. row' = row /\ enabled' = [enabled EXCEPT ![n] = job[s].on]
    BY <1>7 DEF Commit, Deletions
  <2>4. Granting!UpdateRole(s)
    BY <1>2, <1>4, <1>7, <1>m, <2>2, <2>3
    DEF Granting!UpdateRole, Granting!Live, Live, Tasks, Task, Subject, Sharing
  <2> QED
    BY <2>4 DEF Granting!Next
<1> QED
  BY <1>1, <1>5, <1>6, <1>7 DEF Ops

\* Every behaviour of the services is one of Relations (rbac.service.go,
\* user.persistence.go): what is asked for is granted or taken away as a whole, only
\* to live and enabled rows, a replacement keeps of what was there at most what a
\* rival has granted since it began, and nothing is deleted that is still in use.
THEOREM RelationsRefined == Spec => ImplementsRelations
<1>1. Init => Granting!Init
  <2> SUFFICES ASSUME Init PROVE Granting!Init
    OBVIOUS
  <2>1. /\ row \in [Users \cup Roles \cup Perms -> {"absent", "live"}]
        /\ enabled \in [Roles -> BOOLEAN]
    BY DEF Init, Rows
  <2>2. Live \subseteq {e \in Granting!Pairs : Granting!Live(e[1]) /\ Granting!Live(e[2])}
    <3> SUFFICES ASSUME NEW e \in Edges, edge[e] = "live"
                 PROVE  row[e[1]] = "live" /\ row[e[2]] = "live"
      BY DEF Live, Granting!Pairs, Granting!Live, Edges
    <3>1. NoDanglingRelation
      BY InitIInv DEF IInv
    <3> QED
      BY <3>1 DEF NoDanglingRelation, Owner, Target
  <2>3. Tasks = [r \in Requests |-> Granting!Idle]
    BY DEF Init, Tasks, Task, Op, Subject, NoJob, Granting!Idle
  <2> QED
    BY <2>1, <2>2, <2>3 DEF Init, Granting!Init, Live, Tasks, Task, Op, Subject
<1>2. IInv /\ LocksKnown /\ MeanwhileKnown /\ [Next]_vars => [Granting!Next]_(Granting!vars)
  <2> SUFFICES ASSUME IInv, LocksKnown, MeanwhileKnown, [Next]_vars
               PROVE  [Granting!Next]_(Granting!vars)
    OBVIOUS
  <2>1. ASSUME NEW r \in Requests, Arrive(r) PROVE Granting!Next
    BY <2>1, ArriveAsks DEF Granting!Next
  <2>2. ASSUME NEW r \in Requests, Rollback(r) PROVE Granting!Next
    BY <2>2, RollbackFails DEF Granting!Next
  <2>3. ASSUME NEW r \in Requests, Commit(r) PROVE Granting!Next
    BY <2>3, CommitIsStep
  <2>4. ASSUME NEW r \in Requests, Statement(r), ~Commit(r), ~Rollback(r)
        PROVE  UNCHANGED Granting!vars
    BY <2>4, StatementIsSilent
    DEF Granting!vars, Tasks, Task, Op, Subject
  <2>5. CASE UNCHANGED vars
    BY <2>5 DEF Granting!vars
  <2>6. CASE \E r \in Requests : Abort(r)
    BY <2>2, <2>6 DEF Abort
  <2> QED
    BY <2>1, <2>2, <2>3, <2>4, <2>5, <2>6 DEF Next
<1> QED
  BY <1>1, <1>2, Invariance, LocksAreKnown, MeanwhileIsKnown, PTL
  DEF Spec, ImplementsRelations, Granting!Spec
=============================================================================

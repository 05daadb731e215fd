--------------------------- MODULE UserAdminProofs ---------------------------
(***************************************************************************)
(* For any number of users and concurrent requests: the row locks exclude, *)
(* the rows change only on purpose, and the last super administrator is    *)
(* lost only to overlapping removals.                                      *)
(***************************************************************************)
EXTENDS UserAdmin, TLAPS

\* What a request is about to write leaves the switches it may not turn as they are.
Licensed(j, r) == j.want = Deleted \/ \A f \in Switches : f \in j.license \/ j.want[f] = r[f]

\* A request under way has a row to write, a live one once it has locked it, and
\* is licensed to what it changes of it.
JobOK(r) ==
    pc[r] # "idle" =>
        /\ job[r].user \in Users
        /\ row[job[r].user].status # "absent" /\ job[r].want.status # "absent"
        /\ pc[r] \in {"count", "commit"} => row[job[r].user].status = "live"
        /\ row[job[r].user].status = "live" => Licensed(job[r], row[job[r].user])

JobsOK == \A r \in Requests : JobOK(r)

\* As long as no two removals overlapped, one about to commit leaves another
\* active super administrator behind.
Covered(r) ==
    pc[r] = "commit" /\ Removes(r) => \E v \in Users \ {job[r].user} : Active(v)

NoneLost ==
    ~overlapped => SuperAdminRemains /\ \A r \in Requests : Covered(r)

IInv == TypeOK /\ JobsOK /\ NoneLost

USE UserAdminAssumption DEF Steps, Switches, vars

\* The job of an idle request types, and so does a deleted row.
LEMMA NoJobType == NoJob \in Job /\ Deleted \in Row /\ ~Counts(Deleted)
BY DEF NoJob, Job, Row, Absent, Deleted, Counts

\* Every initial state satisfies the inductive invariant.
LEMMA InitIInv == Init => IInv
<1> SUFFICES ASSUME Init PROVE IInv
  OBVIOUS
<1>1. TypeOK
  BY NoJobType DEF Init, TypeOK
<1> QED
  BY <1>1 DEF Init, IInv, JobsOK, JobOK, NoneLost, Covered, SuperAdminRemains

\* What the transactions' ends do to locks.
LEMMA ReleaseType ==
    ASSUME TypeOK, NEW r \in Requests
    PROVE  /\ Release(r) \in [Users -> Requests \cup {None}]
           /\ \A u \in Users : Release(r)[u] = IF lock[u] = r THEN None ELSE lock[u]
BY DEF Release, TypeOK

\* A request that goes away without writing keeps the invariant.
LEMMA EndInv ==
    ASSUME IInv, NEW r \in Requests, End(r), row' = row, overlapped' = overlapped
    PROVE  IInv'
<1>1. /\ pc'[r] = "idle" /\ \A s \in Requests \ {r} : pc'[s] = pc[s] /\ job'[s] = job[s]
      /\ pc' \in [Requests -> Steps] /\ job' \in [Requests -> Job]
  BY NoJobType DEF End, IInv, TypeOK
<1>2. TypeOK'
  BY <1>1, ReleaseType DEF End, IInv, TypeOK
<1>3. JobsOK'
  BY <1>1 DEF IInv, JobsOK, JobOK
<1>4. NoneLost'
  BY <1>1 DEF IInv, NoneLost, Covered, Removes, Active, SuperAdminRemains
<1> QED
  BY <1>2, <1>3, <1>4 DEF IInv

\* Creating a user keeps the invariant (user.persistence createEnt).
LEMMA CreateInv ==
    ASSUME IInv, NEW r \in Requests, NEW u \in Users,
           NEW super \in BOOLEAN, NEW enabled \in BOOLEAN, Create(r, u, super, enabled)
    PROVE  IInv'
<1>1. /\ row' \in [Users -> Row] /\ row[u].status = "absent"
      /\ \A v \in Users \ {u} : row'[v] = row[v]
      /\ UNCHANGED <<lock, pc, job, overlapped>>
  BY DEF Create, IInv, TypeOK, Row
<1>2. TypeOK'
  BY <1>1 DEF IInv, TypeOK
<1>3. JobsOK'
  BY <1>1 DEF IInv, JobsOK, JobOK
<1>4. \A v \in Users : Active(v) => Active(v)'
  BY <1>1 DEF Active, Counts
<1>5. \A s \in Requests : pc[s] # "idle" => Removes(s)' = Removes(s)
  BY <1>1 DEF Removes, Active, IInv, JobsOK, JobOK
<1>6. NoneLost'
  BY <1>1, <1>4, <1>5 DEF IInv, NoneLost, Covered, SuperAdminRemains
<1> QED
  BY <1>2, <1>3, <1>6 DEF IInv

\* An arriving edit or deletion keeps the invariant (user.usecase).
LEMMA BeginInv ==
    ASSUME IInv, NEW r \in Requests, NEW j \in Job, Begin(r, j),
           j.user \in Users, row[j.user].status # "absent", j.want.status # "absent",
           row[j.user].status = "live" => Licensed(j, row[j.user]),
           UNCHANGED <<row, lock, overlapped>>
    PROVE  IInv'
<1>1. /\ pc[r] = "idle" /\ pc'[r] = "lock" /\ job'[r] = j
      /\ \A s \in Requests \ {r} : pc'[s] = pc[s] /\ job'[s] = job[s]
      /\ pc' \in [Requests -> Steps] /\ job' \in [Requests -> Job]
  BY DEF Begin, IInv, TypeOK
<1>2. TypeOK'
  BY <1>1 DEF IInv, TypeOK
<1>3. JobsOK'
  BY <1>1 DEF IInv, JobsOK, JobOK
<1>4. NoneLost'
  BY <1>1 DEF IInv, NoneLost, Covered, Removes, Active, SuperAdminRemains
<1> QED
  BY <1>2, <1>3, <1>4 DEF IInv

\* What Update prepares: unnamed switches are the ones it read.
LEMMA AppliedFacts ==
    ASSUME NEW read \in Row, NEW edit \in Edits, read.status = "live"
    PROVE  /\ Applied(read, edit) \in Row
           /\ DOMAIN edit \subseteq Switches
           /\ Applied(read, edit).status = "live"
           /\ \A f \in Switches : f \in DOMAIN edit \/ Applied(read, edit)[f] = read[f]
<1>1. PICK named \in SUBSET Switches : edit \in [named -> BOOLEAN]
  BY DEF Edits
<1>2. Applied(read, edit) \in Row
  BY <1>1 DEF Applied, Row
<1>3. /\ Applied(read, edit).status = "live"
      /\ Applied(read, edit).super =
            IF "super" \in DOMAIN edit THEN edit.super ELSE read.super
      /\ Applied(read, edit).enabled =
            IF "enabled" \in DOMAIN edit THEN edit.enabled ELSE read.enabled
  BY DEF Applied, Row
<1> QED
  BY <1>1, <1>2, <1>3

\* Taking the row, counting the others and committing keep the invariant.
LEMMA LockRowInv ==
    ASSUME IInv, NEW r \in Requests, LockRow(r)
    PROVE  IInv'
<1> DEFINE u == job[r].user
<1>1. /\ pc[r] = "lock" /\ u \in Users /\ lock[u] = None
      /\ UNCHANGED <<row, overlapped>>
  BY DEF LockRow, IInv, JobsOK, JobOK
<1>2. CASE row[u].status # "live"
  BY <1>1, <1>2, EndInv DEF LockRow
<1>3. CASE row[u].status = "live"
  <2>1. /\ lock' = [lock EXCEPT ![u] = r] /\ job' = job
        /\ pc'[r] = (IF Removes(r) THEN "count" ELSE "commit")
        /\ \A s \in Requests \ {r} : pc'[s] = pc[s]
        /\ pc' \in [Requests -> Steps]
    BY <1>1, <1>3 DEF LockRow, IInv, TypeOK
  <2>2. TypeOK'
    BY <1>1, <2>1 DEF IInv, TypeOK
  <2>3. JobsOK'
    BY <1>1, <1>3, <2>1 DEF IInv, JobsOK, JobOK, Licensed
  <2>4. NoneLost'
    BY <1>1, <2>1 DEF IInv, NoneLost, Covered, Removes, Active, SuperAdminRemains
  <2> QED
    BY <2>2, <2>3, <2>4 DEF IInv
<1> QED
  BY <1>2, <1>3

\* The count keeps the invariant (ensureAnotherSuperAdmin).
LEMMA CountInv ==
    ASSUME IInv, NEW r \in Requests, EnsureAnotherSuperAdmin(r)
    PROVE  IInv'
<1>1. CASE ~AnotherSuperAdmin(job[r].user)
  BY <1>1, EndInv DEF EnsureAnotherSuperAdmin, Refused
<1>2. CASE AnotherSuperAdmin(job[r].user)
  <2>1. /\ pc[r] = "count" /\ pc'[r] = "commit"
        /\ \A s \in Requests \ {r} : pc'[s] = pc[s]
        /\ pc' \in [Requests -> Steps]
        /\ UNCHANGED <<row, lock, job, overlapped>>
    BY <1>2 DEF EnsureAnotherSuperAdmin, IInv, TypeOK
  <2>2. TypeOK'
    BY <2>1 DEF IInv, TypeOK
  <2>3. JobsOK'
    BY <2>1 DEF IInv, JobsOK, JobOK
  <2>4. NoneLost'
    BY <1>2, <2>1 DEF IInv, NoneLost, Covered, Removes, Active, SuperAdminRemains,
                      AnotherSuperAdmin
  <2> QED
    BY <2>2, <2>3, <2>4 DEF IInv
<1> QED
  BY <1>1, <1>2

\* What a commit does to its row, its request and the others.
LEMMA CommitFacts ==
    ASSUME IInv, NEW r \in Requests, Commit(r)
    PROVE  /\ pc[r] = "commit" /\ job[r].user \in Users
           /\ row'[job[r].user] = job[r].want
           /\ \A v \in Users \ {job[r].user} : row'[v] = row[v]
           /\ row' \in [Users -> Row]
           /\ pc' \in [Requests -> Steps] /\ pc'[r] = "idle"
           /\ \A s \in Requests \ {r} : pc'[s] = pc[s]
           /\ job' \in [Requests -> Job]
           /\ \A s \in Requests \ {r} :
                 /\ job'[s].user = job[s].user /\ job'[s].want = job[s].want
                 /\ job[s].user = job[r].user => job'[s].license = Switches
                 /\ job[s].user # job[r].user => job'[s] = job[s]
           /\ lock' = Release(r)
           /\ \A s \in Requests \ {r} : pc[s] \in {"count", "commit"} => job[s].user # job[r].user
<1>1. /\ TypeOK /\ pc[r] = "commit" /\ job[r].user \in Users /\ job[r] \in Job
      /\ row \in [Users -> Row] /\ job \in [Requests -> Job]
  BY DEF Commit, IInv, TypeOK, JobsOK, JobOK
<1>2. job[r].want \in Row
  BY <1>1 DEF Job
<1>3. \A s \in Requests : [job[s] EXCEPT !.license = Switches] \in Job
  BY <1>1 DEF Job
<1>4. job' \in [Requests -> Job]
  BY <1>1, <1>3, NoJobType DEF Commit
<1>5. \A s \in Requests \ {r} :
         /\ job'[s].user = job[s].user /\ job'[s].want = job[s].want
         /\ job[s].user = job[r].user => job'[s].license = Switches
         /\ job[s].user # job[r].user => job'[s] = job[s]
  BY <1>1 DEF Commit, Job
<1>6. \A s \in Requests \ {r} : pc[s] \in {"count", "commit"} => job[s].user # job[r].user
  BY <1>1 DEF TypeOK
<1> QED
  BY <1>1, <1>2, <1>4, <1>5, <1>6 DEF Commit, TypeOK

\* A commit keeps the invariant (updateEnt, deleteEnt).
LEMMA CommitInv ==
    ASSUME IInv, NEW r \in Requests, Commit(r)
    PROVE  IInv'
<1>0. PICK u \in Users : u = job[r].user
  BY CommitFacts
<1>1. TypeOK'
  <2>1. overlapped' \in BOOLEAN
    BY DEF Commit, IInv, TypeOK
  <2>2. lock' \in [Users -> Requests \cup {None}]
    BY CommitFacts, ReleaseType DEF IInv
  <2>3. \A v \in Users, s \in Requests :
           lock'[v] = s <=> pc'[s] \in {"count", "commit"} /\ job'[s].user = v
    <3> SUFFICES ASSUME NEW v \in Users, NEW s \in Requests
                 PROVE  lock'[v] = s <=> pc'[s] \in {"count", "commit"} /\ job'[s].user = v
      OBVIOUS
    <3>1. lock'[v] = IF lock[v] = r THEN None ELSE lock[v]
      BY CommitFacts, ReleaseType DEF IInv
    <3>2. CASE s = r
      BY <3>1, <3>2, CommitFacts
    <3>3. CASE s # r
      BY <3>1, <3>3, CommitFacts DEF IInv, TypeOK
    <3> QED
      BY <3>2, <3>3
  <2> QED
    BY <2>1, <2>2, <2>3, CommitFacts DEF TypeOK
<1>2. JobsOK'
  <2> SUFFICES ASSUME NEW s \in Requests \ {r}, pc[s] # "idle" PROVE JobOK(s)'
    BY CommitFacts DEF JobsOK, JobOK
  <2>1. JobOK(s)
    BY DEF IInv, JobsOK
  <2>2. CASE job[s].user # u
    BY <1>0, <2>1, <2>2, CommitFacts DEF JobOK
  <2>3. CASE job[s].user = u
    <3>1. row'[u].status # "absent"
      BY <1>0, CommitFacts DEF IInv, JobsOK, JobOK
    <3>2. pc[s] \notin {"count", "commit"} /\ pc'[s] = pc[s] /\ job'[s].license = Switches
          /\ job'[s].user = u /\ job'[s].want = job[s].want
      BY <1>0, <2>3, CommitFacts
    <3>3. Licensed(job'[s], row'[u])
      BY <3>2 DEF Licensed
    <3> QED
      BY <2>1, <3>1, <3>2, <3>3 DEF JobOK, Licensed
  <2> QED
    BY <2>2, <2>3
<1>3. NoneLost'
  <2> SUFFICES ASSUME ~overlapped'
               PROVE  SuperAdminRemains' /\ \A s \in Requests : Covered(s)'
    BY DEF NoneLost
  <2>1. /\ ~overlapped /\ SuperAdminRemains /\ \A s \in Requests : Covered(s)
        /\ Removes(r) => \A s \in Requests \ {r} : ~(pc[s] = "commit" /\ Removes(s))
    BY DEF Commit, IInv, NoneLost, TypeOK
  <2>2. \A v \in Users \ {u} : Active(v)' = Active(v)
    BY <1>0, CommitFacts DEF Active
  <2>3. \A s \in Requests \ {r} : pc[s] = "commit" => Removes(s)' = Removes(s)
    BY <1>0, CommitFacts, <2>2 DEF Removes, IInv, JobsOK, JobOK
  <2>4. Active(u)' = Counts(job[r].want)
    BY <1>0, CommitFacts DEF Active
  <2>5. CASE Removes(r)
    BY <1>0, <2>1, <2>2, <2>3, <2>5, CommitFacts DEF Covered, SuperAdminRemains
  <2>6. CASE ~Removes(r)
    <3>1. \A v \in Users : Active(v) => Active(v)'
      BY <1>0, <2>2, <2>4, <2>6 DEF Removes
    <3> QED
      BY <2>1, <2>3, <3>1, CommitFacts DEF Covered, SuperAdminRemains
  <2> QED
    BY <2>5, <2>6
<1> QED
  BY <1>1, <1>2, <1>3 DEF IInv

-----------------------------------------------------------------------------
\* Every step keeps the invariant.
THEOREM StepIInv == IInv /\ [Next]_vars => IInv'
<1> SUFFICES ASSUME IInv, [Next]_vars PROVE IInv'
  OBVIOUS
<1>1. CASE UNCHANGED vars
  BY <1>1 DEF IInv, TypeOK, JobsOK, JobOK, NoneLost, Covered, Removes, Active,
              SuperAdminRemains
<1>2. ASSUME NEW r \in Requests, Arrive(r) PROVE IInv'
  <2>1. PICK u \in Users : \/ Delete(r, u)
                          \/ (\E edit \in Edits : Update(r, u, edit))
                          \/ (\E super, enabled \in BOOLEAN :
                                Create(r, u, super, enabled))
    BY <1>2 DEF Arrive
  <2>2. CASE Delete(r, u)
    <3>1. [user |-> u, want |-> Deleted, license |-> {}] \in Job
      BY NoJobType DEF Job
    <3> QED
      BY <2>2, <3>1, BeginInv DEF Delete, Deleted, Absent, Licensed
  <2>3. ASSUME NEW edit \in Edits, Update(r, u, edit) PROVE IInv'
    <3>1. row[u] \in Row /\ row[u].status = "live"
      BY <2>3 DEF Update, IInv, TypeOK
    <3>2. /\ Applied(row[u], edit) \in Row
          /\ DOMAIN edit \subseteq Switches
          /\ Applied(row[u], edit).status = "live"
          /\ \A f \in Switches :
                f \in DOMAIN edit \/ Applied(row[u], edit)[f] = row[u][f]
      BY <3>1, AppliedFacts
    <3>3. [user |-> u, want |-> Applied(row[u], edit), license |-> DOMAIN edit] \in Job
      BY <3>2 DEF Job
    <3> QED
      BY <2>3, <3>1, <3>2, <3>3, BeginInv DEF Update, Licensed
  <2> QED
    BY <2>1, <2>2, <2>3, CreateInv
<1>3. ASSUME NEW r \in Requests, Progress(r) \/ Abort(r) PROVE IInv'
  BY <1>3, LockRowInv, CountInv, CommitInv, EndInv DEF Progress, Abort
<1> QED
  BY <1>1, <1>2, <1>3 DEF Next

\* The inductive invariant holds throughout every behaviour.
THEOREM Invariance == Spec => []IInv
BY InitIInv, StepIInv, PTL DEF Spec

\* The row locks exclude: between its SELECT FOR UPDATE and its end a
\* transaction is alone on its row (TypeOK).
THEOREM TypeCorrect == Spec => []TypeOK
BY Invariance, PTL DEF IInv

\* Only overlapping removals can take the last active super administrator
\* (LossNeedsOverlap).
THEOREM LossExplained == Spec => []LossNeedsOverlap
<1>1. IInv => LossNeedsOverlap
  BY DEF IInv, TypeOK, NoneLost, LossNeedsOverlap
<1> QED
  BY <1>1, Invariance, PTL

\* A switch turns by a request that named it or read an older row, or with the
\* deletion; a deleted row stays so (RowsChangeOnPurpose).
THEOREM OnPurpose == Spec => RowsChangeOnPurpose
<1> DEFINE Purposeful ==
      \A u \in Users :
          /\ row[u].status = "deleted" => row'[u] = row[u]
          /\ \A f \in Switches : row[u].status = "live" /\ row'[u][f] # row[u][f] =>
                \/ row'[u] = Deleted
                \/ \E r \in Requests : /\ pc[r] = "commit" /\ job[r].user = u
                                       /\ f \in job[r].license
<1>1. IInv /\ [Next]_vars => [Purposeful]_vars
  <2> SUFFICES ASSUME IInv, Next PROVE Purposeful
    OBVIOUS
  <2>1. ASSUME NEW r \in Requests, Commit(r) PROVE Purposeful
    <3>1. JobOK(r) /\ row[job[r].user].status = "live" /\ Licensed(job[r], row[job[r].user])
      BY <2>1, CommitFacts DEF IInv, JobsOK, JobOK
    <3>2. \A u \in Users : row'[u] # row[u] => u = job[r].user /\ row'[u] = job[r].want
      BY <2>1, CommitFacts
    <3> QED BY <2>1, <3>1, <3>2, CommitFacts DEF Licensed
  <2>2. ASSUME NEW r \in Requests, NEW v \in Users, NEW super \in BOOLEAN,
               NEW enabled \in BOOLEAN, Create(r, v, super, enabled)
        PROVE  Purposeful
    <3>1. row[v].status = "absent" /\ \A u \in Users \ {v} : row'[u] = row[u]
      BY <2>2 DEF Create, IInv, TypeOK
    <3> QED BY <3>1
  <2>3. CASE row' = row
    BY <2>3
  <2> HIDE DEF Purposeful
  <2> QED
    BY <2>1, <2>2, <2>3 DEF Next, Arrive, Progress, Update, Delete, LockRow,
                            EnsureAnotherSuperAdmin, Abort
<1> QED
  BY <1>1, Invariance, PTL DEF Spec, RowsChangeOnPurpose
=============================================================================

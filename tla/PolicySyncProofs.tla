--------------------------- MODULE PolicySyncProofs --------------------------
(***************************************************************************)
(* For any number of instances, requests and changes, with any faults and  *)
(* under any names: when nobody is at work, a policy that lags behind the  *)
(* tables has one of the named causes and only such a policy has one, and  *)
(* an answered change is enforced where it was made.                       *)
(***************************************************************************)
EXTENDS PolicySync, TLAPS

\* A load never puts less in place than the change it was made for.
LoadsFollowChanges == \A r \in Requests : pc[r] = "apply" => job[r].read >= job[r].change

\* Somebody else's event waits for the consumer, which will read the tables.
Pending(i) == \E k \in DOMAIN queue[i] : Foreign(i, queue[i][k])

\* The consumer of i is about to bring i up to date.
Heard(i) == Running(i) /\ (Pending(i) \/ reading[i] = db)

\* Request r is still to bring i up to date, or to tell it.
Coming(r, i) ==
    /\ pc[r] # "idle"
    /\ \/ At(r) # i
       \/ pc[r] = "load"
       \/ pc[r] = "apply" /\ job[r].read = db

\* An instance is up to date, has missed something, or will hear of it.
LagIsAttended ==
    \A i \in Instances :
        phase[i] # "down" =>
            \/ policy[i] = db \/ cause[i] # {}
            \/ Heard(i) \/ (\E r \in Requests : Coming(r, i))

\* What has a cause lags behind.
CausesLag == \A i \in Instances : cause[i] # {} => policy[i] # db

IInv == TypeOK /\ LoadsFollowChanges /\ ChangeIsEnforced /\ LagIsAttended /\ CausesLag

USE PolicySyncAssumption DEF vars, Running

\* The job of an idle request types.
LEMMA NoJobType == NoJob \in Job
BY DEF NoJob, Job, Versions

\* Every initial state satisfies the inductive invariant.
LEMMA InitIInv == Init => IInv
<1> SUFFICES ASSUME Init PROVE IInv
  OBVIOUS
<1>1. TypeOK
  BY NoJobType DEF Init, TypeOK, Versions, Steps
<1>2. LoadsFollowChanges /\ ChangeIsEnforced /\ LagIsAttended /\ CausesLag
  BY DEF Init, LoadsFollowChanges, ChangeIsEnforced, LagIsAttended, CausesLag
<1> QED
  BY <1>1, <1>2 DEF IInv

\* A load that takes effect leaves the instance up to date if it read the present
\* tables, and never makes it lag unnoticed behind what it had.
LEMMA InstallFacts ==
    ASSUME TypeOK, NEW i \in Instances, NEW snapshot \in 0..db, Install(i, snapshot)
    PROVE  /\ policy' \in [Instances -> 0..db] /\ cause' \in [Instances -> SUBSET Causes]
           /\ snapshot = db => policy'[i] = db
           /\ \A j \in Instances \ {i} : policy'[j] = policy[j] /\ cause'[j] = cause[j]
           /\ \A j \in Instances, c \in 0..db :
                 policy[j] >= c \/ cause[j] # {} => policy'[j] >= c \/ cause'[j] # {}
<1>1. policy' \in [Instances -> 0..db] /\ policy'[i] = snapshot
      /\ \A j \in Instances \ {i} : policy'[j] = policy[j]
  BY DEF Install, TypeOK
<1>2. cause' \in [Instances -> SUBSET Causes]
      /\ cause'[i] = (IF snapshot = db THEN {}
                      ELSE IF snapshot < policy[i] THEN cause[i] \cup {"overtaken"}
                      ELSE cause[i])
      /\ \A j \in Instances \ {i} : cause'[j] = cause[j]
  BY DEF Install, TypeOK, Causes
<1>3. ASSUME NEW c \in 0..db, policy[i] >= c \/ cause[i] # {}
      PROVE  policy'[i] >= c \/ cause'[i] # {}
  <2>1. CASE snapshot = db
    BY <1>1, <2>1 DEF TypeOK, Versions
  <2>2. CASE snapshot # db /\ snapshot < policy[i]
    BY <1>2, <2>2
  <2>3. CASE snapshot # db /\ ~(snapshot < policy[i])
    <3>1. policy[i] \in 0..db /\ snapshot \in Nat /\ db \in Nat
      BY DEF TypeOK, Versions
    <3>2. policy'[i] >= policy[i] /\ cause'[i] = cause[i]
      BY <1>1, <1>2, <2>3, <3>1
    <3> QED
      BY <1>1, <1>3, <3>1, <3>2
  <2> QED
    BY <2>1, <2>2, <2>3
<1> QED
  BY <1>1, <1>2, <1>3

\* An instance that is up to date or has a cause stays so when a load takes effect.
LEMMA InstallSettled ==
    ASSUME TypeOK, NEW i \in Instances, NEW snapshot \in 0..db, Install(i, snapshot),
           NEW j \in Instances, policy[j] = db \/ cause[j] # {}
    PROVE  policy'[j] = db \/ cause'[j] # {}
<1>1. db \in 0..db /\ policy[j] \in 0..db /\ policy'[j] \in 0..db
  BY InstallFacts DEF TypeOK, Versions
<1>2. policy'[j] >= db \/ cause'[j] # {}
  BY <1>1, InstallFacts
<1> QED
  BY <1>1, <1>2

\* A load that takes effect leaves causes only where the policy lags.
LEMMA InstallLags ==
    ASSUME TypeOK, CausesLag, NEW i \in Instances, NEW snapshot \in 0..db,
           Install(i, snapshot), db' = db
    PROVE  CausesLag'
<1>1. /\ policy'[i] = snapshot
      /\ cause'[i] = (IF snapshot = db THEN {}
                      ELSE IF snapshot < policy[i] THEN cause[i] \cup {"overtaken"}
                      ELSE cause[i])
      /\ \A j \in Instances \ {i} : policy'[j] = policy[j] /\ cause'[j] = cause[j]
  BY DEF Install, TypeOK
<1> QED
  BY <1>1 DEF CausesLag

\* A change that is enforced stays so when a load takes effect.
LEMMA InstallEnforces ==
    ASSUME TypeOK, ChangeIsEnforced, NEW i \in Instances, NEW snapshot \in 0..db,
           Install(i, snapshot), NEW r \in Requests, pc[r] = "publish"
    PROVE  policy'[At(r)] >= job[r].change \/ cause'[At(r)] # {}
<1>1. At(r) \in Instances /\ job[r].change <= db
  BY DEF TypeOK
<1>2. job[r].change \in 0..db
  BY <1>1 DEF TypeOK, Job, Versions
<1>3. policy[At(r)] >= job[r].change \/ cause[At(r)] # {}
  BY DEF ChangeIsEnforced
<1> QED
  BY <1>1, <1>2, <1>3, InstallFacts

\* An instance that boots is up to date (NewEnforcer).
LEMMA BootInv == ASSUME IInv, NEW i \in Instances, Boot(i) PROVE IInv'
<1>1. db \in 0..db /\ Install(i, db) /\ UNCHANGED <<name, db, queue, reading, pc, job>>
  BY DEF Boot, IInv, TypeOK, Versions
<1>2. /\ phase' \in [Instances -> {"down", "booted", "serving", "draining"}]
      /\ phase[i] = "down" /\ phase'[i] = "booted"
      /\ \A j \in Instances \ {i} : phase'[j] = phase[j]
  BY DEF Boot, IInv, TypeOK
<1>3. TypeOK'
  BY <1>1, <1>2, InstallFacts DEF IInv, TypeOK, At
<1>4. LoadsFollowChanges'
  BY <1>1 DEF IInv, LoadsFollowChanges
<1>5. ChangeIsEnforced'
  BY <1>1, InstallEnforces DEF IInv, ChangeIsEnforced, At
<1>6. LagIsAttended'
  BY <1>1, <1>2, InstallFacts, InstallSettled
     DEF IInv, LagIsAttended, Heard, Pending, Foreign, Coming, At
<1>7. CausesLag'
  BY <1>1, InstallLags DEF IInv
<1> QED
  BY <1>3, <1>4, <1>5, <1>6, <1>7 DEF IInv

\* An instance that subscribes is attended by the requests that attended it before.
LEMMA StartInv == ASSUME IInv, NEW i \in Instances, Start(i) PROVE IInv'
<1>1. /\ phase' \in [Instances -> {"down", "booted", "serving", "draining"}]
      /\ phase[i] = "booted" /\ phase'[i] = "serving"
      /\ \A j \in Instances \ {i} : phase'[j] = phase[j]
      /\ UNCHANGED <<name, db, policy, queue, reading, pc, job, cause>>
  BY DEF Start, IInv, TypeOK
<1>2. TypeOK'
  BY <1>1 DEF IInv, TypeOK, At
<1>3. LoadsFollowChanges' /\ ChangeIsEnforced'
  BY <1>1 DEF IInv, LoadsFollowChanges, ChangeIsEnforced, At
<1>4. LagIsAttended'
  BY <1>1 DEF IInv, LagIsAttended, Heard, Pending, Foreign, Coming, At
<1>5. CausesLag'
  BY <1>1 DEF IInv, CausesLag
<1> QED
  BY <1>2, <1>3, <1>4, <1>5 DEF IInv

\* Blaming adds causes to what lags and takes none away.
LEMMA BlameFacts ==
    ASSUME TypeOK, NEW blame \in [Instances -> SUBSET Causes], cause' = Blamed(blame)
    PROVE  /\ cause' \in [Instances -> SUBSET Causes]
           /\ \A i \in Instances :
                 cause'[i] = IF policy[i] = db THEN cause[i] ELSE cause[i] \cup blame[i]
BY DEF TypeOK, Blamed

\* An instance that is told to stop is attended as before.
LEMMA DrainInv == ASSUME IInv, NEW i \in Instances, Drain(i) PROVE IInv'
<1>1. /\ phase' \in [Instances -> {"down", "booted", "serving", "draining"}]
      /\ phase[i] = "serving" /\ phase'[i] = "draining"
      /\ \A j \in Instances \ {i} : phase'[j] = phase[j]
      /\ UNCHANGED <<name, db, policy, queue, reading, pc, job, cause>>
  BY DEF Drain, IInv, TypeOK
<1>2. TypeOK'
  BY <1>1 DEF IInv, TypeOK, At
<1>3. LoadsFollowChanges' /\ ChangeIsEnforced'
  BY <1>1 DEF IInv, LoadsFollowChanges, ChangeIsEnforced, At
<1>4. LagIsAttended'
  BY <1>1 DEF IInv, LagIsAttended, Heard, Pending, Foreign, Coming, At
<1>5. CausesLag'
  BY <1>1 DEF IInv, CausesLag
<1> QED
  BY <1>2, <1>3, <1>4, <1>5 DEF IInv

\* What TypeOK says of the state of an instance, and of a request.
IdleOK(i) == ~Running(i) => queue[i] = << >> /\ reading[i] = None
JobOK(r)  == IF pc[r] = "idle" THEN job[r] = NoJob
             ELSE /\ At(r) \in Instances /\ Running(At(r))
                  /\ job[r].change <= db /\ job[r].read <= db

\* TypeOK by its parts.
LEMMA TypeParts ==
    TypeOK <=> /\ name \in [Instances -> Names]
               /\ db \in Versions
               /\ phase \in [Instances -> {"down", "booted", "serving", "draining"}]
               /\ policy \in [Instances -> 0..db]
               /\ queue \in [Instances -> Seq(Names)]
               /\ reading \in [Instances -> 0..db \cup {None}]
               /\ pc \in [Requests -> Steps]
               /\ job \in [Requests -> Job]
               /\ cause \in [Instances -> SUBSET Causes]
               /\ \A i \in Instances : IdleOK(i)
               /\ \A r \in Requests : JobOK(r)
BY DEF TypeOK, IdleOK, JobOK

\* An instance that stops takes its requests along; the others are told why.
LEMMA StopInv == ASSUME IInv, NEW i \in Instances, Stop(i) PROVE IInv'
<1> DEFINE blame == Blame(Instances \ {i}, "unpublished")
<1>1. /\ phase' \in [Instances -> {"down", "booted", "serving", "draining"}]
      /\ phase'[i] = "down"
      /\ queue' \in [Instances -> Seq(Names)] /\ queue'[i] = << >>
      /\ reading' \in [Instances -> 0..db \cup {None}] /\ reading'[i] = None
      /\ \A j \in Instances \ {i} : phase'[j] = phase[j] /\ queue'[j] = queue[j]
                                    /\ reading'[j] = reading[j]
      /\ UNCHANGED <<name, db, policy>>
  BY DEF Stop, IInv, TypeOK
<1>2. /\ pc' \in [Requests -> Steps] /\ job' \in [Requests -> Job]
      /\ \A r \in Requests : IF At(r) = i THEN pc'[r] = "idle" /\ job'[r] = NoJob
                             ELSE pc'[r] = pc[r] /\ job'[r] = job[r]
  BY NoJobType DEF Stop, Stopped, Handled, IInv, TypeOK, Steps
<1>3. /\ cause' \in [Instances -> SUBSET Causes]
      /\ \A j \in Instances : cause[j] \subseteq cause'[j]
      /\ Handled(i) # {} => \A j \in Instances \ {i} : policy[j] = db \/ cause'[j] # {}
      /\ \A j \in Instances : cause'[j] # cause[j] => policy[j] # db
  <2>1. blame \in [Instances -> SUBSET Causes]
        /\ \A j \in Instances \ {i} : blame[j] = {"unpublished"}
    BY DEF Blame, Causes
  <2>2. CASE Handled(i) = {}
    BY <2>2 DEF Stop, IInv, TypeOK
  <2>3. CASE Handled(i) # {}
    <3>1. cause' = Blamed(blame)
      BY <2>3 DEF Stop
    <3> HIDE DEF blame
    <3>2. /\ cause' \in [Instances -> SUBSET Causes]
          /\ \A j \in Instances :
                cause'[j] = IF policy[j] = db THEN cause[j] ELSE cause[j] \cup blame[j]
      BY <2>1, <3>1, BlameFacts DEF IInv
    <3> QED
      BY <2>1, <3>2
  <2> QED
    BY <2>2, <2>3
<1>4. TypeOK'
  <2>1. \A j \in Instances : IdleOK(j)'
    BY <1>1, TypeParts DEF IInv, IdleOK
  <2>2. \A r \in Requests : JobOK(r)'
    BY <1>1, <1>2, TypeParts DEF IInv, JobOK, At
  <2>3. db' \in Versions /\ name' \in [Instances -> Names] /\ policy' \in [Instances -> 0..db']
        /\ reading' \in [Instances -> 0..db' \cup {None}]
    BY <1>1 DEF IInv, TypeOK
  <2> QED
    BY <1>1, <1>2, <1>3, <2>1, <2>2, <2>3 DEF TypeOK, IdleOK, JobOK
<1>5. LoadsFollowChanges' /\ ChangeIsEnforced'
  <2>1. \A r \in Requests :
          pc'[r] # "idle" => pc'[r] = pc[r] /\ job'[r] = job[r] /\ At(r) \in Instances
    BY <1>2 DEF IInv, TypeOK
  <2>2. \A r \in Requests : pc'[r] = "apply" => job'[r].read >= job'[r].change
    BY <2>1 DEF IInv, LoadsFollowChanges
  <2>3. ASSUME NEW r \in Requests, pc'[r] = "publish"
        PROVE  policy'[job'[r].at] >= job'[r].change \/ cause'[job'[r].at] # {}
    <3>1. pc[r] = "publish" /\ job'[r] = job[r] /\ job[r].at \in Instances
      BY <2>1, <2>3 DEF At
    <3>2. policy[job[r].at] >= job[r].change \/ cause[job[r].at] # {}
      BY <3>1 DEF IInv, ChangeIsEnforced, At
    <3>3. policy' = policy /\ cause[job[r].at] \subseteq cause'[job[r].at]
      BY <1>1, <1>3, <3>1
    <3> QED BY <3>1, <3>2, <3>3
  <2> QED
    BY <2>2, <2>3 DEF LoadsFollowChanges, ChangeIsEnforced, At
<1>6. LagIsAttended'
  <2> SUFFICES ASSUME NEW j \in Instances, phase'[j] # "down"
               PROVE  \/ policy'[j] = db' \/ cause'[j] # {}
                      \/ Heard(j)' \/ (\E r \in Requests : Coming(r, j)')
    BY DEF LagIsAttended
  <2>1. j # i
    BY <1>1
  <2>2. CASE Handled(i) # {}
    BY <1>1, <1>3, <2>1, <2>2
  <2>3. CASE Handled(i) = {}
    <3>1. \A r \in Requests : Coming(r, j) => Coming(r, j)'
      BY <1>1, <1>2, <2>3 DEF Coming, At, Handled
    <3>2. Heard(j) => Heard(j)'
      BY <1>1, <2>1 DEF Heard, Pending, Foreign
    <3> QED
      BY <1>1, <1>3, <2>1, <3>1, <3>2 DEF IInv, LagIsAttended
  <2> QED
    BY <2>2, <2>3
<1>7. CausesLag'
  BY <1>1, <1>3 DEF IInv, CausesLag
<1> QED
  BY <1>4, <1>5, <1>6, <1>7 DEF IInv

\* A change is still to come to every instance, the one it was made on included.
LEMMA ChangeInv ==
    ASSUME IInv, NEW r \in Requests, NEW i \in Instances, Change(r, i) PROVE IInv'
<1>1. /\ db \in Nat /\ db' = db + 1 /\ db' \in Versions
      /\ UNCHANGED <<name, phase, policy, queue, reading, cause>>
  BY DEF Change, IInv, TypeOK, Versions
<1>2. /\ pc' \in [Requests -> Steps] /\ job' \in [Requests -> Job]
      /\ pc'[r] = "load" /\ job'[r] = [at |-> i, change |-> db', read |-> 0]
      /\ Running(i)
      /\ \A s \in Requests \ {r} : pc'[s] = pc[s] /\ job'[s] = job[s]
  BY <1>1 DEF Change, FirstStep, IInv, TypeOK, Steps, Job, Versions
<1>3. 0..db \subseteq 0..db'
  BY <1>1
<1>4. TypeOK'
  <2>1. /\ policy' \in [Instances -> 0..db'] /\ reading' \in [Instances -> 0..db' \cup {None}]
        /\ name' = name /\ phase' = phase /\ queue' = queue /\ cause' = cause
    BY <1>1, <1>3 DEF IInv, TypeOK
  <2>2. \A s \in Requests : job'[s].change \in Nat /\ job'[s].read \in Nat
    BY <1>2 DEF Job, Versions
  <2>3. \A s \in Requests :
          IF pc'[s] = "idle" THEN job'[s] = NoJob
          ELSE /\ job'[s].at \in Instances /\ phase'[job'[s].at] \in {"serving", "draining"}
               /\ job'[s].change <= db' /\ job'[s].read <= db'
    <3> TAKE s \in Requests
    <3>1. CASE s = r
      BY <1>1, <1>2, <3>1
    <3>2. CASE s # r
      BY <1>1, <1>2, <2>2, <3>2 DEF IInv, TypeOK, At
    <3> QED
      BY <3>1, <3>2
  <2> QED
    BY <1>1, <1>2, <2>1, <2>3 DEF IInv, TypeOK, At
<1>5. LoadsFollowChanges' /\ ChangeIsEnforced'
  <2>1. \A s \in Requests :
          pc'[s] \in {"apply", "publish"} => pc'[s] = pc[s] /\ job'[s] = job[s]
    BY <1>2
  <2>2. LoadsFollowChanges'
    BY <2>1 DEF IInv, LoadsFollowChanges
  <2>3. policy' = policy /\ cause' = cause
    BY <1>1
  <2>4. ChangeIsEnforced'
    BY <2>1, <2>3 DEF IInv, ChangeIsEnforced, At
  <2> QED BY <2>2, <2>4
<1>6. LagIsAttended'
  BY <1>2 DEF LagIsAttended, Coming
<1>7. CausesLag'
  BY <1>1 DEF IInv, CausesLag, TypeOK
<1> QED
  BY <1>4, <1>5, <1>6, <1>7 DEF IInv

\* What a load reads contains the change it is made for, and is what the tables say.
LEMMA LoadInv == ASSUME IInv, NEW r \in Requests, Load(r) PROVE IInv'
<1>1. /\ db \in Versions /\ pc[r] = "load"
      /\ UNCHANGED <<name, db, phase, policy, queue, reading, cause>>
  BY DEF Load, IInv, TypeOK
<1>2. /\ pc' \in [Requests -> Steps] /\ job' \in [Requests -> Job]
      /\ pc'[r] = "apply" /\ job'[r].read = db
      /\ job'[r].at = job[r].at /\ job'[r].change = job[r].change
      /\ \A s \in Requests \ {r} : pc'[s] = pc[s] /\ job'[s] = job[s]
  <2>1. pc \in [Requests -> Steps] /\ job \in [Requests -> Job]
    BY DEF IInv, TypeOK
  <2>2. pc' = [pc EXCEPT ![r] = "apply"] /\ job' = [job EXCEPT ![r].read = db]
    BY DEF Load
  <2>3. pc' \in [Requests -> Steps] /\ pc'[r] = "apply"
        /\ \A s \in Requests \ {r} : pc'[s] = pc[s] /\ job'[s] = job[s]
    BY <2>1, <2>2 DEF Steps
  <2>4. [job[r] EXCEPT !.read = db] \in Job /\ job'[r] = [job[r] EXCEPT !.read = db]
    BY <1>1, <2>1, <2>2 DEF Job
  <2>5. job' \in [Requests -> Job]
    BY <2>1, <2>2, <2>4
  <2>6. /\ job'[r].read = db
        /\ job'[r].at = job[r].at /\ job'[r].change = job[r].change
    BY <2>1, <2>4 DEF Job
  <2> QED BY <2>3, <2>5, <2>6
<1>3. TypeOK'
  <2>1. \A s \in Requests : JobOK(s)'
    <3> TAKE s \in Requests
    <3>1. JobOK(s) /\ db <= db
      BY <1>1, TypeParts DEF IInv, Versions
    <3>2. CASE s = r
      BY <1>1, <1>2, <3>1, <3>2 DEF JobOK, At
    <3>3. CASE s # r
      BY <1>1, <1>2, <3>1, <3>3 DEF JobOK, At
    <3> QED
      BY <3>2, <3>3
  <2>2. \A i \in Instances : IdleOK(i)'
    BY <1>1, TypeParts DEF IInv, IdleOK
  <2>3. /\ db' \in Versions /\ name' \in [Instances -> Names] /\ policy' \in [Instances -> 0..db']
        /\ phase' \in [Instances -> {"down", "booted", "serving", "draining"}]
        /\ queue' \in [Instances -> Seq(Names)]
        /\ reading' \in [Instances -> 0..db' \cup {None}]
        /\ cause' \in [Instances -> SUBSET Causes]
    BY <1>1 DEF IInv, TypeOK
  <2> QED
    BY <1>2, <2>1, <2>2, <2>3 DEF TypeOK, IdleOK, JobOK
<1>4. LoadsFollowChanges'
  BY <1>1, <1>2 DEF IInv, TypeOK, LoadsFollowChanges, Versions, Job
<1>5. ChangeIsEnforced'
  BY <1>1, <1>2 DEF IInv, ChangeIsEnforced, At
<1>6. LagIsAttended'
  BY <1>1, <1>2 DEF LagIsAttended, Coming, At
<1>7. CausesLag'
  BY <1>1 DEF IInv, CausesLag
<1> QED
  BY <1>3, <1>4, <1>5, <1>6, <1>7 DEF IInv

\* A load that takes effect contains the change it was made for.
LEMMA ApplyInv == ASSUME IInv, NEW r \in Requests, Apply(r) PROVE IInv'
<1>1. /\ pc[r] = "apply" /\ At(r) \in Instances /\ job[r].read \in 0..db
      /\ Install(At(r), job[r].read)
      /\ job[r].read >= job[r].change /\ job[r].change \in 0..db
      /\ UNCHANGED <<name, db, phase, queue, reading, job>>
  BY DEF Apply, AfterLoad, IInv, TypeOK, LoadsFollowChanges, Job, Versions
<1>2. /\ pc' \in [Requests -> Steps] /\ pc'[r] = "publish"
      /\ \A s \in Requests \ {r} : pc'[s] = pc[s]
  BY DEF Apply, AfterLoad, IInv, TypeOK, Steps
<1>3. policy'[At(r)] >= job[r].change \/ cause'[At(r)] # {}
  <2>1. policy'[At(r)] = job[r].read
    BY <1>1 DEF Install, IInv, TypeOK
  <2> QED
    BY <1>1, <2>1 DEF IInv, TypeOK, Versions
<1>4. TypeOK'
  BY <1>1, <1>2, InstallFacts DEF IInv, TypeOK, At
<1>5. LoadsFollowChanges'
  BY <1>1, <1>2 DEF IInv, LoadsFollowChanges
<1>6. ChangeIsEnforced'
  BY <1>1, <1>2, <1>3, InstallEnforces DEF IInv, ChangeIsEnforced, At
<1>7. LagIsAttended'
  <2> SUFFICES ASSUME NEW j \in Instances, phase'[j] # "down"
               PROVE  \/ policy'[j] = db' \/ cause'[j] # {}
                      \/ Heard(j)' \/ (\E s \in Requests : Coming(s, j)')
    BY DEF LagIsAttended
  <2>1. CASE policy[j] = db \/ cause[j] # {}
    BY <1>1, <2>1, InstallSettled DEF IInv
  <2>2. CASE Heard(j)
    BY <1>1, <2>2 DEF Heard, Pending, Foreign
  <2>3. CASE Coming(r, j)
    <3>1. CASE At(r) = j
      BY <1>1, <2>3, <3>1, InstallFacts DEF Coming, IInv
    <3>2. CASE At(r) # j
      BY <1>1, <1>2, <3>2 DEF Coming, At
    <3> QED
      BY <3>1, <3>2
  <2>4. CASE \E s \in Requests \ {r} : Coming(s, j)
    BY <1>1, <1>2, <2>4 DEF Coming, At
  <2> QED
    BY <1>1, <2>1, <2>2, <2>3, <2>4 DEF IInv, LagIsAttended
<1>8. CausesLag'
  BY <1>1, InstallLags DEF IInv
<1> QED
  BY <1>4, <1>5, <1>6, <1>7, <1>8 DEF IInv

\* A request that is done attends nobody; the others are as they were.
LEMMA FinishFacts ==
    ASSUME TypeOK, NEW r \in Requests, Finish(r)
    PROVE  /\ pc' \in [Requests -> Steps] /\ job' \in [Requests -> Job]
           /\ pc'[r] = "idle" /\ job'[r] = NoJob
           /\ \A s \in Requests \ {r} : pc'[s] = pc[s] /\ job'[s] = job[s]
BY NoJobType DEF Finish, TypeOK, Steps

\* What holds of the requests holds once one of them is done.
LEMMA FinishInv ==
    ASSUME IInv, NEW r \in Requests, Finish(r), UNCHANGED <<name, db, phase, policy>>,
           \A i \in Instances : cause[i] \subseteq cause'[i]
    PROVE  (\A s \in Requests : JobOK(s)') /\ LoadsFollowChanges' /\ ChangeIsEnforced'
<1>1. /\ pc'[r] = "idle" /\ job'[r] = NoJob
      /\ \A s \in Requests \ {r} : pc'[s] = pc[s] /\ job'[s] = job[s]
  BY FinishFacts DEF IInv
<1>2. \A s \in Requests : JobOK(s)'
  <2> TAKE s \in Requests
  <2>1. JobOK(s)
    BY TypeParts DEF IInv
  <2>2. CASE s = r
    BY <1>1, <2>2 DEF JobOK
  <2>3. CASE s # r
    BY <1>1, <2>1, <2>3 DEF JobOK, At
  <2> QED
    BY <2>2, <2>3
<1>3. \A s \in Requests : pc[s] # "idle" => At(s) \in Instances
  BY DEF IInv, TypeOK
<1>4. LoadsFollowChanges'
  BY <1>1 DEF IInv, LoadsFollowChanges
<1>5. ChangeIsEnforced'
  BY <1>1, <1>3 DEF IInv, ChangeIsEnforced, At
<1> QED
  BY <1>2, <1>4, <1>5

\* A message added to a queue leaves the messages that wait there.
LEMMA AppendPending ==
    ASSUME NEW i \in Instances, NEW q \in Seq(Names), NEW source \in Names
    PROVE  /\ Append(q, source) \in Seq(Names)
           /\ (\E k \in DOMAIN q : Foreign(i, q[k]))
                 => \E k \in DOMAIN Append(q, source) : Foreign(i, Append(q, source)[k])
           /\ Foreign(i, source)
                 => \E k \in DOMAIN Append(q, source) : Foreign(i, Append(q, source)[k])
<1>1. /\ Append(q, source) \in Seq(Names) /\ Len(q) \in Nat
      /\ DOMAIN Append(q, source) = 1..(Len(q) + 1) /\ DOMAIN q = 1..Len(q)
      /\ \A k \in 1..Len(q) : Append(q, source)[k] = q[k]
      /\ Append(q, source)[Len(q) + 1] = source
  OBVIOUS
<1>2. Len(q) + 1 \in 1..(Len(q) + 1) /\ 1..Len(q) \subseteq 1..(Len(q) + 1)
  BY <1>1
<1> QED
  BY <1>1, <1>2

\* Whoever a published event misses has a cause; whoever it reaches will reload.
LEMMA PublishInv == ASSUME IInv, NEW r \in Requests, Publish(r) PROVE IInv'
<1>1. PICK deaf \in SUBSET {i \in Instances : Running(i)} :
        /\ queue' = [i \in Instances |->
                       IF Running(i) /\ i \notin deaf
                       THEN Append(queue[i], name[At(r)]) ELSE queue[i]]
        /\ cause' = Blamed([i \in Instances |->
                       IF phase[i] = "booted" THEN {"gap"}
                       ELSE IF i = At(r) THEN {}
                       ELSE IF i \in deaf THEN {"missed"}
                       ELSE IF Namesakes(i, At(r)) THEN {"namesake"} ELSE {}])
  BY DEF Publish
<1>2. pc[r] = "publish" /\ At(r) \in Instances /\ name[At(r)] \in Names /\ Running(At(r))
      /\ UNCHANGED <<name, db, phase, policy, reading>> /\ Finish(r)
  BY DEF Publish, IInv, TypeOK
<1> DEFINE Passed(i) == \/ phase[i] = "booted"
                        \/ i # At(r) /\ (i \in deaf \/ Namesakes(i, At(r)))
<1>3. /\ cause' \in [Instances -> SUBSET Causes]
      /\ \A i \in Instances : cause[i] \subseteq cause'[i]
      /\ \A i \in Instances : Passed(i) => policy[i] = db \/ cause'[i] # {}
      /\ \A i \in Instances : cause'[i] # cause[i] => policy[i] # db
  <2> DEFINE blame == [i \in Instances |->
                        IF phase[i] = "booted" THEN {"gap"}
                        ELSE IF i = At(r) THEN {}
                        ELSE IF i \in deaf THEN {"missed"}
                        ELSE IF Namesakes(i, At(r)) THEN {"namesake"} ELSE {}]
  <2>1. /\ blame \in [Instances -> SUBSET Causes]
        /\ \A i \in Instances : Passed(i) => blame[i] # {}
    BY DEF Causes
  <2>2. cause' = Blamed(blame)
    BY <1>1
  <2> HIDE DEF blame, Passed
  <2> QED
    BY <2>1, <2>2, BlameFacts DEF IInv
<1>4. /\ queue' \in [Instances -> Seq(Names)]
      /\ \A i \in Instances : ~Running(i) => queue'[i] = queue[i]
  <2>1. \A i \in Instances : queue[i] \in Seq(Names)
    BY DEF IInv, TypeOK
  <2>2. \A i \in Instances : Append(queue[i], name[At(r)]) \in Seq(Names)
    BY <1>2, <2>1, AppendPending
  <2> QED
    BY <1>1, <2>1, <2>2
<1>5. \A i \in Instances :
         /\ Pending(i) => Pending(i)'
         /\ i # At(r) /\ Running(i) /\ ~Passed(i) => Pending(i)'
  <2> TAKE i \in Instances
  <2>1. queue[i] \in Seq(Names)
    BY DEF IInv, TypeOK
  <2>2. CASE Running(i) /\ i \notin deaf
    <3> DEFINE q == Append(queue[i], name[At(r)])
    <3>1. queue'[i] = q
      BY <1>1, <2>2
    <3>2. /\ Pending(i) => \E k \in DOMAIN q : Foreign(i, q[k])
          /\ Foreign(i, name[At(r)]) => \E k \in DOMAIN q : Foreign(i, q[k])
      BY <1>2, <2>1, AppendPending DEF Pending
    <3>3. (\E k \in DOMAIN q : Foreign(i, q[k])) => Pending(i)'
      BY <1>2, <3>1 DEF Pending, Foreign
    <3>4. i # At(r) /\ ~Passed(i) => Foreign(i, name[At(r)])
      BY DEF Foreign, Namesakes
    <3> QED
      BY <3>2, <3>3, <3>4
  <2>3. CASE ~(Running(i) /\ i \notin deaf)
    <3>1. queue'[i] = queue[i]
      BY <1>1, <2>3
    <3> QED
      BY <1>2, <2>3, <3>1 DEF Pending, Foreign
  <2> QED
    BY <2>2, <2>3
<1>6. TypeOK'
  <2>1. \A s \in Requests : JobOK(s)'
    BY <1>2, <1>3, FinishInv
  <2>2. \A i \in Instances : IdleOK(i)'
    BY <1>2, <1>4, TypeParts DEF IInv, IdleOK
  <2>3. /\ db' \in Versions /\ name' \in [Instances -> Names] /\ policy' \in [Instances -> 0..db']
        /\ phase' \in [Instances -> {"down", "booted", "serving", "draining"}]
        /\ reading' \in [Instances -> 0..db' \cup {None}]
    BY <1>2 DEF IInv, TypeOK
  <2>4. pc' \in [Requests -> Steps] /\ job' \in [Requests -> Job]
    BY <1>2, FinishFacts DEF IInv
  <2> QED
    BY <1>3, <1>4, <2>1, <2>2, <2>3, <2>4 DEF TypeOK, IdleOK, JobOK
<1>7. LoadsFollowChanges' /\ ChangeIsEnforced'
  BY <1>2, <1>3, FinishInv
<1>8. LagIsAttended'
  <2> SUFFICES ASSUME NEW j \in Instances, phase'[j] # "down"
               PROVE  \/ policy'[j] = db' \/ cause'[j] # {}
                      \/ Heard(j)' \/ (\E s \in Requests : Coming(s, j)')
    BY DEF LagIsAttended
  <2>1. CASE j # At(r)
    <3>1. phase[j] \in {"booted", "serving", "draining"} /\ phase' = phase
      BY <1>2 DEF IInv, TypeOK
    <3>2. Passed(j) \/ Running(j)
      BY <3>1
    <3>3. Passed(j) => policy'[j] = db' \/ cause'[j] # {}
      BY <1>2, <1>3
    <3>4. Running(j) /\ ~Passed(j) => Heard(j)'
      BY <1>5, <2>1, <3>1 DEF Heard
    <3> QED
      BY <3>2, <3>3, <3>4
  <2>2. CASE j = At(r)
    <3>1. ~Coming(r, j)
      BY <1>2, <2>2 DEF Coming
    <3>2. \A s \in Requests \ {r} : Coming(s, j) => Coming(s, j)'
      BY <1>2, FinishFacts DEF IInv, Coming, At
    <3>3. Heard(j) => Heard(j)'
      BY <1>2, <1>5 DEF Heard
    <3> QED
      BY <1>2, <1>3, <3>1, <3>2, <3>3 DEF IInv, LagIsAttended
  <2> QED
    BY <2>1, <2>2
<1>9. CausesLag'
  BY <1>2, <1>3 DEF IInv, CausesLag
<1> QED
  BY <1>6, <1>7, <1>8, <1>9 DEF IInv

\* A request that fails blames everybody it has not served.
LEMMA FailInv == ASSUME IInv, NEW r \in Requests, Fail(r) PROVE IInv'
<1> DEFINE blame == [i \in Instances |->
                      IF i # At(r) THEN {"unpublished"}
                      ELSE IF pc[r] = "load" THEN {"failed"} ELSE {}]
<1>1. pc[r] \in {"load", "publish"} /\ cause' = Blamed(blame)
      /\ UNCHANGED <<name, db, phase, policy, queue, reading>> /\ Finish(r)
  BY DEF Fail
<1>2. /\ cause' \in [Instances -> SUBSET Causes]
      /\ \A i \in Instances : cause[i] \subseteq cause'[i]
      /\ \A i \in Instances : i # At(r) \/ pc[r] = "load" => policy[i] = db \/ cause'[i] # {}
      /\ \A i \in Instances : cause'[i] # cause[i] => policy[i] # db
  <2>1. blame \in [Instances -> SUBSET Causes]
        /\ \A i \in Instances : i # At(r) \/ pc[r] = "load" => blame[i] # {}
    BY DEF Causes
  <2> HIDE DEF blame
  <2> QED
    BY <1>1, <2>1, BlameFacts DEF IInv
<1>3. TypeOK'
  <2>1. \A s \in Requests : JobOK(s)'
    BY <1>1, <1>2, FinishInv
  <2>2. \A i \in Instances : IdleOK(i)'
    BY <1>1, TypeParts DEF IInv, IdleOK
  <2>3. /\ db' \in Versions /\ name' \in [Instances -> Names] /\ policy' \in [Instances -> 0..db']
        /\ phase' \in [Instances -> {"down", "booted", "serving", "draining"}]
        /\ queue' \in [Instances -> Seq(Names)]
        /\ reading' \in [Instances -> 0..db' \cup {None}]
    BY <1>1 DEF IInv, TypeOK
  <2>4. pc' \in [Requests -> Steps] /\ job' \in [Requests -> Job]
    BY <1>1, FinishFacts DEF IInv
  <2> QED
    BY <1>2, <2>1, <2>2, <2>3, <2>4 DEF TypeOK, IdleOK, JobOK
<1>4. LoadsFollowChanges' /\ ChangeIsEnforced'
  BY <1>1, <1>2, FinishInv
<1>5. LagIsAttended'
  <2> SUFFICES ASSUME NEW j \in Instances, phase'[j] # "down"
               PROVE  \/ policy'[j] = db' \/ cause'[j] # {}
                      \/ Heard(j)' \/ (\E s \in Requests : Coming(s, j)')
    BY DEF LagIsAttended
  <2>1. CASE j # At(r) \/ pc[r] = "load"
    BY <1>1, <1>2, <2>1
  <2>2. CASE j = At(r) /\ pc[r] = "publish"
    <3>1. ~Coming(r, j)
      BY <2>2 DEF Coming
    <3>2. \A s \in Requests \ {r} : Coming(s, j) => Coming(s, j)'
      BY <1>1, FinishFacts DEF IInv, Coming, At
    <3>3. Heard(j) => Heard(j)'
      BY <1>1 DEF Heard, Pending, Foreign
    <3> QED
      BY <1>1, <1>2, <3>1, <3>2, <3>3 DEF IInv, LagIsAttended
  <2> QED
    BY <1>1, <2>1, <2>2
<1>6. CausesLag'
  BY <1>1, <1>2 DEF IInv, CausesLag
<1> QED
  BY <1>3, <1>4, <1>5, <1>6 DEF IInv

\* Taking an instance's own message away leaves the others that wait.
LEMMA TailPending ==
    ASSUME NEW i \in Instances, NEW q \in Seq(Names), q # << >>
    PROVE  /\ Head(q) \in Names /\ Tail(q) \in Seq(Names)
           /\ ~Foreign(i, Head(q)) /\ (\E k \in DOMAIN q : Foreign(i, q[k]))
                 => \E k \in DOMAIN Tail(q) : Foreign(i, Tail(q)[k])
<1>1. /\ Head(q) \in Names /\ Tail(q) \in Seq(Names) /\ Head(q) = q[1]
      /\ Len(q) \in Nat /\ DOMAIN q = 1..Len(q) /\ DOMAIN Tail(q) = 1..(Len(q) - 1)
      /\ \A k \in 1..(Len(q) - 1) : Tail(q)[k] = q[k + 1]
  OBVIOUS
<1>2. ASSUME ~Foreign(i, Head(q)), NEW k \in DOMAIN q, Foreign(i, q[k])
      PROVE  k - 1 \in DOMAIN Tail(q) /\ Foreign(i, Tail(q)[k - 1])
  <2>1. k # 1 /\ k - 1 \in 1..(Len(q) - 1) /\ (k - 1) + 1 = k
    BY <1>1, <1>2
  <2> QED
    BY <1>1, <1>2, <2>1
<1> QED
  BY <1>1, <1>2

\* The consumer passes its own messages by and reads the tables for another's.
LEMMA ConsumeInv == ASSUME IInv, NEW i \in Instances, Consume(i) PROVE IInv'
<1> DEFINE foreign == Foreign(i, Head(queue[i]))
<1>1. /\ queue[i] \in Seq(Names) /\ queue[i] # << >> /\ reading[i] = None
      /\ queue' = [queue EXCEPT ![i] = Tail(@)]
      /\ UNCHANGED <<name, db, phase, policy, pc, job>> /\ db \in 0..db /\ db # None
  BY DEF Consume, IInv, TypeOK, Versions
<1>2. /\ queue' \in [Instances -> Seq(Names)] /\ queue'[i] = Tail(queue[i])
      /\ \A j \in Instances \ {i} : queue'[j] = queue[j]
      /\ Running(i)
  BY <1>1, TailPending DEF IInv, TypeOK
<1>3. /\ reading' \in [Instances -> 0..db \cup {None}]
      /\ cause' \in [Instances -> SUBSET Causes]
      /\ \A j \in Instances : cause[j] \subseteq cause'[j]
      /\ \A j \in Instances \ {i} : reading'[j] = reading[j]
      /\ foreign => reading'[i] = db \/ policy[i] = db \/ cause'[i] # {}
      /\ \A j \in Instances : cause'[j] # cause[j] => policy[j] # db
  <2>1. CASE foreign /\ reading' = [reading EXCEPT ![i] = db] /\ UNCHANGED cause
    BY <1>1, <2>1 DEF IInv, TypeOK
  <2>2. CASE /\ foreign /\ cause' = Blamed(Blame({i}, "failed")) /\ UNCHANGED reading
    <3> DEFINE blame == Blame({i}, "failed")
    <3>1. blame \in [Instances -> SUBSET Causes] /\ blame[i] = {"failed"}
      BY DEF Blame, Causes
    <3>2. cause' = Blamed(blame)
      BY <2>2
    <3> HIDE DEF blame
    <3>3. /\ cause' \in [Instances -> SUBSET Causes]
          /\ \A j \in Instances :
                cause'[j] = IF policy[j] = db THEN cause[j] ELSE cause[j] \cup blame[j]
      BY <3>1, <3>2, BlameFacts DEF IInv
    <3> QED
      BY <2>2, <3>1, <3>3 DEF IInv, TypeOK
  <2>3. CASE ~foreign /\ UNCHANGED <<reading, cause>>
    BY <2>3 DEF IInv, TypeOK
  <2> QED
    BY <2>1, <2>2, <2>3 DEF Consume
<1>4. TypeOK'
  BY <1>1, <1>2, <1>3 DEF IInv, TypeOK, At
<1>5. LoadsFollowChanges' /\ ChangeIsEnforced'
  BY <1>1, <1>3 DEF IInv, TypeOK, LoadsFollowChanges, ChangeIsEnforced, At
<1>6. LagIsAttended'
  <2> SUFFICES ASSUME NEW j \in Instances, phase'[j] # "down"
               PROVE  \/ policy'[j] = db' \/ cause'[j] # {}
                      \/ Heard(j)' \/ (\E s \in Requests : Coming(s, j)')
    BY DEF LagIsAttended
  <2>1. \A s \in Requests : Coming(s, j) => Coming(s, j)'
    BY <1>1 DEF Coming, At
  <2>2. Heard(j) => Heard(j)' \/ policy[j] = db \/ cause'[j] # {}
    <3>1. CASE j # i
      BY <1>1, <1>2, <1>3, <3>1 DEF Heard, Pending, Foreign
    <3>2. CASE j = i /\ foreign
      BY <1>1, <1>2, <1>3, <3>2 DEF Heard
    <3>3. CASE j = i /\ ~foreign
      <4>1. ~Foreign(i, Head(queue[i])) /\ queue'[i] = Tail(queue[i])
        BY <1>2, <3>3
      <4>2. (\E k \in DOMAIN queue[i] : Foreign(i, queue[i][k]))
              => \E k \in DOMAIN Tail(queue[i]) : Foreign(i, Tail(queue[i])[k])
        BY <1>1, <4>1, TailPending
      <4>3. Pending(i) => Pending(i)'
        BY <1>1, <4>1, <4>2 DEF Pending, Foreign
      <4> QED
        BY <1>1, <1>2, <3>3, <4>3 DEF Heard
    <3> QED
      BY <3>1, <3>2, <3>3
  <2> QED
    BY <1>1, <1>3, <2>1, <2>2 DEF IInv, LagIsAttended
<1>7. CausesLag'
  BY <1>1, <1>3 DEF IInv, CausesLag
<1> QED
  BY <1>4, <1>5, <1>6, <1>7 DEF IInv

\* A load of the consumer that takes effect leaves what waits for the next one.
LEMMA ApplyConsumedInv == ASSUME IInv, NEW i \in Instances, ApplyConsumed(i) PROVE IInv'
<1>1. /\ reading[i] \in 0..db /\ Install(i, reading[i])
      /\ reading' = [reading EXCEPT ![i] = None]
      /\ UNCHANGED <<name, db, phase, queue, pc, job>>
  BY DEF ApplyConsumed, IInv, TypeOK
<1>2. /\ reading' \in [Instances -> 0..db \cup {None}] /\ reading'[i] = None
      /\ \A j \in Instances \ {i} : reading'[j] = reading[j]
  BY <1>1 DEF IInv, TypeOK
<1>3. TypeOK'
  BY <1>1, <1>2, InstallFacts DEF IInv, TypeOK, At
<1>4. LoadsFollowChanges'
  BY <1>1 DEF IInv, LoadsFollowChanges
<1>5. ChangeIsEnforced'
  BY <1>1, InstallEnforces DEF IInv, ChangeIsEnforced, At
<1>6. LagIsAttended'
  <2> SUFFICES ASSUME NEW j \in Instances, phase'[j] # "down"
               PROVE  \/ policy'[j] = db' \/ cause'[j] # {}
                      \/ Heard(j)' \/ (\E s \in Requests : Coming(s, j)')
    BY DEF LagIsAttended
  <2>1. CASE policy[j] = db \/ cause[j] # {}
    BY <1>1, <2>1, InstallSettled DEF IInv
  <2>2. CASE Heard(j) /\ ~(j = i /\ reading[i] = db)
    BY <1>1, <1>2, <2>2 DEF Heard, Pending, Foreign
  <2>3. CASE j = i /\ reading[i] = db
    BY <1>1, <2>3, InstallFacts DEF IInv
  <2>4. CASE \E s \in Requests : Coming(s, j)
    BY <1>1, <2>4 DEF Coming, At
  <2> QED
    BY <1>1, <2>1, <2>2, <2>3, <2>4 DEF IInv, LagIsAttended
<1>7. CausesLag'
  BY <1>1, InstallLags DEF IInv
<1> QED
  BY <1>3, <1>4, <1>5, <1>6, <1>7 DEF IInv

\* Every step keeps the inductive invariant.
THEOREM StepIInv == IInv /\ [Next]_vars => IInv'
<1> SUFFICES ASSUME IInv, [Next]_vars PROVE IInv'
  OBVIOUS
<1>1. ASSUME NEW i \in Instances, Boot(i) \/ Start(i) \/ Drain(i) \/ Stop(i) \/ Consumer(i)
      PROVE  IInv'
  BY <1>1, BootInv, StartInv, DrainInv, StopInv, ConsumeInv, ApplyConsumedInv DEF Consumer
<1>2. ASSUME NEW r \in Requests, NEW i \in Instances, Change(r, i) PROVE IInv'
  BY <1>2, ChangeInv
<1>3. ASSUME NEW r \in Requests, Notify(r) \/ Fail(r) PROVE IInv'
  BY <1>3, LoadInv, ApplyInv, PublishInv, FailInv DEF Notify
<1>4. CASE UNCHANGED vars
  <2>1. TypeOK'
    BY <1>4 DEF IInv, TypeOK, At
  <2>2. LoadsFollowChanges' /\ ChangeIsEnforced'
    BY <1>4 DEF IInv, LoadsFollowChanges, ChangeIsEnforced, At
  <2>3. LagIsAttended'
    BY <1>4 DEF IInv, LagIsAttended, Heard, Pending, Foreign, Coming, At
  <2>4. CausesLag'
    BY <1>4 DEF IInv, CausesLag
  <2> QED
    BY <2>1, <2>2, <2>3, <2>4 DEF IInv
<1> QED
  BY <1>1, <1>2, <1>3, <1>4 DEF Next

\* The inductive invariant holds in every reachable state.
THEOREM Invariance == Spec => []IInv
BY InitIInv, StepIInv, PTL DEF Spec

\* The variables keep their types, and no policy is ever ahead of the tables.
THEOREM TypeCorrect == Spec => []TypeOK
<1>1. IInv => TypeOK
  BY DEF IInv
<1> QED
  BY <1>1, Invariance, PTL

\* accesscontrol.go NotifyChanged and consumeChanges: when nobody is at work, a
\* running instance lacks a change just if it has one of the named causes.
THEOREM StalenessExplained == Spec => []StaleHasCause
<1>1. IInv => StaleHasCause
  <2> SUFFICES ASSUME IInv, NEW i \in Instances, Quiet(i), Running(i)
               PROVE  policy[i] # db <=> cause[i] # {}
    BY DEF StaleHasCause
  <2>1. ~Heard(i)
    BY DEF Quiet, Heard, Pending, Foreign, IInv, TypeOK, Versions
  <2>2. \A r \in Requests : ~Coming(r, i)
    BY DEF Quiet, Coming
  <2> QED
    BY <2>1, <2>2 DEF IInv, LagIsAttended, CausesLag
<1> QED
  BY <1>1, Invariance, PTL

\* accesscontrol.go NotifyChanged: an instance whose request has reloaded enforces
\* that request's change, unless an older load overtook it.
THEOREM ChangeEnforced == Spec => []ChangeIsEnforced
<1>1. IInv => ChangeIsEnforced
  BY DEF IInv
<1> QED
  BY <1>1, Invariance, PTL
=============================================================================

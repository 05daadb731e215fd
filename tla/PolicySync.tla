------------------------------ MODULE PolicySync -----------------------------
(***************************************************************************)
(* How the Casbin policy of every instance follows the role and permission *)
(* tables: the instance that changes them reloads and publishes an event,  *)
(* the others reload when they hear it (accesscontrol.go).                 *)
(*                                                                         *)
(* The tables are the number of changes committed; a policy is the number  *)
(* of changes it is certain to contain.  LoadPolicyRules reads roles,      *)
(* relations and permissions one after the other and may catch part of a   *)
(* change made meanwhile, so its result counts as of its first query.      *)
(* SyncedEnforcer.LoadPolicy reads under its read lock and puts the new    *)
(* model in place under its write lock: two loads of one instance can      *)
(* finish in either order.  Redis Pub/Sub keeps the order of the messages  *)
(* and nothing for a client that is not connected.                         *)
(*                                                                         *)
(* An instance knows its own events by app.instance_id, which nobody       *)
(* checks: configs/config.prod.yaml gives every instance the same one, and *)
(* an empty one belongs to nobody.                                         *)
(***************************************************************************)
EXTENDS Naturals, Sequences

CONSTANTS Instances,
          Names,      \* what app.instance_id may be
          Unnamed,    \* an empty one
          Requests,   \* requests that change roles or permissions
          MaxChanges, \* bound on the changes
          Faults,     \* whether calls fail, connections and processes are lost,
                      \* and instances may bear one name, or none
          None

ASSUME PolicySyncAssumption ==
    /\ MaxChanges \in Nat /\ Faults \in BOOLEAN
    /\ None \notin Instances \cup Nat

VARIABLES
    name,      \* app.instance_id, which stays
    db,        \* the tables
    phase,     \* the instances: down, booted by NewApplication, serving or
               \* (after the signal to stop) draining in Run
    policy,    \* the model of the SyncedEnforcer
    queue,     \* messages on an instance's subscription, by the name of their source
    reading,   \* what the load of the consumer goroutine has read, or None
    pc, job,   \* the requests
    cause      \* history: what made an instance miss the present tables

vars == <<name, db, phase, policy, queue, reading, pc, job, cause>>

Versions == 0..MaxChanges
Causes   == {"gap", "missed", "unpublished", "failed", "overtaken", "namesake"}
Steps    == {"idle", "load", "apply", "publish"}
Job      == [at: Instances \cup {None}, change: Versions, read: Versions]
NoJob    == [at |-> None, change |-> 0, read |-> 0]

Init ==
    /\ name \in [Instances -> Names]
    /\ Faults \/ \A i, j \in Instances : name[i] # Unnamed /\ (name[i] = name[j] => i = j)
    /\ db = 0
    /\ phase = [i \in Instances |-> "down"]
    /\ policy = [i \in Instances |-> 0]
    /\ queue = [i \in Instances |-> << >>]
    /\ reading = [i \in Instances |-> None]
    /\ pc = [r \in Requests |-> "idle"]
    /\ job = [r \in Requests |-> NoJob]
    /\ cause = [i \in Instances |-> {}]

At(r)           == job[r].at
Namesakes(i, j) == name[i] = name[j] /\ name[i] # Unnamed
Running(i)      == phase[i] \in {"serving", "draining"}

\* What happened adds to the causes of the instances that lag behind.
Blamed(blame) == [i \in Instances |-> IF policy[i] = db THEN cause[i]
                                                        ELSE cause[i] \cup blame[i]]
Blame(is, c)  == [i \in Instances |-> IF i \in is THEN {c} ELSE {}]

\* A load puts its snapshot in place; the present tables end every staleness.
Install(i, snapshot) ==
    /\ policy' = [policy EXCEPT ![i] = snapshot]
    /\ cause' = [cause EXCEPT ![i] = IF snapshot = db THEN {}
                                     ELSE IF snapshot < policy[i]
                                          THEN @ \cup {"overtaken"} ELSE @]

-----------------------------------------------------------------------------
(* The life of an instance *)

\* NewApplication builds the enforcer, which loads the policy.
Boot(i) ==
    /\ phase[i] = "down"
    /\ phase' = [phase EXCEPT ![i] = "booted"]
    /\ Install(i, db)
    /\ UNCHANGED <<name, db, queue, reading, pc, job>>

\* Run subscribes, and then serves requests.
Start(i) ==
    /\ phase[i] = "booted"
    /\ phase' = [phase EXCEPT ![i] = "serving"]
    /\ UNCHANGED <<name, db, policy, queue, reading, pc, job, cause>>

\* The context of Run is cancelled: the consumer is told to return, which it may
\* put off while there are messages, and the HTTP server lets requests finish.
Drain(i) ==
    /\ phase[i] = "serving"
    /\ phase' = [phase EXCEPT ![i] = "draining"]
    /\ UNCHANGED <<name, db, policy, queue, reading, pc, job, cause>>

Handled(i) == {r \in Requests : At(r) = i}

\* Shutdown waits for the requests; a crash does not, nor does its deadline.
StoppedAlone(i) == UNCHANGED <<pc, job>>
Stopped(i) ==
    /\ pc' = [r \in Requests |-> IF r \in Handled(i) THEN "idle" ELSE pc[r]]
    /\ job' = [r \in Requests |-> IF r \in Handled(i) THEN NoJob ELSE job[r]]

Stop(i) ==
    /\ phase[i] # "down"
    /\ Faults \/ (Handled(i) = {} /\ phase[i] # "serving")
    /\ phase' = [phase EXCEPT ![i] = "down"]
    /\ queue' = [queue EXCEPT ![i] = << >>]
    /\ reading' = [reading EXCEPT ![i] = None]
    /\ Stopped(i)
    /\ cause' = IF Handled(i) = {} THEN cause
                ELSE Blamed(Blame(Instances \ {i}, "unpublished"))
    /\ UNCHANGED <<name, db, policy>>

-----------------------------------------------------------------------------
(* A request *)

\* The transaction commits; NotifyChanged comes next.
NotifyUnloaded == "publish"
FirstStep == "load"

Change(r, i) ==
    /\ pc[r] = "idle"
    /\ Running(i)
    /\ db < MaxChanges
    /\ db' = db + 1
    /\ pc' = [pc EXCEPT ![r] = FirstStep]
    /\ job' = [job EXCEPT ![r] = [at |-> i, change |-> db + 1, read |-> 0]]
    /\ UNCHANGED <<name, phase, policy, queue, reading, cause>>

Load(r) ==
    /\ pc[r] = "load"
    /\ pc' = [pc EXCEPT ![r] = "apply"]
    /\ job' = [job EXCEPT ![r].read = db]
    /\ UNCHANGED <<name, db, phase, policy, queue, reading, cause>>

Finish(r) ==
    /\ pc' = [pc EXCEPT ![r] = "idle"]
    /\ job' = [job EXCEPT ![r] = NoJob]

ReturnAfterLoad(r) == Finish(r)
AfterLoad(r) == pc' = [pc EXCEPT ![r] = "publish"] /\ UNCHANGED job

Apply(r) ==
    /\ pc[r] = "apply"
    /\ Install(At(r), job[r].read)
    /\ AfterLoad(r)
    /\ UNCHANGED <<name, db, phase, queue, reading>>

\* Redis hands the event to whoever is subscribed and reachable.
Publish(r) ==
    /\ pc[r] = "publish"
    /\ \E deaf \in SUBSET {i \in Instances : Running(i)} :
       /\ Faults \/ deaf = {}
       /\ queue' = [i \in Instances |->
                      IF Running(i) /\ i \notin deaf
                      THEN Append(queue[i], name[At(r)]) ELSE queue[i]]
       /\ cause' = Blamed([i \in Instances |->
                      IF phase[i] = "booted" THEN {"gap"}
                      ELSE IF i = At(r) THEN {}
                      ELSE IF i \in deaf THEN {"missed"}
                      ELSE IF Namesakes(i, At(r)) THEN {"namesake"} ELSE {}])
    /\ Finish(r)
    /\ UNCHANGED <<name, db, phase, policy, reading>>

\* Unlinking identities, querying the policy or publishing returns an error.
Fail(r) ==
    /\ Faults
    /\ pc[r] \in {"load", "publish"}
    /\ cause' = Blamed([i \in Instances |->
                   IF i # At(r) THEN {"unpublished"}
                   ELSE IF pc[r] = "load" THEN {"failed"} ELSE {}])
    /\ Finish(r)
    /\ UNCHANGED <<name, db, phase, policy, queue, reading>>

-----------------------------------------------------------------------------
(* The consumer goroutine *)

NeverForeign(i, source) == FALSE
Foreign(i, source) == source = Unnamed \/ source # name[i]

\* It takes the next message, and loads the policy unless it is its own.
Consume(i) ==
    /\ queue[i] # << >>
    /\ reading[i] = None
    /\ queue' = [queue EXCEPT ![i] = Tail(@)]
    /\ IF Foreign(i, Head(queue[i]))
       THEN \/ reading' = [reading EXCEPT ![i] = db] /\ UNCHANGED cause
            \/ Faults /\ cause' = Blamed(Blame({i}, "failed")) /\ UNCHANGED reading
       ELSE UNCHANGED <<reading, cause>>
    /\ UNCHANGED <<name, db, phase, policy, pc, job>>

ApplyConsumed(i) ==
    /\ reading[i] # None
    /\ Install(i, reading[i])
    /\ reading' = [reading EXCEPT ![i] = None]
    /\ UNCHANGED <<name, db, phase, queue, pc, job>>

-----------------------------------------------------------------------------
Notify(r)   == Load(r) \/ Apply(r) \/ Publish(r)
Consumer(i) == Consume(i) \/ ApplyConsumed(i)

Next ==
    \/ \E i \in Instances : Boot(i) \/ Start(i) \/ Drain(i) \/ Stop(i) \/ Consumer(i)
    \/ \E r \in Requests : \/ \E i \in Instances : Change(r, i)
                           \/ Notify(r) \/ Fail(r)

Spec == Init /\ [][Next]_vars

\* A goroutine that can run does; nothing makes anybody change the tables, and
\* a consumer whose context is cancelled may be gone.
Fairness == /\ \A r \in Requests : WF_vars(Notify(r))
            /\ \A i \in Instances : WF_vars(phase[i] = "serving" /\ Consumer(i))

FairSpec == Spec /\ Fairness
-----------------------------------------------------------------------------
(* Properties *)

\* The variables hold what the code keeps, no policy is ahead of the tables, and
\* only an instance in Run has requests, messages or a consumer at work.
TypeOK ==
    /\ name \in [Instances -> Names]
    /\ db \in Versions
    /\ phase \in [Instances -> {"down", "booted", "serving", "draining"}]
    /\ policy \in [Instances -> 0..db]
    /\ queue \in [Instances -> Seq(Names)]
    /\ reading \in [Instances -> 0..db \cup {None}]
    /\ pc \in [Requests -> Steps]
    /\ job \in [Requests -> Job]
    /\ cause \in [Instances -> SUBSET Causes]
    /\ \A i \in Instances : ~Running(i) => queue[i] = << >> /\ reading[i] = None
    /\ \A r \in Requests :
          IF pc[r] = "idle" THEN job[r] = NoJob
          ELSE /\ At(r) \in Instances /\ Running(At(r))
               /\ job[r].change <= db /\ job[r].read <= db

Quiet(i) == /\ \A r \in Requests : pc[r] = "idle"
            /\ queue[i] = << >> /\ reading[i] = None

\* docs/rbac.md: after a change the instance reloads and tells the others to.  So
\* once nobody is at it, a running instance lacks a change only if it was not yet
\* subscribed when the change was published, lost the message or was never sent
\* one, took it for its own, failed to load, or had a load overtaken by an older
\* one; and what has such a cause does lack a change.
StaleHasCause ==
    \A i \in Instances :
        Quiet(i) /\ Running(i) => (policy[i] # db <=> cause[i] # {})

\* A request that has reloaded, and so one that is answered, leaves its own
\* instance enforcing its change, unless an older load overtakes it.
ChangeIsEnforced ==
    \A r \in Requests :
        pc[r] = "publish" => policy[At(r)] >= job[r].change \/ cause[At(r)] # {}

\* An instance that lags behind the tables catches up, but for those causes.
CatchesUp ==
    \A i \in Instances :
        phase[i] = "serving" /\ policy[i] < db
            ~> policy[i] = db \/ cause[i] # {} \/ phase[i] # "serving"

\* docs/rbac.md: a disabled role "no longer enters the Casbin policy"; the tables
\* are "the only source of truth" for it.  When nobody is at work the policy of an
\* instance that serves is what the tables say.
PolicyIsDatabase ==
    \A i \in Instances : Quiet(i) /\ phase[i] = "serving" => policy[i] = db
=============================================================================

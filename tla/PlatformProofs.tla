---------------------------- MODULE PlatformProofs ---------------------------
(***************************************************************************)
(* The last two of the components around the services, and what the        *)
(* specification that TLC runs takes over from all seven.                  *)
(*                                                                         *)
(* Lifecycle: resources are closed under running work only when a deadline *)
(* has passed, for any number of requests and tasks and all timeouts.  It  *)
(* is the start that makes this hard: the shutdown begins from every point *)
(* of it and drains what has been started by then.  The invariant says     *)
(* which runners those are, that what is drained takes nothing in any      *)
(* more, and that a drain is over for one of two reasons, each of which    *)
(* lasts.                                                                  *)
(*                                                                         *)
(* RetryDelays: a task backs off for every width of a duration and all     *)
(* configurations unless the product overflows, and the cap, which the     *)
(* fixed strategy does not have, holds even then.                          *)
(*                                                                         *)
(* MCPlatform: the components side by side, of which one moves at a time.  *)
(* It only adds guards, so what is proved of a component holds of the      *)
(* specification that TLC runs.                                            *)
(***************************************************************************)
EXTENDS MCPlatform, StorageProofs, CacheProofs, TLAPS

StartedKnown == \A r \in Runners : runner[r] = "new" <=> r \notin started

\* What has not begun yet, by where Run is.
PhasesInOrder ==
    /\ runAt \notin {"drain", "close", "exited"} => draining = {}
    /\ runAt \in {"access", "worker", "scheduler"} => httpServer = "new"
    /\ runAt \notin {"close", "exited"} => released = {}
    /\ runAt \in {"close", "exited"} => drained = ToDrain

TakesNothingIn ==
    /\ "http" \in draining => httpServer = "closed"
    /\ \A r \in Runners : r \in draining => runner[r] \in {"closing", "closed"}

DrainedForAReason == \A c \in drained : Empty(c) \/ drainLeft = 0

\* asynq answers for the tasks it takes.
TasksKnown ==
    /\ runner["worker"] = "new" => \A t \in QueuedTasks : work[t] # "running"
    /\ runner["worker"] = "closed" =>
          (\A t \in QueuedTasks : work[t] # "running") \/ workerLeft = 0

LifecycleInv ==
    /\ LifecycleTypeOK /\ StartedKnown /\ PhasesInOrder /\ TakesNothingIn
    /\ DrainedForAReason /\ TasksKnown

LEMMA LifecycleInit_Inv == LifecycleInit => LifecycleInv
<1> SUFFICES ASSUME LifecycleInit PROVE LifecycleInv
  OBVIOUS
<1>1. LifecycleTypeOK
  BY DEF LifecycleInit, LifecycleTypeOK, RunSteps, Runners, ToDrain
<1>2. StartedKnown /\ PhasesInOrder /\ TakesNothingIn
  BY DEF LifecycleInit, StartedKnown, PhasesInOrder, TakesNothingIn
<1>3. DrainedForAReason /\ TasksKnown
  BY DEF LifecycleInit, DrainedForAReason, TasksKnown, Works, Runners
<1> QED BY <1>1, <1>2, <1>3 DEF LifecycleInv

\* Run goes on in its start, or shuts down from it: nothing is draining.
LEMMA StartsStep ==
    ASSUME LifecycleInv, runAt \in {"access", "worker", "scheduler", "serve"},
           \/ GoesOn("worker") \/ GoesOn("scheduler") \/ GoesOn("serve") \/ ShutsDown,
           UNCHANGED <<cancelled, configured, work, workerLeft, Draining>>,
           \/ UNCHANGED <<started, runner>>
           \/ \E r \in Runners \cap configured :
                  started' = started \cup {r} /\ runner' = [runner EXCEPT ![r] = "active"],
           httpServer' \in {"new", "launched", "listening", "closed"},
           runAt' \in {"access", "worker", "scheduler"} => httpServer' = "new"
    PROVE  LifecycleInv'
<1>1. /\ draining = {} /\ drained = {} /\ released = {}
      /\ draining' = {} /\ drained' = {} /\ released' = {}
  BY DEF LifecycleInv, LifecycleTypeOK, PhasesInOrder, Draining
<1>2. runAt' \in RunSteps /\ runAt' \notin {"drain", "close", "exited"}
  BY DEF GoesOn, ShutsDown, RunSteps
<1>3. drainLeft' \in {NotStarted} \cup 0..ServerTimeout
  <2>1. drainLeft' = drainLeft \/ drainLeft' = ServerTimeout
    BY DEF GoesOn, ShutsDown
  <2>2. ServerTimeout \in 0..ServerTimeout
    BY LifecycleAssumption
  <2> QED BY <2>1, <2>2 DEF LifecycleInv, LifecycleTypeOK
<1>4. /\ started' \subseteq configured
      /\ runner' \in [Runners -> {"new", "active", "stopped", "closing", "closed"}]
      /\ StartedKnown'
  <2>1. CASE UNCHANGED <<started, runner>>
    BY <2>1 DEF LifecycleInv, LifecycleTypeOK, StartedKnown
  <2>2. CASE \E r \in Runners \cap configured :
               started' = started \cup {r} /\ runner' = [runner EXCEPT ![r] = "active"]
    <3>1. PICK r \in Runners \cap configured :
            started' = started \cup {r} /\ runner' = [runner EXCEPT ![r] = "active"]
      BY <2>2
    <3>2. runner' \in [Runners -> {"new", "active", "stopped", "closing", "closed"}]
          /\ runner'[r] = "active" /\ \A s \in Runners \ {r} : runner'[s] = runner[s]
      BY <3>1 DEF LifecycleInv, LifecycleTypeOK
    <3> QED BY <3>1, <3>2 DEF LifecycleInv, LifecycleTypeOK, StartedKnown
  <2> QED BY <2>1, <2>2
<1>5. LifecycleTypeOK'
  BY <1>1, <1>2, <1>3, <1>4 DEF LifecycleInv, LifecycleTypeOK
<1>6. runner'["worker"] = runner["worker"] \/ runner'["worker"] = "active"
  BY DEF LifecycleInv, LifecycleTypeOK, Runners
<1>7. TasksKnown'
  BY <1>6 DEF LifecycleInv, TasksKnown
<1>8. PhasesInOrder' /\ TakesNothingIn' /\ DrainedForAReason'
  BY <1>1, <1>2 DEF PhasesInOrder, TakesNothingIn, DrainedForAReason
<1> QED BY <1>4, <1>5, <1>7, <1>8 DEF LifecycleInv

\* A runner is told to stop, or is closed: it does not take anything in after that.
LEMMA RunnerStep ==
    ASSUME LifecycleInv, NEW r \in Runners, NEW to \in {"stopped", "closing", "closed"},
           runner' = [runner EXCEPT ![r] = to], runner[r] # "new",
           runner[r] # "closed", runner[r] = "closing" => to # "stopped",
           r \in draining' => to # "stopped",
           UNCHANGED <<cancelled, configured, started, work, drainLeft, released>>,
           \/ UNCHANGED <<runAt, httpServer>>
           \/ runAt = "stop pulling" /\ runAt' = "drain" /\ httpServer' = httpServer
                /\ draining' = {},
           drained' = drained,
           draining' = draining \/ (runAt = "drain" /\ draining' = draining \cup {r} /\ r \in started),
           workerLeft' = workerLeft \/ (workerLeft' \in 0..WorkerTimeout /\ to = "closing"),
           r = "worker" /\ to = "closed" =>
               workerLeft' = workerLeft
               /\ ((\A t \in QueuedTasks : work[t] # "running") \/ workerLeft = 0),
           workerLeft' # workerLeft => r = "worker"
    PROVE  LifecycleInv'
<1>1. /\ r \in started /\ runner'[r] = to
      /\ \A s \in Runners \ {r} : runner'[s] = runner[s]
      /\ runner' \in [Runners -> {"new", "active", "stopped", "closing", "closed"}]
  BY DEF LifecycleInv, LifecycleTypeOK, StartedKnown
<1>2. ToDrain' = ToDrain /\ runAt' \in RunSteps
  BY DEF ToDrain, LifecycleInv, LifecycleTypeOK, RunSteps
<1>3. draining' \subseteq ToDrain' /\ drained' \subseteq draining'
  BY <1>2 DEF LifecycleInv, LifecycleTypeOK, PhasesInOrder, ToDrain
<1>4. LifecycleTypeOK'
  BY <1>1, <1>2, <1>3 DEF LifecycleInv, LifecycleTypeOK
<1>5. StartedKnown'
  BY <1>1 DEF LifecycleInv, StartedKnown
<1>6. PhasesInOrder'
  BY <1>2 DEF LifecycleInv, PhasesInOrder
<1>7. TakesNothingIn'
  <2>0. r # "http"
    BY DEF Runners
  <2>1. "http" \in draining' => "http" \in draining
    BY <2>0
  <2> QED BY <1>1, <2>1 DEF LifecycleInv, TakesNothingIn, PhasesInOrder
<1>8. DrainedForAReason'
  <2>1. \A c \in Runners : runner[c] = "closed" => runner'[c] = "closed"
    BY <1>1
  <2>2. drained \subseteq {"http"} \cup Runners
    BY DEF LifecycleInv, LifecycleTypeOK, ToDrain
  <2> SUFFICES ASSUME NEW c \in drained PROVE Empty(c)' \/ drainLeft = 0
    BY DEF DrainedForAReason
  <2>3. Empty(c) \/ drainLeft = 0
    BY DEF LifecycleInv, DrainedForAReason
  <2>4. CASE c = "http"
    BY <2>3, <2>4 DEF Empty
  <2>5. CASE c # "http"
    BY <2>1, <2>2, <2>3, <2>5 DEF Empty
  <2> QED BY <2>4, <2>5
<1>9. TasksKnown'
  BY <1>1 DEF LifecycleInv, TasksKnown, Runners
<1> QED BY <1>4, <1>5, <1>6, <1>7, <1>8, <1>9 DEF LifecycleInv

\* The work, the timers and the listener: a step that no runner takes part in.
LEMMA WorkStep ==
    ASSUME LifecycleInv,
           UNCHANGED <<runAt, configured, started, runner, draining, released>>,
           cancelled' \in BOOLEAN,
           \/ httpServer' = httpServer
           \/ httpServer \in {"launched", "listening"} /\ httpServer' \in {"listening", "closed"},
           work' \in [Works -> {"none", "running", "ended", "killed"}],
           \A q \in HttpRequests : work'[q] = "running" /\ work[q] # "running" =>
               httpServer = "listening",
           \A t \in QueuedTasks : work'[t] = "running" /\ work[t] # "running" =>
               runner["worker"] = "active",
           drainLeft' \in {NotStarted} \cup 0..ServerTimeout, drainLeft = 0 => drainLeft' = 0,
           workerLeft' \in {NotStarted} \cup 0..WorkerTimeout, workerLeft = 0 => workerLeft' = 0,
           \A c \in drained' : c \in drained \/ (c \in draining /\ (Empty(c)' \/ drainLeft' = 0)),
           drained' = drained \/ runAt = "drain", drained' \subseteq draining
    PROVE  LifecycleInv'
<1>1. ToDrain' = ToDrain /\ httpServer' \in {"new", "launched", "listening", "closed"}
  BY DEF ToDrain, LifecycleInv, LifecycleTypeOK
<1>2. LifecycleTypeOK'
  BY <1>1 DEF LifecycleInv, LifecycleTypeOK
<1>3. StartedKnown' /\ TakesNothingIn'
  BY DEF LifecycleInv, StartedKnown, TakesNothingIn
<1>4. PhasesInOrder'
  BY <1>1 DEF LifecycleInv, PhasesInOrder
<1>5. DrainedForAReason'
  <2> SUFFICES ASSUME NEW c \in drained' PROVE Empty(c)' \/ drainLeft' = 0
    BY DEF DrainedForAReason
  <2>1. CASE c \notin drained
    BY <2>1
  <2>2. CASE c \in drained
    <3>1. Empty(c) \/ drainLeft = 0
      BY <2>2 DEF LifecycleInv, DrainedForAReason
    <3>2. CASE c = "http"
      <4>1. httpServer = "closed"
        BY <2>2, <3>2 DEF LifecycleInv, LifecycleTypeOK, TakesNothingIn
      <4> QED BY <3>1, <3>2, <4>1 DEF Empty
    <3>3. CASE c # "http"
      BY <3>1, <3>3 DEF Empty
    <3> QED BY <3>2, <3>3
  <2> QED BY <2>1, <2>2
<1>6. TasksKnown'
  BY DEF LifecycleInv, TasksKnown
<1> QED BY <1>2, <1>3, <1>4, <1>5, <1>6 DEF LifecycleInv

LEMMA LifecycleStep ==
    ASSUME LifecycleInv, [LifecycleNext]_lifecycleVars PROVE LifecycleInv'
<1> USE DEF ServedWork, Draining
<1>0. /\ LifecycleTypeOK /\ PhasesInOrder /\ StartedKnown /\ TakesNothingIn /\ TasksKnown
      /\ DrainedForAReason
      /\ cancelled \in BOOLEAN /\ work \in [Works -> {"none", "running", "ended", "killed"}]
      /\ drainLeft \in {NotStarted} \cup 0..ServerTimeout
      /\ workerLeft \in {NotStarted} \cup 0..WorkerTimeout
      /\ runner \in [Runners -> {"new", "active", "stopped", "closing", "closed"}]
      /\ httpServer \in {"new", "launched", "listening", "closed"}
      /\ drained \subseteq draining /\ draining \subseteq ToDrain
  BY DEF LifecycleInv, LifecycleTypeOK
<1>1. CASE StartAccessControl
  <2>1. httpServer = "new"
    BY <1>0, <1>1 DEF StartAccessControl, PhasesInOrder
  <2> QED BY <1>1, <2>1, StartsStep DEF StartAccessControl
<1>2. ASSUME NEW r \in Runners, StartRunner(r) PROVE LifecycleInv'
  <2>1. runAt \in {"worker", "scheduler"} /\ httpServer = "new"
    BY <1>0, <1>2 DEF StartRunner, PhasesInOrder, Runners
  <2>2. \/ GoesOn("scheduler") \/ GoesOn("serve") \/ ShutsDown
    BY <1>2 DEF StartRunner
  <2>3. \/ UNCHANGED <<started, runner>>
        \/ \E s \in Runners \cap configured :
             started' = started \cup {s} /\ runner' = [runner EXCEPT ![s] = "active"]
    BY <1>2 DEF StartRunner, WithStarted
  <2>4. /\ httpServer' \in {"new", "launched", "listening", "closed"}
        /\ runAt' \in {"access", "worker", "scheduler"} => httpServer' = "new"
    BY <1>2, <2>1 DEF StartRunner
  <2>5. UNCHANGED <<cancelled, configured, work, workerLeft, Draining>>
    BY <1>2 DEF StartRunner
  <2> QED BY <2>1, <2>2, <2>3, <2>4, <2>5, StartsStep
<1>3. CASE Listen
  BY <1>0, <1>3, WorkStep DEF Listen
<1>4. CASE ListenFails
  <2>1. CASE runAt = "serve"
    <3>1. ShutsDown /\ runAt' = "stop pulling" /\ httpServer' = "closed"
          /\ UNCHANGED <<cancelled, configured, started, runner, work, workerLeft, Draining>>
      BY <1>4, <2>1 DEF ListenFails, ShutsDown
    <3> QED BY <2>1, <3>1, StartsStep
  <2>2. CASE runAt # "serve"
    BY <1>0, <1>4, <2>2, WorkStep DEF ListenFails
  <2> QED BY <2>1, <2>2
<1>5. CASE Cancel
  BY <1>0, <1>5, WorkStep DEF Cancel
<1>6. CASE CancelStops
  <2>1. ShutsDown /\ runAt' = "stop pulling" /\ runAt = "serve" /\ httpServer' = httpServer
        /\ UNCHANGED <<cancelled, configured, started, runner, work, workerLeft, Draining>>
    BY <1>6 DEF CancelStops, ShutsDown
  <2> QED BY <1>0, <2>1, StartsStep
<1>7. CASE StopPulling
  <2>1. /\ runAt = "stop pulling" /\ runAt' = "drain" /\ draining = {} /\ released = {}
        /\ UNCHANGED <<cancelled, configured, started, httpServer, work, drainLeft,
                       workerLeft, draining, drained, released>>
    BY <1>0, <1>7 DEF StopPulling, GoesOn, PhasesInOrder
  <2>2. CASE runner' = [runner EXCEPT !["worker"] = "stopped"] /\ runner["worker"] = "active"
    <3>1. "worker" \in Runners
      BY DEF Runners
    <3> QED BY <2>1, <2>2, <3>1, RunnerStep
  <2>3. CASE runner' = runner
    <3>1. ToDrain' = ToDrain /\ runAt' \in RunSteps
      BY <2>1 DEF ToDrain, RunSteps
    <3>2. LifecycleTypeOK'
      BY <1>0, <2>1, <2>3, <3>1 DEF LifecycleTypeOK
    <3>3. PhasesInOrder'
      BY <2>1 DEF PhasesInOrder
    <3>4. StartedKnown' /\ TakesNothingIn' /\ TasksKnown'
      BY <1>0, <2>1, <2>3 DEF StartedKnown, TakesNothingIn, TasksKnown
    <3>5. DrainedForAReason'
      BY <1>0, <2>1 DEF DrainedForAReason
    <3> QED BY <3>2, <3>3, <3>4, <3>5 DEF LifecycleInv
  <2> QED BY <1>7, <2>2, <2>3 DEF StopPulling
\* once.Do
<1>8. ASSUME NEW r \in Runners, ShutRunner(r), runner[r] \in {"active", "stopped"},
             UNCHANGED <<runAt, cancelled, configured, started, httpServer, work, drainLeft,
                         drained, released>>,
             draining' = draining
               \/ (runAt = "drain" /\ draining' = draining \cup {r} /\ r \in started)
      PROVE  LifecycleInv'
  <2>1. runner' = [runner EXCEPT ![r] = "closing"]
        /\ workerLeft' = IF r = "worker" THEN WorkerTimeout ELSE workerLeft
    BY <1>8 DEF ShutRunner
  <2>2. WorkerTimeout \in 0..WorkerTimeout
    BY LifecycleAssumption
  <2> QED BY <1>8, <2>1, <2>2, RunnerStep
<1>9. ASSUME NEW r \in Runners, WatchRunner(r) PROVE LifecycleInv'
  BY <1>8, <1>9 DEF WatchRunner
<1>10. ASSUME NEW c \in {"http"} \cup Runners, BeginDrain(c) PROVE LifecycleInv'
  <2>0. /\ runAt = "drain" /\ c \in ToDrain /\ draining' = draining \cup {c}
        /\ UNCHANGED <<runAt, cancelled, configured, started, work, drainLeft, drained,
                       released>>
    BY <1>10 DEF BeginDrain
  <2>1. CASE c # "http" /\ runner[c] \in {"active", "stopped"}
    <3>1. c \in Runners /\ c \in started /\ ShutRunner(c) /\ httpServer' = httpServer
      BY <1>10, <2>0, <2>1 DEF BeginDrain, ToDrain
    <3> QED BY <1>8, <2>0, <2>1, <3>1
  <2>2. CASE c = "http" \/ runner[c] \notin {"active", "stopped"}
    <3>1. /\ UNCHANGED <<runner, workerLeft>>
          /\ c = "http" => httpServer' = "closed"
          /\ httpServer' = httpServer \/ httpServer' = "closed"
      BY <1>10, <2>2 DEF BeginDrain, ShutRunner
    <3>2. ToDrain' = ToDrain /\ draining' \subseteq ToDrain /\ drained' \subseteq draining'
      BY <1>0, <2>0 DEF ToDrain
    <3>3. LifecycleTypeOK'
      BY <1>0, <2>0, <3>1, <3>2 DEF LifecycleTypeOK
    <3>4. StartedKnown' /\ TasksKnown'
      BY <1>0, <2>0, <3>1 DEF StartedKnown, TasksKnown
    <3>5. PhasesInOrder'
      BY <1>0, <2>0 DEF PhasesInOrder
    <3>6. TakesNothingIn'
      <4>1. c # "http" => c \in started /\ c \in Runners
        BY <2>0 DEF ToDrain
      <4>2. c # "http" => runner[c] \in {"closing", "closed"}
        BY <1>0, <2>2, <4>1 DEF StartedKnown
      <4>3. "http" \in draining' => httpServer' = "closed"
        BY <1>0, <2>0, <3>1 DEF TakesNothingIn
      <4>4. \A r \in Runners : r \in draining' => r \in draining \/ (r = c /\ c # "http")
        BY <2>0 DEF Runners
      <4> QED BY <1>0, <3>1, <4>2, <4>3, <4>4 DEF TakesNothingIn
    <3>7. DrainedForAReason'
      BY <1>0, <2>0, <3>1 DEF DrainedForAReason, Empty
    <3> QED BY <3>3, <3>4, <3>5, <3>6, <3>7 DEF LifecycleInv
  <2> QED BY <2>1, <2>2
<1>11. ASSUME NEW c \in {"http"} \cup Runners, EndDrain(c) PROVE LifecycleInv'
  <2>1. /\ c \in draining \ drained /\ drained' = drained \cup {c}
        /\ Empty(c) \/ drainLeft = 0
        /\ UNCHANGED <<runAt, cancelled, configured, started, runner, httpServer, work,
                       drainLeft, workerLeft, draining, released>>
    BY <1>11 DEF EndDrain, DrainedOrLate
  <2>2. runAt = "drain"
    BY <1>0, <2>1 DEF PhasesInOrder
  <2>3. Empty(c)' <=> Empty(c)
    BY <2>1 DEF Empty
  <2>4. \A d \in drained' : d \in drained \/ (d \in draining /\ (Empty(d)' \/ drainLeft' = 0))
    BY <2>1, <2>3
  <2>5. drained' \subseteq draining
    BY <1>0, <2>1
  <2> QED BY <1>0, <2>1, <2>2, <2>4, <2>5, WorkStep
<1>12. CASE AllDrained
  <2>1. /\ runAt = "drain" /\ drained = ToDrain /\ runAt' = "close"
        /\ UNCHANGED <<cancelled, configured, started, runner, httpServer, work, drainLeft,
                       workerLeft, draining, drained, released>>
    BY <1>12 DEF AllDrained, GoesOn
  <2>2. ToDrain' = ToDrain /\ runAt' \in RunSteps
    BY <2>1 DEF ToDrain, RunSteps
  <2>3. LifecycleTypeOK'
    BY <1>0, <2>1, <2>2 DEF LifecycleTypeOK
  <2>4. PhasesInOrder'
    BY <2>1, <2>2 DEF PhasesInOrder
  <2>5. StartedKnown' /\ TakesNothingIn' /\ TasksKnown'
    BY <1>0, <2>1 DEF StartedKnown, TakesNothingIn, TasksKnown
  <2>6. DrainedForAReason'
    BY <1>0, <2>1 DEF DrainedForAReason, Empty
  <2> QED BY <2>3, <2>4, <2>5, <2>6 DEF LifecycleInv
<1>13. CASE CloseResource
  <2>1. /\ runAt = "close" /\ runAt' \in {"close", "exited"} /\ drainLeft' = drainLeft
        /\ UNCHANGED <<cancelled, configured, started, runner, httpServer, work,
                       workerLeft, draining, drained>>
    BY <1>13 DEF CloseResource, GoesOn
  <2>2. released' \subseteq Resources
    <3>1. /\ CloseOrder[1] \in Resources /\ CloseOrder[2] \in Resources
          /\ CloseOrder[3] \in Resources /\ CloseOrder[4] \in Resources
          /\ CloseOrder[5] \in Resources
      BY DEF CloseOrder, Resources
    <3>2. \E i \in 1..5 : released' = released \cup {CloseOrder[i]}
      BY <1>13 DEF CloseResource
    <3>3. ASSUME NEW i \in 1..5 PROVE i = 1 \/ i = 2 \/ i = 3 \/ i = 4 \/ i = 5
      OBVIOUS
    <3> QED BY <1>0, <3>1, <3>2, <3>3 DEF LifecycleTypeOK
  <2>3. ToDrain' = ToDrain /\ runAt' \in RunSteps
    BY <2>1 DEF ToDrain, RunSteps
  <2>4. LifecycleTypeOK'
    BY <1>0, <2>1, <2>2, <2>3 DEF LifecycleTypeOK
  <2>5. PhasesInOrder'
    BY <1>0, <2>1, <2>3 DEF PhasesInOrder
  <2>6. StartedKnown' /\ TakesNothingIn' /\ TasksKnown'
    BY <1>0, <2>1 DEF StartedKnown, TakesNothingIn, TasksKnown
  <2>7. DrainedForAReason'
    BY <1>0, <2>1 DEF DrainedForAReason, Empty
  <2> QED BY <2>4, <2>5, <2>6, <2>7 DEF LifecycleInv
<1>14. CASE Exit
  <2>1. \A w \in Works : work'[w] = work[w] \/ work'[w] = "killed"
    BY <1>14 DEF Exit
  <2>2. work' \in [Works -> {"none", "running", "ended", "killed"}]
    BY <1>0, <1>14 DEF Exit
  <2> QED BY <1>0, <1>14, <2>1, <2>2, WorkStep DEF Exit, Works
<1>15. ASSUME NEW w \in Works, Arrive(w) PROVE LifecycleInv'
  <2>1. work' = [work EXCEPT ![w] = "running"]
        /\ UNCHANGED <<runAt, cancelled, configured, started, runner, httpServer,
                       drainLeft, workerLeft, draining, drained, released>>
    BY <1>15 DEF Arrive
  <2>2. work' \in [Works -> {"none", "running", "ended", "killed"}]
        /\ \A v \in Works : v # w => work'[v] = work[v]
    BY <1>0, <2>1
  <2>3. /\ w \in HttpRequests => httpServer = "listening"
        /\ w \in QueuedTasks => runner["worker"] = "active"
    BY <1>15, LifecycleAssumption DEF Arrive
  <2> QED BY <1>0, <2>1, <2>2, <2>3, WorkStep DEF Works
<1>16. ASSUME NEW w \in Works, WorkEnds(w) PROVE LifecycleInv'
  <2>1. work' = [work EXCEPT ![w] = "ended"]
        /\ UNCHANGED <<runAt, cancelled, configured, started, runner, httpServer,
                       drainLeft, workerLeft, draining, drained, released>>
    BY <1>16 DEF WorkEnds
  <2>2. work' \in [Works -> {"none", "running", "ended", "killed"}]
        /\ \A v \in Works : work'[v] = work[v] \/ work'[v] = "ended"
    BY <1>0, <2>1
  <2> QED BY <1>0, <2>1, <2>2, WorkStep DEF Works
<1>17. ASSUME NEW r \in Runners, RunnerCloses(r) PROVE LifecycleInv'
  BY <1>0, <1>17, RunnerStep DEF RunnerCloses
<1>18. CASE LifecycleTick
  <2>1. \A most \in Nat : \A timer \in {NotStarted} \cup 0..most :
          /\ Less(timer) \in {NotStarted} \cup 0..most
          /\ timer = 0 => Less(timer) = 0
    BY DEF Less
  <2>2. /\ drainLeft' \in {NotStarted} \cup 0..ServerTimeout
        /\ workerLeft' \in {NotStarted} \cup 0..WorkerTimeout
        /\ drainLeft = 0 => drainLeft' = 0
        /\ workerLeft = 0 => workerLeft' = 0
    BY <1>0, <1>18, <2>1, LifecycleAssumption DEF LifecycleTick
  <2> QED BY <1>0, <1>18, <2>2, WorkStep DEF LifecycleTick
<1>19. CASE UNCHANGED lifecycleVars
  BY <1>0, <1>19, WorkStep DEF lifecycleVars
<1> QED
  BY <1>1, <1>2, <1>3, <1>4, <1>5, <1>6, <1>7, <1>9, <1>10, <1>11, <1>12, <1>13, <1>14,
     <1>15, <1>16, <1>17, <1>18, <1>19
     DEF LifecycleNext, RunStep, ShutdownStep

\* However far the start had come, whatever runs and whatever the timeouts are.
THEOREM ClosedLate == LifecycleSpec => [](LifecycleTypeOK /\ ClosedUnderWorkOnlyLate)
<1>1. LifecycleSpec => []LifecycleInv
  BY LifecycleInit_Inv, LifecycleStep, PTL DEF LifecycleSpec
<1>2. LifecycleInv => ClosedUnderWorkOnlyLate
  <2> SUFFICES ASSUME LifecycleInv, released # {} PROVE
        /\ httpServer \in {"new", "closed"} /\ runner["worker"] # "active"
        /\ \A w \in Works : work[w] = "running" =>
              \/ drainLeft = 0
              \/ w \in QueuedTasks /\ runner["worker"] = "closed" /\ workerLeft = 0
    BY DEF ClosedUnderWorkOnlyLate
  <2>1. drained = ToDrain /\ draining = ToDrain
    BY DEF LifecycleInv, LifecycleTypeOK, PhasesInOrder
  <2>2. httpServer = "closed" /\ "http" \in drained
    BY <2>1 DEF LifecycleInv, TakesNothingIn, ToDrain
  <2>3. CASE "worker" \in started
    <3>1. runner["worker"] \in {"closing", "closed"} /\ "worker" \in drained
      BY <2>1, <2>3 DEF LifecycleInv, TakesNothingIn, ToDrain, Runners
    <3>2. drainLeft = 0 \/ (/\ runner["worker"] = "closed"
                            /\ \A q \in HttpRequests : work[q] # "running")
      BY <2>2, <3>1 DEF LifecycleInv, DrainedForAReason, Empty
    <3> QED BY <2>2, <3>1, <3>2 DEF LifecycleInv, TasksKnown, Works
  <2>4. CASE "worker" \notin started
    <3>1. runner["worker"] = "new"
      BY <2>4 DEF LifecycleInv, StartedKnown, Runners
    <3>2. drainLeft = 0 \/ \A q \in HttpRequests : work[q] # "running"
      BY <2>2 DEF LifecycleInv, DrainedForAReason, Empty
    <3> QED BY <2>2, <3>1, <3>2 DEF LifecycleInv, TasksKnown, Works
  <2> QED BY <2>3, <2>4
<1>3. LifecycleInv => LifecycleTypeOK
  BY DEF LifecycleInv
<1> QED BY <1>1, <1>2, <1>3, PTL
-----------------------------------------------------------------------------
(* The delays between retries *)

\* What the last delay was, for the factor it was computed with.
DelayKnown ==
    delay # NoDelay =>
        /\ retry.strategy = "fixed" => delay = retry.interval
        /\ retry.strategy # "fixed" /\ retry.maxInterval > 0 => delay <= retry.maxInterval
        /\ retry.strategy = "linear" /\ retried * retry.interval < HalfRange
              => delay <= retried * retry.interval
        /\ retry.strategy = "exponential" /\ power * retry.interval < 2 * HalfRange
              => 2 * delay <= power * retry.interval

RetryInv == RetryTypeOK /\ DelayKnown

\* A configuration, field by field.
LEMMA ConfigFacts ==
    ASSUME RetryTypeOK
    PROVE  /\ retry.strategy \in Strategies
           /\ retry.interval \in 1..HalfRange - 1 /\ retry.maxInterval \in 0..HalfRange - 1
BY RetryAssumption DEF RetryTypeOK, RetryConfigs

\* A product stays in range, and is itself if it was there.
LEMMA WrappedFacts ==
    ASSUME NEW d \in Int
    PROVE  /\ Wrapped(d) \in Durations
           /\ d \in Nat /\ d < HalfRange => Wrapped(d) = d
<1>1. HalfRange \in Nat \ {0}
  BY RetryAssumption
<1>2. (d + HalfRange) % (2 * HalfRange) \in 0..2 * HalfRange - 1
  BY <1>1
<1>3. d \in Nat /\ d < HalfRange => (d + HalfRange) % (2 * HalfRange) = d + HalfRange
  BY <1>1
<1> QED
  BY <1>1, <1>2, <1>3 DEF Wrapped, Durations

\* The cap lowers a delay and nothing else.
LEMMA CapFacts ==
    ASSUME RetryTypeOK, NEW d \in Durations
    PROVE  /\ capRetryDelay(d) \in Durations /\ capRetryDelay(d) <= d
           /\ retry.maxInterval > 0 => capRetryDelay(d) <= retry.maxInterval
           /\ capRetryDelay(d) \in {d, retry.maxInterval}
           /\ capRetryDelay(d) = d \/ retry.maxInterval > 0
BY ConfigFacts, RetryAssumption DEF capRetryDelay, Durations

\* A failure keeps the invariant and backs off.
LEMMA FailureBacksOff ==
    ASSUME RetryInv, TaskFails
    PROVE  /\ RetryInv'
           /\ retry.strategy # "fixed" /\ retry.maxInterval > 0 => delay' <= retry.maxInterval
           /\ \/ OutOfRange
              \/ /\ delay' >= retry.interval \/ delay' = retry.maxInterval
                 /\ delay # NoDelay => delay' >= delay
<1> DEFINE i == retry.interval
           m == retry.maxInterval
<1>1. /\ retry.strategy \in Strategies /\ i \in Nat \ {0} /\ m \in Nat /\ i < HalfRange
      /\ m < HalfRange /\ HalfRange \in Nat /\ retried \in Nat /\ power \in Nat \ {0}
      /\ retried < MaxRetries /\ MaxRetries \in Nat
      /\ retry' = retry /\ retried' = retried + 1 /\ power' = 2 * power /\ delay' \in RetryDelay
      /\ delay # NoDelay => delay \in Int
      /\ RetryTypeOK /\ DelayKnown
  BY ConfigFacts, RetryAssumption DEF RetryInv, RetryTypeOK, TaskFails, Durations
<1>2. RetryTypeOK' /\ DelayKnown' => RetryInv'
  BY DEF RetryInv
<1>3. ASSUME delay' \in Durations PROVE RetryTypeOK'
  BY <1>1, <1>3 DEF RetryTypeOK
<1>4. \A d \in Durations : d \in Int /\ d # NoDelay
  BY RetryAssumption DEF Durations
<1>5. CASE retry.strategy = "fixed"
  <2>1. delay' = i /\ i \in Durations
    BY <1>1, <1>5 DEF RetryDelay, Durations
  <2>2. DelayKnown'
    BY <1>1, <1>5, <2>1 DEF DelayKnown
  <2> QED
    BY <1>1, <1>2, <1>3, <1>5, <2>1, <2>2 DEF DelayKnown
<1>6. CASE retry.strategy = "linear"
  <2> DEFINE f == (retried + 1) * i
             d == Wrapped(f)
  <2>1. f \in Nat /\ f >= i /\ f = retried * i + i /\ retried * i \in Nat
    BY <1>1
  <2>2. /\ delay' = capRetryDelay(d) /\ d \in Durations /\ (f < HalfRange => d = f)
    BY <1>1, <1>6, <2>1, WrappedFacts DEF RetryDelay, LinearFactor
  <2>3. /\ delay' \in Durations /\ delay' <= d /\ (m > 0 => delay' <= m)
        /\ delay' = d \/ (delay' = m /\ m > 0)
    BY <1>1, <2>2, CapFacts
  <2>4. OutOfRange <=> f >= HalfRange
    BY <1>6 DEF OutOfRange
  <2> HIDE DEF f, d
  <2>5. d \in Int /\ delay' \in Int
    BY <1>4, <2>2, <2>3
  <2>6. DelayKnown'
    <3>1. retried' * retry.interval' = f
      BY <1>1 DEF f
    <3> QED
      BY <1>1, <1>6, <2>2, <2>3, <2>5, <3>1 DEF DelayKnown
  <2>7. ASSUME f < HalfRange, delay # NoDelay PROVE delay' >= delay
    <3>1. delay <= retried * i /\ (m > 0 => delay <= m)
      BY <1>1, <1>6, <2>1, <2>7 DEF DelayKnown
    <3> QED
      BY <1>1, <2>1, <2>2, <2>3, <2>5, <2>7, <3>1
  <2> QED
    BY <1>1, <1>2, <1>3, <1>6, <2>1, <2>2, <2>3, <2>4, <2>5, <2>6, <2>7
<1>7. CASE retry.strategy = "exponential"
  <2>1. PICK c \in Converted(power) : delay' = capRetryDelay(Wrapped(c * i))
    BY <1>1, <1>7 DEF RetryDelay
  <2> DEFINE f == power * i
             d == Wrapped(c * i)
  <2>2. c \in Int /\ f \in Nat /\ f >= i /\ f >= power
    BY <1>1 DEF Converted
  <2>3. d \in Durations /\ (f < HalfRange => d = f)
    <3>1. f < HalfRange => c = power
      BY <1>1, <2>2 DEF Converted
    <3> QED
      BY <1>1, <2>2, <3>1, WrappedFacts
  <2>4. /\ delay' \in Durations /\ delay' <= d /\ (m > 0 => delay' <= m)
        /\ delay' = d \/ (delay' = m /\ m > 0)
    BY <1>1, <2>1, <2>3, CapFacts
  <2>5. OutOfRange <=> f >= HalfRange
    BY <1>7 DEF OutOfRange
  <2> HIDE DEF f, d
  <2>6. d \in Int /\ delay' \in Int
    BY <1>4, <2>3, <2>4
  <2>7. DelayKnown'
    <3>1. power' * retry.interval' = 2 * f
      BY <1>1 DEF f
    <3> QED
      BY <1>1, <1>7, <2>2, <2>3, <2>4, <2>6, <3>1 DEF DelayKnown
  <2>8. ASSUME f < HalfRange, delay # NoDelay PROVE delay' >= delay
    <3>1. 2 * delay <= f /\ (m > 0 => delay <= m)
      BY <1>1, <1>7, <2>2, <2>8 DEF DelayKnown, f
    <3> QED
      BY <1>1, <2>2, <2>3, <2>4, <2>6, <2>8, <3>1
  <2> QED
    BY <1>1, <1>2, <1>3, <1>7, <2>2, <2>3, <2>4, <2>5, <2>6, <2>7, <2>8
<1> QED
  BY <1>1, <1>5, <1>6, <1>7 DEF Strategies

\* The types and the last delay are known throughout.
LEMMA RetryInvariance == RetrySpec => []RetryInv
<1>1. RetryInit => RetryInv
  BY RetryAssumption DEF RetryInit, RetryInv, RetryTypeOK, DelayKnown
<1>2. RetryInv /\ [RetryNext]_retryVars => RetryInv'
  <2> SUFFICES ASSUME RetryInv, [RetryNext]_retryVars PROVE RetryInv'
    OBVIOUS
  <2>1. CASE TaskFails
    BY <2>1, FailureBacksOff
  <2>2. CASE TaskEnds
    BY <2>2, RetryAssumption DEF TaskEnds, NewTask, RetryInv, RetryTypeOK, DelayKnown
  <2>3. CASE UNCHANGED retryVars
    BY <2>3 DEF retryVars, RetryInv, RetryTypeOK, DelayKnown
  <2> QED
    BY <2>1, <2>2, <2>3 DEF RetryNext
<1> QED
  BY <1>1, <1>2, PTL DEF RetrySpec

\* For every width, configuration and number of retries the delays do not shrink
\* and are no less than the first interval or the cap, unless the product of factor
\* and interval leaves the range of a duration; and, except under the fixed
\* strategy, which the code does not cap, they keep to the cap even then.
THEOREM RetriesKeepBackingOff == RetrySpec => []RetryTypeOK /\ RetriesBackOff
<1> DEFINE BackOff == TaskFails =>
             /\ retry.strategy # "fixed" /\ retry.maxInterval > 0 => delay' <= retry.maxInterval
             /\ \/ OutOfRange
                \/ /\ delay' >= retry.interval \/ delay' = retry.maxInterval
                   /\ delay # NoDelay => delay' >= delay
<1>1. RetryInv => BackOff
  BY FailureBacksOff
<1>2. RetryInv => [BackOff]_retryVars
  BY <1>1
<1>3. RetryInv => RetryTypeOK
  BY DEF RetryInv
<1> QED
  BY <1>2, <1>3, RetryInvariance, PTL DEF RetriesBackOff
-----------------------------------------------------------------------------
(* The composition *)

\* Every behaviour of the components side by side is one of each of them.  That is
\* how PlatformNext is made, and says nothing of the code: its guards bound a
\* component, and a component that rests stutters.  It lets the theorems on the
\* components be cited for the specification that TLC runs.
LEMMA ComponentsKeepTheirSpecs ==
    PlatformSpec => /\ StorageSpec /\ CloudSpec /\ ProfilesSpec
                    /\ LifecycleSpec /\ SharedLoadSpec /\ AuthorizationSpec
                    /\ RetrySpec
<1>1. PlatformInit => /\ StorageInit /\ CloudInit /\ ProfilesInit
                      /\ LifecycleInit /\ SharedLoadInit /\ AuthorizationInit
                      /\ RetryInit
  BY DEF PlatformInit
<1>2. [PlatformNext]_platformVars => [StorageNext]_storageVars
  BY DEF PlatformNext, platformVars
<1>3. [PlatformNext]_platformVars => [CloudNext]_cloudVars
  BY DEF PlatformNext, platformVars
<1>4. [PlatformNext]_platformVars => [ProfilesNext]_profileVars
  BY DEF PlatformNext, platformVars
<1>5. [PlatformNext]_platformVars => [LifecycleNext]_lifecycleVars
  BY DEF PlatformNext, platformVars
<1>6. [PlatformNext]_platformVars => [SharedLoadNext]_loadVars
  BY DEF PlatformNext, platformVars
<1>7. [PlatformNext]_platformVars => [AuthorizationNext]_authzVars
  BY DEF PlatformNext, platformVars
<1>8. [PlatformNext]_platformVars => [RetryNext]_retryVars
  BY DEF PlatformNext, platformVars
<1> QED
  BY <1>1, <1>2, <1>3, <1>4, <1>5, <1>6, <1>7, <1>8, PTL
     DEF PlatformSpec, StorageSpec, CloudSpec, ProfilesSpec, LifecycleSpec, SharedLoadSpec,
         AuthorizationSpec, RetrySpec

\* So the variables of all of them have their types in it.
THEOREM PlatformTypesHold == PlatformSpec => []PlatformTypes
BY ComponentsKeepTheirSpecs, LocalTypesHold, AcknowledgedStays, ProfilesTypesHold, ClosedLate,
   FilledOnce, AuthorizationTypesHold, RetriesKeepBackingOff, PTL DEF PlatformTypes

\* And what is proved of each component holds in the composition, with all the
\* bounds it puts on them.
THEOREM ComponentsKeepTheirPromises ==
    PlatformSpec => /\ [](/\ AcknowledgedObjectKept /\ TransfersAreFaithful
                          /\ CloudObjectKept /\ StaleProfileHasCause /\ ProfileAgeBounded
                          /\ OneFillPerRemoval /\ ClosedUnderWorkOnlyLate
                          /\ AdmittedOnGround)
                    /\ RolesLostHaveCause /\ RetriesBackOff
BY ComponentsKeepTheirSpecs, LocalObjectsStay, TransfersFaithful, AcknowledgedStays,
   StaleProfilesHaveCause, ProfilesGrowOld, FilledOnce, ClosedLate, NoneAdmittedGroundless,
   RolesAreNotLost, RetriesKeepBackingOff, PTL
=============================================================================

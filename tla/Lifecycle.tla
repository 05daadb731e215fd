------------------------------ MODULE Lifecycle -----------------------------
(***************************************************************************)
(* The life of the process: Application.Run starts what the configuration  *)
(* asks for, serves until its context is cancelled or the listener fails,  *)
(* and Application.Shutdown stops the worker from pulling, drains the HTTP *)
(* server, the scheduler and the worker side by side, each until it is     *)
(* empty or the deadline is over, and closes the resources in their order. *)
(*                                                                         *)
(* The worker and the scheduler each have a goroutine of their own that    *)
(* shuts them down, without a deadline, as soon as the context is          *)
(* cancelled; sync.Once makes it one shutdown.  Inside, asynq (external)   *)
(* waits for the running tasks for its own timeout and then gives them     *)
(* back to the queue while their handlers run on.                          *)
(*                                                                         *)
(* A timer holds what is left of a timeout.  NotYetStarted, OneFlag and    *)
(* DrainedWhenEmpty are slips the code could have made, each right before  *)
(* the definition it distorts.                                             *)
(***************************************************************************)
EXTENDS Naturals, FiniteSets

CONSTANTS HttpRequests, QueuedTasks,  \* the work that may come in
          ServerTimeout, WorkerTimeout,
          NotStarted

\* boot.Config Validate orders the two.
ASSUME LifecycleAssumption ==
    /\ ServerTimeout \in Nat \ {0} /\ WorkerTimeout \in Nat
    /\ WorkerTimeout <= ServerTimeout
    /\ NotStarted \notin Nat
    /\ HttpRequests \cap QueuedTasks = {}

VARIABLES
    runAt,       \* where Run is
    cancelled,   \* whether its context is
    configured,  \* the runners the configuration asks for
    started,     \* workerStarted and schedulerStarted
    runner,      \* the asynq server and periodic task manager
    httpServer,
    work,        \* the requests and tasks
    drainLeft,   \* the deadline of Shutdown
    workerLeft,  \* asynq's own
    draining, drained, \* the drains that have begun, and the ones that are over
    released     \* the resources closed

lifecycleVars == <<runAt, cancelled, configured, started, runner, httpServer, work,
                   drainLeft, workerLeft, draining, drained, released>>

Runners   == {"worker", "scheduler"}
Resources == {"access control", "database", "publisher", "redis", "logger"}
Works     == HttpRequests \cup QueuedTasks

RunSteps == {"access", "worker", "scheduler", "serve", "stop pulling", "drain",
             "close", "exited"}

LifecycleInit ==
    /\ runAt = "access"
    /\ cancelled = FALSE
    /\ configured \in SUBSET Runners
    /\ started = {}
    /\ runner = [r \in Runners |-> "new"]
    /\ httpServer = "new"
    /\ work = [w \in Works |-> "none"]
    /\ drainLeft = NotStarted
    /\ workerLeft = NotStarted
    /\ draining = {} /\ drained = {}
    /\ released = {}

ServedWork == <<httpServer, work>>
Draining   == <<draining, drained, released>>

-----------------------------------------------------------------------------
(* Run *)

\* shutdownWithTimeout.
ShutsDown == runAt' = "stop pulling" /\ drainLeft' = ServerTimeout
GoesOn(at) == runAt' = at /\ UNCHANGED drainLeft

StartAccessControl ==
    /\ runAt = "access"
    /\ GoesOn("worker") \/ ShutsDown
    /\ UNCHANGED <<cancelled, configured, started, runner, ServedWork, workerLeft,
                   Draining>>

\* The flag of a runner is set as soon as it has started: when the scheduler
\* fails to start, the worker is there to be drained.
NotYetStarted(r) == IF r = "scheduler" THEN configured ELSE started
OneFlag(r) == started \cup Runners
WithStarted(r) == started \cup {r}

StartRunner(r) ==
    /\ runAt = r
    /\ LET next == IF r = "worker" THEN "scheduler" ELSE "serve"
       IN  IF r \notin configured
           THEN GoesOn(next) /\ UNCHANGED <<started, runner>>
           ELSE \/ /\ GoesOn(next)
                   /\ started' = WithStarted(r)
                   /\ runner' = [runner EXCEPT ![r] = "active"]
                \/ ShutsDown /\ UNCHANGED <<started, runner>>
    /\ httpServer' = IF runAt' = "serve" THEN "launched" ELSE httpServer
    /\ UNCHANGED <<cancelled, configured, work, workerLeft, Draining>>

\* The goroutine of ListenAndServe, which may come to it when the shutdown has
\* begun; http.Server refuses to listen only after its own Shutdown.
Listen ==
    /\ httpServer = "launched"
    /\ httpServer' = "listening"
    /\ UNCHANGED <<runAt, cancelled, configured, started, runner, work, drainLeft,
                   workerLeft, Draining>>

ListenFails ==
    /\ httpServer \in {"launched", "listening"}
    /\ httpServer' = "closed"
    /\ IF runAt = "serve" THEN ShutsDown ELSE UNCHANGED <<runAt, drainLeft>>
    /\ UNCHANGED <<cancelled, configured, started, runner, work, workerLeft, Draining>>

Cancel ==
    /\ ~cancelled
    /\ cancelled' = TRUE
    /\ UNCHANGED <<runAt, configured, started, runner, ServedWork, drainLeft,
                   workerLeft, Draining>>

CancelStops ==
    /\ runAt = "serve" /\ cancelled
    /\ ShutsDown
    /\ UNCHANGED <<cancelled, configured, started, runner, ServedWork, workerLeft,
                   Draining>>

-----------------------------------------------------------------------------
(* Shutdown *)

\* Worker.Stop.
StopPulling ==
    /\ runAt = "stop pulling"
    /\ GoesOn("drain")
    /\ runner' = IF "worker" \in started /\ runner["worker"] = "active"
                 THEN [runner EXCEPT !["worker"] = "stopped"] ELSE runner
    /\ UNCHANGED <<cancelled, configured, started, ServedWork, workerLeft, Draining>>

\* once.Do: the first to shut a runner down starts it, and asynq's clock.
ShutRunner(r) ==
    IF runner[r] \in {"active", "stopped"}
    THEN /\ runner' = [runner EXCEPT ![r] = "closing"]
         /\ workerLeft' = IF r = "worker" THEN WorkerTimeout ELSE workerLeft
    ELSE UNCHANGED <<runner, workerLeft>>

WatchRunner(r) ==
    /\ cancelled /\ r \in started
    /\ runner[r] \in {"active", "stopped"}
    /\ ShutRunner(r)
    /\ UNCHANGED <<runAt, cancelled, configured, started, ServedWork, drainLeft,
                   Draining>>

ToDrain == {"http"} \cup started

\* Server.Shutdown closes the listeners first, whatever its context.
BeginDrain(c) ==
    /\ runAt = "drain" /\ c \in ToDrain \ draining
    /\ draining' = draining \cup {c}
    /\ IF c = "http" THEN httpServer' = "closed" /\ UNCHANGED <<runner, workerLeft>>
                     ELSE ShutRunner(c) /\ UNCHANGED httpServer
    /\ UNCHANGED <<runAt, cancelled, configured, started, work, drainLeft, drained,
                   released>>

Empty(c) == IF c = "http" THEN \A q \in HttpRequests : work[q] # "running"
                          ELSE runner[c] = "closed"

DrainedWhenEmpty(c) == Empty(c)
DrainedOrLate(c) == Empty(c) \/ drainLeft = 0

EndDrain(c) ==
    /\ c \in draining \ drained
    /\ DrainedOrLate(c)
    /\ drained' = drained \cup {c}
    /\ UNCHANGED <<runAt, cancelled, configured, started, runner, ServedWork,
                   drainLeft, workerLeft, draining, released>>

AllDrained ==
    /\ runAt = "drain" /\ drained = ToDrain
    /\ GoesOn("close")
    /\ UNCHANGED <<cancelled, configured, started, runner, ServedWork, workerLeft,
                   Draining>>

\* A resource that fails to close does not keep the next from being closed.
CloseOrder == <<"access control", "database", "publisher", "redis", "logger">>
CloseResource ==
    /\ runAt = "close"
    /\ \E i \in 1..5 : /\ i = Cardinality(released) + 1
                       /\ released' = released \cup {CloseOrder[i]}
    /\ IF released' = Resources THEN GoesOn("exited") ELSE UNCHANGED <<runAt, drainLeft>>
    /\ UNCHANGED <<cancelled, configured, started, runner, ServedWork, workerLeft,
                   draining, drained>>

\* main returns, and nothing runs on.
Exit ==
    /\ runAt = "exited"
    /\ \E w \in Works : work[w] = "running"
    /\ work' = [w \in Works |-> IF work[w] = "running" THEN "killed" ELSE work[w]]
    /\ UNCHANGED <<runAt, cancelled, configured, started, runner, httpServer,
                   drainLeft, workerLeft, Draining>>

-----------------------------------------------------------------------------
(* The work, asynq, and time *)

Arrive(w) ==
    /\ work[w] = "none"
    /\ IF w \in HttpRequests THEN httpServer = "listening" ELSE runner["worker"] = "active"
    /\ work' = [work EXCEPT ![w] = "running"]
    /\ UNCHANGED <<runAt, cancelled, configured, started, runner, httpServer,
                   drainLeft, workerLeft, Draining>>

\* A handler may also never end: no fairness is assumed of this.
WorkEnds(w) ==
    /\ work[w] = "running"
    /\ work' = [work EXCEPT ![w] = "ended"]
    /\ UNCHANGED <<runAt, cancelled, configured, started, runner, httpServer,
                   drainLeft, workerLeft, Draining>>

RunnerCloses(r) ==
    /\ runner[r] = "closing"
    /\ r = "worker" => \/ \A t \in QueuedTasks : work[t] # "running"
                       \/ workerLeft = 0
    /\ runner' = [runner EXCEPT ![r] = "closed"]
    /\ UNCHANGED <<runAt, cancelled, configured, started, ServedWork, drainLeft,
                   workerLeft, Draining>>

Less(timer) == IF timer \in {NotStarted, 0} THEN timer ELSE timer - 1
LifecycleTick ==
    /\ drainLeft' = Less(drainLeft) /\ workerLeft' = Less(workerLeft)
    /\ <<drainLeft, workerLeft>>' # <<drainLeft, workerLeft>>
    /\ UNCHANGED <<runAt, cancelled, configured, started, runner, ServedWork, Draining>>

RunStep ==
    \/ StartAccessControl \/ \E r \in Runners : StartRunner(r)
    \/ CancelStops \/ StopPulling \/ AllDrained \/ CloseResource
ShutdownStep(c) ==
    \/ BeginDrain(c) \/ EndDrain(c)
    \/ c \in Runners /\ RunnerCloses(c)

LifecycleNext ==
    \/ RunStep \/ Listen \/ ListenFails \/ Cancel \/ Exit
    \/ \E c \in {"http"} \cup Runners : ShutdownStep(c)
    \/ \E r \in Runners : WatchRunner(r)
    \/ \E w \in Works : Arrive(w) \/ WorkEnds(w)
    \/ LifecycleTick

\* Goroutines that can run are run, calls of Redis and the database return, and
\* time passes; handlers need not end.
LifecycleFairness ==
    /\ WF_lifecycleVars(RunStep)
    /\ \A c \in {"http"} \cup Runners : WF_lifecycleVars(ShutdownStep(c))
    /\ WF_lifecycleVars(LifecycleTick)

LifecycleSpec     == LifecycleInit /\ [][LifecycleNext]_lifecycleVars
LifecycleFairSpec == LifecycleSpec /\ LifecycleFairness

-----------------------------------------------------------------------------
LifecycleTypeOK ==
    /\ runAt \in RunSteps /\ cancelled \in BOOLEAN
    /\ started \subseteq configured /\ configured \subseteq Runners
    /\ runner \in [Runners -> {"new", "active", "stopped", "closing", "closed"}]
    /\ httpServer \in {"new", "launched", "listening", "closed"}
    /\ work \in [Works -> {"none", "running", "ended", "killed"}]
    /\ drainLeft \in {NotStarted} \cup 0..ServerTimeout
    /\ workerLeft \in {NotStarted} \cup 0..WorkerTimeout
    /\ drained \subseteq draining /\ draining \subseteq ToDrain
    /\ released \subseteq Resources

\* Resources are closed when no work can come in any more, and under work that
\* still runs only after a deadline: the one of Shutdown, or, for a task, the one
\* of asynq, which has given the task back by then.  That holds however far the
\* start had come when it failed.
ClosedUnderWorkOnlyLate ==
    released # {} =>
        /\ httpServer \in {"new", "closed"} /\ runner["worker"] # "active"
        /\ \A w \in Works : work[w] = "running" =>
              \/ drainLeft = 0
              \/ w \in QueuedTasks /\ runner["worker"] = "closed" /\ workerLeft = 0

\* Whoever is told to stop stops, with every resource closed, though handlers
\* never end and the listener or a start fails on the way.
CancelledRunEnds == cancelled ~> (runAt = "exited" /\ released = Resources)
=============================================================================

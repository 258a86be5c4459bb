------------------------- MODULE LambdaEnvironments -------------------------
(***************************************************************************)
(* The execution environments of one Lambda function version               *)
(* (services/lambda_/invocation): LambdaVersionManager.invoke and stop,    *)
(* AssignmentService, ExecutionEnvironment with its two timers, and the    *)
(* part of DockerRuntimeExecutor and ExecutorEndpoint that decides how     *)
(* startup and invocation end.  Containers are external; they report       *)
(* readiness or an error, may leave a post without a response, and answer  *)
(* each request they have read at most once.                               *)
(*                                                                         *)
(* A step is what a thread does between two points where another thread's  *)
(* doings matter: a section under status_lock or environments_lock, a wait *)
(* for a future, a call to the container engine.  The limits on on-demand  *)
(* concurrency are not part of this module: such a lease is always given.  *)
(***************************************************************************)
EXTENDS Integers, FiniteSets

CONSTANTS
    Invocations,    \* Invoke calls; the name is the request id
    NoInvocation,   \* no request id
    MaxEnvs,        \* bound: how many environments are ever created
    MaxProvisioned, \* bound: the largest ProvisionedConcurrentExecutions
    MaxPosts,       \* max_retry_on_connection_error and the first attempt
    Updates,        \* Put/DeleteProvisionedConcurrencyConfig calls
    SlowStart       \* the startup timer may pass before the container exists

ASSUME EnvironmentsAssumption ==
    /\ NoInvocation \notin Invocations
    /\ MaxEnvs \in Nat
    /\ MaxProvisioned \in Nat
    /\ MaxPosts \in Nat \ {0}
    /\ SlowStart \in BOOLEAN

Envs == 1..MaxEnvs
NoEnv == 0

VARIABLES
    created,       \* how many environments were created: 1..created
    kind,          \* initialization_type of each environment
    status,        \* ExecutionEnvironment.status
    registered,    \* AssignmentService.environments of this version
    armed,         \* environments whose keepalive_timer is pending
    fired,         \* environments with a keepalive thread that has started
    timingOut,     \* ... and has set TIMING_OUT, before it calls stop()
    startupTimer,  \* ExecutionEnvironment.startup_timer and its thread
    starter,       \* what the thread in ExecutionEnvironment.start does next
    stopper,       \* what the thread that got through stop() does next
    container,     \* the environment's container
    endpoint,      \* ExecutorRouter.endpoints
    startupFuture, \* ExecutorEndpoint.startup_future
    requests,      \* how often a container works on each request
    waiter,        \* whose future is ExecutorEndpoint.invocation_future
    answer,        \* the request an invocation's future got an answer to
    cancelled,     \* invocations whose future was cancelled
    pc,            \* what each LambdaVersionManager.invoke does next
    lease,         \* provisioning_type of its lease
    candidates,    \* its applicable_envs that are still to be tried
    env,           \* its execution_environment
    posts,         \* how often _perform_invoke has posted its request
    shutdown,      \* LambdaVersionManager.shutdown_event
    toStop,        \* environments_to_stop of stop_environments_for_version
    stopping,      \* the environment it waits for
    configured,    \* provisioned_concurrent_executions of the config, or 0
    provisioned,   \* LambdaVersionManager.provisioned_state.status
    upc,           \* what each provisioned concurrency update does next
    goal,          \* its target_provisioned_environments
    missing,       \* environments it has yet to create
    starts,        \* environments whose start() it has submitted
    stops,         \* environments it has submitted to stop_environment
    stopCalled     \* ... of which the pool has called stop()

environmentVars == <<created, kind, status, starter, stopper, startupTimer>>
keepaliveVars == <<armed, fired, timingOut>>
executorVars == <<container, endpoint, startupFuture, requests, waiter>>
futureVars == <<answer, cancelled>>
invocationVars == <<pc, lease, candidates, env, posts>>
versionVars == <<shutdown, toStop, stopping>>
updateVars == <<configured, provisioned, upc, goal, missing, starts, stops,
                stopCalled>>
vars == <<environmentVars, registered, keepaliveVars, executorVars, futureVars,
          invocationVars, versionVars, updateVars>>

Kinds == {"none", "on_demand", "provisioned"}
Statuses == {"INACTIVE", "STARTING", "READY", "INVOKING", "STARTUP_FAILED",
             "STARTUP_TIMED_OUT", "STOPPED", "TIMING_OUT"}
InvocationSteps == {"idle", "lease", "snapshot", "search", "starting",
                    "reserve", "invoke", "posting", "waiting",
                    "release", "failing", "stopping", "leave", "done"}

\* Invocation i has reserved environment e and not given it back.
Uses(i, e) ==
    /\ env[i] = e
    /\ pc[i] \in {"invoke", "posting", "waiting", "release", "failing"}

\* Invocation i has not reached ExecutorEndpoint.invoke.
NotSent(i) == pc[i] \in {"idle", "lease", "snapshot", "search", "starting",
                         "reserve", "invoke"}

-----------------------------------------------------------------------------
NoRequests == [i \in Invocations |-> 0]

Init ==
    /\ created = 0
    /\ kind = [e \in Envs |-> "none"]
    /\ status = [e \in Envs |-> "INACTIVE"]
    /\ registered = {} /\ armed = {} /\ fired = {} /\ timingOut = {}
    /\ startupTimer = [e \in Envs |-> "off"]
    /\ starter = [e \in Envs |-> "none"]
    /\ stopper = [e \in Envs |-> "none"]
    /\ container = [e \in Envs |-> "none"]
    /\ endpoint = {}
    /\ startupFuture = [e \in Envs |-> "pending"]
    /\ requests = [e \in Envs |-> NoRequests]
    /\ waiter = [e \in Envs |-> NoInvocation]
    /\ answer = [i \in Invocations |-> NoInvocation]
    /\ cancelled = {}
    /\ pc = [i \in Invocations |-> "idle"]
    /\ lease = [i \in Invocations |-> "none"]
    /\ candidates = [i \in Invocations |-> {}]
    /\ env = [i \in Invocations |-> NoEnv]
    /\ posts = [i \in Invocations |-> 0]
    /\ shutdown = FALSE /\ toStop = {} /\ stopping = NoEnv
    /\ configured = 0 /\ provisioned = "none"
    /\ upc = [u \in Updates |-> "idle"]
    /\ goal = [u \in Updates |-> 0]
    /\ missing = [u \in Updates |-> 0]
    /\ starts = [u \in Updates |-> {}]
    /\ stops = [u \in Updates |-> {}]
    /\ stopCalled = [u \in Updates |-> {}]

-----------------------------------------------------------------------------
(* DockerRuntimeExecutor.stop and ExecutorEndpoint.shutdown                *)

\* Mutant: a startup that is waited for is not cancelled.
NeverCancels(f) == FALSE

\* Future.cancel applies to a future that is not done.
Cancels(f) == f = "pending"

\* unregister_endpoint raises KeyError the second time; otherwise both
\* futures are cancelled, which does nothing to one that is done.
EndpointShutdown(e) ==
    /\ endpoint' = endpoint \ {e}
    /\ IF e \in endpoint
       THEN /\ startupFuture' = IF Cancels(startupFuture[e])
                                THEN [startupFuture EXCEPT ![e] = "cancelled"]
                                ELSE startupFuture
            /\ cancelled' = cancelled \cup
                   {i \in Invocations : i = waiter[e] /\ answer[i] = NoInvocation}
       ELSE UNCHANGED <<startupFuture, cancelled>>

\* The container is stopped and removed, then the endpoint is shut down; a
\* container that does not exist raises NoSuchContainer before that.
ExecutorStop(e) ==
    \/ /\ container[e] = "running"
       /\ container' = [container EXCEPT ![e] = "removed"]
       /\ requests' = [requests EXCEPT ![e] = NoRequests]
       /\ EndpointShutdown(e)
    \/ /\ container[e] # "running"
       /\ UNCHANGED <<container, requests, endpoint, startupFuture, cancelled>>

-----------------------------------------------------------------------------
(* ExecutionEnvironment.start: an invocation's thread or the provisioning  *)
(* pool                                                                    *)

\* start() has set STARTING, started the timer and registered the endpoint
\* for environment e, which was INACTIVE.
StartBegins(e) ==
    /\ status' = [status EXCEPT ![e] = "STARTING"]
    /\ startupTimer' = [startupTimer EXCEPT ![e] = "armed"]
    /\ starter' = [starter EXCEPT ![e] = "create"]
    /\ endpoint' = endpoint \cup {e}

\* A thread of the provisioning pool takes up a submitted start().
PoolStart(e) ==
    /\ starter[e] = "submitted"
    /\ StartBegins(e)
    /\ UNCHANGED <<created, kind, stopper, registered, keepaliveVars,
                   container, startupFuture, requests, waiter, futureVars,
                   invocationVars, versionVars, updateVars>>

\* _do_start up to the start of the container, or an exception in it, before
\* or after the container exists, after which the endpoint is shut down.
CreateContainer(e) ==
    /\ starter[e] = "create"
    /\ \/ /\ container' = [container EXCEPT ![e] = "running"]
          /\ starter' = [starter EXCEPT ![e] = "wait"]
          /\ UNCHANGED <<endpoint, startupFuture, cancelled>>
       \/ /\ starter' = [starter EXCEPT ![e] = "except"]
          /\ EndpointShutdown(e)
          /\ \/ UNCHANGED container
             \/ container' = [container EXCEPT ![e] = "running"]
    /\ UNCHANGED <<created, kind, status, stopper, startupTimer, registered,
                   keepaliveVars, requests, waiter, answer, invocationVars,
                   versionVars, updateVars>>

\* The container posts status/ready or status/error.
ContainerReports(e, outcome) ==
    /\ container[e] = "running" /\ e \in endpoint
    /\ startupFuture[e] = "pending"
    /\ startupFuture' = [startupFuture EXCEPT ![e] = outcome]
    /\ UNCHANGED <<environmentVars, registered, keepaliveVars, container,
                   endpoint, requests, waiter, futureVars, invocationVars,
                   versionVars, updateVars>>

\* wait_for_startup returns: READY, whatever the status has become.
StartReady(e) ==
    /\ starter[e] = "wait" /\ startupFuture[e] = "ready"
    /\ status' = [status EXCEPT ![e] = "READY"]
    /\ startupTimer' = [startupTimer EXCEPT ![e] = IF @ = "armed" THEN "off" ELSE @]
    /\ starter' = [starter EXCEPT ![e] = "ready"]
    /\ UNCHANGED <<created, kind, stopper, registered, keepaliveVars,
                   executorVars, futureVars, invocationVars, versionVars,
                   updateVars>>

\* wait_for_startup raises: the endpoint is shut down.
StartRaises(e) ==
    /\ starter[e] = "wait" /\ startupFuture[e] \in {"error", "cancelled"}
    /\ starter' = [starter EXCEPT ![e] = "except"]
    /\ EndpointShutdown(e)
    /\ UNCHANGED <<created, kind, status, stopper, startupTimer, registered,
                   keepaliveVars, container, requests, waiter, answer,
                   invocationVars, versionVars, updateVars>>

\* The handler in start(): errored() applies to STARTING only.
StartExcept(e) ==
    /\ starter[e] = "except"
    /\ status' = [status EXCEPT ![e] = IF @ = "STARTING" THEN "STARTUP_FAILED" ELSE @]
    /\ starter' = [starter EXCEPT ![e] =
                      IF status[e] = "STARTING" THEN "cleanup" ELSE "failed"]
    /\ startupTimer' = [startupTimer EXCEPT ![e] = IF @ = "armed" THEN "off" ELSE @]
    /\ UNCHANGED <<created, kind, stopper, registered, keepaliveVars,
                   executorVars, futureVars, invocationVars, versionVars,
                   updateVars>>

\* errored() stops the executor and swallows its exceptions.
StartCleanup(e) ==
    /\ starter[e] = "cleanup"
    /\ starter' = [starter EXCEPT ![e] = "failed"]
    /\ ExecutorStop(e)
    /\ UNCHANGED <<created, kind, status, stopper, startupTimer, registered,
                   keepaliveVars, waiter, answer, invocationVars, versionVars,
                   updateVars>>

\* timed_out: the startup timer passes while the environment is starting ...
StartupTimesOut(e) ==
    /\ startupTimer[e] = "armed" /\ status[e] = "STARTING"
    /\ SlowStart \/ starter[e] # "create"
    /\ status' = [status EXCEPT ![e] = "STARTUP_TIMED_OUT"]
    /\ startupTimer' = [startupTimer EXCEPT ![e] = "passed"]
    /\ UNCHANGED <<created, kind, starter, stopper, registered, keepaliveVars,
                   executorVars, futureVars, invocationVars, versionVars,
                   updateVars>>

\* ... and its thread stops the executor, whatever start() does meanwhile.
StartupTimeoutStops(e) ==
    /\ startupTimer[e] = "passed"
    /\ startupTimer' = [startupTimer EXCEPT ![e] = "off"]
    /\ ExecutorStop(e)
    /\ UNCHANGED <<created, kind, status, starter, stopper, registered,
                   keepaliveVars, waiter, answer, invocationVars, versionVars,
                   updateVars>>

-----------------------------------------------------------------------------
(* ExecutionEnvironment.stop, reserve and release                          *)

\* stop() passes its status check, or raises InvalidStatusException.
Stoppable(e) == status[e] \notin {"INACTIVE", "STOPPED"}

Stop(e) ==
    IF Stoppable(e)
    THEN /\ status' = [status EXCEPT ![e] = "STOPPED"]
         /\ stopper' = [stopper EXCEPT ![e] = "executor"]
         /\ armed' = armed \ {e}
    ELSE UNCHANGED <<status, stopper, armed>>

\* The rest of stop(): an exception of the executor ends stop_environment,
\* or the keepalive thread, before the environment is unregistered.
StopExecutor(e) ==
    /\ stopper[e] = "executor"
    /\ stopper' = [stopper EXCEPT ![e] =
                      IF container[e] = "running" THEN "unregister" ELSE "stopped"]
    /\ ExecutorStop(e)
    /\ UNCHANGED <<created, kind, status, starter, startupTimer, registered,
                   keepaliveVars, waiter, answer, invocationVars, versionVars,
                   updateVars>>

\* stop_environment and on_timeout pop the environment under the lock.
Unregister(e) ==
    /\ stopper[e] = "unregister"
    /\ stopper' = [stopper EXCEPT ![e] = "stopped"]
    /\ registered' = registered \ {e}
    /\ UNCHANGED <<created, kind, status, starter, startupTimer, keepaliveVars,
                   executorVars, futureVars, invocationVars, versionVars,
                   updateVars>>

\* Mutant: an environment in use can be reserved too.
ReservableInUse(e) == status[e] \in {"READY", "INVOKING"}

\* reserve() raises InvalidStatusException unless this holds.
Reservable(e) == status[e] = "READY"

Reserve(e) ==
    /\ status' = [status EXCEPT ![e] = "INVOKING"]
    /\ armed' = armed \ {e}

\* Mutant: no keepalive timer is started.
NeverKeptAlive(e) == FALSE

\* release() starts a keepalive timer for on-demand environments.
KeptAlive(e) == kind[e] = "on_demand"

\* release(), or InvalidStatusException without effect.
Release(e) ==
    IF status[e] = "INVOKING"
    THEN /\ status' = [status EXCEPT ![e] = "READY"]
         /\ armed' = IF KeptAlive(e) THEN armed \cup {e} ELSE armed
    ELSE UNCHANGED <<status, armed>>

-----------------------------------------------------------------------------
(* The keepalive timer                                                     *)

\* The timer's thread starts; from here cancel() comes too late.
KeepaliveFires(e) ==
    /\ e \in armed
    /\ armed' = armed \ {e}
    /\ fired' = fired \cup {e}
    /\ UNCHANGED <<environmentVars, registered, timingOut, executorVars,
                   futureVars, invocationVars, versionVars, updateVars>>

\* Mutant: any environment that is not stopped yet times out.
TimesOutUnlessStopped(e) == status[e] # "STOPPED"

\* "The new TIMING_OUT state prevents this race condition"
TimesOut(e) == status[e] = "READY"

\* keepalive_passed up to its call of stop(), or its early return.
KeepalivePassed(e) ==
    /\ e \in fired
    /\ fired' = fired \ {e}
    /\ IF TimesOut(e)
       THEN /\ status' = [status EXCEPT ![e] = "TIMING_OUT"]
            /\ timingOut' = timingOut \cup {e}
       ELSE UNCHANGED <<status, timingOut>>
    /\ UNCHANGED <<created, kind, starter, stopper, startupTimer, registered,
                   armed, executorVars, futureVars, invocationVars,
                   versionVars, updateVars>>

\* Its call of stop(), which another stop() may have forestalled.
KeepaliveStop(e) ==
    /\ e \in timingOut
    /\ timingOut' = timingOut \ {e}
    /\ Stop(e)
    /\ UNCHANGED <<created, kind, starter, startupTimer, registered, fired,
                   executorVars, futureVars, invocationVars, versionVars,
                   updateVars>>

-----------------------------------------------------------------------------
(* LambdaVersionManager.invoke                                             *)

\* Invocations with a provisioned concurrency lease.
Leased == {i \in Invocations : lease[i] = "provisioned"}

\* invoke refuses to work once shutdown_event is set.
Invoke(i) ==
    /\ pc[i] = "idle"
    /\ pc' = [pc EXCEPT ![i] = IF shutdown THEN "done" ELSE "lease"]
    /\ UNCHANGED <<environmentVars, registered, keepaliveVars, executorVars,
                   futureVars, lease, candidates, env, posts, versionVars, updateVars>>

\* get_invocation_lease: provisioned concurrency is preferred if it is READY
\* and not used up.  A config without a state yet is an AttributeError.
GetLease(i) ==
    /\ pc[i] = "lease"
    /\ IF configured > 0 /\ provisioned = "none"
       THEN /\ pc' = [pc EXCEPT ![i] = "leave"]
            /\ UNCHANGED lease
       ELSE /\ pc' = [pc EXCEPT ![i] = "snapshot"]
            /\ lease' = [lease EXCEPT ![i] =
                   IF provisioned = "READY" /\ configured > Cardinality(Leased)
                   THEN "provisioned" ELSE "on_demand"]
    /\ UNCHANGED <<environmentVars, registered, keepaliveVars, executorVars,
                   futureVars, candidates, env, posts, versionVars, updateVars>>

\* get_environment lists the environments of the lease's type.
Snapshot(i) ==
    /\ pc[i] = "snapshot"
    /\ candidates' = [candidates EXCEPT ![i] = {e \in registered : kind[e] = lease[i]}]
    /\ pc' = [pc EXCEPT ![i] = "search"]
    /\ UNCHANGED <<environmentVars, registered, keepaliveVars, executorVars,
                   futureVars, lease, env, posts, versionVars, updateVars>>

\* Mutant: the environment is reserved, but not kept.
NotAssigned(i, e) == env

\* execution_environment of invocation i becomes e.
Assigned(i, e) == [env EXCEPT ![i] = e]

\* It tries to reserve the next of them.
TryReserve(i, e) ==
    /\ pc[i] = "search" /\ e \in candidates[i]
    /\ IF Reservable(e)
       THEN /\ Reserve(e)
            /\ env' = Assigned(i, e)
            /\ candidates' = [candidates EXCEPT ![i] = {}]
            /\ pc' = [pc EXCEPT ![i] = "invoke"]
       ELSE /\ candidates' = [candidates EXCEPT ![i] = @ \ {e}]
            /\ UNCHANGED <<status, armed, env, pc>>
    /\ UNCHANGED <<created, kind, starter, stopper, startupTimer, registered,
                   fired, timingOut, executorVars, futureVars, lease, posts,
                   versionVars, updateVars>>

\* None was free: AssignmentException for a provisioned lease, else a new
\* environment, whose start() this thread executes.
StartEnvironment(i) ==
    LET e == created + 1
    IN /\ pc[i] = "search" /\ candidates[i] = {}
       /\ \/ /\ lease[i] = "provisioned"
             /\ pc' = [pc EXCEPT ![i] = "leave"]
             /\ UNCHANGED <<created, kind, status, startupTimer, starter,
                            endpoint, env>>
          \/ /\ lease[i] = "on_demand" /\ created < MaxEnvs
             /\ created' = e
             /\ kind' = [kind EXCEPT ![e] = "on_demand"]
             /\ StartBegins(e)
             /\ env' = Assigned(i, e)
             /\ pc' = [pc EXCEPT ![i] = "starting"]
       /\ UNCHANGED <<stopper, registered, keepaliveVars, container,
                      startupFuture, requests, waiter, futureVars, lease,
                      candidates, posts, versionVars, updateVars>>

\* start() has returned, and the new environment goes into the dict ...
Register(i) ==
    /\ pc[i] = "starting" /\ starter[env[i]] = "ready"
    /\ registered' = registered \cup {env[i]}
    /\ pc' = [pc EXCEPT ![i] = "reserve"]
    /\ UNCHANGED <<environmentVars, keepaliveVars, executorVars, futureVars,
                   lease, candidates, env, posts, versionVars, updateVars>>

\* ... or start() has raised, and so does invoke.
StartFailed(i) ==
    /\ pc[i] = "starting" /\ starter[env[i]] = "failed"
    /\ pc' = [pc EXCEPT ![i] = "leave"]
    /\ UNCHANGED <<environmentVars, registered, keepaliveVars, executorVars,
                   futureVars, lease, candidates, env, posts, versionVars, updateVars>>

\* Then reserve() is called without a handler for its exception.
ReserveNew(i) ==
    /\ pc[i] = "reserve"
    /\ IF Reservable(env[i])
       THEN /\ Reserve(env[i])
            /\ pc' = [pc EXCEPT ![i] = "invoke"]
       ELSE /\ pc' = [pc EXCEPT ![i] = "leave"]
            /\ UNCHANGED <<status, armed>>
    /\ UNCHANGED <<created, kind, starter, stopper, startupTimer, registered,
                   fired, timingOut, executorVars, futureVars, lease,
                   candidates, env, posts, versionVars, updateVars>>

\* ExecutionEnvironment.invoke and ExecutorEndpoint.invoke: a new future
\* replaces the endpoint's, and the request is posted.  If the environment
\* is not INVOKING any more, get_environment swallows the exception.
Send(i) ==
    LET e == env[i]
    IN /\ pc[i] = "invoke"
       /\ \/ /\ status[e] # "INVOKING"
             /\ pc' = [pc EXCEPT ![i] = "leave"]
             /\ UNCHANGED <<waiter, posts>>
          \/ /\ status[e] = "INVOKING"
             /\ waiter' = [waiter EXCEPT ![e] = i]
             /\ posts' = [posts EXCEPT ![i] = 1]
             /\ pc' = [pc EXCEPT ![i] = "posting"]
       /\ UNCHANGED <<environmentVars, registered, keepaliveVars, container,
                      endpoint, startupFuture, requests, futureVars, lease,
                      candidates, env, versionVars, updateVars>>

\* The container has read the request that i posts.
Read(i) == requests' = [requests EXCEPT ![env[i]][i] = @ + 1]

\* The post has no timeout: it returns when the container, which has read the
\* request, responds ...
PostReturns(i) ==
    /\ pc[i] = "posting" /\ container[env[i]] = "running"
    /\ Read(i)
    /\ pc' = [pc EXCEPT ![i] = "waiting"]
    /\ UNCHANGED <<environmentVars, registered, keepaliveVars, container,
                   endpoint, startupFuture, waiter, futureVars, lease,
                   candidates, env, posts, versionVars, updateVars>>

\* ... or it is refused, an InvokeSendError ...
PostRefused(i) ==
    /\ pc[i] = "posting" /\ container[env[i]] = "running"
    /\ Read(i) \/ UNCHANGED requests
    /\ pc' = [pc EXCEPT ![i] = "failing"]
    /\ UNCHANGED <<environmentVars, registered, keepaliveVars, container,
                   endpoint, startupFuture, waiter, futureVars, lease,
                   candidates, env, posts, versionVars, updateVars>>

\* ... or the connection breaks, whether the container has read the request or
\* not, and it is posted again, until the retries are used up.
PostBreaks(i) ==
    /\ pc[i] = "posting"
    /\ (container[env[i]] = "running" /\ Read(i)) \/ UNCHANGED requests
    /\ IF posts[i] < MaxPosts
       THEN /\ posts' = [posts EXCEPT ![i] = @ + 1]
            /\ UNCHANGED pc
       ELSE /\ pc' = [pc EXCEPT ![i] = "failing"]
            /\ UNCHANGED posts
    /\ UNCHANGED <<environmentVars, registered, keepaliveVars, container,
                   endpoint, startupFuture, waiter, futureVars, lease,
                   candidates, env, versionVars, updateVars>>

\* The container posts a response or an error to request j: it goes to the
\* endpoint's current future if that is not done, whoever waits for it; the
\* rest is logged as a duplicate.
Answer(e, j) ==
    /\ container[e] = "running" /\ requests[e][j] > 0
    /\ requests' = [requests EXCEPT ![e][j] = @ - 1]
    /\ answer' = [i \in Invocations |->
                     IF /\ e \in endpoint /\ i = waiter[e]
                        /\ answer[i] = NoInvocation /\ i \notin cancelled
                     THEN j ELSE answer[i]]
    /\ UNCHANGED <<environmentVars, registered, keepaliveVars, container,
                   endpoint, startupFuture, waiter, cancelled, invocationVars,
                   versionVars, updateVars>>

\* The future has a result ...
GetResult(i) ==
    /\ pc[i] = "waiting" /\ answer[i] # NoInvocation
    /\ pc' = [pc EXCEPT ![i] = "release"]
    /\ UNCHANGED <<environmentVars, registered, keepaliveVars, executorVars,
                   futureVars, lease, candidates, env, posts, versionVars, updateVars>>

\* ... or was cancelled, or the function's timeout and 5 seconds have passed.
InvokeRaises(i) ==
    /\ pc[i] = "waiting" /\ answer[i] = NoInvocation
    /\ pc' = [pc EXCEPT ![i] = "failing"]
    /\ UNCHANGED <<environmentVars, registered, keepaliveVars, executorVars,
                   futureVars, lease, candidates, env, posts, versionVars, updateVars>>

\* get_environment after a result: release(), its exception swallowed.
ReleaseAfterResult(i) ==
    /\ pc[i] = "release"
    /\ pc' = [pc EXCEPT ![i] = "leave"]
    /\ Release(env[i])
    /\ UNCHANGED <<created, kind, starter, stopper, startupTimer, registered,
                   fired, timingOut, executorVars, futureVars, lease,
                   candidates, env, posts, versionVars, updateVars>>

\* Mutant: every environment is returned to the pool after an exception.
AlwaysRestored(e) == status[e] = "INVOKING"

\* Mutant: any environment is stopped after an exception.
NeverRestored(e) == FALSE

\* "Try to restore to READY rather than stopping", if it is provisioned and
\* release() does not raise.
Restored(e) == kind[e] = "provisioned" /\ status[e] = "INVOKING"

\* get_environment after any other exception.
CleanUpAfterFailure(i) ==
    LET e == env[i]
    IN /\ pc[i] = "failing"
       /\ \/ /\ Restored(e)
             /\ Release(e)
             /\ pc' = [pc EXCEPT ![i] = "leave"]
             /\ UNCHANGED stopper
          \/ /\ ~Restored(e)
             /\ Stop(e)
             /\ pc' = [pc EXCEPT ![i] = IF Stoppable(e) THEN "stopping" ELSE "leave"]
       /\ UNCHANGED <<created, kind, starter, startupTimer, registered, fired,
                      timingOut, executorVars, futureVars, lease, candidates,
                      env, posts, versionVars, updateVars>>

\* Its stop_environment returns.
StopReturns(i) ==
    /\ pc[i] = "stopping" /\ stopper[env[i]] = "stopped"
    /\ pc' = [pc EXCEPT ![i] = "leave"]
    /\ UNCHANGED <<environmentVars, registered, keepaliveVars, executorVars,
                   futureVars, lease, candidates, env, posts, versionVars, updateVars>>

\* The lease is given back, however invoke ends.
Leave(i) ==
    /\ pc[i] = "leave"
    /\ pc' = [pc EXCEPT ![i] = "done"]
    /\ lease' = [lease EXCEPT ![i] = "none"]
    /\ UNCHANGED <<environmentVars, registered, keepaliveVars, executorVars,
                   futureVars, candidates, env, posts, versionVars, updateVars>>

-----------------------------------------------------------------------------
(* LambdaVersionManager.stop                                               *)

\* shutdown_event is set and the environments are listed.
StopVersion ==
    /\ ~shutdown
    /\ shutdown' = TRUE
    /\ toStop' = registered
    /\ UNCHANGED <<environmentVars, registered, keepaliveVars, executorVars,
                   futureVars, invocationVars, stopping, updateVars>>

\* stop_environment for one after the other.
StopNext(e) ==
    /\ e \in toStop
    /\ stopping # NoEnv => stopper[stopping] = "stopped"
    /\ toStop' = toStop \ {e}
    /\ Stop(e)
    /\ stopping' = IF Stoppable(e) THEN e ELSE NoEnv
    /\ UNCHANGED <<created, kind, starter, startupTimer, registered, fired,
                   timingOut, executorVars, futureVars, invocationVars,
                   shutdown, updateVars>>

-----------------------------------------------------------------------------
(* Put- and DeleteProvisionedConcurrencyConfig, and                        *)
(* LambdaVersionManager.update_provisioned_concurrency_config              *)

\* The provider stores or, for 0, removes the config ...
PutConfig(u, n) ==
    /\ upc[u] = "idle"
    /\ configured' = n
    /\ goal' = [goal EXCEPT ![u] = n]
    /\ upc' = [upc EXCEPT ![u] = "update"]
    /\ UNCHANGED <<environmentVars, registered, keepaliveVars, executorVars,
                   futureVars, invocationVars, versionVars, provisioned,
                   missing, starts, stops, stopCalled>>

\* ... and calls the version manager, which refuses during the first update.
UpdateProvisioned(u) ==
    /\ upc[u] = "update"
    /\ upc' = [upc EXCEPT ![u] =
                  IF provisioned = "IN_PROGRESS" THEN "done" ELSE "count"]
    /\ provisioned' = IF provisioned = "none" THEN "IN_PROGRESS" ELSE provisioned
    /\ UNCHANGED <<environmentVars, registered, keepaliveVars, executorVars,
                   futureVars, invocationVars, versionVars, configured, goal,
                   missing, starts, stops, stopCalled>>

\* scale_provisioned_concurrency counts the environments it has; the ones it
\* has too many go to stop_environment.
CountProvisioned(u) ==
    LET current == {e \in registered : kind[e] = "provisioned"}
        diff == goal[u] - Cardinality(current)
    IN /\ upc[u] = "count"
       /\ missing' = [missing EXCEPT ![u] = IF diff > 0 THEN diff ELSE 0]
       /\ \E S \in SUBSET current :
             /\ Cardinality(S) = IF diff < 0 THEN 0 - diff ELSE 0
             /\ stops' = [stops EXCEPT ![u] = S]
       /\ upc' = [upc EXCEPT ![u] = "scale"]
       /\ UNCHANGED <<environmentVars, registered, keepaliveVars, executorVars,
                      futureVars, invocationVars, versionVars, configured,
                      provisioned, goal, starts, stopCalled>>

\* The missing ones are registered and their start() submitted, one by one.
CreateProvisioned(u) ==
    LET e == created + 1
    IN /\ upc[u] = "scale" /\ missing[u] > 0 /\ created < MaxEnvs
       /\ created' = e
       /\ kind' = [kind EXCEPT ![e] = "provisioned"]
       /\ starter' = [starter EXCEPT ![e] = "submitted"]
       /\ registered' = registered \cup {e}
       /\ missing' = [missing EXCEPT ![u] = @ - 1]
       /\ starts' = [starts EXCEPT ![u] = @ \cup {e}]
       /\ UNCHANGED <<status, stopper, startupTimer, keepaliveVars,
                      executorVars, futureVars, invocationVars, versionVars,
                      configured, provisioned, upc, goal, stops, stopCalled>>

\* A thread of the provisioning pool calls stop_environment.
PoolStop(u, e) ==
    /\ e \in stops[u] \ stopCalled[u]
    /\ stopCalled' = [stopCalled EXCEPT ![u] = @ \cup {e}]
    /\ Stop(e)
    /\ UNCHANGED <<created, kind, starter, startupTimer, registered, fired,
                   timingOut, executorVars, futureVars, invocationVars,
                   versionVars, configured, provisioned, upc, goal, missing,
                   starts, stops>>

\* All tasks are done; stop_environment never fails.  A state that another
\* update has removed meanwhile is an AttributeError.
FinishUpdate(u) ==
    LET failed == {e \in starts[u] : starter[e] = "failed"}
        success == Cardinality(starts[u] \ failed) + Cardinality(stops[u])
    IN /\ upc[u] = "scale" /\ missing[u] = 0
       /\ \A e \in starts[u] : starter[e] \in {"ready", "failed"}
       /\ \A e \in stops[u] : /\ e \in stopCalled[u]
                           /\ stopper[e] \notin {"executor", "unregister"}
       /\ provisioned' = IF goal[u] = 0 \/ provisioned = "none" THEN "none"
                         ELSE IF failed # {} \/ success < goal[u]
                              THEN "FAILED" ELSE "READY"
       /\ upc' = [upc EXCEPT ![u] = "done"]
       /\ UNCHANGED <<environmentVars, registered, keepaliveVars, executorVars,
                      futureVars, invocationVars, versionVars, configured,
                      goal, missing, starts, stops, stopCalled>>

-----------------------------------------------------------------------------
Starter(e) ==
    \/ PoolStart(e)
    \/ CreateContainer(e)
    \/ StartReady(e)
    \/ StartRaises(e)
    \/ StartExcept(e)
    \/ StartCleanup(e)

Stopper(e) ==
    \/ StopExecutor(e)
    \/ Unregister(e)

StartupTimeout(e) ==
    \/ StartupTimesOut(e)
    \/ StartupTimeoutStops(e)

Keepalive(e) ==
    \/ KeepaliveFires(e)
    \/ KeepalivePassed(e)
    \/ KeepaliveStop(e)

\* A step of one of the threads that start, stop or time the environment.
EnvironmentThread(e) ==
    \/ Starter(e)
    \/ Stopper(e)
    \/ StartupTimeout(e)
    \/ Keepalive(e)

Invocation(i) ==
    \/ GetLease(i)
    \/ Snapshot(i)
    \/ \E e \in Envs : TryReserve(i, e)
    \/ StartEnvironment(i)
    \/ Register(i)
    \/ StartFailed(i)
    \/ ReserveNew(i)
    \/ Send(i)
    \/ GetResult(i)
    \/ InvokeRaises(i)
    \/ ReleaseAfterResult(i)
    \/ CleanUpAfterFailure(i)
    \/ StopReturns(i)
    \/ Leave(i)

Post(i) ==
    \/ PostReturns(i)
    \/ PostRefused(i)
    \/ PostBreaks(i)

Update(u) ==
    \/ UpdateProvisioned(u)
    \/ CountProvisioned(u)
    \/ CreateProvisioned(u)
    \/ \E e \in Envs : PoolStop(u, e)
    \/ FinishUpdate(u)

Next ==
    \/ \E e \in Envs :
          \/ EnvironmentThread(e)
          \/ StopNext(e)
    \/ \E e \in Envs, outcome \in {"ready", "error"} : ContainerReports(e, outcome)
    \/ \E e \in Envs, j \in Invocations : Answer(e, j)
    \/ \E i \in Invocations : Invoke(i) \/ Invocation(i) \/ Post(i)
    \/ StopVersion
    \/ \E u \in Updates, n \in 0..MaxProvisioned : PutConfig(u, n)
    \/ \E u \in Updates : Update(u)

Spec == Init /\ [][Next]_vars

\* Threads keep running and timers pass; containers need never respond to a
\* post or answer, and nobody need call Invoke, stop the version or provision
\* anything.  The connection to a container that was removed breaks.
Fairness ==
    /\ \A e \in Envs : WF_vars(EnvironmentThread(e))
    /\ \A i \in Invocations : WF_vars(Invocation(i))
    /\ \A i \in Invocations :
          WF_vars(PostBreaks(i) /\ container[env[i]] # "running")

FairSpec == Spec /\ Fairness

-----------------------------------------------------------------------------
(* Properties                                                              *)

EnvironmentsTyped ==
    /\ created \in 0..MaxEnvs
    /\ kind \in [Envs -> Kinds]
    /\ \A e \in Envs : kind[e] = "none" <=> e > created
    /\ status \in [Envs -> Statuses]
    /\ registered \subseteq Envs
    /\ armed \subseteq Envs /\ fired \subseteq Envs /\ timingOut \subseteq Envs
    /\ startupTimer \in [Envs -> {"off", "armed", "passed"}]
    /\ starter \in [Envs -> {"none", "submitted", "create", "wait", "except",
                             "cleanup", "ready", "failed"}]
    /\ stopper \in [Envs -> {"none", "executor", "unregister", "stopped"}]
    /\ shutdown \in BOOLEAN
    /\ toStop \subseteq Envs /\ stopping \in Envs \cup {NoEnv}

ExecutorsTyped ==
    /\ container \in [Envs -> {"none", "running", "removed"}]
    /\ endpoint \subseteq Envs
    /\ startupFuture \in [Envs -> {"pending", "ready", "error", "cancelled"}]
    /\ requests \in [Envs -> [Invocations -> 0..MaxPosts]]
    /\ waiter \in [Envs -> Invocations \cup {NoInvocation}]
    /\ answer \in [Invocations -> Invocations \cup {NoInvocation}]
    /\ cancelled \subseteq Invocations

InvocationsTyped ==
    /\ pc \in [Invocations -> InvocationSteps]
    /\ lease \in [Invocations -> Kinds]
    /\ candidates \in [Invocations -> SUBSET Envs]
    /\ env \in [Invocations -> Envs \cup {NoEnv}]
    /\ posts \in [Invocations -> 0..MaxPosts]
    /\ \A i \in Invocations :
          pc[i] \in {"starting", "reserve", "invoke", "posting", "waiting",
                     "release", "failing", "stopping"} => env[i] \in Envs

PostsTyped ==
    \A i \in Invocations :
        /\ NotSent(i) => posts[i] = 0
        /\ \A e \in Envs : requests[e][i] <= posts[i]
        /\ pc[i] = "posting" => requests[env[i]][i] < posts[i]

UpdatesTyped ==
    /\ configured \in 0..MaxProvisioned
    /\ provisioned \in {"none", "IN_PROGRESS", "READY", "FAILED"}
    /\ upc \in [Updates -> {"idle", "update", "count", "scale", "done"}]
    /\ goal \in [Updates -> 0..MaxProvisioned]
    /\ missing \in [Updates -> 0..MaxProvisioned]
    /\ starts \in [Updates -> SUBSET Envs]
    /\ stops \in [Updates -> SUBSET Envs]
    /\ stopCalled \in [Updates -> SUBSET Envs]

\* Every variable has its type; among it, an invocation that is past the
\* choice of an environment has one, and its request is read at most as often
\* as it was posted.
TypeOK ==
    /\ EnvironmentsTyped /\ ExecutorsTyped /\ InvocationsTyped /\ PostsTyped
    /\ UpdatesTyped

\* An environment works for one invocation at a time: reserve() and
\* release() keep it so although environments are found in a snapshot, are
\* stopped while in use, or set to READY by a start() that was given up.
ExclusiveUse ==
    \A i, j \in Invocations, e \in Envs : Uses(i, e) /\ Uses(j, e) => i = j

\* "The stop() method allows to interrupt invocations (on purpose), [...]
\* which we should not do when the keepalive timer passed": when the
\* keepalive thread is about to call stop(), nobody uses the environment and
\* nobody will.
KeepaliveNeverInterrupts ==
    \A e \in timingOut : \A i \in Invocations : ~Uses(i, e)

\* Environment e was sent a request again after a ConnectionError.
Repeated(e) == \E j \in Invocations : env[j] = e /\ posts[j] > 1

\* What an invocation returns is the answer to its own request, if it ran in
\* an on-demand environment to which every request was sent once: the endpoint
\* gives any answer to whoever waits, but an environment that owes an answer
\* is never used again, whatever became of the invocation.
OwnAnswer ==
    \A i \in Invocations :
        (pc[i] = "release" /\ kind[env[i]] = "on_demand") =>
            answer[i] = i \/ Repeated(env[i])

\* "Transient errors [...] should not permanently remove healthy provisioned
\* containers from the pool": a provisioned environment that has started
\* stays in service until a scale-down or the shutdown calls stop().
ProvisionedStaysInService ==
    \A e \in Envs :
        (/\ kind[e] = "provisioned" /\ starter[e] = "ready"
         /\ ~shutdown /\ \A u \in Updates : e \notin stops[u])
            => e \in registered /\ status[e] \in {"READY", "INVOKING"}

\* The start of environment e waits for a container that the startup timer,
\* which passed before the container existed, did not find.
Unwatched(e) ==
    /\ starter[e] = "wait" /\ container[e] = "running"
    /\ startupTimer[e] = "off" /\ status[e] = "STARTUP_TIMED_OUT"

\* Invocation i waits for a running container to respond to its post.
Hangs(i) == pc[i] = "posting" /\ container[env[i]] = "running"

\* Every Invoke call ends, whatever containers, timers and the shutdown of the
\* version do, unless for ever a container does not respond to its post or
\* report to a start that no timer watches any more.  ("Set a reference future
\* awaiting limit to ensure this process eventually ends",
\* executor_endpoint.py:218)
InvocationEnds ==
    \A i \in Invocations :
        \/ []<>(pc[i] \in {"idle", "done"})
        \/ <>[](Hangs(i) \/ (pc[i] = "starting" /\ Unwatched(env[i])))

\* No container of an on-demand environment is left behind: it is stopped by
\* its failing start, its failing invocation, the shutdown or its keepalive
\* timer, unless a post to it hangs or the startup timer passed before it
\* existed.
ContainersStop ==
    \A e \in Envs :
        \/ []<>(kind[e] = "on_demand" => container[e] # "running")
        \/ <>[](\E i \in Invocations : env[i] = e /\ Hangs(i))
        \/ <>[](status[e] = "STARTUP_TIMED_OUT")

\* "Blocks and potentially creates a new execution environment for this
\* invocation": no other invocation uses it before this one has.
NewEnvironmentIsOwn ==
    \A i, j \in Invocations : pc[i] = "reserve" => ~Uses(j, env[i])
=============================================================================

---------------------- MODULE LambdaEnvironmentsProofs ----------------------
(***************************************************************************)
(* Proofs about the execution environments of a function version, for any  *)
(* number of invocations, environments and provisioned concurrency         *)
(* updates, and however slow the startup of a container is.                *)
(***************************************************************************)
EXTENDS LambdaEnvironments, FiniteSetTheorems, TLAPS

USE EnvironmentsAssumption

-----------------------------------------------------------------------------
(* Type correctness                                                        *)

\* A version without environments is well typed.
LEMMA InitTypeOK == Init => TypeOK
<1> SUFFICES ASSUME Init PROVE TypeOK
  OBVIOUS
<1>1. EnvironmentsTyped
  <2>1. \A e \in Envs : e > 0
    BY DEF Envs
  <2>2. 0 \in 0..MaxEnvs
    OBVIOUS
  <2> QED BY <2>1, <2>2 DEF Init, EnvironmentsTyped, Kinds, Statuses
<1>2. ExecutorsTyped
  BY DEF Init, NoRequests, ExecutorsTyped
<1>3. InvocationsTyped
  BY DEF Init, InvocationsTyped, NoEnv, Kinds, InvocationSteps
<1>4. UpdatesTyped
  BY DEF Init, UpdatesTyped
<1>5. PostsTyped
  BY DEF Init, NoRequests, PostsTyped
<1> QED BY <1>1, <1>2, <1>3, <1>4, <1>5 DEF TypeOK

\* Stopping the executor can only take requests from the container.
LEMMA ExecutorStopRequests ==
    ASSUME NEW e \in Envs, ExecutorsTyped, ExecutorStop(e)
    PROVE  \A d \in Envs, j \in Invocations : requests'[d][j] <= requests[d][j]
<1>1. \A d \in Envs, j \in Invocations :
          requests[d][j] \in Nat /\ NoRequests[j] = 0
  BY DEF ExecutorsTyped, NoRequests
<1>2. requests' = requests \/ requests' = [requests EXCEPT ![e] = NoRequests]
  BY DEF ExecutorStop
<1> QED BY <1>1, <1>2 DEF ExecutorsTyped

\* Stopping the executor keeps the types.
LEMMA ExecutorStopTyped ==
    ASSUME NEW e \in Envs, ExecutorsTyped, ExecutorStop(e), UNCHANGED <<waiter, answer>>
    PROVE  ExecutorsTyped'
<1>1. NoRequests \in [Invocations -> 0..MaxPosts]
  BY DEF NoRequests
<1>2. requests' \in [Envs -> [Invocations -> 0..MaxPosts]]
  <2>1. requests' = requests \/ requests' = [requests EXCEPT ![e] = NoRequests]
    BY DEF ExecutorStop
  <2> QED BY <1>1, <2>1 DEF ExecutorsTyped
<1> QED BY <1>2 DEF ExecutorStop, EndpointShutdown, ExecutorsTyped

\* A request that is read adds to those the container works on.
LEMMA ReadRequests ==
    ASSUME NEW i \in Invocations, env[i] \in Envs, ExecutorsTyped,
           UNCHANGED requests \/ Read(i)
    PROVE  /\ \A d \in Envs, j \in Invocations :
                 \/ requests'[d][j] = requests[d][j]
                 \/ d = env[i] /\ j = i /\ requests'[d][j] = requests[d][j] + 1
           /\ requests[env[i]][i] + 1 <= MaxPosts =>
                 requests' \in [Envs -> [Invocations -> 0..MaxPosts]]
<1>1. CASE UNCHANGED requests
  BY <1>1 DEF ExecutorsTyped
<1>2. CASE Read(i)
  <2> DEFINE f == [requests[env[i]] EXCEPT ![i] = @ + 1]
  <2>1. requests' = [requests EXCEPT ![env[i]] = f]
    BY <1>2 DEF Read
  <2>2. requests[env[i]] \in [Invocations -> 0..MaxPosts]
    BY DEF ExecutorsTyped
  <2>3. \A j \in Invocations : f[j] = IF j = i THEN requests[env[i]][j] + 1
                                     ELSE requests[env[i]][j]
    BY <2>2
  <2>4. requests[env[i]][i] + 1 <= MaxPosts => f \in [Invocations -> 0..MaxPosts]
    BY <2>2
  <2> HIDE DEF f
  <2> QED BY <2>1, <2>3, <2>4 DEF ExecutorsTyped
<1> QED BY <1>1, <1>2

Typed == EnvironmentsTyped /\ ExecutorsTyped /\ InvocationsTyped /\ UpdatesTyped

\* Every step of a thread, a timer or a container keeps the types.
LEMMA StepTyped == TypeOK /\ [Next]_vars => Typed'
<1> SUFFICES ASSUME EnvironmentsTyped, ExecutorsTyped, InvocationsTyped,
                    PostsTyped, UpdatesTyped, [Next]_vars
             PROVE  Typed'
  BY DEF TypeOK
<1>1. ASSUME NEW e \in Envs, PoolStart(e)
      PROVE  Typed'
  <2>1. EnvironmentsTyped'
    BY <1>1
    DEF PoolStart, StartBegins, keepaliveVars, versionVars, EnvironmentsTyped,
        Statuses
  <2>2. ExecutorsTyped'
    BY <1>1 DEF PoolStart, StartBegins, futureVars, ExecutorsTyped
  <2> QED
    BY <1>1, <2>1, <2>2
    DEF PoolStart, invocationVars, updateVars, Typed, InvocationsTyped,
        UpdatesTyped
<1>2. ASSUME NEW e \in Envs, CreateContainer(e)
      PROVE  Typed'
  <2>1. EnvironmentsTyped'
    BY <1>2
    DEF CreateContainer, EndpointShutdown, keepaliveVars, versionVars,
        EnvironmentsTyped, Statuses
  <2>2. ExecutorsTyped'
    BY <1>2 DEF CreateContainer, EndpointShutdown, ExecutorsTyped
  <2> QED
    BY <1>2, <2>1, <2>2
    DEF CreateContainer, invocationVars, updateVars, Typed, InvocationsTyped,
        UpdatesTyped
<1>3. ASSUME NEW e \in Envs, StartReady(e)
      PROVE  Typed'
  <2>1. EnvironmentsTyped'
    BY <1>3
    DEF StartReady, keepaliveVars, versionVars, EnvironmentsTyped, Statuses
  <2> QED
    BY <1>3, <2>1
    DEF StartReady, executorVars, futureVars, invocationVars, updateVars,
        Typed, ExecutorsTyped, InvocationsTyped, UpdatesTyped
<1>4. ASSUME NEW e \in Envs, StartRaises(e)
      PROVE  Typed'
  <2>1. EnvironmentsTyped'
    BY <1>4
    DEF StartRaises, EndpointShutdown, keepaliveVars, versionVars,
        EnvironmentsTyped, Statuses
  <2>2. ExecutorsTyped'
    BY <1>4 DEF StartRaises, EndpointShutdown, ExecutorsTyped
  <2> QED
    BY <1>4, <2>1, <2>2
    DEF StartRaises, invocationVars, updateVars, Typed, InvocationsTyped,
        UpdatesTyped
<1>5. ASSUME NEW e \in Envs, StartExcept(e)
      PROVE  Typed'
  <2>1. EnvironmentsTyped'
    BY <1>5
    DEF StartExcept, keepaliveVars, versionVars, EnvironmentsTyped, Statuses
  <2> QED
    BY <1>5, <2>1
    DEF StartExcept, executorVars, futureVars, invocationVars, updateVars,
        Typed, ExecutorsTyped, InvocationsTyped, UpdatesTyped
<1>6. ASSUME NEW e \in Envs, StartCleanup(e)
      PROVE  Typed'
  <2>1. EnvironmentsTyped'
    BY <1>6
    DEF StartCleanup, ExecutorStop, EndpointShutdown, keepaliveVars,
        versionVars, EnvironmentsTyped, Statuses
  <2>2. ExecutorsTyped'
    BY <1>6, ExecutorStopTyped DEF StartCleanup
  <2> QED
    BY <1>6, <2>1, <2>2
    DEF StartCleanup, invocationVars, updateVars, Typed, InvocationsTyped,
        UpdatesTyped
<1>7. ASSUME NEW e \in Envs, StopExecutor(e)
      PROVE  Typed'
  <2>1. EnvironmentsTyped'
    BY <1>7
    DEF StopExecutor, ExecutorStop, EndpointShutdown, keepaliveVars,
        versionVars, EnvironmentsTyped, Statuses
  <2>2. ExecutorsTyped'
    BY <1>7, ExecutorStopTyped DEF StopExecutor
  <2> QED
    BY <1>7, <2>1, <2>2
    DEF StopExecutor, invocationVars, updateVars, Typed, InvocationsTyped,
        UpdatesTyped
<1>8. ASSUME NEW e \in Envs, Unregister(e)
      PROVE  Typed'
  <2>1. EnvironmentsTyped'
    BY <1>8
    DEF Unregister, keepaliveVars, versionVars, EnvironmentsTyped, Statuses
  <2> QED
    BY <1>8, <2>1
    DEF Unregister, executorVars, futureVars, invocationVars, updateVars,
        Typed, ExecutorsTyped, InvocationsTyped, UpdatesTyped
<1>9. ASSUME NEW e \in Envs, StartupTimesOut(e)
      PROVE  Typed'
  <2>1. EnvironmentsTyped'
    BY <1>9
    DEF StartupTimesOut, keepaliveVars, versionVars, EnvironmentsTyped,
        Statuses
  <2> QED
    BY <1>9, <2>1
    DEF StartupTimesOut, executorVars, futureVars, invocationVars, updateVars,
        Typed, ExecutorsTyped, InvocationsTyped, UpdatesTyped
<1>10. ASSUME NEW e \in Envs, StartupTimeoutStops(e)
       PROVE  Typed'
  <2>1. EnvironmentsTyped'
    BY <1>10
    DEF StartupTimeoutStops, ExecutorStop, EndpointShutdown, keepaliveVars,
        versionVars, EnvironmentsTyped, Statuses
  <2>2. ExecutorsTyped'
    BY <1>10, ExecutorStopTyped DEF StartupTimeoutStops
  <2> QED
    BY <1>10, <2>1, <2>2
    DEF StartupTimeoutStops, invocationVars, updateVars, Typed,
        InvocationsTyped, UpdatesTyped
<1>11. ASSUME NEW e \in Envs, KeepaliveFires(e)
       PROVE  Typed'
  <2>1. EnvironmentsTyped'
    BY <1>11
    DEF KeepaliveFires, environmentVars, versionVars, EnvironmentsTyped,
        Statuses
  <2> QED
    BY <1>11, <2>1
    DEF KeepaliveFires, executorVars, futureVars, invocationVars, updateVars,
        Typed, ExecutorsTyped, InvocationsTyped, UpdatesTyped
<1>12. ASSUME NEW e \in Envs, KeepalivePassed(e)
       PROVE  Typed'
  <2>1. EnvironmentsTyped'
    BY <1>12
    DEF KeepalivePassed, TimesOut, versionVars, EnvironmentsTyped, Statuses
  <2> QED
    BY <1>12, <2>1
    DEF KeepalivePassed, executorVars, futureVars, invocationVars, updateVars,
        Typed, ExecutorsTyped, InvocationsTyped, UpdatesTyped
<1>13. ASSUME NEW e \in Envs, KeepaliveStop(e)
       PROVE  Typed'
  <2>1. EnvironmentsTyped'
    BY <1>13
    DEF KeepaliveStop, Stop, Stoppable, versionVars, EnvironmentsTyped,
        Statuses
  <2> QED
    BY <1>13, <2>1
    DEF KeepaliveStop, executorVars, futureVars, invocationVars, updateVars,
        Typed, ExecutorsTyped, InvocationsTyped, UpdatesTyped
<1>14. ASSUME NEW e \in Envs, StopNext(e)
       PROVE  Typed'
  <2>1. EnvironmentsTyped'
    BY <1>14 DEF StopNext, Stop, Stoppable, EnvironmentsTyped, Statuses
  <2> QED
    BY <1>14, <2>1
    DEF StopNext, executorVars, futureVars, invocationVars, updateVars,
        Typed, ExecutorsTyped, InvocationsTyped, UpdatesTyped
<1>15. ASSUME NEW e \in Envs, NEW outcome \in {"ready", "error"}, ContainerReports(e, outcome)
       PROVE  Typed'
  <2>1. ExecutorsTyped'
    BY <1>15 DEF ContainerReports, futureVars, ExecutorsTyped
  <2> QED
    BY <1>15, <2>1
    DEF ContainerReports, environmentVars, keepaliveVars, versionVars,
        invocationVars, updateVars, Typed, EnvironmentsTyped,
        InvocationsTyped, UpdatesTyped
<1>16. ASSUME NEW e \in Envs, NEW j \in Invocations, Answer(e, j)
       PROVE  Typed'
  <2>1. ExecutorsTyped'
    BY <1>16 DEF Answer, ExecutorsTyped
  <2> QED
    BY <1>16, <2>1
    DEF Answer, environmentVars, keepaliveVars, versionVars, invocationVars,
        updateVars, Typed, EnvironmentsTyped, InvocationsTyped, UpdatesTyped
<1>17. ASSUME NEW i \in Invocations, Invoke(i)
       PROVE  Typed'
  <2>1. InvocationsTyped'
    BY <1>17 DEF Invoke, InvocationsTyped, Kinds, InvocationSteps
  <2> QED
    BY <1>17, <2>1
    DEF Invoke, environmentVars, keepaliveVars, versionVars, executorVars,
        futureVars, updateVars, Typed, EnvironmentsTyped, ExecutorsTyped,
        UpdatesTyped
<1>18. ASSUME NEW i \in Invocations, GetLease(i)
       PROVE  Typed'
  <2>1. InvocationsTyped'
    BY <1>18 DEF GetLease, InvocationsTyped, Kinds, InvocationSteps
  <2> QED
    BY <1>18, <2>1
    DEF GetLease, environmentVars, keepaliveVars, versionVars, executorVars,
        futureVars, updateVars, Typed, EnvironmentsTyped, ExecutorsTyped,
        UpdatesTyped
<1>19. ASSUME NEW i \in Invocations, Snapshot(i)
       PROVE  Typed'
  <2>1. InvocationsTyped'
    BY <1>19
    DEF Snapshot, InvocationsTyped, Kinds, InvocationSteps, EnvironmentsTyped
  <2> QED
    BY <1>19, <2>1
    DEF Snapshot, environmentVars, keepaliveVars, versionVars, executorVars,
        futureVars, updateVars, Typed, EnvironmentsTyped, ExecutorsTyped,
        UpdatesTyped
<1>20. ASSUME NEW i \in Invocations, NEW e \in Envs, TryReserve(i, e)
       PROVE  Typed'
  <2>1. EnvironmentsTyped'
    BY <1>20
    DEF TryReserve, Reservable, Reserve, Assigned, versionVars,
        EnvironmentsTyped, Statuses
  <2>2. InvocationsTyped'
    BY <1>20
    DEF TryReserve, Reserve, Assigned, InvocationsTyped, Kinds,
        InvocationSteps
  <2> QED
    BY <1>20, <2>1, <2>2
    DEF TryReserve, executorVars, futureVars, updateVars, Typed,
        ExecutorsTyped, UpdatesTyped
<1>21. ASSUME NEW i \in Invocations, StartEnvironment(i)
       PROVE  Typed'
  <2>1. CASE lease[i] = "provisioned"
    <3>1. /\ pc' = [pc EXCEPT ![i] = "leave"]
          /\ UNCHANGED <<created, kind, status, startupTimer, starter, endpoint,
                         env, stopper, registered, keepaliveVars, container,
                         startupFuture, requests, waiter, futureVars, lease,
                         candidates, posts, versionVars, updateVars>>
      BY <1>21, <2>1 DEF StartEnvironment
    <3>2. EnvironmentsTyped' /\ ExecutorsTyped' /\ UpdatesTyped'
      BY <3>1 DEF keepaliveVars, versionVars, futureVars, updateVars,
          EnvironmentsTyped, ExecutorsTyped, UpdatesTyped
    <3>3. InvocationsTyped'
      BY <3>1 DEF InvocationsTyped, InvocationSteps
    <3> QED BY <3>2, <3>3 DEF Typed
  <2>2. CASE lease[i] = "on_demand" /\ created < MaxEnvs
    <3>1. created + 1 \in Envs
      BY <2>2 DEF EnvironmentsTyped, Envs
    <3>2. /\ created' = created + 1
          /\ kind' = [kind EXCEPT ![created + 1] = "on_demand"]
          /\ StartBegins(created + 1)
          /\ UNCHANGED <<stopper, registered, keepaliveVars, versionVars>>
      BY <1>21, <2>2 DEF StartEnvironment
    <3>3. EnvironmentsTyped'
      <4>1. /\ created' \in 0..MaxEnvs
            /\ kind' \in [Envs -> Kinds]
            /\ \A e \in Envs : kind'[e] = "none" <=> e > created'
        BY <2>2, <3>1, <3>2 DEF EnvironmentsTyped, Envs, Kinds
      <4> QED
        BY <3>1, <3>2, <4>1 DEF StartBegins, EnvironmentsTyped, keepaliveVars,
            versionVars, Statuses
    <3>4. ExecutorsTyped'
      BY <1>21, <3>1, <3>2 DEF StartEnvironment, StartBegins, futureVars,
          ExecutorsTyped
    <3>5. InvocationsTyped'
      BY <1>21, <2>2, <3>1 DEF StartEnvironment, Assigned, InvocationsTyped,
          InvocationSteps
    <3> QED BY <1>21, <3>3, <3>4, <3>5 DEF StartEnvironment, updateVars, Typed,
                UpdatesTyped
  <2> QED BY <1>21, <2>1, <2>2 DEF StartEnvironment
<1>22. ASSUME NEW i \in Invocations, Register(i)
       PROVE  Typed'
  <2>1. env[i] \in Envs
    BY <1>22 DEF Register, InvocationsTyped
  <2>2. EnvironmentsTyped'
    BY <1>22, <2>1
    DEF Register, environmentVars, keepaliveVars, versionVars,
        EnvironmentsTyped, Statuses
  <2>3. InvocationsTyped'
    BY <1>22, <2>1 DEF Register, InvocationsTyped, Kinds, InvocationSteps
  <2> QED
    BY <1>22, <2>2, <2>3
    DEF Register, executorVars, futureVars, updateVars, Typed,
        ExecutorsTyped, UpdatesTyped
<1>23. ASSUME NEW i \in Invocations, StartFailed(i)
       PROVE  Typed'
  <2>1. InvocationsTyped'
    BY <1>23 DEF StartFailed, InvocationsTyped, Kinds, InvocationSteps
  <2> QED
    BY <1>23, <2>1
    DEF StartFailed, environmentVars, keepaliveVars, versionVars,
        executorVars, futureVars, updateVars, Typed, EnvironmentsTyped,
        ExecutorsTyped, UpdatesTyped
<1>24. ASSUME NEW i \in Invocations, ReserveNew(i)
       PROVE  Typed'
  <2>1. env[i] \in Envs
    BY <1>24 DEF ReserveNew, InvocationsTyped
  <2>2. EnvironmentsTyped'
    BY <1>24, <2>1
    DEF ReserveNew, Reservable, Reserve, versionVars, EnvironmentsTyped,
        Statuses
  <2>3. InvocationsTyped'
    BY <1>24, <2>1
    DEF ReserveNew, Reserve, InvocationsTyped, Kinds, InvocationSteps
  <2> QED
    BY <1>24, <2>2, <2>3
    DEF ReserveNew, executorVars, futureVars, updateVars, Typed,
        ExecutorsTyped, UpdatesTyped
<1>25. ASSUME NEW i \in Invocations, Send(i)
       PROVE  Typed'
  <2>1. env[i] \in Envs
    BY <1>25 DEF Send, InvocationsTyped
  <2>2. ExecutorsTyped'
    BY <1>25, <2>1 DEF Send, futureVars, ExecutorsTyped
  <2>3. InvocationsTyped'
    BY <1>25, <2>1 DEF Send, InvocationsTyped, Kinds, InvocationSteps
  <2> QED
    BY <1>25, <2>2, <2>3
    DEF Send, environmentVars, keepaliveVars, versionVars, updateVars, Typed,
        EnvironmentsTyped, UpdatesTyped
<1>26. ASSUME NEW i \in Invocations, GetResult(i)
       PROVE  Typed'
  <2>1. InvocationsTyped'
    BY <1>26 DEF GetResult, InvocationsTyped, Kinds, InvocationSteps
  <2> QED
    BY <1>26, <2>1
    DEF GetResult, environmentVars, keepaliveVars, versionVars, executorVars,
        futureVars, updateVars, Typed, EnvironmentsTyped, ExecutorsTyped,
        UpdatesTyped
<1>27. ASSUME NEW i \in Invocations, InvokeRaises(i)
       PROVE  Typed'
  <2>1. InvocationsTyped'
    BY <1>27 DEF InvokeRaises, InvocationsTyped, Kinds, InvocationSteps
  <2> QED
    BY <1>27, <2>1
    DEF InvokeRaises, environmentVars, keepaliveVars, versionVars,
        executorVars, futureVars, updateVars, Typed, EnvironmentsTyped,
        ExecutorsTyped, UpdatesTyped
<1>28. ASSUME NEW i \in Invocations, ReleaseAfterResult(i)
       PROVE  Typed'
  <2>1. env[i] \in Envs
    BY <1>28 DEF ReleaseAfterResult, InvocationsTyped
  <2>2. EnvironmentsTyped'
    BY <1>28, <2>1
    DEF ReleaseAfterResult, Release, KeptAlive, versionVars,
        EnvironmentsTyped, Statuses
  <2>3. InvocationsTyped'
    BY <1>28, <2>1
    DEF ReleaseAfterResult, Release, InvocationsTyped, Kinds, InvocationSteps
  <2> QED
    BY <1>28, <2>2, <2>3
    DEF ReleaseAfterResult, executorVars, futureVars, updateVars, Typed,
        ExecutorsTyped, UpdatesTyped
<1>29. ASSUME NEW i \in Invocations, CleanUpAfterFailure(i)
       PROVE  Typed'
  <2>1. env[i] \in Envs
    BY <1>29 DEF CleanUpAfterFailure, InvocationsTyped
  <2>2. EnvironmentsTyped'
    BY <1>29, <2>1
    DEF CleanUpAfterFailure, Restored, Release, KeptAlive, Stop, Stoppable,
        versionVars, EnvironmentsTyped, Statuses
  <2>3. InvocationsTyped'
    BY <1>29, <2>1
    DEF CleanUpAfterFailure, Release, Stop, InvocationsTyped, Kinds,
        InvocationSteps
  <2> QED
    BY <1>29, <2>2, <2>3
    DEF CleanUpAfterFailure, executorVars, futureVars, updateVars, Typed,
        ExecutorsTyped, UpdatesTyped
<1>30. ASSUME NEW i \in Invocations, StopReturns(i)
       PROVE  Typed'
  <2>1. InvocationsTyped'
    BY <1>30 DEF StopReturns, InvocationsTyped, Kinds, InvocationSteps
  <2> QED
    BY <1>30, <2>1
    DEF StopReturns, environmentVars, keepaliveVars, versionVars,
        executorVars, futureVars, updateVars, Typed, EnvironmentsTyped,
        ExecutorsTyped, UpdatesTyped
<1>31. ASSUME NEW i \in Invocations, Leave(i)
       PROVE  Typed'
  <2>1. InvocationsTyped'
    BY <1>31 DEF Leave, InvocationsTyped, Kinds, InvocationSteps
  <2> QED
    BY <1>31, <2>1
    DEF Leave, environmentVars, keepaliveVars, versionVars, executorVars,
        futureVars, updateVars, Typed, EnvironmentsTyped, ExecutorsTyped,
        UpdatesTyped
<1>32. ASSUME StopVersion
       PROVE  Typed'
  <2>1. EnvironmentsTyped'
    BY <1>32
    DEF StopVersion, environmentVars, keepaliveVars, EnvironmentsTyped,
        Statuses
  <2> QED
    BY <1>32, <2>1
    DEF StopVersion, executorVars, futureVars, invocationVars, updateVars,
        Typed, ExecutorsTyped, InvocationsTyped, UpdatesTyped
<1>33. ASSUME NEW u \in Updates, NEW n \in 0..MaxProvisioned, PutConfig(u, n)
       PROVE  Typed'
  <2>1. UpdatesTyped'
    BY <1>33 DEF PutConfig, UpdatesTyped
  <2> QED
    BY <1>33, <2>1
    DEF PutConfig, environmentVars, keepaliveVars, versionVars, executorVars,
        futureVars, invocationVars, Typed, EnvironmentsTyped, ExecutorsTyped,
        InvocationsTyped
<1>34. ASSUME NEW u \in Updates, UpdateProvisioned(u)
       PROVE  Typed'
  <2>1. UpdatesTyped'
    BY <1>34 DEF UpdateProvisioned, UpdatesTyped
  <2> QED
    BY <1>34, <2>1
    DEF UpdateProvisioned, environmentVars, keepaliveVars, versionVars,
        executorVars, futureVars, invocationVars, Typed, EnvironmentsTyped,
        ExecutorsTyped, InvocationsTyped
<1>35. ASSUME NEW u \in Updates, CountProvisioned(u)
       PROVE  Typed'
  <2> DEFINE current == {e \in registered : kind[e] = "provisioned"}
             diff == goal[u] - Cardinality(current)
  <2>1. Cardinality(current) \in Nat
    <3>1. IsFiniteSet(Envs)
      BY FS_Interval DEF Envs
    <3>2. current \subseteq Envs
      BY DEF EnvironmentsTyped
    <3> QED BY <3>1, <3>2, FS_Subset, FS_CardinalityType
  <2>2. (IF diff > 0 THEN diff ELSE 0) \in 0..MaxProvisioned
    BY <2>1 DEF UpdatesTyped
  <2>3. /\ missing' = [missing EXCEPT ![u] = IF diff > 0 THEN diff ELSE 0]
        /\ \E S \in SUBSET current : stops' = [stops EXCEPT ![u] = S]
        /\ upc' = [upc EXCEPT ![u] = "scale"]
        /\ UNCHANGED <<configured, provisioned, goal, starts, stopCalled>>
    BY <1>35 DEF CountProvisioned
  <2>4. UpdatesTyped'
    <3>1. missing' \in [Updates -> 0..MaxProvisioned]
      BY <2>2, <2>3 DEF UpdatesTyped
    <3>2. stops' \in [Updates -> SUBSET Envs]
      BY <2>3 DEF UpdatesTyped, EnvironmentsTyped
    <3> QED BY <2>3, <3>1, <3>2 DEF UpdatesTyped
  <2> QED
    BY <1>35, <2>4 DEF CountProvisioned, environmentVars, keepaliveVars,
        executorVars, futureVars, invocationVars, versionVars, Typed,
        EnvironmentsTyped, ExecutorsTyped, InvocationsTyped
<1>36. ASSUME NEW u \in Updates, CreateProvisioned(u)
       PROVE  Typed'
  <2>1. created + 1 \in Envs
    BY <1>36 DEF CreateProvisioned, EnvironmentsTyped, Envs
  <2>2. EnvironmentsTyped'
    BY <1>36, <2>1
    DEF CreateProvisioned, keepaliveVars, versionVars, EnvironmentsTyped,
        Statuses, Envs, Kinds
  <2>3. UpdatesTyped'
    BY <1>36, <2>1 DEF CreateProvisioned, UpdatesTyped
  <2> QED
    BY <1>36, <2>2, <2>3
    DEF CreateProvisioned, executorVars, futureVars, invocationVars, Typed,
        ExecutorsTyped, InvocationsTyped
<1>37. ASSUME NEW u \in Updates, NEW e \in Envs, PoolStop(u, e)
       PROVE  Typed'
  <2>1. EnvironmentsTyped'
    BY <1>37
    DEF PoolStop, Stop, Stoppable, versionVars, EnvironmentsTyped, Statuses
  <2>2. UpdatesTyped'
    BY <1>37 DEF PoolStop, Stop, UpdatesTyped
  <2> QED
    BY <1>37, <2>1, <2>2
    DEF PoolStop, executorVars, futureVars, invocationVars, Typed,
        ExecutorsTyped, InvocationsTyped
<1>38. ASSUME NEW u \in Updates, FinishUpdate(u)
       PROVE  Typed'
  <2>1. UpdatesTyped'
    BY <1>38 DEF FinishUpdate, UpdatesTyped
  <2> QED
    BY <1>38, <2>1
    DEF FinishUpdate, environmentVars, keepaliveVars, versionVars,
        executorVars, futureVars, invocationVars, Typed, EnvironmentsTyped,
        ExecutorsTyped, InvocationsTyped
<1>39. ASSUME NEW i \in Invocations, Post(i)
       PROVE  Typed'
  <2>1. env[i] \in Envs /\ pc[i] = "posting"
    BY <1>39 DEF Post, PostReturns, PostRefused, PostBreaks, InvocationsTyped
  <2>2. requests[env[i]][i] + 1 <= MaxPosts
    BY <2>1 DEF ExecutorsTyped, InvocationsTyped, PostsTyped
  <2>3. ExecutorsTyped'
    <3>1. UNCHANGED requests \/ Read(i)
      BY <1>39 DEF Post, PostReturns, PostRefused, PostBreaks
    <3>2. requests' \in [Envs -> [Invocations -> 0..MaxPosts]]
      BY <2>1, <2>2, <3>1, ReadRequests
    <3> QED BY <1>39, <3>2 DEF Post, PostReturns, PostRefused, PostBreaks,
          futureVars, ExecutorsTyped
  <2>4. InvocationsTyped'
    BY <1>39, <2>1
    DEF Post, PostReturns, PostRefused, PostBreaks, InvocationsTyped,
        InvocationSteps
  <2> QED
    BY <1>39, <2>3, <2>4
    DEF Post, PostReturns, PostRefused, PostBreaks, environmentVars,
        keepaliveVars, versionVars, updateVars, Typed, EnvironmentsTyped,
        UpdatesTyped
<1>40. CASE UNCHANGED vars
  BY <1>40
  DEF vars, environmentVars, keepaliveVars, executorVars, futureVars,
      invocationVars, versionVars, updateVars, Typed, EnvironmentsTyped,
      ExecutorsTyped, InvocationsTyped, UpdatesTyped
<1> QED
  BY <1>1, <1>2, <1>3, <1>4, <1>5, <1>6, <1>7, <1>8, <1>9, <1>10, <1>11,
     <1>12, <1>13, <1>14, <1>15, <1>16, <1>17, <1>18, <1>19, <1>20, <1>21,
     <1>22, <1>23, <1>24, <1>25, <1>26, <1>27, <1>28, <1>29, <1>30, <1>31,
     <1>32, <1>33, <1>34, <1>35, <1>36, <1>37, <1>38, <1>39, <1>40
  DEF Next, Starter, EnvironmentThread, Stopper, StartupTimeout, Keepalive,
      Invocation, Update

\* Requests may be lost, and an invocation may go on, as long as it does not
\* post.
LEMMA PostsKept ==
    ASSUME ExecutorsTyped, InvocationsTyped, PostsTyped, ExecutorsTyped',
           UNCHANGED posts,
           \A d \in Envs, j \in Invocations : requests'[d][j] <= requests[d][j],
           \A j \in Invocations :
               /\ pc'[j] = "posting" => pc[j] = "posting" /\ env'[j] = env[j]
               /\ NotSent(j)' => NotSent(j)
    PROVE  PostsTyped'
<1> SUFFICES ASSUME NEW j \in Invocations
             PROVE  /\ NotSent(j)' => posts'[j] = 0
                    /\ \A e \in Envs : requests'[e][j] <= posts'[j]
                    /\ pc'[j] = "posting" => requests'[env'[j]][j] < posts'[j]
  BY DEF PostsTyped
<1>1. /\ posts[j] \in Nat
      /\ \A e \in Envs : requests[e][j] \in Nat /\ requests'[e][j] \in Nat
      /\ pc[j] = "posting" => env[j] \in Envs
  BY DEF ExecutorsTyped, InvocationsTyped
<1> QED BY <1>1 DEF PostsTyped

\* A container reads a request at most as often as it was posted.
LEMMA StepPosts == TypeOK /\ Typed' /\ [Next]_vars => PostsTyped'
<1> SUFFICES ASSUME ExecutorsTyped, InvocationsTyped, PostsTyped,
                    ExecutorsTyped', [Next]_vars
             PROVE  PostsTyped'
  BY DEF TypeOK, Typed
<1>0. \A d \in Envs, j \in Invocations : requests[d][j] <= requests[d][j]
  BY DEF ExecutorsTyped
<1>1. ASSUME NEW e \in Envs, EnvironmentThread(e)
      PROVE  PostsTyped'
  <2>1. UNCHANGED invocationVars
    BY <1>1 DEF EnvironmentThread, Starter, Stopper, StartupTimeout, Keepalive,
        PoolStart, CreateContainer, StartReady, StartRaises, StartExcept,
        StartCleanup, StopExecutor, Unregister, StartupTimesOut,
        StartupTimeoutStops, KeepaliveFires, KeepalivePassed, KeepaliveStop
  <2>2. UNCHANGED requests \/ ExecutorStop(e)
    BY <1>1 DEF EnvironmentThread, Starter, Stopper, StartupTimeout, Keepalive,
        PoolStart, CreateContainer, StartReady, StartRaises, StartExcept,
        StartCleanup, StopExecutor, Unregister, StartupTimesOut,
        StartupTimeoutStops, KeepaliveFires, KeepalivePassed, KeepaliveStop,
        executorVars
  <2>3. \A d \in Envs, j \in Invocations : requests'[d][j] <= requests[d][j]
    BY <1>0, <2>2, ExecutorStopRequests
  <2> QED BY <2>1, <2>3, PostsKept DEF invocationVars, NotSent
<1>2. CASE UNCHANGED <<invocationVars, requests>>
  BY <1>0, <1>2, PostsKept DEF invocationVars, NotSent
<1>3. ASSUME NEW e \in Envs, NEW j \in Invocations, Answer(e, j)
      PROVE  PostsTyped'
  <2>1. \A d \in Envs, k \in Invocations : requests'[d][k] <= requests[d][k]
    BY <1>3 DEF Answer, ExecutorsTyped
  <2> QED BY <1>3, <2>1, PostsKept DEF Answer, invocationVars, NotSent
<1>4. ASSUME NEW i \in Invocations, Invoke(i)
      PROVE  PostsTyped'
  BY <1>0, <1>4, PostsKept DEF Invoke, executorVars, InvocationsTyped, NotSent
<1>5. ASSUME NEW i \in Invocations, GetLease(i)
      PROVE  PostsTyped'
  BY <1>0, <1>5, PostsKept DEF GetLease, executorVars, InvocationsTyped, NotSent
<1>6. ASSUME NEW i \in Invocations, Snapshot(i)
      PROVE  PostsTyped'
  BY <1>0, <1>6, PostsKept DEF Snapshot, executorVars, InvocationsTyped, NotSent
<1>7. ASSUME NEW i \in Invocations, Register(i)
      PROVE  PostsTyped'
  BY <1>0, <1>7, PostsKept DEF Register, executorVars, InvocationsTyped, NotSent
<1>8. ASSUME NEW i \in Invocations, StartFailed(i)
      PROVE  PostsTyped'
  BY <1>0, <1>8, PostsKept DEF StartFailed, executorVars, InvocationsTyped, NotSent
<1>9. ASSUME NEW i \in Invocations, ReserveNew(i)
      PROVE  PostsTyped'
  BY <1>0, <1>9, PostsKept DEF ReserveNew, executorVars, InvocationsTyped, NotSent
<1>10. ASSUME NEW i \in Invocations, GetResult(i)
      PROVE  PostsTyped'
  BY <1>0, <1>10, PostsKept DEF GetResult, executorVars, InvocationsTyped, NotSent
<1>11. ASSUME NEW i \in Invocations, InvokeRaises(i)
      PROVE  PostsTyped'
  BY <1>0, <1>11, PostsKept DEF InvokeRaises, executorVars, InvocationsTyped, NotSent
<1>12. ASSUME NEW i \in Invocations, ReleaseAfterResult(i)
      PROVE  PostsTyped'
  BY <1>0, <1>12, PostsKept DEF ReleaseAfterResult, executorVars, InvocationsTyped, NotSent
<1>13. ASSUME NEW i \in Invocations, CleanUpAfterFailure(i)
      PROVE  PostsTyped'
  BY <1>0, <1>13, PostsKept DEF CleanUpAfterFailure, executorVars, InvocationsTyped, NotSent
<1>14. ASSUME NEW i \in Invocations, StopReturns(i)
      PROVE  PostsTyped'
  BY <1>0, <1>14, PostsKept DEF StopReturns, executorVars, InvocationsTyped, NotSent
<1>15. ASSUME NEW i \in Invocations, Leave(i)
      PROVE  PostsTyped'
  BY <1>0, <1>15, PostsKept DEF Leave, executorVars, InvocationsTyped, NotSent
<1>16. ASSUME NEW i \in Invocations, NEW e \in Envs, TryReserve(i, e)
      PROVE  PostsTyped'
  BY <1>0, <1>16, PostsKept
  DEF TryReserve, Assigned, executorVars, InvocationsTyped, NotSent
<1>17. ASSUME NEW i \in Invocations, StartEnvironment(i)
      PROVE  PostsTyped'
  BY <1>0, <1>17, PostsKept
  DEF StartEnvironment, Assigned, InvocationsTyped, NotSent
<1>18. ASSUME NEW i \in Invocations, Send(i)
      PROVE  PostsTyped'
  <2>1. /\ pc[i] = "invoke" /\ posts[i] = 0 /\ env[i] \in Envs
        /\ \A e \in Envs : requests[e][i] = 0
    BY <1>18 DEF Send, NotSent, PostsTyped, ExecutorsTyped, InvocationsTyped
  <2>2. CASE UNCHANGED posts
    BY <1>18, <1>0, <2>2, PostsKept, <2>1 DEF Send, InvocationsTyped, NotSent
  <2>3. CASE posts' = [posts EXCEPT ![i] = 1] /\ pc' = [pc EXCEPT ![i] = "posting"]
    BY <1>18, <2>1, <2>3 DEF Send, InvocationsTyped, NotSent, PostsTyped
  <2> QED BY <1>18, <2>2, <2>3 DEF Send
<1>19. ASSUME NEW i \in Invocations, Post(i)
      PROVE  PostsTyped'
  <2>1. /\ pc[i] = "posting" /\ env[i] \in Envs /\ UNCHANGED env
        /\ requests[env[i]][i] < posts[i]
        /\ UNCHANGED requests \/ Read(i)
        /\ \/ /\ posts' = [posts EXCEPT ![i] = @ + 1]
              /\ UNCHANGED pc
           \/ /\ pc' \in {[pc EXCEPT ![i] = "waiting"], [pc EXCEPT ![i] = "failing"]}
              /\ UNCHANGED posts
    BY <1>19 DEF Post, PostReturns, PostRefused, PostBreaks, PostsTyped,
        InvocationsTyped
  <2>2. \A d \in Envs, j \in Invocations :
           \/ requests'[d][j] = requests[d][j]
           \/ d = env[i] /\ j = i /\ requests'[d][j] = requests[d][j] + 1
    BY <2>1, ReadRequests
  <2>3. /\ \A j \in Invocations : posts[j] \in Nat
        /\ \A d \in Envs, j \in Invocations : requests[d][j] \in Nat
        /\ \A j \in Invocations : pc[j] = "posting" => env[j] \in Envs
    BY DEF ExecutorsTyped, InvocationsTyped
  <2> QED BY <2>1, <2>2, <2>3 DEF InvocationsTyped, NotSent, PostsTyped
<1> QED
  BY <1>1, <1>2, <1>3, <1>4, <1>5, <1>6, <1>7, <1>8, <1>9, <1>10, <1>11,
     <1>12, <1>13, <1>14, <1>15, <1>16, <1>17, <1>18, <1>19
  DEF Next, Invocation, StopNext, ContainerReports, StopVersion, PutConfig,
      Update, UpdateProvisioned, CountProvisioned, CreateProvisioned, PoolStop,
      FinishUpdate, executorVars, vars

\* Every step keeps the type invariant.
LEMMA StepTypeOK == TypeOK /\ [Next]_vars => TypeOK'
  BY StepTyped, StepPosts DEF TypeOK, Typed

\* Type correctness; among it that release(), stop() and invoke() are called
\* on an environment, never on None.
THEOREM TypeCorrect == Spec => []TypeOK
BY InitTypeOK, StepTypeOK, PTL DEF Spec

-----------------------------------------------------------------------------
(* Exclusive use.  The status alone does not say who uses an environment:  *)
(* a user may find it STOPPED, and start() sets READY whatever the status  *)
(* has become.  What holds is that an environment somebody could reserve,  *)
(* or that a keepalive thread is about to stop, has no user.               *)

Unused(e) == \A i \in Invocations : ~Uses(i, e)

\* An environment reserve() accepts, or would have, is nobody's.
ReadyIsUnused ==
    \A e \in Envs : status[e] \in {"READY", "TIMING_OUT"} => Unused(e)

\* So is one a keepalive thread is about to stop, also after another stop().
TimingOutIsUnused ==
    \A e \in timingOut : status[e] # "READY" /\ Unused(e)

\* start() can only set READY before anyone has got the environment.
UnstartedIsUnused ==
    \A e \in Envs : starter[e] # "ready" =>
        /\ status[e] \notin {"READY", "INVOKING", "TIMING_OUT"}
        /\ e \notin timingOut
        /\ Unused(e)

\* Environments are created once.
UncreatedIsIdle == \A e \in Envs : e > created => starter[e] = "none"

UseInv ==
    /\ ExclusiveUse
    /\ ReadyIsUnused
    /\ TimingOutIsUnused
    /\ UnstartedIsUnused
    /\ UncreatedIsIdle

useVars == <<created, status, starter, timingOut, pc, env>>

\* The invariant depends on nothing else.
LEMMA UseUnchanged == UseInv /\ UNCHANGED useVars => UseInv'
  BY DEF UseInv, ExclusiveUse, ReadyIsUnused, TimingOutIsUnused,
      UnstartedIsUnused, UncreatedIsIdle, Unused, Uses, useVars

\* Nothing is used at first.
LEMMA InitUseInv == Init => UseInv
  BY DEF Init, UseInv, ExclusiveUse, ReadyIsUnused, TimingOutIsUnused,
      UnstartedIsUnused, UncreatedIsIdle, Unused, Uses

\* Every step keeps the invariant.
LEMMA StepUseInv == TypeOK /\ UseInv /\ [Next]_vars => UseInv'
<1> SUFFICES ASSUME EnvironmentsTyped, InvocationsTyped, UseInv, [Next]_vars
             PROVE  UseInv'
  BY DEF TypeOK
<1> USE DEF UseInv, ExclusiveUse, ReadyIsUnused, TimingOutIsUnused,
            UnstartedIsUnused, UncreatedIsIdle, Unused
<1>1. ASSUME NEW e \in Envs, PoolStart(e)
      PROVE  UseInv'
  BY <1>1
  DEF PoolStart, StartBegins, keepaliveVars, invocationVars, Uses,
      EnvironmentsTyped
<1>2. ASSUME NEW e \in Envs, CreateContainer(e)
      PROVE  UseInv'
  BY <1>2
  DEF CreateContainer, EndpointShutdown, keepaliveVars, invocationVars, Uses,
      EnvironmentsTyped
<1>3. ASSUME NEW e \in Envs, StartReady(e)
      PROVE  UseInv'
  BY <1>3
  DEF StartReady, keepaliveVars, invocationVars, Uses, EnvironmentsTyped
<1>4. ASSUME NEW e \in Envs, StartRaises(e)
      PROVE  UseInv'
  BY <1>4
  DEF StartRaises, EndpointShutdown, keepaliveVars, invocationVars, Uses,
      EnvironmentsTyped
<1>5. ASSUME NEW e \in Envs, StartExcept(e)
      PROVE  UseInv'
  BY <1>5
  DEF StartExcept, keepaliveVars, invocationVars, Uses, EnvironmentsTyped
<1>6. ASSUME NEW e \in Envs, StartCleanup(e)
      PROVE  UseInv'
  BY <1>6
  DEF StartCleanup, ExecutorStop, EndpointShutdown, keepaliveVars,
      invocationVars, Uses, EnvironmentsTyped
<1>7. ASSUME NEW e \in Envs, StopExecutor(e)
      PROVE  UseInv'
  BY <1>7, UseUnchanged
  DEF StopExecutor, keepaliveVars, invocationVars, useVars
<1>8. ASSUME NEW e \in Envs, Unregister(e)
      PROVE  UseInv'
  BY <1>8, UseUnchanged DEF Unregister, keepaliveVars, invocationVars, useVars
<1>9. ASSUME NEW e \in Envs, StartupTimesOut(e)
      PROVE  UseInv'
  BY <1>9
  DEF StartupTimesOut, keepaliveVars, invocationVars, Uses, EnvironmentsTyped
<1>10. ASSUME NEW e \in Envs, StartupTimeoutStops(e)
       PROVE  UseInv'
  BY <1>10, UseUnchanged
  DEF StartupTimeoutStops, keepaliveVars, invocationVars, useVars
<1>11. ASSUME NEW e \in Envs, KeepaliveFires(e)
       PROVE  UseInv'
  BY <1>11, UseUnchanged
  DEF KeepaliveFires, environmentVars, invocationVars, useVars
<1>12. ASSUME NEW e \in Envs, KeepalivePassed(e)
       PROVE  UseInv'
  BY <1>12
  DEF KeepalivePassed, TimesOut, invocationVars, Uses, EnvironmentsTyped
<1>13. ASSUME NEW e \in Envs, KeepaliveStop(e)
       PROVE  UseInv'
  BY <1>13
  DEF KeepaliveStop, Stop, Stoppable, invocationVars, Uses, EnvironmentsTyped
<1>14. ASSUME NEW e \in Envs, StopNext(e)
       PROVE  UseInv'
  BY <1>14
  DEF StopNext, Stop, Stoppable, invocationVars, Uses, EnvironmentsTyped
<1>15. ASSUME NEW e \in Envs, NEW outcome \in {"ready", "error"}, ContainerReports(e, outcome)
       PROVE  UseInv'
  BY <1>15, UseUnchanged
  DEF ContainerReports, environmentVars, keepaliveVars, invocationVars,
      useVars
<1>16. ASSUME NEW e \in Envs, NEW j \in Invocations, Answer(e, j)
       PROVE  UseInv'
  BY <1>16, UseUnchanged
  DEF Answer, environmentVars, keepaliveVars, invocationVars, useVars
<1>17. ASSUME NEW i \in Invocations, Invoke(i)
       PROVE  UseInv'
  BY <1>17 DEF Invoke, environmentVars, keepaliveVars, Uses, InvocationsTyped
<1>18. ASSUME NEW i \in Invocations, GetLease(i)
       PROVE  UseInv'
  BY <1>18
  DEF GetLease, environmentVars, keepaliveVars, Uses, InvocationsTyped
<1>19. ASSUME NEW i \in Invocations, Snapshot(i)
       PROVE  UseInv'
  BY <1>19
  DEF Snapshot, environmentVars, keepaliveVars, Uses, InvocationsTyped
<1>20. ASSUME NEW i \in Invocations, NEW e \in Envs, TryReserve(i, e)
       PROVE  UseInv'
  BY <1>20
  DEF TryReserve, Reservable, Reserve, Assigned, Uses, EnvironmentsTyped,
      InvocationsTyped
<1>21. ASSUME NEW i \in Invocations, StartEnvironment(i)
       PROVE  UseInv'
  <2>1. CASE lease[i] = "provisioned"
    BY <1>21, <2>1 DEF StartEnvironment, keepaliveVars, Uses, EnvironmentsTyped,
        InvocationsTyped
  <2>2. CASE lease[i] = "on_demand" /\ created < MaxEnvs
    <3>1. created + 1 \in Envs /\ created \in Nat
      BY <2>2 DEF EnvironmentsTyped, Envs
    <3>2. starter[created + 1] = "none"
      BY <3>1
    <3>3. \A e \in Envs : e > created' => e > created /\ e # created + 1
      BY <1>21, <2>2, <3>1 DEF StartEnvironment, Envs
    <3>4. \A j \in Invocations, e \in Envs : Uses(j, e)' => Uses(j, e)
      BY <1>21, <2>2, <3>1 DEF StartEnvironment, Assigned, Uses, InvocationsTyped
    <3> QED
      BY <1>21, <2>2, <3>1, <3>2, <3>3, <3>4 DEF StartEnvironment, StartBegins,
          keepaliveVars, EnvironmentsTyped
  <2> QED BY <1>21, <2>1, <2>2 DEF StartEnvironment
<1>22. ASSUME NEW i \in Invocations, Register(i)
       PROVE  UseInv'
  BY <1>22
  DEF Register, environmentVars, keepaliveVars, Uses, InvocationsTyped
<1>23. ASSUME NEW i \in Invocations, StartFailed(i)
       PROVE  UseInv'
  BY <1>23
  DEF StartFailed, environmentVars, keepaliveVars, Uses, InvocationsTyped
<1>24. ASSUME NEW i \in Invocations, ReserveNew(i)
       PROVE  UseInv'
  BY <1>24
  DEF ReserveNew, Reservable, Reserve, Uses, EnvironmentsTyped,
      InvocationsTyped
<1>25. ASSUME NEW i \in Invocations, Send(i)
       PROVE  UseInv'
  BY <1>25 DEF Send, environmentVars, keepaliveVars, Uses, InvocationsTyped
<1>26. ASSUME NEW i \in Invocations, GetResult(i)
       PROVE  UseInv'
  BY <1>26
  DEF GetResult, environmentVars, keepaliveVars, Uses, InvocationsTyped
<1>27. ASSUME NEW i \in Invocations, InvokeRaises(i)
       PROVE  UseInv'
  BY <1>27
  DEF InvokeRaises, environmentVars, keepaliveVars, Uses, InvocationsTyped
<1>28. ASSUME NEW i \in Invocations, ReleaseAfterResult(i)
       PROVE  UseInv'
  BY <1>28
  DEF ReleaseAfterResult, Release, KeptAlive, Uses, EnvironmentsTyped,
      InvocationsTyped
<1>29. ASSUME NEW i \in Invocations, CleanUpAfterFailure(i)
       PROVE  UseInv'
  BY <1>29
  DEF CleanUpAfterFailure, Restored, Release, KeptAlive, Stop, Stoppable,
      Uses, EnvironmentsTyped, InvocationsTyped
<1>30. ASSUME NEW i \in Invocations, StopReturns(i)
       PROVE  UseInv'
  BY <1>30
  DEF StopReturns, environmentVars, keepaliveVars, Uses, InvocationsTyped
<1>31. ASSUME NEW i \in Invocations, Leave(i)
       PROVE  UseInv'
  BY <1>31 DEF Leave, environmentVars, keepaliveVars, Uses, InvocationsTyped
<1>32. ASSUME StopVersion
       PROVE  UseInv'
  BY <1>32, UseUnchanged
  DEF StopVersion, environmentVars, keepaliveVars, invocationVars, useVars
<1>33. ASSUME NEW u \in Updates, NEW n \in 0..MaxProvisioned, PutConfig(u, n)
       PROVE  UseInv'
  BY <1>33, UseUnchanged
  DEF PutConfig, environmentVars, keepaliveVars, invocationVars, useVars
<1>34. ASSUME NEW u \in Updates, UpdateProvisioned(u)
       PROVE  UseInv'
  BY <1>34, UseUnchanged
  DEF UpdateProvisioned, environmentVars, keepaliveVars, invocationVars,
      useVars
<1>35. ASSUME NEW u \in Updates, CountProvisioned(u)
       PROVE  UseInv'
  BY <1>35, UseUnchanged
  DEF CountProvisioned, environmentVars, keepaliveVars, invocationVars,
      useVars
<1>36. ASSUME NEW u \in Updates, CreateProvisioned(u)
       PROVE  UseInv'
  <2>1. created + 1 \in Envs /\ created \in Nat
    BY <1>36 DEF CreateProvisioned, EnvironmentsTyped, Envs
  <2>2. starter[created + 1] = "none"
    BY <2>1
  <2>3. \A e \in Envs : e > created' => e > created /\ e # created + 1
    BY <1>36, <2>1 DEF CreateProvisioned, Envs
  <2> QED
    BY <1>36, <2>1, <2>2, <2>3 DEF CreateProvisioned, keepaliveVars,
        invocationVars, Uses, EnvironmentsTyped
<1>37. ASSUME NEW u \in Updates, NEW e \in Envs, PoolStop(u, e)
       PROVE  UseInv'
  BY <1>37
  DEF PoolStop, Stop, Stoppable, invocationVars, Uses, EnvironmentsTyped
<1>38. ASSUME NEW u \in Updates, FinishUpdate(u)
       PROVE  UseInv'
  BY <1>38, UseUnchanged
  DEF FinishUpdate, environmentVars, keepaliveVars, invocationVars, useVars
<1>39. ASSUME NEW i \in Invocations, Post(i)
       PROVE  UseInv'
  <2>1. /\ pc[i] = "posting" /\ UNCHANGED <<created, status, starter, timingOut, env>>
        /\ \/ UNCHANGED pc
           \/ pc' \in {[pc EXCEPT ![i] = "waiting"], [pc EXCEPT ![i] = "failing"]}
    BY <1>39 DEF Post, PostReturns, PostRefused, PostBreaks, environmentVars,
        keepaliveVars
  <2> QED BY <2>1 DEF Uses, InvocationsTyped
<1>40. CASE UNCHANGED vars
  BY <1>40, UseUnchanged
  DEF vars, useVars, environmentVars, keepaliveVars, invocationVars
<1> QED
  BY <1>1, <1>2, <1>3, <1>4, <1>5, <1>6, <1>7, <1>8, <1>9, <1>10, <1>11,
     <1>12, <1>13, <1>14, <1>15, <1>16, <1>17, <1>18, <1>19, <1>20, <1>21,
     <1>22, <1>23, <1>24, <1>25, <1>26, <1>27, <1>28, <1>29, <1>30, <1>31,
     <1>32, <1>33, <1>34, <1>35, <1>36, <1>37, <1>38, <1>39, <1>40
  DEF Next, Starter, EnvironmentThread, Stopper, StartupTimeout, Keepalive,
      Invocation, Update

\* The invariant holds throughout.
LEMMA UseInvariant == Spec => [](TypeOK /\ UseInv)
<1>1. Init => TypeOK /\ UseInv
  BY InitTypeOK, InitUseInv
<1>2. TypeOK /\ UseInv /\ [Next]_vars => TypeOK' /\ UseInv'
  BY StepTypeOK, StepUseInv
<1> QED BY <1>1, <1>2, PTL DEF Spec

\* No two invocations are ever assigned the same environment (reserve and
\* release of ExecutionEnvironment, get_environment of AssignmentService).
THEOREM EnvironmentUsedByOne == Spec => []ExclusiveUse
<1>1. UseInv => ExclusiveUse
  BY DEF UseInv
<1> QED BY <1>1, UseInvariant, PTL

\* keepalive_passed never stops an environment that an invocation uses, the
\* race TIMING_OUT was introduced for.
THEOREM KeepaliveSafe == Spec => []KeepaliveNeverInterrupts
<1>1. UseInv => KeepaliveNeverInterrupts
  BY DEF UseInv, TimingOutIsUnused, Unused, KeepaliveNeverInterrupts
<1> QED BY <1>1, UseInvariant, PTL

-----------------------------------------------------------------------------
(* Answers.  The endpoint does not compare request ids, so an answer is    *)
(* the caller's only because an on-demand environment never owes an answer *)
(* to anyone but its current user, as long as it is sent each request      *)
(* once.                                                                   *)

OwesNothing(e) == \A j \in Invocations : requests[e][j] = 0

\* An on-demand environment that was sent each request once.
Simple(e) == kind[e] = "on_demand" /\ ~Repeated(e)

\* A future at an endpoint belongs to an invocation that was sent there.
WaiterHasSent ==
    \A e \in Envs, i \in Invocations :
        waiter[e] = i => env[i] = e /\ ~NotSent(i)

\* Such an environment works on no request but that of the future.
OnlyWaiterIsOwed ==
    \A e \in Envs, j \in Invocations :
        Simple(e) /\ j # waiter[e] => requests[e][j] = 0

UnstartedOwesNothing ==
    \A e \in Envs : starter[e] # "ready" => OwesNothing(e)

\* It is not given out while it owes an answer.
ReadyOwesNothing ==
    \A e \in Envs : Simple(e) /\ status[e] = "READY" => OwesNothing(e)

\* What it owes its user.
UserIsOwed ==
    \A e \in Envs, i \in Invocations : Simple(e) /\ env[i] = e =>
        /\ pc[i] \in {"invoke", "release"} => OwesNothing(e)
        /\ pc[i] \in {"posting", "waiting"} => waiter[e] = i
        /\ pc[i] = "posting" => answer[i] = NoInvocation
        /\ pc[i] = "waiting" /\ answer[i] # NoInvocation => OwesNothing(e)

\* An answer comes after the request, and is its own in these environments.
AnswerIsOwn ==
    \A i \in Invocations : answer[i] # NoInvocation =>
        /\ env[i] \in Envs /\ starter[env[i]] = "ready" /\ ~NotSent(i)
        /\ Simple(env[i]) => answer[i] = i

\* An invocation that goes on to release() has a result.
ResultIsAnswer ==
    \A i \in Invocations : pc[i] = "release" => answer[i] # NoInvocation

AnswerInv ==
    /\ WaiterHasSent
    /\ OnlyWaiterIsOwed
    /\ UnstartedOwesNothing
    /\ ReadyOwesNothing
    /\ UserIsOwed
    /\ AnswerIsOwn
    /\ ResultIsAnswer

answerVars == <<kind, status, starter, requests, waiter, answer, pc, env, posts>>

\* The invariant depends on nothing else.
LEMMA AnswerUnchanged == AnswerInv /\ UNCHANGED answerVars => AnswerInv'
  BY DEF AnswerInv, OwesNothing, Simple, Repeated, NotSent, WaiterHasSent,
      OnlyWaiterIsOwed, UnstartedOwesNothing, ReadyOwesNothing, UserIsOwed,
      AnswerIsOwn, ResultIsAnswer, answerVars

\* Requests may be lost, and start() may go on, as long as nobody can get the
\* environment.
LEMMA FewerRequests ==
    ASSUME AnswerInv, ExecutorsTyped, ExecutorsTyped',
           UNCHANGED <<kind, status, waiter, answer, pc, env, posts>>,
           \A d \in Envs : starter'[d] = "ready" <=> starter[d] = "ready",
           \A d \in Envs, j \in Invocations : requests'[d][j] <= requests[d][j]
    PROVE  AnswerInv'
<1>1. \A d \in Envs : /\ OwesNothing(d) => OwesNothing(d)'
                      /\ Simple(d)' <=> Simple(d)
  BY DEF OwesNothing, Simple, Repeated, ExecutorsTyped
<1>2. \A d \in Envs, j \in Invocations : requests[d][j] = 0 => requests'[d][j] = 0
  BY DEF ExecutorsTyped
<1>3. WaiterHasSent' /\ ResultIsAnswer'
  BY DEF AnswerInv, NotSent, WaiterHasSent, ResultIsAnswer
<1>4. AnswerIsOwn'
  BY <1>1 DEF AnswerInv, NotSent, AnswerIsOwn
<1>5. OnlyWaiterIsOwed' /\ UnstartedOwesNothing' /\ ReadyOwesNothing'
  BY <1>1, <1>2 DEF AnswerInv, OnlyWaiterIsOwed, UnstartedOwesNothing,
      ReadyOwesNothing
<1>6. UserIsOwed'
  BY <1>1 DEF AnswerInv, UserIsOwed
<1> QED BY <1>3, <1>4, <1>5, <1>6 DEF AnswerInv

\* An environment keeps the invariant when its status changes, unless it
\* becomes READY, and when an invocation goes on without posting, unless to
\* the use of an environment.
LEMMA OthersGoOn ==
    ASSUME AnswerInv,
           UNCHANGED <<requests, waiter, answer, env, posts>>,
           \A d \in Envs : /\ starter'[d] = "ready" <=> starter[d] = "ready"
                           /\ kind'[d] = "on_demand" <=> kind[d] = "on_demand"
                           /\ status'[d] = "READY" => status[d] = "READY",
           \A j \in Invocations :
               /\ pc'[j] \in {"invoke", "posting", "waiting", "release"}
                      => pc'[j] = pc[j]
               /\ NotSent(j)' => NotSent(j)
    PROVE  AnswerInv'
<1>1. \A d \in Envs : (OwesNothing(d)' <=> OwesNothing(d)) /\ (Simple(d)' <=> Simple(d))
  BY DEF OwesNothing, Simple, Repeated
<1>2. WaiterHasSent' /\ ResultIsAnswer'
  BY DEF AnswerInv, WaiterHasSent, ResultIsAnswer
<1>3. AnswerIsOwn'
  BY <1>1 DEF AnswerInv, AnswerIsOwn
<1>4. OnlyWaiterIsOwed' /\ UnstartedOwesNothing' /\ ReadyOwesNothing'
  BY <1>1 DEF AnswerInv, OnlyWaiterIsOwed, UnstartedOwesNothing,
      ReadyOwesNothing
<1>5. UserIsOwed'
  BY <1>1 DEF AnswerInv, UserIsOwed
<1> QED BY <1>2, <1>3, <1>4, <1>5 DEF AnswerInv

\* Nothing is sent at first.
LEMMA InitAnswerInv == Init => AnswerInv
  BY DEF Init, NoRequests, AnswerInv, OwesNothing, Simple, NotSent, WaiterHasSent,
      OnlyWaiterIsOwed, UnstartedOwesNothing, ReadyOwesNothing, UserIsOwed,
      AnswerIsOwn, ResultIsAnswer

\* Every step keeps the invariant.
LEMMA StepAnswerInv ==
    TypeOK /\ TypeOK' /\ UseInv /\ AnswerInv /\ [Next]_vars => AnswerInv'
<1> SUFFICES ASSUME EnvironmentsTyped, ExecutorsTyped, InvocationsTyped,
                    PostsTyped, ExecutorsTyped', UseInv, AnswerInv, [Next]_vars
             PROVE  AnswerInv'
  BY DEF TypeOK
<1>0. \A d \in Envs, j \in Invocations : requests[d][j] <= requests[d][j]
  BY DEF ExecutorsTyped
<1>1. ASSUME NEW e \in Envs, PoolStart(e)
      PROVE  AnswerInv'
  BY <1>1, OthersGoOn
  DEF PoolStart, StartBegins, environmentVars, executorVars, futureVars, invocationVars,
      EnvironmentsTyped, NotSent
<1>2. ASSUME NEW e \in Envs, CreateContainer(e)
      PROVE  AnswerInv'
  BY <1>0, <1>2, FewerRequests
  DEF CreateContainer, invocationVars, EnvironmentsTyped
<1>3. ASSUME NEW e \in Envs, StartReady(e)
      PROVE  AnswerInv'
  <2>1. /\ status' = [status EXCEPT ![e] = "READY"]
        /\ starter[e] = "wait" /\ starter' = [starter EXCEPT ![e] = "ready"]
        /\ UNCHANGED <<kind, requests, waiter, answer, pc, env, posts>>
    BY <1>3 DEF StartReady, executorVars, futureVars, invocationVars
  <2>2. OwesNothing(e)
    BY <2>1 DEF AnswerInv, UnstartedOwesNothing
  <2>3. \A d \in Envs : (OwesNothing(d)' <=> OwesNothing(d)) /\ (Simple(d)' <=> Simple(d))
    BY <2>1 DEF OwesNothing, Simple, Repeated
  <2> QED BY <2>1, <2>2, <2>3
    DEF EnvironmentsTyped, NotSent, AnswerInv, WaiterHasSent, OnlyWaiterIsOwed,
        UnstartedOwesNothing, ReadyOwesNothing, UserIsOwed, AnswerIsOwn,
        ResultIsAnswer
<1>4. ASSUME NEW e \in Envs, StartRaises(e)
      PROVE  AnswerInv'
  BY <1>4, OthersGoOn
  DEF StartRaises, EndpointShutdown, environmentVars, executorVars, futureVars, invocationVars,
      EnvironmentsTyped, NotSent
<1>5. ASSUME NEW e \in Envs, StartExcept(e)
      PROVE  AnswerInv'
  BY <1>5, OthersGoOn
  DEF StartExcept, environmentVars, executorVars, futureVars, invocationVars,
      EnvironmentsTyped, NotSent
<1>6. ASSUME NEW e \in Envs, StartCleanup(e)
      PROVE  AnswerInv'
  BY <1>6, ExecutorStopRequests, FewerRequests
  DEF StartCleanup, invocationVars, EnvironmentsTyped
<1>7. ASSUME NEW e \in Envs, StopExecutor(e)
      PROVE  AnswerInv'
  BY <1>7, ExecutorStopRequests, FewerRequests
  DEF StopExecutor, invocationVars, EnvironmentsTyped
<1>8. ASSUME NEW e \in Envs, Unregister(e)
      PROVE  AnswerInv'
  BY <1>8, AnswerUnchanged
  DEF Unregister, environmentVars, executorVars, futureVars,
      invocationVars, answerVars
<1>9. ASSUME NEW e \in Envs, StartupTimesOut(e)
      PROVE  AnswerInv'
  BY <1>9, OthersGoOn
  DEF StartupTimesOut, environmentVars, executorVars, futureVars, invocationVars,
      EnvironmentsTyped, NotSent
<1>10. ASSUME NEW e \in Envs, StartupTimeoutStops(e)
      PROVE  AnswerInv'
  BY <1>10, ExecutorStopRequests, FewerRequests
  DEF StartupTimeoutStops, invocationVars, EnvironmentsTyped
<1>11. ASSUME NEW e \in Envs, KeepaliveFires(e)
      PROVE  AnswerInv'
  BY <1>11, AnswerUnchanged
  DEF KeepaliveFires, environmentVars, executorVars, futureVars,
      invocationVars, answerVars
<1>12. ASSUME NEW e \in Envs, KeepalivePassed(e)
      PROVE  AnswerInv'
  BY <1>12, OthersGoOn
  DEF KeepalivePassed, TimesOut, environmentVars, executorVars, futureVars, invocationVars,
      EnvironmentsTyped, NotSent
<1>13. ASSUME NEW e \in Envs, KeepaliveStop(e)
      PROVE  AnswerInv'
  BY <1>13, OthersGoOn
  DEF KeepaliveStop, Stop, Stoppable, environmentVars, executorVars, futureVars, invocationVars,
      EnvironmentsTyped, NotSent
<1>14. ASSUME NEW e \in Envs, StopNext(e)
      PROVE  AnswerInv'
  BY <1>14, OthersGoOn
  DEF StopNext, Stop, Stoppable, environmentVars, executorVars, futureVars, invocationVars,
      EnvironmentsTyped, NotSent
<1>15. ASSUME NEW e \in Envs, NEW outcome \in {"ready", "error"}, ContainerReports(e, outcome)
      PROVE  AnswerInv'
  BY <1>15, AnswerUnchanged
  DEF ContainerReports, environmentVars, executorVars, futureVars,
      invocationVars, answerVars
<1>16. ASSUME NEW e \in Envs, NEW j \in Invocations, Answer(e, j)
      PROVE  AnswerInv'
  <2>1. /\ requests[e][j] > 0
        /\ \A d \in Envs, i \in Invocations :
              requests'[d][i] = IF d = e /\ i = j THEN requests[d][i] - 1
                                ELSE requests[d][i]
        /\ \A i \in Invocations :
              answer'[i] = IF /\ e \in endpoint /\ i = waiter[e]
                              /\ answer[i] = NoInvocation /\ i \notin cancelled
                           THEN j ELSE answer[i]
        /\ UNCHANGED <<kind, status, starter, waiter, pc, env, posts>>
    BY <1>16 DEF Answer, environmentVars, invocationVars, ExecutorsTyped
  <2>2. \A d \in Envs : /\ OwesNothing(d) => OwesNothing(d)' /\ d # e
                        /\ Simple(d)' <=> Simple(d)
    BY <2>1 DEF OwesNothing, Simple, Repeated, ExecutorsTyped
  <2>3. starter[e] = "ready"
    BY <2>1, <2>2 DEF AnswerInv, UnstartedOwesNothing
  <2>4. ASSUME Simple(e)
        PROVE  waiter[e] = j /\ env[j] = e /\ ~NotSent(j) /\ OwesNothing(e)'
    <3>1. waiter[e] = j /\ env[j] = e /\ ~NotSent(j)
      BY <2>1, <2>4 DEF AnswerInv, OnlyWaiterIsOwed, WaiterHasSent
    <3>2. requests[e][j] = 1
      <4>1. posts[j] \in Nat /\ requests[e][j] \in Nat
        BY DEF InvocationsTyped, ExecutorsTyped
      <4>2. ~(posts[j] > 1) /\ requests[e][j] <= posts[j]
        BY <2>4, <3>1 DEF Simple, Repeated, PostsTyped
      <4> QED BY <2>1, <4>1, <4>2
    <3> QED BY <2>1, <2>4, <3>1, <3>2 DEF AnswerInv, OnlyWaiterIsOwed, OwesNothing
  <2>5. WaiterHasSent' /\ ResultIsAnswer'
    BY <2>1 DEF AnswerInv, NotSent, WaiterHasSent, ResultIsAnswer,
        ExecutorsTyped
  <2>6. OnlyWaiterIsOwed' /\ UnstartedOwesNothing' /\ ReadyOwesNothing'
    BY <2>1, <2>2, <2>4 DEF AnswerInv, OnlyWaiterIsOwed, UnstartedOwesNothing,
        ReadyOwesNothing
  <2>7. AnswerIsOwn'
    BY <2>1, <2>2, <2>3, <2>4 DEF AnswerInv, NotSent, WaiterHasSent, AnswerIsOwn
  <2>8. UserIsOwed'
    <3>1. ASSUME NEW i \in Invocations, Simple(e), env[i] = e, pc[i] = "posting"
          PROVE  FALSE
      <4>1. waiter[e] = i
        BY <3>1 DEF AnswerInv, UserIsOwed
      <4>2. posts[i] \in Nat /\ ~(posts[i] > 1) /\ requests[e][i] < posts[i]
        BY <3>1 DEF Simple, Repeated, PostsTyped, InvocationsTyped
      <4>3. requests[e][i] \in Nat /\ j = i
        BY <2>4, <3>1, <4>1 DEF ExecutorsTyped
      <4> QED BY <2>1, <4>2, <4>3
    <3>2. \A d \in Envs, i \in Invocations :
              d # e /\ env[i] = d => answer'[i] = answer[i]
      BY <2>1 DEF AnswerInv, WaiterHasSent
    <3> QED BY <2>1, <2>2, <2>4, <3>1, <3>2 DEF AnswerInv, UserIsOwed
  <2> QED BY <2>5, <2>6, <2>7, <2>8 DEF AnswerInv
<1>17. ASSUME NEW i \in Invocations, Invoke(i)
      PROVE  AnswerInv'
  BY <1>17, OthersGoOn
  DEF Invoke, environmentVars, executorVars, futureVars,
      InvocationsTyped, NotSent
<1>18. ASSUME NEW i \in Invocations, GetLease(i)
      PROVE  AnswerInv'
  BY <1>18, OthersGoOn
  DEF GetLease, environmentVars, executorVars, futureVars,
      InvocationsTyped, NotSent
<1>19. ASSUME NEW i \in Invocations, Snapshot(i)
      PROVE  AnswerInv'
  BY <1>19, OthersGoOn
  DEF Snapshot, environmentVars, executorVars, futureVars,
      InvocationsTyped, NotSent
<1>20. ASSUME NEW i \in Invocations, NEW e \in Envs, TryReserve(i, e)
      PROVE  AnswerInv'
  <2>1. CASE Reservable(e)
    <3>1. /\ status[e] = "READY" /\ pc[i] = "search"
          /\ status' = [status EXCEPT ![e] = "INVOKING"]
          /\ env' = [env EXCEPT ![i] = e]
          /\ pc' = [pc EXCEPT ![i] = "invoke"]
          /\ UNCHANGED <<kind, starter, requests, waiter, answer, posts>>
      BY <1>20, <2>1 DEF TryReserve, Reservable, Reserve, Assigned,
          executorVars, futureVars
    <3>2. /\ answer[i] = NoInvocation /\ posts[i] = 0
          /\ \A d \in Envs : waiter[d] # i
      BY <3>1 DEF AnswerInv, AnswerIsOwn, WaiterHasSent, NotSent, PostsTyped
    <3>3. \A d \in Envs : (OwesNothing(d)' <=> OwesNothing(d)) /\ (Simple(d)' <=> Simple(d))
      BY <3>1, <3>2 DEF OwesNothing, Simple, Repeated, InvocationsTyped
    <3>4. WaiterHasSent' /\ AnswerIsOwn' /\ ResultIsAnswer'
      BY <3>1, <3>2, <3>3 DEF InvocationsTyped, NotSent, AnswerInv, WaiterHasSent,
          AnswerIsOwn, ResultIsAnswer
    <3>5. OnlyWaiterIsOwed' /\ UnstartedOwesNothing' /\ ReadyOwesNothing'
      BY <3>1, <3>3 DEF EnvironmentsTyped, AnswerInv, OnlyWaiterIsOwed,
          UnstartedOwesNothing, ReadyOwesNothing
    <3>6. UserIsOwed'
      BY <3>1, <3>3 DEF InvocationsTyped, AnswerInv, ReadyOwesNothing, UserIsOwed
    <3> QED BY <3>4, <3>5, <3>6 DEF AnswerInv
  <2>2. CASE ~Reservable(e)
    BY <1>20, <2>2, AnswerUnchanged DEF TryReserve, executorVars, futureVars,
        answerVars
  <2> QED BY <2>1, <2>2
<1>21. ASSUME NEW i \in Invocations, StartEnvironment(i)
      PROVE  AnswerInv'
  <2>1. CASE lease[i] = "provisioned"
    BY <1>21, <2>1, OthersGoOn DEF StartEnvironment, futureVars, InvocationsTyped,
        NotSent
  <2>2. CASE lease[i] = "on_demand" /\ created < MaxEnvs
    <3> DEFINE new == created + 1
    <3>1. new \in Envs /\ new > created
      BY <2>2 DEF EnvironmentsTyped, Envs
    <3>2. /\ pc[i] = "search" /\ pc' = [pc EXCEPT ![i] = "starting"]
          /\ env' = [env EXCEPT ![i] = new]
          /\ kind' = [kind EXCEPT ![new] = "on_demand"]
          /\ status' = [status EXCEPT ![new] = "STARTING"]
          /\ starter' = [starter EXCEPT ![new] = "create"]
          /\ UNCHANGED <<requests, waiter, answer, posts>>
      BY <1>21, <2>2 DEF StartEnvironment, StartBegins, Assigned, futureVars
    <3>3. starter[new] = "none" /\ OwesNothing(new)
      BY <3>1 DEF UseInv, UncreatedIsIdle, AnswerInv, UnstartedOwesNothing
    <3>4. /\ answer[i] = NoInvocation /\ posts[i] = 0
          /\ \A d \in Envs : waiter[d] # i
      BY <3>2 DEF AnswerInv, AnswerIsOwn, WaiterHasSent, NotSent, PostsTyped
    <3>5. \A j \in Invocations : ~Uses(j, new)
      BY <3>1, <3>3 DEF UseInv, UnstartedIsUnused, Unused
    <3> HIDE DEF new
    <3>6. \A d \in Envs : /\ (OwesNothing(d)' <=> OwesNothing(d))
                          /\ d # new => (Simple(d)' <=> Simple(d))
      BY <3>1, <3>2, <3>4 DEF OwesNothing, Simple, Repeated, InvocationsTyped,
          EnvironmentsTyped
    <3>7. WaiterHasSent' /\ ResultIsAnswer'
      BY <3>2, <3>4 DEF InvocationsTyped, NotSent, AnswerInv, WaiterHasSent,
          ResultIsAnswer
    <3>8. AnswerIsOwn'
      BY <3>1, <3>2, <3>3, <3>4, <3>6 DEF EnvironmentsTyped, InvocationsTyped,
          NotSent, AnswerInv, AnswerIsOwn
    <3>9. OnlyWaiterIsOwed' /\ UnstartedOwesNothing' /\ ReadyOwesNothing'
      BY <3>1, <3>2, <3>3, <3>6 DEF EnvironmentsTyped, OwesNothing, AnswerInv,
          OnlyWaiterIsOwed, UnstartedOwesNothing, ReadyOwesNothing
    <3>10. UserIsOwed'
      BY <3>1, <3>2, <3>3, <3>5, <3>6 DEF EnvironmentsTyped, InvocationsTyped,
          Uses, AnswerInv, UserIsOwed
    <3> QED BY <3>7, <3>8, <3>9, <3>10 DEF AnswerInv
  <2> QED BY <1>21, <2>1, <2>2 DEF StartEnvironment
<1>22. ASSUME NEW i \in Invocations, Register(i)
      PROVE  AnswerInv'
  BY <1>22, OthersGoOn
  DEF Register, environmentVars, executorVars, futureVars,
      InvocationsTyped, NotSent
<1>23. ASSUME NEW i \in Invocations, StartFailed(i)
      PROVE  AnswerInv'
  BY <1>23, OthersGoOn
  DEF StartFailed, environmentVars, executorVars, futureVars,
      InvocationsTyped, NotSent
<1>24. ASSUME NEW i \in Invocations, ReserveNew(i)
      PROVE  AnswerInv'
  <2>1. env[i] \in Envs
    BY <1>24 DEF ReserveNew, InvocationsTyped
  <2>2. CASE Reservable(env[i])
    <3>1. /\ status[env[i]] = "READY" /\ pc[i] = "reserve"
          /\ status' = [status EXCEPT ![env[i]] = "INVOKING"]
          /\ pc' = [pc EXCEPT ![i] = "invoke"]
          /\ UNCHANGED <<kind, starter, requests, waiter, answer, env, posts>>
      BY <1>24, <2>2 DEF ReserveNew, Reservable, Reserve, executorVars,
          futureVars
    <3>2. \A d \in Envs : (OwesNothing(d)' <=> OwesNothing(d)) /\ (Simple(d)' <=> Simple(d))
      BY <3>1 DEF OwesNothing, Simple, Repeated
    <3>3. WaiterHasSent' /\ AnswerIsOwn' /\ ResultIsAnswer'
      BY <3>1, <3>2 DEF InvocationsTyped, NotSent, AnswerInv, WaiterHasSent,
          AnswerIsOwn, ResultIsAnswer
    <3>4. OnlyWaiterIsOwed' /\ UnstartedOwesNothing' /\ ReadyOwesNothing'
      BY <2>1, <3>1, <3>2 DEF EnvironmentsTyped, AnswerInv, OnlyWaiterIsOwed,
          UnstartedOwesNothing, ReadyOwesNothing
    <3>5. UserIsOwed'
      BY <2>1, <3>1, <3>2 DEF InvocationsTyped, AnswerInv, ReadyOwesNothing,
          UserIsOwed
    <3> QED BY <3>3, <3>4, <3>5 DEF AnswerInv
  <2>3. CASE ~Reservable(env[i])
    BY <1>24, <2>3, OthersGoOn DEF ReserveNew, executorVars, futureVars,
        InvocationsTyped, NotSent
  <2> QED BY <2>2, <2>3
<1>25. ASSUME NEW i \in Invocations, Send(i)
      PROVE  AnswerInv'
  <2> DEFINE e == env[i]
  <2>1. /\ pc[i] = "invoke" /\ e \in Envs
        /\ UNCHANGED <<kind, status, starter, requests, answer, env>>
    BY <1>25 DEF Send, InvocationsTyped, environmentVars, futureVars
  <2>2. /\ starter[e] = "ready" /\ answer[i] = NoInvocation /\ posts[i] = 0
        /\ \A j \in Invocations : Uses(j, e) => j = i
        /\ Simple(e) => OwesNothing(e)
        /\ \A d \in Envs : waiter[d] # i
    BY <2>1 DEF UseInv, ExclusiveUse, UnstartedIsUnused, Unused, Uses, AnswerInv,
        AnswerIsOwn, UserIsOwed, WaiterHasSent, NotSent, PostsTyped
  <2>3. CASE pc' = [pc EXCEPT ![i] = "leave"] /\ UNCHANGED <<waiter, posts>>
    BY <2>1, <2>3, OthersGoOn DEF InvocationsTyped, NotSent
  <2>4. CASE /\ waiter' = [waiter EXCEPT ![e] = i]
             /\ posts' = [posts EXCEPT ![i] = 1]
             /\ pc' = [pc EXCEPT ![i] = "posting"]
    <3> HIDE DEF e
    <3>0. env[i] = e
      BY DEF e
    <3>1. \A d \in Envs : (OwesNothing(d)' <=> OwesNothing(d)) /\ (Simple(d)' <=> Simple(d))
      BY <2>1, <2>2, <2>4 DEF OwesNothing, Simple, Repeated, InvocationsTyped
    <3>2. WaiterHasSent' /\ AnswerIsOwn' /\ ResultIsAnswer'
      BY <2>1, <2>2, <2>4, <3>0, <3>1 DEF InvocationsTyped, ExecutorsTyped, NotSent,
          AnswerInv, WaiterHasSent, AnswerIsOwn, ResultIsAnswer
    <3>3. OnlyWaiterIsOwed' /\ UnstartedOwesNothing' /\ ReadyOwesNothing'
      BY <2>1, <2>2, <2>4, <3>1 DEF ExecutorsTyped, OwesNothing, AnswerInv,
          OnlyWaiterIsOwed, UnstartedOwesNothing, ReadyOwesNothing
    <3>4. UserIsOwed'
      BY <2>1, <2>2, <2>4, <3>0, <3>1 DEF InvocationsTyped, ExecutorsTyped, Uses,
          AnswerInv, UserIsOwed
    <3> QED BY <3>2, <3>3, <3>4 DEF AnswerInv
  <2> QED BY <1>25, <2>3, <2>4, <2>1 DEF Send
<1>26. ASSUME NEW i \in Invocations, Post(i)
      PROVE  AnswerInv'
  <2>1. PICK e \in Envs : env[i] = e
    BY <1>26 DEF Post, PostReturns, PostRefused, PostBreaks, InvocationsTyped
  <2>2. /\ pc[i] = "posting"
        /\ UNCHANGED <<kind, status, starter, waiter, answer, env>>
        /\ UNCHANGED requests \/ Read(i)
        /\ \/ /\ posts' = [posts EXCEPT ![i] = @ + 1]
              /\ UNCHANGED pc
           \/ /\ pc' \in {[pc EXCEPT ![i] = "waiting"], [pc EXCEPT ![i] = "failing"]}
              /\ UNCHANGED posts
    BY <1>26 DEF Post, PostReturns, PostRefused, PostBreaks, InvocationsTyped,
        environmentVars, futureVars
  <2>3. \A d \in Envs, j \in Invocations :
           requests'[d][j] = requests[d][j] \/ (d = e /\ j = i)
    BY <2>1, <2>2, ReadRequests
  <2>4. /\ starter[e] = "ready" /\ status[e] # "READY"
        /\ \A j \in Invocations : Uses(j, e) => j = i
    BY <2>1, <2>2 DEF UseInv, ExclusiveUse, ReadyIsUnused, UnstartedIsUnused, Unused,
        Uses
  <2>5. /\ Simple(e)' => Simple(e) /\ UNCHANGED posts
        /\ \A d \in Envs : d # e => (OwesNothing(d)' <=> OwesNothing(d))
        /\ \A d \in Envs : d # e => (Simple(d)' <=> Simple(d))
    <3>1. posts[i] \in Nat /\ posts[i] > 0
      <4>1. requests[e][i] \in Nat /\ posts[i] \in Nat
        BY <2>1 DEF ExecutorsTyped, InvocationsTyped
      <4> QED BY <2>1, <2>2, <4>1 DEF PostsTyped
    <3>2. \A j \in Invocations :
              /\ posts[j] > 1 => posts'[j] > 1
              /\ j # i => posts'[j] = posts[j]
              /\ UNCHANGED posts \/ posts'[i] > 1
      BY <2>2, <3>1 DEF InvocationsTyped
    <3>3. Simple(e)' => Simple(e) /\ UNCHANGED posts
      BY <2>1, <2>2, <3>2 DEF Simple, Repeated
    <3>4. \A d \in Envs : d # e => (OwesNothing(d)' <=> OwesNothing(d))
      BY <2>3 DEF OwesNothing
    <3>5. \A d \in Envs : d # e => (Simple(d)' <=> Simple(d))
      BY <2>1, <2>2, <3>2 DEF Simple, Repeated
    <3> QED BY <3>3, <3>4, <3>5
  <2>6. Simple(e) => waiter[e] = i /\ answer[i] = NoInvocation
    BY <2>1, <2>2 DEF AnswerInv, UserIsOwed
  <2>7. WaiterHasSent' /\ ResultIsAnswer'
    BY <2>2 DEF InvocationsTyped, NotSent, AnswerInv, WaiterHasSent,
        ResultIsAnswer
  <2>8. AnswerIsOwn'
    BY <2>1, <2>2, <2>5, <2>6 DEF InvocationsTyped, NotSent, AnswerInv, AnswerIsOwn
  <2>9. OnlyWaiterIsOwed' /\ UnstartedOwesNothing' /\ ReadyOwesNothing'
    BY <2>2, <2>3, <2>4, <2>5, <2>6 DEF AnswerInv, OnlyWaiterIsOwed,
        UnstartedOwesNothing, ReadyOwesNothing
  <2>10. UserIsOwed'
    BY <2>1, <2>2, <2>4, <2>5, <2>6 DEF InvocationsTyped, Uses, AnswerInv,
        UserIsOwed
  <2> QED BY <2>7, <2>8, <2>9, <2>10 DEF AnswerInv
<1>27. ASSUME NEW i \in Invocations, GetResult(i)
      PROVE  AnswerInv'
  <2>1. /\ pc[i] = "waiting" /\ answer[i] # NoInvocation
        /\ pc' = [pc EXCEPT ![i] = "release"]
        /\ UNCHANGED <<kind, status, starter, requests, waiter, answer, env, posts>>
    BY <1>27 DEF GetResult, environmentVars, executorVars, futureVars
  <2>2. \A d \in Envs : (OwesNothing(d)' <=> OwesNothing(d)) /\ (Simple(d)' <=> Simple(d))
    BY <2>1 DEF OwesNothing, Simple, Repeated
  <2> QED BY <2>1, <2>2
    DEF InvocationsTyped, NotSent, AnswerInv, WaiterHasSent, OnlyWaiterIsOwed,
        UnstartedOwesNothing, ReadyOwesNothing, UserIsOwed, AnswerIsOwn,
        ResultIsAnswer
<1>28. ASSUME NEW i \in Invocations, InvokeRaises(i)
      PROVE  AnswerInv'
  BY <1>28, OthersGoOn
  DEF InvokeRaises, environmentVars, executorVars, futureVars,
      InvocationsTyped, NotSent
<1>29. ASSUME NEW i \in Invocations, ReleaseAfterResult(i)
      PROVE  AnswerInv'
  <2>1. env[i] \in Envs /\ pc[i] = "release"
    BY <1>29 DEF ReleaseAfterResult, InvocationsTyped
  <2>2. /\ pc' = [pc EXCEPT ![i] = "leave"]
        /\ UNCHANGED status \/ status' = [status EXCEPT ![env[i]] = "READY"]
        /\ UNCHANGED <<kind, starter, requests, waiter, answer, env, posts>>
    BY <1>29 DEF ReleaseAfterResult, Release, executorVars, futureVars
  <2>3. Simple(env[i]) => OwesNothing(env[i])
    BY <2>1 DEF AnswerInv, UserIsOwed
  <2>4. \A d \in Envs : (OwesNothing(d)' <=> OwesNothing(d)) /\ (Simple(d)' <=> Simple(d))
    BY <2>2 DEF OwesNothing, Simple, Repeated
  <2> QED BY <2>1, <2>2, <2>3, <2>4
    DEF EnvironmentsTyped, InvocationsTyped, NotSent, AnswerInv, WaiterHasSent,
        OnlyWaiterIsOwed, UnstartedOwesNothing, ReadyOwesNothing, UserIsOwed,
        AnswerIsOwn, ResultIsAnswer
<1>30. ASSUME NEW i \in Invocations, CleanUpAfterFailure(i)
      PROVE  AnswerInv'
  <2>1. env[i] \in Envs /\ pc[i] = "failing"
    BY <1>30 DEF CleanUpAfterFailure, InvocationsTyped
  <2>2. /\ pc' \in {[pc EXCEPT ![i] = "leave"], [pc EXCEPT ![i] = "stopping"]}
        /\ \/ UNCHANGED status
           \/ status' = [status EXCEPT ![env[i]] = "STOPPED"]
           \/ /\ status' = [status EXCEPT ![env[i]] = "READY"]
              /\ kind[env[i]] = "provisioned"
        /\ UNCHANGED <<kind, starter, requests, waiter, answer, env, posts>>
    BY <1>30 DEF CleanUpAfterFailure, Restored, Release, Stop, executorVars,
        futureVars
  <2>3. \A d \in Envs : (OwesNothing(d)' <=> OwesNothing(d)) /\ (Simple(d)' <=> Simple(d))
    BY <2>2 DEF OwesNothing, Simple, Repeated
  <2>4. kind[env[i]] = "provisioned" => ~Simple(env[i])
    BY DEF Simple
  <2> QED BY <2>1, <2>2, <2>3, <2>4
    DEF EnvironmentsTyped, InvocationsTyped, NotSent, AnswerInv, WaiterHasSent,
        OnlyWaiterIsOwed, UnstartedOwesNothing, ReadyOwesNothing, UserIsOwed,
        AnswerIsOwn, ResultIsAnswer
<1>31. ASSUME NEW i \in Invocations, StopReturns(i)
      PROVE  AnswerInv'
  BY <1>31, OthersGoOn
  DEF StopReturns, environmentVars, executorVars, futureVars,
      InvocationsTyped, NotSent
<1>32. ASSUME NEW i \in Invocations, Leave(i)
      PROVE  AnswerInv'
  BY <1>32, OthersGoOn
  DEF Leave, environmentVars, executorVars, futureVars,
      InvocationsTyped, NotSent
<1>33. CASE StopVersion
  BY <1>33, AnswerUnchanged DEF StopVersion, environmentVars, executorVars,
      futureVars, invocationVars, answerVars
<1>34. ASSUME NEW u \in Updates, NEW n \in 0..MaxProvisioned, PutConfig(u, n)
      PROVE  AnswerInv'
  BY <1>34, AnswerUnchanged
  DEF PutConfig, environmentVars, executorVars, futureVars,
      invocationVars, answerVars
<1>35. ASSUME NEW u \in Updates, UpdateProvisioned(u)
      PROVE  AnswerInv'
  BY <1>35, AnswerUnchanged
  DEF UpdateProvisioned, environmentVars, executorVars, futureVars,
      invocationVars, answerVars
<1>36. ASSUME NEW u \in Updates, CountProvisioned(u)
      PROVE  AnswerInv'
  BY <1>36, AnswerUnchanged
  DEF CountProvisioned, environmentVars, executorVars, futureVars,
      invocationVars, answerVars
<1>37. ASSUME NEW u \in Updates, CreateProvisioned(u)
      PROVE  AnswerInv'
  <2>1. created + 1 \in Envs
    BY <1>37 DEF CreateProvisioned, EnvironmentsTyped, Envs
  <2>2. kind[created + 1] # "on_demand" /\ starter[created + 1] # "ready"
    BY <2>1 DEF EnvironmentsTyped, UseInv, UncreatedIsIdle
  <2> QED BY <1>37, <2>1, <2>2, OthersGoOn DEF CreateProvisioned, executorVars,
        futureVars, invocationVars, EnvironmentsTyped, NotSent
<1>38. ASSUME NEW u \in Updates, NEW e \in Envs, PoolStop(u, e)
      PROVE  AnswerInv'
  BY <1>38, OthersGoOn
  DEF PoolStop, Stop, Stoppable, executorVars, futureVars, invocationVars,
      EnvironmentsTyped, NotSent
<1>39. ASSUME NEW u \in Updates, FinishUpdate(u)
      PROVE  AnswerInv'
  BY <1>39, AnswerUnchanged
  DEF FinishUpdate, environmentVars, executorVars, futureVars,
      invocationVars, answerVars
<1>40. CASE UNCHANGED vars
  BY <1>40, AnswerUnchanged DEF vars, environmentVars, executorVars, futureVars,
      invocationVars, answerVars
<1> QED
  BY <1>1, <1>2, <1>3, <1>4, <1>5, <1>6, <1>7, <1>8, <1>9, <1>10, <1>11,
     <1>12, <1>13, <1>14, <1>15, <1>16, <1>17, <1>18, <1>19, <1>20, <1>21, <1>22,
     <1>23, <1>24, <1>25, <1>26, <1>27, <1>28, <1>29, <1>30, <1>31, <1>32, <1>33,
     <1>34, <1>35, <1>36, <1>37, <1>38, <1>39, <1>40
  DEF Next, Starter, EnvironmentThread, Stopper, StartupTimeout, Keepalive,
      Invocation, Update

\* What an invocation returns from an on-demand environment to which each
\* request was sent once is the answer to its own request, although
\* _try_set_invocation_result does not look at the request id.
THEOREM AnswerBelongs == Spec => []OwnAnswer
<1>1. Init => TypeOK /\ UseInv /\ AnswerInv
  BY InitTypeOK, InitUseInv, InitAnswerInv
<1>2. TypeOK /\ UseInv /\ AnswerInv /\ [Next]_vars
          => TypeOK' /\ UseInv' /\ AnswerInv'
  BY StepTypeOK, StepUseInv, StepAnswerInv
<1>3. AnswerInv => OwnAnswer
  BY DEF AnswerInv, AnswerIsOwn, ResultIsAnswer, Simple, OwnAnswer
<1> QED BY <1>1, <1>2, <1>3, PTL DEF Spec

-----------------------------------------------------------------------------
(* Provisioned environments.  Whoever calls stop() has a reason: a timer   *)
(* has passed, the version shuts down, a scale-down has chosen the         *)
(* environment, or its status is not INVOKING after a failed invocation,   *)
(* which happens to none that is in service and in use.                    *)

\* Keepalive timers are started for on-demand environments only.
TimersAreOnDemand ==
    \A e \in armed \cup fired \cup timingOut : kind[e] = "on_demand"

\* stop_environments_for_version runs after shutdown_event is set.
StopsAfterShutdown == toStop # {} => shutdown

\* An update chooses environments to stop once.
StopsAfterCount ==
    \A u \in Updates : upc[u] \in {"idle", "update", "count"} => stops[u] = {}

UncreatedIsInactive ==
    \A e \in Envs : e > created => status[e] = "INACTIVE" /\ stopper[e] = "none"

\* A provisioned environment is registered from its creation on, and in
\* service once it has started.
StaysUntilStopped ==
    \A e \in Envs :
        (kind[e] = "provisioned" /\ ~shutdown /\ \A u \in Updates : e \notin stops[u])
            => /\ e \in registered
               /\ stopper[e] = "none"
               /\ starter[e] = "ready" => status[e] \in {"READY", "INVOKING"}

ServiceInv ==
    /\ TimersAreOnDemand
    /\ StopsAfterShutdown
    /\ StopsAfterCount
    /\ UncreatedIsInactive
    /\ StaysUntilStopped

serviceVars == <<created, kind, status, registered, armed, fired, timingOut,
                 starter, stopper, shutdown, toStop, upc, stops>>

\* The invariant depends on nothing else.
LEMMA ServiceUnchanged == ServiceInv /\ UNCHANGED serviceVars => ServiceInv'
  BY DEF ServiceInv, TimersAreOnDemand, StopsAfterShutdown, StopsAfterCount,
      UncreatedIsInactive, StaysUntilStopped, serviceVars

\* There is no environment at first.
LEMMA InitServiceInv == Init => ServiceInv
  BY DEF Init, ServiceInv, TimersAreOnDemand, StopsAfterShutdown,
      StopsAfterCount, UncreatedIsInactive, StaysUntilStopped

\* Every step keeps the invariant.
LEMMA StepServiceInv ==
    TypeOK /\ UseInv /\ ServiceInv /\ [Next]_vars => ServiceInv'
<1> SUFFICES ASSUME EnvironmentsTyped, InvocationsTyped, UpdatesTyped,
                    UseInv, ServiceInv, [Next]_vars
             PROVE  ServiceInv'
  BY DEF TypeOK
<1> USE DEF ServiceInv, UseInv, ReadyIsUnused, UnstartedIsUnused, Unused, Uses
<1>1. ASSUME NEW e \in Envs, PoolStart(e)
      PROVE  ServiceInv'
  BY <1>1
  DEF PoolStart, StartBegins, keepaliveVars, versionVars, updateVars,
      EnvironmentsTyped, UncreatedIsIdle, TimersAreOnDemand,
      StopsAfterShutdown, StopsAfterCount, UncreatedIsInactive,
      StaysUntilStopped
<1>2. ASSUME NEW e \in Envs, CreateContainer(e)
      PROVE  ServiceInv'
  BY <1>2
  DEF CreateContainer, EndpointShutdown, keepaliveVars, versionVars,
      updateVars, EnvironmentsTyped, TimersAreOnDemand, StopsAfterShutdown,
      StopsAfterCount, UncreatedIsInactive, StaysUntilStopped
<1>3. ASSUME NEW e \in Envs, StartReady(e)
      PROVE  ServiceInv'
  BY <1>3
  DEF StartReady, keepaliveVars, versionVars, updateVars, EnvironmentsTyped,
      UncreatedIsIdle, TimersAreOnDemand, StopsAfterShutdown, StopsAfterCount,
      UncreatedIsInactive, StaysUntilStopped
<1>4. ASSUME NEW e \in Envs, StartRaises(e)
      PROVE  ServiceInv'
  BY <1>4
  DEF StartRaises, EndpointShutdown, keepaliveVars, versionVars, updateVars,
      EnvironmentsTyped, TimersAreOnDemand, StopsAfterShutdown,
      StopsAfterCount, UncreatedIsInactive, StaysUntilStopped
<1>5. ASSUME NEW e \in Envs, StartExcept(e)
      PROVE  ServiceInv'
  BY <1>5
  DEF StartExcept, keepaliveVars, versionVars, updateVars, EnvironmentsTyped,
      TimersAreOnDemand, StopsAfterShutdown, StopsAfterCount,
      UncreatedIsInactive, StaysUntilStopped
<1>6. ASSUME NEW e \in Envs, StartCleanup(e)
      PROVE  ServiceInv'
  BY <1>6
  DEF StartCleanup, ExecutorStop, EndpointShutdown, keepaliveVars,
      versionVars, updateVars, EnvironmentsTyped, TimersAreOnDemand,
      StopsAfterShutdown, StopsAfterCount, UncreatedIsInactive,
      StaysUntilStopped
<1>7. ASSUME NEW e \in Envs, StopExecutor(e)
      PROVE  ServiceInv'
  BY <1>7
  DEF StopExecutor, ExecutorStop, EndpointShutdown, keepaliveVars,
      versionVars, updateVars, EnvironmentsTyped, TimersAreOnDemand,
      StopsAfterShutdown, StopsAfterCount, UncreatedIsInactive,
      StaysUntilStopped
<1>8. ASSUME NEW e \in Envs, Unregister(e)
      PROVE  ServiceInv'
  BY <1>8
  DEF Unregister, keepaliveVars, versionVars, updateVars, EnvironmentsTyped,
      TimersAreOnDemand, StopsAfterShutdown, StopsAfterCount,
      UncreatedIsInactive, StaysUntilStopped
<1>9. ASSUME NEW e \in Envs, StartupTimesOut(e)
      PROVE  ServiceInv'
  BY <1>9
  DEF StartupTimesOut, keepaliveVars, versionVars, updateVars,
      EnvironmentsTyped, TimersAreOnDemand, StopsAfterShutdown,
      StopsAfterCount, UncreatedIsInactive, StaysUntilStopped
<1>10. ASSUME NEW e \in Envs, StartupTimeoutStops(e)
       PROVE  ServiceInv'
  BY <1>10, ServiceUnchanged
  DEF StartupTimeoutStops, keepaliveVars, versionVars, updateVars, serviceVars
<1>11. ASSUME NEW e \in Envs, KeepaliveFires(e)
       PROVE  ServiceInv'
  BY <1>11
  DEF KeepaliveFires, environmentVars, versionVars, updateVars,
      EnvironmentsTyped, TimersAreOnDemand, StopsAfterShutdown,
      StopsAfterCount, UncreatedIsInactive, StaysUntilStopped
<1>12. ASSUME NEW e \in Envs, KeepalivePassed(e)
       PROVE  ServiceInv'
  BY <1>12
  DEF KeepalivePassed, TimesOut, versionVars, updateVars, EnvironmentsTyped,
      TimersAreOnDemand, StopsAfterShutdown, StopsAfterCount,
      UncreatedIsInactive, StaysUntilStopped
<1>13. ASSUME NEW e \in Envs, KeepaliveStop(e)
       PROVE  ServiceInv'
  BY <1>13
  DEF KeepaliveStop, Stop, Stoppable, versionVars, updateVars,
      EnvironmentsTyped, TimersAreOnDemand, StopsAfterShutdown,
      StopsAfterCount, UncreatedIsInactive, StaysUntilStopped
<1>14. ASSUME NEW e \in Envs, StopNext(e)
       PROVE  ServiceInv'
  BY <1>14
  DEF StopNext, Stop, Stoppable, updateVars, EnvironmentsTyped,
      TimersAreOnDemand, StopsAfterShutdown, StopsAfterCount,
      UncreatedIsInactive, StaysUntilStopped
<1>15. ASSUME NEW e \in Envs, NEW outcome \in {"ready", "error"}, ContainerReports(e, outcome)
       PROVE  ServiceInv'
  BY <1>15, ServiceUnchanged
  DEF ContainerReports, environmentVars, keepaliveVars, versionVars,
      updateVars, serviceVars
<1>16. ASSUME NEW e \in Envs, NEW j \in Invocations, Answer(e, j)
       PROVE  ServiceInv'
  BY <1>16, ServiceUnchanged
  DEF Answer, environmentVars, keepaliveVars, versionVars, updateVars,
      serviceVars
<1>17. ASSUME NEW i \in Invocations, Invoke(i)
       PROVE  ServiceInv'
  BY <1>17, ServiceUnchanged
  DEF Invoke, environmentVars, keepaliveVars, versionVars, updateVars,
      serviceVars
<1>18. ASSUME NEW i \in Invocations, GetLease(i)
       PROVE  ServiceInv'
  BY <1>18, ServiceUnchanged
  DEF GetLease, environmentVars, keepaliveVars, versionVars, updateVars,
      serviceVars
<1>19. ASSUME NEW i \in Invocations, Snapshot(i)
       PROVE  ServiceInv'
  BY <1>19, ServiceUnchanged
  DEF Snapshot, environmentVars, keepaliveVars, versionVars, updateVars,
      serviceVars
<1>20. ASSUME NEW i \in Invocations, NEW e \in Envs, TryReserve(i, e)
       PROVE  ServiceInv'
  BY <1>20
  DEF TryReserve, Reservable, Reserve, Assigned, versionVars, updateVars,
      EnvironmentsTyped, InvocationsTyped, TimersAreOnDemand,
      StopsAfterShutdown, StopsAfterCount, UncreatedIsInactive,
      StaysUntilStopped
<1>21. ASSUME NEW i \in Invocations, StartEnvironment(i)
       PROVE  ServiceInv'
  <2>1. CASE lease[i] = "provisioned"
    BY <1>21, <2>1, ServiceUnchanged DEF StartEnvironment, keepaliveVars,
        versionVars, updateVars, serviceVars
  <2>2. CASE lease[i] = "on_demand" /\ created < MaxEnvs
    <3> DEFINE new == created + 1
    <3>1. /\ new \in Envs /\ new > created
          /\ \A e \in Envs : e > new => e > created /\ e # new
      BY <2>2 DEF EnvironmentsTyped, Envs
    <3>2. /\ created' = new
          /\ kind' = [kind EXCEPT ![new] = "on_demand"]
          /\ status' = [status EXCEPT ![new] = "STARTING"]
          /\ starter' = [starter EXCEPT ![new] = "create"]
          /\ UNCHANGED <<stopper, registered, armed, fired, timingOut, shutdown,
                         toStop, upc, stops>>
      BY <1>21, <2>2 DEF StartEnvironment, StartBegins, keepaliveVars,
          versionVars, updateVars
    <3> HIDE DEF new
    <3> QED
      BY <3>1, <3>2 DEF EnvironmentsTyped, TimersAreOnDemand,
          StopsAfterShutdown, StopsAfterCount, UncreatedIsInactive,
          StaysUntilStopped
  <2> QED BY <1>21, <2>1, <2>2 DEF StartEnvironment
<1>22. ASSUME NEW i \in Invocations, Register(i)
       PROVE  ServiceInv'
  BY <1>22
  DEF Register, environmentVars, keepaliveVars, versionVars, updateVars,
      EnvironmentsTyped, InvocationsTyped, TimersAreOnDemand,
      StopsAfterShutdown, StopsAfterCount, UncreatedIsInactive,
      StaysUntilStopped
<1>23. ASSUME NEW i \in Invocations, StartFailed(i)
       PROVE  ServiceInv'
  BY <1>23, ServiceUnchanged
  DEF StartFailed, environmentVars, keepaliveVars, versionVars, updateVars,
      serviceVars
<1>24. ASSUME NEW i \in Invocations, ReserveNew(i)
       PROVE  ServiceInv'
  BY <1>24
  DEF ReserveNew, Reservable, Reserve, versionVars, updateVars,
      EnvironmentsTyped, InvocationsTyped, TimersAreOnDemand,
      StopsAfterShutdown, StopsAfterCount, UncreatedIsInactive,
      StaysUntilStopped
<1>25. ASSUME NEW i \in Invocations, Send(i)
       PROVE  ServiceInv'
  BY <1>25, ServiceUnchanged
  DEF Send, environmentVars, keepaliveVars, versionVars, updateVars,
      serviceVars
<1>26. ASSUME NEW i \in Invocations, GetResult(i)
       PROVE  ServiceInv'
  BY <1>26, ServiceUnchanged
  DEF GetResult, environmentVars, keepaliveVars, versionVars, updateVars,
      serviceVars
<1>27. ASSUME NEW i \in Invocations, InvokeRaises(i)
       PROVE  ServiceInv'
  BY <1>27, ServiceUnchanged
  DEF InvokeRaises, environmentVars, keepaliveVars, versionVars, updateVars,
      serviceVars
<1>28. ASSUME NEW i \in Invocations, ReleaseAfterResult(i)
       PROVE  ServiceInv'
  BY <1>28
  DEF ReleaseAfterResult, Release, KeptAlive, versionVars, updateVars,
      EnvironmentsTyped, InvocationsTyped, TimersAreOnDemand,
      StopsAfterShutdown, StopsAfterCount, UncreatedIsInactive,
      StaysUntilStopped
<1>29. ASSUME NEW i \in Invocations, CleanUpAfterFailure(i)
       PROVE  ServiceInv'
  BY <1>29
  DEF CleanUpAfterFailure, Restored, Release, KeptAlive, Stop, Stoppable,
      versionVars, updateVars, EnvironmentsTyped, InvocationsTyped,
      TimersAreOnDemand, StopsAfterShutdown, StopsAfterCount,
      UncreatedIsInactive, StaysUntilStopped
<1>30. ASSUME NEW i \in Invocations, StopReturns(i)
       PROVE  ServiceInv'
  BY <1>30, ServiceUnchanged
  DEF StopReturns, environmentVars, keepaliveVars, versionVars, updateVars,
      serviceVars
<1>31. ASSUME NEW i \in Invocations, Leave(i)
       PROVE  ServiceInv'
  BY <1>31, ServiceUnchanged
  DEF Leave, environmentVars, keepaliveVars, versionVars, updateVars,
      serviceVars
<1>32. ASSUME StopVersion
       PROVE  ServiceInv'
  BY <1>32
  DEF StopVersion, environmentVars, keepaliveVars, updateVars,
      EnvironmentsTyped, TimersAreOnDemand, StopsAfterShutdown,
      StopsAfterCount, UncreatedIsInactive, StaysUntilStopped
<1>33. ASSUME NEW u \in Updates, NEW n \in 0..MaxProvisioned, PutConfig(u, n)
       PROVE  ServiceInv'
  BY <1>33
  DEF PutConfig, environmentVars, keepaliveVars, versionVars,
      EnvironmentsTyped, UpdatesTyped, TimersAreOnDemand, StopsAfterShutdown,
      StopsAfterCount, UncreatedIsInactive, StaysUntilStopped
<1>34. ASSUME NEW u \in Updates, UpdateProvisioned(u)
       PROVE  ServiceInv'
  BY <1>34
  DEF UpdateProvisioned, environmentVars, keepaliveVars, versionVars,
      EnvironmentsTyped, UpdatesTyped, TimersAreOnDemand, StopsAfterShutdown,
      StopsAfterCount, UncreatedIsInactive, StaysUntilStopped
<1>35. ASSUME NEW u \in Updates, CountProvisioned(u)
       PROVE  ServiceInv'
  BY <1>35
  DEF CountProvisioned, environmentVars, keepaliveVars, versionVars,
      EnvironmentsTyped, UpdatesTyped, TimersAreOnDemand, StopsAfterShutdown,
      StopsAfterCount, UncreatedIsInactive, StaysUntilStopped
<1>36. ASSUME NEW u \in Updates, CreateProvisioned(u)
       PROVE  ServiceInv'
  <2> DEFINE new == created + 1
  <2>1. /\ new \in Envs /\ new > created
        /\ \A e \in Envs : e > new => e > created /\ e # new
    BY <1>36 DEF CreateProvisioned, EnvironmentsTyped, Envs
  <2>2. /\ created' = new
        /\ kind' = [kind EXCEPT ![new] = "provisioned"]
        /\ starter' = [starter EXCEPT ![new] = "submitted"]
        /\ registered' = registered \cup {new}
        /\ UNCHANGED <<status, stopper, armed, fired, timingOut, shutdown,
                       toStop, upc, stops>>
    BY <1>36 DEF CreateProvisioned, keepaliveVars, versionVars
  <2>3. new \notin armed \cup fired \cup timingOut
    BY <2>1 DEF EnvironmentsTyped, TimersAreOnDemand
  <2> HIDE DEF new
  <2> QED
    BY <2>1, <2>2, <2>3 DEF EnvironmentsTyped, TimersAreOnDemand,
        StopsAfterShutdown, StopsAfterCount, UncreatedIsInactive,
        StaysUntilStopped
<1>37. ASSUME NEW u \in Updates, NEW e \in Envs, PoolStop(u, e)
       PROVE  ServiceInv'
  BY <1>37
  DEF PoolStop, Stop, Stoppable, versionVars, EnvironmentsTyped,
      TimersAreOnDemand, StopsAfterShutdown, StopsAfterCount,
      UncreatedIsInactive, StaysUntilStopped
<1>38. ASSUME NEW u \in Updates, FinishUpdate(u)
       PROVE  ServiceInv'
  BY <1>38
  DEF FinishUpdate, environmentVars, keepaliveVars, versionVars,
      EnvironmentsTyped, UpdatesTyped, TimersAreOnDemand, StopsAfterShutdown,
      StopsAfterCount, UncreatedIsInactive, StaysUntilStopped
<1>39. ASSUME NEW i \in Invocations, Post(i)
       PROVE  ServiceInv'
  BY <1>39, ServiceUnchanged
  DEF Post, PostReturns, PostRefused, PostBreaks, environmentVars,
      keepaliveVars, versionVars, updateVars, serviceVars
<1>40. CASE UNCHANGED vars
  BY <1>40, ServiceUnchanged
  DEF vars, serviceVars, environmentVars, keepaliveVars, versionVars,
      updateVars
<1> QED
  BY <1>1, <1>2, <1>3, <1>4, <1>5, <1>6, <1>7, <1>8, <1>9, <1>10, <1>11,
     <1>12, <1>13, <1>14, <1>15, <1>16, <1>17, <1>18, <1>19, <1>20, <1>21,
     <1>22, <1>23, <1>24, <1>25, <1>26, <1>27, <1>28, <1>29, <1>30, <1>31,
     <1>32, <1>33, <1>34, <1>35, <1>36, <1>37, <1>38, <1>39, <1>40
  DEF Next, Starter, EnvironmentThread, Stopper, StartupTimeout, Keepalive,
      Invocation, Update

\* Failed invocations and timers never take a provisioned environment out of
\* service (the exception handler of get_environment).
THEOREM ProvisionedStays == Spec => []ProvisionedStaysInService
<1>1. Init => TypeOK /\ UseInv /\ ServiceInv
  BY InitTypeOK, InitUseInv, InitServiceInv
<1>2. TypeOK /\ UseInv /\ ServiceInv /\ [Next]_vars
          => TypeOK' /\ UseInv' /\ ServiceInv'
  BY StepTypeOK, StepUseInv, StepServiceInv
<1>3. ServiceInv => ProvisionedStaysInService
  BY DEF ServiceInv, StaysUntilStopped, ProvisionedStaysInService
<1> QED BY <1>1, <1>2, <1>3, PTL DEF Spec
=============================================================================

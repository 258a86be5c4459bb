---------------------------- MODULE LambdaEvents -----------------------------
(***************************************************************************)
(* Asynchronous invocations of one Lambda function and the managers that   *)
(* serve them (services/lambda_/invocation/event_manager.py and the        *)
(* version bookkeeping of lambda_service.py).                              *)
(*                                                                         *)
(* Every version of the function has a version manager and an event        *)
(* manager.  The event managers share one internal queue: an event is a    *)
(* message of it, the poller of the current event manager hands received   *)
(* messages to a thread pool, and a handler thread invokes the version,    *)
(* deletes the message and, when the event is to be tried again, sends a   *)
(* new one.  An update starts the next version and rolls over to it; a     *)
(* delete stops the managers and removes the queue.                        *)
(*                                                                         *)
(* The queue is a StandardQueue, here by its contract: SqsContract, which  *)
(* SqsStandardQueue implements.  Delays of messages are the time a message *)
(* waits; the execution of the function is LambdaEnvironments.             *)
(***************************************************************************)
EXTENDS Integers, FiniteSets

CONSTANTS
    Events,        \* the asynchronous invocations that clients make
    MaxVersions,   \* bound on the versions the function ever has
    MaxRetries,    \* maximum_retry_attempts of the function
    MaxSends,      \* bound on the messages sent for an event
    MaxTakes,      \* bound on the times a message is received
    MaxFaults      \* bound on throttles, system errors, timeouts of messages that
                   \* are being handled, joins that time out, events that age,
                   \* zero reservations and deletes of the function

ASSUME ConstantsAssumption ==
    /\ MaxVersions \in Nat \ {0} /\ MaxSends \in Nat \ {0} /\ MaxTakes \in Nat \ {0}
    /\ MaxRetries \in Nat /\ MaxFaults \in Nat

VARIABLES
    \* the queue
    place, count,  \* of SqsContract
    queueExists,   \* the queue is in QueueManager.queues
    retries,       \* SQSInvocation.retries in the body of each message
    sends,         \* how many messages were sent for each event
    \* LambdaService
    starting,      \* lambda_starting_versions, 0 when it has no entry
    running,       \* lambda_running_versions
    manager,       \* event_managers
    request,       \* what became of each version's create or update call
    rollover,      \* update_version_state, which holds the version manager lock
    deletion,      \* how far delete_function and stop_version are
    tasks,         \* what is submitted to task_executor
    \* the managers of each version
    started,       \* event managers with an event_queue_url and a poller
    stopped,       \* event managers with LambdaEventManager.stopped set
    stopping,      \* who stops each event manager, holding its lifecycle_lock
    shutdown,      \* version managers with shutdown_event set
    abandoned,     \* pollers that outlived the timeout of their join
    poller,        \* what each poller thread is doing
    batch,         \* the deliveries it has received and not handed on
    handlers,      \* the calls of handle_message
    \* the world
    client,        \* where each client's invoke is
    via,           \* the event manager it has looked up
    zeroReserved,  \* reserved_concurrent_executions = 0
    aged,          \* events with no time left for another retry
    faults,        \* how much of MaxFaults was used
    \* history
    answered,      \* how often the function returned a result for an event
    ended,         \* how often an event was concluded
    redelivered,   \* events of a message that timed out while being handled
    swallowed,     \* events of a handler that an exception cut short
    overlapped     \* the function was deleted while a version of it was starting

queueVars   == <<place, count, queueExists, retries, sends>>
serviceVars == <<starting, running, manager, request, rollover, deletion, tasks>>
managerVars == <<started, stopped, stopping, shutdown, abandoned>>
pollerVars  == <<poller, batch>>
worldVars   == <<client, via, zeroReserved, aged, faults>>
history     == <<answered, ended, redelivered, swallowed, overlapped>>

vars == <<queueVars, serviceVars, managerVars, pollerVars, handlers, worldVars, history>>

-----------------------------------------------------------------------------
Versions == 1..MaxVersions

\* The n-th message of an event.
Messages == Events \X (1..MaxSends)

\* A delivery is a message and the count of its receives: its receipt handle.
Deliveries == Messages \X (1..MaxTakes)

EventOf(d) == d[1][1]

Queue == INSTANCE SqsContract WITH MaxReceiveCount <- 0

Handling == {"queued", "invoking", "raised", "last", "ok", "error", "success", "failure"}
Handlers == [delivery : Deliveries, version : Versions, pc : Handling]

Idle == [new |-> 0, old |-> 0, oldManager |-> 0, pc |-> "idle"]

TypeOK ==
    /\ place \in [Messages -> Queue!Places] /\ count \in [Messages -> 0..MaxTakes]
    /\ queueExists \in BOOLEAN
    /\ retries \in [Messages -> 0..MaxRetries] /\ sends \in [Events -> 0..MaxSends]
    /\ {starting, running, manager} \subseteq 0..MaxVersions
    /\ request \in [Versions -> {"none", "checked", "preparing", "done"}]
    /\ rollover \in [new : 0..MaxVersions, old : 0..MaxVersions, oldManager : 0..MaxVersions,
                     pc : {"idle", "stop", "join", "running", "manager", "start", "starting", "finish"}]
    /\ deletion \in {"none", "begun", "done", "failed"}
    /\ tasks \subseteq {"manager", "version"} \X Versions
    /\ {started, stopped, shutdown, abandoned} \subseteq SUBSET Versions
    /\ stopping \in [Versions -> {"nobody", "update", "task"}]
    /\ poller \in [Versions -> {"none", "receiving", "submitting", "ended"}]
    /\ batch \in [Versions -> SUBSET Deliveries]
    /\ handlers \subseteq Handlers
    /\ client \in [Events -> {"none", "calling", "accepted", "rejected"}]
    /\ via \in [Events -> 0..MaxVersions]
    /\ zeroReserved \in BOOLEAN /\ aged \subseteq Events
    /\ faults \in 0..MaxFaults
    /\ answered \in [Events -> Nat] /\ ended \in [Events -> Nat]
    /\ redelivered \subseteq Events /\ swallowed \subseteq Events
    /\ overlapped \in BOOLEAN

Init ==
    /\ Queue!Init /\ queueExists = FALSE
    /\ retries = [m \in Messages |-> 0] /\ sends = [e \in Events |-> 0]
    /\ starting = 0 /\ running = 0 /\ manager = 0
    /\ request = [v \in Versions |-> "none"]
    /\ rollover = Idle /\ deletion = "none" /\ tasks = {}
    /\ started = {} /\ stopped = {} /\ shutdown = {} /\ abandoned = {}
    /\ stopping = [v \in Versions |-> "nobody"]
    /\ poller = [v \in Versions |-> "none"]
    /\ batch = [v \in Versions |-> {}]
    /\ handlers = {}
    /\ client = [e \in Events |-> "none"] /\ via = [e \in Events |-> 0]
    /\ zeroReserved = FALSE /\ aged = {}
    /\ faults = 0
    /\ answered = [e \in Events |-> 0] /\ ended = [e \in Events |-> 0]
    /\ redelivered = {} /\ swallowed = {} /\ overlapped = FALSE

-----------------------------------------------------------------------------
\* What is not part of every run happens at most MaxFaults times.
Fault == faults < MaxFaults /\ faults' = faults + 1

-----------------------------------------------------------------------------
(* The internal queue (FakeSqsClient)                                      *)

\* send_message of an event with a retry count.
SendMessage(e, r) ==
    LET m == <<e, sends[e] + 1>>
    IN /\ queueExists /\ sends[e] < MaxSends
       /\ Queue!Send(m)
       /\ sends' = [sends EXCEPT ![e] = @ + 1]
       /\ retries' = [retries EXCEPT ![m] = r]
       /\ UNCHANGED queueExists

\* delete_message with any receipt handle of the message that is still known.
DeleteMessage(d) ==
    /\ queueExists
    /\ Queue!Delete(d[1]) \/ (place[d[1]] = "gone" /\ UNCHANGED <<place, count>>)
    /\ UNCHANGED <<queueExists, retries, sends>>

\* A receive has added its handle to the message's and not yet to the queue's:
\* SqsQueue.remove marks the message deleted and raises KeyError.
DeleteRaises(d) ==
    /\ queueExists
    /\ \E v \in Versions : \E k \in (d[2] + 1)..MaxTakes : <<d[1], k>> \in batch[v]
    /\ Queue!Delete(d[1])
    /\ UNCHANGED <<queueExists, retries, sends>>

\* Mutant: a message that was received is not put back.
EverReceived(m) == count[m] > 0

\* Somebody has received the message and still works on it.
InHands(m) ==
    \/ \E h \in handlers : h.delivery[1] = m
    \/ \E v \in Versions : \E d \in batch[v] : d[1] = m

\* The visibility timeout of a message that a stopped poller left behind.
MessageReturns(m) ==
    /\ queueExists /\ ~InHands(m)
    /\ Queue!Return({m})
    /\ UNCHANGED <<queueExists, retries, sends, serviceVars, managerVars, pollerVars,
                   handlers, worldVars, history>>

\* The visibility timeout of a message that waits too long for a handler, or
\* whose handler takes too long.
MessageTimesOut(m) ==
    /\ queueExists /\ InHands(m)
    /\ Queue!Return({m})
    /\ Fault
    /\ redelivered' = redelivered \cup {m[1]}
    /\ UNCHANGED <<queueExists, retries, sends, serviceVars, managerVars, pollerVars,
                   handlers, client, via, zeroReserved, aged, answered, ended,
                   swallowed, overlapped>>

-----------------------------------------------------------------------------
(* Clients: LambdaService.invoke with invocation type Event                *)

\* _await_active_version_manager: both managers are looked up ...
Invoke(e) ==
    /\ client[e] = "none"
    /\ running # 0 /\ manager # 0
    /\ client' = [client EXCEPT ![e] = "calling"]
    /\ via' = [via EXCEPT ![e] = manager]
    /\ UNCHANGED <<queueVars, serviceVars, managerVars, pollerVars, handlers,
                   zeroReserved, aged, faults, history>>

\* ... and enqueue_event of that manager sends to its queue, or fails when the
\* manager has no queue yet or no more.
EnqueueEvent(e) ==
    /\ client[e] = "calling"
    /\ \/ /\ via[e] \in started
          /\ SendMessage(e, 0)
          /\ client' = [client EXCEPT ![e] = "accepted"]
       \/ /\ via[e] \notin started \/ ~queueExists
          /\ client' = [client EXCEPT ![e] = "rejected"]
          /\ UNCHANGED queueVars
    /\ via' = [via EXCEPT ![e] = 0]
    /\ UNCHANGED <<serviceVars, managerVars, pollerVars, handlers, zeroReserved, aged,
                   faults, history>>

\* PutFunctionConcurrency with 0.
ReserveNothing ==
    /\ ~zeroReserved /\ zeroReserved' = TRUE /\ Fault
    /\ UNCHANGED <<queueVars, serviceVars, managerVars, pollerVars, handlers, client,
                   via, aged, history>>

\* has_enough_time_for_retry turns false, for good: the clock advances and an
\* event's retries never decrease.
Age(e) ==
    /\ client[e] = "accepted" /\ e \notin aged
    /\ aged' = aged \cup {e} /\ Fault
    /\ UNCHANGED <<queueVars, serviceVars, managerVars, pollerVars, handlers, client,
                   via, zeroReserved, history>>

-----------------------------------------------------------------------------
(* The poller thread                                                       *)

\* StandardQueue.receive takes messages one by one, at most ten ...
PollerTakes(v, m) ==
    /\ poller[v] = "receiving" /\ queueExists
    /\ count[m] < MaxTakes
    /\ Queue!Take(m)
    /\ batch' = [batch EXCEPT ![v] = @ \cup {<<m, count[m] + 1>>}]
    /\ UNCHANGED <<poller, queueExists, retries, sends, serviceVars, managerVars,
                   handlers, worldVars, history>>

\* ... and returns them.  Without messages, or when the queue is gone, the
\* loop of Poller.run begins again unless the poller is to stop.
PollerReceived(v) ==
    /\ poller[v] = "receiving"
    /\ poller' = [poller EXCEPT ![v] =
                    IF batch[v] # {} THEN "submitting"
                    ELSE IF v \in stopped THEN "ended" ELSE "receiving"]
    /\ UNCHANGED <<batch, queueVars, serviceVars, managerVars, handlers, worldVars, history>>

\* The next message goes to the invoker pool.
PollerSubmits(v, d) ==
    /\ poller[v] = "submitting" /\ v \notin stopped
    /\ d \in batch[v]
    /\ handlers' = handlers \cup {[delivery |-> d, version |-> v, pc |-> "queued"]}
    /\ batch' = [batch EXCEPT ![v] = @ \ {d}]
    /\ poller' = [poller EXCEPT ![v] = IF batch'[v] = {} THEN "receiving" ELSE @]
    /\ UNCHANGED <<queueVars, serviceVars, managerVars, worldVars, history>>

\* The poller is to stop: it does not look at the messages it received or,
\* half way, the pool refuses the next one.
PollerDrops(v) ==
    /\ poller[v] = "submitting" /\ v \in stopped
    /\ poller' = [poller EXCEPT ![v] = "ended"]
    /\ batch' = [batch EXCEPT ![v] = {}]
    /\ UNCHANGED <<queueVars, serviceVars, managerVars, handlers, worldVars, history>>

-----------------------------------------------------------------------------
(* The handler threads: Poller.handle_message                              *)

Step(h, pc)  == handlers' = (handlers \ {h}) \cup {[h EXCEPT !.pc = pc]}
Leave(h)     == handlers' = handlers \ {h}
Conclude(h)  == ended' = [ended EXCEPT ![EventOf(h.delivery)] = @ + 1]
Swallow(h)   == swallowed' = swallowed \cup {EventOf(h.delivery)}

\* Mutant: the retries are lost between two encodings of the event.
ForgottenRetries(h) == 0

RetriesOf(h) == retries[h.delivery[1]]

\* version_manager.invoke raises: the version shuts down, nothing is reserved,
\* or (as often as the bound allows) a throttle or a system error.
InvocationRaises(h) ==
    /\ h.pc \in {"queued", "invoking"}
    /\ \/ /\ h.version \in shutdown \/ (h.pc = "queued" /\ zeroReserved)
          /\ UNCHANGED faults
       \/ Fault
    /\ Step(h, "raised")
    /\ UNCHANGED <<queueVars, serviceVars, managerVars, pollerVars, client, via, zeroReserved,
                   aged, history>>

\* version_manager.invoke runs the function ...
InvocationRuns(h) ==
    /\ h.pc = "queued" /\ h.version \notin shutdown /\ ~zeroReserved
    /\ Step(h, "invoking")
    /\ UNCHANGED <<queueVars, serviceVars, managerVars, pollerVars, worldVars, history>>

\* ... which returns a result or an error.
InvocationReturns(h) ==
    /\ h.pc = "invoking"
    /\ Step(h, "ok") \/ Step(h, "error")
    /\ answered' = [answered EXCEPT ![EventOf(h.delivery)] = @ + 1]
    /\ UNCHANGED <<queueVars, serviceVars, managerVars, pollerVars, worldVars, ended,
                   redelivered, swallowed, overlapped>>

\* Mutant: an exception only ends the call.
GiveUp(h) ==
    /\ h.pc = "raised"
    /\ Step(h, "last")
    /\ UNCHANGED <<queueVars, serviceVars, managerVars, pollerVars, worldVars, history>>

\* The except branch: failure destination and dead-letter queue, or
\* process_throttles_and_system_errors sends the event again, its retries
\* unchanged.
HandleException(h) ==
    LET e == EventOf(h.delivery)
    IN /\ h.pc = "raised"
       /\ \/ /\ zeroReserved \/ e \in aged
             /\ Conclude(h) /\ Step(h, "last")
             /\ UNCHANGED <<queueVars, swallowed>>
          \/ /\ ~zeroReserved /\ e \notin aged
             /\ SendMessage(e, RetriesOf(h)) /\ Step(h, "last")
             /\ UNCHANGED <<ended, swallowed>>
          \/ /\ ~zeroReserved /\ e \notin aged
             /\ ~queueExists /\ Leave(h) /\ Swallow(h)
             /\ UNCHANGED <<queueVars, ended>>
       /\ UNCHANGED <<serviceVars, managerVars, pollerVars, worldVars, answered,
                      redelivered, overlapped>>

\* The finally block: after the except branch the message is deleted and the
\* call ends; after a result the message is deleted before anything else.
\* An exception of delete_message ends the call.
HandlerDeletes(h) ==
    /\ h.pc \in {"last", "ok", "error"}
    /\ \/ /\ DeleteMessage(h.delivery)
          /\ CASE h.pc = "last"  -> Leave(h)
               [] h.pc = "ok"    -> Step(h, "success")
               [] h.pc = "error" -> Step(h, "failure")
          /\ UNCHANGED swallowed
       \/ /\ DeleteRaises(h.delivery)
          /\ Leave(h) /\ Swallow(h)
       \/ /\ ~queueExists
          /\ Leave(h) /\ Swallow(h)
          /\ UNCHANGED queueVars
    /\ UNCHANGED <<serviceVars, managerVars, pollerVars, worldVars, answered, ended,
                   redelivered, overlapped>>

\* failure_cause of an invocation that returned an error.
FailureCause(h) ==
    zeroReserved \/ RetriesOf(h) >= MaxRetries \/ EventOf(h.delivery) \in aged

\* After a result: success destination, failure destination and dead-letter
\* queue, or the event is sent again as its next retry.
HandleResult(h) ==
    /\ h.pc \in {"success", "failure"}
    /\ \/ /\ h.pc = "success" \/ FailureCause(h)
          /\ Conclude(h)
          /\ UNCHANGED <<queueVars, swallowed>>
       \/ /\ h.pc = "failure" /\ ~FailureCause(h)
          /\ SendMessage(EventOf(h.delivery), RetriesOf(h) + 1)
          /\ UNCHANGED <<ended, swallowed>>
       \/ /\ h.pc = "failure" /\ ~FailureCause(h) /\ ~queueExists
          /\ Swallow(h)
          /\ UNCHANGED <<queueVars, ended>>
    /\ Leave(h)
    /\ UNCHANGED <<serviceVars, managerVars, pollerVars, worldVars, answered, redelivered,
                   overlapped>>

-----------------------------------------------------------------------------
(* Stopping an event manager                                               *)

LifecycleLockFree(v) == stopping[v] = "nobody"

\* Poller.stop: the flag is set, and what the pool has not begun is cancelled.
StopPoller(v, who) ==
    /\ stopped' = stopped \cup {v}
    /\ stopping' = [stopping EXCEPT ![v] = who]
    /\ handlers' = {h \in handlers : h.version = v => h.pc # "queued"}

\* Mutant: the poller thread is not waited for.
NotJoined(v) == TRUE

\* The poller thread has ended, if there ever was one.
PollerJoined(v) == poller[v] \in {"none", "ended"}

\* poller_thread.join returns.  A receive waits two seconds and the join three,
\* so that its timeout is the exception; then the poller is left to itself.
JoinPoller(v) ==
    \/ PollerJoined(v) /\ UNCHANGED <<abandoned, faults>>
    \/ ~PollerJoined(v) /\ Fault /\ abandoned' = abandoned \cup {v}

\* LambdaEventManager.stop on the executor: an event manager is stopped once ...
ManagerStops(v) ==
    /\ <<"manager", v>> \in tasks /\ LifecycleLockFree(v)
    /\ \/ /\ v \in stopped
          /\ tasks' = tasks \ {<<"manager", v>>}
          /\ UNCHANGED <<stopped, stopping, handlers>>
       \/ /\ v \notin stopped
          /\ StopPoller(v, "task")
          /\ UNCHANGED tasks
    /\ UNCHANGED <<queueVars, starting, running, manager, request, rollover, deletion,
                   started, shutdown, abandoned, pollerVars, worldVars, history>>

\* ... and after the join its queue is deleted.
ManagerDeletesQueue(v) ==
    /\ stopping[v] = "task" /\ JoinPoller(v)
    /\ IF v \in started /\ queueExists
       THEN /\ LET S == {m \in Messages : place[m] \in {"waiting", "out"}}
               IN Queue!Discard(S) \/ (S = {} /\ UNCHANGED <<place, count>>)
            /\ queueExists' = FALSE
       ELSE UNCHANGED <<place, count, queueExists>>
    /\ started' = IF v \in started /\ queueExists THEN started \ {v} ELSE started
    /\ stopping' = [stopping EXCEPT ![v] = "nobody"]
    /\ tasks' = tasks \ {<<"manager", v>>}
    /\ UNCHANGED <<retries, sends, starting, running, manager, request, rollover,
                   deletion, stopped, shutdown, pollerVars, handlers, client, via,
                   zeroReserved, aged, history>>

\* LambdaVersionManager.stop on the executor.
VersionStops(v) ==
    /\ <<"version", v>> \in tasks
    /\ tasks' = tasks \ {<<"version", v>>}
    /\ shutdown' = shutdown \cup {v}
    /\ UNCHANGED <<queueVars, starting, running, manager, request, rollover, deletion,
                   started, stopped, stopping, abandoned, pollerVars, handlers, worldVars,
                   history>>

-----------------------------------------------------------------------------
(* Versions: create_function, update_function_*, update_version_state      *)

VersionLockFree == rollover.pc = "idle"

\* Mutant: it is not checked whether there is a manager to stop.
SubmitUnchecked(kind, v) == tasks \cup {<<kind, v>>}

\* Mutant: the version manager's stop is submitted for the event manager.
SubmitVersionStop(kind, v) == IF v = 0 THEN tasks ELSE tasks \cup {<<"version", v>>}

\* task_executor.submit, for a manager if there is one.
Submit(kind, v) == IF v = 0 THEN tasks ELSE tasks \cup {<<kind, v>>}

\* create_function for the first version; update_version for the others,
\* which checks that an old version is running ...
Request(v) ==
    /\ request[v] = "none"
    /\ \A w \in 1..(v - 1) : request[w] # "none"
    /\ deletion # "done"
    /\ v > 1 => running # 0
    /\ request' = [request EXCEPT ![v] = "checked"]
    /\ overlapped' = (overlapped \/ deletion = "begun")
    /\ UNCHANGED <<queueVars, starting, running, manager, rollover, deletion, tasks,
                   managerVars, pollerVars, handlers, worldVars, answered, ended,
                   redelivered, swallowed>>

\* ... and create_function_version.  While another version starts it raises a
\* ResourceConflictException and changes nothing; the client may call again.
CreateFunctionVersion(v) ==
    /\ request[v] = "checked" /\ VersionLockFree
    /\ starting = 0
    /\ starting' = v
    /\ request' = [request EXCEPT ![v] = "preparing"]
    /\ UNCHANGED <<queueVars, running, manager, rollover, deletion, tasks, managerVars,
                   pollerVars, handlers, worldVars, history>>

\* update_version_state: the version that starts is taken out (a KeyError when
\* a delete has taken it out before); when it failed it is stopped, otherwise
\* the managers it replaces are looked up.
UpdateVersionState(v) ==
    /\ request[v] = "preparing" /\ VersionLockFree
    /\ request' = [request EXCEPT ![v] = "done"]
    /\ starting' = 0
    /\ \/ /\ starting = 0
          /\ UNCHANGED <<rollover, tasks>>
       \/ /\ starting # 0
          /\ tasks' = Submit("version", starting)
          /\ UNCHANGED rollover
       \/ /\ starting # 0
          /\ rollover' = [new |-> starting, old |-> running, oldManager |-> manager,
                          pc |-> IF manager = 0 THEN "running" ELSE "stop"]
          /\ UNCHANGED tasks
    /\ UNCHANGED <<queueVars, running, manager, deletion, managerVars, pollerVars,
                   handlers, worldVars, history>>

\* old_event_manager.stop_for_update(): the queue stays.
StopForUpdate ==
    LET v == rollover.oldManager
    IN /\ rollover.pc = "stop" /\ LifecycleLockFree(v)
       /\ \/ /\ v \in stopped
             /\ rollover' = [rollover EXCEPT !.pc = "running"]
             /\ UNCHANGED <<stopped, stopping, handlers>>
          \/ /\ v \notin stopped
             /\ StopPoller(v, "update")
             /\ rollover' = [rollover EXCEPT !.pc = "join"]
       /\ UNCHANGED <<queueVars, starting, running, manager, request, deletion, tasks,
                      started, shutdown, abandoned, pollerVars, worldVars, history>>

\* Its poller thread is waited for.
JoinOldPoller ==
    LET v == rollover.oldManager
    IN /\ rollover.pc = "join" /\ JoinPoller(v)
       /\ stopping' = [stopping EXCEPT ![v] = "nobody"]
       /\ rollover' = [rollover EXCEPT !.pc = "running"]
       /\ UNCHANGED <<queueVars, starting, running, manager, request, deletion, tasks,
                      started, stopped, shutdown, pollerVars, handlers, client, via,
                      zeroReserved, aged, history>>

\* The new managers are registered, one after the other ...
RegisterVersion ==
    /\ rollover.pc = "running"
    /\ running' = rollover.new
    /\ rollover' = [rollover EXCEPT !.pc = "manager"]
    /\ UNCHANGED <<queueVars, starting, manager, request, deletion, tasks, managerVars,
                   pollerVars, handlers, worldVars, history>>

RegisterManager ==
    /\ rollover.pc = "manager"
    /\ manager' = rollover.new
    /\ rollover' = [rollover EXCEPT !.pc = "start"]
    /\ UNCHANGED <<queueVars, starting, running, request, deletion, tasks, managerVars,
                   pollerVars, handlers, worldVars, history>>

\* ... and the event manager is looked up again.  When a delete has taken it
\* out, the KeyError ends the rollover, and the old version is not stopped.
LookUpManager ==
    /\ rollover.pc = "start"
    /\ rollover' = IF manager = 0 THEN Idle ELSE [rollover EXCEPT !.pc = "starting"]
    /\ UNCHANGED <<queueVars, starting, running, manager, request, deletion, tasks,
                   managerVars, pollerVars, handlers, worldVars, history>>

\* LambdaEventManager.start: unless it was stopped before, it attaches to the
\* queue, which it creates when there is none, and starts its poller.
StartManager ==
    LET v == rollover.new
    IN /\ rollover.pc = "starting" /\ LifecycleLockFree(v)
       /\ rollover' = [rollover EXCEPT !.pc = "finish"]
       /\ \/ /\ v \in stopped
             /\ UNCHANGED <<queueExists, started, poller>>
          \/ /\ v \notin stopped
             /\ queueExists' = TRUE
             /\ started' = started \cup {v}
             /\ poller' = [poller EXCEPT ![v] = "receiving"]
       /\ UNCHANGED <<place, count, retries, sends, starting, running, manager, request,
                      deletion, tasks, stopped, stopping, shutdown, abandoned, batch, handlers,
                      worldVars, history>>

\* The lock is released and the old version stopped.
FinishRollover ==
    /\ rollover.pc = "finish"
    /\ tasks' = Submit("version", rollover.old)
    /\ rollover' = Idle
    /\ UNCHANGED <<queueVars, starting, running, manager, request, deletion, managerVars,
                   pollerVars, handlers, worldVars, history>>

-----------------------------------------------------------------------------
(* delete_function and LambdaService.stop_version, which take no lock      *)

\* The event manager is taken out and stopped on the executor ...
PopManager ==
    /\ deletion = "none" /\ request[1] # "none" /\ Fault
    /\ deletion' = "begun"
    /\ manager' = 0
    /\ tasks' = Submit("manager", manager)
    /\ overlapped' = \/ ~VersionLockFree
                      \/ \E v \in Versions : request[v] \in {"checked", "preparing"}
    /\ UNCHANGED <<queueVars, starting, running, request, rollover, managerVars,
                   pollerVars, handlers, client, via, zeroReserved, aged, answered,
                   ended, redelivered, swallowed>>

\* ... then the version manager, be it running or starting; a version that
\* starts is taken out in either case.  With neither, the call fails.
PopVersion ==
    /\ deletion = "begun"
    /\ running' = 0 /\ starting' = 0
    /\ \/ /\ running = 0 /\ starting = 0
          /\ deletion' = "failed"
          /\ UNCHANGED tasks
       \/ /\ running # 0 \/ starting # 0
          /\ deletion' = "done"
          /\ tasks' = Submit("version", IF running # 0 THEN running ELSE starting)
    /\ UNCHANGED <<queueVars, manager, request, rollover, managerVars, pollerVars,
                   handlers, worldVars, history>>

-----------------------------------------------------------------------------
PollerStep(v) == PollerReceived(v) \/ PollerDrops(v) \/ \E d \in batch[v] : PollerSubmits(v, d)

HandlerStep(h) ==
    \/ InvocationRaises(h) \/ InvocationRuns(h) \/ InvocationReturns(h)
    \/ HandleException(h) \/ HandlerDeletes(h) \/ HandleResult(h)

TaskStep(v) == ManagerStops(v) \/ ManagerDeletesQueue(v) \/ VersionStops(v)

RolloverStep ==
    \/ StopForUpdate \/ JoinOldPoller \/ RegisterVersion \/ RegisterManager
    \/ LookUpManager \/ StartManager \/ FinishRollover

Next ==
    \/ \E e \in Events : Invoke(e) \/ EnqueueEvent(e) \/ Age(e)
    \/ ReserveNothing
    \/ \E m \in Messages : MessageReturns(m) \/ MessageTimesOut(m)
    \/ \E v \in Versions : PollerStep(v) \/ \E m \in Messages : PollerTakes(v, m)
    \/ \E h \in handlers : HandlerStep(h)
    \/ \E v \in Versions : TaskStep(v) \/ Request(v) \/ CreateFunctionVersion(v)
                           \/ UpdateVersionState(v)
    \/ RolloverStep \/ PopManager \/ PopVersion

\* Every thread of the system goes on when it can: the pollers, the threads of
\* the invoker pools (whose steps are finitely many, so that none is left
\* behind), the task executor, the API calls that have begun, and the worker
\* that requeues messages.  Nothing is assumed of clients, of time, or of the
\* result of an invocation.
Fairness ==
    /\ \A v \in Versions : WF_vars(PollerStep(v) \/ \E m \in Messages : PollerTakes(v, m))
    /\ WF_vars(\E h \in handlers : HandlerStep(h))
    /\ WF_vars(\E v \in Versions : TaskStep(v))
    /\ WF_vars(RolloverStep \/ \E v \in Versions : CreateFunctionVersion(v) \/ UpdateVersionState(v))
    /\ WF_vars(PopVersion)
    /\ WF_vars(\E m \in Messages : MessageReturns(m))

Spec == Init /\ [][Next]_vars /\ Fairness

-----------------------------------------------------------------------------
(* Properties                                                              *)

\* Until somebody deletes the function, an event that was accepted is in a
\* message of the queue, or with a handler that has deleted its message and
\* will still conclude it or send it again, or it is concluded: whatever
\* rollovers, failed versions, throttles and dropped batches happen.  The
\* exception is a handler whose delete_message raised.  ("ensuring no events
\* are lost during a version rollover", event_manager.py:573-582)
EventKept ==
    deletion = "none" =>
        \A e \in Events :
            client[e] = "accepted" =>
                \/ ended[e] > 0 \/ e \in swallowed
                \/ \E m \in Messages : m[1] = e /\ place[m] \in {"waiting", "out"}
                \/ \E h \in handlers : EventOf(h.delivery) = e /\ h.pc \in {"success", "failure"}

\* Unless a visibility timeout runs out on a message that is being handled,
\* the function answers an event at most once more than maximum_retry_attempts,
\* and the event is concluded once: no rollover, cancelled handler or system
\* error repeats an answered attempt or a notification of the destinations.
NoExtraAttempts ==
    \A e \in Events \ redelivered : answered[e] <= MaxRetries + 1 /\ ended[e] <= 1

\* While the function exists, two pollers never work on the queue, neither
\* during an update nor after a failed one, unless an old one outlives the
\* timeout of its join.  ("to prevent both old and new
\* pollers from processing the same event queue", lambda_service.py:583-584)
OnePoller ==
    deletion = "none" =>
        Cardinality({v \in Versions \ abandoned : poller[v] \in {"receiving", "submitting"}}) <= 1

\* An accepted event is concluded in the end, through any number of rollovers,
\* unless the function is deleted.
EventuallyConcluded ==
    \A e \in Events :
        client[e] = "accepted" ~> (ended[e] > 0 \/ e \in swallowed \/ deletion # "none")

\* After a delete that met no version in the middle of its start, the pollers
\* of the function end and its queue is deleted.
DeleteCleansUp ==
    (deletion = "done" /\ ~overlapped) ~>
        (~queueExists /\ \A v \in Versions : PollerJoined(v))
=============================================================================

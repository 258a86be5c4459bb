# Verification of LocalEmu's queues, functions and state

LocalEmu emulates AWS services in one Python process. Request handlers, worker
threads, timers and containers share in-memory state, some of it under locks
and some not, and a snapshot of that state is written to disk while it changes.
This directory holds TLA+ models of the parts where that sharing decides whether
the program keeps its promises, the TLC configurations that check them on small
instances, and TLAPS proofs of the safety properties that matter most for
instances of any size.

Paths below are relative to `src/src/localemu/`.

## 1. Inventory

| Component | State | Operations | What is hard | What makes it correct |
|---|---|---|---|---|
| SQS standard queue (`services/sqs/models.py`, `queue.py`) | heap of visible messages, in-flight dict, delayed set, receipts | put, receive, remove, update_visibility_timeout, clear, requeue, delay, retention | `receive` takes no lock; the retention loop holds another lock than `receive` | a message is in one place, is not lost, is not delivered after its deletion, comes back after its timeout |
| SQS FIFO queue (`services/sqs/models.py`) | message groups with a heap each, queue of groups, groups in flight | the same, by group | groups are taken and marked without the mutex; a purge replaces the group objects under a running receive | order within a group, no group is forgotten |
| SQS update worker (`services/sqs/provider.py`) | a thread | one pass per second over every queue | iterates over dicts and sets other threads change; a failing pass must be made up for | what is due becomes visible |
| SQS requests and store (`services/sqs/provider.py`) | queues by name, recently deleted queues | create, delete, purge, attributes, redrive | a queue is deleted under a waiting receive; the dead-letter queue is gone | calls end; dead letters arrive |
| SQS message move tasks (`services/sqs/provider.py`) | tasks with a status, a cancel event and a thread | start, submit, cancel, move one message after another, close | a task is checked, stored and submitted in steps; put and remove are two steps; the message becomes visible again meanwhile | one task per source; moved once, never lost |
| SQS deduplication (`services/sqs/models.py`) | deduplication ids | look-up and record | unlocked look-up | one message per id |
| Lambda execution environments (`services/lambda_/invocation/`: `execution_environment.py`, `assignment.py`, `version_manager.py`, `executor_endpoint.py`, `docker_runtime_executor.py`) | status, two timers, container, endpoint with two futures, the dict of environments | start, reserve, invoke, release, stop, timeouts, scaling | threads of invocations, timers, the provisioning pool and the shutdown meet in one status; containers answer late or never | one user at a time, the right answer, no hanging call, no container left behind |
| Lambda concurrency accounting (`counting_service.py`) | counters by function | lease and return | limits computed from settings that change meanwhile | limits hold, leases come back |
| Lambda function versions (`lambda_service.py`) | starting and running version managers, event managers | create, update (rollover), delete | a rollover holds a lock that a delete does not take; clients look managers up before they use them | one poller; nothing left after a delete |
| Lambda asynchronous invocation (`event_manager.py`) | internal queue of events, a poller thread, a pool of handlers | poll, invoke, retry, destinations, dead letters, stop | retries after failures, rollover or shutdown in the middle | every event ends in success, a destination or a dead letter, after a bounded number of attempts |
| Lambda event source mappings (`event_source_mapping/`) | worker state, shard iterators | start, stop, poll, retry | state changes against a running poller | no record is skipped |
| Service lifecycle (`services/plugins.py`) | state of each service | require, start, check, stop | concurrent first requests | a service starts once |
| Persistence (`state/persistence.py`) | one file per store, body files with an index, a manifest | scheduled, manual and final save, load at start | three savers share one lock; clients write during a save; a crash between two files | what a complete save captured is restored; an object has its body; a shutdown saves |
| Runtime lifecycle (`runtime/`) | ready, stopping and exit events | start, shutdown handlers | shutdown during a save | handlers run once, in order; a shutdown ends |
| SNS, schedulers, pipes, Step Functions, CloudFormation, S3, the protocol layer, CLI | see `PROJECT.json` | | | |

How they interact: the SQS worker and request threads share the queue objects;
a receive hands dead letters to another queue of the same store. An `Invoke`
request takes a lease from the counting service, an environment from the
assignment service, and waits on a future that the environment's container
completes through the executor endpoint's HTTP routes; timers and
`LambdaVersionManager.stop` change the same environment at any moment.
Asynchronous Lambda invocation is built on an internal SQS queue, and a move
task receives from a queue as clients do: both are modelled on top of
`SqsContract`. Event source mappings poll SQS queues and streams and call the
same version manager. Persistence reads the stores of all services while they
serve requests, and is itself started and ended by the runtime.

`PROJECT.json` lists every component with its status, and the hazards with the
line where they bite and the properties that would notice them; section 6 has
more of them, which no property is about.

## 2. Modules

| Module | What it models |
|---|---|
| `SqsContract` | abstract: what a standard queue promises about each message |
| `SqsStandardQueue` | one standard queue, its receivers, the other API calls, the worker with its retention loop, the dead-letter part of `receive_message`; implements `SqsContract` |
| `SqsStandardQueueProofs` | type correctness and single place, for any number of messages and consumers |
| `SqsDeliveryProofs` | nothing lost, the receive limit, no delivery after a delete, the latest handle; extends `SqsStandardQueueProofs` |
| `SqsContractProofs` | `SqsStandardQueue` implements `SqsContract`; extends `SqsDeliveryProofs` |
| `SqsFifoQueue` | one FIFO queue with groups, purges, delays, retention and dead letters |
| `SqsFifoQueueProofs` | type correctness, order of first deliveries, no stranded group, for any groups, messages and consumers |
| `SqsMoveTasks` | the move tasks of one source queue, over `SqsContract` |
| `SqsMoveTasksProofs` | types, one mover, nothing lost, nothing doubled, prompt cancels, for any number of messages, tasks and targets |
| `LambdaEnvironments` | the environments of one function version, the calls of `invoke`, both timers, the shutdown, provisioned concurrency |
| `LambdaEnvironmentsProofs` | type correctness, exclusive use, keepalive, answers, provisioned environments, for any number of invocations, environments and updates |
| `LambdaEvents` | asynchronous invocations of one function through rollovers of its versions and its deletion, over `SqsContract` |
| `LambdaEventsProofs` | type correctness, one poller, events kept, no extra attempts, for any number of events, versions, retries and faults |
| `Persistence` | saves, crashes, shutdowns and restarts of the process |
| `PersistenceProofs` | types, what was saved survives, objects have bodies, a shutdown saves, for any stores and items |
| `MC...` | constants for TLC |

Definitions named as mutants (`NeverDeleted`, `ReservableInUse`, ...) are
plausible mistakes in the definition below them. They are not used by the
specification; replacing the definition by the mutant makes the property it is
listed with in `PROJECT.json` fail, which shows that the property depends on
that piece of code.

### Standard queue

A step is a section under the queue's mutex or, in `receive`, a single access
to shared state: pop from the heap, look at `deleted` and count, add a handle,
register it, put the message in flight or back. The worker's retention loop
looks at the head of the heap and pops in two steps, since `receive` pops under
the heap's own lock and not under the mutex. A message is the number of its
creation, which orders the heap as the creation time does. Deadlines are
abstracted to whether they have passed; the actions `VisibilityElapses`,
`DelayElapses` and `Age` make them pass at any time. The heap is a bag with a
minimum: that an unlocked `list.remove` and `heapify` could leave the list in a
wrong order for a concurrent `heappop` is below this abstraction. A worker pass
may be aborted by the `RuntimeError` of an iteration over a dict that grows. With
Python 3.13 a receive that puts a message back (`put_nowait`, `models.py:947`)
into the heap of a queue deleted meanwhile raises `ShutDown` instead; the model
puts it back, where nobody can receive it any more.

### FIFO queue

`receive` takes a group off the queue of groups, checks and marks it and pops
from it; the first two without the mutex, the last under it, one message per
step. A `MessageGroup` object is identified by its group and the number of
purges before it was created, because a running receive or put may still hold
an object `clear` has dropped. The same holds for a receive that has moved a dead
letter: it fetches the group (`DeadLetterPut`) and updates it
(`DeadLetterUpdate`) in two sections of the mutex (`provider.py:1216-1217`), and
the object it has fetched may be out of use when it decides whether the group is
visible again. Two variables record history for a property only: `fruitless`,
the groups a receive has marked since the last purge without getting a message of
them, and `mistaken`, the groups whose mark such an old object has removed. A put
reads `inflight_groups` twice under the mutex (`models.py:1165-1173`), while
`receive` adds to it outside (1261); the model reads it once. A put creates its message, with its sequence number, before it takes the
mutex. Deduplication decides whether a send is a put at all and is left out.

### Lambda environments

An environment is a number, the order of its creation. Its `starter`, `stopper`,
`startupTimer`, `armed`/`fired`/`timingOut` variables say what the threads in
`start()`, `stop()`, the startup timer and the keepalive timer do next; `pc`
says it for each `LambdaVersionManager.invoke`. Steps end where locks are
released, futures are waited for or the container engine is called, so every
status check can be overtaken by another thread before its result is used.
`ExecutorStop` (stop and remove the container, then shut the endpoint down) is
one step. A container is external: it reports ready or error, or never.
A post of a request is a step of its own: it returns, is refused, or
its connection breaks and it is posted again, up to `MaxPosts` times. The
container may have read the request whose connection broke, so it can work on a
request more than once, and it answers as often as it has read it, at any later
time, or never. A post has no timeout (`executor_endpoint.py:267`): a container
that runs and does not respond keeps it for ever. An exception in
`_do_start` may come before or after the container exists. A second `stop()` of
an environment that `start()` has revived is joined with the first. The order
in which the environments of a snapshot are tried is left open.

`LambdaVersionManager.invoke` always gets an on-demand lease; the limits of the
counting service are not part of the module. `PutConfig` and
`UpdateProvisioned` are two steps, as in the provider, so an invocation can see
a configuration without a state.

`SlowStart` says whether the startup timer may pass while the container is
still being created; the default timeout is 20 s, so with a slow image pull it
can. It is TRUE in all passing runs; see section 6.

### Contract of a queue, and what is built on it

`SqsContract` has one variable for where each message is (`unsent`, `waiting`,
`out`, `dead`, `gone`) and one for how often it was taken. `SqsStandardQueue`
implements it: `KeepsContract` instantiates the contract with the mapping
`ContractPlace`: a message in flight or among those a receive has counted for
itself is out; one on the heap, in the delayed set or just popped by a receive
or by the worker is still waiting, as its receive is counted later.
Every step of the many-step `receive`, of the worker and of the API calls must
be a step of the contract or a stutter, so a deletion that comes between two
steps of a receive takes effect once and for all, and nothing but the contract's
actions makes a message disappear or reappear.

`LambdaEvents` and `SqsMoveTasks` use the contract's actions for their queue.
What they rely on (a deleted message stays deleted, a message that timed out
returns, a handle of an earlier receive still deletes) is what the refinement
shows of the code. Time is left out of the contract: `LambdaEvents` and
`SqsMoveTasks` add the liveness they need as fairness of the return of messages,
which `EventuallyVisibleAgain` checks of the detailed queue.

### Message move tasks

`pc` is the thread of a task, from its creation by the request
(`created`), over the wait for a thread of the pool (`queued`), through the loop
of `_run`: condition, look-up of the source, receive, look-up of the target,
put, remove. `StartMessageMoveTask` and `Submit` are two steps, as the manager's
mutex is released between the check for active tasks and the submission; cancel
changes the status and the event without the thread's consent; the thread reads
the event and sets its final status in two steps. `Destination` is the queue a
task was started with, if any; the put to a target may fail for the messages in
`Refusable`, those without a group that a FIFO target refuses.

Clients send, receive, delete and purge on the source, and queues are deleted, at
any time. A receive, of the task or of a client, pops the message, registers its
handle and puts it in flight in three steps without a lock
(`models.py:895-949`). A purge in between leaves the message, which is neither on
the heap nor in flight, but forgets its handle: `known` and `held` say which
handles the receipts still have, and `spared` counts these purges. A `remove`
with a handle that is not known does nothing; one that meets another handle of
the message which the receipts lack (`torn`) raises a `KeyError`.

A message arrives once, so an endless stream into the source is not covered by
`TaskEnds`. All calls come from the account and region of the source: the check
for other tasks looks into the caller's own store. `Targets` does not contain
the source. The rate limit (a wait between two messages) is
left out, so that a move is never slower than the model's other steps.

### Asynchronous invocations

An event is what a client's `invoke` hands over; a message is one sending of it
to the internal queue; a delivery is a message with the count of its receive. A
handler is a record of the delivery, the version whose poller submitted it, and
its place in `handle_message`. `UpdateVersionState` and the `Rollover` steps are
`update_version_state` up to the release of its lock; `PopManager` and
`PopVersion` are `stop_version`, which takes none. `StopPoller` with
`PollerJoined` is the stop of an event manager under its `lifecycle_lock`:
handlers that wait in the pool are cancelled, the poller's thread is joined,
handlers at work go on. Running the function is one step that may raise,
return a result or an error; its inside is `LambdaEnvironments`. `Fault` bounds
what is not part of every run: throttles and system errors, visibility
timeouts that run out on a message being handled, a join of a poller that times
out (`abandoned`), an event that grows too old, a reservation of zero, a delete
of the function.

### Persistence

A save is a sequence of steps: remove the old body files, stream each body,
write the index, dump each store (its file is replaced as a whole), write the
manifest. `saver` is the holder of `_SAVE_LOCK`. Clients create and delete
resources, put objects (body first, then metadata) and delete them (metadata
first, then body), and create and delete buckets between any two of them. `torn`
says that such a call has changed a dict over which the save iterates, so that the
iteration will raise. `phase` is the
runtime's: `Exit`, the shutdown handlers with the final save, `StopServices`
(which clears the bodies in memory and shuts every SQS queue down: a queue stored
after that gives no message when it is restored, so the store is taken as empty),
`Return`. `Crash` is possible in every phase; `Start` restores what the manifest
and the index list. `completed`, `disturbed`, `clean`, `atExit`, `skipped`,
`failed`, `late`, `orderly` and `lost` record history for the properties only. A
manifest without stores is treated like no manifest.

Every write of a save may fail. Without the directories or the manifest the save
raises, which its caller logs (`SaveRaises`). When the old body files cannot be
removed (`WipeFails`) or the index cannot be written (`IndexFails`) it goes on
without an index. A dump that fails (`DumpFails`) leaves its store out of the
manifest, a body that cannot be read (`StreamFails`) is left out of the index.
An object that is put again keeps its name; which bytes a restored body has is
not distinguished.

## 3. Runs

| Run | Instance | Shows |
|---|---|---|
| `standard_queue` | 2 messages, 2 consumers, batches of 2, receive limit 1, 2 calls, retention | `SinglePlace`, `NoLoss`, `ReceiveLimit` |
| `standard_redelivery` | 1 message, 2 consumers, 3 calls, receive limit 2, fairness | `KeepsContract` (the refinement), `NoDeliveryAfterDelete`, `LatestHandleWorks`, `EventuallyVisibleAgain` |
| `standard_retention_race` | 2 messages, 1 call | **violated**: the retention loop discards a message that has not expired |
| `fifo_queue` | 2 messages, 2 groups, 2 consumers, 3 calls, batches of 2, limit 1, 1 purge, stale handles | `FirstDeliveryInOrder`, `NoStrandedGroup` |
| `fifo_liveness` | 2 messages, 1 consumer, batches of 2, limit 1, delay, retention, vanishing dead-letter queue, fairness | `EventuallyOffered` |
| `fifo_overtaken` | 2 messages, 2 consumers, batches of 2 | **violated**: a message overtakes an invisible one of its group |
| `move_tasks` | 2 messages (one refusable), 2 tasks (one with a destination), 1 target, receive limit 2, 1 receive of a client, fairness | `OneMover`, `MovedOrKept`, `MovedOnce`, `CancelIsPrompt`, `TaskEnds` |
| `lambda_environments` | 2 invocations, 2 environments, 2 posts, shutdown, slow starts, fairness | `ExclusiveUse`, `KeepaliveNeverInterrupts`, `OwnAnswer`, `InvocationEnds`, `ContainersStop` |
| `lambda_provisioned` | 1 invocation, 2 environments, 2 updates to 0 or 1, 2 posts, shutdown, slow starts | `ProvisionedStaysInService` |
| `lambda_new_environment` | 2 invocations, 2 environments | **violated**: a new environment is taken by another invocation, and the one that started it fails |
| `lambda_events` | 1 event, 2 versions, 1 retry, 1 fault, fairness | `EventKept`, `NoExtraAttempts`, `OnePoller`, `EventuallyConcluded`, `DeleteCleansUp` |
| `persistence` | the stores of S3 and SQS, 1 item, all three strategies, 2 calls of clients, 1 failing write, 1 end of the process, fairness | `SavedSurvives`, `ObjectsHaveBodies`, `ShutdownSaves`, `EventuallySaved`, `ShutdownEnds` |

Why the bounds are enough to be interesting. Two messages make a head and a
rest, two consumers overlap in every way two threads can, and a batch of two
makes a receive hold one message while it pops another; with a receive limit of
1 the second receive of a message is a dead letter. `standard_redelivery` uses
one message and three receives, which gives two stale handles beside the
current one, and the third receive makes a dead letter. The three
calls of `fifo_queue` are what it takes for two receives to hold one group while
a third has already emptied it (section 6). Two invocations and two
environments contain the searches that overlap with registration, keepalive and
shutdown; a third invocation would only queue behind them. Two updates overlap
as scale-up and scale-down.

In `move_tasks` the second task may start while the first is created, moves, is
cancelled or has failed with its message still in flight, and the receive limit
of 2 lets a message come back once and then die. In `lambda_events` one event
meets a rollover in every state; it can be sent four times and each message
received four times, more than it ever needs: with smaller bounds
`EventuallyConcluded` fails, because the model stops where the code would go
on, so the property itself shows that the bounds do not cut anything off. The
one fault is any of those listed above, once; a delete is one of them, so
that deletes meet rollovers and invocations, but no second fault. In
`persistence` the process ends once, by a crash or a shutdown at any step of a
save, and is started again; two calls put an object and delete or replace it,
and the one failure hits any write. Longer sequences are left to the theorems.

Two runs have a `CONSTRAINT` beside the bounds. In `lambda_environments` the
invocation that starts the first environment is named `i1` (`FirstStarted`).
Invocations have no other difference, so this drops renamed behaviours only, and
unlike a symmetry set it can be used with liveness. In `move_tasks` the search
stops where no thread of a task is at work and no task can be started any more
(`TasksToCome`): from there only clients could go on, and every property is about
tasks. It also starts `t1`, the task without a destination, before `t2`; the
other order is left to the theorems.

Some cases are too long for any run and are covered by a theorem alone: that an
object from before a purge unmarks a FIFO group with messages takes a third
message, and with three messages `fifo_queue` does not end in reasonable time.

The bounds are constants used in guards (`MaxMessages`, `MaxReceives`,
`MaxPurges`, `MaxEnvs`, `MaxPosts`, `MaxProvisioned`, `MaxVersions`, `MaxSends`,
`MaxTakes`, `MaxFaults`, `MaxCalls`, `MaxFailures`, `MaxEnds`). Where a run says
`CHECK_DEADLOCK FALSE`, the system may stop: all messages are sent and gone, the
queue is deleted, or every call has ended.

Symmetry is used for consumers, message groups and updates, in runs without liveness only.

### Fairness

SQS: deadlines pass; the worker's thread loops for ever with a sleep of one
second and catches what a pass raises; a request thread that is in `receive`
keeps running. Nobody has to send, receive, delete or purge.

Lambda: the threads of an environment (start, stop, both timers) and of an
invocation keep running, and a timer that was started passes; an invocation's
wait ends by its own timeout at the latest. Containers need never report, respond
to a post or answer, and nobody has to call anything; only the connection to a
container that does not run breaks. Fairness is stated for the threads of
an environment together, which is weaker than for each of them.

Asynchronous invocations: pollers, pool threads, the task executor, API calls
that have begun and the worker that returns messages keep running. Clients,
time and the result of an invocation are free.

Move tasks: the thread of a task keeps running; nobody has to call, and messages
need not return.

Persistence: the thread that saves, the scheduler (its interval ends) and the
one that shuts down keep running. No crash, shutdown, restart or request has to
happen.

## 4. Proofs

The theorems are about the same modules the runs use. The constants are
unbounded: they are sets, Booleans and natural numbers (`QueueAssumption`,
`FifoAssumption`, `EnvironmentsAssumption`, and `ConstantsAssumption` of
`LambdaEvents`), a batch has at least one message, a "none" value is not a
member of the set it stands beside, `S3` is one of the stores, the strategies
are the three the code knows (`ConstantsAssumption` of `Persistence`), and the
source queue is not a target (`ConstantsAssumption` of `SqsMoveTasks`). One
theorem has a hypothesis of its own, `FirstDeliveriesOrdered`; see below. Each
inductive invariant was checked with TLC before its proof.

**Standard queue.** `TypeCorrect` is inductive as it stands. `MessageInOnePlace`
proves `SinglePlace` from `PlaceInv == TypeOK /\ SinglePlace /\ UnsentNowhere`:
`Put` adds a message to a place, which keeps it in one place only because a
message that was not sent yet is nowhere. The rest of the argument is that every
step that adds a message to a place has just taken it from another, or holds it
in the variables of its call. Two lemmas on sequences without repetition
(`TailRange`, `AppendRange`) carry the steps that move messages between a
call's lists and the queue.

`SqsDeliveryProofs` first states, for each action, where the messages it touches
go, and then uses these facts for four invariants. `MessagesNotLost` needs
`KeptInv`: besides being in one place, what was purged, expired or could not be
delivered is nowhere any more, so that `NoLoss` is not true of a message for
two reasons that later contradict each other. `ReceivesLimited` needs
`HandleInv`: the limit is checked when a receive counts, but reaches the client
several steps later, so the lists of the call, its result and the handles at the
clients must all be within it. `DeletedNotDelivered` needs `FreshInv`: what a
call holds was not deleted when the call began, because the deleted flag is read
after the pop; the copy that is still queued is harmless. `LatestHandleKept`
needs `LatestInv`, which says of a receive between the registration of a handle
and the message's going in flight what the property says of messages in flight.

`QueueKeepsContract` is the refinement, from `ContractInv == KeptInv /\
HandleInv`. One lemma per action shows that it is a step of the contract or
leaves `ContractPlace` and the counts as they are. The cases that need the
invariant are those in which two threads have to do with one message: a delete
while the message is popped by another call, a purge while a call holds
messages, and the return of a deleted message by a worker that had taken it.

**FIFO queue.** `TypeCorrect` is inductive as it stands.
`FirstDeliveriesOrdered` assumes that the queue has no delay, since with one the
property is false (section 6). It needs `OrderInv`: a stored message that was
neither received, purged nor expired waits in the heap of its group
(`UnsettledWaits`), so that the minimum of the heap is never later than it. What
makes this hard is the purge, after which a call may still pop from, or put to,
the heap of an object that is no longer in use: `LeftBehind` says that
everything sent before a message of such a heap was received, purged or expired,
so that its late delivery overtakes nothing.

`GroupsNotStranded` has no such assumption. It needs `StrandInv`, of which two
parts carry the argument. `UnmarkedOffered`: a group that has messages and is
not in `inflight_groups` is in the queue of groups or with a receive that is
about to check or mark it, or it is `mistaken`. `MarkedGuarded`: one in `inflight_groups` has a
message in flight, or in the hands of a receive, or a receive that is about to
pop from it, and the end of any of these will unmark or queue it. The first
attempt to prove it failed, for a good reason: a receive can mark a group and
find nothing in it, which leaves it marked for ever. The exception `fruitless`
says exactly this. The exception `mistaken` is as narrow: a group is unmarked by
an object from before a purge, and ceases to be excepted as soon as it is marked
again. Both are described in section 6.

**Lambda environments.** `EnvironmentUsedByOne` and `KeepaliveSafe` follow from
`UseInv`. The status does not determine the user: an environment may be stopped
while in use, and `start()` sets READY without looking at the status. So the
invariant says that an environment in READY or TIMING_OUT has no user, that one
a keepalive thread is about to stop has none and is not READY, and that before
`start()` has returned nobody has got the environment, which is why the
unconditional READY is harmless here.

`AnswerBelongs` needs `AnswerInv` beside it: an on-demand environment to which no
request was posted twice works on
the request of its endpoint's current future only, and on none when somebody
can reserve it. Whether a request was posted twice is known per environment, as
the second answer may go to a later caller. It is this, and not a comparison of request ids, that gives
every caller its own answer; `release()` after an exception would break it,
which is what the mutant `AlwaysRestored` shows.

`ProvisionedStays` needs `ServiceInv`: keepalive timers exist for on-demand
environments only, the shutdown and the scale-down leave a trace before they
stop anything, and the environment a failed invocation gives back is INVOKING.

**Move tasks.** `OneMoverAlways` rests on `MoverInv`: a thread is at work only
while the status of its task is one of the active ones. That is why the check at
the start, under the manager's mutex, is enough although it reads the status and
not the threads: the thread sets a final status as its very last step, and a
cancel sets another active one.
`MovedOrKeptAlways` rests on `KeptInv`: a thread that is about to remove its
message has put it to the target, and nothing else of a task takes a message out
of the source, but for dead letters. `MovedOnceAlways` rests on `CopiesInv`: a
message that is in the source was put to a target at most as often as purges have
spared it, and once more only while the thread that has put it holds a handle
that the receipts know. With `OneMover` this excludes a second copy when the
message returns to the source between put and remove. If a purge has taken the
thread's handle, it has been counted in `spared` before the put, or the message
is gone, since a purge finds every message that no receive is busy with.

`TypeCorrect` uses `MoverInv`, which knows what the thread of a task has in its
hands. `CancelIsPromptAlways` rests on `PromptInv`: a thread that has begun a
receive since its task was cancelled is past the look-up of the source, every
way back leads through the condition of the loop, and nothing clears the event
of a task that runs.

**Asynchronous invocation.** `TypeInv` splits `TypeOK` into parts that most
steps leave alone. `OnePollerAlways` rests on `PollerInv`: as long as the
function is not deleted only an update stops event managers, a version becomes
manager once, and how far the update has come determines whose poller may work.
This is where the order of `stop_for_update`, join and start matters.

`EventsKept` rests on `KeptInv`: of all messages of an event it is the last one
that keeps it. A handler sends the next message before it deletes its own, or
holds the event in its hands when it has deleted it first; one that has only the
delete left has concluded the event or is not the last.
`NoExtraAttemptsEver` rests on three invariants: `HolderInv` (a message whose
event was never redelivered is with one handler or in one batch), `TokenInv`
(every message but the last will not make the function run again) and
`AttemptInv` (the retry number of the last message bounds the answers so far).
Together they say that an event is a token that one message carries at a time.

**Persistence.** `SavedSurvivesAlways` needs `SaveInv`: as long as the process
runs, the stores contain what the last complete save captured and nobody has
deleted since, so a file that a later save replaces before it breaks off has at
least that; only the stop of SQS takes more out of a store than clients do.
`ObjectsHaveBodiesAlways` needs `BodiesInv`: while the services run an object has
its body, unless it was lost before, and
an undisturbed save has every body among those streamed, or yet to be
streamed, and then in the index, before it dumps the objects. Deletes of bodies
count as disturbances only while the save iterates over them.
`ShutdownSavesAlways` needs
`ShutdownInv`: the stores contain, and so the final save and any manual save
after it dump, what there was when the shutdown began and was not deleted, and a
save that does not raise dumps every store before it writes the manifest.
`TypeCorrect` is inductive as it stands.

Only checked with TLC: the liveness properties (`EventuallyVisibleAgain`,
`EventuallyOffered`, `TaskEnds`, `InvocationEnds`,
`ContainersStop`, `EventuallyConcluded`, `DeleteCleansUp`, `EventuallySaved`,
`ShutdownEnds`), which are outside the prover's reach as they need fairness and
ENABLED. The three properties of section 5 are false. Every other property of
the runs is a theorem.

## 5. Disagreements between code and documentation

1. `standard_retention_race`: `remove_expired_messages_from_heap` tests
   `heap[0]` and pops later; a receive in between pops the expired head, and
   the loop discards the next message, which has not expired
   (`services/sqs/models.py:782-787` against the docstring at 769-770).
2. `fifo_overtaken`: `_put_message` reopens a group when any of its messages is
   put back, so a later message is delivered while an earlier one is in flight
   and invisible (`services/sqs/models.py:1168` against 1225-1227).
3. `lambda_new_environment`: a new environment is registered before it is
   reserved (`services/lambda_/invocation/assignment.py:86-90`); when another
   invocation is faster, the one that started it fails with
   `InvalidStatusException` instead of being served.

## 6. Observed while modelling, not a run

SQS:

- After a purge in the middle of a receive, `remove` can raise `KeyError` for a
  handle that is gone (`models.py:548-550`, action `RemoveKeyError`).
- Dead letters are off the queue before the target is looked up; if it was
  deleted they are lost with the failing call (`provider.py:1201`,
  `models.py:922`). `NoLoss` counts them as `undeliverable`.
- With a queue delay, the due messages are collected from an unordered set with
  one clock reading each (`models.py:633`): a later message may be found due in
  a pass that missed an earlier one. The FIFO runs check order without a delay.
- The pre-delete check of a FIFO queue looks at the message's visibility, not
  at the receive that issued the handle (`models.py:1079`, 1335-1336). A TODO at
  `models.py:1254-1257` knows of a related case.
- The FIFO requeue pass stops at the first invisible message, of any group
  (`models.py:1182-1186`); messages behind it wait for it. That
  `EventuallyOffered` holds means that they get back into the heap of their group,
  not that a receive gets them: the group may be marked or stranded.
- A FIFO group can stay marked in `inflight_groups`. `receive` asks whether
  the group is empty, marks it and pops from it in three steps, only the last
  under the mutex (`models.py:1249-1268`). If a second receive that has the same
  group (a message that was put back has queued it again) pops everything and
  its messages are deleted before the first marks the group, or if the pop finds
  only messages that were deleted, or none because the rest expired, nothing is
  in flight whose end would unmark the group. `_put_message` does not queue a
  marked group for a new message (1165-1166), so later messages of it are not
  delivered until a purge. `NoStrandedGroup` excepts these
  groups, while they are marked, as `fruitless`. The TODO at
  `models.py:1256-1257` asks about the case of retention only.
- A purge replaces the group objects, also between the two sections of the mutex
  in which a receive fetches a group after it has moved a dead letter and updates
  it (`provider.py:1216-1217`). If new messages were sent and another receive has
  marked the group meanwhile, the old, empty object unmarks it without queueing it,
  and its remaining messages wait until something queues the group again.
  `NoStrandedGroup` excepts these groups, while they are unmarked, as `mistaken`.
- A purge between the registration of a handle and the message's going in flight
  (`models.py:942-949`) leaves the message without a handle: the client cannot
  delete it, and a move task that has put it to its target removes nothing
  (`models.py:531-537`), so that the message is moved again. `MovedOnce` allows
  one more copy for each such purge.
- The check for other move tasks looks into the store of the caller's account and
  region (`provider.py:1475-1486`), while the source is found by its ARN: callers
  of two accounts can start two tasks on one source. `OneMover` is about one
  account and region.
- A FIFO target refuses a message without a group (`models.py:1104`), which fails
  the task; the message stays in the source.
- Cancelling a move task that has ended leaves it CANCELLING for ever, and the
  next start is refused with "There is already a task running"
  (`provider.py:1488-1491`; the TODO at 1528).
- A cancel between the creation of a task and its submission is lost:
  `mark_started` clears the event.
- A task whose source has a dead-letter queue itself drops the dead letters its
  receive finds: `NotImplementedError` after they were taken off
  (`provider.py:533-534`). `MovedOrKept` counts them as `dropped`.
- A message that returned to the source during its move may be made a dead letter
  by another receive: it is then both moved and dead-lettered.
- A task with the source as its destination need not end; the model keeps the
  source out of `Targets`.
- After `close`, a task that waited for a thread stays RUNNING.
- Moving to a FIFO queue within the deduplication interval swallows the message:
  the put returns without a new message, then the source's is removed. Not
  modelled.

Lambda:

- When the startup timer passes before the container exists, `stop_container`
  raises, the endpoint is not shut down and the timer is spent; if the container
  then never reports, `wait_for_startup` waits for ever
  (`docker_runtime_executor.py:497`, `executor_endpoint.py:183`; the comment at
  186 suspects it). If it reports an error, `start()` raises the timeout and
  nothing stops the container (`execution_environment.py:262-265`).
  `InvocationEnds` excepts the first case (`Unwatched`), `ContainersStop` an
  environment that stays STARTUP_TIMED_OUT.
- A request is posted without a timeout (`executor_endpoint.py:267`), and the limit
  of the wait for the answer (235) starts after the post. A container that accepts
  the connection and does not respond keeps the call, its environment and itself,
  until the version is stopped. `InvocationEnds` and `ContainersStop`
  except it (`Hangs`); the comment at 218 wants the call to end.
- A request is posted again after a `ConnectionError`, also when the container has
  read it (`executor_endpoint.py:265-294`). The container then answers twice; the
  second answer is logged as a duplicate, or given to the next caller if that one
  already waits (133-153). `OwnAnswer` excepts environments where this happened.
- `start()` sets READY after a startup timeout (`execution_environment.py:258`);
  the environment is given out although its container is being removed. The
  invocation fails and an on-demand environment is stopped again. A provisioned one
  stays READY without a container: "in service" in `ProvisionedStaysInService`
  means registered, READY or INVOKING, not that its container runs.
- A provisioned environment goes back to service after an invocation has timed
  out, and the late answer is given to the next caller, whose request id is not
  compared (`executor_endpoint.py:147`). `OwnAnswer` is about on-demand
  environments for this reason.
- `success_count` counts what an update has just started or stopped, so scaling
  from 1 to 2, or to the present number, ends as FAILED
  (`version_manager.py:183-199`).
- A configuration is stored before the version has a provisioned state
  (`provider.py:3572`); an invocation in between fails with `AttributeError`.
- A provisioned environment that still waits in the provisioning pool when the
  version stops is started afterwards and never stopped (`assignment.py:164`).

Asynchronous invocation and versions:

- In a rollover the new event manager is registered before it has started; an
  event of a client in between is refused (`lambda_service.py:535` says that
  the old version is active until the new one is ready). `EnqueueEvent` rejects
  it; `EventKept` is about accepted events.
- `EventuallyConcluded` takes it that `version_manager.invoke` returns, which
  `InvocationEnds` shows but for its two exceptions.
- `exception_retries` is never incremented, so the delay after system errors is
  always the first one, against the comment at `event_manager.py:330-331`.
- `stop_version` takes no lock (the FIXME at `lambda_service.py:625`). When it
  meets a version that starts, a poller and the queue may be left behind, the
  rollover may end with a `KeyError` and leave the old version unstopped, or
  two pollers may run. `OnePoller` and `DeleteCleansUp` exclude that case.
- A poller that outlives the join's timeout of three seconds runs beside the new
  one (`event_manager.py:594-597` logs it); it submits nothing more, and what it
  receives waits for its visibility timeout.
- `delete_message` can raise `KeyError` when another receive has the message in
  its hands (see the queue's `remove`); the handler thread ends and the event with
  it. `EventKept` counts it as `swallowed`; it takes a message that timed out
  while being handled.

Persistence:

- The final save is skipped, with a log line only, when another save holds the
  lock (`persistence.py:141-149`), and what was created after that save had
  dumped its store is lost; the comment at 968 and the repository's README say
  that state is saved on shutdown. `ShutdownSaves` excludes the skipped case.
- A final save that raises, because its directories or the manifest cannot be
  written, is logged and swallowed (`persistence.py:973-974`), and what changed
  since the last complete save is lost. `ShutdownSaves` excludes it as `failed`.
- The endpoint that saves answers during a shutdown too, also after the services
  have stopped; it then replaces a good snapshot by one whose objects have no
  bodies and whose SQS queues are shut down (`sqs/provider.py:719-721`) and give
  no message after the restart.
- An object put during a save can be saved without its body. A put, a delete of
  an object, or a bucket that comes or goes can break the iteration over the
  bodies (`persistence.py:318-325`), and then no index is written at all:
  objects the call had nothing to do with lose their bodies too. The same follows
  from body files that cannot be removed or an index that cannot be written
  (309-312, 366-368), after which the save goes on and counts as a success.
- The body files of the previous snapshot are removed first: a crash after that
  loses bodies that were saved.
- A dump that fails drops its store from the manifest although the older file is
  still there. After a load that failed, the next save overwrites what could not
  be read.

## 7. Not modelled

SQS: attribute changes on a live queue, permissions and tags, deduplication, the
rate limit of move tasks, move tasks of other accounts and regions. Lambda: debug mode, managed instances, cold-start
simulation, logs and metrics, a function that is created again under the name of
a deleted one. Persistence: the load on request, version checks and load errors,
the assets of DynamoDB, the CloudTrail event file, the contents of service hooks.

Everything `PROJECT.json` lists as `not_modelled`, with the reason given there:
wrappers around external servers and containers, generated code (`aws/api`, the
ASL parser), pure data conversion, user interfaces. These are most of the
repository's lines; each of the many providers is a store behind request
handlers, and the models here cover the machinery they share and the services
with threads of their own.

## 8. Plan

Done: the standard and FIFO queues, the execution environments, the contract of
a queue with the refinement, asynchronous invocations over it, move tasks over
it, persistence with crashes.

Proved: every invariant the passing runs check and the refinement of the
contract.

Left, in this order:

1. Proofs beyond the runs' properties: that a FIFO queue, like the standard one,
   keeps a message in one place and loses none, and what a step may never do
   (a deleted message returns, a completed task runs again) as action properties.
2. `LambdaConcurrency`: leases against reserved, unreserved and provisioned
   limits, composed with `LambdaEnvironments` through the lease.
3. `ServiceLifecycle`: concurrent `require`, start and stop of services.
4. Deduplication of FIFO queues.

------------------------- MODULE LambdaEventsProofs --------------------------
(***************************************************************************)
(* Proofs about asynchronous invocations, for any number of events,        *)
(* versions, retries, messages and faults.                                 *)
(***************************************************************************)
EXTENDS LambdaEvents, FiniteSetTheorems, TLAPS

-----------------------------------------------------------------------------
(* The inductive invariants                                                *)

\* The types, by the thread or object that has the variables, and what they
\* need to be kept: a rollover knows its versions.
QueueTyped ==
    /\ place \in [Messages -> Queue!Places] /\ count \in [Messages -> 0..MaxTakes]
    /\ queueExists \in BOOLEAN
    /\ retries \in [Messages -> 0..MaxRetries] /\ sends \in [Events -> 0..MaxSends]

ServiceTyped ==
    /\ starting \in 0..MaxVersions /\ running \in 0..MaxVersions /\ manager \in 0..MaxVersions
    /\ request \in [Versions -> {"none", "checked", "preparing", "done"}]
    /\ deletion \in {"none", "begun", "done", "failed"}
    /\ tasks \subseteq {"manager", "version"} \X Versions

RolloverTyped ==
    /\ rollover \in [new : 0..MaxVersions, old : 0..MaxVersions, oldManager : 0..MaxVersions,
                     pc : {"idle", "stop", "join", "running", "manager", "start", "starting", "finish"}]
    /\ rollover.pc # "idle" => rollover.new # 0
    /\ rollover.pc \in {"stop", "join"} => rollover.oldManager # 0

ManagersTyped ==
    /\ started \subseteq Versions /\ stopped \subseteq Versions
    /\ shutdown \subseteq Versions /\ abandoned \subseteq Versions
    /\ stopping \in [Versions -> {"nobody", "update", "task"}]

PollersTyped ==
    /\ poller \in [Versions -> {"none", "receiving", "submitting", "ended"}]
    /\ batch \in [Versions -> SUBSET Deliveries]
    /\ handlers \subseteq Handlers

WorldTyped ==
    /\ client \in [Events -> {"none", "calling", "accepted", "rejected"}]
    /\ via \in [Events -> 0..MaxVersions]
    /\ zeroReserved \in BOOLEAN /\ aged \subseteq Events
    /\ faults \in 0..MaxFaults

HistoryTyped ==
    /\ answered \in [Events -> Nat] /\ ended \in [Events -> Nat]
    /\ redelivered \subseteq Events /\ swallowed \subseteq Events
    /\ overlapped \in BOOLEAN

TypeInv ==
    /\ QueueTyped /\ ServiceTyped /\ RolloverTyped /\ ManagersTyped /\ PollersTyped
    /\ WorldTyped /\ HistoryTyped

\* Behind OnePoller: a poller that works, and was not left to itself.
Working(v) == v \notin abandoned /\ poller[v] \in {"receiving", "submitting"}

\* Until the function is deleted only an update stops an event manager, a
\* version becomes manager once, and whose poller may work follows from how
\* far the update is.
PollerInv ==
    deletion = "none" =>
        /\ \A v \in Versions : <<"manager", v>> \notin tasks /\ stopping[v] # "task"
        /\ \A v \in Versions : request[v] = "preparing" <=> starting = v
        /\ \A v \in Versions : v \in stopped \/ poller[v] # "none" \/ v = manager
                                  \/ (rollover.pc # "idle" /\ v = rollover.new)
                               => request[v] = "done"
        /\ rollover.pc \in {"stop", "join", "running", "manager", "start", "starting"} =>
               rollover.new \notin stopped /\ poller[rollover.new] = "none"
        /\ rollover.pc \in {"stop", "join", "running", "manager"} => rollover.new # manager
        /\ rollover.pc \in {"stop", "join"} => rollover.oldManager = manager
        /\ rollover.pc \in {"start", "starting", "finish"} => rollover.new = manager
        /\ rollover.pc \in {"idle", "stop", "finish"} => manager \notin stopped
        /\ \A v \in Versions :
              Working(v) => rollover.pc \in {"idle", "stop", "join", "finish"} /\ v = manager

\* What was sent, who has it, and that nothing is left in a queue that does not
\* exist.
SentInv ==
    /\ \A m \in Messages : place[m] # "dead"
    /\ \A m \in Messages : place[m] = "unsent" <=> m[2] > sends[m[1]]
    /\ ~queueExists => \A m \in Messages : place[m] \in {"unsent", "gone"}
    /\ \A m \in Messages : InHands(m) => place[m] # "unsent"
    /\ \A e \in Events : sends[e] > 0 => client[e] = "accepted"
    /\ \A e \in Events : sends[e] = 0 => answered[e] = 0 /\ ended[e] = 0

\* The last message of an event.
Last(e) == <<e, sends[e]>>

\* An event is kept by its last message, by the handler that has its result, or
\* it needs no keeping any more.
Keeps(e) ==
    \/ ended[e] > 0 \/ e \in swallowed
    \/ place[Last(e)] \in {"waiting", "out"}
    \/ \E h \in handlers : h.delivery[1] = Last(e) /\ h.pc \in {"success", "failure"}

\* Behind EventKept: it is the last message of an event that keeps it.  A
\* handler that has only its message left to delete has concluded the event or
\* sent a later message.
KeptInv ==
    /\ \A h \in handlers :
          h.pc = "last" =>
              ended[EventOf(h.delivery)] > 0 \/ h.delivery[1][2] < sends[EventOf(h.delivery)]
    /\ deletion = "none" =>
          \A e \in Events :
              client[e] = "accepted" => sends[e] > 0 /\ Keeps(e)

\* Behind NoExtraAttempts.  A message has one holder, and only when it was taken
\* from the queue ...
Held(m) ==
    /\ InHands(m) => place[m] \in {"out", "gone"}
    /\ \A h, i \in handlers : h.delivery[1] = m /\ i.delivery[1] = m => h = i
    /\ \A h \in handlers : \A v \in Versions : \A d \in batch[v] :
          ~(h.delivery[1] = m /\ d[1] = m)
    /\ \A v, w \in Versions : \A c \in batch[v] : \A d \in batch[w] :
          c[1] = m /\ d[1] = m => v = w /\ c = d

\* ... unless it timed out in somebody's hands.
HolderInv ==
    /\ \A h \in handlers : h.pc \in {"success", "failure"} => place[h.delivery[1]] = "gone"
    /\ \A m \in Messages : m[1] \notin redelivered => Held(m)

\* A message that is not the last of its event, or whose event is concluded.
Past(m) == m[2] < sends[m[1]] \/ (m[2] = sends[m[1]] /\ ended[m[1]] > 0)

\* A message that will not make the function run again.
Spent(m) ==
    /\ \A v \in Versions : \A d \in batch[v] : d[1] # m
    /\ \A h \in handlers : h.delivery[1] = m => h.pc = "last"
    /\ \/ place[m] = "gone"
       \/ place[m] = "out" /\ \E h \in handlers : h.delivery[1] = m

\* The event goes on in its last message only, until it is concluded.
TokenInv == \A m \in Messages : m[1] \notin redelivered /\ Past(m) => Spent(m)

\* The attempt of message m has not returned a result yet.
Pending(m) ==
    /\ place[m] # "gone" \/ InHands(m)
    /\ \A h \in handlers :
          h.delivery[1] = m => h.pc \notin {"ok", "error", "success", "failure"}

\* The retries that the last message carries bound the answers so far.
Bounded(e) ==
    /\ ended[e] <= 1
    /\ sends[e] > 0 =>
          /\ answered[e] <= retries[Last(e)] + 1
          /\ Pending(Last(e)) => answered[e] <= retries[Last(e)]

AttemptInv == \A e \in Events \ redelivered : Bounded(e)

-----------------------------------------------------------------------------
(* Type correctness                                                        *)

USE ConstantsAssumption

\* The parts are what TypeOK says.
LEMMA TypeParts == TypeInv => TypeOK
BY DEF TypeInv, QueueTyped, ServiceTyped, RolloverTyped, ManagersTyped, PollersTyped,
       WorldTyped, HistoryTyped, TypeOK

\* A function without versions is well typed.
LEMMA InitTypeInv == Init => TypeInv
<1> SUFFICES ASSUME Init PROVE TypeInv
  OBVIOUS
<1>0. /\ 0 \in 0..MaxTakes /\ 0 \in 0..MaxRetries /\ 0 \in 0..MaxSends
      /\ 0 \in 0..MaxVersions /\ 0 \in 0..MaxFaults /\ 0 \in Nat
  OBVIOUS
<1>1. QueueTyped
  <2>1. place \in [Messages -> Queue!Places] /\ count \in [Messages -> 0..MaxTakes]
    BY <1>0 DEF Init, Queue!Init, Queue!Places
  <2>2. retries \in [Messages -> 0..MaxRetries] /\ sends \in [Events -> 0..MaxSends]
    BY <1>0 DEF Init
  <2> QED BY <2>1, <2>2 DEF Init, QueueTyped
<1>2. ServiceTyped /\ ManagersTyped
  BY DEF Init, ServiceTyped, ManagersTyped
<1>3. RolloverTyped
  BY DEF Init, RolloverTyped, Idle
<1>4. PollersTyped
  BY DEF Init, PollersTyped
<1>5. WorldTyped /\ HistoryTyped
  <2>1. faults \in 0..MaxFaults /\ via \in [Events -> 0..MaxVersions]
    BY <1>0 DEF Init
  <2>2. answered \in [Events -> Nat] /\ ended \in [Events -> Nat]
    BY <1>0 DEF Init
  <2> QED BY <2>1, <2>2 DEF Init, WorldTyped, HistoryTyped
<1> QED BY <1>1, <1>2, <1>3, <1>4, <1>5 DEF TypeInv

\* A message of an event, and a delivery of a message.
LEMMA MessageTypes ==
    /\ \A e \in Events, n \in 1..MaxSends : <<e, n>> \in Messages
    /\ \A m \in Messages : m[1] \in Events /\ m[2] \in 1..MaxSends /\ m = <<m[1], m[2]>>
    /\ \A m \in Messages, k \in 1..MaxTakes : <<m, k>> \in Deliveries
    /\ \A d \in Deliveries : d[1] \in Messages /\ d[2] \in 1..MaxTakes
BY DEF Messages, Deliveries

\* What a handler is.
LEMMA HandlerTypes ==
    ASSUME NEW h \in Handlers
    PROVE  /\ h.delivery \in Deliveries /\ h.delivery[1] \in Messages
           /\ EventOf(h.delivery) \in Events /\ h.version \in Versions /\ h.pc \in Handling
           /\ \A p \in Handling : [h EXCEPT !.pc = p] \in Handlers
<1>1. /\ h.delivery \in Deliveries /\ h.version \in Versions /\ h.pc \in Handling
      /\ \A p \in Handling : [h EXCEPT !.pc = p] \in Handlers
  BY DEF Handlers
<1> QED BY <1>1, MessageTypes DEF EventOf

\* What a step of the queue's contract leaves of the types.
LEMMA ContractTypes ==
    ASSUME place \in [Messages -> Queue!Places], count \in [Messages -> 0..MaxTakes],
           \/ \E m \in Messages : \/ Queue!Send(m) \/ Queue!Delete(m)
                                  \/ (count[m] < MaxTakes /\ Queue!Take(m))
           \/ \E S : Queue!Return(S) \/ Queue!Discard(S)
           \/ UNCHANGED <<place, count>>
    PROVE  place' \in [Messages -> Queue!Places] /\ count' \in [Messages -> 0..MaxTakes]
BY DEF Queue!Send, Queue!Take, Queue!Delete, Queue!Return, Queue!Discard,
       Queue!Move, Queue!Places

\* A message that is sent.
LEMMA SendTypes ==
    ASSUME QueueTyped, NEW e \in Events, NEW r \in 0..MaxRetries, SendMessage(e, r)
    PROVE  QueueTyped'
<1> DEFINE m == <<e, sends[e] + 1>>
<1>1. sends[e] \in 0..MaxSends /\ sends[e] + 1 \in 1..MaxSends
  BY DEF QueueTyped, SendMessage
<1>2. m \in Messages
  BY <1>1, MessageTypes
<1>3. place' \in [Messages -> Queue!Places] /\ count' \in [Messages -> 0..MaxTakes]
  BY <1>2, ContractTypes DEF QueueTyped, SendMessage
<1>4. sends' \in [Events -> 0..MaxSends]
  BY <1>1 DEF QueueTyped, SendMessage
<1>5. retries' \in [Messages -> 0..MaxRetries]
  BY <1>2 DEF QueueTyped, SendMessage
<1> QED BY <1>3, <1>4, <1>5 DEF QueueTyped, SendMessage

\* A message that is deleted, with or without an exception.
LEMMA DeleteTypes ==
    ASSUME QueueTyped, NEW d \in Deliveries, DeleteMessage(d) \/ DeleteRaises(d)
    PROVE  QueueTyped'
<1>1. d[1] \in Messages
  BY MessageTypes
<1>2. place' \in [Messages -> Queue!Places] /\ count' \in [Messages -> 0..MaxTakes]
  BY <1>1, ContractTypes DEF QueueTyped, DeleteMessage, DeleteRaises
<1> QED BY <1>2 DEF QueueTyped, DeleteMessage, DeleteRaises

\* What a step does not change stays well typed.
LEMMA SameTypes ==
    /\ QueueTyped /\ UNCHANGED queueVars => QueueTyped'
    /\ ServiceTyped /\ UNCHANGED <<starting, running, manager, request, deletion, tasks>>
           => ServiceTyped'
    /\ RolloverTyped /\ UNCHANGED rollover => RolloverTyped'
    /\ ManagersTyped /\ UNCHANGED managerVars => ManagersTyped'
    /\ PollersTyped /\ UNCHANGED <<poller, batch, handlers>> => PollersTyped'
    /\ WorldTyped /\ UNCHANGED worldVars => WorldTyped'
    /\ HistoryTyped /\ UNCHANGED history => HistoryTyped'
BY DEF QueueTyped, ServiceTyped, RolloverTyped, ManagersTyped, PollersTyped, WorldTyped,
       HistoryTyped, queueVars, managerVars, worldVars, history

\* The queue, clients and time.
LEMMA ClientTypes ==
    ASSUME TypeInv,
           \/ \E e \in Events : Invoke(e) \/ EnqueueEvent(e) \/ Age(e)
           \/ ReserveNothing
           \/ \E m \in Messages : MessageReturns(m) \/ MessageTimesOut(m)
    PROVE  TypeInv'
<1> USE SameTypes DEF TypeInv, serviceVars, pollerVars
<1>1. ASSUME NEW e \in Events, Invoke(e) PROVE TypeInv'
  <2>1. WorldTyped'
    BY <1>1 DEF Invoke, WorldTyped, ServiceTyped
  <2> QED BY <1>1, <2>1 DEF Invoke
<1>2. ASSUME NEW e \in Events, EnqueueEvent(e) PROVE TypeInv'
  <2>1. WorldTyped'
    <3>1. 0 \in 0..MaxVersions
      OBVIOUS
    <3> QED BY <1>2, <3>1 DEF EnqueueEvent, WorldTyped
  <2>2. QueueTyped'
    <3>1. 0 \in 0..MaxRetries
      OBVIOUS
    <3> QED BY <1>2, <3>1, SendTypes DEF EnqueueEvent
  <2> QED BY <1>2, <2>1, <2>2 DEF EnqueueEvent
<1>3. ASSUME NEW e \in Events, Age(e) PROVE TypeInv'
  <2>1. faults' \in 0..MaxFaults
    BY <1>3 DEF Age, Fault, WorldTyped
  <2>2. WorldTyped'
    BY <1>3, <2>1 DEF Age, WorldTyped
  <2> QED BY <1>3, <2>2 DEF Age
<1>4. ASSUME ReserveNothing PROVE TypeInv'
  <2>1. faults' \in 0..MaxFaults
    BY <1>4 DEF ReserveNothing, Fault, WorldTyped
  <2>2. WorldTyped'
    BY <1>4, <2>1 DEF ReserveNothing, WorldTyped
  <2> QED BY <1>4, <2>2 DEF ReserveNothing
<1>5. ASSUME NEW m \in Messages, MessageReturns(m) PROVE TypeInv'
  <2>1. place' \in [Messages -> Queue!Places] /\ count' \in [Messages -> 0..MaxTakes]
    BY <1>5, ContractTypes DEF QueueTyped, MessageReturns
  <2>2. QueueTyped'
    BY <1>5, <2>1 DEF QueueTyped, MessageReturns
  <2> QED BY <1>5, <2>2 DEF MessageReturns
<1>6. ASSUME NEW m \in Messages, MessageTimesOut(m) PROVE TypeInv'
  <2>1. place' \in [Messages -> Queue!Places] /\ count' \in [Messages -> 0..MaxTakes]
    BY <1>6, ContractTypes DEF QueueTyped, MessageTimesOut
  <2>2. QueueTyped'
    BY <1>6, <2>1 DEF QueueTyped, MessageTimesOut
  <2>3. faults' \in 0..MaxFaults
    BY <1>6 DEF MessageTimesOut, Fault, WorldTyped
  <2>4. WorldTyped'
    BY <1>6, <2>3 DEF MessageTimesOut, WorldTyped
  <2>5. HistoryTyped'
    BY <1>6, MessageTypes DEF MessageTimesOut, HistoryTyped
  <2> QED BY <1>6, <2>2, <2>4, <2>5 DEF MessageTimesOut
<1> QED BY <1>1, <1>2, <1>3, <1>4, <1>5, <1>6

\* The poller threads.
LEMMA PollerTypes ==
    ASSUME TypeInv, NEW v \in Versions,
           PollerStep(v) \/ \E m \in Messages : PollerTakes(v, m)
    PROVE  TypeInv'
<1> USE SameTypes DEF TypeInv, serviceVars, pollerVars
<1>1. ASSUME NEW m \in Messages, PollerTakes(v, m) PROVE TypeInv'
  <2>1. place' \in [Messages -> Queue!Places] /\ count' \in [Messages -> 0..MaxTakes]
    BY <1>1, ContractTypes DEF QueueTyped, PollerTakes
  <2>2. QueueTyped'
    BY <1>1, <2>1 DEF QueueTyped, PollerTakes
  <2>3. count[m] + 1 \in 1..MaxTakes
    BY <1>1 DEF QueueTyped, PollerTakes
  <2>4. PollersTyped'
    BY <1>1, <2>3, MessageTypes DEF PollersTyped, PollerTakes
  <2> QED BY <1>1, <2>2, <2>4 DEF PollerTakes
<1>2. ASSUME PollerReceived(v) PROVE TypeInv'
  <2>1. PollersTyped'
    BY <1>2 DEF PollersTyped, PollerReceived
  <2> QED BY <1>2, <2>1 DEF PollerReceived
<1>3. ASSUME PollerDrops(v) PROVE TypeInv'
  <2>1. PollersTyped'
    BY <1>3 DEF PollersTyped, PollerDrops
  <2> QED BY <1>3, <2>1 DEF PollerDrops
<1>4. ASSUME NEW d \in batch[v], PollerSubmits(v, d) PROVE TypeInv'
  <2>1. [delivery |-> d, version |-> v, pc |-> "queued"] \in Handlers
    BY DEF PollersTyped, Handlers, Handling
  <2>2. PollersTyped'
    BY <1>4, <2>1 DEF PollersTyped, PollerSubmits
  <2> QED BY <1>4, <2>2 DEF PollerSubmits
<1> QED BY <1>1, <1>2, <1>3, <1>4 DEF PollerStep

\* The handler threads.
LEMMA HandlerStepTypes ==
    ASSUME TypeInv, NEW h \in handlers, HandlerStep(h)
    PROVE  TypeInv'
<1> USE SameTypes DEF TypeInv, serviceVars, pollerVars
<1> DEFINE e == EventOf(h.delivery)
<1>0. /\ h \in Handlers /\ h.delivery \in Deliveries /\ h.delivery[1] \in Messages
      /\ e \in Events /\ \A p \in Handling : [h EXCEPT !.pc = p] \in Handlers
  BY HandlerTypes DEF PollersTyped
<1>a. ASSUME NEW p \in Handling, Step(h, p), UNCHANGED pollerVars PROVE PollersTyped'
  BY <1>0, <1>a DEF PollersTyped, Step
<1>b. ASSUME Leave(h), UNCHANGED pollerVars PROVE PollersTyped'
  BY <1>b DEF PollersTyped, Leave
<1>c. ended[e] + 1 \in Nat /\ answered[e] + 1 \in Nat
  BY <1>0 DEF HistoryTyped
<1>d. RetriesOf(h) \in 0..MaxRetries
  BY <1>0 DEF RetriesOf, QueueTyped
<1>1. ASSUME InvocationRaises(h) PROVE TypeInv'
  <2>1. faults' \in 0..MaxFaults
    BY <1>1 DEF InvocationRaises, Fault, WorldTyped
  <2>2. WorldTyped'
    BY <1>1, <2>1 DEF InvocationRaises, WorldTyped
  <2>3. PollersTyped'
    BY <1>1, <1>a DEF InvocationRaises, Handling
  <2> QED BY <1>1, <2>2, <2>3 DEF InvocationRaises
<1>2. ASSUME InvocationRuns(h) PROVE TypeInv'
  <2>1. PollersTyped'
    BY <1>2, <1>a DEF InvocationRuns, Handling
  <2> QED BY <1>2, <2>1 DEF InvocationRuns
<1>3. ASSUME InvocationReturns(h) PROVE TypeInv'
  <2>1. PollersTyped'
    BY <1>3, <1>a DEF InvocationReturns, Handling
  <2>2. HistoryTyped'
    BY <1>3, <1>0, <1>c DEF InvocationReturns, HistoryTyped
  <2> QED BY <1>3, <2>1, <2>2 DEF InvocationReturns
<1>4. ASSUME HandleException(h) PROVE TypeInv'
  <2>1. PollersTyped'
    BY <1>4, <1>a, <1>b DEF HandleException, Handling
  <2>2. HistoryTyped'
    BY <1>4, <1>0, <1>c DEF HandleException, HistoryTyped, Conclude, Swallow
  <2>3. QueueTyped'
    BY <1>4, <1>0, <1>d, SendTypes DEF HandleException
  <2> QED BY <1>4, <2>1, <2>2, <2>3 DEF HandleException
<1>5. ASSUME HandlerDeletes(h) PROVE TypeInv'
  <2>1. PollersTyped'
    BY <1>5, <1>a, <1>b DEF HandlerDeletes, Handling
  <2>2. HistoryTyped'
    BY <1>5, <1>0 DEF HandlerDeletes, HistoryTyped, Swallow
  <2>3. QueueTyped'
    BY <1>5, <1>0, DeleteTypes DEF HandlerDeletes
  <2> QED BY <1>5, <2>1, <2>2, <2>3 DEF HandlerDeletes
<1>6. ASSUME HandleResult(h) PROVE TypeInv'
  <2>1. PollersTyped'
    BY <1>6, <1>b DEF HandleResult
  <2>2. HistoryTyped'
    BY <1>6, <1>0, <1>c DEF HandleResult, HistoryTyped, Conclude, Swallow
  <2>3. ~FailureCause(h) => RetriesOf(h) + 1 \in 0..MaxRetries
    BY <1>d DEF FailureCause
  <2>4. QueueTyped'
    BY <1>6, <1>0, <2>3, SendTypes DEF HandleResult
  <2> QED BY <1>6, <2>1, <2>2, <2>4 DEF HandleResult
<1> QED BY <1>1, <1>2, <1>3, <1>4, <1>5, <1>6 DEF HandlerStep

\* The executor's tasks.
LEMMA TaskTypes ==
    ASSUME TypeInv, NEW v \in Versions, TaskStep(v)
    PROVE  TypeInv'
<1> USE SameTypes DEF TypeInv, serviceVars, pollerVars
<1>1. ASSUME ManagerStops(v) PROVE TypeInv'
  <2>1. PollersTyped'
    BY <1>1 DEF ManagerStops, StopPoller, PollersTyped
  <2>2. ManagersTyped'
    BY <1>1 DEF ManagerStops, StopPoller, ManagersTyped
  <2>3. ServiceTyped'
    BY <1>1 DEF ManagerStops, ServiceTyped
  <2> QED BY <1>1, <2>1, <2>2, <2>3 DEF ManagerStops
<1>2. ASSUME ManagerDeletesQueue(v) PROVE TypeInv'
  <2>1. place' \in [Messages -> Queue!Places] /\ count' \in [Messages -> 0..MaxTakes]
    BY <1>2, ContractTypes DEF QueueTyped, ManagerDeletesQueue
  <2>2. queueExists' \in BOOLEAN
    BY <1>2 DEF QueueTyped, ManagerDeletesQueue
  <2>3. QueueTyped'
    BY <1>2, <2>1, <2>2 DEF QueueTyped, ManagerDeletesQueue
  <2>4. faults' \in 0..MaxFaults
    BY <1>2 DEF ManagerDeletesQueue, JoinPoller, Fault, WorldTyped
  <2>5. WorldTyped'
    BY <1>2, <2>4 DEF ManagerDeletesQueue, WorldTyped
  <2>6. abandoned' \subseteq Versions
    BY <1>2 DEF ManagerDeletesQueue, JoinPoller, ManagersTyped
  <2>7. ManagersTyped'
    BY <1>2, <2>6 DEF ManagerDeletesQueue, ManagersTyped
  <2>8. ServiceTyped'
    BY <1>2 DEF ManagerDeletesQueue, ServiceTyped
  <2> QED BY <1>2, <2>3, <2>5, <2>7, <2>8 DEF ManagerDeletesQueue
<1>3. ASSUME VersionStops(v) PROVE TypeInv'
  <2>1. ManagersTyped'
    BY <1>3 DEF VersionStops, ManagersTyped
  <2>2. ServiceTyped'
    BY <1>3 DEF VersionStops, ServiceTyped
  <2> QED BY <1>3, <2>1, <2>2 DEF VersionStops
<1> QED BY <1>1, <1>2, <1>3 DEF TaskStep

\* What is submitted to the executor is a task.
LEMMA SubmitTypes ==
    ASSUME ServiceTyped, NEW kind \in {"manager", "version"}, NEW v \in 0..MaxVersions
    PROVE  Submit(kind, v) \subseteq {"manager", "version"} \X Versions
<1>1. v # 0 => v \in Versions
  BY DEF Versions
<1> QED BY <1>1 DEF Submit, ServiceTyped

\* A version number.
LEMMA VersionTypes ==
    /\ 0 \in 0..MaxVersions /\ 1 \in Versions
    /\ \A v \in Versions : v \in 0..MaxVersions /\ v # 0
    /\ \A v \in 0..MaxVersions : v # 0 => v \in Versions
BY DEF Versions

\* The calls that create, update and delete.
LEMMA CallTypes ==
    ASSUME TypeInv,
           \/ \E v \in Versions : Request(v) \/ CreateFunctionVersion(v) \/ UpdateVersionState(v)
           \/ PopManager \/ PopVersion
    PROVE  TypeInv'
<1> USE SameTypes DEF TypeInv, serviceVars, pollerVars
<1>1. ASSUME NEW v \in Versions, Request(v) PROVE TypeInv'
  <2>1. ServiceTyped'
    BY <1>1 DEF Request, ServiceTyped
  <2>2. HistoryTyped'
    BY <1>1 DEF Request, HistoryTyped
  <2> QED BY <1>1, <2>1, <2>2 DEF Request
<1>2. ASSUME NEW v \in Versions, CreateFunctionVersion(v) PROVE TypeInv'
  <2>1. ServiceTyped'
    BY <1>2, VersionTypes DEF CreateFunctionVersion, ServiceTyped
  <2> QED BY <1>2, <2>1 DEF CreateFunctionVersion
<1>3. ASSUME NEW v \in Versions, UpdateVersionState(v) PROVE TypeInv'
  <2>1. ServiceTyped'
    BY <1>3, VersionTypes, SubmitTypes DEF UpdateVersionState, ServiceTyped
  <2>2. RolloverTyped'
    BY <1>3 DEF UpdateVersionState, RolloverTyped, ServiceTyped
  <2> QED BY <1>3, <2>1, <2>2 DEF UpdateVersionState
<1>4. ASSUME PopManager PROVE TypeInv'
  <2>1. ServiceTyped'
    BY <1>4, VersionTypes, SubmitTypes DEF PopManager, ServiceTyped
  <2>2. faults' \in 0..MaxFaults
    BY <1>4 DEF PopManager, Fault, WorldTyped
  <2>3. WorldTyped'
    BY <1>4, <2>2 DEF PopManager, WorldTyped
  <2>4. HistoryTyped'
    BY <1>4 DEF PopManager, HistoryTyped
  <2> QED BY <1>4, <2>1, <2>3, <2>4 DEF PopManager
<1>5. ASSUME PopVersion PROVE TypeInv'
  <2>1. ServiceTyped'
    BY <1>5, VersionTypes, SubmitTypes DEF PopVersion, ServiceTyped
  <2> QED BY <1>5, <2>1 DEF PopVersion
<1> QED BY <1>1, <1>2, <1>3, <1>4, <1>5

\* The rollover to a new version.
LEMMA RolloverTypes ==
    ASSUME TypeInv, RolloverStep
    PROVE  TypeInv'
<1> USE SameTypes DEF TypeInv, serviceVars, pollerVars
<1>a. rollover.pc \in {"stop", "join"} => rollover.oldManager \in Versions
  BY VersionTypes DEF RolloverTyped
<1>b. rollover.pc # "idle" => rollover.new \in Versions
  BY VersionTypes DEF RolloverTyped
<1>1. ASSUME StopForUpdate PROVE TypeInv'
  <2>1. RolloverTyped'
    BY <1>1 DEF StopForUpdate, RolloverTyped
  <2>2. ManagersTyped'
    BY <1>1, <1>a DEF StopForUpdate, StopPoller, ManagersTyped
  <2>3. PollersTyped'
    BY <1>1 DEF StopForUpdate, StopPoller, PollersTyped
  <2> QED BY <1>1, <2>1, <2>2, <2>3 DEF StopForUpdate
<1>2. ASSUME JoinOldPoller PROVE TypeInv'
  <2>1. RolloverTyped'
    BY <1>2 DEF JoinOldPoller, RolloverTyped
  <2>2. abandoned' \subseteq Versions
    BY <1>2, <1>a DEF JoinOldPoller, JoinPoller, ManagersTyped
  <2>3. ManagersTyped'
    BY <1>2, <1>a, <2>2 DEF JoinOldPoller, ManagersTyped
  <2>4. faults' \in 0..MaxFaults
    BY <1>2 DEF JoinOldPoller, JoinPoller, Fault, WorldTyped
  <2>5. WorldTyped'
    BY <1>2, <2>4 DEF JoinOldPoller, WorldTyped
  <2> QED BY <1>2, <2>1, <2>3, <2>5 DEF JoinOldPoller
<1>3. ASSUME RegisterVersion PROVE TypeInv'
  <2>1. RolloverTyped' /\ ServiceTyped'
    BY <1>3 DEF RegisterVersion, RolloverTyped, ServiceTyped
  <2> QED BY <1>3, <2>1 DEF RegisterVersion
<1>4. ASSUME RegisterManager PROVE TypeInv'
  <2>1. RolloverTyped' /\ ServiceTyped'
    BY <1>4 DEF RegisterManager, RolloverTyped, ServiceTyped
  <2> QED BY <1>4, <2>1 DEF RegisterManager
<1>5. ASSUME LookUpManager PROVE TypeInv'
  <2>1. RolloverTyped'
    BY <1>5, VersionTypes DEF LookUpManager, RolloverTyped, Idle
  <2> QED BY <1>5, <2>1 DEF LookUpManager
<1>6. ASSUME StartManager PROVE TypeInv'
  <2>1. RolloverTyped'
    BY <1>6 DEF StartManager, RolloverTyped
  <2>2. QueueTyped'
    BY <1>6 DEF StartManager, QueueTyped
  <2>3. ManagersTyped'
    BY <1>6, <1>b DEF StartManager, ManagersTyped
  <2>4. PollersTyped'
    BY <1>6, <1>b DEF StartManager, PollersTyped
  <2> QED BY <1>6, <2>1, <2>2, <2>3, <2>4 DEF StartManager
<1>7. ASSUME FinishRollover PROVE TypeInv'
  <2>1. RolloverTyped'
    BY <1>7, VersionTypes DEF FinishRollover, RolloverTyped, Idle
  <2>2. ServiceTyped'
    BY <1>7, SubmitTypes DEF FinishRollover, ServiceTyped, RolloverTyped
  <2> QED BY <1>7, <2>1, <2>2 DEF FinishRollover
<1> QED BY <1>1, <1>2, <1>3, <1>4, <1>5, <1>6, <1>7 DEF RolloverStep

\* Every step keeps the types.
LEMMA StepTypeInv == TypeInv /\ [Next]_vars => TypeInv'
<1> SUFFICES ASSUME TypeInv, [Next]_vars PROVE TypeInv'
  OBVIOUS
<1>1. CASE UNCHANGED vars
  BY <1>1, SameTypes DEF TypeInv, vars, serviceVars, pollerVars
<1>2. CASE Next
  BY <1>2, ClientTypes, PollerTypes, HandlerStepTypes, TaskTypes, CallTypes, RolloverTypes
  DEF Next
<1> QED BY <1>1, <1>2

\* The variables have their types in every state: a manager that is stopped,
\* started or left to itself by an update is one of the function's versions,
\* and an event is never sent with more retries than its maximum
\* (HandleResult, event_manager.py).
THEOREM TypeCorrect == Spec => []TypeOK
<1>1. Spec => []TypeInv
  BY InitTypeInv, StepTypeInv, PTL DEF Spec
<1> QED BY <1>1, TypeParts, PTL

-----------------------------------------------------------------------------
(* One poller                                                              *)

\* Nobody polls at first.
LEMMA InitPollerInv == Init => PollerInv
BY VersionTypes DEF Init, PollerInv, Working, Idle

\* Clients, messages and handlers have no part in it.
LEMMA ClientsPollerInv ==
    ASSUME PollerInv,
           UNCHANGED <<deletion, tasks, stopping, request, starting, stopped, poller,
                       manager, rollover, abandoned>>
    PROVE  PollerInv'
BY DEF PollerInv, Working

\* A poller that works goes on working or ends.
LEMMA PollersPollerInv ==
    ASSUME TypeInv, PollerInv, NEW v \in Versions,
           PollerStep(v) \/ \E m \in Messages : PollerTakes(v, m)
    PROVE  PollerInv'
<1>0. PollersTyped
  BY DEF TypeInv
<1>1. /\ UNCHANGED <<deletion, tasks, stopping, request, starting, stopped, manager,
                     rollover, abandoned>>
  BY DEF PollerStep, PollerTakes, PollerReceived, PollerDrops, PollerSubmits, serviceVars,
         managerVars, queueVars
<1>2. poller[v] \in {"receiving", "submitting"}
  BY DEF PollerStep, PollerTakes, PollerReceived, PollerDrops, PollerSubmits
<1>3. \A w \in Versions : poller[w] = "none" <=> poller'[w] = "none"
  BY <1>0, <1>2 DEF PollerStep, PollerTakes, PollerReceived, PollerDrops, PollerSubmits,
                    PollersTyped
<1>4. \A w \in Versions : Working(w)' => Working(w)
  BY <1>0, <1>1, <1>2
  DEF PollerStep, PollerTakes, PollerReceived, PollerDrops, PollerSubmits, PollersTyped,
      Working
<1>5. rollover.pc \in {"stop", "join", "running", "manager", "start", "starting"}
          => rollover.new \in Versions
  BY VersionTypes DEF TypeInv, RolloverTyped
<1> QED BY <1>1, <1>3, <1>4, <1>5 DEF PollerInv

\* The executor stops no event manager before a delete.
LEMMA TasksPollerInv ==
    ASSUME TypeInv, PollerInv, NEW v \in Versions, TaskStep(v)
    PROVE  PollerInv'
<1>1. ASSUME VersionStops(v) PROVE PollerInv'
  BY <1>1 DEF VersionStops, PollerInv, Working, pollerVars, queueVars
<1>2. ASSUME ManagerStops(v) \/ ManagerDeletesQueue(v) PROVE PollerInv'
  BY <1>2 DEF ManagerStops, ManagerDeletesQueue, PollerInv
<1> QED BY <1>1, <1>2 DEF TaskStep

\* A version that is requested, created or ready to be rolled over to was never
\* a manager.
LEMMA CallsPollerInv ==
    ASSUME TypeInv, PollerInv,
           \/ \E v \in Versions : Request(v) \/ CreateFunctionVersion(v) \/ UpdateVersionState(v)
           \/ PopManager \/ PopVersion
    PROVE  PollerInv'
<1> USE DEF serviceVars, managerVars, pollerVars, queueVars
<1>0. ServiceTyped /\ RolloverTyped /\ ManagersTyped /\ PollersTyped
  BY DEF TypeInv
<1>1. ASSUME NEW v \in Versions, Request(v) PROVE PollerInv'
  BY <1>0, <1>1, VersionTypes DEF Request, PollerInv, Working, ServiceTyped
<1>2. ASSUME NEW v \in Versions, CreateFunctionVersion(v) PROVE PollerInv'
  BY <1>0, <1>2, VersionTypes
  DEF CreateFunctionVersion, VersionLockFree, PollerInv, Working, ServiceTyped
<1>3. ASSUME NEW v \in Versions, UpdateVersionState(v) PROVE PollerInv'
  <2>1. SUFFICES ASSUME deletion = "none" PROVE PollerInv'
    BY <1>3 DEF UpdateVersionState, PollerInv
  <2>2. starting = v /\ v # manager /\ v \notin stopped /\ poller[v] = "none"
    BY <1>3, <2>1 DEF UpdateVersionState, PollerInv
  <2>3. \A w \in Versions : Working(w)' <=> Working(w)
    BY <1>3 DEF UpdateVersionState, Working
  <2>4. \A w \in Versions : Working(w) => w = manager
    BY <2>1 DEF PollerInv
  <2>5. \A w \in Versions : <<"manager", w>> \notin tasks' /\ stopping'[w] # "task"
    <3>1. \A w \in Versions : <<"manager", w>> \notin tasks /\ stopping[w] # "task"
      BY <2>1 DEF PollerInv
    <3>2. stopping' = stopping /\ tasks' \subseteq tasks \cup {<<"version", starting>>}
      BY <1>3 DEF UpdateVersionState, Submit
    <3>3. \A w \in Versions : <<"manager", w>> # <<"version", starting>>
      OBVIOUS
    <3> QED BY <3>1, <3>2, <3>3
  <2>6. \A w \in Versions : request'[w] = "preparing" <=> starting' = w
    BY <1>0, <1>3, <2>1, <2>2, VersionTypes DEF UpdateVersionState, PollerInv, ServiceTyped
  <2>7. CASE rollover' = rollover
    BY <1>0, <1>3, <2>1, <2>3, <2>5, <2>6, <2>7
    DEF UpdateVersionState, VersionLockFree, PollerInv, ServiceTyped
  <2>8. CASE rollover' = [new |-> starting, old |-> running, oldManager |-> manager,
                          pc |-> IF manager = 0 THEN "running" ELSE "stop"]
    <3>1. \A w \in Versions : w \in stopped' \/ poller'[w] # "none" \/ w = manager'
                                 \/ (rollover'.pc # "idle" /\ w = rollover'.new)
                              => request'[w] = "done"
      BY <1>0, <1>3, <2>1, <2>2, <2>8 DEF UpdateVersionState, PollerInv, ServiceTyped
    <3>2. manager \notin stopped
      BY <1>3, <2>1 DEF UpdateVersionState, VersionLockFree, PollerInv
    <3>3. \A w \in Versions :
             Working(w) => rollover'.pc \in {"idle", "stop", "join", "finish"} /\ w = manager
      BY <2>4, <2>8, VersionTypes
    <3>4. UNCHANGED <<deletion, stopping, stopped, poller, manager, abandoned>>
      BY <1>3 DEF UpdateVersionState
    <3> QED BY <2>2, <2>3, <2>5, <2>6, <2>8, <3>1, <3>2, <3>3, <3>4 DEF PollerInv
  <2> QED BY <1>3, <2>7, <2>8 DEF UpdateVersionState
<1>4. ASSUME PopManager \/ PopVersion PROVE PollerInv'
  BY <1>4 DEF PopManager, PopVersion, PollerInv
<1> QED BY <1>1, <1>2, <1>3, <1>4

\* The new poller starts after the old one has ended or is given up.
LEMMA RolloverPollerInv ==
    ASSUME TypeInv, PollerInv, RolloverStep
    PROVE  PollerInv'
<1> USE DEF serviceVars, managerVars, pollerVars, queueVars
<1>0. ServiceTyped /\ RolloverTyped /\ ManagersTyped /\ PollersTyped
  BY DEF TypeInv
<1>a. SUFFICES ASSUME deletion = "none" PROVE PollerInv'
  BY DEF RolloverStep, StopForUpdate, JoinOldPoller, RegisterVersion, RegisterManager,
         LookUpManager, StartManager, FinishRollover, PollerInv
<1>b. rollover.pc \in {"stop", "join"} => rollover.oldManager \in Versions
  BY <1>0, VersionTypes DEF RolloverTyped
<1>c. rollover.pc # "idle" => rollover.new \in Versions
  BY <1>0, VersionTypes DEF RolloverTyped
<1>1. ASSUME StopForUpdate PROVE PollerInv'
  BY <1>0, <1>1, <1>a, <1>b, <1>c
  DEF StopForUpdate, StopPoller, PollerInv, Working, RolloverTyped, ManagersTyped
<1>2. ASSUME JoinOldPoller PROVE PollerInv'
  BY <1>0, <1>2, <1>a, <1>b, <1>c
  DEF JoinOldPoller, JoinPoller, PollerJoined, PollerInv, Working, RolloverTyped, ManagersTyped
<1>3. ASSUME RegisterVersion PROVE PollerInv'
  BY <1>0, <1>3, <1>a, <1>c DEF RegisterVersion, PollerInv, Working, RolloverTyped
<1>4. ASSUME RegisterManager PROVE PollerInv'
  BY <1>0, <1>4, <1>a, <1>c DEF RegisterManager, PollerInv, Working, RolloverTyped
<1>5. ASSUME LookUpManager PROVE PollerInv'
  BY <1>0, <1>5, <1>a, <1>c, VersionTypes
  DEF LookUpManager, PollerInv, Working, RolloverTyped, Idle
<1>6. ASSUME StartManager PROVE PollerInv'
  BY <1>0, <1>6, <1>a, <1>c
  DEF StartManager, PollerInv, Working, RolloverTyped, PollersTyped
<1>7. ASSUME FinishRollover PROVE PollerInv'
  BY <1>0, <1>7, <1>a, <1>c DEF FinishRollover, PollerInv, Working, RolloverTyped, Idle, Submit
<1> QED BY <1>1, <1>2, <1>3, <1>4, <1>5, <1>6, <1>7 DEF RolloverStep

\* Every step keeps the invariant.
LEMMA StepPollerInv == TypeInv /\ PollerInv /\ [Next]_vars => PollerInv'
<1> SUFFICES ASSUME TypeInv, PollerInv, [Next]_vars PROVE PollerInv'
  OBVIOUS
<1> USE DEF vars, serviceVars, managerVars, pollerVars, queueVars
<1>1. CASE UNCHANGED vars
  BY <1>1, ClientsPollerInv
<1>2. ASSUME \/ \E e \in Events : Invoke(e) \/ EnqueueEvent(e) \/ Age(e)
             \/ ReserveNothing
             \/ \E m \in Messages : MessageReturns(m) \/ MessageTimesOut(m)
      PROVE  PollerInv'
  BY <1>2, ClientsPollerInv
  DEF Invoke, EnqueueEvent, Age, ReserveNothing, MessageReturns, MessageTimesOut
<1>3. ASSUME NEW h \in handlers, HandlerStep(h) PROVE PollerInv'
  BY <1>3, ClientsPollerInv
  DEF HandlerStep, InvocationRaises, InvocationRuns, InvocationReturns, HandleException,
      HandlerDeletes, HandleResult
<1> QED
  BY <1>1, <1>2, <1>3, PollersPollerInv, TasksPollerInv, CallsPollerInv, RolloverPollerInv
  DEF Next

\* At most one element.
LEMMA AtMostOne ==
    ASSUME NEW S, NEW x, \A v \in S : v = x
    PROVE  Cardinality(S) <= 1
<1>1. CASE S = {}
  BY <1>1, FS_EmptySet
<1>2. CASE S # {}
  <2>1. S = {x}
    BY <1>2
  <2>2. Cardinality(S) = 1
    BY <2>1, FS_Singleton, Zenon
  <2> QED BY <2>2
<1> QED BY <1>1, <1>2

\* Until the function is deleted, two pollers never work on its queue, however
\* many updates, failed versions and restarts there are, unless one outlives the
\* timeout of its join (update_version_state, LambdaEventManager.stop_for_update).
THEOREM OnePollerAlways == Spec => []OnePoller
<1>1. TypeInv /\ PollerInv => OnePoller
  <2> SUFFICES ASSUME PollerInv, deletion = "none"
               PROVE  Cardinality({v \in Versions \ abandoned :
                                      poller[v] \in {"receiving", "submitting"}}) <= 1
    BY DEF OnePoller
  <2>1. \A v \in {w \in Versions \ abandoned : poller[w] \in {"receiving", "submitting"}} :
           v = manager
    BY DEF PollerInv, Working
  <2> QED BY <2>1, AtMostOne
<1>2. Spec => [](TypeInv /\ PollerInv)
  BY InitTypeInv, StepTypeInv, InitPollerInv, StepPollerInv, PTL DEF Spec
<1> QED BY <1>1, <1>2, PTL

-----------------------------------------------------------------------------
(* What a step does to messages and those who hold them                    *)

\* A step with no part in it.
StillStep ==
    /\ UNCHANGED <<place, sends, retries, handlers, batch, answered, ended, redelivered,
                   swallowed>>
    /\ queueExists => queueExists'
    /\ deletion' = "none" => deletion = "none"
    /\ \A e \in Events : client'[e] = "accepted" <=> client[e] = "accepted"

\* Handlers that have not begun are cancelled.
CancelStep ==
    /\ handlers' \subseteq handlers
    /\ \A h \in handlers : h.pc # "queued" => h \in handlers'
    /\ UNCHANGED <<place, sends, retries, queueExists, batch, answered, ended, redelivered,
                   swallowed, deletion, client>>

\* A client's event is sent.
ClientSends(e) ==
    /\ client[e] = "calling" /\ SendMessage(e, 0)
    /\ client' = [client EXCEPT ![e] = "accepted"]
    /\ UNCHANGED <<handlers, batch, answered, ended, redelivered, swallowed, deletion>>

\* Every step is one of these.
LEMMA StepCases ==
    ASSUME TypeInv, [Next]_vars
    PROVE  \/ StillStep \/ CancelStep
           \/ \E e \in Events : ClientSends(e)
           \/ \E m \in Messages : MessageReturns(m) \/ MessageTimesOut(m)
           \/ \E v \in Versions : \E m \in Messages : PollerTakes(v, m)
           \/ \E v \in Versions : PollerDrops(v) \/ \E d \in batch[v] : PollerSubmits(v, d)
           \/ \E h \in handlers : HandlerStep(h)
           \/ \E v \in Versions : ManagerDeletesQueue(v)
<1> USE DEF queueVars, pollerVars, history
<1>1. CASE UNCHANGED vars
  BY <1>1 DEF vars, StillStep, worldVars, serviceVars
<1>2. ASSUME NEW e \in Events, Invoke(e) PROVE StillStep
  BY <1>2 DEF Invoke, StillStep, serviceVars, TypeInv, WorldTyped
<1>3. ASSUME NEW e \in Events, EnqueueEvent(e) PROVE StillStep \/ ClientSends(e)
  <2>1. CASE SendMessage(e, 0) /\ client' = [client EXCEPT ![e] = "accepted"]
    BY <1>3, <2>1 DEF EnqueueEvent, ClientSends, serviceVars
  <2>2. CASE client' = [client EXCEPT ![e] = "rejected"] /\ UNCHANGED queueVars
    BY <1>3, <2>2 DEF EnqueueEvent, StillStep, serviceVars, TypeInv, WorldTyped
  <2> QED BY <1>3, <2>1, <2>2 DEF EnqueueEvent
<1>4. ASSUME (\E e \in Events : Age(e)) \/ ReserveNothing PROVE StillStep
  BY <1>4 DEF Age, ReserveNothing, StillStep, serviceVars
<1>5. ASSUME NEW v \in Versions, PollerReceived(v) PROVE StillStep
  BY <1>5 DEF PollerReceived, StillStep, serviceVars, worldVars
<1>6. ASSUME NEW v \in Versions, ManagerStops(v) PROVE StillStep \/ CancelStep
  BY <1>6 DEF ManagerStops, StopPoller, StillStep, CancelStep, worldVars
<1>7. ASSUME NEW v \in Versions, VersionStops(v) PROVE StillStep
  BY <1>7 DEF VersionStops, StillStep, worldVars
<1>8. ASSUME NEW v \in Versions, Request(v) \/ CreateFunctionVersion(v) \/ UpdateVersionState(v)
      PROVE  StillStep
  BY <1>8 DEF Request, CreateFunctionVersion, UpdateVersionState, StillStep, worldVars
<1>9. ASSUME PopManager \/ PopVersion PROVE StillStep
  <2>1. /\ deletion' # "none" /\ client' = client /\ UNCHANGED queueVars
        /\ UNCHANGED <<handlers, batch, answered, ended, redelivered, swallowed>>
    BY <1>9 DEF PopManager, PopVersion, worldVars
  <2> QED BY <2>1 DEF StillStep
<1>10. ASSUME StopForUpdate PROVE StillStep \/ CancelStep
  BY <1>10 DEF StopForUpdate, StopPoller, StillStep, CancelStep, worldVars
<1>11. ASSUME JoinOldPoller \/ RegisterVersion \/ RegisterManager PROVE StillStep
  BY <1>11 DEF JoinOldPoller, RegisterVersion, RegisterManager, StillStep, worldVars
<1>12. ASSUME LookUpManager \/ StartManager \/ FinishRollover PROVE StillStep
  BY <1>12 DEF LookUpManager, StartManager, FinishRollover, StillStep, worldVars
<1> QED
  BY <1>1, <1>2, <1>3, <1>4, <1>5, <1>6, <1>7, <1>8, <1>9, <1>10, <1>11, <1>12
  DEF Next, PollerStep, TaskStep, RolloverStep

\* What sending a message for an event does.
LEMMA SendFacts ==
    ASSUME TypeInv, NEW e \in Events, NEW r, SendMessage(e, r),
           NEW n, n = sends[e] + 1
    PROVE  /\ n \in 1..MaxSends /\ <<e, n>> \in Messages
           /\ place[<<e, n>>] = "unsent" /\ place'[<<e, n>>] = "waiting"
           /\ \A m \in Messages : m # <<e, n>> => place'[m] = place[m] /\ retries'[m] = retries[m]
           /\ sends'[e] = n /\ \A f \in Events : f # e => sends'[f] = sends[f]
           /\ retries'[<<e, n>>] = r
           /\ queueExists /\ queueExists' = queueExists
<1>1. QueueTyped
  BY DEF TypeInv
<1>2. n \in 1..MaxSends
  BY <1>1 DEF QueueTyped, SendMessage
<1>3. <<e, n>> \in Messages
  BY <1>2, MessageTypes
<1>4. sends'[e] = n /\ \A f \in Events : f # e => sends'[f] = sends[f]
  BY <1>1 DEF QueueTyped, SendMessage
<1>5. /\ retries'[<<e, n>>] = r
      /\ \A m \in Messages : m # <<e, n>> => retries'[m] = retries[m]
  BY <1>1, <1>3 DEF QueueTyped, SendMessage
<1>6. /\ place[<<e, n>>] = "unsent" /\ place'[<<e, n>>] = "waiting"
      /\ \A m \in Messages : m # <<e, n>> => place'[m] = place[m]
  BY <1>3 DEF SendMessage, Queue!Send, Queue!Move
<1> QED BY <1>2, <1>3, <1>4, <1>5, <1>6 DEF SendMessage

\* A message that is deleted is gone; the others stay where they are.
LEMMA DeleteFacts ==
    ASSUME NEW d, d[1] \in Messages, DeleteMessage(d) \/ DeleteRaises(d)
    PROVE  /\ sends' = sends /\ retries' = retries /\ queueExists /\ queueExists' = queueExists
           /\ place'[d[1]] = "gone"
           /\ \A m \in Messages : m # d[1] => place'[m] = place[m]
BY DEF DeleteMessage, DeleteRaises, Queue!Delete, Queue!Move

-----------------------------------------------------------------------------
(* What was sent                                                           *)

\* Nothing was sent at first.
LEMMA InitSentInv == Init => SentInv
<1> SUFFICES ASSUME Init PROVE SentInv
  OBVIOUS
<1>1. /\ \A m \in Messages : place[m] = "unsent" /\ m[1] \in Events /\ m[2] \in 1..MaxSends
      /\ \A e \in Events : sends[e] = 0 /\ answered[e] = 0 /\ ended[e] = 0
      /\ \A m \in Messages : ~InHands(m)
  BY MessageTypes DEF Init, Queue!Init, InHands
<1> QED BY <1>1 DEF SentInv

\* A step that sends nothing.
LEMMA SentFrame ==
    ASSUME SentInv, sends' = sends,
           \A m \in Messages : place'[m] # "dead" /\ (place'[m] = "unsent" <=> place[m] = "unsent"),
           ~queueExists' => \A m \in Messages : place'[m] \in {"unsent", "gone"},
           \A m \in Messages : InHands(m)' => InHands(m) \/ place[m] # "unsent",
           \A e \in Events : client[e] = "accepted" => client'[e] = "accepted",
           \A e \in Events : sends[e] = 0 => answered'[e] = answered[e] /\ ended'[e] = ended[e]
    PROVE  SentInv'
BY DEF SentInv

\* A step that sends a message for an event whose client was answered.
LEMMA SentSend ==
    ASSUME TypeInv, SentInv, NEW e \in Events, NEW r, SendMessage(e, r),
           \A m \in Messages : InHands(m)' => InHands(m),
           client'[e] = "accepted",
           \A f \in Events : f # e /\ client[f] = "accepted" => client'[f] = "accepted",
           \A f \in Events : f # e => answered'[f] = answered[f] /\ ended'[f] = ended[f]
    PROVE  SentInv'
<1>a. PICK k : k = sends[e] + 1
  OBVIOUS
<1>0. /\ k \in 1..MaxSends /\ <<e, k>> \in Messages /\ sends'[e] = k
      /\ place[<<e, k>>] = "unsent" /\ place'[<<e, k>>] = "waiting"
      /\ \A m \in Messages : m # <<e, k>> => place'[m] = place[m]
      /\ \A f \in Events : f # e => sends'[f] = sends[f]
      /\ queueExists /\ queueExists'
      /\ sends[e] \in 0..MaxSends
  BY <1>a, SendFacts DEF TypeInv, QueueTyped
<1>1. ASSUME NEW m \in Messages PROVE place'[m] = "unsent" <=> m[2] > sends'[m[1]]
  <2>1. m[1] \in Events /\ m[2] \in 1..MaxSends /\ m = <<m[1], m[2]>>
    BY MessageTypes
  <2>2. place[m] = "unsent" <=> m[2] > sends[m[1]]
    BY DEF SentInv
  <2>3. CASE m[1] # e
    BY <1>0, <2>1, <2>2, <2>3
  <2>4. CASE m[1] = e /\ m[2] = k
    BY <1>0, <2>1, <2>4
  <2>5. CASE m[1] = e /\ m[2] # k
    <3>1. place'[m] = place[m]
      BY <1>0, <2>1, <2>5
    <3> QED BY <1>0, <1>a, <2>1, <2>2, <2>5, <3>1
  <2> QED BY <2>3, <2>4, <2>5
<1>2. \A m \in Messages : place'[m] # "dead" /\ (InHands(m)' => place'[m] # "unsent")
  BY <1>0 DEF SentInv
<1>3. \A f \in Events : sends'[f] > 0 => client'[f] = "accepted"
  BY <1>0 DEF SentInv
<1>4. \A f \in Events : sends'[f] = 0 => answered'[f] = 0 /\ ended'[f] = 0
  BY <1>0 DEF SentInv
<1> QED BY <1>0, <1>1, <1>2, <1>3, <1>4 DEF SentInv

\* What a handler holds was sent.
LEMMA HeldFacts ==
    ASSUME TypeInv, SentInv, NEW h \in handlers
    PROVE  /\ h \in Handlers /\ h.delivery \in Deliveries /\ h.delivery[1] \in Messages
           /\ EventOf(h.delivery) \in Events /\ h.delivery[1][1] = EventOf(h.delivery)
           /\ h.delivery[1] = <<EventOf(h.delivery), h.delivery[1][2]>>
           /\ h.delivery[1][2] \in 1..MaxSends
           /\ InHands(h.delivery[1]) /\ place[h.delivery[1]] # "unsent"
           /\ h.delivery[1][2] <= sends[EventOf(h.delivery)]
           /\ sends[EventOf(h.delivery)] \in 1..MaxSends
           /\ client[EventOf(h.delivery)] = "accepted"
<1> DEFINE m == h.delivery[1]
<1> DEFINE e == EventOf(h.delivery)
<1>1. h \in Handlers /\ h.delivery \in Deliveries /\ m \in Messages /\ e \in Events
  BY HandlerTypes DEF TypeInv, PollersTyped
<1>2. m[1] = e /\ m = <<e, m[2]>> /\ m[2] \in 1..MaxSends
  BY <1>1, MessageTypes DEF EventOf
<1>3. InHands(m)
  BY DEF InHands
<1>4. place[m] # "unsent" /\ ~(m[2] > sends[m[1]])
  BY <1>1, <1>3 DEF SentInv
<1>5. sends[e] \in 0..MaxSends
  BY <1>1 DEF TypeInv, QueueTyped
<1>6. m[2] <= sends[e] /\ sends[e] \in 1..MaxSends
  BY <1>2, <1>4, <1>5
<1>7. client[e] = "accepted"
  BY <1>1, <1>6 DEF SentInv
<1> QED BY <1>1, <1>2, <1>3, <1>4, <1>6, <1>7

\* A step of a handler takes nothing into hands.
LEMMA HandsShrink ==
    ASSUME TypeInv, NEW h \in handlers, HandlerStep(h)
    PROVE  /\ batch' = batch
           /\ \A m \in Messages : InHands(m)' => InHands(m)
           /\ \A i \in handlers' : i \in handlers \/ i.delivery = h.delivery
           /\ \A i \in handlers : i = h \/ i \in handlers'
<1>1. batch' = batch
  BY DEF HandlerStep, InvocationRaises, InvocationRuns, InvocationReturns, HandleException,
         HandlerDeletes, HandleResult, pollerVars
<1>2. Leave(h) \/ \E p : Step(h, p)
  BY DEF HandlerStep, InvocationRaises, InvocationRuns, InvocationReturns, HandleException,
         HandlerDeletes, HandleResult
<1>3. /\ \A i \in handlers' : i \in handlers \/ i.delivery = h.delivery
      /\ \A i \in handlers : i = h \/ i \in handlers'
  <2>1. h \in Handlers
    BY DEF TypeInv, PollersTyped
  <2>2. ASSUME NEW p PROVE [h EXCEPT !.pc = p].delivery = h.delivery
    BY <2>1 DEF Handlers
  <2> QED BY <1>2, <2>2 DEF Leave, Step
<1>4. \A m \in Messages : InHands(m)' => InHands(m)
  BY <1>1, <1>3 DEF InHands
<1> QED BY <1>1, <1>3, <1>4

\* Deleting the queue discards what is in it.
LEMMA DeletesQueueFacts ==
    ASSUME NEW v \in Versions, ManagerDeletesQueue(v)
    PROVE  /\ UNCHANGED <<sends, retries, handlers, batch, answered, ended, redelivered,
                          swallowed, deletion, client>>
           /\ stopping[v] = "task"
           /\ \A m \in Messages :
                 \/ place'[m] = place[m]
                 \/ place[m] \in {"waiting", "out"} /\ place'[m] = "gone"
           /\ \/ queueExists' = queueExists /\ place' = place
              \/ ~queueExists' /\ \A m \in Messages : place'[m] \notin {"waiting", "out"}
<1>1. /\ UNCHANGED <<sends, retries, handlers, batch, answered, ended, redelivered,
                     swallowed, deletion, client>>
      /\ stopping[v] = "task"
  BY DEF ManagerDeletesQueue, pollerVars, history
<1>2. CASE UNCHANGED <<place, count, queueExists>>
  BY <1>1, <1>2
<1>3. CASE /\ LET S == {m \in Messages : place[m] \in {"waiting", "out"}}
              IN Queue!Discard(S) \/ (S = {} /\ UNCHANGED <<place, count>>)
           /\ queueExists' = FALSE
  BY <1>1, <1>3 DEF Queue!Discard, Queue!Move
<1> QED BY <1>2, <1>3 DEF ManagerDeletesQueue

\* Every step keeps what is known of what was sent.
LEMMA StepSentInv == TypeInv /\ TypeInv' /\ SentInv /\ [Next]_vars => SentInv'
<1> SUFFICES ASSUME TypeInv, TypeInv', SentInv, [Next]_vars PROVE SentInv'
  OBVIOUS
<1>0. /\ \A m \in Messages : place[m] # "dead"
      /\ ~queueExists => \A m \in Messages : place[m] \in {"unsent", "gone"}
  BY DEF SentInv
<1>1. CASE StillStep
  BY <1>0, <1>1, SentFrame DEF StillStep, InHands
<1>2. CASE CancelStep
  BY <1>0, <1>2, SentFrame DEF CancelStep, InHands
<1>3. ASSUME NEW e \in Events, ClientSends(e) PROVE SentInv'
  BY <1>3, SentSend DEF ClientSends, InHands, TypeInv, WorldTyped
<1>4. ASSUME NEW m \in Messages, MessageReturns(m) \/ MessageTimesOut(m) PROVE SentInv'
  <2>1. /\ UNCHANGED <<sends, handlers, batch, answered, ended, client>>
        /\ queueExists /\ queueExists' = queueExists
    BY <1>4 DEF MessageReturns, MessageTimesOut, pollerVars, worldVars, history
  <2>2. place[m] = "out" /\ place' = [n \in Messages |-> IF n = m THEN "waiting" ELSE place[n]]
    BY <1>4 DEF MessageReturns, MessageTimesOut, Queue!Return, Queue!Move
  <2> QED BY <1>0, <2>1, <2>2, SentFrame DEF InHands
<1>5. ASSUME NEW v \in Versions, NEW m \in Messages, PollerTakes(v, m) PROVE SentInv'
  <2>1. /\ UNCHANGED <<sends, handlers, answered, ended, client>>
        /\ queueExists /\ queueExists' = queueExists
    BY <1>5 DEF PollerTakes, worldVars, history
  <2>2. place[m] = "waiting" /\ place' = [n \in Messages |-> IF n = m THEN "out" ELSE place[n]]
    BY <1>5 DEF PollerTakes, Queue!Take, Queue!Move
  <2>3. \A w \in Versions : \A d \in batch'[w] : d \in batch[w] \/ d[1] = m
    BY <1>5 DEF PollerTakes, TypeInv, PollersTyped
  <2>4. \A n \in Messages : InHands(n)' => InHands(n) \/ n = m
    BY <2>1, <2>3 DEF InHands
  <2> QED BY <1>0, <2>1, <2>2, <2>4, SentFrame
<1>6. ASSUME NEW v \in Versions, PollerDrops(v) PROVE SentInv'
  <2>1. UNCHANGED <<place, sends, queueExists, handlers, answered, ended, client>>
    BY <1>6 DEF PollerDrops, queueVars, worldVars, history
  <2>2. \A w \in Versions : batch'[w] \subseteq batch[w]
    BY <1>6 DEF PollerDrops, TypeInv, PollersTyped
  <2>3. \A n \in Messages : InHands(n)' => InHands(n)
    BY <2>1, <2>2 DEF InHands
  <2> QED BY <1>0, <2>1, <2>3, SentFrame
<1>7. ASSUME NEW v \in Versions, NEW d \in batch[v], PollerSubmits(v, d) PROVE SentInv'
  <2>1. UNCHANGED <<place, sends, queueExists, answered, ended, client>>
    BY <1>7 DEF PollerSubmits, queueVars, worldVars, history
  <2>2. \A w \in Versions : batch'[w] \subseteq batch[w]
    BY <1>7 DEF PollerSubmits, TypeInv, PollersTyped
  <2>3. \A h \in handlers' : h \in handlers \/ h.delivery = d
    BY <1>7 DEF PollerSubmits
  <2>4. \A n \in Messages : InHands(n)' => InHands(n)
    BY <2>2, <2>3 DEF InHands
  <2> QED BY <1>0, <2>1, <2>4, SentFrame
<1>8. ASSUME NEW h \in handlers, HandlerStep(h) PROVE SentInv'
  <2> DEFINE e == EventOf(h.delivery)
  <2>1. /\ h.delivery[1] \in Messages /\ e \in Events /\ sends[e] > 0 /\ client[e] = "accepted"
        /\ place[h.delivery[1]] # "unsent"
    BY HeldFacts
  <2>2. \A n \in Messages : InHands(n)' => InHands(n)
    BY <1>8, HandsShrink
  <2>3. client' = client
    BY <1>8 DEF HandlerStep, InvocationRaises, InvocationRuns, InvocationReturns,
                HandleException, HandlerDeletes, HandleResult, worldVars
  <2>4. \A f \in Events : f # e => answered'[f] = answered[f] /\ ended'[f] = ended[f]
    BY <1>8, <2>1 DEF HandlerStep, InvocationRaises, InvocationRuns, InvocationReturns,
                HandleException, HandlerDeletes, HandleResult, Conclude, history, TypeInv,
                HistoryTyped
  <2>5. \/ UNCHANGED queueVars
        \/ DeleteMessage(h.delivery) \/ DeleteRaises(h.delivery)
        \/ \E r : SendMessage(e, r)
    BY <1>8 DEF HandlerStep, InvocationRaises, InvocationRuns, InvocationReturns,
                HandleException, HandlerDeletes, HandleResult
  <2>6. CASE UNCHANGED queueVars
    BY <1>0, <2>1, <2>2, <2>3, <2>4, <2>6, SentFrame DEF queueVars
  <2>7. CASE DeleteMessage(h.delivery) \/ DeleteRaises(h.delivery)
    <3>1. /\ sends' = sends /\ queueExists /\ queueExists' = queueExists
          /\ place'[h.delivery[1]] = "gone"
          /\ \A m \in Messages : m # h.delivery[1] => place'[m] = place[m]
      BY <2>1, <2>7, DeleteFacts
    <3> QED BY <1>0, <2>1, <2>2, <2>3, <2>4, <3>1, SentFrame
  <2>8. CASE \E r : SendMessage(e, r)
    BY <2>1, <2>2, <2>3, <2>4, <2>8, SentSend
  <2> QED BY <2>5, <2>6, <2>7, <2>8
<1>9. ASSUME NEW v \in Versions, ManagerDeletesQueue(v) PROVE SentInv'
  <2>1. /\ UNCHANGED <<sends, handlers, batch, answered, ended, client>>
        /\ \A m \in Messages :
              \/ place'[m] = place[m]
              \/ place[m] \in {"waiting", "out"} /\ place'[m] = "gone"
        /\ \/ queueExists' = queueExists /\ place' = place
           \/ ~queueExists' /\ \A m \in Messages : place'[m] \notin {"waiting", "out"}
    BY <1>9, DeletesQueueFacts
  <2>2. \A m \in Messages : place'[m] \in {"unsent", "waiting", "out", "dead", "gone"}
    BY DEF TypeInv, QueueTyped, Queue!Places
  <2> QED BY <1>0, <2>1, <2>2, SentFrame DEF InHands
<1> QED BY <1>1, <1>2, <1>3, <1>4, <1>5, <1>6, <1>7, <1>8, <1>9, StepCases

-----------------------------------------------------------------------------
(* No event is lost                                                        *)

\* Nothing is accepted at first.
LEMMA InitKeptInv == Init => KeptInv
BY DEF Init, KeptInv

\* The last message of an event that has one.
LEMMA LastTypes ==
    ASSUME TypeInv, NEW e \in Events, sends[e] > 0
    PROVE  Last(e) \in Messages
<1>1. sends[e] \in 1..MaxSends
  BY DEF TypeInv, QueueTyped
<1> QED BY <1>1, MessageTypes DEF Last

\* A step that sends nothing keeps events when it keeps their last messages and
\* the handlers that have a result, or concludes or swallows the event.
LEMMA KeptFrame ==
    ASSUME TypeInv, KeptInv, sends' = sends,
           \A h \in handlers' :
               h.pc = "last" => h \in handlers \/ ended'[EventOf(h.delivery)] > 0,
           \A h \in handlers :
               h.pc \in {"success", "failure"} =>
                   h \in handlers' \/ Keeps(EventOf(h.delivery))',
           \A h \in handlers' \cup handlers : EventOf(h.delivery) \in Events,
           \A e \in Events : ended[e] > 0 => ended'[e] > 0,
           swallowed \subseteq swallowed',
           \A e \in Events : client'[e] = "accepted" => client[e] = "accepted",
           deletion' = "none" => deletion = "none",
           deletion' = "none" =>
               \A e \in Events :
                   sends[e] > 0 /\ place[Last(e)] \in {"waiting", "out"} => Keeps(e)'
    PROVE  KeptInv'
<1>1. \A h \in handlers' :
         h.pc = "last" =>
             ended'[EventOf(h.delivery)] > 0 \/ h.delivery[1][2] < sends'[EventOf(h.delivery)]
  BY DEF KeptInv
<1>2. ASSUME deletion' = "none", NEW e \in Events, client'[e] = "accepted"
      PROVE  sends'[e] > 0 /\ Keeps(e)'
  <2>1. sends[e] > 0 /\ Keeps(e)
    BY <1>2 DEF KeptInv
  <2>2. Last(e)' = Last(e)
    BY DEF Last
  <2>3. CASE ended[e] > 0 \/ e \in swallowed
    BY <2>1, <2>3 DEF Keeps
  <2>4. CASE place[Last(e)] \in {"waiting", "out"}
    BY <1>2, <2>1, <2>4
  <2>5. CASE \E h \in handlers : h.delivery[1] = Last(e) /\ h.pc \in {"success", "failure"}
    <3>1. PICK h \in handlers : h.delivery[1] = Last(e) /\ h.pc \in {"success", "failure"}
      BY <2>5
    <3>2. EventOf(h.delivery) = e
      BY <3>1 DEF EventOf, Last
    <3>3. CASE h \in handlers'
      BY <2>1, <2>2, <3>1, <3>3 DEF Keeps
    <3>4. CASE h \notin handlers'
      BY <2>1, <3>1, <3>2, <3>4
    <3> QED BY <3>3, <3>4
  <2> QED BY <2>1, <2>3, <2>4, <2>5 DEF Keeps
<1> QED BY <1>1, <1>2 DEF KeptInv

\* A step that sends a message for an event keeps it in that message.
LEMMA KeptSend ==
    ASSUME TypeInv, KeptInv, NEW e \in Events, NEW r, SendMessage(e, r),
           \A h \in handlers' : h.pc = "last" => h \in handlers \/ EventOf(h.delivery) = e,
           \A h \in handlers' : h \in Handlers,
           \A h \in handlers :
               h.pc \in {"success", "failure"} /\ EventOf(h.delivery) # e => h \in handlers',
           \A h \in handlers' : h.pc = "last" /\ EventOf(h.delivery) = e =>
               h.delivery[1][2] <= sends[e],
           ended' = ended, swallowed \subseteq swallowed',
           \A f \in Events : f # e /\ client'[f] = "accepted" => client[f] = "accepted",
           deletion' = deletion
    PROVE  KeptInv'
<1> DEFINE n == sends[e] + 1
<1>a. PICK k : k = n
  OBVIOUS
<1>0. /\ k \in 1..MaxSends /\ <<e, k>> \in Messages /\ sends'[e] = k
      /\ place'[<<e, k>>] = "waiting"
      /\ \A m \in Messages : m # <<e, k>> => place'[m] = place[m]
      /\ \A f \in Events : f # e => sends'[f] = sends[f]
  BY <1>a, SendFacts
<1>1. ASSUME NEW h \in handlers', h.pc = "last"
      PROVE  \/ ended'[EventOf(h.delivery)] > 0
             \/ h.delivery[1][2] < sends'[EventOf(h.delivery)]
  <2>1. EventOf(h.delivery) \in Events /\ h.delivery[1][2] \in 1..MaxSends
    BY HandlerTypes, MessageTypes
  <2>2. sends[e] \in 0..MaxSends
    BY DEF TypeInv, QueueTyped
  <2>3. CASE EventOf(h.delivery) = e
    BY <1>0, <1>1, <1>a, <2>1, <2>2, <2>3
  <2>4. CASE EventOf(h.delivery) # e
    BY <1>0, <1>1, <2>1, <2>4 DEF KeptInv
  <2> QED BY <2>3, <2>4
<1>2. ASSUME deletion' = "none", NEW f \in Events, client'[f] = "accepted"
      PROVE  /\ sends'[f] > 0
             /\ \/ ended'[f] > 0 \/ f \in swallowed'
                \/ place'[<<f, sends'[f]>>] \in {"waiting", "out"}
                \/ \E h \in handlers' : /\ h.delivery[1] = <<f, sends'[f]>>
                                        /\ h.pc \in {"success", "failure"}
  <2>1. CASE f = e
    BY <1>0, <2>1
  <2>2. CASE f # e
    <3>1. sends[f] > 0 /\ Keeps(f)
      BY <1>2, <2>2 DEF KeptInv
    <3>2. Last(f) \in Messages /\ Last(f) # <<e, k>> /\ Last(f) = <<f, sends'[f]>>
      BY <1>0, <2>2, <3>1, LastTypes DEF Last
    <3>3. \A h \in handlers : h.delivery[1] = Last(f) => EventOf(h.delivery) = f
      BY DEF EventOf, Last
    <3> QED BY <1>0, <2>2, <3>1, <3>2, <3>3 DEF Keeps
  <2> QED BY <2>1, <2>2
<1> QED BY <1>1, <1>2 DEF KeptInv, Keeps, Last

\* How a handler that deletes its message goes on.
LEMMA DeletesHow ==
    ASSUME NEW h, HandlerDeletes(h)
    PROVE  \/ Leave(h) /\ (h.pc = "last" \/ Swallow(h))
           \/ h.pc = "ok" /\ Step(h, "success") /\ DeleteMessage(h.delivery)
           \/ h.pc = "error" /\ Step(h, "failure") /\ DeleteMessage(h.delivery)
<1>0. h.pc \in {"last", "ok", "error"}
  BY DEF HandlerDeletes
<1>1. CASE Leave(h) /\ Swallow(h)
  BY <1>1
<1>2. CASE /\ DeleteMessage(h.delivery)
           /\ CASE h.pc = "last"  -> Leave(h)
                [] h.pc = "ok"    -> Step(h, "success")
                [] h.pc = "error" -> Step(h, "failure")
  <2>1. CASE h.pc = "last"
    BY <1>2, <2>1
  <2>2. CASE h.pc = "ok"
    BY <1>2, <2>2
  <2>3. CASE h.pc = "error"
    BY <1>2, <2>3
  <2> QED BY <1>0, <2>1, <2>2, <2>3
<1> QED BY <1>1, <1>2 DEF HandlerDeletes

\* A step of a handler keeps events.
LEMMA HandlerKeptInv ==
    ASSUME TypeInv, TypeInv', SentInv, KeptInv, NEW h \in handlers, HandlerStep(h)
    PROVE  KeptInv'
<1> DEFINE e == EventOf(h.delivery)
<1> DEFINE m == h.delivery[1]
<1> USE DEF serviceVars, worldVars, queueVars
<1>0. /\ h \in Handlers /\ m \in Messages /\ e \in Events
      /\ m[2] \in 1..MaxSends /\ m = <<e, m[2]>>
      /\ sends[e] \in 1..MaxSends /\ m[2] <= sends[e]
  BY HeldFacts
<1>a. /\ \A i \in handlers \cup handlers' : i \in Handlers /\ EventOf(i.delivery) \in Events
      /\ \A i \in handlers' : i \in handlers \/ i.delivery = h.delivery
      /\ \A i \in handlers : i = h \/ i \in handlers'
  BY HandlerTypes, HandsShrink DEF TypeInv, PollersTyped
<1>b. \A f \in Events : ended[f] \in Nat
  BY DEF TypeInv, HistoryTyped
<1>c. client' = client /\ (deletion' = "none" => deletion = "none") /\ swallowed \subseteq swallowed'
  BY DEF HandlerStep, InvocationRaises, InvocationRuns, InvocationReturns, HandleException,
         HandlerDeletes, HandleResult, history, Swallow
<1>d. ASSUME NEW p, Step(h, p) PROVE \A i \in handlers' : i \in handlers \/ i.pc = p
  BY <1>0, <1>d DEF Step, Handlers
<1>e. ASSUME Conclude(h) PROVE ended'[e] > 0 /\ \A f \in Events : ended[f] > 0 => ended'[f] > 0
  BY <1>0, <1>b, <1>e DEF Conclude, TypeInv, HistoryTyped
<1>f. ASSUME NEW r, SendMessage(e, r), ended' = ended PROVE KeptInv'
  <2>1. ASSUME NEW i \in handlers', EventOf(i.delivery) = e PROVE i.delivery[1][2] <= sends[e]
    BY <1>0, <1>a, <2>1, HeldFacts
  <2>2. \A i \in handlers' : i.pc = "last" => i \in handlers \/ EventOf(i.delivery) = e
    BY <1>a
  <2>3. \A i \in handlers : EventOf(i.delivery) # e => i \in handlers'
    BY <1>a
  <2>4. deletion' = deletion
    BY DEF HandlerStep, InvocationRaises, InvocationRuns, InvocationReturns, HandleException,
           HandlerDeletes, HandleResult
  <2> QED BY <1>0, <1>a, <1>c, <1>f, <2>1, <2>2, <2>3, <2>4, KeptSend
<1>g. ASSUME UNCHANGED <<place, sends>>
      PROVE  \A f \in Events : sends[f] > 0 /\ place[Last(f)] \in {"waiting", "out"} => Keeps(f)'
  BY <1>g DEF Keeps, Last
<1>h. ASSUME Swallow(h) PROVE Keeps(e)'
  BY <1>h DEF Swallow, Keeps
<1>1. ASSUME InvocationRaises(h) \/ InvocationRuns(h) \/ InvocationReturns(h) PROVE KeptInv'
  <2>1. /\ \A i \in handlers' : i.pc = "last" => i \in handlers
        /\ h.pc \notin {"success", "failure"}
    BY <1>1, <1>d DEF InvocationRaises, InvocationRuns, InvocationReturns
  <2>2. UNCHANGED <<place, sends, ended>>
    BY <1>1 DEF InvocationRaises, InvocationRuns, InvocationReturns, history
  <2> QED BY <1>a, <1>c, <1>g, <2>1, <2>2, KeptFrame
<1>2. ASSUME HandleException(h) PROVE KeptInv'
  <2>0. h.pc \notin {"success", "failure"}
    BY <1>2 DEF HandleException
  <2>1. CASE Conclude(h) /\ UNCHANGED queueVars
    <3>1. \A i \in handlers' : i.pc = "last" => i \in handlers \/ ended'[EventOf(i.delivery)] > 0
      BY <1>a, <1>e, <2>1
    <3> QED BY <1>a, <1>c, <1>e, <1>g, <2>0, <2>1, <3>1, KeptFrame
  <2>2. CASE SendMessage(e, RetriesOf(h)) /\ UNCHANGED ended
    BY <1>f, <2>2
  <2>3. CASE Leave(h) /\ UNCHANGED queueVars /\ UNCHANGED ended
    <3>1. \A i \in handlers' : i \in handlers
      BY <2>3 DEF Leave
    <3> QED BY <1>a, <1>c, <1>g, <2>0, <2>3, <3>1, KeptFrame
  <2> QED BY <1>2, <2>1, <2>2, <2>3 DEF HandleException
<1>3. ASSUME HandlerDeletes(h) PROVE KeptInv'
  <2>0. h.pc \in {"last", "ok", "error"} /\ ended' = ended
    BY <1>3 DEF HandlerDeletes
  <2>1. \A i \in handlers' : i.pc = "last" => i \in handlers
    BY <1>3, <1>d, DeletesHow DEF Leave
  <2>2. CASE UNCHANGED queueVars
    BY <1>a, <1>c, <1>g, <2>0, <2>1, <2>2, KeptFrame
  <2>3. CASE DeleteMessage(h.delivery) \/ DeleteRaises(h.delivery)
    <3>1. /\ sends' = sends /\ \A n \in Messages : n # m => place'[n] = place[n]
      BY <1>0, <2>3, DeleteFacts
    <3>2. ASSUME NEW f \in Events, sends[f] > 0, place[Last(f)] \in {"waiting", "out"}
          PROVE  Keeps(f)'
      <4>0. Last(f) \in Messages /\ Last(f)' = Last(f)
        BY <3>1, <3>2, LastTypes DEF Last
      <4>1. CASE Last(f) # m
        BY <3>1, <3>2, <4>0, <4>1 DEF Keeps
      <4>2. CASE Last(f) = m
        <5>1. f = e /\ m[2] = sends[e]
          BY <1>0, <4>2 DEF Last
        <5>2. CASE h.pc = "last"
          BY <1>0, <2>0, <5>1, <5>2 DEF KeptInv, Keeps
        <5>3. CASE Swallow(h)
          BY <1>h, <5>1, <5>3
        <5>4. CASE h.pc \in {"ok", "error"} /\ ~Swallow(h)
          <6>1. Step(h, "success") \/ Step(h, "failure")
            BY <1>3, <5>4, DeletesHow
          <6>2. \E i \in handlers' : i.delivery[1] = m /\ i.pc \in {"success", "failure"}
            <7>1. PICK p \in {"success", "failure"} : Step(h, p)
              BY <6>1
            <7>2. [h EXCEPT !.pc = p].delivery[1] = m /\ [h EXCEPT !.pc = p].pc = p
              BY <1>0 DEF Handlers
            <7>3. [h EXCEPT !.pc = p] \in handlers'
              BY <7>1 DEF Step
            <7> QED BY <7>2, <7>3
          <6> QED BY <4>0, <4>2, <5>1, <6>2 DEF Keeps
        <5> QED BY <2>0, <5>2, <5>3, <5>4
      <4> QED BY <4>1, <4>2
    <3> QED BY <1>a, <1>c, <2>0, <2>1, <3>1, <3>2, KeptFrame
  <2> QED BY <1>3, <2>2, <2>3 DEF HandlerDeletes
<1>4. ASSUME HandleResult(h) PROVE KeptInv'
  <2>1. \A i \in handlers' : i \in handlers
    BY <1>4 DEF HandleResult, Leave
  <2>2. CASE Conclude(h) /\ UNCHANGED queueVars
    <3>1. Keeps(e)'
      BY <1>e, <2>2 DEF Keeps
    <3> QED BY <1>a, <1>c, <1>e, <1>g, <2>1, <2>2, <3>1, KeptFrame
  <2>3. CASE SendMessage(e, RetriesOf(h) + 1) /\ UNCHANGED ended
    BY <1>f, <2>3
  <2>4. CASE Swallow(h) /\ UNCHANGED queueVars /\ UNCHANGED ended
    BY <1>a, <1>c, <1>g, <1>h, <2>1, <2>4, KeptFrame
  <2> QED BY <1>4, <2>2, <2>3, <2>4 DEF HandleResult
<1> QED BY <1>1, <1>2, <1>3, <1>4 DEF HandlerStep

\* Every step keeps events.
LEMMA StepKeptInv ==
    TypeInv /\ TypeInv' /\ SentInv /\ PollerInv /\ KeptInv /\ [Next]_vars => KeptInv'
<1> SUFFICES ASSUME TypeInv, TypeInv', SentInv, PollerInv, KeptInv, [Next]_vars PROVE KeptInv'
  OBVIOUS
<1>0. \A i \in handlers \cup handlers' : i \in Handlers /\ EventOf(i.delivery) \in Events
  BY HandlerTypes DEF TypeInv, PollersTyped
<1>a. ASSUME NEW f \in Events, sends[f] > 0, sends' = sends,
             place'[Last(f)] \in {"waiting", "out"}
      PROVE  Keeps(f)'
  BY <1>a DEF Keeps, Last
<1>1. CASE StillStep
  BY <1>0, <1>1, <1>a, KeptFrame DEF StillStep
<1>2. CASE CancelStep
  BY <1>0, <1>2, <1>a, KeptFrame DEF CancelStep
<1>3. ASSUME NEW e \in Events, ClientSends(e) PROVE KeptInv'
  <2>1. \A i \in handlers : EventOf(i.delivery) = e => i.delivery[1][2] <= sends[e]
    BY HeldFacts
  <2> QED BY <1>0, <1>3, <2>1, KeptSend DEF ClientSends, TypeInv, WorldTyped
<1>4. ASSUME NEW m \in Messages, MessageReturns(m) \/ MessageTimesOut(m) PROVE KeptInv'
  <2>1. UNCHANGED <<sends, handlers, ended, client, swallowed, deletion>>
    BY <1>4 DEF MessageReturns, MessageTimesOut, worldVars, serviceVars, history
  <2>2. place' = [n \in Messages |-> IF n = m THEN "waiting" ELSE place[n]]
    BY <1>4 DEF MessageReturns, MessageTimesOut, Queue!Return, Queue!Move
  <2> QED BY <1>0, <1>a, <2>1, <2>2, LastTypes, KeptFrame
<1>5. ASSUME NEW v \in Versions, NEW m \in Messages, PollerTakes(v, m) PROVE KeptInv'
  <2>1. UNCHANGED <<sends, handlers, ended, client, swallowed, deletion>>
    BY <1>5 DEF PollerTakes, worldVars, serviceVars, history
  <2>2. place' = [n \in Messages |-> IF n = m THEN "out" ELSE place[n]]
    BY <1>5 DEF PollerTakes, Queue!Take, Queue!Move
  <2> QED BY <1>0, <1>a, <2>1, <2>2, LastTypes, KeptFrame
<1>6. ASSUME NEW v \in Versions, PollerDrops(v) PROVE KeptInv'
  <2>1. UNCHANGED <<place, sends, handlers, ended, client, swallowed, deletion>>
    BY <1>6 DEF PollerDrops, queueVars, worldVars, serviceVars, history
  <2> QED BY <1>0, <1>a, <2>1, KeptFrame
<1>7. ASSUME NEW v \in Versions, NEW d \in batch[v], PollerSubmits(v, d) PROVE KeptInv'
  <2>1. UNCHANGED <<place, sends, ended, client, swallowed, deletion>>
    BY <1>7 DEF PollerSubmits, queueVars, worldVars, serviceVars, history
  <2>2. /\ \A h \in handlers' : h.pc = "last" => h \in handlers
        /\ handlers \subseteq handlers'
    BY <1>7 DEF PollerSubmits
  <2> QED BY <1>0, <1>a, <2>1, <2>2, KeptFrame
<1>8. ASSUME NEW h \in handlers, HandlerStep(h) PROVE KeptInv'
  BY <1>8, HandlerKeptInv
<1>9. ASSUME NEW v \in Versions, ManagerDeletesQueue(v) PROVE KeptInv'
  <2>1. /\ UNCHANGED <<sends, handlers, ended, client, swallowed, deletion>>
        /\ stopping[v] = "task"
    BY <1>9, DeletesQueueFacts
  <2>2. deletion # "none"
    BY <2>1 DEF PollerInv
  <2> QED BY <1>0, <2>1, <2>2, KeptFrame
<1> QED BY <1>1, <1>2, <1>3, <1>4, <1>5, <1>6, <1>7, <1>8, <1>9, StepCases

\* Until the function is deleted, an accepted event is in a message of the queue,
\* with a handler that will still conclude it or send it again, or concluded,
\* through any number of updates, failed versions, retries and dropped batches
\* (event_manager.py:573-582).
THEOREM EventsKept == Spec => []EventKept
<1>1. TypeInv /\ KeptInv => EventKept
  <2> SUFFICES ASSUME TypeInv, KeptInv, deletion = "none",
                      NEW e \in Events, client[e] = "accepted"
               PROVE  \/ ended[e] > 0 \/ e \in swallowed
                      \/ \E m \in Messages : m[1] = e /\ place[m] \in {"waiting", "out"}
                      \/ \E h \in handlers : /\ EventOf(h.delivery) = e
                                             /\ h.pc \in {"success", "failure"}
    BY DEF EventKept
  <2>1. sends[e] > 0 /\ Keeps(e)
    BY DEF KeptInv
  <2>2. Last(e) \in Messages /\ Last(e)[1] = e
    BY <2>1, LastTypes DEF Last
  <2> QED BY <2>1, <2>2 DEF Keeps, EventOf
<1>2. Spec => [](TypeInv /\ SentInv /\ PollerInv /\ KeptInv)
  BY InitTypeInv, StepTypeInv, InitSentInv, StepSentInv, InitPollerInv, StepPollerInv,
     InitKeptInv, StepKeptInv, PTL DEF Spec
<1> QED BY <1>1, <1>2, PTL

-----------------------------------------------------------------------------
(* No extra attempts                                                       *)

\* Nobody holds anything at first.
LEMMA InitAttempts == Init => HolderInv /\ TokenInv /\ AttemptInv
<1> SUFFICES ASSUME Init PROVE HolderInv /\ TokenInv /\ AttemptInv
  OBVIOUS
<1>1. /\ handlers = {} /\ \A v \in Versions : batch[v] = {}
      /\ \A e \in Events : sends[e] = 0 /\ answered[e] = 0 /\ ended[e] = 0
      /\ \A m \in Messages : m[1] \in Events /\ m[2] \in 1..MaxSends
  BY MessageTypes DEF Init
<1>2. HolderInv
  BY <1>1 DEF HolderInv, Held, InHands
<1>3. TokenInv
  BY <1>1 DEF TokenInv, Past
<1>4. AttemptInv
  BY <1>1 DEF AttemptInv, Bounded
<1> QED BY <1>2, <1>3, <1>4

\* A message that nobody more takes stays held as it was.
LEMMA HeldFrame ==
    ASSUME NEW m, Held(m),
           \A i \in handlers' : i.delivery[1] = m => i \in handlers,
           \A v \in Versions : \A d \in batch'[v] : d[1] = m => d \in batch[v],
           place'[m] = place[m] \/ place'[m] \in {"out", "gone"} \/ ~InHands(m)
    PROVE  Held(m)'
<1>1. InHands(m)' => InHands(m)
  BY DEF InHands
<1> QED BY <1>1 DEF Held

\* A handler that goes on is the one holder of its message, as it was before.
LEMMA StepHolder ==
    ASSUME TypeInv, HolderInv, NEW h \in handlers, h.delivery[1][1] \notin redelivered,
           h.delivery[1] \in Messages, NEW p, Step(h, p), batch' = batch
    PROVE  /\ \A i \in handlers' : i.delivery[1] = h.delivery[1] <=> i = [h EXCEPT !.pc = p]
           /\ [h EXCEPT !.pc = p] \in handlers'
           /\ [h EXCEPT !.pc = p].pc = p /\ [h EXCEPT !.pc = p].delivery = h.delivery
           /\ \A v \in Versions : \A d \in batch'[v] : d[1] # h.delivery[1]
           /\ place[h.delivery[1]] \in {"out", "gone"}
<1>1. h \in Handlers
  BY DEF TypeInv, PollersTyped
<1>2. [h EXCEPT !.pc = p].pc = p /\ [h EXCEPT !.pc = p].delivery = h.delivery
  BY <1>1 DEF Handlers
<1>3. Held(h.delivery[1]) /\ InHands(h.delivery[1])
  BY DEF HolderInv, InHands
<1>4. /\ \A i \in handlers : i.delivery[1] = h.delivery[1] => i = h
      /\ \A v \in Versions : \A d \in batch[v] : d[1] # h.delivery[1]
      /\ place[h.delivery[1]] \in {"out", "gone"}
  BY <1>3 DEF Held
<1> QED BY <1>2, <1>4 DEF Step

\* When it ends nobody holds the message.
LEMMA LeaveHolder ==
    ASSUME HolderInv, NEW h \in handlers, h.delivery[1][1] \notin redelivered,
           h.delivery[1] \in Messages, Leave(h), batch' = batch
    PROVE  /\ ~InHands(h.delivery[1])'
           /\ \A i \in handlers' : i.delivery[1] # h.delivery[1]
           /\ \A v \in Versions : \A d \in batch'[v] : d[1] # h.delivery[1]
           /\ place[h.delivery[1]] \in {"out", "gone"}
<1>3. Held(h.delivery[1]) /\ InHands(h.delivery[1])
  BY DEF HolderInv, InHands
<1>4. /\ \A i \in handlers : i.delivery[1] = h.delivery[1] => i = h
      /\ \A v \in Versions : \A d \in batch[v] : d[1] # h.delivery[1]
      /\ place[h.delivery[1]] \in {"out", "gone"}
  BY <1>3 DEF Held
<1> QED BY <1>4 DEF Leave, InHands

\* What a step of a handler does to the messages.
LEMMA HandlerPlaces ==
    ASSUME TypeInv, SentInv, NEW h \in handlers, HandlerStep(h)
    PROVE  /\ \A m \in Messages :
                 \/ place'[m] = place[m]
                 \/ m = h.delivery[1] /\ place'[m] = "gone" /\ sends' = sends
                 \/ ~InHands(m) /\ place[m] = "unsent"
           /\ redelivered' = redelivered
<1> DEFINE e == EventOf(h.delivery)
<1>0. h.delivery[1] \in Messages /\ e \in Events
  BY HeldFacts
<1>1. redelivered' = redelivered
  BY DEF HandlerStep, InvocationRaises, InvocationRuns, InvocationReturns,
         HandleException, HandlerDeletes, HandleResult, history
<1>2. \/ UNCHANGED queueVars
      \/ DeleteMessage(h.delivery) \/ DeleteRaises(h.delivery)
      \/ \E r : SendMessage(e, r)
  BY DEF HandlerStep, InvocationRaises, InvocationRuns, InvocationReturns,
         HandleException, HandlerDeletes, HandleResult
<1>3. CASE UNCHANGED queueVars
  BY <1>1, <1>3 DEF queueVars
<1>4. CASE DeleteMessage(h.delivery) \/ DeleteRaises(h.delivery)
  BY <1>0, <1>1, <1>4, DeleteFacts
<1>5. CASE \E r : SendMessage(e, r)
  <2>1. PICK r : SendMessage(e, r)
    BY <1>5
  <2>2. PICK k : k = sends[e] + 1
    OBVIOUS
  <2>3. /\ <<e, k>> \in Messages /\ place[<<e, k>>] = "unsent"
        /\ \A m \in Messages : m # <<e, k>> => place'[m] = place[m]
    BY <1>0, <2>1, <2>2, SendFacts
  <2>4. ~InHands(<<e, k>>)
    BY <2>3 DEF SentInv
  <2> QED BY <1>1, <2>3, <2>4
<1> QED BY <1>2, <1>3, <1>4, <1>5

\* Every step keeps messages in one hand.
LEMMA StepHolderInv ==
    TypeInv /\ TypeInv' /\ SentInv /\ HolderInv /\ [Next]_vars => HolderInv'
<1> SUFFICES ASSUME TypeInv, TypeInv', SentInv, HolderInv, [Next]_vars PROVE HolderInv'
  OBVIOUS
<1>0. /\ \A h \in handlers : /\ h \in Handlers /\ h.delivery[1] \in Messages
                             /\ place[h.delivery[1]] # "unsent"
                             /\ h.pc \in {"success", "failure"} => place[h.delivery[1]] = "gone"
      /\ \A m \in Messages : m[1] \notin redelivered => Held(m)
  BY HeldFacts DEF HolderInv
<1>1. CASE StillStep
  BY <1>0, <1>1, HeldFrame DEF StillStep, HolderInv
<1>2. CASE CancelStep
  BY <1>0, <1>2, HeldFrame DEF CancelStep, HolderInv
<1>3. ASSUME NEW e \in Events, ClientSends(e) PROVE HolderInv'
  <2>1. PICK k : k = sends[e] + 1
    OBVIOUS
  <2>2. /\ <<e, k>> \in Messages /\ place[<<e, k>>] = "unsent"
        /\ \A m \in Messages : m # <<e, k>> => place'[m] = place[m]
    BY <1>3, <2>1, SendFacts DEF ClientSends
  <2>3. ~InHands(<<e, k>>)
    BY <2>2 DEF SentInv
  <2>4. \A m \in Messages : m[1] \notin redelivered' => Held(m)'
    BY <1>0, <1>3, <2>2, <2>3, HeldFrame DEF ClientSends
  <2> QED BY <1>0, <1>3, <2>2, <2>4 DEF ClientSends, HolderInv
<1>4. ASSUME NEW m \in Messages, MessageReturns(m) \/ MessageTimesOut(m) PROVE HolderInv'
  <2>1. /\ UNCHANGED <<handlers, batch>> /\ redelivered \subseteq redelivered'
        /\ ~InHands(m) \/ m[1] \in redelivered'
    BY <1>4 DEF MessageReturns, MessageTimesOut, pollerVars, history
  <2>2. place[m] = "out" /\ place' = [n \in Messages |-> IF n = m THEN "waiting" ELSE place[n]]
    BY <1>4 DEF MessageReturns, MessageTimesOut, Queue!Return, Queue!Move
  <2>3. \A n \in Messages : n[1] \notin redelivered' => Held(n)'
    BY <1>0, <2>1, <2>2, HeldFrame
  <2> QED BY <1>0, <2>1, <2>2, <2>3 DEF HolderInv
<1>5. ASSUME NEW v \in Versions, NEW m \in Messages, PollerTakes(v, m) PROVE HolderInv'
  <2>1. handlers' = handlers /\ redelivered' = redelivered
    BY <1>5 DEF PollerTakes, history
  <2>2. place[m] = "waiting" /\ place' = [n \in Messages |-> IF n = m THEN "out" ELSE place[n]]
    BY <1>5 DEF PollerTakes, Queue!Take, Queue!Move
  <2>3. PICK k : k = count[m] + 1
    OBVIOUS
  <2>4. /\ batch'[v] = batch[v] \cup {<<m, k>>}
        /\ \A w \in Versions : w # v => batch'[w] = batch[w]
    BY <1>5, <2>3 DEF PollerTakes, TypeInv, PollersTyped
  <2>5. ASSUME NEW n \in Messages, n[1] \notin redelivered' PROVE Held(n)'
    <3>1. CASE n # m
      BY <1>0, <2>1, <2>2, <2>4, <2>5, <3>1, HeldFrame
    <3>2. CASE n = m
      <4>1. ~InHands(m)
        BY <1>0, <2>1, <2>2, <2>5, <3>2 DEF Held
      <4>2. /\ \A h \in handlers : h.delivery[1] # m
            /\ \A w \in Versions : \A d \in batch[w] : d[1] # m
        BY <4>1 DEF InHands
      <4>3. \A w \in Versions : \A d \in batch'[w] : d[1] = m => w = v /\ d = <<m, k>>
        BY <2>4, <4>2
      <4> QED BY <2>1, <2>2, <3>2, <4>2, <4>3 DEF Held
    <3> QED BY <3>1, <3>2
  <2> QED BY <1>0, <2>1, <2>2, <2>5 DEF HolderInv
<1>6. ASSUME NEW v \in Versions, PollerDrops(v) PROVE HolderInv'
  <2>1. UNCHANGED <<place, handlers, redelivered>>
    BY <1>6 DEF PollerDrops, queueVars, history
  <2>2. \A w \in Versions : batch'[w] \subseteq batch[w]
    BY <1>6 DEF PollerDrops, TypeInv, PollersTyped
  <2> QED BY <1>0, <2>1, <2>2, HeldFrame DEF HolderInv
<1>7. ASSUME NEW v \in Versions, NEW d \in batch[v], PollerSubmits(v, d) PROVE HolderInv'
  <2>1. UNCHANGED <<place, redelivered>>
    BY <1>7 DEF PollerSubmits, queueVars, history
  <2>2. \A w \in Versions : batch'[w] \subseteq batch[w] /\ (w = v => d \notin batch'[w])
    BY <1>7 DEF PollerSubmits, TypeInv, PollersTyped
  <2>3. PICK g : g = [delivery |-> d, version |-> v, pc |-> "queued"]
    OBVIOUS
  <2>4. handlers' = handlers \cup {g} /\ g.delivery = d /\ g.pc = "queued"
    BY <1>7, <2>3 DEF PollerSubmits
  <2>5. ASSUME NEW n \in Messages, n[1] \notin redelivered' PROVE Held(n)'
    <3>1. CASE n # d[1]
      BY <1>0, <2>1, <2>2, <2>4, <2>5, <3>1, HeldFrame
    <3>2. CASE n = d[1]
      <4>0. Held(n) /\ InHands(n)
        BY <1>0, <2>1, <2>5, <3>2 DEF InHands
      <4>1. \A h \in handlers : h.delivery[1] # n
        BY <3>2, <4>0 DEF Held
      <4>2. \A w \in Versions : \A c \in batch'[w] : c[1] # n
        BY <2>2, <3>2, <4>0 DEF Held
      <4>3. \A h \in handlers' : h.delivery[1] = n => h = g
        BY <2>4, <4>1
      <4>4. place[n] \in {"out", "gone"}
        BY <4>0 DEF Held
      <4> QED BY <2>1, <4>2, <4>3, <4>4 DEF Held
    <3> QED BY <3>1, <3>2
  <2> QED BY <1>0, <2>1, <2>4, <2>5 DEF HolderInv
<1>8. ASSUME NEW h \in handlers, HandlerStep(h) PROVE HolderInv'
  <2>0. /\ \A m \in Messages :
              \/ place'[m] = place[m]
              \/ m = h.delivery[1] /\ place'[m] = "gone"
              \/ ~InHands(m) /\ place[m] = "unsent"
        /\ redelivered' = redelivered /\ batch' = batch
        /\ \A i \in handlers' : i \in handlers \/ i.delivery = h.delivery
    BY <1>8, HandlerPlaces, HandsShrink
  <2>1. ASSUME NEW m \in Messages, m[1] \notin redelivered' PROVE Held(m)'
    <3>1. CASE m # h.delivery[1]
      BY <1>0, <2>0, <2>1, <3>1, HeldFrame
    <3>2. CASE m = h.delivery[1] /\ Leave(h)
      <4>1. ~InHands(m)'
        BY <2>0, <2>1, <3>2, LeaveHolder
      <4> QED BY <4>1 DEF Held, InHands
    <3>3. CASE m = h.delivery[1] /\ \E p : Step(h, p)
      <4>1. PICK p : Step(h, p)
        BY <3>3
      <4>2. PICK g : g = [h EXCEPT !.pc = p]
        OBVIOUS
      <4>3. /\ \A i \in handlers' : i.delivery[1] = m => i = g
            /\ \A v \in Versions : \A d \in batch'[v] : d[1] # m
            /\ place[m] \in {"out", "gone"}
        BY <2>0, <2>1, <3>3, <4>1, <4>2, StepHolder
      <4>4. place'[m] \in {"out", "gone"}
        BY <2>0, <4>3
      <4> QED BY <4>3, <4>4 DEF Held
    <3>4. Leave(h) \/ \E p : Step(h, p)
      BY <1>8, DeletesHow
      DEF HandlerStep, InvocationRaises, InvocationRuns, InvocationReturns, HandleException,
          HandleResult
    <3> QED BY <3>1, <3>2, <3>3, <3>4
  <2>2. ASSUME NEW i \in handlers', i.pc \in {"success", "failure"}
        PROVE  place'[i.delivery[1]] = "gone"
    <3>1. CASE i \in handlers
      BY <1>0, <2>0, <2>2, <3>1
    <3>2. CASE i \notin handlers
      <4>1. ASSUME NEW p, Step(h, p) PROVE i.pc = p
        BY <1>0, <3>2, <4>1 DEF Step, Handlers
      <4>2. DeleteMessage(h.delivery)
        <5>1. /\ ~Leave(h) /\ ~Step(h, "raised") /\ ~Step(h, "invoking") /\ ~Step(h, "ok")
              /\ ~Step(h, "error") /\ ~Step(h, "last")
          BY <2>2, <3>2, <4>1 DEF Leave
        <5>2. HandlerDeletes(h)
          BY <1>8, <5>1
          DEF HandlerStep, InvocationRaises, InvocationRuns, InvocationReturns, HandleException,
              HandleResult
        <5> QED BY <5>1, <5>2, DeletesHow
      <4> QED BY <1>0, <2>0, <3>2, <4>2, DeleteFacts
    <3> QED BY <3>1, <3>2
  <2> QED BY <2>1, <2>2 DEF HolderInv
<1>9. ASSUME NEW v \in Versions, ManagerDeletesQueue(v) PROVE HolderInv'
  <2>1. /\ UNCHANGED <<handlers, batch, redelivered>>
        /\ \A m \in Messages :
              \/ place'[m] = place[m]
              \/ place[m] \in {"waiting", "out"} /\ place'[m] = "gone"
    BY <1>9, DeletesQueueFacts
  <2> QED BY <1>0, <2>1, HeldFrame DEF HolderInv
<1> QED BY <1>1, <1>2, <1>3, <1>4, <1>5, <1>6, <1>7, <1>8, <1>9, StepCases

\* A spent message stays spent while nobody takes it and its last handlers stay
\* until it is gone.
LEMMA SpentFrame ==
    ASSUME NEW m, Spent(m),
           \A i \in handlers' : i.delivery[1] = m => i \in handlers,
           \A v \in Versions : \A d \in batch'[v] : d[1] = m => d \in batch[v],
           \/ place'[m] = "gone"
           \/ /\ place'[m] = place[m]
              /\ \A i \in handlers : i.delivery[1] = m /\ i.pc = "last" => i \in handlers'
    PROVE  Spent(m)'
BY DEF Spent

\* A handler that has more to do than to delete its message holds the last
\* message of an event that is not concluded.
LEMMA LiveHandler ==
    ASSUME TypeInv, SentInv, TokenInv, NEW h \in handlers, h.pc # "last",
           EventOf(h.delivery) \notin redelivered
    PROVE  h.delivery[1] = Last(EventOf(h.delivery)) /\ ended[EventOf(h.delivery)] = 0
<1> DEFINE e == EventOf(h.delivery)
<1> DEFINE m == h.delivery[1]
<1>1. /\ m \in Messages /\ e \in Events /\ m[1] = e /\ m = <<e, m[2]>> /\ m[2] \in 1..MaxSends
      /\ m[2] <= sends[e] /\ sends[e] \in 1..MaxSends
  BY HeldFacts
<1>2. ~Spent(m)
  BY DEF Spent
<1>3. ~Past(m)
  BY <1>1, <1>2 DEF TokenInv
<1>4. ended[e] \in Nat
  BY <1>1 DEF TypeInv, HistoryTyped
<1> QED BY <1>1, <1>3, <1>4 DEF Past, Last

\* A step of a handler leaves earlier messages spent.
LEMMA HandlerTokenInv ==
    ASSUME TypeInv, SentInv, HolderInv, TokenInv, NEW h \in handlers, HandlerStep(h)
    PROVE  TokenInv'
<1> DEFINE e == EventOf(h.delivery)
<1> DEFINE m == h.delivery[1]
<1>0. /\ m \in Messages /\ e \in Events /\ m[1] = e /\ m = <<e, m[2]>> /\ m[2] \in 1..MaxSends
      /\ m[2] <= sends[e] /\ sends[e] \in 1..MaxSends /\ place[m] # "unsent"
  BY HeldFacts
<1>a. /\ \A n \in Messages :
            \/ place'[n] = place[n]
            \/ n = m /\ place'[n] = "gone"
            \/ ~InHands(n) /\ place[n] = "unsent"
      /\ redelivered' = redelivered /\ batch' = batch
      /\ \A i \in handlers' : i \in handlers \/ i.delivery = h.delivery
      /\ \A i \in handlers : i = h \/ i \in handlers'
  BY HandlerPlaces, HandsShrink
<1>b. ASSUME NEW n \in Messages, n # m, Spent(n) PROVE Spent(n)'
  <2>1. place[n] # "unsent"
    BY <1>b DEF Spent
  <2> QED BY <1>a, <1>b, <2>1, SpentFrame
<1>c. \A f \in Events : /\ sends[f] \in Nat /\ ended[f] \in Nat
                        /\ f # e => ended'[f] = ended[f] /\ sends'[f] = sends[f]
  <2>1. \A f \in Events : f # e => ended'[f] = ended[f]
    BY <1>0 DEF HandlerStep, InvocationRaises, InvocationRuns, InvocationReturns,
                HandleException, HandlerDeletes, HandleResult, Conclude, history, TypeInv,
                HistoryTyped
  <2>2. \/ UNCHANGED queueVars
        \/ DeleteMessage(h.delivery) \/ DeleteRaises(h.delivery)
        \/ \E r : SendMessage(e, r)
    BY DEF HandlerStep, InvocationRaises, InvocationRuns, InvocationReturns,
           HandleException, HandlerDeletes, HandleResult
  <2>3. \A f \in Events : f # e => sends'[f] = sends[f]
    BY <1>0, <2>2
    DEF queueVars, DeleteMessage, DeleteRaises, SendMessage, TypeInv, QueueTyped
  <2>4. \A f \in Events : sends[f] \in Nat /\ ended[f] \in Nat
    BY DEF TypeInv, QueueTyped, HistoryTyped
  <2> QED BY <2>1, <2>3, <2>4
<1>d. \A n \in Messages : n[1] \in Events /\ n[2] \in 1..MaxSends /\ n = <<n[1], n[2]>>
  BY MessageTypes
<1>1. CASE e \in redelivered
  <2>1. ASSUME NEW n \in Messages, n[1] \notin redelivered', Past(n)' PROVE Spent(n)'
    <3>1. n[1] # e /\ n # m /\ Past(n)
      BY <1>0, <1>1, <1>a, <1>c, <1>d, <2>1 DEF Past
    <3> QED BY <1>a, <1>b, <2>1, <3>1 DEF TokenInv
  <2> QED BY <2>1 DEF TokenInv
<1>2. CASE e \notin redelivered /\ sends'[e] = sends[e] /\ ended'[e] = ended[e]
  <2>1. ASSUME NEW n \in Messages, n[1] \notin redelivered', Past(n)' PROVE Spent(n)'
    <3>1. Past(n)
      BY <1>2, <1>c, <1>d, <2>1 DEF Past
    <3>2. Spent(n)
      BY <1>a, <2>1, <3>1 DEF TokenInv
    <3>3. CASE n # m
      BY <1>b, <3>2, <3>3
    <3>4. CASE n = m
      <4>1. h.pc = "last"
        BY <3>2, <3>4 DEF Spent
      <4>2. HandlerDeletes(h)
        BY <4>1 DEF HandlerStep, InvocationRaises, InvocationRuns, InvocationReturns,
                    HandleException, HandleResult
      <4>3. Leave(h)
        BY <4>1, <4>2, DeletesHow
      <4>4. place'[m] = "gone"
        <5>1. CASE DeleteMessage(h.delivery) \/ DeleteRaises(h.delivery)
          BY <1>0, <5>1, DeleteFacts
        <5>2. CASE ~queueExists /\ UNCHANGED queueVars
          BY <1>0, <5>2 DEF SentInv, queueVars
        <5> QED BY <4>2, <5>1, <5>2 DEF HandlerDeletes
      <4>5. \A i \in handlers' : i \in handlers
        BY <4>3 DEF Leave
      <4> QED BY <1>a, <3>2, <3>4, <4>4, <4>5, SpentFrame
    <3> QED BY <3>3, <3>4
  <2> QED BY <2>1 DEF TokenInv
<1>3. CASE e \notin redelivered /\ ~(sends'[e] = sends[e] /\ ended'[e] = ended[e])
  <2>1. ~InvocationRaises(h) /\ ~InvocationRuns(h) /\ ~InvocationReturns(h)
    BY <1>3 DEF InvocationRaises, InvocationRuns, InvocationReturns, history, queueVars
  <2>2. ~HandlerDeletes(h)
    BY <1>3 DEF HandlerDeletes, DeleteMessage, DeleteRaises, queueVars
  <2>3. HandleException(h) \/ HandleResult(h)
    BY <2>1, <2>2 DEF HandlerStep
  <2>4. h.pc # "last" /\ m[2] = sends[e] /\ ended[e] = 0
    <3>1. h.pc # "last"
      BY <2>3 DEF HandleException, HandleResult
    <3> QED BY <1>0, <1>3, <3>1, LiveHandler DEF Last
  <2>5. Spent(m)'
    <3>1. CASE HandleException(h)
      <4>1. Step(h, "last")
        BY <1>3, <3>1 DEF HandleException, queueVars
      <4>2. PICK g : g = [h EXCEPT !.pc = "last"]
        OBVIOUS
      <4>3. /\ \A i \in handlers' : i.delivery[1] = m <=> i = g
            /\ g \in handlers' /\ g.pc = "last"
            /\ \A v \in Versions : \A d \in batch'[v] : d[1] # m
            /\ place[m] \in {"out", "gone"}
        BY <1>0, <1>3, <1>a, <4>1, <4>2, StepHolder
      <4>4. place'[m] \in {"out", "gone"}
        BY <1>0, <1>a, <4>3
      <4> QED BY <4>3, <4>4 DEF Spent
    <3>2. CASE HandleResult(h)
      <4>1. h.pc \in {"success", "failure"} /\ Leave(h)
        BY <3>2 DEF HandleResult
      <4>2. place[m] = "gone"
        BY <4>1 DEF HolderInv
      <4>3. place'[m] = "gone"
        BY <1>0, <1>a, <4>2
      <4> QED BY <1>0, <1>3, <1>a, <4>1, <4>3, LeaveHolder DEF Spent
    <3> QED BY <2>3, <3>1, <3>2
  <2>6. sends'[e] = sends[e] \/ (sends'[e] = sends[e] + 1 /\ ended'[e] = ended[e])
    BY <1>0, <1>3, <2>3 DEF HandleException, HandleResult, SendMessage, TypeInv, QueueTyped,
                            queueVars
  <2>7. ASSUME NEW n \in Messages, n[1] \notin redelivered', Past(n)' PROVE Spent(n)'
    <3>1. CASE n = m
      BY <2>5, <3>1
    <3>2. CASE n # m
      <4>1. Past(n)
        <5>1. CASE n[1] # e
          BY <1>c, <1>d, <2>7, <5>1 DEF Past
        <5>2. CASE n[1] = e
          <6>1. n[2] # sends[e]
            BY <1>0, <1>d, <2>4, <3>2, <5>2
          <6>2. sends[e] \in Nat /\ n[2] \in Nat
            BY <1>0, <1>d
          <6>3. n[2] < sends[e]
            <7>1. n[2] < sends'[e] \/ (n[2] = sends'[e] /\ ended'[e] > 0)
              BY <2>7, <5>2 DEF Past
            <7>2. ended[e] = 0
              BY <2>4
            <7> QED BY <2>6, <6>1, <6>2, <7>1, <7>2
          <6> QED BY <5>2, <6>3 DEF Past
        <5> QED BY <5>1, <5>2
      <4> QED BY <1>a, <1>b, <2>7, <3>2, <4>1 DEF TokenInv
    <3> QED BY <3>1, <3>2
  <2> QED BY <2>7 DEF TokenInv
<1> QED BY <1>1, <1>2, <1>3

\* Every step leaves earlier messages spent.
LEMMA StepTokenInv ==
    TypeInv /\ SentInv /\ HolderInv /\ TokenInv /\ [Next]_vars => TokenInv'
<1> SUFFICES ASSUME TypeInv, SentInv, HolderInv, TokenInv, [Next]_vars PROVE TokenInv'
  OBVIOUS
<1>0. \A m \in Messages : m[1] \in Events /\ m[2] \in 1..MaxSends /\ m = <<m[1], m[2]>>
  BY MessageTypes
<1>a. ASSUME UNCHANGED <<sends, ended>> PROVE \A m \in Messages : Past(m)' <=> Past(m)
  BY <1>a DEF Past
<1>1. CASE StillStep
  BY <1>1, <1>a, SpentFrame DEF StillStep, TokenInv
<1>2. CASE CancelStep
  BY <1>2, <1>a, SpentFrame DEF CancelStep, TokenInv
<1>3. ASSUME NEW e \in Events, ClientSends(e) PROVE TokenInv'
  <2>1. PICK k : k = sends[e] + 1
    OBVIOUS
  <2>2. /\ <<e, k>> \in Messages /\ place[<<e, k>>] = "unsent" /\ sends'[e] = k
        /\ \A m \in Messages : m # <<e, k>> => place'[m] = place[m]
        /\ \A f \in Events : f # e => sends'[f] = sends[f]
    BY <1>3, <2>1, SendFacts DEF ClientSends
  <2>3. sends[e] = 0 /\ ended'[e] = 0
    <3>1. sends[e] \in Nat /\ ~(sends[e] > 0)
      BY <1>3 DEF ClientSends, SentInv, TypeInv, QueueTyped
    <3> QED BY <1>3, <3>1 DEF ClientSends, SentInv
  <2>4. ASSUME NEW m \in Messages, m[1] \notin redelivered', Past(m)' PROVE Spent(m)'
    <3>1. m[1] # e
      BY <1>0, <2>1, <2>2, <2>3, <2>4 DEF Past
    <3>2. Past(m)
      BY <1>0, <1>3, <2>2, <2>4, <3>1 DEF Past, ClientSends
    <3>3. Spent(m) /\ m # <<e, k>>
      BY <1>3, <2>4, <3>1, <3>2 DEF TokenInv, ClientSends
    <3> QED BY <1>3, <2>2, <3>3, SpentFrame DEF ClientSends
  <2> QED BY <2>4 DEF TokenInv
<1>4. ASSUME NEW m \in Messages, MessageReturns(m) \/ MessageTimesOut(m) PROVE TokenInv'
  <2>1. /\ UNCHANGED <<sends, ended, handlers, batch>> /\ redelivered \subseteq redelivered'
        /\ ~InHands(m) \/ m[1] \in redelivered'
    BY <1>4 DEF MessageReturns, MessageTimesOut, pollerVars, history
  <2>2. place[m] = "out" /\ place' = [n \in Messages |-> IF n = m THEN "waiting" ELSE place[n]]
    BY <1>4 DEF MessageReturns, MessageTimesOut, Queue!Return, Queue!Move
  <2>3. ASSUME NEW n \in Messages, n[1] \notin redelivered', Past(n)' PROVE Spent(n)'
    <3>1. Spent(n)
      BY <1>a, <2>1, <2>3 DEF TokenInv
    <3>2. n # m
      BY <2>1, <2>2, <2>3, <3>1 DEF Spent, InHands
    <3> QED BY <2>1, <2>2, <3>1, <3>2, SpentFrame
  <2> QED BY <2>3 DEF TokenInv
<1>5. ASSUME NEW v \in Versions, NEW m \in Messages, PollerTakes(v, m) PROVE TokenInv'
  <2>1. UNCHANGED <<sends, ended, handlers, redelivered>>
    BY <1>5 DEF PollerTakes, history
  <2>2. place[m] = "waiting" /\ place' = [n \in Messages |-> IF n = m THEN "out" ELSE place[n]]
    BY <1>5 DEF PollerTakes, Queue!Take, Queue!Move
  <2>3. \A w \in Versions : \A d \in batch'[w] : d \in batch[w] \/ d[1] = m
    BY <1>5 DEF PollerTakes, TypeInv, PollersTyped
  <2>4. ASSUME NEW n \in Messages, n[1] \notin redelivered', Past(n)' PROVE Spent(n)'
    <3>1. Spent(n)
      BY <1>a, <2>1, <2>4 DEF TokenInv
    <3>2. n # m
      BY <2>2, <3>1 DEF Spent
    <3> QED BY <2>1, <2>2, <2>3, <3>1, <3>2, SpentFrame
  <2> QED BY <2>4 DEF TokenInv
<1>6. ASSUME NEW v \in Versions, PollerDrops(v) PROVE TokenInv'
  <2>1. UNCHANGED <<place, sends, ended, handlers, redelivered>>
    BY <1>6 DEF PollerDrops, queueVars, history
  <2>2. \A w \in Versions : batch'[w] \subseteq batch[w]
    BY <1>6 DEF PollerDrops, TypeInv, PollersTyped
  <2> QED BY <1>a, <2>1, <2>2, SpentFrame DEF TokenInv
<1>7. ASSUME NEW v \in Versions, NEW d \in batch[v], PollerSubmits(v, d) PROVE TokenInv'
  <2>1. UNCHANGED <<place, sends, ended, redelivered>>
    BY <1>7 DEF PollerSubmits, queueVars, history
  <2>2. \A w \in Versions : batch'[w] \subseteq batch[w]
    BY <1>7 DEF PollerSubmits, TypeInv, PollersTyped
  <2>3. /\ \A h \in handlers' : h \in handlers \/ h.delivery = d
        /\ handlers \subseteq handlers'
    BY <1>7 DEF PollerSubmits
  <2>4. ASSUME NEW n \in Messages, n[1] \notin redelivered', Past(n)' PROVE Spent(n)'
    <3>1. Spent(n)
      BY <1>a, <2>1, <2>4 DEF TokenInv
    <3>2. n # d[1]
      BY <3>1 DEF Spent
    <3> QED BY <2>1, <2>2, <2>3, <3>1, <3>2, SpentFrame
  <2> QED BY <2>4 DEF TokenInv
<1>8. ASSUME NEW h \in handlers, HandlerStep(h) PROVE TokenInv'
  BY <1>8, HandlerTokenInv
<1>9. ASSUME NEW v \in Versions, ManagerDeletesQueue(v) PROVE TokenInv'
  <2>1. /\ UNCHANGED <<sends, ended, handlers, batch, redelivered>>
        /\ \A m \in Messages : place'[m] = place[m] \/ place'[m] = "gone"
    BY <1>9, DeletesQueueFacts
  <2> QED BY <1>a, <2>1, SpentFrame DEF TokenInv
<1> QED BY <1>1, <1>2, <1>3, <1>4, <1>5, <1>6, <1>7, <1>8, <1>9, StepCases

\* An event stays bounded when nothing of it changes but that its last message
\* gets its result.
LEMMA BoundedFrame ==
    ASSUME NEW e, Bounded(e), NEW L, L = Last(e),
           sends'[e] = sends[e], answered'[e] = answered[e], ended'[e] = ended[e],
           sends[e] > 0 => retries'[L] = retries[L] /\ (Pending(L)' => Pending(L))
    PROVE  Bounded(e)'
<1>1. L = <<e, sends'[e]>>
  BY DEF Last
<1>2. sends[e] > 0 => /\ answered[e] <= retries[L] + 1
                      /\ Pending(L) => answered[e] <= retries[L]
  BY DEF Bounded
<1>3. Last(e)' = L
  BY <1>1 DEF Last
<1>4. ended'[e] <= 1
  BY DEF Bounded
<1>5. ASSUME sends'[e] > 0
      PROVE  /\ answered'[e] <= retries'[L] + 1
             /\ Pending(L)' => answered'[e] <= retries'[L]
  BY <1>2, <1>5
<1>6. Pending(Last(e))' <=> Pending(L)'
  BY <1>3 DEF Pending, InHands
<1> QED BY <1>1, <1>3, <1>4, <1>5, <1>6 DEF Bounded, Last

\* What a bounded event needs when its last message is not pending.
LEMMA BoundedAfter ==
    ASSUME NEW e, ended'[e] <= 1, NEW L, L = <<e, sends'[e]>>,
           answered'[e] <= retries'[L] + 1,
           Pending(L)' => answered'[e] <= retries'[L]
    PROVE  Bounded(e)'
<1>1. Last(e)' = L
  BY DEF Last
<1>2. Pending(Last(e))' <=> Pending(L)'
  BY <1>1 DEF Pending, InHands
<1> QED BY <1>1, <1>2 DEF Bounded, Last

\* A step of a handler keeps the bound of its event and of the others.
LEMMA HandlerAttemptInv ==
    ASSUME TypeInv, TypeInv', SentInv, HolderInv, TokenInv, AttemptInv,
           NEW h \in handlers, HandlerStep(h)
    PROVE  AttemptInv'
<1> DEFINE e == EventOf(h.delivery)
<1> DEFINE m == h.delivery[1]
<1>0. /\ m \in Messages /\ e \in Events /\ m[1] = e /\ m = <<e, m[2]>> /\ m[2] \in 1..MaxSends
      /\ m[2] <= sends[e] /\ sends[e] \in 1..MaxSends /\ place[m] # "unsent"
      /\ InHands(m)
  BY HeldFacts
<1>a. /\ \A n \in Messages :
            \/ place'[n] = place[n]
            \/ n = m /\ place'[n] = "gone"
            \/ ~InHands(n) /\ place[n] = "unsent"
      /\ redelivered' = redelivered /\ batch' = batch
      /\ \A i \in handlers' : i \in handlers \/ i.delivery = h.delivery
      /\ \A i \in handlers : i = h \/ i \in handlers'
      /\ \A n \in Messages : InHands(n)' => InHands(n)
  BY HandlerPlaces, HandsShrink
<1>b. ASSUME NEW L \in Messages, L # m PROVE Pending(L)' => Pending(L)
  <2>1. place'[L] # "gone" => place[L] # "gone"
    BY <1>a, <1>b
  <2>2. \A i \in handlers : i.delivery[1] = L => i \in handlers'
    BY <1>a, <1>b
  <2> QED BY <1>a, <2>1, <2>2 DEF Pending
<1>c. \/ UNCHANGED queueVars
      \/ DeleteMessage(h.delivery) \/ DeleteRaises(h.delivery)
      \/ \E r : SendMessage(e, r)
  BY DEF HandlerStep, InvocationRaises, InvocationRuns, InvocationReturns,
         HandleException, HandlerDeletes, HandleResult
<1>d. ASSUME NEW f \in Events \ redelivered', f # e PROVE Bounded(f)'
  <2>1. answered'[f] = answered[f] /\ ended'[f] = ended[f]
    BY <1>0, <1>d
    DEF HandlerStep, InvocationRaises, InvocationRuns, InvocationReturns, HandleException,
        HandlerDeletes, HandleResult, Conclude, history, TypeInv, HistoryTyped
  <2>2. sends'[f] = sends[f]
    BY <1>0, <1>c, <1>d
    DEF queueVars, DeleteMessage, DeleteRaises, SendMessage, TypeInv, QueueTyped
  <2>3. PICK L : L = Last(f)
    OBVIOUS
  <2>4. ASSUME sends[f] > 0 PROVE retries'[L] = retries[L] /\ (Pending(L)' => Pending(L))
    <3>1. L \in Messages /\ L # m /\ L[1] = f
      BY <1>0, <1>d, <2>3, <2>4, LastTypes DEF Last
    <3>2. retries'[L] = retries[L]
      <4>1. CASE \E r : SendMessage(e, r)
        <5>1. PICK r : SendMessage(e, r)
          BY <4>1
        <5>2. PICK k : k = sends[e] + 1
          OBVIOUS
        <5>3. L # <<e, k>>
          BY <1>d, <3>1
        <5>4. \A n \in Messages : n # <<e, k>> => retries'[n] = retries[n]
          BY <5>1, <5>2 DEF SendMessage, TypeInv, QueueTyped
        <5> QED BY <3>1, <5>3, <5>4
      <4> QED BY <1>c, <4>1 DEF queueVars, DeleteMessage, DeleteRaises
    <3> QED BY <1>b, <3>1, <3>2
  <2>5. Bounded(f)
    BY <1>a, <1>d DEF AttemptInv
  <2> QED BY <2>1, <2>2, <2>3, <2>4, <2>5, BoundedFrame
<1>e. ASSUME e \notin redelivered PROVE Bounded(e)'
  <2>0. /\ answered[e] \in Nat /\ ended[e] \in Nat /\ retries[m] \in 0..MaxRetries
        /\ RetriesOf(h) = retries[m] /\ Bounded(e)
    BY <1>0, <1>e DEF TypeInv, HistoryTyped, QueueTyped, RetriesOf, AttemptInv
  <2>a. \A i \in handlers : i.delivery[1] = m => i = h
    BY <1>0, <1>e DEF HolderInv, Held
  <2>b. ASSUME Leave(h), place'[m] = "gone" PROVE ~Pending(m)'
    BY <1>0, <1>a, <1>e, <2>b, LeaveHolder DEF Pending
  <2>c. ASSUME NEW p \in {"ok", "error", "success", "failure"}, Step(h, p) PROVE ~Pending(m)'
    <3>1. PICK g : g = [h EXCEPT !.pc = p]
      OBVIOUS
    <3>2. g \in handlers' /\ g.pc = p /\ g.delivery[1] = m
      BY <1>0, <1>a, <1>e, <2>c, <3>1, StepHolder
    <3> QED BY <3>2 DEF Pending
  <2>1. CASE h.pc = "last"
    <3>1. HandlerDeletes(h)
      BY <2>1 DEF HandlerStep, InvocationRaises, InvocationRuns, InvocationReturns,
                  HandleException, HandleResult
    <3>2. Leave(h)
      BY <2>1, <3>1, DeletesHow
    <3>3. place'[m] = "gone" /\ sends' = sends /\ retries' = retries
      <4>1. CASE DeleteMessage(h.delivery) \/ DeleteRaises(h.delivery)
        BY <1>0, <4>1, DeleteFacts
      <4>2. CASE ~queueExists /\ UNCHANGED queueVars
        BY <1>0, <4>2 DEF SentInv, queueVars
      <4> QED BY <3>1, <4>1, <4>2 DEF HandlerDeletes
    <3>4. answered' = answered /\ ended' = ended
      BY <3>1 DEF HandlerDeletes
    <3>5. PICK L : L = Last(e)
      OBVIOUS
    <3>6. L \in Messages
      BY <1>0, <3>5, LastTypes
    <3>7. Pending(L)' => Pending(L)
      BY <1>b, <2>b, <3>2, <3>3, <3>6
    <3> QED BY <2>0, <3>3, <3>4, <3>5, <3>7, BoundedFrame
  <2>2. CASE h.pc # "last"
    <3>0. m = Last(e) /\ m = <<e, sends[e]>> /\ ended[e] = 0
      BY <1>e, <2>2, LiveHandler DEF Last
    <3>1. /\ answered[e] <= retries[m] + 1
          /\ Pending(m) => answered[e] <= retries[m]
      BY <1>0, <2>0, <3>0 DEF Bounded
    <3>2. h.pc \in {"queued", "invoking", "raised"} => answered[e] <= retries[m]
      <4>1. h.pc \in {"queued", "invoking", "raised"} => Pending(m)
        BY <1>0, <2>a DEF Pending
      <4> QED BY <3>1, <4>1
    <3>a. ASSUME Conclude(h) PROVE ended'[e] = 1
      BY <1>0, <3>0, <3>a DEF Conclude, TypeInv, HistoryTyped
    <3>b. ASSUME UNCHANGED queueVars PROVE place' = place /\ retries' = retries /\ sends' = sends
      BY <3>b DEF queueVars
    <3>c. ASSUME NEW r, r \in Nat, SendMessage(e, r), answered'[e] = answered[e],
                 answered[e] <= r, ended'[e] = ended[e]
          PROVE  Bounded(e)'
      <4>1. PICK k : k = sends[e] + 1
        OBVIOUS
      <4>2. retries'[<<e, k>>] = r /\ sends'[e] = k
        BY <1>0, <3>c, <4>1, SendFacts
      <4>3. ended'[e] <= 1 /\ answered'[e] <= r /\ answered'[e] <= r + 1
        BY <2>0, <3>0, <3>c
      <4> QED BY <4>2, <4>3, BoundedAfter
    <3>3. CASE InvocationRaises(h) \/ InvocationRuns(h)
      <4>1. /\ UNCHANGED queueVars /\ answered' = answered /\ ended' = ended
            /\ h.pc \in {"queued", "invoking", "raised"}
        BY <3>3 DEF InvocationRaises, InvocationRuns, history
      <4>2. ended'[e] <= 1 /\ answered'[e] <= retries[m] /\ answered'[e] <= retries[m] + 1
        BY <2>0, <3>0, <3>2, <4>1
      <4> QED BY <3>0, <3>b, <4>1, <4>2, BoundedAfter
    <3>4. CASE InvocationReturns(h)
      <4>1. /\ UNCHANGED queueVars /\ ended' = ended /\ h.pc = "invoking"
            /\ answered'[e] = answered[e] + 1
        BY <1>0, <3>4 DEF InvocationReturns, TypeInv, HistoryTyped
      <4>2. ~Pending(m)'
        BY <2>c, <3>4 DEF InvocationReturns
      <4>3. ended'[e] <= 1 /\ answered'[e] <= retries[m] + 1
        BY <2>0, <3>0, <3>2, <4>1
      <4> QED BY <3>0, <3>b, <4>1, <4>2, <4>3, BoundedAfter
    <3>5. CASE HandleException(h)
      <4>0. h.pc = "raised" /\ answered' = answered
        BY <3>5 DEF HandleException
      <4>1. CASE UNCHANGED queueVars
        <5>1. ended'[e] <= 1
          BY <2>0, <3>0, <3>5, <3>a, <4>1 DEF HandleException, SendMessage, queueVars
        <5>2. answered'[e] <= retries[m] /\ answered'[e] <= retries[m] + 1
          BY <2>0, <3>2, <4>0
        <5> QED BY <3>0, <3>b, <4>1, <5>1, <5>2, BoundedAfter
      <4>2. CASE SendMessage(e, RetriesOf(h)) /\ UNCHANGED ended
        BY <2>0, <3>2, <3>c, <4>0, <4>2
      <4> QED BY <3>5, <4>1, <4>2 DEF HandleException
    <3>6. CASE HandlerDeletes(h)
      <4>0. h.pc \in {"ok", "error"} /\ answered' = answered /\ ended' = ended
        BY <2>2, <3>6 DEF HandlerDeletes
      <4>1. place'[m] = "gone" /\ sends' = sends /\ retries' = retries
        <5>1. CASE DeleteMessage(h.delivery) \/ DeleteRaises(h.delivery)
          BY <1>0, <5>1, DeleteFacts
        <5>2. CASE ~queueExists /\ UNCHANGED queueVars
          BY <1>0, <5>2 DEF SentInv, queueVars
        <5> QED BY <3>6, <5>1, <5>2 DEF HandlerDeletes
      <4>2. ~Pending(m)'
        BY <2>b, <2>c, <3>6, <4>1, DeletesHow
      <4>3. ended'[e] <= 1 /\ answered'[e] <= retries'[m] + 1
        BY <2>0, <3>0, <3>1, <4>0, <4>1
      <4> QED BY <3>0, <4>1, <4>2, <4>3, BoundedAfter
    <3>7. CASE HandleResult(h)
      <4>0. h.pc \in {"success", "failure"} /\ answered' = answered /\ Leave(h)
        BY <3>7 DEF HandleResult
      <4>1. CASE UNCHANGED queueVars
        <5>1. ended'[e] <= 1
          BY <2>0, <3>0, <3>7, <3>a, <4>1 DEF HandleResult
        <5>2. place'[m] = "gone"
          BY <3>b, <4>0, <4>1 DEF HolderInv
        <5>3. ~Pending(m)'
          BY <2>b, <4>0, <5>2
        <5>4. answered'[e] <= retries[m] + 1
          BY <3>1, <4>0
        <5> QED BY <3>0, <3>b, <4>1, <5>1, <5>3, <5>4, BoundedAfter
      <4>2. CASE SendMessage(e, RetriesOf(h) + 1) /\ UNCHANGED ended
        <5>1. retries[m] + 1 \in Nat
          BY <2>0
        <5> QED BY <2>0, <3>1, <3>c, <4>0, <4>2, <5>1
      <4> QED BY <3>7, <4>1, <4>2 DEF HandleResult
    <3> QED BY <3>3, <3>4, <3>5, <3>6, <3>7 DEF HandlerStep
  <2> QED BY <2>1, <2>2
<1> QED BY <1>a, <1>d, <1>e DEF AttemptInv

\* Every step keeps the bounds.
LEMMA StepAttemptInv ==
    TypeInv /\ TypeInv' /\ SentInv /\ HolderInv /\ TokenInv /\ AttemptInv /\ [Next]_vars
        => AttemptInv'
<1> SUFFICES ASSUME TypeInv, TypeInv', SentInv, HolderInv, TokenInv, AttemptInv, [Next]_vars
             PROVE  AttemptInv'
  OBVIOUS
<1>a. ASSUME UNCHANGED <<sends, retries, answered, ended>>, redelivered \subseteq redelivered',
             \A L \in Messages : Pending(L)' => Pending(L)
      PROVE  AttemptInv'
  <2>1. ASSUME NEW e \in Events \ redelivered' PROVE Bounded(e)'
    <3>1. PICK L : L = Last(e)
      OBVIOUS
    <3>2. Bounded(e)
      BY <1>a DEF AttemptInv
    <3>3. sends[e] > 0 => L \in Messages
      BY <3>1, LastTypes
    <3> QED BY <1>a, <3>1, <3>2, <3>3, BoundedFrame
  <2> QED BY <2>1 DEF AttemptInv
<1>1. CASE StillStep
  BY <1>1, <1>a DEF StillStep, Pending, InHands
<1>2. CASE CancelStep
  <2>1. \A L \in Messages : Pending(L)' => Pending(L)
    BY <1>2 DEF CancelStep, Pending, InHands
  <2> QED BY <1>2, <1>a, <2>1 DEF CancelStep
<1>3. ASSUME NEW e \in Events, ClientSends(e) PROVE AttemptInv'
  <2>0. UNCHANGED <<handlers, batch, answered, ended, redelivered>>
    BY <1>3 DEF ClientSends
  <2>1. PICK k : k = sends[e] + 1
    OBVIOUS
  <2>2. /\ <<e, k>> \in Messages /\ sends'[e] = k /\ retries'[<<e, k>>] = 0
        /\ \A m \in Messages : m # <<e, k>> => place'[m] = place[m] /\ retries'[m] = retries[m]
        /\ \A f \in Events : f # e => sends'[f] = sends[f]
    BY <1>3, <2>1, SendFacts DEF ClientSends
  <2>3. answered[e] = 0 /\ ended[e] = 0
    <3>1. sends[e] \in Nat /\ ~(sends[e] > 0)
      BY <1>3 DEF ClientSends, SentInv, TypeInv, QueueTyped
    <3> QED BY <3>1 DEF SentInv
  <2>4. Bounded(e)'
    BY <2>0, <2>2, <2>3, BoundedAfter
  <2>5. ASSUME NEW f \in Events \ redelivered', f # e PROVE Bounded(f)'
    <3>1. PICK L : L = Last(f)
      OBVIOUS
    <3>2. Bounded(f)
      BY <2>0, <2>5 DEF AttemptInv
    <3>3. ASSUME sends[f] > 0 PROVE retries'[L] = retries[L] /\ (Pending(L)' => Pending(L))
      <4>1. L \in Messages /\ L # <<e, k>>
        BY <2>5, <3>1, <3>3, LastTypes DEF Last
      <4> QED BY <2>0, <2>2, <4>1 DEF Pending, InHands
    <3> QED BY <2>0, <2>2, <2>5, <3>1, <3>2, <3>3, BoundedFrame
  <2> QED BY <2>4, <2>5 DEF AttemptInv
<1>4. ASSUME NEW m \in Messages, MessageReturns(m) \/ MessageTimesOut(m) PROVE AttemptInv'
  <2>1. /\ UNCHANGED <<sends, retries, answered, ended, handlers, batch>>
        /\ redelivered \subseteq redelivered'
    BY <1>4 DEF MessageReturns, MessageTimesOut, pollerVars, history
  <2>2. place[m] = "out" /\ place' = [n \in Messages |-> IF n = m THEN "waiting" ELSE place[n]]
    BY <1>4 DEF MessageReturns, MessageTimesOut, Queue!Return, Queue!Move
  <2>3. \A L \in Messages : Pending(L)' => Pending(L)
    BY <2>1, <2>2 DEF Pending, InHands
  <2> QED BY <1>a, <2>1, <2>3
<1>5. ASSUME NEW v \in Versions, NEW m \in Messages, PollerTakes(v, m) PROVE AttemptInv'
  <2>1. UNCHANGED <<sends, retries, answered, ended, handlers, redelivered>>
    BY <1>5 DEF PollerTakes, history
  <2>2. place[m] = "waiting" /\ place' = [n \in Messages |-> IF n = m THEN "out" ELSE place[n]]
    BY <1>5 DEF PollerTakes, Queue!Take, Queue!Move
  <2>3. \A w \in Versions : \A d \in batch'[w] : d \in batch[w] \/ d[1] = m
    BY <1>5 DEF PollerTakes, TypeInv, PollersTyped
  <2>4. \A L \in Messages : Pending(L)' => Pending(L)
    BY <2>1, <2>2, <2>3 DEF Pending, InHands
  <2> QED BY <1>a, <2>1, <2>4
<1>6. ASSUME NEW v \in Versions, PollerDrops(v) PROVE AttemptInv'
  <2>1. UNCHANGED <<place, sends, retries, answered, ended, handlers, redelivered>>
    BY <1>6 DEF PollerDrops, queueVars, history
  <2>2. \A w \in Versions : batch'[w] \subseteq batch[w]
    BY <1>6 DEF PollerDrops, TypeInv, PollersTyped
  <2>3. \A L \in Messages : Pending(L)' => Pending(L)
    BY <2>1, <2>2 DEF Pending, InHands
  <2> QED BY <1>a, <2>1, <2>3
<1>7. ASSUME NEW v \in Versions, NEW d \in batch[v], PollerSubmits(v, d) PROVE AttemptInv'
  <2>1. UNCHANGED <<place, sends, retries, answered, ended, redelivered>>
    BY <1>7 DEF PollerSubmits, queueVars, history
  <2>2. \A w \in Versions : batch'[w] \subseteq batch[w]
    BY <1>7 DEF PollerSubmits, TypeInv, PollersTyped
  <2>3. /\ \A h \in handlers' : h \in handlers \/ h.delivery = d
        /\ handlers \subseteq handlers'
    BY <1>7 DEF PollerSubmits
  <2>4. \A L \in Messages : Pending(L)' => Pending(L)
    BY <2>1, <2>2, <2>3 DEF Pending, InHands
  <2> QED BY <1>a, <2>1, <2>4
<1>8. ASSUME NEW h \in handlers, HandlerStep(h) PROVE AttemptInv'
  BY <1>8, HandlerAttemptInv
<1>9. ASSUME NEW v \in Versions, ManagerDeletesQueue(v) PROVE AttemptInv'
  <2>1. /\ UNCHANGED <<sends, retries, answered, ended, handlers, batch, redelivered>>
        /\ \A m \in Messages : place'[m] = place[m] \/ place'[m] = "gone"
    BY <1>9, DeletesQueueFacts
  <2>2. \A L \in Messages : Pending(L)' => Pending(L)
    BY <2>1 DEF Pending, InHands
  <2> QED BY <1>a, <2>1, <2>2
<1> QED BY <1>1, <1>2, <1>3, <1>4, <1>5, <1>6, <1>7, <1>8, <1>9, StepCases

\* Unless a message times out in somebody's hands, the function answers an event
\* at most once more than its maximum of retries, and the event is concluded
\* once, whatever updates, cancelled handlers, throttles and deletes there are
\* (Poller.handle_message, event_manager.py).
THEOREM NoExtraAttemptsEver == Spec => []NoExtraAttempts
<1>1. TypeInv /\ SentInv /\ AttemptInv => NoExtraAttempts
  <2> SUFFICES ASSUME TypeInv, SentInv, AttemptInv, NEW e \in Events \ redelivered
               PROVE  answered[e] <= MaxRetries + 1 /\ ended[e] <= 1
    BY DEF NoExtraAttempts
  <2>0. Bounded(e) /\ sends[e] \in Nat /\ answered[e] \in Nat
    BY DEF AttemptInv, TypeInv, QueueTyped, HistoryTyped
  <2>1. CASE sends[e] = 0
    BY <2>0, <2>1 DEF SentInv
  <2>2. CASE sends[e] > 0
    <3>1. retries[Last(e)] \in 0..MaxRetries
      BY <2>2, LastTypes DEF TypeInv, QueueTyped
    <3> QED BY <2>0, <2>2, <3>1 DEF Bounded
  <2> QED BY <2>0, <2>1, <2>2
<1>2. Spec => [](TypeInv /\ SentInv /\ HolderInv /\ TokenInv /\ AttemptInv)
  BY InitTypeInv, StepTypeInv, InitSentInv, StepSentInv, InitAttempts, StepHolderInv,
     StepTokenInv, StepAttemptInv, PTL DEF Spec
<1> QED BY <1>1, <1>2, PTL
==============================================================================

-------------------------- MODULE SqsStandardQueue --------------------------
(***************************************************************************)
(* One standard queue of the SQS provider (services/sqs/models.py, classes *)
(* SqsMessage, SqsQueue and StandardQueue), with the threads that work on  *)
(* it: API calls (SendMessage, ReceiveMessage, DeleteMessage,              *)
(* ChangeMessageVisibility, PurgeQueue, DeleteQueue), each on a thread of  *)
(* its own, and the QueueUpdateWorker thread of provider.py that requeues  *)
(* timed-out messages once per second.                                     *)
(*                                                                         *)
(* remove, update_visibility_timeout, clear, requeue_inflight_messages and *)
(* enqueue_delayed_messages run under the queue's mutex and are one step   *)
(* each.  receive takes no lock: every access it makes to the shared state *)
(* is a step of its own.  So does the retention loop of the worker with    *)
(* respect to receive, although it holds the mutex.                        *)
(*                                                                         *)
(* A message is the number of its creation, which is also its priority in  *)
(* the heap (models.py passes time.time() for both).  Deadlines are sets:  *)
(* hidden holds the messages whose visibility deadline lies in the future, *)
(* notDue those whose delay has not passed, and aged counts the oldest     *)
(* messages that are beyond the retention period.                          *)
(***************************************************************************)
EXTENDS Integers, Sequences, FiniteSets, Functions

CONSTANTS
    MaxMessages,      \* bound: how many messages are ever sent
    Consumers,        \* threads that call receive_message
    BatchSize,        \* MaxNumberOfMessages of a ReceiveMessage call
    MaxReceiveCount,  \* maxReceiveCount of the redrive policy, 0 without one
    MaxReceives,      \* bound: how many ReceiveMessage calls are ever made
    Retention         \* config.SQS_ENABLE_MESSAGE_RETENTION_PERIOD

ASSUME QueueAssumption ==
    /\ MaxMessages \in Nat
    /\ BatchSize \in Nat \ {0}
    /\ MaxReceiveCount \in Nat
    /\ MaxReceives \in Nat
    /\ Retention \in BOOLEAN

Messages == 1..MaxMessages
NoMessage == 0

\* A receipt handle names the message and the receive that issued it.
Handles == Messages \X Nat

VARIABLES
    sent,            \* how many messages were put so far
    delayed,         \* SqsQueue.delayed
    visible,         \* StandardQueue.visible, the heap, as a bag of messages
    inflight,        \* SqsQueue.inflight
    receipts,        \* SqsQueue.receipts, the set of its keys
    receiptHandles,  \* SqsMessage.receipt_handles, as receive numbers
    receiveCount,    \* SqsMessage.receive_count
    deleted,         \* messages with SqsMessage.deleted set
    hidden,          \* messages whose visibility_deadline is in the future
    notDue,          \* messages with is_delayed
    aged,            \* messages 1..aged are beyond the retention period
    isShutdown,      \* InterruptibleQueue.is_shutdown, set by delete_queue
    dlqExists,       \* the redrive target is still in the store
    dlq,             \* messages handed to the dead-letter queue
    wpc,             \* what the QueueUpdateWorker does next
    pc,              \* what each consumer's receive_message does next
    popped,          \* the message a consumer took off the heap
    successful,      \* ReceiveMessageResult.successful
    deadLetters,     \* ReceiveMessageResult.dead_letter_messages
    zeroTimeout,     \* the receive's visibility timeout is 0
    result,          \* ReceiveMessageResult.receipt_handles
    issued,          \* handles that reached a client
    receives         \* ReceiveMessage calls made so far

\* What the properties need to remember of the past; no action reads it.
VARIABLES
    purged,          \* messages a PurgeQueue discarded
    survivors,       \* messages some consumer held while a purge ran
    expired,         \* messages the retention loop discarded
    undeliverable,   \* dead letters dropped because the target was missing
    deletedBefore    \* messages already deleted when a receive started

places == <<sent, delayed, visible, inflight>>
receiptVars == <<receipts, receiptHandles>>
messageVars == <<receiveCount, deleted>>
clockVars == <<hidden, notDue, aged>>
storeVars == <<isShutdown, dlqExists, dlq>>
queueVars == <<places, receiptVars, messageVars, clockVars, storeVars>>
callVars == <<pc, popped, successful, deadLetters, zeroTimeout, result,
              issued, receives>>
history == <<purged, survivors, expired, undeliverable, deletedBefore>>
vars == <<queueVars, wpc, callVars, history>>

ConsumerSteps ==
    {"idle", "get", "take", "handle", "register", "hide", "deadletter"}
WorkerSteps == {"requeue", "delayed", "expire", "peek", "pop"}

-----------------------------------------------------------------------------
(* State formulas                                                          *)

\* Mutant: the heap is popped without looking whether it is empty.
PopsEmptyHeap(m) ==
    m \in Messages /\ \A x \in Messages : visible[x] > 0 => m <= x

\* The element heapq keeps at index 0.
IsFirst(m) ==
    /\ m \in Messages
    /\ visible[m] > 0
    /\ \A x \in Messages : visible[x] > 0 => m <= x

VisibleEmpty == \A m \in Messages : visible[m] = 0

\* InterruptibleQueue.get raises Empty: nothing came within the wait time, or
\* the queue was shut down.
GetRaisesEmpty == VisibleEmpty \/ isShutdown

\* The retention loop keeps the queue's mutex across its steps.
MutexFree == wpc \notin {"peek", "pop"}

\* The messages consumer c has taken off the queue and not yet put back,
\* put in flight or handed to the dead-letter queue.
Held(c) ==
    (IF pc[c] = "take" THEN {popped[c]} ELSE {})
        \cup Range(successful[c]) \cup Range(deadLetters[c])

\* Mutant: the loop over the due messages returns after the first one.
PutsFirstOnly(S) ==
    [m \in Messages |-> IF m \in S /\ \A x \in S : m <= x
                        THEN visible[m] + 1 ELSE visible[m]]

\* self.visible.put_nowait for each message of S.
PutAll(S) == [m \in Messages |-> IF m \in S THEN visible[m] + 1 ELSE visible[m]]

\* Mutant: a deleted message is not recognised.
NeverDeleted(m) == FALSE

\* message.deleted
IsDeleted(m) == m \in deleted

\* Mutant: one receive too many before a message becomes a dead letter.
ExceedsLimitLate(n) == MaxReceiveCount > 0 /\ n > MaxReceiveCount + 1

\* max_receive_count and message.receive_count > max_receive_count
ExceedsLimit(n) == MaxReceiveCount > 0 /\ n > MaxReceiveCount

\* Mutant: the handle names the message only, not the receive.
HandleOfMessage(m) == <<m, 1>>

\* create_receipt_handle: queue, message and the time of this receive.
CreateReceiptHandle(m) == <<m, receiveCount[m]>>

\* The handles in message.receipt_handles.
HandlesOf(m) == {<<m, k>> : k \in receiptHandles[m]}

\* Mutant: update_visibility_timeout does not look at inflight.
AlwaysInFlight(m) == TRUE

\* standard_message in self.inflight
InFlight(m) == m \in inflight

\* Mutant: the early return of the requeue tests the wrong container.
DueUnlessVisibleEmpty == IF VisibleEmpty THEN {} ELSE inflight \ hidden

\* [message for message in self.inflight if message.is_visible]
DueInflight == inflight \ hidden

-----------------------------------------------------------------------------
Init ==
    /\ sent = 0
    /\ delayed = {} /\ inflight = {} /\ receipts = {}
    /\ visible = [m \in Messages |-> 0]
    /\ receiptHandles = [m \in Messages |-> {}]
    /\ receiveCount = [m \in Messages |-> 0]
    /\ deleted = {} /\ hidden = {} /\ notDue = {} /\ aged = 0
    /\ isShutdown = FALSE
    /\ dlqExists = TRUE /\ dlq = {}
    /\ wpc = "requeue"
    /\ pc = [c \in Consumers |-> "idle"]
    /\ popped = [c \in Consumers |-> NoMessage]
    /\ successful = [c \in Consumers |-> <<>>]
    /\ deadLetters = [c \in Consumers |-> <<>>]
    /\ zeroTimeout = [c \in Consumers |-> FALSE]
    /\ result = [c \in Consumers |-> {}]
    /\ issued = {} /\ receives = 0
    /\ purged = {} /\ survivors = {} /\ expired = {} /\ undeliverable = {}
    /\ deletedBefore = [c \in Consumers |-> {}]

-----------------------------------------------------------------------------
(* Sending, and the passing of time                                        *)

\* StandardQueue.put: the new message is either delayed or visible at once.
\* is_delayed compares with <=, so even a delay of 0 may take the first way.
Put ==
    LET m == sent + 1
    IN /\ ~isShutdown
       /\ sent < MaxMessages
       /\ sent' = m
       /\ \/ /\ delayed' = delayed \cup {m}
             /\ notDue' = notDue \cup {m}
             /\ UNCHANGED visible
          \/ /\ visible' = PutAll({m})
             /\ UNCHANGED <<delayed, notDue>>
       /\ UNCHANGED <<inflight, receiptVars, messageVars, hidden, aged,
                      storeVars, wpc, callVars, history>>

\* The clock passes m's visibility deadline: is_visible becomes true.
VisibilityElapses(m) ==
    /\ m \in hidden
    /\ hidden' = hidden \ {m}
    /\ UNCHANGED <<places, receiptVars, messageVars, notDue, aged, storeVars,
                   wpc, callVars, history>>

\* The clock passes created + delay_seconds: is_delayed becomes false.
DelayElapses(m) ==
    /\ m \in notDue
    /\ notDue' = notDue \ {m}
    /\ UNCHANGED <<places, receiptVars, messageVars, hidden, aged, storeVars,
                   wpc, callVars, history>>

\* The next message passes the retention period.  The retention loop reads
\* the clock once, before it starts, so ageing waits for the loop to end.
Age ==
    /\ Retention
    /\ aged < sent
    /\ wpc \notin {"peek", "pop"}
    /\ aged' = aged + 1
    /\ UNCHANGED <<places, receiptVars, messageVars, hidden, notDue,
                   storeVars, wpc, callVars, history>>

-----------------------------------------------------------------------------
(* ReceiveMessage: StandardQueue.receive and the dead-letter part of       *)
(* SqsProvider.receive_message                                             *)

ReceiveStart(c, zero) ==
    /\ pc[c] = "idle"
    /\ ~isShutdown
    /\ receives < MaxReceives
    /\ receives' = receives + 1
    /\ pc' = [pc EXCEPT ![c] = "get"]
    /\ zeroTimeout' = [zeroTimeout EXCEPT ![c] = zero]
    /\ deletedBefore' = [deletedBefore EXCEPT ![c] = deleted]
    /\ UNCHANGED <<queueVars, wpc, popped, successful, deadLetters, result,
                   issued, purged, survivors, expired, undeliverable>>

\* self.visible.get returns the smallest element.
ReceiveGet(c, m) ==
    /\ pc[c] = "get"
    /\ ~isShutdown
    /\ IsFirst(m)
    /\ visible' = [visible EXCEPT ![m] = @ - 1]
    /\ popped' = [popped EXCEPT ![c] = m]
    /\ pc' = [pc EXCEPT ![c] = "take"]
    /\ UNCHANGED <<sent, delayed, inflight, receiptVars, messageVars,
                   clockVars, storeVars, wpc, successful, deadLetters,
                   zeroTimeout, result, issued, receives, history>>

\* self.visible.get raises Empty: the receive has all it will get.
ReceiveEmpty(c) ==
    /\ pc[c] = "get"
    /\ GetRaisesEmpty
    /\ pc' = [pc EXCEPT ![c] = "handle"]
    /\ UNCHANGED <<queueVars, wpc, popped, successful, deadLetters,
                   zeroTimeout, result, issued, receives, history>>

\* The message was deleted after it had been requeued: it is dropped.
ReceiveSkipDeleted(c) ==
    /\ pc[c] = "take"
    /\ IsDeleted(popped[c])
    /\ popped' = [popped EXCEPT ![c] = NoMessage]
    /\ pc' = [pc EXCEPT ![c] = "get"]
    /\ UNCHANGED <<queueVars, wpc, successful, deadLetters, zeroTimeout,
                   result, issued, receives, history>>

\* The popped message is counted and its deadline set; it goes to the
\* dead-letter list when it was received too often, else to the successful
\* one, and a full batch ends the loop.
ReceiveTake(c) ==
    LET m == popped[c]
        n == receiveCount[m] + 1
    IN /\ pc[c] = "take"
       /\ ~IsDeleted(m)
       /\ receiveCount' = [receiveCount EXCEPT ![m] = n]
       /\ hidden' = IF zeroTimeout[c] THEN hidden \ {m} ELSE hidden \cup {m}
       /\ popped' = [popped EXCEPT ![c] = NoMessage]
       /\ \/ /\ ExceedsLimit(n)
             /\ deadLetters' = [deadLetters EXCEPT ![c] = Append(@, m)]
             /\ pc' = [pc EXCEPT ![c] = "get"]
             /\ UNCHANGED successful
          \/ /\ ~ExceedsLimit(n)
             /\ successful' = [successful EXCEPT ![c] = Append(@, m)]
             /\ pc' = [pc EXCEPT ![c] =
                          IF Len(successful[c]) + 1 = BatchSize
                          THEN "handle" ELSE "get"]
             /\ UNCHANGED deadLetters
       /\ UNCHANGED <<places, receiptVars, deleted, notDue, aged, storeVars,
                      wpc, zeroTimeout, result, issued, receives, history>>

\* message.receipt_handles.add(receipt_handle)
ReceiveAddHandle(c) ==
    LET m == Head(successful[c])
    IN /\ pc[c] = "handle"
       /\ successful[c] # <<>>
       /\ receiptHandles' =
              [receiptHandles EXCEPT ![m] = @ \cup {CreateReceiptHandle(m)[2]}]
       /\ pc' = [pc EXCEPT ![c] = "register"]
       /\ UNCHANGED <<places, receipts, messageVars, clockVars, storeVars,
                      wpc, popped, successful, deadLetters, zeroTimeout,
                      result, issued, receives, history>>

\* self.receipts[receipt_handle] = message
ReceiveRegister(c) ==
    LET m == Head(successful[c])
    IN /\ pc[c] = "register"
       /\ receipts' = receipts \cup {CreateReceiptHandle(m)}
       /\ result' = [result EXCEPT ![c] = @ \cup {CreateReceiptHandle(m)}]
       /\ pc' = [pc EXCEPT ![c] = "hide"]
       /\ UNCHANGED <<places, receiptHandles, messageVars, clockVars,
                      storeVars, wpc, popped, successful, deadLetters,
                      zeroTimeout, issued, receives, history>>

\* The message goes in flight, or straight back with a timeout of 0.  (From
\* Python 3.13 on, put_nowait raises on the heap of a deleted queue; nothing
\* reads that heap or uses the call's handles any more.)
ReceiveHide(c) ==
    LET m == Head(successful[c])
    IN /\ pc[c] = "hide"
       /\ \/ /\ zeroTimeout[c]
             /\ visible' = PutAll({m})
             /\ UNCHANGED inflight
          \/ /\ ~zeroTimeout[c]
             /\ inflight' = inflight \cup {m}
             /\ UNCHANGED visible
       /\ successful' = [successful EXCEPT ![c] = Tail(@)]
       /\ pc' = [pc EXCEPT ![c] = "handle"]
       /\ UNCHANGED <<sent, delayed, receiptVars, messageVars, clockVars,
                      storeVars, wpc, popped, deadLetters, zeroTimeout,
                      result, issued, receives, history>>

\* receive_message looks the dead-letter target up before it moves anything.
DeadLetterLookup(c) ==
    /\ pc[c] = "handle"
    /\ successful[c] = <<>> /\ deadLetters[c] # <<>>
    /\ dlqExists
    /\ pc' = [pc EXCEPT ![c] = "deadletter"]
    /\ UNCHANGED <<queueVars, wpc, popped, successful, deadLetters,
                   zeroTimeout, result, issued, receives, history>>

\* The target is gone: _require_queue_by_arn raises and the call fails; the
\* dead letters, held by nothing else, are gone and no handle is returned.
DeadLetterMissing(c) ==
    /\ pc[c] = "handle"
    /\ successful[c] = <<>> /\ deadLetters[c] # <<>>
    /\ ~dlqExists
    /\ undeliverable' = undeliverable \cup Range(deadLetters[c])
    /\ deadLetters' = [deadLetters EXCEPT ![c] = <<>>]
    /\ result' = [result EXCEPT ![c] = {}]
    /\ pc' = [pc EXCEPT ![c] = "idle"]
    /\ deletedBefore' = [deletedBefore EXCEPT ![c] = {}]
    /\ UNCHANGED <<queueVars, wpc, popped, successful, zeroTimeout, issued,
                   receives, purged, survivors, expired>>

\* dl_queue.put for the next dead letter.
DeadLetterPut(c) ==
    /\ pc[c] = "deadletter"
    /\ deadLetters[c] # <<>>
    /\ dlq' = dlq \cup {Head(deadLetters[c])}
    /\ deadLetters' = [deadLetters EXCEPT ![c] = Tail(@)]
    /\ UNCHANGED <<places, receiptVars, messageVars, clockVars, isShutdown,
                   dlqExists, wpc, pc, popped, successful, zeroTimeout,
                   result, issued, receives, history>>

\* The response leaves: the client now knows the handles.
ReceiveReturn(c) ==
    /\ pc[c] \in {"handle", "deadletter"}
    /\ successful[c] = <<>> /\ deadLetters[c] = <<>>
    /\ issued' = issued \cup result[c]
    /\ result' = [result EXCEPT ![c] = {}]
    /\ pc' = [pc EXCEPT ![c] = "idle"]
    /\ deletedBefore' = [deletedBefore EXCEPT ![c] = {}]
    /\ UNCHANGED <<queueVars, wpc, popped, successful, deadLetters,
                   zeroTimeout, receives, purged, survivors, expired,
                   undeliverable>>

-----------------------------------------------------------------------------
(* The other API calls, each under the queue's mutex                       *)

\* StandardQueue._on_remove_message: the message leaves inflight or, failing
\* that, the heap, if it is there.
OnRemoveMessage(m) ==
    /\ inflight' = inflight \ {m}
    /\ visible' = IF m \notin inflight /\ visible[m] > 0
                  THEN [visible EXCEPT ![m] = @ - 1]
                  ELSE visible

\* SqsQueue.remove: all handles of the message go, and the message itself.
Remove(h) ==
    LET m == h[1]
    IN /\ ~isShutdown /\ MutexFree
       /\ h \in issued \cap receipts
       /\ HandlesOf(m) \subseteq receipts
       /\ deleted' = deleted \cup {m}
       /\ receipts' = receipts \ HandlesOf(m)
       /\ receiptHandles' = [receiptHandles EXCEPT ![m] = {}]
       /\ OnRemoveMessage(m)
       /\ UNCHANGED <<sent, delayed, receiveCount, clockVars, storeVars, wpc,
                      callVars, history>>

\* One of the message's handles is not in receipts: the loop that deletes
\* them raises KeyError after some of the others, and nothing else is done.
RemoveKeyError(h) ==
    LET m == h[1]
    IN /\ ~isShutdown /\ MutexFree
       /\ h \in issued \cap receipts
       /\ ~(HandlesOf(m) \subseteq receipts)
       /\ deleted' = deleted \cup {m}
       /\ \E done \in SUBSET (HandlesOf(m) \cap receipts) :
             receipts' = receipts \ done
       /\ UNCHANGED <<places, receiptHandles, receiveCount, clockVars,
                      storeVars, wpc, callVars, history>>

\* SqsQueue.update_visibility_timeout: only a message in flight is affected;
\* a timeout of 0 puts it back on the heap.
UpdateVisibilityTimeout(h, zero) ==
    LET m == h[1]
    IN /\ ~isShutdown /\ MutexFree
       /\ h \in issued \cap receipts
       /\ InFlight(m)
       /\ \/ /\ zero
             /\ hidden' = hidden \ {m}
             /\ inflight' = inflight \ {m}
             /\ visible' = PutAll({m})
          \/ /\ ~zero
             /\ hidden' = hidden \cup {m}
             /\ UNCHANGED <<inflight, visible>>
       /\ UNCHANGED <<sent, delayed, receiptVars, messageVars, notDue, aged,
                      storeVars, wpc, callVars, history>>

\* StandardQueue.clear, called by purge_queue: the messages' own
\* receipt_handles sets are left alone.
Clear ==
    /\ ~isShutdown /\ MutexFree
    /\ purged' = purged \cup inflight \cup delayed
                     \cup {m \in Messages : visible[m] > 0}
    /\ survivors' = survivors \cup UNION {Held(c) : c \in Consumers}
    /\ inflight' = {} /\ delayed' = {} /\ receipts' = {}
    /\ visible' = [m \in Messages |-> 0]
    /\ UNCHANGED <<sent, receiptHandles, messageVars, clockVars, storeVars,
                   wpc, callVars, expired, undeliverable, deletedBefore>>

\* delete_queue: blocked and later gets raise Empty, and neither a request
\* nor the worker finds the queue in the store any more.
Shutdown ==
    /\ ~isShutdown
    /\ isShutdown' = TRUE
    /\ UNCHANGED <<places, receiptVars, messageVars, clockVars, dlqExists,
                   dlq, wpc, callVars, history>>

\* delete_queue called for the dead-letter queue.
DeleteDlq ==
    /\ MaxReceiveCount > 0
    /\ dlqExists
    /\ dlqExists' = FALSE
    /\ UNCHANGED <<places, receiptVars, messageVars, clockVars, isShutdown,
                   dlq, wpc, callVars, history>>

-----------------------------------------------------------------------------
(* QueueUpdateWorker.do_update_all_queues, for this queue                  *)

\* SqsQueue.requeue_inflight_messages
RequeueInflight ==
    /\ wpc = "requeue" /\ ~isShutdown
    /\ inflight' = inflight \ DueInflight
    /\ visible' = PutAll(DueInflight)
    /\ wpc' = "delayed"
    /\ UNCHANGED <<sent, delayed, receiptVars, messageVars, clockVars,
                      storeVars, callVars, history>>

\* receive adds to the dict that the worker iterates over: RuntimeError,
\* which do_update_all_queues logs before it goes on.
RequeueFails ==
    /\ wpc = "requeue" /\ ~isShutdown
    /\ \E c \in Consumers : pc[c] = "hide"
    /\ wpc' = "delayed"
    /\ UNCHANGED <<queueVars, callVars, history>>

\* SqsQueue.enqueue_delayed_messages
EnqueueDelayed ==
    LET due == delayed \ notDue
    IN /\ wpc = "delayed"
       /\ delayed' = delayed \ due
       /\ visible' = PutAll(due)
       /\ wpc' = IF Retention THEN "expire" ELSE "requeue"
       /\ UNCHANGED <<sent, inflight, receiptVars, messageVars, clockVars,
                      storeVars, callVars, history>>

\* put adds to the set that the worker iterates over: RuntimeError again.
EnqueueFails ==
    /\ wpc = "delayed"
    /\ delayed # {} /\ sent < MaxMessages /\ ~isShutdown
    /\ wpc' = IF Retention THEN "expire" ELSE "requeue"
    /\ UNCHANGED <<queueVars, callVars, history>>

\* remove_expired_messages_from_heap looks at heap[0] ...
ExpirePeek ==
    /\ wpc \in {"expire", "peek"}
    /\ wpc' = IF \E m \in Messages : IsFirst(m) /\ m <= aged
              THEN "pop" ELSE "requeue"
    /\ UNCHANGED <<queueVars, callVars, history>>

\* ... and then pops whatever is the first element by now, or fails with
\* IndexError on an empty heap.
ExpirePop ==
    /\ wpc = "pop"
    /\ \/ \E m \in Messages :
             /\ IsFirst(m)
             /\ visible' = [visible EXCEPT ![m] = @ - 1]
             /\ expired' = expired \cup {m}
             /\ wpc' = "peek"
       \/ /\ VisibleEmpty
          /\ wpc' = "requeue"
          /\ UNCHANGED <<visible, expired>>
    /\ UNCHANGED <<sent, delayed, inflight, receiptVars, messageVars,
                   clockVars, storeVars, callVars, purged, survivors,
                   undeliverable, deletedBefore>>

-----------------------------------------------------------------------------
Receive(c) ==
    \/ \E m \in Messages : ReceiveGet(c, m)
    \/ ReceiveEmpty(c)
    \/ ReceiveSkipDeleted(c)
    \/ ReceiveTake(c)
    \/ ReceiveAddHandle(c)
    \/ ReceiveRegister(c)
    \/ ReceiveHide(c)
    \/ DeadLetterLookup(c)
    \/ DeadLetterMissing(c)
    \/ DeadLetterPut(c)
    \/ ReceiveReturn(c)

Worker ==
    \/ RequeueInflight
    \/ RequeueFails
    \/ EnqueueDelayed
    \/ EnqueueFails
    \/ ExpirePeek
    \/ ExpirePop

Next ==
    \/ Put
    \/ \E m \in Messages : VisibilityElapses(m) \/ DelayElapses(m)
    \/ Age
    \/ \E c \in Consumers, zero \in BOOLEAN : ReceiveStart(c, zero)
    \/ \E c \in Consumers : Receive(c)
    \/ \E h \in issued : Remove(h) \/ RemoveKeyError(h)
    \/ \E h \in issued, zero \in BOOLEAN : UpdateVisibilityTimeout(h, zero)
    \/ Clear
    \/ Shutdown
    \/ DeleteDlq
    \/ Worker

Spec == Init /\ [][Next]_vars

\* Deadlines pass, the worker's thread comes round every second and every
\* request thread keeps running.
Fairness ==
    /\ \A m \in Messages : WF_vars(VisibilityElapses(m)) /\ WF_vars(DelayElapses(m))
    /\ \A c \in Consumers : WF_vars(Receive(c))
    /\ WF_vars(Worker)

FairSpec == Spec /\ Fairness

-----------------------------------------------------------------------------
(* Properties                                                              *)

\* Every variable has its type; among it, a receive that works on a message
\* has popped one, and one that creates a handle has a message to return.
TypeOK ==
    /\ sent \in 0..MaxMessages
    /\ delayed \subseteq Messages /\ inflight \subseteq Messages
    /\ visible \in [Messages -> Nat]
    /\ receipts \subseteq Handles
    /\ receiptHandles \in [Messages -> SUBSET Nat]
    /\ receiveCount \in [Messages -> Nat]
    /\ deleted \subseteq Messages /\ hidden \subseteq Messages
    /\ notDue \subseteq Messages
    /\ aged \in 0..MaxMessages
    /\ isShutdown \in BOOLEAN /\ dlqExists \in BOOLEAN
    /\ dlq \subseteq Messages
    /\ wpc \in WorkerSteps
    /\ pc \in [Consumers -> ConsumerSteps]
    /\ popped \in [Consumers -> Messages \cup {NoMessage}]
    /\ \A c \in Consumers : pc[c] = "take" => popped[c] \in Messages
    /\ successful \in [Consumers -> Seq(Messages)]
    /\ deadLetters \in [Consumers -> Seq(Messages)]
    /\ \A c \in Consumers : pc[c] \in {"register", "hide"} => successful[c] # <<>>
    /\ zeroTimeout \in [Consumers -> BOOLEAN]
    /\ result \in [Consumers -> SUBSET Handles]
    /\ issued \subseteq Handles
    /\ receives \in 0..MaxReceives
    /\ purged \subseteq Messages /\ survivors \subseteq Messages
    /\ expired \subseteq Messages /\ undeliverable \subseteq Messages
    /\ deletedBefore \in [Consumers -> SUBSET Messages]

-----------------------------------------------------------------------------
\* A receive call holds no message twice.
HeldOnce(c) ==
    /\ IsInjective(successful[c]) /\ IsInjective(deadLetters[c])
    /\ Range(successful[c]) \cap Range(deadLetters[c]) = {}
    /\ pc[c] = "take" =>
           popped[c] \notin Range(successful[c]) \cup Range(deadLetters[c])

\* Whatever calls and worker passes overlap, a message is in at most one of
\* the delayed set, the heap (once), the in-flight dict, the hands of one
\* receive call and the dead-letter queue: receive moves messages without
\* the mutex, so nothing but the order of its steps keeps a message from
\* being queued twice and delivered to two clients.
SinglePlace ==
    /\ \A m \in Messages :
         /\ visible[m] <= 1
         /\ visible[m] = 1 => m \notin inflight \cup delayed \cup dlq
         /\ m \in inflight => m \notin delayed \cup dlq
         /\ m \in delayed => m \notin dlq
    /\ \A c \in Consumers : \A m \in Held(c) :
         /\ visible[m] = 0
         /\ m \notin inflight \cup delayed \cup dlq
         /\ \A d \in Consumers \ {c} : m \notin Held(d)
    /\ \A c \in Consumers : HeldOnce(c)

\* The places a message can be in.
Somewhere(m) ==
    \/ m \in delayed \cup inflight \cup dlq
    \/ visible[m] > 0
    \/ \E c \in Consumers : m \in Held(c)

\* Nothing holds a message that was not sent yet.
UnsentNowhere == \A m \in Messages : m > sent => ~Somewhere(m)

\* The inductive invariant behind SinglePlace.
PlaceInv == TypeOK /\ SinglePlace /\ UnsentNowhere

\* A message that was sent stays in the system until a client deletes or
\* purges it, retention removes it, or it becomes a dead letter without a
\* dead-letter queue: no interleaving of receive, the worker and the other
\* calls loses one.
NoLoss ==
    \A m \in 1..sent :
        Somewhere(m) \/ m \in deleted \cup purged \cup expired \cup undeliverable

\* A receive call that starts after a DeleteMessage took effect never
\* returns that message or moves it to the dead-letter queue, although the
\* stale copy may still be requeued by the worker or be put back by an older
\* receive (the deleted flag is what catches it).
NoDeliveryAfterDelete ==
    \A c \in Consumers :
        /\ Range(successful[c] \o deadLetters[c]) \cap deletedBefore[c] = {}
        /\ {h[1] : h \in result[c]} \cap deletedBefore[c] = {}

\* The handle of the last receive of a message in flight is registered, so
\* that the client that holds it can delete the message: older handles,
\* requeues and other consumers never take it away.  (A purge does, from a
\* message some receive was just processing.)
LatestHandleWorks ==
    \A m \in inflight \ (deleted \cup survivors) :
        <<m, receiveCount[m]>> \in receipts

\* With a redrive policy, no message reaches clients more than
\* maxReceiveCount times, whichever consumers receive it.
ReceiveLimit ==
    MaxReceiveCount > 0 => \A h \in issued : h[2] <= MaxReceiveCount

\* A message whose visibility timeout or delay runs out becomes visible
\* again (or was deleted, purged or lost with its queue), provided clients
\* stop extending its timeout.
EventuallyVisibleAgain ==
    (<>[][~ \E h \in issued : UpdateVisibilityTimeout(h, FALSE)]_vars) =>
        \A m \in Messages :
            (m \in inflight \cup delayed) ~>
                (visible[m] > 0 \/ m \in deleted \cup purged \/ isShutdown)

-----------------------------------------------------------------------------
(* The contract                                                            *)

\* Where the contract sees message m: a message is taken when the receive
\* counts it, so one that is popped and not counted yet still waits; one
\* that was counted too often is dead from then on; deleted or discarded it
\* is gone, although a stale copy may still be about.
ContractPlace(m) ==
    IF m > sent THEN "unsent"
    ELSE IF m \in dlq \/ \E c \in Consumers : m \in Range(deadLetters[c]) THEN "dead"
    ELSE IF m \in deleted \cup purged \cup expired \cup undeliverable THEN "gone"
    ELSE IF m \in inflight \/ \E c \in Consumers : m \in Range(successful[c]) THEN "out"
    ELSE IF Somewhere(m) THEN "waiting"
    ELSE "lost"

Contract == INSTANCE SqsContract
                WITH place <- [m \in Messages |-> ContractPlace(m)],
                     count <- receiveCount

\* The queue keeps the contract of SqsContract: seen as its contract sees it,
\* every step of every thread is one of the contract's or changes nothing.
\* A message that is taken by two receives at once, comes back after its
\* deletion, is returned to waiting or vanishes without a cause, or is taken
\* beyond the limit, would be a step the contract does not have.
KeepsContract == Contract!Spec

-----------------------------------------------------------------------------
(* What comments in the code promise and the code does not keep.           *)

\* "Removes from the given heap of SqsMessages all messages that have
\* expired": only messages beyond the retention period are discarded.
OnlyExpiredRemoved == \A m \in expired : m <= aged
=============================================================================

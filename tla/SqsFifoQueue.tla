---------------------------- MODULE SqsFifoQueue ----------------------------
(***************************************************************************)
(* One FIFO queue of the SQS provider (services/sqs/models.py, classes     *)
(* FifoQueue and MessageGroup) with the receive calls, the other API calls *)
(* and the QueueUpdateWorker that work on it.  Deduplication, which only   *)
(* decides whether a send is a put at all, is not part of this module.     *)
(*                                                                         *)
(* Unlike StandardQueue.receive, FifoQueue.receive takes the queue's mutex *)
(* while it pops messages and again while it creates receipt handles, but  *)
(* it takes groups off message_group_queue and marks them in               *)
(* inflight_groups without it.  The loops under the mutex are modelled one *)
(* message per step, because those two unlocked accesses can fall between  *)
(* two iterations.                                                         *)
(*                                                                         *)
(* A message is the number of its creation (priority, sequence number); a  *)
(* MessageGroup object is the group's id and the number of purges before   *)
(* its creation: clear() forgets the objects, but a receive may still be   *)
(* working on one.                                                         *)
(***************************************************************************)
EXTENDS Integers, Sequences, FiniteSets, Functions

CONSTANTS
    Groups,           \* message group ids
    NoGroup,          \* no group id: the message was not sent yet
    MaxMessages,      \* bound: how many messages are ever sent
    Consumers,        \* threads that call receive_message
    BatchSize,        \* MaxNumberOfMessages of a ReceiveMessage call
    MaxReceiveCount,  \* maxReceiveCount of the redrive policy, 0 without one
    MaxReceives,      \* bound: how many ReceiveMessage calls are ever made
    MaxPurges,        \* bound: how many PurgeQueue calls are ever made
    Delay,            \* the queue's DelaySeconds is positive
    Retention,        \* config.SQS_ENABLE_MESSAGE_RETENTION_PERIOD
    StaleHandles,     \* clients use handles of earlier receives too
    DlqMayVanish      \* the dead-letter queue may be deleted

ASSUME FifoAssumption ==
    /\ NoGroup \notin Groups
    /\ MaxMessages \in Nat
    /\ BatchSize \in Nat \ {0}
    /\ MaxReceiveCount \in Nat
    /\ MaxReceives \in Nat
    /\ MaxPurges \in Nat
    /\ Delay \in BOOLEAN
    /\ Retention \in BOOLEAN
    /\ StaleHandles \in BOOLEAN
    /\ DlqMayVanish \in BOOLEAN

Messages == 1..MaxMessages
Generations == 0..MaxPurges
Handles == Messages \X Nat

\* A MessageGroup object.
Object(g, k) == [group |-> g, generation |-> k]

VARIABLES
    sent,            \* how many messages were created so far
    group,           \* SqsMessage.message_group_id of the created messages
    creating,        \* puts that have created a message and not stored it,
                     \* with the generation at its creation
    delayed,         \* SqsQueue.delayed
    heap,            \* MessageGroup.messages, by generation and group
    generation,      \* which generation message_groups refers to
    groupQueue,      \* FifoQueue.message_group_queue
    inflightGroups,  \* FifoQueue.inflight_groups (equality is by group id)
    inflight,        \* SqsQueue.inflight, in insertion order
    receipts,        \* SqsQueue.receipts, the set of its keys
    receiptHandles,  \* SqsMessage.receipt_handles, as receive numbers
    receiveCount,    \* SqsMessage.receive_count
    deleted,         \* messages with SqsMessage.deleted set
    hidden,          \* messages whose visibility_deadline is in the future
    due,             \* messages 1..due are past their delay
    aged,            \* messages 1..aged are beyond the retention period
    dlqExists,       \* the redrive target is still in the store
    dlq,             \* messages handed to the dead-letter queue
    wpc,             \* what the QueueUpdateWorker does next
    scan,            \* the due messages the worker has yet to enqueue
    pc,              \* what each consumer's receive_message does next
    current,         \* the MessageGroup object a call works on
    successful,      \* ReceiveMessageResult.successful
    deadLetters,     \* ReceiveMessageResult.dead_letter_messages
    zeroTimeout,     \* the receive's visibility timeout is 0
    result,          \* ReceiveMessageResult.receipt_handles
    issued,          \* handles that reached a client
    receives         \* ReceiveMessage calls made so far

\* What the properties need to remember of the past; no action reads it.
VARIABLES
    before,          \* messages of its group sent before a message was
    purged,          \* messages a PurgeQueue discarded or overlapped
    expired,         \* messages the retention pass discarded
    fruitless,       \* groups a receive marked and got nothing of since a purge
    mistaken         \* groups whose mark went with an object from before a purge

groupVars == <<heap, groupQueue, inflightGroups>>
messageVars == <<group, receiveCount, deleted>>
receiptVars == <<receipts, receiptHandles>>
clockVars == <<hidden, due, aged>>
sendVars == <<sent, creating, before>>
dlqVars == <<dlqExists, dlq>>
workerVars == <<wpc, scan>>
resultVars == <<current, successful, deadLetters, zeroTimeout, result>>
callVars == <<pc, resultVars, issued, receives>>
history == <<purged, expired, fruitless, mistaken>>
vars == <<sendVars, delayed, generation, inflight, groupVars, messageVars,
          receiptVars, clockVars, dlqVars, workerVars, callVars, history>>

ConsumerSteps == {"idle", "get", "check", "mark", "pop", "popping",
                  "finish", "finishing", "dead", "move", "update"}
WorkerSteps == {"requeue", "requeueing", "delayed", "enqueueing", "expire"}

-----------------------------------------------------------------------------
(* Locks, heaps and groups                                                 *)

\* self.mutex: every other method takes it for its whole body.
MutexFree ==
    /\ wpc \notin {"requeueing", "enqueueing"}
    /\ \A c \in Consumers : pc[c] \notin {"popping", "finishing"}

\* Consumer c is about to take the mutex in state "step", or has it.
Holds(c, step, holding) ==
    pc[c] = holding \/ (pc[c] = step /\ MutexFree)

\* The messages c's receive has popped and not dealt with.
Held(c) == Range(successful[c]) \cup Range(deadLetters[c])

\* The messages of the MessageGroup object c works on.
CurrentHeap(c) == heap[current[c].generation][current[c].group]

\* Mutant: the empty heap is popped like any other.
PopsEmptyHeap(m, messages) == \A x \in messages : m <= x

\* Mutant: the order of messages is reversed.
PopsLast(m, messages) == m \in messages /\ \A x \in messages : x <= m

\* MessageGroup.pop: heapq.heappop returns the message sent first.
IsFirst(m, messages) == m \in messages /\ \A x \in messages : m <= x

\* "if an older message becomes visible again in the queue, that message's
\* group becomes visible also"; a new message leaves the group alone.
Unblocks(m) == receiveCount[m] >= 1 /\ group[m] \in inflightGroups

\* "if the group was previously empty, it was not yet added back to the
\* queue"
WasEmpty(m, k) == group[m] \notin inflightGroups /\ heap[k][group[m]] = {}

\* FifoQueue._put_message, which found the group object of generation k.
PutMessage(m, k) ==
    /\ heap' = [heap EXCEPT ![k][group[m]] = @ \cup {m}]
    /\ inflightGroups' =
           IF Unblocks(m) THEN inflightGroups \ {group[m]} ELSE inflightGroups
    /\ groupQueue' =
           IF Unblocks(m) \/ WasEmpty(m, k)
           THEN Append(groupQueue, Object(group[m], k)) ELSE groupQueue

\* Mutant: a delete never makes its group visible again.
StaysInvisible(g, remaining) == FALSE

\* A group becomes visible again only if none of its messages is in flight.
BecomesVisible(g, remaining) ==
    g \in inflightGroups /\ \A m \in remaining : group[m] # g

\* FifoQueue.update_message_group_visibility, for the group object of
\* generation k, when "remaining" are in flight.
UpdateMessageGroupVisibility(g, k, remaining) ==
    /\ inflightGroups' = IF BecomesVisible(g, remaining)
                         THEN inflightGroups \ {g} ELSE inflightGroups
    /\ groupQueue' = IF BecomesVisible(g, remaining) /\ heap[k][g] # {}
                     THEN Append(groupQueue, Object(g, k)) ELSE groupQueue
    /\ UNCHANGED heap

\* del self.inflight[m]: the other keys keep their order.
Without(seq, m) ==
    IF m \notin Range(seq) THEN seq
    ELSE LET i == CHOOSE j \in DOMAIN seq : seq[j] = m
         IN [j \in 1..(Len(seq) - 1) |-> IF j < i THEN seq[j] ELSE seq[j + 1]]

\* self.inflight[m] = None
With(seq, m) == IF m \in Range(seq) THEN seq ELSE Append(seq, m)

HandlesOf(m) == {<<m, k>> : k \in receiptHandles[m]}

-----------------------------------------------------------------------------
Init ==
    /\ sent = 0 /\ generation = 0 /\ due = 0 /\ aged = 0 /\ receives = 0
    /\ creating = {} /\ before = [m \in Messages |-> {}]
    /\ group = [m \in Messages |-> NoGroup]
    /\ delayed = {} /\ inflightGroups = {} /\ receipts = {}
    /\ heap = [k \in Generations |-> [g \in Groups |-> {}]]
    /\ groupQueue = <<>> /\ inflight = <<>>
    /\ receiptHandles = [m \in Messages |-> {}]
    /\ receiveCount = [m \in Messages |-> 0]
    /\ deleted = {} /\ hidden = {}
    /\ dlqExists = TRUE /\ dlq = {}
    /\ wpc = "requeue" /\ scan = {}
    /\ pc = [c \in Consumers |-> "idle"]
    /\ current = [c \in Consumers |-> Object(NoGroup, 0)]
    /\ successful = [c \in Consumers |-> <<>>]
    /\ deadLetters = [c \in Consumers |-> <<>>]
    /\ zeroTimeout = [c \in Consumers |-> FALSE]
    /\ result = [c \in Consumers |-> {}]
    /\ issued = {}
    /\ purged = {} /\ expired = {} /\ fruitless = {} /\ mistaken = {}

-----------------------------------------------------------------------------
(* Sending, and the passing of time                                        *)

\* FifoQueue.put creates the message, whose priority and sequence number are
\* its place in the order of creations ...
PutCreate(g) ==
    LET m == sent + 1
    IN /\ sent < MaxMessages
       /\ sent' = m
       /\ group' = [group EXCEPT ![m] = g]
       /\ creating' = creating \cup {<<m, generation>>}
       /\ before' = [before EXCEPT ![m] =
                        {x \in 1..sent : /\ group[x] = g
                                        /\ \A p \in creating : p[1] # x}]
       /\ UNCHANGED <<delayed, generation, inflight, groupVars, receiveCount,
                      deleted, receiptVars, clockVars, dlqVars, workerVars,
                      callVars, history>>

\* is_delayed
IsDelayed(m) == Delay /\ m > due

\* ... and stores it later, in delayed or in its group.  get_message_group
\* and the locking of the mutex are two steps: the object may be the one of
\* any generation since, and the message shares the fate of a purged one.
PutStore(m) ==
    \E from \in Generations :
       /\ <<m, from>> \in creating
       /\ creating' = creating \ {<<m, from>>}
       /\ \/ /\ IsDelayed(m)
             /\ delayed' = delayed \cup {m}
             /\ UNCHANGED <<groupVars, purged>>
          \/ /\ ~IsDelayed(m) /\ MutexFree
             /\ \E k \in from..generation :
                   /\ PutMessage(m, k)
                   /\ purged' = IF k < generation THEN purged \cup {m} ELSE purged
             /\ UNCHANGED delayed
       /\ UNCHANGED <<sent, before, generation, inflight, messageVars,
                      receiptVars, clockVars, dlqVars, workerVars, callVars,
                      expired, fruitless, mistaken>>

\* The clock passes m's visibility deadline.
VisibilityElapses(m) ==
    /\ m \in hidden
    /\ hidden' = hidden \ {m}
    /\ UNCHANGED <<sendVars, delayed, generation, inflight, groupVars, messageVars,
                   receiptVars, due, aged, dlqVars, workerVars, callVars,
                   history>>

\* The clock passes the end of the next message's delay; the delay is the
\* queue's, the same for all messages.
DelayElapses ==
    /\ Delay /\ due < sent
    /\ due' = due + 1
    /\ UNCHANGED <<sendVars, delayed, generation, inflight, groupVars,
                   messageVars, receiptVars, hidden, aged, dlqVars, workerVars,
                   callVars, history>>

\* The next message passes the retention period.
Age ==
    /\ Retention /\ aged < sent
    /\ aged' = aged + 1
    /\ UNCHANGED <<sendVars, delayed, generation, inflight, groupVars, messageVars,
                   receiptVars, hidden, due, dlqVars, workerVars, callVars,
                   history>>

-----------------------------------------------------------------------------
(* ReceiveMessage: FifoQueue.receive and the dead-letter part of           *)
(* SqsProvider.receive_message                                             *)

ReceiveStart(c, zero) ==
    /\ pc[c] = "idle" /\ receives < MaxReceives
    /\ receives' = receives + 1
    /\ zeroTimeout' = [zeroTimeout EXCEPT ![c] = zero]
    /\ pc' = [pc EXCEPT ![c] = "get"]
    /\ UNCHANGED <<sendVars, delayed, generation, inflight, groupVars, messageVars,
                   receiptVars, clockVars, dlqVars, workerVars, current,
                   successful, deadLetters, result, issued, history>>

\* message_group_queue.get, without the mutex.
ReceiveGetGroup(c) ==
    /\ pc[c] = "get" /\ groupQueue # <<>>
    /\ current' = [current EXCEPT ![c] = Head(groupQueue)]
    /\ groupQueue' = Tail(groupQueue)
    /\ pc' = [pc EXCEPT ![c] = "check"]
    /\ UNCHANGED <<sendVars, delayed, generation, inflight, heap, inflightGroups,
                   messageVars, receiptVars, clockVars, dlqVars, workerVars,
                   successful, deadLetters, zeroTimeout, result, issued,
                   receives, history>>

\* The queue of groups stays empty for the wait time.
ReceiveEmpty(c) ==
    /\ pc[c] = "get" /\ groupQueue = <<>>
    /\ pc' = [pc EXCEPT ![c] = "finish"]
    /\ UNCHANGED <<sendVars, delayed, generation, inflight, groupVars, messageVars,
                   receiptVars, clockVars, dlqVars, workerVars, resultVars,
                   issued, receives, history>>

\* A group without messages is passed over ...
ReceiveCheckGroup(c) ==
    /\ pc[c] = "check"
    /\ pc' = [pc EXCEPT ![c] = IF CurrentHeap(c) = {} THEN "get" ELSE "mark"]
    /\ UNCHANGED <<sendVars, delayed, generation, inflight, groupVars,
                   messageVars, receiptVars, clockVars, dlqVars, workerVars,
                   resultVars, issued, receives, history>>

\* ... any other goes to inflight_groups, still without the mutex.
ReceiveMarkGroup(c) ==
    /\ pc[c] = "mark"
    /\ inflightGroups' = inflightGroups \cup {current[c].group}
    /\ pc' = [pc EXCEPT ![c] = "pop"]
    /\ UNCHANGED <<sendVars, delayed, generation, inflight, heap, groupQueue,
                   messageVars, receiptVars, clockVars, dlqVars, workerVars,
                   resultVars, issued, receives, history>>

\* One round of the loop under the mutex: the first message is dropped if
\* deleted, else counted, hidden, and put on one of the two lists.
ReceivePop(c, m) ==
    LET n == receiveCount[m] + 1
    IN /\ Holds(c, "pop", "popping")
       /\ IsFirst(m, CurrentHeap(c))
       /\ heap' = [heap EXCEPT
                      ![current[c].generation][current[c].group] = @ \ {m}]
       /\ \/ /\ m \in deleted
             /\ pc' = [pc EXCEPT ![c] = "popping"]
             /\ UNCHANGED <<receiveCount, hidden, successful, deadLetters>>
          \/ /\ m \notin deleted
             /\ receiveCount' = [receiveCount EXCEPT ![m] = n]
             /\ hidden' = IF zeroTimeout[c] THEN hidden \ {m} ELSE hidden \cup {m}
             /\ \/ /\ MaxReceiveCount > 0 /\ n > MaxReceiveCount
                   /\ deadLetters' = [deadLetters EXCEPT ![c] = Append(@, m)]
                   /\ pc' = [pc EXCEPT ![c] = "popping"]
                   /\ UNCHANGED successful
                \/ /\ ~(MaxReceiveCount > 0 /\ n > MaxReceiveCount)
                   /\ successful' = [successful EXCEPT ![c] = Append(@, m)]
                   /\ pc' = [pc EXCEPT ![c] =
                                IF Len(successful[c]) + 1 = BatchSize
                                THEN "finish" ELSE "popping"]
                   /\ UNCHANGED deadLetters
       /\ UNCHANGED <<sendVars, delayed, generation, inflight, groupQueue,
                      inflightGroups, group, deleted, receiptVars, due,
                      aged, dlqVars, workerVars, current, zeroTimeout, result,
                      issued, receives, history>>

\* group.pop raises IndexError: the next group is tried.
ReceivePopEmpty(c) ==
    /\ Holds(c, "pop", "popping")
    /\ CurrentHeap(c) = {}
    /\ pc' = [pc EXCEPT ![c] = "get"]
    /\ fruitless' = IF \E m \in Held(c) : group[m] = current[c].group
                    THEN fruitless ELSE fruitless \cup {current[c].group}
    /\ UNCHANGED <<sendVars, delayed, generation, inflight, groupVars, messageVars,
                   receiptVars, clockVars, dlqVars, workerVars, resultVars,
                   issued, receives, purged, expired, mistaken>>

\* One round of the second loop under the mutex: receipt handle, and in
\* flight or straight back.
ReceiveFinish(c) ==
    LET m == Head(successful[c])
        h == <<m, receiveCount[m]>>
    IN /\ Holds(c, "finish", "finishing")
       /\ successful[c] # <<>>
       /\ receiptHandles' = [receiptHandles EXCEPT ![m] = @ \cup {h[2]}]
       /\ receipts' = receipts \cup {h}
       /\ result' = [result EXCEPT ![c] = @ \cup {h}]
       /\ successful' = [successful EXCEPT ![c] = Tail(@)]
       /\ \/ zeroTimeout[c] /\ PutMessage(m, generation) /\ UNCHANGED inflight
          \/ /\ ~zeroTimeout[c]
             /\ inflight' = With(inflight, m)
             /\ UNCHANGED groupVars
       /\ pc' = [pc EXCEPT ![c] =
                    IF Len(successful[c]) = 1 THEN "dead" ELSE "finishing"]
       /\ UNCHANGED <<sendVars, delayed, generation, messageVars, clockVars,
                      dlqVars, workerVars, current, deadLetters, zeroTimeout,
                      issued, receives, history>>

\* Nothing was received: the loop has no rounds.
ReceiveFinishNone(c) ==
    /\ Holds(c, "finish", "finishing")
    /\ successful[c] = <<>>
    /\ pc' = [pc EXCEPT ![c] = "dead"]
    /\ UNCHANGED <<sendVars, delayed, generation, inflight, groupVars, messageVars,
                   receiptVars, clockVars, dlqVars, workerVars, resultVars,
                   issued, receives, history>>

\* The dead-letter target is looked up before anything is moved; if it is
\* gone the call fails, with its dead letters and its handles.
DeadLetterLookup(c) ==
    /\ pc[c] = "dead" /\ deadLetters[c] # <<>>
    /\ \/ /\ dlqExists
          /\ pc' = [pc EXCEPT ![c] = "move"]
          /\ UNCHANGED <<deadLetters, result>>
       \/ /\ ~dlqExists
          /\ pc' = [pc EXCEPT ![c] = "idle"]
          /\ deadLetters' = [deadLetters EXCEPT ![c] = <<>>]
          /\ result' = [result EXCEPT ![c] = {}]
    /\ UNCHANGED <<sendVars, delayed, generation, inflight, groupVars, messageVars,
                   receiptVars, clockVars, dlqVars, workerVars, current,
                   successful, zeroTimeout, issued, receives, history>>

\* dl_queue.put for one dead letter, and get_message_group of its group ...
DeadLetterPut(c) ==
    LET m == Head(deadLetters[c])
    IN /\ pc[c] = "move" /\ deadLetters[c] # <<>> /\ MutexFree
       /\ dlq' = dlq \cup {m}
       /\ current' = [current EXCEPT ![c] = Object(group[m], generation)]
       /\ pc' = [pc EXCEPT ![c] = "update"]
       /\ UNCHANGED <<sendVars, delayed, generation, inflight, groupVars, messageVars,
                      receiptVars, clockVars, dlqExists, workerVars, successful,
                      deadLetters, zeroTimeout, result, issued, receives, history>>

\* ... whose visibility is updated once the mutex is free again.  A purge that
\* comes in between makes the object one of an earlier generation: what a group
\* of the same id is marked for since is undone, and that group not queued.
DeadLetterUpdate(c) ==
    LET g == group[Head(deadLetters[c])]
        k == current[c].generation
    IN /\ pc[c] = "update" /\ MutexFree /\ deadLetters[c] # <<>>
       /\ UpdateMessageGroupVisibility(g, k, Range(inflight))
       /\ mistaken' = IF k # generation /\ BecomesVisible(g, Range(inflight))
                      THEN mistaken \cup {g} ELSE mistaken
       /\ deadLetters' = [deadLetters EXCEPT ![c] = Tail(@)]
       /\ pc' = [pc EXCEPT ![c] = "move"]
       /\ UNCHANGED <<sendVars, delayed, generation, inflight, messageVars,
                      receiptVars, clockVars, dlqVars, workerVars, current,
                      successful, zeroTimeout, result, issued, receives, purged,
                      expired, fruitless>>

ReceiveReturn(c) ==
    /\ pc[c] \in {"dead", "move"} /\ deadLetters[c] = <<>>
    /\ issued' = issued \cup result[c]
    /\ result' = [result EXCEPT ![c] = {}]
    /\ pc' = [pc EXCEPT ![c] = "idle"]
    /\ UNCHANGED <<sendVars, delayed, generation, inflight, groupVars, messageVars,
                   receiptVars, clockVars, dlqVars, workerVars, current,
                   successful, deadLetters, zeroTimeout, receives, history>>

-----------------------------------------------------------------------------
(* The other API calls, each under the queue's mutex                       *)

\* A handle a client may use: any it was given, or only the message's last.
MayUse(h) == h \in issued /\ (StaleHandles \/ h[2] = receiveCount[h[1]])

\* _pre_delete_checks: the handle of a message that is visible has expired.
PreDeleteChecks(m) == m \in hidden

\* SqsQueue.remove and FifoQueue._on_remove_message.
Remove(h) ==
    LET m == h[1]
    IN /\ MutexFree /\ MayUse(h)
       /\ h \in receipts /\ PreDeleteChecks(m)
       /\ HandlesOf(m) \subseteq receipts
       /\ deleted' = deleted \cup {m}
       /\ receipts' = receipts \ HandlesOf(m)
       /\ receiptHandles' = [receiptHandles EXCEPT ![m] = {}]
       /\ inflight' = Without(inflight, m)
       /\ UpdateMessageGroupVisibility(group[m], generation, Range(inflight) \ {m})
       /\ UNCHANGED <<sendVars, delayed, generation, group, receiveCount,
                      clockVars, dlqVars, workerVars, callVars, history>>

\* A purge took an older handle from receipts but not from the message: the
\* loop over the message's handles raises KeyError.
RemoveKeyError(h) ==
    LET m == h[1]
    IN /\ MutexFree /\ MayUse(h)
       /\ h \in receipts /\ PreDeleteChecks(m)
       /\ ~(HandlesOf(m) \subseteq receipts)
       /\ deleted' = deleted \cup {m}
       /\ \E done \in SUBSET (HandlesOf(m) \cap receipts) :
             receipts' = receipts \ done
       /\ UNCHANGED <<sendVars, delayed, generation, inflight, groupVars, group,
                      receiveCount, receiptHandles, clockVars, dlqVars,
                      workerVars, callVars, history>>

\* SqsQueue.update_visibility_timeout
UpdateVisibilityTimeout(h, zero) ==
    LET m == h[1]
    IN /\ MutexFree /\ MayUse(h)
       /\ h \in receipts /\ m \in Range(inflight)
       /\ \/ /\ zero
             /\ hidden' = hidden \ {m}
             /\ inflight' = Without(inflight, m)
             /\ PutMessage(m, generation)
          \/ /\ ~zero
             /\ hidden' = hidden \cup {m}
             /\ UNCHANGED <<inflight, groupVars>>
       /\ UNCHANGED <<sendVars, delayed, generation, messageVars, receiptVars,
                      due, aged, dlqVars, workerVars, callVars, history>>

\* FifoQueue.clear, called by purge_queue: the group objects are forgotten,
\* not emptied.
Clear ==
    /\ MutexFree /\ generation < MaxPurges
    /\ generation' = generation + 1
    /\ purged' = purged \cup delayed \cup Range(inflight)
                     \cup UNION {heap[generation][g] : g \in Groups}
    /\ inflight' = <<>> /\ delayed' = {} /\ receipts' = {}
    /\ inflightGroups' = {} /\ groupQueue' = <<>>
    /\ fruitless' = {} /\ mistaken' = {}
    /\ UNCHANGED <<sendVars, heap, messageVars, receiptHandles, clockVars, dlqVars,
                   workerVars, callVars, expired>>

\* delete_queue called for the dead-letter queue.
DeleteDlq ==
    /\ MaxReceiveCount > 0 /\ DlqMayVanish /\ dlqExists
    /\ dlqExists' = FALSE
    /\ UNCHANGED <<sendVars, delayed, generation, inflight, groupVars, messageVars,
                   receiptVars, clockVars, dlq, workerVars, callVars, history>>

-----------------------------------------------------------------------------
(* QueueUpdateWorker.do_update_all_queues, for this queue                  *)

\* Mutant: the visibility test is inverted.
RequeuesHidden(m) == inflight # <<>> /\ m = Head(inflight) /\ m \in hidden

\* "in fifo, an invisible message blocks potentially visible messages
\* afterwards": only the oldest message in flight is looked at.
RequeueNext(m) == inflight # <<>> /\ m = Head(inflight) /\ m \notin hidden

\* One round of FifoQueue.requeue_inflight_messages.
RequeueInflight(m) ==
    /\ wpc = "requeueing" \/ (wpc = "requeue" /\ MutexFree)
    /\ RequeueNext(m)
    /\ inflight' = Without(inflight, m)
    /\ PutMessage(m, generation)
    /\ wpc' = "requeueing"
    /\ UNCHANGED <<sendVars, delayed, generation, messageVars, receiptVars,
                   clockVars, dlqVars, scan, callVars, history>>

\* The loop ends: nothing more in flight, or the next one is invisible.
RequeueDone ==
    /\ wpc = "requeueing" \/ (wpc = "requeue" /\ (inflight = <<>> \/ MutexFree))
    /\ ~ \E m \in Range(inflight) : RequeueNext(m)
    /\ wpc' = IF delayed = {} THEN "expire" ELSE "delayed"
    /\ UNCHANGED <<sendVars, delayed, generation, inflight, groupVars, messageVars,
                   receiptVars, clockVars, dlqVars, scan, callVars, history>>

\* enqueue_delayed_messages collects the due messages from a set, in no
\* particular order, while the clock goes on: of the messages that become
\* due meanwhile it may miss any ...
EnqueueStart ==
    /\ wpc = "delayed" /\ MutexFree
    /\ due' \in due..(IF Delay THEN sent ELSE due)
    /\ \E late \in SUBSET {m \in delayed : due < m /\ m <= due'} :
          scan' = {m \in delayed : m <= due} \cup late
    /\ wpc' = "enqueueing"
    /\ UNCHANGED <<sendVars, delayed, generation, inflight, groupVars,
                   messageVars, receiptVars, hidden, aged, dlqVars, callVars,
                   history>>

\* ... or fail, because a put adds to the set meanwhile: RuntimeError, which
\* do_update_all_queues logs before it goes on ...
EnqueueFails ==
    /\ wpc = "delayed" /\ MutexFree
    /\ \E p \in creating : IsDelayed(p[1])
    /\ wpc' = "expire"
    /\ UNCHANGED <<sendVars, delayed, generation, inflight, groupVars,
                   messageVars, receiptVars, clockVars, dlqVars, scan,
                   callVars, history>>

\* ... and puts what it collected.
EnqueueDelayed(m) ==
    /\ wpc = "enqueueing" /\ m \in scan
    /\ scan' = scan \ {m}
    /\ delayed' = delayed \ {m}
    /\ PutMessage(m, generation)
    /\ UNCHANGED <<sendVars, generation, inflight, messageVars, receiptVars,
                   clockVars, dlqVars, wpc, callVars, history>>

EnqueueDone ==
    /\ wpc = "enqueueing" /\ scan = {}
    /\ wpc' = "expire"
    /\ UNCHANGED <<sendVars, delayed, generation, inflight, groupVars,
                   messageVars, receiptVars, clockVars, dlqVars, scan,
                   callVars, history>>

\* FifoQueue.remove_expired_messages, if the retention period is enabled.
RemoveExpired ==
    /\ wpc = "expire"
    /\ wpc' = "requeue"
    /\ \/ ~Retention /\ UNCHANGED <<heap, expired>>
       \/ /\ Retention /\ MutexFree
          /\ heap' = [heap EXCEPT ![generation] =
                         [g \in Groups |-> {m \in @[g] : m > aged}]]
          /\ expired' = expired \cup
                 {m \in UNION {heap[generation][g] : g \in Groups} : m <= aged}
    /\ UNCHANGED <<sendVars, delayed, generation, inflight, groupQueue,
                   inflightGroups, messageVars, receiptVars, clockVars,
                   dlqVars, scan, callVars, purged, fruitless, mistaken>>

-----------------------------------------------------------------------------
Receive(c) ==
    \/ ReceiveGetGroup(c)
    \/ ReceiveEmpty(c)
    \/ ReceiveCheckGroup(c)
    \/ ReceiveMarkGroup(c)
    \/ \E m \in Messages : ReceivePop(c, m)
    \/ ReceivePopEmpty(c)
    \/ ReceiveFinish(c)
    \/ ReceiveFinishNone(c)
    \/ DeadLetterLookup(c)
    \/ DeadLetterPut(c)
    \/ DeadLetterUpdate(c)
    \/ ReceiveReturn(c)

Worker ==
    \/ \E m \in Messages : RequeueInflight(m) \/ EnqueueDelayed(m)
    \/ RequeueDone
    \/ EnqueueStart
    \/ EnqueueFails
    \/ EnqueueDone
    \/ RemoveExpired

Next ==
    \/ \E g \in Groups : PutCreate(g)
    \/ \E m \in Messages : PutStore(m) \/ VisibilityElapses(m)
    \/ DelayElapses
    \/ Age
    \/ \E c \in Consumers, zero \in BOOLEAN : ReceiveStart(c, zero)
    \/ \E c \in Consumers : Receive(c)
    \/ \E h \in issued : Remove(h) \/ RemoveKeyError(h)
    \/ \E h \in issued, zero \in BOOLEAN : UpdateVisibilityTimeout(h, zero)
    \/ Clear
    \/ DeleteDlq
    \/ Worker

Spec == Init /\ [][Next]_vars

\* Deadlines pass, the worker's thread comes round every second and every
\* request thread keeps running; nothing makes clients send or delete.
Fairness ==
    /\ \A m \in Messages : WF_vars(VisibilityElapses(m)) /\ WF_vars(PutStore(m))
    /\ WF_vars(DelayElapses)
    /\ \A c \in Consumers : WF_vars(Receive(c))
    /\ WF_vars(Worker)

FairSpec == Spec /\ Fairness

-----------------------------------------------------------------------------
(* Properties                                                              *)

\* Every variable has its type; among it, only messages that were sent are in
\* groups, in flight or in a receive's result, and a receive that pops
\* messages has a group.
TypeOK ==
    /\ sent \in 0..MaxMessages /\ aged \in 0..sent /\ due \in 0..sent
    /\ generation \in Generations
    /\ receives \in 0..MaxReceives
    /\ group \in [Messages -> Groups \cup {NoGroup}]
    /\ \A m \in Messages : m <= sent <=> group[m] \in Groups
    /\ heap \in [Generations -> [Groups -> SUBSET (1..sent)]]
    /\ creating \subseteq (1..sent) \X Generations
    /\ before \in [Messages -> SUBSET (1..sent)]
    /\ groupQueue \in Seq([group : Groups, generation : Generations])
    /\ inflightGroups \subseteq Groups
    /\ inflight \in Seq(1..sent)
    /\ delayed \subseteq 1..sent /\ scan \subseteq 1..sent
    /\ receipts \subseteq Handles /\ issued \subseteq Handles
    /\ receiptHandles \in [Messages -> SUBSET Nat]
    /\ receiveCount \in [Messages -> Nat]
    /\ deleted \subseteq Messages /\ hidden \subseteq Messages
    /\ dlq \subseteq Messages
    /\ dlqExists \in BOOLEAN
    /\ wpc \in WorkerSteps
    /\ pc \in [Consumers -> ConsumerSteps]
    /\ current \in [Consumers -> [group : Groups \cup {NoGroup},
                                  generation : Generations]]
    /\ \A c \in Consumers :
          pc[c] \in {"check", "mark", "pop", "popping", "update"} =>
              current[c].group \in Groups
    /\ successful \in [Consumers -> Seq(1..sent)]
    /\ deadLetters \in [Consumers -> Seq(1..sent)]
    /\ zeroTimeout \in [Consumers -> BOOLEAN]
    /\ result \in [Consumers -> SUBSET Handles]
    /\ purged \subseteq Messages /\ expired \subseteq Messages
    /\ fruitless \subseteq Groups /\ mistaken \subseteq Groups

\* The first deliveries of a group's messages happen in the order in which
\* they were sent: when a message has been received, so has every message of
\* its group whose SendMessage had ended before its own began, unless it was
\* purged or expired.  Sequence numbers are given out before the mutex is
\* taken, groups are taken off their queue without it, and requeued messages
\* come back to a group that has received new ones.
FirstDeliveryInOrder ==
    \A y \in 1..sent : receiveCount[y] > 0 =>
        \A x \in before[y] : receiveCount[x] > 0 \/ x \in purged \cup expired

\* "When you receive a message with a message group ID, no more messages for
\* the same message group ID are returned unless you delete the message, or
\* it becomes visible": no receive takes a message from a group while an
\* earlier one of the group is in flight and invisible.
GroupExclusive ==
    [][\A c \in Consumers, m \in Messages :
          (ReceivePop(c, m) /\ m \notin deleted) =>
              ~ \E x \in Range(inflight) \cap hidden : group[x] = group[m] /\ x < m]_vars

\* Group g is being worked on: in the queue of groups, taken off it by a
\* receive, with a message held by a receive, or with a message in flight.
Attended(g) ==
    \/ Object(g, generation) \in Range(groupQueue)
    \/ \E m \in Range(inflight) : group[m] = g
    \/ \E c \in Consumers :
          \/ /\ pc[c] \in {"check", "mark", "pop", "popping"}
             /\ current[c].group = g
          \/ \E m \in Held(c) : group[m] = g

\* Waiting messages are never forgotten: the group of every visible message
\* will be offered to a receive again, because it is queued or because a
\* message of it is out that must come back first.  Three things break this in
\* the code and are excepted.  A receive looks whether a group has messages,
\* marks it and pops from it in three steps, only the last under the mutex:
\* if the retention pass, another receive that has the same group, or the
\* dropping of a deleted message leaves it none, the group stays marked with
\* nothing in flight to unmark it.  A receive with a dead letter gets its group
\* and updates the group's visibility in two steps: if the queue is purged in
\* between, and another receive marks the new group of that id, the mark is
\* removed with the old object and the new one is not queued.  And a receive
\* fails with its dead letters because the dead-letter queue is gone.
NoStrandedGroup ==
    \A g \in Groups : heap[generation][g] # {} =>
        \/ Attended(g)
        \/ ~dlqExists
        \/ g \in fruitless \cap inflightGroups
        \/ g \in mistaken \ inflightGroups

\* A message that is in flight or delayed is offered again, deleted or
\* purged, if clients stop extending timeouts: the requeue pass gives up at
\* the first invisible message and is retried, and a pass over the delayed
\* messages that fails is made up for.
EventuallyOffered ==
    (<>[][~ \E h \in issued : UpdateVisibilityTimeout(h, FALSE)]_vars) =>
        \A m \in Messages :
            (m \in Range(inflight) \cup delayed) ~>
                \/ m \in deleted \cup purged
                \/ \E g \in Groups : m \in heap[generation][g]
=============================================================================

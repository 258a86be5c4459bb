---------------------------- MODULE SqsMoveTasks -----------------------------
(***************************************************************************)
(* Message move tasks (StartMessageMoveTask and CancelMessageMoveTask of   *)
(* services/sqs/provider.py, MessageMoveTaskManager): a thread takes the   *)
(* messages of a dead-letter queue one at a time, puts each to a target    *)
(* queue and then removes it from its source, while clients receive,       *)
(* delete and purge, cancel tasks and start others, and delete queues.     *)
(*                                                                         *)
(* The source is a standard queue, here by its contract (SqsContract,      *)
(* which SqsStandardQueue implements).  What becomes of a message in its   *)
(* target does not matter; only how often it was put there.                *)
(***************************************************************************)
EXTENDS Integers, FiniteSets

CONSTANTS
    Messages,         \* messages that get into the source
    Tasks,            \* the tasks that may be started
    Destination,      \* the DestinationArn each is started with
    Targets,          \* the queues messages come from or can be moved to
    SourceQueue,      \* the dead-letter queue
    NoQueue,          \* no DestinationArn; no DeadLetterQueueSourceArn
    NoMessage,
    Origin,           \* DeadLetterQueueSourceArn of each message
    Refusable,        \* messages without a group, which a FIFO target refuses
    MaxReceiveCount,  \* of the source's own redrive policy, 0 without one
    MaxReceives       \* bound on the receives of clients

ASSUME ConstantsAssumption ==
    /\ SourceQueue \notin Targets /\ NoQueue \notin Targets \cup {SourceQueue}
    /\ NoMessage \notin Messages
    /\ Origin \in [Messages -> Targets \cup {NoQueue}]
    /\ Refusable \subseteq Messages
    /\ Destination \in [Tasks -> Targets \cup {NoQueue}]
    /\ MaxReceiveCount \in Nat /\ MaxReceives \in Nat

VARIABLES
    place, count,  \* of SqsContract: the content of the source
    queues,        \* the queues that exist
    closed,        \* on_before_stop has run
    \* the tasks
    status,        \* MessageMoveTask.status, "none" before the task exists
    cancelled,     \* tasks whose cancel_event is set
    pc,            \* what the thread of the task does next
    hand,          \* the message it has received
    chained,       \* its receive has found dead letters
    known,         \* tasks whose receipt handle is among the receipts
    \* the world
    copies,        \* how often each message was put to a target
    receives,      \* how many receives clients have made
    handling,      \* how far a client's receive is with each message
    held,          \* messages with a client's handle among the receipts
    torn,          \* messages that have handles which the receipts lack
    \* history
    others,        \* messages that somebody else took out of the source
    spared,        \* how many purges took the handles of a message and left it
    dropped,       \* dead letters of the source that a task has received
    overrun        \* receives that a running task has begun since it was cancelled

locals   == <<hand, chained, overrun>>
taskVars == <<status, cancelled, pc, locals>>
world    == <<copies, receives, handling, held, torn, others, spared>>

vars == <<place, count, queues, closed, taskVars, known, world, dropped>>

Source == INSTANCE SqsContract

-----------------------------------------------------------------------------
Statuses == {"none", "CREATED", "RUNNING", "COMPLETED", "CANCELLING", "CANCELLED", "FAILED"}

\* Mutant: a task that is being cancelled counts as finished.
StillRunning == {"CREATED", "RUNNING"}

\* A task with one of these keeps others from being started.
Active == {"CREATED", "RUNNING", "CANCELLING"}

\* Where a thread is, from the request that creates the task to its end.
Moving == {"created", "queued", "loop", "lookup", "receive", "handle", "inflight",
           "target", "put", "remove", "ending", "completed", "cancelled"}

\* It has a message, which its receive is still busy with at the first two.
Holding == {"handle", "inflight", "target", "put", "remove"}

TypeOK ==
    /\ place \in [Messages -> Source!Places] /\ count \in [Messages -> Nat]
    /\ queues \subseteq Targets \cup {SourceQueue} /\ closed \in BOOLEAN
    /\ status \in [Tasks -> Statuses]
    /\ cancelled \subseteq Tasks
    /\ pc \in [Tasks -> Moving \cup {"none", "dropped", "ended"}]
    /\ hand \in [Tasks -> Messages \cup {NoMessage}]
    /\ \A t \in Tasks : pc[t] \in Holding <=> hand[t] # NoMessage
    /\ chained \subseteq Tasks /\ known \subseteq Tasks
    /\ copies \in [Messages -> Nat] /\ spared \in [Messages -> Nat]
    /\ receives \in 0..MaxReceives
    /\ handling \in [Messages -> {"none", "popped", "registered"}]
    /\ {held, torn, others, dropped} \subseteq SUBSET Messages
    /\ overrun \in [Tasks -> Nat]

Init ==
    /\ Source!Init
    /\ queues = Targets \cup {SourceQueue} /\ closed = FALSE
    /\ status = [t \in Tasks |-> "none"]
    /\ cancelled = {}
    /\ pc = [t \in Tasks |-> "none"]
    /\ hand = [t \in Tasks |-> NoMessage]
    /\ chained = {} /\ known = {}
    /\ copies = [m \in Messages |-> 0] /\ receives = 0
    /\ handling = [m \in Messages |-> "none"] /\ held = {} /\ torn = {}
    /\ others = {} /\ spared = [m \in Messages |-> 0] /\ dropped = {}
    /\ overrun = [t \in Tasks |-> 0]

-----------------------------------------------------------------------------
(* The source and its clients                                              *)

SourceExists == SourceQueue \in queues

\* Requests reach the source, and the update worker runs.
Serving == SourceExists /\ ~closed

\* A dead letter arrives, or a client sends a message to the source itself.
Arrive(m) ==
    /\ Serving /\ Source!Send(m)
    /\ UNCHANGED <<queues, closed, taskVars, known, world, dropped>>

\* ReceiveMessage, which takes the dead letters of the source to another queue,
\* and registers a handle for what it returns ...
ClientReceives(m) ==
    /\ Serving /\ receives < MaxReceives
    /\ Source!Take(m)
    /\ receives' = receives + 1
    /\ handling' = [handling EXCEPT ![m] = IF place'[m] = "out" THEN "popped" ELSE @]
    /\ others'   = IF place'[m] = "out" THEN others ELSE others \cup {m}
    /\ UNCHANGED <<queues, closed, taskVars, known, held, torn, copies, spared,
                   dropped>>

ClientRegisters(m) ==
    /\ handling[m] = "popped"
    /\ handling' = [handling EXCEPT ![m] = "registered"]
    /\ held' = held \cup {m}
    /\ UNCHANGED <<place, count, queues, closed, taskVars, copies, receives, known, torn,
                   others, spared, dropped>>

\* ... before it puts the message in flight.
ClientReceived(m) ==
    /\ handling[m] = "registered"
    /\ handling' = [handling EXCEPT ![m] = "none"]
    /\ UNCHANGED <<place, count, queues, closed, taskVars, known, copies, receives, held,
                   torn, others, spared, dropped>>

HolderOf(m) == {t \in Tasks : hand[t] = m}

\* A receive is busy with m, which is neither visible nor in flight ...
InReceive(m) ==
    handling[m] # "none" \/ \E t \in HolderOf(m) : pc[t] \in {"handle", "inflight"}

\* ... and its handle is not among the receipts yet.
Unregistered(m) == handling[m] = "popped" \/ \E t \in HolderOf(m) : pc[t] = "handle"

\* Unless remove comes across a handle that it does not find in the receipts,
\* it forgets all handles of the message.
RemoveHandles(m) ==
    /\ m \notin torn
    /\ held' = held \ {m} /\ known' = known \ HolderOf(m)
    /\ UNCHANGED torn

\* It comes across one that a purge has cleared, or that a receive has only added
\* to the message so far: a KeyError, when some are forgotten (whether a client's
\* are does not matter: the message is marked deleted by then).
RemoveHandlesRaises(m) ==
    /\ m \in torn \/ Unregistered(m)
    /\ torn' = torn \cup {m}
    /\ held' = held \ {m} /\ known' \in {known, known \ HolderOf(m)}

ClientDeletes(m) ==
    /\ Serving /\ m \in held
    /\ Source!Delete(m)
    /\ RemoveHandles(m) \/ RemoveHandlesRaises(m)
    /\ others' = others \cup {m}
    /\ UNCHANGED <<queues, closed, taskVars, copies, receives, handling, spared, dropped>>

\* The visibility timeout, one second in a move task, runs out.
TimesOut(m) ==
    /\ Serving /\ ~InReceive(m) /\ Source!Return({m})
    /\ UNCHANGED <<queues, closed, taskVars, known, world, dropped>>

Present == {m \in Messages : place[m] \in {"waiting", "out"}}

\* clear empties the heap, the messages in flight and the receipts: a message
\* that a receive is busy with stays, but the handles it has are forgotten.
PurgeQueue ==
    LET stays     == {m \in Present : InReceive(m)}
        forgotten == {m \in stays : m \in held \/ HolderOf(m) \cap known # {}}
        handles   == {m \in stays : m \in forgotten \/ count[m] > 1}
    IN  /\ Serving
        /\ \/ Source!Discard(Present \ stays)
           \/ Present = stays /\ UNCHANGED <<place, count>>
        /\ others' = others \cup (Present \ stays)
        /\ held' = {} /\ known' = {} /\ torn' = torn \cup handles
        /\ spared' = [m \in Messages |-> IF m \in forgotten THEN spared[m] + 1 ELSE spared[m]]
        /\ UNCHANGED <<queues, closed, taskVars, copies, receives, handling, dropped>>

\* DeleteQueue, of the source with all that is in it.
DeleteQueue(q) ==
    /\ q \in queues /\ ~closed
    /\ queues' = queues \ {q}
    /\ \/ /\ q = SourceQueue /\ Present # {}
          /\ Source!Discard(Present) /\ others' = others \cup Present
       \/ /\ q # SourceQueue \/ Present = {}
          /\ UNCHANGED <<place, count, others>>
    /\ UNCHANGED <<closed, taskVars, known, copies, receives, handling, held, torn, spared,
                   dropped>>

-----------------------------------------------------------------------------
(* The API calls                                                           *)

\* start_message_move_task checks, under the manager's mutex, that no other
\* task is active, and puts a new one into the store ...
StartMessageMoveTask(t) ==
    /\ status[t] = "none" /\ Serving
    /\ Destination[t] \in queues \cup {NoQueue}
    /\ \A u \in Tasks : status[u] \notin Active
    /\ status' = [status EXCEPT ![t] = "CREATED"]
    /\ pc' = [pc EXCEPT ![t] = "created"]
    /\ UNCHANGED <<place, count, queues, closed, cancelled, locals, known, world, dropped>>

\* ... and then submits it, under the mutex again.
Submit(t) ==
    /\ pc[t] = "created"
    /\ \/ /\ Serving
          /\ status' = [status EXCEPT ![t] = "RUNNING"]
          /\ cancelled' = cancelled \ {t}
          /\ pc' = [pc EXCEPT ![t] = "queued"]
       \/ /\ ~Serving
          /\ status' = [status EXCEPT ![t] = "FAILED"]
          /\ cancelled' = IF SourceExists THEN cancelled \ {t} ELSE cancelled
          /\ pc' = [pc EXCEPT ![t] = "ended"]
    /\ UNCHANGED <<place, count, queues, closed, locals, known, world, dropped>>

\* cancel_message_move_task, for a task in any state.
CancelMessageMoveTask(t) ==
    /\ status[t] # "none" /\ Serving
    /\ status' = [status EXCEPT ![t] = "CANCELLING"]
    /\ cancelled' = cancelled \cup {t}
    /\ UNCHANGED <<place, count, queues, closed, pc, locals,
                   known, world, dropped>>

\* close cancels what is running and what waits for a thread.
Close ==
    /\ ~closed /\ closed' = TRUE
    /\ cancelled' = cancelled \cup {t \in Tasks : pc[t] \notin {"none", "created"}}
    /\ pc' = [t \in Tasks |-> IF pc[t] = "queued" THEN "dropped" ELSE pc[t]]
    /\ UNCHANGED <<place, count, queues, status, locals,
                   known, world, dropped>>

-----------------------------------------------------------------------------
(* The thread of a task: MessageMoveTaskManager._run                       *)

Goto(t, l) == pc' = [pc EXCEPT ![t] = l]

\* An exception ends the task.
FailTask(t) ==
    /\ status' = [status EXCEPT ![t] = "FAILED"]
    /\ hand' = [hand EXCEPT ![t] = NoMessage] /\ known' = known \ {t}
    /\ chained' = chained \ {t} /\ overrun' = [overrun EXCEPT ![t] = 0]
    /\ Goto(t, "ended")

\* Mutant: the loop does not look at the event.
NeverCancelled(t) == TRUE

Continues(t) == t \notin cancelled

\* The condition of the loop.
CheckCancelled(t) ==
    /\ pc[t] \in {"queued", "loop"}
    /\ Goto(t, IF Continues(t) THEN "lookup" ELSE "ending")
    /\ UNCHANGED <<place, count, queues, closed, status, cancelled,
                   locals, known, world, dropped>>

LookUpSource(t) ==
    /\ pc[t] = "lookup"
    /\ \/ /\ SourceExists
          /\ Goto(t, "receive")
          /\ overrun' = [overrun EXCEPT ![t] = IF t \in cancelled THEN @ + 1 ELSE @]
          /\ UNCHANGED <<status, hand, chained, known>>
       \/ ~SourceExists /\ FailTask(t)
    /\ UNCHANGED <<place, count, queues, closed, cancelled, world,
                   dropped>>

\* Mutant: the message leaves the source as soon as it is received.
ReceivesAndDeletes(m) == Source!Discard({m})

Receives(m) == Source!Take(m)

\* The receive takes a message off the queue, a dead letter of the source or the
\* one that it returns ...
ReceiveMessage(t, m) ==
    /\ pc[t] = "receive" /\ SourceExists
    /\ Receives(m)
    /\ \/ /\ place'[m] # "dead"
          /\ hand' = [hand EXCEPT ![t] = m]
          /\ Goto(t, "handle")
          /\ UNCHANGED <<chained, dropped>>
       \/ /\ place'[m] = "dead"
          /\ chained' = chained \cup {t} /\ dropped' = dropped \cup {m}
          /\ UNCHANGED <<hand, pc>>
    /\ UNCHANGED <<queues, closed, status, cancelled, overrun, known, world>>

\* ... for which it registers a handle ...
RegisterHandle(t) ==
    /\ pc[t] = "handle"
    /\ known' = known \cup {t}
    /\ Goto(t, "inflight")
    /\ UNCHANGED <<place, count, queues, closed, status, cancelled, hand,
                   chained, overrun, copies, receives, handling, held, torn, others, spared,
                   dropped>>

\* ... and which it puts in flight.  With dead letters among what the receive
\* has taken, the task fails.
AddInflight(t) ==
    /\ pc[t] = "inflight"
    /\ \/ t \notin chained /\ Goto(t, "target") /\ UNCHANGED <<status, locals, known>>
       \/ t \in chained /\ FailTask(t)
    /\ UNCHANGED <<place, count, queues, closed, cancelled, world,
                   dropped>>

\* Mutant: the task waits for more messages.
NeverEmpty == ~SourceExists \/ closed

\* The heap is empty, or was shut down with its queue or the provider.
ReceivesNothing ==
    ~SourceExists \/ closed \/ \A m \in Messages : place[m] # "waiting"

\* Mutant: the task does not look whether it has got a message.
MovesNothing == "target"

\* The source is empty: the task is done.
AfterLast == "ending"

\* ... or it gets nothing more.
ReceiveEmpty(t) ==
    /\ pc[t] = "receive" /\ ReceivesNothing
    /\ \/ t \in chained /\ FailTask(t)
       \/ t \notin chained /\ Goto(t, AfterLast) /\ UNCHANGED <<status, locals, known>>
    /\ UNCHANGED <<place, count, queues, closed, cancelled, world,
                   dropped>>

TargetOf(t) == IF Destination[t] # NoQueue THEN Destination[t] ELSE Origin[hand[t]]

\* The target may have been deleted; a message that is no dead letter has none.
FindTarget(t) ==
    /\ pc[t] = "target"
    /\ \/ TargetOf(t) \in queues /\ Goto(t, "put") /\ UNCHANGED <<status, locals, known>>
       \/ TargetOf(t) \notin queues /\ FailTask(t)
    /\ UNCHANGED <<place, count, queues, closed, cancelled, world,
                   dropped>>

Put(t) ==
    /\ pc[t] = "put"
    /\ \/ /\ copies' = [copies EXCEPT ![hand[t]] = @ + 1]
          /\ Goto(t, "remove") /\ UNCHANGED <<status, locals, known>>
       \/ hand[t] \in Refusable /\ FailTask(t) /\ UNCHANGED copies
    /\ UNCHANGED <<place, count, queues, closed, cancelled, receives,
                   handling, held, torn, others, spared, dropped>>

Deleted(m) ==
    \/ Source!Delete(m)
    \/ m \notin Present /\ UNCHANGED <<place, count>>

\* Mutant: a message that was requeued meanwhile is not found.
RemovesInFlight(t) ==
    IF t \in known /\ place[hand[t]] = "out"
    THEN Deleted(hand[t]) /\ RemoveHandles(hand[t])
    ELSE UNCHANGED <<place, count, known, held, torn>>

\* remove does nothing when the receipts do not have the handle; otherwise it
\* finds the message wherever it is by now.
Removes(t) ==
    IF t \in known
    THEN Deleted(hand[t]) /\ RemoveHandles(hand[t])
    ELSE UNCHANGED <<place, count, known, held, torn>>

Remove(t) ==
    /\ pc[t] = "remove"
    /\ Removes(t)
    /\ hand' = [hand EXCEPT ![t] = NoMessage]
    /\ Goto(t, "loop")
    /\ UNCHANGED <<queues, closed, status, cancelled, chained, overrun,
                   copies, receives, handling, others, spared, dropped>>

\* The message is marked deleted, before remove fails on its handles.
RemoveRaises(t) ==
    /\ pc[t] = "remove" /\ t \in known
    /\ Deleted(hand[t])
    /\ RemoveHandlesRaises(hand[t])
    /\ FailTask(t)
    /\ UNCHANGED <<queues, closed, cancelled, copies, receives, handling,
                   others, spared, dropped>>

\* The else of the try: the event is read ...
Conclude(t) ==
    /\ pc[t] = "ending"
    /\ Goto(t, IF t \in cancelled THEN "cancelled" ELSE "completed")
    /\ UNCHANGED <<place, count, queues, closed, status, cancelled,
                   locals, known, world, dropped>>

\* ... and the status set.
SetStatus(t) ==
    /\ pc[t] \in {"cancelled", "completed"}
    /\ status' = [status EXCEPT ![t] = IF pc[t] = "cancelled" THEN "CANCELLED" ELSE "COMPLETED"]
    /\ overrun' = [overrun EXCEPT ![t] = 0]
    /\ Goto(t, "ended")
    /\ UNCHANGED <<place, count, queues, closed, cancelled, hand,
                   chained, known, world, dropped>>

TaskStep(t) ==
    \/ Submit(t) \/ CheckCancelled(t) \/ LookUpSource(t)
    \/ \E m \in Messages : ReceiveMessage(t, m)
    \/ RegisterHandle(t) \/ AddInflight(t) \/ ReceiveEmpty(t) \/ FindTarget(t)
    \/ Put(t) \/ Remove(t) \/ RemoveRaises(t)
    \/ Conclude(t) \/ SetStatus(t)

-----------------------------------------------------------------------------
Next ==
    \/ \E m \in Messages :
          \/ Arrive(m) \/ TimesOut(m) \/ ClientDeletes(m)
          \/ ClientReceives(m) \/ ClientRegisters(m) \/ ClientReceived(m)
    \/ PurgeQueue
    \/ \E q \in Targets \cup {SourceQueue} : DeleteQueue(q)
    \/ \E t \in Tasks :
          StartMessageMoveTask(t) \/ CancelMessageMoveTask(t) \/ TaskStep(t)
    \/ Close

\* The threads of the pool and of requests go on; nobody is obliged to call.
Fairness == \A t \in Tasks : WF_vars(TaskStep(t))

Spec == Init /\ [][Next]_vars /\ Fairness

-----------------------------------------------------------------------------
(* Properties                                                              *)

\* Only one task at a time works on a source, although a task is created and
\* submitted in two steps, and is cancelled and ends without a common lock.
\* ("Only one active task is allowed for a source queue arn at a given time.",
\* provider.py:1489-1490)
OneMover == \A t, u \in Tasks : pc[t] \in Moving /\ pc[u] \in Moving => t = u

\* A move never loses a message: unless somebody else has taken it out of the
\* source, or a receive of the task made it a dead letter of the source, it is
\* still there or was put to its target, whatever fails or is cancelled.
MovedOrKept ==
    \A m \in Messages :
        place[m] \in {"unsent", "waiting", "out"} \/ copies[m] > 0 \/ m \in others \cup dropped

\* ... nor does it double one, although the message is visible again, and
\* another task may be running, when the timeout of one second is over before
\* the message is removed.  Only a purge can cost another copy, one that comes
\* while a receive is busy with the message: the message outlives its handles,
\* and the task that has put it to its target cannot remove it.
MovedOnce == \A m \in Messages : copies[m] <= 1 + spared[m]

\* A task that was cancelled while it ran receives at most one more time.
CancelIsPrompt == \A t \in Tasks : overrun[t] <= 1

\* A task that was started ends, however messages that get into the source are
\* received, deleted, purged and returned meanwhile.
TaskEnds == (\E t \in Tasks : pc[t] \in Moving) ~> (\A t \in Tasks : pc[t] \notin Moving)
=============================================================================

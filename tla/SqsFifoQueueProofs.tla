------------------------- MODULE SqsFifoQueueProofs -------------------------
(***************************************************************************)
(* Proofs about SqsFifoQueue: type correctness, and that the first         *)
(* deliveries of a group's messages follow the order of sending on a queue *)
(* without a delay.                                                        *)
(***************************************************************************)
EXTENDS SqsFifoQueue, TLAPS

-----------------------------------------------------------------------------
(* The inductive invariant of the order of first deliveries                *)

\* The put that created x has stored it.
Stored(x) == \A p \in creating : p[1] # x

\* x can no longer be overtaken by its first delivery.
Settled(x) == receiveCount[x] > 0 \/ x \in purged \cup expired

\* Every message sent before y is settled.
MayBeFirst(y) == \A x \in before[y] : Settled(x)

\* Nothing is ever delayed on a queue without a delay.
NothingDelayed == delayed = {} /\ scan = {}

\* What was sent before a message is older, of its group and stored.
BeforeStored ==
    \A y \in 1..sent : \A x \in before[y] :
        x < y /\ group[x] = group[y] /\ Stored(x)

\* A group object holds messages of its group.
GroupsHoldTheirOwn ==
    \A k \in Generations, g \in Groups : \A m \in heap[k][g] : group[m] = g

\* The objects of groups that will be created after a purge do not exist yet.
NoFutureGroups ==
    \A k \in Generations, g \in Groups : k > generation => heap[k][g] = {}

\* A message that was stored and is not settled waits in its group.
UnsettledWaits ==
    \A x \in 1..sent : Stored(x) =>
        Settled(x) \/ x \in heap[generation][group[x]]

\* A message is not received before it is sent.
UnsentNotReceived == \A m \in Messages : m > sent => receiveCount[m] = 0

\* Receipt handles belong to messages that were received, and so only those
\* are deleted.
HandlesOfReceived ==
    /\ \A h \in issued : receiveCount[h[1]] > 0
    /\ \A c \in Consumers :
          /\ \A h \in result[c] : receiveCount[h[1]] > 0
          /\ \A m \in Range(successful[c]) : receiveCount[m] > 0
    /\ \A m \in deleted : receiveCount[m] > 0

\* What a purge left behind, in the group objects it forgot or in the hands
\* of a put that had found one, may be delivered at any time.
LeftBehind ==
    /\ \A k \in Generations, g \in Groups :
          k < generation => \A y \in heap[k][g] : MayBeFirst(y)
    /\ \A p \in creating : p[2] < generation => MayBeFirst(p[1])

\* The inductive invariant behind FirstDeliveryInOrder.
OrderInv ==
    /\ TypeOK
    /\ NothingDelayed
    /\ BeforeStored
    /\ GroupsHoldTheirOwn
    /\ NoFutureGroups
    /\ UnsettledWaits
    /\ UnsentNotReceived
    /\ HandlesOfReceived
    /\ LeftBehind
    /\ FirstDeliveryInOrder

-----------------------------------------------------------------------------
(* Type correctness                                                        *)

\* The parts of TypeOK.
SendTyped ==
    /\ sent \in 0..MaxMessages /\ aged \in 0..sent /\ due \in 0..sent
    /\ group \in [Messages -> Groups \cup {NoGroup}]
    /\ \A m \in Messages : m <= sent <=> group[m] \in Groups
    /\ creating \subseteq (1..sent) \X Generations
    /\ before \in [Messages -> SUBSET (1..sent)]

QueueTyped ==
    /\ generation \in Generations
    /\ heap \in [Generations -> [Groups -> SUBSET (1..sent)]]
    /\ groupQueue \in Seq([group : Groups, generation : Generations])
    /\ inflightGroups \subseteq Groups
    /\ inflight \in Seq(1..sent)
    /\ delayed \subseteq 1..sent /\ scan \subseteq 1..sent

MessagesTyped ==
    /\ receipts \subseteq Handles /\ issued \subseteq Handles
    /\ receiptHandles \in [Messages -> SUBSET Nat]
    /\ receiveCount \in [Messages -> Nat]
    /\ deleted \subseteq Messages /\ hidden \subseteq Messages
    /\ dlq \subseteq Messages
    /\ result \in [Consumers -> SUBSET Handles]
    /\ purged \subseteq Messages /\ expired \subseteq Messages

ControlTyped ==
    /\ receives \in 0..MaxReceives
    /\ dlqExists \in BOOLEAN
    /\ wpc \in WorkerSteps
    /\ pc \in [Consumers -> ConsumerSteps]
    /\ current \in [Consumers -> [group : Groups \cup {NoGroup},
                                  generation : Generations]]
    /\ \A c \in Consumers :
          pc[c] \in {"check", "mark", "pop", "popping", "update"} =>
              current[c].group \in Groups
    /\ zeroTimeout \in [Consumers -> BOOLEAN]
    /\ fruitless \subseteq Groups /\ mistaken \subseteq Groups

ListsTyped ==
    /\ successful \in [Consumers -> Seq(1..sent)]
    /\ deadLetters \in [Consumers -> Seq(1..sent)]

\* TypeOK is the conjunction of its parts; needed of the state after a step.
LEMMA TypeParts ==
    (SendTyped /\ QueueTyped /\ MessagesTyped /\ ControlTyped /\ ListsTyped)'
        => TypeOK'
  BY DEF TypeOK, SendTyped, QueueTyped, MessagesTyped, ControlTyped, ListsTyped

\* A sequence over a set is one over a larger set.
LEMMA SeqLarger ==
    ASSUME NEW S, NEW T, S \subseteq T, NEW s \in Seq(S)
    PROVE  s \in Seq(T)
  OBVIOUS

\* The elements of a sequence are in its set, and so are those of its tail.
LEMMA SeqElements ==
    ASSUME NEW S, NEW s \in Seq(S)
    PROVE  /\ Range(s) \subseteq S
           /\ s # <<>> => /\ Head(s) \in Range(s) /\ Head(s) \in S
                          /\ Tail(s) \in Seq(S)
                          /\ Range(Tail(s)) \subseteq Range(s)
  BY DEF Range

\* Removing a key from the in-flight messages, and adding one.
LEMMA KeyRemoved ==
    ASSUME NEW S, NEW s \in Seq(S), NEW m
    PROVE  /\ Without(s, m) \in Seq(S)
           /\ Range(Without(s, m)) \subseteq Range(s)
<1>1. CASE m \notin Range(s)
  BY <1>1 DEF Without
<1>2. CASE m \in Range(s)
  <2> DEFINE i == CHOOSE j \in DOMAIN s : s[j] = m
             w == [j \in 1..(Len(s) - 1) |-> IF j < i THEN s[j] ELSE s[j + 1]]
  <2>1. Without(s, m) = w
    BY <1>2 DEF Without
  <2>2. \E j \in DOMAIN s : s[j] = m
    BY <1>2 DEF Range
  <2>3. i \in DOMAIN s
    BY <2>2
  <2> HIDE DEF i
  <2>4. Len(s) \in Nat /\ DOMAIN s = 1..Len(s) /\ Len(s) >= 1
    BY <2>3
  <2>5. \A j \in 1..(Len(s) - 1) : w[j] \in Range(s) /\ w[j] \in S
    BY <2>3, <2>4 DEF Range
  <2>6. w \in Seq(S)
    BY <2>4, <2>5
  <2>7. Range(w) \subseteq Range(s)
    BY <2>4, <2>5 DEF Range
  <2> QED BY <2>1, <2>6, <2>7
<1> QED BY <1>1, <1>2

\* A dict that gets a key stays a sequence of its set.
LEMMA KeyAdded ==
    ASSUME NEW S, NEW s \in Seq(S), NEW m \in S
    PROVE  With(s, m) \in Seq(S)
  BY DEF With

\* Appending an element, or not.
LEMMA MaybeAppend ==
    ASSUME NEW S, NEW s \in Seq(S), NEW e, NEW t, NEW b \in BOOLEAN,
           b => e \in S, t = IF b THEN Append(s, e) ELSE s
    PROVE  t \in Seq(S)
  OBVIOUS

\* An empty queue is well typed.
LEMMA InitTyped == Init => TypeOK
  BY FifoAssumption
     DEF Init, TypeOK, Messages, Generations, Handles, Object, WorkerSteps,
         ConsumerSteps

\* FifoQueue._put_message keeps the heaps and the queue of groups well typed.
LEMMA PutMessageTyped ==
    ASSUME TypeOK, NEW m \in 1..sent, NEW k \in Generations, PutMessage(m, k)
    PROVE  /\ heap' \in [Generations -> [Groups -> SUBSET (1..sent)]]
           /\ groupQueue' \in Seq([group : Groups, generation : Generations])
           /\ inflightGroups' \subseteq Groups
<1>1. m \in Messages /\ group[m] \in Groups
  BY FifoAssumption DEF TypeOK, Messages
<1>2. Object(group[m], k) \in [group : Groups, generation : Generations]
  BY <1>1 DEF Object
<1>3. heap' \in [Generations -> [Groups -> SUBSET (1..sent)]]
  BY <1>1 DEF PutMessage, TypeOK
<1>4. groupQueue' \in Seq([group : Groups, generation : Generations])
  <2>1. groupQueue \in Seq([group : Groups, generation : Generations])
    BY DEF TypeOK
  <2>2. (Unblocks(m) \/ WasEmpty(m, k)) \in BOOLEAN
    OBVIOUS
  <2>3. groupQueue' = IF Unblocks(m) \/ WasEmpty(m, k)
                      THEN Append(groupQueue, Object(group[m], k)) ELSE groupQueue
    BY DEF PutMessage
  <2> QED BY <1>2, <2>1, <2>2, <2>3, MaybeAppend
<1>5. inflightGroups' \subseteq Groups
  BY DEF PutMessage, TypeOK
<1> QED BY <1>3, <1>4, <1>5

\* So does FifoQueue.update_message_group_visibility.
LEMMA UpdateTyped ==
    ASSUME TypeOK, NEW g, NEW k \in Generations, NEW S,
           UpdateMessageGroupVisibility(g, k, S)
    PROVE  /\ heap' \in [Generations -> [Groups -> SUBSET (1..sent)]]
           /\ groupQueue' \in Seq([group : Groups, generation : Generations])
           /\ inflightGroups' \subseteq Groups
<1>1. g \in inflightGroups =>
          Object(g, k) \in [group : Groups, generation : Generations]
  BY DEF Object, TypeOK
<1>2. groupQueue' \in Seq([group : Groups, generation : Generations])
  <2> DEFINE b == BecomesVisible(g, S) /\ heap[k][g] # {}
  <2>1. groupQueue \in Seq([group : Groups, generation : Generations])
    BY DEF TypeOK
  <2>2. b \in BOOLEAN
    BY DEF BecomesVisible
  <2>3. groupQueue' = IF b THEN Append(groupQueue, Object(g, k))
                      ELSE groupQueue
    BY DEF UpdateMessageGroupVisibility
  <2>4. b => Object(g, k) \in [group : Groups, generation : Generations]
    BY <1>1 DEF BecomesVisible
  <2> HIDE DEF b
  <2> QED BY <2>1, <2>2, <2>3, <2>4, MaybeAppend
<1>3. inflightGroups' \subseteq Groups
  BY DEF UpdateMessageGroupVisibility, TypeOK
<1>4. heap' \in [Generations -> [Groups -> SUBSET (1..sent)]]
  BY DEF UpdateMessageGroupVisibility, TypeOK
<1> QED BY <1>2, <1>3, <1>4

\* A new message has a number that no message had.
LEMMA PutCreateTyped ==
    ASSUME TypeOK, NEW g \in Groups, PutCreate(g)
    PROVE  TypeOK'
<1>1. PICK n : n = sent + 1
  OBVIOUS
<1>2. /\ sent \in Nat /\ sent < MaxMessages /\ MaxMessages \in Nat
      /\ sent' = n
      /\ 1..sent \subseteq 1..n /\ n \in Messages /\ n \in 1..n
  BY <1>1, FifoAssumption DEF PutCreate, TypeOK, Messages
<1>3. SendTyped'
  <2>1. group' = [group EXCEPT ![n] = g]
    BY <1>1 DEF PutCreate
  <2>2. group' \in [Messages -> Groups \cup {NoGroup}]
    BY <2>1 DEF TypeOK
  <2>3. \A m \in Messages : m <= n <=> group'[m] \in Groups
    BY <1>1, <1>2, <2>1 DEF TypeOK, Messages
  <2>4. creating' \subseteq (1..n) \X Generations
    <3>1. creating' = creating \cup {<<n, generation>>}
      BY <1>1 DEF PutCreate
    <3> QED BY <1>2, <3>1 DEF TypeOK
  <2>5. before' \in [Messages -> SUBSET (1..n)]
    <3>1. PICK B \in SUBSET (1..sent) : before' = [before EXCEPT ![n] = B]
      BY <1>1 DEF PutCreate
    <3> QED BY <1>2, <3>1 DEF TypeOK
  <2>6. sent' \in 0..MaxMessages /\ aged' \in 0..n /\ due' \in 0..n
    BY <1>1, <1>2 DEF PutCreate, TypeOK, clockVars
  <2> QED BY <1>2, <2>2, <2>3, <2>4, <2>5, <2>6 DEF SendTyped
<1>4. QueueTyped'
  <2>1. heap' \in [Generations -> [Groups -> SUBSET (1..n)]]
    BY <1>2 DEF PutCreate, TypeOK, groupVars
  <2>2. inflight' \in Seq(1..n)
    BY <1>2, SeqLarger DEF PutCreate, TypeOK
  <2> QED BY <1>2, <2>1, <2>2 DEF QueueTyped, PutCreate, TypeOK, groupVars, workerVars
<1>5. ListsTyped'
  BY <1>2, SeqLarger DEF ListsTyped, PutCreate, TypeOK, callVars, resultVars
<1>6. MessagesTyped'
  BY DEF MessagesTyped, PutCreate, TypeOK, callVars, resultVars, receiptVars,
         clockVars, dlqVars, history
<1>7. ControlTyped'
  BY DEF ControlTyped, PutCreate, TypeOK, callVars, resultVars, dlqVars,
         workerVars, history
<1> QED BY <1>3, <1>4, <1>5, <1>6, <1>7, TypeParts

\* The mutex-protected half of a put keeps the types, with a delay or without.
LEMMA PutStoreTyped ==
    ASSUME TypeOK, NEW m \in Messages, PutStore(m)
    PROVE  TypeOK'
<1>1. PICK from \in Generations :
        /\ <<m, from>> \in creating
        /\ creating' = creating \ {<<m, from>>}
        /\ \/ /\ IsDelayed(m)
              /\ delayed' = delayed \cup {m}
              /\ UNCHANGED <<groupVars, purged>>
           \/ /\ ~IsDelayed(m) /\ MutexFree
              /\ \E k \in from..generation :
                    /\ PutMessage(m, k)
                    /\ purged' = IF k < generation THEN purged \cup {m} ELSE purged
              /\ UNCHANGED delayed
  BY DEF PutStore
<1>2. m \in 1..sent
  BY <1>1 DEF TypeOK
<1>3. \A k \in from..generation : k \in Generations
  BY FifoAssumption DEF TypeOK, Generations
<1>4. QueueTyped' /\ purged' \subseteq Messages
  <2>1. CASE UNCHANGED <<groupVars, purged>> /\ delayed' = delayed \cup {m}
    BY <1>2, <2>1 DEF PutStore, QueueTyped, TypeOK, groupVars, workerVars
  <2>2. ASSUME NEW k \in from..generation, PutMessage(m, k),
               purged' = IF k < generation THEN purged \cup {m} ELSE purged,
               UNCHANGED delayed
        PROVE  QueueTyped' /\ purged' \subseteq Messages
    <3>1. /\ heap' \in [Generations -> [Groups -> SUBSET (1..sent)]]
          /\ groupQueue' \in Seq([group : Groups, generation : Generations])
          /\ inflightGroups' \subseteq Groups
      BY <1>2, <1>3, <2>2, PutMessageTyped
    <3>2. purged' \subseteq Messages
      BY <2>2 DEF TypeOK
    <3> QED BY <2>2, <3>1, <3>2 DEF PutStore, QueueTyped, TypeOK, workerVars
  <2> QED BY <1>1, <2>1, <2>2
<1>5. SendTyped' /\ ListsTyped' /\ ControlTyped'
  BY <1>1 DEF SendTyped, ListsTyped, ControlTyped, PutStore, TypeOK, messageVars,
         clockVars, dlqVars, workerVars, callVars, resultVars
<1>6. MessagesTyped'
  BY <1>4 DEF MessagesTyped, PutStore, TypeOK, messageVars, receiptVars,
         clockVars, dlqVars, callVars, resultVars
<1> QED BY <1>4, <1>5, <1>6, TypeParts

\* The steps that change numbers, flags and steps only.
LEMMA PlainTyped ==
    ASSUME TypeOK,
           \/ \E m \in Messages : VisibilityElapses(m)
           \/ DelayElapses \/ Age \/ DeleteDlq
           \/ \E c \in Consumers, zero \in BOOLEAN : ReceiveStart(c, zero)
           \/ \E c \in Consumers :
                 \/ ReceiveEmpty(c) \/ ReceiveCheckGroup(c) \/ ReceiveFinishNone(c)
           \/ RequeueDone \/ EnqueueFails \/ EnqueueDone
    PROVE  TypeOK'
<1> USE DEF vars, groupVars, messageVars, receiptVars, clockVars, sendVars, dlqVars,
            workerVars, resultVars, callVars, history, TypeOK, ConsumerSteps,
            WorkerSteps
<1>1. ASSUME NEW m \in Messages, VisibilityElapses(m) PROVE TypeOK'
  BY <1>1 DEF VisibilityElapses
<1>2. CASE DelayElapses
  BY <1>2 DEF DelayElapses
<1>3. CASE Age
  BY <1>3 DEF Age
<1>4. CASE DeleteDlq
  BY <1>4 DEF DeleteDlq
<1>5. ASSUME NEW c \in Consumers, NEW zero \in BOOLEAN, ReceiveStart(c, zero)
      PROVE  TypeOK'
  BY <1>5, FifoAssumption DEF ReceiveStart
<1>6. ASSUME NEW c \in Consumers, ReceiveEmpty(c) PROVE TypeOK'
  BY <1>6 DEF ReceiveEmpty
<1>7. ASSUME NEW c \in Consumers, ReceiveCheckGroup(c) PROVE TypeOK'
  BY <1>7 DEF ReceiveCheckGroup
<1>8. ASSUME NEW c \in Consumers, ReceiveFinishNone(c) PROVE TypeOK'
  BY <1>8 DEF ReceiveFinishNone
<1>9. CASE RequeueDone \/ EnqueueFails \/ EnqueueDone
  BY <1>9 DEF RequeueDone, EnqueueFails, EnqueueDone
<1> QED BY <1>1, <1>2, <1>3, <1>4, <1>5, <1>6, <1>7, <1>8, <1>9

\* A receive takes the first group off the queue of groups.
LEMMA GetGroupTyped ==
    ASSUME TypeOK, NEW c \in Consumers, ReceiveGetGroup(c)
    PROVE  TypeOK'
<1> DEFINE O == [group : Groups, generation : Generations]
<1>1. groupQueue \in Seq(O) /\ groupQueue # <<>>
  BY DEF TypeOK, ReceiveGetGroup
<1>2. Head(groupQueue) \in O /\ Tail(groupQueue) \in Seq(O)
  <2> HIDE DEF O
  <2> QED BY <1>1
<1>3. QueueTyped'
  BY <1>2 DEF QueueTyped, ReceiveGetGroup, TypeOK, sendVars, workerVars
<1>4. ControlTyped'
  <2>1. current' = [current EXCEPT ![c] = Head(groupQueue)]
    BY DEF ReceiveGetGroup
  <2>2. current' \in [Consumers -> [group : Groups \cup {NoGroup},
                                    generation : Generations]]
    BY <1>2, <2>1 DEF TypeOK
  <2>3. \A d \in Consumers :
            pc'[d] \in {"check", "mark", "pop", "popping", "update"} =>
                current'[d].group \in Groups
    BY <1>2, <2>1 DEF TypeOK, ReceiveGetGroup
  <2> QED BY <2>2, <2>3 DEF ControlTyped, ReceiveGetGroup, TypeOK, ConsumerSteps,
              dlqVars, workerVars, history
<1>5. SendTyped' /\ MessagesTyped' /\ ListsTyped'
  BY DEF SendTyped, MessagesTyped, ListsTyped, ReceiveGetGroup, TypeOK, sendVars,
         messageVars, receiptVars, clockVars, dlqVars, history
<1> QED BY <1>3, <1>4, <1>5, TypeParts

\* A receive marks the group it has looked at.
LEMMA MarkTyped ==
    ASSUME TypeOK, NEW c \in Consumers, ReceiveMarkGroup(c)
    PROVE  TypeOK'
  BY DEF ReceiveMarkGroup, groupVars, messageVars, receiptVars, clockVars, sendVars,
         dlqVars, workerVars, resultVars, callVars, history, TypeOK, ConsumerSteps

\* A receive that has popped all of a group goes on or finishes.
LEMMA PopEmptyTyped ==
    ASSUME TypeOK, NEW c \in Consumers, ReceivePopEmpty(c)
    PROVE  TypeOK'
<1>1. current[c].group \in Groups
  BY DEF ReceivePopEmpty, Holds, TypeOK
<1> QED BY <1>1 DEF ReceivePopEmpty, groupVars, messageVars, receiptVars, clockVars,
           sendVars, dlqVars, workerVars, resultVars, callVars, history, TypeOK,
           ConsumerSteps

\* A receive counts the message it pops and keeps it, drops it or lists it as a
\* dead letter.
LEMMA PopTyped ==
    ASSUME TypeOK, NEW c \in Consumers, NEW m \in Messages, ReceivePop(c, m)
    PROVE  TypeOK'
<1>1. /\ current[c].group \in Groups /\ current[c].generation \in Generations
      /\ m \in CurrentHeap(c)
  BY DEF ReceivePop, Holds, TypeOK, IsFirst
<1>2. m \in 1..sent
  BY <1>1 DEF TypeOK, CurrentHeap
<1>3. QueueTyped'
  <2>1. heap' \in [Generations -> [Groups -> SUBSET (1..sent)]]
    BY <1>1 DEF ReceivePop, TypeOK
  <2> QED BY <2>1 DEF QueueTyped, ReceivePop, TypeOK, sendVars, workerVars
<1>4. ListsTyped'
  <2>1. /\ Append(successful[c], m) \in Seq(1..sent)
        /\ Append(deadLetters[c], m) \in Seq(1..sent)
    <3>1. successful[c] \in Seq(1..sent) /\ deadLetters[c] \in Seq(1..sent)
      BY DEF TypeOK
    <3> DEFINE S == 1..sent
    <3> HIDE DEF S
    <3>2. ASSUME NEW s \in Seq(S), m \in S PROVE Append(s, m) \in Seq(S)
      BY <3>2
    <3> QED BY <1>2, <3>1, <3>2 DEF S
  <2>2. /\ successful' = successful
           \/ successful' = [successful EXCEPT ![c] = Append(@, m)]
        /\ deadLetters' = deadLetters
           \/ deadLetters' = [deadLetters EXCEPT ![c] = Append(@, m)]
        /\ sent' = sent
    BY DEF ReceivePop, sendVars
  <2> QED BY <2>1, <2>2 DEF ListsTyped, TypeOK
<1>5. ControlTyped'
  BY <1>1 DEF ControlTyped, ReceivePop, TypeOK, dlqVars, workerVars, history,
         ConsumerSteps
<1>6. MessagesTyped'
  <2>1. receiveCount[m] + 1 \in Nat
    BY DEF TypeOK
  <2>2. receiveCount' \in [Messages -> Nat]
    BY <2>1 DEF ReceivePop, TypeOK
  <2>3. hidden' \subseteq Messages
    BY DEF ReceivePop, TypeOK
  <2> QED BY <2>2, <2>3 DEF MessagesTyped, ReceivePop, TypeOK, receiptVars, dlqVars,
              history
<1>7. SendTyped'
  BY DEF SendTyped, ReceivePop, TypeOK, sendVars
<1> QED BY <1>3, <1>4, <1>5, <1>6, <1>7, TypeParts

\* A receive gives a message its handle and puts it in flight or back.
LEMMA FinishTyped ==
    ASSUME TypeOK, NEW c \in Consumers, ReceiveFinish(c)
    PROVE  TypeOK'
<1>1. PICK m : m = Head(successful[c])
  OBVIOUS
<1>2. successful[c] \in Seq(1..sent) /\ successful[c] # <<>>
  BY DEF ReceiveFinish, TypeOK
<1>3. m \in 1..sent /\ Tail(successful[c]) \in Seq(1..sent)
  BY <1>1, <1>2, SeqElements
<1>4. m \in Messages /\ receiveCount[m] \in Nat
      /\ <<m, receiveCount[m]>> \in Handles
  BY <1>3, FifoAssumption DEF TypeOK, Messages, Handles
<1>5. QueueTyped'
  <2>1. CASE PutMessage(m, generation) /\ UNCHANGED inflight
    <3>1. /\ heap' \in [Generations -> [Groups -> SUBSET (1..sent)]]
          /\ groupQueue' \in Seq([group : Groups, generation : Generations])
          /\ inflightGroups' \subseteq Groups
      BY <1>3, <2>1, PutMessageTyped DEF TypeOK
    <3> QED BY <2>1, <3>1 DEF QueueTyped, ReceiveFinish, TypeOK, sendVars, workerVars
  <2>2. CASE inflight' = With(inflight, m) /\ UNCHANGED groupVars
    <3>1. inflight' \in Seq(1..sent)
      BY <1>3, <2>2, KeyAdded DEF TypeOK
    <3> QED BY <2>2, <3>1 DEF QueueTyped, ReceiveFinish, TypeOK, sendVars,
                workerVars, groupVars
  <2> QED BY <1>1, <2>1, <2>2 DEF ReceiveFinish
<1>6. ListsTyped'
  BY <1>3 DEF ListsTyped, ReceiveFinish, TypeOK, sendVars
<1>7. MessagesTyped'
  <2>1. /\ receiptHandles' = [receiptHandles EXCEPT ![m] = @ \cup {receiveCount[m]}]
        /\ receipts' = receipts \cup {<<m, receiveCount[m]>>}
        /\ result' = [result EXCEPT ![c] = @ \cup {<<m, receiveCount[m]>>}]
    BY <1>1 DEF ReceiveFinish
  <2>2. receiptHandles' \in [Messages -> SUBSET Nat]
    BY <1>4, <2>1 DEF TypeOK
  <2>3. receipts' \subseteq Handles /\ result' \in [Consumers -> SUBSET Handles]
    BY <1>4, <2>1 DEF TypeOK
  <2> QED BY <2>2, <2>3 DEF MessagesTyped, ReceiveFinish, TypeOK, messageVars,
              clockVars, dlqVars, history
<1>8. SendTyped' /\ ControlTyped'
  BY DEF SendTyped, ControlTyped, ReceiveFinish, TypeOK, sendVars, messageVars,
         clockVars, dlqVars, workerVars, history, ConsumerSteps
<1> QED BY <1>5, <1>6, <1>7, <1>8, TypeParts

\* The provider's part of a receive keeps the types.
LEMMA DeadLetterTyped ==
    ASSUME TypeOK, NEW c \in Consumers,
           \/ DeadLetterLookup(c) \/ DeadLetterPut(c) \/ DeadLetterUpdate(c)
           \/ ReceiveReturn(c)
    PROVE  TypeOK'
<1> USE DEF messageVars, receiptVars, clockVars, sendVars, dlqVars, workerVars,
            callVars, history
<1>1. CASE DeadLetterLookup(c)
  <2>1. ListsTyped'
    <3>1. <<>> \in Seq(1..sent)
      OBVIOUS
    <3> QED BY <1>1, <3>1 DEF ListsTyped, DeadLetterLookup, TypeOK
  <2>2. SendTyped' /\ QueueTyped' /\ MessagesTyped' /\ ControlTyped'
    BY <1>1 DEF SendTyped, QueueTyped, MessagesTyped, ControlTyped,
         DeadLetterLookup, TypeOK, ConsumerSteps, groupVars
  <2> QED BY <2>1, <2>2, TypeParts
<1>2. CASE DeadLetterPut(c)
  <2>1. PICK m : m = Head(deadLetters[c])
    OBVIOUS
  <2>2. deadLetters[c] \in Seq(1..sent) /\ deadLetters[c] # <<>>
    BY <1>2 DEF DeadLetterPut, TypeOK
  <2>3. m \in 1..sent
    BY <2>1, <2>2, SeqElements
  <2>4. m \in Messages /\ group[m] \in Groups
    BY <2>3, FifoAssumption DEF TypeOK, Messages
  <2>5. ControlTyped'
    <3>1. /\ current' = [current EXCEPT ![c] = Object(group[m], generation)]
          /\ pc' = [pc EXCEPT ![c] = "update"]
      BY <1>2, <2>1 DEF DeadLetterPut
    <3>2. /\ Object(group[m], generation)
                 \in [group : Groups, generation : Generations]
          /\ Object(group[m], generation).group = group[m]
      BY <2>4 DEF Object, TypeOK
    <3>3. current' \in [Consumers -> [group : Groups \cup {NoGroup},
                                      generation : Generations]]
      BY <3>1, <3>2 DEF TypeOK
    <3>4. \A d \in Consumers :
              pc'[d] \in {"check", "mark", "pop", "popping", "update"} =>
                  current'[d].group \in Groups
      BY <2>4, <3>1, <3>2 DEF TypeOK
    <3> QED BY <1>2, <3>1, <3>3, <3>4 DEF ControlTyped, DeadLetterPut, TypeOK,
                ConsumerSteps
  <2>6. MessagesTyped'
    BY <1>2, <2>1, <2>4 DEF MessagesTyped, DeadLetterPut, TypeOK
  <2>7. SendTyped' /\ QueueTyped' /\ ListsTyped'
    BY <1>2 DEF SendTyped, QueueTyped, ListsTyped, DeadLetterPut, TypeOK, groupVars
  <2> QED BY <2>5, <2>6, <2>7, TypeParts
<1>3. CASE ReceiveReturn(c)
  BY <1>3 DEF ReceiveReturn, TypeOK, ConsumerSteps, groupVars
<1>4. CASE DeadLetterUpdate(c)
  <2>1. /\ current[c].group \in Groups /\ current[c].generation \in Generations
        /\ deadLetters[c] \in Seq(1..sent)
    BY <1>4 DEF DeadLetterUpdate, TypeOK
  <2>2. /\ heap' \in [Generations -> [Groups -> SUBSET (1..sent)]]
        /\ groupQueue' \in Seq([group : Groups, generation : Generations])
        /\ inflightGroups' \subseteq Groups
    BY <1>4, <2>1, UpdateTyped DEF DeadLetterUpdate
  <2>3. QueueTyped'
    BY <1>4, <2>2 DEF QueueTyped, DeadLetterUpdate, TypeOK
  <2>4. deadLetters[c] # <<>>
    BY <1>4 DEF DeadLetterUpdate
  <2>5. ListsTyped'
    <3>1. Tail(deadLetters[c]) \in Seq(1..sent)
      BY <2>1, <2>4, SeqElements
    <3> QED BY <1>4, <3>1 DEF ListsTyped, DeadLetterUpdate, TypeOK
  <2>6. SendTyped' /\ MessagesTyped'
    BY <1>4 DEF SendTyped, MessagesTyped, DeadLetterUpdate, TypeOK
  <2>7. ControlTyped'
    <3>1. mistaken' \subseteq Groups
      BY <1>4 DEF DeadLetterUpdate, BecomesVisible, TypeOK
    <3> QED BY <1>4, <2>1, <3>1 DEF ControlTyped, DeadLetterUpdate, TypeOK,
                ConsumerSteps
  <2> QED BY <2>3, <2>5, <2>6, <2>7, TypeParts
<1> QED BY <1>1, <1>2, <1>3, <1>4

\* Deletes and changes of a visibility timeout keep the types.
LEMMA ClientTyped ==
    ASSUME TypeOK, NEW h \in issued,
           Remove(h) \/ RemoveKeyError(h)
           \/ \E zero \in BOOLEAN : UpdateVisibilityTimeout(h, zero)
    PROVE  TypeOK'
<1> USE DEF messageVars, receiptVars, clockVars, sendVars, dlqVars, workerVars,
            resultVars, callVars, history
<1>1. h[1] \in Messages
  BY DEF TypeOK, Handles
<1>2. inflight \in Seq(1..sent) /\ generation \in Generations
  BY DEF TypeOK
<1>3. Without(inflight, h[1]) \in Seq(1..sent)
  BY <1>2, KeyRemoved
<1>4. CASE Remove(h)
  <2>1. /\ heap' \in [Generations -> [Groups -> SUBSET (1..sent)]]
        /\ groupQueue' \in Seq([group : Groups, generation : Generations])
        /\ inflightGroups' \subseteq Groups
    BY <1>2, <1>4, UpdateTyped DEF Remove
  <2>2. QueueTyped'
    BY <1>3, <1>4, <2>1 DEF QueueTyped, Remove, TypeOK
  <2>3. MessagesTyped'
    BY <1>1, <1>4 DEF MessagesTyped, Remove, TypeOK
  <2>4. SendTyped' /\ ControlTyped' /\ ListsTyped'
    BY <1>4 DEF SendTyped, ControlTyped, ListsTyped, Remove, TypeOK
  <2> QED BY <2>2, <2>3, <2>4, TypeParts
<1>5. CASE RemoveKeyError(h)
  BY <1>1, <1>5 DEF RemoveKeyError, TypeOK, groupVars
<1>6. ASSUME NEW zero \in BOOLEAN, UpdateVisibilityTimeout(h, zero)
      PROVE  TypeOK'
  <2>1. h[1] \in 1..sent
    BY <1>2, <1>6, SeqElements DEF UpdateVisibilityTimeout
  <2>2. QueueTyped' /\ hidden' \subseteq Messages
    <3>1. CASE UNCHANGED <<inflight, groupVars>> /\ hidden' = hidden \cup {h[1]}
      BY <1>1, <1>6, <3>1 DEF UpdateVisibilityTimeout, QueueTyped, TypeOK, groupVars
    <3>2. CASE /\ inflight' = Without(inflight, h[1])
               /\ PutMessage(h[1], generation)
               /\ hidden' = hidden \ {h[1]}
      <4>1. /\ heap' \in [Generations -> [Groups -> SUBSET (1..sent)]]
            /\ groupQueue' \in Seq([group : Groups, generation : Generations])
            /\ inflightGroups' \subseteq Groups
        BY <1>2, <2>1, <3>2, PutMessageTyped
      <4> QED BY <1>3, <1>6, <3>2, <4>1 DEF UpdateVisibilityTimeout, QueueTyped, TypeOK
    <3> QED BY <1>6, <3>1, <3>2 DEF UpdateVisibilityTimeout
  <2>3. MessagesTyped'
    BY <1>6, <2>2 DEF MessagesTyped, UpdateVisibilityTimeout, TypeOK
  <2>4. SendTyped' /\ ControlTyped' /\ ListsTyped'
    BY <1>6 DEF SendTyped, ControlTyped, ListsTyped, UpdateVisibilityTimeout, TypeOK
  <2> QED BY <2>2, <2>3, <2>4, TypeParts
<1> QED BY <1>4, <1>5, <1>6

\* A purge begins a generation of group objects within the bound on purges.
LEMMA ClearTyped ==
    ASSUME TypeOK, Clear
    PROVE  TypeOK'
<1>1. /\ 1..sent \subseteq Messages
      /\ Range(inflight) \subseteq 1..sent /\ delayed \subseteq 1..sent
      /\ \A g \in Groups : heap[generation][g] \subseteq 1..sent
  <2>1. inflight \in Seq(1..sent)
    BY DEF TypeOK
  <2>2. Range(inflight) \subseteq 1..sent
    BY <2>1, SeqElements
  <2>3. 1..sent \subseteq Messages
    BY FifoAssumption DEF TypeOK, Messages
  <2> QED BY <2>2, <2>3 DEF TypeOK
<1>2. purged' \subseteq Messages
  <2>1. UNION {heap[generation][g] : g \in Groups} \subseteq Messages
    BY <1>1
  <2>2. purged \subseteq Messages
    BY DEF TypeOK
  <2> QED BY <1>1, <2>1, <2>2 DEF Clear
<1>3. generation' \in Generations
  BY FifoAssumption DEF Clear, TypeOK, Generations
<1> QED BY <1>2, <1>3 DEF Clear, messageVars, clockVars, sendVars, dlqVars, workerVars,
           resultVars, callVars, history, TypeOK

\* The passes of the update worker keep the types.
LEMMA WorkerTyped ==
    ASSUME TypeOK, EnqueueStart \/ RemoveExpired
                   \/ \E m \in Messages : RequeueInflight(m) \/ EnqueueDelayed(m)
    PROVE  TypeOK'
<1> USE DEF messageVars, receiptVars, clockVars, sendVars, dlqVars, workerVars,
            resultVars, callVars, history, WorkerSteps
<1>1. CASE EnqueueStart
  <2>1. due' \in 0..sent
    BY <1>1 DEF EnqueueStart, TypeOK
  <2>2. scan' \subseteq 1..sent
    BY <1>1 DEF EnqueueStart, TypeOK
  <2> QED BY <1>1, <2>1, <2>2 DEF EnqueueStart, TypeOK, groupVars
<1>2. CASE RemoveExpired
  <2>1. heap' \in [Generations -> [Groups -> SUBSET (1..sent)]]
    BY <1>2 DEF RemoveExpired, TypeOK
  <2>2. expired' \subseteq Messages
    <3>1. 1..sent \subseteq Messages
      BY FifoAssumption DEF TypeOK, Messages
    <3>2. \A g \in Groups : heap[generation][g] \subseteq Messages
      BY <3>1 DEF TypeOK
    <3> QED BY <1>2, <3>2 DEF RemoveExpired, TypeOK
  <2> QED BY <1>2, <2>1, <2>2 DEF RemoveExpired, TypeOK
<1>3. ASSUME NEW m \in Messages, RequeueInflight(m) PROVE TypeOK'
  <2>1. inflight \in Seq(1..sent) /\ inflight # <<>> /\ m = Head(inflight)
    BY <1>3 DEF RequeueInflight, RequeueNext, TypeOK
  <2>2. m \in 1..sent /\ Without(inflight, m) \in Seq(1..sent)
    BY <2>1, SeqElements, KeyRemoved
  <2>3. /\ heap' \in [Generations -> [Groups -> SUBSET (1..sent)]]
        /\ groupQueue' \in Seq([group : Groups, generation : Generations])
        /\ inflightGroups' \subseteq Groups
    BY <1>3, <2>2, PutMessageTyped DEF RequeueInflight, TypeOK
  <2> QED BY <1>3, <2>2, <2>3 DEF RequeueInflight, TypeOK
<1>4. ASSUME NEW m \in Messages, EnqueueDelayed(m) PROVE TypeOK'
  <2>1. m \in 1..sent
    BY <1>4 DEF EnqueueDelayed, TypeOK
  <2>2. /\ heap' \in [Generations -> [Groups -> SUBSET (1..sent)]]
        /\ groupQueue' \in Seq([group : Groups, generation : Generations])
        /\ inflightGroups' \subseteq Groups
    BY <1>4, <2>1, PutMessageTyped DEF EnqueueDelayed, TypeOK
  <2> QED BY <1>4, <2>2 DEF EnqueueDelayed, TypeOK
<1> QED BY <1>1, <1>2, <1>3, <1>4

\* A stutter keeps the types.
LEMMA UnchangedTyped ==
    ASSUME TypeOK, UNCHANGED vars
    PROVE  TypeOK'
  BY DEF vars, groupVars, messageVars, receiptVars, clockVars, sendVars, dlqVars,
         workerVars, resultVars, callVars, history, TypeOK

\* Every step keeps the types.
LEMMA StepTyped == TypeOK /\ [Next]_vars => TypeOK'
  BY PutCreateTyped, PutStoreTyped, PlainTyped, GetGroupTyped, MarkTyped,
     PopEmptyTyped, PopTyped, FinishTyped, DeadLetterTyped, ClientTyped, ClearTyped,
     WorkerTyped, UnchangedTyped
     DEF Next, Receive, Worker

\* Every state of a FIFO queue is well typed: groups hold messages that were
\* sent, a receive that pops has taken a group off the queue of groups, and
\* whatever is in flight or in a receive's hands was sent.
THEOREM TypeCorrect == Spec => []TypeOK
  BY InitTyped, StepTyped, PTL DEF Spec

-----------------------------------------------------------------------------
(* First deliveries follow the order of sending                            *)

\* A step that sends, settles and purges nothing, and at most puts a message
\* back into its group.
CalmStep ==
    /\ UNCHANGED <<sendVars, group, generation, receiveCount, purged, expired>>
    /\ \/ UNCHANGED heap
       \/ \E m \in 1..sent :
             heap' = [heap EXCEPT ![generation][group[m]] = @ \cup {m}]

\* Every other step than these five kinds is calm.
LEMMA OrderCases ==
    ASSUME TypeOK, [Next]_vars
    PROVE  \/ CalmStep
           \/ \E g \in Groups : PutCreate(g)
           \/ \E m \in Messages : PutStore(m)
           \/ \E c \in Consumers, m \in Messages : ReceivePop(c, m)
           \/ Clear
           \/ RemoveExpired
<1> USE DEF groupVars, messageVars, history
<1>1. ASSUME NEW c \in Consumers, ReceiveFinish(c) PROVE CalmStep
  <2>1. PICK m : m = Head(successful[c])
    OBVIOUS
  <2>2. successful[c] \in Seq(1..sent) /\ successful[c] # <<>>
    BY <1>1 DEF ReceiveFinish, TypeOK
  <2>3. m \in 1..sent
    BY <2>1, <2>2, SeqElements
  <2>4. \/ UNCHANGED heap
        \/ heap' = [heap EXCEPT ![generation][group[m]] = @ \cup {m}]
    BY <1>1, <2>1 DEF ReceiveFinish, PutMessage
  <2> QED BY <1>1, <2>3, <2>4 DEF ReceiveFinish, CalmStep
<1>2. ASSUME NEW h \in issued, NEW zero \in BOOLEAN, UpdateVisibilityTimeout(h, zero)
      PROVE  CalmStep
  <2>1. inflight \in Seq(1..sent) /\ h[1] \in Range(inflight)
    BY <1>2 DEF UpdateVisibilityTimeout, TypeOK
  <2>2. h[1] \in 1..sent
    BY <2>1, SeqElements
  <2> QED BY <1>2, <2>2 DEF UpdateVisibilityTimeout, PutMessage, CalmStep
<1>3. ASSUME NEW m \in Messages, RequeueInflight(m) PROVE CalmStep
  <2>1. inflight \in Seq(1..sent) /\ inflight # <<>> /\ m = Head(inflight)
    BY <1>3 DEF RequeueInflight, RequeueNext, TypeOK
  <2>2. m \in 1..sent
    BY <2>1, SeqElements
  <2> QED BY <1>3, <2>2 DEF RequeueInflight, PutMessage, CalmStep
<1>4. ASSUME NEW m \in Messages, EnqueueDelayed(m) PROVE CalmStep
  <2>1. m \in 1..sent
    BY <1>4 DEF EnqueueDelayed, TypeOK
  <2> QED BY <1>4, <2>1 DEF EnqueueDelayed, PutMessage, CalmStep
<1>5. ASSUME NEW h \in issued, Remove(h) \/ RemoveKeyError(h) PROVE CalmStep
  BY <1>5 DEF Remove, RemoveKeyError, UpdateMessageGroupVisibility, CalmStep
<1>6. ASSUME NEW c \in Consumers,
             \/ ReceiveGetGroup(c) \/ ReceiveEmpty(c) \/ ReceiveCheckGroup(c)
             \/ ReceiveMarkGroup(c) \/ ReceivePopEmpty(c) \/ ReceiveFinishNone(c)
             \/ DeadLetterLookup(c) \/ DeadLetterPut(c) \/ DeadLetterUpdate(c)
             \/ ReceiveReturn(c)
             \/ \E zero \in BOOLEAN : ReceiveStart(c, zero)
      PROVE  CalmStep
  BY <1>6 DEF ReceiveGetGroup, ReceiveEmpty, ReceiveCheckGroup, ReceiveMarkGroup,
         ReceivePopEmpty, ReceiveFinishNone, DeadLetterLookup, DeadLetterPut,
         DeadLetterUpdate, ReceiveReturn, ReceiveStart, UpdateMessageGroupVisibility, CalmStep
<1>7. ASSUME \/ \E m \in Messages : VisibilityElapses(m)
             \/ DelayElapses \/ Age \/ DeleteDlq \/ RequeueDone \/ EnqueueStart
             \/ EnqueueFails \/ EnqueueDone
      PROVE  CalmStep
  BY <1>7 DEF VisibilityElapses, DelayElapses, Age, DeleteDlq, RequeueDone,
         EnqueueStart, EnqueueFails, EnqueueDone, CalmStep
<1>8. CASE UNCHANGED vars
  BY <1>8 DEF vars, sendVars, CalmStep
<1> QED BY <1>1, <1>2, <1>3, <1>4, <1>5, <1>6, <1>7, <1>8 DEF Next, Receive, Worker

\* Without a delay, no put and no pass of the worker delays a message.
LEMMA NothingDelayedStep ==
    ASSUME Delay = FALSE, TypeOK, NothingDelayed, [Next]_vars
    PROVE  NothingDelayed'
<1> USE DEF NothingDelayed, workerVars
<1>1. ASSUME NEW m \in Messages, PutStore(m) PROVE NothingDelayed'
  BY <1>1 DEF PutStore, IsDelayed
<1>2. CASE EnqueueStart
  BY <1>2 DEF EnqueueStart
<1>3. ASSUME NEW m \in Messages, EnqueueDelayed(m) PROVE NothingDelayed'
  BY <1>3 DEF EnqueueDelayed
<1>4. CASE Clear
  BY <1>4 DEF Clear
<1>5. ASSUME NEW c \in Consumers, Receive(c) PROVE NothingDelayed'
  BY <1>5 DEF Receive, ReceiveGetGroup, ReceiveEmpty, ReceiveCheckGroup,
         ReceiveMarkGroup, ReceivePop, ReceivePopEmpty, ReceiveFinish,
         ReceiveFinishNone, DeadLetterLookup, DeadLetterPut, DeadLetterUpdate,
         ReceiveReturn
<1>6. ASSUME NEW h \in issued,
             \/ Remove(h) \/ RemoveKeyError(h)
             \/ \E zero \in BOOLEAN : UpdateVisibilityTimeout(h, zero)
      PROVE  NothingDelayed'
  BY <1>6 DEF Remove, RemoveKeyError, UpdateVisibilityTimeout
<1>7. ASSUME \/ \E g \in Groups : PutCreate(g)
             \/ \E m \in Messages : VisibilityElapses(m) \/ RequeueInflight(m)
             \/ DelayElapses \/ Age \/ DeleteDlq \/ RequeueDone
             \/ EnqueueFails \/ EnqueueDone \/ RemoveExpired
             \/ \E c \in Consumers, zero \in BOOLEAN : ReceiveStart(c, zero)
      PROVE  NothingDelayed'
  BY <1>7 DEF PutCreate, VisibilityElapses, RequeueInflight, DelayElapses, Age,
         DeleteDlq, RequeueDone, EnqueueFails, EnqueueDone, RemoveExpired, ReceiveStart
<1>8. CASE UNCHANGED vars
  BY <1>8 DEF vars
<1> QED BY <1>1, <1>2, <1>3, <1>4, <1>5, <1>6, <1>7, <1>8 DEF Next, Worker

\* What appending adds.
LEMMA AppendElements ==
    ASSUME NEW S, NEW s \in Seq(S), NEW e \in S
    PROVE  /\ Range(Append(s, e)) \subseteq Range(s) \cup {e}
           /\ Range(s) \cup {e} \subseteq Range(Append(s, e))
<1>1. /\ Len(s) \in Nat /\ DOMAIN s = 1..Len(s)
      /\ DOMAIN Append(s, e) = 1..(Len(s) + 1)
      /\ Append(s, e)[Len(s) + 1] = e
      /\ \A i \in 1..Len(s) : Append(s, e)[i] = s[i]
  OBVIOUS
<1>2. \A i \in 1..Len(s) : i \in 1..(Len(s) + 1)
  BY <1>1
<1>3. /\ Len(s) + 1 \in 1..(Len(s) + 1)
      /\ \A i \in 1..(Len(s) + 1) : i \in 1..Len(s) \/ i = Len(s) + 1
  BY <1>1
<1>4. Range(s) \cup {e} \subseteq Range(Append(s, e))
  BY <1>1, <1>2, <1>3 DEF Range
<1>5. Range(Append(s, e)) \subseteq Range(s) \cup {e}
  BY <1>1, <1>3 DEF Range
<1> QED BY <1>4, <1>5

\* Handles are made of messages that were counted, and counts only grow.
LEMMA HandlesStep ==
    ASSUME TypeOK, HandlesOfReceived, [Next]_vars
    PROVE  HandlesOfReceived'
<1> USE DEF callVars, resultVars, messageVars
<1>1. ASSUME NEW c \in Consumers, NEW m \in Messages, ReceivePop(c, m)
      PROVE  HandlesOfReceived'
  <2>1. m \in 1..sent
    BY <1>1 DEF ReceivePop, Holds, TypeOK, IsFirst, CurrentHeap
  <2>2. successful[c] \in Seq(1..sent)
    BY DEF TypeOK
  <2>3. Range(Append(successful[c], m)) \subseteq Range(successful[c]) \cup {m}
    BY <2>1, <2>2, AppendElements
  <2>4. receiveCount \in [Messages -> Nat] /\ receiveCount[m] + 1 > 0
        /\ receiveCount[m] + 1 \in Nat
    BY DEF TypeOK
  <2>5. CASE m \in deleted
    BY <1>1, <2>5 DEF ReceivePop, HandlesOfReceived
  <2>6. CASE m \notin deleted
    <3>1. receiveCount' = [receiveCount EXCEPT ![m] = receiveCount[m] + 1]
      BY <1>1, <2>6 DEF ReceivePop
    <3>2. /\ receiveCount'[m] > 0
          /\ \A x \in Messages : receiveCount[x] > 0 => receiveCount'[x] > 0
      BY <2>4, <3>1
    <3>3. \A d \in Consumers : Range(successful'[d]) \subseteq Range(successful[d]) \cup {m}
      BY <1>1, <2>3, <2>6 DEF ReceivePop, TypeOK
    <3>4. issued' = issued /\ result' = result /\ deleted' = deleted
      BY <1>1 DEF ReceivePop
    <3>5. /\ \A h \in issued : h[1] \in Messages
          /\ \A d \in Consumers : \A h \in result[d] : h[1] \in Messages
          /\ deleted \subseteq Messages
      BY DEF TypeOK, Handles
    <3>6. \A d \in Consumers : Range(successful[d]) \subseteq Messages
      <4>1. 1..sent \subseteq Messages
        BY FifoAssumption DEF TypeOK, Messages
      <4>2. \A d \in Consumers : successful[d] \in Seq(1..sent)
        BY DEF TypeOK
      <4>3. \A d \in Consumers : Range(successful[d]) \subseteq 1..sent
        BY <4>2, SeqElements
      <4> QED BY <4>1, <4>3
    <3>7. \A d \in Consumers : \A x \in Range(successful'[d]) : receiveCount'[x] > 0
      BY <3>2, <3>3, <3>6 DEF HandlesOfReceived
    <3> QED BY <3>2, <3>4, <3>5, <3>7 DEF HandlesOfReceived
  <2> QED BY <2>5, <2>6
<1>2. ASSUME NEW c \in Consumers, ReceiveFinish(c) PROVE HandlesOfReceived'
  <2>1. PICK m : m = Head(successful[c])
    OBVIOUS
  <2>2. successful[c] \in Seq(1..sent) /\ successful[c] # <<>>
    BY <1>2 DEF ReceiveFinish, TypeOK
  <2>3. m \in Range(successful[c])
        /\ Range(Tail(successful[c])) \subseteq Range(successful[c])
    BY <2>1, <2>2, SeqElements
  <2>4. /\ result' = [result EXCEPT ![c] = @ \cup {<<m, receiveCount[m]>>}]
        /\ successful' = [successful EXCEPT ![c] = Tail(@)]
        /\ issued' = issued /\ deleted' = deleted /\ receiveCount' = receiveCount
    BY <1>2, <2>1 DEF ReceiveFinish
  <2> QED BY <2>3, <2>4 DEF HandlesOfReceived, TypeOK
<1>3. ASSUME NEW c \in Consumers, DeadLetterLookup(c) \/ ReceiveReturn(c)
      PROVE  HandlesOfReceived'
  BY <1>3 DEF DeadLetterLookup, ReceiveReturn, HandlesOfReceived, TypeOK
<1>4. ASSUME NEW h \in issued, Remove(h) \/ RemoveKeyError(h)
      PROVE  HandlesOfReceived'
  BY <1>4 DEF Remove, RemoveKeyError, HandlesOfReceived
<1>5. ASSUME UNCHANGED <<issued, result, successful, deleted, receiveCount>>
      PROVE  HandlesOfReceived'
  BY <1>5 DEF HandlesOfReceived
<1>6. ASSUME \/ \E g \in Groups : PutCreate(g)
             \/ \E m \in Messages : PutStore(m) \/ VisibilityElapses(m)
             \/ DelayElapses \/ Age \/ Clear \/ DeleteDlq \/ Worker
             \/ \E c \in Consumers, zero \in BOOLEAN : ReceiveStart(c, zero)
      PROVE  HandlesOfReceived'
  BY <1>5, <1>6 DEF PutCreate, PutStore, VisibilityElapses, DelayElapses, Age, Clear,
         DeleteDlq, Worker, RequeueInflight, EnqueueDelayed, RequeueDone,
         EnqueueStart, EnqueueFails, EnqueueDone, RemoveExpired, ReceiveStart
<1>7. ASSUME NEW c \in Consumers,
             \/ ReceiveGetGroup(c) \/ ReceiveEmpty(c) \/ ReceiveCheckGroup(c)
             \/ ReceiveMarkGroup(c) \/ ReceivePopEmpty(c) \/ ReceiveFinishNone(c)
             \/ DeadLetterPut(c) \/ DeadLetterUpdate(c)
      PROVE  HandlesOfReceived'
  BY <1>5, <1>7 DEF ReceiveGetGroup, ReceiveEmpty, ReceiveCheckGroup,
         ReceiveMarkGroup, ReceivePopEmpty, ReceiveFinishNone, DeadLetterPut,
         DeadLetterUpdate
<1>8. ASSUME NEW h \in issued, NEW zero \in BOOLEAN, UpdateVisibilityTimeout(h, zero)
      PROVE  HandlesOfReceived'
  BY <1>5, <1>8 DEF UpdateVisibilityTimeout
<1>9. CASE UNCHANGED vars
  BY <1>5, <1>9 DEF vars
<1> QED BY <1>1, <1>2, <1>3, <1>4, <1>6, <1>7, <1>8, <1>9 DEF Next, Receive

\* The parts of the invariant that speak of order.
OrderParts ==
    /\ BeforeStored /\ GroupsHoldTheirOwn /\ NoFutureGroups /\ UnsettledWaits
    /\ UnsentNotReceived /\ LeftBehind /\ FirstDeliveryInOrder

\* A calm step leaves settled what is settled, and nothing is first delivered.
LEMMA CalmOrder ==
    ASSUME OrderInv, CalmStep
    PROVE  OrderParts'
<1>1. /\ sent' = sent /\ creating' = creating /\ before' = before
      /\ group' = group /\ generation' = generation
      /\ receiveCount' = receiveCount /\ purged' = purged /\ expired' = expired
  BY DEF CalmStep, sendVars
<1>2. \A x : Settled(x)' <=> Settled(x)
  BY <1>1 DEF Settled
<1>3. \A x : Stored(x)' <=> Stored(x)
  BY <1>1 DEF Stored
<1>4. \A y : MayBeFirst(y)' <=> MayBeFirst(y)
  BY <1>1, <1>2 DEF MayBeFirst
<1>5. /\ heap \in [Generations -> [Groups -> SUBSET (1..sent)]]
      /\ generation \in Generations /\ generation \in Int
      /\ \A m \in 1..sent : group[m] \in Groups
  BY FifoAssumption DEF OrderInv, TypeOK, Messages, Generations
<1>6. \A k \in Generations, g \in Groups :
        /\ heap[k][g] \subseteq heap'[k][g]
        /\ k # generation => heap'[k][g] = heap[k][g]
        /\ \A m \in heap'[k][g] : m \in heap[k][g] \/ group[m] = g
  BY <1>5 DEF CalmStep
<1>7. BeforeStored'
  BY <1>1, <1>3 DEF BeforeStored, OrderInv
<1>8. GroupsHoldTheirOwn'
  BY <1>1, <1>6 DEF GroupsHoldTheirOwn, OrderInv
<1>9. UnsettledWaits'
  BY <1>1, <1>2, <1>3, <1>5, <1>6 DEF UnsettledWaits, OrderInv
<1>10. LeftBehind'
  <2>1. \A k \in Generations : k < generation => k # generation
    BY <1>5 DEF Generations
  <2> QED BY <1>1, <1>4, <1>6, <2>1 DEF LeftBehind, OrderInv
<1>11. FirstDeliveryInOrder' /\ UnsentNotReceived'
  BY <1>1 DEF FirstDeliveryInOrder, UnsentNotReceived, OrderInv
<1>12. NoFutureGroups'
  <2>1. \A k \in Generations : k > generation => k # generation
    BY <1>5 DEF Generations
  <2> QED BY <1>1, <1>6, <2>1 DEF NoFutureGroups, OrderInv
<1> QED BY <1>7, <1>8, <1>9, <1>10, <1>11, <1>12 DEF OrderParts

\* What was sent before a new message is stored, and nothing was sent after it.
LEMMA PutCreateOrder ==
    ASSUME OrderInv, NEW g \in Groups, PutCreate(g)
    PROVE  OrderParts'
<1>1. PICK n : n = sent + 1
  OBVIOUS
<1>2. /\ sent \in Nat /\ n \in Messages /\ sent' = n /\ n > sent
      /\ \A x \in 1..sent : x \in Messages /\ x # n /\ x < n
      /\ \A x \in 1..n : x \in 1..sent \/ x = n
  BY <1>1, FifoAssumption DEF OrderInv, TypeOK, PutCreate, Messages
<1>3. /\ group' = [group EXCEPT ![n] = g]
      /\ creating' = creating \cup {<<n, generation>>}
      /\ before' = [before EXCEPT ![n] = {x \in 1..sent : group[x] = g /\ Stored(x)}]
      /\ heap' = heap /\ generation' = generation /\ receiveCount' = receiveCount
      /\ purged' = purged /\ expired' = expired
  BY <1>1 DEF PutCreate, Stored, groupVars, history
<1>4. /\ group \in [Messages -> Groups \cup {NoGroup}]
      /\ before \in [Messages -> SUBSET (1..sent)]
      /\ creating \subseteq (1..sent) \X Generations
      /\ heap \in [Generations -> [Groups -> SUBSET (1..sent)]]
      /\ generation \in Int
  BY DEF OrderInv, TypeOK, Generations
<1>5. /\ group'[n] = g /\ before'[n] = {x \in 1..sent : group[x] = g /\ Stored(x)}
      /\ \A x \in 1..sent : group'[x] = group[x] /\ before'[x] = before[x]
  BY <1>2, <1>3, <1>4
<1>6. /\ \A x \in 1..sent : Stored(x)' <=> Stored(x)
      /\ ~Stored(n)'
  <2>1. <<n, generation>>[1] = n
    OBVIOUS
  <2>2. \A x : Stored(x)' <=> Stored(x) /\ x # n
    BY <1>3, <2>1 DEF Stored
  <2> QED BY <1>2, <2>2
<1>7. \A x : Settled(x)' <=> Settled(x)
  BY <1>3 DEF Settled
<1>8. \A y \in 1..sent : MayBeFirst(y)' <=> MayBeFirst(y)
  BY <1>5, <1>7 DEF MayBeFirst
<1>9. BeforeStored'
  <2>1. \A y \in 1..sent : before[y] \subseteq 1..sent
    BY <1>2, <1>4
  <2>2. ASSUME NEW y \in 1..sent, NEW x \in before'[y]
        PROVE  x < y /\ group'[x] = group'[y] /\ Stored(x)'
    BY <1>5, <1>6, <2>1, <2>2 DEF OrderInv, BeforeStored
  <2>3. ASSUME NEW x \in before'[n]
        PROVE  x < n /\ group'[x] = group'[n] /\ Stored(x)'
    BY <1>2, <1>5, <1>6, <2>3
  <2> QED BY <1>2, <2>2, <2>3 DEF BeforeStored
<1>10. GroupsHoldTheirOwn'
  <2>1. \A k \in Generations, h \in Groups : \A m \in heap[k][h] :
            group[m] = h /\ m \in 1..sent
    BY <1>4 DEF OrderInv, GroupsHoldTheirOwn
  <2> QED BY <1>3, <1>5, <2>1 DEF GroupsHoldTheirOwn
<1>11. UnsettledWaits'
  <2>1. \A x \in 1..sent : Stored(x) =>
            Settled(x) \/ x \in heap[generation][group[x]]
    BY DEF OrderInv, UnsettledWaits
  <2>2. \A x \in 1..n : Stored(x)' =>
            Settled(x)' \/ x \in heap[generation][group'[x]]
    BY <1>2, <1>5, <1>6, <1>7, <2>1
  <2> QED BY <1>2, <1>3, <2>2 DEF UnsettledWaits
<1>12. LeftBehind'
  <2>1. \A k \in Generations, h \in Groups : k < generation =>
            \A y \in heap[k][h] : MayBeFirst(y)'
    BY <1>4, <1>8 DEF OrderInv, LeftBehind
  <2>2. \A p \in creating : p[1] \in 1..sent
    BY <1>4
  <2>3. \A p \in creating : p[2] < generation => MayBeFirst(p[1])'
    BY <1>8, <2>2 DEF OrderInv, LeftBehind
  <2>4. ~(<<n, generation>>[2] < generation)
    BY <1>4
  <2> QED BY <1>3, <2>1, <2>3, <2>4 DEF LeftBehind
<1>13. UnsentNotReceived'
  <2>1. \A m \in Messages : m > n => m > sent
    BY <1>2 DEF Messages
  <2> QED BY <1>2, <1>3, <2>1 DEF OrderInv, UnsentNotReceived
<1>14. FirstDeliveryInOrder'
  <2>1. \A y \in 1..sent : receiveCount[y] > 0 => MayBeFirst(y)'
    BY <1>8 DEF OrderInv, FirstDeliveryInOrder, MayBeFirst, Settled
  <2>2. ~(receiveCount[n] > 0)
    BY <1>2 DEF OrderInv, UnsentNotReceived
  <2>3. \A y \in 1..n : receiveCount[y] > 0 => MayBeFirst(y)'
    BY <1>2, <2>1, <2>2
  <2> QED BY <1>2, <1>3, <2>3 DEF FirstDeliveryInOrder, MayBeFirst, Settled
<1>15. NoFutureGroups'
  BY <1>3 DEF NoFutureGroups, OrderInv
<1> QED BY <1>9, <1>10, <1>11, <1>12, <1>13, <1>14, <1>15 DEF OrderParts

\* A put stores its message in the current object of the group, or in one that a
\* purge left behind, from where it overtakes nothing.
LEMMA PutStoreOrder ==
    ASSUME OrderInv, Delay = FALSE, NEW m \in Messages, PutStore(m)
    PROVE  OrderParts'
<1>0. PICK from \in Generations :
        /\ <<m, from>> \in creating
        /\ creating' = creating \ {<<m, from>>}
        /\ \E k \in from..generation :
              /\ PutMessage(m, k)
              /\ purged' = IF k < generation THEN purged \cup {m} ELSE purged
  BY DEF PutStore, IsDelayed
<1>1. PICK k \in from..generation :
        /\ <<m, from>> \in creating
        /\ creating' = creating \ {<<m, from>>}
        /\ PutMessage(m, k)
        /\ purged' = IF k < generation THEN purged \cup {m} ELSE purged
  BY <1>0
<1>2. /\ sent' = sent /\ before' = before /\ group' = group
      /\ generation' = generation /\ receiveCount' = receiveCount
      /\ expired' = expired
  BY DEF PutStore, messageVars
<1>3. /\ heap \in [Generations -> [Groups -> SUBSET (1..sent)]]
      /\ k \in Generations /\ generation \in Generations
      /\ from <= k /\ from \in Int /\ generation \in Int /\ k \in Int
      /\ k < generation \/ k = generation
  BY FifoAssumption DEF OrderInv, TypeOK, Generations
<1>4. m \in 1..sent /\ group[m] \in Groups
  BY <1>1 DEF OrderInv, TypeOK
<1>5. heap' = [heap EXCEPT ![k][group[m]] = @ \cup {m}]
  BY <1>1 DEF PutMessage
<1>6. \A j \in Generations, g \in Groups :
        /\ heap[j][g] \subseteq heap'[j][g]
        /\ \A y \in heap'[j][g] : y \in heap[j][g] \/ (y = m /\ j = k /\ g = group[m])
  BY <1>3, <1>4, <1>5
<1>7. m \in heap'[k][group[m]]
  BY <1>3, <1>4, <1>5
<1>8. \A x : Settled(x) => Settled(x)'
  BY <1>1, <1>2 DEF Settled
<1>9. \A y : MayBeFirst(y) => MayBeFirst(y)'
  BY <1>2, <1>8 DEF MayBeFirst
<1>10. \A x : /\ Stored(x) => Stored(x)'
              /\ Stored(x)' => Stored(x) \/ x = m
  BY <1>1 DEF Stored
<1>11. BeforeStored' /\ UnsentNotReceived'
  BY <1>2, <1>10 DEF OrderInv, BeforeStored, UnsentNotReceived
<1>12. GroupsHoldTheirOwn'
  BY <1>2, <1>6 DEF OrderInv, GroupsHoldTheirOwn
<1>13. UnsettledWaits'
  <2>1. ASSUME NEW x \in 1..sent, Stored(x)', ~Settled(x)'
        PROVE  x \in heap'[generation][group[x]]
    <3>1. CASE x # m
      <4>1. Stored(x) /\ ~Settled(x)
        BY <1>8, <1>10, <2>1, <3>1
      <4>2. x \in heap[generation][group[x]]
        BY <4>1 DEF OrderInv, UnsettledWaits
      <4>3. group[x] \in Groups
        BY FifoAssumption DEF OrderInv, TypeOK, Messages
      <4> QED BY <1>3, <1>6, <4>2, <4>3
    <3>2. CASE x = m
      <4>1. ~(k < generation)
        BY <1>1, <2>1, <3>2 DEF Settled
      <4> QED BY <1>3, <1>7, <3>2, <4>1
    <3> QED BY <3>1, <3>2
  <2> QED BY <1>2, <2>1 DEF UnsettledWaits
<1>14. LeftBehind'
  <2>1. k < generation => MayBeFirst(m)
    <3>1. k < generation => from < generation
      BY <1>3
    <3>2. <<m, from>>[1] = m /\ <<m, from>>[2] = from
      OBVIOUS
    <3> QED BY <1>1, <3>1, <3>2 DEF OrderInv, LeftBehind
  <2>2. ASSUME NEW j \in Generations, NEW g \in Groups, j < generation,
               NEW y \in heap'[j][g]
        PROVE  MayBeFirst(y)'
    BY <1>6, <1>9, <2>1, <2>2 DEF OrderInv, LeftBehind
  <2>3. \A p \in creating' : p[2] < generation => MayBeFirst(p[1])'
    BY <1>1, <1>9 DEF OrderInv, LeftBehind
  <2> QED BY <1>2, <2>2, <2>3 DEF LeftBehind
<1>15. FirstDeliveryInOrder'
  <2>1. \A y \in 1..sent : receiveCount[y] > 0 => MayBeFirst(y)'
    BY <1>9 DEF OrderInv, FirstDeliveryInOrder, MayBeFirst, Settled
  <2> QED BY <1>2, <2>1 DEF FirstDeliveryInOrder, MayBeFirst, Settled
<1>16. NoFutureGroups'
  <2>1. ASSUME NEW j \in Generations, NEW g \in Groups, j > generation
        PROVE  heap'[j][g] = {}
    <3>1. j # k
      BY <1>3, <2>1 DEF Generations
    <3>2. heap[j][g] = {}
      BY <2>1 DEF OrderInv, NoFutureGroups
    <3> QED BY <1>6, <3>1, <3>2
  <2> QED BY <1>2, <2>1 DEF NoFutureGroups
<1> QED BY <1>11, <1>12, <1>13, <1>14, <1>15, <1>16 DEF OrderParts

\* A receive pops the smallest message: what was sent before it and is not
\* settled would be in the same heap, and smaller.
LEMMA PopOrder ==
    ASSUME OrderInv, NEW c \in Consumers, NEW m \in Messages, ReceivePop(c, m)
    PROVE  OrderParts'
<1>1. PICK k \in Generations, g \in Groups :
        /\ k = current[c].generation /\ g = current[c].group
        /\ IsFirst(m, heap[k][g])
        /\ heap' = [heap EXCEPT ![k][g] = @ \ {m}]
  BY DEF ReceivePop, Holds, OrderInv, TypeOK, CurrentHeap
<1>2. /\ sent' = sent /\ before' = before /\ group' = group /\ creating' = creating
      /\ generation' = generation /\ purged' = purged /\ expired' = expired
      /\ m \in deleted => receiveCount' = receiveCount
      /\ m \notin deleted =>
            receiveCount' = [receiveCount EXCEPT ![m] = receiveCount[m] + 1]
  BY DEF ReceivePop, sendVars, history
<1>3. /\ heap \in [Generations -> [Groups -> SUBSET (1..sent)]]
      /\ receiveCount \in [Messages -> Nat]
      /\ generation \in Generations /\ generation \in Int /\ k \in Int
      /\ sent \in Nat /\ 1..sent \subseteq Messages
      /\ \A x \in 1..sent : group[x] \in Groups
  BY FifoAssumption DEF OrderInv, TypeOK, Generations, Messages
<1>4. m \in heap[k][g] /\ m \in 1..sent /\ group[m] = g
  BY <1>1, <1>3 DEF IsFirst, OrderInv, GroupsHoldTheirOwn
<1>5. \A j \in Generations, h \in Groups :
        /\ heap'[j][h] \subseteq heap[j][h]
        /\ \A y \in heap[j][h] : y \in heap'[j][h] \/ y = m
  BY <1>1, <1>3
<1>6. /\ \A x \in Messages : receiveCount[x] > 0 => receiveCount'[x] > 0
      /\ receiveCount'[m] > 0
      /\ \A x \in Messages : x # m => receiveCount'[x] = receiveCount[x]
  <2>1. receiveCount[m] + 1 > 0
    BY <1>3
  <2>2. CASE m \in deleted
    <3>1. receiveCount[m] > 0
      BY <2>2 DEF OrderInv, HandlesOfReceived
    <3> QED BY <1>2, <2>2, <3>1
  <2>3. CASE m \notin deleted
    BY <1>2, <1>3, <2>1, <2>3
  <2> QED BY <2>2, <2>3
<1>7. \A x \in Messages : Settled(x) => Settled(x)'
  BY <1>2, <1>6 DEF Settled
<1>8. \A y \in 1..sent : MayBeFirst(y) => MayBeFirst(y)'
  <2>1. \A y \in 1..sent : before[y] \subseteq Messages
    BY <1>3 DEF OrderInv, TypeOK
  <2> QED BY <1>2, <1>7, <2>1 DEF MayBeFirst
<1>9. \A x : Stored(x)' <=> Stored(x)
  BY <1>2 DEF Stored
<1>10. BeforeStored' /\ GroupsHoldTheirOwn'
  BY <1>2, <1>5, <1>9 DEF OrderInv, BeforeStored, GroupsHoldTheirOwn
<1>11. UnsentNotReceived'
  <2>1. \A x \in Messages : x > sent => x # m
    BY <1>3, <1>4 DEF Messages
  <2> QED BY <1>2, <1>6, <2>1 DEF OrderInv, UnsentNotReceived
<1>12. UnsettledWaits'
  <2>1. ASSUME NEW x \in 1..sent, Stored(x), ~Settled(x)'
        PROVE  x \in heap'[generation][group[x]]
    <3>1. x # m
      BY <1>6, <2>1 DEF Settled
    <3> QED BY <1>3, <1>5, <1>7, <2>1, <3>1 DEF OrderInv, UnsettledWaits
  <2> QED BY <1>2, <1>9, <2>1 DEF UnsettledWaits
<1>13. LeftBehind'
  <2>1. \A p \in creating : p[1] \in 1..sent
    BY DEF OrderInv, TypeOK
  <2>2. \A p \in creating : p[2] < generation => MayBeFirst(p[1])'
    BY <1>8, <2>1 DEF OrderInv, LeftBehind
  <2>3. ASSUME NEW j \in Generations, NEW h \in Groups, j < generation,
               NEW y \in heap'[j][h]
        PROVE  MayBeFirst(y)'
    <3>1. y \in heap[j][h] /\ y \in 1..sent
      BY <1>3, <1>5
    <3> QED BY <1>8, <2>3, <3>1 DEF OrderInv, LeftBehind
  <2> QED BY <1>2, <2>2, <2>3 DEF LeftBehind
<1>14. MayBeFirst(m)
  <2>1. CASE k < generation
    BY <1>4, <2>1 DEF OrderInv, LeftBehind
  <2>2. CASE ~(k < generation)
    <3>1. k = generation
      <4>1. ~(k > generation)
        BY <1>4 DEF OrderInv, NoFutureGroups
      <4> QED BY <1>3, <2>2, <4>1
    <3>2. ASSUME NEW x \in before[m], ~Settled(x) PROVE FALSE
      <4>1. x \in 1..sent /\ x < m /\ group[x] = g /\ Stored(x)
        BY <1>3, <1>4, <3>2 DEF OrderInv, BeforeStored, TypeOK
      <4>2. x \in heap[k][g]
        BY <3>1, <3>2, <4>1 DEF OrderInv, UnsettledWaits
      <4>3. m <= x
        BY <1>1, <4>2 DEF IsFirst
      <4> QED BY <1>3, <1>4, <4>1, <4>3
    <3> QED BY <3>2 DEF MayBeFirst
  <2> QED BY <2>1, <2>2
<1>15. FirstDeliveryInOrder'
  <2>1. \A y \in 1..sent : receiveCount[y] > 0 => MayBeFirst(y)'
    BY <1>8 DEF OrderInv, FirstDeliveryInOrder, MayBeFirst, Settled
  <2>2. \A y \in 1..sent : receiveCount'[y] > 0 => MayBeFirst(y)'
    BY <1>3, <1>4, <1>6, <1>8, <1>14, <2>1
  <2> QED BY <1>2, <2>2 DEF FirstDeliveryInOrder, MayBeFirst, Settled
<1>16. NoFutureGroups'
  BY <1>2, <1>5 DEF OrderInv, NoFutureGroups
<1> QED BY <1>10, <1>11, <1>12, <1>13, <1>15, <1>16 DEF OrderParts

\* A purge settles every message that waits, so what it leaves behind may be
\* delivered at any time.
LEMMA ClearOrder ==
    ASSUME OrderInv, Clear
    PROVE  OrderParts'
<1>1. /\ sent' = sent /\ before' = before /\ group' = group /\ creating' = creating
      /\ heap' = heap /\ receiveCount' = receiveCount /\ expired' = expired
      /\ generation' = generation + 1
      /\ purged' = purged \cup delayed \cup Range(inflight)
                       \cup UNION {heap[generation][g] : g \in Groups}
  BY DEF Clear, sendVars, messageVars
<1>2. /\ generation \in Generations /\ generation \in Int
      /\ \A k \in Generations : k \in Int
      /\ \A x \in 1..sent : group[x] \in Groups
      /\ \A y \in 1..sent : before[y] \subseteq 1..sent
      /\ heap \in [Generations -> [Groups -> SUBSET (1..sent)]]
      /\ \A p \in creating : p[1] \in 1..sent
  BY FifoAssumption DEF OrderInv, TypeOK, Generations, Messages
<1>3. \A x : Settled(x) => Settled(x)'
  BY <1>1 DEF Settled
<1>4. \A x : Stored(x)' <=> Stored(x)
  BY <1>1 DEF Stored
<1>5. \A x \in 1..sent : Stored(x) => Settled(x)'
  <2>1. ASSUME NEW x \in 1..sent, x \in heap[generation][group[x]]
        PROVE  Settled(x)'
    <3>1. x \in purged'
      BY <1>1, <1>2, <2>1
    <3> QED BY <3>1 DEF Settled
  <2> QED BY <1>3, <2>1 DEF OrderInv, UnsettledWaits
<1>6. \A y \in 1..sent : MayBeFirst(y)'
  BY <1>1, <1>2, <1>5 DEF OrderInv, BeforeStored, MayBeFirst
<1>7. BeforeStored' /\ GroupsHoldTheirOwn' /\ UnsentNotReceived'
  BY <1>1, <1>4 DEF OrderInv, BeforeStored, GroupsHoldTheirOwn, UnsentNotReceived
<1>8. NoFutureGroups'
  <2>1. \A k \in Generations : k > generation + 1 => k > generation
    BY <1>2
  <2> QED BY <1>1, <2>1 DEF OrderInv, NoFutureGroups
<1>9. UnsettledWaits'
  BY <1>1, <1>4, <1>5 DEF UnsettledWaits
<1>10. LeftBehind'
  <2>1. \A k \in Generations, g \in Groups : \A y \in heap[k][g] : y \in 1..sent
    BY <1>2
  <2> QED BY <1>1, <1>2, <1>6, <2>1 DEF LeftBehind
<1>11. FirstDeliveryInOrder'
  BY <1>1, <1>6 DEF FirstDeliveryInOrder, MayBeFirst, Settled
<1> QED BY <1>7, <1>8, <1>9, <1>10, <1>11 DEF OrderParts

\* The retention pass settles what it removes.
LEMMA ExpireOrder ==
    ASSUME OrderInv, RemoveExpired
    PROVE  OrderParts'
<1>1. /\ sent' = sent /\ before' = before /\ group' = group /\ creating' = creating
      /\ receiveCount' = receiveCount /\ purged' = purged /\ generation' = generation
      /\ expired \subseteq expired'
  BY DEF RemoveExpired, sendVars, messageVars
<1>2. /\ generation \in Generations
      /\ \A x \in 1..sent : group[x] \in Groups
      /\ heap \in [Generations -> [Groups -> SUBSET (1..sent)]]
  BY FifoAssumption DEF OrderInv, TypeOK, Messages
<1>3. \A x : Settled(x) => Settled(x)'
  BY <1>1 DEF Settled
<1>4. \A y : MayBeFirst(y) => MayBeFirst(y)'
  BY <1>1, <1>3 DEF MayBeFirst
<1>5. \A x : Stored(x)' <=> Stored(x)
  BY <1>1 DEF Stored
<1>6. \A k \in Generations, g \in Groups :
        /\ heap'[k][g] \subseteq heap[k][g]
        /\ \A x \in heap[k][g] : x \in heap'[k][g] \/ x \in expired'
  <2>1. CASE UNCHANGED <<heap, expired>>
    BY <2>1
  <2>2. CASE /\ heap' = [heap EXCEPT ![generation] =
                            [g \in Groups |-> {m \in @[g] : m > aged}]]
             /\ expired' = expired \cup
                    {m \in UNION {heap[generation][g] : g \in Groups} : m <= aged}
    <3>1. \A k \in Generations, g \in Groups : k # generation =>
              heap'[k][g] = heap[k][g]
      BY <1>2, <2>2
    <3>2. \A g \in Groups :
              heap'[generation][g] = {m \in heap[generation][g] : m > aged}
      BY <1>2, <2>2
    <3>3. \A g \in Groups : \A x \in heap[generation][g] :
              x > aged \/ x \in expired'
      <4>1. aged \in Int /\ \A g \in Groups : \A x \in heap[generation][g] : x \in Int
        BY <1>2 DEF OrderInv, TypeOK
      <4>2. \A x \in Int : x > aged \/ x <= aged
        BY <4>1
      <4> QED BY <2>2, <4>1, <4>2
    <3> QED BY <3>1, <3>2, <3>3
  <2> QED BY <2>1, <2>2 DEF RemoveExpired
<1>7. BeforeStored' /\ GroupsHoldTheirOwn' /\ UnsentNotReceived' /\ NoFutureGroups'
  BY <1>1, <1>5, <1>6 DEF OrderInv, BeforeStored, GroupsHoldTheirOwn,
       UnsentNotReceived, NoFutureGroups
<1>8. UnsettledWaits'
  <2>1. ASSUME NEW x \in 1..sent, Stored(x), ~Settled(x)'
        PROVE  x \in heap'[generation][group[x]]
    <3>1. x \in heap[generation][group[x]] /\ x \notin expired'
      BY <1>3, <2>1 DEF OrderInv, UnsettledWaits, Settled
    <3> QED BY <1>2, <1>6, <3>1
  <2> QED BY <1>1, <1>5, <2>1 DEF UnsettledWaits
<1>9. LeftBehind'
  BY <1>1, <1>4, <1>6 DEF OrderInv, LeftBehind
<1>10. FirstDeliveryInOrder'
  <2>1. \A y \in 1..sent : receiveCount[y] > 0 => MayBeFirst(y)'
    BY <1>4 DEF OrderInv, FirstDeliveryInOrder, MayBeFirst, Settled
  <2> QED BY <1>1, <2>1 DEF FirstDeliveryInOrder, MayBeFirst, Settled
<1> QED BY <1>7, <1>8, <1>9, <1>10 DEF OrderParts

\* Nothing was sent yet.
LEMMA InitOrder == Init => OrderInv
<1> SUFFICES ASSUME Init PROVE OrderInv
  OBVIOUS
<1>1. TypeOK
  BY InitTyped
<1>2. /\ sent = 0 /\ generation = 0 /\ creating = {} /\ deleted = {} /\ issued = {}
      /\ heap = [k \in Generations |-> [g \in Groups |-> {}]]
      /\ receiveCount = [m \in Messages |-> 0]
      /\ successful = [c \in Consumers |-> <<>>]
      /\ result = [c \in Consumers |-> {}]
      /\ delayed = {} /\ scan = {}
  BY DEF Init
<1>3. 1..sent = {}
  BY <1>2
<1>4. \A c \in Consumers : Range(successful[c]) = {}
  BY <1>2 DEF Range
<1>5. HandlesOfReceived
  BY <1>2, <1>4 DEF HandlesOfReceived
<1>6. BeforeStored /\ UnsettledWaits /\ FirstDeliveryInOrder
  BY <1>3 DEF BeforeStored, UnsettledWaits, FirstDeliveryInOrder
<1>7. /\ GroupsHoldTheirOwn /\ NoFutureGroups /\ UnsentNotReceived /\ LeftBehind
      /\ NothingDelayed
  BY <1>2 DEF GroupsHoldTheirOwn, NoFutureGroups, UnsentNotReceived, LeftBehind,
       NothingDelayed
<1> QED BY <1>1, <1>5, <1>6, <1>7 DEF OrderInv

\* Every step of a queue without a delay keeps the invariant.
LEMMA OrderStep ==
    ASSUME Delay = FALSE, OrderInv, [Next]_vars
    PROVE  OrderInv'
<1>1. TypeOK' /\ NothingDelayed' /\ HandlesOfReceived'
  BY StepTyped, NothingDelayedStep, HandlesStep DEF OrderInv
<1>2. OrderParts'
  BY OrderCases, CalmOrder, PutCreateOrder, PutStoreOrder, PopOrder, ClearOrder,
     ExpireOrder DEF OrderInv
<1> QED BY <1>1, <1>2 DEF OrderInv, OrderParts

\* On a queue without a delay the first deliveries of a group's messages
\* follow the order of sending, although sequence numbers are given out before
\* the mutex is taken, groups are taken and marked without it, and a purge may
\* replace the group objects under a running put or receive.  With a delay it
\* is false: the worker may find a later message due before an earlier one.
THEOREM FirstDeliveriesOrdered ==
    ASSUME Delay = FALSE
    PROVE  Spec => []FirstDeliveryInOrder
<1>1. Init => OrderInv
  BY InitOrder
<1>2. OrderInv /\ [Next]_vars => OrderInv'
  BY OrderStep
<1>3. OrderInv => FirstDeliveryInOrder
  BY DEF OrderInv
<1> QED BY <1>1, <1>2, <1>3, PTL DEF Spec

-----------------------------------------------------------------------------
(* The inductive invariant of attended groups                              *)

\* A message in flight has been received.
InflightReceived == \A m \in Range(inflight) : receiveCount[m] > 0

\* A message that its put has not stored yet is nowhere else, and one put
\* creates it.
CreatingApart ==
    \A p \in creating :
        /\ receiveCount[p[1]] = 0
        /\ p[1] \notin delayed \cup scan
        /\ \A k \in Generations, g \in Groups : p[1] \notin heap[k][g]
        /\ \A q \in creating : q[1] = p[1] => q = p

\* The current object of group g is queued, or a receive has taken it off the
\* queue and is about to look at it or to mark it.
Offered(g) ==
    \/ Object(g, generation) \in Range(groupQueue)
    \/ \E c \in Consumers :
          pc[c] \in {"check", "mark"} /\ current[c] = Object(g, generation)

\* A group that has messages and is not marked is offered, unless its mark was
\* removed with an object from before a purge.
UnmarkedOffered ==
    \A g \in Groups : heap[generation][g] # {} =>
        g \in inflightGroups \/ Offered(g) \/ g \in mistaken

\* Something will unmark group g: a message in flight, or a receive that has
\* one or is about to pop.
Guarded(g) ==
    \/ \E m \in Range(inflight) : group[m] = g
    \/ \E c \in Consumers :
          \/ pc[c] \in {"pop", "popping"} /\ current[c].group = g
          \/ \E m \in Held(c) : group[m] = g

\* A marked group is guarded, but for the two exceptions.
MarkedGuarded ==
    \A g \in inflightGroups : Guarded(g) \/ ~dlqExists \/ g \in fruitless

\* The inductive invariant behind NoStrandedGroup.
StrandInv ==
    /\ TypeOK
    /\ GroupsHoldTheirOwn
    /\ NoFutureGroups
    /\ UnsentNotReceived
    /\ HandlesOfReceived
    /\ InflightReceived
    /\ CreatingApart
    /\ UnmarkedOffered
    /\ MarkedGuarded

\* What sequences keep when an element is taken off, removed or added.
LEMMA TailKeeps ==
    ASSUME NEW S, NEW s \in Seq(S), s # <<>>
    PROVE  Range(s) \subseteq {Head(s)} \cup Range(Tail(s))
<1>1. ASSUME NEW i \in 1..Len(s), i # 1 PROVE s[i] \in Range(Tail(s))
  <2>1. /\ Len(s) \in Nat /\ Len(Tail(s)) = Len(s) - 1
        /\ DOMAIN Tail(s) = 1..Len(Tail(s))
        /\ \A j \in 1..Len(Tail(s)) : Tail(s)[j] = s[j + 1]
    OBVIOUS
  <2>2. i - 1 \in 1..Len(Tail(s)) /\ (i - 1) + 1 = i
    BY <1>1, <2>1
  <2> QED BY <2>1, <2>2 DEF Range
<1>2. s[1] = Head(s)
  OBVIOUS
<1>3. DOMAIN s = 1..Len(s)
  OBVIOUS
<1> QED BY <1>1, <1>2, <1>3 DEF Range

\* Removing a key removes no other.
LEMMA WithoutKeeps ==
    ASSUME NEW S, NEW s \in Seq(S), NEW m
    PROVE  Range(s) \subseteq {m} \cup Range(Without(s, m))
<1>1. CASE m \notin Range(s)
  BY <1>1 DEF Without
<1>2. CASE m \in Range(s)
  <2> DEFINE i == CHOOSE j \in DOMAIN s : s[j] = m
             w == [j \in 1..(Len(s) - 1) |-> IF j < i THEN s[j] ELSE s[j + 1]]
  <2>1. Without(s, m) = w
    BY <1>2 DEF Without
  <2>2. \E j \in DOMAIN s : s[j] = m
    BY <1>2 DEF Range
  <2>3. i \in DOMAIN s /\ s[i] = m
    BY <2>2
  <2> HIDE DEF i
  <2>4. Len(s) \in Nat /\ DOMAIN s = 1..Len(s) /\ i \in 1..Len(s)
    BY <2>3
  <2>5. ASSUME NEW j \in 1..Len(s), s[j] # m PROVE s[j] \in Range(w)
    <3>1. CASE j < i
      <4>1. j \in 1..(Len(s) - 1) /\ w[j] = s[j]
        BY <2>4, <3>1
      <4> QED BY <4>1 DEF Range
    <3>2. CASE ~(j < i)
      <4>1. j # i
        BY <2>3, <2>5
      <4>2. j - 1 \in 1..(Len(s) - 1) /\ ~(j - 1 < i) /\ (j - 1) + 1 = j
        BY <2>4, <3>2, <4>1
      <4>3. w[j - 1] = s[j]
        BY <4>2
      <4> QED BY <4>2, <4>3 DEF Range
    <3> QED BY <3>1, <3>2
  <2> QED BY <2>1, <2>4, <2>5 DEF Range
<1> QED BY <1>1, <1>2

\* Adding a key adds nothing else.
LEMMA WithKeeps ==
    ASSUME NEW S, NEW s \in Seq(S), NEW m \in S
    PROVE  /\ Range(With(s, m)) \subseteq Range(s) \cup {m}
           /\ Range(s) \cup {m} \subseteq Range(With(s, m))
  BY AppendElements DEF With

\* The retention pass only takes messages out of the heaps.
LEMMA ExpireShrinks ==
    ASSUME TypeOK, RemoveExpired
    PROVE  \A k \in Generations, g \in Groups : heap'[k][g] \subseteq heap[k][g]
<1>1. CASE UNCHANGED heap
  BY <1>1
<1>2. CASE heap' = [heap EXCEPT ![generation] =
                       [g \in Groups |-> {m \in @[g] : m > aged}]]
  <2>1. \A k \in Generations, g \in Groups : k # generation =>
            heap'[k][g] = heap[k][g]
    BY <1>2 DEF TypeOK
  <2>2. \A g \in Groups :
            heap'[generation][g] = {m \in heap[generation][g] : m > aged}
    BY <1>2 DEF TypeOK
  <2> QED BY <2>1, <2>2
<1> QED BY <1>1, <1>2 DEF RemoveExpired

\* Every step takes messages out of the heaps or puts one into its group.
LEMMA HeapCases ==
    ASSUME TypeOK, [Next]_vars
    PROVE  \/ \A k \in Generations, g \in Groups : heap'[k][g] \subseteq heap[k][g]
           \/ \E m \in 1..sent, k \in Generations :
                 /\ k <= generation
                 /\ heap' = [heap EXCEPT ![k][group[m]] = @ \cup {m}]
<1> DEFINE Shrinks == \A k \in Generations, g \in Groups : heap'[k][g] \subseteq heap[k][g]
           Grows == \E m \in 1..sent, k \in Generations :
                       /\ k <= generation
                       /\ heap' = [heap EXCEPT ![k][group[m]] = @ \cup {m}]
<1>1. UNCHANGED heap => Shrinks
  OBVIOUS
<1>2. generation \in Generations /\ generation <= generation
  BY FifoAssumption DEF TypeOK, Generations
<1>4. ASSUME CalmStep PROVE Shrinks \/ Grows
  BY <1>2, <1>4 DEF CalmStep
<1>6. ASSUME NEW g \in Groups, PutCreate(g) PROVE Shrinks
  BY <1>6 DEF PutCreate, groupVars
<1>7. ASSUME NEW m \in Messages, PutStore(m) PROVE Shrinks \/ Grows
  <2>1. PICK from \in Generations :
          /\ <<m, from>> \in creating
          /\ \/ UNCHANGED groupVars
             \/ \E k \in from..generation : PutMessage(m, k)
    BY <1>7 DEF PutStore
  <2>2. m \in 1..sent
    BY <2>1 DEF TypeOK
  <2>3. ASSUME NEW k \in from..generation, PutMessage(m, k) PROVE Grows
    <3>1. k \in Generations /\ k <= generation
      BY FifoAssumption DEF TypeOK, Generations
    <3> QED BY <2>2, <2>3, <3>1 DEF PutMessage
  <2> QED BY <2>1, <2>3 DEF groupVars
<1>8. ASSUME NEW c \in Consumers, NEW m \in Messages, ReceivePop(c, m) PROVE Shrinks
  <2>1. current[c].group \in Groups /\ current[c].generation \in Generations
    BY <1>8 DEF ReceivePop, Holds, TypeOK
  <2> QED BY <1>8, <2>1 DEF ReceivePop, TypeOK
<1>9. CASE Clear
  BY <1>9 DEF Clear
<1>10. ASSUME RemoveExpired PROVE Shrinks
  BY <1>10, ExpireShrinks
<1> QED BY <1>4, <1>6, <1>7, <1>8, <1>9, <1>10, OrderCases

\* Messages are only put to objects of their own group, and never to objects
\* that do not exist yet.
LEMMA GroupsStep ==
    ASSUME TypeOK, GroupsHoldTheirOwn, NoFutureGroups, [Next]_vars
    PROVE  GroupsHoldTheirOwn' /\ NoFutureGroups'
<1>1. /\ \A m \in 1..sent : group'[m] = group[m] /\ group[m] \in Groups
      /\ generation' \in Int /\ generation' >= generation
  <2>1. /\ generation \in Int /\ sent \in Int /\ group \in [Messages -> Groups \cup {NoGroup}]
        /\ \A m \in 1..sent : m \in Messages /\ group[m] \in Groups /\ m # sent + 1
    BY FifoAssumption DEF TypeOK, Generations, Messages
  <2>2. ASSUME NEW g \in Groups, PutCreate(g)
        PROVE  generation' = generation /\ \A m \in 1..sent : group'[m] = group[m]
    BY <2>1, <2>2 DEF PutCreate
  <2>3. ASSUME NEW m \in Messages, PutStore(m)
        PROVE  generation' = generation /\ group' = group
    BY <2>3 DEF PutStore, messageVars
  <2>4. ASSUME NEW c \in Consumers, NEW m \in Messages, ReceivePop(c, m)
        PROVE  generation' = generation /\ group' = group
    BY <2>4 DEF ReceivePop
  <2>5. CASE Clear
    BY <2>1, <2>5 DEF Clear, messageVars
  <2>6. CASE RemoveExpired
    BY <2>1, <2>6 DEF RemoveExpired, messageVars
  <2>7. CASE CalmStep
    BY <2>1, <2>7 DEF CalmStep
  <2> QED BY <2>1, <2>2, <2>3, <2>4, <2>5, <2>6, <2>7, OrderCases
<1>2. /\ heap \in [Generations -> [Groups -> SUBSET (1..sent)]]
      /\ generation \in Int /\ \A k \in Generations : k \in Int
  BY DEF TypeOK, Generations
<1>3. ASSUME NEW k \in Generations, NEW g \in Groups, NEW m \in heap'[k][g]
      PROVE  m \in 1..sent /\ group[m] = g /\ k <= generation
  <2>1. ASSUME m \in heap[k][g] PROVE m \in 1..sent /\ group[m] = g /\ k <= generation
    <3>1. m \in 1..sent /\ group[m] = g /\ ~(k > generation)
      BY <1>2, <2>1 DEF GroupsHoldTheirOwn, NoFutureGroups
    <3> QED BY <1>2, <3>1
  <2>2. ASSUME NEW n \in 1..sent, NEW j \in Generations, j <= generation,
               heap' = [heap EXCEPT ![j][group[n]] = @ \cup {n}]
        PROVE  m \in heap[k][g] \/ (m = n /\ k = j /\ g = group[n])
    BY <1>1, <1>2, <1>3, <2>2
  <2> QED BY <1>3, <2>1, <2>2, HeapCases
<1>4. GroupsHoldTheirOwn'
  BY <1>1, <1>3 DEF GroupsHoldTheirOwn
<1>5. NoFutureGroups'
  <2>1. ASSUME NEW k \in Generations, NEW g \in Groups, k > generation'
        PROVE  heap'[k][g] = {}
    <3>1. ~(k <= generation)
      BY <1>1, <1>2, <2>1
    <3> QED BY <1>3, <3>1
  <2> QED BY <2>1 DEF NoFutureGroups
<1> QED BY <1>4, <1>5

\* Only messages that were sent are in a heap, where a receive finds them.
LEMMA UnsentStep ==
    ASSUME TypeOK, UnsentNotReceived, [Next]_vars
    PROVE  UnsentNotReceived'
<1>1. ASSUME NEW g \in Groups, PutCreate(g) PROVE UnsentNotReceived'
  <2>1. \A m \in Messages : m > sent + 1 => m > sent
    BY FifoAssumption DEF TypeOK, Messages
  <2> QED BY <1>1, <2>1 DEF PutCreate, UnsentNotReceived
<1>2. ASSUME NEW c \in Consumers, NEW m \in Messages, ReceivePop(c, m)
      PROVE  UnsentNotReceived'
  <2>1. m \in 1..sent
    BY <1>2 DEF ReceivePop, Holds, TypeOK, IsFirst, CurrentHeap
  <2>2. \A x \in Messages : x > sent => x # m
    BY <2>1 DEF TypeOK, Messages
  <2>3. \A x \in Messages : x # m => receiveCount'[x] = receiveCount[x]
    BY <1>2 DEF ReceivePop, TypeOK
  <2>4. sent' = sent
    BY <1>2 DEF ReceivePop, sendVars
  <2> QED BY <2>2, <2>3, <2>4 DEF UnsentNotReceived
<1>3. ASSUME UNCHANGED <<sent, receiveCount>> PROVE UnsentNotReceived'
  BY <1>3 DEF UnsentNotReceived
<1>4. ASSUME NEW m \in Messages, PutStore(m) PROVE UNCHANGED <<sent, receiveCount>>
  BY <1>4 DEF PutStore, messageVars
<1>5. CASE Clear \/ RemoveExpired \/ CalmStep
  BY <1>3, <1>5 DEF Clear, RemoveExpired, CalmStep, sendVars, messageVars
<1> QED BY <1>1, <1>2, <1>3, <1>4, <1>5, OrderCases

\* A message that was received stays so.
LEMMA CountsStep ==
    ASSUME TypeOK, [Next]_vars
    PROVE  \A x \in Messages : receiveCount[x] > 0 => receiveCount'[x] > 0
<1>1. ASSUME NEW c \in Consumers, NEW m \in Messages, ReceivePop(c, m)
      PROVE  \A x \in Messages : receiveCount[x] > 0 => receiveCount'[x] > 0
  <2>1. receiveCount[m] + 1 > 0 /\ receiveCount \in [Messages -> Nat]
    BY DEF TypeOK
  <2>2. \/ receiveCount' = receiveCount
        \/ receiveCount' = [receiveCount EXCEPT ![m] = receiveCount[m] + 1]
    BY <1>1 DEF ReceivePop
  <2> QED BY <2>1, <2>2
<1>2. ASSUME NEW g \in Groups, PutCreate(g) PROVE receiveCount' = receiveCount
  BY <1>2 DEF PutCreate
<1>3. ASSUME NEW m \in Messages, PutStore(m) PROVE receiveCount' = receiveCount
  BY <1>3 DEF PutStore, messageVars
<1>4. CASE Clear \/ RemoveExpired \/ CalmStep
  BY <1>4 DEF Clear, RemoveExpired, CalmStep, messageVars
<1> QED BY <1>1, <1>2, <1>3, <1>4, OrderCases

\* Only what was received goes in flight, from a receive or by its handle.
LEMMA InflightStep ==
    ASSUME TypeOK, InflightReceived, HandlesOfReceived, [Next]_vars
    PROVE  InflightReceived'
<1>1. inflight \in Seq(1..sent) /\ 1..sent \subseteq Messages
  BY FifoAssumption DEF TypeOK, Messages
<1>2. Range(inflight) \subseteq Messages
  BY <1>1, SeqElements
<1>3. ASSUME Range(inflight') \subseteq Range(inflight) PROVE InflightReceived'
  BY <1>2, <1>3, CountsStep DEF InflightReceived
<1>4. ASSUME NEW m, inflight' = Without(inflight, m) PROVE InflightReceived'
  <2>1. Range(Without(inflight, m)) \subseteq Range(inflight)
    BY <1>1, KeyRemoved
  <2> QED BY <1>3, <1>4, <2>1
<1>5. ASSUME NEW c \in Consumers, ReceiveFinish(c) PROVE InflightReceived'
  <2>1. PICK m : m = Head(successful[c])
    OBVIOUS
  <2>2. successful[c] \in Seq(1..sent) /\ successful[c] # <<>>
    BY <1>5 DEF ReceiveFinish, TypeOK
  <2>3. m \in Range(successful[c]) /\ m \in 1..sent
    BY <2>1, <2>2, SeqElements
  <2>4. receiveCount[m] > 0 /\ receiveCount' = receiveCount
    BY <1>5, <2>3 DEF ReceiveFinish, HandlesOfReceived, messageVars
  <2>5. Range(With(inflight, m)) \subseteq Range(inflight) \cup {m}
    BY <1>1, <2>3, WithKeeps
  <2>6. inflight' = inflight \/ inflight' = With(inflight, m)
    BY <1>5, <2>1 DEF ReceiveFinish
  <2> QED BY <2>4, <2>5, <2>6 DEF InflightReceived
<1>6. CASE Clear
  <2>1. Range(<<>>) = {}
    BY DEF Range
  <2> QED BY <1>3, <1>6, <2>1 DEF Clear
<1>7. ASSUME NEW h \in issued,
             \/ Remove(h) \/ RemoveKeyError(h)
             \/ \E zero \in BOOLEAN : UpdateVisibilityTimeout(h, zero)
      PROVE  InflightReceived'
  BY <1>3, <1>4, <1>7 DEF Remove, RemoveKeyError, UpdateVisibilityTimeout
<1>8. ASSUME NEW m \in Messages, RequeueInflight(m) PROVE InflightReceived'
  BY <1>4, <1>8 DEF RequeueInflight
<1>9. ASSUME inflight' = inflight PROVE InflightReceived'
  BY <1>3, <1>9
<1>10. ASSUME \/ \E g \in Groups : PutCreate(g)
              \/ \E m \in Messages :
                    PutStore(m) \/ VisibilityElapses(m) \/ EnqueueDelayed(m)
              \/ DelayElapses \/ Age \/ DeleteDlq \/ RequeueDone
              \/ EnqueueStart \/ EnqueueFails \/ EnqueueDone \/ RemoveExpired
              \/ \E c \in Consumers, zero \in BOOLEAN : ReceiveStart(c, zero)
      PROVE  inflight' = inflight
  BY <1>10 DEF PutCreate, PutStore, VisibilityElapses, EnqueueDelayed, DelayElapses,
         Age, DeleteDlq, RequeueDone, EnqueueStart, EnqueueFails, EnqueueDone,
         RemoveExpired, ReceiveStart
<1>11. ASSUME NEW c \in Consumers,
              \/ ReceiveGetGroup(c) \/ ReceiveEmpty(c) \/ ReceiveCheckGroup(c)
              \/ ReceiveMarkGroup(c) \/ ReceivePopEmpty(c) \/ ReceiveFinishNone(c)
              \/ DeadLetterLookup(c) \/ DeadLetterPut(c) \/ DeadLetterUpdate(c)
             \/ ReceiveReturn(c)
              \/ \E m \in Messages : ReceivePop(c, m)
      PROVE  inflight' = inflight
  BY <1>11 DEF ReceiveGetGroup, ReceiveEmpty, ReceiveCheckGroup, ReceiveMarkGroup,
         ReceivePopEmpty, ReceiveFinishNone, DeadLetterLookup, DeadLetterPut,
         DeadLetterUpdate, ReceiveReturn, ReceivePop
<1>12. CASE UNCHANGED vars
  BY <1>9, <1>12 DEF vars
<1> QED BY <1>5, <1>6, <1>7, <1>8, <1>9, <1>10, <1>11, <1>12 DEF Next, Receive, Worker

\* What is being created stays apart if the step adds to the queue at most a
\* message x that no put is creating.
LEMMA ApartKept ==
    ASSUME TypeOK, CreatingApart, creating' \subseteq creating, NEW x,
           \A p \in creating' : p[1] # x /\ receiveCount'[p[1]] = receiveCount[p[1]],
           delayed' \cup scan' \subseteq delayed \cup scan \cup {x},
           \A k \in Generations, g \in Groups : heap'[k][g] \subseteq heap[k][g] \cup {x}
    PROVE  CreatingApart'
  BY DEF CreatingApart

\* A message is stored once, by the put that created it.
LEMMA CreatingStep ==
    ASSUME StrandInv, [Next]_vars
    PROVE  CreatingApart'
<1> USE DEF sendVars, workerVars, messageVars
<1>1. /\ TypeOK /\ CreatingApart
      /\ heap \in [Generations -> [Groups -> SUBSET (1..sent)]]
      /\ delayed \subseteq 1..sent /\ scan \subseteq 1..sent
      /\ creating \subseteq (1..sent) \X Generations
      /\ sent \in Nat
      /\ \A m \in 1..sent : m \in Messages /\ group[m] \in Groups
      /\ generation \in Generations
  <2>1. TypeOK /\ CreatingApart
    BY DEF StrandInv
  <2>2. /\ heap \in [Generations -> [Groups -> SUBSET (1..sent)]]
        /\ delayed \subseteq 1..sent /\ scan \subseteq 1..sent
        /\ creating \subseteq (1..sent) \X Generations
        /\ sent \in 0..MaxMessages
        /\ generation \in Generations
    BY <2>1 DEF TypeOK
  <2>3. 1..sent \subseteq Messages /\ sent \in Nat
    BY <2>2, FifoAssumption DEF Messages
  <2>4. \A m \in Messages : m <= sent => group[m] \in Groups
    BY <2>1 DEF TypeOK
  <2>5. \A m \in 1..sent : m \in Messages /\ group[m] \in Groups
    BY <2>3, <2>4
  <2> QED BY <2>1, <2>2, <2>3, <2>5
<1>2. \A p \in creating : p[1] \in 1..sent /\ p[1] # 0
  BY <1>1
\* no message is added
<1>3. ASSUME creating' = creating, delayed' \subseteq delayed,
             scan' \subseteq delayed \cup scan, receiveCount' = receiveCount,
             \A k \in Generations, g \in Groups : heap'[k][g] \subseteq heap[k][g]
      PROVE  CreatingApart'
  <2>1. \A p \in creating' : p[1] # 0 /\ receiveCount'[p[1]] = receiveCount[p[1]]
    BY <1>2, <1>3
  <2>2. delayed' \cup scan' \subseteq delayed \cup scan \cup {0}
    BY <1>3
  <2>3. \A k \in Generations, g \in Groups : heap'[k][g] \subseteq heap[k][g] \cup {0}
    BY <1>3
  <2> QED BY <1>1, <1>3, <2>1, <2>2, <2>3, ApartKept
\* a message is put back
<1>4. ASSUME NEW m \in 1..sent, \A p \in creating : p[1] # m,
             creating' = creating, delayed' \subseteq delayed, scan' \subseteq scan,
             receiveCount' = receiveCount, PutMessage(m, generation)
      PROVE  CreatingApart'
  <2>1. \A p \in creating' : p[1] # m /\ receiveCount'[p[1]] = receiveCount[p[1]]
    BY <1>4
  <2>2. delayed' \cup scan' \subseteq delayed \cup scan \cup {m}
    BY <1>4
  <2>3. \A k \in Generations, g \in Groups : heap'[k][g] \subseteq heap[k][g] \cup {m}
    BY <1>1, <1>4 DEF PutMessage
  <2> QED BY <1>1, <1>4, <2>1, <2>2, <2>3, ApartKept
<1>5. \A m : receiveCount[m] > 0 => \A p \in creating : p[1] # m
  BY <1>1 DEF CreatingApart
<1>6. ASSUME NEW g \in Groups, PutCreate(g) PROVE CreatingApart'
  <2>1. PICK n : n = sent + 1
    OBVIOUS
  <2>2. n \in Messages /\ n \notin 1..sent /\ n > sent
    BY <1>1, <1>6, <2>1, FifoAssumption DEF PutCreate, Messages
  <2>3. /\ creating' = creating \cup {<<n, generation>>}
        /\ receiveCount' = receiveCount /\ delayed' = delayed /\ scan' = scan
        /\ heap' = heap
    BY <1>6, <2>1 DEF PutCreate, groupVars
  <2>4. receiveCount[n] = 0
    BY <2>2 DEF StrandInv, UnsentNotReceived
  <2>5. /\ n \notin delayed \cup scan
        /\ \A k \in Generations, h \in Groups : n \notin heap[k][h]
        /\ \A q \in creating : q[1] # n
    BY <1>1, <1>2, <2>2
  <2>6. <<n, generation>>[1] = n
    OBVIOUS
  <2> QED BY <1>1, <2>3, <2>4, <2>5, <2>6 DEF CreatingApart
<1>7. ASSUME NEW m \in Messages, PutStore(m) PROVE CreatingApart'
  <2>1. PICK from \in Generations :
          /\ <<m, from>> \in creating
          /\ creating' = creating \ {<<m, from>>}
          /\ \/ delayed' = delayed \cup {m} /\ UNCHANGED groupVars
             \/ UNCHANGED delayed /\ \E k \in from..generation : PutMessage(m, k)
    BY <1>7 DEF PutStore
  <2>2. /\ receiveCount' = receiveCount /\ scan' = scan
    BY <1>7 DEF PutStore
  <2>3. <<m, from>>[1] = m
    OBVIOUS
  <2>4. \A p \in creating' : p[1] # m
    BY <1>1, <2>1, <2>3 DEF CreatingApart
  <2>5. \A k \in from..generation : k \in Generations
    BY FifoAssumption DEF StrandInv, TypeOK, Generations
  <2>6. m \in 1..sent /\ group[m] \in Groups
    BY <1>1, <1>2, <2>1, <2>3
  <2>7. \A k \in Generations, g \in Groups : heap'[k][g] \subseteq heap[k][g] \cup {m}
    BY <1>1, <2>1, <2>5, <2>6 DEF PutMessage, groupVars
  <2>8. delayed' \cup scan' \subseteq delayed \cup scan \cup {m}
    BY <2>1, <2>2
  <2> QED BY <1>1, <2>1, <2>2, <2>4, <2>7, <2>8, ApartKept
<1>8. ASSUME NEW c \in Consumers, NEW m \in Messages, ReceivePop(c, m)
      PROVE  CreatingApart'
  <2>1. /\ current[c].group \in Groups /\ current[c].generation \in Generations
        /\ m \in heap[current[c].generation][current[c].group]
        /\ \A k \in Generations, g \in Groups : heap'[k][g] \subseteq heap[k][g]
    BY <1>1, <1>8 DEF ReceivePop, Holds, StrandInv, TypeOK, IsFirst, CurrentHeap
  <2>2. \A p \in creating : p[1] # m
    BY <1>1, <2>1 DEF CreatingApart
  <2>3. \A x \in Messages : x # m => receiveCount'[x] = receiveCount[x]
    BY <1>8 DEF ReceivePop, StrandInv, TypeOK
  <2>4. /\ creating' = creating /\ delayed' = delayed /\ scan' = scan
    BY <1>8 DEF ReceivePop
  <2>5. \A p \in creating' : p[1] # m /\ receiveCount'[p[1]] = receiveCount[p[1]]
    BY <1>1, <1>2, <2>2, <2>3, <2>4
  <2>6. \A k \in Generations, g \in Groups : heap'[k][g] \subseteq heap[k][g] \cup {m}
    BY <2>1
  <2>7. delayed' \cup scan' \subseteq delayed \cup scan \cup {m}
    BY <2>4
  <2> QED BY <1>1, <2>4, <2>5, <2>6, <2>7, ApartKept
<1>9. ASSUME NEW c \in Consumers, ReceiveFinish(c) PROVE CreatingApart'
  <2>1. PICK m : m = Head(successful[c])
    OBVIOUS
  <2>2. successful[c] \in Seq(1..sent) /\ successful[c] # <<>>
    BY <1>9 DEF ReceiveFinish, StrandInv, TypeOK
  <2>3. m \in Range(successful[c]) /\ m \in 1..sent
    BY <2>1, <2>2, SeqElements
  <2>4. \A p \in creating : p[1] # m
    BY <1>5, <2>3 DEF StrandInv, HandlesOfReceived
  <2>5. /\ creating' = creating /\ delayed' = delayed /\ scan' = scan
        /\ receiveCount' = receiveCount
        /\ PutMessage(m, generation) \/ UNCHANGED groupVars
    BY <1>9, <2>1 DEF ReceiveFinish
  <2> QED BY <1>3, <1>4, <2>3, <2>4, <2>5 DEF groupVars
<1>10. \A m \in Range(inflight) : m \in 1..sent /\ \A p \in creating : p[1] # m
  <2>1. inflight \in Seq(1..sent)
    BY DEF StrandInv, TypeOK
  <2>2. Range(inflight) \subseteq 1..sent
    BY <2>1, SeqElements
  <2> QED BY <1>5, <2>2 DEF StrandInv, InflightReceived
<1>11. ASSUME NEW h \in issued, NEW zero \in BOOLEAN, UpdateVisibilityTimeout(h, zero)
       PROVE  CreatingApart'
  BY <1>3, <1>4, <1>10, <1>11 DEF UpdateVisibilityTimeout, groupVars
<1>12. ASSUME NEW m \in Messages, RequeueInflight(m) PROVE CreatingApart'
  <2>1. inflight \in Seq(1..sent) /\ inflight # <<>> /\ m = Head(inflight)
    BY <1>12 DEF RequeueInflight, RequeueNext, StrandInv, TypeOK
  <2>2. m \in Range(inflight)
    BY <2>1, SeqElements
  <2> QED BY <1>4, <1>10, <1>12, <2>2 DEF RequeueInflight
<1>13. ASSUME NEW m \in Messages, EnqueueDelayed(m) PROVE CreatingApart'
  <2>1. m \in scan
    BY <1>13 DEF EnqueueDelayed
  <2>2. m \in 1..sent /\ \A p \in creating : p[1] # m
    BY <1>1, <2>1 DEF CreatingApart
  <2> QED BY <1>4, <1>13, <2>2 DEF EnqueueDelayed
<1>14. CASE EnqueueStart
  BY <1>3, <1>14 DEF EnqueueStart, groupVars
<1>15. CASE Clear
  BY <1>3, <1>15 DEF Clear
<1>16. CASE RemoveExpired
  BY <1>1, <1>3, <1>16, ExpireShrinks DEF RemoveExpired
<1>17. ASSUME NEW c \in Consumers,
              \/ ReceiveGetGroup(c) \/ ReceiveEmpty(c) \/ ReceiveCheckGroup(c)
              \/ ReceiveMarkGroup(c) \/ ReceivePopEmpty(c) \/ ReceiveFinishNone(c)
              \/ DeadLetterLookup(c) \/ DeadLetterPut(c) \/ DeadLetterUpdate(c)
             \/ ReceiveReturn(c)
              \/ \E zero \in BOOLEAN : ReceiveStart(c, zero)
      PROVE  CreatingApart'
  BY <1>3, <1>17 DEF ReceiveGetGroup, ReceiveEmpty, ReceiveCheckGroup, ReceiveMarkGroup,
         ReceivePopEmpty, ReceiveFinishNone, DeadLetterLookup, DeadLetterPut,
         DeadLetterUpdate, ReceiveReturn, ReceiveStart, UpdateMessageGroupVisibility, groupVars
<1>18. ASSUME NEW h \in issued, Remove(h) \/ RemoveKeyError(h) PROVE CreatingApart'
  BY <1>3, <1>18 DEF Remove, RemoveKeyError, UpdateMessageGroupVisibility, groupVars
<1>19. ASSUME \/ \E m \in Messages : VisibilityElapses(m)
              \/ DelayElapses \/ Age \/ DeleteDlq \/ RequeueDone
              \/ EnqueueFails \/ EnqueueDone
      PROVE  CreatingApart'
  BY <1>3, <1>19 DEF VisibilityElapses, DelayElapses, Age, DeleteDlq, RequeueDone,
         EnqueueFails, EnqueueDone, groupVars
<1>20. CASE UNCHANGED vars
  BY <1>3, <1>20 DEF vars, groupVars
<1> QED BY <1>6, <1>7, <1>8, <1>9, <1>11, <1>12, <1>13, <1>14, <1>15, <1>16, <1>17,
        <1>18, <1>19, <1>20 DEF Next, Receive, Worker

-----------------------------------------------------------------------------
(* Groups with messages are attended                                       *)

\* The receives that have a group in hand and have not marked it go on.
LookersStay ==
    \A c \in Consumers : pc[c] \in {"check", "mark"} =>
        pc'[c] = pc[c] /\ current'[c] = current[c]

\* A step that adds no message, unmarks no group, takes none off the queue and
\* leaves the receives that look at one alone keeps groups on offer.
LEMMA OfferKept ==
    ASSUME UnmarkedOffered, LookersStay, generation' = generation,
           \A g \in Groups : heap'[generation][g] \subseteq heap[generation][g],
           inflightGroups \subseteq inflightGroups',
           Range(groupQueue) \subseteq Range(groupQueue'),
           mistaken \subseteq mistaken'
    PROVE  UnmarkedOffered'
<1>1. \A g : Offered(g) => Offered(g)'
  BY DEF Offered, LookersStay
<1> QED BY <1>1 DEF UnmarkedOffered

\* FifoQueue._put_message queues a group that it unmarks, or that has become
\* non-empty.
LEMMA PutMessageOffers ==
    ASSUME TypeOK, UnmarkedOffered, LookersStay, generation' = generation,
           NEW m \in 1..sent, NEW k \in Generations, PutMessage(m, k),
           k = generation \/ ~Unblocks(m), mistaken \subseteq mistaken'
    PROVE  UnmarkedOffered'
<1> DEFINE O == [group : Groups, generation : Generations]
<1>1. /\ group[m] \in Groups /\ generation \in Generations
      /\ heap \in [Generations -> [Groups -> SUBSET (1..sent)]]
      /\ groupQueue \in Seq(O) /\ Object(group[m], k) \in O
  BY FifoAssumption DEF TypeOK, Messages, Object
<1>2. /\ Range(groupQueue) \subseteq Range(groupQueue')
      /\ Unblocks(m) \/ WasEmpty(m, k) => Object(group[m], k) \in Range(groupQueue')
  <2>1. Range(groupQueue) \cup {Object(group[m], k)}
            \subseteq Range(Append(groupQueue, Object(group[m], k)))
    <3> HIDE DEF O
    <3> QED BY <1>1, AppendElements
  <2> QED BY <2>1 DEF PutMessage
<1>3. \A g : Offered(g) => Offered(g)'
  BY <1>2 DEF Offered, LookersStay
<1>4. ASSUME NEW g \in Groups, heap'[generation][g] # {}, g \notin inflightGroups'
      PROVE  Offered(g)' \/ g \in mistaken'
  <2>1. CASE g = group[m] /\ k = generation /\ (Unblocks(m) \/ WasEmpty(m, k))
    BY <1>2, <2>1 DEF Offered
  <2>2. CASE ~(g = group[m] /\ k = generation /\ (Unblocks(m) \/ WasEmpty(m, k)))
    <3>1. g \notin inflightGroups
      BY <1>4, <2>2 DEF PutMessage
    <3>2. heap[generation][g] # {}
      <4>1. CASE g = group[m] /\ k = generation
        BY <2>2, <3>1, <4>1 DEF WasEmpty
      <4>2. CASE g # group[m] \/ k # generation
        BY <1>1, <1>4, <4>2 DEF PutMessage
      <4> QED BY <4>1, <4>2
    <3> QED BY <1>3, <3>1, <3>2 DEF UnmarkedOffered
  <2> QED BY <2>1, <2>2
<1> QED BY <1>4 DEF UnmarkedOffered

\* So does FifoQueue.update_message_group_visibility, with an object that no purge
\* came after.
LEMMA UpdateOffers ==
    ASSUME TypeOK, UnmarkedOffered, LookersStay, generation' = generation,
           NEW u, NEW k \in Generations, NEW S,
           UpdateMessageGroupVisibility(u, k, S), mistaken \subseteq mistaken',
           BecomesVisible(u, S) => k = generation \/ u \in mistaken'
    PROVE  UnmarkedOffered'
<1> DEFINE O == [group : Groups, generation : Generations]
<1>1. groupQueue \in Seq(O) /\ (u \in inflightGroups => Object(u, k) \in O)
  BY DEF TypeOK, Object
<1>2. u \in inflightGroups => Range(groupQueue) \cup {Object(u, k)}
            \subseteq Range(Append(groupQueue, Object(u, k)))
  <2> HIDE DEF O
  <2> QED BY <1>1, AppendElements
<1>3. /\ Range(groupQueue) \subseteq Range(groupQueue')
      /\ BecomesVisible(u, S) /\ heap[k][u] # {} =>
            Object(u, k) \in Range(groupQueue')
  BY <1>2 DEF UpdateMessageGroupVisibility, BecomesVisible
<1>4. \A g : Offered(g) => Offered(g)'
  BY <1>3 DEF Offered, LookersStay
<1>5. ASSUME NEW g \in Groups, heap'[generation][g] # {}, g \notin inflightGroups'
      PROVE  Offered(g)' \/ g \in mistaken'
  <2>1. heap[generation][g] # {}
    BY <1>5 DEF UpdateMessageGroupVisibility
  <2>2. CASE g \notin inflightGroups
    BY <1>4, <2>1, <2>2 DEF UnmarkedOffered
  <2>3. CASE g \in inflightGroups
    <3>1. g = u /\ BecomesVisible(u, S)
      BY <1>5, <2>3 DEF UpdateMessageGroupVisibility
    <3> QED BY <1>3, <2>1, <3>1 DEF Offered
  <2> QED BY <2>2, <2>3
<1> QED BY <1>5 DEF UnmarkedOffered

\* What guards group g keeps guarding it if the receives that pop from it go
\* on, and its messages stay in flight or with a receive.
LEMMA GuardKept ==
    ASSUME NEW g,
           \A m \in Range(inflight) : group[m] = g =>
               m \in Range(inflight') /\ group'[m] = g,
           \A c \in Consumers :
              /\ pc[c] \in {"pop", "popping"} /\ current[c].group = g =>
                    pc'[c] \in {"pop", "popping"} /\ current'[c].group = g
              /\ \A m \in Held(c) : group[m] = g =>
                    m \in Held(c)' \cup Range(inflight') /\ group'[m] = g
    PROVE  Guarded(g) => Guarded(g)'
  BY DEF Guarded

\* What is in flight or held by a receive was sent, to a group.
LEMMA SentMessages ==
    ASSUME TypeOK
    PROVE  /\ Range(inflight) \subseteq 1..sent
           /\ \A c \in Consumers : Held(c) \subseteq 1..sent
           /\ 1..sent \subseteq Messages
           /\ \A m \in 1..sent : group[m] \in Groups
<1>1. /\ inflight \in Seq(1..sent)
      /\ \A c \in Consumers :
            successful[c] \in Seq(1..sent) /\ deadLetters[c] \in Seq(1..sent)
  BY DEF TypeOK
<1>2. Range(inflight) \subseteq 1..sent
  BY <1>1, SeqElements
<1>3. \A c \in Consumers :
        Range(successful[c]) \subseteq 1..sent /\ Range(deadLetters[c]) \subseteq 1..sent
  BY <1>1, SeqElements
<1>4. 1..sent \subseteq Messages
  BY FifoAssumption DEF TypeOK, Messages
<1>5. \A m \in 1..sent : group[m] \in Groups
  BY <1>4 DEF TypeOK
<1> QED BY <1>2, <1>3, <1>4, <1>5 DEF Held

\* The receives that have a group in hand go on.
HandsStay ==
    \A c \in Consumers : pc[c] \in {"check", "mark", "pop", "popping"} =>
        pc'[c] = pc[c] /\ current'[c] = current[c]

\* A step that leaves alone what attends to groups.
QuietStep ==
    /\ UNCHANGED <<generation, groupQueue, inflightGroups, inflight, successful,
                   deadLetters, fruitless, mistaken>>
    /\ dlqExists' => dlqExists
    /\ \A m \in 1..sent : group'[m] = group[m]
    /\ \A g \in Groups : heap'[generation][g] \subseteq heap[generation][g]
    /\ HandsStay

\* A quiet step strands nothing.
LEMMA QuietAttended ==
    ASSUME StrandInv, QuietStep
    PROVE  UnmarkedOffered' /\ MarkedGuarded'
<1>1. LookersStay
  BY DEF LookersStay, HandsStay, QuietStep
<1>2. UnmarkedOffered'
  BY <1>1, OfferKept DEF QuietStep, StrandInv
<1>3. ASSUME NEW g PROVE Guarded(g) => Guarded(g)'
  <2>1. \A m \in Range(inflight) : group[m] = g =>
            m \in Range(inflight') /\ group'[m] = g
    BY SentMessages DEF QuietStep, StrandInv
  <2>2. \A c \in Consumers :
          /\ pc[c] \in {"pop", "popping"} /\ current[c].group = g =>
                pc'[c] \in {"pop", "popping"} /\ current'[c].group = g
          /\ \A m \in Held(c) : group[m] = g =>
                m \in Held(c)' \cup Range(inflight') /\ group'[m] = g
    <3>1. \A c \in Consumers : Held(c)' = Held(c)
      BY DEF QuietStep, Held
    <3>2. \A c \in Consumers : \A m \in Held(c) : group'[m] = group[m]
      BY SentMessages DEF QuietStep, StrandInv
    <3> QED BY <3>1, <3>2 DEF QuietStep, HandsStay
  <2> QED BY <2>1, <2>2, GuardKept
<1>4. MarkedGuarded'
  BY <1>3 DEF MarkedGuarded, QuietStep, StrandInv
<1> QED BY <1>2, <1>4

\* Steps of clients, clocks, the worker and receives that do not touch groups are
\* quiet.
LEMMA QuietCases ==
    ASSUME TypeOK,
           \/ \E g \in Groups : PutCreate(g)
           \/ \E m \in Messages : VisibilityElapses(m)
           \/ DelayElapses \/ Age \/ DeleteDlq \/ RequeueDone
           \/ EnqueueStart \/ EnqueueFails \/ EnqueueDone \/ RemoveExpired
           \/ \E c \in Consumers, zero \in BOOLEAN : ReceiveStart(c, zero)
           \/ \E c \in Consumers :
                 ReceiveEmpty(c) \/ ReceiveFinishNone(c) \/ ReceiveReturn(c)
           \/ \E h \in issued :
                 RemoveKeyError(h) \/ UpdateVisibilityTimeout(h, FALSE)
           \/ UNCHANGED vars
    PROVE  QuietStep
<1> USE DEF groupVars, messageVars, dlqVars, callVars, resultVars, history
<1>1. ASSUME NEW g \in Groups, PutCreate(g) PROVE QuietStep
  <2>1. \A m \in 1..sent : m # sent + 1
    BY DEF TypeOK
  <2>2. \A m \in 1..sent : group'[m] = group[m]
    BY <1>1, <2>1, SentMessages DEF PutCreate, TypeOK
  <2> QED BY <1>1, <2>2 DEF PutCreate, QuietStep, HandsStay
<1>2. CASE RemoveExpired
  <2>1. \A g \in Groups : heap'[generation][g] \subseteq heap[generation][g]
    BY <1>2, ExpireShrinks DEF TypeOK
  <2> QED BY <1>2, <2>1 DEF RemoveExpired, QuietStep, HandsStay
<1>3. CASE \/ \E m \in Messages : VisibilityElapses(m)
           \/ DelayElapses \/ Age \/ DeleteDlq \/ RequeueDone
           \/ EnqueueStart \/ EnqueueFails \/ EnqueueDone
           \/ \E h \in issued :
                 RemoveKeyError(h) \/ UpdateVisibilityTimeout(h, FALSE)
  BY <1>3 DEF VisibilityElapses, DelayElapses, Age, DeleteDlq, RequeueDone,
         EnqueueStart, EnqueueFails, EnqueueDone, RemoveKeyError,
         UpdateVisibilityTimeout, QuietStep, HandsStay
<1>4. ASSUME NEW c \in Consumers,
             \/ \E zero \in BOOLEAN : ReceiveStart(c, zero)
             \/ ReceiveEmpty(c) \/ ReceiveFinishNone(c) \/ ReceiveReturn(c)
      PROVE  QuietStep
  <2>1. HandsStay
    BY <1>4 DEF ReceiveStart, ReceiveEmpty, ReceiveFinishNone, ReceiveReturn, Holds,
           TypeOK, HandsStay
  <2> QED BY <1>4, <2>1 DEF ReceiveStart, ReceiveEmpty, ReceiveFinishNone,
              ReceiveReturn, QuietStep
<1>5. CASE UNCHANGED vars
  BY <1>5 DEF vars, QuietStep, HandsStay
<1> QED BY <1>1, <1>2, <1>3, <1>4, <1>5

\* A message is put into its group and stays wherever else it counts.
LEMMA PutAttended ==
    ASSUME StrandInv, NEW m \in 1..sent, NEW k \in Generations, PutMessage(m, k),
           k = generation \/ ~Unblocks(m),
           UNCHANGED <<generation, group, inflight, pc, current, successful,
                       deadLetters, dlqExists, fruitless, mistaken>>
    PROVE  UnmarkedOffered' /\ MarkedGuarded'
<1>1. UnmarkedOffered'
  BY PutMessageOffers DEF StrandInv, LookersStay
<1>2. \A g : Guarded(g)' <=> Guarded(g)
  BY DEF Guarded, Held
<1>3. MarkedGuarded'
  BY <1>2 DEF MarkedGuarded, PutMessage, StrandInv
<1> QED BY <1>1, <1>3

\* A message that was received comes back from wherever it was: its group is
\* unmarked, and the others keep their guards.
LEMMA ReturnAttended ==
    ASSUME StrandInv, NEW m \in 1..sent, receiveCount[m] > 0,
           PutMessage(m, generation), HandsStay,
           UNCHANGED <<generation, group, dlqExists, fruitless, mistaken>>,
           \A x \in Range(inflight) : x # m => x \in Range(inflight'),
           \A c \in Consumers : \A x \in Held(c) :
               x # m => x \in Held(c)' \cup Range(inflight')
    PROVE  UnmarkedOffered' /\ MarkedGuarded'
<1>1. generation \in Generations /\ LookersStay
  BY DEF StrandInv, TypeOK, HandsStay, LookersStay
<1>2. UnmarkedOffered'
  BY <1>1, PutMessageOffers DEF StrandInv
<1>3. ASSUME NEW g \in inflightGroups' PROVE g \in inflightGroups /\ g # group[m]
  <2>1. receiveCount[m] >= 1
    BY SentMessages DEF StrandInv, TypeOK
  <2> QED BY <1>3, <2>1 DEF PutMessage, Unblocks
<1>4. ASSUME NEW g, g # group[m] PROVE Guarded(g) => Guarded(g)'
  BY <1>4, GuardKept DEF HandsStay
<1> QED BY <1>2, <1>3, <1>4 DEF MarkedGuarded, StrandInv

\* A message is gone, and its group u is looked at.
LEMMA UpdateAttended ==
    ASSUME StrandInv, NEW u, NEW k \in Generations, NEW S,
           UpdateMessageGroupVisibility(u, k, S), HandsStay,
           UNCHANGED <<generation, group, dlqExists, fruitless>>,
           mistaken \subseteq mistaken',
           BecomesVisible(u, S) => k = generation \/ u \in mistaken',
           S \subseteq Range(inflight'),
           \A x \in Range(inflight) : group[x] # u => x \in Range(inflight'),
           \A c \in Consumers : \A x \in Held(c) : group[x] # u => x \in Held(c)'
    PROVE  UnmarkedOffered' /\ MarkedGuarded'
<1>1. LookersStay
  BY DEF HandsStay, LookersStay
<1>2. UnmarkedOffered'
  BY <1>1, UpdateOffers DEF StrandInv
<1>3. ASSUME NEW g \in inflightGroups'
      PROVE  Guarded(g)' \/ ~dlqExists' \/ g \in fruitless'
  <2>1. g \in inflightGroups /\ (g = u => ~BecomesVisible(u, S))
    BY <1>3 DEF UpdateMessageGroupVisibility
  <2>2. CASE g = u
    <3>1. PICK x \in S : group[x] = u
      BY <2>1, <2>2 DEF BecomesVisible
    <3> QED BY <2>2, <3>1 DEF Guarded
  <2>3. CASE g # u
    <3>1. Guarded(g) => Guarded(g)'
      BY <2>3, GuardKept DEF HandsStay
    <3> QED BY <2>1, <3>1 DEF MarkedGuarded, StrandInv
  <2> QED BY <2>2, <2>3
<1> QED BY <1>2, <1>3 DEF MarkedGuarded

\* A new message of an unmarked group queues it if it was empty; for a marked
\* group something else will.
LEMMA PutStoreAttended ==
    ASSUME StrandInv, NEW m \in Messages, PutStore(m)
    PROVE  UnmarkedOffered' /\ MarkedGuarded'
<1> USE DEF messageVars, dlqVars, callVars, resultVars, groupVars
<1>1. PICK from \in Generations :
        /\ <<m, from>> \in creating
        /\ \/ UNCHANGED groupVars
           \/ \E k \in from..generation : PutMessage(m, k)
        /\ fruitless' = fruitless /\ mistaken' = mistaken
  BY DEF PutStore
<1>2. <<m, from>>[1] = m
  OBVIOUS
<1>3. m \in 1..sent /\ ~Unblocks(m)
  BY <1>1, <1>2 DEF StrandInv, TypeOK, CreatingApart, Unblocks
<1>4. CASE UNCHANGED groupVars
  <2>1. QuietStep
    BY <1>1, <1>4 DEF PutStore, QuietStep, HandsStay
  <2> QED BY <2>1, QuietAttended
<1>5. ASSUME NEW k \in from..generation, PutMessage(m, k)
      PROVE  UnmarkedOffered' /\ MarkedGuarded'
  <2>1. k \in Generations
    BY FifoAssumption DEF StrandInv, TypeOK, Generations
  <2>2. UNCHANGED <<generation, group, inflight, pc, current, successful,
                    deadLetters, dlqExists, fruitless, mistaken>>
    BY <1>1 DEF PutStore
  <2> QED BY <1>3, <1>5, <2>1, <2>2, PutAttended
<1> QED BY <1>1, <1>4, <1>5

\* The same of a message whose delay is over.
LEMMA EnqueueAttended ==
    ASSUME StrandInv, NEW m \in Messages, EnqueueDelayed(m)
    PROVE  UnmarkedOffered' /\ MarkedGuarded'
<1>1. m \in 1..sent /\ generation \in Generations /\ PutMessage(m, generation)
  BY DEF StrandInv, TypeOK, EnqueueDelayed
<1>2. UNCHANGED <<generation, group, inflight, pc, current, successful,
                  deadLetters, dlqExists, fruitless, mistaken>>
  BY DEF EnqueueDelayed, messageVars, dlqVars, callVars, resultVars, history
<1> QED BY <1>1, <1>2, PutAttended

\* Messages come back from flight: the worker's requeue pass, or a client that
\* ends a visibility timeout.
LEMMA RequeueAttended ==
    ASSUME StrandInv, NEW m,
           \/ RequeueInflight(m)
           \/ \E h \in issued : h[1] = m /\ UpdateVisibilityTimeout(h, TRUE)
    PROVE  UnmarkedOffered' /\ MarkedGuarded'
<1>1. /\ inflight' = Without(inflight, m) /\ PutMessage(m, generation)
      /\ UNCHANGED <<generation, group, pc, current, successful, deadLetters,
                     dlqExists, fruitless, mistaken>>
  BY DEF RequeueInflight, UpdateVisibilityTimeout, messageVars, dlqVars, callVars,
         resultVars, history
<1>2. inflight \in Seq(1..sent)
  BY DEF StrandInv, TypeOK
<1>3. m \in Range(inflight)
  <2>1. inflight # <<>> => Head(inflight) \in Range(inflight)
    BY <1>2, SeqElements
  <2> QED BY <2>1 DEF RequeueInflight, RequeueNext, UpdateVisibilityTimeout
<1>4. m \in 1..sent /\ receiveCount[m] > 0
  BY <1>3, SentMessages DEF StrandInv, InflightReceived
<1>5. Range(inflight) \subseteq {m} \cup Range(Without(inflight, m))
  BY <1>2, WithoutKeeps
<1>6. \A x \in Range(inflight) : x # m => x \in Range(inflight')
  BY <1>1, <1>5
<1>7. \A c \in Consumers : Held(c)' = Held(c)
  BY <1>1 DEF Held
<1>8. HandsStay
  BY <1>1 DEF HandsStay
<1> QED BY <1>1, <1>4, <1>6, <1>7, <1>8, ReturnAttended

\* A delete that finds no message of the group in flight unmarks the group and
\* queues it.
LEMMA RemoveAttended ==
    ASSUME StrandInv, NEW h \in issued, Remove(h)
    PROVE  UnmarkedOffered' /\ MarkedGuarded'
<1>1. PICK m : m = h[1]
  OBVIOUS
<1>2. /\ inflight' = Without(inflight, m)
      /\ UpdateMessageGroupVisibility(group[m], generation, Range(inflight) \ {m})
      /\ UNCHANGED <<generation, group, pc, current, successful, deadLetters,
                     dlqExists, fruitless, mistaken>>
  BY <1>1 DEF Remove, dlqVars, callVars, resultVars, history
<1>3. inflight \in Seq(1..sent)
  BY DEF StrandInv, TypeOK
<1>4. Range(inflight) \subseteq {m} \cup Range(inflight')
  BY <1>2, <1>3, WithoutKeeps
<1>5. \A c \in Consumers : Held(c)' = Held(c)
  BY <1>2 DEF Held
<1>6. HandsStay
  BY <1>2 DEF HandsStay
<1>7. /\ Range(inflight) \ {m} \subseteq Range(inflight')
      /\ \A x \in Range(inflight) : group[x] # group[m] => x \in Range(inflight')
      /\ \A c \in Consumers : \A x \in Held(c) : group[x] # group[m] => x \in Held(c)'
  BY <1>4, <1>5
<1>8. generation \in Generations
  BY DEF StrandInv, TypeOK
<1> QED BY <1>2, <1>6, <1>7, <1>8, UpdateAttended

\* The steps by which a receive takes, looks at and marks a group.
LEMMA TakeAttended ==
    ASSUME StrandInv, NEW c \in Consumers,
           ReceiveGetGroup(c) \/ ReceiveCheckGroup(c) \/ ReceiveMarkGroup(c)
    PROVE  UnmarkedOffered' /\ MarkedGuarded'
<1> USE DEF groupVars, messageVars, dlqVars, callVars, resultVars, history
<1>1. /\ UNCHANGED <<generation, heap, group, inflight, successful, deadLetters,
                     dlqExists, fruitless, mistaken>>
      /\ inflightGroups \subseteq inflightGroups'
      /\ pc[c] \in {"get", "check", "mark"}
      /\ pc \in [Consumers -> ConsumerSteps]
      /\ \A d \in Consumers \ {c} : pc'[d] = pc[d] /\ current'[d] = current[d]
      /\ \A d \in Consumers : Held(d)' = Held(d)
  BY DEF ReceiveGetGroup, ReceiveCheckGroup, ReceiveMarkGroup, StrandInv, TypeOK, Held
<1>2. ASSUME NEW g PROVE Guarded(g) => Guarded(g)'
  BY <1>1 DEF Guarded
<1>3. CASE ReceiveGetGroup(c)
  <2> DEFINE O == [group : Groups, generation : Generations]
  <2>1. groupQueue \in Seq(O) /\ groupQueue # <<>>
    BY <1>3 DEF ReceiveGetGroup, StrandInv, TypeOK
  <2>2. Range(groupQueue) \subseteq {Head(groupQueue)} \cup Range(Tail(groupQueue))
    <3> HIDE DEF O
    <3> QED BY <2>1, TailKeeps
  <2>3. /\ groupQueue' = Tail(groupQueue) /\ inflightGroups' = inflightGroups
        /\ current'[c] = Head(groupQueue) /\ pc'[c] = "check"
    BY <1>3 DEF ReceiveGetGroup, StrandInv, TypeOK
  <2>4. ASSUME NEW g, Offered(g) PROVE Offered(g)'
    <3>1. CASE Object(g, generation) \in Range(groupQueue)
      BY <1>1, <2>2, <2>3, <3>1 DEF Offered
    <3>2. ASSUME NEW d \in Consumers, pc[d] \in {"check", "mark"},
                 current[d] = Object(g, generation)
          PROVE  Offered(g)'
      <4>1. d # c
        BY <1>3, <3>2 DEF ReceiveGetGroup
      <4> QED BY <1>1, <3>2, <4>1 DEF Offered
    <3> QED BY <2>4, <3>1, <3>2 DEF Offered
  <2> QED BY <1>1, <1>2, <2>3, <2>4 DEF StrandInv, UnmarkedOffered, MarkedGuarded
<1>4. CASE ReceiveCheckGroup(c)
  <2>1. /\ groupQueue' = groupQueue /\ inflightGroups' = inflightGroups
        /\ current' = current
        /\ pc'[c] = IF CurrentHeap(c) = {} THEN "get" ELSE "mark"
    BY <1>4 DEF ReceiveCheckGroup, StrandInv, TypeOK
  <2>2. ASSUME NEW g, Offered(g), heap[generation][g] # {} PROVE Offered(g)'
    <3>1. CASE Object(g, generation) \in Range(groupQueue)
      BY <1>1, <2>1, <3>1 DEF Offered
    <3>2. ASSUME NEW d \in Consumers, pc[d] \in {"check", "mark"},
                 current[d] = Object(g, generation)
          PROVE  Offered(g)'
      <4>1. CASE d # c
        BY <1>1, <3>2, <4>1 DEF Offered
      <4>2. CASE d = c
        <5>1. CurrentHeap(c) # {}
          BY <2>2, <3>2, <4>2 DEF CurrentHeap, Object
        <5> QED BY <1>1, <2>1, <3>2, <4>2, <5>1 DEF Offered
      <4> QED BY <4>1, <4>2
    <3> QED BY <2>2, <3>1, <3>2 DEF Offered
  <2> QED BY <1>1, <1>2, <2>1, <2>2 DEF StrandInv, UnmarkedOffered, MarkedGuarded
<1>5. CASE ReceiveMarkGroup(c)
  <2>1. /\ groupQueue' = groupQueue /\ current' = current /\ pc'[c] = "pop"
        /\ inflightGroups' = inflightGroups \cup {current[c].group}
    BY <1>5 DEF ReceiveMarkGroup, StrandInv, TypeOK
  <2>2. ASSUME NEW g, Offered(g), g # current[c].group PROVE Offered(g)'
    <3>1. CASE Object(g, generation) \in Range(groupQueue)
      BY <1>1, <2>1, <3>1 DEF Offered
    <3>2. ASSUME NEW d \in Consumers, pc[d] \in {"check", "mark"},
                 current[d] = Object(g, generation)
          PROVE  Offered(g)'
      <4>1. d # c
        BY <2>2, <3>2 DEF Object
      <4> QED BY <1>1, <3>2, <4>1 DEF Offered
    <3> QED BY <2>2, <3>1, <3>2 DEF Offered
  <2>3. Guarded(current[c].group)'
    BY <2>1 DEF Guarded
  <2> QED BY <1>1, <1>2, <2>1, <2>2, <2>3
          DEF StrandInv, UnmarkedOffered, MarkedGuarded
<1> QED BY <1>3, <1>4, <1>5

\* A popped message is held by its receive, which guards the group.
LEMMA PopAttended ==
    ASSUME StrandInv, NEW c \in Consumers, NEW m \in Messages, ReceivePop(c, m)
    PROVE  UnmarkedOffered' /\ MarkedGuarded'
<1> USE DEF messageVars, dlqVars, history
<1>1. PICK k \in Generations, u \in Groups :
        /\ k = current[c].generation /\ u = current[c].group
        /\ m \in heap[k][u]
        /\ heap' = [heap EXCEPT ![k][u] = @ \ {m}]
  BY DEF ReceivePop, Holds, StrandInv, TypeOK, CurrentHeap, IsFirst
<1>2. m \in 1..sent /\ group[m] = u
  BY <1>1 DEF StrandInv, TypeOK, GroupsHoldTheirOwn
<1>3. /\ UNCHANGED <<generation, groupQueue, inflightGroups, group, inflight, current,
                     dlqExists, fruitless, mistaken>>
      /\ pc \in [Consumers -> ConsumerSteps] /\ pc[c] \in {"pop", "popping"}
      /\ \A d \in Consumers \ {c} : pc'[d] = pc[d]
      /\ successful[c] \in Seq(1..sent) /\ deadLetters[c] \in Seq(1..sent)
      /\ successful \in [Consumers -> Seq(1..sent)]
      /\ deadLetters \in [Consumers -> Seq(1..sent)]
  BY DEF ReceivePop, Holds, StrandInv, TypeOK
<1>4. \A g \in Groups : heap'[generation][g] \subseteq heap[generation][g]
  BY <1>1 DEF StrandInv, TypeOK
<1>5. LookersStay
  BY <1>3 DEF LookersStay
<1>6. UnmarkedOffered'
  BY <1>3, <1>4, <1>5, OfferKept DEF StrandInv
<1>7. /\ Range(successful[c]) \cup {m} \subseteq Range(Append(successful[c], m))
      /\ Range(deadLetters[c]) \cup {m} \subseteq Range(Append(deadLetters[c], m))
  BY <1>2, <1>3, AppendElements
<1>8. \A d \in Consumers : Held(d) \subseteq Held(d)'
  BY <1>3, <1>7 DEF ReceivePop, Held
<1>9. pc'[c] = "popping" \/ m \in Held(c)'
  BY <1>3, <1>7 DEF ReceivePop, Held
<1>10. ASSUME NEW g PROVE Guarded(g) => Guarded(g)'
  <2>1. CASE g = u
    BY <1>1, <1>2, <1>3, <1>9, <2>1 DEF Guarded
  <2>2. CASE g # u
    <3>1. \A d \in Consumers :
            pc[d] \in {"pop", "popping"} /\ current[d].group = g =>
                pc'[d] \in {"pop", "popping"} /\ current'[d].group = g
      BY <1>1, <1>3, <2>2
    <3> QED BY <1>3, <1>8, <3>1, GuardKept
  <2> QED BY <2>1, <2>2
<1> QED BY <1>3, <1>6, <1>10 DEF StrandInv, MarkedGuarded

\* A receive that leaves a group guards it with what it got of it; if it got
\* nothing, the group is fruitless.
LEMMA PopEmptyAttended ==
    ASSUME StrandInv, NEW c \in Consumers, ReceivePopEmpty(c)
    PROVE  UnmarkedOffered' /\ MarkedGuarded'
<1> USE DEF groupVars, messageVars, dlqVars, resultVars
<1>1. /\ UNCHANGED <<generation, heap, groupQueue, inflightGroups, group, inflight,
                     current, successful, deadLetters, dlqExists, mistaken>>
      /\ pc \in [Consumers -> ConsumerSteps] /\ pc[c] \in {"pop", "popping"}
      /\ \A d \in Consumers \ {c} : pc'[d] = pc[d]
      /\ \A d \in Consumers : Held(d)' = Held(d)
      /\ fruitless \subseteq fruitless'
      /\ (\E m \in Held(c) : group[m] = current[c].group)
            \/ current[c].group \in fruitless'
  BY DEF ReceivePopEmpty, Holds, StrandInv, TypeOK, Held
<1>2. LookersStay
  BY <1>1 DEF LookersStay
<1>3. UnmarkedOffered'
  BY <1>1, <1>2, OfferKept DEF StrandInv
<1>4. ASSUME NEW g, Guarded(g) PROVE Guarded(g)' \/ g \in fruitless'
  <2>1. CASE g = current[c].group
    BY <1>1, <2>1 DEF Guarded
  <2>2. CASE g # current[c].group
    BY <1>1, <1>4, <2>2 DEF Guarded
  <2> QED BY <2>1, <2>2
<1> QED BY <1>1, <1>3, <1>4 DEF StrandInv, MarkedGuarded

\* A message passes from the hands of its receive to the dict of those in flight,
\* or returns to its group and reopens it.
LEMMA FinishAttended ==
    ASSUME StrandInv, NEW c \in Consumers, ReceiveFinish(c)
    PROVE  UnmarkedOffered' /\ MarkedGuarded'
<1> USE DEF groupVars, messageVars, dlqVars, history
<1>1. PICK m : m = Head(successful[c])
  OBVIOUS
<1>2. successful[c] \in Seq(1..sent) /\ successful[c] # <<>>
  BY DEF ReceiveFinish, StrandInv, TypeOK
<1>3. /\ m \in 1..sent /\ m \in Range(successful[c])
      /\ Range(successful[c]) \subseteq {m} \cup Range(Tail(successful[c]))
  BY <1>1, <1>2, SeqElements, TailKeeps
<1>4. receiveCount[m] > 0
  BY <1>3 DEF StrandInv, HandlesOfReceived
<1>5. /\ UNCHANGED <<generation, group, current, deadLetters, dlqExists, fruitless, mistaken>>
      /\ pc \in [Consumers -> ConsumerSteps]
      /\ successful' = [successful EXCEPT ![c] = Tail(@)]
      /\ successful \in [Consumers -> Seq(1..sent)]
      /\ \A d \in Consumers \ {c} : pc'[d] = pc[d]
      /\ pc[c] \in {"finish", "finishing"}
  BY DEF ReceiveFinish, Holds, StrandInv, TypeOK
<1>6. HandsStay
  BY <1>5 DEF HandsStay
<1>7. \A d \in Consumers : \A x \in Held(d) : x # m => x \in Held(d)'
  BY <1>3, <1>5 DEF Held
<1>8. CASE PutMessage(m, generation) /\ UNCHANGED inflight
  BY <1>3, <1>4, <1>5, <1>6, <1>7, <1>8, ReturnAttended
<1>9. CASE inflight' = With(inflight, m) /\ UNCHANGED groupVars
  <2>1. inflight \in Seq(1..sent)
    BY DEF StrandInv, TypeOK
  <2>2. Range(inflight) \cup {m} \subseteq Range(inflight')
    BY <1>3, <1>9, <2>1, WithKeeps
  <2>3. LookersStay
    BY <1>6 DEF HandsStay, LookersStay
  <2>4. UnmarkedOffered'
    BY <1>5, <1>9, <2>3, OfferKept DEF StrandInv
  <2>5. ASSUME NEW g PROVE Guarded(g) => Guarded(g)'
    <3>1. \A d \in Consumers : \A x \in Held(d) :
            x \in Held(d)' \cup Range(inflight')
      BY <1>7, <2>2
    <3> QED BY <1>5, <1>6, <2>2, <3>1, GuardKept DEF HandsStay
  <2> QED BY <1>5, <1>9, <2>4, <2>5 DEF StrandInv, MarkedGuarded
<1> QED BY <1>1, <1>8, <1>9 DEF ReceiveFinish

\* A dead letter guards its group until it was put to its queue and the group is
\* checked as after a delete; a check with an object from before a purge and a
\* receive that finds no queue are the other exceptions.
LEMMA DeadLetterAttended ==
    ASSUME StrandInv, NEW c \in Consumers,
           DeadLetterLookup(c) \/ DeadLetterPut(c) \/ DeadLetterUpdate(c)
    PROVE  UnmarkedOffered' /\ MarkedGuarded'
<1> USE DEF groupVars, messageVars, dlqVars, history
<1>1. CASE DeadLetterLookup(c)
  <2>1. HandsStay /\ LookersStay
    BY <1>1 DEF DeadLetterLookup, StrandInv, TypeOK, HandsStay, LookersStay
  <2>2. UnmarkedOffered'
    BY <1>1, <2>1, OfferKept DEF DeadLetterLookup, StrandInv
  <2>3. CASE dlqExists /\ UNCHANGED deadLetters
    <3>1. QuietStep
      BY <1>1, <2>1, <2>3 DEF DeadLetterLookup, QuietStep
    <3> QED BY <3>1, QuietAttended
  <2>4. CASE ~dlqExists
    BY <1>1, <2>2, <2>4 DEF DeadLetterLookup, MarkedGuarded
  <2> QED BY <1>1, <2>3, <2>4 DEF DeadLetterLookup
<1>2. CASE DeadLetterPut(c)
  <2>1. HandsStay
    BY <1>2 DEF DeadLetterPut, StrandInv, TypeOK, HandsStay
  <2>2. QuietStep
    BY <1>2, <2>1 DEF DeadLetterPut, QuietStep
  <2> QED BY <2>2, QuietAttended
<1>3. CASE DeadLetterUpdate(c)
  <2>1. PICK m, k : m = Head(deadLetters[c]) /\ k = current[c].generation
    OBVIOUS
  <2>2. /\ deadLetters[c] \in Seq(1..sent) /\ deadLetters[c] # <<>>
        /\ k \in Generations /\ generation \in Generations
    BY <1>3, <2>1 DEF DeadLetterUpdate, StrandInv, TypeOK
  <2>3. Range(deadLetters[c]) \subseteq {m} \cup Range(Tail(deadLetters[c]))
    BY <2>1, <2>2, TailKeeps
  <2>4. /\ UNCHANGED <<generation, group, dlqExists, fruitless, inflight, current,
                       successful>>
        /\ deadLetters' = [deadLetters EXCEPT ![c] = Tail(@)]
        /\ deadLetters \in [Consumers -> Seq(1..sent)]
        /\ UpdateMessageGroupVisibility(group[m], k, Range(inflight))
        /\ mistaken' = IF k # generation /\ BecomesVisible(group[m], Range(inflight))
                       THEN mistaken \cup {group[m]} ELSE mistaken
    BY <1>3, <2>1 DEF DeadLetterUpdate, StrandInv, TypeOK
  <2>5. HandsStay
    BY <1>3, <2>4 DEF DeadLetterUpdate, StrandInv, TypeOK, HandsStay
  <2>6. /\ \A x \in Range(inflight) : group[x] # group[m] => x \in Range(inflight')
        /\ \A d \in Consumers : \A x \in Held(d) : group[x] # group[m] => x \in Held(d)'
        /\ Range(inflight) \subseteq Range(inflight')
    BY <2>3, <2>4 DEF Held
  <2>7. /\ mistaken \subseteq mistaken'
        /\ BecomesVisible(group[m], Range(inflight)) =>
              k = generation \/ group[m] \in mistaken'
    BY <2>4
  <2> QED BY <2>2, <2>4, <2>5, <2>6, <2>7, UpdateAttended
<1> QED BY <1>1, <1>2, <1>3

\* A purge leaves no messages and no marks.
LEMMA ClearAttended ==
    ASSUME StrandInv, Clear
    PROVE  UnmarkedOffered' /\ MarkedGuarded'
<1>1. /\ generation' = generation + 1 /\ generation' \in Generations
      /\ generation' > generation /\ heap' = heap /\ inflightGroups' = {}
  BY FifoAssumption DEF Clear, StrandInv, TypeOK, Generations
<1>2. \A g \in Groups : heap'[generation'][g] = {}
  BY <1>1 DEF StrandInv, NoFutureGroups
<1> QED BY <1>1, <1>2 DEF UnmarkedOffered, MarkedGuarded

\* Every step strands nothing.
LEMMA AttendedStep ==
    ASSUME StrandInv, [Next]_vars
    PROVE  UnmarkedOffered' /\ MarkedGuarded'
<1>1. TypeOK
  BY DEF StrandInv
<1>2. ASSUME NEW c \in Consumers, Receive(c)
      PROVE  UnmarkedOffered' /\ MarkedGuarded'
  BY <1>1, <1>2, QuietCases, QuietAttended, TakeAttended, PopAttended,
     PopEmptyAttended, FinishAttended, DeadLetterAttended DEF Receive
<1>3. CASE Worker
  BY <1>1, <1>3, QuietCases, QuietAttended, RequeueAttended, EnqueueAttended
     DEF Worker
<1>4. ASSUME NEW h \in issued, NEW zero \in BOOLEAN,
             Remove(h) \/ RemoveKeyError(h) \/ UpdateVisibilityTimeout(h, zero)
      PROVE  UnmarkedOffered' /\ MarkedGuarded'
  <2>1. CASE UpdateVisibilityTimeout(h, TRUE)
    BY <2>1, RequeueAttended
  <2>2. CASE RemoveKeyError(h) \/ UpdateVisibilityTimeout(h, FALSE)
    BY <1>1, <2>2, QuietCases, QuietAttended
  <2> QED BY <1>4, <2>1, <2>2, RemoveAttended
<1>5. CASE \/ \E g \in Groups : PutCreate(g)
           \/ \E m \in Messages : VisibilityElapses(m)
           \/ DelayElapses \/ Age \/ DeleteDlq
           \/ \E c \in Consumers, zero \in BOOLEAN : ReceiveStart(c, zero)
           \/ UNCHANGED vars
  BY <1>1, <1>5, QuietCases, QuietAttended
<1> QED BY <1>2, <1>3, <1>4, <1>5, PutStoreAttended, ClearAttended DEF Next

\* No group has messages.
LEMMA InitStrand == Init => StrandInv
<1> SUFFICES ASSUME Init PROVE StrandInv
  OBVIOUS
<1>1. TypeOK
  BY InitTyped
<1>2. /\ sent = 0 /\ creating = {} /\ deleted = {} /\ issued = {}
      /\ heap = [k \in Generations |-> [g \in Groups |-> {}]]
      /\ receiveCount = [m \in Messages |-> 0]
      /\ successful = [c \in Consumers |-> <<>>]
      /\ result = [c \in Consumers |-> {}]
      /\ inflight = <<>> /\ inflightGroups = {} /\ generation \in Generations
  BY <1>1 DEF Init, TypeOK
<1>3. /\ \A c \in Consumers : Range(successful[c]) = {}
      /\ Range(inflight) = {}
  BY <1>2 DEF Range
<1>4. HandlesOfReceived /\ InflightReceived
  BY <1>2, <1>3 DEF HandlesOfReceived, InflightReceived
<1>5. /\ GroupsHoldTheirOwn /\ NoFutureGroups /\ UnsentNotReceived
      /\ CreatingApart /\ UnmarkedOffered /\ MarkedGuarded
  BY <1>2 DEF GroupsHoldTheirOwn, NoFutureGroups, UnsentNotReceived, CreatingApart,
       UnmarkedOffered, MarkedGuarded
<1> QED BY <1>1, <1>4, <1>5 DEF StrandInv

\* Every step keeps the invariant.
LEMMA StrandStep == StrandInv /\ [Next]_vars => StrandInv'
<1> SUFFICES ASSUME StrandInv, [Next]_vars PROVE StrandInv'
  OBVIOUS
<1>1. TypeOK' /\ HandlesOfReceived' /\ GroupsHoldTheirOwn' /\ NoFutureGroups'
      /\ UnsentNotReceived' /\ InflightReceived'
  BY StepTyped, HandlesStep, GroupsStep, UnsentStep, InflightStep DEF StrandInv
<1>2. CreatingApart' /\ UnmarkedOffered' /\ MarkedGuarded'
  BY CreatingStep, AttendedStep
<1> QED BY <1>1, <1>2 DEF StrandInv

\* A group that is marked is guarded, one that is not is offered: either way
\* it is attended.
LEMMA StrandImplies == StrandInv => NoStrandedGroup
<1> SUFFICES ASSUME StrandInv, NEW g \in Groups, heap[generation][g] # {}
             PROVE  \/ Attended(g) \/ ~dlqExists \/ g \in fruitless \cap inflightGroups
                    \/ g \in mistaken \ inflightGroups
  BY DEF NoStrandedGroup
<1>1. CASE g \in inflightGroups
  <2>1. Guarded(g) => Attended(g)
    BY DEF Guarded, Attended
  <2> QED BY <1>1, <2>1 DEF StrandInv, MarkedGuarded
<1>2. CASE g \notin inflightGroups
  <2>1. Offered(g) \/ g \in mistaken
    BY <1>2 DEF StrandInv, UnmarkedOffered
  <2>2. Object(g, generation).group = g
    BY DEF Object
  <2> QED BY <1>2, <2>1, <2>2 DEF Offered, Attended
<1> QED BY <1>1, <1>2

\* A group with waiting messages is always queued, or a receive or a message
\* in flight stands for it, whatever receives, deletes, purges, timeouts and
\* dead letters do to it in between, unless a receive marked it and found it
\* empty, a receive with a dead letter unmarked it with its object from before
\* a purge, or the dead-letter queue is gone.
THEOREM GroupsNotStranded == Spec => []NoStrandedGroup
  BY InitStrand, StrandStep, StrandImplies, PTL DEF Spec
==============================================================================

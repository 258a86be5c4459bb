-------------------------- MODULE SqsDeliveryProofs --------------------------
(***************************************************************************)
(* Proofs about what happens to the messages of a standard queue, for any  *)
(* number of messages, consumers and calls: none is lost, none reaches     *)
(* clients beyond the receive limit, none is delivered by a receive that   *)
(* starts after its deletion, and the latest receipt handle of a message   *)
(* in flight works.  They rest on PlaceInv of SqsStandardQueueProofs.      *)
(***************************************************************************)
EXTENDS SqsStandardQueueProofs

USE QueueAssumption

-----------------------------------------------------------------------------
(* What each step does to the places of the messages                       *)

\* Message m is a dead letter: handed over, or on its way there.
Dead(m) == m \in dlq \/ \E c \in Consumers : m \in Range(deadLetters[c])

\* A receive has counted m, or m is in flight.
Out(m) == m \in inflight \/ \E c \in Consumers : m \in Range(successful[c])

\* Message m was deleted or discarded.
Gone(m) == m \in deleted \cup purged \cup expired \cup undeliverable

\* A step leaves m where it is, as far as anyone but the queue can tell.
Stays(m) ==
    /\ Somewhere(m)' <=> Somewhere(m)
    /\ Dead(m)' <=> Dead(m)
    /\ Out(m)' <=> Out(m)

\* A message is in one place only, told in terms of the parts of a call.
LEMMA OnePlaceFacts ==
    ASSUME PlaceInv
    PROVE  /\ \A m \in Messages : ~(Dead(m) /\ Out(m))
           /\ \A m \in Messages : visible[m] > 0 => ~Dead(m) /\ ~Out(m)
           /\ \A m \in delayed : ~Dead(m) /\ ~Out(m)
           /\ \A m \in inflight : ~Dead(m) /\ visible[m] = 0 /\ m \notin delayed
           /\ \A m \in inflight : \A c \in Consumers : m \notin Range(successful[c])
           /\ \A c \in Consumers : pc[c] = "take" =>
                 /\ popped[c] \in Messages
                 /\ ~Dead(popped[c]) /\ ~Out(popped[c])
                 /\ Somewhere(popped[c])
                 /\ visible[popped[c]] = 0
                 /\ popped[c] \notin delayed \cup inflight
                 /\ \A d \in Consumers \ {c} : popped[c] \notin Held(d)
           /\ \A c, d \in Consumers : c # d =>
                 /\ Range(successful[c]) \cap Range(successful[d]) = {}
                 /\ Range(deadLetters[c]) \cap Range(deadLetters[d]) = {}
           /\ \A m \in Messages : Dead(m) => Somewhere(m)
           /\ \A m \in Messages : Out(m) => Somewhere(m)
           /\ \A m \in Messages : Somewhere(m) => m <= sent
<1>1. /\ TypeOK /\ SinglePlace /\ UnsentNowhere
      /\ visible \in [Messages -> Nat]
      /\ delayed \subseteq Messages /\ inflight \subseteq Messages
      /\ dlq \subseteq Messages /\ sent \in Nat
  BY DEF PlaceInv, TypeOK
<1>2. \A c \in Consumers :
         /\ Held(c) \subseteq Messages
         /\ Range(successful[c]) \subseteq Held(c)
         /\ Range(deadLetters[c]) \subseteq Held(c)
         /\ Range(successful[c]) \cap Range(deadLetters[c]) = {}
  <2>1. \A c \in Consumers : Range(successful[c]) \cap Range(deadLetters[c]) = {}
    BY <1>1 DEF SinglePlace, HeldOnce
  <2>2. \A c \in Consumers : Held(c) \subseteq Messages
    BY <1>1 DEF TypeOK, Held, Range
  <2> QED BY <2>1, <2>2 DEF Held
<1>3. \A c \in Consumers : \A m \in Held(c) :
         /\ visible[m] = 0 /\ m \notin inflight \cup delayed \cup dlq
         /\ \A d \in Consumers \ {c} : m \notin Held(d)
  BY <1>1 DEF SinglePlace
<1>4. \A m \in Messages :
         /\ visible[m] > 0 => m \notin inflight \cup delayed \cup dlq
         /\ m \in inflight => m \notin delayed \cup dlq /\ visible[m] = 0
         /\ m \in delayed => m \notin dlq
  BY <1>1 DEF SinglePlace
<1>5. \A m \in Messages : ~(Dead(m) /\ Out(m))
  BY <1>2, <1>3, <1>4 DEF Dead, Out
<1>6. /\ \A m \in Messages : visible[m] > 0 => ~Dead(m) /\ ~Out(m)
      /\ \A m \in delayed : ~Dead(m) /\ ~Out(m)
      /\ \A m \in inflight : ~Dead(m) /\ visible[m] = 0 /\ m \notin delayed
      /\ \A m \in inflight : \A c \in Consumers : m \notin Range(successful[c])
  BY <1>1, <1>2, <1>3, <1>4 DEF Dead, Out
<1>7. ASSUME NEW c \in Consumers, pc[c] = "take"
      PROVE  /\ popped[c] \in Messages
             /\ ~Dead(popped[c]) /\ ~Out(popped[c])
             /\ Somewhere(popped[c])
             /\ visible[popped[c]] = 0
             /\ popped[c] \notin delayed \cup inflight
             /\ \A d \in Consumers \ {c} : popped[c] \notin Held(d)
  <2>1. popped[c] \in Held(c) /\ popped[c] \in Messages
    BY <1>2, <1>7 DEF Held
  <2>2. popped[c] \notin Range(successful[c]) \cup Range(deadLetters[c])
    BY <1>1, <1>7 DEF SinglePlace, HeldOnce
  <2> QED BY <1>2, <1>3, <2>1, <2>2 DEF Dead, Out, Somewhere
<1>8. /\ \A c, d \in Consumers : c # d =>
            /\ Range(successful[c]) \cap Range(successful[d]) = {}
            /\ Range(deadLetters[c]) \cap Range(deadLetters[d]) = {}
      /\ \A m \in Messages : Dead(m) => Somewhere(m)
      /\ \A m \in Messages : Out(m) => Somewhere(m)
  BY <1>2, <1>3 DEF Dead, Out, Somewhere
<1>9. \A m \in Messages : Somewhere(m) => m <= sent
  <2>1. \A m \in Messages : m \in Nat
    BY DEF Messages
  <2> QED BY <1>1, <2>1 DEF UnsentNowhere
<1> QED BY <1>5, <1>6, <1>7, <1>8, <1>9

\* A step that touches none of the containers leaves every message in place.
LEMMA QuietStays ==
    ASSUME UNCHANGED <<delayed, visible, inflight, dlq, successful, deadLetters>>,
           \A c \in Consumers : Held(c)' = Held(c)
    PROVE  \A m \in Messages : Stays(m)
BY DEF Stays, Somewhere, Dead, Out

\* StandardQueue.put adds the new message n and moves no other.
LEMMA PutMoves ==
    ASSUME PlaceInv, Put, NEW n, n = sent + 1
    PROVE  /\ sent' = n /\ n \in Messages
           /\ \A m \in Messages \ {n} : Stays(m)
           /\ ~Somewhere(n) /\ Somewhere(n)' /\ ~Dead(n)' /\ ~Out(n)'
<1>1. TypeOK /\ visible \in [Messages -> Nat] /\ sent' = n
  BY DEF PlaceInv, TypeOK, Put
<1>2. n \in Messages /\ n > sent
  BY <1>1 DEF TypeOK, Put, Messages
<1>3. ~Somewhere(n) /\ ~Dead(n) /\ ~Out(n)
  BY <1>2, OnePlaceFacts DEF PlaceInv, UnsentNowhere
<1>4. \A c \in Consumers : Held(c)' = Held(c)
  BY HeldStable DEF Put, heldVars, callVars
<1>5. UNCHANGED <<inflight, dlq, successful, deadLetters>>
  BY DEF Put, storeVars, callVars
<1>6. /\ delayed' \ {n} = delayed \ {n}
      /\ \A m \in Messages \ {n} : visible'[m] = visible[m]
      /\ n \in delayed' \/ visible'[n] > 0
  BY <1>1, <1>2, PutAllFact DEF Put
<1>7. \A m \in Messages \ {n} : Stays(m)
  BY <1>4, <1>5, <1>6 DEF Stays, Somewhere, Dead, Out
<1>8. Somewhere(n)' /\ ~Dead(n)' /\ ~Out(n)'
  BY <1>2, <1>3, <1>5, <1>6 DEF Somewhere, Dead, Out
<1> QED BY <1>1, <1>2, <1>3, <1>7, <1>8

\* InterruptibleQueue.get moves a message from the heap into the hands of
\* the call.
LEMMA GetMoves ==
    ASSUME PlaceInv, NEW c \in Consumers, NEW n \in Messages, ReceiveGet(c, n)
    PROVE  \A m \in Messages : Stays(m)
<1>1. TypeOK /\ visible \in [Messages -> Nat]
  BY DEF PlaceInv, TypeOK
<1>2. UNCHANGED <<delayed, inflight, dlq, successful, deadLetters>>
  BY DEF ReceiveGet, storeVars
<1>3. /\ Held(c)' = Held(c) \cup {n}
      /\ \A d \in Consumers \ {c} : Held(d)' = Held(d)
  BY <1>1 DEF ReceiveGet, Held, TypeOK
<1>4. visible[n] > 0 /\ \A m \in Messages \ {n} : visible'[m] = visible[m]
  BY <1>1 DEF ReceiveGet, IsFirst
<1>5. \A m \in Messages \ {n} : Stays(m)
  BY <1>2, <1>3, <1>4 DEF Stays, Somewhere, Dead, Out
<1>6. Stays(n)
  BY <1>2, <1>3, <1>4 DEF Stays, Somewhere, Dead, Out
<1> QED BY <1>5, <1>6

\* A popped message that was deleted meanwhile is dropped.
LEMMA SkipMoves ==
    ASSUME PlaceInv, NEW c \in Consumers, ReceiveSkipDeleted(c),
           NEW n, n = popped[c]
    PROVE  /\ \A m \in Messages \ {n} : Stays(m)
           /\ n \in deleted
           /\ ~Dead(n) /\ ~Dead(n)'
           /\ ~Somewhere(n)'
<1>1. TypeOK /\ pc[c] = "take" /\ n \in deleted
  BY DEF PlaceInv, ReceiveSkipDeleted, IsDeleted
<1>2. /\ n \in Messages
      /\ ~Dead(n) /\ ~Out(n)
      /\ visible[n] = 0
      /\ n \notin delayed \cup inflight
      /\ \A d \in Consumers \ {c} : n \notin Held(d)
  BY <1>1, OnePlaceFacts
<1>3. UNCHANGED <<delayed, visible, inflight, dlq, successful, deadLetters>>
  BY DEF ReceiveSkipDeleted, queueVars, places, storeVars
<1>4. /\ Held(c) = Held(c)' \cup {n} /\ n \notin Held(c)'
      /\ \A d \in Consumers \ {c} : Held(d)' = Held(d)
  <2>1. Held(c) = Held(c)' \cup {n}
    BY <1>1 DEF ReceiveSkipDeleted, Held, TypeOK
  <2>2. n \notin Held(c)'
    BY <1>1, <1>2 DEF ReceiveSkipDeleted, Held, TypeOK, Dead, Out
  <2>3. \A d \in Consumers \ {c} : Held(d)' = Held(d)
    BY <1>1 DEF ReceiveSkipDeleted, Held, TypeOK
  <2> QED BY <2>1, <2>2, <2>3
<1>5. \A m \in Messages \ {n} : Stays(m)
  BY <1>3, <1>4 DEF Stays, Somewhere, Dead, Out
<1>6. ~Dead(n)' /\ ~Somewhere(n)'
  BY <1>2, <1>3, <1>4 DEF Somewhere, Dead, Out
<1> QED BY <1>1, <1>2, <1>5, <1>6

\* The popped message becomes a successful one or a dead letter of the call.
LEMMA TakeMoves ==
    ASSUME PlaceInv, NEW c \in Consumers, ReceiveTake(c),
           NEW n, n = popped[c]
    PROVE  /\ n \in Messages \ deleted
           /\ \A m \in Messages \ {n} : Stays(m)
           /\ Somewhere(n) /\ Somewhere(n)'
           /\ ~Dead(n) /\ ~Out(n)
           /\ ExceedsLimit(receiveCount[n] + 1) => Dead(n)'
           /\ ~ExceedsLimit(receiveCount[n] + 1) =>
                  ~Dead(n)' /\ Out(n)'
<1>1. TypeOK /\ pc[c] = "take" /\ n \in Messages \ deleted
  BY DEF PlaceInv, TypeOK, ReceiveTake, IsDeleted
<1>2. Somewhere(n) /\ ~Dead(n) /\ ~Out(n)
  BY <1>1, OnePlaceFacts
<1>3. /\ Range(Append(successful[c], n)) = Range(successful[c]) \cup {n}
      /\ Range(Append(deadLetters[c], n)) = Range(deadLetters[c]) \cup {n}
  BY <1>1, AppendRange DEF TypeOK
<1>4. UNCHANGED <<delayed, visible, inflight, dlq>>
  BY DEF ReceiveTake, places, storeVars
<1>5. \A d \in Consumers \ {c} :
         /\ successful'[d] = successful[d] /\ deadLetters'[d] = deadLetters[d]
         /\ pc'[d] = pc[d] /\ popped'[d] = popped[d]
  BY <1>1 DEF ReceiveTake, TypeOK
<1>6. pc'[c] # "take"
  BY <1>1 DEF ReceiveTake, TypeOK
<1>7. /\ ExceedsLimit(receiveCount[n] + 1) =>
             /\ successful' = successful
             /\ deadLetters'[c] = Append(deadLetters[c], n)
      /\ ~ExceedsLimit(receiveCount[n] + 1) =>
             /\ deadLetters' = deadLetters
             /\ successful'[c] = Append(successful[c], n)
  BY <1>1 DEF ReceiveTake, TypeOK
<1>8. \A d \in Consumers : Held(d)' = Held(d)
  <2>1. Held(c)' = Held(c)
    BY <1>1, <1>3, <1>6, <1>7 DEF Held
  <2>2. \A d \in Consumers \ {c} : Held(d)' = Held(d)
    BY <1>5 DEF Held
  <2> QED BY <2>1, <2>2
<1>9. \A m \in Messages : Somewhere(m)' <=> Somewhere(m)
  BY <1>4, <1>8 DEF Somewhere
<1>10. CASE ExceedsLimit(receiveCount[n] + 1)
  <2>1. \A m \in Messages : Dead(m)' <=> Dead(m) \/ m = n
    BY <1>3, <1>4, <1>5, <1>7, <1>10 DEF Dead
  <2>2. \A m \in Messages : Out(m)' <=> Out(m)
    BY <1>4, <1>7, <1>10 DEF Out
  <2> QED BY <1>1, <1>2, <1>9, <1>10, <2>1, <2>2 DEF Stays
<1>11. CASE ~ExceedsLimit(receiveCount[n] + 1)
  <2>1. \A m \in Messages : Out(m)' <=> Out(m) \/ m = n
    BY <1>3, <1>4, <1>5, <1>7, <1>11 DEF Out
  <2>2. \A m \in Messages : Dead(m)' <=> Dead(m)
    BY <1>4, <1>7, <1>11 DEF Dead
  <2> QED BY <1>1, <1>2, <1>9, <1>11, <2>1, <2>2 DEF Stays
<1> QED BY <1>10, <1>11

\* The message a handle was made for goes in flight or back on the heap.
LEMMA HideMoves ==
    ASSUME PlaceInv, NEW c \in Consumers, ReceiveHide(c),
           NEW n, n = Head(successful[c])
    PROVE  /\ n \in Messages /\ Out(n) /\ ~Dead(n) /\ n \in Range(successful[c])
           /\ \A m \in Messages \ {n} : Stays(m)
           /\ Somewhere(n) /\ Somewhere(n)' /\ ~Dead(n)'
           /\ Out(n)' <=> ~zeroTimeout[c]
<1>1. TypeOK /\ pc[c] = "hide" /\ visible \in [Messages -> Nat]
  BY DEF PlaceInv, TypeOK, ReceiveHide
<1>2. /\ n \in Messages
      /\ Range(successful[c]) = {n} \cup Range(Tail(successful[c]))
      /\ n \notin Range(Tail(successful[c]))
  <2>1. /\ successful[c] \in Seq(Messages) /\ successful[c] # <<>>
        /\ IsInjective(successful[c])
    BY <1>1 DEF PlaceInv, SinglePlace, TypeOK, HeldOnce
  <2> QED BY <2>1, TailRange
<1>3. Out(n) /\ ~Dead(n) /\ Somewhere(n) /\ n \notin inflight
  BY <1>2, OnePlaceFacts DEF Out
<1>4. /\ pc' = [pc EXCEPT ![c] = "handle"] /\ popped' = popped
      /\ deadLetters' = deadLetters
      /\ delayed' = delayed /\ dlq' = dlq
      /\ successful'[c] = Tail(successful[c])
      /\ \A d \in Consumers \ {c} : successful'[d] = successful[d]
  BY <1>1 DEF ReceiveHide, TypeOK, storeVars
<1>5. \A d \in Consumers \ {c} : n \notin Range(successful[d])
  BY <1>2, OnePlaceFacts
<1>6. \/ /\ zeroTimeout[c] /\ inflight' = inflight
         /\ \A x \in Messages : visible'[x] = IF x = n THEN visible[x] + 1 ELSE visible[x]
      \/ ~zeroTimeout[c] /\ inflight' = inflight \cup {n} /\ visible' = visible
  BY <1>1, PutAllFact DEF ReceiveHide
<1>7. \A m \in Messages : Dead(m)' <=> Dead(m)
  BY <1>4 DEF Dead
<1>8. \A m \in Messages \ {n} : Out(m)' <=> Out(m)
  BY <1>2, <1>4, <1>6 DEF Out
<1>9. Out(n)' <=> ~zeroTimeout[c]
  BY <1>2, <1>3, <1>4, <1>5, <1>6 DEF Out
<1>10. \A d \in Consumers : Held(d)' \cup {n} = Held(d) \cup {n}
  <2>1. Held(c)' \cup {n} = Held(c) \cup {n}
    BY <1>1, <1>2, <1>4 DEF Held, TypeOK
  <2>2. \A d \in Consumers \ {c} : Held(d)' = Held(d)
    BY <1>1, <1>4 DEF Held, TypeOK
  <2> QED BY <2>1, <2>2
<1>11. \A m \in Messages \ {n} : Somewhere(m)' <=> Somewhere(m)
  BY <1>4, <1>6, <1>10 DEF Somewhere
<1>12. Somewhere(n)'
  BY <1>1, <1>2, <1>6 DEF Somewhere
<1> QED BY <1>2, <1>3, <1>7, <1>8, <1>9, <1>11, <1>12 DEF Stays

\* A receive call without a dead-letter target drops its dead letters D.
LEMMA MissingMoves ==
    ASSUME PlaceInv, NEW c \in Consumers, DeadLetterMissing(c),
           NEW D, D = Range(deadLetters[c])
    PROVE  /\ D \subseteq Messages
           /\ undeliverable' = undeliverable \cup D
           /\ \A m \in Messages \ D : Stays(m)
           /\ \A m \in D : Dead(m) /\ ~Dead(m)' /\ ~Somewhere(m)'
<1>1. TypeOK /\ pc[c] = "handle" /\ visible \in [Messages -> Nat]
  BY DEF PlaceInv, TypeOK, DeadLetterMissing
<1>2. D \subseteq Messages /\ undeliverable' = undeliverable \cup D
  BY <1>1 DEF DeadLetterMissing, TypeOK, Range
<1>3. /\ UNCHANGED <<delayed, visible, inflight, dlq, successful, popped>>
      /\ deadLetters'[c] = <<>>
      /\ \A d \in Consumers \ {c} :
            deadLetters'[d] = deadLetters[d] /\ pc'[d] = pc[d]
      /\ pc'[c] # "take"
  BY <1>1 DEF DeadLetterMissing, queueVars, places, storeVars, TypeOK
<1>4. Range(<<>>) = {}
  BY DEF Range
<1>5. Held(c)' = Range(successful[c])
  BY <1>3, <1>4 DEF Held
<1>6. Held(c) = Range(successful[c]) \cup D
  BY <1>1 DEF Held
<1>7. \A d \in Consumers \ {c} : Held(d)' = Held(d)
  BY <1>3 DEF Held
<1>8. \A m \in D : /\ visible[m] = 0
                   /\ m \notin delayed \cup inflight \cup dlq
                   /\ m \notin Range(successful[c])
                   /\ \A d \in Consumers \ {c} : m \notin Held(d)
  <2>1. Range(successful[c]) \cap D = {} /\ D \subseteq Held(c)
    BY <1>6 DEF PlaceInv, SinglePlace, HeldOnce
  <2> QED BY <2>1 DEF PlaceInv, SinglePlace
<1>9. \A m \in Messages \ D : Stays(m)
  <2>1. \A m \in Messages \ D : Somewhere(m)' <=> Somewhere(m)
    BY <1>3, <1>5, <1>6, <1>7 DEF Somewhere
  <2>2. \A m \in Messages \ D : Dead(m)' <=> Dead(m)
    BY <1>3, <1>4 DEF Dead
  <2>3. \A m \in Messages \ D : Out(m)' <=> Out(m)
    BY <1>3 DEF Out
  <2> QED BY <2>1, <2>2, <2>3 DEF Stays
<1>10. \A m \in D : ~Somewhere(m)'
  BY <1>1, <1>2, <1>3, <1>5, <1>7, <1>8 DEF Somewhere
<1>11. \A d \in Consumers : Range(deadLetters'[d]) \subseteq Held(d)'
  BY DEF Held
<1>12. \A m \in D : Dead(m) /\ ~Dead(m)'
  BY <1>2, <1>3, <1>10, <1>11 DEF Dead, Somewhere
<1> QED BY <1>2, <1>9, <1>10, <1>12

\* dl_queue.put: a dead letter of the call becomes one of the target queue.
LEMMA HandOverMoves ==
    ASSUME PlaceInv, NEW c \in Consumers, DeadLetterPut(c)
    PROVE  \A m \in Messages : Stays(m)
<1> DEFINE n == Head(deadLetters[c])
<1>1. TypeOK /\ deadLetters[c] \in Seq(Messages) /\ deadLetters[c] # <<>>
  BY DEF PlaceInv, TypeOK, DeadLetterPut
<1>2. /\ n \in Messages
      /\ Range(deadLetters[c]) = {n} \cup Range(Tail(deadLetters[c]))
  BY <1>1, TailRange
<1>3. /\ UNCHANGED <<delayed, visible, inflight, successful, popped, pc>>
      /\ dlq' = dlq \cup {n}
      /\ deadLetters'[c] = Tail(deadLetters[c])
      /\ \A d \in Consumers \ {c} : deadLetters'[d] = deadLetters[d]
  BY <1>1 DEF DeadLetterPut, places, TypeOK
<1> HIDE DEF n
<1>4. \A m \in Messages : Dead(m)' <=> Dead(m)
  BY <1>2, <1>3 DEF Dead
<1>5. \A m \in Messages : Out(m)' <=> Out(m)
  BY <1>3 DEF Out
<1>6. /\ Held(c)' \cup {n} = Held(c)
      /\ \A d \in Consumers \ {c} : Held(d)' = Held(d)
  BY <1>2, <1>3 DEF Held
<1>7. \A m \in Messages : Somewhere(m)' <=> Somewhere(m)
  BY <1>2, <1>3, <1>6 DEF Somewhere
<1> QED BY <1>4, <1>5, <1>7 DEF Stays

\* SqsQueue.remove, whether or not it fails half way, marks the message as
\* deleted and may take it off the queue; it moves no other.
LEMMA RemoveMoves ==
    ASSUME PlaceInv, NEW h \in issued, Remove(h) \/ RemoveKeyError(h),
           NEW n, n = h[1]
    PROVE  /\ n \in Messages /\ deleted' = deleted \cup {n}
           /\ \A m \in Messages \ {n} : Stays(m)
           /\ Dead(n)' <=> Dead(n)
           /\ Somewhere(n)' => Somewhere(n)
<1>1. TypeOK /\ visible \in [Messages -> Nat] /\ n \in Messages
  BY DEF PlaceInv, TypeOK, Handles
<1>2. deleted' = deleted \cup {n} /\ UNCHANGED <<delayed, dlq, heldVars>>
  BY DEF Remove, RemoveKeyError, places, callVars, storeVars, heldVars
<1>3. \A c \in Consumers : Held(c)' = Held(c)
  BY <1>2, HeldStable
<1>4. /\ inflight' \ {n} = inflight \ {n} /\ inflight' \subseteq inflight
      /\ \A m \in Messages \ {n} : visible'[m] = visible[m]
      /\ visible'[n] > 0 => visible[n] > 0
  BY <1>1 DEF Remove, RemoveKeyError, OnRemoveMessage, places
<1>5. successful' = successful /\ deadLetters' = deadLetters
  BY <1>2 DEF heldVars
<1>6. \A m \in Messages \ {n} : Stays(m)
  BY <1>2, <1>3, <1>4, <1>5 DEF Stays, Somewhere, Dead, Out
<1>7. (Dead(n)' <=> Dead(n)) /\ (Somewhere(n)' => Somewhere(n))
  BY <1>2, <1>3, <1>4, <1>5 DEF Somewhere, Dead
<1> QED BY <1>1, <1>2, <1>6, <1>7

\* SqsQueue.update_visibility_timeout: with a timeout of 0 the message goes
\* from flight back to the heap, otherwise it stays in flight.
LEMMA VisibilityMoves ==
    ASSUME PlaceInv, NEW h \in issued, NEW zero \in BOOLEAN,
           UpdateVisibilityTimeout(h, zero), NEW n, n = h[1]
    PROVE  /\ n \in inflight /\ n \in Messages
           /\ \A m \in Messages \ {n} : Stays(m)
           /\ ~zero => Stays(n)
           /\ ~Dead(n) /\ ~Dead(n)' /\ Somewhere(n)'
           /\ zero => ~Out(n)'
<1>1. /\ TypeOK /\ visible \in [Messages -> Nat]
      /\ n \in Messages /\ n \in inflight
  BY DEF PlaceInv, TypeOK, UpdateVisibilityTimeout, InFlight
<1>2. UNCHANGED <<delayed, dlq, heldVars>>
  BY DEF UpdateVisibilityTimeout, callVars, storeVars, heldVars
<1>3. \A c \in Consumers : Held(c)' = Held(c)
  BY <1>2, HeldStable
<1>4. successful' = successful /\ deadLetters' = deadLetters
  BY <1>2 DEF heldVars
<1>5. ~Dead(n) /\ \A c \in Consumers : n \notin Range(successful[c])
  BY <1>1, OnePlaceFacts
<1>6. CASE zero
  <2>1. /\ inflight' = inflight \ {n}
        /\ \A m \in Messages : visible'[m] = IF m = n THEN visible[m] + 1 ELSE visible[m]
    BY <1>1, <1>6, PutAllFact DEF UpdateVisibilityTimeout
  <2>2. \A m \in Messages \ {n} : Stays(m)
    BY <1>2, <1>3, <1>4, <2>1 DEF Stays, Somewhere, Dead, Out
  <2>3. ~Dead(n)' /\ Somewhere(n)' /\ ~Out(n)'
    BY <1>1, <1>2, <1>4, <1>5, <2>1 DEF Somewhere, Dead, Out
  <2> QED BY <1>1, <1>5, <1>6, <2>2, <2>3
<1>7. CASE ~zero
  <2>1. inflight' = inflight /\ visible' = visible
    BY <1>7 DEF UpdateVisibilityTimeout
  <2>2. \A m \in Messages : Stays(m)
    BY <1>2, <1>3, <1>4, <2>1, QuietStays
  <2>3. Somewhere(n)
    BY <1>1 DEF Somewhere
  <2> QED BY <1>1, <1>5, <1>7, <2>2, <2>3 DEF Stays
<1> QED BY <1>6, <1>7

\* StandardQueue.clear discards what is in the queue's own containers, Q, and
\* nothing a receive call holds.
LEMMA ClearMoves ==
    ASSUME PlaceInv, Clear,
           NEW Q, Q = inflight \cup delayed \cup {m \in Messages : visible[m] > 0}
    PROVE  /\ Q \subseteq Messages /\ purged' = purged \cup Q
           /\ \A m \in Messages \ Q : Stays(m)
           /\ \A m \in Q : /\ Somewhere(m) /\ ~Somewhere(m)'
                           /\ ~Dead(m) /\ ~Dead(m)'
<1>1. /\ TypeOK /\ visible \in [Messages -> Nat] /\ Q \subseteq Messages
      /\ purged' = purged \cup Q
  BY DEF PlaceInv, TypeOK, Clear
<1>2. dlq' = dlq /\ UNCHANGED heldVars
  BY DEF Clear, callVars, storeVars, heldVars
<1>3. \A c \in Consumers : Held(c)' = Held(c)
  BY <1>2, HeldStable
<1>4. successful' = successful /\ deadLetters' = deadLetters
  BY <1>2 DEF heldVars
<1>5. /\ inflight' = {} /\ delayed' = {}
      /\ \A m \in Messages : visible'[m] = 0
  BY DEF Clear
<1>6. \A m \in Messages \ Q : m \notin inflight \cup delayed /\ ~(visible[m] > 0)
  OBVIOUS
<1>7. \A m \in Messages \ Q : Stays(m)
  BY <1>2, <1>3, <1>4, <1>5, <1>6 DEF Stays, Somewhere, Dead, Out
<1>8. \A m \in Q : ~Dead(m) /\ Somewhere(m)
  BY <1>1, OnePlaceFacts DEF Somewhere
<1>9. \A m \in Q : m \notin dlq /\ \A c \in Consumers : m \notin Held(c)
  BY <1>1 DEF PlaceInv, SinglePlace
<1>10. \A m \in Q : ~Somewhere(m)' /\ ~Dead(m)'
  BY <1>1, <1>2, <1>3, <1>4, <1>5, <1>8, <1>9 DEF Somewhere, Dead
<1> QED BY <1>1, <1>7, <1>8, <1>10

\* SqsQueue.requeue_inflight_messages moves the due messages D from flight to
\* the heap.
LEMMA RequeueMoves ==
    ASSUME PlaceInv, RequeueInflight, NEW D, D = DueInflight
    PROVE  /\ D \subseteq inflight /\ D \subseteq Messages
           /\ \A m \in Messages \ D : Stays(m)
           /\ \A m \in D : /\ Out(m) /\ ~Out(m)'
                           /\ ~Dead(m) /\ ~Dead(m)' /\ Somewhere(m)'
<1>1. /\ TypeOK /\ visible \in [Messages -> Nat]
      /\ D \subseteq inflight /\ D \subseteq Messages
  BY DEF PlaceInv, TypeOK, DueInflight
<1>2. UNCHANGED <<delayed, dlq, heldVars>>
  BY DEF RequeueInflight, callVars, storeVars, heldVars
<1>3. \A c \in Consumers : Held(c)' = Held(c)
  BY <1>2, HeldStable
<1>4. successful' = successful /\ deadLetters' = deadLetters
  BY <1>2 DEF heldVars
<1>5. /\ inflight' = inflight \ D
      /\ \A m \in Messages : visible'[m] = IF m \in D THEN visible[m] + 1 ELSE visible[m]
  BY <1>1, PutAllFact DEF RequeueInflight
<1>6. \A m \in D : ~Dead(m) /\ \A c \in Consumers : m \notin Range(successful[c])
  BY <1>1, OnePlaceFacts
<1>7. \A m \in Messages \ D : Stays(m)
  BY <1>2, <1>3, <1>4, <1>5 DEF Stays, Somewhere, Dead, Out
<1>8. \A m \in D : /\ Out(m) /\ ~Out(m)'
                   /\ ~Dead(m) /\ ~Dead(m)' /\ Somewhere(m)'
  BY <1>1, <1>2, <1>4, <1>5, <1>6 DEF Somewhere, Dead, Out
<1> QED BY <1>1, <1>7, <1>8

\* SqsQueue.enqueue_delayed_messages: what was delayed is on the heap.
LEMMA EnqueueMoves ==
    ASSUME PlaceInv, EnqueueDelayed
    PROVE  \A m \in Messages : Stays(m)
<1> DEFINE D == delayed \ notDue
<1>1. TypeOK /\ visible \in [Messages -> Nat] /\ D \subseteq Messages
  BY DEF PlaceInv, TypeOK
<1>2. UNCHANGED <<inflight, dlq, heldVars>>
  BY DEF EnqueueDelayed, callVars, storeVars, heldVars
<1>3. \A c \in Consumers : Held(c)' = Held(c)
  BY <1>2, HeldStable
<1>4. successful' = successful /\ deadLetters' = deadLetters
  BY <1>2 DEF heldVars
<1>5. /\ delayed' = delayed \ D
      /\ \A m \in Messages : visible'[m] = IF m \in D THEN visible[m] + 1 ELSE visible[m]
  BY <1>1, PutAllFact DEF EnqueueDelayed
<1>6. D \subseteq delayed
  OBVIOUS
<1> HIDE DEF D
<1>7. \A m \in Messages : (Dead(m)' <=> Dead(m)) /\ (Out(m)' <=> Out(m))
  BY <1>2, <1>4 DEF Dead, Out
<1>8. \A m \in Messages \ D : Somewhere(m)' <=> Somewhere(m)
  BY <1>2, <1>3, <1>5 DEF Somewhere
<1>9. \A m \in D : Somewhere(m)' /\ Somewhere(m)
  BY <1>1, <1>5, <1>6 DEF Somewhere
<1> QED BY <1>7, <1>8, <1>9 DEF Stays

\* heapq.heappop in the retention loop discards the first message n of the
\* heap, if there is one.
LEMMA ExpireMoves ==
    ASSUME PlaceInv, ExpirePop
    PROVE  \/ expired' = expired /\ \A m \in Messages : Stays(m)
           \/ \E n \in Messages :
                /\ expired' = expired \cup {n}
                /\ \A m \in Messages \ {n} : Stays(m)
                /\ Somewhere(n) /\ ~Out(n) /\ ~Dead(n)
                /\ ~Somewhere(n)' /\ ~Dead(n)'
<1>1. TypeOK /\ visible \in [Messages -> Nat]
  BY DEF PlaceInv, TypeOK
<1>2. UNCHANGED <<delayed, inflight, dlq, heldVars>>
  BY DEF ExpirePop, callVars, storeVars, heldVars
<1>3. \A c \in Consumers : Held(c)' = Held(c)
  BY <1>2, HeldStable
<1>4. successful' = successful /\ deadLetters' = deadLetters
  BY <1>2 DEF heldVars
<1>5. CASE visible' = visible /\ expired' = expired
  BY <1>2, <1>3, <1>4, <1>5, QuietStays
<1>6. ASSUME NEW n \in Messages, IsFirst(n),
             visible' = [visible EXCEPT ![n] = @ - 1],
             expired' = expired \cup {n}
      PROVE  /\ \A m \in Messages \ {n} : Stays(m)
             /\ Somewhere(n) /\ ~Out(n) /\ ~Dead(n)
             /\ ~Somewhere(n)' /\ ~Dead(n)'
  <2>1. visible[n] = 1
    BY <1>1, <1>6 DEF IsFirst, PlaceInv, SinglePlace
  <2>2. /\ n \notin delayed \cup inflight \cup dlq
        /\ \A c \in Consumers : n \notin Held(c)
    BY <1>1, <2>1 DEF PlaceInv, SinglePlace
  <2>3. ~Out(n) /\ ~Dead(n) /\ Somewhere(n)
    BY <2>1, OnePlaceFacts DEF Somewhere
  <2>4. \A m \in Messages : visible'[m] = IF m = n THEN 0 ELSE visible[m]
    BY <1>1, <1>6, <2>1
  <2>5. \A m \in Messages \ {n} : Stays(m)
    BY <1>2, <1>3, <1>4, <2>4 DEF Stays, Somewhere, Dead, Out
  <2>6. ~Somewhere(n)' /\ ~Dead(n)'
    BY <1>2, <1>3, <1>4, <2>2, <2>3, <2>4 DEF Somewhere, Dead
  <2> QED BY <2>3, <2>5, <2>6
<1> QED BY <1>5, <1>6 DEF ExpirePop

\* The steps that move no message at all.
StillStep ==
    \/ \E m \in Messages : VisibilityElapses(m) \/ DelayElapses(m)
    \/ Age
    \/ \E c \in Consumers, zero \in BOOLEAN : ReceiveStart(c, zero)
    \/ \E c \in Consumers :
          \/ ReceiveEmpty(c) \/ ReceiveAddHandle(c) \/ ReceiveRegister(c)
          \/ DeadLetterLookup(c) \/ ReceiveReturn(c)
    \/ Shutdown \/ DeleteDlq \/ RequeueFails \/ EnqueueFails \/ ExpirePeek
    \/ UNCHANGED vars

\* They leave the containers of the queue and of the calls alone.
LEMMA StillStays ==
    ASSUME PlaceInv, StillStep
    PROVE  /\ \A m \in Messages : Stays(m)
           /\ UNCHANGED <<sent, deleted, purged, expired, undeliverable,
                          survivors, inflight, successful, deadLetters,
                          receiveCount>>
<1>1. TypeOK
  BY DEF PlaceInv
<1>2. UNCHANGED <<sent, deleted, purged, expired, undeliverable, survivors,
                  delayed, visible, inflight, dlq, popped, successful,
                  deadLetters, receiveCount>>
  BY DEF StillStep, VisibilityElapses, DelayElapses, Age, ReceiveStart,
         ReceiveEmpty, ReceiveAddHandle, ReceiveRegister, DeadLetterLookup,
         ReceiveReturn, Shutdown, DeleteDlq, RequeueFails, EnqueueFails,
         ExpirePeek, vars, places, messageVars, storeVars, queueVars,
         callVars, history
<1>3. \A d \in Consumers : pc'[d] = "take" <=> pc[d] = "take"
  <2>1. CASE UNCHANGED pc
    BY <2>1
  <2>2. ASSUME NEW c \in Consumers, pc[c] # "take",
               NEW step \in ConsumerSteps \ {"take"},
               pc' = [pc EXCEPT ![c] = step]
        PROVE  \A d \in Consumers : pc'[d] = "take" <=> pc[d] = "take"
    BY <1>1, <2>2 DEF TypeOK
  <2>3. CASE \E c \in Consumers, zero \in BOOLEAN : ReceiveStart(c, zero)
    BY <2>2, <2>3 DEF ReceiveStart, ConsumerSteps
  <2>4. CASE \E c \in Consumers :
               \/ ReceiveEmpty(c) \/ ReceiveAddHandle(c) \/ ReceiveRegister(c)
               \/ DeadLetterLookup(c) \/ ReceiveReturn(c)
    BY <2>2, <2>4
    DEF ReceiveEmpty, ReceiveAddHandle, ReceiveRegister, DeadLetterLookup,
        ReceiveReturn, ConsumerSteps
  <2> QED
    BY <2>1, <2>3, <2>4
    DEF StillStep, VisibilityElapses, DelayElapses, Age, Shutdown, DeleteDlq,
        RequeueFails, EnqueueFails, ExpirePeek, vars, callVars
<1>4. \A c \in Consumers : Held(c)' = Held(c)
  BY <1>2, <1>3 DEF Held
<1> QED BY <1>2, <1>4, QuietStays

\* A step moves no message, or is one of the steps described above.
LEMMA StepCases ==
    ASSUME [Next]_vars
    PROVE  \/ StillStep
           \/ Put
           \/ \E c \in Consumers :
                 \/ \E m \in Messages : ReceiveGet(c, m)
                 \/ ReceiveSkipDeleted(c) \/ ReceiveTake(c) \/ ReceiveHide(c)
                 \/ DeadLetterMissing(c) \/ DeadLetterPut(c)
           \/ \E h \in issued : Remove(h) \/ RemoveKeyError(h)
           \/ \E h \in issued, zero \in BOOLEAN : UpdateVisibilityTimeout(h, zero)
           \/ Clear \/ RequeueInflight \/ EnqueueDelayed \/ ExpirePop
BY DEF Next, Receive, Worker, StillStep

-----------------------------------------------------------------------------
(* No message is lost                                                      *)

\* What was discarded had been sent, and is nowhere any more.
DiscardedNowhere ==
    \A m \in purged \cup expired \cup undeliverable : m <= sent /\ ~Somewhere(m)

\* The inductive invariant behind NoLoss, which also keeps what the contract
\* calls gone from coming back.
KeptInv == PlaceInv /\ NoLoss /\ DiscardedNowhere

\* Nothing was sent yet.
LEMMA InitKeptInv == Init => KeptInv
<1> SUFFICES ASSUME Init PROVE KeptInv
  OBVIOUS
<1>1. NoLoss
  BY DEF Init, NoLoss
<1>2. DiscardedNowhere
  BY DEF Init, DiscardedNowhere
<1> QED BY <1>1, <1>2, InitPlaceInv DEF KeptInv

\* A step whose messages all stay, except for S that it discards.
LEMMA DiscardKeeps ==
    ASSUME KeptInv, PlaceInv', sent' = sent,
           deleted \subseteq deleted',
           NEW S \in SUBSET Messages,
           \A m \in Messages \ S : Stays(m),
           \A m \in S : Somewhere(m) /\ ~Somewhere(m)',
           (purged \cup expired \cup undeliverable)'
               = (purged \cup expired \cup undeliverable) \cup S
    PROVE  KeptInv'
<1>1. /\ PlaceInv /\ TypeOK /\ sent \in 0..MaxMessages
      /\ \A m \in 1..sent : m \in Messages
      /\ purged \cup expired \cup undeliverable \subseteq Messages
  <2>1. PlaceInv /\ TypeOK /\ sent \in 0..MaxMessages
    BY DEF KeptInv, PlaceInv, TypeOK
  <2>2. \A m \in 1..sent : m \in Messages
    BY <2>1 DEF Messages
  <2> QED BY <2>1, <2>2 DEF TypeOK
<1>2. NoLoss'
  BY <1>1 DEF KeptInv, NoLoss, Stays
<1>3. \A m \in S : m <= sent
  BY <1>1, OnePlaceFacts
<1>4. DiscardedNowhere'
  BY <1>1, <1>3 DEF KeptInv, DiscardedNowhere, Stays
<1> QED BY <1>2, <1>4 DEF KeptInv

\* Each step keeps the invariant: whatever it takes from one place it puts
\* into another, or records as deleted or discarded.
LEMMA KeptPreserved == KeptInv /\ [Next]_vars => KeptInv'
<1> SUFFICES ASSUME KeptInv, [Next]_vars PROVE KeptInv'
  OBVIOUS
<1>1. PlaceInv /\ PlaceInv' /\ TypeOK
  BY PlacePreserved DEF KeptInv, PlaceInv
<1>2. ASSUME \A m \in Messages : Stays(m),
             UNCHANGED <<sent, deleted, purged, expired, undeliverable>>
      PROVE  KeptInv'
  <2>1. (purged \cup expired \cup undeliverable)'
           = (purged \cup expired \cup undeliverable) \cup {}
    BY <1>2
  <2>2. /\ {} \in SUBSET Messages
        /\ \A m \in Messages \ {} : Stays(m)
        /\ \A m \in {} : Somewhere(m) /\ ~Somewhere(m)'
    BY <1>2
  <2> QED BY <1>1, <1>2, <2>1, <2>2, DiscardKeeps
<1>3. CASE StillStep
  BY <1>1, <1>2, <1>3, StillStays
<1>4. CASE Put
  <2>1. PICK n : n = sent + 1
    OBVIOUS
  <2>2. /\ sent' = n /\ n \in Messages /\ sent \in Nat
        /\ \A m \in Messages \ {n} : Stays(m)
        /\ ~Somewhere(n) /\ Somewhere(n)'
    BY <1>1, <1>4, <2>1, PutMoves DEF TypeOK
  <2>3. UNCHANGED <<deleted, purged, expired, undeliverable>>
    BY <1>4 DEF Put, messageVars, history
  <2>4. \A m \in 1..n : m \in Messages /\ (m \in 1..sent \/ m = n)
    BY <2>1, <2>2 DEF Messages
  <2>5. NoLoss'
    BY <2>2, <2>3, <2>4 DEF KeptInv, NoLoss, Stays
  <2>6. \A m \in purged \cup expired \cup undeliverable :
           m \in Messages \ {n} /\ m <= sent /\ m <= n
    <3>1. \A m \in Messages : m \in Nat
      BY DEF Messages
    <3> QED BY <1>1, <2>1, <2>2, <3>1 DEF TypeOK, KeptInv, DiscardedNowhere
  <2>7. DiscardedNowhere'
    BY <2>2, <2>3, <2>6 DEF KeptInv, DiscardedNowhere, Stays
  <2> QED BY <1>1, <2>5, <2>7 DEF KeptInv
<1>5. ASSUME NEW c \in Consumers, NEW m \in Messages, ReceiveGet(c, m)
      PROVE  KeptInv'
  BY <1>1, <1>2, <1>5, GetMoves DEF ReceiveGet, messageVars, history
<1>6. ASSUME NEW c \in Consumers, ReceiveSkipDeleted(c)
      PROVE  KeptInv'
  <2>1. PICK n : n = popped[c]
    OBVIOUS
  <2>2. /\ \A m \in Messages \ {n} : Stays(m)
        /\ n \in deleted /\ ~Somewhere(n)'
    BY <1>1, <1>6, <2>1, SkipMoves
  <2>3. UNCHANGED <<sent, deleted, purged, expired, undeliverable>>
    BY <1>6 DEF ReceiveSkipDeleted, queueVars, places, messageVars, history
  <2>4. \A m \in 1..sent : m \in Messages
    BY <1>1 DEF TypeOK, Messages
  <2>5. NoLoss'
    BY <2>2, <2>3, <2>4 DEF KeptInv, NoLoss, Stays
  <2>6. DiscardedNowhere'
    BY <1>1, <2>2, <2>3 DEF KeptInv, DiscardedNowhere, Stays, TypeOK
  <2> QED BY <1>1, <2>5, <2>6 DEF KeptInv
<1>7. ASSUME NEW c \in Consumers, NEW n,
             \/ ReceiveTake(c) /\ n = popped[c]
             \/ ReceiveHide(c) /\ n = Head(successful[c])
      PROVE  KeptInv'
  <2>1. /\ n \in Messages
        /\ \A m \in Messages \ {n} : Stays(m)
        /\ Somewhere(n) /\ Somewhere(n)'
    BY <1>1, <1>7, TakeMoves, HideMoves
  <2>2. UNCHANGED <<sent, deleted, purged, expired, undeliverable>>
    BY <1>7 DEF ReceiveTake, ReceiveHide, places, messageVars, history
  <2>3. \A m \in 1..sent : m \in Messages
    BY <1>1 DEF TypeOK, Messages
  <2>4. NoLoss'
    BY <2>1, <2>2, <2>3 DEF KeptInv, NoLoss, Stays
  <2>5. DiscardedNowhere'
    BY <1>1, <2>1, <2>2 DEF KeptInv, DiscardedNowhere, Stays, TypeOK
  <2> QED BY <1>1, <2>4, <2>5 DEF KeptInv
<1>8. ASSUME NEW c \in Consumers, DeadLetterMissing(c)
      PROVE  KeptInv'
  <2>1. PICK D : D = Range(deadLetters[c])
    OBVIOUS
  <2>2. /\ D \in SUBSET Messages
        /\ undeliverable' = undeliverable \cup D
        /\ \A m \in Messages \ D : Stays(m)
        /\ \A m \in D : Somewhere(m) /\ ~Somewhere(m)'
    BY <1>1, <1>8, <2>1, MissingMoves, OnePlaceFacts
  <2>3. UNCHANGED <<sent, deleted, purged, expired>>
    BY <1>8 DEF DeadLetterMissing, queueVars, places, messageVars
  <2>4. (purged \cup expired \cup undeliverable)'
           = (purged \cup expired \cup undeliverable) \cup D
    BY <2>2, <2>3
  <2> QED BY <1>1, <2>2, <2>3, <2>4, DiscardKeeps
<1>9. ASSUME NEW c \in Consumers, DeadLetterPut(c)
      PROVE  KeptInv'
  BY <1>1, <1>2, <1>9, HandOverMoves DEF DeadLetterPut, places, messageVars, history
<1>10. ASSUME NEW h \in issued, Remove(h) \/ RemoveKeyError(h)
       PROVE  KeptInv'
  <2>1. PICK n : n = h[1]
    OBVIOUS
  <2>2. /\ n \in Messages /\ deleted' = deleted \cup {n}
        /\ \A m \in Messages \ {n} : Stays(m)
        /\ Somewhere(n)' => Somewhere(n)
    BY <1>1, <1>10, <2>1, RemoveMoves
  <2>3. UNCHANGED <<sent, purged, expired, undeliverable>>
    BY <1>10 DEF Remove, RemoveKeyError, places, history
  <2>4. \A m \in 1..sent : m \in Messages
    BY <1>1 DEF TypeOK, Messages
  <2>5. NoLoss'
    BY <2>2, <2>3, <2>4 DEF KeptInv, NoLoss, Stays
  <2>6. DiscardedNowhere'
    BY <1>1, <2>2, <2>3 DEF KeptInv, DiscardedNowhere, Stays, TypeOK
  <2> QED BY <1>1, <2>5, <2>6 DEF KeptInv
<1>11. ASSUME NEW h \in issued, NEW zero \in BOOLEAN,
              UpdateVisibilityTimeout(h, zero)
       PROVE  KeptInv'
  <2>1. PICK n : n = h[1]
    OBVIOUS
  <2>2. /\ n \in Messages
        /\ \A m \in Messages \ {n} : Stays(m)
        /\ Somewhere(n) /\ Somewhere(n)'
    BY <1>1, <1>11, <2>1, VisibilityMoves DEF Somewhere
  <2>3. UNCHANGED <<sent, deleted, purged, expired, undeliverable>>
    BY <1>11 DEF UpdateVisibilityTimeout, messageVars, history
  <2>4. \A m \in 1..sent : m \in Messages
    BY <1>1 DEF TypeOK, Messages
  <2>5. NoLoss'
    BY <2>2, <2>3, <2>4 DEF KeptInv, NoLoss, Stays
  <2>6. DiscardedNowhere'
    BY <1>1, <2>2, <2>3 DEF KeptInv, DiscardedNowhere, Stays, TypeOK
  <2> QED BY <1>1, <2>5, <2>6 DEF KeptInv
<1>12. CASE Clear
  <2>1. PICK Q : Q = inflight \cup delayed \cup {m \in Messages : visible[m] > 0}
    OBVIOUS
  <2>2. /\ Q \in SUBSET Messages /\ purged' = purged \cup Q
        /\ \A m \in Messages \ Q : Stays(m)
        /\ \A m \in Q : Somewhere(m) /\ ~Somewhere(m)'
    BY <1>1, <1>12, <2>1, ClearMoves
  <2>3. UNCHANGED <<sent, deleted, expired, undeliverable>>
    BY <1>12 DEF Clear, messageVars
  <2>4. (purged \cup expired \cup undeliverable)'
           = (purged \cup expired \cup undeliverable) \cup Q
    BY <2>2, <2>3
  <2> QED BY <1>1, <2>2, <2>3, <2>4, DiscardKeeps
<1>13. CASE RequeueInflight
  <2>1. PICK D : D = DueInflight
    OBVIOUS
  <2>2. /\ D \subseteq Messages
        /\ \A m \in Messages \ D : Stays(m)
        /\ \A m \in D : Somewhere(m) /\ Somewhere(m)'
    BY <1>1, <1>13, <2>1, RequeueMoves DEF Somewhere
  <2>3. UNCHANGED <<sent, deleted, purged, expired, undeliverable>>
    BY <1>13 DEF RequeueInflight, messageVars, history
  <2>4. \A m \in 1..sent : m \in Messages
    BY <1>1 DEF TypeOK, Messages
  <2>5. NoLoss'
    BY <2>2, <2>3, <2>4 DEF KeptInv, NoLoss, Stays
  <2>6. DiscardedNowhere'
    BY <1>1, <2>2, <2>3 DEF KeptInv, DiscardedNowhere, Stays, TypeOK
  <2> QED BY <1>1, <2>5, <2>6 DEF KeptInv
<1>14. CASE EnqueueDelayed
  BY <1>1, <1>2, <1>14, EnqueueMoves DEF EnqueueDelayed, messageVars, history
<1>15. CASE ExpirePop
  <2>1. UNCHANGED <<sent, deleted, purged, undeliverable>>
    BY <1>15 DEF ExpirePop, messageVars
  <2>2. CASE expired' = expired /\ \A m \in Messages : Stays(m)
    BY <1>2, <2>1, <2>2
  <2>3. ASSUME NEW n \in Messages, expired' = expired \cup {n},
               \A m \in Messages \ {n} : Stays(m),
               Somewhere(n), ~Somewhere(n)'
        PROVE  KeptInv'
    <3>1. (purged \cup expired \cup undeliverable)'
             = (purged \cup expired \cup undeliverable) \cup {n}
      BY <2>1, <2>3
    <3>2. {n} \in SUBSET Messages /\ \A m \in {n} : Somewhere(m) /\ ~Somewhere(m)'
      BY <2>3
    <3> QED BY <1>1, <2>1, <2>3, <3>1, <3>2, DiscardKeeps
  <2> QED BY <1>1, <1>15, <2>2, <2>3, ExpireMoves
<1>16. \A c \in Consumers : ReceiveTake(c) \/ ReceiveHide(c) => KeptInv'
  BY <1>7
<1> QED
  BY <1>3, <1>4, <1>5, <1>6, <1>8, <1>9, <1>10, <1>11, <1>12, <1>13, <1>14,
     <1>15, <1>16, StepCases

\* No interleaving of receive calls, the worker and the other calls loses a
\* message: one that was sent is somewhere until it is deleted, purged,
\* expired, or dropped for want of a dead-letter queue.
THEOREM MessagesNotLost == Spec => []NoLoss
<1>1. KeptInv => NoLoss
  BY DEF KeptInv
<1> QED BY <1>1, InitKeptInv, KeptPreserved, PTL DEF Spec

-----------------------------------------------------------------------------
(* The receive limit                                                       *)

\* A receive number the redrive policy allows.
WithinLimit(n) == MaxReceiveCount > 0 => n <= MaxReceiveCount

\* Handles are of messages that were counted, within the limit.
GoodHandles(H) == \A h \in H : receiveCount[h[1]] > 0 /\ WithinLimit(h[2])

\* The inductive invariant behind ReceiveLimit: what a call is going to
\* return was counted and is within the limit, and so is every handle, at
\* the clients or still in a call; only messages that were counted can be
\* deleted, only messages that were sent are counted.
HandleInv ==
    /\ \A c \in Consumers : \A m \in Range(successful[c]) :
          receiveCount[m] > 0 /\ WithinLimit(receiveCount[m])
    /\ \A c \in Consumers : GoodHandles(result[c])
    /\ GoodHandles(issued)
    /\ \A m \in deleted : receiveCount[m] > 0
    /\ \A m \in Messages : receiveCount[m] > 0 => m <= sent

\* No call runs and no handle exists.
LEMMA InitHandleInv == Init => HandleInv
<1> SUFFICES ASSUME Init PROVE HandleInv
  OBVIOUS
<1>1. Range(<<>>) = {}
  BY DEF Range
<1> QED BY <1>1 DEF Init, HandleInv, GoodHandles

\* A step that counts nothing and makes no handle keeps the invariant, for
\* the clients only get handles of calls and delete with handles they have.
LEMMA HandlesStay ==
    ASSUME HandleInv,
           sent \in Nat, sent' \in Nat, sent <= sent',
           receiveCount' = receiveCount,
           \A c \in Consumers : Range(successful'[c]) \subseteq Range(successful[c]),
           \A c \in Consumers : result'[c] \subseteq result[c],
           issued' \subseteq issued \cup UNION {result[c] : c \in Consumers},
           deleted' \subseteq deleted \cup {h[1] : h \in issued}
    PROVE  HandleInv'
<1>1. \A m \in Messages : m \in Nat
  BY DEF Messages
<1>2. /\ \A c \in Consumers : \A m \in Range(successful'[c]) :
            receiveCount'[m] > 0 /\ WithinLimit(receiveCount'[m])
      /\ \A c \in Consumers : GoodHandles(result[c])'
  BY DEF HandleInv, GoodHandles
<1>3. GoodHandles(issued)'
  BY DEF HandleInv, GoodHandles
<1>4. \A m \in deleted' : receiveCount'[m] > 0
  BY DEF HandleInv, GoodHandles
<1>5. \A m \in Messages : receiveCount'[m] > 0 => m <= sent'
  BY <1>1 DEF HandleInv
<1> QED BY <1>2, <1>3, <1>4, <1>5 DEF HandleInv, WithinLimit

\* Each step keeps the invariant.
LEMMA HandlePreserved == PlaceInv /\ HandleInv /\ [Next]_vars => HandleInv'
<1> SUFFICES ASSUME PlaceInv, HandleInv, [Next]_vars PROVE HandleInv'
  OBVIOUS
<1>1. TypeOK /\ TypeOK' /\ sent \in Nat /\ sent' \in Nat
  BY TypePreserved DEF PlaceInv, TypeOK
<1>2. CASE Put
  <2>1. sent <= sent'
    BY <1>1, <1>2 DEF Put, TypeOK
  <2> QED BY <1>1, <1>2, <2>1, HandlesStay DEF Put, messageVars, callVars
<1>3. ASSUME NEW c \in Consumers, ReceiveTake(c)
      PROVE  HandleInv'
  <2>1. PICK n : n = popped[c]
    OBVIOUS
  <2>2. n \in Messages \ deleted /\ ~Out(n) /\ Somewhere(n) /\ n <= sent
    BY <1>3, <2>1, TakeMoves, OnePlaceFacts
  <2>3. /\ receiveCount \in [Messages -> Nat]
        /\ receiveCount' = [receiveCount EXCEPT ![n] = receiveCount[n] + 1]
        /\ UNCHANGED <<sent, deleted, result, issued>>
    BY <1>1, <1>3, <2>1 DEF ReceiveTake, TypeOK, places
  <2>4. /\ result \in [Consumers -> SUBSET Handles] /\ issued \subseteq Handles
        /\ deleted \subseteq Messages
        /\ \A d \in Consumers : Range(successful[d]) \subseteq Messages
    BY <1>1 DEF TypeOK, Range
  <2>5. \A H \in SUBSET Handles : GoodHandles(H) => GoodHandles(H)'
    <3>1. ASSUME NEW h \in Handles, receiveCount[h[1]] > 0
          PROVE  receiveCount'[h[1]] > 0
      BY <2>2, <2>3, <3>1 DEF Handles
    <3> QED BY <3>1 DEF GoodHandles, WithinLimit
  <2>6. (\A d \in Consumers : GoodHandles(result[d])') /\ GoodHandles(issued)'
    BY <2>3, <2>4, <2>5 DEF HandleInv, GoodHandles
  <2>7. \A m \in deleted' : receiveCount'[m] > 0
    BY <2>2, <2>3, <2>4 DEF HandleInv
  <2>8. \A m \in Messages : receiveCount'[m] > 0 => m <= sent'
    BY <2>2, <2>3 DEF HandleInv
  <2>9. ASSUME NEW d \in Consumers, NEW m \in Range(successful'[d])
        PROVE  receiveCount'[m] > 0 /\ WithinLimit(receiveCount'[m])
    <3>1. CASE m \in Range(successful[d])
      <4>1. m # n
        BY <2>2, <3>1 DEF Out
      <4> QED BY <2>3, <2>4, <3>1, <4>1 DEF HandleInv
    <3>2. CASE m = n /\ ~ExceedsLimit(receiveCount[n] + 1)
      BY <2>2, <2>3, <3>2 DEF ExceedsLimit, WithinLimit
    <3>3. /\ successful[c] \in Seq(Messages)
          /\ Range(Append(successful[c], n)) = Range(successful[c]) \cup {n}
      BY <1>1, <2>2, AppendRange DEF TypeOK
    <3>4. \/ successful'[d] = successful[d]
          \/ /\ d = c /\ ~ExceedsLimit(receiveCount[n] + 1)
             /\ successful'[d] = Append(successful[c], n)
      BY <1>1, <1>3, <2>1 DEF ReceiveTake, TypeOK
    <3> QED BY <2>9, <3>1, <3>2, <3>3, <3>4
  <2> QED BY <2>6, <2>7, <2>8, <2>9 DEF HandleInv, WithinLimit
<1>4. ASSUME NEW c \in Consumers, ReceiveRegister(c)
      PROVE  HandleInv'
  <2>1. PICK n : n = Head(successful[c])
    OBVIOUS
  <2>2. n \in Range(successful[c]) /\ n \in Messages
    <3>1. successful[c] \in Seq(Messages) /\ successful[c] # <<>>
      BY <1>1, <1>4 DEF ReceiveRegister, TypeOK
    <3> QED BY <2>1, <3>1, TailRange
  <2>3. GoodHandles({<<n, receiveCount[n]>>})
    BY <2>2 DEF HandleInv, GoodHandles
  <2>4. /\ UNCHANGED <<sent, receiveCount, deleted, successful, issued>>
        /\ \A d \in Consumers :
              result'[d] \subseteq result[d] \cup {<<n, receiveCount[n]>>}
    BY <1>1, <1>4, <2>1
    DEF ReceiveRegister, CreateReceiptHandle, TypeOK, places, messageVars
  <2>5. \A d \in Consumers : GoodHandles(result[d])'
    BY <2>3, <2>4 DEF HandleInv, GoodHandles
  <2>6. GoodHandles(issued)'
    BY <2>4 DEF HandleInv, GoodHandles
  <2> QED BY <2>4, <2>5, <2>6 DEF HandleInv, WithinLimit
<1>5. ASSUME NEW c \in Consumers, ReceiveReturn(c)
      PROVE  HandleInv'
  <2>1. /\ UNCHANGED <<sent, receiveCount, deleted, successful>>
        /\ issued' = issued \cup result[c]
        /\ \A d \in Consumers : result'[d] \subseteq result[d]
    BY <1>1, <1>5 DEF ReceiveReturn, TypeOK, queueVars, places, messageVars
  <2> QED BY <1>1, <2>1, HandlesStay
<1>6. ASSUME NEW c \in Consumers, DeadLetterMissing(c)
      PROVE  HandleInv'
  <2>1. /\ UNCHANGED <<sent, receiveCount, deleted, successful, issued>>
        /\ \A d \in Consumers : result'[d] \subseteq result[d]
    BY <1>1, <1>6 DEF DeadLetterMissing, TypeOK, queueVars, places, messageVars
  <2> QED BY <1>1, <2>1, HandlesStay
<1>7. ASSUME NEW c \in Consumers, ReceiveHide(c)
      PROVE  HandleInv'
  <2>1. /\ UNCHANGED <<sent, receiveCount, deleted, result, issued>>
        /\ successful[c] \in Seq(Messages) /\ successful[c] # <<>>
        /\ successful' = [successful EXCEPT ![c] = Tail(successful[c])]
    BY <1>1, <1>7 DEF ReceiveHide, TypeOK, messageVars
  <2>2. Range(Tail(successful[c])) \subseteq Range(successful[c])
    BY <2>1, TailRange
  <2>3. \A d \in Consumers : Range(successful'[d]) \subseteq Range(successful[d])
    BY <1>1, <2>1, <2>2 DEF TypeOK
  <2> QED BY <1>1, <2>1, <2>3, HandlesStay
<1>8. ASSUME NEW h \in issued, Remove(h) \/ RemoveKeyError(h)
      PROVE  HandleInv'
  <2>1. /\ UNCHANGED <<sent, receiveCount, successful, result, issued>>
        /\ deleted' = deleted \cup {h[1]}
    BY <1>8 DEF Remove, RemoveKeyError, places, callVars
  <2> QED BY <1>1, <2>1, HandlesStay
<1>9. CASE UNCHANGED <<sent, receiveCount, successful, result, issued, deleted>>
  BY <1>1, <1>9, HandlesStay
<1>10. CASE \/ \E m \in Messages : VisibilityElapses(m) \/ DelayElapses(m)
            \/ Age \/ Clear \/ Shutdown \/ DeleteDlq \/ RequeueInflight
            \/ RequeueFails \/ EnqueueDelayed \/ EnqueueFails \/ ExpirePeek
            \/ ExpirePop \/ UNCHANGED vars
            \/ \E h \in issued, zero \in BOOLEAN : UpdateVisibilityTimeout(h, zero)
  BY <1>9, <1>10
  DEF VisibilityElapses, DelayElapses, Age, Clear, Shutdown, DeleteDlq,
      RequeueInflight, RequeueFails, EnqueueDelayed, EnqueueFails, ExpirePeek,
      ExpirePop, UpdateVisibilityTimeout, vars, callVars, queueVars, places,
      messageVars
<1>11. CASE \/ \E c \in Consumers, zero \in BOOLEAN : ReceiveStart(c, zero)
            \/ \E c \in Consumers :
                  \/ \E m \in Messages : ReceiveGet(c, m)
                  \/ ReceiveEmpty(c) \/ ReceiveSkipDeleted(c)
                  \/ ReceiveAddHandle(c) \/ DeadLetterLookup(c)
                  \/ DeadLetterPut(c)
  BY <1>9, <1>11
  DEF ReceiveStart, ReceiveGet, ReceiveEmpty, ReceiveSkipDeleted,
      ReceiveAddHandle, DeadLetterLookup, DeadLetterPut, queueVars, places,
      messageVars
<1> QED
  BY <1>2, <1>3, <1>4, <1>5, <1>6, <1>7, <1>8, <1>10, <1>11
  DEF Next, Receive, Worker

\* With a redrive policy no client ever gets a handle beyond the receive
\* limit, whichever calls overlap (StandardQueue.receive counts and compares
\* without the mutex).
THEOREM ReceivesLimited == Spec => []ReceiveLimit
<1>1. Init => PlaceInv /\ HandleInv
  BY InitPlaceInv, InitHandleInv
<1>2. (PlaceInv /\ HandleInv) /\ [Next]_vars => (PlaceInv /\ HandleInv)'
  BY PlacePreserved, HandlePreserved
<1>3. PlaceInv /\ HandleInv => ReceiveLimit
  BY DEF HandleInv, GoodHandles, WithinLimit, ReceiveLimit
<1> QED BY <1>1, <1>2, <1>3, PTL DEF Spec

-----------------------------------------------------------------------------
(* No delivery after a deletion                                            *)

\* The elements of a concatenation are those of its parts.
LEMMA ConcatRange ==
    ASSUME NEW S, NEW s \in Seq(S), NEW t \in Seq(S)
    PROVE  Range(s \o t) = Range(s) \cup Range(t)
<1>1. /\ Len(s) \in Nat /\ DOMAIN s = 1..Len(s)
      /\ Len(t) \in Nat /\ DOMAIN t = 1..Len(t)
      /\ DOMAIN (s \o t) = 1..(Len(s) + Len(t))
      /\ \A i \in 1..(Len(s) + Len(t)) :
            (s \o t)[i] = IF i <= Len(s) THEN s[i] ELSE t[i - Len(s)]
  OBVIOUS
<1>2. ASSUME NEW i \in 1..(Len(s) + Len(t))
      PROVE  (s \o t)[i] \in Range(s) \cup Range(t)
  <2>1. CASE i <= Len(s)
    BY <1>1, <2>1 DEF Range
  <2>2. CASE ~(i <= Len(s))
    <3>1. i - Len(s) \in 1..Len(t)
      BY <1>1, <2>2
    <3> QED BY <1>1, <2>2, <3>1 DEF Range
  <2> QED BY <2>1, <2>2
<1>3. ASSUME NEW i \in 1..Len(s)
      PROVE  s[i] \in Range(s \o t)
  <2>1. i \in 1..(Len(s) + Len(t)) /\ (s \o t)[i] = s[i]
    BY <1>1
  <2> QED BY <1>1, <2>1 DEF Range
<1>4. ASSUME NEW i \in 1..Len(t)
      PROVE  t[i] \in Range(s \o t)
  <2>1. /\ Len(s) + i \in 1..(Len(s) + Len(t))
        /\ (s \o t)[Len(s) + i] = t[i]
    BY <1>1
  <2> QED BY <1>1, <2>1 DEF Range
<1> QED BY <1>1, <1>2, <1>3, <1>4 DEF Range

\* What call c has collected was not deleted when it started; the flag never
\* goes away, and a call that is not running has collected nothing.
FreshCall(c) ==
    /\ deletedBefore[c] \subseteq deleted
    /\ pc[c] = "idle" => /\ Range(successful[c]) = {}
                         /\ Range(deadLetters[c]) = {}
                         /\ result[c] = {}
    /\ (Range(successful[c]) \cup Range(deadLetters[c])) \cap deletedBefore[c] = {}
    /\ \A h \in result[c] : h[1] \notin deletedBefore[c]

\* The inductive invariant behind NoDeliveryAfterDelete.
FreshInv == \A c \in Consumers : FreshCall(c)

\* A step changes the lists of one call only, and never undoes a deletion.
LEMMA FreshStays ==
    ASSUME NEW d \in Consumers, FreshCall(d),
           deleted \subseteq deleted',
           deletedBefore'[d] = deletedBefore[d],
           pc'[d] = "idle" => pc[d] = "idle",
           Range(successful'[d]) \subseteq Range(successful[d]),
           Range(deadLetters'[d]) \subseteq Range(deadLetters[d]),
           result'[d] = result[d]
    PROVE  FreshCall(d)'
BY DEF FreshCall

\* Each step keeps the invariant.
LEMMA FreshPreserved == PlaceInv /\ FreshInv /\ [Next]_vars => FreshInv'
<1> SUFFICES ASSUME PlaceInv, FreshInv, [Next]_vars PROVE FreshInv'
  OBVIOUS
<1>1. TypeOK
  BY DEF PlaceInv
<1>2. Range(<<>>) = {}
  BY DEF Range
<1>3. ASSUME UNCHANGED <<pc, successful, deadLetters, result, deletedBefore>>,
             deleted \subseteq deleted'
      PROVE  FreshInv'
  BY <1>3, FreshStays DEF FreshInv
<1>4. CASE \/ Put \/ Age \/ Clear \/ Shutdown \/ DeleteDlq \/ RequeueInflight
           \/ RequeueFails \/ EnqueueDelayed \/ EnqueueFails \/ ExpirePeek
           \/ ExpirePop \/ UNCHANGED vars
           \/ \E m \in Messages : VisibilityElapses(m) \/ DelayElapses(m)
           \/ \E h \in issued : Remove(h) \/ RemoveKeyError(h)
           \/ \E h \in issued, zero \in BOOLEAN : UpdateVisibilityTimeout(h, zero)
  <2>1. UNCHANGED <<pc, successful, deadLetters, result, deletedBefore>>
    BY <1>4
    DEF Put, VisibilityElapses, DelayElapses, Age, Clear, Shutdown, DeleteDlq,
        RequeueInflight, RequeueFails, EnqueueDelayed, EnqueueFails,
        ExpirePeek, ExpirePop, UpdateVisibilityTimeout, Remove,
        RemoveKeyError, vars, callVars, history
  <2>2. deleted \subseteq deleted'
    BY <1>4
    DEF Put, VisibilityElapses, DelayElapses, Age, Clear, Shutdown, DeleteDlq,
        RequeueInflight, RequeueFails, EnqueueDelayed, EnqueueFails,
        ExpirePeek, ExpirePop, UpdateVisibilityTimeout, Remove,
        RemoveKeyError, vars, queueVars, messageVars
  <2> QED BY <1>3, <2>1, <2>2
<1>5. ASSUME NEW c \in Consumers, NEW zero \in BOOLEAN, ReceiveStart(c, zero)
      PROVE  FreshInv'
  <2>1. /\ UNCHANGED <<deleted, successful, deadLetters, result>>
        /\ pc[c] = "idle" /\ pc'[c] = "get" /\ deletedBefore'[c] = deleted
        /\ \A d \in Consumers \ {c} :
              pc'[d] = pc[d] /\ deletedBefore'[d] = deletedBefore[d]
    BY <1>1, <1>5 DEF ReceiveStart, TypeOK, queueVars, messageVars
  <2>2. FreshCall(c)'
    BY <2>1 DEF FreshInv, FreshCall
  <2>3. \A d \in Consumers \ {c} : FreshCall(d)'
    BY <2>1, FreshStays DEF FreshInv
  <2> QED BY <2>2, <2>3 DEF FreshInv
<1>6. ASSUME NEW c \in Consumers,
             \/ \E m \in Messages : ReceiveGet(c, m)
             \/ ReceiveEmpty(c) \/ ReceiveSkipDeleted(c) \/ ReceiveAddHandle(c)
             \/ DeadLetterLookup(c)
      PROVE  FreshInv'
  <2>1. UNCHANGED <<deleted, successful, deadLetters, result, deletedBefore>>
    BY <1>6
    DEF ReceiveGet, ReceiveEmpty, ReceiveSkipDeleted, ReceiveAddHandle,
        DeadLetterLookup, queueVars, messageVars, history
  <2>2. \A d \in Consumers : pc'[d] = "idle" => pc[d] = "idle"
    BY <1>1, <1>6
    DEF ReceiveGet, ReceiveEmpty, ReceiveSkipDeleted, ReceiveAddHandle,
        DeadLetterLookup, TypeOK
  <2> QED BY <2>1, <2>2, FreshStays DEF FreshInv
<1>7. ASSUME NEW c \in Consumers, ReceiveTake(c)
      PROVE  FreshInv'
  <2> DEFINE n == popped[c]
  <2>1. n \in Messages /\ n \notin deleted
    BY <1>7, TakeMoves
  <2>2. /\ Range(Append(successful[c], n)) = Range(successful[c]) \cup {n}
        /\ Range(Append(deadLetters[c], n)) = Range(deadLetters[c]) \cup {n}
    BY <1>1, <2>1, AppendRange DEF TypeOK
  <2>3. /\ UNCHANGED <<deleted, result, deletedBefore>>
        /\ pc'[c] # "idle"
        /\ successful'[c] \in {successful[c], Append(successful[c], n)}
        /\ deadLetters'[c] \in {deadLetters[c], Append(deadLetters[c], n)}
        /\ \A d \in Consumers \ {c} :
              /\ pc'[d] = pc[d] /\ successful'[d] = successful[d]
              /\ deadLetters'[d] = deadLetters[d]
    BY <1>1, <1>7 DEF ReceiveTake, TypeOK, history
  <2> HIDE DEF n
  <2>4. FreshCall(c)'
    <3>1. /\ Range(successful'[c]) \subseteq Range(successful[c]) \cup {n}
          /\ Range(deadLetters'[c]) \subseteq Range(deadLetters[c]) \cup {n}
      BY <2>2, <2>3
    <3> QED BY <2>1, <2>3, <3>1 DEF FreshInv, FreshCall
  <2>5. \A d \in Consumers \ {c} : FreshCall(d)'
    BY <2>3, FreshStays DEF FreshInv
  <2> QED BY <2>4, <2>5 DEF FreshInv
<1>8. ASSUME NEW c \in Consumers, ReceiveRegister(c)
      PROVE  FreshInv'
  <2> DEFINE n == Head(successful[c])
  <2>1. n \in Range(successful[c])
    <3>1. successful[c] \in Seq(Messages) /\ successful[c] # <<>>
      BY <1>1, <1>8 DEF ReceiveRegister, TypeOK
    <3> QED BY <3>1, TailRange
  <2>2. /\ UNCHANGED <<deleted, successful, deadLetters, deletedBefore>>
        /\ pc[c] # "idle" /\ pc'[c] # "idle"
        /\ result'[c] = result[c] \cup {<<n, receiveCount[n]>>}
        /\ \A d \in Consumers \ {c} : pc'[d] = pc[d] /\ result'[d] = result[d]
    BY <1>1, <1>8
    DEF ReceiveRegister, CreateReceiptHandle, TypeOK, messageVars, history
  <2> HIDE DEF n
  <2>3. FreshCall(c)'
    BY <2>1, <2>2 DEF FreshInv, FreshCall
  <2>4. \A d \in Consumers \ {c} : FreshCall(d)'
    BY <2>2, FreshStays DEF FreshInv
  <2> QED BY <2>3, <2>4 DEF FreshInv
<1>9. ASSUME NEW c \in Consumers, ReceiveHide(c)
      PROVE  FreshInv'
  <2>1. /\ UNCHANGED <<deleted, deadLetters, result, deletedBefore>>
        /\ successful[c] \in Seq(Messages) /\ successful[c] # <<>>
        /\ successful'[c] = Tail(successful[c])
        /\ \A d \in Consumers \ {c} : successful'[d] = successful[d]
        /\ \A d \in Consumers : pc'[d] = "idle" => pc[d] = "idle"
    BY <1>1, <1>9 DEF ReceiveHide, TypeOK, messageVars, history
  <2>2. Range(Tail(successful[c])) \subseteq Range(successful[c])
    BY <2>1, TailRange
  <2> QED BY <2>1, <2>2, FreshStays DEF FreshInv
<1>10. ASSUME NEW c \in Consumers, DeadLetterPut(c)
       PROVE  FreshInv'
  <2>1. /\ UNCHANGED <<deleted, pc, successful, result, deletedBefore>>
        /\ deadLetters[c] \in Seq(Messages) /\ deadLetters[c] # <<>>
        /\ deadLetters'[c] = Tail(deadLetters[c])
        /\ \A d \in Consumers \ {c} : deadLetters'[d] = deadLetters[d]
    BY <1>1, <1>10 DEF DeadLetterPut, TypeOK, messageVars, history
  <2>2. Range(Tail(deadLetters[c])) \subseteq Range(deadLetters[c])
    BY <2>1, TailRange
  <2> QED BY <2>1, <2>2, FreshStays DEF FreshInv
<1>11. ASSUME NEW c \in Consumers, DeadLetterMissing(c) \/ ReceiveReturn(c)
       PROVE  FreshInv'
  <2>1. /\ UNCHANGED <<deleted, successful>>
        /\ successful[c] = <<>> /\ deadLetters'[c] = <<>>
        /\ result'[c] = {} /\ deletedBefore'[c] = {}
        /\ \A d \in Consumers \ {c} :
              /\ pc'[d] = pc[d] /\ deadLetters'[d] = deadLetters[d]
              /\ result'[d] = result[d] /\ deletedBefore'[d] = deletedBefore[d]
    BY <1>1, <1>11
    DEF DeadLetterMissing, ReceiveReturn, TypeOK, queueVars, messageVars
  <2>2. FreshCall(c)'
    BY <1>2, <2>1 DEF FreshCall
  <2>3. \A d \in Consumers \ {c} : FreshCall(d)'
    BY <2>1, FreshStays DEF FreshInv
  <2> QED BY <2>2, <2>3 DEF FreshInv
<1> QED
  BY <1>4, <1>5, <1>6, <1>7, <1>8, <1>9, <1>10, <1>11 DEF Next, Receive, Worker

\* A receive call that starts after a DeleteMessage took effect neither
\* returns the message nor moves it to the dead-letter queue, although the
\* worker or an older call may have put a stale copy back on the heap.
THEOREM DeletedNotDelivered == Spec => []NoDeliveryAfterDelete
<1>1. Init => PlaceInv /\ FreshInv
  <2> SUFFICES ASSUME Init PROVE FreshInv
    BY InitPlaceInv
  <2>1. Range(<<>>) = {}
    BY DEF Range
  <2> QED BY <2>1 DEF Init, FreshInv, FreshCall
<1>2. (PlaceInv /\ FreshInv) /\ [Next]_vars => (PlaceInv /\ FreshInv)'
  BY PlacePreserved, FreshPreserved
<1>3. PlaceInv /\ FreshInv => NoDeliveryAfterDelete
  <2> SUFFICES ASSUME PlaceInv, FreshInv, NEW c \in Consumers
               PROVE  /\ Range(successful[c] \o deadLetters[c]) \cap deletedBefore[c] = {}
                      /\ {h[1] : h \in result[c]} \cap deletedBefore[c] = {}
    BY DEF NoDeliveryAfterDelete
  <2>1. Range(successful[c] \o deadLetters[c])
           = Range(successful[c]) \cup Range(deadLetters[c])
    BY ConcatRange DEF PlaceInv, TypeOK
  <2> QED BY <2>1 DEF FreshInv, FreshCall
<1> QED BY <1>1, <1>2, <1>3, PTL DEF Spec

-----------------------------------------------------------------------------
(* The latest handle of a message in flight                                *)

\* The handle of m's last receive is registered, unless m is deleted or was
\* in somebody's hands during a purge.
Registered(m) ==
    m \in deleted \cup survivors \/ <<m, receiveCount[m]>> \in receipts

\* The inductive invariant behind LatestHandleWorks: between its registration
\* and its going in flight, a message's handle stays registered.
LatestInv ==
    /\ \A m \in inflight : Registered(m)
    /\ \A c \in Consumers : pc[c] = "hide" => Registered(Head(successful[c]))

\* Handles are only taken away from messages that are deleted.
LEMMA LatestStays ==
    ASSUME TypeOK, LatestInv,
           inflight' \subseteq inflight,
           deleted \subseteq deleted', survivors \subseteq survivors',
           \A h \in receipts : h \in receipts' \/ h[1] \in deleted',
           receiveCount' = receiveCount,
           \A c \in Consumers : pc'[c] = "hide" =>
              pc[c] = "hide" /\ successful'[c] = successful[c]
    PROVE  LatestInv'
<1>1. ASSUME NEW m, Registered(m)
      PROVE  Registered(m)'
  BY <1>1 DEF Registered
<1> QED BY <1>1 DEF LatestInv, Registered

\* Each step keeps the invariant.
LEMMA LatestPreserved == PlaceInv /\ LatestInv /\ [Next]_vars => LatestInv'
<1> SUFFICES ASSUME PlaceInv, LatestInv, [Next]_vars PROVE LatestInv'
  OBVIOUS
<1>1. TypeOK
  BY DEF PlaceInv
<1>2. CASE \/ Put \/ Age \/ Shutdown \/ DeleteDlq \/ RequeueInflight
           \/ RequeueFails \/ EnqueueDelayed \/ EnqueueFails \/ ExpirePeek
           \/ ExpirePop \/ UNCHANGED vars
           \/ \E m \in Messages : VisibilityElapses(m) \/ DelayElapses(m)
           \/ \E h \in issued, zero \in BOOLEAN : UpdateVisibilityTimeout(h, zero)
  <2>1. /\ UNCHANGED <<deleted, survivors, receipts, receiveCount, pc, successful>>
        /\ inflight' \subseteq inflight
    BY <1>2
    DEF Put, VisibilityElapses, DelayElapses, Age, Shutdown, DeleteDlq,
        RequeueInflight, RequeueFails, EnqueueDelayed, EnqueueFails,
        ExpirePeek, ExpirePop, UpdateVisibilityTimeout, vars, callVars,
        history, queueVars, places, receiptVars, messageVars
  <2> QED BY <1>1, <2>1, LatestStays
<1>3. ASSUME NEW h \in issued, Remove(h) \/ RemoveKeyError(h)
      PROVE  LatestInv'
  <2>1. /\ UNCHANGED <<survivors, receiveCount, pc, successful>>
        /\ inflight' \subseteq inflight /\ deleted' = deleted \cup {h[1]}
        /\ \A k \in receipts : k \in receipts' \/ k \in HandlesOf(h[1])
    BY <1>3
    DEF Remove, RemoveKeyError, OnRemoveMessage, callVars, history, places
  <2>2. \A k \in HandlesOf(h[1]) : k[1] = h[1]
    BY DEF HandlesOf
  <2> QED BY <1>1, <2>1, <2>2, LatestStays
<1>4. CASE Clear
  <2>1. /\ UNCHANGED <<deleted, pc, successful>>
        /\ inflight' = {}
        /\ \A c \in Consumers : Held(c) \subseteq survivors'
    BY <1>4 DEF Clear, callVars, messageVars
  <2>2. ASSUME NEW c \in Consumers, pc[c] = "hide"
        PROVE  Head(successful[c]) \in survivors'
    <3>1. successful[c] \in Seq(Messages) /\ successful[c] # <<>>
      BY <1>1, <2>2 DEF TypeOK
    <3>2. Head(successful[c]) \in Range(successful[c])
      BY <3>1, TailRange
    <3> QED BY <2>1, <3>2 DEF Held
  <2> QED BY <2>1, <2>2 DEF LatestInv, Registered
<1>5. ASSUME NEW c \in Consumers, NEW zero \in BOOLEAN, ReceiveStart(c, zero)
      PROVE  LatestInv'
  <2>1. /\ UNCHANGED <<deleted, survivors, receipts, receiveCount, inflight, successful>>
        /\ \A d \in Consumers : pc'[d] = "hide" => pc[d] = "hide"
    BY <1>1, <1>5
    DEF ReceiveStart, TypeOK, queueVars, places, receiptVars, messageVars
  <2> QED BY <1>1, <2>1, LatestStays
<1>6. ASSUME NEW c \in Consumers,
             \/ \E m \in Messages : ReceiveGet(c, m)
             \/ ReceiveEmpty(c) \/ ReceiveSkipDeleted(c) \/ ReceiveAddHandle(c)
             \/ DeadLetterLookup(c) \/ DeadLetterMissing(c) \/ DeadLetterPut(c)
             \/ ReceiveReturn(c)
      PROVE  LatestInv'
  <2>1. UNCHANGED <<deleted, survivors, receipts, receiveCount, inflight, successful>>
    BY <1>6
    DEF ReceiveGet, ReceiveEmpty, ReceiveSkipDeleted, ReceiveAddHandle,
        DeadLetterLookup, DeadLetterMissing, DeadLetterPut, ReceiveReturn,
        queueVars, places, receiptVars, messageVars, history
  <2>2. \A d \in Consumers : pc'[d] = "hide" => pc[d] = "hide"
    BY <1>1, <1>6
    DEF ReceiveGet, ReceiveEmpty, ReceiveSkipDeleted, ReceiveAddHandle,
        DeadLetterLookup, DeadLetterMissing, DeadLetterPut, ReceiveReturn,
        TypeOK
  <2> QED BY <1>1, <2>1, <2>2, LatestStays
<1>7. ASSUME NEW c \in Consumers, ReceiveTake(c)
      PROVE  LatestInv'
  <2>1. PICK n : n = popped[c]
    OBVIOUS
  <2>2. n \in Messages /\ ~Out(n)
    BY <1>7, <2>1, TakeMoves
  <2>3. /\ UNCHANGED <<deleted, survivors, receipts, inflight>>
        /\ \A m \in Messages \ {n} : receiveCount'[m] = receiveCount[m]
        /\ \A d \in Consumers : pc'[d] = "hide" =>
              pc[d] = "hide" /\ successful'[d] = successful[d]
    BY <1>1, <1>7, <2>1
    DEF ReceiveTake, TypeOK, places, receiptVars, history
  <2>4. \A m \in Messages \ {n} : Registered(m) => Registered(m)'
    BY <2>3 DEF Registered
  <2>5. \A m \in inflight : m \in Messages \ {n}
    BY <1>1, <2>2 DEF TypeOK, Out
  <2>6. ASSUME NEW d \in Consumers, pc[d] = "hide"
        PROVE  Head(successful[d]) \in Messages \ {n}
    <3>1. successful[d] \in Seq(Messages) /\ successful[d] # <<>>
      BY <1>1, <2>6 DEF TypeOK
    <3>2. /\ Head(successful[d]) \in Messages
          /\ Head(successful[d]) \in Range(successful[d])
      BY <3>1, TailRange
    <3> QED BY <2>2, <3>2 DEF Out
  <2>7. \A m \in inflight' : Registered(m)'
    BY <2>3, <2>4, <2>5 DEF LatestInv
  <2>8. ASSUME NEW d \in Consumers, pc'[d] = "hide"
        PROVE  Registered(Head(successful[d]))'
    <3>1. PICK m \in Messages \ {n} : m = Head(successful[d])
      BY <2>3, <2>6, <2>8
    <3>2. Registered(m) /\ m = Head(successful'[d])
      BY <2>3, <2>8, <3>1 DEF LatestInv
    <3> QED BY <2>4, <3>1, <3>2 DEF Registered
  <2> QED BY <2>7, <2>8 DEF LatestInv
<1>8. ASSUME NEW c \in Consumers, ReceiveRegister(c)
      PROVE  LatestInv'
  <2>1. /\ UNCHANGED <<deleted, survivors, receiveCount, inflight, successful>>
        /\ receipts' = receipts \cup
              {<<Head(successful[c]), receiveCount[Head(successful[c])]>>}
        /\ \A d \in Consumers \ {c} : pc'[d] = pc[d]
    BY <1>1, <1>8
    DEF ReceiveRegister, CreateReceiptHandle, TypeOK, places, messageVars, history
  <2> QED BY <2>1 DEF LatestInv, Registered
<1>9. ASSUME NEW c \in Consumers, ReceiveHide(c)
      PROVE  LatestInv'
  <2>1. /\ UNCHANGED <<deleted, survivors, receiveCount, receipts>>
        /\ inflight' \subseteq inflight \cup {Head(successful[c])}
        /\ pc[c] = "hide"
        /\ \A d \in Consumers : pc'[d] = "hide" =>
              pc[d] = "hide" /\ successful'[d] = successful[d]
    BY <1>1, <1>9
    DEF ReceiveHide, TypeOK, receiptVars, messageVars, history
  <2> QED BY <2>1 DEF LatestInv, Registered
<1> QED
  BY <1>2, <1>3, <1>4, <1>5, <1>6, <1>7, <1>8, <1>9 DEF Next, Receive, Worker

\* The client that received a message in flight last can delete it: neither
\* older handles, nor requeues, nor other receives take its handle away.
THEOREM LatestHandleKept == Spec => []LatestHandleWorks
<1>1. Init => PlaceInv /\ LatestInv
  BY InitPlaceInv DEF Init, LatestInv
<1>2. (PlaceInv /\ LatestInv) /\ [Next]_vars => (PlaceInv /\ LatestInv)'
  BY PlacePreserved, LatestPreserved
<1>3. PlaceInv /\ LatestInv => LatestHandleWorks
  BY DEF LatestInv, Registered, LatestHandleWorks
<1> QED BY <1>1, <1>2, <1>3, PTL DEF Spec
==============================================================================

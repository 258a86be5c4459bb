----------------------- MODULE SqsStandardQueueProofs -----------------------
(***************************************************************************)
(* Proofs about the standard queue, for any number of messages, consumers  *)
(* and calls: type correctness, and that a message is never in two places. *)
(***************************************************************************)
EXTENDS SqsStandardQueue, TLAPS

-----------------------------------------------------------------------------
(* Sequences without repetition                                            *)

\* Taking the head off a sequence takes exactly one element out of its range.
LEMMA TailRange ==
    ASSUME NEW S, NEW s \in Seq(S), s # <<>>
    PROVE  /\ Head(s) \in S
           /\ Tail(s) \in Seq(S)
           /\ Range(s) = {Head(s)} \cup Range(Tail(s))
           /\ IsInjective(s) =>
                  IsInjective(Tail(s)) /\ Head(s) \notin Range(Tail(s))
<1>1. /\ Len(s) \in Nat /\ Len(s) > 0
      /\ DOMAIN s = 1..Len(s)
      /\ Tail(s) \in Seq(S)
      /\ Head(s) = s[1]
      /\ Head(s) \in S
      /\ Len(Tail(s)) = Len(s) - 1
      /\ DOMAIN Tail(s) = 1..(Len(s) - 1)
      /\ \A i \in 1..(Len(s) - 1) : Tail(s)[i] = s[i + 1]
  OBVIOUS
<1>2. Range(s) = {Head(s)} \cup Range(Tail(s))
  <2>1. \A x \in Range(s) : x \in {Head(s)} \cup Range(Tail(s))
    <3> SUFFICES ASSUME NEW i \in 1..Len(s), i # 1
                 PROVE  s[i] \in Range(Tail(s))
      BY <1>1 DEF Range
    <3>1. i - 1 \in 1..(Len(s) - 1) /\ Tail(s)[i - 1] = s[i]
      BY <1>1
    <3> QED BY <1>1, <3>1 DEF Range
  <2>2. \A x \in {Head(s)} \cup Range(Tail(s)) : x \in Range(s)
    BY <1>1 DEF Range
  <2> QED BY <2>1, <2>2
<1>3. ASSUME IsInjective(s)
      PROVE  IsInjective(Tail(s)) /\ Head(s) \notin Range(Tail(s))
  <2>1. ASSUME NEW i \in 1..(Len(s) - 1), NEW j \in 1..(Len(s) - 1),
               Tail(s)[i] = Tail(s)[j]
        PROVE  i = j
    <3>1. s[i + 1] = s[j + 1] /\ i + 1 \in DOMAIN s /\ j + 1 \in DOMAIN s
      BY <1>1, <2>1
    <3>2. i + 1 = j + 1
      BY <1>3, <3>1 DEF IsInjective
    <3> QED BY <3>2
  <2>2. ASSUME NEW i \in 1..(Len(s) - 1), Tail(s)[i] = Head(s)
        PROVE  FALSE
    <3>1. s[i + 1] = s[1] /\ i + 1 \in DOMAIN s /\ 1 \in DOMAIN s
      BY <1>1, <2>2
    <3>2. i + 1 = 1
      BY <1>3, <3>1 DEF IsInjective
    <3> QED BY <3>2
  <2> QED BY <1>1, <2>1, <2>2 DEF IsInjective, Range
<1> QED BY <1>1, <1>2, <1>3

\* Appending adds exactly the new element.
LEMMA AppendRange ==
    ASSUME NEW S, NEW s \in Seq(S), NEW x \in S
    PROVE  /\ Append(s, x) \in Seq(S)
           /\ Append(s, x) # <<>>
           /\ Range(Append(s, x)) = Range(s) \cup {x}
           /\ IsInjective(s) /\ x \notin Range(s) => IsInjective(Append(s, x))
<1>1. /\ Len(s) \in Nat
      /\ DOMAIN s = 1..Len(s)
      /\ Append(s, x) \in Seq(S)
      /\ Len(Append(s, x)) = Len(s) + 1
      /\ DOMAIN Append(s, x) = 1..(Len(s) + 1)
      /\ \A i \in 1..Len(s) : Append(s, x)[i] = s[i]
      /\ Append(s, x)[Len(s) + 1] = x
  OBVIOUS
<1>2. Append(s, x) # <<>>
  BY <1>1
<1>3. Range(Append(s, x)) = Range(s) \cup {x}
  <2>1. \A y \in Range(Append(s, x)) : y \in Range(s) \cup {x}
    <3> SUFFICES ASSUME NEW i \in 1..(Len(s) + 1), i # Len(s) + 1
                 PROVE  Append(s, x)[i] \in Range(s)
      BY <1>1 DEF Range
    <3>1. i \in 1..Len(s)
      BY <1>1
    <3> QED BY <1>1, <3>1 DEF Range
  <2>2. \A y \in Range(s) \cup {x} : y \in Range(Append(s, x))
    <3>1. ASSUME NEW i \in 1..Len(s)
          PROVE  s[i] \in Range(Append(s, x))
      <4>1. i \in 1..(Len(s) + 1) /\ Append(s, x)[i] = s[i]
        BY <1>1
      <4> QED BY <1>1, <4>1 DEF Range
    <3>2. x \in Range(Append(s, x))
      <4>1. Len(s) + 1 \in 1..(Len(s) + 1)
        BY <1>1
      <4> QED BY <1>1, <4>1 DEF Range
    <3> QED BY <1>1, <3>1, <3>2 DEF Range
  <2> QED BY <2>1, <2>2
<1>4. ASSUME IsInjective(s), x \notin Range(s)
      PROVE  IsInjective(Append(s, x))
  <2> SUFFICES ASSUME NEW i \in 1..(Len(s) + 1), NEW j \in 1..(Len(s) + 1),
                      Append(s, x)[i] = Append(s, x)[j]
               PROVE  i = j
    BY <1>1 DEF IsInjective
  <2>1. CASE i \in 1..Len(s) /\ j \in 1..Len(s)
    BY <1>1, <1>4, <2>1 DEF IsInjective
  <2>2. CASE i \in 1..Len(s) /\ j = Len(s) + 1
    BY <1>1, <1>4, <2>2 DEF Range
  <2>3. CASE i = Len(s) + 1 /\ j \in 1..Len(s)
    BY <1>1, <1>4, <2>3 DEF Range
  <2>4. CASE i = Len(s) + 1 /\ j = Len(s) + 1
    BY <2>4
  <2> QED BY <1>1, <2>1, <2>2, <2>3, <2>4
<1> QED BY <1>1, <1>2, <1>3, <1>4

-----------------------------------------------------------------------------
(* Type correctness                                                        *)

USE QueueAssumption

\* The empty queue is well typed.
LEMMA InitTypeOK == Init => TypeOK
<1> SUFFICES ASSUME Init PROVE TypeOK
  OBVIOUS
<1>1. <<>> \in Seq(Messages) /\ 0 \in 0..MaxMessages /\ 0 \in 0..MaxReceives
  OBVIOUS
<1>2. /\ visible \in [Messages -> Nat]
      /\ receiptHandles \in [Messages -> SUBSET Nat]
      /\ receiveCount \in [Messages -> Nat]
  BY DEF Init
<1>3. /\ successful \in [Consumers -> Seq(Messages)]
      /\ deadLetters \in [Consumers -> Seq(Messages)]
  BY <1>1 DEF Init
<1>4. /\ pc \in [Consumers -> ConsumerSteps]
      /\ popped \in [Consumers -> Messages \cup {NoMessage}]
      /\ zeroTimeout \in [Consumers -> BOOLEAN]
      /\ \A c \in Consumers : pc[c] = "idle"
  BY DEF Init, ConsumerSteps
<1>5. /\ result \in [Consumers -> SUBSET Handles]
      /\ deletedBefore \in [Consumers -> SUBSET Messages]
  BY DEF Init
<1> QED
  BY <1>1, <1>2, <1>3, <1>4, <1>5 DEF Init, TypeOK, WorkerSteps

\* Putting messages on the heap raises their number by one, the others' by 0.
LEMMA PutAllFact ==
    ASSUME visible \in [Messages -> Nat], NEW S
    PROVE  /\ PutAll(S) \in [Messages -> Nat]
           /\ \A m \in Messages :
                 PutAll(S)[m] = IF m \in S THEN visible[m] + 1 ELSE visible[m]
BY DEF PutAll

\* Each step of the specification keeps every variable in its type.
LEMMA TypePreserved == TypeOK /\ [Next]_vars => TypeOK'
<1> SUFFICES ASSUME TypeOK, [Next]_vars PROVE TypeOK'
  OBVIOUS
<1> USE DEF TypeOK, Handles, NoMessage, WorkerSteps, ConsumerSteps,
            places, receiptVars, messageVars, clockVars, storeVars,
            queueVars, callVars, history
<1>1. CASE Put
  <2>1. sent + 1 \in Messages /\ sent + 1 \in 0..MaxMessages
    BY <1>1 DEF Put, Messages
  <2> QED BY <1>1, <2>1, PutAllFact DEF Put
<1>2. ASSUME NEW m \in Messages, VisibilityElapses(m) PROVE TypeOK'
  BY <1>2 DEF VisibilityElapses
<1>3. ASSUME NEW m \in Messages, DelayElapses(m) PROVE TypeOK'
  BY <1>3 DEF DelayElapses
<1>4. CASE Age
  <2>1. aged + 1 \in 0..MaxMessages
    BY <1>4 DEF Age
  <2> QED BY <1>4, <2>1 DEF Age
<1>5. ASSUME NEW c \in Consumers, NEW zero \in BOOLEAN, ReceiveStart(c, zero)
      PROVE  TypeOK'
  BY <1>5 DEF ReceiveStart
<1>6. ASSUME NEW c \in Consumers, NEW m \in Messages, ReceiveGet(c, m)
      PROVE  TypeOK'
  BY <1>6 DEF ReceiveGet, IsFirst
<1>7. ASSUME NEW c \in Consumers, ReceiveEmpty(c) PROVE TypeOK'
  BY <1>7 DEF ReceiveEmpty, GetRaisesEmpty
<1>8. ASSUME NEW c \in Consumers, ReceiveSkipDeleted(c) PROVE TypeOK'
  BY <1>8 DEF ReceiveSkipDeleted, IsDeleted
<1>9. ASSUME NEW c \in Consumers, ReceiveTake(c) PROVE TypeOK'
  <2> DEFINE m == popped[c]
  <2>1. m \in Messages /\ receiveCount[m] + 1 \in Nat
    BY <1>9 DEF ReceiveTake
  <2>2. /\ Append(successful[c], m) \in Seq(Messages)
        /\ Append(deadLetters[c], m) \in Seq(Messages)
    BY <2>1
  <2>3. /\ successful' \in [Consumers -> Seq(Messages)]
        /\ deadLetters' \in [Consumers -> Seq(Messages)]
    BY <1>9, <2>2 DEF ReceiveTake
  <2>4. /\ pc' \in [Consumers -> ConsumerSteps]
        /\ popped' \in [Consumers -> Messages \cup {NoMessage}]
        /\ receiveCount' \in [Messages -> Nat]
        /\ hidden' \subseteq Messages
    BY <1>9, <2>1 DEF ReceiveTake
  <2>5. \A d \in Consumers :
           /\ pc'[d] = "take" => popped'[d] \in Messages
           /\ pc'[d] \in {"register", "hide"} => successful'[d] # <<>>
    BY <1>9 DEF ReceiveTake
  <2> QED BY <1>9, <2>3, <2>4, <2>5 DEF ReceiveTake
<1>10. ASSUME NEW c \in Consumers, ReceiveAddHandle(c) PROVE TypeOK'
  <2>1. /\ Head(successful[c]) \in Messages
        /\ receiveCount[Head(successful[c])] \in Nat
    BY <1>10, TailRange DEF ReceiveAddHandle
  <2>2. receiptHandles' \in [Messages -> SUBSET Nat]
    BY <1>10, <2>1 DEF ReceiveAddHandle, CreateReceiptHandle
  <2> QED BY <1>10, <2>2 DEF ReceiveAddHandle
<1>11. ASSUME NEW c \in Consumers, ReceiveRegister(c) PROVE TypeOK'
  <2>1. CreateReceiptHandle(Head(successful[c])) \in Handles
    BY <1>11, TailRange DEF ReceiveRegister, CreateReceiptHandle
  <2> QED BY <1>11, <2>1 DEF ReceiveRegister
<1>12. ASSUME NEW c \in Consumers, ReceiveHide(c) PROVE TypeOK'
  <2>1. Head(successful[c]) \in Messages /\ Tail(successful[c]) \in Seq(Messages)
    BY <1>12, TailRange DEF ReceiveHide
  <2>2. visible' \in [Messages -> Nat] /\ inflight' \subseteq Messages
    BY <1>12, <2>1, PutAllFact DEF ReceiveHide
  <2>3. successful' \in [Consumers -> Seq(Messages)]
    BY <1>12, <2>1 DEF ReceiveHide
  <2> QED BY <1>12, <2>2, <2>3 DEF ReceiveHide
<1>13. ASSUME NEW c \in Consumers, DeadLetterLookup(c) PROVE TypeOK'
  BY <1>13 DEF DeadLetterLookup
<1>14. ASSUME NEW c \in Consumers, DeadLetterMissing(c) PROVE TypeOK'
  <2>1. <<>> \in Seq(Messages) /\ Range(deadLetters[c]) \subseteq Messages
    BY DEF Range
  <2> QED BY <1>14, <2>1 DEF DeadLetterMissing
<1>15. ASSUME NEW c \in Consumers, DeadLetterPut(c) PROVE TypeOK'
  <2>1. /\ Head(deadLetters[c]) \in Messages
        /\ Tail(deadLetters[c]) \in Seq(Messages)
    BY <1>15, TailRange DEF DeadLetterPut
  <2> QED BY <1>15, <2>1 DEF DeadLetterPut
<1>16. ASSUME NEW c \in Consumers, ReceiveReturn(c) PROVE TypeOK'
  BY <1>16 DEF ReceiveReturn
<1>17. ASSUME NEW h \in issued, Remove(h) PROVE TypeOK'
  BY <1>17 DEF Remove, OnRemoveMessage, HandlesOf, MutexFree
<1>18. ASSUME NEW h \in issued, RemoveKeyError(h) PROVE TypeOK'
  BY <1>18 DEF RemoveKeyError, HandlesOf
<1>19. ASSUME NEW h \in issued, NEW zero \in BOOLEAN, UpdateVisibilityTimeout(h, zero)
      PROVE  TypeOK'
  <2>1. h[1] \in Messages
    BY <1>19
  <2>2. /\ visible' \in [Messages -> Nat]
        /\ inflight' \subseteq Messages /\ hidden' \subseteq Messages
    BY <1>19, <2>1, PutAllFact DEF UpdateVisibilityTimeout
  <2> QED BY <1>19, <2>2 DEF UpdateVisibilityTimeout
<1>20. CASE Clear
  <2>1. \A c \in Consumers : Held(c) \subseteq Messages
    BY DEF Held, Range
  <2> QED BY <1>20, <2>1 DEF Clear
<1>21. CASE Shutdown
  BY <1>21 DEF Shutdown
<1>22. CASE DeleteDlq
  BY <1>22 DEF DeleteDlq
<1>23. CASE RequeueInflight
  BY <1>23, PutAllFact DEF RequeueInflight, DueInflight
<1>24. CASE RequeueFails \/ EnqueueFails
  BY <1>24 DEF RequeueFails, EnqueueFails
<1>25. CASE EnqueueDelayed
  BY <1>25, PutAllFact DEF EnqueueDelayed
<1>26. CASE ExpirePeek
  BY <1>26 DEF ExpirePeek
<1>27. CASE ExpirePop
  BY <1>27 DEF ExpirePop, IsFirst, VisibleEmpty
<1>28. CASE UNCHANGED vars
  BY <1>28 DEF vars
<1> QED
  BY <1>1, <1>2, <1>3, <1>4, <1>5, <1>6, <1>7, <1>8, <1>9, <1>10, <1>11, <1>12, <1>13, <1>14, <1>15, <1>16, <1>17, <1>18, <1>19, <1>20, <1>21, <1>22, <1>23, <1>24, <1>25, <1>26, <1>27, <1>28
     DEF Next, Receive, Worker

-----------------------------------------------------------------------------
(* A message is never in two places                                        *)

\* The calls' variables that determine what the consumers hold.
heldVars == <<pc, popped, successful, deadLetters>>

\* The empty queue holds nothing.
LEMMA InitPlaceInv == Init => PlaceInv
<1> SUFFICES ASSUME Init PROVE PlaceInv
  OBVIOUS
<1>1. TypeOK
  BY InitTypeOK
<1>2. Range(<<>>) = {} /\ IsInjective(<<>>)
  BY DEF Range, IsInjective
<1>3. \A c \in Consumers : Held(c) = {} /\ HeldOnce(c)
  BY <1>2 DEF Init, Held, HeldOnce
<1>4. \A m \in Messages : visible[m] = 0
  BY DEF Init
<1>5. SinglePlace
  BY <1>3, <1>4 DEF Init, SinglePlace
<1>6. UnsentNowhere
  BY <1>3, <1>4 DEF Init, UnsentNowhere, Somewhere
<1> QED BY <1>1, <1>5, <1>6 DEF PlaceInv

\* A step that only takes messages away from places keeps the invariant.
LEMMA ShrinkKeepsPlaces ==
    ASSUME PlaceInv, TypeOK',
           sent' = sent,
           delayed' \subseteq delayed, inflight' \subseteq inflight,
           dlq' \subseteq dlq,
           \A m \in Messages : visible'[m] <= visible[m],
           \A c \in Consumers : Held(c)' \subseteq Held(c) /\ HeldOnce(c)'
    PROVE  PlaceInv'
<1>1. /\ visible \in [Messages -> Nat] /\ visible' \in [Messages -> Nat]
      /\ delayed \subseteq Messages /\ inflight \subseteq Messages
      /\ dlq \subseteq Messages
  BY DEF PlaceInv, TypeOK
<1>2. \A c \in Consumers : Held(c) \subseteq Messages
  BY DEF PlaceInv, TypeOK, Held, Range
<1>3. SinglePlace'
  <2>1. ASSUME NEW m \in Messages
        PROVE  /\ visible'[m] <= 1
               /\ visible'[m] = 1 =>
                      m \notin inflight' \cup delayed' \cup dlq'
               /\ m \in inflight' => m \notin delayed' \cup dlq'
               /\ m \in delayed' => m \notin dlq'
    BY <1>1 DEF PlaceInv, SinglePlace
  <2>2. ASSUME NEW c \in Consumers, NEW m \in Held(c)'
        PROVE  /\ visible'[m] = 0
               /\ m \notin inflight' \cup delayed' \cup dlq'
               /\ \A d \in Consumers \ {c} : m \notin Held(d)'
    BY <1>1, <1>2 DEF PlaceInv, SinglePlace
  <2> QED BY <2>1, <2>2 DEF SinglePlace
<1>4. UnsentNowhere'
  BY <1>1 DEF PlaceInv, UnsentNowhere, Somewhere
<1> QED BY <1>3, <1>4 DEF PlaceInv

\* What the consumers hold does not change with the variables that say so.
LEMMA HeldStable ==
    ASSUME UNCHANGED heldVars
    PROVE  \A c \in Consumers :
              Held(c)' = Held(c) /\ (HeldOnce(c) => HeldOnce(c)')
BY DEF heldVars, Held, HeldOnce

\* Nor does it change with steps of a call outside "take".
LEMMA HeldStableOutsideTake ==
    ASSUME NEW c \in Consumers, pc \in [Consumers -> ConsumerSteps],
           pc[c] # "take",
           NEW step \in ConsumerSteps \ {"take"},
           pc' = [pc EXCEPT ![c] = step],
           UNCHANGED <<popped, successful, deadLetters>>
    PROVE  \A d \in Consumers :
              Held(d)' = Held(d) /\ (HeldOnce(d) => HeldOnce(d)')
<1> SUFFICES ASSUME NEW d \in Consumers
             PROVE  Held(d)' = Held(d) /\ (HeldOnce(d) => HeldOnce(d)')
  OBVIOUS
<1>1. pc'[d] = "take" <=> pc[d] = "take"
  OBVIOUS
<1> QED BY <1>1 DEF Held, HeldOnce

\* Each step keeps the invariant.
LEMMA PlacePreserved == PlaceInv /\ [Next]_vars => PlaceInv'
<1> SUFFICES ASSUME PlaceInv, [Next]_vars PROVE PlaceInv'
  OBVIOUS
<1>1. TypeOK /\ TypeOK' /\ SinglePlace /\ UnsentNowhere
  BY TypePreserved DEF PlaceInv
<1>2. \A c \in Consumers : HeldOnce(c) /\ Held(c) \subseteq Messages
  BY <1>1 DEF SinglePlace, TypeOK, Held, Range
<1>3. /\ visible \in [Messages -> Nat] /\ visible' \in [Messages -> Nat]
      /\ delayed \subseteq Messages /\ inflight \subseteq Messages
      /\ dlq \subseteq Messages
      /\ pc \in [Consumers -> ConsumerSteps]
      /\ sent \in Nat
  BY <1>1 DEF TypeOK
<1>4. ASSUME UNCHANGED heldVars, sent' = sent,
             delayed' \subseteq delayed, inflight' \subseteq inflight,
             dlq' \subseteq dlq,
             \A m \in Messages : visible'[m] <= visible[m]
      PROVE  PlaceInv'
  BY <1>1, <1>2, <1>4, HeldStable, ShrinkKeepsPlaces
<1>5. ASSUME NEW c \in Consumers, pc[c] # "take",
             NEW step \in ConsumerSteps \ {"take"},
             pc' = [pc EXCEPT ![c] = step],
             UNCHANGED <<popped, successful, deadLetters>>,
             UNCHANGED <<sent, delayed, visible, inflight, dlq>>
      PROVE  PlaceInv'
  <2>1. \A d \in Consumers : Held(d)' = Held(d) /\ HeldOnce(d)'
    BY <1>2, <1>3, <1>5, HeldStableOutsideTake
  <2>2. \A m \in Messages : visible'[m] <= visible[m]
    BY <1>3, <1>5
  <2> QED BY <1>1, <1>5, <2>1, <2>2, ShrinkKeepsPlaces
<1>6. CASE Put
  <2>1. UNCHANGED heldVars
    BY <1>6 DEF Put, heldVars, callVars
  <2>2. \A c \in Consumers : Held(c)' = Held(c) /\ HeldOnce(c)'
    BY <1>2, <2>1, HeldStable
  <2>3. sent + 1 \in Messages
    BY <1>1, <1>6 DEF Put, TypeOK, Messages
  <2>4. ~Somewhere(sent + 1)
    BY <1>1, <1>3, <2>3 DEF UnsentNowhere
  <2>5. /\ sent + 1 \notin delayed \cup inflight \cup dlq
        /\ visible[sent + 1] = 0
        /\ \A c \in Consumers : sent + 1 \notin Held(c)
    BY <1>3, <2>3, <2>4 DEF Somewhere
  <2>6. inflight' = inflight /\ dlq' = dlq /\ sent' = sent + 1
    BY <1>6 DEF Put, storeVars
  <2>7. \/ delayed' = delayed \cup {sent + 1} /\ visible' = visible
        \/ /\ delayed' = delayed
           /\ \A m \in Messages :
                 visible'[m] = IF m = sent + 1 THEN 1 ELSE visible[m]
    BY <1>3, <1>6, <2>5, PutAllFact DEF Put
  <2>8. SinglePlace'
    BY <1>1, <1>2, <1>3, <2>2, <2>3, <2>5, <2>6, <2>7 DEF SinglePlace
  <2>9. UnsentNowhere'
    BY <1>1, <1>3, <2>2, <2>3, <2>6, <2>7, SMT
    DEF UnsentNowhere, Somewhere, Messages
  <2> QED BY <1>1, <2>8, <2>9 DEF PlaceInv
<1>7. ASSUME NEW m \in Messages, VisibilityElapses(m) \/ DelayElapses(m)
      PROVE  PlaceInv'
  BY <1>3, <1>4, <1>7
  DEF VisibilityElapses, DelayElapses, heldVars, callVars, places, storeVars
<1>8. CASE Age \/ Shutdown \/ DeleteDlq \/ RequeueFails \/ EnqueueFails
        \/ ExpirePeek
  BY <1>3, <1>4, <1>8
  DEF Age, Shutdown, DeleteDlq, RequeueFails, EnqueueFails, ExpirePeek,
      heldVars, callVars,
      places, storeVars, queueVars
<1>9. ASSUME NEW c \in Consumers, NEW zero \in BOOLEAN, ReceiveStart(c, zero)
      PROVE  PlaceInv'
  BY <1>5, <1>9 DEF ReceiveStart, ConsumerSteps, queueVars, places, storeVars
<1>10. ASSUME NEW c \in Consumers, NEW m \in Messages, ReceiveGet(c, m)
       PROVE  PlaceInv'
  <2>1. visible[m] = 1
    BY <1>1, <1>3, <1>10 DEF ReceiveGet, IsFirst, SinglePlace
  <2>2. \A d \in Consumers : m \notin Held(d)
    BY <1>1, <2>1 DEF SinglePlace
  <2>3. /\ Held(c)' = Held(c) \cup {m}
        /\ \A d \in Consumers \ {c} : Held(d)' = Held(d)
    BY <1>1, <1>10 DEF ReceiveGet, Held, TypeOK
  <2>4. m \notin Range(successful[c]) \cup Range(deadLetters[c])
    BY <2>2 DEF Held
  <2>5. \A d \in Consumers : HeldOnce(d)'
    BY <1>1, <1>2, <1>10, <2>4 DEF ReceiveGet, HeldOnce, TypeOK
  <2>6. /\ sent' = sent /\ delayed' = delayed /\ inflight' = inflight
        /\ dlq' = dlq
        /\ \A x \in Messages : visible'[x] = IF x = m THEN 0 ELSE visible[x]
    BY <1>3, <1>10, <2>1 DEF ReceiveGet, storeVars
  <2>7. SinglePlace'
    BY <1>1, <1>2, <1>3, <2>1, <2>2, <2>3, <2>5, <2>6 DEF SinglePlace
  <2>8. UnsentNowhere'
    BY <1>1, <1>3, <2>1, <2>3, <2>6 DEF UnsentNowhere, Somewhere
  <2> QED BY <1>1, <2>7, <2>8 DEF PlaceInv
<1>11. ASSUME NEW c \in Consumers,
              ReceiveEmpty(c) \/ ReceiveAddHandle(c) \/ ReceiveRegister(c)
                \/ DeadLetterLookup(c) \/ ReceiveReturn(c)
       PROVE  PlaceInv'
  BY <1>5, <1>11
  DEF ReceiveEmpty, ReceiveAddHandle, ReceiveRegister, DeadLetterLookup,
      ReceiveReturn, ConsumerSteps, queueVars, places, storeVars
<1>12. ASSUME NEW c \in Consumers, ReceiveSkipDeleted(c)
       PROVE  PlaceInv'
  <2>1. \A d \in Consumers : Held(d)' \subseteq Held(d) /\ HeldOnce(d)'
    BY <1>1, <1>2, <1>12 DEF ReceiveSkipDeleted, Held, HeldOnce, TypeOK
  <2>2. UNCHANGED <<sent, delayed, inflight, dlq, visible>>
    BY <1>12 DEF ReceiveSkipDeleted, queueVars, places, storeVars
  <2> QED BY <1>1, <1>3, <2>1, <2>2, ShrinkKeepsPlaces
<1>13. ASSUME NEW c \in Consumers, ReceiveTake(c)
       PROVE  PlaceInv'
  <2> DEFINE m == popped[c]
  <2>1. /\ m \in Messages /\ m \in Held(c)
        /\ m \notin Range(successful[c]) \cup Range(deadLetters[c])
    BY <1>1, <1>2, <1>13 DEF ReceiveTake, TypeOK, Held, HeldOnce
  <2>2. /\ Range(Append(successful[c], m)) = Range(successful[c]) \cup {m}
        /\ IsInjective(Append(successful[c], m))
        /\ Range(Append(deadLetters[c], m)) = Range(deadLetters[c]) \cup {m}
        /\ IsInjective(Append(deadLetters[c], m))
    BY <1>1, <1>2, <2>1, AppendRange DEF TypeOK, HeldOnce
  <2>3. /\ pc[c] = "take" /\ pc'[c] # "take"
        /\ \/ /\ successful'[c] = Append(successful[c], m)
              /\ deadLetters'[c] = deadLetters[c]
           \/ /\ successful'[c] = successful[c]
              /\ deadLetters'[c] = Append(deadLetters[c], m)
        /\ \A d \in Consumers \ {c} :
              /\ pc'[d] = pc[d] /\ popped'[d] = popped[d]
              /\ successful'[d] = successful[d]
              /\ deadLetters'[d] = deadLetters[d]
    BY <1>1, <1>13 DEF ReceiveTake, TypeOK
  <2>4. \A d \in Consumers : Held(d)' = Held(d)
    BY <2>2, <2>3 DEF Held
  <2>5. \A d \in Consumers : HeldOnce(d)'
    <3>1. HeldOnce(c)'
      BY <1>2, <2>1, <2>2, <2>3 DEF HeldOnce
    <3>2. \A d \in Consumers \ {c} : HeldOnce(d)'
      BY <1>2, <2>3 DEF HeldOnce
    <3> QED BY <3>1, <3>2
  <2>6. UNCHANGED <<sent, delayed, inflight, dlq, visible>>
    BY <1>13 DEF ReceiveTake, places, storeVars
  <2> QED BY <1>1, <1>3, <2>4, <2>5, <2>6, ShrinkKeepsPlaces
<1>14. ASSUME NEW c \in Consumers, ReceiveHide(c)
       PROVE  PlaceInv'
  <2> DEFINE m == Head(successful[c])
  <2>1. /\ m \in Messages
        /\ Range(successful[c]) = {m} \cup Range(Tail(successful[c]))
        /\ IsInjective(Tail(successful[c]))
        /\ m \notin Range(Tail(successful[c]))
    <3>1. /\ successful[c] \in Seq(Messages) /\ successful[c] # <<>>
          /\ IsInjective(successful[c])
      BY <1>1, <1>2, <1>14 DEF ReceiveHide, TypeOK, HeldOnce
    <3> QED BY <3>1, TailRange
  <2>2. /\ pc[c] = "hide" /\ pc'[c] = "handle"
        /\ successful'[c] = Tail(successful[c])
        /\ deadLetters' = deadLetters /\ popped' = popped
        /\ \A d \in Consumers \ {c} :
              pc'[d] = pc[d] /\ successful'[d] = successful[d]
    BY <1>1, <1>14 DEF ReceiveHide, TypeOK
  <2>3. /\ m \in Held(c) /\ m \notin Held(c)'
        /\ \A d \in Consumers : Held(d)' \subseteq Held(d)
    BY <1>2, <2>1, <2>2 DEF Held, HeldOnce
  <2>4. \A d \in Consumers : HeldOnce(d)'
    BY <1>2, <2>1, <2>2 DEF HeldOnce
  <2>5. /\ visible[m] = 0
        /\ m \notin inflight \cup delayed \cup dlq
        /\ \A d \in Consumers \ {c} : m \notin Held(d)
    BY <1>1, <2>3 DEF SinglePlace
  <2>6. sent' = sent /\ delayed' = delayed /\ dlq' = dlq
    BY <1>14 DEF ReceiveHide, storeVars
  <2>7. \/ /\ inflight' = inflight
           /\ \A x \in Messages : visible'[x] = IF x = m THEN 1 ELSE visible[x]
        \/ inflight' = inflight \cup {m} /\ visible' = visible
    BY <1>3, <1>14, <2>5, PutAllFact DEF ReceiveHide
  <2>8. SinglePlace'
    BY <1>1, <1>2, <1>3, <2>1, <2>3, <2>4, <2>5, <2>6, <2>7 DEF SinglePlace
  <2>9. UnsentNowhere'
    BY <1>1, <1>3, <2>1, <2>3, <2>6, <2>7 DEF UnsentNowhere, Somewhere
  <2> QED BY <1>1, <2>8, <2>9 DEF PlaceInv
<1>15. ASSUME NEW c \in Consumers, DeadLetterMissing(c)
       PROVE  PlaceInv'
  <2>1. Range(<<>>) = {} /\ IsInjective(<<>>)
    BY DEF Range, IsInjective
  <2>2. \A d \in Consumers : Held(d)' \subseteq Held(d) /\ HeldOnce(d)'
    BY <1>1, <1>2, <1>15, <2>1 DEF DeadLetterMissing, Held, HeldOnce, TypeOK
  <2>3. UNCHANGED <<sent, delayed, inflight, dlq, visible>>
    BY <1>15 DEF DeadLetterMissing, queueVars, places, storeVars
  <2> QED BY <1>1, <1>3, <2>2, <2>3, ShrinkKeepsPlaces
<1>16. ASSUME NEW c \in Consumers, DeadLetterPut(c)
       PROVE  PlaceInv'
  <2> DEFINE m == Head(deadLetters[c])
  <2>1. /\ m \in Messages
        /\ Range(deadLetters[c]) = {m} \cup Range(Tail(deadLetters[c]))
        /\ IsInjective(Tail(deadLetters[c]))
        /\ m \notin Range(Tail(deadLetters[c]))
    BY <1>1, <1>2, <1>16, TailRange DEF DeadLetterPut, TypeOK, HeldOnce
  <2>2. /\ pc[c] = "deadletter" /\ pc' = pc /\ popped' = popped
        /\ deadLetters'[c] = Tail(deadLetters[c])
        /\ successful' = successful
        /\ \A d \in Consumers \ {c} : deadLetters'[d] = deadLetters[d]
    BY <1>1, <1>16 DEF DeadLetterPut, TypeOK
  <2>3. /\ m \in Held(c) /\ m \notin Held(c)'
        /\ \A d \in Consumers : Held(d)' \subseteq Held(d)
    BY <1>2, <2>1, <2>2 DEF Held, HeldOnce
  <2>4. \A d \in Consumers : HeldOnce(d)'
    BY <1>2, <2>1, <2>2 DEF HeldOnce
  <2>5. /\ visible[m] = 0
        /\ m \notin inflight \cup delayed \cup dlq
        /\ \A d \in Consumers \ {c} : m \notin Held(d)
    BY <1>1, <2>3 DEF SinglePlace
  <2>6. /\ sent' = sent /\ delayed' = delayed /\ dlq' = dlq \cup {m}
        /\ visible' = visible /\ inflight' = inflight
    BY <1>16 DEF DeadLetterPut, places
  <2>7. SinglePlace'
    BY <1>1, <1>2, <1>3, <2>1, <2>3, <2>4, <2>5, <2>6 DEF SinglePlace
  <2>8. UnsentNowhere'
    BY <1>1, <1>3, <2>1, <2>3, <2>6 DEF UnsentNowhere, Somewhere
  <2> QED BY <1>1, <2>7, <2>8 DEF PlaceInv
<1>17. ASSUME NEW h \in issued, Remove(h) \/ RemoveKeyError(h)
       PROVE  PlaceInv'
  <2>1. h[1] \in Messages
    BY <1>1 DEF TypeOK, Handles
  <2>2. \A m \in Messages : visible'[m] <= visible[m]
    BY <1>3, <1>17, <2>1 DEF Remove, OnRemoveMessage, RemoveKeyError, places
  <2> QED
    BY <1>4, <1>17, <2>2
    DEF Remove, OnRemoveMessage, RemoveKeyError, heldVars, callVars, storeVars, places
<1>18. ASSUME NEW h \in issued, NEW zero \in BOOLEAN,
              UpdateVisibilityTimeout(h, zero)
       PROVE  PlaceInv'
  <2> DEFINE m == h[1]
  <2>1. UNCHANGED <<heldVars, sent, delayed, dlq>>
    BY <1>18 DEF UpdateVisibilityTimeout, heldVars, callVars, storeVars
  <2>2. CASE ~zero
    BY <1>3, <1>4, <1>18, <2>1, <2>2 DEF UpdateVisibilityTimeout
  <2>3. CASE zero
    <3>1. m \in inflight /\ m \in Messages
      BY <1>3, <1>18 DEF UpdateVisibilityTimeout, InFlight
    <3>2. /\ visible[m] = 0
          /\ m \notin delayed \cup dlq
          /\ \A c \in Consumers : m \notin Held(c)
      BY <1>1, <1>3, <3>1 DEF SinglePlace
    <3>3. /\ inflight' = inflight \ {m}
          /\ \A x \in Messages : visible'[x] = IF x = m THEN 1 ELSE visible[x]
      BY <1>3, <1>18, <2>3, <3>2, PutAllFact DEF UpdateVisibilityTimeout
    <3>4. \A c \in Consumers : Held(c)' = Held(c) /\ HeldOnce(c)'
      BY <1>2, <2>1, HeldStable
    <3>5. SinglePlace'
      BY <1>1, <1>2, <1>3, <2>1, <3>1, <3>2, <3>3, <3>4 DEF SinglePlace
    <3>6. UnsentNowhere'
      BY <1>1, <1>3, <2>1, <3>1, <3>3, <3>4 DEF UnsentNowhere, Somewhere
    <3> QED BY <1>1, <3>5, <3>6 DEF PlaceInv
  <2> QED BY <2>2, <2>3
<1>19. CASE Clear
  BY <1>3, <1>4, <1>19 DEF Clear, heldVars, callVars, storeVars
<1>20. CASE RequeueInflight
  <2>1. UNCHANGED <<heldVars, sent, delayed, dlq>>
    BY <1>20 DEF RequeueInflight, heldVars, callVars, storeVars
  <2>2. DueInflight \subseteq inflight
    BY DEF DueInflight
  <2>3. \A m \in DueInflight :
           /\ visible[m] = 0
           /\ m \notin delayed \cup dlq
           /\ \A c \in Consumers : m \notin Held(c)
    BY <1>1, <1>3, <2>2 DEF SinglePlace
  <2>4. /\ inflight' = inflight \ DueInflight
        /\ \A x \in Messages :
              visible'[x] = IF x \in DueInflight THEN 1 ELSE visible[x]
    BY <1>3, <1>20, <2>3, PutAllFact DEF RequeueInflight
  <2>5. \A c \in Consumers : Held(c)' = Held(c) /\ HeldOnce(c)'
    BY <1>2, <2>1, HeldStable
  <2>6. SinglePlace'
    BY <1>1, <1>2, <1>3, <2>1, <2>2, <2>3, <2>4, <2>5 DEF SinglePlace
  <2>7. UnsentNowhere'
    BY <1>1, <1>3, <2>1, <2>2, <2>4, <2>5 DEF UnsentNowhere, Somewhere
  <2> QED BY <1>1, <2>6, <2>7 DEF PlaceInv
<1>21. CASE EnqueueDelayed
  <2> DEFINE due == delayed \ notDue
  <2>1. UNCHANGED <<heldVars, sent, inflight, dlq>>
    BY <1>21 DEF EnqueueDelayed, heldVars, callVars, storeVars
  <2>2. \A m \in due :
           /\ m \in Messages /\ visible[m] = 0
           /\ m \notin inflight \cup dlq
           /\ \A c \in Consumers : m \notin Held(c)
    BY <1>1, <1>3 DEF SinglePlace
  <2>3. /\ delayed' = delayed \ due
        /\ \A x \in Messages : visible'[x] = IF x \in due THEN 1 ELSE visible[x]
    BY <1>3, <1>21, <2>2, PutAllFact DEF EnqueueDelayed
  <2>4. \A c \in Consumers : Held(c)' = Held(c) /\ HeldOnce(c)'
    BY <1>2, <2>1, HeldStable
  <2>5. SinglePlace'
    BY <1>1, <1>2, <1>3, <2>1, <2>2, <2>3, <2>4 DEF SinglePlace
  <2>6. UnsentNowhere'
    BY <1>1, <1>3, <2>1, <2>2, <2>3, <2>4 DEF UnsentNowhere, Somewhere
  <2> QED BY <1>1, <2>5, <2>6 DEF PlaceInv
<1>22. CASE ExpirePop
  <2>1. \A m \in Messages : visible'[m] <= visible[m]
    BY <1>3, <1>22 DEF ExpirePop, IsFirst
  <2> QED
    BY <1>4, <1>22, <2>1 DEF ExpirePop, heldVars, callVars, storeVars
<1>23. CASE UNCHANGED vars
  BY <1>3, <1>4, <1>23
  DEF vars, heldVars, callVars, queueVars, places, storeVars
<1> QED
  BY <1>6, <1>7, <1>8, <1>9, <1>10, <1>11, <1>12, <1>13, <1>14, <1>15, <1>16,
     <1>17, <1>18, <1>19, <1>20, <1>21, <1>22, <1>23
  DEF Next, Receive, Worker

-----------------------------------------------------------------------------
\* Every behaviour of the queue keeps its state well typed.
THEOREM TypeCorrect == Spec => []TypeOK
BY InitTypeOK, TypePreserved, PTL DEF Spec

\* However receive calls, the worker and the other calls interleave, no
\* message is ever queued twice, held by two receives, or in flight and
\* visible at once (StandardQueue.receive works without the queue's mutex).
THEOREM MessageInOnePlace == Spec => []SinglePlace
<1>1. Init => PlaceInv
  BY InitPlaceInv
<1>2. PlaceInv /\ [Next]_vars => PlaceInv'
  BY PlacePreserved
<1>3. PlaceInv => SinglePlace
  BY DEF PlaceInv
<1> QED BY <1>1, <1>2, <1>3, PTL DEF Spec
=============================================================================

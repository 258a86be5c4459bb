-------------------------- MODULE SqsContractProofs --------------------------
(***************************************************************************)
(* The standard queue implements SqsContract, for any number of messages,  *)
(* consumers and calls: seen through ContractPlace, each step of each      *)
(* thread is a step of the contract or changes nothing.                    *)
(***************************************************************************)
EXTENDS SqsDeliveryProofs

USE QueueAssumption

-----------------------------------------------------------------------------
(* The refinement mapping                                                  *)

\* The mapping, told in the words of the lemmas on the steps.
LEMMA PlaceCases ==
    ASSUME NEW m
    PROVE  ContractPlace(m) =
              IF m > sent THEN "unsent"
              ELSE IF Dead(m) THEN "dead"
              ELSE IF Gone(m) THEN "gone"
              ELSE IF Out(m) THEN "out"
              ELSE IF Somewhere(m) THEN "waiting"
              ELSE "lost"
BY DEF ContractPlace, Dead, Gone, Out

\* The same, after a step.
LEMMA PlaceCasesNext ==
    ASSUME NEW m
    PROVE  ContractPlace(m)' =
              IF m > sent' THEN "unsent"
              ELSE IF Dead(m)' THEN "dead"
              ELSE IF Gone(m)' THEN "gone"
              ELSE IF Out(m)' THEN "out"
              ELSE IF Somewhere(m)' THEN "waiting"
              ELSE "lost"
BY DEF ContractPlace, Dead, Gone, Out

\* The contract sees no move of a message that stays where it is.
LEMMA StaysPut ==
    ASSUME NEW m, Stays(m), (m > sent') <=> (m > sent), Gone(m)' <=> Gone(m)
    PROVE  ContractPlace(m)' = ContractPlace(m)
BY PlaceCases, PlaceCasesNext DEF Stays

\* What the contract's Move means for the queue.
LEMMA MoveStep ==
    ASSUME NEW S \in SUBSET Messages, S # {}, NEW from, NEW to,
           \A m \in S : ContractPlace(m) \in from /\ ContractPlace(m)' = to,
           \A m \in Messages \ S : ContractPlace(m)' = ContractPlace(m)
    PROVE  Contract!Move(S, from, to)
BY DEF Contract!Move

\* A step the contract does not see.
LEMMA StutterStep ==
    ASSUME \A m \in Messages : ContractPlace(m)' = ContractPlace(m),
           receiveCount' = receiveCount
    PROVE  UNCHANGED Contract!contractVars
BY DEF Contract!contractVars

-----------------------------------------------------------------------------
(* Every step is one of the contract's                                     *)

\* The invariant the simulation needs: nothing is in two places, lost or
\* back, and what clients can delete has been counted.
ContractInv == KeptInv /\ HandleInv

\* It holds in every reachable state.
LEMMA ContractInvInductive ==
    /\ Init => ContractInv
    /\ ContractInv /\ [Next]_vars => ContractInv'
BY InitKeptInv, KeptPreserved, InitHandleInv, HandlePreserved
DEF ContractInv, KeptInv

\* What the invariant says about messages that are gone or in a call.
LEMMA GoneFacts ==
    ASSUME ContractInv
    PROVE  /\ PlaceInv /\ TypeOK
           /\ sent \in Nat
           /\ \A m \in Messages : m \in Nat
           /\ \A m \in Messages : Gone(m) => m <= sent
           /\ \A m \in Messages : Somewhere(m) => m <= sent
           /\ \A m \in Messages : Somewhere(m) /\ Gone(m) => m \in deleted
           /\ \A m \in Messages : m <= sent => Somewhere(m) \/ Gone(m)
<1>1. PlaceInv /\ TypeOK /\ sent \in Nat /\ deleted \subseteq Messages
  BY DEF ContractInv, KeptInv, PlaceInv, TypeOK
<1>2. \A m \in Messages : m \in Nat /\ m >= 1
  BY DEF Messages
<1>3. \A m \in Messages : Somewhere(m) => m <= sent
  BY <1>1, OnePlaceFacts
<1>4. \A m \in deleted : m <= sent
  BY <1>1 DEF ContractInv, HandleInv
<1>5. \A m \in Messages : Gone(m) => m <= sent
  BY <1>4 DEF ContractInv, KeptInv, DiscardedNowhere, Gone
<1>6. \A m \in Messages : Somewhere(m) /\ Gone(m) => m \in deleted
  BY DEF ContractInv, KeptInv, DiscardedNowhere, Gone
<1>7. ASSUME NEW m \in Messages, m <= sent
      PROVE  Somewhere(m) \/ Gone(m)
  <2>1. m \in 1..sent
    BY <1>1, <1>2, <1>7
  <2> QED BY <2>1 DEF ContractInv, KeptInv, NoLoss, Gone
<1> QED BY <1>1, <1>2, <1>3, <1>5, <1>6, <1>7

\* SendMessage is Send.
LEMMA PutIsSend ==
    ASSUME ContractInv, Put
    PROVE  Contract!Next
<1>1. PICK n : n = sent + 1
  OBVIOUS
<1>2. PlaceInv /\ sent \in Nat /\ \A m \in Messages : m \in Nat
  BY GoneFacts
<1>3. /\ sent' = n /\ n \in Messages
      /\ \A m \in Messages \ {n} : Stays(m)
      /\ Somewhere(n)' /\ ~Dead(n)' /\ ~Out(n)'
  BY <1>1, <1>2, PutMoves
<1>4. /\ UNCHANGED <<deleted, purged, expired, undeliverable>>
      /\ receiveCount' = receiveCount
  BY DEF Put, messageVars, history
<1>5. \A m : Gone(m)' <=> Gone(m)
  BY <1>4 DEF Gone
<1>6. \A m \in Messages \ {n} : (m > sent') <=> (m > sent)
  BY <1>1, <1>2, <1>3
<1>7. \A m \in Messages \ {n} : ContractPlace(m)' = ContractPlace(m)
  BY <1>3, <1>5, <1>6, StaysPut
<1>8. n > sent /\ ~(n > sent') /\ ~Gone(n)
  BY <1>1, <1>2, <1>3, GoneFacts
<1>9. ContractPlace(n) = "unsent" /\ ContractPlace(n)' = "waiting"
  BY <1>3, <1>5, <1>8, PlaceCases, PlaceCasesNext
<1>10. Contract!Move({n}, {"unsent"}, "waiting")
  BY <1>3, <1>7, <1>9, MoveStep
<1> QED BY <1>3, <1>4, <1>10 DEF Contract!Next, Contract!Send

\* Counting a popped message is Take.
LEMMA TakeIsTake ==
    ASSUME ContractInv, NEW c \in Consumers, ReceiveTake(c)
    PROVE  Contract!Next
<1>1. PICK n : n = popped[c]
  OBVIOUS
<1>2. PlaceInv /\ TypeOK /\ sent \in Nat /\ \A m \in Messages : m \in Nat
  BY GoneFacts
<1>3. /\ n \in Messages \ deleted
      /\ \A m \in Messages \ {n} : Stays(m)
      /\ Somewhere(n) /\ Somewhere(n)'
      /\ ~Dead(n) /\ ~Out(n)
      /\ ExceedsLimit(receiveCount[n] + 1) => Dead(n)'
      /\ ~ExceedsLimit(receiveCount[n] + 1) => ~Dead(n)' /\ Out(n)'
  BY <1>1, <1>2, TakeMoves
<1>4. /\ UNCHANGED <<sent, deleted, purged, expired, undeliverable>>
      /\ receiveCount' = [receiveCount EXCEPT ![n] = receiveCount[n] + 1]
  BY <1>1 DEF ReceiveTake, places, history
<1>5. \A m : Gone(m)' <=> Gone(m)
  BY <1>4 DEF Gone
<1>6. \A m \in Messages \ {n} : ContractPlace(m)' = ContractPlace(m)
  BY <1>3, <1>4, <1>5, StaysPut
<1>7. ~(n > sent) /\ ~(n > sent') /\ ~Gone(n)
  BY <1>2, <1>3, <1>4, GoneFacts
<1>8. ContractPlace(n) = "waiting"
  BY <1>3, <1>7, PlaceCases
<1>9. ContractPlace(n)' =
         IF ExceedsLimit(receiveCount[n] + 1) THEN "dead" ELSE "out"
  BY <1>3, <1>5, <1>7, PlaceCasesNext
<1>10. receiveCount'[n] = receiveCount[n] + 1
  BY <1>2, <1>3, <1>4 DEF TypeOK
<1>11. Contract!Move({n}, {"waiting"},
          IF MaxReceiveCount > 0 /\ receiveCount'[n] > MaxReceiveCount
          THEN "dead" ELSE "out")
  BY <1>3, <1>6, <1>8, <1>9, <1>10, MoveStep DEF ExceedsLimit
<1>12. Contract!Take(n)
  BY <1>4, <1>11 DEF Contract!Take
<1> QED BY <1>3, <1>12 DEF Contract!Next

\* Messages that go back to the heap are returned, unless they were deleted:
\* then they are gone, and stay so.
LEMMA ReturnIsReturn ==
    ASSUME ContractInv, NEW D \in SUBSET Messages,
           UNCHANGED <<sent, deleted, purged, expired, undeliverable>>,
           receiveCount' = receiveCount,
           \A m \in Messages \ D : Stays(m),
           \A m \in D : /\ Out(m) /\ ~Out(m)' /\ ~Dead(m) /\ ~Dead(m)'
                        /\ Somewhere(m) /\ Somewhere(m)'
    PROVE  Contract!Next \/ UNCHANGED Contract!contractVars
<1>1. sent \in Nat /\ \A m \in Messages : m \in Nat
  BY GoneFacts
<1>2. \A m : Gone(m)' <=> Gone(m)
  BY DEF Gone
<1>3. \A m \in D : ~(m > sent) /\ (Gone(m) <=> m \in deleted)
  BY <1>1, GoneFacts DEF Gone
<1>4. \A m \in Messages \ D : ContractPlace(m)' = ContractPlace(m)
  BY <1>2, StaysPut
<1>5. \A m \in D \cap deleted : ContractPlace(m)' = ContractPlace(m)
  BY <1>2, <1>3, PlaceCases, PlaceCasesNext
<1>6. \A m \in D \ deleted :
         ContractPlace(m) = "out" /\ ContractPlace(m)' = "waiting"
  BY <1>2, <1>3, PlaceCases, PlaceCasesNext
<1>7. CASE D \ deleted = {}
  BY <1>4, <1>5, <1>7, StutterStep
<1>8. CASE D \ deleted # {}
  <2>1. D \ deleted \in SUBSET Messages
    OBVIOUS
  <2>2. Contract!Move(D \ deleted, {"out"}, "waiting")
    BY <1>4, <1>5, <1>6, <1>8, <2>1, MoveStep
  <2>3. Contract!Return(D \ deleted)
    BY <2>2 DEF Contract!Return
  <2> QED BY <2>1, <2>3 DEF Contract!Next
<1> QED BY <1>7, <1>8

\* What a purge or the retention loop takes away is discarded, unless it was
\* deleted before.
LEMMA DiscardIsDiscard ==
    ASSUME ContractInv, NEW D \in SUBSET Messages,
           UNCHANGED <<sent, deleted>>,
           receiveCount' = receiveCount,
           \A m \in Messages : Gone(m)' <=> Gone(m) \/ m \in D,
           \A m \in Messages \ D : Stays(m),
           \A m \in D : Somewhere(m) /\ ~Dead(m) /\ ~Dead(m)'
    PROVE  Contract!Next \/ UNCHANGED Contract!contractVars
<1>1. sent \in Nat /\ \A m \in Messages : m \in Nat
  BY GoneFacts
<1>2. \A m \in D : ~(m > sent) /\ (Gone(m) <=> m \in deleted)
  BY <1>1, GoneFacts DEF Gone
<1>3. \A m \in Messages \ D : ContractPlace(m)' = ContractPlace(m)
  BY StaysPut
<1>4. \A m \in D \cap deleted : ContractPlace(m)' = ContractPlace(m)
  BY <1>2, PlaceCases, PlaceCasesNext
<1>5. \A m \in D \ deleted :
         ContractPlace(m) \in {"waiting", "out"} /\ ContractPlace(m)' = "gone"
  BY <1>2, PlaceCases, PlaceCasesNext
<1>6. CASE D \ deleted = {}
  BY <1>3, <1>4, <1>6, StutterStep
<1>7. CASE D \ deleted # {}
  <2>1. D \ deleted \in SUBSET Messages
    OBVIOUS
  <2>2. Contract!Move(D \ deleted, {"waiting", "out"}, "gone")
    BY <1>3, <1>4, <1>5, <1>7, <2>1, MoveStep
  <2>3. Contract!Discard(D \ deleted)
    BY <2>2 DEF Contract!Discard
  <2> QED BY <2>1, <2>3 DEF Contract!Next
<1> QED BY <1>6, <1>7

\* DeleteMessage is Delete, of a message that was received before; a dead
\* letter or a message that is gone already does not notice.
LEMMA RemoveIsDelete ==
    ASSUME ContractInv, NEW h \in issued, Remove(h) \/ RemoveKeyError(h)
    PROVE  Contract!Next \/ UNCHANGED Contract!contractVars
<1>1. PICK n : n = h[1]
  OBVIOUS
<1>2. PlaceInv /\ sent \in Nat /\ \A m \in Messages : m \in Nat
  BY GoneFacts
<1>3. /\ n \in Messages /\ deleted' = deleted \cup {n}
      /\ \A m \in Messages \ {n} : Stays(m)
      /\ Dead(n)' <=> Dead(n)
  BY <1>1, <1>2, RemoveMoves
<1>4. /\ UNCHANGED <<sent, purged, expired, undeliverable>>
      /\ receiveCount' = receiveCount
  BY DEF Remove, RemoveKeyError, places, history
<1>5. receiveCount[n] > 0 /\ n <= sent
  BY <1>1, <1>3 DEF ContractInv, HandleInv, GoodHandles
<1>6. \A m \in Messages : Gone(m)' <=> Gone(m) \/ m = n
  BY <1>3, <1>4 DEF Gone
<1>7. \A m \in Messages \ {n} : ContractPlace(m)' = ContractPlace(m)
  BY <1>3, <1>4, <1>6, StaysPut
<1>8. ~(n > sent) /\ ~(n > sent') /\ (Somewhere(n) \/ Gone(n)) /\ Gone(n)'
  BY <1>2, <1>3, <1>4, <1>5, <1>6, GoneFacts
<1>9. CASE Dead(n) \/ Gone(n)
  <2>1. ContractPlace(n)' = ContractPlace(n)
    BY <1>3, <1>8, <1>9, PlaceCases, PlaceCasesNext
  <2>2. \A m \in Messages : ContractPlace(m)' = ContractPlace(m)
    BY <1>7, <2>1
  <2> QED BY <1>4, <2>2, StutterStep
<1>10. CASE ~Dead(n) /\ ~Gone(n)
  <2>1. ContractPlace(n) \in {"waiting", "out"} /\ ContractPlace(n)' = "gone"
    BY <1>3, <1>8, <1>10, PlaceCases, PlaceCasesNext
  <2>2. Contract!Move({n}, {"waiting", "out"}, "gone")
    BY <1>3, <1>7, <2>1, MoveStep
  <2>3. Contract!Delete(n)
    BY <1>4, <1>5, <2>2 DEF Contract!Delete
  <2> QED BY <1>3, <2>3 DEF Contract!Next
<1> QED BY <1>9, <1>10

\* Dead letters without a target are dropped.
LEMMA MissingIsDrop ==
    ASSUME ContractInv, NEW c \in Consumers, DeadLetterMissing(c)
    PROVE  Contract!Next \/ UNCHANGED Contract!contractVars
<1>1. PICK D : D = Range(deadLetters[c])
  OBVIOUS
<1>2. PlaceInv /\ TypeOK /\ sent \in Nat /\ \A m \in Messages : m \in Nat
  BY GoneFacts
<1>3. /\ D \in SUBSET Messages
      /\ undeliverable' = undeliverable \cup D
      /\ \A m \in Messages \ D : Stays(m)
      /\ \A m \in D : Dead(m) /\ ~Dead(m)'
  BY <1>1, <1>2, MissingMoves
<1>4. /\ UNCHANGED <<sent, deleted, purged, expired>>
      /\ receiveCount' = receiveCount
  BY DEF DeadLetterMissing, queueVars, places, messageVars
<1>5. \A m \in D : ~(m > sent) /\ ~(m > sent')
  BY <1>2, <1>3, <1>4, OnePlaceFacts
<1>6. \A m \in Messages : Gone(m)' <=> Gone(m) \/ m \in D
  BY <1>3, <1>4 DEF Gone
<1>7. \A m \in Messages \ D : ContractPlace(m)' = ContractPlace(m)
  BY <1>3, <1>4, <1>6, StaysPut
<1>8. \A m \in D : ContractPlace(m) = "dead" /\ ContractPlace(m)' = "gone"
  BY <1>3, <1>5, <1>6, PlaceCases, PlaceCasesNext
<1>9. CASE D = {}
  BY <1>4, <1>7, <1>9, StutterStep
<1>10. CASE D # {}
  <2>1. Contract!Move(D, {"dead"}, "gone")
    BY <1>3, <1>7, <1>8, <1>10, MoveStep
  <2>2. Contract!DropDeadLetters(D)
    BY <1>4, <2>1 DEF Contract!DropDeadLetters
  <2> QED BY <1>3, <2>2 DEF Contract!Next
<1> QED BY <1>9, <1>10

\* Each step of the queue is one of the contract's, or changes nothing that
\* the contract sees.
LEMMA StepSimulated ==
    ContractInv /\ [Next]_vars => Contract!Next \/ UNCHANGED Contract!contractVars
<1> SUFFICES ASSUME ContractInv, [Next]_vars
             PROVE  Contract!Next \/ UNCHANGED Contract!contractVars
  OBVIOUS
<1>1. PlaceInv /\ TypeOK
  BY GoneFacts
<1>2. ASSUME \A m \in Messages : Stays(m),
             UNCHANGED <<sent, deleted, purged, expired, undeliverable>>,
             receiveCount' = receiveCount
      PROVE  UNCHANGED Contract!contractVars
  <2>1. \A m \in Messages : Gone(m)' <=> Gone(m)
    BY <1>2 DEF Gone
  <2>2. \A m \in Messages : ContractPlace(m)' = ContractPlace(m)
    BY <1>2, <2>1, StaysPut
  <2> QED BY <1>2, <2>2, StutterStep
<1>3. CASE StillStep
  BY <1>1, <1>2, <1>3, StillStays
<1>4. CASE Put
  BY <1>4, PutIsSend
<1>5. ASSUME NEW c \in Consumers, NEW m \in Messages, ReceiveGet(c, m)
      PROVE  UNCHANGED Contract!contractVars
  BY <1>1, <1>2, <1>5, GetMoves DEF ReceiveGet, messageVars, history
<1>6. ASSUME NEW c \in Consumers, ReceiveSkipDeleted(c)
      PROVE  UNCHANGED Contract!contractVars
  <2>1. PICK n : n = popped[c]
    OBVIOUS
  <2>2. /\ \A m \in Messages \ {n} : Stays(m)
        /\ n \in deleted /\ ~Dead(n) /\ ~Dead(n)'
    BY <1>1, <1>6, <2>1, SkipMoves
  <2>3. /\ UNCHANGED <<sent, deleted, purged, expired, undeliverable>>
        /\ receiveCount' = receiveCount
    BY <1>6 DEF ReceiveSkipDeleted, queueVars, places, messageVars, history
  <2>4. Gone(n) /\ \A m : Gone(m)' <=> Gone(m)
    BY <2>2, <2>3 DEF Gone
  <2>5. ContractPlace(n)' = ContractPlace(n)
    BY <2>2, <2>3, <2>4, PlaceCases, PlaceCasesNext
  <2>6. \A m \in Messages \ {n} : ContractPlace(m)' = ContractPlace(m)
    BY <2>2, <2>3, <2>4, StaysPut
  <2> QED BY <2>3, <2>5, <2>6, StutterStep
<1>7. ASSUME NEW c \in Consumers, ReceiveTake(c)
      PROVE  Contract!Next
  BY <1>7, TakeIsTake
<1>8. ASSUME NEW c \in Consumers, ReceiveHide(c)
      PROVE  Contract!Next \/ UNCHANGED Contract!contractVars
  <2>1. PICK n : n = Head(successful[c])
    OBVIOUS
  <2>2. /\ n \in Messages /\ Out(n) /\ ~Dead(n)
        /\ \A m \in Messages \ {n} : Stays(m)
        /\ Somewhere(n) /\ Somewhere(n)' /\ ~Dead(n)'
        /\ Out(n)' <=> ~zeroTimeout[c]
    BY <1>1, <1>8, <2>1, HideMoves
  <2>3. /\ UNCHANGED <<sent, deleted, purged, expired, undeliverable>>
        /\ receiveCount' = receiveCount
    BY <1>8 DEF ReceiveHide, messageVars, history
  <2>4. CASE zeroTimeout[c]
    <3>1. /\ {n} \in SUBSET Messages
          /\ \A m \in {n} : /\ Out(m) /\ ~Out(m)' /\ ~Dead(m) /\ ~Dead(m)'
                            /\ Somewhere(m) /\ Somewhere(m)'
      BY <2>2, <2>4
    <3> QED BY <2>2, <2>3, <3>1, ReturnIsReturn
  <2>5. CASE ~zeroTimeout[c]
    <3>1. Stays(n)
      BY <2>2, <2>5 DEF Stays
    <3> QED BY <1>2, <2>2, <2>3, <3>1
  <2> QED BY <2>4, <2>5
<1>9. ASSUME NEW c \in Consumers, DeadLetterMissing(c)
      PROVE  Contract!Next \/ UNCHANGED Contract!contractVars
  BY <1>9, MissingIsDrop
<1>10. ASSUME NEW c \in Consumers, DeadLetterPut(c)
       PROVE  UNCHANGED Contract!contractVars
  BY <1>1, <1>2, <1>10, HandOverMoves
  DEF DeadLetterPut, places, messageVars, history
<1>11. ASSUME NEW h \in issued, Remove(h) \/ RemoveKeyError(h)
       PROVE  Contract!Next \/ UNCHANGED Contract!contractVars
  BY <1>11, RemoveIsDelete
<1>12. ASSUME NEW h \in issued, NEW zero \in BOOLEAN,
              UpdateVisibilityTimeout(h, zero)
       PROVE  Contract!Next \/ UNCHANGED Contract!contractVars
  <2>1. PICK n : n = h[1]
    OBVIOUS
  <2>2. /\ n \in inflight /\ n \in Messages
        /\ \A m \in Messages \ {n} : Stays(m)
        /\ ~zero => Stays(n)
        /\ ~Dead(n) /\ ~Dead(n)' /\ Somewhere(n)'
        /\ zero => ~Out(n)'
    BY <1>1, <1>12, <2>1, VisibilityMoves
  <2>3. Out(n) /\ Somewhere(n)
    BY <2>2 DEF Out, Somewhere
  <2>4. /\ UNCHANGED <<sent, deleted, purged, expired, undeliverable>>
        /\ receiveCount' = receiveCount
    BY <1>12 DEF UpdateVisibilityTimeout, messageVars, history
  <2>5. CASE zero
    <3>1. /\ {n} \in SUBSET Messages
          /\ \A m \in {n} : /\ Out(m) /\ ~Out(m)' /\ ~Dead(m) /\ ~Dead(m)'
                            /\ Somewhere(m) /\ Somewhere(m)'
      BY <2>2, <2>3, <2>5
    <3> QED BY <2>2, <2>4, <3>1, ReturnIsReturn
  <2>6. CASE ~zero
    BY <1>2, <2>2, <2>4, <2>6
  <2> QED BY <2>5, <2>6
<1>13. CASE Clear
  <2>1. PICK Q : Q = inflight \cup delayed \cup {m \in Messages : visible[m] > 0}
    OBVIOUS
  <2>2. /\ Q \in SUBSET Messages /\ purged' = purged \cup Q
        /\ \A m \in Messages \ Q : Stays(m)
        /\ \A m \in Q : Somewhere(m) /\ ~Dead(m) /\ ~Dead(m)'
    BY <1>1, <1>13, <2>1, ClearMoves
  <2>3. /\ UNCHANGED <<sent, deleted, expired, undeliverable>>
        /\ receiveCount' = receiveCount
    BY <1>13 DEF Clear, messageVars
  <2>4. \A m \in Messages : Gone(m)' <=> Gone(m) \/ m \in Q
    BY <2>2, <2>3 DEF Gone
  <2> QED BY <2>2, <2>3, <2>4, DiscardIsDiscard
<1>14. CASE RequeueInflight
  <2>1. PICK D : D = DueInflight
    OBVIOUS
  <2>2. /\ D \in SUBSET Messages
        /\ \A m \in Messages \ D : Stays(m)
        /\ \A m \in D : /\ Out(m) /\ ~Out(m)' /\ ~Dead(m) /\ ~Dead(m)'
                        /\ Somewhere(m) /\ Somewhere(m)'
    BY <1>1, <1>14, <2>1, RequeueMoves, OnePlaceFacts
  <2>3. /\ UNCHANGED <<sent, deleted, purged, expired, undeliverable>>
        /\ receiveCount' = receiveCount
    BY <1>14 DEF RequeueInflight, messageVars, history
  <2> QED BY <2>2, <2>3, ReturnIsReturn
<1>15. CASE EnqueueDelayed
  BY <1>1, <1>2, <1>15, EnqueueMoves DEF EnqueueDelayed, messageVars, history
<1>16. CASE ExpirePop
  <2>1. /\ UNCHANGED <<sent, deleted, purged, undeliverable>>
        /\ receiveCount' = receiveCount
    BY <1>16 DEF ExpirePop, messageVars
  <2>2. CASE expired' = expired /\ \A m \in Messages : Stays(m)
    BY <1>2, <2>1, <2>2
  <2>3. ASSUME NEW n \in Messages, expired' = expired \cup {n},
               \A m \in Messages \ {n} : Stays(m),
               Somewhere(n), ~Dead(n), ~Dead(n)'
        PROVE  Contract!Next \/ UNCHANGED Contract!contractVars
    <3>1. \A m \in Messages : Gone(m)' <=> Gone(m) \/ m \in {n}
      BY <2>1, <2>3 DEF Gone
    <3>2. /\ {n} \in SUBSET Messages
          /\ \A m \in {n} : Somewhere(m) /\ ~Dead(m) /\ ~Dead(m)'
      BY <2>3
    <3> QED BY <2>1, <2>3, <3>1, <3>2, DiscardIsDiscard
  <2> QED BY <1>1, <1>16, <2>2, <2>3, ExpireMoves
<1> QED
  BY <1>3, <1>4, <1>5, <1>6, <1>7, <1>8, <1>9, <1>10, <1>11, <1>12, <1>13,
     <1>14, <1>15, <1>16, StepCases

\* Initially nothing has been sent, to the queue and to the contract.
LEMMA InitSimulated == Init => Contract!Init
<1> SUFFICES ASSUME Init PROVE Contract!Init
  OBVIOUS
<1>1. \A m \in Messages : m > sent
  BY DEF Init, Messages
<1>2. \A m \in Messages : ContractPlace(m) = "unsent"
  BY <1>1, PlaceCases
<1>3. receiveCount = [m \in Messages |-> 0]
  BY DEF Init
<1> QED BY <1>2, <1>3 DEF Contract!Init

\* The standard queue implements its contract: whatever threads work on it,
\* a message waits until a receive takes it, is out until its timeout or its
\* deletion, is taken no more often than allowed, and never comes back once
\* it is gone.
THEOREM QueueKeepsContract == Spec => KeepsContract
<1>1. ContractInv /\ [Next]_vars => [Contract!Next]_Contract!contractVars
  BY StepSimulated
<1> QED
  BY <1>1, InitSimulated, ContractInvInductive, PTL
  DEF Spec, KeepsContract, Contract!Spec
==============================================================================

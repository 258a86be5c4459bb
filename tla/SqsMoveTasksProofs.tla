------------------------- MODULE SqsMoveTasksProofs --------------------------
(***************************************************************************)
(* Proofs about message move tasks, for any number of messages, tasks,     *)
(* targets and receives, and any receive limit of the source.              *)
(***************************************************************************)
EXTENDS SqsMoveTasks, TLAPS

-----------------------------------------------------------------------------
(* The inductive invariants                                                *)

\* Behind OneMover: the thread of a task is at work only as long as the status
\* keeps other tasks from being started.
MoverInv ==
    /\ status \in [Tasks -> Statuses]
    /\ pc \in [Tasks -> Moving \cup {"none", "dropped", "ended"}]
    /\ \A t \in Tasks : pc[t] \in Moving => status[t] \in Active
    /\ OneMover

\* Behind MovedOrKept: what a thread holds was sent, and was put to its target
\* before the thread removes it.
KeptInv ==
    /\ place \in [Messages -> Source!Places]
    /\ copies \in [Messages -> Nat]
    /\ hand \in [Tasks -> Messages \cup {NoMessage}]
    /\ others \subseteq Messages /\ dropped \subseteq Messages
    /\ \A t \in Tasks : pc[t] \in Holding => hand[t] \in Messages /\ place[hand[t]] # "unsent"
    /\ \A t \in Tasks : pc[t] = "remove" => copies[hand[t]] > 0
    /\ MovedOrKept

\* A purge has taken the handle with which the task would remove its message.
Lost(t) ==
    /\ pc[t] \in {"inflight", "target", "put", "remove"} /\ t \notin known
    /\ place[hand[t]] \notin {"gone", "dead"}

\* Behind MovedOnce: a message that is in the source was put to a target as often
\* as purges have spared it, and once more only while the task that has put it is
\* going to remove it; the purge that took the task's handle is still to be used up.
CopiesInv ==
    /\ spared \in [Messages -> Nat]
    /\ \A m \in Messages : copies[m] <= 1 + spared[m]
    /\ \A m \in Messages :
          \/ copies[m] <= spared[m]
          \/ place[m] \in {"gone", "dead"}
          \/ \E t \in Tasks : pc[t] = "remove" /\ hand[t] = m /\ t \in known
    /\ \A t \in Tasks : pc[t] \in Holding \ {"remove"} => copies[hand[t]] <= spared[hand[t]]
    /\ \A t \in Tasks : Lost(t) /\ pc[t] # "remove" => copies[hand[t]] + 1 <= spared[hand[t]]
    /\ \A t \in Tasks : Lost(t) => copies[hand[t]] <= spared[hand[t]]

-----------------------------------------------------------------------------
(* One task at a time                                                      *)

\* There is no task at first.
LEMMA InitMoverInv == Init => MoverInv
BY DEF Init, MoverInv, OneMover, Statuses, Moving

\* Every step of a client, a request or a task keeps one task at work.
LEMMA StepMoverInv == MoverInv /\ [Next]_vars => MoverInv'
<1> SUFFICES ASSUME MoverInv, [Next]_vars PROVE MoverInv'
  OBVIOUS
<1> USE DEF MoverInv, OneMover
<1>1. ASSUME UNCHANGED taskVars PROVE MoverInv'
  BY <1>1 DEF taskVars
<1>2. ASSUME NEW t \in Tasks, StartMessageMoveTask(t) PROVE MoverInv'
  BY <1>2 DEF StartMessageMoveTask, Statuses, Active, Moving
<1>3. ASSUME NEW t \in Tasks, CancelMessageMoveTask(t) PROVE MoverInv'
  BY <1>3 DEF CancelMessageMoveTask, Statuses, Active
<1>4. ASSUME Close PROVE MoverInv'
  BY <1>4 DEF Close, Moving
<1>5. ASSUME NEW t \in Tasks, Submit(t) PROVE MoverInv'
  BY <1>5 DEF Submit, Statuses, Active, Moving
<1>6. ASSUME NEW t \in Tasks, CheckCancelled(t) PROVE MoverInv'
  BY <1>6 DEF CheckCancelled, Goto, Moving
<1>7. ASSUME NEW t \in Tasks, LookUpSource(t) PROVE MoverInv'
  BY <1>7 DEF LookUpSource, FailTask, Goto, Statuses, Moving
<1>8. ASSUME NEW t \in Tasks, NEW m \in Messages, ReceiveMessage(t, m) PROVE MoverInv'
  BY <1>8 DEF ReceiveMessage, FailTask, Goto, Statuses, Moving
<1>9. ASSUME NEW t \in Tasks, RegisterHandle(t) \/ AddInflight(t) \/ ReceiveEmpty(t)
      PROVE  MoverInv'
  BY <1>9 DEF RegisterHandle, AddInflight, ReceiveEmpty, AfterLast, FailTask, Goto, Statuses,
              Moving, locals
<1>10. ASSUME NEW t \in Tasks, FindTarget(t) PROVE MoverInv'
  BY <1>10 DEF FindTarget, FailTask, Goto, Statuses, Moving
<1>11. ASSUME NEW t \in Tasks, Put(t) PROVE MoverInv'
  BY <1>11 DEF Put, FailTask, Goto, Statuses, Moving
<1>12. ASSUME NEW t \in Tasks, Remove(t) PROVE MoverInv'
  BY <1>12 DEF Remove, Goto, Moving
<1>13. ASSUME NEW t \in Tasks, RemoveRaises(t) PROVE MoverInv'
  BY <1>13 DEF RemoveRaises, FailTask, Goto, Statuses, Moving
<1>14. ASSUME NEW t \in Tasks, Conclude(t) PROVE MoverInv'
  BY <1>14 DEF Conclude, Goto, Moving
<1>15. ASSUME NEW t \in Tasks, SetStatus(t) PROVE MoverInv'
  BY <1>15 DEF SetStatus, Goto, Statuses, Moving
<1> QED
  BY <1>1, <1>2, <1>3, <1>4, <1>5, <1>6, <1>7, <1>8, <1>9, <1>10, <1>11, <1>12, <1>13,
     <1>14, <1>15
  DEF Next, TaskStep, vars, Arrive, ClientReceives, ClientRegisters, ClientReceived,
      ClientDeletes, TimesOut, PurgeQueue, DeleteQueue

\* One task at a time works on a source (start_message_move_task, submit,
\* cancel and _run), for any number of tasks that are started and cancelled.
THEOREM OneMoverAlways == Spec => []OneMover
<1>1. MoverInv => OneMover
  BY DEF MoverInv
<1> QED BY <1>1, InitMoverInv, StepMoverInv, PTL DEF Spec

-----------------------------------------------------------------------------
(* Nothing is lost                                                         *)

\* Nothing was moved at first.
LEMMA InitKeptInv == Init => KeptInv
BY DEF Init, Source!Init, Source!Places, KeptInv, MovedOrKept, Holding

\* Every step of a client, a request or a task keeps the messages together.
LEMMA StepKeptInv == MoverInv /\ KeptInv /\ [Next]_vars => KeptInv'
<1> SUFFICES ASSUME MoverInv, KeptInv, [Next]_vars PROVE KeptInv'
  OBVIOUS
<1> USE ConstantsAssumption DEF MoverInv, OneMover, KeptInv, MovedOrKept, Holding
<1>1. ASSUME NEW m \in Messages, Arrive(m) PROVE KeptInv'
  BY <1>1 DEF Arrive, taskVars, locals, world, Source!Send, Source!Move, Source!Places
<1>2. ASSUME NEW m \in Messages, ClientReceives(m) PROVE KeptInv'
  BY <1>2 DEF ClientReceives, taskVars, locals, Source!Take, Source!Move, Source!Places
<1>3. ASSUME NEW m \in Messages, ClientDeletes(m) PROVE KeptInv'
  BY <1>3 DEF ClientDeletes, taskVars, locals, Source!Delete, Source!Move, Source!Places
<1>4. ASSUME NEW m \in Messages, TimesOut(m) PROVE KeptInv'
  BY <1>4 DEF TimesOut, taskVars, locals, world, Source!Return, Source!Move, Source!Places
<1>5. ASSUME PurgeQueue PROVE KeptInv'
  BY <1>5 DEF PurgeQueue, Present, taskVars, locals, Source!Discard, Source!Move, Source!Places
<1>6. ASSUME NEW q, DeleteQueue(q) PROVE KeptInv'
  BY <1>6 DEF DeleteQueue, Present, taskVars, locals, Source!Discard, Source!Move, Source!Places
<1>7. ASSUME NEW t \in Tasks, StartMessageMoveTask(t) PROVE KeptInv'
  BY <1>7 DEF StartMessageMoveTask, locals, world, Active, Moving
<1>8. ASSUME NEW t \in Tasks, CancelMessageMoveTask(t) PROVE KeptInv'
  BY <1>8 DEF CancelMessageMoveTask, locals, world
<1>9. ASSUME Close PROVE KeptInv'
  BY <1>9 DEF Close, locals, world
<1>10. ASSUME NEW t \in Tasks, Submit(t) PROVE KeptInv'
  BY <1>10 DEF Submit, locals, world
<1>11. ASSUME NEW t \in Tasks, CheckCancelled(t) \/ Conclude(t) \/ SetStatus(t) PROVE KeptInv'
  BY <1>11 DEF CheckCancelled, Conclude, SetStatus, Goto, locals, world
<1>12. ASSUME NEW t \in Tasks, LookUpSource(t) PROVE KeptInv'
  BY <1>12 DEF LookUpSource, FailTask, Goto, world
<1>13. ASSUME NEW t \in Tasks, NEW m \in Messages, ReceiveMessage(t, m) PROVE KeptInv'
  BY <1>13 DEF ReceiveMessage, Receives, Goto, world, Moving,
               Source!Take, Source!Move, Source!Places
<1>14. ASSUME NEW t \in Tasks, RegisterHandle(t) \/ AddInflight(t) PROVE KeptInv'
  BY <1>14 DEF RegisterHandle, AddInflight, FailTask, Goto, locals, world
<1>15. ASSUME NEW t \in Tasks, ReceiveEmpty(t) \/ FindTarget(t) PROVE KeptInv'
  BY <1>15 DEF ReceiveEmpty, FindTarget, AfterLast, FailTask, Goto, locals, world
<1>16. ASSUME NEW t \in Tasks, Put(t) PROVE KeptInv'
  BY <1>16 DEF Put, FailTask, Goto, locals, Moving
<1>17. ASSUME NEW t \in Tasks, Remove(t) \/ RemoveRaises(t) PROVE KeptInv'
  BY <1>17 DEF Remove, Removes, RemoveRaises, Deleted, FailTask, Goto, Moving,
               Source!Delete, Source!Move, Source!Places
<1>18. ASSUME NEW m \in Messages, ClientRegisters(m) \/ ClientReceived(m) PROVE KeptInv'
  BY <1>18 DEF ClientRegisters, ClientReceived, taskVars, locals
<1>19. ASSUME UNCHANGED vars PROVE KeptInv'
  BY <1>19 DEF vars, taskVars, locals, world
<1> QED
  BY <1>1, <1>2, <1>3, <1>4, <1>5, <1>6, <1>7, <1>8, <1>9, <1>10, <1>11, <1>12, <1>13,
     <1>14, <1>15, <1>16, <1>17, <1>18, <1>19
  DEF Next, TaskStep

\* A move task never loses a message (_run puts before it removes), whatever
\* fails, is cancelled, deleted, purged or received by others meanwhile.
THEOREM MovedOrKeptAlways == Spec => []MovedOrKept
<1>1. KeptInv => MovedOrKept
  BY DEF KeptInv
<1> QED BY <1>1, InitMoverInv, StepMoverInv, InitKeptInv, StepKeptInv, PTL DEF Spec

-----------------------------------------------------------------------------
(* Nothing is doubled, unless by a purge                                   *)

\* Nothing was put to a target at first.
LEMMA InitCopiesInv == Init => CopiesInv
BY DEF Init, CopiesInv, Holding, Lost

\* What remove does to the handles takes that of a task only with its message.
LEMMA HandlesRemoved ==
    ASSUME NEW m \in Messages, RemoveHandles(m) \/ RemoveHandlesRaises(m)
    PROVE  \A t \in Tasks : hand[t] # m => (t \in known' <=> t \in known)
BY DEF RemoveHandles, RemoveHandlesRaises, HolderOf

\* Every step keeps count of the copies.
LEMMA StepCopiesInv == MoverInv /\ KeptInv /\ CopiesInv /\ [Next]_vars => CopiesInv'
<1> SUFFICES ASSUME MoverInv, KeptInv, CopiesInv, [Next]_vars PROVE CopiesInv'
  OBVIOUS
<1> USE ConstantsAssumption DEF MoverInv, OneMover, KeptInv, CopiesInv, Holding, Lost
<1>1. ASSUME NEW m \in Messages, Arrive(m) PROVE CopiesInv'
  BY <1>1 DEF Arrive, taskVars, locals, world, Source!Send, Source!Move, Source!Places
<1>2. ASSUME NEW m \in Messages, ClientReceives(m) PROVE CopiesInv'
  BY <1>2 DEF ClientReceives, taskVars, locals, Source!Take, Source!Move, Source!Places
<1>3. ASSUME NEW m \in Messages, ClientDeletes(m) PROVE CopiesInv'
  <2>1. \A t \in Tasks : hand[t] # m => (t \in known' <=> t \in known)
    BY <1>3, HandlesRemoved DEF ClientDeletes
  <2>2. place' = [n \in Messages |-> IF n = m THEN "gone" ELSE place[n]]
    BY <1>3 DEF ClientDeletes, Source!Delete, Source!Move
  <2>3. UNCHANGED <<pc, hand, copies, spared>>
    BY <1>3 DEF ClientDeletes, taskVars, locals
  <2>4. known' \subseteq known
    BY <1>3 DEF ClientDeletes, RemoveHandles, RemoveHandlesRaises
  <2> QED BY <2>1, <2>2, <2>3, <2>4
<1>4. ASSUME NEW m \in Messages, TimesOut(m) PROVE CopiesInv'
  BY <1>4 DEF TimesOut, taskVars, locals, world, Source!Return, Source!Move, Source!Places
<1>5. ASSUME PurgeQueue PROVE CopiesInv'
  <2> DEFINE stays     == {m \in Present : InReceive(m)}
             forgotten == {m \in stays : m \in held \/ HolderOf(m) \cap known # {}}
  <2>1. UNCHANGED <<pc, hand, copies>> /\ known' = {}
    BY <1>5 DEF PurgeQueue, taskVars, locals
  <2>2. spared' = [m \in Messages |-> IF m \in forgotten THEN spared[m] + 1 ELSE spared[m]]
    BY <1>5 DEF PurgeQueue
  <2>3. \A m \in Messages : m \notin stays => place'[m] \in {"unsent", "gone", "dead"}
    BY <1>5 DEF PurgeQueue, Present, Source!Discard, Source!Move, Source!Places
  <2>4. \A m \in Messages : m \in stays => place'[m] = place[m] /\ place[m] \in {"waiting", "out"}
    BY <1>5 DEF PurgeQueue, Present, Source!Discard, Source!Move
  <2>5. \A m \in Messages : place[m] \in {"unsent", "gone", "dead"} => place'[m] = place[m]
    BY <1>5 DEF PurgeQueue, Present, Source!Discard, Source!Move
  <2>6. \A m \in Messages : place[m] = "unsent" <=> place'[m] = "unsent"
    BY <2>3, <2>4, <2>5, <1>5 DEF PurgeQueue, Present, Source!Discard, Source!Move
  <2>7. \A t \in Tasks : t \in known /\ hand[t] \in stays => hand[t] \in forgotten
    BY DEF HolderOf
  <2>8. \A m \in Messages : spared'[m] \in Nat /\ spared[m] <= spared'[m]
                            /\ (m \in forgotten => spared'[m] = spared[m] + 1)
    BY <2>2
  <2> HIDE DEF stays, forgotten
  <2>9. spared' \in [Messages -> Nat]
    BY <2>2
  <2>10. \A m \in Messages : copies'[m] <= 1 + spared'[m]
    BY <2>1, <2>8
  <2>11. ASSUME NEW t \in Tasks, Lost(t)'
         PROVE  /\ copies'[hand'[t]] <= spared'[hand'[t]]
                /\ pc[t] # "remove" => copies'[hand'[t]] + 1 <= spared'[hand'[t]]
    <3>1. hand[t] \in Messages /\ place'[hand[t]] \notin {"gone", "dead"}
      BY <2>1, <2>11
    <3>2. hand[t] \in stays
      BY <2>1, <2>3, <2>6, <2>11, <3>1
    <3> QED BY <2>1, <2>4, <2>7, <2>8, <2>11, <3>1, <3>2
  <2> QED BY <2>1, <2>3, <2>4, <2>5, <2>6, <2>7, <2>8, <2>9, <2>10, <2>11
<1>6. ASSUME NEW q, DeleteQueue(q) PROVE CopiesInv'
  BY <1>6 DEF DeleteQueue, Present, taskVars, locals, Source!Discard, Source!Move, Source!Places
<1>7. ASSUME NEW t \in Tasks, StartMessageMoveTask(t) PROVE CopiesInv'
  BY <1>7 DEF StartMessageMoveTask, locals, world, Active, Moving
<1>8. ASSUME NEW t \in Tasks, CancelMessageMoveTask(t) PROVE CopiesInv'
  BY <1>8 DEF CancelMessageMoveTask, locals, world
<1>9. ASSUME Close PROVE CopiesInv'
  BY <1>9 DEF Close, locals, world
<1>10. ASSUME NEW t \in Tasks, Submit(t) PROVE CopiesInv'
  BY <1>10 DEF Submit, locals, world
<1>11. ASSUME NEW t \in Tasks, CheckCancelled(t) \/ Conclude(t) \/ SetStatus(t) PROVE CopiesInv'
  BY <1>11 DEF CheckCancelled, Conclude, SetStatus, Goto, locals, world
<1>12. ASSUME NEW t \in Tasks, LookUpSource(t) PROVE CopiesInv'
  BY <1>12 DEF LookUpSource, FailTask, Goto, world
<1>13. ASSUME NEW t \in Tasks, NEW m \in Messages, ReceiveMessage(t, m) PROVE CopiesInv'
  BY <1>13 DEF ReceiveMessage, Receives, Goto, world, Moving,
               Source!Take, Source!Move, Source!Places
<1>14. ASSUME NEW t \in Tasks, RegisterHandle(t) \/ AddInflight(t) PROVE CopiesInv'
  BY <1>14 DEF RegisterHandle, AddInflight, FailTask, Goto, locals, world
<1>15. ASSUME NEW t \in Tasks, ReceiveEmpty(t) \/ FindTarget(t) PROVE CopiesInv'
  BY <1>15 DEF ReceiveEmpty, FindTarget, AfterLast, FailTask, Goto, locals, world
<1>16. ASSUME NEW t \in Tasks, Put(t) PROVE CopiesInv'
  BY <1>16 DEF Put, FailTask, Goto, locals, Moving
<1>17. ASSUME NEW t \in Tasks, Remove(t) PROVE CopiesInv'
  <2>1. hand[t] \in Messages /\ UNCHANGED <<copies, spared>>
        /\ hand' = [hand EXCEPT ![t] = NoMessage] /\ pc' = [pc EXCEPT ![t] = "loop"]
    BY <1>17 DEF Remove, Goto
  <2>2. \A u \in Tasks : u # t => pc[u] \notin Holding
    BY <1>17 DEF Remove, Moving
  <2>3. CASE t \in known
    <3>1. \A n \in Messages : place'[n] = place[n] \/ place'[n] = "gone"
      BY <1>17, <2>3 DEF Remove, Removes, Deleted, Source!Delete, Source!Move
    <3>2. place'[hand[t]] \in {"gone", "dead"}
      BY <1>17, <2>1, <2>3 DEF Remove, Removes, Deleted, Present, Source!Delete, Source!Move,
                               Source!Places
    <3> QED BY <2>1, <2>2, <3>1, <3>2
  <2>4. CASE t \notin known
    BY <1>17, <2>1, <2>2, <2>4 DEF Remove, Removes
  <2> QED BY <2>3, <2>4
<1>18. ASSUME NEW t \in Tasks, RemoveRaises(t) PROVE CopiesInv'
  <2>1. hand[t] \in Messages /\ UNCHANGED <<copies, spared>>
        /\ hand' = [hand EXCEPT ![t] = NoMessage] /\ pc' = [pc EXCEPT ![t] = "ended"]
    BY <1>18 DEF RemoveRaises, FailTask, Goto
  <2>2. \A u \in Tasks : u # t => pc[u] \notin Holding
    BY <1>18 DEF RemoveRaises, Moving
  <2>3. \A n \in Messages : place'[n] = place[n] \/ place'[n] = "gone"
    BY <1>18 DEF RemoveRaises, Deleted, Source!Delete, Source!Move
  <2>4. place'[hand[t]] \in {"gone", "dead"}
    BY <1>18, <2>1 DEF RemoveRaises, Deleted, Present, Source!Delete, Source!Move, Source!Places
  <2> QED BY <2>1, <2>2, <2>3, <2>4
<1>19. ASSUME NEW m \in Messages, ClientRegisters(m) \/ ClientReceived(m) PROVE CopiesInv'
  BY <1>19 DEF ClientRegisters, ClientReceived, taskVars, locals
<1>20. ASSUME UNCHANGED vars PROVE CopiesInv'
  BY <1>20 DEF vars, taskVars, locals, world
<1> QED
  BY <1>1, <1>2, <1>3, <1>4, <1>5, <1>6, <1>7, <1>8, <1>9, <1>10, <1>11, <1>12, <1>13,
     <1>14, <1>15, <1>16, <1>17, <1>18, <1>19, <1>20
  DEF Next, TaskStep

\* Move tasks put a message to a target once, and once more for every purge that
\* took its handles and left it in the source (clear and receive in models.py),
\* for any number of tasks and although the message may be visible again before
\* it is removed.
THEOREM MovedOnceAlways == Spec => []MovedOnce
<1>1. CopiesInv => MovedOnce
  BY DEF CopiesInv, MovedOnce
<1>2. Init => MoverInv /\ KeptInv /\ CopiesInv
  BY InitMoverInv, InitKeptInv, InitCopiesInv
<1>3. (MoverInv /\ KeptInv /\ CopiesInv) /\ [Next]_vars => (MoverInv /\ KeptInv /\ CopiesInv)'
  BY StepMoverInv, StepKeptInv, StepCopiesInv
<1> QED BY <1>1, <1>2, <1>3, PTL DEF Spec

-----------------------------------------------------------------------------
(* Types, and the promptness of a cancellation                             *)

\* Behind CancelIsPrompt: a task that has begun a receive since it was
\* cancelled is still cancelled and past the lookup, and every way back to the
\* lookup leads through the condition of the loop.
PromptInv ==
    /\ overrun \in [Tasks -> 0..1]
    /\ \A t \in Tasks : overrun[t] = 1 =>
          /\ t \in cancelled
          /\ pc[t] \in Holding \cup {"receive", "loop", "ending", "completed", "cancelled"}

\* Initially everything is empty.
LEMMA InitTypePrompt == Init => TypeOK /\ PromptInv
<1> SUFFICES ASSUME Init PROVE TypeOK /\ PromptInv
  OBVIOUS
<1>1. place \in [Messages -> Source!Places] /\ count \in [Messages -> Nat]
  BY DEF Init, Source!Init, Source!Places
<1>2. /\ status \in [Tasks -> Statuses]
      /\ pc \in [Tasks -> Moving \cup {"none", "dropped", "ended"}]
      /\ hand \in [Tasks -> Messages \cup {NoMessage}]
      /\ \A t \in Tasks : pc[t] \in Holding <=> hand[t] # NoMessage
  BY DEF Init, Statuses, Moving, Holding
<1>3. copies \in [Messages -> Nat] /\ spared \in [Messages -> Nat] /\ receives \in 0..MaxReceives
  BY ConstantsAssumption DEF Init
<1>4. /\ {held, torn, others, dropped} \subseteq SUBSET Messages /\ overrun \in [Tasks -> Nat]
      /\ handling \in [Messages -> {"none", "popped", "registered"}]
  BY DEF Init
<1>5. TypeOK
  BY <1>1, <1>2, <1>3, <1>4 DEF Init, TypeOK
<1>6. PromptInv
  BY DEF Init, PromptInv
<1> QED BY <1>5, <1>6

\* What a step of the source's contract leaves of the types.
LEMMA SourceTypes ==
    ASSUME place \in [Messages -> Source!Places], count \in [Messages -> Nat],
           \/ \E m \in Messages : Source!Send(m) \/ Source!Take(m) \/ Source!Delete(m)
           \/ \E S : Source!Return(S) \/ Source!Discard(S)
    PROVE  place' \in [Messages -> Source!Places] /\ count' \in [Messages -> Nat]
BY DEF Source!Send, Source!Take, Source!Delete, Source!Return, Source!Discard,
       Source!Move, Source!Places

\* Every step keeps the types.
LEMMA StepTypeOK == MoverInv /\ TypeOK /\ [Next]_vars => TypeOK'
<1> SUFFICES ASSUME MoverInv, TypeOK, [Next]_vars PROVE TypeOK'
  OBVIOUS
<1> USE ConstantsAssumption DEF TypeOK, Holding
<1>1. ASSUME NEW m \in Messages, Arrive(m) \/ TimesOut(m) PROVE TypeOK'
  BY <1>1, SourceTypes DEF Arrive, TimesOut, taskVars, locals, world
<1>2. ASSUME NEW m \in Messages, ClientReceives(m) PROVE TypeOK'
  BY <1>2, SourceTypes DEF ClientReceives, taskVars, locals
<1>3. ASSUME NEW m \in Messages, ClientRegisters(m) \/ ClientReceived(m) PROVE TypeOK'
  BY <1>3 DEF ClientRegisters, ClientReceived, taskVars, locals
<1>4. ASSUME NEW m \in Messages, ClientDeletes(m) PROVE TypeOK'
  <2>1. {held', torn'} \subseteq SUBSET Messages /\ known' \subseteq Tasks
    BY <1>4 DEF ClientDeletes, RemoveHandles, RemoveHandlesRaises
  <2> QED BY <1>4, <2>1, SourceTypes DEF ClientDeletes, taskVars, locals
<1>5. ASSUME PurgeQueue PROVE TypeOK'
  <2>1. place' \in [Messages -> Source!Places] /\ count' \in [Messages -> Nat]
    BY <1>5, SourceTypes DEF PurgeQueue
  <2>2. /\ {held', torn', others'} \subseteq SUBSET Messages
        /\ spared' \in [Messages -> Nat]
    BY <1>5 DEF PurgeQueue, Present
  <2> QED BY <1>5, <2>1, <2>2 DEF PurgeQueue, taskVars, locals
<1>6. ASSUME NEW q, DeleteQueue(q) PROVE TypeOK'
  BY <1>6, SourceTypes DEF DeleteQueue, Present, taskVars, locals
<1>7. ASSUME NEW t \in Tasks, StartMessageMoveTask(t) PROVE TypeOK'
  <2>1. hand[t] = NoMessage
    BY <1>7 DEF StartMessageMoveTask, MoverInv, Active, Moving
  <2> QED BY <1>7, <2>1 DEF StartMessageMoveTask, Statuses, Moving, locals, world
<1>8. ASSUME NEW t \in Tasks, CancelMessageMoveTask(t) PROVE TypeOK'
  BY <1>8 DEF CancelMessageMoveTask, Statuses, locals, world
<1>9. ASSUME Close PROVE TypeOK'
  BY <1>9 DEF Close, Moving, locals, world
<1>10. ASSUME NEW t \in Tasks, Submit(t) PROVE TypeOK'
  BY <1>10 DEF Submit, Statuses, Moving, locals, world
<1>11. ASSUME NEW t \in Tasks, CheckCancelled(t) \/ Conclude(t) PROVE TypeOK'
  BY <1>11 DEF CheckCancelled, Conclude, Goto, Moving, locals, world
<1>12. ASSUME NEW t \in Tasks, LookUpSource(t) PROVE TypeOK'
  BY <1>12 DEF LookUpSource, FailTask, Goto, Statuses, Moving, world
<1>13. ASSUME NEW t \in Tasks, NEW m \in Messages, ReceiveMessage(t, m) PROVE TypeOK'
  <2>1. place' \in [Messages -> Source!Places] /\ count' \in [Messages -> Nat]
    BY <1>13, SourceTypes DEF ReceiveMessage, Receives
  <2> QED BY <1>13, <2>1 DEF ReceiveMessage, Goto, Statuses, Moving, world
<1>14. ASSUME NEW t \in Tasks, RegisterHandle(t) \/ AddInflight(t) PROVE TypeOK'
  BY <1>14 DEF RegisterHandle, AddInflight, FailTask, Goto, Statuses, Moving, locals, world
<1>15. ASSUME NEW t \in Tasks, ReceiveEmpty(t) \/ FindTarget(t) PROVE TypeOK'
  BY <1>15 DEF ReceiveEmpty, FindTarget, AfterLast, FailTask, Goto, Statuses, Moving, locals,
               world
<1>16. ASSUME NEW t \in Tasks, Put(t) PROVE TypeOK'
  BY <1>16 DEF Put, FailTask, Goto, Statuses, Moving, locals
<1>17. ASSUME NEW t \in Tasks, Remove(t) \/ RemoveRaises(t) PROVE TypeOK'
  <2>1. hand[t] \in Messages
    BY <1>17 DEF Remove, RemoveRaises
  <2>2. place' \in [Messages -> Source!Places] /\ count' \in [Messages -> Nat]
    BY <1>17, <2>1, SourceTypes DEF Remove, Removes, RemoveRaises, Deleted
  <2>3. {held', torn'} \subseteq SUBSET Messages /\ known' \subseteq Tasks
    BY <1>17, <2>1 DEF Remove, Removes, RemoveRaises, RemoveHandles, RemoveHandlesRaises
  <2> QED BY <1>17, <2>2, <2>3 DEF Remove, RemoveRaises, FailTask, Goto, Statuses, Moving
<1>18. ASSUME NEW t \in Tasks, SetStatus(t) PROVE TypeOK'
  BY <1>18 DEF SetStatus, Goto, Statuses, Moving, world
<1>19. ASSUME UNCHANGED vars PROVE TypeOK'
  BY <1>19 DEF vars, taskVars, locals, world
<1> QED
  BY <1>1, <1>2, <1>3, <1>4, <1>5, <1>6, <1>7, <1>8, <1>9, <1>10, <1>11, <1>12, <1>13,
     <1>14, <1>15, <1>16, <1>17, <1>18, <1>19
  DEF Next, TaskStep

\* Every step keeps a cancelled task from beginning a second receive.
LEMMA StepPromptInv == MoverInv /\ PromptInv /\ [Next]_vars => PromptInv'
<1> SUFFICES ASSUME MoverInv, PromptInv, [Next]_vars PROVE PromptInv'
  OBVIOUS
<1> USE DEF MoverInv, PromptInv, Holding
<1>1. ASSUME UNCHANGED taskVars PROVE PromptInv'
  BY <1>1 DEF taskVars, locals
<1>2. ASSUME NEW t \in Tasks, StartMessageMoveTask(t) PROVE PromptInv'
  BY <1>2 DEF StartMessageMoveTask, locals, Active, Moving
<1>3. ASSUME NEW t \in Tasks, CancelMessageMoveTask(t) PROVE PromptInv'
  BY <1>3 DEF CancelMessageMoveTask, locals
<1>4. ASSUME Close PROVE PromptInv'
  BY <1>4 DEF Close, locals
<1>5. ASSUME NEW t \in Tasks, Submit(t) PROVE PromptInv'
  BY <1>5 DEF Submit, locals
<1>6. ASSUME NEW t \in Tasks, CheckCancelled(t) \/ Conclude(t) PROVE PromptInv'
  BY <1>6 DEF CheckCancelled, Conclude, Continues, Goto, locals
<1>7. ASSUME NEW t \in Tasks, LookUpSource(t) PROVE PromptInv'
  <2>1. overrun[t] = 0
    BY <1>7 DEF LookUpSource
  <2> QED BY <1>7, <2>1 DEF LookUpSource, FailTask, Goto
<1>8. ASSUME NEW t \in Tasks, NEW m \in Messages, ReceiveMessage(t, m) PROVE PromptInv'
  BY <1>8 DEF ReceiveMessage, FailTask, Goto
<1>9. ASSUME NEW t \in Tasks, ReceiveEmpty(t) \/ FindTarget(t) PROVE PromptInv'
  BY <1>9 DEF ReceiveEmpty, FindTarget, AfterLast, FailTask, Goto, locals
<1>10. ASSUME NEW t \in Tasks, RegisterHandle(t) \/ AddInflight(t) PROVE PromptInv'
  BY <1>10 DEF RegisterHandle, AddInflight, FailTask, Goto, locals
<1>11. ASSUME NEW t \in Tasks, Put(t) \/ Remove(t) \/ RemoveRaises(t) PROVE PromptInv'
  BY <1>11 DEF Put, Remove, RemoveRaises, FailTask, Goto, locals
<1>12. ASSUME NEW t \in Tasks, SetStatus(t) PROVE PromptInv'
  BY <1>12 DEF SetStatus, Goto
<1> QED
  BY <1>1, <1>2, <1>3, <1>4, <1>5, <1>6, <1>7, <1>8, <1>9, <1>10, <1>11, <1>12
  DEF Next, TaskStep, vars, Arrive, ClientReceives, ClientRegisters, ClientReceived,
      ClientDeletes, TimesOut, PurgeQueue, DeleteQueue

\* The state of tasks and source is well typed; among it, a task has a message
\* in its hand exactly between its receive and the message's removal.
THEOREM TypeCorrect == Spec => []TypeOK
<1>1. Init => MoverInv /\ TypeOK
  BY InitMoverInv, InitTypePrompt
<1>2. (MoverInv /\ TypeOK) /\ [Next]_vars => (MoverInv /\ TypeOK)'
  BY StepMoverInv, StepTypeOK
<1> QED BY <1>1, <1>2, PTL DEF Spec

\* A task that was cancelled while it ran begins at most one more receive,
\* whenever the event is set between two steps of _run.
THEOREM CancelIsPromptAlways == Spec => []CancelIsPrompt
<1>1. Init => MoverInv /\ PromptInv
  BY InitMoverInv, InitTypePrompt
<1>2. (MoverInv /\ PromptInv) /\ [Next]_vars => (MoverInv /\ PromptInv)'
  BY StepMoverInv, StepPromptInv
<1>3. MoverInv /\ PromptInv => CancelIsPrompt
  BY DEF PromptInv, CancelIsPrompt
<1> QED BY <1>1, <1>2, <1>3, PTL DEF Spec
=============================================================================

---------------------------- MODULE SqsContract -----------------------------
(***************************************************************************)
(* What a standard queue promises about each message, whatever threads     *)
(* work on it: a message that was sent waits until a receive takes it, is  *)
(* then out (hidden from other receives) until its timeout returns it or   *)
(* somebody deletes it, and once gone it never comes back.  Nothing else   *)
(* makes a message disappear.  SqsStandardQueue implements this            *)
(* specification; LambdaEvents is built on it, because the queue of a      *)
(* function's events is a StandardQueue.                                   *)
(***************************************************************************)
EXTENDS Integers

CONSTANTS
    Messages,        \* the messages that may be sent
    MaxReceiveCount  \* maxReceiveCount of the redrive policy, 0 without one

VARIABLES
    place,           \* where each message is
    count            \* how often it was taken

contractVars == <<place, count>>

Places == {"unsent", "waiting", "out", "dead", "gone"}

\* The messages of S go from one of the places in from to place to.
Move(S, from, to) ==
    /\ S # {}
    /\ \A m \in S : place[m] \in from
    /\ place' = [m \in Messages |-> IF m \in S THEN to ELSE place[m]]

Init ==
    /\ place = [m \in Messages |-> "unsent"]
    /\ count = [m \in Messages |-> 0]

\* SendMessage
Send(m) == Move({m}, {"unsent"}, "waiting") /\ UNCHANGED count

\* A receive takes m, or makes it a dead letter when it was taken too often.
Take(m) ==
    /\ count' = [count EXCEPT ![m] = @ + 1]
    /\ Move({m}, {"waiting"},
            IF MaxReceiveCount > 0 /\ count'[m] > MaxReceiveCount
            THEN "dead" ELSE "out")

\* The visibility timeouts of S run out, or are set to 0.
Return(S) == Move(S, {"out"}, "waiting") /\ UNCHANGED count

\* DeleteMessage, by a client that has received m at some time.
Delete(m) == count[m] > 0 /\ Move({m}, {"waiting", "out"}, "gone") /\ UNCHANGED count

\* PurgeQueue, or the retention period of what is waiting runs out.
Discard(S) == Move(S, {"waiting", "out"}, "gone") /\ UNCHANGED count

\* Dead letters that find no dead-letter queue.
DropDeadLetters(S) == Move(S, {"dead"}, "gone") /\ UNCHANGED count

Next ==
    \/ \E m \in Messages : Send(m) \/ Take(m) \/ Delete(m)
    \/ \E S \in SUBSET Messages : Return(S) \/ Discard(S) \/ DropDeadLetters(S)

Spec == Init /\ [][Next]_contractVars
=============================================================================

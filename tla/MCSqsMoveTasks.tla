--------------------------- MODULE MCSqsMoveTasks ---------------------------
(* Constants for model-checking SqsMoveTasks: m1 is a dead letter of q1, m2 *)
(* was sent to the dead-letter queue by a client.                           *)
EXTENDS SqsMoveTasks

CONSTANTS m1, m2, q1, t1, t2

TwoMessages == {m1, m2}
OneTarget == {q1}
OneOrigin == [m \in TwoMessages |-> IF m = m1 THEN q1 ELSE NoQueue]
TwoTasks == {t1, t2}
OneDestination == [t \in TwoTasks |-> IF t = t1 THEN NoQueue ELSE q1]

\* The search stops where no task is at work and none can be started any more:
\* only clients could go on there.  The task to the origins is the first.
TasksToCome ==
    /\ status[t2] # "none" => status[t1] # "none"
    /\ \/ \E t \in Tasks : pc[t] \in Moving
       \/ /\ Serving /\ \A t \in Tasks : status[t] \notin Active
          /\ \E t \in Tasks : status[t] = "none"
=============================================================================

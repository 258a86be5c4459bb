--------------------------- MODULE MCSqsFifoQueue ---------------------------
(* Model values and symmetry for model-checking SqsFifoQueue.              *)
EXTENDS SqsFifoQueue, TLC

CONSTANTS c1, c2, g1, g2

OneGroup == {g1}
TwoGroups == {g1, g2}
OneConsumer == {c1}
TwoConsumers == {c1, c2}
ConsumerSymmetry == Permutations(TwoConsumers)
Symmetry == ConsumerSymmetry \cup Permutations(TwoGroups)
=============================================================================

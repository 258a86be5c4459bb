------------------------- MODULE MCSqsStandardQueue -------------------------
(* Model values and symmetry for model-checking SqsStandardQueue.          *)
EXTENDS SqsStandardQueue, TLC

CONSTANTS c1, c2

TwoConsumers == {c1, c2}
ConsumerSymmetry == Permutations(TwoConsumers)
=============================================================================

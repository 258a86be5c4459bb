-------------------------- MODULE MCLambdaEvents ---------------------------
(* LambdaEvents for TLC. *)
EXTENDS LambdaEvents
=============================================================================

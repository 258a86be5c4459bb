------------------------ MODULE MCLambdaEnvironments ------------------------
(***************************************************************************)
(* Instances of LambdaEnvironments for TLC.                                *)
(***************************************************************************)
EXTENDS LambdaEnvironments, TLC

CONSTANTS i1, i2, u1, u2

OneInvocation == {i1}
TwoInvocations == {i1, i2}
NoUpdate == {}
TwoUpdates == {u1, u2}

\* Invocations differ in nothing but their names: the one that starts the first
\* environment is called i1.  (Unlike with a symmetry set, liveness can be
\* checked: a behaviour that is cut is, up to the names, one that is not.)
FirstStarted == ~(pc[i2] = "starting" /\ env[i2] = 1)

UpdateSymmetry == Permutations(TwoUpdates)
=============================================================================

-------------------------- MODULE MCBodyReporting --------------------------
(* Instances of BodyReporting for TLC.                                      *)
EXTENDS BodyReporting

FewPositions  == {1}
FewVelocities == {0, 1}
ATransform == [rot |-> -1, trans |-> 3]
=============================================================================

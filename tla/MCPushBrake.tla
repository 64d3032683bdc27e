---------------------------- MODULE MCPushBrake ----------------------------
(* Instances of PushBrake for TLC.                                         *)
EXTENDS PushBrake

CONSTANTS p1, p2

TwoPosters == {p1, p2}
=============================================================================

------------------------------- MODULE MCJoin -------------------------------
(* Instance of JoinView for TLC.                                           *)
EXTENDS JoinView
=============================================================================

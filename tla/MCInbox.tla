------------------------------ MODULE MCInbox ------------------------------
(* Instances of Inbox for TLC.                                             *)
EXTENDS Inbox

CONSTANTS h1, h2

TwoHandlers == {h1, h2}
=============================================================================

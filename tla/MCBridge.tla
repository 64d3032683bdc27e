------------------------------ MODULE MCBridge ------------------------------
EXTENDS TelegramBridge

(* Two records and one message, or one record and two messages.            *)
TwoOne == {[posts |-> 2, typed |-> 1], [posts |-> 1, typed |-> 2]}
=============================================================================

----------------------------- MODULE MCDelivery -----------------------------
EXTENDS Delivery, TLC
CONSTANTS h1, s1, codex, agy
Plain == [key |-> None, mirrored |-> FALSE]
Of(k, mirrored) == [key |-> k, mirrored |-> mirrored]

(* A session with a socket only beside a Codex session, and one listener   *)
(* of an agy session that replaces another.                                *)
Two == {<<Plain, Of(codex, FALSE)>>, <<Of(agy, TRUE), Of(agy, FALSE)>>}

(* A send, or a push to the first name under either pid.                   *)
Some ==
  {<<Try("name", 2, TRUE)>>} \cup {Push(1, p, TRUE) : p \in Pids} \cup {Handoff(1, p) : p \in Pids}

(* Past a section that ran without the lock the invariants say nothing;    *)
(* past the end of the one message nothing about it changes any more; one  *)
(* listener at a time has something unread; and the message is on its way  *)
(* only where no prune or wait has run and no other message has come in.   *)
Bounds ==
  /\ ~unlocked
  /\ ~Settled(s1)
  /\ Cardinality(unread) <= 1
  /\ mail[s1].pc # "new" => job[h1].pc = "idle" /\ unread = {}
=============================================================================

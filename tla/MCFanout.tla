------------------------------ MODULE MCFanout ------------------------------
(* Instances of Fanout for TLC.                                            *)
EXTENDS Fanout

CONSTANTS ann, cod, hum, p1

OneMember == {cod}
OnePoster == {p1}
OnePerson == {hum}
Everybody == Members \cup {ann, hum}

(* A plain post by an agent and one to all, and one by a person that       *)
(* mentions cod by name.                                                   *)
SomePosts ==
  {[by |-> ann, kind |-> "plain", at |-> {}],
   [by |-> ann, kind |-> "all", at |-> {}],
   [by |-> hum, kind |-> "plain", at |-> {cod}]}
=============================================================================

---------------------------- MODULE MCThreadWait ----------------------------
(* Instances of ThreadWait for TLC.                                        *)
EXTENDS ThreadWait

CONSTANTS ann, bob, poster

OnePoster == {poster}
OneAgent == {ann}
AllProcs == Agents \cup Posters

(* Posts by either participant, one that mentions the other, and events.   *)
SomeBodies ==
  {[from |-> ann, at |-> {}], [from |-> bob, at |-> {ann}], Joined}

NoPattern == {{}}
=============================================================================

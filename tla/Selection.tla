----------------------------- MODULE Selection -----------------------------
(* What is left of a sequence, in its order.                               *)
EXTENDS Naturals, Sequences, SequencesExt

(* What stands at the places in K.                                         *)
Picked(s, K) == FlattenSeq([i \in DOMAIN s |-> IF i \in K THEN <<s[i]>> ELSE << >>])

(* What is not in T.                                                       *)
Purged(s, T) == Picked(s, {i \in DOMAIN s : s[i] \notin T})
=============================================================================

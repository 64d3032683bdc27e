-------------------------------- MODULE Room --------------------------------
(***************************************************************************)
(* What a thread promises its participants: one ordered list of posts;     *)
(* each participant is handed everybody else's posts in that order, each   *)
(* once, in batches that leave nothing out, except that it may ask to be   *)
(* spared posts that do not mention it.  Only the death of its own waiting *)
(* process can cost a participant a batch, or repeat the backlog.          *)
(***************************************************************************)
EXTENDS Naturals, Sequences, Ordered

CONSTANTS Agents,         \* the participants
          Bodies,         \* what a post can say
          Own(_, _),      \* Own(a, body): a wrote it
          Mentions(_, _)  \* Mentions(a, body): it is addressed to a

VARIABLES
  posts,   \* the bodies posted so far, in order
  seen,    \* how many posts each participant has been taken past
  heard,   \* the positions of the posts each participant was handed
  left,    \* the positions of the posts each participant was spared
  deaths   \* how often each participant's waiting process died serving it

vars == <<posts, seen, heard, left, deaths>>

Init ==
  /\ posts = <<>>
  /\ seen = [a \in Agents |-> 0]
  /\ heard = [a \in Agents |-> <<>>]
  /\ left = [a \in Agents |-> {}]
  /\ deaths = [a \in Agents |-> 0]

Post(body) ==
  /\ UNCHANGED <<seen, heard, left, deaths>>
  /\ posts' = Append(posts, body)

Foreign(a, from, to) == {n \in from + 1 .. to : ~Own(a, posts[n])}

(* The batch ends with the post that a was taken past.                     *)
Serve(a, n) ==
  /\ ~Own(a, posts[n])
  /\ seen' = [seen EXCEPT ![a] = n]
  /\ \E shown \in SUBSET Foreign(a, seen[a], n) :
       /\ \A m \in Foreign(a, seen[a], n) : Mentions(a, posts[m]) => m \in shown
       /\ heard' = [heard EXCEPT ![a] = @ \o InOrder(shown)]
       /\ left' = [left EXCEPT ![a] = @ \cup (Foreign(a, seen[a], n) \ shown)]
  /\ UNCHANGED <<posts, deaths>>

(* The process that waits for a dies at the wrong moment: its batch is     *)
(* taken for served, or every post for unserved.                           *)
Lose(a, n) ==
  /\ seen' = [seen EXCEPT ![a] = n]
  /\ deaths' = [deaths EXCEPT ![a] = @ + 1]
  /\ UNCHANGED <<posts, heard, left>>

Next ==
  \/ \E body \in Bodies : Post(body)
  \/ \E a \in Agents :
       \/ \E n \in seen[a] + 1 .. Len(posts) : Serve(a, n) \/ Lose(a, n)
       \/ Lose(a, 0)

Spec == Init /\ [][Next]_vars
=============================================================================

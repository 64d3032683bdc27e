----------------------------- MODULE PushBrake -----------------------------
(***************************************************************************)
(* The brakes on pushes to one Codex member of a thread:                   *)
(* _codex_push_decision of agent_peer/thread.py, called by fanout_thread_  *)
(* push in every posting process that has the member for a target, and the *)
(* queue of Codex that the pushes go to.  The member's push-state file is  *)
(* read, and rewritten atomically, by each of them without a lock.         *)
(***************************************************************************)
EXTENDS Naturals, Sequences, FiniteSets

CONSTANTS Posters,   \* the processes that post
          MaxPosts   \* bound: posts decided about

ASSUME PushBrakeAssumption ==
  /\ IsFiniteSet(Posters)
  /\ MaxPosts \in Nat

VARIABLES
  posts,   \* how many posts there have been: the last one's seq
  post,    \* each poster's push in progress
  file,    \* the push-state file
  hot,     \* the pushes within the last CODEX_PUSH_WINDOW_SECONDS
  queue,   \* the pushes waiting in Codex's queue
  free,    \* the posts no brake may hold, and those whose decision failed
  held,    \* the posts held since the count was last reported, in that order
  raced,   \* two posters have decided at the same time since then
  misread, \* a poster could not read the file since then
  blind    \* the queue could not be read for some decision

vars == <<posts, post, file, hot, queue, free, held, raced, misread, blind>>

QueueMaxMention == 2      \* CODEX_QUEUE_MAX_MENTION

(* A post by an agent, plain or with a mention; a person's, or a [stop].   *)
Kinds == {"plain", "mention", "urgent"}
Tries == {"push", "retry"}
PostPCs == {"idle", "decide", "brake"} \cup Tries
States == [last : Nat, held : Nat, first : Nat]

NoState == [last |-> 0, held |-> 0, first |-> 0]
NoPost == [pc |-> "idle", seq |-> 0, kind |-> "plain", state |-> NoState]

Init ==
  /\ posts = 0
  /\ post = [p \in Posters |-> NoPost]
  /\ file = NoState
  /\ hot = {}
  /\ queue = {}
  /\ free = {}
  /\ held = <<>>
  /\ raced = FALSE
  /\ misread = FALSE
  /\ blind = FALSE

-----------------------------------------------------------------------------

Post(p, kind) ==
  /\ post[p].pc = "idle"
  /\ posts < MaxPosts
  /\ posts' = posts + 1
  /\ post' = [post EXCEPT ![p] = [pc |-> "decide", seq |-> posts', kind |-> kind,
                                  state |-> NoState]]
  /\ free' = IF kind = "urgent" THEN free \cup {posts'} ELSE free
  /\ UNCHANGED <<file, hot, queue, held, raced, misread, blind>>

(* A file that cannot be read counts as empty.                             *)
ReadState(p) ==
  /\ post[p].pc = "decide"
  /\ \E state \in {file, NoState} :
       /\ post' = [post EXCEPT ![p].pc = "brake", ![p].state = state]
       /\ misread' = (misread \/ state # file)
  /\ raced' = (raced \/ \E q \in Posters : post[q].pc = "brake")
  /\ UNCHANGED <<posts, file, hot, queue, free, held, blind>>

(* MUTANT of Depth: a mention is never held for the depth of the queue.    *)
DepthOfPlain(kind) == IF kind = "mention" THEN MaxPosts ELSE 1

Depth(kind) == IF kind = "mention" THEN QueueMaxMention ELSE 1

InWindow(state) == state.last \in hot

(* Depth, and then time.  Of a queue that cannot be read, depth is unknown.*)
Holds(p, waiting) ==
  /\ post[p].kind # "urgent"
  /\ \/ waiting >= Depth(post[p].kind)
     \/ post[p].kind = "plain" /\ InWindow(post[p].state)

(* MUTANTS of Hold: the time of the last push is not carried over; each    *)
(* held post is taken for the first.                                       *)
HoldForgetsPush(p, waiting) ==
  /\ post[p].pc = "brake" /\ Holds(p, waiting)
  /\ file' = [held |-> post[p].state.held + 1, first |-> post[p].seq]
  /\ held' = Append(held, post[p].seq)
  /\ post' = [post EXCEPT ![p] = NoPost]
  /\ UNCHANGED <<posts, hot, queue, free, raced, misread>>

HoldLatest(p, waiting) ==
  /\ post[p].pc = "brake" /\ Holds(p, waiting)
  /\ file' = [post[p].state EXCEPT !.held = @ + 1, !.first = post[p].seq]
  /\ held' = Append(held, post[p].seq)
  /\ post' = [post EXCEPT ![p] = NoPost]
  /\ UNCHANGED <<posts, hot, queue, free, raced, misread>>

(* The state is rewritten from what was read of it.                        *)
Hold(p, waiting) ==
  /\ post[p].pc = "brake" /\ Holds(p, waiting)
  /\ LET state == post[p].state
     IN  file' = [last |-> state.last, held |-> state.held + 1,
                  first |-> IF state.first = 0 THEN post[p].seq ELSE state.first]
  /\ held' = Append(held, post[p].seq)
  /\ post' = [post EXCEPT ![p] = NoPost]
  /\ UNCHANGED <<posts, hot, queue, free, raced, misread>>

(* The count starts again, before the push that reports it has gone out.   *)
Go(p, waiting) ==
  /\ post[p].pc = "brake" /\ ~Holds(p, waiting)
  /\ file' = [NoState EXCEPT !.last = post[p].seq]
  /\ hot' = hot \cup {post[p].seq}
  /\ held' = <<>>
  /\ raced' = \E q \in Posters \ {p} : post[q].pc = "brake"
  /\ misread' = FALSE
  /\ post' = [post EXCEPT ![p].pc = "push"]
  /\ UNCHANGED <<posts, queue, free>>

(* Any failure, such as that of the write, lets the push go with no note   *)
(* of what was held and leaves the file as it was.                         *)
FailOpen(p) ==
  /\ post[p].pc \in {"decide", "brake"}
  /\ post' = [post EXCEPT ![p].pc = "push"]
  /\ free' = free \cup {post[p].seq}
  /\ UNCHANGED <<posts, file, hot, queue, held, raced, misread>>

Decide(p) ==
  \/ (Hold(p, Cardinality(queue)) \/ Go(p, Cardinality(queue))) /\ UNCHANGED blind
  \/ (Hold(p, 0) \/ Go(p, 0)) /\ blind' = TRUE
  \/ FailOpen(p) /\ UNCHANGED blind

(* The worker's push, by name, and if it seems to fail again by pid: the   *)
(* queue may have taken one that seems to have failed.                     *)
Push(p) ==
  /\ post[p].pc \in Tries
  /\ queue' \in {queue, queue \cup {<<post[p].seq, post[p].pc>>}}
  /\ \/ post' = [post EXCEPT ![p] = NoPost]
     \/ post[p].pc = "push" /\ post' = [post EXCEPT ![p].pc = "retry"]
  /\ UNCHANGED <<posts, file, hot, free, held, raced, misread, blind>>

(* The poster is killed.                                                   *)
Fail(p) ==
  /\ post[p].pc # "idle"
  /\ post' = [post EXCEPT ![p] = NoPost]
  /\ UNCHANGED <<posts, file, hot, queue, free, held, raced, misread, blind>>

(* The window of the pushes so far passes.                                 *)
Cool ==
  /\ hot # {}
  /\ hot' = {}
  /\ UNCHANGED <<posts, post, file, queue, free, held, raced, misread, blind>>

Consume ==
  /\ \E item \in queue : queue' = queue \ {item}
  /\ UNCHANGED <<posts, post, file, hot, free, held, raced, misread, blind>>

Next ==
  \/ \E p \in Posters :
       \/ \E kind \in Kinds : Post(p, kind)
       \/ ReadState(p) \/ Decide(p) \/ Push(p) \/ Fail(p)
  \/ Cool
  \/ Consume

Spec == Init /\ [][Next]_vars

-----------------------------------------------------------------------------

TypeOK ==
  /\ posts \in 0 .. MaxPosts
  /\ post \in [Posters -> [pc : PostPCs, seq : 0 .. posts, kind : Kinds, state : States]]
  /\ file \in States
  /\ hot \cup free \subseteq 1 .. posts
  /\ queue \subseteq (1 .. posts) \X Tries
  /\ held \in Seq(1 .. posts)
  /\ raced \in BOOLEAN /\ misread \in BOOLEAN /\ blind \in BOOLEAN

(* "Held posts are counted": the state file has the number and the first   *)
(* of the posts held since a push last reported them, unless two posters   *)
(* have decided at the same time or one could not read the file.  A push   *)
(* that goes out because the decision failed changes nothing about it.     *)
HeldAreCounted ==
  ~raced /\ ~misread =>
    /\ file.held = Len(held)
    /\ file.first = IF held = <<>> THEN 0 ELSE Head(held)

(* "A mention may queue up to CODEX_QUEUE_MAX_MENTION": what may be held   *)
(* and is not piles up in Codex's queue no further than that, but for the  *)
(* push of each poster that had looked before, once by name and once by    *)
(* pid, as long as the queue can be read and the decision does not fail.   *)
QueueStaysShallow ==
  ~blind =>
    Cardinality({item \in queue : item[1] \notin free})
      <= QueueMaxMention - 1 + 2 * Cardinality(Posters)
=============================================================================

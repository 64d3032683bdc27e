------------------------------- MODULE Fanout -------------------------------
(***************************************************************************)
(* Whom a post wakes: append_thread_message of agent_peer/thread.py from   *)
(* the append on, that is fanout_thread_push and fanout_targets, run by    *)
(* any number of posting processes over the Presence of a thread.  The     *)
(* presence is read without its lock, and each target is judged by whether *)
(* its process runs at that moment.                                        *)
(*                                                                         *)
(* A post mentions members by name, or all of them (by "@all" or "[stop]").*)
(* A push reaches its target or does not: how is the matter of             *)
(* send_message.  PushBrake is about which pushes to Codex are held.       *)
(***************************************************************************)
EXTENDS Presence

CONSTANTS Posters,     \* the processes that post
          Senders,     \* who posts: members, and others
          Humans,      \* the senders that are no registered session
          Registered,  \* the members with a live session in the senders' workspace
          Codex,       \* the members whose session is a Codex one
          Posts,       \* what a post can be
          MaxPosts     \* bound: posts appended

ASSUME FanoutAssumption ==
  /\ Posts \subseteq [by : Senders, kind : {"plain", "all", "stop"}, at : SUBSET Members]
  /\ Registered \subseteq Members /\ Humans \subseteq Senders \ Registered
  /\ Codex \subseteq Registered
  /\ MaxPosts \in Nat

VARIABLES
  post,      \* each poster's post in progress
  posted,    \* the positions of the posts in the log
  knocked,   \* <<member, post>> that was pushed
  spared,    \* <<member, mention>> not pushed, a running process having been seen
  excused    \* <<member, mention>> not pushed for another reason, or whose running
             \* process ended without reading on

fanVars == <<post, posted, knocked, spared, excused>>
vars == <<presVars, fanVars>>

PostPCs == {"idle", "look", "push"}

(* polling: the calls that were in the room when the post was appended.    *)
(* seen: the presence as read, of which fresh were seen within 30 s; blind:*)
(* while or after it was lost.  todo: members to judge.  targets: members  *)
(* to push to.                                                             *)
NoPost == [pc |-> "idle", at |-> 0, polling |-> {}, seen |-> Nobody, fresh |-> {},
           blind |-> FALSE, todo |-> {}, targets |-> {}]

Init ==
  /\ PresInit
  /\ post = [p \in Posters |-> NoPost]
  /\ posted = {}
  /\ knocked = {}
  /\ spared = {}
  /\ excused = {}

Body(p) == log[post[p].at]
Sender(p) == Body(p).by
Mentions(m, record) == m \in record.at \/ record.kind # "plain"
Excuse(p, members) ==
  excused' = excused \cup {<<m, post[p].at>> : m \in {n \in members : Mentions(n, Body(p))}}

-----------------------------------------------------------------------------
(* The post                                                                *)

Polling(m) ==
  wait[m].pc \in {"first", "poll"} /\ pres[m] # Absent /\ pres[m].pid = calls[m]

AppendPost(p, record) ==
  /\ post[p].pc = "idle"
  /\ Cardinality(posted) < MaxPosts
  /\ log' = Append(log, record)
  /\ posted' = posted \cup {Len(log) + 1}
  /\ post' = [post EXCEPT ![p] = [NoPost EXCEPT
                 !.pc = "look", !.at = Len(log) + 1,
                 !.polling = {<<m, calls[m]>> : m \in {n \in Members : Polling(n)}}]]
  /\ UNCHANGED <<fileVars, wait, calls, leave, leaves, cursor, crossed,
                 knocked, spared, excused>>

(* fanout_targets reads the presence, at any moment.                       *)
Look(p) ==
  /\ post[p].pc = "look"
  /\ post' = [post EXCEPT ![p].pc = "push", ![p].seen = pres, ![p].fresh = recent,
                          ![p].blind = holder # Free \/ wiped,
                          ![p].todo = Members \ {Sender(p)}]
  /\ UNCHANGED <<presVars, posted, knocked, spared, excused>>

(* MUTANT of Deaf: an active member is left to its own poll.               *)
NeverDeaf(p, m) == FALSE

(* An active member whose process ended a while ago.                       *)
Deaf(p, m) == ~IsAlive(m, post[p].seen[m].pid) /\ m \notin post[p].fresh

(* MUTANT of Targeted: an active member is taken at its word.              *)
TargetedByMention(p, m) == Mentions(m, Body(p))

(* Inside the room; and, from outside it, a session of the same workspace  *)
(* that is mentioned by name.                                              *)
Targeted(p, m) ==
  LET entry == post[p].seen[m]
  IN  IF entry = Absent THEN m \in Registered /\ m \in Body(p).at
      ELSE IF entry.left
      THEN ~IsAlive(m, entry.pid) /\ (entry.follow \/ Mentions(m, Body(p)))
      ELSE Deaf(p, m) /\ Mentions(m, Body(p))

Judge(p, m) ==
  LET entry == post[p].seen[m]
      pushed == Targeted(p, m)
      running == entry # Absent /\ IsAlive(m, entry.pid)
  IN  /\ post[p].pc = "push" /\ m \in post[p].todo
      /\ post' = [post EXCEPT ![p].todo = @ \ {m},
                              ![p].targets = IF pushed THEN @ \cup {m} ELSE @]
      /\ spared' = IF ~pushed /\ running /\ Mentions(m, Body(p)) THEN spared \cup {<<m, post[p].at>>} ELSE spared
      /\ IF ~pushed /\ (entry = Absent \/ (~entry.left /\ m \in post[p].fresh))
         THEN Excuse(p, {m}) ELSE UNCHANGED excused
      /\ UNCHANGED <<presVars, posted, knocked>>

(* All members are judged before the first worker starts.                  *)
Judged(p) == post[p].pc = "push" /\ post[p].todo = {}

-----------------------------------------------------------------------------
(* The pushes: _push_one in one worker thread per target                   *)

Deliver(p, m) ==
  /\ Judged(p) /\ m \in post[p].targets
  /\ knocked' = knocked \cup {<<m, post[p].at>>}
  /\ post' = [post EXCEPT ![p].targets = @ \ {m}]
  /\ UNCHANGED <<presVars, posted, spared, excused>>

(* _codex_push_decision keeps an agent's post from a Codex member.         *)
Hold(p, m) ==
  /\ Judged(p) /\ m \in post[p].targets \cap Codex
  /\ Sender(p) \notin Humans /\ Body(p).kind # "stop"
  /\ Excuse(p, {m})
  /\ post' = [post EXCEPT ![p].targets = @ \ {m}]
  /\ UNCHANGED <<presVars, posted, knocked, spared>>

(* The poster exits, and with it go the workers that found their target    *)
(* unreachable or are over their budget.                                   *)
Finish(p) ==
  /\ Judged(p)
  /\ Excuse(p, post[p].targets)
  /\ post' = [post EXCEPT ![p] = NoPost]
  /\ UNCHANGED <<presVars, posted, knocked, spared>>

PosterKilled(p) ==
  /\ post[p].pc # "idle"
  /\ Excuse(p, Members)
  /\ post' = [post EXCEPT ![p] = NoPost]
  /\ UNCHANGED <<presVars, posted, knocked, spared>>

(* What a process that ends without another poll leaves unread.            *)
Missed == {miss \in spared : Running(miss[1]) /\ ~Running(miss[1])' /\ miss[2] > cursor[miss[1]]}

InRoom(A) ==
  /\ A
  /\ excused' = excused \cup Missed
  /\ UNCHANGED <<post, posted, knocked, spared>>

-----------------------------------------------------------------------------

FanoutStep(p) ==
  \/ Look(p) \/ Finish(p)
  \/ \E m \in Members : Judge(p, m) \/ Deliver(p, m) \/ Hold(p, m)

Next ==
  \/ \E p \in Posters :
       \/ \E record \in Posts : AppendPost(p, record)
       \/ FanoutStep(p)
       \/ PosterKilled(p)
  \/ InRoom(PresNext)

Spec == Init /\ [][Next]_vars

(* A post goes on once appended; a call of "agent-peer thread" polls every *)
(* 0.1 s.                                                                  *)
FairSpec ==
  /\ Spec
  /\ \A p \in Posters : WF_vars(FanoutStep(p))
  /\ \A m \in Members : WF_vars(InRoom(WaitStep(m)))

-----------------------------------------------------------------------------

TypeOK ==
  /\ PresTypeOK
  /\ \A i \in 1 .. Len(log) : log[i] \in Posts \/ IsEvent(log[i])
  /\ post \in [Posters ->
       [pc : PostPCs, at : 0 .. Len(log), polling : SUBSET (Members \X Nat),
        seen : [Members -> Entries \cup {Absent}], fresh : SUBSET Members, blind : BOOLEAN,
        todo : SUBSET Members, targets : SUBSET Members]]
  /\ posted \subseteq 1 .. Len(log)
  /\ knocked \cup spared \cup excused \subseteq Members \X (1 .. Len(log))

(* "Active members never do - they read the room stream via their own      *)
(* poll": a member whose running call was in the presence file when a post *)
(* was appended is not pushed that post while the call runs, unless the    *)
(* presence was read during an update or has been lost.                    *)
NoSecondSpeaker ==
  \A p \in Posters : \A m \in post[p].targets :
    ~post[p].blind => ~(Running(m) /\ <<m, calls[m]>> \in post[p].polling)

(* A post that mentions a member reaches it, by its own call or by a push, *)
(* but for the reasons in "excused".                                       *)
Pending(m) ==
  {s \in posted : /\ log[s].by # m /\ Mentions(m, log[s])
                  /\ s > cursor[m] /\ <<m, s>> \notin knocked \cup excused}

MentionArrives == \A m \in Members : (Pending(m) # {}) ~> (Pending(m) = {})
=============================================================================

----------------------------- MODULE ThreadWait -----------------------------
(***************************************************************************)
(* "agent-peer thread <id>": wait_for_thread_message of agent_peer/        *)
(* thread.py under cmd_thread of agent_peer/cli.py.  One waiting process   *)
(* per participant (cmd_thread's per-participant lock) reads the ThreadLog *)
(* that any process may be appending to, keeps the participant's place in  *)
(* a cursor file, prints a batch of unread posts and exits.                *)
(*                                                                         *)
(* Modes: "arm" waits without a limit, "peek" has a --timeout, "mention"   *)
(* is --mention-only, which stays silent until a post mentions the         *)
(* participant (or, with --match, fits the pattern) and then prints only   *)
(* the posts that do, or with --context the whole batch.                   *)
(***************************************************************************)
EXTENDS ThreadLog, FiniteSetsExt, Ordered

CONSTANTS Agents,    \* the participants of the thread
          Posters,   \* processes that post: send --thread, join, a bridge
          System,    \* the "from" of a join or leave event
          Patterns   \* the posts that a --match can pick; {} is no --match

ASSUME ThreadWaitAssumption ==
  /\ System \notin Agents
  /\ Procs = Agents \cup Posters
  /\ \A body \in Bodies : body.at \subseteq Agents
  /\ [from |-> System, at |-> {}] \in Bodies
  /\ {} \in Patterns
  /\ \A match \in Patterns : match \subseteq {body \in Bodies : body.from # System}

VARIABLES
  pres,     \* each participant in presence.json: "absent", "active", "left"
  cursor,   \* each participant's cursor file
  wait,     \* each participant's waiting process
  got,      \* the seqs printed for each participant, in order
  hid,      \* the seqs --mention-only left out for each participant
  hurt      \* what a waiting process did by dying: "lose", "replay"

waitVars == <<pres, cursor, wait, got, hid, hurt>>
vars == <<logVars, waitVars>>

Modes == {"arm", "peek", "mention"}
WaitPCs == {"off", "first", "poll", "commit", "writing", "print"}

(* offset: the lines ThreadTail has consumed.  unread: the records kept,   *)
(* by line.  from: the cursor as last read.                                *)
Waits == [pc : WaitPCs, mode : Modes, context : BOOLEAN, match : Patterns,
          offset : Nat, unread : SUBSET Nat, from : Nat]

Off == [pc |-> "off", mode |-> "arm", context |-> FALSE, match |-> {},
        offset |-> 0, unread |-> {}, from |-> 0]

Joined == [from |-> System, at |-> {}]

Own(a, body) == body.from = a
Mentions(a, body) == a \in body.at

(* No cursor file and one truncated by a crash both read as 0.             *)
Init ==
  /\ LogInit
  /\ pres = [a \in Agents |-> "absent"]
  /\ cursor = [a \in Agents |-> 0]
  /\ wait = [a \in Agents |-> Off]
  /\ got = [a \in Agents |-> <<>>]
  /\ hid = [a \in Agents |-> {}]
  /\ hurt = [a \in Agents |-> {}]

(* cmd_thread starts, and touch_thread_presence tells the room: a peek is  *)
(* never an arrival, a wait is one unless the participant was active, and  *)
(* an arrival is appended to the log before the first poll.                *)
Touch(a, mode) ==
  /\ pres' = [pres EXCEPT ![a] = IF mode = "peek" THEN "left" ELSE "active"]
  /\ IF mode # "peek" /\ pres[a] # "active"
     THEN Begin(a, Joined)
     ELSE UNCHANGED logVars

(* The presence lock stays contended for half a second: no update.         *)
TouchSkipped == UNCHANGED <<logVars, pres>>

(* cmd_thread refuses --context and --match without --mention-only.        *)
Start(a, mode, context, match) ==
  /\ wait[a].pc = "off"
  /\ mode = "mention" \/ (~context /\ match = {})
  /\ wait' = [wait EXCEPT ![a] = [Off EXCEPT !.pc = "first", !.mode = mode,
                                            !.context = context, !.match = match]]
  /\ Touch(a, mode) \/ TouchSkipped
  /\ UNCHANGED <<cursor, got, hid, hurt>>

Starts(a) ==
  \E mode \in Modes, context \in BOOLEAN, match \in Patterns :
    Start(a, mode, context, match)

(* MUTANT of EndOfLines: a half-written last line counts as read.          *)
EndOfFile == Len(log)

(* What ThreadTail.poll reads: up to the last newline.                     *)
EndOfLines == IF Unfinished THEN Len(log) - 1 ELSE Len(log)

(* MUTANTS of Fresh: the record at the cursor is unread; one's own are.    *)
FreshAtCursor(a) ==
  {i \in wait[a].unread \cup (wait[a].offset + 1 .. EndOfLines) :
     log[i].whole /\ log[i].seq >= cursor[a] /\ ~Own(a, log[i].body)}

FreshEcho(a) ==
  {i \in wait[a].unread \cup (wait[a].offset + 1 .. EndOfLines) :
     log[i].whole /\ log[i].seq > cursor[a]}

(* The records after the cursor that somebody else wrote.                  *)
Fresh(a) ==
  {i \in wait[a].unread \cup (wait[a].offset + 1 .. EndOfLines) :
     log[i].whole /\ log[i].seq > cursor[a] /\ ~Own(a, log[i].body)}

(* A post that --mention-only waits for.                                   *)
Wanted(a, body) == Mentions(a, body) \/ body \in wait[a].match

Ready(a, unread) ==
  /\ unread # {}
  /\ wait[a].mode = "mention" => \E i \in unread : Wanted(a, log[i].body)

(* A poll of the tail and of the cursor file.  A poll that finds no new    *)
(* line changes nothing after the first.                                   *)
Poll(a) ==
  /\ app[a].pc = "idle"
  /\ \/ wait[a].pc = "first"
     \/ wait[a].pc = "poll" /\ EndOfLines > wait[a].offset
  /\ wait' = [wait EXCEPT ![a].pc = IF Ready(a, Fresh(a)) THEN "commit" ELSE "poll",
                          ![a].offset = EndOfLines,
                          ![a].unread = Fresh(a),
                          ![a].from = cursor[a]]
  /\ UNCHANGED <<logVars, pres, cursor, got, hid, hurt>>

(* A peek's --timeout runs out: no batch.                                  *)
TimeOut(a) ==
  /\ wait[a].pc = "poll" /\ wait[a].mode = "peek"
  /\ wait' = [wait EXCEPT ![a] = Off]
  /\ UNCHANGED <<logVars, pres, cursor, got, hid, hurt>>

(* _write_thread_cursor: open(path, "w") truncates, json.dump fills.       *)
TruncateCursor(a) ==
  /\ wait[a].pc = "commit"
  /\ wait' = [wait EXCEPT ![a].pc = "writing"]
  /\ cursor' = [cursor EXCEPT ![a] = 0]
  /\ UNCHANGED <<logVars, pres, got, hid, hurt>>

(* MUTANT of WriteCursor: to the last record of the file as it is by now.  *)
WriteLatest(a) ==
  /\ wait[a].pc = "writing"
  /\ wait' = [wait EXCEPT ![a].pc = "print"]
  /\ cursor' = [cursor EXCEPT ![a] = Max({log[i].seq : i \in {j \in 1 .. Len(log) : Whole(j)}})]
  /\ UNCHANGED <<logVars, pres, got, hid, hurt>>

WriteCursor(a) ==
  /\ wait[a].pc = "writing"
  /\ wait' = [wait EXCEPT ![a].pc = "print"]
  /\ cursor' = [cursor EXCEPT ![a] = log[Max(wait[a].unread)].seq]
  /\ UNCHANGED <<logVars, pres, got, hid, hurt>>

(* split_for_mention_only, called for --mention-only without --context:    *)
(* the lines of the batch that are printed, and those that are not.        *)
Sparing(a) == wait[a].mode = "mention" /\ ~wait[a].context

Spared(a) ==
  IF Sparing(a) THEN {i \in wait[a].unread : ~Wanted(a, log[i].body)} ELSE {}

Shown(a) == wait[a].unread \ Spared(a)

Batch(a) ==
  LET lines == InOrder(Shown(a))
  IN  [n \in DOMAIN lines |-> log[lines[n]].seq]

(* cmd_thread prints the lines to show, counts the other posts (join and   *)
(* leave events apart) in a line "+N not shown", and exits.                *)
PrintBatch(a) ==
  /\ wait[a].pc = "print"
  /\ got' = [got EXCEPT ![a] = @ \o Batch(a)]
  /\ hid' = [hid EXCEPT ![a] = @ \cup {log[i].seq : i \in Spared(a)}]
  /\ wait' = [wait EXCEPT ![a] = Off]
  /\ UNCHANGED <<logVars, pres, cursor, hurt>>

(* The waiting process is killed.  Bound: for each participant once with   *)
(* the cursor truncated and once with the batch not printed.               *)
Harm(a) ==
  CASE wait[a].pc = "writing" -> {"replay"}
    [] wait[a].pc = "print"   -> {"lose"}
    [] OTHER                  -> {}

Die(a) ==
  /\ wait[a].pc # "off"
  /\ Harm(a) \cap hurt[a] = {}
  /\ hurt' = [hurt EXCEPT ![a] = @ \cup Harm(a)]
  /\ wait' = [wait EXCEPT ![a] = Off]
  /\ IF app[a].pc = "idle" THEN UNCHANGED logVars ELSE Crash(a)
  /\ UNCHANGED <<pres, cursor, got, hid>>

-----------------------------------------------------------------------------

PosterStep(p) ==
  /\ \/ \E body \in Bodies \ {Joined} : Begin(p, body)
     \/ Crash(p)
  /\ UNCHANGED waitVars

LogStep(p) == (AppendStep(p) \/ GiveUp(p)) /\ UNCHANGED waitVars

Deliver(a) == TruncateCursor(a) \/ WriteCursor(a) \/ PrintBatch(a)

Next ==
  \/ \E p \in Posters : PosterStep(p)
  \/ \E p \in Procs : LogStep(p)
  \/ \E a \in Agents :
       \/ Starts(a)
       \/ Poll(a)
       \/ TimeOut(a)
       \/ Deliver(a)
       \/ Die(a)

Spec == Init /\ [][Next]_vars

(* A waiting process is a loop that sleeps 0.1 s between polls.            *)
FairSpec == Spec /\ \A a \in Agents : WF_vars(Poll(a)) /\ WF_vars(Deliver(a))

-----------------------------------------------------------------------------

TypeOK ==
  /\ LogTypeOK
  /\ pres \in [Agents -> {"absent", "active", "left"}]
  /\ cursor \in [Agents -> Nat]
  /\ wait \in [Agents -> Waits]
  /\ got \in [Agents -> Seq(Nat)]
  /\ hid \in [Agents -> SUBSET Nat]
  /\ hurt \in [Agents -> SUBSET {"lose", "replay"}]

(* A participant whose waiting process never died with a truncated cursor  *)
(* file is handed every record at most once, in the order of the log.      *)
HandedOnceInOrder ==
  \A a \in Agents :
    "replay" \notin hurt[a] =>
      \A m, n \in 1 .. Len(got[a]) : m < n => got[a][m] < got[a][n]

(* The cursor is never past a record of somebody else that was not printed *)
(* for the participant, unless its process died between the write and the  *)
(* print, or a --mention-only call without --context left the record out;  *)
(* and a record that mentions the participant is not left out.             *)
Delivering(a) == wait[a].pc \in {"writing", "print"}

NothingSkipped ==
  \A a \in Agents :
    "lose" \notin hurt[a] /\ ~Delivering(a) =>
      \A i \in 1 .. Len(log) :
        Visible(i) /\ log[i].seq <= cursor[a] /\ ~Own(a, log[i].body)
          => \/ \E n \in 1 .. Len(got[a]) : got[a][n] = log[i].seq
             \/ log[i].seq \in hid[a] /\ ~Mentions(a, log[i].body)

(* A waiting process that has a finished unread record to return, one that *)
(* mentions the participant where it waits for that, returns.              *)
HasUnread(a) ==
  Ready(a, {i \in 1 .. Len(log) :
              Visible(i) /\ log[i].seq > cursor[a] /\ ~Own(a, log[i].body)})

WakesUp ==
  \A a \in Agents :
    (wait[a].pc \in {"first", "poll"} /\ app[a].pc = "idle" /\ HasUnread(a))
      ~> wait[a].pc = "off"

(* The log, the cursor files and the waiting processes are a Room: its     *)
(* posts are the finished records, a participant has been taken past what  *)
(* its cursor says once the batch is printed, has heard what was printed   *)
(* and was spared what --mention-only left out.                            *)
Posts ==
  LET lines == InOrder({i \in 1 .. Len(log) : Visible(i)})
  IN  [n \in DOMAIN lines |-> log[lines[n]].body]

R == INSTANCE Room WITH
       posts <- Posts,
       seen  <- [a \in Agents |-> IF Delivering(a) THEN wait[a].from ELSE cursor[a]],
       heard <- got,
       left <- hid,
       deaths <- [a \in Agents |-> Cardinality(hurt[a])]

ImplementsRoom == R!Spec
=============================================================================

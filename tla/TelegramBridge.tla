--------------------------- MODULE TelegramBridge ---------------------------
(***************************************************************************)
(* agent_peer/telegram_bridge.py: two threads that share a file with the   *)
(* positions they have reached.  One reads the thread from a child, "logs  *)
(* --follow --raw", and sends its records to Telegram; the other polls     *)
(* Telegram and posts what was typed there to the thread.                  *)
(*                                                                         *)
(* A record's place in log is its seq, and its time: the ones up to        *)
(* started are older than the run.  A long message is sent in parts by the *)
(* same calls; here it is one.                                             *)
(***************************************************************************)
EXTENDS Naturals, Sequences, FiniteSets

CONSTANTS Replay,       \* -n of the child on a restart (500)
          Retries,      \* MAX_RETRIES (5)
          None,
          Loads,        \* bound: how many records others post and how many
                        \* messages are typed on the phone
          MaxRuns,      \* bound: starts of the bridge
          MaxDeaths     \* bound: deaths of the child, and failing writes of the file

ASSUME BridgeAssumption ==
  /\ {Replay, Retries} \subseteq Nat \ {0}
  /\ {MaxRuns, MaxDeaths} \subseteq Nat
  /\ Loads \subseteq [posts : Nat, typed : Nat] /\ IsFiniteSet(Loads) /\ Loads # {}
  /\ None \notin Nat

VARIABLES
  log,       \* the thread: who posted each record, a peer or the bridge
  shown,     \* how often each record has appeared on the phone
  typed,     \* how many messages were typed on the phone: update ids 1 .. typed
  first,     \* the first update Telegram still keeps
  posted,    \* how often each update was posted to the thread
  disk,      \* the file: last_seq and offset
  mem,       \* _State._data
  started,   \* the length of the thread when the run began
  out,       \* thread_to_telegram: pc, the record it sends (0 is the note
             \* about skipped ones), the attempts made
  child,     \* the child: alive, has read the thread, the next line the bridge
             \* reads from it, the last one it printed before it died
  poll,      \* telegram_to_thread: pc, its offset, the batch it works through
  runs, deaths,
  named,     \* records and updates that were refused, given up or counted in
             \* a note, and records further back than the child replays
  early,     \* records and updates that count as older than the first run
  doubt,     \* records and updates under way when a run ended, and records
             \* whose attempt failed after they had arrived
  unsaved    \* a run ended with a position that was not in the file

fileVars == <<disk, mem>>
phoneVars == <<shown, typed, first>>
childVars == <<child, deaths>>
history == <<named, early, doubt, unsaved>>
vars == <<log, phoneVars, posted, fileVars, started, out, childVars, poll, runs, history>>

Within(posts, n) == \E load \in Loads : posts <= load.posts /\ n <= load.typed

Seqs == 1 .. Len(log)
Updates == 1 .. typed
Peers == {s \in Seqs : log[s] = "peer"}

Shown == {s \in Seqs : shown[s] > 0}
Posted == {u \in Updates : posted[u] > 0}

Neither == [records |-> {}, updates |-> {}]
With(h, records, updates) ==
  [records |-> h.records \cup records, updates |-> h.updates \cup updates]

Positions == [seq : Seqs \cup {None}, offset : (1 .. typed + 1) \cup {None}]
OutPCs == {"off", "stale", "spawn", "read", "send", "mark"}
PollPCs == {"off", "first", "poll", "relay", "mark"}
NoChild == [alive |-> FALSE, begun |-> FALSE, next |-> 1, last |-> 0]
Off == [pc |-> "off", cur |-> 0, tries |-> 0]
PollOff == [pc |-> "off", offset |-> None, lo |-> 1, hi |-> 0]
On == out.pc # "off" \/ poll.pc # "off"

Init ==
  /\ log = << >>
  /\ shown = << >>
  /\ typed = 0 /\ first = 1
  /\ posted = << >>
  /\ disk = [seq |-> None, offset |-> None] /\ mem = disk
  /\ started = 0
  /\ out = Off /\ child = NoChild /\ poll = PollOff
  /\ runs = 0 /\ deaths = 0
  /\ named = Neither /\ early = Neither /\ doubt = Neither
  /\ unsaved = FALSE

-----------------------------------------------------------------------------
(* The world                                                               *)

Post ==
  /\ Within(Cardinality(Peers) + 1, typed)
  /\ log' = Append(log, "peer") /\ shown' = Append(shown, 0)
  /\ UNCHANGED <<typed, first, posted, fileVars, started, out, childVars, poll, runs, history>>

Type ==
  /\ Within(Cardinality(Peers), typed + 1)
  /\ typed' = typed + 1 /\ posted' = Append(posted, 0)
  /\ UNCHANGED <<log, shown, first, fileVars, started, out, childVars, poll, runs, history>>

-----------------------------------------------------------------------------
(* _State                                                                  *)

(* set: in memory, then the whole file; an error there is ignored.         *)
Set(key, value) ==
  /\ mem' = [mem EXCEPT ![key] = value]
  /\ \/ disk' = mem' /\ UNCHANGED deaths
     \/ disk' = disk /\ deaths < MaxDeaths /\ deaths' = deaths + 1

-----------------------------------------------------------------------------
(* run                                                                     *)

Start ==
  /\ ~On /\ runs < MaxRuns
  /\ runs' = runs + 1
  /\ mem' = disk
  /\ started' = Len(log)
  /\ out' = [Off EXCEPT !.pc = "stale"]
  /\ poll' = [PollOff EXCEPT !.pc = IF disk.offset = None THEN "first" ELSE "poll",
                             !.offset = disk.offset]
  /\ UNCHANGED <<log, phoneVars, posted, disk, childVars, history>>

(* A signal, an error in a worker, a bad token or SIGKILL: the workers are *)
(* daemon threads, they end wherever they are.                             *)
Stop ==
  /\ On
  /\ out' = Off /\ poll' = PollOff /\ child' = NoChild
  /\ doubt' = With(doubt, IF out.pc \in {"send", "mark"} THEN {out.cur} \cap Shown ELSE {},
                          IF poll.pc = "mark" THEN {poll.lo} \cap Posted ELSE {})
  /\ unsaved' = (unsaved \/ mem # disk)
  /\ mem' = disk /\ started' = 0
  /\ UNCHANGED <<log, phoneVars, posted, disk, deaths, runs, named, early>>

-----------------------------------------------------------------------------
(* thread_to_telegram                                                      *)

OutAt(pc) == out.pc = pc
GoOn(pc) == out' = [out EXCEPT !.pc = pc]
Send(s) == out' = [pc |-> "send", cur |-> s, tries |-> 0]

(* _skip_stale_backlog, for any --max-age.                                 *)
SkipStale ==
  /\ OutAt("stale") /\ mem.seq # None
  /\ \E cutoff \in 0 .. started :
       LET stale == mem.seq + 1 .. cutoff IN
       /\ named' = With(named, (Peers \cap stale) \ Shown, {})
       /\ IF stale = {} THEN UNCHANGED <<fileVars, deaths>> ELSE Set("seq", cutoff)
       /\ IF Peers \cap stale # {} THEN Send(0) ELSE GoOn("spawn")
  /\ UNCHANGED <<log, phoneVars, posted, started, child, poll, runs, early, doubt, unsaved>>

NoBacklog ==
  /\ OutAt("stale") /\ mem.seq = None
  /\ GoOn("spawn")
  /\ UNCHANGED <<log, phoneVars, posted, fileVars, started, childVars, poll, runs, history>>

Spawn ==
  /\ OutAt("spawn")
  /\ child' = [NoChild EXCEPT !.alive = TRUE]
  /\ GoOn("read")
  /\ UNCHANGED <<log, phoneVars, posted, fileVars, started, deaths, poll, runs, history>>

(* show_thread_logs: the last lines, 1 on the first run, and then what is  *)
(* appended.  What it has not printed when it dies it might as well have   *)
(* died before.                                                            *)
ChildBegins ==
  LET n == IF mem.seq = None THEN 1 ELSE Replay
      next == IF Len(log) < n THEN 1 ELSE Len(log) + 1 - n
  IN /\ child.alive /\ ~child.begun
     /\ child' = [child EXCEPT !.begun = TRUE, !.next = next]
     /\ named' = IF mem.seq = None THEN named
                 ELSE With(named, (mem.seq + 1 .. next - 1) \ Shown, {})
     /\ UNCHANGED <<log, phoneVars, posted, fileVars, started, out, deaths, poll, runs,
                    early, doubt, unsaved>>

ChildDies ==
  /\ child.alive /\ deaths < MaxDeaths
  /\ deaths' = deaths + 1
  /\ child' = [child EXCEPT !.alive = FALSE, !.last = IF child.begun THEN Len(log) ELSE 0]
  /\ UNCHANGED <<log, phoneVars, posted, fileVars, started, out, poll, runs, history>>

Printed == child.begun /\ child.next <= (IF child.alive THEN Len(log) ELSE child.last)

(* MUTANT of Relayed: off by one, the last record is relayed again.        *)
RelayedBelow(s) == mem.seq # None /\ s < mem.seq

Relayed(s) == mem.seq # None /\ s <= mem.seq
BeforeFirstRun(s) == mem.seq = None /\ s <= started
Relays(s) == s \in Peers

ReadLine ==
  LET s == child.next IN
  /\ OutAt("read") /\ Printed
  /\ child' = [child EXCEPT !.next = s + 1]
  /\ early' = IF mem.seq = None
              THEN With(early, 1 .. (IF BeforeFirstRun(s) THEN s ELSE s - 1), {}) ELSE early
  /\ \/ Relayed(s) /\ UNCHANGED <<out, fileVars, deaths>>
     \/ BeforeFirstRun(s) /\ Set("seq", s) /\ UNCHANGED out
     \/ /\ ~Relayed(s) /\ ~BeforeFirstRun(s)
        /\ IF Relays(s) THEN Send(s) /\ UNCHANGED <<fileVars, deaths>>
           ELSE Set("seq", s) /\ UNCHANGED out
  /\ UNCHANGED <<log, phoneVars, posted, started, poll, runs, named, doubt, unsaved>>

(* MUTANT of ChildEnded: the end of the child is the end of the worker.    *)
ChildEndedAll ==
  /\ OutAt("read") /\ ~child.alive /\ ~Printed
  /\ child' = NoChild
  /\ GoOn("off")
  /\ UNCHANGED <<log, phoneVars, posted, fileVars, started, deaths, poll, runs, history>>

ChildEnded ==
  /\ OutAt("read") /\ ~child.alive /\ ~Printed
  /\ child' = NoChild
  /\ GoOn("spawn")
  /\ UNCHANGED <<log, phoneVars, posted, fileVars, started, deaths, poll, runs, history>>

(* An attempt of _send_one: taken; an error of the network, before or      *)
(* after it was taken; an answer to try again (flood control, or markup    *)
(* that Telegram rejects); or refused.                                     *)
Appears == shown' = IF out.cur = 0 THEN shown ELSE [shown EXCEPT ![out.cur] = @ + 1]
Again == out' = [out EXCEPT !.tries = @ + 1]

Taken ==
  /\ OutAt("send") /\ out.tries < Retries
  /\ Appears /\ GoOn("mark")
  /\ UNCHANGED <<log, typed, first, posted, fileVars, started, childVars, poll, runs, history>>

TakenUnheard ==
  /\ OutAt("send") /\ out.tries < Retries
  /\ Appears /\ Again
  /\ doubt' = With(doubt, {out.cur}, {})
  /\ UNCHANGED <<log, typed, first, posted, fileVars, started, childVars, poll, runs, named,
                 early, unsaved>>

TryAgain ==
  /\ OutAt("send") /\ out.tries < Retries
  /\ Again
  /\ UNCHANGED <<log, phoneVars, posted, fileVars, started, childVars, poll, runs, history>>

(* Refused, or given up after MAX_RETRIES; 401 is a Stop as well.          *)
Refused ==
  /\ OutAt("send")
  /\ GoOn("mark")
  /\ named' = With(named, {out.cur} \ Shown, {})
  /\ UNCHANGED <<log, phoneVars, posted, fileVars, started, childVars, poll, runs,
                 early, doubt, unsaved>>

Mark ==
  /\ OutAt("mark")
  /\ GoOn(IF out.cur = 0 THEN "spawn" ELSE "read")
  /\ IF out.cur = 0 THEN UNCHANGED <<fileVars, deaths>> ELSE Set("seq", out.cur)
  /\ UNCHANGED <<log, phoneVars, posted, started, child, poll, runs, history>>

ThreadToTelegram ==
  \/ SkipStale
  \/ NoBacklog
  \/ Spawn
  \/ ReadLine
  \/ ChildEnded
  \/ Taken
  \/ TakenUnheard
  \/ TryAgain
  \/ Refused
  \/ Mark

-----------------------------------------------------------------------------
(* telegram_to_thread                                                      *)

PollAt(pc) == poll.pc = pc

(* The first run asks for the newest update alone, and so forgets the ones *)
(* before; an error, or none, leaves it without an offset.                 *)
FirstPoll ==
  /\ PollAt("first")
  /\ \/ /\ first <= typed
        /\ first' = typed
        /\ early' = With(early, {}, first .. typed)
        /\ poll' = [poll EXCEPT !.pc = "poll", !.offset = typed + 1]
     \/ /\ poll' = [poll EXCEPT !.pc = "poll"]
        /\ UNCHANGED <<first, early>>
  /\ UNCHANGED <<log, shown, typed, posted, fileVars, started, out, childVars, runs, named,
                 doubt, unsaved>>

(* getUpdates with something to return; an offset confirms what is before. *)
Poll ==
  LET keep == IF poll.offset = None \/ poll.offset < first THEN first ELSE poll.offset IN
  /\ PollAt("poll") /\ keep <= typed
  /\ first' = keep
  /\ poll' = [poll EXCEPT !.pc = "relay", !.lo = keep, !.hi = typed]
  /\ UNCHANGED <<log, shown, typed, posted, fileVars, started, out, childVars, runs, history>>

(* _relay_update: the text becomes a post; or it is a command, or nobody's *)
(* who may write, or the post fails and the phone is told.                 *)
Relay ==
  /\ PollAt("relay")
  /\ poll' = [poll EXCEPT !.pc = "mark"]
  /\ \/ /\ log' = Append(log, "bridge") /\ shown' = Append(shown, 0)
        /\ posted' = [posted EXCEPT ![poll.lo] = @ + 1]
        /\ UNCHANGED named
     \/ named' = With(named, {}, {poll.lo} \ Posted) /\ UNCHANGED <<log, shown, posted>>
  /\ UNCHANGED <<typed, first, fileVars, started, out, childVars, runs, early, doubt, unsaved>>

(* MUTANT of MarkUpdate: the offset is moved once for the whole batch.     *)
MarkBatch ==
  /\ PollAt("mark")
  /\ IF poll.lo = poll.hi THEN Set("offset", poll.hi + 1) ELSE UNCHANGED <<fileVars, deaths>>
  /\ poll' = [poll EXCEPT !.pc = IF poll.lo = poll.hi THEN "poll" ELSE "relay",
                          !.lo = @ + 1, !.offset = poll.lo + 1]
  /\ UNCHANGED <<log, phoneVars, posted, started, out, child, runs, history>>

(* MUTANT of MarkUpdate: the offset passes the whole batch.                *)
MarkHigh ==
  /\ PollAt("mark")
  /\ Set("offset", poll.hi + 1)
  /\ poll' = [poll EXCEPT !.pc = IF poll.lo = poll.hi THEN "poll" ELSE "relay",
                          !.lo = @ + 1, !.offset = poll.lo + 1]
  /\ UNCHANGED <<log, phoneVars, posted, started, out, child, runs, history>>

MarkUpdate ==
  /\ PollAt("mark")
  /\ Set("offset", poll.lo + 1)
  /\ poll' = [poll EXCEPT !.pc = IF poll.lo = poll.hi THEN "poll" ELSE "relay",
                          !.lo = @ + 1, !.offset = poll.lo + 1]
  /\ UNCHANGED <<log, phoneVars, posted, started, out, child, runs, history>>

TelegramToThread ==
  \/ FirstPoll
  \/ Poll
  \/ Relay
  \/ MarkUpdate

-----------------------------------------------------------------------------

Next ==
  \/ Post
  \/ Type
  \/ Start
  \/ Stop
  \/ ChildDies
  \/ ChildBegins
  \/ ThreadToTelegram
  \/ TelegramToThread

Spec == Init /\ [][Next]_vars

(* The two workers and the child go on; Telegram answers in the end.       *)
FairSpec ==
  Spec /\ WF_vars(ThreadToTelegram) /\ WF_vars(ChildBegins) /\ WF_vars(TelegramToThread)

-----------------------------------------------------------------------------

LogOK ==
  /\ log \in Seq({"peer", "bridge"})
  /\ shown \in Seq(Nat) /\ Len(shown) = Len(log)

PhoneOK ==
  /\ typed \in Nat /\ first \in 1 .. typed + 1
  /\ posted \in Seq(Nat) /\ Len(posted) = typed

FileOK == mem \in Positions /\ disk \in Positions /\ deaths \in Nat

OutOK ==
  /\ started \in 0 .. Len(log)
  /\ out \in [pc : OutPCs, cur : 0 .. Len(log), tries : 0 .. Retries]

ChildOK ==
  child \in [alive : BOOLEAN, begun : BOOLEAN, next : 1 .. Len(log) + 1, last : 0 .. Len(log)]

PollOK ==
  /\ poll \in [pc : PollPCs, offset : (1 .. typed + 1) \cup {None},
                lo : 1 .. typed + 1, hi : 0 .. typed]
  /\ poll.pc \in {"relay", "mark"} => poll.lo <= poll.hi

TypeOK == LogOK /\ PhoneOK /\ FileOK /\ OutOK /\ ChildOK /\ PollOK

(* The position passes no record that others posted and no message from    *)
(* the phone but one that was sent, refused, counted in a note (which may  *)
(* be refused itself), taken for older than the first run, or further back *)
(* than a child replays.                                                   *)
NothingSkipped ==
  /\ mem.seq # None =>
       \A s \in Peers : s <= mem.seq /\ shown[s] = 0 => s \in named.records \cup early.records
  /\ mem.offset # None =>
       \A u \in Updates : u < mem.offset /\ posted[u] = 0
         => u \in named.updates \cup early.updates

(* A record appears twice only after an attempt whose answer was lost, or  *)
(* when a run ended between sending it and saving the position; the same   *)
(* for a message from the phone.  A run that ends repeats one of each at   *)
(* most, unless the file could not be written.                             *)
RepeatedOnlyIfCut ==
  /\ \A s \in Seqs : shown[s] > 1 => s \in doubt.records \/ unsaved
  /\ \A u \in Updates : posted[u] > 1 => u \in doubt.updates \/ unsaved

(* Repeats do not add up within a run: it puts each record on the phone at *)
(* most as often as one message is tried, and each message in the thread   *)
(* once, though the child dies and its successor prints the same lines     *)
(* again, the answers are lost and the file cannot be written.             *)
OncePerRun ==
  /\ \A s \in Seqs : shown[s] <= Retries * runs
  /\ \A u \in Updates : posted[u] <= runs

(* Every record and every message is dealt with, or the run ends.          *)
CaughtUp ==
  /\ out.pc = "read" /\ child.begun /\ child.next > Len(log)
  /\ poll.pc = "poll" /\ (IF poll.offset = None THEN first ELSE poll.offset) > typed

Relaying == On ~> ~On \/ CaughtUp
=============================================================================

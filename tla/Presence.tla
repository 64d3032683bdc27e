------------------------------ MODULE Presence ------------------------------
(***************************************************************************)
(* Who is in a thread: the presence file of agent_peer/thread.py, which    *)
(* touch_thread_presence and leave_thread_presence read and rewrite under  *)
(* a lock of its own, the join and leave events they append to the log     *)
(* under the thread's lock, and the processes whose pids it holds: the     *)
(* calls of "agent-peer thread <id>" and its --leave.                      *)
(*                                                                         *)
(* Appending to the log is one step here and a reader has a position in    *)
(* it: ThreadLog and ThreadWait are about how.  The locks are those of     *)
(* Mutex.  A pid is the number of the member's call, and is never reused.  *)
(***************************************************************************)
EXTENDS Naturals, Sequences, FiniteSetsExt

CONSTANTS Members,    \* the participants
          Free,       \* nobody holds the presence lock
          Absent,     \* no entry in the presence file
          MaxCalls,   \* bound: calls of "agent-peer thread" by one member
          MaxLeaves   \* bound: calls of it with --leave by one member

ASSUME PresenceAssumption ==
  /\ {MaxCalls, MaxLeaves} \subseteq Nat
  /\ Free \notin Members \X {"wait", "leave"}
  /\ Absent \notin [pid : Nat, left : BOOLEAN, follow : BOOLEAN]

VARIABLES
  log,       \* the thread: posts, and events of a member
  pres,      \* the presence file, as a reader understands it
  holder,    \* who holds the presence lock
  draft,     \* the presence its holder is about to write
  recent,    \* the members whose last_seen is within ACTIVE_DEAD_GRACE_SECONDS
  wait,      \* each member's "agent-peer thread"
  calls,     \* how many of them there have been
  leave,     \* each member's "agent-peer thread --leave"
  leaves,    \* how many of them there have been
  cursor,    \* how much of the log each member has been handed
  opted,     \* the members whose last update to complete left them following
  crossed,   \* the members that updated their presence twice at the same time,
             \* or had an update or its event given up
  wiped      \* a process died with the presence file truncated

fileVars == <<pres, holder, draft, recent, opted, wiped>>
presVars == <<log, fileVars, wait, calls, leave, leaves, cursor, crossed>>

Entries == [pid : Nat, left : BOOLEAN, follow : BOOLEAN]
Modes == {"arm", "peek"}
WaitPCs == {"off", "dead", "touch", "fill", "event", "first", "poll", "exit"}
LeavePCs == {"off", "mark", "fill", "event"}

Nobody == [m \in Members |-> Absent]
Off == [pc |-> "off", mode |-> "arm", follow |-> FALSE, emit |-> FALSE]
Gone == [pc |-> "off", emit |-> FALSE]

Running(m) == wait[m].pc \notin {"off", "dead"}
IsAlive(m, pid) == Running(m) /\ pid = calls[m]

Event(m, kind) == [by |-> m, kind |-> kind, at |-> {}]
IsEvent(record) == record.kind \in {"join", "leave"}

(* Events come from "system", so that even one's own are unread.           *)
Unread(m) ==
  \E i \in cursor[m] + 1 .. Len(log) : IsEvent(log[i]) \/ log[i].by # m

PresInit ==
  /\ log = <<>>
  /\ pres = Nobody
  /\ holder = Free
  /\ draft = Nobody
  /\ recent = {}
  /\ wait = [m \in Members |-> Off]
  /\ calls = [m \in Members |-> 0]
  /\ leave = [m \in Members |-> Gone]
  /\ leaves = [m \in Members |-> 0]
  /\ cursor = [m \in Members |-> 0]
  /\ opted = {}
  /\ crossed = {}
  /\ wiped = FALSE

-----------------------------------------------------------------------------
(* The presence file: read, truncated and refilled under its lock.  While  *)
(* it is truncated it parses for nobody and counts as empty.               *)

Truncate(by, entries) ==
  /\ holder = Free
  /\ holder' = by
  /\ draft' = entries
  /\ pres' = Nobody
  /\ UNCHANGED wiped

Refill(by) ==
  /\ holder = by
  /\ holder' = Free
  /\ pres' = draft
  /\ draft' = Nobody
  /\ UNCHANGED <<recent, wiped>>

(* A process dies, with the lock or without: the next to want the lock     *)
(* finds a dead owner, and the file as it was left.                        *)
Abandon(by) ==
  /\ IF holder = by
     THEN holder' = Free /\ draft' = Nobody /\ wiped' = TRUE
     ELSE UNCHANGED <<holder, draft, wiped>>
  /\ UNCHANGED <<pres, recent, opted>>

(* A peek counts as left, and without --follow the opt-in is carried over. *)
Entry(m) ==
  [pid    |-> calls[m],
   left   |-> wait[m].mode = "peek",
   follow |-> wait[m].follow \/ (pres[m] # Absent /\ pres[m].follow)]

-----------------------------------------------------------------------------
(* agent-peer thread <id> [--timeout N] [--follow]: one process per member *)

Start(m, mode, follow) ==
  /\ ~Running(m)
  /\ calls[m] < MaxCalls
  /\ calls' = [calls EXCEPT ![m] = @ + 1]
  /\ wait' = [wait EXCEPT ![m] = [pc |-> "touch", mode |-> mode, follow |-> follow,
                                  emit |-> FALSE]]
  /\ crossed' = IF leave[m].pc = "off" THEN crossed ELSE crossed \cup {m}
  /\ UNCHANGED <<log, fileVars, leave, leaves, cursor>>

(* MUTANTS of Touch: without the lock; an arrival is a new name's only.    *)
TouchUnlocked(m) ==
  /\ wait[m].pc = "touch"
  /\ holder' = <<m, "wait">>
  /\ draft' = [pres EXCEPT ![m] = Entry(m)]
  /\ pres' = Nobody
  /\ recent' = recent \cup {m}
  /\ wait' = [wait EXCEPT ![m].pc = "fill"]
  /\ UNCHANGED <<log, calls, leave, leaves, cursor, opted, crossed, wiped>>

TouchNewName(m) ==
  /\ wait[m].pc = "touch"
  /\ Truncate(<<m, "wait">>, [pres EXCEPT ![m] = Entry(m)])
  /\ recent' = recent \cup {m}
  /\ wait' = [wait EXCEPT ![m].pc = "fill",
                          ![m].emit = wait[m].mode = "arm" /\ pres[m] = Absent]
  /\ UNCHANGED <<log, calls, leave, leaves, cursor, opted, crossed>>

(* A member that is not in the file, or has left, arrives, unless this is  *)
(* a peek.                                                                 *)
Touch(m) ==
  /\ wait[m].pc = "touch"
  /\ Truncate(<<m, "wait">>, [pres EXCEPT ![m] = Entry(m)])
  /\ recent' = recent \cup {m}
  /\ wait' = [wait EXCEPT ![m].pc = "fill",
                          ![m].emit = wait[m].mode = "arm" /\ (pres[m] = Absent \/ pres[m].left)]
  /\ UNCHANGED <<log, calls, leave, leaves, cursor, opted, crossed>>

(* The presence lock stays contended for half a second: no update.         *)
SkipTouch(m) ==
  /\ wait[m].pc = "touch"
  /\ holder # Free
  /\ wait' = [wait EXCEPT ![m].pc = "first"]
  /\ crossed' = crossed \cup {m}
  /\ UNCHANGED <<log, fileVars, calls, leave, leaves, cursor>>

Fill(m) ==
  /\ wait[m].pc = "fill"
  /\ Refill(<<m, "wait">>)
  /\ opted' = IF wait[m].follow THEN opted \cup {m} ELSE opted
  /\ wait' = [wait EXCEPT ![m].pc = IF wait[m].emit THEN "event" ELSE "first"]
  /\ UNCHANGED <<log, calls, leave, leaves, cursor, crossed>>

(* The event goes to the log once the presence lock is given back, or is   *)
(* dropped, the thread's lock being contended for two seconds.             *)
Joins(m) ==
  /\ wait[m].pc = "event"
  /\ wait' = [wait EXCEPT ![m].pc = "first"]
  /\ \/ log' = Append(log, Event(m, "join")) /\ UNCHANGED crossed
     \/ crossed' = crossed \cup {m} /\ UNCHANGED log
  /\ UNCHANGED <<fileVars, calls, leave, leaves, cursor>>

(* A poll: the batch is everything unread, and the process exits with it.  *)
Poll(m) ==
  /\ wait[m].pc \in {"first", "poll"}
  /\ IF Unread(m)
     THEN /\ cursor' = [cursor EXCEPT ![m] = Len(log)]
          /\ wait' = [wait EXCEPT ![m].pc = "exit"]
     ELSE /\ wait[m].pc = "first"
          /\ wait' = [wait EXCEPT ![m].pc = "poll"]
          /\ UNCHANGED cursor
  /\ UNCHANGED <<log, fileVars, calls, leave, leaves, crossed>>

Ends(m, how) ==
  /\ wait' = [wait EXCEPT ![m] = [Off EXCEPT !.pc = how]]
  /\ UNCHANGED <<log, calls, leave, leaves, cursor>>

Exit(m) == wait[m].pc = "exit" /\ Ends(m, "off") /\ UNCHANGED <<fileVars, crossed>>

(* A peek's time was up after its last poll, and its process ends.         *)
TimeOut(m) ==
  /\ wait[m].pc = "poll" /\ wait[m].mode = "peek"
  /\ Ends(m, "off")
  /\ UNCHANGED <<fileVars, crossed>>

Killed(m) ==
  /\ Running(m)
  /\ Ends(m, "dead")
  /\ Abandon(<<m, "wait">>)
  /\ crossed' = IF wait[m].pc \in {"fill", "event"} THEN crossed \cup {m} ELSE crossed

(* 30 seconds pass.                                                        *)
Age(m) ==
  /\ m \in recent
  /\ recent' = recent \ {m}
  /\ UNCHANGED <<log, pres, holder, draft, opted, wiped, wait, calls, leave, leaves,
                 cursor, crossed>>

-----------------------------------------------------------------------------
(* agent-peer thread <id> --leave                                          *)

Leave(m) ==
  /\ leave[m].pc = "off"
  /\ leaves[m] < MaxLeaves
  /\ leaves' = [leaves EXCEPT ![m] = @ + 1]
  /\ leave' = [leave EXCEPT ![m].pc = "mark"]
  /\ crossed' = IF wait[m].pc \in {"touch", "fill", "event"} THEN crossed \cup {m} ELSE crossed
  /\ UNCHANGED <<log, fileVars, wait, calls, cursor>>

(* The pid stays that of the member's last call.                           *)
Mark(m) ==
  /\ leave[m].pc = "mark"
  /\ pres[m] # Absent
  /\ Truncate(<<m, "leave">>, [pres EXCEPT ![m].left = TRUE, ![m].follow = FALSE])
  /\ leave' = [leave EXCEPT ![m] = [pc |-> "fill", emit |-> ~pres[m].left]]
  /\ UNCHANGED <<log, recent, opted, wait, calls, leaves, cursor, crossed>>

(* "Nothing to leave": no entry, or no lock within half a second.          *)
NotLeft(m) ==
  /\ leave[m].pc = "mark"
  /\ holder # Free \/ pres[m] = Absent
  /\ leave' = [leave EXCEPT ![m] = Gone]
  /\ UNCHANGED <<log, fileVars, wait, calls, leaves, cursor, crossed>>

FillLeft(m) ==
  /\ leave[m].pc = "fill"
  /\ Refill(<<m, "leave">>)
  /\ opted' = opted \ {m}
  /\ leave' = [leave EXCEPT ![m] = IF leave[m].emit THEN [pc |-> "event", emit |-> TRUE] ELSE Gone]
  /\ UNCHANGED <<log, wait, calls, leaves, cursor, crossed>>

Leaves(m) ==
  /\ leave[m].pc = "event"
  /\ leave' = [leave EXCEPT ![m] = Gone]
  /\ \/ log' = Append(log, Event(m, "leave")) /\ UNCHANGED crossed
     \/ crossed' = crossed \cup {m} /\ UNCHANGED log
  /\ UNCHANGED <<fileVars, wait, calls, leaves, cursor>>

LeaveKilled(m) ==
  /\ leave[m].pc # "off"
  /\ leave' = [leave EXCEPT ![m] = Gone]
  /\ Abandon(<<m, "leave">>)
  /\ crossed' = IF leave[m].pc \in {"fill", "event"} THEN crossed \cup {m} ELSE crossed
  /\ UNCHANGED <<log, wait, calls, leaves, cursor>>

-----------------------------------------------------------------------------

WaitStep(m) ==
  Touch(m) \/ SkipTouch(m) \/ Fill(m) \/ Joins(m) \/ Poll(m) \/ Exit(m)

LeaveStep(m) == Mark(m) \/ NotLeft(m) \/ FillLeft(m) \/ Leaves(m)

PresNext ==
  \E m \in Members :
    \/ \E mode \in Modes, follow \in BOOLEAN : Start(m, mode, follow)
    \/ WaitStep(m)
    \/ TimeOut(m)
    \/ Killed(m)
    \/ Age(m)
    \/ Leave(m)
    \/ LeaveStep(m)
    \/ LeaveKilled(m)

-----------------------------------------------------------------------------

PresTypeOK ==
  /\ pres \in [Members -> Entries \cup {Absent}]
  /\ draft \in [Members -> Entries \cup {Absent}]
  /\ holder \in {Free} \cup (Members \X {"wait", "leave"})
  /\ recent \subseteq Members
  /\ wait \in [Members -> [pc : WaitPCs, mode : Modes, follow : BOOLEAN, emit : BOOLEAN]]
  /\ calls \in [Members -> 0 .. MaxCalls]
  /\ leave \in [Members -> [pc : LeavePCs, emit : BOOLEAN]]
  /\ leaves \in [Members -> 0 .. MaxLeaves]
  /\ cursor \in [Members -> 0 .. Len(log)]
  /\ opted \subseteq Members
  /\ crossed \subseteq Members
  /\ wiped \in BOOLEAN

(* "Standing state: once set, only --leave clears it": whatever the others *)
(* write at the same time, a member's entry says that it follows exactly   *)
(* if the last of its updates to complete left it so, unless a process     *)
(* died with the file truncated.                                           *)
FollowStands ==
  ~wiped /\ holder = Free =>
    \A m \in Members : m \in opted <=> pres[m] # Absent /\ pres[m].follow

(* The room's last word about a member: a member whose last event is that  *)
(* it left is not active, unless its leave and its arrival overlapped or   *)
(* one of them was given up half way.                                      *)
LastEvent(m, kind) ==
  \E i \in 1 .. Len(log) :
    /\ log[i] = Event(m, kind)
    /\ \A j \in i + 1 .. Len(log) : ~(IsEvent(log[j]) /\ log[j].by = m)

Settled(m) == leave[m].pc = "off" /\ wait[m].pc \notin {"touch", "fill", "event"}

LeftMeansLeft ==
  ~wiped /\ holder = Free =>
    \A m \in Members \ crossed :
      Settled(m) =>
        /\ LastEvent(m, "leave") => pres[m] # Absent /\ pres[m].left
        /\ pres[m] # Absent /\ ~pres[m].left => LastEvent(m, "join")
=============================================================================

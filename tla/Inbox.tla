------------------------------- MODULE Inbox -------------------------------
(***************************************************************************)
(* The inbox of one session: agent_peer/inbox.py, the listener's handler   *)
(* threads that append to it (agent_peer/listener.py) and "agent-peer      *)
(* wait" and "inbox --clear" (agent_peer/cli.py).                          *)
(*                                                                         *)
(* Nothing but "wait" against "wait" is locked.  A message is stamped with *)
(* the time first and appended afterwards, and the cursor is a time: a     *)
(* message is unread while its stamp is above the cursor.  Two readings of *)
(* the clock never give the same time, so a stamp names its message.       *)
(***************************************************************************)
EXTENDS Integers, Sequences, FiniteSetsExt, SequencesExt, Ordered

CONSTANTS Handlers,     \* the listener's threads, one per connected sender
          MaxReadings,  \* bound: readings of the clock
          MaxStarts,    \* bound: starts of the listener
          MaxClears     \* bound: runs of "inbox --clear"

ASSUME InboxAssumption == {MaxReadings, MaxStarts, MaxClears} \subseteq Nat

VARIABLES
  clock,     \* the last reading of the clock
  inbox,     \* the session's inbox file: the stamps of its messages
  cursor,    \* the session's cursor file
  listener,  \* the listener's process
  starts,    \* how often it has started
  stamped,   \* the stamp of the message each handler has yet to append
  wait,      \* the "wait" process
  clear,     \* the "inbox --clear" process
  clears,    \* how often it has run
  got,       \* the messages printed by "wait", in order
  made,      \* the time of the cursor file that a "wait" made, having found none
  newest,    \* the latest stamp appended so far
  late,      \* the messages appended after one with a later stamp
  baseline,  \* the last time that a listener or a clear has put in the cursor
  hurt       \* "lose": a "wait" died before its print; "replay": a "wait" read
             \* a truncated cursor, or the cursor was put back

files == <<inbox, cursor>>
listenVars == <<listener, starts, stamped, newest, late>>
clearVars == <<clear, clears>>
waited == <<got, made>>
vars == <<clock, files, listenVars, wait, clearVars, waited, baseline, hurt>>

Missing == -1             \* there is no cursor file
Truncated == 0            \* an empty cursor file reads as time 0
None == 0                 \* no stamp

Now == clock + 1

Reading == clock < MaxReadings /\ clock' = Now

WaitPCs == {"off", "cursor", "making", "timed", "filling", "inbox", "commit", "writing",
            "print"}
Off == [pc |-> "off", from |-> 0, unread |-> <<>>]

Init ==
  /\ clock = 0
  /\ inbox = <<>>
  /\ cursor = Missing
  /\ listener = [pc |-> "down", ts |-> None]
  /\ starts = 0
  /\ stamped = [h \in Handlers |-> None]
  /\ wait = Off
  /\ clear = [pc |-> "off", ts |-> None]
  /\ clears = 0
  /\ got = <<>>
  /\ made = None
  /\ newest = 0
  /\ late = {}
  /\ baseline = 0
  /\ hurt = {}

-----------------------------------------------------------------------------
(* _write_cursor(session, time.time()), of mark_session_start and of       *)
(* clear_inbox, takes the time, truncates the file, and then fills it.     *)
ResetCursor ==
  /\ Reading
  /\ cursor' = Truncated
  /\ baseline' = Now

(* Filling it may take the cursor back behind what a "wait" returned since. *)
FillCursor(ts) ==
  /\ cursor' = ts
  /\ hurt' = IF \E at \in Range(got \o wait.unread) : at > ts
             THEN hurt \cup {"replay"} ELSE hurt

(* The listener                                                            *)

(* setup() has registered the session: it can be waited for.               *)
Register ==
  /\ listener.pc = "down" /\ starts < MaxStarts
  /\ listener' = [listener EXCEPT !.pc = "registered"]
  /\ starts' = starts + 1
  /\ UNCHANGED <<clock, files, stamped, newest, late, wait, clearVars, waited, baseline, hurt>>

MarkTruncate ==
  /\ listener.pc = "registered"
  /\ listener' = [pc |-> "marking", ts |-> Now]
  /\ ResetCursor
  /\ UNCHANGED <<inbox, starts, stamped, newest, late, wait, clearVars, waited, hurt>>

(* accept() starts after setup() returns.                                  *)
MarkWrite ==
  /\ listener.pc = "marking"
  /\ listener' = [pc |-> "up", ts |-> None]
  /\ FillCursor(listener.ts)
  /\ UNCHANGED <<clock, inbox, starts, stamped, newest, late, wait, clearVars, waited, baseline>>

(* append_inbox, called by a handler for a frame, reads received_at ...    *)
Stamp(h) ==
  /\ listener.pc = "up" /\ stamped[h] = None
  /\ Reading
  /\ stamped' = [stamped EXCEPT ![h] = Now]
  /\ UNCHANGED <<files, listener, starts, newest, late, wait, clearVars, waited, baseline, hurt>>

(* ... and appends the record, after the copy in the global inbox.         *)
AppendInbox(h) ==
  /\ stamped[h] # None
  /\ inbox' = Append(inbox, stamped[h])
  /\ newest' = Max({newest, stamped[h]})
  /\ late' = IF stamped[h] < newest THEN late \cup {stamped[h]} ELSE late
  /\ stamped' = [stamped EXCEPT ![h] = None]
  /\ UNCHANGED <<clock, cursor, listener, starts, wait, clearVars, waited, baseline, hurt>>

(* The listener stops or is killed with the frames in its handlers.        *)
Stop ==
  /\ listener.pc # "down"
  /\ listener' = [pc |-> "down", ts |-> None]
  /\ stamped' = [h \in Handlers |-> None]
  /\ UNCHANGED <<clock, files, starts, newest, late, wait, clearVars, waited, baseline, hurt>>

-----------------------------------------------------------------------------
(* agent-peer wait: one process for the session, while it is registered    *)

StartWait ==
  /\ wait.pc = "off" /\ listener.pc # "down"
  /\ wait' = [Off EXCEPT !.pc = "cursor"]
  /\ UNCHANGED <<clock, files, listenVars, clearVars, waited, baseline, hurt>>

FindCursor(from) ==
  /\ wait.pc = "cursor"
  /\ wait' = [wait EXCEPT !.pc = "inbox", !.from = from]
  /\ UNCHANGED <<inbox, listenVars, clearVars, waited, baseline>>

(* MUTANT of ReadCursor: the cursor is always the time of the call.        *)
ReadNow == FindCursor(clock) /\ UNCHANGED <<clock, cursor, hurt>>

ReadCursor ==
  /\ cursor # Missing
  /\ FindCursor(cursor)
  /\ hurt' = IF cursor = Truncated THEN hurt \cup {"replay"} ELSE hurt
  /\ UNCHANGED <<clock, cursor>>

(* _read_cursor finds no file.  It takes the time, and makes the file with *)
(* it, whoever has written one since: it is truncated and then filled.     *)
FindNoCursor ==
  /\ wait.pc = "cursor" /\ cursor = Missing
  /\ wait' = [wait EXCEPT !.pc = "making"]
  /\ UNCHANGED <<clock, files, listenVars, clearVars, waited, baseline, hurt>>

TakeTime ==
  /\ wait.pc = "making"
  /\ Reading
  /\ wait' = [wait EXCEPT !.pc = "timed", !.from = Now]
  /\ UNCHANGED <<files, listenVars, clearVars, waited, baseline, hurt>>

MakeCursor ==
  /\ wait.pc = "timed"
  /\ wait' = [wait EXCEPT !.pc = "filling"]
  /\ cursor' = Truncated
  /\ UNCHANGED <<clock, inbox, listenVars, clearVars, waited, baseline, hurt>>

FillMade ==
  /\ wait.pc = "filling"
  /\ wait' = [wait EXCEPT !.pc = "inbox"]
  /\ cursor' = wait.from
  /\ made' = wait.from
  /\ UNCHANGED <<clock, inbox, listenVars, clearVars, got, baseline, hurt>>

(* The messages at these places of the inbox, in its order.                *)
MessagesAt(places) == [n \in 1 .. Cardinality(places) |-> inbox[InOrder(places)[n]]]

(* MUTANT of Unread: the message at the cursor counts as unread.           *)
UnreadAtCursor == MessagesAt({i \in 1 .. Len(inbox) : inbox[i] >= wait.from})

Unread == MessagesAt({i \in 1 .. Len(inbox) : inbox[i] > wait.from})

(* get_unread reads the inbox after the cursor.                            *)
ReadInbox ==
  /\ wait.pc = "inbox"
  /\ wait' = IF Unread = <<>> THEN [wait EXCEPT !.pc = "cursor"]
             ELSE [wait EXCEPT !.pc = "commit", !.unread = Unread]
  /\ UNCHANGED <<clock, files, listenVars, clearVars, waited, baseline, hurt>>

TimeOut ==
  /\ wait.pc = "cursor"
  /\ wait' = Off
  /\ UNCHANGED <<clock, files, listenVars, clearVars, waited, baseline, hurt>>

TruncateCursor ==
  /\ wait.pc = "commit"
  /\ wait' = [wait EXCEPT !.pc = "writing"]
  /\ cursor' = Truncated
  /\ UNCHANGED <<clock, inbox, listenVars, clearVars, waited, baseline, hurt>>

(* MUTANT of WriteCursor: to the last message of the inbox as it is now.   *)
WriteLatest ==
  /\ wait.pc = "writing"
  /\ wait' = [wait EXCEPT !.pc = "print"]
  /\ cursor' = IF inbox = <<>> THEN Last(wait.unread) ELSE Last(inbox)
  /\ UNCHANGED <<clock, inbox, listenVars, clearVars, waited, baseline, hurt>>

WriteCursor ==
  /\ wait.pc = "writing"
  /\ wait' = [wait EXCEPT !.pc = "print"]
  /\ cursor' = Last(wait.unread)
  /\ UNCHANGED <<clock, inbox, listenVars, clearVars, waited, baseline, hurt>>

(* cmd_wait prints the messages and exits.                                 *)
PrintMessages ==
  /\ wait.pc = "print"
  /\ wait' = Off
  /\ got' = got \o wait.unread
  /\ UNCHANGED <<clock, files, listenVars, clearVars, made, baseline, hurt>>

(* Killed while it makes the cursor or delivers.  Bound: before anything   *)
(* else goes wrong.                                                        *)
Die ==
  /\ wait.pc \in {"filling", "writing", "print"}
  /\ hurt = {}
  /\ wait' = Off
  /\ hurt' = IF wait.pc = "print" THEN hurt \cup {"lose"} ELSE hurt
  /\ UNCHANGED <<clock, files, listenVars, clearVars, waited, baseline>>

-----------------------------------------------------------------------------
(* agent-peer inbox --clear                                                *)

EmptyInbox ==
  /\ clear.pc = "off" /\ clears < MaxClears
  /\ clear' = [clear EXCEPT !.pc = "emptied"]
  /\ clears' = clears + 1
  /\ inbox' = <<>>
  /\ UNCHANGED <<clock, cursor, listenVars, wait, waited, baseline, hurt>>

ClearTruncate ==
  /\ clear.pc = "emptied"
  /\ clear' = [pc |-> "clearing", ts |-> Now]
  /\ ResetCursor
  /\ UNCHANGED <<inbox, listenVars, wait, clears, waited, hurt>>

ClearWrite ==
  /\ clear.pc = "clearing"
  /\ clear' = [pc |-> "off", ts |-> None]
  /\ FillCursor(clear.ts)
  /\ UNCHANGED <<clock, inbox, listenVars, wait, clears, waited, baseline>>

-----------------------------------------------------------------------------

Listening ==
  \/ Register \/ MarkTruncate \/ MarkWrite \/ Stop
  \/ \E h \in Handlers : Stamp(h) \/ AppendInbox(h)

Making == FindNoCursor \/ TakeTime \/ MakeCursor \/ FillMade
Looking == ReadCursor \/ Making \/ ReadInbox
Delivering == TruncateCursor \/ WriteCursor \/ PrintMessages
Waiting == StartWait \/ Looking \/ TimeOut \/ Delivering \/ Die
Clearing == EmptyInbox \/ ClearTruncate \/ ClearWrite

Next == Listening \/ Waiting \/ Clearing

Spec == Init /\ [][Next]_vars

(* A waiting process is a loop that sleeps 0.1 s between polls.            *)
FairSpec == Spec /\ WF_vars(Looking) /\ WF_vars(Delivering)

-----------------------------------------------------------------------------

Stamps == 1 .. MaxReadings

TypeOK ==
  /\ clock \in 0 .. MaxReadings
  /\ inbox \in Seq(Stamps)
  /\ cursor \in {Missing, Truncated} \cup Stamps
  /\ listener \in [pc : {"down", "registered", "marking", "up"}, ts : {None} \cup Stamps]
  /\ starts \in 0 .. MaxStarts
  /\ stamped \in [Handlers -> {None} \cup Stamps]
  /\ wait \in [pc : WaitPCs, from : 0 .. MaxReadings, unread : Seq(Stamps)]
  /\ clear \in [pc : {"off", "emptied", "clearing"}, ts : {None} \cup Stamps]
  /\ clears \in 0 .. MaxClears
  /\ got \in Seq(Stamps)
  /\ made \in 0 .. MaxReadings
  /\ newest \in 0 .. MaxReadings
  /\ late \in SUBSET Stamps
  /\ baseline \in 0 .. MaxReadings
  /\ hurt \in SUBSET {"lose", "replay"}

Printed(at) == \E n \in 1 .. Len(got) : got[n] = at

Passed(at) == at <= cursor /\ wait.pc \notin {"writing", "print"}

(* "Never misses a backlog": the cursor is never past a message that came  *)
(* after the session started or its inbox was cleared and that no "wait"   *)
(* has printed, even if no "wait" died or made the cursor.                 *)
NeverMissesBacklog ==
  hurt = {} /\ made = None =>
    \A i \in 1 .. Len(inbox) :
      inbox[i] > baseline /\ Passed(inbox[i]) => Printed(inbox[i])

(* What is true of it: a message is missed only if its handler appended it *)
(* after one it was stamped before, or a "wait" died before its print, or  *)
(* a "wait" that found no cursor file, before the listener marked its      *)
(* start, made one when the message had been stamped.                      *)
MissedOnlyIfLate ==
  "lose" \notin hurt =>
    \A i \in 1 .. Len(inbox) :
      inbox[i] > baseline /\ inbox[i] > made /\ Passed(inbox[i]) =>
        Printed(inbox[i]) \/ inbox[i] \in late

(* Messages are printed once each, in the order of their stamps, but for   *)
(* those with an older message appended late, and unless a "wait" read a   *)
(* cursor file while it was truncated, or a clear or a start of the        *)
(* listener took the cursor back.                                          *)
RepeatedOnlyIfLate ==
  "replay" \notin hurt =>
    \A m, n \in 1 .. Len(got) :
      m < n /\ got[m] >= got[n] => \E at \in late : at <= got[n]

(* A "wait" that has something to return returns it, or it is cleared or   *)
(* the listener started again.                                             *)
HasUnread == \E i \in 1 .. Len(inbox) : inbox[i] > cursor

WakesUp == (wait.pc \in {"cursor", "inbox"} /\ HasUnread) ~> (wait.pc = "off" \/ ~HasUnread)
=============================================================================

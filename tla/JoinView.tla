------------------------------ MODULE JoinView ------------------------------
(***************************************************************************)
(* agent_peer/join.py with the drawing half of agent_peer/rawline.py: one  *)
(* person's live view of a thread.  The main thread reads keys, posts and  *)
(* prints what it posted; a poller thread prints what others post.  Both   *)
(* draw the composition on one screen, with no lock.                       *)
(*                                                                         *)
(* A post's place in log is its seq.  The screen ends at the row of the    *)
(* cursor; a row is the post printed there or Blank, which also stands for *)
(* a row of the composition.  A printed post takes one row.                *)
(***************************************************************************)
EXTENDS Naturals, Sequences, FiniteSets

CONSTANTS MaxRows,      \* bound: rows of a composition
          Others,       \* bound: posts by others
          MaxOwn,       \* bound: posts by the person
          MaxKeys,      \* bound: keys that change the composition
          MaxPickers,   \* bound: uses of /invite
          MaxFails      \* bound: ticks of the poller that fail

ASSUME JoinAssumption ==
  /\ MaxRows \in Nat \ {0}
  /\ {Others, MaxOwn, MaxKeys, MaxPickers, MaxFails} \subseteq Nat

VARIABLES
  log,       \* the thread: who wrote each post, "me" or "other"
  screen, drawn, rows,  \* the screen; _printed_visual_rows; the rows of the
                        \* composition by now
  under,     \* the screen that curses puts back when its own goes, or << >>
  box,       \* last_seq_box
  main,      \* the main thread: pc, and the post it has appended
  poller,    \* the poller: pc, the next record of its tail, the last of its batch
  paused, stop,         \* the events invite_paused and stop_event
  present,   \* the person counts as a member of the room
  used,      \* keys, pickers and failures so far
  printed,   \* how often each post was printed
  hidden,    \* posts the poller had yet to look at when box was raised past them
  dropped,   \* posts of a batch whose tick failed
  tall,      \* the poller printed or drew beside a composition of several rows
  gone,      \* posts that a picker has taken off the screen
  outlived,  \* the poller was not over when the main thread stopped waiting for it
  unmarked   \* leave_thread_presence returned without having marked the entry

screenVars == <<screen, drawn, under>>
history == <<printed, hidden, dropped, tall, gone, outlived, unmarked>>
vars == <<log, screenVars, rows, box, main, poller, paused, stop, present, used, history>>

Blank == 0
Seqs == 1 .. Len(log)
By(who) == {s \in Seqs : log[s] = who}
Unseen == poller.next .. Len(log)     \* what the poller has yet to look at

DrawPCs == {"draw", "zero", "write", "rows"}
PickPCs == {"picker", "curses", "invited"}
MainPCs == {"begin", "enter", "type", "raise", "wipe", "wiped", "print", "join", "leave",
            "exited"} \cup PickPCs \cup DrawPCs
PollerPCs == {"off", "wait", "judge", "show", "touch"} \cup DrawPCs
InLoop == main.pc \in MainPCs \ {"begin", "enter", "join", "leave", "exited"}

Init ==
  /\ log = << >>
  /\ screen = <<Blank>> /\ drawn = 0 /\ rows = 1 /\ under = << >>
  /\ box = 0
  /\ main = [pc |-> "begin", own |-> 0]
  /\ poller = [pc |-> "off", next |-> 1, hi |-> 0]
  /\ paused = FALSE /\ stop = FALSE /\ present = FALSE
  /\ used = [keys |-> 0, pickers |-> 0, fails |-> 0]
  /\ printed = << >>
  /\ hidden = {} /\ dropped = {}
  /\ tall = FALSE /\ gone = {} /\ outlived = FALSE /\ unmarked = FALSE

Post ==
  /\ Cardinality(By("other")) < Others
  /\ log' = Append(log, "other") /\ printed' = Append(printed, 0)
  /\ UNCHANGED <<screenVars, rows, box, main, poller, paused, stop, present, used, hidden,
                 dropped, tall, gone, outlived, unmarked>>

-----------------------------------------------------------------------------
(* The screen                                                              *)

Count(posts) == printed' = [s \in Seqs |-> printed[s] + (IF s \in posts THEN 1 ELSE 0)]

(* The row of the cursor becomes the post, and the cursor goes below it.   *)
Printed(s) == SubSeq(screen, 1, Len(screen) - 1) \o <<s, Blank>>

(* MUTANT of Above: one row too many is cleared.                           *)
AboveAll(n) ==
  SubSeq(screen, 1, IF n < Len(screen) THEN Len(screen) - 1 - n ELSE 0)

(* The rows that are left when the cursor goes up from n rows to their     *)
(* first and the screen is cleared from there.                             *)
Above(n) ==
  LET up == IF n > 1 THEN n - 1 ELSE 0
  IN SubSeq(screen, 1, IF up < Len(screen) THEN Len(screen) - 1 - up ELSE 0)

(* render, by either thread: clear_rendered_area, then the composition,    *)
(* then _printed_visual_rows.                                              *)
MainAt(pc) == main.pc = pc
PollerAt(pc) == poller.pc = pc
MainGoes(pc) == main' = [main EXCEPT !.pc = pc] /\ UNCHANGED poller
PollerGoes(pc) == poller' = [poller EXCEPT !.pc = pc] /\ UNCHANGED main

Beside == tall' = (tall \/ drawn > 1 \/ rows > 1)

Wipe == screen' = Append(Above(drawn), Blank) /\ UNCHANGED <<drawn, rows, under>>
Forget == drawn' = 0 /\ UNCHANGED <<screen, rows, under>>
Write == screen' = screen \o [i \in 1 .. rows - 1 |-> Blank] /\ UNCHANGED <<drawn, rows, under>>
Remember == drawn' = rows /\ UNCHANGED <<screen, rows, under>>

Redraw(pc) ==
  \/ pc = "draw" /\ Wipe
  \/ pc = "zero" /\ Forget
  \/ pc = "write" /\ Write
  \/ pc = "rows" /\ Remember

AfterDraw(pc, last) ==
  CASE pc = "draw" -> "zero" [] pc = "zero" -> "write" [] pc = "write" -> "rows"
    [] pc = "rows" -> last

MainDraws ==
  /\ main.pc \in DrawPCs
  /\ Redraw(main.pc)
  /\ MainGoes(AfterDraw(main.pc, "type"))
  /\ UNCHANGED <<log, box, paused, stop, present, used, history>>

PollerDraws ==
  /\ poller.pc \in DrawPCs
  /\ Redraw(poller.pc)
  /\ PollerGoes(AfterDraw(poller.pc, "judge"))
  /\ Beside
  /\ UNCHANGED <<log, box, paused, stop, present, used, printed, hidden, dropped,
                 gone, outlived, unmarked>>

-----------------------------------------------------------------------------
(* run_join, the main thread                                               *)

(* The backlog is read and printed.                                        *)
Begin ==
  /\ MainAt("begin")
  /\ screen' = [s \in 1 .. Len(log) |-> s] \o <<Blank>>
  /\ Count(1 .. Len(log))
  /\ main' = [pc |-> "enter", own |-> Len(log)]
  /\ UNCHANGED <<log, drawn, under, rows, box, poller, paused, stop, present, used, hidden,
                 dropped, tall, gone, outlived, unmarked>>

(* MUTANT of Enter: the view counts from the start of the thread.          *)
EnterAtZero ==
  /\ MainAt("enter")
  /\ box' = 0
  /\ present' = TRUE \/ UNCHANGED present
  /\ main' = [pc |-> "draw", own |-> 0]
  /\ poller' = [poller EXCEPT !.pc = "wait"]
  /\ UNCHANGED <<log, screenVars, rows, paused, stop, used, history>>

(* The poller starts; its tail reads the thread from the beginning.  The   *)
(* presence is touched at best: without its lock the touch is left out.    *)
Enter ==
  /\ MainAt("enter")
  /\ box' = main.own
  /\ present' = TRUE \/ UNCHANGED present
  /\ main' = [pc |-> "draw", own |-> 0]
  /\ poller' = [poller EXCEPT !.pc = "wait"]
  /\ UNCHANGED <<log, screenVars, rows, paused, stop, used, history>>

(* A key that edits: the composition may take any number of rows now.      *)
Key ==
  /\ MainAt("type") /\ used.keys < MaxKeys
  /\ used' = [used EXCEPT !.keys = @ + 1]
  /\ rows' \in 1 .. MaxRows
  /\ MainGoes("draw")
  /\ UNCHANGED <<log, screenVars, box, paused, stop, present, history>>

(* Enter on nothing but blanks: read_message starts again.                 *)
Empty ==
  /\ MainAt("type")
  /\ rows' = 1
  /\ MainGoes("draw")
  /\ UNCHANGED <<log, screenVars, box, paused, stop, present, used, history>>

Invite ==
  /\ MainAt("type") /\ used.pickers < MaxPickers
  /\ used' = [used EXCEPT !.pickers = @ + 1]
  /\ paused' = TRUE
  /\ MainGoes("picker")
  /\ UNCHANGED <<log, screenVars, rows, box, stop, present, history>>

(* The picker draws itself on the screen it clears: on Windows, and where  *)
(* the terminal has no second screen, on the only one.                     *)
Cleared == [i \in 1 .. Len(screen) |-> Blank]
RowsOf(scr) == {scr[i] : i \in 1 .. Len(scr)}
Shown == RowsOf(screen) \ {Blank}

PickerDraws ==
  /\ MainAt("picker") \/ MainAt("curses")
  /\ screen' = Cleared /\ gone' = gone \cup Shown
  /\ UNCHANGED <<log, drawn, under, rows, box, main, poller, paused, stop, present, used,
                 printed, hidden, dropped, tall, outlived, unmarked>>

(* Elsewhere curses has a screen of its own; what a poller past its look   *)
(* at invite_paused prints there goes with it.                             *)
OpenCurses ==
  /\ MainAt("picker")
  /\ under' = screen /\ screen' = Cleared
  /\ MainGoes("curses")
  /\ UNCHANGED <<log, drawn, rows, box, paused, stop, present, used, history>>

CloseCurses ==
  /\ MainAt("curses")
  /\ screen' = under /\ under' = << >>
  /\ gone' = gone \cup Shown
  /\ MainGoes("invited")
  /\ UNCHANGED <<log, drawn, rows, box, paused, stop, present, used, printed, hidden, dropped,
                 tall, outlived, unmarked>>

(* MUTANT of Invited: the poller stays paused when nobody is picked.       *)
InvitedNobody ==
  /\ MainAt("picker") \/ MainAt("invited")
  /\ screen' = Append(screen, Blank)
  /\ rows' = 1
  /\ MainGoes("draw")
  /\ UNCHANGED <<log, drawn, under, box, paused, stop, present, used, history>>

(* The picker is over, or had nobody to show.  A line says who was         *)
(* invited; the editor draws, and read_message draws again.                *)
Invited ==
  /\ MainAt("picker") \/ MainAt("invited")
  /\ paused' = FALSE
  /\ screen' = Append(screen, Blank)
  /\ rows' = 1
  /\ MainGoes("draw")
  /\ UNCHANGED <<log, drawn, under, box, stop, present, used, history>>

Send ==
  /\ MainAt("type") /\ Cardinality(By("me")) < MaxOwn
  /\ log' = Append(log, "me") /\ printed' = Append(printed, 0)
  /\ main' = [pc |-> "raise", own |-> Len(log) + 1]
  /\ UNCHANGED <<screenVars, rows, box, poller, paused, stop, present, used, hidden, dropped,
                 tall, gone, outlived, unmarked>>

(* MUTANT of RaiseBox: up to the end of the thread, not to the own post.   *)
RaiseToEnd ==
  /\ MainAt("raise")
  /\ box' = Len(log)
  /\ hidden' = hidden \cup ((Unseen \cap 1 .. main.own) \ By("me"))
  /\ MainGoes("wipe")
  /\ UNCHANGED <<log, screenVars, rows, paused, stop, present, used, printed, dropped, tall,
                 gone, outlived, unmarked>>

RaiseBox ==
  /\ MainAt("raise")
  /\ box' = IF main.own > box THEN main.own ELSE box
  /\ hidden' = hidden \cup ((Unseen \cap 1 .. main.own) \ By("me"))
  /\ MainGoes("wipe")
  /\ UNCHANGED <<log, screenVars, rows, paused, stop, present, used, printed, dropped, tall,
                 gone, outlived, unmarked>>

(* clear_rendered_area, then the own post in its place.                    *)
ClearOwn ==
  /\ \/ MainAt("wipe") /\ Wipe /\ MainGoes("wiped")
     \/ MainAt("wiped") /\ Forget /\ MainGoes("print")
  /\ UNCHANGED <<log, box, paused, stop, present, used, history>>

PrintOwn ==
  /\ MainAt("print")
  /\ screen' = Printed(main.own)
  /\ Count({main.own})
  /\ rows' = 1
  /\ MainGoes("draw")
  /\ UNCHANGED <<log, drawn, under, box, paused, stop, present, used, hidden, dropped, tall,
                 gone, outlived, unmarked>>

(* Ctrl+C, or Ctrl+D on an empty composition, or a post or a picker that   *)
(* raises: what follows is the finally clause of run_join.                 *)
Quit ==
  /\ \/ MainAt("type") /\ UNCHANGED paused
     \/ MainAt("picker") /\ paused' = FALSE
     \/ MainAt("invited") /\ paused' = FALSE
  /\ stop' = TRUE
  /\ MainGoes("join")
  /\ UNCHANGED <<log, screenVars, rows, box, present, used, history>>

(* MUTANT of Joined: the poller is not waited for.                         *)
JoinedNot ==
  /\ MainAt("join")
  /\ MainGoes("leave")
  /\ UNCHANGED <<log, screenVars, rows, box, paused, stop, present, used, history>>

(* The poller is waited for 2 s.                                           *)
Joined ==
  /\ MainAt("join")
  /\ outlived' = (poller.pc # "off")
  /\ MainGoes("leave")
  /\ UNCHANGED <<log, screenVars, rows, box, paused, stop, present, used, printed, hidden,
                 dropped, tall, gone, unmarked>>

(* leave_thread_presence without the lock within 0.5 s, or unable to read  *)
(* the file, marks nothing; run_join does not ask.                         *)
Leave ==
  /\ MainAt("leave")
  /\ \/ present' = FALSE /\ UNCHANGED unmarked
     \/ unmarked' = TRUE /\ UNCHANGED present
  /\ MainGoes("exited")
  /\ UNCHANGED <<log, screenVars, rows, box, paused, stop, used, printed, hidden, dropped,
                 tall, gone, outlived>>

(* The poller is a daemon thread: it ends with the process.                *)
Exit ==
  /\ MainAt("exited") /\ ~PollerAt("off")
  /\ PollerGoes("off")
  /\ UNCHANGED <<log, screenVars, rows, box, paused, stop, present, used, history>>

Main ==
  \/ Begin
  \/ Enter
  \/ Key
  \/ Empty
  \/ Invite
  \/ PickerDraws
  \/ OpenCurses
  \/ CloseCurses
  \/ Invited
  \/ Send
  \/ RaiseBox
  \/ ClearOwn
  \/ PrintOwn
  \/ MainDraws
  \/ Quit
  \/ Joined
  \/ Leave
  \/ Exit

-----------------------------------------------------------------------------
(* _poll_loop                                                              *)

PollerEnds ==
  /\ PollerAt("wait") /\ stop
  /\ PollerGoes("off")
  /\ UNCHANGED <<log, screenVars, rows, box, paused, stop, present, used, history>>

Tick ==
  /\ PollerAt("wait") /\ ~stop /\ ~paused
  /\ poller' = [poller EXCEPT !.pc = "judge", !.hi = Len(log)]
  /\ UNCHANGED <<log, screenVars, rows, box, main, paused, stop, present, used, history>>

(* The next record of the batch: not one up to box, and not one's own.     *)
Judge ==
  LET s == poller.next IN
  /\ PollerAt("judge") /\ s <= poller.hi
  /\ box' = IF s > box THEN s ELSE box
  /\ poller' = [poller EXCEPT !.next = s + 1,
                              !.pc = IF s > box /\ log[s] = "other" THEN "show" ELSE "judge"]
  /\ UNCHANGED <<log, screenVars, rows, main, paused, stop, present, used, history>>

(* _print_live: the row of the cursor is cleared, the post printed.        *)
Show ==
  LET s == poller.next - 1 IN
  /\ PollerAt("show")
  /\ screen' = Printed(s)
  /\ Count({s})
  /\ Beside
  /\ PollerGoes("draw")
  /\ UNCHANGED <<log, drawn, under, rows, box, paused, stop, present, used, hidden, dropped,
                 gone, outlived, unmarked>>

BatchOver ==
  /\ PollerAt("judge") /\ poller.next > poller.hi
  /\ PollerGoes("touch")
  /\ UNCHANGED <<log, screenVars, rows, box, paused, stop, present, used, history>>

Touch ==
  /\ PollerAt("touch")
  /\ present' = TRUE \/ UNCHANGED present
  /\ PollerGoes("wait")
  /\ UNCHANGED <<log, screenVars, rows, box, paused, stop, used, history>>

(* An error while a record is put into words, or in the touch; what the    *)
(* tail has returned is not returned again.                                *)
TickFails ==
  LET rest == poller.next - (IF PollerAt("show") THEN 1 ELSE 0) .. poller.hi IN
  /\ PollerAt("show") \/ PollerAt("touch")
  /\ used.fails < MaxFails
  /\ used' = [used EXCEPT !.fails = @ + 1]
  /\ dropped' = dropped \cup rest
  /\ poller' = [poller EXCEPT !.pc = "wait", !.next = poller.hi + 1]
  /\ UNCHANGED <<log, screenVars, rows, box, main, paused, stop, present, printed, hidden, tall,
                 gone, outlived, unmarked>>

Poller ==
  \/ PollerEnds
  \/ Tick
  \/ Judge
  \/ Show
  \/ PollerDraws
  \/ BatchOver
  \/ Touch
  \/ TickFails

-----------------------------------------------------------------------------

Next ==
  \/ Post
  \/ Main
  \/ Poller

Spec == Init /\ [][Next]_vars

(* The poller goes on; the person need not press a key.                    *)
FairSpec == Spec /\ WF_vars(Poller)

-----------------------------------------------------------------------------

ThreadOK ==
  /\ log \in Seq({"me", "other"}) /\ printed \in Seq(Nat) /\ Len(printed) = Len(log)
  /\ box \in 0 .. Len(log) /\ hidden \cup dropped \subseteq Seqs

MainOK == main \in [pc : MainPCs, own : 0 .. Len(log)]

PollerOK ==
  /\ poller \in [pc : PollerPCs, next : 1 .. Len(log) + 1, hi : 0 .. Len(log)]
  /\ poller.pc \in {"judge", "show", "touch"} \cup DrawPCs => poller.next <= poller.hi + 1

ScreenOK ==
  /\ screen \in Seq({Blank} \cup Seqs) /\ screen # << >> /\ screen[Len(screen)] = Blank
  /\ under \in Seq({Blank} \cup Seqs) /\ gone \subseteq Seqs
  /\ {drawn, rows} \subseteq 0 .. MaxRows

TypeOK == ThreadOK /\ MainOK /\ PollerOK /\ ScreenOK

Passed ==
  IF PollerAt("off") THEN {} ELSE 1 .. poller.next - (IF PollerAt("show") THEN 2 ELSE 1)

(* What others post while the view is open is printed when the poller has  *)
(* passed it (_poll_loop, join.py:158-165).                                *)
OthersShown == \A s \in By("other") \cap Passed : printed[s] > 0

(* It goes unprinted only if the person posted before the poller had       *)
(* looked at it, or if the tick that had read it failed.                   *)
UnshownOnlyIf ==
  \A s \in By("other") \cap Passed : printed[s] = 0 => s \in hidden \cup dropped

(* Neither the backlog, which the tail reads a second time, nor an own     *)
(* post, which it reads too, is printed twice.                             *)
ShownOnce == \A s \in Seqs : printed[s] <= 1

(* A printed post stays on the screen, whatever is drawn after it, until a *)
(* post arrives beside a composition of several rows.  A picker that       *)
(* clears the only screen takes off what is on it then; one on a screen of *)
(* its own takes off only what the poller prints on that.                  *)
StaysOnScreen ==
  ~tall => \A s \in Seqs : printed[s] > 0 => s \in RowsOf(screen) \cup RowsOf(under) \cup gone

(* Who has left is not in the room, unless the poller was stuck for 2 s,   *)
(* or the presence was out of reach when it was to be marked.              *)
LeftMeansLeft == MainAt("exited") /\ present => outlived \/ unmarked

(* What is posted while the view is open is looked at, or the picker comes *)
(* up, or the view is left.                                                *)
LooksAtAll ==
  \A s \in 1 .. Others + MaxOwn :
    s <= Len(log) /\ InLoop ~> poller.next > s \/ main.pc \in PickPCs \/ ~InLoop
=============================================================================

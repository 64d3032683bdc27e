--------------------------- MODULE PresenceProofs ---------------------------
(***************************************************************************)
(* Proofs about the presence file, in Fanout, for any number of members    *)
(* and posters: no update of the file undoes another's, what the file says *)
(* of a member agrees with the member's last event in the room, and no     *)
(* post is pushed to a member whose call was there to read it.             *)
(***************************************************************************)
EXTENDS Fanout, TLAPS

Waits == [pc : WaitPCs, mode : Modes, follow : BOOLEAN, emit : BOOLEAN]
LeaveCalls == [pc : LeavePCs, emit : BOOLEAN]

FileTypeOK ==
  /\ pres \in [Members -> Entries \cup {Absent}]
  /\ draft \in [Members -> Entries \cup {Absent}]
  /\ holder \in {Free} \cup (Members \X {"wait", "leave"})
  /\ wait \in [Members -> Waits]
  /\ calls \in [Members -> Nat]
  /\ leave \in [Members -> LeaveCalls]

(* A process has the presence lock exactly while the file is its to fill.  *)
HolderFills ==
  \A m \in Members :
    /\ holder = <<m, "wait">> <=> wait[m].pc = "fill"
    /\ holder = <<m, "leave">> <=> leave[m].pc = "fill"

Follows(entries, m) == entries[m] # Absent /\ entries[m].follow

(* What the holder is about to write differs from what its members want in *)
(* the holder's own entry only.                                            *)
DraftStands ==
  ~wiped =>
    \A m \in Members :
      /\ holder = <<m, "wait">> =>
           \A n \in Members :
             Follows(draft, n) <=> n \in opted \/ (n = m /\ wait[m].follow)
      /\ holder = <<m, "leave">> =>
           \A n \in Members : Follows(draft, n) <=> n \in opted /\ n # m

Kept == FileTypeOK /\ HolderFills /\ DraftStands /\ FollowStands

KeptVars == <<pres, holder, draft, opted, wiped, wait, calls, leave>>

(* Every other step of Fanout is a step of a member or leaves these alone. *)
LEMMA StepOfPresence ==
  ASSUME [Next]_vars
  PROVE  PresNext \/ UNCHANGED KeptVars
<1>1. ASSUME NEW p \in Posters, NEW record \in Posts, AppendPost(p, record)
      PROVE  UNCHANGED KeptVars
  BY <1>1 DEF AppendPost, fileVars, KeptVars
<1>2. ASSUME NEW p \in Posters, FanoutStep(p)
      PROVE  UNCHANGED KeptVars
  <2>1. CASE Look(p)
    BY <2>1 DEF Look, presVars, fileVars, KeptVars
  <2>2. CASE Finish(p)
    BY <2>2 DEF Finish, presVars, fileVars, KeptVars
  <2>3. ASSUME NEW m \in Members, Judge(p, m)
        PROVE  UNCHANGED KeptVars
    BY <2>3 DEF Judge, presVars, fileVars, KeptVars
  <2>4. ASSUME NEW m \in Members, Deliver(p, m) \/ Hold(p, m)
        PROVE  UNCHANGED KeptVars
    BY <2>4 DEF Deliver, Hold, presVars, fileVars, KeptVars
  <2>5. QED
    BY <1>2, <2>1, <2>2, <2>3, <2>4 DEF FanoutStep
<1>3. ASSUME NEW p \in Posters, PosterKilled(p)
      PROVE  UNCHANGED KeptVars
  BY <1>3 DEF PosterKilled, presVars, fileVars, KeptVars
<1>4. CASE InRoom(PresNext)
  BY <1>4 DEF InRoom
<1>5. CASE UNCHANGED vars
  BY <1>5 DEF vars, presVars, fileVars, KeptVars
<1>6. QED
  BY <1>1, <1>2, <1>3, <1>4, <1>5 DEF Next

LEMMA EntryFollows ==
  ASSUME FileTypeOK, NEW m \in Members
  PROVE  /\ Entry(m) \in Entries /\ Entry(m) # Absent
         /\ Entry(m).follow <=> wait[m].follow \/ Follows(pres, m)
<1>1. Entry(m).follow <=> wait[m].follow \/ Follows(pres, m)
  BY DEF Entry, Follows
<1>2. /\ (wait[m].mode = "peek") \in BOOLEAN
      /\ wait[m].follow \in BOOLEAN /\ calls[m] \in Nat
  BY DEF FileTypeOK, Waits
<1>3. (pres[m] # Absent /\ pres[m].follow) \in BOOLEAN
  BY Zenon
<1>4. Entry(m) \in Entries
  BY <1>2, <1>3 DEF Entry, Entries
<1>5. QED
  BY <1>1, <1>4, PresenceAssumption DEF PresenceAssumption, Entries

-----------------------------------------------------------------------------
(* What the steps have in common                                           *)

(* A step that leaves the file, its lock and those that fill it alone.     *)
LEMMA Beside ==
  ASSUME Kept,
         UNCHANGED <<pres, holder, draft, opted, wiped>>,
         wait' \in [Members -> Waits], calls' \in [Members -> Nat],
         leave' \in [Members -> LeaveCalls],
         \A n \in Members : /\ wait'[n].pc = "fill" <=> wait[n].pc = "fill"
                            /\ wait[n].pc = "fill" => wait'[n].follow = wait[n].follow
                            /\ leave'[n].pc = "fill" <=> leave[n].pc = "fill"
  PROVE  Kept'
<1>1. FileTypeOK'
  BY DEF Kept, FileTypeOK
<1>2. HolderFills'
  BY DEF Kept, HolderFills
<1>3. DraftStands'
  BY DEF Kept, HolderFills, DraftStands, Follows
<1>4. FollowStands'
  BY DEF Kept, FollowStands
<1>5. QED
  BY <1>1, <1>2, <1>3, <1>4 DEF Kept

(* Who a holder is.                                                        *)
LEMMA Holders ==
  ASSUME NEW m \in Members, NEW n \in Members
  PROVE  /\ Free # <<m, "wait">> /\ Free # <<m, "leave">>
         /\ <<m, "wait">> # <<n, "leave">>
         /\ <<m, "wait">> = <<n, "wait">> <=> m = n
         /\ <<m, "leave">> = <<n, "leave">> <=> m = n
BY PresenceAssumption DEF PresenceAssumption

(* A process dies that was or was not filling the file.                    *)
LEMMA WaitDies ==
  ASSUME Kept, NEW m \in Members, Killed(m)
  PROVE  Kept'
<1> DEFINE Dead == [Off EXCEPT !.pc = "dead"]
<1>1. /\ wait' = [wait EXCEPT ![m] = Dead]
      /\ UNCHANGED <<pres, opted, calls, leave>>
  BY DEF Killed, Ends, Abandon
<1>2. Dead \in Waits /\ Dead.pc = "dead"
  BY DEF Off, Waits, WaitPCs, Modes
<1> HIDE DEF Dead
<1>3. wait' \in [Members -> Waits] /\ wait'[m].pc = "dead"
  BY <1>1, <1>2 DEF Kept, FileTypeOK
<1>4. \A n \in Members \ {m} : wait'[n] = wait[n]
  BY <1>1 DEF Kept, FileTypeOK
<1>5. CASE holder = <<m, "wait">>
  <2>1. holder' = Free /\ draft' = Nobody /\ wiped' = TRUE
    BY <1>5 DEF Killed, Abandon
  <2>2. Nobody \in [Members -> Entries \cup {Absent}]
    BY DEF Nobody
  <2>3. FileTypeOK'
    BY <1>1, <1>3, <2>1, <2>2 DEF Kept, FileTypeOK
  <2>4. \A n \in Members : wait'[n].pc # "fill" /\ leave'[n].pc # "fill"
    BY <1>1, <1>3, <1>4, <1>5, Holders DEF Kept, HolderFills
  <2>5. HolderFills'
    BY <2>1, <2>4, Holders DEF HolderFills
  <2>6. QED
    BY <2>1, <2>3, <2>5 DEF Kept, DraftStands, FollowStands
<1>6. CASE holder # <<m, "wait">>
  <2>1. UNCHANGED <<holder, draft, wiped>>
    BY <1>6 DEF Killed, Abandon
  <2>2. wait[m].pc # "fill"
    BY <1>6 DEF Kept, HolderFills
  <2>3. calls' \in [Members -> Nat] /\ leave' \in [Members -> LeaveCalls]
    BY <1>1 DEF Kept, FileTypeOK
  <2>4. QED
    BY <1>1, <1>3, <1>4, <2>1, <2>2, <2>3, Beside
<1>7. QED
  BY <1>5, <1>6

LEMMA LeaveDies ==
  ASSUME Kept, NEW m \in Members, LeaveKilled(m)
  PROVE  Kept'
<1>1. /\ leave' = [leave EXCEPT ![m] = Gone]
      /\ UNCHANGED <<pres, opted, calls, wait>>
  BY DEF LeaveKilled, Abandon
<1>2. leave' \in [Members -> LeaveCalls] /\ leave'[m].pc = "off"
  BY <1>1 DEF Kept, FileTypeOK, LeaveCalls, LeavePCs, Gone
<1>3. \A n \in Members \ {m} : leave'[n] = leave[n]
  BY <1>1 DEF Kept, FileTypeOK
<1>4. CASE holder = <<m, "leave">>
  <2>1. holder' = Free /\ draft' = Nobody /\ wiped' = TRUE
    BY <1>4 DEF LeaveKilled, Abandon
  <2>2. Nobody \in [Members -> Entries \cup {Absent}]
    BY DEF Nobody
  <2>3. FileTypeOK'
    BY <1>1, <1>2, <2>1, <2>2 DEF Kept, FileTypeOK
  <2>4. \A n \in Members : wait'[n].pc # "fill" /\ leave'[n].pc # "fill"
    BY <1>1, <1>2, <1>3, <1>4, Holders DEF Kept, HolderFills
  <2>5. HolderFills'
    BY <2>1, <2>4, Holders DEF HolderFills
  <2>6. QED
    BY <2>1, <2>3, <2>5 DEF Kept, DraftStands, FollowStands
<1>5. CASE holder # <<m, "leave">>
  <2>1. UNCHANGED <<holder, draft, wiped>>
    BY <1>5 DEF LeaveKilled, Abandon
  <2>2. leave[m].pc # "fill"
    BY <1>5 DEF Kept, HolderFills
  <2>3. wait' \in [Members -> Waits] /\ calls' \in [Members -> Nat]
    BY <1>1 DEF Kept, FileTypeOK
  <2>4. QED
    BY <1>1, <1>2, <1>3, <2>1, <2>2, <2>3, Beside
<1>6. QED
  BY <1>4, <1>5

-----------------------------------------------------------------------------
(* The updates of the file                                                 *)

(* The lock is taken and the file truncated: nobody else was filling it,   *)
(* and what will be written is what FollowStands says of the file.         *)
LEMMA TouchKeeps ==
  ASSUME Kept, NEW m \in Members, Touch(m)
  PROVE  Kept'
<1> DEFINE Emit == wait[m].mode = "arm" /\ (pres[m] = Absent \/ pres[m].left)
           Filling == [wait[m] EXCEPT !.pc = "fill", !.emit = Emit]
<1>1. /\ wait[m].pc = "touch" /\ holder = Free /\ holder' = <<m, "wait">>
      /\ draft' = [pres EXCEPT ![m] = Entry(m)] /\ pres' = Nobody
      /\ UNCHANGED <<calls, leave, opted, wiped>>
  BY DEF Touch, Truncate
<1>2. wait' = [wait EXCEPT ![m] = Filling]
  BY DEF Touch, Kept, FileTypeOK, Waits
<1>3. Emit \in BOOLEAN
  <2>1. CASE pres[m] = Absent
    BY <2>1, Zenon DEF Emit
  <2>2. CASE pres[m] # Absent
    BY <2>2 DEF Emit, Kept, FileTypeOK, Entries
  <2>3. QED
    BY <2>1, <2>2
<1> HIDE DEF Emit
<1>4. Filling \in Waits /\ Filling.pc = "fill" /\ Filling.follow = wait[m].follow
  BY <1>3 DEF Kept, FileTypeOK, Waits, WaitPCs
<1> HIDE DEF Filling
<1>5. /\ Entry(m) \in Entries /\ Entry(m) # Absent
      /\ Entry(m).follow <=> wait[m].follow \/ Follows(pres, m)
  BY EntryFollows DEF Kept
<1>6. Nobody \in [Members -> Entries \cup {Absent}]
  BY DEF Nobody
<1>7. FileTypeOK'
  BY <1>1, <1>2, <1>4, <1>5, <1>6 DEF Kept, FileTypeOK
<1>8. \A n \in Members : wait[n].pc # "fill" /\ leave[n].pc # "fill"
  BY <1>1, Holders DEF Kept, HolderFills
<1>9. HolderFills'
  BY <1>1, <1>2, <1>4, <1>8, Holders DEF Kept, FileTypeOK, HolderFills
<1>10. DraftStands'
  <2> SUFFICES ASSUME ~wiped, NEW k \in Members, NEW n \in Members
               PROVE  /\ holder' = <<k, "wait">> =>
                           (Follows(draft', n) <=> n \in opted' \/ (n = k /\ wait'[k].follow))
                      /\ holder' # <<k, "leave">>
    BY <1>1 DEF DraftStands, Follows
  <2>1. holder' # <<k, "leave">>
    BY <1>1, Holders
  <2>2. holder' = <<k, "wait">> => k = m
    BY <1>1, Holders
  <2>3. n \in opted <=> Follows(pres, n)
    BY <1>1 DEF Kept, FollowStands, Follows
  <2>4. CASE n = m
    <3>1. draft'[n] = Entry(m)
      BY <1>1, <2>4 DEF Kept, FileTypeOK
    <3>2. wait'[m].follow = wait[m].follow
      BY <1>2, <1>4 DEF Kept, FileTypeOK
    <3>3. Follows(draft', n) <=> wait[m].follow \/ n \in opted
      BY <1>5, <2>3, <2>4, <3>1 DEF Follows
    <3>4. QED
      BY <1>1, <2>1, <2>2, <2>4, <3>2, <3>3
  <2>5. CASE n # m
    <3>1. draft'[n] = pres[n]
      BY <1>1, <2>5 DEF Kept, FileTypeOK
    <3>2. Follows(draft', n) <=> n \in opted
      BY <2>3, <3>1 DEF Follows
    <3>3. QED
      BY <1>1, <2>1, <2>2, <2>5, <3>2
  <2>6. QED
    BY <2>4, <2>5
<1>11. FollowStands'
  BY <1>1, Holders DEF FollowStands
<1>12. QED
  BY <1>7, <1>9, <1>10, <1>11 DEF Kept

LEMMA MarkKeeps ==
  ASSUME Kept, NEW m \in Members, Mark(m)
  PROVE  Kept'
<1> DEFINE Left == [pres[m] EXCEPT !.left = TRUE, !.follow = FALSE]
           Filling == [pc |-> "fill", emit |-> ~pres[m].left]
<1>1. /\ pres[m] # Absent /\ holder = Free /\ holder' = <<m, "leave">>
      /\ pres' = Nobody
      /\ leave' = [leave EXCEPT ![m] = Filling]
      /\ UNCHANGED <<wait, calls, opted, wiped>>
  BY DEF Mark, Truncate
<1>2. pres[m] \in Entries
  BY <1>1 DEF Kept, FileTypeOK
<1>3. draft' = [pres EXCEPT ![m] = Left]
  BY DEF Mark, Truncate, Kept, FileTypeOK
<1>4. Left \in Entries /\ Left.follow = FALSE
  BY <1>2 DEF Entries
<1>5. Filling \in LeaveCalls /\ Filling.pc = "fill"
  BY <1>2 DEF Entries, LeaveCalls, LeavePCs
<1> HIDE DEF Left, Filling
<1>6. Nobody \in [Members -> Entries \cup {Absent}]
  BY DEF Nobody
<1>7. FileTypeOK'
  BY <1>1, <1>3, <1>4, <1>5, <1>6 DEF Kept, FileTypeOK
<1>8. \A n \in Members : wait[n].pc # "fill" /\ leave[n].pc # "fill"
  BY <1>1, Holders DEF Kept, HolderFills
<1>9. HolderFills'
  BY <1>1, <1>5, <1>8, Holders DEF Kept, FileTypeOK, HolderFills
<1>10. DraftStands'
  <2> SUFFICES ASSUME ~wiped, NEW k \in Members, NEW n \in Members
               PROVE  /\ holder' # <<k, "wait">>
                      /\ holder' = <<k, "leave">> =>
                           (Follows(draft', n) <=> n \in opted' /\ n # k)
    BY <1>1 DEF DraftStands, Follows
  <2>1. holder' # <<k, "wait">>
    BY <1>1, Holders
  <2>2. holder' = <<k, "leave">> => k = m
    BY <1>1, Holders
  <2>3. n \in opted <=> Follows(pres, n)
    BY <1>1 DEF Kept, FollowStands, Follows
  <2>4. CASE n = m
    <3>1. draft'[n] = Left
      BY <1>3, <2>4 DEF Kept, FileTypeOK
    <3>2. ~Follows(draft', n)
      BY <1>4, <3>1 DEF Follows
    <3>3. QED
      BY <2>1, <2>2, <2>4, <3>2
  <2>5. CASE n # m
    <3>1. draft'[n] = pres[n]
      BY <1>3, <2>5 DEF Kept, FileTypeOK
    <3>2. Follows(draft', n) <=> n \in opted
      BY <2>3, <3>1 DEF Follows
    <3>3. QED
      BY <1>1, <2>1, <2>2, <2>5, <3>2
  <2>6. QED
    BY <2>4, <2>5
<1>11. FollowStands'
  BY <1>1, Holders DEF FollowStands
<1>12. QED
  BY <1>7, <1>9, <1>10, <1>11 DEF Kept

(* The file is refilled and the lock given back: DraftStands becomes       *)
(* FollowStands.                                                           *)
LEMMA FillKeeps ==
  ASSUME Kept, NEW m \in Members, Fill(m)
  PROVE  Kept'
<1> DEFINE After == [wait[m] EXCEPT !.pc = IF wait[m].emit THEN "event" ELSE "first"]
<1>1. /\ wait[m].pc = "fill" /\ holder = <<m, "wait">> /\ holder' = Free
      /\ pres' = draft /\ draft' = Nobody
      /\ opted' = IF wait[m].follow THEN opted \cup {m} ELSE opted
      /\ UNCHANGED <<calls, leave, wiped>>
  BY DEF Fill, Refill
<1>2. wait' = [wait EXCEPT ![m] = After]
  BY DEF Fill, Kept, FileTypeOK
<1>3. After \in Waits /\ After.pc # "fill"
  BY DEF Kept, FileTypeOK, Waits, WaitPCs
<1> HIDE DEF After
<1>4. Nobody \in [Members -> Entries \cup {Absent}]
  BY DEF Nobody
<1>5. FileTypeOK'
  BY <1>1, <1>2, <1>3, <1>4 DEF Kept, FileTypeOK
<1>6. \A n \in Members : wait'[n].pc # "fill" /\ leave'[n].pc # "fill"
  BY <1>1, <1>2, <1>3, Holders DEF Kept, FileTypeOK, HolderFills
<1>7. HolderFills'
  BY <1>1, <1>6, Holders DEF HolderFills
<1>8. DraftStands'
  BY <1>1, Holders DEF DraftStands
<1>9. FollowStands'
  BY <1>1 DEF Kept, DraftStands, FollowStands, Follows
<1>10. QED
  BY <1>5, <1>7, <1>8, <1>9 DEF Kept

LEMMA FillLeftKeeps ==
  ASSUME Kept, NEW m \in Members, FillLeft(m)
  PROVE  Kept'
<1> DEFINE After == IF leave[m].emit THEN [pc |-> "event", emit |-> TRUE] ELSE Gone
<1>1. /\ leave[m].pc = "fill" /\ holder = <<m, "leave">> /\ holder' = Free
      /\ pres' = draft /\ draft' = Nobody
      /\ opted' = opted \ {m}
      /\ leave' = [leave EXCEPT ![m] = After]
      /\ UNCHANGED <<calls, wait, wiped>>
  BY DEF FillLeft, Refill
<1>2. After \in LeaveCalls /\ After.pc # "fill"
  BY DEF LeaveCalls, LeavePCs, Gone
<1> HIDE DEF After
<1>3. Nobody \in [Members -> Entries \cup {Absent}]
  BY DEF Nobody
<1>4. FileTypeOK'
  BY <1>1, <1>2, <1>3 DEF Kept, FileTypeOK
<1>5. \A n \in Members : wait'[n].pc # "fill" /\ leave'[n].pc # "fill"
  BY <1>1, <1>2, Holders DEF Kept, FileTypeOK, HolderFills
<1>6. HolderFills'
  BY <1>1, <1>5, Holders DEF HolderFills
<1>7. DraftStands'
  BY <1>1, Holders DEF DraftStands
<1>8. FollowStands'
  BY <1>1 DEF Kept, DraftStands, FollowStands, Follows
<1>9. QED
  BY <1>4, <1>6, <1>7, <1>8 DEF Kept

-----------------------------------------------------------------------------
(* The other steps                                                         *)

LEMMA StartKeeps ==
  ASSUME Kept, NEW m \in Members, NEW mode \in Modes, NEW follow \in BOOLEAN,
         Start(m, mode, follow)
  PROVE  Kept'
<1> DEFINE Starting == [pc |-> "touch", mode |-> mode, follow |-> follow, emit |-> FALSE]
<1>1. /\ wait[m].pc # "fill"
      /\ wait' = [wait EXCEPT ![m] = Starting]
      /\ calls' = [calls EXCEPT ![m] = @ + 1]
      /\ UNCHANGED <<pres, holder, draft, opted, wiped, leave>>
  BY DEF Start, Running, fileVars
<1>2. Starting \in Waits /\ Starting.pc # "fill"
  BY DEF Waits, WaitPCs
<1> HIDE DEF Starting
<1>3. wait' \in [Members -> Waits] /\ calls' \in [Members -> Nat]
  BY <1>1, <1>2 DEF Kept, FileTypeOK
<1>4. leave' \in [Members -> LeaveCalls]
  BY <1>1 DEF Kept, FileTypeOK
<1>5. wait'[m].pc # "fill" /\ \A n \in Members \ {m} : wait'[n] = wait[n]
  BY <1>1, <1>2 DEF Kept, FileTypeOK
<1>6. QED
  BY <1>1, <1>3, <1>4, <1>5, Beside

(* The steps of a call that has no update of the file in progress.         *)
LEMMA WaitGoesOn ==
  ASSUME Kept, NEW m \in Members,
         SkipTouch(m) \/ Joins(m) \/ Poll(m) \/ Exit(m) \/ TimeOut(m)
  PROVE  Kept'
<1>1. /\ wait[m].pc # "fill"
      /\ UNCHANGED <<pres, holder, draft, opted, wiped, calls, leave>>
  BY DEF SkipTouch, Joins, Poll, Exit, TimeOut, Ends, fileVars
<1>2. PICK after \in Waits : after.pc # "fill" /\ wait' = [wait EXCEPT ![m] = after]
  <2>1. wait[m] \in Waits
    BY DEF Kept, FileTypeOK
  <2>2. CASE SkipTouch(m) \/ Joins(m)
    <3>1. wait' = [wait EXCEPT ![m].pc = "first"]
      BY <2>2 DEF SkipTouch, Joins
    <3>2. [wait[m] EXCEPT !.pc = "first"] \in Waits
      BY <2>1 DEF Waits, WaitPCs
    <3>3. [wait[m] EXCEPT !.pc = "first"].pc # "fill"
      BY <2>1 DEF Waits
    <3>4. QED
      BY <3>1, <3>2, <3>3 DEF Kept, FileTypeOK
  <2>3. CASE Poll(m)
    <3>1. PICK pc \in {"exit", "poll"} : wait' = [wait EXCEPT ![m].pc = pc]
      BY <2>3 DEF Poll
    <3>2. [wait[m] EXCEPT !.pc = pc] \in Waits
      BY <2>1 DEF Waits, WaitPCs
    <3>3. [wait[m] EXCEPT !.pc = pc].pc # "fill"
      BY <2>1 DEF Waits
    <3>4. QED
      BY <3>1, <3>2, <3>3 DEF Kept, FileTypeOK
  <2>4. CASE Exit(m) \/ TimeOut(m)
    <3>1. wait' = [wait EXCEPT ![m] = [Off EXCEPT !.pc = "off"]]
      BY <2>4 DEF Exit, TimeOut, Ends
    <3>2. [Off EXCEPT !.pc = "off"] \in Waits
      BY DEF Off, Waits, WaitPCs, Modes
    <3>3. [Off EXCEPT !.pc = "off"].pc # "fill"
      BY DEF Off
    <3>4. QED
      BY <3>1, <3>2, <3>3
  <2>5. QED
    BY <2>2, <2>3, <2>4
<1>3. wait' \in [Members -> Waits]
  BY <1>2 DEF Kept, FileTypeOK
<1>4. calls' \in [Members -> Nat] /\ leave' \in [Members -> LeaveCalls]
  BY <1>1 DEF Kept, FileTypeOK
<1>5. wait'[m].pc # "fill" /\ \A n \in Members \ {m} : wait'[n] = wait[n]
  BY <1>1, <1>2 DEF Kept, FileTypeOK
<1>6. QED
  BY <1>1, <1>3, <1>4, <1>5, Beside

LEMMA LeaveGoesOn ==
  ASSUME Kept, NEW m \in Members, Leave(m) \/ NotLeft(m) \/ Leaves(m)
  PROVE  Kept'
<1>1. /\ leave[m].pc # "fill"
      /\ UNCHANGED <<pres, holder, draft, opted, wiped, calls, wait>>
  BY DEF Leave, NotLeft, Leaves, fileVars
<1>2. PICK after \in LeaveCalls : after.pc # "fill" /\ leave' = [leave EXCEPT ![m] = after]
  <2>1. CASE Leave(m)
    <3>1. leave[m] \in LeaveCalls
      BY DEF Kept, FileTypeOK
    <3>2. [leave[m] EXCEPT !.pc = "mark"] \in LeaveCalls
      BY <3>1 DEF LeaveCalls, LeavePCs
    <3>3. [leave[m] EXCEPT !.pc = "mark"].pc # "fill"
      BY <3>1 DEF LeaveCalls
    <3>4. QED
      BY <2>1, <3>2, <3>3 DEF Leave, Kept, FileTypeOK
  <2>2. CASE NotLeft(m) \/ Leaves(m)
    BY <2>2 DEF NotLeft, Leaves, Gone, LeaveCalls, LeavePCs
  <2>3. QED
    BY <2>1, <2>2
<1>3. leave' \in [Members -> LeaveCalls]
  BY <1>2 DEF Kept, FileTypeOK
<1>4. wait' \in [Members -> Waits] /\ calls' \in [Members -> Nat]
  BY <1>1 DEF Kept, FileTypeOK
<1>5. \A n \in Members : leave'[n].pc = "fill" <=> leave[n].pc = "fill"
  BY <1>1, <1>2 DEF Kept, FileTypeOK
<1>6. QED
  BY <1>1, <1>3, <1>4, <1>5, Beside

LEMMA StutterKeeps ==
  ASSUME Kept, UNCHANGED KeptVars
  PROVE  Kept'
<1>1. /\ UNCHANGED <<pres, holder, draft, opted, wiped>>
      /\ UNCHANGED <<wait, calls, leave>>
  BY DEF KeptVars
<1>2. /\ wait' \in [Members -> Waits] /\ calls' \in [Members -> Nat]
      /\ leave' \in [Members -> LeaveCalls]
  BY <1>1 DEF Kept, FileTypeOK
<1>3. QED
  BY <1>1, <1>2, Beside

-----------------------------------------------------------------------------

LEMMA KeptInit ==
  ASSUME Init
  PROVE  Kept
<1>1. FileTypeOK
  BY DEF Init, PresInit, FileTypeOK, Nobody, Off, Gone, Waits, WaitPCs, Modes, LeaveCalls, LeavePCs
<1>2. HolderFills
  BY Holders DEF Init, PresInit, HolderFills, Off, Gone
<1>3. DraftStands
  BY Holders DEF Init, PresInit, DraftStands
<1>4. FollowStands
  BY DEF Init, PresInit, FollowStands, Nobody
<1>5. QED
  BY <1>1, <1>2, <1>3, <1>4 DEF Kept

LEMMA KeptStep ==
  ASSUME Kept, [Next]_vars
  PROVE  Kept'
<1>1. CASE PresNext
  <2>1. PICK m \in Members :
          \/ \E mode \in Modes, follow \in BOOLEAN : Start(m, mode, follow)
          \/ WaitStep(m) \/ TimeOut(m) \/ Killed(m) \/ Age(m)
          \/ Leave(m) \/ LeaveStep(m) \/ LeaveKilled(m)
    BY <1>1 DEF PresNext
  <2>2. ASSUME NEW mode \in Modes, NEW follow \in BOOLEAN, Start(m, mode, follow)
        PROVE  Kept'
    BY <2>2, StartKeeps
  <2>3. CASE WaitStep(m) \/ TimeOut(m)
    BY <2>3, TouchKeeps, FillKeeps, WaitGoesOn DEF WaitStep
  <2>4. CASE Killed(m) \/ LeaveKilled(m)
    BY <2>4, WaitDies, LeaveDies
  <2>5. CASE Age(m)
    BY <2>5, StutterKeeps DEF Age, KeptVars
  <2>6. CASE Leave(m) \/ LeaveStep(m)
    BY <2>6, MarkKeeps, FillLeftKeeps, LeaveGoesOn DEF LeaveStep
  <2>7. QED
    BY <2>1, <2>2, <2>3, <2>4, <2>5, <2>6
<1>2. CASE UNCHANGED KeptVars
  BY <1>2, StutterKeeps
<1>3. QED
  BY <1>1, <1>2, StepOfPresence

(* Of any number of members that call, peek, leave and are killed while    *)
(* any number of posters read the file: no update of the presence file     *)
(* undoes another's, so that a member's opt-in to follow stands until its  *)
(* own --leave, unless a process died with the file truncated              *)
(* (touch_thread_presence and leave_thread_presence).                      *)
THEOREM FollowKept == Spec => []FollowStands
<1>1. Init => Kept
  BY KeptInit
<1>2. Kept /\ [Next]_vars => Kept'
  BY KeptStep
<1>3. Kept => FollowStands
  BY DEF Kept
<1>4. QED
  BY <1>1, <1>2, <1>3, PTL DEF Spec
-----------------------------------------------------------------------------
(* The file and the room                                                   *)
(*                                                                         *)
(* While an update holds the file truncated, the file is what it is going  *)
(* to be.                                                                  *)
File(m) == IF holder = Free THEN pres[m] ELSE draft[m]
Here(m) == File(m) # Absent /\ ~File(m).left
Away(m) == File(m) # Absent /\ File(m).left

(* The updates whose event the room is still to be told.                   *)
Arriving(m) == wait[m].pc = "event" \/ (wait[m].pc = "fill" /\ wait[m].emit)
Leaving(m) == leave[m].pc = "event" \/ (leave[m].pc = "fill" /\ leave[m].emit)
Updating(m) == wait[m].pc \in {"touch", "fill", "event"}

OneAtATime == \A m \in Members \ crossed : leave[m].pc = "off" \/ ~Updating(m)

(* What the file says of a member is what its last event says, or what the *)
(* event still to come will say.                                           *)
Agrees(m) ==
  /\ Arriving(m) => Here(m)
  /\ Leaving(m) => Away(m)
  /\ ~Arriving(m) /\ ~Leaving(m) =>
       /\ LastEvent(m, "leave") => Away(m)
       /\ Here(m) => LastEvent(m, "join")

Told == ~wiped => \A m \in Members \ crossed : Agrees(m)

Emptied == holder # Free => pres = Nobody

Records == Posts \cup {Event(m, kind) : m \in Members, kind \in {"join", "leave"}}



LEMMA PostsAreNoEvents ==
  /\ \A r \in Posts : ~IsEvent(r)
  /\ \A m \in Members, kind \in {"join", "leave"} :
       /\ Event(m, kind) \in Records /\ IsEvent(Event(m, kind))
       /\ Event(m, kind).by = m /\ Event(m, kind).kind = kind
<1>1. ASSUME NEW r \in Posts
      PROVE  ~IsEvent(r)
  <2>1. r \in [by : Senders, kind : {"plain", "all", "stop"}, at : SUBSET Members]
    BY FanoutAssumption DEF FanoutAssumption
  <2>2. r.kind \in {"plain", "all", "stop"}
    BY <2>1
  <2>3. QED
    BY <2>2 DEF IsEvent
<1>2. ASSUME NEW m \in Members, NEW kind \in {"join", "leave"}
      PROVE  /\ Event(m, kind) \in Records /\ IsEvent(Event(m, kind))
             /\ Event(m, kind).by = m /\ Event(m, kind).kind = kind
  <2>1. Event(m, kind).by = m /\ Event(m, kind).kind = kind
    BY DEF Event
  <2>2. QED
    BY <2>1 DEF IsEvent, Records
<1>3. QED
  BY <1>1, <1>2

(* A record is appended: an event is its member's last, and everything     *)
(* else leaves a member's last event what it was.                          *)
LEMMA LogGrows ==
  ASSUME log \in Seq(Records), NEW r \in Records, log' = Append(log, r)
  PROVE  /\ log' \in Seq(Records)
         /\ \A m \in Members, kind \in {"join", "leave"} :
              /\ r = Event(m, kind) =>
                   \A k \in {"join", "leave"} : LastEvent(m, k)' <=> k = kind
              /\ ~(IsEvent(r) /\ r.by = m) => (LastEvent(m, kind)' <=> LastEvent(m, kind))
<1>1. /\ log' \in Seq(Records) /\ Len(log) \in Nat /\ Len(log') = Len(log) + 1
      /\ \A i \in 1 .. Len(log) : log'[i] = log[i]
      /\ log'[Len(log) + 1] = r
  OBVIOUS
<1>2. ASSUME NEW m \in Members, NEW kind \in {"join", "leave"}, r = Event(m, kind),
             NEW k \in {"join", "leave"}
      PROVE  LastEvent(m, k)' <=> k = kind
  <2>1. IsEvent(r) /\ r.by = m /\ (r = Event(m, k) <=> k = kind)
    BY <1>2, PostsAreNoEvents
  <2>2. CASE k = kind
    <3>1. /\ Len(log) + 1 \in 1 .. Len(log')
          /\ \A j \in Len(log) + 1 + 1 .. Len(log') : FALSE
      BY <1>1
    <3>2. QED
      BY <1>1, <1>2, <2>2, <3>1 DEF LastEvent
  <2>3. CASE k # kind
    <3>1. SUFFICES ASSUME NEW i \in 1 .. Len(log'), log'[i] = Event(m, k),
                          \A j \in i + 1 .. Len(log') : ~(IsEvent(log'[j]) /\ log'[j].by = m)
                   PROVE  FALSE
      BY <2>3 DEF LastEvent
    <3>2. i # Len(log) + 1
      BY <1>1, <2>1, <2>3, <3>1
    <3>3. Len(log) + 1 \in i + 1 .. Len(log')
      BY <1>1, <3>2
    <3>4. QED
      BY <1>1, <2>1, <3>1, <3>3
  <2>4. QED
    BY <2>2, <2>3
<1>3. ASSUME NEW m \in Members, NEW kind \in {"join", "leave"}, ~(IsEvent(r) /\ r.by = m)
      PROVE  LastEvent(m, kind)' <=> LastEvent(m, kind)
  <2>1. r # Event(m, kind)
    BY <1>3, PostsAreNoEvents
  <2>2. ASSUME LastEvent(m, kind)
        PROVE  LastEvent(m, kind)'
    <3>1. PICK i \in 1 .. Len(log) :
            /\ log[i] = Event(m, kind)
            /\ \A j \in i + 1 .. Len(log) : ~(IsEvent(log[j]) /\ log[j].by = m)
      BY <2>2 DEF LastEvent
    <3>2. i \in 1 .. Len(log') /\ log'[i] = Event(m, kind)
      BY <1>1, <3>1
    <3>3. ASSUME NEW j \in i + 1 .. Len(log')
          PROVE  ~(IsEvent(log'[j]) /\ log'[j].by = m)
      <4>1. CASE j = Len(log) + 1
        BY <1>1, <1>3, <4>1
      <4>2. CASE j # Len(log) + 1
        <5>1. j \in 1 .. Len(log) /\ j \in i + 1 .. Len(log)
          BY <1>1, <4>2
        <5>2. QED
          BY <1>1, <3>1, <5>1
      <4>3. QED
        BY <4>1, <4>2
    <3>4. QED
      BY <3>2, <3>3 DEF LastEvent
  <2>3. ASSUME LastEvent(m, kind)'
        PROVE  LastEvent(m, kind)
    <3>1. PICK i \in 1 .. Len(log') :
            /\ log'[i] = Event(m, kind)
            /\ \A j \in i + 1 .. Len(log') : ~(IsEvent(log'[j]) /\ log'[j].by = m)
      BY <2>3 DEF LastEvent
    <3>2. i # Len(log) + 1
      BY <1>1, <2>1, <3>1
    <3>3. i \in 1 .. Len(log) /\ log[i] = Event(m, kind)
      BY <1>1, <3>1, <3>2
    <3>4. ASSUME NEW j \in i + 1 .. Len(log)
          PROVE  ~(IsEvent(log[j]) /\ log[j].by = m)
      <4>1. j \in 1 .. Len(log) /\ j \in i + 1 .. Len(log')
        BY <1>1
      <4>2. QED
        BY <1>1, <3>1, <4>1
    <3>5. QED
      BY <3>3, <3>4 DEF LastEvent
  <2>4. QED
    BY <2>2, <2>3
<1>4. QED
  BY <1>1, <1>2, <1>3

LEMMA SameLog ==
  ASSUME UNCHANGED log, NEW m, NEW kind
  PROVE  LastEvent(m, kind)' <=> LastEvent(m, kind)
BY DEF LastEvent

(* A member that is told of as before agrees as before.                    *)
LEMMA StillAgrees ==
  ASSUME NEW m \in Members, Agrees(m), File(m)' = File(m),
         Arriving(m)' <=> Arriving(m), Leaving(m)' <=> Leaving(m),
         LastEvent(m, "join")' <=> LastEvent(m, "join"),
         LastEvent(m, "leave")' <=> LastEvent(m, "leave")
  PROVE  Agrees(m)'
BY DEF Agrees, Here, Away

(* The step of one member is that member's matter.                         *)
LEMMA OthersAgree ==
  ASSUME OneAtATime, Told, NEW m \in Members,
         crossed \subseteq crossed', wiped => wiped',
         \A n \in Members \ {m} :
           /\ wait'[n] = wait[n] /\ leave'[n] = leave[n]
           /\ ~wiped' => File(n)' = File(n)
           /\ LastEvent(n, "join")' <=> LastEvent(n, "join")
           /\ LastEvent(n, "leave")' <=> LastEvent(n, "leave"),
         m \notin crossed' => leave'[m].pc = "off" \/ ~Updating(m)',
         ~wiped' /\ m \notin crossed' => Agrees(m)'
  PROVE  OneAtATime' /\ Told'
<1>1. OneAtATime'
  BY DEF OneAtATime, Updating
<1>2. ASSUME ~wiped', NEW n \in Members, n \notin crossed'
      PROVE  Agrees(n)'
  <2>1. CASE n = m
    BY <1>2, <2>1
  <2>2. CASE n # m
    <3>1. Agrees(n)
      BY <1>2 DEF Told
    <3>2. (Arriving(n)' <=> Arriving(n)) /\ (Leaving(n)' <=> Leaving(n))
      BY <2>2 DEF Arriving, Leaving
    <3>3. File(n)' = File(n)
      BY <1>2, <2>2
    <3>4. QED
      BY <2>2, <3>1, <3>2, <3>3, StillAgrees
  <2>3. QED
    BY <2>1, <2>2
<1>3. QED
  BY <1>1, <1>2 DEF Told

-----------------------------------------------------------------------------
(* The steps of the members, again: what each makes of the file, of its    *)
(* member's update and of the log.                                         *)

RoomKept == Kept /\ log \in Seq(Records) /\ Emptied /\ OneAtATime /\ Told

(* A step that leaves the file and the log alone, and of the calls of one  *)
(* member no update's event.                                               *)
LEMMA NothingTold ==
  ASSUME RoomKept, NEW m \in Members,
         UNCHANGED <<log, pres, holder, draft, wiped>>, crossed \subseteq crossed',
         \A n \in Members \ {m} : wait'[n] = wait[n] /\ leave'[n] = leave[n],
         m \notin crossed' => leave'[m].pc = "off" \/ ~Updating(m)',
         m \notin crossed' => /\ Arriving(m)' <=> Arriving(m)
                              /\ Leaving(m)' <=> Leaving(m)
  PROVE  log' \in Seq(Records) /\ Emptied' /\ OneAtATime' /\ Told'
<1>1. \A n \in Members : File(n)' = File(n)
  BY DEF File
<1>2. \A n \in Members, k \in {"join", "leave"} : LastEvent(n, k)' <=> LastEvent(n, k)
  BY DEF LastEvent
<1>3. ASSUME ~wiped', m \notin crossed'
      PROVE  Agrees(m)'
  <2>1. Agrees(m)
    BY <1>3 DEF RoomKept, Told
  <2>2. QED
    BY <1>1, <1>2, <1>3, <2>1, StillAgrees
<1>4. OneAtATime' /\ Told'
  BY <1>1, <1>2, <1>3, OthersAgree DEF RoomKept
<1>5. log' \in Seq(Records) /\ Emptied'
  BY DEF RoomKept, Emptied
<1>6. QED
  BY <1>4, <1>5

LEMMA WaitMovesOn ==
  ASSUME RoomKept, NEW m \in Members,
         \/ \E mode \in Modes, follow \in BOOLEAN : Start(m, mode, follow)
         \/ SkipTouch(m) \/ Poll(m) \/ Exit(m) \/ TimeOut(m)
  PROVE  log' \in Seq(Records) /\ Emptied' /\ OneAtATime' /\ Told'
<1>1. /\ UNCHANGED <<log, pres, holder, draft, wiped, leave>>
      /\ crossed \subseteq crossed'
  BY DEF Start, SkipTouch, Poll, Exit, TimeOut, Ends, fileVars
<1> DEFINE Moved ==
             /\ ~Arriving(m) /\ ~Arriving(m)'
             /\ \A n \in Members \ {m} : wait'[n] = wait[n]
             /\ ~Updating(m)' \/ leave[m].pc = "off" \/ m \in crossed'
<1>2. Moved
  <2>1. wait \in [Members -> Waits] /\ wait[m] \in Waits
    BY DEF RoomKept, Kept, FileTypeOK
  <2>2. ASSUME NEW mode \in Modes, NEW follow \in BOOLEAN, Start(m, mode, follow)
        PROVE  Moved
    <3>1. wait' = [wait EXCEPT ![m] = [pc |-> "touch", mode |-> mode, follow |-> follow,
                                       emit |-> FALSE]]
      BY <2>2 DEF Start
    <3>2. wait'[m].pc = "touch" /\ wait[m].pc \in {"off", "dead"}
      BY <2>1, <2>2, <3>1 DEF Start, Running
    <3>3. QED
      BY <2>1, <2>2, <3>1, <3>2 DEF Start, Arriving
  <2>3. CASE SkipTouch(m) \/ Poll(m)
    <3>1. PICK pc \in {"first", "poll", "exit"} : wait' = [wait EXCEPT ![m].pc = pc]
      BY <2>3 DEF SkipTouch, Poll
    <3>2. wait'[m].pc = pc
      BY <2>1, <3>1 DEF Waits
    <3>3. wait[m].pc \in {"touch", "first", "poll"}
      BY <2>3 DEF SkipTouch, Poll
    <3>4. QED
      BY <2>1, <3>1, <3>2, <3>3 DEF Arriving, Updating
  <2>4. CASE Exit(m) \/ TimeOut(m)
    <3>1. wait' = [wait EXCEPT ![m] = [Off EXCEPT !.pc = "off"]]
      BY <2>4 DEF Exit, TimeOut, Ends
    <3>2. wait'[m].pc = "off"
      BY <2>1, <3>1 DEF Off
    <3>3. wait[m].pc \in {"exit", "poll"}
      BY <2>4 DEF Exit, TimeOut
    <3>4. QED
      BY <2>1, <3>1, <3>2, <3>3 DEF Arriving, Updating
  <2>5. QED
    BY <2>2, <2>3, <2>4
<1>3. Leaving(m)' <=> Leaving(m)
  BY <1>1 DEF Leaving
<1>4. m \notin crossed' => leave'[m].pc = "off" \/ ~Updating(m)'
  BY <1>1, <1>2
<1>5. QED
  BY <1>1, <1>2, <1>3, <1>4, NothingTold

(* The last thing a member's call tells the room is that it is there.      *)
LEMMA JoinsTold ==
  ASSUME RoomKept, NEW m \in Members, Joins(m)
  PROVE  log' \in Seq(Records) /\ Emptied' /\ OneAtATime' /\ Told'
<1>1. /\ wait[m].pc = "event" /\ wait' = [wait EXCEPT ![m].pc = "first"]
      /\ UNCHANGED <<pres, holder, draft, wiped, leave>>
      /\ \/ log' = Append(log, Event(m, "join")) /\ crossed' = crossed
         \/ crossed' = crossed \cup {m} /\ log' = log
  BY DEF Joins, fileVars
<1>2. wait'[m].pc = "first" /\ \A n \in Members \ {m} : wait'[n] = wait[n]
  BY <1>1 DEF RoomKept, Kept, FileTypeOK, Waits
<1>3. CASE log' = log /\ crossed' = crossed \cup {m}
  BY <1>1, <1>2, <1>3, NothingTold
<1>4. CASE log' = Append(log, Event(m, "join")) /\ crossed' = crossed
  <2>1. log \in Seq(Records) /\ Event(m, "join") \in Records
    BY PostsAreNoEvents DEF RoomKept
  <2>2. /\ log' \in Seq(Records)
        /\ LastEvent(m, "join")' /\ ~LastEvent(m, "leave")'
    BY <1>4, <2>1, LogGrows
  <2>3. \A n \in Members \ {m}, k \in {"join", "leave"} : LastEvent(n, k)' <=> LastEvent(n, k)
    <3>1. Event(m, "join").by = m
      BY PostsAreNoEvents
    <3>2. QED
      BY <1>4, <2>1, <3>1, LogGrows
  <2>4. \A n \in Members : File(n)' = File(n)
    BY <1>1 DEF File
  <2>5. ~Arriving(m)' /\ ~Updating(m)' /\ Arriving(m)
    BY <1>1, <1>2 DEF Arriving, Updating
  <2>6. ASSUME ~wiped', m \notin crossed'
        PROVE  Agrees(m)'
    <3>1. Here(m) /\ leave[m].pc = "off"
      BY <1>1, <1>4, <2>5, <2>6 DEF RoomKept, Told, Agrees, OneAtATime, Updating
    <3>2. Here(m)' /\ ~Leaving(m)'
      BY <1>1, <2>4, <3>1 DEF Here, Leaving
    <3>3. QED
      BY <2>2, <2>5, <3>2 DEF Agrees
  <2>7. OneAtATime' /\ Told'
    BY <1>1, <1>2, <1>4, <2>3, <2>4, <2>5, <2>6, OthersAgree DEF RoomKept
  <2>8. QED
    BY <1>1, <2>2, <2>7 DEF RoomKept, Emptied
<1>5. QED
  BY <1>1, <1>3, <1>4

LEMMA LeavesTold ==
  ASSUME RoomKept, NEW m \in Members, Leaves(m)
  PROVE  log' \in Seq(Records) /\ Emptied' /\ OneAtATime' /\ Told'
<1>1. /\ leave[m].pc = "event" /\ leave' = [leave EXCEPT ![m] = Gone]
      /\ UNCHANGED <<pres, holder, draft, wiped, wait>>
      /\ \/ log' = Append(log, Event(m, "leave")) /\ crossed' = crossed
         \/ crossed' = crossed \cup {m} /\ log' = log
  BY DEF Leaves, fileVars
<1>2. leave'[m].pc = "off" /\ \A n \in Members \ {m} : leave'[n] = leave[n]
  BY <1>1 DEF RoomKept, Kept, FileTypeOK, LeaveCalls, Gone
<1>3. CASE log' = log /\ crossed' = crossed \cup {m}
  BY <1>1, <1>2, <1>3, NothingTold
<1>4. CASE log' = Append(log, Event(m, "leave")) /\ crossed' = crossed
  <2>1. log \in Seq(Records) /\ Event(m, "leave") \in Records
    BY PostsAreNoEvents DEF RoomKept
  <2>2. /\ log' \in Seq(Records)
        /\ LastEvent(m, "leave")' /\ ~LastEvent(m, "join")'
    BY <1>4, <2>1, LogGrows
  <2>3. \A n \in Members \ {m}, k \in {"join", "leave"} : LastEvent(n, k)' <=> LastEvent(n, k)
    <3>1. Event(m, "leave").by = m
      BY PostsAreNoEvents
    <3>2. QED
      BY <1>4, <2>1, <3>1, LogGrows
  <2>4. \A n \in Members : File(n)' = File(n)
    BY <1>1 DEF File
  <2>5. ~Leaving(m)' /\ Leaving(m)
    BY <1>1, <1>2 DEF Leaving
  <2>6. ASSUME ~wiped', m \notin crossed'
        PROVE  Agrees(m)'
    <3>1. Away(m) /\ ~Updating(m)
      BY <1>1, <1>4, <2>5, <2>6 DEF RoomKept, Told, Agrees, OneAtATime, Updating
    <3>2. Away(m)' /\ ~Here(m)' /\ ~Arriving(m)'
      BY <1>1, <2>4, <3>1 DEF Away, Here, Arriving, Updating
    <3>3. QED
      BY <2>2, <2>5, <3>2 DEF Agrees
  <2>7. OneAtATime' /\ Told'
    BY <1>1, <1>2, <1>4, <2>3, <2>4, <2>6, OthersAgree DEF RoomKept
  <2>8. QED
    BY <1>1, <2>2, <2>7 DEF RoomKept, Emptied
<1>5. QED
  BY <1>1, <1>3, <1>4

LEMMA LeaveMovesOn ==
  ASSUME RoomKept, NEW m \in Members, Leave(m) \/ NotLeft(m)
  PROVE  log' \in Seq(Records) /\ Emptied' /\ OneAtATime' /\ Told'
<1>1. /\ UNCHANGED <<log, pres, holder, draft, wiped, wait>>
      /\ crossed \subseteq crossed'
  BY DEF Leave, NotLeft, fileVars
<1>2. /\ leave[m].pc \in {"off", "mark"} /\ leave'[m].pc \in {"off", "mark"}
      /\ \A n \in Members \ {m} : leave'[n] = leave[n]
  BY DEF Leave, NotLeft, Gone, RoomKept, Kept, FileTypeOK, LeaveCalls
<1>3. m \notin crossed' => leave'[m].pc = "off" \/ ~Updating(m)'
  <2>1. CASE Leave(m)
    BY <1>1, <2>1 DEF Leave, Updating
  <2>2. CASE NotLeft(m)
    BY <2>2 DEF NotLeft, Gone, RoomKept, Kept, FileTypeOK
  <2>3. QED
    BY <2>1, <2>2
<1>4. (Arriving(m)' <=> Arriving(m)) /\ (Leaving(m)' <=> Leaving(m))
  BY <1>1, <1>2 DEF Arriving, Leaving
<1>5. QED
  BY <1>1, <1>2, <1>3, <1>4, NothingTold

(* A process that dies takes with it the event it had still to tell of.    *)
LEMMA DeathTold ==
  ASSUME RoomKept, NEW m \in Members, Killed(m) \/ LeaveKilled(m)
  PROVE  log' \in Seq(Records) /\ Emptied' /\ OneAtATime' /\ Told'
<1>1. /\ UNCHANGED <<log, pres>> /\ crossed \subseteq crossed'
      /\ \/ holder' = Free /\ wiped' = TRUE
         \/ UNCHANGED <<holder, draft, wiped>>
  BY DEF Killed, LeaveKilled, Ends, Abandon
<1>2. /\ \A n \in Members \ {m} : wait'[n] = wait[n] /\ leave'[n] = leave[n]
      /\ Updating(m)' => Updating(m)
      /\ leave[m].pc = "off" => leave'[m].pc = "off"
      /\ m \notin crossed' => /\ Arriving(m)' <=> Arriving(m)
                              /\ Leaving(m)' <=> Leaving(m)
  <2>1. wait \in [Members -> Waits] /\ leave \in [Members -> LeaveCalls]
    BY DEF RoomKept, Kept, FileTypeOK
  <2>2. CASE Killed(m)
    <3>1. wait' = [wait EXCEPT ![m] = [Off EXCEPT !.pc = "dead"]] /\ leave' = leave
      BY <2>2 DEF Killed, Ends
    <3>2. wait'[m].pc = "dead" /\ \A n \in Members \ {m} : wait'[n] = wait[n]
      BY <2>1, <3>1 DEF Off
    <3>3. m \notin crossed' => wait[m].pc \notin {"fill", "event"}
      BY <2>2 DEF Killed
    <3>4. QED
      BY <3>1, <3>2, <3>3 DEF Updating, Arriving, Leaving
  <2>3. CASE LeaveKilled(m)
    <3>1. leave' = [leave EXCEPT ![m] = Gone] /\ wait' = wait
      BY <2>3 DEF LeaveKilled
    <3>2. leave'[m].pc = "off" /\ \A n \in Members \ {m} : leave'[n] = leave[n]
      BY <2>1, <3>1 DEF Gone
    <3>3. m \notin crossed' => leave[m].pc \notin {"fill", "event"}
      BY <2>3 DEF LeaveKilled
    <3>4. QED
      BY <3>1, <3>2, <3>3 DEF Updating, Arriving, Leaving
  <2>4. QED
    BY <2>2, <2>3
<1>3. m \notin crossed' => leave'[m].pc = "off" \/ ~Updating(m)'
  BY <1>1, <1>2 DEF RoomKept, OneAtATime
<1>4. CASE holder' = Free /\ wiped' = TRUE
  BY <1>1, <1>2, <1>3, <1>4, OthersAgree, SameLog DEF RoomKept, Emptied
<1>5. CASE UNCHANGED <<holder, draft, wiped>>
  BY <1>1, <1>2, <1>3, <1>5, NothingTold
<1>6. QED
  BY <1>1, <1>4, <1>5

(* The file is truncated: what is going to be written has the holder's own *)
(* new entry, and everybody else's as it was.                              *)
LEMMA Truncated ==
  ASSUME RoomKept, NEW m \in Members, NEW entry \in Entries, NEW by,
         by \in {<<m, "wait">>, <<m, "leave">>},
         Truncate(by, [pres EXCEPT ![m] = entry])
  PROVE  /\ Emptied' /\ UNCHANGED wiped
         /\ File(m) = pres[m] /\ File(m)' = entry
         /\ \A n \in Members \ {m} : File(n)' = File(n)
<1>1. /\ holder = Free /\ holder' # Free /\ pres' = Nobody /\ wiped' = wiped
      /\ draft' = [pres EXCEPT ![m] = entry]
  BY Holders DEF Truncate
<1>2. pres \in [Members -> Entries \cup {Absent}]
  BY DEF RoomKept, Kept, FileTypeOK
<1>3. draft'[m] = entry /\ \A n \in Members \ {m} : draft'[n] = pres[n]
  BY <1>1, <1>2
<1>4. QED
  BY <1>1, <1>3 DEF File, Emptied

LEMMA TouchTold ==
  ASSUME RoomKept, NEW m \in Members, Touch(m)
  PROVE  log' \in Seq(Records) /\ Emptied' /\ OneAtATime' /\ Told'
<1> DEFINE Emit == wait[m].mode = "arm" /\ (pres[m] = Absent \/ pres[m].left)
           Filling == [wait[m] EXCEPT !.pc = "fill", !.emit = Emit]
<1>1. /\ wait[m].pc = "touch"
      /\ Truncate(<<m, "wait">>, [pres EXCEPT ![m] = Entry(m)])
      /\ UNCHANGED <<log, leave, crossed>>
  BY DEF Touch
<1>2. /\ wait' = [wait EXCEPT ![m] = Filling]
      /\ wait[m] \in Waits
  BY DEF Touch, RoomKept, Kept, FileTypeOK, Waits
<1>3. Filling.pc = "fill" /\ (Filling.emit <=> Emit)
  <2>1. Filling.pc = "fill" /\ Filling.emit = Emit
    BY <1>2 DEF Waits
  <2>2. QED
    BY <2>1, Zenon
<1> HIDE DEF Filling
<1>4. /\ wait'[m].pc = "fill" /\ (wait'[m].emit <=> Emit)
      /\ \A n \in Members \ {m} : wait'[n] = wait[n]
  BY <1>2, <1>3 DEF RoomKept, Kept, FileTypeOK
<1>5. Entry(m) \in Entries /\ Entry(m) # Absent
  BY EntryFollows DEF RoomKept, Kept
<1>6. Entry(m).left <=> wait[m].mode = "peek"
  <2>1. Entry(m).left = (wait[m].mode = "peek")
    BY DEF Entry
  <2>2. QED
    BY <2>1, Zenon
<1>7. /\ Emptied' /\ UNCHANGED wiped
      /\ File(m) = pres[m] /\ File(m)' = Entry(m)
      /\ \A n \in Members \ {m} : File(n)' = File(n)
  BY <1>1, <1>5, Truncated
<1>8. \A n \in Members, k \in {"join", "leave"} : LastEvent(n, k)' <=> LastEvent(n, k)
  BY <1>1 DEF LastEvent
<1>9. m \notin crossed' => leave[m].pc = "off" /\ leave'[m].pc = "off"
  BY <1>1 DEF RoomKept, OneAtATime, Updating
<1>10. ASSUME ~wiped', m \notin crossed'
       PROVE  Agrees(m)'
  <2>1. ~Arriving(m) /\ ~Leaving(m) /\ ~Leaving(m)' /\ (Arriving(m)' <=> Emit)
    BY <1>1, <1>4, <1>9, <1>10 DEF Arriving, Leaving
  <2>2. /\ LastEvent(m, "leave") => Away(m)
        /\ Here(m) => LastEvent(m, "join")
    BY <1>1, <1>7, <1>10, <2>1 DEF RoomKept, Told, Agrees
  <2>3. (Here(m)' <=> wait[m].mode # "peek") /\ (Away(m)' <=> wait[m].mode = "peek")
    BY <1>5, <1>6, <1>7 DEF Here, Away
  <2>4. wait[m].mode \in {"arm", "peek"}
    BY <1>2 DEF Waits, Modes
  <2>5. CASE wait[m].mode = "peek"
    BY <1>8, <2>1, <2>3, <2>5 DEF Agrees
  <2>6. CASE wait[m].mode = "arm" /\ Emit
    BY <2>1, <2>3, <2>6 DEF Agrees
  <2>7. CASE wait[m].mode = "arm" /\ ~Emit
    <3>1. Here(m) /\ ~Away(m)
      BY <1>7, <2>7 DEF Here, Away
    <3>2. QED
      BY <1>8, <2>1, <2>2, <2>3, <2>7, <3>1 DEF Agrees
  <2>8. QED
    BY <2>4, <2>5, <2>6, <2>7
<1>11. OneAtATime' /\ Told'
  <2>1. \A n \in Members \ {m} : leave'[n] = leave[n]
    BY <1>1
  <2>2. crossed \subseteq crossed' /\ (wiped => wiped')
    BY <1>1, <1>7
  <2>3. QED
    BY <1>4, <1>7, <1>8, <1>9, <1>10, <2>1, <2>2, OthersAgree DEF RoomKept
<1>12. QED
  BY <1>1, <1>7, <1>11 DEF RoomKept

LEMMA MarkTold ==
  ASSUME RoomKept, NEW m \in Members, Mark(m)
  PROVE  log' \in Seq(Records) /\ Emptied' /\ OneAtATime' /\ Told'
<1> DEFINE Left == [pres[m] EXCEPT !.left = TRUE, !.follow = FALSE]
<1>1. /\ leave[m].pc = "mark" /\ pres[m] # Absent
      /\ leave' = [leave EXCEPT ![m] = [pc |-> "fill", emit |-> ~pres[m].left]]
      /\ UNCHANGED <<log, wait, crossed>>
  BY DEF Mark
<1>2. pres[m] \in Entries
  BY <1>1 DEF RoomKept, Kept, FileTypeOK
<1>3. Truncate(<<m, "leave">>, [pres EXCEPT ![m] = Left])
  BY DEF Mark, Truncate, RoomKept, Kept, FileTypeOK
<1>4. Left \in Entries /\ Left.left /\ Left # Absent
  <2>1. Left \in Entries /\ Left.left = TRUE
    BY <1>2 DEF Entries
  <2>2. QED
    BY <2>1, PresenceAssumption DEF PresenceAssumption, Entries
<1> HIDE DEF Left
<1>5. /\ Emptied' /\ UNCHANGED wiped
      /\ File(m) = pres[m] /\ File(m)' = Left
      /\ \A n \in Members \ {m} : File(n)' = File(n)
  BY <1>3, <1>4, Truncated
<1>6. /\ leave'[m].pc = "fill" /\ (leave'[m].emit <=> ~pres[m].left)
      /\ \A n \in Members \ {m} : leave'[n] = leave[n]
  BY <1>1 DEF RoomKept, Kept, FileTypeOK
<1>7. \A n \in Members, k \in {"join", "leave"} : LastEvent(n, k)' <=> LastEvent(n, k)
  BY <1>1 DEF LastEvent
<1>8. m \notin crossed' => ~Updating(m) /\ ~Updating(m)'
  BY <1>1 DEF RoomKept, OneAtATime, Updating
<1>9. ASSUME ~wiped', m \notin crossed'
      PROVE  Agrees(m)'
  <2>1. ~Arriving(m) /\ ~Leaving(m) /\ ~Arriving(m)' /\ (Leaving(m)' <=> ~pres[m].left)
    BY <1>1, <1>6, <1>8, <1>9 DEF Arriving, Leaving, Updating
  <2>2. Away(m)' /\ ~Here(m)'
    BY <1>4, <1>5 DEF Away, Here
  <2>3. QED
    BY <2>1, <2>2 DEF Agrees
<1>10. OneAtATime' /\ Told'
  <2>1. \A n \in Members \ {m} : wait'[n] = wait[n]
    BY <1>1
  <2>2. crossed \subseteq crossed' /\ (wiped => wiped')
    BY <1>1, <1>5
  <2>3. QED
    BY <1>5, <1>6, <1>7, <1>8, <1>9, <2>1, <2>2, OthersAgree DEF RoomKept
<1>11. QED
  BY <1>1, <1>5, <1>10 DEF RoomKept

(* The file is refilled: it is what it was going to be.                    *)
LEMMA FillTold ==
  ASSUME RoomKept, NEW m \in Members, Fill(m) \/ FillLeft(m)
  PROVE  log' \in Seq(Records) /\ Emptied' /\ OneAtATime' /\ Told'
<1>1. /\ holder \in {<<m, "wait">>, <<m, "leave">>} /\ holder' = Free /\ pres' = draft
      /\ UNCHANGED <<log, crossed, wiped>>
  BY DEF Fill, FillLeft, Refill
<1>2. \A n \in Members : File(n)' = File(n)
  BY <1>1, Holders DEF File
<1>3. /\ \A n \in Members \ {m} : wait'[n] = wait[n] /\ leave'[n] = leave[n]
      /\ Updating(m)' => Updating(m)
      /\ leave[m].pc = "off" => leave'[m].pc = "off"
      /\ Arriving(m)' <=> Arriving(m)
      /\ Leaving(m)' <=> Leaving(m)
  <2>1. wait \in [Members -> Waits] /\ leave \in [Members -> LeaveCalls]
    BY DEF RoomKept, Kept, FileTypeOK
  <2>2. CASE Fill(m)
    <3>1. /\ wait[m].pc = "fill" /\ leave' = leave
          /\ wait' = [wait EXCEPT ![m].pc = IF wait[m].emit THEN "event" ELSE "first"]
      BY <2>2 DEF Fill
    <3>2. /\ wait'[m].pc = IF wait[m].emit THEN "event" ELSE "first"
          /\ \A n \in Members \ {m} : wait'[n] = wait[n]
      BY <2>1, <3>1 DEF Waits
    <3>3. QED
      BY <3>1, <3>2 DEF Updating, Arriving, Leaving
  <2>3. CASE FillLeft(m)
    <3>1. /\ leave[m].pc = "fill" /\ wait' = wait
          /\ leave' = [leave EXCEPT ![m] = IF leave[m].emit THEN [pc |-> "event", emit |-> TRUE] ELSE Gone]
      BY <2>3 DEF FillLeft
    <3>2. /\ leave'[m].pc = IF leave[m].emit THEN "event" ELSE "off"
          /\ \A n \in Members \ {m} : leave'[n] = leave[n]
      BY <2>1, <3>1 DEF Gone
    <3>3. QED
      BY <3>1, <3>2 DEF Updating, Arriving, Leaving
  <2>4. QED
    BY <2>2, <2>3
<1>4. m \notin crossed' => leave'[m].pc = "off" \/ ~Updating(m)'
  BY <1>1, <1>3 DEF RoomKept, OneAtATime
<1>5. \A n \in Members, k \in {"join", "leave"} : LastEvent(n, k)' <=> LastEvent(n, k)
  BY <1>1 DEF LastEvent
<1>6. ASSUME ~wiped', m \notin crossed'
      PROVE  Agrees(m)'
  <2>1. Agrees(m)
    BY <1>1, <1>6 DEF RoomKept, Told
  <2>2. QED
    BY <1>2, <1>3, <1>5, <2>1, StillAgrees
<1>7. OneAtATime' /\ Told'
  <2>1. crossed \subseteq crossed' /\ (wiped => wiped')
    BY <1>1
  <2>2. QED
    BY <1>2, <1>3, <1>4, <1>5, <1>6, <2>1, OthersAgree DEF RoomKept
<1>8. QED
  BY <1>1, <1>7 DEF RoomKept, Emptied

(* A post is appended; it is no event.                                     *)
LEMMA PostTold ==
  ASSUME RoomKept, NEW r \in Posts, log' = Append(log, r),
         UNCHANGED <<pres, holder, draft, wiped, wait, leave, crossed>>
  PROVE  log' \in Seq(Records) /\ Emptied' /\ OneAtATime' /\ Told'
<1>1. log \in Seq(Records) /\ r \in Records /\ ~IsEvent(r)
  BY PostsAreNoEvents DEF RoomKept, Records
<1>2. log' \in Seq(Records)
  BY <1>1, LogGrows
<1>3. \A n \in Members, k \in {"join", "leave"} : LastEvent(n, k)' <=> LastEvent(n, k)
  BY <1>1, LogGrows
<1>4. \A n \in Members : /\ File(n)' = File(n)
                         /\ Arriving(n)' <=> Arriving(n)
                         /\ Leaving(n)' <=> Leaving(n)
  BY DEF File, Arriving, Leaving
<1>5. Told'
  BY <1>3, <1>4, StillAgrees DEF RoomKept, Told
<1>6. QED
  BY <1>2, <1>5 DEF RoomKept, Emptied, OneAtATime, Updating

LEMMA NobodyTold ==
  ASSUME RoomKept, UNCHANGED <<log, pres, holder, draft, wiped, wait, leave, crossed>>
  PROVE  log' \in Seq(Records) /\ Emptied' /\ OneAtATime' /\ Told'
<1>1. \A n \in Members : /\ File(n)' = File(n)
                         /\ Arriving(n)' <=> Arriving(n)
                         /\ Leaving(n)' <=> Leaving(n)
  BY DEF File, Arriving, Leaving
<1>2. \A n \in Members, k \in {"join", "leave"} : LastEvent(n, k)' <=> LastEvent(n, k)
  BY DEF LastEvent
<1>3. Told'
  BY <1>1, <1>2, StillAgrees DEF RoomKept, Told
<1>4. QED
  BY <1>3 DEF RoomKept, Emptied, OneAtATime, Updating

LEMMA RoomStep ==
  ASSUME RoomKept, [Next]_vars
  PROVE  RoomKept'
<1> DEFINE Goal == log' \in Seq(Records) /\ Emptied' /\ OneAtATime' /\ Told'
<1>1. Kept'
  BY KeptStep DEF RoomKept
<1>2. ASSUME NEW m \in Members,
             \/ \E mode \in Modes, follow \in BOOLEAN : Start(m, mode, follow)
             \/ WaitStep(m) \/ TimeOut(m) \/ Killed(m) \/ Age(m)
             \/ Leave(m) \/ LeaveStep(m) \/ LeaveKilled(m)
      PROVE  Goal
  <2>1. CASE Touch(m)
    BY <2>1, TouchTold
  <2>2. CASE Fill(m) \/ FillLeft(m)
    BY <2>2, FillTold
  <2>3. CASE Joins(m)
    BY <2>3, JoinsTold
  <2>4. CASE \/ \E mode \in Modes, follow \in BOOLEAN : Start(m, mode, follow)
             \/ SkipTouch(m) \/ Poll(m) \/ Exit(m) \/ TimeOut(m)
    BY <2>4, WaitMovesOn
  <2>5. CASE Killed(m) \/ LeaveKilled(m)
    BY <2>5, DeathTold
  <2>6. CASE Age(m)
    BY <2>6, NobodyTold DEF Age
  <2>7. CASE Leave(m) \/ NotLeft(m)
    BY <2>7, LeaveMovesOn
  <2>8. CASE Mark(m)
    BY <2>8, MarkTold
  <2>9. CASE Leaves(m)
    BY <2>9, LeavesTold
  <2>10. QED
    BY <1>2, <2>1, <2>2, <2>3, <2>4, <2>5, <2>6, <2>7, <2>8, <2>9 DEF WaitStep, LeaveStep
<1>3. ASSUME NEW p \in Posters, NEW record \in Posts, AppendPost(p, record)
      PROVE  Goal
  BY <1>3, PostTold DEF AppendPost, fileVars
<1>4. ASSUME NEW p \in Posters, FanoutStep(p) \/ PosterKilled(p)
      PROVE  Goal
  <2>1. UNCHANGED presVars
    BY <1>4 DEF FanoutStep, PosterKilled, Look, Finish, Judge, Deliver, Hold
  <2>2. QED
    BY <2>1, NobodyTold DEF presVars, fileVars
<1>5. ASSUME UNCHANGED vars
      PROVE  Goal
  <2>1. UNCHANGED <<log, pres, holder, draft, wiped, wait, leave, crossed>>
    BY <1>5 DEF vars, presVars, fileVars
  <2>2. QED
    BY <2>1, NobodyTold
<1>6. Goal
  <2>1. ASSUME InRoom(PresNext)
        PROVE  Goal
    <3>1. PresNext
      BY <2>1 DEF InRoom
    <3>2. QED
      BY <1>2, <3>1 DEF PresNext
  <2>2. QED
    BY <1>3, <1>4, <1>5, <2>1 DEF Next
<1>7. QED
  BY <1>1, <1>6 DEF RoomKept

LEMMA RoomInit ==
  ASSUME Init
  PROVE  RoomKept
<1>1. log = <<>> /\ holder = Free /\ pres = Nobody /\ wait = [m \in Members |-> Off]
      /\ leave = [m \in Members |-> Gone]
  BY DEF Init, PresInit
<1>2. ASSUME NEW m \in Members
      PROVE  Agrees(m) /\ leave[m].pc = "off"
  <2>1. ~Arriving(m) /\ ~Leaving(m) /\ leave[m].pc = "off"
    BY <1>1 DEF Arriving, Leaving, Off, Gone
  <2>2. ~Here(m)
    BY <1>1 DEF Here, File, Nobody
  <2>3. ~LastEvent(m, "leave")
    BY <1>1 DEF LastEvent
  <2>4. QED
    BY <2>1, <2>2, <2>3 DEF Agrees
<1>3. Told /\ OneAtATime
  BY <1>2 DEF Told, OneAtATime
<1>4. QED
  BY <1>1, <1>3, KeptInit DEF RoomKept, Emptied

LEMMA RoomStaysKept == Spec => []RoomKept
<1>1. Init => RoomKept
  BY RoomInit
<1>2. RoomKept /\ [Next]_vars => RoomKept'
  BY RoomStep
<1>3. QED
  BY <1>1, <1>2, PTL DEF Spec

(* The room's last word about a member agrees with the presence file, for  *)
(* any number of members: one whose last event says that it left is not    *)
(* active, and one that is active has said so, unless its own leave and    *)
(* arrival overlapped, an event of it was given up, or a process died with *)
(* the file truncated (the transitions that touch_thread_presence and      *)
(* leave_thread_presence report and their callers tell the thread).        *)
THEOREM LastWordStands == Spec => []LeftMeansLeft
<1>1. RoomKept => LeftMeansLeft
  <2>1. SUFFICES ASSUME RoomKept, ~wiped, holder = Free, NEW m \in Members \ crossed,
                        Settled(m)
                 PROVE  /\ LastEvent(m, "leave") => pres[m] # Absent /\ pres[m].left
                        /\ pres[m] # Absent /\ ~pres[m].left => LastEvent(m, "join")
    BY DEF LeftMeansLeft
  <2>2. ~Arriving(m) /\ ~Leaving(m)
    BY <2>1 DEF Settled, Arriving, Leaving
  <2>3. QED
    BY <2>1, <2>2 DEF RoomKept, Told, Agrees, Here, Away, File
<1>2. QED
  BY <1>1, RoomStaysKept, PTL

-----------------------------------------------------------------------------
(* Who speaks to a member                                                  *)
Postings ==
  [pc : PostPCs, at : Nat, polling : SUBSET (Members \X Nat),
   seen : [Members -> Entries \cup {Absent}], fresh : SUBSET Members, blind : BOOLEAN,
   todo : SUBSET Members, targets : SUBSET Members]

Waiting(m) == wait[m].pc \in {"first", "poll", "exit"}

InFile(entries, m) == entries[m] # Absent /\ entries[m].pid = calls[m]

(* A call that was in the room when a post was appended has its pid in the *)
(* file for as long as it runs, and so in what the poster reads of it.     *)
Hears(p, m) ==
  <<m, calls[m]>> \in post[p].polling /\ Running(m) =>
    /\ Waiting(m)
    /\ ~wiped => File(m) # Absent /\ File(m).pid = calls[m]
    /\ post[p].pc = "push" /\ ~post[p].blind =>
         InFile(post[p].seen, m) /\ m \notin post[p].targets

Heard(p) ==
  /\ post[p].pc # "push" => post[p].targets = {}
  /\ \A m \in Members, k \in Nat : <<m, k>> \in post[p].polling => k <= calls[m]
  /\ \A m \in Members : Hears(p, m)

SpeakersKept ==
  /\ RoomKept
  /\ recent \subseteq Members
  /\ post \in [Posters -> Postings]
  /\ \A p \in Posters : Heard(p)

(* What a step may do to a member's call: begin it, end it, or take it     *)
(* from poll to poll with its pid left in the file.                        *)
CallGoesOn(m) ==
  \/ calls'[m] = calls[m] + 1
  \/ /\ calls'[m] = calls[m]
     /\ Running(m)' => Running(m) /\ (Waiting(m) => Waiting(m)')
     /\ ~wiped' /\ Waiting(m) /\ File(m) # Absent =>
          File(m)' # Absent /\ File(m)'.pid = File(m).pid

LEMMA OthersCalls ==
  ASSUME RoomKept, NEW m \in Members, NEW n \in Members,
         wait'[n] = wait[n], calls'[n] = calls[n],
         ~wiped' => File(n)' = File(n)
  PROVE  CallGoesOn(n)
BY DEF CallGoesOn, Running, Waiting

LEMMA StartCalls ==
  ASSUME RoomKept, NEW m \in Members, NEW mode \in Modes, NEW follow \in BOOLEAN,
         Start(m, mode, follow)
  PROVE  \A n \in Members : CallGoesOn(n)
<1>1. /\ calls' = [calls EXCEPT ![m] = @ + 1]
      /\ wait' = [wait EXCEPT ![m] = [pc |-> "touch", mode |-> mode, follow |-> follow,
                                      emit |-> FALSE]]
      /\ UNCHANGED <<pres, holder, draft, wiped>>
  BY DEF Start, fileVars
<1>2. /\ calls'[m] = calls[m] + 1
      /\ \A n \in Members \ {m} : wait'[n] = wait[n] /\ calls'[n] = calls[n]
  BY <1>1 DEF RoomKept, Kept, FileTypeOK
<1>3. \A n \in Members : File(n)' = File(n)
  BY <1>1 DEF File
<1>4. \A n \in Members \ {m} : CallGoesOn(n)
  BY <1>2, <1>3, OthersCalls
<1>5. QED
  BY <1>2, <1>4 DEF CallGoesOn

(* The steps that leave the file and the numbers of the calls alone.       *)
LEMMA WaitCalls ==
  ASSUME RoomKept, NEW m \in Members,
         \/ SkipTouch(m) \/ Joins(m) \/ Poll(m) \/ Exit(m) \/ TimeOut(m) \/ Killed(m)
         \/ Age(m) \/ Leave(m) \/ NotLeft(m) \/ Leaves(m) \/ LeaveKilled(m)
  PROVE  \A n \in Members : CallGoesOn(n)
<1>1. /\ UNCHANGED <<calls, pres>>
      /\ wiped' = TRUE \/ UNCHANGED <<holder, draft, wiped>>
  BY DEF SkipTouch, Joins, Poll, Exit, TimeOut, Killed, Age, Leave, NotLeft, Leaves,
         LeaveKilled, Ends, Abandon, fileVars
<1>2. ~wiped' => \A n \in Members : File(n)' = File(n)
  BY <1>1 DEF File
<1>3. /\ \A n \in Members \ {m} : wait'[n] = wait[n]
      /\ Running(m)' => Running(m) /\ (Waiting(m) => Waiting(m)')
  <2>1. wait \in [Members -> Waits]
    BY DEF RoomKept, Kept, FileTypeOK
  <2>2. CASE SkipTouch(m) \/ Joins(m) \/ Poll(m)
    <3>1. PICK pc \in {"first", "poll", "exit"} : wait' = [wait EXCEPT ![m].pc = pc]
      BY <2>2 DEF SkipTouch, Joins, Poll
    <3>2. wait'[m].pc = pc /\ \A n \in Members \ {m} : wait'[n] = wait[n]
      BY <2>1, <3>1 DEF Waits
    <3>3. wait[m].pc \in {"touch", "event", "first", "poll"}
      BY <2>2 DEF SkipTouch, Joins, Poll
    <3>4. QED
      BY <3>2, <3>3 DEF Running, Waiting
  <2>3. CASE Exit(m) \/ TimeOut(m) \/ Killed(m)
    <3>1. PICK how \in {"off", "dead"} : wait' = [wait EXCEPT ![m] = [Off EXCEPT !.pc = how]]
      BY <2>3 DEF Exit, TimeOut, Killed, Ends
    <3>2. wait'[m].pc = how /\ \A n \in Members \ {m} : wait'[n] = wait[n]
      BY <2>1, <3>1 DEF Off
    <3>3. QED
      BY <3>2 DEF Running
  <2>4. CASE Age(m) \/ Leave(m) \/ NotLeft(m) \/ Leaves(m) \/ LeaveKilled(m)
    <3>1. wait' = wait
      BY <2>4 DEF Age, Leave, NotLeft, Leaves, LeaveKilled
    <3>2. QED
      BY <3>1 DEF Running, Waiting
  <2>5. QED
    BY <2>2, <2>3, <2>4
<1>4. \A n \in Members \ {m} : CallGoesOn(n)
  BY <1>1, <1>2, <1>3, OthersCalls
<1>5. CallGoesOn(m)
  BY <1>1, <1>2, <1>3 DEF CallGoesOn
<1>6. QED
  BY <1>4, <1>5

(* A call updates its own entry before it waits; --leave keeps the pid.    *)
LEMMA FileCalls ==
  ASSUME RoomKept, NEW m \in Members, Touch(m) \/ Mark(m) \/ Fill(m) \/ FillLeft(m)
  PROVE  \A n \in Members : CallGoesOn(n)
<1>1. calls' = calls
  BY DEF Touch, Mark, Fill, FillLeft
<1>2. wait \in [Members -> Waits]
  BY DEF RoomKept, Kept, FileTypeOK
<1>3. CASE Touch(m)
  <2>1. /\ wait[m].pc = "touch" /\ \A n \in Members \ {m} : wait'[n] = wait[n]
        /\ Truncate(<<m, "wait">>, [pres EXCEPT ![m] = Entry(m)])
    BY <1>2, <1>3 DEF Touch
  <2>2. Entry(m) \in Entries
    BY EntryFollows DEF RoomKept, Kept
  <2>3. \A n \in Members \ {m} : File(n)' = File(n)
    BY <2>1, <2>2, Truncated
  <2>4. \A n \in Members \ {m} : CallGoesOn(n)
    BY <1>1, <2>1, <2>3, OthersCalls
  <2>5. CallGoesOn(m)
    BY <1>1, <2>1 DEF CallGoesOn, Running, Waiting
  <2>6. QED
    BY <2>4, <2>5
<1>4. CASE Mark(m)
  <2> DEFINE Left == [pres[m] EXCEPT !.left = TRUE, !.follow = FALSE]
  <2>1. pres[m] # Absent /\ wait' = wait
    BY <1>4 DEF Mark
  <2>2. pres[m] \in Entries
    BY <2>1 DEF RoomKept, Kept, FileTypeOK
  <2>3. Truncate(<<m, "leave">>, [pres EXCEPT ![m] = Left])
    BY <1>4 DEF Mark, Truncate, RoomKept, Kept, FileTypeOK
  <2>4. Left \in Entries /\ Left.pid = pres[m].pid /\ Left # Absent
    <3>1. Left \in Entries /\ Left.pid = pres[m].pid
      BY <2>2 DEF Entries
    <3>2. QED
      BY <3>1, PresenceAssumption DEF PresenceAssumption, Entries
  <2> HIDE DEF Left
  <2>5. /\ File(m) = pres[m] /\ File(m)' = Left
        /\ \A n \in Members \ {m} : File(n)' = File(n)
    BY <2>3, <2>4, Truncated
  <2>6. \A n \in Members \ {m} : CallGoesOn(n)
    BY <1>1, <2>1, <2>5, OthersCalls
  <2>7. CallGoesOn(m)
    BY <1>1, <2>1, <2>4, <2>5 DEF CallGoesOn, Running, Waiting
  <2>8. QED
    BY <2>6, <2>7
<1>5. CASE Fill(m) \/ FillLeft(m)
  <2>1. /\ holder \in {<<m, "wait">>, <<m, "leave">>} /\ holder' = Free /\ pres' = draft
    BY <1>5 DEF Fill, FillLeft, Refill
  <2>2. \A n \in Members : File(n)' = File(n)
    BY <2>1, Holders DEF File
  <2>3. \A n \in Members : wait'[n] = wait[n] \/ wait[n].pc = "fill"
    BY <1>2, <1>5 DEF Fill, FillLeft
  <2>4. QED
    BY <1>1, <2>2, <2>3 DEF CallGoesOn, Running, Waiting
<1>6. QED
  BY <1>3, <1>4, <1>5

(* A step of a member leaves the posts in progress alone.                  *)
LEMMA MembersHear ==
  ASSUME SpeakersKept, RoomKept', PresNext, post' = post
  PROVE  SpeakersKept'
<1>1. \A n \in Members : CallGoesOn(n)
  <2>1. PICK m \in Members :
          \/ \E mode \in Modes, follow \in BOOLEAN : Start(m, mode, follow)
          \/ WaitStep(m) \/ TimeOut(m) \/ Killed(m) \/ Age(m)
          \/ Leave(m) \/ LeaveStep(m) \/ LeaveKilled(m)
    BY DEF PresNext
  <2>2. CASE \E mode \in Modes, follow \in BOOLEAN : Start(m, mode, follow)
    BY <2>2, StartCalls DEF SpeakersKept
  <2>3. CASE Touch(m) \/ Mark(m) \/ Fill(m) \/ FillLeft(m)
    BY <2>3, FileCalls DEF SpeakersKept
  <2>4. CASE \/ SkipTouch(m) \/ Joins(m) \/ Poll(m) \/ Exit(m) \/ TimeOut(m) \/ Killed(m)
             \/ Age(m) \/ Leave(m) \/ NotLeft(m) \/ Leaves(m) \/ LeaveKilled(m)
    BY <2>4, WaitCalls DEF SpeakersKept
  <2>5. QED
    BY <2>1, <2>2, <2>3, <2>4 DEF WaitStep, LeaveStep
<1>2. wiped => wiped'
  <2>1. PICK m \in Members :
          \/ \E mode \in Modes, follow \in BOOLEAN : Start(m, mode, follow)
          \/ WaitStep(m) \/ TimeOut(m) \/ Killed(m) \/ Age(m)
          \/ Leave(m) \/ LeaveStep(m) \/ LeaveKilled(m)
    BY DEF PresNext
  <2>2. CASE Killed(m) \/ LeaveKilled(m)
    BY <2>2 DEF Killed, LeaveKilled, Abandon
  <2>3. CASE Touch(m) \/ Mark(m) \/ Fill(m) \/ FillLeft(m)
    BY <2>3 DEF Touch, Mark, Fill, FillLeft, Truncate, Refill
  <2>4. CASE \/ \E mode \in Modes, follow \in BOOLEAN : Start(m, mode, follow)
             \/ SkipTouch(m) \/ Joins(m) \/ Poll(m) \/ Exit(m) \/ TimeOut(m)
             \/ Age(m) \/ Leave(m) \/ NotLeft(m) \/ Leaves(m)
    BY <2>4 DEF Start, SkipTouch, Joins, Poll, Exit, TimeOut, Age, Leave, NotLeft, Leaves,
                fileVars
  <2>5. QED
    BY <2>1, <2>2, <2>3, <2>4 DEF WaitStep, LeaveStep
<1>3. calls \in [Members -> Nat]
  BY DEF SpeakersKept, RoomKept, Kept, FileTypeOK
<1>4. ASSUME NEW p \in Posters
      PROVE  Heard(p)'
  <2>1. Heard(p)
    BY DEF SpeakersKept
  <2>2. \A n \in Members : calls[n] <= calls'[n]
    BY <1>1, <1>3 DEF CallGoesOn
  <2>3. ASSUME NEW n \in Members, NEW k \in Nat, <<n, k>> \in post'[p].polling
        PROVE  k <= calls'[n]
    <3>1. k <= calls[n] /\ calls[n] <= calls'[n] /\ calls[n] \in Nat
      BY <1>3, <2>1, <2>2, <2>3 DEF Heard
    <3>2. calls'[n] \in Nat
      BY <1>1, <1>3 DEF CallGoesOn
    <3>3. QED
      BY <3>1, <3>2
  <2>4. ASSUME NEW n \in Members, <<n, calls'[n]>> \in post[p].polling, Running(n)'
        PROVE  /\ Waiting(n)'
               /\ ~wiped' => File(n)' # Absent /\ File(n)'.pid = calls'[n]
               /\ post[p].pc = "push" /\ ~post[p].blind =>
                    post[p].seen[n] # Absent /\ post[p].seen[n].pid = calls'[n]
                    /\ n \notin post[p].targets
    <3>1. calls'[n] # calls[n] + 1
      <4>1. calls[n] \in Nat
        BY <1>3
      <4>2. SUFFICES ASSUME calls'[n] = calls[n] + 1
                     PROVE  FALSE
        OBVIOUS
      <4>3. calls'[n] <= calls[n]
        BY <2>1, <2>4, <4>1, <4>2 DEF Heard
      <4>4. QED
        BY <4>1, <4>2, <4>3
    <3>2. /\ calls'[n] = calls[n] /\ Running(n) /\ (Waiting(n) => Waiting(n)')
          /\ ~wiped' /\ Waiting(n) /\ File(n) # Absent =>
               File(n)' # Absent /\ File(n)'.pid = File(n).pid
      BY <1>1, <2>4, <3>1 DEF CallGoesOn
    <3>3. Hears(p, n)
      BY <2>1 DEF Heard
    <3>4. /\ Waiting(n)
          /\ ~wiped => File(n) # Absent /\ File(n).pid = calls[n]
          /\ post[p].pc = "push" /\ ~post[p].blind =>
               InFile(post[p].seen, n) /\ n \notin post[p].targets
      BY <2>4, <3>2, <3>3 DEF Hears
    <3>5. QED
      BY <1>2, <3>2, <3>4 DEF InFile
  <2>5. \A n \in Members : Hears(p, n)'
    BY <2>4 DEF Hears, InFile
  <2>6. QED
    BY <2>1, <2>3, <2>5 DEF Heard
<1>5. recent' \subseteq Members
  BY DEF SpeakersKept, PresNext, WaitStep, LeaveStep, Start, Touch, SkipTouch, Fill, Joins,
         Poll, Exit, TimeOut, Killed, Age, Leave, Mark, NotLeft, FillLeft, Leaves,
         LeaveKilled, Ends, Abandon, Refill, fileVars
<1>6. QED
  BY <1>4, <1>5 DEF SpeakersKept

(* A poster's step, which leaves the members and the file alone, and the   *)
(* other posters.                                                          *)
LEMMA PosterHears ==
  ASSUME SpeakersKept, RoomKept', NEW p \in Posters, NEW after \in Postings,
         post' = [post EXCEPT ![p] = after],
         UNCHANGED <<pres, holder, draft, recent, wiped, wait, calls>>,
         after.pc # "push" => after.targets = {},
         \A m \in Members, k \in Nat : <<m, k>> \in after.polling => k <= calls[m],
         \A m \in Members :
           <<m, calls[m]>> \in after.polling /\ Running(m) =>
             /\ Waiting(m)
             /\ ~wiped => File(m) # Absent /\ File(m).pid = calls[m]
             /\ after.pc = "push" /\ ~after.blind =>
                  InFile(after.seen, m) /\ m \notin after.targets
  PROVE  SpeakersKept'
<1>1. /\ post' \in [Posters -> Postings] /\ post'[p] = after
      /\ \A q \in Posters \ {p} : post'[q] = post[q]
  BY DEF SpeakersKept
<1>2. \A m \in Members : File(m)' = File(m)
  BY DEF File
<1>3. \A m \in Members : (Running(m)' <=> Running(m)) /\ (Waiting(m)' <=> Waiting(m))
  BY DEF Running, Waiting
<1>4. Heard(p)'
  <2>1. \A m \in Members : Hears(p, m)'
    BY <1>1, <1>2, <1>3 DEF Hears, InFile
  <2>2. QED
    BY <1>1, <2>1 DEF Heard
<1>5. ASSUME NEW q \in Posters, q # p
      PROVE  Heard(q)'
  <2>1. Heard(q) /\ post'[q] = post[q]
    BY <1>1, <1>5 DEF SpeakersKept
  <2>2. \A m \in Members : Hears(q, m)'
    BY <1>2, <1>3, <2>1 DEF Heard, Hears, InFile
  <2>3. QED
    BY <2>1, <2>2 DEF Heard
<1>6. QED
  BY <1>1, <1>4, <1>5 DEF SpeakersKept

(* A post whose poster is done, or that has fewer left to push to.         *)
LEMMA PosterDone ==
  ASSUME SpeakersKept, RoomKept', NEW p \in Posters, post' = [post EXCEPT ![p] = NoPost],
         UNCHANGED presVars
  PROVE  SpeakersKept'
<1>1. NoPost \in Postings
  BY DEF NoPost, Nobody, Postings, PostPCs
<1>2. NoPost.pc = "idle" /\ NoPost.targets = {} /\ NoPost.polling = {}
  BY DEF NoPost
<1> HIDE DEF NoPost
<1>3. UNCHANGED <<pres, holder, draft, recent, wiped, wait, calls>>
  BY DEF presVars, fileVars
<1>4. QED
  BY <1>1, <1>2, <1>3, PosterHears

LEMMA AppendPostHears ==
  ASSUME SpeakersKept, RoomKept', NEW p \in Posters, NEW record \in Posts,
         AppendPost(p, record)
  PROVE  SpeakersKept'
<1> DEFINE Room == {<<m, calls[m]>> : m \in {n \in Members : Polling(n)}}
           After == [NoPost EXCEPT !.pc = "look", !.at = Len(log) + 1, !.polling = Room]
<1>1. /\ post' = [post EXCEPT ![p] = After]
      /\ UNCHANGED <<pres, holder, draft, recent, wiped, wait, calls>>
  BY DEF AppendPost, fileVars
<1>2. Room \subseteq Members \X Nat
  BY DEF SpeakersKept, RoomKept, Kept, FileTypeOK
<1>3. \A m \in Members, k \in Nat : <<m, k>> \in Room => k = calls[m] /\ Polling(m)
  OBVIOUS
<1> HIDE DEF Room
<1>4. After \in Postings
  <2>1. Len(log) + 1 \in Nat
    BY DEF SpeakersKept, RoomKept
  <2>2. NoPost \in Postings
    BY DEF NoPost, Nobody, Postings, PostPCs
  <2>3. QED
    BY <1>2, <2>1, <2>2 DEF Postings, PostPCs
<1>5. After.pc = "look" /\ After.targets = {} /\ After.polling = Room
  BY DEF NoPost
<1> HIDE DEF After
<1>6. calls \in [Members -> Nat]
  BY DEF SpeakersKept, RoomKept, Kept, FileTypeOK
<1>7. \A m \in Members, k \in Nat : <<m, k>> \in After.polling => k <= calls[m]
  BY <1>3, <1>5, <1>6
<1>8. ASSUME NEW m \in Members, <<m, calls[m]>> \in After.polling
      PROVE  Waiting(m) /\ File(m) # Absent /\ File(m).pid = calls[m]
  <2>1. Polling(m)
    BY <1>3, <1>5, <1>6, <1>8
  <2>2. holder = Free
    BY <2>1 DEF SpeakersKept, RoomKept, Emptied, Nobody, Polling
  <2>3. QED
    BY <2>1, <2>2 DEF Polling, Waiting, File
<1>9. QED
  BY <1>1, <1>4, <1>5, <1>7, <1>8, PosterHears

LEMMA LookHears ==
  ASSUME SpeakersKept, RoomKept', NEW p \in Posters, Look(p)
  PROVE  SpeakersKept'
<1> DEFINE Blind == holder # Free \/ wiped
           After == [post[p] EXCEPT !.pc = "push", !.seen = pres, !.fresh = recent,
                                    !.blind = Blind, !.todo = Members \ {Sender(p)}]
<1>1. post[p] \in Postings /\ Heard(p) /\ post[p].pc = "look"
  BY DEF SpeakersKept, Look
<1>2. /\ post' = [post EXCEPT ![p] = After]
      /\ UNCHANGED <<pres, holder, draft, recent, wiped, wait, calls>>
  <2>1. UNCHANGED presVars
    BY DEF Look
  <2>2. post' = [post EXCEPT ![p] = After]
    BY <1>1 DEF Look, SpeakersKept, Postings
  <2>3. QED
    BY <2>1, <2>2 DEF presVars, fileVars
<1>3. Blind \in BOOLEAN
  BY Zenon DEF SpeakersKept
<1> HIDE DEF Blind
<1>4. pres \in [Members -> Entries \cup {Absent}]
  BY DEF SpeakersKept, RoomKept, Kept, FileTypeOK
<1>5. Members \ {Sender(p)} \subseteq Members /\ recent \subseteq Members
  BY DEF SpeakersKept
<1> DEFINE Todo == Members \ {Sender(p)}
<1> HIDE DEF Todo
<1>6. After \in Postings
  BY <1>1, <1>3, <1>4, <1>5 DEF Postings, PostPCs, Todo
<1>7. /\ After.pc = "push" /\ After.seen = pres /\ After.blind = Blind
      /\ After.targets = post[p].targets /\ After.polling = post[p].polling
  BY <1>1 DEF Postings
<1> HIDE DEF After
<1>8. After.targets = {}
  BY <1>1, <1>7 DEF Heard
<1>9. After.blind <=> holder # Free \/ wiped
  BY <1>7, Zenon DEF Blind
<1>10. \A m \in Members, k \in Nat : <<m, k>> \in After.polling => k <= calls[m]
  BY <1>1, <1>7 DEF Heard
<1>11. ASSUME NEW m \in Members, <<m, calls[m]>> \in After.polling, Running(m)
       PROVE  /\ Waiting(m)
              /\ ~wiped => File(m) # Absent /\ File(m).pid = calls[m]
              /\ ~After.blind => InFile(After.seen, m) /\ m \notin After.targets
  <2>1. /\ Waiting(m)
        /\ ~wiped => File(m) # Absent /\ File(m).pid = calls[m]
    BY <1>1, <1>7, <1>11 DEF Heard, Hears
  <2>2. ASSUME ~After.blind
        PROVE  InFile(After.seen, m)
    BY <1>7, <1>9, <2>1, <2>2 DEF InFile, File
  <2>3. QED
    BY <1>8, <2>1, <2>2
<1>12. QED
  BY <1>2, <1>6, <1>7, <1>8, <1>10, <1>11, PosterHears

(* A member whose running call has its pid in what the poster read is none *)
(* of its targets.                                                         *)
LEMMA JudgeHears ==
  ASSUME SpeakersKept, RoomKept', NEW p \in Posters, NEW m \in Members, Judge(p, m)
  PROVE  SpeakersKept'
<1> DEFINE Aim == IF Targeted(p, m) THEN post[p].targets \cup {m} ELSE post[p].targets
           Todo == post[p].todo \ {m}
           After == [post[p] EXCEPT !.todo = Todo, !.targets = Aim]
<1>1. post[p] \in Postings /\ Heard(p) /\ post[p].pc = "push"
  BY DEF SpeakersKept, Judge
<1>2. /\ post' = [post EXCEPT ![p] = After]
      /\ UNCHANGED <<pres, holder, draft, recent, wiped, wait, calls>>
  <2>1. UNCHANGED presVars
    BY DEF Judge
  <2>2. post' = [post EXCEPT ![p] = After]
    BY <1>1 DEF Judge, SpeakersKept, Postings
  <2>3. QED
    BY <2>1, <2>2 DEF presVars, fileVars
<1>3. Aim \subseteq post[p].targets \cup {m} /\ (m \in Aim => m \in post[p].targets \/ Targeted(p, m))
  OBVIOUS
<1> HIDE DEF Aim
<1>4. post[p].targets \subseteq Members /\ post[p].todo \subseteq Members
  BY <1>1 DEF Postings
<1>5. Aim \subseteq Members /\ Todo \subseteq Members
  BY <1>3, <1>4
<1> HIDE DEF Todo
<1>6. After \in Postings
  BY <1>1, <1>5 DEF Postings
<1>7. /\ After.pc = "push" /\ After.seen = post[p].seen /\ After.blind = post[p].blind
      /\ After.targets = Aim /\ After.polling = post[p].polling
  BY <1>1 DEF Postings
<1> HIDE DEF After
<1>8. \A n \in Members, k \in Nat : <<n, k>> \in After.polling => k <= calls[n]
  BY <1>1, <1>7 DEF Heard
<1>9. ASSUME NEW n \in Members, <<n, calls[n]>> \in After.polling, Running(n)
      PROVE  /\ Waiting(n)
             /\ ~wiped => File(n) # Absent /\ File(n).pid = calls[n]
             /\ ~After.blind => InFile(After.seen, n) /\ n \notin After.targets
  <2>1. /\ Waiting(n)
        /\ ~wiped => File(n) # Absent /\ File(n).pid = calls[n]
        /\ ~post[p].blind => InFile(post[p].seen, n) /\ n \notin post[p].targets
    BY <1>1, <1>7, <1>9 DEF Heard, Hears
  <2>2. ASSUME ~post[p].blind, n = m
        PROVE  ~Targeted(p, m)
    <3>1. post[p].seen[m] # Absent /\ IsAlive(m, post[p].seen[m].pid)
      BY <1>9, <2>1, <2>2 DEF InFile, IsAlive
    <3>2. QED
      BY <3>1 DEF Targeted, Deaf
  <2>3. QED
    BY <1>3, <1>7, <2>1, <2>2
<1>10. QED
  BY <1>2, <1>6, <1>7, <1>8, <1>9, PosterHears

LEMMA PushHears ==
  ASSUME SpeakersKept, RoomKept', NEW p \in Posters, NEW m \in Members,
         Deliver(p, m) \/ Hold(p, m)
  PROVE  SpeakersKept'
<1> DEFINE Rest == post[p].targets \ {m}
           After == [post[p] EXCEPT !.targets = Rest]
<1>1. post[p] \in Postings /\ Heard(p) /\ post[p].pc = "push"
  BY DEF SpeakersKept, Deliver, Hold, Judged
<1>2. /\ post' = [post EXCEPT ![p] = After]
      /\ UNCHANGED <<pres, holder, draft, recent, wiped, wait, calls>>
  <2>1. UNCHANGED presVars
    BY DEF Deliver, Hold
  <2>2. post' = [post EXCEPT ![p] = After]
    BY <1>1 DEF Deliver, Hold, SpeakersKept
  <2>3. QED
    BY <2>1, <2>2 DEF presVars, fileVars
<1>3. Rest \subseteq post[p].targets /\ Rest \subseteq Members
  BY <1>1 DEF Postings
<1> HIDE DEF Rest
<1>4. After \in Postings
  BY <1>1, <1>3 DEF Postings
<1>5. /\ After.pc = "push" /\ After.seen = post[p].seen /\ After.blind = post[p].blind
      /\ After.targets = Rest /\ After.polling = post[p].polling
  BY <1>1 DEF Postings
<1> HIDE DEF After
<1>6. \A n \in Members, k \in Nat : <<n, k>> \in After.polling => k <= calls[n]
  BY <1>1, <1>5 DEF Heard
<1>7. ASSUME NEW n \in Members, <<n, calls[n]>> \in After.polling, Running(n)
      PROVE  /\ Waiting(n)
             /\ ~wiped => File(n) # Absent /\ File(n).pid = calls[n]
             /\ ~After.blind => InFile(After.seen, n) /\ n \notin After.targets
  BY <1>1, <1>3, <1>5, <1>7 DEF Heard, Hears
<1>8. QED
  BY <1>2, <1>4, <1>5, <1>6, <1>7, PosterHears

LEMMA SpeakersStep ==
  ASSUME SpeakersKept, [Next]_vars
  PROVE  SpeakersKept'
<1>1. RoomKept'
  BY RoomStep DEF SpeakersKept
<1>2. ASSUME NEW p \in Posters, NEW record \in Posts, AppendPost(p, record)
      PROVE  SpeakersKept'
  BY <1>1, <1>2, AppendPostHears
<1>3. ASSUME NEW p \in Posters, FanoutStep(p)
      PROVE  SpeakersKept'
  <2>1. CASE Look(p)
    BY <1>1, <2>1, LookHears
  <2>2. CASE Finish(p)
    BY <1>1, <2>2, PosterDone DEF Finish
  <2>3. ASSUME NEW m \in Members, Judge(p, m) \/ Deliver(p, m) \/ Hold(p, m)
        PROVE  SpeakersKept'
    BY <1>1, <2>3, JudgeHears, PushHears
  <2>4. QED
    BY <1>3, <2>1, <2>2, <2>3 DEF FanoutStep
<1>4. ASSUME NEW p \in Posters, PosterKilled(p)
      PROVE  SpeakersKept'
  BY <1>1, <1>4, PosterDone DEF PosterKilled
<1>5. ASSUME InRoom(PresNext)
      PROVE  SpeakersKept'
  <2>1. PresNext /\ post' = post
    BY <1>5 DEF InRoom
  <2>2. QED
    BY <1>1, <2>1, MembersHear
<1>6. ASSUME UNCHANGED vars
      PROVE  SpeakersKept'
  <2>1. UNCHANGED <<pres, holder, draft, recent, wiped, wait, calls, post>>
    BY <1>6 DEF vars, presVars, fileVars, fanVars
  <2>2. \A p \in Posters : Heard(p)'
    BY <2>1 DEF SpeakersKept, Heard, Hears, Running, Waiting, File, InFile
  <2>3. QED
    BY <1>1, <2>1, <2>2 DEF SpeakersKept
<1>7. QED
  BY <1>2, <1>3, <1>4, <1>5, <1>6 DEF Next

LEMMA SpeakersInit ==
  ASSUME Init
  PROVE  SpeakersKept
<1>1. NoPost \in Postings /\ NoPost.targets = {} /\ NoPost.polling = {}
  BY DEF NoPost, Nobody, Postings, PostPCs
<1>2. post = [p \in Posters |-> NoPost] /\ recent = {}
  BY DEF Init, PresInit
<1> HIDE DEF NoPost
<1>3. \A p \in Posters : Heard(p)
  BY <1>1, <1>2 DEF Heard, Hears
<1>4. QED
  BY <1>1, <1>2, <1>3, RoomInit DEF SpeakersKept

(* One speaker at a time, for any number of members and of posters: while  *)
(* a call whose pid was in the presence file when a post was appended      *)
(* still runs, that post is not pushed to its member, unless the poster    *)
(* read the file during an update or after it was lost (_is_deaf and       *)
(* fanout_targets against touch_thread_presence).                          *)
THEOREM OneSpeaker == Spec => []NoSecondSpeaker
<1>1. SpeakersKept => NoSecondSpeaker
  <2>1. SUFFICES ASSUME SpeakersKept, NEW p \in Posters, NEW m \in post[p].targets,
                        ~post[p].blind, Running(m), <<m, calls[m]>> \in post[p].polling
                 PROVE  FALSE
    BY DEF NoSecondSpeaker
  <2>2. post[p] \in Postings /\ Heard(p)
    BY <2>1 DEF SpeakersKept
  <2>3. m \in Members /\ post[p].pc = "push"
    BY <2>2 DEF Postings, Heard
  <2>4. Hears(p, m)
    BY <2>2, <2>3 DEF Heard
  <2>5. QED
    BY <2>1, <2>3, <2>4 DEF Hears
<1>2. Init => SpeakersKept
  BY SpeakersInit
<1>3. SpeakersKept /\ [Next]_vars => SpeakersKept'
  BY SpeakersStep
<1>4. QED
  BY <1>1, <1>2, <1>3, PTL DEF Spec

-----------------------------------------------------------------------------
(* The types                                                               *)
MembersOK ==
  /\ calls \in [Members -> 0 .. MaxCalls] /\ leaves \in [Members -> 0 .. MaxLeaves]
  /\ cursor \in [Members -> 0 .. Len(log)]
  /\ opted \subseteq Members /\ crossed \subseteq Members /\ wiped \in BOOLEAN

(* A post in progress is in the log, and with it what is kept of it.       *)
PostsOK ==
  /\ \A p \in Posters : post[p].at <= Len(log) /\ (post[p].pc # "idle" => post[p].at > 0)
  /\ posted \subseteq 1 .. Len(log)
  /\ knocked \cup spared \cup excused \subseteq Members \X (1 .. Len(log))

LEMMA LogLengthens ==
  ASSUME log \in Seq(Records), [Next]_vars
  PROVE  Len(log) \in Nat /\ Len(log') \in Nat /\ Len(log) <= Len(log')
<1>1. log' = log \/ \E r \in Records : log' = Append(log, r)
  <2>1. ASSUME NEW p \in Posters, NEW r \in Posts, AppendPost(p, r)
        PROVE  \E s \in Records : log' = Append(log, s)
    BY <2>1 DEF AppendPost, Records
  <2>2. ASSUME NEW p \in Posters, FanoutStep(p) \/ PosterKilled(p)
        PROVE  log' = log
    BY <2>2 DEF FanoutStep, PosterKilled, Look, Finish, Judge, Deliver, Hold, presVars
  <2>3. ASSUME NEW m \in Members, Joins(m) \/ Leaves(m)
        PROVE  log' = log \/ \E r \in Records : log' = Append(log, r)
    BY <2>3, PostsAreNoEvents DEF Joins, Leaves
  <2>4. ASSUME NEW m \in Members,
               \/ \E mode \in Modes, follow \in BOOLEAN : Start(m, mode, follow)
               \/ Touch(m) \/ SkipTouch(m) \/ Fill(m) \/ Poll(m) \/ Exit(m) \/ TimeOut(m)
               \/ Killed(m) \/ Age(m) \/ Leave(m) \/ Mark(m) \/ NotLeft(m) \/ FillLeft(m)
               \/ LeaveKilled(m)
        PROVE  log' = log
    BY <2>4 DEF Start, Touch, SkipTouch, Fill, Poll, Exit, TimeOut, Killed, Ends, Age, Leave, Mark,
                NotLeft, FillLeft, LeaveKilled
  <2>5. ASSUME PresNext
        PROVE  log' = log \/ \E r \in Records : log' = Append(log, r)
    BY <2>3, <2>4, <2>5 DEF PresNext, WaitStep, LeaveStep
  <2>6. CASE UNCHANGED vars
    BY <2>6 DEF vars, presVars
  <2>7. QED
    BY <2>1, <2>2, <2>5, <2>6 DEF Next, InRoom
<1>2. QED
  BY <1>1

(* Only a start raises a member's calls, a leave its leaves, and a poll    *)
(* moves its cursor.                                                       *)
LEMMA MembersTyped ==
  ASSUME RoomKept, MembersOK, PresNext, Len(log) \in Nat, Len(log') \in Nat, Len(log) <= Len(log')
  PROVE  MembersOK'
<1>1. /\ MaxCalls \in Nat /\ MaxLeaves \in Nat
      /\ calls \in [Members -> 0 .. MaxCalls] /\ leaves \in [Members -> 0 .. MaxLeaves]
      /\ cursor \in [Members -> 0 .. Len(log)] /\ cursor \in [Members -> 0 .. Len(log')]
      /\ opted \subseteq Members /\ crossed \subseteq Members
  BY PresenceAssumption DEF PresenceAssumption, MembersOK
<1>2. PICK m \in Members :
        \/ \E mode \in Modes, follow \in BOOLEAN : Start(m, mode, follow)
        \/ WaitStep(m) \/ TimeOut(m) \/ Killed(m) \/ Age(m)
        \/ Leave(m) \/ LeaveStep(m) \/ LeaveKilled(m)
  BY DEF PresNext
<1>3. calls' \in [Members -> 0 .. MaxCalls]
  <2>1. CASE \E mode \in Modes, follow \in BOOLEAN : Start(m, mode, follow)
    BY <1>1, <2>1 DEF Start
  <2>2. CASE ~(\E mode \in Modes, follow \in BOOLEAN : Start(m, mode, follow))
    <3>1. calls' = calls
      BY <1>2, <2>2 DEF WaitStep, Touch, SkipTouch, Fill, Joins, Poll, Exit, TimeOut, Killed, Ends,
                        Age, Leave, LeaveStep, Mark, NotLeft, FillLeft, Leaves, LeaveKilled
    <3>2. QED
      BY <1>1, <3>1
  <2>3. QED
    BY <2>1, <2>2
<1>4. leaves' \in [Members -> 0 .. MaxLeaves]
  <2>1. CASE Leave(m)
    BY <1>1, <2>1 DEF Leave
  <2>2. CASE ~Leave(m)
    <3>1. leaves' = leaves
      BY <1>2, <2>2 DEF Start, WaitStep, Touch, SkipTouch, Fill, Joins, Poll, Exit, TimeOut, Killed,
                        Ends, Age, LeaveStep, Mark, NotLeft, FillLeft, Leaves, LeaveKilled
    <3>2. QED
      BY <1>1, <3>1
  <2>3. QED
    BY <2>1, <2>2
<1>5. cursor' \in [Members -> 0 .. Len(log')]
  <2>1. CASE Poll(m)
    <3>1. log' = log /\ cursor' \in {cursor, [cursor EXCEPT ![m] = Len(log)]}
      BY <2>1 DEF Poll
    <3>2. Len(log) \in 0 .. Len(log)
      OBVIOUS
    <3>3. QED
      BY <1>1, <3>1, <3>2
  <2>2. CASE ~Poll(m)
    <3>1. cursor' = cursor
      BY <1>2, <2>2 DEF Start, WaitStep, Touch, SkipTouch, Fill, Joins, Exit, TimeOut, Killed, Ends,
                        Age, Leave, LeaveStep, Mark, NotLeft, FillLeft, Leaves, LeaveKilled
    <3>2. QED
      BY <1>1, <3>1
  <2>3. QED
    BY <2>1, <2>2
<1>6. opted' \subseteq Members /\ crossed' \subseteq Members
  <2>1. opted' \in {opted, opted \cup {m}, opted \ {m}} /\ crossed' \in {crossed, crossed \cup {m}}
    BY <1>2 DEF Start, WaitStep, Touch, SkipTouch, Fill, Joins, Poll, Exit, TimeOut, Killed, Ends,
                Age, Leave, LeaveStep, Mark, NotLeft, FillLeft, Leaves, LeaveKilled, Truncate,
                Refill, Abandon, fileVars
  <2>2. QED
    BY <1>1, <2>1
<1>7. wiped' \in BOOLEAN
  <2>1. wiped' = wiped \/ wiped' = TRUE
    BY <1>2 DEF Start, WaitStep, Touch, SkipTouch, Fill, Joins, Poll, Exit, TimeOut, Killed, Ends,
                Age, Leave, LeaveStep, Mark, NotLeft, FillLeft, Leaves, LeaveKilled, Truncate,
                Refill, Abandon, fileVars
  <2>2. QED
    BY <2>1, Zenon DEF MembersOK
<1>8. QED
  BY <1>3, <1>4, <1>5, <1>6, <1>7 DEF MembersOK

LEMMA MembersAlone ==
  ASSUME MembersOK, Len(log) \in Nat, Len(log') \in Nat, Len(log) <= Len(log'),
         UNCHANGED <<calls, leaves, cursor, opted, crossed, wiped>>
  PROVE  MembersOK'
<1>1. cursor \in [Members -> 0 .. Len(log')]
  BY DEF MembersOK
<1>2. wiped' \in BOOLEAN
  BY Zenon DEF MembersOK
<1>3. QED
  BY <1>1, <1>2 DEF MembersOK

(* What a poster in progress records is about its post.                    *)
LEMMA PostsTyped ==
  ASSUME SpeakersKept, PostsOK, NEW p \in Posters, FanoutStep(p) \/ PosterKilled(p),
         Len(log) \in Nat
  PROVE  PostsOK'
<1>1. post[p] \in Postings /\ post \in [Posters -> Postings]
  BY DEF SpeakersKept
<1>2. post[p].pc # "idle" /\ log' = log /\ posted' = posted
  BY DEF FanoutStep, PosterKilled, Look, Finish, Judge, Judged, Deliver, Hold, presVars
<1>3. post[p].at \in 1 .. Len(log)
  BY <1>1, <1>2 DEF PostsOK, Postings
<1>4. /\ \A q \in Posters \ {p} : post'[q] = post[q]
      /\ post'[p] = NoPost \/ (post'[p].at = post[p].at /\ post'[p].pc # "idle")
  <2>1. CASE Finish(p) \/ PosterKilled(p)
    BY <1>1, <2>1 DEF Finish, PosterKilled
  <2>2. CASE Look(p)
    BY <1>1, <2>2 DEF Look, Postings
  <2>3. ASSUME NEW m \in Members, Judge(p, m) \/ Deliver(p, m) \/ Hold(p, m)
        PROVE  /\ \A q \in Posters \ {p} : post'[q] = post[q]
               /\ post'[p].at = post[p].at /\ post'[p].pc = post[p].pc
    BY <1>1, <2>3 DEF Judge, Deliver, Hold, Postings
  <2>4. QED
    BY <1>2, <2>1, <2>2, <2>3 DEF FanoutStep
<1>5. \A q \in Posters : post'[q].at <= Len(log') /\ (post'[q].pc # "idle" => post'[q].at > 0)
  BY <1>2, <1>3, <1>4 DEF PostsOK, NoPost
<1>6. knocked' \cup spared' \cup excused' \subseteq Members \X (1 .. Len(log))
  <2> DEFINE Mine == {<<m, post[p].at>> : m \in Members}
  <2>1. Mine \subseteq Members \X (1 .. Len(log))
    BY <1>3
  <2>2. \A A \in SUBSET Members : Excuse(p, A) => excused' \subseteq excused \cup Mine
    BY DEF Excuse
  <2>3. \A m \in Members : <<m, post[p].at>> \in Mine /\ {m} \in SUBSET Members
    OBVIOUS
  <2>4. post[p].targets \in SUBSET Members
    BY <1>1 DEF Postings
  <2> HIDE DEF Mine
  <2>5. /\ knocked' \subseteq knocked \cup Mine /\ spared' \subseteq spared \cup Mine
        /\ excused' \subseteq excused \cup Mine
    <3>1. CASE Look(p)
      BY <3>1 DEF Look
    <3>2. CASE Finish(p) \/ PosterKilled(p)
      BY <2>2, <2>4, <3>2 DEF Finish, PosterKilled
    <3>3. ASSUME NEW m \in Members, Judge(p, m) \/ Deliver(p, m) \/ Hold(p, m)
          PROVE  /\ knocked' \subseteq knocked \cup Mine /\ spared' \subseteq spared \cup Mine
                 /\ excused' \subseteq excused \cup Mine
      BY <2>2, <2>3, <3>3 DEF Judge, Deliver, Hold
    <3>4. QED
      BY <3>1, <3>2, <3>3 DEF FanoutStep
  <2>6. QED
    BY <2>1, <2>5 DEF PostsOK
<1>7. QED
  BY <1>2, <1>5, <1>6 DEF PostsOK

LEMMA TypedStep ==
  ASSUME SpeakersKept, MembersOK, PostsOK, [Next]_vars
  PROVE  MembersOK' /\ PostsOK'
<1>1. Len(log) \in Nat /\ Len(log') \in Nat /\ Len(log) <= Len(log')
  BY LogLengthens DEF SpeakersKept, RoomKept
<1>2. 1 .. Len(log) \subseteq 1 .. Len(log')
  BY <1>1
<1>3. ASSUME NEW p \in Posters, NEW record \in Posts, AppendPost(p, record)
      PROVE  MembersOK' /\ PostsOK'
  <2>1. MembersOK'
    BY <1>1, <1>3, MembersAlone DEF AppendPost, fileVars
  <2>2. Len(log') = Len(log) + 1 /\ posted' = posted \cup {Len(log) + 1}
    BY <1>1, <1>3 DEF AppendPost, SpeakersKept, RoomKept
  <2>3. /\ post'[p].at = Len(log) + 1 /\ \A q \in Posters \ {p} : post'[q] = post[q]
    BY <1>3 DEF AppendPost, SpeakersKept, NoPost
  <2>4. \A q \in Posters : post[q].at \in Nat
    BY DEF SpeakersKept, Postings
  <2>5. \A q \in Posters : post'[q].at <= Len(log') /\ (post'[q].pc # "idle" => post'[q].at > 0)
    BY <1>1, <2>2, <2>3, <2>4 DEF PostsOK
  <2>6. knocked' \cup spared' \cup excused' \subseteq Members \X (1 .. Len(log'))
    <3>1. Members \X (1 .. Len(log)) \subseteq Members \X (1 .. Len(log'))
      BY <1>2
    <3>2. UNCHANGED <<knocked, spared, excused>>
      BY <1>3 DEF AppendPost
    <3>3. QED
      BY <3>1, <3>2 DEF PostsOK
  <2>7. posted' \subseteq 1 .. Len(log')
    <3>1. Len(log) + 1 \in 1 .. Len(log') /\ posted \subseteq 1 .. Len(log)
      BY <1>1, <2>2 DEF PostsOK
    <3>2. QED
      BY <1>2, <2>2, <3>1
  <2>8. QED
    BY <2>1, <2>5, <2>6, <2>7 DEF PostsOK
<1>4. ASSUME NEW p \in Posters, FanoutStep(p) \/ PosterKilled(p)
      PROVE  MembersOK' /\ PostsOK'
  <2>1. PostsOK'
    BY <1>1, <1>4, PostsTyped
  <2>2. UNCHANGED presVars
    BY <1>4 DEF FanoutStep, PosterKilled, Look, Finish, Judge, Deliver, Hold
  <2>3. QED
    BY <1>1, <2>1, <2>2, MembersAlone DEF presVars, fileVars
<1>5. ASSUME InRoom(PresNext)
      PROVE  MembersOK' /\ PostsOK'
  <2>1. PresNext /\ excused' = excused \cup Missed /\ UNCHANGED <<post, posted, knocked, spared>>
    BY <1>5 DEF InRoom
  <2>2. MembersOK'
    BY <1>1, <2>1, MembersTyped DEF SpeakersKept
  <2>3. Missed \subseteq spared
    BY DEF Missed
  <2>4. \A q \in Posters : post[q].at \in Nat
    BY DEF SpeakersKept, Postings
  <2>5. \A q \in Posters : post'[q].at <= Len(log') /\ (post'[q].pc # "idle" => post'[q].at > 0)
    BY <1>1, <2>1, <2>4 DEF PostsOK
  <2>6. posted' \subseteq 1 .. Len(log')
    BY <1>2, <2>1 DEF PostsOK
  <2>7. knocked' \cup spared' \cup excused' \subseteq Members \X (1 .. Len(log'))
    BY <1>2, <2>1, <2>3 DEF PostsOK
  <2>8. QED
    BY <2>2, <2>5, <2>6, <2>7 DEF PostsOK
<1>6. CASE UNCHANGED vars
  <2>1. UNCHANGED <<calls, leaves, cursor, opted, crossed, wiped>> /\ log' = log
    BY <1>6 DEF vars, presVars, fileVars
  <2>2. MembersOK'
    BY <1>1, <2>1, MembersAlone
  <2>3. PostsOK'
    BY <1>6 DEF vars, presVars, fanVars, PostsOK
  <2>4. QED
    BY <2>2, <2>3
<1>7. QED
  BY <1>3, <1>4, <1>5, <1>6 DEF Next

(* Whoever calls, leaves, posts and dies, in any order and number: cursors *)
(* stay within the log, a poster works on a post that is in it, and what is*)
(* recorded of a push is about a member and a record of the log            *)
(* (thread.py:214-277, 418-479, 561-674).                                  *)
THEOREM FanoutTypeCorrect == Spec => []TypeOK
<1> DEFINE I == SpeakersKept /\ MembersOK /\ PostsOK
<1>1. Init => I
  <2> SUFFICES ASSUME Init PROVE I
    OBVIOUS
  <2>1. log = << >> /\ Len(log) = 0
    BY DEF Init, PresInit
  <2>2. MembersOK
    <3>1. /\ calls = [m \in Members |-> 0] /\ leaves = [m \in Members |-> 0]
          /\ cursor = [m \in Members |-> 0] /\ opted = {} /\ crossed = {} /\ wiped = FALSE
      BY DEF Init, PresInit
    <3>2. 0 \in 0 .. MaxCalls /\ 0 \in 0 .. MaxLeaves /\ 0 \in 0 .. Len(log)
      BY <2>1, PresenceAssumption DEF PresenceAssumption
    <3>3. QED
      BY <3>1, <3>2 DEF MembersOK
  <2>3. PostsOK
    BY <2>1 DEF Init, PostsOK, NoPost
  <2>4. QED
    BY <2>2, <2>3, SpeakersInit
<1>2. I /\ [Next]_vars => I'
  BY SpeakersStep, TypedStep
<1>3. I => TypeOK
  <2> SUFFICES ASSUME I PROVE TypeOK
    OBVIOUS
  <2>1. PresTypeOK
    <3>1. FileTypeOK /\ recent \subseteq Members
      BY DEF SpeakersKept, RoomKept, Kept
    <3>2. wiped \in BOOLEAN
      BY Zenon DEF MembersOK
    <3>3. QED
      BY <3>1, <3>2 DEF PresTypeOK, FileTypeOK, MembersOK, Waits, LeaveCalls
  <2>2. \A i \in 1 .. Len(log) : log[i] \in Posts \/ IsEvent(log[i])
    <3>1. log \in Seq(Records)
      BY DEF SpeakersKept, RoomKept
    <3>2. ASSUME NEW r \in Records
          PROVE  r \in Posts \/ IsEvent(r)
      <4>1. CASE r \in Posts
        BY <4>1
      <4>2. CASE r \notin Posts
        <5>1. PICK m \in Members, kind \in {"join", "leave"} : r = Event(m, kind)
          BY <4>2 DEF Records
        <5>2. QED
          BY <5>1, PostsAreNoEvents
      <4>3. QED
        BY <4>1, <4>2
    <3>3. QED
      BY <3>1, <3>2
  <2>3. post \in [Posters ->
          [pc : PostPCs, at : 0 .. Len(log), polling : SUBSET (Members \X Nat),
           seen : [Members -> Entries \cup {Absent}], fresh : SUBSET Members, blind : BOOLEAN,
           todo : SUBSET Members, targets : SUBSET Members]]
    <3>1. post \in [Posters -> Postings]
      BY DEF SpeakersKept
    <3>2. Len(log) \in Nat
      BY DEF SpeakersKept, RoomKept
    <3>3. \A p \in Posters : post[p] \in Postings /\ post[p].at \in 0 .. Len(log)
      BY <3>1, <3>2 DEF PostsOK, Postings
    <3>4. QED
      BY <3>1, <3>3 DEF Postings
  <2>4. QED
    BY <2>1, <2>2, <2>3 DEF TypeOK, PostsOK
<1> HIDE DEF I
<1>4. QED
  BY <1>1, <1>2, <1>3, PTL DEF Spec
=============================================================================

---------------------------- MODULE ThreadProofs ----------------------------
(***************************************************************************)
(* Proofs about ThreadLog and ThreadWait, for any number of processes,     *)
(* participants, records and deaths.  In order: the types of the log; its  *)
(* numbering; its lines; what a torn record can cost; the waiting process  *)
(* and what it has handed over; and that a thread is a Room.               *)
(*                                                                         *)
(* TailMisses = FALSE, where it is assumed, is that _read_last_record      *)
(* finds the last record behind a line that does not parse.                *)
(***************************************************************************)
EXTENDS ThreadWait, FiniteSetTheorems, TLAPS

LEMMA NoAppendType == NoAppend \in Appends
<1>1. (CHOOSE b \in Bodies : TRUE) \in Bodies
  BY ThreadLogAssumption, Zenon
<1>2. QED
  BY <1>1 DEF NoAppend, Appends, AppendPCs

(* A line that gets another form in place.                                 *)
Relined(lines, n, line) == [lines EXCEPT ![n] = line]

LEMMA LineForms ==
  ASSUME NEW line \in Lines, NEW whole \in BOOLEAN
  PROVE  /\ [line EXCEPT !.whole = whole] \in Lines
         /\ [line EXCEPT !.whole = whole, !.ended = TRUE] \in Lines
         /\ [line EXCEPT !.whole = whole].whole = whole
         /\ [line EXCEPT !.whole = whole, !.ended = TRUE].whole = whole
         /\ [line EXCEPT !.whole = whole].seq = line.seq
         /\ [line EXCEPT !.whole = whole, !.ended = TRUE].seq = line.seq
BY DEF Lines

-----------------------------------------------------------------------------
(* What the steps that write do to the log.                                *)

LastLine == log[Len(log)]

LEMMA LastLineType ==
  ASSUME log \in Seq(Lines), log # <<>>
  PROVE  Len(log) \in 1 .. Len(log) /\ LastLine \in Lines
BY DEF LastLine

LEMMA LastLineChange ==
  ASSUME log \in Seq(Lines), log # <<>>, NEW whole \in BOOLEAN,
         \/ log' = [log EXCEPT ![Len(log)].whole = whole]
         \/ log' = [log EXCEPT ![Len(log)].whole = whole, ![Len(log)].ended = TRUE]
  PROVE  /\ log' \in Seq(Lines) /\ log' # <<>>
         /\ Len(log') = Len(log)
         /\ \A i \in 1 .. Len(log) : log'[i].seq = log[i].seq
         /\ \A i \in 1 .. Len(log) :
              log'[i].whole = IF i = Len(log) THEN whole ELSE log[i].whole
<1>1. Len(log) \in 1 .. Len(log) /\ LastLine \in Lines
  BY LastLineType
<1>2. PICK line \in Lines : /\ log' = Relined(log, Len(log), line)
                           /\ line.whole = whole
                           /\ line.seq = LastLine.seq
  <2>1. CASE log' = [log EXCEPT ![Len(log)].whole = whole]
    <3> DEFINE new == [LastLine EXCEPT !.whole = whole]
    <3>1. log' = Relined(log, Len(log), new)
      BY <2>1 DEF Relined, LastLine
    <3>2. new \in Lines /\ new.whole = whole /\ new.seq = LastLine.seq
      BY <1>1, LineForms
    <3> HIDE DEF new
    <3>3. QED
      BY <3>1, <3>2
  <2>2. CASE log' = [log EXCEPT ![Len(log)].whole = whole, ![Len(log)].ended = TRUE]
    <3> DEFINE new == [LastLine EXCEPT !.whole = whole, !.ended = TRUE]
    <3>1. log' = Relined(log, Len(log), new)
      BY <1>1, <2>2 DEF Relined, LastLine
    <3>2. new \in Lines /\ new.whole = whole /\ new.seq = LastLine.seq
      BY <1>1, LineForms
    <3> HIDE DEF new
    <3>3. QED
      BY <3>1, <3>2
  <2>3. QED
    BY <2>1, <2>2
<1>3. /\ Len(log') = Len(log)
      /\ log' \in Seq(Lines)
      /\ \A i \in 1 .. Len(log) : log'[i] = IF i = Len(log) THEN line ELSE log[i]
  BY <1>1, <1>2 DEF Relined
<1>4. log' # <<>>
  BY <1>1, <1>3
<1>5. QED
  BY <1>1, <1>2, <1>3, <1>4 DEF LastLine

LEMMA LineAdded ==
  ASSUME log \in Seq(Lines), NEW line \in Lines, log' = Append(log, line)
  PROVE  /\ log' \in Seq(Lines) /\ log' # <<>>
         /\ Len(log') = Len(log) + 1
         /\ \A i \in 1 .. Len(log) : log'[i] = log[i]
         /\ log'[Len(log) + 1] = line
OBVIOUS

-----------------------------------------------------------------------------
(* Every variable of the log keeps its type, and a process that is writing *)
(* has a line to write to.                                                 *)
WriterHasLine == \A p \in Procs : app[p].pc = "writing" => log # <<>>

LEMMA AppendForms ==
  ASSUME NEW a \in Appends
  PROVE  /\ a.pc \in AppendPCs /\ a.id \in Nat /\ a.seq \in Nat
         /\ a.body \in Bodies /\ a.glued \in BOOLEAN
BY DEF Appends

(* Type correctness of the log and of the appends under way, and a process *)
(* in the middle of writing a record has a last line to write (_append_    *)
(* system_event, append_thread_message).                                   *)
THEOREM LogTypeCorrect == LogSpec => [](LogTypeOK /\ WriterHasLine)
<1> USE ThreadLogAssumption, NoAppendType DEF LogTypeOK, WriterHasLine
<1>1. LogInit => LogTypeOK /\ WriterHasLine
  <2> SUFFICES ASSUME LogInit PROVE LogTypeOK /\ WriterHasLine
    OBVIOUS
  <2>1. NoAppend.pc = "idle"
    BY DEF NoAppend
  <2>2. app \in [Procs -> Appends] /\ \A p \in Procs : app[p].pc = "idle"
    BY <2>1 DEF LogInit
  <2>3. QED
    BY <2>2 DEF LogInit
<1>2. LogTypeOK /\ WriterHasLine /\ [LogNext]_logVars => (LogTypeOK /\ WriterHasLine)'
  <2> SUFFICES ASSUME LogTypeOK, WriterHasLine, [LogNext]_logVars
               PROVE  (LogTypeOK /\ WriterHasLine)'
    OBVIOUS
  <2>1. CASE UNCHANGED logVars
    BY <2>1 DEF logVars
  <2>2. ASSUME NEW p \in Procs, NEW body \in Bodies, Begin(p, body)
        PROVE  (LogTypeOK /\ WriterHasLine)'
    BY <2>2 DEF Begin, Appends, AppendPCs
  <2>3. ASSUME NEW p \in Procs, TakeLock(p)
        PROVE  (LogTypeOK /\ WriterHasLine)'
    BY <2>3 DEF TakeLock, Lock!Take, Step, Appends, AppendPCs
  <2>4. ASSUME NEW p \in Procs, ReadLast(p)
        PROVE  (LogTypeOK /\ WriterHasLine)'
    <3>1. PICK n \in Nat : Numbered(p, n)
      <4>1. \A i \in 1 .. Len(log) : log[i].seq + 1 \in Nat
        <5>1. \A i \in 1 .. Len(log) : log[i] \in Lines
          OBVIOUS
        <5>2. QED
          BY <5>1 DEF Lines
      <4>2. QED
        BY <2>4, <4>1 DEF ReadLast
    <3>2. QED
      BY <2>4, <3>1 DEF ReadLast, Numbered, Appends, AppendPCs
  <2>5. ASSUME NEW p \in Procs, StartWrite(p)
        PROVE  (LogTypeOK /\ WriterHasLine)'
    <3>1. log' \in Seq(Lines) /\ log' # <<>>
      <4>1. CASE Unfinished
        BY <2>5, <4>1, LastLineChange DEF StartWrite, Unfinished
      <4>2. CASE ~Unfinished
        <5>1. Line(p) \in Lines
          BY AppendForms DEF Line, Lines
        <5>2. QED
          BY <2>5, <4>2, <5>1, LineAdded DEF StartWrite
      <4>3. QED
        BY <4>1, <4>2
    <3>2. Unfinished \in BOOLEAN
      <4>1. CASE log = <<>>
        BY <4>1 DEF Unfinished
      <4>2. CASE log # <<>>
        BY <4>2, LastLineType DEF Unfinished, LastLine, Lines
      <4>3. QED
        BY <4>1, <4>2
    <3>3. app' \in [Procs -> Appends]
      BY <2>5, <3>2 DEF StartWrite, Appends, AppendPCs
    <3>4. QED
      BY <2>5, <3>1, <3>3 DEF StartWrite
  <2>6. ASSUME NEW p \in Procs, EndWrite(p)
        PROVE  (LogTypeOK /\ WriterHasLine)'
    <3>1. log' \in Seq(Lines) /\ log' # <<>>
      <4>1. log # <<>>
        BY <2>6 DEF EndWrite, Step
      <4>2. QED
        BY <2>6, <4>1, LastLineChange DEF EndWrite
    <3>2. QED
      BY <2>6, <3>1 DEF EndWrite, Step, Appends, AppendPCs
  <2>7. ASSUME NEW p \in Procs, Unlock(p)
        PROVE  (LogTypeOK /\ WriterHasLine)'
    BY <2>7, AppendForms DEF Unlock, Lock!Give, Done, NoAppend
  <2>8. ASSUME NEW p \in Procs, GiveUp(p)
        PROVE  (LogTypeOK /\ WriterHasLine)'
    BY <2>8 DEF GiveUp, Done, NoAppend
  <2>9. ASSUME NEW p \in Procs, Crash(p)
        PROVE  (LogTypeOK /\ WriterHasLine)'
    <3>1. holder' \in Procs \cup {Free} /\ torn' \in Nat
      BY <2>9 DEF Crash, Lock!Die, Lock!Give
    <3>2. log' \in Seq(Lines) /\ (log # <<>> => log' # <<>>)
      <4>1. CASE app[p].pc = "writing"
        <5>1. PICK whole \in BOOLEAN : log' = [log EXCEPT ![Len(log)].whole = whole]
          BY <2>9, <4>1, AppendForms DEF Crash
        <5>2. QED
          BY <4>1, <5>1, LastLineChange
      <4>2. CASE app[p].pc # "writing"
        BY <2>9, <4>2 DEF Crash
      <4>3. QED
        BY <4>1, <4>2
    <3>3. QED
      BY <2>9, <3>1, <3>2 DEF Crash, NoAppend
  <2>10. QED
    BY <2>1, <2>2, <2>3, <2>4, <2>5, <2>6, <2>7, <2>8, <2>9 DEF LogNext, AppendStep
<1>3. QED
  BY <1>1, <1>2, PTL DEF LogSpec

-----------------------------------------------------------------------------
(* The numbering.  What keeps it inductive: who reads the last seq holds   *)
(* the lock until its own record is in the file, so the seq it is about to *)
(* write is above every other one.  A record glued to a torn line never    *)
(* parses, so its seq may be used again.                                   *)

InSection == {"read", "write", "writing", "unlock"}

SectionHeld == \A p \in Procs : app[p].pc \in InSection => holder = p

AboveAll == \A p \in Procs : app[p].pc = "write" =>
              \A i \in 1 .. Len(log) : Whole(i) => log[i].seq < app[p].seq

LastIsAbove == \A i \in 1 .. Len(log) - 1 : Whole(i) => log[i].seq < log[Len(log)].seq

WritingAbove == \A p \in Procs : app[p].pc = "writing" =>
                  IF app[p].glued THEN ~Whole(Len(log)) ELSE LastIsAbove

Numbering == SectionHeld /\ AboveAll /\ WritingAbove /\ SeqIncreasing

LEMMA NumberingInit == LogInit => Numbering
<1> SUFFICES ASSUME LogInit PROVE Numbering
  OBVIOUS
<1>1. \A p \in Procs : app[p].pc = "idle"
  BY DEF LogInit, NoAppend
<1>2. \A i \in 1 .. Len(log) : FALSE
  BY DEF LogInit
<1>3. QED
  BY <1>1, <1>2 DEF Numbering, SectionHeld, InSection, AboveAll, WritingAbove, SeqIncreasing

(* Steps that leave the log alone and put no process in a place that says  *)
(* more about it.                                                          *)
OnlyLockMoved ==
  /\ UNCHANGED log
  /\ \A q \in Procs :
       \/ app'[q] = app[q] /\ (app[q].pc \in InSection => holder' = holder)
       \/ app'[q].pc \notin InSection
       \/ app'[q].pc = "read" /\ holder' = q

LEMMA NumberingKept ==
  ASSUME Numbering, OnlyLockMoved
  PROVE  Numbering'
BY DEF OnlyLockMoved, Numbering, SectionHeld, InSection, AboveAll, WritingAbove, LastIsAbove, SeqIncreasing, Whole

(* The holder is the only process in its section.                          *)
LEMMA AloneInSection ==
  ASSUME SectionHeld, NEW p \in Procs, app[p].pc \in InSection
  PROVE  \A q \in Procs \ {p} : app[q].pc \notin InSection
BY DEF SectionHeld

LEMMA NumberedAbove ==
  ASSUME LogTypeOK, Numbering, TailMisses = FALSE, NEW p \in Procs, ReadLast(p)
  PROVE  Numbering'
<1>1. PICK n \in Nat : /\ Numbered(p, n)
                      /\ \A i \in 1 .. Len(log) : Whole(i) => log[i].seq < n
  <2>1. CASE \E i \in 1 .. Len(log) : LastRecord(i) /\ Numbered(p, log[i].seq + 1)
    <3>1. PICK i \in 1 .. Len(log) : LastRecord(i) /\ Numbered(p, log[i].seq + 1)
      BY <2>1
    <3>2. \A j \in 1 .. Len(log) : log[j].seq \in Nat
      <4>1. \A j \in 1 .. Len(log) : log[j] \in Lines
        BY DEF LogTypeOK
      <4>2. QED
        BY <4>1 DEF Lines
    <3>3. \A j \in 1 .. Len(log) : Whole(j) => j = i \/ j < i
      BY <3>1 DEF LastRecord
    <3>4. \A j \in 1 .. Len(log) : Whole(j) => log[j].seq < log[i].seq + 1
      BY <3>1, <3>2, <3>3 DEF Numbering, SeqIncreasing, LastRecord
    <3>5. QED
      BY <3>1, <3>2, <3>4
  <2>2. CASE NoneFound /\ Numbered(p, 1)
    BY <2>2 DEF NoneFound
  <2>3. QED
    BY <2>1, <2>2 DEF ReadLast
<1>2. app[p].pc = "read" /\ UNCHANGED <<log, holder>>
  BY DEF ReadLast
<1>3. \A q \in Procs \ {p} : app'[q] = app[q] /\ app[q].pc \notin InSection
  BY <1>1, <1>2, AloneInSection DEF Numbered, Numbering, LogTypeOK, InSection
<1>4. app'[p].pc = "write" /\ app'[p].seq = n
  BY <1>1 DEF Numbered, LogTypeOK, Appends
<1>5. holder' = p
  BY <1>2 DEF Numbering, SectionHeld, InSection
<1>6. QED
  BY <1>1, <1>2, <1>3, <1>4, <1>5
     DEF Numbering, SectionHeld, InSection, AboveAll, WritingAbove, SeqIncreasing, Whole

LEMMA StartedAbove ==
  ASSUME LogTypeOK, Numbering, NEW p \in Procs, StartWrite(p)
  PROVE  Numbering'
<1>1. app[p].pc = "write" /\ UNCHANGED holder
  BY DEF StartWrite
<1>2. /\ app'[p].pc = "writing" /\ app'[p].glued = Unfinished /\ app'[p].seq = app[p].seq
      /\ \A q \in Procs \ {p} : app'[q] = app[q] /\ app[q].pc \notin InSection
  BY <1>1, AloneInSection DEF StartWrite, Numbering, LogTypeOK, Appends, InSection
<1>3. SectionHeld'
  BY <1>1, <1>2 DEF Numbering, SectionHeld, InSection
<1>4. CASE Unfinished
  <2>1. /\ log # <<>> /\ Len(log') = Len(log)
        /\ \A i \in 1 .. Len(log) : log'[i].seq = log[i].seq
        /\ \A i \in 1 .. Len(log) :
             log'[i].whole = IF i = Len(log) THEN FALSE ELSE log[i].whole
    BY <1>4, LastLineChange DEF StartWrite, Unfinished, LogTypeOK
  <2>2. \A i \in Nat : Whole(i)' => Whole(i) /\ i # Len(log)
    BY <2>1 DEF Whole
  <2>3. SeqIncreasing'
    BY <2>1, <2>2 DEF Numbering, SeqIncreasing
  <2>4. ~Whole(Len(log))'
    BY <2>1 DEF Whole
  <2>5. QED
    BY <1>2, <1>3, <1>4, <2>3, <2>4 DEF Numbering, AboveAll, WritingAbove, InSection
<1>5. CASE ~Unfinished
  <2>1. Line(p) \in Lines /\ Line(p).seq = app[p].seq /\ Line(p).whole = FALSE
    BY AppendForms DEF Line, Lines, LogTypeOK
  <2>2. /\ Len(log') = Len(log) + 1
        /\ \A i \in 1 .. Len(log) : log'[i] = log[i]
        /\ log'[Len(log) + 1] = Line(p)
    BY <1>5, <2>1, LineAdded DEF StartWrite, LogTypeOK
  <2>3. Len(log) \in Nat
    BY DEF LogTypeOK
  <2>4. \A i \in 1 .. Len(log') : Whole(i)' => i \in 1 .. Len(log) /\ Whole(i)
    BY <2>1, <2>2, <2>3 DEF Whole
  <2>5. SeqIncreasing'
    BY <2>2, <2>3, <2>4 DEF Numbering, SeqIncreasing
  <2>6. LastIsAbove'
    BY <1>1, <2>1, <2>2, <2>3, <2>4 DEF Numbering, AboveAll, LastIsAbove
  <2>7. QED
    BY <1>2, <1>3, <1>5, <2>5, <2>6 DEF Numbering, AboveAll, WritingAbove, InSection
<1>6. QED
  BY <1>4, <1>5

(* A line that was being written may turn out whole: by then its seq is    *)
(* above the others.                                                       *)
LEMMA FinishedAbove ==
  ASSUME LogTypeOK, WriterHasLine, Numbering, NEW p \in Procs, app[p].pc = "writing",
         NEW whole \in {FALSE, ~app[p].glued},
         \/ log' = [log EXCEPT ![Len(log)].whole = whole]
         \/ log' = [log EXCEPT ![Len(log)].whole = whole, ![Len(log)].ended = TRUE],
         app'[p].pc \in {"unlock", "idle"},
         app'[p].pc = "unlock" => holder' = holder,
         \A q \in Procs \ {p} : app'[q] = app[q]
  PROVE  Numbering'
<1>1. /\ log # <<>> /\ Len(log') = Len(log)
      /\ \A i \in 1 .. Len(log) : log'[i].seq = log[i].seq
      /\ \A i \in 1 .. Len(log) :
           log'[i].whole = IF i = Len(log) THEN whole ELSE log[i].whole
  BY LastLineChange, AppendForms DEF LogTypeOK, WriterHasLine
<1>2. \A q \in Procs \ {p} : app'[q].pc \notin InSection
  BY AloneInSection DEF Numbering, InSection
<1>3. Len(log) \in Nat \ {0}
  BY <1>1 DEF LogTypeOK
<1>4. \A i, j \in 1 .. Len(log) :
        i < j /\ Whole(i)' /\ Whole(j)' => log[i].seq < log[j].seq
  <2> SUFFICES ASSUME NEW i \in 1 .. Len(log), NEW j \in 1 .. Len(log),
                      i < j, Whole(i)', Whole(j)'
               PROVE  log[i].seq < log[j].seq
    OBVIOUS
  <2>1. Whole(i)
    BY <1>1, <1>3 DEF Whole
  <2>2. CASE j # Len(log)
    BY <1>1, <2>1, <2>2 DEF Whole, Numbering, SeqIncreasing
  <2>3. CASE j = Len(log)
    <3>1. whole
      BY <1>1, <2>3 DEF Whole
    <3>2. LastIsAbove
      BY <3>1 DEF Numbering, WritingAbove
    <3>3. QED
      BY <1>3, <2>1, <2>3, <3>2 DEF LastIsAbove
  <2>4. QED
    BY <2>2, <2>3
<1>5. SeqIncreasing'
  BY <1>1, <1>4 DEF SeqIncreasing
<1>6. QED
  BY <1>2, <1>5 DEF Numbering, SectionHeld, InSection, AboveAll, WritingAbove

(* The records of the file are numbered in file order and no seq is used   *)
(* twice, whatever append_thread_message and _append_system_event calls    *)
(* interleave and die, if every _read_last_record finds the last record.   *)
THEOREM SeqsIncrease ==
  ASSUME TailMisses = FALSE
  PROVE  LogSpec => []SeqIncreasing
<1>1. LogTypeOK /\ WriterHasLine /\ Numbering /\ [LogNext]_logVars => Numbering'
  <2> SUFFICES ASSUME LogTypeOK, WriterHasLine, Numbering, [LogNext]_logVars
               PROVE  Numbering'
    OBVIOUS
  <2> USE DEF LogTypeOK
  <2>1. CASE UNCHANGED logVars
    BY <2>1, NumberingKept DEF logVars, OnlyLockMoved
  <2>2. ASSUME NEW p \in Procs, NEW body \in Bodies, Begin(p, body)
        PROVE  Numbering'
    <3>1. app'[p].pc = "lock" /\ \A q \in Procs \ {p} : app'[q] = app[q]
      BY <2>2 DEF Begin
    <3>2. OnlyLockMoved
      BY <2>2, <3>1 DEF Begin, OnlyLockMoved, InSection
    <3>3. QED
      BY <3>2, NumberingKept
  <2>3. ASSUME NEW p \in Procs, TakeLock(p)
        PROVE  Numbering'
    <3>1. \A q \in Procs : app[q].pc \notin InSection
      BY <2>3, ThreadLogAssumption DEF TakeLock, Lock!Take, Numbering, SectionHeld
    <3>2. app'[p].pc = "read" /\ \A q \in Procs \ {p} : app'[q] = app[q]
      BY <2>3 DEF TakeLock, Step, Appends
    <3>3. OnlyLockMoved
      BY <2>3, <3>1, <3>2 DEF TakeLock, Lock!Take, OnlyLockMoved
    <3>4. QED
      BY <3>3, NumberingKept
  <2>4. ASSUME NEW p \in Procs, ReadLast(p)
        PROVE  Numbering'
    BY <2>4, NumberedAbove
  <2>5. ASSUME NEW p \in Procs, StartWrite(p)
        PROVE  Numbering'
    BY <2>5, StartedAbove
  <2>6. ASSUME NEW p \in Procs, EndWrite(p)
        PROVE  Numbering'
    BY <2>6, FinishedAbove DEF EndWrite, Step, Appends
  <2>7. ASSUME NEW p \in Procs, Unlock(p)
        PROVE  Numbering'
    <3>1. \A q \in Procs \ {p} : app'[q] = app[q] /\ app[q].pc \notin InSection
      BY <2>7, AloneInSection DEF Unlock, Done, Numbering, InSection
    <3>2. app'[p].pc \notin InSection
      BY <2>7 DEF Unlock, Done, NoAppend, InSection
    <3>3. OnlyLockMoved
      BY <2>7, <3>1, <3>2 DEF Unlock, OnlyLockMoved
    <3>4. QED
      BY <3>3, NumberingKept
  <2>8. ASSUME NEW p \in Procs, GiveUp(p)
        PROVE  Numbering'
    <3>1. app'[p].pc = "idle" /\ \A q \in Procs \ {p} : app'[q] = app[q]
      BY <2>8 DEF GiveUp, Done, NoAppend
    <3>2. OnlyLockMoved
      BY <2>8, <3>1 DEF GiveUp, OnlyLockMoved, InSection
    <3>3. QED
      BY <3>2, NumberingKept
  <2>9. ASSUME NEW p \in Procs, Crash(p)
        PROVE  Numbering'
    <3>1. /\ app'[p].pc = "idle"
          /\ \A q \in Procs \ {p} : app'[q] = app[q]
      BY <2>9 DEF Crash, NoAppend
    <3>2. CASE app[p].pc = "writing"
      <4>1. PICK whole \in {FALSE, ~app[p].glued} : log' = [log EXCEPT ![Len(log)].whole = whole]
        BY <2>9, <3>2 DEF Crash
      <4>2. QED
        BY <3>1, <3>2, <4>1, FinishedAbove
    <3>3. CASE app[p].pc # "writing"
      <4>1. \A q \in Procs \ {p} : app[q].pc \in InSection => holder' = holder
        BY <2>9 DEF Crash, Numbering, SectionHeld
      <4>2. OnlyLockMoved
        BY <2>9, <3>1, <3>3, <4>1 DEF Crash, OnlyLockMoved, InSection
      <4>3. QED
        BY <4>2, NumberingKept
    <3>4. QED
      BY <3>2, <3>3
  <2>10. QED
    BY <2>1, <2>2, <2>3, <2>4, <2>5, <2>6, <2>7, <2>8, <2>9 DEF LogNext, AppendStep
<1>2. Numbering => SeqIncreasing
  BY DEF Numbering
<1>3. QED
  BY <1>1, <1>2, NumberingInit, LogTypeCorrect, PTL DEF LogSpec

-----------------------------------------------------------------------------
(* The lines of the log.  A step that writes rewrites the last line or     *)
(* adds one.                                                               *)

Rewritten(whole, ended) ==
  [id |-> LastLine.id, seq |-> LastLine.seq, body |-> LastLine.body,
   whole |-> whole, ended |-> ended]

LEMMA EndedShape ==
  ASSUME NEW line \in Lines, NEW ended
  PROVE  [line EXCEPT !.ended = ended]
           = [id |-> line.id, seq |-> line.seq, body |-> line.body,
              whole |-> line.whole, ended |-> ended]
BY DEF Lines

LEMMA LineShape ==
  ASSUME NEW line \in Lines, NEW whole \in BOOLEAN
  PROVE  /\ [line EXCEPT !.whole = whole]
              = [id |-> line.id, seq |-> line.seq, body |-> line.body,
                 whole |-> whole, ended |-> line.ended]
         /\ [line EXCEPT !.whole = whole, !.ended = TRUE]
              = [id |-> line.id, seq |-> line.seq, body |-> line.body,
                 whole |-> whole, ended |-> TRUE]
<1> DEFINE one == [line EXCEPT !.whole = whole]
<1>1. one = [id |-> line.id, seq |-> line.seq, body |-> line.body,
             whole |-> whole, ended |-> line.ended]
  BY DEF Lines
<1>2. one \in Lines /\ [line EXCEPT !.whole = whole, !.ended = TRUE] = [one EXCEPT !.ended = TRUE]
  BY DEF Lines
<1> HIDE DEF one
<1>3. [one EXCEPT !.ended = TRUE]
        = [id |-> one.id, seq |-> one.seq, body |-> one.body,
           whole |-> one.whole, ended |-> TRUE]
  BY <1>2, EndedShape
<1>4. one.id = line.id /\ one.seq = line.seq /\ one.body = line.body /\ one.whole = whole
  BY <1>1
<1>5. QED
  BY <1>1, <1>2, <1>3, <1>4 DEF one

LEMMA LastLineShape ==
  ASSUME log \in Seq(Lines), log # <<>>, NEW whole \in BOOLEAN
  PROVE  /\ [log EXCEPT ![Len(log)].whole = whole]
              = Relined(log, Len(log), Rewritten(whole, LastLine.ended))
         /\ [log EXCEPT ![Len(log)].whole = whole, ![Len(log)].ended = TRUE]
              = Relined(log, Len(log), Rewritten(whole, TRUE))
<1>1. Len(log) \in 1 .. Len(log) /\ LastLine \in Lines
  BY LastLineType
<1>2. /\ [LastLine EXCEPT !.whole = whole] = Rewritten(whole, LastLine.ended)
      /\ [LastLine EXCEPT !.whole = whole, !.ended = TRUE] = Rewritten(whole, TRUE)
  BY <1>1, LineShape DEF Rewritten
<1>3. [log EXCEPT ![Len(log)].whole = whole]
        = Relined(log, Len(log), [LastLine EXCEPT !.whole = whole])
  BY DEF Relined, LastLine
<1>4. [log EXCEPT ![Len(log)].whole = whole, ![Len(log)].ended = TRUE]
        = Relined(log, Len(log), [LastLine EXCEPT !.whole = whole, !.ended = TRUE])
  BY <1>1 DEF Relined, LastLine
<1>5. QED
  BY <1>2, <1>3, <1>4

LEMMA LastLineRewritten ==
  ASSUME log \in Seq(Lines), log # <<>>, NEW whole \in BOOLEAN, NEW ended \in BOOLEAN,
         log' = Relined(log, Len(log), Rewritten(whole, ended))
  PROVE  /\ log' # <<>>
         /\ Len(log') = Len(log)
         /\ \A i \in 1 .. Len(log) :
              log'[i] = IF i = Len(log) THEN Rewritten(whole, ended) ELSE log[i]
<1>1. Len(log) \in 1 .. Len(log) /\ LastLine \in Lines
  BY LastLineType
<1>2. QED
  BY <1>1 DEF Relined

(* What the steps do to the file, each in one line.                        *)
Glues(p) == log # <<>> /\ log' = Relined(log, Len(log), Rewritten(FALSE, FALSE))
Adds(p) == log' = Append(log, Line(p))
Closes(p) == log # <<>> /\ log' = Relined(log, Len(log), Rewritten(~app[p].glued, TRUE))
Leaves(p) == /\ log # <<>>
             /\ \E whole \in {FALSE, ~app[p].glued} :
                  log' = Relined(log, Len(log), Rewritten(whole, LastLine.ended))

(* How far a process is with the lock, and which lines may be without      *)
(* their newline: only the last, while it is written or after its writer   *)
(* died.                                                                   *)
OnlyLastOpen == \A i \in 1 .. Len(log) - 1 : log[i].ended

OwnLine(p) ==
  /\ app[p].pc = "writing" => Unfinished
  /\ app[p].pc = "unlock" => ~Unfinished

Lined == SectionHeld /\ OnlyLastOpen /\ \A p \in Procs : OwnLine(p)

LEMMA UnfinishedForm ==
  ASSUME log \in Seq(Lines)
  PROVE  /\ Unfinished \in BOOLEAN
         /\ Unfinished <=> log # <<>> /\ ~LastLine.ended
<1>1. CASE log = <<>>
  BY <1>1 DEF Unfinished
<1>2. CASE log # <<>>
  BY <1>2, LastLineType DEF Unfinished, LastLine, Lines
<1>3. QED
  BY <1>1, <1>2

(* Only the process in its section changes; the others are outside it.     *)
LEMMA StepsLined ==
  ASSUME LogTypeOK, Lined, NEW p \in Procs
  PROVE  /\ StartWrite(p) =>
              /\ IF Unfinished THEN Glues(p) ELSE Adds(p)
              /\ \A q \in Procs \ {p} : app[q].pc \notin InSection
              /\ app' = [app EXCEPT ![p].pc = "writing", ![p].glued = Unfinished]
         /\ EndWrite(p) =>
              /\ Unfinished /\ Closes(p)
              /\ \A q \in Procs \ {p} : app[q].pc \notin InSection
         /\ Crash(p) /\ app[p].pc = "writing" =>
              /\ Unfinished /\ Leaves(p)
              /\ \A q \in Procs \ {p} : app[q].pc \notin InSection
<1>1. ASSUME app[p].pc \in InSection
      PROVE  \A q \in Procs \ {p} : app[q].pc \notin InSection
  BY <1>1, AloneInSection DEF Lined
<1>2. app[p].glued \in BOOLEAN
  BY AppendForms DEF LogTypeOK
<1>3. ASSUME StartWrite(p), Unfinished PROVE Glues(p)
  <2>1. log # <<>> /\ LastLine.ended = FALSE
    BY <1>3, UnfinishedForm, LastLineType DEF LogTypeOK, Lines
  <2>2. log' = [log EXCEPT ![Len(log)].whole = FALSE]
    BY <1>3 DEF StartWrite
  <2>3. QED
    BY <2>1, <2>2, LastLineShape DEF LogTypeOK, Glues
<1>4. ASSUME EndWrite(p) PROVE Unfinished /\ Closes(p)
  <2>1. Unfinished /\ log # <<>>
    BY <1>4, UnfinishedForm DEF EndWrite, Step, Lined, OwnLine, LogTypeOK
  <2>2. QED
    BY <1>2, <1>4, <2>1, LastLineShape DEF EndWrite, LogTypeOK, Closes
<1>5. ASSUME Crash(p), app[p].pc = "writing" PROVE Unfinished /\ Leaves(p)
  <2>1. Unfinished /\ log # <<>>
    BY <1>5, UnfinishedForm DEF Lined, OwnLine, LogTypeOK
  <2>2. QED
    BY <1>2, <1>5, <2>1, LastLineShape DEF Crash, LogTypeOK, Leaves
<1>6. ASSUME StartWrite(p)
      PROVE  /\ IF Unfinished THEN Glues(p) ELSE Adds(p)
             /\ app' = [app EXCEPT ![p].pc = "writing", ![p].glued = Unfinished]
  BY <1>3, <1>6 DEF StartWrite, Adds
<1>7. /\ StartWrite(p) => app[p].pc \in InSection
      /\ EndWrite(p) => app[p].pc \in InSection
      /\ app[p].pc = "writing" => app[p].pc \in InSection
  BY DEF StartWrite, EndWrite, Step, InSection
<1>8. QED
  BY <1>1, <1>4, <1>5, <1>6, <1>7

(* The steps that leave the file alone and read nothing from it.           *)
LockOnly(p) ==
  \/ \E body \in Bodies : Begin(p, body)
  \/ TakeLock(p) \/ Unlock(p) \/ GiveUp(p)
  \/ Crash(p) /\ app[p].pc # "writing"

LEMMA LockOnlyMoves ==
  ASSUME LogTypeOK, SectionHeld, NEW p \in Procs, LockOnly(p)
  PROVE  OnlyLockMoved
<1> USE DEF LogTypeOK
<1>1. ASSUME NEW body \in Bodies, Begin(p, body) PROVE OnlyLockMoved
  <2>1. app'[p].pc = "lock" /\ \A q \in Procs \ {p} : app'[q] = app[q]
    BY <1>1 DEF Begin
  <2>2. QED
    BY <1>1, <2>1 DEF Begin, OnlyLockMoved, InSection
<1>2. CASE TakeLock(p)
  <2>1. \A q \in Procs : app[q].pc \notin InSection
    BY <1>2, ThreadLogAssumption DEF TakeLock, Lock!Take, SectionHeld
  <2>2. app'[p].pc = "read" /\ \A q \in Procs \ {p} : app'[q] = app[q]
    BY <1>2 DEF TakeLock, Step, Appends
  <2>3. QED
    BY <1>2, <2>1, <2>2 DEF TakeLock, Lock!Take, OnlyLockMoved
<1>3. CASE Unlock(p)
  <2>1. \A q \in Procs \ {p} : app'[q] = app[q] /\ app[q].pc \notin InSection
    BY <1>3, AloneInSection DEF Unlock, Done, InSection
  <2>2. app'[p].pc \notin InSection
    BY <1>3 DEF Unlock, Done, NoAppend, InSection
  <2>3. QED
    BY <1>3, <2>1, <2>2 DEF Unlock, OnlyLockMoved
<1>4. CASE GiveUp(p)
  <2>1. app'[p].pc = "idle" /\ \A q \in Procs \ {p} : app'[q] = app[q]
    BY <1>4 DEF GiveUp, Done, NoAppend
  <2>2. QED
    BY <1>4, <2>1 DEF GiveUp, OnlyLockMoved, InSection
<1>5. CASE Crash(p) /\ app[p].pc # "writing"
  <2>1. app'[p].pc = "idle" /\ \A q \in Procs \ {p} : app'[q] = app[q]
    BY <1>5 DEF Crash, NoAppend
  <2>2. \A q \in Procs \ {p} : app[q].pc \in InSection => holder' = holder
    BY <1>5 DEF Crash, SectionHeld
  <2>3. QED
    BY <1>5, <2>1, <2>2 DEF Crash, OnlyLockMoved, InSection
<1>6. QED
  BY <1>1, <1>2, <1>3, <1>4, <1>5 DEF LockOnly

LEMMA LogNextSplit ==
  ASSUME [LogNext]_logVars
  PROVE  \/ UNCHANGED logVars
         \/ \E p \in Procs : LockOnly(p) \/ ReadLast(p) \/ StartWrite(p) \/ EndWrite(p)
                             \/ (Crash(p) /\ app[p].pc = "writing")
<1>1. CASE UNCHANGED logVars
  BY <1>1
<1>2. ASSUME NEW p \in Procs,
             \/ \E body \in Bodies : Begin(p, body)
             \/ AppendStep(p)
             \/ GiveUp(p)
             \/ Crash(p)
      PROVE  \/ LockOnly(p) \/ ReadLast(p) \/ StartWrite(p) \/ EndWrite(p)
             \/ (Crash(p) /\ app[p].pc = "writing")
  BY <1>2, Zenon DEF AppendStep, LockOnly
<1>3. QED
  BY <1>1, <1>2, Zenon DEF LogNext

(* What reading the last record changes.                                   *)
LEMMA ReadLastMoves ==
  ASSUME LogTypeOK, NEW p \in Procs, ReadLast(p)
  PROVE  /\ UNCHANGED <<log, holder, begun, acked, torn>>
         /\ app[p].pc = "read" /\ app'[p].pc = "write"
         /\ app'[p].id = app[p].id /\ app'[p].glued = app[p].glued
         /\ \A q \in Procs \ {p} : app'[q] = app[q]
<1>1. PICK n : Numbered(p, n)
  BY DEF ReadLast
<1>2. app[p].pc = "read" /\ UNCHANGED <<log, holder, begun, acked, torn>>
  BY DEF ReadLast
<1>3. /\ app'[p].pc = "write" /\ app'[p].id = app[p].id /\ app'[p].glued = app[p].glued
      /\ \A q \in Procs \ {p} : app'[q] = app[q]
  BY <1>1 DEF Numbered, LogTypeOK, Appends
<1>4. QED
  BY <1>2, <1>3

LEMMA LinedInit == LogInit => Lined
<1> SUFFICES ASSUME LogInit PROVE Lined
  OBVIOUS
<1>1. \A p \in Procs : app[p].pc = "idle"
  BY DEF LogInit, NoAppend
<1>2. Len(log) = 0
  BY DEF LogInit
<1>3. QED
  BY <1>1, <1>2 DEF Lined, SectionHeld, InSection, OnlyLastOpen, OwnLine

LEMMA LinedStep ==
  ASSUME LogTypeOK, Lined, [LogNext]_logVars
  PROVE  Lined'
<1>1. CASE UNCHANGED logVars
  BY <1>1 DEF logVars, Lined, SectionHeld, OnlyLastOpen, OwnLine, Unfinished
<1>2. ASSUME NEW p \in Procs, LockOnly(p) PROVE Lined'
  <2>1. OnlyLockMoved
    BY <1>2, LockOnlyMoves DEF Lined
  <2>2. QED
    BY <2>1 DEF OnlyLockMoved, Lined, SectionHeld, InSection, OnlyLastOpen, OwnLine, Unfinished
<1>3. ASSUME NEW p \in Procs, ReadLast(p) PROVE Lined'
  BY <1>3, ReadLastMoves
     DEF Lined, SectionHeld, InSection, OnlyLastOpen, OwnLine, Unfinished
<1>4. ASSUME NEW p \in Procs, StartWrite(p) PROVE Lined'
  <2>1. /\ IF Unfinished THEN Glues(p) ELSE Adds(p)
        /\ \A q \in Procs \ {p} : app[q].pc \notin InSection
        /\ app' = [app EXCEPT ![p].pc = "writing", ![p].glued = Unfinished]
    BY <1>4, StepsLined
  <2>2. /\ app'[p].pc = "writing" /\ \A q \in Procs \ {p} : app'[q] = app[q]
        /\ app[p].pc = "write" /\ UNCHANGED holder
    BY <1>4, <2>1 DEF StartWrite, LogTypeOK, Appends
  <2>3. SectionHeld'
    BY <2>1, <2>2 DEF Lined, SectionHeld, InSection
  <2>4. OnlyLastOpen' /\ Unfinished'
    <3>1. CASE Unfinished
      <4>1. Glues(p) /\ log # <<>> /\ Len(log) \in Nat \ {0}
        BY <2>1, <3>1 DEF Glues, LogTypeOK
      <4>2. /\ log' # <<>> /\ Len(log') = Len(log)
            /\ \A i \in 1 .. Len(log) :
                 log'[i] = IF i = Len(log) THEN Rewritten(FALSE, FALSE) ELSE log[i]
        BY <4>1, LastLineRewritten DEF Glues, LogTypeOK
      <4>3. QED
        BY <4>1, <4>2 DEF Lined, OnlyLastOpen, Unfinished, Rewritten
    <3>2. CASE ~Unfinished
      <4>1. Line(p) \in Lines /\ Line(p).ended = FALSE
        BY AppendForms DEF Line, Lines, LogTypeOK
      <4>2. /\ log' # <<>> /\ Len(log') = Len(log) + 1 /\ Len(log) \in Nat
            /\ \A i \in 1 .. Len(log) : log'[i] = log[i]
            /\ log'[Len(log) + 1] = Line(p)
        BY <2>1, <3>2, <4>1, LineAdded DEF Adds, LogTypeOK
      <4>3. \A i \in 1 .. Len(log) : log[i].ended
        BY <3>2, <4>2, UnfinishedForm DEF Lined, OnlyLastOpen, LastLine, LogTypeOK
      <4>4. QED
        BY <4>1, <4>2, <4>3 DEF OnlyLastOpen, Unfinished
    <3>3. QED
      BY <3>1, <3>2
  <2>5. QED
    BY <2>1, <2>2, <2>3, <2>4 DEF Lined, OwnLine, InSection
<1>5. ASSUME NEW p \in Procs, EndWrite(p) PROVE Lined'
  <2>1. /\ Unfinished /\ Closes(p) /\ app[p].glued \in BOOLEAN
        /\ \A q \in Procs \ {p} : app[q].pc \notin InSection
    BY <1>5, StepsLined, AppendForms DEF LogTypeOK
  <2>2. /\ app'[p].pc = "unlock" /\ \A q \in Procs \ {p} : app'[q] = app[q]
        /\ app[p].pc = "writing" /\ UNCHANGED holder
    BY <1>5 DEF EndWrite, Step, LogTypeOK, Appends
  <2>3. SectionHeld'
    BY <2>1, <2>2 DEF Lined, SectionHeld, InSection
  <2>4. /\ log' # <<>> /\ Len(log') = Len(log) /\ Len(log) \in Nat \ {0}
        /\ \A i \in 1 .. Len(log) :
             log'[i] = IF i = Len(log) THEN Rewritten(~app[p].glued, TRUE) ELSE log[i]
    <3>1. log # <<>> /\ (~app[p].glued) \in BOOLEAN
      BY <2>1 DEF Closes
    <3>2. Len(log) \in Nat \ {0}
      BY <3>1 DEF LogTypeOK
    <3>3. QED
      BY <2>1, <3>1, <3>2, LastLineRewritten DEF Closes, LogTypeOK
  <2>5. OnlyLastOpen' /\ ~Unfinished'
    BY <2>4 DEF Lined, OnlyLastOpen, Unfinished, Rewritten
  <2>6. QED
    BY <2>1, <2>2, <2>3, <2>5 DEF Lined, OwnLine, InSection
<1>6. ASSUME NEW p \in Procs, Crash(p), app[p].pc = "writing" PROVE Lined'
  <2>1. /\ Leaves(p) /\ app[p].glued \in BOOLEAN
        /\ \A q \in Procs \ {p} : app[q].pc \notin InSection
    BY <1>6, StepsLined, AppendForms DEF LogTypeOK
  <2>2. app'[p].pc = "idle" /\ \A q \in Procs \ {p} : app'[q] = app[q]
    BY <1>6 DEF Crash, NoAppend, LogTypeOK
  <2>3. PICK whole \in BOOLEAN :
          log' = Relined(log, Len(log), Rewritten(whole, LastLine.ended))
    BY <2>1 DEF Leaves
  <2>4. LastLine.ended \in BOOLEAN
    BY <2>1, LastLineType DEF Leaves, LogTypeOK, Lines
  <2>5. /\ Len(log') = Len(log) /\ Len(log) \in Nat \ {0}
        /\ \A i \in 1 .. Len(log) - 1 : log'[i] = log[i]
    BY <2>1, <2>3, <2>4, LastLineRewritten DEF Leaves, LogTypeOK
  <2>6. QED
    BY <2>1, <2>2, <2>5 DEF Lined, SectionHeld, OnlyLastOpen, OwnLine, InSection
<1>7. QED
  BY <1>1, <1>2, <1>3, <1>4, <1>5, <1>6, LogNextSplit

-----------------------------------------------------------------------------
(* A line that has its newline stays as it is.                             *)
EndedKept ==
  /\ Len(log') >= Len(log)
  /\ \A i \in 1 .. Len(log) : log[i].ended => log'[i] = log[i]

LEMMA LinesKept ==
  ASSUME LogTypeOK, Lined, [LogNext]_logVars
  PROVE  EndedKept
<1>0. Len(log) \in Nat
  BY DEF LogTypeOK
<1>1. ASSUME UNCHANGED log PROVE EndedKept
  BY <1>0, <1>1 DEF EndedKept
<1>2. ASSUME log # <<>>, ~LastLine.ended,
             NEW whole \in BOOLEAN, NEW ended \in BOOLEAN,
             log' = Relined(log, Len(log), Rewritten(whole, ended))
      PROVE  EndedKept
  BY <1>0, <1>2, LastLineRewritten DEF EndedKept, LastLine, LogTypeOK
<1>3. ASSUME NEW p \in Procs, StartWrite(p) PROVE EndedKept
  <2>1. IF Unfinished THEN Glues(p) ELSE Adds(p)
    BY <1>3, StepsLined
  <2>2. CASE Unfinished
    BY <1>2, <2>1, <2>2, UnfinishedForm DEF Glues, LogTypeOK
  <2>3. CASE ~Unfinished
    <3>1. Line(p) \in Lines
      BY AppendForms DEF Line, Lines, LogTypeOK
    <3>2. QED
      BY <1>0, <2>1, <2>3, <3>1, LineAdded DEF Adds, LogTypeOK, EndedKept
  <2>4. QED
    BY <2>2, <2>3
<1>4. ASSUME NEW p \in Procs, EndWrite(p) PROVE EndedKept
  <2>1. Unfinished /\ Closes(p) /\ (~app[p].glued) \in BOOLEAN
    BY <1>4, StepsLined, AppendForms DEF LogTypeOK
  <2>2. QED
    BY <1>2, <2>1, UnfinishedForm DEF Closes, LogTypeOK
<1>5. ASSUME NEW p \in Procs, Crash(p), app[p].pc = "writing" PROVE EndedKept
  <2>1. Unfinished /\ Leaves(p) /\ app[p].glued \in BOOLEAN
    BY <1>5, StepsLined, AppendForms DEF LogTypeOK
  <2>2. log # <<>> /\ ~LastLine.ended /\ LastLine.ended \in BOOLEAN
    BY <2>1, UnfinishedForm, LastLineType DEF LogTypeOK, Lines
  <2>3. PICK whole \in BOOLEAN :
          log' = Relined(log, Len(log), Rewritten(whole, LastLine.ended))
    BY <2>1 DEF Leaves
  <2>4. QED
    BY <1>2, <2>2, <2>3
<1>6. ASSUME NEW p \in Procs, LockOnly(p) PROVE UNCHANGED log
  BY <1>6, LockOnlyMoves DEF OnlyLockMoved, Lined
<1>7. ASSUME NEW p \in Procs, ReadLast(p) PROVE UNCHANGED log
  BY <1>7 DEF ReadLast
<1>8. QED
  BY <1>1, <1>3, <1>4, <1>5, <1>6, <1>7, LogNextSplit DEF logVars

-----------------------------------------------------------------------------
(* How many posts the file has lost.  What keeps the count inductive: a    *)
(* line left open by a writer that died may cost one more post, the one    *)
(* that is glued to it, and that post pays for it when it is acknowledged. *)

Busy(p) == app[p].pc # "idle"

(* Every append in progress has an id of its own, not yet acknowledged.    *)
Ids ==
  /\ acked \subseteq 1 .. begun
  /\ \A p \in Procs : Busy(p) => app[p].id \in 1 .. begun /\ app[p].id \notin acked
  /\ \A p, q \in Procs : p # q /\ Busy(p) /\ Busy(q) => app[p].id # app[q].id

(* A record that is not glued is the last line, and then readable.         *)
Recorded ==
  \A p \in Procs :
    /\ app[p].pc = "writing" /\ ~app[p].glued => log[Len(log)].id = app[p].id
    /\ app[p].pc = "unlock" /\ ~app[p].glued => Readable(app[p].id)

OpenUnacked == Unfinished => log[Len(log)].id \notin acked

Gluing == \E p \in Procs : app[p].pc \in {"writing", "unlock"} /\ app[p].glued
LeftOpen == Unfinished /\ \A p \in Procs : app[p].pc # "writing"
Owing == LeftOpen \/ Gluing
Owed == IF Owing THEN 1 ELSE 0

Lost == {id \in acked : ~Readable(id)}

Counted == Cardinality(Lost) + Owed <= torn

LossInv == Ids /\ Recorded /\ OpenUnacked /\ Counted

LEMMA OwedType == Owed \in {0, 1} /\ (Owing => Owed = 1) /\ (~Owing => Owed = 0)
BY DEF Owed

LEMMA LostFinite ==
  ASSUME LogTypeOK, Ids
  PROVE  IsFiniteSet(Lost) /\ Cardinality(Lost) \in Nat
<1>1. IsFiniteSet(1 .. begun)
  BY FS_Interval DEF LogTypeOK
<1>2. Lost \in SUBSET (1 .. begun)
  BY DEF Lost, Ids
<1>3. QED
  BY <1>1, <1>2, FS_Subset, FS_CardinalityType

(* Nothing acknowledged is lost by a step that acknowledges nothing.       *)
LEMMA StaysReadable ==
  ASSUME LogTypeOK, Lined, OpenUnacked, EndedKept, NEW id \in acked, Readable(id)
  PROVE  Readable(id)'
<1>1. PICK i \in 1 .. Len(log) : Whole(i) /\ log[i].id = id
  BY DEF Readable
<1>2. log[i].ended
  <2>1. CASE i = Len(log)
    BY <1>1, <2>1, UnfinishedForm DEF OpenUnacked, LastLine, LogTypeOK
  <2>2. CASE i # Len(log)
    BY <2>2 DEF Lined, OnlyLastOpen, LogTypeOK
  <2>3. QED
    BY <2>1, <2>2
<1>3. i \in 1 .. Len(log') /\ log'[i] = log[i]
  BY <1>2 DEF EndedKept, LogTypeOK
<1>4. QED
  BY <1>1, <1>3 DEF Readable, Whole

LEMMA NothingLost ==
  ASSUME LogTypeOK, Lined, Ids, OpenUnacked, Counted, EndedKept, UNCHANGED acked,
         \/ (Owing' => Owing)
            /\ UNCHANGED torn
         \/ torn' = torn + 1
  PROVE  Counted'
<1>1. Lost' \in SUBSET Lost
  BY StaysReadable DEF Lost
<1>2. Cardinality(Lost') <= Cardinality(Lost) /\ Cardinality(Lost') \in Nat
  BY <1>1, LostFinite, FS_Subset, FS_CardinalityType
<1>3. Owed' \in {0, 1} /\ (~Owing' => Owed' = 0)
  BY DEF Owed
<1>4. QED
  BY <1>2, <1>3, LostFinite, OwedType DEF Counted, LogTypeOK

(* A writer at work is not touched by the others' steps.                   *)
LEMMA WritersKept ==
  ASSUME LogTypeOK, NEW p \in Procs, LockOnly(p)
  PROVE  \A q \in Procs : app[q].pc = "writing" => app'[q] = app[q]
BY DEF LockOnly, Begin, TakeLock, Step, Unlock, Done, GiveUp, Crash, LogTypeOK, Appends

(* The ids: Begin takes the next one, every other step keeps an append's   *)
(* id or ends the append, and Unlock acknowledges one.                     *)
SameIds == \A q \in Procs : Busy(q)' => Busy(q) /\ app'[q].id = app[q].id

LEMMA IdSteps ==
  ASSUME LogTypeOK, NEW p \in Procs,
         LockOnly(p) \/ ReadLast(p) \/ StartWrite(p) \/ EndWrite(p) \/ Crash(p)
  PROVE  \/ /\ UNCHANGED acked /\ begun' = begun + 1
            /\ app'[p].id = begun + 1
            /\ \A q \in Procs \ {p} : app'[q] = app[q]
         \/ UNCHANGED <<acked, begun>> /\ SameIds
         \/ /\ Busy(p) /\ ~Busy(p)' /\ UNCHANGED begun
            /\ acked' = acked \cup {app[p].id}
            /\ \A q \in Procs \ {p} : app'[q] = app[q]
<1> USE DEF LogTypeOK
<1>1. ASSUME NEW body \in Bodies, Begin(p, body)
      PROVE  /\ UNCHANGED acked /\ begun' = begun + 1
             /\ app'[p].id = begun + 1
             /\ \A q \in Procs \ {p} : app'[q] = app[q]
  BY <1>1 DEF Begin
<1>2. ASSUME TakeLock(p) PROVE UNCHANGED <<acked, begun>> /\ SameIds
  BY <1>2 DEF TakeLock, Step, SameIds, Busy, Appends
<1>3. ASSUME Unlock(p)
      PROVE  /\ Busy(p) /\ ~Busy(p)' /\ UNCHANGED begun
             /\ acked' = acked \cup {app[p].id}
             /\ \A q \in Procs \ {p} : app'[q] = app[q]
  BY <1>3 DEF Unlock, Done, NoAppend, Busy
<1>4. ASSUME GiveUp(p) \/ Crash(p) PROVE UNCHANGED <<acked, begun>> /\ SameIds
  BY <1>4 DEF GiveUp, Crash, Done, NoAppend, Busy, SameIds
<1>5. ASSUME ReadLast(p) PROVE UNCHANGED <<acked, begun>> /\ SameIds
  BY <1>5, ReadLastMoves DEF SameIds, Busy
<1>6. ASSUME StartWrite(p) PROVE UNCHANGED <<acked, begun>> /\ SameIds
  BY <1>6 DEF StartWrite, SameIds, Busy, Appends
<1>7. ASSUME EndWrite(p) PROVE UNCHANGED <<acked, begun>> /\ SameIds
  BY <1>7 DEF EndWrite, Step, SameIds, Busy, Appends
<1>8. QED
  BY <1>1, <1>2, <1>3, <1>4, <1>5, <1>6, <1>7, Zenon DEF LockOnly

LEMMA IdsStep ==
  ASSUME LogTypeOK, Ids, NEW p \in Procs,
         LockOnly(p) \/ ReadLast(p) \/ StartWrite(p) \/ EndWrite(p) \/ Crash(p)
  PROVE  Ids'
<1>0. begun \in Nat
  BY ThreadLogAssumption DEF LogTypeOK
<1>1. CASE /\ UNCHANGED acked /\ begun' = begun + 1
           /\ app'[p].id = begun + 1
           /\ \A q \in Procs \ {p} : app'[q] = app[q]
  <2>1. \A q \in Procs \ {p} : (Busy(q)' <=> Busy(q)) /\ app'[q].id = app[q].id
    BY <1>1 DEF Busy
  <2>2. begun + 1 \notin 1 .. begun /\ 1 .. begun \subseteq 1 .. begun + 1 /\ begun + 1 \in 1 .. begun + 1
    BY <1>0
  <2>3. \A q \in Procs \ {p} : Busy(q)' => app'[q].id \in 1 .. begun /\ app'[q].id \notin acked
    BY <2>1 DEF Ids
  <2>4. /\ acked' \subseteq 1 .. begun'
        /\ \A q \in Procs : Busy(q)' => app'[q].id \in 1 .. begun' /\ app'[q].id \notin acked'
    BY <1>1, <2>2, <2>3 DEF Ids
  <2>5. \A q, r \in Procs : q # r /\ Busy(q)' /\ Busy(r)' => app'[q].id # app'[r].id
    BY <1>1, <2>1, <2>2, <2>3 DEF Ids
  <2>6. QED
    BY <2>4, <2>5 DEF Ids
<1>2. CASE UNCHANGED <<acked, begun>> /\ SameIds
  BY <1>2 DEF Ids, SameIds
<1>3. CASE /\ Busy(p) /\ ~Busy(p)' /\ UNCHANGED begun
           /\ acked' = acked \cup {app[p].id}
           /\ \A q \in Procs \ {p} : app'[q] = app[q]
  <2>1. \A q \in Procs \ {p} : (Busy(q)' <=> Busy(q)) /\ app'[q].id = app[q].id
    BY <1>3 DEF Busy
  <2>2. QED
    BY <1>3, <2>1 DEF Ids
<1>4. QED
  BY <1>1, <1>2, <1>3, IdSteps

LEMMA LossInit == LogInit => LossInv
<1> SUFFICES ASSUME LogInit PROVE LossInv
  OBVIOUS
<1>1. \A p \in Procs : app[p].pc = "idle"
  BY DEF LogInit, NoAppend
<1>2. Lost = {} /\ ~Unfinished /\ torn = 0
  BY DEF LogInit, Lost, Unfinished
<1>3. ~Owing
  BY <1>1, <1>2 DEF Owing, LeftOpen, Gluing
<1>4. Counted
  BY <1>2, <1>3, OwedType, FS_EmptySet DEF Counted
<1>5. Ids /\ Recorded /\ OpenUnacked
  BY <1>1, <1>2 DEF LogInit, Ids, Busy, Recorded, OpenUnacked
<1>6. QED
  BY <1>4, <1>5 DEF LossInv

(* The steps that leave the file alone.                                    *)
LEMMA LossLockOnly ==
  ASSUME LogTypeOK, Lined, LossInv, EndedKept, NEW p \in Procs, LockOnly(p)
  PROVE  Recorded' /\ OpenUnacked' /\ Counted'
<1>1. OnlyLockMoved /\ \A q \in Procs : app[q].pc = "writing" => app'[q] = app[q]
  BY LockOnlyMoves, WritersKept DEF Lined
<1>2. \A q \in Procs : app'[q].pc \in {"writing", "unlock"} => app'[q] = app[q]
  BY <1>1 DEF OnlyLockMoved, InSection
<1>3. UNCHANGED log
  BY <1>1 DEF OnlyLockMoved
<1>4. Recorded'
  BY <1>2, <1>3 DEF LossInv, Recorded, Readable, Whole
<1>5. /\ (Unfinished' <=> Unfinished)
      /\ \A id : Readable(id)' <=> Readable(id)
  BY <1>3 DEF Unfinished, Readable, Whole
<1>6. CASE UNCHANGED <<acked, torn>>
  <2>1. Owing' => Owing
    BY <1>1, <1>2, <1>5 DEF Owing, LeftOpen, Gluing
  <2>2. Counted'
    BY <1>6, <2>1, NothingLost DEF LossInv
  <2>3. OpenUnacked'
    BY <1>3, <1>5, <1>6 DEF LossInv, OpenUnacked
  <2>4. QED
    BY <1>4, <2>2, <2>3
<1>7. CASE Unlock(p)
  <2>1. /\ app[p].pc = "unlock" /\ app'[p].pc = "idle"
        /\ acked' = acked \cup {app[p].id} /\ UNCHANGED torn
        /\ \A q \in Procs \ {p} : app'[q] = app[q] /\ app[q].pc \notin InSection
    BY <1>7, AloneInSection DEF Unlock, Done, NoAppend, LogTypeOK, Lined, InSection
  <2>2. ~Unfinished'
    BY <1>5, <2>1 DEF Lined, OwnLine
  <2>3. ~Owing'
    BY <2>1, <2>2 DEF Owing, LeftOpen, Gluing, InSection
  <2>4. Owed' = 0
    BY <2>3 DEF Owed
  <2>5. Lost' \subseteq Lost \cup {app[p].id}
    BY <1>5, <2>1 DEF Lost
  <2>6. IsFiniteSet(Lost \cup {app[p].id}) /\ IsFiniteSet(Lost) /\ Cardinality(Lost) \in Nat
    BY LostFinite, FS_AddElement DEF LossInv
  <2>7. CASE app[p].glued
    <3>1. Owed = 1
      BY <2>1, <2>7, OwedType DEF Owing, Gluing
    <3>2. /\ Cardinality(Lost') <= Cardinality(Lost) + 1
          /\ Cardinality(Lost') \in Nat
      <4>1. Cardinality(Lost \cup {app[p].id}) \in {Cardinality(Lost), Cardinality(Lost) + 1}
        BY <2>6, FS_AddElement
      <4>2. Cardinality(Lost') <= Cardinality(Lost \cup {app[p].id}) /\ Cardinality(Lost') \in Nat
        BY <2>5, <2>6, FS_Subset, FS_CardinalityType
      <4>3. QED
        BY <2>6, <4>1, <4>2
    <3>3. QED
      BY <1>4, <2>1, <2>2, <2>4, <2>6, <3>1, <3>2 DEF LossInv, Counted, OpenUnacked, LogTypeOK
  <2>8. CASE ~app[p].glued
    <3>1. \A id : id = app[p].id => Readable(id)'
      BY <1>5, <2>1, <2>8 DEF LossInv, Recorded
    <3>2. Lost' \in SUBSET Lost
      BY <2>5, <3>1 DEF Lost
    <3>3. Cardinality(Lost') <= Cardinality(Lost) /\ Cardinality(Lost') \in Nat
      BY <2>6, <3>2, FS_Subset, FS_CardinalityType
    <3>4. QED
      BY <1>4, <2>1, <2>2, <2>4, <2>6, <3>3, OwedType DEF LossInv, Counted, OpenUnacked, LogTypeOK
  <2>9. QED
    BY <2>7, <2>8
<1>8. QED
  BY <1>6, <1>7 DEF LockOnly, Begin, TakeLock, GiveUp, Crash

LEMMA LossReadLast ==
  ASSUME LogTypeOK, Lined, LossInv, EndedKept, NEW p \in Procs, ReadLast(p)
  PROVE  Recorded' /\ OpenUnacked' /\ Counted'
<1>1. /\ UNCHANGED <<log, acked, torn>>
      /\ \A q \in Procs : app'[q].pc \in {"writing", "unlock"} <=> app[q].pc \in {"writing", "unlock"}
      /\ \A q \in Procs : app'[q].pc = "writing" <=> app[q].pc = "writing"
      /\ \A q \in Procs : app'[q].id = app[q].id /\ app'[q].glued = app[q].glued
  <2>1. /\ UNCHANGED <<log, acked, torn>>
        /\ app[p].pc = "read" /\ app'[p].pc = "write"
        /\ app'[p].id = app[p].id /\ app'[p].glued = app[p].glued
        /\ \A q \in Procs \ {p} : app'[q] = app[q]
    BY ReadLastMoves
  <2>2. \A q \in Procs : app'[q].id = app[q].id /\ app'[q].glued = app[q].glued
    BY <2>1
  <2>3. QED
    BY <2>1, <2>2
<1>2. /\ (Unfinished' <=> Unfinished)
      /\ \A id : Readable(id)' <=> Readable(id)
  BY <1>1 DEF Unfinished, Readable, Whole
<1>3. Recorded' /\ OpenUnacked'
  BY <1>1, <1>2 DEF LossInv, Recorded, OpenUnacked
<1>4. Owing' => Owing
  BY <1>1, <1>2 DEF Owing, LeftOpen, Gluing
<1>5. Counted'
  BY <1>1, <1>4, NothingLost DEF LossInv
<1>6. QED
  BY <1>3, <1>5

LEMMA LossStartWrite ==
  ASSUME LogTypeOK, Lined, LossInv, EndedKept, NEW p \in Procs, StartWrite(p)
  PROVE  Recorded' /\ OpenUnacked' /\ Counted'
<1>1. /\ IF Unfinished THEN Glues(p) ELSE Adds(p)
      /\ \A q \in Procs \ {p} : app[q].pc \notin InSection
      /\ app' = [app EXCEPT ![p].pc = "writing", ![p].glued = Unfinished]
  BY StepsLined
<1>2. /\ app'[p].pc = "writing" /\ app'[p].glued = Unfinished /\ app'[p].id = app[p].id
      /\ \A q \in Procs \ {p} : app'[q] = app[q]
      /\ app[p].pc = "write" /\ UNCHANGED <<acked, torn>>
  BY <1>1 DEF StartWrite, LogTypeOK, Appends
<1>3. app[p].id \notin acked
  BY <1>2 DEF LossInv, Ids, Busy
<1>4. CASE Unfinished
  <2>1. Owing
    BY <1>1, <1>2, <1>4 DEF Owing, LeftOpen, InSection
  <2>2. Counted'
    BY <1>2, <2>1, NothingLost DEF LossInv
  <2>3. log # <<>> /\ log[Len(log)].id \notin acked
    BY <1>4, UnfinishedForm DEF LossInv, OpenUnacked, LogTypeOK
  <2>4. Len(log) \in Nat \ {0} /\ LastLine.id = log[Len(log)].id
    BY <2>3 DEF LogTypeOK, LastLine
  <2>5. Len(log') = Len(log) /\ log'[Len(log)] = Rewritten(FALSE, FALSE)
    <3>1. log' = Relined(log, Len(log), Rewritten(FALSE, FALSE))
      BY <1>1, <1>4 DEF Glues
    <3>2. Len(log) \in 1 .. Len(log)
      BY <2>4
    <3>3. QED
      BY <2>3, <3>1, <3>2, LastLineRewritten DEF LogTypeOK
  <2>6. OpenUnacked'
    BY <1>2, <2>3, <2>4, <2>5 DEF OpenUnacked, Rewritten
  <2>7. Recorded'
    <3>1. app'[p].glued
      BY <1>2, <1>4
    <3>2. app'[p].pc = "writing"
      BY <1>2
    <3>3. \A q \in Procs \ {p} : app'[q].pc \notin {"writing", "unlock"}
      BY <1>1, <1>2 DEF InSection
    <3>4. QED
      BY <3>1, <3>2, <3>3 DEF Recorded
  <2>8. QED
    BY <2>2, <2>6, <2>7
<1>5. CASE ~Unfinished
  <2>1. Line(p) \in Lines /\ Line(p).id = app[p].id
    BY AppendForms DEF Line, Lines, LogTypeOK
  <2>2. Len(log') = Len(log) + 1 /\ log'[Len(log) + 1] = Line(p)
    BY <1>1, <1>5, <2>1, LineAdded DEF Adds, LogTypeOK
  <2>3. log'[Len(log')].id = app[p].id
    BY <2>1, <2>2
  <2>4. OpenUnacked' /\ Recorded'
    <3>1. OpenUnacked'
      BY <1>2, <1>3, <2>3 DEF OpenUnacked
    <3>2. app'[p].pc = "writing" /\ log'[Len(log')].id = app'[p].id
      BY <1>2, <2>3
    <3>3. \A q \in Procs \ {p} : app'[q].pc \notin {"writing", "unlock"}
      BY <1>1, <1>2 DEF InSection
    <3>4. Recorded'
      BY <3>2, <3>3 DEF Recorded
    <3>5. QED
      BY <3>1, <3>4
  <2>5. ~Owing'
    <3>1. ~app'[p].glued
      BY <1>2, <1>5
    <3>2. app'[p].pc = "writing"
      BY <1>2
    <3>3. \A q \in Procs \ {p} : app'[q].pc \notin {"writing", "unlock"}
      BY <1>1, <1>2 DEF InSection
    <3>4. QED
      BY <3>1, <3>2, <3>3 DEF Owing, LeftOpen, Gluing
  <2>6. Counted'
    BY <1>2, <2>5, NothingLost DEF LossInv
  <2>7. QED
    BY <2>4, <2>6
<1>6. QED
  BY <1>4, <1>5

LEMMA LossEndWrite ==
  ASSUME LogTypeOK, Lined, LossInv, EndedKept, NEW p \in Procs, EndWrite(p)
  PROVE  Recorded' /\ OpenUnacked' /\ Counted'
<1>1. /\ Unfinished /\ Closes(p) /\ (~app[p].glued) \in BOOLEAN /\ app[p].glued \in BOOLEAN
      /\ \A q \in Procs \ {p} : app[q].pc \notin InSection
  BY StepsLined, AppendForms DEF LogTypeOK
<1>2. /\ app'[p].pc = "unlock" /\ app'[p].glued = app[p].glued /\ app'[p].id = app[p].id
      /\ \A q \in Procs \ {p} : app'[q] = app[q]
      /\ app[p].pc = "writing" /\ UNCHANGED <<acked, torn>>
  BY DEF EndWrite, Step, LogTypeOK, Appends
<1>3. log # <<>> /\ Len(log) \in 1 .. Len(log) /\ Len(log) \in Nat \ {0}
  BY <1>1, LastLineType DEF Closes, LogTypeOK
<1>4. Len(log') = Len(log) /\ log'[Len(log)] = Rewritten(~app[p].glued, TRUE)
  BY <1>1, <1>3, LastLineRewritten DEF Closes, LogTypeOK
<1>5. ~Unfinished'
  BY <1>3, <1>4 DEF Unfinished, Rewritten
<1>6. Recorded'
  <2>1. ASSUME ~app[p].glued PROVE Readable(app[p].id)'
    <3>1. LastLine.id = app[p].id
      BY <1>2, <2>1 DEF LossInv, Recorded, LastLine
    <3>2. Rewritten(~app[p].glued, TRUE).whole
      <4>1. \A w \in BOOLEAN : Rewritten(w, TRUE).whole = w
        BY DEF Rewritten
      <4>2. QED
        BY <1>1, <2>1, <4>1
    <3>3. log'[Len(log)].whole /\ log'[Len(log)].id = app'[p].id
      BY <1>2, <1>4, <3>1, <3>2 DEF Rewritten
    <3>4. QED
      BY <1>3, <1>4, <3>3 DEF Readable, Whole
  <2>2. QED
    BY <1>1, <1>2, <2>1 DEF Recorded, InSection
<1>7. Owing' => Owing
  BY <1>1, <1>2, <1>5 DEF Owing, LeftOpen, Gluing, InSection
<1>8. QED
  BY <1>2, <1>5, <1>6, <1>7, NothingLost DEF LossInv, OpenUnacked

LEMMA LossCrash ==
  ASSUME LogTypeOK, Lined, LossInv, EndedKept, NEW p \in Procs, Crash(p), app[p].pc = "writing"
  PROVE  Recorded' /\ OpenUnacked' /\ Counted'
<1>1. /\ Unfinished /\ Leaves(p) /\ app[p].glued \in BOOLEAN
      /\ \A q \in Procs \ {p} : app[q].pc \notin InSection
  BY StepsLined, AppendForms DEF LogTypeOK
<1>2. /\ app'[p].pc = "idle" /\ \A q \in Procs \ {p} : app'[q] = app[q]
      /\ UNCHANGED acked /\ torn' = torn + 1
  BY DEF Crash, NoAppend, LogTypeOK
<1>3. /\ log # <<>> /\ Len(log) \in Nat \ {0} /\ LastLine.ended \in BOOLEAN
      /\ log[Len(log)].id \notin acked
  BY <1>1, LastLineType DEF Leaves, LogTypeOK, LossInv, OpenUnacked, Lines
<1>4. PICK whole \in BOOLEAN :
        log' = Relined(log, Len(log), Rewritten(whole, LastLine.ended))
  BY <1>1 DEF Leaves
<1>5. Len(log') = Len(log) /\ log'[Len(log)] = Rewritten(whole, LastLine.ended)
  BY <1>3, <1>4, LastLineRewritten DEF LogTypeOK
<1>6. OpenUnacked'
  BY <1>2, <1>3, <1>5 DEF OpenUnacked, Rewritten, LastLine
<1>7. Recorded'
  BY <1>1, <1>2 DEF Recorded, InSection
<1>8. QED
  BY <1>2, <1>6, <1>7, NothingLost DEF LossInv

LEMMA LossStep ==
  ASSUME LogTypeOK, Lined, LossInv, [LogNext]_logVars
  PROVE  LossInv'
<1>1. EndedKept
  BY LinesKept
<1>2. CASE UNCHANGED logVars
  BY <1>2 DEF logVars, LossInv, Ids, Busy, Recorded, OpenUnacked, Counted, Owed, Owing,
              LeftOpen, Gluing, Lost, Readable, Whole, Unfinished
<1>3. ASSUME NEW p \in Procs,
             \/ LockOnly(p) \/ ReadLast(p) \/ StartWrite(p) \/ EndWrite(p)
             \/ (Crash(p) /\ app[p].pc = "writing")
      PROVE  LossInv'
  <2>1. Ids'
    BY <1>3, IdsStep DEF LossInv
  <2>2. Recorded' /\ OpenUnacked' /\ Counted'
    BY <1>1, <1>3, LossLockOnly, LossReadLast, LossStartWrite, LossEndWrite, LossCrash
  <2>3. QED
    BY <2>1, <2>2 DEF LossInv
<1>4. QED
  BY <1>2, <1>3, LogNextSplit

(* The newline discipline of the file, for every schedule of appends and   *)
(* deaths: only its last line may be without one.                          *)
THEOREM LinesAreEnded == LogSpec => []Lined
<1>1. QED
  BY LinedInit, LinedStep, LogTypeCorrect, PTL DEF LogSpec

(* "The record is already safe on disk": append_thread_message loses at    *)
(* most one acknowledged post for each writer that died in the middle of a *)
(* record, however appends and deaths interleave and whether or not        *)
(* _read_last_record finds the last record.                                *)
THEOREM LossIsBounded == LogSpec => []LossBounded
<1>1. LogTypeOK /\ LossInv => LossBounded
  <2> SUFFICES ASSUME LogTypeOK, LossInv PROVE LossBounded
    OBVIOUS
  <2>1. Cardinality(Lost) \in Nat
    BY LostFinite DEF LossInv
  <2>2. Cardinality(Lost) <= torn
    BY <2>1, OwedType DEF LossInv, Counted, LogTypeOK
  <2>3. QED
    BY <2>2 DEF LossBounded, Lost
<1>2. LogTypeOK /\ Lined /\ LossInv /\ [LogNext]_logVars => LossInv'
  BY LossStep
<1>3. QED
  BY <1>1, <1>2, LossInit, LinesAreEnded, LogTypeCorrect, PTL DEF LogSpec

-----------------------------------------------------------------------------
(* Numbers in order: the least and the greatest of a set, and its members  *)
(* as an increasing sequence.  Induction over the naturals is the          *)
(* well-foundedness of strict inclusion on the intervals 0 .. n - 1.       *)

LEMMA Least ==
  ASSUME NEW S, S \subseteq Nat, S # {}
  PROVE  \E x \in S : \A y \in S : x <= y
<1> DEFINE Order == StrictSubsetOrdering(Nat)
           Below == {0 .. x - 1 : x \in S}
<1>1. IsWellFoundedOn(Order, FiniteSubsetsOf(Nat))
  BY FS_StrictSubsetOrderingWellFounded
<1>2. Below \subseteq FiniteSubsetsOf(Nat) /\ Below # {}
  <2>1. \A x \in S : 0 .. x - 1 \in SUBSET Nat /\ IsFiniteSet(0 .. x - 1)
    BY FS_Interval
  <2>2. QED
    BY <2>1 DEF FiniteSubsetsOf
<1>3. PICK b \in Below : \A c \in Below : <<c, b>> \notin Order
  <2> HIDE DEF Order, Below
  <2>1. QED
    BY <1>1, <1>2, WFMin, Zenon
<1>4. PICK x \in S : b = 0 .. x - 1
  BY <1>3
<1>5. ASSUME NEW y \in S, ~(x <= y) PROVE FALSE
  <2>1. 0 .. y - 1 \subseteq 0 .. x - 1 /\ y \in 0 .. x - 1 /\ y \notin 0 .. y - 1
    BY <1>5
  <2>2. <<0 .. y - 1, 0 .. x - 1>> \in Order
    BY <2>1 DEF StrictSubsetOrdering
  <2>3. QED
    BY <1>3, <1>4, <2>2
<1>6. QED
  BY <1>5

LEMMA MaxFacts ==
  ASSUME NEW k \in Nat, NEW S, S \subseteq 1 .. k, S # {}
  PROVE  Max(S) \in S /\ \A y \in S : y <= Max(S)
<1> DEFINE T == {k - x : x \in S}
<1>1. PICK t \in T : \A u \in T : t <= u
  <2>1. \A x \in S : k - x \in Nat
    OBVIOUS
  <2>2. T \subseteq Nat /\ T # {}
    BY <2>1
  <2> HIDE DEF T
  <2>3. QED
    BY <2>2, Least
<1>2. PICK x \in S : t = k - x
  BY <1>1
<1>3. \A y \in S : x >= y
  <2>1. \A y \in S : t <= k - y
    BY <1>1
  <2>2. QED
    BY <1>2, <2>1
<1>4. Max(S) \in S /\ \A y \in S : Max(S) >= y
  BY <1>3, Zenon DEF Max
<1>5. QED
  BY <1>4

Increasing(s, n) == \A i, j \in 1 .. n : i < j => s[i] < s[j]

LEMMA HasOrder ==
  ASSUME NEW k \in Nat, NEW S, S \subseteq 1 .. k
  PROVE  \E s \in [1 .. Cardinality(S) -> S] : Increasing(s, Cardinality(S))
<1> DEFINE Good(T) == \E s \in [1 .. Cardinality(T) -> T] : Increasing(s, Cardinality(T))
           Bad == {n \in Nat : \E T \in SUBSET (1 .. n) : ~Good(T)}
<1>1. SUFFICES ASSUME Bad # {} PROVE FALSE
  <2>1. k \in Bad \/ Good(S)
    OBVIOUS
  <2>2. QED
    BY <1>1, <2>1
<1>2. PICK n \in Bad : \A m \in Bad : n <= m
  <2>1. Bad \subseteq Nat
    OBVIOUS
  <2> HIDE DEF Bad
  <2>2. QED
    BY <1>1, <2>1, Least
<1>3. PICK T \in SUBSET (1 .. n) : ~Good(T)
  BY <1>2
<1>4. n \in Nat /\ \A m \in Nat : m \in Bad => n <= m
  BY <1>2
<1>5. ASSUME NEW m \in Nat, m < n, NEW V \in SUBSET (1 .. m) PROVE Good(V)
  <2>1. m \notin Bad
    <3> HIDE DEF Bad
    <3>1. QED
      BY <1>4, <1>5
  <2> HIDE DEF Good
  <2>2. QED
    BY <1>5, <2>1
<1>6. n # 0
  <2>1. ASSUME n = 0 PROVE FALSE
    <3>1. T = {}
      BY <2>1
    <3>2. Cardinality(T) = 0
      BY <3>1, FS_EmptySet
    <3>3. <<>> \in [1 .. Cardinality(T) -> T] /\ Increasing(<<>>, Cardinality(T))
      BY <3>1, <3>2 DEF Increasing
    <3>4. QED
      BY <1>3, <3>3
  <2>2. QED
    BY <2>1
<1>7. n - 1 \in Nat /\ n - 1 < n
  BY <1>4, <1>6
<1>8. n \in T
  <2>1. ASSUME n \notin T PROVE FALSE
    <3>1. T \in SUBSET (1 .. n - 1)
      BY <1>4, <2>1
    <3> HIDE DEF Good
    <3>2. QED
      BY <1>3, <1>5, <1>7, <3>1
  <2>2. QED
    BY <2>1
<1> DEFINE U == T \ {n}
<1>9. U \in SUBSET (1 .. n - 1)
  BY <1>4
<1>10. PICK s \in [1 .. Cardinality(U) -> U] : Increasing(s, Cardinality(U))
  <2>1. Good(U)
    <3> HIDE DEF Good, U
    <3>1. QED
      BY <1>5, <1>7, <1>9
  <2>2. QED
    BY <2>1
<1>11. /\ Cardinality(T) \in Nat /\ Cardinality(U) \in Nat
       /\ Cardinality(T) = Cardinality(U) + 1
  <2>1. IsFiniteSet(1 .. n)
    BY <1>4, FS_Interval
  <2>2. IsFiniteSet(T)
    BY <2>1, FS_Subset
  <2>3. IsFiniteSet(U) /\ Cardinality(U) = Cardinality(T) - 1
    BY <1>8, <2>2, FS_RemoveElement
  <2>4. Cardinality(T) \in Nat /\ Cardinality(U) \in Nat
    BY <2>2, <2>3, FS_CardinalityType
  <2>5. QED
    BY <2>3, <2>4
<1> DEFINE c == Cardinality(T)
           d == Cardinality(U)
           r == [i \in 1 .. c |-> IF i = c THEN n ELSE s[i]]
<1>12. c \in Nat /\ d \in Nat /\ c = d + 1 /\ s \in [1 .. d -> U] /\ Increasing(s, d)
  BY <1>10, <1>11
<1> HIDE DEF c, d, Good
<1>13. \A i \in 1 .. c : i # c => i \in 1 .. d /\ s[i] \in T /\ s[i] \in 1 .. n - 1
  <2>1. \A i \in 1 .. c : i # c => i \in 1 .. d
    BY <1>12
  <2>2. QED
    BY <1>9, <1>12, <2>1
<1>14. r \in [1 .. c -> T]
  BY <1>8, <1>13
<1>15. Increasing(r, c)
  <2>1. ASSUME NEW i \in 1 .. c, NEW j \in 1 .. c, i < j PROVE r[i] < r[j]
    <3>1. i # c /\ i \in 1 .. d /\ s[i] \in 1 .. n - 1
      <4>1. i # c
        BY <1>12, <2>1
      <4>2. QED
        BY <1>13, <4>1
    <3>2. CASE j = c
      BY <1>4, <3>1, <3>2
    <3>3. CASE j # c
      <4>1. j \in 1 .. d
        BY <1>13, <3>3
      <4>2. QED
        BY <1>12, <2>1, <3>1, <3>3, <4>1 DEF Increasing
    <3>4. QED
      BY <3>2, <3>3
  <2>2. QED
    BY <2>1 DEF Increasing
<1>16. QED
  BY <1>3, <1>14, <1>15 DEF Good, c

LEMMA FirstNumbers ==
  ASSUME NEW m \in Nat
  PROVE  IsFiniteSet(1 .. m) /\ Cardinality(1 .. m) = m
BY FS_Interval

(* Below the m-th of an increasing sequence are the m - 1 before it, so    *)
(* InOrder picks the members of such a sequence.                           *)
LEMMA OrderIsInOrder ==
  ASSUME NEW k \in Nat, NEW S, S \subseteq 1 .. k, IsFiniteSet(S), Cardinality(S) \in Nat
  PROVE  InOrder(S) \in [1 .. Cardinality(S) -> S] /\ Increasing(InOrder(S), Cardinality(S))
<1> DEFINE c == Cardinality(S)
           Rank(x) == Cardinality({y \in S : y < x})
<1>1. PICK s \in [1 .. c -> S] : Increasing(s, c)
  BY HasOrder
<1> HIDE DEF c
<1>2. c \in Nat /\ IsFiniteSet(1 .. c) /\ Cardinality(1 .. c) = c
  BY FS_Interval DEF c
<1>3. \A n \in 1 .. c : s[n] \in S /\ s[n] \in 1 .. k
  BY <1>1
<1>4. s \in Injection(1 .. c, S)
  <2>1. ASSUME NEW i \in 1 .. c, NEW j \in 1 .. c, s[i] = s[j] PROVE i = j
    BY <1>1, <1>2, <1>3, <2>1 DEF Increasing
  <2>2. QED
    BY <1>1, <2>1 DEF Injection, IsInjective
<1>5. \A x \in S : \E n \in 1 .. c : s[n] = x
  <2>1. s \in Surjection(1 .. c, S)
    BY <1>2, <1>4, FS_Injection DEF c
  <2>2. QED
    BY <2>1 DEF Surjection
<1>6. ASSUME NEW n \in 1 .. c PROVE Rank(s[n]) = n - 1
  <2> DEFINE B == {y \in S : y < s[n]}
             t == [i \in 1 .. n - 1 |-> s[i]]
  <2>1. n - 1 \in Nat /\ \A i \in 1 .. n - 1 : i \in 1 .. c /\ i < n
    BY <1>2
  <2>2. \A i \in 1 .. n - 1 : t[i] \in B
    BY <1>1, <1>3, <2>1 DEF Increasing
  <2>3. ASSUME NEW y \in B PROVE \E i \in 1 .. n - 1 : t[i] = y
    <3>1. PICK i \in 1 .. c : s[i] = y
      BY <1>5
    <3>2. i < n
      <4>1. s[i] < s[n] /\ s[i] \in 1 .. k /\ s[n] \in 1 .. k
        BY <1>3, <3>1
      <4>2. n < i => s[n] < s[i]
        BY <1>1 DEF Increasing
      <4>3. QED
        BY <1>2, <4>1, <4>2
    <3>3. i \in 1 .. n - 1
      BY <1>2, <3>2
    <3>4. QED
      BY <3>1, <3>3
  <2>4. \A i, j \in 1 .. n - 1 : t[i] = t[j] => i = j
    BY <1>4, <2>1 DEF Injection, IsInjective
  <2> HIDE DEF B
  <2>5. t \in Injection(1 .. n - 1, B) /\ t \in Surjection(1 .. n - 1, B)
    <3>1. t \in [1 .. n - 1 -> B]
      BY <2>2
    <3>2. \A i, j \in 1 .. n - 1 : t[i] = t[j] => i = j
      BY <2>4
    <3>3. \A y \in B : \E i \in 1 .. n - 1 : t[i] = y
      BY <2>3
    <3> HIDE DEF t
    <3>4. t \in Injection(1 .. n - 1, B)
      BY <3>1, <3>2, Zenon DEF Injection, IsInjective
    <3>5. t \in Surjection(1 .. n - 1, B)
      BY <3>1, <3>3 DEF Surjection
    <3>6. QED
      BY <3>4, <3>5
  <2>6. IsFiniteSet(1 .. n - 1) /\ Cardinality(1 .. n - 1) = n - 1
    BY <2>1, FirstNumbers
  <2>7. Cardinality(B) = n - 1
    <3> DEFINE D == 1 .. n - 1
    <3>1. t \in Bijection(D, B)
      BY <2>5, Zenon DEF Bijection
    <3>2. IsFiniteSet(D) /\ ExistsBijection(D, B)
      BY <2>6, <3>1, Zenon DEF ExistsBijection
    <3> HIDE DEF D
    <3>3. Cardinality(B) = Cardinality(D)
      BY <3>2, FS_Bijection
    <3>4. QED
      BY <2>6, <3>3, Zenon DEF D
  <2>8. QED
    BY <2>7 DEF B
<1> HIDE DEF Rank
<1> DEFINE Member(n) == CHOOSE x \in S : Rank(x) = n - 1
<1>7. ASSUME NEW n \in 1 .. c PROVE Member(n) = s[n]
  <2>1. s[n] \in S /\ Rank(s[n]) = n - 1
    BY <1>3, <1>6
  <2>2. ASSUME NEW x \in S, Rank(x) = n - 1 PROVE x = s[n]
    <3>1. PICK m \in 1 .. c : s[m] = x
      BY <1>5
    <3>2. m - 1 = n - 1
      BY <1>6, <2>2, <3>1
    <3>3. m = n
      BY <1>2, <3>2
    <3>4. QED
      BY <3>1, <3>3
  <2>3. Member(n) \in S /\ Rank(Member(n)) = n - 1
    BY <2>1, Zenon
  <2> HIDE DEF Member
  <2>4. QED
    BY <2>2, <2>3
<1>8. InOrder(S) = s
  <2>1. InOrder(S) = [n \in 1 .. c |-> Member(n)]
    BY DEF InOrder, Rank, c
  <2> HIDE DEF Member
  <2>2. s = [n \in 1 .. c |-> s[n]]
    BY <1>1
  <2>3. QED
    BY <1>7, <2>1, <2>2
<1>9. QED
  BY <1>1, <1>8 DEF c

LEMMA InOrderFacts ==
  ASSUME NEW k \in Nat, NEW S, S \subseteq 1 .. k
  PROVE  /\ Cardinality(S) \in Nat
         /\ InOrder(S) \in [1 .. Cardinality(S) -> S]
         /\ Increasing(InOrder(S), Cardinality(S))
         /\ \A x \in S : \E n \in 1 .. Cardinality(S) : InOrder(S)[n] = x
<1> DEFINE n == Cardinality(S)
           s == InOrder(S)
<1>1. IsFiniteSet(S) /\ n \in Nat
  <2>1. IsFiniteSet(1 .. k)
    BY FS_Interval
  <2>2. IsFiniteSet(S)
    BY <2>1, FS_Subset
  <2>3. QED
    BY <2>2, FS_CardinalityType
<1>2. s \in [1 .. n -> S] /\ Increasing(s, n)
  BY <1>1, OrderIsInOrder
<1>3. IsFiniteSet(1 .. n) /\ Cardinality(1 .. n) = n
  BY <1>1, FS_Interval
<1>4. s \in Injection(1 .. n, S)
  <2> HIDE DEF s
  <2>1. ASSUME NEW i \in 1 .. n, NEW j \in 1 .. n, s[i] = s[j] PROVE i = j
    <3>1. s[i] \in 1 .. k /\ s[j] \in 1 .. k
      BY <1>2
    <3>2. QED
      BY <1>1, <1>2, <2>1, <3>1 DEF Increasing
  <2>2. QED
    BY <1>2, <2>1 DEF Injection, IsInjective
<1>5. s \in Surjection(1 .. n, S)
  <2> HIDE DEF s, n
  <2>1. QED
    BY <1>1, <1>3, <1>4, FS_Injection DEF n
<1>6. QED
  BY <1>1, <1>2, <1>5 DEF Surjection

-----------------------------------------------------------------------------
(* The seqs start at 1, so a cursor at 0 is before every record.           *)
Positive ==
  /\ \A i \in 1 .. Len(log) : log[i].seq > 0
  /\ \A p \in Procs : app[p].pc = "write" => app[p].seq > 0

LEMMA PositiveInit == LogInit => Positive
<1> SUFFICES ASSUME LogInit PROVE Positive
  OBVIOUS
<1>1. \A p \in Procs : app[p].pc = "idle"
  BY DEF LogInit, NoAppend
<1>2. \A i \in 1 .. Len(log) : FALSE
  BY DEF LogInit
<1>3. QED
  BY <1>1, <1>2 DEF Positive

LEMMA SeqsAreNat ==
  ASSUME LogTypeOK
  PROVE  \A i \in 1 .. Len(log) : log[i] \in Lines /\ log[i].seq \in Nat
<1>1. \A i \in 1 .. Len(log) : log[i] \in Lines
  BY DEF LogTypeOK
<1>2. QED
  BY <1>1 DEF Lines

LEMMA PositiveStep ==
  ASSUME LogTypeOK, Lined, Positive, [LogNext]_logVars
  PROVE  Positive'
<1>0. Len(log) \in Nat
  BY DEF LogTypeOK
<1>1. CASE UNCHANGED logVars
  BY <1>1 DEF logVars, Positive
<1>2. ASSUME NEW p \in Procs, LockOnly(p) PROVE Positive'
  <2>1. OnlyLockMoved
    BY <1>2, LockOnlyMoves DEF Lined
  <2>2. QED
    BY <2>1 DEF OnlyLockMoved, Positive, InSection
<1>3. ASSUME NEW p \in Procs, ReadLast(p) PROVE Positive'
  <2>1. PICK n \in Nat : Numbered(p, n) /\ n > 0
    <3>1. CASE \E i \in 1 .. Len(log) : LastRecord(i) /\ Numbered(p, log[i].seq + 1)
      BY <3>1, SeqsAreNat
    <3>2. CASE Numbered(p, 1)
      BY <3>2
    <3>3. QED
      BY <1>3, <3>1, <3>2 DEF ReadLast
  <2>2. UNCHANGED log
    BY <1>3 DEF ReadLast
  <2>3. app'[p].seq = n /\ \A q \in Procs \ {p} : app'[q] = app[q]
    BY <2>1 DEF Numbered, LogTypeOK, Appends
  <2>4. QED
    BY <2>1, <2>2, <2>3 DEF Positive
<1>4. ASSUME NEW p \in Procs, app'[p].pc # "write", \A q \in Procs \ {p} : app'[q] = app[q],
             log # <<>>, NEW whole \in BOOLEAN, NEW ended \in BOOLEAN,
             log' = Relined(log, Len(log), Rewritten(whole, ended))
      PROVE  Positive'
  <2>1. Len(log) \in 1 .. Len(log) /\ LastLine.seq > 0
    BY <1>0, <1>4, LastLineType DEF Positive, LastLine, LogTypeOK
  <2>2. Rewritten(whole, ended).seq = LastLine.seq
    BY DEF Rewritten
  <2>3. \A i \in 1 .. Len(log') : log'[i].seq > 0
    BY <1>4, <2>1, <2>2, LastLineRewritten DEF Positive, LogTypeOK
  <2>4. QED
    BY <1>4, <2>3 DEF Positive
<1>5. ASSUME NEW p \in Procs, StartWrite(p) PROVE Positive'
  <2>1. /\ IF Unfinished THEN Glues(p) ELSE Adds(p)
        /\ app' = [app EXCEPT ![p].pc = "writing", ![p].glued = Unfinished]
    BY <1>5, StepsLined
  <2>2. app'[p].pc = "writing" /\ \A q \in Procs \ {p} : app'[q] = app[q]
    BY <2>1 DEF LogTypeOK, Appends
  <2>3. CASE Unfinished
    BY <1>4, <2>1, <2>2, <2>3 DEF Glues
  <2>4. CASE ~Unfinished
    <3>1. Line(p) \in Lines /\ Line(p).seq > 0
      BY <1>5, AppendForms DEF Line, Lines, LogTypeOK, Positive, StartWrite
    <3>2. /\ Len(log') = Len(log) + 1
          /\ \A i \in 1 .. Len(log) : log'[i] = log[i]
          /\ log'[Len(log) + 1] = Line(p)
      BY <2>1, <2>4, <3>1, LineAdded DEF Adds, LogTypeOK
    <3>3. \A i \in 1 .. Len(log') : log'[i].seq > 0
      BY <1>0, <3>1, <3>2 DEF Positive
    <3>4. QED
      BY <2>2, <3>3 DEF Positive
  <2>5. QED
    BY <2>3, <2>4
<1>6. ASSUME NEW p \in Procs, EndWrite(p) PROVE Positive'
  <2>1. Closes(p) /\ (~app[p].glued) \in BOOLEAN
    BY <1>6, StepsLined, AppendForms DEF LogTypeOK
  <2>2. app'[p].pc = "unlock" /\ \A q \in Procs \ {p} : app'[q] = app[q]
    BY <1>6 DEF EndWrite, Step, LogTypeOK, Appends
  <2>3. QED
    BY <1>4, <2>1, <2>2 DEF Closes
<1>7. ASSUME NEW p \in Procs, Crash(p), app[p].pc = "writing" PROVE Positive'
  <2>1. Leaves(p) /\ app[p].glued \in BOOLEAN /\ LastLine.ended \in BOOLEAN
    <3>1. Leaves(p) /\ app[p].glued \in BOOLEAN
      BY <1>7, StepsLined, AppendForms DEF LogTypeOK
    <3>2. QED
      BY <3>1, LastLineType DEF Leaves, LogTypeOK, Lines
  <2>2. app'[p].pc = "idle" /\ \A q \in Procs \ {p} : app'[q] = app[q]
    BY <1>7 DEF Crash, NoAppend, LogTypeOK
  <2>3. PICK whole \in BOOLEAN :
          log # <<>> /\ log' = Relined(log, Len(log), Rewritten(whole, LastLine.ended))
    BY <2>1 DEF Leaves
  <2>4. QED
    BY <1>4, <2>1, <2>2, <2>3
<1>8. QED
  BY <1>1, <1>2, <1>3, <1>5, <1>6, <1>7, LogNextSplit

-----------------------------------------------------------------------------
(* The log of a ThreadWait is a ThreadLog.                                 *)

LEMMA JoinedIsBody == Joined \in Bodies
BY ThreadWaitAssumption DEF Joined

LEMMA NextIsLogNext ==
  ASSUME [Next]_vars
  PROVE  [LogNext]_logVars
<1> USE ThreadWaitAssumption
<1>1. ASSUME NEW p \in Posters, PosterStep(p) PROVE LogNext
  <2>1. p \in Procs
    OBVIOUS
  <2>2. (\E body \in Bodies : Begin(p, body)) \/ Crash(p)
    BY <1>1 DEF PosterStep
  <2>3. QED
    BY <2>1, <2>2 DEF LogNext
<1>2. ASSUME NEW p \in Procs, LogStep(p) PROVE LogNext
  BY <1>2 DEF LogStep, LogNext
<1>3. ASSUME NEW a \in Agents, NEW mode \in Modes, NEW context \in BOOLEAN, NEW match \in Patterns,
             Start(a, mode, context, match) PROVE [LogNext]_logVars
  <2>1. a \in Procs
    OBVIOUS
  <2>2. Begin(a, Joined) \/ UNCHANGED logVars
    BY <1>3 DEF Start, Touch, TouchSkipped
  <2>3. QED
    BY <2>1, <2>2, JoinedIsBody DEF LogNext
<1>4. ASSUME NEW a \in Agents, Poll(a) \/ TimeOut(a) \/ Deliver(a) PROVE UNCHANGED logVars
  BY <1>4 DEF Poll, TimeOut, Deliver, TruncateCursor, WriteCursor, PrintBatch
<1>5. ASSUME NEW a \in Agents, Die(a) PROVE [LogNext]_logVars
  <2>1. a \in Procs
    OBVIOUS
  <2>2. Crash(a) \/ UNCHANGED logVars
    BY <1>5 DEF Die
  <2>3. QED
    BY <2>1, <2>2 DEF LogNext
<1>6. CASE UNCHANGED vars
  BY <1>6 DEF vars
<1>7. QED
  BY <1>1, <1>2, <1>3, <1>4, <1>5, <1>6 DEF Next, Starts

(* What is known of the log under the steps of ThreadWait.                 *)
LogOK == LogTypeOK /\ Lined /\ Positive /\ SeqIncreasing

LEMMA LogStaysOK ==
  ASSUME TailMisses = FALSE
  PROVE  Spec => []LogOK
<1>1. Spec => LogSpec
  <2>1. Init => LogInit
    BY DEF Init
  <2>2. [Next]_vars => [LogNext]_logVars
    BY NextIsLogNext
  <2>3. QED
    BY <2>1, <2>2, PTL DEF Spec, LogSpec
<1>2. LogSpec => []Positive
  <2>1. LogTypeOK /\ Lined /\ Positive /\ [LogNext]_logVars => Positive'
    BY PositiveStep
  <2>2. QED
    BY <2>1, PositiveInit, LinesAreEnded, LogTypeCorrect, PTL DEF LogSpec
<1>3. LogSpec => []SeqIncreasing
  BY SeqsIncrease
<1>4. LogTypeOK /\ Lined /\ Positive /\ SeqIncreasing => LogOK
  BY DEF LogOK
<1>5. QED
  BY <1>1, <1>2, <1>3, <1>4, LinesAreEnded, LogTypeCorrect, PTL

-----------------------------------------------------------------------------
(* A waiting process.  Its place is what its cursor says, but for the time *)
(* between the write of the cursor and the print of the batch.             *)
Past(a) == IF Delivering(a) THEN wait[a].from ELSE cursor[a]

(* unread is everything somebody else wrote after the place, as far as the *)
(* tail was read, and stays so until it is printed.                        *)
Unread(a, offset, from) ==
  {i \in 1 .. offset : log[i].whole /\ log[i].seq > from /\ ~Own(a, log[i].body)}

Keeps(a) ==
  /\ wait[a].offset <= EndOfLines
  /\ wait[a].pc = "first" => wait[a].offset = 0 /\ wait[a].unread = {}
  /\ wait[a].pc \in {"poll", "commit", "writing", "print"} =>
       wait[a].unread = Unread(a, wait[a].offset, wait[a].from)
  /\ wait[a].pc \in {"poll", "commit"} => wait[a].from = cursor[a]
  /\ wait[a].pc \in {"commit", "writing", "print"} => wait[a].unread # {}
  /\ wait[a].pc = "writing" => cursor[a] = 0
  /\ wait[a].pc = "print" => cursor[a] = log[Max(wait[a].unread)].seq

(* A cursor is 0 or the seq of a finished record.                          *)
AtPost(n) == n = 0 \/ \E i \in 1 .. Len(log) : Visible(i) /\ log[i].seq = n

Places(a) == AtPost(cursor[a]) /\ AtPost(wait[a].from)

Rising(s) == \A m, n \in 1 .. Len(s) : m < n => s[m] < s[n]

InOrderSoFar(a) ==
  "replay" \notin hurt[a] =>
    Rising(got[a]) /\ \A n \in 1 .. Len(got[a]) : got[a][n] <= Past(a)

(* Printed, or left out by --mention-only, which leaves out no mention.    *)
Told(a, line) ==
  \/ \E n \in 1 .. Len(got[a]) : got[a][n] = line.seq
  \/ line.seq \in hid[a] /\ ~Mentions(a, line.body)

CompleteSoFar(a) ==
  "lose" \notin hurt[a] =>
    \A i \in 1 .. Len(log) :
      Visible(i) /\ log[i].seq <= Past(a) /\ ~Own(a, log[i].body) => Told(a, log[i])

Served(a) == Keeps(a) /\ Places(a) /\ InOrderSoFar(a) /\ CompleteSoFar(a)

WaitTypeOK ==
  /\ pres \in [Agents -> {"absent", "active", "left"}]
  /\ cursor \in [Agents -> Nat]
  /\ wait \in [Agents -> Waits]
  /\ got \in [Agents -> Seq(Nat)]
  /\ hid \in [Agents -> SUBSET Nat]
  /\ hurt \in [Agents -> SUBSET {"lose", "replay"}]

LEMMA WaitForms ==
  ASSUME WaitTypeOK, NEW a \in Agents
  PROVE  /\ wait[a].pc \in WaitPCs /\ wait[a].mode \in Modes /\ wait[a].offset \in Nat
         /\ hid[a] \in SUBSET Nat
         /\ wait[a].unread \in SUBSET Nat /\ wait[a].from \in Nat
         /\ cursor[a] \in Nat /\ got[a] \in Seq(Nat) /\ Past(a) \in Nat
BY DEF WaitTypeOK, Waits, Past

-----------------------------------------------------------------------------
(* Facts about the lines a tail has read.                                  *)

LEMMA TailEnded ==
  ASSUME LogOK
  PROVE  /\ EndOfLines \in Nat /\ EndOfLines <= Len(log) /\ Len(log) \in Nat
         /\ \A i \in 1 .. EndOfLines : i \in 1 .. Len(log) /\ log[i].ended
<1>1. Len(log) \in Nat
  BY DEF LogOK, LogTypeOK
<1>2. CASE Unfinished
  <2>1. log # <<>> /\ Len(log) # 0
    BY <1>2, UnfinishedForm DEF LogOK, LogTypeOK
  <2>2. QED
    BY <1>1, <1>2, <2>1 DEF EndOfLines, LogOK, Lined, OnlyLastOpen
<1>3. CASE ~Unfinished
  <2>1. ASSUME NEW i \in 1 .. Len(log) PROVE log[i].ended
    <3>1. CASE i = Len(log)
      BY <1>3, <3>1, UnfinishedForm DEF LogOK, LogTypeOK, LastLine
    <3>2. CASE i # Len(log)
      BY <1>1, <3>2 DEF LogOK, Lined, OnlyLastOpen
    <3>3. QED
      BY <3>1, <3>2
  <2>2. QED
    BY <1>1, <1>3, <2>1 DEF EndOfLines
<1>4. QED
  BY <1>2, <1>3

LEMMA TailGrows ==
  ASSUME LogOK, LogOK', EndedKept
  PROVE  EndOfLines <= EndOfLines'
<1>1. Len(log) \in Nat /\ Len(log') \in Nat
  BY DEF LogOK, LogTypeOK
<1>2. CASE Unfinished
  BY <1>1, <1>2 DEF EndOfLines, EndedKept
<1>3. CASE ~Unfinished /\ Len(log') > Len(log)
  BY <1>1, <1>3 DEF EndOfLines
<1>4. CASE ~Unfinished /\ Len(log') = Len(log)
  <2>1. CASE log = <<>>
    BY <1>1, <1>4, <2>1 DEF EndOfLines, Unfinished, LogOK, LogTypeOK
  <2>2. CASE log # <<>>
    <3>1. Len(log) \in 1 .. Len(log) /\ log[Len(log)].ended
      BY <1>4, <2>2, UnfinishedForm, LastLineType DEF LogOK, LogTypeOK, LastLine
    <3>2. log'[Len(log')].ended
      BY <1>4, <3>1 DEF EndedKept
    <3>3. ~Unfinished'
      BY <3>2 DEF Unfinished
    <3>4. QED
      BY <1>1, <1>4, <3>3 DEF EndOfLines
  <2>3. QED
    BY <2>1, <2>2
<1>5. QED
  BY <1>1, <1>2, <1>3, <1>4 DEF EndedKept

(* A finished record is after every cursor, or was there before the step.  *)
LEMMA OldOrAfter ==
  ASSUME LogOK, LogOK', EndedKept, NEW n \in Nat, AtPost(n),
         NEW i \in 1 .. Len(log'), Visible(i)', log'[i].seq <= n
  PROVE  i \in 1 .. Len(log) /\ Visible(i) /\ log'[i] = log[i]
<1>1. log'[i].seq > 0 /\ log'[i].seq \in Nat
  <2>1. log'[i] \in Lines
    BY DEF LogOK, LogTypeOK
  <2>2. QED
    BY <2>1 DEF LogOK, Positive, Lines
<1>2. PICK j \in 1 .. Len(log) : Visible(j) /\ log[j].seq = n
  BY <1>1 DEF AtPost
<1>3. log'[j] = log[j] /\ j \in 1 .. Len(log') /\ Whole(j)'
  BY <1>2 DEF EndedKept, Visible, Whole, LogOK, LogTypeOK
<1>4. ~(j < i)
  BY <1>1, <1>2, <1>3 DEF LogOK, SeqIncreasing, Visible
<1>5. i \in 1 .. Len(log) /\ i <= j
  BY <1>4 DEF LogOK, LogTypeOK
<1>6. log[i].ended
  <2>1. CASE i = Len(log)
    BY <1>2, <1>5, <2>1 DEF Visible
  <2>2. CASE i # Len(log)
    BY <1>5, <2>2 DEF LogOK, LogTypeOK, Lined, OnlyLastOpen
  <2>3. QED
    BY <2>1, <2>2
<1>7. QED
  BY <1>5, <1>6 DEF EndedKept, Visible, Whole

LEMMA AtPostKept ==
  ASSUME LogOK, LogOK', EndedKept, NEW n \in Nat, AtPost(n)
  PROVE  AtPost(n)'
<1>1. CASE n = 0
  BY <1>1 DEF AtPost
<1>2. ASSUME NEW i \in 1 .. Len(log), Visible(i), log[i].seq = n PROVE AtPost(n)'
  <2>1. log'[i] = log[i] /\ i \in 1 .. Len(log')
    BY <1>2 DEF EndedKept, Visible, LogOK, LogTypeOK
  <2>2. Visible(i)' /\ log'[i].seq = n
    BY <1>2, <2>1 DEF Visible, Whole
  <2>3. QED
    BY <2>1, <2>2 DEF AtPost
<1>3. QED
  BY <1>1, <1>2 DEF AtPost

LEMMA UnreadKept ==
  ASSUME LogOK, LogOK', EndedKept, NEW a, NEW offset \in Nat, NEW from \in Nat,
         offset <= EndOfLines
  PROVE  /\ Unread(a, offset, from)' = Unread(a, offset, from)
         /\ \A i \in 1 .. offset : log'[i] = log[i] /\ i \in 1 .. Len(log)
<1>1. \A i \in 1 .. offset : i \in 1 .. Len(log) /\ log[i].ended
  BY TailEnded
<1>2. \A i \in 1 .. offset : log'[i] = log[i]
  BY <1>1 DEF EndedKept
<1>3. QED
  BY <1>1, <1>2 DEF Unread

(* The last record of a batch.                                             *)
LEMMA LastUnread ==
  ASSUME LogOK, NEW a, NEW offset \in Nat, NEW from \in Nat, NEW u,
         offset <= EndOfLines, u = Unread(a, offset, from), u # {}
  PROVE  /\ Max(u) \in u /\ \A i \in u : i <= Max(u)
         /\ Max(u) \in 1 .. offset /\ Visible(Max(u)) /\ Max(u) \in 1 .. Len(log)
         /\ log[Max(u)].seq \in Nat /\ log[Max(u)].seq > from
<1>1. u \subseteq 1 .. offset
  BY DEF Unread
<1>2. Max(u) \in u /\ \A i \in u : i <= Max(u)
  BY <1>1, MaxFacts
<1>3. Max(u) \in 1 .. Len(log) /\ log[Max(u)].ended
  BY <1>1, <1>2, TailEnded
<1>4. QED
  BY <1>1, <1>2, <1>3, SeqsAreNat DEF Unread, Visible, Whole, LogOK

-----------------------------------------------------------------------------
(* The steps.  A participant whose waiting process takes no step keeps     *)
(* what it has, whatever happens to the log.                               *)
Unmoved(a) ==
  /\ wait'[a] = wait[a] /\ cursor'[a] = cursor[a]
  /\ got'[a] = got[a] /\ hid'[a] = hid[a] /\ hurt'[a] = hurt[a]

LEMMA PastUnmoved ==
  ASSUME NEW a, Unmoved(a)
  PROVE  Past(a)' = Past(a)
BY DEF Unmoved, Past, Delivering

LEMMA TailNext ==
  ASSUME LogOK'
  PROVE  EndOfLines' \in Nat
<1>1. Len(log') \in Nat /\ (Len(log') = 0 => log' = <<>>)
  BY DEF LogOK, LogTypeOK
<1>2. Unfinished' => log' # <<>>
  BY DEF Unfinished
<1>3. QED
  BY <1>1, <1>2 DEF EndOfLines

LEMMA KeepsUnmoved ==
  ASSUME LogOK, LogOK', EndedKept, WaitTypeOK, NEW a \in Agents, Unmoved(a), Keeps(a)
  PROVE  Keeps(a)'
<1> DEFINE o == wait[a].offset
           f == wait[a].from
           u == wait[a].unread
<1>1. o \in Nat /\ f \in Nat /\ o <= EndOfLines
  BY WaitForms DEF Keeps
<1>2. o <= EndOfLines'
  <2>1. EndOfLines \in Nat /\ EndOfLines' \in Nat
    BY TailEnded, TailNext
  <2>2. QED
    BY <1>1, <2>1, TailGrows
<1>3. Unread(a, o, f)' = Unread(a, o, f)
  <2>1. Unread(a, o, f)' = {i \in 1 .. o : log'[i].whole /\ log'[i].seq > f /\ ~Own(a, log'[i].body)}
    BY DEF Unmoved, Unread
  <2>2. \A i \in 1 .. o : log'[i] = log[i]
    BY <1>1, UnreadKept
  <2>3. QED
    BY <2>1, <2>2 DEF Unread
<1>4. ASSUME wait[a].pc = "print" PROVE log'[Max(u)].seq = log[Max(u)].seq
  <2>1. u = Unread(a, o, f) /\ u # {}
    BY <1>4 DEF Keeps
  <2>2. Max(u) \in 1 .. o
    BY <1>1, <2>1, LastUnread
  <2>3. QED
    BY <1>1, <2>2, UnreadKept
<1>5. QED
  BY <1>2, <1>3, <1>4 DEF Keeps, Unmoved

LEMMA ServedUnmoved ==
  ASSUME LogOK, LogOK', EndedKept, WaitTypeOK, NEW a \in Agents, Unmoved(a), Served(a)
  PROVE  Served(a)'
<1>1. Keeps(a)'
  BY KeepsUnmoved DEF Served
<1>2. Places(a)'
  BY AtPostKept, WaitForms DEF Served, Places, Unmoved, AtPost
<1>3. AtPost(Past(a)) /\ Past(a) \in Nat /\ Past(a)' = Past(a)
  BY WaitForms, PastUnmoved DEF Served, Places, Past
<1>4. InOrderSoFar(a)'
  BY <1>3 DEF Served, InOrderSoFar, Unmoved
<1>5. CompleteSoFar(a)'
  <2> SUFFICES ASSUME "lose" \notin hurt'[a], NEW i \in 1 .. Len(log'), Visible(i)',
                      log'[i].seq <= Past(a)', ~Own(a, log'[i].body)
               PROVE  Told(a, log[i])'
    BY DEF CompleteSoFar
  <2>1. i \in 1 .. Len(log) /\ Visible(i) /\ log'[i] = log[i]
    BY <1>3, OldOrAfter
  <2>2. Told(a, log[i])
    BY <1>3, <2>1 DEF Served, CompleteSoFar, Unmoved
  <2>3. QED
    BY <2>1, <2>2 DEF Told, Unmoved
<1>6. QED
  BY <1>1, <1>2, <1>4, <1>5 DEF Served

(* The waiting process of a goes away: it is killed, times out or is done, *)
(* and its place becomes the cursor's.                                     *)
LEMMA ServedOff ==
  ASSUME LogOK, LogOK', EndedKept, WaitTypeOK, NEW a \in Agents, Served(a),
         wait'[a] = Off, cursor'[a] = cursor[a], got'[a] = got[a],
         hid'[a] = hid[a], hurt[a] \subseteq hurt'[a],
         "replay" \notin hurt'[a] => Past(a) <= cursor[a],
         "lose" \notin hurt'[a] => cursor[a] <= Past(a)
  PROVE  Served(a)'
<1>1. Past(a)' = cursor[a] /\ Past(a) \in Nat /\ cursor[a] \in Nat
  BY WaitForms DEF Past, Delivering, Off
<1>2. Keeps(a)'
  <2>1. EndOfLines' \in Nat
    BY TailNext
  <2>2. QED
    BY <2>1 DEF Keeps, Off
<1>3. Places(a)'
  <2>1. AtPost(cursor[a])'
    BY <1>1, AtPostKept DEF Served, Places, AtPost
  <2>2. QED
    BY <2>1 DEF Places, AtPost, Off
<1>4. InOrderSoFar(a)'
  <2> SUFFICES ASSUME "replay" \notin hurt'[a]
               PROVE  Rising(got[a]) /\ \A n \in 1 .. Len(got[a]) : got[a][n] <= cursor[a]
    BY <1>1 DEF InOrderSoFar
  <2>1. Rising(got[a]) /\ \A n \in 1 .. Len(got[a]) : got[a][n] <= Past(a) /\ got[a][n] \in Nat
    BY WaitForms DEF Served, InOrderSoFar
  <2>2. QED
    BY <1>1, <2>1
<1>5. CompleteSoFar(a)'
  <2> SUFFICES ASSUME "lose" \notin hurt'[a], NEW i \in 1 .. Len(log'), Visible(i)',
                      log'[i].seq <= cursor[a], ~Own(a, log'[i].body)
               PROVE  Told(a, log[i])'
    BY <1>1 DEF CompleteSoFar
  <2>1. i \in 1 .. Len(log) /\ Visible(i) /\ log'[i] = log[i]
    BY <1>1, OldOrAfter DEF Served, Places
  <2>2. log[i].seq <= Past(a)
    BY <1>1, <2>1, SeqsAreNat DEF LogOK
  <2>3. Told(a, log[i])
    BY <2>1, <2>2 DEF Served, CompleteSoFar
  <2>4. QED
    BY <2>1, <2>3 DEF Told
<1>6. QED
  BY <1>2, <1>3, <1>4, <1>5 DEF Served

(* The steps of the waiting process itself: none touches the file.         *)
LEMMA ServedStart ==
  ASSUME LogOK, LogOK', WaitTypeOK, NEW a \in Agents, NEW mode \in Modes,
         NEW context \in BOOLEAN, NEW match \in Patterns,
         Served(a), Start(a, mode, context, match), UNCHANGED log
  PROVE  Served(a)'
<1>1. /\ wait[a].pc = "off" /\ wait'[a].pc = "first" /\ wait'[a].offset = 0
      /\ wait'[a].unread = {} /\ wait'[a].from = 0
      /\ UNCHANGED <<cursor, got, hid, hurt>>
  BY DEF Start, Off, WaitTypeOK
<1>2. Past(a) = cursor[a] /\ Past(a)' = cursor[a]
  BY <1>1 DEF Past, Delivering
<1>3. EndOfLines' \in Nat /\ EndOfLines' >= 0
  BY TailNext
<1>4. Keeps(a)'
  BY <1>1, <1>3 DEF Keeps
<1>5. Places(a)'
  BY <1>1 DEF Served, Places, AtPost, Visible, Whole
<1>6. InOrderSoFar(a)' /\ CompleteSoFar(a)'
  BY <1>1, <1>2 DEF Served, InOrderSoFar, CompleteSoFar, Told, Visible, Whole
<1>7. QED
  BY <1>4, <1>5, <1>6 DEF Served

LEMMA FreshIsUnread ==
  ASSUME LogOK, WaitTypeOK, NEW a \in Agents, Keeps(a), wait[a].pc \in {"first", "poll"}
  PROVE  Fresh(a) = Unread(a, EndOfLines, cursor[a])
<1>1. EndOfLines \in Nat /\ wait[a].offset \in Nat /\ wait[a].offset <= EndOfLines
  BY TailEnded, WaitForms DEF Keeps
<1>2. \A i : i \in wait[a].unread => i \in 1 .. EndOfLines
  BY <1>1 DEF Keeps, Unread
<1>3. ASSUME NEW i \in 1 .. EndOfLines, log[i].whole, log[i].seq > cursor[a], ~Own(a, log[i].body)
      PROVE  i \in wait[a].unread \cup (wait[a].offset + 1 .. EndOfLines)
  <2>1. CASE i \in 1 .. wait[a].offset
    BY <1>1, <1>3, <2>1 DEF Keeps, Unread
  <2>2. CASE i \notin 1 .. wait[a].offset
    BY <1>1, <2>2
  <2>3. QED
    BY <2>1, <2>2
<1>4. \A i \in wait[a].offset + 1 .. EndOfLines : i \in 1 .. EndOfLines
  BY <1>1
<1>5. QED
  BY <1>2, <1>3, <1>4 DEF Fresh, Unread

LEMMA ServedPoll ==
  ASSUME LogOK, WaitTypeOK, NEW a \in Agents, Served(a), Poll(a)
  PROVE  Served(a)'
<1> DEFINE u == Unread(a, EndOfLines, cursor[a])
<1>1. Fresh(a) = u /\ wait[a].pc \in {"first", "poll"}
  BY FreshIsUnread DEF Poll, Served
<1>2. /\ wait'[a].pc \in {"commit", "poll"} /\ (wait'[a].pc = "commit" => u # {})
      /\ wait'[a].offset = EndOfLines /\ wait'[a].unread = u /\ wait'[a].from = cursor[a]
      /\ UNCHANGED <<log, cursor, got, hid, hurt>>
  <2>1. Ready(a, u) => u # {}
    BY DEF Ready
  <2> HIDE DEF u
  <2>2. QED
    BY <1>1, <2>1 DEF Poll, WaitTypeOK, Waits, logVars
<1>3. Past(a) = cursor[a] /\ Past(a)' = cursor[a]
  BY <1>1, <1>2 DEF Past, Delivering
<1>4. EndOfLines' = EndOfLines /\ u' = u /\ EndOfLines \in Nat
  BY <1>2, TailEnded DEF EndOfLines, Unfinished, Unread
<1>5. Keeps(a)'
  <2>1. Unread(a, wait[a].offset, wait[a].from)' = u
    BY <1>2, <1>4 DEF Unread
  <2> HIDE DEF u
  <2>2. QED
    BY <1>2, <1>4, <2>1 DEF Keeps
<1>6. Places(a)'
  BY <1>2 DEF Served, Places, AtPost, Visible, Whole
<1>7. InOrderSoFar(a)' /\ CompleteSoFar(a)'
  BY <1>2, <1>3 DEF Served, InOrderSoFar, CompleteSoFar, Told, Visible, Whole
<1>8. QED
  BY <1>5, <1>6, <1>7 DEF Served

LEMMA ServedTruncate ==
  ASSUME LogOK, WaitTypeOK, NEW a \in Agents, Served(a), TruncateCursor(a)
  PROVE  Served(a)'
<1>1. /\ wait[a].pc = "commit" /\ wait'[a].pc = "writing"
      /\ wait'[a].offset = wait[a].offset /\ wait'[a].unread = wait[a].unread
      /\ wait'[a].from = wait[a].from /\ cursor'[a] = 0
      /\ UNCHANGED <<log, got, hid, hurt>>
  BY DEF TruncateCursor, WaitTypeOK, Waits, logVars
<1>2. Past(a)' = Past(a) /\ wait[a].from = cursor[a]
  BY <1>1 DEF Served, Keeps, Past, Delivering
<1>3. Keeps(a)'
  BY <1>1 DEF Served, Keeps, Unread, EndOfLines, Unfinished
<1>4. Places(a)'
  BY <1>1 DEF Served, Places, AtPost, Visible, Whole
<1>5. InOrderSoFar(a)' /\ CompleteSoFar(a)'
  BY <1>1, <1>2 DEF Served, InOrderSoFar, CompleteSoFar, Told, Visible, Whole
<1>6. QED
  BY <1>3, <1>4, <1>5 DEF Served

LEMMA BatchEnd ==
  ASSUME LogOK, WaitTypeOK, NEW a \in Agents, Keeps(a), wait[a].pc \in {"writing", "print"}
  PROVE  /\ wait[a].unread = Unread(a, wait[a].offset, wait[a].from)
         /\ wait[a].unread # {}
         /\ Max(wait[a].unread) \in wait[a].unread /\ \A i \in wait[a].unread : i <= Max(wait[a].unread)
         /\ Max(wait[a].unread) \in 1 .. wait[a].offset /\ Visible(Max(wait[a].unread))
         /\ Max(wait[a].unread) \in 1 .. Len(log)
         /\ log[Max(wait[a].unread)].seq \in Nat /\ log[Max(wait[a].unread)].seq > wait[a].from
<1>1. wait[a].unread = Unread(a, wait[a].offset, wait[a].from) /\ wait[a].unread # {}
  BY DEF Keeps
<1>2. wait[a].offset \in Nat /\ wait[a].from \in Nat /\ wait[a].offset <= EndOfLines
  BY WaitForms DEF Keeps
<1>3. QED
  BY <1>1, <1>2, LastUnread

LEMMA ServedWrite ==
  ASSUME LogOK, WaitTypeOK, NEW a \in Agents, Served(a), WriteCursor(a)
  PROVE  Served(a)'
<1>1. /\ wait[a].pc = "writing" /\ wait'[a].pc = "print"
      /\ wait'[a].offset = wait[a].offset /\ wait'[a].unread = wait[a].unread
      /\ wait'[a].from = wait[a].from /\ cursor'[a] = log[Max(wait[a].unread)].seq
      /\ UNCHANGED <<log, got, hid, hurt>>
  BY DEF WriteCursor, WaitTypeOK, Waits, logVars
<1>2. Past(a)' = Past(a)
  BY <1>1 DEF Past, Delivering
<1>3. Keeps(a)'
  BY <1>1 DEF Served, Keeps, Unread, EndOfLines, Unfinished
<1>4. Places(a)'
  <2>1. AtPost(cursor'[a])
    BY <1>1, BatchEnd DEF Served, AtPost
  <2>2. QED
    BY <1>1, <2>1 DEF Served, Places, AtPost, Visible, Whole
<1>5. InOrderSoFar(a)' /\ CompleteSoFar(a)'
  BY <1>1, <1>2 DEF Served, InOrderSoFar, CompleteSoFar, Told, Visible, Whole
<1>6. QED
  BY <1>3, <1>4, <1>5 DEF Served

(* The batch: the seqs of the records to show, in the order of the file.   *)
LEMMA ShownOrSpared ==
  ASSUME NEW a \in Agents
  PROVE  /\ Shown(a) \subseteq wait[a].unread /\ Spared(a) \subseteq wait[a].unread
         /\ \A i \in wait[a].unread : i \in Shown(a) <=> i \notin Spared(a)
         /\ \A i \in Spared(a) : ~Mentions(a, log[i].body)
BY DEF Shown, Spared, Wanted

LEMMA BatchFacts ==
  ASSUME LogOK, WaitTypeOK, NEW a \in Agents, Keeps(a), wait[a].pc = "print"
  PROVE  /\ Batch(a) \in Seq(Nat) /\ Rising(Batch(a))
         /\ \A n \in 1 .. Len(Batch(a)) : wait[a].from < Batch(a)[n] /\ Batch(a)[n] <= cursor[a]
         /\ \A i \in Shown(a) : \E n \in 1 .. Len(Batch(a)) : Batch(a)[n] = log[i].seq
         /\ \A n \in 1 .. Len(Batch(a)) : \E i \in Shown(a) : Batch(a)[n] = log[i].seq
<1> DEFINE u == wait[a].unread
           w == Shown(a)
           c == Cardinality(w)
           s == InOrder(w)
           top == Max(u)
<1>1. /\ u = Unread(a, wait[a].offset, wait[a].from)
      /\ top \in u /\ \A i \in u : i <= top
      /\ top \in 1 .. Len(log) /\ Visible(top)
  BY BatchEnd
<1>2. cursor[a] = log[top].seq
  BY DEF Keeps
<1>3. wait[a].offset \in Nat /\ wait[a].offset <= EndOfLines /\ wait[a].from \in Nat
  BY WaitForms DEF Keeps
<1>4. u \subseteq 1 .. Len(log) /\ Len(log) \in Nat /\ w \subseteq u
  BY <1>1, <1>3, TailEnded, ShownOrSpared DEF Unread
<1>5. /\ c \in Nat /\ s \in [1 .. c -> w] /\ Increasing(s, c)
      /\ \A x \in w : \E n \in 1 .. c : s[n] = x
  <2>1. w \subseteq 1 .. Len(log)
    BY <1>4
  <2> HIDE DEF w
  <2>2. QED
    BY <1>4, <2>1, InOrderFacts
<1>6. Batch(a) = [n \in 1 .. c |-> log[s[n]].seq]
  <2>1. DOMAIN s = 1 .. c
    BY <1>5
  <2>2. QED
    BY <2>1 DEF Batch
<1>7. /\ \A i \in u : Whole(i) /\ log[i].seq \in Nat /\ wait[a].from < log[i].seq
      /\ \A i, j \in u : i < j => log[i].seq < log[j].seq
  <2>1. \A i \in u : Whole(i) /\ log[i].seq \in Nat /\ wait[a].from < log[i].seq
    BY <1>1, <1>3, <1>4, SeqsAreNat DEF Unread, Whole, LogOK
  <2>2. QED
    BY <1>4, <2>1 DEF LogOK, SeqIncreasing
<1>8. \A i \in u : log[i].seq <= log[top].seq
  <2>1. ASSUME NEW i \in u PROVE log[i].seq <= log[top].seq
    <3>1. i <= top /\ i \in Nat /\ top \in Nat
      BY <1>1, <1>4
    <3>2. CASE i = top
      BY <1>7, <3>2
    <3>3. CASE i < top
      BY <1>1, <1>7, <3>3
    <3>4. QED
      BY <3>1, <3>2, <3>3
  <2>2. QED
    BY <2>1
<1> HIDE DEF u, w, c, s, top
<1>9. /\ Batch(a) \in Seq(Nat) /\ Len(Batch(a)) = c
      /\ \A n \in 1 .. c : Batch(a)[n] = log[s[n]].seq /\ s[n] \in w /\ s[n] \in u
  <2>1. \A n \in 1 .. c : s[n] \in w /\ s[n] \in u
    BY <1>4, <1>5
  <2>2. \A n \in 1 .. c : Batch(a)[n] = log[s[n]].seq /\ log[s[n]].seq \in Nat
    BY <1>6, <1>7, <2>1
  <2>3. Batch(a) \in Seq(Nat) /\ Len(Batch(a)) = c
    <3>1. c \in Nat /\ Batch(a) \in [1 .. c -> Nat]
      BY <1>5, <1>6, <2>2
    <3>2. QED
      BY <3>1
  <2>4. QED
    BY <2>1, <2>2, <2>3
<1>10. Rising(Batch(a))
  BY <1>5, <1>7, <1>9 DEF Rising, Increasing
<1>11. \A n \in 1 .. c : wait[a].from < Batch(a)[n] /\ Batch(a)[n] <= cursor[a]
  BY <1>2, <1>7, <1>8, <1>9
<1>12. \A i \in w : \E n \in 1 .. c : Batch(a)[n] = log[i].seq
  BY <1>5, <1>9
<1>13. QED
  BY <1>9, <1>10, <1>11, <1>12 DEF w

LEMMA Joining ==
  ASSUME NEW s \in Seq(Nat), NEW t \in Seq(Nat)
  PROVE  /\ s \o t \in Seq(Nat) /\ Len(s \o t) = Len(s) + Len(t)
         /\ Len(s) \in Nat /\ Len(t) \in Nat
         /\ \A n \in 1 .. Len(s) : (s \o t)[n] = s[n] /\ s[n] \in Nat
         /\ \A n \in 1 .. Len(t) : (s \o t)[Len(s) + n] = t[n] /\ t[n] \in Nat
OBVIOUS

LEMMA JoinedRising ==
  ASSUME NEW s \in Seq(Nat), NEW t \in Seq(Nat), Rising(s), Rising(t),
         NEW k \in Nat,
         \A n \in 1 .. Len(s) : s[n] <= k,
         \A n \in 1 .. Len(t) : k < t[n]
  PROVE  Rising(s \o t)
<1> DEFINE r == s \o t
<1>1. /\ Len(r) = Len(s) + Len(t) /\ Len(s) \in Nat /\ Len(t) \in Nat
      /\ \A n \in 1 .. Len(s) : r[n] = s[n] /\ s[n] \in Nat
      /\ \A n \in 1 .. Len(t) : r[Len(s) + n] = t[n] /\ t[n] \in Nat
  BY Joining
<1> HIDE DEF r
<1>2. ASSUME NEW m \in 1 .. Len(r), NEW n \in 1 .. Len(r), m < n PROVE r[m] < r[n]
  <2>1. CASE n <= Len(s)
    <3>1. m \in 1 .. Len(s) /\ n \in 1 .. Len(s)
      BY <1>1, <1>2, <2>1
    <3>2. r[m] = s[m] /\ r[n] = s[n]
      BY <1>1, <3>1
    <3>3. QED
      BY <1>2, <3>1, <3>2 DEF Rising
  <2>2. CASE m > Len(s)
    <3>1. m - Len(s) \in 1 .. Len(t) /\ n - Len(s) \in 1 .. Len(t) /\ m - Len(s) < n - Len(s)
      BY <1>1, <1>2, <2>2
    <3>2. r[m] = t[m - Len(s)] /\ r[n] = t[n - Len(s)]
      <4>1. Len(s) + (m - Len(s)) = m /\ Len(s) + (n - Len(s)) = n
        BY <1>1
      <4>2. QED
        BY <1>1, <3>1, <4>1
    <3>3. QED
      BY <3>1, <3>2 DEF Rising
  <2>3. CASE m <= Len(s) /\ n > Len(s)
    <3>1. m \in 1 .. Len(s) /\ n - Len(s) \in 1 .. Len(t) /\ Len(s) + (n - Len(s)) = n
      BY <1>1, <1>2, <2>3
    <3>2. r[m] = s[m] /\ s[m] <= k /\ s[m] \in Nat
      BY <1>1, <3>1
    <3>3. r[n] = t[n - Len(s)] /\ k < t[n - Len(s)] /\ t[n - Len(s)] \in Nat
      BY <1>1, <3>1
    <3>4. QED
      BY <3>2, <3>3
  <2>4. QED
    BY <1>1, <2>1, <2>2, <2>3
<1>3. QED
  BY <1>2 DEF Rising, r

LEMMA ServedPrint ==
  ASSUME LogOK, LogOK', WaitTypeOK, NEW a \in Agents, Served(a), PrintBatch(a)
  PROVE  Served(a)'
<1> DEFINE b == Batch(a)
<1>1. /\ wait[a].pc = "print" /\ wait'[a] = Off /\ got'[a] = got[a] \o b
      /\ hid'[a] = hid[a] \cup {log[i].seq : i \in Spared(a)}
      /\ UNCHANGED <<log, cursor, hurt>>
  BY DEF PrintBatch, WaitTypeOK, logVars
<1>2. /\ b \in Seq(Nat) /\ Rising(b)
      /\ \A n \in 1 .. Len(b) : wait[a].from < b[n] /\ b[n] <= cursor[a]
      /\ \A i \in Shown(a) : \E n \in 1 .. Len(b) : b[n] = log[i].seq
  BY <1>1, BatchFacts DEF Served
<1>3. /\ Past(a) = wait[a].from /\ Past(a)' = cursor[a]
      /\ wait[a].from \in Nat /\ cursor[a] \in Nat /\ got[a] \in Seq(Nat)
      /\ wait[a].from < cursor[a]
  <2>1. Past(a) = wait[a].from /\ Past(a)' = cursor[a]
    BY <1>1 DEF Past, Delivering, Off
  <2>2. wait[a].from < cursor[a]
    BY <1>1, BatchEnd DEF Served, Keeps
  <2>3. QED
    BY <2>1, <2>2, WaitForms
<1> HIDE DEF b
<1>4. /\ got'[a] \in Seq(Nat) /\ Len(got'[a]) = Len(got[a]) + Len(b)
      /\ Len(got[a]) \in Nat /\ Len(b) \in Nat
      /\ \A n \in 1 .. Len(got[a]) : got'[a][n] = got[a][n] /\ got[a][n] \in Nat
      /\ \A n \in 1 .. Len(b) : got'[a][Len(got[a]) + n] = b[n] /\ b[n] \in Nat
  BY <1>1, <1>2, <1>3, Joining
<1>5. Keeps(a)'
  <2>1. EndOfLines' \in Nat
    BY TailNext
  <2>2. QED
    BY <1>1, <2>1 DEF Keeps, Off
<1>6. Places(a)'
  BY <1>1 DEF Served, Places, AtPost, Visible, Whole, Off
<1>7. InOrderSoFar(a)'
  <2> SUFFICES ASSUME "replay" \notin hurt[a]
               PROVE  Rising(got'[a]) /\ \A n \in 1 .. Len(got'[a]) : got'[a][n] <= cursor[a]
    BY <1>1, <1>3 DEF InOrderSoFar
  <2>1. Rising(got[a]) /\ \A n \in 1 .. Len(got[a]) : got[a][n] <= wait[a].from
    BY <1>3 DEF Served, InOrderSoFar
  <2>2. Rising(got'[a])
    BY <1>1, <1>2, <1>3, <2>1, JoinedRising
  <2>3. ASSUME NEW n \in 1 .. Len(got'[a]) PROVE got'[a][n] <= cursor[a]
    <3>1. CASE n <= Len(got[a])
      <4>1. n \in 1 .. Len(got[a])
        BY <1>4, <3>1
      <4>2. got'[a][n] = got[a][n] /\ got[a][n] \in Nat /\ got[a][n] <= wait[a].from
        BY <1>4, <2>1, <4>1
      <4>3. QED
        BY <1>3, <4>2
    <3>2. CASE n > Len(got[a])
      <4>1. n - Len(got[a]) \in 1 .. Len(b) /\ Len(got[a]) + (n - Len(got[a])) = n
        BY <1>4, <3>2
      <4>2. QED
        BY <1>2, <1>4, <4>1
    <3>3. QED
      BY <1>4, <3>1, <3>2
  <2>4. QED
    BY <2>2, <2>3
<1>8. CompleteSoFar(a)'
  <2> SUFFICES ASSUME "lose" \notin hurt[a], NEW i \in 1 .. Len(log), Visible(i),
                      log[i].seq <= cursor[a], ~Own(a, log[i].body)
               PROVE  Told(a, log[i])'
    BY <1>1, <1>3 DEF CompleteSoFar, Visible, Whole
  <2>1. log[i].seq \in Nat
    BY SeqsAreNat DEF LogOK
  <2>2. CASE log[i].seq <= wait[a].from
    <3>1. Told(a, log[i])
      BY <1>3, <2>2 DEF Served, CompleteSoFar
    <3>2. CASE log[i].seq \in hid[a] /\ ~Mentions(a, log[i].body)
      BY <1>1, <3>2 DEF Told
    <3>3. ASSUME NEW n \in 1 .. Len(got[a]), got[a][n] = log[i].seq PROVE Told(a, log[i])'
      <4>1. n \in 1 .. Len(got'[a]) /\ got'[a][n] = log[i].seq
        BY <1>4, <3>3
      <4>2. QED
        BY <1>1, <4>1 DEF Told
    <3>4. QED
      BY <3>1, <3>2, <3>3 DEF Told
  <2>3. CASE log[i].seq > wait[a].from
    <3>1. i \in wait[a].unread
      <4> DEFINE top == Max(wait[a].unread)
      <4>1. /\ wait[a].unread = Unread(a, wait[a].offset, wait[a].from)
            /\ top \in 1 .. wait[a].offset /\ top \in 1 .. Len(log) /\ Visible(top)
            /\ log[top].seq \in Nat /\ cursor[a] = log[top].seq
        BY <1>1, BatchEnd DEF Served, Keeps
      <4>2. ~(top < i)
        BY <2>1, <4>1 DEF LogOK, SeqIncreasing, Visible
      <4>3. i \in 1 .. wait[a].offset
        BY <4>1, <4>2, WaitForms
      <4>4. QED
        BY <2>3, <4>1, <4>3 DEF Unread, Visible, Whole
    <3>2. CASE i \in Spared(a)
      <4>1. log[i].seq \in hid'[a] /\ ~Mentions(a, log[i].body)
        BY <1>1, <3>2, ShownOrSpared
      <4>2. QED
        BY <1>1, <4>1 DEF Told
    <3>3. CASE i \notin Spared(a)
      <4>1. PICK n \in 1 .. Len(b) : b[n] = log[i].seq
        BY <1>2, <3>1, <3>3, ShownOrSpared
      <4>2. got'[a][Len(got[a]) + n] = log[i].seq
        BY <1>4, <4>1
      <4>3. Len(got[a]) + n \in 1 .. Len(got'[a])
        BY <1>4, <4>1
      <4>4. QED
        BY <1>1, <4>2, <4>3 DEF Told
    <3>4. QED
      BY <3>2, <3>3
  <2>4. QED
    BY <1>3, <2>1, <2>2, <2>3
<1>9. QED
  BY <1>5, <1>6, <1>7, <1>8 DEF Served

LEMMA ServedDie ==
  ASSUME LogOK, LogOK', EndedKept, WaitTypeOK, NEW a \in Agents, Served(a), Die(a)
  PROVE  Served(a)'
<1>1. /\ wait'[a] = Off /\ cursor'[a] = cursor[a] /\ got'[a] = got[a]
      /\ hid'[a] = hid[a] /\ hurt'[a] = hurt[a] \cup Harm(a)
  BY DEF Die, WaitTypeOK
<1>2. Past(a) \in Nat /\ cursor[a] \in Nat
  BY WaitForms
<1>3. CASE wait[a].pc = "writing"
  <2>1. "replay" \in hurt'[a]
    BY <1>1, <1>3 DEF Harm
  <2>2. cursor[a] <= Past(a)
    BY <1>2, <1>3 DEF Served, Keeps
  <2>3. QED
    BY <1>1, <2>1, <2>2, ServedOff
<1>4. CASE wait[a].pc = "print"
  <2>1. "lose" \in hurt'[a]
    BY <1>1, <1>4 DEF Harm
  <2>2. Past(a) <= cursor[a]
    <3>1. Past(a) = wait[a].from
      BY <1>4 DEF Past, Delivering
    <3>2. wait[a].from < cursor[a]
      BY <1>4, BatchEnd DEF Served, Keeps
    <3>3. QED
      BY <1>2, <3>1, <3>2
  <2>3. QED
    BY <1>1, <2>1, <2>2, ServedOff
<1>5. CASE ~Delivering(a)
  <2>1. Past(a) = cursor[a]
    BY <1>5 DEF Past
  <2>2. QED
    BY <1>1, <1>2, <2>1, ServedOff
<1>6. QED
  BY <1>3, <1>4, <1>5 DEF Delivering

LEMMA ServedTimeOut ==
  ASSUME LogOK, LogOK', EndedKept, WaitTypeOK, NEW a \in Agents, Served(a), TimeOut(a)
  PROVE  Served(a)'
<1>1. wait'[a] = Off /\ UNCHANGED <<cursor, got, hid, hurt>> /\ ~Delivering(a)
  BY DEF TimeOut, WaitTypeOK, Delivering
<1>2. Past(a) = cursor[a] /\ cursor[a] \in Nat
  BY <1>1, WaitForms DEF Past
<1>3. QED
  BY <1>1, <1>2, ServedOff

(* Who moves in a step of Next, and that no other participant is touched.  *)
LEMMA OthersUnmoved ==
  ASSUME WaitTypeOK, NEW a \in Agents,
         \/ Starts(a)
         \/ Poll(a) \/ TimeOut(a) \/ Deliver(a) \/ Die(a)
  PROVE  \A b \in Agents \ {a} : Unmoved(b)
<1>1. ASSUME NEW mode \in Modes, NEW context \in BOOLEAN, NEW match \in Patterns,
             Start(a, mode, context, match) PROVE \A b \in Agents \ {a} : Unmoved(b)
  BY <1>1 DEF Start, WaitTypeOK, Unmoved
<1>2. ASSUME Poll(a) \/ TimeOut(a) PROVE \A b \in Agents \ {a} : Unmoved(b)
  BY <1>2 DEF Poll, TimeOut, WaitTypeOK, Unmoved
<1>3. ASSUME Deliver(a) PROVE \A b \in Agents \ {a} : Unmoved(b)
  BY <1>3 DEF Deliver, TruncateCursor, WriteCursor, PrintBatch, WaitTypeOK, Unmoved
<1>4. ASSUME Die(a) PROVE \A b \in Agents \ {a} : Unmoved(b)
  BY <1>4 DEF Die, WaitTypeOK, Unmoved
<1>5. QED
  BY <1>1, <1>2, <1>3, <1>4 DEF Starts

AllServed == \A a \in Agents : Served(a)

LEMMA ServedInit == Init => WaitTypeOK /\ AllServed
<1> SUFFICES ASSUME Init PROVE WaitTypeOK /\ AllServed
  OBVIOUS
<1>1. Off \in Waits /\ Off.pc = "off" /\ Off.offset = 0 /\ Off.from = 0
  BY ThreadWaitAssumption DEF Off, Waits, WaitPCs, Modes
<1>2. WaitTypeOK
  BY <1>1 DEF Init, WaitTypeOK
<1>3. Len(log) = 0 /\ EndOfLines = 0
  BY DEF Init, LogInit, EndOfLines, Unfinished
<1>4. ASSUME NEW a \in Agents PROVE Served(a)
  <2>1. wait[a] = Off /\ cursor[a] = 0 /\ got[a] = <<>>
    BY DEF Init
  <2>2. QED
    BY <1>1, <1>3, <2>1
       DEF Served, Keeps, Places, AtPost, InOrderSoFar, Rising, CompleteSoFar
<1>5. QED
  BY <1>2, <1>4 DEF AllServed

LEMMA ServedStep ==
  ASSUME LogOK, LogOK', WaitTypeOK, AllServed, [Next]_vars
  PROVE  AllServed'
<1>1. EndedKept
  BY NextIsLogNext, LinesKept DEF LogOK
<1>2. ASSUME UNCHANGED waitVars PROVE AllServed'
  <2>1. \A a \in Agents : Unmoved(a)
    BY <1>2 DEF waitVars, Unmoved
  <2>2. QED
    BY <1>1, <2>1, ServedUnmoved DEF AllServed
<1>3. ASSUME NEW a \in Agents,
             \/ Starts(a)
             \/ Poll(a) \/ TimeOut(a) \/ Deliver(a) \/ Die(a)
      PROVE  AllServed'
  <2>1. \A b \in Agents \ {a} : Served(b)'
    BY <1>1, <1>3, OthersUnmoved, ServedUnmoved DEF AllServed
  <2>2. ASSUME NEW mode \in Modes, NEW context \in BOOLEAN, NEW match \in Patterns,
             Start(a, mode, context, match) PROVE Served(a)'
    <3>1. UNCHANGED log
      BY <2>2 DEF Start, Touch, TouchSkipped, Begin, logVars
    <3>2. QED
      BY <2>2, <3>1, ServedStart DEF AllServed
  <2>3. ASSUME Deliver(a) PROVE Served(a)'
    BY <2>3, ServedTruncate, ServedWrite, ServedPrint DEF AllServed, Deliver
  <2>4. Served(a)'
    BY <1>1, <1>3, <2>2, <2>3, ServedPoll, ServedTimeOut, ServedDie DEF AllServed, Starts
  <2>5. QED
    BY <2>1, <2>4 DEF AllServed
<1>4. CASE UNCHANGED vars
  BY <1>2, <1>4 DEF vars
<1>5. ASSUME NEW p, PosterStep(p) \/ LogStep(p) PROVE AllServed'
  BY <1>2, <1>5 DEF PosterStep, LogStep
<1>6. QED
  BY <1>3, <1>4, <1>5 DEF Next

LEMMA PolledForm ==
  ASSUME NEW w \in Waits, NEW pc \in WaitPCs, NEW offset \in Nat,
         NEW unread \in SUBSET Nat, NEW from \in Nat
  PROVE  [w EXCEPT !.pc = pc, !.offset = offset, !.unread = unread, !.from = from] \in Waits
BY DEF Waits

LEMMA MovedForm ==
  ASSUME WaitTypeOK, NEW a \in Agents, NEW pc \in WaitPCs,
         wait' = [wait EXCEPT ![a].pc = pc]
  PROVE  wait' \in [Agents -> Waits]
<1>1. [wait[a] EXCEPT !.pc = pc] \in Waits
  BY DEF WaitTypeOK, Waits
<1>2. QED
  BY <1>1 DEF WaitTypeOK

LEMMA WaitTypeStep ==
  ASSUME LogOK, WaitTypeOK, AllServed, [Next]_vars
  PROVE  WaitTypeOK'
<1>0. EndOfLines \in Nat
  BY TailEnded
<1>1. ASSUME UNCHANGED waitVars PROVE WaitTypeOK'
  BY <1>1 DEF waitVars, WaitTypeOK
<1>2. ASSUME NEW a \in Agents, NEW mode \in Modes, NEW context \in BOOLEAN, NEW match \in Patterns,
             Start(a, mode, context, match) PROVE WaitTypeOK'
  <2>1. [Off EXCEPT !.pc = "first", !.mode = mode, !.context = context,
                    !.match = match] \in Waits
    BY DEF Off, Waits, WaitPCs
  <2>2. wait' \in [Agents -> Waits]
    BY <1>2, <2>1 DEF Start, WaitTypeOK
  <2>3. pres' \in [Agents -> {"absent", "active", "left"}]
    BY <1>2 DEF Start, Touch, TouchSkipped, WaitTypeOK
  <2>4. QED
    BY <1>2, <2>2, <2>3 DEF Start, WaitTypeOK
<1>3. ASSUME NEW a \in Agents, Poll(a) PROVE WaitTypeOK'
  <2>1. Fresh(a) \in SUBSET Nat
    <3>1. wait[a].unread \in SUBSET Nat /\ wait[a].offset \in Nat
      BY WaitForms
    <3>2. wait[a].offset + 1 .. EndOfLines \subseteq Nat
      BY <1>0, <3>1
    <3>3. QED
      BY <3>1, <3>2 DEF Fresh
  <2>2. wait' \in [Agents -> Waits]
    <3>1. PICK pc \in WaitPCs :
            wait' = [wait EXCEPT ![a].pc = pc, ![a].offset = EndOfLines,
                                 ![a].unread = Fresh(a), ![a].from = cursor[a]]
      BY <1>3 DEF Poll, WaitPCs
    <3>2. cursor[a] \in Nat
      BY WaitForms
    <3>3. QED
      BY <1>0, <2>1, <3>1, <3>2, PolledForm DEF WaitTypeOK
  <2>3. QED
    BY <1>3, <2>2 DEF Poll, WaitTypeOK
<1>4. ASSUME NEW a \in Agents, TimeOut(a) \/ Die(a) PROVE WaitTypeOK'
  <2>1. Off \in Waits
    BY ThreadWaitAssumption DEF Off, Waits, WaitPCs, Modes
  <2>2. Harm(a) \in SUBSET {"lose", "replay"}
    BY DEF Harm
  <2>3. wait' \in [Agents -> Waits]
    BY <1>4, <2>1 DEF TimeOut, Die, WaitTypeOK
  <2>4. hurt' \in [Agents -> SUBSET {"lose", "replay"}]
    BY <1>4, <2>2 DEF TimeOut, Die, WaitTypeOK
  <2>5. QED
    BY <1>4, <2>3, <2>4 DEF TimeOut, Die, WaitTypeOK
<1>5. ASSUME NEW a \in Agents, TruncateCursor(a) PROVE WaitTypeOK'
  <2>1. wait' \in [Agents -> Waits]
    BY <1>5, MovedForm DEF TruncateCursor, WaitPCs
  <2>2. QED
    BY <1>5, <2>1 DEF TruncateCursor, WaitTypeOK
<1>6. ASSUME NEW a \in Agents, WriteCursor(a) PROVE WaitTypeOK'
  <2>1. log[Max(wait[a].unread)].seq \in Nat
    BY <1>6, BatchEnd DEF AllServed, Served, WriteCursor
  <2>2. wait' \in [Agents -> Waits]
    BY <1>6, MovedForm DEF WriteCursor, WaitPCs
  <2>3. QED
    BY <1>6, <2>1, <2>2 DEF WriteCursor, WaitTypeOK
<1>7. ASSUME NEW a \in Agents, PrintBatch(a) PROVE WaitTypeOK'
  <2>1. Batch(a) \in Seq(Nat) /\ got[a] \in Seq(Nat)
    BY <1>7, BatchFacts, WaitForms DEF AllServed, Served, PrintBatch
  <2>2. got[a] \o Batch(a) \in Seq(Nat)
    BY <2>1, Joining
  <2>3. Off \in Waits
    BY ThreadWaitAssumption DEF Off, Waits, WaitPCs, Modes
  <2>4. {log[i].seq : i \in Spared(a)} \subseteq Nat
    <3>1. Spared(a) \subseteq 1 .. Len(log)
      <4>1. Keeps(a) /\ wait[a].offset \in Nat /\ wait[a].pc = "print"
        BY <1>7, WaitForms DEF AllServed, Served, PrintBatch
      <4>2. QED
        BY <4>1, TailEnded, ShownOrSpared DEF Keeps, Unread
    <3>2. QED
      BY <3>1, SeqsAreNat DEF LogOK
  <2>5. QED
    BY <1>7, <2>2, <2>3, <2>4 DEF PrintBatch, WaitTypeOK
<1>8. CASE UNCHANGED vars
  BY <1>1, <1>8 DEF vars
<1>9. ASSUME NEW p, PosterStep(p) \/ LogStep(p) PROVE WaitTypeOK'
  BY <1>1, <1>9 DEF PosterStep, LogStep
<1>10. QED
  BY <1>2, <1>3, <1>4, <1>5, <1>6, <1>7, <1>8, <1>9 DEF Next, Deliver, Starts

LEMMA AllAreServed ==
  ASSUME TailMisses = FALSE
  PROVE  Spec => [](LogOK /\ WaitTypeOK /\ AllServed)
<1>1. LogOK /\ LogOK' /\ WaitTypeOK /\ AllServed /\ [Next]_vars => (WaitTypeOK /\ AllServed)'
  BY ServedStep, WaitTypeStep
<1>2. QED
  BY <1>1, ServedInit, LogStaysOK, PTL DEF Spec

(* wait_for_thread_message never hands a participant a record twice, nor   *)
(* out of the order of the log, unless its process was killed between the  *)
(* truncation of the cursor file and its write: for any number of          *)
(* participants, posters, posts and deaths.                                *)
THEOREM HandsOnceInOrder ==
  ASSUME TailMisses = FALSE
  PROVE  Spec => []HandedOnceInOrder
<1>1. AllServed => HandedOnceInOrder
  BY DEF AllServed, Served, InOrderSoFar, Rising, HandedOnceInOrder
<1>2. QED
  BY <1>1, AllAreServed, PTL

(* The cursor _write_thread_cursor leaves is never past a finished record  *)
(* of somebody else that cmd_thread did not print, unless the process was  *)
(* killed between the two or split_for_mention_only left the record out,   *)
(* which it does to no record that mentions the participant.               *)
THEOREM SkipsNothing ==
  ASSUME TailMisses = FALSE
  PROVE  Spec => []NothingSkipped
<1>1. AllServed => NothingSkipped
  BY DEF AllServed, Served, CompleteSoFar, Told, Past, NothingSkipped
<1>2. QED
  BY <1>1, AllAreServed, PTL

(* Every variable of ThreadWait keeps its type; for the places that is a   *)
(* consequence of what a waiting process keeps.                            *)
THEOREM WaitTypeCorrect ==
  ASSUME TailMisses = FALSE
  PROVE  Spec => []TypeOK
<1>1. LogOK /\ WaitTypeOK => TypeOK
  BY DEF LogOK, WaitTypeOK, TypeOK
<1>2. QED
  BY <1>1, AllAreServed, PTL

(* The same numbering and the same bound on losses where participants wait *)
(* and die as well.                                                        *)
THEOREM ThreadSeqsIncrease ==
  ASSUME TailMisses = FALSE
  PROVE  Spec => []SeqIncreasing
<1>1. LogOK => SeqIncreasing
  BY DEF LogOK
<1>2. QED
  BY <1>1, LogStaysOK, PTL

(* No more acknowledged posts are unreadable than writers died in the      *)
(* middle of a record, where participants wait and die as well; with no    *)
(* assumption about what _read_last_record finds.                          *)
THEOREM ThreadLossIsBounded == Spec => []LossBounded
<1>1. Init => LogInit
  BY DEF Init
<1>2. [Next]_vars => [LogNext]_logVars
  BY NextIsLogNext
<1>3. QED
  BY <1>1, <1>2, LossIsBounded, PTL DEF Spec, LogSpec

-----------------------------------------------------------------------------
(* The finished records.  Their seqs are their positions among themselves, *)
(* which is what makes the log a list of posts.                            *)
Finished == {i \in 1 .. Len(log) : Visible(i)}

(* Two increasing sequences of the same numbers are the same.              *)
Orders(s, c, S) ==
  /\ s \in [1 .. c -> S]
  /\ Increasing(s, c)
  /\ \A x \in S : \E n \in 1 .. c : s[n] = x

LEMMA OneOrder ==
  ASSUME NEW c \in Nat, NEW k \in Nat, NEW S, S \subseteq 1 .. k,
         NEW s, NEW t, Orders(s, c, S), Orders(t, c, S)
  PROVE  s = t
<1> USE DEF Orders
<1> DEFINE D == {n \in 1 .. c : s[n] # t[n]}
<1>a. \A x \in S : x \in Nat
  OBVIOUS
<1>b. \A n \in 1 .. c : s[n] \in S /\ t[n] \in S
  OBVIOUS
<1>0. \A n \in 1 .. c : s[n] \in Nat /\ t[n] \in Nat /\ s[n] \in S /\ t[n] \in S
  BY <1>a, <1>b
<1>1. CASE D = {}
  <2>1. \A n \in 1 .. c : s[n] = t[n]
    BY <1>1
  <2>2. QED
    BY <2>1
<1>2. CASE D # {}
  <2>1. PICK n \in D : \A m \in D : n <= m
    <3>1. D \subseteq Nat
      OBVIOUS
    <3> HIDE DEF D
    <3>2. QED
      BY <1>2, <3>1, Least
  <2>2. \A m \in 1 .. c : m < n => s[m] = t[m]
    BY <2>1
  <2>c. n \in 1 .. c
    BY <2>1
  <2>3. ASSUME NEW u \in [1 .. c -> S], NEW v \in [1 .. c -> S],
               Increasing(u, c), Increasing(v, c), u[n] < v[n],
               \A m \in 1 .. c : m < n => u[m] = v[m],
               \E m \in 1 .. c : v[m] = u[n]
        PROVE  FALSE
    <3>1. PICK m \in 1 .. c : v[m] = u[n]
      BY <2>3
    <3>0. u[n] \in S /\ v[n] \in S
      BY <2>c
    <3>2. u[n] \in Nat /\ v[n] \in Nat /\ n \in 1 .. c
      BY <1>a, <2>c, <3>0
    <3>3. CASE m = n
      BY <2>3, <3>1, <3>2, <3>3
    <3>4. CASE m < n
      <4>1. u[m] = u[n] /\ u[m] < u[n]
        BY <2>3, <3>1, <3>2, <3>4 DEF Increasing
      <4>2. QED
        BY <3>2, <4>1
    <3>5. CASE m > n
      <4>1. v[n] < v[m]
        BY <2>3, <3>2, <3>5 DEF Increasing
      <4>2. QED
        BY <2>3, <3>1, <3>2, <4>1
    <3>6. QED
      BY <3>2, <3>3, <3>4, <3>5
  <2>4. n \in 1 .. c /\ s[n] # t[n] /\ s[n] \in S /\ t[n] \in S /\ s[n] \in Nat /\ t[n] \in Nat
    BY <1>0, <2>1
  <2>5. CASE s[n] < t[n]
    BY <2>2, <2>3, <2>4, <2>5
  <2>6. CASE t[n] < s[n]
    BY <2>2, <2>3, <2>4, <2>6
  <2>7. QED
    BY <2>4, <2>5, <2>6
<1>3. QED
  BY <1>1, <1>2

(* The n-th member of S, and what adding a greatest one changes.           *)
NthOf(S, n) == InOrder(S)[n]

LEMMA OrderAdded ==
  ASSUME NEW k \in Nat, NEW S, S \subseteq 1 .. k, NEW g \in Nat, g > k,
         NEW T, \A x : x \in T <=> x \in S \/ x = g
  PROVE  /\ Cardinality(S) \in Nat
         /\ Cardinality(T) = Cardinality(S) + 1
         /\ \A n \in 1 .. Cardinality(S) : NthOf(T, n) = NthOf(S, n)
         /\ NthOf(T, Cardinality(S) + 1) = g
<1> DEFINE c == Cardinality(S)
           s == InOrder(S)
           t == InOrder(T)
           r == [n \in 1 .. c + 1 |-> IF n = c + 1 THEN g ELSE s[n]]
<1>1. /\ c \in Nat /\ s \in [1 .. c -> S] /\ Increasing(s, c)
      /\ \A x \in S : \E n \in 1 .. c : s[n] = x
  BY InOrderFacts
<1>2. Cardinality(T) = c + 1
  <2>1. IsFiniteSet(1 .. k)
    BY FS_Interval
  <2>2. IsFiniteSet(S)
    BY <2>1, FS_Subset
  <2>3. g \notin S
    OBVIOUS
  <2> DEFINE U == S \cup {g}
  <2>4. Cardinality(U) = c + 1
    BY <2>2, <2>3, FS_AddElement
  <2>5. T = U
    OBVIOUS
  <2> HIDE DEF U
  <2>6. QED
    BY <2>4, <2>5
<1>3. T \subseteq 1 .. g
  <2>1. ASSUME NEW x \in T PROVE x \in 1 .. g
    <3>1. x \in 1 .. k \/ x = g
      OBVIOUS
    <3>2. QED
      BY <3>1
  <2>2. QED
    BY <2>1
<1>4. /\ t \in [1 .. c + 1 -> T] /\ Increasing(t, c + 1)
      /\ \A x \in T : \E n \in 1 .. c + 1 : t[n] = x
  <2>1. /\ t \in [1 .. Cardinality(T) -> T] /\ Increasing(t, Cardinality(T))
        /\ \A x \in T : \E n \in 1 .. Cardinality(T) : t[n] = x
    BY <1>3, InOrderFacts
  <2> HIDE DEF c, t
  <2>2. QED
    BY <1>2, <2>1
<1> HIDE DEF c, s, t
<1>5. \A n \in 1 .. c + 1 : n # c + 1 => n \in 1 .. c /\ s[n] \in S /\ s[n] \in 1 .. k
  <2>1. \A n \in 1 .. c + 1 : n # c + 1 => n \in 1 .. c
    BY <1>1
  <2>2. QED
    BY <1>1, <2>1
<1>6. r \in [1 .. c + 1 -> T]
  BY <1>5
<1>7. Increasing(r, c + 1)
  <2>1. ASSUME NEW i \in 1 .. c + 1, NEW j \in 1 .. c + 1, i < j PROVE r[i] < r[j]
    <3>1. i # c + 1
      BY <1>1, <2>1
    <3>2. i \in 1 .. c /\ r[i] = s[i] /\ s[i] \in 1 .. k
      BY <1>5, <3>1
    <3>3. CASE j = c + 1
      BY <3>2, <3>3
    <3>4. CASE j # c + 1
      <4>1. j \in 1 .. c /\ r[j] = s[j]
        BY <1>5, <3>4
      <4>2. QED
        BY <1>1, <2>1, <3>2, <4>1 DEF Increasing
    <3>5. QED
      BY <3>3, <3>4
  <2>2. QED
    BY <2>1 DEF Increasing
<1>8. \A x \in T : \E n \in 1 .. c + 1 : r[n] = x
  <2>1. r[c + 1] = g /\ c + 1 \in 1 .. c + 1
    BY <1>1
  <2>2. ASSUME NEW x \in S PROVE \E n \in 1 .. c + 1 : r[n] = x
    <3>1. PICK n \in 1 .. c : s[n] = x
      BY <1>1
    <3>2. n \in 1 .. c + 1 /\ n # c + 1
      BY <1>1
    <3>3. r[n] = x
      BY <3>1, <3>2
    <3>4. QED
      BY <3>2, <3>3
  <2>3. QED
    BY <2>1, <2>2
<1>9. t = r
  <2> HIDE DEF r
  <2>1. c + 1 \in Nat
    BY <1>1
  <2>2. \A x \in T : (\E n \in 1 .. c + 1 : t[n] = x) /\ (\E n \in 1 .. c + 1 : r[n] = x)
    BY <1>4, <1>8
  <2>3. t \in [1 .. c + 1 -> T] /\ Increasing(t, c + 1)
    BY <1>4
  <2>4. Orders(t, c + 1, T) /\ Orders(r, c + 1, T)
    BY <1>6, <1>7, <2>2, <2>3 DEF Orders
  <2>5. QED
    BY <1>3, <2>1, <2>4, OneOrder
<1>10. \A n \in 1 .. c : n \in 1 .. c + 1 /\ n # c + 1
  BY <1>1
<1>11. c + 1 \in 1 .. c + 1
  BY <1>1
<1>12. (\A n \in 1 .. c : t[n] = s[n]) /\ t[c + 1] = g
  BY <1>9, <1>10, <1>11
<1>13. QED
  BY <1>1, <1>2, <1>12 DEF c, s, t, NthOf

(* A sequence that is in order, within S and hits every member of S is     *)
(* InOrder(S).                                                             *)
LEMMA TheOrder ==
  ASSUME NEW k \in Nat, NEW S, S \subseteq 1 .. k, NEW n \in Nat, NEW s, Orders(s, n, S)
  PROVE  s = InOrder(S)
<1>1. IsFiniteSet(S)
  <2>1. IsFiniteSet(1 .. k)
    BY FS_Interval
  <2>2. QED
    BY <2>1, FS_Subset
<1>2. IsFiniteSet(1 .. n) /\ Cardinality(1 .. n) = n
  BY FS_Interval
<1>3. s \in Bijection(1 .. n, S)
  <2>1. ASSUME NEW i \in 1 .. n, NEW j \in 1 .. n, s[i] = s[j] PROVE i = j
    <3>1. s[i] \in 1 .. k /\ s[j] \in 1 .. k
      BY DEF Orders
    <3>2. QED
      BY <2>1, <3>1 DEF Orders, Increasing
  <2>2. QED
    BY <2>1 DEF Orders, Bijection, Injection, Surjection, IsInjective
<1>4. Cardinality(S) = n
  BY <1>1, <1>2, <1>3, FS_Bijection DEF ExistsBijection
<1>5. Orders(InOrder(S), n, S)
  BY <1>4, InOrderFacts DEF Orders
<1>6. QED
  BY <1>5, OneOrder

(* The greatest member comes last.                                         *)
LEMMA GreatestIsLast ==
  ASSUME NEW k \in Nat, NEW S, S \subseteq 1 .. k, NEW g \in S, \A x \in S : x <= g
  PROVE  Cardinality(S) \in 1 .. Cardinality(S) /\ InOrder(S)[Cardinality(S)] = g
<1> DEFINE c == Cardinality(S)
           s == InOrder(S)
<1>1. /\ c \in Nat /\ s \in [1 .. c -> S] /\ Increasing(s, c)
      /\ \A x \in S : \E n \in 1 .. c : s[n] = x
  BY InOrderFacts
<1> HIDE DEF c, s
<1>2. PICK n \in 1 .. c : s[n] = g
  BY <1>1
<1>3. c \in 1 .. c /\ s[c] \in S
  BY <1>1, <1>2
<1>4. s[c] <= g /\ s[c] \in Nat /\ g \in Nat
  <2>1. \A x \in S : x \in Nat /\ x <= g
    OBVIOUS
  <2>2. QED
    BY <1>3, <2>1
<1>5. n < c => g < s[c]
  BY <1>1, <1>2, <1>3 DEF Increasing
<1>6. QED
  BY <1>1, <1>2, <1>3, <1>4, <1>5 DEF c, s

-----------------------------------------------------------------------------
(* What a step does to the finished records: nothing, or it adds one after *)
(* all the others.                                                         *)
FinishedKept == Finished' = Finished /\ \A i \in Finished : log'[i] = log[i]

FinishedGrows(line) ==
  /\ Len(log) \in Nat /\ Len(log) > 0
  /\ Finished \subseteq 1 .. Len(log) - 1
  /\ Finished' = Finished \cup {Len(log)}
  /\ \A i \in Finished : log'[i] = log[i]
  /\ log'[Len(log)] = line

LEMMA LogUntouched ==
  ASSUME UNCHANGED log
  PROVE  FinishedKept
BY DEF FinishedKept, Finished, Visible, Whole

LEMMA FinishedForm ==
  ASSUME LogTypeOK
  PROVE  /\ Len(log) \in Nat /\ Finished \subseteq 1 .. Len(log)
         /\ \A i : i \in Finished <=> i \in 1 .. Len(log) /\ log[i].whole /\ log[i].ended
BY DEF LogTypeOK, Finished, Visible, Whole

LEMMA LastOpenRelined ==
  ASSUME LogTypeOK, LogTypeOK', Unfinished, NEW whole \in BOOLEAN, NEW ended \in BOOLEAN,
         log # <<>>, log' = Relined(log, Len(log), Rewritten(whole, ended))
  PROVE  /\ ~(whole /\ ended) => FinishedKept
         /\ whole /\ ended => FinishedGrows(Rewritten(whole, ended))
<1>1. /\ Len(log') = Len(log)
      /\ \A i \in 1 .. Len(log) :
           log'[i] = IF i = Len(log) THEN Rewritten(whole, ended) ELSE log[i]
  BY LastLineRewritten DEF LogTypeOK
<1>2. Len(log) \in 1 .. Len(log) /\ ~log[Len(log)].ended
  BY LastLineType, UnfinishedForm DEF LogTypeOK, LastLine
<1>3. Rewritten(whole, ended).whole = whole /\ Rewritten(whole, ended).ended = ended
  BY DEF Rewritten
<1>4. Len(log) \in Nat /\ Len(log) > 0
  BY <1>2, FinishedForm
<1>5. Finished \subseteq 1 .. Len(log) - 1 /\ Finished \subseteq 1 .. Len(log)
  BY <1>2, <1>4, FinishedForm
<1>6. \A i \in Finished : log'[i] = log[i]
  BY <1>1, <1>2, FinishedForm
<1>7. \A i : i \in Finished' <=> i \in 1 .. Len(log') /\ log'[i].whole /\ log'[i].ended
  BY DEF Finished, Visible, Whole
<1>8. \A i : i \in Finished' <=> i \in Finished \/ (i = Len(log) /\ whole /\ ended)
  BY <1>1, <1>2, <1>3, <1>7, FinishedForm
<1>9. log'[Len(log)] = Rewritten(whole, ended)
  BY <1>1, <1>2
<1>10. ASSUME ~(whole /\ ended) PROVE FinishedKept
  BY <1>6, <1>8, <1>10 DEF FinishedKept
<1>11. ASSUME whole /\ ended PROVE FinishedGrows(Rewritten(whole, ended))
  <2>1. Finished' = Finished \cup {Len(log)}
    BY <1>8, <1>11
  <2>2. QED
    BY <1>4, <1>5, <1>6, <1>9, <2>1 DEF FinishedGrows
<1>12. QED
  BY <1>10, <1>11

LEMMA FinishedSteps ==
  ASSUME LogTypeOK, LogTypeOK', Lined, NEW p \in Procs
  PROVE  /\ LockOnly(p) \/ ReadLast(p) \/ StartWrite(p) => FinishedKept
         /\ Crash(p) /\ app[p].pc = "writing" => FinishedKept
         /\ EndWrite(p) => IF app[p].glued THEN FinishedKept
                                           ELSE FinishedGrows(Rewritten(TRUE, TRUE))
<1>1. ASSUME LockOnly(p) \/ ReadLast(p) PROVE FinishedKept
  <2>1. UNCHANGED log
    BY <1>1, LockOnlyMoves DEF ReadLast, Lined, OnlyLockMoved
  <2>2. QED
    BY <2>1, LogUntouched
<1>2. ASSUME StartWrite(p) PROVE FinishedKept
  <2>1. CASE Unfinished
    BY <1>2, <2>1, StepsLined, LastOpenRelined DEF Glues
  <2>2. CASE ~Unfinished
    <3>1. Line(p) \in Lines /\ ~Line(p).whole
      BY <1>2, AppendForms DEF Line, Lines, LogTypeOK, StartWrite
    <3>2. /\ Len(log') = Len(log) + 1
          /\ \A i \in 1 .. Len(log) : log'[i] = log[i]
          /\ log'[Len(log) + 1] = Line(p)
      BY <1>2, <2>2, <3>1, StepsLined, LineAdded DEF Adds, LogTypeOK
    <3>3. \A i : i \in Finished' <=> i \in 1 .. Len(log') /\ log'[i].whole /\ log'[i].ended
      BY DEF Finished, Visible, Whole
    <3>4. \A i : i \in 1 .. Len(log') <=> i \in 1 .. Len(log) \/ i = Len(log) + 1
      BY <3>2, FinishedForm
    <3>5. \A i : i \in Finished' <=> i \in Finished
      BY <3>1, <3>2, <3>3, <3>4, FinishedForm
    <3>6. QED
      BY <3>2, <3>5, FinishedForm DEF FinishedKept
  <2>3. QED
    BY <2>1, <2>2
<1>3. ASSUME Crash(p), app[p].pc = "writing" PROVE FinishedKept
  <2>1. Unfinished /\ Leaves(p) /\ app[p].glued \in BOOLEAN
    BY <1>3, StepsLined, AppendForms DEF LogTypeOK
  <2>2. LastLine.ended = FALSE
    BY <2>1, UnfinishedForm, LastLineType DEF LogTypeOK, Lines
  <2>3. PICK whole \in BOOLEAN : log' = Relined(log, Len(log), Rewritten(whole, FALSE))
    BY <2>1, <2>2 DEF Leaves
  <2>4. QED
    BY <2>1, <2>3, LastOpenRelined DEF Leaves
<1>4. ASSUME EndWrite(p)
      PROVE  IF app[p].glued THEN FinishedKept ELSE FinishedGrows(Rewritten(TRUE, TRUE))
  <2>1. Unfinished /\ Closes(p) /\ app[p].glued \in BOOLEAN
    BY <1>4, StepsLined, AppendForms DEF LogTypeOK
  <2>2. CASE app[p].glued
    BY <2>1, <2>2, LastOpenRelined DEF Closes
  <2>3. CASE ~app[p].glued
    BY <2>1, <2>3, LastOpenRelined DEF Closes
  <2>4. QED
    BY <2>2, <2>3
<1>5. QED
  BY <1>1, <1>2, <1>3, <1>4

-----------------------------------------------------------------------------
(* A finished record's seq is its position among the finished records; the *)
(* record being written is to be the next of them.                         *)
Count == Cardinality(Finished)

Nth(n) == NthOf(Finished, n)

Ranked == \A n \in 1 .. Count : log[Nth(n)].seq = n

NextRank ==
  \A p \in Procs :
    /\ app[p].pc = "write" /\ ~Unfinished => app[p].seq = Count + 1
    /\ app[p].pc = "writing" /\ ~app[p].glued => LastLine.seq = Count + 1

Numbers == Ranked /\ NextRank

LEMMA NthFacts ==
  ASSUME LogTypeOK
  PROVE  /\ Count \in Nat
         /\ \A n \in 1 .. Count : Nth(n) \in Finished /\ Nth(n) \in 1 .. Len(log)
         /\ \A i \in Finished : \E n \in 1 .. Count : Nth(n) = i
         /\ \A m, n \in 1 .. Count : m < n => Nth(m) < Nth(n)
<1>1. Len(log) \in Nat /\ Finished \subseteq 1 .. Len(log)
  BY FinishedForm
<1>2. /\ Count \in Nat /\ InOrder(Finished) \in [1 .. Count -> Finished]
      /\ Increasing(InOrder(Finished), Count)
      /\ \A x \in Finished : \E n \in 1 .. Count : InOrder(Finished)[n] = x
  BY <1>1, InOrderFacts DEF Count
<1>3. QED
  BY <1>1, <1>2 DEF Nth, NthOf, Increasing

LEMMA NthKept ==
  ASSUME FinishedKept
  PROVE  Count' = Count /\ \A n \in 1 .. Count : Nth(n)' = Nth(n)
BY DEF FinishedKept, Count, Nth

LEMMA NthGrows ==
  ASSUME LogTypeOK, NEW line, FinishedGrows(line)
  PROVE  /\ Count' = Count + 1
         /\ \A n \in 1 .. Count : Nth(n)' = Nth(n)
         /\ Nth(Count)' = Len(log)
         /\ \A n \in 1 .. Count' : n \in 1 .. Count \/ n = Count + 1
<1>1. Len(log) - 1 \in Nat /\ Len(log) \in Nat /\ Len(log) > Len(log) - 1
  BY DEF FinishedGrows
<1>2. Finished' = Finished \cup {Len(log)} /\ Finished \subseteq 1 .. Len(log) - 1
  BY DEF FinishedGrows
<1>3. /\ Cardinality(Finished) \in Nat
      /\ Cardinality(Finished') = Cardinality(Finished) + 1
      /\ \A n \in 1 .. Cardinality(Finished) : NthOf(Finished', n) = NthOf(Finished, n)
      /\ NthOf(Finished', Cardinality(Finished) + 1) = Len(log)
  <2>1. \A x : x \in Finished' <=> x \in Finished \/ x = Len(log)
    BY <1>2
  <2>2. Finished \subseteq 1 .. Len(log) - 1
    BY <1>2
  <2>3. PICK k \in Nat, g \in Nat : k = Len(log) - 1 /\ g = Len(log)
    BY <1>1
  <2>4. /\ g > k /\ Finished \subseteq 1 .. k
        /\ \A x : x \in Finished' <=> x \in Finished \/ x = g
    BY <1>1, <2>1, <2>2, <2>3
  <2>5. /\ Cardinality(Finished) \in Nat
        /\ Cardinality(Finished') = Cardinality(Finished) + 1
        /\ \A n \in 1 .. Cardinality(Finished) : NthOf(Finished', n) = NthOf(Finished, n)
        /\ NthOf(Finished', Cardinality(Finished) + 1) = g
    BY <2>4, OrderAdded
  <2>6. QED
    BY <2>3, <2>5
<1>4. Count' = Count + 1 /\ Count \in Nat
  BY <1>3 DEF Count
<1>5. /\ \A n \in 1 .. Count : Nth(n)' = Nth(n)
      /\ NthOf(Finished', Count') = Len(log)
  BY <1>3, <1>4 DEF Count, Nth
<1>6. Nth(Count)' = Len(log)
  BY <1>5 DEF Nth
<1>7. QED
  BY <1>4, <1>5, <1>6

LEMMA NumbersInit == LogInit => Numbers
<1> SUFFICES ASSUME LogInit PROVE Numbers
  OBVIOUS
<1>1. Finished = {}
  BY DEF LogInit, Finished
<1>2. Count = 0
  BY <1>1, FS_EmptySet DEF Count
<1>3. \A p \in Procs : app[p].pc = "idle"
  BY DEF LogInit, NoAppend
<1>4. QED
  BY <1>2, <1>3 DEF Numbers, Ranked, NextRank

(* Steps that leave the finished records alone and the numbers above too.  *)
LEMMA RankedKept ==
  ASSUME LogTypeOK, Ranked, FinishedKept
  PROVE  Ranked'
<1>1. Count' = Count /\ \A n \in 1 .. Count : Nth(n)' = Nth(n)
  BY NthKept
<1>2. \A n \in 1 .. Count : log'[Nth(n)] = log[Nth(n)]
  BY NthFacts DEF FinishedKept
<1>3. ASSUME NEW n \in 1 .. Count' PROVE log'[Nth(n)'].seq = n
  BY <1>1, <1>2, <1>3 DEF Ranked
<1>4. QED
  BY <1>3 DEF Ranked

LEMMA RankedGrows ==
  ASSUME LogTypeOK, Ranked, NEW line, FinishedGrows(line), line.seq = Count + 1
  PROVE  Ranked'
<1>1. /\ Count' = Count + 1 /\ Nth(Count)' = Len(log)
      /\ \A n \in 1 .. Count : Nth(n)' = Nth(n)
      /\ \A n \in 1 .. Count' : n \in 1 .. Count \/ n = Count'
  BY NthGrows
<1>2. \A n \in 1 .. Count : log'[Nth(n)] = log[Nth(n)]
  BY NthFacts DEF FinishedGrows
<1>3. ASSUME NEW n \in 1 .. Count PROVE log'[Nth(n)'].seq = n
  BY <1>1, <1>2, <1>3 DEF Ranked
<1>4. log'[Nth(Count)'].seq = Count'
  BY <1>1 DEF FinishedGrows
<1>5. QED
  BY <1>1, <1>3, <1>4 DEF Ranked

(* ReadLast finds the number of the last finished record, or none.         *)
LEMMA ReadsTheCount ==
  ASSUME TailMisses = FALSE, LogTypeOK, Lined, Ranked, ~Unfinished,
         NEW p \in Procs, ReadLast(p)
  PROVE  app'[p].seq = Count + 1
<1>0. Len(log) \in Nat /\ Finished \subseteq 1 .. Len(log)
  BY FinishedForm
<1>1. \A i \in 1 .. Len(log) : log[i].ended
  <2>1. ASSUME NEW i \in 1 .. Len(log) PROVE log[i].ended
    <3>1. CASE i = Len(log)
      BY <1>0, <3>1, UnfinishedForm DEF LogTypeOK, LastLine
    <3>2. CASE i # Len(log)
      BY <1>0, <3>2 DEF Lined, OnlyLastOpen
    <3>3. QED
      BY <3>1, <3>2
  <2>2. QED
    BY <2>1
<1>2. \A i : i \in Finished <=> Whole(i)
  BY <1>1, FinishedForm DEF Whole
<1>3. \A n : Numbered(p, n) => app'[p].seq = n
  BY DEF Numbered, LogTypeOK, Appends
<1>4. ASSUME NEW i \in 1 .. Len(log), LastRecord(i), Numbered(p, log[i].seq + 1)
      PROVE  app'[p].seq = Count + 1
  <2>1. i \in Finished /\ \A j \in Finished : j <= i
    <3>1. \A j \in Finished : j \in 1 .. Len(log) /\ Whole(j)
      BY <1>0, <1>2
    <3>2. QED
      BY <1>0, <1>2, <1>4, <3>1 DEF LastRecord
  <2>2. Count \in 1 .. Count /\ Nth(Count) = i
    BY <1>0, <2>1, GreatestIsLast DEF Count, Nth, NthOf
  <2>3. QED
    BY <1>3, <1>4, <2>2 DEF Ranked
<1>5. ASSUME NoneFound, Numbered(p, 1) PROVE app'[p].seq = Count + 1
  <2>1. \A i \in 1 .. Len(log) : ~Whole(i)
    BY <1>5 DEF NoneFound
  <2>2. Finished = {}
    BY <1>0, <1>2, <2>1
  <2>3. Count = 0
    BY <2>2, FS_EmptySet DEF Count
  <2>4. QED
    BY <1>3, <1>5, <2>3
<1>6. QED
  BY <1>4, <1>5 DEF ReadLast

LEMMA NumbersStep ==
  ASSUME TailMisses = FALSE, LogTypeOK, LogTypeOK', Lined, Numbers, [LogNext]_logVars
  PROVE  Numbers'
<1>0. Count \in Nat
  BY NthFacts
<1>1. CASE UNCHANGED logVars
  <2>1. FinishedKept
    BY <1>1, LogUntouched DEF logVars
  <2>2. Ranked' /\ Count' = Count
    BY <2>1, RankedKept, NthKept DEF Numbers
  <2>3. QED
    BY <1>1, <2>2 DEF logVars, Numbers, NextRank, Unfinished, LastLine
<1>2. ASSUME NEW p \in Procs, LockOnly(p) PROVE Numbers'
  <2>1. Ranked' /\ Count' = Count
    BY <1>2, FinishedSteps, RankedKept, NthKept DEF Numbers
  <2>2. OnlyLockMoved
    BY <1>2, LockOnlyMoves DEF Lined
  <2>3. QED
    BY <2>1, <2>2 DEF OnlyLockMoved, InSection, Numbers, NextRank, Unfinished, LastLine
<1>3. ASSUME NEW p \in Procs, ReadLast(p) PROVE Numbers'
  <2>1. Ranked' /\ Count' = Count
    BY <1>3, FinishedSteps, RankedKept, NthKept DEF Numbers
  <2>2. /\ UNCHANGED log /\ app'[p].pc = "write"
        /\ \A q \in Procs \ {p} : app'[q] = app[q]
    BY <1>3, ReadLastMoves
  <2>3. ~Unfinished => app'[p].seq = Count + 1
    BY <1>3, ReadsTheCount DEF Numbers
  <2>4. QED
    BY <2>1, <2>2, <2>3 DEF Numbers, NextRank, Unfinished, LastLine
<1>4. ASSUME NEW p \in Procs, StartWrite(p) PROVE Numbers'
  <2>1. Ranked' /\ Count' = Count
    BY <1>4, FinishedSteps, RankedKept, NthKept DEF Numbers
  <2>2. /\ IF Unfinished THEN Glues(p) ELSE Adds(p)
        /\ \A q \in Procs \ {p} : app[q].pc \notin InSection
        /\ app' = [app EXCEPT ![p].pc = "writing", ![p].glued = Unfinished]
    BY <1>4, StepsLined
  <2>3. /\ app'[p].pc = "writing" /\ \A q \in Procs \ {p} : app'[q] = app[q]
        /\ (Unfinished => app'[p].glued)
    BY <2>2 DEF LogTypeOK, Appends
  <2>4. CASE Unfinished
    BY <2>1, <2>2, <2>3, <2>4 DEF Numbers, NextRank, InSection
  <2>5. CASE ~Unfinished
    <3>1. Line(p) \in Lines /\ Line(p).seq = Count + 1
      BY <1>4, <2>5, AppendForms DEF Line, Lines, LogTypeOK, StartWrite, Numbers, NextRank
    <3>2. LastLine'.seq = Count + 1
      BY <2>2, <2>5, <3>1, LineAdded DEF Adds, LogTypeOK, LastLine
    <3>3. QED
      BY <2>1, <2>2, <2>3, <3>2 DEF Numbers, NextRank, InSection
  <2>6. QED
    BY <2>4, <2>5
<1>5. ASSUME NEW p \in Procs, EndWrite(p) PROVE Numbers'
  <2>1. \A q \in Procs \ {p} : app[q].pc \notin InSection
    BY <1>5, StepsLined
  <2>2. app'[p].pc = "unlock" /\ \A q \in Procs \ {p} : app'[q] = app[q]
    BY <1>5 DEF EndWrite, Step, LogTypeOK, Appends
  <2>3. NextRank'
    BY <2>1, <2>2 DEF NextRank, InSection
  <2>4. CASE app[p].glued
    <3>1. FinishedKept
      BY <1>5, <2>4, FinishedSteps
    <3>2. QED
      BY <2>3, <3>1, RankedKept DEF Numbers
  <2>5. CASE ~app[p].glued
    <3>1. FinishedGrows(Rewritten(TRUE, TRUE))
      BY <1>5, <2>5, FinishedSteps
    <3>2. LastLine.seq = Count + 1 /\ Rewritten(TRUE, TRUE).seq = LastLine.seq
      BY <1>5, <2>5 DEF EndWrite, Step, Numbers, NextRank, Rewritten
    <3>3. Rewritten(TRUE, TRUE).seq = Count + 1
      BY <3>2
    <3>4. QED
      BY <2>3, <3>1, <3>3, RankedGrows DEF Numbers
  <2>6. QED
    BY <2>4, <2>5
<1>6. ASSUME NEW p \in Procs, Crash(p), app[p].pc = "writing" PROVE Numbers'
  <2>1. Ranked'
    BY <1>6, FinishedSteps, RankedKept DEF Numbers
  <2>2. \A q \in Procs \ {p} : app[q].pc \notin InSection
    BY <1>6, StepsLined
  <2>3. app'[p].pc = "idle" /\ \A q \in Procs \ {p} : app'[q] = app[q]
    BY <1>6 DEF Crash, NoAppend, LogTypeOK
  <2>4. NextRank'
    BY <2>2, <2>3 DEF NextRank, InSection
  <2>5. QED
    BY <2>1, <2>4 DEF Numbers
<1>7. QED
  BY <1>1, <1>2, <1>3, <1>4, <1>5, <1>6, LogNextSplit

-----------------------------------------------------------------------------
(* The thread as a Room.                                                   *)

LEMMA PostsForm ==
  ASSUME LogTypeOK
  PROVE  /\ Posts \in Seq(Bodies) /\ Len(Posts) = Count
         /\ Posts = [n \in 1 .. Count |-> log[Nth(n)].body]
         /\ \A n \in 1 .. Count : Posts[n] = log[Nth(n)].body
<1>1. DOMAIN InOrder(Finished) = 1 .. Count
  BY FinishedForm, InOrderFacts DEF Count
<1>2. Posts = [n \in 1 .. Count |-> log[Nth(n)].body]
  BY <1>1 DEF Posts, Finished, Nth, NthOf
<1>3. \A n \in 1 .. Count : log[Nth(n)].body \in Bodies
  BY NthFacts, SeqsAreNat DEF Lines
<1>4. Count \in Nat
  BY NthFacts
<1>5. QED
  BY <1>2, <1>3, <1>4

LEMMA PostsKept ==
  ASSUME LogTypeOK, LogTypeOK', FinishedKept
  PROVE  Posts' = Posts
<1>1. Count' = Count /\ \A n \in 1 .. Count : Nth(n)' = Nth(n)
  BY NthKept
<1>2. \A n \in 1 .. Count : log'[Nth(n)] = log[Nth(n)]
  BY NthFacts DEF FinishedKept
<1>3. Finished' = Finished /\ DOMAIN InOrder(Finished) = 1 .. Count
  BY FinishedForm, InOrderFacts DEF Count, FinishedKept
<1>4. Posts' = [n \in 1 .. Count |-> log'[Nth(n)].body]
  BY <1>3 DEF Posts, Finished, Nth, NthOf
<1>5. QED
  BY <1>2, <1>4, PostsForm

LEMMA PostsGrow ==
  ASSUME LogTypeOK, LogTypeOK', NEW line, FinishedGrows(line), line.body \in Bodies
  PROVE  Posts' = Append(Posts, line.body)
<1>1. /\ Count' = Count + 1 /\ Nth(Count)' = Len(log)
      /\ \A n \in 1 .. Count : Nth(n)' = Nth(n)
      /\ \A n \in 1 .. Count' : n \in 1 .. Count \/ n = Count'
  BY NthGrows
<1>2. \A n \in 1 .. Count : log'[Nth(n)] = log[Nth(n)]
  BY NthFacts DEF FinishedGrows
<1>3. Count \in Nat /\ \A n \in 1 .. Count : n \in 1 .. Count'
  BY <1>1, NthFacts
<1>4. Len(log') \in Nat /\ Finished' \subseteq 1 .. Len(log')
  BY DEF LogTypeOK, Finished
<1>5. DOMAIN InOrder(Finished') = 1 .. Count'
  BY <1>4, InOrderFacts DEF Count
<1>6. Posts' = [n \in 1 .. Count' |-> log'[InOrder(Finished')[n]].body]
  BY <1>5 DEF Posts, Finished
<1>7. \A n \in 1 .. Count : Posts'[n] = Posts[n]
  <2>1. ASSUME NEW n \in 1 .. Count PROVE Posts'[n] = Posts[n]
    <3>1. InOrder(Finished')[n] = Nth(n)
      BY <1>1 DEF Nth, NthOf
    <3>2. QED
      BY <1>2, <1>3, <1>6, <3>1, PostsForm
  <2>2. QED
    BY <2>1
<1>8. Posts'[Count'] = line.body
  <2>1. InOrder(Finished')[Count'] = Len(log)
    BY <1>1 DEF Nth, NthOf
  <2>2. Count' \in 1 .. Count'
    BY <1>1, <1>3
  <2>3. QED
    BY <1>6, <2>1, <2>2 DEF FinishedGrows
<1>9. QED
  <2>1. Posts \in Seq(Bodies) /\ Len(Posts) = Count
    BY PostsForm
  <2>2. Append(Posts, line.body) = [n \in 1 .. Count' |-> IF n = Count' THEN line.body ELSE Posts[n]]
    BY <1>1, <1>3, <2>1
  <2>3. DOMAIN Posts' = 1 .. Count' /\ Posts' = [n \in 1 .. Count' |-> Posts'[n]]
    BY <1>6
  <2>4. QED
    BY <1>1, <1>7, <1>8, <2>2, <2>3

LEMMA PostsStep ==
  ASSUME LogTypeOK, LogTypeOK', Lined, [LogNext]_logVars
  PROVE  Posts' = Posts \/ \E body \in Bodies : Posts' = Append(Posts, body)
<1>1. CASE UNCHANGED logVars
  BY <1>1, LogUntouched, PostsKept DEF logVars
<1>2. ASSUME NEW p \in Procs,
             LockOnly(p) \/ ReadLast(p) \/ StartWrite(p) \/ (Crash(p) /\ app[p].pc = "writing")
      PROVE  Posts' = Posts
  BY <1>2, FinishedSteps, PostsKept
<1>3. ASSUME NEW p \in Procs, EndWrite(p)
      PROVE  Posts' = Posts \/ \E body \in Bodies : Posts' = Append(Posts, body)
  <2>1. CASE app[p].glued
    BY <1>3, <2>1, FinishedSteps, PostsKept
  <2>2. CASE ~app[p].glued
    <3>1. FinishedGrows(Rewritten(TRUE, TRUE))
      BY <1>3, <2>2, FinishedSteps
    <3>2. log # <<>>
      BY <1>3, StepsLined DEF Closes
    <3>3. Rewritten(TRUE, TRUE).body \in Bodies
      BY <3>2, LastLineType DEF Rewritten, LogTypeOK, Lines
    <3>4. QED
      BY <3>1, <3>3, PostsGrow
  <2>3. QED
    BY <2>1, <2>2
<1>4. QED
  BY <1>1, <1>2, <1>3, LogNextSplit

(* What is printed is everything somebody else posted since.               *)
LEMMA RankOf ==
  ASSUME LogTypeOK, Ranked, NEW i \in 1 .. Len(log), Visible(i)
  PROVE  log[i].seq \in 1 .. Count /\ Nth(log[i].seq) = i
<1>1. i \in Finished
  BY DEF Finished
<1>2. PICK n \in 1 .. Count : Nth(n) = i
  BY <1>1, NthFacts
<1>3. log[i].seq = n
  BY <1>2 DEF Ranked
<1>4. QED
  BY <1>2, <1>3

LEMMA ServesTheNext ==
  ASSUME LogOK, Numbers, WaitTypeOK, NEW a \in Agents, Keeps(a), wait[a].pc = "print"
  PROVE  /\ cursor[a] \in wait[a].from + 1 .. Count
         /\ ~Own(a, Posts[cursor[a]])
<1> DEFINE top == Max(wait[a].unread)
<1>1. /\ wait[a].unread = Unread(a, wait[a].offset, wait[a].from)
      /\ top \in wait[a].unread /\ top \in 1 .. Len(log) /\ Visible(top)
      /\ log[top].seq \in Nat /\ log[top].seq > wait[a].from
  BY BatchEnd
<1>2. cursor[a] = log[top].seq /\ wait[a].from \in Nat
  BY WaitForms DEF Keeps
<1>3. log[top].seq \in 1 .. Count /\ Nth(log[top].seq) = top
  BY <1>1, RankOf DEF LogOK, Numbers
<1>4. Posts[cursor[a]] = log[top].body
  BY <1>2, <1>3, PostsForm DEF LogOK
<1>5. ~Own(a, log[top].body)
  BY <1>1 DEF Unread
<1> HIDE DEF top
<1>6. Count \in Nat
  BY NthFacts DEF LogOK
<1>7. QED
  BY <1>1, <1>2, <1>3, <1>4, <1>5, <1>6

(* What is printed or left out: everything somebody else posted since.     *)
SeqsOf(lines) == {log[i].seq : i \in lines}

LEMMA UnreadIsForeign ==
  ASSUME LogOK, Numbers, WaitTypeOK, NEW a \in Agents, Keeps(a), wait[a].pc = "print"
  PROVE  /\ SeqsOf(wait[a].unread) = {n \in wait[a].from + 1 .. cursor[a] : ~Own(a, Posts[n])}
         /\ \A i \in wait[a].unread :
              /\ log[i].seq \in 1 .. Count /\ Nth(log[i].seq) = i
              /\ Posts[log[i].seq] = log[i].body
<1> DEFINE u == wait[a].unread
           f == wait[a].from
           S == {n \in f + 1 .. cursor[a] : ~Own(a, Posts[n])}
<1>1. /\ u = Unread(a, wait[a].offset, f) /\ Max(u) \in u /\ Max(u) \in 1 .. Len(log)
      /\ Max(u) \in 1 .. wait[a].offset
      /\ Visible(Max(u)) /\ \A i \in u : i <= Max(u)
  BY BatchEnd
<1>2. /\ wait[a].offset \in Nat /\ wait[a].offset <= EndOfLines /\ f \in Nat
      /\ cursor[a] \in Nat /\ cursor[a] = log[Max(u)].seq
  BY WaitForms DEF Keeps
<1>3. /\ u \subseteq 1 .. Len(log) /\ Len(log) \in Nat
      /\ \A i \in u : Visible(i) /\ f < log[i].seq /\ ~Own(a, log[i].body)
  <2>1. \A i \in u : i \in 1 .. Len(log) /\ log[i].ended
    BY <1>1, <1>2, TailEnded DEF Unread
  <2>2. QED
    BY <1>1, <2>1, TailEnded DEF Unread, Visible, Whole
<1> HIDE DEF u
<1>4. \A i \in u : log[i].seq \in 1 .. Count /\ Nth(log[i].seq) = i
  BY <1>3, RankOf DEF LogOK, Numbers
<1>5. \A i \in u : Posts[log[i].seq] = log[i].body
  BY <1>4, PostsForm DEF LogOK
<1>6. ASSUME NEW i \in u PROVE log[i].seq \in S
  <2>1. log[i].seq \in Nat /\ log[i].seq <= cursor[a]
    <3>1. i \in 1 .. Len(log) /\ Whole(i) /\ Whole(Max(u)) /\ i <= Max(u)
      BY <1>1, <1>3 DEF Visible
    <3>2. log[i].seq \in Nat
      BY <3>1, SeqsAreNat DEF LogOK
    <3>3. i < Max(u) => log[i].seq < log[Max(u)].seq
      BY <1>1, <3>1 DEF LogOK, SeqIncreasing
    <3>4. i = Max(u) \/ i < Max(u)
      BY <1>1, <3>1
    <3>5. QED
      BY <1>2, <3>2, <3>3, <3>4
  <2>2. QED
    BY <1>2, <1>3, <1>5, <2>1
<1>7. ASSUME NEW n \in S PROVE \E i \in u : log[i].seq = n
  <2>1. n \in Nat /\ f < n /\ n <= cursor[a] /\ ~Own(a, Posts[n]) /\ n >= 1
    BY <1>2
  <2>2. cursor[a] \in 1 .. Count /\ Count \in Nat
    BY <1>2, ServesTheNext, NthFacts DEF LogOK
  <2>3. n \in 1 .. Count
    BY <2>1, <2>2
  <2>4. /\ Nth(n) \in Finished /\ Nth(n) \in 1 .. Len(log) /\ log[Nth(n)].seq = n
        /\ Posts[n] = log[Nth(n)].body
    BY <2>3, NthFacts, PostsForm DEF LogOK, Numbers, Ranked
  <2>5. Visible(Nth(n)) /\ Whole(Nth(n)) /\ Whole(Max(u))
    BY <1>1, <2>4 DEF Finished, Visible
  <2>6. ~(Max(u) < Nth(n))
    BY <1>1, <1>2, <2>1, <2>4, <2>5 DEF LogOK, SeqIncreasing
  <2>7. Nth(n) \in 1 .. wait[a].offset
    BY <1>1, <1>2, <2>4, <2>6
  <2>8. Nth(n) \in u
    BY <1>1, <2>1, <2>4, <2>5, <2>7 DEF Unread, Whole
  <2>9. QED
    BY <2>4, <2>8
<1>8. SeqsOf(u) = S
  <2> HIDE DEF S
  <2>1. QED
    BY <1>6, <1>7 DEF SeqsOf
<1>9. QED
  BY <1>4, <1>5, <1>8 DEF u

LEMMA BatchIsShown ==
  ASSUME LogOK, Numbers, WaitTypeOK, NEW a \in Agents, Keeps(a), wait[a].pc = "print"
  PROVE  Batch(a) = InOrder(SeqsOf(Shown(a)))
<1> DEFINE S == SeqsOf(Shown(a))
           c == Len(Batch(a))
<1>1. /\ Batch(a) \in Seq(Nat) /\ Rising(Batch(a)) /\ cursor[a] \in Nat
      /\ \A n \in 1 .. c : wait[a].from < Batch(a)[n] /\ Batch(a)[n] <= cursor[a]
      /\ \A i \in Shown(a) : \E n \in 1 .. c : Batch(a)[n] = log[i].seq
      /\ \A n \in 1 .. c : \E i \in Shown(a) : Batch(a)[n] = log[i].seq
      /\ wait[a].from \in Nat
  BY BatchFacts, WaitForms
<1>2. \A x \in S : \E n \in 1 .. c : Batch(a)[n] = x
  BY <1>1 DEF SeqsOf
<1>3. \A n \in 1 .. c : Batch(a)[n] \in S
  BY <1>1 DEF SeqsOf
<1> HIDE DEF S
<1>4. Orders(Batch(a), c, S) /\ c \in Nat
  <2>1. Batch(a) \in [1 .. c -> S] /\ c \in Nat
    BY <1>1, <1>3
  <2>2. Increasing(Batch(a), c)
    BY <1>1 DEF Increasing, Rising
  <2>3. QED
    BY <1>2, <2>1, <2>2 DEF Orders
<1>5. S \subseteq 1 .. cursor[a]
  <2>1. ASSUME NEW x \in S PROVE x \in 1 .. cursor[a]
    <3>1. PICK n \in 1 .. c : Batch(a)[n] = x
      BY <1>2
    <3>2. Batch(a)[n] \in Nat
      BY <1>1
    <3>3. QED
      BY <1>1, <3>1, <3>2
  <2>2. QED
    BY <2>1
<1> HIDE DEF c
<1>6. Batch(a) = InOrder(S)
  BY <1>1, <1>4, <1>5, TheOrder
<1>7. QED
  BY <1>6 DEF S

(* What --mention-only leaves out is the rest of the batch, and nothing    *)
(* that mentions the participant.                                          *)
LEMMA SparedIsTheRest ==
  ASSUME LogOK, Numbers, WaitTypeOK, NEW a \in Agents, Keeps(a), wait[a].pc = "print"
  PROVE  /\ SeqsOf(Shown(a)) \subseteq SeqsOf(wait[a].unread)
         /\ SeqsOf(Spared(a)) = SeqsOf(wait[a].unread) \ SeqsOf(Shown(a))
         /\ \A n \in SeqsOf(wait[a].unread) : Mentions(a, Posts[n]) => n \in SeqsOf(Shown(a))
<1>1. \A i \in wait[a].unread : Nth(log[i].seq) = i /\ Posts[log[i].seq] = log[i].body
  BY UnreadIsForeign
<1>2. \A i, j \in wait[a].unread : log[i].seq = log[j].seq => i = j
  BY <1>1
<1>3. QED
  BY <1>1, <1>2, ShownOrSpared DEF SeqsOf

LEMMA OneMoreDeath ==
  ASSUME WaitTypeOK, NEW a \in Agents, NEW harm, harm \notin hurt[a]
  PROVE  Cardinality(hurt[a] \cup {harm}) = Cardinality(hurt[a]) + 1
<1>1. IsFiniteSet({"lose", "replay"})
  <2>1. IsFiniteSet({"lose"})
    BY FS_Singleton
  <2>2. IsFiniteSet({"lose"} \cup {"replay"})
    BY <2>1, FS_AddElement
  <2>3. QED
    BY <2>2
<1>2. IsFiniteSet(hurt[a])
  BY <1>1, FS_Subset DEF WaitTypeOK
<1>3. QED
  BY <1>2, FS_AddElement

LEMMA RoomInit == Init => R!Init
<1> SUFFICES ASSUME Init PROVE R!Init
  OBVIOUS
<1>1. {i \in 1 .. Len(log) : Visible(i)} = {}
  BY DEF Init, LogInit
<1>2. Posts = <<>>
  <2>1. InOrder({}) \in [1 .. Cardinality({}) -> {}]
    BY InOrderFacts
  <2>2. DOMAIN InOrder({}) = {}
    BY <2>1, FS_EmptySet
  <2>3. InOrder({i \in 1 .. Len(log) : Visible(i)}) = InOrder({})
    BY <1>1
  <2>4. Posts = [n \in {} |-> log[InOrder({})[n]].body]
    BY <2>2, <2>3 DEF Posts
  <2>5. QED
    BY <2>4
<1>3. \A a \in Agents : (IF Delivering(a) THEN wait[a].from ELSE cursor[a]) = 0
  BY DEF Init, Delivering, Off
<1>4. \A a \in Agents : Cardinality(hurt[a]) = 0
  BY FS_EmptySet DEF Init
<1>5. QED
  BY <1>2, <1>3, <1>4 DEF R!Init, Init

(* A step that leaves every place and every count of deaths alone.         *)
Still == \A a \in Agents : Past(a)' = Past(a) /\ hurt'[a] = hurt[a]

LEMMA StillRoom ==
  ASSUME Still, UNCHANGED <<got, hid>>
  PROVE  /\ Posts' = Posts => UNCHANGED R!vars
         /\ \A body : Posts' = Append(Posts, body) => R!Post(body)
<1>1. [a \in Agents |-> IF Delivering(a) THEN wait[a].from ELSE cursor[a]]'
        = [a \in Agents |-> IF Delivering(a) THEN wait[a].from ELSE cursor[a]]
  BY DEF Still, Past
<1>2. [a \in Agents |-> Cardinality(hurt[a])]' = [a \in Agents |-> Cardinality(hurt[a])]
  BY DEF Still
<1>3. QED
  BY <1>1, <1>2 DEF R!vars, R!Post

LEMMA UnmovedIsStill ==
  ASSUME \A a \in Agents : Unmoved(a)
  PROVE  Still
BY PastUnmoved DEF Still, Unmoved

(* Die keeps the posts, and Start, Poll and Deliver too.                   *)
LEMMA AgentsKeepPosts ==
  ASSUME LogOK, LogOK', NEW a \in Agents,
         \/ Starts(a)
         \/ Poll(a) \/ TimeOut(a) \/ Deliver(a) \/ Die(a)
  PROVE  Posts' = Posts
<1>1. CASE UNCHANGED log
  BY <1>1, LogUntouched, PostsKept DEF LogOK
<1>2. CASE Crash(a)
  <2>1. a \in Procs
    BY ThreadWaitAssumption
  <2>2. FinishedKept
    BY <1>2, <2>1, FinishedSteps DEF LockOnly, LogOK
  <2>3. QED
    BY <2>2, PostsKept DEF LogOK
<1>3. ASSUME NEW mode \in Modes, NEW context \in BOOLEAN, NEW match \in Patterns,
             Start(a, mode, context, match) PROVE UNCHANGED log
  BY <1>3 DEF Start, Touch, TouchSkipped, Begin, logVars
<1>4. ASSUME Poll(a) \/ TimeOut(a) \/ Deliver(a) PROVE UNCHANGED log
  BY <1>4 DEF Poll, TimeOut, Deliver, TruncateCursor, WriteCursor, PrintBatch, logVars
<1>5. Die(a) => Crash(a) \/ UNCHANGED log
  BY DEF Die, logVars
<1>6. QED
  BY <1>1, <1>2, <1>3, <1>4, <1>5 DEF Starts

SeenBy == [a \in Agents |-> Past(a)]

(* Only a moves, so only its place can change.                             *)
LEMMA SeenMoves ==
  ASSUME NEW a \in Agents, \A b \in Agents \ {a} : Unmoved(b), NEW n, Past(a)' = n
  PROVE  SeenBy' = [SeenBy EXCEPT ![a] = n]
<1>1. \A b \in Agents \ {a} : Past(b)' = Past(b)
  BY PastUnmoved
<1>2. SeenBy' = [b \in Agents |-> Past(b)']
  BY DEF SeenBy
<1>3. QED
  BY <1>1, <1>2 DEF SeenBy

LEMMA ForeignForm ==
  ASSUME NEW a, NEW from, NEW to
  PROVE  R!Foreign(a, from, to) = {n \in from + 1 .. to : ~Own(a, Posts[n])}
BY DEF R!Foreign

LEMMA SameOrder ==
  ASSUME NEW S
  PROVE  R!InOrder(S) = InOrder(S)
BY DEF R!InOrder, InOrder, R!Cardinality, Cardinality, R!IsFiniteSet, IsFiniteSet

(* A step of a that takes it past n, and the abstract ones it may be.      *)
LEMMA RoomMoves ==
  ASSUME NEW a \in Agents, NEW n
  PROVE  /\ n \in SeenBy[a] + 1 .. Len(Posts) /\ (R!Serve(a, n) \/ R!Lose(a, n)) => R!Next
         /\ n = 0 /\ R!Lose(a, n) => R!Next
<1>1. ASSUME n \in SeenBy[a] + 1 .. Len(Posts), R!Serve(a, n) \/ R!Lose(a, n) PROVE R!Next
  BY <1>1 DEF R!Next, SeenBy, Past
<1>2. ASSUME n = 0, R!Lose(a, n) PROVE R!Next
  <2>1. R!Lose(a, 0)
    BY <1>2
  <2>2. QED
    BY <2>1 DEF R!Next
<1>3. QED
  BY <1>1, <1>2

LEMMA ServesRoom ==
  ASSUME LogOK, LogOK', Numbers, WaitTypeOK, AllServed, NEW a \in Agents, PrintBatch(a)
  PROVE  R!Next
<1> DEFINE F == R!Foreign(a, SeenBy[a], cursor[a])
           S == SeqsOf(Shown(a))
<1>1. /\ wait[a].pc = "print" /\ wait'[a] = Off /\ UNCHANGED <<cursor, hurt>>
      /\ got' = [got EXCEPT ![a] = @ \o Batch(a)]
      /\ hid' = [hid EXCEPT ![a] = @ \cup SeqsOf(Spared(a))]
  BY DEF PrintBatch, WaitTypeOK, SeqsOf
<1>2. Keeps(a) /\ Past(a) = wait[a].from /\ Past(a)' = cursor[a]
  BY <1>1 DEF AllServed, Served, Past, Delivering, Off
<1>3. Posts' = Posts
  BY AgentsKeepPosts DEF Deliver
<1>4. SeenBy' = [SeenBy EXCEPT ![a] = cursor[a]]
  <2>1. \A b \in Agents \ {a} : Unmoved(b)
    BY OthersUnmoved DEF Deliver
  <2>2. QED
    BY <1>2, <2>1, SeenMoves
<1>5. SeenBy[a] = wait[a].from
  BY <1>2 DEF SeenBy
<1>6. cursor[a] \in SeenBy[a] + 1 .. Len(Posts) /\ ~Own(a, Posts[cursor[a]])
  BY <1>1, <1>2, <1>5, ServesTheNext, PostsForm DEF LogOK
<1>7. F = SeqsOf(wait[a].unread)
  BY <1>1, <1>2, <1>5, ForeignForm, UnreadIsForeign
<1>8. /\ S \in SUBSET F /\ \A m \in F : Mentions(a, Posts[m]) => m \in S
      /\ SeqsOf(Spared(a)) = F \ S
  BY <1>1, <1>2, <1>7, SparedIsTheRest
<1>9. Batch(a) = R!InOrder(S)
  <2> HIDE DEF S
  <2>1. R!InOrder(S) = InOrder(S)
    BY SameOrder
  <2>2. QED
    BY <1>1, <1>2, <2>1, BatchIsShown DEF S
<1> HIDE DEF F, S
<1>10. /\ got' = [got EXCEPT ![a] = @ \o R!InOrder(S)]
       /\ hid' = [hid EXCEPT ![a] = @ \cup (F \ S)]
  BY <1>1, <1>8, <1>9
<1>11. [b \in Agents |-> Cardinality(hurt[b])]' = [b \in Agents |-> Cardinality(hurt[b])]
  BY <1>1
<1>12. \A n : n = cursor[a] => R!Serve(a, n)
  BY <1>3, <1>4, <1>6, <1>8, <1>10, <1>11 DEF R!Serve, SeenBy, Past, F
<1>13. QED
  BY <1>6, <1>12, RoomMoves

LEMMA LosesRoom ==
  ASSUME LogOK, LogOK', Numbers, WaitTypeOK, AllServed, NEW a \in Agents,
         Die(a), Delivering(a)
  PROVE  R!Next
<1>1. /\ wait'[a] = Off /\ UNCHANGED <<cursor, got, hid>>
      /\ Harm(a) \cap hurt[a] = {} /\ hurt' = [hurt EXCEPT ![a] = @ \cup Harm(a)]
  BY DEF Die, WaitTypeOK
<1>2. Keeps(a) /\ Past(a) = wait[a].from /\ Past(a)' = cursor[a]
  BY <1>1 DEF AllServed, Served, Past, Delivering, Off
<1>3. Posts' = Posts
  BY AgentsKeepPosts
<1>4. SeenBy' = [SeenBy EXCEPT ![a] = cursor[a]]
  <2>1. \A b \in Agents \ {a} : Unmoved(b)
    BY OthersUnmoved
  <2>2. QED
    BY <1>2, <2>1, SeenMoves
<1>5. [b \in Agents |-> Cardinality(hurt[b])]'
        = [[b \in Agents |-> Cardinality(hurt[b])] EXCEPT ![a] = @ + 1]
  <2>1. PICK harm : Harm(a) = {harm}
    BY DEF Harm, Delivering
  <2>2. Cardinality(hurt[a] \cup Harm(a)) = Cardinality(hurt[a]) + 1
    BY <1>1, <2>1, OneMoreDeath
  <2>3. hurt'[a] = hurt[a] \cup Harm(a) /\ \A b \in Agents \ {a} : hurt'[b] = hurt[b]
    BY <1>1 DEF WaitTypeOK
  <2>4. QED
    BY <2>2, <2>3
<1>6. \A n : n = cursor[a] => R!Lose(a, n)
  BY <1>1, <1>3, <1>4, <1>5 DEF R!Lose, SeenBy, Past
<1>7. CASE wait[a].pc = "writing"
  <2>1. cursor[a] = 0
    BY <1>2, <1>7 DEF Keeps
  <2>2. QED
    BY <1>6, <2>1, RoomMoves
<1>8. CASE wait[a].pc = "print"
  <2>1. cursor[a] \in SeenBy[a] + 1 .. Len(Posts)
    BY <1>2, <1>8, ServesTheNext, PostsForm DEF LogOK, SeenBy
  <2>2. QED
    BY <1>6, <2>1, RoomMoves
<1>9. QED
  BY <1>7, <1>8 DEF Delivering

(* The other steps of a waiting process move no place.                     *)
LEMMA StaysInRoom ==
  ASSUME LogOK, LogOK', WaitTypeOK, AllServed, NEW a \in Agents,
         \/ Starts(a)
         \/ Poll(a) \/ TimeOut(a) \/ TruncateCursor(a) \/ WriteCursor(a)
         \/ (Die(a) /\ ~Delivering(a))
  PROVE  UNCHANGED R!vars
<1>1. ASSUME NEW mode \in Modes, NEW context \in BOOLEAN, NEW match \in Patterns,
             Start(a, mode, context, match)
      PROVE  Past(a)' = Past(a) /\ UNCHANGED <<hurt, got, hid>>
  BY <1>1 DEF Start, Off, WaitTypeOK, Past, Delivering
<1>2. ASSUME Poll(a) PROVE Past(a)' = Past(a) /\ UNCHANGED <<hurt, got, hid>>
  <2>1. wait'[a].pc \in {"commit", "poll"}
    BY <1>2 DEF Poll, WaitTypeOK, Waits
  <2>2. QED
    BY <1>2, <2>1 DEF Poll, Past, Delivering
<1>3. ASSUME TimeOut(a) PROVE Past(a)' = Past(a) /\ UNCHANGED <<hurt, got, hid>>
  BY <1>3 DEF TimeOut, Off, WaitTypeOK, Past, Delivering
<1>4. ASSUME TruncateCursor(a) PROVE Past(a)' = Past(a) /\ UNCHANGED <<hurt, got, hid>>
  <2>1. wait[a].pc = "commit" /\ wait'[a].pc = "writing" /\ wait'[a].from = wait[a].from
    BY <1>4 DEF TruncateCursor, WaitTypeOK, Waits
  <2>2. wait[a].from = cursor[a]
    BY <2>1 DEF AllServed, Served, Keeps
  <2>3. QED
    BY <1>4, <2>1, <2>2 DEF TruncateCursor, Past, Delivering
<1>5. ASSUME WriteCursor(a) PROVE Past(a)' = Past(a) /\ UNCHANGED <<hurt, got, hid>>
  <2>1. wait[a].pc = "writing" /\ wait'[a].pc = "print" /\ wait'[a].from = wait[a].from
    BY <1>5 DEF WriteCursor, WaitTypeOK, Waits
  <2>2. QED
    BY <1>5, <2>1 DEF WriteCursor, Past, Delivering
<1>6. ASSUME Die(a), ~Delivering(a) PROVE Past(a)' = Past(a) /\ UNCHANGED <<hurt, got, hid>>
  <2>1. Harm(a) = {}
    BY <1>6 DEF Harm, Delivering
  <2>2. hurt' = hurt
    BY <1>6, <2>1 DEF Die, WaitTypeOK
  <2>3. QED
    BY <1>6, <2>2 DEF Die, Off, WaitTypeOK, Past, Delivering
<1>7. Past(a)' = Past(a) /\ UNCHANGED <<hurt, got, hid>>
  BY <1>1, <1>2, <1>3, <1>4, <1>5, <1>6 DEF Starts
<1>8. Still
  <2>1. \A b \in Agents \ {a} : Unmoved(b)
    BY OthersUnmoved DEF Deliver
  <2>2. QED
    BY <1>7, <2>1, PastUnmoved DEF Still
<1>9. Posts' = Posts
  BY AgentsKeepPosts DEF Deliver
<1>10. QED
  BY <1>7, <1>8, <1>9, StillRoom

LEMMA RoomStep ==
  ASSUME LogOK, LogOK', Numbers, WaitTypeOK, AllServed, [Next]_vars
  PROVE  [R!Next]_R!vars
<1>1. ASSUME UNCHANGED waitVars PROVE [R!Next]_R!vars
  <2>1. Still /\ UNCHANGED <<got, hid>>
    BY <1>1, UnmovedIsStill DEF waitVars, Unmoved
  <2>2. Posts' = Posts \/ \E body \in Bodies : Posts' = Append(Posts, body)
    BY NextIsLogNext, PostsStep DEF LogOK
  <2>3. CASE Posts' = Posts
    BY <2>1, <2>3, StillRoom
  <2>4. ASSUME NEW body \in Bodies, Posts' = Append(Posts, body) PROVE R!Next
    BY <2>1, <2>4, StillRoom DEF R!Next
  <2>5. QED
    BY <2>2, <2>3, <2>4
<1>2. ASSUME NEW a \in Agents,
             \/ Starts(a)
             \/ Poll(a) \/ TimeOut(a) \/ Deliver(a) \/ Die(a)
      PROVE  [R!Next]_R!vars
  <2>1. CASE PrintBatch(a)
    BY <2>1, ServesRoom
  <2>2. CASE Die(a) /\ Delivering(a)
    BY <2>2, LosesRoom
  <2>3. CASE ~PrintBatch(a) /\ ~(Die(a) /\ Delivering(a))
    <3>1. UNCHANGED R!vars
      BY <1>2, <2>3, StaysInRoom DEF Deliver
    <3>2. QED
      BY <3>1
  <2>4. QED
    BY <2>1, <2>2, <2>3
<1>3. CASE UNCHANGED vars
  BY <1>1, <1>3 DEF vars
<1>4. ASSUME NEW p, PosterStep(p) \/ LogStep(p) PROVE [R!Next]_R!vars
  BY <1>1, <1>4 DEF PosterStep, LogStep
<1>5. QED
  BY <1>2, <1>3, <1>4 DEF Next

(* append_thread_message and wait_for_thread_message keep the promise of   *)
(* Room: one ordered list of posts, and each participant is handed         *)
(* everybody else's in that order, each once, in batches that leave        *)
(* nothing out but what --mention-only may, and but for the deaths of its  *)
(* own waiting process.                                                    *)
THEOREM ThreadImplementsRoom ==
  ASSUME TailMisses = FALSE
  PROVE  Spec => ImplementsRoom
<1>1. Spec => [](LogOK /\ WaitTypeOK /\ AllServed)
  BY AllAreServed
<1>2. Init => Numbers
  BY NumbersInit DEF Init
<1>3. LogOK /\ LogOK' /\ Numbers /\ [Next]_vars => Numbers'
  BY NextIsLogNext, NumbersStep DEF LogOK
<1>4. Spec => []Numbers
  BY <1>1, <1>2, <1>3, PTL DEF Spec
<1>5. LogOK /\ LogOK' /\ Numbers /\ WaitTypeOK /\ AllServed /\ [Next]_vars => [R!Next]_R!vars
  BY RoomStep
<1>6. QED
  BY <1>1, <1>4, <1>5, RoomInit, PTL DEF Spec, ImplementsRoom, R!Spec
=============================================================================

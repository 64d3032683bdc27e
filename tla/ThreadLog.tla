----------------------------- MODULE ThreadLog -----------------------------
(***************************************************************************)
(* The shared message log of a thread, agent_peer/thread.py: a file of one *)
(* JSON record per line that any process appends to, under the thread's    *)
(* lock (append_thread_message and _append_system_event).                  *)
(*                                                                         *)
(* A record reaches the file in more than one write, so readers that take  *)
(* no lock see it half written, and a writer that dies leaves it so.  The  *)
(* lock is the abstract one of Mutex: FileLock is about how far compat.py  *)
(* provides it.                                                            *)
(***************************************************************************)
EXTENDS Naturals, Sequences, FiniteSets

CONSTANTS Procs,       \* the processes that append
          Free,        \* holder when nobody holds the thread's lock
          Bodies,      \* what a record can say
          TailMisses,  \* whether the end of the file _read_last_record reads
                       \* may miss the record before a line that does not parse
          MaxAppends   \* bound: appends begun

ASSUME ThreadLogAssumption ==
  /\ Free \notin Procs
  /\ Bodies # {}
  /\ TailMisses \in BOOLEAN
  /\ MaxAppends \in Nat

VARIABLES
  log,     \* the file: its lines, oldest first
  holder,  \* who holds the thread's lock
  app,     \* each process's append in progress
  begun,   \* how many appends have begun; the n-th is append n
  acked,   \* the appends whose caller was told the record's seq
  torn     \* how many writers died in the middle of a record

logVars == <<log, holder, app, begun, acked, torn>>

(* whole: the line parses as a record.  ended: it has its newline.         *)
Lines == [id : Nat, seq : Nat, body : Bodies, whole : BOOLEAN, ended : BOOLEAN]

AppendPCs == {"idle", "lock", "read", "write", "writing", "unlock"}

Appends == [pc : AppendPCs, id : Nat, seq : Nat, body : Bodies, glued : BOOLEAN]

Lock == INSTANCE Mutex

Whole(i) == i \in 1 .. Len(log) /\ log[i].whole
Visible(i) == Whole(i) /\ log[i].ended
Unfinished == log # <<>> /\ ~log[Len(log)].ended

NoAppend == [pc |-> "idle", id |-> 0, seq |-> 0, body |-> CHOOSE b \in Bodies : TRUE,
             glued |-> FALSE]

Step(p, from, to) == app[p].pc = from /\ app' = [app EXCEPT ![p].pc = to]

Done(p, from) == app[p].pc = from /\ app' = [app EXCEPT ![p] = NoAppend]

LogInit ==
  /\ log = <<>>
  /\ holder = Free
  /\ app = [p \in Procs |-> NoAppend]
  /\ begun = 0
  /\ acked = {}
  /\ torn = 0

-----------------------------------------------------------------------------
(* The append                                                              *)

Begin(p, body) ==
  /\ app[p].pc = "idle"
  /\ begun < MaxAppends
  /\ begun' = begun + 1
  /\ app' = [app EXCEPT ![p] = [pc |-> "lock", id |-> begun + 1, seq |-> 0,
                                body |-> body, glued |-> FALSE]]
  /\ UNCHANGED <<log, holder, acked, torn>>

(* MUTANT of TakeLock: it goes on without, as the registry lock does.       *)
TakeAnyway(p) ==
  /\ Step(p, "lock", "read")
  /\ holder' = p
  /\ UNCHANGED <<log, begun, acked, torn>>

TakeLock(p) ==
  /\ Step(p, "lock", "read")
  /\ Lock!Take(p)
  /\ UNCHANGED <<log, begun, acked, torn>>

(* The lock stays contended for 2 s: append_thread_message raises, an      *)
(* event is dropped.                                                       *)
GiveUp(p) ==
  /\ Done(p, "lock")
  /\ holder # Free
  /\ UNCHANGED <<log, holder, begun, acked, torn>>

(* The record _read_last_record falls back to: the nearest that parses.    *)
LastRecord(i) == Whole(i) /\ \A j \in i + 1 .. Len(log) : ~Whole(j)

NoneFound ==
  \/ \A i \in 1 .. Len(log) : ~Whole(i)
  \/ TailMisses /\ ~Whole(Len(log))

Numbered(p, n) == app' = [app EXCEPT ![p].pc = "write", ![p].seq = n]

(* seq is one more than the last record's, and 1 where none is found.  The *)
(* bytes read are the last line and what 4096-byte steps happen to cover   *)
(* before it: behind a line that does not parse they may hold no record.   *)
ReadLast(p) ==
  /\ app[p].pc = "read"
  /\ \/ \E i \in 1 .. Len(log) : LastRecord(i) /\ Numbered(p, log[i].seq + 1)
     \/ NoneFound /\ Numbered(p, 1)
  /\ UNCHANGED <<log, holder, begun, acked, torn>>

Line(p) == [id |-> app[p].id, seq |-> app[p].seq, body |-> app[p].body,
            whole |-> FALSE, ended |-> FALSE]

(* MUTANT of StartWrite: the file opened with mode "w".                    *)
Overwrite(p) ==
  /\ app[p].pc = "write"
  /\ app' = [app EXCEPT ![p].pc = "writing"]
  /\ log' = <<Line(p)>>
  /\ UNCHANGED <<holder, begun, acked, torn>>

(* The first bytes of the record reach the file: on a line of their own,   *)
(* or at the end of a line some writer never finished.                     *)
StartWrite(p) ==
  /\ app[p].pc = "write"
  /\ app' = [app EXCEPT ![p].pc = "writing", ![p].glued = Unfinished]
  /\ log' = IF Unfinished
            THEN [log EXCEPT ![Len(log)].whole = FALSE]
            ELSE Append(log, Line(p))
  /\ UNCHANGED <<holder, begun, acked, torn>>

(* The rest of the record and its newline.                                 *)
EndWrite(p) ==
  /\ Step(p, "writing", "unlock")
  /\ log' = [log EXCEPT ![Len(log)].whole = ~app[p].glued,
                        ![Len(log)].ended = TRUE]
  /\ UNCHANGED <<holder, begun, acked, torn>>

Unlock(p) ==
  /\ Done(p, "unlock")
  /\ Lock!Give(p)
  /\ acked' = acked \cup {app[p].id}
  /\ UNCHANGED <<log, begun, torn>>

(* The process is killed, or its write fails (a full disk) and it reports  *)
(* the error.  A record it was writing stays as far as it got, which may   *)
(* be all of it but the newline.  Another process has its place.           *)
Crash(p) ==
  /\ app[p].pc # "idle"
  /\ app' = [app EXCEPT ![p] = NoAppend]
  /\ IF holder = p THEN Lock!Die(p) ELSE UNCHANGED holder
  /\ IF app[p].pc = "writing"
     THEN /\ torn' = torn + 1
          /\ \E whole \in {FALSE, ~app[p].glued} :
               log' = [log EXCEPT ![Len(log)].whole = whole]
     ELSE UNCHANGED <<log, torn>>
  /\ UNCHANGED <<begun, acked>>

-----------------------------------------------------------------------------

AppendStep(p) ==
  TakeLock(p) \/ ReadLast(p) \/ StartWrite(p) \/ EndWrite(p) \/ Unlock(p)

LogNext ==
  \E p \in Procs :
    \/ \E body \in Bodies : Begin(p, body)
    \/ AppendStep(p)
    \/ GiveUp(p)
    \/ Crash(p)

LogSpec == LogInit /\ [][LogNext]_logVars

-----------------------------------------------------------------------------

LogTypeOK ==
  /\ log \in Seq(Lines)
  /\ holder \in Procs \cup {Free}
  /\ app \in [Procs -> Appends]
  /\ begun \in 0 .. MaxAppends
  /\ acked \in SUBSET Nat
  /\ torn \in Nat

(* The records of the file are numbered in file order and no seq is used   *)
(* twice: what every cursor into the log relies on.                        *)
SeqIncreasing ==
  \A i, j \in 1 .. Len(log) : i < j /\ Whole(i) /\ Whole(j) => log[i].seq < log[j].seq

Readable(id) == \E i \in 1 .. Len(log) : Whole(i) /\ log[i].id = id

(* "Append-first, push-second: the record is already safe on disk here",   *)
(* but for the writers that die: each record torn by a dying writer takes  *)
(* at most one acknowledged post with it (thread.py:112-121).              *)
LossBounded == Cardinality({id \in acked : ~Readable(id)}) <= torn
=============================================================================

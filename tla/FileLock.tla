------------------------------ MODULE FileLock ------------------------------
(***************************************************************************)
(* The lock file of agent_peer/compat.py: acquire_lock and release_lock,   *)
(* one action per system call, by any number of processes any of which may *)
(* be killed between two calls.                                            *)
(*                                                                         *)
(* An inode is named by the call that created it, <<process, n-th call>>.  *)
(* UnlinkOpenFails says what the platform does with a file some process    *)
(* has open: Windows refuses to unlink it, POSIX removes the name.         *)
(***************************************************************************)
EXTENDS Naturals

CONSTANTS Procs,            \* the processes that use the lock
          MaxCalls,         \* bound: acquire_lock calls of one process
          UnlinkOpenFails,  \* TRUE on Windows, FALSE on POSIX
          NoFile,           \* the absence of a file
          Free              \* Mutex's name for an unheld lock

Files == Procs \X Nat

ASSUME FileLockAssumption ==
  /\ MaxCalls \in Nat
  /\ UnlinkOpenFails \in BOOLEAN
  /\ NoFile \notin Files

VARIABLES
  path,     \* the inode the lock path names, or NoFile
  written,  \* the inodes their creator has written its pid into
  fd,       \* the inode each process has open as its own lock
  rd,       \* the inode each process has open to read the owner's pid
  pc,       \* where each process is in acquire_lock and release_lock
  attempt,  \* the loop variable of acquire_lock
  calls     \* how many times each process has called acquire_lock

vars == <<path, written, fd, rd, pc, attempt, calls>>

Attempts == 4             \* range(4)
EmptyRetries == 2         \* attempt < 2: sleep and look again

PCs == {"idle", "open", "write", "held", "closing",
        "inspect", "read", "unlink", "dead"}

Alive(p) == pc[p] # "dead"
Owner(f) == f[1]
Goto(p, where) == pc' = [pc EXCEPT ![p] = where]

OpenSomewhere(f) == \E q \in Procs : fd[q] = f \/ rd[q] = f

(* os.unlink(path), its OSError ignored by both callers.                   *)
Unlinked ==
  path' = IF UnlinkOpenFails /\ OpenSomewhere(path) THEN path ELSE NoFile

Init ==
  /\ path = NoFile
  /\ written = {}
  /\ fd = [p \in Procs |-> NoFile]
  /\ rd = [p \in Procs |-> NoFile]
  /\ pc = [p \in Procs |-> "idle"]
  /\ attempt = [p \in Procs |-> 0]
  /\ calls = [p \in Procs |-> 0]

-----------------------------------------------------------------------------
(* acquire_lock                                                            *)

Call(p) ==
  /\ pc[p] = "idle"
  /\ calls[p] < MaxCalls
  /\ Goto(p, "open")
  /\ calls' = [calls EXCEPT ![p] = @ + 1]
  /\ attempt' = [attempt EXCEPT ![p] = 0]
  /\ UNCHANGED <<path, written, fd, rd>>

(* MUTANT of Create: the open without O_EXCL.                              *)
CreateShared(p) ==
  /\ pc[p] = "open"
  /\ path' = <<p, calls[p]>>
  /\ fd' = [fd EXCEPT ![p] = <<p, calls[p]>>]
  /\ Goto(p, "write")
  /\ UNCHANGED <<written, rd, attempt, calls>>

(* os.open(path, O_CREAT | O_EXCL | O_RDWR) succeeds.                      *)
Create(p) ==
  /\ pc[p] = "open"
  /\ path = NoFile
  /\ path' = <<p, calls[p]>>
  /\ fd' = [fd EXCEPT ![p] = <<p, calls[p]>>]
  /\ Goto(p, "write")
  /\ UNCHANGED <<written, rd, attempt, calls>>

(* os.write of the pid; acquire_lock returns a handle.                     *)
WritePid(p) ==
  /\ pc[p] = "write"
  /\ written' = written \cup {fd[p]}
  /\ Goto(p, "held")
  /\ UNCHANGED <<path, fd, rd, attempt, calls>>

(* os.open raises FileExistsError.                                         *)
Exists(p) ==
  /\ pc[p] = "open"
  /\ path # NoFile
  /\ Goto(p, "inspect")
  /\ UNCHANGED <<path, written, fd, rd, attempt, calls>>

OpenToRead(p) ==
  /\ pc[p] = "inspect"
  /\ path # NoFile
  /\ rd' = [rd EXCEPT ![p] = path]
  /\ Goto(p, "read")
  /\ UNCHANGED <<path, written, fd, attempt, calls>>

(* The file went away since FileExistsError: the OSError of the open is    *)
(* handled like an unreadable file, as stale.                              *)
Vanished(p) ==
  /\ pc[p] = "inspect"
  /\ path = NoFile
  /\ Goto(p, "unlink")
  /\ UNCHANGED <<path, written, fd, rd, attempt, calls>>

CloseRead(p) == pc[p] = "read" /\ rd' = [rd EXCEPT ![p] = NoFile]

(* The owner's pid has not landed yet: look again after a pause.           *)
EmptyRetry(p) ==
  /\ CloseRead(p)
  /\ rd[p] \notin written
  /\ attempt[p] < EmptyRetries
  /\ attempt' = [attempt EXCEPT ![p] = @ + 1]
  /\ Goto(p, "open")
  /\ UNCHANGED <<path, written, fd, calls>>

(* MUTANT of Refuse: any pid in the file is taken for a live owner.        *)
RefuseAnyOwner(p) ==
  /\ CloseRead(p)
  /\ rd[p] \in written \/ attempt[p] >= EmptyRetries
  /\ Goto(p, "idle")
  /\ UNCHANGED <<path, written, fd, attempt, calls>>

(* acquire_lock returns None: a live owner, or an empty file younger than  *)
(* _EMPTY_LOCK_STALE_SECONDS.                                              *)
Refuse(p) ==
  /\ CloseRead(p)
  /\ \/ rd[p] \in written /\ Alive(Owner(rd[p]))
     \/ rd[p] \notin written /\ attempt[p] >= EmptyRetries
  /\ Goto(p, "idle")
  /\ UNCHANGED <<path, written, fd, attempt, calls>>

(* A dead owner, or a file still empty after _EMPTY_LOCK_STALE_SECONDS,    *)
(* which a process suspended between open and write also leaves.           *)
JudgeStale(p) ==
  /\ CloseRead(p)
  /\ \/ rd[p] \in written /\ ~Alive(Owner(rd[p]))
     \/ rd[p] \notin written /\ attempt[p] >= EmptyRetries
  /\ Goto(p, "unlink")
  /\ UNCHANGED <<path, written, fd, attempt, calls>>

(* MUTANT of UnlinkStale: a loop with no last attempt.                     *)
UnlinkForever(p) ==
  /\ pc[p] = "unlink"
  /\ Unlinked
  /\ attempt' = [attempt EXCEPT ![p] = @ + 1]
  /\ Goto(p, "open")
  /\ UNCHANGED <<written, fd, rd, calls>>

(* os.unlink(path) removes whatever file has the name now; the last        *)
(* attempt falls out of the loop and returns None.                         *)
UnlinkStale(p) ==
  /\ pc[p] = "unlink"
  /\ Unlinked
  /\ IF attempt[p] + 1 < Attempts
     THEN Goto(p, "open") /\ attempt' = [attempt EXCEPT ![p] = @ + 1]
     ELSE Goto(p, "idle") /\ UNCHANGED attempt
  /\ UNCHANGED <<written, fd, rd, calls>>

-----------------------------------------------------------------------------
(* release_lock                                                            *)

Close(p) ==
  /\ pc[p] = "held"
  /\ fd' = [fd EXCEPT ![p] = NoFile]
  /\ Goto(p, "closing")
  /\ UNCHANGED <<path, written, rd, attempt, calls>>

UnlinkOwn(p) ==
  /\ pc[p] = "closing"
  /\ Unlinked
  /\ Goto(p, "idle")
  /\ UNCHANGED <<written, fd, rd, attempt, calls>>

(* SIGKILL, or the process exits: the system closes what it had open.      *)
Crash(p) ==
  /\ Alive(p)
  /\ fd' = [fd EXCEPT ![p] = NoFile]
  /\ rd' = [rd EXCEPT ![p] = NoFile]
  /\ Goto(p, "dead")
  /\ UNCHANGED <<path, written, attempt, calls>>

-----------------------------------------------------------------------------

Inspect(p) ==
  \/ Exists(p)
  \/ OpenToRead(p)
  \/ Vanished(p)
  \/ EmptyRetry(p)
  \/ Refuse(p)
  \/ JudgeStale(p)
  \/ UnlinkStale(p)

Acquire(p) == Create(p) \/ WritePid(p) \/ Inspect(p)

Release(p) == Close(p) \/ UnlinkOwn(p)

Next == \E p \in Procs : Call(p) \/ Acquire(p) \/ Release(p) \/ Crash(p)

Spec == Init /\ [][Next]_vars

(* A running acquire_lock or release_lock is never suspended for ever.     *)
FairSpec == Spec /\ \A p \in Procs : WF_vars(Acquire(p)) /\ WF_vars(UnlinkOwn(p))

-----------------------------------------------------------------------------

TypeOK ==
  /\ path \in Files \cup {NoFile}
  /\ written \in SUBSET Files
  /\ fd \in [Procs -> Files \cup {NoFile}]
  /\ rd \in [Procs -> Files \cup {NoFile}]
  /\ pc \in [Procs -> PCs]
  /\ attempt \in [Procs -> 0 .. Attempts - 1]
  /\ calls \in [Procs -> 0 .. MaxCalls]

Holds(p) == pc[p] = "held"

(* At most one process has a LockHandle it has not released: what the      *)
(* docstring of acquire_lock says of the handle and every caller relies on.*)
MutualExclusion == \A p, q \in Procs : Holds(p) /\ Holds(q) => p = q

(* "A dead owner's lock is reclaimed automatically": a process that calls  *)
(* acquire_lock when every other process has died, one of them with its    *)
(* pid in the lock file, ends up with the lock, within its four attempts.  *)
LeftByTheDead(p) ==
  /\ \A q \in Procs \ {p} : ~Alive(q)
  /\ path \in written
  /\ Owner(path) # p

DeadOwnerReclaimed ==
  \A p \in Procs :
    (pc[p] = "open" /\ attempt[p] = 0 /\ LeftByTheDead(p))
      ~> (Holds(p) \/ ~Alive(p))

(* Where a failed unlink is what protects a holder, the lock file keeps    *)
(* the promise of Mutex: a process takes it only when no live one has it.  *)
HolderOf ==
  IF \E p \in Procs : Holds(p) THEN CHOOSE p \in Procs : Holds(p) ELSE Free

M == INSTANCE Mutex WITH holder <- HolderOf

ImplementsMutex == M!Spec
=============================================================================

--------------------------- MODULE FileLockProofs ---------------------------
(***************************************************************************)
(* Proofs about FileLock, for every set of processes and every bound on    *)
(* the calls.                                                              *)
(***************************************************************************)
EXTENDS FileLock, TLAPS

(* A process about to write its pid has the file it created open: what     *)
(* TypeOK needs to be inductive.                                           *)
WriterHasFile == \A p \in Procs : pc[p] = "write" => fd[p] \in Files

(* Every variable of the lock keeps its type, and the pid is written into  *)
(* a file.                                                                 *)
THEOREM TypeCorrect == Spec => [](TypeOK /\ WriterHasFile)
<1> USE FileLockAssumption DEF TypeOK, WriterHasFile, Files, PCs, Attempts, EmptyRetries
<1>1. Init => TypeOK /\ WriterHasFile
  BY DEF Init
<1>2. TypeOK /\ WriterHasFile /\ [Next]_vars => (TypeOK /\ WriterHasFile)'
  <2> SUFFICES ASSUME TypeOK, WriterHasFile, [Next]_vars
               PROVE  (TypeOK /\ WriterHasFile)'
    OBVIOUS
  <2>1. CASE UNCHANGED vars
    BY <2>1 DEF vars
  <2> SUFFICES ASSUME NEW p \in Procs,
                      Call(p) \/ Acquire(p) \/ Release(p) \/ Crash(p)
               PROVE  (TypeOK /\ WriterHasFile)'
    BY <2>1 DEF Next
  <2>2. CASE Call(p)
    BY <2>2 DEF Call, Goto
  <2>3. CASE Create(p)
    <3>1. <<p, calls[p]>> \in Files
      BY <2>3 DEF Create
    <3>2. QED
      BY <2>3, <3>1 DEF Create, Goto
  <2>4. CASE WritePid(p)
    BY <2>4 DEF WritePid, Goto
  <2>5. CASE Exists(p)
    BY <2>5 DEF Exists, Goto
  <2>6. CASE OpenToRead(p)
    BY <2>6 DEF OpenToRead, Goto
  <2>7. CASE Vanished(p)
    BY <2>7 DEF Vanished, Goto
  <2>8. CASE EmptyRetry(p)
    BY <2>8 DEF EmptyRetry, CloseRead, Goto
  <2>9. CASE Refuse(p)
    BY <2>9 DEF Refuse, CloseRead, Goto
  <2>10. CASE JudgeStale(p)
    BY <2>10 DEF JudgeStale, CloseRead, Goto
  <2>11. CASE UnlinkStale(p)
    BY <2>11 DEF UnlinkStale, Unlinked, Goto
  <2>12. CASE Close(p)
    BY <2>12 DEF Close, Goto
  <2>13. CASE UnlinkOwn(p)
    BY <2>13 DEF UnlinkOwn, Unlinked, Goto
  <2>14. CASE Crash(p)
    BY <2>14 DEF Crash, Alive, Goto
  <2>15. QED
    BY <2>2, <2>3, <2>4, <2>5, <2>6, <2>7, <2>8, <2>9, <2>10, <2>11,
       <2>12, <2>13, <2>14 DEF Acquire, Inspect, Release
<1>3. QED
  BY <1>1, <1>2, PTL DEF Spec

-----------------------------------------------------------------------------
(* The inductive invariant where unlink spares open files: the process     *)
(* that has created the lock file, from the creating open to the close in  *)
(* release_lock, has open the very inode the path names, so that inode     *)
(* cannot be unlinked and its name belongs to nobody else.                 *)
HasFile(p) == pc[p] \in {"write", "held"}

HolderKeepsPath ==
  \A p \in Procs : HasFile(p) => path = <<p, calls[p]>> /\ fd[p] = path

(* No step moves a process into possession except Create and WritePid, and *)
(* no unlink takes the path away from a process that has it open.          *)
LEMMA HolderKeepsPathInvariant ==
  ASSUME UnlinkOpenFails = TRUE
  PROVE  Spec => []HolderKeepsPath
<1> USE FileLockAssumption DEF TypeOK, Files, HasFile
<1>1. Init => HolderKeepsPath
  BY DEF Init, HolderKeepsPath
<1>2. TypeOK /\ HolderKeepsPath /\ [Next]_vars => HolderKeepsPath'
  <2> SUFFICES ASSUME TypeOK, HolderKeepsPath, [Next]_vars,
                      NEW q \in Procs, HasFile(q)'
               PROVE  (path = <<q, calls[q]>> /\ fd[q] = path)'
    BY DEF HolderKeepsPath
  <2>1. CASE UNCHANGED vars
    BY <2>1 DEF vars, HolderKeepsPath
  <2> SUFFICES ASSUME NEW p \in Procs,
                      Call(p) \/ Acquire(p) \/ Release(p) \/ Crash(p)
               PROVE  (path = <<q, calls[q]>> /\ fd[q] = path)'
    BY <2>1 DEF Next
  <2> USE DEF HolderKeepsPath
  <2>2. CASE Call(p)
    BY <2>2 DEF Call, Goto
  <2>3. CASE Create(p)
    <3>1. HasFile(q) => q = p
      BY <2>3 DEF Create
    <3>2. q = p
      BY <2>3, <3>1 DEF Create, Goto
    <3>3. QED
      BY <2>3, <3>2 DEF Create, Goto
  <2>4. CASE WritePid(p)
    BY <2>4 DEF WritePid, Goto
  <2>5. CASE Inspect(p)
    <3>1. HasFile(q) /\ fd' = fd /\ calls' = calls
      BY <2>5 DEF Inspect, Exists, OpenToRead, Vanished, EmptyRetry, Refuse,
         JudgeStale, UnlinkStale, CloseRead, Goto
    <3>2. path' = path
      <4>1. OpenSomewhere(path)
        BY <3>1 DEF OpenSomewhere
      <4>2. QED
        BY <2>5, <4>1 DEF Inspect, Exists, OpenToRead, Vanished, EmptyRetry,
           Refuse, JudgeStale, UnlinkStale, Unlinked, CloseRead
    <3>3. QED
      BY <3>1, <3>2
  <2>6. CASE Close(p)
    BY <2>6 DEF Close, Goto
  <2>7. CASE UnlinkOwn(p)
    <3>1. HasFile(q) /\ fd' = fd /\ calls' = calls
      BY <2>7 DEF UnlinkOwn, Goto
    <3>2. path' = path
      BY <2>7, <3>1 DEF UnlinkOwn, Unlinked, OpenSomewhere
    <3>3. QED
      BY <3>1, <3>2
  <2>8. CASE Crash(p)
    BY <2>8 DEF Crash, Goto
  <2>9. QED
    BY <2>2, <2>3, <2>4, <2>5, <2>6, <2>7, <2>8 DEF Acquire, Release
<1>3. QED
  BY <1>1, <1>2, TypeCorrect, PTL DEF Spec

(* Two processes that both hold the lock would both own the one inode the  *)
(* path names.                                                             *)
LEMMA HolderIsUnique == HolderKeepsPath => MutualExclusion
BY DEF HolderKeepsPath, HasFile, MutualExclusion, Holds

(* On a platform that refuses to unlink an open file, acquire_lock gives   *)
(* the lock to one process at a time, whatever is killed and however often *)
(* the lock is contended.                                                  *)
THEOREM LockIsExclusive ==
  ASSUME UnlinkOpenFails = TRUE
  PROVE  Spec => []MutualExclusion
BY HolderKeepsPathInvariant, HolderIsUnique, PTL

-----------------------------------------------------------------------------
(* HolderOf names the process that holds the lock, if one does.            *)
LEMMA HolderOfHolder ==
  ASSUME MutualExclusion, NEW p \in Procs, Holds(p)
  PROVE  HolderOf = p
BY DEF MutualExclusion, HolderOf

(* Under the same condition the lock file implements the abstract lock:    *)
(* WritePid is Take, Close is Give, the death of the holder is Die, and    *)
(* every other step stutters.                                              *)
THEOREM LockImplementsMutex ==
  ASSUME UnlinkOpenFails = TRUE
  PROVE  Spec => ImplementsMutex
<1>1. Init => M!Init
  BY DEF Init, M!Init, HolderOf, Holds
<1>2. HolderKeepsPath /\ HolderKeepsPath' /\ TypeOK /\ [Next]_vars
        => [M!Next]_HolderOf
  <2> SUFFICES ASSUME HolderKeepsPath, HolderKeepsPath', TypeOK, [Next]_vars
               PROVE  M!Next \/ HolderOf' = HolderOf
    OBVIOUS
  <2>1. MutualExclusion
    BY HolderIsUnique
  <2>2. MutualExclusion'
    BY DEF HolderKeepsPath, HasFile, MutualExclusion, Holds
  <2>3. ASSUME \A r \in Procs : Holds(r)' <=> Holds(r)
        PROVE  HolderOf' = HolderOf
    <3>1. CASE \E r \in Procs : Holds(r)
      <4>1. PICK r \in Procs : Holds(r)
        BY <3>1
      <4>2. HolderOf = r
        BY <2>1, <4>1, HolderOfHolder
      <4>3. Holds(r)'
        BY <2>3, <4>1
      <4>4. \A s \in Procs : Holds(s)' => s = r
        BY <2>2, <4>3 DEF MutualExclusion
      <4>5. HolderOf' = r
        BY <4>3, <4>4 DEF HolderOf
      <4>6. QED
        BY <4>2, <4>5
    <3>2. CASE ~ \E r \in Procs : Holds(r)
      BY <2>3, <3>2 DEF HolderOf
    <3>3. QED
      BY <3>1, <3>2
  <2>4. ASSUME NEW p \in Procs, Holds(p), \A r \in Procs : ~Holds(r)'
        PROVE  M!Give(p)
    <3>1. HolderOf = p
      BY <2>1, <2>4, HolderOfHolder
    <3>2. HolderOf' = Free
      BY <2>4 DEF HolderOf
    <3>3. QED
      BY <3>1, <3>2 DEF M!Give
  <2>5. CASE UNCHANGED vars
    BY <2>3, <2>5 DEF vars, Holds
  <2> SUFFICES ASSUME NEW p \in Procs,
                      Call(p) \/ Acquire(p) \/ Release(p) \/ Crash(p)
               PROVE  M!Next \/ HolderOf' = HolderOf
    BY <2>5 DEF Next
  <2>6. CASE WritePid(p)
    <3>1. \A r \in Procs : ~Holds(r)
      <4>1. path = <<p, calls[p]>>
        BY <2>6 DEF WritePid, HolderKeepsPath, HasFile
      <4>2. \A r \in Procs : Holds(r) => r = p
        BY <4>1 DEF HolderKeepsPath, HasFile, Holds
      <4>3. ~Holds(p)
        BY <2>6 DEF WritePid, Holds
      <4>4. QED
        BY <4>2, <4>3
    <3>2. HolderOf = Free
      BY <3>1 DEF HolderOf
    <3>3. Holds(p)'
      BY <2>6 DEF WritePid, Goto, Holds, TypeOK
    <3>4. \A s \in Procs : Holds(s)' => s = p
      BY <2>2, <3>3 DEF MutualExclusion
    <3>5. HolderOf' = p
      BY <3>3, <3>4 DEF HolderOf
    <3>6. M!Take(p)
      BY <3>2, <3>5 DEF M!Take
    <3>7. QED
      BY <3>6 DEF M!Next
  <2>7. CASE Close(p)
    <3>1. Holds(p) /\ \A r \in Procs : ~Holds(r)'
      BY <2>7, <2>1 DEF Close, Goto, Holds, MutualExclusion, TypeOK
    <3>2. QED
      BY <2>4, <3>1 DEF M!Next
  <2>8. CASE Crash(p)
    <3>1. CASE Holds(p)
      <4>1. \A r \in Procs : ~Holds(r)'
        BY <2>8, <3>1, <2>1 DEF Crash, Goto, Holds, MutualExclusion, TypeOK
      <4>2. QED
        BY <2>4, <3>1, <4>1 DEF M!Next
    <3>2. CASE ~Holds(p)
      BY <2>8, <3>2, <2>3 DEF Crash, Goto, Holds, TypeOK
    <3>3. QED
      BY <3>1, <3>2
  <2>9. CASE Call(p) \/ Create(p) \/ UnlinkOwn(p)
    BY <2>9, <2>3 DEF Call, Create, UnlinkOwn, Goto, Holds, TypeOK
  <2>10. CASE Inspect(p)
    BY <2>10, <2>3 DEF Inspect, Exists, OpenToRead, Vanished, EmptyRetry,
       Refuse, JudgeStale, UnlinkStale, CloseRead, Goto, Holds, TypeOK
  <2>11. QED
    BY <2>6, <2>7, <2>8, <2>9, <2>10 DEF Acquire, Release
<1>3. QED
  BY <1>1, <1>2, TypeCorrect, HolderKeepsPathInvariant, PTL
     DEF Spec, ImplementsMutex, M!Spec
=============================================================================

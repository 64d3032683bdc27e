------------------------------- MODULE Mutex -------------------------------
(***************************************************************************)
(* What agent_peer/compat.py promises its callers about a lock file: at    *)
(* most one live process holds it, and a process that dies holding it does *)
(* not keep it.  FileLock shows which implementation of the promise keeps  *)
(* it; ThreadLog is built on the promise.                                  *)
(***************************************************************************)

CONSTANTS Procs,   \* the processes that may take the lock
          Free     \* not a process: the value of holder when no live one holds it

VARIABLE holder    \* the live process that holds the lock, or Free

Init == holder = Free

Take(p) == holder = Free /\ holder' = p

Give(p) == holder = p /\ holder' = Free

(* A holder that dies is reclaimed by the next contender.                  *)
Die(p) == Give(p)

Next == \E p \in Procs : Take(p) \/ Give(p)

Spec == Init /\ [][Next]_holder
=============================================================================

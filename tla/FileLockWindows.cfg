SPECIFICATION FairSpec
CONSTANTS
  p1 = p1
  p2 = p2
  p3 = p3
  Procs <- TwoProcs
  MaxCalls = 3
  UnlinkOpenFails = TRUE
  NoFile = NoFile
  Free = Free
INVARIANTS TypeOK MutualExclusion
PROPERTIES DeadOwnerReclaimed ImplementsMutex
\* Every process may be dead or have used up its calls.
CHECK_DEADLOCK FALSE

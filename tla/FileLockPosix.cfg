SPECIFICATION Spec
CONSTANTS
  p1 = p1
  p2 = p2
  p3 = p3
  Procs <- TwoProcs
  MaxCalls = 2
  UnlinkOpenFails = FALSE
  NoFile = NoFile
  Free = Free
INVARIANTS MutualExclusion
\* Every process may be dead or have used up its calls.
CHECK_DEADLOCK FALSE

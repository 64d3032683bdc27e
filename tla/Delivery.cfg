SPECIFICATION Spec
CONSTANTS
  h1 = h1
  s1 = s1
  codex = codex
  agy = agy
  None = None
  MaxRuns = 2
  Helpers = {h1}
  Senders = {s1}
  Keys = {codex, agy}
  Agy = {agy}
  Calls <- Some
  Setups <- Two
  Slow = {h1}
  MaxKilled = 1
CONSTRAINT Bounds
INVARIANTS UpIsReachable GoneLeavesNothing NamesDiffer StatusTells HandedOnce ToldRight
CHECK_DEADLOCK FALSE

SPECIFICATION Spec
CONSTANTS
  h1 = h1
  h2 = h2
  Handlers <- TwoHandlers
  MaxReadings = 4
  MaxStarts = 1
  MaxClears = 0
INVARIANT NeverMissesBacklog
\* Every bound may be used up with nobody waiting.
CHECK_DEADLOCK FALSE

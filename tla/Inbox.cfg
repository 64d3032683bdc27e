SPECIFICATION FairSpec
CONSTANTS
  h1 = h1
  h2 = h2
  Handlers <- TwoHandlers
  MaxReadings = 5
  MaxStarts = 2
  MaxClears = 1
INVARIANTS MissedOnlyIfLate RepeatedOnlyIfLate
PROPERTY WakesUp
\* Every bound may be used up with nobody waiting.
CHECK_DEADLOCK FALSE

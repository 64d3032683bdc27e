SPECIFICATION FairSpec
CONSTANTS
  MaxRows = 2
  Others = 2
  MaxOwn = 1
  MaxKeys = 1
  MaxPickers = 1
  MaxFails = 1
INVARIANTS UnshownOnlyIf ShownOnce StaysOnScreen LeftMeansLeft
PROPERTIES LooksAtAll
\* The person may leave.
CHECK_DEADLOCK FALSE

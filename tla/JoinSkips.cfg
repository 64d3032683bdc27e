SPECIFICATION Spec
CONSTANTS
  MaxRows = 1
  Others = 1
  MaxOwn = 1
  MaxKeys = 0
  MaxPickers = 0
  MaxFails = 0
INVARIANT OthersShown
\* The person may leave.
CHECK_DEADLOCK FALSE

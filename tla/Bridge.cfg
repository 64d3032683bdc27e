SPECIFICATION FairSpec
CONSTANTS
  None = None
  Replay = 1
  Retries = 2
  Loads <- TwoOne
  MaxRuns = 2
  MaxDeaths = 1
INVARIANTS NothingSkipped RepeatedOnlyIfCut OncePerRun
PROPERTIES Relaying
CHECK_DEADLOCK FALSE

SPECIFICATION FairSpec
CONSTANTS
  ann = ann
  bob = bob
  poster = poster
  System = System
  Free = Free
  Agents <- OneAgent
  Posters <- OnePoster
  Procs <- AllProcs
  Bodies <- SomeBodies
  Patterns <- NoPattern
  TailMisses = FALSE
  MaxAppends = 3
INVARIANTS HandedOnceInOrder NothingSkipped SeqIncreasing LossBounded
PROPERTIES WakesUp ImplementsRoom
\* The bound on appends may be used up with nobody waiting.
CHECK_DEADLOCK FALSE

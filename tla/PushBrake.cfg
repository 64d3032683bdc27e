SPECIFICATION Spec
CONSTANTS
  p1 = p1
  p2 = p2
  Posters <- TwoPosters
  MaxPosts = 3
INVARIANTS TypeOK HeldAreCounted QueueStaysShallow
\* Every post may have been decided about, with Codex's queue empty.
CHECK_DEADLOCK FALSE

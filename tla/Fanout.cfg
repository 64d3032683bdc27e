SPECIFICATION FairSpec
CONSTANTS
  ann = ann
  cod = cod
  hum = hum
  p1 = p1
  Members <- OneMember
  Free = Free
  Absent = Absent
  MaxCalls = 2
  MaxLeaves = 1
  Posters <- OnePoster
  Senders <- Everybody
  Humans <- OnePerson
  Registered <- OneMember
  Codex <- OneMember
  Posts <- SomePosts
  MaxPosts = 1
INVARIANTS FollowStands LeftMeansLeft NoSecondSpeaker
PROPERTY MentionArrives
\* The bounds may be used up with nobody waiting.
CHECK_DEADLOCK FALSE

SPECIFICATION TextSpec
CONSTANTS
  Letters = {"a", "."}
  Marks = {"."}
  Odd = {}
  Names <- SomeNames
  Pastes <- SomePastes
  MaxEdits = 5
  Who = {"ann", "bob"}
  Runs = {1, 2, 3, 4}
  MaxTokens = 6
  Absent = Absent
  UserLines <- SomeLines
  MaxLines = 4
  MaxHits = 1
INVARIANTS CompletedIsMentioned QuotedIsSilent Kept InstallIsStable
PROPERTIES EditsAtCursor
\* The bounds may be used up.
CHECK_DEADLOCK FALSE

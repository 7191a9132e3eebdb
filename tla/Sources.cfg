SPECIFICATION Spec
CONSTANTS
  Tracks = {t1, t2, t3}
  Dead = {t3}
  BatchSize = 2
  MaxBatches = 5
  MaxEdits = 1
  Kinds = {"playlist", "list", "fav", "songlist", "newsong", "daily", "top", "fm", "chained"}
  PageSize = 2
  MaxItems = 3
  Cap = 2
  MaxAnswer = 2
  Windows <- FewWindows
  MaxDays = 2
  Unknown = Unknown
  NoWindow = NoWindow
CHECK_DEADLOCK FALSE
INVARIANTS NothingTwice WindowExact
PROPERTY SourceAnswers

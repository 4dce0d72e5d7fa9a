SPECIFICATION ConsoleSpec
INVARIANTS ReadIsRecorded RelayAccounted KeywordNoticed NoHole ChannelNotFlooded NextRunIsFirst
SYMMETRY Symmetry
CONSTANTS
  q1 = q1  q2 = q2
  MaxLines = 2
  MaxFiles = 2
  Chunk = 2
  InitialTail = 1
  Appends = {q1, q2}
  Second <- SameSecond
  Oldest = 1
  MaxFailures = 1
  Letters = {"a", "A", "b"}
  Lower <- LowerLetters
  Phrases <- SomePhrases
  Chunks <- ShortChunks
  TailSize = 2
  MaxText = 5
  Watched = {"s1", "s2"}
  RowIds = {1, 2, 3, 4}
  Stamps = 3
  PageSize = 2
  ViewSize = 3
  RuleIds = {1}
  Reporters = {q1, q2}
  AlertGap = 1
  RateWindow = 2
  MaxPerWindow = 2
  RetryAttempts = 2
  MaxTime = 3
  MaxAlerts = 4
  Never = Never
  MinutesPerHour = 3
  HoursPerDay = 2
  DaysPerMonth = 3
  MonthsPerYear = 2
  DaysPerWeek = 2
  Expressions <- SomeExpressions
  Windows <- SomeWindows
  Nows = {0, 10, 35}
CHECK_DEADLOCK FALSE

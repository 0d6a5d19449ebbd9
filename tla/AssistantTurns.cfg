SPECIFICATION Spec
CONSTANTS
  Dispatchers = {d1, d2}
  NumMemories = 2
  BatchSize = 2
  Lease = 2
  MaxStall = 3
  MaxFaults = 3
  NumTurns = 4
  MaxRotations = 1
  HistoryCap = 3
  WorkingTrigger = 1
  RefreshAfter = 2
  Sockets = {s1, s2}
  MaxMessages = 3
  MaxTokens = 1
  MaxUnread = 1
INVARIANTS
  TypeOK
  OneHolder
  IndexedIsSearchable
  TurnsBuildOnEachOther
  SnapshotIsRecent
  OneCompletion
PROPERTIES
  OnlyTheHolderSettles
  IndexDelivers
  EveryQuestionIsAnswered
CHECK_DEADLOCK FALSE

SPECIFICATION Spec
CONSTANTS
  Dispatchers = {d1}
  NumMemories = 1
  BatchSize = 1
  Lease = 2
  MaxStall = 3
  MaxFaults = 1
  NumTurns = 3
  MaxRotations = 0
  HistoryCap = 3
  WorkingTrigger = 1
  RefreshAfter = 2
  Sockets = {s1}
  MaxMessages = 2
  MaxTokens = 1
  MaxUnread = 1
PROPERTIES
  StopInterruptsAnswer
CHECK_DEADLOCK FALSE

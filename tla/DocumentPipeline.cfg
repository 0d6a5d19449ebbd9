SPECIFICATION FairSpec
CONSTANTS
  NumChunks = 2
  Workers = {w1, w2}
  NoTask = noTask
  MaxRetries = 1
  MaxFailures = 1
  MaxDisturbances = 1
CHECK_DEADLOCK FALSE
INVARIANTS TypeOK SearchableIsIndexed EveryTaskIsCarriedOn IndexedUnderOneIdentity
PROPERTIES EventuallyFinished

SPECIFICATION Spec
CONSTANTS
  NumChunks = 2
  Workers = {w1}
  NoTask = noTask
  MaxRetries = 1
  MaxFailures = 0
  MaxDisturbances = 1
CHECK_DEADLOCK FALSE
INVARIANTS RedeliveryIsSafe

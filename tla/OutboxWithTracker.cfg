SPECIFICATION TrackerFairSpec
CONSTANTS
  Files = {1}
  Owners = {o1, o2}
  NoOwner = none
  Dispatchers = {d1, d2}
  BatchSize = 1
  MaxDisturbances = 2
CHECK_DEADLOCK FALSE
INVARIANTS PublishedIsAcknowledged PublishedIsCompleted
PROPERTIES EventuallyPublished

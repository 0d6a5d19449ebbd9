SPECIFICATION FairSpec
CONSTANTS
  Files = {1, 2}
  Owners = {o1}
  NoOwner = none
  Dispatchers = {d1, d2}
  BatchSize = 2
  MaxDisturbances = 2
CHECK_DEADLOCK FALSE
INVARIANTS TypeOK ClaimFence
PROPERTIES PublishedIsFinal OutboxDelivers

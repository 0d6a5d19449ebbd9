SPECIFICATION FairSpec
CONSTANTS
  Files = {1}
  Owners = {o1, o2}
  NoOwner = none
  Dispatchers = {d1}
  BatchSize = 1
  MaxDisturbances = 0
CHECK_DEADLOCK FALSE
PROPERTIES EveryOwnerPublished

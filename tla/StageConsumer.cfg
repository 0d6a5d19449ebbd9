SPECIFICATION FairSpec
CONSTANTS
  Tasks = {t1}
  NoTask = noTask
  Messages = {m1, m2, m3, m4}
  NoMessage = noMessage
  Workers = {w1, w2}
  Admins = {a1}
  MaxRetries = 1
  MaxDisturbances = 2
CHECK_DEADLOCK FALSE
INVARIANTS TypeOK NoTaskLost QuietTaskIsRecorded DeadLetteredAfterRetries
PROPERTIES EventuallySettled StageDelivers

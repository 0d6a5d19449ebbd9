SPECIFICATION Spec
CONSTANTS
  Tasks = {t1, t2}
  NoTask = noTask
  Messages = {m1, m2, m3, m4}
  NoMessage = noMessage
  Workers = {w1}
  Admins = {}
  MaxRetries = 1
  MaxDisturbances = 4
CHECK_DEADLOCK FALSE
INVARIANTS DeadLetterIsKept OneDeadLetterIdentity
PROPERTIES SuccessIsFinal

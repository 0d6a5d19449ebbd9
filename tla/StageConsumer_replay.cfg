SPECIFICATION Spec
CONSTANTS
  Tasks = {t1}
  NoTask = noTask
  Messages = {m1, m2, m3}
  NoMessage = noMessage
  Workers = {w1}
  Admins = {a1}
  MaxRetries = 0
  MaxDisturbances = 2
CHECK_DEADLOCK FALSE
INVARIANTS DeadLetterIsReplayable

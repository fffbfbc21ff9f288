SPECIFICATION FairSpec
CONSTANTS
  a1 = a1
  a2 = a2
  w1 = w1
  t1 = t1
  Alerts = {a1, a2}
  CreatedAt <- Ages
  Workers = {w1}
  Threads = {}
  Limit = 1
  Cooldown = 2
  MaxTime = 1
  MaxFailures = 0
PROPERTIES
  DueAlertsHandled
CHECK_DEADLOCK FALSE

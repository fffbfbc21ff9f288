SPECIFICATION BoundedSpec
CONSTANTS
  a1 = a1
  a2 = a2
  w1 = w1
  t1 = t1
  Alerts = {a1, a2}
  CreatedAt <- Ages
  Workers = {w1}
  Threads = {t1}
  Limit = 2
  Cooldown = 1
  MaxTime = 1
  MaxFailures = 1
INVARIANTS
  RepeatsBounded
  MailsRecorded
  JobsHaveAlerts
PROPERTIES
  DueAlertsHandled
CHECK_DEADLOCK FALSE

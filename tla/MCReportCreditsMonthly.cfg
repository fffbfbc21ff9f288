SPECIFICATION Spec
CONSTANTS
  None = None
  b1 = b1
  b2 = b2
  t1 = t1
  t2 = t2
  r1 = r1
  r2 = r2
  r3 = r3
  r4 = r4
  r5 = r5
  r6 = r6
  r7 = r7
  Threads = {t1}
  Bundles = {b1}
  Credits <- OneCredit
  CreatedAt <- OneAge
  PlanLimit = 1
  ReportIds = {r1, r2, r3, r4, r5, r6, r7}
  MaxMonth = 2
PROPERTIES
  AllowanceIsMonthly

SPECIFICATION Spec
CONSTANTS
  None = None
  b1 = b1
  b2 = b2
  t1 = t1
  t2 = t2
  r1 = r1
  r2 = r2
  r3 = r3
  r4 = r4
  r5 = r5
  r6 = r6
  r7 = r7
  Threads = {t1, t2}
  Bundles = {b1, b2}
  Credits <- TwoCredits
  CreatedAt <- TwoAges
  PlanLimit = 1
  ReportIds = {r1, r2, r3, r4, r5, r6}
  MaxMonth = 2
INVARIANTS
  TypeOK
  OverspendBounded
  PlanOverrunBounded
  PlanBeforeCredits
  CreditsWereBought

SPECIFICATION Spec
CONSTANTS
  None = None
  o1 = o1
  p1 = p1
  t1 = t1
  r1 = r1
  r2 = r2
  r3 = r3
  r4 = r4
  r5 = r5
  Orders = {o1}
  Processes = {p1}
  Threads = {t1}
  ProcessOf <- SingleProcessOf
  Notifications <- RefundNotes
  ReportIds = {r1, r2, r3}
  MockPay = FALSE
  MaxFaults = 0
PROPERTIES
  RefundKeepsReference
CHECK_DEADLOCK FALSE

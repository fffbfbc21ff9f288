SPECIFICATION Spec
CONSTANTS
  u1 = u1
  u2 = u2
  t1 = t1
  t2 = t2
  Users = {u1, u2}
  Founder = u1
  Threads = {t1, t2}
  Bodies <- SomeBodies
  MaxId = 2
SYMMETRY Slots
INVARIANTS
  LastOwnerKept
CHECK_DEADLOCK FALSE

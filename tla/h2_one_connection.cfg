SPECIFICATION Spec
CONSTANTS
  t1 = t1
  t2 = t2
  Task = {t1, t2}
  MaxData = 1
INVARIANTS
  OneConnection
CHECK_DEADLOCK FALSE

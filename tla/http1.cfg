SPECIFICATION Spec
CONSTANTS
  t1 = t1
  t2 = t2
  o1 = o1
  a1 = a1
  a2 = a2
  Task = {t1, t2}
  Old = {o1}
  Addr = {a1, a2}
  Lookups <- MCLookups
  Answers <- MCAnswers
  MaxIdle = 1
INVARIANTS
  OwnResponse
  CompleteOrError
  IdleIsReusable
  OnlyFreshFails
PROPERTIES
  EveryRequestEnds
CHECK_DEADLOCK FALSE

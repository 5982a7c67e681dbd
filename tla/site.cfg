SPECIFICATION Spec
CONSTANTS
  p1 = p1
  p2 = p2
  k1 = k1
  k2 = k2
  r1 = r1
  r2 = r2
  a1 = a1
  a2 = a2
  a3 = a3
  home = home
  local = local
  bad = bad
  None = None
  Path = {"a", "b"}
  Key = {0, 1, 2, 3, 4}
  Flag = {"GET", "POST"}
  Proc = {p1, p2}
  Build = {k1, k2}
  Asset = {a1, a2, a3}
  LowSignal = {a2, a3}
  Body = {"page 1", "page 2", "a1", "a2", "a3", "a3 new"}
  BodyOf <- MCBodyOf
  RevisionOf <- MCRevisionOf
  Hits <- MCHits
  Refs <- MCRefs
  Modes <- MCModes
  Location = {home, local, bad}
  Start = home
  BadScheme = {bad}
  LocalHost = {local}
  Literal = {local}
  MaxRedirects = 2
  Cap = 2
  MaxLowSignal = 1
  FreshLimit = 1
  StaleLimit = 2
INVARIANTS
  OutputIsHonest
  SameInAnyOrder
  HopsAreValidated
PROPERTIES
  EveryScanEnds
CHECK_DEADLOCK FALSE

SPECIFICATION Spec
CONSTANTS
  app = app
  man = man
  ven = ven
  run = run
  ana = ana
  pay = pay
  Url <- MCUrl
  Ref <- MCRef
  PathWords <- MCPathWords
  Sites <- MCSites
  Concurrency = 2
  MaxAssets = 5
  MaxLowSignal = 2
INVARIANTS
  NothingForgotten
  CapIsHonest
  Accounting
  QuietScanIsComplete
PROPERTIES
  CrawlSpec
  Terminates
CHECK_DEADLOCK FALSE

SPECIFICATION Spec
CONSTANTS
  main = main
  bg = bg
  assetU = assetU
  chunkU = chunkU
  assetV = assetV
  chunkV = chunkV
  asset = asset
  content = content
  indexU = indexU
  indexV = indexV
  Job <- MCJob
  Path <- MCPath
  Files <- MCFiles
  Caller = {main, bg}
  Main = main
  Script <- MCScript
  QueueCap = 2
  Faulty = {chunkU}
INVARIANTS
  PendingExact
  DrainedIsDurable
  TornHasCause
  NewerStays
PROPERTIES
  FlushReturns
  EveryWriteEnds
CHECK_DEADLOCK FALSE

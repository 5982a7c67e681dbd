SPECIFICATION Spec
CONSTANTS
  s1 = s1
  s2 = s2
  n1 = n1
  n2 = n2
  v1 = v1
  v2 = v2
  None = None
  Stream = {s1, s2}
  ScannerWindow = 8
  MinWindow = 1
  MinThreshold = 1
  Capacity = {1, 2}
  MaxLoad = 3
  MaxBody = 3
  MaxPadding = 1
  Name = {n1, n2}
  Value = {v1, v2}
  EntrySize <- MCEntrySize
  DefaultSize = 4
  Sizes = {0, 2, 3, 6}
  MaxFields = 1
  Byte = {"x", "nl", "lead", "c"}
  NL = "nl"
  Continuation = {"c"}
  Trail = 2
  Searches <- MCSearches
  ChunkConcurrency = 2
  MaxTotalAssets = 3
  MaxTokens = 5
  MaxLetters = 5
INVARIANTS
  Conserved
  NeverStalls
  DecodesAsSent
  RefsResolve
  UrlsReadBack
  SnippetsHoldHits
  HitsAreCounted
  FilesReadBack
  JsonReadsBack
  CallsAreRead
CHECK_DEADLOCK FALSE

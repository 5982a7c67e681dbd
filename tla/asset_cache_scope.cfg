SPECIFICATION Spec
CONSTANTS
  script = script
  manifest = manifest
  b1 = b1
  b2 = b2
  k1 = k1
  k2 = k2
  p1 = p1
  p2 = p2
  None = None
  Url = {script}
  Script = {script}
  Body = {b1, b2}
  Key = {k1, k2}
  Proc = {p1, p2}
  AssetFresh = 1
  AssetStale = 2
  ChunkFresh = 2
  ChunkStale = 3
SYMMETRY Symmetry
INVARIANTS
  RevisionAware
CHECK_DEADLOCK FALSE

SPECIFICATION Spec
CONSTANTS
  t1 = t1
  t2 = t2
  p1 = p1
  p2 = p2
  p3 = p3
  p4 = p4
  p5 = p5
  Threads <- MCThreads
  Paths <- MCPaths
  Keys <- MCKeys
  Contents <- MCContents
  Fingerprint <- MCFingerprint
  ParseFails <- MCParseFails
  MaxEntries = 2
  MayPoison = TRUE
  Miss = Miss
SYMMETRY Symmetry
INVARIANTS
  CacheIsFaithful

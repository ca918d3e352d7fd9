SPECIFICATION CacheSpec
CONSTANTS
  Kids = {k1, k2}
  Callers = {c1, c2}
  kekA = kekA
  kekOld = kekOld
  Keks <- MCKeks
  Configured <- MCConfigured
  NoRow = NoRow
  Bounds = {0, 1}
  Ttl = 2
  MaxTime = 2
  MaxWraps = 2
INVARIANTS CacheConsistent CacheWithinBound RevokedStaysForgotten
PROPERTIES CacheTransparent ServedWithinTtl
SYMMETRY Symmetric
CHECK_DEADLOCK FALSE

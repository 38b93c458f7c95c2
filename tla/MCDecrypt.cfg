SPECIFICATION FairSpec
CONSTANTS
  Workers = {w1, w2}
  Tracks = {a, b, c, p}
  Prefetch = {p}
  MaxEntries = 2
  MaxSamples = 3
  None = none
  NoPrefetch = nopre
  NoKey = nokey
INVARIANTS
  TypeOK
  BarrierHolds
  DecryptedOnce
  NoLostWakeup
  BatchComplete
  CacheInStep
PROPERTIES
  ReturnsAndJoins
  ServiceImplemented

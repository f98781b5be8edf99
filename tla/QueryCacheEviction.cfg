\* Two handlers, two questions of different size: expiry, eviction, ageing,
\* network changes.
SPECIFICATION Spec
CONSTANTS
  t1 = t1
  t2 = t2
  t3 = t3
  qa = qa
  qb = qb
  Nobody = Nobody
  Threads <- MCThreads
  Questions = {qa, qb}
  Bytes <- MCBytes
  Ttls = {3}
  Forms = {"negative", "secure", "oneshot"}
  SoaMinimum = 1
  TtlMin = 0
  TtlMax = 2
  MaxCacheTtl = 2
  MaxEntries = 2
  MaxBytes = 2
  MaxPending = 1
  WaitLimit = 1
  Second = 2
  MaxTime = 3
  MaxGeneration = 2
  MaxSnapshots = 1
SYMMETRY ThreadSymmetry
INVARIANT CacheAccounted
PROPERTIES
  HitAgesTtl
CHECK_DEADLOCK FALSE

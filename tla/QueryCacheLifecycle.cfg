\* Two handlers, one question: stops, restarts and reloads, under fairness.
SPECIFICATION FairSpec
CONSTANTS
  t1 = t1
  t2 = t2
  t3 = t3
  qa = qa
  qb = qb
  Nobody = Nobody
  Threads <- MCThreads
  Questions = {qa}
  Bytes <- MCOneBytes
  Ttls = {2}
  Forms = {"plain", "oneshot"}
  SoaMinimum = 1
  TtlMin = 0
  TtlMax = 2
  MaxCacheTtl = 2
  MaxEntries = 2
  MaxBytes = 2
  MaxPending = 2
  WaitLimit = 1
  Second = 1
  MaxTime = 1
  MaxGeneration = 1
  MaxSnapshots = 2
INVARIANTS Coalesced ReplyBelongsToQuery TransportsReleased CancelledOnlyWhenStopped
PROPERTIES
  EveryQueryEnds
  StopCompletes
CHECK_DEADLOCK FALSE

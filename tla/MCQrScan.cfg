CONSTANTS
  Request = {r1, r2, r3}
  ClientId = {k1, k2}
  Fingerprint = {c1, c2, unknown}
  Code = {c1, c2}
  DemoCode = {c1}
  NoRequest = NoRequest
  PoolSize = 2
  r1 = r1
  r2 = r2
  k1 = k1
SPECIFICATION FairInstance
INVARIANTS
  TypeOK
  OneSuccessPerCode
  ClaimIsAtomic
  RefusedOnlyByAnother
  DeadlockNeedsReset
  ConflictOnlyOnReuse
PROPERTIES
  HistoryIsFinal
  ImplementsContract
  EveryScanAnswered

CONSTANTS
  Request = {r1, r2}
  ClientId = {k1}
  Fingerprint = {c1, c2}
  Code = {c1, c2}
  DemoCode = {c1}
  NoRequest = NoRequest
  PoolSize = 2
  r1 = r1
  r2 = r2
  k1 = k1
SPECIFICATION ServeSpec
INVARIANT ReusedIdRejected

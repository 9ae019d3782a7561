SPECIFICATION Spec
CONSTANTS
  t1 = t1
  t2 = t2
  t3 = t3
  Token = {t1, t2, t3}
  NoToken = NoToken
  Kind <- MCKind
  AppId <- MCAppId
  Data = {v1, v2}
  Refused = Refused
  Permissive = TRUE
  Client = {c1, c2}
  TTL = 2
INVARIANT TypeOK
PROPERTY ImplementsAuthProvider
PROPERTY RecentlyVouched
PROPERTY FailsClosed

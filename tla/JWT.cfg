SPECIFICATION Spec
CONSTANTS
  f1 = f1
  h1 = h1
  m1 = m1
  Issuer = {f1, h1, m1}
  WellKnowns <- MCWellKnowns
  NoUrl = NoUrl
  Source <- MCSource
  KeySource <- MCKeySource
  Supported <- MCSupported
  Published <- MCPublished
  NoAlg = "none"
  NoKeys = NoKeys
  MayFail = {f1}
  Token <- MCToken
  NoToken = NoToken
  Worded <- MCWorded
  Audiences = {"api"}
  Permissive = FALSE
  Client = {c1, c2}
INVARIANT TypeOK
INVARIANT ValidTokenAccepted
INVARIANT UnavailableOnlyInOutage
PROPERTY ImplementsAuthProvider
CHECK_DEADLOCK FALSE

SPECIFICATION Spec
CONSTANTS
  f1 = f1
  h1 = h1
  m1 = m1
  Issuer = {f1, h1}
  WellKnowns <- HttpFirst
  NoUrl = NoUrl
  Source <- MCSource
  KeySource <- MCKeySource
  Supported <- MCSupported
  Published <- MCPublished
  NoAlg = "none"
  NoKeys = NoKeys
  MayFail = {}
  Token <- MCToken
  NoToken = NoToken
  Worded <- MCWorded
  Audiences = {"api"}
  Permissive = FALSE
  Client = {c1}
INVARIANT IssuersIndependent
CHECK_DEADLOCK FALSE

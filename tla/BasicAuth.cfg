SPECIFICATION FairSpec
CONSTANTS
  User = {alice, bob}
  Password = {p1, p2}
  alice = alice
  bob = bob
  p1 = p1
  p2 = p2
  None = None
  Unsupported = Unsupported
  Missing = Missing
  Files <- MCFiles
  Permissive = FALSE
  BootEdits = TRUE
  Client = {c1}
  MaxWrites = 2
  MaxReplaces = 1
INVARIANT TypeOK
INVARIANT RemovedUserRejected
INVARIANT CredsCurrent
PROPERTY ImplementsAuthProvider
PROPERTY CacheConverges
CHECK_DEADLOCK FALSE

SPECIFICATION Spec
CONSTANTS
  User = {alice, bob}
  Password = {p1, p2}
  alice = alice
  bob = bob
  p1 = p1
  p2 = p2
  None = None
  Unsupported = Unsupported
  Missing = Missing
  Files <- MCFiles
  Permissive = FALSE
  BootEdits = FALSE
  Client = {c1}
  MaxWrites = 1
  MaxReplaces = 0
INVARIANT NoStaleVerdict
CHECK_DEADLOCK FALSE

SPECIFICATION Spec
CONSTANTS
  Client = {c1, c2}
  readHeader = readHeader
  read = read
  write = write
  Timeout = {readHeader, read, write}
  MinTimeout = 2
  MaxTimeout = 1200
  Config <- MCConfig
  MgmtGrace = 1
  ProxyGrace = 2
CHECK_DEADLOCK FALSE
INVARIANT ProviderLoaded

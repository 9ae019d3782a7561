SPECIFICATION Spec
CONSTANTS
  Name = {request}
  Matching = {request}
  Hidden = {datalink}
  Symlink = {}
  DataLink = datalink
  Content = {v1, v2}
  Valid = {v1, v2}
  Absent = Absent
  Startup = {v1}
  RequestName = request
  Loader = {l1, l2}
  Requester = {l1}
  MaxEdits = 2
  MaxRemoves = 0
  MaxChmods = 0
  QueueCap = 2
INVARIANT PolicyInStep
CHECK_DEADLOCK FALSE

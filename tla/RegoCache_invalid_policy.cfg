SPECIFICATION Spec
CONSTANTS
  Name = {request}
  Matching = {request}
  Hidden = {datalink}
  Symlink = {}
  DataLink = datalink
  Content = {v1, bad}
  Valid = {v1}
  Absent = Absent
  Startup = {v1}
  RequestName = request
  Loader = {l1}
  Requester = {l1}
  MaxEdits = 1
  MaxRemoves = 0
  MaxChmods = 0
  QueueCap = 2
INVARIANT PreviousPolicyActive
CHECK_DEADLOCK FALSE

SPECIFICATION FairSpec
CONSTANTS
  Name = {request, link}
  Matching = {request, link}
  Hidden = {datalink}
  Symlink = {link}
  DataLink = datalink
  Content = {v1, v2, bad}
  Valid = {v1, v2}
  Absent = Absent
  Startup = {v1}
  RequestName = request
  Loader = {l1, l2}
  Requester = {l1}
  MaxEdits = 1
  MaxRemoves = 1
  MaxChmods = 1
  QueueCap = 2
INVARIANT TypeOK
INVARIANT FilesCoherent
INVARIANT CacheSettled
INVARIANT FreshData
INVARIANT DeletedNotServed
INVARIANT NoSpuriousFailure
INVARIANT PolicyCurrent
INVARIANT PolicySettled
PROPERTY CacheConverges
PROPERTY ReadyConverges
CHECK_DEADLOCK FALSE

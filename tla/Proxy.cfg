SPECIFICATION ServiceSpec
CONSTANTS
  Req = {r1, r2}
  HeaderKey = {"X-User", "X-Other"}
  ResultKey = {"user_id", "user-id"}
  HeaderOf <- MCHeaderOf
  ExposeBlockedHeaders = TRUE
  MaxRequests = 2
  Credential = {k1}
  Nothing = nothing
  Permissive = FALSE
SYMMETRY Requests
INVARIANT TypeOK
INVARIANT BackendOnlyIfAllowed
INVARIANT HeadersFromPolicy
INVARIANT InputMarksBlocked
INVARIANT RequestsAccounted
INVARIANT AnsweredOnce
INVARIANT NobodyUnvouched
CHECK_DEADLOCK FALSE

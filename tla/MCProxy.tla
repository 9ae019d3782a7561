------------------------------- MODULE MCProxy -------------------------------
(* Service, and in it Proxy, for TLC: two keys of a result share a header, *)
(* as user_id and user-id do, and no key has the other.  Requests are told *)
(* apart by nothing.                                                       *)
EXTENDS Service, TLC

MCHeaderOf == [k \in ResultKey |-> "X-User"]

Requests == Permutations(Req)
=============================================================================

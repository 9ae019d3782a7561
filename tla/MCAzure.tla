------------------------------- MODULE MCAzure -------------------------------
(* Azure for TLC: two tokens of one application, and one of another        *)
(* tenant.                                                                 *)
EXTENDS Azure

CONSTANTS t1, t2, t3

MCKind  == [t \in Token |-> IF t = t3 THEN "other_tenant" ELSE "good"]
MCAppId == [t \in Token |-> "app"]
=============================================================================

----------------------------- MODULE MCBasicAuth -----------------------------
(* BasicAuth for TLC: alice's password changes or alice is removed, or the *)
(* file holds nothing that can be used; bob stays.                         *)
EXTENDS BasicAuth

CONSTANTS alice, bob, p1, p2

MCFiles ==
    {[u \in User |-> IF u = alice THEN h ELSE p1] : h \in {p1, p2, None}}
    \cup {[u \in User |-> IF u = alice THEN Unsupported ELSE None]}
=============================================================================

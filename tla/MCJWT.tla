-------------------------------- MODULE MCJWT --------------------------------
(* JWT for TLC: an issuer in files, one that rotates keys with and without *)
(* an algorithm, and one whose jwks_uri is of another kind than its        *)
(* well-known document.                                                    *)
EXTENDS JWT

CONSTANTS f1, h1, m1

Key(k, a) == [id |-> k, alg |-> a]
Tok(k, a, n, d) == [key |-> k, alg |-> a, kid |-> n, aud |-> d]

MCWellKnowns  == <<f1, h1, m1, NoUrl>>
HttpFirst     == <<h1, f1>>
MCSource      == [i \in Issuer |-> IF i = f1 THEN "file" ELSE "http"]
MCKeySource   == [i \in Issuer |-> IF i = h1 THEN "http" ELSE "file"]
MCSupported   == [i \in Issuer |-> <<"ES256", "RS256">>]
MCPublished   == [i \in Issuer |->
                    IF i = h1 THEN {{Key("a", "ES256")}, {Key("a", "ES256"), Key("b", NoAlg)},
                                    {Key("b", NoAlg)}}
                    ELSE {{Key("f", NoAlg)}}]
MCToken       == {Tok("f", "RS256", FALSE, "api"), Tok("a", "ES256", FALSE, "api"),
                  Tok("b", "RS256", TRUE, "api"), Tok("a", "ES256", TRUE, "other")}
MCWorded      == {Tok("b", "RS256", TRUE, "api")}
=============================================================================

------------------------------- MODULE Service -------------------------------
(***************************************************************************)
(* The router and its authentication provider together: Proxy, whose       *)
(* authHandler calls Authenticate, and the contract of AuthProvider, which *)
(* BasicAuth, JWT and Azure implement.  proxy.auth is one of the three, or *)
(* noauth, to which no request presents a credential.                      *)
(*                                                                         *)
(* A call of Authenticate is one step of both; every other step of the     *)
(* proxy leaves the provider alone, and the authority may vouch for more   *)
(* credentials at any time.                                                *)
(***************************************************************************)
EXTENDS Proxy

CONSTANTS
    Credential,   \* what the authentication header of a request may present
    Nothing,      \* no credential of the provider's kind
    Permissive    \* PERMISSIVE_AUTH

ASSUME ServiceAssumption == Nothing \notin Credential /\ Permissive \in BOOLEAN

VARIABLES
    credential,   \* [Req -> the credential in its authentication header]
    vouched,      \* the credentials the authority has vouched for so far
    answer        \* [Req -> what Authenticate answered, none before]

providerVars == <<credential, vouched, answer>>
serviceVars  == <<vars, providerVars>>

Presented == [r \in Req |-> IF answer[r] = "none" THEN Nothing ELSE credential[r]]

AP == INSTANCE AuthProvider WITH Caller <- Req, presented <- Presented

(* The error that Authenticate returns with an answer.                     *)
ErrorOf(a) ==
    CASE a \in {"user", "anonymous"} -> "nil"
      [] a = "failed" -> "ErrAuthenticationFailed"
      [] a = "unavailable" -> "ErrAuthenticationUnavailable"

ServiceInit ==
    /\ Init
    /\ vouched \in SUBSET Credential
    /\ credential = [r \in Req |-> Nothing]
    /\ answer = [r \in Req |-> "none"]

(* A request arrives with its credential, if it has the header at all.     *)
ArriveWith(r) ==
    /\ Arrive(r)
    /\ \E k \in Credential \cup {Nothing} :
        /\ authCount'[r] = 0 => k = Nothing
        /\ credential' = [credential EXCEPT ![r] = k]
    /\ UNCHANGED <<vouched, answer>>

(* authHandler: the provider answers, or panics without an answer.         *)
CallProvider(r) ==
    /\ Authenticate(r)
    /\ UNCHANGED credential
    /\ \/ stage'[r] = "aborted" /\ UNCHANGED <<vouched, answer>>
       \/ /\ stage'[r] # "aborted"
          /\ \E a \in AP!Answer :
               AP!Authenticate(r, credential[r], a) /\ auth'[r] = ErrorOf(a)

(* The other handlers do not touch the provider.                           *)
HandleRest(r) ==
    /\ \/ Cleanup(r) \/ Wrap(r)
       \/ \E v \in Verdict : Policy(r, v)
       \/ Serve(r) \/ BackendInforms(r) \/ Backend(r) \/ Count(r)
    /\ UNCHANGED providerVars

ForgetCall(r) ==
    /\ Forget(r)
    /\ credential' = [credential EXCEPT ![r] = Nothing]
    /\ answer' = [answer EXCEPT ![r] = "none"]
    /\ UNCHANGED vouched

(* An entry is added to the htpasswd file, an issuer or Graph takes a      *)
(* token.                                                                  *)
Vouch == UNCHANGED <<vars, credential, answer>> /\ AP!Vouch

ServiceNext ==
    \/ \E r \in Req : ArriveWith(r) \/ CallProvider(r) \/ HandleRest(r) \/ ForgetCall(r)
    \/ Vouch

ServiceSpec == ServiceInit /\ [][ServiceNext]_serviceVars

-----------------------------------------------------------------------------
(* The provider's answer lets the request pass.                            *)
Passed(r) ==
    \/ answer[r] = "user" /\ credential[r] \in vouched
    \/ answer[r] = "anonymous" /\ (credential[r] = Nothing \/ Permissive)

(* From the credential to the backend: a request that the policy, or the   *)
(* backend, gets to see carries a credential that the provider's authority *)
(* has vouched for, or passes as anonymous without one or in permissive    *)
(* mode; one that the provider refused is answered 401, or 503 in an       *)
(* outage, and its policy is never evaluated; and the default case of      *)
(* authHandler, 500, is never taken.                                       *)
NobodyUnvouched ==
    \A r \in Req :
        /\ stage[r] \in {"policy", "serve", "backend"} => Passed(r)
        /\ verdict[r] # NoResult => Passed(r)
        /\ answer[r] \in {"failed", "unavailable"} =>
             /\ stage[r] \in {"count", "answered"}
             /\ status[r] = IF answer[r] = "failed" THEN 401 ELSE 503
        /\ auth[r] # "other"
=============================================================================

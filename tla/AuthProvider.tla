---------------------------- MODULE AuthProvider ----------------------------
(***************************************************************************)
(* The interface types.AuthProvider, as the router relies on it: one call  *)
(* of Authenticate per request, and one answer, given in one step however  *)
(* long the provider takes and whatever happens to its files, caches and   *)
(* servers meanwhile.                                                      *)
(*                                                                         *)
(* A user is authenticated only by a credential that the provider's        *)
(* authority (an htpasswd file, the issuers of tokens, the Graph API) has  *)
(* vouched for, and a request passes as anonymous only if it presents no   *)
(* credential of the provider's kind, or in permissive mode.               *)
(***************************************************************************)
CONSTANTS
    Caller,       \* requests inside Authenticate at once
    Credential,   \* what a request may present
    Nothing,      \* no credential, or none of the provider's kind
    Permissive    \* PERMISSIVE_AUTH

VARIABLES
    vouched,      \* the credentials the authority has vouched for so far
    presented,    \* [Caller -> the credential of an answered request]
    answer        \* [Caller -> what Authenticate returned]

vars == <<vouched, presented, answer>>

(* nil with a user, nil without, ErrAuthenticationFailed and               *)
(* ErrAuthenticationUnavailable.                                           *)
Answer == {"user", "anonymous", "failed", "unavailable"}

Init ==
    /\ vouched \in SUBSET Credential
    /\ presented = [c \in Caller |-> Nothing]
    /\ answer = [c \in Caller |-> "none"]

Vouch ==
    /\ vouched' \in SUBSET Credential
    /\ vouched \subseteq vouched'
    /\ UNCHANGED <<presented, answer>>

Authenticate(c, k, a) ==
    /\ answer[c] = "none"
    /\ a = "user" => k \in vouched
    /\ a = "anonymous" => k = Nothing \/ Permissive
    /\ answer' = [answer EXCEPT ![c] = a]
    /\ presented' = [presented EXCEPT ![c] = k]
    /\ UNCHANGED vouched

Return(c) ==
    /\ answer[c] # "none"
    /\ answer' = [answer EXCEPT ![c] = "none"]
    /\ presented' = [presented EXCEPT ![c] = Nothing]
    /\ UNCHANGED vouched

Next ==
    \/ Vouch
    \/ \E c \in Caller :
        \/ \E k \in Credential \cup {Nothing}, a \in Answer : Authenticate(c, k, a)
        \/ Return(c)

Spec == Init /\ [][Next]_vars
=============================================================================

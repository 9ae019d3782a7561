-------------------------------- MODULE Proxy --------------------------------
(***************************************************************************)
(* internal/router: the chain of handlers a request goes through, cleanup, *)
(* wrap, metrics, authentication, policy and the reverse proxy, with the   *)
(* request information of internal/types and the counters of               *)
(* internal/metrics.                                                       *)
(*                                                                         *)
(* Each request has a goroutine.  The authentication provider and the      *)
(* validator are represented by what they may return.  Of the headers only *)
(* those with the prefix X-Restrego- matter, by who set them, and the      *)
(* authentication header, by how often the request carries it.             *)
(***************************************************************************)
EXTENDS Naturals, FiniteSets

CONSTANTS
    Req,                   \* bound: requests in the server at once
    HeaderKey,             \* the X-Restrego- headers
    ResultKey,             \* keys of a policy result
    HeaderOf,              \* the header each of them ends up in
    ExposeBlockedHeaders,  \* EXPOSE_BLOCKED_HEADERS
    MaxRequests            \* bound: requests in all

ASSUME ProxyAssumption ==
    /\ HeaderOf \in [ResultKey -> HeaderKey]
    /\ IsFiniteSet(Req)
    /\ IsFiniteSet(HeaderKey)
    /\ {"none", "client", "removed"} \cap ResultKey = {}
    /\ ExposeBlockedHeaders \in BOOLEAN
    /\ MaxRequests \in Nat

VARIABLES
    stage,      \* [Req -> the handler the request is in]
    sent,       \* [Req -> the X-Restrego- headers the client sent]
    authCount,  \* [Req -> how many authentication headers it sent, 2 is many]
    header,     \* [Req -> r.Header: who set each X-Restrego- header], and from
                \* the backend on the header of the request that was passed on
    blocked,    \* [Req -> info.Request.BlockedHeaders, what cleanup captured]
    input,      \* [Req -> X-Restrego- headers in info.Request.Headers]
    auth,       \* [Req -> what Authenticate returned]
    verdict,    \* [Req -> what Validate returned]
    status,     \* [Req -> the last status code the client was sent]
    tracker,    \* [Req -> responseTracker: status and wroteHeader]
    arrived,    \* requests so far
    total,      \* [status -> requestsTotal]
    captured,   \* blockedHeadersCaptured
    withBlocked,\* requestsWithBlockedHeaders
    dropped     \* history: requests whose handler panicked

reqVars == <<stage, sent, authCount, header, blocked, input, auth, verdict, status,
             tracker>>
metrics == <<total, captured, withBlocked>>
vars    == <<reqVars, arrived, metrics, dropped>>

Stage == {"free", "cleanup", "wrap", "auth", "policy", "serve", "backend", "count",
          "answered", "aborted"}

Status == {103, 200, 401, 403, 500, 502, 503}

AuthError == {"ErrAuthenticationFailed", "ErrAuthenticationUnavailable", "other"}

(* A policy result: an error, a panic in Validate (the query is nil), a    *)
(* value that is not an object, or an object: its allow and, where it      *)
(* matters, which of its keys have a text that is not empty.  The key url  *)
(* also replaces the url label of the metrics, which are not told apart.   *)
Result(k, a, t) == [kind |-> k, allow |-> a, text |-> t]

NoResult == Result("none", "missing", {})

Verdict ==
    {Result(k, "missing", {}) : k \in {"error", "panic", "notObject", "object"}}
    \cup {Result("object", a, {}) : a \in {"notBool", "false"}}
    \cup {Result("object", "true", t) : t \in SUBSET ResultKey}

NewTracker == [status |-> 200, wroteHeader |-> FALSE]

Init ==
    /\ stage = [r \in Req |-> "free"]
    /\ sent = [r \in Req |-> {}]
    /\ authCount = [r \in Req |-> 0]
    /\ header = [r \in Req |-> [h \in HeaderKey |-> "none"]]
    /\ blocked = [r \in Req |-> {}]
    /\ input = [r \in Req |-> {}]
    /\ auth = [r \in Req |-> "none"]
    /\ verdict = [r \in Req |-> NoResult]
    /\ status = [r \in Req |-> 200]
    /\ tracker = [r \in Req |-> NewTracker]
    /\ arrived = 0
    /\ total = [s \in Status |-> 0]
    /\ captured = 0
    /\ withBlocked = 0
    /\ dropped = 0

Goto(r, s) == stage' = [stage EXCEPT ![r] = s]

(* responseTracker.WriteHeader, the first status written is kept.          *)
WriteHeader(r, s) ==
    /\ status' = [status EXCEPT ![r] = s]
    /\ tracker' = [tracker EXCEPT ![r] =
                    IF @.wroteHeader THEN @ ELSE [status |-> s, wroteHeader |-> TRUE]]

(* Answer and return: the handlers outside this one then finish.           *)
Respond(r, s) == Goto(r, "count") /\ WriteHeader(r, s) /\ UNCHANGED dropped

(* The handler panics, which no handler outside it recovers from.          *)
Panic(r) == Goto(r, "aborted") /\ dropped' = dropped + 1

-----------------------------------------------------------------------------
(* The server reads a request off a connection.                            *)
Arrive(r) ==
    /\ stage[r] = "free"
    /\ arrived < MaxRequests
    /\ arrived' = arrived + 1
    /\ \E hs \in SUBSET HeaderKey, n \in 0..2 :
        /\ sent' = [sent EXCEPT ![r] = hs]
        /\ header' = [header EXCEPT ![r] =
                        [h \in HeaderKey |-> IF h \in hs THEN "client" ELSE "none"]]
        /\ authCount' = [authCount EXCEPT ![r] = n]
    /\ Goto(r, "cleanup")
    /\ UNCHANGED <<blocked, input, auth, verdict, status, tracker, metrics, dropped>>

(* Mutant: the headers are removed only where they are not captured.       *)
Cleanup_KeepCaptured(r) ==
    LET toClean == {h \in HeaderKey : header[r][h] # "none"}
    IN  /\ stage[r] = "cleanup"
        /\ blocked' = [blocked EXCEPT ![r] = IF ExposeBlockedHeaders THEN toClean ELSE {}]
        /\ header' = [header EXCEPT ![r] =
                        IF ExposeBlockedHeaders THEN @ ELSE [h \in HeaderKey |-> "none"]]
        /\ Goto(r, "wrap")
        /\ UNCHANGED <<sent, authCount, input, auth, verdict, status, tracker, arrived,
                       metrics, dropped>>

(* Mutant: the headers are removed before they are captured.               *)
Cleanup_RemoveFirst(r) ==
    /\ stage[r] = "cleanup"
    /\ header' = [header EXCEPT ![r] = [h \in HeaderKey |-> "none"]]
    /\ Goto(r, "wrap")
    /\ UNCHANGED <<sent, authCount, blocked, input, auth, verdict, status, tracker, arrived,
                   metrics, dropped>>

(* CleanupHandler: capture the headers if that is on, then remove them.    *)
Cleanup(r) ==
    LET toClean == {h \in HeaderKey : header[r][h] # "none"}
    IN  /\ stage[r] = "cleanup"
        /\ \/ /\ ExposeBlockedHeaders /\ toClean # {}
              /\ blocked' = [blocked EXCEPT ![r] = toClean]
              /\ captured' = captured + Cardinality(toClean)
              /\ withBlocked' = withBlocked + 1
           \/ /\ ~(ExposeBlockedHeaders /\ toClean # {})
              /\ UNCHANGED <<blocked, captured, withBlocked>>
        /\ header' = [header EXCEPT ![r] = [h \in HeaderKey |->
                        IF h \in toClean THEN "none" ELSE header[r][h]]]
        /\ Goto(r, "wrap")
        /\ UNCHANGED <<sent, authCount, input, auth, verdict, status, tracker, arrived, total,
                       dropped>>

(* WrapHandler and NewInfo: a repeated authentication header is not a      *)
(* string, and the type assertion on it panics.                            *)
Wrap(r) ==
    /\ stage[r] = "wrap"
    /\ \/ authCount[r] > 1 /\ Panic(r) /\ UNCHANGED input
       \/ /\ authCount[r] <= 1
          /\ input' = [input EXCEPT ![r] = {h \in HeaderKey : header[r][h] # "none"}]
          /\ Goto(r, "auth")
          /\ UNCHANGED dropped
    /\ UNCHANGED <<sent, authCount, header, blocked, auth, verdict, status, tracker, arrived,
                   metrics>>

(* Mutant: a status the proxy is not meant to answer.                      *)
Authenticate_ProxyStatus(r) ==
    /\ stage[r] = "auth"
    /\ \E e \in AuthError :
        /\ auth' = [auth EXCEPT ![r] = e]
        /\ Respond(r, IF e = "ErrAuthenticationFailed" THEN 407 ELSE 503)
    /\ UNCHANGED <<sent, authCount, header, blocked, input, verdict, arrived, metrics>>

(* Mutant: an outage of the provider lets the request pass.                *)
Authenticate_FailOpen(r) ==
    /\ stage[r] = "auth"
    /\ auth' = [auth EXCEPT ![r] = "ErrAuthenticationUnavailable"]
    /\ Goto(r, "policy")
    /\ UNCHANGED <<sent, authCount, header, blocked, input, verdict, status, tracker, arrived,
                   metrics, dropped>>

(* authHandler.  The provider may panic: basicauth as a nil pointer, and   *)
(* jwtsupport at an index past the end of its key sets.                    *)
Authenticate(r) ==
    /\ stage[r] = "auth"
    /\ \/ Panic(r) /\ UNCHANGED <<auth, status, tracker>>
       \/ /\ auth' = [auth EXCEPT ![r] = "nil"]
          /\ Goto(r, "policy")
          /\ UNCHANGED <<status, tracker, dropped>>
       \/ \E e \in AuthError :
            /\ auth' = [auth EXCEPT ![r] = e]
            /\ Respond(r, CASE e = "ErrAuthenticationFailed" -> 401
                            [] e = "ErrAuthenticationUnavailable" -> 503
                            [] OTHER -> 500)
    /\ UNCHANGED <<sent, authCount, header, blocked, input, verdict, arrived, metrics>>

(* Mutant: the return after the 403 is missing.                            *)
Policy_NoReturn(r, v) ==
    /\ stage[r] = "policy"
    /\ verdict' = [verdict EXCEPT ![r] = v]
    /\ v.kind = "object" /\ v.allow = "false"
    /\ WriteHeader(r, 403)
    /\ Goto(r, "serve")
    /\ UNCHANGED <<sent, authCount, header, blocked, input, auth, arrived, metrics, dropped>>

(* policyHandler, for what Validate returns.                               *)
Policy(r, v) ==
    /\ stage[r] = "policy"
    /\ verdict' = [verdict EXCEPT ![r] = v]
    /\ \/ v.kind = "panic" /\ Panic(r) /\ UNCHANGED <<status, tracker>>
       \/ v.kind \in {"error", "notObject"} /\ Respond(r, 500)
       \/ v.kind = "object" /\ v.allow \in {"missing", "notBool"} /\ Respond(r, 500)
       \/ v.kind = "object" /\ v.allow = "false" /\ Respond(r, 403)
       \/ /\ v.kind = "object" /\ v.allow = "true"
          /\ Goto(r, "serve")
          /\ UNCHANGED <<status, tracker, dropped>>
    /\ UNCHANGED <<sent, authCount, header, blocked, input, auth, arrived, metrics>>

(* The keys of the result that go into header h; of several, the order of  *)
(* the map decides which is set last.                                      *)
Sources(r, h) == {k \in verdict[r].text : HeaderOf[k] = h}

(* ServeHTTP: set the headers of the result, pass the request on.  The     *)
(* reverse proxy removes the headers that are named in the Connection      *)
(* header of the client, in a copy of the header.                          *)
Serve(r) ==
    /\ stage[r] = "serve"
    /\ \E hd \in [HeaderKey -> ResultKey \cup {"none", "client"}], named \in SUBSET HeaderKey :
        /\ \A h \in HeaderKey : hd[h] \in IF Sources(r, h) # {} THEN Sources(r, h)
                                          ELSE {header[r][h]}
        /\ header' = [header EXCEPT ![r] = [h \in HeaderKey |->
                        IF h \in named /\ hd[h] # "none" THEN "removed" ELSE hd[h]]]
    /\ Goto(r, "backend")
    /\ UNCHANGED <<sent, authCount, blocked, input, auth, verdict, status, tracker, arrived,
                   metrics, dropped>>

(* The reverse proxy passes on an informational response, bounded to one.  *)
BackendInforms(r) ==
    /\ stage[r] = "backend"
    /\ status[r] # 103
    /\ WriteHeader(r, 103)
    /\ UNCHANGED <<stage, sent, authCount, header, blocked, input, auth, verdict, arrived,
                   metrics, dropped>>

(* The backend answers, fails (ErrorHandler), or breaks off in the middle  *)
(* of its answer, upon which the reverse proxy panics.                     *)
Backend(r) ==
    /\ stage[r] = "backend"
    /\ \/ Respond(r, 200)
       \/ Respond(r, 502)
       \/ Panic(r) /\ WriteHeader(r, 200)
    /\ UNCHANGED <<sent, authCount, header, blocked, input, auth, verdict, arrived, metrics>>

(* Mutant: requests that were denied are not counted.                      *)
Count_AllowedOnly(r) ==
    /\ stage[r] = "count"
    /\ total' = [total EXCEPT ![tracker[r].status] =
                    IF tracker[r].status \in {401, 403} THEN @ ELSE @ + 1]
    /\ Goto(r, "answered")
    /\ UNCHANGED <<sent, authCount, header, blocked, input, auth, verdict, status, tracker,
                   arrived, captured, withBlocked, dropped>>

(* What metrics.Wrap and WrapHandler do once the inner handler returns.    *)
Count(r) ==
    /\ stage[r] = "count"
    /\ total' = [total EXCEPT ![tracker[r].status] = @ + 1]
    /\ Goto(r, "answered")
    /\ UNCHANGED <<sent, authCount, header, blocked, input, auth, verdict, status, tracker,
                   arrived, captured, withBlocked, dropped>>

(* The server forgets the request, after an answer or after a panic that   *)
(* it recovered from by closing the connection.                            *)
Forget(r) ==
    /\ stage[r] \in {"answered", "aborted"}
    /\ Goto(r, "free")
    /\ sent' = [sent EXCEPT ![r] = {}]
    /\ authCount' = [authCount EXCEPT ![r] = 0]
    /\ header' = [header EXCEPT ![r] = [h \in HeaderKey |-> "none"]]
    /\ blocked' = [blocked EXCEPT ![r] = {}]
    /\ input' = [input EXCEPT ![r] = {}]
    /\ auth' = [auth EXCEPT ![r] = "none"]
    /\ verdict' = [verdict EXCEPT ![r] = NoResult]
    /\ status' = [status EXCEPT ![r] = 200]
    /\ tracker' = [tracker EXCEPT ![r] = NewTracker]
    /\ UNCHANGED <<arrived, metrics, dropped>>

Handle(r) ==
    \/ Cleanup(r)
    \/ Wrap(r)
    \/ Authenticate(r)
    \/ \E v \in Verdict : Policy(r, v)
    \/ Serve(r)
    \/ BackendInforms(r)
    \/ Backend(r)
    \/ Count(r)

Next == \E r \in Req : Arrive(r) \/ Handle(r) \/ Forget(r)

Spec == Init /\ [][Next]_vars

-----------------------------------------------------------------------------
TypeOK ==
    /\ stage \in [Req -> Stage]
    /\ sent \in [Req -> SUBSET HeaderKey]
    /\ authCount \in [Req -> 0..2]
    /\ header \in [Req -> [HeaderKey -> ResultKey \cup {"none", "client", "removed"}]]
    /\ blocked \in [Req -> SUBSET HeaderKey]
    /\ input \in [Req -> SUBSET HeaderKey]
    /\ auth \in [Req -> AuthError \cup {"none", "nil"}]
    /\ verdict \in [Req -> Verdict \cup {NoResult}]
    /\ status \in [Req -> Status]
    /\ tracker \in [Req -> [status : Status, wroteHeader : BOOLEAN]]
    /\ arrived \in Nat
    /\ total \in [Status -> Nat]
    /\ captured \in Nat
    /\ withBlocked \in Nat
    /\ dropped \in Nat

(* A request reaches the backend only if authentication let it pass and    *)
(* the policy's result is an object whose allow is the boolean true; a     *)
(* status of the backend is answered to no other.                          *)
BackendOnlyIfAllowed ==
    \A r \in Req :
        (stage[r] = "backend" \/ (stage[r] = "count" /\ status[r] \in {200, 502}))
            => /\ auth[r] = "nil"
               /\ verdict[r].kind = "object" /\ verdict[r].allow = "true"

(* The backend sees no X-Restrego- header but the policy's: each one that  *)
(* some key of the result has a text for carries one of these texts, or is *)
(* missing because the client named it in Connection, and any other is     *)
(* absent, whatever the client sent.  So a header with a text is the       *)
(* policy's, and a header that is missing says nothing of the policy: a    *)
(* key with an empty text sets none, and the client can have it removed.   *)
HeadersFromPolicy ==
    \A r \in Req : stage[r] = "backend" =>
        \A h \in HeaderKey :
            header[r][h] \in IF Sources(r, h) = {} THEN {"none"}
                             ELSE Sources(r, h) \cup {"removed"}

(* The policy sees the X-Restrego- headers of the client only where they   *)
(* are marked as blocked, all of them and only with the feature on.        *)
InputMarksBlocked ==
    \A r \in Req : stage[r] = "policy" =>
        /\ input[r] = {}
        /\ blocked[r] = IF ExposeBlockedHeaders THEN sent[r] ELSE {}

(* Requests are conserved: each one that arrived is in a handler, has been *)
(* counted in requestsTotal once, or was dropped by a panic, whatever      *)
(* handler it ended in.                                                    *)
InHandler == {r \in Req : stage[r] \notin {"free", "answered", "aborted"}}

Counted == total[103] + total[200] + total[401] + total[403] + total[500] + total[502]
           + total[503]

RequestsAccounted == arrived = Counted + dropped + Cardinality(InHandler)

(* A request is answered once: the status it is counted and logged with,   *)
(* the first one written, is the one its client was sent last, unless that *)
(* first one was an informational response.                                *)
AnsweredOnce ==
    \A r \in Req : stage[r] = "answered" => tracker[r].status \in {status[r], 103}
=============================================================================

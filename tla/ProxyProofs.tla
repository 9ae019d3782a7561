----------------------------- MODULE ProxyProofs -----------------------------
(***************************************************************************)
(* Proofs about Proxy for any number of requests, any headers, any keys of *)
(* a policy result and any way they share headers, with the capture of     *)
(* blocked headers on or off; and about Service, for any provider that     *)
(* keeps the contract of AuthProvider.                                     *)
(***************************************************************************)
EXTENDS Service, FiniteSetTheorems, TLAPS

-----------------------------------------------------------------------------
(* Type correctness.                                                       *)

Trackers == [status : Status, wroteHeader : BOOLEAN]

LEMMA WriteHeaderType ==
    ASSUME TypeOK, NEW r \in Req, NEW s \in Status, WriteHeader(r, s)
    PROVE  status' \in [Req -> Status] /\ tracker' \in [Req -> Trackers]
  <1>1. status' \in [Req -> Status]
    BY Zenon DEF TypeOK, WriteHeader
  <1>2. [status |-> s, wroteHeader |-> TRUE] \in Trackers
    BY Zenon DEF Trackers
  <1>3. tracker \in [Req -> Trackers]
    BY Zenon DEF TypeOK, Trackers
  <1>4. tracker' \in [Req -> Trackers]
    BY <1>2, <1>3, Zenon DEF WriteHeader
  <1> QED
    BY <1>1, <1>4, Zenon

LEMMA RespondType ==
    ASSUME TypeOK, NEW r \in Req, NEW s \in Status, Respond(r, s)
    PROVE  /\ status' \in [Req -> Status]
           /\ tracker' \in [Req -> Trackers]
           /\ dropped' = dropped
           /\ stage' \in [Req -> Stage]
  BY WriteHeaderType, Zenon DEF Respond, Goto, TypeOK, Stage

LEMMA WrapType ==
    ASSUME TypeOK, NEW r \in Req, Wrap(r)
    PROVE  input' \in [Req -> SUBSET HeaderKey] /\ stage' \in [Req -> Stage]
  <1> DEFINE seen == {h \in HeaderKey : header[r][h] # "none"}
  <1>1. input \in [Req -> SUBSET HeaderKey] /\ stage \in [Req -> Stage]
    BY Zenon DEF TypeOK
  <1>2. seen \in SUBSET HeaderKey
    BY Zenon
  <1>3. \/ input' = input /\ stage' = [stage EXCEPT ![r] = "aborted"]
        \/ input' = [input EXCEPT ![r] = seen] /\ stage' = [stage EXCEPT ![r] = "auth"]
    BY Zenon DEF Wrap, Panic, Goto
  <1>4. {"auth", "aborted"} \subseteq Stage
    BY Zenon DEF Stage
  <1> HIDE DEF seen
  <1> QED
    BY <1>1, <1>2, <1>3, <1>4, Zenon

(* The handlers before the reverse proxy.                                  *)
LEMMA HandlerType ==
    ASSUME TypeOK, NEW r \in Req,
           \/ Arrive(r)
           \/ Cleanup(r)
           \/ Wrap(r)
           \/ Authenticate(r)
           \/ \E v \in Verdict : Policy(r, v)
    PROVE  TypeOK'
  <1> USE DEF TypeOK, metrics, Goto, Stage
  <1>1. CASE Arrive(r)
    BY <1>1 DEF Arrive
  <1>2. CASE Cleanup(r)
    <2> DEFINE toClean == {h \in HeaderKey : header[r][h] # "none"}
    <2>1. Cardinality(toClean) \in Nat
      BY FS_Subset, FS_CardinalityType, ProxyAssumption, Zenon
    <2>2. toClean \in SUBSET HeaderKey
      BY Zenon
    <2>3. [h \in HeaderKey |-> IF h \in toClean THEN "none" ELSE header[r][h]]
            \in [HeaderKey -> ResultKey \cup {"none", "client", "removed"}]
      BY Zenon
    <2> HIDE DEF toClean
    <2>4. header' \in [Req -> [HeaderKey -> ResultKey \cup {"none", "client", "removed"}]]
      BY <1>2, <2>3, Zenon DEF Cleanup, toClean
    <2>5. blocked' \in [Req -> SUBSET HeaderKey]
      BY <1>2, <2>2, Zenon DEF Cleanup, toClean
    <2>6. captured' \in Nat /\ withBlocked' \in Nat
      BY <1>2, <2>1 DEF Cleanup, toClean
    <2> QED
      BY <1>2, <2>4, <2>5, <2>6, Zenon DEF Cleanup
  <1>3. CASE Wrap(r)
    <2>2. input' \in [Req -> SUBSET HeaderKey] /\ stage' \in [Req -> Stage]
      BY <1>3, WrapType, Zenon
    <2>4. dropped' \in Nat
      BY <1>3 DEF Wrap, Panic
    <2> QED
      BY <1>3, <2>2, <2>4, Zenon DEF Wrap
  <1>4. CASE Authenticate(r)
    <2>1. CASE auth' = [auth EXCEPT ![r] = "nil"] /\ Goto(r, "policy")
                 /\ UNCHANGED <<status, tracker, dropped>>
      BY <1>4, <2>1, Zenon DEF Authenticate
    <2>2. ASSUME NEW e \in AuthError, NEW s \in {401, 503, 500},
                 auth' = [auth EXCEPT ![r] = e], Respond(r, s)
          PROVE  TypeOK'
      <3>1. s \in Status
        BY DEF Status
      <3> QED
        BY <1>4, <2>2, <3>1, RespondType DEF Authenticate, Trackers
    <2>3. CASE Panic(r) /\ UNCHANGED <<auth, status, tracker>>
      <3>1. stage' \in [Req -> Stage] /\ dropped' \in Nat
        BY <2>3 DEF Panic, Goto, Stage
      <3> QED
        BY <1>4, <2>3, <3>1, Zenon DEF Authenticate
    <2>4. \/ Panic(r) /\ UNCHANGED <<auth, status, tracker>>
          \/ auth' = [auth EXCEPT ![r] = "nil"] /\ Goto(r, "policy")
               /\ UNCHANGED <<status, tracker, dropped>>
          \/ \E e \in AuthError, s \in {401, 503, 500} :
               auth' = [auth EXCEPT ![r] = e] /\ Respond(r, s)
      <3> HIDE DEF TypeOK, metrics, Goto, Stage
      <3> QED
        BY <1>4 DEF Authenticate
    <2> HIDE DEF TypeOK, metrics, Goto, Stage
    <2> QED
      BY <2>1, <2>2, <2>3, <2>4
  <1>5. ASSUME NEW v \in Verdict, Policy(r, v) PROVE TypeOK'
    <2>1. verdict' \in [Req -> Verdict \cup {NoResult}]
      BY <1>5, Zenon DEF Policy
    <2>2. ASSUME NEW s \in {500, 403}, Respond(r, s) PROVE TypeOK'
      <3>1. s \in Status
        BY DEF Status
      <3> QED
        <4>1. /\ stage' \in [Req -> Stage] /\ status' \in [Req -> Status]
              /\ tracker' \in [Req -> Trackers] /\ dropped' = dropped
          BY <2>2, <3>1, RespondType
        <4> QED
          BY <1>5, <2>1, <4>1 DEF Policy, Trackers
    <2>3. CASE (Panic(r) /\ UNCHANGED <<status, tracker>>)
               \/ (Goto(r, "serve") /\ UNCHANGED <<status, tracker, dropped>>)
      <3>1. dropped' \in Nat
        BY <2>3 DEF Panic
      <3>2. stage' \in [Req -> Stage] /\ UNCHANGED <<status, tracker>>
        BY <2>3, Zenon DEF Panic
      <3> QED
        BY <1>5, <2>1, <3>1, <3>2, Zenon DEF Policy
    <2>4. \/ Panic(r) /\ UNCHANGED <<status, tracker>>
          \/ Goto(r, "serve") /\ UNCHANGED <<status, tracker, dropped>>
          \/ \E s \in {500, 403} : Respond(r, s)
      <3> HIDE DEF TypeOK, metrics, Goto, Stage
      <3> QED
        BY <1>5 DEF Policy
    <2> HIDE DEF TypeOK, metrics, Goto, Stage
    <2> QED
      BY <2>2, <2>3, <2>4, Zenon
  <1> QED
    BY <1>1, <1>2, <1>3, <1>4, <1>5, Zenon

(* The reverse proxy and what follows it.                                  *)
LEMMA BackendType ==
    ASSUME TypeOK, NEW r \in Req,
           Serve(r) \/ BackendInforms(r) \/ Backend(r) \/ Count(r) \/ Forget(r)
    PROVE  TypeOK'
  <1> USE DEF TypeOK, metrics, Goto, Stage
  <1>1. CASE Serve(r)
    <2>1. \E hd \in [HeaderKey -> ResultKey \cup {"none", "client", "removed"}] :
             header' = [header EXCEPT ![r] = hd]
      <3>1. PICK hd \in [HeaderKey -> ResultKey \cup {"none", "client"}],
                 named \in SUBSET HeaderKey :
               header' = [header EXCEPT ![r] = [h \in HeaderKey |->
                            IF h \in named /\ hd[h] # "none" THEN "removed" ELSE hd[h]]]
        BY <1>1, Zenon DEF Serve
      <3>2. [h \in HeaderKey |-> IF h \in named /\ hd[h] # "none" THEN "removed" ELSE hd[h]]
              \in [HeaderKey -> ResultKey \cup {"none", "client", "removed"}]
        OBVIOUS
      <3> QED
        BY <3>1, <3>2, Zenon
    <2> QED
      BY <1>1, <2>1 DEF Serve
  <1>2. CASE BackendInforms(r)
    <2>1. 103 \in Status
      BY DEF Status
    <2> QED
      BY <1>2, <2>1, WriteHeaderType, Zenon DEF BackendInforms, Trackers
  <1>3. CASE Backend(r)
    <2>1. 200 \in Status /\ 502 \in Status
      BY DEF Status
    <2>2. CASE Respond(r, 200) \/ Respond(r, 502)
      <3>1. /\ stage' \in [Req -> Stage] /\ status' \in [Req -> Status]
            /\ tracker' \in [Req -> Trackers] /\ dropped' = dropped
        BY <2>1, <2>2, RespondType
      <3> QED
        BY <1>3, <3>1, Zenon DEF Backend, Trackers
    <2>3. CASE Panic(r) /\ WriteHeader(r, 200)
      BY <1>3, <2>1, <2>3, WriteHeaderType DEF Backend, Panic, Trackers
    <2> QED
      BY <1>3, <2>2, <2>3 DEF Backend
  <1>4. CASE Count(r)
    BY <1>4 DEF Count
  <1>5. CASE Forget(r)
    <2>1. NewTracker \in Trackers /\ 200 \in Status
      BY DEF NewTracker, Trackers, Status
    <2> QED
      BY <1>5, <2>1 DEF Forget, Trackers
  <1> QED
    BY <1>1, <1>2, <1>3, <1>4, <1>5, Zenon

LEMMA ProxyTypeInit == Init => TypeOK
  <1>1. NewTracker \in [status : Status, wroteHeader : BOOLEAN] /\ 200 \in Status
    BY DEF NewTracker, Status
  <1> QED
    BY <1>1 DEF Init, TypeOK, Stage

LEMMA ProxyTypeStep == TypeOK /\ [Next]_vars => TypeOK'
  <1> SUFFICES ASSUME TypeOK, [Next]_vars PROVE TypeOK'
    BY Zenon
  <1>1. CASE UNCHANGED vars
    BY <1>1, Zenon DEF vars, reqVars, metrics, TypeOK
  <1> QED
    BY <1>1, HandlerType, BackendType, Zenon DEF Next, Handle

(* The state of the proxy keeps its types, whatever the provider, the      *)
(* policy and the backend return.                                          *)
THEOREM ProxyTypeCorrect == Spec => []TypeOK
  BY ProxyTypeInit, ProxyTypeStep, PTL DEF Spec

-----------------------------------------------------------------------------
(* What each handler may rely on, from the handlers before it.             *)

Allowed(r) == auth[r] = "nil" /\ verdict[r].kind = "object" /\ verdict[r].allow = "true"

FromPolicy(r) ==
    \A h \in HeaderKey : header[r][h] \in IF Sources(r, h) = {} THEN {"none"}
                                          ELSE Sources(r, h) \cup {"removed"}

HeaderInv(r) ==
    /\ stage[r] \in {"free", "cleanup"} => blocked[r] = {}
    /\ stage[r] = "cleanup" => \A h \in HeaderKey : header[r][h] # "none" <=> h \in sent[r]
    /\ stage[r] \in {"wrap", "auth", "policy", "serve"}
         => \A h \in HeaderKey : header[r][h] = "none"
    /\ stage[r] \in {"wrap", "auth", "policy"}
         => blocked[r] = IF ExposeBlockedHeaders THEN sent[r] ELSE {}
    /\ stage[r] \in {"auth", "policy"} => input[r] = {}
    /\ stage[r] = "backend" => FromPolicy(r)

PassInv(r) ==
    /\ stage[r] = "policy" => auth[r] = "nil"
    /\ stage[r] \in {"serve", "backend"} => Allowed(r)
    /\ stage[r] = "count" /\ status[r] \in {200, 502} => Allowed(r)

AnswerInv(r) ==
    /\ stage[r] \in {"free", "cleanup", "wrap", "auth", "policy", "serve"}
         => tracker[r] = NewTracker
    /\ stage[r] = "backend" => tracker[r] = NewTracker \/ tracker[r].status = 103
    /\ stage[r] \in {"count", "answered"}
         => tracker[r].status = status[r] \/ tracker[r].status = 103

ProxyInv == TypeOK /\ \A r \in Req : HeaderInv(r) /\ PassInv(r) /\ AnswerInv(r)

(* A request none of whose state changes keeps what is known of it.        *)
LEMMA SameRequest ==
    ASSUME NEW d \in Req, HeaderInv(d), PassInv(d), AnswerInv(d),
           stage'[d] = stage[d], sent'[d] = sent[d], header'[d] = header[d],
           blocked'[d] = blocked[d], input'[d] = input[d], auth'[d] = auth[d],
           verdict'[d] = verdict[d], status'[d] = status[d], tracker'[d] = tracker[d]
    PROVE  HeaderInv(d)' /\ PassInv(d)' /\ AnswerInv(d)'
  <1>1. HeaderInv(d)'
    BY DEF HeaderInv, FromPolicy, Sources
  <1>2. PassInv(d)'
    BY DEF PassInv, Allowed
  <1>3. AnswerInv(d)'
    BY Zenon DEF AnswerInv
  <1> QED
    BY <1>1, <1>2, <1>3, Zenon

(* No request's step reaches into another request.                         *)
LEMMA OtherRequest ==
    ASSUME TypeOK, NEW r \in Req, NEW d \in Req, r # d, Arrive(r) \/ Handle(r) \/ Forget(r)
    PROVE  /\ stage'[d] = stage[d] /\ sent'[d] = sent[d] /\ header'[d] = header[d]
           /\ blocked'[d] = blocked[d] /\ input'[d] = input[d] /\ auth'[d] = auth[d]
           /\ verdict'[d] = verdict[d] /\ status'[d] = status[d] /\ tracker'[d] = tracker[d]
  <1>1. CASE Arrive(r)
    BY <1>1, Zenon DEF Arrive, Goto, TypeOK
  <1>2. CASE Cleanup(r)
    BY <1>2, Zenon DEF Cleanup, Goto, TypeOK
  <1>3. CASE Wrap(r)
    BY <1>3, Zenon DEF Wrap, Goto, Panic, TypeOK
  <1>4. CASE Authenticate(r)
    BY <1>4 DEF Authenticate, Goto, Respond, Panic, WriteHeader, TypeOK
  <1>5. CASE \E v \in Verdict : Policy(r, v)
    BY <1>5 DEF Policy, Goto, Respond, Panic, WriteHeader, TypeOK
  <1>6. CASE Serve(r)
    BY <1>6, Zenon DEF Serve, Goto, TypeOK
  <1>7. CASE BackendInforms(r)
    BY <1>7, Zenon DEF BackendInforms, WriteHeader, TypeOK
  <1>8. CASE Backend(r)
    BY <1>8 DEF Backend, Goto, Respond, Panic, WriteHeader, TypeOK
  <1>9. CASE Count(r)
    BY <1>9, Zenon DEF Count, Goto, TypeOK
  <1>10. CASE Forget(r)
    BY <1>10 DEF Forget, Goto, TypeOK
  <1> QED
    BY <1>1, <1>2, <1>3, <1>4, <1>5, <1>6, <1>7, <1>8, <1>9, <1>10 DEF Handle

(* Where each step leads the request that takes it.                        *)
LEMMA Transitions ==
    ASSUME TypeOK, NEW r \in Req
    PROVE  /\ Arrive(r) => stage[r] = "free" /\ stage'[r] = "cleanup"
           /\ Cleanup(r) => stage[r] = "cleanup" /\ stage'[r] = "wrap"
           /\ Wrap(r) => stage[r] = "wrap" /\ stage'[r] \in {"auth", "aborted"}
           /\ Authenticate(r)
                => stage[r] = "auth" /\ stage'[r] \in {"policy", "count", "aborted"}
           /\ (\E v \in Verdict : Policy(r, v))
                => stage[r] = "policy" /\ stage'[r] \in {"serve", "count", "aborted"}
           /\ Serve(r) => stage[r] = "serve" /\ stage'[r] = "backend"
           /\ BackendInforms(r) => stage[r] = "backend" /\ stage' = stage
           /\ Backend(r) => stage[r] = "backend" /\ stage'[r] \in {"count", "aborted"}
           /\ Count(r) => stage[r] = "count" /\ stage'[r] = "answered"
           /\ Forget(r) => stage[r] \in {"answered", "aborted"} /\ stage'[r] = "free"
  <1>1. stage \in [Req -> Stage]
    BY Zenon DEF TypeOK
  <1>2. ASSUME NEW s, Goto(r, s) PROVE stage'[r] = s
    BY <1>1, <1>2, Zenon DEF Goto
  <1> QED
    BY <1>2 DEF Arrive, Cleanup, Wrap, Authenticate, Policy, Serve, BackendInforms, Backend,
                Count, Forget, Respond, Panic

(* A step of a request leads from what it knows to what it must know next. *)
LEMMA OwnHeaders ==
    ASSUME TypeOK, NEW r \in Req, HeaderInv(r), Arrive(r) \/ Handle(r) \/ Forget(r)
    PROVE  HeaderInv(r)'
  <1>1. CASE Arrive(r)
    <2>1. stage'[r] = "cleanup" /\ stage[r] = "free"
      BY <1>1, Transitions, Zenon
    <2>2. blocked'[r] = {}
      BY <1>1, <2>1, Zenon DEF Arrive, HeaderInv
    <2>3. \A h \in HeaderKey : header'[r][h] # "none" <=> h \in sent'[r]
      BY <1>1 DEF Arrive, TypeOK
    <2> QED
      BY <2>1, <2>2, <2>3, Zenon DEF HeaderInv
  <1>2. CASE Cleanup(r)
    <2> DEFINE toClean == {h \in HeaderKey : header[r][h] # "none"}
    <2>1. stage[r] = "cleanup" /\ stage'[r] = "wrap"
      BY <1>2, Transitions, Zenon
    <2>2. sent' = sent
      BY <1>2, Zenon DEF Cleanup
    <2>3. toClean = sent[r]
      BY <2>1, Zenon DEF HeaderInv, TypeOK
    <2>4. \A h \in HeaderKey : header'[r][h] = "none"
      BY <1>2, Zenon DEF Cleanup, TypeOK
    <2>5. blocked[r] = {}
      BY <2>1, Zenon DEF HeaderInv
    <2>6. blocked'[r] = IF ExposeBlockedHeaders THEN sent[r] ELSE {}
      <3>1. \/ /\ ExposeBlockedHeaders /\ toClean # {}
               /\ blocked' = [blocked EXCEPT ![r] = toClean]
            \/ /\ ~(ExposeBlockedHeaders /\ toClean # {})
               /\ blocked' = blocked
        BY <1>2, Zenon DEF Cleanup
      <3> HIDE DEF toClean
      <3>2. blocked'[r] = IF ExposeBlockedHeaders THEN toClean ELSE {}
        BY <2>5, <3>1, Zenon DEF TypeOK
      <3> QED
        BY <2>3, <3>2, Zenon
    <2> QED
      BY <2>1, <2>2, <2>4, <2>6, Zenon DEF HeaderInv
  <1>3. CASE Wrap(r)
    <2>1. stage[r] = "wrap" /\ stage'[r] \in {"auth", "aborted"}
      BY <1>3, Transitions, Zenon
    <2>2. {h \in HeaderKey : header[r][h] # "none"} = {}
      BY <2>1, Zenon DEF HeaderInv
    <2>3. stage'[r] = "auth" => input'[r] = {}
      BY <1>3, <2>2, Zenon DEF Wrap, Goto, Panic, TypeOK
    <2>4. header' = header /\ sent' = sent /\ blocked' = blocked
      BY <1>3, Zenon DEF Wrap
    <2> QED
      BY <2>1, <2>3, <2>4, Zenon DEF HeaderInv
  <1>4. CASE Authenticate(r)
    <2>1. stage[r] = "auth" /\ stage'[r] \in {"policy", "count", "aborted"}
      BY <1>4, Transitions, Zenon
    <2>2. header' = header /\ sent' = sent /\ blocked' = blocked /\ input' = input
      BY <1>4, Zenon DEF Authenticate
    <2> QED
      BY <2>1, <2>2, Zenon DEF HeaderInv
  <1>5. CASE \E v \in Verdict : Policy(r, v)
    <2>1. stage[r] = "policy" /\ stage'[r] \in {"serve", "count", "aborted"}
      BY <1>5, Transitions, Zenon
    <2>2. header' = header
      BY <1>5, Zenon DEF Policy
    <2> QED
      BY <2>1, <2>2, Zenon DEF HeaderInv
  <1>6. CASE Serve(r)
    <2>1. stage[r] = "serve" /\ stage'[r] = "backend"
      BY <1>6, Transitions, Zenon
    <2>2. verdict' = verdict
      BY <1>6, Zenon DEF Serve
    <2>3. \A h \in HeaderKey : header[r][h] = "none"
      BY <2>1, Zenon DEF HeaderInv
    <2>4. PICK hd \in [HeaderKey -> ResultKey \cup {"none", "client"}],
               named \in SUBSET HeaderKey :
             /\ \A h \in HeaderKey : hd[h] \in IF Sources(r, h) # {} THEN Sources(r, h)
                                              ELSE {header[r][h]}
             /\ header' = [header EXCEPT ![r] = [h \in HeaderKey |->
                            IF h \in named /\ hd[h] # "none" THEN "removed" ELSE hd[h]]]
      BY <1>6, Zenon DEF Serve
    <2>5. FromPolicy(r)'
      <3>1. \A h \in HeaderKey : Sources(r, h)' = Sources(r, h)
        BY <2>2, Zenon DEF Sources
      <3>2. \A h \in HeaderKey :
               header'[r][h] = IF h \in named /\ hd[h] # "none" THEN "removed" ELSE hd[h]
        <4>1. DOMAIN header = Req
          BY Zenon DEF TypeOK
        <4> QED
          BY <2>4, <4>1
      <3> QED
        <4>1. \A h \in HeaderKey : Sources(r, h) = {} => hd[h] = "none"
          BY <2>3, <2>4, Zenon
        <4>2. \A h \in HeaderKey : Sources(r, h) # {} => hd[h] \in Sources(r, h)
          BY <2>4, Zenon
        <4> QED
          BY <3>1, <3>2, <4>1, <4>2, Zenon DEF FromPolicy
    <2> QED
      BY <2>1, <2>5, Zenon DEF HeaderInv
  <1>7. CASE BackendInforms(r)
    <2>1. stage[r] = "backend" /\ stage' = stage
      BY <1>7, Transitions, Zenon
    <2>2. header' = header /\ verdict' = verdict
      BY <1>7, Zenon DEF BackendInforms
    <2>3. FromPolicy(r)'
      BY <2>1, <2>2, Zenon DEF HeaderInv, FromPolicy, Sources
    <2> QED
      BY <2>1, <2>3, Zenon DEF HeaderInv
  <1>8. CASE Backend(r) \/ Count(r)
    <2>1. stage'[r] \in {"count", "aborted", "answered"}
      BY <1>8, Transitions, Zenon
    <2> QED
      BY <2>1, Zenon DEF HeaderInv
  <1>9. CASE Forget(r)
    <2>1. stage'[r] = "free"
      BY <1>9, Transitions, Zenon
    <2>2. blocked'[r] = {}
      BY <1>9, Zenon DEF Forget, TypeOK
    <2> QED
      BY <2>1, <2>2, Zenon DEF HeaderInv
  <1> QED
    BY <1>1, <1>2, <1>3, <1>4, <1>5, <1>6, <1>7, <1>8, <1>9, Zenon DEF Handle

LEMMA RespondStatus ==
    ASSUME TypeOK, NEW r \in Req, NEW s, Respond(r, s)
    PROVE  stage'[r] = "count" /\ status'[r] = s
  BY Zenon DEF TypeOK, Respond, Goto, WriteHeader

LEMMA OwnPass ==
    ASSUME TypeOK, NEW r \in Req, PassInv(r), Arrive(r) \/ Handle(r) \/ Forget(r)
    PROVE  PassInv(r)'
  <1>1. CASE Arrive(r) \/ Cleanup(r) \/ Wrap(r) \/ Count(r) \/ Forget(r)
    <2>1. stage'[r] \in {"cleanup", "wrap", "auth", "aborted", "answered", "free"}
      BY <1>1, Transitions, Zenon
    <2> QED
      BY <2>1 DEF PassInv
  <1>2. CASE Authenticate(r)
    <2>1. CASE auth' = [auth EXCEPT ![r] = "nil"] /\ Goto(r, "policy")
      <3>1. stage'[r] = "policy" /\ auth'[r] = "nil"
        BY <2>1, Zenon DEF Goto, TypeOK
      <3> QED
        BY <3>1, Zenon DEF PassInv
    <2>2. ASSUME NEW s \in {401, 503, 500}, Respond(r, s) PROVE PassInv(r)'
      <3>1. stage'[r] = "count" /\ status'[r] \notin {200, 502}
        BY <2>2, RespondStatus
      <3> QED
        BY <3>1 DEF PassInv
    <2>3. CASE Panic(r)
      <3>1. stage'[r] = "aborted"
        BY <2>3, Zenon DEF Panic, Goto, TypeOK
      <3> QED
        BY <3>1, Zenon DEF PassInv
    <2> QED
      BY <1>2, <2>1, <2>2, <2>3 DEF Authenticate
  <1>3. ASSUME NEW v \in Verdict, Policy(r, v) PROVE PassInv(r)'
    <2>1. stage[r] = "policy" /\ auth' = auth /\ verdict'[r] = v
      BY <1>3, Zenon DEF Policy, TypeOK
    <2>2. auth'[r] = "nil"
      BY <2>1, Zenon DEF PassInv
    <2>3. ASSUME NEW s \in {500, 403}, Respond(r, s) PROVE PassInv(r)'
      <3>1. stage'[r] = "count" /\ status'[r] \notin {200, 502}
        BY <2>3, RespondStatus
      <3> QED
        BY <3>1 DEF PassInv
    <2>4. CASE Panic(r)
      <3>1. stage'[r] = "aborted"
        BY <2>4, Zenon DEF Panic, Goto, TypeOK
      <3> QED
        BY <3>1, Zenon DEF PassInv
    <2>5. CASE v.kind = "object" /\ v.allow = "true" /\ Goto(r, "serve")
      <3>1. stage'[r] = "serve"
        BY <2>5, Zenon DEF Goto, TypeOK
      <3> QED
        BY <2>1, <2>2, <2>5, <3>1, Zenon DEF PassInv, Allowed
    <2> QED
      BY <1>3, <2>3, <2>4, <2>5 DEF Policy
  <1>4. CASE Serve(r) \/ BackendInforms(r) \/ Backend(r)
    <2>1. stage[r] \in {"serve", "backend"}
      BY <1>4, Transitions, Zenon
    <2>2. verdict' = verdict /\ auth' = auth
      BY <1>4, Zenon DEF Serve, BackendInforms, Backend
    <2>3. Allowed(r)'
      BY <2>1, <2>2, Zenon DEF PassInv, Allowed
    <2>4. stage'[r] # "policy"
      BY <1>4, <2>1, Transitions, Zenon
    <2> QED
      BY <2>3, <2>4, Zenon DEF PassInv
  <1> QED
    BY <1>1, <1>2, <1>3, <1>4, Zenon DEF Handle

LEMMA WriteHeaderKeepsFirst ==
    ASSUME TypeOK, NEW r \in Req, NEW s, WriteHeader(r, s),
           tracker[r] = NewTracker \/ tracker[r].status = 103
    PROVE  /\ status'[r] = s
           /\ tracker'[r].status = s \/ tracker'[r].status = 103
  BY DEF TypeOK, WriteHeader, NewTracker

LEMMA OwnAnswer ==
    ASSUME TypeOK, NEW r \in Req, AnswerInv(r), Arrive(r) \/ Handle(r) \/ Forget(r)
    PROVE  AnswerInv(r)'
  <1>1. CASE Arrive(r) \/ Cleanup(r) \/ Wrap(r) \/ Serve(r)
    <2>1. /\ stage[r] \in {"free", "cleanup", "wrap", "serve"}
          /\ stage'[r] \in {"cleanup", "wrap", "auth", "backend", "aborted"}
      BY <1>1, Transitions, Zenon
    <2>2. tracker' = tracker
      BY <1>1, Zenon DEF Arrive, Cleanup, Wrap, Serve
    <2> QED
      BY <2>1, <2>2, Zenon DEF AnswerInv
  <1>2. CASE Forget(r)
    <2>1. stage'[r] = "free"
      BY <1>2, Transitions, Zenon
    <2>2. tracker'[r] = NewTracker
      BY <1>2, Zenon DEF Forget, TypeOK
    <2> QED
      BY <2>1, <2>2, Zenon DEF AnswerInv
  <1>3. CASE Count(r)
    <2>1. stage[r] = "count" /\ stage'[r] = "answered"
      BY <1>3, Transitions, Zenon
    <2>2. tracker' = tracker /\ status' = status
      BY <1>3, Zenon DEF Count
    <2> QED
      BY <2>1, <2>2, Zenon DEF AnswerInv
  <1>4. CASE stage[r] \in {"auth", "policy", "serve", "backend"} /\ \E s : Respond(r, s)
    <2>1. PICK s : Respond(r, s)
      BY <1>4, Zenon
    <2>2. tracker[r] = NewTracker \/ tracker[r].status = 103
      BY <1>4, Zenon DEF AnswerInv
    <2>3. WriteHeader(r, s)
      BY <2>1, Zenon DEF Respond
    <2>4. status'[r] = s /\ (tracker'[r].status = s \/ tracker'[r].status = 103)
      BY <2>2, <2>3, WriteHeaderKeepsFirst
    <2>5. stage'[r] = "count"
      BY <2>1, RespondStatus, Zenon
    <2> QED
      BY <2>4, <2>5, Zenon DEF AnswerInv
  <1>5. CASE Panic(r)
    <2>1. stage'[r] = "aborted"
      BY <1>5, Zenon DEF Panic, Goto, TypeOK
    <2> QED
      BY <2>1, Zenon DEF AnswerInv
  <1>6. CASE /\ stage[r] \in {"auth", "policy"} /\ tracker' = tracker
             /\ Goto(r, "policy") \/ Goto(r, "serve")
    <2>1. stage'[r] \in {"policy", "serve"}
      BY <1>6, Zenon DEF Goto, TypeOK
    <2> QED
      BY <1>6, <2>1, Zenon DEF AnswerInv
  <1>7. CASE BackendInforms(r)
    <2>1. stage[r] = "backend" /\ stage'[r] = "backend"
      BY <1>7, Transitions, Zenon
    <2>2. WriteHeader(r, 103)
      BY <1>7, Zenon DEF BackendInforms
    <2>3. tracker'[r].status = 103
      BY <2>1, <2>2, WriteHeaderKeepsFirst DEF AnswerInv
    <2> QED
      BY <2>1, <2>3, Zenon DEF AnswerInv
  <1>8. CASE Authenticate(r)
    BY <1>8, <1>4, <1>5, <1>6 DEF Authenticate
  <1>9. CASE \E v \in Verdict : Policy(r, v)
    BY <1>9, <1>4, <1>5, <1>6 DEF Policy
  <1>10. CASE Backend(r)
    BY <1>10, <1>4, <1>5 DEF Backend
  <1> QED
    BY <1>1, <1>2, <1>3, <1>7, <1>8, <1>9, <1>10, Zenon DEF Handle

LEMMA ProxyInvariant == Spec => []ProxyInv
  <1>1. Init => ProxyInv
    BY ProxyTypeInit DEF Init, ProxyInv, HeaderInv, PassInv, AnswerInv
  <1>2. ProxyInv /\ [Next]_vars => ProxyInv'
    <2> SUFFICES ASSUME ProxyInv, [Next]_vars PROVE ProxyInv'
      BY Zenon
    <2>1. TypeOK'
      BY ProxyTypeStep, Zenon DEF ProxyInv
    <2>2. CASE UNCHANGED vars
      BY <2>1, <2>2, SameRequest, Zenon DEF vars, reqVars, ProxyInv
    <2>3. ASSUME NEW r \in Req, Arrive(r) \/ Handle(r) \/ Forget(r), NEW d \in Req
          PROVE  HeaderInv(d)' /\ PassInv(d)' /\ AnswerInv(d)'
      <3>1. CASE d = r
        BY <2>3, <3>1, OwnHeaders, OwnPass, OwnAnswer, Zenon DEF ProxyInv
      <3>2. CASE d # r
        BY <2>3, <3>2, OtherRequest, SameRequest, Zenon DEF ProxyInv
      <3> QED
        BY <3>1, <3>2, Zenon
    <2> QED
      BY <2>1, <2>2, <2>3, Zenon DEF Next, ProxyInv
  <1> QED
    BY <1>1, <1>2, PTL DEF Spec

(* The proxy fails closed: whatever Authenticate and Validate return, only *)
(* a request they both let pass reaches the backend.                       *)
THEOREM BackendOnlyIfAllowedTheorem == Spec => []BackendOnlyIfAllowed
  <1>1. ProxyInv => BackendOnlyIfAllowed
    BY DEF ProxyInv, PassInv, Allowed, BackendOnlyIfAllowed
  <1> QED
    BY <1>1, ProxyInvariant, PTL

(* The backend sees no X-Restrego- header that the policy did not set,     *)
(* however many keys of the result share one, and misses one that it did   *)
(* set only if the client named it in Connection.                          *)
THEOREM HeadersFromPolicyTheorem == Spec => []HeadersFromPolicy
  <1>1. ProxyInv => HeadersFromPolicy
    BY Zenon DEF ProxyInv, HeaderInv, FromPolicy, HeadersFromPolicy
  <1> QED
    BY <1>1, ProxyInvariant, PTL

(* The policy sees the client's X-Restrego- headers as blocked headers or  *)
(* not at all.                                                             *)
THEOREM InputMarksBlockedTheorem == Spec => []InputMarksBlocked
  <1>1. ProxyInv => InputMarksBlocked
    BY Zenon DEF ProxyInv, HeaderInv, InputMarksBlocked
  <1> QED
    BY <1>1, ProxyInvariant, PTL

(* No request is answered twice: a status other than an informational one  *)
(* is written once, so requests are counted with the status of the answer. *)
THEOREM AnsweredOnceTheorem == Spec => []AnsweredOnce
  <1>1. ProxyInv => AnsweredOnce
    BY Zenon DEF ProxyInv, AnswerInv, AnsweredOnce
  <1> QED
    BY <1>1, ProxyInvariant, PTL

-----------------------------------------------------------------------------
(* Requests are conserved.                                                 *)

Outside == {"free", "answered", "aborted"}

(* How a step of request r changes the set of requests in a handler.       *)
LEMMA HandlerSet ==
    ASSUME TypeOK, NEW r \in Req, NEW s, Goto(r, s)
    PROVE  /\ s \in Outside => InHandler' = InHandler \ {r}
           /\ s \notin Outside => InHandler' = InHandler \cup {r}
           /\ r \in InHandler <=> stage[r] \notin Outside
  BY Zenon DEF TypeOK, Goto, InHandler, Outside

LEMMA HandlerCount ==
    ASSUME TypeOK, NEW r \in Req
    PROVE  /\ Cardinality(InHandler) \in Nat
           /\ Cardinality(InHandler \cup {r}) =
                IF r \in InHandler THEN Cardinality(InHandler) ELSE Cardinality(InHandler) + 1
           /\ Cardinality(InHandler \ {r}) =
                IF r \in InHandler THEN Cardinality(InHandler) - 1 ELSE Cardinality(InHandler)
  <1>1. IsFiniteSet(InHandler)
    BY FS_Subset, ProxyAssumption, Zenon DEF InHandler
  <1> QED
    BY <1>1, FS_CardinalityType, FS_AddElement, FS_RemoveElement, Zenon

LEMMA CountedType == ASSUME TypeOK PROVE Counted \in Nat
  BY DEF TypeOK, Status, Counted

(* A step that neither ends a request nor starts one.                      *)
LEMMA AccountStays ==
    ASSUME TypeOK, RequestsAccounted, NEW r \in Req, NEW s, Goto(r, s),
           stage[r] \in Outside <=> s \in Outside,
           arrived' = arrived, total' = total, dropped' = dropped
    PROVE  RequestsAccounted'
  <1>1. InHandler' = InHandler
    BY HandlerSet, Zenon
  <1>2. Counted' = Counted
    BY DEF Counted
  <1> QED
    BY <1>1, <1>2, Zenon DEF RequestsAccounted

(* A step that ends a request by a panic.                                  *)
LEMMA AccountPanic ==
    ASSUME TypeOK, RequestsAccounted, NEW r \in Req, Panic(r), stage[r] \notin Outside,
           arrived' = arrived, total' = total
    PROVE  RequestsAccounted'
  <1>1. Goto(r, "aborted") /\ dropped' = dropped + 1 /\ dropped \in Nat
    BY Zenon DEF Panic, TypeOK
  <1>2. InHandler' = InHandler \ {r} /\ r \in InHandler
    BY <1>1, HandlerSet, Zenon DEF Outside
  <1>3. Counted' = Counted
    BY DEF Counted
  <1>4. Cardinality(InHandler') = Cardinality(InHandler) - 1 /\ Cardinality(InHandler) \in Nat
    BY <1>2, HandlerCount, Zenon
  <1>5. Counted \in Nat
    BY CountedType, Zenon
  <1> QED
    BY <1>1, <1>3, <1>4, <1>5 DEF RequestsAccounted

LEMMA CountAdds ==
    ASSUME TypeOK, NEW s \in Status, total' = [total EXCEPT ![s] = @ + 1]
    PROVE  Counted' = Counted + 1
  <1>1. \A x \in Status : total[x] \in Nat
    BY Zenon DEF TypeOK
  <1>2. \A x \in Status : total'[x] = IF x = s THEN total[x] + 1 ELSE total[x]
    BY Zenon DEF TypeOK
  <1> QED
    BY <1>1, <1>2 DEF Status, Counted

LEMMA AccountStep ==
    ASSUME TypeOK, RequestsAccounted, NEW r \in Req, Arrive(r) \/ Handle(r) \/ Forget(r)
    PROVE  RequestsAccounted'
  <1>1. CASE Arrive(r)
    <2>1. /\ Goto(r, "cleanup") /\ arrived' = arrived + 1 /\ total' = total
          /\ dropped' = dropped /\ stage[r] = "free" /\ arrived \in Nat /\ dropped \in Nat
      BY <1>1, Zenon DEF Arrive, metrics, TypeOK
    <2>2. InHandler' = InHandler \cup {r} /\ r \notin InHandler
      BY <2>1, HandlerSet DEF Outside
    <2>3. Counted' = Counted
      BY <2>1 DEF Counted
    <2>4. /\ Cardinality(InHandler') = Cardinality(InHandler) + 1
          /\ Cardinality(InHandler) \in Nat
      BY <2>2, HandlerCount, Zenon
    <2>5. Counted \in Nat
      BY CountedType, Zenon
    <2> QED
      BY <2>1, <2>3, <2>4, <2>5 DEF RequestsAccounted
  <1>2. CASE Cleanup(r)
    <2>1. /\ Goto(r, "wrap") /\ stage[r] = "cleanup"
          /\ arrived' = arrived /\ total' = total /\ dropped' = dropped
      BY <1>2, Zenon DEF Cleanup
    <2> QED
      BY <2>1, AccountStays, Zenon DEF Outside
  <1>3. CASE Wrap(r)
    <2>1. /\ stage[r] = "wrap" /\ arrived' = arrived /\ total' = total
          /\ Panic(r) \/ (Goto(r, "auth") /\ dropped' = dropped)
      BY <1>3, Zenon DEF Wrap, metrics
    <2> QED
      BY <2>1, AccountStays, AccountPanic, Zenon DEF Outside
  <1>4. CASE Authenticate(r)
    <2>1. /\ stage[r] = "auth" /\ arrived' = arrived /\ total' = total
          /\ Panic(r) \/ ((Goto(r, "policy") \/ Goto(r, "count")) /\ dropped' = dropped)
      BY <1>4, Zenon DEF Authenticate, metrics, Respond
    <2> QED
      BY <2>1, AccountStays, AccountPanic, Zenon DEF Outside
  <1>5. CASE \E v \in Verdict : Policy(r, v)
    <2>1. /\ stage[r] = "policy" /\ arrived' = arrived /\ total' = total
          /\ Panic(r) \/ ((Goto(r, "count") \/ Goto(r, "serve")) /\ dropped' = dropped)
      BY <1>5 DEF Policy, metrics, Respond
    <2> QED
      BY <2>1, AccountStays, AccountPanic, Zenon DEF Outside
  <1>6. CASE Serve(r)
    <2>1. /\ Goto(r, "backend") /\ stage[r] = "serve"
          /\ arrived' = arrived /\ total' = total /\ dropped' = dropped
      BY <1>6, Zenon DEF Serve, metrics
    <2> QED
      BY <2>1, AccountStays, Zenon DEF Outside
  <1>7. CASE BackendInforms(r)
    <2>1. stage' = stage /\ arrived' = arrived /\ total' = total /\ dropped' = dropped
      BY <1>7, Zenon DEF BackendInforms, metrics
    <2> QED
      BY <2>1 DEF RequestsAccounted, InHandler, Counted
  <1>8. CASE Backend(r)
    <2>1. /\ stage[r] = "backend" /\ arrived' = arrived /\ total' = total
          /\ Panic(r) \/ (Goto(r, "count") /\ dropped' = dropped)
      BY <1>8, Zenon DEF Backend, metrics, Respond
    <2> QED
      BY <2>1, AccountStays, AccountPanic, Zenon DEF Outside
  <1>9. CASE Count(r)
    <2>1. /\ Goto(r, "answered") /\ stage[r] = "count"
          /\ arrived' = arrived /\ dropped' = dropped /\ dropped \in Nat
          /\ total' = [total EXCEPT ![tracker[r].status] = @ + 1]
      BY <1>9, Zenon DEF Count, TypeOK
    <2>2. tracker[r].status \in Status
      BY Zenon DEF TypeOK
    <2>3. Counted' = Counted + 1
      BY <2>1, <2>2, CountAdds, Zenon
    <2>4. InHandler' = InHandler \ {r} /\ r \in InHandler
      BY <2>1, HandlerSet, Zenon DEF Outside
    <2>5. /\ Cardinality(InHandler') = Cardinality(InHandler) - 1
          /\ Cardinality(InHandler) \in Nat
      BY <2>4, HandlerCount, Zenon
    <2>6. Counted \in Nat
      BY CountedType, Zenon
    <2> QED
      BY <2>1, <2>3, <2>5, <2>6 DEF RequestsAccounted
  <1>10. CASE Forget(r)
    <2>1. /\ Goto(r, "free") /\ stage[r] \in {"answered", "aborted"}
          /\ arrived' = arrived /\ total' = total /\ dropped' = dropped
      BY <1>10, Zenon DEF Forget, metrics
    <2> QED
      BY <2>1, AccountStays, Zenon DEF Outside
  <1> QED
    BY <1>1, <1>2, <1>3, <1>4, <1>5, <1>6, <1>7, <1>8, <1>9, <1>10, Zenon DEF Handle

(* No request is lost by the metrics or counted twice, whatever happens to *)
(* it on the way.                                                          *)
THEOREM RequestsAccountedTheorem == Spec => []RequestsAccounted
  <1>1. Init => RequestsAccounted
    <2> SUFFICES ASSUME Init PROVE RequestsAccounted
      BY Zenon
    <2>1. InHandler = {}
      BY Zenon DEF Init, InHandler
    <2>2. Cardinality(InHandler) = 0
      BY <2>1, FS_EmptySet, Zenon
    <2>3. Counted = 0
      BY DEF Init, Counted, Status
    <2> QED
      BY <2>2, <2>3 DEF Init, RequestsAccounted
  <1>2. TypeOK /\ RequestsAccounted /\ [Next]_vars => RequestsAccounted'
    <2>1. CASE UNCHANGED vars
      BY <2>1 DEF vars, reqVars, metrics, RequestsAccounted, InHandler, Counted
    <2> QED
      BY <2>1, AccountStep, Zenon DEF Next
  <1> QED
    BY <1>1, <1>2, ProxyTypeCorrect, PTL DEF Spec

-----------------------------------------------------------------------------
(* The proxy with its provider.                                            *)

ServiceTypeOK ==
    /\ credential \in [Req -> Credential \cup {Nothing}]
    /\ vouched \subseteq Credential
    /\ answer \in [Req -> AP!Answer \cup {"none"}]

(* What is known of a request from the provider's answer.                  *)
ProviderInv(r) ==
    /\ stage[r] \in {"free", "cleanup", "wrap", "auth"} => answer[r] = "none"
    /\ stage[r] \in {"policy", "serve", "backend"} => Passed(r)
    /\ verdict[r] # NoResult => Passed(r)
    /\ answer[r] \in {"failed", "unavailable"} =>
         /\ stage[r] \in {"count", "answered"}
         /\ status[r] = IF answer[r] = "failed" THEN 401 ELSE 503
    /\ auth[r] # "other"

ServiceInv == ServiceTypeOK /\ \A r \in Req : ProviderInv(r)

(* The steps of the service are steps of the proxy.                        *)
LEMMA ServiceStep == [ServiceNext]_serviceVars => [Next]_vars
  BY Zenon DEF ServiceNext, serviceVars, ArriveWith, CallProvider, HandleRest, ForgetCall, Vouch,
               Next, Handle

(* The service is the proxy, restricted to what a provider that keeps the  *)
(* contract answers: every theorem about Proxy holds of it.                *)
THEOREM ServiceImplementsProxy == ServiceSpec => Spec
  <1>1. ServiceInit => Init
    BY Zenon DEF ServiceInit
  <1> QED
    BY <1>1, ServiceStep, PTL DEF ServiceSpec, Spec

LEMMA SameProvider ==
    ASSUME NEW d \in Req, ProviderInv(d), vouched \subseteq vouched',
           stage'[d] = stage[d], verdict'[d] = verdict[d], status'[d] = status[d],
           auth'[d] = auth[d], credential'[d] = credential[d], answer'[d] = answer[d]
    PROVE  ProviderInv(d)'
  <1>1. Passed(d) => Passed(d)'
    BY Zenon DEF Passed
  <1> QED
    BY <1>1 DEF ProviderInv

(* What a call of Authenticate does to its request.                        *)
LEMMA CallEffect ==
    ASSUME TypeOK, ServiceTypeOK, NEW r \in Req, CallProvider(r)
    PROVE  /\ verdict' = verdict /\ credential' = credential /\ vouched' = vouched
           /\ stage[r] = "auth"
           /\ \/ stage'[r] = "aborted" /\ answer' = answer /\ auth' = auth
              \/ \E a \in AP!Answer :
                   /\ answer[r] = "none" /\ answer' = [answer EXCEPT ![r] = a]
                   /\ a = "user" => credential[r] \in vouched
                   /\ a = "anonymous" => credential[r] = Nothing \/ Permissive
                   /\ auth'[r] = ErrorOf(a)
                   /\ a \in {"user", "anonymous"} => stage'[r] = "policy"
                   /\ a = "failed" => stage'[r] = "count" /\ status'[r] = 401
                   /\ a = "unavailable" => stage'[r] = "count" /\ status'[r] = 503
  <1>1. Authenticate(r) /\ credential' = credential
    BY Zenon DEF CallProvider
  <1>2. verdict' = verdict /\ stage[r] = "auth"
    BY <1>1, Zenon DEF Authenticate
  <1>3. stage \in [Req -> Stage] /\ auth \in [Req -> AuthError \cup {"none", "nil"}]
    BY Zenon DEF TypeOK
  <1>4. \/ stage'[r] = "aborted" /\ auth' = auth
        \/ stage'[r] = "policy" /\ auth'[r] = "nil"
        \/ \E e \in AuthError :
             /\ auth'[r] = e /\ stage'[r] = "count"
             /\ e = "ErrAuthenticationFailed" => status'[r] = 401
             /\ e = "ErrAuthenticationUnavailable" => status'[r] = 503
    <2>1. CASE Panic(r) /\ UNCHANGED <<auth, status, tracker>>
      BY <1>3, <2>1 DEF Panic, Goto
    <2>2. CASE auth' = [auth EXCEPT ![r] = "nil"] /\ Goto(r, "policy")
      BY <1>3, <2>2 DEF Goto
    <2>3. ASSUME NEW e \in AuthError, auth' = [auth EXCEPT ![r] = e],
                 Respond(r, CASE e = "ErrAuthenticationFailed" -> 401
                              [] e = "ErrAuthenticationUnavailable" -> 503
                              [] OTHER -> 500)
          PROVE  /\ auth'[r] = e /\ stage'[r] = "count"
                 /\ e = "ErrAuthenticationFailed" => status'[r] = 401
                 /\ e = "ErrAuthenticationUnavailable" => status'[r] = 503
      <3>1. auth'[r] = e
        BY <1>3, <2>3, Zenon
      <3> QED
        BY <2>3, <3>1, RespondStatus
    <2> QED
      BY <1>1, <2>1, <2>2, <2>3 DEF Authenticate
  <1>5. CASE stage'[r] = "aborted" /\ UNCHANGED <<vouched, answer>>
    BY <1>1, <1>2, <1>4, <1>5, Zenon
  <1>6. ASSUME NEW a \in AP!Answer, stage'[r] # "aborted",
               AP!Authenticate(r, credential[r], a), auth'[r] = ErrorOf(a)
        PROVE  /\ vouched' = vouched
               /\ answer[r] = "none" /\ answer' = [answer EXCEPT ![r] = a]
               /\ a = "user" => credential[r] \in vouched
               /\ a = "anonymous" => credential[r] = Nothing \/ Permissive
               /\ a \in {"user", "anonymous"} => stage'[r] = "policy"
               /\ a = "failed" => stage'[r] = "count" /\ status'[r] = 401
               /\ a = "unavailable" => stage'[r] = "count" /\ status'[r] = 503
    <2>1. /\ a \in {"user", "anonymous"} => auth'[r] = "nil"
          /\ a = "failed" => auth'[r] = "ErrAuthenticationFailed"
          /\ a = "unavailable" => auth'[r] = "ErrAuthenticationUnavailable"
      BY <1>6, Zenon DEF ErrorOf
    <2>2. /\ a \in {"user", "anonymous"} => stage'[r] = "policy"
          /\ a = "failed" => stage'[r] = "count" /\ status'[r] = 401
          /\ a = "unavailable" => stage'[r] = "count" /\ status'[r] = 503
      BY <1>4, <1>6, <2>1 DEF AuthError
    <2> QED
      BY <1>6, <2>2, Zenon DEF AP!Authenticate
  <1> QED
    BY <1>1, <1>2, <1>5, <1>6, Zenon DEF CallProvider

LEMMA OwnProvider ==
    ASSUME TypeOK, ServiceTypeOK, NEW r \in Req, ProviderInv(r),
           ArriveWith(r) \/ CallProvider(r) \/ HandleRest(r) \/ ForgetCall(r)
    PROVE  ProviderInv(r)'
  <1>0. answer \in [Req -> AP!Answer \cup {"none"}]
    BY Zenon DEF ServiceTypeOK
  <1>1. CASE ArriveWith(r)
    <2>1. /\ Arrive(r) /\ answer' = answer
          /\ verdict' = verdict /\ auth' = auth
      BY <1>1, Zenon DEF ArriveWith, Arrive
    <2>2. stage[r] = "free" /\ stage'[r] = "cleanup"
      BY <2>1, Transitions, Zenon
    <2>3. answer[r] = "none"
      BY <2>2, Zenon DEF ProviderInv
    <2>4. verdict[r] = NoResult
      BY <2>3, Zenon DEF ProviderInv, Passed
    <2> QED
      BY <2>1, <2>2, <2>3, <2>4, Zenon DEF ProviderInv
  <1>2. CASE CallProvider(r)
    <2>1. /\ stage[r] = "auth" /\ answer[r] = "none" /\ verdict[r] = NoResult
          /\ verdict' = verdict /\ credential' = credential /\ vouched' = vouched
      BY <1>2, CallEffect DEF ProviderInv, Passed
    <2>2. CASE stage'[r] = "aborted" /\ answer' = answer /\ auth' = auth
      BY <2>1, <2>2, Zenon DEF ProviderInv
    <2>3. ASSUME NEW a \in AP!Answer, answer' = [answer EXCEPT ![r] = a],
                 a = "user" => credential[r] \in vouched,
                 a = "anonymous" => credential[r] = Nothing \/ Permissive,
                 auth'[r] = ErrorOf(a),
                 a \in {"user", "anonymous"} => stage'[r] = "policy",
                 a = "failed" => stage'[r] = "count" /\ status'[r] = 401,
                 a = "unavailable" => stage'[r] = "count" /\ status'[r] = 503
          PROVE  ProviderInv(r)'
      <3>1. answer'[r] = a
        BY <1>0, <2>3
      <3>2. a \in {"user", "anonymous", "failed", "unavailable"} /\ auth'[r] # "other"
        BY <2>3 DEF AP!Answer, ErrorOf
      <3>3. a \in {"user", "anonymous"} => Passed(r)'
        BY <2>1, <2>3, <3>1, Zenon DEF Passed
      <3>4. stage'[r] \in {"policy", "count"} /\ verdict'[r] = NoResult
        BY <2>1, <2>3, <3>2
      <3>5. stage'[r] = "policy" => a \in {"user", "anonymous"}
        BY <2>3, <3>2, Zenon
      <3> QED
        BY <2>3, <3>1, <3>2, <3>3, <3>4, <3>5 DEF ProviderInv
    <2> QED
      BY <1>2, <2>2, <2>3, CallEffect
  <1>3. CASE HandleRest(r)
    <2>0. UNCHANGED <<credential, vouched, answer>>
      BY <1>3, Zenon DEF HandleRest, providerVars
    <2>1. Passed(r)' = Passed(r)
      BY <2>0, Zenon DEF Passed
    <2>2. CASE Cleanup(r) \/ Wrap(r)
      <3>1. stage[r] \in {"cleanup", "wrap"} /\ stage'[r] \in {"wrap", "auth", "aborted"}
        BY <2>2, Transitions, Zenon
      <3>2. UNCHANGED <<verdict, auth>>
        BY <2>2, Zenon DEF Cleanup, Wrap
      <3> QED
        BY <2>0, <2>1, <3>1, <3>2, Zenon DEF ProviderInv
    <2>3. CASE (\E v \in Verdict : Policy(r, v)) \/ Serve(r) \/ BackendInforms(r) \/ Backend(r)
      <3>1. stage[r] \in {"policy", "serve", "backend"}
            /\ stage'[r] \in {"serve", "backend", "count", "aborted"}
        BY <2>3, Transitions, Zenon
      <3>2. Passed(r)
        BY <3>1, Zenon DEF ProviderInv
      <3>3. auth' = auth
        BY <2>3, Zenon DEF Policy, Serve, BackendInforms, Backend
      <3>4. answer[r] \in {"user", "anonymous"}
        BY <3>2, Zenon DEF Passed
      <3> QED
        BY <2>0, <2>1, <3>1, <3>2, <3>3, <3>4, Zenon DEF ProviderInv
    <2>4. CASE Count(r)
      <3>1. stage[r] = "count" /\ stage'[r] = "answered"
        BY <2>4, Transitions, Zenon
      <3>2. UNCHANGED <<verdict, auth, status>>
        BY <2>4, Zenon DEF Count
      <3> QED
        BY <2>0, <2>1, <3>1, <3>2 DEF ProviderInv
    <2> QED
      BY <1>3, <2>2, <2>3, <2>4, Zenon DEF HandleRest
  <1>4. CASE ForgetCall(r)
    <2>1. answer'[r] = "none" /\ verdict'[r] = NoResult /\ auth'[r] = "none"
      BY <1>0, <1>4, Zenon DEF ForgetCall, Forget, TypeOK
    <2>2. stage'[r] = "free"
      BY <1>4, Transitions, Zenon DEF ForgetCall
    <2> QED
      BY <2>1, <2>2, Zenon DEF ProviderInv
  <1> QED
    BY <1>1, <1>2, <1>3, <1>4, Zenon

LEMMA ServiceTypeStep ==
    ASSUME TypeOK, ServiceTypeOK, [ServiceNext]_serviceVars
    PROVE  ServiceTypeOK'
  <1>1. ASSUME NEW r \in Req, ArriveWith(r) PROVE ServiceTypeOK'
    BY <1>1, Zenon DEF ServiceTypeOK, ArriveWith
  <1>2. ASSUME NEW r \in Req, CallProvider(r) PROVE ServiceTypeOK'
    <2>1. credential' = credential /\ vouched' = vouched
      BY <1>2, CallEffect, Zenon
    <2>2. answer' = answer \/ \E a \in AP!Answer : answer' = [answer EXCEPT ![r] = a]
      BY <1>2, CallEffect
    <2> QED
      BY <2>1, <2>2, Zenon DEF ServiceTypeOK
  <1>3. ASSUME NEW r \in Req, ForgetCall(r) PROVE ServiceTypeOK'
    BY <1>3, Zenon DEF ServiceTypeOK, ForgetCall
  <1>4. CASE Vouch
    BY <1>4, Zenon DEF ServiceTypeOK, Vouch, AP!Vouch
  <1>5. CASE UNCHANGED providerVars
    BY <1>5, Zenon DEF ServiceTypeOK, providerVars
  <1> QED
    BY <1>1, <1>2, <1>3, <1>4, <1>5, Zenon DEF ServiceNext, HandleRest, serviceVars

(* A request's step leaves the provider's answers to the others.           *)
LEMMA OtherProvider ==
    ASSUME TypeOK, ServiceTypeOK, NEW r \in Req, NEW d \in Req, r # d, ProviderInv(d),
           ArriveWith(r) \/ CallProvider(r) \/ HandleRest(r) \/ ForgetCall(r)
    PROVE  ProviderInv(d)'
  <1>1. Arrive(r) \/ Handle(r) \/ Forget(r)
    BY Zenon DEF ArriveWith, CallProvider, HandleRest, ForgetCall, Handle
  <1>2. vouched' = vouched /\ credential'[d] = credential[d] /\ answer'[d] = answer[d]
    <2>1. CASE ArriveWith(r) \/ HandleRest(r) \/ ForgetCall(r)
      BY <2>1, Zenon DEF ServiceTypeOK, ArriveWith, HandleRest, ForgetCall, providerVars
    <2>2. CASE CallProvider(r)
      BY <2>2, CallEffect DEF ServiceTypeOK
    <2> QED
      BY <2>1, <2>2, Zenon
  <1> QED
    BY <1>1, <1>2, OtherRequest, SameProvider, Zenon

LEMMA ServiceInvariant == ServiceSpec => []ServiceInv
  <1>1. ServiceInit => ServiceInv
    BY DEF ServiceInit, Init, ServiceInv, ServiceTypeOK, ProviderInv
  <1>2. ASSUME TypeOK, ServiceInv, [ServiceNext]_serviceVars PROVE ServiceInv'
    <2>1. ServiceTypeOK'
      BY <1>2, ServiceTypeStep, Zenon DEF ServiceInv
    <2>2. ASSUME NEW r \in Req, NEW d \in Req,
                 ArriveWith(r) \/ CallProvider(r) \/ HandleRest(r) \/ ForgetCall(r)
          PROVE  ProviderInv(d)'
      <3>1. CASE d = r
        BY <1>2, <2>2, <3>1, OwnProvider, Zenon DEF ServiceInv
      <3>2. CASE d # r
        BY <1>2, <2>2, <3>2, OtherProvider, Zenon DEF ServiceInv
      <3> QED
        BY <3>1, <3>2, Zenon
    <2>3. ASSUME Vouch \/ UNCHANGED serviceVars, NEW d \in Req PROVE ProviderInv(d)'
      <3>1. /\ UNCHANGED <<stage, verdict, status, auth, credential, answer>>
            /\ vouched \subseteq vouched'
        BY <2>3, Zenon DEF Vouch, AP!Vouch, serviceVars, providerVars, vars, reqVars
      <3> QED
        BY <1>2, <3>1, SameProvider, Zenon DEF ServiceInv
    <2> QED
      BY <1>2, <2>1, <2>2, <2>3, Zenon DEF ServiceNext, ServiceInv
  <1> QED
    BY <1>1, <1>2, ServiceImplementsProxy, ProxyTypeCorrect, PTL DEF ServiceSpec

(* From the credential to the backend, for any provider that keeps the     *)
(* contract: nobody whom its authority has not vouched for gets past       *)
(* authHandler, except as anonymous, and a refusal is answered as one.     *)
THEOREM NobodyUnvouchedTheorem == ServiceSpec => []NobodyUnvouched
  <1>1. ServiceInv => NobodyUnvouched
    BY Zenon DEF ServiceInv, ProviderInv, NobodyUnvouched
  <1> QED
    BY <1>1, ServiceInvariant, PTL

(* The proxy is a client the contract allows: it calls Authenticate once   *)
(* for a request, with the credential the request came with, and keeps the *)
(* answer until it has forgotten the request.                              *)
THEOREM ServiceKeepsContract == ServiceSpec => AP!Spec
  <1>1. ServiceInit => AP!Init
    <2> SUFFICES ASSUME ServiceInit PROVE AP!Init
      BY Zenon
    <2>1. Presented = [r \in Req |-> Nothing]
      BY Zenon DEF ServiceInit, Presented
    <2> QED
      BY <2>1, Zenon DEF ServiceInit, AP!Init
  <1>2. ASSUME TypeOK, ServiceInv, [ServiceNext]_serviceVars PROVE [AP!Next]_(AP!vars)
    <2>0. answer \in [Req -> AP!Answer \cup {"none"}]
      BY <1>2, Zenon DEF ServiceInv, ServiceTypeOK
    <2>1. ASSUME NEW r \in Req, ArriveWith(r) PROVE UNCHANGED AP!vars
      <3>1. Arrive(r) /\ answer' = answer /\ vouched' = vouched
        BY <2>1, Zenon DEF ArriveWith
      <3>2. answer[r] = "none"
        BY <1>2, <3>1, Transitions, Zenon DEF ServiceInv, ProviderInv
      <3>3. \A d \in Req \ {r} : credential'[d] = credential[d]
        BY <1>2, <2>1, Zenon DEF ArriveWith, ServiceInv, ServiceTypeOK
      <3>4. Presented' = Presented
        BY <3>1, <3>2, <3>3, Zenon DEF Presented
      <3> QED
        BY <3>1, <3>4, Zenon DEF AP!vars
    <2>2. ASSUME NEW r \in Req, CallProvider(r) PROVE AP!Next \/ UNCHANGED AP!vars
      <3>1. CASE UNCHANGED <<credential, vouched, answer>>
        BY <3>1, Zenon DEF AP!vars, Presented
      <3>2. credential[r] \in Credential \cup {Nothing} /\ credential' = credential
        BY <1>2, <2>2, Zenon DEF ServiceInv, ServiceTypeOK, CallProvider
      <3>3. ASSUME NEW a \in AP!Answer, AP!Authenticate(r, credential[r], a) PROVE AP!Next
        BY <3>2, <3>3, Zenon DEF AP!Next
      <3> QED
        BY <2>2, <3>1, <3>2, <3>3, Zenon DEF CallProvider
    <2>3. ASSUME NEW r \in Req, ForgetCall(r) PROVE AP!Next \/ UNCHANGED AP!vars
      <3>1. /\ answer' = [answer EXCEPT ![r] = "none"] /\ vouched' = vouched
            /\ \A d \in Req \ {r} : credential'[d] = credential[d]
        BY <1>2, <2>3, Zenon DEF ForgetCall, ServiceInv, ServiceTypeOK
      <3>2. Presented' = [Presented EXCEPT ![r] = Nothing]
        BY <2>0, <3>1, Zenon DEF Presented
      <3>3. CASE answer[r] = "none"
        <4>1. answer' = answer /\ Presented' = Presented
          BY <2>0, <3>1, <3>2, <3>3, Zenon DEF Presented
        <4> QED
          BY <3>1, <4>1, Zenon DEF AP!vars
      <3>4. CASE answer[r] # "none"
        <4>1. AP!Return(r)
          BY <3>1, <3>2, <3>4, Zenon DEF AP!Return
        <4> QED
          BY <4>1, Zenon DEF AP!Next
      <3> QED
        BY <3>3, <3>4, Zenon
    <2>4. CASE Vouch
      BY <2>4, Zenon DEF Vouch, AP!Next
    <2>5. CASE UNCHANGED providerVars
      BY <2>5, Zenon DEF providerVars, AP!vars, Presented
    <2> QED
      BY <1>2, <2>1, <2>2, <2>3, <2>4, <2>5, Zenon DEF ServiceNext, HandleRest, serviceVars
  <1> QED
    BY <1>1, <1>2, ServiceInvariant, ServiceImplementsProxy, ProxyTypeCorrect, PTL
       DEF ServiceSpec, AP!Spec
=============================================================================

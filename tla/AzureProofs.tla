----------------------------- MODULE AzureProofs -----------------------------
(***************************************************************************)
(* Proofs about Azure, for any tokens, applications, requests and TTL.     *)
(***************************************************************************)
EXTENDS Azure, TLAPS

(* An entry is no younger than what it holds, and its token was taken.     *)
EntryInv ==
    /\ \A e \in userCache, t \in Asked :
            e.key = CacheKey(t) => t \in vouched /\ since[t][e.data] <= e.age
    /\ Taken(graph) \subseteq vouched
    /\ \A t \in Asked, d \in Data : graph[t] = d => since[t][d] = 0

(* Where a request is, what it holds and what it has returned.             *)
Own(c) ==
    /\ pc[c] = "idle" => token[c] = NoToken
    /\ pc[c] \in {"get", "fetch", "set"} => token[c] \in Asked
    /\ pc[c] = "set" => /\ user[c] \in Data /\ since[token[c]][user[c]] = 0
                        /\ token[c] \in vouched
    /\ pc[c] = "done" <=> answer[c] # "none"
    /\ token[c] \in Asked => answer[c] \notin {"anonymous", "failed"}
    /\ token[c] \in Token \ Asked => pc[c] = "done" /\ answer[c] # "user"

RequestInv == \A c \in Client : Own(c)

AzInv == TypeOK /\ EntryInv /\ RequestInv

LEMMA InitInv == Init => AzInv
<1> SUFFICES ASSUME Init PROVE AzInv
  OBVIOUS
<1>1. since \in [Asked -> [Data -> 0..TTL]]
  BY AzureAssumption DEF Init
<1>2. TypeOK
  BY <1>1, Zenon DEF Init, TypeOK, Said, Taken, Asked
<1>3. EntryInv
  BY DEF Init, EntryInv
<1>4. RequestInv
  BY AzureAssumption DEF Init, RequestInv, Own, Asked
<1> QED
  BY <1>2, <1>3, <1>4 DEF AzInv

-----------------------------------------------------------------------------
(* The environment.                                                        *)

LEMMA DecideInv ==
    ASSUME AzInv, NEW t \in Asked, NEW d \in Said, Decide(t, d) PROVE AzInv'
<1>0. TypeOK /\ EntryInv /\ RequestInv
  BY DEF AzInv
<1>1. UNCHANGED <<reachable, userCache, pc, token, user, answer>>
  BY DEF Decide
<1>2. graph' \in [Asked -> Said] /\ graph'[t] = d /\ \A u \in Asked : u # t => graph'[u] = graph[u]
  BY <1>0 DEF TypeOK, Decide
<1>3. since' \in [Asked -> [Data -> 0..TTL]]
  BY <1>0, AzureAssumption DEF TypeOK, Decide
<1>4. \A u \in Asked, e \in Data :
        since'[u][e] = IF u = t /\ e = d THEN 0 ELSE since[u][e]
  BY <1>0 DEF TypeOK, Decide
<1>5. vouched \subseteq vouched' /\ Taken(graph') \subseteq vouched' /\ vouched' \subseteq Token
  BY <1>0 DEF TypeOK, Decide, Taken, Asked
<1>6. TypeOK'
  BY <1>0, <1>1, <1>2, <1>3, <1>5 DEF TypeOK
<1>7. EntryInv'
  <2>1. ASSUME NEW e \in userCache, NEW u \in Asked, e.key = CacheKey(u)
        PROVE  u \in vouched' /\ since'[u][e.data] <= e.age
    <3>1. e.data \in Data /\ e.age \in Nat
      BY <1>0, AzureAssumption DEF TypeOK, Entry
    <3>2. u \in vouched /\ since[u][e.data] <= e.age
      BY <1>0, <2>1 DEF EntryInv
    <3> QED
      BY <1>4, <1>5, <3>1, <3>2
  <2>2. \A u \in Asked, e \in Data : graph'[u] = e => since'[u][e] = 0
    BY <1>0, <1>2, <1>4 DEF EntryInv
  <2>3. Taken(graph)' = Taken(graph')
    BY DEF Taken
  <2> QED
    BY <1>1, <1>5, <2>1, <2>2, <2>3 DEF EntryInv, CacheKey
<1>8. RequestInv'
  BY <1>0, <1>1, <1>4, <1>5 DEF RequestInv, Own
<1> QED
  BY <1>6, <1>7, <1>8 DEF AzInv

LEMMA TickInv ==
    ASSUME AzInv, Tick PROVE AzInv'
<1>0. TypeOK /\ EntryInv /\ RequestInv
  BY DEF AzInv
<1>1. /\ UNCHANGED <<graph, reachable, pc, token, user, answer, vouched>>
      /\ \A c \in Client : pc[c] # "set"
  BY DEF Tick
<1>2. ASSUME NEW e \in userCache'
      PROVE  \E f \in userCache : /\ e.key = f.key /\ e.data = f.data /\ e.age = f.age + 1
                                  /\ f.age + 1 < TTL /\ f \in Entry /\ e = [f EXCEPT !.age = @ + 1]
  <2>1. PICK f \in userCache : f.age + 1 < TTL /\ e = [f EXCEPT !.age = @ + 1]
    BY <1>2 DEF Tick, Expired
  <2>2. f \in Entry
    BY <1>0 DEF TypeOK
  <2> QED
    BY <2>1, <2>2 DEF Entry
<1>3. userCache' \subseteq Entry
  <2> SUFFICES ASSUME NEW e \in userCache' PROVE e \in Entry
    OBVIOUS
  <2>1. PICK f \in userCache : f.age + 1 < TTL /\ f \in Entry /\ e = [f EXCEPT !.age = @ + 1]
    BY <1>2
  <2> QED
    BY <2>1, AzureAssumption DEF Entry
<1>4. since' \in [Asked -> [Data -> 0..TTL]]
  BY <1>0, AzureAssumption DEF TypeOK, Tick
<1>5. \A t \in Asked, d \in Data : /\ since'[t][d] <= since[t][d] + 1
                                   /\ graph[t] = d => since'[t][d] = 0
  BY <1>0, AzureAssumption DEF TypeOK, Tick
<1>6. TypeOK'
  BY <1>0, <1>1, <1>3, <1>4 DEF TypeOK
<1>7. EntryInv'
  <2>1. ASSUME NEW e \in userCache', NEW t \in Asked, e.key = CacheKey(t)
        PROVE  t \in vouched /\ since'[t][e.data] <= e.age
    <3>1. PICK f \in userCache : /\ e.key = f.key /\ e.data = f.data /\ e.age = f.age + 1
                                 /\ f \in Entry
      BY <1>2
    <3>2. t \in vouched /\ since[t][f.data] <= f.age
      BY <1>0, <2>1, <3>1, Zenon DEF EntryInv
    <3>3. f.data \in Data /\ f.age \in Nat /\ since[t][f.data] \in Nat /\ since'[t][f.data] \in Nat
      BY <1>0, <1>4, <3>1, AzureAssumption DEF Entry, TypeOK
    <3> QED
      BY <1>5, <3>1, <3>2, <3>3
  <2> QED
    BY <1>0, <1>1, <1>5, <2>1 DEF EntryInv, CacheKey, Taken
<1>8. RequestInv'
  BY <1>0, <1>1 DEF RequestInv, Own
<1> QED
  BY <1>6, <1>7, <1>8 DEF AzInv

-----------------------------------------------------------------------------
(* The requests.                                                           *)

LEMMA OwnSuffices ==
    ASSUME RequestInv, NEW c \in Client, Own(c)', UNCHANGED <<since, vouched>>,
           \A d \in Client \ {c} : /\ pc'[d] = pc[d] /\ token'[d] = token[d]
                                  /\ user'[d] = user[d] /\ answer'[d] = answer[d]
    PROVE  RequestInv'
<1> SUFFICES ASSUME NEW d \in Client PROVE Own(d)'
  BY DEF RequestInv, Own
<1>1. CASE d = c
  BY <1>1
<1>2. CASE d # c
  BY <1>2 DEF RequestInv, Own
<1> QED
  BY <1>1, <1>2

LEMMA EntriesStay ==
    ASSUME EntryInv, UNCHANGED <<graph, userCache, vouched, since>> PROVE EntryInv'
BY DEF EntryInv, Taken, CacheKey

(* The types of the parts of Finish.                                       *)
LEMMA FinishLemma ==
    ASSUME TypeOK, NEW c \in Client, NEW a, Finish(c, a)
    PROVE  /\ pc' \in [Client -> {"idle", "get", "fetch", "set", "done"}]
           /\ a \in AP!Answer =>
                answer' \in [Client -> {"none", "user", "anonymous", "failed", "unavailable"}]
           /\ pc'[c] = "done" /\ answer'[c] = a
           /\ \A d \in Client \ {c} : pc'[d] = pc[d] /\ answer'[d] = answer[d]
BY DEF TypeOK, Finish, AP!Answer

LEMMA GotoLemma ==
    ASSUME TypeOK, NEW c \in Client, NEW p \in {"idle", "get", "fetch", "set"},
           pc' = [pc EXCEPT ![c] = p]
    PROVE  /\ pc' \in [Client -> {"idle", "get", "fetch", "set", "done"}] /\ pc'[c] = p
           /\ \A d \in Client \ {c} : pc'[d] = pc[d]
BY DEF TypeOK

LEMMA TokenLemma ==
    ASSUME TypeOK, NEW c \in Client, NEW t \in Token \cup {NoToken},
           token' = [token EXCEPT ![c] = t]
    PROVE  /\ token' \in [Client -> Token \cup {NoToken}] /\ token'[c] = t
           /\ \A d \in Client \ {c} : token'[d] = token[d]
BY DEF TypeOK

LEMMA UserLemma ==
    ASSUME TypeOK, NEW c \in Client, NEW d \in Said, user' = [user EXCEPT ![c] = d]
    PROVE  /\ user' \in [Client -> Said] /\ user'[c] = d
           /\ \A e \in Client \ {c} : user'[e] = user[e]
BY DEF TypeOK

LEMMA NobodyInv ==
    ASSUME AzInv, NEW c \in Client, AuthenticateNobody(c) PROVE AzInv'
<1>0. /\ TypeOK /\ EntryInv /\ RequestInv /\ Finish(c, "anonymous") /\ pc[c] = "idle"
      /\ UNCHANGED <<graph, reachable, userCache, token, user, vouched, since>>
  BY DEF AzInv, AuthenticateNobody
<1>1. TypeOK'
  BY <1>0, FinishLemma DEF TypeOK, AP!Answer
<1>2. token[c] = NoToken
  BY <1>0 DEF RequestInv, Own
<1>3. Own(c)'
  BY <1>0, <1>2, FinishLemma, AzureAssumption DEF Own, Asked
<1>4. RequestInv'
  BY <1>0, <1>3, OwnSuffices, FinishLemma
<1> QED
  BY <1>0, <1>1, <1>4, EntriesStay DEF AzInv

LEMMA AuthenticateInv ==
    ASSUME AzInv, NEW c \in Client, NEW t \in Token, Authenticate(c, t) PROVE AzInv'
<1>0. /\ TypeOK /\ EntryInv /\ RequestInv /\ pc[c] = "idle" /\ token' = [token EXCEPT ![c] = t]
      /\ UNCHANGED <<graph, reachable, userCache, user, vouched, since>>
  BY DEF AzInv, Authenticate
<1>1. CASE Kind[t] # "good" /\ Finish(c, HandleFailure)
  <2>1. HandleFailure \in AP!Answer \ {"user"}
    BY DEF HandleFailure, AP!Answer
  <2>2. TypeOK'
    BY <1>0, <1>1, <2>1, FinishLemma, TokenLemma DEF TypeOK
  <2>3. t \notin Asked /\ t # NoToken
    BY <1>1, AzureAssumption DEF Asked
  <2>4. Own(c)'
    BY <1>0, <1>1, <2>1, <2>3, FinishLemma, TokenLemma, Zenon DEF Own, AP!Answer
  <2>5. RequestInv'
    BY <1>0, <1>1, <2>4, OwnSuffices, FinishLemma, TokenLemma
  <2> QED
    BY <1>0, <2>2, <2>5, EntriesStay DEF AzInv
<1>2. CASE Kind[t] = "good" /\ pc' = [pc EXCEPT ![c] = "get"] /\ UNCHANGED answer
  <2>1. TypeOK'
    BY <1>0, <1>2, GotoLemma, TokenLemma DEF TypeOK
  <2>2. t \in Asked /\ answer[c] = "none"
    BY <1>0, <1>2 DEF Asked, RequestInv, Own
  <2>3. Own(c)'
    BY <1>0, <1>2, <2>2, GotoLemma, TokenLemma, Zenon DEF Own
  <2>4. RequestInv'
    BY <1>0, <1>2, <2>3, OwnSuffices, GotoLemma, TokenLemma
  <2> QED
    BY <1>0, <2>1, <2>4, EntriesStay DEF AzInv
<1> QED
  BY <1>1, <1>2 DEF Authenticate

LEMMA CacheGetInv ==
    ASSUME AzInv, NEW c \in Client, CacheGet(c) PROVE AzInv'
<1>0. /\ TypeOK /\ EntryInv /\ RequestInv /\ pc[c] = "get"
      /\ UNCHANGED <<graph, reachable, userCache, token, vouched, since>>
  BY DEF AzInv, CacheGet
<1>1. token[c] \in Asked /\ answer[c] = "none"
  BY <1>0 DEF RequestInv, Own
<1>2. ASSUME NEW e \in userCache, user' = [user EXCEPT ![c] = e.data], Finish(c, "user")
      PROVE  AzInv'
  <2>1. e.data \in Said
    BY <1>0 DEF TypeOK, Entry, Said
  <2>2. TypeOK'
    BY <1>0, <1>2, <2>1, FinishLemma, UserLemma DEF TypeOK, AP!Answer
  <2>3. Own(c)'
    BY <1>0, <1>1, <1>2, FinishLemma, AzureAssumption DEF Own, Asked
  <2>4. RequestInv'
    BY <1>0, <1>2, <2>1, <2>3, OwnSuffices, FinishLemma, UserLemma
  <2> QED
    BY <1>0, <2>2, <2>4, EntriesStay DEF AzInv
<1>3. CASE pc' = [pc EXCEPT ![c] = "fetch"] /\ UNCHANGED <<user, answer>>
  <2>1. TypeOK'
    BY <1>0, <1>3, GotoLemma DEF TypeOK
  <2>2. Own(c)'
    BY <1>0, <1>1, <1>3, GotoLemma DEF Own
  <2>3. RequestInv'
    BY <1>0, <1>3, <2>2, OwnSuffices, GotoLemma
  <2> QED
    BY <1>0, <2>1, <2>3, EntriesStay DEF AzInv
<1> QED
  BY <1>2, <1>3 DEF CacheGet

LEMMA FetchInv ==
    ASSUME AzInv, NEW c \in Client, Fetch(c) PROVE AzInv'
<1>0. /\ TypeOK /\ EntryInv /\ RequestInv /\ pc[c] = "fetch"
      /\ UNCHANGED <<graph, reachable, userCache, token, vouched, since>>
  BY DEF AzInv, Fetch
<1>1. token[c] \in Asked /\ answer[c] = "none" /\ graph[token[c]] \in Said
  BY <1>0 DEF RequestInv, Own, TypeOK
<1>2. CASE /\ graph[token[c]] # Refused /\ user' = [user EXCEPT ![c] = graph[token[c]]]
           /\ pc' = [pc EXCEPT ![c] = "set"] /\ UNCHANGED answer
  <2>1. TypeOK'
    BY <1>0, <1>1, <1>2, GotoLemma, UserLemma DEF TypeOK
  <2>2. /\ graph[token[c]] \in Data /\ since[token[c]][graph[token[c]]] = 0
        /\ token[c] \in vouched
    BY <1>0, <1>1, <1>2 DEF EntryInv, Said, Taken
  <2>3. Own(c)'
    BY <1>0, <1>1, <1>2, <2>2, GotoLemma, UserLemma, Zenon DEF Own
  <2>4. RequestInv'
    BY <1>0, <1>1, <1>2, <2>3, OwnSuffices, GotoLemma, UserLemma
  <2> QED
    BY <1>0, <2>1, <2>4, EntriesStay DEF AzInv
<1>3. CASE Finish(c, GraphError) /\ UNCHANGED user
  <2>1. TypeOK'
    BY <1>0, <1>3, FinishLemma DEF TypeOK, AP!Answer, GraphError
  <2>2. Own(c)'
    BY <1>0, <1>1, <1>3, FinishLemma, AzureAssumption DEF Own, Asked, GraphError
  <2>3. RequestInv'
    BY <1>0, <1>3, <2>2, OwnSuffices, FinishLemma
  <2> QED
    BY <1>0, <2>1, <2>3, EntriesStay DEF AzInv
<1> QED
  BY <1>2, <1>3 DEF Fetch

LEMMA CacheSetInv ==
    ASSUME AzInv, NEW c \in Client, CacheSet(c) PROVE AzInv'
<1> DEFINE key == CacheKey(token[c])
           new == [key |-> key, data |-> user[c], age |-> 0]
<1>0. /\ TypeOK /\ EntryInv /\ RequestInv /\ pc[c] = "set" /\ Finish(c, "user")
      /\ UNCHANGED <<graph, reachable, token, user, vouched, since>>
      /\ userCache' \subseteq userCache \cup {new}
  BY DEF AzInv, CacheSet
<1>1. /\ token[c] \in Asked /\ user[c] \in Data /\ token[c] \in vouched
      /\ since[token[c]][user[c]] = 0
  BY <1>0 DEF RequestInv, Own
<1>2. new \in Entry
  BY <1>1, AzureAssumption DEF Entry, Asked
<1>3. new.key = key /\ new.data = user[c] /\ new.age = 0
  OBVIOUS
<1> HIDE DEF new
<1>4. userCache' \subseteq Entry
  BY <1>0, <1>2 DEF TypeOK
<1>5. TypeOK'
  BY <1>0, <1>4, FinishLemma DEF TypeOK, AP!Answer
<1>6. \A t \in Asked : new.key = CacheKey(t) => t = token[c]
  BY <1>3 DEF CacheKey
<1>7. EntryInv'
  <2>1. ASSUME NEW e \in userCache', NEW t \in Asked, e.key = CacheKey(t)
        PROVE  t \in vouched /\ since[t][e.data] <= e.age
    <3>1. CASE e = new
      BY <1>1, <1>3, <1>6, <2>1, <3>1
    <3>2. CASE e \in userCache
      BY <1>0, <2>1, <3>2 DEF EntryInv
    <3> QED
      BY <1>0, <3>1, <3>2
  <2> QED
    BY <1>0, <2>1 DEF EntryInv, CacheKey, Taken
<1>8. Own(c)'
  BY <1>0, <1>1, FinishLemma DEF Own, Asked
<1>9. RequestInv'
  BY <1>0, <1>8, OwnSuffices, FinishLemma
<1> QED
  BY <1>5, <1>7, <1>9 DEF AzInv

LEMMA ReturnInv ==
    ASSUME AzInv, NEW c \in Client, Return(c) PROVE AzInv'
<1>0. /\ TypeOK /\ EntryInv /\ RequestInv
      /\ pc' = [pc EXCEPT ![c] = "idle"] /\ token' = [token EXCEPT ![c] = NoToken]
      /\ user' = [user EXCEPT ![c] = Refused] /\ answer' = [answer EXCEPT ![c] = "none"]
      /\ UNCHANGED <<graph, reachable, userCache, vouched, since>>
  BY DEF AzInv, Return
<1>1. /\ answer' \in [Client -> {"none", "user", "anonymous", "failed", "unavailable"}]
      /\ answer'[c] = "none" /\ \A d \in Client \ {c} : answer'[d] = answer[d]
  BY <1>0 DEF TypeOK
<1>2. Refused \in Said
  BY DEF Said
<1>3. TypeOK'
  BY <1>0, <1>1, <1>2, GotoLemma, TokenLemma, UserLemma DEF TypeOK
<1>4. Own(c)'
  BY <1>0, <1>1, GotoLemma, TokenLemma, AzureAssumption, Zenon DEF Own, Asked
<1>5. RequestInv'
  BY <1>0, <1>1, <1>2, <1>4, OwnSuffices, GotoLemma, TokenLemma, UserLemma
<1> QED
  BY <1>0, <1>3, <1>5, EntriesStay DEF AzInv

LEMMA StepInv == AzInv /\ [Next]_vars => AzInv'
<1> SUFFICES ASSUME AzInv, [Next]_vars PROVE AzInv'
  OBVIOUS
<1>1. CASE Flip
  <2>1. reachable' \in BOOLEAN
    BY <1>1, Zenon DEF Flip
  <2> QED
    BY <1>1, <2>1 DEF Flip, AzInv, TypeOK, EntryInv, RequestInv, Own, Taken, CacheKey
<1>2. CASE UNCHANGED vars
  BY <1>2 DEF vars, AzInv, TypeOK, EntryInv, RequestInv, Own, Taken, CacheKey
<1> QED
  BY <1>1, <1>2, DecideInv, TickInv, NobodyInv, AuthenticateInv, CacheGetInv, FetchInv,
     CacheSetInv, ReturnInv DEF Next

THEOREM InvTheorem == Spec => []AzInv
BY InitInv, StepInv, PTL DEF Spec

(* The state of the requests and of the cache has its type, for any number *)
(* of them.                                                                *)
THEOREM AzureTypeCorrect == Spec => []TypeOK
BY InvTheorem, PTL DEF AzInv

(* An error of Graph never makes a caller anonymous, and nothing that Graph *)
(* says or fails to say decides about a token of another tenant.           *)
THEOREM FailsClosedTheorem == Spec => FailsClosed
<1> DEFINE Step == \A c \in Client :
                answer[c] = "none" /\ answer'[c] # "none" /\ token'[c] # NoToken =>
                    IF Kind[token'[c]] = "good"
                    THEN answer'[c] \in {"anonymous", "failed"} =>
                            reachable /\ graph[token'[c]] = Refused
                    ELSE answer'[c] \in {"anonymous", "failed"}
<1>1. AzInv /\ [Next]_vars => Step
  <2> SUFFICES ASSUME AzInv, [Next]_vars, NEW c \in Client,
                      answer[c] = "none", answer'[c] # "none", token'[c] # NoToken
               PROVE  IF Kind[token'[c]] = "good"
                      THEN answer'[c] \in {"anonymous", "failed"} =>
                              reachable /\ graph[token'[c]] = Refused
                      ELSE answer'[c] \in {"anonymous", "failed"}
    OBVIOUS
  <2>0. TypeOK /\ RequestInv
    BY DEF AzInv
  <2>1. CASE AuthenticateNobody(c)
    BY <2>0, <2>1 DEF AuthenticateNobody, RequestInv, Own
  <2>2. ASSUME NEW t \in Token, Authenticate(c, t)
        PROVE  Kind[token'[c]] # "good" /\ answer'[c] \in {"anonymous", "failed"}
    BY <2>0, <2>2 DEF TypeOK, Authenticate, Finish, HandleFailure
  <2>3. CASE CacheGet(c) \/ Fetch(c) \/ CacheSet(c)
    <3>1. token'[c] \in Asked
      BY <2>0, <2>3 DEF RequestInv, Own, CacheGet, Fetch, CacheSet
    <3>2. answer'[c] \in {"user", "unavailable"}
      BY <2>0, <2>3 DEF TypeOK, CacheGet, Fetch, CacheSet, Finish, GraphError
    <3> QED
      BY <3>1, <3>2 DEF Asked
  <2>4. ASSUME NEW d \in Client, Return(d) PROVE FALSE
    BY <2>0, <2>4 DEF TypeOK, Return
  <2>5. ASSUME NEW d \in Client, d # c,
               \/ AuthenticateNobody(d) \/ CacheGet(d) \/ Fetch(d) \/ CacheSet(d)
               \/ \E t \in Token : Authenticate(d, t)
        PROVE  FALSE
    BY <2>0, <2>5
    DEF TypeOK, AuthenticateNobody, CacheGet, Fetch, CacheSet, Authenticate, Finish
  <2>6. CASE UNCHANGED answer
    BY <2>6
  <2> QED
    BY <2>1, <2>2, <2>3, <2>4, <2>5, <2>6 DEF Next, Decide, Flip, Tick, vars
<1>2. AzInv /\ [Next]_vars => [Step]_vars
  BY <1>1
<1> QED
  BY <1>2, InvTheorem, PTL DEF Spec, FailsClosed

(* No request is authenticated with what Graph said TTL ago or earlier.    *)
THEOREM RecentTheorem == Spec => RecentlyVouched
<1> DEFINE Step == \A c \in Client :
                answer[c] = "none" /\ answer'[c] = "user" =>
                    user'[c] \in Data /\ since[token[c]][user'[c]] < TTL
<1>1. AzInv /\ [Next]_vars => Step
  <2> SUFFICES ASSUME AzInv, [Next]_vars, NEW c \in Client,
                      answer[c] = "none", answer'[c] = "user"
               PROVE  user'[c] \in Data /\ since[token[c]][user'[c]] < TTL
    OBVIOUS
  <2>0. TypeOK /\ EntryInv /\ RequestInv
    BY DEF AzInv
  <2>1. CASE CacheGet(c)
    <3>1. PICK e \in userCache : e.key = CacheKey(token[c]) /\ user' = [user EXCEPT ![c] = e.data]
      BY <2>1 DEF CacheGet
    <3>2. e.data \in Data /\ e.age \in Nat /\ e.age < TTL
      BY <2>0, AzureAssumption DEF TypeOK, Entry
    <3>3. token[c] \in Asked /\ since[token[c]][e.data] <= e.age
      BY <2>0, <2>1, <3>1 DEF RequestInv, Own, EntryInv, CacheGet
    <3>4. user'[c] = e.data /\ since[token[c]][e.data] \in Nat
      BY <2>0, <3>1, <3>2, <3>3 DEF TypeOK
    <3> QED
      BY <3>2, <3>3, <3>4, AzureAssumption
  <2>2. CASE CacheSet(c)
    BY <2>0, <2>2, AzureAssumption DEF RequestInv, Own, CacheSet
  <2>3. ASSUME NEW d \in Client, d # c, CacheGet(d) \/ CacheSet(d) PROVE FALSE
    BY <2>0, <2>3 DEF TypeOK, CacheGet, CacheSet, Finish
  <2>4. ASSUME NEW d \in Client, AuthenticateNobody(d) \/ Fetch(d) \/ Return(d) PROVE FALSE
    BY <2>0, <2>4 DEF TypeOK, AuthenticateNobody, Fetch, Return, Finish, GraphError
  <2>5. ASSUME NEW d \in Client, NEW t \in Token, Authenticate(d, t) PROVE FALSE
    BY <2>0, <2>5 DEF TypeOK, Authenticate, Finish, HandleFailure
  <2>6. CASE UNCHANGED answer
    BY <2>6
  <2> QED
    BY <2>1, <2>2, <2>3, <2>4, <2>5, <2>6 DEF Next, Decide, Flip, Tick, vars
<1>2. AzInv /\ [Next]_vars => [Step]_vars
  BY <1>1
<1> QED
  BY <1>2, InvTheorem, PTL DEF Spec, RecentlyVouched

-----------------------------------------------------------------------------
(* The refinement of AuthProvider.                                         *)

LEMMA SimulateAnswer ==
    ASSUME AzInv, NEW c \in Client, NEW a \in AP!Answer, Finish(c, a), answer[c] = "none",
           token' \in [Client -> Token \cup {NoToken}],
           \A d \in Client \ {c} : token'[d] = token[d], UNCHANGED vouched,
           a = "user" => token'[c] \in vouched,
           a = "anonymous" => token'[c] = NoToken \/ Permissive
    PROVE  AP!Next
<1>1. /\ answer'[c] = a /\ \A d \in Client \ {c} : answer'[d] = answer[d]
      /\ answer' = [answer EXCEPT ![c] = a]
  BY FinishLemma, Zenon DEF AzInv, Finish
<1>2. a # "none"
  BY DEF AP!Answer
<1>3. Presented' = [Presented EXCEPT ![c] = token'[c]]
  BY <1>1, <1>2, Zenon DEF Presented
<1>4. AP!Authenticate(c, token'[c], a)
  BY <1>1, <1>3 DEF AP!Authenticate
<1>5. token'[c] \in Token \cup {NoToken}
  OBVIOUS
<1> QED
  BY <1>4, <1>5 DEF AP!Next

LEMMA SimulateNothing ==
    ASSUME UNCHANGED <<answer, vouched>>,
           \A d \in Client : token'[d] = token[d] \/ answer[d] = "none"
    PROVE  UNCHANGED AP!vars
<1>1. Presented' = Presented
  BY DEF Presented
<1> QED
  BY <1>1 DEF AP!vars

LEMMA SimulateClient ==
    ASSUME AzInv, NEW c \in Client,
           \/ AuthenticateNobody(c) \/ \E t \in Token : Authenticate(c, t)
           \/ CacheGet(c) \/ Fetch(c) \/ CacheSet(c) \/ Return(c)
    PROVE  [AP!Next]_AP!vars
<1>0. TypeOK /\ EntryInv /\ RequestInv /\ token \in [Client -> Token \cup {NoToken}]
  BY DEF AzInv, TypeOK
<1>1. CASE AuthenticateNobody(c)
  <2>1. token[c] = NoToken /\ answer[c] = "none" /\ UNCHANGED <<token, vouched>>
    BY <1>0, <1>1 DEF AuthenticateNobody, RequestInv, Own
  <2> QED
    BY <1>0, <1>1, <2>1, SimulateAnswer DEF AuthenticateNobody, AP!Answer
<1>2. ASSUME NEW t \in Token, Authenticate(c, t) PROVE [AP!Next]_AP!vars
  <2>1. /\ answer[c] = "none" /\ vouched' = vouched
        /\ token' \in [Client -> Token \cup {NoToken}]
        /\ \A d \in Client \ {c} : token'[d] = token[d]
    BY <1>0, <1>2, TokenLemma DEF Authenticate, RequestInv, Own
  <2>2. /\ HandleFailure \in AP!Answer /\ HandleFailure # "user"
        /\ HandleFailure = "anonymous" => Permissive
    BY DEF HandleFailure, AP!Answer
  <2>3. CASE Finish(c, HandleFailure)
    BY <2>1, <2>2, <2>3, SimulateAnswer
  <2>4. CASE UNCHANGED answer
    BY <2>1, <2>4, SimulateNothing
  <2> QED
    BY <1>2, <2>3, <2>4 DEF Authenticate
<1>3. CASE CacheGet(c)
  <2>1. UNCHANGED <<token, vouched>> /\ token[c] \in Asked /\ answer[c] = "none"
    BY <1>0, <1>3 DEF CacheGet, RequestInv, Own
  <2>2. ASSUME NEW e \in userCache, e.key = CacheKey(token[c]), Finish(c, "user")
        PROVE  AP!Next
    <3>1. token[c] \in vouched
      BY <1>0, <2>1, <2>2 DEF EntryInv
    <3> QED
      BY <1>0, <2>1, <2>2, <3>1, SimulateAnswer DEF AP!Answer
  <2>3. CASE UNCHANGED answer
    BY <2>1, <2>3, SimulateNothing
  <2> QED
    BY <1>3, <2>2, <2>3 DEF CacheGet
<1>4. CASE Fetch(c)
  <2>1. UNCHANGED <<token, vouched>> /\ answer[c] = "none"
    BY <1>0, <1>4 DEF Fetch, RequestInv, Own
  <2>2. CASE Finish(c, GraphError)
    BY <1>0, <2>1, <2>2, SimulateAnswer DEF AP!Answer, GraphError
  <2>3. CASE UNCHANGED answer
    BY <2>1, <2>3, SimulateNothing
  <2> QED
    BY <1>4, <2>2, <2>3 DEF Fetch
<1>5. CASE CacheSet(c)
  <2>1. /\ UNCHANGED <<token, vouched>> /\ answer[c] = "none" /\ Finish(c, "user")
        /\ token[c] \in vouched
    BY <1>0, <1>5 DEF CacheSet, RequestInv, Own
  <2> QED
    BY <1>0, <2>1, SimulateAnswer DEF AP!Answer
<1>6. CASE Return(c)
  <2>1. /\ answer[c] # "none" /\ answer' = [answer EXCEPT ![c] = "none"] /\ vouched' = vouched
        /\ answer'[c] = "none" /\ \A d \in Client \ {c} : answer'[d] = answer[d]
        /\ \A d \in Client \ {c} : token'[d] = token[d]
    BY <1>0, <1>6 DEF TypeOK, Return, RequestInv, Own
  <2>2. Presented' = [Presented EXCEPT ![c] = NoToken]
    BY <2>1, Zenon DEF Presented
  <2>3. AP!Return(c)
    BY <2>1, <2>2 DEF AP!Return
  <2> QED
    BY <2>3 DEF AP!Next
<1> QED
  BY <1>1, <1>2, <1>3, <1>4, <1>5, <1>6

LEMMA SimulateStep == AzInv /\ [Next]_vars => [AP!Next]_AP!vars
<1> SUFFICES ASSUME AzInv, [Next]_vars PROVE [AP!Next]_AP!vars
  OBVIOUS
<1>1. ASSUME NEW t \in Asked, NEW d \in Said, Decide(t, d) PROVE AP!Next
  <2>1. vouched \subseteq vouched' /\ UNCHANGED <<token, answer>>
    BY <1>1 DEF Decide
  <2>2. vouched' \in SUBSET Token
    BY <1>1, DecideInv DEF AzInv, TypeOK
  <2>3. Presented' = Presented
    BY <2>1 DEF Presented
  <2>4. AP!Vouch
    BY <2>1, <2>2, <2>3 DEF AP!Vouch
  <2> QED
    BY <2>4 DEF AP!Next
<1>2. CASE Flip \/ Tick \/ UNCHANGED vars
  BY <1>2, SimulateNothing DEF Flip, Tick, vars
<1> QED
  BY <1>1, <1>2, SimulateClient DEF Next

(* The Azure provider implements the contract that the router relies on.   *)
THEOREM RefinementTheorem == Spec => ImplementsAuthProvider
<1>1. Init => AP!Init
  <2> SUFFICES ASSUME Init PROVE AP!Init
    OBVIOUS
  <2>1. vouched \in SUBSET Token
    BY DEF Init, Taken, Asked
  <2>2. Presented = [c \in Client |-> NoToken]
    BY DEF Init, Presented
  <2> QED
    BY <2>1, <2>2 DEF AP!Init, Init
<1> QED
  BY <1>1, SimulateStep, InvTheorem, PTL DEF Spec, ImplementsAuthProvider, AP!Spec
=============================================================================

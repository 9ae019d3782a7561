-------------------------------- MODULE Azure --------------------------------
(***************************************************************************)
(* internal/azure: a bearer token is looked up at Microsoft Graph, which   *)
(* alone decides whether it is good, and the answer is kept for five       *)
(* minutes in userCache.  The requests share the cache and no lock: each   *)
(* access is a step of its own.                                            *)
(*                                                                         *)
(* Time is counted in ticks, TTL of them to the five minutes.  Assumed: a  *)
(* reply of Graph is stored within the tick in which Graph made it.        *)
(***************************************************************************)
EXTENDS Naturals

CONSTANTS
    Token, NoToken,
    Kind,          \* [Token -> malformed, no_appid, other_tenant or good]
    AppId,         \* [Token -> its appid claim]
    Data,          \* what Graph may say of an application
    Refused,       \* Graph does not take the token
    Permissive,    \* PERMISSIVE_AUTH
    Client,        \* bound: requests inside Authenticate at once
    TTL            \* ticks that an entry lives

ASSUME AzureAssumption ==
    /\ Kind \in [Token -> {"malformed", "no_appid", "other_tenant", "good"}]
    /\ NoToken \notin Token /\ Refused \notin Data
    /\ Permissive \in BOOLEAN
    /\ TTL \in Nat \ {0}

VARIABLES
    graph,       \* [Asked -> what Graph answers now]
    reachable,   \* Graph can be reached
    userCache,   \* set of entries: key, data, age in ticks
    pc,          \* [Client -> where in Authenticate]
    token,       \* [Client -> the token of the request]
    user,        \* [Client -> the local result, info.User at the end]
    answer,      \* [Client -> what Authenticate returned]
    vouched,     \* history: the tokens Graph has taken
    since        \* history: [Asked -> [Data -> ticks since Graph said so]]

vars == <<graph, reachable, userCache, pc, token, user, answer, vouched, since>>

Said == Data \cup {Refused}

(* The tokens that Graph is asked about.                                   *)
Asked == {t \in Token : Kind[t] = "good"}

(* Mutant: the token is left out of the key.                               *)
CacheKey_App(t) == <<AppId[t], NoToken>>

CacheKey(t) == <<AppId[t], t>>

Taken(g) == {t \in Asked : g[t] # Refused}

Init ==
    /\ graph \in [Asked -> Said] /\ reachable \in BOOLEAN
    /\ userCache = {}
    /\ pc = [c \in Client |-> "idle"]
    /\ token = [c \in Client |-> NoToken]
    /\ user = [c \in Client |-> Refused]
    /\ answer = [c \in Client |-> "none"]
    /\ vouched = Taken(graph)
    /\ since = [t \in Asked |-> [d \in Data |-> IF graph[t] = d THEN 0 ELSE TTL]]

-----------------------------------------------------------------------------
(* The environment: Graph changes its mind, the network, the clock.        *)

Decide(t, d) ==
    /\ graph' = [graph EXCEPT ![t] = d]
    /\ vouched' = vouched \cup Taken(graph')
    /\ since' = [since EXCEPT ![t] = [e \in Data |-> IF e = d THEN 0 ELSE @[e]]]
    /\ UNCHANGED <<reachable, userCache, pc, token, user, answer>>

Flip ==
    /\ reachable' = ~reachable
    /\ UNCHANGED <<graph, userCache, pc, token, user, answer, vouched, since>>

(* Mutant: an entry does not age.                                          *)
Expired_Never(cache) == cache

(* Mutant: an entry lives a tick too long.                                 *)
Expired_Late(cache) ==
    {[e EXCEPT !.age = @ + 1] : e \in {e \in cache : e.age < TTL}}

(* go-cache: an entry that reaches its TTL is not found any more.          *)
Expired(cache) ==
    {[e EXCEPT !.age = @ + 1] : e \in {e \in cache : e.age + 1 < TTL}}

(* since counts up to TTL.                                                 *)
Tick ==
    /\ \A c \in Client : pc[c] # "set"
    /\ userCache' = Expired(userCache)
    /\ since' = [t \in Asked |-> [d \in Data |->
                    IF graph[t] = d THEN 0
                    ELSE IF since[t][d] < TTL THEN since[t][d] + 1 ELSE TTL]]
    /\ UNCHANGED <<graph, reachable, pc, token, user, answer, vouched>>

-----------------------------------------------------------------------------
(* Authenticate.                                                           *)

HandleFailure == IF Permissive THEN "anonymous" ELSE "failed"

Finish(c, how) ==
    /\ pc' = [pc EXCEPT ![c] = "done"]
    /\ answer' = [answer EXCEPT ![c] = how]

(* Case 1: no bearer token.                                                *)
AuthenticateNobody(c) ==
    /\ pc[c] = "idle"
    /\ Finish(c, "anonymous")
    /\ UNCHANGED <<graph, reachable, userCache, token, user, vouched, since>>

(* Cases 2 to 4: the token is not a JWT, has no appid or another tenant.   *)
Authenticate(c, t) ==
    /\ pc[c] = "idle"
    /\ token' = [token EXCEPT ![c] = t]
    /\ \/ Kind[t] # "good" /\ Finish(c, HandleFailure)
       \/ Kind[t] = "good" /\ pc' = [pc EXCEPT ![c] = "get"] /\ UNCHANGED answer
    /\ UNCHANGED <<graph, reachable, userCache, user, vouched, since>>

(* getApp: userCache.Get.                                                  *)
CacheGet(c) ==
    LET hits == {e \in userCache : e.key = CacheKey(token[c])}
    IN  /\ pc[c] = "get"
        /\ \/ /\ \E e \in hits : user' = [user EXCEPT ![c] = e.data]
              /\ Finish(c, "user")
           \/ /\ hits = {}
              /\ pc' = [pc EXCEPT ![c] = "fetch"]
              /\ UNCHANGED <<user, answer>>
        /\ UNCHANGED <<graph, reachable, userCache, token, vouched, since>>

(* Mutant: an error of Graph is a failure like the others.                 *)
GraphError_Lenient == HandleFailure

(* user == nil: not even permissive mode lets the request through.         *)
GraphError == "unavailable"

(* getApp: the call to Graph.  A refusal, whose body is not a flat map of  *)
(* strings, ends as nil like every error.  docs/PERMISSIVE.md:51 has a     *)
(* refusal end as 401, or anonymous in permissive mode.                    *)
Fetch(c) ==
    /\ pc[c] = "fetch"
    /\ \/ /\ reachable /\ graph[token[c]] # Refused
          /\ user' = [user EXCEPT ![c] = graph[token[c]]]
          /\ pc' = [pc EXCEPT ![c] = "set"]
          /\ UNCHANGED answer
       \/ /\ ~reachable \/ graph[token[c]] = Refused
          /\ Finish(c, GraphError)
          /\ UNCHANGED user
    /\ UNCHANGED <<graph, reachable, userCache, token, vouched, since>>

(* getApp: SetDefault, which replaces an entry of that key.                *)
CacheSet(c) ==
    LET key == CacheKey(token[c])
    IN  /\ pc[c] = "set"
        /\ userCache' = {e \in userCache : e.key # key}
                            \cup {[key |-> key, data |-> user[c], age |-> 0]}
        /\ Finish(c, "user")
        /\ UNCHANGED <<graph, reachable, token, user, vouched, since>>

Return(c) ==
    /\ pc[c] = "done"
    /\ pc' = [pc EXCEPT ![c] = "idle"]
    /\ answer' = [answer EXCEPT ![c] = "none"]
    /\ token' = [token EXCEPT ![c] = NoToken]
    /\ user' = [user EXCEPT ![c] = Refused]
    /\ UNCHANGED <<graph, reachable, userCache, vouched, since>>

Next ==
    \/ \E t \in Asked, d \in Said : Decide(t, d)
    \/ Flip
    \/ Tick
    \/ \E c \in Client :
        \/ AuthenticateNobody(c)
        \/ \E t \in Token : Authenticate(c, t)
        \/ CacheGet(c) \/ Fetch(c) \/ CacheSet(c)
        \/ Return(c)

Spec == Init /\ [][Next]_vars

-----------------------------------------------------------------------------
Entry == [key : {CacheKey(t) : t \in Token}, data : Data, age : 0..(TTL - 1)]

TypeOK ==
    /\ graph \in [Asked -> Said] /\ reachable \in BOOLEAN
    /\ userCache \subseteq Entry
    /\ pc \in [Client -> {"idle", "get", "fetch", "set", "done"}]
    /\ token \in [Client -> Token \cup {NoToken}]
    /\ user \in [Client -> Said]
    /\ answer \in [Client -> {"none", "user", "anonymous", "failed", "unavailable"}]
    /\ vouched \subseteq Token
    /\ since \in [Asked -> [Data -> 0..TTL]]

Presented == [c \in Client |-> IF answer[c] = "none" THEN NoToken ELSE token[c]]

AP == INSTANCE AuthProvider WITH
        Caller <- Client, Credential <- Token, Nothing <- NoToken, presented <- Presented

(* The provider keeps the contract of AuthProvider, where a credential is  *)
(* a token that Graph has taken: no cached answer about one token, of the  *)
(* same application or not, authenticates another.                         *)
ImplementsAuthProvider == AP!Spec

(* "AC-007: Fail closed on Graph API errors" (.specs/PRD.md:205): a token  *)
(* that is good for Graph is never taken for anonymous or for a failure    *)
(* because Graph could not be asked, not even in permissive mode; only a   *)
(* refusal by Graph may end so.  A token that fails the checks before is   *)
(* not sent: neither what Graph says nor an outage decides about it.       *)
FailsClosed ==
    [][\A c \in Client :
        answer[c] = "none" /\ answer'[c] # "none" /\ token'[c] # NoToken =>
            IF Kind[token'[c]] = "good"
            THEN answer'[c] \in {"anonymous", "failed"} =>
                    reachable /\ graph[token'[c]] = Refused
            ELSE answer'[c] \in {"anonymous", "failed"}]_vars

(* What Graph says of a token is not used for longer than the TTL: a       *)
(* request is authenticated with data that Graph gave for this very token  *)
(* less than TTL ago, however lookups of the same token overlap and        *)
(* replace each other's entries.                                           *)
RecentlyVouched ==
    [][\A c \in Client :
        answer[c] = "none" /\ answer'[c] = "user" =>
            user'[c] \in Data /\ since[token[c]][user'[c]] < TTL]_vars
=============================================================================

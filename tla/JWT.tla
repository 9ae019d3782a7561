--------------------------------- MODULE JWT ---------------------------------
(***************************************************************************)
(* internal/jwtsupport: bearer tokens are verified with the keys of the    *)
(* issuers in WELLKNOWN_OIDC.  New loads a well-known document and a key   *)
(* set per issuer and goes on without the ones it cannot load; keys from   *)
(* files stay as they are, keys from servers are fetched and refreshed by  *)
(* jwk.Cache.  Authenticate tries the issuers in order.                    *)
(*                                                                         *)
(* A token is the key that signed it, the algorithm, whether it names the  *)
(* key (kid), and its audience; one that is malformed or expired is signed *)
(* by a key nobody publishes.                                              *)
(***************************************************************************)
EXTENDS Naturals, Sequences, FiniteSets

CONSTANTS
    Issuer,        \* the issuers
    WellKnowns,    \* WELLKNOWN_OIDC, in order; NoUrl is an empty entry
    NoUrl,
    Source,        \* [Issuer -> where the well-known document is: file, http]
    KeySource,     \* [Issuer -> what jwks_uri is: file, http, or refused by Register]
    Supported,     \* [Issuer -> its supported algorithms, in order]
    Published,     \* [Issuer -> the key sets it may publish]
    NoAlg,         \* a key that names no algorithm
    NoKeys,        \* no key set is loaded
    MayFail,       \* the issuers whose files may be unusable at start-up
    Token, NoToken,
    Worded,        \* the tokens with text that an error of jwt.Parse may quote
                   \* and that holds one of the words Verdict looks for
    Audiences,     \* JWT_AUDIENCES
    Permissive,    \* PERMISSIVE_AUTH
    Client         \* bound: requests inside Authenticate at once

ASSUME JWTAssumption ==
    /\ WellKnowns \in Seq(Issuer \cup {NoUrl}) /\ NoUrl \notin Issuer
    /\ Source \in [Issuer -> {"file", "http"}]
    /\ KeySource \in [Issuer -> {"file", "http", "refused"}]
    /\ \A i \in Issuer : Supported[i] \in Seq(STRING)
    /\ NoToken \notin Token /\ Worded \subseteq Token
    /\ Permissive \in BOOLEAN

VARIABLES
    boot,           \* how far New has come
    next,           \* the entry of the list that New is at
    wellknownList,  \* j.wellknownList, by issuer
    JWKS,           \* j.JWKS, by the issuer whose keys an element holds
    published,      \* [Issuer -> the key set it publishes now]
    up,             \* the issuers whose server answers
    keys,           \* [Issuer -> its keys from the file, or those in j.cache]
    token,          \* [Client -> the token of the request]
    at,             \* [Client -> the place in wellknownList, 0 outside the loop]
    lastError,      \* [Client -> what the text of lastError reads like]
    answer,         \* [Client -> how Authenticate ended]
    vouched,        \* history: tokens signed as some issuer has published
    able,           \* history: [Client -> issuers able to verify its token throughout]
    outage          \* history: [Client -> a server was down since it began]

bootVars   == <<boot, next, wellknownList, JWKS>>
clientVars == <<token, at, lastError, answer>>
history    == <<vouched, able, outage>>
vars       == <<bootVars, published, up, keys, clientVars, history>>

Listed == {wellknownList[n] : n \in 1..Len(wellknownList)}
Http   == {i \in Issuer : Source[i] = "http"}

-----------------------------------------------------------------------------
(* Keys and tokens.                                                        *)

(* PostFetch: a key that names no algorithm is given each one the issuer   *)
(* supports, but it is one object: the last one stays, and AddKey adds it  *)
(* once.                                                                   *)
PostFetch(i, ks) ==
    LET algs == Supported[i]
    IN  {[id |-> k.id, alg |-> IF k.alg = NoAlg THEN algs[Len(algs)] ELSE k.alg] :
            k \in {k \in ks : k.alg # NoAlg \/ Len(algs) > 0}}

KeySet == UNION {{PostFetch(i, ks) : ks \in Published[i]} : i \in Issuer}

ASSUME NoKeysAssumption == NoKeys \notin KeySet

(* Mutant: the audience is not looked at.                                  *)
Verifies_NoAudience(t, ks) == \E k \in ks : k.id = t.key /\ k.alg = t.alg

(* The loop over j.audiences: jwt.Parse with the only key of a set,        *)
(* whatever key the token names, or with the key of the set that it names. *)
Verifies(t, ks) ==
    /\ t.aud \in Audiences
    /\ Cardinality(ks) = 1 \/ t.kid
    /\ \E k \in ks : k.id = t.key /\ k.alg = t.alg

(* jwk.Cache can fetch the keys of the issuer.                             *)
Fetchable(i) == Source[i] = "http" /\ KeySource[i] = "http" /\ i \in up

(* History: the tokens signed with a key, and by an algorithm, that an     *)
(* issuer publishes in pub.                                                *)
Genuine(pub) ==
    {t \in Token : /\ t.aud \in Audiences
                   /\ \E i \in Issuer : \E k \in pub[i] :
                        /\ k.id = t.key
                        /\ \/ k.alg = t.alg
                           \/ k.alg = NoAlg /\ \E n \in 1..Len(Supported[i]) :
                                                    Supported[i][n] = t.alg}

(* History: the keys of the issuer are at hand and verify the token.       *)
Serves(i, t) ==
    IF keys[i] # NoKeys THEN Verifies(t, keys[i])
    ELSE Fetchable(i) /\ Verifies(t, PostFetch(i, published[i]))

Init ==
    /\ boot = "wellknowns" /\ next = 1
    /\ wellknownList = <<>> /\ JWKS = <<>>
    /\ published \in [Issuer -> UNION {Published[i] : i \in Issuer}]
    /\ \A i \in Issuer : published[i] \in Published[i]
    /\ up \in SUBSET Http
    /\ keys = [i \in Issuer |-> NoKeys]
    /\ token = [c \in Client |-> NoToken]
    /\ at = [c \in Client |-> 0]
    /\ lastError = [c \in Client |-> "none"]
    /\ answer = [c \in Client |-> "none"]
    /\ vouched = Genuine(published)
    /\ able = [c \in Client |-> {}]
    /\ outage = [c \in Client |-> FALSE]

-----------------------------------------------------------------------------
(* New.                                                                    *)

(* Mutant: an empty entry is loaded as well.                               *)
LoadWellKnown_Empty ==
    /\ boot = "wellknowns" /\ next <= Len(WellKnowns)
    /\ next' = next + 1
    /\ wellknownList' = Append(wellknownList, WellKnowns[next])
    /\ UNCHANGED <<boot, JWKS, published, up, keys, clientVars, history>>

(* LoadWellKnowns, one entry: an empty one, or one that cannot be read or  *)
(* parsed, is skipped.                                                     *)
LoadWellKnown ==
    LET i == WellKnowns[next]
    IN  /\ boot = "wellknowns" /\ next <= Len(WellKnowns)
        /\ next' = next + 1
        /\ \/ /\ i = NoUrl \/ i \in MayFail \/ i \in Http \ up
              /\ UNCHANGED wellknownList
           \/ /\ i # NoUrl /\ i \notin Http \ up
              /\ wellknownList' = Append(wellknownList, i)
        /\ UNCHANGED <<boot, JWKS, published, up, keys, clientVars, history>>

BeginJWKS ==
    /\ boot = "wellknowns" /\ next > Len(WellKnowns)
    /\ boot' = "jwks" /\ next' = 1
    /\ UNCHANGED <<wellknownList, JWKS, published, up, keys, clientVars, history>>

(* LoadJWKS, one entry: sources that do not match, and keys that cannot be *)
(* read, registered, fetched or parsed, are skipped.                       *)
LoadKeys ==
    LET i == wellknownList[next]
    IN  /\ boot = "jwks" /\ next <= Len(wellknownList)
        /\ next' = next + 1
        /\ \/ /\ KeySource[i] # Source[i] \/ i \in MayFail \/ i \in Http \ up
              /\ UNCHANGED <<JWKS, keys>>
           \/ /\ KeySource[i] = Source[i] /\ i \notin Http \ up
              /\ JWKS' = Append(JWKS, i)
              /\ keys' = [keys EXCEPT ![i] = PostFetch(i, published[i])]
        /\ UNCHANGED <<boot, wellknownList, published, up, clientVars, history>>

(* New exits without a key set or an audience.                             *)
EndNew ==
    /\ boot = "jwks" /\ next > Len(wellknownList)
    /\ boot' = IF JWKS = <<>> \/ Audiences = {} THEN "exit" ELSE "up"
    /\ UNCHANGED <<next, wellknownList, JWKS, published, up, keys, clientVars, history>>

-----------------------------------------------------------------------------
(* The issuers, and jwk.Cache in the background.                           *)

StillAble == able' = [c \in Client |-> {i \in able[c] : Serves(i, token[c])'}]

(* An issuer rotates its keys.                                             *)
Publish(i, ks) ==
    /\ boot # "exit"
    /\ published' = [published EXCEPT ![i] = ks]
    /\ vouched' = vouched \cup Genuine(published')
    /\ UNCHANGED <<bootVars, up, keys, clientVars, outage>>
    /\ StillAble

(* Its server stops or resumes answering.                                  *)
Flip(i) ==
    /\ boot # "exit" /\ i \in Http
    /\ up' = (up \ {i}) \cup ({i} \ up)
    /\ outage' = [c \in Client |-> outage[c] \/ (at[c] > 0 /\ i \in up)]
    /\ UNCHANGED <<bootVars, published, keys, clientVars, vouched>>
    /\ StillAble

Fetch(i) == keys' = [keys EXCEPT ![i] = PostFetch(i, published[i])]

(* The refresh of a registered key set; one that fails changes nothing.    *)
Refresh(i) ==
    /\ boot = "up" /\ i \in Listed /\ Fetchable(i)
    /\ Fetch(i)
    /\ UNCHANGED <<bootVars, published, up, clientVars, vouched, outage>>
    /\ StillAble

-----------------------------------------------------------------------------
(* Authenticate.                                                           *)

HandleFailure == IF Permissive THEN "anonymous" ELSE "failed"

(* No authentication header, or one of another kind.                       *)
AuthenticateNobody(c) ==
    /\ boot = "up" /\ at[c] = 0 /\ answer[c] = "none"
    /\ \E a \in {"anonymous", HandleFailure} : answer' = [answer EXCEPT ![c] = a]
    /\ UNCHANGED <<bootVars, published, up, keys, token, at, lastError, history>>

Authenticate(c, t) ==
    /\ boot = "up" /\ at[c] = 0 /\ answer[c] = "none"
    /\ token' = [token EXCEPT ![c] = t]
    /\ at' = [at EXCEPT ![c] = 1]
    /\ able' = [able EXCEPT ![c] = {i \in Listed : Serves(i, t)}]
    /\ outage' = [outage EXCEPT ![c] = Listed \cap (Http \ up) # {}]
    /\ UNCHANGED <<bootVars, published, up, keys, lastError, answer, vouched>>

Finish(c, a) ==
    /\ at' = [at EXCEPT ![c] = 0]
    /\ lastError' = [lastError EXCEPT ![c] = "none"]
    /\ answer' = [answer EXCEPT ![c] = a]

(* Mutant: every error counts as one of the system.                        *)
Verdict_Unknown(e) ==
    IF Permissive THEN "anonymous" ELSE IF e # "none" THEN "unavailable" ELSE "failed"

(* What is returned after the loop: the text of lastError, in which        *)
(* "failed to fetch", "connection" or "timeout" is a "system" error and    *)
(* all else "validation", decides between 503 and 401.                     *)
Verdict(e) ==
    IF e = "none" THEN "unavailable"
    ELSE IF Permissive THEN "anonymous"
    ELSE IF e = "system" THEN "unavailable"
    ELSE "failed"

(* Mutant: the loop ends at the first issuer that has an error.            *)
Continue_Break(c, e) == Finish(c, Verdict(e))

(* continue with the next issuer.                                          *)
Continue(c, e) ==
    \/ /\ at[c] < Len(wellknownList)
       /\ at' = [at EXCEPT ![c] = @ + 1]
       /\ lastError' = [lastError EXCEPT ![c] = e]
       /\ UNCHANGED answer
    \/ /\ at[c] >= Len(wellknownList)
       /\ Finish(c, Verdict(e))

(* What an error of jwt.Parse may read like.                               *)
ParseError(t) == {"validation"} \cup {e \in {"system"} : t \in Worded}

Try(c, ks) ==
    \/ Verifies(token[c], ks) /\ Finish(c, "user")
    \/ ~Verifies(token[c], ks) /\ \E e \in ParseError(token[c]) : Continue(c, e)

(* One issuer: the static keys at its place in j.JWKS, the cached ones, or *)
(* those the cache fetches now.                                            *)
TryIssuer(c) ==
    LET n == at[c]
        i == wellknownList[n]
    IN  /\ n > 0
        /\ \/ /\ Source[i] = "file" /\ n > Len(JWKS)
              /\ Finish(c, "panic")
              /\ UNCHANGED keys
           \/ /\ Source[i] = "file" /\ n <= Len(JWKS)
              /\ Try(c, keys[JWKS[n]])
              /\ UNCHANGED keys
           \/ /\ Source[i] = "http" /\ keys[i] # NoKeys
              /\ Try(c, keys[i])
              /\ UNCHANGED keys
           \/ /\ Source[i] = "http" /\ keys[i] = NoKeys /\ Fetchable(i)
              /\ Fetch(i)
              /\ Try(c, PostFetch(i, published[i]))
           \/ /\ Source[i] = "http" /\ keys[i] = NoKeys /\ ~Fetchable(i)
              /\ \E e \in {"system", "validation"} :
                    (e = "system" => KeySource[i] = "http") /\ Continue(c, e)
              /\ UNCHANGED keys
        /\ UNCHANGED <<bootVars, published, up, token, vouched, outage>>
        /\ StillAble

Return(c) ==
    /\ answer[c] # "none"
    /\ answer' = [answer EXCEPT ![c] = "none"]
    /\ token' = [token EXCEPT ![c] = NoToken]
    /\ able' = [able EXCEPT ![c] = {}]
    /\ outage' = [outage EXCEPT ![c] = FALSE]
    /\ UNCHANGED <<bootVars, published, up, keys, at, lastError, vouched>>

Next ==
    \/ LoadWellKnown \/ BeginJWKS \/ LoadKeys \/ EndNew
    \/ \E i \in Issuer :
        \/ \E ks \in Published[i] : Publish(i, ks)
        \/ Flip(i)
        \/ Refresh(i)
    \/ \E c \in Client :
        \/ AuthenticateNobody(c)
        \/ \E t \in Token : Authenticate(c, t)
        \/ TryIssuer(c)
        \/ Return(c)

Spec == Init /\ [][Next]_vars

-----------------------------------------------------------------------------
TypeOK ==
    /\ boot \in {"wellknowns", "jwks", "up", "exit"} /\ next \in Nat \ {0}
    /\ wellknownList \in Seq(Issuer) /\ JWKS \in Seq(Issuer)
    /\ published \in [Issuer -> UNION {Published[i] : i \in Issuer}]
    /\ \A i \in Issuer : published[i] \in Published[i]
    /\ up \subseteq Http
    /\ keys \in [Issuer -> KeySet \cup {NoKeys}]
    /\ token \in [Client -> Token \cup {NoToken}]
    /\ at \in [Client -> Nat]
    /\ lastError \in [Client -> {"none", "system", "validation"}]
    /\ answer \in [Client -> {"none", "user", "anonymous", "failed", "unavailable", "panic"}]
    /\ vouched \subseteq Token
    /\ able \in [Client -> SUBSET Issuer]
    /\ outage \in [Client -> BOOLEAN]

(* The answer of a call that has returned, and what the request presented; *)
(* a call that panics returns no answer.                                   *)
Returned == [c \in Client |-> IF answer[c] = "panic" THEN "none" ELSE answer[c]]
Presented == [c \in Client |-> IF answer[c] \in {"none", "panic"} THEN NoToken ELSE token[c]]

AP == INSTANCE AuthProvider WITH
        Caller <- Client, Credential <- Token, Nothing <- NoToken,
        presented <- Presented, answer <- Returned

(* The provider keeps the contract of AuthProvider, where a credential is  *)
(* a token signed with a key and by an algorithm that some issuer has      *)
(* published, for a configured audience: neither the order of the issuers, *)
(* nor keys at the wrong place in j.JWKS, nor rotated, cached or refreshed *)
(* keys let another one through.                                           *)
ImplementsAuthProvider == AP!Spec

(* Every issuer with static keys has them at its own place in j.JWKS.      *)
Aligned ==
    \A n \in 1..Len(wellknownList) :
        Source[wellknownList[n]] = "file" => n <= Len(JWKS) /\ JWKS[n] = wellknownList[n]

(* "Failed JWK fetch from one provider doesn't block others"               *)
(* (.specs/PRD.md): a token is accepted if some listed issuer was able to  *)
(* verify it all the time its request took.                                *)
IssuersIndependent ==
    \A c \in Client : answer[c] \notin {"none", "user"} => able[c] = {}

(* The same as far as the code keeps it: as long as the two lists agree,   *)
(* no outage, refresh or rotation at other issuers, and no position in the *)
(* list, makes Authenticate refuse a token that its issuer can verify, and *)
(* an issuer that was down at start-up serves as soon as it is back.       *)
ValidTokenAccepted == Aligned => IssuersIndependent

(* The code tells an outage from a bad token by the words of the last      *)
(* error of the loop.  503 is answered only if some issuer's server was    *)
(* down at some moment since the request began, or if that error came from *)
(* jwt.Parse and quotes such words from the token: neither an issuer that  *)
(* is not registered, nor a rotated key, nor the order of the issuers      *)
(* makes a bad token look like an outage.                                  *)
UnavailableOnlyInOutage ==
    \A c \in Client : answer[c] = "unavailable" => outage[c] \/ token[c] \in Worded
=============================================================================

------------------------------ MODULE JWTProofs ------------------------------
(***************************************************************************)
(* Proofs about JWT, for any number of issuers, key sets, tokens and       *)
(* requests, any order of the issuers and any failures at start-up.        *)
(***************************************************************************)
EXTENDS JWT, TLAPS

(* Inside the loop New has returned, and the place is one of the list.     *)
Loop ==
    /\ boot = "wellknowns" => JWKS = <<>>
    /\ JWKS # <<>> => Len(wellknownList) > 0
    /\ boot = "up" => Len(wellknownList) > 0
    /\ \A c \in Client :
        /\ boot # "up" => at[c] = 0 /\ answer[c] = "none"
        /\ at[c] > 0 => /\ at[c] <= Len(wellknownList)
                        /\ answer[c] = "none" /\ token[c] \in Token

JInv == TypeOK /\ Loop

BootStep == LoadWellKnown \/ BeginJWKS \/ LoadKeys \/ EndNew

(* PostFetch of a published set is a key set.                              *)
LEMMA FetchedSet ==
    ASSUME TypeOK, NEW i \in Issuer
    PROVE  PostFetch(i, published[i]) \in KeySet
<1>1. published[i] \in Published[i]
  BY DEF TypeOK
<1> QED
  BY <1>1 DEF KeySet

(* An element of a list of issuers is an issuer.                           *)
LEMMA Element ==
    ASSUME NEW s \in Seq(Issuer), NEW n \in 1..Len(s)
    PROVE  s[n] \in Issuer
OBVIOUS

LEMMA Appended ==
    ASSUME NEW S, NEW s \in Seq(S), NEW e \in S
    PROVE  Append(s, e) \in Seq(S)
OBVIOUS

LEMMA InitInv == Init => JInv
<1> SUFFICES ASSUME Init PROVE JInv
  OBVIOUS
<1>1. Genuine(published) \subseteq Token
  BY DEF Genuine
<1>2. TypeOK
  BY <1>1 DEF Init, TypeOK
<1>3. Loop
  BY DEF Init, Loop
<1> QED
  BY <1>2, <1>3 DEF JInv

(* The steps of New.                                                       *)
LEMMA BootInv == JInv /\ BootStep => JInv'
<1> SUFFICES ASSUME JInv, BootStep PROVE JInv'
  OBVIOUS
<1>0. TypeOK /\ Loop
  BY DEF JInv
<1>1. CASE LoadWellKnown
  <2>1. WellKnowns[next] \in Issuer \cup {NoUrl}
    BY <1>0, <1>1, JWTAssumption DEF TypeOK, LoadWellKnown
  <2>2. wellknownList' \in Seq(Issuer)
    <3>1. wellknownList \in Seq(Issuer)
      BY <1>0 DEF TypeOK
    <3>2. \/ wellknownList' = wellknownList
          \/ /\ WellKnowns[next] # NoUrl
             /\ wellknownList' = Append(wellknownList, WellKnowns[next])
      BY <1>1 DEF LoadWellKnown
    <3> QED
      BY <2>1, <3>1, <3>2, Appended
  <2>3. next' \in Nat \ {0}
    BY <1>0, <1>1 DEF TypeOK, LoadWellKnown
  <2>4. TypeOK'
    BY <1>0, <1>1, <2>2, <2>3 DEF TypeOK, LoadWellKnown, clientVars, history
  <2>5. boot' = "wellknowns" /\ JWKS' = <<>>
    BY <1>0, <1>1 DEF Loop, LoadWellKnown
  <2>6. Loop'
    BY <1>0, <1>1, <2>5 DEF Loop, LoadWellKnown, clientVars
  <2> QED
    BY <2>4, <2>6 DEF JInv
<1>2. CASE BeginJWKS
  <2>1. TypeOK'
    BY <1>0, <1>2 DEF TypeOK, BeginJWKS, clientVars, history
  <2>2. Loop'
    BY <1>0, <1>2 DEF Loop, BeginJWKS, clientVars
  <2> QED
    BY <2>1, <2>2 DEF JInv
<1>3. CASE LoadKeys
  <2>1. next \in 1..Len(wellknownList) /\ wellknownList \in Seq(Issuer)
    BY <1>0, <1>3 DEF TypeOK, LoadKeys
  <2>2. wellknownList[next] \in Issuer /\ Len(wellknownList) > 0
    BY <2>1, Element
  <2>3. JWKS' \in Seq(Issuer)
    <3>1. JWKS \in Seq(Issuer)
      BY <1>0 DEF TypeOK
    <3>2. JWKS' = JWKS \/ JWKS' = Append(JWKS, wellknownList[next])
      BY <1>3 DEF LoadKeys
    <3> QED
      BY <2>2, <3>1, <3>2, Appended
  <2>4. keys' \in [Issuer -> KeySet \cup {NoKeys}]
    <3> DEFINE i == wellknownList[next]
    <3>1. PostFetch(i, published[i]) \in KeySet
      BY <1>0, <2>2, FetchedSet
    <3>2. keys' = keys \/ keys' = [keys EXCEPT ![i] = PostFetch(i, published[i])]
      BY <1>3 DEF LoadKeys
    <3>3. keys \in [Issuer -> KeySet \cup {NoKeys}] /\ i \in Issuer
      BY <1>0, <2>2 DEF TypeOK
    <3> HIDE DEF i
    <3> QED
      BY <3>1, <3>2, <3>3
  <2>5. next' \in Nat \ {0}
    BY <1>0, <1>3 DEF TypeOK, LoadKeys
  <2>6. TypeOK'
    BY <1>0, <1>3, <2>3, <2>4, <2>5 DEF TypeOK, LoadKeys, clientVars, history
  <2>7. Loop'
    BY <1>0, <1>3, <2>2 DEF Loop, LoadKeys, clientVars
  <2> QED
    BY <2>6, <2>7 DEF JInv
<1>4. CASE EndNew
  <2>1. TypeOK'
    BY <1>0, <1>4 DEF TypeOK, EndNew, clientVars, history
  <2>2. boot = "jwks" /\ (boot' = "up" => Len(wellknownList') > 0)
    BY <1>0, <1>4 DEF Loop, EndNew
  <2>3. boot' # "wellknowns"
    BY <1>4 DEF EndNew
  <2>4. Loop'
    BY <1>0, <1>4, <2>2, <2>3 DEF Loop, EndNew, clientVars
  <2> QED
    BY <2>1, <2>4 DEF JInv
<1> QED
  BY <1>1, <1>2, <1>3, <1>4 DEF BootStep

(* Publish, Flip and Refresh leave the requests where they are.            *)
IssuerStep(i) == (\E ks \in Published[i] : Publish(i, ks)) \/ Flip(i) \/ Refresh(i)

LEMMA StillAbleType ==
    ASSUME TypeOK, StillAble PROVE able' \in [Client -> SUBSET Issuer]
BY DEF TypeOK, StillAble

LEMMA IssuerInv ==
    ASSUME JInv, NEW i \in Issuer, IssuerStep(i) PROVE JInv'
<1>0. TypeOK /\ Loop
  BY DEF JInv
<1>1. ASSUME NEW ks \in Published[i], Publish(i, ks) PROVE JInv'
  <2>1. published' \in [Issuer -> UNION {Published[j] : j \in Issuer}]
    BY <1>0, <1>1 DEF TypeOK, Publish
  <2>2. \A j \in Issuer : published'[j] \in Published[j]
    BY <1>0, <1>1 DEF TypeOK, Publish
  <2>3. vouched' \subseteq Token
    BY <1>0, <1>1 DEF TypeOK, Publish, Genuine
  <2>4. TypeOK'
    BY <1>0, <1>1, <2>1, <2>2, <2>3, StillAbleType, Zenon
       DEF TypeOK, Publish, bootVars, clientVars
  <2>5. Loop'
    BY <1>0, <1>1 DEF Loop, Publish, bootVars, clientVars
  <2> QED
    BY <2>4, <2>5 DEF JInv
<1>2. CASE Flip(i)
  <2>1. up' \subseteq Http
    BY <1>0, <1>2 DEF TypeOK, Flip
  <2>2. outage' \in [Client -> BOOLEAN]
    BY <1>0, <1>2, Zenon DEF TypeOK, Flip
  <2>3. TypeOK'
    BY <1>0, <1>2, <2>1, <2>2, StillAbleType DEF TypeOK, Flip, bootVars, clientVars
  <2>4. Loop'
    BY <1>0, <1>2 DEF Loop, Flip, bootVars, clientVars
  <2> QED
    BY <2>3, <2>4 DEF JInv
<1>3. CASE Refresh(i)
  <2>1. keys' \in [Issuer -> KeySet \cup {NoKeys}]
    BY <1>0, <1>3, FetchedSet DEF TypeOK, Refresh, Fetch
  <2>2. TypeOK'
    BY <1>0, <1>3, <2>1, StillAbleType DEF TypeOK, Refresh, bootVars, clientVars
  <2>3. Loop'
    BY <1>0, <1>3 DEF Loop, Refresh, bootVars, clientVars
  <2> QED
    BY <2>2, <2>3 DEF JInv
<1> QED
  BY <1>1, <1>2, <1>3 DEF IssuerStep

(* How one issuer may end: the loop moves on, or Authenticate returns.     *)
Moves(c, e) ==
    /\ at[c] < Len(wellknownList)
    /\ at' = [at EXCEPT ![c] = @ + 1]
    /\ lastError' = [lastError EXCEPT ![c] = e]
    /\ UNCHANGED answer

Final == {"user", "anonymous", "failed", "unavailable", "panic"}

LEMMA VerdictFinal == \A e : Verdict(e) \in Final \ {"user", "panic"}
BY DEF Verdict, Final

LEMMA InLoop ==
    ASSUME JInv, NEW c \in Client, TryIssuer(c)
    PROVE  /\ at[c] \in 1..Len(wellknownList)
           /\ wellknownList[at[c]] \in Issuer
           /\ at[c] <= Len(JWKS) => JWKS[at[c]] \in Issuer
           /\ boot = "up" /\ answer[c] = "none" /\ token[c] \in Token
<1>1. /\ at[c] \in Nat /\ at[c] > 0 /\ wellknownList \in Seq(Issuer)
      /\ JWKS \in Seq(Issuer)
  BY DEF JInv, TypeOK, TryIssuer
<1>2. at[c] <= Len(wellknownList) /\ boot = "up" /\ answer[c] = "none" /\ token[c] \in Token
  BY <1>1 DEF JInv, Loop
<1> QED
  BY <1>1, <1>2, Element

LEMMA TryEnds ==
    ASSUME NEW c \in Client, TryIssuer(c)
    PROVE  \/ \E a \in Final : Finish(c, a)
           \/ \E e \in {"system", "validation"} : Moves(c, e)
<1>1. ASSUME NEW e \in {"system", "validation"}, Continue(c, e)
      PROVE  (\E a \in Final : Finish(c, a)) \/ Moves(c, e)
  BY <1>1, VerdictFinal DEF Continue, Moves
<1>2. ASSUME NEW ks, Try(c, ks)
      PROVE  \/ \E a \in Final : Finish(c, a)
             \/ \E e \in {"system", "validation"} : Moves(c, e)
  <2>1. CASE Finish(c, "user")
    BY <2>1 DEF Final
  <2>2. ASSUME NEW e \in ParseError(token[c]), Continue(c, e)
        PROVE  (\E a \in Final : Finish(c, a)) \/ Moves(c, e)
    BY <1>1, <2>2 DEF ParseError
  <2> QED
    BY <1>2, <2>1, <2>2 DEF Try, ParseError
<1>3. \/ Finish(c, "panic")
      \/ \E ks : Try(c, ks)
      \/ \E e \in {"system", "validation"} : Continue(c, e)
  BY DEF TryIssuer
<1> QED
  BY <1>1, <1>2, <1>3 DEF Final

LEMMA TryKeys ==
    ASSUME JInv, NEW c \in Client, TryIssuer(c)
    PROVE  keys' \in [Issuer -> KeySet \cup {NoKeys}]
<1> DEFINE i == wellknownList[at[c]]
<1>1. keys' = keys \/ keys' = [keys EXCEPT ![i] = PostFetch(i, published[i])]
  BY DEF TryIssuer, Fetch
<1>2. i \in Issuer
  BY InLoop
<1>3. PostFetch(i, published[i]) \in KeySet
  BY <1>2, FetchedSet DEF JInv
<1>4. keys \in [Issuer -> KeySet \cup {NoKeys}]
  BY DEF JInv, TypeOK
<1> HIDE DEF i
<1> QED
  BY <1>1, <1>2, <1>3, <1>4

LEMMA TryInv ==
    ASSUME JInv, NEW c \in Client, TryIssuer(c) PROVE JInv'
<1>0. TypeOK /\ Loop
  BY DEF JInv
<1>1. /\ UNCHANGED <<bootVars, published, up, token, vouched, outage>>
      /\ StillAble
  BY DEF TryIssuer
<1>2. at[c] \in 1..Len(wellknownList) /\ boot = "up" /\ token[c] \in Token
  BY InLoop
<1>3. ASSUME NEW a \in Final, Finish(c, a) PROVE JInv'
  <2>1. /\ at' \in [Client -> Nat]
        /\ lastError' \in [Client -> {"none", "system", "validation"}]
    BY <1>0, <1>3 DEF TypeOK, Finish
  <2>2. answer' \in [Client -> {"none", "user", "anonymous", "failed", "unavailable", "panic"}]
    BY <1>0, <1>3 DEF TypeOK, Finish, Final
  <2>3. TypeOK'
    BY <1>0, <1>1, <2>1, <2>2, TryKeys, StillAbleType DEF TypeOK, bootVars
  <2>4. Loop'
    BY <1>0, <1>1, <1>2, <1>3 DEF Loop, Finish, bootVars, TypeOK
  <2> QED
    BY <2>3, <2>4 DEF JInv
<1>4. ASSUME NEW e \in {"system", "validation"}, Moves(c, e) PROVE JInv'
  <2>1. /\ at' \in [Client -> Nat]
        /\ lastError' \in [Client -> {"none", "system", "validation"}]
    BY <1>0, <1>4 DEF TypeOK, Moves
  <2>2. TypeOK'
    BY <1>0, <1>1, <1>4, <2>1, TryKeys, StillAbleType DEF TypeOK, Moves, bootVars
  <2>3. at'[c] <= Len(wellknownList)
    BY <1>0, <1>2, <1>4 DEF TypeOK, Moves
  <2>4. Loop'
    BY <1>0, <1>1, <1>2, <1>4, <2>3, InLoop DEF Loop, Moves, bootVars, TypeOK
  <2> QED
    BY <2>2, <2>4 DEF JInv
<1> QED
  BY <1>3, <1>4, TryEnds

ClientStep(c) ==
    \/ AuthenticateNobody(c)
    \/ \E t \in Token : Authenticate(c, t)
    \/ TryIssuer(c)
    \/ Return(c)

LEMMA ClientInv ==
    ASSUME JInv, NEW c \in Client, ClientStep(c) PROVE JInv'
<1>0. TypeOK /\ Loop
  BY DEF JInv
<1>1. CASE AuthenticateNobody(c)
  <2>1. answer' \in [Client -> {"none", "user", "anonymous", "failed", "unavailable", "panic"}]
    BY <1>0, <1>1 DEF TypeOK, AuthenticateNobody, HandleFailure
  <2>2. TypeOK'
    BY <1>0, <1>1, <2>1 DEF TypeOK, AuthenticateNobody, bootVars, history
  <2>3. Loop'
    BY <1>0, <1>1 DEF Loop, TypeOK, AuthenticateNobody, bootVars
  <2> QED
    BY <2>2, <2>3 DEF JInv
<1>2. ASSUME NEW t \in Token, Authenticate(c, t) PROVE JInv'
  <2>1. able' \in [Client -> SUBSET Issuer]
    <3>1. {i \in Listed : Serves(i, t)} \subseteq Issuer
      BY <1>0, Element DEF TypeOK, Listed
    <3> QED
      BY <1>0, <1>2, <3>1 DEF TypeOK, Authenticate
  <2>2. outage' \in [Client -> BOOLEAN]
    BY <1>0, <1>2, Zenon DEF TypeOK, Authenticate
  <2>3. token' \in [Client -> Token \cup {NoToken}] /\ at' \in [Client -> Nat]
    BY <1>0, <1>2 DEF TypeOK, Authenticate
  <2>4. TypeOK'
    BY <1>0, <1>2, <2>1, <2>2, <2>3 DEF TypeOK, Authenticate, bootVars
  <2>5. Loop'
    BY <1>0, <1>2 DEF Loop, TypeOK, Authenticate, bootVars
  <2> QED
    BY <2>4, <2>5 DEF JInv
<1>3. CASE TryIssuer(c)
  BY <1>3, TryInv
<1>4. CASE Return(c)
  <2>1. outage' \in [Client -> BOOLEAN]
    BY <1>0, <1>4, Zenon DEF TypeOK, Return
  <2>2. TypeOK'
    BY <1>0, <1>4, <2>1 DEF TypeOK, Return, bootVars
  <2>3. Loop'
    BY <1>0, <1>4 DEF Loop, TypeOK, Return, bootVars
  <2> QED
    BY <2>2, <2>3 DEF JInv
<1> QED
  BY <1>1, <1>2, <1>3, <1>4 DEF ClientStep

LEMMA NextCases ==
    Next => \/ BootStep
            \/ \E i \in Issuer : IssuerStep(i)
            \/ \E c \in Client : ClientStep(c)
BY DEF Next, BootStep, IssuerStep, ClientStep

LEMMA StutterInv == JInv /\ UNCHANGED vars => JInv'
BY DEF JInv, TypeOK, Loop, vars, bootVars, clientVars, history

(* The lists, the loops over them and the history variables are well       *)
(* formed, whatever fails to load.                                         *)
THEOREM TypeTheorem == Spec => []JInv
<1>1. JInv /\ [Next]_vars => JInv'
  BY BootInv, IssuerInv, ClientInv, NextCases, StutterInv
<1> QED
  BY <1>1, InitInv, PTL DEF Spec

(* The state of the provider has its type, whatever fails to load.         *)
THEOREM JWTTypeCorrect == Spec => []TypeOK
BY TypeTheorem, PTL DEF JInv

-----------------------------------------------------------------------------
(* What the answer of a request says about the issuer tried last.          *)
LEMMA TryAnswer ==
    ASSUME JInv, NEW c \in Client, TryIssuer(c),
           NEW n, n = at[c], NEW i, i = wellknownList[n]
    PROVE  /\ answer'[c] = "panic" => Source[i] = "file" /\ n > Len(JWKS)
           /\ answer'[c] \in {"anonymous", "failed", "unavailable"} => n >= Len(wellknownList)
           /\ answer'[c] = "unavailable" => i \in Http \ up \/ token[c] \in Worded
           /\ answer'[c] = "anonymous" => Permissive
           /\ answer'[c] = "user" =>
                \/ n <= Len(JWKS) /\ Verifies(token[c], keys[JWKS[n]])
                \/ keys[i] # NoKeys /\ Verifies(token[c], keys[i])
                \/ Verifies(token[c], PostFetch(i, published[i]))
<1>0. answer \in [Client -> {"none", "user", "anonymous", "failed", "unavailable", "panic"}]
  BY DEF JInv, TypeOK
<1>1. /\ answer[c] = "none" /\ i \in Issuer
  BY InLoop
<1>2. ASSUME NEW a, Finish(c, a) PROVE answer'[c] = a
  BY <1>0, <1>2 DEF Finish
<1>3. ASSUME NEW e \in {"system", "validation"}, Continue(c, e)
      PROVE  /\ answer'[c] \in {"none", "anonymous", "failed", "unavailable"}
             /\ answer'[c] # "none" => n >= Len(wellknownList)
             /\ answer'[c] = "unavailable" => e = "system"
             /\ answer'[c] = "anonymous" => Permissive
  <2>1. CASE UNCHANGED answer
    BY <1>1, <2>1
  <2>2. CASE at[c] >= Len(wellknownList) /\ Finish(c, Verdict(e))
    BY <1>2, <2>2 DEF Verdict
  <2> QED
    BY <1>3, <2>1, <2>2 DEF Continue
<1>4. ASSUME NEW ks, Try(c, ks)
      PROVE  /\ answer'[c] \in {"none", "user", "anonymous", "failed", "unavailable"}
             /\ answer'[c] \notin {"none", "user"} => n >= Len(wellknownList)
             /\ answer'[c] = "unavailable" => token[c] \in Worded
             /\ answer'[c] = "user" => Verifies(token[c], ks)
             /\ answer'[c] = "anonymous" => Permissive
  <2>1. CASE Verifies(token[c], ks) /\ Finish(c, "user")
    BY <1>2, <2>1
  <2>2. ASSUME NEW e \in ParseError(token[c]), Continue(c, e)
        PROVE  /\ answer'[c] \in {"none", "anonymous", "failed", "unavailable"}
               /\ answer'[c] # "none" => n >= Len(wellknownList)
               /\ answer'[c] = "unavailable" => token[c] \in Worded
               /\ answer'[c] = "anonymous" => Permissive
    BY <1>3, <2>2 DEF ParseError
  <2> QED
    BY <1>4, <2>1, <2>2, Zenon DEF Try
<1>5. CASE Source[i] = "file" /\ n > Len(JWKS) /\ Finish(c, "panic")
  BY <1>2, <1>5
<1>6. CASE n <= Len(JWKS) /\ Try(c, keys[JWKS[n]])
  BY <1>4, <1>6
<1>7. CASE keys[i] # NoKeys /\ Try(c, keys[i])
  BY <1>4, <1>7
<1>8. CASE Try(c, PostFetch(i, published[i]))
  BY <1>4, <1>8
<1>9. CASE /\ Source[i] = "http" /\ ~Fetchable(i)
           /\ \E e \in {"system", "validation"} :
                (e = "system" => KeySource[i] = "http") /\ Continue(c, e)
  BY <1>1, <1>3, <1>9 DEF Fetchable, Http
<1> QED
  BY <1>5, <1>6, <1>7, <1>8, <1>9, Zenon DEF TryIssuer

(* While the loop runs, a server of the list that is down has been seen.   *)
OInv ==
    \A c \in Client : /\ at[c] > 0 /\ Listed \cap (Http \ up) # {} => outage[c]
                      /\ answer[c] = "unavailable" => outage[c] \/ token[c] \in Worded

LEMMA TryOthers ==
    ASSUME JInv, NEW c \in Client, TryIssuer(c), NEW d \in Client, d # c
    PROVE  at'[d] = at[d] /\ answer'[d] = answer[d]
<1>1. at \in [Client -> Nat]
  BY DEF JInv, TypeOK
<1>2. answer \in [Client -> {"none", "user", "anonymous", "failed", "unavailable", "panic"}]
  BY DEF JInv, TypeOK
<1>3. ASSUME NEW a, Finish(c, a) PROVE at'[d] = at[d] /\ answer'[d] = answer[d]
  BY <1>1, <1>2, <1>3 DEF Finish
<1>4. ASSUME NEW e, Moves(c, e) PROVE at'[d] = at[d] /\ answer'[d] = answer[d]
  BY <1>1, <1>4 DEF Moves
<1> QED
  BY <1>3, <1>4, TryEnds

LEMMA TryStays ==
    ASSUME JInv, NEW c \in Client, TryIssuer(c), at'[c] > 0
    PROVE  /\ answer'[c] = "none" /\ at'[c] = at[c] + 1
<1>1. at \in [Client -> Nat] /\ answer[c] = "none"
  BY InLoop DEF JInv, TypeOK
<1>2. ASSUME NEW a, Finish(c, a) PROVE FALSE
  BY <1>1, <1>2 DEF Finish
<1>3. ASSUME NEW e, Moves(c, e) PROVE answer'[c] = "none" /\ at'[c] = at[c] + 1
  BY <1>1, <1>3 DEF Moves
<1> QED
  BY <1>2, <1>3, TryEnds

LEMMA OutageTry ==
    ASSUME JInv, OInv, NEW c \in Client, TryIssuer(c) PROVE OInv'
<1>1. /\ Listed' = Listed /\ up' = up /\ outage' = outage /\ token' = token
  BY DEF TryIssuer, bootVars, Listed
<1>2. at[c] > 0 /\ wellknownList[at[c]] \in Listed
  BY InLoop DEF Listed
<1>3. answer'[c] = "unavailable" => outage[c] \/ token[c] \in Worded
  BY <1>2, TryAnswer DEF OInv
<1> SUFFICES ASSUME NEW d \in Client
             PROVE  /\ at'[d] > 0 /\ Listed' \cap (Http \ up') # {} => outage'[d]
                    /\ answer'[d] = "unavailable" => outage'[d] \/ token'[d] \in Worded
  BY DEF OInv
<1>4. CASE d = c
  BY <1>1, <1>2, <1>3, <1>4 DEF OInv
<1>5. CASE d # c
  BY <1>1, <1>5, TryOthers DEF OInv
<1> QED
  BY <1>4, <1>5

LEMMA OutageStep ==
    ASSUME JInv, OInv, Next PROVE OInv'
<1>0. TypeOK /\ Loop
  BY DEF JInv
<1>1. CASE BootStep
  <2>1. boot # "up" /\ at' = at /\ answer' = answer /\ token' = token
    BY <1>1 DEF BootStep, LoadWellKnown, BeginJWKS, LoadKeys, EndNew, clientVars
  <2> QED
    BY <1>0, <2>1 DEF Loop, OInv
<1>2. ASSUME NEW i \in Issuer, IssuerStep(i) PROVE OInv'
  <2>1. at' = at /\ answer' = answer /\ token' = token /\ Listed' = Listed
    BY <1>2 DEF IssuerStep, Publish, Flip, Refresh, clientVars, bootVars, Listed
  <2>2. CASE up' = up /\ outage' = outage
    BY <2>1, <2>2 DEF OInv
  <2>3. CASE Flip(i)
    <3>1. \A c \in Client : outage'[c] = (outage[c] \/ (at[c] > 0 /\ i \in up))
      BY <2>3 DEF Flip
    <3>2. Listed' \cap (Http \ up') # {} => Listed \cap (Http \ up) # {} \/ i \in up
      BY <2>1, <2>3 DEF Flip
    <3> QED
      BY <2>1, <3>1, <3>2, Zenon DEF OInv
  <2> QED
    BY <1>2, <2>2, <2>3 DEF IssuerStep, Publish, Refresh
<1>3. ASSUME NEW c \in Client, AuthenticateNobody(c) PROVE OInv'
  <2>1. answer'[c] # "unavailable" /\ \A d \in Client \ {c} : answer'[d] = answer[d]
    BY <1>0, <1>3 DEF TypeOK, AuthenticateNobody, HandleFailure
  <2> QED
    BY <1>3, <2>1 DEF AuthenticateNobody, OInv, bootVars, history, Listed
<1>4. ASSUME NEW c \in Client, NEW t \in Token, Authenticate(c, t) PROVE OInv'
  <2>1. /\ Listed' = Listed /\ up' = up /\ answer' = answer /\ answer[c] = "none"
        /\ outage'[c] = (Listed \cap (Http \ up) # {})
        /\ \A d \in Client \ {c} : /\ at'[d] = at[d] /\ outage'[d] = outage[d]
                                   /\ token'[d] = token[d]
    BY <1>0, <1>4 DEF TypeOK, Authenticate, bootVars, Listed
  <2> QED
    BY <2>1, Zenon DEF OInv
<1>5. ASSUME NEW c \in Client, TryIssuer(c) PROVE OInv'
  BY <1>5, OutageTry
<1>6. ASSUME NEW c \in Client, Return(c) PROVE OInv'
  <2>1. at[c] = 0
    BY <1>0, <1>6 DEF Loop, TypeOK, Return
  <2>2. /\ Listed' = Listed /\ up' = up /\ at' = at /\ answer'[c] = "none"
        /\ \A d \in Client \ {c} : /\ answer'[d] = answer[d] /\ outage'[d] = outage[d]
                                   /\ token'[d] = token[d]
    BY <1>0, <1>6 DEF TypeOK, Return, bootVars, Listed
  <2> QED
    BY <2>1, <2>2 DEF OInv
<1> QED
  BY <1>1, <1>2, <1>3, <1>4, <1>5, <1>6, NextCases DEF ClientStep

(* 503 is answered only in an outage, or for a token whose text an error   *)
(* of jwt.Parse quotes, for any list of issuers.                           *)
THEOREM UnavailableTheorem == Spec => []UnavailableOnlyInOutage
<1>1. Init => OInv
  BY DEF Init, OInv
<1>2. JInv /\ OInv /\ [Next]_vars => OInv'
  <2>1. OInv /\ UNCHANGED vars => OInv'
    BY DEF OInv, vars, bootVars, clientVars, history, Listed
  <2> QED
    BY <2>1, OutageStep
<1>3. OInv => UnavailableOnlyInOutage
  BY DEF OInv, UnavailableOnlyInOutage
<1> QED
  BY <1>1, <1>2, <1>3, TypeTheorem, PTL DEF Spec

-----------------------------------------------------------------------------
(* An issuer that can verify the token is still to be tried.               *)
Ahead(c) == \A i \in able[c] : \E m \in at[c]..Len(wellknownList) : wellknownList[m] = i

AInv ==
    \A c \in Client :
        /\ \A i \in able[c] : Serves(i, token[c])
        /\ at[c] = 0 /\ answer[c] = "none" => able[c] = {}
        /\ Aligned /\ at[c] > 0 => Ahead(c)
        /\ Aligned /\ answer[c] \notin {"none", "user"} => able[c] = {}

(* An issuer that can verify the token accepts it when its turn comes.     *)
LEMMA ServedAccepts ==
    ASSUME JInv, Aligned, NEW c \in Client, TryIssuer(c),
           Serves(wellknownList[at[c]], token[c])
    PROVE  Finish(c, "user")
<1> DEFINE n == at[c]
           i == wellknownList[n]
<1>1. n \in 1..Len(wellknownList)
  BY InLoop
<1>2. CASE Source[i] = "file"
  <2>1. n <= Len(JWKS) /\ JWKS[n] = i
    BY <1>1, <1>2 DEF Aligned
  <2>2. Verifies(token[c], keys[i])
    BY <1>2 DEF Serves, Fetchable
  <2>3. n \in Nat /\ Len(JWKS) \in Nat
    BY <1>1 DEF JInv, TypeOK
  <2>4. Try(c, keys[JWKS[n]])
    BY <1>2, <2>1, <2>3 DEF TryIssuer
  <2> QED
    BY <2>1, <2>2, <2>4 DEF Try
<1>3. CASE Source[i] # "file" /\ keys[i] # NoKeys
  BY <1>3 DEF Serves, TryIssuer, Try
<1>4. CASE Source[i] # "file" /\ keys[i] = NoKeys
  BY <1>4 DEF Serves, TryIssuer, Try
<1> QED
  BY <1>2, <1>3, <1>4

LEMMA AbleShrinks ==
    ASSUME TypeOK, StillAble, token' = token, NEW c \in Client
    PROVE  able'[c] \subseteq able[c] /\ \A i \in able'[c] : Serves(i, token[c])'
BY DEF StillAble

LEMMA AbleTry ==
    ASSUME JInv, AInv, NEW c \in Client, TryIssuer(c) PROVE AInv'
<1>0. TypeOK /\ StillAble /\ token' = token /\ wellknownList' = wellknownList /\ JWKS' = JWKS
  BY DEF JInv, TryIssuer, bootVars
<1>1. Aligned' = Aligned
  BY <1>0 DEF Aligned
<1> SUFFICES ASSUME NEW d \in Client
             PROVE  /\ \A i \in able'[d] : Serves(i, token[d])'
                    /\ at'[d] = 0 /\ answer'[d] = "none" => able'[d] = {}
                    /\ Aligned /\ at'[d] > 0 => Ahead(d)'
                    /\ Aligned /\ answer'[d] \notin {"none", "user"} => able'[d] = {}
  BY <1>1 DEF AInv
<1>2. able'[d] \subseteq able[d] /\ \A i \in able'[d] : Serves(i, token[d])'
  BY <1>0, AbleShrinks
<1>3. CASE d # c
  <2>1. at'[d] = at[d] /\ answer'[d] = answer[d]
    BY <1>3, TryOthers
  <2>2. Ahead(d) => Ahead(d)'
    BY <1>0, <1>2, <2>1 DEF Ahead
  <2> QED
    BY <1>2, <2>1, <2>2 DEF AInv
<1>4. CASE d = c
  <2> DEFINE n == at[c]
             i == wellknownList[n]
  <2>1. n \in 1..Len(wellknownList) /\ answer[c] = "none" /\ n > 0
    BY InLoop
  <2>2. at \in [Client -> Nat]
    BY <1>0 DEF TypeOK
  <2>3. answer \in [Client -> {"none", "user", "anonymous", "failed", "unavailable", "panic"}]
    BY <1>0 DEF TypeOK
  <2>4. Aligned /\ i \in able[c] => at'[c] = 0 /\ answer'[c] = "user"
    BY <2>2, <2>3, ServedAccepts DEF AInv, Finish
  <2>5. Aligned => Ahead(c)
    BY <2>1 DEF AInv
  <2>6. at'[c] = 0 => answer'[c] # "none"
    <3>1. ASSUME NEW e, Moves(c, e) PROVE at'[c] # 0
      BY <2>1, <2>2, <3>1 DEF Moves
    <3>2. ASSUME NEW a \in Final, Finish(c, a) PROVE answer'[c] # "none"
      BY <2>3, <3>2 DEF Finish, Final
    <3> QED
      BY <3>1, <3>2, TryEnds
  <2>7. ASSUME Aligned, at'[c] > 0 PROVE Ahead(c)'
    <3>1. at'[c] = n + 1 /\ i \notin able[c]
      BY <2>2, <2>4, <2>7, TryStays
    <3>2. \A j \in able'[c] : \E m \in n..Len(wellknownList) : wellknownList[m] = j /\ m # n
      BY <1>2, <1>4, <2>5, <2>7, <3>1 DEF Ahead
    <3>3. \A m \in n..Len(wellknownList) : m # n => m \in (n + 1)..Len(wellknownList)
      BY <2>1
    <3> QED
      BY <1>0, <3>1, <3>2, <3>3 DEF Ahead
  <2>8. ASSUME Aligned, answer'[c] \notin {"none", "user"} PROVE able'[c] = {}
    <3>1. answer'[c] # "panic"
      BY <2>1, <2>8, TryAnswer DEF Aligned
    <3>2. answer'[c] \in {"anonymous", "failed", "unavailable"}
      BY <2>8, <3>1, TryInv DEF JInv, TypeOK
    <3>3. n = Len(wellknownList)
      BY <2>1, <3>2, TryAnswer
    <3>4. \A j \in able[c] : j = i
      BY <2>1, <2>5, <2>8, <3>3 DEF Ahead
    <3>5. i \notin able[c]
      BY <2>4, <2>8
    <3> QED
      BY <1>2, <1>4, <3>4, <3>5
  <2> QED
    BY <1>2, <1>4, <2>6, <2>7, <2>8
<1> QED
  BY <1>3, <1>4

LEMMA AbleStep ==
    ASSUME JInv, AInv, Next PROVE AInv'
<1>0. TypeOK /\ Loop
  BY DEF JInv
<1>1. CASE BootStep
  <2>1. boot # "up" /\ UNCHANGED <<at, answer, able>>
    BY <1>1 DEF BootStep, LoadWellKnown, BeginJWKS, LoadKeys, EndNew, clientVars, history
  <2>2. \A c \in Client : able'[c] = {} /\ at'[c] = 0 /\ answer'[c] = "none"
    BY <1>0, <2>1 DEF Loop, AInv
  <2> QED
    BY <2>2 DEF AInv
<1>2. ASSUME NEW j \in Issuer, IssuerStep(j) PROVE AInv'
  <2>1. /\ StillAble /\ UNCHANGED <<token, at, answer, wellknownList, JWKS>>
    BY <1>2 DEF IssuerStep, Publish, Flip, Refresh, clientVars, bootVars
  <2>2. Aligned' = Aligned
    BY <2>1 DEF Aligned
  <2>3. ASSUME NEW c \in Client
        PROVE  able'[c] \subseteq able[c] /\ \A i \in able'[c] : Serves(i, token[c])'
    BY <1>0, <2>1, AbleShrinks
  <2>4. \A c \in Client : Ahead(c) => Ahead(c)'
    BY <2>1, <2>3 DEF Ahead
  <2> QED
    BY <2>1, <2>2, <2>3, <2>4, Zenon DEF AInv
<1>3. ASSUME NEW c \in Client, AuthenticateNobody(c) PROVE AInv'
  <2>1. /\ UNCHANGED <<bootVars, published, up, keys, token, at, able>>
        /\ at[c] = 0 /\ answer[c] = "none"
    BY <1>3 DEF AuthenticateNobody, history
  <2>2. \A d \in Client \ {c} : answer'[d] = answer[d]
    BY <1>0, <1>3 DEF TypeOK, AuthenticateNobody
  <2>3. Aligned' = Aligned /\ \A d \in Client : Ahead(d)' = Ahead(d)
    BY <2>1 DEF Aligned, Ahead, bootVars
  <2>4. \A i, t : Serves(i, t)' = Serves(i, t)
    BY <2>1 DEF Serves, Fetchable
  <2>5. able[c] = {}
    BY <2>1 DEF AInv
  <2>6. \A d \in Client : \A i \in able'[d] : Serves(i, token[d])'
    BY <2>1, <2>4 DEF AInv
  <2>7. ASSUME NEW d \in Client, d # c
        PROVE  /\ at'[d] = 0 /\ answer'[d] = "none" => able'[d] = {}
               /\ Aligned' /\ at'[d] > 0 => Ahead(d)'
               /\ Aligned' /\ answer'[d] \notin {"none", "user"} => able'[d] = {}
    <3>1. /\ at'[d] = at[d] /\ able'[d] = able[d] /\ answer'[d] = answer[d]
          /\ Aligned' = Aligned /\ Ahead(d)' = Ahead(d)
      BY <2>1, <2>2, <2>3, <2>7
    <3> QED
      BY <3>1 DEF AInv
  <2>8. able'[c] = {} /\ Ahead(c)'
    BY <2>1, <2>5 DEF Ahead
  <2> QED
    BY <2>6, <2>7, <2>8, Zenon DEF AInv
<1>4. ASSUME NEW c \in Client, NEW t \in Token, Authenticate(c, t) PROVE AInv'
  <2>1. UNCHANGED <<bootVars, published, up, keys, answer>> /\ answer[c] = "none"
    BY <1>4 DEF Authenticate
  <2>2. /\ token'[c] = t /\ at'[c] = 1 /\ able'[c] = {i \in Listed : Serves(i, t)}
        /\ \A d \in Client \ {c} : token'[d] = token[d] /\ at'[d] = at[d] /\ able'[d] = able[d]
    BY <1>0, <1>4 DEF TypeOK, Authenticate
  <2>3. Aligned' = Aligned /\ \A d \in Client \ {c} : Ahead(d)' = Ahead(d)
    BY <2>1, <2>2 DEF Aligned, Ahead, bootVars
  <2>4. \A i, u : Serves(i, u)' = Serves(i, u)
    BY <2>1 DEF Serves, Fetchable
  <2>5. \A d \in Client : \A i \in able'[d] : Serves(i, token[d])'
    BY <2>2, <2>4 DEF AInv
  <2>6. Ahead(c)'
    BY <2>1, <2>2 DEF Ahead, Listed, bootVars
  <2>7. ASSUME NEW d \in Client, d # c
        PROVE  /\ at'[d] = 0 /\ answer'[d] = "none" => able'[d] = {}
               /\ Aligned' /\ at'[d] > 0 => Ahead(d)'
               /\ Aligned' /\ answer'[d] \notin {"none", "user"} => able'[d] = {}
    <3>1. /\ at'[d] = at[d] /\ able'[d] = able[d] /\ answer'[d] = answer[d]
          /\ Aligned' = Aligned /\ Ahead(d)' = Ahead(d)
      BY <2>1, <2>2, <2>3, <2>7
    <3> QED
      BY <3>1 DEF AInv
  <2>8. at'[c] # 0 /\ answer'[c] = "none"
    BY <2>1, <2>2
  <2> QED
    BY <2>5, <2>6, <2>7, <2>8, Zenon DEF AInv
<1>5. ASSUME NEW c \in Client, TryIssuer(c) PROVE AInv'
  BY <1>5, AbleTry
<1>6. ASSUME NEW c \in Client, Return(c) PROVE AInv'
  <2>1. UNCHANGED <<bootVars, published, up, keys, at>> /\ at[c] = 0
    BY <1>0, <1>6 DEF Return, Loop, TypeOK
  <2>2. /\ able'[c] = {} /\ answer'[c] = "none"
        /\ \A d \in Client \ {c} : /\ token'[d] = token[d] /\ answer'[d] = answer[d]
                                   /\ able'[d] = able[d]
    BY <1>0, <1>6 DEF TypeOK, Return
  <2>3. Aligned' = Aligned /\ \A d \in Client \ {c} : Ahead(d)' = Ahead(d)
    BY <2>1, <2>2 DEF Aligned, Ahead, bootVars
  <2>4. \A i, u : Serves(i, u)' = Serves(i, u)
    BY <2>1 DEF Serves, Fetchable
  <2>5. \A d \in Client : \A i \in able'[d] : Serves(i, token[d])'
    BY <2>2, <2>4 DEF AInv
  <2>6. ASSUME NEW d \in Client, d # c
        PROVE  /\ at'[d] = 0 /\ answer'[d] = "none" => able'[d] = {}
               /\ Aligned' /\ at'[d] > 0 => Ahead(d)'
               /\ Aligned' /\ answer'[d] \notin {"none", "user"} => able'[d] = {}
    <3>1. /\ at'[d] = at[d] /\ able'[d] = able[d] /\ answer'[d] = answer[d]
          /\ Aligned' = Aligned /\ Ahead(d)' = Ahead(d)
      BY <2>1, <2>2, <2>3, <2>6
    <3> QED
      BY <3>1 DEF AInv
  <2>7. Ahead(c)' /\ able'[c] = {}
    BY <2>2 DEF Ahead
  <2> QED
    BY <2>5, <2>6, <2>7, Zenon DEF AInv
<1> QED
  BY <1>1, <1>2, <1>3, <1>4, <1>5, <1>6, NextCases DEF ClientStep

(* A token is accepted if a listed issuer was able to verify it all along, *)
(* as long as the static keys are at their issuers' places in j.JWKS.      *)
THEOREM ValidTokenTheorem == Spec => []ValidTokenAccepted
<1>1. Init => AInv
  <2>1. Init => \A c \in Client : able[c] = {} /\ at[c] = 0 /\ answer[c] = "none"
    BY DEF Init
  <2> QED
    BY <2>1 DEF AInv
<1>2. JInv /\ AInv /\ [Next]_vars => AInv'
  <2>1. ASSUME AInv, UNCHANGED vars PROVE AInv'
    <3>1. UNCHANGED <<wellknownList, JWKS, published, up, keys, token, at, answer, able>>
      BY <2>1 DEF vars, bootVars, clientVars, history
    <3>2. Aligned' = Aligned /\ \A d \in Client : Ahead(d)' = Ahead(d)
      BY <3>1 DEF Aligned, Ahead
    <3>3. \A i, u : Serves(i, u)' = Serves(i, u)
      BY <3>1 DEF Serves, Fetchable
    <3> QED
      BY <2>1, <3>1, <3>2, <3>3 DEF AInv
  <2> QED
    BY <2>1, AbleStep
<1>3. AInv => ValidTokenAccepted
  BY DEF AInv, ValidTokenAccepted, IssuersIndependent
<1> QED
  BY <1>1, <1>2, <1>3, TypeTheorem, PTL DEF Spec

-----------------------------------------------------------------------------
(* The two lists have the same issuer at each place.                       *)
SamePlaces == \A m \in 1..Len(JWKS) : JWKS[m] = wellknownList[m]

(* LoadJWKS skips an issuer for good, so the lists agree as long as it has *)
(* skipped none, and JWKS is the shorter one from then on.                 *)
Places ==
    /\ boot = "jwks" =>
         /\ Len(JWKS) < next /\ next <= Len(wellknownList) + 1
         /\ Len(JWKS) + 1 = next => SamePlaces
    /\ boot \in {"up", "exit"} =>
         /\ Len(JWKS) <= Len(wellknownList)
         /\ Len(JWKS) = Len(wellknownList) => SamePlaces

LEMMA PlacesStep ==
    ASSUME JInv, Places, [Next]_vars PROVE Places'
<1>0. /\ TypeOK /\ Loop /\ next \in Nat \ {0}
      /\ wellknownList \in Seq(Issuer) /\ JWKS \in Seq(Issuer)
      /\ Len(wellknownList) \in Nat /\ Len(JWKS) \in Nat
  BY DEF JInv, TypeOK
<1>1. CASE LoadWellKnown
  BY <1>1 DEF LoadWellKnown, Places
<1>2. CASE BeginJWKS
  <2>1. boot' = "jwks" /\ next' = 1 /\ JWKS' = <<>> /\ wellknownList' = wellknownList
    BY <1>0, <1>2 DEF BeginJWKS, Loop
  <2> QED
    BY <1>0, <2>1 DEF Places, SamePlaces
<1>3. CASE LoadKeys
  <2>1. /\ boot = "jwks" /\ boot' = "jwks" /\ next' = next + 1 /\ next <= Len(wellknownList)
        /\ wellknownList' = wellknownList
        /\ JWKS' = JWKS \/ JWKS' = Append(JWKS, wellknownList[next])
    BY <1>3 DEF LoadKeys
  <2>2. CASE JWKS' = JWKS
    <3>1. Len(JWKS) < next
      BY <2>1 DEF Places
    <3>2. Len(JWKS) < next + 1 /\ Len(JWKS) + 1 # next + 1 /\ next + 1 <= Len(wellknownList) + 1
      BY <1>0, <2>1, <3>1
    <3> QED
      BY <2>1, <2>2, <3>2, Zenon DEF Places
  <2>3. CASE JWKS' = Append(JWKS, wellknownList[next])
    <3>1. Len(JWKS') = Len(JWKS) + 1
      BY <1>0, <2>3
    <3>2. ASSUME Len(JWKS) + 1 = next PROVE SamePlaces'
      <4>1. SamePlaces
        BY <2>1, <3>2 DEF Places
      <4> QED
        BY <1>0, <2>1, <2>3, <3>2, <4>1 DEF SamePlaces
    <3> QED
      BY <1>0, <2>1, <3>1, <3>2 DEF Places
  <2> QED
    BY <2>1, <2>2, <2>3
<1>4. CASE EndNew
  <2>1. /\ boot = "jwks" /\ next > Len(wellknownList) /\ boot' \in {"up", "exit"}
        /\ JWKS' = JWKS /\ wellknownList' = wellknownList
    BY <1>4 DEF EndNew
  <2>2. /\ Len(JWKS) < next /\ next <= Len(wellknownList) + 1
        /\ Len(JWKS) + 1 = next => SamePlaces
    BY <2>1 DEF Places
  <2>3. /\ Len(JWKS) <= Len(wellknownList)
        /\ Len(JWKS) = Len(wellknownList) => SamePlaces
    BY <1>0, <2>1, <2>2
  <2>4. SamePlaces => SamePlaces'
    BY <2>1 DEF SamePlaces
  <2>5. boot' # "jwks"
    BY <2>1
  <2> QED
    BY <2>1, <2>3, <2>4, <2>5, Zenon DEF Places
<1>5. CASE UNCHANGED bootVars
  BY <1>5 DEF bootVars, Places, SamePlaces
<1>6. (\E i \in Issuer : IssuerStep(i)) \/ (\E c \in Client : ClientStep(c)) \/ UNCHANGED vars
        => UNCHANGED bootVars
  BY Zenon DEF IssuerStep, Publish, Flip, Refresh, ClientStep, AuthenticateNobody, Authenticate,
               TryIssuer, Return, vars
<1> QED
  BY <1>1, <1>2, <1>3, <1>4, <1>5, <1>6, NextCases, Zenon DEF BootStep

(* Every listed issuer has its key set, or none has its keys in a file.    *)
NoneSkipped == Len(JWKS) = Len(wellknownList) \/ Listed \subseteq Http

(* "Failed JWK fetch from one provider doesn't block others"               *)
(* (.specs/PRD.md) where it holds: if New could load every key set, or if  *)
(* all the issuers are servers, which may have been down at start-up, then *)
(* a token that some listed issuer was able to verify all along is         *)
(* accepted, with no further condition.                                    *)
THEOREM IndependenceTheorem == Spec => [](NoneSkipped => IssuersIndependent)
<1>1. Init => Places
  BY DEF Init, Places
<1>2. JInv /\ Places /\ ValidTokenAccepted => (NoneSkipped => IssuersIndependent)
  <2> SUFFICES ASSUME JInv, Places, ValidTokenAccepted, NoneSkipped
               PROVE  IssuersIndependent
    OBVIOUS
  <2>1. CASE boot # "up"
    BY <2>1 DEF JInv, Loop, IssuersIndependent
  <2>2. CASE boot = "up"
    <3>1. Aligned
      <4>1. CASE Listed \subseteq Http
        BY <4>1 DEF Listed, Http, Aligned
      <4>2. CASE Len(JWKS) = Len(wellknownList)
        <5>1. SamePlaces
          BY <2>2, <4>2 DEF Places
        <5>2. Len(JWKS) \in Nat
          BY DEF JInv, TypeOK
        <5> QED
          BY <4>2, <5>1, <5>2 DEF SamePlaces, Aligned
      <4> QED
        BY <4>1, <4>2 DEF NoneSkipped
    <3> QED
      BY <3>1 DEF ValidTokenAccepted
  <2> QED
    BY <2>1, <2>2
<1> QED
  BY <1>1, <1>2, PlacesStep, TypeTheorem, ValidTokenTheorem, PTL DEF Spec
=============================================================================

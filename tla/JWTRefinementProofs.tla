------------------------- MODULE JWTRefinementProofs -------------------------
(***************************************************************************)
(* The proof that JWT implements AuthProvider, for any number of issuers,  *)
(* key sets, tokens and requests.                                          *)
(***************************************************************************)
EXTENDS JWTProofs

(* Every key set in use holds keys that its issuer has published.          *)
KInv ==
    /\ Genuine(published) \subseteq vouched
    /\ \A i \in Issuer : keys[i] # NoKeys =>
            \A t \in Token : Verifies(t, keys[i]) => t \in vouched
    /\ \A n \in 1..Len(JWKS) : keys[JWKS[n]] # NoKeys
    /\ \A c \in Client : at[c] = 0 /\ answer[c] = "none" => token[c] = NoToken

(* What PostFetch makes of a published set verifies genuine tokens only.   *)
LEMMA FetchedGenuine ==
    ASSUME NEW pub, NEW i \in Issuer, NEW t \in Token, Verifies(t, PostFetch(i, pub[i]))
    PROVE  t \in Genuine(pub)
<1> DEFINE algs == Supported[i]
<1>0. algs \in Seq(STRING)
  BY JWTAssumption
<1>1. PICK r \in pub[i] :
        /\ r.alg # NoAlg \/ Len(algs) > 0
        /\ r.id = t.key
        /\ (IF r.alg = NoAlg THEN algs[Len(algs)] ELSE r.alg) = t.alg
  BY DEF Verifies, PostFetch
<1>2. CASE r.alg = NoAlg
  <2>1. Len(algs) \in 1..Len(algs)
    BY <1>0, <1>1, <1>2
  <2>2. algs[Len(algs)] = t.alg
    BY <1>1, <1>2
  <2> QED
    BY <1>1, <1>2, <2>1, <2>2 DEF Verifies, Genuine
<1>3. CASE r.alg # NoAlg
  BY <1>1, <1>3 DEF Verifies, Genuine
<1> QED
  BY <1>2, <1>3

LEMMA FetchKeeps ==
    ASSUME JInv, KInv, NEW i \in Issuer, Fetch(i), vouched' = vouched,
           NEW j \in Issuer
    PROVE  /\ keys[j] # NoKeys => keys'[j] # NoKeys
           /\ keys'[i] # NoKeys
           /\ keys'[j] # NoKeys => \A t \in Token : Verifies(t, keys'[j]) => t \in vouched'
<1>1. keys \in [Issuer -> KeySet \cup {NoKeys}]
  BY DEF JInv, TypeOK
<1>2. PostFetch(i, published[i]) # NoKeys
  BY FetchedSet, NoKeysAssumption DEF JInv
<1>3. keys'[j] = IF j = i THEN PostFetch(i, published[i]) ELSE keys[j]
  BY <1>1 DEF Fetch
<1>4. keys'[i] = PostFetch(i, published[i])
  BY <1>1 DEF Fetch
<1>5. CASE j = i
  BY <1>2, <1>4, <1>5, FetchedGenuine DEF KInv
<1>6. CASE j # i
  BY <1>2, <1>3, <1>4, <1>6 DEF KInv
<1> QED
  BY <1>5, <1>6

LEMMA KeysFetch ==
    ASSUME JInv, KInv, NEW i \in Issuer, Fetch(i), UNCHANGED <<vouched, published, JWKS>>
    PROVE  /\ Genuine(published)' \subseteq vouched'
           /\ \A j \in Issuer : keys'[j] # NoKeys =>
                    \A t \in Token : Verifies(t, keys'[j]) => t \in vouched'
           /\ \A n \in 1..Len(JWKS') : keys'[JWKS'[n]] # NoKeys
<1>1. Genuine(published)' = Genuine(published)
  BY DEF Genuine
<1>2. \A n \in 1..Len(JWKS) : JWKS[n] \in Issuer
  BY Element DEF JInv, TypeOK
<1> QED
  BY <1>1, <1>2, FetchKeeps, Zenon DEF KInv

(* Steps that change neither the keys nor what is published.               *)
LEMMA KeysSame ==
    ASSUME KInv, UNCHANGED <<vouched, published, JWKS, keys>>,
           \A c \in Client : at'[c] = 0 /\ answer'[c] = "none" => token'[c] = NoToken
    PROVE  KInv'
BY DEF KInv, Genuine, Verifies

LEMMA KeysBoot ==
    ASSUME JInv, KInv, BootStep PROVE KInv'
<1>1. UNCHANGED <<published, vouched, token, at, answer>>
  BY Zenon DEF BootStep, LoadWellKnown, BeginJWKS, LoadKeys, EndNew, clientVars, history
<1>2. CASE UNCHANGED <<JWKS, keys>>
  BY <1>1, <1>2, KeysSame, Zenon DEF KInv
<1>3. ASSUME NEW i, i = wellknownList[next], LoadKeys, JWKS' = Append(JWKS, i), Fetch(i)
      PROVE  KInv'
  <2>1. next \in 1..Len(wellknownList) /\ wellknownList \in Seq(Issuer) /\ JWKS \in Seq(Issuer)
    BY <1>3 DEF JInv, TypeOK, LoadKeys
  <2>2. i \in Issuer
    BY <1>3, <2>1, Element
  <2>3. \A n \in 1..Len(JWKS) : JWKS[n] \in Issuer
    BY <2>1, Element
  <2>4. \A n \in 1..Len(JWKS') : (n \in 1..Len(JWKS) /\ JWKS'[n] = JWKS[n]) \/ JWKS'[n] = i
    BY <1>3, <2>1
  <2>5. \A n \in 1..Len(JWKS') : keys'[JWKS'[n]] # NoKeys
    BY <1>1, <1>3, <2>2, <2>3, <2>4, FetchKeeps, Zenon DEF KInv
  <2>6. \A j \in Issuer : keys'[j] # NoKeys =>
            \A t \in Token : Verifies(t, keys'[j]) => t \in vouched'
    BY <1>1, <1>3, <2>2, FetchKeeps
  <2>7. Genuine(published)' = Genuine(published)
    BY <1>1 DEF Genuine
  <2> QED
    BY <1>1, <2>5, <2>6, <2>7, Zenon DEF KInv, Verifies
<1> QED
  BY <1>2, <1>3 DEF BootStep, LoadWellKnown, BeginJWKS, LoadKeys, EndNew, Fetch

LEMMA KeysStep ==
    ASSUME JInv, KInv, Next PROVE KInv'
<1>0. TypeOK /\ Loop
  BY DEF JInv
<1>1. CASE BootStep
  BY <1>1, KeysBoot
<1>2. ASSUME NEW i \in Issuer, IssuerStep(i) PROVE KInv'
  <2>1. UNCHANGED <<JWKS, token, at, answer>>
    BY <1>2 DEF IssuerStep, Publish, Flip, Refresh, clientVars, bootVars
  <2>2. ASSUME NEW ks \in Published[i], Publish(i, ks) PROVE KInv'
    <3>1. keys' = keys /\ vouched' = vouched \cup Genuine(published')
      BY <2>2 DEF Publish
    <3>2. Genuine(published') = Genuine(published)'
      BY DEF Genuine
    <3> QED
      BY <2>1, <3>1, <3>2 DEF KInv, Verifies
  <2>3. CASE Flip(i)
    BY <2>1, <2>3, KeysSame DEF Flip, KInv
  <2>4. CASE Refresh(i)
    BY <2>1, <2>4, KeysFetch DEF Refresh, KInv, Verifies
  <2> QED
    BY <1>2, <2>2, <2>3, <2>4 DEF IssuerStep
<1>3. ASSUME NEW c \in Client, ClientStep(c) PROVE KInv'
  <2>1. CASE AuthenticateNobody(c)
    <3>1. answer'[c] # "none" /\ \A d \in Client \ {c} : answer'[d] = answer[d]
      BY <1>0, <2>1, Zenon DEF TypeOK, AuthenticateNobody, HandleFailure
    <3> QED
      BY <2>1, <3>1, KeysSame, Zenon DEF AuthenticateNobody, KInv, bootVars, history
  <2>2. ASSUME NEW t \in Token, Authenticate(c, t) PROVE KInv'
    <3>1. at'[c] # 0 /\ \A d \in Client \ {c} : at'[d] = at[d] /\ token'[d] = token[d]
      BY <1>0, <2>2 DEF TypeOK, Authenticate
    <3> QED
      BY <2>2, <3>1, KeysSame, Zenon DEF Authenticate, KInv, bootVars
  <2>3. CASE TryIssuer(c)
    <3>1. UNCHANGED <<vouched, published, JWKS, token>>
      BY <2>3 DEF TryIssuer, bootVars
    <3>2. ~(at'[c] = 0 /\ answer'[c] = "none")
      <4>1. ASSUME NEW e, Moves(c, e) PROVE at'[c] # 0
        BY <1>0, <4>1 DEF Moves, TypeOK
      <4>2. ASSUME NEW a \in Final, Finish(c, a) PROVE answer'[c] # "none"
        BY <1>0, <4>2 DEF Finish, Final, TypeOK
      <4> QED
        BY <2>3, <4>1, <4>2, TryEnds
    <3>3. \A d \in Client : at'[d] = 0 /\ answer'[d] = "none" => token'[d] = NoToken
      BY <2>3, <3>1, <3>2, TryOthers DEF KInv
    <3>4. keys' = keys \/ Fetch(wellknownList[at[c]])
      BY <2>3, Zenon DEF TryIssuer
    <3>5. wellknownList[at[c]] \in Issuer
      BY <2>3, InLoop
    <3>6. CASE keys' = keys
      BY <3>1, <3>3, <3>6, KeysSame
    <3>7. CASE Fetch(wellknownList[at[c]])
      BY <3>1, <3>3, <3>5, <3>7, KeysFetch DEF KInv, Verifies
    <3> QED
      BY <3>4, <3>6, <3>7
  <2>4. CASE Return(c)
    <3>1. token'[c] = NoToken
      BY <1>0, <2>4, Zenon DEF TypeOK, Return
    <3>2. \A d \in Client \ {c} : answer'[d] = answer[d] /\ token'[d] = token[d]
      BY <1>0, <2>4 DEF TypeOK, Return
    <3> QED
      BY <2>4, <3>1, <3>2, KeysSame, Zenon DEF Return, KInv, bootVars
  <2> QED
    BY <1>3, <2>1, <2>2, <2>3, <2>4 DEF ClientStep
<1> QED
  BY <1>1, <1>2, <1>3, NextCases

(* Authenticate returns: one step of the abstract specification.           *)
LEMMA SimulateAnswer ==
    ASSUME TypeOK, NEW c \in Client, NEW a \in AP!Answer, NEW k \in Token \cup {NoToken},
           answer[c] = "none", answer' = [answer EXCEPT ![c] = a],
           \A d \in Client : token'[d] = token[d], token[c] = k, UNCHANGED vouched,
           a = "user" => k \in vouched,
           a = "anonymous" => k = NoToken \/ Permissive
    PROVE  AP!Next
<1>1. answer'[c] = a /\ \A d \in Client \ {c} : answer'[d] = answer[d]
  BY DEF TypeOK
<1>2. Returned[c] = "none"
  BY DEF Returned
<1>3. a \notin {"none", "panic"}
  BY DEF AP!Answer
<1>4. Returned' = [Returned EXCEPT ![c] = a]
  BY <1>1, <1>3, Zenon DEF Returned
<1>5. Presented' = [Presented EXCEPT ![c] = k]
  BY <1>1, <1>3, Zenon DEF Presented
<1>6. AP!Authenticate(c, k, a)
  BY <1>2, <1>4, <1>5 DEF AP!Authenticate
<1> QED
  BY <1>6 DEF AP!Next

(* A step that returns no answer and forgets none.                         *)
LEMMA SimulateNothing ==
    ASSUME UNCHANGED vouched,
           \A d \in Client :
                \/ answer'[d] = answer[d] /\ token'[d] = token[d]
                \/ answer[d] \in {"none", "panic"} /\ answer'[d] \in {"none", "panic"}
    PROVE  UNCHANGED AP!vars
<1>1. Returned' = Returned
  BY DEF Returned
<1>2. Presented' = Presented
  BY DEF Presented
<1> QED
  BY <1>1, <1>2 DEF AP!vars

LEMMA SimulateTry ==
    ASSUME JInv, KInv, NEW c \in Client, TryIssuer(c) PROVE [AP!Next]_AP!vars
<1> DEFINE n == at[c]
           i == wellknownList[n]
<1>0. TypeOK /\ UNCHANGED <<token, vouched>>
  BY Zenon DEF JInv, TryIssuer
<1>1. /\ n \in 1..Len(wellknownList) /\ i \in Issuer /\ answer[c] = "none"
      /\ n <= Len(JWKS) => JWKS[n] \in Issuer /\ token[c] \in Token
      /\ token[c] \in Token
  BY InLoop
<1>2. ASSUME NEW e, Moves(c, e) PROVE UNCHANGED AP!vars
  BY <1>0, <1>2, SimulateNothing DEF Moves
<1>3. ASSUME Finish(c, "panic") PROVE UNCHANGED AP!vars
  <2>1. answer'[c] = "panic" /\ \A d \in Client \ {c} : answer'[d] = answer[d]
    BY <1>0, <1>3 DEF TypeOK, Finish
  <2> QED
    BY <1>0, <1>1, <2>1, SimulateNothing
<1>4. ASSUME NEW a \in Final \ {"panic"}, Finish(c, a) PROVE AP!Next
  <2>1. answer'[c] = a /\ answer' = [answer EXCEPT ![c] = a]
    BY <1>0, <1>4 DEF TypeOK, Finish
  <2>2. a \in AP!Answer
    BY DEF Final, AP!Answer
  <2>3. ASSUME a = "user" PROVE token[c] \in vouched
    <3>1. CASE n <= Len(JWKS) /\ Verifies(token[c], keys[JWKS[n]])
      <4>0. n \in Nat /\ n > 0 /\ Len(JWKS) \in Nat
        <5>1. wellknownList \in Seq(Issuer) /\ JWKS \in Seq(Issuer)
          BY <1>0 DEF TypeOK
        <5> HIDE DEF n, i
        <5> QED
          BY <1>1, <5>1
      <4>1. n \in 1..Len(JWKS)
        BY <3>1, <4>0
      <4> QED
        BY <1>1, <3>1, <4>1, Zenon DEF KInv
    <3>2. CASE keys[i] # NoKeys /\ Verifies(token[c], keys[i])
      BY <1>1, <3>2 DEF KInv
    <3>3. CASE Verifies(token[c], PostFetch(i, published[i]))
      BY <1>1, <3>3, FetchedGenuine DEF KInv
    <3> QED
      BY <2>1, <2>3, <3>1, <3>2, <3>3, TryAnswer, Zenon
  <2>4. a = "anonymous" => Permissive
    BY <2>1, TryAnswer
  <2> QED
    BY <1>0, <1>1, <2>1, <2>2, <2>3, <2>4, SimulateAnswer, Zenon
<1> QED
  BY <1>2, <1>3, <1>4, TryEnds

LEMMA SimulateStep ==
    ASSUME JInv, KInv, Next PROVE [AP!Next]_AP!vars
<1>0. TypeOK /\ Loop
  BY DEF JInv
<1>1. CASE BootStep
  <2>1. UNCHANGED <<vouched, token, answer>>
    BY <1>1, Zenon DEF BootStep, LoadWellKnown, BeginJWKS, LoadKeys, EndNew, clientVars, history
  <2> QED
    BY <2>1, SimulateNothing
<1>2. ASSUME NEW i \in Issuer, IssuerStep(i) PROVE [AP!Next]_AP!vars
  <2>1. UNCHANGED <<token, answer>>
    BY <1>2 DEF IssuerStep, Publish, Flip, Refresh, clientVars
  <2>2. CASE UNCHANGED vouched
    BY <2>1, <2>2, SimulateNothing
  <2>3. ASSUME NEW ks \in Published[i], Publish(i, ks) PROVE AP!Next
    <3>1. vouched \subseteq vouched'
      BY <2>3 DEF Publish
    <3>2. vouched' \in SUBSET Token
      BY <1>0, <2>3 DEF TypeOK, Publish, Genuine
    <3>3. Returned' = Returned /\ Presented' = Presented
      BY <2>1 DEF Returned, Presented
    <3>4. AP!Vouch
      BY <3>1, <3>2, <3>3 DEF AP!Vouch
    <3> QED
      BY <3>4 DEF AP!Next
  <2> QED
    BY <1>2, <2>2, <2>3 DEF IssuerStep, Flip, Refresh
<1>3. ASSUME NEW c \in Client, AuthenticateNobody(c) PROVE AP!Next
  <2>1. PICK a \in {"anonymous", HandleFailure} : answer' = [answer EXCEPT ![c] = a]
    BY <1>3, Zenon DEF AuthenticateNobody
  <2>2. a \in AP!Answer /\ a # "user"
    BY DEF AP!Answer, HandleFailure
  <2>3. /\ answer[c] = "none" /\ token[c] = NoToken /\ UNCHANGED <<token, vouched>>
    BY <1>3 DEF AuthenticateNobody, KInv, history
  <2> QED
    BY <1>0, <2>1, <2>2, <2>3, SimulateAnswer, Zenon
<1>4. ASSUME NEW c \in Client, NEW t \in Token, Authenticate(c, t) PROVE UNCHANGED AP!vars
  <2>1. /\ UNCHANGED <<answer, vouched>> /\ answer[c] = "none"
        /\ \A d \in Client \ {c} : token'[d] = token[d]
    BY <1>0, <1>4 DEF TypeOK, Authenticate
  <2> QED
    BY <2>1, SimulateNothing
<1>5. ASSUME NEW c \in Client, TryIssuer(c) PROVE [AP!Next]_AP!vars
  BY <1>5, SimulateTry
<1>6. ASSUME NEW c \in Client, Return(c) PROVE [AP!Next]_AP!vars
  <2>1. /\ vouched' = vouched /\ answer'[c] = "none"
        /\ \A d \in Client \ {c} : answer'[d] = answer[d] /\ token'[d] = token[d]
    BY <1>0, <1>6 DEF TypeOK, Return
  <2>2. CASE answer[c] = "panic"
    BY <2>1, <2>2, SimulateNothing
  <2>3. CASE answer[c] # "panic"
    <3>1. Returned[c] # "none"
      BY <1>6, <2>3 DEF Returned, Return
    <3>2. Returned' = [Returned EXCEPT ![c] = "none"]
      BY <2>1, Zenon DEF Returned
    <3>3. Presented' = [Presented EXCEPT ![c] = NoToken]
      BY <2>1, Zenon DEF Presented
    <3>4. AP!Return(c)
      BY <2>1, <3>1, <3>2, <3>3 DEF AP!Return
    <3> QED
      BY <3>4 DEF AP!Next
  <2> QED
    BY <2>2, <2>3
<1> QED
  BY <1>1, <1>2, <1>3, <1>4, <1>5, <1>6, NextCases DEF ClientStep

(* The token provider implements the contract that the router relies on.   *)
THEOREM RefinementTheorem == Spec => ImplementsAuthProvider
<1>1. Init => KInv
  BY DEF Init, KInv
<1>2. JInv /\ KInv /\ [Next]_vars => KInv'
  <2>1. KInv /\ UNCHANGED vars => KInv'
    BY KeysSame, Zenon DEF KInv, vars, bootVars, clientVars, history
  <2> QED
    BY <2>1, KeysStep
<1>3. Init => AP!Init
  <2> SUFFICES ASSUME Init PROVE AP!Init
    OBVIOUS
  <2>1. vouched \in SUBSET Token
    BY DEF Init, Genuine
  <2>2. Presented = [c \in Client |-> NoToken] /\ Returned = [c \in Client |-> "none"]
    BY DEF Init, Presented, Returned
  <2> QED
    BY <2>1, <2>2 DEF AP!Init
<1>4. JInv /\ KInv /\ [Next]_vars => [AP!Next]_AP!vars
  <2>1. UNCHANGED vars => UNCHANGED AP!vars
    BY SimulateNothing DEF vars, clientVars, history
  <2> QED
    BY <2>1, SimulateStep
<1> QED
  BY <1>1, <1>2, <1>3, <1>4, TypeTheorem, PTL DEF Spec, ImplementsAuthProvider, AP!Spec
=============================================================================

--------------------------- MODULE BasicAuthProofs ---------------------------
(***************************************************************************)
(* Proofs about BasicAuth for any users, passwords, number of requests and *)
(* of changes to the file.                                                 *)
(***************************************************************************)
EXTENDS BasicAuth, TLAPS

-----------------------------------------------------------------------------
(* Type correctness.                                                       *)

(* What stands for no credentials is not a pair.                           *)
LEMMA NoCredNoPair == NoCred \notin Pair
  BY BasicAuthAssumption DEF NoCred, Pair

(* What loadFile makes of a file is a credential map.                      *)
LEMMA ParsedType == ASSUME NEW f PROVE Parsed(f) \in CredMap
  BY DEF Parsed, CredMap

LEMMA NoCredsType == NoCreds \in CredMap
  BY DEF NoCreds, CredMap

(* The steps of the file's owner, the cache and the watcher, none of which *)
(* touches a request, keep the types.                                      *)
LEMMA OthersType ==
    ASSUME TypeOK,
           \/ \E f \in Files : WriteFile(f) \/ ReplaceFile(f)
           \/ ReplaceFile(Missing)
           \/ CacheExpire
           \/ StartWatching
           \/ WatcherStep
    PROVE  TypeOK'
  <1> USE BasicAuthAssumption DEF TypeOK, fileVars, watchVars, authVars
  <1>1. CASE \E f \in Files : WriteFile(f)
    BY <1>1 DEF WriteFile
  <1>2. CASE \E f \in Files \cup {Missing} : ReplaceFile(f)
    <2>1. file' \in Files \cup {Missing}
      BY <1>2, Zenon DEF ReplaceFile
    <2>2. watched' \in BOOLEAN /\ unseen' \in BOOLEAN
      BY <1>2, Zenon DEF ReplaceFile
    <2>3. replaces' \in 0..MaxReplaces
      BY <1>2 DEF ReplaceFile
    <2> QED
      BY <1>2, <2>1, <2>2, <2>3 DEF ReplaceFile
  <1>3. CASE CacheExpire
    BY <1>3 DEF CacheExpire
  <1>4. CASE StartWatching
    <2>1. watched' \in BOOLEAN
      BY <1>4, Zenon DEF StartWatching
    <2> QED
      BY <1>4, <2>1 DEF StartWatching
  <1>5. CASE WatcherTake
    BY <1>5 DEF WatcherTake
  <1>6. CASE WatcherLoad
    <2>0. Parsed(file) \in CredMap
      BY ParsedType
    <2>1. loaded' \in CredMap
      BY <1>6, <2>0, Zenon DEF WatcherLoad
    <2>2. unseen' \in BOOLEAN
      BY <1>6, Zenon DEF WatcherLoad
    <2> QED
      BY <1>6, <2>1, <2>2 DEF WatcherLoad
  <1>7. CASE WatcherStore
    BY <1>7 DEF WatcherStore, Matching
  <1>8. CASE WatcherClear
    BY <1>8, NoCredsType DEF WatcherClear
  <1> QED
    BY <1>1, <1>2, <1>3, <1>4, <1>5, <1>6, <1>7, <1>8 DEF WatcherStep

(* The steps of a request keep the types.                                  *)
LEMMA RequestType ==
    ASSUME TypeOK, NEW c \in Client,
           \/ AuthenticateNobody(c)
           \/ \E k \in Pair : Authenticate(c, k)
           \/ Verify(c)
           \/ Return(c)
    PROVE  TypeOK'
  <1> USE DEF TypeOK, fileVars, watchVars, authVars, Finish
  <1>1. CASE AuthenticateNobody(c)
    BY <1>1, Zenon DEF AuthenticateNobody, HandleFailure
  <1>2. ASSUME NEW k \in Pair, Authenticate(c, k) PROVE TypeOK'
    <2>1. creds[k.user] \in Password \cup {None}
      BY DEF Pair, CredMap
    <2>2. <<creds, wpc>> \in CredMap \X {"wait", "load", "store", "clear"}
      OBVIOUS
    <2> QED
      BY <1>2, <2>1, <2>2, Zenon DEF Authenticate, HandleFailure
  <1>3. CASE CacheGet(c)
    BY <1>3, Zenon DEF CacheGet
  <1>4. CASE Compare(c)
    BY <1>4 DEF Compare
  <1>5. CASE CacheSet(c)
    <2> DEFINE key == CacheKey(cred[c].user, cred[c].password)
    <2>1. key \in Pair
      BY <1>5 DEF CacheKey, Pair, CacheSet
    <2>2. cache' \subseteq Pair \X BOOLEAN
      <3>1. <<key, match[c]>> \in Pair \X BOOLEAN
        BY <2>1
      <3> HIDE DEF key
      <3> QED
        BY <1>5, <3>1 DEF CacheSet, key
    <2> QED
      BY <1>5, <2>2 DEF CacheSet
  <1>6. CASE Return(c)
    BY <1>6, NoCredsType DEF Return
  <1> QED
    BY <1>1, <1>2, <1>3, <1>4, <1>5, <1>6 DEF Verify

LEMMA TypeInit == Init => TypeOK
  <1> SUFFICES ASSUME Init PROVE TypeOK
    OBVIOUS
  <1>1. Parsed(file) \in CredMap
    BY ParsedType
  <1>2. file \in Files /\ everValid \subseteq Pair
    BY DEF Init, Matching
  <1>3. /\ pc \in [Client -> {"idle", "cached", "compare", "set", "done"}]
        /\ cred \in [Client -> Pair \cup {NoCred}]
        /\ hash \in [Client -> Password \cup {None}]
        /\ match \in [Client -> BOOLEAN]
        /\ atStart \in [Client -> CredMap \X {"wait", "load", "store", "clear"}]
        /\ result \in [Client -> {"none", "anonymous", "failed", "user"}]
    BY NoCredsType DEF Init
  <1>4. watched \in BOOLEAN /\ unseen \in BOOLEAN /\ booted \in BOOLEAN
    BY Zenon DEF Init
  <1>5. writes \in 0..MaxWrites /\ replaces \in 0..MaxReplaces /\ pending \in Nat
    BY BasicAuthAssumption DEF Init
  <1>6. loaded \in CredMap /\ creds \in CredMap /\ cache \subseteq Pair \X BOOLEAN
    BY <1>1, NoCredsType DEF Init
  <1> QED
    BY <1>2, <1>3, <1>4, <1>5, <1>6 DEF Init, TypeOK

LEMMA TypeStep == TypeOK /\ [Next]_vars => TypeOK'
  <1> SUFFICES ASSUME TypeOK, [Next]_vars PROVE TypeOK'
    OBVIOUS
  <1>1. CASE UNCHANGED vars
    BY <1>1 DEF vars, fileVars, watchVars, authVars, TypeOK
  <1> QED
    BY <1>1, OthersType, RequestType DEF Next

(* The state of basicauth keeps its types: the watcher never publishes     *)
(* anything but a credential map of usable hashes.                         *)
THEOREM BasicAuthTypeCorrect == Spec => []TypeOK
  BY TypeInit, TypeStep, PTL DEF Spec

-----------------------------------------------------------------------------
(* Who is authenticated.                                                   *)

(* What each place in Authenticate knows about the request's credentials:  *)
(* the hash it carries was in a map that was in effect, and the user was   *)
(* known to the map the request loaded.                                    *)
RequestValid(c) ==
    /\ pc[c] \in {"cached", "compare"}
         => [user |-> cred[c].user, password |-> hash[c]] \in everValid
    /\ pc[c] = "set" /\ match[c] => cred[c] \in everValid
    /\ result[c] = "user" => cred[c] \in everValid
    /\ pc[c] \in {"cached", "compare", "set"} => atStart[c][1][cred[c].user] # None
    /\ result[c] = "user" => atStart[c][1][cred[c].user] # None
    /\ pc[c] # "done" => result[c] = "none"
    /\ pc[c] = "idle" => cred[c] = NoCred

(* A cached acceptance, and the map in effect, hold nothing but pairs that *)
(* are or were valid.                                                      *)
SharedValid ==
    /\ \A k \in Pair : <<k, TRUE>> \in cache => k \in everValid
    /\ Matching(creds) \subseteq everValid

ValidInv == TypeOK /\ SharedValid /\ \A c \in Client : RequestValid(c)

(* The history of valid pairs only grows, so what a request knows lasts.   *)
LEMMA RequestKept ==
    ASSUME NEW c \in Client, RequestValid(c), everValid \subseteq everValid',
           pc'[c] = pc[c], cred'[c] = cred[c], hash'[c] = hash[c], match'[c] = match[c],
           atStart'[c] = atStart[c], result'[c] = result[c]
    PROVE  RequestValid(c)'
  BY DEF RequestValid

(* The file's owner, the cache's TTL and the watcher.                      *)
LEMMA OthersValid ==
    ASSUME ValidInv,
           \/ \E f \in Files : WriteFile(f) \/ ReplaceFile(f)
           \/ ReplaceFile(Missing)
           \/ CacheExpire
           \/ StartWatching
           \/ WatcherStep
    PROVE  SharedValid' /\ \A c \in Client : RequestValid(c)'
  <1>1. UNCHANGED authVars /\ everValid \subseteq everValid'
    BY Zenon DEF WatcherStep, WriteFile, ReplaceFile, CacheExpire, StartWatching, WatcherTake,
           WatcherLoad, WatcherStore, WatcherClear
  <1>2. \A c \in Client : RequestValid(c)'
    BY <1>1, RequestKept DEF ValidInv, authVars
  <1>3. cache' \subseteq cache
    BY Zenon DEF WatcherStep, WriteFile, ReplaceFile, CacheExpire, StartWatching, WatcherTake,
           WatcherLoad, WatcherStore, WatcherClear
  <1>4. Matching(creds)' \subseteq everValid'
    <2>1. CASE WatcherStore
      BY <2>1 DEF WatcherStore, Matching
    <2>2. CASE UNCHANGED creds
      BY <2>2, <1>1 DEF ValidInv, SharedValid, Matching
    <2> QED
      BY <2>1, <2>2, Zenon DEF WatcherStep, WriteFile, ReplaceFile, CacheExpire, StartWatching,
           WatcherTake, WatcherLoad, WatcherClear
  <1> QED
    BY <1>1, <1>2, <1>3, <1>4, Zenon DEF ValidInv, SharedValid

(* A step of request c leaves the other requests alone.                    *)
LEMMA OtherRequests ==
    ASSUME ValidInv, NEW c \in Client, NEW d \in Client, c # d,
           \/ AuthenticateNobody(c)
           \/ \E k \in Pair : Authenticate(c, k)
           \/ Verify(c)
           \/ Return(c)
    PROVE  RequestValid(d)'
  <1>1. everValid' = everValid
    BY Zenon DEF AuthenticateNobody, Authenticate, Verify, CacheGet, Compare, CacheSet, Return
  <1>2. /\ pc'[d] = pc[d] /\ cred'[d] = cred[d] /\ hash'[d] = hash[d]
        /\ match'[d] = match[d] /\ atStart'[d] = atStart[d] /\ result'[d] = result[d]
    <2> USE DEF ValidInv, TypeOK, Finish
    <2>1. CASE AuthenticateNobody(c)
      BY <2>1 DEF AuthenticateNobody
    <2>2. CASE \E k \in Pair : Authenticate(c, k)
      BY <2>2 DEF Authenticate
    <2>3. CASE CacheGet(c)
      BY <2>3, Zenon DEF CacheGet
    <2>4. CASE Compare(c)
      BY <2>4 DEF Compare
    <2>5. CASE CacheSet(c)
      BY <2>5, Zenon DEF CacheSet
    <2>6. CASE Return(c)
      BY <2>6 DEF Return
    <2> QED
      BY <2>1, <2>2, <2>3, <2>4, <2>5, <2>6 DEF Verify
  <1> QED
    BY <1>1, <1>2, RequestKept DEF ValidInv

(* A request that is refused, and one whose user is known.                 *)
LEMMA RefusedValid ==
    ASSUME NEW c \in Client, pc'[c] = "done", result'[c] # "user"
    PROVE  RequestValid(c)'
  BY DEF RequestValid

LEMMA LookedUpValid ==
    ASSUME NEW c \in Client, pc'[c] = "cached", result'[c] = "none",
           [user |-> cred'[c].user, password |-> hash'[c]] \in everValid',
           atStart'[c][1][cred'[c].user] # None
    PROVE  RequestValid(c)'
  BY DEF RequestValid

(* Writing a verdict that is right, or none, keeps the cache right.        *)
LEMMA EntrySetValid ==
    ASSUME SharedValid, NEW key, NEW v \in BOOLEAN, v => key \in everValid,
           \/ cache' = {e \in cache : e[1] # key} \cup {<<key, v>>}
           \/ cache' = cache,
           creds' = creds, everValid' = everValid
    PROVE  SharedValid'
  <1>1. ASSUME NEW k \in Pair, <<k, TRUE>> \in cache' PROVE k \in everValid
    <2>1. \A entry, written : entry \in {e \in cache : e[1] # key} \cup {written}
                                => entry \in cache \/ entry = written
      OBVIOUS
    <2>2. <<k, TRUE>> \in cache \/ <<k, TRUE>> = <<key, v>>
      BY <1>1, <2>1, Zenon
    <2>3. CASE <<k, TRUE>> \in cache
      BY <2>3, Zenon DEF SharedValid
    <2>4. CASE <<k, TRUE>> = <<key, v>>
      <3>1. k = key /\ v = TRUE
        BY <2>4, Zenon
      <3> QED
        BY <3>1
    <2> QED
      BY <2>2, <2>3, <2>4, Zenon
  <1>2. Matching(creds)' \subseteq everValid'
    BY DEF SharedValid, Matching
  <1> QED
    BY <1>1, <1>2, Zenon DEF SharedValid

(* A step of request c.                                                    *)
LEMMA OwnRequest ==
    ASSUME ValidInv, NEW c \in Client,
           \/ AuthenticateNobody(c)
           \/ \E k \in Pair : Authenticate(c, k)
           \/ Verify(c)
           \/ Return(c)
    PROVE  SharedValid' /\ RequestValid(c)'
  <1> USE DEF ValidInv, TypeOK
  <1>0. /\ RequestValid(c)
        /\ pc[c] \in {"cached", "compare", "set"} => cred[c] \in Pair
    OBVIOUS
  <1>1. CASE AuthenticateNobody(c)
    BY <1>1, <1>0, Zenon DEF AuthenticateNobody, HandleFailure, Finish, RequestValid, SharedValid,
       Matching
  <1>2. ASSUME NEW k \in Pair, Authenticate(c, k) PROVE SharedValid' /\ RequestValid(c)'
    <2>1. SharedValid'
      BY <1>2, Zenon DEF Authenticate, SharedValid, Matching
    <2>2. cred'[c] = k /\ atStart'[c][1] = creds
      BY <1>2 DEF Authenticate
    <2>3. CASE creds[k.user] = None
      <3>1. pc'[c] = "done" /\ result'[c] # "user"
        BY <1>2, <2>3 DEF Authenticate, Finish, HandleFailure
      <3> QED
        BY <2>1, <3>1, RefusedValid
    <2>4. CASE creds[k.user] # None
      <3>1. creds[k.user] \in Password /\ k.user \in User
        BY <2>4 DEF CredMap, Pair
      <3>2. [user |-> k.user, password |-> creds[k.user]] \in everValid
        BY <3>1 DEF SharedValid, Matching, Pair
      <3>3. pc'[c] = "cached" /\ hash'[c] = creds[k.user] /\ result'[c] = "none"
        BY <1>2, <2>4, <1>0 DEF Authenticate, RequestValid
      <3> QED
        BY <1>2, <2>1, <2>2, <2>4, <3>2, <3>3, LookedUpValid DEF Authenticate
    <2> QED
      BY <2>1, <2>3, <2>4
  <1>3. CASE CacheGet(c)
    <2>1. SharedValid'
      BY <1>3, Zenon DEF CacheGet, SharedValid, Matching
    <2>0. cred[c] \in Pair
      BY <1>0, <1>3 DEF CacheGet
    <2>2. CacheKey(cred[c].user, cred[c].password) = cred[c]
      BY <2>0 DEF CacheKey, Pair
    <2>3. result'[c] = "user" => cred[c] \in everValid
      BY <1>3, <1>0, <2>0, <2>2, Zenon DEF CacheGet, Finish, RequestValid, SharedValid
    <2> QED
      BY <1>3, <1>0, <2>1, <2>3, Zenon DEF CacheGet, Finish, RequestValid
  <1>4. CASE Compare(c)
    <2>1. SharedValid'
      BY <1>4, Zenon DEF Compare, SharedValid, Matching
    <2>2. hash[c] = cred[c].password => cred[c] \in everValid
      <3>0. cred[c] \in Pair
        BY <1>0, <1>4 DEF Compare
      <3>1. cred[c] = [user |-> cred[c].user, password |-> cred[c].password]
        BY <3>0 DEF Pair
      <3> QED
        BY <1>4, <1>0, <3>1 DEF Compare, RequestValid
    <2>3. match'[c] <=> hash[c] = cred[c].password
      BY <1>4, Zenon DEF Compare
    <2> QED
      BY <1>4, <1>0, <2>1, <2>2, <2>3 DEF Compare, RequestValid
  <1>5. CASE CacheSet(c)
    <2>0. cred[c] \in Pair
      BY <1>0, <1>5 DEF CacheSet
    <2>1. CacheKey(cred[c].user, cred[c].password) = cred[c]
      BY <2>0 DEF CacheKey, Pair
    <2>2. match[c] => cred[c] \in everValid
      BY <1>5, <1>0 DEF CacheSet, RequestValid
    <2>3. SharedValid'
      <3>1. \/ cache' = {e \in cache : e[1] # cred[c]} \cup {<<cred[c], match[c]>>}
            \/ cache' = cache
        BY <1>5, <2>1, Zenon DEF CacheSet
      <3>2. creds' = creds /\ everValid' = everValid
        BY <1>5, Zenon DEF CacheSet
      <3> QED
        BY <2>2, <3>1, <3>2, EntrySetValid
    <2>4. result'[c] = "user" => match[c]
      BY <1>5 DEF CacheSet, Finish
    <2> QED
      BY <1>5, <1>0, <2>2, <2>3, <2>4 DEF CacheSet, Finish, RequestValid
  <1>6. CASE Return(c)
    BY <1>6, <1>0, Zenon DEF Return, RequestValid, SharedValid, Matching
  <1> QED
    BY <1>1, <1>2, <1>3, <1>4, <1>5, <1>6 DEF Verify

LEMMA ValidInit == Init => ValidInv
  BY TypeInit DEF Init, ValidInv, SharedValid, RequestValid

LEMMA ValidStep == ValidInv /\ [Next]_vars => ValidInv'
  <1> SUFFICES ASSUME ValidInv, [Next]_vars PROVE ValidInv'
    OBVIOUS
  <1>1. TypeOK'
    BY TypeStep DEF ValidInv
  <1>2. CASE UNCHANGED vars
    BY <1>1, <1>2, RequestKept, Zenon
       DEF vars, fileVars, watchVars, authVars, ValidInv, SharedValid, Matching
  <1>3. ASSUME NEW c \in Client,
               \/ AuthenticateNobody(c)
               \/ \E k \in Pair : Authenticate(c, k)
               \/ Verify(c)
               \/ Return(c)
        PROVE  ValidInv'
    BY <1>1, <1>3, OwnRequest, OtherRequests DEF ValidInv
  <1> QED
    BY <1>1, <1>2, <1>3, OthersValid DEF Next, ValidInv

LEMMA ValidInvariant == Spec => []ValidInv
  BY ValidInit, ValidStep, PTL DEF Spec

(* A user whom the map loaded at the start of the request does not name is *)
(* not authenticated, whatever is cached.                                  *)
THEOREM RemovedUserRejectedTheorem == Spec => []RemovedUserRejected
  <1>1. ValidInv => RemovedUserRejected
    BY Zenon DEF ValidInv, RequestValid, RemovedUserRejected
  <1> QED
    BY <1>1, ValidInvariant, PTL

-----------------------------------------------------------------------------
(* The credentials follow the file.                                        *)

(* A change the watch saw is on its way through the watcher.               *)
CurrentInv ==
    ~unseen /\ Loadable(file) =>
        \/ pending > 0
        \/ wpc = "load"
        \/ wpc = "store" /\ loaded = Parsed(file)
        \/ wpc \in {"clear", "wait"} /\ creds = Parsed(file)

LEMMA CurrentStep == TypeOK /\ CurrentInv /\ [Next]_vars => CurrentInv'
  <1> SUFFICES ASSUME TypeOK, CurrentInv, [Next]_vars PROVE CurrentInv'
    OBVIOUS
  <1>0. pending \in Nat
    BY DEF TypeOK
  <1>1. ASSUME NEW f, WriteFile(f) PROVE CurrentInv'
    <2>1. CASE watched
      <3>1. pending' = pending + 1
        BY <1>1, <2>1 DEF WriteFile
      <3> QED
        BY <1>0, <3>1 DEF CurrentInv
    <2>2. CASE ~watched
      BY <1>1, <2>2, Zenon DEF WriteFile, CurrentInv
    <2> QED
      BY <2>1, <2>2
  <1>2. ASSUME NEW f, ReplaceFile(f) PROVE CurrentInv'
    BY <1>2 DEF ReplaceFile, CurrentInv
  <1>3. CASE UNCHANGED <<file, unseen, pending, wpc, loaded, creds>>
    BY <1>3 DEF CurrentInv, Loadable, Parsed
  <1>4. CASE WatcherTake
    BY <1>4 DEF WatcherTake, CurrentInv
  <1>5. CASE WatcherLoad
    BY <1>5 DEF WatcherLoad, CurrentInv, Loadable, Parsed
  <1>6. CASE WatcherStore
    BY <1>6 DEF WatcherStore, CurrentInv, Loadable, Parsed, fileVars
  <1>7. CASE WatcherClear
    BY <1>7 DEF WatcherClear, CurrentInv, Loadable, Parsed, fileVars
  <1>8. ASSUME NEW c \in Client,
               \/ AuthenticateNobody(c)
               \/ \E k \in Pair : Authenticate(c, k)
               \/ Verify(c)
               \/ Return(c)
        PROVE  UNCHANGED <<file, unseen, pending, wpc, loaded, creds>>
    BY <1>8, Zenon DEF AuthenticateNobody, Authenticate, Verify, CacheGet, Compare, CacheSet, Return,
                fileVars, watchVars
  <1>9. CacheExpire \/ StartWatching \/ UNCHANGED vars
            => UNCHANGED <<file, unseen, pending, wpc, loaded, creds>>
    BY Zenon DEF CacheExpire, StartWatching, vars, fileVars, watchVars
  <1> QED
    BY <1>1, <1>2, <1>3, <1>4, <1>5, <1>6, <1>7, <1>8, <1>9 DEF Next, WatcherStep

(* Once the watcher has nothing to do, the credentials in use are those of *)
(* the file, for any history of changes that its watch has seen.           *)
THEOREM CredsCurrentTheorem == Spec => []CredsCurrent
  <1>1. Init => CurrentInv
    BY DEF Init, CurrentInv
  <1>2. TypeOK /\ CurrentInv => CredsCurrent
    BY DEF TypeOK, CurrentInv, CredsCurrent
  <1> QED
    BY <1>1, <1>2, CurrentStep, BasicAuthTypeCorrect, PTL DEF Spec

-----------------------------------------------------------------------------
(* The refinement of AuthProvider.                                         *)

LEMMA SimulateAnswer ==
    ASSUME ValidInv, ValidInv', NEW c \in Client, NEW a \in AP!Answer, Finish(c, a),
           result[c] = "none", everValid' = everValid,
           \A d \in Client \ {c} : cred'[d] = cred[d],
           cred'[c] \in Pair \cup {NoCred},
           a = "anonymous" => cred'[c] = NoCred \/ Permissive
    PROVE  AP!Next
  <1>1. /\ result'[c] = a /\ \A d \in Client \ {c} : result'[d] = result[d]
        /\ result' = [result EXCEPT ![c] = a]
    BY DEF ValidInv, TypeOK, Finish
  <1>2. a # "none"
    BY DEF AP!Answer
  <1>3. Presented' = [Presented EXCEPT ![c] = cred'[c]]
    BY <1>1, <1>2, Zenon DEF Presented
  <1>4. a = "user" => cred'[c] \in everValid
    BY <1>1, Zenon DEF ValidInv, RequestValid
  <1>5. AP!Authenticate(c, cred'[c], a)
    BY <1>1, <1>3, <1>4 DEF AP!Authenticate
  <1> QED
    BY <1>5 DEF AP!Next

LEMMA SimulateNothing ==
    ASSUME UNCHANGED <<result, everValid>>,
           \A d \in Client : cred'[d] = cred[d] \/ result[d] = "none"
    PROVE  UNCHANGED AP!vars
  <1>1. Presented' = Presented
    BY DEF Presented
  <1> QED
    BY <1>1 DEF AP!vars

LEMMA SimulateRequest ==
    ASSUME ValidInv, ValidInv', NEW c \in Client,
           \/ AuthenticateNobody(c)
           \/ \E k \in Pair : Authenticate(c, k)
           \/ Verify(c)
           \/ Return(c)
    PROVE  [AP!Next]_AP!vars
  <1>0. /\ pc[c] # "done" => result[c] = "none"
        /\ pc[c] = "idle" => cred[c] = NoCred
        /\ cred[c] \in Pair \cup {NoCred}
    BY Zenon DEF ValidInv, TypeOK, RequestValid
  <1>1. /\ HandleFailure \in AP!Answer /\ (HandleFailure = "anonymous" => Permissive)
        /\ {"user", "failed", "anonymous"} \subseteq AP!Answer
    BY DEF HandleFailure, AP!Answer
  <1>2. CASE AuthenticateNobody(c)
    <2>1. UNCHANGED <<cred, everValid>> /\ result[c] = "none" /\ cred[c] = NoCred
      BY <1>0, <1>2 DEF AuthenticateNobody
    <2> QED
      BY <1>1, <1>2, <2>1, SimulateAnswer DEF AuthenticateNobody
  <1>3. ASSUME NEW k \in Pair, Authenticate(c, k) PROVE [AP!Next]_AP!vars
    <2>1. /\ everValid' = everValid /\ result[c] = "none" /\ cred'[c] = k
          /\ \A d \in Client \ {c} : cred'[d] = cred[d]
      BY <1>0, <1>3 DEF Authenticate, ValidInv, TypeOK
    <2>2. CASE Finish(c, HandleFailure)
      BY <1>1, <2>1, <2>2, SimulateAnswer
    <2>3. CASE UNCHANGED result
      BY <2>1, <2>3, SimulateNothing
    <2> QED
      BY <1>3, <2>2, <2>3 DEF Authenticate
  <1>4. CASE Verify(c)
    <2>1. UNCHANGED <<cred, everValid>> /\ result[c] = "none"
      BY <1>0, <1>4, Zenon DEF Verify, CacheGet, Compare, CacheSet
    <2>2. ASSUME NEW a \in {"user", "failed"}, Finish(c, a) PROVE AP!Next
      BY <1>0, <1>1, <2>1, <2>2, SimulateAnswer
    <2>3. CASE UNCHANGED result
      BY <2>1, <2>3, SimulateNothing
    <2>4. (\E a \in {"user", "failed"} : Finish(c, a)) \/ UNCHANGED result
      BY <1>4, Zenon DEF Verify, CacheGet, Compare, CacheSet
    <2> QED
      BY <2>2, <2>3, <2>4
  <1>5. CASE Return(c)
    <2>1. /\ result' = [result EXCEPT ![c] = "none"] /\ everValid' = everValid
          /\ result'[c] = "none" /\ \A d \in Client \ {c} : result'[d] = result[d]
          /\ \A d \in Client \ {c} : cred'[d] = cred[d]
      BY <1>5 DEF ValidInv, TypeOK, Return
    <2>2. Presented' = [Presented EXCEPT ![c] = NoCred]
      BY <2>1, Zenon DEF Presented
    <2>3. CASE result[c] # "none"
      <3>1. AP!Return(c)
        BY <2>1, <2>2, <2>3 DEF AP!Return
      <3> QED
        BY <3>1 DEF AP!Next
    <2>4. CASE result[c] = "none"
      <3>1. result' = result
        BY <2>1, <2>4 DEF ValidInv, TypeOK
      <3> QED
        BY <2>1, <2>4, <3>1, SimulateNothing
    <2> QED
      BY <2>3, <2>4
  <1> QED
    BY <1>2, <1>3, <1>4, <1>5

LEMMA SimulateStep == ValidInv /\ ValidInv' /\ [Next]_vars => [AP!Next]_AP!vars
  <1> SUFFICES ASSUME ValidInv, ValidInv', [Next]_vars PROVE [AP!Next]_AP!vars
    OBVIOUS
  <1>1. CASE WatcherStore
    <2>1. everValid \subseteq everValid' /\ UNCHANGED <<cred, result>>
      BY <1>1 DEF WatcherStore, authVars
    <2>2. everValid' \in SUBSET Pair /\ Presented' = Presented
      BY <2>1 DEF ValidInv, TypeOK, Presented
    <2>3. AP!Vouch
      BY <2>1, <2>2 DEF AP!Vouch
    <2> QED
      BY <2>3 DEF AP!Next
  <1>2. CASE UNCHANGED <<authVars, everValid>>
    BY <1>2, SimulateNothing DEF authVars
  <1>3. CASE \E c \in Client : \/ AuthenticateNobody(c)
                               \/ \E k \in Pair : Authenticate(c, k)
                               \/ Verify(c)
                               \/ Return(c)
    BY <1>3, SimulateRequest
  <1> QED
    BY <1>1, <1>2, <1>3, Zenon DEF Next, vars, WatcherStep, WriteFile, ReplaceFile, CacheExpire,
       StartWatching, WatcherTake, WatcherLoad, WatcherClear

(* The htpasswd provider implements the contract that the router relies    *)
(* on, however many requests overlap however many reloads.                 *)
THEOREM RefinementTheorem == Spec => ImplementsAuthProvider
  <1>1. Init => AP!Init
    <2> SUFFICES ASSUME Init PROVE AP!Init
      OBVIOUS
    <2>1. everValid \in SUBSET Pair
      BY DEF Init, Matching
    <2>2. Presented = [c \in Client |-> NoCred]
      BY DEF Init, Presented
    <2> QED
      BY <2>1, <2>2 DEF AP!Init, Init
  <1> QED
    BY <1>1, SimulateStep, ValidInvariant, PTL DEF Spec, ImplementsAuthProvider, AP!Spec
=============================================================================

--------------------------- MODULE RegoCacheProofs ---------------------------
(***************************************************************************)
(* Proofs about RegoCache: its type invariant; that it runs the file cache *)
(* as FileCache says, so that the theorems of FileCacheProofs hold in it;  *)
(* that a request's Get returns what the file then held; that a removed    *)
(* policy decides no request and no request fails without a cause; and     *)
(* that the policy in r.regos is current as far as it can be.              *)
(***************************************************************************)
EXTENDS RegoCache, FileCacheProofs

(* The half of the type invariant that RegoCache adds.                     *)
RegoTypeOK ==
    /\ regos \in [Name -> Valid \cup {Absent}]
    /\ pc \in [Loader -> {"idle", "get", "load", "done"}]
    /\ task \in [Loader -> {"request", "reload"}]
    /\ target \in [Loader -> Name]
    /\ got \in [Loader -> [data : Content \cup {Absent}, updated : BOOLEAN]]
    /\ reply \in [Loader -> Valid \cup Failure \cup {"none"}]
    /\ since \in [Loader -> SUBSET Anything]
    /\ spoilt \subseteq Name
    /\ misled \subseteq Loader

(* What Get returns has the type of GetRego's local variables.             *)
LEMMA GetResultType ==
    ASSUME FCTypeOK, NEW n \in Name
    PROVE  /\ GetResult(n).data \in Content \cup {Absent}
           /\ GetResult(n).updated \in BOOLEAN
           /\ GetResult(n).err \in BOOLEAN
           /\ [data |-> GetResult(n).data, updated |-> GetResult(n).updated]
                \in [data : Content \cup {Absent}, updated : BOOLEAN]
<1>1. /\ GetResult(n).data \in Content \cup {Absent}
      /\ GetResult(n).updated \in BOOLEAN
      /\ GetResult(n).err \in BOOLEAN
  BY Zenon DEF FCTypeOK, GetResult
<1> QED BY <1>1, Zenon

(* GetRego stores nothing but a text that compiled.                        *)
LEMMA LoadType ==
    ASSUME RegoTypeOK, NEW n \in Name, NEW r, r.data \in Content \cup {Absent}
    PROVE  /\ LoadedRego(n, r) \in Valid \cup {Absent}
           /\ RegoResult(n, r) \in Valid \cup Failure
BY Zenon DEF RegoTypeOK, LoadedRego, RegoResult, MustCompile, Failure

LEMMA RegoTypeStep ==
    ASSUME FCTypeOK, FCTypeOK', RegoTypeOK, [Next]_vars
    PROVE  RegoTypeOK'
<1> USE DEF RegoTypeOK
<1>1. CASE EditFolder
  <2>1. \A n \in Name : disk'[n] \in Anything
    BY Zenon DEF FCTypeOK, Anything
  <2> QED BY <1>1, <2>1 DEF EditFolder
<1>2. CASE CloseCache
  BY <1>2, Zenon DEF CloseCache, regoVars
<1>3. ASSUME NEW n \in Name, FileCacheWork(n) PROVE RegoTypeOK'
  BY <1>3, Zenon DEF FileCacheWork, regoVars
<1>4. ASSUME NEW n \in Name, ScanRego(n) PROVE RegoTypeOK'
  <2>1. LoadedRego(n, GetResult(n)) \in Valid \cup {Absent}
    BY GetResultType, LoadType, Zenon
  <2> QED BY <1>4, <2>1, Zenon DEF ScanRego
<1>5. ASSUME NEW p \in Loader, LoaderStep(p) PROVE RegoTypeOK'
  <2>1. CASE BeginRequest(p)
    <3>1. (IF Settled THEN {disk[RequestName]} ELSE Anything) \in SUBSET Anything
      BY RegoCacheAssumption DEF FCTypeOK, Anything
    <3> QED BY <2>1, <3>1, RegoCacheAssumption, Zenon DEF BeginRequest
  <2>2. CASE RequestGet(p)
    <3> DEFINE g == [data |-> GetResult(target[p]).data,
                     updated |-> GetResult(target[p]).updated]
    <3>1. g \in [data : Content \cup {Absent}, updated : BOOLEAN]
      BY GetResultType, Zenon
    <3>2. /\ got' = got \/ got' = [got EXCEPT ![p] = g]
          /\ pc' = [pc EXCEPT ![p] = "done"] \/ pc' = [pc EXCEPT ![p] = "load"]
          /\ reply' = reply \/ reply' = [reply EXCEPT ![p] = "readError"]
          /\ UNCHANGED <<regos, task, target, since, spoilt, misled>>
      BY <2>2, Zenon DEF RequestGet
    <3> HIDE DEF g
    <3>3. got' \in [Loader -> [data : Content \cup {Absent}, updated : BOOLEAN]]
      BY <3>1, <3>2
    <3>4. pc' \in [Loader -> {"idle", "get", "load", "done"}]
      BY <3>2, Zenon
    <3>5. reply' \in [Loader -> Valid \cup Failure \cup {"none"}]
      BY <3>2, Zenon DEF Failure
    <3> QED BY <3>2, <3>3, <3>4, <3>5, Zenon
  <2>3. ASSUME NEW n \in Name, ReloadGet(p, n) PROVE RegoTypeOK'
    <3> DEFINE g == [data |-> GetResult(n).data, updated |-> GetResult(n).updated]
    <3>1. g \in [data : Content \cup {Absent}, updated : BOOLEAN]
      BY GetResultType, Zenon
    <3>2. /\ got' = got \/ got' = [got EXCEPT ![p] = g]
          /\ pc' = pc \/ pc' = [pc EXCEPT ![p] = "load"]
          /\ task' = task \/ task' = [task EXCEPT ![p] = "reload"]
          /\ target' = target \/ target' = [target EXCEPT ![p] = n]
          /\ UNCHANGED <<regos, reply, since, spoilt, misled>>
      BY <2>3, Zenon DEF ReloadGet
    <3> HIDE DEF g
    <3>3. got' \in [Loader -> [data : Content \cup {Absent}, updated : BOOLEAN]]
      BY <3>1, <3>2
    <3>4. /\ pc' \in [Loader -> {"idle", "get", "load", "done"}]
          /\ task' \in [Loader -> {"request", "reload"}]
          /\ target' \in [Loader -> Name]
      BY <3>2
    <3> QED BY <3>2, <3>3, <3>4, Zenon
  <2>4. CASE Load(p)
    <3>1. /\ LoadedRego(target[p], got[p]) \in Valid \cup {Absent}
          /\ RegoResult(target[p], got[p]) \in Valid \cup Failure
      BY LoadType, Zenon
    <3>2. /\ regos' = [regos EXCEPT ![target[p]] = LoadedRego(target[p], got[p])]
          /\ got' = [got EXCEPT ![p] = NoGot]
          /\ pc' = [pc EXCEPT ![p] = "done"] \/ pc' = [pc EXCEPT ![p] = "idle"]
          /\ \/ reply' = reply
             \/ reply' = [reply EXCEPT ![p] = RegoResult(target[p], got[p])]
          /\ UNCHANGED <<task, target, since>>
          /\ spoilt' \subseteq spoilt \cup {target[p]} /\ misled' \subseteq misled \cup {p}
      BY <2>4, Zenon DEF Load
    <3>3. got' \in [Loader -> [data : Content \cup {Absent}, updated : BOOLEAN]]
      BY <3>2, Zenon DEF NoGot
    <3>4. pc' \in [Loader -> {"idle", "get", "load", "done"}]
      BY <3>2, Zenon
    <3> QED BY <3>1, <3>2, <3>3, <3>4
  <2>5. CASE EndRequest(p)
    BY <2>5, Zenon DEF EndRequest
  <2> QED BY <1>5, <2>1, <2>2, <2>3, <2>4, <2>5, Zenon DEF LoaderStep
<1>6. CASE UNCHANGED vars
  BY <1>6, Zenon DEF vars, regoVars
<1> QED BY <1>1, <1>2, <1>3, <1>4, <1>5, <1>6, Zenon DEF Next

(* Every step of RegoCache is a step of the file cache or none.            *)
LEMMA FileCacheSimulation ==
    ASSUME RegoTypeOK, [Next]_vars
    PROVE  [FCNext]_fcVars
<1>1. CASE EditFolder
  BY <1>1, Zenon DEF EditFolder, FCNext
<1>2. CASE CloseCache
  BY <1>2, Zenon DEF CloseCache, FCNext
<1>3. ASSUME NEW n \in Name, FileCacheWork(n) \/ ScanRego(n) PROVE FCNext
  BY <1>3, Zenon DEF FileCacheWork, ScanRego, FCNext, FileStep
<1>4. ASSUME NEW p \in Loader, LoaderStep(p) PROVE [FCNext]_fcVars
  <2>1. CASE BeginRequest(p) \/ Load(p) \/ EndRequest(p)
    BY <2>1, Zenon DEF BeginRequest, Load, EndRequest
  <2>2. CASE RequestGet(p)
    <3>1. target[p] \in Name /\ ClientGet(target[p])
      BY <2>2, Zenon DEF RegoTypeOK, RequestGet
    <3> QED BY <3>1, Zenon DEF FCNext
  <2>3. ASSUME NEW n \in Name, ReloadGet(p, n) PROVE FCNext
    BY <2>3, Zenon DEF ReloadGet, FCNext, FileStep
  <2> QED BY <1>4, <2>1, <2>2, <2>3, Zenon DEF LoaderStep
<1>5. CASE UNCHANGED vars
  BY <1>5, Zenon DEF vars
<1> QED BY <1>1, <1>2, <1>3, <1>4, <1>5, Zenon DEF Next

(* The inductive invariant behind the next theorems.                       *)
RegoInv == FCInv /\ RegoTypeOK

THEOREM RegoInvariant == Spec => []RegoInv
<1>1. Init => RegoInv
  <2>1. Init => RegoTypeOK
    BY RegoCacheAssumption DEF Init, RegoTypeOK, NoGot, Anything
  <2>2. Init => FCInv
    BY FileCacheAssumption DEF Init, FCInit, FCInv, FCTypeOK, TrackedRuns, Phase
  <2> QED BY <2>1, <2>2, Zenon DEF RegoInv
<1>2. RegoInv /\ [Next]_vars => RegoInv'
  BY FileCacheSimulation, RegoTypeStep, FCInvStep, Zenon DEF RegoInv, FCInv
<1> QED BY <1>1, <1>2, PTL DEF Spec

(* RegoCache implements FileCache: what is proved of the file cache alone  *)
(* holds when GetRego, the requests and the callbacks drive it.            *)
THEOREM RegoImplementsFileCache == Spec => FCSpec
<1>1. Init => FCInit
  BY Zenon DEF Init
<1>2. RegoInv /\ [Next]_vars => [FCNext]_fcVars
  BY FileCacheSimulation, Zenon DEF RegoInv
<1> QED BY <1>1, <1>2, RegoInvariant, PTL DEF Spec, FCSpec

(* The type invariant, in which r.regos never holds a text that does not   *)
(* compile: an invalid policy never replaces a valid one.                  *)
THEOREM RegoTypeCorrect == Spec => []TypeOK
<1>1. RegoInv => TypeOK
  BY Zenon DEF RegoInv, FCInv, RegoTypeOK, TypeOK
<1> QED BY <1>1, RegoInvariant, PTL

-----------------------------------------------------------------------------
(* A request inside GetRego.                                               *)
Asking(p) == pc[p] \in {"get", "load"} /\ task[p] = "request"

(* The strengthening of FreshData: while a request is inside GetRego, the  *)
(* file's content is one the request may use, and so is the text of a      *)
(* clean entry, because at the start of the request a clean entry was      *)
(* current (FilesCoherent) and since then only Get has made entries clean. *)
FreshFor(p) ==
    /\ pc[p] = "get" => task[p] = "request"
    /\ Asking(p) =>
          /\ target[p] = RequestName
          /\ disk[RequestName] \in since[p]
          /\ GetHit(RequestName) => fileData[RequestName] \in since[p]
    /\ (pc[p] = "load" /\ task[p] = "request") => got[p].data \in since[p]
    /\ (pc[p] = "done" /\ reply[p] \in Valid) => since[p] # {Absent}
    /\ (pc[p] = "done" /\ reply[p] \in {"nil", "compileError"})
          => ~(since[p] \subseteq Valid)

FreshInv == \A p \in Loader : FreshFor(p)

(* A step that keeps the disk and in which the cache is read into by Get,  *)
(* or only loses entries, keeps what FreshInv says of the cache.           *)
LEMMA EntryFresh ==
    ASSUME FCTypeOK, NEW S, UNCHANGED disk,
           disk[RequestName] \in S,
           GetHit(RequestName) => fileData[RequestName] \in S,
           \/ UNCHANGED cacheVars
           \/ \E n \in Name : Get(n)
    PROVE  GetHit(RequestName)' => fileData'[RequestName] \in S
<1>1. CASE UNCHANGED cacheVars
  BY <1>1, Zenon DEF GetHit, cacheVars
<1>2. ASSUME NEW n \in Name, Get(n)
      PROVE  GetHit(RequestName)' => fileData'[RequestName] \in S
  BY <1>2, GetLemma, RegoCacheAssumption, Zenon DEF GetHit
<1> QED BY <1>1, <1>2, Zenon

(* What a step of the file cache does to the entry of the request policy.  *)
LEMMA WorkFresh ==
    ASSUME FCInv, NEW S, NEW n \in Name,
           FileCacheWork(n) \/ CloseCache \/ ScanRego(n),
           disk[RequestName] \in S,
           GetHit(RequestName) => fileData[RequestName] \in S
    PROVE  /\ UNCHANGED disk
           /\ GetHit(RequestName)' => fileData'[RequestName] \in S
<1>0. FCTypeOK
  BY Zenon DEF FCInv
<1>1. CASE WatcherEvent
  <2>1. UNCHANGED disk
    BY <1>1, Zenon DEF WatcherEvent, envVars
  <2>2. CASE UNCHANGED cacheVars
    BY <1>0, <2>1, <2>2, EntryFresh, Zenon
  <2>3. ASSUME NEW m \in Name, NEW op, Invalidate(m, op)
        PROVE  GetHit(RequestName)' => fileData'[RequestName] \in S
    BY <2>3, InvalidateLemma, RegoCacheAssumption, Zenon DEF GetHit
  <2>4. ShouldProcess(Head(events).name) => Head(events).name \in Name
    BY FileCacheAssumption, Zenon DEF ShouldProcess
  <2> QED BY <1>1, <2>1, <2>2, <2>3, <2>4, Zenon DEF WatcherEvent
<1>2. CASE ~WatcherEvent
  <2>1. UNCHANGED disk
    BY <1>2, Zenon DEF FileCacheWork, CloseCache, Close, ScanRego, ScanFile, Watch,
                StartWatcher, TimerExpire, TimerFunc, Prefetch, envVars
  <2>2. UNCHANGED cacheVars \/ Get(n)
    BY <1>2, Zenon DEF FileCacheWork, CloseCache, Close, ScanRego, ScanFile, Watch,
                StartWatcher, TimerExpire, TimerFunc, Prefetch
  <2> QED BY <1>0, <2>1, <2>2, EntryFresh, Zenon
<1> QED BY <1>1, <1>2, Zenon

(* Of the goroutines, only the one that takes the step changes.            *)
LocalSame(p) ==
    /\ pc'[p] = pc[p] /\ task'[p] = task[p] /\ target'[p] = target[p]
    /\ got'[p] = got[p] /\ reply'[p] = reply[p] /\ since'[p] = since[p]

LEMMA FreshOther ==
    ASSUME NEW p \in Loader, LocalSame(p), FreshFor(p), UNCHANGED disk,
           (Asking(p) /\ (GetHit(RequestName) => fileData[RequestName] \in since[p]))
             => (GetHit(RequestName)' => fileData'[RequestName] \in since[p])
    PROVE  FreshFor(p)'
BY Zenon DEF FreshFor, Asking, LocalSame

(* The goroutine that takes the step.                                      *)
LEMMA FreshSelf ==
    ASSUME RequestName \in Watched, RegoInv, FilesCoherent,
           NEW p \in Loader, FreshFor(p), LoaderStep(p)
    PROVE  FreshFor(p)'
<1>0. FCTypeOK /\ RegoTypeOK /\ RequestName \in Name
  BY RegoCacheAssumption, Zenon DEF RegoInv, FCInv
<1>1. CASE BeginRequest(p)
  <2>1. /\ pc'[p] = "get" /\ task'[p] = "request" /\ target'[p] = RequestName
        /\ since'[p] = IF Settled THEN {disk[RequestName]} ELSE Anything
    BY <1>0, <1>1, Zenon DEF BeginRequest, RegoTypeOK
  <2>2. UNCHANGED <<disk, fileData, dirty>>
    BY <1>1, Zenon DEF BeginRequest, fcVars, envVars, cacheVars
  <2>3. Settled => (GetHit(RequestName) => fileData[RequestName] = disk[RequestName])
    BY <1>0 DEF Settled, FilesCoherent, EventPending
  <2>4. disk[RequestName] \in Anything /\ fileData[RequestName] \in Anything
    BY <1>0, Zenon DEF FCTypeOK, Anything
  <2> QED BY <2>1, <2>2, <2>3, <2>4, Zenon DEF FreshFor, Asking, GetHit
<1>2. CASE RequestGet(p)
  <2> DEFINE r == GetResult(RequestName)
  <2>1. /\ Asking(p) /\ target[p] = RequestName /\ pc[p] = "get"
        /\ UNCHANGED <<task, target, since>>
    BY <1>2, Zenon DEF RequestGet, FreshFor, Asking
  <2>2. UNCHANGED disk /\ Get(RequestName)
    BY <1>2, <2>1, Zenon DEF RequestGet, ClientGet, envVars
  <2>3. GetHit(RequestName)' => fileData'[RequestName] \in since[p]
    BY <1>0, <2>1, <2>2, EntryFresh, Zenon DEF FreshFor
  <2>4. CASE r.err
    <3>1. pc'[p] = "done" /\ reply'[p] = "readError"
      BY <1>0, <1>2, <2>1, <2>4, Zenon DEF RequestGet, RegoTypeOK
    <3> QED BY <2>1, <3>1, RegoCacheAssumption, Zenon DEF FreshFor, Asking, Failure
  <2>5. CASE ~r.err
    <3>1. pc'[p] = "load" /\ got'[p] = [data |-> r.data, updated |-> r.updated]
      BY <1>0, <1>2, <2>1, <2>5, Zenon DEF RequestGet, RegoTypeOK
    <3>2. r.data \in since[p]
      BY <2>1, <2>5, Zenon DEF GetResult, FreshFor
    <3>3. got'[p].data \in since[p]
      BY <3>1, <3>2
    <3> QED BY <2>1, <2>2, <2>3, <3>1, <3>3, Zenon DEF FreshFor, Asking
  <2> QED BY <2>4, <2>5, Zenon
<1>3. ASSUME NEW n \in Name, ReloadGet(p, n) PROVE FreshFor(p)'
  <2>1. /\ pc[p] = "idle" /\ UNCHANGED <<reply, since>>
        /\ pc'[p] = "idle" \/ (pc'[p] = "load" /\ task'[p] = "reload")
    BY <1>0, <1>3, Zenon DEF ReloadGet, RegoTypeOK
  <2> QED BY <2>1, Zenon DEF FreshFor, Asking
<1>4. CASE Load(p)
  <2> DEFINE r == got[p]
             res == RegoResult(target[p], r)
  <2>1. pc[p] = "load" /\ UNCHANGED <<task, target, since>>
    BY <1>4, Zenon DEF Load
  <2>2. CASE task[p] = "reload"
    <3>1. pc'[p] = "idle"
      BY <1>0, <1>4, <2>2, Zenon DEF Load, RegoTypeOK
    <3> QED BY <3>1, Zenon DEF FreshFor, Asking
  <2>3. CASE task[p] = "request"
    <3>1. pc'[p] = "done" /\ reply'[p] = res
      BY <1>0, <1>4, <2>3, Zenon DEF Load, RegoTypeOK
    <3>2. r.data \in since[p]
      BY <2>1, <2>3, Zenon DEF FreshFor
    <3>3. res \in Valid => r.data # Absent
      BY RegoCacheAssumption, Zenon DEF RegoResult, Failure
    <3>4. res \in {"nil", "compileError"} => r.data \notin Valid
      <4>1. regos[target[p]] \in Valid \cup {Absent} /\ target[p] \in Name
        BY <1>0, Zenon DEF RegoTypeOK
      <4>2. "nil" \notin Valid /\ "compileError" \notin Valid /\ Absent \notin Valid
        BY RegoCacheAssumption, FileCacheAssumption, Zenon DEF Failure
      <4> QED BY <4>1, <4>2, Zenon DEF RegoResult, MustCompile
    <3> HIDE DEF res
    <3> QED BY <2>1, <3>1, <3>2, <3>3, <3>4, Zenon DEF FreshFor, Asking
  <2> QED BY <1>0, <2>2, <2>3, Zenon DEF RegoTypeOK
<1>5. CASE EndRequest(p)
  <2>1. pc'[p] = "idle"
    BY <1>0, <1>5, Zenon DEF EndRequest, RegoTypeOK
  <2> QED BY <2>1, Zenon DEF FreshFor, Asking
<1> QED BY <1>1, <1>2, <1>3, <1>4, <1>5, Zenon DEF LoaderStep

LEMMA FreshStep ==
    ASSUME RequestName \in Watched, RegoInv, FilesCoherent, FreshInv, [Next]_vars
    PROVE  FreshInv'
<1> SUFFICES ASSUME NEW p \in Loader PROVE FreshFor(p)'
  BY Zenon DEF FreshInv
<1>0. FCInv /\ FCTypeOK /\ RegoTypeOK /\ FreshFor(p)
  BY Zenon DEF RegoInv, FCInv, FreshInv
<1>1. CASE EditFolder
  <2>1. UNCHANGED <<fileData, dirty>>
    BY <1>0, <1>1, EnvLemma, Zenon DEF EditFolder, cacheSide, cacheVars
  <2>2. /\ UNCHANGED <<pc, task, target, got, reply>>
        /\ since'[p] = IF pc[p] \in {"get", "load"} /\ task[p] = "request"
                       THEN since[p] \cup {disk'[target[p]]} ELSE since[p]
    BY <1>1, Zenon DEF EditFolder
  <2>3. CASE Asking(p)
    <3>1. since'[p] = since[p] \cup {disk'[RequestName]}
      BY <1>0, <2>2, <2>3, Zenon DEF FreshFor, Asking
    <3> QED BY <1>0, <2>1, <2>2, <2>3, <3>1, Zenon DEF FreshFor, Asking, GetHit
  <2>4. CASE ~Asking(p)
    <3>1. since'[p] = since[p]
      BY <2>2, <2>4, Zenon DEF Asking
    <3> QED BY <1>0, <2>2, <2>4, <3>1, Zenon DEF FreshFor, Asking
  <2> QED BY <2>3, <2>4, Zenon
<1>2. ASSUME NEW n \in Name, FileCacheWork(n) \/ CloseCache \/ ScanRego(n)
      PROVE  FreshFor(p)'
  <2>1. LocalSame(p)
    BY <1>2, Zenon DEF FileCacheWork, CloseCache, ScanRego, LocalSame, regoVars
  <2>2. CASE Asking(p)
    <3>1. UNCHANGED disk /\ (GetHit(RequestName)' => fileData'[RequestName] \in since[p])
      BY <1>0, <1>2, <2>2, WorkFresh, Zenon DEF FreshFor
    <3> QED BY <1>0, <2>1, <3>1, FreshOther, Zenon
  <2>3. CASE ~Asking(p)
    BY <1>0, <2>1, <2>3, Zenon DEF FreshFor, Asking, LocalSame
  <2> QED BY <2>2, <2>3, Zenon
<1>3. ASSUME NEW q \in Loader, LoaderStep(q) PROVE FreshFor(p)'
  <2>1. CASE q = p
    BY <1>0, <1>3, <2>1, FreshSelf, Zenon
  <2>2. CASE q # p
    <3>1. LocalSame(p)
      BY <1>0, <1>3, <2>2, Zenon DEF LoaderStep, BeginRequest, RequestGet, ReloadGet, Load,
                              EndRequest, LocalSame, RegoTypeOK
    <3>2. UNCHANGED disk /\ (UNCHANGED cacheVars \/ \E n \in Name : Get(n))
      <4>1. CASE BeginRequest(q) \/ Load(q) \/ EndRequest(q)
        BY <4>1, Zenon DEF BeginRequest, Load, EndRequest, fcVars, envVars
      <4>2. CASE RequestGet(q)
        BY <1>0, <4>2, Zenon DEF RequestGet, ClientGet, envVars, RegoTypeOK
      <4>3. ASSUME NEW n \in Name, ReloadGet(q, n)
            PROVE  UNCHANGED disk /\ Get(n)
        BY <4>3, Zenon DEF ReloadGet, CallbackGet, envVars
      <4> QED BY <1>3, <4>1, <4>2, <4>3, Zenon DEF LoaderStep
    <3>3. CASE Asking(p)
      BY <1>0, <3>1, <3>2, <3>3, EntryFresh, FreshOther, Zenon DEF FreshFor
    <3>4. CASE ~Asking(p)
      BY <1>0, <3>1, <3>4, Zenon DEF FreshFor, Asking, LocalSame
    <3> QED BY <3>3, <3>4, Zenon
  <2> QED BY <2>1, <2>2, Zenon
<1>4. CASE UNCHANGED vars
  <2>1. LocalSame(p) /\ UNCHANGED <<disk, fileData, dirty>>
    BY <1>4, Zenon DEF vars, regoVars, fcVars, envVars, cacheVars, LocalSame
  <2> QED BY <1>0, <2>1, FreshOther, Zenon DEF GetHit
<1>5. Next => \/ EditFolder
              \/ \E n \in Name : FileCacheWork(n) \/ CloseCache \/ ScanRego(n)
              \/ \E q \in Loader : LoaderStep(q)
  BY RegoCacheAssumption, Zenon DEF Next
<1> QED BY <1>1, <1>2, <1>3, <1>4, <1>5, Zenon

(* For a policy file the watcher acts on, at any number of concurrent      *)
(* requests and reloads: the inductive invariant holds.                    *)
THEOREM FreshInvariant == RequestName \in Watched /\ Spec => []FreshInv
<1>1. Init => FreshInv
  BY Zenon DEF Init, FreshInv, FreshFor, Asking
<1>2. RequestName \in Watched /\ RegoInv /\ FilesCoherent /\ FreshInv /\ [Next]_vars
        => FreshInv'
  BY FreshStep, Zenon
<1>3. CASE RequestName \in Watched
  <2>1. RegoInv /\ FilesCoherent /\ FreshInv /\ [Next]_vars => FreshInv'
    BY <1>2, <1>3, Zenon
  <2> QED BY <1>1, <2>1, RegoInvariant, RegoImplementsFileCache, FilesCoherentTheorem, PTL
          DEF Spec
<1> QED BY <1>3, Zenon

(* FreshData: filecache.Get is a linearizable read of the policy file.     *)
THEOREM FreshDataTheorem == RequestName \in Watched /\ Spec => []FreshData
<1>1. FreshInv => FreshData
  BY Zenon DEF FreshInv, FreshFor, FreshData
<1> QED BY <1>1, FreshInvariant, PTL

(* DeletedNotServed: a removed policy decides no later request.            *)
THEOREM DeletedNotServedTheorem ==
    RequestName \in Watched /\ Spec => []DeletedNotServed
<1>1. FreshInv => DeletedNotServed
  BY Zenon DEF FreshInv, FreshFor, DeletedNotServed
<1> QED BY <1>1, FreshInvariant, PTL

(* NoSpuriousFailure: a policy that stays valid fails no request.          *)
THEOREM NoSpuriousFailureTheorem ==
    RequestName \in Watched /\ Spec => []NoSpuriousFailure
<1>1. FreshInv => NoSpuriousFailure
  BY Zenon DEF FreshInv, FreshFor, NoSpuriousFailure
<1> QED BY <1>1, FreshInvariant, PTL

-----------------------------------------------------------------------------
(* The policy is current.                                                  *)

(* Until the watcher runs there is no timer, no callback and no request.   *)
EarlyQuiet ==
    phase \in {"new", "scanning"} =>
        /\ \A p \in Loader : pc[p] = "idle"
        /\ \A n \in Name : running[n] = 0 /\ firing[n] = 0 /\ calling[n] = 0
        /\ tracked = {}

LEMMA EarlyQuietStep ==
    ASSUME RegoInv, EarlyQuiet, [Next]_vars
    PROVE  EarlyQuiet'
<1> SUFFICES ASSUME phase' \in {"new", "scanning"}
             PROVE  /\ \A p \in Loader : pc'[p] = "idle"
                    /\ \A n \in Name : running'[n] = 0 /\ firing'[n] = 0 /\ calling'[n] = 0
                    /\ tracked' = {}
  BY Zenon DEF EarlyQuiet
<1>0. FCTypeOK /\ RegoTypeOK
  BY Zenon DEF RegoInv, FCInv
<1>1. CASE phase \notin {"new", "scanning"}
  <2>1. [FCNext]_fcVars
    BY <1>0, FileCacheSimulation, Zenon
  <2>2. phase' = phase \/ phase' \in {"watching", "unwatched", "closed"}
    <3>1. CASE EnvStep
      BY <1>0, <3>1, EnvLemma, Zenon DEF cacheSide, watchVars
    <3>2. CASE ~EnvStep
      BY <1>1, <2>1, <3>2, Zenon DEF FCNext, Watch, StartWatcher, WatcherEvent, Close, FileStep,
           TimerExpire, TimerFunc, CallbackGet, Prefetch, ScanFile, ClientGet, fcVars, watchVars
    <3> QED BY <3>1, <3>2, Zenon
  <2> QED BY <1>1, <2>2, Zenon
<1>2. CASE phase \in {"new", "scanning"}
  <2>0. /\ \A p \in Loader : pc[p] = "idle"
        /\ \A n \in Name : running[n] = 0 /\ firing[n] = 0 /\ calling[n] = 0
        /\ tracked = {}
    BY <1>2, Zenon DEF EarlyQuiet
  <2>1. UNCHANGED timerVars /\ UNCHANGED pc
    <3>1. CASE EditFolder
      BY <1>0, <3>1, EnvLemma, Zenon DEF EditFolder, cacheSide
    <3>2. CASE CloseCache
      BY <1>2, <3>2, Zenon DEF CloseCache, Close
    <3>3. ASSUME NEW n \in Name, FileCacheWork(n) PROVE UNCHANGED timerVars /\ UNCHANGED pc
      <4>1. ~TimerExpire(n) /\ ~TimerFunc(n) /\ ~WatcherEvent
        BY <1>2, <2>0 DEF TimerExpire, TimerFunc, WatcherEvent
      <4>2. UNCHANGED timerVars
        BY <3>3, <4>1, Zenon DEF FileCacheWork, Watch, StartWatcher, Prefetch
      <4>3. UNCHANGED pc
        BY <3>3, Zenon DEF FileCacheWork, regoVars
      <4> QED BY <4>2, <4>3, Zenon
    <3>4. ASSUME NEW n \in Name, ScanRego(n) PROVE UNCHANGED timerVars /\ UNCHANGED pc
      BY <3>4, Zenon DEF ScanRego, ScanFile
    <3>5. ASSUME NEW p \in Loader, LoaderStep(p) PROVE FALSE
      <4>1. pc[p] = "idle" /\ phase \notin {"watching", "unwatched"}
        BY <1>2, <2>0, Zenon
      <4>2. ~BeginRequest(p)
        BY <4>1, Zenon DEF BeginRequest
      <4>3. ~RequestGet(p) /\ ~Load(p) /\ ~EndRequest(p)
        BY <4>1, Zenon DEF RequestGet, Load, EndRequest
      <4>4. ASSUME NEW n \in Name, ReloadGet(p, n) PROVE FALSE
        <5>1. calling[n] > 0
          BY <4>4, Zenon DEF ReloadGet, CallbackGet
        <5> QED BY <2>0, <5>1
      <4> QED BY <3>5, <4>2, <4>3, <4>4, Zenon DEF LoaderStep
    <3>6. CASE UNCHANGED vars
      BY <3>6, Zenon DEF vars, fcVars, regoVars
    <3> QED BY <3>1, <3>2, <3>3, <3>4, <3>5, <3>6, Zenon DEF Next
  <2> QED BY <2>0, <2>1, Zenon DEF timerVars
<1> QED BY <1>1, <1>2, Zenon

(* A goroutine with the text of the request policy, on its way to r.mtx.   *)
Loading(p) == pc[p] = "load" /\ target[p] = RequestName

(* The strengthening of PolicyCurrent and PolicySettled.                   *)

(* A callback is due for the file, or it could not be read.                *)
GoneIsDue == Scheduled(RequestName) \/ RequestName \in failed

(* Some goroutine other than p is on its way with text d, with flag u.     *)
OnItsWay(p, d, u) ==
    \E q \in Loader \ {p} : Loading(q) /\ got[q].data = d /\ (u => got[q].updated)

(* The same of any goroutine.                                              *)
Brought(d, u) == \E q \in Loader : Loading(q) /\ got[q].data = d /\ (u => got[q].updated)

(* r.regos has the text of a clean entry, or a goroutine with the flag is  *)
(* on its way with that text, or there is no policy and somebody will      *)
(* compile that text.  For a file without an entry there is no policy, or  *)
(* somebody will delete it.                                                *)
InStep ==
    /\ GetHit(RequestName) /\ fileData[RequestName] \in Valid
          => \/ regos[RequestName] = fileData[RequestName]
             \/ regos[RequestName] = Absent
                  /\ (Scheduled(RequestName) \/ Brought(fileData[RequestName], FALSE))
             \/ Brought(fileData[RequestName], TRUE)
    /\ fileData[RequestName] = Absent
          => regos[RequestName] = Absent \/ GoneIsDue \/ Brought(Absent, FALSE)

(* A request that was not told its text is new finds a policy it may use,  *)
(* or a goroutine with the flag is on its way with the same text.          *)
Led(p) ==
    (pc[p] = "load" /\ task[p] = "request" /\ ~got[p].updated /\ since[p] \subseteq Valid)
        => \/ regos[RequestName] \in since[p] \cup {Absent}
           \/ OnItsWay(p, got[p].data, TRUE)

(* Since the Get of a request the entry is gone or a text it may use.      *)
ReadSince(p) ==
    (pc[p] = "load" /\ task[p] = "request") => fileData[RequestName] \in since[p] \cup {Absent}

Current(p) ==
    (pc[p] = "done" /\ reply[p] \in Valid /\ since[p] \subseteq Valid) => reply[p] \in since[p]

Unspoilt == InStep /\ \A p \in Loader : Led(p)

CurrentInv ==
    /\ \A p \in Loader : ReadSince(p)
    /\ RequestName \notin spoilt => Unspoilt
    /\ \A p \in Loader : p \notin misled => Current(p)

(* The entry of the policy is left alone, dropped, or read.                *)
LEMMA EntryStep ==
    ASSUME RegoInv, [Next]_vars
    PROVE  fileData'[RequestName] \in {fileData[RequestName], Absent, disk[RequestName]}
<1>0. FCInv /\ FCTypeOK /\ RegoTypeOK /\ RequestName \in Name
  BY RegoCacheAssumption, Zenon DEF RegoInv, FCInv
<1>1. CASE UNCHANGED fileData
  BY <1>1, Zenon
<1>2. ASSUME NEW n \in Name, Get(n)
      PROVE  fileData'[RequestName] \in {fileData[RequestName], Absent, disk[RequestName]}
  BY <1>0, <1>2, GetLemma, Zenon
<1>3. ASSUME NEW n \in Name, NEW op, Invalidate(n, op)
      PROVE  fileData'[RequestName] \in {fileData[RequestName], Absent, disk[RequestName]}
  BY <1>0, <1>3, Zenon DEF Invalidate, FCTypeOK, cacheVars
<1>4. [FCNext]_fcVars
  BY <1>0, FileCacheSimulation, Zenon
<1>5. CASE EnvStep
  BY <1>0, <1>1, <1>5, EnvLemma, Zenon DEF cacheSide, cacheVars
<1>6. CASE WatcherEvent
  <2>1. ShouldProcess(Head(events).name) => Head(events).name \in Name
    BY FileCacheAssumption, Zenon DEF ShouldProcess
  <2> QED BY <1>1, <1>3, <1>6, <2>1, Zenon DEF WatcherEvent, cacheVars
<1>7. CASE UNCHANGED fcVars \/ Watch \/ StartWatcher \/ Close
  BY <1>1, <1>7, Zenon DEF fcVars, cacheVars, Watch, StartWatcher, Close
<1>8. ASSUME NEW n \in Name, FileStep(n) \/ ClientGet(n) PROVE UNCHANGED fileData \/ Get(n)
  BY <1>8, Zenon DEF FileStep, ClientGet, TimerExpire, TimerFunc, CallbackGet, Prefetch,
                     ScanFile, cacheVars
<1> QED BY <1>1, <1>2, <1>4, <1>5, <1>6, <1>7, <1>8, Zenon DEF FCNext

(* What Get does to the entries, against what it returns.                  *)
LEMMA GetEntry ==
    ASSUME FCTypeOK, NEW n \in Name, Get(n)
    PROVE  /\ GetResult(n).updated \/ UNCHANGED <<fileData, dirty>>
           /\ GetResult(n).err => ~GetHit(n) /\ UNCHANGED <<fileData, dirty>> /\ n \in failed'
           /\ ~GetResult(n).updated => failed \subseteq failed'
           /\ \A m \in Name \ {n} : m \in failed' <=> m \in failed
           /\ ~GetResult(n).err => fileData'[n] = GetResult(n).data
           /\ ~GetResult(n).err /\ ~GetResult(n).updated
                => GetHit(n) /\ GetResult(n).data = fileData[n]
           /\ \A m \in Name \ {n} : fileData'[m] = fileData[m] /\ (m \in dirty' <=> m \in dirty)
<1>1. CASE GetHit(n)
  BY <1>1, Zenon DEF Get, GetResult, cacheVars
<1>2. CASE ~GetHit(n) /\ ReadError(n)
  BY <1>2, Zenon DEF Get, GetResult
<1>3. CASE ~GetHit(n) /\ ~ReadError(n)
  <2>1. /\ fileData' = [fileData EXCEPT ![n] = disk[n]] /\ dirty' = dirty \ {n}
        /\ failed' = failed \ {n}
        /\ GetResult(n) = [data |-> disk[n], updated |-> TRUE, err |-> FALSE]
    BY <1>3, Zenon DEF Get, GetResult
  <2> QED BY <2>1 DEF FCTypeOK
<1> QED BY <1>1, <1>2, <1>3, Zenon

LEMMA ReadSinceStep ==
    ASSUME RegoInv, FreshInv, FreshInv', [Next]_vars, NEW p \in Loader, ReadSince(p)
    PROVE  ReadSince(p)'
<1> SUFFICES ASSUME pc'[p] = "load", task'[p] = "request"
             PROVE  fileData'[RequestName] \in since'[p] \cup {Absent}
  BY Zenon DEF ReadSince
<1>0. FCTypeOK /\ RegoTypeOK /\ FreshFor(p) /\ FreshFor(p)'
  BY Zenon DEF RegoInv, FCInv, FreshInv
<1>1. ASSUME Asking(p), pc[p] = "load", since[p] \subseteq since'[p]
      PROVE  fileData'[RequestName] \in since'[p] \cup {Absent}
  BY <1>0, <1>1, EntryStep, Zenon DEF FreshFor, Asking, ReadSince
<1>2. CASE EditFolder
  BY <1>1, <1>2, Zenon DEF EditFolder, Asking
<1>3. ASSUME LocalSame(p) PROVE fileData'[RequestName] \in since'[p] \cup {Absent}
  BY <1>1, <1>3, Zenon DEF LocalSame, Asking
<1>4. ASSUME NEW n \in Name, FileCacheWork(n) \/ ScanRego(n) PROVE LocalSame(p)
  BY <1>4, Zenon DEF FileCacheWork, ScanRego, LocalSame, regoVars
<1>5. CASE CloseCache \/ UNCHANGED vars
  BY <1>3, <1>5, Zenon DEF CloseCache, vars, regoVars, LocalSame
<1>6. ASSUME NEW q \in Loader, LoaderStep(q)
      PROVE  fileData'[RequestName] \in since'[p] \cup {Absent}
  <2>1. CASE q # p
    <3>1. LocalSame(p)
      BY <1>0, <1>6, <2>1, Zenon DEF LoaderStep, BeginRequest, RequestGet, ReloadGet, Load,
                              EndRequest, LocalSame, RegoTypeOK
    <3> QED BY <1>3, <3>1, Zenon
  <2>2. CASE q = p
    <3>1. RequestGet(p)
      BY <1>0, <1>6, <2>2, Zenon DEF LoaderStep, BeginRequest, RequestGet, ReloadGet, Load,
                              EndRequest, RegoTypeOK
    <3>2. target[p] = RequestName /\ Get(RequestName)
      BY <1>0, <3>1, Zenon DEF FreshFor, Asking, RequestGet, ClientGet
    <3>3. /\ ~GetResult(RequestName).err
          /\ got'[p] = [data |-> GetResult(RequestName).data,
                        updated |-> GetResult(RequestName).updated]
      BY <1>0, <3>1, <3>2, Zenon DEF RequestGet, RegoTypeOK
    <3>4. got'[p].data = GetResult(RequestName).data
      BY <3>3
    <3>5. fileData'[RequestName] = GetResult(RequestName).data
      BY <1>0, <3>2, <3>3, GetEntry, RegoCacheAssumption, Zenon
    <3>6. got'[p].data \in since'[p]
      BY <1>0, Zenon DEF FreshFor
    <3> QED BY <3>4, <3>5, <3>6, Zenon
  <2> QED BY <2>1, <2>2, Zenon
<1> QED BY <1>2, <1>3, <1>4, <1>5, <1>6, Zenon DEF Next

(* A step that at most loses the entry of the policy, and then leaves a    *)
(* callback for it.                                                        *)
EntryKept ==
    /\ GetHit(RequestName)' => GetHit(RequestName) /\ fileData'[RequestName] = fileData[RequestName]
    /\ fileData'[RequestName] = Absent => fileData[RequestName] = Absent \/ Scheduled(RequestName)'
    /\ RequestName \in failed => RequestName \in failed'
    /\ Scheduled(RequestName) => \/ Scheduled(RequestName)'
                                 \/ RequestName \in failed' /\ ~GetHit(RequestName)'

(* Get without news of the policy is such a step.                          *)
LEMMA GetKept ==
    ASSUME FCTypeOK, NEW n \in Name, Get(n), n # RequestName \/ ~GetResult(n).updated,
           Scheduled(RequestName) =>
               Scheduled(RequestName)' \/ (n = RequestName /\ GetResult(n).err)
    PROVE  EntryKept
<1>0. RequestName \in Name
  BY RegoCacheAssumption, Zenon
<1>1. CASE n # RequestName
  <2>1. /\ fileData'[RequestName] = fileData[RequestName]
        /\ RequestName \in dirty' <=> RequestName \in dirty
        /\ RequestName \in failed' <=> RequestName \in failed
    <3>1. RequestName \in Name \ {n}
      BY <1>0, <1>1, Zenon
    <3> QED BY <3>1, GetEntry, Zenon
  <2> QED BY <1>1, <2>1, Zenon DEF EntryKept, GetHit
<1>2. CASE n = RequestName /\ ~GetResult(n).updated
  <2>1. UNCHANGED <<fileData, dirty>> /\ failed \subseteq failed'
    BY <1>2, GetEntry, Zenon
  <2>2. GetResult(n).err => RequestName \in failed' /\ ~GetHit(RequestName)
    BY <1>2, GetEntry, Zenon
  <2> QED BY <1>2, <2>1, <2>2, Zenon DEF EntryKept, GetHit
<1> QED BY <1>1, <1>2, Zenon

(* Who is on the way to r.mtx with the policy stays there, and no request  *)
(* joins them.                                                             *)
StaysOnWay(p) ==
    /\ Loading(p) => Loading(p)' /\ got'[p] = got[p]
    /\ (pc'[p] = "load" /\ task'[p] = "request")
          => /\ pc[p] = "load" /\ task[p] = "request" /\ got'[p] = got[p]
             /\ since[p] \subseteq since'[p]

LEMMA InStepKept ==
    ASSUME InStep, EntryKept, regos'[RequestName] = regos[RequestName],
           \A q \in Loader : Loading(q) => Loading(q)' /\ got'[q] = got[q]
    PROVE  InStep'
<1> DEFINE Brings(d, u) == \E q \in Loader : Loading(q)' /\ got'[q].data = d /\ (u => got'[q].updated)
           N == RequestName
<1>1. \A d, u : Brought(d, u) => Brings(d, u)
  <2> SUFFICES ASSUME NEW d, NEW u, Brought(d, u) PROVE Brings(d, u)
    OBVIOUS
  <2>1. PICK q \in Loader : Loading(q) /\ got[q].data = d /\ (u => got[q].updated)
    BY Zenon DEF Brought
  <2>2. Loading(q)' /\ got'[q] = got[q]
    BY <2>1, Zenon
  <2>3. got'[q].data = d /\ (u => got'[q].updated)
    BY <2>1, <2>2, Zenon
  <2> QED BY <2>2, <2>3, Zenon
<1>2. ASSUME GetHit(N)', fileData'[N] \in Valid
      PROVE  \/ regos'[N] = fileData'[N]
             \/ regos'[N] = Absent /\ (Scheduled(N)' \/ Brings(fileData'[N], FALSE))
             \/ Brings(fileData'[N], TRUE)
  <2>1. GetHit(N) /\ fileData'[N] = fileData[N] /\ (Scheduled(N) => Scheduled(N)')
    BY <1>2, Zenon DEF EntryKept
  <2>2. \/ regos[N] = fileData[N]
        \/ regos[N] = Absent /\ (Scheduled(N) \/ Brought(fileData[N], FALSE))
        \/ Brought(fileData[N], TRUE)
    BY <1>2, <2>1, Zenon DEF InStep
  <2>3. /\ Brought(fileData[N], FALSE) => Brings(fileData'[N], FALSE)
        /\ Brought(fileData[N], TRUE) => Brings(fileData'[N], TRUE)
    BY <1>1, <2>1, Zenon
  <2> HIDE DEF Brings
  <2> QED BY <2>1, <2>2, <2>3, Zenon
<1>3. ASSUME fileData'[N] = Absent
      PROVE  regos'[N] = Absent \/ GoneIsDue' \/ Brings(Absent, FALSE)
  <2>1. CASE Scheduled(N)'
    BY <2>1, Zenon DEF GoneIsDue
  <2>2. CASE fileData[N] = Absent
    <3>1. regos[N] = Absent \/ GoneIsDue \/ Brought(Absent, FALSE)
      BY <2>2, Zenon DEF InStep
    <3>2. GoneIsDue => GoneIsDue'
      BY Zenon DEF EntryKept, GoneIsDue
    <3>3. Brought(Absent, FALSE) => Brings(Absent, FALSE)
      BY <1>1, Zenon
    <3> HIDE DEF Brings
    <3> QED BY <3>1, <3>2, <3>3, Zenon
  <2> QED BY <1>3, <2>1, <2>2, Zenon DEF EntryKept
<1> QED BY <1>2, <1>3, Zenon DEF InStep, Brought

LEMMA LedKept ==
    ASSUME NEW p \in Loader, Led(p), regos'[RequestName] = regos[RequestName],
           \A q \in Loader : StaysOnWay(q)
    PROVE  Led(p)'
<1> SUFFICES ASSUME pc'[p] = "load", task'[p] = "request", ~got'[p].updated,
                    since'[p] \subseteq Valid, regos'[RequestName] \notin since'[p] \cup {Absent}
             PROVE  OnItsWay(p, got[p].data, TRUE)'
  BY Zenon DEF Led
<1>1. /\ pc[p] = "load" /\ task[p] = "request" /\ got'[p] = got[p]
      /\ since[p] \subseteq since'[p]
  BY Zenon DEF StaysOnWay
<1>2. since[p] \subseteq Valid /\ regos[RequestName] \notin since[p] \cup {Absent}
  BY <1>1, Zenon
<1>3. OnItsWay(p, got[p].data, TRUE)
  BY <1>1, <1>2, Zenon DEF Led
<1>4. PICK q \in Loader \ {p} : Loading(q) /\ got[q].data = got[p].data /\ got[q].updated
  BY <1>3, Zenon DEF OnItsWay
<1>5. Loading(q)' /\ got'[q] = got[q]
  BY <1>4, Zenon DEF StaysOnWay
<1> QED BY <1>1, <1>4, <1>5, Zenon DEF OnItsWay

LEMMA UnspoiltKept ==
    ASSUME Unspoilt, EntryKept, regos'[RequestName] = regos[RequestName],
           \A q \in Loader : StaysOnWay(q)
    PROVE  Unspoilt'
<1>1. InStep'
  BY InStepKept, Zenon DEF Unspoilt, StaysOnWay
<1>2. \A p \in Loader : Led(p)'
  BY LedKept, Zenon DEF Unspoilt
<1> QED BY <1>1, <1>2, Zenon DEF Unspoilt

(* What CurrentInv says while r.regos is not known to be out of step.      *)
InStepInv == RequestName \notin spoilt => Unspoilt

(* The steps of the folder and of the file cache.                          *)
LEMMA UnspoiltWork ==
    ASSUME RegoInv, InStepInv, NEW n \in Name,
           EditFolder \/ CloseCache \/ FileCacheWork(n)
    PROVE  InStepInv'
<1>0. FCInv /\ FCTypeOK /\ RegoTypeOK /\ RequestName \in Name
  BY RegoCacheAssumption, Zenon DEF RegoInv, FCInv
<1>1. Scheduled(RequestName) => Scheduled(RequestName)'
  BY <1>0, ScheduledKept, Zenon DEF EditFolder, CloseCache, FileCacheWork
<1>2. CASE EditFolder
  <2>1. UNCHANGED <<fileData, dirty, failed>>
    BY <1>0, <1>2, EnvLemma, Zenon DEF EditFolder, cacheSide, cacheVars
  <2>2. UNCHANGED <<regos, pc, task, target, got, spoilt>>
    BY <1>2, Zenon DEF EditFolder
  <2>3. \A p \in Loader : since[p] \subseteq since'[p]
    BY <1>2, Zenon DEF EditFolder
  <2>4. EntryKept
    BY <1>1, <2>1, Zenon DEF EntryKept, GetHit
  <2>5. \A q \in Loader : StaysOnWay(q)
    BY <2>2, <2>3, Zenon DEF StaysOnWay, Loading
  <2> QED BY <2>2, <2>4, <2>5, UnspoiltKept, Zenon DEF InStepInv
<1>3. CASE /\ CloseCache \/ Watch \/ StartWatcher \/ WatcherEvent \/ TimerExpire(n) \/ TimerFunc(n)
           /\ UNCHANGED regoVars
  <2>1. UNCHANGED <<regos, pc, task, target, got, since, spoilt>>
    BY <1>3, Zenon DEF regoVars
  <2>2. EntryKept
    <3>1. CASE UNCHANGED cacheVars
      BY <1>1, <3>1, Zenon DEF cacheVars, GetHit, EntryKept
    <3>2. CASE WatcherEvent
      <4>1. ShouldProcess(Head(events).name) => Head(events).name \in Name
        BY FileCacheAssumption, Zenon DEF ShouldProcess
      <4>2. ASSUME NEW m \in Name, NEW op, Invalidate(m, op) PROVE EntryKept
        BY <1>0, <1>1, <4>2, InvalidateLemma, Zenon DEF GetHit, EntryKept, Scheduled
      <4> QED BY <3>1, <3>2, <4>1, <4>2, Zenon DEF WatcherEvent
    <3>3. CASE ~WatcherEvent
      <4>1. UNCHANGED cacheVars
        BY <1>3, <3>3, Zenon DEF CloseCache, Close, Watch, StartWatcher, TimerExpire, TimerFunc
      <4> QED BY <3>1, <4>1, Zenon
    <3> QED BY <3>2, <3>3, Zenon
  <2>3. \A q \in Loader : StaysOnWay(q)
    BY <2>1, Zenon DEF StaysOnWay, Loading
  <2> QED BY <2>1, <2>2, <2>3, UnspoiltKept, Zenon DEF InStepInv
<1>4. CASE /\ Prefetch(n) /\ UNCHANGED <<regos, pc, task, target, got, reply, since, misled>>
           /\ spoilt' = spoilt \cup {m \in {n} : /\ GetResult(m).updated
                                               /\ ~NeedsNoFlag(m, GetResult(m))}
  <2>1. UNCHANGED <<regos, pc, task, target, got, since>> /\ spoilt \subseteq spoilt'
    BY <1>4, Zenon
  <2>2. Get(n)
    BY <1>4, Zenon DEF Prefetch
  <2>3. \A q \in Loader : StaysOnWay(q)
    BY <2>1, Zenon DEF StaysOnWay, Loading
  <2>4. CASE GetResult(n).updated /\ n = RequestName
    <3>1. SUFFICES ASSUME RequestName \notin spoilt' PROVE Unspoilt'
      BY Zenon DEF InStepInv
    <3>2. NeedsNoFlag(RequestName, GetResult(RequestName)) /\ Unspoilt
      BY <1>4, <2>1, <2>4, <3>1, Zenon DEF InStepInv
    <3>3. ~GetResult(RequestName).err
      BY <2>4, Zenon DEF GetResult
    <3>4. fileData'[RequestName] = GetResult(RequestName).data
      BY <1>0, <2>2, <2>4, <3>3, GetEntry, Zenon
    <3>5. Absent \notin Valid
      BY RegoCacheAssumption, FileCacheAssumption, Zenon
    <3>6. InStep'
      BY <1>1, <2>1, <3>2, <3>4, <3>5, Zenon DEF NeedsNoFlag, InStep, GoneIsDue
    <3>7. \A p \in Loader : Led(p)'
      BY <2>1, <2>3, <3>2, LedKept, Zenon DEF Unspoilt
    <3> QED BY <3>6, <3>7, Zenon DEF Unspoilt
  <2>5. CASE ~(GetResult(n).updated /\ n = RequestName)
    <3>1. EntryKept
      BY <1>0, <1>1, <2>2, <2>5, GetKept, Zenon
    <3> QED BY <2>1, <2>3, <3>1, UnspoiltKept, Zenon DEF InStepInv
  <2> QED BY <2>4, <2>5, Zenon
<1>5. CASE CloseCache
  BY <1>3, <1>5, Zenon DEF CloseCache
<1>6. CASE FileCacheWork(n)
  BY <1>3, <1>4, <1>6, Zenon DEF FileCacheWork
<1> QED BY <1>2, <1>5, <1>6, Zenon

(* Watch loads a file: nobody else is in GetRego yet.                      *)
LEMMA UnspoiltScan ==
    ASSUME RegoInv, EarlyQuiet, InStepInv, NEW n \in Name, ScanRego(n)
    PROVE  InStepInv'
<1>0. FCInv /\ FCTypeOK /\ RegoTypeOK /\ RequestName \in Name
  BY RegoCacheAssumption, Zenon DEF RegoInv, FCInv
<1>1. /\ phase = "scanning" /\ Get(n) /\ UNCHANGED <<pc, target, got, reply, since, spoilt>>
      /\ regos' = IF GetResult(n).err THEN regos
                  ELSE [regos EXCEPT ![n] = LoadedRego(n, GetResult(n))]
  BY Zenon DEF ScanRego, ScanFile
<1>2. \A p \in Loader : pc[p] = "idle" /\ pc'[p] = "idle"
  BY <1>1, Zenon DEF EarlyQuiet
<1>3. CASE n # RequestName \/ GetResult(n).err
  <2>1. regos'[RequestName] = regos[RequestName]
    BY <1>0, <1>1, <1>3, Zenon DEF RegoTypeOK
  <2>2. EntryKept
    <3>1. GetResult(n).err => ~GetResult(n).updated
      BY Zenon DEF GetResult
    <3>2. Scheduled(RequestName) => Scheduled(RequestName)'
      BY <1>0, ScheduledKept, Zenon DEF ScanRego
    <3> QED BY <1>0, <1>1, <1>3, <3>1, <3>2, GetKept, Zenon
  <2>3. \A q \in Loader : StaysOnWay(q)
    BY <1>2, Zenon DEF StaysOnWay, Loading
  <2> QED BY <1>1, <2>1, <2>2, <2>3, UnspoiltKept, Zenon DEF InStepInv
<1>4. CASE n = RequestName /\ ~GetResult(n).err
  <2> DEFINE r == GetResult(RequestName)
  <2>1. regos'[RequestName] = LoadedRego(RequestName, r)
    BY <1>0, <1>1, <1>4, Zenon DEF RegoTypeOK
  <2>2. fileData'[RequestName] = r.data
    BY <1>0, <1>1, <1>4, GetEntry, Zenon
  <2>3. ~r.updated => GetHit(RequestName) /\ r.data = fileData[RequestName]
    BY <1>0, <1>1, <1>4, GetEntry, Zenon
  <2>4. RequestName \notin spoilt => InStep
    BY Zenon DEF InStepInv, Unspoilt
  <2>5. ASSUME RequestName \notin spoilt, r.data \in Valid
        PROVE  LoadedRego(RequestName, r) = r.data
    <3>1. Absent \notin Valid
      BY RegoCacheAssumption, FileCacheAssumption, Zenon
    <3>2. ~r.updated => regos[RequestName] \in {r.data, Absent}
      BY <1>2, <2>3, <2>4, <2>5, Zenon DEF InStep, Brought, Loading
    <3> QED BY <2>5, <3>1, <3>2, Zenon DEF LoadedRego, MustCompile
  <2>6. r.data = Absent => LoadedRego(RequestName, r) = Absent
    BY Zenon DEF LoadedRego
  <2>7. RequestName \notin spoilt => InStep'
    BY <2>1, <2>2, <2>5, <2>6, Zenon DEF InStep
  <2>8. \A p \in Loader : Led(p)'
    BY <1>2, Zenon DEF Led
  <2> QED BY <1>1, <2>7, <2>8, Zenon DEF InStepInv, Unspoilt
<1> QED BY <1>3, <1>4, Zenon

(* A goroutine p gets the policy's text: with the flag it is the one on    *)
(* the way, without it the entry was clean.                                *)
LEMMA UnspoiltGet ==
    ASSUME RegoInv, Unspoilt, NEW p \in Loader, FreshFor(p)', Get(RequestName),
           ~GetResult(RequestName).err, pc[p] # "load",
           Loading(p)', got'[p] = [data |-> GetResult(RequestName).data,
                                   updated |-> GetResult(RequestName).updated],
           \A q \in Loader \ {p} : LocalSame(q),
           UNCHANGED regos
    PROVE  Unspoilt'
<1>0. FCTypeOK /\ RequestName \in Name
  BY RegoCacheAssumption, Zenon DEF RegoInv, FCInv
<1> DEFINE d == GetResult(RequestName).data
           u == GetResult(RequestName).updated
<1>1. got'[p].data = d /\ got'[p].updated = u
  OBVIOUS
<1>2. fileData'[RequestName] = d /\ (~u => GetHit(RequestName) /\ d = fileData[RequestName])
  BY <1>0, GetEntry, Zenon
<1>3. \A q \in Loader : Loading(q) => q # p /\ Loading(q)' /\ got'[q] = got[q]
  BY Zenon DEF Loading, LocalSame
<1>4. Loading(p)' /\ got'[p].data = d /\ (u => got'[p].updated)
  BY <1>1, Zenon
<1>5. ~u /\ d \in Valid => \/ regos[RequestName] \in {d, Absent}
                           \/ OnItsWay(p, d, TRUE)
  BY <1>2, <1>3, Zenon DEF Unspoilt, InStep, Brought, OnItsWay
<1>6. OnItsWay(p, d, TRUE) => \E q \in Loader \ {p} : Loading(q)' /\ got'[q].data = d /\ got'[q].updated
  BY <1>3, Zenon DEF OnItsWay
<1>7. InStep'
  <2>1. CASE u
    BY <1>2, <1>4, <2>1, Zenon DEF InStep, Brought
  <2>2. CASE ~u
    BY <1>2, <1>4, <1>5, <1>6, <2>2, Zenon DEF InStep, Brought
  <2> QED BY <2>1, <2>2, Zenon
<1>8. Led(p)'
  <2> SUFFICES ASSUME pc'[p] = "load", task'[p] = "request", ~u, since'[p] \subseteq Valid
               PROVE  regos'[RequestName] \in since'[p] \cup {Absent} \/ OnItsWay(p, got[p].data, TRUE)'
    BY <1>1, Zenon DEF Led
  <2>1. d \in since'[p]
    BY <1>1, Zenon DEF FreshFor
  <2> QED BY <1>1, <1>5, <1>6, <2>1, Zenon DEF OnItsWay
<1>9. ASSUME NEW q \in Loader \ {p} PROVE Led(q)'
  <2>1. Led(q) /\ LocalSame(q)
    BY Zenon DEF Unspoilt
  <2>2. OnItsWay(q, got[q].data, TRUE)
          => \E k \in Loader \ {q} : Loading(k)' /\ got'[k].data = got[q].data /\ got'[k].updated
    BY <1>3, Zenon DEF OnItsWay
  <2> QED BY <2>1, <2>2, Zenon DEF Led, LocalSame, OnItsWay
<1> QED BY <1>7, <1>8, <1>9, Zenon DEF Unspoilt

(* A goroutine p that must compile the text of the entry, or deletes a     *)
(* policy without one, brings r.regos in step, whatever it was before.     *)
LEMMA UnspoiltHealed ==
    ASSUME RegoInv, FreshInv, NEW p \in Loader, Load(p), target[p] = RequestName,
           \A q \in Loader : ReadSince(q),
           StoresNew(RequestName, got[p])
    PROVE  Unspoilt'
<1>0. RegoTypeOK /\ RequestName \in Name /\ Absent \notin Valid
  BY RegoCacheAssumption, FileCacheAssumption, Zenon DEF RegoInv
<1> DEFINE E == fileData[RequestName]
<1>1. /\ UNCHANGED <<fileData, since>> /\ pc'[p] \in {"idle", "done"}
      /\ regos'[RequestName] = LoadedRego(RequestName, got[p])
  BY <1>0, Zenon DEF Load, fcVars, cacheVars, RegoTypeOK
<1>2. E \in Valid \cup {Absent} => regos'[RequestName] = E
  BY <1>1, Zenon DEF LoadedRego, StoresNew
<1>3. InStep'
  BY <1>1, <1>2, Zenon DEF InStep
<1>4. ASSUME NEW q \in Loader PROVE Led(q)'
  <2> SUFFICES ASSUME pc'[q] = "load", task'[q] = "request", since[q] \subseteq Valid
               PROVE  regos'[RequestName] \in since[q] \cup {Absent}
    BY <1>1, Zenon DEF Led
  <2>1. pc[q] = "load" /\ task[q] = "request"
    BY <1>0, <1>1, Zenon DEF Load, RegoTypeOK
  <2>2. E \in since[q] \cup {Absent}
    BY <2>1, Zenon DEF ReadSince
  <2> QED BY <1>2, <2>2, Zenon
<1> QED BY <1>3, <1>4, Zenon DEF Unspoilt

(* A goroutine p that leaves r.regos in step: it changes nothing, or it    *)
(* has the text of the entry.                                              *)
LEMMA UnspoiltLoad ==
    ASSUME RegoInv, FreshInv, Unspoilt, NEW p \in Loader, Load(p), target[p] = RequestName,
           \A q \in Loader : ReadSince(q),
           ~StoresOld(RequestName, got[p]), ~StoresNew(RequestName, got[p])
    PROVE  Unspoilt'
<1>0. RegoTypeOK /\ RequestName \in Name /\ Absent \notin Valid
  BY RegoCacheAssumption, FileCacheAssumption, Zenon DEF RegoInv
<1> DEFINE E == fileData[RequestName]
           r == got[p]
<1>1. /\ UNCHANGED <<fileData, dirty, failed, running, firing, calling, target, since>>
      /\ pc'[p] \in {"idle", "done"}
      /\ regos'[RequestName] = LoadedRego(RequestName, r)
  BY <1>0, Zenon DEF Load, fcVars, cacheVars, timerVars, RegoTypeOK
<1>2. \A q \in Loader \ {p} : LocalSame(q)
  BY <1>0, Zenon DEF Load, LocalSame, RegoTypeOK
<1>3. \/ r.data # E /\ LoadedRego(RequestName, r) = regos[RequestName]
      \/ r.data = E /\ ~MustCompile(RequestName, r)
  BY Zenon DEF StoresOld, StoresNew
<1>4. r.data = E /\ E # Absent => /\ LoadedRego(RequestName, r) = regos[RequestName]
                                  /\ regos[RequestName] # Absent /\ ~r.updated
  BY <1>3, Zenon DEF LoadedRego, MustCompile
<1>5. r.data = Absent => LoadedRego(RequestName, r) = Absent
  BY Zenon DEF LoadedRego
<1>6. \A q \in Loader : Loading(q) /\ q # p => Loading(q)' /\ got'[q] = got[q]
  BY <1>2, Zenon DEF Loading, LocalSame
<1>7. InStep'
  <2>1. ASSUME NEW d, NEW u, Brought(d, u), ~(r.data = d /\ (u => r.updated))
        PROVE  \E q \in Loader : Loading(q)' /\ got'[q].data = d /\ (u => got'[q].updated)
    BY <1>6, <2>1, Zenon DEF Brought
  <2>2. UNCHANGED <<GetHit(RequestName), GoneIsDue, Scheduled(RequestName)>>
    BY <1>1, Zenon DEF GetHit, GoneIsDue, Scheduled
  <2>3. ASSUME GetHit(RequestName), E \in Valid
        PROVE  \/ regos'[RequestName] = E
               \/ regos'[RequestName] = Absent
                    /\ (Scheduled(RequestName) \/ Brought(E, FALSE)')
               \/ Brought(E, TRUE)'
    <3>1. regos'[RequestName] = regos[RequestName]
      BY <1>0, <1>1, <1>3, <1>4, <2>3, Zenon
    <3>2. Brought(E, TRUE) => Brought(E, TRUE)'
      BY <1>0, <1>1, <1>3, <1>4, <2>1, <2>3, Zenon DEF Brought, MustCompile
    <3>3. regos[RequestName] = Absent /\ Brought(E, FALSE) => Brought(E, FALSE)'
      BY <1>0, <1>1, <1>4, <2>1, <2>3, Zenon DEF Brought
    <3> QED BY <2>3, <3>1, <3>2, <3>3, Zenon DEF Unspoilt, InStep
  <2>4. ASSUME E = Absent
        PROVE  regos'[RequestName] = Absent \/ GoneIsDue \/ Brought(Absent, FALSE)'
    <3>1. CASE r.data = Absent
      BY <1>1, <1>5, <3>1, Zenon
    <3>2. CASE r.data # Absent
      <4>1. Brought(Absent, FALSE) => Brought(Absent, FALSE)'
        BY <2>1, <3>2, Zenon DEF Brought
      <4> QED BY <1>1, <1>3, <2>4, <3>2, <4>1, Zenon DEF Unspoilt, InStep
    <3> QED BY <3>1, <3>2, Zenon
  <2> QED BY <1>1, <2>2, <2>3, <2>4, Zenon DEF InStep
<1>8. ASSUME NEW q \in Loader PROVE Led(q)'
  <2> SUFFICES ASSUME pc'[q] = "load", task'[q] = "request", ~got'[q].updated,
                      since[q] \subseteq Valid,
                      regos'[RequestName] \notin since[q] \cup {Absent}
               PROVE  OnItsWay(q, got[q].data, TRUE)'
    BY <1>1, Zenon DEF Led
  <2>1. q # p /\ LocalSame(q)
    BY <1>1, <1>2, Zenon
  <2>2. pc[q] = "load" /\ task[q] = "request" /\ ~got[q].updated /\ got'[q] = got[q]
    BY <2>1, Zenon DEF LocalSame
  <2>3. regos'[RequestName] = regos[RequestName]
    <3>1. r.data = E /\ E = Absent => regos'[RequestName] = Absent
      BY <1>1, <1>5, Zenon
    <3> QED BY <1>1, <1>3, <1>4, <3>1, Zenon
  <2>4. OnItsWay(q, got[q].data, TRUE)
    BY <2>2, <2>3, Zenon DEF Unspoilt, Led
  <2>5. PICK k \in Loader \ {q} : Loading(k) /\ got[k].data = got[q].data /\ got[k].updated
    BY <2>4, Zenon DEF OnItsWay
  <2>6. got[q].data \in since[q] /\ got[q].data \in Valid
    BY <2>2, Zenon DEF FreshInv, FreshFor
  <2>7. k # p
    <3> SUFFICES ASSUME k = p PROVE FALSE
      OBVIOUS
    <3>1. LoadedRego(RequestName, r) = r.data
      BY <1>0, <2>5, <2>6, Zenon DEF LoadedRego, MustCompile
    <3> QED BY <1>1, <2>5, <2>6, <3>1, Zenon
  <2> QED BY <1>6, <2>2, <2>5, <2>7, Zenon DEF OnItsWay
<1> QED BY <1>7, <1>8, Zenon DEF Unspoilt

LEMMA UnspoiltLoader ==
    ASSUME RegoInv, FreshInv, FreshInv', InStepInv, \A q \in Loader : ReadSince(q),
           NEW p \in Loader, LoaderStep(p)
    PROVE  InStepInv'
<1>0. FCInv /\ FCTypeOK /\ RegoTypeOK /\ RequestName \in Name /\ FreshFor(p) /\ FreshFor(p)'
  BY RegoCacheAssumption, Zenon DEF RegoInv, FCInv, FreshInv
<1>1. SUFFICES ASSUME RequestName \notin spoilt' PROVE Unspoilt'
  BY Zenon DEF InStepInv
<1>2. \A q \in Loader \ {p} : LocalSame(q)
  BY <1>0, Zenon DEF LoaderStep, BeginRequest, RequestGet, ReloadGet, Load, EndRequest, LocalSame,
              RegoTypeOK
<1>3. ASSUME regos'[RequestName] = regos[RequestName], ~Loading(p), UNCHANGED spoilt,
             pc'[p] # "load" \/ task'[p] # "request", EntryKept
      PROVE  Unspoilt'
  <2>1. \A q \in Loader : StaysOnWay(q)
    BY <1>2, <1>3, Zenon DEF StaysOnWay, Loading, LocalSame
  <2> QED BY <1>1, <1>3, <2>1, UnspoiltKept, Zenon DEF InStepInv
<1>4. CASE BeginRequest(p) \/ EndRequest(p)
  <2>1. UNCHANGED <<regos, fileData, dirty, failed, running, firing, calling, spoilt>>
    BY <1>4, Zenon DEF BeginRequest, EndRequest, fcVars, cacheVars, timerVars
  <2>2. pc[p] \in {"idle", "done"} /\ pc'[p] \in {"get", "idle"}
    BY <1>0, <1>4, Zenon DEF BeginRequest, EndRequest, RegoTypeOK
  <2>3. EntryKept
    BY <2>1, Zenon DEF EntryKept, GetHit, Scheduled
  <2> QED BY <1>3, <2>1, <2>2, <2>3, Zenon DEF Loading
<1>5. CASE RequestGet(p)
  <2>1. /\ pc[p] = "get" /\ target[p] = RequestName /\ UNCHANGED <<regos, target, spoilt>>
        /\ Get(RequestName)
    BY <1>0, <1>5, Zenon DEF RequestGet, ClientGet, FreshFor, Asking
  <2>2. CASE GetResult(RequestName).err
    <3>1. pc'[p] = "done"
      BY <1>0, <1>5, <2>1, <2>2, Zenon DEF RequestGet, RegoTypeOK
    <3>2. EntryKept
      <4>1. ~GetResult(RequestName).updated
        BY <2>2, Zenon DEF GetResult
      <4> QED BY <1>0, <2>1, <2>2, <4>1, GetKept, Zenon
    <3> QED BY <1>3, <2>1, <3>1, <3>2, Zenon DEF Loading
  <2>3. CASE ~GetResult(RequestName).err
    <3>1. /\ pc'[p] = "load"
          /\ got'[p] = [data |-> GetResult(RequestName).data,
                        updated |-> GetResult(RequestName).updated]
      BY <1>0, <1>5, <2>1, <2>3, Zenon DEF RequestGet, RegoTypeOK
    <3>2. Loading(p)' /\ Unspoilt
      BY <1>1, <2>1, <3>1, Zenon DEF Loading, InStepInv
    <3> QED BY <1>0, <1>2, <2>1, <2>3, <3>1, <3>2, UnspoiltGet, Zenon
  <2> QED BY <2>2, <2>3, Zenon
<1>6. ASSUME NEW n \in Name, ReloadGet(p, n) PROVE Unspoilt'
  <2>1. pc[p] = "idle" /\ Get(n) /\ UNCHANGED <<regos, spoilt>>
    BY <1>6, Zenon DEF ReloadGet, CallbackGet
  <2>2. n # RequestName /\ Scheduled(RequestName) => Scheduled(RequestName)'
    BY <1>0, <1>6, ScheduledKept, Zenon DEF ReloadGet
  <2>3. CASE GetResult(n).err
    <3>1. UNCHANGED pc
      BY <1>6, <2>3, Zenon DEF ReloadGet
    <3>2. EntryKept
      <4>1. ~GetResult(n).updated
        BY <2>3, Zenon DEF GetResult
      <4> QED BY <1>0, <2>1, <2>3, <2>2, <4>1, GetKept, Zenon
    <3> QED BY <1>3, <2>1, <3>1, <3>2, Zenon DEF Loading
  <2>4. CASE ~GetResult(n).err
    <3>1. /\ pc'[p] = "load" /\ target'[p] = n /\ task'[p] = "reload"
          /\ got'[p] = [data |-> GetResult(n).data, updated |-> GetResult(n).updated]
      BY <1>0, <1>6, <2>4, Zenon DEF ReloadGet, RegoTypeOK
    <3>2. CASE n = RequestName
      <4>1. Loading(p)' /\ Unspoilt
        BY <1>1, <2>1, <3>1, <3>2, Zenon DEF Loading, InStepInv
      <4> QED BY <1>0, <1>2, <2>1, <2>4, <3>1, <3>2, <4>1, UnspoiltGet, Zenon
    <3>3. CASE n # RequestName
      <4>1. EntryKept
        BY <1>0, <2>1, <2>2, <3>3, GetKept, Zenon
      <4> QED BY <1>3, <2>1, <3>1, <4>1, Zenon DEF Loading
    <3> QED BY <3>2, <3>3, Zenon
  <2> QED BY <2>3, <2>4, Zenon
<1>7. CASE Load(p)
  <2>1. spoilt' = (spoilt \cup {m \in {target[p]} : StoresOld(m, got[p])})
                     \ {m \in {target[p]} : StoresNew(m, got[p])}
    BY <1>7, Zenon DEF Load
  <2>2. CASE target[p] # RequestName
    <3>1. /\ regos'[RequestName] = regos[RequestName] /\ RequestName \notin spoilt
          /\ UNCHANGED <<fileData, dirty, failed, running, firing, calling>>
      BY <1>0, <1>1, <1>7, <2>1, <2>2, Zenon
         DEF Load, RegoTypeOK, fcVars, cacheVars, timerVars
    <3>2. pc'[p] = "idle"
      BY <1>0, <1>7, <2>2, Zenon DEF Load, RegoTypeOK, FreshFor, Asking
    <3>3. EntryKept
      BY <3>1, Zenon DEF EntryKept, GetHit, Scheduled
    <3>4. \A q \in Loader : StaysOnWay(q)
      BY <1>2, <2>2, <3>2, Zenon DEF StaysOnWay, Loading, LocalSame
    <3> QED BY <3>1, <3>3, <3>4, UnspoiltKept, Zenon DEF InStepInv
  <2>3. CASE target[p] = RequestName /\ StoresNew(RequestName, got[p])
    BY <1>7, <2>3, UnspoiltHealed, Zenon
  <2>4. CASE target[p] = RequestName /\ ~StoresNew(RequestName, got[p])
    <3>1. RequestName \notin spoilt /\ ~StoresOld(RequestName, got[p])
      BY <1>1, <2>1, <2>4, Zenon
    <3> QED BY <1>7, <2>4, <3>1, UnspoiltLoad, Zenon DEF InStepInv
  <2> QED BY <2>2, <2>3, <2>4, Zenon
<1> QED BY <1>4, <1>5, <1>6, <1>7, Zenon DEF LoaderStep

(* A request takes the policy it found, or the one it compiled.            *)
LEMMA CurrentLoad ==
    ASSUME RegoInv, FreshInv, InStepInv, NEW p \in Loader, Load(p), p \notin misled'
    PROVE  Current(p)'
<1>0. RegoTypeOK /\ Absent \notin Valid /\ Failure \cap Valid = {} /\ FreshFor(p)
  BY RegoCacheAssumption, FileCacheAssumption, Zenon DEF RegoInv, FreshInv
<1> SUFFICES ASSUME pc'[p] = "done", reply'[p] \in Valid, since'[p] \subseteq Valid
             PROVE  reply'[p] \in since'[p]
  BY Zenon DEF Current
<1> DEFINE r == got[p]
<1>1. /\ pc[p] = "load" /\ task[p] = "request" /\ UNCHANGED since
      /\ reply'[p] = RegoResult(target[p], r) /\ ~Misleads(p)
  BY <1>0, Zenon DEF Load, RegoTypeOK
<1>2. target[p] = RequestName /\ r.data \in since[p]
  BY <1>0, <1>1, Zenon DEF FreshFor, Asking
<1>3. CASE MustCompile(RequestName, r)
  BY <1>0, <1>1, <1>2, <1>3, Zenon DEF RegoResult, Failure
<1>4. CASE ~MustCompile(RequestName, r)
  <2>1. regos[RequestName] # Absent /\ ~r.updated
    BY <1>4, Zenon DEF MustCompile
  <2>2. RequestName \notin spoilt
    BY <1>1, <1>2, <1>4, Zenon DEF Misleads
  <2>3. ~OnItsWay(p, r.data, TRUE)
    <3> SUFFICES ASSUME NEW q \in Loader \ {p}, Loading(q), got[q].data = r.data, got[q].updated
                 PROVE  FALSE
      BY Zenon DEF OnItsWay
    <3>1. got[q] = [data |-> r.data, updated |-> TRUE]
      BY <1>0 DEF RegoTypeOK
    <3> QED BY <1>1, <1>2, <1>4, <3>1, Zenon DEF Misleads, Loading
  <2>4. regos[RequestName] \in since[p]
    BY <1>1, <2>1, <2>2, <2>3, Zenon DEF InStepInv, Unspoilt, Led
  <2>5. r.data # Absent
    BY <1>0, <1>1, <1>2, Zenon
  <2> QED BY <1>1, <1>2, <1>4, <2>4, <2>5, Zenon DEF RegoResult
<1> QED BY <1>3, <1>4, Zenon

LEMMA CurrentStep ==
    ASSUME RegoInv, FreshInv, InStepInv, [Next]_vars, NEW p \in Loader,
           p \notin misled => Current(p), p \notin misled'
    PROVE  Current(p)'
<1>0. RegoTypeOK
  BY Zenon DEF RegoInv
<1>1. ASSUME pc'[p] = "done" => /\ pc[p] = "done" /\ reply'[p] = reply[p]
                                /\ since'[p] = since[p] /\ p \notin misled
      PROVE  Current(p)'
  BY <1>1, Zenon DEF Current
<1>2. CASE EditFolder
  BY <1>1, <1>2, Zenon DEF EditFolder
<1>3. ASSUME NEW n \in Name, FileCacheWork(n) \/ ScanRego(n) PROVE Current(p)'
  BY <1>1, <1>3, Zenon DEF FileCacheWork, ScanRego, regoVars
<1>4. CASE CloseCache \/ UNCHANGED vars
  BY <1>1, <1>4, Zenon DEF CloseCache, vars, regoVars
<1>5. ASSUME NEW q \in Loader, LoaderStep(q), q # p PROVE Current(p)'
  <2>1. LocalSame(p)
    BY <1>0, <1>5, Zenon DEF LoaderStep, BeginRequest, RequestGet, ReloadGet, Load, EndRequest,
                       LocalSame, RegoTypeOK
  <2>2. p \notin misled
    BY <1>5, Zenon DEF LoaderStep, BeginRequest, RequestGet, ReloadGet, Load, EndRequest
  <2> QED BY <1>1, <2>1, <2>2, Zenon DEF LocalSame
<1>6. CASE BeginRequest(p) \/ EndRequest(p) \/ \E n \in Name : ReloadGet(p, n)
  <2>1. pc'[p] # "done"
    BY <1>0, <1>6, Zenon DEF BeginRequest, EndRequest, ReloadGet, RegoTypeOK
  <2> QED BY <1>1, <2>1, Zenon
<1>7. CASE RequestGet(p)
  <2>1. pc'[p] = "load" \/ reply'[p] = "readError"
    BY <1>0, <1>7, Zenon DEF RequestGet, RegoTypeOK
  <2>2. "readError" \notin Valid
    BY RegoCacheAssumption, Zenon DEF Failure
  <2> QED BY <1>1, <2>1, <2>2, Zenon DEF Current
<1>8. CASE Load(p)
  BY <1>8, CurrentLoad, Zenon
<1> QED BY <1>2, <1>3, <1>4, <1>5, <1>6, <1>7, <1>8, Zenon DEF Next, LoaderStep

LEMMA CurrentInvariant == RequestName \in Watched /\ Spec => []CurrentInv
<1>1. Init => EarlyQuiet /\ CurrentInv
  <2>1. Init => EarlyQuiet
    BY DEF Init, FCInit, EarlyQuiet
  <2>2. Init => \A p \in Loader : pc[p] = "idle"
    BY DEF Init
  <2>3. Init => ~GetHit(RequestName)
    BY RegoCacheAssumption DEF Init, FCInit, GetHit
  <2>4. Init => regos[RequestName] = Absent
    BY RegoCacheAssumption DEF Init
  <2> QED BY <2>1, <2>2, <2>3, <2>4, Zenon
       DEF CurrentInv, ReadSince, Unspoilt, InStep, Led, Current
<1>2. RegoInv /\ EarlyQuiet /\ FreshInv /\ FreshInv' /\ CurrentInv /\ [Next]_vars
        => EarlyQuiet' /\ CurrentInv'
  <2> SUFFICES ASSUME RegoInv, EarlyQuiet, FreshInv, FreshInv', CurrentInv, [Next]_vars
               PROVE  CurrentInv'
    BY EarlyQuietStep, Zenon
  <2>0. InStepInv /\ \A p \in Loader : ReadSince(p) /\ (p \notin misled => Current(p))
    BY Zenon DEF CurrentInv, InStepInv
  <2>1. ASSUME UNCHANGED vars PROVE InStepInv'
    <3>1. /\ UNCHANGED <<regos, pc, task, target, got, since, spoilt>>
          /\ UNCHANGED <<fileData, dirty, failed, running, firing, calling>>
      BY <2>1, Zenon DEF vars, regoVars, fcVars, cacheVars, timerVars
    <3>2. EntryKept
      BY <3>1, Zenon DEF EntryKept, GetHit, Scheduled
    <3>3. \A q \in Loader : StaysOnWay(q)
      BY <3>1, Zenon DEF StaysOnWay, Loading
    <3> QED BY <2>0, <3>1, <3>2, <3>3, UnspoiltKept, Zenon DEF InStepInv
  <2>2. ASSUME EditFolder \/ CloseCache PROVE InStepInv'
    BY <2>0, <2>2, UnspoiltWork, RegoCacheAssumption, Zenon
  <2>3. ASSUME NEW n \in Name, FileCacheWork(n) PROVE InStepInv'
    BY <2>0, <2>3, UnspoiltWork, Zenon
  <2>4. ASSUME NEW n \in Name, ScanRego(n) PROVE InStepInv'
    BY <2>0, <2>4, UnspoiltScan, Zenon
  <2>5. ASSUME NEW p \in Loader, LoaderStep(p) PROVE InStepInv'
    BY <2>0, <2>5, UnspoiltLoader, Zenon
  <2>6. InStepInv'
    BY <2>1, <2>2, <2>3, <2>4, <2>5, Zenon DEF Next
  <2>7. \A p \in Loader : ReadSince(p)'
    BY <2>0, ReadSinceStep, Zenon
  <2>8. \A p \in Loader : p \notin misled' => Current(p)'
    BY <2>0, CurrentStep, Zenon
  <2> QED BY <2>6, <2>7, <2>8, Zenon DEF CurrentInv, InStepInv
<1> QED BY <1>1, <1>2, RegoInvariant, FreshInvariant, PTL DEF Spec

(* PolicyCurrent, for any number of concurrent requests and reloads: the   *)
(* only ways for a request to be decided by an old policy are the two that *)
(* "misled" records.  Led says why: a request that was not told its text   *)
(* is new finds a policy of its time in r.regos while that is in step.     *)
THEOREM PolicyCurrentTheorem == RequestName \in Watched /\ Spec => []PolicyCurrent
<1>1. CurrentInv => PolicyCurrent
  BY Zenon DEF CurrentInv, Current, PolicyCurrent
<1> QED BY <1>1, CurrentInvariant, PTL

(* PolicySettled: once the watcher, the debounce queue and GetRego have    *)
(* nothing left to do for the policy file, /readyz and the requests see    *)
(* exactly that file, unless the last to change r.regos left it out of     *)
(* step.  The file cache is settled (CacheSettled), and InStep ties        *)
(* r.regos to the file cache, with any number of goroutines in GetRego.    *)
THEOREM PolicySettledTheorem == Spec => []PolicySettled
<1>1. CASE RequestName \notin Watched
  <2>1. PolicySettled
    BY <1>1, Zenon DEF PolicySettled, PolicyInStep
  <2> QED BY <2>1, PTL
<1>2. CASE RequestName \in Watched
  <2>1. CacheSettled /\ CurrentInv => PolicySettled
    <3> SUFFICES ASSUME CacheSettled, CurrentInv, AtRest(RequestName), RequestName \notin spoilt,
                        \A p \in Loader : ~Loading(p)
                 PROVE  /\ disk[RequestName] \in Valid => regos[RequestName] = disk[RequestName]
                        /\ disk[RequestName] = Absent => regos[RequestName] = Absent
      BY Zenon DEF PolicySettled, PolicyInStep, Loading
    <3>1. /\ RequestName \notin dirty /\ fileData[RequestName] = disk[RequestName]
          /\ ~Scheduled(RequestName) /\ RequestName \notin failed
      BY <1>2, Zenon DEF CacheSettled, AtRest
    <3>2. InStep /\ \A d, u : ~Brought(d, u)
      BY Zenon DEF CurrentInv, Unspoilt, Brought
    <3>3. Absent \notin Valid
      BY RegoCacheAssumption, FileCacheAssumption, Zenon
    <3> QED BY <3>1, <3>2, <3>3, Zenon DEF InStep, GetHit, GoneIsDue
  <2> QED BY <1>2, <2>1, CurrentInvariant, RegoImplementsFileCache, CacheSettledTheorem, PTL
<1> QED BY <1>1, <1>2, Zenon
=============================================================================

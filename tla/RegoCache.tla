------------------------------ MODULE RegoCache ------------------------------
(***************************************************************************)
(* pkg/regocache on top of pkg/filecache: the compiled policies.           *)
(*                                                                         *)
(* GetRego runs in the goroutine of a request (through Validate) and in    *)
(* the goroutines of the debounce timers (through Callback).  It calls     *)
(* filecache.Get under the file cache's lock, drops that lock, and only    *)
(* then takes its own: the two halves are two steps here.  Every step is a *)
(* step of FileCache, or leaves the file cache alone.                      *)
(***************************************************************************)
EXTENDS FileCache

CONSTANTS
    Loader,       \* bound: goroutines that may be inside GetRego at once
    Requester,    \* bound: those of them that may serve a request
    Valid,        \* the contents that expand, name a package and compile
    RequestName   \* the policy of all requests, whose presence is Ready

Failure == {"nil", "compileError", "readError"}

ASSUME RegoCacheAssumption ==
    /\ Valid \subseteq Content
    /\ RequestName \in Name
    /\ (Failure \cup {"none"}) \cap Content = {}

VARIABLES
    regos,    \* [Name -> Valid or Absent], the text each query came from
    pc,       \* [Loader -> where in GetRego]
    task,     \* [Loader -> on behalf of a request, or of a callback]
    target,   \* [Loader -> Name]
    got,      \* [Loader -> what Get returned: data and the updated flag]
    reply,    \* [Loader -> what GetRego gave Validate]
    since,    \* history: contents the file had since the request began
    spoilt,   \* history: names whose policy is out of step, see Load, Prefetch
    misled    \* history: requests given an old policy for it, see Misleads

regoVars == <<regos, pc, task, target, got, reply, since, spoilt, misled>>
vars     == <<fcVars, regoVars>>

NoGot == [data |-> Absent, updated |-> FALSE]

Anything == Content \cup {Absent}

TypeOK ==
    /\ FCTypeOK
    /\ regos \in [Name -> Valid \cup {Absent}]
    /\ pc \in [Loader -> {"idle", "get", "load", "done"}]
    /\ task \in [Loader -> {"request", "reload"}]
    /\ target \in [Loader -> Name]
    /\ got \in [Loader -> [data : Content \cup {Absent}, updated : BOOLEAN]]
    /\ reply \in [Loader -> Valid \cup Failure \cup {"none"}]
    /\ since \in [Loader -> SUBSET Anything]
    /\ spoilt \subseteq Name
    /\ misled \subseteq Loader

Init ==
    /\ FCInit
    /\ regos = [n \in Name |-> Absent]
    /\ pc = [p \in Loader |-> "idle"]
    /\ task = [p \in Loader |-> "reload"]
    /\ target = [p \in Loader |-> RequestName]
    /\ got = [p \in Loader |-> NoGot]
    /\ reply = [p \in Loader |-> "none"]
    /\ since = [p \in Loader |-> {}]
    /\ spoilt = {}
    /\ misled = {}

-----------------------------------------------------------------------------
(* The half of GetRego that runs under r.mtx, for what Get returned.       *)

(* Mutant: "if found" in place of "if found && !dirty".                    *)
MustCompile_FoundOnly(n, r) == regos[n] = Absent

(* "if found && !dirty" fails.                                             *)
MustCompile(n, r) == regos[n] = Absent \/ r.updated

(* Mutant: the new text is stored although it does not compile.            *)
LoadedRego_StoreFirst(n, r) ==
    IF r.data = Absent THEN Absent
    ELSE IF MustCompile(n, r) THEN r.data ELSE regos[n]

(* Mutant: a policy stays in r.regos when its file is gone.                *)
LoadedRego_KeepRemoved(n, r) ==
    IF r.data \in Valid /\ MustCompile(n, r) THEN r.data ELSE regos[n]

(* r.regos[name] afterwards: deleted with the file, replaced when the new  *)
(* text compiles, left alone otherwise.                                    *)
LoadedRego(n, r) ==
    IF r.data = Absent THEN Absent
    ELSE IF MustCompile(n, r) /\ r.data \in Valid THEN r.data
    ELSE regos[n]

(* Mutant: a policy that is still in r.regos is returned without a look at *)
(* data == nil.                                                            *)
RegoResult_FoundFirst(n, r) ==
    IF regos[n] # Absent /\ r.data \notin Valid THEN regos[n]
    ELSE IF r.data = Absent THEN "nil"
    ELSE IF ~MustCompile(n, r) THEN regos[n]
    ELSE IF r.data \in Valid THEN r.data
    ELSE "compileError"

(* Mutant: the new query is stored, but query is returned as it was found. *)
RegoResult_OldQuery(n, r) ==
    IF r.data = Absent THEN "nil"
    ELSE IF MustCompile(n, r) /\ r.data \notin Valid THEN "compileError"
    ELSE IF regos[n] = Absent THEN "nil"
    ELSE regos[n]

(* What GetRego returns.                                                   *)
RegoResult(n, r) ==
    IF r.data = Absent THEN "nil"
    ELSE IF ~MustCompile(n, r) THEN regos[n]
    ELSE IF r.data \in Valid THEN r.data
    ELSE "compileError"

(* History: GetRego changes r.regos for a text that the file cache has     *)
(* replaced, or dropped, since Get returned it.                            *)
StoresOld(n, r) == r.data # fileData[n] /\ LoadedRego(n, r) # regos[n]

(* History: GetRego brings r.regos in step with the file cache.            *)
StoresNew(n, r) == r.data = fileData[n] /\ MustCompile(n, r)

(* History: GetRego returns the policy it finds, which is out of step, or  *)
(* another goroutine was told that the text p has is new and has yet to    *)
(* take r.mtx with it.                                                     *)
Misleads(p) ==
    /\ ~MustCompile(target[p], got[p])
    /\ \/ target[p] \in spoilt
       \/ \E q \in Loader \ {p} :
            /\ pc[q] = "load" /\ target[q] = target[p]
            /\ got[q] = [data |-> got[p].data, updated |-> TRUE]

-----------------------------------------------------------------------------
(* The watcher has handled all the folder reported.                        *)
Settled == phase = "watching" /\ Len(events) = 0 /\ lost = {}

(* Validate is called for a request; the server starts after Watch.        *)
BeginRequest(p) ==
    /\ phase \in {"watching", "unwatched"}
    /\ p \in Requester /\ pc[p] = "idle"
    /\ pc' = [pc EXCEPT ![p] = "get"]
    /\ task' = [task EXCEPT ![p] = "request"]
    /\ target' = [target EXCEPT ![p] = RequestName]
    /\ since' = [since EXCEPT ![p] = IF Settled THEN {disk[RequestName]}
                                                ELSE Anything]
    /\ UNCHANGED <<fcVars, regos, got, reply, spoilt, misled>>

(* GetRego up to the lock: a read error returns at once.                   *)
RequestGet(p) ==
    LET r == GetResult(target[p])
    IN  /\ pc[p] = "get"
        /\ ClientGet(target[p])
        /\ \/ /\ r.err
              /\ pc' = [pc EXCEPT ![p] = "done"]
              /\ reply' = [reply EXCEPT ![p] = "readError"]
              /\ UNCHANGED got
           \/ /\ ~r.err
              /\ pc' = [pc EXCEPT ![p] = "load"]
              /\ got' = [got EXCEPT ![p] = [data |-> r.data, updated |-> r.updated]]
              /\ UNCHANGED reply
        /\ UNCHANGED <<regos, task, target, since, spoilt, misled>>

(* The same in a timer's goroutine, where Callback logs the error.         *)
ReloadGet(p, n) ==
    LET r == GetResult(n)
    IN  /\ pc[p] = "idle"
        /\ CallbackGet(n)
        /\ \/ /\ r.err
              /\ UNCHANGED <<pc, task, target, got>>
           \/ /\ ~r.err
              /\ pc' = [pc EXCEPT ![p] = "load"]
              /\ task' = [task EXCEPT ![p] = "reload"]
              /\ target' = [target EXCEPT ![p] = n]
              /\ got' = [got EXCEPT ![p] = [data |-> r.data, updated |-> r.updated]]
        /\ UNCHANGED <<regos, reply, since, spoilt, misled>>

(* The rest of GetRego, under r.mtx.                                       *)
Load(p) ==
    LET n == target[p]
        r == got[p]
    IN  /\ pc[p] = "load"
        /\ regos' = [regos EXCEPT ![n] = LoadedRego(n, r)]
        /\ got' = [got EXCEPT ![p] = NoGot]
        /\ \/ /\ task[p] = "request"
              /\ pc' = [pc EXCEPT ![p] = "done"]
              /\ reply' = [reply EXCEPT ![p] = RegoResult(n, r)]
              /\ misled' = misled \cup {q \in {p} : Misleads(q)}
           \/ /\ task[p] = "reload"
              /\ pc' = [pc EXCEPT ![p] = "idle"]
              /\ UNCHANGED <<reply, misled>>
        /\ spoilt' = (spoilt \cup {m \in {n} : StoresOld(m, r)})
                        \ {m \in {n} : StoresNew(m, r)}
        /\ UNCHANGED <<fcVars, task, target, since>>

(* Validate evaluates what it was given, and the request goes on.          *)
EndRequest(p) ==
    /\ pc[p] = "done"
    /\ pc' = [pc EXCEPT ![p] = "idle"]
    /\ reply' = [reply EXCEPT ![p] = "none"]
    /\ task' = [task EXCEPT ![p] = "reload"]
    /\ since' = [since EXCEPT ![p] = {}]
    /\ misled' = misled \ {p}
    /\ UNCHANGED <<fcVars, regos, target, got, spoilt>>

(* Watch loads one file: no other goroutine is inside GetRego yet.         *)
ScanRego(n) ==
    LET r == GetResult(n)
    IN  /\ ScanFile(n)
        /\ regos' = IF r.err THEN regos
                    ELSE [regos EXCEPT ![n] = LoadedRego(n, r)]
        /\ UNCHANGED <<pc, task, target, got, reply, since, spoilt, misled>>

(* The folder changes, in front of the requests being answered.            *)
EditFolder ==
    /\ EnvStep
    /\ since' = [p \in Loader |->
                    IF pc[p] \in {"get", "load"} /\ task[p] = "request"
                    THEN since[p] \cup {disk'[target[p]]} ELSE since[p]]
    /\ UNCHANGED <<regos, pc, task, target, got, reply, spoilt, misled>>

(* History: r.regos will be in step although the updated flag of r is lost *)
(* in a "go c.Get": it is already, or a callback is due and either finds   *)
(* no policy of that name, so that it compiles, or no file, so that it     *)
(* deletes.                                                                *)
NeedsNoFlag(n, r) ==
    \/ regos[n] = r.data
    \/ Scheduled(n) /\ Absent \in {regos[n], r.data}

(* The file cache at work: its steps that call no callback.  A "go c.Get"  *)
(* that reads the file has an updated flag and no use for it.              *)
FileCacheWork(n) ==
    \/ /\ \/ Watch \/ StartWatcher \/ WatcherEvent
          \/ TimerExpire(n) \/ TimerFunc(n)
       /\ UNCHANGED regoVars
    \/ /\ Prefetch(n)
       /\ spoilt' = spoilt \cup {m \in {n} : /\ GetResult(m).updated
                                            /\ ~NeedsNoFlag(m, GetResult(m))}
       /\ UNCHANGED <<regos, pc, task, target, got, reply, since, misled>>

CloseCache ==
    /\ Close
    /\ UNCHANGED regoVars

LoaderStep(p) ==
    \/ BeginRequest(p)
    \/ RequestGet(p)
    \/ \E n \in Name : ReloadGet(p, n)
    \/ Load(p)
    \/ EndRequest(p)

Next ==
    \/ EditFolder
    \/ CloseCache
    \/ \E n \in Name : FileCacheWork(n) \/ ScanRego(n)
    \/ \E p \in Loader : LoaderStep(p)

(* The goroutines of the file cache and of GetRego run when they can.      *)
(* Strong fairness for the callbacks: in the code each has a goroutine of  *)
(* its own, here it competes with the requests for a member of Loader.     *)
Fairness ==
    /\ \A n \in Name :
        /\ WF_vars(FileCacheWork(n)) /\ WF_vars(ScanRego(n))
        /\ SF_vars(\E p \in Loader : ReloadGet(p, n))
    /\ \A p \in Loader : WF_vars(RequestGet(p) \/ Load(p) \/ EndRequest(p))

Spec == Init /\ [][Next]_vars

FairSpec == Spec /\ Fairness

(* Ready, as /readyz reports it.                                           *)
Ready == regos[RequestName] # Absent

-----------------------------------------------------------------------------
(* The text a request's Get returns was the content of the file at some    *)
(* moment since the request began, if the watcher was idle at that moment: *)
(* filecache.Get is a linearizable read of the folder.  Several            *)
(* goroutines, timers and edits have to line up to break it.               *)
FreshData ==
    \A p \in Loader :
        (pc[p] = "load" /\ task[p] = "request") => got[p].data \in since[p]

(* A request that begins after the removal of its policy was handled, and  *)
(* ends before the file is back, is not decided by the removed policy,     *)
(* whatever a slow GetRego put back into r.regos meanwhile.                *)
DeletedNotServed ==
    \A p \in Loader :
        (pc[p] = "done" /\ reply[p] \in Valid) => since[p] # {Absent}

(* A request fails for its policy only if the file really was missing or   *)
(* did not compile at some moment since the request began.  A file that    *)
(* does not compile does fail requests, although r.regos has the policy    *)
(* from before: PreviousPolicyActive, below, is about that.                *)
NoSpuriousFailure ==
    \A p \in Loader :
        (pc[p] = "done" /\ reply[p] \in {"nil", "compileError"})
            => ~(since[p] \subseteq Valid)

(* A request that begins once the watcher is idle, during which the file   *)
(* always is a valid policy, is decided by a policy the file then held,    *)
(* unless GetRego returned the policy it found while                       *)
(* - another goroutine had the updated flag of that very text and had not  *)
(*   compiled it yet, or                                                   *)
(* - the policy found was out of step: the last to change it was a         *)
(*   GetRego whose text the file cache had replaced by then, or the flag   *)
(*   of the last change went to a "go c.Get", which compiles nothing.      *)
(* Nothing else puts a request under an old policy: not the debounce, not  *)
(* a slow or failed reload, not a change while the request is in GetRego.  *)
PolicyCurrent ==
    \A p \in Loader \ misled :
        (pc[p] = "done" /\ reply[p] \in Valid /\ since[p] \subseteq Valid)
            => reply[p] \in since[p]

(* "New requests use updated policy immediately" (docs/POLICY.md:503):     *)
(* when nothing is left to do for the policy file and nobody is on the way *)
(* to r.mtx with its text, the policy in r.regos is that of a valid file,  *)
(* and there is none for a missing one.                                    *)
PolicyInStep ==
    (/\ RequestName \in Watched /\ AtRest(RequestName)
     /\ \A p \in Loader : ~(pc[p] = "load" /\ target[p] = RequestName))
        => /\ disk[RequestName] \in Valid => regos[RequestName] = disk[RequestName]
           /\ disk[RequestName] = Absent => regos[RequestName] = Absent

(* That promise as far as the code keeps it: the reloads are complete      *)
(* unless, since r.regos was last brought in step, a GetRego changed it    *)
(* for a text the file cache had replaced by then, or the updated flag     *)
(* went to a "go c.Get".  The flag is handed out once, so whoever gets it  *)
(* has to compile, and in the order of the Gets.                           *)
PolicySettled == RequestName \notin spoilt => PolicyInStep

(* /readyz settles on the truth: Ready for good once the policy file stays *)
(* valid, not ready for good once it stays away, unless r.regos was left   *)
(* out of step in one of the ways PolicySettled names.  With a request in  *)
(* GetRego during the removal that does happen: it can put the policy back *)
(* after the reload has deleted it, and Ready stays.                       *)
ReadyConverges ==
    LET Healthy == /\ phase = "watching" /\ lost = {} /\ failed = {}
                   /\ RequestName \notin spoilt
    IN  /\ <>[](Healthy /\ disk[RequestName] \in Valid) => <>[]Ready
        /\ <>[](Healthy /\ disk[RequestName] = Absent) => <>[]~Ready

(* "Invalid policies are rejected; previous valid policies remain active"  *)
(* (docs/POLICY.md:509): a request is not failed by a new text that does   *)
(* not compile while r.regos still has the policy from before.             *)
PreviousPolicyActive ==
    \A p \in Loader :
        (pc[p] = "done" /\ reply[p] = "compileError") => regos[RequestName] = Absent
=============================================================================

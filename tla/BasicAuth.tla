------------------------------ MODULE BasicAuth ------------------------------
(***************************************************************************)
(* internal/basicauth: requests are authenticated against an htpasswd file *)
(* that a watcher goroutine reloads, with a cache in front of bcrypt.      *)
(*                                                                         *)
(* A bcrypt hash is represented by the one password it matches.  The       *)
(* requests and the watcher share an atomic pointer (creds) and a cache    *)
(* that is safe for concurrent use, and no lock: every access to one of    *)
(* them is a step of its own.                                              *)
(***************************************************************************)
EXTENDS Naturals

CONSTANTS
    User, Password,
    None,          \* no usable line for the user
    Unsupported,   \* a line whose hash loadFile skips (not bcrypt, cost < 10)
    Missing,       \* the htpasswd file cannot be opened
    Files,         \* what its owner may write into it
    Permissive,    \* PERMISSIVE_AUTH
    BootEdits,     \* may the file change while New runs
    Client,        \* bound: requests inside Authenticate at once
    MaxWrites,     \* bound: writes to the file
    MaxReplaces    \* bound: renames over the file, removals

ASSUME BasicAuthAssumption ==
    /\ User # {} /\ Password # {}
    /\ {None, Unsupported} \cap Password = {}
    /\ Files \subseteq [User -> Password \cup {None, Unsupported}]
    /\ Missing \notin Files
    /\ Permissive \in BOOLEAN /\ BootEdits \in BOOLEAN
    /\ MaxWrites \in Nat /\ MaxReplaces \in Nat

VARIABLES
    file,       \* what the path leads to
    watched,    \* inotify watches the file the path now leads to
    unseen,     \* history: a change since the last load raised no event
    writes, replaces,   \* how much of the bounds is used
    pending,    \* events the watcher has not taken
    booted,     \* New has returned
    wpc,        \* where the watcher goroutine is
    loaded,     \* its local newCreds
    creds,      \* b.creds
    cache,      \* b.cache: set of <<key, valid>>
    everValid,  \* history: pairs that matched a credential map in effect
    pc,         \* [Client -> where in Authenticate]
    cred,       \* [Client -> the user and password of the request]
    hash,       \* [Client -> the local hash]
    match,      \* [Client -> what bcrypt said]
    atStart,    \* history: [Client -> b.creds and the watcher's place then]
    result      \* [Client -> how Authenticate ended]

fileVars  == <<file, watched, unseen, writes, replaces>>
watchVars == <<pending, booted, wpc, loaded>>
authVars  == <<pc, cred, hash, match, atStart, result>>
vars      == <<fileVars, watchVars, creds, cache, everValid, authVars>>

CredMap  == [User -> Password \cup {None}]
Pair     == [user : User, password : Password]

-----------------------------------------------------------------------------
(* loadFile: lines it cannot use are skipped, no usable line is an error.  *)
Parsed(f) == [u \in User |-> IF f[u] \in Password THEN f[u] ELSE None]

Loadable(f) == f # Missing /\ \E u \in User : f[u] \in Password

Matching(m) == {k \in Pair : m[k.user] = k.password}

(* Mutant: the password is left out of the key.                            *)
CacheKey_UserOnly(u, p) == [user |-> u, password |-> CHOOSE q \in Password : TRUE]

(* createCacheKey: user and password, not the hash they are compared with. *)
CacheKey(u, p) == [user |-> u, password |-> p]

NoCreds == [u \in User |-> None]
NoCred  == [user |-> None, password |-> None]

(* New has read the file and is about to watch it.                         *)
Init ==
    /\ file \in {f \in Files : Loadable(f)}
    /\ watched = FALSE /\ unseen = FALSE
    /\ writes = 0 /\ replaces = 0
    /\ pending = 0
    /\ booted = FALSE
    /\ wpc = "wait"
    /\ loaded = NoCreds
    /\ creds = Parsed(file)
    /\ cache = {}
    /\ everValid = Matching(creds)
    /\ pc = [c \in Client |-> "idle"]
    /\ cred = [c \in Client |-> NoCred]
    /\ hash = [c \in Client |-> None]
    /\ match = [c \in Client |-> FALSE]
    /\ atStart = [c \in Client |-> <<NoCreds, "wait">>]
    /\ result = [c \in Client |-> "none"]

-----------------------------------------------------------------------------
(* The environment: the owner of the file, and inotify.                    *)

(* The file is written in place, a truncation included: its watch sees it. *)
WriteFile(f) ==
    /\ booted \/ BootEdits
    /\ file # Missing
    /\ writes < MaxWrites
    /\ writes' = writes + 1
    /\ file' = f
    /\ pending' = IF watched THEN pending + 1 ELSE pending
    /\ unseen' = (unseen \/ ~watched)
    /\ UNCHANGED <<watched, replaces, booted, wpc, loaded, creds, cache, everValid, authVars>>

(* Another file takes its place, or none: the watch stays with the old     *)
(* file and ends; startWatcher does not act on Remove.                     *)
ReplaceFile(f) ==
    /\ booted \/ BootEdits
    /\ replaces < MaxReplaces
    /\ replaces' = replaces + 1
    /\ file' = f
    /\ watched' = FALSE
    /\ unseen' = TRUE
    /\ UNCHANGED <<writes, watchVars, creds, cache, everValid, authVars>>

(* Mutant: a positive verdict has no TTL.                                  *)
CacheExpire_OnlyFailures ==
    /\ \E e \in cache : e[2] = FALSE /\ cache' = cache \ {e}
    /\ UNCHANGED <<fileVars, watchVars, creds, everValid, authVars>>

(* A cache entry reaches the end of its two minutes, or is evicted.        *)
CacheExpire ==
    /\ \E e \in cache : cache' = cache \ {e}
    /\ UNCHANGED <<fileVars, watchVars, creds, everValid, authVars>>

-----------------------------------------------------------------------------
(* The rest of New: w.Add, which may fail, and the watcher goroutine.      *)
StartWatching ==
    /\ ~booted
    /\ booted' = TRUE
    /\ watched' \in IF file = Missing THEN {FALSE} ELSE BOOLEAN
    /\ UNCHANGED <<file, unseen, writes, replaces, pending, wpc, loaded, creds, cache,
                   everValid, authVars>>

(* startWatcher takes a Write event.                                       *)
WatcherTake ==
    /\ booted /\ wpc = "wait" /\ pending > 0
    /\ pending' = pending - 1
    /\ wpc' = "load"
    /\ UNCHANGED <<fileVars, booted, loaded, creds, cache, everValid, authVars>>

(* Mutant: the map is stored before the error is looked at.                *)
WatcherLoad_StoreFirst ==
    /\ wpc = "load"
    /\ creds' = IF Loadable(file) THEN Parsed(file) ELSE Missing
    /\ wpc' = "wait"
    /\ UNCHANGED <<fileVars, pending, booted, loaded, cache, everValid, authVars>>

(* loadFile: on an error the credentials stay as they are.                 *)
WatcherLoad ==
    /\ wpc = "load"
    /\ \/ /\ Loadable(file)
          /\ loaded' = Parsed(file)
          /\ unseen' = FALSE
          /\ wpc' = "store"
       \/ /\ ~Loadable(file)
          /\ wpc' = "wait"
          /\ UNCHANGED <<loaded, unseen>>
    /\ UNCHANGED <<file, watched, writes, replaces, pending, booted, creds, cache,
                   everValid, authVars>>

WatcherStore ==
    /\ wpc = "store"
    /\ creds' = loaded
    /\ everValid' = everValid \cup Matching(loaded)
    /\ wpc' = "clear"
    /\ UNCHANGED <<fileVars, pending, booted, loaded, cache, authVars>>

(* Mutant: events that came during the reload are taken for its own.       *)
WatcherClear_Drain ==
    /\ wpc = "clear"
    /\ cache' = {}
    /\ wpc' = "wait"
    /\ loaded' = NoCreds
    /\ pending' = 0
    /\ UNCHANGED <<fileVars, booted, creds, everValid, authVars>>

WatcherClear ==
    /\ wpc = "clear"
    /\ cache' = {}
    /\ wpc' = "wait"
    /\ loaded' = NoCreds
    /\ UNCHANGED <<fileVars, pending, booted, creds, everValid, authVars>>

-----------------------------------------------------------------------------
(* Authenticate.                                                           *)

HandleFailure == IF Permissive THEN "anonymous" ELSE "failed"

Finish(c, how) ==
    /\ pc' = [pc EXCEPT ![c] = "done"]
    /\ result' = [result EXCEPT ![c] = how]
    /\ hash' = [hash EXCEPT ![c] = None]

(* No Authorization header, one of another kind, or no user name in it.    *)
AuthenticateNobody(c) ==
    /\ booted /\ pc[c] = "idle"
    /\ \/ Finish(c, "anonymous")
       \/ Finish(c, HandleFailure)
    /\ UNCHANGED <<fileVars, watchVars, creds, cache, everValid, cred, match, atStart>>

(* Mutant: the user need not be known.                                     *)
Authenticate_AnyUser(c, k) ==
    /\ booted /\ pc[c] = "idle"
    /\ cred' = [cred EXCEPT ![c] = k]
    /\ atStart' = [atStart EXCEPT ![c] = <<creds, wpc>>]
    /\ hash' = [hash EXCEPT ![c] = creds[k.user]]
    /\ pc' = [pc EXCEPT ![c] = "cached"]
    /\ UNCHANGED <<fileVars, watchVars, creds, cache, everValid, match, result>>

(* b.creds.Load and the look-up of the user.                               *)
Authenticate(c, k) ==
    /\ booted /\ pc[c] = "idle"
    /\ cred' = [cred EXCEPT ![c] = k]
    /\ atStart' = [atStart EXCEPT ![c] = <<creds, wpc>>]
    /\ \/ /\ creds[k.user] = None
          /\ Finish(c, HandleFailure)
       \/ /\ creds[k.user] # None
          /\ hash' = [hash EXCEPT ![c] = creds[k.user]]
          /\ pc' = [pc EXCEPT ![c] = "cached"]
          /\ UNCHANGED result
    /\ UNCHANGED <<fileVars, watchVars, creds, cache, everValid, match>>

(* verifyPassword: the cached verdict, if there is one.                    *)
CacheGet(c) ==
    LET key == CacheKey(cred[c].user, cred[c].password)
    IN  /\ pc[c] = "cached"
        /\ \/ /\ <<key, TRUE>> \in cache
              /\ Finish(c, "user")
           \/ /\ <<key, FALSE>> \in cache
              /\ Finish(c, "failed")
           \/ /\ {<<key, TRUE>>, <<key, FALSE>>} \cap cache = {}
              /\ pc' = [pc EXCEPT ![c] = "compare"]
              /\ UNCHANGED <<result, hash>>
        /\ UNCHANGED <<fileVars, watchVars, creds, cache, everValid, cred, match, atStart>>

(* bcrypt.CompareHashAndPassword, with the hash read at the start.         *)
Compare(c) ==
    /\ pc[c] = "compare"
    /\ match' = [match EXCEPT ![c] = (hash[c] = cred[c].password)]
    /\ pc' = [pc EXCEPT ![c] = "set"]
    /\ UNCHANGED <<fileVars, watchVars, creds, cache, everValid, cred, hash, atStart, result>>

(* SetWithTTL, which the cache may turn down, and the verdict.             *)
CacheSet(c) ==
    LET key == CacheKey(cred[c].user, cred[c].password)
    IN  /\ pc[c] = "set"
        /\ \/ cache' = {e \in cache : e[1] # key} \cup {<<key, match[c]>>}
           \/ UNCHANGED cache
        /\ Finish(c, IF match[c] THEN "user" ELSE "failed")
        /\ match' = [match EXCEPT ![c] = FALSE]
        /\ UNCHANGED <<fileVars, watchVars, creds, everValid, cred, atStart>>

(* The request goes on; the password is wiped from its info.               *)
Return(c) ==
    /\ pc[c] = "done"
    /\ pc' = [pc EXCEPT ![c] = "idle"]
    /\ result' = [result EXCEPT ![c] = "none"]
    /\ cred' = [cred EXCEPT ![c] = NoCred]
    /\ atStart' = [atStart EXCEPT ![c] = <<NoCreds, "wait">>]
    /\ UNCHANGED <<fileVars, watchVars, creds, cache, everValid, hash, match>>

WatcherStep == WatcherTake \/ WatcherLoad \/ WatcherStore \/ WatcherClear

Verify(c) == CacheGet(c) \/ Compare(c) \/ CacheSet(c)

Next ==
    \/ \E f \in Files : WriteFile(f) \/ ReplaceFile(f)
    \/ ReplaceFile(Missing)
    \/ CacheExpire
    \/ StartWatching
    \/ WatcherStep
    \/ \E c \in Client :
        \/ AuthenticateNobody(c)
        \/ \E k \in Pair : Authenticate(c, k)
        \/ Verify(c)
        \/ Return(c)

(* The goroutines run, and a cache entry does not outlive its TTL.         *)
Fairness ==
    /\ WF_vars(StartWatching) /\ WF_vars(WatcherStep)
    /\ \A k \in Pair, v \in BOOLEAN :
        WF_vars(<<k, v>> \in cache /\ cache' = cache \ {<<k, v>>} /\ CacheExpire)
    /\ \A c \in Client : WF_vars(Verify(c))

Spec == Init /\ [][Next]_vars

FairSpec == Spec /\ Fairness

-----------------------------------------------------------------------------
TypeOK ==
    /\ file \in Files \cup {Missing}
    /\ watched \in BOOLEAN /\ unseen \in BOOLEAN
    /\ writes \in 0..MaxWrites /\ replaces \in 0..MaxReplaces
    /\ pending \in Nat
    /\ booted \in BOOLEAN
    /\ wpc \in {"wait", "load", "store", "clear"}
    /\ loaded \in CredMap
    /\ creds \in CredMap
    /\ cache \subseteq Pair \X BOOLEAN
    /\ everValid \subseteq Pair
    /\ pc \in [Client -> {"idle", "cached", "compare", "set", "done"}]
    /\ cred \in [Client -> Pair \cup {NoCred}]
    /\ \A c \in Client : pc[c] \in {"cached", "compare", "set"} => cred[c] \in Pair
    /\ hash \in [Client -> Password \cup {None}]
    /\ match \in [Client -> BOOLEAN]
    /\ atStart \in [Client -> CredMap \X {"wait", "load", "store", "clear"}]
    /\ result \in [Client -> {"none", "anonymous", "failed", "user"}]

(* What a request presented that has its answer.                           *)
Presented == [c \in Client |-> IF result[c] = "none" THEN NoCred ELSE cred[c]]

AP == INSTANCE AuthProvider WITH
        Caller <- Client, Credential <- Pair, Nothing <- NoCred,
        vouched <- everValid, presented <- Presented, answer <- result

(* The provider keeps the contract of AuthProvider, where a credential is  *)
(* a user and a password that were in a credential map together: reloads,  *)
(* cached verdicts and requests that overlap them mix no two maps.         *)
ImplementsAuthProvider == AP!Spec

(* A user who is not in the credential map when the request arrives is not *)
(* authenticated, whatever verdicts about that user are still cached.      *)
RemovedUserRejected ==
    \A c \in Client :
        result[c] = "user" => atStart[c][1][cred[c].user] # None

(* With no event left to handle, the credentials in use are those of the   *)
(* file, if it can be loaded and its changes were seen by the watch: a     *)
(* failed load of a half-written file is made up for.  A replaced file is  *)
(* not seen (unseen), though docs/BASIC-AUTH.md:207 says that credentials  *)
(* are reloaded "on every write or replace".                               *)
CredsCurrent ==
    (booted /\ wpc = "wait" /\ pending = 0 /\ ~unseen /\ Loadable(file))
        => creds = Parsed(file)

(* "Clear cache to prevent stale entries after credential changes."        *)
(* (watcher.go:29): a request that arrives when no reload is under way, and *)
(* sees none, is decided by the credentials in use.                        *)
NoStaleVerdict ==
    \A c \in Client :
        (result[c] \in {"user", "failed"} /\ atStart[c] = <<creds, "wait">> /\ wpc = "wait"
           /\ creds[cred[c].user] # None)
            => (result[c] = "user" <=> creds[cred[c].user] = cred[c].password)

(* A stale verdict lasts no longer than its TTL: once the file is quiet,   *)
(* every cached verdict in time is the one the credentials in use give.    *)
CacheConverges ==
    <>[](\A e \in cache : creds[e[1].user] # None =>
            (e[2] <=> creds[e[1].user] = e[1].password))
=============================================================================

------------------------------ MODULE FileCache ------------------------------
(***************************************************************************)
(* pkg/filecache: the content cache over the policy folder.  A directory   *)
(* watcher invalidates cached files, a debounce queue calls the registered *)
(* callback 500ms after the last change, and Get re-reads a file whose     *)
(* entry is missing or dirty.                                              *)
(*                                                                         *)
(* One action is one critical section of the code (c.mtx or q.mutex held), *)
(* so every interleaving of the watcher goroutine, the timers, the         *)
(* goroutines started by invalidate and the callers of Get is covered.     *)
(* The file system and the inotify queue are the environment.              *)
(***************************************************************************)
EXTENDS Naturals, Sequences

CONSTANTS
    Name,        \* directory entries that hold file contents
    Matching,    \* those that match the glob pattern of the cache
    Hidden,      \* entries whose name starts with a dot
    Symlink,     \* entries that are symbolic links (a mounted ConfigMap)
    DataLink,    \* the "..data" entry a ConfigMap update replaces
    Content,     \* what a file may contain
    Absent,      \* no such file, no such cache entry
    Startup,     \* what a file may be when the program starts
    MaxEdits,    \* bound: contents written or created
    MaxRemoves,  \* bound: files removed or renamed away
    MaxChmods,   \* bound: changes of a file's permissions
    QueueCap     \* length of the kernel's event queue

ASSUME FileCacheAssumption ==
    /\ Matching \subseteq Name
    /\ Symlink \subseteq Name
    /\ Hidden \subseteq Name \cup {DataLink}
    /\ DataLink \notin Name
    /\ Absent \notin Content
    /\ Startup \subseteq Content \cup {Absent}
    /\ MaxEdits \in Nat /\ MaxRemoves \in Nat /\ MaxChmods \in Nat
    /\ QueueCap \in Nat \ {0}

VARIABLES
    disk,        \* [Name -> Content or Absent], what os.ReadFile finds
    unreadable,  \* the files whose permissions make os.ReadFile fail
    edits, removes, chmods,   \* how much of the bounds is used
    events,      \* the fsnotify queue, oldest event first
    lost,        \* history: names with an event dropped since last handled
    phase,       \* how far Watch has come
    scan,        \* the names Watch has yet to load
    fileData,    \* c.files[name].data, Absent when there is no entry
    dirty,       \* the names with c.files[name].dirty
    running,     \* [Name -> Nat] timers that have not expired
    tracked,     \* names whose q.pending timer has not expired
    firing,      \* [Name -> Nat] expired timers waiting for q.mutex
    calling,     \* [Name -> Nat] callbacks that have not yet called Get
    prefetch,    \* [Name -> Nat] "go c.Get(name)" goroutines not yet run
    failed       \* history: names whose last read by Get returned an error

envVars   == <<disk, unreadable, edits, removes, chmods>>
queueVars == <<events, lost>>
watchVars == <<phase, scan>>
cacheVars == <<fileData, dirty, failed>>
timerVars == <<running, tracked, firing, calling>>
fcVars    == <<envVars, queueVars, watchVars, cacheVars, timerVars, prefetch>>

Event == [name : Name \cup {DataLink}, op : {"Write", "Remove", "Chmod"}]

Phase == {"new", "scanning", "watching", "unwatched", "closed"}

FCTypeOK ==
    /\ disk \in [Name -> Content \cup {Absent}]
    /\ unreadable \subseteq Name
    /\ edits \in Nat /\ removes \in Nat /\ chmods \in Nat
    /\ events \in Seq(Event)
    /\ lost \subseteq Name \cup {DataLink}
    /\ phase \in Phase
    /\ scan \subseteq Name
    /\ fileData \in [Name -> Content \cup {Absent}]
    /\ dirty \subseteq Name
    /\ running \in [Name -> Nat]
    /\ tracked \subseteq Name
    /\ firing \in [Name -> Nat]
    /\ calling \in [Name -> Nat]
    /\ prefetch \in [Name -> Nat]
    /\ failed \subseteq Name

(***************************************************************************)
(* The state New leaves behind: the folder is watched, nothing is read.    *)
(***************************************************************************)
FCInit ==
    /\ disk \in [Name -> Startup]
    /\ unreadable = {}
    /\ edits = 0 /\ removes = 0 /\ chmods = 0
    /\ events = <<>>
    /\ lost = {}
    /\ phase = "new"
    /\ scan = {}
    /\ fileData = [n \in Name |-> Absent]
    /\ dirty = {}
    /\ running = [n \in Name |-> 0]
    /\ tracked = {}
    /\ firing = [n \in Name |-> 0]
    /\ calling = [n \in Name |-> 0]
    /\ prefetch = [n \in Name |-> 0]
    /\ failed = {}

-----------------------------------------------------------------------------
(* The environment: the folder's owner edits files, inotify reports it.    *)

(* An event equal to the youngest queued one is merged with it; a full     *)
(* queue drops the event and reports an overflow, which Watch only logs.   *)
Emit(n, op) ==
    LET e == [name |-> n, op |-> op]
    IN  \/ /\ Len(events) > 0 /\ events[Len(events)] = e
           /\ UNCHANGED queueVars
        \/ /\ ~(Len(events) > 0 /\ events[Len(events)] = e)
           /\ Len(events) < QueueCap
           /\ events' = Append(events, e)
           /\ UNCHANGED lost
        \/ /\ ~(Len(events) > 0 /\ events[Len(events)] = e)
           /\ Len(events) >= QueueCap
           /\ lost' = lost \cup {n}
           /\ UNCHANGED events

cacheSide == <<watchVars, cacheVars, timerVars, prefetch>>

(* A regular file is created, rewritten in place or replaced by a rename.  *)
EditFile(n, c) ==
    /\ n \notin Symlink
    /\ edits < MaxEdits
    /\ edits' = edits + 1
    /\ disk' = [disk EXCEPT ![n] = c]
    /\ Emit(n, "Write")
    /\ UNCHANGED <<unreadable, removes, chmods, cacheSide>>

RemoveFile(n) ==
    /\ disk[n] # Absent
    /\ removes < MaxRemoves
    /\ removes' = removes + 1
    /\ disk' = [disk EXCEPT ![n] = Absent]
    /\ unreadable' = unreadable \ {n}
    /\ Emit(n, "Remove")
    /\ UNCHANGED <<edits, chmods, cacheSide>>

(* A ConfigMap update: the links stay, what they lead to is another file;  *)
(* the folder only reports the new "..data".                               *)
SwapDataLink(n, c) ==
    /\ n \in Symlink /\ disk[n] # Absent
    /\ edits < MaxEdits
    /\ edits' = edits + 1
    /\ disk' = [disk EXCEPT ![n] = c]
    /\ Emit(DataLink, "Write")
    /\ UNCHANGED <<unreadable, removes, chmods, cacheSide>>

ChmodFile(n) ==
    /\ disk[n] # Absent
    /\ chmods < MaxChmods
    /\ chmods' = chmods + 1
    /\ unreadable' = IF n \in unreadable THEN unreadable \ {n}
                                         ELSE unreadable \cup {n}
    /\ Emit(n, "Chmod")
    /\ UNCHANGED <<disk, edits, removes, cacheSide>>

(* After Close the process is about to exit: the folder no longer matters. *)
EnvStep ==
    /\ phase # "closed"
    /\ \E n \in Name :
        \/ \E c \in Content : EditFile(n, c) \/ SwapDataLink(n, c)
        \/ RemoveFile(n)
        \/ ChmodFile(n)

-----------------------------------------------------------------------------
(* Get, under c.mtx.                                                       *)

(* Mutant: "if ok" in place of "if ok && !f.dirty".                        *)
GetHit_IgnoreDirty(n) == fileData[n] # Absent

GetHit(n) == fileData[n] # Absent /\ n \notin dirty

ReadError(n) == disk[n] # Absent /\ n \in unreadable

(* What Get returns: a clean entry as it is, else what readFile finds; a   *)
(* file that is gone is (nil, true, nil).                                  *)
GetResult(n) ==
    IF GetHit(n) THEN [data |-> fileData[n], updated |-> FALSE, err |-> FALSE]
    ELSE IF ReadError(n) THEN [data |-> Absent, updated |-> FALSE, err |-> TRUE]
    ELSE [data |-> disk[n], updated |-> TRUE, err |-> FALSE]

(* What Get does to c.files: a failed read leaves the entry dirty.         *)
Get(n) ==
    \/ /\ GetHit(n)
       /\ UNCHANGED cacheVars
    \/ /\ ~GetHit(n) /\ ReadError(n)
       /\ failed' = failed \cup {n}
       /\ UNCHANGED <<fileData, dirty>>
    \/ /\ ~GetHit(n) /\ ~ReadError(n)
       /\ fileData' = [fileData EXCEPT ![n] = disk[n]]
       /\ dirty' = dirty \ {n}
       /\ failed' = failed \ {n}

-----------------------------------------------------------------------------
(* The debounce queue, under q.mutex.                                      *)

(* add: stop the timer q.pending holds, if it still runs, start another.   *)
QueueAdd(n) ==
    /\ running' = [running EXCEPT ![n] = IF n \in tracked THEN @ ELSE @ + 1]
    /\ tracked' = tracked \cup {n}
    /\ UNCHANGED <<firing, calling>>

(* A timer expires: its function starts in a goroutine of its own.  The    *)
(* timer is the one q.pending holds, or one that q.pending lost.           *)
TimerExpire(n) ==
    /\ \/ /\ n \in tracked
          /\ tracked' = tracked \ {n}
       \/ /\ running[n] > IF n \in tracked THEN 1 ELSE 0
          /\ UNCHANGED tracked
    /\ running' = [running EXCEPT ![n] = @ - 1]
    /\ firing' = [firing EXCEPT ![n] = @ + 1]
    /\ UNCHANGED <<envVars, queueVars, watchVars, cacheVars, calling, prefetch>>

(* Mutant: the timer's function forgets q.fn(name).                        *)
TimerFunc_NoCall(n) ==
    /\ firing[n] > 0
    /\ firing' = [firing EXCEPT ![n] = @ - 1]
    /\ tracked' = tracked \ {n}
    /\ UNCHANGED <<envVars, queueVars, watchVars, cacheVars, running, calling, prefetch>>

(* The function deletes q.pending[name], whichever timer that is by now,   *)
(* and goes on to call the callbacks.                                      *)
TimerFunc(n) ==
    /\ firing[n] > 0
    /\ firing' = [firing EXCEPT ![n] = @ - 1]
    /\ tracked' = tracked \ {n}
    /\ calling' = [calling EXCEPT ![n] = @ + 1]
    /\ UNCHANGED <<envVars, queueVars, watchVars, cacheVars, running, prefetch>>

(* A callback for the file is due: a timer, its function, or the callback  *)
(* on its way to Get.                                                      *)
Scheduled(n) == running[n] > 0 \/ firing[n] > 0 \/ calling[n] > 0

(* The callback's first act is to call Get.                                *)
CallbackGet(n) ==
    /\ calling[n] > 0
    /\ calling' = [calling EXCEPT ![n] = @ - 1]
    /\ Get(n)
    /\ UNCHANGED <<envVars, queueVars, watchVars, running, tracked, firing, prefetch>>

-----------------------------------------------------------------------------
(* invalidate, under c.mtx.                                                *)

Invalidate(n, op) ==
    /\ lost' = lost \ {n}
    /\ \/ /\ fileData[n] # Absent /\ op = "Remove"
          /\ fileData' = [fileData EXCEPT ![n] = Absent]
          /\ dirty' = dirty \ {n}
          /\ QueueAdd(n)
          /\ UNCHANGED <<prefetch, failed>>
       \/ /\ fileData[n] # Absent /\ op # "Remove" /\ n \notin dirty
          /\ dirty' = dirty \cup {n}
          /\ QueueAdd(n)
          /\ UNCHANGED <<fileData, prefetch, failed>>
       \/ /\ fileData[n] # Absent /\ op # "Remove" /\ n \in dirty
          /\ UNCHANGED <<cacheVars, timerVars, prefetch>>
       \/ /\ fileData[n] = Absent
          /\ prefetch' = [prefetch EXCEPT ![n] = @ + 1]
          /\ QueueAdd(n)
          /\ UNCHANGED cacheVars

(* Mutant: when Lstat fails the event is dropped.                          *)
ShouldProcess_StatError(n) ==
    n \notin Hidden /\ n \in Matching /\ disk[n] # Absent /\ n \notin Symlink

(* Dot files and files that do not match are skipped, and so is whatever   *)
(* Lstat says is not a regular file; a file that is gone is let through.   *)
ShouldProcess(n) ==
    /\ n \notin Hidden
    /\ n \in Matching
    /\ disk[n] = Absent \/ n \notin Symlink

(* The goroutine behind invalidate's "go c.Get(name)".                     *)
Prefetch(n) ==
    /\ prefetch[n] > 0
    /\ prefetch' = [prefetch EXCEPT ![n] = @ - 1]
    /\ Get(n)
    /\ UNCHANGED <<envVars, queueVars, watchVars, timerVars>>

-----------------------------------------------------------------------------
(* Watch and Close.                                                        *)

(* Watch reads the folder; when that fails it returns without a watcher.   *)
Watch ==
    /\ phase = "new"
    /\ \/ /\ phase' = "scanning"
          /\ scan' = {n \in Matching : disk[n] # Absent}
       \/ /\ phase' = "unwatched"
          /\ UNCHANGED scan
    /\ UNCHANGED <<envVars, queueVars, cacheVars, timerVars, prefetch>>

(* Watch calls the callbacks for each file it found.                       *)
ScanFile(n) ==
    /\ phase = "scanning" /\ n \in scan
    /\ scan' = scan \ {n}
    /\ Get(n)
    /\ UNCHANGED <<envVars, queueVars, phase, timerVars, prefetch>>

StartWatcher ==
    /\ phase = "scanning" /\ scan = {}
    /\ phase' = "watching"
    /\ UNCHANGED <<envVars, queueVars, scan, cacheVars, timerVars, prefetch>>

(* The watcher goroutine takes one event.                                  *)
WatcherEvent ==
    /\ phase = "watching" /\ Len(events) > 0
    /\ events' = Tail(events)
    /\ LET e == Head(events)
       IN  \/ /\ e.op # "Chmod" /\ ShouldProcess(e.name)
              /\ Invalidate(e.name, e.op)
           \/ /\ ~(e.op # "Chmod" /\ ShouldProcess(e.name))
              /\ UNCHANGED <<lost, cacheVars, timerVars, prefetch>>
    /\ UNCHANGED <<envVars, watchVars>>

Close ==
    /\ phase \in {"watching", "unwatched"}
    /\ phase' = "closed"
    /\ UNCHANGED <<envVars, queueVars, scan, cacheVars, timerVars, prefetch>>

(* Get called by another user of the cache, once Watch has returned.       *)
ClientGet(n) ==
    /\ phase \in {"watching", "unwatched", "closed"}
    /\ Get(n)
    /\ UNCHANGED <<envVars, queueVars, watchVars, timerVars, prefetch>>

FileStep(n) ==
    \/ TimerExpire(n)
    \/ TimerFunc(n)
    \/ CallbackGet(n)
    \/ Prefetch(n)
    \/ ScanFile(n)

FCNext ==
    \/ EnvStep
    \/ Watch
    \/ StartWatcher
    \/ WatcherEvent
    \/ Close
    \/ \E n \in Name : FileStep(n) \/ ClientGet(n)

FCSpec == FCInit /\ [][FCNext]_fcVars

-----------------------------------------------------------------------------
(* The files whose changes the watcher acts on.                            *)
Watched == {n \in Matching : n \notin Hidden /\ n \notin Symlink}

(* An event about n that the watcher has yet to handle.                    *)
EventPending(n) ==
    \E i \in 1..Len(events) : events[i].name = n /\ events[i].op # "Chmod"

(* A clean entry that differs from the file has its invalidation under     *)
(* way: an event for it is queued, or the kernel dropped one.  So Get      *)
(* returns old text only while the watcher lags behind.  This is about     *)
(* New subscribing to the folder before Watch reads it, and invalidate and *)
(* Get never leaving a clean entry older than the last handled event.      *)
FilesCoherent ==
    \A n \in Watched :
        (GetHit(n) /\ fileData[n] # disk[n]) => EventPending(n) \/ n \in lost

(* No lost reload: a dirty entry has a timer, or a callback on its way to  *)
(* Get, unless a read of the file failed.  This is invalidate calling      *)
(* queue.add only for an entry that is not yet dirty, against the race of  *)
(* add with an expired timer's function in callbacks.go.                   *)
DirtyScheduled == \A n \in dirty : Scheduled(n) \/ n \in failed

(* Every timer the queue still holds is one that runs.                     *)
TrackedRuns == \A n \in tracked : running[n] > 0

(* The watcher and the callbacks have nothing left to do for the file, the *)
(* kernel dropped no event of it, and its last read did not fail.          *)
AtRest(n) ==
    /\ phase = "watching"
    /\ ~EventPending(n) /\ ~Scheduled(n)
    /\ n \notin lost \cup failed

(* At rest the cache is the folder: the entry of a watched file is clean   *)
(* and has its content, and a file that is gone has no entry.              *)
CacheSettled ==
    \A n \in Watched : AtRest(n) => n \notin dirty /\ fileData[n] = disk[n]

(* Once the folder is quiet the cache agrees with it: no entry stays       *)
(* dirty, out of date or missing, as long as Watch could read the folder,  *)
(* no event was dropped and no read failed.                                *)
CacheConverges ==
    \A n \in Watched :
        <>[](phase = "watching" /\ lost = {} /\ failed = {})
            => <>[](n \notin dirty /\ fileData[n] = disk[n])
=============================================================================

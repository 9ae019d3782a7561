--------------------------- MODULE FileCacheProofs ---------------------------
(***************************************************************************)
(* Proofs about FileCache: its type invariant, that no timer is counted    *)
(* that does not run, that the cache is coherent with the folder, and that *)
(* no reload is lost.                                                      *)
(***************************************************************************)
EXTENDS FileCache, TLAPS

FCInv == FCTypeOK /\ TrackedRuns

(* What inotify does to the queue: no queued event is lost, and the change *)
(* is reported by a queued event unless the queue was full.                *)
LEMMA EmitLemma ==
    ASSUME FCTypeOK, NEW n \in Name \cup {DataLink},
           NEW op \in {"Write", "Remove", "Chmod"}, Emit(n, op)
    PROVE  /\ events' \in Seq(Event)
           /\ lost' \subseteq Name \cup {DataLink}
           /\ lost \subseteq lost'
           /\ \A m \in Name : EventPending(m) => EventPending(m)'
           /\ op # "Chmod" => EventPending(n)' \/ n \in lost'
<1> DEFINE e == [name |-> n, op |-> op]
<1>1. e \in Event /\ events \in Seq(Event) /\ Len(events) \in Nat
  BY DEF FCTypeOK, Event
<1>2. CASE Len(events) > 0 /\ events[Len(events)] = e /\ UNCHANGED queueVars
  <2>1. /\ Len(events) \in 1..Len(events)
        /\ events[Len(events)].name = n /\ events[Len(events)].op = op
    BY <1>1, <1>2
  <2>2. events' = events /\ lost' = lost
    BY <1>2 DEF queueVars
  <2> QED BY <1>1, <2>1, <2>2 DEF EventPending, FCTypeOK
<1>3. CASE events' = Append(events, e) /\ UNCHANGED lost
  <2>1. /\ events' \in Seq(Event)
        /\ Len(events') = Len(events) + 1
        /\ \A i \in 1..Len(events) : events'[i] = events[i]
        /\ events'[Len(events')] = e
    BY <1>1, <1>3
  <2>2. /\ Len(events') \in 1..Len(events')
        /\ \A i \in 1..Len(events) : i \in 1..Len(events')
    BY <1>1, <2>1
  <2> QED BY <1>1, <1>3, <2>1, <2>2 DEF EventPending, FCTypeOK
<1>4. CASE lost' = lost \cup {n} /\ UNCHANGED events
  BY <1>1, <1>4 DEF EventPending, FCTypeOK
<1> QED BY <1>2, <1>3, <1>4 DEF Emit

(* A step of the folder's owner changes the disk and the queue only; a     *)
(* file whose content changes is reported.                                 *)
LEMMA EnvLemma ==
    ASSUME FCTypeOK, EnvStep
    PROVE  /\ FCTypeOK'
           /\ UNCHANGED cacheSide
           /\ lost \subseteq lost'
           /\ \A m \in Name : EventPending(m) => EventPending(m)'
           /\ \A m \in Name \ Symlink :
                  disk'[m] # disk[m] => EventPending(m)' \/ m \in lost'
<1> DEFINE P == /\ FCTypeOK'
                /\ UNCHANGED cacheSide
                /\ lost \subseteq lost'
                /\ \A m \in Name : EventPending(m) => EventPending(m)'
                /\ \A m \in Name \ Symlink :
                      disk'[m] # disk[m] => EventPending(m)' \/ m \in lost'
<1>1. ASSUME NEW n \in Name, NEW c \in Content, EditFile(n, c) PROVE P
  <2>1. Emit(n, "Write")
    BY <1>1 DEF EditFile
  <2>2. /\ events' \in Seq(Event)
        /\ lost' \subseteq Name \cup {DataLink}
        /\ lost \subseteq lost'
        /\ \A m \in Name : EventPending(m) => EventPending(m)'
        /\ EventPending(n)' \/ n \in lost'
    BY <2>1, EmitLemma
  <2>3. UNCHANGED cacheSide
    BY <1>1 DEF EditFile
  <2>4. FCTypeOK'
    BY <1>1, <2>2 DEF EditFile, FCTypeOK, cacheSide, watchVars, cacheVars, timerVars
  <2>5. \A m \in Name : m # n => disk'[m] = disk[m]
    BY <1>1 DEF EditFile, FCTypeOK
  <2> QED BY <2>2, <2>3, <2>4, <2>5
<1>2. ASSUME NEW n \in Name, NEW c \in Content, SwapDataLink(n, c) PROVE P
  <2>1. Emit(DataLink, "Write")
    BY <1>2 DEF SwapDataLink
  <2>2. /\ events' \in Seq(Event)
        /\ lost' \subseteq Name \cup {DataLink}
        /\ lost \subseteq lost'
        /\ \A m \in Name : EventPending(m) => EventPending(m)'
    BY <2>1, EmitLemma
  <2>3. UNCHANGED cacheSide
    BY <1>2 DEF SwapDataLink
  <2>4. FCTypeOK'
    BY <1>2, <2>2 DEF SwapDataLink, FCTypeOK, cacheSide, watchVars, cacheVars, timerVars
  <2>5. \A m \in Name : m \notin Symlink => disk'[m] = disk[m]
    BY <1>2 DEF SwapDataLink, FCTypeOK
  <2> QED BY <2>2, <2>3, <2>4, <2>5
<1>3. ASSUME NEW n \in Name, RemoveFile(n) PROVE P
  <2>1. Emit(n, "Remove")
    BY <1>3 DEF RemoveFile
  <2>2. /\ events' \in Seq(Event)
        /\ lost' \subseteq Name \cup {DataLink}
        /\ lost \subseteq lost'
        /\ \A m \in Name : EventPending(m) => EventPending(m)'
        /\ EventPending(n)' \/ n \in lost'
    BY <2>1, EmitLemma
  <2>3. UNCHANGED cacheSide
    BY <1>3 DEF RemoveFile
  <2>4. FCTypeOK'
    BY <1>3, <2>2 DEF RemoveFile, FCTypeOK, cacheSide, watchVars, cacheVars, timerVars
  <2>5. \A m \in Name : m # n => disk'[m] = disk[m]
    BY <1>3 DEF RemoveFile, FCTypeOK
  <2> QED BY <2>2, <2>3, <2>4, <2>5
<1>4. ASSUME NEW n \in Name, ChmodFile(n) PROVE P
  <2>1. Emit(n, "Chmod")
    BY <1>4 DEF ChmodFile
  <2>2. /\ events' \in Seq(Event)
        /\ lost' \subseteq Name \cup {DataLink}
        /\ lost \subseteq lost'
        /\ \A m \in Name : EventPending(m) => EventPending(m)'
    BY <2>1, EmitLemma
  <2>3. UNCHANGED cacheSide
    BY <1>4 DEF ChmodFile
  <2>4. FCTypeOK'
    BY <1>4, <2>2 DEF ChmodFile, FCTypeOK, cacheSide, watchVars, cacheVars, timerVars
  <2>5. \A m \in Name : disk'[m] = disk[m]
    BY <1>4 DEF ChmodFile, FCTypeOK
  <2> QED BY <2>2, <2>3, <2>4, <2>5
<1> QED BY <1>1, <1>2, <1>3, <1>4 DEF EnvStep

(* queue.add leaves the name with a running timer and no other name        *)
(* without one.                                                            *)
LEMMA QueueAddLemma ==
    ASSUME FCInv, NEW n \in Name, QueueAdd(n)
    PROVE  /\ running' \in [Name -> Nat] /\ tracked' \subseteq Name
           /\ firing' \in [Name -> Nat] /\ calling' \in [Name -> Nat]
           /\ TrackedRuns'
           /\ running'[n] > 0
           /\ \A m \in Name : running[m] > 0 => running'[m] > 0
           /\ UNCHANGED <<firing, calling>>
<1> DEFINE k == IF n \in tracked THEN running[n] ELSE running[n] + 1
<1>1. /\ running \in [Name -> Nat] /\ tracked \subseteq Name
      /\ \A m \in tracked : running[m] > 0
  BY DEF FCInv, FCTypeOK, TrackedRuns
<1>2. k \in Nat /\ k > 0
  BY <1>1
<1>3. running' = [running EXCEPT ![n] = k] /\ tracked' = tracked \cup {n}
  BY DEF QueueAdd
<1> HIDE DEF k
<1>4. /\ running' \in [Name -> Nat] /\ running'[n] = k
      /\ \A m \in Name : m # n => running'[m] = running[m]
  BY <1>1, <1>2, <1>3
<1>5. UNCHANGED <<firing, calling>>
  BY DEF QueueAdd
<1> QED BY <1>1, <1>2, <1>3, <1>4, <1>5 DEF FCInv, FCTypeOK, TrackedRuns

(* invalidate: a cached file loses its entry or has it marked dirty, and   *)
(* an entry that becomes dirty has a timer.                                *)
LEMMA InvalidateLemma ==
    ASSUME FCInv, NEW n \in Name, NEW op, Invalidate(n, op)
    PROVE  /\ lost' = lost \ {n}
           /\ fileData' \in [Name -> Content \cup {Absent}]
           /\ dirty' \subseteq Name
           /\ UNCHANGED failed
           /\ prefetch' \in [Name -> Nat]
           /\ running' \in [Name -> Nat] /\ tracked' \subseteq Name
           /\ firing' \in [Name -> Nat] /\ calling' \in [Name -> Nat]
           /\ TrackedRuns'
           /\ ~GetHit(n)'
           /\ \A m \in Name : m # n =>
                 fileData'[m] = fileData[m] /\ (m \in dirty' <=> m \in dirty)
           /\ n \in dirty' => n \in dirty \/ running'[n] > 0
           /\ fileData'[n] = Absent => running'[n] > 0
           /\ \A m \in Name : running[m] > 0 => running'[m] > 0
           /\ UNCHANGED <<firing, calling>>
<1>0. lost' = lost \ {n}
  BY DEF Invalidate
<1>1. CASE /\ fileData[n] # Absent /\ op = "Remove"
           /\ fileData' = [fileData EXCEPT ![n] = Absent]
           /\ dirty' = dirty \ {n}
           /\ QueueAdd(n)
           /\ UNCHANGED <<prefetch, failed>>
  <2>1. fileData' \in [Name -> Content \cup {Absent}] /\ dirty' \subseteq Name
    BY <1>1 DEF FCInv, FCTypeOK
  <2> QED BY <1>0, <1>1, <2>1, QueueAddLemma, Zenon DEF FCInv, FCTypeOK, GetHit
<1>2. CASE /\ fileData[n] # Absent /\ op # "Remove" /\ n \notin dirty
           /\ dirty' = dirty \cup {n}
           /\ QueueAdd(n)
           /\ UNCHANGED <<fileData, prefetch, failed>>
  BY <1>0, <1>2, QueueAddLemma, Zenon DEF FCInv, FCTypeOK, GetHit
<1>3. CASE /\ fileData[n] # Absent /\ op # "Remove" /\ n \in dirty
           /\ UNCHANGED <<cacheVars, timerVars, prefetch>>
  BY <1>0, <1>3 DEF FCInv, FCTypeOK, GetHit, TrackedRuns, cacheVars, timerVars
<1>4. CASE /\ fileData[n] = Absent
           /\ prefetch' = [prefetch EXCEPT ![n] = @ + 1]
           /\ QueueAdd(n)
           /\ UNCHANGED cacheVars
  <2>1. prefetch' \in [Name -> Nat]
    BY <1>4 DEF FCInv, FCTypeOK
  <2>2. UNCHANGED <<fileData, dirty, failed>>
    BY <1>4 DEF cacheVars
  <2> QED BY <1>0, <1>4, <2>1, <2>2, QueueAddLemma DEF FCInv, FCTypeOK, GetHit
<1> QED BY <1>1, <1>2, <1>3, <1>4 DEF Invalidate

(* FCInv is inductive: a timer that q.pending holds counts as running, so  *)
(* no expiry takes the count of timers below zero.                         *)
LEMMA FCInvStep ==
    ASSUME FCInv, [FCNext]_fcVars
    PROVE  FCInv'
<1> USE FileCacheAssumption DEF FCInv, FCTypeOK, TrackedRuns
<1>1. ASSUME EnvStep PROVE FCInv'
  BY <1>1, EnvLemma DEF cacheSide, timerVars
<1>2. ASSUME NEW n \in Name, Get(n)
      PROVE /\ fileData' \in [Name -> Content \cup {Absent}]
            /\ dirty' \subseteq Name
            /\ failed' \subseteq Name
  BY <1>2, Zenon DEF Get, cacheVars
<1>3. CASE Watch
  BY <1>3 DEF Watch, Phase, envVars, queueVars, cacheVars, timerVars
<1>4. CASE StartWatcher
  BY <1>4 DEF StartWatcher, Phase, envVars, queueVars, cacheVars, timerVars
<1>5. CASE Close
  BY <1>5 DEF Close, Phase, envVars, queueVars, cacheVars, timerVars
<1>6. CASE WatcherEvent
  <2>1. events' \in Seq(Event) /\ Head(events) \in Event
    <3>1. events # <<>> /\ events' = Tail(events)
      BY <1>6 DEF WatcherEvent
    <3> QED BY <3>1
  <2>2. CASE UNCHANGED <<lost, cacheVars, timerVars, prefetch>>
    BY <2>1, <2>2, <1>6 DEF WatcherEvent, envVars, watchVars, cacheVars, timerVars
  <2>3. ASSUME NEW n \in Name, NEW op, Invalidate(n, op) PROVE FCInv'
    <3>1. UNCHANGED <<envVars, watchVars>>
      BY <1>6 DEF WatcherEvent
    <3> QED BY <2>1, <2>3, <3>1, InvalidateLemma, Zenon DEF envVars, watchVars
  <2>4. ShouldProcess(Head(events).name) => Head(events).name \in Name
    BY DEF ShouldProcess
  <2> QED BY <2>2, <2>3, <2>4, <1>6, Zenon DEF WatcherEvent
<1>7. ASSUME NEW n \in Name, FileStep(n) \/ ClientGet(n) PROVE FCInv'
  <2>1. CASE TimerExpire(n)
    BY <2>1 DEF TimerExpire, envVars, queueVars, watchVars, cacheVars
  <2>2. CASE TimerFunc(n)
    BY <2>2 DEF TimerFunc, envVars, queueVars, watchVars, cacheVars
  <2>3. CASE CallbackGet(n)
    BY <2>3, <1>2 DEF CallbackGet, envVars, queueVars, watchVars
  <2>4. CASE Prefetch(n)
    BY <2>4, <1>2 DEF Prefetch, envVars, queueVars, watchVars, timerVars
  <2>5. CASE ScanFile(n)
    BY <2>5, <1>2 DEF ScanFile, envVars, queueVars, timerVars
  <2>6. CASE ClientGet(n)
    BY <2>6, <1>2 DEF ClientGet, envVars, queueVars, watchVars, timerVars
  <2> QED BY <1>7, <2>1, <2>2, <2>3, <2>4, <2>5, <2>6, Zenon DEF FileStep
<1>8. CASE UNCHANGED fcVars
  BY <1>8 DEF fcVars, envVars, queueVars, watchVars, cacheVars, timerVars
<1> QED BY <1>1, <1>3, <1>4, <1>5, <1>6, <1>7, <1>8, Zenon DEF FCNext

(* The type of the state, and every timer that q.pending holds is one that *)
(* runs.                                                                   *)
THEOREM FCInvariant == FCSpec => []FCInv
<1>1. FCInit => FCInv
  BY FileCacheAssumption DEF FCInit, FCInv, FCTypeOK, TrackedRuns, Phase
<1>2. FCInv /\ [FCNext]_fcVars => FCInv'
  BY FCInvStep
<1> QED BY <1>1, <1>2, PTL DEF FCSpec

(* The type invariant for every folder and every bound.                    *)
THEOREM FCTypeCorrect == FCSpec => []FCTypeOK
BY FCInvariant, PTL DEF FCInv

-----------------------------------------------------------------------------
(* Get leaves the entry of its own file clean and current, or no better    *)
(* than it was because the read failed; other entries are untouched.       *)
LEMMA GetLemma ==
    ASSUME FCTypeOK, NEW n \in Name, Get(n)
    PROVE  /\ fileData' \in [Name -> Content \cup {Absent}]
           /\ \A m \in Name : m # n => fileData'[m] = fileData[m]
           /\ \A m \in Name : m # n => (m \in dirty' <=> m \in dirty)
           /\ \A m \in Name : m # n => (m \in failed' <=> m \in failed)
           /\ dirty' \subseteq dirty
           /\ n \in dirty' => n \in failed'
           /\ \/ UNCHANGED <<fileData, dirty>>
              \/ fileData'[n] = disk[n]
           /\ fileData'[n] = Absent => disk[n] = Absent \/ n \in failed'
<1>1. CASE GetHit(n) /\ UNCHANGED cacheVars
  BY <1>1 DEF FCTypeOK, GetHit, cacheVars
<1>2. CASE failed' = failed \cup {n} /\ UNCHANGED <<fileData, dirty>>
  BY <1>2 DEF FCTypeOK
<1>3. CASE /\ fileData' = [fileData EXCEPT ![n] = disk[n]]
           /\ dirty' = dirty \ {n}
           /\ failed' = failed \ {n}
  BY <1>3 DEF FCTypeOK
<1> QED BY <1>1, <1>2, <1>3 DEF Get

(* Taking the oldest event leaves the others queued.                       *)
LEMMA TailLemma ==
    ASSUME FCTypeOK, Len(events) > 0, events' = Tail(events),
           NEW n \in Name, EventPending(n),
           ~(Head(events).name = n /\ Head(events).op # "Chmod")
    PROVE  EventPending(n)'
<1>1. events \in Seq(Event) /\ Head(events) = events[1]
  BY DEF FCTypeOK
<1>2. PICK i \in 1..Len(events) : events[i].name = n /\ events[i].op # "Chmod"
  BY DEF EventPending
<1>3. i # 1 /\ i \in Nat /\ Len(events) \in Nat
  BY <1>1, <1>2
<1>4. /\ i - 1 \in 1..Len(events')
      /\ events'[i - 1] = events[i]
  BY <1>1, <1>3
<1> QED BY <1>2, <1>4, Zenon DEF EventPending

(* The step of FilesCoherent for any step in which the disk and the queue  *)
(* stay as they are and the cache is left alone or read into by Get.       *)
LEMMA GetCoherent ==
    ASSUME FCTypeOK, FilesCoherent, UNCHANGED <<disk, events, lost>>,
           \/ UNCHANGED cacheVars
           \/ \E n \in Name : Get(n)
    PROVE  FilesCoherent'
<1>1. \A n \in Name : EventPending(n) => EventPending(n)'
  BY DEF EventPending
<1>2. Watched \subseteq Name
  BY FileCacheAssumption DEF Watched
<1>3. CASE UNCHANGED cacheVars
  BY <1>1, <1>2, <1>3 DEF FilesCoherent, GetHit, cacheVars
<1>4. ASSUME NEW n \in Name, Get(n) PROVE FilesCoherent'
  BY <1>1, <1>2, <1>4, GetLemma DEF FilesCoherent, GetHit
<1> QED BY <1>3, <1>4

(* FilesCoherent for every folder, every bound and every queue length: a   *)
(* clean entry that differs from a watched file has an event on the way.   *)
THEOREM FilesCoherentTheorem == FCSpec => []FilesCoherent
<1>1. FCInit => FilesCoherent
  BY FileCacheAssumption DEF FCInit, FilesCoherent, GetHit, Watched
<1>2. FCInv /\ FilesCoherent /\ [FCNext]_fcVars => FilesCoherent'
  <2> SUFFICES ASSUME FCInv, FilesCoherent, [FCNext]_fcVars PROVE FilesCoherent'
    OBVIOUS
  <2>0. FCTypeOK /\ Watched \subseteq Name \ Symlink
    BY FileCacheAssumption DEF FCInv, Watched
  <2>1. CASE EnvStep
    <3>1. UNCHANGED <<fileData, dirty>>
      BY <2>0, <2>1, EnvLemma DEF cacheSide, cacheVars
    <3> QED BY <2>0, <2>1, <3>1, EnvLemma DEF FilesCoherent, GetHit
  <2>2. CASE WatcherEvent
    <3> DEFINE e == Head(events)
    <3>1. Len(events) > 0 /\ events' = Tail(events) /\ UNCHANGED disk
      BY <2>2 DEF WatcherEvent, envVars
    <3>2. CASE e.op # "Chmod" /\ ShouldProcess(e.name) /\ Invalidate(e.name, e.op)
      <4>1. e.name \in Name
        BY <3>2, FileCacheAssumption DEF ShouldProcess
      <4>2. SUFFICES ASSUME NEW n \in Watched, GetHit(n)', fileData'[n] # disk'[n]
                     PROVE  EventPending(n)' \/ n \in lost'
        BY DEF FilesCoherent
      <4> HIDE DEF e
      <4>3. n # e.name
        BY <3>2, <4>1, <4>2, InvalidateLemma
      <4>4. GetHit(n) /\ fileData[n] # disk[n]
        BY <2>0, <3>1, <3>2, <4>1, <4>2, <4>3, InvalidateLemma DEF GetHit
      <4>5. EventPending(n) \/ n \in lost
        BY <4>4 DEF FilesCoherent
      <4>6. n \in lost => n \in lost'
        BY <3>2, <4>1, <4>3, InvalidateLemma
      <4>7. EventPending(n) => EventPending(n)'
        BY <2>0, <3>1, <4>3, TailLemma DEF e
      <4> QED BY <4>5, <4>6, <4>7
    <3>3. CASE /\ ~(e.op # "Chmod" /\ ShouldProcess(e.name))
               /\ UNCHANGED <<lost, cacheVars, timerVars, prefetch>>
      <4>1. ASSUME NEW n \in Watched PROVE ~(e.name = n /\ e.op # "Chmod")
        BY <2>0, <3>3 DEF ShouldProcess, Watched
      <4>2. \A n \in Watched : EventPending(n) => EventPending(n)'
        BY <2>0, <3>1, <4>1, TailLemma
      <4> QED BY <3>1, <3>3, <4>2 DEF FilesCoherent, GetHit, cacheVars
    <3> QED BY <2>2, <3>2, <3>3 DEF WatcherEvent
  <2>3. CASE Watch \/ StartWatcher \/ Close
    BY <2>0, <2>3, GetCoherent DEF Watch, StartWatcher, Close, envVars, queueVars
  <2>4. ASSUME NEW n \in Name, FileStep(n) \/ ClientGet(n) PROVE FilesCoherent'
    <3>1. UNCHANGED <<disk, events, lost>>
      BY <2>4 DEF FileStep, TimerExpire, TimerFunc, CallbackGet, Prefetch, ScanFile,
                  ClientGet, envVars, queueVars
    <3>2. UNCHANGED cacheVars \/ Get(n)
      BY <2>4 DEF FileStep, TimerExpire, TimerFunc, CallbackGet, Prefetch, ScanFile,
                  ClientGet
    <3> QED BY <2>0, <3>1, <3>2, GetCoherent
  <2>5. CASE UNCHANGED fcVars
    BY <2>0, <2>5, GetCoherent DEF fcVars, envVars, queueVars
  <2> QED BY <2>1, <2>2, <2>3, <2>4, <2>5 DEF FCNext
<1> QED BY <1>1, <1>2, FCInvariant, PTL DEF FCSpec

-----------------------------------------------------------------------------
(* DirtyScheduled for every folder and every bound: no change to a cached  *)
(* file goes without a reload, the races of callbacks.go included.         *)
THEOREM DirtyScheduledTheorem == FCSpec => []DirtyScheduled
<1>1. FCInit => DirtyScheduled
  BY Zenon DEF FCInit, DirtyScheduled, Scheduled
<1>2. FCInv /\ DirtyScheduled /\ [FCNext]_fcVars => DirtyScheduled'
  <2> SUFFICES ASSUME FCInv, DirtyScheduled, [FCNext]_fcVars PROVE DirtyScheduled'
    OBVIOUS
  <2>0. FCTypeOK
    BY DEF FCInv
  <2>1. CASE EnvStep
    BY <2>0, <2>1, EnvLemma DEF DirtyScheduled, Scheduled, cacheSide, cacheVars, timerVars
  <2>2. CASE WatcherEvent
    <3>1. CASE UNCHANGED <<lost, cacheVars, timerVars, prefetch>>
      BY <3>1 DEF DirtyScheduled, Scheduled, cacheVars, timerVars
    <3>2. ASSUME NEW n \in Name, NEW op, Invalidate(n, op) PROVE DirtyScheduled'
      BY <2>0, <3>2, InvalidateLemma DEF DirtyScheduled, Scheduled, FCTypeOK
    <3>3. ShouldProcess(Head(events).name) => Head(events).name \in Name
      BY FileCacheAssumption DEF ShouldProcess
    <3> QED BY <2>2, <3>1, <3>2, <3>3 DEF WatcherEvent
  <2>3. CASE Watch \/ StartWatcher \/ Close
    BY <2>3 DEF Watch, StartWatcher, Close, DirtyScheduled, Scheduled, cacheVars, timerVars
  <2>4. ASSUME NEW n \in Name, FileStep(n) \/ ClientGet(n) PROVE DirtyScheduled'
    <3>1. CASE TimerExpire(n)
      BY <2>0, <3>1 DEF TimerExpire, DirtyScheduled, Scheduled, FCTypeOK, cacheVars
    <3>2. CASE TimerFunc(n)
      BY <2>0, <3>2 DEF TimerFunc, DirtyScheduled, Scheduled, FCTypeOK, cacheVars
    <3>3. CASE CallbackGet(n)
      <4>1. /\ UNCHANGED <<running, firing>>
            /\ \A m \in Name : m # n => calling'[m] = calling[m]
        BY <2>0, <3>3 DEF CallbackGet, FCTypeOK
      <4>2. Get(n)
        BY <3>3 DEF CallbackGet
      <4> QED BY <2>0, <4>1, <4>2, GetLemma, Zenon DEF DirtyScheduled, Scheduled, FCTypeOK
    <3>4. CASE Prefetch(n) \/ ScanFile(n) \/ ClientGet(n)
      <4>1. UNCHANGED timerVars /\ Get(n)
        BY <3>4 DEF Prefetch, ScanFile, ClientGet
      <4> QED BY <2>0, <4>1, GetLemma DEF DirtyScheduled, Scheduled, FCTypeOK, timerVars
    <3> QED BY <2>4, <3>1, <3>2, <3>3, <3>4 DEF FileStep
  <2>5. CASE UNCHANGED fcVars
    BY <2>5 DEF fcVars, DirtyScheduled, Scheduled, cacheVars, timerVars
  <2> QED BY <2>1, <2>2, <2>3, <2>4, <2>5 DEF FCNext
<1> QED BY <1>1, <1>2, FCInvariant, PTL DEF FCSpec

-----------------------------------------------------------------------------
(* A callback that is due stays due until it calls Get.                    *)
LEMMA ScheduledKept ==
    ASSUME FCInv, NEW m \in Name, Scheduled(m), NEW n \in Name,
           \/ EnvStep \/ Watch \/ StartWatcher \/ WatcherEvent \/ Close
           \/ TimerExpire(n) \/ TimerFunc(n) \/ Prefetch(n) \/ ScanFile(n) \/ ClientGet(n)
           \/ n # m /\ CallbackGet(n)
    PROVE  Scheduled(m)'
<1>0. FCTypeOK
  BY Zenon DEF FCInv
<1>1. CASE UNCHANGED timerVars
  BY <1>1, Zenon DEF timerVars, Scheduled
<1>2. CASE EnvStep
  BY <1>0, <1>1, <1>2, EnvLemma, Zenon DEF cacheSide
<1>3. CASE WatcherEvent
  <2>1. ASSUME NEW k \in Name, NEW op, Invalidate(k, op) PROVE Scheduled(m)'
    BY <2>1, InvalidateLemma, Zenon DEF Scheduled
  <2>2. ShouldProcess(Head(events).name) => Head(events).name \in Name
    BY FileCacheAssumption, Zenon DEF ShouldProcess
  <2> QED BY <1>1, <1>3, <2>1, <2>2, Zenon DEF WatcherEvent
<1>4. CASE Watch \/ StartWatcher \/ Close \/ Prefetch(n) \/ ScanFile(n) \/ ClientGet(n)
  BY <1>1, <1>4, Zenon DEF Watch, StartWatcher, Close, Prefetch, ScanFile, ClientGet
<1>5. CASE TimerExpire(n)
  BY <1>0, <1>5 DEF TimerExpire, Scheduled, FCTypeOK
<1>6. CASE TimerFunc(n)
  BY <1>0, <1>6 DEF TimerFunc, Scheduled, FCTypeOK
<1>7. CASE n # m /\ CallbackGet(n)
  BY <1>0, <1>7, Zenon DEF CallbackGet, Scheduled, FCTypeOK
<1> QED BY <1>2, <1>3, <1>4, <1>5, <1>6, <1>7, Zenon

(* The third part of CacheSettled, next to FilesCoherent and               *)
(* DirtyScheduled: a watched file without an entry is one that Watch has   *)
(* yet to load, or an event or a callback will load it.                    *)
Loads(n) ==
    \/ n \in scan \/ n \in lost \/ n \in failed
    \/ EventPending(n) \/ Scheduled(n)

MissingLoads ==
    /\ phase = "watching" => scan = {}
    /\ \A n \in Watched :
          (phase \in {"scanning", "watching"} /\ fileData[n] = Absent /\ disk[n] # Absent)
              => Loads(n)

(* Get, for MissingLoads: whoever reads the file fills the entry, or the   *)
(* read fails.                                                             *)
LEMMA GetLoads ==
    ASSUME FCTypeOK, MissingLoads, UNCHANGED <<disk, events, lost, phase>>,
           NEW n \in Name, Get(n), scan' = scan \ {n} \/ UNCHANGED scan,
           \A m \in Name \ {n} : Scheduled(m) => Scheduled(m)'
    PROVE  MissingLoads'
<1>0. Watched \subseteq Name
  BY FileCacheAssumption, Zenon DEF Watched
<1>1. phase' = "watching" => scan' = {}
  BY Zenon DEF MissingLoads
<1>2. SUFFICES ASSUME NEW m \in Watched, phase \in {"scanning", "watching"},
                      fileData'[m] = Absent, disk[m] # Absent
               PROVE  Loads(m)'
  BY <1>1, Zenon DEF MissingLoads
<1>3. CASE m = n
  BY <1>2, <1>3, GetLemma, Zenon DEF Loads
<1>4. CASE m # n
  <2>1. Loads(m)
    BY <1>0, <1>2, <1>4, GetLemma, Zenon DEF MissingLoads
  <2>2. m \in failed => m \in failed'
    BY <1>0, <1>4, GetLemma, Zenon
  <2>3. (m \in scan => m \in scan') /\ (Scheduled(m) => Scheduled(m)')
    BY <1>0, <1>4, Zenon
  <2> QED BY <2>1, <2>2, <2>3, Zenon DEF Loads, EventPending
<1> QED BY <1>3, <1>4, Zenon

LEMMA MissingLoadsStep ==
    ASSUME FCInv, MissingLoads, [FCNext]_fcVars
    PROVE  MissingLoads'
<1>0. FCTypeOK /\ Watched \subseteq Name \ Symlink /\ Watched \subseteq Matching
  BY FileCacheAssumption, Zenon DEF FCInv, Watched
<1>1. CASE EnvStep
  <2>1. UNCHANGED <<phase, scan, fileData, failed, running, firing, calling>>
    BY <1>0, <1>1, EnvLemma, Zenon DEF cacheSide, watchVars, cacheVars, timerVars
  <2>2. /\ \A m \in Watched : EventPending(m) \/ m \in lost => EventPending(m)' \/ m \in lost'
        /\ \A m \in Watched : disk'[m] # disk[m] => EventPending(m)' \/ m \in lost'
    BY <1>0, <1>1, EnvLemma, Zenon
  <2>3. \A m \in Watched : Loads(m) \/ disk'[m] # disk[m] => Loads(m)'
    BY <2>1, <2>2, Zenon DEF Loads, Scheduled
  <2> QED BY <2>1, <2>3, Zenon DEF MissingLoads
<1>2. CASE WatcherEvent
  <2> DEFINE e == Head(events)
  <2>1. Len(events) > 0 /\ events' = Tail(events) /\ UNCHANGED <<disk, phase, scan>>
    BY <1>2, Zenon DEF WatcherEvent, envVars, watchVars
  <2>2. ASSUME NEW n \in Name, NEW op, e.name = n, Invalidate(n, op) PROVE MissingLoads'
    <3>1. \A m \in Watched : m # n /\ EventPending(m) => EventPending(m)'
      BY <1>0, <2>1, <2>2, TailLemma
    <3>2. /\ UNCHANGED failed /\ lost' = lost \ {n}
          /\ fileData'[n] = Absent => Scheduled(n)'
          /\ \A m \in Name : m # n => fileData'[m] = fileData[m]
          /\ \A m \in Name : Scheduled(m) => Scheduled(m)'
      BY <2>2, InvalidateLemma, Zenon DEF Scheduled
    <3>3. \A m \in Watched : m # n /\ Loads(m) => Loads(m)'
      BY <1>0, <2>1, <3>1, <3>2, Zenon DEF Loads
    <3> QED BY <1>0, <2>1, <3>2, <3>3, Zenon DEF MissingLoads, Loads
  <2>3. CASE /\ ~(e.op # "Chmod" /\ ShouldProcess(e.name))
             /\ UNCHANGED <<lost, cacheVars, timerVars, prefetch>>
    <3>1. \A m \in Watched : ~(e.name = m /\ e.op # "Chmod")
      BY <1>0, <2>3, Zenon DEF ShouldProcess, Watched
    <3>2. \A m \in Watched : EventPending(m) => EventPending(m)'
      BY <1>0, <2>1, <3>1, TailLemma, Zenon
    <3>3. \A m \in Watched : Loads(m) => Loads(m)'
      BY <2>1, <2>3, <3>2, Zenon DEF Loads, Scheduled, cacheVars, timerVars
    <3> QED BY <2>1, <2>3, <3>3, Zenon DEF MissingLoads, cacheVars
  <2>4. ShouldProcess(e.name) => e.name \in Name
    BY FileCacheAssumption, Zenon DEF ShouldProcess
  <2> QED BY <1>2, <2>2, <2>3, <2>4, Zenon DEF WatcherEvent
<1>3. CASE Watch
  <2>1. UNCHANGED <<disk, fileData>> /\ phase' # "watching"
    BY <1>3, Zenon DEF Watch, envVars, cacheVars
  <2>2. phase' = "scanning" => scan' = {n \in Matching : disk[n] # Absent}
    BY <1>3, Zenon DEF Watch
  <2> QED BY <1>0, <2>1, <2>2, Zenon DEF MissingLoads, Loads
<1>4. CASE StartWatcher \/ Close \/ UNCHANGED fcVars
  <2>1. UNCHANGED <<disk, fileData, failed, lost, events, scan, running, firing, calling>>
    BY <1>4, Zenon DEF StartWatcher, Close, fcVars, envVars, queueVars, watchVars, cacheVars,
                       timerVars
  <2>2. \A m \in Watched : Loads(m) => Loads(m)'
    BY <2>1, Zenon DEF Loads, Scheduled, EventPending
  <2>3. \/ phase = "scanning" /\ phase' = "watching" /\ scan' = {}
        \/ phase' = "closed" \/ phase' = phase
    BY <1>4, Zenon DEF StartWatcher, Close, fcVars, watchVars
  <2> QED BY <2>1, <2>2, <2>3, Zenon DEF MissingLoads
<1>5. ASSUME NEW n \in Name, FileStep(n) \/ ClientGet(n) PROVE MissingLoads'
  <2>1. UNCHANGED <<disk, events, lost, phase>>
    BY <1>5, Zenon DEF FileStep, TimerExpire, TimerFunc, CallbackGet, Prefetch, ScanFile,
                       ClientGet, envVars, queueVars, watchVars
  <2>2. CASE TimerExpire(n) \/ TimerFunc(n)
    <3>1. UNCHANGED <<scan, fileData, failed>>
      BY <2>2, Zenon DEF TimerExpire, TimerFunc, watchVars, cacheVars
    <3>2. \A m \in Name : Scheduled(m) => Scheduled(m)'
      BY <2>2, ScheduledKept, Zenon
    <3>3. \A m \in Watched : Loads(m) => Loads(m)'
      BY <1>0, <2>1, <3>1, <3>2, Zenon DEF Loads, EventPending
    <3> QED BY <2>1, <3>1, <3>3, Zenon DEF MissingLoads
  <2>3. CASE CallbackGet(n)
    <3>1. Get(n) /\ UNCHANGED scan
      BY <2>3, Zenon DEF CallbackGet, watchVars
    <3>2. \A m \in Name \ {n} : Scheduled(m) => Scheduled(m)'
      BY <2>3, ScheduledKept, Zenon
    <3> QED BY <1>0, <2>1, <3>1, <3>2, GetLoads, Zenon
  <2>4. CASE Prefetch(n) \/ ScanFile(n) \/ ClientGet(n)
    <3>1. Get(n) /\ (scan' = scan \ {n} \/ UNCHANGED scan)
      BY <2>4, Zenon DEF Prefetch, ScanFile, ClientGet, watchVars
    <3>2. \A m \in Name \ {n} : Scheduled(m) => Scheduled(m)'
      BY <2>4, ScheduledKept, Zenon
    <3> QED BY <1>0, <2>1, <3>1, <3>2, GetLoads, Zenon
  <2> QED BY <1>5, <2>2, <2>3, <2>4, Zenon DEF FileStep
<1> QED BY <1>1, <1>2, <1>3, <1>4, <1>5, Zenon DEF FCNext

(* CacheSettled for every folder, every bound and every queue length: when *)
(* the watcher and the debounce queue have nothing left to do for a file,  *)
(* its entry is the file.  The three ways to be wrong are closed by        *)
(* FilesCoherent, DirtyScheduled and MissingLoads.                         *)
THEOREM CacheSettledTheorem == FCSpec => []CacheSettled
<1>1. FCInit => MissingLoads
  BY Zenon DEF FCInit, MissingLoads
<1>2. FCInv /\ MissingLoads /\ [FCNext]_fcVars => MissingLoads'
  BY MissingLoadsStep, Zenon
<1>3. FilesCoherent /\ DirtyScheduled /\ MissingLoads => CacheSettled
  BY Zenon DEF FilesCoherent, DirtyScheduled, MissingLoads, Loads, CacheSettled, AtRest, GetHit
<1> QED BY <1>1, <1>2, <1>3, FCInvariant, FilesCoherentTheorem, DirtyScheduledTheorem, PTL
        DEF FCSpec
=============================================================================

-------------------------- MODULE BackgroundProofs --------------------------
(***************************************************************************)
(* Goroutines that are waited for when they are stopped.                   *)
(*                                                                         *)
(* The poller of a pipeline's configuration, for any number of callers and *)
(* of changes, as long as no two fetches overlap: the snapshot only moves  *)
(* forward, to what decodes, and not at all once the stop function has     *)
(* returned.                                                               *)
(*                                                                         *)
(* The actors of a group, for any sets of goroutines and factories: when   *)
(* OnDestroy has returned none of them runs and the listener is closed.    *)
(***************************************************************************)
EXTENDS PipelineConfig, GroupLifecycle, TLAPS

-----------------------------------------------------------------------------
(* The pipeline: the one running fetch holds what the cache holds, and a    *)
(* cache with data is never behind the snapshot; so a fetch that passes the *)
(* checksum test brings something newer.                                    *)

\* Every variable has its type.
PipelineTypeOK ==
    /\ exists \in BOOLEAN /\ content \in Nat /\ mtime \in Nat /\ changes \in Nat
    /\ cache \in [mtime : Nat, data : Nat]
    /\ fetch \in [Fetchers -> {"no", "stat", "read", "compare", "publish", "record"}]
    /\ seen \in [Fetchers -> Nat] /\ data \in [Fetchers -> Nat]
    /\ current \in Nat /\ lastVersion \in Nat
    /\ poller \in {"off", "select", "fetching", "over"}
    /\ stop \in {"no", "waiting", "returned"}

\* At most one fetch runs: a caller's before Start, the poller's after.
OneFetch ==
    /\ \A f, g \in Fetchers : ~Idle(f) /\ ~Idle(g) => f = g
    /\ poller # "off" => \A c \in Callers : Idle(c)
    /\ poller # "fetching" => Idle("poller")
    /\ stop = "returned" => poller = "over"

\* What was read lies between the snapshot and the file's last content.
ReadInOrder ==
    /\ content \in {0, changes}
    /\ current <= changes /\ cache.data <= changes
    /\ cache.data # 0 => current <= cache.data

\* What the running fetch holds, by how far it is.
FetchHolds ==
    /\ \A f \in Fetchers :
         /\ fetch[f] \in {"compare", "publish", "record"} => data[f] = cache.data
         /\ fetch[f] = "publish" => Decodes(data[f]) /\ data[f] # lastVersion
         /\ fetch[f] = "record" => current = data[f]
    /\ (\A f \in Fetchers : fetch[f] # "record") => lastVersion = current

PipelineInv == PipelineTypeOK /\ OneFetch /\ ReadInOrder /\ FetchHolds

\* The poller is a fetcher of its own.
LEMMA PollerFetches == "poller" \in Fetchers /\ "poller" \notin Callers /\ Callers \subseteq Fetchers
BY PipelineAssumption DEF Fetchers

\* Nothing is read and nothing runs at the start.
LEMMA PipelineInitInv == PipelineInit => PipelineInv
<1> SUFFICES ASSUME PipelineInit PROVE PipelineInv
  OBVIOUS
<1>1. PipelineTypeOK
  BY Zenon DEF PipelineInit, PipelineTypeOK
<1>2. OneFetch
  BY PollerFetches DEF PipelineInit, OneFetch, Idle
<1>3. ReadInOrder
  BY DEF PipelineInit, ReadInOrder
<1>4. FetchHolds
  BY DEF PipelineInit, FetchHolds
<1> QED
  BY <1>1, <1>2, <1>3, <1>4 DEF PipelineInv

\* A write of the file moves its content on and touches nothing of the fetches.
LEMMA WriterKeeps ==
    ASSUME PipelineInv, Truncate \/ WriteFile \/ ReplaceFile \/ RemoveFile
    PROVE  PipelineInv'
<1>1. UNCHANGED <<source, fetch, snapshot, poller, stop>>
  BY DEF Truncate, WriteFile, ReplaceFile, RemoveFile
<1>2. OneFetch' /\ FetchHolds'
  BY <1>1 DEF PipelineInv, OneFetch, FetchHolds, Idle, source, snapshot
<1>3. mtime' \in Nat
  BY DEF Truncate, WriteFile, ReplaceFile, RemoveFile, Stamp, PipelineInv, PipelineTypeOK
<1>4. /\ content' \in {0, changes'}
      /\ changes' \in Nat /\ changes <= changes'
  <2>1. changes' \in {changes, changes + 1} /\ content' \in {0, changes'}
    BY Zenon DEF Truncate, WriteFile, ReplaceFile, RemoveFile, PipelineInv, ReadInOrder
  <2> QED
    BY <2>1 DEF PipelineInv, PipelineTypeOK
<1>7. exists' \in BOOLEAN
  BY Zenon DEF Truncate, WriteFile, ReplaceFile, RemoveFile, PipelineInv, PipelineTypeOK
<1>5. PipelineTypeOK'
  BY <1>1, <1>3, <1>4, <1>7 DEF PipelineInv, PipelineTypeOK, source, snapshot
<1>6. ReadInOrder'
  BY <1>1, <1>4 DEF PipelineInv, PipelineTypeOK, ReadInOrder, source, snapshot
<1> QED
  BY <1>2, <1>5, <1>6 DEF PipelineInv

\* A step of the running fetch: the others are idle and stay so.
LEMMA FetchStepAlone ==
    ASSUME PipelineInv, NEW f \in Fetchers, ~Idle(f), NEW at, GoTo(f, at),
           UNCHANGED <<poller, stop>>
    PROVE  /\ OneFetch'
           /\ \A g \in Fetchers \ {f} : fetch[g] = "no" /\ fetch'[g] = "no"
           /\ fetch'[f] = at
<1>1. /\ fetch'[f] = at
      /\ \A g \in Fetchers \ {f} : fetch'[g] = fetch[g] /\ fetch[g] = "no"
  BY DEF GoTo, PipelineInv, PipelineTypeOK, OneFetch, Idle
<1>2. OneFetch'
  BY <1>1, PollerFetches DEF PipelineInv, OneFetch, Idle
<1> QED
  BY <1>1, <1>2

\* The source returns what is cached, or reads the file into the cache.
LEMMA SourceKeeps ==
    ASSUME PipelineInv, NEW f \in Fetchers, Stat(f) \/ ReadFile(f)
    PROVE  PipelineInv'
<1>1. PICK at \in {"no", "read", "compare"} : GoTo(f, at)
  BY DEF Stat, ReadFile, Returns, Fails
<1>2. ~Idle(f) /\ UNCHANGED <<file, snapshot, poller, stop>>
  BY DEF Stat, ReadFile, Idle
<1>3. /\ OneFetch'
      /\ \A g \in Fetchers \ {f} : fetch[g] = "no" /\ fetch'[g] = "no"
      /\ fetch'[f] = at
  BY <1>1, <1>2, FetchStepAlone
<1>4. cache' = cache \/ (cache'.data = content /\ cache' \in [mtime : Nat, data : Nat])
  BY DEF Stat, ReadFile, PipelineInv, PipelineTypeOK
<1>5. /\ seen' \in [Fetchers -> Nat] /\ data' \in [Fetchers -> Nat]
      /\ at = "compare" => data'[f] = cache'.data
  <2>1. CASE Stat(f)
    BY <2>1, <1>1, <1>3 DEF Stat, Returns, Fails, GoTo, PipelineInv, PipelineTypeOK
  <2>2. CASE ReadFile(f)
    BY <2>2, <1>1, <1>3 DEF ReadFile, Returns, Fails, GoTo, PipelineInv, PipelineTypeOK
  <2> QED
    BY <2>1, <2>2
<1>6. fetch' \in [Fetchers -> {"no", "stat", "read", "compare", "publish", "record"}]
  BY <1>1 DEF GoTo, PipelineInv, PipelineTypeOK
<1>7. PipelineTypeOK'
  BY <1>2, <1>4, <1>5, <1>6 DEF PipelineInv, PipelineTypeOK, file, snapshot
<1>8. ReadInOrder'
  BY <1>2, <1>4 DEF PipelineInv, PipelineTypeOK, ReadInOrder, file, snapshot
<1>9. FetchHolds'
  <2>1. \A g \in Fetchers : fetch[g] # "record"
    BY <1>3 DEF Stat, ReadFile
  <2> QED
    BY <2>1, <1>2, <1>3, <1>5 DEF PipelineInv, FetchHolds, snapshot
<1> QED
  BY <1>3, <1>7, <1>8, <1>9 DEF PipelineInv

\* What the running fetch does with the data leaves the file and the source alone.
LEMMA StoreKeeps ==
    ASSUME PipelineInv, NEW f \in Fetchers, Compare(f) \/ Publish(f) \/ Record(f)
    PROVE  PipelineInv'
<1>1. PICK at \in {"no", "publish", "record"} : GoTo(f, at)
  BY DEF Compare, Publish, Record
<1>2. ~Idle(f) /\ UNCHANGED <<file, source, poller, stop>>
  BY DEF Compare, Publish, Record, Idle
<1>3. /\ OneFetch'
      /\ \A g \in Fetchers \ {f} : fetch[g] = "no" /\ fetch'[g] = "no"
      /\ fetch'[f] = at
  BY <1>1, <1>2, FetchStepAlone
<1>4. fetch' \in [Fetchers -> {"no", "stat", "read", "compare", "publish", "record"}]
  BY <1>1 DEF GoTo, PipelineInv, PipelineTypeOK
<1>5. data[f] = cache.data
  BY DEF Compare, Publish, Record, PipelineInv, FetchHolds
<1>6. current' \in Nat /\ lastVersion' \in Nat
  BY DEF Compare, Publish, Record, snapshot, PipelineInv, PipelineTypeOK
<1>7. PipelineTypeOK'
  BY <1>2, <1>4, <1>6 DEF PipelineInv, PipelineTypeOK, file, source
<1>8. ReadInOrder'
  <2>1. current' \in {current, cache.data}
    BY <1>5 DEF Compare, Publish, Record, snapshot
  <2> QED
    BY <2>1, <1>2 DEF PipelineInv, PipelineTypeOK, ReadInOrder, file, source
<1>9. FetchHolds'
  <2>1. CASE Compare(f)
    <3>1. at = "publish" => Decodes(data[f]) /\ data[f] # lastVersion
      BY <2>1, <1>3 DEF Compare, GoTo, PipelineInv, PipelineTypeOK
    <3>2. at # "record" /\ UNCHANGED snapshot /\ fetch[f] = "compare"
      BY <2>1, <1>3 DEF Compare, GoTo, PipelineInv, PipelineTypeOK
    <3> QED
      BY <3>1, <3>2, <1>2, <1>3, <1>5 DEF PipelineInv, FetchHolds, source, snapshot
  <2>2. CASE Publish(f)
    <3>1. at = "record" /\ current' = data[f] /\ lastVersion' = lastVersion
      BY <2>2, <1>3 DEF Publish, GoTo, PipelineInv, PipelineTypeOK
    <3> QED
      BY <3>1, <1>2, <1>3, <1>5 DEF FetchHolds, source
  <2>3. CASE Record(f)
    <3>1. at = "no" /\ lastVersion' = data[f] /\ current' = current /\ current = data[f]
      BY <2>3, <1>3 DEF Record, GoTo, PipelineInv, PipelineTypeOK, FetchHolds
    <3> QED
      BY <3>1, <1>3 DEF FetchHolds
  <2> QED
    BY <2>1, <2>2, <2>3
<1> QED
  BY <1>3, <1>7, <1>8, <1>9 DEF PipelineInv

\* A fetch begins, on a caller's goroutine or the poller's, only when none runs.
LEMMA BeginKeeps ==
    ASSUME PipelineInv, NEW f \in Fetchers, \A g \in Fetchers : Idle(g), GoTo(f, "stat"),
           UNCHANGED <<file, source, snapshot, stop>>, poller' \in {"off", "fetching"},
           f = "poller" => poller' = "fetching", f # "poller" => poller' = "off",
           stop = "returned" => poller' = "over"
    PROVE  PipelineInv'
<1>1. /\ fetch'[f] = "stat"
      /\ \A g \in Fetchers \ {f} : fetch[g] = "no" /\ fetch'[g] = "no"
      /\ fetch' \in [Fetchers -> {"no", "stat", "read", "compare", "publish", "record"}]
  BY DEF GoTo, PipelineInv, PipelineTypeOK, Idle
<1>2. fetch[f] = "no"
  BY DEF Idle
<1>3. OneFetch'
  BY <1>1, PollerFetches DEF PipelineInv, OneFetch, Idle
<1>4. PipelineTypeOK'
  BY <1>1 DEF PipelineInv, PipelineTypeOK, file, source, snapshot
<1>5. ReadInOrder'
  BY DEF PipelineInv, ReadInOrder, file, source, snapshot
<1>6. FetchHolds'
  BY <1>1, <1>2 DEF PipelineInv, FetchHolds, source, snapshot
<1> QED
  BY <1>3, <1>4, <1>5, <1>6 DEF PipelineInv

\* The rest of what the goroutines do changes neither file nor fetch.
LEMMA PollingKeeps ==
    ASSUME PipelineInv,
           PollFetchReturns \/ PollerEnds \/ SignalRefresh \/ StopPolling \/ StopReturns
             \/ UNCHANGED pipelineVars
    PROVE  PipelineInv'
<1>1. UNCHANGED <<file, source, fetch, snapshot>>
  BY DEF PollFetchReturns, PollerEnds, SignalRefresh, StopPolling, StopReturns, pipelineVars,
         file, source, snapshot
<1>2. /\ poller' \in {"off", "select", "fetching", "over"}
      /\ stop' \in {"no", "waiting", "returned"}
  BY DEF PollFetchReturns, PollerEnds, SignalRefresh, StopPolling, StopReturns, pipelineVars,
         PipelineInv, PipelineTypeOK
<1>3. OneFetch'
  BY <1>1 DEF PollFetchReturns, PollerEnds, SignalRefresh, StopPolling, StopReturns,
              pipelineVars, PipelineInv, PipelineTypeOK, OneFetch, Idle
<1>4. PipelineTypeOK'
  BY <1>1, <1>2 DEF PipelineInv, PipelineTypeOK, file, source, snapshot
<1>5. ReadInOrder' /\ FetchHolds'
  BY <1>1 DEF PipelineInv, ReadInOrder, FetchHolds, file, source, snapshot
<1> QED
  BY <1>3, <1>4, <1>5 DEF PipelineInv

\* Every step keeps the invariant, when RefreshOnce is not called beside the poller.
LEMMA PipelineStepKeeps ==
    ASSUME ~Concurrent, PipelineInv, [PipelineNext]_pipelineVars
    PROVE  PipelineInv'
<1>1. CASE Truncate \/ WriteFile \/ ReplaceFile \/ RemoveFile
  BY <1>1, WriterKeeps
<1>2. CASE \E f \in Fetchers : FetchSteps(f)
  BY <1>2, SourceKeeps, StoreKeeps DEF FetchSteps
<1>3. CASE \E c \in Callers : RefreshOnce(c)
  <2>1. PICK c \in Callers : RefreshOnce(c)
    BY <1>3
  <2>2. c \in Fetchers /\ c # "poller" /\ \A g \in Fetchers : Idle(g)
    BY <2>1, PollerFetches DEF RefreshOnce, FetchesAlone
  <2>3. /\ GoTo(c, "stat") /\ poller' = "off"
        /\ UNCHANGED <<file, source, snapshot, stop>> /\ stop # "returned"
    BY <2>1 DEF RefreshOnce, PipelineInv, OneFetch
  <2> QED
    BY <2>2, <2>3, BeginKeeps
<1>4. CASE Start
  <2>1. \A g \in Fetchers : Idle(g)
    BY <1>4 DEF Start, FetchesAlone, PipelineInv, OneFetch
  <2>2. /\ GoTo("poller", "stat") /\ poller' = "fetching"
        /\ UNCHANGED <<file, source, snapshot, stop>> /\ stop # "returned"
    BY <1>4 DEF Start, PipelineInv, OneFetch
  <2> QED
    BY <2>1, <2>2, PollerFetches, BeginKeeps
<1>5. CASE Poll
  <2>1. \A g \in Fetchers : Idle(g)
    BY <1>5 DEF Poll, PipelineInv, OneFetch, Fetchers
  <2>2. /\ GoTo("poller", "stat") /\ poller' = "fetching"
        /\ UNCHANGED <<file, source, snapshot, stop>> /\ stop # "returned"
    BY <1>5 DEF Poll, PipelineInv, OneFetch
  <2> QED
    BY <2>1, <2>2, PollerFetches, BeginKeeps
<1>6. CASE \/ PollFetchReturns \/ PollerEnds \/ SignalRefresh \/ StopPolling \/ StopReturns
           \/ UNCHANGED pipelineVars
  BY <1>6, PollingKeeps
<1> QED
  BY <1>1, <1>2, <1>3, <1>4, <1>5, <1>6 DEF PipelineNext, Polling, Stopped

\* So it holds in every reachable state.
LEMMA PipelineReachable ==
    ASSUME ~Concurrent
    PROVE  PipelineSpec => []PipelineInv
<1>1. PipelineInv /\ [PipelineNext]_pipelineVars => PipelineInv'
  BY PipelineStepKeeps
<1> QED
  BY <1>1, PipelineInitInv, PTL DEF PipelineSpec

\* Only Publish, of the running fetch, changes the snapshot, to what the fetch read.
LEMMA OnlyPublish ==
    ASSUME PipelineInv, PipelineNext, current' # current
    PROVE  /\ stop # "returned"
           /\ \E f \in Fetchers : /\ current' = data[f] /\ data[f] = cache.data
                                  /\ Decodes(data[f]) /\ data[f] # lastVersion
                                  /\ lastVersion = current
<1>1. PICK f \in Fetchers : Publish(f)
  BY Zenon DEF PipelineNext, Polling, Stopped, Truncate, WriteFile, ReplaceFile, RemoveFile,
         FetchSteps, Stat, ReadFile, Compare, Record, RefreshOnce, Start, StopPolling,
         PollFetchReturns, Poll, PollerEnds, SignalRefresh, StopReturns, snapshot,
         pipelineVars
<1>2. ~Idle(f) /\ \A g \in Fetchers \ {f} : Idle(g)
  BY <1>1 DEF Publish, Idle, PipelineInv, OneFetch
<1>3. lastVersion = current /\ data[f] = cache.data /\ Decodes(data[f]) /\ data[f] # lastVersion
  BY <1>1, <1>2 DEF Publish, Idle, PipelineInv, FetchHolds
<1>4. stop # "returned"
  BY <1>2, PollerFetches DEF PipelineInv, OneFetch, Fetchers
<1> QED
  BY <1>1, <1>3, <1>4 DEF Publish

\* Whatever the writer does between Stat and ReadFile, and however coarse the file's
\* clock is, the snapshot only moves forward, to contents that decode; unless
\* RefreshOnce runs beside the poller.
THEOREM SnapshotMovesForward ==
    ASSUME ~Concurrent
    PROVE  PipelineSpec => LastGoodKept
<1>1. PipelineInv /\ [PipelineNext]_pipelineVars
        => [current' # current => Decodes(current') /\ current' > current]_pipelineVars
  <2> SUFFICES ASSUME PipelineInv, PipelineNext, current' # current
               PROVE  Decodes(current') /\ current' > current
    BY DEF pipelineVars
  <2>1. PICK f \in Fetchers : /\ current' = data[f] /\ data[f] = cache.data
                              /\ Decodes(data[f]) /\ data[f] # lastVersion
                              /\ lastVersion = current
    BY OnlyPublish
  <2>2. current <= cache.data /\ current \in Nat /\ cache.data \in Nat
    BY <2>1 DEF PipelineInv, PipelineTypeOK, ReadInOrder, Decodes
  <2> QED
    BY <2>1, <2>2
<1> QED
  BY <1>1, PipelineReachable, PTL DEF PipelineSpec, LastGoodKept

\* The stop function has joined the poller when it returns, so that no fetch changes
\* the snapshot any more; unless RefreshOnce runs beside the poller.
THEOREM StopJoinsPoller ==
    ASSUME ~Concurrent
    PROVE  PipelineSpec => StoppedIsFinal
<1>1. PipelineInv /\ [PipelineNext]_pipelineVars
        => [stop = "returned" => current' = current]_pipelineVars
  BY OnlyPublish DEF pipelineVars
<1> QED
  BY <1>1, PipelineReachable, PTL DEF PipelineSpec, StoppedIsFinal

-----------------------------------------------------------------------------
(* The group.                                                               *)

\* The values the group's variables take.
GroupTypeOK ==
    /\ actors \in {{Sidecar}, Goroutines}
    /\ factory \in [Factories -> {"none", "refused", "live", "destroying", "gone"}]
    /\ run \in [Runs -> {"none", "begun", "bound", "serving", "over"}]
    /\ once \in {"new", "running", "done"}
    /\ stopper \in [StopCallers ->
                       {"none", "waiting", "enter", "stopping", "joining", "returned"}]
    /\ started \in BOOLEAN
    /\ port \in {Free, Other} \cup (Factories \X {Sidecar})

\* The factory's config was accepted: its Start launched runs and a watcher.
Loaded(f) == factory[f] \notin {"none", "refused"}

\* The factory is the only one that ever started the group.
Alone(f) == Loaded(f) /\ \A g \in Factories \ {f} : ~Loaded(g)

\* Runs and callers of Stop belong to a factory that started the group, and so
\* does whatever Stop or a run did.
OfLoaded ==
    /\ \A r \in Runs : run[r] # "none" => Loaded(r[1]) /\ r[2] \in actors
    /\ \A c \in StopCallers : stopper[c] # "none" => Loaded(c[1])
    /\ (started \/ once # "new") => \E f \in Factories : Loaded(f)

\* sync.Once: one caller runs Stop's body, who has returned found it done.
OnceHeld ==
    /\ \A c \in StopCallers :
          /\ stopper[c] = "returned" => once = "done"
          /\ stopper[c] \in {"stopping", "joining"} => once = "running"
    /\ \A c, d \in StopCallers :
          {stopper[c], stopper[d]} \subseteq {"stopping", "joining"} => c = d
    /\ \A f \in Factories : factory[f] = "gone" => stopper[<<f, "OnDestroy">>] = "returned"

\* The actors' stop functions have been called.
ActorsStopped == once = "done" \/ \E c \in StopCallers : stopper[c] = "joining"

\* The listener on the port is the one Stop would close, and the run that opened
\* it exists.
ListenerOwned ==
    port \notin {Free, Other} => port = server /\ run[port] # "none"

\* What Stop of a group that one factory started can rely on: once started is
\* closed its run is past the listen, and Stop has closed the listener for good.
SoloStop ==
    \A f \in Factories :
        Alone(f) =>
            /\ started => run[<<f, Sidecar>>] \notin {"begun", "bound"}
            /\ ActorsStopped => (Sidecar \in actors => started) /\ port # <<f, Sidecar>>
            /\ once = "done" => \A r \in Runs : ~Alive(r)

\* The inductive invariant of the group.
GroupInv == GroupTypeOK /\ OfLoaded /\ OnceHeld /\ ListenerOwned /\ SoloStop

-----------------------------------------------------------------------------
(* Its proofs.                                                              *)

\* The group begins in the invariant: nothing has been started.
LEMMA GroupStarts == GroupInit => GroupInv
<1> SUFFICES ASSUME GroupInit PROVE GroupInv
  OBVIOUS
<1>1. GroupTypeOK
  BY Zenon DEF GroupInit, GroupTypeOK
<1>2. OfLoaded /\ OnceHeld /\ ListenerOwned
  BY DEF GroupInit, OfLoaded, OnceHeld, ListenerOwned, Loaded
<1>3. SoloStop
  BY DEF GroupInit, SoloStop, Alone, Loaded
<1> QED
  BY <1>1, <1>2, <1>3 DEF GroupInv

\* configFactory.Create: the first factory to start the group finds nothing of
\* an earlier one, and after a second none is alone.
LEMMA CreateKeeps == ASSUME GroupInv, NEW f \in Factories, Create(f) PROVE GroupInv'
<1> USE DEF GroupInv, GroupTypeOK
<1>0. CASE factory' = [factory EXCEPT ![f] = "refused"] /\ UNCHANGED <<run, stopper>>
  <2>1. \A g \in Factories : Loaded(g)' <=> Loaded(g)
    BY <1>0 DEF Create, Loaded
  <2>2. GroupTypeOK' /\ OfLoaded' /\ ListenerOwned'
    BY <1>0, <2>1 DEF Create, OfLoaded, ListenerOwned, StopCallers, Runs, sidecarState
  <2>3. OnceHeld'
    BY <1>0 DEF Create, OnceHeld
  <2>4. SoloStop'
    BY <1>0, <2>1 DEF Create, SoloStop, Alone, ActorsStopped, Alive, sidecarState
  <2> QED
    BY <2>2, <2>3, <2>4
<1>1. CASE factory' = [factory EXCEPT ![f] = "live"] /\ GroupStart(f)
  <2>1. /\ \A g \in Factories \ {f} : Loaded(g)' <=> Loaded(g)
        /\ ~Loaded(f) /\ Loaded(f)'
    BY <1>1 DEF Create, Loaded
  <2>2. GroupTypeOK'
    BY <1>1 DEF Create, GroupStart, StopCallers, sidecarState
  <2>3. \A r \in Runs : r[1] \in Factories /\ run'[r] = IF r[1] = f /\ r[2] \in actors THEN "begun" ELSE run[r]
    BY <1>1 DEF GroupStart, Runs
  <2>4. \A c \in StopCallers :
            c[1] \in Factories /\ stopper'[c] = IF c = <<f, "watcher">> THEN "waiting" ELSE stopper[c]
    BY <1>1 DEF GroupStart, StopCallers
  <2>5. OfLoaded'
    <3>1. \A r \in Runs : run'[r] # "none" => Loaded(r[1])' /\ r[2] \in actors'
      BY <2>1, <2>3 DEF Create, OfLoaded
    <3>2. \A c \in StopCallers : stopper'[c] # "none" => Loaded(c[1])'
      BY <2>1, <2>4 DEF OfLoaded
    <3> QED
      BY <3>1, <3>2, <2>1 DEF OfLoaded
  <2>6. OnceHeld'
    BY <1>1, <2>4 DEF Create, OnceHeld, StopCallers
  <2>7. ListenerOwned'
    BY <2>2, <2>3 DEF Create, ListenerOwned, sidecarState, Runs
  <2>8. SoloStop'
    <3> SUFFICES ASSUME NEW g \in Factories, Alone(g)'
                 PROVE  ~started /\ ~ActorsStopped' /\ once # "done"
      BY DEF Create, SoloStop, sidecarState
    <3>1. g = f
      BY <2>1 DEF Alone
    <3>2. \A h \in Factories : ~Loaded(h)
      BY <2>1, <3>1 DEF Alone
    <3>3. ~started /\ once = "new"
      BY <3>2 DEF OfLoaded
    <3>4. \A c \in StopCallers : stopper[c] = "none"
      BY <3>2, <2>4 DEF OfLoaded
    <3> QED
      BY <3>3, <3>4, <2>4 DEF ActorsStopped, Create
  <2> QED
    BY <2>2, <2>5, <2>6, <2>7, <2>8
<1> QED
  BY <1>0, <1>1 DEF Create

\* OnDestroy, its return and a caller of Stop that enters or watches: the runs and
\* the sidecar are left alone.
LEMMA StopperKeeps ==
    ASSUME GroupInv, UNCHANGED <<actors, run, sidecarState>>,
           \A g \in Factories : Loaded(g)' <=> Loaded(g),
           GroupTypeOK', OnceHeld', ActorsStopped' => ActorsStopped,
           once' = "done" => once = "done" \/ \A r \in Runs : ~Alive(r),
           once' # "new" => \E g \in Factories : Loaded(g),
           \A c \in StopCallers : stopper'[c] # "none" => Loaded(c[1])
    PROVE  GroupInv'
<1>1. OfLoaded'
  BY DEF GroupInv, OfLoaded, sidecarState, StopCallers, Runs
<1>2. ListenerOwned'
  BY DEF GroupInv, ListenerOwned, sidecarState
<1>3. SoloStop'
  BY DEF GroupInv, SoloStop, Alone, Alive, sidecarState
<1> QED
  BY <1>1, <1>2, <1>3 DEF GroupInv

\* filterFactory.OnDestroy.
LEMMA OnDestroyKeeps == ASSUME GroupInv, NEW f \in Factories, OnDestroy(f) PROVE GroupInv'
<1> USE DEF GroupInv, GroupTypeOK
<1>1. /\ UNCHANGED <<actors, run, cancelled, once, sidecarState>>
      /\ factory[f] = "live" /\ factory' = [factory EXCEPT ![f] = "destroying"]
      /\ stopper' = [stopper EXCEPT ![<<f, "OnDestroy">>] = "enter"]
  BY DEF OnDestroy
<1>2. <<f, "OnDestroy">> \in StopCallers
  BY DEF StopCallers
<1>3. \A g \in Factories : Loaded(g)' <=> Loaded(g)
  BY <1>1 DEF Loaded
<1>4. GroupTypeOK'
  BY <1>1, Zenon DEF sidecarState
<1>5. \A c \in StopCallers :
          stopper'[c] = IF c = <<f, "OnDestroy">> THEN "enter" ELSE stopper[c]
  BY <1>1, <1>2
<1>6. OnceHeld'
  BY <1>1, <1>2, <1>5 DEF OnceHeld, StopCallers
<1>7. ActorsStopped' => ActorsStopped
  BY <1>1, <1>5 DEF ActorsStopped
<1>8. /\ once' # "new" => \E g \in Factories : Loaded(g)
      /\ \A c \in StopCallers : stopper'[c] # "none" => Loaded(c[1])
  BY <1>1, <1>5 DEF OfLoaded, Loaded
<1> QED
  BY <1>1, <1>3, <1>4, <1>6, <1>7, <1>8, StopperKeeps

\* OnDestroy returns when its Stop has.
LEMMA OnDestroyReturnsKeeps ==
    ASSUME GroupInv, NEW f \in Factories, OnDestroyReturns(f) PROVE GroupInv'
<1> USE DEF GroupInv, GroupTypeOK
<1>1. /\ UNCHANGED <<actors, run, once, stopper, sidecarState>>
      /\ factory[f] = "destroying" /\ factory' = [factory EXCEPT ![f] = "gone"]
      /\ stopper[<<f, "OnDestroy">>] = "returned"
  BY DEF OnDestroyReturns, stopState
<1>2. \A g \in Factories : Loaded(g)' <=> Loaded(g)
  BY <1>1 DEF Loaded
<1>3. GroupTypeOK' /\ OnceHeld'
  BY <1>1 DEF sidecarState, OnceHeld
<1>4. /\ once' # "new" => \E g \in Factories : Loaded(g)
      /\ \A c \in StopCallers : stopper'[c] # "none" => Loaded(c[1])
      /\ ActorsStopped' => ActorsStopped
  BY <1>1, SMTT(20) DEF OfLoaded, ActorsStopped
<1> QED
  BY <1>1, <1>2, <1>3, <1>4, StopperKeeps

\* once.Do: the first caller runs Stop, a later one has waited for it.
LEMMA EnterStopKeeps == ASSUME GroupInv, NEW c \in StopCallers, EnterStop(c) PROVE GroupInv'
<1> USE DEF GroupInv, GroupTypeOK
<1>1. /\ UNCHANGED <<actors, factory, run, sidecarState>>
      /\ stopper[c] = "enter"
      /\ \/ once = "new" /\ once' = "running" /\ stopper' = [stopper EXCEPT ![c] = "stopping"]
         \/ once = "done" /\ once' = "done" /\ stopper' = [stopper EXCEPT ![c] = "returned"]
  BY DEF EnterStop
<1>2. \A g \in Factories : Loaded(g)' <=> Loaded(g)
  BY <1>1 DEF Loaded
<1>3. GroupTypeOK'
  BY <1>1 DEF sidecarState
<1>4. \A d \in StopCallers : d # c => stopper'[d] = stopper[d]
  BY <1>1
<1>5. stopper'[c] = IF once = "new" THEN "stopping" ELSE "returned"
  BY <1>1
<1>6. OnceHeld'
  BY <1>1, <1>4, <1>5 DEF OnceHeld, StopCallers
<1>7. ActorsStopped' => ActorsStopped
  BY <1>1, <1>4, <1>5 DEF ActorsStopped
<1>8. /\ \A d \in StopCallers : stopper'[d] # "none" => Loaded(d[1])
      /\ c[1] \in Factories
  BY <1>1, <1>4 DEF OfLoaded, StopCallers
<1> QED
  BY <1>1, <1>2, <1>3, <1>6, <1>7, <1>8, StopperKeeps DEF OfLoaded

\* The watcher of a Start calls Stop.
LEMMA WatchKeeps == ASSUME GroupInv, NEW f \in Factories, Watch(f) PROVE GroupInv'
<1> USE DEF GroupInv, GroupTypeOK
<1>1. /\ UNCHANGED <<actors, factory, run, once, sidecarState>>
      /\ stopper[<<f, "watcher">>] = "waiting"
      /\ stopper' = [stopper EXCEPT ![<<f, "watcher">>] = "enter"]
      /\ <<f, "watcher">> \in StopCallers
  BY DEF Watch, StopCallers
<1>2. \A g \in Factories : Loaded(g)' <=> Loaded(g)
  BY <1>1 DEF Loaded
<1>3. GroupTypeOK'
  BY <1>1 DEF sidecarState
<1>4. \A d \in StopCallers :
          stopper'[d] = IF d = <<f, "watcher">> THEN "enter" ELSE stopper[d]
  BY <1>1
<1>5. OnceHeld'
  BY <1>1, <1>4 DEF OnceHeld, StopCallers
<1>6. ActorsStopped' => ActorsStopped
  BY <1>1, <1>4 DEF ActorsStopped
<1>7. /\ once' # "new" => \E g \in Factories : Loaded(g)
      /\ \A d \in StopCallers : stopper'[d] # "none" => Loaded(d[1])
  BY <1>1, <1>4 DEF OfLoaded
<1> QED
  BY <1>1, <1>2, <1>3, <1>5, <1>6, <1>7, StopperKeeps

\* wg.Wait has returned: no run is left.
LEMMA StopReturnsKeeps ==
    ASSUME GroupInv, NEW c \in StopCallers, GroupStopReturns(c) PROVE GroupInv'
<1> USE DEF GroupInv, GroupTypeOK
<1>1. /\ UNCHANGED <<actors, factory, run, sidecarState>>
      /\ stopper[c] = "joining" /\ once' = "done"
      /\ \A r \in Runs : ~Alive(r)
      /\ stopper' = [stopper EXCEPT ![c] = "returned"]
  BY DEF GroupStopReturns
<1>2. \A g \in Factories : Loaded(g)' <=> Loaded(g)
  BY <1>1 DEF Loaded
<1>3. GroupTypeOK'
  BY <1>1 DEF sidecarState
<1>4. \A d \in StopCallers : stopper'[d] = IF d = c THEN "returned" ELSE stopper[d]
  BY <1>1
<1>5. OnceHeld'
  BY <1>1, <1>4 DEF OnceHeld, StopCallers
<1>6. ActorsStopped
  BY <1>1 DEF ActorsStopped
<1>7. /\ \E g \in Factories : Loaded(g)
      /\ \A d \in StopCallers : stopper'[d] # "none" => Loaded(d[1])
  BY <1>1, <1>4 DEF OfLoaded, StopCallers
<1> QED
  BY <1>1, <1>2, <1>3, <1>5, <1>6, <1>7, StopperKeeps

\* The actors' stop functions: Sidecar.stop waits for started, so with one factory
\* the run it closes the listener of will not listen again.
LEMMA StopActorsKeeps ==
    ASSUME GroupInv, NEW c \in StopCallers, StopActors(c) PROVE GroupInv'
<1> USE DEF GroupInv, GroupTypeOK
<1>1. /\ UNCHANGED <<actors, factory, run, once, started, server>>
      /\ stopper[c] = "stopping" /\ stopper' = [stopper EXCEPT ![c] = "joining"]
      /\ IF Sidecar \in actors
           THEN started /\ port' = IF port = server THEN Free ELSE port
           ELSE UNCHANGED port
  BY DEF StopActors, SidecarStop, sidecarState
<1>2. \A g \in Factories : (Loaded(g)' <=> Loaded(g)) /\ (Alone(g)' <=> Alone(g))
  BY <1>1 DEF Loaded, Alone
<1>3. GroupTypeOK'
  BY <1>1
<1>4. \A d \in StopCallers : stopper'[d] = IF d = c THEN "joining" ELSE stopper[d]
  BY <1>1
<1>5. OnceHeld'
  BY <1>1, <1>4 DEF OnceHeld, StopCallers
<1>6. OfLoaded'
  BY <1>1, <1>2, <1>4 DEF OfLoaded, StopCallers, Runs
<1>7. ListenerOwned'
  BY <1>1 DEF ListenerOwned
<1>8. \A f \in Factories : port' # <<f, Sidecar>>
  <2> SUFFICES ASSUME NEW f \in Factories, port' = <<f, Sidecar>> PROVE FALSE
    OBVIOUS
  <2>1. <<f, Sidecar>> \in Runs /\ <<f, Sidecar>>[2] = Sidecar
    BY DEF Runs
  <2>2. port' \notin {Free, Other}
    BY <2>1, GroupAssumption
  <2>3. port = port' /\ port = server
    BY <1>1, <2>2 DEF ListenerOwned
  <2>4. Sidecar \in actors
    BY <2>1, <2>2, <2>3 DEF ListenerOwned, OfLoaded
  <2> QED
    BY <1>1, <2>2, <2>3, <2>4
<1>9. once # "done"
  BY <1>1 DEF OnceHeld
<1>10. SoloStop'
  BY <1>1, <1>2, <1>8, <1>9 DEF SoloStop, Alive
<1> QED
  BY <1>3, <1>5, <1>6, <1>7, <1>10

\* A step of one live run, which may close started or take or give up the port.
LEMMA RunKeeps ==
    ASSUME GroupInv, NEW r \in Runs, NEW at \in {"bound", "serving", "over"},
           UNCHANGED <<actors, factory, once, stopper>>,
           Alive(r), run' = [run EXCEPT ![r] = at],
           GroupTypeOK', ListenerOwned', started => started',
           \A f \in Factories : started' /\ <<f, Sidecar>> = r /\ Alone(f) => at # "bound",
           \A f \in Factories : started' /\ Alone(f) =>
               started \/ <<f, Sidecar>> = r,
           \A f \in Factories : Alone(f) /\ ActorsStopped /\ port # <<f, Sidecar>> =>
               port' # <<f, Sidecar>>
    PROVE  GroupInv'
<1> USE DEF GroupInv, GroupTypeOK
<1>1. \A g \in Factories : (Loaded(g)' <=> Loaded(g)) /\ (Alone(g)' <=> Alone(g))
  BY DEF Loaded, Alone
<1>2. \A q \in Runs : run'[q] = IF q = r THEN at ELSE run[q]
  OBVIOUS
<1>3. run[r] # "none" /\ r[1] \in Factories
  BY DEF Alive, Runs
<1>4. Loaded(r[1])
  BY <1>3 DEF OfLoaded
<1>5. OfLoaded'
  BY <1>1, <1>2, <1>3, <1>4 DEF OfLoaded, StopCallers, Runs
<1>6. OnceHeld'
  BY DEF OnceHeld
<1>7. SoloStop'
  <2> SUFFICES ASSUME NEW f \in Factories, Alone(f)
               PROVE  /\ started' => run'[<<f, Sidecar>>] \notin {"begun", "bound"}
                      /\ ActorsStopped => (Sidecar \in actors => started') /\ port' # <<f, Sidecar>>
                      /\ once = "done" => \A q \in Runs : ~Alive(q)'
    BY <1>1 DEF SoloStop, ActorsStopped
  <2>1. <<f, Sidecar>> \in Runs
    BY DEF Runs
  <2>2. started' => run'[<<f, Sidecar>>] \notin {"begun", "bound"}
    BY <1>2, <2>1 DEF SoloStop
  <2>3. ActorsStopped => (Sidecar \in actors => started') /\ port' # <<f, Sidecar>>
    BY Zenon DEF SoloStop
  <2>4. once # "done"
    BY Zenon DEF SoloStop
  <2> QED
    BY <2>2, <2>3, <2>4
<1> QED
  BY <1>5, <1>6, <1>7

\* The runs of a sidecar, as members of Runs and of none of the port's other values.
LEMMA SidecarRun ==
    ASSUME NEW f \in Factories
    PROVE  <<f, Sidecar>> \in Runs /\ <<f, Sidecar>> \notin {Free, Other}
BY GroupAssumption DEF Runs

\* Sidecar.execute, up to the listen: nobody has stopped a group that is alone
\* while its run is still there to listen.
LEMMA ListenKeeps == ASSUME GroupInv, NEW f \in Factories, Listen(f) PROVE GroupInv'
<1> DEFINE r == <<f, Sidecar>>
<1> USE DEF GroupInv, GroupTypeOK
<1>1. /\ UNCHANGED <<actors, factory, once, stopper, started>>
      /\ run[r] = "begun" /\ run' = [run EXCEPT ![r] = "bound"]
      /\ port' = r /\ server' = r
  BY DEF Listen, stopState
<1>2. r \in Runs /\ r \notin {Free, Other}
  BY SidecarRun
<1>3. GroupTypeOK' /\ ListenerOwned'
  BY <1>1, <1>2 DEF ListenerOwned
<1>4. Sidecar \in actors
  BY <1>1, <1>2 DEF OfLoaded
<1>5. \A g \in Factories : Alone(g) => g = f
  BY <1>1, <1>2 DEF Alone, OfLoaded
<1>6. Alone(f) => ~started /\ ~ActorsStopped
  BY <1>1, <1>4 DEF SoloStop
<1>7. \A g \in Factories : Alone(g) => ~started' /\ ~ActorsStopped
  BY <1>1, <1>5, <1>6
<1>8. Alive(r)
  BY <1>1 DEF Alive
<1> HIDE DEF r, GroupInv, GroupTypeOK
<1> QED
  BY <1>1, <1>2, <1>3, <1>7, <1>8, RunKeeps, Zenon

\* net.Listen fails, the run is over.
LEMMA ListenFailsKeeps == ASSUME GroupInv, NEW f \in Factories, ListenFails(f) PROVE GroupInv'
<1> DEFINE r == <<f, Sidecar>>
<1> USE DEF GroupInv, GroupTypeOK
<1>1. /\ UNCHANGED <<actors, factory, once, stopper, server, port>>
      /\ run[r] = "begun" /\ run' = [run EXCEPT ![r] = "over"] /\ started'
  BY DEF ListenFails, stopState, Ends
<1>2. r \in Runs
  BY SidecarRun
<1>3. GroupTypeOK' /\ ListenerOwned'
  BY <1>1, <1>2 DEF ListenFails, ListenerOwned
<1>4. \A g \in Factories : Alone(g) => g = f
  BY <1>1, <1>2 DEF Alone, OfLoaded
<1> QED
  BY <1>1, <1>2, <1>3, <1>4, RunKeeps, Zenon DEF Alive

\* close(started) and Serve.
LEMMA ServeKeeps == ASSUME GroupInv, NEW f \in Factories, Serve(f) PROVE GroupInv'
<1> DEFINE r == <<f, Sidecar>>
           at == IF started THEN "over" ELSE "serving"
<1> USE DEF GroupInv, GroupTypeOK
<1>1. /\ UNCHANGED <<actors, factory, once, stopper, server, port>>
      /\ run[r] = "bound" /\ run' = [run EXCEPT ![r] = at] /\ started' = TRUE
  BY DEF Serve, stopState, Ends
<1>2. r \in Runs /\ at \in {"serving", "over"}
  BY SidecarRun
<1>3. GroupTypeOK' /\ ListenerOwned'
  BY <1>1, <1>2 DEF ListenerOwned
<1>4. \A g \in Factories : Alone(g) => g = f
  BY <1>1, <1>2 DEF Alone, OfLoaded
<1> HIDE DEF at
<1> QED
  BY <1>1, <1>2, <1>3, <1>4, RunKeeps, Zenon DEF Alive

\* Serve returns, its listener closed.
LEMMA ServeReturnsKeeps == ASSUME GroupInv, NEW f \in Factories, ServeReturns(f) PROVE GroupInv'
<1> DEFINE r == <<f, Sidecar>>
<1> USE DEF GroupInv, GroupTypeOK
<1>1. /\ UNCHANGED <<actors, factory, once, stopper, started, server>>
      /\ run[r] = "serving" /\ run' = [run EXCEPT ![r] = "over"]
      /\ port' \in {Free, port}
  BY DEF ServeReturns, stopState, Ends
<1>2. r \in Runs
  BY SidecarRun
<1>3. GroupTypeOK' /\ ListenerOwned'
  BY <1>1, <1>2 DEF ListenerOwned
<1>4. \A g \in Factories : <<g, Sidecar>> # Free
  BY SidecarRun
<1>5. \A g \in Factories : port # <<g, Sidecar>> => port' # <<g, Sidecar>>
  BY <1>1, <1>4
<1> HIDE DEF r
<1> QED
  BY <1>1, <1>2, <1>3, <1>5, RunKeeps, Zenon DEF Alive

\* A goroutine of AddGoroutine returns.
LEMMA GoroutineReturnsKeeps ==
    ASSUME GroupInv, NEW r \in Runs, GoroutineReturns(r) PROVE GroupInv'
<1> USE DEF GroupInv, GroupTypeOK
<1>1. /\ UNCHANGED <<actors, factory, once, stopper, started, server, port>>
      /\ run[r] = "begun" /\ run' = [run EXCEPT ![r] = "over"]
  BY DEF GoroutineReturns, stopState, sidecarState, Ends
<1>2. GroupTypeOK' /\ ListenerOwned'
  BY <1>1 DEF ListenerOwned
<1> QED
  BY <1>1, <1>2, RunKeeps, Zenon DEF Alive

\* Every step of the group keeps the invariant.
LEMMA GroupStep == GroupInv /\ [GroupNext]_groupVars => GroupInv'
<1> SUFFICES ASSUME GroupInv, [GroupNext]_groupVars PROVE GroupInv'
  OBVIOUS
<1>1. CASE UNCHANGED groupVars
  BY <1>1 DEF groupVars, GroupInv, GroupTypeOK, OfLoaded, OnceHeld, ListenerOwned, SoloStop,
              Alone, Loaded, ActorsStopped, Alive
<1>2. CASE \E f \in Factories : Create(f) \/ OnDestroy(f) \/ OnDestroyReturns(f) \/ Watch(f)
  BY <1>2, CreateKeeps, OnDestroyKeeps, OnDestroyReturnsKeeps, WatchKeeps
<1>3. CASE \E f \in Factories : Listen(f) \/ ListenFails(f) \/ Serve(f) \/ ServeReturns(f)
  BY <1>3, ListenKeeps, ListenFailsKeeps, ServeKeeps, ServeReturnsKeeps
<1>4. CASE \E c \in StopCallers : EnterStop(c) \/ StopActors(c) \/ GroupStopReturns(c)
  BY <1>4, EnterStopKeeps, StopActorsKeeps, StopReturnsKeeps
<1>5. CASE \E r \in Runs : GoroutineReturns(r)
  BY <1>5, GoroutineReturnsKeeps
<1> QED
  BY <1>1, <1>2, <1>3, <1>4, <1>5 DEF GroupNext, GroupOver

\* With any number of configs loaded and goroutines in the group: after OnDestroy
\* of a factory that alone started the group, Stop has joined every goroutine and
\* closed the sidecar's listener (Group.Stop, Sidecar.stop), whoever called Stop
\* first and wherever the runs were.
THEOREM GroupIsJoined == GroupSpec => []DestroyJoinsActors
<1>1. GroupInv => DestroyJoinsActors
  <2> SUFFICES ASSUME GroupInv, NEW f \in Factories, factory[f] = "gone",
                      \A g \in Factories \ {f} : factory[g] \in {"none", "refused"}
               PROVE  (\A r \in Runs : ~Alive(r)) /\ port \in {Free, Other}
    BY DEF DestroyJoinsActors
  <2>1. Alone(f)
    BY DEF Alone, Loaded
  <2>2. <<f, "OnDestroy">> \in StopCallers
    BY DEF StopCallers
  <2>3. once = "done" /\ ActorsStopped
    BY <2>2 DEF GroupInv, OnceHeld, ActorsStopped
  <2>4. (\A r \in Runs : ~Alive(r)) /\ port # <<f, Sidecar>>
    BY <2>1, <2>3, Zenon DEF GroupInv, SoloStop
  <2>5. ASSUME NEW g \in Factories, port = <<g, Sidecar>> PROVE g = f
    <3>1. run[port] # "none" /\ port \in Runs /\ port[1] = g
      BY <2>5, SidecarRun DEF GroupInv, ListenerOwned
    <3> QED
      BY <3>1, <2>1 DEF GroupInv, OfLoaded, Alone
  <2> QED
    BY <2>4, <2>5 DEF GroupInv, GroupTypeOK
<1> QED
  BY <1>1, GroupStarts, GroupStep, PTL DEF GroupSpec
=============================================================================

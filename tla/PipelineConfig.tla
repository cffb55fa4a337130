--------------------------- MODULE PipelineConfig ---------------------------
(***************************************************************************)
(* up/pipeline_config.go, _file.go and _poll.go: a decoded snapshot of a   *)
(* config file.  A writer changes the file in place (truncate, then write) *)
(* or replaces it; the poller goroutine fetches it on a timer and when the *)
(* file watcher signals, RefreshOnce fetches it on the caller's goroutine. *)
(*                                                                         *)
(* The file's content is a number that grows with every change; 0 is the   *)
(* empty file of a write in progress.  Some contents do not decode.  A     *)
(* modification time is the number of the change, if the clock of the file *)
(* system tells changes apart.  All complete contents have one size.       *)
(***************************************************************************)
EXTENDS Naturals

CONSTANTS
    Callers,       \* goroutines that call RefreshOnce
    MaxChanges,    \* bound: changes of the file
    Invalid,       \* the contents the decoder refuses
    FineClock,     \* every change gets a modification time of its own
    Concurrent     \* RefreshOnce is also called while another fetch runs

ASSUME PipelineAssumption ==
    /\ MaxChanges \in Nat
    /\ FineClock \in BOOLEAN /\ Concurrent \in BOOLEAN
    /\ "poller" \notin Callers

Fetchers == Callers \cup {"poller"}
Contents == 0 .. MaxChanges
Decodes(d) == d # 0 /\ d \notin Invalid

VARIABLES
    exists,      \* the file is there
    content,     \* its content, 0 between truncate and write
    mtime,       \* its modification time
    changes,     \* how many complete contents were written
    cache,       \* cachedFileSource: modification time and content, 0 is empty
    holder,      \* the fetcher that holds the source's mutex, or none
    fetch,       \* per fetcher: where its fetchAndStore is
    seen,        \* per fetcher: the modification time Stat returned
    data,        \* per fetcher: the content the source returned
    current, lastVersion,
    refreshNow,  \* the one-slot channel
    noticed,     \* the watcher has an event for the file
    poller,      \* the polling goroutine: off, select, fetching or over
    stop         \* the stop function: no, waiting or returned

pipelineVars == <<exists, content, mtime, changes, cache, holder, fetch, seen, data,
                  current, lastVersion, refreshNow, noticed, poller, stop>>
file == <<exists, content, mtime, changes>>
source == <<cache, holder, seen, data>>
snapshot == <<current, lastVersion>>

Idle(f) == fetch[f] = "no"
FetchesAlone(f) == \A g \in Fetchers \ {f} : Idle(g)

PipelineInit ==
    /\ exists = FALSE /\ content = 0 /\ mtime = 0 /\ changes = 0
    /\ cache = [mtime |-> 0, data |-> 0] /\ holder = "none"
    /\ fetch = [f \in Fetchers |-> "no"]
    /\ seen = [f \in Fetchers |-> 0] /\ data = [f \in Fetchers |-> 0]
    /\ current = 0 /\ lastVersion = 0
    /\ refreshNow = FALSE /\ noticed = FALSE
    /\ poller = "off" /\ stop = "no"

-----------------------------------------------------------------------------
(* The writer of the file.                                                  *)

\* The time a change is stamped with.
Stamp == IF FineClock THEN {mtime + 1} ELSE {mtime, mtime + 1}

Truncate ==
    /\ exists /\ content # 0 /\ changes < MaxChanges
    /\ content' = 0 /\ mtime' \in Stamp
    /\ noticed' = TRUE
    /\ UNCHANGED <<exists, changes, source, fetch, snapshot, refreshNow, poller, stop>>

\* The write, of a new file or after Truncate: an event the watcher wants.
WriteFile ==
    /\ content = 0 /\ changes < MaxChanges
    /\ exists' = TRUE /\ changes' = changes + 1
    /\ content' = changes' /\ mtime' \in Stamp
    /\ noticed' = TRUE
    /\ UNCHANGED <<source, fetch, snapshot, refreshNow, poller, stop>>

\* A new file is renamed over the old one: no Write and no Chmod event.
ReplaceFile ==
    /\ exists /\ content # 0 /\ changes < MaxChanges
    /\ changes' = changes + 1
    /\ content' = changes' /\ mtime' \in Stamp
    /\ UNCHANGED <<exists, source, fetch, snapshot, refreshNow, noticed, poller, stop>>

RemoveFile ==
    /\ exists
    /\ exists' = FALSE /\ content' = 0
    /\ UNCHANGED <<mtime, changes, source, fetch, snapshot, refreshNow, noticed, poller, stop>>

-----------------------------------------------------------------------------
(* cachedFileSource, with its mutex held from Stat to the return.           *)

GoTo(f, at) == fetch' = [fetch EXCEPT ![f] = at]

\* The source returns: its data, or an error, which ends the fetch.
Returns(f, d) == /\ data' = [data EXCEPT ![f] = d]
                 /\ GoTo(f, "compare")
Fails(f) == /\ GoTo(f, "no")
            /\ UNCHANGED data

\* A cache that compares the sizes only.
StatBySize(f) ==
    /\ fetch[f] = "stat" /\ holder = "none"
    /\ IF ~exists
       THEN /\ IF cache.data # 0 THEN Returns(f, cache.data) ELSE Fails(f)
            /\ UNCHANGED <<seen, holder>>
       ELSE IF content # 0 /\ cache.data # 0
       THEN Returns(f, cache.data) /\ UNCHANGED <<seen, holder>>
       ELSE /\ seen' = [seen EXCEPT ![f] = mtime]
            /\ holder' = f
            /\ GoTo(f, "read")
            /\ UNCHANGED data
    /\ UNCHANGED <<file, cache, snapshot, refreshNow, noticed, poller, stop>>

\* os.Stat: without a file the cached data, if there is any; a cache hit when
\* modification time and size are those of the cached data.
Stat(f) ==
    /\ fetch[f] = "stat" /\ holder = "none"
    /\ IF ~exists
       THEN /\ IF cache.data # 0 THEN Returns(f, cache.data) ELSE Fails(f)
            /\ UNCHANGED <<seen, holder>>
       ELSE IF mtime = cache.mtime /\ content # 0 /\ cache.data # 0
       THEN Returns(f, cache.data) /\ UNCHANGED <<seen, holder>>
       ELSE /\ seen' = [seen EXCEPT ![f] = mtime]
            /\ holder' = f
            /\ GoTo(f, "read")
            /\ UNCHANGED data
    /\ UNCHANGED <<file, cache, snapshot, refreshNow, noticed, poller, stop>>

\* os.ReadFile: what the file holds now, cached under the time Stat returned.
ReadFile(f) ==
    /\ fetch[f] = "read"
    /\ IF exists
       THEN /\ Returns(f, content)
            /\ cache' = [mtime |-> seen[f], data |-> content]
       ELSE Fails(f) /\ UNCHANGED cache
    /\ holder' = "none"
    /\ UNCHANGED <<file, seen, snapshot, refreshNow, noticed, poller, stop>>

-----------------------------------------------------------------------------
(* The rest of fetchAndStore.                                               *)

\* The decoder's error is not looked at.
CompareOnly(f) ==
    /\ fetch[f] = "compare"
    /\ GoTo(f, IF data[f] = lastVersion THEN "no" ELSE "publish")
    /\ UNCHANGED <<file, source, snapshot, refreshNow, noticed, poller, stop>>

\* The checksum is the last one, or the decoder refuses: the snapshot stays.
Compare(f) ==
    /\ fetch[f] = "compare"
    /\ GoTo(f, IF data[f] = lastVersion \/ ~Decodes(data[f]) THEN "no" ELSE "publish")
    /\ UNCHANGED <<file, source, snapshot, refreshNow, noticed, poller, stop>>

\* current.Store
Publish(f) ==
    /\ fetch[f] = "publish"
    /\ current' = data[f]
    /\ GoTo(f, "record")
    /\ UNCHANGED <<file, source, lastVersion, refreshNow, noticed, poller, stop>>

\* lastVersion.Store
Record(f) ==
    /\ fetch[f] = "record"
    /\ lastVersion' = data[f]
    /\ GoTo(f, "no")
    /\ UNCHANGED <<file, source, current, refreshNow, noticed, poller, stop>>

FetchSteps(f) == Stat(f) \/ ReadFile(f) \/ Compare(f) \/ Publish(f) \/ Record(f)

-----------------------------------------------------------------------------
(* The goroutines.                                                          *)

\* RefreshOnce, to warm the cache before Start, or at any time.
RefreshOnce(c) ==
    /\ Idle(c)
    /\ Concurrent \/ (poller = "off" /\ FetchesAlone(c))
    /\ GoTo(c, "stat")
    /\ UNCHANGED <<file, source, snapshot, refreshNow, noticed, poller, stop>>

\* Start: the first fetch fires immediately.
Start ==
    /\ poller = "off" /\ (Concurrent \/ FetchesAlone("poller"))
    /\ poller' = "fetching"
    /\ GoTo("poller", "stat")
    /\ UNCHANGED <<file, source, snapshot, refreshNow, noticed, stop>>

PollFetchReturns ==
    /\ poller = "fetching" /\ Idle("poller")
    /\ poller' = "select"
    /\ UNCHANGED <<file, source, fetch, snapshot, refreshNow, noticed, stop>>

\* The select: the timer or a signal, or the cancelled context.
Poll ==
    /\ poller = "select"
    /\ refreshNow' \in {FALSE, refreshNow}
    /\ poller' = "fetching"
    /\ GoTo("poller", "stat")
    /\ UNCHANGED <<file, source, snapshot, noticed, stop>>

PollerEnds ==
    /\ poller = "select" /\ stop # "no"
    /\ poller' = "over"
    /\ UNCHANGED <<file, source, fetch, snapshot, refreshNow, noticed, stop>>

\* StartFileWatch: an event for the file; SignalRefresh never blocks.
SignalRefresh ==
    /\ noticed
    /\ noticed' = FALSE /\ refreshNow' = TRUE
    /\ UNCHANGED <<file, source, fetch, snapshot, poller, stop>>

\* The stop function cancels and waits for the goroutine.
StopPolling ==
    /\ poller # "off" /\ stop = "no"
    /\ stop' = "waiting"
    /\ UNCHANGED <<file, source, fetch, snapshot, refreshNow, noticed, poller>>

\* It returns without waiting.
StopReturnsEarly ==
    /\ stop = "waiting"
    /\ stop' = "returned"
    /\ UNCHANGED <<file, source, fetch, snapshot, refreshNow, noticed, poller>>

StopReturns ==
    /\ stop = "waiting" /\ poller = "over"
    /\ stop' = "returned"
    /\ UNCHANGED <<file, source, fetch, snapshot, refreshNow, noticed, poller>>

-----------------------------------------------------------------------------
Polling == PollFetchReturns \/ Poll \/ PollerEnds \/ SignalRefresh \/ StopReturns

\* Polling is stopped and no caller fetches.
Stopped ==
    /\ stop = "returned" /\ \A f \in Fetchers : Idle(f)
    /\ UNCHANGED pipelineVars

PipelineNext ==
    \/ Truncate \/ WriteFile \/ ReplaceFile \/ RemoveFile
    \/ \E f \in Fetchers : FetchSteps(f)
    \/ \E c \in Callers : RefreshOnce(c)
    \/ Start \/ StopPolling
    \/ Polling
    \/ Stopped

\* Every goroutine goes on, the timer fires, and the select does not ignore a
\* cancelled context for ever.
PipelineFairness ==
    /\ \A f \in Fetchers : WF_pipelineVars(FetchSteps(f))
    /\ WF_pipelineVars(PollFetchReturns \/ Poll)
    /\ WF_pipelineVars(SignalRefresh)
    /\ SF_pipelineVars(PollerEnds)
    /\ WF_pipelineVars(StopReturns)

PipelineSpec == PipelineInit /\ [][PipelineNext]_pipelineVars /\ PipelineFairness

-----------------------------------------------------------------------------
(* Properties.                                                              *)

\* The snapshot changes only to a complete content that decodes, and never back
\* to an older one, whatever the writer does between Stat and ReadFile.
LastGoodKept ==
    [][current' # current => Decodes(current') /\ current' > current]_pipelineVars

\* Once the stop function has returned, no fetch changes the snapshot.
StoppedIsFinal == [][stop = "returned" => current' = current]_pipelineVars

\* A file that stays as it is and decodes becomes the snapshot.
ConfigCatchesUp ==
    \A d \in Contents :
        <>[](exists /\ content = d /\ Decodes(d) /\ poller \in {"select", "fetching"} /\ stop = "no")
            => <>[](current = d)

=============================================================================

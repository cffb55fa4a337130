-------------------------- MODULE HostRefreshLoop --------------------------
(***************************************************************************)
(* up/host_refresh_loop.go: the loop that keeps a HostSet up to date.  A    *)
(* ticker goroutine fetches snapshots and schedules their application on    *)
(* the cluster's main thread, other goroutines do the same through          *)
(* RefreshOnce, and Stop is called by one more goroutine or, as from        *)
(* Cluster.Shutdown, on the main thread itself.  They share mu, pending and *)
(* closed.                                                                  *)
(*                                                                         *)
(* A snapshot is the version of the user's source it was read from; a       *)
(* version grows with every change, so "newer" is ">".  HostSet.Apply (see  *)
(* HostSet) is one assignment to applied, made while mu is held.            *)
(* ClusterHandle.Schedule appends to the main thread's queue: the step that *)
(* counts is scheduler_commit, after the handle's own lock is released.     *)
(***************************************************************************)
EXTENDS Naturals, Sequences, FiniteSets

CONSTANTS
    Callers,      \* goroutines that call RefreshOnce
    MaxVersion,   \* bound: changes of the user's source
    MaxReports,   \* bound: failed fetches of the ticker still to be reported
    MayStop,      \* Stop is called
    None

ASSUME RefreshAssumption ==
    /\ MaxVersion \in Nat
    /\ MaxReports \in Nat
    /\ MayStop \in BOOLEAN
    /\ None \notin Callers

VARIABLES
    source,     \* the version of the user's data
    applied,    \* the version the HostSet holds, 0 before the first Apply
    queue,      \* closures committed to the main thread
    main,       \* the closure the main thread is running, or Idle
    locked,     \* the main thread holds mu (every other holder is one step)
    pending, closed, cancelled,
    tpc, tsnap, \* the ticker goroutine and the snapshot it fetched
    rpc, rsnap, \* RefreshOnce: per caller
    done,       \* callers whose done channel is closed
    spc,        \* Stop
    onMain      \* Stop runs on the main thread

vars == <<source, applied, queue, main, locked, pending, closed, cancelled,
          tpc, tsnap, rpc, rsnap, done, spc, onMain>>
loop == <<pending, closed, cancelled>>
ticker == <<tpc, tsnap>>
callers == <<rpc, rsnap, done>>
stop == <<spc, onMain>>

Versions == 0 .. MaxVersion + 1

\* The closures given to Schedule: an apply of the ticker, an apply of a
\* RefreshOnce, and the report of a failed fetch of either.
Closures == [kind : {"apply"}, snap : Versions, by : Callers \cup {None}]
                \cup [kind : {"report"}, snap : {0}, by : Callers \cup {None}]
Idle == [kind |-> "idle", snap |-> 0, by |-> None]
ApplyOf(v, c) == [kind |-> "apply", snap |-> v, by |-> c]
TickerApplies == {ApplyOf(v, None) : v \in Versions}
ReportTo(c) == [kind |-> "report", snap |-> 0, by |-> c]

\* Every variable has its type.
TypeOK ==
    /\ source \in Versions /\ applied \in Versions
    /\ queue \in Seq(Closures) /\ main \in Closures \cup {Idle}
    /\ locked \in BOOLEAN
    /\ pending \in BOOLEAN /\ closed \in BOOLEAN /\ cancelled \in BOOLEAN
    /\ tpc \in {"select", "fetch", "lock", "schedule", "exited"}
    /\ tsnap \in Versions
    /\ rpc \in [Callers -> {"start", "fetch", "schedule", "wait", "failing",
                            "ok", "failed", "cancelled"}]
    /\ rsnap \in [Callers -> Versions]
    /\ done \subseteq Callers
    /\ spc \in {"no", "close", "cancel", "wait", "fence", "stopped"}
    /\ onMain \in BOOLEAN

\* NewHostRefreshLoop and Start.
Init ==
    /\ source = 1 /\ applied = 0
    /\ queue = <<>> /\ main = Idle /\ locked = FALSE
    /\ pending = FALSE /\ closed = FALSE /\ cancelled = FALSE
    /\ tpc = "select" /\ tsnap = 0
    /\ rpc = [c \in Callers |-> "start"] /\ rsnap = [c \in Callers |-> 0]
    /\ done = {}
    /\ spc = "no" /\ onMain = FALSE

SourceChanges ==
    /\ source <= MaxVersion
    /\ source' = source + 1
    /\ UNCHANGED <<applied, queue, main, locked, loop, ticker, callers, stop>>

\* ClusterHandle.Schedule.
Schedule(f) == queue' = Append(queue, f)

-----------------------------------------------------------------------------
(* The ticker goroutine.                                                    *)

\* Start's select: a tick, also when the context is already done.
Tick ==
    /\ tpc = "select"
    /\ tpc' = "fetch"
    /\ UNCHANGED <<source, applied, queue, main, locked, loop, tsnap, callers, stop>>

TickerExits ==
    /\ tpc = "select"
    /\ cancelled
    /\ tpc' = "exited"
    /\ UNCHANGED <<source, applied, queue, main, locked, loop, tsnap, callers, stop>>

\* fetchAndSchedule: the snapshot function returns what it read.
TickerFetches ==
    /\ tpc = "fetch"
    /\ tsnap' = source
    /\ tpc' = "lock"
    /\ UNCHANGED <<source, applied, queue, main, locked, loop, callers, stop>>

\* It fails, and the observer is told on the main thread.  Nothing in the code
\* bounds these reports.
TickerFetchFails ==
    /\ tpc = "fetch"
    /\ Cardinality({i \in DOMAIN queue : queue[i] = ReportTo(None)}) < MaxReports
    /\ Schedule(ReportTo(None))
    /\ tpc' = "select"
    /\ UNCHANGED <<source, applied, main, locked, loop, tsnap, callers, stop>>

\* fetchAndSchedule, the section under mu.
TickerCoalesces ==
    /\ tpc = "lock"
    /\ ~locked
    /\ tpc' = IF pending \/ closed THEN "select" ELSE "schedule"
    /\ pending' = (pending \/ ~closed)
    /\ UNCHANGED <<source, applied, queue, main, locked, closed, cancelled, tsnap,
                   callers, stop>>

TickerSchedules ==
    /\ tpc = "schedule"
    /\ Schedule(ApplyOf(tsnap, None))
    /\ tpc' = "select"
    /\ UNCHANGED <<source, applied, main, locked, loop, tsnap, callers, stop>>

-----------------------------------------------------------------------------
(* RefreshOnce.                                                             *)

RefreshOnce(c) ==
    /\ rpc[c] = "start"
    /\ rpc' = [rpc EXCEPT ![c] = "fetch"]
    /\ UNCHANGED <<source, applied, queue, main, locked, loop, ticker, rsnap, done, stop>>

CallerFetches(c) ==
    /\ rpc[c] = "fetch"
    /\ rsnap' = [rsnap EXCEPT ![c] = source]
    /\ rpc' = [rpc EXCEPT ![c] = "schedule"]
    /\ UNCHANGED <<source, applied, queue, main, locked, loop, ticker, done, stop>>

CallerFetchFails(c) ==
    /\ rpc[c] = "fetch"
    /\ Schedule(ReportTo(c))
    /\ rpc' = [rpc EXCEPT ![c] = "failing"]
    /\ UNCHANGED <<source, applied, main, locked, loop, ticker, rsnap, done, stop>>

CallerSchedules(c) ==
    /\ rpc[c] = "schedule"
    /\ Schedule(ApplyOf(rsnap[c], c))
    /\ rpc' = [rpc EXCEPT ![c] = "wait"]
    /\ UNCHANGED <<source, applied, main, locked, loop, ticker, rsnap, done, stop>>

\* The select on done.
CallerReturns(c) ==
    /\ rpc[c] \in {"wait", "failing"}
    /\ c \in done
    /\ rpc' = [rpc EXCEPT ![c] = IF rpc[c] = "wait" THEN "ok" ELSE "failed"]
    /\ UNCHANGED <<source, applied, queue, main, locked, loop, ticker, rsnap, done, stop>>

\* The select on ctx.Done: the closure stays scheduled.
CallerGivesUp(c) ==
    /\ rpc[c] \in {"wait", "failing"}
    /\ rpc' = [rpc EXCEPT ![c] = IF rpc[c] = "wait" THEN "cancelled" ELSE "failed"]
    /\ UNCHANGED <<source, applied, queue, main, locked, loop, ticker, rsnap, done, stop>>

-----------------------------------------------------------------------------
(* The main thread.                                                         *)

MainIsFree == main = Idle /\ (onMain => spc \in {"no", "stopped"})

\* close(done), when a RefreshOnce waits for the closure.
Told(f) == done \cup ({f.by} \ {None})

\* The closure resets pending at no time.
TakesKeepingPending ==
    /\ MainIsFree
    /\ queue # <<>>
    /\ queue' = Tail(queue)
    /\ main' = Head(queue) /\ locked' = (Head(queue).kind = "apply")
    /\ UNCHANGED <<source, applied, loop, ticker, rpc, rsnap, done, stop>>

\* envoy_dynamic_module_on_cluster_scheduled runs the next closure.  An apply
\* takes mu, the ticker's resets pending, and a closed loop ends it there.
MainTakes ==
    /\ MainIsFree
    /\ queue # <<>>
    /\ queue' = Tail(queue)
    /\ pending' = (pending /\ Head(queue) \notin TickerApplies)
    /\ \/ /\ Head(queue).kind = "apply" /\ closed
          /\ done' = Told(Head(queue))
          /\ UNCHANGED <<main, locked>>
       \/ /\ ~(Head(queue).kind = "apply" /\ closed)
          /\ main' = Head(queue)
          /\ locked' = (Head(queue).kind = "apply")
          /\ UNCHANGED done
    /\ UNCHANGED <<source, applied, closed, cancelled, ticker, rpc, rsnap, stop>>

\* The rest of the closure: Apply and the observer under mu; then mu is
\* released and a RefreshOnce is told.
MainApplies ==
    /\ main.kind = "apply"
    /\ applied' = main.snap
    /\ done' = Told(main)
    /\ main' = Idle /\ locked' = FALSE
    /\ UNCHANGED <<source, queue, loop, ticker, rpc, rsnap, stop>>

\* The closure of a failed fetch: closed is read under mu, the observer is
\* called without it.
MainReports ==
    /\ main.kind = "report"
    /\ done' = Told(main)
    /\ main' = Idle
    /\ UNCHANGED <<source, applied, queue, locked, loop, ticker, rpc, rsnap, stop>>

-----------------------------------------------------------------------------
(* Stop.                                                                    *)

CallStop ==
    /\ MayStop
    /\ spc = "no"
    /\ spc' = "close"
    /\ \/ onMain' = FALSE
       \/ onMain' = TRUE /\ main = Idle
    /\ UNCHANGED <<source, applied, queue, main, locked, loop, ticker, callers>>

\* closed is written without mu.
ClosesUnlocked ==
    /\ spc = "close"
    /\ closed' = TRUE
    /\ spc' = "cancel"
    /\ UNCHANGED <<source, applied, queue, main, locked, pending, cancelled, ticker,
                   callers, onMain>>

StopCloses ==
    /\ spc = "close"
    /\ ~locked
    /\ closed' = TRUE
    /\ spc' = "cancel"
    /\ UNCHANGED <<source, applied, queue, main, locked, pending, cancelled, ticker,
                   callers, onMain>>

\* The context is not cancelled.
StopForgetsCancel ==
    /\ spc = "cancel"
    /\ spc' = "wait"
    /\ UNCHANGED <<source, applied, queue, main, locked, loop, ticker, callers, onMain>>

\* Group.Stop: cancel the context ...
StopCancels ==
    /\ spc = "cancel"
    /\ cancelled' = TRUE
    /\ spc' = "wait"
    /\ UNCHANGED <<source, applied, queue, main, locked, pending, closed, ticker,
                   callers, onMain>>

\* ... and wait for the goroutine.
StopWaits ==
    /\ spc = "wait"
    /\ tpc = "exited"
    /\ spc' = "fence"
    /\ UNCHANGED <<source, applied, queue, main, locked, loop, ticker, callers, onMain>>

\* Stop's second acquisition of mu.
StopReturns ==
    /\ spc = "fence"
    /\ ~locked
    /\ spc' = "stopped"
    /\ UNCHANGED <<source, applied, queue, main, locked, loop, ticker, callers, onMain>>

-----------------------------------------------------------------------------
Ticker == Tick \/ TickerExits \/ TickerFetches \/ TickerFetchFails
            \/ TickerCoalesces \/ TickerSchedules
Caller(c) == RefreshOnce(c) \/ CallerFetches(c) \/ CallerFetchFails(c)
            \/ CallerSchedules(c) \/ CallerReturns(c) \/ CallerGivesUp(c)
Main == MainTakes \/ MainApplies \/ MainReports
Stop == StopCloses \/ StopCancels \/ StopWaits \/ StopReturns

Next == SourceChanges \/ Ticker \/ (\E c \in Callers : Caller(c)) \/ Main
            \/ CallStop \/ Stop

Safety == Init /\ [][Next]_vars

\* Every goroutine and the main thread keep running; ticks keep coming; a
\* select with two ready cases takes each of them now and then; a snapshot
\* function that is called for ever succeeds now and then.
Spec ==
    /\ Safety
    /\ WF_vars(Ticker) /\ SF_vars(TickerExits) /\ SF_vars(TickerFetches)
    /\ SF_vars(TickerCoalesces) /\ SF_vars(TickerSchedules)
    /\ WF_vars(Main)
    /\ WF_vars(Stop) /\ SF_vars(StopCloses)

-----------------------------------------------------------------------------
(* Properties.                                                              *)

\* The ticker's applies, queued or about to be.
TickApplies == {i \in 1 .. Len(queue) : queue[i] \in TickerApplies}

\* Coalescing: pending says exactly that the ticker has an apply on its way,
\* and there is never a second one, however slow the main thread is.
OneApplyPending ==
    /\ \A i, j \in TickApplies : i = j
    /\ ~(tpc = "schedule" /\ TickApplies # {})
    /\ pending <=> (tpc = "schedule" \/ TickApplies # {})

\* "After Stop returns no further Apply will run": once closed is set no Apply
\* is under way and none starts, although closures are still queued and the
\* main thread tests closed before it applies, not while.
NoApplyAfterStop == [][closed => applied' = applied]_vars

\* The HostSet catches up with the source once it no longer changes, unless
\* the loop is stopped.
CatchesUp == <>[](applied = source \/ spc # "no")

\* Stop returns, called on the main thread or off it, whatever fetch or apply
\* is in progress.
StopTerminates == spc = "close" ~> spc = "stopped"

\* What the documentation of RefreshOnce says: when it has returned without an
\* error the host set is at least as new as what it fetched.  It does not hold: an
\* older snapshot of the ticker may be applied in between.
RefreshOnceUpToDate ==
    [][\A c \in Callers : rpc[c] = "wait" /\ rpc'[c] = "ok" => applied >= rsnap[c]]_vars

\* What the documentation of Stop says: it waits for the applies that were
\* scheduled already.  It does not hold for one that has not started.
StopWaitsForScheduled ==
    spc = "stopped" => \A i \in 1 .. Len(queue) : queue[i].kind # "apply"

\* What the documentation of the coalescing says, "latest pending wins": what
\* the ticker's closure applies is not older than a snapshot that a later tick
\* fetched and did not schedule because the closure was pending.  It does
\* not hold: the closure applies the snapshot it captured.
LatestPendingWins ==
    [][MainApplies /\ main.by = None /\ tpc = "select" => applied' >= tsnap]_vars
=============================================================================

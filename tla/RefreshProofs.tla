--------------------------- MODULE RefreshProofs ----------------------------
(***************************************************************************)
(* The helpers with goroutines of their own.                               *)
(*                                                                         *)
(* The host refresh loop, for every set of RefreshOnce callers and every   *)
(* bound.  The invariant adds to the coalescing what makes Stop final: mu  *)
(* is held exactly while a closure applies, and such a closure has found   *)
(* the loop open.                                                          *)
(*                                                                         *)
(* The promise, for every number of resolvers and subscribers: it calls    *)
(* each callback at most once and with the value it kept, a Resolve that   *)
(* returned true left nothing over, and the code's critical sections       *)
(* implement ResolveOnce.                                                  *)
(***************************************************************************)
EXTENDS HostRefreshLoop, StreamPromise, TLAPS

\* What mu protects: the main thread holds it from the closed test to the end
\* of Apply, so that Stop cannot set closed in between.
MutexHeld ==
    /\ locked <=> main.kind = "apply"
    /\ main.kind = "apply" => ~closed

Inv == TypeOK /\ OneApplyPending /\ MutexHeld

\* The closures a RefreshOnce or a failed fetch schedules are not the ticker's.
LEMMA OtherClosures ==
    ASSUME NEW c \in Callers, NEW v
    PROVE  /\ ApplyOf(v, c) \notin TickerApplies
           /\ ReportTo(c) \notin TickerApplies
           /\ ReportTo(None) \notin TickerApplies
BY RefreshAssumption, Zenon DEF TickerApplies, ApplyOf, ReportTo

\* Closures of both kinds are what the queue is declared to hold.
LEMMA ClosureTypes ==
    ASSUME NEW c \in Callers \cup {None}, NEW v \in Versions
    PROVE  /\ ApplyOf(v, c) \in Closures
           /\ ReportTo(c) \in Closures
           /\ ApplyOf(v, None) \in TickerApplies
BY DEF Closures, ApplyOf, ReportTo, TickerApplies

\* The loop starts with nothing scheduled and mu free.
LEMMA InitInv == Init => Inv
<1> SUFFICES ASSUME Init PROVE Inv
  OBVIOUS
<1>1. TypeOK
  <2>1. 0 \in Versions /\ 1 \in Versions
    BY RefreshAssumption DEF Versions
  <2>2. queue \in Seq(Closures)
    BY DEF Init
  <2> QED
    BY <2>1, <2>2, Zenon DEF Init, TypeOK
<1>2. OneApplyPending
  BY DEF Init, OneApplyPending, TickApplies
<1>3. MutexHeld
  BY DEF Init, MutexHeld, Idle
<1> QED
  BY <1>1, <1>2, <1>3 DEF Inv

\* Scheduling a closure that is not the ticker's leaves the coalescing alone.
LEMMA ScheduleOther ==
    ASSUME Inv, NEW f \in Closures, f \notin TickerApplies, Schedule(f),
           tpc' = tpc \/ (tpc = "fetch" /\ tpc' = "select"), pending' = pending
    PROVE  OneApplyPending' /\ queue' \in Seq(Closures)
<1>1. queue \in Seq(Closures) /\ queue' = Append(queue, f)
  BY DEF Inv, TypeOK, Schedule
<1>2. queue' \in Seq(Closures) /\ Len(queue') = Len(queue) + 1 /\ Len(queue) \in Nat
  BY <1>1
<1>3. \A i \in 1 .. Len(queue) : queue'[i] = queue[i]
  BY <1>1
<1>4. queue'[Len(queue) + 1] = f
  BY <1>1
<1>5. TickApplies' = TickApplies
  BY <1>2, <1>3, <1>4 DEF TickApplies
<1>6. tpc' = "schedule" <=> tpc = "schedule"
  OBVIOUS
<1> QED
  BY <1>2, <1>5, <1>6 DEF Inv, OneApplyPending

\* A step that leaves the queue, the ticker and pending alone.
LEMMA Undisturbed ==
    ASSUME Inv, queue' = queue, pending' = pending,
           (tpc' = "schedule") <=> (tpc = "schedule")
    PROVE  OneApplyPending'
BY DEF Inv, OneApplyPending, TickApplies

\* Every step of the ticker goroutine keeps the invariant.
LEMMA TickerKeeps == Inv /\ Ticker => Inv'
<1> SUFFICES ASSUME Inv, Ticker PROVE Inv'
  OBVIOUS
<1> USE DEF Inv
<1>1. CASE Tick \/ TickerExits \/ TickerFetches
  <2>1. TypeOK'
    BY <1>1 DEF Tick, TickerExits, TickerFetches, TypeOK, loop, callers, stop
  <2>2. OneApplyPending'
    <3>1. queue' = queue /\ pending' = pending
      BY <1>1 DEF Tick, TickerExits, TickerFetches, loop
    <3>2. tpc # "schedule" /\ tpc' # "schedule"
      BY <1>1 DEF Tick, TickerExits, TickerFetches
    <3> QED
      BY <3>1, <3>2, Undisturbed
  <2>3. MutexHeld'
    BY <1>1 DEF Tick, TickerExits, TickerFetches, MutexHeld, loop
  <2> QED
    BY <2>1, <2>2, <2>3
<1>2. CASE TickerFetchFails
  <2>0. ReportTo(None) \in Closures /\ ReportTo(None) \notin TickerApplies
    BY Zenon DEF Closures, ReportTo, TickerApplies, ApplyOf
  <2>1. /\ Schedule(ReportTo(None)) /\ tpc = "fetch" /\ tpc' = "select"
        /\ pending' = pending
    BY <1>2 DEF TickerFetchFails, loop
  <2>2. OneApplyPending' /\ queue' \in Seq(Closures)
    BY <2>0, <2>1, ScheduleOther
  <2>3. TypeOK'
    BY <1>2, <2>2 DEF TickerFetchFails, TypeOK, loop, callers, stop
  <2>4. MutexHeld'
    BY <1>2 DEF TickerFetchFails, MutexHeld, loop
  <2> QED
    BY <2>2, <2>3, <2>4
<1>3. CASE TickerCoalesces
  <2>1. TypeOK'
    <3>1. pending' \in BOOLEAN
      BY <1>3 DEF TickerCoalesces
    <3> QED
      BY <1>3, <3>1 DEF TickerCoalesces, TypeOK, callers, stop
  <2>2. OneApplyPending'
    <3>1. TickApplies' = TickApplies
      BY <1>3 DEF TickerCoalesces, TickApplies
    <3>2. CASE pending \/ closed
      <4>1. tpc = "lock" /\ tpc' = "select" /\ (pending' <=> pending \/ ~closed)
        BY <1>3, <3>2 DEF TickerCoalesces
      <4>2. pending' <=> pending
        BY <4>1, <3>2
      <4> QED
        BY <3>1, <4>1, <4>2 DEF OneApplyPending
    <3>3. CASE ~(pending \/ closed)
      <4>1. tpc' = "schedule" /\ pending'
        BY <1>3, <3>3 DEF TickerCoalesces
      <4>2. TickApplies = {}
        BY <3>3 DEF OneApplyPending
      <4> QED
        BY <3>1, <4>1, <4>2 DEF OneApplyPending
    <3> QED
      BY <3>2, <3>3
  <2>3. MutexHeld'
    BY <1>3 DEF TickerCoalesces, MutexHeld
  <2> QED
    BY <2>1, <2>2, <2>3
<1>4. CASE TickerSchedules
  <2>0. tsnap \in Versions /\ queue \in Seq(Closures)
    BY DEF TypeOK
  <2>1. ApplyOf(tsnap, None) \in Closures /\ ApplyOf(tsnap, None) \in TickerApplies
    BY <2>0, ClosureTypes
  <2>2. /\ queue' = Append(queue, ApplyOf(tsnap, None))
        /\ tpc = "schedule" /\ tpc' = "select" /\ pending' = pending
    BY <1>4 DEF TickerSchedules, Schedule, loop
  <2>3. /\ queue' \in Seq(Closures) /\ Len(queue') = Len(queue) + 1 /\ Len(queue) \in Nat
        /\ \A i \in 1 .. Len(queue) : queue'[i] = queue[i]
        /\ queue'[Len(queue) + 1] = ApplyOf(tsnap, None)
    BY <2>0, <2>1, <2>2
  <2>4. TickApplies = {} /\ pending
    BY <2>2 DEF OneApplyPending
  <2>5. TickApplies' = {Len(queue) + 1}
    BY <2>1, <2>3, <2>4 DEF TickApplies
  <2>6. OneApplyPending'
    BY <2>2, <2>4, <2>5 DEF OneApplyPending
  <2>7. TypeOK'
    BY <1>4, <2>3 DEF TickerSchedules, TypeOK, loop, callers, stop
  <2>8. MutexHeld'
    BY <1>4 DEF TickerSchedules, MutexHeld, loop
  <2> QED
    BY <2>6, <2>7, <2>8
<1> QED
  BY <1>1, <1>2, <1>3, <1>4 DEF Ticker

\* Every step of a RefreshOnce keeps the invariant.
LEMMA CallerKeeps ==
    ASSUME Inv, NEW c \in Callers, Caller(c)
    PROVE  Inv'
<1> USE DEF Inv
<1>0. rsnap[c] \in Versions
  BY DEF TypeOK
<1>1. CASE RefreshOnce(c) \/ CallerFetches(c) \/ CallerReturns(c) \/ CallerGivesUp(c)
  <2>1. TypeOK'
    BY <1>1 DEF RefreshOnce, CallerFetches, CallerReturns, CallerGivesUp, TypeOK, loop,
                ticker, stop
  <2>2. queue' = queue /\ pending' = pending /\ tpc' = tpc
    BY <1>1 DEF RefreshOnce, CallerFetches, CallerReturns, CallerGivesUp, loop, ticker
  <2>3. MutexHeld'
    BY <1>1 DEF RefreshOnce, CallerFetches, CallerReturns, CallerGivesUp, MutexHeld, loop
  <2> QED
    BY <2>1, <2>2, <2>3, Undisturbed
<1>2. CASE CallerFetchFails(c)
  <2>1. ReportTo(c) \in Closures /\ ReportTo(c) \notin TickerApplies
    BY OtherClosures DEF Closures, ReportTo
  <2>2. Schedule(ReportTo(c)) /\ tpc' = tpc /\ pending' = pending
    BY <1>2 DEF CallerFetchFails, loop, ticker
  <2>3. OneApplyPending' /\ queue' \in Seq(Closures)
    BY <2>1, <2>2, ScheduleOther
  <2>4. TypeOK'
    BY <1>2, <2>3 DEF CallerFetchFails, TypeOK, loop, ticker, stop
  <2>5. MutexHeld'
    BY <1>2 DEF CallerFetchFails, MutexHeld, loop
  <2> QED
    BY <2>3, <2>4, <2>5
<1>3. CASE CallerSchedules(c)
  <2>1. ApplyOf(rsnap[c], c) \in Closures /\ ApplyOf(rsnap[c], c) \notin TickerApplies
    BY <1>0, OtherClosures, ClosureTypes
  <2>2. Schedule(ApplyOf(rsnap[c], c)) /\ tpc' = tpc /\ pending' = pending
    BY <1>3 DEF CallerSchedules, loop, ticker
  <2>3. OneApplyPending' /\ queue' \in Seq(Closures)
    BY <2>1, <2>2, ScheduleOther
  <2>4. TypeOK'
    BY <1>3, <2>3 DEF CallerSchedules, TypeOK, loop, ticker, stop
  <2>5. MutexHeld'
    BY <1>3 DEF CallerSchedules, MutexHeld, loop
  <2> QED
    BY <2>3, <2>4, <2>5
<1> QED
  BY <1>1, <1>2, <1>3 DEF Caller

\* Every step of the main thread keeps the invariant.  Taking the ticker's
\* closure off the queue and resetting pending go together, and there was no
\* second one.
LEMMA MainKeeps == Inv /\ Main => Inv'
<1> SUFFICES ASSUME Inv, Main PROVE Inv'
  OBVIOUS
<1> USE DEF Inv
<1>1. CASE MainTakes
  <2>0. /\ queue \in Seq(Closures) /\ queue # <<>> /\ queue' = Tail(queue)
        /\ tpc' = tpc /\ closed' = closed /\ main = Idle
    BY <1>1 DEF MainTakes, TypeOK, ticker, MainIsFree
  <2>1. /\ Head(queue) \in Closures /\ queue' \in Seq(Closures) /\ Head(queue) = queue[1]
        /\ Len(queue) \in Nat /\ Len(queue) >= 1 /\ Len(queue') = Len(queue) - 1
        /\ \A i \in 1 .. Len(queue') : queue'[i] = queue[i + 1]
    BY <2>0
  <2>2. pending' <=> (pending /\ Head(queue) \notin TickerApplies)
    BY <1>1, Zenon DEF MainTakes
  <2>3. \A i \in TickApplies' : i + 1 \in TickApplies /\ i \in Nat /\ i + 1 # 1
    BY <2>1 DEF TickApplies
  <2>4. 1 \in TickApplies <=> Head(queue) \in TickerApplies
    BY <2>1 DEF TickApplies
  <2>5. \A i \in TickApplies : i # 1 => i - 1 \in TickApplies'
    BY <2>1 DEF TickApplies
  <2>6. OneApplyPending'
    <3>1. \A i, j \in TickApplies' : i = j
      BY <2>3 DEF OneApplyPending
    <3>2. CASE Head(queue) \in TickerApplies
      <4>1. TickApplies' = {} /\ tpc # "schedule"
        BY <3>2, <2>3, <2>4 DEF OneApplyPending
      <4> QED
        BY <3>2, <4>1, <2>0, <2>2 DEF OneApplyPending
    <3>3. CASE Head(queue) \notin TickerApplies
      <4>1. TickApplies' # {} <=> TickApplies # {}
        BY <3>3, <2>3, <2>4, <2>5
      <4>2. pending' <=> pending
        BY <3>3, <2>2
      <4> QED
        BY <3>1, <4>1, <4>2, <2>0 DEF OneApplyPending
    <3> QED
      BY <3>2, <3>3
  <2>7. CASE Head(queue).kind = "apply" /\ closed
    <3>1. /\ done' = Told(Head(queue)) /\ main' = main /\ locked' = locked
      BY <1>1, <2>7 DEF MainTakes
    <3>2. done' \subseteq Callers
      BY <3>1, <2>1 DEF Told, TypeOK, Closures
    <3>3. pending' \in BOOLEAN
      BY <1>1, Zenon DEF MainTakes
    <3>4. TypeOK'
      BY <1>1, <2>1, <3>1, <3>2, <3>3 DEF MainTakes, TypeOK, ticker, stop
    <3>5. MutexHeld'
      BY <3>1, <2>0 DEF MutexHeld
    <3> QED
      BY <3>4, <3>5, <2>6
  <2>8. CASE ~(Head(queue).kind = "apply" /\ closed)
    <3>1. /\ main' = Head(queue) /\ done' = done
      BY <1>1, <2>8 DEF MainTakes
    <3>2. locked' = (Head(queue).kind = "apply")
      BY <1>1, <2>8 DEF MainTakes
    <3>3. pending' \in BOOLEAN /\ locked' \in BOOLEAN
      BY <1>1, <3>2, Zenon DEF MainTakes
    <3>4. TypeOK'
      BY <1>1, <2>1, <3>1, <3>3 DEF MainTakes, TypeOK, ticker, stop
    <3>5. MutexHeld'
      BY <3>1, <3>2, <2>0, <2>8, Zenon DEF MutexHeld
    <3> QED
      BY <3>4, <3>5, <2>6
  <2> QED
    BY <2>7, <2>8
<1>2. CASE MainApplies \/ MainReports
  <2>1. main \in Closures
    BY <1>2 DEF MainApplies, MainReports, TypeOK, Idle
  <2>2. done' \subseteq Callers
    BY <1>2, <2>1 DEF MainApplies, MainReports, Told, TypeOK, Closures
  <2>3. main.snap \in Versions
    BY <2>1, RefreshAssumption DEF Closures, Versions
  <2>4. TypeOK'
    <3>1. CASE MainApplies
      <4>1. locked' \in BOOLEAN
        BY <3>1, Zenon DEF MainApplies
      <4>2. applied' \in Versions /\ main' \in Closures \cup {Idle}
        BY <3>1, <2>3 DEF MainApplies
      <4> QED
        BY <3>1, <2>2, <4>1, <4>2 DEF MainApplies, TypeOK, loop, ticker, stop
    <3>2. CASE MainReports
      BY <3>2, <2>2 DEF MainReports, TypeOK, loop, ticker, stop
    <3> QED
      BY <1>2, <3>1, <3>2
  <2>5. queue' = queue /\ pending' = pending /\ tpc' = tpc
    BY <1>2 DEF MainApplies, MainReports, loop, ticker
  <2>6. MutexHeld'
    BY <1>2 DEF MainApplies, MainReports, MutexHeld, Idle, loop
  <2> QED
    BY <2>4, <2>5, <2>6, Undisturbed
<1> QED
  BY <1>1, <1>2 DEF Main

\* Stop keeps the invariant: it sets closed only while mu is free.
LEMMA StopKeeps == Inv /\ (CallStop \/ Stop) => Inv'
<1> SUFFICES ASSUME Inv, CallStop \/ Stop PROVE Inv'
  OBVIOUS
<1> USE DEF Inv
<1>1. queue' = queue /\ pending' = pending /\ tpc' = tpc
  BY DEF CallStop, Stop, StopCloses, StopCancels, StopWaits, StopReturns, loop, ticker
<1>2. TypeOK'
  <2>1. CASE CallStop
    BY <2>1, Zenon DEF CallStop, TypeOK, loop, ticker, callers
  <2>2. CASE Stop
    BY <2>2, Zenon DEF Stop, StopCloses, StopCancels, StopWaits, StopReturns, TypeOK, loop,
                ticker, callers
  <2> QED
    BY <2>1, <2>2
<1>3. MutexHeld'
  BY DEF CallStop, Stop, StopCloses, StopCancels, StopWaits, StopReturns, MutexHeld, loop
<1> QED
  BY <1>1, <1>2, <1>3, Undisturbed

\* The invariant is inductive.
LEMMA StepKeeps == Inv /\ [Next]_vars => Inv'
<1> SUFFICES ASSUME Inv, [Next]_vars PROVE Inv'
  OBVIOUS
<1>1. CASE UNCHANGED vars
  BY <1>1 DEF vars, Inv, TypeOK, OneApplyPending, TickApplies, MutexHeld
<1>2. CASE SourceChanges
  <2>1. TypeOK'
    BY <1>2, RefreshAssumption DEF SourceChanges, Inv, TypeOK, Versions, loop, ticker,
                                   callers, stop
  <2>2. OneApplyPending' /\ MutexHeld'
    BY <1>2, Undisturbed DEF SourceChanges, Inv, MutexHeld, loop, ticker
  <2> QED
    BY <2>1, <2>2 DEF Inv
<1> QED
  BY <1>1, <1>2, TickerKeeps, CallerKeeps, MainKeeps, StopKeeps DEF Next

\* So it holds in every reachable state.
LEMMA RefreshInv == Safety => []Inv
BY InitInv, StepKeeps, PTL DEF Safety

\* TypeOK for every set of callers and every bound.
THEOREM RefreshTypes == Safety => []TypeOK
<1>1. Inv => TypeOK
  BY DEF Inv
<1> QED
  BY <1>1, RefreshInv, PTL

\* However many goroutines refresh and however slow the main thread is, the
\* ticker has at most one apply on its way, and pending says whether it has.
THEOREM RefreshCoalesces == Safety => []OneApplyPending
<1>1. Inv => OneApplyPending
  BY DEF Inv
<1> QED
  BY <1>1, RefreshInv, PTL

\* No Apply runs once Stop has set closed, whatever was scheduled before.
THEOREM RefreshStopIsFinal == Safety => NoApplyAfterStop
<1>1. Inv /\ [Next]_vars => [closed => applied' = applied]_vars
  <2> SUFFICES ASSUME Inv, Next, closed PROVE applied' = applied
    BY DEF vars
  <2>1. ~MainApplies
    BY DEF Inv, MutexHeld, MainApplies
  <2> QED
    BY <2>1, Zenon DEF Next, SourceChanges, Ticker, Tick, TickerExits, TickerFetches,
       TickerFetchFails, TickerCoalesces, TickerSchedules, Caller, RefreshOnce,
       CallerFetches, CallerFetchFails, CallerSchedules, CallerReturns, CallerGivesUp,
       Main, MainTakes, MainReports, CallStop, Stop, StopCloses, StopCancels, StopWaits,
       StopReturns
<1> QED
  BY <1>1, RefreshInv, PTL DEF Safety, NoApplyAfterStop

-----------------------------------------------------------------------------
\* Only the caller whose value was kept gets past the critical section.
Winner ==
    \A r \in Resolvers : resolverAt[r] \in {"closing", "firing", "calling", "true"} => value = r

\* Between the unlock of its entry and its call a callback has not been called.
AboutToCall ==
    \A r \in Resolvers : resolverAt[r] = "calling" =>
        /\ cbs[r] # <<>>
        /\ entry[Head(cbs[r])] = "taken"
        /\ Head(cbs[r]) \notin Range(ran)

\* What has been called, and that it was called once.
Called ==
    /\ \A c \in Range(ran) : entry[c] = "taken" /\ got[c] = value /\ resolved
    /\ \A i, j \in DOMAIN ran : ran[i] = ran[j] => i = j
    /\ \A c \in Callbacks : entry[c] = "inline" => resolved

\* Where the registered callbacks are.
Registered ==
    \A c \in Range(order) :
        /\ entry[c] \in {"armed", "taken", "canceled"}
        /\ \/ c \in Range(ran)
           \/ entry[c] = "canceled"
           \/ c \in Range(callbacks) /\ ~resolved
           \/ resolved /\ c \in Range(cbs[value])

\* A marked entry was called or is about to be; a Resolve that returned has
\* closed resolvedDone and has nothing left.
Progress ==
    /\ \A c \in Callbacks : entry[c] = "taken" =>
          \/ c \in Range(ran)
          \/ \E r \in Resolvers : resolverAt[r] = "calling" /\ c = Head(cbs[r])
    /\ \A r \in Resolvers : resolverAt[r] \in {"firing", "calling", "true"} => resolvedDone
    /\ \A r \in Resolvers : resolverAt[r] = "true" => cbs[r] = <<>>

PromiseInv == PromiseTypeOK /\ Winner /\ AboutToCall /\ Called /\ Registered /\ Progress

\* Appending adds one element to what a sequence holds.
LEMMA RangeAppend ==
    ASSUME NEW S, NEW s \in Seq(S), NEW x \in S
    PROVE  /\ Append(s, x) \in Seq(S)
           /\ Range(Append(s, x)) = Range(s) \cup {x}
           /\ DOMAIN Append(s, x) = 1 .. Len(s) + 1
           /\ DOMAIN s = 1 .. Len(s)
           /\ Append(s, x)[Len(s) + 1] = x
           /\ \A i \in 1 .. Len(s) : Append(s, x)[i] = s[i]
<1>1. /\ Append(s, x) \in Seq(S)
      /\ DOMAIN Append(s, x) = 1 .. Len(s) + 1
      /\ DOMAIN s = 1 .. Len(s)
      /\ Append(s, x)[Len(s) + 1] = x
      /\ \A i \in 1 .. Len(s) : Append(s, x)[i] = s[i]
  OBVIOUS
<1>2. Range(Append(s, x)) = Range(s) \cup {x}
  BY <1>1 DEF Range
<1> QED
  BY <1>1, <1>2

\* A sequence holds its head and what its tail holds.
LEMMA RangeTail ==
    ASSUME NEW S, NEW s \in Seq(S), s # <<>>
    PROVE  /\ Tail(s) \in Seq(S)
           /\ Head(s) \in S
           /\ Range(s) = {Head(s)} \cup Range(Tail(s))
<1>1. Tail(s) \in Seq(S) /\ Head(s) \in S /\ Head(s) = s[1] /\ Len(s) \in Nat /\ Len(s) > 0
  OBVIOUS
<1>2. DOMAIN Tail(s) = 1 .. Len(s) - 1 /\ DOMAIN s = 1 .. Len(s)
  OBVIOUS
<1>3. \A i \in 1 .. Len(s) - 1 : Tail(s)[i] = s[i + 1]
  OBVIOUS
<1>4. ASSUME NEW x \in Range(s) PROVE x = Head(s) \/ x \in Range(Tail(s))
  <2>1. PICK i \in 1 .. Len(s) : x = s[i]
    BY <1>2 DEF Range
  <2>2. CASE i = 1
    BY <2>1, <2>2, <1>1
  <2>3. CASE i # 1
    <3>1. i - 1 \in 1 .. Len(s) - 1 /\ Tail(s)[i - 1] = x
      BY <2>1, <2>3, <1>1, <1>3
    <3> QED
      BY <3>1, <1>2, Zenon DEF Range
  <2> QED
    BY <2>2, <2>3
<1>5. Head(s) \in Range(s)
  BY <1>1, <1>2 DEF Range
<1>6. ASSUME NEW x \in Range(Tail(s)) PROVE x \in Range(s)
  <2>1. PICK i \in 1 .. Len(s) - 1 : x = s[i + 1]
    BY <1>2, <1>3 DEF Range
  <2>2. i + 1 \in 1 .. Len(s)
    BY <1>1
  <2> QED
    BY <2>1, <2>2, <1>2 DEF Range
<1> QED
  BY <1>1, <1>4, <1>5, <1>6

\* A sequence over S holds elements of S.
LEMMA RangeType ==
    ASSUME NEW S, NEW s \in Seq(S)
    PROVE  Range(s) \subseteq S
  BY DEF Range

\* A fresh promise satisfies the invariant.
LEMMA PromiseInitInv == PromiseInit => PromiseInv
<1> SUFFICES ASSUME PromiseInit PROVE PromiseInv
  OBVIOUS
<1>0. resolvedDone \in BOOLEAN
  BY Zenon DEF PromiseInit
<1>1. PromiseTypeOK
  BY <1>0 DEF PromiseInit, PromiseTypeOK
<1>2. Winner /\ AboutToCall /\ Progress
  BY DEF PromiseInit, Winner, AboutToCall, Progress
<1>3. Called /\ Registered
  BY DEF PromiseInit, Called, Registered, Range, resolved
<1> QED
  BY <1>1, <1>2, <1>3 DEF PromiseInv

\* The critical section of Resolve keeps the invariant.
LEMMA ResolveKeeps ==
    ASSUME PromiseInv, NEW r \in Resolvers, Resolve(r)
    PROVE  PromiseInv'
<1> USE DEF PromiseInv
<1>bool. resolvedDone' \in BOOLEAN
  BY Zenon DEF PromiseTypeOK, Resolve
<1>sub. Range(order) \subseteq Callbacks
  BY RangeType DEF PromiseTypeOK
<1>1. CASE resolved
  <2>1. /\ resolverAt' = [resolverAt EXCEPT ![r] = "false"]
        /\ UNCHANGED <<value, cbs, callbacks, resolvedDone, entry, ran, got, order, withdrawn>>
        /\ resolverAt[r] = "idle"
    BY <1>1 DEF Resolve
  <2>types. PromiseTypeOK'
    BY <1>bool, <2>1 DEF PromiseTypeOK
  <2>winner. Winner' /\ AboutToCall'
    BY <2>1 DEF PromiseTypeOK, Winner, AboutToCall
  <2>called. Called' /\ Registered'
    BY <2>1 DEF Called, Registered, resolved
  <2>progress. Progress'
    BY <2>1 DEF PromiseTypeOK, Progress
  <2> QED
    BY <2>types, <2>winner, <2>called, <2>progress
<1>2. CASE ~resolved
  <2>1. /\ value' = r
        /\ cbs' = [cbs EXCEPT ![r] = callbacks]
        /\ callbacks' = <<>>
        /\ resolverAt' = [resolverAt EXCEPT ![r] = "closing"]
        /\ UNCHANGED <<resolvedDone, entry, ran, got, order, withdrawn>>
    BY <1>2 DEF Resolve
  <2>2. /\ \A q \in Resolvers : resolverAt[q] \in {"idle", "false"}
        /\ Range(ran) = {}
        /\ value = NoValue
        /\ r # NoValue
    BY <1>2, NoValueAssumption, Zenon DEF PromiseTypeOK, Winner, Called, resolved
  <2>types. PromiseTypeOK'
    BY <1>bool, <2>1 DEF PromiseTypeOK
  <2>winner. Winner' /\ AboutToCall'
    BY <2>1, <2>2, Zenon DEF PromiseTypeOK, Winner, AboutToCall
  <2>called. Called'
    BY <2>1, <2>2 DEF PromiseTypeOK, Called, resolved
  <2>registered. Registered'
    BY <1>sub, <2>1, <2>2 DEF PromiseTypeOK, Registered, resolved
  <2>progress. Progress'
    BY <2>1, <2>2, Zenon DEF PromiseTypeOK, Progress
  <2> QED
    BY <2>types, <2>winner, <2>called, <2>registered, <2>progress
<1> QED
  BY <1>1, <1>2

\* Closing resolvedDone keeps the invariant.
LEMMA CloseKeeps ==
    ASSUME PromiseInv, NEW r \in Resolvers, CloseDone(r)
    PROVE  PromiseInv'
<1> USE DEF PromiseInv
<1>bool. resolvedDone' \in BOOLEAN
  BY Zenon DEF PromiseTypeOK, CloseDone
<1>types. PromiseTypeOK'
  BY <1>bool DEF PromiseTypeOK, CloseDone
<1>winner. Winner'
  BY DEF PromiseTypeOK, Winner, CloseDone
<1>about. AboutToCall'
  BY DEF PromiseTypeOK, AboutToCall, CloseDone
<1>called. Called'
  BY DEF Called, CloseDone, resolved
<1>registered. Registered'
  BY DEF Registered, CloseDone, resolved
<1>progress. Progress'
  BY DEF PromiseTypeOK, Progress, CloseDone
<1> QED
  BY <1>types, <1>winner, <1>about, <1>called, <1>registered, <1>progress

\* Marking or passing over the next entry keeps the invariant.
LEMMA TakeKeeps ==
    ASSUME PromiseInv, NEW r \in Resolvers, TakeEntry(r)
    PROVE  PromiseInv'
<1> USE DEF PromiseInv
<1>bool. resolvedDone' \in BOOLEAN
  BY Zenon DEF PromiseTypeOK, TakeEntry
<1>seq. /\ cbs[r] \in Seq(Callbacks)
       /\ cbs[r] # <<>>
       /\ value = r
       /\ resolved
  BY NoValueAssumption DEF PromiseTypeOK, Winner, AboutToCall, TakeEntry, resolved
<1>head. /\ Tail(cbs[r]) \in Seq(Callbacks)
        /\ Head(cbs[r]) \in Callbacks
        /\ Range(cbs[r]) = {Head(cbs[r])} \cup Range(Tail(cbs[r]))
  BY <1>seq, RangeTail
<1>alone. \A q \in Resolvers : q # r => resolverAt[q] \in {"idle", "false"}
  BY <1>seq DEF PromiseTypeOK, Winner
<1>types. PromiseTypeOK'
  BY <1>bool, <1>head, Zenon DEF PromiseTypeOK, TakeEntry
<1>winner. Winner'
  BY <1>seq DEF PromiseTypeOK, Winner, TakeEntry
<1>about. AboutToCall'
  BY <1>seq, <1>head, <1>alone DEF PromiseTypeOK, AboutToCall, Called, TakeEntry
<1>sub. Range(order) \subseteq Callbacks /\ Range(ran) \subseteq Callbacks
  BY RangeType DEF PromiseTypeOK
<1>ent. entry' = [entry EXCEPT ![Head(cbs[r])] = "taken"] \/ entry' = entry
  BY DEF TakeEntry
<1>fix. UNCHANGED <<value, callbacks, ran, got, order>>
  BY DEF TakeEntry
<1>called. Called'
  BY <1>head, <1>sub, <1>ent, <1>fix, <1>seq DEF PromiseTypeOK, Called, resolved
<1>registered. Registered'
  <2>1. CASE entry[Head(cbs[r])] = "armed"
    <3>1. entry' = [entry EXCEPT ![Head(cbs[r])] = "taken"] /\ cbs' = cbs
      BY <2>1 DEF TakeEntry
    <3> QED
      BY <3>1, <1>sub, <1>fix, <1>seq, <1>head DEF PromiseTypeOK, Registered, resolved
  <2>2. CASE entry[Head(cbs[r])] # "armed"
    <3>1. entry' = entry /\ cbs' = [cbs EXCEPT ![r] = Tail(@)] /\ resolverAt[r] = "firing"
      BY <2>2 DEF TakeEntry
    <3>2. entry[Head(cbs[r])] = "taken" => Head(cbs[r]) \in Range(ran)
      BY <3>1, <1>alone, <1>head DEF Progress
    <3> QED
      BY <3>1, <3>2, <2>2, <1>sub, <1>fix, <1>seq, <1>head DEF PromiseTypeOK, Registered, resolved
  <2> QED
    BY <2>1, <2>2
<1>progress. Progress'
  <2>1. CASE entry[Head(cbs[r])] = "armed"
    BY <2>1, <1>seq, <1>head, <1>alone DEF PromiseTypeOK, Progress, TakeEntry
  <2>2. CASE ~(entry[Head(cbs[r])] = "armed")
    BY <2>2, <1>seq, <1>head, <1>alone DEF PromiseTypeOK, Progress, TakeEntry
  <2> QED
    BY <2>1, <2>2
<1> QED
  BY <1>types, <1>winner, <1>about, <1>called, <1>registered, <1>progress

\* Calling a registered callback keeps the invariant.
LEMMA CallEntryKeeps ==
    ASSUME PromiseInv, NEW r \in Resolvers, CallEntry(r)
    PROVE  PromiseInv'
<1> USE DEF PromiseInv
<1>bool. resolvedDone' \in BOOLEAN
  BY Zenon DEF PromiseTypeOK, CallEntry
<1>seq. /\ cbs[r] \in Seq(Callbacks)
       /\ cbs[r] # <<>>
       /\ value = r
       /\ resolved
  BY NoValueAssumption DEF PromiseTypeOK, Winner, AboutToCall, CallEntry, resolved
<1>head. /\ Tail(cbs[r]) \in Seq(Callbacks)
        /\ Head(cbs[r]) \in Callbacks
        /\ Range(cbs[r]) = {Head(cbs[r])} \cup Range(Tail(cbs[r]))
  BY <1>seq, RangeTail
<1>alone. \A q \in Resolvers : q # r => resolverAt[q] \in {"idle", "false"}
  BY <1>seq DEF PromiseTypeOK, Winner
<1>app. /\ ran' \in Seq(Callbacks)
       /\ Range(ran') = Range(ran) \cup {Head(cbs[r])}
       /\ DOMAIN ran' = 1 .. Len(ran) + 1
       /\ DOMAIN ran = 1 .. Len(ran)
       /\ ran'[Len(ran) + 1] = Head(cbs[r])
       /\ \A i \in 1 .. Len(ran) : ran'[i] = ran[i]
  BY <1>head, RangeAppend DEF PromiseTypeOK, CallEntry, Call
<1>types. PromiseTypeOK'
  BY <1>bool, <1>head, <1>app DEF PromiseTypeOK, CallEntry, Call
<1>winner. Winner'
  BY <1>seq DEF PromiseTypeOK, Winner, CallEntry
<1>about. AboutToCall'
  BY <1>alone, Zenon DEF PromiseTypeOK, AboutToCall, CallEntry
<1>once. \A i, j \in DOMAIN ran' : ran'[i] = ran'[j] => i = j
  <2>1. Head(cbs[r]) \notin Range(ran) /\ Len(ran) \in Nat
    BY DEF PromiseTypeOK, AboutToCall, CallEntry
  <2>2. \A i \in 1 .. Len(ran) : ran[i] # Head(cbs[r])
    BY <2>1, <1>app DEF Range
  <2> QED
    BY <1>app, <2>1, <2>2 DEF Called
<1>called. Called'
  BY <1>seq, <1>head, <1>app, <1>once DEF PromiseTypeOK, AboutToCall, Called, CallEntry, Call, resolved
<1>registered. Registered'
  BY <1>seq, <1>head, <1>app DEF PromiseTypeOK, Registered, CallEntry, resolved
<1>progress. Progress'
  BY <1>seq, <1>head, <1>alone, <1>app DEF PromiseTypeOK, Progress, CallEntry
<1> QED
  BY <1>types, <1>winner, <1>about, <1>called, <1>registered, <1>progress

\* The return of Resolve keeps the invariant.
LEMMA ReturnKeeps ==
    ASSUME PromiseInv, NEW r \in Resolvers, ResolveReturns(r)
    PROVE  PromiseInv'
<1> USE DEF PromiseInv
<1>bool. resolvedDone' \in BOOLEAN
  BY Zenon DEF PromiseTypeOK, ResolveReturns
<1>types. PromiseTypeOK'
  BY <1>bool DEF PromiseTypeOK, ResolveReturns
<1>winner. Winner'
  BY DEF PromiseTypeOK, Winner, ResolveReturns
<1>about. AboutToCall'
  BY DEF PromiseTypeOK, AboutToCall, ResolveReturns
<1>called. Called'
  BY DEF Called, ResolveReturns, resolved
<1>registered. Registered'
  BY DEF Registered, ResolveReturns, resolved
<1>progress. Progress'
  BY DEF PromiseTypeOK, Progress, ResolveReturns
<1> QED
  BY <1>types, <1>winner, <1>about, <1>called, <1>registered, <1>progress

\* Registering a callback keeps the invariant.
LEMMA OnResolveKeeps ==
    ASSUME PromiseInv, NEW c \in Callbacks, OnResolve(c)
    PROVE  PromiseInv'
<1> USE DEF PromiseInv
<1>bool. resolvedDone' \in BOOLEAN
  BY Zenon DEF PromiseTypeOK, OnResolve
<1>app. /\ Append(callbacks, c) \in Seq(Callbacks)
       /\ Range(Append(callbacks, c)) = Range(callbacks) \cup {c}
       /\ Append(order, c) \in Seq(Callbacks)
       /\ Range(Append(order, c)) = Range(order) \cup {c}
  BY RangeAppend DEF PromiseTypeOK
<1>types. PromiseTypeOK'
  BY <1>bool, <1>app, Zenon DEF PromiseTypeOK, OnResolve
<1>winner. Winner'
  BY DEF Winner, OnResolve
<1>about. AboutToCall'
  BY DEF PromiseTypeOK, AboutToCall, OnResolve
<1>sub. Range(order) \subseteq Callbacks /\ Range(ran) \subseteq Callbacks
  BY RangeType DEF PromiseTypeOK
<1>fix. UNCHANGED <<value, cbs, ran, got>> /\ entry[c] = "none"
  BY DEF OnResolve
<1>called. Called'
  <2>1. CASE resolved
    <3>1. entry' = [entry EXCEPT ![c] = "inline"]
      BY <2>1 DEF OnResolve
    <3> QED
      BY <2>1, <3>1, <1>sub, <1>fix DEF PromiseTypeOK, Called, resolved
  <2>2. CASE ~resolved
    <3>1. entry' = [entry EXCEPT ![c] = "armed"]
      BY <2>2 DEF OnResolve
    <3> QED
      BY <2>2, <3>1, <1>sub, <1>fix DEF PromiseTypeOK, Called, resolved
  <2> QED
    BY <2>1, <2>2
<1>registered. Registered'
  <2>1. CASE resolved
    <3>1. entry' = [entry EXCEPT ![c] = "inline"] /\ UNCHANGED <<callbacks, order>>
      BY <2>1 DEF OnResolve
    <3>2. c \notin Range(order)
      BY <1>fix DEF Registered
    <3> QED
      BY <3>1, <3>2, <1>sub, <1>fix DEF PromiseTypeOK, Registered, resolved
  <2>2. CASE ~resolved
    <3>1. /\ entry' = [entry EXCEPT ![c] = "armed"]
          /\ callbacks' = Append(callbacks, c)
          /\ order' = Append(order, c)
      BY <2>2 DEF OnResolve
    <3> QED
      BY <2>2, <3>1, <1>sub, <1>fix, <1>app DEF PromiseTypeOK, Registered, resolved
  <2> QED
    BY <2>1, <2>2
<1>progress. Progress'
  BY Zenon DEF PromiseTypeOK, Progress, OnResolve
<1> QED
  BY <1>types, <1>winner, <1>about, <1>called, <1>registered, <1>progress

\* Calling a callback inline keeps the invariant.
LEMMA InlineKeeps ==
    ASSUME PromiseInv, NEW c \in Callbacks, CallInline(c)
    PROVE  PromiseInv'
<1> USE DEF PromiseInv
<1>bool. resolvedDone' \in BOOLEAN
  BY Zenon DEF PromiseTypeOK, CallInline
<1>app. /\ ran' \in Seq(Callbacks)
       /\ Range(ran') = Range(ran) \cup {c}
       /\ DOMAIN ran' = 1 .. Len(ran) + 1
       /\ DOMAIN ran = 1 .. Len(ran)
       /\ ran'[Len(ran) + 1] = c
       /\ \A i \in 1 .. Len(ran) : ran'[i] = ran[i]
  BY RangeAppend DEF PromiseTypeOK, CallInline, Call
<1>new. /\ c \notin Range(ran)
       /\ resolved
  BY DEF Called, CallInline
<1>types. PromiseTypeOK'
  BY <1>bool, <1>app DEF PromiseTypeOK, CallInline, Call
<1>winner. Winner'
  BY DEF Winner, CallInline
<1>about. AboutToCall'
  BY <1>app DEF PromiseTypeOK, AboutToCall, CallInline
<1>once. \A i, j \in DOMAIN ran' : ran'[i] = ran'[j] => i = j
  <2>1. Len(ran) \in Nat
    BY DEF PromiseTypeOK
  <2>2. \A i \in 1 .. Len(ran) : ran[i] # c
    BY <1>new, <1>app DEF Range
  <2> QED
    BY <1>app, <2>1, <2>2 DEF Called
<1>called. Called'
  BY <1>app, <1>new, <1>once DEF PromiseTypeOK, Called, CallInline, Call, resolved
<1>registered. Registered'
  BY <1>app DEF PromiseTypeOK, Registered, CallInline, resolved
<1>progress. Progress'
  BY <1>app DEF PromiseTypeOK, Progress, CallInline
<1> QED
  BY <1>types, <1>winner, <1>about, <1>called, <1>registered, <1>progress

\* A cancel keeps the invariant.
LEMMA CancelKeeps ==
    ASSUME PromiseInv, NEW c \in Callbacks, Cancel(c)
    PROVE  PromiseInv'
<1> USE DEF PromiseInv
<1>bool. resolvedDone' \in BOOLEAN
  BY Zenon DEF PromiseTypeOK, Cancel
<1>types. PromiseTypeOK'
  BY <1>bool DEF PromiseTypeOK, Cancel
<1>winner. Winner'
  BY DEF Winner, Cancel
<1>about. AboutToCall'
  BY DEF PromiseTypeOK, AboutToCall, Cancel
<1>called. Called'
  BY DEF PromiseTypeOK, Called, Cancel, resolved
<1>registered. Registered'
  BY DEF PromiseTypeOK, Registered, Cancel, resolved
<1>progress. Progress'
  BY DEF PromiseTypeOK, Progress, Cancel
<1> QED
  BY <1>types, <1>winner, <1>about, <1>called, <1>registered, <1>progress

\* Every step keeps the invariant.
LEMMA PromiseNextInv == PromiseInv /\ [PromiseNext]_promiseVars => PromiseInv'
<1> SUFFICES ASSUME PromiseInv, [PromiseNext]_promiseVars PROVE PromiseInv'
  OBVIOUS
<1>1. CASE UNCHANGED promiseVars
  BY <1>1 DEF promiseVars, PromiseInv, PromiseTypeOK, Winner, AboutToCall, Called, Registered, Progress, resolved
<1>2. ASSUME NEW r \in Resolvers, Resolve(r) \/ Resolving(r) PROVE PromiseInv'
  BY <1>2, ResolveKeeps, CloseKeeps, TakeKeeps, CallEntryKeeps, ReturnKeeps DEF Resolving
<1>3. ASSUME NEW c \in Callbacks, OnResolve(c) \/ CallInline(c) \/ Cancel(c) PROVE PromiseInv'
  BY <1>3, OnResolveKeeps, InlineKeeps, CancelKeeps
<1> QED
  BY <1>1, <1>2, <1>3 DEF PromiseNext, Finished

\* The invariant holds in every reachable state.
LEMMA PromiseAlwaysInv == PromiseSafety => []PromiseInv
  BY PromiseInitInv, PromiseNextInv, PTL DEF PromiseSafety

\* Type correctness of the promise.
THEOREM PromiseTypes == PromiseSafety => []PromiseTypeOK
<1>1. PromiseInv => PromiseTypeOK
  BY DEF PromiseInv
<1> QED
  BY <1>1, PromiseAlwaysInv, PTL

\* However many goroutines resolve, subscribe and cancel, Resolve and OnResolve
\* between them call a callback at most once, with the value that was kept.
THEOREM PromiseCallsOnce == PromiseSafety => []CalledOnceWithTheValue
<1>1. PromiseInv => CalledOnceWithTheValue
  BY DEF PromiseInv, Called, CalledOnceWithTheValue, Range
<1> QED
  BY <1>1, PromiseAlwaysInv, PTL

\* When Resolve has returned true, Done() is closed and every registered callback
\* was called or canceled.
THEOREM PromiseSettlesAll == PromiseSafety => []ResolveSettlesAll
<1>1. ASSUME PromiseInv PROVE ResolveSettlesAll
  <2> SUFFICES ASSUME NEW r \in Resolvers, resolverAt[r] = "true"
               PROVE  /\ value = r
                      /\ resolvedDone
                      /\ \A c \in Range(order) : c \in Range(ran) \/ entry[c] = "canceled"
    BY DEF ResolveSettlesAll, Range
  <2>1. value = r /\ cbs[r] = <<>> /\ resolved
    BY <1>1, NoValueAssumption DEF PromiseInv, PromiseTypeOK, Winner, Progress, resolved
  <2>2. Range(cbs[value]) = {}
    BY <2>1 DEF Range
  <2>3. resolvedDone
    BY <1>1 DEF PromiseInv, Progress
  <2> QED
    BY <1>1, <2>1, <2>2, <2>3 DEF PromiseInv, Registered
<1> QED
  BY <1>1, PromiseAlwaysInv, PTL

\* The safety part of ImplementsResolveOnce: each critical section of the code
\* is a step of ResolveOnce or changes nothing it can see.
THEOREM PromiseImplements == PromiseSafety => Promise!Safety
<1>1. PromiseInit => Promise!Init
  BY DEF PromiseInit, Promise!Init, Outcome
<1>2. ASSUME PromiseInv, [PromiseNext]_promiseVars PROVE [Promise!Next]_(Promise!vars)
  <2> DEFINE sub == [c \in Callbacks |-> Outcome(entry[c])]
  <2> USE <1>2 DEF PromiseInv
  <2>1. CASE UNCHANGED <<value, entry>>
    BY <2>1 DEF Promise!vars
  <2>2. ASSUME NEW r \in Resolvers, Resolve(r) PROVE [Promise!Next]_(Promise!vars)
    BY <2>2 DEF Resolve, resolved, Promise!vars, Promise!Next, Promise!Publish
  <2>3. ASSUME NEW r \in Resolvers, TakeEntry(r) PROVE [Promise!Next]_(Promise!vars)
    <3>1. CASE entry[Head(cbs[r])] # "armed"
      BY <2>3, <3>1, <2>1 DEF TakeEntry
    <3>2. CASE entry[Head(cbs[r])] = "armed"
      <4> DEFINE c == Head(cbs[r])
      <4>1. c \in Callbacks /\ value # NoValue
        BY <2>3, RangeTail, NoValueAssumption DEF TakeEntry, PromiseTypeOK, Winner
      <4>2. Promise!Deliver(c)
        BY <2>3, <3>2, <4>1, Zenon DEF TakeEntry, PromiseTypeOK, Outcome, Promise!Deliver
      <4> QED
        BY <4>1, <4>2 DEF Promise!Next
    <3> QED
      BY <3>1, <3>2
  <2>4. ASSUME NEW c \in Callbacks, OnResolve(c) PROVE [Promise!Next]_(Promise!vars)
    <3>1. Promise!Subscribe(c)
      BY <2>4, Zenon DEF OnResolve, PromiseTypeOK, Outcome, Promise!Subscribe
    <3> QED
      BY <3>1 DEF Promise!Next
  <2>5. ASSUME NEW c \in Callbacks, CallInline(c) PROVE [Promise!Next]_(Promise!vars)
    <3>1. Promise!Deliver(c)
      BY <2>5, Zenon DEF CallInline, PromiseTypeOK, Called, resolved, Outcome, Promise!Deliver
    <3> QED
      BY <3>1 DEF Promise!Next
  <2>6. ASSUME NEW c \in Callbacks, Cancel(c) PROVE [Promise!Next]_(Promise!vars)
    <3>1. CASE entry[c] = "armed"
      <4>1. Promise!Withdraw(c)
        BY <2>6, <3>1, Zenon DEF Cancel, PromiseTypeOK, Outcome, Promise!Withdraw
      <4> QED
        BY <4>1 DEF Promise!Next
    <3>2. CASE entry[c] # "armed"
      <4>1. entry' = entry
        BY <2>6, <3>2 DEF Cancel, PromiseTypeOK
      <4> QED
        BY <2>6, <4>1, <2>1 DEF Cancel
    <3> QED
      BY <3>1, <3>2
  <2> QED
    BY <2>1, <2>2, <2>3, <2>4, <2>5, <2>6
       DEF PromiseNext, promiseVars, Resolving, CloseDone, CallEntry, ResolveReturns, Finished
<1> QED
  BY <1>1, <1>2, PromiseAlwaysInv, PTL DEF PromiseSafety, Promise!Safety
=============================================================================

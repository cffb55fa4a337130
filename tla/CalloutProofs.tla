--------------------------- MODULE CalloutProofs ----------------------------
(***************************************************************************)
(* Callouts that a request waits for.                                      *)
(*                                                                         *)
(* The calloutState handoff is right for any number of deliveries.  Its    *)
(* inductive invariant says who owns the flush (Ownership), who holds the  *)
(* continuation (Holder), what has been sent so far (Ledger) and, for      *)
(* deliveries on the worker thread, that whoever waits has somebody to wait *)
(* for (Nested).                                                           *)
(*                                                                         *)
(* Groups and sequences settle once, for any number of callouts.  The      *)
(* invariant says how the slots, the counter and the callouts in flight    *)
(* hang together: in an "all" group the unsettled slots are the callouts in *)
(* flight and the ones still to be started, and remaining counts them; a   *)
(* sequence has answered all it started but the last one.                  *)
(***************************************************************************)
EXTENDS CalloutHandoff, CalloutGroup, FiniteSetTheorems, TLAPS

BeforeFlush == {"handler", "calling", "pause", "complete", "flush"}

Exclusion ==
  /\ \A d, e \in Deliveries : Busy(d) /\ Busy(e) => d = e
  /\ ~calloutStarted => \A d \in Deliveries : cb[d] = "idle"
  /\ worker = "handler" => ~calloutStarted /\ fnRuns = 0

Ownership ==
  /\ worker \in BeforeFlush =>
       /\ inline = 0 /\ late = 0 /\ calloutState # "Paused"
       /\ \A d \in Deliveries : cb[d] # "resume"
  /\ worker = "stopping" => inline = 0
  /\ calloutState = "Paused" =>
       inline = 0 /\ late = 0 /\ \A d \in Deliveries : cb[d] # "resume"
  /\ (\E d \in Deliveries : cb[d] = "resume") => inline = 0 /\ late = 0
  /\ inline + late <= 1

Holder ==
  /\ calloutFn => fnRuns = 0
  /\ fnRuns <= 1
  /\ \A d \in Deliveries :
       /\ cb[d] = "run" => calloutFn
       /\ cb[d] \in {"casPaused", "resume", "casActive"} => ~calloutFn

Ledger ==
  /\ replied + continues <= inline + late
  /\ status = "Continue" => inline = 1 /\ replied = 0

\* Only with deliveries on the worker thread.
Nested ==
  /\ streamDone => worker = "returned" /\ \A d \in Deliveries : ~Busy(d)
  /\ ~streamDone /\ (calloutFn \/ \E d \in Deliveries : Busy(d))
       => \A e \in Deliveries : cb[e] # "over"
  /\ \A d \in Deliveries : Busy(d) => worker \in {"calling", "returned"}
  /\ worker \in {"calling", "pause"} =>
       /\ calloutState \in {"Active", "Done"}
       /\ calloutState = "Active" /\ calloutStarted =>
            calloutFn \/ \E d \in Deliveries : cb[d] \in {"casPaused", "casActive"}
  /\ calloutState = "Paused" =>
       calloutFn \/ \E d \in Deliveries : cb[d] = "casPaused"
  /\ worker = "complete" => ~calloutStarted \/ calloutState = "Done"
  /\ worker \in {"flush", "stopping", "returned"} =>
       ~calloutStarted \/ calloutState \in {"Paused", "Flushed"}
  /\ worker \in {"stopping", "returned"} =>
       \/ calloutState = "Paused" \/ inline + late = 1
       \/ \E d \in Deliveries : cb[d] = "resume"
  /\ worker = "returned" /\ inline = 0 => status = "Stop"
  /\ late > 0 => worker = "returned" /\ status = "Stop"

IInv ==
  /\ TypeOK /\ Exclusion /\ Ownership /\ Holder /\ Ledger
  /\ SameThread => Nested

(***************************************************************************)
(* The invariant is inductive: one step per action, one below it per       *)
(* conjunct.                                                               *)
(***************************************************************************)
\* The stream as OnRequestHeaders finds it satisfies the invariant.
LEMMA InitIInv == Init => IInv
<1> SUFFICES ASSUME Init PROVE IInv
  OBVIOUS
<1> USE DEF Init, Busy, BeforeFlush, CalloutStates, WorkerPCs, CallbackPCs
<1>1. TypeOK
  <2>1. /\ calloutFn \in BOOLEAN /\ calloutStarted \in BOOLEAN
        /\ streamDone \in BOOLEAN /\ localReply \in BOOLEAN
    BY Zenon
  <2> QED BY <2>1 DEF TypeOK
<1>2. Exclusion /\ Holder
  BY DEF Exclusion, Holder
<1>3. Ownership /\ Ledger
  BY DEF Ownership, Ledger
<1>4. Nested
  BY DEF Nested
<1> QED BY <1>1, <1>2, <1>3, <1>4 DEF IInv

\* Every atomic operation of the request callback, of a delivery and of
\* OnStreamComplete preserves the invariant.
LEMMA NextIInv == IInv /\ [Next]_vars => IInv'
<1> SUFFICES ASSUME IInv, [Next]_vars PROVE IInv'
  OBVIOUS
<1> USE HandoffAssumption DEF Busy, BeforeFlush, CalloutStates, WorkerPCs,
        CallbackPCs, handoff, pcs, flushes
<1>1. CASE HTTPCallout
  <2>1. TypeOK'
    BY <1>1 DEF IInv, TypeOK, HTTPCallout
  <2>2. Exclusion'
    BY <1>1 DEF IInv, TypeOK, Exclusion, Holder, HTTPCallout
  <2>3. Ownership'
    BY <1>1 DEF IInv, TypeOK, Exclusion, Ownership, HTTPCallout
  <2>4. Holder'
    BY <1>1 DEF IInv, TypeOK, Exclusion, Holder, HTTPCallout
  <2>5. Ledger'
    BY <1>1 DEF IInv, TypeOK, Exclusion, Ownership, Ledger, HTTPCallout
  <2>6. ASSUME SameThread PROVE Nested'
    BY <1>1, <2>6 DEF IInv, TypeOK, Exclusion, Ownership, Holder, Ledger, Nested, HTTPCallout
  <2> QED BY <2>1, <2>2, <2>3, <2>4, <2>5, <2>6 DEF IInv
<1>2. CASE CalloutAccepted
  <2>1. TypeOK'
    BY <1>2 DEF IInv, TypeOK, CalloutAccepted, WorkerMayStep
  <2>2. Exclusion'
    BY <1>2 DEF IInv, TypeOK, Exclusion, Holder, CalloutAccepted, WorkerMayStep
  <2>3. Ownership'
    BY <1>2 DEF IInv, TypeOK, Exclusion, Ownership, CalloutAccepted, WorkerMayStep
  <2>4. Holder'
    BY <1>2 DEF IInv, TypeOK, Exclusion, Holder, CalloutAccepted, WorkerMayStep
  <2>5. Ledger'
    BY <1>2 DEF IInv, TypeOK, Exclusion, Ownership, Ledger, CalloutAccepted, WorkerMayStep
  <2>6. ASSUME SameThread PROVE Nested'
    BY <1>2, <2>6 DEF IInv, TypeOK, Exclusion, Ownership, Holder, Ledger, Nested, CalloutAccepted, WorkerMayStep
  <2> QED BY <2>1, <2>2, <2>3, <2>4, <2>5, <2>6 DEF IInv
<1>3. CASE CalloutRefused
  <2>1. TypeOK'
    BY <1>3, Zenon DEF IInv, TypeOK, CalloutRefused
  <2>2. Exclusion'
    BY <1>3 DEF IInv, TypeOK, Exclusion, Holder, CalloutRefused
  <2>3. Ownership'
    BY <1>3 DEF IInv, TypeOK, Exclusion, Ownership, CalloutRefused
  <2>4. Holder'
    BY <1>3 DEF IInv, TypeOK, Exclusion, Holder, CalloutRefused
  <2>5. Ledger'
    BY <1>3 DEF IInv, TypeOK, Exclusion, Ownership, Ledger, CalloutRefused
  <2>6. ASSUME SameThread PROVE Nested'
    BY <1>3, <2>6 DEF IInv, TypeOK, Exclusion, Ownership, Holder, Ledger, Nested, CalloutRefused
  <2> QED BY <2>1, <2>2, <2>3, <2>4, <2>5, <2>6 DEF IInv
<1>4. CASE PausePendingCallout
  <2>1. TypeOK'
    BY <1>4 DEF IInv, TypeOK, PausePendingCallout, WorkerMayStep
  <2>2. Exclusion'
    BY <1>4 DEF IInv, TypeOK, Exclusion, Holder, PausePendingCallout, WorkerMayStep
  <2>3. Ownership'
    BY <1>4 DEF IInv, TypeOK, Exclusion, Ownership, PausePendingCallout, WorkerMayStep
  <2>4. Holder'
    BY <1>4 DEF IInv, TypeOK, Exclusion, Holder, PausePendingCallout, WorkerMayStep
  <2>5. Ledger'
    BY <1>4 DEF IInv, TypeOK, Exclusion, Ownership, Ledger, PausePendingCallout, WorkerMayStep
  <2>6. ASSUME SameThread PROVE Nested'
    BY <1>4, <2>6 DEF IInv, TypeOK, Exclusion, Ownership, Holder, Ledger, Nested, PausePendingCallout, WorkerMayStep
  <2> QED BY <2>1, <2>2, <2>3, <2>4, <2>5, <2>6 DEF IInv
<1>5. CASE ReturnStop
  <2>1. TypeOK'
    BY <1>5 DEF IInv, TypeOK, ReturnStop, WorkerMayStep
  <2>2. Exclusion'
    BY <1>5 DEF IInv, TypeOK, Exclusion, Holder, ReturnStop, WorkerMayStep
  <2>3. Ownership'
    BY <1>5 DEF IInv, TypeOK, Exclusion, Ownership, ReturnStop, WorkerMayStep
  <2>4. Holder'
    BY <1>5 DEF IInv, TypeOK, Exclusion, Holder, ReturnStop, WorkerMayStep
  <2>5. Ledger'
    BY <1>5 DEF IInv, TypeOK, Exclusion, Ownership, Ledger, ReturnStop, WorkerMayStep
  <2>6. ASSUME SameThread PROVE Nested'
    BY <1>5, <2>6 DEF IInv, TypeOK, Exclusion, Ownership, Holder, Ledger, Nested, ReturnStop, WorkerMayStep
  <2> QED BY <2>1, <2>2, <2>3, <2>4, <2>5, <2>6 DEF IInv
<1>6. CASE FlushCompletedCallout
  <2>1. TypeOK'
    BY <1>6 DEF IInv, TypeOK, FlushCompletedCallout, WorkerMayStep
  <2>2. Exclusion'
    BY <1>6 DEF IInv, TypeOK, Exclusion, Holder, FlushCompletedCallout, WorkerMayStep
  <2>3. Ownership'
    BY <1>6 DEF IInv, TypeOK, Exclusion, Ownership, FlushCompletedCallout, WorkerMayStep
  <2>4. Holder'
    BY <1>6 DEF IInv, TypeOK, Exclusion, Holder, FlushCompletedCallout, WorkerMayStep
  <2>5. Ledger'
    BY <1>6 DEF IInv, TypeOK, Exclusion, Ownership, Ledger, FlushCompletedCallout, WorkerMayStep
  <2>6. ASSUME SameThread PROVE Nested'
    BY <1>6, <2>6 DEF IInv, TypeOK, Exclusion, Ownership, Holder, Ledger, Nested, FlushCompletedCallout, WorkerMayStep
  <2> QED BY <2>1, <2>2, <2>3, <2>4, <2>5, <2>6 DEF IInv
<1>7. CASE FlushInline
  <2>1. TypeOK'
    <3>1. localReply' \in BOOLEAN /\ calloutFn' \in BOOLEAN
      BY <1>7, Zenon DEF IInv, TypeOK, FlushInline, WorkerMayStep, Flush
    <3> QED
      BY <1>7, <3>1 DEF IInv, TypeOK, FlushInline, WorkerMayStep, Flush
  <2>2. Exclusion'
    BY <1>7 DEF IInv, TypeOK, Exclusion, Holder, FlushInline, WorkerMayStep, Flush
  <2>3. Ownership'
    BY <1>7 DEF IInv, TypeOK, Exclusion, Ownership, FlushInline, WorkerMayStep, Flush
  <2>4. Holder'
    BY <1>7 DEF IInv, TypeOK, Exclusion, Holder, FlushInline, WorkerMayStep, Flush
  <2>5. Ledger'
    BY <1>7 DEF IInv, TypeOK, Exclusion, Ownership, Ledger, FlushInline, WorkerMayStep, Flush
  <2>6. ASSUME SameThread PROVE Nested'
    BY <1>7, <2>6 DEF IInv, TypeOK, Exclusion, Ownership, Holder, Ledger, Nested, FlushInline, WorkerMayStep, Flush
  <2> QED BY <2>1, <2>2, <2>3, <2>4, <2>5, <2>6 DEF IInv
<1>8. CASE OnStreamComplete
  <2>1. TypeOK'
    BY <1>8 DEF IInv, TypeOK, OnStreamComplete, WorkerMayStep
  <2>2. Exclusion'
    BY <1>8 DEF IInv, TypeOK, Exclusion, Holder, OnStreamComplete, WorkerMayStep
  <2>3. Ownership'
    BY <1>8 DEF IInv, TypeOK, Exclusion, Ownership, OnStreamComplete, WorkerMayStep
  <2>4. Holder'
    BY <1>8 DEF IInv, TypeOK, Exclusion, Holder, OnStreamComplete, WorkerMayStep
  <2>5. Ledger'
    BY <1>8 DEF IInv, TypeOK, Exclusion, Ownership, Ledger, OnStreamComplete, WorkerMayStep
  <2>6. ASSUME SameThread PROVE Nested'
    BY <1>8, <2>6 DEF IInv, TypeOK, Exclusion, Ownership, Holder, Ledger, Nested, OnStreamComplete, WorkerMayStep
  <2> QED BY <2>1, <2>2, <2>3, <2>4, <2>5, <2>6 DEF IInv
<1>9. ASSUME NEW d \in Deliveries, CalloutDoneEnter(d) PROVE IInv'
  <2>1. TypeOK'
    BY <1>9 DEF IInv, TypeOK, CalloutDoneEnter, CallbackMayStep, EntryGuard
  <2>2. Exclusion'
    BY <1>9 DEF IInv, TypeOK, Exclusion, Holder, CalloutDoneEnter, CallbackMayStep, EntryGuard
  <2>3. Ownership'
    BY <1>9 DEF IInv, TypeOK, Exclusion, Ownership, CalloutDoneEnter, CallbackMayStep, EntryGuard
  <2>4. Holder'
    BY <1>9 DEF IInv, TypeOK, Exclusion, Holder, CalloutDoneEnter, CallbackMayStep, EntryGuard
  <2>5. Ledger'
    BY <1>9 DEF IInv, TypeOK, Exclusion, Ownership, Ledger, CalloutDoneEnter, CallbackMayStep, EntryGuard
  <2>6. ASSUME SameThread PROVE Nested'
    BY <1>9, <2>6 DEF IInv, TypeOK, Exclusion, Ownership, Holder, Ledger, Nested, CalloutDoneEnter, CallbackMayStep, EntryGuard
  <2> QED BY <2>1, <2>2, <2>3, <2>4, <2>5, <2>6 DEF IInv
<1>10. ASSUME NEW d \in Deliveries, RunContinuation(d) PROVE IInv'
  <2>1. TypeOK'
    <3>1. localReply' \in BOOLEAN /\ calloutFn' \in BOOLEAN
      BY <1>10, Zenon DEF IInv, TypeOK, RunContinuation, CallbackMayStep, CalloutFnTaken
    <3> QED
      BY <1>10, <3>1 DEF IInv, TypeOK, RunContinuation, CallbackMayStep, CalloutFnTaken
  <2>2. Exclusion'
    BY <1>10 DEF IInv, TypeOK, Exclusion, Holder, RunContinuation, CallbackMayStep, CalloutFnTaken
  <2>3. Ownership'
    BY <1>10 DEF IInv, TypeOK, Exclusion, Ownership, RunContinuation, CallbackMayStep, CalloutFnTaken
  <2>4. Holder'
    BY <1>10 DEF IInv, TypeOK, Exclusion, Holder, RunContinuation, CallbackMayStep, CalloutFnTaken
  <2>5. Ledger'
    BY <1>10 DEF IInv, TypeOK, Exclusion, Ownership, Ledger, RunContinuation, CallbackMayStep, CalloutFnTaken
  <2>6. ASSUME SameThread PROVE Nested'
    BY <1>10, <2>6 DEF IInv, TypeOK, Exclusion, Ownership, Holder, Ledger, Nested, RunContinuation, CallbackMayStep, CalloutFnTaken
  <2> QED BY <2>1, <2>2, <2>3, <2>4, <2>5, <2>6 DEF IInv
<1>11. ASSUME NEW d \in Deliveries, CASPausedFlushed(d) PROVE IInv'
  <2>1. TypeOK'
    BY <1>11 DEF IInv, TypeOK, CASPausedFlushed, CallbackMayStep, WinsResume
  <2>2. Exclusion'
    BY <1>11 DEF IInv, TypeOK, Exclusion, Holder, CASPausedFlushed, CallbackMayStep, WinsResume
  <2>3. Ownership'
    BY <1>11 DEF IInv, TypeOK, Exclusion, Ownership, CASPausedFlushed, CallbackMayStep, WinsResume
  <2>4. Holder'
    BY <1>11 DEF IInv, TypeOK, Exclusion, Holder, CASPausedFlushed, CallbackMayStep, WinsResume
  <2>5. Ledger'
    BY <1>11 DEF IInv, TypeOK, Exclusion, Ownership, Ledger, CASPausedFlushed, CallbackMayStep, WinsResume
  <2>6. ASSUME SameThread PROVE Nested'
    BY <1>11, <2>6 DEF IInv, TypeOK, Exclusion, Ownership, Holder, Ledger, Nested, CASPausedFlushed, CallbackMayStep, WinsResume
  <2> QED BY <2>1, <2>2, <2>3, <2>4, <2>5, <2>6 DEF IInv
<1>12. ASSUME NEW d \in Deliveries, FlushAndContinue(d) PROVE IInv'
  <2>1. TypeOK'
    <3>1. localReply' \in BOOLEAN /\ calloutFn' \in BOOLEAN
      BY <1>12, Zenon DEF IInv, TypeOK, FlushAndContinue, CallbackMayStep, Flush
    <3> QED
      BY <1>12, <3>1 DEF IInv, TypeOK, FlushAndContinue, CallbackMayStep, Flush
  <2>2. Exclusion'
    BY <1>12 DEF IInv, TypeOK, Exclusion, Holder, FlushAndContinue, CallbackMayStep, Flush
  <2>3. Ownership'
    BY <1>12 DEF IInv, TypeOK, Exclusion, Ownership, FlushAndContinue, CallbackMayStep, Flush
  <2>4. Holder'
    BY <1>12 DEF IInv, TypeOK, Exclusion, Holder, FlushAndContinue, CallbackMayStep, Flush
  <2>5. Ledger'
    BY <1>12 DEF IInv, TypeOK, Exclusion, Ownership, Ledger, FlushAndContinue, CallbackMayStep, Flush
  <2>6. ASSUME SameThread PROVE Nested'
    BY <1>12, <2>6 DEF IInv, TypeOK, Exclusion, Ownership, Holder, Ledger, Nested, FlushAndContinue, CallbackMayStep, Flush
  <2> QED BY <2>1, <2>2, <2>3, <2>4, <2>5, <2>6 DEF IInv
<1>13. ASSUME NEW d \in Deliveries, CASActiveDone(d) PROVE IInv'
  <2>1. TypeOK'
    BY <1>13 DEF IInv, TypeOK, CASActiveDone, CallbackMayStep, DoneMark
  <2>2. Exclusion'
    BY <1>13 DEF IInv, TypeOK, Exclusion, Holder, CASActiveDone, CallbackMayStep, DoneMark
  <2>3. Ownership'
    BY <1>13 DEF IInv, TypeOK, Exclusion, Ownership, CASActiveDone, CallbackMayStep, DoneMark
  <2>4. Holder'
    BY <1>13 DEF IInv, TypeOK, Exclusion, Holder, CASActiveDone, CallbackMayStep, DoneMark
  <2>5. Ledger'
    BY <1>13 DEF IInv, TypeOK, Exclusion, Ownership, Ledger, CASActiveDone, CallbackMayStep, DoneMark
  <2>6. ASSUME SameThread PROVE Nested'
    BY <1>13, <2>6 DEF IInv, TypeOK, Exclusion, Ownership, Holder, Ledger, Nested, CASActiveDone, CallbackMayStep, DoneMark
  <2> QED BY <2>1, <2>2, <2>3, <2>4, <2>5, <2>6 DEF IInv
<1>14. CASE UNCHANGED vars
  BY <1>14 DEF IInv, TypeOK, Exclusion, Ownership, Holder, Ledger, Nested, vars
<1> QED
  BY <1>1, <1>2, <1>3, <1>4, <1>5, <1>6, <1>7, <1>8, <1>9, <1>10, <1>11, <1>12, <1>13, <1>14
     DEF Next, RequestCallback, OnHttpCalloutDone, Finished

\* The invariant holds throughout.
LEMMA AlwaysIInv == Spec => []IInv
BY InitIInv, NextIInv, PTL DEF Spec

(***************************************************************************)
(* The theorems.                                                           *)
(***************************************************************************)
\* The fields of the handoff keep their types.
THEOREM HandoffTypes == Spec => []TypeOK
<1>1. IInv => TypeOK
  BY DEF IInv
<1> QED BY AlwaysIInv, <1>1, PTL

\* The request callback and OnHttpCalloutDone together flush at most once, on
\* one thread or on two.
THEOREM HandoffFlushesOnce == Spec => []FlushedOnce
<1>1. IInv => FlushedOnce
  BY DEF IInv, Ownership, FlushedOnce
<1> QED BY AlwaysIInv, <1>1, PTL

\* However often Envoy delivers, the user's continuation runs at most once.
THEOREM HandoffContinuesOnce == Spec => []ContinuationOnce
<1>1. IInv => ContinuationOnce
  BY DEF IInv, Holder, ContinuationOnce
<1> QED BY AlwaysIInv, <1>1, PTL

\* A request its continuation answered with SendLocalResponse is never released,
\* neither by the Continue of the callback nor by ContinueRequest.
THEOREM HandoffDenies == Spec => []DenialIsFinal
<1>1. IInv => DenialIsFinal
  BY DEF IInv, TypeOK, Ownership, Ledger, DenialIsFinal
<1> QED BY AlwaysIInv, <1>1, PTL

\* With deliveries on Envoy's worker thread, ContinueRequest is only called after
\* the request callback has returned Stop.
THEOREM HandoffResumesStopped ==
  ASSUME SameThread PROVE Spec => []ResumeFindsStopped
<1>1. IInv => ResumeFindsStopped
  BY SameThread DEF IInv, Nested, ResumeFindsStopped
<1> QED BY AlwaysIInv, <1>1, PTL

\* With deliveries on Envoy's worker thread no ordering loses the resume: once
\* both sides are through on a living stream, the flush has happened.
THEOREM HandoffCompletes ==
  ASSUME SameThread PROVE Spec => []HandoffComplete
<1>1. IInv => HandoffComplete
  <2> SUFFICES ASSUME IInv, worker = "returned", ~streamDone,
                      NEW d \in Deliveries, cb[d] = "over"
               PROVE  inline + late = 1
    BY DEF HandoffComplete
  <2>1. ~calloutFn /\ \A e \in Deliveries : ~Busy(e)
    BY SameThread DEF IInv, Nested
  <2>2. calloutState # "Paused" /\ \A e \in Deliveries : cb[e] # "resume"
    BY SameThread, <2>1 DEF IInv, Nested, Busy
  <2> QED
    BY SameThread, <2>2 DEF IInv, Nested
<1> QED BY AlwaysIInv, <1>1, PTL

\* With deliveries on Envoy's worker thread a completed stream is not flushed.
THEOREM HandoffSparesDeadStream ==
  ASSUME SameThread PROVE Spec => NoFlushAfterStreamDone
<1>1. IInv /\ [Next]_vars => [streamDone => UNCHANGED <<inline, late>>]_vars
  <2> SUFFICES ASSUME IInv, Next, streamDone PROVE UNCHANGED <<inline, late>>
    BY DEF vars, flushes
  <2>1. worker = "returned" /\ \A d \in Deliveries : ~Busy(d)
    BY SameThread DEF IInv, Nested
  <2>2. CASE RequestCallback
    BY <2>1, <2>2 DEF RequestCallback, HTTPCallout, CalloutAccepted,
       CalloutRefused, PausePendingCallout, ReturnStop, FlushCompletedCallout,
       FlushInline
  <2>3. ASSUME NEW d \in Deliveries, OnHttpCalloutDone(d)
        PROVE  UNCHANGED <<inline, late>>
    BY <2>1, <2>3, Zenon DEF Busy, OnHttpCalloutDone, CalloutDoneEnter,
       RunContinuation, CASPausedFlushed, FlushAndContinue, CASActiveDone,
       flushes
  <2> QED
    BY <2>2, <2>3, Zenon DEF Next, OnStreamComplete, Finished, vars, flushes
<1> QED BY AlwaysIInv, <1>1, PTL DEF Spec, NoFlushAfterStreamDone

-----------------------------------------------------------------------------
Unsettled == {i \in Callouts : responses[i] = Pending}

AllSlots ==
    kind = "all" =>
      /\ ~stepping
      /\ responses = outcome
      /\ \A i \in Callouts : responses[i] = Pending <=> (i \in inflight \/ i > started)
      /\ remaining = Cardinality(Unsettled)
      /\ finished <=> remaining = 0

SequenceSlots ==
    kind = "sequence" =>
      /\ Len(responses) <= started
      /\ \A i \in 1 .. Len(responses) : responses[i] = outcome[i] /\ outcome[i] # Pending
      /\ \/ inflight = {} /\ Len(responses) = started
         \/ inflight = {started} /\ Len(responses) + 1 = started /\ ~stepping /\ ~finished

\* Only callouts that were started are in flight.
InFlight == \A i \in inflight : i <= started

\* The final callback has run at most once, with the slots as they still are.
Given ==
    /\ given = <<>> \/ (finished /\ given = <<responses>>)
    /\ ~finished => given = <<>>

\* The handoff: the request callback and the final callback agree on who flushes.
Handoff ==
    /\ groupState # "Flushed" => flushed = "no"
    /\ callback = "stopped" => groupState \in {"Paused", "Flushed"}
    /\ callback = "running" => groupState \in {"Active", "Done"}
    /\ callback = "returned" => groupState = "Flushed"
    /\ groupState = "Done" => callback = "running" /\ finished /\ ~groupDone
    /\ groupState = "Flushed" => finished

Inv == GroupTypeOK /\ AllSlots /\ SequenceSlots /\ InFlight /\ Given /\ Handoff

\* A function on 1 .. N is a sequence of length N.
LEMMA SlotsAreSeq ==
    ASSUME NEW f \in [Callouts -> Outcomes]
    PROVE  f \in Seq(Outcomes) /\ Len(f) = N /\ DOMAIN f = Callouts
BY GroupAssumption DEF Callouts

\* Callouts is finite, and so is every set of its members.
LEMMA CalloutsFinite ==
    /\ IsFiniteSet(Callouts) /\ Cardinality(Callouts) = N
    /\ \A S \in SUBSET Callouts : IsFiniteSet(S) /\ Cardinality(S) \in 0 .. N
<1>1. IsFiniteSet(Callouts) /\ Cardinality(Callouts) = N
  BY GroupAssumption, FS_Interval DEF Callouts
<1>2. ASSUME NEW S \in SUBSET Callouts
      PROVE  IsFiniteSet(S) /\ Cardinality(S) \in 0 .. N
  <2>1. IsFiniteSet(S) /\ Cardinality(S) <= Cardinality(Callouts)
    BY <1>1, FS_Subset
  <2>2. Cardinality(S) \in Nat
    BY <2>1, FS_CardinalityType
  <2> QED
    BY <1>1, <2>1, <2>2, GroupAssumption
<1> QED
  BY <1>1, <1>2

\* The group starts with every slot unsettled.
LEMMA InitInv == GroupInit => Inv
<1> SUFFICES ASSUME GroupInit PROVE Inv
  OBVIOUS
<1> DEFINE none == [i \in Callouts |-> Pending]
<1>1. none \in [Callouts -> Outcomes]
  BY DEF Outcomes
<1>2. none \in Seq(Outcomes)
  BY <1>1, SlotsAreSeq
<1>3. responses \in Seq(Outcomes) /\ given \in Seq(Seq(Outcomes))
  BY <1>2 DEF GroupInit
<1>4. stepping \in BOOLEAN
  BY Zenon DEF GroupInit
<1>5. GroupTypeOK
  <2>1. outcome \in [Callouts -> Outcomes] /\ inflight \subseteq Callouts
    BY <1>1 DEF GroupInit
  <2>2. started \in 0 .. N /\ remaining \in 0 .. N
    BY GroupAssumption DEF GroupInit
  <2> QED
    BY <1>3, <1>4, <2>1, <2>2, Zenon DEF GroupInit, GroupTypeOK
<1>6. AllSlots
  <2> SUFFICES ASSUME kind = "all" PROVE AllSlots
    BY DEF AllSlots
  <2>1. responses = none /\ outcome = none /\ ~stepping /\ inflight = {} /\ started = 0
    BY Zenon DEF GroupInit
  <2>2. Unsettled = Callouts
    BY <2>1 DEF Unsettled
  <2>3. Cardinality(Unsettled) = N
    BY <2>2, CalloutsFinite
  <2>4. \A i \in Callouts : i > 0
    BY DEF Callouts
  <2> QED
    BY <2>1, <2>3, <2>4, GroupAssumption DEF AllSlots, GroupInit
<1>7. SequenceSlots /\ InFlight /\ Given /\ Handoff
  BY DEF GroupInit, SequenceSlots, InFlight, Given, Handoff
<1> QED
  BY <1>5, <1>6, <1>7 DEF Inv

\* The final callback is the first one, and hands over as the protocol says.
LEMMA FinalKeeps ==
    ASSUME Inv, ~finished, finished', NEW ends \in BOOLEAN, FinalCallback(ends),
           responses' \in Seq(Outcomes), callback' = callback
    PROVE  /\ Given' /\ Handoff'
           /\ given' \in Seq(Seq(Outcomes)) /\ groupDone' \in BOOLEAN
           /\ groupState' \in {"Active", "Paused", "Done", "Flushed"}
           /\ flushed' \in {"no", "inline", "resume"}
<1>1. given = <<>> /\ groupState \in {"Active", "Paused"} /\ flushed = "no"
  BY DEF Inv, GroupTypeOK, Given, Handoff
<1>2. CASE groupDone
  <2>1. UNCHANGED <<given, groupDone, groupState, flushed>>
    BY <1>2 DEF FinalCallback
  <2> QED
    BY <1>1, <2>1 DEF Inv, GroupTypeOK, Given, Handoff
<1>3. CASE ~groupDone
  <2>1. given' = Append(given, responses') /\ groupDone' = ends
    BY <1>3 DEF FinalCallback
  <2>2. given' = <<responses'>>
    BY <1>1, <2>1
  <2>3. given' \in Seq(Seq(Outcomes)) /\ Given'
    BY <2>2 DEF Given
  <2>4. CASE ends
    <3>1. groupState' = groupState /\ flushed' = flushed
      BY <1>3, <2>4 DEF FinalCallback
    <3> QED
      BY <1>1, <2>1, <2>3, <3>1 DEF Inv, GroupTypeOK, Handoff
  <2>5. CASE ~ends /\ groupState = "Paused"
    <3>1. groupState' = "Flushed" /\ flushed' = "resume" /\ ~groupDone'
      BY <1>3, <2>1, <2>5 DEF FinalCallback
    <3> QED
      BY <1>1, <2>1, <2>3, <2>5, <3>1 DEF Inv, GroupTypeOK, Handoff
  <2>6. CASE ~ends /\ groupState = "Active"
    <3>1. groupState' = "Done" /\ flushed' = flushed /\ ~groupDone'
      BY <1>3, <2>1, <2>6 DEF FinalCallback
    <3>2. callback = "running"
      BY <2>6 DEF Inv, GroupTypeOK, Handoff
    <3> QED
      BY <1>1, <2>1, <2>3, <2>6, <3>1, <3>2 DEF Inv, GroupTypeOK, Handoff
  <2> QED
    BY <1>1, <2>4, <2>5, <2>6
<1> QED
  BY <1>2, <1>3

\* Settling an unsettled slot of an "all" group: the counter keeps counting the
\* unsettled ones, and the last one ends the group.
LEMMA FinishKeeps ==
    ASSUME Inv, kind = "all", NEW i \in Callouts, responses[i] = Pending,
           NEW r \in Outcomes, r # Pending, Finish(i, r), callback' = callback,
           kind' = kind, stepping' = stepping, started' \in 0 .. N,
           inflight' \subseteq Callouts, InFlight',
           \A j \in Callouts : (j \in inflight' \/ j > started')
                                 <=> (j # i /\ (j \in inflight \/ j > started))
    PROVE  Inv'
<1>1. /\ responses = outcome /\ responses \in [Callouts -> Outcomes]
      /\ remaining = Cardinality(Unsettled) /\ (finished <=> remaining = 0)
      /\ ~stepping
  BY DEF Inv, AllSlots, GroupTypeOK
<1>2. i \in Unsettled /\ Unsettled \in SUBSET Callouts
  BY DEF Unsettled
<1>3. IsFiniteSet(Unsettled) /\ remaining \in 0 .. N /\ remaining # 0
  <2>1. IsFiniteSet(Unsettled)
    BY <1>2, CalloutsFinite
  <2>2. Cardinality(Unsettled) # 0
    BY <1>2, <2>1, FS_EmptySet
  <2> QED
    BY <1>1, <2>1, <2>2 DEF Inv, GroupTypeOK
<1>4. ~finished
  BY <1>1, <1>3
<1>5. /\ outcome' = [outcome EXCEPT ![i] = r] /\ responses' = [responses EXCEPT ![i] = r]
      /\ remaining' = remaining - 1
  BY <1>4 DEF Finish
<1>6. /\ outcome' \in [Callouts -> Outcomes] /\ responses' = outcome'
      /\ responses' \in Seq(Outcomes)
  <2>1. outcome' \in [Callouts -> Outcomes] /\ responses' = outcome'
    BY <1>1, <1>5 DEF Inv, GroupTypeOK
  <2> QED
    BY <2>1, SlotsAreSeq
<1>7. Unsettled' = Unsettled \ {i}
  BY <1>1, <1>5 DEF Unsettled
<1>8. Cardinality(Unsettled') = remaining'
  BY <1>1, <1>2, <1>3, <1>5, <1>7, FS_RemoveElement, Zenon
<1>9. remaining' \in 0 .. N /\ (LastToSettle(i) <=> remaining' = 0)
  BY <1>3, <1>5, GroupAssumption DEF LastToSettle
<1>10. \A j \in Callouts : responses'[j] = Pending <=> (j \in inflight' \/ j > started')
  <2> SUFFICES ASSUME NEW j \in Callouts
               PROVE  responses'[j] = Pending <=> (j \in inflight' \/ j > started')
    OBVIOUS
  <2>1. responses'[j] = Pending <=> (j # i /\ responses[j] = Pending)
    BY <1>1, <1>5
  <2>2. responses[j] = Pending <=> (j \in inflight \/ j > started)
    BY DEF Inv, AllSlots
  <2> QED
    BY <2>1, <2>2
<1>11. CASE LastToSettle(i)
  <2>1. finished' = TRUE
    BY <1>4, <1>11 DEF Finish
  <2>2. PICK ends \in BOOLEAN : FinalCallback(ends)
    BY <1>4, <1>11 DEF Finish
  <2>3. /\ Given' /\ Handoff'
        /\ given' \in Seq(Seq(Outcomes)) /\ groupDone' \in BOOLEAN
        /\ groupState' \in {"Active", "Paused", "Done", "Flushed"}
        /\ flushed' \in {"no", "inline", "resume"}
    BY <1>4, <1>6, <2>1, <2>2, FinalKeeps
  <2>4. AllSlots'
    BY <1>1, <1>6, <1>8, <1>9, <1>10, <1>11, <2>1 DEF AllSlots
  <2>5. GroupTypeOK'
    BY <1>6, <1>9, <2>1, <2>3 DEF Inv, GroupTypeOK
  <2> QED
    BY <2>3, <2>4, <2>5 DEF Inv, SequenceSlots
<1>12. CASE ~LastToSettle(i)
  <2>1. UNCHANGED <<finished, given, groupDone, groupState, flushed>>
    BY <1>4, <1>12 DEF Finish
  <2>2. AllSlots'
    BY <1>1, <1>4, <1>6, <1>8, <1>9, <1>10, <1>12, <2>1 DEF AllSlots
  <2>3. Given' /\ Handoff'
    BY <1>4, <2>1 DEF Inv, Given, Handoff
  <2>4. GroupTypeOK'
    BY <1>6, <1>9, <2>1 DEF Inv, GroupTypeOK
  <2> QED
    BY <2>2, <2>3, <2>4 DEF Inv, SequenceSlots
<1> QED
  BY <1>11, <1>12

\* One round of HTTPCalloutAllSettled's loop.
LEMMA StartKeeps == Inv /\ StartNext => Inv'
<1> SUFFICES ASSUME Inv, StartNext PROVE Inv'
  OBVIOUS
<1> DEFINE i == started + 1
<1>1. /\ kind = "all" /\ kind' = kind /\ stepping' = stepping /\ callback' = callback
      /\ started' = i /\ started < N
  BY DEF StartNext
<1>2. i \in Callouts /\ started' \in 0 .. N /\ started \in Nat
  BY <1>1, GroupAssumption DEF Inv, GroupTypeOK, Callouts
<1>3. responses[i] = Pending
  BY <1>1, <1>2 DEF Inv, AllSlots
<1>4. i \notin inflight
  BY <1>2 DEF Inv, InFlight, GroupTypeOK, Callouts
<1>5. CASE /\ inflight' = inflight \cup {i}
           /\ UNCHANGED <<responses, remaining, finished, outcome, given, groupDone,
                          groupState, flushed>>
  <2>1. \A j \in Callouts : (j \in inflight' \/ j > started') <=> (j \in inflight \/ j > started)
    BY <1>1, <1>2, <1>5 DEF Callouts
  <2>2. Unsettled' = Unsettled
    BY <1>5 DEF Unsettled
  <2>3. AllSlots'
    BY <1>1, <1>5, <2>1, <2>2 DEF Inv, AllSlots
  <2>4. GroupTypeOK'
    BY <1>1, <1>2, <1>5 DEF Inv, GroupTypeOK
  <2>5. Given' /\ Handoff' /\ SequenceSlots'
    BY <1>1, <1>5 DEF Inv, Given, Handoff, SequenceSlots
  <2>6. InFlight'
    BY <1>1, <1>2, <1>5 DEF Inv, InFlight, GroupTypeOK, Callouts
  <2> QED
    BY <2>3, <2>4, <2>5, <2>6 DEF Inv
<1>6. CASE inflight' = inflight /\ \E r \in Answers \cup {"refused"} : Finish(i, r)
  <2>1. PICK r \in Answers \cup {"refused"} : Finish(i, r)
    BY <1>6
  <2>2. r \in Outcomes /\ r # Pending
    BY DEF Answers, Outcomes, Pending
  <2>3. inflight' \subseteq Callouts /\ InFlight'
    BY <1>1, <1>2, <1>6 DEF Inv, InFlight, GroupTypeOK, Callouts
  <2>4. \A j \in Callouts : (j \in inflight' \/ j > started')
                              <=> (j # i /\ (j \in inflight \/ j > started))
    BY <1>1, <1>2, <1>4, <1>6 DEF Inv, GroupTypeOK, Callouts
  <2> HIDE DEF i
  <2> QED
    BY <1>1, <1>2, <1>3, <1>6, <2>1, <2>2, <2>3, <2>4, FinishKeeps
<1> QED
  BY <1>5, <1>6 DEF StartNext

\* What calloutSequence.step and an answer append keeps the slots in order.
LEMMA AppendKeeps ==
    ASSUME Inv, kind = "sequence", ~finished, NEW i \in Callouts, NEW r \in Outcomes,
           r # Pending, SettleStep(i, r), Len(responses) + 1 = i, started' = i,
           inflight' = {},
           UNCHANGED <<kind, remaining, finished, given, groupDone, groupState, flushed, callback>>
    PROVE  Inv'
<1>1. /\ outcome' = [outcome EXCEPT ![i] = r] /\ responses' = Append(responses, r)
      /\ stepping' = TRUE
  BY DEF SettleStep
<1>2. outcome \in [Callouts -> Outcomes] /\ responses \in Seq(Outcomes) /\ i \in 1 .. N
  BY DEF Inv, GroupTypeOK, Callouts
<1>3. /\ responses' \in Seq(Outcomes) /\ Len(responses') = i
      /\ \A j \in 1 .. Len(responses) : responses'[j] = responses[j]
      /\ responses'[i] = r
  BY <1>1, <1>2
<1>4. outcome' \in [Callouts -> Outcomes] /\ outcome'[i] = r
      /\ \A j \in Callouts : j # i => outcome'[j] = outcome[j]
  BY <1>1, <1>2 DEF Callouts
<1>5. ASSUME NEW j \in 1 .. Len(responses')
      PROVE  responses'[j] = outcome'[j] /\ outcome'[j] # Pending
  <2>1. CASE j = i
    BY <1>3, <1>4, <2>1
  <2>2. CASE j # i
    <3>0. Len(responses) \in Nat /\ j \in 1 .. i
      BY <1>2, <1>3
    <3>1. j \in 1 .. Len(responses) /\ j \in Callouts
      BY <1>2, <2>2, <3>0, GroupAssumption, SMTT(20) DEF Callouts
    <3>2. responses[j] = outcome[j] /\ outcome[j] # Pending
      BY <3>1, Zenon DEF Inv, SequenceSlots
    <3> QED
      BY <1>3, <1>4, <2>2, <3>1, <3>2
  <2> QED
    BY <2>1, <2>2
<1>6. SequenceSlots'
  BY <1>2, <1>3, <1>5 DEF SequenceSlots
<1>7. GroupTypeOK'
  <2>1. stepping' \in BOOLEAN
    BY <1>1, Zenon
  <2> QED
    BY <1>2, <1>3, <1>4, <2>1, GroupAssumption DEF Inv, GroupTypeOK, Callouts
<1>8. InFlight' /\ AllSlots' /\ Given' /\ Handoff'
  BY DEF Inv, InFlight, AllSlots, Given, Handoff
<1> QED
  BY <1>6, <1>7, <1>8 DEF Inv

\* calloutSequence.step.
LEMMA StepKeeps == Inv /\ Step => Inv'
<1> SUFFICES ASSUME Inv, Step PROVE Inv'
  OBVIOUS
<1> DEFINE i == started + 1
<1>1. /\ kind = "sequence" /\ stepping
      /\ kind' = kind /\ remaining' = remaining /\ callback' = callback
  BY DEF Step
<1>2. inflight = {} /\ Len(responses) = started
  BY <1>1 DEF Inv, SequenceSlots
<1>3. CASE /\ stepping' = FALSE
           /\ UNCHANGED <<started, inflight, responses, finished, outcome, given,
                          groupDone, groupState, flushed>>
  <2>1. stepping' \in BOOLEAN
    BY <1>3, Zenon
  <2>2. GroupTypeOK'
    BY <1>1, <1>3, <2>1 DEF Inv, GroupTypeOK
  <2>3. SequenceSlots' /\ AllSlots'
    BY <1>1, <1>2, <1>3 DEF Inv, SequenceSlots, AllSlots
  <2>4. InFlight' /\ Given' /\ Handoff'
    BY <1>1, <1>3 DEF Inv, InFlight, Given, Handoff
  <2> QED
    BY <2>2, <2>3, <2>4 DEF Inv
<1>4. CASE /\ ~finished /\ ~groupDone /\ started < N /\ StepAccepted
           /\ UNCHANGED <<finished, given, groupDone, groupState, flushed>>
  <2>1. /\ started' = i /\ inflight' = inflight \cup {i} /\ stepping' = FALSE
        /\ responses' = responses /\ outcome' = outcome
    BY <1>4 DEF StepAccepted
  <2>2. i \in Callouts /\ started' \in 0 .. N
    BY <1>4, <2>1, GroupAssumption DEF Inv, GroupTypeOK, Callouts
  <2>3. inflight' = {i}
    BY <1>2, <2>1
  <2>4. stepping' \in BOOLEAN
    BY <2>1, Zenon
  <2>5. GroupTypeOK'
    BY <1>1, <1>4, <2>1, <2>2, <2>3, <2>4 DEF Inv, GroupTypeOK
  <2>6. SequenceSlots' /\ AllSlots'
    BY <1>1, <1>2, <1>4, <2>1, <2>2, <2>3 DEF Inv, SequenceSlots, AllSlots, Callouts
  <2>7. InFlight'
    BY <2>1, <2>2, <2>3 DEF InFlight, Callouts
  <2>8. Given' /\ Handoff'
    BY <1>1, <1>4, <2>1 DEF Inv, Given, Handoff
  <2> QED
    BY <2>5, <2>6, <2>7, <2>8 DEF Inv
<1>5. CASE /\ ~finished /\ ~groupDone /\ started < N
           /\ started' = started + 1
           /\ \E r \in Answers \cup {"refused"} : SettleStep(started + 1, r)
           /\ UNCHANGED inflight
           /\ UNCHANGED <<finished, given, groupDone, groupState, flushed>>
  <2>1. PICK r \in Answers \cup {"refused"} : SettleStep(i, r)
    BY <1>5
  <2>2. r \in Outcomes /\ r # Pending
    BY DEF Answers, Outcomes, Pending
  <2>3. i \in Callouts /\ Len(responses) + 1 = i /\ started' = i /\ inflight' = {}
    BY <1>2, <1>5, GroupAssumption DEF Inv, GroupTypeOK, Callouts
  <2> HIDE DEF i
  <2> QED
    BY <1>1, <1>5, <2>1, <2>2, <2>3, AppendKeeps
<1>6. CASE /\ ~finished /\ ~groupDone
           /\ finished' = TRUE /\ stepping' = FALSE
           /\ UNCHANGED <<started, inflight, responses, outcome>>
           /\ \E ends \in BOOLEAN : FinalCallback(ends)
  <2>1. PICK ends \in BOOLEAN : FinalCallback(ends)
    BY <1>6
  <2>2. responses' \in Seq(Outcomes)
    BY <1>6 DEF Inv, GroupTypeOK
  <2>3. /\ Given' /\ Handoff'
        /\ given' \in Seq(Seq(Outcomes)) /\ groupDone' \in BOOLEAN
        /\ groupState' \in {"Active", "Paused", "Done", "Flushed"}
        /\ flushed' \in {"no", "inline", "resume"}
    BY <1>1, <1>6, <2>1, <2>2, FinalKeeps
  <2>4. stepping' \in BOOLEAN /\ finished' \in BOOLEAN
    BY <1>6, Zenon
  <2>5. GroupTypeOK'
    BY <1>1, <1>6, <2>3, <2>4 DEF Inv, GroupTypeOK
  <2>6. SequenceSlots' /\ AllSlots' /\ InFlight'
    BY <1>1, <1>2, <1>6 DEF Inv, SequenceSlots, AllSlots, InFlight
  <2> QED
    BY <2>3, <2>5, <2>6 DEF Inv
<1> QED
  BY <1>3, <1>4, <1>5, <1>6, Zenon DEF Step

\* The way out of the request callback.
LEMMA ReturnKeeps == Inv /\ CallbackReturns => Inv'
<1> SUFFICES ASSUME Inv, CallbackReturns PROVE Inv'
  OBVIOUS
<1>1. /\ UNCHANGED <<kind, started, inflight, responses, remaining, finished, stepping,
                     outcome, given, groupDone>>
      /\ callback = "running"
  BY DEF CallbackReturns, group
<1>2. \/ /\ groupState = "Active" /\ groupState' = "Paused"
         /\ callback' = "stopped" /\ flushed' = flushed
      \/ /\ groupState = "Done" /\ groupState' = "Flushed"
         /\ callback' = "returned" /\ flushed' = "inline"
  BY DEF CallbackReturns
<1>3. GroupTypeOK'
  BY <1>1, <1>2 DEF Inv, GroupTypeOK
<1>4. Handoff'
  BY <1>1, <1>2 DEF Inv, Handoff
<1>5. AllSlots' /\ SequenceSlots' /\ InFlight' /\ Given'
  BY <1>1 DEF Inv, AllSlots, Unsettled, SequenceSlots, InFlight, Given
<1> QED
  BY <1>3, <1>4, <1>5 DEF Inv

\* An answer Envoy delivers.
LEMMA DeliverKeeps == ASSUME NEW i \in Callouts, Inv, OnGroupCalloutDone(i) PROVE Inv'
<1>1. /\ i \in inflight /\ inflight' = inflight \ {i}
      /\ kind' = kind /\ started' = started /\ callback' = callback
  BY DEF OnGroupCalloutDone
<1>2. PICK r \in Answers :
         \/ /\ kind = "all" /\ Finish(i, r)
            /\ UNCHANGED stepping
         \/ /\ kind = "sequence" /\ SettleStep(i, r)
            /\ UNCHANGED <<remaining, finished, given, groupDone, groupState, flushed>>
  BY DEF OnGroupCalloutDone
<1>3. r \in Outcomes /\ r # Pending
  BY DEF Answers, Outcomes, Pending
<1>4. CASE kind = "all"
  <2>1. Finish(i, r) /\ stepping' = stepping
    BY <1>2, <1>4
  <2>2. responses[i] = Pending
    BY <1>1, <1>4 DEF Inv, AllSlots
  <2>3. started' \in 0 .. N /\ inflight' \subseteq Callouts /\ InFlight'
    BY <1>1 DEF Inv, GroupTypeOK, InFlight
  <2>4. \A j \in Callouts : (j \in inflight' \/ j > started')
                              <=> (j # i /\ (j \in inflight \/ j > started))
    BY <1>1 DEF Inv, GroupTypeOK, InFlight, Callouts
  <2> QED
    BY <1>1, <1>3, <1>4, <2>1, <2>2, <2>3, <2>4, FinishKeeps
<1>5. CASE kind = "sequence"
  <2>1. /\ SettleStep(i, r)
        /\ UNCHANGED <<remaining, finished, given, groupDone, groupState, flushed>>
    BY <1>2, <1>5
  <2>2. inflight = {started} /\ Len(responses) + 1 = started /\ ~finished
    BY <1>1, <1>5 DEF Inv, SequenceSlots
  <2>3. i = started /\ inflight' = {}
    BY <1>1, <2>2
  <2> QED
    BY <1>1, <1>3, <1>5, <2>1, <2>2, <2>3, AppendKeeps
<1> QED
  BY <1>2, <1>4, <1>5

\* Every step of the group keeps the invariant.
LEMMA NextInv == Inv /\ [GroupNext]_groupVars => Inv'
<1> SUFFICES ASSUME Inv, [GroupNext]_groupVars PROVE Inv'
  OBVIOUS
<1>1. CASE Worker
  BY <1>1, StartKeeps, StepKeeps, ReturnKeeps DEF Worker
<1>2. CASE Deliver
  BY <1>2, DeliverKeeps DEF Deliver
<1>3. CASE GroupStreamComplete
  <2>1. /\ UNCHANGED <<kind, started, inflight, responses, remaining, finished, stepping,
                       outcome, given, groupState, callback, flushed>>
        /\ groupDone' = TRUE /\ callback # "running"
    BY <1>3 DEF GroupStreamComplete, group, GroupBusy
  <2>2. groupDone' \in BOOLEAN
    BY <2>1, Zenon
  <2>3. GroupTypeOK'
    BY <2>1, <2>2 DEF Inv, GroupTypeOK
  <2>4. AllSlots' /\ SequenceSlots' /\ InFlight' /\ Given' /\ Handoff'
    BY <2>1 DEF Inv, AllSlots, Unsettled, SequenceSlots, InFlight, Given, Handoff
  <2> QED
    BY <2>3, <2>4 DEF Inv
<1>4. CASE UNCHANGED groupVars
  BY <1>4 DEF groupVars, group, Inv, GroupTypeOK, AllSlots, Unsettled, SequenceSlots, InFlight, Given, Handoff
<1> QED
  BY <1>1, <1>2, <1>3, <1>4 DEF GroupNext, Over

\* The invariant holds in every reachable state.
LEMMA Invariance == GroupSafety => []Inv
BY InitInv, NextInv, PTL DEF GroupSafety

\* allSettledBatch and calloutSequence keep their types: remaining never goes
\* below zero.
THEOREM GroupTypes == GroupSafety => []GroupTypeOK
<1>1. Inv => GroupTypeOK
  BY DEF Inv
<1> QED
  BY <1>1, Invariance, PTL

\* However many callouts there are and in whatever order their answers come, the
\* final callback runs at most once and slot i holds the outcome of callout i.
THEOREM GroupSettlesOnce == GroupSafety => []SettledOnce
<1>1. Inv => SettledOnce
  <2> SUFFICES ASSUME Inv, given # <<>> PROVE SettledOnce
    BY DEF SettledOnce, Inv
  <2>1. finished /\ given = <<responses>> /\ responses \in Seq(Outcomes)
    BY DEF Inv, Given, GroupTypeOK
  <2>2. Len(given) = 1 /\ given[1] = responses
    BY <2>1
  <2>3. CASE kind = "all"
    <3>1. responses = outcome /\ outcome \in [Callouts -> Outcomes]
      BY <2>3 DEF Inv, AllSlots, GroupTypeOK
    <3>2. Len(responses) = N
      BY <3>1, SlotsAreSeq
    <3>3. Unsettled = {}
      <4>1. Cardinality(Unsettled) = 0 /\ IsFiniteSet(Unsettled)
        BY <2>1, <2>3, CalloutsFinite DEF Inv, AllSlots, Unsettled
      <4> QED
        BY <4>1, FS_EmptySet
    <3>4. \A i \in 1 .. N : outcome[i] # Pending
      BY <3>1, <3>3 DEF Unsettled, Callouts
    <3> QED
      BY <2>2, <2>3, <3>1, <3>2, <3>4 DEF SettledOnce
  <2>4. CASE kind = "sequence"
    <3>1. Len(responses) = started
      BY <2>1, <2>4 DEF Inv, SequenceSlots
    <3>2. \A i \in 1 .. started : responses[i] = outcome[i] /\ outcome[i] # Pending
      BY <2>4, <3>1 DEF Inv, SequenceSlots
    <3> QED
      BY <2>2, <2>4, <3>1, <3>2 DEF SettledOnce
  <2> QED
    BY <2>3, <2>4, GroupAssumption DEF Inv, GroupTypeOK
<1> QED
  BY <1>1, Invariance, PTL

\* A sequence has one callout in flight at a time and none after its end.
THEOREM SequenceOneAtATime == GroupSafety => []OneAtATime
<1>1. Inv => OneAtATime
  <2> SUFFICES ASSUME Inv, kind = "sequence" PROVE OneAtATime
    BY DEF OneAtATime
  <2>1. Cardinality({}) = 0 /\ Cardinality({started}) = 1
    BY FS_EmptySet, FS_Singleton
  <2>2. inflight = {} \/ (inflight = {started} /\ ~finished)
    BY DEF Inv, SequenceSlots
  <2> QED
    BY <2>1, <2>2 DEF OneAtATime
<1> QED
  BY <1>1, Invariance, PTL

\* flush runs at most once, on a live stream, and resumes only a stopped request.
THEOREM GroupFlushesOnceAlive == GroupSafety => FlushesOnceAlive
<1>1. ASSUME Inv, GroupNext, flushed' # flushed
      PROVE  flushed = "no" /\ ~groupDone' /\ (flushed' = "resume" => callback = "stopped")
  <2>1. ASSUME NEW ends \in BOOLEAN, FinalCallback(ends)
        PROVE  flushed = "no" /\ ~groupDone' /\ callback = "stopped"
    BY <1>1, <2>1 DEF FinalCallback, Inv, GroupTypeOK, Handoff
  <2>2. ASSUME NEW i, NEW r, Finish(i, r)
        PROVE  flushed = "no" /\ ~groupDone' /\ callback = "stopped"
    BY <1>1, <2>1, <2>2 DEF Finish
  <2>3. CASE StartNext
    BY <1>1, <2>2, <2>3 DEF StartNext
  <2>4. CASE Step
    BY <1>1, <2>1, <2>4 DEF Step
  <2>5. CASE CallbackReturns
    BY <1>1, <2>5 DEF CallbackReturns, Inv, GroupTypeOK, Handoff
  <2>6. CASE Deliver
    BY <1>1, <2>2, <2>6 DEF Deliver, OnGroupCalloutDone
  <2>7. CASE GroupStreamComplete \/ Over
    BY <1>1, <2>7 DEF GroupStreamComplete, Over, groupVars
  <2> QED
    BY <1>1, <2>3, <2>4, <2>5, <2>6, <2>7 DEF GroupNext, Worker
<1>2. Inv /\ [GroupNext]_groupVars =>
        [flushed' # flushed => /\ flushed = "no" /\ ~groupDone'
                               /\ (flushed' = "resume" => callback = "stopped")]_groupVars
  BY <1>1
<1> QED
  BY <1>2, Invariance, PTL DEF GroupSafety, FlushesOnceAlive
=============================================================================

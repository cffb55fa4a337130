--------------------------- MODULE CalloutHandoff ---------------------------
(***************************************************************************)
(* One HTTPCallout at the grain of its atomic operations: the request      *)
(* callback that starts it (Writer.HTTPCallout, then pausePendingCallout   *)
(* or flushCompletedCallout and flush) against the deliveries of           *)
(* OnHttpCalloutDone, and OnStreamComplete.                                *)
(*                                                                         *)
(* up/writer.go says Envoy may run the callback before the request         *)
(* callback returns.  SameThread = TRUE is Envoy's worker thread: a        *)
(* delivery runs to its end, either nested in handle.HttpCallout or        *)
(* between two callbacks.  SameThread = FALSE is a delivery on a thread of *)
(* its own, which docs/async-http-callouts.md also allows and the tests    *)
(* use ("go cb.OnHttpCalloutDone(...)").                                   *)
(***************************************************************************)
EXTENDS Naturals, FiniteSets

CONSTANTS
  Deliveries,  \* the deliveries of OnHttpCalloutDone Envoy may make, one at a
               \* time; a second one is the "spurious duplicate" of the comment
  SameThread   \* deliveries run on the worker thread

ASSUME HandoffAssumption ==
  /\ IsFiniteSet(Deliveries)
  /\ SameThread \in BOOLEAN

VARIABLES
  calloutState,   \* filter.calloutState
  calloutFn,      \* filter.calloutFn is set
  calloutStarted, \* Writer.calloutStarted
  streamDone,     \* filter.streamDone
  localReply,     \* filter.localReply is set: the continuation denied
  worker,         \* program counter of the request callback
  cb,             \* program counter of each delivery
  status,         \* what the request callback returned to Envoy
  fnRuns,         \* times the user's continuation ran
  inline,         \* times the request callback called flush(false)
  late,           \* times a delivery called flush(true)
  continues,      \* times flush(true) called ContinueRequest
  replied         \* times flush called SendLocalResponse

handoff == <<calloutState, calloutFn, calloutStarted>>
pcs == <<worker, cb>>
flushes == <<inline, late, continues, replied, localReply>>
vars == <<handoff, streamDone, pcs, status, fnRuns, flushes>>

CalloutStates == {"Active", "Paused", "Done", "Flushed"}
WorkerPCs == {"handler", "calling", "pause", "stopping", "complete", "flush",
              "returned"}
CallbackPCs == {"idle", "run", "casPaused", "resume", "casActive", "over"}

(***************************************************************************)
(* Scheduling.  A delivery that has begun and is not over occupies the     *)
(* worker thread when deliveries run there.                                *)
(***************************************************************************)
Busy(d) == cb[d] \notin {"idle", "over"}

WorkerMayStep == SameThread => \A d \in Deliveries : ~Busy(d)

CallbackMayStep(d) ==
  /\ \A o \in Deliveries \ {d} : ~Busy(o)
  /\ SameThread => worker \in {"calling", "returned"}

Init ==
  /\ calloutState = "Active"
  /\ calloutFn = FALSE
  /\ calloutStarted = FALSE
  /\ streamDone = FALSE
  /\ worker = "handler"
  /\ cb = [d \in Deliveries |-> "idle"]
  /\ status = "none"
  /\ fnRuns = 0
  /\ localReply = FALSE
  /\ inline = 0 /\ late = 0 /\ continues = 0 /\ replied = 0

(***************************************************************************)
(* flush(continueReq): a queued local reply is sent instead of everything  *)
(* else; otherwise the queues are applied and, if asked, the request       *)
(* continues.                                                              *)
(***************************************************************************)
Flush(continueReq) ==
  /\ replied' = IF localReply THEN replied + 1 ELSE replied
  /\ continues' = IF continueReq /\ ~localReply THEN continues + 1 ELSE continues
  /\ localReply' = FALSE

(***************************************************************************)
(* The request callback.                                                   *)
(***************************************************************************)
\* HTTPCallout up to the call of handle.HttpCallout: calloutFn, calloutStarted
\* and calloutState are set before Envoy can call back.
HTTPCallout ==
  /\ worker = "handler"
  /\ calloutFn' = TRUE
  /\ calloutStarted' = TRUE
  /\ calloutState' = "Active"
  /\ worker' = "calling"
  /\ UNCHANGED <<cb, streamDone, status, fnRuns, flushes>>

\* handle.HttpCallout returns HTTPCalloutInitSuccess.
CalloutAccepted ==
  /\ worker = "calling" /\ WorkerMayStep
  /\ worker' = "pause"
  /\ UNCHANGED <<cb, handoff, streamDone, status, fnRuns, flushes>>

\* handle.HttpCallout fails: Envoy makes no delivery, and HTTPCallout undoes what
\* it set.
CalloutRefused ==
  /\ worker = "calling"
  /\ \A d \in Deliveries : cb[d] = "idle"
  /\ calloutFn' = FALSE
  /\ calloutStarted' = FALSE
  /\ calloutState' = "Active"
  /\ worker' = "pause"
  /\ UNCHANGED <<cb, streamDone, status, fnRuns, flushes>>

\* pausePendingCallout: CAS Active -> Paused.
PausePendingCallout ==
  /\ worker = "pause" /\ WorkerMayStep
  /\ IF calloutStarted /\ calloutState = "Active"
       THEN /\ calloutState' = "Paused"
            /\ worker' = "stopping"
       ELSE /\ calloutState' = calloutState
            /\ worker' = "complete"
  /\ UNCHANGED <<cb, calloutFn, calloutStarted, streamDone, status, fnRuns,
                 flushes>>

\* The request callback returns Stop.
ReturnStop ==
  /\ worker = "stopping" /\ WorkerMayStep
  /\ status' = "Stop"
  /\ worker' = "returned"
  /\ UNCHANGED <<cb, handoff, streamDone, fnRuns, flushes>>

\* flushCompletedCallout: CAS Done -> Flushed, its result ignored.
FlushCompletedCallout ==
  /\ worker = "complete" /\ WorkerMayStep
  /\ calloutState' = IF calloutStarted /\ calloutState = "Done"
                       THEN "Flushed" ELSE calloutState
  /\ worker' = "flush"
  /\ UNCHANGED <<cb, calloutFn, calloutStarted, streamDone, status, fnRuns,
                 flushes>>

\* flush(false); Stop when it sent a local reply (f.stopped), else Continue.
FlushInline ==
  /\ worker = "flush" /\ WorkerMayStep
  /\ inline' = inline + 1
  /\ Flush(FALSE)
  /\ status' = IF localReply THEN "Stop" ELSE "Continue"
  /\ worker' = "returned"
  /\ UNCHANGED <<cb, handoff, streamDone, fnRuns, late>>

\* Envoy ends the stream between two callbacks of the worker thread.
OnStreamComplete ==
  /\ worker = "returned" /\ WorkerMayStep
  /\ ~streamDone
  /\ streamDone' = TRUE
  /\ UNCHANGED <<pcs, handoff, status, fnRuns, flushes>>

(***************************************************************************)
(* OnHttpCalloutDone, delivery d.                                          *)
(***************************************************************************)
\* Mutant of EntryGuard: the streamDone test is dropped.
EntryGuardIgnoresStream == calloutFn

\* Go on only when the stream lives and the continuation is still there.
EntryGuard == ~streamDone /\ calloutFn

\* The callout was issued and not refused, so Envoy may deliver.
CalloutDoneEnter(d) ==
  /\ cb[d] = "idle"
  /\ worker # "handler" /\ calloutStarted
  /\ CallbackMayStep(d)
  /\ cb' = [cb EXCEPT ![d] = IF EntryGuard THEN "run" ELSE "over"]
  /\ UNCHANGED <<worker, handoff, streamDone, status, fnRuns, flushes>>

\* f.calloutFn = nil.
CalloutFnTaken == FALSE

\* fn := f.calloutFn; f.calloutFn = nil; fn(result, headers, body), which may
\* call SendLocalResponse.
RunContinuation(d) ==
  /\ cb[d] = "run" /\ CallbackMayStep(d)
  /\ calloutFn' = CalloutFnTaken
  /\ fnRuns' = fnRuns + 1
  /\ localReply' \in BOOLEAN
  /\ cb' = [cb EXCEPT ![d] = "casPaused"]
  /\ UNCHANGED <<worker, calloutState, calloutStarted, streamDone, status,
                 inline, late, continues, replied>>

\* Mutant of WinsResume: the delivery resumes whoever owns the flush.
WinsResumeAlways == TRUE

\* CompareAndSwap(calloutStatePaused, calloutStateFlushed) would succeed.
WinsResume == calloutState = "Paused"

CASPausedFlushed(d) ==
  /\ cb[d] = "casPaused" /\ CallbackMayStep(d)
  /\ calloutState' = IF WinsResume THEN "Flushed" ELSE calloutState
  /\ cb' = [cb EXCEPT ![d] = IF WinsResume THEN "resume" ELSE "casActive"]
  /\ UNCHANGED <<worker, calloutFn, calloutStarted, streamDone, status, fnRuns,
                 flushes>>

\* flush(true).
FlushAndContinue(d) ==
  /\ cb[d] = "resume" /\ CallbackMayStep(d)
  /\ late' = late + 1
  /\ Flush(TRUE)
  /\ cb' = [cb EXCEPT ![d] = "over"]
  /\ UNCHANGED <<worker, handoff, streamDone, status, fnRuns, inline>>

\* Mutant of DoneMark: the early path leaves calloutState alone.
DoneMarkMissing == calloutState

\* CompareAndSwap(calloutStateActive, calloutStateDone), its result ignored.
DoneMark == IF calloutState = "Active" THEN "Done" ELSE calloutState

CASActiveDone(d) ==
  /\ cb[d] = "casActive" /\ CallbackMayStep(d)
  /\ calloutState' = DoneMark
  /\ cb' = [cb EXCEPT ![d] = "over"]
  /\ UNCHANGED <<worker, calloutFn, calloutStarted, streamDone, status, fnRuns,
                 flushes>>

RequestCallback ==
  \/ HTTPCallout \/ CalloutAccepted \/ CalloutRefused \/ PausePendingCallout
  \/ ReturnStop \/ FlushCompletedCallout \/ FlushInline

OnHttpCalloutDone(d) ==
  \/ CalloutDoneEnter(d) \/ RunContinuation(d) \/ CASPausedFlushed(d)
  \/ FlushAndContinue(d) \/ CASActiveDone(d)

\* Nothing is left to happen: the stream is over and every delivery was made.
Finished ==
  /\ streamDone /\ \A d \in Deliveries : cb[d] = "over" \/ ~calloutStarted
  /\ UNCHANGED vars

Next ==
  \/ RequestCallback
  \/ OnStreamComplete
  \/ \E d \in Deliveries : OnHttpCalloutDone(d)
  \/ Finished

Spec == Init /\ [][Next]_vars

\* Envoy's worker and the delivering thread keep running, and Envoy answers every
\* callout it accepted (each has a timeout).  OnStreamComplete is not fair.
FairSpec ==
  /\ Spec
  /\ WF_vars(RequestCallback)
  /\ WF_vars(\E d \in Deliveries : OnHttpCalloutDone(d))

(***************************************************************************)
(* Properties.                                                             *)
(***************************************************************************)
\* The fields of the filter, the program counters and the counts of what was
\* flushed have their types.
TypeOK ==
  /\ calloutState \in CalloutStates
  /\ calloutFn \in BOOLEAN
  /\ calloutStarted \in BOOLEAN
  /\ streamDone \in BOOLEAN
  /\ worker \in WorkerPCs
  /\ cb \in [Deliveries -> CallbackPCs]
  /\ status \in {"none", "Stop", "Continue"}
  /\ localReply \in BOOLEAN
  /\ fnRuns \in Nat
  /\ inline \in Nat /\ late \in Nat /\ continues \in Nat /\ replied \in Nat

\* The queued mutations have one owner: over the whole life of the callout the
\* request callback's flush(false) and the deliveries' flush(true) together run
\* at most once, whatever the interleaving and however often Envoy delivers.
FlushedOnce == inline + late <= 1

\* A duplicate delivery never runs the user's continuation again.
ContinuationOnce == fnRuns <= 1

\* A continuation that denied the request is final: whichever side flushes, a
\* request that was answered by SendLocalResponse is not also released upstream.
DenialIsFinal == replied > 0 => continues = 0 /\ status # "Continue"

\* ContinueRequest is only called on a stream whose request callback has returned
\* Stop: a resume that overtook the Stop would be lost.
ResumeFindsStopped == late > 0 => status = "Stop"

\* Neither side is left waiting for the other: once the request callback has
\* returned and a delivery has run its course on a living stream, somebody has
\* flushed.
HandoffComplete ==
  (worker = "returned" /\ ~streamDone /\ \E d \in Deliveries : cb[d] = "over")
    => inline + late = 1

\* A stream Envoy has completed is neither resumed nor answered any more.
NoFlushAfterStreamDone == [][streamDone => UNCHANGED <<inline, late>>]_vars

\* Every request is released or answered, or its stream ends, also when the
\* callout is the only thing that could resume it.
RequestSettled ==
  <>(streamDone \/ continues = 1 \/ replied = 1 \/ status = "Continue")
=============================================================================

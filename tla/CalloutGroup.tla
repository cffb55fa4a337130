---------------------------- MODULE CalloutGroup ----------------------------
(***************************************************************************)
(* Several HTTP callouts for one decision: Writer.HTTPCalloutAllSettled    *)
(* starts all of them and waits for every answer, HTTPCalloutSequence      *)
(* starts the next one when the last is answered.  Both run on Envoy's     *)
(* worker thread; an answer may come inside handle.HttpCallout, and a      *)
(* callout Envoy refuses settles its slot at once.                         *)
(*                                                                         *)
(* Everything the request is about to see is one fact here: whether flush  *)
(* ran, and on what kind of request (Filter says what flush does).  The    *)
(* stream may end at any time, also inside the user's final callback.      *)
(***************************************************************************)
EXTENDS Naturals, Sequences, FiniteSets

CONSTANTS
    Kinds,  \* "all", "sequence": what the request handler calls
    N       \* callouts of an "all" group; bound on those of a sequence

ASSUME GroupAssumption ==
    /\ Kinds \subseteq {"all", "sequence"}
    /\ N \in Nat \ {0}

VARIABLES
    kind,
    started,      \* callouts for which handle.HttpCallout was called
    inflight,     \* those Envoy has accepted and not answered
    responses,    \* the answers, in the order the code keeps them
    remaining,    \* allSettledBatch.remaining
    finished,     \* allSettledBatch.flushed, calloutSequence.finished
    stepping,     \* calloutSequence.step is about to ask for the next request
    groupState,   \* f.calloutState
    groupDone,    \* f.streamDone
    callback,     \* the request callback: "running", "stopped" or "returned"
    flushed,      \* how flush ran: "no", "inline" or "resume"
    \* history
    outcome,      \* what Envoy said of each callout
    given         \* what the final callback was called with, one entry per call

group == <<started, inflight, responses, remaining, finished, stepping, outcome, given>>
groupVars == <<kind, group, groupState, groupDone, callback, flushed>>

Callouts == 1 .. N
Pending == "pending"
Answers == {"ok", "reset"}
Outcomes == Answers \cup {"refused", Pending}

\* HTTPCalloutAllSettled with at least one request, or HTTPCalloutSequence,
\* called from the request handler.
GroupInit ==
    /\ kind \in Kinds
    /\ started = 0 /\ inflight = {}
    /\ responses = IF kind = "all" THEN [i \in Callouts |-> Pending] ELSE <<>>
    /\ remaining = N
    /\ finished = FALSE
    /\ stepping = (kind = "sequence")
    /\ groupState = "Active" /\ groupDone = FALSE
    /\ callback = "running" /\ flushed = "no"
    /\ outcome = [i \in Callouts |-> Pending] /\ given = <<>>

\* What the worker thread does inside the request callback or inside a delivery.
GroupBusy == callback = "running" \/ stepping

-----------------------------------------------------------------------------
(* The end of a group: the final callback, then the handoff.                *)

\* The stream is looked at only before the callback.
ChecksOnce(ends) ==
    IF groupDone
      THEN UNCHANGED <<given, groupDone, groupState, flushed>>
      ELSE /\ given' = Append(given, responses')
           /\ groupDone' = ends
           /\ IF groupState = "Paused"
                THEN groupState' = "Flushed" /\ flushed' = "resume"
                ELSE groupState' = "Done" /\ UNCHANGED flushed

\* fn or done runs, and the stream may end in it; then whoever finds the request
\* paused resumes it.
FinalCallback(ends) ==
    IF groupDone
      THEN UNCHANGED <<given, groupDone, groupState, flushed>>
      ELSE /\ given' = Append(given, responses')
           /\ groupDone' = ends
           /\ IF ends THEN UNCHANGED <<groupState, flushed>>
              ELSE IF groupState = "Paused"
                THEN groupState' = "Flushed" /\ flushed' = "resume"
                ELSE /\ groupState' = IF groupState = "Active" THEN "Done"
                                        ELSE groupState
                     /\ UNCHANGED flushed

-----------------------------------------------------------------------------
(* HTTPCalloutAllSettled.                                                   *)

\* The last of the callouts that were started so far ends the group.
LastOfStarted(i) == inflight \ {i} = {}

\* remaining reaches zero.
LastToSettle(i) == remaining = 1

\* allSettledBatch.finish.
Finish(i, r) ==
    /\ outcome' = [outcome EXCEPT ![i] = r]
    /\ IF finished
         THEN UNCHANGED <<responses, remaining, finished, given, groupDone, groupState, flushed>>
         ELSE /\ responses' = [responses EXCEPT ![i] = r]
              /\ remaining' = remaining - 1
              /\ IF LastToSettle(i)
                   THEN finished' = TRUE /\ \E ends \in BOOLEAN : FinalCallback(ends)
                   ELSE UNCHANGED <<finished, given, groupDone, groupState, flushed>>

\* One round of the loop over reqs: accepted, answered inside HttpCallout, or
\* refused.
StartNext ==
    /\ kind = "all" /\ callback = "running"
    /\ started < N
    /\ started' = started + 1
    /\ \/ /\ inflight' = inflight \cup {started + 1}
          /\ UNCHANGED <<responses, remaining, finished, outcome, given, groupDone,
                         groupState, flushed>>
       \/ /\ \E r \in Answers \cup {"refused"} : Finish(started + 1, r)
          /\ UNCHANGED inflight
    /\ UNCHANGED <<kind, stepping, callback>>

-----------------------------------------------------------------------------
(* HTTPCalloutSequence.                                                     *)

\* HttpCallout accepts the request; the answer will take the next step.
StepAccepted ==
    /\ started' = started + 1
    /\ inflight' = inflight \cup {started + 1}
    /\ stepping' = FALSE
    /\ UNCHANGED <<responses, outcome>>

\* The answer, or the refusal, of callout i is appended and step called again.
SettleStep(i, r) ==
    /\ outcome' = [outcome EXCEPT ![i] = r]
    /\ responses' = Append(responses, r)
    /\ stepping' = TRUE

\* calloutSequence.step: unless the sequence or the stream is over, next either
\* names a request or ends the sequence.
Step ==
    /\ kind = "sequence" /\ stepping
    /\ \/ /\ finished \/ groupDone
          /\ stepping' = FALSE
          /\ UNCHANGED <<started, inflight, responses, finished, outcome, given,
                         groupDone, groupState, flushed>>
       \/ /\ ~finished /\ ~groupDone /\ started < N
          /\ \/ StepAccepted
             \/ /\ started' = started + 1
                /\ \E r \in Answers \cup {"refused"} : SettleStep(started + 1, r)
                /\ UNCHANGED inflight
          /\ UNCHANGED <<finished, given, groupDone, groupState, flushed>>
       \/ /\ ~finished /\ ~groupDone
          /\ finished' = TRUE /\ stepping' = FALSE
          /\ UNCHANGED <<started, inflight, responses, outcome>>
          /\ \E ends \in BOOLEAN : FinalCallback(ends)
    /\ UNCHANGED <<kind, remaining, callback>>

-----------------------------------------------------------------------------
(* The request callback's way out, answers, the end of the stream.          *)

\* pausePendingCallout, flushCompletedCallout.
CallbackReturns ==
    /\ callback = "running" /\ ~stepping
    /\ kind = "all" => started = N
    /\ \/ /\ groupState = "Active"
          /\ groupState' = "Paused" /\ callback' = "stopped"
          /\ UNCHANGED flushed
       \/ /\ groupState = "Done"
          /\ groupState' = "Flushed" /\ callback' = "returned"
          /\ flushed' = "inline"
    /\ UNCHANGED <<kind, group, groupDone>>

\* The callback Envoy was given for callout i.
OnGroupCalloutDone(i) ==
    /\ i \in inflight /\ ~GroupBusy
    /\ inflight' = inflight \ {i}
    /\ \E r \in Answers :
         \/ /\ kind = "all" /\ Finish(i, r)
            /\ UNCHANGED stepping
         \/ /\ kind = "sequence" /\ SettleStep(i, r)
            /\ UNCHANGED <<remaining, finished, given, groupDone, groupState, flushed>>
    /\ UNCHANGED <<kind, started, callback>>

GroupStreamComplete ==
    /\ ~GroupBusy /\ ~groupDone
    /\ groupDone' = TRUE
    /\ UNCHANGED <<kind, group, groupState, callback, flushed>>

\* Every callout is answered and the stream is over.
Over ==
    /\ ~GroupBusy /\ inflight = {} /\ groupDone
    /\ UNCHANGED groupVars

Worker == StartNext \/ Step \/ CallbackReturns
Deliver == \E i \in Callouts : OnGroupCalloutDone(i)

GroupNext == Worker \/ Deliver \/ GroupStreamComplete \/ Over

GroupSafety == GroupInit /\ [][GroupNext]_groupVars

\* The worker thread runs, and Envoy answers every callout it accepted, at the
\* latest when its timeout expires.
GroupSpec == GroupSafety /\ WF_groupVars(Worker) /\ WF_groupVars(Deliver)

-----------------------------------------------------------------------------
(* Properties.                                                              *)

\* Every variable has its type.
GroupTypeOK ==
    /\ kind \in Kinds
    /\ started \in 0 .. N /\ inflight \subseteq Callouts
    /\ responses \in Seq(Outcomes)
    /\ remaining \in 0 .. N
    /\ finished \in BOOLEAN /\ stepping \in BOOLEAN
    /\ groupState \in {"Active", "Paused", "Done", "Flushed"}
    /\ groupDone \in BOOLEAN
    /\ callback \in {"running", "stopped", "returned"}
    /\ flushed \in {"no", "inline", "resume"}
    /\ outcome \in [Callouts -> Outcomes]
    /\ given \in Seq(Seq(Outcomes))

\* The final callback runs at most once, when every callout of the group has
\* settled, and finds in slot i what became of callout i, in whatever order the
\* answers came and whether they came inside HttpCallout, later or never.
SettledOnce ==
    /\ Len(given) <= 1
    /\ given # <<>> =>
         LET n == IF kind = "all" THEN N ELSE started
         IN  /\ Len(given[1]) = n
             /\ \A i \in 1 .. n : given[1][i] = outcome[i] /\ outcome[i] # Pending

\* A sequence never has two callouts in flight, nor one behind its end.
OneAtATime ==
    kind = "sequence" => /\ Cardinality(inflight) <= 1
                         /\ (finished => inflight = {})

\* flush runs at most once and never on a stream that is over, although the
\* stream may end while callouts are in flight and inside the final callback; and
\* it resumes only a request that was stopped.
FlushesOnceAlive ==
    [][flushed' # flushed => /\ flushed = "no" /\ ~groupDone'
                             /\ (flushed' = "resume" => callback = "stopped")]_groupVars

\* A request the group has stopped is resumed, unless its stream ends.
GroupResumes == callback = "stopped" ~> (flushed = "resume" \/ groupDone)
=============================================================================

-------------------------------- MODULE GoDo --------------------------------
(***************************************************************************)
(* Writer.Go with several Writer.Do at once: the handler's goroutine fans  *)
(* out one goroutine per callout, joins them and queues a mutation made of *)
(* their results (the /fanout handler of e2e/filters/async_callout.go;     *)
(* /go-do and /go-do-body are the case of one callout).                    *)
(*                                                                         *)
(* Do does not start its callout: it posts a closure to the stream's       *)
(* scheduler, which runs it on the worker thread, and waits for the answer *)
(* on a channel of its own or for its context to end.  The stream may end  *)
(* at any time between two steps; from then on the scheduler may drop what *)
(* is posted and Envoy answers no callout any more.                        *)
(***************************************************************************)
EXTENDS Sequences, FiniteSets

CONSTANTS
    Calls,      \* the callouts of the fan-out
    Deadlines,  \* those whose context also has a deadline of the handler's
    FinishGo,     \* the closure Go posts when the goroutine's function returned
    Empty       \* nothing: in a channel, in a result

VARIABLES
    inCallback,   \* the request callback has not returned yet
    goroutine,    \* of Go: "running", "posted", "skipped" or "over"
    do,           \* per callout: "new", "waiting" or "returned"
    posted,       \* the scheduler's queue
    callout,      \* per callout, on Envoy's side: "none", "inflight" or "over"
    ch,           \* per callout: the channel of capacity one
    got,          \* what Do returned
    goStarted, goCompleted, cancelled, streamDone,
    goFlush       \* what flush applied: Empty, or the results the handler joined

goVars == <<inCallback, goroutine, do, posted, callout, ch, got, goStarted,
            goCompleted, cancelled, streamDone, goFlush>>
streamState == <<goStarted, goCompleted, cancelled, streamDone, goFlush>>

Answers == [from : Calls, is : {"ok", "reset"}]
NoAnswer(e) == [from |-> Empty, is |-> e]

\* Writer.Go in the request handler.
GoInit ==
    /\ inCallback = TRUE
    /\ goroutine = "running"
    /\ do = [c \in Calls |-> "new"]
    /\ posted = <<>>
    /\ callout = [c \in Calls |-> "none"]
    /\ ch = [c \in Calls |-> Empty]
    /\ got = [c \in Calls |-> Empty]
    /\ goStarted = TRUE /\ goCompleted = FALSE
    /\ cancelled = FALSE /\ streamDone = FALSE
    /\ goFlush = Empty

-----------------------------------------------------------------------------
(* The goroutines.                                                          *)

\* Do posts its closure.
Do(c) ==
    /\ goroutine = "running"
    /\ do[c] = "new"
    /\ do' = [do EXCEPT ![c] = "waiting"]
    /\ posted' = Append(posted, c)
    /\ UNCHANGED <<inCallback, goroutine, callout, ch, got, streamState>>

Returns(c, r) ==
    /\ do' = [do EXCEPT ![c] = "returned"]
    /\ got' = [got EXCEPT ![c] = r]

\* Do's select: the answer, or the end of the context; with both ready either
\* may be taken.
DoReturns(c) ==
    /\ do[c] = "waiting"
    /\ \/ ch[c] # Empty /\ Returns(c, ch[c])
       \/ cancelled /\ Returns(c, NoAnswer("canceled"))
    /\ UNCHANGED <<inCallback, goroutine, posted, callout, ch, streamState>>

\* The deadline the handler gave this callout passes first.
DoTimesOut(c) ==
    /\ do[c] = "waiting" /\ c \in Deadlines
    /\ Returns(c, NoAnswer("deadline"))
    /\ UNCHANGED <<inCallback, goroutine, posted, callout, ch, streamState>>

\* The handler's function joins the fan-out and returns; Go posts the finish
\* unless the stream is over, and the deferred cancel ends the context.
FnReturns ==
    /\ goroutine = "running"
    /\ \A c \in Calls : do[c] = "returned"
    /\ IF goCompleted
         THEN goroutine' = "skipped" /\ UNCHANGED posted
         ELSE goroutine' = "posted" /\ posted' = Append(posted, FinishGo)
    /\ cancelled' = TRUE
    /\ UNCHANGED <<inCallback, do, callout, ch, got, goStarted, goCompleted, streamDone, goFlush>>

-----------------------------------------------------------------------------
(* The worker thread, which is busy until the request callback returns.     *)

\* The request callback returns Stop because goStarted is set.
CallbackReturns ==
    /\ inCallback
    /\ inCallback' = FALSE
    /\ UNCHANGED <<goroutine, do, posted, callout, ch, got, streamState>>

\* The closure of Do: nothing is started on a stream that is over; otherwise
\* Envoy takes the callout, answers it at once, or refuses it.
RunDo(c) ==
    /\ ~inCallback /\ posted # <<>> /\ Head(posted) = c
    /\ posted' = Tail(posted)
    /\ \/ /\ goCompleted
          /\ ch' = [ch EXCEPT ![c] = NoAnswer("canceled")]
          /\ UNCHANGED callout
       \/ /\ ~goCompleted
          /\ callout' = [callout EXCEPT ![c] = "inflight"]
          /\ UNCHANGED ch
       \/ /\ ~goCompleted
          /\ callout' = [callout EXCEPT ![c] = "over"]
          /\ \E a \in Answers : a.from = c /\ ch' = [ch EXCEPT ![c] = a]
       \/ /\ ~goCompleted
          /\ ch' = [ch EXCEPT ![c] = NoAnswer("refused")]
          /\ UNCHANGED callout
    /\ UNCHANGED <<inCallback, goroutine, do, got, streamState>>

\* One callback for the whole filter: the answer goes to any Do that waits.
OnHttpCalloutDoneAny(c) ==
    /\ ~inCallback /\ ~streamDone
    /\ callout[c] = "inflight"
    /\ callout' = [callout EXCEPT ![c] = "over"]
    /\ \E a \in Answers, w \in Calls :
         a.from = c /\ ch[w] = Empty /\ ch' = [ch EXCEPT ![w] = a]
    /\ UNCHANGED <<inCallback, goroutine, do, posted, got, streamState>>

\* doCallbackFunc: the answer goes to the channel of its own Do, which may have
\* returned already.
OnHttpCalloutDone(c) ==
    /\ ~inCallback /\ ~streamDone
    /\ callout[c] = "inflight"
    /\ callout' = [callout EXCEPT ![c] = "over"]
    /\ \E a \in Answers : a.from = c /\ ch' = [ch EXCEPT ![c] = a]
    /\ UNCHANGED <<inCallback, goroutine, do, posted, got, streamState>>

\* What the handler makes of the results: the body of a success, else nothing.
Merged == [c \in Calls |-> IF got[c].is = "ok" THEN got[c].from ELSE Empty]

\* The closure of Go: goCompleted.Swap decides between it and OnStreamComplete,
\* then flush(true) applies what the handler queued and resumes the request.
RunFinish ==
    /\ ~inCallback /\ posted # <<>> /\ Head(posted) = FinishGo
    /\ posted' = Tail(posted)
    /\ goCompleted' = TRUE
    /\ goroutine' = "over"
    /\ \/ goCompleted /\ UNCHANGED <<goStarted, goFlush>>
       \/ ~goCompleted /\ goStarted' = FALSE /\ goFlush' = Merged
    /\ UNCHANGED <<inCallback, do, callout, ch, got, cancelled, streamDone>>

\* The stream is destroyed: what is still posted is dropped.
Drop ==
    /\ streamDone /\ posted # <<>>
    /\ posted' = Tail(posted)
    /\ goroutine' = IF Head(posted) = FinishGo THEN "over" ELSE goroutine
    /\ UNCHANGED <<inCallback, do, callout, ch, got, streamState>>

\* OnStreamComplete: late closures find goCompleted, waiting Do's their context.
OnStreamComplete ==
    /\ ~inCallback /\ ~streamDone
    /\ streamDone' = TRUE
    /\ goCompleted' = (goCompleted \/ goStarted)
    /\ cancelled' = (cancelled \/ goStarted)
    /\ UNCHANGED <<inCallback, goroutine, do, posted, callout, ch, got, goStarted, goFlush>>

-----------------------------------------------------------------------------
GoWorker == CallbackReturns \/ (\E c \in Calls : RunDo(c)) \/ RunFinish \/ Drop
GoAnswers == \E c \in Calls : OnHttpCalloutDone(c)
GoSteps == (\E c \in Calls : Do(c) \/ DoReturns(c)) \/ FnReturns

\* The stream is over, and so is everything Go started.
GoOver ==
    /\ streamDone /\ posted = <<>> /\ goroutine \in {"over", "skipped"}
    /\ UNCHANGED goVars

GoNext ==
    \/ GoWorker \/ GoAnswers \/ GoSteps
    \/ \E c \in Calls : DoTimesOut(c)
    \/ OnStreamComplete \/ GoOver

\* Goroutines and the worker thread run, and Envoy answers every callout of a
\* stream that is not over.  No stream has to end, no deadline has to pass.
GoFairness ==
    /\ WF_goVars(GoWorker) /\ WF_goVars(GoAnswers)
    /\ \A c \in Calls : WF_goVars(Do(c)) /\ WF_goVars(DoReturns(c))
    /\ WF_goVars(FnReturns)

GoSpec == GoInit /\ [][GoNext]_goVars /\ GoFairness

-----------------------------------------------------------------------------
(* Properties.                                                              *)

\* No callout is started and nothing is flushed on a stream that is over, in
\* whatever order OnStreamComplete, the posted closures and the goroutines run;
\* and what flush applies for a callout is that callout's own answer, or nothing,
\* whatever deadline passed while the answer was on its way.
LiveAndOwn ==
    [][/\ \A c \in Calls : callout'[c] # callout[c] => ~streamDone
       /\ goFlush' # goFlush =>
            /\ ~streamDone
            /\ \A c \in Calls : goFlush'[c] \in {c, Empty}]_goVars

\* The goroutine Go started ends and does not leave the request stopped: every
\* Do returns, although closures are dropped and callouts stay unanswered once the
\* stream is over, and unless it is the request is resumed.
GoEnds == <>[](/\ goroutine \in {"over", "skipped"}
               /\ (streamDone \/ goFlush # Empty))
=============================================================================

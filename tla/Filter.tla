------------------------------- MODULE Filter -------------------------------
(***************************************************************************)
(* One HTTP stream through up's filter: the request and response callbacks *)
(* Envoy makes on its worker thread, the user handlers they run, the       *)
(* queued mutations, the callouts and goroutines a handler may start, and  *)
(* OnStreamComplete.                                                       *)
(*                                                                         *)
(* A callback runs to its end on the worker thread, so each is one action; *)
(* CalloutHandoff refines the one spot where that grain is too coarse.     *)
(* What user code does is an op, chosen from constants: queue a mutation   *)
(* (always), send a local response, replace the body, start something      *)
(* asynchronous.  Everything queued by one run of user code is one number, *)
(* handed out in order.                                                    *)
(***************************************************************************)
EXTENDS Naturals, Sequences

CONSTANTS
  Modes,            \* kinds of request body handling, subset of AllModes
  LastAsync,        \* what a handler may start in the callback that ends the request
  OpenAsync,        \* mode |-> ... and in one that more of the request follows
  MaxFrames,        \* bound on the body frames of a request
  FramesAfterReply, \* modes in which Envoy may go on with it after a local reply
  EndsInCallback    \* the stream may end while a callout's continuation runs

\* No body handler, WithStreamingBody, WithBody and
\* WithMutableBody.
AllModes == {"none", "streaming", "buffered", "mutable"}

\* Nothing; an HTTPCallout Envoy refuses; one whose callback runs inside
\* handle.HttpCallout; one whose callback comes later; Go.
AsyncKinds == {"none", "refused", "early", "pending", "go"}

ASSUME FilterAssumption ==
  /\ Modes \subseteq AllModes
  /\ LastAsync \subseteq AsyncKinds
  /\ OpenAsync \in [Modes -> SUBSET AsyncKinds]
  /\ MaxFrames \in Nat
  /\ FramesAfterReply \subseteq Modes
  /\ EndsInCallback \in BOOLEAN

Ops == [async : AsyncKinds, reply : BOOLEAN, replace : BOOLEAN]

VARIABLES
  \* the filter
  mode,          \* requestBodyHandler, bufferBody and mutableRequestBody
  pend,          \* the queues: mutations, localReply, body replacement, strip
  stopped,       \* filter.stopped
  calloutState,  \* filter.calloutState
  calloutFn,     \* filter.calloutFn: the callout it belongs to, 0 for nil
  goStarted,     \* filter.goStarted
  goCompleted,   \* filter.goCompleted
  responseEndSeen,
  streamDone,
  \* Envoy and the world
  rx,            \* the request as received: "idle", "open" or "closed"
  frames,        \* body frames delivered
  iter,          \* iteration of the request: "none", "stopped" or "running"
  released,      \* the request headers went to the next filter
  wire,          \* mutations applied, in order
  length,        \* content-length of the request headers
  sent,          \* content-length when the headers were released
  body,          \* the buffered body: "orig" or "repl"
  replied,       \* calls of SendLocalResponse
  resumes,       \* calls of ContinueRequest
  inflight,      \* callouts Envoy accepted and has not answered
  gor,           \* goroutines started by Go, with their program counters
  resp,          \* the response: "none", "open" or "closed"
  \* history
  issued,        \* runs of user code on the request path
  reqEnds,       \* body handler calls with EndStream
  respEnds       \* response handler calls with EndStream

queues == <<pend, stopped>>
async == <<calloutState, calloutFn, goStarted, goCompleted, inflight, gor>>
request == <<rx, frames>>
upstream == <<iter, released, wire, length, sent, body, replied, resumes>>
response == <<responseEndSeen, resp, respEnds>>
history == <<issued, reqEnds>>
vars == <<mode, queues, async, request, upstream, response, history, streamDone>>

HasBodyHandler == mode # "none"
BufferBody == mode \in {"buffered", "mutable"}
Mutable == mode = "mutable"

MayStart(op, eos) == op.async \in (IF eos THEN LastAsync ELSE OpenAsync[mode])

Empty == [muts |-> <<>>, reply |-> FALSE, replace |-> FALSE, strip |-> FALSE]

Init ==
  /\ mode \in Modes
  /\ pend = Empty /\ stopped = FALSE
  /\ calloutState = "Active" /\ calloutFn = 0
  /\ goStarted = FALSE /\ goCompleted = FALSE
  /\ responseEndSeen = FALSE /\ streamDone = FALSE
  /\ rx = "idle" /\ frames = 0
  /\ iter = "none" /\ released = FALSE /\ wire = <<>>
  /\ length = "orig" /\ sent = "orig" /\ body = "orig"
  /\ replied = 0 /\ resumes = 0
  /\ inflight = {} /\ gor = {}
  /\ resp = "none"
  /\ issued = 0 /\ reqEnds = 0 /\ respEnds = 0

(***************************************************************************)
(* Pieces of the callbacks.                                                *)
(***************************************************************************)
\* The queues after n runs of user code that together did op.
Queued(op, n) ==
  [muts |-> pend.muts \o [i \in 1..n |-> issued + i],
   reply |-> pend.reply \/ op.reply,
   replace |-> pend.replace \/ (op.replace /\ Mutable),
   strip |-> pend.strip]

\* The callback returns Stop or StopAndBuffer.
ReturnStop ==
  /\ iter' = "stopped"
  /\ UNCHANGED <<released, sent, resumes>>

\* Envoy goes on to the next filter with what it holds.
Forward ==
  /\ iter' = "running"
  /\ released' = TRUE
  /\ sent' = IF released THEN sent ELSE length'

\* Mutant of Apply: the queue is not reset after it was applied.
ApplyKeepsQueue(p, len) ==
  /\ wire' = wire \o p.muts
  /\ length' = IF p.replace THEN "repl" ELSE len
  /\ body' = IF p.replace THEN "repl" ELSE body
  /\ pend' = [p EXCEPT !.replace = FALSE, !.strip = FALSE]
  /\ stopped' = FALSE
  /\ UNCHANGED replied

\* Mutant of Apply: a replaced body keeps the length the headers had.
ApplyKeepsLength(p, len) ==
  /\ wire' = wire \o p.muts
  /\ length' = len
  /\ body' = IF p.replace THEN "repl" ELSE body
  /\ pend' = Empty
  /\ stopped' = FALSE
  /\ UNCHANGED replied

\* What the queues do to the request when flush applies them; len is the
\* content-length when the body is not replaced.
Apply(p, len) ==
  /\ wire' = wire \o p.muts
  /\ length' = IF p.replace THEN "repl" ELSE len
  /\ body' = IF p.replace THEN "repl" ELSE body
  /\ pend' = Empty
  /\ stopped' = FALSE
  /\ UNCHANGED replied

\* Mutant of Reply: stopped is reset as on the other path.
ReplyResetsStopped(p, cont) ==
  /\ replied' = replied + 1
  /\ pend' = [p EXCEPT !.reply = FALSE, !.replace = @ /\ cont]
  /\ stopped' = FALSE
  /\ UNCHANGED <<wire, length, body>>

\* The local-reply path of flush: nothing else is applied or reset.  A request
\* callback has already taken a body replacement out of the queues; a resume
\* has not.
Reply(p, cont) ==
  /\ replied' = replied + 1
  /\ pend' = [p EXCEPT !.reply = FALSE, !.replace = @ /\ cont]
  /\ stopped' = TRUE
  /\ UNCHANGED <<wire, length, body>>

\* Mutant of Flush: only a local reply is acted on, the queues wait for a resume.
FlushRepliesOnly(p, len) ==
  IF p.reply THEN Reply(p, FALSE)
  ELSE /\ pend' = p /\ stopped' = FALSE
       /\ UNCHANGED <<wire, length, body, replied>>

\* flush(false): a request callback on its way out.
Flush(p, len) ==
  IF p.reply THEN Reply(p, FALSE) ELSE Apply(p, len)

\* flush(true): a callout or a goroutine resumes the request.
FlushAndContinue(p) ==
  IF p.reply
    THEN Reply(p, TRUE) /\ UNCHANGED <<iter, released, sent, resumes>>
    ELSE /\ Apply(p, IF p.strip THEN "none" ELSE length)
         /\ Forward
         /\ resumes' = resumes + 1

\* The asynchronous work op starts on a fresh Writer, up to where the callback
\* looks at it: pausePendingCallout and flushCompletedCallout included.  A
\* callback that returns because a goroutine runs leaves Done as it is.
Start(op, id) ==
  /\ calloutState' = CASE op.async = "pending" -> "Paused"
                       [] op.async = "refused" -> "Active"
                       [] op.async = "early" -> IF goStarted THEN "Done"
                                                ELSE "Flushed"
                       [] OTHER -> calloutState
  /\ calloutFn' = CASE op.async = "pending" -> id
                    [] op.async \in {"refused", "early"} -> 0
                    [] OTHER -> calloutFn
  /\ inflight' = IF op.async = "pending" THEN inflight \cup {id} ELSE inflight
  /\ gor' = IF op.async = "go" THEN gor \cup {[id |-> id, pc |-> "running"]}
            ELSE gor
  /\ goStarted' = (goStarted \/ op.async = "go")
  /\ goCompleted' = (goCompleted /\ op.async # "go")

\* The common end of OnRequestHeaders and OnRequestBody, after n runs of user code
\* that did op: hold the request for a callout or a goroutine, or flush and
\* return Stop or Continue.
Settle(op, n, p, len, stopForBufferedBody) ==
  /\ Start(op, issued + n)
  /\ issued' = issued + n
  /\ IF op.async = "pending" \/ goStarted'
       THEN /\ pend' = p
            /\ stopped' = (stopped \/ op.reply)
            /\ ReturnStop
            /\ UNCHANGED <<wire, length, body, replied>>
       ELSE /\ Flush(p, len)
            /\ IF stopped' \/ stopForBufferedBody
                 THEN ReturnStop
                 ELSE Forward /\ UNCHANGED resumes

(***************************************************************************)
(* Request callbacks.                                                      *)
(***************************************************************************)
\* What two runs of user code on one Writer did.  A Writer starts one thing: the
\* second run would panic.
Both(first, second) ==
  [async |-> IF second.async = "none" THEN first.async ELSE second.async,
   reply |-> first.reply \/ second.reply,
   replace |-> FALSE]

\* The request handler; on a headers-only request also the synthetic body call,
\* unless the handler left something running.
OnRequestHeaders ==
  /\ rx = "idle" /\ ~streamDone
  /\ \E eos \in BOOLEAN, op \in Ops :
       LET strip == ~eos /\ Mutable
           len == IF strip THEN "none" ELSE length
           P(o, n) == [Queued(o, n) EXCEPT !.strip = strip]
       IN  /\ MayStart(op, eos) /\ ~op.replace
           /\ rx' = IF eos THEN "closed" ELSE "open"
           /\ IF eos /\ HasBodyHandler /\ op.async \notin {"pending", "go"}
                THEN \E bop \in Ops :
                       /\ MayStart(bop, eos) /\ ~bop.replace
                       /\ op.async = "early" => bop.async = "none"
                       /\ LET o == Both(op, bop)
                          IN  Settle(o, 2, P(o, 2), len, FALSE)
                       /\ reqEnds' = reqEnds + 1
                ELSE /\ Settle(op, 1, P(op, 1), len, ~eos /\ BufferBody)
                     /\ UNCHANGED reqEnds
  /\ UNCHANGED <<mode, frames, response, streamDone>>

\* Envoy goes on delivering the request.
RequestGoesOn ==
  rx = "open" /\ ~streamDone /\ (replied = 0 \/ mode \in FramesAfterReply)

\* Mutant of AdmissionPending: the paused callout is not looked at.
AdmissionIgnoresCallout == stopped

\* The request is held for admission.
AdmissionPending == calloutState = "Paused" \/ stopped

PassUnlessPending ==
  /\ UNCHANGED <<wire, length, body, replied>>
  /\ IF AdmissionPending THEN ReturnStop ELSE Forward /\ UNCHANGED resumes

OnRequestBody(eos) ==
  /\ RequestGoesOn
  /\ eos \/ frames < MaxFrames
  /\ frames' = frames + 1
  /\ rx' = IF eos THEN "closed" ELSE "open"
  /\ \/ /\ ~HasBodyHandler
        /\ PassUnlessPending
        /\ UNCHANGED <<queues, async, history>>
     \/ /\ BufferBody /\ ~eos
        /\ ReturnStop
        /\ UNCHANGED <<wire, length, body, replied, queues, async, history>>
     \/ /\ HasBodyHandler /\ (BufferBody => eos)
        /\ \E op \in Ops :
             /\ MayStart(op, eos)
             /\ Settle(op, 1, Queued(op, 1),
                       IF Mutable THEN "data" ELSE length, FALSE)
        /\ reqEnds' = IF eos THEN reqEnds + 1 ELSE reqEnds
  /\ UNCHANGED <<mode, response, streamDone>>

OnRequestTrailers ==
  /\ RequestGoesOn
  /\ rx' = "closed"
  /\ PassUnlessPending
  /\ UNCHANGED <<mode, queues, async, frames, response, history, streamDone>>

(***************************************************************************)
(* The end of the stream: a missing EndStream of the response is           *)
(* synthesized, and a running goroutine is cancelled.                      *)
(***************************************************************************)
\* Mutant of StreamCompletes: the missing EndStream is not synthesized.
StreamCompletesSilently ==
  /\ respEnds' = respEnds
  /\ responseEndSeen' = TRUE
  /\ streamDone' = TRUE
  /\ goCompleted' = (goCompleted \/ goStarted)

StreamCompletes ==
  /\ respEnds' = IF responseEndSeen THEN respEnds ELSE respEnds + 1
  /\ responseEndSeen' = TRUE
  /\ streamDone' = TRUE
  /\ goCompleted' = (goCompleted \/ goStarted)

(***************************************************************************)
(* Completions of asynchronous work.                                       *)
(***************************************************************************)
\* What a continuation may do: replace the body only once it is all there.
CallbackOps ==
  {op \in Ops : op.async = "none" /\ (op.replace => frames > 0 /\ rx = "closed")}

\* The guard of OnHttpCalloutDone.
CalloutIsLive == ~streamDone /\ calloutFn # 0

\* CompareAndSwap(calloutStatePaused, calloutStateFlushed) succeeds.
OwnsResume == calloutState = "Paused"

\* Envoy answers callout c.  The continuation is whichever calloutFn holds, and
\* with EndsInCallback OnStreamComplete may run inside it.
OnHttpCalloutDone(c) ==
  /\ c \in inflight
  /\ inflight' = inflight \ {c}
  /\ IF ~CalloutIsLive
       THEN UNCHANGED <<calloutFn, calloutState, issued, queues, upstream,
                        streamDone, goCompleted, responseEndSeen, respEnds>>
       ELSE \E op \in CallbackOps :
              LET p == Queued(op, 1)
              IN  /\ calloutFn' = 0
                  /\ issued' = issued + 1
                  /\ \/ EndsInCallback /\ StreamCompletes
                     \/ UNCHANGED <<streamDone, goCompleted, responseEndSeen,
                                    respEnds>>
                  /\ IF OwnsResume
                       THEN /\ calloutState' = "Flushed"
                            /\ FlushAndContinue(p)
                       ELSE /\ calloutState' = IF calloutState = "Active"
                                                 THEN "Done" ELSE calloutState
                            /\ pend' = p
                            /\ stopped' = (stopped \/ op.reply)
                            /\ UNCHANGED upstream
  /\ UNCHANGED <<mode, goStarted, gor, request, resp, reqEnds>>

GoAt(g, pc) == (gor \ {g}) \cup {[g EXCEPT !.pc = pc]}

\* fn returns; its mutations are queued.
GoReturns(g) ==
  /\ g \in gor /\ g.pc = "running"
  /\ \E op \in {o \in CallbackOps : ~o.reply} :
       pend' = Queued(op, 1)
  /\ issued' = issued + 1
  /\ gor' = GoAt(g, "returned")
  /\ UNCHANGED <<mode, stopped, calloutState, calloutFn, goStarted, goCompleted,
                 inflight, request, upstream, response, reqEnds, streamDone>>

\* Mutant of GoMustSchedule: the test of goCompleted is inverted.
GoSchedulesWhenCompleted == goCompleted

\* The goroutine has to hop back to the worker thread.
GoMustSchedule == ~goCompleted

\* Schedule the finish, unless OnStreamComplete has already been there.
GoSchedules(g) ==
  /\ g \in gor /\ g.pc = "returned"
  /\ gor' = GoAt(g, IF GoMustSchedule THEN "scheduled" ELSE "over")
  /\ UNCHANGED <<mode, queues, calloutState, calloutFn, goStarted, goCompleted,
                 inflight, request, upstream, response, history, streamDone>>

\* Mutant of GoMayFinish: the finish does not look at goCompleted.
GoFinishesAlways == TRUE

\* goCompleted.Swap(true) returned false.
GoMayFinish == ~goCompleted

\* The scheduled finish runs on the worker thread.
GoFinish(g) ==
  /\ g \in gor /\ g.pc = "scheduled"
  /\ gor' = GoAt(g, "over")
  /\ goCompleted' = TRUE
  /\ IF GoMayFinish
       THEN goStarted' = FALSE /\ FlushAndContinue(pend)
       ELSE UNCHANGED <<goStarted, queues, upstream>>
  /\ UNCHANGED <<mode, calloutState, calloutFn, inflight, request, response,
                 history, streamDone>>

(***************************************************************************)
(* Response callbacks.                                                     *)
(***************************************************************************)
\* The handler sees the headers; on a bodyless response a synthetic body call
\* follows.
OnResponseHeaders(eos) ==
  /\ resp = "none" /\ (released \/ replied > 0) /\ ~streamDone
  /\ resp' = IF eos THEN "closed" ELSE "open"
  /\ respEnds' = IF eos THEN respEnds + 2 ELSE respEnds
  /\ responseEndSeen' = eos
  /\ UNCHANGED <<mode, queues, async, request, upstream, history, streamDone>>

\* The handler may see earlier frames too (unless the body is buffered); only the
\* last one changes the filter.
OnResponseBody(eos) ==
  /\ resp = "open" /\ ~streamDone
  /\ resp' = IF eos THEN "closed" ELSE resp
  /\ respEnds' = IF eos THEN respEnds + 1 ELSE respEnds
  /\ responseEndSeen' = (responseEndSeen \/ eos)
  /\ UNCHANGED <<mode, queues, async, request, upstream, history, streamDone>>

OnStreamComplete ==
  /\ rx # "idle" /\ ~streamDone
  /\ StreamCompletes
  /\ UNCHANGED <<mode, queues, calloutState, calloutFn, goStarted, inflight, gor,
                 request, upstream, resp, history>>

\* Nothing more can happen to the stream.
Finished ==
  /\ streamDone /\ inflight = {} /\ \A g \in gor : g.pc = "over"
  /\ UNCHANGED vars

ClientSends ==
  \/ OnRequestHeaders
  \/ \E eos \in BOOLEAN : OnRequestBody(eos)
  \/ OnRequestTrailers

GoRuns == \E g \in gor : GoReturns(g) \/ GoSchedules(g) \/ GoFinish(g)

Next ==
  \/ ClientSends
  \/ \E c \in inflight : OnHttpCalloutDone(c)
  \/ GoRuns
  \/ \E eos \in BOOLEAN : OnResponseHeaders(eos) \/ OnResponseBody(eos)
  \/ OnStreamComplete
  \/ Finished

Spec == Init /\ [][Next]_vars

\* Clients finish their requests, Envoy answers every callout (each has a
\* timeout) and runs scheduled closures, goroutines return.  Nothing makes the
\* upstream answer or the stream end.
FairSpec ==
  /\ Spec
  /\ WF_vars(ClientSends)
  /\ WF_vars(\E c \in inflight : OnHttpCalloutDone(c))
  /\ WF_vars(GoRuns)

(***************************************************************************)
(* Properties.                                                             *)
(***************************************************************************)
Pends == [muts : Seq(Nat), reply : BOOLEAN, replace : BOOLEAN, strip : BOOLEAN]
Lengths == {"orig", "none", "data", "repl"}
GoPCs == {"running", "returned", "scheduled", "over"}

\* Every variable has its type.
TypeOK ==
  /\ mode \in Modes
  /\ pend \in Pends /\ stopped \in BOOLEAN
  /\ calloutState \in {"Active", "Paused", "Done", "Flushed"}
  /\ calloutFn \in Nat
  /\ goStarted \in BOOLEAN /\ goCompleted \in BOOLEAN
  /\ responseEndSeen \in BOOLEAN /\ streamDone \in BOOLEAN
  /\ rx \in {"idle", "open", "closed"} /\ frames \in Nat
  /\ iter \in {"none", "stopped", "running"} /\ released \in BOOLEAN
  /\ wire \in Seq(Nat)
  /\ length \in Lengths
  /\ sent \in Lengths
  /\ body \in {"orig", "repl"}
  /\ replied \in Nat /\ resumes \in Nat
  /\ inflight \in SUBSET Nat /\ gor \in SUBSET [id : Nat, pc : GoPCs]
  /\ resp \in {"none", "open", "closed"}
  /\ issued \in Nat /\ reqEnds \in Nat /\ respEnds \in Nat

UpTo(n) == [i \in 1..n |-> i]

\* No mutation is lost, applied twice or applied out of order: what flush has
\* applied followed by what is queued is everything user code has issued, in the
\* order it was issued.  The queue stands for any one of the code's queues, which
\* keep one kind of mutation each; flush empties them kind after kind.
MutationsConserved == wire \o pend.muts = UpTo(issued)

\* A request that Envoy is processing further carries every mutation issued so
\* far: nothing stays in the queues behind a Continue or a ContinueRequest.
MutationsApplied == iter = "running" => wire = UpTo(issued)

\* Envoy does not go on with the request while a callout or a goroutine that was
\* started to decide about it is outstanding, nor after it was answered locally,
\* whatever it delivers in the meantime; and unless a streaming body handler has
\* let them go already, the headers are still here.
AdmissionGate ==
  (calloutState = "Paused" \/ goStarted \/ replied > 0) =>
    iter # "running" /\ (mode = "streaming" \/ ~released)

\* ContinueRequest is called only on a request whose iteration is stopped.
ResumeOnlyWhenStopped == [][resumes' # resumes => iter = "stopped"]_vars

\* A local reply is final: no ContinueRequest or release comes with it or after it,
\* and no second reply.
LocalReplyIsFinal ==
  [][/\ replied' > 0 => UNCHANGED <<released, resumes>>
     /\ replied > 0 => UNCHANGED replied]_vars

\* Once OnStreamComplete has run nothing touches the stream through its handle,
\* although callouts and goroutines of the stream may still finish.
DeadStreamUntouched ==
  [][streamDone' => UNCHANGED <<wire, resumes, replied, released, body>>]_vars

\* The content-length a released request carries is that of its body: the client's
\* length never accompanies a replaced body and the reverse.
LengthMatchesBody ==
  released => /\ sent \in {"orig", "data"} => body = "orig"
              /\ sent = "repl" => body = "repl"

\* docs/body-handling.md: the body handler is "guaranteed to be called exactly once
\* with EndStream: true, whether or not a body exists".  It does not hold for
\* a body that ends with trailers, nor while a callout or Go is pending.
RequestEndDelivered ==
  (HasBodyHandler /\ rx = "closed" /\ iter = "running") => reqEnds = 1

\* The response handler gets its EndStream by the time the stream is over, even
\* if the upstream never sent one.
ResponseEndDelivered == streamDone => respEnds > 0

\* docs/filter.md: "exactly once"; responseEndSeen "prevents double-delivery".  It does
\* not hold for a response that ends with its headers: OnResponseHeaders makes two
\* calls with EndStream.
ResponseEndAtMostOnce == respEnds <= 1

\* A request that was stopped goes on, is answered, or its stream ends.
HeldIsSettled ==
  iter = "stopped" ~> (iter = "running" \/ replied > 0 \/ streamDone)
=============================================================================

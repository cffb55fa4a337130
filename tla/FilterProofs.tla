---------------------------- MODULE FilterProofs ----------------------------
(***************************************************************************)
(* What holds of Filter for every body mode, every mix of asynchronous     *)
(* work and any number of frames, and what holds of a filter that decides  *)
(* about a request in the callback that ends it (AsyncAtEnd).              *)
(***************************************************************************)
EXTENDS Filter, SequenceTheorems, TLAPS

(***************************************************************************)
(* Sequences.                                                              *)
(***************************************************************************)
\* Counting on from k extends the sequence 1, ..., k.
LEMMA UpToExtends ==
  ASSUME NEW k \in Nat, NEW n \in Nat
  PROVE  UpTo(k) \o [i \in 1..n |-> k + i] = UpTo(k + n)
<1> DEFINE t == [i \in 1..n |-> k + i]
<1>1. UpTo(k) \in Seq(Nat) /\ Len(UpTo(k)) = k
  BY DEF UpTo
<1>2. t \in Seq(Nat) /\ Len(t) = n
  OBVIOUS
<1>a. \A j \in 1..n : t[j] = k + j
  OBVIOUS
<1> HIDE DEF t
<1>3. UpTo(k + n) \in Seq(Nat) /\ Len(UpTo(k + n)) = k + n
  BY DEF UpTo
<1>4. UpTo(k) \o t \in Seq(Nat) /\ Len(UpTo(k) \o t) = k + n
  BY <1>1, <1>2, ConcatProperties, Zenon
<1>5. ASSUME NEW j \in 1..(k + n)
      PROVE  (UpTo(k) \o t)[j] = UpTo(k + n)[j]
  BY <1>1, <1>2, <1>a, ConcatProperties DEF UpTo
<1> QED
  BY <1>3, <1>4, <1>5, SeqEqual, Zenon DEF t

\* Concatenation of queues is associative.
LEMMA NatConcatAssociative ==
  \A a, b, c \in Seq(Nat) : a \o (b \o c) = (a \o b) \o c
<1> TAKE a, b, c \in Seq(Nat)
<1> DEFINE S == Nat
<1>1. a \in Seq(S) /\ b \in Seq(S) /\ c \in Seq(S)
  OBVIOUS
<1> HIDE DEF S
<1>2. (a \o b) \o c = a \o (b \o c)
  BY <1>1, ConcatAssociative, SMTT(60)
<1> QED BY <1>2, Zenon

\* A run of user code appends to the queue and to nothing else.
LEMMA QueuedAppends ==
  ASSUME TypeOK, MutationsConserved, NEW op \in Ops, NEW n \in Nat
  PROVE  /\ Queued(op, n) \in Pends
         /\ wire \o Queued(op, n).muts = UpTo(issued + n)
<1> DEFINE t == [i \in 1..n |-> issued + i]
<1>1. t \in Seq(Nat) /\ pend.muts \in Seq(Nat) /\ wire \in Seq(Nat) /\ issued \in Nat
  BY DEF TypeOK, Pends
<1> HIDE DEF t
<1>2. pend.muts \o t \in Seq(Nat)
  BY <1>1, ConcatProperties
<1>3. Queued(op, n) \in Pends
  BY <1>2 DEF t, Queued, Pends, TypeOK, Ops
<1>4. wire \o (pend.muts \o t) = (wire \o pend.muts) \o t
  BY <1>1, NatConcatAssociative, Zenon
<1>5. wire \o Queued(op, n).muts = UpTo(issued + n)
  BY <1>1, <1>4, UpToExtends, Zenon DEF t, Queued, MutationsConserved
<1> QED BY <1>3, <1>5

(***************************************************************************)
(* The pieces of the callbacks.                                            *)
(***************************************************************************)
QueueTypes ==
  /\ pend \in Pends /\ stopped \in BOOLEAN /\ wire \in Seq(Nat)
  /\ length \in Lengths /\ body \in {"orig", "repl"} /\ replied \in Nat

IterTypes ==
  /\ iter \in {"none", "stopped", "running"} /\ released \in BOOLEAN
  /\ sent \in Lengths /\ resumes \in Nat

AsyncTypes ==
  /\ calloutState \in {"Active", "Paused", "Done", "Flushed"}
  /\ calloutFn \in Nat
  /\ goStarted \in BOOLEAN /\ goCompleted \in BOOLEAN
  /\ inflight \in SUBSET Nat /\ gor \in SUBSET [id : Nat, pc : GoPCs]

\* flush's main path moves the queue to the wire.
LEMMA ApplyKeeps ==
  ASSUME TypeOK, NEW p \in Pends, NEW len \in Lengths, NEW k \in Nat,
         wire \o p.muts = UpTo(k), Apply(p, len)
  PROVE  QueueTypes' /\ wire' \o pend'.muts = UpTo(k)
<1>1. p.muts \in Seq(Nat) /\ wire \in Seq(Nat) /\ wire' = wire \o p.muts
  BY DEF TypeOK, Pends, Apply
<1>2. wire' \in Seq(Nat)
  BY <1>1, ConcatProperties, Zenon
<1>3. pend' = Empty /\ Empty \in Pends /\ Empty.muts = <<>>
  BY DEF Apply, Empty, Pends
<1>4. wire' \o <<>> = wire'
  BY <1>2, ConcatEmptySeq
<1>5. stopped' \in BOOLEAN
  BY Zenon DEF Apply
<1>6. length' \in Lengths /\ body' \in {"orig", "repl"} /\ replied' \in Nat
  BY DEF Apply, TypeOK, Lengths
<1> QED BY <1>1, <1>2, <1>3, <1>4, <1>5, <1>6 DEF QueueTypes

\* flush's local-reply path leaves the queue alone.
LEMMA ReplyKeeps ==
  ASSUME TypeOK, NEW p \in Pends, NEW cont \in BOOLEAN, NEW k \in Nat,
         wire \o p.muts = UpTo(k), Reply(p, cont)
  PROVE  QueueTypes' /\ wire' \o pend'.muts = UpTo(k)
<1>1. pend' \in Pends /\ pend'.muts = p.muts
  BY Zenon DEF Reply, Pends
<1>2. stopped' \in BOOLEAN
  BY Zenon DEF Reply
<1>3. /\ wire' = wire /\ wire' \in Seq(Nat) /\ length' \in Lengths
      /\ body' \in {"orig", "repl"} /\ replied' \in Nat
  BY DEF Reply, TypeOK
<1> QED BY <1>1, <1>2, <1>3 DEF QueueTypes

\* Envoy's step.
LEMMA ForwardKeeps ==
  ASSUME TypeOK, Forward, length' \in Lengths, resumes' \in Nat
  PROVE  IterTypes'
<1>1. released' \in BOOLEAN
  BY Zenon DEF Forward
<1> QED BY <1>1 DEF Forward, IterTypes, TypeOK

\* A callback that returns Stop keeps the types.
LEMMA ReturnStopKeeps ==
  ASSUME TypeOK, ReturnStop PROVE IterTypes'
BY DEF ReturnStop, IterTypes, TypeOK

\* flush(true).
LEMMA FlushAndContinueKeeps ==
  ASSUME TypeOK, NEW p \in Pends, NEW k \in Nat, wire \o p.muts = UpTo(k),
         FlushAndContinue(p)
  PROVE  QueueTypes' /\ IterTypes' /\ wire' \o pend'.muts = UpTo(k)
<1>1. CASE p.reply
  BY <1>1, ReplyKeeps, Zenon DEF FlushAndContinue, IterTypes, TypeOK
<1>2. CASE ~p.reply
  <2>1. (IF p.strip THEN "none" ELSE length) \in Lengths
    BY DEF TypeOK, Lengths
  <2>2. QueueTypes' /\ wire' \o pend'.muts = UpTo(k)
    BY <1>2, <2>1, ApplyKeeps, Zenon DEF FlushAndContinue
  <2>3. IterTypes'
    BY <1>2, <2>2, ForwardKeeps DEF FlushAndContinue, QueueTypes, TypeOK
  <2> QED BY <2>2, <2>3
<1> QED BY <1>1, <1>2

\* Starting a callout or a goroutine.
LEMMA StartKeeps ==
  ASSUME TypeOK, NEW op \in Ops, NEW id \in Nat, Start(op, id)
  PROVE  AsyncTypes'
<1>1. goStarted' \in BOOLEAN /\ goCompleted' \in BOOLEAN
  BY Zenon DEF Start, TypeOK
<1>2. /\ calloutState' \in {"Active", "Paused", "Done", "Flushed"}
      /\ calloutFn' \in Nat
  BY DEF Start, TypeOK, Ops, AsyncKinds
<1>3. inflight' \in SUBSET Nat /\ gor' \in SUBSET [id : Nat, pc : GoPCs]
  BY DEF Start, TypeOK, GoPCs
<1> QED BY <1>1, <1>2, <1>3 DEF AsyncTypes

\* The common end of the two request callbacks.
LEMMA SettleKeeps ==
  ASSUME TypeOK, NEW op \in Ops, NEW n \in Nat, NEW p \in Pends,
         NEW len \in Lengths, NEW stop \in BOOLEAN,
         wire \o p.muts = UpTo(issued + n), Settle(op, n, p, len, stop)
  PROVE  /\ QueueTypes' /\ IterTypes' /\ AsyncTypes' /\ issued' \in Nat
         /\ MutationsConserved'
<1>1. issued \in Nat /\ issued' = issued + n /\ issued + n \in Nat
  BY DEF Settle, TypeOK
<1>2. AsyncTypes'
  BY <1>1, StartKeeps DEF Settle
<1>3. CASE op.async = "pending" \/ goStarted'
  <2>1. stopped' \in BOOLEAN
    BY <1>3, Zenon DEF Settle, TypeOK, Ops
  <2>2. pend' = p /\ wire' = wire /\ QueueTypes'
    BY <1>3, <2>1 DEF Settle, QueueTypes, TypeOK
  <2>3. IterTypes'
    BY <1>3, ReturnStopKeeps DEF Settle
  <2> QED BY <1>1, <1>2, <2>2, <2>3 DEF MutationsConserved
<1>4. CASE ~(op.async = "pending" \/ goStarted')
  <2>1. Flush(p, len)
    BY <1>4 DEF Settle
  <2>2. QueueTypes' /\ wire' \o pend'.muts = UpTo(issued + n)
    BY <1>1, <2>1, ApplyKeeps, ReplyKeeps, Zenon DEF Flush
  <2>3. IterTypes'
    BY <1>4, <2>2, ReturnStopKeeps, ForwardKeeps DEF Settle, QueueTypes, TypeOK
  <2> QED BY <1>1, <1>2, <2>2, <2>3 DEF MutationsConserved
<1> QED BY <1>3, <1>4

RestTypes ==
  /\ mode \in Modes
  /\ responseEndSeen \in BOOLEAN /\ streamDone \in BOOLEAN
  /\ rx \in {"idle", "open", "closed"} /\ frames \in Nat
  /\ resp \in {"none", "open", "closed"}
  /\ reqEnds \in Nat /\ respEnds \in Nat

Conserving ==
  /\ QueueTypes /\ IterTypes /\ AsyncTypes /\ RestTypes /\ issued \in Nat
  /\ MutationsConserved

\* The conjuncts of the lemmas below, regrouped.
LEMMA ConservingIsTyped == Conserving <=> TypeOK /\ MutationsConserved
BY DEF Conserving, QueueTypes, IterTypes, AsyncTypes, RestTypes, TypeOK

\* Two runs of user code on one Writer are one op.
LEMMA BothIsOp ==
  ASSUME NEW a \in Ops, NEW b \in Ops PROVE Both(a, b) \in Ops
BY DEF Both, Ops

(***************************************************************************)
(* Types and conservation of mutations are inductive together.             *)
(***************************************************************************)
\* A new stream has queued and applied nothing.
LEMMA InitConserving == Init => Conserving
<1> SUFFICES ASSUME Init PROVE Conserving
  OBVIOUS
<1>1. /\ stopped \in BOOLEAN /\ goStarted \in BOOLEAN /\ goCompleted \in BOOLEAN
      /\ responseEndSeen \in BOOLEAN /\ streamDone \in BOOLEAN
      /\ released \in BOOLEAN
  BY Zenon DEF Init
<1>2. pend \in Pends /\ pend.muts = <<>> /\ wire = <<>> /\ wire \in Seq(Nat)
  BY DEF Init, Empty, Pends
<1>3. MutationsConserved
  BY <1>2 DEF Init, MutationsConserved, UpTo
<1> QED
  BY <1>1, <1>2, <1>3 DEF Init, Conserving, QueueTypes, IterTypes, AsyncTypes,
     RestTypes, Lengths

\* OnRequestHeaders loses no mutation.
LEMMA HeadersConserving ==
  ASSUME TypeOK, MutationsConserved, OnRequestHeaders PROVE Conserving'
<1>1. PICK eos \in BOOLEAN, op \in Ops :
        LET strip == ~eos /\ Mutable
            len == IF strip THEN "none" ELSE length
            P(o, n) == [Queued(o, n) EXCEPT !.strip = strip]
        IN  /\ rx' = IF eos THEN "closed" ELSE "open"
            /\ IF eos /\ HasBodyHandler /\ op.async \notin {"pending", "go"}
                 THEN \E bop \in Ops :
                        /\ MayStart(bop, eos) /\ ~bop.replace
                        /\ op.async = "early" => bop.async = "none"
                        /\ LET o == Both(op, bop)
                           IN  Settle(o, 2, P(o, 2), len, FALSE)
                        /\ reqEnds' = reqEnds + 1
                 ELSE /\ Settle(op, 1, P(op, 1), len, ~eos /\ BufferBody)
                      /\ UNCHANGED reqEnds
  BY ZenonT(30) DEF OnRequestHeaders
<1> DEFINE strip == ~eos /\ Mutable
           len == IF strip THEN "none" ELSE length
           P(o, n) == [Queued(o, n) EXCEPT !.strip = strip]
<1>2. eos \in BOOLEAN /\ op \in Ops /\ len \in Lengths
  BY DEF TypeOK, Lengths
<1>3. ASSUME NEW o \in Ops, NEW n \in Nat
      PROVE  P(o, n) \in Pends /\ wire \o P(o, n).muts = UpTo(issued + n)
  BY QueuedAppends, Zenon DEF Pends
<1>4. RestTypes' \/ reqEnds' \notin Nat
  BY <1>1 DEF OnRequestHeaders, RestTypes, TypeOK, response
<1>5. CASE eos /\ HasBodyHandler /\ op.async \notin {"pending", "go"}
  <2>1. PICK bop \in Ops : /\ Settle(Both(op, bop), 2, P(Both(op, bop), 2), len, FALSE)
                           /\ reqEnds' = reqEnds + 1
    BY <1>1, <1>5, Zenon
  <2>2. Both(op, bop) \in Ops
    BY <1>2, BothIsOp
  <2> HIDE DEF P, len
  <2>3. /\ QueueTypes' /\ IterTypes' /\ AsyncTypes' /\ issued' \in Nat
        /\ MutationsConserved'
    BY <1>2, <1>3, <2>1, <2>2, SettleKeeps, Zenon
  <2> QED BY <1>4, <2>1, <2>3 DEF Conserving, TypeOK
<1>6. CASE ~(eos /\ HasBodyHandler /\ op.async \notin {"pending", "go"})
  <2>1. Settle(op, 1, P(op, 1), len, ~eos /\ BufferBody) /\ reqEnds' = reqEnds
    BY <1>1, <1>6, Zenon
  <2>2. (~eos /\ BufferBody) \in BOOLEAN
    OBVIOUS
  <2> HIDE DEF P, len
  <2>3. /\ QueueTypes' /\ IterTypes' /\ AsyncTypes' /\ issued' \in Nat
        /\ MutationsConserved'
    BY <1>2, <1>3, <2>1, <2>2, SettleKeeps, Zenon
  <2> QED BY <1>4, <2>1, <2>3 DEF Conserving, TypeOK
<1> QED BY <1>5, <1>6

\* A frame or trailers that are passed on or held without running user code.
LEMMA PassKeeps ==
  ASSUME TypeOK, PassUnlessPending PROVE IterTypes'
<1>1. length' \in Lengths
  BY DEF PassUnlessPending, TypeOK
<1> QED BY <1>1, ReturnStopKeeps, ForwardKeeps DEF PassUnlessPending, TypeOK

\* OnRequestBody loses no mutation.
LEMMA BodyConserving ==
  ASSUME TypeOK, MutationsConserved, NEW eos \in BOOLEAN, OnRequestBody(eos)
  PROVE  Conserving'
<1>1. RestTypes' \/ reqEnds' \notin Nat
  BY DEF OnRequestBody, RestTypes, TypeOK, response
<1>2. CASE ~HasBodyHandler
  <2>1. PassUnlessPending /\ UNCHANGED <<queues, async, history>>
    BY <1>2 DEF OnRequestBody, HasBodyHandler, BufferBody
  <2> QED
    BY <1>1, <2>1, PassKeeps DEF Conserving, QueueTypes, AsyncTypes, TypeOK,
       PassUnlessPending, queues, async, history, MutationsConserved
<1>3. CASE HasBodyHandler /\ BufferBody /\ ~eos
  <2>1. ReturnStop /\ UNCHANGED <<wire, length, body, replied, queues, async, history>>
    BY <1>3, Zenon DEF OnRequestBody, HasBodyHandler, BufferBody
  <2> QED
    BY <1>1, <2>1, ReturnStopKeeps DEF Conserving, QueueTypes, AsyncTypes, TypeOK,
       queues, async, history, MutationsConserved
<1>4. CASE HasBodyHandler /\ (BufferBody => eos)
  <2> DEFINE len == IF Mutable THEN "data" ELSE length
  <2>1. PICK op \in Ops :
          /\ Settle(op, 1, Queued(op, 1), len, FALSE)
          /\ reqEnds' = IF eos THEN reqEnds + 1 ELSE reqEnds
    BY <1>4, Zenon DEF OnRequestBody, HasBodyHandler, BufferBody
  <2>2. op \in Ops /\ len \in Lengths
    BY DEF TypeOK, Lengths
  <2> HIDE DEF len
  <2>3. /\ QueueTypes' /\ IterTypes' /\ AsyncTypes' /\ issued' \in Nat
        /\ MutationsConserved'
    BY <2>1, <2>2, QueuedAppends, SettleKeeps, Zenon
  <2>4. reqEnds' \in Nat
    BY <2>1 DEF TypeOK
  <2> QED BY <1>1, <2>3, <2>4 DEF Conserving
<1> QED BY <1>2, <1>3, <1>4

\* OnHttpCalloutDone loses no mutation.
LEMMA CalloutConserving ==
  ASSUME TypeOK, MutationsConserved, NEW c \in inflight, OnHttpCalloutDone(c)
  PROVE  Conserving'
<1>1. /\ inflight' \in SUBSET Nat /\ gor' = gor /\ goStarted' = goStarted
      /\ mode' = mode /\ rx' = rx /\ frames' = frames /\ resp' = resp
      /\ reqEnds' = reqEnds
  BY DEF OnHttpCalloutDone, TypeOK, request
<1>2. CASE ~CalloutIsLive
  <2>1. /\ UNCHANGED <<calloutFn, calloutState, issued, queues, upstream,
                       streamDone, goCompleted, responseEndSeen, respEnds>>
    BY <1>2 DEF OnHttpCalloutDone
  <2> QED
    BY <1>1, <2>1 DEF Conserving, QueueTypes, IterTypes, AsyncTypes, RestTypes,
       TypeOK, queues, upstream, MutationsConserved
<1>3. CASE CalloutIsLive
  <2>1. PICK op \in CallbackOps :
          /\ calloutFn' = 0 /\ issued' = issued + 1
          /\ \/ EndsInCallback /\ StreamCompletes
             \/ UNCHANGED <<streamDone, goCompleted, responseEndSeen, respEnds>>
          /\ IF OwnsResume
               THEN calloutState' = "Flushed" /\ FlushAndContinue(Queued(op, 1))
               ELSE /\ calloutState' = IF calloutState = "Active"
                                         THEN "Done" ELSE calloutState
                    /\ pend' = Queued(op, 1)
                    /\ stopped' = (stopped \/ op.reply)
                    /\ UNCHANGED upstream
    BY <1>3 DEF OnHttpCalloutDone
  <2>2. op \in Ops
    BY DEF CallbackOps
  <2>3. /\ issued' \in Nat /\ Queued(op, 1) \in Pends
        /\ wire \o Queued(op, 1).muts = UpTo(issued')
    BY <2>1, <2>2, QueuedAppends DEF TypeOK
  <2>4. goCompleted' \in BOOLEAN /\ streamDone' \in BOOLEAN /\ responseEndSeen' \in BOOLEAN
    BY <2>1, Zenon DEF StreamCompletes, TypeOK
  <2>5. respEnds' \in Nat
    BY <2>1 DEF StreamCompletes, TypeOK
  <2>6. AsyncTypes' /\ RestTypes'
    BY <1>1, <2>1, <2>4, <2>5 DEF AsyncTypes, RestTypes, TypeOK
  <2>7. QueueTypes' /\ IterTypes' /\ wire' \o pend'.muts = UpTo(issued')
    <3>1. CASE OwnsResume
      BY <2>1, <2>3, <3>1, FlushAndContinueKeeps
    <3>2. CASE ~OwnsResume
      <4>1. stopped' \in BOOLEAN
        BY <2>1, <2>2, <3>2, Zenon DEF TypeOK, Ops
      <4> QED
        BY <2>1, <2>3, <3>2, <4>1 DEF QueueTypes, IterTypes, TypeOK, upstream
    <3> QED BY <3>1, <3>2
  <2> QED BY <2>3, <2>6, <2>7 DEF Conserving, MutationsConserved
<1> QED BY <1>2, <1>3

\* Moving a goroutine on keeps its type.
LEMMA GoAtTyped ==
  ASSUME TypeOK, NEW g \in gor, NEW pc \in GoPCs
  PROVE  GoAt(g, pc) \in SUBSET [id : Nat, pc : GoPCs]
BY DEF GoAt, TypeOK

\* The steps of a goroutine lose no mutation.
LEMMA GoConserving ==
  ASSUME TypeOK, MutationsConserved, GoRuns PROVE Conserving'
<1>1. PICK g \in gor : GoReturns(g) \/ GoSchedules(g) \/ GoFinish(g)
  BY DEF GoRuns
<1>2. CASE GoReturns(g)
  <2>1. PICK op \in CallbackOps : pend' = Queued(op, 1)
    BY <1>2 DEF GoReturns
  <2>2. op \in Ops
    BY DEF CallbackOps
  <2>a. issued' = issued + 1 /\ issued \in Nat
    BY <1>2 DEF GoReturns, TypeOK
  <2>b. Queued(op, 1) \in Pends /\ wire \o Queued(op, 1).muts = UpTo(issued + 1)
    BY <2>2, QueuedAppends
  <2>3. /\ issued' \in Nat /\ pend' \in Pends /\ wire \o pend'.muts = UpTo(issued')
    BY <2>1, <2>a, <2>b
  <2>4. gor' \in SUBSET [id : Nat, pc : GoPCs]
    BY <1>2, GoAtTyped DEF GoReturns, GoPCs
  <2> QED
    BY <1>2, <2>3, <2>4 DEF GoReturns, Conserving, QueueTypes, IterTypes,
       AsyncTypes, RestTypes, TypeOK, MutationsConserved, request, upstream,
       response
<1>3. CASE GoSchedules(g)
  <2>1. gor' \in SUBSET [id : Nat, pc : GoPCs]
    BY <1>3, GoAtTyped DEF GoSchedules, GoPCs
  <2> QED
    BY <1>3, <2>1 DEF GoSchedules, Conserving, QueueTypes, IterTypes,
       AsyncTypes, RestTypes, TypeOK, MutationsConserved, request, upstream,
       response, queues, history
<1>4. CASE GoFinish(g)
  <2>1. gor' \in SUBSET [id : Nat, pc : GoPCs]
    BY <1>4, GoAtTyped DEF GoFinish, GoPCs
  <2>2. goStarted' \in BOOLEAN /\ goCompleted' \in BOOLEAN
    BY <1>4, Zenon DEF GoFinish, TypeOK
  <2>3. AsyncTypes' /\ RestTypes' /\ issued' = issued /\ issued \in Nat
    BY <1>4, <2>1, <2>2 DEF GoFinish, AsyncTypes, RestTypes, TypeOK, request,
       response, history
  <2>4. QueueTypes' /\ IterTypes' /\ wire' \o pend'.muts = UpTo(issued)
    <3>1. CASE GoMayFinish
      <4>1. FlushAndContinue(pend) /\ pend \in Pends /\ issued \in Nat
        BY <1>4, <3>1 DEF GoFinish, TypeOK
      <4> QED BY <4>1, FlushAndContinueKeeps, ZenonT(30) DEF MutationsConserved
    <3>2. CASE ~GoMayFinish
      BY <1>4, <3>2, SMTT(20) DEF GoFinish, QueueTypes, IterTypes, TypeOK, queues,
         upstream, MutationsConserved
    <3> QED BY <3>1, <3>2
  <2> QED BY <2>3, <2>4 DEF Conserving, MutationsConserved
<1> QED BY <1>1, <1>2, <1>3, <1>4

\* No step loses a mutation.
LEMMA NextConserving ==
  TypeOK /\ MutationsConserved /\ [Next]_vars => Conserving'
<1> SUFFICES ASSUME TypeOK, MutationsConserved, [Next]_vars PROVE Conserving'
  OBVIOUS
<1> USE DEF Conserving, QueueTypes, IterTypes, AsyncTypes, RestTypes, TypeOK,
        MutationsConserved, queues, async, request, upstream, response, history
<1>1. CASE OnRequestTrailers
  <2>1. IterTypes'
    BY <1>1, PassKeeps DEF OnRequestTrailers
  <2> QED BY <1>1, <2>1 DEF OnRequestTrailers, PassUnlessPending
<1>2. ASSUME NEW eos \in BOOLEAN, OnResponseHeaders(eos) PROVE Conserving'
  BY <1>2 DEF OnResponseHeaders
<1>3. ASSUME NEW eos \in BOOLEAN, OnResponseBody(eos) PROVE Conserving'
  BY <1>3 DEF OnResponseBody
<1>4. CASE OnStreamComplete
  <2>1. goCompleted' \in BOOLEAN /\ streamDone' \in BOOLEAN /\ responseEndSeen' \in BOOLEAN
    BY <1>4, Zenon DEF OnStreamComplete, StreamCompletes
  <2> QED BY <1>4, <2>1 DEF OnStreamComplete, StreamCompletes
<1>5. CASE UNCHANGED vars
  BY <1>5 DEF vars
<1> QED
  BY Zenon, <1>1, <1>2, <1>3, <1>4, <1>5, HeadersConserving, BodyConserving,
     CalloutConserving, GoConserving DEF Next, ClientSends, Finished

\* Types and conservation hold throughout.
LEMMA AlwaysConserving == Spec => [](TypeOK /\ MutationsConserved)
<1>1. Init => TypeOK /\ MutationsConserved
  BY InitConserving, ConservingIsTyped
<1>2. Conserving' => (TypeOK /\ MutationsConserved)'
  BY DEF Conserving, QueueTypes, IterTypes, AsyncTypes, RestTypes, TypeOK
<1>3. TypeOK /\ MutationsConserved /\ [Next]_vars => (TypeOK /\ MutationsConserved)'
  BY <1>2, NextConserving
<1> QED BY <1>1, <1>3, PTL DEF Spec

\* The filter's fields, Envoy's view of the stream and the queues keep their types
\* in every mode.
THEOREM FilterTypes == Spec => []TypeOK
BY AlwaysConserving, PTL

\* Whatever handlers start, whatever Envoy delivers and however the stream ends,
\* flush neither loses, repeats nor reorders a mutation.
THEOREM FilterConserves == Spec => []MutationsConserved
BY AlwaysConserving, PTL

(***************************************************************************)
(* A completed stream.  A goroutine that is not over was announced by      *)
(* goStarted or has been overtaken, and OnStreamComplete turns the first   *)
(* into the second.                                                        *)
(***************************************************************************)
GoFlags ==
  /\ \A g \in gor : g.pc # "over" => goStarted \/ goCompleted
  /\ streamDone /\ goStarted => goCompleted

\* The end of a request callback keeps GoFlags.
LEMMA SettleGoFlags ==
  ASSUME GoFlags, ~streamDone, streamDone' = streamDone, NEW op, NEW n, NEW p,
         NEW len, NEW stop, Settle(op, n, p, len, stop)
  PROVE  GoFlags'
BY Zenon DEF GoFlags, Settle, Start

\* Every step keeps GoFlags.
LEMMA NextGoFlags == TypeOK /\ GoFlags /\ [Next]_vars => GoFlags'
<1> SUFFICES ASSUME TypeOK, GoFlags, [Next]_vars PROVE GoFlags'
  OBVIOUS
<1> USE DEF async, response
<1>1. CASE OnRequestHeaders
  <2>1. \E op, n, p, len, stop : Settle(op, n, p, len, stop)
    BY <1>1, Zenon DEF OnRequestHeaders
  <2> QED BY <1>1, <2>1, SettleGoFlags DEF OnRequestHeaders
<1>2. ASSUME NEW eos \in BOOLEAN, OnRequestBody(eos) PROVE GoFlags'
  <2>1. UNCHANGED async \/ \E op, n, p, len, stop : Settle(op, n, p, len, stop)
    BY <1>2, Zenon DEF OnRequestBody
  <2> QED
    BY <1>2, <2>1, SettleGoFlags DEF OnRequestBody, RequestGoesOn, GoFlags
<1>3. CASE OnRequestTrailers
  BY <1>3 DEF OnRequestTrailers, GoFlags
<1>4. ASSUME NEW c \in inflight, OnHttpCalloutDone(c) PROVE GoFlags'
  <2>1. /\ gor' = gor /\ goStarted' = goStarted
        /\ \/ UNCHANGED <<streamDone, goCompleted>>
           \/ goCompleted' = (goCompleted \/ goStarted)
    BY <1>4 DEF OnHttpCalloutDone, StreamCompletes
  <2>2. goStarted \in BOOLEAN /\ goCompleted \in BOOLEAN
    BY DEF TypeOK
  <2> QED BY <2>1, <2>2 DEF GoFlags
<1>5. ASSUME NEW g \in gor, GoReturns(g) PROVE GoFlags'
  BY <1>5 DEF GoReturns, GoAt, GoFlags, TypeOK
<1>6. ASSUME NEW g \in gor, GoSchedules(g) PROVE GoFlags'
  BY <1>6 DEF GoSchedules, GoAt, GoFlags, TypeOK
<1>7. ASSUME NEW g \in gor, GoFinish(g) PROVE GoFlags'
  BY <1>7 DEF GoFinish, GoFlags
<1>8. ASSUME NEW eos \in BOOLEAN, OnResponseHeaders(eos) \/ OnResponseBody(eos)
      PROVE  GoFlags'
  BY <1>8 DEF OnResponseHeaders, OnResponseBody, GoFlags
<1>9. CASE OnStreamComplete
  BY <1>9, Zenon DEF OnStreamComplete, StreamCompletes, GoFlags
<1>10. CASE UNCHANGED vars
  BY <1>10 DEF vars, GoFlags
<1> QED
  BY <1>1, <1>2, <1>3, <1>4, <1>5, <1>6, <1>7, <1>8, <1>9, <1>10
     DEF Next, ClientSends, GoRuns, Finished

\* In every mode, if a stream ends between two callbacks (and not inside a
\* callout's continuation), nothing is applied to it, sent on it or resumed after
\* OnStreamComplete, although its callouts and goroutines may still finish.
THEOREM FilterSparesDeadStream ==
  ASSUME ~EndsInCallback PROVE Spec => DeadStreamUntouched
<1>1. Init => GoFlags
  BY DEF Init, GoFlags
<1>2. Spec => []GoFlags
  BY <1>1, AlwaysConserving, NextGoFlags, PTL DEF Spec
<1>3. TypeOK /\ GoFlags /\ [Next]_vars =>
        [streamDone' => UNCHANGED <<wire, resumes, replied, released, body>>]_vars
  <2> SUFFICES ASSUME TypeOK, GoFlags, Next, streamDone'
               PROVE  UNCHANGED <<wire, resumes, replied, released, body>>
    BY DEF vars, upstream
  <2> USE DEF upstream, response
  <2>1. CASE ClientSends
    BY <2>1, Zenon DEF ClientSends, OnRequestHeaders, OnRequestBody, OnRequestTrailers,
       RequestGoesOn
  <2>2. ASSUME NEW c \in inflight, OnHttpCalloutDone(c)
        PROVE  UNCHANGED <<wire, resumes, replied, released, body>>
    BY <2>2, ~EndsInCallback, Zenon DEF OnHttpCalloutDone, CalloutIsLive
  <2>3. ASSUME NEW g \in gor, GoReturns(g) \/ GoSchedules(g) \/ GoFinish(g)
        PROVE  UNCHANGED <<wire, resumes, replied, released, body>>
    <3>1. CASE GoFinish(g)
      <4>1. goCompleted
        BY <3>1 DEF GoFinish, GoFlags, TypeOK
      <4> QED BY <3>1, <4>1 DEF GoFinish, GoMayFinish
    <3> QED BY <2>3, <3>1, Zenon DEF GoReturns, GoSchedules
  <2>4. CASE OnStreamComplete \/ Finished
    BY <2>4, ZenonT(30) DEF OnStreamComplete, Finished, vars
  <2> QED
    BY <2>1, <2>2, <2>3, <2>4, Zenon DEF Next, GoRuns, OnResponseHeaders, OnResponseBody
<1> QED
  BY <1>2, <1>3, AlwaysConserving, PTL DEF Spec, DeadStreamUntouched

(***************************************************************************)
(* A filter whose handlers start what decides about the request in the     *)
(* callback that ends it; without a body handler, callouts also earlier.   *)
(* What is outstanding holds the request, at most one thing is, and the    *)
(* queues are empty behind a request that goes on.                         *)
(***************************************************************************)
AsyncAtEnd ==
  /\ \A m \in Modes : OpenAsync[m] \subseteq
       {"none", "refused", "early"} \cup (IF m = "none" THEN {"pending"} ELSE {})
  /\ FramesAfterReply \subseteq {"none"}

Gated ==
  /\ \A g, h \in gor : g = h
  /\ ~goStarted => \A g \in gor : g.pc = "over"
  /\ rx = "idle" => /\ ~released /\ replied = 0 /\ iter = "none" /\ pend = Empty
                    /\ calloutFn = 0 /\ calloutState = "Active" /\ ~stopped
  /\ rx # "closed" => gor = {} /\ ~goStarted
  /\ rx # "closed" /\ mode # "none" => calloutState # "Paused"
  /\ BufferBody /\ released => rx = "closed"
  /\ calloutFn # 0 => calloutState = "Paused"
  /\ calloutState = "Paused" \/ goStarted \/ replied > 0 =>
       iter = "stopped" /\ (mode = "streaming" \/ ~released)
  /\ calloutState = "Paused" => ~goStarted
  /\ calloutState = "Paused" \/ goStarted => replied = 0
  /\ replied > 0 => stopped
  /\ iter = "running" => pend.muts = <<>>
  /\ rx # "idle" /\ calloutState # "Paused" /\ ~goStarted /\ ~stopped => pend.muts = <<>>

\* The variables Gated is about.
GatedVars == <<mode, goStarted, gor, rx, released, replied, iter, calloutFn, calloutState,
               stopped, pend>>

\* A step that changes none of them keeps it.
LEMMA GatedStutters == ASSUME Gated, UNCHANGED GatedVars PROVE Gated'
BY DEF Gated, GatedVars, BufferBody

\* The callback that runs Settle finds nothing outstanding, and starts what it may.
MaySettle(op, stop) ==
  /\ rx # "closed" /\ rx' \in {"open", "closed"} /\ mode' = mode
  /\ replied = 0 /\ calloutState # "Paused"
  /\ mode = "streaming" \/ ~released
  /\ op.async = "go" => rx' = "closed"
  /\ op.async = "pending" => rx' = "closed" \/ mode = "none"
  /\ BufferBody => stop \/ rx' = "closed"

\* The common end of the request callbacks keeps Gated.
LEMMA SettleGated ==
  ASSUME TypeOK, Gated, NEW op \in Ops, NEW n \in Nat, NEW p \in Pends, NEW len,
         NEW stop \in BOOLEAN, Settle(op, n, p, len, stop), MaySettle(op, stop)
  PROVE  Gated'
<1>1. ~goStarted /\ gor = {} /\ calloutFn = 0
  BY DEF Gated, MaySettle
<1>2. op.async \in AsyncKinds
  BY DEF Ops
<1>3. BufferBody' = BufferBody
  BY SMTT(20) DEF MaySettle, BufferBody
<1>4. CASE op.async = "pending"
  <2>1. /\ calloutState' = "Paused" /\ ~goStarted' /\ gor' = {}
        /\ iter' = "stopped" /\ released' = released /\ replied' = replied
    BY <1>1, <1>4, Zenon DEF Settle, Start, ReturnStop
  <2>2. rx' # "idle" /\ replied' = 0 /\ ~(replied' > 0) /\ iter' # "running"
    BY <2>1, SMTT(20) DEF MaySettle
  <2> QED BY <1>3, <1>4, <2>1, <2>2 DEF Gated, MaySettle
<1>5. CASE op.async = "go"
  <2>1. /\ calloutState' = calloutState /\ calloutFn' = 0 /\ goStarted'
        /\ gor' = {[id |-> issued + n, pc |-> "running"]}
        /\ iter' = "stopped" /\ released' = released /\ replied' = replied
    BY <1>1, <1>5, Zenon DEF Settle, Start, ReturnStop
  <2>2. rx' = "closed" /\ replied' = 0 /\ ~(replied' > 0) /\ iter' # "running"
    BY <1>5, <2>1 DEF MaySettle
  <2> QED BY <1>3, <2>1, <2>2 DEF Gated, MaySettle
<1>6. CASE op.async \in {"none", "refused", "early"}
  <2>1. calloutState' # "Paused" /\ calloutFn' = 0 /\ ~goStarted' /\ gor' = {}
    BY <1>1, <1>6, Zenon DEF Settle, Start, MaySettle
  <2>2. /\ Flush(p, len)
        /\ IF stopped' \/ stop THEN ReturnStop ELSE Forward
    BY <1>6, <2>1 DEF Settle
  <2>3. CASE p.reply
    <3>1. stopped' /\ replied' = replied + 1
      BY <2>2, <2>3 DEF Flush, Reply
    <3>2. iter' = "stopped" /\ released' = released
      BY <2>2, <3>1 DEF ReturnStop
    <3> QED BY <1>3, <2>1, <3>1, <3>2 DEF Gated, MaySettle
  <2>4. CASE ~p.reply
    <3>1. replied' = 0 /\ ~(replied' > 0) /\ pend'.muts = <<>>
      BY <2>2, <2>4 DEF Flush, Apply, Empty, MaySettle
    <3>2. released' => released \/ ~stop
      BY <2>2, ZenonT(30) DEF ReturnStop
    <3> QED BY <1>3, <2>1, <3>1, <3>2 DEF Gated, MaySettle
  <2> QED BY <2>3, <2>4
<1> QED BY <1>2, <1>4, <1>5, <1>6 DEF AsyncKinds

\* The length of the headers and the body go together.
Measured ==
  /\ ~Mutable => /\ ~pend.replace /\ ~pend.strip
                 /\ body = "orig" /\ length = "orig" /\ sent = "orig"
  /\ rx # "closed" => ~pend.replace
  /\ ~released => body = "orig" /\ length # "repl"
  /\ LengthMatchesBody

\* What the callbacks hand to Settle, seen from the length.
MayMeasure(p, len, stop) ==
  /\ mode' = mode
  /\ Mutable => ~released
  /\ ~Mutable => ~p.replace /\ ~p.strip /\ len = "orig"
  /\ len # "repl"
  /\ rx' # "closed" \/ stop => ~p.replace

\* flush on the way out of a request callback keeps Measured.
LEMMA FlushMeasured ==
  ASSUME TypeOK, Measured, NEW p \in Pends, NEW len \in Lengths, NEW stop \in BOOLEAN,
         MayMeasure(p, len, stop), Flush(p, len),
         IF stopped' \/ stop THEN ReturnStop ELSE Forward
  PROVE  Measured'
<1> USE DEF Measured, LengthMatchesBody, MayMeasure, Mutable
<1>1. CASE p.reply
  <2>1. /\ stopped' /\ pend' = [p EXCEPT !.reply = FALSE, !.replace = @ /\ FALSE]
        /\ body' = body /\ length' = length
    BY <1>1 DEF Flush, Reply
  <2>2. ~pend'.replace /\ pend'.strip = p.strip
    BY <2>1 DEF Pends
  <2>3. released' = released /\ sent' = sent
    BY <2>1 DEF ReturnStop
  <2> QED BY <2>1, <2>2, <2>3
<1>2. CASE ~p.reply
  <2>1. /\ ~stopped' /\ ~pend'.replace /\ ~pend'.strip
        /\ length' = IF p.replace THEN "repl" ELSE len
        /\ body' = IF p.replace THEN "repl" ELSE body
    BY <1>2 DEF Flush, Apply, Empty
  <2>2. CASE stop
    BY <2>1, <2>2 DEF ReturnStop
  <2>3. CASE ~stop
    <3>1. released' /\ sent' = IF released THEN sent ELSE length'
      BY <2>1, <2>3 DEF Forward
    <3> QED BY <2>1, <3>1 DEF TypeOK, Lengths
  <2> QED BY <2>2, <2>3
<1> QED BY <1>1, <1>2

\* The common end of the request callbacks keeps Measured.
LEMMA SettleMeasured ==
  ASSUME TypeOK, Measured, NEW op \in Ops, NEW n \in Nat, NEW p \in Pends,
         NEW len \in Lengths, NEW stop \in BOOLEAN, Settle(op, n, p, len, stop),
         MayMeasure(p, len, stop)
  PROVE  Measured'
<1>1. CASE op.async = "pending" \/ goStarted'
  BY <1>1 DEF Settle, ReturnStop, Measured, LengthMatchesBody, MayMeasure, Mutable
<1>2. CASE ~(op.async = "pending" \/ goStarted')
  BY <1>2, FlushMeasured DEF Settle
<1> QED BY <1>1, <1>2

\* flush(true) of whoever held the request keeps both.
LEMMA ContinueGated ==
  ASSUME TypeOK, Gated, Measured, NEW p \in Pends, FlushAndContinue(p),
         calloutState = "Paused" \/ goStarted, ~Mutable => ~p.replace /\ ~p.strip,
         calloutState' # "Paused", calloutFn' = 0, ~goStarted', mode' = mode, rx' = rx,
         BufferBody => rx = "closed", \A g, h \in gor' : g = h,
         \A g \in gor' : g.pc = "over", rx # "closed" => gor' = {} /\ ~p.replace
  PROVE  Gated' /\ Measured'
<1>1. /\ replied = 0 /\ iter = "stopped" /\ rx # "idle"
      /\ mode = "streaming" \/ ~released
  BY DEF Gated
<1>2. BufferBody' = BufferBody /\ Mutable' = Mutable /\ rx' # "idle"
  BY <1>1 DEF BufferBody, Mutable
<1>3. CASE p.reply
  <2>1. /\ replied' = replied + 1 /\ stopped' /\ UNCHANGED <<iter, released, sent>>
        /\ pend' = [p EXCEPT !.reply = FALSE, !.replace = @ /\ TRUE]
        /\ UNCHANGED <<wire, length, body>>
    BY <1>3 DEF FlushAndContinue, Reply
  <2>2. pend'.replace = p.replace /\ pend'.strip = p.strip
    BY <2>1 DEF Pends
  <2>3. Gated'
    BY <1>1, <1>2, <2>1 DEF Gated
  <2>4. Measured'
    BY <1>1, <1>2, <2>1, <2>2 DEF Measured, LengthMatchesBody
  <2> QED BY <2>3, <2>4
<1>4. CASE ~p.reply
  <2>1. /\ replied' = 0 /\ ~(replied' > 0) /\ pend' = Empty /\ pend'.muts = <<>>
        /\ ~pend'.replace /\ ~pend'.strip
        /\ length' = IF p.replace THEN "repl" ELSE IF p.strip THEN "none" ELSE length
        /\ body' = IF p.replace THEN "repl" ELSE body
    BY <1>1, <1>4 DEF FlushAndContinue, Apply, Empty
  <2>2. iter' = "running" /\ released' /\ sent' = IF released THEN sent ELSE length'
    BY <1>4 DEF FlushAndContinue, Forward
  <2>3. Gated'
    BY <1>1, <1>2, <2>1, <2>2 DEF Gated
  <2>4. Mutable => ~released
    BY <1>1, SMTT(20) DEF Mutable
  <2>5. Measured'
    BY <1>1, <1>2, <2>1, <2>2, <2>4 DEF Measured, LengthMatchesBody, TypeOK, Lengths
  <2> QED BY <2>3, <2>5
<1> QED BY <1>3, <1>4

\* OnRequestHeaders keeps both.
LEMMA HeadersGated ==
  ASSUME AsyncAtEnd, TypeOK, MutationsConserved, Gated, Measured, OnRequestHeaders
  PROVE  Gated' /\ Measured'
<1>1. PICK eos \in BOOLEAN, op \in Ops :
        LET strip == ~eos /\ Mutable
            len == IF strip THEN "none" ELSE length
            P(o, n) == [Queued(o, n) EXCEPT !.strip = strip]
        IN  /\ MayStart(op, eos) /\ ~op.replace
            /\ rx' = IF eos THEN "closed" ELSE "open"
            /\ IF eos /\ HasBodyHandler /\ op.async \notin {"pending", "go"}
                 THEN \E bop \in Ops :
                        LET o == Both(op, bop)
                        IN  Settle(o, 2, P(o, 2), len, FALSE)
                 ELSE Settle(op, 1, P(op, 1), len, ~eos /\ BufferBody)
  BY Zenon DEF OnRequestHeaders
<1> DEFINE strip == ~eos /\ Mutable
           len == IF strip THEN "none" ELSE length
           P(o, n) == [Queued(o, n) EXCEPT !.strip = strip]
<1>2. /\ rx = "idle" /\ mode' = mode /\ rx' \in {"open", "closed"}
      /\ ~released /\ replied = 0 /\ calloutState = "Active" /\ pend = Empty
      /\ mode \in Modes
  BY <1>1 DEF OnRequestHeaders, Gated, TypeOK
<1>3. len \in Lengths /\ len # "repl" /\ (~Mutable => len = "orig")
  BY <1>2 DEF TypeOK, Lengths, Measured
<1>4. ASSUME NEW o \in Ops, NEW n \in Nat, ~o.replace
      PROVE  P(o, n) \in Pends /\ ~P(o, n).replace /\ (~Mutable => ~P(o, n).strip)
  <2>1. Queued(o, n) \in Pends
    BY QueuedAppends
  <2>2. ~Queued(o, n).replace
    BY <1>2, <1>4, Zenon DEF Queued, Empty
  <2> QED BY <2>1, <2>2, Zenon DEF Pends
<1>5. CASE eos /\ HasBodyHandler /\ op.async \notin {"pending", "go"}
  <2>1. PICK bop \in Ops : Settle(Both(op, bop), 2, P(Both(op, bop), 2), len, FALSE)
    BY <1>1, <1>5, Zenon
  <2> DEFINE o == Both(op, bop)
  <2>2. o \in Ops /\ ~o.replace
    BY BothIsOp DEF Both
  <2>3. rx' = "closed"
    BY <1>1, <1>5
  <2>4. MaySettle(o, FALSE)
    BY <1>2, <2>3 DEF MaySettle
  <2>5. P(o, 2) \in Pends /\ ~P(o, 2).replace /\ (~Mutable => ~P(o, 2).strip)
    BY <1>4, <2>2
  <2>6. MayMeasure(P(o, 2), len, FALSE)
    BY <1>2, <1>3, <2>5 DEF MayMeasure
  <2> HIDE DEF P, len, o
  <2>7. Settle(o, 2, P(o, 2), len, FALSE)
    BY <2>1, Zenon DEF o
  <2> QED BY <1>3, <2>2, <2>4, <2>5, <2>6, <2>7, SettleGated, SettleMeasured, Zenon
<1>6. CASE ~(eos /\ HasBodyHandler /\ op.async \notin {"pending", "go"})
  <2> DEFINE stop == ~eos /\ BufferBody
  <2>1. Settle(op, 1, P(op, 1), len, stop) /\ stop \in BOOLEAN
    BY <1>1, <1>6, Zenon
  <2>2. op.async = "go" => eos
    BY <1>1, <1>2 DEF AsyncAtEnd, MayStart
  <2>3. op.async = "pending" => eos \/ mode = "none"
    BY <1>1, <1>2 DEF AsyncAtEnd, MayStart
  <2>4. MaySettle(op, stop)
    BY <1>1, <1>2, <2>2, <2>3 DEF MaySettle
  <2>5. P(op, 1) \in Pends /\ ~P(op, 1).replace /\ (~Mutable => ~P(op, 1).strip)
    BY <1>1, <1>4
  <2>6. MayMeasure(P(op, 1), len, stop)
    BY <1>2, <1>3, <2>5 DEF MayMeasure
  <2> HIDE DEF P, len, stop
  <2> QED BY <1>3, <2>1, <2>4, <2>5, <2>6, SettleGated, SettleMeasured
<1> QED BY <1>5, <1>6

\* Frames and trailers that run no user code are held or passed on.
LEMMA PassGated ==
  ASSUME TypeOK, Gated, Measured, PassUnlessPending, rx = "open",
         rx' \in {"open", "closed"}, mode' = mode, UNCHANGED <<queues, async>>,
         BufferBody => rx' = "closed", replied = 0 \/ mode = "none"
  PROVE  Gated' /\ Measured'
<1> USE DEF queues, async
<1>1. /\ BufferBody' = BufferBody /\ Mutable' = Mutable /\ ~goStarted
      /\ replied' = replied /\ length' = length /\ body' = body
      /\ Mutable => ~released
  BY DEF BufferBody, Mutable, PassUnlessPending, Gated
<1>2. CASE AdmissionPending
  <2>1. iter' = "stopped" /\ released' = released /\ sent' = sent
    BY <1>2 DEF PassUnlessPending, ReturnStop
  <2> QED BY <1>1, <2>1 DEF Gated, Measured, LengthMatchesBody
<1>3. CASE ~AdmissionPending
  <2>1. iter' = "running" /\ released' /\ sent' = IF released THEN sent ELSE length
    BY <1>1, <1>3 DEF PassUnlessPending, Forward
  <2>2. calloutState # "Paused" /\ ~stopped /\ ~(replied > 0) /\ pend.muts = <<>>
    BY <1>1, <1>3 DEF AdmissionPending, Gated
  <2>3. Gated'
    BY <1>1, <2>1, <2>2 DEF Gated
  <2>4. Measured'
    BY <1>1, <2>1 DEF Measured, LengthMatchesBody
  <2> QED BY <2>3, <2>4
<1> QED BY <1>2, <1>3

\* OnRequestBody keeps both.
LEMMA BodyGated ==
  ASSUME AsyncAtEnd, TypeOK, MutationsConserved, Gated, Measured,
         NEW eos \in BOOLEAN, OnRequestBody(eos)
  PROVE  Gated' /\ Measured'
<1>1. /\ rx = "open" /\ mode' = mode /\ rx' = IF eos THEN "closed" ELSE "open"
      /\ mode \in Modes /\ replied \in Nat
      /\ replied = 0 \/ mode = "none"
  BY Zenon DEF OnRequestBody, RequestGoesOn, AsyncAtEnd, TypeOK
<1>2. CASE ~HasBodyHandler
  <2>1. PassUnlessPending /\ UNCHANGED <<queues, async>> /\ ~BufferBody
    BY <1>2 DEF OnRequestBody, HasBodyHandler, BufferBody
  <2> QED BY <1>1, <2>1, PassGated
<1>3. CASE HasBodyHandler /\ BufferBody /\ ~eos
  <2>1. ReturnStop /\ UNCHANGED <<wire, length, body, replied, queues, async>>
    BY <1>3, Zenon DEF OnRequestBody, HasBodyHandler, BufferBody
  <2>2. BufferBody' = BufferBody /\ Mutable' = Mutable /\ rx' = rx
    BY <1>1, <1>3 DEF BufferBody, Mutable
  <2> QED
    BY <1>1, <2>1, <2>2 DEF ReturnStop, queues, async, Gated, Measured, LengthMatchesBody
<1>4. CASE HasBodyHandler /\ (BufferBody => eos)
  <2> DEFINE len == IF Mutable THEN "data" ELSE length
             p(o) == Queued(o, 1)
  <2>1. PICK op \in Ops : MayStart(op, eos) /\ Settle(op, 1, p(op), len, FALSE)
    BY <1>4, ZenonT(30) DEF OnRequestBody, HasBodyHandler, BufferBody
  <2>2. /\ replied = 0 /\ calloutState # "Paused"
        /\ mode = "streaming" \/ BufferBody
        /\ mode = "streaming" \/ ~released
    BY <1>1, <1>4, FilterAssumption DEF HasBodyHandler, BufferBody, Gated, AllModes
  <2>3. (op.async = "go" => eos) /\ (op.async = "pending" => eos)
    BY <1>1, <1>4, <2>1 DEF AsyncAtEnd, MayStart, HasBodyHandler
  <2>4. MaySettle(op, FALSE)
    BY <1>1, <1>4, <2>2, <2>3 DEF MaySettle
  <2>5. len \in Lengths /\ len # "repl" /\ (~Mutable => len = "orig")
    BY DEF TypeOK, Lengths, Measured
  <2>6. p(op) \in Pends
    BY QueuedAppends
  <2>7. Mutable => ~released /\ eos
    BY <1>4, <2>2 DEF Mutable, BufferBody
  <2>8. ~Mutable => ~p(op).replace /\ ~p(op).strip
    BY ZenonT(30) DEF Queued, Measured
  <2>9. MayMeasure(p(op), len, FALSE)
    BY <1>1, <2>5, <2>7, <2>8 DEF MayMeasure
  <2> HIDE DEF p, len
  <2> QED BY <2>1, <2>4, <2>5, <2>6, <2>9, SettleGated, SettleMeasured, Zenon
<1> QED BY <1>2, <1>3, <1>4

\* OnHttpCalloutDone keeps both.
LEMMA CalloutGated ==
  ASSUME TypeOK, MutationsConserved, Gated, Measured, NEW c \in inflight,
         OnHttpCalloutDone(c)
  PROVE  Gated' /\ Measured'
<1>1. mode' = mode /\ rx' = rx /\ gor' = gor /\ goStarted' = goStarted
  BY DEF OnHttpCalloutDone, request
<1>2. CASE ~CalloutIsLive
  <2>1. UNCHANGED <<mode, rx, gor, goStarted, queues, upstream, calloutFn, calloutState>>
    BY <1>1, <1>2 DEF OnHttpCalloutDone
  <2>2. Gated'
    BY <2>1 DEF queues, upstream, Gated, BufferBody
  <2>3. Measured'
    BY <2>1, SMTT(20) DEF queues, upstream, Measured, Mutable, LengthMatchesBody
  <2> QED
    BY <2>2, <2>3
<1>3. CASE CalloutIsLive
  <2>1. calloutState = "Paused" /\ OwnsResume /\ ~goStarted
    BY <1>3 DEF CalloutIsLive, OwnsResume, Gated
  <2>2. PICK op \in CallbackOps : /\ calloutFn' = 0 /\ calloutState' = "Flushed"
                                  /\ FlushAndContinue(Queued(op, 1))
    BY <1>3, <2>1 DEF OnHttpCalloutDone
  <2> DEFINE p == Queued(op, 1)
  <2>3. p \in Pends
    BY QueuedAppends DEF CallbackOps
  <2>4. ~Mutable => ~p.replace /\ ~p.strip
    BY Zenon DEF Queued, Measured
  <2>5. rx # "closed" => ~p.replace
    BY ZenonT(30) DEF Queued, Measured, CallbackOps
  <2>6. BufferBody => rx = "closed"
    BY <2>1 DEF Gated, BufferBody
  <2> HIDE DEF p
  <2>7. FlushAndContinue(p)
    BY <2>2 DEF p
  <2> QED BY <1>1, <2>1, <2>2, <2>3, <2>4, <2>5, <2>6, <2>7, ContinueGated DEF Gated
<1> QED BY <1>2, <1>3

\* The steps of a goroutine keep both.
LEMMA GoGated ==
  ASSUME TypeOK, MutationsConserved, Gated, Measured, GoRuns
  PROVE  Gated' /\ Measured'
<1>1. PICK g \in gor : GoReturns(g) \/ GoSchedules(g) \/ GoFinish(g)
  BY SMTT(20) DEF GoRuns
<1>2. goStarted /\ gor = {g} /\ rx = "closed" /\ calloutState # "Paused"
  <2>1. g.pc # "over"
    BY <1>1 DEF GoReturns, GoSchedules, GoFinish
  <2> QED BY <2>1 DEF Gated
<1>3. ASSUME NEW pc, gor' = GoAt(g, pc)
      PROVE  gor' = {[g EXCEPT !.pc = pc]} /\ \A h, i \in gor' : h = i
  BY <1>2, <1>3 DEF GoAt
<1>4. CASE GoReturns(g)
  <2>1. PICK op \in CallbackOps : pend' = Queued(op, 1)
    BY <1>4 DEF GoReturns
  <2>2. \A h, i \in gor' : h = i
    BY <1>3, <1>4 DEF GoReturns
  <2>3. ~Mutable => ~pend'.replace /\ ~pend'.strip
    BY <2>1, ZenonT(30) DEF Queued, Measured
  <2>4. iter = "stopped" /\ replied = 0
    BY <1>2 DEF Gated
  <2>5. UNCHANGED <<mode, stopped, calloutState, calloutFn, goStarted, rx, iter,
                    released, replied, sent, length, body>>
    BY <1>4 DEF GoReturns, request, upstream
  <2>6. Gated'
    BY <1>2, <2>2, <2>4, <2>5 DEF Gated, BufferBody
  <2>7. Measured'
    BY <1>2, <2>3, <2>5 DEF Measured, Mutable, LengthMatchesBody
  <2> QED BY <2>6, <2>7
<1>5. CASE GoSchedules(g)
  <2>1. \A h, i \in gor' : h = i
    BY <1>3, <1>5 DEF GoSchedules
  <2>2. UNCHANGED <<mode, pend, stopped, calloutState, calloutFn, goStarted, rx, iter,
                    released, replied, sent, length, body>>
    BY <1>5 DEF GoSchedules, request, upstream, queues
  <2>3. Gated'
    BY <1>2, <2>1, <2>2 DEF Gated, BufferBody
  <2>4. Measured'
    BY <2>2 DEF Measured, Mutable, LengthMatchesBody
  <2> QED BY <2>3, <2>4
<1>6. CASE GoFinish(g)
  <2>1. gor' = {[g EXCEPT !.pc = "over"]} /\ \A h, i \in gor' : h = i
    BY <1>3, <1>6 DEF GoFinish
  <2>2. \A h \in gor' : h.pc = "over"
    <3>1. g \in [id : Nat, pc : GoPCs]
      BY DEF TypeOK
    <3> QED BY <2>1, <3>1
  <2>3. UNCHANGED <<mode, calloutState, calloutFn, rx>>
    BY <1>6 DEF GoFinish, request
  <2>4. CASE GoMayFinish
    <3>1. ~goStarted' /\ FlushAndContinue(pend)
      BY <1>6, <2>4 DEF GoFinish
    <3>2. pend \in Pends /\ (~Mutable => ~pend.replace /\ ~pend.strip)
      BY DEF TypeOK, Measured
    <3>3. calloutFn' = 0 /\ calloutState' # "Paused"
      BY <1>2, <2>3 DEF Gated
    <3> QED BY <1>2, <2>1, <2>2, <2>3, <3>1, <3>2, <3>3, ContinueGated
  <2>5. CASE ~GoMayFinish
    <3>1. UNCHANGED <<goStarted, pend, stopped, iter, released, replied, sent, length, body>>
      BY <1>6, <2>5 DEF GoFinish, queues, upstream
    <3>2. Gated'
      BY <1>2, <2>1, <2>2, <2>3, <3>1 DEF Gated, BufferBody
    <3>3. Measured'
      BY <2>3, <3>1 DEF Measured, Mutable, LengthMatchesBody
    <3> QED BY <3>2, <3>3
  <2> QED BY <2>4, <2>5
<1> QED BY <1>1, <1>4, <1>5, <1>6

\* Every step keeps both.
LEMMA NextGated ==
  ASSUME AsyncAtEnd, TypeOK, MutationsConserved, Gated, Measured, [Next]_vars
  PROVE  Gated' /\ Measured'
<1> DEFINE Rest == <<GatedVars, length, sent, body>>
<1>1. ASSUME UNCHANGED Rest PROVE Gated' /\ Measured'
  <2>1. Gated'
    BY <1>1, GatedStutters
  <2> QED BY <1>1, <2>1 DEF GatedVars, Measured, Mutable, LengthMatchesBody
<1>2. CASE OnRequestTrailers
  <2>1. /\ PassUnlessPending /\ rx = "open" /\ rx' = "closed" /\ mode' = mode
        /\ UNCHANGED <<queues, async>> /\ (replied = 0 \/ mode = "none")
    BY <1>2, ZenonT(30) DEF OnRequestTrailers, RequestGoesOn, AsyncAtEnd
  <2> QED BY <2>1, PassGated
<1>3. ASSUME NEW eos \in BOOLEAN, OnResponseHeaders(eos) \/ OnResponseBody(eos)
      PROVE  UNCHANGED Rest
  BY <1>3 DEF OnResponseHeaders, OnResponseBody, GatedVars, queues, async, request, upstream
<1>4. ASSUME OnStreamComplete \/ UNCHANGED vars PROVE UNCHANGED Rest
  BY <1>4 DEF OnStreamComplete, vars, GatedVars, queues, async, request, upstream
<1> QED
  BY <1>1, <1>2, <1>3, <1>4, HeadersGated, BodyGated, CalloutGated, GoGated
     DEF Next, ClientSends, Finished

\* Both hold throughout.
LEMMA AlwaysGated ==
  ASSUME AsyncAtEnd PROVE Spec => [](Gated /\ Measured)
<1>1. Init => Gated /\ Measured
  BY DEF Init, Gated, Measured, Mutable, BufferBody, LengthMatchesBody, Empty
<1>2. TypeOK /\ MutationsConserved /\ Gated /\ Measured /\ [Next]_vars => (Gated /\ Measured)'
  BY AsyncAtEnd, NextGated
<1> QED BY <1>1, <1>2, AlwaysConserving, PTL DEF Spec

\* A request whose admission callout or goroutine is outstanding, or that was answered
\* locally, does not go on, whatever body frames and trailers Envoy delivers and
\* whatever the filter does with the body.
THEOREM AdmissionIsGated ==
  ASSUME AsyncAtEnd PROVE Spec => []AdmissionGate
<1>1. Gated => AdmissionGate
  BY DEF Gated, AdmissionGate
<1> QED BY <1>1, AlwaysGated, PTL

\* A request that is on its way carries every mutation its handlers, continuations
\* and goroutines issued.
THEOREM AdmissionAppliesMutations ==
  ASSUME AsyncAtEnd PROVE Spec => []MutationsApplied
<1>1. TypeOK /\ MutationsConserved /\ Gated => MutationsApplied
  <2> SUFFICES ASSUME TypeOK, MutationsConserved, Gated, iter = "running"
               PROVE  wire = UpTo(issued)
    BY DEF MutationsApplied
  <2>1. pend.muts = <<>> /\ wire \in Seq(Nat)
    BY DEF Gated, TypeOK
  <2>2. wire \o <<>> = wire
    BY <2>1, ConcatEmptySeq
  <2> QED BY <2>1, <2>2 DEF MutationsConserved
<1> QED BY <1>1, AlwaysGated, AlwaysConserving, PTL

\* A request leaves with the client's content-length only if it has the client's body,
\* and with the length of a replacement only if that is its body.
THEOREM LengthIsThatOfBody ==
  ASSUME AsyncAtEnd PROVE Spec => []LengthMatchesBody
<1>1. Measured => LengthMatchesBody
  BY DEF Measured
<1> QED BY <1>1, AlwaysGated, PTL

\* ContinueRequest is called only while the request is stopped.
THEOREM AdmissionResumesStopped ==
  ASSUME AsyncAtEnd PROVE Spec => ResumeOnlyWhenStopped
<1>1. Gated /\ [Next]_vars => [resumes' # resumes => iter = "stopped"]_vars
  <2> SUFFICES ASSUME Gated, Next, resumes' # resumes PROVE iter = "stopped"
    BY DEF vars, upstream
  <2> USE DEF upstream
  <2>1. ASSUME NEW op, NEW n, NEW p, NEW len, NEW stop, Settle(op, n, p, len, stop)
        PROVE  resumes' = resumes
    BY <2>1 DEF Settle, ReturnStop
  <2>2. ~ClientSends
    BY <2>1, ZenonT(30) DEF ClientSends, OnRequestHeaders, OnRequestBody, OnRequestTrailers,
       PassUnlessPending, ReturnStop
  <2>3. ASSUME NEW c \in inflight, OnHttpCalloutDone(c) PROVE iter = "stopped"
    BY <2>3 DEF OnHttpCalloutDone, CalloutIsLive, Gated
  <2>4. ASSUME NEW g \in gor, GoReturns(g) \/ GoSchedules(g) \/ GoFinish(g)
        PROVE  iter = "stopped"
    BY <2>4 DEF GoReturns, GoSchedules, GoFinish, Gated
  <2> QED
    BY <2>2, <2>3, <2>4 DEF Next, GoRuns, OnResponseHeaders, OnResponseBody,
       OnStreamComplete, Finished, vars
<1> QED BY <1>1, AlwaysGated, PTL DEF Spec, ResumeOnlyWhenStopped

\* After SendLocalResponse the request is neither released, resumed nor answered
\* again, although Envoy may go on delivering it.
THEOREM AdmissionReplyIsFinal ==
  ASSUME AsyncAtEnd PROVE Spec => LocalReplyIsFinal
<1>1. TypeOK /\ Gated /\ [Next]_vars =>
        [/\ replied' > 0 => UNCHANGED <<released, resumes>>
         /\ replied > 0 => UNCHANGED replied]_vars
  <2> DEFINE Final == /\ replied' > 0 => UNCHANGED <<released, resumes>>
                      /\ replied > 0 => UNCHANGED replied
  <2> SUFFICES ASSUME TypeOK, Gated, Next PROVE Final
    BY DEF vars, upstream
  <2> USE DEF upstream
  <2>1. replied \in Nat /\ (replied > 0 => AdmissionPending)
    BY DEF Gated, AdmissionPending, TypeOK
  <2>2. ASSUME NEW op, NEW n, NEW p, NEW len, NEW stop, Settle(op, n, p, len, stop),
               replied = 0
        PROVE  Final
    <3>1. CASE op.async = "pending" \/ goStarted'
      BY <2>2, <3>1 DEF Settle
    <3>2. CASE ~(op.async = "pending" \/ goStarted') /\ p.reply
      BY <2>2, <3>2 DEF Settle, Flush, Reply, ReturnStop
    <3>3. CASE ~(op.async = "pending" \/ goStarted') /\ ~p.reply
      BY <2>2, <3>3 DEF Settle, Flush, Apply
    <3> QED BY <3>1, <3>2, <3>3
  <2>3. ASSUME NEW p, FlushAndContinue(p), replied = 0 PROVE Final
    <3>1. CASE p.reply
      BY <2>3, <3>1 DEF FlushAndContinue
    <3>2. CASE ~p.reply
      BY <2>3, <3>2 DEF FlushAndContinue, Apply
    <3> QED BY <3>1, <3>2
  <2>4. ASSUME PassUnlessPending PROVE Final
    BY <2>1, <2>4 DEF PassUnlessPending, ReturnStop
  <2>5. ASSUME OnRequestHeaders PROVE Final
    <3>1. replied = 0 /\ \E op, n, p, len, stop : Settle(op, n, p, len, stop)
      BY <2>5, Zenon DEF OnRequestHeaders, Gated
    <3> QED BY <2>2, <3>1
  <2>6. ASSUME NEW eos \in BOOLEAN, OnRequestBody(eos) PROVE Final
    <3>1. replied = 0 \/ ~HasBodyHandler
      BY <2>6, AsyncAtEnd, Zenon DEF OnRequestBody, RequestGoesOn, AsyncAtEnd, HasBodyHandler
    <3>2. CASE ~HasBodyHandler
      BY <2>4, <2>6, <3>2 DEF OnRequestBody, HasBodyHandler, BufferBody
    <3>3. CASE HasBodyHandler
      <4>1. \/ ReturnStop /\ UNCHANGED replied
            \/ \E op, n, p, len, stop : Settle(op, n, p, len, stop)
        BY <2>6, <3>3, ZenonT(30) DEF OnRequestBody
      <4> QED BY <2>2, <3>1, <3>3, <4>1 DEF ReturnStop
    <3> QED BY <3>2, <3>3
  <2>7. ASSUME NEW c \in inflight, OnHttpCalloutDone(c) PROVE Final
    <3>1. CASE ~CalloutIsLive
      BY <2>7, <3>1 DEF OnHttpCalloutDone
    <3>2. CASE CalloutIsLive
      <4>1. replied = 0 /\ OwnsResume
        BY <3>2 DEF CalloutIsLive, OwnsResume, Gated
      <4>2. \E p : FlushAndContinue(p)
        BY <2>7, <3>2, <4>1 DEF OnHttpCalloutDone
      <4> QED BY <2>3, <4>1, <4>2
    <3> QED BY <3>1, <3>2
  <2>8. ASSUME NEW g \in gor, GoReturns(g) \/ GoSchedules(g) \/ GoFinish(g) PROVE Final
    <3>1. CASE GoFinish(g)
      <4>1. replied = 0
        BY <3>1 DEF GoFinish, Gated
      <4>2. UNCHANGED upstream \/ \E p : FlushAndContinue(p)
        BY <3>1 DEF GoFinish
      <4> QED BY <2>3, <4>1, <4>2
    <3> QED BY <2>8, <3>1 DEF GoReturns, GoSchedules
  <2> QED
    BY <2>4, <2>5, <2>6, <2>7, <2>8 DEF Next, ClientSends, GoRuns, OnRequestTrailers,
       OnResponseHeaders, OnResponseBody, OnStreamComplete, Finished, vars
<1> QED
  BY <1>1, AlwaysGated, AlwaysConserving, PTL DEF Spec, LocalReplyIsFinal

(***************************************************************************)
(* The end of the response.  What responseEndSeen claims was delivered.    *)
(***************************************************************************)
EndsCounted == (responseEndSeen \/ streamDone) => respEnds > 0

\* In every mode and with every kind of asynchronous work, a stream that is over has
\* given the response handler its EndStream, from Envoy or synthesized.
THEOREM ResponseEndIsDelivered == Spec => []ResponseEndDelivered
<1>1. Init => EndsCounted
  BY DEF Init, EndsCounted
<1>2. TypeOK /\ EndsCounted /\ [Next]_vars => EndsCounted'
  <2> SUFFICES ASSUME TypeOK, EndsCounted, [Next]_vars PROVE EndsCounted'
    OBVIOUS
  <2>1. respEnds \in Nat
    BY DEF TypeOK
  <2>2. ASSUME StreamCompletes PROVE EndsCounted'
    BY <2>1, <2>2 DEF StreamCompletes, EndsCounted
  <2>3. ASSUME UNCHANGED <<responseEndSeen, respEnds, streamDone>> PROVE EndsCounted'
    BY <2>3 DEF EndsCounted
  <2>4. ASSUME NEW eos \in BOOLEAN, OnResponseHeaders(eos) \/ OnResponseBody(eos)
        PROVE  EndsCounted'
    BY <2>1, <2>4 DEF OnResponseHeaders, OnResponseBody, EndsCounted
  <2>5. ASSUME ClientSends \/ GoRuns \/ UNCHANGED vars
        PROVE  UNCHANGED <<responseEndSeen, respEnds, streamDone>>
    BY <2>5, Zenon DEF ClientSends, OnRequestHeaders, OnRequestBody, OnRequestTrailers, GoRuns,
       GoReturns, GoSchedules, GoFinish, vars, response
  <2>6. ASSUME NEW c \in inflight, OnHttpCalloutDone(c) PROVE EndsCounted'
    BY <2>2, <2>3, <2>6 DEF OnHttpCalloutDone
  <2> QED
    BY <2>2, <2>3, <2>4, <2>5, <2>6 DEF Next, OnStreamComplete, Finished
<1>3. EndsCounted => ResponseEndDelivered
  BY DEF EndsCounted, ResponseEndDelivered
<1> QED BY <1>1, <1>2, <1>3, AlwaysConserving, PTL DEF Spec
=============================================================================

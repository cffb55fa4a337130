---------------------------- MODULE StreamObjects ----------------------------
(***************************************************************************)
(* What filters keep in process-wide tables for one stream: the bag of      *)
(* stream objects (SetStreamObject, GetStreamObject), found by a nonce, and *)
(* the entry through which the internal access logger calls                 *)
(* OnStreamFinalized, found by the request id or a minted header.           *)
(*                                                                         *)
(* Streams run on several worker threads; a callback of one stream is one   *)
(* step, because every table operation in it is locked and concerns names   *)
(* of that stream only.  Filters are numbered in chain order.               *)
(***************************************************************************)
EXTENDS Naturals, Sequences, FiniteSets

CONSTANTS
    Streams,
    Filters,     \* 1 .. n
    Finalized,   \* those registered WithOnStreamFinalized
    Nonces,
    Ids,         \* request ids
    None

VARIABLES
    requestId, \* of a stream; None when Envoy generates none
    stage,     \* of a stream: "open", "ending" (in OnStreamComplete), "over", "logged"
    seen,      \* callbacks of each filter: subset of {"request", "response", "complete"}
    answered,  \* a local reply ended the request's way down the chain
    nonce,     \* filter.streamObjectNonce
    idInState, \* filter state "up.stream_object_id"
    bags,      \* streamObjectBags: nonce -> what was set, as <<stream, filter>>
    header,    \* x-transit-stream-id of the request
    key,       \* filter.finalizedKey, without the filter's name
    entries,   \* streamFinalizedEntries: <<filter, key>> -> <<stream, filter>>
    logged,    \* access loggers that have had the end of the stream
    \* history
    dropped,   \* nonces whose bag was dropped
    shared,    \* nonces more than one filter of a stream holds
    finalized  \* of each filter: the streams whose end OnStreamFinalized was given

objects == <<nonce, idInState, bags, dropped, shared>>
objectVars == <<requestId, stage, seen, answered, objects, header, key, entries, logged, finalized>>

Actors == Streams \X Filters

\* Nothing is named None, and a minted key is no request id.
ASSUME ObjectsAssumption ==
    /\ Finalized \subseteq Filters
    /\ None \notin Nonces \cup Ids \cup Actors
    /\ Ids \cap Actors = {}

\* Streams in flight at a time have different request ids.
ObjectsInit ==
    /\ requestId \in [Streams -> Ids \cup {None}]
    /\ \A s, t \in Streams : s # t => requestId[s] # requestId[t] \/ requestId[s] = None
    /\ stage = [s \in Streams |-> "open"]
    /\ seen = [a \in Actors |-> {}]
    /\ answered = [s \in Streams |-> FALSE]
    /\ nonce = [a \in Actors |-> None]
    /\ idInState = [s \in Streams |-> None]
    /\ bags = [n \in {} |-> {}]
    /\ header = [s \in Streams |-> None]
    /\ key = [a \in Actors |-> None]
    /\ entries = [k \in {} |-> None]
    /\ logged = [s \in Streams |-> {}]
    /\ dropped = {} /\ shared = {}
    /\ finalized = [a \in Actors |-> <<>>]

-----------------------------------------------------------------------------
(* Bags.  A handler leads to one of a set of outcomes.                      *)

Outcome(n, i, b, sh) == [nonce |-> n, idInState |-> i, bags |-> b, shared |-> sh]

\* mintStreamObjectNonce: 128 random bits, never those of a bag long gone.
Mint == Nonces \ dropped

\* getOrCreateBag takes whatever bag InsertStreamObjectBag returns.
TakesLoaded(n) == TRUE

\* InsertStreamObjectBag stored a new bag, so getOrCreateBag mints no further.
Inserted(n) == n \notin DOMAIN bags

\* SetStreamObject: into the bag of the filter's own nonce, or into a new one.
\* written says whether a new nonce reaches filter state: at once, or by a flush
\* that sends no local reply.
SetObject(a, written) ==
    IF nonce[a] \in DOMAIN bags
      THEN {Outcome(nonce, idInState, [bags EXCEPT ![nonce[a]] = @ \cup {a}], shared)}
      ELSE {Outcome([nonce EXCEPT ![a] = n],
                    IF written THEN [idInState EXCEPT ![a[1]] = n] ELSE idInState,
                    [m \in DOMAIN bags \cup {n} |->
                       (IF m \in DOMAIN bags THEN bags[m] ELSE {})
                         \cup (IF m = n THEN {a} ELSE {})],
                    shared)
            : n \in {m \in Mint : Inserted(m)}}

\* GetStreamObject: a filter without a nonce takes the one in filter state.
GetObject(a) ==
    IF nonce[a] # None
      THEN {}
      ELSE {Outcome([nonce EXCEPT ![a] = idInState[a[1]]], idInState, bags,
                    shared \cup ({idInState[a[1]]} \ {None}))}

\* What a handler of a may do with stream objects.
Handler(a, written) ==
    {Outcome(nonce, idInState, bags, shared)} \cup SetObject(a, written) \cup GetObject(a)

\* The handler runs, then the bags whose filter is in drop are dropped.
RunHandler(a, written, drop) ==
    \E o \in Handler(a, written) :
      LET gone == {o.nonce[d] : d \in drop}
      IN  /\ nonce' = o.nonce /\ idInState' = o.idInState /\ shared' = o.shared
          /\ bags' = [n \in DOMAIN o.bags \ gone |-> o.bags[n]]
          /\ dropped' = dropped \cup (gone \ {None})

-----------------------------------------------------------------------------
(* The filter's callbacks.                                                  *)

\* The minted key is stamped with the mutations the handler queued.
StampsWithFlush(a, reply) ==
    IF requestId[a[1]] # None
      THEN key' = [key EXCEPT ![a] = requestId[a[1]]] /\ UNCHANGED header
      ELSE /\ key' = [key EXCEPT ![a] = a]
           /\ header' = IF reply THEN header ELSE [header EXCEPT ![a[1]] = a]

\* The request id, or a minted key, which is written to the request at once.
StreamKey(a, reply) ==
    IF requestId[a[1]] # None
      THEN key' = [key EXCEPT ![a] = requestId[a[1]]] /\ UNCHANGED header
      ELSE /\ key' = [key EXCEPT ![a] = a]
           /\ header' = [header EXCEPT ![a[1]] = a]

\* registerFinalized.
RegisterFinalized(a, reply) ==
    IF a[2] \notin Finalized \/ key[a] # None
      THEN UNCHANGED <<key, header, entries>>
      ELSE /\ StreamKey(a, reply)
           /\ entries' = [k \in DOMAIN entries \cup {<<a[2], key'[a]>>} |->
                            IF k = <<a[2], key'[a]>> THEN a ELSE entries[k]]

\* The handler, registerFinalized, then flush, which writes filter state unless
\* it sends a local reply.
OnRequestHeaders(a) ==
    /\ stage[a[1]] = "open" /\ ~answered[a[1]]
    /\ seen[a] = {}
    /\ \A f \in Filters : f < a[2] => "request" \in seen[<<a[1], f>>]
    /\ seen' = [seen EXCEPT ![a] = {"request"}]
    /\ \E reply \in BOOLEAN :
         /\ answered' = [answered EXCEPT ![a[1]] = reply]
         /\ RunHandler(a, ~reply, {})
         /\ RegisterFinalized(a, reply)
    /\ UNCHANGED <<requestId, stage, logged, finalized>>

\* The response handler; also of a filter the request never reached, when one
\* before it answered.
OnResponseHeaders(a) ==
    /\ stage[a[1]] = "open"
    /\ "response" \notin seen[a]
    /\ answered[a[1]] \/ \A f \in Filters : "request" \in seen[<<a[1], f>>]
    /\ seen' = [seen EXCEPT ![a] = @ \cup {"response"}]
    /\ RunHandler(a, TRUE, {})
    /\ UNCHANGED <<requestId, stage, answered, header, key, entries, logged, finalized>>

\* OnStreamComplete drops the filter's bag when no OnStreamFinalized is to come.
DropsOnComplete(a) == IF a[2] \in Finalized THEN {} ELSE {a}

\* The stream ends, at any time: the synthesized end of the response may still
\* use objects, then the bag is dropped.
OnStreamComplete(a) ==
    /\ stage[a[1]] \in {"open", "ending"}
    /\ "complete" \notin seen[a]
    /\ \A f \in Filters : f < a[2] => "complete" \in seen[<<a[1], f>>]
    /\ seen' = [seen EXCEPT ![a] = @ \cup {"complete"}]
    /\ RunHandler(a, TRUE, DropsOnComplete(a))
    /\ stage' = [stage EXCEPT ![a[1]] =
                   IF \A f \in Filters \ {a[2]} : "complete" \in seen[<<a[1], f>>]
                     THEN "over" ELSE "ending"]
    /\ UNCHANGED <<requestId, answered, header, key, entries, logged, finalized>>

-----------------------------------------------------------------------------
(* The internal access logger.                                              *)

\* AccessLogTypeDownstreamEnd.
IsEnd(s, type) == type = "end"

\* The request id, or the minted key the request carries.
LogKey(s) == IF requestId[s] # None THEN requestId[s] ELSE header[s]

\* takeFinalizedEntry deletes the entry it returns.
Take(k) == entries' = [m \in DOMAIN entries \ {k} |-> entries[m]]

\* The callback, then the bag of the stream the entry belongs to.
Finalize(s, k) ==
    LET a == entries[k]
    IN  /\ Take(k)
        /\ finalized' = [finalized EXCEPT ![a] = Append(@, s)]
        /\ bags' = [n \in DOMAIN bags \ {nonce[a]} |-> bags[n]]
        /\ dropped' = dropped \cup ({nonce[a]} \ {None})

\* OnLog for the end of stream s, or for its start while it is open.
OnLog(s, f, type) ==
    /\ f \in Finalized /\ f \notin logged[s]
    /\ type = "end" => stage[s] = "over"
    /\ type = "start" => stage[s] = "open"
    /\ LET k == <<f, LogKey(s)>>
       IN  IF IsEnd(s, type) /\ LogKey(s) # None /\ k \in DOMAIN entries
             THEN Finalize(s, k)
             ELSE UNCHANGED <<entries, finalized, bags, dropped>>
    /\ logged' = IF type = "end" THEN [logged EXCEPT ![s] = @ \cup {f}] ELSE logged
    /\ stage' = IF type = "end" /\ Finalized \subseteq logged[s] \cup {f}
                  THEN [stage EXCEPT ![s] = "logged"] ELSE stage
    /\ UNCHANGED <<requestId, seen, answered, nonce, idInState, header, key, shared>>

ObjectsNext ==
    \/ \E a \in Actors : OnRequestHeaders(a) \/ OnResponseHeaders(a) \/ OnStreamComplete(a)
    \/ \E s \in Streams, f \in Filters, type \in {"start", "end"} : OnLog(s, f, type)

ObjectsSpec == ObjectsInit /\ [][ObjectsNext]_objectVars

-----------------------------------------------------------------------------
(* Properties.                                                              *)

\* The nonces a stream may look a bag up by: its filters' and its filter state's.
Reaches(s) == {idInState[s]} \cup {nonce[<<s, f>>] : f \in Filters}

\* GetStreamObject, in a filter or in the cluster's load balancer, never returns
\* an object another stream has set, however the streams interleave, nonces
\* collide and bags are dropped.
ObjectsStayInStream ==
    \A s \in Streams : stage[s] # "logged" =>
      \A n \in Reaches(s) \cap DOMAIN bags : bags[n] \subseteq {s} \X Filters

\* OnStreamFinalized of a filter is called once, for its own stream and after
\* every filter's OnStreamComplete; and once the stream is logged it has been
\* called for every filter that saw the request.
FinalizedOnce ==
    \A a \in Actors :
      /\ finalized[a] \in {<<>>, <<a[1]>>}
      /\ finalized[a] # <<>> => stage[a[1]] # "open"
      /\ stage[a[1]] = "logged" /\ key[a] # None => finalized[a] # <<>>

\* A stream that is logged leaves nothing in either table, when each of its
\* filters with an OnStreamFinalized saw the request.
NothingLeaks ==
    \A s \in Streams :
      (stage[s] = "logged" /\ \A f \in Finalized : key[<<s, f>>] # None) =>
        /\ \A n \in DOMAIN bags : bags[n] \cap ({s} \X Filters) = {}
        /\ \A k \in DOMAIN entries : entries[k][1] # s

\* Both: every filter that saw a request is finalized once, for its own stream, and
\* then nothing of the stream is left in either table.
StreamsSettled == FinalizedOnce /\ NothingLeaks
=============================================================================

---------------------------- MODULE RequestSink ----------------------------
(***************************************************************************)
(* examples/request-ui: a filter that observes every exchange              *)
(* (up.WithExchangeObserver), a sink that stores one record per stream and *)
(* broadcasts it, and the page that shows the records live.                *)
(*                                                                         *)
(* Envoy's workers send to a channel and never wait; one goroutine writes  *)
(* batches to the store, a ring in memory or a Postgres table, and sends   *)
(* what it stored to the subscribers of /api/stream; Stop drains the       *)
(* channel.  A record is the stream it was built for; what the response    *)
(* handler adds to it is left out.  The page loads the newest records,     *)
(* follows the stream, and polls with since=lastID once it is lost.        *)
(***************************************************************************)
EXTENDS Naturals, Sequences, FiniteSets, FiniteSetsExt

CONSTANTS
    Stores,     \* subset of {"memory", "postgres"}
    N,          \* bound: streams Envoy runs through the filter
    ChanCap,    \* capacity of Sink.ch
    BatchMax,   \* the length at which a batch is written at once
    RingCap,    \* capacity of memStore
    SubCap,     \* capacity of a subscriber's channel
    Limit,      \* the page's limit on a query
    NoSlot      \* an empty context

VARIABLES
    store,      \* which backend, or "none" when Start could not connect
    \* WithExchangeObserver
    exchange,   \* per stream: "new", "request" or "finalized"
    context,    \* per stream: its slot, or NoSlot
    slots,      \* the slots of sync.Pool: the accumulator each points to, or NoSlot
    \* Sink
    chan, batch,
    table,      \* pgStore: all rows, in the order of their ids
    ring, head, size, seq,   \* memStore
    writer,     \* "off", "run", "drain" or "done"
    stopCh, stopCall,        \* Stop: "no", "waiting" or "returned"
    sub,        \* the page's subscription: the queued records, or NoSlot
    \* the page
    rows, lastID,
    loading, load,   \* loadInitial: where it is, and the answer on its way
    page,            \* "closed", "connecting", "live" or "polling"
    \* history
    accepted,   \* records Send put into the channel
    failed,     \* how many of them an insert lost
    before      \* how many were accepted when Stop was called

exchangeVars == <<exchange, context, slots>>
storeVars == <<table, ring, head, size, seq>>
pageVars == <<rows, lastID, loading, load, page>>
sinkVars == <<store, exchangeVars, chan, batch, storeVars, writer, stopCh, stopCall,
              sub, pageVars, accepted, failed, before>>

Exchanges == 1 .. N   \* numbered in the order they begin
Slots == 1 .. N

\* An empty context is none of the slots or streams, and the ring has a slot.
ASSUME SinkAssumption ==
    /\ N \in Nat /\ RingCap \in Nat \ {0}
    /\ NoSlot \notin Exchanges \cup Slots

\* New and Start: with Postgres out of reach Start returns without a store.
SinkInit ==
    /\ store \in Stores \cup (IF "postgres" \in Stores THEN {"none"} ELSE {})
    /\ exchange = [s \in Exchanges |-> "new"]
    /\ context = [s \in Exchanges |-> NoSlot]
    /\ slots = [i \in Slots |-> NoSlot]
    /\ chan = <<>> /\ batch = <<>> /\ table = <<>>
    /\ ring = [i \in 0 .. RingCap - 1 |-> NoSlot] /\ head = 0 /\ size = 0 /\ seq = 0
    /\ writer = IF store = "none" THEN "off" ELSE "run"
    /\ stopCh = FALSE /\ stopCall = "no" /\ sub = NoSlot
    /\ rows = {} /\ lastID = 0 /\ loading = "no" /\ load = <<>> /\ page = "closed"
    /\ accepted = <<>> /\ failed = 0 /\ before = 0

-----------------------------------------------------------------------------
(* The exchange observer, on the worker of the stream.                      *)

\* The handler of WithExchangeObserver: a slot nobody uses, pointed at a fresh
\* accumulator, becomes the stream's context.
takeSlot(s) ==
    LET i == Min({j \in Slots : slots[j] = NoSlot})
    IN  /\ slots' = [slots EXCEPT ![i] = s]
        /\ context' = [context EXCEPT ![s] = i]

\* Its OnStreamFinalized, after the hook: the slot is emptied and returned.
returnSlot(s) ==
    /\ slots' = [slots EXCEPT ![context[s]] = NoSlot]
    /\ context' = [context EXCEPT ![s] = NoSlot]

\* The OnRequest hook of the filter starts the accumulator.
OnRequest(s) ==
    /\ exchange[s] = "new" /\ \A t \in 1 .. s - 1 : exchange[t] # "new"
    /\ takeSlot(s)
    /\ exchange' = [exchange EXCEPT ![s] = "request"]
    /\ UNCHANGED <<store, chan, batch, storeVars, writer, stopCh, stopCall, sub, pageVars,
                   accepted, failed, before>>

\* Sink.Send: a full channel drops the record.
Send(r) ==
    IF Len(chan) < ChanCap
      THEN chan' = Append(chan, r) /\ accepted' = Append(accepted, r)
      ELSE UNCHANGED <<chan, accepted>>

\* The OnFinalized hook builds the record from the accumulator and sends it.
OnFinalized(s) ==
    /\ exchange[s] = "request"
    /\ Send(slots[context[s]])
    /\ exchange' = [exchange EXCEPT ![s] = "finalized"]
    /\ returnSlot(s)
    /\ UNCHANGED <<store, batch, storeVars, writer, stopCh, stopCall, sub, pageVars,
                   failed, before>>

-----------------------------------------------------------------------------
(* The stores.  A query returns ids; a record's id is its place in all that *)
(* was stored.                                                              *)

Reversed(ids) == [i \in DOMAIN ids |-> ids[Len(ids) + 1 - i]]
FirstN(ids, n) == SubSeq(ids, 1, IF Len(ids) < n THEN Len(ids) ELSE n)

\* memStore.query that cuts to the limit before it turns the order.
memQueryCut(since) ==
    LET snap == [i \in 1 .. size |-> ring[((head - i) + RingCap) % RingCap].id]
        newer(id) == since > 0 => id > since
        ids == FirstN(SelectSeq(snap, newer), Limit)
    IN  IF since > 0 THEN Reversed(ids) ELSE ids

\* memStore.query: the ring from the newest back, filtered, turned if since is
\* given, cut to the limit.
memQuery(since) ==
    LET snap == [i \in 1 .. size |-> ring[((head - i) + RingCap) % RingCap].id]
        newer(id) == since > 0 => id > since
        ids == SelectSeq(snap, newer)
    IN  FirstN(IF since > 0 THEN Reversed(ids) ELSE ids, Limit)

\* pgStore.query: WHERE id > since in ascending order, or the newest first.
pgQuery(since) ==
    LET newer(id) == since > 0 => id > since
        ids == SelectSeq([i \in DOMAIN table |-> i], newer)
    IN  FirstN(IF since > 0 THEN ids ELSE Reversed(ids), Limit)

\* handleRequests, with a limit and perhaps since.
query(since) == IF store = "memory" THEN memQuery(since) ELSE pgQuery(since)

-----------------------------------------------------------------------------
(* The writer goroutine.                                                    *)

\* broadcaster.send for each of the records: a full subscriber misses it.
Broadcast(ids) ==
    sub' = IF sub = NoSlot THEN NoSlot ELSE FirstN(sub \o ids, SubCap)

\* memStore.insert: record j takes id seq + j and the slot j places on from head, over
\* whatever is there; what it returns is sent in order.
memFlush(recs) ==
    LET in(i) == {j \in DOMAIN recs : (head + j - 1) % RingCap = i}
    IN  /\ ring' = [i \in 0 .. RingCap - 1 |->
                      IF in(i) = {} THEN ring[i]
                      ELSE [id |-> seq + Max(in(i)), rec |-> recs[Max(in(i))]]]
        /\ head' = (head + Len(recs)) % RingCap
        /\ size' = Min({size + Len(recs), RingCap})
        /\ seq' = seq + Len(recs)
        /\ Broadcast([j \in DOMAIN recs |-> seq + j])
        /\ UNCHANGED <<table, failed>>

\* pgStore.insert: the COPY may fail and the batch is gone; what was copied is read
\* back newest first, to be sent in that order, unless that fails.
pgFlush(recs) ==
    /\ \/ /\ failed' = failed + Len(recs)
          /\ UNCHANGED <<table, sub>>
       \/ /\ table' = table \o recs
          /\ \/ Broadcast(Reversed([i \in DOMAIN recs |-> Len(table) + i]))
             \/ UNCHANGED sub
          /\ UNCHANGED failed
    /\ UNCHANGED <<ring, head, size, seq>>

\* flush of the writer.
flush(recs) ==
    /\ batch' = <<>>
    /\ \/ recs = <<>> /\ UNCHANGED <<storeVars, sub, failed>>
       \/ recs # <<>> /\ store = "memory" /\ memFlush(recs)
       \/ recs # <<>> /\ store = "postgres" /\ pgFlush(recs)

\* case r := <-s.ch, in the loop.
WriterTakes ==
    /\ writer = "run" /\ chan # <<>>
    /\ chan' = Tail(chan)
    /\ LET b == Append(batch, Head(chan))
       IN  IF Len(b) >= BatchMax THEN flush(b)
           ELSE batch' = b /\ UNCHANGED <<storeVars, sub, failed>>
    /\ UNCHANGED <<store, exchangeVars, writer, stopCh, stopCall, pageVars, accepted, before>>

\* case <-ticker.C.
WriterTicks ==
    /\ writer = "run" /\ batch # <<>>
    /\ flush(batch)
    /\ UNCHANGED <<store, exchangeVars, chan, writer, stopCh, stopCall, pageVars, accepted, before>>

\* The stop signal writes the batch and leaves what is still queued.
WriterStopsUndrained ==
    /\ writer = "run" /\ stopCh
    /\ writer' = "done"
    /\ flush(batch)
    /\ UNCHANGED <<store, exchangeVars, chan, stopCh, stopCall, pageVars, accepted, before>>

\* case <-s.stopCh.
WriterStops ==
    /\ writer = "run" /\ stopCh
    /\ writer' = "drain"
    /\ UNCHANGED <<store, exchangeVars, chan, batch, storeVars, stopCh, stopCall, sub,
                   pageVars, accepted, failed, before>>

\* The drain: while records are queued they join the batch; then flush and return.
WriterDrains ==
    /\ writer = "drain"
    /\ \/ /\ chan # <<>>
          /\ batch' = Append(batch, Head(chan)) /\ chan' = Tail(chan)
          /\ UNCHANGED <<writer, storeVars, sub, failed>>
       \/ /\ chan = <<>>
          /\ flush(batch)
          /\ writer' = "done"
          /\ UNCHANGED chan
    /\ UNCHANGED <<store, exchangeVars, stopCh, stopCall, pageVars, accepted, before>>

-----------------------------------------------------------------------------
(* Stop, called by Group.Stop when Envoy destroys the filter.               *)

Stop ==
    /\ stopCall = "no"
    /\ stopCh' = TRUE
    /\ stopCall' = "waiting"
    /\ before' = Len(accepted)
    /\ UNCHANGED <<store, exchangeVars, chan, batch, storeVars, writer, sub, pageVars,
                   accepted, failed>>

\* The writer is done, if it was started; then the HTTP server shuts down, which
\* waits five seconds for an open /api/stream and leaves it open.
StopReturns ==
    /\ stopCall = "waiting" /\ writer \in {"off", "done"}
    /\ stopCall' = "returned"
    /\ UNCHANGED <<store, exchangeVars, chan, batch, storeVars, writer, stopCh, sub,
                   pageVars, accepted, failed, before>>

-----------------------------------------------------------------------------
(* The page (sink/index.html) and the handlers it talks to.                 *)

Serving == store # "none" /\ stopCall # "returned"
Largest(ids) == Max(Range(ids) \cup {lastID})
sinkOnly == <<store, exchangeVars, chan, batch, storeVars, writer, stopCh, stopCall,
              accepted, failed, before>>

\* loadInitial and connectSSE: the answer to the one and the subscription of the
\* other come in either order.
PageOpens ==
    /\ page = "closed" /\ Serving
    /\ page' = "connecting" /\ loading' = "asked"
    /\ UNCHANGED <<sinkOnly, sub, rows, lastID, load>>

\* The answer leaves the server.
LoadAnswered ==
    /\ loading = "asked" /\ Serving
    /\ loading' = "answered" /\ load' = query(0)
    /\ UNCHANGED <<sinkOnly, sub, rows, lastID, page>>

\* The rows that came meanwhile are replaced, lastID is kept.
LoadShown ==
    /\ loading = "answered"
    /\ loading' = "shown"
    /\ rows' = Range(load) /\ lastID' = Largest(load)
    /\ load' = <<>>
    /\ UNCHANGED <<sinkOnly, sub, page>>

\* handleStream subscribes.
Subscribe ==
    /\ page = "connecting" /\ Serving
    /\ page' = "live" /\ sub' = <<>>
    /\ UNCHANGED <<sinkOnly, rows, lastID, load, loading>>

\* onmessage: a record not newer than the newest seen is taken for a repetition.
OnMessage ==
    /\ page = "live" /\ sub # <<>>
    /\ sub' = Tail(sub)
    /\ IF Head(sub) > lastID
         THEN lastID' = Head(sub) /\ rows' = rows \cup {Head(sub)}
         ELSE UNCHANGED <<lastID, rows>>
    /\ UNCHANGED <<sinkOnly, load, loading, page>>

\* onerror: the connection is lost, the page polls from now on.
StreamLost ==
    /\ page \in {"connecting", "live"}
    /\ page' = "polling" /\ sub' = NoSlot
    /\ UNCHANGED <<sinkOnly, rows, lastID, load, loading>>

\* poll: what is newer than lastID, oldest first.
Poll ==
    /\ page = "polling" /\ Serving
    /\ LET ids == query(lastID)
       IN  rows' = rows \cup Range(ids) /\ lastID' = Largest(ids)
    /\ UNCHANGED <<sinkOnly, sub, load, loading, page>>

-----------------------------------------------------------------------------
SinkWriter == WriterTakes \/ WriterTicks \/ WriterStops \/ WriterDrains
Page == PageOpens \/ LoadAnswered \/ LoadShown \/ Subscribe \/ OnMessage \/ StreamLost \/ Poll

SinkNext ==
    \/ \E s \in Exchanges : OnRequest(s) \/ OnFinalized(s)
    \/ SinkWriter
    \/ Stop \/ StopReturns
    \/ Page

SinkSpec == SinkInit /\ [][SinkNext]_sinkVars

-----------------------------------------------------------------------------
(* Properties.                                                              *)

Stored == IF store = "memory" THEN seq ELSE Len(table)
Held(id) == IF store = "memory" THEN id \in seq - size + 1 .. seq ELSE id \in DOMAIN table

\* A stream is recorded once, whichever slot of the pool it had.  No record is lost
\* but by a full channel or a failed insert, and none is stored twice or in another
\* order than it was sent, across the writer's batches, the wrap of the ring and the
\* drain; and when Stop returns, everything sent before it was called has been written.
RecordsKept ==
    /\ \A i, j \in DOMAIN accepted : accepted[i] = accepted[j] => i = j
    /\ Stored + failed + Len(batch) + Len(chan) = Len(accepted)
    /\ \A i \in 0 .. RingCap - 1 :
         ring[i] # NoSlot => ring[i].rec = accepted[ring[i].id]
    /\ failed = 0 => table = SubSeq(accepted, 1, Len(table))
    /\ (stopCall = "returned" /\ writer = "done") => Stored + failed >= before

\* A page that polls never skips a record: whatever it has passed over with its
\* lastID and the store still holds, it shows.
PollSkipsNothing ==
    [][page = "polling" /\ loading # "answered" =>
         \A id \in lastID + 1 .. lastID' : lastID > 0 /\ Held(id) => id \in rows']_sinkVars

\* Every record the server sends over /api/stream to an open page ends up in the
\* page's table (sink.go: "SSE: new records in real time").
LiveTableComplete ==
    [][page = "live" /\ sub # NoSlot /\ sub # <<>> /\ sub' = Tail(sub)
         => Head(sub) \in rows']_sinkVars
=============================================================================

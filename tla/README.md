# Transit in TLA+

Transit is a Go layer for Envoy dynamic modules. `up/` is the SDK that the author of a
filter or a cluster writes against, `down/` the boundary to Envoy's C ABI, `examples/` the
programs built on both. This directory models the parts whose correctness depends on
order: what callbacks, goroutines and threads do to state they share. TLC checks the
models on small instances, TLAPS proves the central invariants for every instance.

`PROJECT.json` lists the components, the runs, the lines each definition models, the
hazards and the theorems. Source paths below are relative to `src/`.

To repeat a check, in this directory:

    tlc -workers 2 -config MCStreams.cfg MCStreams
    tlapm FilterProofs.tla

## The system

Envoy calls a filter on the worker thread of its stream, and a cluster on the main thread
(life, hosts) and on the workers (host selection). Transit adds goroutines, which may
touch neither: they hand closures to a scheduler that runs them on the right thread.

- A **request filter** queues mutations and flushes them when a callback returns or when
  what the request waits for has ended: one callout, a group of them, a gRPC call, a
  goroutine. The handoff between "the callback returns" and "the answer is here" is an
  atomic, `calloutState`.
- **Stream objects**, `OnStreamFinalized` and the exchange observer tie the filters and the
  access logger of one stream together through two process-wide tables.
- A **cluster** publishes hosts through `HostSet`, which a `HostRefreshLoop` or a fetch
  goroutine feeds; workers look hosts up, at once or with `AsyncHostSelector`, which
  subscribes to a `StreamPromise` and answers on the main thread.
- **Groups, sidecars and pipeline configurations** run beside all of this and must stop
  when Envoy destroys what they belong to.
- The **examples** put these together: routers with a two-tier configuration, MCP front
  ends, filters that ask a service for admission, a request log, a response tap, a
  WebSocket proxy, load-balancer policies.

## Modules

The library:

| module | models | one action is |
|---|---|---|
| CalloutHandoff | `HTTPCallout` in the request callback against `OnHttpCalloutDone` (`up/filter.go`, `up/writer.go`) | one atomic operation. `worker` and `cb[d]` are program counters; `SameThread` says whether a delivery occupies the worker thread |
| Filter | one stream through the filter, in the body modes none, streaming, buffered, mutable | one callback, which runs to its end on the worker thread; a `Go` goroutine has three. What one run of user code queues is one number, so that lost, doubled and reordered mutations show in `wire`. `iter`, `released`, `rx` are Envoy's side |
| CalloutGroup | `HTTPCalloutAllSettled`, `HTTPCalloutSequence` | one round of a loop or one answer; what `flush` does is Filter's subject |
| GoDo | `Writer.Go` with a fan-out of `Writer.Do` | a step of the goroutine, a scheduled closure, an answer |
| GrpcCallout | `GRPCCallout` and the frame codec (`up/grpc.go`) | one event of Envoy's HTTP stream; bytes are numbers, chunks are cut anywhere |
| StreamPromise, ResolveOnce | `up/stream_promise.go` and what it promises | one critical section or call. `ImplementsResolveOnce` is the refinement: a subscriber's outcome is decided where `Resolve` marks its entry |
| HostSelection | `AsyncHostSelector`, `ClusterLBCompletion`, the handle table, `choose_host`, `cancel_host_selection` | one critical section of a worker or of the main thread |
| HostSet | `Apply`, `specEqual`, `AddHosts`, `RemoveHosts` | `Apply` is split where a reader can tell: hosts added, map published, hosts removed |
| HostRefreshLoop | ticker, `RefreshOnce`, `Stop`, the queue of closures | one critical section; a snapshot is its version |
| StreamObjects | both tables, nonces, the minted header, the internal logger | one callback: its table operations are locked and concern names of its own stream |
| GroupLifecycle | `up/group.go`, `up/sidecar.go`, the filter factory | a step of Start, Stop, of an actor or of the watcher |
| PipelineConfig | `up/pipeline_config*.go` over a file rewritten in place | a read, a compare, each of the two stores |
| ClusterLifecycle | the cluster exports and `ClusterHandle` (`down/abi_impl/cluster.go`) under cluster-group, cluster-router and cluster-shard-router | a callback of the main thread, a scheduled event, a step of the fetch goroutine, a worker's choice |

The examples:

| module | models |
|---|---|
| RouteConfig | the configuration servers' store and validation, `Resolve`, shard and model lookup: pure operators, which give ClusterLifecycle its constants |
| Admission | ratelimit, grpc-callout and jwt-callout, with the rate limiter's configuration replaced while it waits |
| AsyncRouter | cluster-async-router: token registry, goroutine per selection, retries |
| HostPolicies | five cluster extensions and four load-balancer policies that choose at once; least-conn reads the counters of other workers one at a time; llm-decider's filter, with its routing core external |
| McpSessions | mcp-profile-gateway (on callouts and on net/http), mcp-profile-router and the catalog behind them |
| RequestSink | request-ui: exchange observer with pooled accumulators, sink, writer goroutine, memory ring and Postgres table, the page's polling and live feed |
| SessionProxy | ws-proxy: the two pumps of a session and the tap they share without a lock |
| StreamTap | `buffer.Ring` and `buffer.HeadTail` under sse-tap, on real wrap-around arithmetic, against "the first and last bytes of the stream" |

`…Params` modules hold constants and assumptions that a component shares with the module
that runs it; `…Proofs` modules hold theorems.

`MC…` modules instantiate components for TLC. Several of them are sums: a variable `part`
says which component runs, the others keep their initial state. This is sound because
the components put together share no variable: any behaviour of all of them at once is
an interleaving of behaviours of each, and no property relates two. Where components do
share state they are composed in one module: Filter has callouts and goroutines in one
stream, ClusterLifecycle the store, the routers and the upstream filter, RequestSink the
observer, the sink and the page, StreamObjects all filters and the logger.

## Runs

Seven runs pass.

| run | components and instance | states | shows |
|---|---|---|---|
| `callouts` | CalloutHandoff with 3 deliveries; CalloutGroup with 3 callouts; GoDo with 3 calls, one with a deadline; GrpcCallout with 3 messages, 2 statuses; Admission with 2 updates of the configuration | 23 997 | one flush, on a stopped and living request; a group's callback once, with each callout's own outcome; a gRPC answer whole or an error; admission by the service's word or by the mode of the configuration that asked; nobody waits for ever (`WaitEnds`) |
| `filter` | Filter with 3 frames, all body modes; StreamTap with 5 bodies, head 6, tail 5 | 3661 | mutations conserved and applied before a release; no release under decision; content-length matches; a local reply is final; a dead stream is left alone; a held request is settled; the tap has both ends |
| `tables` | StreamObjects with 2 streams, 2 filters, 3 nonces; HostSet with 2 keys, 4 hosts, 1 reader; RequestSink with 3 streams and every capacity 2 | 466 476 | nothing crosses streams or is left behind; published hosts are live; records are kept, in order, and polls skip none |
| `refresh` | HostRefreshLoop with 1 caller, 1 change, 1 failed fetch; StreamPromise with 2 resolvers, 3 callbacks | 55 437 | no apply after `Stop`, catching up, `Stop` returns; StreamPromise implements ResolveOnce, liveness included |
| `host_selection` | HostSelection with 2 requests; AsyncRouter with 2 requests of 2 attempts; HostPolicies with 9 policies, 2 requests of 2 attempts, 2 changes of health | 73 398 | one answer, one release, no leak; every selection whose promise is resolved is answered; every attempt goes where its policy promises |
| `background` | PipelineConfig with 1 caller, 3 changes, 1 undecodable; GroupLifecycle with 2 factories; ClusterLifecycle with 3 kinds, 3 versions, 2 queued events; SessionProxy with 2 responses | 140 405 | nothing outlives what it works on; a routed request finds its host; a configuration is kept until a good one comes, and that one arrives; whoever stops something returns |
| `mcp` | 3 front ends, 2 profiles, 2 servers, 2 sessions per server, 1 outage, 1 restart with another configuration | 251 473 | a call runs in its own session on the server that owns the tool; what is listed can be called; every request settles |

Five are expected to be violated: `filter_body_gate`, `filter_go_gate`,
`host_selection_late_answer`, `group_reload`, `live_feed`; see *Departures*.

Why the bounds are enough. Three deliveries are the real one and two duplicates, so that one
duplicate can overtake the other. Three frames are a first, a middle and a last one. Two
resolvers give a winner and a loser; three callbacks give one before, one in and one after
the drained list. Two selections are what one stale or shared handle needs. Four hosts are
two keys, each with an old and a new host alive at once. Three callouts have a first, a
middle and a last. Three nonces are two of one stream and one of the other. In the sink
every capacity is one less than what N streams can fill, so that the channel is full, the
ring wraps and a batch is cut; the tap's bodies are longer than head and tail together, and
one of them is shorter than either. Three contents of a file, one of them undecodable, give
a bad content between two good ones. One client of the MCP front ends can hold a session
for one profile and use it for the other, and its requests meet servers that forgot them.
The limits on retries and changes of health leave one retry after one change.

Deadlock is checked in all but `tables`, where a sink and its page may come to rest, and in
the violated runs of GroupLifecycle and RequestSink. `tables` uses symmetry of streams and
nonces, which are only compared; it checks no liveness.

## Fairness

Fairness appears only where the code or Envoy's scheduling gives it.

- The worker thread keeps running, and Envoy answers every callout it has accepted,
  because every callout has a timeout (CalloutHandoff, Filter, CalloutGroup, GoDo,
  GrpcCallout, McpSessions: weak fairness). Neither the end of a stream nor a response
  is fair.
- Goroutines go on, and scheduled closures run (Filter, GoDo, AsyncRouter, GroupLifecycle,
  SessionProxy, PipelineConfig). In Filter clients finish their requests; in AsyncRouter
  nobody has to send a body.
- The main thread runs what is scheduled, each completion in its turn: strong fairness
  of `Complete(s)`, because the choice among queued completions must not starve one
  (HostSelection). Nobody has to resolve a promise, and nobody has to cancel.
- A `select` with two ready cases takes each now and then, so that a cancelled context is
  seen (HostRefreshLoop, PipelineConfig, ClusterLifecycle: strong fairness of the loop's
  end); a mutex is granted now and then; a source that is asked for ever succeeds now and
  then (HostRefreshLoop, ClusterLifecycle).
- A `Resolve` or `OnResolve` call that has begun goes on (StreamPromise).

## Proofs

All theorems are about the safety part of a specification and hold for every value of
the constants under the module's named ASSUME and the hypotheses in the statement.

**CalloutHandoffProofs.** `FlushedOnce` is not inductive: it needs to know who may flush.
The invariant says who owns the flush (`Ownership`), who holds the continuation
(`Holder`), what was sent (`Ledger`), that deliveries exclude each other (`Exclusion`)
and, when deliveries run on the worker thread, that whoever waits has somebody to wait
for (`Nested`). Flushing once, running the continuation once and the finality of a
denial hold on one thread and on two; finding the stream stopped, completeness and the
protection of a dead stream only on one.

**FilterProofs.** Types and `MutationsConserved` are inductive together, in every mode.
`DeadStreamUntouched` needs `GoFlags`: a goroutine not over belongs to `goStarted` or
`goCompleted`. The gate, `MutationsApplied`, `ResumeOnlyWhenStopped` and
`LocalReplyIsFinal` are proved for a filter without a body handler whose request handler
does not call `Go` (`CalloutAdmission`), from `Admits`, which ties `iter`, `stopped` and
`calloutState` together. The hypothesis is what the two violated runs show to be needed.

**StreamPromiseProofs.** The invariant follows a registered callback from the list to the
drained list to its call. `PromiseImplements` is the safety part of the refinement.

**HostSelectionProofs.** The life of a handle, the uniqueness of addresses, what a worker
in the middle of a cancel and the main thread in the middle of an answer know, and who
still has to release. Needs `~ReuseTokens`.

**HostSetProofs.** The map under construction is sound as well, and shares a host with the
published one only under the same key. Needs `~MayFail`; `SnapshotApplied` also needs
`SpecEqualExact`, that `specEqual` tells the specs in use apart.

**HostRefreshLoopProofs.** `mu` is held exactly while a closure applies, and such a closure
has found the loop open.

**CalloutGroupProofs.** What is settled, what is in flight and what is still to be started
account for every slot, for any number of callouts.

**PipelineConfigProofs.** Value and version are stored one after the other. With
`~Concurrent` at most one fetch runs (`OneFetch`), it holds what the file source's cache
holds (`FetchHolds`), and a cache with data is never behind the snapshot (`ReadInOrder`);
so a fetch that passes the version test brings something newer. Coarse clocks are covered.

Only model-checked: all liveness properties, the liveness part of `ImplementsResolveOnce`,
`ResponseEndDelivered`, `LengthMatchesBody`, the body modes of the gate, and all of GoDo,
GrpcCallout, StreamObjects, GroupLifecycle, ClusterLifecycle and the examples' modules.
Liveness under fairness is out of reach of the proof system, and so is what a fold or a
recursive function computes for every input (the frame codec, the ring, the routing).

## Departures from comments and documents

Five runs are expected to be violated; `PROJECT.json` quotes the lines.

- `filter_body_gate`: with a body handler, a frame that arrives while the headers' callout
  is pending runs the handler, flushes and releases the request (`up/filter.go:508` only
  asks whether *this* callback started a callout).
- `filter_go_gate`: without a body handler, `OnRequestBody` and `OnRequestTrailers` look at
  `calloutState` and `stopped` but not at `goStarted` (`up/filter.go:477`, `:550`).
- `host_selection_late_answer`: `Complete` marks the completion under its mutex and
  calls Envoy after the unlock, so a cancel can return in between.
- `group_reload`: two configs under one filter name share the registration's group, and
  destroying the first stops the actors of the second (`up/filter.go:118`).
- `live_feed`: the Postgres store broadcasts a batch newest first, and the page drops what is
  not newer than the last message (`examples/request-ui/sink/sink.go:440`).

The following were found with TLC by changing a constant of a `.cfg` or by checking a
definition that no run lists. They are kept here and as commented definitions.

| module | setting or definition | what happens | against |
|---|---|---|---|
| CalloutHandoff | `SameThread = FALSE`: `RequestSettled` | `OnHttpCalloutDone` fails CAS Paused→Flushed (`up/filter.go:592`), the callback pauses (`:610`), CAS Active→Done (`:599`) fails too: nobody resumes | `up/writer.go:41-43`, `docs/async-http-callouts.md:135` |
| Filter | `RequestEndDelivered` | no `EndStream: true` for a body that ends with trailers (`up/filter.go:549`) | `docs/body-handling.md:30-31` |
| Filter | `ResponseEndAtMostOnce` | two `EndStream` calls for a headers-only response (`up/filter.go:709-726`) | `docs/filter.md:81` |
| Filter | `EndsInCallback = TRUE`: `DeadStreamUntouched` | a stream that ends inside the continuation is flushed (`up/filter.go:586` tests `streamDone` only before it) | `.agents/skills/transit-core-api-patterns/SKILL.md:81-82` |
| StreamPromise | `CancelPrevents` | a cancel between the unlock of an entry and its call returns, then the callback runs (`up/stream_promise.go:76-82`) | `up/stream_promise.go:112-113` |
| HostSelection | `AnswerAfterReturn` | the main thread may answer before `choose_host` has stored the handle (`up/async_host_selector.go:82-87`) | `down/abi_impl/abi.h:8500-8502` |
| HostSelection | `CancelledMarksConsumed` | a cancel between the cancelled-check and `Complete` leaves its mark for ever (`up/async_host_selector.go:95`, `:107`) | `up/async_host_selector.go:103-104` |
| HostSelection | `ReuseTokens = TRUE`: `AnsweredUnlessCancelled` | a cancel that races its own answer finds the next selection behind a reused address (`down/abi_impl/cluster.go:884`) | `down/abi_impl/abi.h:9510-9512` |
| HostSet | `NoDanglingPointer` | a worker that read the map before the publication returns a removed host (`up/host_set.go:101-111`) | `up/host_set.go:56-57` |
| HostSet | `MetaKeys = {a, b}`, `MetaVals = {"x", ""}`: `SnapshotApplied` | `specEqual` takes a missing key for an empty value (`up/host_set.go:28`) | `up/host_set.go:18-19` |
| HostSet | `MayFail = TRUE`: `PublishedAreLive` | `AddHosts` ignores a failure, `Apply` publishes and keeps null pointers (`down/abi_impl/cluster.go:265-273`) | `down/abi_impl/abi.h:8660-8661` |
| HostRefreshLoop | `RefreshOnceUpToDate` | a tick's older snapshot, scheduled later, overwrites that of `RefreshOnce` (`up/host_refresh_loop.go:167`) | `docs/orange-pipeline-sdk/host-refresh-loop.md:162-165` |
| HostRefreshLoop | `StopWaitsForScheduled` | `Stop` waits for a running apply, not for a queued one (`up/host_refresh_loop.go:131`) | `up/host_refresh_loop.go:116-118` |
| HostRefreshLoop | `LatestPendingWins` | the tick that finds an apply pending drops the newer snapshot (`up/host_refresh_loop.go:235`) | `docs/orange-pipeline-sdk/host-refresh-loop.md:157-158` |
| StreamObjects | `Finalized = {1, 2}`, no request id: `FinalizedOnce` | the second filter overwrites `x-transit-stream-id` (`up/stream_finalized.go:104`); the first is never finalized and its entry and bag stay | the comment there, that an undrained entry means a missing `access_log` stanza |
| PipelineConfig | `FineClock = FALSE`: `ConfigCatchesUp` | two changes of one size within one tick of the clock: the second is never read (`up/pipeline_config_file.go:47`) | `up/pipeline_config_file.go:15`, "read fresh on every poll tick" |
| PipelineConfig | `Concurrent = TRUE`: `StoppedIsFinal`, `LastGoodKept` | a slow `RefreshOnce` stores an older content, also after stop (`up/pipeline_config.go:137`) | nothing says that calls must not overlap |
| ClusterLifecycle | `AlwaysShutdown = {}`: `HandleOutlivesLoop` | a cluster destroyed without shutdown leaves its fetch goroutine to schedule on a freed handle | an assumption on Envoy |
| ClusterLifecycle | `Clusters = {c1, c2}`: `RoutedHostKnown` | two clusters of one kind share the process's store and route to each other's hosts | — |
| ClusterLifecycle | `OneConfigPerRequest` | a request is routed by one configuration and its upstream headers set by the next | `examples/cluster-router/router.go:132-133` |
| AsyncRouter | `NothingRegistered` | a stream that ends before its body leaves its Pending in the registry and a goroutine parked | — |
| McpSessions | `Workers = 1`: `WorkersNotStarved` | the router's filter calls back into Envoy from its callback; with every worker inside one (in `mcp` one always is free), healthy servers time out | — |

Reading the code for the models showed some more, which no definition states:

- `getOrCreateBag` mints a nonce although filter state has one
  (`docs/cross-extension-correlation.md:130`); a filter that adopted the nonce by
  `GetStreamObject` drops the bag before its owner's `OnStreamFinalized`; a filter that a
  local reply kept from seeing the request leaks a bag its response handler makes, which is
  why `NothingLeaks` asks that it saw it.
- `Ring.Bytes` of a full ring resets it to empty, so that a second `Bytes` has lost the
  content the first one returned (`up/buffer/buffer.go:41-42` says that it goes on
  normally); a ring of size 0 makes `Write` loop for ever. The tap does neither.
- `cachedFileSource` says "Falls back to full read on Stat error" and returns the cached
  content instead (`up/pipeline_config_file.go:22`, `:33-39`).
- ws-proxy shows `result=ok` in its documents (`examples/ws-proxy/README.md:221`,
  `OBSERVABILITY.md:42`), but a session ends with the first pump's error, which is never
  nil (`ws_proxy.go:248`); its record has the usage of the last response only.
- cluster-dfp's `len(ptrs) == 0` (`cluster_dfp.go:139`) never holds, because `AddHosts` returns
  one pointer per address, null when refused: a refused address is remembered.
- `compress.Decode` is shown on single chunks (`up/compress/compress.go:5`); a compressed
  body that is cut into chunks does not decode chunk by chunk.

## Not modelled

- Filter: `SendLocalResponse` inside `Go` (documented as not reliable); local replies and
  body replacement of the response phase; replacement before the whole body is there;
  the order between kinds of mutation (the code keeps one queue per kind and flushes
  kind after kind; the model's queue stands for any one of them).
- HostSelection: `lb_destroy` and what the lookup returns.
- CalloutGroup: deliveries on other threads and duplicates (CalloutHandoff has both).
- StreamObjects: streams alive together have different request ids; one key per filter; a
  nonce is never that of a bag already dropped (it is 128 random bits).
- ClusterLifecycle: credentials and the rewriting of headers. A configuration server's
  flags, files and HTTP serving.
- McpSessions: JSON shapes, the validation of a profile when it is loaded; tools of one server
  have different names. RequestSink: SQL and rendering. SessionProxy: TLS, dial headers
  and credentials, the server around the session.
- `up/router.go`: a first match over a list that is fixed before traffic, compared string
  by string. Its tests enumerate it, and nothing in it is shared or ordered in time.
- Access-logger accessors, the load-balancer policy's accessors, attribute, metadata and
  header views: one ABI call each, no state. Compression: library calls. Registration:
  runs once, single-threaded. Test doubles; entry points, traffic generators and the
  end-to-end filters, which make one call each.

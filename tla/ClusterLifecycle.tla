-------------------------- MODULE ClusterLifecycle --------------------------
(***************************************************************************)
(* A cluster extension that discovers its hosts: the cluster exports and   *)
(* the ClusterHandle of down/abi_impl/cluster.go under the clusters of     *)
(* examples/cluster-group, cluster-router and cluster-shard-router.        *)
(*                                                                         *)
(* Envoy's main thread creates, initialises, shuts down and destroys a     *)
(* cluster and dispatches its scheduled events.  A goroutine fetches the   *)
(* remote config and schedules its application on the main thread.  The    *)
(* routers publish what they applied in a store that belongs to the        *)
(* process; worker threads read the store to choose a host and, later, to  *)
(* shape the upstream request.                                             *)
(*                                                                         *)
(* A config is its version; what it holds is RouteConfig's.  Hosts are     *)
(* their addresses, and a worker finds every host the main thread added.   *)
(* The routers have a ConfigURL, the discovery cluster's AddHosts succeeds *)
(* (HostSet models its failure).                                           *)
(***************************************************************************)
EXTENDS Naturals, Sequences

CONSTANTS
    Versions,       \* of the endpoint's config, 1 .. n
    Resolves,       \* kind -> version -> can the config be applied?
    Addresses,      \* kind -> version -> the addresses it mentions
    Routes,         \* router -> version -> headers -> the addresses it may choose
    Kinds,          \* the cluster implementations: discovery, models, shards
    Clusters,       \* cluster instances
    Requests,       \* requests on the workers
    Headers,        \* what a request's routing headers can be
    MaxEvents,      \* bound: applications waiting for the main thread
    AlwaysShutdown  \* the kinds Envoy destroys only after Shutdown

None == "none"
Routers == {"models", "shards"}

\* The first version is there from the start, a version is never 0 (the empty
\* store), and a config routes to nothing but addresses it mentions.
ASSUME ClusterAssumption ==
    /\ Versions \subseteq Nat \ {0} /\ 1 \in Versions
    /\ Kinds \subseteq Routers \cup {"discovery"}
    /\ \A k \in Kinds \cap Routers, v \in Versions, h \in Headers :
           Routes[k][v][h] \subseteq Addresses[k][v]

VARIABLES
    ckind,     \* which implementation runs
    remote,    \* the version the config endpoint serves
    phase,     \* per cluster: none, new, ready, serving, down or destroyed
    main,      \* what the main thread is doing
    hosts,     \* per cluster: the addresses Envoy holds
    loop,      \* per cluster: the fetch goroutine
    fetched,   \* per cluster: the version it fetched last
    stopping,  \* per cluster: the goroutine's context is cancelled
    scheduler, \* per cluster: none, live or dangling
    events,    \* per cluster: the applications committed to the main thread
    store,     \* the version the routers' store holds, 0 when empty
    req        \* per request: where it is, and what it was given

clusterVars == <<ckind, remote, phase, main, hosts, loop, fetched, stopping,
                 scheduler, events, store, req>>
goroutine == <<loop, fetched, stopping, scheduler>>

MainIdle == [op |-> "idle", of |-> None, snap |-> 0, todo |-> {}, next |-> None]

\* The empty store routes nothing.
Lookup(v, h) == IF v = 0 THEN {} ELSE Routes[ckind][v][h]

-----------------------------------------------------------------------------
ClusterInit ==
    /\ ckind \in Kinds
    /\ remote = 1
    /\ phase = [c \in Clusters |-> "none"] /\ main = MainIdle
    /\ hosts = [c \in Clusters |-> {}]
    /\ loop = [c \in Clusters |-> "none"] /\ fetched = [c \in Clusters |-> 0]
    /\ stopping = [c \in Clusters |-> FALSE]
    /\ scheduler = [c \in Clusters |-> "none"] /\ events = [c \in Clusters |-> <<>>]
    /\ store = 0
    /\ req = [r \in Requests |-> [at |-> "new", hdr |-> <<>>, route |-> 0,
                                  host |-> None, shaped |-> 0, target |-> None]]

\* The control server handles the next request, the discovery endpoint changes.
RemoteChanges ==
    /\ remote + 1 \in Versions
    /\ remote' = remote + 1
    /\ UNCHANGED <<ckind, phase, main, hosts, goroutine, events, store, req>>

-----------------------------------------------------------------------------
(* The main thread.  An operation that takes several steps is in main.      *)

SetPhase(c, p) == phase' = [phase EXCEPT ![c] = p]
Goroutine(c, at) == loop' = [loop EXCEPT ![c] = at]

\* startFetchLoop: once; the goroutine begins with a fetch.
startFetchLoop(c) == IF loop[c] = "none" THEN Goroutine(c, "fetch") ELSE UNCHANGED loop

\* ClusterGroup.Go and Start: the discovery goroutine begins with its select.
StartPolling(c) == Goroutine(c, "select")

\* applySnapshot and applyHostsDirect start: the hosts still to be added.
BeginApply(c, v, next) ==
    main' = [op |-> "apply", of |-> c, snap |-> v,
             todo |-> Addresses[ckind][v] \ hosts[c], next |-> next]

\* on_cluster_config_new and on_cluster_new.
NewCluster(c) ==
    /\ main = MainIdle /\ phase[c] = "none"
    /\ SetPhase(c, "new")
    /\ UNCHANGED <<ckind, remote, main, hosts, goroutine, events, store, req>>

\* Init of the model router: apply the initial config, if there is one and it
\* resolves, then start fetching.
ModelsInit(c) ==
    /\ main = MainIdle /\ phase[c] = "new" /\ ckind = "models"
    /\ \/ Resolves[ckind][1] /\ BeginApply(c, 1, "ready") /\ UNCHANGED <<phase, loop>>
       \/ SetPhase(c, "ready") /\ startFetchLoop(c) /\ UNCHANGED main
    /\ UNCHANGED <<ckind, remote, hosts, fetched, stopping, scheduler, events, store, req>>

\* Init of the shard router.
ShardsInit(c) ==
    /\ main = MainIdle /\ phase[c] = "new" /\ ckind = "shards"
    /\ \/ Resolves[ckind][1] /\ BeginApply(c, 1, "ready") /\ UNCHANGED <<phase, loop>>
       \/ SetPhase(c, "ready") /\ startFetchLoop(c) /\ UNCHANGED main
    /\ UNCHANGED <<ckind, remote, hosts, fetched, stopping, scheduler, events, store, req>>

\* Init of the discovery cluster: PreInitComplete, nothing else.
DiscoveryInit(c) ==
    /\ main = MainIdle /\ phase[c] = "new" /\ ckind = "discovery"
    /\ SetPhase(c, "ready")
    /\ UNCHANGED <<ckind, remote, main, hosts, goroutine, events, store, req>>

\* on_cluster_server_initialized of the routers: their loop runs already.
RouterServerInitialized(c) ==
    /\ main = MainIdle /\ phase[c] = "ready" /\ ckind \in Routers
    /\ SetPhase(c, "serving") /\ startFetchLoop(c)
    /\ UNCHANGED <<ckind, remote, main, hosts, fetched, stopping, scheduler, events, store, req>>

\* The discovery cluster fetches on the main thread, applies what it got, if it
\* got anything, and starts its goroutine.
DiscoveryServerInitialized(c) ==
    /\ main = MainIdle /\ phase[c] = "ready" /\ ckind = "discovery"
    /\ \/ BeginApply(c, remote, "serving") /\ UNCHANGED <<phase, loop>>
       \/ SetPhase(c, "serving") /\ StartPolling(c) /\ UNCHANGED main
    /\ UNCHANGED <<ckind, remote, hosts, fetched, stopping, scheduler, events, store, req>>

\* The snapshot is published before its hosts are added.
ScheduledPublishing(c) ==
    /\ main = MainIdle /\ phase[c] # "destroyed" /\ events[c] # <<>>
    /\ events' = [events EXCEPT ![c] = Tail(@)]
    /\ BeginApply(c, Head(events[c]), phase[c])
    /\ store' = Head(events[c])
    /\ UNCHANGED <<ckind, remote, phase, hosts, goroutine, req>>

\* on_cluster_scheduled: runPending takes the closure and runs it.
Scheduled(c) ==
    /\ main = MainIdle /\ phase[c] # "destroyed" /\ events[c] # <<>>
    /\ events' = [events EXCEPT ![c] = Tail(@)]
    /\ BeginApply(c, Head(events[c]), phase[c])
    /\ UNCHANGED <<ckind, remote, phase, hosts, goroutine, store, req>>

\* The event of a destroyed cluster finds no wrapper and is dropped.
ScheduledLate(c) ==
    /\ main = MainIdle /\ phase[c] = "destroyed" /\ events[c] # <<>>
    /\ events' = [events EXCEPT ![c] = Tail(@)]
    /\ UNCHANGED <<ckind, remote, phase, main, hosts, goroutine, store, req>>

\* The loop over a snapshot's routes: one AddHosts each.
AddHost(a) ==
    /\ main.op = "apply" /\ a \in main.todo
    /\ hosts' = [hosts EXCEPT ![main.of] = @ \cup {a}]
    /\ main' = [main EXCEPT !.todo = @ \ {a}]
    /\ UNCHANGED <<ckind, remote, phase, goroutine, events, store, req>>

\* AddHosts gives no pointer: a router returns and publishes nothing.
AddHostFails ==
    /\ main.op = "apply" /\ main.todo # {} /\ ckind \in Routers
    /\ SetPhase(main.of, main.next)
    /\ main' = MainIdle
    /\ startFetchLoop(main.of)
    /\ UNCHANGED <<ckind, remote, hosts, fetched, stopping, scheduler, events, store, req>>

\* routeStore.Publish and shardStore.Publish: a whole snapshot, atomically.
PublishSnapshot(v) == store' = v

\* The end of a router's applySnapshot, the caller's last step included: it
\* publishes and keeps its old hosts.
RouterApplied ==
    /\ main.op = "apply" /\ main.todo = {} /\ ckind \in Routers
    /\ PublishSnapshot(main.snap)
    /\ SetPhase(main.of, main.next)
    /\ main' = MainIdle
    /\ startFetchLoop(main.of)
    /\ UNCHANGED <<ckind, remote, hosts, fetched, stopping, scheduler, events, req>>

\* The end of applyHostsDirect: the hosts that are gone are removed.
DiscoveryApplied ==
    LET c == main.of IN
    /\ main.op = "apply" /\ main.todo = {} /\ ckind = "discovery"
    /\ hosts' = [hosts EXCEPT ![c] = Addresses[ckind][main.snap]]
    /\ SetPhase(c, main.next)
    /\ main' = MainIdle
    /\ IF loop[c] = "none" THEN StartPolling(c) ELSE UNCHANGED loop
    /\ UNCHANGED <<ckind, remote, fetched, stopping, scheduler, events, store, req>>

\* group.Stop and ClusterGroup.Stop on the main thread: cancel, then wait for
\* the goroutine.
BeginStop(c, op) ==
    /\ stopping' = [stopping EXCEPT ![c] = TRUE]
    /\ main' = [MainIdle EXCEPT !.op = op, !.of = c]

Joined(c) == loop[c] \in {"none", "over"}

\* on_cluster_shutdown.
Shutdown(c) ==
    /\ main = MainIdle /\ phase[c] \in {"ready", "serving"}
    /\ BeginStop(c, "shutdown")
    /\ UNCHANGED <<ckind, remote, phase, hosts, loop, fetched, scheduler, events, store, req>>

\* Stop returned, and done is called.
ShutdownDone ==
    /\ main.op = "shutdown" /\ Joined(main.of)
    /\ SetPhase(main.of, "down")
    /\ main' = MainIdle
    /\ UNCHANGED <<ckind, remote, hosts, goroutine, events, store, req>>

\* on_cluster_destroy: at any time after Init, with or without a Shutdown.
\* Close of a router stops its loop; the discovery cluster's does nothing.
Destroy(c) ==
    /\ main = MainIdle
    /\ phase[c] \in IF ckind \in AlwaysShutdown THEN {"down"} ELSE {"ready", "serving", "down"}
    /\ IF ckind \in Routers THEN BeginStop(c, "close")
       ELSE main' = [MainIdle EXCEPT !.op = "close", !.of = c] /\ UNCHANGED stopping
    /\ UNCHANGED <<ckind, remote, phase, hosts, loop, fetched, scheduler, events, store, req>>

\* Close returned: handle.destroy deletes the scheduler, the wrapper is removed.
DestroyDone ==
    LET c == main.of IN
    /\ main.op = "close"
    /\ ckind \in Routers => Joined(c)
    /\ SetPhase(c, "destroyed")
    /\ scheduler' = [scheduler EXCEPT ![c] = IF @ = "live" THEN "none" ELSE @]
    /\ main' = MainIdle
    /\ UNCHANGED <<ckind, remote, hosts, loop, fetched, stopping, events, store, req>>

-----------------------------------------------------------------------------
(* The fetch goroutine.                                                     *)

Tick(c) ==
    /\ loop[c] = "select"
    /\ Goroutine(c, "fetch")
    /\ UNCHANGED <<ckind, remote, phase, main, hosts, fetched, stopping, scheduler, events, store, req>>

\* The context is looked at only before the first config is there.
LoopEndsUnfetched(c) ==
    /\ loop[c] = "select" /\ stopping[c] /\ fetched[c] = 0
    /\ Goroutine(c, "over")
    /\ UNCHANGED <<ckind, remote, phase, main, hosts, fetched, stopping, scheduler, events, store, req>>

\* Go picks any ready case, so a tick may come first.
LoopEnds(c) ==
    /\ loop[c] = "select" /\ stopping[c]
    /\ Goroutine(c, "over")
    /\ UNCHANGED <<ckind, remote, phase, main, hosts, fetched, stopping, scheduler, events, store, req>>

Fetched(c) ==
    /\ loop[c] = "fetch" /\ Len(events[c]) < MaxEvents
    /\ fetched' = [fetched EXCEPT ![c] = remote]
    /\ Goroutine(c, "schedule")
    /\ UNCHANGED <<ckind, remote, phase, main, hosts, stopping, scheduler, events, store, req>>

\* fetchOnce of the model router: a config that decodes and resolves.
FetchModels(c) == ckind = "models" /\ Resolves[ckind][remote] /\ Fetched(c)

\* fetchOnce of the shard router.
FetchShards(c) == ckind = "shards" /\ Resolves[ckind][remote] /\ Fetched(c)

\* fetchDiscovery.
FetchDiscovery(c) == ckind = "discovery" /\ Fetched(c)

FetchSucceeds(c) == FetchModels(c) \/ FetchShards(c) \/ FetchDiscovery(c)

\* An error on the way, the cancelled context among them: the old config stays,
\* RunRetry or the ticker goes on.
FetchFails(c) ==
    /\ loop[c] = "fetch"
    /\ Goroutine(c, "select")
    /\ UNCHANGED <<ckind, remote, phase, main, hosts, fetched, stopping, scheduler, events, store, req>>

\* ClusterHandle.Schedule under its lock: the scheduler is made on first use.
\* On a destroyed cluster that is a scheduler of an object that is gone.
Schedule(c) ==
    /\ loop[c] = "schedule"
    /\ scheduler' = [scheduler EXCEPT ![c] =
                        IF @ = "none" THEN IF phase[c] = "destroyed" THEN "dangling" ELSE "live"
                        ELSE @]
    /\ Goroutine(c, "commit")
    /\ UNCHANGED <<ckind, remote, phase, main, hosts, fetched, stopping, events, store, req>>

\* scheduler_commit, after the unlock.
Commit(c) ==
    /\ loop[c] = "commit"
    /\ events' = [events EXCEPT ![c] = Append(@, fetched[c])]
    /\ Goroutine(c, "select")
    /\ UNCHANGED <<ckind, remote, phase, main, hosts, fetched, stopping, scheduler, store, req>>

-----------------------------------------------------------------------------
(* The workers.                                                             *)

\* Routed: read the store once, look the route up, ask Envoy for the host.
Routed(r, c) ==
    /\ phase[c] \in {"ready", "serving", "down"} /\ req[r].at = "new"
    /\ \E h \in Headers :
          \/ /\ Lookup(store, h) = {}
             /\ req' = [req EXCEPT ![r].at = "no route", ![r].hdr = h]
          \/ \E a \in Lookup(store, h) :
             req' = [req EXCEPT ![r].at = IF a \in hosts[c] THEN "chosen" ELSE "no host",
                                ![r].hdr = h, ![r].route = store, ![r].host = a]
    /\ UNCHANGED <<ckind, remote, phase, main, hosts, goroutine, events, store>>

\* ChooseHost of the three clusters.
ModelsChooseHost(r, c) == ckind = "models" /\ Routed(r, c)
ShardsChooseHost(r, c) == ckind = "shards" /\ Routed(r, c)

\* roundRobinLB: the counter decides which of the healthy hosts.
DiscoveryChooseHost(r, c) ==
    /\ ckind = "discovery" /\ phase[c] \in {"ready", "serving", "down"} /\ req[r].at = "new"
    /\ \/ hosts[c] = {} /\ req' = [req EXCEPT ![r].at = "no route"]
       \/ \E a \in hosts[c] : req' = [req EXCEPT ![r].at = "sent", ![r].host = a]
    /\ UNCHANGED <<ckind, remote, phase, main, hosts, goroutine, events, store>>

\* The model router's upstream filter: read the store again and set the headers
\* of the route found there, if any.
ModelsUpstreamFilter(r) ==
    /\ ckind = "models" /\ req[r].at = "chosen"
    /\ LET targets == Lookup(store, req[r].hdr) IN
       \/ targets = {} /\ req' = [req EXCEPT ![r].at = "sent"]
       \/ \E a \in targets :
             req' = [req EXCEPT ![r].at = "sent", ![r].shaped = store, ![r].target = a]
    /\ UNCHANGED <<ckind, remote, phase, main, hosts, goroutine, events, store>>

\* The shard router's: one read for the decision, another for the version.
ShardsUpstreamFilter(r) ==
    /\ ckind = "shards"
    /\ \/ /\ req[r].at = "chosen"
          /\ \E a \in Lookup(store, req[r].hdr) :
                req' = [req EXCEPT ![r].at = "decided", ![r].target = a]
       \/ /\ req[r].at = "decided"
          /\ req' = [req EXCEPT ![r].at = "sent", ![r].shaped = store]
    /\ UNCHANGED <<ckind, remote, phase, main, hosts, goroutine, events, store>>

-----------------------------------------------------------------------------
MainWorks(c) == Scheduled(c) \/ ScheduledLate(c)
AddsHost == \E a \in main.todo : AddHost(a)
MainContinues ==
    AddsHost \/ AddHostFails \/ RouterApplied \/ DiscoveryApplied \/ ShutdownDone \/ DestroyDone
LoopWorks(c) ==
    Tick(c) \/ LoopEnds(c) \/ FetchSucceeds(c) \/ FetchFails(c) \/ Schedule(c) \/ Commit(c)

\* Every cluster is gone and nothing is left to do for it.
ClustersGone ==
    /\ \A c \in Clusters : phase[c] = "destroyed" /\ Joined(c)
    /\ main.op = "idle"
    /\ UNCHANGED clusterVars

ClusterNext ==
    \/ RemoteChanges
    \/ MainContinues
    \/ \E c \in Clusters :
          \/ NewCluster(c) \/ ModelsInit(c) \/ ShardsInit(c) \/ DiscoveryInit(c)
          \/ RouterServerInitialized(c) \/ DiscoveryServerInitialized(c)
          \/ Shutdown(c) \/ Destroy(c)
          \/ MainWorks(c)
          \/ LoopWorks(c)
          \/ \E r \in Requests : \/ ModelsChooseHost(r, c) \/ ShardsChooseHost(r, c)
                                \/ DiscoveryChooseHost(r, c)
    \/ \E r \in Requests : ModelsUpstreamFilter(r) \/ ShardsUpstreamFilter(r)
    \/ ClustersGone

-----------------------------------------------------------------------------
(* Properties.                                                              *)

\* A cluster's goroutine has ended when its handle is destroyed, so it never
\* schedules on a deleted scheduler or makes one for a cluster that is gone.
HandleOutlivesLoop ==
    \A c \in Clusters : phase[c] = "destroyed" => Joined(c) /\ scheduler[c] = "none"

\* A request whose route is in the published config finds its host in Envoy:
\* applySnapshot adds every host before it publishes, and removes none.
RoutedHostKnown == \A r \in Requests : req[r].at # "no host"

\* What the code uses is still there, whatever the other thread does meanwhile:
\* the cluster handle and scheduler of a goroutine, and the host of a route.
UsesWhatExists == HandleOutlivesLoop /\ RoutedHostKnown

\* Host selection and header injection of one request use the same config.
OneConfigPerRequest ==
    \A r \in Requests :
        req[r].at = "sent" => req[r].shaped = req[r].route /\ req[r].target = req[r].host

\* Shutdown on the main thread, which waits for the goroutine, calls done.
ShutdownAnswered == main.op = "shutdown" ~> main.op # "shutdown"

\* A running cluster ends up with the last config of the endpoint if that one
\* resolves, whatever fetches, resolutions and host additions failed and whatever
\* was waiting for the main thread meanwhile.
ConfigConverges ==
    \A c \in Clusters :
        <>[](/\ phase[c] = "serving" /\ main.op \notin {"shutdown", "close"}
             /\ Resolves[ckind][remote])
            => <>[](IF ckind = "discovery" THEN hosts[c] = Addresses[ckind][remote]
                                           ELSE store = remote)

-----------------------------------------------------------------------------
\* The main thread finishes what it began and takes what is waiting; the
\* goroutine runs; Go's select does not ignore a cancelled context for ever;
\* and neither the endpoint nor AddHosts fails for ever.
ClusterFairness ==
    /\ WF_clusterVars(MainContinues)
    /\ SF_clusterVars(AddsHost)
    /\ \A c \in Clusters : /\ WF_clusterVars(MainWorks(c))
                           /\ WF_clusterVars(LoopWorks(c))
                           /\ SF_clusterVars(LoopEnds(c))
                           /\ SF_clusterVars(FetchSucceeds(c))

ClusterSpec == ClusterInit /\ [][ClusterNext]_clusterVars /\ ClusterFairness
=============================================================================

----------------------- MODULE ClusterLifecycleProofs -----------------------
(***************************************************************************)
(* The discovering clusters, for any sets of clusters, requests, versions, *)
(* addresses and routes.                                                   *)
(*                                                                         *)
(* No goroutine outlives the handle it works on.  The invariant says what  *)
(* the main thread is in the middle of and in which phases the goroutine   *)
(* has not begun or must have ended.  And a route that is chosen leads to  *)
(* a host of the cluster: a second invariant says that the addresses of    *)
(* the published version, and of the one being applied but for those still *)
(* to be added, are hosts already.                                         *)
(***************************************************************************)
EXTENDS ClusterLifecycle, TLAPS

-----------------------------------------------------------------------------
(* The invariants.                                                          *)

Known == UNION {Addresses[k][v] : k \in Kinds, v \in Versions}
Phases == {"none", "new", "ready", "serving", "down", "destroyed"}

\* The values the cluster's variables take.
ClusterTypeOK ==
    /\ ckind \in Kinds /\ remote \in Versions
    /\ phase \in [Clusters -> Phases]
    /\ main \in [op : {"idle", "apply", "shutdown", "close"}, of : Clusters \cup {None},
                 snap : Versions \cup {0}, todo : SUBSET Known,
                 next : {"ready", "serving", "down", None}]
    /\ hosts \in [Clusters -> SUBSET Known]
    /\ loop \in [Clusters -> {"none", "fetch", "select", "schedule", "commit", "over"}]
    /\ fetched \in [Clusters -> Versions \cup {0}]
    /\ stopping \in [Clusters -> BOOLEAN]
    /\ scheduler \in [Clusters -> {"none", "live"}]
    /\ events \in [Clusters -> Seq(Versions)]
    /\ store \in Versions \cup {0}

\* The phases in which the goroutine has not been started.
Unstarted == IF ckind = "discovery" THEN {None, "new", "ready"} ELSE {None, "new"}

\* What the main thread is in the middle of, and the phase of its cluster.
MainBusy ==
    /\ main.op = "idle" => main = MainIdle
    /\ main.op # "idle" => main.of \in Clusters
    /\ main.op = "apply" =>
          /\ main.snap \in Versions /\ main.next \notin Unstarted
          /\ phase[main.of] \in {"new", "ready", "serving", "down"}
          /\ "down" \in {main.next, phase[main.of]} =>
                main.next = "down" /\ phase[main.of] = "down" /\ loop[main.of] = "over"
    /\ main.op = "shutdown" => phase[main.of] \in {"ready", "serving"}
    /\ main.op = "close" => phase[main.of] \in IF ckind \in Routers
                                               THEN {"ready", "serving", "down"} ELSE {"down"}

\* The goroutine of a cluster and the cluster's phase.
LoopOfPhase ==
    \A c \in Clusters :
        /\ phase[c] \in Unstarted => loop[c] = "none"
        /\ phase[c] \in {"down", "destroyed"} => Joined(c)
        /\ phase[c] = "destroyed" => scheduler[c] = "none"
        /\ events[c] # <<>> => loop[c] # "none"
        /\ loop[c] \in {"schedule", "commit"} => fetched[c] \in Versions

\* The inductive invariant of the clusters.
ClusterInv == ClusterTypeOK /\ MainBusy /\ LoopOfPhase

\* With one cluster, what the store holds or is about to hold can be reached.
StoreHasHosts ==
    ckind \in Routers =>
        /\ main.op = "apply" => Addresses[ckind][main.snap] \subseteq hosts[main.of] \cup main.todo
        /\ store # 0 => \A c \in Clusters : Addresses[ckind][store] \subseteq hosts[c]

\* A request is in one of the states of a request that found its host, if it has
\* a route.
RequestsPlaced ==
    /\ DOMAIN req = Requests
    /\ \A r \in Requests :
          "at" \in DOMAIN req[r]
          /\ req[r].at \in {"new", "no route", "chosen", "decided", "sent"}

-----------------------------------------------------------------------------
(* The proofs.                                                              *)

\* Every discovering cluster that has no Close of its own is shut down before it
\* is destroyed.
ShutdownFirst == Kinds \ Routers \subseteq AlwaysShutdown

\* The addresses of a version are known ones.
LEMMA AddressesKnown ==
    ASSUME NEW k \in Kinds, NEW v \in Versions PROVE Addresses[k][v] \subseteq Known
BY DEF Known

\* The clusters begin in the invariant.
LEMMA ClusterStarts == ClusterInit => ClusterInv
<1> SUFFICES ASSUME ClusterInit PROVE ClusterInv
  OBVIOUS
<1>1. main = MainIdle /\ main.op = "idle"
  BY DEF ClusterInit, MainIdle
<1>2. ClusterTypeOK
  BY ClusterAssumption DEF ClusterInit, ClusterTypeOK, MainIdle, Phases
<1>3. MainBusy /\ LoopOfPhase
  BY <1>1 DEF ClusterInit, MainBusy, LoopOfPhase, Unstarted, None
<1> QED
  BY <1>2, <1>3 DEF ClusterInv

\* The main thread enters a cluster that is not gone and whose goroutine, if it is
\* down, is over.
LEMMA BeginApplyKeeps ==
    ASSUME ClusterInv, NEW c \in Clusters, NEW v \in Versions,
           NEW next \in {"ready", "serving", "down"} \ Unstarted,
           BeginApply(c, v, next), UNCHANGED <<ckind, remote, phase, hosts, goroutine, store>>,
           phase[c] \in {"new", "ready", "serving", "down"},
           "down" \in {next, phase[c]} => next = "down" /\ phase[c] = "down" /\ loop[c] = "over",
           events' \in [Clusters -> Seq(Versions)],
           \A d \in Clusters : events'[d] # <<>> => loop[d] # "none"
    PROVE  ClusterInv'
<1> USE DEF ClusterInv, ClusterTypeOK
<1>1. main' = [op |-> "apply", of |-> c, snap |-> v,
               todo |-> Addresses[ckind][v] \ hosts[c], next |-> next]
  BY DEF BeginApply
<1>2. Addresses[ckind][v] \ hosts[c] \in SUBSET Known
  BY AddressesKnown
<1>3. ClusterTypeOK'
  BY <1>1, <1>2 DEF goroutine
<1>4. main'.op = "apply" /\ main'.of = c /\ main'.snap = v /\ main'.next = next
  BY <1>1
<1>5. MainBusy'
  <2>1. main'.of \in Clusters /\ phase'[main'.of] = phase[c] /\ loop'[main'.of] = loop[c]
    BY <1>4 DEF goroutine
  <2> QED
    BY <1>4, <2>1 DEF MainBusy, Unstarted, None
<1>6. LoopOfPhase'
  BY DEF LoopOfPhase, Unstarted, Joined, goroutine
<1> QED
  BY <1>3, <1>5, <1>6

\* The main thread is idle again, its cluster in another phase, the goroutine
\* perhaps started.
LEMMA MainReturnsKeeps ==
    ASSUME ClusterInv, NEW c \in Clusters, NEW p \in Phases,
           phase' = [phase EXCEPT ![c] = p], main' = MainIdle,
           UNCHANGED <<ckind, remote, fetched, events>>,
           stopping' \in [Clusters -> BOOLEAN],
           hosts' \in [Clusters -> SUBSET Known], store' \in Versions \cup {0},
           \/ UNCHANGED loop
           \/ loop[c] = "none" /\ \E at \in {"fetch", "select"} : loop' = [loop EXCEPT ![c] = at],
           \/ UNCHANGED scheduler
           \/ scheduler' = [scheduler EXCEPT ![c] = "none"],
           p \in Unstarted => loop'[c] = "none",
           p \in {"down", "destroyed"} => Joined(c)',
           p = "destroyed" => scheduler'[c] = "none"
    PROVE  ClusterInv'
<1> USE DEF ClusterInv, ClusterTypeOK
<1>1. main' = MainIdle /\ main'.op = "idle"
  BY DEF MainIdle
<1>2. main' \in [op : {"idle", "apply", "shutdown", "close"}, of : Clusters \cup {None},
                 snap : Versions \cup {0}, todo : SUBSET Known,
                 next : {"ready", "serving", "down", None}]
  BY DEF MainIdle
<1>3. ClusterTypeOK'
  <2>1. loop' \in [Clusters -> {"none", "fetch", "select", "schedule", "commit", "over"}]
    <3>1. CASE UNCHANGED loop
      BY <3>1
    <3>2. ASSUME NEW at \in {"fetch", "select"}, loop' = [loop EXCEPT ![c] = at]
          PROVE  loop' \in [Clusters -> {"none", "fetch", "select", "schedule", "commit", "over"}]
      BY <3>2
    <3> QED
      BY <3>1, <3>2
  <2>2. scheduler' \in [Clusters -> {"none", "live"}]
    BY Zenon
  <2>3. phase' \in [Clusters -> Phases]
    OBVIOUS
  <2> QED
    BY <1>2, <2>1, <2>2, <2>3
<1>4. MainBusy'
  BY <1>1 DEF MainBusy
<1>5. LoopOfPhase'
  <2> SUFFICES ASSUME NEW d \in Clusters
               PROVE  /\ phase'[d] \in Unstarted => loop'[d] = "none"
                      /\ phase'[d] \in {"down", "destroyed"} => Joined(d)'
                      /\ phase'[d] = "destroyed" => scheduler'[d] = "none"
                      /\ events'[d] # <<>> => loop'[d] # "none"
                      /\ loop'[d] \in {"schedule", "commit"} => fetched'[d] \in Versions
    BY DEF LoopOfPhase, Unstarted
  <2>1. CASE d = c
    BY <2>1 DEF LoopOfPhase, Unstarted
  <2>2. CASE d # c
    BY <2>2 DEF LoopOfPhase, Unstarted, Joined
  <2> QED
    BY <2>1, <2>2
<1> QED
  BY <1>3, <1>4, <1>5

\* A step of a goroutine that is running, or about to end.
LEMMA LoopKeeps ==
    ASSUME ClusterInv, NEW c \in Clusters, loop[c] \notin {"none", "over"},
           NEW at \in {"fetch", "select", "schedule", "commit", "over"},
           loop' = [loop EXCEPT ![c] = at],
           UNCHANGED <<ckind, remote, phase, main, hosts, stopping, store>>,
           \/ UNCHANGED fetched
           \/ fetched' = [fetched EXCEPT ![c] = remote],
           at \in {"schedule", "commit"} => fetched'[c] \in Versions,
           \/ UNCHANGED scheduler
           \/ phase[c] # "destroyed" /\ scheduler' = [scheduler EXCEPT ![c] = "live"],
           \/ UNCHANGED events
           \/ \E v \in Versions : events' = [events EXCEPT ![c] = Append(@, v)]
    PROVE  ClusterInv'
<1> USE DEF ClusterInv, ClusterTypeOK
<1>1. ClusterTypeOK'
  <2>1. loop' \in [Clusters -> {"none", "fetch", "select", "schedule", "commit", "over"}]
    OBVIOUS
  <2>2. scheduler' \in [Clusters -> {"none", "live"}]
    BY Zenon
  <2>3. fetched' \in [Clusters -> Versions \cup {0}]
    BY Zenon
  <2>4. events' \in [Clusters -> Seq(Versions)]
    <3>1. ASSUME NEW v \in Versions, events' = [events EXCEPT ![c] = Append(@, v)]
          PROVE  events' \in [Clusters -> Seq(Versions)]
      BY <3>1
    <3> QED
      BY <3>1
  <2> QED
    BY <2>1, <2>2, <2>3, <2>4
<1>2. phase[c] \notin Unstarted \cup {"down", "destroyed"}
  BY DEF LoopOfPhase, Unstarted, Joined
<1>3. MainBusy'
  BY DEF MainBusy, Unstarted
<1>4. LoopOfPhase'
  <2> SUFFICES ASSUME NEW d \in Clusters
               PROVE  /\ phase'[d] \in Unstarted => loop'[d] = "none"
                      /\ phase'[d] \in {"down", "destroyed"} => Joined(d)'
                      /\ phase'[d] = "destroyed" => scheduler'[d] = "none"
                      /\ events'[d] # <<>> => loop'[d] # "none"
                      /\ loop'[d] \in {"schedule", "commit"} => fetched'[d] \in Versions
    BY DEF LoopOfPhase, Unstarted
  <2>1. CASE d = c
    BY <2>1, <1>2 DEF LoopOfPhase, Unstarted
  <2>2. CASE d # c
    BY <2>2 DEF LoopOfPhase, Unstarted, Joined
  <2> QED
    BY <2>1, <2>2
<1> QED
  BY <1>1, <1>3, <1>4

\* Creation and Init: the initial config is applied or the phase advances, and the
\* routers start to fetch.
LEMMA InitKeeps ==
    ASSUME ClusterInv, NEW c \in Clusters,
           NewCluster(c) \/ ModelsInit(c) \/ ShardsInit(c) \/ DiscoveryInit(c)
    PROVE  ClusterInv'
<1>1. CASE NewCluster(c)
  BY <1>1, MainReturnsKeeps, Zenon DEF NewCluster, SetPhase, goroutine, ClusterInv, ClusterTypeOK, Phases, LoopOfPhase, Unstarted, None
<1>2. CASE DiscoveryInit(c)
  <2>1. loop[c] = "none"
    BY <1>2 DEF DiscoveryInit, ClusterInv, LoopOfPhase, Unstarted
  <2> QED
    BY <1>2, <2>1, MainReturnsKeeps, Zenon
       DEF DiscoveryInit, SetPhase, goroutine, ClusterInv, ClusterTypeOK, Phases
<1>3. CASE ModelsInit(c) \/ ShardsInit(c)
  <2>1. /\ main = MainIdle /\ phase[c] = "new" /\ "ready" \notin Unstarted
        /\ UNCHANGED <<ckind, remote, hosts, fetched, stopping, scheduler, events, store>>
        /\ \/ BeginApply(c, 1, "ready") /\ UNCHANGED <<phase, loop>>
           \/ SetPhase(c, "ready") /\ startFetchLoop(c) /\ UNCHANGED main
    BY <1>3, Zenon DEF ModelsInit, ShardsInit, Unstarted, None
  <2>2. CASE BeginApply(c, 1, "ready") /\ UNCHANGED <<phase, loop>>
    BY <2>1, <2>2, BeginApplyKeeps, ClusterAssumption, Zenon
       DEF goroutine, ClusterInv, ClusterTypeOK, LoopOfPhase, Unstarted, None
  <2>3. CASE SetPhase(c, "ready") /\ startFetchLoop(c) /\ UNCHANGED main
    BY <2>1, <2>3, MainReturnsKeeps, Zenon
       DEF SetPhase, startFetchLoop, Goroutine, ClusterInv, ClusterTypeOK, Phases
  <2> QED
    BY <2>1, <2>2, <2>3
<1> QED
  BY <1>1, <1>2, <1>3

\* on_cluster_server_initialized.
LEMMA ServerInitializedKeeps ==
    ASSUME ClusterInv, NEW c \in Clusters,
           RouterServerInitialized(c) \/ DiscoveryServerInitialized(c)
    PROVE  ClusterInv'
<1>1. /\ main = MainIdle /\ phase[c] = "ready" /\ "serving" \notin Unstarted
      /\ UNCHANGED <<ckind, remote, hosts, fetched, stopping, scheduler, events, store>>
  BY DEF RouterServerInitialized, DiscoveryServerInitialized, Unstarted, None
<1>2. CASE BeginApply(c, remote, "serving") /\ UNCHANGED <<phase, loop>>
  BY <1>1, <1>2, BeginApplyKeeps, SMTT(20) DEF goroutine, ClusterInv, ClusterTypeOK, LoopOfPhase, Unstarted, None
<1>3. CASE SetPhase(c, "serving") /\ startFetchLoop(c) /\ UNCHANGED main
  BY <1>1, <1>3, MainReturnsKeeps, Zenon
     DEF SetPhase, startFetchLoop, Goroutine, ClusterInv, ClusterTypeOK, Phases
<1>4. CASE ckind = "discovery" /\ SetPhase(c, "serving") /\ StartPolling(c) /\ UNCHANGED main
  <2>1. loop[c] = "none"
    BY <1>1, <1>4 DEF ClusterInv, LoopOfPhase, Unstarted
  <2> QED
    BY <1>1, <1>4, <2>1, MainReturnsKeeps
       DEF SetPhase, StartPolling, Goroutine, ClusterInv, ClusterTypeOK, Phases
<1> QED
  BY <1>2, <1>3, <1>4 DEF RouterServerInitialized, DiscoveryServerInitialized

\* on_cluster_scheduled: an event was committed by a goroutine that ran, so the
\* cluster is past its Init and, if it is down, the goroutine is over.
LEMMA ScheduledKeeps ==
    ASSUME ClusterInv, NEW c \in Clusters, Scheduled(c) PROVE ClusterInv'
<1> USE DEF ClusterInv, ClusterTypeOK
<1>1. /\ main = MainIdle /\ phase[c] # "destroyed" /\ events[c] # <<>>
      /\ events' = [events EXCEPT ![c] = Tail(@)]
      /\ BeginApply(c, Head(events[c]), phase[c])
      /\ UNCHANGED <<ckind, remote, phase, hosts, goroutine, store>>
  BY DEF Scheduled
<1>2. events[c] \in Seq(Versions)
  OBVIOUS
<1>3. Head(events[c]) \in Versions /\ Tail(events[c]) \in Seq(Versions)
  BY <1>1, <1>2
<1>4. events' \in [Clusters -> Seq(Versions)]
  BY <1>1, <1>3
<1>5. \A d \in Clusters : events'[d] # <<>> => loop[d] # "none"
  BY <1>1 DEF LoopOfPhase
<1>6. phase[c] \in {"ready", "serving", "down"} \ Unstarted
  BY <1>1 DEF LoopOfPhase, Unstarted, Phases, None
<1>7. phase[c] = "down" => loop[c] = "over"
  BY <1>1 DEF LoopOfPhase, Joined
<1> HIDE DEF ClusterInv, ClusterTypeOK
<1> QED
  BY <1>1, <1>3, <1>4, <1>5, <1>6, <1>7, BeginApplyKeeps

\* The event of a destroyed cluster is dropped.
LEMMA ScheduledLateKeeps ==
    ASSUME ClusterInv, NEW c \in Clusters, ScheduledLate(c) PROVE ClusterInv'
<1> USE DEF ClusterInv, ClusterTypeOK
<1>1. /\ events[c] # <<>> /\ events' = [events EXCEPT ![c] = Tail(@)]
      /\ UNCHANGED <<ckind, remote, phase, main, hosts, loop, fetched, stopping, scheduler, store>>
  BY DEF ScheduledLate, goroutine
<1>2. events[c] \in Seq(Versions)
  OBVIOUS
<1>3. Tail(events[c]) \in Seq(Versions)
  BY <1>1, <1>2
<1>4. ClusterTypeOK'
  BY <1>1, <1>3
<1>5. MainBusy' /\ LoopOfPhase'
  BY <1>1 DEF MainBusy, LoopOfPhase, Unstarted, Joined
<1> QED
  BY <1>4, <1>5

\* One AddHosts of applySnapshot or applyHostsDirect.
LEMMA AddHostKeeps == ASSUME ClusterInv, NEW a, AddHost(a) PROVE ClusterInv'
<1> USE DEF ClusterInv, ClusterTypeOK
<1>1. /\ main.op = "apply" /\ a \in main.todo
      /\ hosts' = [hosts EXCEPT ![main.of] = @ \cup {a}]
      /\ main' = [main EXCEPT !.todo = @ \ {a}]
      /\ UNCHANGED <<ckind, remote, phase, loop, fetched, stopping, scheduler, events, store>>
  BY DEF AddHost, goroutine
<1>2. main.of \in Clusters /\ a \in Known
  BY <1>1 DEF MainBusy
<1>3. /\ main'.op = main.op /\ main'.of = main.of /\ main'.snap = main.snap
      /\ main'.next = main.next /\ main'.todo = main.todo \ {a}
  BY <1>1
<1>4. main' \in [op : {"idle", "apply", "shutdown", "close"}, of : Clusters \cup {None},
                 snap : Versions \cup {0}, todo : SUBSET Known,
                 next : {"ready", "serving", "down", None}]
  BY <1>1, Zenon
<1>5. hosts' \in [Clusters -> SUBSET Known]
  BY <1>1, <1>2
<1>6. ClusterTypeOK'
  BY <1>1, <1>4, <1>5
<1>7. MainBusy'
  BY <1>1, <1>2, <1>3 DEF MainBusy, Unstarted
<1>8. LoopOfPhase'
  BY <1>1 DEF LoopOfPhase, Unstarted, Joined
<1> QED
  BY <1>6, <1>7, <1>8

\* An application ends, complete or not: the main thread starts the goroutine if
\* it never ran, which it does not do for a cluster that is down.
LEMMA AppliedKeeps ==
    ASSUME ClusterInv, AddHostFails \/ RouterApplied \/ DiscoveryApplied PROVE ClusterInv'
<1> USE DEF ClusterInv, ClusterTypeOK
<1> SUFFICES ASSUME NEW c, c = main.of PROVE ClusterInv'
  OBVIOUS
<1>1. /\ main.op = "apply" /\ phase' = [phase EXCEPT ![c] = main.next] /\ main' = MainIdle
      /\ UNCHANGED <<ckind, remote, fetched, stopping, scheduler, events>>
  BY DEF AddHostFails, RouterApplied, DiscoveryApplied, SetPhase
<1>2. /\ c \in Clusters /\ main.snap \in Versions /\ main.next \notin Unstarted
      /\ main.next \in {"ready", "serving", "down"}
      /\ main.next = "down" => loop[c] = "over"
  BY <1>1 DEF MainBusy, Unstarted
<1>3. store' \in Versions \cup {0}
  BY <1>2 DEF AddHostFails, RouterApplied, DiscoveryApplied, PublishSnapshot
<1>4. hosts' \in [Clusters -> SUBSET Known]
  BY <1>2, AddressesKnown DEF AddHostFails, RouterApplied, DiscoveryApplied
<1>5. \/ UNCHANGED loop
      \/ loop[c] = "none" /\ \E at \in {"fetch", "select"} : loop' = [loop EXCEPT ![c] = at]
  BY DEF AddHostFails, RouterApplied, DiscoveryApplied, startFetchLoop, StartPolling, Goroutine
<1>6. main.next = "down" => Joined(c)'
  BY <1>2, <1>5 DEF Joined
<1>7. stopping' \in [Clusters -> BOOLEAN] /\ main.next \in Phases \ {"destroyed"}
  BY <1>1, <1>2 DEF Phases
<1> HIDE DEF ClusterInv
<1> QED
  BY <1>1, <1>2, <1>3, <1>4, <1>5, <1>6, <1>7, MainReturnsKeeps, Zenon

\* on_cluster_shutdown begins.
LEMMA ShutdownKeeps == ASSUME ClusterInv, NEW c \in Clusters, Shutdown(c) PROVE ClusterInv'
<1> USE DEF ClusterInv, ClusterTypeOK
<1>1. /\ phase[c] \in {"ready", "serving"} /\ stopping' = [stopping EXCEPT ![c] = TRUE]
      /\ main' = [op |-> "shutdown", of |-> c, snap |-> 0, todo |-> {}, next |-> None]
      /\ UNCHANGED <<ckind, remote, phase, hosts, loop, fetched, scheduler, events, store>>
  BY Zenon DEF Shutdown, BeginStop, MainIdle
<1>2. main'.op = "shutdown" /\ main'.of = c
  BY <1>1
<1>3. ClusterTypeOK'
  BY <1>1
<1>4. MainBusy'
  BY <1>1, <1>2 DEF MainBusy
<1>5. LoopOfPhase'
  BY <1>1 DEF LoopOfPhase, Unstarted, Joined
<1> QED
  BY <1>3, <1>4, <1>5

\* on_cluster_destroy begins: a cluster without a Close of its own is down.
LEMMA DestroyKeeps ==
    ASSUME ShutdownFirst, ClusterInv, NEW c \in Clusters, Destroy(c) PROVE ClusterInv'
<1> USE DEF ClusterInv, ClusterTypeOK
<1>1. /\ phase[c] \in IF ckind \in AlwaysShutdown THEN {"down"} ELSE {"ready", "serving", "down"}
      /\ stopping' = [stopping EXCEPT ![c] = TRUE] \/ UNCHANGED stopping
      /\ main' = [op |-> "close", of |-> c, snap |-> 0, todo |-> {}, next |-> None]
      /\ UNCHANGED <<ckind, remote, phase, hosts, loop, fetched, scheduler, events, store>>
  BY Zenon DEF Destroy, BeginStop, MainIdle
<1>2. main'.op = "close" /\ main'.of = c
  BY <1>1
<1>3. ClusterTypeOK'
  BY <1>1, Zenon
<1>4. MainBusy'
  BY <1>1, <1>2 DEF MainBusy, ShutdownFirst
<1>5. LoopOfPhase'
  BY <1>1 DEF LoopOfPhase, Unstarted, Joined
<1> QED
  BY <1>3, <1>4, <1>5

\* Shutdown and Destroy end when the goroutine has.
LEMMA StoppedKeeps == ASSUME ClusterInv, ShutdownDone \/ DestroyDone PROVE ClusterInv'
<1> USE DEF ClusterInv, ClusterTypeOK
<1> SUFFICES ASSUME NEW c, c = main.of PROVE ClusterInv'
  OBVIOUS
<1>1. /\ main' = MainIdle
      /\ UNCHANGED <<ckind, remote, hosts, loop, fetched, stopping, events, store>>
  BY DEF ShutdownDone, DestroyDone, goroutine
<1>2. c \in Clusters /\ Joined(c)
  BY DEF ShutdownDone, DestroyDone, MainBusy, LoopOfPhase
<1>3. CASE ShutdownDone
  BY <1>1, <1>2, <1>3, MainReturnsKeeps, ZenonT(30) DEF ShutdownDone, SetPhase, goroutine, Phases, Unstarted, None, Joined
<1>4. CASE DestroyDone
  <2>1. scheduler' = [scheduler EXCEPT ![c] = "none"] /\ phase' = [phase EXCEPT ![c] = "destroyed"]
    BY <1>2, <1>4, Zenon DEF DestroyDone, SetPhase
  <2>2. scheduler'[c] = "none" /\ Joined(c)'
    BY <1>1, <1>2, <2>1 DEF Joined
  <2> QED
    BY <1>1, <1>2, <2>1, <2>2, MainReturnsKeeps DEF Phases, Unstarted, None
<1> QED
  BY <1>3, <1>4

\* The steps of the fetch goroutine.
LEMMA LoopWorksKeeps == ASSUME ClusterInv, NEW c \in Clusters, LoopWorks(c) PROVE ClusterInv'
<1>1. CASE Tick(c)
  BY <1>1, LoopKeeps, Zenon DEF Tick, Goroutine
<1>2. CASE LoopEnds(c)
  BY <1>2, LoopKeeps, Zenon DEF LoopEnds, Goroutine
<1>3. CASE FetchSucceeds(c)
  <2>1. /\ loop[c] = "fetch" /\ loop' = [loop EXCEPT ![c] = "schedule"]
        /\ fetched' = [fetched EXCEPT ![c] = remote]
        /\ UNCHANGED <<ckind, remote, phase, main, hosts, stopping, scheduler, events, store>>
    BY <1>3 DEF FetchSucceeds, FetchModels, FetchShards, FetchDiscovery, Fetched, Goroutine
  <2>2. fetched'[c] \in Versions
    BY <2>1 DEF ClusterInv, ClusterTypeOK
  <2> QED
    BY <2>1, <2>2, LoopKeeps, Zenon
<1>4. CASE FetchFails(c)
  BY <1>4, LoopKeeps, Zenon DEF FetchFails, Goroutine
<1>5. CASE Schedule(c)
  <2>1. /\ loop[c] = "schedule" /\ loop' = [loop EXCEPT ![c] = "commit"]
        /\ UNCHANGED <<ckind, remote, phase, main, hosts, fetched, stopping, events, store>>
    BY <1>5 DEF Schedule, Goroutine
  <2>2. phase[c] # "destroyed" /\ fetched[c] \in Versions
    BY <2>1 DEF ClusterInv, LoopOfPhase, Joined
  <2>3. scheduler' = [scheduler EXCEPT ![c] = "live"]
    BY <1>5, <2>2, Zenon DEF Schedule, ClusterInv, ClusterTypeOK
  <2> QED
    BY <2>1, <2>2, <2>3, LoopKeeps, Zenon
<1>6. CASE Commit(c)
  <2>1. /\ loop[c] = "commit" /\ loop' = [loop EXCEPT ![c] = "select"]
        /\ events' = [events EXCEPT ![c] = Append(@, fetched[c])]
        /\ UNCHANGED <<ckind, remote, phase, main, hosts, fetched, stopping, scheduler, store>>
    BY <1>6 DEF Commit, Goroutine
  <2>2. fetched[c] \in Versions
    BY <2>1 DEF ClusterInv, LoopOfPhase
  <2> QED
    BY <2>1, <2>2, LoopKeeps, Zenon
<1> QED
  BY <1>1, <1>2, <1>3, <1>4, <1>5, <1>6 DEF LoopWorks

\* What the workers do, a new version and stuttering change nothing of it.
LEMMA OthersKeep ==
    ASSUME ClusterInv,
           UNCHANGED <<ckind, phase, main, hosts, goroutine, events, store>>,
           remote' \in Versions
    PROVE  ClusterInv'
BY DEF ClusterInv, ClusterTypeOK, MainBusy, LoopOfPhase, Unstarted, Joined, goroutine

\* A request takes a step on a worker.
WorkerStep ==
    \/ \E r \in Requests, c \in Clusters :
          ModelsChooseHost(r, c) \/ ShardsChooseHost(r, c) \/ DiscoveryChooseHost(r, c)
    \/ \E r \in Requests : ModelsUpstreamFilter(r) \/ ShardsUpstreamFilter(r)

\* Workers change nothing but their requests.
LEMMA WorkerFrame ==
    WorkerStep => UNCHANGED <<ckind, remote, phase, main, hosts, goroutine, events, store>>
<1>1. ASSUME NEW r \in Requests, NEW c \in Clusters,
             ModelsChooseHost(r, c) \/ ShardsChooseHost(r, c) \/ DiscoveryChooseHost(r, c)
      PROVE  UNCHANGED <<ckind, remote, phase, main, hosts, goroutine, events, store>>
  BY <1>1, Zenon DEF ModelsChooseHost, ShardsChooseHost, Routed, DiscoveryChooseHost
<1>2. ASSUME NEW r \in Requests, ModelsUpstreamFilter(r) \/ ShardsUpstreamFilter(r)
      PROVE  UNCHANGED <<ckind, remote, phase, main, hosts, goroutine, events, store>>
  BY <1>2, Zenon DEF ModelsUpstreamFilter, ShardsUpstreamFilter
<1> QED
  BY <1>1, <1>2, Zenon DEF WorkerStep

\* Every step of the clusters keeps the invariant.
LEMMA ClusterStep ==
    ASSUME ShutdownFirst PROVE ClusterInv /\ [ClusterNext]_clusterVars => ClusterInv'
<1> SUFFICES ASSUME ClusterInv, [ClusterNext]_clusterVars PROVE ClusterInv'
  OBVIOUS
<1>1. CASE UNCHANGED clusterVars
  BY <1>1, OthersKeep DEF clusterVars, goroutine, ClusterInv, ClusterTypeOK
<1>2. CASE RemoteChanges
  BY <1>2, OthersKeep DEF RemoteChanges
<1>3. CASE MainContinues
  BY <1>3, AddHostKeeps, AppliedKeeps, StoppedKeeps DEF MainContinues, AddsHost
<1>4. CASE \E c \in Clusters :
              \/ NewCluster(c) \/ ModelsInit(c) \/ ShardsInit(c) \/ DiscoveryInit(c)
              \/ RouterServerInitialized(c) \/ DiscoveryServerInitialized(c)
  BY <1>4, InitKeeps, ServerInitializedKeeps
<1>5. CASE \E c \in Clusters : Shutdown(c) \/ Destroy(c) \/ MainWorks(c) \/ LoopWorks(c)
  BY <1>5, ShutdownKeeps, DestroyKeeps, ScheduledKeeps, ScheduledLateKeeps, LoopWorksKeeps
     DEF MainWorks
<1>6. CASE WorkerStep
  BY <1>6, WorkerFrame, OthersKeep DEF ClusterInv, ClusterTypeOK
<1> QED
  BY <1>1, <1>2, <1>3, <1>4, <1>5, <1>6 DEF ClusterNext, ClustersGone, WorkerStep

\* For any number of clusters: a cluster's goroutine has ended when its handle is
\* destroyed (Close of the routers, Shutdown of the discovery cluster), and none
\* makes a scheduler for it afterwards, wherever the goroutine was in its loop and
\* whatever events were waiting for the main thread.
THEOREM HandleIsLast == ClusterSpec /\ ShutdownFirst => []HandleOutlivesLoop
<1>1. ClusterInv => HandleOutlivesLoop
  BY DEF ClusterInv, LoopOfPhase, HandleOutlivesLoop
<1>2. ShutdownFirst => (ClusterInv /\ [ClusterNext]_clusterVars => ClusterInv')
  BY ClusterStep
<1>3. SUFFICES ASSUME ShutdownFirst PROVE ClusterSpec => []HandleOutlivesLoop
  OBVIOUS
<1> QED
  BY <1>1, <1>2, <1>3, ClusterStarts, PTL DEF ClusterSpec

-----------------------------------------------------------------------------
(* Proofs: the routers' store and the hosts of their cluster.               *)

\* The routers' store belongs to the process and describes the hosts of one
\* cluster.
OneCluster == \A c, d \in Clusters : c = d

\* applySnapshot adds a host for every address before it publishes, and a router
\* removes none.
LEMMA StoreStep ==
    ASSUME OneCluster, ClusterInv, StoreHasHosts, [ClusterNext]_clusterVars
    PROVE  StoreHasHosts'
<1> USE DEF ClusterInv, ClusterTypeOK
<1>1. CASE UNCHANGED <<ckind, main, hosts, store>>
  BY <1>1, Zenon DEF StoreHasHosts
<1>2. ASSUME NEW c \in Clusters, NEW v \in Versions, NEW next, BeginApply(c, v, next),
             UNCHANGED <<ckind, hosts, store>>
      PROVE  StoreHasHosts'
  <2>1. /\ main'.op = "apply" /\ main'.of = c /\ main'.snap = v
        /\ main'.todo = Addresses[ckind][v] \ hosts[c]
    BY <1>2 DEF BeginApply
  <2> QED
    BY <1>2, <2>1 DEF StoreHasHosts
<1>3. ASSUME main'.op # "apply", UNCHANGED <<ckind, hosts, store>> PROVE StoreHasHosts'
  BY <1>3 DEF StoreHasHosts
<1>4. ASSUME NEW a, AddHost(a) PROVE StoreHasHosts'
  <2>1. /\ main.op = "apply" /\ a \in main.todo
        /\ hosts' = [hosts EXCEPT ![main.of] = @ \cup {a}]
        /\ main' = [main EXCEPT !.todo = @ \ {a}]
        /\ UNCHANGED <<ckind, store>>
    BY <1>4 DEF AddHost
  <2>2. /\ main'.op = main.op /\ main'.of = main.of /\ main'.snap = main.snap
        /\ main'.todo = main.todo \ {a} /\ main.of \in Clusters
    BY <2>1 DEF MainBusy
  <2>3. \A c \in Clusters : hosts[c] \subseteq hosts'[c]
    BY <2>1
  <2>4. hosts'[main.of] = hosts[main.of] \cup {a}
    BY <2>1, <2>2
  <2>5. ckind \in Routers /\ store # 0 =>
            \A c \in Clusters : Addresses[ckind][store] \subseteq hosts'[c]
    BY <2>3 DEF StoreHasHosts
  <2>6. ckind \in Routers =>
            Addresses[ckind][main.snap] \subseteq hosts'[main.of] \cup (main.todo \ {a})
    BY <2>1, <2>4 DEF StoreHasHosts
  <2> QED
    BY <2>1, <2>2, <2>5, <2>6 DEF StoreHasHosts
<1>5. CASE RouterApplied
  <2>1. /\ main.op = "apply" /\ main.todo = {} /\ ckind \in Routers
        /\ store' = main.snap /\ main' = MainIdle /\ UNCHANGED <<ckind, hosts>>
    BY <1>5 DEF RouterApplied, PublishSnapshot
  <2>2. main'.op = "idle" /\ main.of \in Clusters
    BY <2>1, Zenon DEF MainIdle, MainBusy
  <2>3. Addresses[ckind][store'] \subseteq hosts'[main.of]
    BY <2>1 DEF StoreHasHosts
  <2> QED
    BY <2>1, <2>2, <2>3 DEF StoreHasHosts, OneCluster
<1>6. CASE DiscoveryApplied
  BY <1>6 DEF DiscoveryApplied, StoreHasHosts, Routers
<1>7. CASE AddHostFails \/ ShutdownDone \/ DestroyDone
  <2>1. main' = MainIdle /\ UNCHANGED <<ckind, hosts, store>>
    BY <1>7 DEF AddHostFails, ShutdownDone, DestroyDone
  <2> QED
    BY <2>1, <1>3 DEF MainIdle
<1>8. ASSUME NEW c \in Clusters, Shutdown(c) \/ Destroy(c) PROVE StoreHasHosts'
  <2>1. UNCHANGED <<ckind, hosts, store>> /\ main'.op \in {"shutdown", "close"}
    BY <1>8, ZenonT(30) DEF Shutdown, Destroy, BeginStop, MainIdle
  <2> QED
    BY <2>1, <1>3
<1>9. ASSUME NEW c \in Clusters, Scheduled(c) PROVE StoreHasHosts'
  <2>1. events[c] \in Seq(Versions) /\ events[c] # <<>>
    BY <1>9 DEF Scheduled
  <2>2. Head(events[c]) \in Versions
    BY <2>1
  <2> QED
    BY <1>2, <1>9, <2>2 DEF Scheduled
<1>10. ASSUME NEW c \in Clusters,
              \/ NewCluster(c) \/ ModelsInit(c) \/ ShardsInit(c) \/ DiscoveryInit(c)
              \/ RouterServerInitialized(c) \/ DiscoveryServerInitialized(c)
       PROVE  StoreHasHosts'
  BY <1>1, <1>2, <1>10, ClusterAssumption
     DEF NewCluster, ModelsInit, ShardsInit, DiscoveryInit, RouterServerInitialized,
         DiscoveryServerInitialized
<1>11. ASSUME NEW c \in Clusters, ScheduledLate(c) \/ LoopWorks(c) PROVE StoreHasHosts'
  BY <1>1, <1>11, Zenon DEF ScheduledLate, LoopWorks, Tick, LoopEnds, FetchSucceeds, FetchModels,
                     FetchShards, FetchDiscovery, Fetched, FetchFails, Schedule, Commit
<1>12. CASE WorkerStep \/ RemoteChanges \/ UNCHANGED clusterVars
  BY <1>1, <1>12, WorkerFrame DEF RemoteChanges, clusterVars
<1> HIDE DEF ClusterInv, ClusterTypeOK
<1> QED
  BY <1>4, <1>5, <1>6, <1>7, <1>8, <1>9, <1>10, <1>11, <1>12, Zenon
     DEF ClusterNext, MainContinues, AddsHost, MainWorks, ClustersGone, WorkerStep

\* What the store gives a request is known, and a host of every cluster.
LEMMA LookupPlaced ==
    ASSUME ClusterInv, StoreHasHosts, ckind \in Routers, NEW h \in Headers,
           NEW a \in Lookup(store, h)
    PROVE  store \in Versions /\ a \in Known /\ \A c \in Clusters : a \in hosts[c]
<1>1. store \in Versions /\ store # 0
  BY DEF Lookup, ClusterInv, ClusterTypeOK
<1>2. ckind \in Kinds \cap Routers
  BY DEF ClusterInv, ClusterTypeOK
<1>3. a \in Addresses[ckind][store]
  BY <1>1, <1>2, ClusterAssumption DEF Lookup
<1> QED
  BY <1>1, <1>2, <1>3, AddressesKnown DEF StoreHasHosts

\* ChooseHost and the upstream filters.
LEMMA RequestStep ==
    ASSUME ClusterInv, StoreHasHosts, RequestsPlaced, WorkerStep PROVE RequestsPlaced'
<1> USE DEF RequestsPlaced
<1>1. ASSUME NEW r \in Requests, NEW c \in Clusters, Routed(r, c), ckind \in Routers
      PROVE  RequestsPlaced'
  <2>1. PICK h \in Headers :
             \/ req' = [req EXCEPT ![r].at = "no route", ![r].hdr = h]
             \/ \E a \in Lookup(store, h) :
                   req' = [req EXCEPT ![r].at = IF a \in hosts[c] THEN "chosen" ELSE "no host",
                                      ![r].hdr = h, ![r].route = store, ![r].host = a]
    BY <1>1 DEF Routed
  <2>2. CASE req' = [req EXCEPT ![r].at = "no route", ![r].hdr = h]
    BY <2>2
  <2>3. ASSUME NEW a \in Lookup(store, h),
               req' = [req EXCEPT ![r].at = IF a \in hosts[c] THEN "chosen" ELSE "no host",
                                  ![r].hdr = h, ![r].route = store, ![r].host = a]
        PROVE  RequestsPlaced'
    <3>1. store \in Versions /\ a \in Known /\ a \in hosts[c]
      BY <1>1, LookupPlaced
    <3> QED
      BY <2>3, <3>1
  <2> QED
    BY <2>1, <2>2, <2>3, ZenonT(30)
<1>2. ASSUME NEW r \in Requests, NEW c \in Clusters, DiscoveryChooseHost(r, c)
      PROVE  RequestsPlaced'
  <2>1. hosts[c] \subseteq Known
    BY DEF ClusterInv, ClusterTypeOK
  <2> QED
    BY <1>2, <2>1, Zenon DEF DiscoveryChooseHost
<1>3. ASSUME NEW r \in Requests, ModelsUpstreamFilter(r) PROVE RequestsPlaced'
  BY <1>3, Zenon DEF ModelsUpstreamFilter
<1>4. ASSUME NEW r \in Requests, ShardsUpstreamFilter(r) PROVE RequestsPlaced'
  BY <1>4 DEF ShardsUpstreamFilter
<1> QED
  BY <1>1, <1>2, <1>3, <1>4, Zenon DEF WorkerStep, ModelsChooseHost, ShardsChooseHost, Routers

\* Nobody but a worker touches a request.
LEMMA RequestFrame ==
    ASSUME [ClusterNext]_clusterVars, ~WorkerStep PROVE UNCHANGED req
BY Zenon DEF ClusterNext, WorkerStep, clusterVars, RemoteChanges, MainContinues, AddsHost, AddHost,
       AddHostFails, RouterApplied, DiscoveryApplied, ShutdownDone, DestroyDone, NewCluster,
       ModelsInit, ShardsInit, DiscoveryInit, RouterServerInitialized,
       DiscoveryServerInitialized, Shutdown, Destroy, MainWorks, Scheduled, ScheduledLate,
       LoopWorks, Tick, LoopEnds, FetchSucceeds, FetchModels, FetchShards, FetchDiscovery,
       Fetched, FetchFails, Schedule, Commit, ClustersGone

\* With one cluster and any routes, versions and requests: what the goroutine
\* works on is not freed under it, and the address a router chooses for a request
\* is one its cluster has a host for.  applySnapshot adds every host before it
\* publishes, an application that fails half-way publishes nothing, and hosts of
\* earlier versions stay.
THEOREM ClusterUsesWhatExists ==
    ClusterSpec /\ ShutdownFirst /\ OneCluster => []UsesWhatExists
<1> SUFFICES ASSUME ShutdownFirst, OneCluster PROVE ClusterSpec => []UsesWhatExists
  OBVIOUS
<1> DEFINE Inv == ClusterInv /\ StoreHasHosts /\ RequestsPlaced
<1>1. ClusterInit => Inv
  <2> SUFFICES ASSUME ClusterInit PROVE Inv
    OBVIOUS
  <2>1. StoreHasHosts
    BY Zenon DEF ClusterInit, StoreHasHosts, MainIdle
  <2>2. RequestsPlaced
    BY DEF ClusterInit, RequestsPlaced
  <2> QED
    BY <2>1, <2>2, ClusterStarts
<1>2. Inv /\ [ClusterNext]_clusterVars => Inv'
  <2> SUFFICES ASSUME Inv, [ClusterNext]_clusterVars PROVE Inv'
    OBVIOUS
  <2>1. ClusterInv' /\ StoreHasHosts'
    BY ClusterStep, StoreStep
  <2>2. RequestsPlaced'
    BY RequestStep, RequestFrame DEF RequestsPlaced
  <2> QED
    BY <2>1, <2>2
<1>3. Inv => UsesWhatExists
  <2>1. RequestsPlaced => RoutedHostKnown
    BY DEF RequestsPlaced, RoutedHostKnown
  <2>2. ClusterInv => HandleOutlivesLoop
    BY DEF ClusterInv, LoopOfPhase, HandleOutlivesLoop
  <2> QED
    BY <2>1, <2>2 DEF UsesWhatExists
<1> QED
  BY <1>1, <1>2, <1>3, PTL DEF ClusterSpec
=============================================================================

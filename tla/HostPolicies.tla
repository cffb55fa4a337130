---------------------------- MODULE HostPolicies ----------------------------
(***************************************************************************)
(* The examples that choose a host at once: cluster extensions that own    *)
(* their hosts ("static", "least-conn", "filter-state", "dfp", "decider")  *)
(* and load-balancer policies over hosts Envoy owns ("first-host",         *)
(* "header-hash", "metadata", "retry-aware").  One behaviour is one of     *)
(* them, with requests that ask for something, are sent to a host, fail    *)
(* there and are retried, while Envoy ejects hosts and takes them back.    *)
(*                                                                         *)
(* A HostPtr is the host's place in the cluster, 0 is nil.  A worker's     *)
(* callback sees one host set; the counters of the other workers it reads  *)
(* one at a time.  Weights and localities, which no policy here looks at,  *)
(* are left out.  What "decider" asks for, its filter has decided: the     *)
(* routing core (libsygo) is outside the repository.                       *)
(***************************************************************************)
EXTENDS Naturals, Sequences, SequencesExt

CONSTANTS
    PolicyKinds,
    HostConfigs,     \* sequences of [address, model]
    Clients,
    Wants,           \* what a request may ask for, "" for nothing
    Numeric,         \* addresses Envoy takes
    ResolvesTo,      \* what DNS says of the names it knows
    Hash,            \* fnv.New32a of each want
    MaxTries,        \* bound on the attempts of a request
    MaxChanges       \* bound on the changes of a host's health

VARIABLES
    kind,
    specs,       \* the config Create accepted
    hosts,       \* the cluster's hosts: their addresses, in Envoy's order
    table,       \* byModel, modelAddrs
    ptrs,        \* what AddHosts gave the cluster extension
    healthy,     \* HostPtrs Envoy counts as healthy
    active,      \* HostStatRqActive of each host
    changes,     \* of a host's health, so far
    phase,       \* of each client's request
    want,        \* its header or filter state
    failed,      \* HeaderDecisionError is set
    tried,       \* hosts it was sent to before
    readings,    \* leastConnClusterLB.ChooseHost: the counters read so far
    sent         \* its attempts: the host, and what the choice was made from

policyVars == <<kind, specs, hosts, table, ptrs, healthy, active, changes, phase, want, failed,
                tried, readings, sent>>
health == <<healthy, changes>>
clusterState == <<kind, specs, hosts, table, ptrs>>

\* The policies that look at what a request asks for.
Reads == {"filter-state", "dfp", "decider", "header-hash", "metadata"}

-----------------------------------------------------------------------------
(* The cluster extensions: Create and Init.                                 *)

\* parseHosts: at least one host, each with an address.
parseHosts(config) == config # <<>> /\ \A i \in DOMAIN config : config[i].address # ""

\* parseClusterHosts: also with a model.
parseClusterHosts(config) == parseHosts(config) /\ \A i \in DOMAIN config : config[i].model # ""

\* clusterHandleImpl.AddHosts: a pointer for every spec or, when Envoy refuses one,
\* as many null pointers and no host.
Accepted(addresses) == \A i \in DOMAIN addresses : addresses[i] \in Numeric
AddHosts(addresses) ==
    IF Accepted(addresses) THEN [i \in DOMAIN addresses |-> i]
    ELSE [i \in DOMAIN addresses |-> 0]

\* FindHostByAddress.
FindHostByAddress(address) ==
    IF \E i \in DOMAIN hosts : hosts[i] = address
    THEN CHOOSE i \in DOMAIN hosts : hosts[i] = address ELSE 0

\* Init of static, least-conn and filter-state: AddHosts, UpdateHostHealth for all.
InitAdds(config) ==
    LET addresses == [i \in DOMAIN config |-> config[i].address] IN
    /\ parseHosts(config)
    /\ ptrs = AddHosts(addresses)
    /\ hosts = IF Accepted(addresses) THEN addresses ELSE <<>>
    /\ table = <<>>

\* modelCluster.Init: the last host of a model has it.
InitByModel(config) ==
    LET addresses == [i \in DOMAIN config |-> config[i].address] IN
    /\ parseClusterHosts(config)
    /\ ptrs = AddHosts(addresses)
    /\ hosts = IF Accepted(addresses) THEN addresses ELSE <<>>
    /\ table = [m \in {config[i].model : i \in DOMAIN config} |->
                  ptrs[CHOOSE i \in DOMAIN config :
                         /\ config[i].model = m
                         /\ \A j \in DOMAIN config : config[j].model = m => j <= i]]

\* resolveTarget: the address DNS has for the name in time, or an error.
resolveTarget(target) == IF target \in DOMAIN ResolvesTo THEN ResolvesTo[target] ELSE ""

\* resolveModels: the models of the config whose targets resolve.
resolveModels(config) ==
    LET target == [m \in {config[i].model : i \in DOMAIN config} |->
                     config[CHOOSE i \in DOMAIN config : config[i].model = m].address]
    IN  [m \in {n \in DOMAIN target : resolveTarget(target[n]) # ""} |-> resolveTarget(target[m])]

\* applyResolved: every address is added once and remembered; one that Envoy refuses
\* is remembered too, its pointer being null and not missing.
applyResolved(resolved) ==
    /\ table = resolved
    /\ hosts = SetToSeq({resolved[m] : m \in DOMAIN resolved} \cap Numeric)
    /\ ptrs = <<>>

\* dfpCluster.Init.
InitResolved(config) == applyResolved(resolveModels(config))

PolicyInit ==
    /\ kind \in PolicyKinds
    /\ specs \in HostConfigs
    /\ CASE kind \in {"static", "least-conn", "filter-state"} -> InitAdds(specs)
         [] kind = "decider" -> InitByModel(specs)
         [] kind = "dfp" -> InitResolved(specs)
         [] OTHER -> /\ hosts = [i \in DOMAIN specs |-> specs[i].address]
                     /\ Accepted(hosts)
                     /\ ptrs = <<>> /\ table = <<>>
    /\ healthy = DOMAIN hosts
    /\ active = [h \in DOMAIN hosts |-> 0]
    /\ changes = 0
    /\ phase = [c \in Clients |-> "new"]
    /\ want = [c \in Clients |-> ""]
    /\ failed = {}
    /\ tried = [c \in Clients |-> {}]
    /\ readings = [c \in Clients |-> <<>>]
    /\ sent = [c \in Clients |-> <<>>]

-----------------------------------------------------------------------------
(* ChooseHost.                                                              *)

HealthyHosts == SelectSeq([i \in DOMAIN hosts |-> i], LAMBDA h : h \in healthy)
HealthyHostCount == Len(HealthyHosts)

\* firstHealthyClusterLB, firstHostPolicy, firstHealthyPolicy.
FirstHealthy == IF HealthyHostCount = 0 THEN 0 ELSE HealthyHosts[1]

\* filterStateRouterLB.ChooseHost: the target of the config or of the cluster, the
\* first healthy host without one.
ByFilterState(c) ==
    LET known == {i \in DOMAIN specs : specs[i].address = want[c] /\ i <= Len(ptrs)} IN
    IF want[c] # "" /\ known # {} THEN ptrs[CHOOSE i \in known : \A j \in known : i <= j]
    ELSE IF want[c] # "" /\ FindHostByAddress(want[c]) # 0 THEN FindHostByAddress(want[c])
    ELSE FirstHealthy

\* dfpLB.ChooseHost.
ByModelAddress(c) ==
    IF want[c] = "" \/ want[c] \notin DOMAIN table THEN 0 ELSE FindHostByAddress(table[want[c]])

\* modelClusterLB.ChooseHost.
ByDecidedModel(c) ==
    IF HealthyHostCount = 0 THEN 0
    ELSE IF want[c] # "" /\ want[c] \in DOMAIN table THEN table[want[c]]
    ELSE FirstHealthy

\* headerHashPolicy.ChooseHost.
ByHeaderHash(c) ==
    IF HealthyHostCount = 0 THEN 0
    ELSE IF want[c] = "" THEN HealthyHosts[1]
    ELSE HealthyHosts[(Hash[want[c]] % HealthyHostCount) + 1]

\* metadataRoutePolicy.ChooseHost: the first healthy host with the capability.
ByMetadata(c) ==
    LET able == {i \in 1 .. HealthyHostCount : specs[HealthyHosts[i]].model = want[c]} IN
    IF HealthyHostCount = 0 THEN 0
    ELSE IF want[c] = "" \/ able = {} THEN HealthyHosts[1]
    ELSE HealthyHosts[CHOOSE i \in able : \A j \in able : i <= j]

\* Envoy's ShouldSelectAnotherHost, with the predicate that omits hosts tried before.
ShouldSelectAnotherHost(c, h) == h \in tried[c]

\* retryAwarePolicy.ChooseHost.
ByRetry(c) ==
    LET fresh == {i \in 1 .. HealthyHostCount : ~ShouldSelectAnotherHost(c, HealthyHosts[i])} IN
    IF HealthyHostCount = 0 THEN 0
    ELSE IF fresh = {} THEN HealthyHosts[1]
    ELSE HealthyHosts[CHOOSE i \in fresh : \A j \in fresh : i <= j]

\* leastConnClusterLB.ChooseHost: among all hosts, the first with the least counter.
LeastOf(counters) ==
    IF counters = <<>> THEN 0
    ELSE CHOOSE i \in DOMAIN counters : \A j \in DOMAIN counters :
           counters[i] <= counters[j] /\ (counters[i] = counters[j] => i <= j)

Chosen(c) ==
    CASE kind = "filter-state" -> ByFilterState(c)
      [] kind = "dfp" -> ByModelAddress(c)
      [] kind = "decider" -> ByDecidedModel(c)
      [] kind = "header-hash" -> ByHeaderHash(c)
      [] kind = "metadata" -> ByMetadata(c)
      [] kind = "retry-aware" -> ByRetry(c)
      [] kind = "least-conn" -> LeastOf(readings[c])
      [] OTHER -> FirstHealthy

-----------------------------------------------------------------------------
(* A request.                                                               *)

\* Headers that no filter of the example looks at, or the handler of
\* filter-state-writer, which copies one into the filter state.
Arrive(c) ==
    /\ phase[c] = "new" /\ kind # "decider"
    /\ \E w \in IF kind \in Reads THEN Wants ELSE {""} : want' = [want EXCEPT ![c] = w]
    /\ phase' = [phase EXCEPT ![c] = "choosing"]
    /\ UNCHANGED <<clusterState, health, active, failed, tried, readings, sent>>

\* decideHandler, at the end of the body: without messages the request goes on with
\* an error; with them a goroutine asks the judge.
DecideHandler(c) ==
    /\ phase[c] = "new" /\ kind = "decider"
    /\ \/ /\ failed' = failed \cup {c}
          /\ phase' = [phase EXCEPT ![c] = "choosing"]
       \/ /\ phase' = [phase EXCEPT ![c] = "judged"]
          /\ UNCHANGED failed
    /\ UNCHANGED <<clusterState, health, active, want, tried, readings, sent>>

\* judgeDecider.Call: an answer, or an error for a callout that fails or an answer
\* that does not decode.
JudgeCall == {"answer", "error"}

\* Router.Route: a model for an answer; an error may also leave the session's model
\* or the default.
Route(call) == {[error |-> FALSE, model |-> w] : w \in Wants \ {""}}
               \cup IF call = "error" THEN {[error |-> TRUE, model |-> ""]} ELSE {}

\* applyOutcome, in the goroutine.
ApplyOutcome(c) ==
    /\ phase[c] = "judged"
    /\ \E call \in JudgeCall : \E outcome \in Route(call) :
         /\ want' = [want EXCEPT ![c] = outcome.model]
         /\ failed' = IF outcome.error THEN failed \cup {c} ELSE failed
    /\ phase' = [phase EXCEPT ![c] = "choosing"]
    /\ UNCHANGED <<clusterState, health, active, tried, readings, sent>>

\* One round of the loop over HostStat; other workers' requests come and go between
\* two rounds.
ReadStat(c) ==
    /\ phase[c] = "choosing" /\ kind = "least-conn"
    /\ Len(readings[c]) < Len(hosts)
    /\ readings' = [readings EXCEPT ![c] = Append(@, active[Len(@) + 1])]
    /\ UNCHANGED <<clusterState, health, active, phase, want, failed, tried, sent>>

\* ChooseHost; without a host Envoy answers 503.
ChooseHost(c) ==
    LET h == Chosen(c) IN
    /\ phase[c] = "choosing"
    /\ kind = "least-conn" => Len(readings[c]) = Len(hosts)
    /\ sent' = [sent EXCEPT ![c] = Append(@, [host |-> h, healthy |-> healthy,
                                              tried |-> tried[c], stats |-> readings[c]])]
    /\ phase' = [phase EXCEPT ![c] = IF h = 0 THEN "over" ELSE "upstream"]
    /\ active' = IF h = 0 THEN active ELSE [active EXCEPT ![h] = @ + 1]
    /\ readings' = [readings EXCEPT ![c] = <<>>]
    /\ UNCHANGED <<clusterState, health, want, failed, tried>>

\* The host answers, or fails and Envoy retries.
UpstreamEnds(c) ==
    LET h == Last(sent[c]).host IN
    /\ phase[c] = "upstream"
    /\ active' = [active EXCEPT ![h] = @ - 1]
    /\ \/ /\ phase' = [phase EXCEPT ![c] = "over"]
          /\ UNCHANGED tried
       \/ /\ Len(sent[c]) < MaxTries
          /\ phase' = [phase EXCEPT ![c] = "choosing"]
          /\ tried' = [tried EXCEPT ![c] = @ \cup {h}]
    /\ UNCHANGED <<clusterState, health, want, failed, readings, sent>>

\* Health checks and outlier detection; two of the policies never look.
HealthChanges(h) ==
    /\ kind \notin {"least-conn", "dfp"} /\ changes < MaxChanges
    /\ h \in DOMAIN hosts
    /\ healthy' \in {healthy \ {h}, healthy \cup {h}} \ {healthy}
    /\ changes' = changes + 1
    /\ UNCHANGED <<clusterState, active, phase, want, failed, tried, readings, sent>>

RequestSteps(c) ==
    \/ Arrive(c) \/ DecideHandler(c) \/ ApplyOutcome(c)
    \/ ReadStat(c) \/ ChooseHost(c) \/ UpstreamEnds(c)

PolicyOver == (\A c \in Clients : phase[c] = "over") /\ UNCHANGED policyVars

PolicyNext ==
    \/ \E c \in Clients : RequestSteps(c)
    \/ \E h \in DOMAIN hosts : HealthChanges(h)
    \/ PolicyOver

\* Workers run, the judge's callout ends at its timeout and so does the upstream's.
PolicySpec ==
    PolicyInit /\ [][PolicyNext]_policyVars
    /\ \A c \in Clients : WF_policyVars(RequestSteps(c))

-----------------------------------------------------------------------------
(* Properties.                                                              *)

\* What attempt a of a request that asked for w should have found.
Placed(w, a) ==
    LET serving == {h \in DOMAIN hosts : \E i \in DOMAIN specs :
                      /\ specs[i].model = w
                      /\ hosts[h] \in {specs[i].address, resolveTarget(specs[i].address)}}
    IN  CASE kind \in {"static", "first-host", "header-hash"} ->
               IF a.healthy = {} THEN a.host = 0 ELSE a.host \in a.healthy
          [] kind = "retry-aware" ->
               IF a.healthy = {} THEN a.host = 0
               ELSE a.host \in a.healthy /\ (a.healthy \ a.tried # {} => a.host \notin a.tried)
          [] kind = "metadata" ->
               IF a.healthy = {} THEN a.host = 0
               ELSE a.host \in a.healthy /\ (serving \cap a.healthy # {} /\ w # "" => a.host \in serving)
          [] kind = "filter-state" ->
               IF w \in Range(hosts) THEN hosts[a.host] = w ELSE a.host \in a.healthy \cup {0}
          [] kind = "dfp" -> IF serving = {} \/ w = "" THEN a.host = 0 ELSE a.host \in serving
          [] kind = "decider" ->
               IF a.healthy = {} THEN a.host = 0
               ELSE IF serving = {} THEN a.host \in a.healthy ELSE a.host \in serving
          [] kind = "least-conn" ->
               IF hosts = <<>> THEN a.host = 0
               ELSE \A h \in DOMAIN hosts : a.stats[a.host] <= a.stats[h]

\* Every request ends, and each of its attempts went to a host of the cluster its
\* policy promises: a healthy one, one not tried before while there is one, the one
\* that serves what was asked for, the least loaded of those read; none only where
\* the policy has none.  A session hashes to the same host while the healthy hosts
\* stay the same, and a decider's request carries a decision or the error.
RequestsPlaced ==
    \A c \in Clients : phase[c] # "new" ~>
      /\ phase[c] = "over"
      /\ \A n \in DOMAIN sent[c] : Placed(want[c], sent[c][n])
      /\ kind = "decider" => (want[c] = "" <=> c \in failed)
      /\ kind = "header-hash" =>
           \A d \in Clients : \A m \in DOMAIN sent[d] : \A n \in DOMAIN sent[c] :
             want[c] = want[d] /\ sent[c][n].healthy = sent[d][m].healthy
               => sent[c][n].host = sent[d][m].host
=============================================================================

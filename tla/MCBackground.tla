---------------------------- MODULE MCBackground ----------------------------
(***************************************************************************)
(* What runs beside the workers, for TLC: the poller of a pipeline's       *)
(* configuration, the actors of a group, the fetch goroutine of a cluster, *)
(* the pumps of a proxied session.  They share nothing, so each behaviour  *)
(* is one of one of them; the others stay as they began.                   *)
(***************************************************************************)
EXTENDS PipelineConfig, GroupLifecycle, ClusterLifecycle, RouteConfig

CONSTANTS
    \* SessionProxy
    MaxResponses, MaxOther

VARIABLES
    part,
    \* SessionProxy
    serve, clientUp, upstreamUp, clientOut, upstreamOut, up, down, errc, tap, record, sentOther,
    creates, asked, completed, delivered, owed

Session == INSTANCE SessionProxy

\* A request's routing headers: its model or path, and its tag.
MCHeaders == {<<<<>>, <<>>>>, <<<<"a">>, <<>>>>, <<<<"a", "b">>, <<"a">>>>}

Shard(target, prefixes, status) == [target |-> target, prefixes |-> prefixes, status |-> status]
Model(target, provider) == [target |-> target, provider |-> provider]

\* The default shard serves what no prefix claims; the shard of a names none.
MCL1 == [default |-> <<"d">>,
         shards  |-> (<<"a">> :> Shard("t1", {}, "active")) @@ (<<"d">> :> Shard("t3", {}, "none"))]
MCL2 == <<"a">> :> (<<"a">> :> Model("t1", "p"))

\* First a target that does not resolve, a request the server refuses and a shard
\* for a longer prefix; then other models and the retirement of the first shard.
MCUpdates ==
    <<<<[op |-> "model", of |-> <<"a">>, name |-> <<"a">>, model |-> Model("bad", "p")],
        [op |-> "model", of |-> <<"a">>, name |-> <<"a">>, model |-> Model("t2", "none")],
        [op |-> "shard", name |-> <<"b">>, shard |-> Shard("t2", {<<"a", "b">>, <<>>}, "none")]>>,
      <<[op |-> "replace", of |-> <<"a">>,
         models |-> (<<"a">> :> Model("t2", "p")) @@ (<<"a", "b">> :> Model("t1", "p"))],
        [op |-> "shard", name |-> <<"a">>, shard |-> Shard("t1", {}, "drained")]>>>>
MCResolver == ("t1" :> "h1") @@ ("t2" :> "h2") @@ ("t3" :> "h3")
MCMyShard == <<"a">>
MCDiscovered == <<{"h1"}, {}, {"h2", "h3"}>>

sessionVars == <<serve, clientUp, upstreamUp, clientOut, upstreamOut, up, down, errc, tap,
                 record, sentOther, creates, asked, completed, delivered, owed>>
allVars == <<part, pipelineVars, groupVars, clusterVars, sessionVars>>

MCInit ==
    /\ part \in {"pipeline", "group", "cluster", "session"}
    /\ PipelineInit /\ GroupInit /\ ClusterInit /\ Session!SessionInit
    /\ part # "group" => actors = Goroutines /\ port = Free
    /\ part # "cluster" => ckind = "discovery"

MCNext ==
    \/ /\ part = "pipeline" /\ PipelineNext
       /\ UNCHANGED <<part, groupVars, clusterVars, sessionVars>>
    \/ /\ part = "group" /\ GroupNext
       /\ UNCHANGED <<part, pipelineVars, clusterVars, sessionVars>>
    \/ /\ part = "cluster" /\ ClusterNext
       /\ UNCHANGED <<part, pipelineVars, groupVars, sessionVars>>
    \/ /\ part = "session" /\ Session!SessionNext
       /\ UNCHANGED <<part, pipelineVars, groupVars, clusterVars>>

\* The fairness of PipelineSpec, GroupSpec, ClusterSpec and
\* Session!SessionSpec.
MCFairness ==
    /\ \A f \in Fetchers : WF_pipelineVars(part = "pipeline" /\ FetchSteps(f))
    /\ WF_pipelineVars(part = "pipeline" /\ (PollFetchReturns \/ Poll))
    /\ WF_pipelineVars(part = "pipeline" /\ SignalRefresh)
    /\ SF_pipelineVars(part = "pipeline" /\ PollerEnds)
    /\ WF_pipelineVars(part = "pipeline" /\ StopReturns)
    /\ WF_groupVars(part = "group" /\ GroupProgress)
    /\ WF_clusterVars(part = "cluster" /\ MainContinues)
    /\ SF_clusterVars(part = "cluster" /\ AddsHost)
    /\ \A c \in Clusters :
         /\ WF_clusterVars(part = "cluster" /\ MainWorks(c))
         /\ WF_clusterVars(part = "cluster" /\ LoopWorks(c))
         /\ SF_clusterVars(part = "cluster" /\ LoopEnds(c))
         /\ SF_clusterVars(part = "cluster" /\ FetchSucceeds(c))
    /\ WF_sessionVars(part = "session" /\ Session!ClientPump)
    /\ WF_sessionVars(part = "session" /\ Session!UpstreamPump)
    /\ WF_sessionVars(part = "session" /\ Session!PumpReports)
    /\ WF_sessionVars(part = "session" /\ Session!ServeHTTP)

MCSpec == MCInit /\ [][MCNext]_allVars /\ MCFairness

-----------------------------------------------------------------------------
(* Properties of the modules, of the part that runs.                        *)

\* Nobody who stops something waits for ever: OnDestroy of a filter with a group
\* returns, and Envoy's Shutdown of a cluster is answered; and a session one side
\* of which has closed ends with its pumps and its record.
ShutdownEnds ==
    /\ part = "group" => DestroyReturns
    /\ part = "cluster" => ShutdownAnswered
    /\ part = "session" => Session!SessionSettles

\* A new configuration arrives: the pipeline's current one becomes the file's, and
\* the router's and the hosts' the remote one, unless they are stopped.
UpdatesArrive ==
    /\ part = "pipeline" => ConfigCatchesUp
    /\ part = "cluster" => ConfigConverges
=============================================================================

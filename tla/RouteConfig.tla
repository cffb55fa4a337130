---------------------------- MODULE RouteConfig ----------------------------
(***************************************************************************)
(* What the routers route by.  A control server keeps the configs of the   *)
(* two tiers (ConfigStore: shards for the first, the models of every shard *)
(* for the second) and changes them on request; a router fetches one,      *)
(* resolves it whole and looks requests up in the result.                  *)
(*                                                                         *)
(* Names, tags and prefixes are sequences of characters, <<>> the empty    *)
(* string; a target is a value of its own, or Missing.  Requests to        *)
(* the server come in batches between two fetches; a version is the number *)
(* of batches it has handled, plus one.                                    *)
(***************************************************************************)
EXTENDS Naturals, FiniteSets, SequencesExt, TLC

CONSTANTS
    InitialL1,   \* [default |-> name, shards |-> [name -> shard]]
    InitialL2,   \* shard -> model -> [target, provider]
    Updates,     \* the requests to the control server: batches, in their order
    Resolver,    \* target -> address, for the targets that resolve
    RouteHeaders,\* what a request's routing headers can be
    MyShard,     \* whose models the second tier's router fetches
    Discovered   \* version -> addresses, what the discovery endpoint lists

Missing == "none"
DefaultShardName == <<"d">>   \* the characters of "default" stand for one
ServedVersions == 1 .. Len(Updates) + 1

-----------------------------------------------------------------------------
(* The control server.                                                      *)

validateShard(name, s) == name # <<>> /\ s.target # Missing

validateModel(name, m) == name # <<>> /\ m.target # Missing /\ m.provider # Missing

\* ConfigStore.UpsertShard: one shard is added or replaced, none is removed.
UpsertShard(cfg, u) ==
    IF validateShard(u.name, u.shard)
      THEN [cfg EXCEPT !.l1.shards = (u.name :> u.shard) @@ @]
      ELSE cfg

\* ConfigStore.UpsertModel: the models of a shard nobody knew start empty.
UpsertModel(cfg, u) ==
    LET old == IF u.of \in DOMAIN cfg.l2 THEN cfg.l2[u.of] ELSE <<>>
    IN  IF u.of # <<>> /\ validateModel(u.name, u.model)
          THEN [cfg EXCEPT !.l2 = (u.of :> ((u.name :> u.model) @@ old)) @@ @]
          ELSE cfg

\* ConfigStore.Replace of the one-tier server: all models at once.
Replace(cfg, u) ==
    IF \A m \in DOMAIN u.models : validateModel(m, u.models[m])
      THEN [cfg EXCEPT !.l2 = (u.of :> u.models) @@ @]
      ELSE cfg

\* RegisterControlHandlers: a refused request is answered and changes nothing.
Control(cfg, u) ==
    CASE u.op = "shard"   -> UpsertShard(cfg, u)
      [] u.op = "model"   -> UpsertModel(cfg, u)
      [] u.op = "replace" -> Replace(cfg, u)

\* NewConfigStore, with an initial config it accepts.
NewConfigStore == [l1 |-> InitialL1, l2 |-> InitialL2]

Served == [v \in ServedVersions |-> 
    FoldLeft(Control, NewConfigStore, FlattenSeq(SubSeq(Updates, 1, v - 1)))]

-----------------------------------------------------------------------------
(* A fetched config becomes a snapshot, or an error and nothing.            *)

Resolvable(cfgs) == \A n \in DOMAIN cfgs : cfgs[n].target \in DOMAIN Resolver

\* normalizePrefixes, and the prefix a shard has when it names none.
normalizePrefixes(name, given) ==
    IF given \ {<<>>} = {} /\ name # DefaultShardName THEN {name} ELSE given \ {<<>>}

\* resolveConfigSnapshot of the shard router: every target resolves, and the
\* default shard is there.
ShardsResolve(l1) ==
    /\ Resolvable(l1.shards)
    /\ DOMAIN l1.shards = {} \/ l1.default \in DOMAIN l1.shards

ShardRoutes(l1) ==
    [n \in DOMAIN l1.shards |->
        [address  |-> Resolver[l1.shards[n].target],
         prefixes |-> normalizePrefixes(n, l1.shards[n].prefixes),
         active   |-> l1.shards[n].status \in {Missing, "active"}]]

\* resolveConfigSnapshot of the model router.
ModelsResolve(l2) == MyShard \in DOMAIN l2 /\ Resolvable(l2[MyShard])

ModelRoutes(l2) == [m \in DOMAIN l2[MyShard] |-> Resolver[l2[MyShard][m].target]]

-----------------------------------------------------------------------------
(* Looking a request up; h holds the values of its routing headers.         *)

\* deriveTag: the first of tag, key id, user key and tenant that is not empty.
deriveTag(h) ==
    LET given == {i \in 1 .. Len(h) : h[i] # <<>>}
    IN  IF given = {} THEN <<>> ELSE h[CHOOSE i \in given : \A j \in given : i <= j]

\* chooseShard: an active shard with the longest prefix of the tag, else the
\* default shard.  Shards are visited in map order, so any of equals may win.
chooseShard(routes, default, tag) ==
    LET fits == {<<n, p>> \in (DOMAIN routes) \X UNION {routes[n].prefixes : n \in DOMAIN routes} :
                    routes[n].active /\ p \in routes[n].prefixes /\ IsPrefix(p, tag)}
        best == {f \in fits : \A g \in fits : Len(g[2]) <= Len(f[2])}
    IN  IF fits = {} THEN {default} \cap DOMAIN routes ELSE {f[1] : f \in best}

\* shardStore.Decide on one snapshot; no tag means the default shard's name.
Decide(l1, h) ==
    LET routes == ShardRoutes(l1)
        tag == IF deriveTag(h) = <<>> THEN l1.default ELSE deriveTag(h)
    IN  {routes[n].address : n \in chooseShard(routes, l1.default, tag)}

\* routeStore.LookupModel: the route header names the model.
LookupModel(l2, h) == {ModelRoutes(l2)[m] : m \in {h[1]} \cap DOMAIN l2[MyShard]}

-----------------------------------------------------------------------------
(* What a cluster of each kind sees of a version.                           *)

\* The config can be applied.
ServedResolves == [
    shards    |-> [v \in ServedVersions |-> ShardsResolve(Served[v].l1)],
    models    |-> [v \in ServedVersions |-> ModelsResolve(Served[v].l2)],
    discovery |-> [v \in ServedVersions |-> TRUE]]

\* The addresses it mentions.
ServedAddresses == [
    shards    |-> [v \in ServedVersions |->
                      IF ServedResolves.shards[v]
                        THEN {r.address : r \in Range(ShardRoutes(Served[v].l1))} ELSE {}],
    models    |-> [v \in ServedVersions |->
                      IF ServedResolves.models[v] THEN Range(ModelRoutes(Served[v].l2)) ELSE {}],
    discovery |-> Discovered]

\* The addresses it may give a request.
ServedRoutes == [
    shards |-> [v \in ServedVersions |-> [h \in RouteHeaders |->
                    IF ServedResolves.shards[v] THEN Decide(Served[v].l1, h) ELSE {}]],
    models |-> [v \in ServedVersions |-> [h \in RouteHeaders |->
                    IF ServedResolves.models[v] THEN LookupModel(Served[v].l2, h) ELSE {}]]]
=============================================================================

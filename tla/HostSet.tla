------------------------------ MODULE HostSet ------------------------------
(***************************************************************************)
(* HostSet: a host map that Apply replaces on the cluster's main thread    *)
(* (add, publish, remove) and that any goroutine reads through an atomic   *)
(* pointer.  Envoy's side of AddHosts and RemoveHosts is modelled as far   *)
(* as the map depends on it.                                               *)
(***************************************************************************)
EXTENDS FiniteSets, Functions

CONSTANTS
    Keys,
    Bases,       \* address, hostname and weight of a spec, as one value
    MetaKeys,    \* metadata keys
    MetaVals,    \* metadata values
    Zero,        \* the value a Go map yields for a missing key: ""
    Hosts,       \* the HostPtrs Envoy can hand out
    Readers,     \* goroutines that call Get
    MayFail,     \* AddHosts may fail
    Absent

\* A spec; its metadata maps a key it lacks to Absent.
Specs == [base : Bases, metadata : [MetaKeys -> MetaVals \cup {Absent}]]

\* A snapshot maps a key it lacks to Absent.
Snapshots == [Keys -> Specs \cup {Absent}]

Entries == [spec : Specs, host : Hosts \cup {Absent}]

ASSUME HostSetAssumption ==
    /\ Absent \notin Hosts
    /\ MayFail \in BOOLEAN
    /\ \A spec \in Specs : spec # Absent
    /\ \A entry \in Entries : entry # Absent

VARIABLES
    current,    \* the published map
    desired,    \* the last snapshot given to Apply
    apc,        \* where Apply is
    next,       \* nextEntries
    obsolete,   \* toRemove
    cluster,    \* Envoy's hosts: the spec each was added with, Absent if there is none
    got         \* the HostPtr each reader holds

hostSetVars == <<current, desired, apc, next, obsolete, cluster, got>>

Present(m) == {k \in MetaKeys : m[k] # Absent}

Lookup(m, k) == IF m[k] = Absent THEN Zero ELSE m[k]

SpecEqual(a, b) ==
    /\ a.base = b.base
    /\ Cardinality(Present(a.metadata)) = Cardinality(Present(b.metadata))
    /\ \A k \in Present(a.metadata) : Lookup(b.metadata, k) = a.metadata[k]

\* The pointers of a map.
HostsOf(m) == {m[k].host : k \in {j \in Keys : m[j] # Absent}}

Live == {h \in Hosts : cluster[h] # Absent}

HostSetInit ==
    /\ current = [k \in Keys |-> Absent]
    /\ desired = [k \in Keys |-> Absent]
    /\ apc = "idle"
    /\ next = [k \in Keys |-> Absent]
    /\ obsolete = {}
    /\ cluster = [h \in Hosts |-> Absent]
    /\ got = [r \in Readers |-> Absent]

\* An unchanged spec keeps its HostPtr.
Reusable(snapshot, k) ==
    /\ snapshot[k] # Absent
    /\ current[k] # Absent
    /\ SpecEqual(current[k].spec, snapshot[k])

NewKeys(snapshot) == {k \in Keys : snapshot[k] # Absent /\ ~Reusable(snapshot, k)}

\* What AddHosts returns: a new pointer for every key or, when Envoy refuses one
\* of the hosts, null pointers and no host.
AddHosts(keys, ptrs) ==
    \/ /\ \A k \in keys : ptrs[k] \in Hosts \ Live
       /\ \A j, k \in keys : ptrs[j] = ptrs[k] => j = k
    \/ /\ MayFail
       /\ keys # {}
       /\ \A k \in keys : ptrs[k] = Absent

\* Apply, Step 1: keep what is unchanged, add the rest and mark it healthy (so
\* every host in cluster is).
ApplyAdds(snapshot) ==
    /\ apc = "idle"
    /\ \E ptrs \in [NewKeys(snapshot) -> Hosts \cup {Absent}] :
          /\ AddHosts(NewKeys(snapshot), ptrs)
          /\ next' = [k \in Keys |->
                        IF snapshot[k] = Absent THEN Absent
                        ELSE IF Reusable(snapshot, k) THEN current[k]
                        ELSE [spec |-> snapshot[k], host |-> ptrs[k]]]
          /\ cluster' = [h \in Hosts |->
                           IF \E k \in NewKeys(snapshot) : ptrs[k] = h
                           THEN snapshot[CHOOSE k \in NewKeys(snapshot) : ptrs[k] = h]
                           ELSE cluster[h]]
    /\ desired' = snapshot
    /\ apc' = "publish"
    /\ UNCHANGED <<current, obsolete, got>>

ObsoleteGone == {current[k].host : k \in {j \in Keys : current[j] # Absent /\ next[j] = Absent}}

\* The published hosts that the next map does not keep.
Obsolete ==
    LET dropped(k) == next[k] = Absent \/ next[k].host # current[k].host
    IN  {current[k].host : k \in {j \in Keys : current[j] # Absent /\ dropped(j)}}

RemovesFirst ==
    /\ apc = "publish"
    /\ \/ /\ Obsolete # obsolete
          /\ cluster' = [h \in Hosts |-> IF h \in Obsolete THEN Absent ELSE cluster[h]]
          /\ obsolete' = Obsolete
          /\ UNCHANGED <<current, apc>>
       \/ /\ Obsolete = obsolete
          /\ current' = next
          /\ apc' = "remove"
          /\ UNCHANGED <<cluster, obsolete>>
    /\ UNCHANGED <<desired, next, got>>

\* Apply, Step 2: publish the map.
ApplyPublishes ==
    /\ apc = "publish"
    /\ current' = next
    /\ obsolete' = Obsolete
    /\ apc' = "remove"
    /\ UNCHANGED <<desired, next, cluster, got>>

\* Apply, Step 3: remove what is no longer published.
ApplyRemoves ==
    /\ apc = "remove"
    /\ cluster' = [h \in Hosts |-> IF h \in obsolete THEN Absent ELSE cluster[h]]
    /\ obsolete' = {}
    /\ apc' = "idle"
    /\ UNCHANGED <<current, desired, next, got>>

\* Get, in a worker's ChooseHost.
Get(r, k) ==
    /\ got[r] = Absent
    /\ current[k] # Absent
    /\ got' = [got EXCEPT ![r] = current[k].host]
    /\ UNCHANGED <<current, desired, apc, next, obsolete, cluster>>

\* ChooseHost has given the pointer to Envoy.
Returned(r) ==
    /\ got[r] # Absent
    /\ got' = [got EXCEPT ![r] = Absent]
    /\ UNCHANGED <<current, desired, apc, next, obsolete, cluster>>

HostSetNext ==
    \/ \E snapshot \in Snapshots : ApplyAdds(snapshot)
    \/ ApplyPublishes
    \/ ApplyRemoves
    \/ \E r \in Readers : Returned(r) \/ \E k \in Keys : Get(r, k)

HostSetSpec == HostSetInit /\ [][HostSetNext]_hostSetVars

(***************************************************************************)
(* Properties.                                                             *)
(***************************************************************************)

\* Every variable has its type.
HostSetTypeOK ==
    /\ current \in [Keys -> Entries \cup {Absent}]
    /\ desired \in Snapshots
    /\ apc \in {"idle", "publish", "remove"}
    /\ next \in [Keys -> Entries \cup {Absent}]
    /\ obsolete \subseteq Hosts \cup {Absent}
    /\ cluster \in [Hosts -> Specs \cup {Absent}]
    /\ got \in [Readers -> Hosts \cup {Absent}]

\* Whatever step of Apply a reader meets, the pointer Get returns is a host of the
\* cluster: new hosts are added before the map is published and old ones removed
\* after it.
PublishedAreLive ==
    \A k \in Keys : current[k] # Absent => current[k].host \in Live

\* Between two Applies the cluster has the hosts of the published map and no
\* other: no host is leaked when its key goes or its spec changes, and none is
\* removed that another key still uses.
ClusterIsPublished ==
    apc = "idle" => Live = HostsOf(current)

\* After Apply every key of the snapshot, and no other, has a host that was added
\* with exactly the spec the snapshot gives it.
SnapshotApplied ==
    apc = "idle" =>
        \A k \in Keys : /\ desired[k] = Absent <=> current[k] = Absent
                        /\ current[k] # Absent => cluster[current[k].host] = desired[k]

\* What the comment on Apply says of its order: "ChooseHost never sees a dangling
\* pointer", so a pointer that a worker got from Get and has not yet handed to
\* Envoy is a host of the cluster.  It does not hold for a worker that read the map
\* before its publication.
NoDanglingPointer ==
    \A r \in Readers : got[r] # Absent => got[r] \in Live
============================================================================

----------------------------- MODULE HostProofs -----------------------------
(***************************************************************************)
(* The hosts of a custom cluster, for every set of keys, specs, hosts and  *)
(* requests.                                                               *)
(*                                                                         *)
(* HostSet.Apply, when AddHosts succeeds: what is published is live at     *)
(* every step, between two Applies the cluster has exactly the published   *)
(* hosts and, when specEqual is equality on the specs in use, they carry   *)
(* the specs of the snapshot.                                              *)
(*                                                                         *)
(* Host selection, when a handle's address is not reused: one answer and   *)
(* one release for each selection, none given up and no handle leaked, in  *)
(* every interleaving of workers, main thread and resolvers.               *)
(***************************************************************************)
EXTENDS HostSet, HostSelection, TLAPS

\* On the specs in use specEqual tells different specs apart (it does unless a
\* metadata value is the empty string).
SpecEqualExact == \A a, b \in Specs : SpecEqual(a, b) => a = b

\* A map whose hosts are live, distinct and added with the map's specs.
Sound(m) ==
    /\ \A k \in Keys : m[k] # Absent => m[k].host \in Hosts /\ cluster[m[k].host] = m[k].spec
    /\ \A j, k \in Keys : (m[j] # Absent /\ m[k] # Absent /\ m[j].host = m[k].host) => j = k

\* Before the publication: the next map is sound as well, it shares a host with
\* the published one only under the same key, and no other host is live.
NextSound ==
    apc = "publish" =>
        /\ Sound(next)
        /\ \A j, k \in Keys :
              (current[j] # Absent /\ next[k] # Absent /\ current[j].host = next[k].host) => j = k
        /\ Live = HostsOf(current) \cup HostsOf(next)

\* After it: what is left to remove is what the published map does not use.
RemovalSound ==
    apc = "remove" =>
        /\ obsolete \cap HostsOf(current) = {}
        /\ Live = HostsOf(current) \cup obsolete

HostSetInv == HostSetTypeOK /\ Sound(current) /\ NextSound /\ RemovalSound /\ ClusterIsPublished

\* No key is published at the start.
LEMMA HostSetInitInv == HostSetInit => HostSetInv
  BY HostSetAssumption
     DEF HostSetInit, HostSetInv, HostSetTypeOK, Sound, NextSound, RemovalSound, ClusterIsPublished, Live, HostsOf, Snapshots

\* Adding hosts keeps the invariant.
LEMMA AddsKeeps ==
    ASSUME HostSetInv, ~MayFail, NEW snapshot \in Snapshots, ApplyAdds(snapshot)
    PROVE  HostSetInv'
<1> DEFINE new == NewKeys(snapshot)
<1>1. PICK ptrs \in [new -> Hosts \cup {Absent}] :
          /\ AddHosts(new, ptrs)
          /\ next' = [k \in Keys |->
                        IF snapshot[k] = Absent THEN Absent
                        ELSE IF Reusable(snapshot, k) THEN current[k]
                        ELSE [spec |-> snapshot[k], host |-> ptrs[k]]]
          /\ cluster' = [h \in Hosts |->
                           IF \E k \in new : ptrs[k] = h
                           THEN snapshot[CHOOSE k \in new : ptrs[k] = h]
                           ELSE cluster[h]]
  BY DEF ApplyAdds
<1>2. /\ apc = "idle"
      /\ apc' = "publish"
      /\ desired' = snapshot
      /\ UNCHANGED <<current, obsolete, got>>
  BY DEF ApplyAdds
<1>3. /\ \A k \in new : ptrs[k] \in Hosts /\ cluster[ptrs[k]] = Absent
      /\ \A j, k \in new : ptrs[j] = ptrs[k] => j = k
  BY <1>1 DEF AddHosts, Live
<1>4. /\ new \subseteq Keys
      /\ \A k \in new : snapshot[k] \in Specs /\ snapshot[k] # Absent
      /\ \A k \in Keys : k \notin new /\ snapshot[k] # Absent => current[k] # Absent
      /\ \A k \in Keys : k \in new <=> (snapshot[k] # Absent /\ ~Reusable(snapshot, k))
  BY DEF NewKeys, Snapshots, Reusable
<1>5. ASSUME NEW k \in new PROVE cluster'[ptrs[k]] = snapshot[k]
  <2>1. (CHOOSE j \in new : ptrs[j] = ptrs[k]) = k
    BY <1>3
  <2> QED
    BY <1>1, <1>3, <2>1
<1>6. ASSUME NEW h \in Hosts, \A k \in new : ptrs[k] # h PROVE cluster'[h] = cluster[h]
  BY <1>1, <1>6
<1>7. ASSUME NEW h \in Hosts PROVE cluster'[h] \in Specs \cup {Absent}
  <2>1. CASE \E k \in new : ptrs[k] = h
    BY <2>1, <1>5, <1>4
  <2>2. CASE \A k \in new : ptrs[k] # h
    BY <2>2, <1>6 DEF HostSetInv, HostSetTypeOK
  <2> QED
    BY <2>1, <2>2
<1>8. /\ \A k \in Keys \ new : next'[k] = IF snapshot[k] = Absent THEN Absent ELSE current[k]
      /\ \A k \in new : next'[k] = [spec |-> snapshot[k], host |-> ptrs[k]]
  BY <1>1, <1>4
<1>fresh. \A k \in new : /\ next'[k] \in Entries
                         /\ next'[k] # Absent
                         /\ next'[k].host = ptrs[k]
                         /\ next'[k].spec = snapshot[k]
  <2> SUFFICES ASSUME NEW k \in new
               PROVE  /\ next'[k] \in Entries
                      /\ next'[k] # Absent
                      /\ next'[k].host = ptrs[k]
                      /\ next'[k].spec = snapshot[k]
    OBVIOUS
  <2>1. next'[k] = [spec |-> snapshot[k], host |-> ptrs[k]]
    BY <1>8
  <2>2. snapshot[k] \in Specs /\ ptrs[k] \in Hosts \cup {Absent}
    BY <1>4
  <2>3. next'[k] \in Entries
    BY <2>1, <2>2 DEF Entries
  <2>4. next'[k] # Absent
    BY <2>3, HostSetAssumption
  <2> QED
    BY <2>1, <2>3, <2>4
<1>kept. \A k \in Keys \ new : next'[k] # Absent => next'[k] = current[k] /\ current[k] # Absent
  BY <1>8, <1>4
<1>types. HostSetTypeOK'
  <2>1. cluster' \in [Hosts -> Specs \cup {Absent}]
    BY <1>1, <1>7
  <2>2. \A k \in Keys : next'[k] \in Entries \cup {Absent}
    BY <1>fresh, <1>kept DEF HostSetInv, HostSetTypeOK
  <2> QED
    BY <1>1, <1>2, <2>1, <2>2 DEF HostSetInv, HostSetTypeOK
<1>9. ASSUME NEW k \in Keys, current[k] # Absent
      PROVE  /\ current[k].host \in Hosts
             /\ cluster[current[k].host] # Absent
             /\ cluster'[current[k].host] = cluster[current[k].host]
  <2>1. current[k].host \in Hosts /\ cluster[current[k].host] # Absent
    BY <1>2, <1>9 DEF HostSetInv, ClusterIsPublished, Live, HostsOf
  <2> QED
    BY <2>1, <1>3, <1>6
<1>current. Sound(current)'
  BY <1>2, <1>9 DEF HostSetInv, Sound
<1>10. Sound(next)'
  <2>1. ASSUME NEW k \in Keys, next'[k] # Absent
        PROVE  next'[k].host \in Hosts /\ cluster'[next'[k].host] = next'[k].spec
    <3>1. CASE k \in new
      BY <3>1, <1>3, <1>4, <1>5, <1>fresh
    <3>2. CASE k \notin new
      BY <2>1, <3>2, <1>fresh, <1>kept, <1>9 DEF HostSetInv, Sound
    <3> QED
      BY <3>1, <3>2
  <2>2. ASSUME NEW j \in Keys, NEW k \in Keys, next'[j] # Absent, next'[k] # Absent,
               next'[j].host = next'[k].host
        PROVE  j = k
    <3>1. CASE j \in new /\ k \in new
      BY <2>2, <3>1, <1>3, <1>fresh, <1>kept
    <3>2. CASE j \notin new /\ k \notin new
      BY <2>2, <3>2, <1>fresh, <1>kept DEF HostSetInv, Sound
    <3>3. CASE j \in new /\ k \notin new
      BY <2>2, <3>3, <1>3, <1>fresh, <1>kept, <1>9
    <3>4. CASE j \notin new /\ k \in new
      BY <2>2, <3>4, <1>3, <1>fresh, <1>kept, <1>9
    <3> QED
      BY <3>1, <3>2, <3>3, <3>4
  <2> QED
    BY <2>1, <2>2 DEF Sound
<1>11. ASSUME NEW j \in Keys, NEW k \in Keys, current[j] # Absent, next'[k] # Absent,
              current[j].host = next'[k].host
       PROVE  j = k
  <2>1. CASE k \in new
    BY <1>11, <2>1, <1>3, <1>fresh, <1>kept, <1>9
  <2>2. CASE k \notin new
    BY <1>11, <2>2, <1>fresh, <1>kept DEF HostSetInv, Sound
  <2> QED
    BY <2>1, <2>2
<1>12. Live' = HostsOf(current) \cup HostsOf(next')
  <2>1. ASSUME NEW h \in Live' PROVE h \in HostsOf(current) \cup HostsOf(next')
    <3>1. CASE \E k \in new : ptrs[k] = h
      <4>1. PICK k \in new : ptrs[k] = h
        BY <3>1
      <4>2. k \in Keys /\ next'[k] # Absent /\ next'[k].host = h
        BY <4>1, <1>4, <1>fresh
      <4> QED
        BY <4>2 DEF HostsOf
    <3>2. CASE \A k \in new : ptrs[k] # h
      BY <2>1, <3>2, <1>2, <1>6 DEF HostSetInv, ClusterIsPublished, Live
    <3> QED
      BY <3>1, <3>2
  <2>2. ASSUME NEW h \in HostsOf(current) PROVE h \in Live'
    BY <2>2, <1>9 DEF HostsOf, Live
  <2>3. ASSUME NEW h \in HostsOf(next') PROVE h \in Live'
    <3>1. PICK k \in Keys : next'[k] # Absent /\ h = next'[k].host
      BY DEF HostsOf
    <3>2. CASE k \in new
      BY <3>1, <3>2, <1>3, <1>4, <1>5, <1>fresh DEF Live
    <3>3. CASE k \notin new
      BY <3>1, <3>3, <1>fresh, <1>kept, <1>9 DEF Live
    <3> QED
      BY <3>2, <3>3
  <2> QED
    BY <2>1, <2>2, <2>3
<1>next. NextSound'
  BY <1>2, <1>10, <1>11, <1>12 DEF NextSound, HostsOf
<1> QED
  BY <1>2, <1>types, <1>current, <1>next DEF HostSetInv, RemovalSound, ClusterIsPublished

\* Publishing the map keeps the invariant.
LEMMA PublishKeeps ==
    ASSUME HostSetInv, ApplyPublishes
    PROVE  HostSetInv'
<1>1. /\ apc = "publish"
      /\ apc' = "remove"
      /\ current' = next
      /\ obsolete' = Obsolete
      /\ UNCHANGED <<desired, next, cluster, got>>
  BY DEF ApplyPublishes
<1>2. ASSUME NEW h \in Obsolete
      PROVE  \E k \in Keys : /\ current[k] # Absent
                             /\ h = current[k].host
                             /\ next[k] = Absent \/ next[k].host # h
  BY DEF Obsolete
<1>3. \A k \in Keys : /\ current[k] # Absent => current[k].host \in Hosts
                      /\ next[k] # Absent => next[k].host \in Hosts
  BY <1>1 DEF HostSetInv, Sound, NextSound
<1>types. HostSetTypeOK'
  BY <1>1, <1>2, <1>3 DEF HostSetInv, HostSetTypeOK
<1>current. Sound(current)'
  BY <1>1 DEF HostSetInv, NextSound, Sound
<1>4. Obsolete \cap HostsOf(next) = {}
  <2> SUFFICES ASSUME NEW h \in Obsolete, h \in HostsOf(next) PROVE FALSE
    OBVIOUS
  <2>1. PICK j \in Keys : /\ current[j] # Absent
                          /\ h = current[j].host
                          /\ next[j] = Absent \/ next[j].host # h
    BY <1>2
  <2>2. PICK k \in Keys : next[k] # Absent /\ next[k].host = h
    BY DEF HostsOf
  <2>3. j = k
    BY <1>1, <2>1, <2>2 DEF HostSetInv, NextSound
  <2> QED
    BY <2>1, <2>2, <2>3
<1>5. HostsOf(current) \cup HostsOf(next) = HostsOf(next) \cup Obsolete
  <2>1. ASSUME NEW h \in HostsOf(current) PROVE h \in HostsOf(next) \cup Obsolete
    <3>1. PICK k \in Keys : current[k] # Absent /\ current[k].host = h
      BY DEF HostsOf
    <3>2. CASE next[k] # Absent /\ next[k].host = h
      BY <3>2 DEF HostsOf
    <3>3. CASE ~(next[k] # Absent /\ next[k].host = h)
      BY <3>1, <3>3 DEF Obsolete
    <3> QED
      BY <3>2, <3>3
  <2>2. ASSUME NEW h \in Obsolete PROVE h \in HostsOf(current)
    BY <1>2 DEF HostsOf
  <2> QED
    BY <2>1, <2>2
<1>removal. RemovalSound'
  BY <1>1, <1>4, <1>5 DEF HostSetInv, NextSound, RemovalSound, Live, HostsOf
<1> QED
  BY <1>1, <1>types, <1>current, <1>removal DEF HostSetInv, NextSound, ClusterIsPublished

\* Removing the old hosts keeps the invariant.
LEMMA RemovesKeeps ==
    ASSUME HostSetInv, ApplyRemoves
    PROVE  HostSetInv'
<1>1. /\ apc = "remove"
      /\ apc' = "idle"
      /\ cluster' = [h \in Hosts |-> IF h \in obsolete THEN Absent ELSE cluster[h]]
      /\ obsolete' = {}
      /\ UNCHANGED <<current, desired, next, got>>
  BY DEF ApplyRemoves
<1>2. \A k \in Keys : current[k] # Absent => current[k].host \notin obsolete
  BY <1>1 DEF HostSetInv, RemovalSound, HostsOf
<1>types. HostSetTypeOK'
  BY <1>1 DEF HostSetInv, HostSetTypeOK
<1>current. Sound(current)'
  BY <1>1, <1>2 DEF HostSetInv, Sound
<1>3. Live' = Live \ obsolete
  BY <1>1 DEF HostSetInv, HostSetTypeOK, Live
<1>4. Live' = HostsOf(current)
  BY <1>1, <1>3 DEF HostSetInv, RemovalSound
<1> QED
  BY <1>1, <1>types, <1>current, <1>4 DEF HostSetInv, NextSound, RemovalSound, ClusterIsPublished, HostsOf

\* Every step keeps the invariant when AddHosts succeeds.
LEMMA HostSetNextInv == ASSUME ~MayFail PROVE HostSetInv /\ [HostSetNext]_hostSetVars => HostSetInv'
<1> SUFFICES ASSUME HostSetInv, [HostSetNext]_hostSetVars PROVE HostSetInv'
  OBVIOUS
<1> USE DEF HostSetInv
<1>1. CASE UNCHANGED <<current, desired, apc, next, obsolete, cluster>> /\ HostSetTypeOK'
  BY <1>1 DEF Sound, NextSound, RemovalSound, ClusterIsPublished, Live, HostsOf
<1>2. ASSUME NEW snapshot \in Snapshots, ApplyAdds(snapshot) PROVE HostSetInv'
  BY <1>2, AddsKeeps
<1>3. ASSUME NEW r \in Readers, NEW k \in Keys, Get(r, k) PROVE HostSetInv'
  <2>1. current[k].host \in Hosts
    BY <1>3 DEF Get, Sound
  <2>2. HostSetTypeOK'
    BY <1>3, <2>1 DEF Get, HostSetTypeOK
  <2> QED
    BY <1>1, <1>3, <2>2 DEF Get
<1>4. ASSUME NEW r \in Readers, Returned(r) PROVE HostSetInv'
  <2>1. HostSetTypeOK'
    BY <1>4 DEF Returned, HostSetTypeOK
  <2> QED
    BY <1>1, <1>4, <2>1 DEF Returned
<1>5. CASE UNCHANGED hostSetVars
  BY <1>5, <1>1 DEF hostSetVars, HostSetTypeOK
<1> QED
  BY <1>2, <1>3, <1>4, <1>5, PublishKeeps, RemovesKeeps DEF HostSetNext

\* The invariant holds in every reachable state.
LEMMA HostSetAlwaysInv == ASSUME ~MayFail PROVE HostSetSpec => []HostSetInv
<1>1. HostSetInv /\ [HostSetNext]_hostSetVars => HostSetInv'
  BY HostSetNextInv
<1> QED
  BY <1>1, HostSetInitInv, PTL DEF HostSetSpec

\* The types of the host set.
THEOREM HostSetTypes == ASSUME ~MayFail PROVE HostSetSpec => []HostSetTypeOK
<1>1. HostSetInv => HostSetTypeOK
  BY DEF HostSetInv
<1> QED
  BY <1>1, HostSetAlwaysInv, PTL

\* Add, publish, remove: at every step of Apply a published pointer is a host of
\* the cluster.
THEOREM HostSetPublishesLive == ASSUME ~MayFail PROVE HostSetSpec => []PublishedAreLive
<1>1. ASSUME HostSetInv PROVE PublishedAreLive
  <2> SUFFICES ASSUME NEW k \in Keys, current[k] # Absent PROVE current[k].host \in Live
    BY DEF PublishedAreLive
  <2>1. current[k].host \in Hosts /\ cluster[current[k].host] = current[k].spec
    BY <1>1 DEF HostSetInv, Sound
  <2>2. current[k].spec \in Specs
    BY <1>1 DEF HostSetInv, HostSetTypeOK, Entries
  <2> QED
    BY <2>1, <2>2, HostSetAssumption DEF Live
<1> QED
  BY <1>1, HostSetAlwaysInv, PTL

\* Apply leaks no host and removes none that is in use.
THEOREM HostSetLeaksNone == ASSUME ~MayFail PROVE HostSetSpec => []ClusterIsPublished
<1>1. HostSetInv => ClusterIsPublished
  BY DEF HostSetInv
<1> QED
  BY <1>1, HostSetAlwaysInv, PTL

\* The map follows the snapshot Apply was called with.
Follows(m) == \A k \in Keys : /\ desired[k] = Absent <=> m[k] = Absent
                              /\ m[k] # Absent => m[k].spec = desired[k]

Following == IF apc = "publish" THEN Follows(next) ELSE Follows(current)

\* With an exact specEqual the map follows the snapshot.
LEMMA NextFollows ==
    ASSUME SpecEqualExact, ~MayFail, HostSetInv, Following, [HostSetNext]_hostSetVars
    PROVE  Following'
<1>1. ASSUME NEW snapshot \in Snapshots, ApplyAdds(snapshot) PROVE Following'
  <2>1. PICK ptrs \in [NewKeys(snapshot) -> Hosts \cup {Absent}] :
            next' = [k \in Keys |->
                        IF snapshot[k] = Absent THEN Absent
                        ELSE IF Reusable(snapshot, k) THEN current[k]
                        ELSE [spec |-> snapshot[k], host |-> ptrs[k]]]
    BY <1>1 DEF ApplyAdds
  <2>2. apc' = "publish" /\ desired' = snapshot
    BY <1>1 DEF ApplyAdds
  <2>3. ASSUME NEW k \in Keys
        PROVE  /\ snapshot[k] = Absent <=> next'[k] = Absent
               /\ next'[k] # Absent => next'[k].spec = snapshot[k]
    <3>1. CASE snapshot[k] = Absent
      BY <2>1, <3>1
    <3>2. CASE snapshot[k] # Absent /\ Reusable(snapshot, k)
      <4>1. next'[k] = current[k] /\ current[k] # Absent /\ SpecEqual(current[k].spec, snapshot[k])
        BY <2>1, <3>2 DEF Reusable
      <4>2. current[k].spec \in Specs /\ snapshot[k] \in Specs
        BY <3>2, <4>1 DEF HostSetInv, HostSetTypeOK, Entries, Snapshots
      <4> QED
        BY <3>2, <4>1, <4>2 DEF SpecEqualExact
    <3>3. CASE snapshot[k] # Absent /\ ~Reusable(snapshot, k)
      <4>1. next'[k] = [spec |-> snapshot[k], host |-> ptrs[k]] /\ k \in NewKeys(snapshot)
        BY <2>1, <3>3 DEF NewKeys
      <4>2. snapshot[k] \in Specs /\ ptrs[k] \in Hosts \cup {Absent}
        BY <3>3, <4>1 DEF Snapshots
      <4>3. next'[k] \in Entries
        BY <4>1, <4>2 DEF Entries
      <4> QED
        BY <3>3, <4>1, <4>3, HostSetAssumption
    <3> QED
      BY <3>1, <3>2, <3>3
  <2> QED
    BY <2>2, <2>3 DEF Following, Follows
<1>2. CASE ApplyPublishes
  BY <1>2 DEF ApplyPublishes, Following, Follows
<1>3. CASE UNCHANGED <<current, desired, next>> /\ (apc = "publish" <=> apc' = "publish")
  BY <1>3 DEF Following, Follows
<1>4. CASE ApplyRemoves
  BY <1>3, <1>4 DEF ApplyRemoves
<1>5. ASSUME NEW r \in Readers, Returned(r) \/ \E k \in Keys : Get(r, k) PROVE Following'
  BY <1>3, <1>5 DEF Returned, Get
<1>6. CASE UNCHANGED hostSetVars
  BY <1>3, <1>6 DEF hostSetVars
<1> QED
  BY <1>1, <1>2, <1>4, <1>5, <1>6 DEF HostSetNext

\* After Apply the cluster carries the snapshot, key by key and spec by spec, if
\* specEqual is exact on the specs in use and AddHosts succeeds.
THEOREM HostSetAppliesSnapshot ==
    ASSUME SpecEqualExact, ~MayFail
    PROVE  HostSetSpec => []SnapshotApplied
<1>1. HostSetInit => Following
  BY DEF HostSetInit, Following, Follows
<1>2. HostSetInv /\ Following /\ [HostSetNext]_hostSetVars => Following'
  BY NextFollows
<1>3. HostSetInv /\ Following => SnapshotApplied
  BY DEF HostSetInv, Sound, Following, Follows, SnapshotApplied
<1> QED
  BY <1>1, <1>2, <1>3, HostSetAlwaysInv, PTL DEF HostSetSpec

-----------------------------------------------------------------------------
\* The life of a handle: recorded after ChooseHost, in the table until removed,
\* removed at most once and only when its completion is terminal.
HandleInv ==
    \A s \in Selections :
        /\ token[s] = None <=> wpc[s] \in {"idle", "record", "failed"}
        /\ token[s] # None => (table[token[s]] = s <=> freed[s] = 0)
        /\ freed[s] <= 1
        /\ freed[s] > 0 => token[s] # None /\ done[s]

\* Addresses are distinct, and the table leads back to the owner.
UniqueInv ==
    /\ \A s, q \in Selections : token[s] = token[q] /\ token[s] # None => s = q
    /\ \A t \in Tokens : table[t] # None => token[table[t]] = t

\* What a worker knows: a cancel holds its own completion, and the one that won
\* has the only right to release the handle.
WorkerInv ==
    \A s \in Selections :
        /\ wpc[s] \in {"guard", "cleanup", "selector"} => target[s] = s
        /\ finishFn[s] => token[s] # None /\ wpc[s] # "finishFn"
        /\ (token[s] # None /\ wpc[s] # "finishFn" /\ ~done[s]) => finishFn[s]
        /\ wpc[s] = "finishFn" => freed[s] = 0
        /\ wpc[s] = "cleanup" => /\ done[s]
                                 /\ answers[s] = 0
                                 /\ cleanup[s]
                                 /\ freed[s] = 0
                                 /\ ~(completing = s /\ mpc \in {"answer", "release"})
        /\ wpc[s] \in {"selector", "cancelled"} => done[s]

\* What the main thread knows once finish() has let it through.
MainInv ==
    /\ mpc # "idle" => completing \in Selections
    /\ mpc \in {"answer", "release"} => done[completing] /\ wpc[completing] # "cleanup"
    /\ mpc = "answer" => answers[completing] = 0
    /\ mpc = "release" => answers[completing] = 1
    /\ (mpc \in {"answer", "release"} /\ release) =>
          /\ freed[completing] = 0
          /\ token[completing] # None
          /\ wpc[completing] # "finishFn"

\* Answers come from terminal completions, and a terminal completion is answered
\* or was cancelled.
AnswerInv ==
    /\ AnsweredUnlessCancelled
    /\ \A s \in Selections : answers[s] <= 1 /\ (answers[s] > 0 => done[s])

\* Somebody still has to release the handle of a terminal completion that is in
\* the table.
ReleaseInv ==
    \A s \in Selections : (done[s] /\ freed[s] = 0) =>
        \/ wpc[s] \in {"idle", "record", "failed", "finishFn", "cleanup"}
        \/ completing = s /\ mpc \in {"answer", "release"} /\ release

IInv == TypeOK /\ HandleInv /\ UniqueInv /\ WorkerInv /\ MainInv /\ AnswerInv /\ ReleaseInv

\* Nothing is selected at the start.
LEMMA InitIInv == Init => IInv
<1> SUFFICES ASSUME Init PROVE IInv
  OBVIOUS
<1> USE SelectionAssumption
<1>0. release \in BOOLEAN
  BY Zenon DEF Init
<1>1. TypeOK
  BY <1>0 DEF Init, TypeOK
<1>2. HandleInv /\ UniqueInv
  BY DEF Init, HandleInv, UniqueInv
<1>3. WorkerInv /\ MainInv
  BY DEF Init, WorkerInv, MainInv
<1>4. AnswerInv /\ ReleaseInv
  BY DEF Init, AnswerInv, ReleaseInv, AnsweredUnlessCancelled
<1> QED
  BY <1>1, <1>2, <1>3, <1>4 DEF IInv

\* The resolution of a promise keeps the invariant.
LEMMA ResolveKeeps ==
    ASSUME IInv, ~ReuseTokens, NEW s \in Selections, Resolve(s)
    PROVE  IInv'
<1> USE SelectionAssumption DEF IInv, callback, worker, handles, main
<1>bool. release' \in BOOLEAN
  BY Zenon DEF TypeOK, Resolve
<1>types. TypeOK'
  BY <1>bool DEF TypeOK, Resolve, WorkerInv, HandleInv
<1>handleinv. HandleInv'
  BY DEF TypeOK, HandleInv, UniqueInv, WorkerInv, MainInv, AnswerInv, AnsweredUnlessCancelled, ReleaseInv, Resolve
<1>uniqueinv. UniqueInv'
  BY DEF TypeOK, HandleInv, UniqueInv, WorkerInv, MainInv, AnswerInv, AnsweredUnlessCancelled, ReleaseInv, Resolve
<1>workerinv. WorkerInv'
  BY DEF TypeOK, HandleInv, UniqueInv, WorkerInv, MainInv, AnswerInv, AnsweredUnlessCancelled, ReleaseInv, Resolve
<1>maininv. MainInv'
  BY DEF TypeOK, HandleInv, UniqueInv, WorkerInv, MainInv, AnswerInv, AnsweredUnlessCancelled, ReleaseInv, Resolve
<1>answerinv. AnswerInv'
  BY DEF TypeOK, HandleInv, UniqueInv, WorkerInv, MainInv, AnswerInv, AnsweredUnlessCancelled, ReleaseInv, Resolve
<1>releaseinv. ReleaseInv'
  BY DEF TypeOK, HandleInv, UniqueInv, WorkerInv, MainInv, AnswerInv, AnsweredUnlessCancelled, ReleaseInv, Resolve
<1> QED
  BY <1>types, <1>handleinv, <1>uniqueinv, <1>workerinv, <1>maininv, <1>answerinv, <1>releaseinv

\* The call of the registered callback keeps the invariant.
LEMMA FireCallbackKeeps ==
    ASSUME IInv, ~ReuseTokens, NEW s \in Selections, FireCallback(s)
    PROVE  IInv'
<1> USE SelectionAssumption DEF IInv, callback, worker, handles, main
<1>bool. release' \in BOOLEAN
  BY Zenon DEF TypeOK, FireCallback
<1>types. TypeOK'
  BY <1>bool DEF TypeOK, FireCallback, WorkerInv, HandleInv
<1>handleinv. HandleInv'
  BY DEF TypeOK, HandleInv, UniqueInv, WorkerInv, MainInv, AnswerInv, AnsweredUnlessCancelled, ReleaseInv, FireCallback
<1>uniqueinv. UniqueInv'
  BY DEF TypeOK, HandleInv, UniqueInv, WorkerInv, MainInv, AnswerInv, AnsweredUnlessCancelled, ReleaseInv, FireCallback
<1>workerinv. WorkerInv'
  BY DEF TypeOK, HandleInv, UniqueInv, WorkerInv, MainInv, AnswerInv, AnsweredUnlessCancelled, ReleaseInv, FireCallback
<1>maininv. MainInv'
  BY DEF TypeOK, HandleInv, UniqueInv, WorkerInv, MainInv, AnswerInv, AnsweredUnlessCancelled, ReleaseInv, FireCallback
<1>answerinv. AnswerInv'
  BY DEF TypeOK, HandleInv, UniqueInv, WorkerInv, MainInv, AnswerInv, AnsweredUnlessCancelled, ReleaseInv, FireCallback
<1>releaseinv. ReleaseInv'
  BY DEF TypeOK, HandleInv, UniqueInv, WorkerInv, MainInv, AnswerInv, AnsweredUnlessCancelled, ReleaseInv, FireCallback
<1> QED
  BY <1>types, <1>handleinv, <1>uniqueinv, <1>workerinv, <1>maininv, <1>answerinv, <1>releaseinv

\* AsyncHostSelector.ChooseHost keeps the invariant.
LEMMA ChooseHostKeeps ==
    ASSUME IInv, ~ReuseTokens, NEW s \in Selections, ChooseHost(s)
    PROVE  IInv'
<1> USE SelectionAssumption DEF IInv, callback, worker, handles, main
<1>bool. release' \in BOOLEAN
  BY Zenon DEF TypeOK, ChooseHost
<1>types. TypeOK'
  BY <1>bool DEF TypeOK, ChooseHost, WorkerInv, HandleInv
<1>handleinv. HandleInv'
  BY DEF TypeOK, HandleInv, UniqueInv, WorkerInv, MainInv, AnswerInv, AnsweredUnlessCancelled, ReleaseInv, ChooseHost
<1>uniqueinv. UniqueInv'
  BY DEF TypeOK, HandleInv, UniqueInv, WorkerInv, MainInv, AnswerInv, AnsweredUnlessCancelled, ReleaseInv, ChooseHost
<1>workerinv. WorkerInv'
  BY DEF TypeOK, HandleInv, UniqueInv, WorkerInv, MainInv, AnswerInv, AnsweredUnlessCancelled, ReleaseInv, ChooseHost
<1>maininv. MainInv'
  BY DEF TypeOK, HandleInv, UniqueInv, WorkerInv, MainInv, AnswerInv, AnsweredUnlessCancelled, ReleaseInv, ChooseHost
<1>answerinv. AnswerInv'
  BY DEF TypeOK, HandleInv, UniqueInv, WorkerInv, MainInv, AnswerInv, AnsweredUnlessCancelled, ReleaseInv, ChooseHost
<1>releaseinv. ReleaseInv'
  BY DEF TypeOK, HandleInv, UniqueInv, WorkerInv, MainInv, AnswerInv, AnsweredUnlessCancelled, ReleaseInv, ChooseHost
<1> QED
  BY <1>types, <1>handleinv, <1>uniqueinv, <1>workerinv, <1>maininv, <1>answerinv, <1>releaseinv

\* The recording of a handle keeps the invariant.
LEMMA RecordHandleKeeps ==
    ASSUME IInv, ~ReuseTokens, NEW s \in Selections, RecordHandle(s)
    PROVE  IInv'
<1> USE SelectionAssumption DEF IInv, callback, worker, handles, main
<1>pick. PICK t \in Tokens : /\ Free(t)
                             /\ token' = [token EXCEPT ![s] = t]
                             /\ table' = [table EXCEPT ![t] = s]
  BY Zenon DEF RecordHandle
<1>rest. /\ wpc[s] = "record"
         /\ wpc' = [wpc EXCEPT ![s] = "finishFn"]
         /\ UNCHANGED <<callback, target, cleanup, freed, done, finishFn, cancelled, main, answers>>
  BY Zenon DEF RecordHandle
<1>bool. release' \in BOOLEAN
  BY <1>pick, <1>rest, Zenon DEF TypeOK, Free
<1>types. TypeOK'
  BY <1>bool, <1>pick, <1>rest DEF TypeOK, Free, WorkerInv, HandleInv
<1>handleinv. HandleInv'
  BY <1>pick, <1>rest DEF TypeOK, HandleInv, UniqueInv, WorkerInv, MainInv, AnswerInv, AnsweredUnlessCancelled, ReleaseInv, Free
<1>uniqueinv. UniqueInv'
  BY <1>pick, <1>rest DEF TypeOK, HandleInv, UniqueInv, WorkerInv, MainInv, AnswerInv, AnsweredUnlessCancelled, ReleaseInv, Free
<1>workerinv. WorkerInv'
  BY <1>pick, <1>rest DEF TypeOK, HandleInv, UniqueInv, WorkerInv, MainInv, AnswerInv, AnsweredUnlessCancelled, ReleaseInv, Free
<1>maininv. MainInv'
  BY <1>pick, <1>rest DEF TypeOK, HandleInv, UniqueInv, WorkerInv, MainInv, AnswerInv, AnsweredUnlessCancelled, ReleaseInv, Free
<1>answerinv. AnswerInv'
  BY <1>pick, <1>rest DEF TypeOK, HandleInv, UniqueInv, WorkerInv, MainInv, AnswerInv, AnsweredUnlessCancelled, ReleaseInv, Free
<1>releaseinv. ReleaseInv'
  BY <1>pick, <1>rest DEF TypeOK, HandleInv, UniqueInv, WorkerInv, MainInv, AnswerInv, AnsweredUnlessCancelled, ReleaseInv, Free
<1> QED
  BY <1>types, <1>handleinv, <1>uniqueinv, <1>workerinv, <1>maininv, <1>answerinv, <1>releaseinv

\* SetFinishFn keeps the invariant.
LEMMA SetFinishFnKeeps ==
    ASSUME IInv, ~ReuseTokens, NEW s \in Selections, SetFinishFn(s)
    PROVE  IInv'
<1> USE SelectionAssumption DEF IInv, callback, worker, handles, main
<1>bool. release' \in BOOLEAN
  BY Zenon DEF TypeOK, SetFinishFn, Remove
<1>types. TypeOK'
  <2>1. CASE done[s]
    <3>1. /\ table' = [table EXCEPT ![token[s]] = None]
          /\ freed' = [freed EXCEPT ![s] = @ + 1]
          /\ finishFn' = finishFn
      BY <2>1 DEF SetFinishFn, Remove
    <3> QED
      BY <1>bool, <3>1, SMTT(20) DEF TypeOK, SetFinishFn, HandleInv
  <2>2. CASE ~done[s]
    <3>1. finishFn' = [finishFn EXCEPT ![s] = TRUE] /\ UNCHANGED <<table, freed>>
      BY <2>2 DEF SetFinishFn
    <3> QED
      BY <1>bool, <3>1 DEF TypeOK, SetFinishFn
  <2> QED
    BY <2>1, <2>2
<1>handleinv. HandleInv'
  BY DEF TypeOK, HandleInv, UniqueInv, WorkerInv, MainInv, AnswerInv, AnsweredUnlessCancelled, ReleaseInv, SetFinishFn, Remove
<1>uniqueinv. UniqueInv'
  BY DEF TypeOK, HandleInv, UniqueInv, WorkerInv, MainInv, AnswerInv, AnsweredUnlessCancelled, ReleaseInv, SetFinishFn, Remove
<1>workerinv. WorkerInv'
  BY DEF TypeOK, HandleInv, UniqueInv, WorkerInv, MainInv, AnswerInv, AnsweredUnlessCancelled, ReleaseInv, SetFinishFn, Remove
<1>maininv. MainInv'
  BY DEF TypeOK, HandleInv, UniqueInv, WorkerInv, MainInv, AnswerInv, AnsweredUnlessCancelled, ReleaseInv, SetFinishFn, Remove
<1>answerinv. AnswerInv'
  BY DEF TypeOK, HandleInv, UniqueInv, WorkerInv, MainInv, AnswerInv, AnsweredUnlessCancelled, ReleaseInv, SetFinishFn, Remove
<1>releaseinv. ReleaseInv'
  BY DEF TypeOK, HandleInv, UniqueInv, WorkerInv, MainInv, AnswerInv, AnsweredUnlessCancelled, ReleaseInv, SetFinishFn, Remove
<1> QED
  BY <1>types, <1>handleinv, <1>uniqueinv, <1>workerinv, <1>maininv, <1>answerinv, <1>releaseinv

\* The entry of cancel_host_selection keeps the invariant.
LEMMA CancelHostSelectionKeeps ==
    ASSUME IInv, ~ReuseTokens, NEW s \in Selections, CancelHostSelection(s)
    PROVE  IInv'
<1> USE SelectionAssumption DEF IInv, callback, worker, handles, main
<1>bool. release' \in BOOLEAN
  BY Zenon DEF TypeOK, CancelHostSelection
<1>types. TypeOK'
  BY <1>bool DEF TypeOK, CancelHostSelection, WorkerInv, HandleInv
<1>handleinv. HandleInv'
  BY DEF TypeOK, HandleInv, UniqueInv, WorkerInv, MainInv, AnswerInv, AnsweredUnlessCancelled, ReleaseInv, CancelHostSelection
<1>uniqueinv. UniqueInv'
  BY DEF TypeOK, HandleInv, UniqueInv, WorkerInv, MainInv, AnswerInv, AnsweredUnlessCancelled, ReleaseInv, CancelHostSelection
<1>workerinv. WorkerInv'
  BY DEF TypeOK, HandleInv, UniqueInv, WorkerInv, MainInv, AnswerInv, AnsweredUnlessCancelled, ReleaseInv, CancelHostSelection
<1>maininv. MainInv'
  BY DEF TypeOK, HandleInv, UniqueInv, WorkerInv, MainInv, AnswerInv, AnsweredUnlessCancelled, ReleaseInv, CancelHostSelection
<1>answerinv. AnswerInv'
  BY DEF TypeOK, HandleInv, UniqueInv, WorkerInv, MainInv, AnswerInv, AnsweredUnlessCancelled, ReleaseInv, CancelHostSelection
<1>releaseinv. ReleaseInv'
  BY DEF TypeOK, HandleInv, UniqueInv, WorkerInv, MainInv, AnswerInv, AnsweredUnlessCancelled, ReleaseInv, CancelHostSelection
<1> QED
  BY <1>types, <1>handleinv, <1>uniqueinv, <1>workerinv, <1>maininv, <1>answerinv, <1>releaseinv

\* The lookup of the handle keeps the invariant.
LEMMA UnwrapHandleKeeps ==
    ASSUME IInv, ~ReuseTokens, NEW s \in Selections, UnwrapHandle(s)
    PROVE  IInv'
<1> USE SelectionAssumption DEF IInv, callback, worker, handles, main
<1>bool. release' \in BOOLEAN
  BY Zenon DEF TypeOK, UnwrapHandle
<1>types. TypeOK'
  BY <1>bool DEF TypeOK, UnwrapHandle, WorkerInv, HandleInv
<1>handleinv. HandleInv'
  BY DEF TypeOK, HandleInv, UniqueInv, WorkerInv, MainInv, AnswerInv, AnsweredUnlessCancelled, ReleaseInv, UnwrapHandle
<1>uniqueinv. UniqueInv'
  BY DEF TypeOK, HandleInv, UniqueInv, WorkerInv, MainInv, AnswerInv, AnsweredUnlessCancelled, ReleaseInv, UnwrapHandle
<1>workerinv. WorkerInv'
  BY DEF TypeOK, HandleInv, UniqueInv, WorkerInv, MainInv, AnswerInv, AnsweredUnlessCancelled, ReleaseInv, UnwrapHandle
<1>maininv. MainInv'
  BY DEF TypeOK, HandleInv, UniqueInv, WorkerInv, MainInv, AnswerInv, AnsweredUnlessCancelled, ReleaseInv, UnwrapHandle
<1>answerinv. AnswerInv'
  BY DEF TypeOK, HandleInv, UniqueInv, WorkerInv, MainInv, AnswerInv, AnsweredUnlessCancelled, ReleaseInv, UnwrapHandle
<1>releaseinv. ReleaseInv'
  BY DEF TypeOK, HandleInv, UniqueInv, WorkerInv, MainInv, AnswerInv, AnsweredUnlessCancelled, ReleaseInv, UnwrapHandle
<1> QED
  BY <1>types, <1>handleinv, <1>uniqueinv, <1>workerinv, <1>maininv, <1>answerinv, <1>releaseinv

\* The critical section of Cancel keeps the invariant.
LEMMA CancelGuardKeeps ==
    ASSUME IInv, ~ReuseTokens, NEW s \in Selections, CancelGuard(s)
    PROVE  IInv'
<1> USE SelectionAssumption DEF IInv, callback, worker, handles, main
<1>bool. release' \in BOOLEAN
  BY Zenon DEF TypeOK, CancelGuard
<1>fn. cleanup' \in [Selections -> BOOLEAN]
  <2>1. /\ cleanup \in [Selections -> BOOLEAN]
        /\ finishFn \in [Selections -> BOOLEAN]
        /\ target[s] \in Selections
    BY DEF TypeOK, WorkerInv, CancelGuard
  <2>2. cleanup' = cleanup \/ cleanup' = [cleanup EXCEPT ![s] = finishFn[target[s]]]
    BY Zenon DEF CancelGuard
  <2>3. finishFn[target[s]] \in BOOLEAN
    BY <2>1, Zenon
  <2> QED
    BY <2>1, <2>2, <2>3
<1>types. TypeOK'
  <2>1. CASE done[target[s]]
    <3>1. wpc' = [wpc EXCEPT ![s] = "cancelled"] /\ UNCHANGED done
      BY <2>1 DEF CancelGuard
    <3> QED
      BY <1>bool, <1>fn, <3>1, SMTT(20) DEF TypeOK, CancelGuard
  <2>2. CASE ~done[target[s]]
    <3>1. /\ wpc' = [wpc EXCEPT ![s] = "cleanup"]
          /\ done' = [done EXCEPT ![target[s]] = TRUE]
      BY <2>2 DEF CancelGuard
    <3> QED
      BY <1>bool, <1>fn, <3>1, Zenon DEF TypeOK, CancelGuard
  <2> QED
    BY <2>1, <2>2
<1>handleinv. HandleInv'
  BY DEF TypeOK, HandleInv, UniqueInv, WorkerInv, MainInv, AnswerInv, AnsweredUnlessCancelled, ReleaseInv, CancelGuard
<1>uniqueinv. UniqueInv'
  BY DEF TypeOK, HandleInv, UniqueInv, WorkerInv, MainInv, AnswerInv, AnsweredUnlessCancelled, ReleaseInv, CancelGuard
<1>workerinv. WorkerInv'
  BY DEF TypeOK, HandleInv, UniqueInv, WorkerInv, MainInv, AnswerInv, AnsweredUnlessCancelled, ReleaseInv, CancelGuard
<1>maininv. MainInv'
  BY DEF TypeOK, HandleInv, UniqueInv, WorkerInv, MainInv, AnswerInv, AnsweredUnlessCancelled, ReleaseInv, CancelGuard
<1>answerinv. AnswerInv'
  BY DEF TypeOK, HandleInv, UniqueInv, WorkerInv, MainInv, AnswerInv, AnsweredUnlessCancelled, ReleaseInv, CancelGuard
<1>releaseinv. ReleaseInv'
  BY DEF TypeOK, HandleInv, UniqueInv, WorkerInv, MainInv, AnswerInv, AnsweredUnlessCancelled, ReleaseInv, CancelGuard
<1> QED
  BY <1>types, <1>handleinv, <1>uniqueinv, <1>workerinv, <1>maininv, <1>answerinv, <1>releaseinv

\* The release of a handle by Cancel keeps the invariant.
LEMMA CancelCleanupKeeps ==
    ASSUME IInv, ~ReuseTokens, NEW s \in Selections, CancelCleanup(s)
    PROVE  IInv'
<1> USE SelectionAssumption DEF IInv, callback, worker, handles, main
<1>bool. release' \in BOOLEAN
  BY Zenon DEF TypeOK, CancelCleanup, Remove
<1>types. TypeOK'
  BY <1>bool DEF TypeOK, CancelCleanup, Remove, WorkerInv, HandleInv
<1>handleinv. HandleInv'
  BY DEF TypeOK, HandleInv, UniqueInv, WorkerInv, MainInv, AnswerInv, AnsweredUnlessCancelled, ReleaseInv, CancelCleanup, Remove
<1>uniqueinv. UniqueInv'
  BY DEF TypeOK, HandleInv, UniqueInv, WorkerInv, MainInv, AnswerInv, AnsweredUnlessCancelled, ReleaseInv, CancelCleanup, Remove
<1>workerinv. WorkerInv'
  BY DEF TypeOK, HandleInv, UniqueInv, WorkerInv, MainInv, AnswerInv, AnsweredUnlessCancelled, ReleaseInv, CancelCleanup, Remove
<1>maininv. MainInv'
  BY DEF TypeOK, HandleInv, UniqueInv, WorkerInv, MainInv, AnswerInv, AnsweredUnlessCancelled, ReleaseInv, CancelCleanup, Remove
<1>answerinv. AnswerInv'
  BY DEF TypeOK, HandleInv, UniqueInv, WorkerInv, MainInv, AnswerInv, AnsweredUnlessCancelled, ReleaseInv, CancelCleanup, Remove
<1>releaseinv. ReleaseInv'
  BY DEF TypeOK, HandleInv, UniqueInv, WorkerInv, MainInv, AnswerInv, AnsweredUnlessCancelled, ReleaseInv, CancelCleanup, Remove
<1> QED
  BY <1>types, <1>handleinv, <1>uniqueinv, <1>workerinv, <1>maininv, <1>answerinv, <1>releaseinv

\* AsyncHostSelector.Cancel keeps the invariant.
LEMMA SelectorCancelKeeps ==
    ASSUME IInv, ~ReuseTokens, NEW s \in Selections, SelectorCancel(s)
    PROVE  IInv'
<1> USE SelectionAssumption DEF IInv, callback, worker, handles, main
<1>bool. release' \in BOOLEAN
  BY Zenon DEF TypeOK, SelectorCancel
<1>types. TypeOK'
  BY <1>bool DEF TypeOK, SelectorCancel, WorkerInv, HandleInv
<1>handleinv. HandleInv'
  BY DEF TypeOK, HandleInv, UniqueInv, WorkerInv, MainInv, AnswerInv, AnsweredUnlessCancelled, ReleaseInv, SelectorCancel
<1>uniqueinv. UniqueInv'
  BY DEF TypeOK, HandleInv, UniqueInv, WorkerInv, MainInv, AnswerInv, AnsweredUnlessCancelled, ReleaseInv, SelectorCancel
<1>workerinv. WorkerInv'
  BY DEF TypeOK, HandleInv, UniqueInv, WorkerInv, MainInv, AnswerInv, AnsweredUnlessCancelled, ReleaseInv, SelectorCancel
<1>maininv. MainInv'
  BY DEF TypeOK, HandleInv, UniqueInv, WorkerInv, MainInv, AnswerInv, AnsweredUnlessCancelled, ReleaseInv, SelectorCancel
<1>answerinv. AnswerInv'
  BY DEF TypeOK, HandleInv, UniqueInv, WorkerInv, MainInv, AnswerInv, AnsweredUnlessCancelled, ReleaseInv, SelectorCancel
<1>releaseinv. ReleaseInv'
  BY DEF TypeOK, HandleInv, UniqueInv, WorkerInv, MainInv, AnswerInv, AnsweredUnlessCancelled, ReleaseInv, SelectorCancel
<1> QED
  BY <1>types, <1>handleinv, <1>uniqueinv, <1>workerinv, <1>maininv, <1>answerinv, <1>releaseinv

\* The cancelled-check of complete keeps the invariant.
LEMMA CompleteKeeps ==
    ASSUME IInv, ~ReuseTokens, NEW s \in Selections, Complete(s)
    PROVE  IInv'
<1> USE SelectionAssumption DEF IInv, callback, worker, handles, main
<1>bool. release' \in BOOLEAN
  BY Zenon DEF TypeOK, Complete
<1>types. TypeOK'
  BY <1>bool DEF TypeOK, Complete, WorkerInv, HandleInv
<1>handleinv. HandleInv'
  BY DEF TypeOK, HandleInv, UniqueInv, WorkerInv, MainInv, AnswerInv, AnsweredUnlessCancelled, ReleaseInv, Complete
<1>uniqueinv. UniqueInv'
  BY DEF TypeOK, HandleInv, UniqueInv, WorkerInv, MainInv, AnswerInv, AnsweredUnlessCancelled, ReleaseInv, Complete
<1>workerinv. WorkerInv'
  BY DEF TypeOK, HandleInv, UniqueInv, WorkerInv, MainInv, AnswerInv, AnsweredUnlessCancelled, ReleaseInv, Complete
<1>maininv. MainInv'
  BY DEF TypeOK, HandleInv, UniqueInv, WorkerInv, MainInv, AnswerInv, AnsweredUnlessCancelled, ReleaseInv, Complete
<1>answerinv. AnswerInv'
  BY DEF TypeOK, HandleInv, UniqueInv, WorkerInv, MainInv, AnswerInv, AnsweredUnlessCancelled, ReleaseInv, Complete
<1>releaseinv. ReleaseInv'
  BY DEF TypeOK, HandleInv, UniqueInv, WorkerInv, MainInv, AnswerInv, AnsweredUnlessCancelled, ReleaseInv, Complete
<1> QED
  BY <1>types, <1>handleinv, <1>uniqueinv, <1>workerinv, <1>maininv, <1>answerinv, <1>releaseinv

\* The critical section of Complete keeps the invariant.
LEMMA FinishKeeps ==
    ASSUME IInv, ~ReuseTokens, Finish
    PROVE  IInv'
<1> USE SelectionAssumption DEF IInv, callback, worker, handles, main
<1>bool. release' \in BOOLEAN
  <2>1. release' = release \/ release' = finishFn[completing]
    BY Zenon DEF Finish
  <2>2. release \in BOOLEAN /\ finishFn \in [Selections -> BOOLEAN] /\ completing \in Selections
    BY DEF TypeOK, MainInv, Finish
  <2> QED
    BY <2>1, <2>2, Zenon
<1>types. TypeOK'
  BY <1>bool, Zenon DEF TypeOK, Finish, MainInv
<1>handleinv. HandleInv'
  BY DEF TypeOK, HandleInv, UniqueInv, WorkerInv, MainInv, AnswerInv, AnsweredUnlessCancelled, ReleaseInv, Finish
<1>uniqueinv. UniqueInv'
  BY DEF TypeOK, HandleInv, UniqueInv, WorkerInv, MainInv, AnswerInv, AnsweredUnlessCancelled, ReleaseInv, Finish
<1>workerinv. WorkerInv'
  BY DEF TypeOK, HandleInv, UniqueInv, WorkerInv, MainInv, AnswerInv, AnsweredUnlessCancelled, ReleaseInv, Finish
<1>maininv. MainInv'
  BY DEF TypeOK, HandleInv, UniqueInv, WorkerInv, MainInv, AnswerInv, AnsweredUnlessCancelled, ReleaseInv, Finish
<1>answerinv. AnswerInv'
  BY DEF TypeOK, HandleInv, UniqueInv, WorkerInv, MainInv, AnswerInv, AnsweredUnlessCancelled, ReleaseInv, Finish
<1>releaseinv. ReleaseInv'
  BY DEF TypeOK, HandleInv, UniqueInv, WorkerInv, MainInv, AnswerInv, AnsweredUnlessCancelled, ReleaseInv, Finish
<1> QED
  BY <1>types, <1>handleinv, <1>uniqueinv, <1>workerinv, <1>maininv, <1>answerinv, <1>releaseinv

\* The answer to Envoy keeps the invariant.
LEMMA AnswerKeeps ==
    ASSUME IInv, ~ReuseTokens, Answer
    PROVE  IInv'
<1> USE SelectionAssumption DEF IInv, callback, worker, handles, main
<1>bool. release' \in BOOLEAN
  BY Zenon DEF TypeOK, Answer
<1>types. TypeOK'
  BY <1>bool DEF TypeOK, Answer, MainInv
<1>handleinv. HandleInv'
  BY DEF TypeOK, HandleInv, UniqueInv, WorkerInv, MainInv, AnswerInv, AnsweredUnlessCancelled, ReleaseInv, Answer
<1>uniqueinv. UniqueInv'
  BY DEF TypeOK, HandleInv, UniqueInv, WorkerInv, MainInv, AnswerInv, AnsweredUnlessCancelled, ReleaseInv, Answer
<1>workerinv. WorkerInv'
  BY DEF TypeOK, HandleInv, UniqueInv, WorkerInv, MainInv, AnswerInv, AnsweredUnlessCancelled, ReleaseInv, Answer
<1>maininv. MainInv'
  BY DEF TypeOK, HandleInv, UniqueInv, WorkerInv, MainInv, AnswerInv, AnsweredUnlessCancelled, ReleaseInv, Answer
<1>answerinv. AnswerInv'
  BY DEF TypeOK, HandleInv, UniqueInv, WorkerInv, MainInv, AnswerInv, AnsweredUnlessCancelled, ReleaseInv, Answer
<1>releaseinv. ReleaseInv'
  BY DEF TypeOK, HandleInv, UniqueInv, WorkerInv, MainInv, AnswerInv, AnsweredUnlessCancelled, ReleaseInv, Answer
<1> QED
  BY <1>types, <1>handleinv, <1>uniqueinv, <1>workerinv, <1>maininv, <1>answerinv, <1>releaseinv

\* The release of a handle by Complete keeps the invariant.
LEMMA ReleaseKeeps ==
    ASSUME IInv, ~ReuseTokens, Release
    PROVE  IInv'
<1> USE SelectionAssumption DEF IInv, callback, worker, handles, main
<1>bool. release' \in BOOLEAN
  BY Zenon DEF TypeOK, Release, Remove
<1>types. TypeOK'
  BY <1>bool DEF TypeOK, Release, Remove, MainInv
<1>handleinv. HandleInv'
  BY DEF TypeOK, HandleInv, UniqueInv, WorkerInv, MainInv, AnswerInv, AnsweredUnlessCancelled, ReleaseInv, Release, Remove
<1>uniqueinv. UniqueInv'
  BY DEF TypeOK, HandleInv, UniqueInv, WorkerInv, MainInv, AnswerInv, AnsweredUnlessCancelled, ReleaseInv, Release, Remove
<1>workerinv. WorkerInv'
  BY DEF TypeOK, HandleInv, UniqueInv, WorkerInv, MainInv, AnswerInv, AnsweredUnlessCancelled, ReleaseInv, Release, Remove
<1>maininv. MainInv'
  BY DEF TypeOK, HandleInv, UniqueInv, WorkerInv, MainInv, AnswerInv, AnsweredUnlessCancelled, ReleaseInv, Release, Remove
<1>answerinv. AnswerInv'
  BY DEF TypeOK, HandleInv, UniqueInv, WorkerInv, MainInv, AnswerInv, AnsweredUnlessCancelled, ReleaseInv, Release, Remove
<1>releaseinv. ReleaseInv'
  BY DEF TypeOK, HandleInv, UniqueInv, WorkerInv, MainInv, AnswerInv, AnsweredUnlessCancelled, ReleaseInv, Release, Remove
<1> QED
  BY <1>types, <1>handleinv, <1>uniqueinv, <1>workerinv, <1>maininv, <1>answerinv, <1>releaseinv

\* Every step keeps the invariant when addresses are not reused.
LEMMA NextIInv == ASSUME ~ReuseTokens PROVE IInv /\ [Next]_vars => IInv'
<1> SUFFICES ASSUME IInv, [Next]_vars PROVE IInv'
  BY Zenon
<1>1. CASE UNCHANGED vars
  BY <1>1 DEF vars, callback, worker, handles, main, IInv, TypeOK, HandleInv, UniqueInv, WorkerInv,
              MainInv, AnswerInv, AnsweredUnlessCancelled, ReleaseInv
<1>2. ASSUME NEW s \in Selections,
             \/ Resolve(s) \/ FireCallback(s)
             \/ ChooseHost(s) \/ CancelHostSelection(s) \/ WorkerStep(s)
      PROVE  IInv'
  BY <1>2, ResolveKeeps, FireCallbackKeeps, ChooseHostKeeps, CancelHostSelectionKeeps,
     RecordHandleKeeps, SetFinishFnKeeps, UnwrapHandleKeeps, CancelGuardKeeps, CancelCleanupKeeps,
     SelectorCancelKeeps
     DEF WorkerStep
<1>3. ASSUME MainStep PROVE IInv'
  BY <1>3, CompleteKeeps, FinishKeeps, AnswerKeeps, ReleaseKeeps DEF MainStep
<1> QED
  BY <1>1, <1>2, <1>3 DEF Next, Finished

\* The invariant holds in every reachable state.
LEMMA AlwaysIInv == ASSUME ~ReuseTokens PROVE Safety => []IInv
<1>1. IInv /\ [Next]_vars => IInv'
  BY NextIInv
<1> QED
  BY <1>1, InitIInv, PTL DEF Safety

\* The types of the selection's state.
THEOREM SelectionTypes == ASSUME ~ReuseTokens PROVE Safety => []TypeOK
<1>1. IInv => TypeOK
  BY DEF IInv
<1> QED
  BY <1>1, AlwaysIInv, PTL

\* Complete, Cancel and SetFinishFn between them answer Envoy at most once and
\* release the handle at most once, for every number of racing requests.
THEOREM SelectionSettlesOnce == ASSUME ~ReuseTokens PROVE Safety => []SettledOnce
<1>1. IInv => SettledOnce
  BY DEF IInv, AnswerInv, HandleInv, SettledOnce
<1> QED
  BY <1>1, AlwaysIInv, PTL

\* A completion becomes terminal only by an answer or by Envoy's own cancel.
THEOREM SelectionIsAnswered == ASSUME ~ReuseTokens PROVE Safety => []AnsweredUnlessCancelled
<1>1. IInv => AnsweredUnlessCancelled
  BY DEF IInv, AnswerInv
<1> QED
  BY <1>1, AlwaysIInv, PTL

\* When nothing runs, the handles in the table are those Envoy waits for.
THEOREM SelectionLeaksNoHandle == ASSUME ~ReuseTokens PROVE Safety => []HandlesReleased
<1>1. IInv => HandlesReleased
  BY DEF IInv, TypeOK, HandleInv, WorkerInv, AnswerInv, AnsweredUnlessCancelled, ReleaseInv,
         HandlesReleased, Quiescent
<1> QED
  BY <1>1, AlwaysIInv, PTL
=============================================================================

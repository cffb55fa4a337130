------------------------- MODULE RequestSinkProofs -------------------------
(***************************************************************************)
(* The request sink, for every number of streams and every capacity: no    *)
(* record is lost, repeated or reordered on its way to either store.       *)
(***************************************************************************)
EXTENDS RequestSink, FiniteSetTheorems, WellFoundedInduction, TLAPS

-----------------------------------------------------------------------------
(* Facts about sets of numbers.                                             *)

\* A non-empty set of natural numbers has a least element.
LEMMA LeastNatural ==
    ASSUME NEW S, S \subseteq Nat, S # {}
    PROVE  \E x \in S : \A y \in S : x <= y
<1> DEFINE R == OpToRel(<, Nat)
<1>1. IsWellFoundedOn(R, Nat)
  BY NatLessThanWellFounded
<1>2. \A x, y \in Nat : <<y, x>> \in R <=> y < x
  BY DEF OpToRel
<1> HIDE DEF R
<1>3. PICK x \in S : \A y \in S : ~(<<y, x>> \in R)
  BY <1>1, WFMin, Zenon
<1>4. \A y \in S : x \in Nat /\ y \in Nat /\ ~(y < x)
  BY <1>2, <1>3, Zenon
<1> QED
  BY <1>3, <1>4

\* Min is the least of a non-empty set of natural numbers.
LEMMA MinOfSet ==
    ASSUME NEW S, S \subseteq Nat, S # {}
    PROVE  Min(S) \in S /\ \A y \in S : Min(S) <= y
  BY LeastNatural, Zenon DEF Min

\* Max is the greatest of a non-empty bounded one.
LEMMA MaxOfSet ==
    ASSUME NEW n \in Nat, NEW S, S \subseteq 0 .. n, S # {}
    PROVE  Max(S) \in S /\ \A y \in S : Max(S) >= y
<1> DEFINE T == {n - x : x \in S}
<1>1. \A x \in S : x \in Int /\ 0 <= x /\ x <= n
  OBVIOUS
<1>2. \A x \in S : n - x \in Nat
  BY <1>1
<1>3. T \subseteq Nat /\ T # {}
  BY <1>2, Zenon
<1>4. PICK t \in T : \A u \in T : t <= u
  <2> HIDE DEF T
  <2> QED
    BY <1>3, LeastNatural, Zenon
<1>5. PICK x \in S : t = n - x
  OBVIOUS
<1>6. \A y \in S : n - x <= n - y
  BY <1>4, <1>5
<1>7. \A y \in S : x >= y
  BY <1>1, <1>6
<1> QED
  BY <1>7, Zenon DEF Max

-----------------------------------------------------------------------------
(* The inductive invariant.                                                 *)

\* Slots and the streams under way belong to each other.
SlotsOwned ==
    /\ exchange \in [Exchanges -> {"new", "request", "finalized"}]
    /\ context \in [Exchanges -> Slots \cup {NoSlot}]
    /\ slots \in [Slots -> Exchanges \cup {NoSlot}]
    /\ \A s \in Exchanges :
         exchange[s] = "request" => context[s] \in Slots /\ slots[context[s]] = s
    /\ \A i \in Slots :
         slots[i] # NoSlot => exchange[slots[i]] = "request" /\ context[slots[i]] = i

\* How many records have left the batch.
Gone == Stored + failed

SinkTypeOK ==
    /\ accepted \in Seq(Exchanges) /\ chan \in Seq(Exchanges)
    /\ batch \in Seq(Exchanges) /\ table \in Seq(Exchanges)
    /\ failed \in Nat /\ seq \in Nat /\ before \in Nat
    /\ stopCh \in BOOLEAN

\* What the stores hold are records Send accepted, in order.
StoresAgree ==
    /\ failed = 0 => \A i \in 1 .. Len(table) : table[i] = accepted[i]
    /\ \A i \in 0 .. RingCap - 1 :
         ring[i] # NoSlot => ring[i].id \in 1 .. seq /\ ring[i].rec = accepted[ring[i].id]
    /\ store # "memory" => seq = 0
    /\ store = "memory" => table = <<>> /\ failed = 0

\* What is not stored yet is in the batch, then in the channel, in order.
QueuesAgree ==
    /\ Gone + Len(batch) + Len(chan) = Len(accepted)
    /\ \A i \in 1 .. Len(batch) : batch[i] = accepted[Gone + i]
    /\ \A i \in 1 .. Len(chan) : chan[i] = accepted[Gone + Len(batch) + i]

\* Every stream is recorded when it is finalized, and once.
AcceptedOnce ==
    /\ \A i \in 1 .. Len(accepted) : exchange[accepted[i]] = "finalized"
    /\ \A i, j \in 1 .. Len(accepted) : accepted[i] = accepted[j] => i = j

\* The writer is done only when it has stored what was accepted before Stop.
StopWaits ==
    /\ before <= Len(accepted)
    /\ stopCh <=> stopCall # "no"
    /\ writer \in {"drain", "done"} => stopCh
    /\ writer = "done" => Gone >= before

SinkInv == SlotsOwned /\ SinkTypeOK /\ StoresAgree /\ QueuesAgree /\ AcceptedOnce /\ StopWaits

\* Nothing is recorded at first.
LEMMA SinkInitInv == SinkInit => SinkInv
<1> SUFFICES ASSUME SinkInit PROVE SinkInv
  OBVIOUS
<1> USE DEF SinkInit
<1>1. SlotsOwned
  BY DEF SlotsOwned
<1>2. SinkTypeOK
  <2>1. <<>> \in Seq(Exchanges) /\ 0 \in Nat /\ FALSE \in BOOLEAN
    OBVIOUS
  <2> QED
    BY <2>1, Zenon DEF SinkTypeOK
<1>3. StoresAgree /\ QueuesAgree /\ AcceptedOnce
  BY SinkAssumption DEF StoresAgree, QueuesAgree, AcceptedOnce, Gone, Stored
<1>4. StopWaits
  BY DEF StopWaits
<1> QED
  BY <1>1, <1>2, <1>3, <1>4 DEF SinkInv

\* A stream that begins finds a slot nobody uses: there are as many as streams.
LEMMA SlotIsFree ==
    ASSUME SlotsOwned, NEW s \in Exchanges, exchange[s] # "request"
    PROVE  \E i \in Slots : slots[i] = NoSlot
<1> SUFFICES ASSUME \A i \in Slots : slots[i] # NoSlot PROVE FALSE
  OBVIOUS
<1> DEFINE T == Exchanges \ {s}
<1>1. \A i \in Slots : slots[i] \in T
  BY DEF SlotsOwned
<1>2. slots \in [Slots -> T]
  BY <1>1 DEF SlotsOwned
<1>3. IsFiniteSet(Slots) /\ Cardinality(Slots) = N /\ Exchanges = Slots /\ 1 \in Int /\ N \in Nat
  BY FS_Interval, SinkAssumption DEF Slots, Exchanges
<1>4. IsFiniteSet(T) /\ Cardinality(T) < Cardinality(Slots)
  BY <1>3, FS_RemoveElement
<1>5. \E i, j \in Slots : i # j /\ slots[i] = slots[j]
  BY <1>2, <1>3, <1>4, FS_PigeonHole
<1> QED
  BY <1>5 DEF SlotsOwned

\* The beginning of a stream keeps the invariant.
LEMMA RequestInv ==
    ASSUME SinkInv, NEW s \in Exchanges, OnRequest(s)
    PROVE  SinkInv'
<1> DEFINE free == {j \in Slots : slots[j] = NoSlot}
           i == Min(free)
<1>1. /\ exchange[s] = "new"
      /\ slots' = [slots EXCEPT ![i] = s]
      /\ context' = [context EXCEPT ![s] = i]
      /\ exchange' = [exchange EXCEPT ![s] = "request"]
  BY DEF OnRequest, takeSlot
<1>2. i \in Slots /\ slots[i] = NoSlot
  <2>1. free # {}
    BY <1>1, SlotIsFree DEF SinkInv
  <2>2. free \subseteq Nat
    BY SinkAssumption DEF Slots
  <2>3. i \in free
    BY <2>1, <2>2, MinOfSet
  <2> QED
    BY <2>3
<1>3. NoSlot \notin Exchanges /\ NoSlot \notin Slots
  BY SinkAssumption
<1> HIDE DEF i
<1>4. SlotsOwned'
  BY <1>1, <1>2, <1>3 DEF SlotsOwned, SinkInv
<1>5. \A t \in Exchanges : exchange[t] = "finalized" => exchange'[t] = "finalized"
  BY <1>1 DEF SinkInv, SlotsOwned
<1>6. UNCHANGED <<store, chan, batch, table, ring, seq, writer, stopCh, stopCall, accepted, failed, before>>
  BY DEF OnRequest, storeVars
<1>7. SinkTypeOK' /\ StoresAgree' /\ QueuesAgree' /\ StopWaits'
  BY <1>6 DEF SinkInv, SinkTypeOK, StoresAgree, QueuesAgree, StopWaits, Gone, Stored
<1>8. AcceptedOnce'
  <2>1. \A j \in 1 .. Len(accepted) : accepted[j] \in Exchanges
    BY DEF SinkInv, SinkTypeOK
  <2> QED
    BY <1>5, <1>6, <2>1 DEF SinkInv, AcceptedOnce
<1> QED
  BY <1>4, <1>7, <1>8 DEF SinkInv

\* The end of a stream sends its own record and keeps the invariant.
LEMMA FinalizedInv ==
    ASSUME SinkInv, NEW s \in Exchanges, OnFinalized(s)
    PROVE  SinkInv'
<1>1. /\ exchange[s] = "request"
      /\ Send(slots[context[s]])
      /\ exchange' = [exchange EXCEPT ![s] = "finalized"]
      /\ slots' = [slots EXCEPT ![context[s]] = NoSlot]
      /\ context' = [context EXCEPT ![s] = NoSlot]
      /\ UNCHANGED <<store, batch, table, ring, seq, writer, stopCh, stopCall, failed, before>>
  BY DEF OnFinalized, returnSlot, storeVars
<1>2. context[s] \in Slots /\ slots[context[s]] = s
  BY <1>1 DEF SinkInv, SlotsOwned
<1>3. SlotsOwned'
  <2>1. NoSlot \notin Exchanges /\ NoSlot \notin Slots
    BY SinkAssumption
  <2> QED
    BY <1>1, <1>2, <2>1 DEF SlotsOwned, SinkInv
<1>4. /\ exchange'[s] = "finalized"
      /\ \A t \in Exchanges \ {s} : exchange'[t] = exchange[t]
  BY <1>1 DEF SinkInv, SlotsOwned
<1>5. \A j \in 1 .. Len(accepted) : accepted[j] \in Exchanges /\ accepted[j] # s
  BY <1>1 DEF SinkInv, SinkTypeOK, AcceptedOnce
<1>6. CASE UNCHANGED <<chan, accepted>>
  <2>1. SinkTypeOK' /\ StoresAgree' /\ QueuesAgree' /\ StopWaits'
    BY <1>1, <1>6, Zenon DEF SinkInv, SinkTypeOK, StoresAgree, QueuesAgree, StopWaits, Gone, Stored
  <2>2. AcceptedOnce'
    BY <1>4, <1>5, <1>6 DEF SinkInv, AcceptedOnce
  <2> QED
    BY <1>3, <2>1, <2>2 DEF SinkInv
<1>7. CASE chan' = Append(chan, s) /\ accepted' = Append(accepted, s)
  <2>1. /\ Gone' = Gone /\ Gone \in Nat
        /\ Gone + Len(batch) + Len(chan) = Len(accepted)
        /\ Len(batch) \in Nat /\ Len(chan) \in Nat /\ Len(accepted) \in Nat
    BY <1>1 DEF Gone, Stored, SinkInv, SinkTypeOK, QueuesAgree
  <2>2. /\ chan' \in Seq(Exchanges) /\ accepted' \in Seq(Exchanges)
        /\ Len(chan') = Len(chan) + 1 /\ Len(accepted') = Len(accepted) + 1
        /\ accepted'[Len(accepted) + 1] = s /\ chan'[Len(chan) + 1] = s
        /\ \A j \in 1 .. Len(accepted) : accepted'[j] = accepted[j]
        /\ \A j \in 1 .. Len(chan) : chan'[j] = chan[j]
    BY <1>7 DEF SinkInv, SinkTypeOK
  <2>3. SinkTypeOK'
    BY <1>1, <2>2 DEF SinkInv, SinkTypeOK
  <2>4. StoresAgree'
    <3>1. Len(table) <= Len(accepted) \/ failed # 0
      BY <2>1 DEF Gone, Stored, SinkInv, SinkTypeOK, StoresAgree
    <3>2. seq <= Len(accepted)
      BY <2>1 DEF Gone, Stored, SinkInv, SinkTypeOK, StoresAgree
    <3>3. failed = 0 => \A j \in 1 .. Len(table) : table[j] = accepted'[j]
      <4>1. Len(table) \in Nat
        BY DEF SinkInv, SinkTypeOK
      <4> QED
        BY <2>1, <2>2, <3>1, <4>1 DEF SinkInv, StoresAgree
    <3>4. \A j \in 1 .. seq : accepted'[j] = accepted[j]
      BY <2>1, <2>2, <3>2 DEF SinkInv, SinkTypeOK
    <3> QED
      BY <1>1, <3>3, <3>4 DEF SinkInv, StoresAgree
  <2>5. QueuesAgree'
    <3>1. UNCHANGED batch
      BY <1>1
    <3>2. \A j \in 1 .. Len(batch) : batch[j] = accepted'[Gone + j]
      <4>1. \A j \in 1 .. Len(batch) : Gone + j \in 1 .. Len(accepted)
        BY <2>1
      <4> QED
        BY <2>2, <4>1 DEF SinkInv, QueuesAgree
    <3>3. ASSUME NEW j \in 1 .. Len(chan') PROVE chan'[j] = accepted'[Gone + Len(batch) + j]
      <4>1. CASE j = Len(chan) + 1
        <5>1. Gone + Len(batch) + j = Len(accepted) + 1
          BY <2>1, <4>1
        <5> QED
          BY <2>2, <4>1, <5>1
      <4>2. CASE j # Len(chan) + 1
        <5>1. j \in 1 .. Len(chan) /\ Gone + Len(batch) + j \in 1 .. Len(accepted)
          BY <2>1, <2>2, <4>2
        <5> QED
          BY <2>2, <5>1 DEF SinkInv, QueuesAgree
      <4> QED
        BY <4>1, <4>2
    <3>4. Gone' + Len(batch') + Len(chan') = Len(accepted')
      BY <2>1, <2>2, <3>1
    <3> QED
      BY <2>1, <3>1, <3>2, <3>3, <3>4 DEF QueuesAgree
  <2>6. AcceptedOnce'
    BY <1>4, <1>5, <2>1, <2>2 DEF SinkInv, AcceptedOnce
  <2>7. StopWaits'
    BY <1>1, <2>1, <2>2 DEF SinkInv, SinkTypeOK, StopWaits
  <2> QED
    BY <1>3, <2>3, <2>4, <2>5, <2>6, <2>7 DEF SinkInv
<1> QED
  BY <1>1, <1>2, <1>6, <1>7 DEF Send

\* What flush is given is stored, or counted as lost.
LEMMA FlushStores ==
    ASSUME SinkInv, NEW recs \in Seq(Exchanges), flush(recs), UNCHANGED <<store, accepted>>,
           Gone + Len(recs) <= Len(accepted),
           \A i \in 1 .. Len(recs) : recs[i] = accepted[Gone + i]
    PROVE  /\ batch' = <<>> /\ StoresAgree'
           /\ Gone' = Gone + Len(recs)
           /\ table' \in Seq(Exchanges) /\ failed' \in Nat /\ seq' \in Nat
<1>0. /\ table \in Seq(Exchanges) /\ failed \in Nat /\ seq \in Nat /\ Len(recs) \in Nat
      /\ batch' = <<>> /\ StoresAgree
  BY DEF SinkInv, SinkTypeOK, flush
<1>1. CASE recs = <<>> /\ UNCHANGED <<storeVars, sub, failed>>
  BY <1>0, <1>1 DEF storeVars, StoresAgree, Gone, Stored
<1>2. CASE store = "memory" /\ memFlush(recs)
  <2> DEFINE in(i) == {j \in DOMAIN recs : (head + j - 1) % RingCap = i}
  <2>1. /\ ring' = [i \in 0 .. RingCap - 1 |->
                      IF in(i) = {} THEN ring[i]
                      ELSE [id |-> seq + Max(in(i)), rec |-> recs[Max(in(i))]]]
        /\ seq' = seq + Len(recs)
        /\ UNCHANGED <<table, failed>>
    BY <1>2 DEF memFlush
  <2>2. Gone = seq /\ Gone' = seq' /\ failed = 0 /\ table = <<>>
    BY <1>0, <1>2, <2>1 DEF StoresAgree, Gone, Stored
  <2>3. ASSUME NEW i \in 0 .. RingCap - 1, ring'[i] # NoSlot
        PROVE  ring'[i].id \in 1 .. seq' /\ ring'[i].rec = accepted[ring'[i].id]
    <3>1. CASE in(i) = {}
      BY <1>0, <2>1, <2>3, <3>1 DEF StoresAgree
    <3>2. CASE in(i) # {}
      <4>1. in(i) \subseteq 0 .. Len(recs)
        BY <1>0
      <4>2. Max(in(i)) \in in(i)
        <5> HIDE DEF in
        <5> QED
          BY <1>0, <3>2, <4>1, MaxOfSet
      <4> DEFINE m == Max(in(i))
      <4>3. m \in 1 .. Len(recs)
        BY <4>2
      <4>4. ring'[i] = [id |-> seq + Max(in(i)), rec |-> recs[Max(in(i))]]
        BY <2>1, <3>2
      <4>5. ring'[i].id = seq + m /\ ring'[i].rec = recs[m]
        BY <4>4
      <4> HIDE DEF m
      <4>6. seq + m \in 1 .. seq + Len(recs)
        BY <1>0, <4>3
      <4>7. recs[m] = accepted[seq + m]
        BY <2>2, <4>3
      <4> QED
        BY <2>1, <4>5, <4>6, <4>7
    <3> QED
      BY <3>1, <3>2
  <2> HIDE DEF in
  <2>4. StoresAgree'
    BY <1>2, <2>1, <2>2, <2>3 DEF StoresAgree
  <2> QED
    BY <1>0, <2>1, <2>2, <2>4
<1>3. CASE store = "postgres" /\ pgFlush(recs)
  <2>1. UNCHANGED <<ring, seq>> /\ seq = 0
    BY <1>0, <1>3 DEF pgFlush, StoresAgree
  <2>2. CASE failed' = failed + Len(recs) /\ recs # <<>> /\ UNCHANGED table
    BY <1>0, <1>3, <2>1, <2>2 DEF StoresAgree, Gone, Stored
  <2>3. CASE table' = table \o recs /\ UNCHANGED failed
    <3>1. /\ table' \in Seq(Exchanges)
          /\ Len(table') = Len(table) + Len(recs)
          /\ \A i \in 1 .. Len(table') :
               table'[i] = IF i <= Len(table) THEN table[i] ELSE recs[i - Len(table)]
      BY <1>0, <2>3
    <3>2. Gone = Len(table) + failed /\ Gone' = Len(table') + failed
      BY <1>3, <2>3 DEF Gone, Stored
    <3>3. ASSUME failed = 0, NEW i \in 1 .. Len(table') PROVE table'[i] = accepted[i]
      <4>1. CASE i <= Len(table)
        BY <1>0, <3>1, <3>3, <4>1 DEF StoresAgree
      <4>2. CASE i > Len(table)
        BY <1>0, <3>1, <3>2, <3>3, <4>2
      <4> QED
        BY <1>0, <4>1, <4>2
    <3> QED
      BY <1>0, <1>3, <2>1, <2>3, <3>1, <3>2, <3>3 DEF StoresAgree
  <2>4. CASE recs = <<>>
    BY <1>0, <1>3, <2>1, <2>2, <2>3, <2>4 DEF pgFlush, StoresAgree, Gone, Stored
  <2> QED
    BY <1>3, <2>2, <2>3, <2>4 DEF pgFlush
<1> QED
  BY <1>1, <1>2, <1>3 DEF flush

\* After a flush of the batch, what the channel holds is the rest.
LEMMA FlushInv ==
    ASSUME SinkInv, NEW recs \in Seq(Exchanges), flush(recs), chan' \in Seq(Exchanges),
           Gone + Len(recs) + Len(chan') = Len(accepted),
           \A i \in 1 .. Len(recs) : recs[i] = accepted[Gone + i],
           \A i \in 1 .. Len(chan') : chan'[i] = accepted[Gone + Len(recs) + i],
           UNCHANGED <<store, exchange, context, slots, stopCh, stopCall, accepted, before>>,
           writer' = writer \/ (writer' = "done" /\ stopCh /\ Len(chan') = 0)
    PROVE  SinkInv'
<1>1. /\ Gone \in Nat /\ Len(recs) \in Nat /\ Len(chan') \in Nat /\ before \in Nat
      /\ Len(accepted) \in Nat
  BY DEF SinkInv, SinkTypeOK, Gone, Stored
<1>2. /\ batch' = <<>> /\ StoresAgree'
      /\ Gone' = Gone + Len(recs)
      /\ table' \in Seq(Exchanges) /\ failed' \in Nat /\ seq' \in Nat
  BY <1>1, FlushStores
<1>3. SinkTypeOK'
  BY <1>2 DEF SinkInv, SinkTypeOK
<1>4. SlotsOwned' /\ AcceptedOnce'
  BY DEF SinkInv, SlotsOwned, AcceptedOnce
<1>5. QueuesAgree'
  <2>1. Len(batch') = 0
    BY <1>2
  <2> QED
    BY <1>1, <1>2, <2>1 DEF QueuesAgree
<1>6. StopWaits'
  BY <1>1, <1>2 DEF SinkInv, StopWaits
<1> QED
  BY <1>2, <1>3, <1>4, <1>5, <1>6 DEF SinkInv

\* The channel's first record is the one after the batch.
LEMMA ChanHead ==
    ASSUME SinkInv, chan # <<>>
    PROVE  LET b == Append(batch, Head(chan))
           IN  /\ b \in Seq(Exchanges) /\ Tail(chan) \in Seq(Exchanges)
               /\ Len(b) = Len(batch) + 1
               /\ Gone + Len(b) + Len(Tail(chan)) = Len(accepted)
               /\ \A i \in 1 .. Len(b) : b[i] = accepted[Gone + i]
               /\ \A i \in 1 .. Len(Tail(chan)) : Tail(chan)[i] = accepted[Gone + Len(b) + i]
<1> DEFINE b == Append(batch, Head(chan))
           t == Tail(chan)
<1>1. /\ chan \in Seq(Exchanges) /\ batch \in Seq(Exchanges) /\ Gone \in Nat
      /\ Len(batch) \in Nat /\ Len(chan) \in Nat /\ Len(chan) > 0
      /\ Gone + Len(batch) + Len(chan) = Len(accepted)
      /\ Head(chan) = chan[1] /\ Head(chan) \in Exchanges
  BY DEF SinkInv, SinkTypeOK, QueuesAgree, Gone, Stored
<1>2. /\ b \in Seq(Exchanges) /\ Len(b) = Len(batch) + 1
      /\ b[Len(batch) + 1] = chan[1]
      /\ \A i \in 1 .. Len(batch) : b[i] = batch[i]
  BY <1>1
<1>3. /\ t \in Seq(Exchanges) /\ Len(t) = Len(chan) - 1
      /\ \A i \in 1 .. Len(t) : t[i] = chan[i + 1]
  BY <1>1
<1> HIDE DEF b, t
<1>4. ASSUME NEW i \in 1 .. Len(b) PROVE b[i] = accepted[Gone + i]
  <2>1. CASE i \in 1 .. Len(batch)
    BY <1>2, <2>1 DEF SinkInv, QueuesAgree
  <2>2. CASE i = Len(batch) + 1
    <3>1. chan[1] = accepted[Gone + Len(batch) + 1]
      BY <1>1 DEF SinkInv, QueuesAgree
    <3>2. Gone + Len(batch) + 1 = Gone + i
      BY <1>1, <2>2
    <3> QED
      BY <1>2, <2>2, <3>1, <3>2
  <2> QED
    BY <1>1, <1>2, <2>1, <2>2
<1>5. ASSUME NEW i \in 1 .. Len(t) PROVE t[i] = accepted[Gone + Len(b) + i]
  <2>1. /\ i + 1 \in 1 .. Len(chan)
        /\ Gone + Len(b) + i = Gone + Len(batch) + (i + 1)
    BY <1>1, <1>2, <1>3
  <2> QED
    BY <1>3, <2>1 DEF SinkInv, QueuesAgree
<1>6. Gone + Len(b) + Len(t) = Len(accepted)
  <2>1. Len(b) = Len(batch) + 1 /\ Len(t) = Len(chan) - 1
    BY <1>2, <1>3
  <2>2. Gone + (Len(batch) + 1) + (Len(chan) - 1) = Len(accepted)
    BY <1>1
  <2> QED
    BY <2>1, <2>2
<1> QED
  BY <1>2, <1>3, <1>4, <1>5, <1>6 DEF b, t

\* A record that joins the batch keeps the invariant.
LEMMA JoinInv ==
    ASSUME SinkInv, chan # <<>>, batch' = Append(batch, Head(chan)), chan' = Tail(chan),
           UNCHANGED <<store, exchange, context, slots, table, ring, seq, writer, stopCh,
                       stopCall, accepted, failed, before>>
    PROVE  SinkInv'
<1>1. Gone' = Gone
  BY DEF Gone, Stored
<1>2. SlotsOwned' /\ StoresAgree' /\ AcceptedOnce' /\ StopWaits'
  BY <1>1 DEF SinkInv, SlotsOwned, StoresAgree, AcceptedOnce, StopWaits
<1>3. SinkTypeOK' /\ QueuesAgree'
  BY <1>1, ChanHead DEF SinkInv, SinkTypeOK, QueuesAgree
<1> QED
  BY <1>2, <1>3 DEF SinkInv

\* Every step of the writer keeps the invariant.
LEMMA WriterInv ==
    ASSUME SinkInv, SinkWriter
    PROVE  SinkInv'
<1> USE DEF exchangeVars
<1>0. UNCHANGED <<store, exchange, context, slots, stopCh, stopCall, accepted, before>>
  BY DEF SinkWriter, WriterTakes, WriterTicks, WriterStops, WriterDrains
<1>1. /\ batch \in Seq(Exchanges) /\ chan \in Seq(Exchanges)
      /\ Gone + Len(batch) + Len(chan) = Len(accepted)
      /\ \A i \in 1 .. Len(batch) : batch[i] = accepted[Gone + i]
      /\ \A i \in 1 .. Len(chan) : chan[i] = accepted[Gone + Len(batch) + i]
  BY DEF SinkInv, SinkTypeOK, QueuesAgree
<1>2. CASE WriterTakes
  <2> DEFINE b == Append(batch, Head(chan))
  <2>1. chan # <<>> /\ chan' = Tail(chan) /\ UNCHANGED writer
    BY <1>2 DEF WriterTakes
  <2>2. CASE flush(b)
    <3>1. /\ b \in Seq(Exchanges) /\ chan' \in Seq(Exchanges)
          /\ Gone + Len(b) + Len(chan') = Len(accepted)
          /\ \A i \in 1 .. Len(b) : b[i] = accepted[Gone + i]
          /\ \A i \in 1 .. Len(chan') : chan'[i] = accepted[Gone + Len(b) + i]
      BY <2>1, ChanHead
    <3> HIDE DEF b
    <3> QED
      BY <1>0, <2>1, <2>2, <3>1, FlushInv
  <2>3. CASE batch' = b /\ UNCHANGED <<storeVars, failed>>
    BY <1>0, <2>1, <2>3, JoinInv DEF storeVars
  <2> QED
    BY <1>2, <2>2, <2>3 DEF WriterTakes
<1>3. CASE WriterTicks
  <2>1. flush(batch) /\ UNCHANGED <<chan, writer>>
    BY <1>3 DEF WriterTicks
  <2> QED
    BY <1>0, <1>1, <2>1, FlushInv
<1>4. CASE WriterStops
  <2>1. writer' = "drain" /\ stopCh /\ UNCHANGED <<chan, batch, table, ring, seq, failed>>
    BY <1>4 DEF WriterStops, storeVars
  <2> QED
    BY <1>0, <2>1 DEF SinkInv, SlotsOwned, SinkTypeOK, StoresAgree, QueuesAgree, AcceptedOnce,
                      StopWaits, Gone, Stored
<1>5. CASE WriterDrains
  <2>1. writer = "drain" /\ stopCh
    BY <1>5 DEF WriterDrains, SinkInv, StopWaits
  <2>2. CASE /\ chan # <<>> /\ batch' = Append(batch, Head(chan)) /\ chan' = Tail(chan)
             /\ UNCHANGED <<writer, storeVars, sub, failed>>
    BY <1>0, <2>2, JoinInv DEF storeVars
  <2>3. CASE chan = <<>> /\ flush(batch) /\ writer' = "done" /\ UNCHANGED chan
    <3>1. Len(chan') = 0
      BY <2>3
    <3> QED
      BY <1>0, <1>1, <2>1, <2>3, <3>1, FlushInv
  <2> QED
    BY <1>5, <2>2, <2>3 DEF WriterDrains
<1> QED
  BY <1>2, <1>3, <1>4, <1>5 DEF SinkWriter

\* Every step keeps the invariant.
LEMMA SinkNextInv == SinkInv /\ [SinkNext]_sinkVars => SinkInv'
<1> SUFFICES ASSUME SinkInv, [SinkNext]_sinkVars PROVE SinkInv'
  OBVIOUS
<1> USE DEF exchangeVars, storeVars
<1>1. CASE UNCHANGED <<store, exchange, context, slots, chan, batch, table, ring, seq, writer,
                       stopCh, stopCall, accepted, failed, before>>
  BY <1>1 DEF SinkInv, SlotsOwned, SinkTypeOK, StoresAgree, QueuesAgree, AcceptedOnce,
              StopWaits, Gone, Stored
<1>2. CASE UNCHANGED sinkVars
  BY <1>1, <1>2 DEF sinkVars
<1>3. ASSUME NEW s \in Exchanges, OnRequest(s) PROVE SinkInv'
  BY <1>3, RequestInv
<1>4. ASSUME NEW s \in Exchanges, OnFinalized(s) PROVE SinkInv'
  BY <1>4, FinalizedInv
<1>5. CASE SinkWriter
  BY <1>5, WriterInv
<1>6. CASE Stop
  <2>1. /\ stopCall = "no" /\ stopCh' = TRUE /\ stopCall' = "waiting" /\ before' = Len(accepted)
        /\ UNCHANGED <<store, exchange, context, slots, chan, batch, table, ring, seq, writer,
                       accepted, failed>>
    BY <1>6 DEF Stop
  <2>2. Len(accepted) \in Nat /\ Gone' = Gone
    BY <2>1 DEF SinkInv, SinkTypeOK, Gone, Stored
  <2>3. StopWaits'
    BY <2>1, <2>2 DEF SinkInv, StopWaits
  <2>4. SinkTypeOK'
    BY <2>1, <2>2, Zenon DEF SinkInv, SinkTypeOK
  <2> QED
    BY <2>1, <2>2, <2>3, <2>4
       DEF SinkInv, SlotsOwned, StoresAgree, QueuesAgree, AcceptedOnce
<1>7. CASE StopReturns
  <2>1. /\ stopCall = "waiting" /\ stopCall' = "returned"
        /\ UNCHANGED <<store, exchange, context, slots, chan, batch, table, ring, seq, writer,
                       stopCh, accepted, failed, before>>
    BY <1>7 DEF StopReturns
  <2>2. Gone' = Gone
    BY <2>1 DEF Gone, Stored
  <2>3. StopWaits'
    BY <2>1, <2>2 DEF SinkInv, StopWaits
  <2>4. SlotsOwned' /\ AcceptedOnce'
    BY <2>1, Zenon DEF SinkInv, SlotsOwned, AcceptedOnce
  <2>5. SinkTypeOK' /\ StoresAgree' /\ QueuesAgree'
    BY <2>1, <2>2, Zenon DEF SinkInv, SinkTypeOK, StoresAgree, QueuesAgree
  <2> QED
    BY <2>3, <2>4, <2>5, Zenon DEF SinkInv
<1>8. CASE Page
  BY <1>1, <1>8 DEF Page, PageOpens, LoadAnswered, LoadShown, Subscribe, OnMessage, StreamLost,
                    Poll, sinkOnly
<1> QED
  BY <1>2, <1>3, <1>4, <1>5, <1>6, <1>7, <1>8 DEF SinkNext

\* However streams, the writer's batches, failing inserts, Stop and the page interleave,
\* every record Send took is in the store, counted as lost by an insert, or still queued,
\* in the order of the streams' ends and each once, and Stop returns only when what was
\* sent before it has been written.
THEOREM SinkKeepsRecords == SinkSpec => []RecordsKept
<1>1. SinkInv => RecordsKept
  <2> SUFFICES ASSUME SinkInv PROVE RecordsKept
    OBVIOUS
  <2>1. /\ accepted \in Seq(Exchanges) /\ table \in Seq(Exchanges) /\ failed \in Nat /\ seq \in Nat
        /\ Len(batch) \in Nat /\ Len(chan) \in Nat
        /\ DOMAIN accepted = 1 .. Len(accepted)
        /\ Len(table) \in Nat /\ Len(accepted) \in Nat
    BY DEF SinkInv, SinkTypeOK
  <2>2. Stored + failed + Len(batch) + Len(chan) = Len(accepted)
    BY DEF SinkInv, QueuesAgree, Gone
  <2>3. ASSUME failed = 0 PROVE table = SubSeq(accepted, 1, Len(table))
    <3>1. Len(table) <= Len(accepted)
      <4>1. CASE store = "memory"
        <5>1. Len(table) = 0
          BY <4>1 DEF SinkInv, StoresAgree
        <5> QED
          BY <2>1, <5>1
      <4>2. CASE store # "memory"
        BY <2>1, <2>2, <4>2 DEF Stored
      <4> QED
        BY <4>1, <4>2
    <3>2. \A i \in 1 .. Len(table) : table[i] = accepted[i]
      BY <2>3 DEF SinkInv, StoresAgree
    <3> QED
      BY <2>1, <3>1, <3>2
  <2>4. writer = "done" => Stored + failed >= before
    BY DEF SinkInv, StopWaits, Gone
  <2>5. /\ \A i, j \in DOMAIN accepted : accepted[i] = accepted[j] => i = j
        /\ \A i \in 0 .. RingCap - 1 : ring[i] # NoSlot => ring[i].rec = accepted[ring[i].id]
    BY <2>1 DEF SinkInv, AcceptedOnce, StoresAgree
  <2> QED
    BY <2>2, <2>3, <2>4, <2>5 DEF RecordsKept
<1> QED
  BY <1>1, SinkInitInv, SinkNextInv, PTL DEF SinkSpec
=============================================================================

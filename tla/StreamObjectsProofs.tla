------------------------ MODULE StreamObjectsProofs ------------------------
(***************************************************************************)
(* Stream objects and finalizers, for every set of streams, filters,       *)
(* nonces and request ids: an object stays in its stream, every filter     *)
(* that saw a request is finalized once and for its own stream, and then   *)
(* neither table keeps anything of the stream.                             *)
(***************************************************************************)
EXTENDS StreamObjects, TLAPS

\* The state of the two tables has its type.
ObjectsTypeOK ==
    /\ requestId \in [Streams -> Ids \cup {None}]
    /\ stage \in [Streams -> {"open", "ending", "over", "logged"}]
    /\ seen \in [Actors -> SUBSET {"request", "response", "complete"}]
    /\ nonce \in [Actors -> Nonces \cup {None}]
    /\ idInState \in [Streams -> Nonces \cup {None}]
    /\ DOMAIN bags \subseteq Nonces
    /\ bags \in [DOMAIN bags -> SUBSET Actors]
    /\ header \in [Streams -> Actors \cup {None}]
    /\ key \in [Actors -> Ids \cup Actors \cup {None}]
    /\ entries \in [DOMAIN entries -> Actors]
    /\ logged \in [Streams -> SUBSET Finalized]
    /\ dropped \subseteq Nonces
    /\ finalized \in [Actors -> Seq(Streams)]

\* Every nonce in use names a bag or one that was dropped, which no filter mints
\* again; a bag is held by filters of one stream, and what it holds was set by
\* filters that have its nonce.
HeldIn(non, ids, b) ==
    /\ \A a \in Actors : non[a] # None => non[a] \in DOMAIN b \cup dropped
    /\ \A s \in Streams : ids[s] # None => ids[s] \in DOMAIN b \cup dropped
    /\ DOMAIN b \cap dropped = {}
    /\ \A n \in DOMAIN b :
         /\ \A a, c \in Actors : non[a] = n /\ non[c] = n => a[1] = c[1]
         /\ \A a \in Actors, s \in Streams : non[a] = n /\ ids[s] = n => a[1] = s
         /\ \A s, t \in Streams : ids[s] = n /\ ids[t] = n => s = t
         /\ \A a \in b[n] : non[a] = n

BagsHeld == HeldIn(nonce, idInState, bags)

\* What a handler leaves before bags are dropped is held as well; only its own
\* filter gets a nonce, and a new bag has one that no other filter knows.
LEMMA HandlerHolds ==
    ASSUME ObjectsTypeOK, BagsHeld, NEW a \in Actors, NEW written \in BOOLEAN,
           NEW o \in Handler(a, written)
    PROVE  /\ o.nonce \in [Actors -> Nonces \cup {None}]
           /\ o.idInState \in [Streams -> Nonces \cup {None}]
           /\ DOMAIN o.bags \subseteq Nonces
           /\ o.bags \in [DOMAIN o.bags -> SUBSET Actors]
           /\ HeldIn(o.nonce, o.idInState, o.bags)
           /\ \A c \in Actors \ {a} : o.nonce[c] = nonce[c]
           /\ \A c \in Actors \ {a} : nonce[c] \notin DOMAIN bags => nonce[c] \notin DOMAIN o.bags
<1> USE DEF ObjectsTypeOK, BagsHeld
<1>0. a[1] \in Streams /\ None \notin Nonces
  BY ObjectsAssumption DEF Actors
<1>1. CASE o = Outcome(nonce, idInState, bags, shared)
  BY <1>1 DEF Outcome
<1>2. CASE o \in SetObject(a, written) /\ nonce[a] \in DOMAIN bags
  <2>1. /\ o.nonce = nonce /\ o.idInState = idInState
        /\ o.bags = [bags EXCEPT ![nonce[a]] = @ \cup {a}]
    BY <1>2 DEF SetObject, Outcome
  <2>2. /\ DOMAIN o.bags = DOMAIN bags
        /\ \A n \in DOMAIN bags : o.bags[n] = IF n = nonce[a] THEN bags[n] \cup {a} ELSE bags[n]
    BY <2>1, <1>2, Zenon
  <2>3. o.bags \in [DOMAIN bags -> SUBSET Actors]
    BY <2>1, <1>2
  <2> QED
    BY <2>1, <2>2, <2>3 DEF HeldIn
<1>3. CASE o \in SetObject(a, written) /\ nonce[a] \notin DOMAIN bags
  <2>1. PICK n \in {m \in Mint : Inserted(m)} :
          o = Outcome([nonce EXCEPT ![a] = n],
                      IF written THEN [idInState EXCEPT ![a[1]] = n] ELSE idInState,
                      [m \in DOMAIN bags \cup {n} |->
                         (IF m \in DOMAIN bags THEN bags[m] ELSE {})
                           \cup (IF m = n THEN {a} ELSE {})],
                      shared)
    BY <1>3, Zenon DEF SetObject
  <2>2. n \in Nonces /\ n \notin dropped /\ n \notin DOMAIN bags /\ n # None
    BY <1>0 DEF Mint, Inserted
  <2>3. /\ o.nonce = [nonce EXCEPT ![a] = n]
        /\ o.idInState = IF written THEN [idInState EXCEPT ![a[1]] = n] ELSE idInState
        /\ o.bags = [m \in DOMAIN bags \cup {n} |->
                       (IF m \in DOMAIN bags THEN bags[m] ELSE {})
                         \cup (IF m = n THEN {a} ELSE {})]
    BY <2>1 DEF Outcome
  <2>4. /\ DOMAIN o.bags = DOMAIN bags \cup {n}
        /\ o.bags \in [DOMAIN bags \cup {n} -> SUBSET Actors]
        /\ \A m \in DOMAIN bags : o.bags[m] = bags[m]
        /\ o.bags[n] = {a}
    BY <2>2, <2>3
  <2>5. /\ \A c \in Actors : nonce[c] # n
        /\ \A s \in Streams : idInState[s] # n
    BY <2>2 DEF HeldIn
  <2>6. /\ o.nonce[a] = n
        /\ \A c \in Actors \ {a} : o.nonce[c] = nonce[c]
        /\ \A s \in Streams : o.idInState[s] = n => s = a[1]
        /\ \A s \in Streams : o.idInState[s] \in {n, idInState[s]}
    BY <1>0, <2>3, <2>5
  <2>7. \A m \in DOMAIN bags : a \notin bags[m]
    BY <1>3 DEF HeldIn
  <2>8. HeldIn(o.nonce, o.idInState, o.bags)
    <3>1. ASSUME NEW m \in DOMAIN o.bags
          PROVE  /\ \A b, c \in Actors : o.nonce[b] = m /\ o.nonce[c] = m => b[1] = c[1]
                 /\ \A b \in Actors, s \in Streams : o.nonce[b] = m /\ o.idInState[s] = m => b[1] = s
                 /\ \A s, t \in Streams : o.idInState[s] = m /\ o.idInState[t] = m => s = t
                 /\ \A b \in o.bags[m] : o.nonce[b] = m
      <4>1. CASE m = n
        <5>1. \A b \in Actors : o.nonce[b] = n => b = a
          BY <2>5, <2>6
        <5> QED
          BY <4>1, <5>1, <2>4, <2>6
      <4>2. CASE m # n
        <5>1. m \in DOMAIN bags /\ o.bags[m] = bags[m] /\ bags[m] \subseteq Actors
          BY <4>2, <2>4
        <5>2. \A b \in Actors : o.nonce[b] = m => b # a /\ nonce[b] = m
          BY <4>2, <2>6
        <5>3. \A s \in Streams : o.idInState[s] = m => idInState[s] = m
          BY <4>2, <2>6
        <5>4. \A b \in bags[m] : b # a /\ b \in Actors /\ nonce[b] = m
          BY <5>1, <2>7 DEF HeldIn
        <5> QED
          BY <5>1, <5>2, <5>3, <5>4, <2>6 DEF HeldIn
      <4> QED
        BY <4>1, <4>2
    <3> QED
      BY <3>1, <2>2, <2>4, <2>6 DEF HeldIn
  <2> QED
    BY <1>0, <2>2, <2>3, <2>4, <2>5, <2>6, <2>8
<1>4. CASE o \in GetObject(a)
  <2>0. /\ nonce[a] = None
        /\ o = Outcome([nonce EXCEPT ![a] = idInState[a[1]]], idInState, bags,
                       shared \cup ({idInState[a[1]]} \ {None}))
    BY <1>4 DEF GetObject
  <2>1. /\ nonce[a] = None
        /\ o.nonce = [nonce EXCEPT ![a] = idInState[a[1]]]
        /\ o.idInState = idInState
        /\ o.bags = bags
    BY <2>0 DEF Outcome
  <2>2. \A m \in DOMAIN bags : a \notin bags[m]
    BY <1>0, <2>1 DEF HeldIn
  <2> QED
    BY <1>0, <2>1, <2>2 DEF HeldIn
<1> QED
  BY <1>1, <1>2, <1>3, <1>4 DEF Handler

\* A handler of filter a with the drop that follows it.
HandlerStep(a, drop) ==
    /\ nonce' \in [Actors -> Nonces \cup {None}]
    /\ idInState' \in [Streams -> Nonces \cup {None}]
    /\ DOMAIN bags' \subseteq Nonces
    /\ bags' \in [DOMAIN bags' -> SUBSET Actors]
    /\ dropped' \subseteq Nonces
    /\ BagsHeld'
    /\ \A c \in Actors \ {a} : nonce'[c] = nonce[c]
    /\ \A c \in Actors \ {a} : nonce[c] \notin DOMAIN bags => nonce[c] \notin DOMAIN bags'
    /\ a \in drop => nonce'[a] \notin DOMAIN bags'

\* That is what running a handler does.
LEMMA HandlerSteps ==
    ASSUME ObjectsTypeOK, BagsHeld, NEW a \in Actors, NEW written \in BOOLEAN,
           NEW drop \in SUBSET Actors, RunHandler(a, written, drop)
    PROVE  HandlerStep(a, drop)
<1>1. PICK o \in Handler(a, written) :
        LET gone == {o.nonce[d] : d \in drop}
        IN  /\ nonce' = o.nonce /\ idInState' = o.idInState /\ shared' = o.shared
            /\ bags' = [n \in DOMAIN o.bags \ gone |-> o.bags[n]]
            /\ dropped' = dropped \cup (gone \ {None})
  BY DEF RunHandler
<1> DEFINE gone == {o.nonce[d] : d \in drop}
<1>2. /\ o.nonce \in [Actors -> Nonces \cup {None}]
      /\ o.idInState \in [Streams -> Nonces \cup {None}]
      /\ DOMAIN o.bags \subseteq Nonces
      /\ o.bags \in [DOMAIN o.bags -> SUBSET Actors]
      /\ HeldIn(o.nonce, o.idInState, o.bags)
      /\ \A c \in Actors \ {a} : o.nonce[c] = nonce[c]
      /\ \A c \in Actors \ {a} : nonce[c] \notin DOMAIN bags => nonce[c] \notin DOMAIN o.bags
  BY HandlerHolds
<1>3. /\ nonce' = o.nonce /\ idInState' = o.idInState
      /\ DOMAIN bags' = DOMAIN o.bags \ gone
      /\ \A n \in DOMAIN bags' : bags'[n] = o.bags[n]
      /\ bags' \in [DOMAIN bags' -> SUBSET Actors]
      /\ dropped' = dropped \cup (gone \ {None})
  BY <1>1, <1>2
<1>4. gone \subseteq Nonces \cup {None}
  BY <1>2
<1>5. a \in drop => o.nonce[a] \in gone
  OBVIOUS
<1>6. None \notin Nonces
  BY ObjectsAssumption
<1>7. BagsHeld'
  <2> HIDE DEF gone
  <2> QED
    BY <1>2, <1>3, <1>4, <1>6 DEF BagsHeld, HeldIn
<1> HIDE DEF gone
<1> QED
  BY <1>2, <1>3, <1>4, <1>5, <1>7 DEF HandlerStep, ObjectsTypeOK

\* How far a stream and its filters are.
StagesAgree ==
    /\ \A a \in Actors : "complete" \in seen[a] => stage[a[1]] # "open"
    /\ \A s \in Streams : stage[s] \in {"over", "logged"} =>
         \A f \in Filters : "complete" \in seen[<<s, f>>]
    /\ \A s \in Streams : logged[s] # {} => stage[s] \in {"over", "logged"}
    /\ \A s \in Streams : stage[s] = "logged" => logged[s] = Finalized

\* The key a filter registers under.
OwnKey(a) == IF requestId[a[1]] # None THEN requestId[a[1]] ELSE a

\* A filter with a key has either its entry or had its OnStreamFinalized, and an
\* entry is its filter's under its key.
Keyed ==
    /\ \A s, t \in Streams : s # t => requestId[s] # requestId[t] \/ requestId[s] = None
    /\ \A s \in Streams : header[s] \in ({s} \X Filters) \cup {None}
    /\ \A a \in Actors : key[a] # None => a[2] \in Finalized /\ key[a] = OwnKey(a)
    /\ \A a \in Actors : key[a] = None => finalized[a] = <<>>
    /\ \A a \in Actors :
         key[a] # None /\ finalized[a] = <<>> => <<a[2], key[a]>> \in DOMAIN entries
    /\ \A k \in DOMAIN entries :
         /\ k = <<entries[k][2], key[entries[k]]>>
         /\ key[entries[k]] # None
         /\ finalized[entries[k]] = <<>>
    /\ \A a \in Actors : finalized[a] # <<>> =>
         finalized[a] = <<a[1]>> /\ stage[a[1]] \in {"over", "logged"}

\* The bags of the filters that are done.
BagsDropped ==
    /\ \A a \in Actors :
         "complete" \in seen[a] /\ a[2] \notin Finalized => nonce[a] \notin DOMAIN bags
    /\ \A a \in Actors : finalized[a] # <<>> => nonce[a] \notin DOMAIN bags

ObjectsInv == ObjectsTypeOK /\ BagsHeld /\ StagesAgree /\ Keyed /\ BagsDropped

\* Both tables are empty at first.
LEMMA ObjectsInitInv == ObjectsInit => ObjectsInv
<1> SUFFICES ASSUME ObjectsInit PROVE ObjectsInv
  OBVIOUS
<1> USE DEF ObjectsInit
<1>1. ObjectsTypeOK
  BY DEF ObjectsTypeOK
<1>2. BagsHeld
  BY DEF BagsHeld, HeldIn
<1>3. StagesAgree
  BY DEF StagesAgree, Actors
<1>4. Keyed
  BY DEF Keyed, OwnKey
<1>5. BagsDropped
  BY DEF BagsDropped
<1> QED
  BY <1>1, <1>2, <1>3, <1>4, <1>5 DEF ObjectsInv

\* Two filters of the same name with the same key are one.
LEMMA KeysDiffer ==
    ASSUME ObjectsTypeOK, Keyed, NEW a \in Actors, NEW b \in Actors,
           a[2] = b[2], OwnKey(a) = OwnKey(b)
    PROVE  a = b
<1>1. /\ a = <<a[1], a[2]>> /\ b = <<b[1], b[2]>> /\ a[1] \in Streams /\ b[1] \in Streams
      /\ requestId[a[1]] \in Ids \cup {None} /\ requestId[b[1]] \in Ids \cup {None}
      /\ Ids \cap Actors = {}
  BY ObjectsAssumption DEF Actors, ObjectsTypeOK
<1>2. CASE requestId[a[1]] # None
  BY <1>1, <1>2 DEF OwnKey, Keyed
<1>3. CASE requestId[a[1]] = None
  BY <1>1, <1>3 DEF OwnKey, Keyed
<1> QED
  BY <1>2, <1>3

\* Registering gives a filter its key and its entry, and nothing else.
LEMMA RegisterKeyed ==
    ASSUME ObjectsTypeOK, Keyed, NEW a \in Actors, NEW reply \in BOOLEAN,
           RegisterFinalized(a, reply), UNCHANGED <<requestId, stage, finalized>>
    PROVE  /\ Keyed'
           /\ key' \in [Actors -> Ids \cup Actors \cup {None}]
           /\ header' \in [Streams -> Actors \cup {None}]
           /\ entries' \in [DOMAIN entries' -> Actors]
<1>0. /\ a[1] \in Streams /\ a[2] \in Filters /\ a = <<a[1], a[2]>>
      /\ requestId[a[1]] \in Ids \cup {None} /\ None \notin Ids \cup Actors
  BY ObjectsAssumption DEF Actors, ObjectsTypeOK
<1>1. CASE UNCHANGED <<key, header, entries>>
  BY <1>1 DEF Keyed, OwnKey, ObjectsTypeOK
<1>2. CASE a[2] \in Finalized /\ key[a] = None
  <2> DEFINE k0 == <<a[2], OwnKey(a)>>
  <2>1. /\ key' = [key EXCEPT ![a] = OwnKey(a)]
        /\ header' = header \/ header' = [header EXCEPT ![a[1]] = a]
        /\ entries' = [k \in DOMAIN entries \cup {<<a[2], key'[a]>>} |->
                         IF k = <<a[2], key'[a]>> THEN a ELSE entries[k]]
    BY <1>2 DEF RegisterFinalized, StreamKey, OwnKey
  <2>2. /\ key'[a] = OwnKey(a) /\ OwnKey(a) \in Ids \cup Actors /\ OwnKey(a) # None
        /\ \A b \in Actors \ {a} : key'[b] = key[b]
    BY <1>0, <2>1 DEF ObjectsTypeOK, OwnKey
  <2>3. /\ DOMAIN entries' = DOMAIN entries \cup {k0}
        /\ entries'[k0] = a
        /\ \A k \in DOMAIN entries \ {k0} : entries'[k] = entries[k]
        /\ entries' \in [DOMAIN entries \cup {k0} -> Actors]
    BY <2>1, <2>2 DEF ObjectsTypeOK
  <2>4. /\ finalized[a] = <<>>
        /\ \A k \in DOMAIN entries : entries[k] \in Actors /\ entries[k] # a
    BY <1>2 DEF Keyed, ObjectsTypeOK
  <2>5. \A b \in Actors : OwnKey(b)' = OwnKey(b)
    BY DEF OwnKey
  <2>6. \A s \in Streams : header'[s] \in ({s} \X Filters) \cup {None}
    BY <1>0, <2>1 DEF Keyed, ObjectsTypeOK
  <2>7. \A b \in Actors : key'[b] # None => b[2] \in Finalized /\ key'[b] = OwnKey(b)
    BY <1>2, <2>2 DEF Keyed
  <2>8. \A k \in DOMAIN entries' :
          /\ k = <<entries'[k][2], key'[entries'[k]]>>
          /\ key'[entries'[k]] # None
          /\ finalized[entries'[k]] = <<>>
    BY <2>2, <2>3, <2>4 DEF Keyed
  <2>9. \A b \in Actors :
          /\ key'[b] = None => finalized[b] = <<>>
          /\ key'[b] # None /\ finalized[b] = <<>> => <<b[2], key'[b]>> \in DOMAIN entries'
    BY <2>2, <2>3 DEF Keyed
  <2>10. Keyed'
    BY <2>5, <2>6, <2>7, <2>8, <2>9, Zenon DEF Keyed
  <2>11. entries' \in [DOMAIN entries' -> Actors]
    BY <2>3
  <2>12. /\ key' \in [Actors -> Ids \cup Actors \cup {None}]
         /\ header' \in [Streams -> Actors \cup {None}]
    BY <1>0, <2>1, <2>2 DEF ObjectsTypeOK
  <2> QED
    BY <2>10, <2>11, <2>12
<1> QED
  BY <1>1, <1>2 DEF RegisterFinalized

\* The request handler keeps the invariant.
LEMMA RequestKeeps ==
    ASSUME ObjectsInv, NEW a \in Actors, OnRequestHeaders(a)
    PROVE  ObjectsInv'
<1> USE DEF ObjectsInv
<1>1. PICK reply \in BOOLEAN :
        /\ answered' = [answered EXCEPT ![a[1]] = reply]
        /\ RunHandler(a, ~reply, {})
        /\ RegisterFinalized(a, reply)
  BY Zenon DEF OnRequestHeaders
<1>2. /\ stage[a[1]] = "open" /\ seen[a] = {}
      /\ seen' = [seen EXCEPT ![a] = {"request"}]
      /\ UNCHANGED <<requestId, stage, logged, finalized>>
  BY DEF OnRequestHeaders
<1>3. HandlerStep(a, {})
  BY <1>1, HandlerSteps, Zenon
<1>4. /\ Keyed'
      /\ key' \in [Actors -> Ids \cup Actors \cup {None}]
      /\ header' \in [Streams -> Actors \cup {None}]
      /\ entries' \in [DOMAIN entries' -> Actors]
  BY <1>1, <1>2, RegisterKeyed
<1>5. /\ \A c \in Actors : "complete" \in seen'[c] <=> "complete" \in seen[c]
      /\ seen' \in [Actors -> SUBSET {"request", "response", "complete"}]
  BY <1>2 DEF ObjectsTypeOK
<1>6. ObjectsTypeOK'
  BY <1>2, <1>3, <1>4, <1>5 DEF ObjectsTypeOK, HandlerStep
<1>7. StagesAgree'
  BY <1>2, <1>5 DEF StagesAgree, Actors
<1>8. "complete" \notin seen[a] /\ finalized[a] = <<>>
  BY <1>2 DEF StagesAgree, Keyed
<1>9. BagsDropped'
  BY <1>2, <1>3, <1>5, <1>8 DEF BagsDropped, HandlerStep
<1> QED
  BY <1>3, <1>4, <1>6, <1>7, <1>9 DEF HandlerStep

\* The response handler keeps the invariant.
LEMMA ResponseKeeps ==
    ASSUME ObjectsInv, NEW a \in Actors, OnResponseHeaders(a)
    PROVE  ObjectsInv'
<1> USE DEF ObjectsInv
<1>1. /\ stage[a[1]] = "open"
      /\ seen' = [seen EXCEPT ![a] = @ \cup {"response"}]
      /\ RunHandler(a, TRUE, {})
      /\ UNCHANGED <<requestId, stage, answered, header, key, entries, logged, finalized>>
  BY Zenon DEF OnResponseHeaders
<1>2. HandlerStep(a, {})
  BY <1>1, HandlerSteps, Zenon
<1>3. /\ \A c \in Actors : "complete" \in seen'[c] <=> "complete" \in seen[c]
      /\ seen' \in [Actors -> SUBSET {"request", "response", "complete"}]
  BY <1>1 DEF ObjectsTypeOK
<1>4. ObjectsTypeOK'
  BY <1>1, <1>2, <1>3 DEF ObjectsTypeOK, HandlerStep
<1>5. Keyed'
  BY <1>1 DEF Keyed, OwnKey
<1>6. StagesAgree'
  BY <1>1, <1>3 DEF StagesAgree, Actors
<1>7. "complete" \notin seen[a] /\ finalized[a] = <<>>
  BY <1>1 DEF StagesAgree, Keyed
<1>8. BagsDropped'
  BY <1>1, <1>2, <1>3, <1>7 DEF BagsDropped, HandlerStep
<1> QED
  BY <1>2, <1>4, <1>5, <1>6, <1>8 DEF HandlerStep

\* The end of a filter's stream keeps the invariant.
LEMMA CompleteKeeps ==
    ASSUME ObjectsInv, NEW a \in Actors, OnStreamComplete(a)
    PROVE  ObjectsInv'
<1> USE DEF ObjectsInv
<1> DEFINE to == IF \A f \in Filters \ {a[2]} : "complete" \in seen[<<a[1], f>>]
                   THEN "over" ELSE "ending"
<1>0. a[1] \in Streams /\ a[2] \in Filters /\ a = <<a[1], a[2]>>
  BY DEF Actors
<1>1. /\ stage[a[1]] \in {"open", "ending"}
      /\ seen' = [seen EXCEPT ![a] = @ \cup {"complete"}]
      /\ RunHandler(a, TRUE, DropsOnComplete(a))
      /\ stage' = [stage EXCEPT ![a[1]] = to]
      /\ UNCHANGED <<requestId, answered, header, key, entries, logged, finalized>>
  BY Zenon DEF OnStreamComplete
<1>2. HandlerStep(a, DropsOnComplete(a))
  BY <1>1, HandlerSteps, Zenon DEF DropsOnComplete
<1>3. /\ \A c \in Actors : "complete" \in seen'[c] <=> c = a \/ "complete" \in seen[c]
      /\ seen' \in [Actors -> SUBSET {"request", "response", "complete"}]
  BY <1>1 DEF ObjectsTypeOK
<1>4. /\ stage' \in [Streams -> {"open", "ending", "over", "logged"}]
      /\ stage'[a[1]] = to
      /\ \A s \in Streams \ {a[1]} : stage'[s] = stage[s]
  BY <1>0, <1>1 DEF ObjectsTypeOK
<1>5. to \in {"over", "ending"}
      /\ (to = "over" => \A f \in Filters \ {a[2]} : "complete" \in seen[<<a[1], f>>])
  OBVIOUS
<1> HIDE DEF to
<1>6. ObjectsTypeOK'
  BY <1>1, <1>2, <1>3, <1>4 DEF ObjectsTypeOK, HandlerStep
<1>7. logged[a[1]] = {} /\ \A f \in Filters : finalized[<<a[1], f>>] = <<>>
  BY <1>0, <1>1 DEF StagesAgree, Keyed, Actors
<1>8. Keyed'
  <2>1. \A b \in Actors : finalized[b] # <<>> => b[1] # a[1] /\ b[1] \in Streams
    BY <1>7 DEF Actors
  <2> QED
    BY <1>1, <1>4, <2>1 DEF Keyed, OwnKey
<1>9. StagesAgree'
  <2>1. ASSUME NEW c \in Actors, "complete" \in seen'[c] PROVE stage'[c[1]] # "open"
    BY <2>1, <1>3, <1>4, <1>5 DEF StagesAgree, Actors
  <2>2. ASSUME NEW s \in Streams, stage'[s] \in {"over", "logged"}, NEW f \in Filters
        PROVE  "complete" \in seen'[<<s, f>>]
    <3>1. <<s, f>> \in Actors
      BY DEF Actors
    <3>2. CASE s = a[1]
      BY <3>1, <3>2, <2>2, <1>0, <1>3, <1>4, <1>5
    <3>3. CASE s # a[1]
      BY <3>1, <3>3, <2>2, <1>3, <1>4 DEF StagesAgree
    <3> QED
      BY <3>2, <3>3
  <2> QED
    BY <2>1, <2>2, <1>1, <1>4, <1>5, <1>7 DEF StagesAgree
<1>10. BagsDropped'
  <2>1. finalized[a] = <<>> /\ (a[2] \notin Finalized => a \in DropsOnComplete(a))
    BY <1>0, <1>7 DEF DropsOnComplete
  <2> QED
    BY <1>1, <1>2, <1>3, <2>1 DEF BagsDropped, HandlerStep
<1> QED
  BY <1>2, <1>6, <1>8, <1>9, <1>10 DEF HandlerStep

\* The entry an access log of stream s finds is one of that stream.
LEMMA EntryIsOwn ==
    ASSUME ObjectsTypeOK, Keyed, NEW s \in Streams, NEW f \in Filters,
           LogKey(s) # None, <<f, LogKey(s)>> \in DOMAIN entries
    PROVE  entries[<<f, LogKey(s)>>] = <<s, f>>
<1> DEFINE a == entries[<<f, LogKey(s)>>]
<1>1. /\ a \in Actors /\ a = <<a[1], a[2]>> /\ a[1] \in Streams /\ a[2] = f
      /\ key[a] = LogKey(s) /\ key[a] = OwnKey(a)
  <2>1. a \in Actors
    BY DEF ObjectsTypeOK
  <2>2. <<f, LogKey(s)>> = <<a[2], key[a]>>
    BY DEF Keyed
  <2>3. key[a] = OwnKey(a)
    BY <2>1 DEF Keyed
  <2> QED
    BY <2>1, <2>2, <2>3 DEF Actors
<1>2. /\ requestId[s] \in Ids \cup {None} /\ requestId[a[1]] \in Ids \cup {None}
      /\ header[s] \in ({s} \X Filters) \cup {None}
      /\ Ids \cap Actors = {} /\ {s} \X Filters \subseteq Actors
  BY <1>1, ObjectsAssumption DEF ObjectsTypeOK, Keyed, Actors
<1>3. CASE requestId[s] # None
  BY <1>1, <1>2, <1>3 DEF LogKey, OwnKey, Keyed
<1>4. CASE requestId[s] = None
  <2>1. LogKey(s) \in {s} \X Filters
    BY <1>2, <1>4 DEF LogKey
  <2>2. OwnKey(a) = a
    BY <1>1, <1>2, <2>1 DEF OwnKey
  <2> QED
    BY <1>1, <2>1, <2>2
<1> QED
  BY <1>3, <1>4

\* An access log keeps the invariant.
LEMMA LogKeeps ==
    ASSUME ObjectsInv, NEW s \in Streams, NEW f \in Filters, NEW type \in {"start", "end"},
           OnLog(s, f, type)
    PROVE  ObjectsInv'
<1> USE DEF ObjectsInv
<1> DEFINE a == <<s, f>>
<1>1. /\ f \in Finalized /\ f \notin logged[s]
      /\ type = "end" => stage[s] = "over"
      /\ type = "start" => stage[s] = "open"
      /\ logged' = IF type = "end" THEN [logged EXCEPT ![s] = @ \cup {f}] ELSE logged
      /\ stage' = IF type = "end" /\ Finalized \subseteq logged[s] \cup {f}
                    THEN [stage EXCEPT ![s] = "logged"] ELSE stage
      /\ UNCHANGED <<requestId, seen, answered, nonce, idInState, header, key, shared>>
  BY DEF OnLog
<1>2. a \in Actors /\ a[1] = s /\ a[2] = f
  BY DEF Actors
<1>3. /\ logged' \in [Streams -> SUBSET Finalized]
      /\ \A t \in Streams : logged'[t] = IF t = s /\ type = "end" THEN logged[t] \cup {f} ELSE logged[t]
  BY <1>1, Zenon DEF ObjectsTypeOK
<1>4. /\ stage' \in [Streams -> {"open", "ending", "over", "logged"}]
      /\ \A t \in Streams : stage'[t] = stage[t] \/ (t = s /\ type = "end" /\ stage'[t] = "logged")
      /\ stage'[s] = "logged" => stage[s] = "over" /\ type = "end" /\ Finalized \subseteq logged[s] \cup {f}
  BY <1>1 DEF ObjectsTypeOK
<1>5. StagesAgree'
  <2>1. \A t \in Streams : stage'[t] = "logged" => logged'[t] = Finalized
    BY <1>1, <1>3, <1>4 DEF StagesAgree, ObjectsTypeOK
  <2>2. \A t \in Streams : logged'[t] # {} => stage'[t] \in {"over", "logged"}
    BY <1>1, <1>3, <1>4 DEF StagesAgree
  <2>3. \A t \in Streams : /\ stage'[t] \in {"over", "logged"} <=> stage[t] \in {"over", "logged"}
                           /\ stage'[t] = "open" <=> stage[t] = "open"
    BY <1>1, <1>4
  <2> QED
    BY <1>1, <2>1, <2>2, <2>3 DEF StagesAgree, Actors
<1>6. CASE UNCHANGED <<entries, finalized, bags, dropped>>
  <2>1. ObjectsTypeOK'
    BY <1>1, <1>3, <1>4, <1>6 DEF ObjectsTypeOK
  <2>2. Keyed'
    BY <1>1, <1>4, <1>6 DEF Keyed, OwnKey, Actors
  <2> QED
    BY <1>1, <1>5, <1>6, <2>1, <2>2 DEF BagsHeld, HeldIn, BagsDropped
<1>7. CASE /\ type = "end" /\ LogKey(s) # None /\ <<f, LogKey(s)>> \in DOMAIN entries
           /\ Finalize(s, <<f, LogKey(s)>>)
  <2> DEFINE k0 == <<f, LogKey(s)>>
  <2>1. entries[k0] = a
    BY <1>7, EntryIsOwn
  <2>2. /\ entries' = [m \in DOMAIN entries \ {k0} |-> entries[m]]
        /\ finalized' = [finalized EXCEPT ![a] = Append(@, s)]
        /\ bags' = [n \in DOMAIN bags \ {nonce[a]} |-> bags[n]]
        /\ dropped' = dropped \cup ({nonce[a]} \ {None})
    BY <1>7, <2>1 DEF Finalize, Take
  <2>3. /\ DOMAIN entries' = DOMAIN entries \ {k0}
        /\ \A m \in DOMAIN entries' : entries'[m] = entries[m]
        /\ entries' \in [DOMAIN entries' -> Actors]
    BY <2>2 DEF ObjectsTypeOK
  <2>0. finalized[a] = <<>>
    BY <1>7, <2>1 DEF Keyed
  <2> HIDE DEF a, k0
  <2>4. /\ finalized'[a] = <<s>>
        /\ \A b \in Actors \ {a} : finalized'[b] = finalized[b]
        /\ finalized' \in [Actors -> Seq(Streams)]
    <3>1. Append(<<>>, s) = <<s>> /\ Append(<<>>, s) \in Seq(Streams)
      OBVIOUS
    <3> QED
      BY <1>2, <2>0, <2>2, <3>1 DEF ObjectsTypeOK
  <2>5. /\ DOMAIN bags' = DOMAIN bags \ {nonce[a]}
        /\ \A n \in DOMAIN bags' : bags'[n] = bags[n]
        /\ bags' \in [DOMAIN bags' -> SUBSET Actors]
    BY <2>2 DEF ObjectsTypeOK
  <2>6. nonce[a] \in Nonces \cup {None} /\ None \notin Nonces
    BY <1>2, ObjectsAssumption DEF ObjectsTypeOK
  <2>7. ObjectsTypeOK'
    BY <1>1, <1>3, <1>4, <2>2, <2>3, <2>4, <2>5, <2>6 DEF ObjectsTypeOK
  <2>8. BagsHeld'
    <3>1. UNCHANGED <<nonce, idInState>>
      BY <1>1
    <3> QED
      BY <3>1, <2>2, <2>5, <2>6 DEF BagsHeld, HeldIn
  <2>9. BagsDropped'
    BY <1>1, <2>4, <2>5 DEF BagsDropped
  <2>10. k0 = <<a[2], key[a]>> /\ key[a] # None
    BY <1>7, <2>1 DEF Keyed, k0
  <2>11. \A k \in DOMAIN entries' : k = <<entries[k][2], key[entries[k]]>> /\ entries[k] # a
    BY <2>3, <2>10 DEF Keyed
  <2>12. \A b \in Actors \ {a} : key[b] # None => <<b[2], key[b]>> # k0
    BY <1>2, <2>10, KeysDiffer DEF Keyed
  <2>13. Keyed'
    <3>1. \A b \in Actors : finalized'[b] # <<>> =>
            finalized'[b] = <<b[1]>> /\ stage'[b[1]] \in {"over", "logged"}
      <4>1. \A t \in Streams : stage[t] \in {"over", "logged"} => stage'[t] \in {"over", "logged"}
        BY <1>4
      <4>2. \A b \in Actors : b[1] \in Streams
        BY DEF Actors
      <4>3. stage[s] = "over"
        BY <1>1, <1>7
      <4> QED
        BY <1>2, <2>4, <4>1, <4>2, <4>3 DEF Keyed
    <3>2. \A b \in Actors :
            /\ key[b] = None => finalized'[b] = <<>>
            /\ key[b] # None /\ finalized'[b] = <<>> => <<b[2], key[b]>> \in DOMAIN entries'
      <4>1. <<s>> # <<>>
        OBVIOUS
      <4> QED
        BY <2>3, <2>4, <2>10, <2>12, <4>1, Zenon DEF Keyed
    <3>3. \A k \in DOMAIN entries' :
            /\ k = <<entries'[k][2], key[entries'[k]]>>
            /\ key[entries'[k]] # None
            /\ finalized'[entries'[k]] = <<>>
      BY <2>3, <2>4, <2>11 DEF Keyed
    <3> QED
      BY <1>1, <3>1, <3>2, <3>3, Zenon DEF Keyed, OwnKey
  <2> QED
    BY <1>5, <2>7, <2>8, <2>9, <2>13
<1> QED
  BY <1>6, <1>7 DEF OnLog, IsEnd

\* Every step keeps the invariant.
LEMMA ObjectsNextInv == ObjectsInv /\ [ObjectsNext]_objectVars => ObjectsInv'
<1> SUFFICES ASSUME ObjectsInv, [ObjectsNext]_objectVars PROVE ObjectsInv'
  OBVIOUS
<1>1. CASE UNCHANGED objectVars
  BY <1>1 DEF objectVars, objects, ObjectsInv, ObjectsTypeOK, BagsHeld, HeldIn, StagesAgree,
              Keyed, OwnKey, BagsDropped
<1>2. ASSUME NEW a \in Actors, OnRequestHeaders(a) PROVE ObjectsInv'
  BY <1>2, RequestKeeps
<1>3. ASSUME NEW a \in Actors, OnResponseHeaders(a) PROVE ObjectsInv'
  BY <1>3, ResponseKeeps
<1>4. ASSUME NEW a \in Actors, OnStreamComplete(a) PROVE ObjectsInv'
  BY <1>4, CompleteKeeps
<1>5. ASSUME NEW s \in Streams, NEW f \in Filters, NEW type \in {"start", "end"}, OnLog(s, f, type)
      PROVE  ObjectsInv'
  BY <1>5, LogKeeps
<1> QED
  BY <1>1, <1>2, <1>3, <1>4, <1>5 DEF ObjectsNext

\* The invariant holds always.
LEMMA AlwaysObjectsInv == ObjectsSpec => []ObjectsInv
<1> QED
  BY ObjectsInitInv, ObjectsNextInv, PTL DEF ObjectsSpec

\* GetStreamObject returns no object of another stream: a filter and the filter
\* state of a stream only know nonces of bags that the stream's own filters fill.
THEOREM ObjectsAreOfTheirStream == ObjectsSpec => []ObjectsStayInStream
<1>1. ObjectsInv => ObjectsStayInStream
  <2> SUFFICES ASSUME ObjectsInv, NEW s \in Streams, NEW n \in Reaches(s) \cap DOMAIN bags,
                      NEW a \in bags[n]
               PROVE  a \in {s} \X Filters
    BY DEF ObjectsStayInStream
  <2>1. a \in Actors /\ a[1] \in Streams /\ a[2] \in Filters /\ a = <<a[1], a[2]>>
    BY DEF ObjectsInv, ObjectsTypeOK, Actors
  <2>2. nonce[a] = n
    BY DEF ObjectsInv, BagsHeld, HeldIn
  <2>3. CASE n = idInState[s]
    BY <2>1, <2>2, <2>3 DEF ObjectsInv, BagsHeld, HeldIn
  <2>4. ASSUME NEW f \in Filters, n = nonce[<<s, f>>] PROVE a[1] = s
    <3>1. <<s, f>> \in Actors /\ <<s, f>>[1] = s
      BY DEF Actors
    <3> QED
      BY <2>1, <2>2, <2>4, <3>1 DEF ObjectsInv, BagsHeld, HeldIn
  <2> QED
    BY <2>1, <2>3, <2>4, Zenon DEF Reaches
<1> QED
  BY <1>1, AlwaysObjectsInv, PTL

\* The access loggers can tell the filters of a stream apart: the stream has a
\* request id, or a single filter has an OnStreamFinalized.  (A second filter of a
\* stream without an id overwrites the key the first one stamped on the request.)
Correlated ==
    \/ \A f, g \in Finalized : f = g
    \/ \A s \in Streams : requestId[s] # None

\* The key a filter minted is the one its stream carries, and a filter whose logger
\* had the end of the stream had its OnStreamFinalized.
LogsCorrelate ==
    /\ Correlated
    /\ \A a \in Actors : key[a] # None /\ requestId[a[1]] = None => header[a[1]] = a
    /\ \A s \in Streams : \A f \in logged[s] :
         key[<<s, f>>] # None => finalized[<<s, f>>] # <<>>

\* Every step keeps the filters and their loggers correlated.
LEMMA NextCorrelates ==
    ASSUME ObjectsInv, LogsCorrelate, [ObjectsNext]_objectVars
    PROVE  LogsCorrelate'
<1> USE DEF ObjectsInv
<1>1. CASE UNCHANGED <<requestId, header, key, logged, finalized>>
  BY <1>1 DEF LogsCorrelate, Correlated
<1>2. ASSUME NEW a \in Actors, OnRequestHeaders(a) PROVE LogsCorrelate'
  <2>0. a[1] \in Streams /\ a[2] \in Filters /\ a = <<a[1], a[2]>>
    BY DEF Actors
  <2>1. stage[a[1]] = "open" /\ UNCHANGED <<requestId, stage, logged, finalized>>
    BY <1>2 DEF OnRequestHeaders
  <2>2. PICK reply \in BOOLEAN : RegisterFinalized(a, reply)
    BY <1>2 DEF OnRequestHeaders
  <2>3. logged[a[1]] = {}
    BY <2>0, <2>1 DEF StagesAgree
  <2>4. CASE UNCHANGED <<key, header>>
    BY <1>1, <2>1, <2>4
  <2>5. CASE a[2] \in Finalized /\ key[a] = None
    <3>1. /\ key' = [key EXCEPT ![a] = OwnKey(a)]
          /\ header' = IF requestId[a[1]] # None THEN header ELSE [header EXCEPT ![a[1]] = a]
      BY <2>2, <2>5 DEF RegisterFinalized, StreamKey, OwnKey
    <3>2. \A b \in Actors \ {a} : key'[b] = key[b]
      BY <3>1 DEF ObjectsTypeOK
    <3>3. ASSUME NEW s \in Streams, NEW f \in logged[s], key'[<<s, f>>] # None
          PROVE  finalized[<<s, f>>] # <<>>
      <4>1. s # a[1]
        BY <2>3, <3>3
      <4>2. <<s, f>> \in Actors /\ <<s, f>> # a
        BY <2>0, <4>1, ObjectsAssumption DEF ObjectsTypeOK, Actors
      <4> QED
        BY <3>2, <3>3, <4>2 DEF LogsCorrelate
    <3>4. ASSUME NEW b \in Actors, key'[b] # None, requestId[b[1]] = None
          PROVE  header'[b[1]] = b
      <4>1. b[1] \in Streams /\ b = <<b[1], b[2]>>
        BY DEF Actors
      <4>2. CASE b = a
        BY <2>0, <3>1, <3>4, <4>2 DEF ObjectsTypeOK
      <4>3. CASE b # a /\ b[1] = a[1]
        <5>1. b[2] \in Finalized
          BY <3>2, <3>4, <4>3 DEF Keyed
        <5>2. b[2] = a[2]
          BY <2>5, <3>4, <4>1, <5>1 DEF LogsCorrelate, Correlated
        <5> QED
          BY <2>0, <4>1, <4>3, <5>2
      <4>4. CASE b[1] # a[1]
        BY <3>1, <3>2, <3>4, <4>1, <4>4, Zenon DEF LogsCorrelate, ObjectsTypeOK
      <4> QED
        BY <4>2, <4>3, <4>4
    <3> QED
      BY <2>1, <3>3, <3>4 DEF LogsCorrelate, Correlated
  <2> QED
    BY <2>2, <2>4, <2>5 DEF RegisterFinalized
<1>3. ASSUME NEW a \in Actors, OnResponseHeaders(a) \/ OnStreamComplete(a) PROVE LogsCorrelate'
  BY <1>1, <1>3, Zenon DEF OnResponseHeaders, OnStreamComplete
<1>4. ASSUME NEW s \in Streams, NEW f \in Filters, NEW type \in {"start", "end"}, OnLog(s, f, type)
      PROVE  LogsCorrelate'
  <2> DEFINE k == <<f, LogKey(s)>>
             a == <<s, f>>
  <2>1. /\ f \in Finalized
        /\ logged' = IF type = "end" THEN [logged EXCEPT ![s] = @ \cup {f}] ELSE logged
        /\ UNCHANGED <<requestId, header, key>>
    BY <1>4 DEF OnLog
  <2>2. a \in Actors /\ a[1] = s /\ a[2] = f
    BY DEF Actors
  <2>3. \A b \in Actors : finalized[b] # <<>> => finalized'[b] # <<>>
    <3>1. CASE UNCHANGED finalized
      BY <3>1
    <3>2. CASE LogKey(s) # None /\ k \in DOMAIN entries /\ Finalize(s, k)
      <4>1. finalized' = [finalized EXCEPT ![entries[k]] = Append(@, s)]
        BY <3>2 DEF Finalize
      <4>2. \A q \in Seq(Streams) : Append(q, s) # <<>>
        OBVIOUS
      <4> QED
        BY <4>1, <4>2 DEF ObjectsTypeOK
    <3> QED
      BY <1>4, <3>1, <3>2 DEF OnLog
  <2>4. ASSUME type = "end", key[a] # None PROVE finalized'[a] # <<>>
    <3>1. CASE finalized[a] # <<>>
      BY <3>1, <2>2, <2>3
    <3>2. CASE finalized[a] = <<>>
      <4>1. LogKey(s) = key[a]
        BY <2>2, <2>4 DEF LogKey, OwnKey, Keyed, LogsCorrelate
      <4>2. k \in DOMAIN entries /\ LogKey(s) # None
        BY <2>2, <2>4, <3>2, <4>1 DEF Keyed
      <4>3. Finalize(s, k)
        BY <1>4, <2>4, <4>2 DEF OnLog, IsEnd
      <4>4. entries[k] = a
        BY <4>2, EntryIsOwn
      <4>5. finalized' = [finalized EXCEPT ![a] = Append(@, s)]
        BY <4>3, <4>4 DEF Finalize
      <4>6. Append(<<>>, s) # <<>>
        OBVIOUS
      <4> QED
        BY <2>2, <3>2, <4>5, <4>6 DEF ObjectsTypeOK
    <3> QED
      BY <3>1, <3>2
  <2>5. ASSUME NEW t \in Streams, NEW g \in logged'[t], key[<<t, g>>] # None
        PROVE  finalized'[<<t, g>>] # <<>>
    <3>1. g \in logged[t] \/ (t = s /\ g = f /\ type = "end")
      BY <2>1 DEF ObjectsTypeOK
    <3>2. CASE g \in logged[t]
      <4>1. <<t, g>> \in Actors
        BY <3>2, ObjectsAssumption DEF ObjectsTypeOK, Actors
      <4> QED
        BY <2>3, <2>5, <3>2, <4>1 DEF LogsCorrelate
    <3> QED
      BY <2>4, <2>5, <3>1, <3>2
  <2> QED
    BY <2>1, <2>5 DEF LogsCorrelate, Correlated
<1> QED
  BY <1>1, <1>2, <1>3, <1>4 DEF ObjectsNext, objectVars, objects

\* OnStreamFinalized is called once, for the filter's own stream, after every
\* OnStreamComplete, and never missed once the stream is logged; then neither table
\* keeps anything of the stream.  This is so when the stream's filters can be told
\* apart by their loggers.
THEOREM StreamsAreSettled == ObjectsSpec /\ Correlated => []StreamsSettled
<1>1. ObjectsInit /\ Correlated => LogsCorrelate
  BY DEF ObjectsInit, LogsCorrelate
<1>2. ObjectsInv /\ LogsCorrelate => FinalizedOnce
  <2> SUFFICES ASSUME ObjectsInv, LogsCorrelate, NEW a \in Actors
               PROVE  /\ finalized[a] \in {<<>>, <<a[1]>>}
                      /\ finalized[a] # <<>> => stage[a[1]] # "open"
                      /\ stage[a[1]] = "logged" /\ key[a] # None => finalized[a] # <<>>
    BY DEF FinalizedOnce
  <2>1. a[1] \in Streams /\ a = <<a[1], a[2]>>
    BY DEF Actors
  <2>2. /\ finalized[a] \in {<<>>, <<a[1]>>}
        /\ finalized[a] # <<>> => stage[a[1]] # "open"
    BY Zenon DEF ObjectsInv, Keyed
  <2>3. ASSUME stage[a[1]] = "logged", key[a] # None PROVE finalized[a] # <<>>
    <3>1. a[2] \in logged[a[1]]
      BY <2>1, <2>3 DEF ObjectsInv, StagesAgree, Keyed
    <3> QED
      BY <2>1, <2>3, <3>1 DEF LogsCorrelate
  <2> QED
    BY <2>2, <2>3
<1>3. ObjectsInv /\ FinalizedOnce => NothingLeaks
  <2> SUFFICES ASSUME ObjectsInv, FinalizedOnce, NEW s \in Streams, stage[s] = "logged",
                      \A f \in Finalized : key[<<s, f>>] # None
               PROVE  /\ \A n \in DOMAIN bags : bags[n] \cap ({s} \X Filters) = {}
                      /\ \A k \in DOMAIN entries : entries[k][1] # s
    BY DEF NothingLeaks
  <2>1. ASSUME NEW f \in Filters PROVE nonce[<<s, f>>] \notin DOMAIN bags
    <3>1. <<s, f>> \in Actors /\ <<s, f>>[1] = s /\ <<s, f>>[2] = f
      BY DEF Actors
    <3>2. CASE f \in Finalized
      BY <3>1, <3>2 DEF FinalizedOnce, ObjectsInv, BagsDropped
    <3>3. CASE f \notin Finalized
      BY <3>1, <3>3 DEF ObjectsInv, StagesAgree, BagsDropped
    <3> QED
      BY <3>2, <3>3
  <2>2. ASSUME NEW n \in DOMAIN bags, NEW f \in Filters PROVE <<s, f>> \notin bags[n]
    BY <2>1 DEF ObjectsInv, BagsHeld, HeldIn
  <2>3. ASSUME NEW k \in DOMAIN entries PROVE entries[k][1] # s
    BY DEF ObjectsInv, ObjectsTypeOK, Keyed, FinalizedOnce
  <2> QED
    BY <2>2, <2>3
<1> QED
  BY <1>1, <1>2, <1>3, ObjectsInitInv, ObjectsNextInv, NextCorrelates, PTL DEF ObjectsSpec, StreamsSettled
=============================================================================

--------------------------- MODULE StreamPromise ---------------------------
(***************************************************************************)
(* StreamPromise[T]: a resolve-once promise that goroutines resolve,       *)
(* subscribe to and cancel concurrently.  One action is one critical       *)
(* section of the promise's or of an entry's mutex, or one call of a       *)
(* callback; everything else interleaves.  A resolver offers itself as its *)
(* value.                                                                  *)
(***************************************************************************)
EXTENDS Naturals, Sequences, Functions

CONSTANTS Resolvers, Callbacks, NoValue

ASSUME NoValueAssumption == NoValue \notin Resolvers

VARIABLES
    value,         \* p.value; p.resolved is value # NoValue
    resolvedDone,  \* p.done is closed
    callbacks,     \* p.callbacks
    resolverAt,    \* where each Resolve call is
    cbs,           \* the drained list of each Resolve call, what is left of it
    entry,         \* each registration: its promiseCB, or its inline call
    ran,           \* the callbacks that have been called, in that order
    got,           \* the value each callback was called with
    order,         \* the callbacks in registration order
    withdrawn      \* the callbacks that had not been called when cancel returned

promiseVars == <<value, resolvedDone, callbacks, resolverAt, cbs, entry, ran, got, order,
                 withdrawn>>

resolved == value # NoValue

PromiseInit ==
    /\ value = NoValue
    /\ resolvedDone = FALSE
    /\ callbacks = <<>>
    /\ resolverAt = [r \in Resolvers |-> "idle"]
    /\ cbs = [r \in Resolvers |-> <<>>]
    /\ entry = [c \in Callbacks |-> "none"]
    /\ ran = <<>>
    /\ got = [c \in Callbacks |-> NoValue]
    /\ order = <<>>
    /\ withdrawn = {}

(***************************************************************************)
(* Resolve.                                                                *)
(***************************************************************************)
\* The critical section of Resolve: the first caller publishes its value and
\* takes the list, any other returns false.
Resolve(r) ==
    /\ resolverAt[r] = "idle"
    /\ \/ /\ resolved
          /\ resolverAt' = [resolverAt EXCEPT ![r] = "false"]
          /\ UNCHANGED <<value, cbs, callbacks>>
       \/ /\ ~resolved
          /\ value' = r
          /\ cbs' = [cbs EXCEPT ![r] = callbacks]
          /\ callbacks' = <<>>
          /\ resolverAt' = [resolverAt EXCEPT ![r] = "closing"]
    /\ UNCHANGED <<resolvedDone, entry, ran, got, order, withdrawn>>

\* resolvedOnce and close(p.done).
CloseDone(r) ==
    /\ resolverAt[r] = "closing"
    /\ resolvedDone' = TRUE
    /\ resolverAt' = [resolverAt EXCEPT ![r] = "firing"]
    /\ UNCHANGED <<value, callbacks, cbs, entry, ran, got, order, withdrawn>>

TakesCanceled(r) ==
    /\ resolverAt[r] = "firing"
    /\ cbs[r] # <<>>
    /\ entry' = [entry EXCEPT ![Head(cbs[r])] = "taken"]
    /\ resolverAt' = [resolverAt EXCEPT ![r] = "calling"]
    /\ UNCHANGED <<value, resolvedDone, callbacks, cbs, ran, got, order, withdrawn>>

\* The critical section of the next entry: a live one is marked, so that a
\* later cancel is a no-op, and will be called; a canceled one is passed over.
TakeEntry(r) ==
    /\ resolverAt[r] = "firing"
    /\ cbs[r] # <<>>
    /\ \/ /\ entry[Head(cbs[r])] = "armed"
          /\ entry' = [entry EXCEPT ![Head(cbs[r])] = "taken"]
          /\ resolverAt' = [resolverAt EXCEPT ![r] = "calling"]
          /\ UNCHANGED cbs
       \/ /\ entry[Head(cbs[r])] # "armed"
          /\ cbs' = [cbs EXCEPT ![r] = Tail(@)]
          /\ UNCHANGED <<entry, resolverAt>>
    /\ UNCHANGED <<value, resolvedDone, callbacks, ran, got, order, withdrawn>>

Call(c, v) ==
    /\ ran' = Append(ran, c)
    /\ got' = [got EXCEPT ![c] = v]

\* fn(v), outside every lock.
CallEntry(r) ==
    /\ resolverAt[r] = "calling"
    /\ Call(Head(cbs[r]), r)
    /\ cbs' = [cbs EXCEPT ![r] = Tail(@)]
    /\ resolverAt' = [resolverAt EXCEPT ![r] = "firing"]
    /\ UNCHANGED <<value, resolvedDone, callbacks, entry, order, withdrawn>>

ResolveReturns(r) ==
    /\ resolverAt[r] = "firing"
    /\ cbs[r] = <<>>
    /\ resolverAt' = [resolverAt EXCEPT ![r] = "true"]
    /\ UNCHANGED <<value, resolvedDone, callbacks, cbs, entry, ran, got, order, withdrawn>>

(***************************************************************************)
(* OnResolve and the cancel function it returns.                           *)
(***************************************************************************)
\* The critical section of OnResolve.
OnResolve(c) ==
    /\ entry[c] = "none"
    /\ \/ /\ resolved
          /\ entry' = [entry EXCEPT ![c] = "inline"]
          /\ UNCHANGED <<callbacks, order>>
       \/ /\ ~resolved
          /\ callbacks' = Append(callbacks, c)
          /\ entry' = [entry EXCEPT ![c] = "armed"]
          /\ order' = Append(order, c)
    /\ UNCHANGED <<value, resolvedDone, resolverAt, cbs, ran, got, withdrawn>>

\* cb(v) of a promise that was resolved already, before OnResolve returns.
CallInline(c) ==
    /\ entry[c] = "inline"
    /\ Call(c, value)
    /\ entry' = [entry EXCEPT ![c] = "taken"]
    /\ UNCHANGED <<value, resolvedDone, callbacks, resolverAt, cbs, order, withdrawn>>

\* cancel, from entry.mu.Lock to its return.  It clears an entry that has been
\* taken too, which changes nothing: Resolve has read entry.cb.
Cancel(c) ==
    /\ entry[c] \in {"armed", "taken", "canceled"}
    /\ entry' = [entry EXCEPT ![c] = IF @ = "armed" THEN "canceled" ELSE @]
    /\ withdrawn' = IF c \in Range(ran) THEN withdrawn ELSE withdrawn \cup {c}
    /\ UNCHANGED <<value, resolvedDone, callbacks, resolverAt, cbs, ran, got, order>>

Resolving(r) == CloseDone(r) \/ TakeEntry(r) \/ CallEntry(r) \/ ResolveReturns(r)

\* Every call has returned.
Finished ==
    /\ \A r \in Resolvers : resolverAt[r] \in {"true", "false"}
    /\ \A c \in Callbacks : entry[c] \in {"taken", "canceled"}
    /\ UNCHANGED promiseVars

PromiseNext ==
    \/ \E r \in Resolvers : Resolve(r) \/ Resolving(r)
    \/ \E c \in Callbacks : OnResolve(c) \/ CallInline(c) \/ Cancel(c)
    \/ Finished

PromiseSafety == PromiseInit /\ [][PromiseNext]_promiseVars

\* A call that has begun is run to its end by its goroutine; whether and when
\* anyone resolves, subscribes or cancels is the caller's choice.
PromiseSpec ==
    /\ PromiseSafety
    /\ \A r \in Resolvers : WF_promiseVars(Resolving(r))
    /\ \A c \in Callbacks : WF_promiseVars(CallInline(c))

(***************************************************************************)
(* Properties.                                                             *)
(***************************************************************************)

\* Every variable has its type.
PromiseTypeOK ==
    /\ value \in Resolvers \cup {NoValue}
    /\ resolvedDone \in BOOLEAN
    /\ callbacks \in Seq(Callbacks)
    /\ resolverAt \in [Resolvers -> {"idle", "closing", "firing", "calling", "true", "false"}]
    /\ cbs \in [Resolvers -> Seq(Callbacks)]
    /\ entry \in [Callbacks -> {"none", "inline", "armed", "taken", "canceled"}]
    /\ ran \in Seq(Callbacks)
    /\ got \in [Callbacks -> Resolvers \cup {NoValue}]
    /\ order \in Seq(Callbacks)
    /\ withdrawn \subseteq Callbacks

\* A callback is called at most once, whichever of Resolve and OnResolve calls
\* it, and always with the value the promise kept, never with the value of a
\* Resolve call that lost.
CalledOnceWithTheValue ==
    /\ \A i, j \in DOMAIN ran : ran[i] = ran[j] => i = j
    /\ \A i \in DOMAIN ran : resolved /\ got[ran[i]] = value

\* When Resolve returns true nothing registered is left over: Done() is closed
\* and every registered callback has been called or was canceled, although
\* OnResolve and cancel ran all the while.
ResolveSettlesAll ==
    \A r \in Resolvers : resolverAt[r] = "true" =>
        /\ value = r
        /\ resolvedDone
        /\ \A i \in DOMAIN order : order[i] \in Range(ran) \/ entry[order[i]] = "canceled"

\* What the comment on OnResolve says of its cancel function: it "prevents cb
\* from firing if it has not fired yet", so no callback that had not been called
\* when cancel returned is called later.  It does not hold: Resolve calls an entry
\* after it has unlocked it.
CancelPrevents ==
    \A i \in DOMAIN ran : ran[i] \notin withdrawn

\* A subscriber's outcome is decided when Resolve marks its entry.
Outcome(e) ==
    CASE e = "none" -> "absent"
      [] e \in {"inline", "armed"} -> "waiting"
      [] e = "taken" -> "delivered"
      [] e = "canceled" -> "withdrawn"

Promise == INSTANCE ResolveOnce WITH sub <- [c \in Callbacks |-> Outcome(entry[c])]

\* The locks, the drained list and the entry marks implement the promise that
\* ResolveOnce describes: one value, one outcome for each subscriber, and a
\* subscriber of a resolved promise is not left waiting.
ImplementsResolveOnce == Promise!Spec
============================================================================

--------------------------- MODULE HostSelection ---------------------------
(***************************************************************************)
(* Asynchronous host selection: AsyncHostSelector and ClusterLBCompletion, *)
(* with the ABI hooks that create, cancel and release a selection.  A      *)
(* worker thread runs choose_host and cancel_host_selection for its        *)
(* request, the cluster's main thread runs the scheduled completions, and  *)
(* the promise is resolved by a third party.  One action is one critical   *)
(* section or one call into Envoy.  The promise behaves as in ResolveOnce. *)
(***************************************************************************)
EXTENDS Naturals, FiniteSets

CONSTANTS
    Selections,    \* requests that select a host, each on a worker of its own
    Tokens,        \* addresses C.malloc can return for an async handle
    ReuseTokens,   \* a freed address may be returned again
    None

ASSUME SelectionAssumption ==
    /\ None \notin Selections
    /\ None \notin Tokens
    /\ ReuseTokens \in BOOLEAN

VARIABLES
    promise,    \* of each request: "absent", "pending", "resolved"
    armed,      \* requests whose OnResolve callback is registered and not called
    scheduled,  \* completions handed to ClusterHandle.Schedule
    wpc,        \* where the worker of each request is
    token,      \* the handle recorded for each request
    table,      \* clusterAsyncManager
    freed,      \* how often each request's handle was removed
    done,       \* completion.done
    finishFn,   \* completion.finishFn is set
    target,     \* the completion a cancel found behind its handle
    cleanup,    \* the finishFn its cancel() returned
    cancelled,  \* s.cancelled
    mpc,        \* where the main thread is
    completing,    \* the completion it works on
    release,    \* the finishFn that finish() returned
    answers     \* calls of async_host_selection_complete for each request

callback == <<promise, armed, scheduled>>
worker == <<wpc, token, target, cleanup>>
handles == <<table, freed>>
main == <<mpc, completing, release>>
vars == <<callback, worker, handles, done, finishFn, cancelled, main, answers>>

Init ==
    /\ promise \in [Selections -> {"absent", "pending"}]
    /\ armed = {}
    /\ scheduled = {}
    /\ wpc = [s \in Selections |-> "idle"]
    /\ token = [s \in Selections |-> None]
    /\ table = [t \in Tokens |-> None]
    /\ freed = [s \in Selections |-> 0]
    /\ done = [s \in Selections |-> FALSE]
    /\ finishFn = [s \in Selections |-> FALSE]
    /\ target = [s \in Selections |-> None]
    /\ cleanup = [s \in Selections |-> FALSE]
    /\ cancelled = {}
    /\ mpc = "idle"
    /\ completing = None
    /\ release = FALSE
    /\ answers = [s \in Selections |-> 0]

\* clusterAsyncManager.remove of the handle of s.
Remove(s) ==
    /\ table' = [table EXCEPT ![token[s]] = None]
    /\ freed' = [freed EXCEPT ![s] = @ + 1]

Free(t) ==
    /\ table[t] = None
    /\ ReuseTokens \/ \A s \in Selections : token[s] # t

(***************************************************************************)
(* The promise.                                                            *)
(***************************************************************************)

\* The body handler, or the end of the stream, resolves the promise.
Resolve(s) ==
    /\ promise[s] = "pending"
    /\ promise' = [promise EXCEPT ![s] = "resolved"]
    /\ UNCHANGED <<armed, scheduled, worker, handles, done, finishFn, cancelled, main, answers>>

FireForgets(s) ==
    /\ promise[s] = "resolved"
    /\ s \in armed
    /\ armed' = armed \ {s}
    /\ UNCHANGED <<promise, scheduled, worker, handles, done, finishFn, cancelled, main, answers>>

\* Resolve calls the registered callback, which schedules the completion.
FireCallback(s) ==
    /\ promise[s] = "resolved"
    /\ s \in armed
    /\ armed' = armed \ {s}
    /\ scheduled' = scheduled \cup {s}
    /\ UNCHANGED <<promise, worker, handles, done, finishFn, cancelled, main, answers>>

(***************************************************************************)
(* The worker thread: choose_host.                                         *)
(***************************************************************************)

\* AsyncHostSelector.ChooseHost: without a promise the selection fails at once;
\* OnResolve registers the callback or, on a resolved promise, calls it.
ChooseHost(s) ==
    /\ wpc[s] = "idle"
    /\ \/ /\ promise[s] = "absent"
          /\ wpc' = [wpc EXCEPT ![s] = "failed"]
          /\ UNCHANGED <<armed, scheduled>>
       \/ /\ promise[s] = "pending"
          /\ armed' = armed \cup {s}
          /\ wpc' = [wpc EXCEPT ![s] = "record"]
          /\ UNCHANGED scheduled
       \/ /\ promise[s] = "resolved"
          /\ scheduled' = scheduled \cup {s}
          /\ wpc' = [wpc EXCEPT ![s] = "record"]
          /\ UNCHANGED armed
    /\ UNCHANGED <<promise, token, target, cleanup, handles, done, finishFn, cancelled, main, answers>>

\* clusterAsyncManager.record of the wrapper around the completion.
RecordHandle(s) ==
    /\ wpc[s] = "record"
    /\ \E t \in Tokens :
          /\ Free(t)
          /\ token' = [token EXCEPT ![s] = t]
          /\ table' = [table EXCEPT ![t] = s]
    /\ wpc' = [wpc EXCEPT ![s] = "finishFn"]
    /\ UNCHANGED <<callback, target, cleanup, freed, done, finishFn, cancelled, main, answers>>

SetFinishFnUnchecked(s) ==
    /\ wpc[s] = "finishFn"
    /\ finishFn' = [finishFn EXCEPT ![s] = TRUE]
    /\ wpc' = [wpc EXCEPT ![s] = "returned"]
    /\ UNCHANGED <<callback, token, target, cleanup, handles, done, cancelled, main, answers>>

\* SetFinishFn, then the return of choose_host: a completion that is done
\* already releases the handle here.
SetFinishFn(s) ==
    /\ wpc[s] = "finishFn"
    /\ \/ /\ done[s]
          /\ Remove(s)
          /\ UNCHANGED finishFn
       \/ /\ ~done[s]
          /\ finishFn' = [finishFn EXCEPT ![s] = TRUE]
          /\ UNCHANGED <<table, freed>>
    /\ wpc' = [wpc EXCEPT ![s] = "returned"]
    /\ UNCHANGED <<callback, token, target, cleanup, done, cancelled, main, answers>>

(***************************************************************************)
(* The worker thread: cancel_host_selection.                               *)
(***************************************************************************)

\* Envoy destroys a stream whose selection it has not seen answered.
CancelHostSelection(s) ==
    /\ wpc[s] = "returned"
    /\ answers[s] = 0
    /\ wpc' = [wpc EXCEPT ![s] = "unwrap"]
    /\ UNCHANGED <<callback, token, target, cleanup, handles, done, finishFn, cancelled, main, answers>>

UnwrapHandle(s) ==
    /\ wpc[s] = "unwrap"
    /\ \/ /\ table[token[s]] = None
          /\ wpc' = [wpc EXCEPT ![s] = "cancelled"]
          /\ UNCHANGED target
       \/ /\ table[token[s]] # None
          /\ target' = [target EXCEPT ![s] = table[token[s]]]
          /\ wpc' = [wpc EXCEPT ![s] = "guard"]
    /\ UNCHANGED <<callback, token, cleanup, handles, done, finishFn, cancelled, main, answers>>

\* The critical section of completion.Cancel: only the first terminal action wins.
CancelGuard(s) ==
    /\ wpc[s] = "guard"
    /\ \/ /\ done[target[s]]
          /\ wpc' = [wpc EXCEPT ![s] = "cancelled"]
          /\ UNCHANGED <<done, cleanup>>
       \/ /\ ~done[target[s]]
          /\ done' = [done EXCEPT ![target[s]] = TRUE]
          /\ cleanup' = [cleanup EXCEPT ![s] = finishFn[target[s]]]
          /\ wpc' = [wpc EXCEPT ![s] = "cleanup"]
    /\ UNCHANGED <<callback, token, target, handles, finishFn, cancelled, main, answers>>

\* finishFn() of completion.Cancel.
CancelCleanup(s) ==
    /\ wpc[s] = "cleanup"
    /\ IF cleanup[s] THEN Remove(target[s]) ELSE UNCHANGED <<table, freed>>
    /\ wpc' = [wpc EXCEPT ![s] = "selector"]
    /\ UNCHANGED <<callback, token, target, cleanup, done, finishFn, cancelled, main, answers>>

\* AsyncHostSelector.Cancel, then the return of cancel_host_selection.
SelectorCancel(s) ==
    /\ wpc[s] = "selector"
    /\ cancelled' = cancelled \cup {target[s]}
    /\ wpc' = [wpc EXCEPT ![s] = "cancelled"]
    /\ UNCHANGED <<callback, token, target, cleanup, handles, done, finishFn, main, answers>>

(***************************************************************************)
(* The main thread: AsyncHostSelector.complete, as scheduled.              *)
(***************************************************************************)

\* runPending, up to the cancelled-check.
Complete(s) ==
    /\ mpc = "idle"
    /\ s \in scheduled
    /\ scheduled' = scheduled \ {s}
    /\ \/ /\ s \in cancelled
          /\ cancelled' = cancelled \ {s}
          /\ UNCHANGED main
       \/ /\ s \notin cancelled
          /\ mpc' = "finish"
          /\ completing' = s
          /\ UNCHANGED <<cancelled, release>>
    /\ UNCHANGED <<promise, armed, worker, handles, done, finishFn, answers>>

FinishUnguarded ==
    /\ mpc = "finish"
    /\ done' = [done EXCEPT ![completing] = TRUE]
    /\ release' = finishFn[completing]
    /\ mpc' = "answer"
    /\ UNCHANGED <<callback, worker, handles, finishFn, cancelled, completing, answers>>

\* lookup, then the critical section of completion.Complete.
Finish ==
    /\ mpc = "finish"
    /\ \/ /\ done[completing]
          /\ mpc' = "idle"
          /\ UNCHANGED <<done, release>>
       \/ /\ ~done[completing]
          /\ done' = [done EXCEPT ![completing] = TRUE]
          /\ release' = finishFn[completing]
          /\ mpc' = "answer"
    /\ UNCHANGED <<callback, worker, handles, finishFn, cancelled, completing, answers>>

\* completeFn: a host or an error reaches Envoy.
Answer ==
    /\ mpc = "answer"
    /\ answers' = [answers EXCEPT ![completing] = @ + 1]
    /\ mpc' = "release"
    /\ UNCHANGED <<callback, worker, handles, done, finishFn, cancelled, completing, release>>

\* finishFn() of completion.Complete.
Release ==
    /\ mpc = "release"
    /\ IF release THEN Remove(completing) ELSE UNCHANGED <<table, freed>>
    /\ mpc' = "idle"
    /\ UNCHANGED <<callback, worker, done, finishFn, cancelled, completing, release, answers>>

WorkerStep(s) ==
    \/ RecordHandle(s) \/ SetFinishFn(s)
    \/ UnwrapHandle(s) \/ CancelGuard(s) \/ CancelCleanup(s) \/ SelectorCancel(s)

MainStep == (\E s \in Selections : Complete(s)) \/ Finish \/ Answer \/ Release

\* Nothing is running or scheduled.
Quiescent ==
    /\ mpc = "idle"
    /\ scheduled = {}
    /\ \A s \in Selections : wpc[s] \in {"failed", "returned", "cancelled"}
    /\ \A s \in armed : promise[s] = "pending"

Finished ==
    /\ Quiescent
    /\ \A s \in Selections : wpc[s] = "returned" => answers[s] > 0
    /\ UNCHANGED vars

Next ==
    \/ \E s \in Selections :
          \/ Resolve(s) \/ FireCallback(s)
          \/ ChooseHost(s) \/ CancelHostSelection(s) \/ WorkerStep(s)
    \/ MainStep
    \/ Finished

Safety == Init /\ [][Next]_vars

\* Workers finish the hook they are in, the resolver finishes its Resolve call
\* and the main thread runs what is scheduled, each completion in its turn.
\* Nobody has to resolve a promise or to cancel a selection.
Spec ==
    /\ Safety
    /\ \A s \in Selections : WF_vars(WorkerStep(s)) /\ WF_vars(FireCallback(s))
    /\ \A s \in Selections : SF_vars(Complete(s))
    /\ WF_vars(Finish \/ Answer \/ Release)

(***************************************************************************)
(* Properties.                                                             *)
(***************************************************************************)

\* Every variable has its type.
TypeOK ==
    /\ promise \in [Selections -> {"absent", "pending", "resolved"}]
    /\ armed \subseteq Selections
    /\ scheduled \subseteq Selections
    /\ wpc \in [Selections -> {"idle", "record", "finishFn", "returned", "unwrap", "guard",
                               "cleanup", "selector", "cancelled", "failed"}]
    /\ token \in [Selections -> Tokens \cup {None}]
    /\ target \in [Selections -> Selections \cup {None}]
    /\ cleanup \in [Selections -> BOOLEAN]
    /\ table \in [Tokens -> Selections \cup {None}]
    /\ freed \in [Selections -> Nat]
    /\ done \in [Selections -> BOOLEAN]
    /\ finishFn \in [Selections -> BOOLEAN]
    /\ cancelled \subseteq Selections
    /\ mpc \in {"idle", "finish", "answer", "release"}
    /\ completing \in Selections \cup {None}
    /\ release \in BOOLEAN
    /\ answers \in [Selections -> Nat]

\* Envoy is answered at most once for a selection, and a handle is freed at most
\* once, although complete on the main thread, Cancel on the worker and
\* SetFinishFn race for both.
SettledOnce ==
    \A s \in Selections : answers[s] <= 1 /\ freed[s] <= 1

\* No handle leaks: when nothing runs any more, exactly the selections that Envoy
\* still waits for are in clusterAsyncManager.
HandlesReleased ==
    Quiescent =>
        \A s \in Selections :
            wpc[s] # "failed" => (freed[s] = 0 <=> (answers[s] = 0 /\ wpc[s] = "returned"))

\* A selection that Envoy did not cancel is not given up: once its completion is
\* terminal, complete has answered Envoy or is about to (the ABI asks for exactly one
\* answer for each handle unless that handle was cancelled).
AnsweredUnlessCancelled ==
    \A s \in Selections :
        done[s] => \/ answers[s] = 1
                   \/ wpc[s] \in {"cleanup", "selector", "cancelled"}
                   \/ completing = s /\ mpc = "answer"

\* A request whose promise is resolved after choose_host registered it gets its
\* answer, unless Envoy cancels it.
SelectionCompletes ==
    \A s \in Selections :
        (promise[s] = "resolved" /\ wpc[s] \notin {"idle", "failed"})
            ~> (answers[s] = 1 \/ wpc[s] = "cancelled")

\* What the ABI header says of cancel_host_selection: "After this call, the module
\* must not call" async_host_selection_complete for this handle.
NoAnswerAfterCancel ==
    [][\A s \in Selections : wpc[s] = "cancelled" => answers'[s] = answers[s]]_vars

\* What the ABI header says of an asynchronous selection: choose_host returns the
\* handle and the module "must later call" async_host_selection_complete.  It does
\* not hold: a promise resolved early is answered while choose_host still runs.
AnswerAfterReturn ==
    \A s \in Selections : answers[s] > 0 => wpc[s] \notin {"record", "finishFn"}

\* What the comment on complete says: it and Cancel do not race.  So once the
\* scheduled completion of a selection has run, no mark of Cancel is left for it.
\* It does not hold: Cancel can fall between the cancelled-check and Complete.
CancelledMarksConsumed ==
    Quiescent => \A s \in cancelled : promise[s] = "pending"
============================================================================

---------------------------- MODULE AsyncRouter ----------------------------
(***************************************************************************)
(* The cluster-async-router example: the request's body names its          *)
(* upstream, but Envoy asks for a host before the body is there.  The      *)
(* header handler registers a Pending under a token, ChooseHost looks it   *)
(* up and parks a goroutine on it, the body handler resolves it, and the   *)
(* goroutine completes the selection on the main thread.                   *)
(*                                                                         *)
(* Workers, goroutines and the main thread interleave; one action is one   *)
(* handler, one critical section or one scheduled closure.  A completion   *)
(* is <<request, attempt>>: a retry selects again.  What Complete and      *)
(* Cancel do with the ABI handle is HostSelection's subject.               *)
(***************************************************************************)
EXTENDS Naturals, Sequences

CONSTANTS
    Requests,
    Configs,       \* cluster configs, sequences of [name, address]
    Targets,       \* what a body may name as its target, "" for no target
    MaxAttempts,   \* bound on the selections of a request
    Nobody         \* no result, no host, no token

VARIABLES
    byName,      \* cluster.byName
    tokenSeq,    \* the last token minted
    tok,         \* the token in the filter state of each request
    registry,    \* tokens with a Pending
    result,      \* Pending.res of each request
    alive,       \* requests whose stream is not over
    attempts,    \* selections of each request so far
    waiters,     \* lb.waiters
    parked,      \* where the goroutine of each completion is
    closures,    \* completions scheduled, with the host or the error they carry
    cancelled,   \* completions Envoy has cancelled
    answer       \* what completion.Complete has told Envoy

routerVars == <<byName, tokenSeq, tok, registry, result, alive, attempts, waiters, parked,
                closures, cancelled, answer>>
cluster == <<waiters, parked, closures, cancelled, answer>>

Completions == Requests \X (1 .. MaxAttempts)

-----------------------------------------------------------------------------
(* The cluster.                                                             *)

\* factory.Create: at least one host, each with a name and an address.
Create(hosts) ==
    /\ hosts # <<>>
    /\ \A i \in DOMAIN hosts : hosts[i].name # "" /\ hosts[i].address # ""

\* resolveHostAddr: a name becomes an IP if DNS knows it; anything else stays as it
\* is, an address without a port included.
resolveHostAddr(address) == IF address = "dns:port" THEN "ip:port" ELSE address

\* The hosts for which AddHosts returns one; Envoy takes numeric addresses only.
Added(hosts) == {i \in DOMAIN hosts : resolveHostAddr(hosts[i].address) = "ip:port"}

\* cluster.Init: the last host of a name has it.
ClusterInitByName(hosts) ==
    [n \in {hosts[i].name : i \in Added(hosts)} |->
        CHOOSE i \in Added(hosts) : /\ hosts[i].name = n
                                    /\ \A j \in Added(hosts) : hosts[j].name = n => j <= i]

RouterInit ==
    /\ \E hosts \in Configs : Create(hosts) /\ byName = ClusterInitByName(hosts)
    /\ tokenSeq = 0
    /\ tok = [r \in Requests |-> 0]
    /\ registry = {}
    /\ result = [r \in Requests |-> Nobody]
    /\ alive = Requests
    /\ attempts = [r \in Requests |-> 0]
    /\ waiters = {}
    /\ parked = [c \in Completions |-> "no"]
    /\ closures = {}
    /\ cancelled = {}
    /\ answer = [c \in Completions |-> Nobody]

-----------------------------------------------------------------------------
(* The filter.                                                              *)

\* requestHandler: mintToken, Register, SetFilterState.
requestHandler(r) ==
    /\ r \in alive /\ tok[r] = 0
    /\ tokenSeq' = tokenSeq + 1
    /\ tok' = [tok EXCEPT ![r] = tokenSeq + 1]
    /\ registry' = registry \cup {tokenSeq + 1}
    /\ UNCHANGED <<byName, result, alive, attempts, cluster>>

\* ExtractTarget: <<"", name>>, or an error for a body without a target.
ExtractTarget(target) ==
    IF target = "" THEN [err |-> "missing target", upstream |-> ""]
    ELSE [err |-> "", upstream |-> target]

\* bodyHandler, at the end of the body; the first Resolve wins.  A body that ends
\* with trailers never gets here.
bodyHandler(r, target) ==
    /\ r \in alive /\ tok[r] # 0 /\ result[r] = Nobody
    /\ result' = [result EXCEPT ![r] = ExtractTarget(target)]
    /\ UNCHANGED <<byName, tokenSeq, tok, registry, alive, attempts, cluster>>

\* The stream ends.  Nothing resolves a Pending then, or deletes it.
RouterStreamEnds(r) ==
    /\ r \in alive /\ tok[r] # 0
    /\ \A n \in 1 .. attempts[r] :
         answer[<<r, n>>] # Nobody \/ <<r, n>> \in cancelled \/ parked[<<r, n>>] = "no"
    /\ alive' = alive \ {r}
    /\ UNCHANGED <<byName, tokenSeq, tok, registry, result, attempts, cluster>>

-----------------------------------------------------------------------------
(* The load balancer.                                                       *)

\* lb.ChooseHost: fails without a Pending, as a retry does whose predecessor has
\* deleted it.
ChooseHost(r) ==
    LET c == <<r, attempts[r] + 1>> IN
    /\ r \in alive /\ tok[r] # 0 /\ attempts[r] < MaxAttempts
    /\ attempts[r] > 0 => answer[<<r, attempts[r]>>] # Nobody
    /\ attempts' = [attempts EXCEPT ![r] = @ + 1]
    /\ \/ /\ tok[r] \notin registry
          /\ UNCHANGED cluster
       \/ /\ tok[r] \in registry
          /\ waiters' = waiters \cup {c}
          /\ parked' = [parked EXCEPT ![c] = "waiting"]
          /\ UNCHANGED <<closures, cancelled, answer>>
    /\ UNCHANGED <<byName, tokenSeq, tok, registry, result, alive>>

\* waitAndComplete: <-p.Done(), then Delete(token).
DoneWaiting(c) ==
    /\ parked[c] = "waiting" /\ result[c[1]] # Nobody
    /\ registry' = registry \ {tok[c[1]]}
    /\ parked' = [parked EXCEPT ![c] = "resolved"]
    /\ UNCHANGED <<byName, tokenSeq, tok, result, alive, attempts, waiters, closures,
                   cancelled, answer>>

\* What a resolved Pending means for Envoy.
HostOf(res) ==
    IF res.err # "" THEN [host |-> Nobody, err |-> res.err]
    ELSE IF res.upstream \notin DOMAIN byName THEN [host |-> Nobody, err |-> "unknown_upstream"]
    ELSE [host |-> byName[res.upstream], err |-> ""]

\* The critical section on waiters, then Schedule, unless Envoy has cancelled.
ScheduleCompletion(c) ==
    /\ parked[c] = "resolved"
    /\ parked' = [parked EXCEPT ![c] = "over"]
    /\ waiters' = waiters \ {c}
    /\ closures' = IF c \in waiters THEN closures \cup {<<c, HostOf(result[c[1]])>>}
                   ELSE closures
    /\ UNCHANGED <<byName, tokenSeq, tok, registry, result, alive, attempts, cancelled, answer>>

\* The closure, on the main thread; Complete does nothing on a cancelled completion.
RunClosure(f) ==
    /\ f \in closures
    /\ closures' = closures \ {f}
    /\ answer' = IF f[1] \in cancelled THEN answer ELSE [answer EXCEPT ![f[1]] = f[2]]
    /\ UNCHANGED <<byName, tokenSeq, tok, registry, result, alive, attempts, waiters, parked,
                   cancelled>>

\* Envoy gives up on a selection: completion.Cancel, then lb.CancelHostSelection.
RouterCancel(c) ==
    /\ parked[c] # "no" /\ answer[c] = Nobody /\ c \notin cancelled
    /\ cancelled' = cancelled \cup {c}
    /\ waiters' = waiters \ {c}
    /\ UNCHANGED <<byName, tokenSeq, tok, registry, result, alive, attempts, parked, closures,
                   answer>>

GoroutineSteps(c) == DoneWaiting(c) \/ ScheduleCompletion(c)

\* No stream is left and nothing runs; a goroutine whose Pending was never resolved
\* is parked for ever.
RouterOver ==
    /\ alive = {} /\ closures = {}
    /\ \A c \in Completions : parked[c] \in {"no", "over"} \/ result[c[1]] = Nobody
    /\ UNCHANGED routerVars

RouterNext ==
    \/ \E r \in Requests : \/ requestHandler(r) \/ ChooseHost(r) \/ RouterStreamEnds(r)
                           \/ \E t \in Targets : bodyHandler(r, t)
    \/ \E c \in Completions : GoroutineSteps(c) \/ RouterCancel(c)
    \/ \E f \in closures : RunClosure(f)
    \/ RouterOver

\* Goroutines run and the main thread runs what is scheduled; no client has to send
\* a body, and Envoy does not have to cancel.
RouterSpec ==
    /\ RouterInit /\ [][RouterNext]_routerVars
    /\ \A c \in Completions : WF_routerVars(GoroutineSteps(c))
    /\ WF_routerVars(\E f \in closures : RunClosure(f))

-----------------------------------------------------------------------------
(* Properties.                                                              *)

\* A selection that found its Pending, and whose body names a target, is answered:
\* with the host its own body names, or with an error when the body or the cluster
\* has none, unless Envoy cancels it.
OwnTargetAnswered ==
    \A c \in Completions :
        (parked[c] # "no" /\ result[c[1]] # Nobody)
            ~> (c \in cancelled \/ (answer[c] # Nobody /\ answer[c] = HostOf(result[c[1]])))

\* Nothing is left of a request when its stream is over: no Pending, no goroutine.
\* It does not hold: only a goroutine deletes a Pending, and only once the body
\* handler has resolved it.
NothingRegistered ==
    \A r \in Requests :
        (r \notin alive /\ \A n \in 1 .. MaxAttempts : parked[<<r, n>>] \in {"no", "over"})
            => tok[r] \notin registry
=============================================================================

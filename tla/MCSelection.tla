---------------------------- MODULE MCSelection ----------------------------
(***************************************************************************)
(* Host selection, for TLC: the library's asynchronous one (HostSelection),*)
(* the one the cluster-async-router example makes by hand (AsyncRouter),   *)
(* and the examples that choose at once (HostPolicies).  They share        *)
(* nothing, so each behaviour is one of one of them; the others stay as    *)
(* they began.                                                             *)
(***************************************************************************)
EXTENDS HostSelection, Sequences

CONSTANTS
    Requests, Configs, Targets, MaxAttempts,
    PolicyKinds, HostConfigs, Clients, Wants, Numeric, ResolvesTo, Hash, MaxTries, MaxChanges

VARIABLES
    part,
    \* AsyncRouter
    byName, tokenSeq, tok, registry, result, alive, attempts, waiters, parked, closures,
    routerCancelled, answer,
    \* HostPolicies
    kind, specs, hosts, byWant, ptrs, healthy, active, changes, phase, want, failed, tried,
    readings, sent

Router == INSTANCE AsyncRouter WITH cancelled <- routerCancelled, Nobody <- None

routerVars == <<byName, tokenSeq, tok, registry, result, alive, attempts, waiters, parked,
                closures, routerCancelled, answer>>

Policy == INSTANCE HostPolicies WITH table <- byWant

policyVars == <<kind, specs, hosts, byWant, ptrs, healthy, active, changes, phase, want, failed,
                tried, readings, sent>>

\* Two hosts of one name, one DNS does not know, and configs Create refuses.
MCConfigs ==
    {<<[name |-> "a", address |-> "ip:port"], [name |-> "a", address |-> "dns:port"],
       [name |-> "b", address |-> "unknown:port"]>>,
     <<>>, <<[name |-> "a", address |-> ""]>>}

\* Hosts that serve a and b, one found by DNS beside one that is not, and configs
\* Create refuses.
MCHostConfigs ==
    {<<[address |-> "ip1", model |-> "a"], [address |-> "ip2", model |-> "b"]>>,
     <<[address |-> "name", model |-> "b"], [address |-> "gone", model |-> "a"]>>,
     <<[address |-> "ip1", model |-> ""]>>, <<>>}
MCResolvesTo == [ip1 |-> "ip1", ip2 |-> "ip2", name |-> "ip2"]
MCHash == [b |-> 5, ip2 |-> 2]

\* A part that is not run starts in one state.
MCInit ==
    /\ part \in {"selector", "router", "policy"}
    /\ Init /\ Router!RouterInit /\ Policy!PolicyInit
    /\ part # "selector" => promise = [s \in Selections |-> "absent"]
    /\ part # "policy" => kind = "static" /\ Len(specs) = 2 /\ specs[1].address = "ip1"

MCNext ==
    \/ part = "selector" /\ Next /\ UNCHANGED <<part, routerVars, policyVars>>
    \/ part = "router" /\ Router!RouterNext /\ UNCHANGED <<part, vars, policyVars>>
    \/ part = "policy" /\ Policy!PolicyNext /\ UNCHANGED <<part, vars, routerVars>>

\* The fairness of Spec, Router!RouterSpec and Policy!PolicySpec.
MCSpec ==
    /\ MCInit /\ [][MCNext]_<<part, vars, routerVars, policyVars>>
    /\ \A s \in Selections : /\ WF_vars(part = "selector" /\ WorkerStep(s))
                             /\ WF_vars(part = "selector" /\ FireCallback(s))
                             /\ SF_vars(part = "selector" /\ Complete(s))
    /\ WF_vars(part = "selector" /\ (Finish \/ Answer \/ Release))
    /\ \A c \in Router!Completions : WF_routerVars(part = "router" /\ Router!GoroutineSteps(c))
    /\ WF_routerVars(part = "router" /\ \E f \in closures : Router!RunClosure(f))
    /\ \A c \in Clients : WF_policyVars(part = "policy" /\ Policy!RequestSteps(c))

\* A selection whose decision is there is answered, unless Envoy cancels it: the
\* library's with an answer, the example's with the host its own body names.  Where
\* ChooseHost answers at once, every attempt of a request goes to a host its policy
\* promises.
SelectionAnswered ==
    /\ part = "selector" => SelectionCompletes
    /\ part = "router" => Router!OwnTargetAnswered
    /\ part = "policy" => Policy!RequestsPlaced
=============================================================================

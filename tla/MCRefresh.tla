----------------------------- MODULE MCRefresh -----------------------------
(***************************************************************************)
(* The helpers with goroutines of their own, for TLC: the host refresh     *)
(* loop and the promise.  They share nothing, so each behaviour is one of  *)
(* one of them; the other stays as it began.                               *)
(***************************************************************************)
EXTENDS HostRefreshLoop, StreamPromise

VARIABLES
    part

allVars == <<part, vars, promiseVars>>

MCInit == part \in {"refresh", "promise"} /\ Init /\ PromiseInit

\* The loop is stopped, and nothing is left of it.
Stopped == spc = "stopped" /\ UNCHANGED vars

MCNext ==
    \/ /\ part = "refresh" /\ (Next \/ Stopped)
       /\ UNCHANGED <<part, promiseVars>>
    \/ /\ part = "promise" /\ PromiseNext
       /\ UNCHANGED <<part, vars>>

\* The fairness of Spec and of PromiseSpec.
MCFairness ==
    /\ WF_vars(part = "refresh" /\ Ticker) /\ SF_vars(part = "refresh" /\ TickerExits)
    /\ SF_vars(part = "refresh" /\ TickerFetches)
    /\ SF_vars(part = "refresh" /\ TickerCoalesces)
    /\ SF_vars(part = "refresh" /\ TickerSchedules)
    /\ WF_vars(part = "refresh" /\ Main)
    /\ WF_vars(part = "refresh" /\ Stop) /\ SF_vars(part = "refresh" /\ StopCloses)
    /\ \A r \in Resolvers : WF_promiseVars(part = "promise" /\ Resolving(r))
    /\ \A c \in Callbacks : WF_promiseVars(part = "promise" /\ CallInline(c))

MCSpec == MCInit /\ [][MCNext]_allVars /\ MCFairness

-----------------------------------------------------------------------------
(* Properties, of the part that runs.                                       *)

\* The host set catches up with its source, unless the loop is stopped.
RefreshCatchesUp == part = "refresh" => CatchesUp
============================================================================

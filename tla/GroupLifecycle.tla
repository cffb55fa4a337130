--------------------------- MODULE GroupLifecycle ---------------------------
(***************************************************************************)
(* up/group.go and up/sidecar.go under a filter registered with WithGroup  *)
(* or WithSidecar: background goroutines that start when Envoy loads a      *)
(* filter config and stop when it destroys the filter factory.             *)
(*                                                                         *)
(* The Group belongs to the registration, so every config loaded under the *)
(* filter's name starts and stops the same one: the model has one Group    *)
(* and a set of factories.  A group holds either one Sidecar (WithSidecar, *)
(* WithAdminServer) or goroutines (AddGoroutine).  A run is one goroutine  *)
(* that Start launched; the run of a Sidecar owns a listener on the port.  *)
(* Stop is called by OnDestroy of a factory and by the watcher goroutine   *)
(* of a Start, the callers below.                                          *)
(***************************************************************************)
EXTENDS FiniteSets

CONSTANTS
    Factories,   \* the filter configs Envoy loads under the name, each once
    Goroutines,  \* the actors of a group made with AddGoroutine
    Free,        \* nobody listens on the sidecar's port
    Other        \* another process does

Sidecar == "sidecar"
StopCallers == Factories \X {"OnDestroy", "watcher"}

VARIABLES
    actors,      \* the group's actors: {Sidecar} or Goroutines
    factory,     \* per factory: none, refused, live, destroying or gone
    run,         \* per factory and actor: the goroutine its Start launched
    cancelled,   \* the group's context
    once,        \* sync.Once of Stop: new, running or done
    stopper,     \* per caller of Stop: where it is
    started,     \* Sidecar.started is closed
    server,      \* the run that set Sidecar.srv and ln last, or Free
    shut,        \* the runs whose http.Server was shut down
    port,        \* who listens on the sidecar's address
    ownExit      \* an actor ended for a reason outside the group

groupVars == <<actors, factory, run, cancelled, once, stopper, started, server,
               shut, port, ownExit>>
stopState == <<cancelled, once, stopper>>
sidecarState == <<started, server, shut, port>>

Runs == Factories \X ({Sidecar} \cup Goroutines)

\* The sidecar is not a goroutine of AddGoroutine; nobody and another process
\* are two, and neither is a run.
ASSUME GroupAssumption ==
    /\ Sidecar \notin Goroutines
    /\ {Free, Other} \cap Runs = {} /\ Free # Other

Alive(r) == run[r] \in {"begun", "bound", "serving"}

GroupInit ==
    /\ actors \in {{Sidecar}, Goroutines}
    /\ factory = [f \in Factories |-> "none"]
    /\ run = [r \in Runs |-> "none"]
    /\ cancelled = FALSE /\ once = "new"
    /\ stopper = [c \in StopCallers |-> "none"]
    /\ started = FALSE /\ server = Free /\ shut = {}
    /\ port \in IF actors = {Sidecar} THEN {Free, Other} ELSE {Free}
    /\ ownExit = FALSE

-----------------------------------------------------------------------------
(* Envoy's main thread, which is busy while an OnDestroy runs.              *)

MainFree == \A f \in Factories : factory[f] # "destroying"

\* Group.Start: one goroutine per actor, and the watcher.
GroupStart(f) ==
    /\ run' = [r \in Runs |-> IF r[1] = f /\ r[2] \in actors THEN "begun" ELSE run[r]]
    /\ stopper' = [stopper EXCEPT ![<<f, "watcher">>] = "waiting"]

\* configFactory.Create: the config callback refuses the config, or the group
\* starts and the factory holds its Stop.
Create(f) ==
    /\ MainFree
    /\ factory[f] = "none"
    /\ \/ /\ factory' = [factory EXCEPT ![f] = "refused"]
          /\ UNCHANGED <<run, stopper>>
       \/ /\ factory' = [factory EXCEPT ![f] = "live"]
          /\ GroupStart(f)
    /\ UNCHANGED <<actors, cancelled, once, sidecarState, ownExit>>

\* filterFactory.OnDestroy calls Stop.
OnDestroy(f) ==
    /\ MainFree
    /\ factory[f] = "live"
    /\ factory' = [factory EXCEPT ![f] = "destroying"]
    /\ stopper' = [stopper EXCEPT ![<<f, "OnDestroy">>] = "enter"]
    /\ UNCHANGED <<actors, run, cancelled, once, sidecarState, ownExit>>

OnDestroyReturns(f) ==
    /\ factory[f] = "destroying"
    /\ stopper[<<f, "OnDestroy">>] = "returned"
    /\ factory' = [factory EXCEPT ![f] = "gone"]
    /\ UNCHANGED <<actors, run, stopState, sidecarState, ownExit>>

-----------------------------------------------------------------------------
(* Group.Stop.                                                              *)

\* Stop guarded by a flag: a later caller does not wait for the first.
EnterStopFlag(c) ==
    /\ stopper[c] = "enter"
    /\ \/ /\ once = "new"
          /\ once' = "running"
          /\ cancelled' = TRUE
          /\ stopper' = [stopper EXCEPT ![c] = "stopping"]
       \/ /\ once # "new"
          /\ stopper' = [stopper EXCEPT ![c] = "returned"]
          /\ UNCHANGED <<cancelled, once>>
    /\ UNCHANGED <<actors, factory, run, sidecarState, ownExit>>

\* once.Do: the first caller cancels the context, a later one waits for the
\* first to finish, one after that returns at once.
EnterStop(c) ==
    /\ stopper[c] = "enter"
    /\ \/ /\ once = "new"
          /\ once' = "running"
          /\ cancelled' = TRUE
          /\ stopper' = [stopper EXCEPT ![c] = "stopping"]
       \/ /\ once = "done"
          /\ stopper' = [stopper EXCEPT ![c] = "returned"]
          /\ UNCHANGED <<cancelled, once>>
    /\ UNCHANGED <<actors, factory, run, sidecarState, ownExit>>

\* Sidecar.stop: wait until started is closed, shut the server down, close the
\* listener.  Shutdown gives up after its timeout, so it always returns.
SidecarStop ==
    /\ started
    /\ shut' = shut \cup ({server} \ {Free})
    /\ port' = IF port = server THEN Free ELSE port
    /\ UNCHANGED <<started, server>>

\* The stop function of every actor; that of a goroutine does nothing.
StopActors(c) ==
    /\ stopper[c] = "stopping"
    /\ IF Sidecar \in actors THEN SidecarStop ELSE UNCHANGED sidecarState
    /\ stopper' = [stopper EXCEPT ![c] = "joining"]
    /\ UNCHANGED <<actors, factory, run, cancelled, once, ownExit>>

\* wg.Wait, the end of once.Do.
GroupStopReturns(c) ==
    /\ stopper[c] = "joining"
    /\ \A r \in Runs : ~Alive(r)
    /\ once' = "done"
    /\ stopper' = [stopper EXCEPT ![c] = "returned"]
    /\ UNCHANGED <<actors, factory, run, cancelled, sidecarState, ownExit>>

\* The watcher of a Start: an actor of it ended, for any reason.
Watch(f) ==
    /\ stopper[<<f, "watcher">>] = "waiting"
    /\ \E a \in actors : run[<<f, a>>] = "over"
    /\ stopper' = [stopper EXCEPT ![<<f, "watcher">>] = "enter"]
    /\ UNCHANGED <<actors, factory, run, cancelled, once, sidecarState, ownExit>>

-----------------------------------------------------------------------------
(* The actors.                                                              *)

Ends(r) == run' = [run EXCEPT ![r] = "over"]

\* Sidecar.execute: net.Listen succeeds, ln and srv are set.
Listen(f) ==
    /\ run[<<f, Sidecar>>] = "begun"
    /\ port = Free
    /\ port' = <<f, Sidecar>> /\ server' = <<f, Sidecar>>
    /\ run' = [run EXCEPT ![<<f, Sidecar>>] = "bound"]
    /\ UNCHANGED <<actors, factory, stopState, started, shut, ownExit>>

\* net.Listen fails: started is closed and execute returns.  Closing it a second
\* time panics, which the group recovers: the run ends either way.
ListenFails(f) ==
    /\ run[<<f, Sidecar>>] = "begun"
    /\ port # Free
    /\ started' = TRUE
    /\ Ends(<<f, Sidecar>>)
    /\ ownExit' = (ownExit \/ port = Other)
    /\ UNCHANGED <<actors, factory, stopState, server, shut, port>>

\* close(ready), close(started) and Serve.  When an earlier run closed started
\* the run panics, and its listener stays open.
Serve(f) ==
    /\ run[<<f, Sidecar>>] = "bound"
    /\ IF started THEN Ends(<<f, Sidecar>>)
                  ELSE run' = [run EXCEPT ![<<f, Sidecar>>] = "serving"]
    /\ started' = TRUE
    /\ UNCHANGED <<actors, factory, stopState, server, shut, port, ownExit>>

\* Serve returns once the server was shut down, its listener closed.
ServeReturns(f) ==
    /\ run[<<f, Sidecar>>] = "serving"
    /\ <<f, Sidecar>> \in shut
    /\ Ends(<<f, Sidecar>>)
    /\ port' = IF port = <<f, Sidecar>> THEN Free ELSE port
    /\ UNCHANGED <<actors, factory, stopState, started, server, shut, ownExit>>

\* A goroutine sees its context cancelled, or returns on its own.
GoroutineReturns(r) ==
    /\ r[2] \in Goroutines
    /\ run[r] = "begun"
    /\ Ends(r)
    /\ ownExit' = (ownExit \/ ~cancelled)
    /\ UNCHANGED <<actors, factory, stopState, sidecarState>>

-----------------------------------------------------------------------------
\* Every config was refused or is destroyed, and no goroutine is left.
GroupOver ==
    /\ \A f \in Factories : factory[f] \in {"refused", "gone"}
    /\ \A r \in Runs : ~Alive(r)
    /\ UNCHANGED groupVars

GroupNext ==
    \/ \E f \in Factories : \/ Create(f) \/ OnDestroy(f) \/ OnDestroyReturns(f)
                            \/ Watch(f)
                            \/ Listen(f) \/ ListenFails(f)
                            \/ Serve(f) \/ ServeReturns(f)
    \/ \E c \in StopCallers : EnterStop(c) \/ StopActors(c) \/ GroupStopReturns(c)
    \/ \E r \in Runs : GoroutineReturns(r)
    \/ GroupOver

\* What a goroutine that can go on does.  An actor that must end does: a
\* goroutine whose context is cancelled, a Sidecar at every point.
GroupProgress ==
    \/ \E f \in Factories : \/ OnDestroyReturns(f) \/ Watch(f)
                            \/ Listen(f) \/ ListenFails(f)
                            \/ Serve(f) \/ ServeReturns(f)
    \/ \E c \in StopCallers : EnterStop(c) \/ StopActors(c) \/ GroupStopReturns(c)
    \/ cancelled /\ \E r \in Runs : GoroutineReturns(r)

GroupSpec == GroupInit /\ [][GroupNext]_groupVars /\ WF_groupVars(GroupProgress)

-----------------------------------------------------------------------------
(* Properties.                                                              *)

\* When OnDestroy of the only factory has returned, no goroutine of its group
\* runs and its listener is closed, whoever called Stop first.
DestroyJoinsActors ==
    \A f \in Factories :
        (factory[f] = "gone" /\ \A g \in Factories \ {f} : factory[g] \in {"none", "refused"})
            => /\ \A r \in Runs : ~Alive(r)
               /\ port \in {Free, Other}

\* OnDestroy returns, on the main thread: Stop waits for started, which the run
\* closes on every path, and for goroutines that are told to end.
DestroyReturns ==
    \A f \in Factories : factory[f] = "destroying" ~> factory[f] = "gone"

\* The group runs as long as a factory that started it lives, unless an actor
\* ended on its own.
RunsWhileLoaded ==
    (once # "new" /\ ~ownExit) => \A f \in Factories : factory[f] # "live"
=============================================================================

------------------------------ MODULE MCTables ------------------------------
(***************************************************************************)
(* The tables that worker threads share, for TLC: the stream objects and   *)
(* finalizers of a process, the hosts of a cluster, the records of the     *)
(* request sink.  They share nothing, so each behaviour is one of one of   *)
(* them; the others stay as they began.                                    *)
(***************************************************************************)
EXTENDS HostSet, StreamObjects, RequestSink, TLC

VARIABLES
    part

\* Streams and nonces are only compared.
Symmetry == Permutations(Streams) \cup Permutations(Nonces)

allVars == <<part, hostSetVars, objectVars, sinkVars>>

MCInit ==
    /\ part \in {"objects", "hosts", "sink"}
    /\ HostSetInit /\ ObjectsInit /\ SinkInit
    /\ part # "objects" => requestId = [s \in Streams |-> None]
    /\ part # "sink" => store = "none"

\* Every stream is over and logged.
AllLogged ==
    /\ \A s \in Streams : stage[s] = "logged"
    /\ UNCHANGED objectVars

MCNext ==
    \/ /\ part = "objects" /\ (ObjectsNext \/ AllLogged)
       /\ UNCHANGED <<part, hostSetVars, sinkVars>>
    \/ /\ part = "hosts" /\ HostSetNext
       /\ UNCHANGED <<part, objectVars, sinkVars>>
    \/ /\ part = "sink" /\ SinkNext
       /\ UNCHANGED <<part, hostSetVars, objectVars>>

MCSpec == MCInit /\ [][MCNext]_allVars
=============================================================================

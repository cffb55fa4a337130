---------------------------- MODULE MCCallouts ----------------------------
(***************************************************************************)
(* The four ways a request callback can wait for something outside Envoy,  *)
(* for TLC: one callout (CalloutHandoff), several (CalloutGroup), a        *)
(* goroutine that makes its own (GoDo), a gRPC call (GrpcCallout); and the *)
(* filters that decide by the answer (Admission).  A request waits in one  *)
(* of these ways and they share nothing else, so each behaviour is one of  *)
(* one of them; the others stay as they began.                             *)
(***************************************************************************)
EXTENDS CalloutHandoff, CalloutGroup

CONSTANTS Calls, Deadlines, FinishGo, Empty, Messages, Statuses,
          Documents, Hosted, Apps, MaxUpdates, None, Failed

VARIABLES
    part,
    \* GoDo
    inCallback, goroutine, do, posted, callout, ch, got, goStarted, goCompleted,
    cancelled, goDone, goFlush,
    \* GrpcCallout
    answer, sent, rpc, respStatus, body, once, grpcCallback, grpcState, grpcDone,
    grpcFlush, grpcGiven,
    \* Admission
    app, policy, request, at, captured, descriptors, decision, subject, published, seenAt,
    reply

Go == INSTANCE GoDo WITH streamDone <- goDone
Grpc == INSTANCE GrpcCallout
Adm == INSTANCE Admission

MCMessages == {<<>>, <<0>>, <<1, 2>>}

\* An entry of a rate limit descriptor: its value, or where it comes from.
Descriptor(key, value, header, state) ==
    [key |-> key, value |-> value, header |-> header, state |-> state]

\* A config for the rate limiter: its failure mode and its descriptors.
Config(mode, descriptors_) ==
    [cluster |-> "rls", domain |-> "d", timeout |-> 0, mode |-> mode,
     descriptors |-> descriptors_, builder |-> descriptors_ = <<>>]

MCHosted == {Config("open", <<>>),
             Config("closed", <<<<Descriptor("k", "", "h", "")>>>>)}

\* Valid ones of either mode, among them one that leaves it out; one that is not
\* valid for each of the reasons; one that is not one JSON object.
MCDocuments ==
    {[json |-> j, config |-> c] :
       j \in {"object"},
       c \in {Config("", <<<<Descriptor("k", "", "", "s"), Descriptor("l", "v", "", "")>>>>),
              Config("open", <<<<Descriptor("k", "", "h", "")>>>>),
              Config("maybe", <<<<Descriptor("k", "v", "", "")>>>>),
              Config("open", <<<<Descriptor("k", "v", "h", "")>>>>),
              [Config("open", <<<<Descriptor("k", "v", "", "")>>>>) EXCEPT !.timeout = 60001]}}
    \cup {[json |-> "two objects", config |-> Config("open", <<>>)]}

goVars == <<inCallback, goroutine, do, posted, callout, ch, got, goStarted, goCompleted,
            cancelled, goDone, goFlush>>
grpcVars == <<answer, sent, rpc, respStatus, body, once, grpcCallback, grpcState, grpcDone,
              grpcFlush, grpcGiven>>
admVars == <<app, policy, request, at, captured, descriptors, decision, subject, published,
             seenAt, reply>>
allVars == <<part, vars, groupVars, goVars, grpcVars, admVars>>

MCInit ==
    /\ part \in {"callout", "group", "go", "grpc", "admission"}
    /\ Init /\ GroupInit /\ Go!GoInit /\ Grpc!GrpcInit /\ Adm!AdmissionInit
    /\ part # "group" => kind = "all"
    /\ part # "grpc" => rpc = "refused" /\ answer.msg = <<>> /\ answer.flag = 0
                        /\ answer.status = 0 /\ answer.in = "headers"
    /\ part # "admission" => app = "jwt" /\ request.token = "" /\ request.header = ""

MCNext ==
    \/ /\ part = "callout" /\ Next
       /\ UNCHANGED <<part, groupVars, goVars, grpcVars, admVars>>
    \/ /\ part = "group" /\ GroupNext
       /\ UNCHANGED <<part, vars, goVars, grpcVars, admVars>>
    \/ /\ part = "go" /\ Go!GoNext
       /\ UNCHANGED <<part, vars, groupVars, grpcVars, admVars>>
    \/ /\ part = "grpc" /\ Grpc!GrpcNext
       /\ UNCHANGED <<part, vars, groupVars, goVars, admVars>>
    \/ /\ part = "admission" /\ Adm!AdmissionNext
       /\ UNCHANGED <<part, vars, groupVars, goVars, grpcVars>>

\* The fairness of FairSpec, GroupSpec, Go!GoSpec and Grpc!GrpcSpec.
MCFairness ==
    /\ WF_vars(part = "callout" /\ RequestCallback)
    /\ WF_vars(part = "callout" /\ \E d \in Deliveries : OnHttpCalloutDone(d))
    /\ WF_groupVars(part = "group" /\ Worker)
    /\ WF_groupVars(part = "group" /\ Deliver)
    /\ WF_goVars(part = "go" /\ Go!GoWorker)
    /\ WF_goVars(part = "go" /\ Go!GoAnswers)
    /\ \A c \in Calls : /\ WF_goVars(part = "go" /\ Go!Do(c))
                        /\ WF_goVars(part = "go" /\ Go!DoReturns(c))
    /\ WF_goVars(part = "go" /\ Go!FnReturns)
    /\ WF_grpcVars(part = "grpc" /\ Grpc!GrpcCallbackReturns)
    /\ WF_grpcVars(part = "grpc" /\ Grpc!GrpcDelivers)

MCSpec == MCInit /\ [][MCNext]_allVars /\ MCFairness

-----------------------------------------------------------------------------
(* Properties of the modules, of the part that runs.                        *)

\* Go and Do act on a living stream, and flush applies a callout's own answer.
LiveAndOwn == Go!LiveAndOwn

\* A gRPC answer is reported once, as the server gave it.
GrpcAnswerWhole == Grpc!GrpcAnswerWhole

\* A request is let through only by the service's word or by a config that fails
\* open, and the config is the one in force when it came.
AdmittedByPolicy == Adm!AdmittedByPolicy

\* However the request waits, it does not wait for ever: a request stopped for a
\* callout is released or answered, one stopped for a group or a gRPC call resumed,
\* and the goroutine of Go ends and resumes it, unless the stream ends.
WaitEnds ==
    /\ part = "callout" => RequestSettled
    /\ part = "group" => GroupResumes
    /\ part = "go" => Go!GoEnds
    /\ part = "grpc" => Grpc!GrpcResumes
=============================================================================

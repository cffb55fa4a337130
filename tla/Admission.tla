----------------------------- MODULE Admission -----------------------------
(***************************************************************************)
(* Three example filters that ask a service before they let a request      *)
(* through: ratelimit, whose policy is a PipelineConfig that may be        *)
(* replaced at any time, grpc-callout, which asks once the body is there,  *)
(* and jwt-callout.  How a callout is started, answered and dropped is     *)
(* CalloutHandoff's and GrpcCallout's subject; here it is one question and *)
(* at most one answer, which never reaches a stream that is over.          *)
(*                                                                         *)
(* A blank string is "", any other value of a field a name.                *)
(***************************************************************************)
EXTENDS Naturals, Sequences, SequencesExt

CONSTANTS
    Documents,   \* the config documents a source may deliver
    Hosted,      \* the configs an embedding program may start with
    Apps,        \* which of the filters run, subset of {"ratelimit", "grpc", "jwt"}
    MaxUpdates,  \* bound on the documents delivered
    None,        \* nil
    Failed       \* an error, or a callout Envoy refuses

VARIABLES
    app,
    policy,      \* the config's snapshot
    request,     \* [header, state, token, chunks]: what the request has to offer
    at,          \* "arriving", "asking", "decided" or "gone"
    captured,    \* the policy the handler holds
    descriptors, \* what the service was asked about
    decision,    \* None, 0 for a request let through, or the status of the reply
    subject,     \* the x-jwt-sub the request carries
    \* history
    published,   \* configs the source delivered, the initial one first
    seenAt,      \* how many of them when the headers came
    reply        \* what the service said

admissionVars == <<app, policy, request, at, captured, descriptors, decision, subject,
                   published, seenAt, reply>>

-----------------------------------------------------------------------------
(* config.go.                                                               *)

\* An entry needs a key and exactly one source; a header is in lower case.
ValidEntry(e) ==
    /\ e.key # ""
    /\ Len(SelectSeq(<<e.value, e.header, e.state>>, LAMBDA s : s # "")) = 1
    /\ e.header # "Upper"

\* Compile: the defaults are filled in, a config that is not valid is an error.
Compile(c) ==
    LET timeout == IF c.timeout = 0 THEN 50 ELSE c.timeout
        mode == IF c.mode = "" THEN "closed" ELSE c.mode
    IN  IF /\ c.cluster # "" /\ c.domain # ""
           /\ timeout <= 60000
           /\ mode \in {"closed", "open"}
           /\ (c.descriptors = <<>>) = c.builder
           /\ \A i \in DOMAIN c.descriptors :
                /\ c.descriptors[i] # <<>>
                /\ \A e \in ToSet(c.descriptors[i]) : ValidEntry(e)
        THEN [c EXCEPT !.timeout = timeout, !.mode = mode]
        ELSE None

\* Decode: one object, no field it does not know, nothing behind it.
Decode(d) == IF d.json = "object" THEN Compile(d.config) ELSE None

-----------------------------------------------------------------------------
(* ratelimit.go.                                                            *)

\* Policy.request: the value of every entry of every descriptor, or an error when
\* one is missing.
requestOf(p) ==
    LET value(e) == IF e.state # "" THEN request.state
                    ELSE IF e.header # "" THEN request.header ELSE e.value
        all == [i \in DOMAIN p.descriptors |->
                  [j \in DOMAIN p.descriptors[i] |-> value(p.descriptors[i][j])]]
    IN  IF \E i \in DOMAIN all : "" \in ToSet(all[i]) THEN Failed ELSE all

\* What BuildDescriptors, the embedding program's own, may return.
Built == {Failed, <<>>, <<<<>>>>, <<<<"v", "">>>>, <<<<"v">>>>}

\* Policy.requestFor.
requestFor(p, built) ==
    IF ~p.builder THEN requestOf(p)
    ELSE IF built = Failed \/ built = <<>> THEN Failed
    ELSE IF \E i \in DOMAIN built : built[i] = <<>> \/ "" \in ToSet(built[i]) THEN Failed
    ELSE built

\* An answer: the callout's result, the gRPC status, the decoded body.
Replies == [result : {"success", "reset"}, status : {0, 14},
            code : {"OK", "OVER_LIMIT", "UNKNOWN", "garbage"}]

\* The failure mode is read from the config of the moment.
StatusOfSnapshot(p, r) ==
    IF r.result = "success" /\ r.status = 0 /\ r.code = "OK" THEN 0
    ELSE IF r.result = "success" /\ r.status = 0 /\ r.code = "OVER_LIMIT" THEN 429
    ELSE IF policy.mode = "open" THEN 0 ELSE 503

\* Policy.responseStatus: 0 lets the request through.
responseStatus(p, r) ==
    IF r.result = "success" /\ r.status = 0 /\ r.code = "OK" THEN 0
    ELSE IF r.result = "success" /\ r.status = 0 /\ r.code = "OVER_LIMIT" THEN 429
    ELSE IF p.mode = "open" THEN 0 ELSE 503

Decide(code) ==
    /\ at' = "decided"
    /\ decision' = code

\* NewHandler's handler; a policy of its zero value counts as none.  A question Envoy
\* refuses is answered by the failure mode.
RateLimit ==
    /\ app = "ratelimit" /\ at = "arriving"
    /\ seenAt' = Len(published)
    /\ captured' = policy
    /\ IF policy = None
         THEN Decide(503) /\ UNCHANGED <<descriptors, reply>>
         ELSE \E built \in Built :
              LET req == requestFor(policy, built) IN
              IF req = Failed
                THEN Decide(400) /\ UNCHANGED <<descriptors, reply>>
                ELSE /\ descriptors' = req
                     /\ \/ at' = "asking" /\ UNCHANGED <<decision, reply>>
                        \/ /\ reply' = Failed
                           /\ Decide(IF policy.mode = "closed" THEN 503 ELSE 0)
    /\ UNCHANGED <<app, policy, request, subject, published>>

RateLimitAnswer(r) ==
    /\ app = "ratelimit" /\ at = "asking"
    /\ reply' = r
    /\ Decide(responseStatus(captured, r))
    /\ UNCHANGED <<app, policy, request, captured, descriptors, subject, published, seenAt>>

-----------------------------------------------------------------------------
(* grpc_callout.go: the body is the key, and every failure lets it through. *)

BuildRateLimitRequest(value) == <<<<value>>>>

IsOverLimit(r) == r.code = "OVER_LIMIT"

\* bodyHandler: only the chunk that ends the body asks.
bodyHandler ==
    /\ app = "grpc" /\ at = "arriving"
    /\ \/ /\ request.chunks > 1
          /\ request' = [request EXCEPT !.chunks = @ - 1]
          /\ UNCHANGED <<at, decision, descriptors, reply>>
       \/ /\ request.chunks = 1
          /\ descriptors' = BuildRateLimitRequest(request.header)
          /\ \/ at' = "asking" /\ UNCHANGED <<decision, reply>>
             \/ reply' = Failed /\ Decide(0)
          /\ UNCHANGED request
    /\ UNCHANGED <<app, policy, captured, subject, published, seenAt>>

BodyAnswer(r) ==
    /\ app = "grpc" /\ at = "asking"
    /\ reply' = r
    /\ Decide(IF r.result = "success" /\ r.status = 0 /\ IsOverLimit(r) THEN 429 ELSE 0)
    /\ UNCHANGED <<app, policy, request, captured, descriptors, subject, published, seenAt>>

-----------------------------------------------------------------------------
(* jwt_callout.go.                                                          *)

\* ParseBearer.
ParseBearer(h) == IF h = "Bearer token" THEN "token" ELSE ""

\* CheckIntrospection: <<status, subject>>, where OK is an active token.
CheckIntrospection(r) ==
    IF r.result # "success" \/ r.code # "OK" THEN <<401, "">> ELSE <<0, "sub">>

Handler ==
    /\ app = "jwt" /\ at = "arriving"
    /\ IF ParseBearer(request.token) = ""
         THEN Decide(401) /\ UNCHANGED <<descriptors, reply>>
         ELSE /\ descriptors' = <<<<ParseBearer(request.token)>>>>
              /\ \/ at' = "asking" /\ UNCHANGED <<decision, reply>>
                 \/ reply' = Failed /\ Decide(401)
    /\ UNCHANGED <<app, policy, request, captured, subject, published, seenAt>>

JwtAnswer(r) ==
    /\ app = "jwt" /\ at = "asking"
    /\ reply' = r
    /\ Decide(CheckIntrospection(r)[1])
    /\ subject' = CheckIntrospection(r)[2]
    /\ UNCHANGED <<app, policy, request, captured, descriptors, published, seenAt>>

-----------------------------------------------------------------------------
Requests == [header : {"", "h"}, state : {"", "s"},
             token : {"", "Basic x", "Bearer ", "Bearer token"}, chunks : 1 .. 2]

AdmissionInit ==
    /\ app \in Apps
    /\ \E c \in Hosted \cup {None} :
         /\ policy = IF c = None THEN None ELSE Compile(c)
         /\ published = <<policy>>
    /\ request \in Requests
    /\ app # "jwt" => request.token = ""
    /\ app # "grpc" => request.chunks = 1
    /\ app # "ratelimit" => policy = None /\ request.state = ""
    /\ at = "arriving" /\ captured = None /\ descriptors = <<>>
    /\ decision = None /\ subject = ""
    /\ seenAt = 0 /\ reply = None

\* PipelineConfig's refresh: a document that cannot be decoded changes nothing.
Refresh(d) ==
    /\ app = "ratelimit" /\ Len(published) <= MaxUpdates
    /\ policy' = IF Decode(d) = None THEN policy ELSE Decode(d)
    /\ published' = Append(published, Decode(d))
    /\ UNCHANGED <<app, request, at, captured, descriptors, decision, subject, seenAt, reply>>

\* The stream ends; no answer is delivered any more.
AdmissionStreamEnds ==
    /\ at \in {"asking", "decided"}
    /\ at' = "gone"
    /\ UNCHANGED <<app, policy, request, captured, descriptors, decision, subject,
                   published, seenAt, reply>>

AdmissionOver == at = "gone" /\ UNCHANGED admissionVars

AdmissionNext ==
    \/ RateLimit \/ bodyHandler \/ Handler
    \/ \E r \in Replies : RateLimitAnswer(r) \/ BodyAnswer(r) \/ JwtAnswer(r)
    \/ \E d \in Documents : Refresh(d)
    \/ AdmissionStreamEnds \/ AdmissionOver

AdmissionSpec == AdmissionInit /\ [][AdmissionNext]_admissionVars

-----------------------------------------------------------------------------
(* Property.                                                                *)

\* The config that was in force when the headers came: the last valid one the
\* source had delivered by then.
InForce ==
    LET good == {i \in 1 .. seenAt : published[i] # None}
    IN  IF good = {} THEN None ELSE published[CHOOSE i \in good : \A j \in good : j <= i]

\* Whatever is published while the service is asked, a request is let through only
\* if the service said so, or if it gave no usable answer and the config in force
\* when the headers came fails open; a request the service was not or could not be
\* asked about, for want of a config, a descriptor or a token, is never let
\* through, and x-jwt-sub is set only for a token found active.
AdmittedByPolicy ==
    LET usable == reply \notin {None, Failed} /\ reply.result = "success" /\ reply.status = 0
    IN  /\ decision = 0 /\ app = "ratelimit" =>
             /\ InForce # None /\ reply # None
             /\ \A i \in DOMAIN descriptors : descriptors[i] # <<>> /\ "" \notin ToSet(descriptors[i])
             /\ IF usable /\ reply.code \in {"OK", "OVER_LIMIT"}
                  THEN reply.code = "OK" ELSE InForce.mode = "open"
        /\ decision = 429 => usable /\ reply.code = "OVER_LIMIT"
        /\ decision = 503 => InForce = None \/ InForce.mode = "closed"
        /\ (decision = 0 /\ app = "jwt") \/ subject # "" =>
             /\ reply \notin {None, Failed}
             /\ reply.result = "success" /\ reply.code = "OK" /\ request.token = "Bearer token"
=============================================================================

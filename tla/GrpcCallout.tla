---------------------------- MODULE GrpcCallout ----------------------------
(***************************************************************************)
(* Writer.GRPCCallout: a unary gRPC call over Envoy's streaming HTTP       *)
(* callout.  The answer comes in pieces, headers, data in chunks that cut  *)
(* the frame anywhere, trailers, then completion or a reset at any point;  *)
(* the callback collects them and hands one GRPCCalloutResponse to the     *)
(* user, then resumes the request the way HTTPCallout does.                *)
(*                                                                         *)
(* Bytes are naturals below 256, so that framing is computed and not       *)
(* assumed; a message is a short sequence of them.  The server puts its    *)
(* status into the trailers, or into the headers of an answer that has     *)
(* nothing else ("trailers-only"), or leaves it out.                       *)
(***************************************************************************)
EXTENDS Naturals, Sequences, SequencesExt

CONSTANTS
    Messages,   \* what the server may answer, sequences of bytes
    Statuses    \* the grpc-status values it may send

Absent == "absent"

\* encodeGRPCFrame, with the compression flag as a parameter for the server's side.
encodeGRPCFrame(flag, msg) ==
    <<flag, Len(msg) \div 16777216, (Len(msg) \div 65536) % 256,
      (Len(msg) \div 256) % 256, Len(msg) % 256>> \o msg

Uint32(b) == ((b[1] * 256 + b[2]) * 256 + b[3]) * 256 + b[4]

\* A frame whose last byte is the body's last byte is refused.
decodeGRPCFrameStrict(raw) ==
    IF Len(raw) < 5 \/ raw[1] # 0 THEN {}
    ELSE LET end == 5 + Uint32(SubSeq(raw, 2, 5))
         IN  IF end >= Len(raw) THEN {} ELSE {SubSeq(raw, 6, end)}

\* decodeGRPCFrame: the message of the first frame, as a set: nil, the empty set,
\* when the frame is short or compressed.
decodeGRPCFrame(raw) ==
    IF Len(raw) < 5 \/ raw[1] # 0 THEN {}
    ELSE LET end == 5 + Uint32(SubSeq(raw, 2, 5))
         IN  IF end > Len(raw) THEN {} ELSE {SubSeq(raw, 6, end)}

-----------------------------------------------------------------------------
VARIABLES
    \* the server and the connection
    answer,        \* [msg, flag, status, in]: what the server answers
    sent,          \* bytes of the frame delivered so far
    rpc,           \* "headers", "data", "trailers", "closed" or "refused"
    \* grpcStreamCallback
    respStatus, body, once,
    \* the filter
    grpcCallback,  \* the request callback: "running", "stopped" or "returned"
    grpcState,     \* calloutState
    grpcDone,      \* streamDone
    grpcFlush,     \* how flush ran: "no", "inline" or "resume"
    grpcGiven      \* history: what the user's callback was called with

grpcVars == <<answer, sent, rpc, respStatus, body, once, grpcCallback, grpcState,
              grpcDone, grpcFlush, grpcGiven>>
filterState == <<grpcCallback, grpcState, grpcDone, grpcFlush, grpcGiven>>

Frame == encodeGRPCFrame(answer.flag, answer.msg)

\* GRPCCallout stores Active and asks Envoy for the stream.
GrpcInit ==
    /\ answer \in [msg : Messages, flag : {0, 1}, status : Statuses,
                   in : {"headers", "trailers", Absent}]
    /\ sent = 0
    /\ rpc \in {"headers", "refused"}
    /\ respStatus = 0 /\ body = <<>> /\ once = FALSE
    /\ grpcCallback = "running" /\ grpcState = "Active"
    /\ grpcDone = FALSE /\ grpcFlush = "no" /\ grpcGiven = <<>>

-----------------------------------------------------------------------------
(* The callback's methods.  Envoy may call them while StartHttpStream runs, *)
(* that is while the request callback is running, but not on a dead stream. *)

\* applyGRPCHeaders: the last block wins, a block without grpc-status counts as 0.
applyGRPCHeaders(block) == IF answer.in = block THEN answer.status ELSE 0

OnHttpStreamHeaders ==
    /\ rpc = "headers" /\ ~grpcDone
    /\ respStatus' = applyGRPCHeaders("headers")
    /\ rpc' = IF answer.in = "headers" THEN "trailers" ELSE "data"
    /\ UNCHANGED <<answer, sent, body, once, filterState>>

OnHttpStreamData ==
    /\ rpc = "data" /\ ~grpcDone
    /\ \E n \in sent + 1 .. Len(Frame) :
         /\ body' = body \o SubSeq(Frame, sent + 1, n)
         /\ sent' = n
    /\ UNCHANGED <<answer, rpc, respStatus, once, filterState>>

OnHttpStreamTrailers ==
    /\ rpc = "data" /\ ~grpcDone
    /\ answer.in = "trailers"
    /\ respStatus' = applyGRPCHeaders("trailers")
    /\ rpc' = "trailers"
    /\ UNCHANGED <<answer, sent, body, once, filterState>>

\* grpcStreamCallback.finish: once, then the user's callback, then whoever finds
\* the request paused resumes it.
finish(result) ==
    IF once \/ grpcDone
      THEN once' = TRUE /\ UNCHANGED <<grpcGiven, grpcState, grpcFlush>>
      ELSE /\ once' = TRUE
           /\ grpcGiven' = Append(grpcGiven, [result |-> result, status |-> respStatus,
                 body |-> IF result = "success" THEN decodeGRPCFrame(body) ELSE {}])
           /\ \/ /\ grpcState = "Paused"
                 /\ grpcState' = "Flushed" /\ grpcFlush' = "resume"
              \/ /\ grpcState # "Paused"
                 /\ grpcState' = IF grpcState = "Active" THEN "Done" ELSE grpcState
                 /\ UNCHANGED grpcFlush

\* The server ended the stream, perhaps before the whole frame was sent.
OnHttpStreamComplete ==
    /\ \/ rpc = "trailers"
       \/ rpc = "data" /\ answer.in = Absent
    /\ ~grpcDone
    /\ rpc' = "closed"
    /\ finish("success")
    /\ UNCHANGED <<answer, sent, respStatus, body, grpcCallback, grpcDone>>

\* A reset or the timeout, at any point.
OnHttpStreamReset ==
    /\ rpc \in {"headers", "data", "trailers"} /\ ~grpcDone
    /\ rpc' = "closed"
    /\ finish("reset")
    /\ UNCHANGED <<answer, sent, respStatus, body, grpcCallback, grpcDone>>

\* pausePendingCallout, flushCompletedCallout; a refused callout pauses nothing.
GrpcCallbackReturns ==
    /\ grpcCallback = "running"
    /\ \/ /\ rpc # "refused" /\ grpcState = "Active"
          /\ grpcState' = "Paused" /\ grpcCallback' = "stopped"
          /\ UNCHANGED grpcFlush
       \/ /\ rpc # "refused" /\ grpcState = "Done"
          /\ grpcState' = "Flushed" /\ grpcCallback' = "returned" /\ grpcFlush' = "inline"
       \/ /\ rpc = "refused"
          /\ grpcCallback' = "returned" /\ grpcFlush' = "inline"
          /\ UNCHANGED grpcState
    /\ UNCHANGED <<answer, sent, rpc, respStatus, body, once, grpcDone, grpcGiven>>

GrpcStreamComplete ==
    /\ grpcCallback # "running" /\ ~grpcDone
    /\ grpcDone' = TRUE
    /\ UNCHANGED <<answer, sent, rpc, respStatus, body, once, grpcCallback, grpcState,
                   grpcFlush, grpcGiven>>

-----------------------------------------------------------------------------
GrpcDelivers == OnHttpStreamHeaders \/ OnHttpStreamData \/ OnHttpStreamTrailers
                \/ OnHttpStreamComplete \/ OnHttpStreamReset

\* The stream is over.
GrpcOver == grpcDone /\ UNCHANGED grpcVars

GrpcNext == GrpcDelivers \/ GrpcCallbackReturns \/ GrpcStreamComplete \/ GrpcOver

\* The worker returns from the callback; Envoy's timeout ends a stream the server
\* leaves open.
GrpcSpec == GrpcInit /\ [][GrpcNext]_grpcVars
                     /\ WF_grpcVars(GrpcCallbackReturns) /\ WF_grpcVars(GrpcDelivers)

-----------------------------------------------------------------------------
(* Properties.                                                              *)

\* The user's callback runs at most once, and what it is told is what the server
\* said: the status from wherever the server put it, and the whole message, or nil
\* when part of the frame is missing or it is compressed, however the frame was cut
\* into chunks.
GrpcAnswerWhole ==
    /\ Len(grpcGiven) <= 1
    /\ \A r \in ToSet(grpcGiven) : r.result = "success" =>
         /\ r.status = IF answer.in = Absent THEN 0 ELSE answer.status
         /\ r.body = IF sent = Len(Frame) /\ answer.flag = 0 THEN {answer.msg} ELSE {}

\* A request stopped for the call is resumed, unless its stream ends; and a
\* request whose call ended inside StartHttpStream is never left stopped.
GrpcResumes == (grpcCallback = "running") ~> (grpcFlush # "no" \/ grpcDone)
=============================================================================

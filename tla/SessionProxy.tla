---------------------------- MODULE SessionProxy ----------------------------
(***************************************************************************)
(* The ws-proxy example: one WebSocket session between a client and an     *)
(* upstream, with a pump goroutine for each direction that taps the frames *)
(* it forwards, and ServeHTTP waiting for the first of them to fail.       *)
(*                                                                         *)
(* The tap's fields are not guarded: ServeHTTP reads them while the other  *)
(* pump may still write them, so reads and writes of them are steps of     *)
(* their own.  The k-th completed response has usage k, and a model is a   *)
(* model; a frame that matters to neither tap is "other".                  *)
(***************************************************************************)
EXTENDS Naturals, Sequences

CONSTANTS
    MaxResponses,  \* bound on the responses of a session
    MaxOther       \* bound on the other frames of each side

VARIABLES
    serve,         \* where ServeHTTP is
    clientUp,      \* the client's connection is open
    upstreamUp,    \* the upstream's is
    clientOut,     \* frames the client has sent that are not read yet
    upstreamOut,   \* frames of the upstream
    up,            \* the client-to-upstream pump: [pc, frame]
    down,          \* the upstream-to-client pump
    errc,          \* errors in the channel
    tap,           \* SessionTap
    record,        \* what recordActorSession was given
    \* history
    sentOther,     \* other frames sent by either side
    creates,       \* response.create frames the client has sent
    asked,         \* ... that reached the upstream
    completed,     \* responses the upstream has completed
    delivered,     \* the last of them that reached the client
    owed           \* delivered, when ServeHTTP saw the session end

peers == <<clientUp, upstreamUp, clientOut, upstreamOut, sentOther, creates, asked, completed,
           delivered>>
sessionVars == <<serve, up, down, errc, tap, record, owed, peers>>

Idle == [pc |-> "no", frame |-> "other"]
Capacity == 2

SessionInit ==
    /\ serve = "accept"
    /\ clientUp = TRUE /\ upstreamUp = FALSE
    /\ clientOut = <<>> /\ upstreamOut = <<>>
    /\ up = Idle /\ down = Idle /\ errc = 0
    /\ tap = [model |-> "", input |-> 0, output |-> 0]
    /\ record = [model |-> "", input |-> 0, output |-> 0, result |-> "none"]
    /\ sentOther = 0 /\ creates = 0 /\ asked = 0 /\ completed = 0 /\ delivered = 0 /\ owed = 0

-----------------------------------------------------------------------------
(* The peers.  Nobody has to send anything, or to close.                    *)

ClientSends(frame) ==
    /\ serve # "accept" /\ clientUp /\ Len(clientOut) < 2
    /\ \/ frame = "create" /\ creates = delivered /\ creates < MaxResponses
       \/ frame = "other" /\ sentOther < MaxOther
    /\ clientOut' = Append(clientOut, frame)
    /\ creates' = IF frame = "create" THEN creates + 1 ELSE creates
    /\ sentOther' = IF frame = "other" THEN sentOther + 1 ELSE sentOther
    /\ UNCHANGED <<serve, up, down, errc, tap, record, owed, clientUp, upstreamUp, upstreamOut,
                   asked, completed, delivered>>

\* response.completed for a request that reached the upstream, or another frame.
UpstreamSends(frame) ==
    /\ upstreamUp /\ Len(upstreamOut) < 2
    /\ \/ frame = "completed" /\ completed < asked
       \/ frame = "other" /\ sentOther < MaxOther
    /\ upstreamOut' = Append(upstreamOut, frame)
    /\ completed' = IF frame = "completed" THEN completed + 1 ELSE completed
    /\ sentOther' = IF frame = "other" THEN sentOther + 1 ELSE sentOther
    /\ UNCHANGED <<serve, up, down, errc, tap, record, owed, clientUp, upstreamUp, clientOut,
                   creates, asked, delivered>>

PeerCloses ==
    /\ \/ clientUp /\ clientUp' = FALSE /\ UNCHANGED upstreamUp
       \/ upstreamUp /\ upstreamUp' = FALSE /\ UNCHANGED clientUp
    /\ UNCHANGED <<serve, up, down, errc, tap, record, owed, clientOut, upstreamOut, sentOther,
                   creates, asked, completed, delivered>>

-----------------------------------------------------------------------------
(* The pumps.                                                               *)

\* FeedClient: the first model named by a response.create stays.
FeedClient(frame) ==
    tap' = IF frame = "create" /\ tap.model = "" THEN [tap EXCEPT !.model = "model"] ELSE tap

\* A pump that reads an error, or cannot write, goes on to report it.
Fails(pump) == [pump EXCEPT !.pc = "failed"]

ClientPumpReads ==
    /\ up.pc = "read"
    /\ \/ /\ clientOut # <<>> /\ serve \notin {"closing", "over"}
          /\ FeedClient(Head(clientOut))
          /\ up' = [pc |-> "write", frame |-> Head(clientOut)]
          /\ clientOut' = Tail(clientOut)
       \/ /\ ~clientUp
          /\ up' = Fails(up)
          /\ UNCHANGED <<tap, clientOut>>
    /\ UNCHANGED <<serve, down, errc, record, owed, clientUp, upstreamUp, upstreamOut, sentOther,
                   creates, asked, completed, delivered>>

\* A write to a connection whose peer is gone fails, or is lost.
ClientPumpWrites ==
    /\ up.pc = "write"
    /\ \/ /\ up' = [up EXCEPT !.pc = "read"]
          /\ asked' = IF upstreamUp /\ up.frame = "create" THEN asked + 1 ELSE asked
       \/ /\ ~upstreamUp /\ up' = Fails(up)
          /\ UNCHANGED asked
    /\ UNCHANGED <<serve, down, errc, tap, record, owed, clientUp, upstreamUp, clientOut,
                   upstreamOut, sentOther, creates, completed, delivered>>

UpstreamPumpReads ==
    /\ down.pc = "read"
    /\ \/ /\ upstreamOut # <<>> /\ serve \notin {"closing", "over"}
          /\ down' = [pc |-> IF Head(upstreamOut) = "completed" THEN "input" ELSE "write",
                      frame |-> Head(upstreamOut)]
          /\ upstreamOut' = Tail(upstreamOut)
       \/ /\ ~upstreamUp
          /\ down' = Fails(down)
          /\ UNCHANGED upstreamOut
    /\ UNCHANGED <<serve, up, errc, tap, record, owed, clientUp, upstreamUp, clientOut, sentOther,
                   creates, asked, completed, delivered>>

\* FeedUpstream: each completed response replaces the usage, field by field.
FeedUpstream ==
    /\ \/ /\ down.pc = "input"
          /\ tap' = [tap EXCEPT !.input = @ + 1]
          /\ down' = [down EXCEPT !.pc = "output"]
       \/ /\ down.pc = "output"
          /\ tap' = [tap EXCEPT !.output = @ + 1]
          /\ down' = [down EXCEPT !.pc = "write"]
    /\ UNCHANGED <<serve, up, errc, record, owed, peers>>

UpstreamPumpWrites ==
    /\ down.pc = "write"
    /\ \/ /\ down' = [down EXCEPT !.pc = "read"]
          /\ delivered' = IF clientUp /\ down.frame = "completed" THEN delivered + 1 ELSE delivered
       \/ /\ ~clientUp /\ down' = Fails(down)
          /\ UNCHANGED delivered
    /\ UNCHANGED <<serve, up, errc, tap, record, owed, clientUp, upstreamUp, clientOut,
                   upstreamOut, sentOther, creates, asked, completed>>

\* errc has room for both pumps.
Reports(p) == p.pc = "failed" /\ errc < Capacity

PumpReports ==
    /\ \/ Reports(up) /\ up' = [up EXCEPT !.pc = "over"] /\ UNCHANGED down
       \/ Reports(down) /\ down' = [down EXCEPT !.pc = "over"] /\ UNCHANGED up
    /\ errc' = errc + 1
    /\ UNCHANGED <<serve, tap, record, owed, peers>>

-----------------------------------------------------------------------------
(* ServeHTTP.                                                               *)

\* websocket.Accept.
Accept ==
    /\ serve = "accept"
    /\ serve' \in {"dialing", "over"}
    /\ clientUp' = (clientUp /\ serve' # "over")
    /\ UNCHANGED <<up, down, errc, tap, record, owed, upstreamUp, clientOut, upstreamOut,
                   sentOther, creates, asked, completed, delivered>>

\* websocket.Dial: an upstream that is not there closes the client's connection;
\* otherwise the pumps start.
Dial ==
    /\ serve = "dialing"
    /\ \/ /\ serve' = "over" /\ clientUp' = FALSE
          /\ UNCHANGED <<upstreamUp, up, down>>
       \/ /\ serve' = "pumping" /\ upstreamUp' = TRUE
          /\ up' = [Idle EXCEPT !.pc = "read"] /\ down' = [Idle EXCEPT !.pc = "read"]
          /\ UNCHANGED clientUp
    /\ UNCHANGED <<errc, tap, record, owed, clientOut, upstreamOut, sentOther, creates, asked,
                   completed, delivered>>

\* firstErr := <-errc.
FirstError ==
    /\ serve = "pumping" /\ errc > 0
    /\ errc' = errc - 1
    /\ serve' = "usage"
    /\ owed' = delivered
    /\ UNCHANGED <<up, down, tap, record, peers>>

\* tap.Usage() and tap.Model(), field by field.
ReadTap ==
    /\ \/ /\ serve = "usage" /\ serve' = "output"
          /\ record' = [record EXCEPT !.input = tap.input]
       \/ /\ serve = "output" /\ serve' = "recording"
          /\ record' = [record EXCEPT !.output = tap.output, !.model = tap.model]
    /\ UNCHANGED <<up, down, errc, tap, owed, peers>>

\* The session's end is always some pump's error.
recordActorSession ==
    /\ serve = "recording"
    /\ record' = [record EXCEPT !.result = "error"]
    /\ serve' = "closing"
    /\ UNCHANGED <<up, down, errc, tap, owed, peers>>

\* The deferred CloseNow of both connections.
CloseNow ==
    /\ serve = "closing"
    /\ serve' = "over"
    /\ clientUp' = FALSE /\ upstreamUp' = FALSE
    /\ UNCHANGED <<up, down, errc, tap, record, owed, clientOut, upstreamOut, sentOther, creates,
                   asked, completed, delivered>>

-----------------------------------------------------------------------------
ClientPump == ClientPumpReads \/ ClientPumpWrites
UpstreamPump == UpstreamPumpReads \/ FeedUpstream \/ UpstreamPumpWrites
ServeHTTP == Accept \/ Dial \/ FirstError \/ ReadTap \/ recordActorSession \/ CloseNow

SessionGone == serve = "over" /\ up.pc \in {"no", "over"} /\ down.pc \in {"no", "over"}

SessionOver == SessionGone /\ UNCHANGED sessionVars

SessionNext ==
    \/ \E frame \in {"create", "completed", "other"} : ClientSends(frame) \/ UpstreamSends(frame)
    \/ PeerCloses
    \/ ClientPump \/ UpstreamPump \/ PumpReports \/ ServeHTTP
    \/ SessionOver

\* Goroutines run.
SessionFairness ==
    /\ WF_sessionVars(ClientPump) /\ WF_sessionVars(UpstreamPump)
    /\ WF_sessionVars(PumpReports) /\ WF_sessionVars(ServeHTTP)

SessionSpec == SessionInit /\ [][SessionNext]_sessionVars /\ SessionFairness

-----------------------------------------------------------------------------
(* Property.                                                                *)

\* When either side closes, the session ends with both pumps, and is recorded with
\* the model and with at least the usage of every response the client had received
\* when the proxy noticed.
SessionSettles ==
    (serve = "pumping" /\ (~clientUp \/ ~upstreamUp))
        ~> /\ SessionGone
           /\ record.result # "none"
           /\ record.input >= owed /\ record.output >= owed
           /\ owed > 0 => record.model # ""
=============================================================================

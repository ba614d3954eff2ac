------------------------------- MODULE Http2 --------------------------------
(***************************************************************************)
(* The HTTP/2 client of nghhtp2/libevent-client.c: one GET request, driven *)
(* by the callbacks of libevent and, inside readcb, those of nghttp2.      *)
(* Frames are pairs of a stream and a kind; nghttp2 and libevent are       *)
(* modelled as the client uses them.                                       *)
(***************************************************************************)
EXTENDS Integers, Sequences, FiniteSets

CONSTANT MaxFrame    \* frames the server sends at most

VARIABLES data,      \* http2_session_data: "live" or "deleted"
          session,   \* its nghttp2_session is there
          stream_id, \* of its stream_data, -1 before the request
          stdout,    \* chunks of body written
          why,       \* the callback that deleted it, "exit" for errx()
          queued,    \* frames nghttp2 has queued
          goaway,    \* "no", "queued" or "sent", by terminate_session
          streams,   \* streams nghttp2 holds for active
          going,     \* nghttp2 has received a GOAWAY
          output,    \* frames in the output buffer of the bufferevent
          input,     \* frames in its input buffer
          pending,   \* its deferred callbacks
          wire,      \* "connecting", "up" or "closed": the connection
          asked,     \* the server has the request
          frames,    \* frames it sent
          body       \* of them, chunks of body on the client's stream

lib == <<queued, goaway, streams, going>>
bev == <<output, input, pending>>
server == <<wire, asked, frames, body>>
vars == <<data, session, stream_id, stdout, why, lib, bev, server>>

Http2Init ==
    /\ data = "live" /\ session = FALSE /\ stream_id = -1 /\ stdout = 0 /\ why = ""
    /\ queued = {} /\ goaway = "no" /\ streams = {} /\ going = FALSE
    /\ output = {} /\ input = <<>> /\ pending = {}
    /\ wire = "connecting" /\ asked = FALSE /\ frames = 0 /\ body = 0

-----------------------------------------------------------------------------
(* The library. *)

want_read == goaway # "sent" /\ (streams # {} \/ (~going /\ goaway = "no"))
want_write == goaway # "sent" /\ queued # {}

\* libevent calls "connected" before "read", that before "write", and the other events
\* last.
Callback(c) ==
    /\ data = "live" /\ c \in pending
    /\ c = "read" => "connected" \notin pending
    /\ c = "write" => pending \cap {"connected", "read"} = {}
    /\ c = "event" => pending = {"event"}

-----------------------------------------------------------------------------
(* The client. *)

\* bufferevent_free() also drops the callbacks and closes the connection.
delete_http2_session_data(by) ==
    /\ data' = "deleted" /\ session' = FALSE /\ why' = by
    /\ pending' = {} /\ output' = {} /\ input' = <<>> /\ wire' = "closed"

\* All that nghttp2 has queued goes through send_callback to the output buffer; a
\* GOAWAY that was asked for is sent with it.
session_send(q, g, c) ==
    /\ queued' = {} /\ goaway' = IF g = "queued" THEN "sent" ELSE g
    /\ output' = output \cup q
    /\ pending' = pending \ {c}

initialize_nghttp2_session == session' = TRUE

\* The only request; nghttp2 gives the first stream of a client number 1.
submit_request == stream_id' = 1 /\ streams' = {1}

\* eventcb with BEV_EVENT_CONNECTED.  What was negotiated does not matter: a server
\* without h2 is reported and gets the request, too.
eventcb_connected ==
    /\ Callback("connected")
    /\ \/ /\ initialize_nghttp2_session /\ submit_request
          /\ session_send({"SETTINGS", "HEADERS"}, goaway, "connected")
          /\ UNCHANGED <<data, why, going, input, wire>>
       \/ delete_http2_session_data("connected") /\ UNCHANGED <<stream_id, lib>>
       \/ /\ data' = "deleted" /\ why' = "exit" /\ pending' = {} /\ wire' = "closed"
          /\ UNCHANGED <<session, stream_id, lib, output, input>>
    /\ UNCHANGED <<stdout, asked, frames, body>>

\* eventcb with EOF, an error or a timeout
eventcb_other ==
    /\ Callback("event")
    /\ delete_http2_session_data("event")
    /\ UNCHANGED <<stream_id, stdout, lib, asked, frames, body>>

\* on_data_chunk_recv_callback prints the chunks of the client's stream.
Printed(f) == f[2] = "data" /\ f[1] = stream_id

AnyStream(f) == f[2] = "end"

\* on_stream_close_callback terminates the session when the client's stream closes.
Closes(f) == f[2] = "end" /\ f[1] = stream_id

Of(kind) == {input[k][1] : k \in {j \in DOMAIN input : input[j][2] = kind}}

\* Everything in the input buffer goes through nghttp2_session_mem_recv and its
\* callbacks, and what that queued is sent.
readcb ==
    /\ Callback("read")
    /\ \/ LET closes == \E k \in DOMAIN input : Closes(input[k])
              replies == (IF closes /\ goaway = "no" THEN {"GOAWAY"} ELSE {})
                         \cup (IF Of("settings") # {} THEN {"ACK"} ELSE {})
          IN  /\ stdout' = stdout + Cardinality({k \in DOMAIN input : Printed(input[k])})
              /\ streams' = (streams \cup Of("push")) \ Of("end")
              /\ going' = (going \/ Of("goaway") # {})
              /\ session_send(queued \cup replies,
                              IF closes /\ goaway = "no" THEN "queued" ELSE goaway, "read")
          /\ input' = <<>>
          /\ UNCHANGED <<data, session, why, wire>>
       \/ delete_http2_session_data("read") /\ UNCHANGED <<stdout, lib>>
    /\ UNCHANGED <<stream_id, asked, frames, body>>

Idle == ~want_read /\ ~want_write /\ output = {}

writecb ==
    /\ Callback("write")
    /\ IF Idle THEN delete_http2_session_data("write")
       ELSE pending' = pending \ {"write"} /\ UNCHANGED <<data, session, why, output, input, wire>>
    /\ UNCHANGED <<stream_id, stdout, lib, asked, frames, body>>

-----------------------------------------------------------------------------
(* The network, the server and the buffers of libevent. *)

\* initiate_connection has asked for it.
connect ==
    /\ wire = "connecting"
    /\ \/ wire' = "up" /\ pending' = pending \cup {"connected"}
       \/ wire' = "closed" /\ pending' = pending \cup {"event"}
    /\ UNCHANGED <<data, session, stream_id, stdout, why, lib, output, input, asked, frames, body>>

\* The output buffer drains, which libevent reports.
flush ==
    /\ wire = "up" /\ output # {}
    /\ output' = {} /\ pending' = pending \cup {"write"}
    /\ asked' = (asked \/ "HEADERS" \in output)
    /\ UNCHANGED <<data, session, stream_id, stdout, why, lib, input, wire, frames, body>>

\* A frame of the server arrives: before "end" data on the client's stream, and
\* at any time data on a stream the server has pushed.
arrive(f) ==
    /\ wire = "up" /\ asked /\ frames < MaxFrame
    /\ f[1] \in streams \cup {0} \/ f[2] = "push"
    /\ \A k \in DOMAIN input : input[k] # <<f[1], "end">> /\ (f[2] # "data" => input[k] # f)
    /\ input' = Append(input, f) /\ pending' = pending \cup {"read"}
    /\ frames' = frames + 1
    /\ body' = IF f = <<1, "data">> THEN body + 1 ELSE body
    /\ UNCHANGED <<data, session, stream_id, stdout, why, lib, output, wire, asked>>

Frame == {<<0, "settings">>, <<0, "goaway">>, <<2, "push">>} \cup ({1, 2} \X {"data", "end"})

\* The server closes the connection, or it breaks.
disconnect ==
    /\ wire = "up"
    /\ wire' = "closed" /\ pending' = pending \cup {"event"}
    /\ UNCHANGED <<data, session, stream_id, stdout, why, lib, output, input, asked, frames, body>>

Run == eventcb_connected \/ eventcb_other \/ readcb \/ writecb
Network == connect \/ flush \/ disconnect \/ \E f \in Frame : arrive(f)
Next == Run \/ Network

Fairness == WF_vars(Run) /\ WF_vars(flush)
Spec == Http2Init /\ [][Next]_vars /\ Fairness

-----------------------------------------------------------------------------
(* Properties *)

\* No callback of the client finds its session missing, and the body on stdout is that
\* of its own stream, complete when writecb found the work done and tore the session
\* down.
BodyComplete ==
    /\ data = "live" /\ (Callback("read") \/ Callback("write")) => session
    /\ stdout <= body
    /\ why = "write" => stdout = body /\ 1 \notin streams

Waiting == session /\ 1 \notin streams

\* Once the client's stream has closed the session is torn down, without the server
\* closing the connection.
TornDown == Waiting ~> data = "deleted"
=============================================================================

------------------------------ MODULE Processes -----------------------------
(***************************************************************************)
(* The readers of a child's output, the dialogue with a child, the HTTP/2  *)
(* client and the download.  They are tests of one program, one per        *)
(* process: "program" says which one runs.                                 *)
(***************************************************************************)
EXTENDS Integers, Sequences, FiniteSets

CONSTANTS MaxOut, PipeSize, BufSize, MaxWait,  \* of the child's pipe
          MaxFrame,
          MaxExec, MaxCall, ReplyLen,          \* of the dialogue with a child
          Sock, MaxContext                     \* of the download

ASSUME ProcessesAssumption ==
    /\ {MaxOut, MaxWait, MaxExec, MaxContext} \subseteq Nat
    /\ {BufSize, ReplyLen} \subseteq Nat \ {0}

VARIABLES program, at,
          proc_exit, length, left, got, ret, pipe, holders, written, nothing, running,
          data, session, stream_id, stdout, why, queued, goaway, streams, going,
          output, input, callbacks, wire, asked, frames, body,
          hproc, rh, wh, wopen, direct, calls, result, started, children, directives, owed,
          wrote, outputs, handed,
          timeout, context, socketp, download

Pipe == INSTANCE Exec WITH fn <- program, pc <- at
H2 == INSTANCE Http2 WITH pending <- callbacks
Inter == INSTANCE Intercmd WITH pc <- at, ret <- result, running <- children,
                                asked <- directives, written <- wrote,
                                pipe <- outputs, got <- handed
Curl == INSTANCE Uv WITH pc <- at

pipes == <<proc_exit, length, left, got, ret, pipe, holders, written, nothing, running>>
https == <<data, session, stream_id, stdout, why, queued, goaway, streams, going,
           output, input, callbacks, wire, asked, frames, body>>
inters == <<hproc, rh, wh, wopen, direct, calls, result, started, children, directives, owed,
            wrote, outputs, handed>>
curls == <<timeout, context, socketp, download>>
processVars == <<program, at, pipes, https, inters, curls>>

NoProcess == program \in {"nghttp2", "none"} /\ at = "none" /\ Pipe!Idle

ProcessInit ==
    /\ H2!Http2Init /\ Inter!NoChild /\ Curl!UvInit
    /\ \/ Pipe!Init
       \/ program = "intercmd" /\ Inter!Init /\ Pipe!Idle
       \/ program = "uv" /\ Curl!Init /\ Pipe!Idle
       \/ NoProcess

\* A, a step of the one that runs.
PipeStep(A) == program \in Pipe!PipeFns /\ A /\ UNCHANGED <<https, inters, curls>>
H2Step(A) == program = "nghttp2" /\ A /\ UNCHANGED <<program, at, pipes, inters, curls>>
InterStep(A) == program = "intercmd" /\ A /\ UNCHANGED <<program, pipes, https, curls>>
CurlStep(A) == program = "uv" /\ A /\ UNCHANGED <<program, pipes, https, inters>>

ProcessNext == \/ PipeStep(Pipe!Next) \/ H2Step(H2!Next)
               \/ InterStep(Inter!Next) \/ CurlStep(Curl!Next)

ProcessSpec == ProcessInit /\ [][ProcessNext]_processVars

-----------------------------------------------------------------------------
(* Properties, stated in their modules. *)

\* The state of the reader of a child's output has its type: its buffer's length stays
\* within the buffer and not 0, although the reader changes it.
ProcessTypeOK == program \in Pipe!PipeFns => Pipe!TypeOK

\* The readers of a child's output hand over its bytes in order, and the two that
\* close their own end of the pipe hand over all of them; send_intercmd hands over the
\* output without a gap from one directive to the next; libevent-client.c prints the
\* body of its own stream, all of it when it tears the session down by itself.
HandedOver == /\ program \in Pipe!PipeFns => Pipe!Captured
              /\ program = "intercmd" => Inter!InOrder
              /\ program = "nghttp2" => H2!BodyComplete

\* send_intercmd leaves no running child behind; in uv.c a context is polled exactly as
\* long as libcurl keeps it for its socket, and none is left when the loop has returned.
NoneLeftBehind == /\ program = "intercmd" => Inter!OneChild
                  /\ program = "uv" => Curl!Owned /\ Curl!NoneAtEnd

Busy == \/ program \in Pipe!PipeFns /\ Pipe!Waiting
        \/ program = "intercmd" /\ at # "idle"
        \/ program = "nghttp2" /\ H2!Waiting
        \/ program = "uv" /\ Curl!Closing # {}
Over == \/ program \in Pipe!PipeFns /\ Pipe!Over
        \/ program = "intercmd" /\ Inter!Over
        \/ program = "nghttp2" /\ data = "deleted"
        \/ program = "uv" /\ (Curl!Closing = {} \/ at = "abort")

\* The readers that close their own end of the pipe return, the third one returns or
\* reads for good the empty pipe it holds open itself, and send_intercmd returns or reads
\* from a silent child; libevent-client.c tears the session down once the stream has
\* closed; uv.c frees the context of every socket that was given up.
Returned == Busy ~> Over
=============================================================================

---------------------------- MODULE SelectServer ----------------------------
(***************************************************************************)
(* The echo server of algs/xhsdk_select_server.cpp.  Every round polls the *)
(* descriptor maxfd alone: the listening socket at first, and the largest  *)
(* connection from the first accept() on.  Its sockets block, and a        *)
(* connection just accepted is read in the same round.                     *)
(***************************************************************************)
EXTENDS Sockets

CONSTANT SOCK_CLI_MAX    \* slots of the client table

VARIABLES clis,          \* g_xhsdk_clis: the descriptor in each slot, 0 for unused
          rfds, maxfd,   \* of SelectContext
          pc, i          \* where the loop is, and the slot select_on_socket_rw is at

server == <<clis, rfds, maxfd, pc, i>>
vars == <<kernel, server>>

Slot == 1..SOCK_CLI_MAX

Init ==
    /\ SocketsInit
    /\ clis = [k \in Slot |-> 0]
    /\ rfds = {} /\ maxfd = listenfd /\ pc = "select" /\ i = 1

-----------------------------------------------------------------------------
\* select() on maxfd returns because it is ready, or fails because it is closed.
select ==
    /\ pc = "select"
    /\ \/ /\ maxfd \in FreeFds
          /\ pc' = "exit" /\ rfds' = {}
       \/ /\ maxfd \notin FreeFds /\ Readable(maxfd)
          /\ rfds' = {maxfd}
          /\ pc' = IF maxfd = listenfd THEN "connect" ELSE "rw"
    /\ i' = 1
    /\ UNCHANGED <<kernel, clis, maxfd>>

FreeSlots == {k \in Slot : clis[k] = 0}
FirstFree(k) == k \in FreeSlots /\ \A l \in FreeSlots : k <= l

Max(f) == IF f > maxfd THEN f ELSE maxfd

\* accept(); the new connection takes the first unused slot and is polled alone
\* from now on, or is closed when there is no slot.
select_on_socket_connect ==
    /\ pc = "connect" /\ FreeFds # {}
    /\ backlog' = Tail(backlog)
    /\ \/ \E k \in Slot, f \in Fd :
             /\ FirstFree(k) /\ NewFd(f)
             /\ clis' = [clis EXCEPT ![k] = f]
             /\ fds' = [fds EXCEPT ![f] = Head(backlog)]
             /\ rfds' = rfds \cup {f} /\ maxfd' = Max(f)
       \/ FreeSlots = {} /\ UNCHANGED <<clis, fds, rfds, maxfd>>
    /\ pc' = "rw"
    /\ UNCHANGED <<st, sent, unread, replies, broken, i>>

\* accept() fails.
fails ==
    /\ pc = "connect" /\ pc' = "exit"
    /\ UNCHANGED <<kernel, clis, rfds, maxfd, i>>

\* After slot i.
Onwards ==
    /\ pc' = IF i = SOCK_CLI_MAX THEN "select" ELSE "rw"
    /\ i' = IF i = SOCK_CLI_MAX THEN 1 ELSE i + 1

\* The descriptor is closed; the slot keeps its number, since fd = 0 only sets
\* the parameter.
Drop(f) ==
    /\ fds' = [fds EXCEPT ![f] = Free]
    /\ rfds' = rfds \ {f}

\* read() returned data.
Got(c) == unread[c] > 0

\* A read that may block, and the echo.
protocol_echo(f) ==
    LET c == fds[f]
    IN  /\ Readable(f)
        /\ Reads(c, unread[c] > 0)
        /\ \/ /\ ~Got(c)
              /\ Drop(f) /\ Onwards /\ UNCHANGED <<replies, broken>>
           \/ /\ Got(c) /\ ~Killed(c)
              /\ Writes(c) /\ Onwards /\ UNCHANGED <<fds, rfds>>
           \/ /\ Got(c) /\ ~Killed(c)
              /\ WriteFails(c) /\ Drop(f) /\ Onwards
           \/ /\ Got(c) /\ Killed(c)
              /\ pc' = "exit" /\ UNCHANGED <<fds, rfds, replies, broken, i>>

select_on_socket_rw ==
    /\ pc = "rw"
    /\ IF clis[i] \in rfds \ {0} THEN protocol_echo(clis[i])
       ELSE Onwards /\ UNCHANGED <<fds, rfds, unread, replies, broken>>
    /\ UNCHANGED <<backlog, st, sent, clis, maxfd>>

Serve == select \/ select_on_socket_connect \/ select_on_socket_rw \/ fails

Client == \E c \in Conn : connect(c) \/ send(c) \/ hangup(c)

Next == Serve \/ (Client /\ UNCHANGED server)

Spec == Init /\ [][Next]_vars

FairSpec == Spec /\ WF_vars(Serve)

-----------------------------------------------------------------------------
(* Properties *)

\* The state has its type.
TypeOK ==
    /\ SocketsTypeOK
    /\ clis \in [Slot -> Fd \cup {0}]
    /\ rfds \subseteq Fd \cup {listenfd} /\ maxfd \in Fd \cup {listenfd}
    /\ pc \in {"select", "connect", "rw", "exit"} /\ i \in Slot

\* The server echoes only what was sent: no more replies than requests read, also
\* when a client hangs up while its slot still names the descriptor.
EchoesRequests == \A c \in Conn : replies[c] <= sent[c] - unread[c]

Wants(c) == Accepted(c) /\ unread[c] > 0
Content(c) == unread[c] = 0 \/ st[c] = "closed" \/ pc = "exit"

\* The one client that is ever accepted has all its requests read, unless it hangs
\* up or the server ended: the round that polls maxfd alone does not lose it.
Served == \A c \in Conn : Wants(c) ~> Content(c)
=============================================================================

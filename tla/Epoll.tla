-------------------------------- MODULE Epoll -------------------------------
(***************************************************************************)
(* The server of api_poll/hello_epoll.c: connections are non-blocking and  *)
(* edge-triggered, and one global flag, euraka_ping, says that the next    *)
(* connection found writable gets a reply.  A connection that ended is     *)
(* taken out of epoll and its descriptor stays open.                       *)
(***************************************************************************)
EXTENDS Sockets

CONSTANTS MAX_EVENTS,    \* events returned by one epoll_wait
          SndBuf         \* replies the kernel keeps for a client that does not read

VARIABLES euraka_ping,
          epoll,         \* the connections' descriptors registered with epoll
          edge,          \* of them, those with an event not yet reported
          events,        \* the events reported and not yet handled
          pending,       \* replies the client has not read
          reads,         \* calls of handle_fd_read
          writes,        \* replies written, to whatever connection
          pc

server == <<euraka_ping, epoll, events, reads, writes, pc>>
vars == <<kernel, server, edge, pending>>

Init ==
    /\ SocketsInit
    /\ euraka_ping = 0 /\ epoll = {} /\ edge = {} /\ events = {}
    /\ pending = [c \in Conn |-> 0] /\ reads = 0 /\ writes = 0
    /\ pc = "run"

-----------------------------------------------------------------------------
(* The clients and the kernel. *)

Writable(f) == pending[fds[f]] < SndBuf \/ st[fds[f]] = "closed"

Registered(c) == {f \in epoll : fds[f] = c}

\* A request, the end of the connection, and room in a full buffer are edges.
Client ==
    \E c \in Conn :
        \/ connect(c) /\ UNCHANGED <<edge, pending>>
        \/ /\ send(c) \/ hangup(c)
           /\ edge' = edge \cup Registered(c)
           /\ UNCHANGED pending
        \/ /\ pending[c] > 0 /\ st[c] = "open"
           /\ pending' = [pending EXCEPT ![c] = 0]
           /\ edge' = IF pending[c] = SndBuf THEN edge \cup Registered(c) ELSE edge
           /\ UNCHANGED kernel

\* A descriptor with what it is ready for when it is reported.
Event(f) ==
    IF f = listenfd THEN [fd |-> f, in |-> TRUE, out |-> FALSE]
                    ELSE [fd |-> f, in |-> Readable(f), out |-> Writable(f)]

Ready == edge \cup (IF backlog = <<>> THEN {} ELSE {listenfd})

epoll_wait ==
    /\ pc = "run" /\ events = {} /\ Ready # {}
    /\ \E S \in SUBSET Ready :
          /\ S = Ready \/ Cardinality(S) = MAX_EVENTS
          /\ Cardinality(S) <= MAX_EVENTS
          /\ events' = {Event(f) : f \in S}
          /\ edge' = edge \ S
    /\ UNCHANGED <<kernel, euraka_ping, epoll, pending, reads, writes, pc>>

-----------------------------------------------------------------------------
(* The handlers of one event. *)

\* accept() and EPOLL_CTL_ADD: a new connection can be written at once.
handle_socket_connect(e) ==
    /\ e.fd = listenfd
    /\ backlog' = Tail(backlog)
    /\ \E f \in Fd :
          /\ NewFd(f) /\ fds' = [fds EXCEPT ![f] = Head(backlog)]
          /\ epoll' = epoll \cup {f} /\ edge' = edge \cup {f}
    /\ UNCHANGED <<st, sent, unread, replies, broken, euraka_ping, pending, reads, writes, pc>>

\* accept() fails and epoll_ctl is given descriptor -1.
connect_fails(e) ==
    /\ e.fd = listenfd /\ FreeFds = {}
    /\ pc' = "exit"
    /\ UNCHANGED <<kernel, euraka_ping, epoll, edge, pending, reads, writes>>

KeepsPing(ping, out) == ping

\* euraka_ping after the write.
PingAfter(ping, out) == IF out THEN 0 ELSE ping

\* Whether the event gets a reply: a read in the same event comes first.
Replies(e) == e.out /\ (e.in \/ euraka_ping = 1)

\* handle_fd_read has data; without them the connection has ended.
handle_fd_read(c) == unread[c] > 0

Removes(f) == epoll' = epoll \ {f} /\ edge' = edge \ {f}

\* handle_fd_write: a failed write takes the connection out of epoll.  EAGAIN
\* cannot come, neither here nor in the read: what was reported is still so.
handle_fd_write(f, removed) ==
    LET c == fds[f]
    IN  \/ /\ ~Killed(c) /\ Writes(c) /\ writes' = writes + 1
           /\ pending' = [pending EXCEPT ![c] = IF st[c] = "closed" THEN @ ELSE @ + 1]
           /\ IF removed THEN Removes(f) ELSE UNCHANGED <<epoll, edge>>
           /\ UNCHANGED pc
        \/ /\ ~Killed(c) /\ WriteFails(c)
           /\ Removes(f) /\ UNCHANGED <<pending, writes, pc>>
        \/ /\ Killed(c)
           /\ pc' = "killed"
           /\ UNCHANGED <<replies, broken, pending, writes, epoll, edge>>

\* The read, which takes the connection out of epoll at its end, then the reply.
handle_fd(e) ==
    LET c == fds[e.fd]
        got == e.in /\ handle_fd_read(c)
        ended == e.in /\ ~got
        ping == IF e.in THEN 1 ELSE euraka_ping
    IN  /\ e.fd # listenfd
        /\ Reads(c, got)
        /\ reads' = IF e.in THEN reads + 1 ELSE reads
        /\ euraka_ping' = PingAfter(ping, e.out)
        /\ IF Replies(e) THEN handle_fd_write(e.fd, ended)
           ELSE /\ IF ended THEN Removes(e.fd) ELSE UNCHANGED <<epoll, edge>>
                /\ UNCHANGED <<replies, broken, pending, writes, pc>>
        /\ UNCHANGED <<fds, backlog, st, sent>>

handle ==
    /\ pc = "run"
    /\ \E e \in events :
          /\ events' = events \ {e}
          /\ handle_socket_connect(e) \/ connect_fails(e) \/ handle_fd(e)

Serve == epoll_wait \/ handle

Next == Serve \/ (Client /\ UNCHANGED server)

Spec == Init /\ [][Next]_vars

FairSpec == Spec /\ WF_vars(Serve)

-----------------------------------------------------------------------------
(* Properties *)

\* The state has its type; every registered descriptor is open.
TypeOK ==
    /\ SocketsTypeOK
    /\ euraka_ping \in {0, 1} /\ reads \in Nat /\ writes \in Nat
    /\ epoll \subseteq Fd \ FreeFds /\ edge \subseteq epoll
    /\ events \subseteq [fd : Fd \cup {listenfd}, in : BOOLEAN, out : BOOLEAN]
    /\ pending \in [Conn -> 0..SndBuf]
    /\ pc \in {"run", "exit", "killed"}

\* One flag for all connections does not multiply replies: there are never more
\* than calls of handle_fd_read, counting the reply the flag still owes.
OneReplyPerRead == writes + euraka_ping <= reads

\* Descriptors are never closed, so that connections that ended use them up and
\* accept() fails in the end; but only those are taken out of epoll, and no
\* connection has two descriptors.
NoneDropped ==
    /\ \A f \in Fd \ (FreeFds \cup epoll) : st[fds[f]] = "closed"
    /\ \A f, g \in Fd \ FreeFds : fds[f] = fds[g] => f = g

Wants(c) == sent[c] > 0
Content(c) == replies[c] > 0 \/ st[c] = "closed" \/ pc # "run"

\* A client that sent a request gets a reply, its own or one owed to another
\* connection, unless it hangs up or the server ends.
Answered == \A c \in Conn : Wants(c) ~> Content(c)
=============================================================================

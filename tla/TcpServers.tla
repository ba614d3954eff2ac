----------------------------- MODULE TcpServers -----------------------------
(***************************************************************************)
(* The three small servers.  They are tests of one program, one per        *)
(* process: "test" says which one runs, and the sockets and the variables  *)
(* of the same name are those of the process.                              *)
(***************************************************************************)
EXTENDS Integers, Sequences, FiniteSets

CONSTANTS Conn, Fd, MaxSend,         \* of the sockets
          SOCK_CLI_MAX, MAX_EVENTS, SndBuf

VARIABLES test,
          fds, backlog, st, sent, unread, replies, broken,
          clis, rfds, wfds, maxfd, pc, i,
          euraka_ping, epoll, edge, events, pending, reads, writes

Side == INSTANCE Sidecar
Xhsdk == INSTANCE SelectServer
Hello == INSTANCE Epoll

\* Descriptors are numbers, and 0 and 3 are in use before the first accept().
ASSUME ServersAssumption ==
    /\ Fd \subseteq Nat \ {0, Side!listenfd} /\ Side!Free \notin Conn
    /\ SOCK_CLI_MAX \in Nat \ {0} /\ SndBuf \in Nat

kernel == <<fds, backlog, st, sent, unread, replies, broken>>
selects == <<clis, rfds, wfds, maxfd, i>>
epolls == <<euraka_ping, epoll, edge, events, pending, reads, writes>>
tcpVars == <<test, pc, kernel, selects, epolls>>

NoSelect == clis = 0 /\ rfds = {} /\ wfds = {} /\ maxfd = 0 /\ i = 0
NoEpoll == /\ euraka_ping = 0 /\ epoll = {} /\ edge = {} /\ events = {}
           /\ pending = 0 /\ reads = 0 /\ writes = 0
NoServer == test = "none" /\ pc = "none" /\ Side!SocketsInit /\ NoSelect /\ NoEpoll

TcpInit == \/ test = "sidecar" /\ Side!Init /\ maxfd = 0 /\ NoEpoll
           \/ test = "xhsdk" /\ Xhsdk!Init /\ wfds = {} /\ NoEpoll
           \/ test = "epoll" /\ Hello!Init /\ NoSelect
           \/ NoServer

\* A, a step of the one that runs.
SideStep(A) == test = "sidecar" /\ A /\ UNCHANGED <<test, maxfd, epolls>>
XhsdkStep(A) == test = "xhsdk" /\ A /\ UNCHANGED <<test, wfds, epolls>>
EpollStep(A) == test = "epoll" /\ A /\ UNCHANGED <<test, selects>>

TcpNext == SideStep(Side!Next) \/ XhsdkStep(Xhsdk!Next) \/ EpollStep(Hello!Next)

TcpSpec == TcpInit /\ [][TcpNext]_tcpVars

-----------------------------------------------------------------------------
(* Properties, stated in their modules. *)

\* The state of the server that runs has its type, with every descriptor it is
\* about to use inside its table.
TypeOK == /\ test = "sidecar" => Side!TypeOK
          /\ test = "xhsdk" => Xhsdk!TypeOK
          /\ test = "epoll" => Hello!TypeOK

\* select-srv.cpp keeps open exactly the descriptors in its table; hello_epoll.c, which
\* closes none, takes only those out of epoll whose client has left.
DescriptorsTracked == /\ test = "sidecar" => Side!Tracked
                      /\ test = "epoll" => Hello!NoneDropped

\* select-srv.cpp writes at most one reply and closes the connection with it;
\* xhsdk_select_server.cpp echoes no more than it read; hello_epoll.c writes no more
\* replies than it made reads, with one flag for all connections.
NoExtraReplies == /\ test = "sidecar" => Side!OneReply
                  /\ test = "xhsdk" => Xhsdk!EchoesRequests
                  /\ test = "epoll" => Hello!OneReplyPerRead

\* A connection waits for the server that runs, and has been served.
Wants(c) ==   \/ test = "sidecar" /\ Side!Wants(c)
              \/ test = "xhsdk" /\ Xhsdk!Wants(c)
              \/ test = "epoll" /\ Hello!Wants(c)
Content(c) == \/ test = "sidecar" /\ Side!Content(c)
              \/ test = "xhsdk" /\ Xhsdk!Content(c)
              \/ test = "epoll" /\ Hello!Content(c)

\* select-srv.cpp serves every connection although its reads block, as long as every
\* client sends or hangs up; xhsdk_select_server.cpp reads all requests of the client it
\* accepted; hello_epoll.c answers every client that sent a request, with edge-triggered
\* events and part of the input left unread.
Served == \A c \in Conn : Wants(c) ~> Content(c)
=============================================================================

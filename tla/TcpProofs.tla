------------------------------ MODULE TcpProofs -----------------------------
(***************************************************************************)
(* The three small servers, for any numbers of connections, descriptors    *)
(* and slots: descriptors and tables agree, and no reply is made up.       *)
(***************************************************************************)
EXTENDS TcpServers, TLAPS

USE ServersAssumption
USE ZenonT(30)

Free == Side!Free

\* The descriptors in use.
Open == {f \in Fd : fds[f] # Free}

\* A connection waits once or has one descriptor, and its client made it.
ConnInv ==
    /\ \A f, g \in Open : fds[f] = fds[g] => f = g
    /\ \A f \in Open : st[fds[f]] # "new"
    /\ \A k \in DOMAIN backlog : /\ st[backlog[k]] # "new"
                                 /\ \A f \in Open : fds[f] # backlog[k]
                                 /\ \A l \in DOMAIN backlog : backlog[k] = backlog[l] => k = l

\* The server has not closed the connection yet.
Fresh(c) == \/ st[c] = "new"
            \/ \E k \in DOMAIN backlog : backlog[k] = c
            \/ \E f \in Open : fds[f] = c

Kernel ==
    /\ fds \in [Fd -> Conn \cup {Free}] /\ backlog \in Seq(Conn)
    /\ st \in [Conn -> {"new", "open", "closed"}]

\* accept()
LEMMA ConnAccepts ==
    ASSUME Kernel, ConnInv, backlog # <<>>, NEW f \in Fd, fds[f] = Free,
           fds' = [fds EXCEPT ![f] = Head(backlog)], backlog' = Tail(backlog), st' = st
    PROVE  /\ ConnInv' /\ Open' = Open \cup {f} /\ Head(backlog) \in Conn
           /\ \A c \in Conn : Fresh(c)' => Fresh(c)
<1>1. /\ Head(backlog) = backlog[1] /\ 1 \in DOMAIN backlog
      /\ \A k \in DOMAIN backlog' : k + 1 \in DOMAIN backlog /\ backlog'[k] = backlog[k + 1]
      /\ 0 \notin DOMAIN backlog' /\ DOMAIN backlog' \subseteq Nat
      /\ \A k \in DOMAIN backlog : backlog[k] \in Conn
  BY SMTT(30) DEF Kernel
<1>2. /\ fds'[f] = backlog[1] /\ backlog[1] \in Conn /\ backlog[1] # Free
      /\ \A g \in Fd : g # f => fds'[g] = fds[g]
  BY <1>1, SMTT(30) DEF Kernel, Free
<1>3. Open' = Open \cup {f}
  BY <1>2 DEF Open
<1>4. /\ \A g, h \in Open' : fds'[g] = fds'[h] => g = h
      /\ \A g \in Open' : st'[fds'[g]] # "new"
  BY <1>1, <1>2, <1>3, SMTT(30) DEF ConnInv, Open
<1>5. \A k \in DOMAIN backlog' : /\ st'[backlog'[k]] # "new"
                                 /\ \A l \in DOMAIN backlog' : backlog'[k] = backlog'[l] => k = l
                                 /\ \A g \in Open' : fds'[g] # backlog'[k]
  BY <1>1, <1>2, <1>3, SMTT(30) DEF ConnInv
<1>6. ConnInv'
  BY <1>4, <1>5 DEF ConnInv
<1>7. \A c \in Conn : Fresh(c)' => Fresh(c)
  BY <1>1, <1>2, <1>3, SMTT(30) DEF Fresh
<1> QED
  BY <1>1, <1>3, <1>6, <1>7

\* accept() followed by close()
LEMMA ConnRefuses ==
    ASSUME Kernel, ConnInv, backlog # <<>>, UNCHANGED <<fds, st>>, backlog' = Tail(backlog)
    PROVE  ConnInv' /\ Open' = Open /\ \A c \in Conn : Fresh(c)' => Fresh(c)
<1>1. /\ \A k \in DOMAIN backlog' : k + 1 \in DOMAIN backlog /\ backlog'[k] = backlog[k + 1]
      /\ DOMAIN backlog' \subseteq Nat
  BY SMTT(30) DEF Kernel
<1>2. Open' = Open
  BY DEF Open
<1>3. \A k \in DOMAIN backlog' : /\ st'[backlog'[k]] # "new"
                                 /\ \A l \in DOMAIN backlog' : backlog'[k] = backlog'[l] => k = l
                                 /\ \A g \in Open' : fds'[g] # backlog'[k]
  BY <1>1, <1>2, SMTT(30) DEF ConnInv
<1>4. ConnInv'
  BY <1>2, <1>3 DEF ConnInv
<1>5. \A c \in Conn : Fresh(c)' => Fresh(c)
  BY <1>1, <1>2, SMTT(30) DEF Fresh
<1> QED
  BY <1>2, <1>4, <1>5

\* close()
LEMMA ConnCloses ==
    ASSUME Kernel, ConnInv, NEW f \in Open, NEW c, c = fds[f],
           fds' = [fds EXCEPT ![f] = Free], UNCHANGED <<st, backlog>>
    PROVE  /\ ConnInv' /\ Open' = Open \ {f} /\ ~Fresh(c)'
           /\ \A d \in Conn : Fresh(d)' => Fresh(d)
<1>1. fds'[f] = Free /\ \A g \in Fd : g # f => fds'[g] = fds[g]
  BY SMTT(30) DEF Kernel, Open
<1>2. Open' = Open \ {f}
  BY <1>1 DEF Open
<1>3. ConnInv'
  BY <1>1, <1>2, SMTT(30) DEF ConnInv, Open
<1>4. ~Fresh(c)'
  BY <1>1, <1>2, SMTT(30) DEF ConnInv, Fresh, Open
<1>5. \A d \in Conn : Fresh(d)' => Fresh(d)
  BY <1>1, <1>2 DEF Fresh, Open
<1> QED
  BY <1>2, <1>3, <1>4, <1>5

\* A step that leaves the sockets alone keeps what is known of them.
LEMMA ConnSame ==
    ASSUME UNCHANGED <<fds, st, backlog>>
    PROVE  (ConnInv => ConnInv') /\ Open' = Open /\ \A c \in Conn : Fresh(c)' <=> Fresh(c)
<1>1. Open' = Open
  BY DEF Open
<1>2. ConnInv => ConnInv'
  BY <1>1 DEF ConnInv
<1> QED
  BY <1>1, <1>2 DEF Fresh

\* A client connects or hangs up.
LEMMA ConnClient ==
    ASSUME Kernel, ConnInv, NEW c \in Conn, fds' = fds,
           \/ /\ st[c] = "new" /\ st' = [st EXCEPT ![c] = "open"]
              /\ backlog' = Append(backlog, c)
           \/ st[c] # "new" /\ st' = [st EXCEPT ![c] = "closed"] /\ backlog' = backlog
    PROVE  ConnInv' /\ Open' = Open /\ \A d \in Conn : Fresh(d)' => Fresh(d)
<1>1. Open' = Open
  BY DEF Open
<1>2. /\ st'[c] # "new" /\ \A d \in Conn \ {c} : st'[d] = st[d]
      /\ \A f \in Open : fds[f] \in Conn
      /\ \A k \in DOMAIN backlog : backlog[k] \in Conn
  BY SMTT(30) DEF Kernel, Open
<1>3. CASE backlog' = backlog
  BY <1>1, <1>2, <1>3 DEF ConnInv, Fresh
<1>4. CASE st[c] = "new" /\ backlog' = Append(backlog, c)
  <2>1. PICK n : /\ n \notin DOMAIN backlog /\ DOMAIN backlog' = DOMAIN backlog \cup {n}
                 /\ backlog'[n] = c /\ \A k \in DOMAIN backlog : backlog'[k] = backlog[k]
    <3>1. LET m == Len(backlog) + 1
          IN  /\ m \notin DOMAIN backlog /\ DOMAIN backlog' = DOMAIN backlog \cup {m}
              /\ backlog'[m] = c /\ \A k \in DOMAIN backlog : backlog'[k] = backlog[k]
      BY <1>4, SMTT(30) DEF Kernel
    <3> QED
      BY <3>1
  <2>2. \A k \in DOMAIN backlog' : st'[backlog'[k]] # "new" /\ \A f \in Open : fds[f] # backlog'[k]
    BY <2>1, <1>2, <1>4, SMTT(30) DEF ConnInv
  <2>3. \A k, l \in DOMAIN backlog' : backlog'[k] = backlog'[l] => k = l
    BY <2>1, <1>2, <1>4, SMTT(30) DEF ConnInv
  <2>4. ConnInv'
    BY <1>1, <1>2, <2>2, <2>3 DEF ConnInv
  <2>5. \A d \in Conn : Fresh(d)' => Fresh(d)
    BY <2>1, <1>1, <1>2, <1>4 DEF Fresh
  <2> QED
    BY <1>1, <2>4, <2>5
<1> QED
  BY <1>1, <1>3, <1>4

\* A client sends, whatever bound the model puts on its requests.
Sends(c) ==
    /\ sent' = [sent EXCEPT ![c] = @ + 1] /\ unread' = [unread EXCEPT ![c] = @ + 1]
    /\ UNCHANGED <<fds, backlog, st, replies, broken>>

\* Whatever a client does leaves the descriptors, the replies and the requests
\* already read as they are.
LEMMA ClientSteps ==
    ASSUME Side!SocketsTypeOK, ConnInv, NEW c \in Conn,
           Side!connect(c) \/ Sends(c) \/ Side!hangup(c)
    PROVE  /\ Side!SocketsTypeOK' /\ ConnInv' /\ Open' = Open
           /\ \A d \in Conn : /\ Fresh(d)' => Fresh(d)
                              /\ sent'[d] - unread'[d] = sent[d] - unread[d]
                              /\ unread[d] <= unread'[d]
                              /\ st[d] = "closed" => st'[d] = "closed"
           /\ UNCHANGED <<fds, replies, broken>>
           /\ backlog # <<>> => backlog' # <<>>
<1>1. Kernel
  BY DEF Side!SocketsTypeOK, Kernel, Free
<1>2. CASE Side!connect(c)
  <2>1. ConnInv' /\ Open' = Open /\ \A d \in Conn : Fresh(d)' => Fresh(d)
    BY <1>1, <1>2, ConnClient DEF Side!connect
  <2> QED
    BY <1>2, <2>1, SMTT(30) DEF Side!connect, Side!SocketsTypeOK
<1>3. CASE Side!hangup(c)
  <2>1. ConnInv' /\ Open' = Open /\ \A d \in Conn : Fresh(d)' => Fresh(d)
    <3>1. st[c] # "new" /\ st' = [st EXCEPT ![c] = "closed"] /\ backlog' = backlog /\ fds' = fds
      BY <1>3, SMTT(30) DEF Side!hangup
    <3> QED
      BY <1>1, <3>1, ConnClient
  <2> QED
    BY <1>3, <2>1, SMTT(30) DEF Side!hangup, Side!SocketsTypeOK
<1>4. CASE Sends(c)
  <2>1. ConnInv' /\ Open' = Open /\ \A d \in Conn : Fresh(d)' <=> Fresh(d)
    BY <1>4, ConnSame DEF Sends
  <2> QED
    BY <1>4, <2>1, SMTT(30) DEF Sends, Side!SocketsTypeOK
<1> QED
  BY <1>2, <1>3, <1>4

-----------------------------------------------------------------------------
(* select-srv.cpp *)

\* Descriptors and slots agree all the time, and a connection that got its reply
\* is closed for good.
SideInv ==
    /\ Side!TypeOK /\ ConnInv
    /\ Side!Clients = Open
    /\ \A k, l \in Side!Slot : clis[k].fd = clis[l].fd => k = l \/ clis[k].fd = 0
    /\ pc = "connect" => backlog # <<>>
    /\ \A c \in Conn : replies[c] = 0 \/ (replies[c] = 1 /\ ~Fresh(c))

\* What the invariant says of the parts of the kernel.
LEMMA SideKernel == SideInv => Kernel
BY DEF SideInv, Side!TypeOK, Side!SocketsTypeOK, Kernel, Free

\* tcp_sidecar starts with the listening socket and no client.
LEMMA SideInit == Side!Init => SideInv
<1> SUFFICES ASSUME Side!Init PROVE SideInv
  OBVIOUS
<1>1. Side!TypeOK
  BY SMTT(30) DEF Side!Init, Side!TypeOK, Side!SocketsInit, Side!SocketsTypeOK, Side!Slot, Side!Unused
<1>2. Open = {} /\ DOMAIN backlog = {}
  BY SMTT(30) DEF Side!Init, Side!SocketsInit, Open, Free
<1>3. Side!Clients = {}
  BY SMTT(30) DEF Side!Init, Side!Clients, Side!Unused
<1> QED
  BY <1>1, <1>2, <1>3, SMTT(30) DEF Side!Init, Side!SocketsInit, SideInv, ConnInv, Side!Slot, Side!Unused

\* select() and its failure change no table.
LEMMA SideSelect ==
    ASSUME SideInv, Side!select \/ Side!fails \/ UNCHANGED Side!vars
    PROVE SideInv'
<1>1. /\ UNCHANGED <<fds, backlog, st, sent, unread, replies, broken, clis>>
      /\ rfds' \subseteq Fd \cup {Side!listenfd} /\ wfds' \subseteq Fd
      /\ pc' \in {"select", "connect", "rw", "exit"} /\ i' \in Side!Slot
      /\ pc' = "connect" => backlog # <<>>
  <2>1. CASE Side!select
    BY <2>1, SMTT(30) DEF SideInv, Side!select, Side!kernel, Side!TypeOK, Side!Polled, Side!Readable, Side!Clients, Side!Slot
  <2>2. CASE Side!fails
    BY <2>2, SMTT(30) DEF SideInv, Side!fails, Side!kernel, Side!TypeOK
  <2>3. CASE UNCHANGED Side!vars
    <3>1. UNCHANGED <<fds, backlog, st, sent, unread, replies, broken, clis, rfds, wfds, pc, i>>
      BY <2>3 DEF Side!vars, Side!server, Side!kernel
    <3> QED
      BY <3>1 DEF SideInv, Side!TypeOK
  <2> QED
    BY <2>1, <2>2, <2>3
<1>2. Side!Clients' = Side!Clients
  BY <1>1 DEF Side!Clients
<1>3. Side!TypeOK'
  BY <1>1 DEF SideInv, Side!TypeOK, Side!SocketsTypeOK
<1> QED
  BY <1>1, <1>2, <1>3, ConnSame DEF SideInv

\* An accepted client gets a descriptor that no slot names.
LEMMA SideConnect ==
    ASSUME SideInv, Side!select_on_socket_connect
    PROVE SideInv'
<1>1. /\ backlog # <<>> /\ backlog' = Tail(backlog) /\ pc' = "rw"
      /\ UNCHANGED <<st, sent, unread, replies, broken, i>>
  BY DEF SideInv, Side!select_on_socket_connect
<1>2. CASE UNCHANGED <<clis, fds, rfds, wfds>>
  <2>1. Side!TypeOK'
    BY <1>1, <1>2, SMTT(30) DEF SideInv, Side!TypeOK, Side!SocketsTypeOK
  <2>2. Side!Clients' = Side!Clients
    BY <1>2 DEF Side!Clients
  <2>3. ConnInv' /\ Open' = Open /\ \A c \in Conn : Fresh(c)' => Fresh(c)
    BY <1>1, <1>2, SideKernel, ConnRefuses DEF SideInv
  <2> QED
    BY <1>1, <1>2, <2>1, <2>2, <2>3 DEF SideInv
<1>3. ASSUME NEW k \in Side!Slot, NEW f \in Fd, Side!FirstFree(k), Side!NewFd(f),
             clis' = [clis EXCEPT ![k] = [fd |-> f, alive |-> FALSE]],
             fds' = [fds EXCEPT ![f] = Head(backlog)],
             rfds' = rfds \cup {f}, wfds' = wfds \cup {f}
      PROVE  SideInv'
  <2>1. fds[f] = Free /\ clis[k].fd = 0 /\ f \notin Open /\ f # 0
    BY <1>3, SMTT(30) DEF Side!FirstFree, Side!FreeSlots, Side!NewFd, Side!FreeFds, Free, Open
  <2>2. /\ ConnInv' /\ Open' = Open \cup {f} /\ Head(backlog) \in Conn
        /\ \A c \in Conn : Fresh(c)' => Fresh(c)
    BY <1>1, <1>3, <2>1, SideKernel, ConnAccepts DEF SideInv
  <2>3. Side!TypeOK'
    BY <1>1, <1>3, <2>2, SMTT(30) DEF SideInv, Side!TypeOK, Side!SocketsTypeOK
  <2>4. clis'[k].fd = f /\ \A l \in Side!Slot : l # k => clis'[l] = clis[l]
    BY <1>3, SMTT(30) DEF SideInv, Side!TypeOK
  <2>5. Side!Clients' = Side!Clients \cup {f}
    BY <2>1, <2>4, SMTT(30) DEF Side!Clients
  <2>6. \A l \in Side!Slot : clis[l].fd # f
    BY <2>1 DEF SideInv, Side!Clients
  <2>7. \A m, l \in Side!Slot : clis'[m].fd = clis'[l].fd => m = l \/ clis'[m].fd = 0
    BY <2>1, <2>4, <2>6, SMTT(30) DEF SideInv
  <2> QED
    BY <1>1, <2>2, <2>3, <2>5, <2>7 DEF SideInv
<1> QED
  BY <1>2, <1>3 DEF Side!select_on_socket_connect

\* The handler of slot i.
LEMMA SideRw ==
    ASSUME SideInv, Side!select_on_socket_rw
    PROVE SideInv'
<1> DEFINE f == clis[i].fd
           c == fds[f]
           rd == f # 0 /\ f \in rfds
           gt == rd /\ unread[c] > 0
           lost == rd /\ ~gt
           wr == f # 0 /\ ~lost /\ f \in wfds /\ Side!Alive(i, gt)
<1>1. /\ IF f = 0 THEN UNCHANGED unread ELSE Side!Reads(c, gt)
      /\ IF wr THEN Side!Writes(c) \/ Side!WriteFails(c) ELSE UNCHANGED <<replies, broken>>
      /\ clis' = [clis EXCEPT ![i] = Side!SlotAfter(i, lost, wr, gt)]
      /\ fds' = IF lost \/ wr THEN [fds EXCEPT ![f] = Free] ELSE fds
      /\ Side!Onwards
      /\ UNCHANGED <<backlog, st, sent, rfds, wfds>>
  BY DEF Side!select_on_socket_rw, Free, Side!Closes
<1>2. i \in Side!Slot /\ f \in Fd \cup {0} /\ clis[i].alive \in BOOLEAN
  BY SMTT(30) DEF SideInv, Side!TypeOK
<1>3. pc' \in {"select", "rw"} /\ i' \in Side!Slot
  BY <1>1, <1>2, SMTT(30) DEF Side!Onwards, Side!Slot
<1>4. f # 0 => f \in Open /\ c \in Conn
  <2>1. f # 0 => f \in Side!Clients
    BY <1>2 DEF Side!Clients
  <2> HIDE DEF f
  <2> QED
    BY <2>1, <1>2, SMTT(30) DEF SideInv, Side!TypeOK, Side!SocketsTypeOK, Open, Free
<1>5. unread' \in [Conn -> Nat]
  <2>1. CASE f = 0 \/ ~gt
    BY <2>1, <1>1 DEF Side!Reads, SideInv, Side!TypeOK, Side!SocketsTypeOK
  <2>2. CASE f # 0 /\ gt
    <3>1. PICK n \in 1..unread[c] : unread' = [unread EXCEPT ![c] = @ - n]
      BY <2>2, <1>1 DEF Side!Reads
    <3>2. unread \in [Conn -> Nat]
      BY DEF SideInv, Side!TypeOK, Side!SocketsTypeOK
    <3> QED
      BY <3>1, <3>2, <2>2, <1>4, SMTT(30)
  <2> QED
    BY <2>1, <2>2
<1>6. /\ replies' \in [Conn -> Nat] /\ broken' \subseteq Conn
      /\ \A d \in Conn : replies'[d] = replies[d] \/ (wr /\ d = c /\ replies'[d] = replies[d] + 1)
  <2>1. replies \in [Conn -> Nat] /\ broken \subseteq Conn
    BY DEF SideInv, Side!TypeOK, Side!SocketsTypeOK
  <2>2. CASE ~wr
    BY <2>1, <2>2, <1>1
  <2>3. CASE wr
    <3>1. c \in Conn
      BY <2>3, <1>4
    <3>2. Side!Writes(c) \/ Side!WriteFails(c)
      BY <2>3, <1>1
    <3> HIDE DEF c, wr
    <3> QED
      BY <2>1, <2>3, <3>1, <3>2, SMTT(30) DEF Side!Writes, Side!WriteFails
  <2> QED
    BY <2>2, <2>3
<1> DEFINE new == Side!SlotAfter(i, lost, wr, gt)
<1>7. /\ new \in [fd : Fd \cup {0}, alive : BOOLEAN]
      /\ new.fd = IF lost \/ wr THEN 0 ELSE f
  <2>1. clis[i] \in [fd : Fd \cup {0}, alive : BOOLEAN]
    BY <1>2, SMTT(30) DEF SideInv, Side!TypeOK
  <2>2. Side!Alive(i, gt) \in BOOLEAN
    BY DEF Side!Alive
  <2> HIDE DEF lost, wr, gt
  <2>3. CASE lost
    <3>1. ~wr
      BY <2>3 DEF wr
    <3>2. new = [clis[i] EXCEPT !.fd = 0]
      BY <2>3, <3>1 DEF Side!SlotAfter
    <3> HIDE DEF new
    <3> QED
      BY <2>1, <2>3, <3>2, SMTT(30)
  <2>4. CASE ~lost /\ wr
    <3>1. new = Side!Unused
      BY <2>4 DEF Side!SlotAfter
    <3> HIDE DEF new
    <3> QED
      BY <2>4, <3>1, SMTT(30) DEF Side!Unused
  <2>5. CASE ~lost /\ ~wr
    <3>1. new = [clis[i] EXCEPT !.alive = Side!Alive(i, gt)]
      BY <2>5 DEF Side!SlotAfter
    <3> HIDE DEF new
    <3> QED
      BY <2>1, <2>2, <2>5, <3>1, SMTT(30)
  <2> QED
    BY <2>3, <2>4, <2>5
<1> HIDE DEF new, lost, wr, gt
<1>8. /\ clis' \in [Side!Slot -> [fd : Fd \cup {0}, alive : BOOLEAN]]
      /\ clis'[i].fd = IF lost \/ wr THEN 0 ELSE f
      /\ \A k \in Side!Slot : k # i => clis'[k] = clis[k]
  BY <1>1, <1>2, <1>7, SMTT(30) DEF new, SideInv, Side!TypeOK
<1>9. \A k, l \in Side!Slot : clis'[k].fd = clis'[l].fd => k = l \/ clis'[k].fd = 0
  BY <1>8, <1>2, SMTT(30) DEF SideInv
<1>10. fds' \in [Fd -> Conn \cup {Free}]
  <2>1. fds \in [Fd -> Conn \cup {Free}]
    BY DEF SideInv, Side!TypeOK, Side!SocketsTypeOK, Free
  <2>2. fds' = fds \/ fds' = [fds EXCEPT ![f] = Free]
    BY <1>1
  <2> HIDE DEF f
  <2> QED
    BY <2>1, <2>2, SMTT(30)
<1>11. Side!TypeOK'
  BY <1>1, <1>3, <1>5, <1>6, <1>8, <1>10 DEF SideInv, Side!TypeOK, Side!SocketsTypeOK, Free
<1>12. CASE lost \/ wr
  <2>1. f # 0
    BY <1>12 DEF lost, wr
  <2> PICK d : d = c
    OBVIOUS
  <2>2. /\ ConnInv' /\ Open' = Open \ {f} /\ ~Fresh(d)'
        /\ \A e \in Conn : Fresh(e)' => Fresh(e)
    <3>1. /\ fds' = [fds EXCEPT ![f] = Free] /\ UNCHANGED <<st, backlog>>
          /\ f \in Open /\ Kernel /\ ConnInv
      BY <2>1, <1>12, <1>1, <1>4, SideKernel DEF SideInv
    <3> HIDE DEF f
    <3> QED
      BY <3>1, ConnCloses
  <2>3. Side!Clients' = Side!Clients \ {f}
    BY <1>8, <1>12, <1>2, <2>1, SMTT(30) DEF Side!Clients, SideInv
  <2>4. \A e \in Conn : replies'[e] = 0 \/ (replies'[e] = 1 /\ ~Fresh(e)')
    <3>1. Fresh(d)
      BY <2>1, <1>4 DEF Fresh
    <3>2. \A e \in Conn : replies[e] = 0 \/ (replies[e] = 1 /\ ~Fresh(e))
      BY DEF SideInv
    <3> HIDE DEF c
    <3> QED
      BY <3>1, <3>2, <2>2, <1>6, SMTT(30)
  <2> QED
    BY <1>1, <1>3, <1>11, <2>2, <2>3, <2>4, <1>9 DEF SideInv
<1>13. CASE ~lost /\ ~wr
  <2>1. ConnInv' /\ Open' = Open /\ \A d \in Conn : Fresh(d)' <=> Fresh(d)
    BY <1>1, <1>13, ConnSame DEF SideInv
  <2>2. Side!Clients' = Side!Clients
    <3>1. \A k \in Side!Slot : clis'[k].fd = clis[k].fd
      BY <1>8, <1>13
    <3> QED
      BY <3>1 DEF Side!Clients
  <2>3. \A d \in Conn : replies'[d] = replies[d]
    BY <1>13, <1>6
  <2> QED
    BY <1>1, <1>3, <1>11, <2>1, <2>2, <2>3, <1>9 DEF SideInv
<1> QED
  BY <1>12, <1>13

\* A client's step, of which the server knows nothing yet.
LEMMA SideClient ==
    ASSUME SideInv, Side!Client /\ UNCHANGED Side!server
    PROVE SideInv'
<1>1. PICK c \in Conn : Side!connect(c) \/ Sends(c) \/ Side!hangup(c)
  BY DEF Side!Client, Side!send, Sends
<1>2. UNCHANGED <<clis, rfds, wfds, pc, i>>
  BY DEF Side!server
<1>3. /\ Side!SocketsTypeOK' /\ ConnInv' /\ Open' = Open
      /\ \A d \in Conn : Fresh(d)' => Fresh(d)
      /\ replies' = replies /\ (backlog # <<>> => backlog' # <<>>)
  BY <1>1, ClientSteps DEF SideInv, Side!TypeOK
<1>4. Side!Clients' = Side!Clients
  BY <1>2 DEF Side!Clients
<1> QED
  BY <1>2, <1>3, <1>4 DEF SideInv, Side!TypeOK

\* Every step of tcp_sidecar and its clients keeps its invariant.
LEMMA SideNext ==
    ASSUME SideInv, Side!Next \/ UNCHANGED Side!vars
    PROVE SideInv'
BY SideSelect, SideConnect, SideRw, SideClient DEF Side!Next, Side!Serve

-----------------------------------------------------------------------------
(* xhsdk_select_server.cpp *)

\* A descriptor reported ready is open, also while its slot still names one that
\* was closed.
XhsdkInv ==
    /\ Xhsdk!TypeOK /\ Xhsdk!EchoesRequests /\ ConnInv
    /\ rfds \ {Xhsdk!listenfd} \subseteq Open
    /\ pc = "connect" => backlog # <<>>

\* The select server starts with the listening socket and no client.
LEMMA XhsdkInit == Xhsdk!Init => XhsdkInv
<1> SUFFICES ASSUME Xhsdk!Init PROVE XhsdkInv
  OBVIOUS
<1>1. Xhsdk!TypeOK /\ Xhsdk!EchoesRequests
  BY SMTT(30) DEF Xhsdk!Init, Xhsdk!TypeOK, Xhsdk!SocketsInit, Xhsdk!SocketsTypeOK, Xhsdk!Slot, Xhsdk!EchoesRequests
<1>2. Open = {} /\ DOMAIN backlog = {}
  BY SMTT(30) DEF Xhsdk!Init, Xhsdk!SocketsInit, Open, Free, Xhsdk!Free, Side!Free
<1> QED
  BY <1>1, <1>2, SMTT(30) DEF Xhsdk!Init, XhsdkInv, ConnInv

\* What the select server's invariant says of the sockets.
LEMMA XhsdkKernel == XhsdkInv => Kernel /\ Side!SocketsTypeOK
BY DEF XhsdkInv, Xhsdk!TypeOK, Xhsdk!SocketsTypeOK, Kernel, Free, Side!Free, Xhsdk!Free, Side!SocketsTypeOK

\* select, with or without an error, changes no table.
LEMMA XhsdkSelect ==
    ASSUME XhsdkInv, Xhsdk!select \/ Xhsdk!fails \/ UNCHANGED Xhsdk!vars
    PROVE XhsdkInv'
<1>1. /\ UNCHANGED <<fds, backlog, st, sent, unread, replies, broken, clis, maxfd>>
      /\ rfds' \subseteq Fd \cup {Xhsdk!listenfd} /\ rfds' \ {Xhsdk!listenfd} \subseteq Open
      /\ pc' \in {"select", "connect", "rw", "exit"} /\ i' \in Xhsdk!Slot
      /\ pc' = "connect" => backlog # <<>>
  <2>1. CASE Xhsdk!select
    BY <2>1, SMTT(30) DEF XhsdkInv, Xhsdk!select, Xhsdk!kernel, Xhsdk!TypeOK, Xhsdk!Readable,
       Xhsdk!Slot, Xhsdk!FreeFds, Open, Free, Side!Free, Xhsdk!Free
  <2>2. CASE Xhsdk!fails
    BY <2>2, SMTT(30) DEF XhsdkInv, Xhsdk!fails, Xhsdk!kernel, Xhsdk!TypeOK
  <2>3. CASE UNCHANGED Xhsdk!vars
    <3>1. UNCHANGED <<fds, backlog, st, sent, unread, replies, broken, clis, rfds, maxfd, pc, i>>
      BY <2>3 DEF Xhsdk!vars, Xhsdk!server, Xhsdk!kernel
    <3> QED
      BY <3>1 DEF XhsdkInv, Xhsdk!TypeOK
  <2> QED
    BY <2>1, <2>2, <2>3
<1>2. ConnInv' /\ Open' = Open
  BY <1>1, ConnSame DEF XhsdkInv
<1> QED
  BY <1>1, <1>2 DEF XhsdkInv, Xhsdk!TypeOK, Xhsdk!SocketsTypeOK, Xhsdk!EchoesRequests

\* An accepted client is put in a free slot.
LEMMA XhsdkConnect ==
    ASSUME XhsdkInv, Xhsdk!select_on_socket_connect
    PROVE XhsdkInv'
<1>1. /\ backlog # <<>> /\ backlog' = Tail(backlog) /\ pc' = "rw"
      /\ UNCHANGED <<st, sent, unread, replies, broken, i>>
  BY DEF XhsdkInv, Xhsdk!select_on_socket_connect
<1>2. CASE UNCHANGED <<clis, fds, rfds, maxfd>>
  <2>1. Xhsdk!TypeOK'
    BY <1>1, <1>2, SMTT(30) DEF XhsdkInv, Xhsdk!TypeOK, Xhsdk!SocketsTypeOK
  <2>2. ConnInv' /\ Open' = Open
    BY <1>1, <1>2, XhsdkKernel, ConnRefuses DEF XhsdkInv
  <2> QED
    BY <1>1, <1>2, <2>1, <2>2 DEF XhsdkInv, Xhsdk!EchoesRequests
<1>3. ASSUME NEW k \in Xhsdk!Slot, NEW f \in Fd, Xhsdk!NewFd(f),
             clis' = [clis EXCEPT ![k] = f],
             fds' = [fds EXCEPT ![f] = Head(backlog)],
             rfds' = rfds \cup {f}, maxfd' = Xhsdk!Max(f)
      PROVE  XhsdkInv'
  <2>1. fds[f] = Free
    BY <1>3 DEF Xhsdk!NewFd, Xhsdk!FreeFds, Free, Side!Free, Xhsdk!Free
  <2>2. ConnInv' /\ Open' = Open \cup {f} /\ Head(backlog) \in Conn
    BY <1>1, <1>3, <2>1, XhsdkKernel, ConnAccepts DEF XhsdkInv
  <2>3. Xhsdk!TypeOK'
    BY <1>1, <1>3, <2>2, SMTT(30) DEF XhsdkInv, Xhsdk!TypeOK, Xhsdk!SocketsTypeOK, Xhsdk!Max
  <2> QED
    BY <1>1, <1>3, <2>2, <2>3, SMTT(30) DEF XhsdkInv, Xhsdk!EchoesRequests
<1> QED
  BY <1>2, <1>3 DEF Xhsdk!select_on_socket_connect

\* The clients are the same ones.
LEMMA XhsdkClients ==
    ASSUME NEW c \in Conn
    PROVE  /\ Xhsdk!connect(c) => Side!connect(c)
           /\ Xhsdk!send(c) => Sends(c)
           /\ Xhsdk!hangup(c) => Side!hangup(c)
BY DEF Xhsdk!connect, Side!connect, Xhsdk!send, Sends, Xhsdk!hangup, Side!hangup

\* A client that connects, sends or hangs up changes no table of the server.
LEMMA XhsdkClient ==
    ASSUME XhsdkInv, Xhsdk!Client /\ UNCHANGED Xhsdk!server
    PROVE XhsdkInv'
<1>1. PICK c \in Conn : Side!connect(c) \/ Sends(c) \/ Side!hangup(c)
  BY XhsdkClients DEF Xhsdk!Client
<1>2. UNCHANGED <<clis, rfds, maxfd, pc, i>>
  BY DEF Xhsdk!server
<1>3. /\ Side!SocketsTypeOK' /\ ConnInv' /\ Open' = Open
      /\ \A d \in Conn : sent'[d] - unread'[d] = sent[d] - unread[d]
      /\ replies' = replies /\ (backlog # <<>> => backlog' # <<>>)
  BY <1>1, ClientSteps, XhsdkKernel DEF XhsdkInv
<1>4. Xhsdk!EchoesRequests'
  BY <1>3 DEF XhsdkInv, Xhsdk!EchoesRequests
<1>5. Xhsdk!TypeOK'
  BY <1>2, <1>3 DEF XhsdkInv, Xhsdk!TypeOK, Xhsdk!SocketsTypeOK, Side!SocketsTypeOK, Xhsdk!Free, Side!Free
<1> QED
  BY <1>2, <1>3, <1>4, <1>5 DEF XhsdkInv

\* A descriptor that was reported ready is read and echoed.
LEMMA XhsdkEcho ==
    ASSUME XhsdkInv, NEW f \in Fd, f \in Open, Xhsdk!protocol_echo(f),
           UNCHANGED <<backlog, st, sent, clis, maxfd>>
    PROVE  /\ XhsdkInv'
<1>1. PICK c \in Conn : c = fds[f]
  BY SMTT(30) DEF XhsdkInv, Xhsdk!TypeOK, Xhsdk!SocketsTypeOK, Open, Free, Side!Free, Xhsdk!Free
<1> DEFINE U == /\ unread' \in [Conn -> Nat] /\ \A d \in Conn : unread'[d] <= unread[d]
                /\ Xhsdk!Got(c) => unread'[c] < unread[c]
<1>2. U
  <2>1. unread \in [Conn -> Nat]
    BY DEF XhsdkInv, Xhsdk!TypeOK, Xhsdk!SocketsTypeOK
  <2>2. Xhsdk!Reads(c, unread[c] > 0)
    BY <1>1 DEF Xhsdk!protocol_echo
  <2>3. CASE unread[c] > 0
    <3>1. PICK n \in 1..unread[c] : unread' = [unread EXCEPT ![c] = @ - n]
      BY <2>2, <2>3 DEF Xhsdk!Reads
    <3> QED
      BY <2>1, <3>1, SMTT(30)
  <2>4. CASE ~(unread[c] > 0)
    BY <2>1, <2>2, <2>4, SMTT(30) DEF Xhsdk!Reads, Xhsdk!Got
  <2> QED
    BY <2>3, <2>4
<1>3. /\ replies \in [Conn -> Nat] /\ broken \subseteq Conn /\ sent \in [Conn -> Nat]
      /\ unread \in [Conn -> Nat] /\ i \in Xhsdk!Slot /\ rfds \subseteq Fd \cup {Xhsdk!listenfd}
  BY DEF XhsdkInv, Xhsdk!TypeOK, Xhsdk!SocketsTypeOK
<1>4. \/ fds' = fds /\ rfds' = rfds
      \/ fds' = [fds EXCEPT ![f] = Free] /\ rfds' = rfds \ {f}
  BY DEF Xhsdk!protocol_echo, Xhsdk!Drop, Free, Side!Free, Xhsdk!Free
<1>5. pc' \in {"select", "rw", "exit"} /\ i' \in Xhsdk!Slot
  <2>1. Xhsdk!Onwards \/ (pc' = "exit" /\ i' = i)
    BY DEF Xhsdk!protocol_echo
  <2> QED
    BY <2>1, <1>3, SMTT(30) DEF Xhsdk!Onwards, Xhsdk!Slot
<1>6. /\ replies' \in [Conn -> Nat] /\ broken' \subseteq Conn
      /\ \A d \in Conn : replies'[d] = replies[d] \/ (d = c /\ Xhsdk!Got(c) /\ replies'[d] = replies[d] + 1)
  <2>1. \/ UNCHANGED <<replies, broken>>
        \/ Xhsdk!Got(c) /\ Xhsdk!Writes(c)
        \/ Xhsdk!WriteFails(c)
    BY <1>1 DEF Xhsdk!protocol_echo
  <2> QED
    BY <2>1, <1>3, SMTT(30) DEF Xhsdk!Writes, Xhsdk!WriteFails
<1>7. Xhsdk!EchoesRequests'
  BY <1>2, <1>3, <1>6, SMTT(30) DEF XhsdkInv, Xhsdk!EchoesRequests
<1>8. ConnInv' /\ rfds' \ {Xhsdk!listenfd} \subseteq Open'
  <2>1. CASE fds' = fds /\ rfds' = rfds
    BY <2>1, ConnSame DEF XhsdkInv
  <2>2. CASE fds' = [fds EXCEPT ![f] = Free] /\ rfds' = rfds \ {f}
    <3>1. ConnInv' /\ Open' = Open \ {f}
      BY <1>1, <2>2, ConnCloses, XhsdkKernel DEF XhsdkInv
    <3> QED
      BY <3>1, <2>2 DEF XhsdkInv
  <2> QED
    BY <1>4, <2>1, <2>2
<1>9. fds' \in [Fd -> Conn \cup {Free}]
  BY <1>4, XhsdkKernel, SMTT(30) DEF Kernel
<1>10. rfds' \subseteq Fd \cup {Xhsdk!listenfd}
  BY <1>3, <1>4
<1>11. Xhsdk!TypeOK'
  BY <1>2, <1>5, <1>6, <1>9, <1>10 DEF XhsdkInv, Xhsdk!TypeOK, Xhsdk!SocketsTypeOK, Free, Side!Free, Xhsdk!Free
<1> QED
  BY <1>5, <1>7, <1>8, <1>11 DEF XhsdkInv

\* Each ready client is read or closed, and its slot with it.
LEMMA XhsdkRw ==
    ASSUME XhsdkInv, Xhsdk!select_on_socket_rw
    PROVE XhsdkInv'
<1>1. CASE clis[i] \in rfds \ {0}
  <2>1. clis[i] \in Fd
    BY <1>1, SMTT(30) DEF XhsdkInv, Xhsdk!TypeOK
  <2>2. clis[i] \in Open
    BY <2>1, <1>1 DEF XhsdkInv, Side!listenfd, Xhsdk!listenfd
  <2> QED
    BY <1>1, <2>1, <2>2, XhsdkEcho DEF Xhsdk!select_on_socket_rw
<1>2. CASE clis[i] \notin rfds \ {0}
  <2>1. /\ UNCHANGED <<fds, backlog, st, sent, unread, replies, broken, clis, maxfd, rfds>>
        /\ Xhsdk!Onwards
    BY <1>2 DEF Xhsdk!select_on_socket_rw
  <2>2. pc' \in {"select", "rw"} /\ i' \in Xhsdk!Slot
    BY <2>1, SMTT(30) DEF XhsdkInv, Xhsdk!TypeOK, Xhsdk!Onwards, Xhsdk!Slot
  <2>3. ConnInv' /\ Open' = Open
    BY <2>1, ConnSame DEF XhsdkInv
  <2> QED
    BY <2>1, <2>2, <2>3 DEF XhsdkInv, Xhsdk!TypeOK, Xhsdk!SocketsTypeOK, Xhsdk!EchoesRequests
<1> QED
  BY <1>1, <1>2

\* Every step of the select server and its clients keeps its invariant.
LEMMA XhsdkNext ==
    ASSUME XhsdkInv, Xhsdk!Next \/ UNCHANGED Xhsdk!vars
    PROVE XhsdkInv'
BY XhsdkSelect, XhsdkConnect, XhsdkRw, XhsdkClient DEF Xhsdk!Next, Xhsdk!Serve

-----------------------------------------------------------------------------
(* hello_epoll.c *)

\* An event not yet handled is about an open descriptor, which is still as ready as
\* it was reported; a second event about it would find it changed.
Reported(e) ==
    IF e.fd = Hello!listenfd THEN backlog # <<>>
    ELSE e.fd \in Open /\ (e.in => Hello!Readable(e.fd)) /\ (e.out => Hello!Writable(e.fd))

HelloInv ==
    /\ Hello!TypeOK /\ Hello!OneReplyPerRead /\ ConnInv
    /\ \A f \in Open \ epoll : st[fds[f]] = "closed"
    /\ \A e \in events : Reported(e)
    /\ \A e, g \in events : e.fd = g.fd => e = g

USE DEF Free, Side!Free, Hello!Free, Hello!listenfd

\* What the epoll server's invariant says of the sockets.
LEMMA HelloKernel == HelloInv => Kernel /\ Side!SocketsTypeOK
BY DEF HelloInv, Hello!TypeOK, Hello!SocketsTypeOK, Kernel, Side!SocketsTypeOK

\* A descriptor that is not free is open.
LEMMA HelloOpen == Fd \ Hello!FreeFds = Open
BY DEF Hello!FreeFds, Open

\* The epoll server starts with the listening socket and no client.
LEMMA HelloInit == Hello!Init => HelloInv
<1> SUFFICES ASSUME Hello!Init PROVE HelloInv
  OBVIOUS
<1>1. Hello!TypeOK /\ Hello!OneReplyPerRead
  BY SMTT(30) DEF Hello!Init, Hello!TypeOK, Hello!SocketsInit, Hello!SocketsTypeOK, Hello!OneReplyPerRead
<1>2. Open = {} /\ DOMAIN backlog = {} /\ events = {}
  BY SMTT(30) DEF Hello!Init, Hello!SocketsInit, Open
<1> QED
  BY <1>1, <1>2, SMTT(30) DEF HelloInv, ConnInv

\* A step that changes nothing keeps the invariant.
LEMMA HelloSame ==
    ASSUME HelloInv, UNCHANGED Hello!vars
    PROVE  HelloInv'
<1>1. UNCHANGED <<fds, backlog, st, sent, unread, replies, broken>>
  BY DEF Hello!vars, Hello!kernel
<1>2. UNCHANGED <<euraka_ping, epoll, events, reads, writes, pc, edge, pending>>
  BY DEF Hello!vars, Hello!server
<1>3. ConnInv' /\ Open' = Open
  BY <1>1, ConnSame DEF HelloInv
<1>4. \A e \in events : Reported(e) => Reported(e)'
  BY <1>1, <1>2, <1>3 DEF Reported, Hello!Readable, Hello!Writable
<1>5. Hello!TypeOK'
  BY <1>1, <1>2 DEF HelloInv, Hello!TypeOK, Hello!SocketsTypeOK, Hello!FreeFds
<1> QED
  BY <1>1, <1>2, <1>3, <1>4, <1>5 DEF HelloInv, Hello!OneReplyPerRead

\* epoll_wait returns events of registered descriptors.
LEMMA HelloWait ==
    ASSUME HelloInv, Hello!epoll_wait
    PROVE  HelloInv'
<1>1. /\ UNCHANGED <<fds, backlog, st, sent, unread, replies, broken>>
      /\ UNCHANGED <<euraka_ping, epoll, pending, reads, writes, pc>>
  BY DEF Hello!epoll_wait, Hello!kernel
<1>2. PICK S \in SUBSET Hello!Ready : events' = {Hello!Event(f) : f \in S} /\ edge' = edge \ S
  BY DEF Hello!epoll_wait
<1>3. ConnInv' /\ Open' = Open
  BY <1>1, ConnSame DEF HelloInv
<1>4. \A f \in S : \/ f = Hello!listenfd /\ backlog # <<>>
                   \/ f \in Open /\ f # Hello!listenfd
  BY <1>2, HelloOpen DEF Hello!Ready, HelloInv, Hello!TypeOK, Side!listenfd
<1>5. \A f \in S : Hello!Event(f).fd = f /\ Hello!Event(f) \in [fd : Fd \cup {Hello!listenfd}, in : BOOLEAN, out : BOOLEAN]
  <2> TAKE f \in S
  <2>1. Hello!Readable(f) \in BOOLEAN /\ Hello!Writable(f) \in BOOLEAN
    BY DEF Hello!Readable, Hello!Writable
  <2>2. f \in Fd \cup {Hello!listenfd}
    BY <1>4 DEF Open
  <2> QED
    BY <2>1, <2>2, SMTT(30) DEF Hello!Event
<1>6. \A e \in events' : Reported(e)'
  <2> SUFFICES ASSUME NEW e, NEW f \in S, e = Hello!Event(f) PROVE Reported(e)'
    BY <1>2
  <2>1. CASE f = Hello!listenfd
    <3>1. e.fd = Hello!listenfd /\ backlog' # <<>>
      BY <2>1, <1>1, <1>4, <1>5
    <3> QED
      BY <3>1 DEF Reported
  <2>2. CASE f # Hello!listenfd
    <3>1. f \in Open'
      BY <2>2, <1>3, <1>4
    <3>2. e.fd = f /\ e.in = Hello!Readable(f) /\ e.out = Hello!Writable(f)
      BY <2>2, SMTT(30) DEF Hello!Event
    <3>3. (Hello!Readable(f) <=> Hello!Readable(f)') /\ (Hello!Writable(f) <=> Hello!Writable(f)')
      BY <1>1 DEF Hello!Readable, Hello!Writable
    <3> QED
      BY <2>2, <3>1, <3>2, <3>3 DEF Reported
  <2> QED
    BY <2>1, <2>2
<1>7. Hello!FreeFds' = Hello!FreeFds
  BY <1>1 DEF Hello!FreeFds
<1>8. Hello!TypeOK'
  <2>1. edge' \subseteq edge
    BY <1>2
  <2>2. events' \subseteq [fd : Fd \cup {Hello!listenfd}, in : BOOLEAN, out : BOOLEAN]
    <3> SUFFICES ASSUME NEW f \in S
                 PROVE  Hello!Event(f) \in [fd : Fd \cup {Hello!listenfd}, in : BOOLEAN, out : BOOLEAN]
      BY <1>2
    <3> QED
      BY <1>5
  <2> QED
    BY <1>1, <1>7, <2>1, <2>2 DEF HelloInv, Hello!TypeOK, Hello!SocketsTypeOK
<1>9. \A e, g \in events' : e.fd = g.fd => e = g
  <2> SUFFICES ASSUME NEW f \in S, NEW g \in S, Hello!Event(f).fd = Hello!Event(g).fd
               PROVE  Hello!Event(f) = Hello!Event(g)
    BY <1>2
  <2> QED
    BY <1>5
<1> QED
  BY <1>1, <1>3, <1>6, <1>8, <1>9 DEF HelloInv, Hello!OneReplyPerRead

\* The clients of the epoll server do what those of the others do.
LEMMA HelloClients ==
    ASSUME NEW c \in Conn
    PROVE  /\ Hello!connect(c) => Side!connect(c)
           /\ Hello!send(c) => Sends(c)
           /\ Hello!hangup(c) => Side!hangup(c)
BY DEF Hello!connect, Side!connect, Hello!send, Sends, Hello!hangup, Side!hangup

\* What was reported stays so while clients only add requests, hang up and read.
LEMMA HelloClient ==
    ASSUME HelloInv, Hello!Client /\ UNCHANGED Hello!server
    PROVE  HelloInv'
<1>1. PICK c \in Conn :
         \/ Side!connect(c) /\ UNCHANGED <<edge, pending>>
         \/ /\ Sends(c) \/ Side!hangup(c)
            /\ edge' = edge \cup Hello!Registered(c) /\ UNCHANGED pending
         \/ /\ pending' = [pending EXCEPT ![c] = 0]
            /\ edge' = edge \/ edge' = edge \cup Hello!Registered(c)
            /\ UNCHANGED <<fds, backlog, st, sent, unread, replies, broken>>
  <2>1. PICK c \in Conn :
         \/ Hello!connect(c) /\ UNCHANGED <<edge, pending>>
         \/ /\ Hello!send(c) \/ Hello!hangup(c)
            /\ edge' = edge \cup Hello!Registered(c) /\ UNCHANGED pending
         \/ /\ pending' = [pending EXCEPT ![c] = 0]
            /\ edge' = edge \/ edge' = edge \cup Hello!Registered(c)
            /\ UNCHANGED <<fds, backlog, st, sent, unread, replies, broken>>
    BY DEF Hello!Client, Hello!kernel
  <2> QED
    BY <2>1, HelloClients
<1>2. UNCHANGED <<euraka_ping, epoll, events, reads, writes, pc>>
  BY DEF Hello!server
<1>3. /\ Side!SocketsTypeOK' /\ ConnInv' /\ Open' = Open /\ fds' = fds
      /\ \A d \in Conn : unread[d] <= unread'[d] /\ (st[d] = "closed" => st'[d] = "closed")
      /\ backlog # <<>> => backlog' # <<>>
  <2>1. CASE Side!connect(c) \/ Sends(c) \/ Side!hangup(c)
    BY <2>1, ClientSteps, HelloKernel DEF HelloInv
  <2>2. CASE UNCHANGED <<fds, backlog, st, sent, unread, replies, broken>>
    <3>1. ConnInv' /\ Open' = Open
      BY <2>2, ConnSame DEF HelloInv
    <3>2. \A d \in Conn : unread[d] <= unread[d]
      BY HelloKernel, SMTT(30) DEF Side!SocketsTypeOK
    <3> QED
      BY <2>2, <3>1, <3>2, HelloKernel DEF Side!SocketsTypeOK
  <2> QED
    BY <1>1, <2>1, <2>2
<1>4. /\ pending' \in [Conn -> 0..SndBuf]
      /\ \A d \in Conn : pending'[d] <= pending[d]
  BY <1>1, SMTT(30) DEF HelloInv, Hello!TypeOK
<1>5. \A f \in Open : fds[f] \in Conn
  BY HelloKernel DEF Kernel, Open
<1>6. \A e \in events : Reported(e)'
  <2> TAKE e \in events
  <2>1. Reported(e)
    BY DEF HelloInv
  <2>2. CASE e.fd = Hello!listenfd
    BY <2>1, <2>2, <1>3 DEF Reported
  <2>3. CASE e.fd # Hello!listenfd
    <3>1. PICK d \in Conn : d = fds[e.fd] /\ d = fds'[e.fd]
      BY <2>1, <2>3, <1>3, <1>5 DEF Reported
    <3>2. unread \in [Conn -> Nat] /\ unread' \in [Conn -> Nat] /\ pending \in [Conn -> 0..SndBuf]
      BY <1>3, HelloKernel DEF Side!SocketsTypeOK, HelloInv, Hello!TypeOK
    <3>3. Hello!Readable(e.fd) => Hello!Readable(e.fd)'
      BY <2>3, <3>1, <3>2, <1>3, SMTT(30) DEF Hello!Readable
    <3>4. Hello!Writable(e.fd) => Hello!Writable(e.fd)'
      BY <2>3, <3>1, <3>2, <1>3, <1>4, SMTT(30) DEF Hello!Writable
    <3> QED
      BY <2>1, <2>3, <3>3, <3>4, <1>3 DEF Reported
  <2> QED
    BY <2>2, <2>3
<1>7. Hello!FreeFds' = Hello!FreeFds
  BY <1>3 DEF Hello!FreeFds
<1>8. edge' \subseteq epoll
  BY <1>1 DEF HelloInv, Hello!TypeOK, Hello!Registered
<1>9. Hello!TypeOK'
  BY <1>2, <1>3, <1>4, <1>7, <1>8 DEF HelloInv, Hello!TypeOK, Hello!SocketsTypeOK, Side!SocketsTypeOK
<1>10. \A f \in Open' \ epoll' : st'[fds'[f]] = "closed"
  BY <1>2, <1>3, <1>5 DEF HelloInv
<1> QED
  BY <1>2, <1>3, <1>6, <1>9, <1>10 DEF HelloInv, Hello!OneReplyPerRead

\* accept()
LEMMA HelloConnect ==
    ASSUME HelloInv, NEW e \in events, events' = events \ {e}, Hello!handle_socket_connect(e)
    PROVE  HelloInv'
<1>1. PICK f \in Fd : /\ Hello!NewFd(f) /\ fds' = [fds EXCEPT ![f] = Head(backlog)]
                      /\ epoll' = epoll \cup {f} /\ edge' = edge \cup {f}
  BY DEF Hello!handle_socket_connect
<1>2. /\ backlog' = Tail(backlog) /\ backlog # <<>> /\ e.fd = Hello!listenfd
      /\ UNCHANGED <<st, sent, unread, replies, broken, euraka_ping, pending, reads, writes, pc>>
  BY DEF Hello!handle_socket_connect, HelloInv, Reported
<1>3. fds[f] = Free
  BY <1>1 DEF Hello!NewFd, Hello!FreeFds
<1>4. ConnInv' /\ Open' = Open \cup {f} /\ Head(backlog) \in Conn
  BY <1>1, <1>2, <1>3, ConnAccepts, HelloKernel DEF HelloInv
<1>5. fds' \in [Fd -> Conn \cup {Free}] /\ (\A g \in Fd : g # f => fds'[g] = fds[g]) /\ backlog' \in Seq(Conn)
  BY <1>1, <1>2, <1>4, HelloKernel, SMTT(30) DEF Kernel
<1>6. \A g \in events' : Reported(g)'
  <2> TAKE g \in events'
  <2>1. Reported(g) /\ g.fd # Hello!listenfd
    BY <1>2 DEF HelloInv
  <2>2. g.fd \in Open /\ g.fd # f /\ g.fd \in Fd
    BY <2>1, <1>3 DEF Reported, Open
  <2>3. fds'[g.fd] = fds[g.fd]
    BY <2>2, <1>5
  <2>4. Hello!Readable(g.fd) => Hello!Readable(g.fd)'
    BY <2>1, <2>3, <1>2 DEF Hello!Readable
  <2>5. Hello!Writable(g.fd) => Hello!Writable(g.fd)'
    BY <2>1, <2>3, <1>2 DEF Hello!Writable
  <2> QED
    BY <2>1, <2>2, <2>4, <2>5, <1>4 DEF Reported
<1>7. (Fd \ Hello!FreeFds)' = Open'
  BY DEF Hello!FreeFds, Open
<1>8. epoll' \subseteq Open' /\ edge' \subseteq epoll'
  BY <1>1, <1>4, HelloOpen DEF HelloInv, Hello!TypeOK
<1>9. Hello!TypeOK'
  BY <1>2, <1>5, <1>7, <1>8 DEF HelloInv, Hello!TypeOK, Hello!SocketsTypeOK
<1>10. \A g \in Open' \ epoll' : st'[fds'[g]] = "closed"
  BY <1>1, <1>2, <1>4, <1>5 DEF HelloInv, Open
<1> QED
  BY <1>2, <1>4, <1>6, <1>9, <1>10 DEF HelloInv, Hello!OneReplyPerRead

\* A failing accept() ends the server.
LEMMA HelloFails ==
    ASSUME HelloInv, NEW e \in events, events' = events \ {e}, Hello!connect_fails(e)
    PROVE  HelloInv'
<1>1. /\ UNCHANGED <<fds, backlog, st, sent, unread, replies, broken>> /\ pc' = "exit"
      /\ UNCHANGED <<euraka_ping, epoll, edge, pending, reads, writes>>
  BY DEF Hello!connect_fails, Hello!kernel
<1>2. ConnInv' /\ Open' = Open /\ Hello!FreeFds' = Hello!FreeFds
  BY <1>1, ConnSame DEF HelloInv, Hello!FreeFds
<1>3. \A g \in events : Reported(g) => Reported(g)'
  BY <1>1, <1>2 DEF Reported, Hello!Readable, Hello!Writable
<1>4. Hello!TypeOK'
  BY <1>1, <1>2 DEF HelloInv, Hello!TypeOK, Hello!SocketsTypeOK
<1> QED
  BY <1>1, <1>2, <1>3, <1>4 DEF HelloInv, Hello!OneReplyPerRead

\* The read and the reply of one event change nothing that another event reported.
LEMMA HelloFd ==
    ASSUME HelloInv, NEW e \in events, events' = events \ {e}, Hello!handle_fd(e)
    PROVE  HelloInv'
<1> PICK f : f = e.fd
  OBVIOUS
<1>1. f # Hello!listenfd /\ f \in Open /\ (e.in => Hello!Readable(f)) /\ (e.out => Hello!Writable(f))
  BY DEF Hello!handle_fd, HelloInv, Reported
<1>2. PICK c \in Conn : c = fds[f]
  BY <1>1, HelloKernel DEF Kernel, Open
<1>3. /\ unread \in [Conn -> Nat] /\ replies \in [Conn -> Nat] /\ broken \subseteq Conn
      /\ pending \in [Conn -> 0..SndBuf] /\ reads \in Nat /\ writes \in Nat /\ euraka_ping \in {0, 1}
      /\ e.in \in BOOLEAN /\ e.out \in BOOLEAN /\ epoll \subseteq Open /\ edge \subseteq epoll
      /\ pc \in {"run", "exit", "killed"}
  <2>1. e \in [fd : Fd \cup {Hello!listenfd}, in : BOOLEAN, out : BOOLEAN]
    BY DEF HelloInv, Hello!TypeOK
  <2>2. e.in \in BOOLEAN /\ e.out \in BOOLEAN
    BY <2>1, SMTT(30)
  <2> QED
    BY <2>2, HelloOpen DEF HelloInv, Hello!TypeOK, Hello!SocketsTypeOK
<1> DEFINE got == e.in /\ unread[c] > 0
           ended == e.in /\ ~got
<1>4. /\ Hello!Reads(c, got)
      /\ reads' = IF e.in THEN reads + 1 ELSE reads
      /\ euraka_ping' = IF e.out THEN 0 ELSE IF e.in THEN 1 ELSE euraka_ping
      /\ UNCHANGED <<fds, backlog, st, sent>>
  BY <1>2 DEF Hello!handle_fd, Hello!handle_fd_read, Hello!PingAfter
<1>5. \/ Hello!Replies(e) /\ Hello!handle_fd_write(f, ended)
      \/ /\ IF ended THEN Hello!Removes(f) ELSE UNCHANGED <<epoll, edge>>
         /\ UNCHANGED <<replies, broken, pending, writes, pc>>
  BY <1>2 DEF Hello!handle_fd, Hello!handle_fd_read
<1>6. unread' \in [Conn -> Nat] /\ \A d \in Conn : d # c => unread'[d] = unread[d]
  <2>1. CASE ~got
    BY <2>1, <1>3, <1>4 DEF Hello!Reads
  <2>2. CASE got
    <3>1. PICK n \in 1..unread[c] : unread' = [unread EXCEPT ![c] = @ - n]
      BY <2>2, <1>4 DEF Hello!Reads
    <3> HIDE DEF got
    <3> QED
      BY <3>1, <1>2, <1>3, SMTT(30)
  <2> QED
    BY <2>1, <2>2
<1>7. ended => st[c] = "closed"
  BY <1>1, <1>2 DEF Hello!Readable
<1> HIDE DEF got, ended
<1> DEFINE Gone == epoll' = epoll \ {f} /\ edge' = edge \ {f} /\ st[c] = "closed"
           Kept == epoll' = epoll /\ edge' = edge
<1>8. /\ Gone \/ Kept
      /\ \/ UNCHANGED <<replies, broken, pending, writes>> /\ pc' \in {"run", "exit", "killed"}
         \/ Hello!WriteFails(c) /\ UNCHANGED <<pending, writes, pc>>
         \/ /\ Hello!Replies(e) /\ Hello!Writes(c) /\ writes' = writes + 1 /\ UNCHANGED pc
            /\ pending' = [pending EXCEPT ![c] = IF st[c] = "closed" THEN @ ELSE @ + 1]
  <2>1. CASE Hello!Replies(e) /\ Hello!handle_fd_write(f, ended)
    <3>1. \/ /\ Hello!Writes(c) /\ writes' = writes + 1 /\ UNCHANGED pc
             /\ pending' = [pending EXCEPT ![c] = IF st[c] = "closed" THEN @ ELSE @ + 1]
             /\ IF ended THEN Hello!Removes(f) ELSE UNCHANGED <<epoll, edge>>
          \/ Hello!WriteFails(c) /\ Hello!Removes(f) /\ UNCHANGED <<pending, writes, pc>>
          \/ pc' = "killed" /\ UNCHANGED <<replies, broken, pending, writes, epoll, edge>>
      BY <2>1, <1>2 DEF Hello!handle_fd_write
    <3> QED
      BY <2>1, <3>1, <1>7 DEF Hello!Removes, Hello!WriteFails
  <2>2. CASE /\ IF ended THEN Hello!Removes(f) ELSE UNCHANGED <<epoll, edge>>
             /\ UNCHANGED <<replies, broken, pending, writes, pc>>
    BY <2>2, <1>3, <1>7 DEF Hello!Removes
  <2> QED
    BY <1>5, <2>1, <2>2
<1>9. /\ replies' \in [Conn -> Nat] /\ broken' \subseteq Conn
      /\ pending' \in [Conn -> 0..SndBuf] /\ \A d \in Conn : d # c => pending'[d] = pending[d]
      /\ pc' \in {"run", "exit", "killed"}
  <2>1. e.out => pending[c] < SndBuf \/ st[c] = "closed"
    BY <1>1, <1>2 DEF Hello!Writable
  <2> QED
    BY <1>2, <1>3, <1>8, <2>1, SMTT(30) DEF Hello!WriteFails, Hello!Writes, Hello!Replies
<1>10. /\ writes' \in Nat /\ reads' \in Nat /\ euraka_ping' \in {0, 1}
       /\ writes' + euraka_ping' <= reads'
  <2>1. writes' = writes \/ (Hello!Replies(e) /\ writes' = writes + 1)
    BY <1>8
  <2>2. writes + euraka_ping <= reads
    BY DEF HelloInv, Hello!OneReplyPerRead
  <2> QED
    BY <2>1, <2>2, <1>3, <1>4, SMTT(30) DEF Hello!Replies
<1>11. ConnInv' /\ Open' = Open /\ Hello!FreeFds' = Hello!FreeFds
  BY <1>4, ConnSame DEF HelloInv, Hello!FreeFds
<1>12. \A g \in events' : Reported(g)'
  <2> TAKE g \in events'
  <2>1. Reported(g) /\ g.fd # f
    BY DEF HelloInv
  <2>2. CASE g.fd = Hello!listenfd
    BY <2>1, <2>2, <1>4 DEF Reported
  <2>3. CASE g.fd # Hello!listenfd
    <3>1. PICK d \in Conn : d = fds[g.fd] /\ g.fd \in Open
      BY <2>1, <2>3, HelloKernel DEF Reported, Kernel, Open
    <3>2. d # c
      BY <3>1, <2>1, <1>1, <1>2 DEF HelloInv, ConnInv
    <3>3. fds' = fds /\ st' = st /\ unread'[d] = unread[d] /\ pending'[d] = pending[d]
      BY <3>2, <1>4, <1>6, <1>9
    <3>4. Hello!Readable(g.fd) => Hello!Readable(g.fd)'
      BY <2>3, <3>1, <3>3 DEF Hello!Readable
    <3>5. Hello!Writable(g.fd) => Hello!Writable(g.fd)'
      BY <2>3, <3>1, <3>3 DEF Hello!Writable
    <3> QED
      BY <2>1, <2>3, <3>4, <3>5, <1>11 DEF Reported
  <2> QED
    BY <2>2, <2>3
<1>13. edge' \subseteq epoll' /\ epoll' \subseteq epoll
  BY <1>3, <1>8
<1>14. Hello!TypeOK'
  BY <1>4, <1>6, <1>9, <1>10, <1>11, <1>13 DEF HelloInv, Hello!TypeOK, Hello!SocketsTypeOK
<1>15. \A g \in Open' \ epoll' : st'[fds'[g]] = "closed"
  BY <1>2, <1>4, <1>8, <1>11 DEF HelloInv
<1> QED
  BY <1>4, <1>10, <1>11, <1>12, <1>14, <1>15 DEF HelloInv, Hello!OneReplyPerRead

\* Every step of the epoll server and its clients keeps its invariant.
LEMMA HelloNext ==
    ASSUME HelloInv, Hello!Next \/ UNCHANGED Hello!vars
    PROVE HelloInv'
BY HelloSame, HelloWait, HelloConnect, HelloFails, HelloFd, HelloClient DEF Hello!Next, Hello!Serve, Hello!handle

-----------------------------------------------------------------------------
(* The process, which runs one of them. *)

\* The test never changes, and the invariant is that of the server that runs.
TcpInv == /\ test = "sidecar" => SideInv
          /\ test = "xhsdk" => XhsdkInv
          /\ test = "epoll" => HelloInv

\* The three invariants hold in every state of the three servers.
LEMMA TcpInductive == TcpSpec => []TcpInv
<1>1. TcpInit => TcpInv
  BY SideInit, XhsdkInit, HelloInit DEF TcpInit, TcpInv, NoServer
<1>2. TcpInv /\ [TcpNext]_tcpVars => TcpInv'
  <2> SUFFICES ASSUME TcpInv, [TcpNext]_tcpVars PROVE TcpInv'
    OBVIOUS
  <2>1. /\ test' = test
        /\ test = "sidecar" => Side!Next \/ UNCHANGED Side!vars
        /\ test = "xhsdk" => Xhsdk!Next \/ UNCHANGED Xhsdk!vars
        /\ test = "epoll" => Hello!Next \/ UNCHANGED Hello!vars
    <3>1. CASE TcpNext
      BY <3>1 DEF TcpNext, SideStep, XhsdkStep, EpollStep
    <3>2. CASE UNCHANGED tcpVars
      BY <3>2 DEF tcpVars, kernel, selects, epolls, Side!vars, Side!kernel, Side!server,
         Xhsdk!vars, Xhsdk!kernel, Xhsdk!server, Hello!vars, Hello!kernel, Hello!server
    <3> QED
      BY <3>1, <3>2
  <2> QED
    BY <2>1, SideNext, XhsdkNext, HelloNext DEF TcpInv
<1> QED
  BY <1>1, <1>2, PTL DEF TcpSpec

\* The state of the server that runs has its type: every descriptor a handler of the
\* select() loops or of hello_epoll.c uses is one of the process, every slot one of
\* the table, and no reply goes to a full buffer.
THEOREM TypeCorrect == TcpSpec => []TypeOK
<1>1. TcpInv => TypeOK
  BY DEF TcpInv, TypeOK, SideInv, XhsdkInv, HelloInv
<1> QED
  BY <1>1, TcpInductive, PTL

\* select-srv.cpp: between two rounds of select() the descriptors open are exactly those
\* in the table.  hello_epoll.c: only a connection whose client has left is out of epoll.
THEOREM Tracked == TcpSpec => []DescriptorsTracked
<1>1. SideInv => Side!Tracked
  BY DEF SideInv, Side!Tracked, Open
<1>2. HelloInv => Hello!NoneDropped
  BY HelloOpen DEF HelloInv, Hello!NoneDropped, ConnInv, Hello!FreeFds, Open
<1>3. TcpInv => DescriptorsTracked
  BY <1>1, <1>2 DEF TcpInv, DescriptorsTracked
<1> QED
  BY <1>3, TcpInductive, PTL

\* One reply per connection from select-srv.cpp, no echo of what xhsdk_select_server.cpp
\* did not read, and one reply per read from hello_epoll.c with its one flag.
THEOREM Replies == TcpSpec => []NoExtraReplies
<1>1. SideInv => Side!OneReply
  <2> SUFFICES ASSUME SideInv, NEW c \in Conn, replies[c] # 0
               PROVE  replies[c] = 1 /\ ~Side!Accepted(c)
    BY DEF Side!OneReply
  <2>1. replies[c] = 1 /\ ~Fresh(c)
    BY DEF SideInv
  <2>2. Side!Accepted(c) => Fresh(c)
    BY DEF Side!Accepted, Fresh, Open
  <2> QED
    BY <2>1, <2>2
<1>2. TcpInv => NoExtraReplies
  BY <1>1 DEF TcpInv, NoExtraReplies, XhsdkInv, HelloInv
<1> QED
  BY <1>2, TcpInductive, PTL
=============================================================================

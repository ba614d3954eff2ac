------------------------------- MODULE Sockets ------------------------------
(***************************************************************************)
(* The kernel's side of a TCP server and its clients, as the three small   *)
(* servers of the repository use it: sockets in blocking or non-blocking   *)
(* mode, with requests and replies counted and not spelled out.            *)
(***************************************************************************)
EXTENDS Integers, Sequences, FiniteSets

CONSTANTS Conn,     \* the connections clients may make
          Fd,       \* the descriptors left for accepted connections
          MaxSend   \* bound on the requests of all clients

VARIABLES fds,      \* the connection behind each descriptor
          backlog,  \* connections not yet accepted
          st,       \* "new", "open" or "closed": what the client did last
          sent,     \* requests the client sent
          unread,   \* of them, those the server has not read
          replies,  \* replies written to the client
          broken    \* connections whose client answered a reply with a reset

kernel == <<fds, backlog, st, sent, unread, replies, broken>>

listenfd == 3
Free == "free"

SocketsInit ==
    /\ fds = [f \in Fd |-> Free] /\ backlog = <<>>
    /\ st = [c \in Conn |-> "new"]
    /\ sent = [c \in Conn |-> 0] /\ unread = [c \in Conn |-> 0]
    /\ replies = [c \in Conn |-> 0] /\ broken = {}

SocketsTypeOK ==
    /\ fds \in [Fd -> Conn \cup {Free}] /\ backlog \in Seq(Conn)
    /\ st \in [Conn -> {"new", "open", "closed"}]
    /\ sent \in [Conn -> Nat] /\ unread \in [Conn -> Nat]
    /\ replies \in [Conn -> Nat] /\ broken \subseteq Conn

-----------------------------------------------------------------------------
(* What a client does. *)

Accepted(c) == \E f \in Fd : fds[f] = c
Waiting(c) == \E k \in DOMAIN backlog : backlog[k] = c

connect(c) ==
    /\ st[c] = "new"
    /\ st' = [st EXCEPT ![c] = "open"]
    /\ backlog' = Append(backlog, c)
    /\ UNCHANGED <<fds, sent, unread, replies, broken>>

\* The requests of all clients so far, numbered.
Requests == {r \in Conn \X (1..MaxSend) : r[2] <= sent[r[1]]}

\* Also before the server has accepted the connection.
send(c) ==
    /\ st[c] = "open" /\ Cardinality(Requests) < MaxSend /\ (Accepted(c) \/ Waiting(c))
    /\ sent' = [sent EXCEPT ![c] = @ + 1]
    /\ unread' = [unread EXCEPT ![c] = @ + 1]
    /\ UNCHANGED <<fds, backlog, st, replies, broken>>

hangup(c) ==
    /\ st[c] = "open"
    /\ st' = [st EXCEPT ![c] = "closed"]
    /\ UNCHANGED <<fds, backlog, sent, unread, replies, broken>>

-----------------------------------------------------------------------------
(* What the server's system calls do. *)

FreeFds == {f \in Fd : fds[f] = Free}

\* f is the lowest free descriptor, the one that accept() returns.
NewFd(f) == f \in FreeFds /\ \A g \in FreeFds : f <= g

\* read() does not block: there are data, or the client has closed.
Readable(f) ==
    IF f = listenfd THEN backlog # <<>>
    ELSE unread[fds[f]] > 0 \/ st[fds[f]] = "closed"

\* read() of a readable descriptor takes some of the data; with none left it
\* returns 0, or -1 after a reset.
Reads(c, got) ==
    IF got THEN \E n \in 1..unread[c] : unread' = [unread EXCEPT ![c] = @ - n]
           ELSE unread' = unread

\* write() to a client that has closed succeeds once or fails with ECONNRESET,
\* and the client resets the connection; after that write() raises SIGPIPE.
Killed(c) == c \in broken

Writes(c) ==
    /\ replies' = [replies EXCEPT ![c] = @ + 1]
    /\ broken' = IF st[c] = "closed" THEN broken \cup {c} ELSE broken

WriteFails(c) ==
    /\ st[c] = "closed"
    /\ broken' = broken \cup {c}
    /\ UNCHANGED replies
=============================================================================

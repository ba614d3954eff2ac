-------------------------------- MODULE Fork --------------------------------
(***************************************************************************)
(* The pre-forked echo server of fork/test_fork.cpp: a master and one      *)
(* worker share a listening socket and take turns to poll it under a named *)
(* semaphore.  Each of them serves its own table of clients in one         *)
(* select() loop, and a worker whose table is full reports to the master   *)
(* through a datagram socket pair.                                         *)
(*                                                                         *)
(* A byte is <<c, k>>, the k-th byte that connection c sent.  The kernel's *)
(* side of a connection is in[c] (sent and not yet read by the server) and *)
(* out[c] (written by the server and not yet received by the client).      *)
(***************************************************************************)
EXTENDS Integers, FiniteSets, Sequences

CONSTANTS Conn,           \* the connections clients may make
          SOCK_CLI_MAX,   \* slots of the client table of a process
          SOCK_BUF,       \* capacity of the buffer of a slot
          gechobytes,     \* bytes asked for by one read
          StdinWritable,  \* a terminal can be written through descriptor 0
          Mortal,         \* the processes that may fail and exit
          MayStop,        \* the "-sstop" command may be run
          MaxSend,        \* bound on the bytes a client sends
          SndBuf,         \* bytes the kernel buffers towards a client
          MwCap           \* reports the socket pair holds

ASSUME ForkAssumption ==
    /\ SOCK_CLI_MAX \in Nat \ {0} /\ gechobytes \in Nat \ {0}
    /\ SOCK_BUF \in Nat /\ SOCK_BUF >= gechobytes
    /\ MaxSend \in Nat /\ SndBuf \in Nat \ {0} /\ MwCap \in Nat \ {0}
    /\ StdinWritable \in BOOLEAN /\ MayStop \in BOOLEAN
    /\ "nothing" \notin Conn /\ "stdin" \notin Conn

VARIABLES pc, gfds, rfds, wfds, maxfd, gotfd, i, fd,  \* of each process
          fds,                                        \* open descriptors of each
          sem, sigchld, sigint, pidfile, mw, backlog, \* shared
          st, sent, in, out, got, eof, gone           \* of each connection

loop == <<gfds, rfds, wfds, maxfd, i, fd>>
shared == <<sigchld, sigint, pidfile, mw>>
client == <<sent, got, eof, gone>>
vars == <<pc, loop, gotfd, fds, sem, shared, backlog, st, in, out, client>>

Master == "master"
Worker == "worker"
Proc == {Master, Worker}
Slot == 1..SOCK_CLI_MAX
Byte == Conn \X (1..MaxSend)

\* Descriptors 1 and 2 stay open, 3 was the pid file, 4 to 6 are these.
listenfd == 4
mwrfd == 5
mwwfd == 6
ClientFd == {0, 3} \cup 7..(8 + SOCK_CLI_MAX)
Free == "nothing"
Stdin == "stdin"

Smallest(S) == CHOOSE x \in S : \A y \in S : x <= y
Largest(S) == CHOOSE x \in S : \A y \in S : x >= y
Lesser(a, b) == IF a <= b THEN a ELSE b
Prefix(s, n) == SubSeq(s, 1, n)
Rest(s, n) == SubSeq(s, n + 1, Len(s))

Unused == [fd |-> 0, buf |-> <<>>]

Init ==
    /\ pc = [p \in Proc |-> "open"]
    /\ gfds = [p \in Proc |-> [k \in Slot |-> Unused]]
    /\ rfds = [p \in Proc |-> {}] /\ wfds = [p \in Proc |-> {}]
    /\ maxfd = [p \in Proc |-> 0] /\ gotfd = [p \in Proc |-> FALSE]
    /\ i = [p \in Proc |-> 0] /\ fd = [p \in Proc |-> 0]
    /\ fds = [p \in Proc |-> [f \in ClientFd |-> IF f = 0 THEN Stdin ELSE Free]]
    /\ sem = 1 /\ sigchld = "no" /\ sigint = {} /\ pidfile = {} /\ mw = 0
    /\ backlog = {}
    /\ st = [c \in Conn |-> "new"] /\ sent = [c \in Conn |-> 0]
    /\ in = [c \in Conn |-> <<>>] /\ out = [c \in Conn |-> <<>>]
    /\ got = [c \in Conn |-> 0]
    /\ eof = [c \in Conn |-> FALSE] /\ gone = [c \in Conn |-> FALSE]

-----------------------------------------------------------------------------
(* The client table. *)

Used(table) == {k \in Slot : table[k].fd > 0}
sock_cli_size(p) == Cardinality(Used(gfds[p]))

AddedKeepingBuffer(table, f) ==
    LET k == Smallest({k \in Slot : table[k].fd = 0})
    IN  [table EXCEPT ![k].fd = f]

\* The new client takes the first unused slot, with an empty buffer.
sock_cli_add(table, f) ==
    LET k == Smallest({k \in Slot : table[k].fd = 0})
    IN  [table EXCEPT ![k] = [fd |-> f, buf |-> <<>>]]

ClearsAll(table, f) == [k \in Slot |-> [table[k] EXCEPT !.fd = 0]]

\* Only the descriptor is reset: the slot keeps its buffer.
sock_cli_remove(table, f) ==
    [k \in Slot |-> IF f > 0 /\ table[k].fd = f THEN [table[k] EXCEPT !.fd = 0]
                                                ELSE table[k]]

-----------------------------------------------------------------------------
(* A process ends, by a signal or by leaving the loop after an error.  The *)
(* kernel closes its descriptors and tells the master of a dead worker.    *)
(* The semaphore keeps its value.                                          *)

Exits(p) ==
    LET owned == {c \in Conn : \E f \in ClientFd : fds[p][f] = c}
    IN  /\ pc' = [pc EXCEPT ![p] = "dead"]
        /\ gotfd' = [gotfd EXCEPT ![p] = FALSE]
        /\ fds' = [fds EXCEPT ![p] = [f \in ClientFd |-> Free]]
        /\ gfds' = [gfds EXCEPT ![p] = [k \in Slot |-> Unused]]
        /\ rfds' = [rfds EXCEPT ![p] = {}] /\ wfds' = [wfds EXCEPT ![p] = {}]
        /\ maxfd' = [maxfd EXCEPT ![p] = 0]
        /\ i' = [i EXCEPT ![p] = 0] /\ fd' = [fd EXCEPT ![p] = 0]
        /\ st' = [c \in Conn |-> IF c \in owned THEN "closed" ELSE st[c]]
        /\ sigchld' = IF p = Worker /\ pc[Master] # "dead" THEN "pending" ELSE sigchld
        /\ sigint' = sigint \ {p}
        /\ UNCHANGED <<sem, pidfile, mw, backlog, in, out, client>>

\* A signal, or a sem_open, select or accept that fails for a reason other than
\* EINTR or EAGAIN: the last two leave the loop after the semaphore was posted,
\* a signal may come while the process holds it.
Dies(p) ==
    /\ pc[p] # "dead" /\ p \in sigint \cup Mortal
    /\ Exits(p)

\* "-sstop": every process listed in the pid file gets SIGINT.
hdl_sig_stop ==
    /\ MayStop
    /\ pidfile # {}
    /\ sigint' = {p \in pidfile : pc[p] # "dead"}
    /\ UNCHANGED <<pc, loop, gotfd, fds, sem, sigchld, pidfile, mw, backlog, st, in,
                   out, client>>

\* Back at the top of the loop.
evtctx_init(p) ==
    /\ pc' = [pc EXCEPT ![p] = "build"]
    /\ rfds' = [rfds EXCEPT ![p] = {}] /\ wfds' = [wfds EXCEPT ![p] = {}]
    /\ maxfd' = [maxfd EXCEPT ![p] = 0]
    /\ i' = [i EXCEPT ![p] = 0] /\ fd' = [fd EXCEPT ![p] = 0]

PostsNothing == sem' = sem

\* The handler of SIGCHLD in the master.  Before sem_open gsemfd is NULL and
\* sem_post(gsemfd) crashes; in select the signal makes the call fail with EINTR,
\* so that the master also gives up the semaphore it may hold and starts over.
SigchldPost == sem' = sem + 1 + (IF gotfd[Master] /\ pc[Master] = "select" THEN 1 ELSE 0)

on_sigchld ==
    /\ sigchld = "pending" /\ pc[Master] # "dead"
    /\ \/ /\ pc[Master] = "open"
          /\ Exits(Master)
       \/ /\ pc[Master] # "open"
          /\ SigchldPost
          /\ sigchld' = "handled"
          /\ IF pc[Master] = "select"
             THEN /\ evtctx_init(Master)
                  /\ gotfd' = [gotfd EXCEPT ![Master] = FALSE]
             ELSE UNCHANGED <<pc, rfds, wfds, maxfd, i, fd, gotfd>>
          /\ UNCHANGED <<gfds, fds, sigint, pidfile, mw, backlog, st, in, out, client>>

-----------------------------------------------------------------------------
(* The loop of a process. *)

\* The process writes its pid to the file and opens the semaphore, which the
\* first of the two creates with value 1.
sem_open(p) ==
    /\ pc[p] = "open"
    /\ pc' = [pc EXCEPT ![p] = "build"]
    /\ pidfile' = pidfile \cup {p}
    /\ UNCHANGED <<loop, gotfd, fds, sem, sigchld, sigint, mw, backlog, st, in, out, client>>

RoomForOneMore(n) == n <= SOCK_CLI_MAX

\* clisz < SOCK_CLI_MAX * 0.8
AlmostEmpty(n) == 10 * n < 8 * SOCK_CLI_MAX

\* The process collects the descriptors to poll.  It polls the listening socket
\* only if it gets the semaphore, and then maxfd forgets mwrfd.
build(p) ==
    LET clients == {gfds[p][k].fd : k \in Used(gfds[p])}
        tries == AlmostEmpty(sock_cli_size(p))
        gets == tries /\ sem > 0
        lock == IF gets THEN {listenfd} ELSE {}
        reports == IF p = Worker /\ ~tries THEN {mwwfd} ELSE {}
        reads == IF p = Master THEN {mwrfd} ELSE {}
        top == Largest({0} \cup clients \cup
                       (IF gets THEN lock ELSE reads \cup reports))
    IN  /\ pc[p] = "build"
        /\ top # 0
        /\ rfds' = [rfds EXCEPT ![p] = clients \cup lock \cup reads]
        /\ wfds' = [wfds EXCEPT ![p] = clients \cup lock \cup reports]
        /\ maxfd' = [maxfd EXCEPT ![p] = top]
        /\ gotfd' = [gotfd EXCEPT ![p] = gets]
        /\ sem' = IF gets THEN sem - 1 ELSE sem
        /\ pc' = [pc EXCEPT ![p] = "select"]
        /\ UNCHANGED <<gfds, i, fd, fds, shared, backlog, st, in, out, client>>

Readable(p, f) ==
    CASE f = listenfd -> backlog # {}
      [] f = mwrfd -> mw > 0
      [] OTHER -> fds[p][f] \in Conn /\ (in[fds[p][f]] # <<>> \/ eof[fds[p][f]])

Writable(p, f) ==
    CASE f = listenfd -> FALSE
      [] f = mwwfd -> mw < MwCap
      [] OTHER -> fds[p][f] \in Conn
                    /\ (Len(out[fds[p][f]]) < SndBuf \/ gone[fds[p][f]])

\* The first slot from k on with something to do, in the table after a change.
NextSlot(table, ready, k) ==
    LET more == {j \in Used(table) : j >= k /\ table[j].fd \in ready}
    IN  IF more = {} THEN 0 ELSE Smallest(more)

\* select_on_cli_rw goes on with the next such slot, or is done.
GoOn(p, table, ready, k) ==
    LET next == NextSlot(table, ready, k)
    IN  /\ i' = [i EXCEPT ![p] = next]
        /\ fd' = [fd EXCEPT ![p] = IF next = 0 THEN 0 ELSE table[next].fd]
        /\ pc' = [pc EXCEPT ![p] = IF next = 0 THEN "report" ELSE "read"]

KeepsLock(p) == UNCHANGED sem

PostsAlways(p) == sem' = sem + 1

Releases(p) == sem' = IF gotfd[p] THEN sem + 1 ELSE sem

\* select returns what is ready up to maxfd, nothing if it times out, and the
\* process gives up the semaphore.
select(p) ==
    LET r == {f \in rfds[p] : f <= maxfd[p] /\ Readable(p, f)}
        w == {f \in wfds[p] : f <= maxfd[p] /\ Writable(p, f)}
    IN  /\ pc[p] = "select"
        /\ rfds' = [rfds EXCEPT ![p] = r]
        /\ wfds' = [wfds EXCEPT ![p] = w]
        /\ Releases(p)
        /\ gotfd' = [gotfd EXCEPT ![p] = FALSE]
        /\ IF listenfd \in r
           THEN /\ pc' = [pc EXCEPT ![p] = "accept"]
                /\ UNCHANGED <<i, fd>>
           ELSE GoOn(p, gfds[p], r \cup w, 1)
        /\ UNCHANGED <<gfds, maxfd, fds, shared, backlog, st, in, out, client>>

\* The other process may have taken the connection since: accept says EAGAIN.
select_on_socket_connect(p) ==
    /\ pc[p] = "accept"
    /\ evtctx_init(p)
    /\ \/ /\ backlog = {}
          /\ UNCHANGED <<gfds, fds, backlog, st>>
       \/ \E c \in backlog :
             LET confd == Smallest({f \in ClientFd : fds[p][f] = Free})
             IN  /\ backlog' = backlog \ {c}
                 /\ IF \E k \in Slot : gfds[p][k].fd = 0
                    THEN /\ gfds' = [gfds EXCEPT ![p] = sock_cli_add(gfds[p], confd)]
                         /\ fds' = [fds EXCEPT ![p][confd] = c]
                         /\ st' = [st EXCEPT ![c] = "open"]
                    ELSE /\ st' = [st EXCEPT ![c] = "closed"]
                         /\ UNCHANGED <<gfds, fds>>
    /\ UNCHANGED <<gotfd, sem, shared, in, out, client>>

ReadsPastTheEnd(s) == TRUE

ReadsWhenFull(s) == SOCK_BUF - Len(s.buf) < gechobytes

\* "write op too slow" is the other case.
RoomToRead(s) == SOCK_BUF - Len(s.buf) >= gechobytes

\* read() returns what there is up to gechobytes, or 0 at the end of the stream:
\* then the connection is closed and the slot freed.
protocol_echo_read(p) ==
    LET s == gfds[p][i[p]]
        c == fds[p][fd[p]]
        n == Lesser(gechobytes, Len(in[c]))
    IN  /\ pc[p] = "read"
        /\ pc' = [pc EXCEPT ![p] = "write"]
        /\ \/ /\ fd[p] \notin rfds[p] \/ ~RoomToRead(s)
              /\ UNCHANGED <<gfds, fds, in, st>>
           \/ /\ fd[p] \in rfds[p] /\ RoomToRead(s)
              /\ IF in[c] # <<>>
                 THEN /\ gfds' = [gfds EXCEPT ![p][i[p]].buf = s.buf \o Prefix(in[c], n)]
                      /\ in' = [in EXCEPT ![c] = Rest(in[c], n)]
                      /\ UNCHANGED <<fds, st>>
                 ELSE /\ gfds' = [gfds EXCEPT ![p] = sock_cli_remove(gfds[p], fd[p])]
                      /\ fds' = [fds EXCEPT ![p][fd[p]] = Free]
                      /\ st' = [st EXCEPT ![c] = "closed"]
                      /\ UNCHANGED in
        /\ UNCHANGED <<rfds, wfds, maxfd, i, fd, gotfd, sem, shared, backlog, out, client>>

\* memmove: what was not written stays in the buffer.
Unwritten(s, n) == Rest(s.buf, n)

\* write() on s.fd, which is 0 if the read has just freed the slot: then the
\* bytes go to whatever descriptor 0 is.
WriteTo(p, k, s, f, c) ==
    LET n == Lesser(Len(s.buf), SndBuf - Len(out[c]))
    IN  IF gone[c]
        THEN /\ gfds' = [gfds EXCEPT ![p] = sock_cli_remove(gfds[p], f)]
             /\ fds' = [fds EXCEPT ![p][f] = Free]
             /\ st' = [st EXCEPT ![c] = "closed"]
             /\ UNCHANGED out
        ELSE /\ gfds' = [gfds EXCEPT ![p][k].buf = Unwritten(s, n)]
             /\ out' = [out EXCEPT ![c] = @ \o Prefix(s.buf, n)]
             /\ UNCHANGED <<fds, st>>

protocol_echo_write(p) ==
    LET s == gfds[p][i[p]]
        to == fds[p][s.fd]
    IN  /\ pc[p] = "write"
        /\ \/ /\ fd[p] \notin wfds[p] \/ s.buf = <<>> \/ to = Free
              /\ UNCHANGED <<gfds, fds, out, st>>
           \/ /\ fd[p] \in wfds[p] /\ s.buf # <<>> /\ to = Stdin
              /\ IF StdinWritable
                 THEN /\ gfds' = [gfds EXCEPT ![p][i[p]].buf = <<>>]
                      /\ UNCHANGED fds
                 ELSE /\ fds' = [fds EXCEPT ![p][0] = Free]
                      /\ UNCHANGED gfds
              /\ UNCHANGED <<out, st>>
           \/ /\ fd[p] \in wfds[p] /\ s.buf # <<>> /\ to \in Conn
              /\ WriteTo(p, i[p], s, s.fd, to)
        /\ GoOn(p, gfds'[p], rfds[p] \cup wfds[p], i[p] + 1)
        /\ UNCHANGED <<rfds, wfds, maxfd, gotfd, sem, shared, backlog, in, client>>

\* A full worker reports to the master, the master reads a report.
report(p) ==
    /\ pc[p] = "report"
    /\ evtctx_init(p)
    /\ mw' = CASE p = Worker /\ mwwfd \in wfds[p] -> mw + 1
               [] p = Master /\ mwrfd \in rfds[p] -> mw - 1
               [] OTHER -> mw
    /\ UNCHANGED <<gfds, gotfd, fds, sem, sigchld, sigint, pidfile, backlog, st, in, out,
                   client>>

-----------------------------------------------------------------------------
(* The clients, and the kernel's side of their connections. *)

server == <<pc, loop, gotfd, fds, sem, shared>>

Connect(c) ==
    /\ st[c] = "new"
    /\ \E p \in Proc : pc[p] # "dead"
    /\ st' = [st EXCEPT ![c] = "pending"]
    /\ backlog' = backlog \cup {c}
    /\ UNCHANGED <<server, in, out, client>>

ClientSend(c) ==
    /\ st[c] \in {"pending", "open"} /\ ~eof[c] /\ sent[c] < MaxSend
    /\ sent' = [sent EXCEPT ![c] = @ + 1]
    /\ in' = [in EXCEPT ![c] = Append(@, <<c, sent[c] + 1>>)]
    /\ UNCHANGED <<server, backlog, st, out, got, eof, gone>>

ClientReceive(c) ==
    /\ out[c] # <<>> /\ ~gone[c]
    /\ got' = [got EXCEPT ![c] = @ + 1]
    /\ out' = [out EXCEPT ![c] = Tail(@)]
    /\ UNCHANGED <<server, backlog, st, in, sent, eof, gone>>

ClientShutdown(c) ==
    /\ st[c] \in {"pending", "open"} /\ ~eof[c]
    /\ eof' = [eof EXCEPT ![c] = TRUE]
    /\ UNCHANGED <<server, backlog, st, in, out, sent, got, gone>>

\* The client goes away; a reset also drops what it had sent.
ClientClose(c) ==
    /\ st[c] \in {"pending", "open"} /\ ~gone[c]
    /\ eof' = [eof EXCEPT ![c] = TRUE]
    /\ gone' = [gone EXCEPT ![c] = TRUE]
    /\ out' = [out EXCEPT ![c] = <<>>]
    /\ \/ UNCHANGED in
       \/ in' = [in EXCEPT ![c] = <<>>]
    /\ UNCHANGED <<server, backlog, st, sent, got>>

-----------------------------------------------------------------------------
Run(p) == \/ sem_open(p) \/ build(p) \/ select(p) \/ select_on_socket_connect(p)
          \/ protocol_echo_read(p) \/ protocol_echo_write(p) \/ report(p)

ClientStep(c) == \/ Connect(c) \/ ClientSend(c) \/ ClientReceive(c)
                 \/ ClientShutdown(c) \/ ClientClose(c)

Next == \/ \E p \in Proc : Run(p) \/ Dies(p)
        \/ on_sigchld \/ hdl_sig_stop
        \/ \E c \in Conn : ClientStep(c)

Spec == Init /\ [][Next]_vars

\* A process that is not dead is scheduled again and again and select has a
\* timeout; signals are delivered; a client that stays reads what it is sent.
Fairness == /\ \A p \in Proc : WF_vars(Run(p))
            /\ WF_vars(on_sigchld)
            /\ \A c \in Conn : WF_vars(ClientReceive(c))

FairSpec == Spec /\ Fairness

-----------------------------------------------------------------------------
(* Properties *)

ByteSeq(n) == UNION {[1..k -> Byte] : k \in 0..n}

\* The state has its type; in particular no read overruns the buffer of a slot
\* (the early return "write op too slow").
TypeOK ==
    /\ pc \in [Proc -> {"open", "build", "select", "accept", "read", "write",
                        "report", "dead"}]
    /\ gotfd \in [Proc -> BOOLEAN] /\ sem \in Nat
    /\ \A p \in Proc : \A k \in Slot : /\ gfds[p][k].fd \in ClientFd
                                       /\ gfds[p][k].buf \in ByteSeq(SOCK_BUF)
    /\ fds \in [Proc -> [ClientFd -> Conn \cup {Free, Stdin}]]
    /\ \A p \in Proc : /\ rfds[p] \subseteq ClientFd \cup {listenfd, mwrfd}
                       /\ wfds[p] \subseteq ClientFd \cup {listenfd, mwwfd}
    /\ i \in [Proc -> 0..SOCK_CLI_MAX] /\ fd \in [Proc -> ClientFd]
    /\ mw \in 0..MwCap /\ backlog \subseteq Conn
    /\ sigchld \in {"no", "pending", "handled"}
    /\ sigint \subseteq Proc /\ pidfile \subseteq Proc
    /\ st \in [Conn -> {"new", "pending", "open", "closed"}]
    /\ in \in [Conn -> ByteSeq(MaxSend)] /\ out \in [Conn -> ByteSeq(SndBuf)]

\* At most one process at a time polls the listening socket (sem_trywait before
\* select, sem_post after it), also when a worker dies and SIGCHLD posts again.
OneListener == ~(gotfd[Master] /\ gotfd[Worker])

Held(p) == IF gotfd[p] THEN 1 ELSE 0

\* The semaphore is not lost with a worker: while both run it is free or held by
\* one of them, and once the SIGCHLD of a dead worker is handled the master can
\* take it again, whether or not the worker held it.
LockNotLost ==
    /\ pc[Master] # "dead" /\ pc[Worker] # "dead"
          => sem + Held(Master) + Held(Worker) = 1
    /\ pc[Master] # "dead" /\ sigchld = "handled"
          => sem + Held(Master) >= 1

\* A process that goes on to accept has a free slot: the size of the table was
\* read before select, and no connection was added since.
RoomToAccept ==
    \A p \in Proc : pc[p] = "accept" => \E k \in Slot : gfds[p][k].fd = 0

ServedBy(p, k, c) == gfds[p][k].fd > 0 /\ fds[p][gfds[p][k].fd] = c

\* Every connection that is open to the server is in exactly one slot of exactly
\* one process, so that its bytes are read and its descriptor closed some time.
Tracked ==
    \A c \in Conn :
        st[c] = "open" =>
            /\ \E p \in Proc, k \in Slot : ServedBy(p, k, c)
            /\ \A p, q \in Proc : \A k, l \in Slot :
                   ServedBy(p, k, c) /\ ServedBy(q, l, c) => p = q /\ k = l

InOrder(s, c, n) == \A k \in 1..Len(s) : s[k] = <<c, n + k>>

\* With these bytes in its slot's buffer, nothing of what c sent is lost.
Whole(c, buf) ==
    LET all == out[c] \o buf \o in[c]
    IN  InOrder(all, c, got[c]) /\ got[c] + Len(all) = sent[c]

StdinKept == StdinWritable \/ \A p \in Proc : fds[p][0] = Stdin

\* Echo: what is on its way back to a client, in its slot's buffer and not yet
\* read is exactly what this client sent, in order; a client never receives a
\* byte another one sent, whatever slots and descriptors were reused.  This is
\* so as long as no process had to close descriptor 0 after a failed write.
EchoesOwnBytes ==
    StdinKept =>
        /\ \A c \in Conn : InOrder(out[c], c, got[c])
        /\ \A p \in Proc : \A k \in Slot : \A c \in Conn :
               ServedBy(p, k, c) /\ ~gone[c] => Whole(c, gfds[p][k].buf)

\* "cat file1 | nc localhost 9000 | md5sum": a client that has sent everything
\* and still reads gets all of it back before the server closes the connection.
EchoesAll ==
    \A c \in Conn :
        st[c] = "closed" /\ ~gone[c] => got[c] + Len(out[c]) = sent[c]

\* Every connection request is accepted in the end while slots are left.
Accepted == \A c \in Conn : st[c] = "pending" ~> st[c] # "pending"

\* Every byte comes back to a client that stays connected.
Echoed == \A c \in Conn : \A n \in 1..MaxSend :
              sent[c] >= n ~> (got[c] >= n \/ eof[c])

\* "master process receive reports from worker": a full socket pair is read.
ReportsRead == mw = MwCap ~> mw < MwCap
=============================================================================

----------------------------- MODULE ForkProofs -----------------------------
(***************************************************************************)
(* Proofs about the pre-forked server, for any clients, table and buffer   *)
(* sizes and any process that dies at any step: the semaphore, the client  *)
(* tables, and the bytes echoed.                                           *)
(***************************************************************************)
EXTENDS Fork, TLAPS

-----------------------------------------------------------------------------
(***************************************************************************)
(* The semaphore: it is exclusive, and it is not lost with a worker.       *)
(***************************************************************************)

\* What the two properties need to be inductive: a process holds the semaphore
\* only inside select; the SIGCHLD of a worker comes after its death, so the
\* extra post cannot be seen by two processes; and a surviving worker shares
\* at most one unit.
LockInv ==
    /\ pc \in [Proc -> {"open", "build", "select", "accept", "read", "write",
                        "report", "dead"}]
    /\ gotfd \in [Proc -> BOOLEAN] /\ sem \in Nat
    /\ \A p \in Proc : gotfd[p] => pc[p] = "select"
    /\ pc[Worker] # "dead" => /\ sigchld = "no"
                              /\ sem + Held(Master) + Held(Worker) <= 1
    /\ LockNotLost

-----------------------------------------------------------------------------
\* The first state has the semaphore free and nobody dead.
LEMMA LockInit == Init => LockInv
BY DEF Init, LockInv, LockNotLost, Held, Proc, Master, Worker

\* The steps that touch neither the semaphore nor the signal, and neither end a
\* process nor bring it into select.
Elsewhere ==
    /\ pc' \in [Proc -> {"open", "build", "select", "accept", "read", "write",
                         "report", "dead"}]
    /\ \A p \in Proc : pc'[p] = pc[p] \/ /\ pc[p] \notin {"select", "dead"}
                                         /\ pc'[p] \notin {"select", "dead"}
    /\ UNCHANGED <<gotfd, sem, sigchld>>

\* Such steps keep the invariant.
LEMMA ElsewhereKeeps == LockInv /\ Elsewhere => LockInv'
BY DEF LockInv, LockNotLost, Elsewhere, Held, Proc, Master, Worker

\* A process that ends does not return the semaphore.
LEMMA ExitsKeeps ==
    ASSUME NEW p \in Proc, LockInv, pc[p] # "dead", Exits(p)
    PROVE  LockInv'
<1>1. /\ pc' = [pc EXCEPT ![p] = "dead"]
      /\ gotfd' = [gotfd EXCEPT ![p] = FALSE]
      /\ sigchld' = IF p = Worker /\ pc[Master] # "dead" THEN "pending" ELSE sigchld
      /\ sem' = sem
  BY DEF Exits
<1> QED
  BY <1>1 DEF LockInv, LockNotLost, Held, Proc, Master, Worker

\* Taking the semaphore leaves one unit less, releasing it one more.
LEMMA BuildKeeps == ASSUME NEW p \in Proc, LockInv, build(p) PROVE LockInv'
<1>1. PICK gets \in BOOLEAN :
          /\ gotfd' = [gotfd EXCEPT ![p] = gets]
          /\ gets => sem > 0
          /\ sem' = IF gets THEN sem - 1 ELSE sem
          /\ pc' = [pc EXCEPT ![p] = "select"]
          /\ pc[p] = "build" /\ sigchld' = sigchld
  BY ZenonT(30) DEF build, shared
<1> QED
  BY <1>1 DEF LockInv, LockNotLost, Held, Proc, Master, Worker

\* A process that returns from select gives the semaphore back if it held it.
LEMMA SelectKeeps == ASSUME NEW p \in Proc, LockInv, select(p) PROVE LockInv'
<1>1. PICK next \in {"accept", "read", "report"} : pc' = [pc EXCEPT ![p] = next]
  BY DEF select, GoOn
<1>2. /\ pc[p] = "select" /\ sigchld' = sigchld
      /\ gotfd' = [gotfd EXCEPT ![p] = FALSE]
      /\ sem' = IF gotfd[p] THEN sem + 1 ELSE sem
  BY DEF select, Releases, shared
<1> QED
  BY <1>1, <1>2 DEF LockInv, LockNotLost, Held, Proc, Master, Worker

\* The post of the SIGCHLD handler comes when the worker is dead.
LEMMA SigchldKeeps == ASSUME LockInv, on_sigchld PROVE LockInv'
<1>1. CASE Exits(Master)
  BY <1>1, ExitsKeeps DEF on_sigchld, Proc
<1>2. CASE ~Exits(Master)
  <2>1. /\ sigchld = "pending" /\ sigchld' = "handled"
        /\ pc[Master] # "dead" /\ pc[Master] # "open" /\ SigchldPost
    BY <1>2 DEF on_sigchld
  <2>2. \/ /\ pc[Master] = "select" /\ pc' = [pc EXCEPT ![Master] = "build"]
           /\ gotfd' = [gotfd EXCEPT ![Master] = FALSE]
        \/ UNCHANGED <<pc, gotfd>>
    BY <1>2 DEF on_sigchld, evtctx_init
  <2>3. pc[Worker] = "dead" /\ gotfd[Worker] = FALSE /\ sem \in Nat
    BY <2>1 DEF LockInv, Proc
  <2>4. sem' \in Nat /\ sem' >= 1
    BY <2>1, <2>3 DEF SigchldPost
  <2>5. pc'[Worker] = "dead" /\ gotfd' \in [Proc -> BOOLEAN]
    BY ZenonT(30), <2>2, <2>3 DEF LockInv, Proc, Master, Worker
  <2>6. pc' \in [Proc -> {"open", "build", "select", "accept", "read", "write",
                          "report", "dead"}]
    BY <2>2 DEF LockInv
  <2>7. \A p \in Proc : gotfd'[p] => pc'[p] = "select"
    BY <2>2 DEF LockInv, Proc
  <2>8. Held(Master)' \in {0, 1}
    BY DEF Held
  <2>9. sem' + Held(Master)' >= 1
    BY <2>4, <2>8
  <2>10. LockNotLost'
    BY <2>5, <2>9 DEF LockNotLost
  <2> QED
    BY <2>4, <2>5, <2>6, <2>7, <2>10 DEF LockInv
<1> QED
  BY <1>1, <1>2

\* Every step keeps the invariant.
LEMMA LockNext == LockInv /\ [Next]_vars => LockInv'
<1> SUFFICES ASSUME LockInv, [Next]_vars PROVE LockInv'
  OBVIOUS
<1>1. CASE UNCHANGED vars
  BY <1>1, ElsewhereKeeps DEF vars, shared, Elsewhere, LockInv
<1>2. CASE on_sigchld
  BY <1>2, SigchldKeeps
<1>3. CASE hdl_sig_stop
  BY <1>3, ElsewhereKeeps DEF hdl_sig_stop, Elsewhere, LockInv
<1>4. ASSUME NEW c \in Conn, ClientStep(c) PROVE LockInv'
  BY <1>4, ElsewhereKeeps DEF ClientStep, Connect, ClientSend, ClientReceive,
     ClientShutdown, ClientClose, server, shared, Elsewhere, LockInv
<1>5. ASSUME NEW p \in Proc, Dies(p) PROVE LockInv'
  BY <1>5, ExitsKeeps DEF Dies
<1>6. ASSUME NEW p \in Proc, Run(p) PROVE LockInv'
  <2>1. CASE build(p)
    BY <2>1, BuildKeeps
  <2>2. CASE select(p)
    BY <2>2, SelectKeeps
  <2>3. CASE sem_open(p)
    BY <2>3, ElsewhereKeeps DEF sem_open, Elsewhere, LockInv
  <2>4. CASE select_on_socket_connect(p)
    BY SMTT(30), <2>4, ElsewhereKeeps DEF select_on_socket_connect, evtctx_init, shared, Elsewhere, LockInv
  <2>5. CASE protocol_echo_read(p)
    BY ZenonT(30), <2>5, ElsewhereKeeps DEF protocol_echo_read, shared, Elsewhere, LockInv
  <2>6. CASE protocol_echo_write(p)
    <3>1. PICK next \in {"read", "report"} : pc' = [pc EXCEPT ![p] = next]
      BY ZenonT(30), <2>6 DEF protocol_echo_write, GoOn
    <3>2. pc[p] = "write" /\ UNCHANGED <<gotfd, sem, sigchld>>
      BY ZenonT(30), <2>6 DEF protocol_echo_write, shared
    <3> QED
      BY SMTT(30), <3>1, <3>2, ElsewhereKeeps DEF Elsewhere, LockInv
  <2>7. CASE report(p)
    BY <2>7, ElsewhereKeeps DEF report, evtctx_init, Elsewhere, LockInv
  <2> QED
    BY <1>6, <2>1, <2>2, <2>3, <2>4, <2>5, <2>6, <2>7 DEF Run
<1> QED
  BY <1>1, <1>2, <1>3, <1>4, <1>5, <1>6 DEF Next

\* The invariant holds in every reachable state.
THEOREM LockInvariant == Spec => []LockInv
BY LockInit, LockNext, PTL DEF Spec

\* For any number of clients, any sizes and any process that dies at any step,
\* the semaphore around select (lines 575 and 622) is exclusive.
THEOREM Exclusive == Spec => []OneListener
<1>1. LockInv => OneListener
  BY DEF LockInv, OneListener, Held, Proc, Master, Worker, LockNotLost
<1> QED
  BY <1>1, LockInvariant, PTL

\* Likewise the post of on_sigchld (line 417) makes sure that a dead worker does
\* not keep the semaphore from the master.
THEOREM Recovered == Spec => []LockNotLost
<1>1. LockInv => LockNotLost
  BY DEF LockInv
<1> QED
  BY <1>1, LockInvariant, PTL

-----------------------------------------------------------------------------
(***************************************************************************)
(* The client tables: slots, descriptors and connections agree, so that a  *)
(* process that accepts has room, every open connection is in exactly one  *)
(* slot, and no buffer is overrun.                                         *)
(***************************************************************************)

\* A table and the descriptors of the same process agree: a used slot names an open
\* connection, no two slots the same one, and every open descriptor other than 0
\* is in a slot.
TableOK(table, open) ==
    /\ table \in [Slot -> [fd : ClientFd, buf : Seq(Byte)]]
    /\ \A k \in Slot : Len(table[k].buf) <= SOCK_BUF
    /\ open \in [ClientFd -> Conn \cup {Free, Stdin}]
    /\ \A k \in Slot : table[k].fd > 0 => open[table[k].fd] \in Conn
    /\ \A k, l \in Slot : table[k].fd > 0 /\ table[k].fd = table[l].fd => k = l
    /\ \A f \in ClientFd : f > 0 /\ open[f] # Free => \E k \in Slot : table[k].fd = f

States == {"open", "build", "select", "accept", "read", "write", "report", "dead"}

HasRoom(table) == \E k \in Slot : table[k].fd = 0

\* Where a process stands in its loop, and what it remembers there of its table.
LoopOK(p) ==
    /\ pc[p] = "read" => i[p] \in Slot /\ fd[p] > 0 /\ gfds[p][i[p]].fd = fd[p]
    /\ pc[p] = "write" => i[p] \in Slot
    /\ pc[p] = "select" /\ listenfd \in rfds[p] => HasRoom(gfds[p])
    /\ pc[p] = "accept" => HasRoom(gfds[p])

\* What a process reads between select and the end of its round is still there.
MailOK ==
    /\ mw \in 0..MwCap
    /\ pc[Worker] \in {"accept", "read", "write", "report"} /\ mwwfd \in wfds[Worker] => mw < MwCap
    /\ pc[Master] \in {"accept", "read", "write", "report"} /\ mwrfd \in rfds[Master] => mw > 0

\* A connection is open exactly if one descriptor of one process is its.
ConnOK ==
    /\ backlog \subseteq Conn /\ st \in [Conn -> {"new", "pending", "open", "closed"}]
    /\ \A c \in backlog : st[c] = "pending"
    /\ \A p, q \in Proc : \A f, g \in ClientFd :
          fds[p][f] \in Conn /\ fds[p][f] = fds[q][g] => p = q /\ f = g
    /\ \A c \in Conn : st[c] = "open" <=> \E p \in Proc : \E f \in ClientFd : fds[p][f] = c

\* Descriptor 0 stays what it is, if it can be written.
StdinOK == StdinWritable => \A p \in Proc : fds[p][0] = Stdin \/ (pc[p] = "dead" /\ fds[p][0] = Free)

\* The kernel's buffers.
BytesOK ==
    /\ sent \in [Conn -> 0..MaxSend]
    /\ in \in [Conn -> Seq(Byte)] /\ \A c \in Conn : Len(in[c]) <= sent[c]
    /\ out \in [Conn -> Seq(Byte)] /\ \A c \in Conn : Len(out[c]) <= SndBuf

Shapes ==
    /\ pc \in [Proc -> States] /\ i \in [Proc -> 0..SOCK_CLI_MAX] /\ fd \in [Proc -> ClientFd]
    /\ gfds \in [Proc -> [Slot -> [fd : ClientFd, buf : Seq(Byte)]]]
    /\ fds \in [Proc -> [ClientFd -> Conn \cup {Free, Stdin}]]
    /\ rfds \in [Proc -> SUBSET (ClientFd \cup {listenfd, mwrfd})]
    /\ wfds \in [Proc -> SUBSET (ClientFd \cup {listenfd, mwwfd})]
    /\ sigchld \in {"no", "pending", "handled"} /\ sigint \subseteq Proc /\ pidfile \subseteq Proc

TablesInv ==
    /\ Shapes /\ MailOK /\ ConnOK /\ StdinOK /\ BytesOK
    /\ \A p \in Proc : TableOK(gfds[p], fds[p]) /\ LoopOK(p)

\* What the steps need to know about counting: a set of naturals has a smallest
\* element, the slots can be counted, and more descriptors than slots do not fit.
\* (CountingHolds proves it; the steps take it as a hypothesis.)
Counting ==
    /\ \A S \in SUBSET Nat : S # {} => \E x \in S : \A y \in S : x <= y
    /\ Cardinality(Slot) = SOCK_CLI_MAX
    /\ \A at \in [7..(8 + SOCK_CLI_MAX) -> Slot] :
           \E f, g \in 7..(8 + SOCK_CLI_MAX) : f # g /\ at[f] = at[g]

-----------------------------------------------------------------------------
(* Numbers and sequences. *)

USE ZenonT(30)

\* The length of a sequence of bytes, and its elements.
LEMMA LengthOf ==
    ASSUME NEW s \in Seq(Byte)
    PROVE  Len(s) \in Nat /\ s \in [1..Len(s) -> Byte]
BY SMTT(30)

\* The empty sequence.
LEMMA EmptyOne ==
    /\ <<>> \in Seq(Byte) /\ Len(<<>>) = 0 /\ 1..0 = {}
    /\ \A s \in Seq(Byte) : (Len(s) = 0) <=> (s = <<>>)
BY SMTT(30)

\* One sequence behind another.
LEMMA ConcatOf ==
    ASSUME NEW s \in Seq(Byte), NEW t \in Seq(Byte)
    PROVE  /\ s \o t \in Seq(Byte) /\ Len(s \o t) = Len(s) + Len(t)
           /\ \A k \in 1..(Len(s) + Len(t)) : (s \o t)[k] = IF k <= Len(s) THEN s[k] ELSE t[k - Len(s)]
BY SMTT(30)

\* One byte more.
LEMMA AppendOf ==
    ASSUME NEW s \in Seq(Byte), NEW e \in Byte
    PROVE  /\ Append(s, e) \in Seq(Byte) /\ Len(Append(s, e)) = Len(s) + 1
           /\ Append(s, e)[Len(s) + 1] = e /\ \A k \in 1..Len(s) : Append(s, e)[k] = s[k]
BY SMTT(30)

\* One byte less.
LEMMA TailOf ==
    ASSUME NEW s \in Seq(Byte), s # <<>>
    PROVE  /\ Tail(s) \in Seq(Byte) /\ Len(Tail(s)) = Len(s) - 1
           /\ \A k \in 1..Len(Tail(s)) : Tail(s)[k] = s[k + 1]
BY SMTT(30)

\* The choice in Smallest has a result: sets of naturals are well ordered.
LEMMA SmallestIsIn ==
    ASSUME Counting, NEW S \in SUBSET Nat, S # {}
    PROVE  Smallest(S) \in S
<1>1. PICK x \in S : \A y \in S : x <= y
  BY  DEF Counting
<1> QED
  BY <1>1 DEF Smallest

\* A short sequence is one of ByteSeq.
LEMMA ShortSeq ==
    ASSUME NEW n \in Nat, NEW s \in Seq(Byte), Len(s) <= n
    PROVE  s \in ByteSeq(n)
<1>1. Len(s) \in 0..n /\ s \in [1..Len(s) -> Byte]
  BY LengthOf, SMTT(30)
<1> QED
  BY <1>1 DEF ByteSeq

\* What a read takes from the stream and what it leaves.
LEMMA PrefixRest ==
    ASSUME NEW s \in Seq(Byte), NEW n \in 0..Len(s)
    PROVE  /\ Prefix(s, n) \in Seq(Byte) /\ Len(Prefix(s, n)) = n
           /\ Rest(s, n) \in Seq(Byte) /\ Len(Rest(s, n)) = Len(s) - n
BY SMTT(30) DEF Prefix, Rest

-----------------------------------------------------------------------------
(* The client table. *)

\* What the constants are.
LEMMA Numbers ==
    /\ SOCK_CLI_MAX \in Nat \ {0} /\ gechobytes \in Nat \ {0} /\ SOCK_BUF \in Nat
    /\ SOCK_BUF >= gechobytes /\ MaxSend \in Nat /\ SndBuf \in Nat \ {0} /\ MwCap \in Nat \ {0}
    /\ Free \notin Conn /\ Stdin \notin Conn /\ Free # Stdin
    /\ ClientFd \subseteq Nat /\ Slot \subseteq Nat /\ 0 \in ClientFd /\ 0 \notin Slot
    /\ listenfd \notin ClientFd /\ mwrfd \notin ClientFd /\ mwwfd \notin ClientFd
BY ForkAssumption, SMTT(30) DEF Free, Stdin, ClientFd, Slot, listenfd, mwrfd, mwwfd

\* Every descriptor but 0 is positive.
LEMMA Positive == \A f \in ClientFd : f = 0 \/ f > 0
BY ForkAssumption, SMTT(30) DEF ClientFd

\* No two slots serve the same connection.
LEMMA InOneSlot ==
    ASSUME TablesInv, NEW c \in Conn, NEW p \in Proc, NEW q \in Proc, NEW k \in Slot, NEW l \in Slot,
           ServedBy(p, k, c), ServedBy(q, l, c)
    PROVE  p = q /\ k = l
<1>0. Shapes /\ ConnOK /\ TableOK(gfds[p], fds[p])
  BY DEF TablesInv
<1>1. /\ gfds[p][k].fd \in ClientFd /\ gfds[q][l].fd \in ClientFd
      /\ fds[p][gfds[p][k].fd] = c /\ fds[q][gfds[q][l].fd] = c /\ gfds[p][k].fd > 0
  BY <1>0, SMTT(30) DEF ServedBy, Shapes
<1>2. p = q /\ gfds[p][k].fd = gfds[q][l].fd
  BY <1>0, <1>1, SMTT(30) DEF ConnOK
<1> QED
  BY <1>0, <1>1, <1>2 DEF TableOK

\* The connections are as they were if nothing of them changes.
LEMMA ConnKept == ASSUME ConnOK, UNCHANGED <<fds, backlog, st>> PROVE ConnOK'
BY SMTT(30) DEF ConnOK

\* So are the kernel's buffers.
LEMMA BytesKept == ASSUME BytesOK, UNCHANGED <<in, out, sent>> PROVE BytesOK'
BY DEF BytesOK

\* And so is everything, but for a signal to a process.
LEMMA TablesKept ==
    ASSUME TablesInv, sigint' \subseteq Proc,
           UNCHANGED <<pc, gfds, fds, rfds, wfds, i, fd, mw, backlog, st, sent, in, out, sigchld, pidfile>>
    PROVE  TablesInv'
<1>1. ConnOK' /\ BytesOK'
  BY ConnKept, BytesKept DEF TablesInv
<1>2. Shapes' /\ MailOK' /\ StdinOK' /\ \A p \in Proc : TableOK(gfds'[p], fds'[p]) /\ LoopOK(p)'
  BY DEF TablesInv, Shapes, MailOK, StdinOK, LoopOK
<1> QED
  BY <1>1, <1>2 DEF TablesInv

\* An empty table and a closed process agree.
LEMMA EmptyTable ==
    ASSUME NEW open \in [ClientFd -> {Free, Stdin}],
           \A f \in ClientFd : f > 0 => open[f] = Free
    PROVE  TableOK([k \in Slot |-> Unused], open)
<1>1. Unused \in [fd : ClientFd, buf : Seq(Byte)] /\ Unused.fd = 0 /\ Len(Unused.buf) = 0
  BY Numbers, EmptyOne DEF Unused
<1> QED
  BY <1>1, Numbers, SMTT(30) DEF TableOK

\* A process has more descriptors than slots: accept finds a free one.
LEMMA DescriptorLeft ==
    ASSUME Counting, NEW table, NEW open, TableOK(table, open)
    PROVE  Smallest({f \in ClientFd : open[f] = Free}) \in {f \in ClientFd : open[f] = Free}
<1> DEFINE high == 7..(8 + SOCK_CLI_MAX)
<1> DEFINE at == [f \in high |-> CHOOSE k \in Slot : table[k].fd = f]
<1>1. high \subseteq ClientFd /\ \A f \in high : f > 0
  BY Numbers, SMTT(30) DEF ClientFd
<1>2. \A h \in [high -> Slot] : \E f, g \in high : f # g /\ h[f] = h[g]
  BY DEF Counting
<1>4. ASSUME \A f \in ClientFd : open[f] # Free PROVE FALSE
  <2> HIDE DEF high
  <2>1. \A f \in high : \E k \in Slot : table[k].fd = f
    BY <1>1, <1>4 DEF TableOK
  <2>2. at \in [high -> Slot] /\ \A f \in high : table[at[f]].fd = f
    BY <2>1
  <2> HIDE DEF at
  <2>4. PICK f, g \in high : f # g /\ at[f] = at[g]
    BY <1>2, <2>2
  <2> QED
    BY <2>2, <2>4
<1>5. {f \in ClientFd : open[f] = Free} # {}
  BY <1>4
<1> QED
  BY <1>5, SmallestIsIn, Numbers

\* sock_cli_add puts a new descriptor in a slot that had none.
LEMMA AddToTable ==
    ASSUME Counting, NEW table, NEW open, TableOK(table, open), HasRoom(table),
           NEW f \in ClientFd, open[f] = Free, NEW c \in Conn
    PROVE  TableOK(sock_cli_add(table, f), [open EXCEPT ![f] = c])
<1> DEFINE k == Smallest({j \in Slot : table[j].fd = 0})
           new == sock_cli_add(table, f)
           after == [open EXCEPT ![f] = c]
<1>1. k \in Slot /\ table[k].fd = 0
  BY SmallestIsIn, Numbers, SMTT(30) DEF HasRoom
<1>2. new = [table EXCEPT ![k] = [fd |-> f, buf |-> <<>>]]
  BY DEF sock_cli_add
<1> HIDE DEF k, new
<1>3. [fd |-> f, buf |-> <<>>] \in [fd : ClientFd, buf : Seq(Byte)] /\ Len(<<>>) = 0
  BY EmptyOne
<1>4. new \in [Slot -> [fd : ClientFd, buf : Seq(Byte)]]
  BY <1>1, <1>2, <1>3 DEF TableOK
<1>5. \A j \in Slot : new[j] = IF j = k THEN [fd |-> f, buf |-> <<>>] ELSE table[j]
  BY <1>2 DEF TableOK
<1>6. \A j \in Slot : Len(new[j].buf) <= SOCK_BUF
  BY <1>3, <1>5, Numbers, SMTT(30) DEF TableOK
<1>7. after \in [ClientFd -> Conn \cup {Free, Stdin}]
      /\ \A g \in ClientFd : after[g] = IF g = f THEN c ELSE open[g]
  BY DEF TableOK
<1>8. \A j \in Slot : table[j].fd \in ClientFd /\ (table[j].fd = f => f = 0)
  BY Numbers, SMTT(30) DEF TableOK
<1>9. \A j \in Slot : new[j].fd = IF j = k THEN f ELSE table[j].fd
  BY <1>5, SMTT(30)
<1> HIDE DEF after
<1>10. \A j \in Slot : new[j].fd > 0 => after[new[j].fd] \in Conn
  BY <1>7, <1>8, <1>9, SMTT(30) DEF TableOK
<1>11. \A j, l \in Slot : new[j].fd > 0 /\ new[j].fd = new[l].fd => j = l
  BY <1>8, <1>9, SMTT(30) DEF TableOK
<1>12. ASSUME NEW g \in ClientFd, g > 0, after[g] # Free
       PROVE  \E j \in Slot : new[j].fd = g
  <2>1. CASE g = f
    BY <1>1, <1>9, <2>1
  <2>2. CASE g # f
    <3>1. PICK j \in Slot : table[j].fd = g
      BY <1>7, <1>12, <2>2 DEF TableOK
    <3> QED
      BY <1>1, <1>9, <1>12, <3>1, SMTT(30)
  <2> QED
    BY <2>1, <2>2
<1>13. TableOK(new, after)
  BY <1>4, <1>6, <1>7, <1>10, <1>11, <1>12 DEF TableOK
<1> QED
  BY <1>13 DEF new, after

\* sock_cli_remove frees the slots of a descriptor that is closed.
LEMMA RemoveFromTable ==
    ASSUME NEW table, NEW open, TableOK(table, open), NEW f \in ClientFd
    PROVE  TableOK(sock_cli_remove(table, f), [open EXCEPT ![f] = Free])
<1> DEFINE new == sock_cli_remove(table, f)
           after == [open EXCEPT ![f] = Free]
<1>1. \A k \in Slot : table[k] \in [fd : ClientFd, buf : Seq(Byte)]
  BY DEF TableOK
<1>2. \A k \in Slot : /\ new[k].fd = IF f > 0 /\ table[k].fd = f THEN 0 ELSE table[k].fd
                      /\ new[k].buf = table[k].buf
                      /\ new[k] \in [fd : ClientFd, buf : Seq(Byte)]
  BY <1>1, Numbers DEF sock_cli_remove
<1>3. new \in [Slot -> [fd : ClientFd, buf : Seq(Byte)]]
  BY <1>2 DEF sock_cli_remove
<1>4. after \in [ClientFd -> Conn \cup {Free, Stdin}]
      /\ \A g \in ClientFd : after[g] = IF g = f THEN Free ELSE open[g]
  BY DEF TableOK
<1> HIDE DEF new, after
<1>5. \A k \in Slot : Len(new[k].buf) <= SOCK_BUF
  BY <1>2 DEF TableOK
<1>6. \A k \in Slot : new[k].fd > 0 => after[new[k].fd] \in Conn
  <2> SUFFICES ASSUME NEW k \in Slot, new[k].fd > 0 PROVE after[new[k].fd] \in Conn
    OBVIOUS
  <2>1. new[k].fd = table[k].fd /\ new[k].fd # f /\ new[k].fd \in ClientFd
    BY <1>1, <1>2, SMTT(30)
  <2> QED
    BY <1>4, <2>1 DEF TableOK
<1>7. \A k, l \in Slot : new[k].fd > 0 /\ new[k].fd = new[l].fd => k = l
  BY <1>1, <1>2, Numbers, SMTT(30) DEF TableOK
<1>8. \A g \in ClientFd : g > 0 /\ after[g] # Free => \E k \in Slot : new[k].fd = g
  BY <1>1, <1>2, <1>4 DEF TableOK
<1>9. TableOK(new, after)
  BY <1>3, <1>4, <1>5, <1>6, <1>7, <1>8 DEF TableOK
<1> QED
  BY <1>9 DEF new, after

\* The bytes of a slot say nothing about descriptors.
LEMMA RefillBuffer ==
    ASSUME NEW table, NEW open, TableOK(table, open), NEW k \in Slot,
           NEW s \in Seq(Byte), Len(s) <= SOCK_BUF
    PROVE  TableOK([table EXCEPT ![k].buf = s], open)
<1> DEFINE new == [table EXCEPT ![k].buf = s]
<1>1. \A j \in Slot : table[j] \in [fd : ClientFd, buf : Seq(Byte)]
  BY DEF TableOK
<1>2. /\ new \in [Slot -> [fd : ClientFd, buf : Seq(Byte)]]
      /\ \A j \in Slot : /\ new[j].fd = table[j].fd
                         /\ new[j].buf = IF j = k THEN s ELSE table[j].buf
  BY <1>1 DEF TableOK
<1> HIDE DEF new
<1>3. TableOK(new, open)
  BY <1>2 DEF TableOK
<1> QED
  BY <1>3 DEF new

-----------------------------------------------------------------------------
(* Connections and descriptors. *)

\* A connection that is closed loses its only descriptor.
LEMMA Disconnected ==
    ASSUME Shapes, ConnOK, NEW p \in Proc, NEW f \in ClientFd, fds[p][f] \in Conn,
           fds' = [fds EXCEPT ![p][f] = Free],
           st' = [st EXCEPT ![fds[p][f]] = "closed"], backlog' = backlog
    PROVE  ConnOK'
<1> DEFINE c == fds[p][f]
<1>1. \A q \in Proc : \A g \in ClientFd :
          fds'[q][g] = IF q = p /\ g = f THEN Free ELSE fds[q][g]
  BY DEF Shapes
<1>2. /\ st' \in [Conn -> {"new", "pending", "open", "closed"}]
      /\ \A d \in Conn : st'[d] = IF d = c THEN "closed" ELSE st[d]
  BY DEF ConnOK
<1>3. c \in Conn /\ st[c] = "open" /\ c \notin backlog
  BY DEF ConnOK
<1>4. \A q \in Proc : \A g \in ClientFd : fds[q][g] = c => q = p /\ g = f
  BY SMTT(30) DEF ConnOK
<1> HIDE DEF c
<1>5. \A d \in backlog' : st'[d] = "pending"
  BY <1>2, <1>3 DEF ConnOK
<1>6. \A q, r \in Proc : \A g, h \in ClientFd :
          fds'[q][g] \in Conn /\ fds'[q][g] = fds'[r][h] => q = r /\ g = h
  BY <1>1, Numbers, SMTT(30) DEF ConnOK
<1>7. ASSUME NEW d \in Conn
      PROVE  st'[d] = "open" <=> \E q \in Proc : \E g \in ClientFd : fds'[q][g] = d
  <2>1. CASE d = c
    BY <1>1, <1>2, <1>4, <2>1, Numbers, SMTT(30)
  <2>2. CASE d # c
    <3>1. st'[d] = st[d] /\ d # Free
      BY <1>2, <2>2, Numbers
    <3>2. \A q \in Proc : \A g \in ClientFd : fds'[q][g] = d <=> fds[q][g] = d
      BY <1>1, <2>2, <3>1, SMTT(30) DEF c
    <3> QED
      BY <3>1, <3>2, SMTT(30) DEF ConnOK
  <2> QED
    BY <2>1, <2>2
<1> QED
  BY <1>2, <1>5, <1>6, <1>7 DEF ConnOK

\* A connection that is accepted gets its only descriptor.
LEMMA Connected ==
    ASSUME Shapes, ConnOK, NEW p \in Proc, NEW f \in ClientFd, fds[p][f] = Free,
           NEW c \in backlog, fds' = [fds EXCEPT ![p][f] = c],
           st' = [st EXCEPT ![c] = "open"], backlog' = backlog \ {c}
    PROVE  ConnOK'
<1>1. \A q \in Proc : \A g \in ClientFd :
          fds'[q][g] = IF q = p /\ g = f THEN c ELSE fds[q][g]
  BY DEF Shapes
<1>2. /\ c \in Conn
      /\ st' \in [Conn -> {"new", "pending", "open", "closed"}]
      /\ \A d \in Conn : st'[d] = IF d = c THEN "open" ELSE st[d]
  BY DEF ConnOK
<1>3. \A q \in Proc : \A g \in ClientFd : fds[q][g] # c
  <2>1. st[c] # "open"
    BY DEF ConnOK
  <2> QED
    BY <1>2, <2>1, SMTT(30) DEF ConnOK
<1>4. \A d \in backlog' : st'[d] = "pending"
  BY <1>2 DEF ConnOK
<1>5. \A q, r \in Proc : \A g, h \in ClientFd :
          fds'[q][g] \in Conn /\ fds'[q][g] = fds'[r][h] => q = r /\ g = h
  BY <1>1, <1>3, SMTT(30) DEF ConnOK
<1>6. ASSUME NEW d \in Conn
      PROVE  st'[d] = "open" <=> \E q \in Proc : \E g \in ClientFd : fds'[q][g] = d
  <2>1. CASE d = c
    BY <1>1, <1>2, <2>1, SMTT(30)
  <2>2. CASE d # c
    <3>1. st'[d] = st[d] /\ d # Free
      BY <1>2, <2>2, Numbers
    <3>2. \A q \in Proc : \A g \in ClientFd : fds'[q][g] = d <=> fds[q][g] = d
      BY <1>1, <2>2, <3>1, SMTT(30)
    <3> QED
      BY <3>1, <3>2, SMTT(30) DEF ConnOK
  <2> QED
    BY <2>1, <2>2
<1> QED
  BY <1>2, <1>4, <1>5, <1>6 DEF ConnOK

\* The kernel closes the connections of a process that ends.
LEMMA AllDisconnected ==
    ASSUME Shapes, ConnOK, NEW p \in Proc, fds' = [fds EXCEPT ![p] = [f \in ClientFd |-> Free]],
           st' = [c \in Conn |-> IF \E f \in ClientFd : fds[p][f] = c THEN "closed" ELSE st[c]],
           backlog' = backlog
    PROVE  ConnOK'
<1>1. \A q \in Proc : \A g \in ClientFd :
          fds'[q][g] = IF q = p THEN Free ELSE fds[q][g]
  BY DEF Shapes
<1>2. /\ st' \in [Conn -> {"new", "pending", "open", "closed"}]
      /\ \A c \in Conn : st'[c] = IF \E f \in ClientFd : fds[p][f] = c THEN "closed" ELSE st[c]
  BY DEF ConnOK
<1>3. \A c \in backlog' : st'[c] = "pending"
  <2> SUFFICES ASSUME NEW c \in backlog PROVE st'[c] = "pending"
    OBVIOUS
  <2>1. c \in Conn /\ st[c] = "pending"
    BY DEF ConnOK
  <2>2. ~ \E f \in ClientFd : fds[p][f] = c
    BY <2>1 DEF ConnOK
  <2> QED
    BY <1>2, <2>1, <2>2
<1>4. \A q, r \in Proc : \A g, h \in ClientFd :
          fds'[q][g] \in Conn /\ fds'[q][g] = fds'[r][h] => q = r /\ g = h
  BY <1>1, Numbers, SMTT(30) DEF ConnOK
<1>5. ASSUME NEW c \in Conn
      PROVE  st'[c] = "open" <=> \E q \in Proc : \E g \in ClientFd : fds'[q][g] = c
  <2>1. CASE \E f \in ClientFd : fds[p][f] = c
    <3>1. st'[c] = "closed"
      BY <1>2, <2>1
    <3>2. \A q \in Proc : \A g \in ClientFd : fds'[q][g] # c
      BY <1>1, <2>1, Numbers, SMTT(30) DEF ConnOK
    <3> QED
      BY <3>1, <3>2
  <2>2. CASE ~ \E f \in ClientFd : fds[p][f] = c
    <3>1. st'[c] = st[c] /\ c # Free
      BY <1>2, <2>2, Numbers
    <3>2. \A q \in Proc : \A g \in ClientFd : fds'[q][g] = c <=> fds[q][g] = c
      BY <1>1, <2>2, <3>1, SMTT(30)
    <3> QED
      BY <3>1, <3>2, SMTT(30) DEF ConnOK
  <2> QED
    BY <2>1, <2>2
<1> QED
  BY <1>2, <1>3, <1>4, <1>5 DEF ConnOK

-----------------------------------------------------------------------------
(* The loop of a process.  A step of one leaves the other alone. *)

Busy == {"accept", "read", "write", "report"}

Others(p) ==
    \A q \in Proc \ {p} :
        /\ pc'[q] = pc[q] /\ i'[q] = i[q] /\ fd'[q] = fd[q]
        /\ gfds'[q] = gfds[q] /\ fds'[q] = fds[q] /\ rfds'[q] = rfds[q] /\ wfds'[q] = wfds[q]

\* So it is enough to look at the process that moves, and at what is shared.
LEMMA OneMoves ==
    ASSUME TablesInv, NEW p \in Proc, Others(p), Shapes', MailOK', ConnOK', BytesOK',
           TableOK(gfds'[p], fds'[p]), LoopOK(p)',
           StdinWritable => fds'[p][0] = Stdin \/ (pc'[p] = "dead" /\ fds'[p][0] = Free)
    PROVE  TablesInv'
<1>1. ASSUME NEW q \in Proc
      PROVE  TableOK(gfds'[q], fds'[q]) /\ LoopOK(q)'
  <2>1. CASE q = p
    BY <2>1
  <2>2. CASE q # p
    <3>1. TableOK(gfds[q], fds[q]) /\ LoopOK(q)
      BY DEF TablesInv
    <3>2. /\ pc'[q] = pc[q] /\ i'[q] = i[q] /\ fd'[q] = fd[q]
          /\ gfds'[q] = gfds[q] /\ fds'[q] = fds[q] /\ rfds'[q] = rfds[q]
      BY <2>2 DEF Others
    <3> QED
      BY <3>1, <3>2 DEF LoopOK
  <2> QED
    BY <2>1, <2>2
<1>2. StdinOK'
  BY DEF Others, TablesInv, StdinOK
<1> QED
  BY <1>1, <1>2 DEF TablesInv

\* The sets a process polls change only outside the part of the loop that uses them.
LEMMA MailKept ==
    ASSUME MailOK, NEW p \in Proc, Others(p), mw' = mw,
           pc'[p] \in Busy => pc[p] \in Busy /\ rfds'[p] = rfds[p] /\ wfds'[p] = wfds[p]
    PROVE  MailOK'
BY DEF MailOK, Others, Busy, Proc, Master, Worker

\* The loop starts over.
LEMMA StartsOver ==
    ASSUME Shapes, NEW p \in Proc, evtctx_init(p)
    PROVE  /\ pc' \in [Proc -> States] /\ i' \in [Proc -> 0..SOCK_CLI_MAX] /\ fd' \in [Proc -> ClientFd]
           /\ rfds' \in [Proc -> SUBSET (ClientFd \cup {listenfd, mwrfd})]
           /\ wfds' \in [Proc -> SUBSET (ClientFd \cup {listenfd, mwwfd})]
           /\ pc'[p] = "build" /\ LoopOK(p)'
           /\ \A q \in Proc \ {p} : /\ pc'[q] = pc[q] /\ i'[q] = i[q] /\ fd'[q] = fd[q]
                                    /\ rfds'[q] = rfds[q] /\ wfds'[q] = wfds[q]
<1>1. 0 \in ClientFd /\ 0 \in 0..SOCK_CLI_MAX /\ "build" \in States
  BY Numbers, SMTT(30) DEF States
<1>2. pc' \in [Proc -> States] /\ pc'[p] = "build" /\ \A q \in Proc \ {p} : pc'[q] = pc[q]
  BY <1>1 DEF Shapes, evtctx_init
<1>3. i' \in [Proc -> 0..SOCK_CLI_MAX] /\ fd' \in [Proc -> ClientFd]
      /\ \A q \in Proc \ {p} : i'[q] = i[q] /\ fd'[q] = fd[q]
  BY <1>1 DEF Shapes, evtctx_init
<1>4. /\ rfds' \in [Proc -> SUBSET (ClientFd \cup {listenfd, mwrfd})]
      /\ wfds' \in [Proc -> SUBSET (ClientFd \cup {listenfd, mwwfd})]
      /\ \A q \in Proc \ {p} : rfds'[q] = rfds[q] /\ wfds'[q] = wfds[q]
  BY DEF Shapes, evtctx_init
<1>5. LoopOK(p)'
  BY <1>2 DEF LoopOK
<1> QED
  BY <1>2, <1>3, <1>4, <1>5

\* select_on_cli_rw stops at used slots only.
LEMMA GoesOn ==
    ASSUME Counting, Shapes, NEW p \in Proc, NEW ready, NEW k \in Nat,
           NEW table \in [Slot -> [fd : ClientFd, buf : Seq(Byte)]],
           GoOn(p, table, ready, k), gfds'[p] = table
    PROVE  /\ pc' \in [Proc -> States] /\ i' \in [Proc -> 0..SOCK_CLI_MAX] /\ fd' \in [Proc -> ClientFd]
           /\ pc'[p] \in {"read", "report"} /\ LoopOK(p)'
           /\ \A q \in Proc \ {p} : pc'[q] = pc[q] /\ i'[q] = i[q] /\ fd'[q] = fd[q]
<1> DEFINE next == NextSlot(table, ready, k)
           at == IF next = 0 THEN 0 ELSE table[next].fd
           to == IF next = 0 THEN "report" ELSE "read"
           more == {j \in Used(table) : j >= k /\ table[j].fd \in ready}
<1>1. next = 0 \/ (next \in Slot /\ table[next].fd > 0)
  <2>1. next = IF more = {} THEN 0 ELSE Smallest(more)
    BY DEF NextSlot
  <2>2. more \subseteq Slot /\ more \subseteq Used(table) /\ more \in SUBSET Nat
    BY Numbers DEF Used
  <2>3. more # {} => Smallest(more) \in more
    BY <2>2, SmallestIsIn
  <2> HIDE DEF more, next
  <2> QED
    BY <2>1, <2>2, <2>3 DEF Used
<1>2. i' = [i EXCEPT ![p] = next] /\ fd' = [fd EXCEPT ![p] = at] /\ pc' = [pc EXCEPT ![p] = to]
  BY DEF GoOn
<1> HIDE DEF next, more
<1>3. next \in 0..SOCK_CLI_MAX /\ at \in ClientFd /\ to \in States
  BY <1>1, Numbers, SMTT(30) DEF States, Slot
<1>4. next # 0 => next \in Slot /\ at > 0 /\ table[next].fd = at
  BY <1>1
<1>5. next # 0 <=> to = "read"
  OBVIOUS
<1>6. to \in {"read", "report"}
  OBVIOUS
<1> HIDE DEF at, to
<1>7. /\ pc' \in [Proc -> States] /\ i' \in [Proc -> 0..SOCK_CLI_MAX] /\ fd' \in [Proc -> ClientFd]
      /\ \A q \in Proc \ {p} : pc'[q] = pc[q] /\ i'[q] = i[q] /\ fd'[q] = fd[q]
      /\ pc'[p] = to /\ i'[p] = next /\ fd'[p] = at
  BY <1>2, <1>3 DEF Shapes
<1>8. LoopOK(p)'
  BY <1>4, <1>5, <1>6, <1>7 DEF LoopOK
<1> QED
  BY <1>6, <1>7, <1>8

-----------------------------------------------------------------------------
(* Each step keeps the invariant. *)

\* At the start all tables are empty.
LEMMA TablesInit == Init => TablesInv
<1> SUFFICES ASSUME Init PROVE TablesInv
  OBVIOUS
<1> DEFINE open == [f \in ClientFd |-> IF f = 0 THEN Stdin ELSE Free]
           table == [k \in Slot |-> Unused]
<1>1. \A p \in Proc : gfds[p] = table /\ fds[p] = open /\ pc[p] = "open"
  BY DEF Init
<1>2. TableOK(table, open)
  <2>1. open \in [ClientFd -> {Free, Stdin}] /\ \A f \in ClientFd : f > 0 => open[f] = Free
    BY Numbers, SMTT(30)
  <2> HIDE DEF open
  <2> QED
    BY <2>1, EmptyTable
<1>3. table \in [Slot -> [fd : ClientFd, buf : Seq(Byte)]] /\ open \in [ClientFd -> Conn \cup {Free, Stdin}]
  BY <1>2 DEF TableOK
<1>4. \A f \in ClientFd : open[f] \notin Conn
  BY Numbers
<1>5. open[0] = Stdin
  BY Numbers
<1>6. Shapes
  <2>1. 0 \in ClientFd /\ 0 \in 0..SOCK_CLI_MAX /\ "open" \in States
    BY Numbers, SMTT(30) DEF States
  <2>2. gfds = [p \in Proc |-> table] /\ fds = [p \in Proc |-> open]
    BY DEF Init
  <2> HIDE DEF table, open
  <2> QED
    BY <1>3, <2>1, <2>2, SMTT(30) DEF Shapes, Init
<1> HIDE DEF open, table
<1>7. MailOK
  BY <1>1, Numbers, SMTT(30) DEF MailOK, Init, Proc
<1>8. ConnOK
  BY <1>1, <1>4 DEF ConnOK, Init
<1>9. StdinOK
  BY <1>1, <1>5 DEF StdinOK
<1>10. BytesOK
  <2>1. <<>> \in Seq(Byte) /\ Len(<<>>) = 0
    BY EmptyOne
  <2> QED
    BY <2>1, Numbers, SMTT(30) DEF BytesOK, Init
<1>11. \A p \in Proc : TableOK(gfds[p], fds[p]) /\ LoopOK(p)
  BY <1>1, <1>2 DEF LoopOK
<1> QED
  BY <1>6, <1>7, <1>8, <1>9, <1>10, <1>11 DEF TablesInv

\* A process ends, at whatever step: the kernel closes what it had open.
LEMMA ExitsTables == ASSUME TablesInv, NEW p \in Proc, Exits(p) PROVE TablesInv'
<1> DEFINE open == [f \in ClientFd |-> Free]
           table == [k \in Slot |-> Unused]
<1>1. /\ pc' = [pc EXCEPT ![p] = "dead"] /\ i' = [i EXCEPT ![p] = 0] /\ fd' = [fd EXCEPT ![p] = 0]
      /\ fds' = [fds EXCEPT ![p] = open] /\ gfds' = [gfds EXCEPT ![p] = table]
      /\ rfds' = [rfds EXCEPT ![p] = {}] /\ wfds' = [wfds EXCEPT ![p] = {}]
  BY DEF Exits
<1>2. /\ mw' = mw /\ backlog' = backlog /\ in' = in /\ out' = out /\ sent' = sent
      /\ pidfile' = pidfile /\ sigint' = sigint \ {p}
      /\ sigchld' = "pending" \/ sigchld' = sigchld
  BY DEF Exits, client
<1>3. st' = [c \in Conn |-> IF \E f \in ClientFd : fds[p][f] = c THEN "closed" ELSE st[c]]
  BY DEF Exits
<1>4. Shapes /\ MailOK /\ ConnOK /\ BytesOK
  BY DEF TablesInv
<1>5. TableOK(table, open)
  <2>1. open \in [ClientFd -> {Free, Stdin}] /\ \A f \in ClientFd : f > 0 => open[f] = Free
    BY Numbers
  <2> HIDE DEF open
  <2> QED
    BY <2>1, EmptyTable
<1>6. table \in [Slot -> [fd : ClientFd, buf : Seq(Byte)]] /\ open \in [ClientFd -> Conn \cup {Free, Stdin}]
  BY <1>5 DEF TableOK
<1>7. open[0] = Free
  BY Numbers
<1>8. ConnOK'
  BY <1>1, <1>2, <1>3, <1>4, AllDisconnected
<1> HIDE DEF open, table
<1>9. Shapes'
  <2>1. 0 \in ClientFd /\ 0 \in 0..SOCK_CLI_MAX /\ "dead" \in States
    BY Numbers, SMTT(30) DEF States
  <2> QED
    BY <1>1, <1>2, <1>4, <1>6, <2>1 DEF Shapes
<1>10. Others(p) /\ pc'[p] = "dead" /\ gfds'[p] = table /\ fds'[p] = open
  BY <1>1, <1>4 DEF Others, Shapes
<1>11. MailOK'
  BY <1>2, <1>4, <1>10, MailKept DEF Busy
<1>12. LoopOK(p)' /\ BytesOK'
  BY <1>2, <1>4, <1>10 DEF LoopOK, BytesOK
<1> QED
  BY <1>5, <1>7, <1>8, <1>9, <1>10, <1>11, <1>12, OneMoves

\* The signals.
LEMMA SignalsTables == ASSUME TablesInv, on_sigchld \/ hdl_sig_stop PROVE TablesInv'
<1>0. Shapes /\ MailOK /\ ConnOK /\ BytesOK /\ StdinOK /\ Master \in Proc
  BY DEF TablesInv, Proc
<1>1. CASE Exits(Master)
  BY <1>0, <1>1, ExitsTables
<1>2. CASE on_sigchld /\ ~Exits(Master)
  <2>1. /\ UNCHANGED <<gfds, fds, sigint, pidfile, mw, backlog, st, in, out, client>>
        /\ sigchld' = "handled" /\ pc[Master] # "dead"
        /\ \/ evtctx_init(Master)
           \/ UNCHANGED <<pc, rfds, wfds, i, fd>>
    BY <1>2 DEF on_sigchld
  <2>2. Shapes' /\ Others(Master) /\ LoopOK(Master)'
    <3>1. CASE evtctx_init(Master)
      BY <1>0, <2>1, <3>1, StartsOver DEF Shapes, Others
    <3>2. CASE UNCHANGED <<pc, rfds, wfds, i, fd>>
      BY <1>0, <2>1, <3>2 DEF Shapes, Others, TablesInv, LoopOK
    <3> QED
      BY <2>1, <3>1, <3>2
  <2>3. pc'[Master] = "build" \/ UNCHANGED <<pc, rfds, wfds>>
    BY <1>0, <2>1, StartsOver
  <2>4. MailOK'
    BY <1>0, <2>1, <2>2, <2>3, MailKept DEF Busy
  <2>5. ConnOK' /\ BytesOK'
    BY <1>0, <2>1, ConnKept, BytesKept DEF client
  <2>6. TableOK(gfds'[Master], fds'[Master])
    BY <1>0, <2>1 DEF TablesInv
  <2>7. StdinWritable => fds'[Master][0] = Stdin
    BY <1>0, <2>1 DEF StdinOK
  <2> QED
    BY <1>0, <2>2, <2>4, <2>5, <2>6, <2>7, OneMoves
<1>3. CASE hdl_sig_stop
  <2>1. /\ UNCHANGED <<pc, gfds, fds, rfds, wfds, i, fd, mw, backlog, st, sent, in, out, sigchld, pidfile>>
        /\ sigint' \subseteq Proc
    BY <1>0, <1>3 DEF hdl_sig_stop, loop, client, Shapes
  <2> QED
    BY <2>1, TablesKept
<1> QED
  BY <1>1, <1>2, <1>3

\* What the clients do.
LEMMA ClientsTables == ASSUME TablesInv, NEW c \in Conn, ClientStep(c) PROVE TablesInv'
<1>0. Shapes /\ MailOK /\ ConnOK /\ BytesOK /\ StdinOK
  BY DEF TablesInv
<1>1. UNCHANGED <<pc, gfds, fds, rfds, wfds, i, fd, mw, sigchld, sigint, pidfile>>
  BY DEF ClientStep, Connect, ClientSend, ClientReceive, ClientShutdown, ClientClose, server, loop, shared
<1>2. Shapes' /\ MailOK' /\ StdinOK' /\ \A p \in Proc : TableOK(gfds'[p], fds'[p]) /\ LoopOK(p)'
  BY <1>0, <1>1 DEF TablesInv, Shapes, MailOK, StdinOK, LoopOK
<1>3. ConnOK'
  <2>1. CASE UNCHANGED <<st, backlog>>
    BY <1>0, <1>1, <2>1, ConnKept
  <2>2. CASE Connect(c)
    <3>1. /\ backlog' = backlog \cup {c} /\ st' = [st EXCEPT ![c] = "pending"] /\ st[c] = "new"
          /\ fds' = fds
      BY <1>1, <2>2 DEF Connect
    <3> QED
      BY <1>0, <3>1, SMTT(30) DEF ConnOK
  <2> QED
    BY <2>1, <2>2 DEF ClientStep, ClientSend, ClientReceive, ClientShutdown, ClientClose
<1>4. BytesOK'
  <2>0. /\ <<>> \in Seq(Byte) /\ Len(<<>>) = 0
        /\ in[c] \in Seq(Byte) /\ out[c] \in Seq(Byte) /\ sent[c] \in 0..MaxSend
        /\ Len(in[c]) \in Nat /\ Len(out[c]) \in Nat
        /\ Len(in[c]) <= sent[c] /\ Len(out[c]) <= SndBuf
    BY <1>0, EmptyOne, LengthOf DEF BytesOK
  <2>1. CASE UNCHANGED <<in, out, sent>>
    BY <1>0, <2>1 DEF BytesOK
  <2>2. CASE ClientSend(c)
    <3>1. /\ sent[c] < MaxSend /\ sent' = [sent EXCEPT ![c] = sent[c] + 1] /\ out' = out
          /\ in' = [in EXCEPT ![c] = Append(in[c], <<c, sent[c] + 1>>)]
      BY <2>2 DEF ClientSend
    <3>2. <<c, sent[c] + 1>> \in Byte
      BY <2>0, <3>1, Numbers, SMTT(30) DEF Byte
    <3>3. /\ Append(in[c], <<c, sent[c] + 1>>) \in Seq(Byte)
          /\ Len(Append(in[c], <<c, sent[c] + 1>>)) = Len(in[c]) + 1
      BY <2>0, <3>2, AppendOf
    <3>4. sent[c] + 1 \in 0..MaxSend /\ Len(in[c]) + 1 <= sent[c] + 1
      BY <2>0, <3>1, Numbers, SMTT(30)
    <3> QED
      BY <1>0, <3>1, <3>3, <3>4 DEF BytesOK
  <2>3. CASE ClientReceive(c)
    <3>1. out[c] # <<>> /\ out' = [out EXCEPT ![c] = Tail(out[c])] /\ UNCHANGED <<in, sent>>
      BY <2>3 DEF ClientReceive
    <3>2. Tail(out[c]) \in Seq(Byte) /\ Len(Tail(out[c])) <= SndBuf
      BY <2>0, <3>1, TailOf, Numbers, SMTT(30)
    <3> QED
      BY <1>0, <3>1, <3>2 DEF BytesOK
  <2>4. CASE ClientClose(c)
    <3>1. /\ out' = [out EXCEPT ![c] = <<>>] /\ sent' = sent
          /\ in' = in \/ in' = [in EXCEPT ![c] = <<>>]
      BY <2>4 DEF ClientClose
    <3>2. in' \in [Conn -> Seq(Byte)] /\ \A d \in Conn : Len(in'[d]) <= sent[d]
      <4>1. CASE in' = in
        BY <1>0, <4>1 DEF BytesOK
      <4>2. CASE in' = [in EXCEPT ![c] = <<>>]
        BY <1>0, <2>0, <4>2, Numbers, SMTT(30) DEF BytesOK
      <4> QED
        BY <3>1, <4>1, <4>2
    <3>3. out' \in [Conn -> Seq(Byte)] /\ \A d \in Conn : Len(out'[d]) <= SndBuf
      BY <1>0, <2>0, <3>1, Numbers, SMTT(30) DEF BytesOK
    <3> QED
      BY <1>0, <3>1, <3>2, <3>3 DEF BytesOK
  <2> QED
    BY <2>1, <2>2, <2>3, <2>4 DEF ClientStep, Connect, ClientShutdown, client
<1> QED
  BY <1>2, <1>3, <1>4 DEF TablesInv

\* A table that is almost empty has an unused slot.
LEMMA AlmostEmptyHasRoom ==
    ASSUME Counting, NEW table \in [Slot -> [fd : ClientFd, buf : Seq(Byte)]],
           AlmostEmpty(Cardinality(Used(table)))
    PROVE  HasRoom(table)
<1> SUFFICES ASSUME ~HasRoom(table) PROVE FALSE
  OBVIOUS
<1>1. \A k \in Slot : table[k].fd \in ClientFd /\ table[k].fd # 0
  BY DEF HasRoom
<1>2. Used(table) = Slot
  <2>1. \A k \in Slot : table[k].fd > 0
    BY <1>1, Positive
  <2> QED
    BY <2>1 DEF Used
<1>3. Cardinality(Slot) = SOCK_CLI_MAX
  BY DEF Counting
<1> QED
  BY <1>2, <1>3, Numbers, SMTT(30) DEF AlmostEmpty

\* Before select: the listening socket is polled only if there is room.
LEMMA BuildTables == ASSUME Counting, TablesInv, NEW p \in Proc, build(p) PROVE TablesInv'
<1> DEFINE clients == {gfds[p][k].fd : k \in Used(gfds[p])}
           tries == AlmostEmpty(sock_cli_size(p))
           lock == IF tries /\ sem > 0 THEN {listenfd} ELSE {}
           reports == IF p = Worker /\ ~tries THEN {mwwfd} ELSE {}
           reads == IF p = Master THEN {mwrfd} ELSE {}
<1>0. /\ Shapes /\ MailOK /\ ConnOK /\ BytesOK /\ StdinOK /\ TableOK(gfds[p], fds[p])
      /\ gfds[p] \in [Slot -> [fd : ClientFd, buf : Seq(Byte)]]
  BY DEF TablesInv, Shapes
<1>1. /\ rfds' = [rfds EXCEPT ![p] = clients \cup lock \cup reads]
      /\ wfds' = [wfds EXCEPT ![p] = clients \cup lock \cup reports]
  BY DEF build
<1>2. /\ pc' = [pc EXCEPT ![p] = "select"] /\ pc[p] = "build"
      /\ UNCHANGED <<gfds, i, fd, fds, sigchld, sigint, pidfile, mw, backlog, st, in, out, sent>>
  BY DEF build, shared, client
<1>3. clients \subseteq ClientFd
  BY <1>0 DEF Used
<1>4. listenfd \in lock => HasRoom(gfds[p])
  BY <1>0, AlmostEmptyHasRoom DEF sock_cli_size
<1>5. lock \subseteq {listenfd} /\ reports \subseteq {mwwfd} /\ reads \subseteq {mwrfd}
  OBVIOUS
<1> HIDE DEF clients, lock, reports, reads
<1>6. /\ clients \cup lock \cup reads \in SUBSET (ClientFd \cup {listenfd, mwrfd})
      /\ clients \cup lock \cup reports \in SUBSET (ClientFd \cup {listenfd, mwwfd})
  BY <1>3, <1>5
<1>7. Shapes' /\ Others(p) /\ pc'[p] = "select" /\ rfds'[p] = clients \cup lock \cup reads
  BY <1>0, <1>1, <1>2, <1>6 DEF Shapes, Others, States
<1>8. listenfd \in rfds'[p] => HasRoom(gfds[p])
  BY <1>3, <1>4, <1>5, <1>7, Numbers, SMTT(30) DEF listenfd, mwrfd
<1>9. LoopOK(p)'
  BY <1>2, <1>7, <1>8 DEF LoopOK
<1>10. MailOK'
  BY <1>0, <1>2, <1>7, MailKept DEF Busy
<1>11. ConnOK' /\ BytesOK' /\ TableOK(gfds'[p], fds'[p])
  BY <1>0, <1>2, ConnKept, BytesKept
<1>12. StdinWritable => fds'[p][0] = Stdin
  BY <1>0, <1>2 DEF StdinOK
<1> QED
  BY <1>7, <1>9, <1>10, <1>11, <1>12, OneMoves

\* What select returns still holds until the end of the round: only the master
\* takes reports, only the worker makes them.
LEMMA SelectTables == ASSUME Counting, TablesInv, NEW p \in Proc, select(p) PROVE TablesInv'
<1> DEFINE r == {f \in rfds[p] : f <= maxfd[p] /\ Readable(p, f)}
           w == {f \in wfds[p] : f <= maxfd[p] /\ Writable(p, f)}
<1>0. /\ Shapes /\ MailOK /\ ConnOK /\ BytesOK /\ StdinOK /\ TableOK(gfds[p], fds[p]) /\ LoopOK(p)
      /\ gfds[p] \in [Slot -> [fd : ClientFd, buf : Seq(Byte)]]
  BY DEF TablesInv, Shapes
<1>1. /\ pc[p] = "select" /\ rfds' = [rfds EXCEPT ![p] = r] /\ wfds' = [wfds EXCEPT ![p] = w]
      /\ UNCHANGED <<gfds, fds, sigchld, sigint, pidfile, mw, backlog, st, in, out, sent>>
  BY DEF select, shared, client
<1>2. IF listenfd \in r THEN pc' = [pc EXCEPT ![p] = "accept"] /\ UNCHANGED <<i, fd>>
                        ELSE GoOn(p, gfds[p], r \cup w, 1)
  BY DEF select
<1>3. r \subseteq rfds[p] /\ w \subseteq wfds[p]
  OBVIOUS
<1>4. (mwrfd \in r => mw > 0) /\ (mwwfd \in w => mw < MwCap)
  BY SMTT(30) DEF Readable, Writable, listenfd, mwrfd, mwwfd
<1> HIDE DEF r, w
<1>5. /\ rfds' \in [Proc -> SUBSET (ClientFd \cup {listenfd, mwrfd})]
      /\ wfds' \in [Proc -> SUBSET (ClientFd \cup {listenfd, mwwfd})]
      /\ rfds'[p] = r /\ wfds'[p] = w
      /\ \A q \in Proc \ {p} : rfds'[q] = rfds[q] /\ wfds'[q] = wfds[q]
  BY <1>0, <1>1, <1>3 DEF Shapes
<1>6. /\ pc' \in [Proc -> States] /\ i' \in [Proc -> 0..SOCK_CLI_MAX] /\ fd' \in [Proc -> ClientFd]
      /\ LoopOK(p)'
      /\ \A q \in Proc \ {p} : pc'[q] = pc[q] /\ i'[q] = i[q] /\ fd'[q] = fd[q]
  <2>1. CASE listenfd \in r
    <3>1. /\ pc' \in [Proc -> States] /\ pc'[p] = "accept" /\ UNCHANGED <<i, fd>>
          /\ \A q \in Proc \ {p} : pc'[q] = pc[q]
      BY <1>0, <1>2, <2>1 DEF Shapes, States
    <3>2. HasRoom(gfds[p])
      BY <1>0, <1>1, <1>3, <2>1 DEF LoopOK
    <3> QED
      BY <1>0, <1>1, <3>1, <3>2 DEF Shapes, LoopOK
  <2>2. CASE listenfd \notin r
    <3>1. GoOn(p, gfds[p], r \cup w, 1) /\ gfds'[p] = gfds[p] /\ 1 \in Nat
      BY <1>1, <1>2, <2>2
    <3> QED
      BY <1>0, <3>1, GoesOn
  <2> QED
    BY <2>1, <2>2
<1>7. Shapes' /\ Others(p)
  BY <1>0, <1>1, <1>5, <1>6 DEF Shapes, Others
<1>8. MailOK'
  BY <1>0, <1>1, <1>4, <1>5, <1>6 DEF MailOK, Proc, Master, Worker
<1>9. ConnOK' /\ BytesOK' /\ TableOK(gfds'[p], fds'[p])
  BY <1>0, <1>1, ConnKept, BytesKept
<1>10. StdinWritable => fds'[p][0] = Stdin
  BY <1>0, <1>1 DEF StdinOK
<1> QED
  BY <1>6, <1>7, <1>8, <1>9, <1>10, OneMoves

\* accept: there is room, so the connection is not turned away, and it gets a slot.
LEMMA AcceptTables == ASSUME Counting, TablesInv, NEW p \in Proc, select_on_socket_connect(p) PROVE TablesInv'
<1> DEFINE confd == Smallest({f \in ClientFd : fds[p][f] = Free})
<1>0. /\ Shapes /\ MailOK /\ ConnOK /\ BytesOK /\ StdinOK /\ TableOK(gfds[p], fds[p]) /\ LoopOK(p)
  BY DEF TablesInv
<1>1. /\ pc[p] = "accept" /\ evtctx_init(p)
      /\ UNCHANGED <<sigchld, sigint, pidfile, mw, in, out, sent>>
  BY DEF select_on_socket_connect, shared, client
<1>2. HasRoom(gfds[p])
  BY <1>0, <1>1 DEF LoopOK
<1>3. \/ UNCHANGED <<gfds, fds, backlog, st>>
      \/ \E c \in backlog :
            /\ backlog' = backlog \ {c} /\ st' = [st EXCEPT ![c] = "open"]
            /\ gfds' = [gfds EXCEPT ![p] = sock_cli_add(gfds[p], confd)]
            /\ fds' = [fds EXCEPT ![p][confd] = c]
  BY <1>2 DEF select_on_socket_connect, HasRoom
<1>4. confd \in ClientFd /\ fds[p][confd] = Free
  BY <1>0, DescriptorLeft
<1> HIDE DEF confd
<1> DEFINE Served ==
             /\ gfds' \in [Proc -> [Slot -> [fd : ClientFd, buf : Seq(Byte)]]]
             /\ fds' \in [Proc -> [ClientFd -> Conn \cup {Free, Stdin}]]
             /\ TableOK(gfds'[p], fds'[p]) /\ ConnOK'
             /\ \A q \in Proc \ {p} : gfds'[q] = gfds[q] /\ fds'[q] = fds[q]
             /\ StdinWritable => fds'[p][0] = fds[p][0]
<1>5. Served
  <2>1. CASE UNCHANGED <<gfds, fds, backlog, st>>
    BY <1>0, <2>1, ConnKept DEF Shapes
  <2>2. ASSUME NEW c \in backlog, backlog' = backlog \ {c}, st' = [st EXCEPT ![c] = "open"],
               gfds' = [gfds EXCEPT ![p] = sock_cli_add(gfds[p], confd)],
               fds' = [fds EXCEPT ![p][confd] = c]
        PROVE  Served
    <3>1. c \in Conn
      BY <1>0 DEF ConnOK
    <3>2. ConnOK'
      BY <1>0, <1>4, <2>2, Connected
    <3>3. TableOK(sock_cli_add(gfds[p], confd), [fds[p] EXCEPT ![confd] = c])
      BY <1>0, <1>2, <1>4, <3>1, AddToTable
    <3>4. /\ sock_cli_add(gfds[p], confd) \in [Slot -> [fd : ClientFd, buf : Seq(Byte)]]
          /\ [fds[p] EXCEPT ![confd] = c] \in [ClientFd -> Conn \cup {Free, Stdin}]
      BY <3>3 DEF TableOK
    <3>5. gfds'[p] = sock_cli_add(gfds[p], confd) /\ fds'[p] = [fds[p] EXCEPT ![confd] = c]
      BY <1>0, <2>2 DEF Shapes
    <3>6. /\ gfds' \in [Proc -> [Slot -> [fd : ClientFd, buf : Seq(Byte)]]]
          /\ fds' \in [Proc -> [ClientFd -> Conn \cup {Free, Stdin}]]
          /\ \A q \in Proc \ {p} : gfds'[q] = gfds[q] /\ fds'[q] = fds[q]
      <4>1. /\ gfds' \in [Proc -> [Slot -> [fd : ClientFd, buf : Seq(Byte)]]]
            /\ \A q \in Proc \ {p} : gfds'[q] = gfds[q]
        BY <1>0, <2>2, <3>4 DEF Shapes
      <4>2. /\ fds' \in [Proc -> [ClientFd -> Conn \cup {Free, Stdin}]]
            /\ \A q \in Proc \ {p} : fds'[q] = fds[q]
        BY <1>0, <2>2, <3>4 DEF Shapes
      <4> QED
        BY <4>1, <4>2
    <3>7. StdinWritable => fds'[p][0] = fds[p][0]
      <4>1. StdinWritable => confd # 0
        BY <1>0, <1>1, <1>4, Numbers DEF StdinOK
      <4> QED
        BY <1>0, <3>5, <4>1, Numbers, SMTT(30) DEF Shapes
    <3> QED
      BY <3>2, <3>3, <3>5, <3>6, <3>7
  <2> QED
    BY <1>3, <2>1, <2>2
<1>6. Shapes' /\ Others(p) /\ LoopOK(p)' /\ pc'[p] = "build"
  BY <1>0, <1>1, <1>5, StartsOver DEF Shapes, Others
<1>7. MailOK'
  BY <1>0, <1>1, <1>6, MailKept DEF Busy
<1>8. BytesOK'
  BY <1>0, <1>1 DEF BytesOK
<1>9. StdinWritable => fds'[p][0] = Stdin
  BY <1>0, <1>1, <1>5 DEF StdinOK
<1> QED
  BY <1>5, <1>6, <1>7, <1>8, <1>9, OneMoves

\* read: the slot is still that of the descriptor, and what is read fits.
LEMMA ReadTables == ASSUME Counting, TablesInv, NEW p \in Proc, protocol_echo_read(p) PROVE TablesInv'
<1> DEFINE s == gfds[p][i[p]]
           c == fds[p][fd[p]]
           n == Lesser(gechobytes, Len(in[c]))
           full == s.buf \o Prefix(in[c], n)
<1>0. /\ Shapes /\ MailOK /\ ConnOK /\ BytesOK /\ StdinOK /\ TableOK(gfds[p], fds[p]) /\ LoopOK(p)
  BY DEF TablesInv
<1>1. /\ pc[p] = "read" /\ pc' = [pc EXCEPT ![p] = "write"]
      /\ UNCHANGED <<rfds, wfds, i, fd, sigchld, sigint, pidfile, mw, backlog, out, sent>>
  BY DEF protocol_echo_read, shared, client
<1>2. /\ i[p] \in Slot /\ fd[p] \in ClientFd /\ fd[p] > 0 /\ s.fd = fd[p] /\ c \in Conn
      /\ s \in [fd : ClientFd, buf : Seq(Byte)]
  BY <1>0, <1>1 DEF LoopOK, TableOK, Shapes
<1>3. \/ UNCHANGED <<gfds, fds, in, st>>
      \/ /\ RoomToRead(s) /\ in[c] # <<>> /\ UNCHANGED <<fds, st>>
         /\ gfds' = [gfds EXCEPT ![p][i[p]].buf = full] /\ in' = [in EXCEPT ![c] = Rest(in[c], n)]
      \/ /\ gfds' = [gfds EXCEPT ![p] = sock_cli_remove(gfds[p], fd[p])]
         /\ fds' = [fds EXCEPT ![p][fd[p]] = Free] /\ st' = [st EXCEPT ![c] = "closed"]
         /\ UNCHANGED in
  BY DEF protocol_echo_read
<1>4. /\ in[c] \in Seq(Byte) /\ Len(in[c]) \in Nat /\ s.buf \in Seq(Byte) /\ Len(s.buf) \in Nat
      /\ Len(in[c]) <= sent[c] /\ sent[c] \in Nat
  <2>1. in[c] \in Seq(Byte) /\ s.buf \in Seq(Byte) /\ Len(in[c]) <= sent[c] /\ sent[c] \in 0..MaxSend
    BY <1>0, <1>2 DEF BytesOK
  <2> HIDE DEF s, c
  <2> QED
    BY <2>1, LengthOf, Numbers, SMTT(30)
<1>5. n \in 0..Len(in[c]) /\ n <= gechobytes
  <2> HIDE DEF c
  <2> QED
    BY <1>4, Numbers, SMTT(30) DEF Lesser
<1> HIDE DEF s, c, n
<1>6. /\ Rest(in[c], n) \in Seq(Byte) /\ Len(Rest(in[c], n)) <= sent[c]
      /\ full \in Seq(Byte) /\ Len(full) = Len(s.buf) + n
  <2>1. /\ Prefix(in[c], n) \in Seq(Byte) /\ Len(Prefix(in[c], n)) = n
        /\ Rest(in[c], n) \in Seq(Byte) /\ Len(Rest(in[c], n)) = Len(in[c]) - n
    BY <1>4, <1>5, PrefixRest
  <2>2. full \in Seq(Byte) /\ Len(full) = Len(s.buf) + Len(Prefix(in[c], n))
    BY <1>4, <2>1, ConcatOf
  <2> QED
    BY <1>4, <1>5, <2>1, <2>2, SMTT(30)
<1>7. RoomToRead(s) => Len(full) <= SOCK_BUF
  BY <1>4, <1>5, <1>6, Numbers, SMTT(30) DEF RoomToRead
<1> HIDE DEF full
<1> DEFINE Served ==
             /\ gfds' \in [Proc -> [Slot -> [fd : ClientFd, buf : Seq(Byte)]]]
             /\ fds' \in [Proc -> [ClientFd -> Conn \cup {Free, Stdin}]]
             /\ TableOK(gfds'[p], fds'[p]) /\ ConnOK' /\ BytesOK'
             /\ \A q \in Proc \ {p} : gfds'[q] = gfds[q] /\ fds'[q] = fds[q]
             /\ fds'[p][0] = fds[p][0]
<1>8. Served
  <2>1. CASE UNCHANGED <<gfds, fds, in, st>>
    BY <1>0, <1>1, <2>1, ConnKept, BytesKept DEF Shapes
  <2>2. CASE /\ RoomToRead(s) /\ in[c] # <<>> /\ UNCHANGED <<fds, st>>
             /\ gfds' = [gfds EXCEPT ![p][i[p]].buf = full] /\ in' = [in EXCEPT ![c] = Rest(in[c], n)]
    <3>1. TableOK([gfds[p] EXCEPT ![i[p]].buf = full], fds[p])
      BY <1>0, <1>2, <1>6, <1>7, <2>2, RefillBuffer
    <3>2. [gfds[p] EXCEPT ![i[p]].buf = full] \in [Slot -> [fd : ClientFd, buf : Seq(Byte)]]
      BY <3>1 DEF TableOK
    <3>3. gfds'[p] = [gfds[p] EXCEPT ![i[p]].buf = full]
      BY <1>0, <2>2 DEF Shapes
    <3>4. /\ gfds' \in [Proc -> [Slot -> [fd : ClientFd, buf : Seq(Byte)]]]
          /\ \A q \in Proc \ {p} : gfds'[q] = gfds[q]
      BY <1>0, <2>2, <3>2 DEF Shapes
    <3>5. BytesOK'
      BY <1>0, <1>1, <1>2, <1>6, <2>2 DEF BytesOK
    <3>6. ConnOK'
      BY <1>0, <1>1, <2>2, ConnKept
    <3> QED
      BY <1>0, <2>2, <3>1, <3>3, <3>4, <3>5, <3>6 DEF Shapes
  <2>3. CASE /\ gfds' = [gfds EXCEPT ![p] = sock_cli_remove(gfds[p], fd[p])]
             /\ fds' = [fds EXCEPT ![p][fd[p]] = Free] /\ st' = [st EXCEPT ![c] = "closed"]
             /\ UNCHANGED in
    <3>1. ConnOK'
      BY <1>0, <1>1, <1>2, <2>3, Disconnected DEF c
    <3>2. TableOK(sock_cli_remove(gfds[p], fd[p]), [fds[p] EXCEPT ![fd[p]] = Free])
      BY <1>0, <1>2, RemoveFromTable
    <3>3. /\ sock_cli_remove(gfds[p], fd[p]) \in [Slot -> [fd : ClientFd, buf : Seq(Byte)]]
          /\ [fds[p] EXCEPT ![fd[p]] = Free] \in [ClientFd -> Conn \cup {Free, Stdin}]
      BY <3>2 DEF TableOK
    <3>4. gfds'[p] = sock_cli_remove(gfds[p], fd[p]) /\ fds'[p] = [fds[p] EXCEPT ![fd[p]] = Free]
      BY <1>0, <2>3 DEF Shapes
    <3>5. /\ gfds' \in [Proc -> [Slot -> [fd : ClientFd, buf : Seq(Byte)]]]
          /\ fds' \in [Proc -> [ClientFd -> Conn \cup {Free, Stdin}]]
          /\ \A q \in Proc \ {p} : gfds'[q] = gfds[q] /\ fds'[q] = fds[q]
      <4>1. /\ gfds' \in [Proc -> [Slot -> [fd : ClientFd, buf : Seq(Byte)]]]
            /\ \A q \in Proc \ {p} : gfds'[q] = gfds[q]
        BY <1>0, <2>3, <3>3 DEF Shapes
      <4>2. /\ fds' \in [Proc -> [ClientFd -> Conn \cup {Free, Stdin}]]
            /\ \A q \in Proc \ {p} : fds'[q] = fds[q]
        BY <1>0, <2>3, <3>3 DEF Shapes
      <4> QED
        BY <4>1, <4>2
    <3>6. fds'[p][0] = fds[p][0]
      BY <1>0, <1>2, <3>4, Numbers, SMTT(30) DEF Shapes
    <3>7. BytesOK'
      BY <1>0, <1>1, <2>3 DEF BytesOK
    <3> QED
      BY <3>1, <3>2, <3>4, <3>5, <3>6, <3>7
  <2> QED
    BY <1>3, <2>1, <2>2, <2>3
<1>9. Shapes' /\ Others(p) /\ pc'[p] = "write"
  BY <1>0, <1>1, <1>8 DEF Shapes, Others, States
<1>10. LoopOK(p)'
  BY <1>1, <1>2, <1>9 DEF LoopOK
<1>11. MailOK'
  BY <1>0, <1>1, <1>9, MailKept DEF Busy
<1>12. StdinWritable => fds'[p][0] = Stdin
  BY <1>0, <1>1, <1>8 DEF StdinOK
<1> QED
  BY <1>8, <1>9, <1>10, <1>11, <1>12, OneMoves

\* Descriptor 0 is closed like a client's: the table does not know it.
LEMMA StdinClosed ==
    ASSUME Shapes, ConnOK, NEW p \in Proc, TableOK(gfds[p], fds[p]), fds[p][0] = Stdin,
           fds' = [fds EXCEPT ![p][0] = Free], UNCHANGED <<st, backlog>>
    PROVE  ConnOK' /\ TableOK(gfds[p], fds'[p])
<1>1. /\ \A q \in Proc : \A g \in ClientFd : fds'[q][g] = IF q = p /\ g = 0 THEN Free ELSE fds[q][g]
      /\ fds'[p] = [fds[p] EXCEPT ![0] = Free]
  BY Numbers DEF Shapes
<1>2. \A q \in Proc : \A g \in ClientFd : \A c \in Conn : fds'[q][g] = c <=> fds[q][g] = c
  BY <1>1, Numbers, SMTT(30)
<1>3. sock_cli_remove(gfds[p], 0) = gfds[p]
  BY SMTT(30) DEF sock_cli_remove, TableOK
<1>4. TableOK(gfds[p], fds'[p])
  BY <1>1, <1>3, RemoveFromTable, Numbers, SMTT(30)
<1>5. ConnOK'
  BY <1>2, SMTT(30) DEF ConnOK
<1> QED
  BY <1>4, <1>5

\* write: the rest of the buffer stays, and goes to the descriptor the slot has now.
LEMMA WriteTables == ASSUME Counting, TablesInv, NEW p \in Proc, protocol_echo_write(p) PROVE TablesInv'
<1> DEFINE s == gfds[p][i[p]]
           to == fds[p][s.fd]
           n == Lesser(Len(s.buf), SndBuf - Len(out[to]))
<1>0. /\ Shapes /\ MailOK /\ ConnOK /\ BytesOK /\ StdinOK /\ TableOK(gfds[p], fds[p]) /\ LoopOK(p)
  BY DEF TablesInv
<1>1. /\ pc[p] = "write" /\ GoOn(p, gfds'[p], rfds[p] \cup wfds[p], i[p] + 1)
      /\ UNCHANGED <<rfds, wfds, sigchld, sigint, pidfile, mw, backlog, in, sent>>
  BY DEF protocol_echo_write, shared, client
<1>2. /\ i[p] \in Slot /\ s \in [fd : ClientFd, buf : Seq(Byte)] /\ s.fd \in ClientFd
      /\ s.buf \in Seq(Byte) /\ Len(s.buf) <= SOCK_BUF
  BY <1>0, <1>1 DEF LoopOK, TableOK
<1>3. \/ UNCHANGED <<gfds, fds, out, st>>
      \/ /\ gfds' = [gfds EXCEPT ![p][i[p]].buf = <<>>] /\ UNCHANGED <<fds, out, st>>
      \/ /\ to = Stdin /\ ~StdinWritable
         /\ fds' = [fds EXCEPT ![p][0] = Free] /\ UNCHANGED <<gfds, out, st>>
      \/ /\ to \in Conn /\ gfds' = [gfds EXCEPT ![p] = sock_cli_remove(gfds[p], s.fd)]
         /\ fds' = [fds EXCEPT ![p][s.fd] = Free] /\ st' = [st EXCEPT ![to] = "closed"]
         /\ UNCHANGED out
      \/ /\ to \in Conn /\ gfds' = [gfds EXCEPT ![p][i[p]].buf = Rest(s.buf, n)]
         /\ out' = [out EXCEPT ![to] = out[to] \o Prefix(s.buf, n)] /\ UNCHANGED <<fds, st>>
  BY DEF protocol_echo_write, WriteTo, Unwritten
<1>4. to = Stdin => s.fd = 0
  <2>1. s.fd > 0 => to \in Conn
    BY <1>0, <1>2 DEF TableOK
  <2>2. s.fd = 0 \/ s.fd > 0
    BY <1>2, Positive
  <2>3. to = Stdin => to \notin Conn
    BY Numbers
  <2> HIDE DEF s, to
  <2> QED
    BY <2>1, <2>2, <2>3
<1> DEFINE Served ==
             /\ gfds' \in [Proc -> [Slot -> [fd : ClientFd, buf : Seq(Byte)]]]
             /\ fds' \in [Proc -> [ClientFd -> Conn \cup {Free, Stdin}]]
             /\ TableOK(gfds'[p], fds'[p]) /\ ConnOK' /\ BytesOK'
             /\ \A q \in Proc \ {p} : gfds'[q] = gfds[q] /\ fds'[q] = fds[q]
             /\ StdinWritable => fds'[p][0] = fds[p][0]
<1>5. ASSUME NEW buf \in Seq(Byte), Len(buf) <= SOCK_BUF,
             gfds' = [gfds EXCEPT ![p][i[p]].buf = buf], UNCHANGED <<fds, st>>, BytesOK'
      PROVE  Served
  <2>1. TableOK([gfds[p] EXCEPT ![i[p]].buf = buf], fds[p])
    BY <1>0, <1>2, <1>5, RefillBuffer
  <2>2. [gfds[p] EXCEPT ![i[p]].buf = buf] \in [Slot -> [fd : ClientFd, buf : Seq(Byte)]]
    BY <2>1 DEF TableOK
  <2>3. /\ gfds'[p] = [gfds[p] EXCEPT ![i[p]].buf = buf]
        /\ gfds' \in [Proc -> [Slot -> [fd : ClientFd, buf : Seq(Byte)]]]
        /\ \A q \in Proc \ {p} : gfds'[q] = gfds[q]
    BY <1>0, <1>5, <2>2 DEF Shapes
  <2>4. ConnOK'
    BY <1>0, <1>1, <1>5, SMTT(30) DEF ConnOK
  <2> QED
    BY <1>0, <1>5, <2>1, <2>3, <2>4 DEF Shapes
<1> HIDE DEF s, to, n
<1>6. Served
  <2>1. CASE UNCHANGED <<gfds, fds, out, st>>
    BY <1>0, <1>1, <2>1, ConnKept, BytesKept DEF Shapes
  <2>2. CASE gfds' = [gfds EXCEPT ![p][i[p]].buf = <<>>] /\ UNCHANGED <<fds, out, st>>
    <3>1. BytesOK' /\ <<>> \in Seq(Byte) /\ Len(<<>>) <= SOCK_BUF
      BY <1>0, <1>1, <2>2, EmptyOne, Numbers, SMTT(30) DEF BytesOK
    <3> QED
      BY <1>5, <2>2, <3>1
  <2>3. CASE /\ to = Stdin /\ ~StdinWritable
             /\ fds' = [fds EXCEPT ![p][0] = Free] /\ UNCHANGED <<gfds, out, st>>
    <3>1. fds[p][0] = Stdin
      BY <1>4, <2>3 DEF to
    <3>2. ConnOK' /\ TableOK(gfds[p], fds'[p])
      BY <1>0, <1>1, <2>3, <3>1, StdinClosed
    <3>3. BytesOK'
      BY <1>0, <1>1, <2>3 DEF BytesOK
    <3>4. /\ fds' \in [Proc -> [ClientFd -> Conn \cup {Free, Stdin}]]
          /\ \A q \in Proc \ {p} : fds'[q] = fds[q]
      BY <1>0, <2>3 DEF Shapes
    <3> QED
      BY <1>0, <2>3, <3>2, <3>3, <3>4 DEF Shapes
  <2>4. CASE /\ to \in Conn /\ gfds' = [gfds EXCEPT ![p] = sock_cli_remove(gfds[p], s.fd)]
             /\ fds' = [fds EXCEPT ![p][s.fd] = Free] /\ st' = [st EXCEPT ![to] = "closed"]
             /\ UNCHANGED out
    <3>1. ConnOK'
      BY <1>0, <1>1, <1>2, <2>4, Disconnected DEF to
    <3>2. TableOK(sock_cli_remove(gfds[p], s.fd), [fds[p] EXCEPT ![s.fd] = Free])
      BY <1>0, <1>2, RemoveFromTable
    <3>3. /\ sock_cli_remove(gfds[p], s.fd) \in [Slot -> [fd : ClientFd, buf : Seq(Byte)]]
          /\ [fds[p] EXCEPT ![s.fd] = Free] \in [ClientFd -> Conn \cup {Free, Stdin}]
      BY <3>2 DEF TableOK
    <3>4. gfds'[p] = sock_cli_remove(gfds[p], s.fd) /\ fds'[p] = [fds[p] EXCEPT ![s.fd] = Free]
      BY <1>0, <2>4 DEF Shapes
    <3>5. /\ gfds' \in [Proc -> [Slot -> [fd : ClientFd, buf : Seq(Byte)]]]
          /\ fds' \in [Proc -> [ClientFd -> Conn \cup {Free, Stdin}]]
          /\ \A q \in Proc \ {p} : gfds'[q] = gfds[q] /\ fds'[q] = fds[q]
      BY <1>0, <2>4, <3>3, SMTT(30) DEF Shapes
    <3>6. StdinWritable => fds'[p][0] = fds[p][0]
      <4>1. StdinWritable => s.fd # 0
        BY <1>0, <1>1, <2>4, Numbers DEF StdinOK, to
      <4> QED
        BY <1>0, <3>4, <4>1, Numbers, SMTT(30) DEF Shapes
    <3>7. BytesOK'
      BY <1>0, <1>1, <2>4 DEF BytesOK
    <3> QED
      BY <3>1, <3>2, <3>4, <3>5, <3>6, <3>7
  <2>5. CASE /\ to \in Conn /\ gfds' = [gfds EXCEPT ![p][i[p]].buf = Rest(s.buf, n)]
             /\ out' = [out EXCEPT ![to] = out[to] \o Prefix(s.buf, n)] /\ UNCHANGED <<fds, st>>
    <3>1. /\ out[to] \in Seq(Byte) /\ Len(out[to]) <= SndBuf
          /\ Len(out[to]) \in Nat /\ Len(s.buf) \in Nat
      BY <1>0, <1>2, <2>5, LengthOf DEF BytesOK
    <3>2. n \in 0..Len(s.buf) /\ n <= SndBuf - Len(out[to])
      <4>1. SndBuf - Len(out[to]) \in Nat
        BY <3>1, ForkAssumption, SMTT(30)
      <4> QED
        BY <3>1, <4>1, SMTT(30) DEF n, Lesser
    <3>3. /\ Prefix(s.buf, n) \in Seq(Byte) /\ Len(Prefix(s.buf, n)) = n
          /\ Rest(s.buf, n) \in Seq(Byte) /\ Len(Rest(s.buf, n)) = Len(s.buf) - n
      BY <1>2, <3>2, PrefixRest
    <3>4. /\ out[to] \o Prefix(s.buf, n) \in Seq(Byte)
          /\ Len(out[to] \o Prefix(s.buf, n)) = Len(out[to]) + Len(Prefix(s.buf, n))
      BY <3>1, <3>3, ConcatOf
    <3>5. Len(out[to] \o Prefix(s.buf, n)) <= SndBuf /\ Len(Rest(s.buf, n)) <= SOCK_BUF
      BY <1>2, <3>1, <3>2, <3>3, <3>4, Numbers, SMTT(30)
    <3>6. BytesOK'
      BY <1>0, <1>1, <2>5, <3>4, <3>5 DEF BytesOK
    <3> QED
      BY <1>5, <2>5, <3>3, <3>5, <3>6
  <2> QED
    BY <1>3, <2>1, <2>2, <2>3, <2>4, <2>5
<1>7. /\ pc' \in [Proc -> States] /\ i' \in [Proc -> 0..SOCK_CLI_MAX] /\ fd' \in [Proc -> ClientFd]
      /\ pc'[p] \in {"read", "report"} /\ LoopOK(p)'
      /\ \A q \in Proc \ {p} : pc'[q] = pc[q] /\ i'[q] = i[q] /\ fd'[q] = fd[q]
  <2>1. gfds'[p] \in [Slot -> [fd : ClientFd, buf : Seq(Byte)]] /\ i[p] + 1 \in Nat
    BY <1>2, <1>6, ForkAssumption, SMTT(30) DEF Slot
  <2> QED
    BY <1>0, <1>1, <2>1, GoesOn
<1>8. Shapes' /\ Others(p)
  BY <1>0, <1>1, <1>6, <1>7 DEF Shapes, Others
<1>9. MailOK'
  BY <1>0, <1>1, <1>8, MailKept DEF Busy
<1>10. StdinWritable => fds'[p][0] = Stdin
  BY <1>0, <1>1, <1>6 DEF StdinOK
<1> QED
  BY <1>6, <1>7, <1>8, <1>9, <1>10, OneMoves

\* A report is written to a socket pair with room, and read if there is one.
LEMMA ReportTables == ASSUME TablesInv, NEW p \in Proc, report(p) PROVE TablesInv'
<1>0. /\ Shapes /\ MailOK /\ ConnOK /\ BytesOK /\ StdinOK /\ TableOK(gfds[p], fds[p])
  BY DEF TablesInv
<1>1. /\ pc[p] = "report" /\ evtctx_init(p)
      /\ UNCHANGED <<gfds, fds, sigchld, sigint, pidfile, backlog, st, in, out, sent>>
      /\ mw' = CASE p = Worker /\ mwwfd \in wfds[p] -> mw + 1
                 [] p = Master /\ mwrfd \in rfds[p] -> mw - 1
                 [] OTHER -> mw
  BY DEF report, client
<1>2. Shapes' /\ Others(p) /\ LoopOK(p)' /\ pc'[p] = "build"
  BY <1>0, <1>1, StartsOver DEF Shapes, Others
<1>3. MailOK'
  BY <1>0, <1>1, <1>2, Numbers, SMTT(30) DEF MailOK, Others, Proc, Master, Worker
<1>4. ConnOK' /\ BytesOK' /\ TableOK(gfds'[p], fds'[p])
  BY <1>0, <1>1, ConnKept, BytesKept
<1>5. StdinWritable => fds'[p][0] = Stdin
  BY <1>0, <1>1 DEF StdinOK
<1> QED
  BY <1>2, <1>3, <1>4, <1>5, OneMoves

\* The start of a process.
LEMMA OpenTables == ASSUME TablesInv, NEW p \in Proc, sem_open(p) PROVE TablesInv'
<1>0. /\ Shapes /\ MailOK /\ ConnOK /\ BytesOK /\ StdinOK /\ TableOK(gfds[p], fds[p]) /\ LoopOK(p)
  BY DEF TablesInv
<1>1. /\ pc[p] = "open" /\ pc' = [pc EXCEPT ![p] = "build"] /\ pidfile' = pidfile \cup {p}
      /\ UNCHANGED <<gfds, fds, rfds, wfds, i, fd, sigchld, sigint, mw, backlog, st, in, out, sent>>
  BY DEF sem_open, loop, client
<1>2. Shapes' /\ Others(p) /\ pc'[p] = "build"
  BY <1>0, <1>1 DEF Shapes, Others, States
<1>3. LoopOK(p)' /\ ConnOK' /\ BytesOK' /\ TableOK(gfds'[p], fds'[p])
  BY <1>0, <1>1, <1>2, ConnKept, BytesKept DEF LoopOK
<1>4. MailOK'
  BY <1>0, <1>1, <1>2, MailKept DEF Busy
<1>5. StdinWritable => fds'[p][0] = Stdin
  BY <1>0, <1>1 DEF StdinOK
<1> QED
  BY <1>2, <1>3, <1>4, <1>5, OneMoves

\* Every step keeps the invariant.
LEMMA TablesNext == Counting /\ TablesInv /\ [Next]_vars => TablesInv'
<1> SUFFICES ASSUME Counting, TablesInv, [Next]_vars PROVE TablesInv'
  OBVIOUS
<1>1. CASE UNCHANGED vars
  <2>1. UNCHANGED <<pc, gfds, fds, rfds, wfds, i, fd, mw, backlog, st, sent, in, out, sigchld, sigint, pidfile>>
    BY <1>1 DEF vars, loop, shared, client
  <2> QED
    BY <2>1, TablesKept DEF TablesInv, Shapes
<1>2. CASE on_sigchld \/ hdl_sig_stop
  BY <1>2, SignalsTables
<1>3. ASSUME NEW c \in Conn, ClientStep(c) PROVE TablesInv'
  BY <1>3, ClientsTables
<1>4. ASSUME NEW p \in Proc, Dies(p) PROVE TablesInv'
  BY <1>4, ExitsTables DEF Dies
<1>5. ASSUME NEW p \in Proc, Run(p) PROVE TablesInv'
  BY <1>5, OpenTables, BuildTables, SelectTables, AcceptTables, ReadTables, WriteTables,
     ReportTables DEF Run
<1> QED
  BY <1>1, <1>2, <1>3, <1>4, <1>5 DEF Next

-----------------------------------------------------------------------------
(***************************************************************************)
(* The bytes: whatever slots and descriptors are reused and whichever      *)
(* process dies, a client gets its own bytes back, in order and without a  *)
(* gap.                                                                    *)
(***************************************************************************)

\* What EchoesOwnBytes needs to be inductive: a client that went away gets nothing
\* more, and of one that is not accepted yet everything is still to be read.
EchoInv ==
    /\ got \in [Conn -> Nat] /\ eof \in [Conn -> BOOLEAN] /\ gone \in [Conn -> BOOLEAN]
    /\ \A c \in Conn : gone[c] => eof[c] /\ out[c] = <<>>
    /\ \A c \in Conn : st[c] \in {"new", "pending"} =>
           /\ out[c] = <<>> /\ got[c] = 0
           /\ ~gone[c] => InOrder(in[c], c, 0) /\ Len(in[c]) = sent[c]
    /\ EchoesOwnBytes

-----------------------------------------------------------------------------
(* Sequences of bytes. *)

\* Sequences with the same elements are the same.
LEMMA SameBytes ==
    ASSUME NEW s \in Seq(Byte), NEW t \in Seq(Byte), Len(s) = Len(t), \A k \in 1..Len(s) : s[k] = t[k]
    PROVE  s = t
BY SMTT(30)

\* What is taken from the front of a sequence and the rest make the whole.
LEMMA PrefixAndRest ==
    ASSUME NEW s \in Seq(Byte), NEW n \in 0..Len(s)
    PROVE  Prefix(s, n) \o Rest(s, n) = s
<1>1. /\ \A k \in 1..n : Prefix(s, n)[k] = s[k]
      /\ \A k \in 1..(Len(s) - n) : Rest(s, n)[k] = s[n + k]
  BY SMTT(30) DEF Prefix, Rest
<1>2. PICK a, b \in Seq(Byte) : /\ a = Prefix(s, n) /\ b = Rest(s, n)
                                /\ Len(a) = n /\ Len(b) = Len(s) - n
  BY PrefixRest
<1>3. /\ a \o b \in Seq(Byte) /\ Len(a \o b) = Len(a) + Len(b)
      /\ \A k \in 1..(Len(a) + Len(b)) : (a \o b)[k] = IF k <= Len(a) THEN a[k] ELSE b[k - Len(a)]
  BY <1>2, ConcatOf
<1>4. Len(s) \in Nat /\ Len(a) + Len(b) = Len(s)
  BY <1>2, LengthOf, SMTT(30)
<1>5. ASSUME NEW k \in 1..Len(s) PROVE (a \o b)[k] = s[k]
  <2>1. CASE k <= n
    <3>1. k \in 1..n
      BY <1>4, <2>1, SMTT(30)
    <3> QED
      BY <1>1, <1>2, <1>3, <1>4, <2>1, <3>1
  <2>2. CASE ~(k <= n)
    <3>1. k - n \in 1..(Len(s) - n) /\ n + (k - n) = k
      BY <1>4, <2>2, SMTT(30)
    <3> QED
      BY <1>1, <1>2, <1>3, <1>4, <2>2, <3>1
  <2> QED
    BY <2>1, <2>2
<1>6. a \o b = s
  BY <1>3, <1>4, <1>5, SameBytes
<1> QED
  BY <1>2, <1>6

\* Concatenation is associative.
LEMMA Assoc ==
    ASSUME NEW a \in Seq(Byte), NEW b \in Seq(Byte), NEW s \in Seq(Byte)
    PROVE  a \o (b \o s) = (a \o b) \o s
BY SMTT(30)

\* With n bytes of s behind b, the bytes are still those of a, b and s.
SameMovedIn(a, b, s, n) == a \o (b \o Prefix(s, n)) \o Rest(s, n) = a \o b \o s

\* The same bytes, some of them read from the stream into the buffer.
LEMMA MovesIn ==
    ASSUME NEW a \in Seq(Byte), NEW b \in Seq(Byte), NEW s \in Seq(Byte), NEW n \in 0..Len(s)
    PROVE  SameMovedIn(a, b, s, n)
<1>1. Prefix(s, n) \in Seq(Byte) /\ Rest(s, n) \in Seq(Byte)
  BY PrefixRest
<1>2. Prefix(s, n) \o Rest(s, n) = s
  BY PrefixAndRest
<1>3. a \o b \in Seq(Byte)
  BY ConcatOf
<1>4. a \o (b \o Prefix(s, n)) = (a \o b) \o Prefix(s, n)
  BY <1>1, Assoc
<1>5. ((a \o b) \o Prefix(s, n)) \o Rest(s, n) = (a \o b) \o (Prefix(s, n) \o Rest(s, n))
  BY <1>1, <1>3, Assoc
<1> QED
  BY <1>2, <1>4, <1>5 DEF SameMovedIn

\* The same bytes, some of them written from the buffer to the client.
LEMMA MovesOut ==
    ASSUME NEW a \in Seq(Byte), NEW s \in Seq(Byte), NEW n \in 0..Len(s)
    PROVE  (a \o Prefix(s, n)) \o Rest(s, n) = a \o s
<1>1. Prefix(s, n) \in Seq(Byte) /\ Rest(s, n) \in Seq(Byte)
  BY PrefixRest
<1>2. Prefix(s, n) \o Rest(s, n) = s
  BY PrefixAndRest
<1>3. (a \o Prefix(s, n)) \o Rest(s, n) = a \o (Prefix(s, n) \o Rest(s, n))
  BY <1>1, Assoc
<1> QED
  BY <1>2, <1>3

\* Appending to the last part is appending to the whole.
LEMMA AppendOfConcat ==
    ASSUME NEW a \in Seq(Byte), NEW s \in Seq(Byte), NEW e \in Byte
    PROVE  a \o Append(s, e) = Append(a \o s, e)
<1>1. /\ Len(a) \in Nat /\ Len(s) \in Nat /\ Append(s, e) \in Seq(Byte) /\ Len(Append(s, e)) = Len(s) + 1
      /\ Append(s, e)[Len(s) + 1] = e /\ \A k \in 1..Len(s) : Append(s, e)[k] = s[k]
  BY LengthOf, AppendOf
<1>2. /\ a \o s \in Seq(Byte) /\ Len(a \o s) = Len(a) + Len(s)
      /\ \A k \in 1..(Len(a) + Len(s)) : (a \o s)[k] = IF k <= Len(a) THEN a[k] ELSE s[k - Len(a)]
  BY ConcatOf
<1>3. /\ Append(a \o s, e) \in Seq(Byte) /\ Len(Append(a \o s, e)) = Len(a) + Len(s) + 1
      /\ Append(a \o s, e)[Len(a) + Len(s) + 1] = e
      /\ \A k \in 1..(Len(a) + Len(s)) : Append(a \o s, e)[k] = (a \o s)[k]
  BY <1>2, AppendOf, SMTT(30)
<1>4. /\ a \o Append(s, e) \in Seq(Byte) /\ Len(a \o Append(s, e)) = Len(a) + (Len(s) + 1)
      /\ \A k \in 1..(Len(a) + (Len(s) + 1)) :
             (a \o Append(s, e))[k] = IF k <= Len(a) THEN a[k] ELSE Append(s, e)[k - Len(a)]
  BY <1>1, ConcatOf, SMTT(30)
<1>5. ASSUME NEW k \in 1..(Len(a) + Len(s) + 1) PROVE (a \o Append(s, e))[k] = Append(a \o s, e)[k]
  <2>1. CASE k = Len(a) + Len(s) + 1
    <3>1. ~(k <= Len(a)) /\ k - Len(a) = Len(s) + 1 /\ k \in 1..(Len(a) + (Len(s) + 1))
      BY <1>1, <2>1, SMTT(30)
    <3> QED
      BY <1>1, <1>3, <1>4, <2>1, <3>1
  <2>2. CASE k <= Len(a)
    <3>1. k \in 1..(Len(a) + Len(s)) /\ k \in 1..(Len(a) + (Len(s) + 1))
      BY <1>1, <2>2, SMTT(30)
    <3> QED
      BY <1>2, <1>3, <1>4, <2>2, <3>1
  <2>3. CASE ~(k <= Len(a)) /\ k # Len(a) + Len(s) + 1
    <3>1. k \in 1..(Len(a) + Len(s)) /\ k \in 1..(Len(a) + (Len(s) + 1)) /\ k - Len(a) \in 1..Len(s)
      BY <1>1, <2>3, SMTT(30)
    <3> QED
      BY <1>1, <1>2, <1>3, <1>4, <2>3, <3>1
  <2> QED
    BY <2>1, <2>2, <2>3
<1> QED
  BY <1>1, <1>3, <1>4, <1>5, SMTT(30)

\* A prefix of what is in order is in order.
LEMMA FrontInOrder ==
    ASSUME NEW s \in Seq(Byte), NEW t \in Seq(Byte), NEW c, NEW n, InOrder(s \o t, c, n)
    PROVE  InOrder(s, c, n)
<1>1. /\ Len(s) \in Nat /\ Len(t) \in Nat /\ Len(s \o t) = Len(s) + Len(t)
      /\ \A k \in 1..(Len(s) + Len(t)) : (s \o t)[k] = IF k <= Len(s) THEN s[k] ELSE t[k - Len(s)]
  BY LengthOf, ConcatOf
<1> QED
  BY <1>1, SMTT(30) DEF InOrder

\* The next byte a client sends continues the order.
LEMMA AppendInOrder ==
    ASSUME NEW s \in Seq(Byte), NEW c, NEW n \in Nat, InOrder(s, c, n), <<c, n + Len(s) + 1>> \in Byte
    PROVE  InOrder(Append(s, <<c, n + Len(s) + 1>>), c, n)
<1> DEFINE e == <<c, n + Len(s) + 1>>
<1>1. /\ Len(s) \in Nat /\ Len(Append(s, e)) = Len(s) + 1 /\ Append(s, e)[Len(s) + 1] = e
      /\ \A k \in 1..Len(s) : Append(s, e)[k] = s[k]
  BY LengthOf, AppendOf
<1> HIDE DEF e
<1>2. ASSUME NEW k \in 1..(Len(s) + 1) PROVE Append(s, e)[k] = <<c, n + k>>
  <2>1. CASE k = Len(s) + 1
    <3>1. n + k = n + Len(s) + 1
      BY <1>1, <2>1, SMTT(30)
    <3> QED
      BY <1>1, <2>1, <3>1 DEF e
  <2>2. CASE k # Len(s) + 1
    <3>1. k \in 1..Len(s)
      BY <1>1, <2>2, SMTT(30)
    <3> QED
      BY <1>1, <3>1 DEF InOrder
  <2> QED
    BY <2>1, <2>2
<1> QED
  BY <1>1, <1>2 DEF InOrder, e

\* Without its first byte a sequence starts one later.
LEMMA TailInOrder ==
    ASSUME NEW s \in Seq(Byte), s # <<>>, NEW c, NEW n \in Nat, InOrder(s, c, n)
    PROVE  InOrder(Tail(s), c, n + 1)
<1>1. /\ Len(s) \in Nat /\ Len(Tail(s)) = Len(s) - 1
      /\ \A k \in 1..Len(Tail(s)) : Tail(s)[k] = s[k + 1]
  BY LengthOf, TailOf
<1>2. ASSUME NEW k \in 1..(Len(s) - 1) PROVE Tail(s)[k] = <<c, (n + 1) + k>>
  <2>1. k + 1 \in 1..Len(s) /\ n + (k + 1) = (n + 1) + k
    BY <1>1, SMTT(30)
  <2> QED
    BY <1>1, <2>1 DEF InOrder
<1> QED
  BY <1>1, <1>2 DEF InOrder

\* The first byte is that of the first part.
LEMMA TailOfConcat ==
    ASSUME NEW s \in Seq(Byte), s # <<>>, NEW t \in Seq(Byte)
    PROVE  /\ Tail(s) \in Seq(Byte) /\ s \o t # <<>>
           /\ Tail(s) \o t = Tail(s \o t)
<1>1. /\ Len(s) \in Nat \ {0} /\ Len(t) \in Nat /\ Tail(s) \in Seq(Byte) /\ Len(Tail(s)) = Len(s) - 1
      /\ \A k \in 1..Len(Tail(s)) : Tail(s)[k] = s[k + 1]
  BY LengthOf, TailOf, EmptyOne
<1>2. /\ s \o t \in Seq(Byte) /\ Len(s \o t) = Len(s) + Len(t)
      /\ \A k \in 1..(Len(s) + Len(t)) : (s \o t)[k] = IF k <= Len(s) THEN s[k] ELSE t[k - Len(s)]
  BY ConcatOf
<1>3. s \o t # <<>>
  BY <1>1, <1>2, EmptyOne, SMTT(30)
<1>4. /\ Tail(s \o t) \in Seq(Byte) /\ Len(Tail(s \o t)) = Len(s) + Len(t) - 1
      /\ \A k \in 1..Len(Tail(s \o t)) : Tail(s \o t)[k] = (s \o t)[k + 1]
  BY <1>2, <1>3, TailOf, SMTT(30)
<1>5. /\ Tail(s) \o t \in Seq(Byte) /\ Len(Tail(s) \o t) = Len(Tail(s)) + Len(t)
      /\ \A k \in 1..(Len(Tail(s)) + Len(t)) :
             (Tail(s) \o t)[k] = IF k <= Len(Tail(s)) THEN Tail(s)[k] ELSE t[k - Len(Tail(s))]
  BY <1>1, ConcatOf
<1>6. ASSUME NEW k \in 1..(Len(s) + Len(t) - 1) PROVE (Tail(s) \o t)[k] = Tail(s \o t)[k]
  <2>1. Tail(s \o t)[k] = IF k + 1 <= Len(s) THEN s[k + 1] ELSE t[(k + 1) - Len(s)]
    BY <1>1, <1>2, <1>4, SMTT(30)
  <2>2. (Tail(s) \o t)[k] = IF k <= Len(s) - 1 THEN Tail(s)[k] ELSE t[k - (Len(s) - 1)]
    BY <1>1, <1>5, SMTT(30)
  <2>3. k <= Len(s) - 1 => Tail(s)[k] = s[k + 1]
    BY <1>1, SMTT(30)
  <2>4. (k + 1) - Len(s) = k - (Len(s) - 1)
    BY <1>1, SMTT(30)
  <2> QED
    BY <1>1, <2>1, <2>2, <2>3, <2>4, SMTT(30)
<1> QED
  BY <1>1, <1>3, <1>4, <1>5, <1>6, SMTT(30)

-----------------------------------------------------------------------------
(* Each step keeps the invariant. *)

\* The types that the steps below rely on.
LEMMA Streams ==
    ASSUME TablesInv, NEW c \in Conn
    PROVE  /\ in[c] \in Seq(Byte) /\ out[c] \in Seq(Byte) /\ sent[c] \in Nat
           /\ \A p \in Proc : \A k \in Slot : gfds[p][k].buf \in Seq(Byte)
BY Numbers, SMTT(30) DEF TablesInv, BytesOK, Shapes

\* Descriptor 0 is no connection while it is kept.
LEMMA StdinIsNoClient ==
    ASSUME TablesInv, StdinKept, NEW p \in Proc
    PROVE  fds[p][0] \notin Conn
BY Numbers DEF TablesInv, StdinOK, StdinKept

\* Nothing was sent at the start.
LEMMA EchoInit == Init => EchoInv
<1> SUFFICES ASSUME Init PROVE EchoInv
  OBVIOUS
<1>1. \A c \in Conn : /\ in[c] = <<>> /\ out[c] = <<>> /\ got[c] = 0 /\ sent[c] = 0 /\ gone[c] = FALSE
                      /\ InOrder(<<>>, c, 0) /\ Len(<<>>) = 0
  BY EmptyOne, SMTT(30) DEF Init, InOrder
<1>2. \A p \in Proc : \A k \in Slot : gfds[p][k].fd = 0
  BY DEF Init, Unused
<1>3. EchoesOwnBytes
  BY <1>1, <1>2, SMTT(30) DEF EchoesOwnBytes, ServedBy
<1> QED
  BY <1>1, <1>3 DEF EchoInv, Init

\* A step that moves no byte of a served connection, and adds no connection.
LEMMA NoByteMoves ==
    ASSUME EchoInv, UNCHANGED <<in, out, sent, got, gone>>, eof' \in [Conn -> BOOLEAN],
           \A c \in Conn : eof[c] => eof'[c],
           \A c \in Conn : st'[c] \in {"new", "pending"} => st[c] \in {"new", "pending"},
           \A p \in Proc : fds'[p][0] = Stdin => fds[p][0] = Stdin,
           \A p \in Proc : \A k \in Slot : \A c \in Conn :
               ServedBy(p, k, c)' => ServedBy(p, k, c) /\ gfds'[p][k].buf = gfds[p][k].buf
    PROVE  EchoInv'
<1>1. StdinKept' => StdinKept
  BY DEF StdinKept
<1>2. EchoesOwnBytes'
  <2> SUFFICES ASSUME StdinKept'
               PROVE  /\ \A c \in Conn : InOrder(out'[c], c, got'[c])
                      /\ \A p \in Proc : \A k \in Slot : \A c \in Conn :
                             ServedBy(p, k, c)' /\ ~gone'[c] => Whole(c, gfds[p][k].buf)'
    BY  DEF EchoesOwnBytes
  <2>1. /\ \A c \in Conn : InOrder(out[c], c, got[c])
        /\ \A p \in Proc : \A k \in Slot : \A c \in Conn :
               ServedBy(p, k, c) /\ ~gone[c] => Whole(c, gfds[p][k].buf)
    BY <1>1 DEF EchoInv, EchoesOwnBytes
  <2>2. ASSUME NEW p \in Proc, NEW k \in Slot, NEW c \in Conn, ServedBy(p, k, c)', ~gone'[c]
        PROVE  Whole(c, gfds[p][k].buf)'
    <3>1. Whole(c, gfds[p][k].buf) /\ gfds'[p][k].buf = gfds[p][k].buf
      BY <2>1, <2>2
    <3> QED
      BY <3>1 DEF Whole
  <2> QED
    BY <2>1, <2>2
<1> QED
  BY <1>2 DEF EchoInv

\* A connection leaves the table, or the whole table goes.
LEMMA ClosingKeepsEcho ==
    ASSUME TablesInv, EchoInv, UNCHANGED <<in, out, client>>, NEW p \in Proc, NEW f \in ClientFd,
           gfds' = [gfds EXCEPT ![p] = sock_cli_remove(gfds[p], f)],
           fds' = [fds EXCEPT ![p][f] = Free],
           \A c \in Conn : st'[c] \in {"new", "pending"} => st[c] \in {"new", "pending"}
    PROVE  EchoInv'
<1>0. Shapes
  BY DEF TablesInv
<1>1. /\ \A q \in Proc \ {p} : gfds'[q] = gfds[q] /\ fds'[q] = fds[q]
      /\ gfds'[p] = sock_cli_remove(gfds[p], f) /\ fds'[p] = [fds[p] EXCEPT ![f] = Free]
  BY <1>0 DEF Shapes
<1>2. \A g \in ClientFd : fds'[p][g] = IF g = f THEN Free ELSE fds[p][g]
  BY <1>0, <1>1 DEF Shapes
<1>3. \A k \in Slot : /\ gfds[p][k] \in [fd : ClientFd, buf : Seq(Byte)]
                      /\ gfds'[p][k].buf = gfds[p][k].buf
                      /\ gfds'[p][k].fd \in {0, gfds[p][k].fd}
  BY <1>0, <1>1, SMTT(30) DEF Shapes, sock_cli_remove
<1>4. ASSUME NEW q \in Proc, NEW k \in Slot, NEW c \in Conn, ServedBy(q, k, c)'
      PROVE  ServedBy(q, k, c) /\ gfds'[q][k].buf = gfds[q][k].buf
  <2>1. CASE q # p
    BY <1>1, <1>4, <2>1 DEF ServedBy
  <2>2. CASE q = p
    <3>1. gfds'[p][k].fd > 0 /\ fds'[p][gfds'[p][k].fd] = c
      BY <1>4, <2>2 DEF ServedBy
    <3>2. gfds'[p][k].fd = gfds[p][k].fd /\ gfds[p][k].fd \in ClientFd /\ c # Free
      BY <1>3, <3>1, Numbers, SMTT(30)
    <3> QED
      BY <1>2, <1>3, <2>2, <3>1, <3>2 DEF ServedBy
  <2> QED
    BY <2>1, <2>2
<1>5. \A q \in Proc : fds'[q][0] = Stdin => fds[q][0] = Stdin
  BY <1>1, <1>2, Numbers
<1>6. UNCHANGED <<in, out, sent, got, gone, eof>> /\ eof \in [Conn -> BOOLEAN]
  BY DEF client, EchoInv
<1> QED
  BY <1>4, <1>5, <1>6, NoByteMoves

\* A process ends with all its connections.
LEMMA ExitsEcho == ASSUME TablesInv, EchoInv, NEW p \in Proc, Exits(p) PROVE EchoInv'
<1>0. Shapes
  BY DEF TablesInv
<1>1. /\ gfds' = [gfds EXCEPT ![p] = [k \in Slot |-> Unused]]
      /\ fds' = [fds EXCEPT ![p] = [f \in ClientFd |-> Free]]
      /\ UNCHANGED <<in, out, sent, got, gone, eof>>
  BY DEF Exits, client
<1>2. \A c \in Conn : st'[c] \in {"new", "pending"} => st[c] \in {"new", "pending"}
  BY DEF Exits
<1>3. /\ \A q \in Proc \ {p} : gfds'[q] = gfds[q] /\ fds'[q] = fds[q]
      /\ \A k \in Slot : gfds'[p][k].fd = 0
      /\ fds'[p][0] # Stdin
  BY <1>0, <1>1, Numbers DEF Shapes, Unused
<1>4. \A q \in Proc : fds'[q][0] = Stdin => fds[q][0] = Stdin
  BY <1>3
<1>5. \A q \in Proc : \A k \in Slot : \A c \in Conn :
          ServedBy(q, k, c)' => ServedBy(q, k, c) /\ gfds'[q][k].buf = gfds[q][k].buf
  BY <1>3, SMTT(30) DEF ServedBy
<1>6. eof \in [Conn -> BOOLEAN]
  BY DEF EchoInv
<1> QED
  BY <1>1, <1>2, <1>4, <1>5, <1>6, NoByteMoves

\* Steps that touch neither table nor stream.
LEMMA ElsewhereEcho ==
    ASSUME EchoInv, UNCHANGED <<gfds, fds, st, in, out, client>>
    PROVE  EchoInv'
BY  DEF EchoInv, EchoesOwnBytes, StdinKept, ServedBy, Whole, client

\* accept: an empty buffer in front of all the new client has sent.
LEMMA AcceptEcho == ASSUME Counting, TablesInv, EchoInv, NEW p \in Proc, select_on_socket_connect(p) PROVE EchoInv'
<1> DEFINE confd == Smallest({f \in ClientFd : fds[p][f] = Free})
           slot == Smallest({k \in Slot : gfds[p][k].fd = 0})
<1>0. Shapes /\ ConnOK /\ TableOK(gfds[p], fds[p]) /\ LoopOK(p)
  BY DEF TablesInv
<1>1. HasRoom(gfds[p]) /\ UNCHANGED <<in, out, client>>
  BY <1>0 DEF select_on_socket_connect, LoopOK
<1>2. \/ UNCHANGED <<gfds, fds, st>>
      \/ \E c \in backlog :
            /\ st' = [st EXCEPT ![c] = "open"] /\ fds' = [fds EXCEPT ![p][confd] = c]
            /\ gfds' = [gfds EXCEPT ![p] = [gfds[p] EXCEPT ![slot] = [fd |-> confd, buf |-> <<>>]]]
  BY <1>1 DEF select_on_socket_connect, HasRoom, sock_cli_add
<1>3. confd \in ClientFd /\ fds[p][confd] = Free
  BY <1>0, DescriptorLeft
<1>4. slot \in Slot
  BY <1>1, SmallestIsIn, Numbers DEF HasRoom
<1> HIDE DEF confd, slot
<1>5. CASE UNCHANGED <<gfds, fds, st>>
  BY <1>1, <1>5, ElsewhereEcho
<1>6. ASSUME NEW c \in backlog, st' = [st EXCEPT ![c] = "open"], fds' = [fds EXCEPT ![p][confd] = c],
             gfds' = [gfds EXCEPT ![p] = [gfds[p] EXCEPT ![slot] = [fd |-> confd, buf |-> <<>>]]]
      PROVE  EchoInv'
  <2>1. /\ c \in Conn /\ st[c] = "pending"
        /\ \A d \in Conn : st'[d] = IF d = c THEN "open" ELSE st[d]
    BY <1>0, <1>6 DEF ConnOK
  <2>2. /\ \A q \in Proc : \A g \in ClientFd : fds'[q][g] = IF q = p /\ g = confd THEN c ELSE fds[q][g]
        /\ \A q \in Proc : \A k \in Slot : gfds'[q][k] = IF q = p /\ k = slot THEN [fd |-> confd, buf |-> <<>>]
                                                                            ELSE gfds[q][k]
    BY <1>0, <1>3, <1>4, <1>6 DEF Shapes
  <2>3. \A q \in Proc : \A g \in ClientFd : fds[q][g] # c
    BY <1>0, <2>1, SMTT(30) DEF ConnOK
  <2>4. StdinKept' => StdinKept
    <3>1. \A q \in Proc : fds'[q][0] = Stdin => fds[q][0] = Stdin
      BY <2>1, <2>2, Numbers
    <3> QED
      BY <3>1 DEF StdinKept
  <2>5. ~gone[c] => Whole(c, <<>>)
    <3>1. out[c] = <<>> /\ got[c] = 0 /\ (~gone[c] => InOrder(in[c], c, 0) /\ Len(in[c]) = sent[c])
      BY <2>1 DEF EchoInv
    <3>2. in[c] \in Seq(Byte) /\ sent[c] \in Nat /\ <<>> \in Seq(Byte)
      BY <2>1, Streams, EmptyOne
    <3>3. <<>> \o <<>> \o in[c] = in[c]
      BY <3>2, EmptyOne, SMTT(30)
    <3> QED
      BY <3>1, <3>2, <3>3, SMTT(30) DEF Whole
  <2>6. ASSUME StdinKept', NEW q \in Proc, NEW k \in Slot, NEW d \in Conn, ServedBy(q, k, d)', ~gone[d]
        PROVE  Whole(d, gfds'[q][k].buf)
    <3>1. CASE q = p /\ k = slot
      <4>1. gfds'[q][k].fd = confd /\ gfds'[q][k].buf = <<>> /\ d = c
        BY <1>3, <2>2, <2>6, <3>1, SMTT(30) DEF ServedBy
      <4> QED
        BY <2>5, <2>6, <4>1
    <3>2. CASE ~(q = p /\ k = slot)
      <4>1. gfds'[q][k] = gfds[q][k] /\ gfds[q][k].fd > 0 /\ gfds[q][k].fd \in ClientFd
            /\ fds'[q][gfds[q][k].fd] = d
        BY <1>0, <2>2, <2>6, <3>2 DEF ServedBy, Shapes
      <4>2. ~(q = p /\ gfds[q][k].fd = confd)
        BY <1>0, <1>3, <4>1, Numbers DEF TableOK
      <4>3. ServedBy(q, k, d)
        BY <2>2, <4>1, <4>2 DEF ServedBy
      <4> QED
        BY <2>4, <2>6, <4>1, <4>3 DEF EchoInv, EchoesOwnBytes
    <3> QED
      BY <3>1, <3>2
  <2>7. EchoesOwnBytes'
    <3>1. UNCHANGED <<in, out, sent, got, gone>>
      BY <1>1 DEF client
    <3>2. StdinKept' => \A d \in Conn : InOrder(out'[d], d, got'[d])
      BY <2>4, <3>1 DEF EchoInv, EchoesOwnBytes
    <3>3. ASSUME StdinKept', NEW q \in Proc, NEW k \in Slot, NEW d \in Conn, ServedBy(q, k, d)', ~gone'[d]
          PROVE  Whole(d, gfds[q][k].buf)'
      <4>1. Whole(d, gfds'[q][k].buf)
        BY <2>6, <3>1, <3>3
      <4> QED
        BY <3>1, <4>1 DEF Whole
    <3> QED
      BY <3>2, <3>3 DEF EchoesOwnBytes
  <2> QED
    BY <1>1, <2>1, <2>7 DEF EchoInv, client
<1> QED
  BY <1>2, <1>5, <1>6

\* The buffer of one slot changes.
Refilled(p, k, b) ==
    /\ \A q \in Proc : \A l \in Slot : gfds'[q][l].fd = gfds[q][l].fd
    /\ \A q \in Proc : \A l \in Slot :
           gfds'[q][l].buf = IF q = p /\ l = k THEN b ELSE gfds[q][l].buf

\* It is what an assignment to its buffer does.
LEMMA Refilling ==
    ASSUME Shapes, NEW p \in Proc, NEW k \in Slot, NEW b, gfds' = [gfds EXCEPT ![p][k].buf = b]
    PROVE  Refilled(p, k, b)
<1>1. \A q \in Proc : \A l \in Slot : gfds[q][l] \in [fd : ClientFd, buf : Seq(Byte)]
  BY DEF Shapes
<1> QED
  BY <1>1, SMTT(30) DEF Shapes, Refilled

\* Bytes of a served connection move on from one of its three places to the next.
LEMMA BytesMoveOn ==
    ASSUME TablesInv, EchoInv, NEW p \in Proc, NEW k \in Slot, NEW c \in Conn, ServedBy(p, k, c),
           NEW x \in Seq(Byte), NEW y \in Seq(Byte), NEW b \in Seq(Byte),
           y \o b \o x = out[c] \o gfds[p][k].buf \o in[c], gone[c] => y = <<>>,
           UNCHANGED <<fds, st, sent, got, gone, eof>>,
           Refilled(p, k, b),
           \A d \in Conn : in'[d] = IF d = c THEN x ELSE in[d],
           \A d \in Conn : out'[d] = IF d = c THEN y ELSE out[d]
    PROVE  EchoInv'
<1>0. Shapes /\ ConnOK
  BY DEF TablesInv
<1>2. \A q \in Proc : \A l \in Slot : \A d \in Conn : ServedBy(q, l, d)' <=> ServedBy(q, l, d)
  BY DEF ServedBy, Refilled
<1>3. st[c] = "open"
  <2>1. gfds[p][k].fd \in ClientFd /\ fds[p][gfds[p][k].fd] = c
    BY <1>0 DEF Shapes, ServedBy
  <2> QED
    BY <1>0, <2>1 DEF ConnOK
<1>4. StdinKept' => StdinKept
  BY DEF StdinKept
<1>5. ASSUME StdinKept, NEW q \in Proc, NEW l \in Slot, NEW d \in Conn, ServedBy(q, l, d), ~gone[d]
      PROVE  Whole(d, gfds[q][l].buf)'
  <2>0. Whole(d, gfds[q][l].buf)
    BY <1>5 DEF EchoInv, EchoesOwnBytes
  <2>1. CASE d = c
    <3>1. q = p /\ l = k
      BY <1>5, <2>1, InOneSlot
    <3>2. out'[d] \o gfds'[q][l].buf \o in'[d] = out[d] \o gfds[q][l].buf \o in[d]
      BY <2>1, <3>1 DEF Refilled
    <3> QED
      BY <2>0, <3>2 DEF Whole
  <2>2. CASE d # c
    <3>1. ~(q = p /\ l = k)
      BY <1>5, <2>2 DEF ServedBy
    <3>2. out'[d] = out[d] /\ gfds'[q][l].buf = gfds[q][l].buf /\ in'[d] = in[d]
      BY <2>2, <3>1 DEF Refilled
    <3> QED
      BY <2>0, <3>2 DEF Whole
  <2> QED
    BY <2>1, <2>2
<1>6. ASSUME StdinKept, NEW d \in Conn PROVE InOrder(out'[d], d, got[d])
  <2>1. CASE d # c
    BY <1>6, <2>1 DEF EchoInv, EchoesOwnBytes
  <2>2. CASE d = c /\ gone[c]
    <3>1. out'[d] = <<>> /\ Len(<<>>) = 0 /\ 1..0 = {}
      BY <2>2, EmptyOne
    <3> QED
      BY <3>1 DEF InOrder
  <2>3. CASE d = c /\ ~gone[c]
    <3>1. InOrder(y \o b \o x, c, got[c])
      BY <1>6, <2>3 DEF EchoInv, EchoesOwnBytes, Whole
    <3>2. y \o b \in Seq(Byte)
      BY ConcatOf
    <3>3. InOrder(y \o b, c, got[c])
      BY <3>1, <3>2, FrontInOrder
    <3>4. InOrder(y, c, got[c])
      BY <3>3, FrontInOrder
    <3> QED
      BY <2>3, <3>4
  <2> QED
    BY <2>1, <2>2, <2>3
<1>7. EchoesOwnBytes'
  BY <1>2, <1>4, <1>5, <1>6 DEF EchoesOwnBytes
<1> QED
  BY <1>3, <1>7 DEF EchoInv

\* read: from the stream into the buffer, or the end of the connection.
LEMMA ReadEcho == ASSUME TablesInv, EchoInv, NEW p \in Proc, protocol_echo_read(p) PROVE EchoInv'
<1>0. Shapes /\ ConnOK /\ TableOK(gfds[p], fds[p]) /\ LoopOK(p) /\ pc[p] = "read"
  BY  DEF TablesInv, protocol_echo_read
<1>1. UNCHANGED <<out, client>>
  BY  DEF protocol_echo_read
<1>2. /\ i[p] \in Slot /\ fd[p] \in ClientFd /\ fd[p] > 0 /\ gfds[p][i[p]].fd = fd[p]
      /\ fds[p][fd[p]] \in Conn
  BY <1>0 DEF LoopOK, TableOK, Shapes
<1>3. PICK k \in Slot, c \in Conn : /\ k = i[p] /\ c = fds[p][fd[p]] /\ ServedBy(p, k, c)
                                    /\ gfds[p][k].fd = fd[p]
  BY <1>2 DEF ServedBy
<1>4. in[c] \in Seq(Byte) /\ out[c] \in Seq(Byte) /\ gfds[p][k].buf \in Seq(Byte)
  BY <1>3, Streams
<1>5. PICK n \in 0..Len(in[c]) : n = Lesser(gechobytes, Len(in[c]))
  <2>1. Len(in[c]) \in Nat
    BY <1>4, LengthOf
  <2> QED
    BY <2>1, ForkAssumption, SMTT(30) DEF Lesser
<1>6. \/ UNCHANGED <<gfds, fds, in, st>>
      \/ /\ UNCHANGED <<fds, st>> /\ in' = [in EXCEPT ![c] = Rest(in[c], n)]
         /\ gfds' = [gfds EXCEPT ![p][k].buf = gfds[p][k].buf \o Prefix(in[c], n)]
      \/ /\ gfds' = [gfds EXCEPT ![p] = sock_cli_remove(gfds[p], fd[p])]
         /\ fds' = [fds EXCEPT ![p][fd[p]] = Free] /\ st' = [st EXCEPT ![c] = "closed"]
         /\ UNCHANGED in
  BY <1>3, <1>5 DEF protocol_echo_read
<1>7. CASE UNCHANGED <<gfds, fds, in, st>>
  BY <1>1, <1>7, ElsewhereEcho
<1>8. CASE /\ UNCHANGED <<fds, st>> /\ in' = [in EXCEPT ![c] = Rest(in[c], n)]
           /\ gfds' = [gfds EXCEPT ![p][k].buf = gfds[p][k].buf \o Prefix(in[c], n)]
  <2>1. Prefix(in[c], n) \in Seq(Byte) /\ Rest(in[c], n) \in Seq(Byte)
    BY <1>4, <1>5, PrefixRest
  <2>2. gfds[p][k].buf \o Prefix(in[c], n) \in Seq(Byte)
    BY <1>4, <2>1, ConcatOf
  <2>3. out[c] \o (gfds[p][k].buf \o Prefix(in[c], n)) \o Rest(in[c], n) = out[c] \o gfds[p][k].buf \o in[c]
    <3>1. PICK a, b, s \in Seq(Byte) : a = out[c] /\ b = gfds[p][k].buf /\ s = in[c]
      BY <1>4
    <3>2. n \in 0..Len(s)
      BY <3>1
    <3>3. SameMovedIn(a, b, s, n)
      BY <3>2, MovesIn
    <3> QED
      BY <3>1, <3>3 DEF SameMovedIn
  <2>4. PICK x, y, b \in Seq(Byte) : /\ x = Rest(in[c], n) /\ y = out[c]
                                     /\ b = gfds[p][k].buf \o Prefix(in[c], n)
                                     /\ y \o b \o x = out[c] \o gfds[p][k].buf \o in[c]
    BY <1>4, <2>1, <2>2, <2>3
  <2>5. Refilled(p, k, b)
    BY <1>0, <1>3, <1>8, <2>4, Refilling
  <2>6. /\ \A d \in Conn : in'[d] = IF d = c THEN x ELSE in[d]
        /\ \A d \in Conn : out'[d] = IF d = c THEN y ELSE out[d]
    BY <1>1, <1>8, <2>4 DEF TablesInv, BytesOK
  <2>7. UNCHANGED <<fds, st, sent, got, gone, eof>> /\ (gone[c] => y = <<>>)
    BY <1>1, <1>3, <1>8, <2>4 DEF client, EchoInv
  <2>8. /\ c \in Conn /\ k \in Slot /\ ServedBy(p, k, c)
        /\ x \in Seq(Byte) /\ y \in Seq(Byte) /\ b \in Seq(Byte)
        /\ y \o b \o x = out[c] \o gfds[p][k].buf \o in[c]
    BY <1>3, <2>4
  <2> QED
    BY <2>5, <2>6, <2>7, <2>8, BytesMoveOn
<1>9. CASE /\ gfds' = [gfds EXCEPT ![p] = sock_cli_remove(gfds[p], fd[p])]
           /\ fds' = [fds EXCEPT ![p][fd[p]] = Free] /\ st' = [st EXCEPT ![c] = "closed"]
           /\ UNCHANGED in
  <2>1. \A d \in Conn : st'[d] \in {"new", "pending"} => st[d] \in {"new", "pending"}
    BY <1>0, <1>9 DEF ConnOK
  <2> QED
    BY <1>1, <1>2, <1>9, <2>1, ClosingKeepsEcho
<1> QED
  BY <1>6, <1>7, <1>8, <1>9

\* write: from the buffer to the client the slot serves, or into descriptor 0.
LEMMA WriteEcho == ASSUME TablesInv, EchoInv, NEW p \in Proc, protocol_echo_write(p) PROVE EchoInv'
<1>0. Shapes /\ ConnOK /\ TableOK(gfds[p], fds[p]) /\ LoopOK(p) /\ pc[p] = "write"
  BY DEF TablesInv, protocol_echo_write
<1>1. UNCHANGED <<in, client>>
  BY DEF protocol_echo_write
<1>2. PICK k \in Slot : /\ k = i[p] /\ gfds[p][k].fd \in ClientFd /\ gfds[p][k].buf \in Seq(Byte)
                        /\ gfds[p][k].fd > 0 => fds[p][gfds[p][k].fd] \in Conn
  BY <1>0 DEF LoopOK, TableOK
<1>3. PICK f \in ClientFd : f = gfds[p][k].fd
  BY <1>2
<1>4. \/ UNCHANGED <<gfds, fds, out, st>>
      \/ /\ fds[p][f] = Stdin /\ gfds' = [gfds EXCEPT ![p][k].buf = <<>>]
         /\ UNCHANGED <<fds, out, st>>
      \/ /\ fds[p][f] = Stdin /\ ~StdinWritable
         /\ fds' = [fds EXCEPT ![p][0] = Free] /\ UNCHANGED <<gfds, out, st>>
      \/ /\ fds[p][f] \in Conn /\ gfds' = [gfds EXCEPT ![p] = sock_cli_remove(gfds[p], f)]
         /\ fds' = [fds EXCEPT ![p][f] = Free] /\ st' = [st EXCEPT ![fds[p][f]] = "closed"]
         /\ UNCHANGED out
      \/ /\ fds[p][f] \in Conn /\ ~gone[fds[p][f]] /\ UNCHANGED <<fds, st>>
         /\ LET n == Lesser(Len(gfds[p][k].buf), SndBuf - Len(out[fds[p][f]]))
            IN  /\ gfds' = [gfds EXCEPT ![p][k].buf = Rest(gfds[p][k].buf, n)]
                /\ out' = [out EXCEPT ![fds[p][f]] = out[fds[p][f]] \o Prefix(gfds[p][k].buf, n)]
  BY <1>2, <1>3 DEF protocol_echo_write, WriteTo, Unwritten
<1>5. CASE UNCHANGED <<gfds, fds, out, st>>
  BY <1>1, <1>5, ElsewhereEcho
<1>6. CASE /\ fds[p][f] = Stdin /\ gfds' = [gfds EXCEPT ![p][k].buf = <<>>]
           /\ UNCHANGED <<fds, out, st>>
  <2>1. ~(f > 0)
    BY <1>2, <1>3, <1>6, Numbers
  <2>2. Refilled(p, k, <<>>)
    BY <1>0, <1>6, Refilling
  <2>3. \A q \in Proc : \A l \in Slot : \A c \in Conn :
            ServedBy(q, l, c)' => ServedBy(q, l, c) /\ gfds'[q][l].buf = gfds[q][l].buf
    BY <1>3, <1>6, <2>1, <2>2, SMTT(30) DEF ServedBy, Refilled
  <2>4. UNCHANGED <<in, out, sent, got, gone, eof>> /\ eof \in [Conn -> BOOLEAN]
    BY <1>1, <1>6 DEF client, EchoInv
  <2> QED
    BY <1>6, <2>3, <2>4, NoByteMoves
<1>7. CASE /\ fds[p][f] = Stdin /\ ~StdinWritable
           /\ fds' = [fds EXCEPT ![p][0] = Free] /\ UNCHANGED <<gfds, out, st>>
  <2>1. fds'[p][0] = Free /\ fds'[p][0] # Stdin
    BY <1>0, <1>7, Numbers DEF Shapes
  <2>2. ~StdinKept'
    BY <1>7, <2>1 DEF StdinKept
  <2>3. EchoesOwnBytes'
    BY <2>2 DEF EchoesOwnBytes
  <2> QED
    BY <1>1, <1>7, <2>3 DEF EchoInv, client
<1>8. CASE /\ fds[p][f] \in Conn /\ gfds' = [gfds EXCEPT ![p] = sock_cli_remove(gfds[p], f)]
           /\ fds' = [fds EXCEPT ![p][f] = Free] /\ st' = [st EXCEPT ![fds[p][f]] = "closed"]
           /\ UNCHANGED out
  <2>1. \A d \in Conn : st'[d] \in {"new", "pending"} => st[d] \in {"new", "pending"}
    BY <1>0, <1>8 DEF ConnOK
  <2> QED
    BY <1>1, <1>3, <1>8, <2>1, ClosingKeepsEcho
<1>9. CASE /\ fds[p][f] \in Conn /\ ~gone[fds[p][f]] /\ UNCHANGED <<fds, st>>
           /\ LET n == Lesser(Len(gfds[p][k].buf), SndBuf - Len(out[fds[p][f]]))
              IN  /\ gfds' = [gfds EXCEPT ![p][k].buf = Rest(gfds[p][k].buf, n)]
                  /\ out' = [out EXCEPT ![fds[p][f]] = out[fds[p][f]] \o Prefix(gfds[p][k].buf, n)]
  <2>1. PICK c \in Conn : c = fds[p][f] /\ ~gone[c]
    BY <1>9
  <2>2. in[c] \in Seq(Byte) /\ out[c] \in Seq(Byte) /\ Len(out[c]) <= SndBuf
    BY <2>1, Streams DEF TablesInv, BytesOK
  <2>3. PICK n \in 0..Len(gfds[p][k].buf) : n = Lesser(Len(gfds[p][k].buf), SndBuf - Len(out[c]))
    <3>1. Len(out[c]) \in Nat /\ Len(gfds[p][k].buf) \in Nat
      BY <1>2, <2>2, LengthOf
    <3>2. SndBuf - Len(out[c]) \in Nat
      BY <2>2, <3>1, ForkAssumption, SMTT(30)
    <3> QED
      BY <3>1, <3>2, SMTT(30) DEF Lesser
  <2>4. /\ gfds' = [gfds EXCEPT ![p][k].buf = Rest(gfds[p][k].buf, n)]
        /\ out' = [out EXCEPT ![c] = out[c] \o Prefix(gfds[p][k].buf, n)]
    BY <1>9, <2>1, <2>3
  <2>5. CASE ~StdinKept
    <3>1. ~StdinKept'
      BY <1>9, <2>5 DEF StdinKept
    <3>2. EchoesOwnBytes'
      BY <3>1 DEF EchoesOwnBytes
    <3>3. st[c] = "open"
      BY <1>0, <1>3, <2>1 DEF ConnOK
    <3>4. \A d \in Conn : d # c => out'[d] = out[d]
      BY <2>4 DEF TablesInv, BytesOK
    <3> QED
      BY <1>1, <1>9, <2>1, <3>2, <3>3, <3>4 DEF EchoInv, client
  <2>6. CASE StdinKept
    <3>1. ServedBy(p, k, c)
      <4>1. f # 0
        BY <2>1, <2>6, StdinIsNoClient
      <4> QED
        BY <1>3, <2>1, <4>1, Positive DEF ServedBy
    <3>2. Prefix(gfds[p][k].buf, n) \in Seq(Byte) /\ Rest(gfds[p][k].buf, n) \in Seq(Byte)
      BY <1>2, <2>3, PrefixRest
    <3>3. out[c] \o Prefix(gfds[p][k].buf, n) \in Seq(Byte)
      BY <2>2, <3>2, ConcatOf
    <3>a. (out[c] \o Prefix(gfds[p][k].buf, n)) \o Rest(gfds[p][k].buf, n) = out[c] \o gfds[p][k].buf
      BY <1>2, <2>2, <2>3, MovesOut
    <3>4. out[c] \o Prefix(gfds[p][k].buf, n) \o Rest(gfds[p][k].buf, n) \o in[c] = out[c] \o gfds[p][k].buf \o in[c]
      BY <3>a
    <3>5. PICK x, y, b \in Seq(Byte) : /\ x = in[c] /\ y = out[c] \o Prefix(gfds[p][k].buf, n)
                                       /\ b = Rest(gfds[p][k].buf, n)
                                       /\ y \o b \o x = out[c] \o gfds[p][k].buf \o in[c]
      BY <2>2, <3>2, <3>3, <3>4
    <3>6. Refilled(p, k, b)
      BY <1>0, <2>4, <3>5, Refilling
    <3>7. /\ \A d \in Conn : in'[d] = IF d = c THEN x ELSE in[d]
          /\ \A d \in Conn : out'[d] = IF d = c THEN y ELSE out[d]
      BY <1>1, <2>4, <3>5 DEF TablesInv, BytesOK
    <3>8. UNCHANGED <<fds, st, sent, got, gone, eof>> /\ (gone[c] => y = <<>>)
      BY <1>1, <1>9, <2>1 DEF client
    <3>9. /\ c \in Conn /\ k \in Slot
          /\ x \in Seq(Byte) /\ y \in Seq(Byte) /\ b \in Seq(Byte)
          /\ y \o b \o x = out[c] \o gfds[p][k].buf \o in[c]
      BY <2>1, <3>5
    <3> QED
      BY <3>1, <3>6, <3>7, <3>8, <3>9, BytesMoveOn
  <2> QED
    BY <2>5, <2>6
<1> QED
  BY <1>4, <1>5, <1>6, <1>7, <1>8, <1>9

\* A step of one client: the other connections are as they were.
LEMMA OneClientMoves ==
    ASSUME TablesInv, EchoInv, NEW c \in Conn, UNCHANGED <<gfds, fds, st>>,
           got' \in [Conn -> Nat], eof' \in [Conn -> BOOLEAN], gone' \in [Conn -> BOOLEAN],
           \A d \in Conn : d # c => /\ in'[d] = in[d] /\ out'[d] = out[d] /\ sent'[d] = sent[d]
                                    /\ got'[d] = got[d] /\ eof'[d] = eof[d] /\ gone'[d] = gone[d],
           gone'[c] => eof'[c] /\ out'[c] = <<>>,
           st[c] \in {"new", "pending"} =>
               /\ out'[c] = <<>> /\ got'[c] = 0
               /\ ~gone'[c] => InOrder(in'[c], c, 0) /\ Len(in'[c]) = sent'[c],
           StdinKept => InOrder(out'[c], c, got'[c]),
           \A p \in Proc : \A k \in Slot :
               StdinKept /\ ServedBy(p, k, c) /\ ~gone'[c] => Whole(c, gfds[p][k].buf)'
    PROVE  EchoInv'
<1>1. StdinKept' = StdinKept /\ \A p \in Proc : \A k \in Slot : \A d \in Conn : ServedBy(p, k, d)' = ServedBy(p, k, d)
  BY DEF StdinKept, ServedBy
<1>2. EchoesOwnBytes'
  <2> SUFFICES ASSUME StdinKept
               PROVE  /\ \A d \in Conn : InOrder(out'[d], d, got'[d])
                      /\ \A p \in Proc : \A k \in Slot : \A d \in Conn :
                             ServedBy(p, k, d) /\ ~gone'[d] => Whole(d, gfds[p][k].buf)'
    BY <1>1 DEF EchoesOwnBytes
  <2>1. /\ \A d \in Conn : InOrder(out[d], d, got[d])
        /\ \A p \in Proc : \A k \in Slot : \A d \in Conn :
               ServedBy(p, k, d) /\ ~gone[d] => Whole(d, gfds[p][k].buf)
    BY  DEF EchoInv, EchoesOwnBytes
  <2>2. ASSUME NEW p \in Proc, NEW k \in Slot, NEW d \in Conn, ServedBy(p, k, d), ~gone'[d]
        PROVE  Whole(d, gfds[p][k].buf)'
    <3>1. CASE d = c
      BY <2>2, <3>1
    <3>2. CASE d # c
      <4>1. Whole(d, gfds[p][k].buf)
        BY <2>1, <2>2, <3>2
      <4> QED
        BY <3>2, <4>1 DEF Whole
    <3> QED
      BY <3>1, <3>2
  <2>3. \A d \in Conn : InOrder(out'[d], d, got'[d])
    BY <2>1
  <2> QED
    BY <2>2, <2>3
<1>3. \A d \in Conn : gone'[d] => eof'[d] /\ out'[d] = <<>>
  BY SMTT(30) DEF EchoInv
<1>4. \A d \in Conn : st'[d] \in {"new", "pending"} =>
           /\ out'[d] = <<>> /\ got'[d] = 0
           /\ ~gone'[d] => InOrder(in'[d], d, 0) /\ Len(in'[d]) = sent'[d]
  <2>1. \A d \in Conn : st[d] \in {"new", "pending"} =>
           /\ out[d] = <<>> /\ got[d] = 0
           /\ ~gone[d] => InOrder(in[d], d, 0) /\ Len(in[d]) = sent[d]
    BY DEF EchoInv
  <2>2. ASSUME NEW d \in Conn, st'[d] \in {"new", "pending"}
        PROVE  /\ out'[d] = <<>> /\ got'[d] = 0
               /\ ~gone'[d] => InOrder(in'[d], d, 0) /\ Len(in'[d]) = sent'[d]
    <3>1. CASE d = c
      BY <2>2, <3>1
    <3>2. CASE d # c
      BY <2>1, <2>2, <3>2
    <3> QED
      BY <3>1, <3>2
  <2> QED
    BY <2>2
<1> QED
  BY <1>2, <1>3, <1>4 DEF EchoInv

\* send: the next byte of this client, behind all it sent before.
LEMMA SendEcho == ASSUME TablesInv, EchoInv, NEW c \in Conn, ClientSend(c) PROVE EchoInv'
<1>1. /\ ~eof[c] /\ sent[c] < MaxSend /\ sent' = [sent EXCEPT ![c] = sent[c] + 1]
      /\ in' = [in EXCEPT ![c] = Append(in[c], <<c, sent[c] + 1>>)]
      /\ UNCHANGED <<gfds, fds, st, out, got, eof, gone>>
  BY DEF ClientSend, server, loop, shared
<1>2. ~gone[c] /\ got[c] \in Nat
  BY <1>1 DEF EchoInv
<1>3. /\ in[c] \in Seq(Byte) /\ out[c] \in Seq(Byte) /\ sent[c] \in Nat
      /\ \A p \in Proc : \A k \in Slot : gfds[p][k].buf \in Seq(Byte)
  BY Streams
<1>a. <<c, sent[c] + 1>> \in Byte
  BY <1>1, <1>3, Numbers, SMTT(30) DEF Byte
<1>b. PICK e \in Byte : e = <<c, sent[c] + 1>>
  BY <1>a
<1>4. in'[c] = Append(in[c], e) /\ sent'[c] = sent[c] + 1
  BY <1>1, <1>b DEF TablesInv, BytesOK
<1>5. ASSUME NEW n \in Nat, NEW s \in Seq(Byte), InOrder(s, c, n), n + Len(s) = sent[c]
      PROVE  InOrder(Append(s, e), c, n) /\ Len(Append(s, e)) = Len(s) + 1
  <2>1. Len(s) \in Nat /\ n + Len(s) + 1 = sent[c] + 1
    BY <1>3, <1>5, LengthOf
  <2>2. e = <<c, n + Len(s) + 1>>
    BY <1>b, <2>1
  <2>3. InOrder(Append(s, <<c, n + Len(s) + 1>>), c, n)
    BY <1>5, <1>b, <2>2, AppendInOrder
  <2> QED
    BY <1>5, <1>b, <2>2, <2>3, AppendOf
<1>6. st[c] \in {"new", "pending"} => InOrder(in'[c], c, 0) /\ Len(in'[c]) = sent'[c]
  <2> SUFFICES ASSUME st[c] \in {"new", "pending"} PROVE InOrder(in'[c], c, 0) /\ Len(in'[c]) = sent'[c]
    OBVIOUS
  <2>1. InOrder(in[c], c, 0) /\ Len(in[c]) = sent[c] /\ 0 + Len(in[c]) = sent[c] /\ 0 \in Nat
    BY <1>2, <1>3, SMTT(30) DEF EchoInv
  <2> QED
    BY <1>3, <1>4, <1>5, <2>1
<1>7. ASSUME NEW p \in Proc, NEW k \in Slot, StdinKept, ServedBy(p, k, c) PROVE Whole(c, gfds[p][k].buf)'
  <2>1. Whole(c, gfds[p][k].buf)
    BY <1>2, <1>7 DEF EchoInv, EchoesOwnBytes
  <2>2. PICK a, b, s \in Seq(Byte) : a = out[c] /\ b = gfds[p][k].buf /\ s = in[c]
    BY <1>3
  <2>3. a \o b \in Seq(Byte) /\ (a \o b) \o s \in Seq(Byte)
    BY <2>2, ConcatOf
  <2>4. PICK ab, all \in Seq(Byte) : ab = a \o b /\ all = ab \o s
    BY <2>3
  <2>5. InOrder(all, c, got[c]) /\ got[c] + Len(all) = sent[c]
    BY <2>1, <2>2, <2>4 DEF Whole
  <2>6. InOrder(Append(all, e), c, got[c]) /\ Len(Append(all, e)) = Len(all) + 1
    BY <1>2, <1>5, <2>4, <2>5
  <2>7. ab \o Append(s, e) = Append(all, e)
    <3>1. \A u, v \in Seq(Byte) : \A w \in Byte : u \o Append(v, w) = Append(u \o v, w)
      BY AppendOfConcat
    <3>2. ab \in Seq(Byte) /\ s \in Seq(Byte) /\ e \in Byte
      BY <1>b, <2>2, <2>4
    <3> QED
      BY <2>4, <3>1, <3>2
  <2>8. got[c] + Len(Append(all, e)) = sent[c] + 1
    BY <1>2, <1>3, <2>4, <2>5, <2>6, LengthOf, SMTT(30)
  <2> QED
    BY <1>1, <1>4, <2>2, <2>4, <2>6, <2>7, <2>8 DEF Whole
<1>8. StdinKept => InOrder(out[c], c, got[c])
  BY  DEF EchoInv, EchoesOwnBytes
<1>9. /\ got' \in [Conn -> Nat] /\ eof' \in [Conn -> BOOLEAN] /\ gone' \in [Conn -> BOOLEAN]
      /\ \A d \in Conn : d # c => /\ in'[d] = in[d] /\ out'[d] = out[d] /\ sent'[d] = sent[d]
                                  /\ got'[d] = got[d] /\ eof'[d] = eof[d] /\ gone'[d] = gone[d]
      /\ st[c] \in {"new", "pending"} => out'[c] = <<>> /\ got'[c] = 0
      /\ ~gone'[c]
  BY <1>1, <1>2 DEF EchoInv, TablesInv, BytesOK
<1> QED
  BY <1>1, <1>6, <1>7, <1>8, <1>9, OneClientMoves

\* receive: the first byte on its way back is the next this client expects.
LEMMA ReceiveEcho == ASSUME TablesInv, EchoInv, NEW c \in Conn, ClientReceive(c) PROVE EchoInv'
<1>1. /\ out[c] # <<>> /\ ~gone[c] /\ got' = [got EXCEPT ![c] = got[c] + 1]
      /\ out' = [out EXCEPT ![c] = Tail(out[c])] /\ UNCHANGED <<gfds, fds, st, in, sent, eof, gone>>
  BY DEF ClientReceive, server, loop, shared
<1>2. /\ in[c] \in Seq(Byte) /\ out[c] \in Seq(Byte) /\ sent[c] \in Nat /\ got[c] \in Nat
      /\ \A p \in Proc : \A k \in Slot : gfds[p][k].buf \in Seq(Byte)
  BY Streams DEF EchoInv
<1>3. out'[c] = Tail(out[c]) /\ got'[c] = got[c] + 1
  BY <1>1 DEF EchoInv, TablesInv, BytesOK
<1>4. StdinKept => InOrder(out'[c], c, got'[c])
  <2> SUFFICES ASSUME StdinKept PROVE InOrder(out'[c], c, got'[c])
    OBVIOUS
  <2>1. InOrder(out[c], c, got[c])
    BY  DEF EchoInv, EchoesOwnBytes
  <2>2. InOrder(Tail(out[c]), c, got[c] + 1)
    BY <1>1, <1>2, <2>1, TailInOrder
  <2> QED
    BY <1>3, <2>2
<1>5. ASSUME NEW p \in Proc, NEW k \in Slot, StdinKept, ServedBy(p, k, c) PROVE Whole(c, gfds[p][k].buf)'
  <2>1. Whole(c, gfds[p][k].buf)
    BY <1>1, <1>5 DEF EchoInv, EchoesOwnBytes
  <2>2. PICK a, b, s \in Seq(Byte) : a = out[c] /\ b = gfds[p][k].buf /\ s = in[c] /\ a # <<>>
    BY <1>1, <1>2
  <2>3. Tail(a) \in Seq(Byte) /\ a \o b # <<>> /\ Tail(a) \o b = Tail(a \o b)
    BY <2>2, TailOfConcat
  <2>4. a \o b \in Seq(Byte)
    BY <2>2, ConcatOf
  <2>5. PICK ab \in Seq(Byte) : ab = a \o b /\ ab # <<>>
    BY <2>3, <2>4
  <2>6. ab \o s # <<>> /\ Tail(ab) \o s = Tail(ab \o s)
    BY <2>2, <2>5, TailOfConcat
  <2>7. ab \o s \in Seq(Byte)
    BY <2>2, <2>5, ConcatOf
  <2>8. PICK all \in Seq(Byte) : all = ab \o s /\ all # <<>>
    BY <2>6, <2>7
  <2>9. InOrder(all, c, got[c]) /\ got[c] + Len(all) = sent[c]
    BY <2>1, <2>2, <2>5, <2>8 DEF Whole
  <2>10. InOrder(Tail(all), c, got[c] + 1)
    BY <1>2, <2>8, <2>9, TailInOrder
  <2>11. (got[c] + 1) + Len(Tail(all)) = sent[c]
    BY <1>2, <2>8, <2>9, TailOf, LengthOf, SMTT(30)
  <2>12. out'[c] \o gfds'[p][k].buf \o in'[c] = Tail(all)
    BY <1>1, <1>3, <2>2, <2>3, <2>5, <2>6, <2>8
  <2> QED
    BY <1>1, <1>3, <2>10, <2>11, <2>12 DEF Whole
<1>6. st[c] \notin {"new", "pending"}
  BY <1>1 DEF EchoInv
<1>7. /\ got' \in [Conn -> Nat] /\ eof' \in [Conn -> BOOLEAN] /\ gone' \in [Conn -> BOOLEAN]
      /\ \A d \in Conn : d # c => /\ in'[d] = in[d] /\ out'[d] = out[d] /\ sent'[d] = sent[d]
                                  /\ got'[d] = got[d] /\ eof'[d] = eof[d] /\ gone'[d] = gone[d]
      /\ ~gone'[c]
  <2>1. /\ got \in [Conn -> Nat] /\ eof \in [Conn -> BOOLEAN] /\ gone \in [Conn -> BOOLEAN]
        /\ in \in [Conn -> Seq(Byte)] /\ out \in [Conn -> Seq(Byte)]
    BY DEF EchoInv, TablesInv, BytesOK
  <2>2. got[c] + 1 \in Nat
    BY <1>2, SMTT(30)
  <2> QED
    BY <1>1, <1>2, <2>1, <2>2
<1> QED
  BY <1>1, <1>4, <1>5, <1>6, <1>7, OneClientMoves

\* connect, send, receive, shutdown and close of a client.
LEMMA ClientsEcho == ASSUME TablesInv, EchoInv, NEW c \in Conn, ClientStep(c) PROVE EchoInv'
<1>1. CASE Connect(c)
  <2>1. /\ st[c] = "new" /\ st' = [st EXCEPT ![c] = "pending"]
        /\ UNCHANGED <<gfds, fds, in, out, sent, got, gone, eof>>
    BY <1>1 DEF Connect, server, loop, shared, client
  <2>2. \A d \in Conn : st'[d] \in {"new", "pending"} => st[d] \in {"new", "pending"}
    BY <2>1 DEF TablesInv, ConnOK
  <2>3. eof \in [Conn -> BOOLEAN]
    BY DEF EchoInv
  <2> QED
    BY <2>1, <2>2, <2>3, NoByteMoves DEF ServedBy
<1>2. CASE ClientShutdown(c)
  <2>1. eof' = [eof EXCEPT ![c] = TRUE] /\ UNCHANGED <<gfds, fds, st, in, out, sent, got, gone>>
    BY <1>2 DEF ClientShutdown, server, loop, shared
  <2>2. eof' \in [Conn -> BOOLEAN] /\ \A d \in Conn : eof[d] => eof'[d]
    BY <2>1 DEF EchoInv
  <2> QED
    BY <2>1, <2>2, NoByteMoves DEF ServedBy
<1>3. CASE ClientClose(c)
  <2>1. /\ eof' = [eof EXCEPT ![c] = TRUE] /\ gone' = [gone EXCEPT ![c] = TRUE]
        /\ out' = [out EXCEPT ![c] = <<>>] /\ (in' = in \/ in' = [in EXCEPT ![c] = <<>>])
        /\ UNCHANGED <<gfds, fds, st, sent, got>>
    BY <1>3 DEF ClientClose, server, loop, shared
  <2>2. /\ got' \in [Conn -> Nat] /\ eof' \in [Conn -> BOOLEAN] /\ gone' \in [Conn -> BOOLEAN]
        /\ gone'[c] /\ eof'[c] /\ out'[c] = <<>>
        /\ \A d \in Conn : d # c => /\ in'[d] = in[d] /\ out'[d] = out[d] /\ sent'[d] = sent[d]
                                    /\ got'[d] = got[d] /\ eof'[d] = eof[d] /\ gone'[d] = gone[d]
        /\ st[c] \in {"new", "pending"} => got'[c] = 0
    BY <2>1 DEF EchoInv, TablesInv, BytesOK
  <2>3. InOrder(out'[c], c, got'[c])
    <3>1. Len(out'[c]) = 0 /\ 1..0 = {}
      BY <2>2, EmptyOne
    <3> QED
      BY <3>1 DEF InOrder
  <2> QED
    BY <2>1, <2>2, <2>3, OneClientMoves
<1> QED
  BY <1>1, <1>2, <1>3, SendEcho, ReceiveEcho DEF ClientStep

-----------------------------------------------------------------------------
\* Every step keeps the invariant.
LEMMA EchoNext == Counting /\ TablesInv /\ EchoInv /\ [Next]_vars => EchoInv'
<1> SUFFICES ASSUME Counting, TablesInv, EchoInv, [Next]_vars PROVE EchoInv'
  OBVIOUS
<1>1. CASE UNCHANGED vars
  BY <1>1, ElsewhereEcho DEF vars, loop
<1>2. CASE on_sigchld \/ hdl_sig_stop
  <2>1. Exits(Master) \/ UNCHANGED <<gfds, fds, st, in, out, client>>
    BY <1>2 DEF on_sigchld, hdl_sig_stop, loop
  <2>2. Master \in Proc
    BY DEF Proc
  <2> QED
    BY <2>1, <2>2, ElsewhereEcho, ExitsEcho
<1>3. ASSUME NEW c \in Conn, ClientStep(c) PROVE EchoInv'
  BY <1>3, ClientsEcho
<1>4. ASSUME NEW p \in Proc, Dies(p) PROVE EchoInv'
  BY <1>4, ExitsEcho DEF Dies
<1>5. ASSUME NEW p \in Proc, Run(p) PROVE EchoInv'
  <2>1. CASE sem_open(p)
    BY <2>1, ElsewhereEcho DEF sem_open, loop
  <2>2. CASE build(p)
    BY <2>2, ElsewhereEcho DEF build, loop
  <2>3. CASE select(p)
    BY <2>3, ElsewhereEcho DEF select, loop
  <2>4. CASE report(p)
    BY <2>4, ElsewhereEcho DEF report, loop
  <2> QED
    BY <1>5, <2>1, <2>2, <2>3, <2>4, AcceptEcho, ReadEcho, WriteEcho DEF Run
<1> QED
  BY <1>1, <1>2, <1>3, <1>4, <1>5 DEF Next

-----------------------------------------------------------------------------
\* There are two high descriptors more than there are slots.
LEMMA HighAndSlots ==
    /\ 7 \in Int /\ 8 + SOCK_CLI_MAX \in Int /\ ~(7 > 8 + SOCK_CLI_MAX)
    /\ (8 + SOCK_CLI_MAX) - 7 + 1 = SOCK_CLI_MAX + 2
    /\ 1 \in Int /\ SOCK_CLI_MAX \in Int /\ ~(1 > SOCK_CLI_MAX) /\ SOCK_CLI_MAX - 1 + 1 = SOCK_CLI_MAX
    /\ SOCK_CLI_MAX < SOCK_CLI_MAX + 2
BY Numbers, SMTT(30)

\* The facts about counting that the first free descriptor and slot rest on.
INSTANCE FiniteSetTheorems

\* A set of naturals has a smallest element.
LEMMA WellOrdered ==
    ASSUME NEW S \in SUBSET Nat, S # {}
    PROVE  \E x \in S : \A y \in S : x <= y
<1>1. PICK x \in S : \A y \in S : <<y, x>> \notin OpToRel(<, Nat)
  BY NatLessThanWellFounded, WFMin
<1>2. \A y \in S : x <= y
  <2> SUFFICES ASSUME NEW y \in S, ~(x <= y) PROVE FALSE
    OBVIOUS
  <2>1. <<y, x>> \notin {ss \in Nat \X Nat : ss[1] < ss[2]}
    BY <1>1 DEF OpToRel
  <2> QED
    BY <2>1, SMTT(30)
<1> QED
  BY <1>2

\* The facts about counting that the steps of the server rest on.
LEMMA CountingHolds == Counting
<1> DEFINE high == 7..(8 + SOCK_CLI_MAX)
<1>1. IsFiniteSet(high) /\ Cardinality(high) = SOCK_CLI_MAX + 2
  BY HighAndSlots, FS_Interval
<1>2. IsFiniteSet(Slot) /\ Cardinality(Slot) = SOCK_CLI_MAX
  BY HighAndSlots, FS_Interval DEF Slot
<1>3. Cardinality(Slot) < Cardinality(high)
  BY <1>1, <1>2, HighAndSlots
<1> HIDE DEF high
<1>4. \A at \in [high -> Slot] : \E f, g \in high : f # g /\ at[f] = at[g]
  BY <1>1, <1>2, <1>3, FS_PigeonHole
<1> QED
  BY <1>2, <1>4, WellOrdered DEF Counting, high

-----------------------------------------------------------------------------
\* The invariant holds in every reachable state.
THEOREM TablesInvariant == Spec => []TablesInv
BY CountingHolds, TablesInit, TablesNext, PTL DEF Spec

-----------------------------------------------------------------------------
\* A process that goes on to accept (line 627) has a slot for the connection, however
\* many clients there are and whichever process dies: the size read before select
\* (line 575) is not stale, and no connection is dropped for want of a slot.
THEOREM Room == Spec => []RoomToAccept
<1>1. TablesInv => RoomToAccept
  BY DEF TablesInv, LoopOK, HasRoom, RoomToAccept
<1> QED
  BY <1>1, TablesInvariant, PTL

\* No buffer is overrun: what a read puts in a slot (the early return of
\* protocol_echo_read), what the socket pair and the kernel hold, stay in bounds for
\* any sizes with SOCK_BUF >= gechobytes.
THEOREM Typed == Spec => []TypeOK
<1>1. TablesInv /\ LockInv => TypeOK
  <2> SUFFICES ASSUME TablesInv, LockInv PROVE TypeOK
    OBVIOUS
  <2>1. \A p \in Proc : \A k \in Slot : /\ gfds[p][k].fd \in ClientFd
                                       /\ gfds[p][k].buf \in ByteSeq(SOCK_BUF)
    <3> SUFFICES ASSUME NEW p \in Proc, NEW k \in Slot
                 PROVE  gfds[p][k].fd \in ClientFd /\ gfds[p][k].buf \in ByteSeq(SOCK_BUF)
      OBVIOUS
    <3>1. TableOK(gfds[p], fds[p])
      BY DEF TablesInv
    <3>2. gfds[p][k].fd \in ClientFd /\ gfds[p][k].buf \in Seq(Byte) /\ Len(gfds[p][k].buf) <= SOCK_BUF
      BY <3>1 DEF TableOK
    <3> QED
      BY <3>2, ShortSeq, ForkAssumption
  <2>2. in \in [Conn -> ByteSeq(MaxSend)]
    <3>1. ASSUME NEW c \in Conn PROVE in[c] \in ByteSeq(MaxSend)
      <4>1. in[c] \in Seq(Byte) /\ Len(in[c]) <= sent[c] /\ sent[c] \in 0..MaxSend
        BY DEF TablesInv, BytesOK
      <4>2. Len(in[c]) <= MaxSend
        BY <4>1, LengthOf, ForkAssumption, SMTT(30)
      <4> QED
        BY <4>1, <4>2, ShortSeq, ForkAssumption
    <3> QED
      BY <3>1 DEF TablesInv, BytesOK
  <2>3. out \in [Conn -> ByteSeq(SndBuf)]
    <3>1. ASSUME NEW c \in Conn PROVE out[c] \in ByteSeq(SndBuf)
      <4>1. out[c] \in Seq(Byte) /\ Len(out[c]) <= SndBuf
        BY DEF TablesInv, BytesOK
      <4> QED
        BY <4>1, ShortSeq, ForkAssumption
    <3> QED
      BY <3>1 DEF TablesInv, BytesOK
  <2>4. Shapes /\ MailOK /\ ConnOK
    BY DEF TablesInv
  <2> QED
    BY <2>1, <2>2, <2>3, <2>4 DEF LockInv, Shapes, MailOK, ConnOK, TypeOK
<1> QED
  BY <1>1, TablesInvariant, LockInvariant, PTL

\* As long as descriptor 0 can be written, it is never handed out by accept, where
\* sock_cli_add would put it in a slot that still counts as unused: then every open
\* connection is in exactly one slot of exactly one process.
THEOREM NoneForgotten == ASSUME StdinWritable PROVE Spec => []Tracked
<1>1. TablesInv => Tracked
  <2> SUFFICES ASSUME TablesInv, NEW c \in Conn, st[c] = "open"
               PROVE  /\ \E p \in Proc, k \in Slot : ServedBy(p, k, c)
                      /\ \A p, q \in Proc : \A k, l \in Slot :
                             ServedBy(p, k, c) /\ ServedBy(q, l, c) => p = q /\ k = l
    BY  DEF Tracked
  <2>0. /\ Shapes /\ ConnOK /\ StdinOK /\ \A p \in Proc : TableOK(gfds[p], fds[p])
    BY DEF TablesInv
  <2>1. PICK p \in Proc, f \in ClientFd : fds[p][f] = c
    BY <2>0 DEF ConnOK
  <2>2. f > 0 /\ fds[p][f] # Free
    BY <2>0, <2>1, Positive, Numbers DEF StdinOK
  <2>3. PICK k \in Slot : gfds[p][k].fd = f
    BY <2>0, <2>2 DEF TableOK
  <2>4. ServedBy(p, k, c)
    BY <2>1, <2>2, <2>3 DEF ServedBy
  <2>5. \A q, r \in Proc : \A l, m \in Slot : ServedBy(q, l, c) /\ ServedBy(r, m, c) => q = r /\ l = m
    BY InOneSlot
  <2> QED
    BY <2>4, <2>5
<1> QED
  BY <1>1, TablesInvariant, PTL

-----------------------------------------------------------------------------
\* The invariant of the bytes, too, holds in every reachable state.
THEOREM EchoInvariant == Spec => []EchoInv
BY CountingHolds, EchoInit, EchoNext, TablesInvariant, PTL DEF Spec

\* Echo (protocol_echo_read, protocol_echo_write and the reuse of slots by
\* sock_cli_add): for any number of clients and any sizes of the table, the buffers
\* and the messages, a client gets back its own bytes, in order and without a gap,
\* until a process has to close descriptor 0 after a failed write.
THEOREM Echo == Spec => []EchoesOwnBytes
<1>1. EchoInv => EchoesOwnBytes
  BY DEF EchoInv
<1> QED
  BY <1>1, EchoInvariant, PTL
=============================================================================

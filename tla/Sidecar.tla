------------------------------- MODULE Sidecar ------------------------------
(***************************************************************************)
(* The health-check server of springboot-sidecar/select-srv.cpp: one       *)
(* select() loop over a table of clients, one reply per connection.  Its   *)
(* sockets block, and a connection just accepted is read in the same round *)
(* without having been polled.                                             *)
(***************************************************************************)
EXTENDS Sockets

CONSTANT SOCK_CLI_MAX    \* slots of the client table

VARIABLES clis,          \* g_xhsdk_clis: descriptor and alive flag of each slot
          rfds, wfds,    \* the descriptors select() reported
          pc, i          \* where the loop is, and the slot select_on_socket_rw is at

server == <<clis, rfds, wfds, pc, i>>
vars == <<kernel, server>>

Slot == 1..SOCK_CLI_MAX
Unused == [fd |-> 0, alive |-> FALSE]
Clients == {clis[k].fd : k \in Slot} \ {0}

Init ==
    /\ SocketsInit
    /\ clis = [k \in Slot |-> Unused]
    /\ rfds = {} /\ wfds = {} /\ pc = "select" /\ i = 1

-----------------------------------------------------------------------------
Polled == {listenfd} \cup Clients

\* select() over the listening socket and every slot in use.  Replies are small,
\* so that every connection can be written.
select ==
    /\ pc = "select"
    /\ Clients \cap FreeFds = {}
    /\ rfds' = {f \in Polled : Readable(f)} /\ wfds' = Clients
    /\ rfds' \cup wfds' # {}
    /\ pc' = IF listenfd \in rfds' THEN "connect" ELSE "rw"
    /\ i' = 1
    /\ UNCHANGED <<kernel, clis>>

FreeSlots == {k \in Slot : clis[k].fd = 0}

FirstFree(k) == k \in FreeSlots /\ \A l \in FreeSlots : k <= l

\* accept(); the new connection takes the first unused slot and counts as ready,
\* or is closed when there is no slot.
select_on_socket_connect ==
    /\ pc = "connect" /\ FreeFds # {}
    /\ backlog' = Tail(backlog)
    /\ \/ \E k \in Slot, f \in Fd :
             /\ FirstFree(k) /\ NewFd(f)
             /\ clis' = [clis EXCEPT ![k] = [fd |-> f, alive |-> FALSE]]
             /\ fds' = [fds EXCEPT ![f] = Head(backlog)]
             /\ rfds' = rfds \cup {f} /\ wfds' = wfds \cup {f}
       \/ FreeSlots = {} /\ UNCHANGED <<clis, fds, rfds, wfds>>
    /\ pc' = "rw"
    /\ UNCHANGED <<st, sent, unread, replies, broken, i>>

\* accept() fails, or select() meets a descriptor that is not open.
fails ==
    /\ pc \in {"connect"} \cup (IF Clients \cap FreeFds = {} THEN {} ELSE {"select"})
    /\ pc' = "exit"
    /\ UNCHANGED <<kernel, clis, rfds, wfds, i>>

OneSlotTooFar ==
    /\ pc' = IF i > SOCK_CLI_MAX THEN "select" ELSE "rw"
    /\ i' = IF i > SOCK_CLI_MAX THEN 1 ELSE i + 1

\* After slot i.
Onwards ==
    /\ pc' = IF i = SOCK_CLI_MAX THEN "select" ELSE "rw"
    /\ i' = IF i = SOCK_CLI_MAX THEN 1 ELSE i + 1

\* Whether the connection is closed at the end of the handler.
Closes(lost, writes) == lost \/ writes

NeverAlive(k, got) == clis[k].alive

Alive(k, got) == got \/ clis[k].alive

ForgetsSlot(k, lost, writes, got) ==
    [clis[k] EXCEPT !.alive = ~lost /\ ~writes /\ Alive(k, got)]

SlotAfter(k, lost, writes, got) ==
    CASE lost -> [clis[k] EXCEPT !.fd = 0]
      [] writes -> Unused
      [] OTHER -> [clis[k] EXCEPT !.alive = Alive(k, got)]

\* select_on_socket_rw at slot i: a read that may block, then the reply, after
\* which the connection is closed.
select_on_socket_rw ==
    LET f == clis[i].fd
        c == fds[f]
        reads == f # 0 /\ f \in rfds
        got == reads /\ unread[c] > 0
        lost == reads /\ ~got
        writes == f # 0 /\ ~lost /\ f \in wfds /\ Alive(i, got)
    IN  /\ pc = "rw"
        /\ reads => Readable(f)
        /\ IF f = 0 THEN UNCHANGED unread ELSE Reads(c, got)
        /\ IF writes THEN Writes(c) \/ WriteFails(c) ELSE UNCHANGED <<replies, broken>>
        /\ clis' = [clis EXCEPT ![i] = SlotAfter(i, lost, writes, got)]
        /\ fds' = IF Closes(lost, writes) THEN [fds EXCEPT ![f] = Free] ELSE fds
        /\ Onwards
        /\ UNCHANGED <<backlog, st, sent, rfds, wfds>>

Serve == select \/ select_on_socket_connect \/ select_on_socket_rw \/ fails

Client == \E c \in Conn : connect(c) \/ send(c) \/ hangup(c)

Next == Serve \/ (Client /\ UNCHANGED server)

Spec == Init /\ [][Next]_vars

\* The server runs, and a client that has connected sends a request or hangs up
\* at last.
Fairness ==
    /\ WF_vars(Serve)
    /\ \A c \in Conn : WF_vars(sent[c] = 0 /\ (send(c) \/ hangup(c)) /\ UNCHANGED server)

FairSpec == Spec /\ Fairness

-----------------------------------------------------------------------------
(* Properties *)

\* The state has its type.
TypeOK ==
    /\ SocketsTypeOK
    /\ clis \in [Slot -> [fd : Fd \cup {0}, alive : BOOLEAN]]
    /\ rfds \subseteq Fd \cup {listenfd} /\ wfds \subseteq Fd
    /\ pc \in {"select", "connect", "rw", "exit"} /\ i \in Slot

\* Between two rounds the descriptors open are exactly those in the table, each
\* in one slot: none leaks, and select() is never given a closed one.
Tracked ==
    pc = "select" =>
        /\ Clients = {f \in Fd : fds[f] # Free}
        /\ \A k, l \in Slot : clis[k].fd = clis[l].fd => k = l \/ clis[k].fd = 0

\* A connection gets at most one reply, and is closed with it.
OneReply == \A c \in Conn : replies[c] = 0 \/ (replies[c] = 1 /\ ~Accepted(c))

Wants(c) == st[c] = "open"
Content(c) == replies[c] = 1 \/ st[c] = "closed" \/ pc = "exit"

\* A connection is served in the end, whatever the others do: it gets its reply or
\* its client hung up.  A failing accept() ends the server.
Answered == \A c \in Conn : Wants(c) ~> Content(c)
=============================================================================

------------------------------- MODULE Paxos -------------------------------
(***************************************************************************)
(* The single-instance Paxos of src/src/paxos/test_paxos.c.                *)
(*                                                                         *)
(* Every node runs one event loop and is proposer, acceptor and learner at *)
(* once.  Datagrams travel over UDP: `net' is a bag because the code sends *)
(* the same datagram more than once, and a datagram may be lost,           *)
(* duplicated or overtaken.  The requests a node has queued for its peers  *)
(* wait in o_list and carry a POINTER to value_try, so the value they are  *)
(* sent with is the one value_try holds when sendto() is called.  Any of   *)
(* them may meet EAGAIN and be overtaken, so the lists are bags too.       *)
(*                                                                         *)
(* The callbacks are modelled as lines 496 and 826-830 register them.  The *)
(* values echoed are taken to be of one length, so that sdscpylen rewrites *)
(* the buffer in place.                                                    *)
(***************************************************************************)
EXTENDS Integers, FiniteSets

CONSTANTS
    Node,        \* the nodes of -n, this one included
    Value,       \* what may be echoed
    Empty,       \* the empty sds
    Proposer,    \* the nodes somebody types an echo on
    MaxTry,      \* bound on the rounds one node starts
    MaxDup,      \* bound on the datagrams the network delivers once more
    Losses,      \* the network may lose a datagram
    SendAgain,   \* sendto() of a reply may report EAGAIN
    MaxStop      \* bound on the nodes that may be stopped

ASSUME NodeAssumption == IsFiniteSet(Node)
ASSUME ValueAssumption == Empty \notin Value
ASSUME BoundAssumption ==
    /\ Proposer \subseteq Node
    /\ MaxTry \in Nat
    /\ MaxDup \in Nat
    /\ MaxStop \in Nat
    /\ Losses \in BOOLEAN
    /\ SendAgain \in BOOLEAN

VARIABLES
    t_try, value_try,            \* the proposer's round and value
    best,                        \* head of propose_ok_list once it is sorted
    n_propose_ok,                \* length of propose_ok_list
    n_propose_success,
    flags,                       \* the peers whose PAXOS_PROPOSE_OK is set
    o_list,                      \* the requests n queued for its peers
    t_max, t_store, value_store, \* the acceptor
    replies,                     \* ctx->o_list: replies that met EAGAIN
    net,                         \* the datagrams in flight
    dups,                        \* how often the network duplicated one
    running,                     \* the nodes whose process is up
    chosen,                      \* history: every `chosen_value' reported
    granted                      \* history: the peers counted in n_propose_ok

proposerVars == <<t_try, value_try, best, n_propose_ok, n_propose_success, flags>>
acceptorVars == <<t_max, t_store, value_store>>
vars == <<proposerVars, acceptorVars, o_list, replies, net, dups, running, chosen, granted>>

Peer(n) == Node \ {n}
n_nodes == Cardinality(Node)
\* Mutant: half of the nodes is enough.
MajorityOrHalf(count) == count >= n_nodes \div 2
Majority(count) == count > n_nodes \div 2

Request == [dst : Node, flag : {1, 3, 5}, t : Nat]
Reply == [dst : Node, flag : {2, 4}, t : Nat, held : BOOLEAN]
\* A bag of messages is a function to how often each is there.
IsBagOf(B, S) == DOMAIN B \subseteq S /\ B \in [DOMAIN B -> Nat \ {0}]

\* No message; B with one more of every element of S; B with one less of e.
NoMessage == [e \in {} |-> 1]
PutAll(B, S) ==
    [e \in DOMAIN B \cup S |->
        IF e \in DOMAIN B THEN B[e] + (IF e \in S THEN 1 ELSE 0) ELSE 1]
Put(B, e) == PutAll(B, {e})
Take(B, e) ==
    [x \in {y \in DOMAIN B : y # e \/ B[y] > 1} |-> IF x = e THEN B[x] - 1 ELSE B[x]]

Datagram == [flag : 1..5, src : Node, dst : Node, t : Nat, value : Value \cup {Empty}]

TypeOK ==
    /\ t_try \in [Node -> Nat]
    /\ value_try \in [Node -> Value \cup {Empty}]
    /\ best \in [Node -> [t : Nat, value : Value \cup {Empty}]]
    /\ n_propose_ok \in [Node -> Nat]
    /\ n_propose_success \in [Node -> Nat]
    /\ flags \in [Node -> SUBSET Node]
    /\ o_list = [n \in Node |-> o_list[n]] /\ \A n \in Node : IsBagOf(o_list[n], Request)
    /\ t_max \in [Node -> Nat]
    /\ t_store \in [Node -> Nat]
    /\ value_store \in [Node -> Value \cup {Empty}]
    /\ replies = [n \in Node |-> replies[n]] /\ \A n \in Node : IsBagOf(replies[n], Reply)
    /\ IsBagOf(net, Datagram)
    /\ dups \in Nat
    /\ running \subseteq Node
    /\ chosen \subseteq [node : Node, value : Value \cup {Empty}]
    /\ granted \in [Node -> SUBSET Node]

NoPromise == [t |-> 0, value |-> Empty]

Init ==
    /\ t_try = [n \in Node |-> 0]
    /\ value_try = [n \in Node |-> Empty]
    /\ best = [n \in Node |-> NoPromise]
    /\ n_propose_ok = [n \in Node |-> 0]
    /\ n_propose_success = [n \in Node |-> 0]
    /\ flags = [n \in Node |-> {}]
    /\ o_list = [n \in Node |-> NoMessage]
    /\ t_max = [n \in Node |-> 0]
    /\ t_store = [n \in Node |-> 0]
    /\ value_store = [n \in Node |-> Empty]
    /\ replies = [n \in Node |-> NoMessage]
    /\ net = NoMessage
    /\ dups = 0
    /\ running = Node
    /\ chosen = {}
    /\ granted = [n \in Node |-> {}]

-----------------------------------------------------------------------------
\* n's queue after a request with this flag and round was added for every
\* node of P.
Queued(n, P, flag, t) ==
    [o_list EXCEPT ![n] = PutAll(@, {[dst |-> m, flag |-> flag, t |-> t] : m \in P})]

\* Mutants: the round is counted down; a promise flags nobody; an acceptor
\* promises its round again, or votes in any round it has not passed; the
\* value of a promise that reports no vote is taken over.
PreviousTry(n) == t_try[n] - 1
NotFlagged(n, src) == flags[n]
PromisesAgain(a, d) == d.t >= t_max[a]
AcceptsLater(a, d) == d.t >= t_max[a]
AdoptedAlways(n, max) == max.value

\* paxos_prepare counts the round up by one.
NextTry(n) == t_try[n] + 1

\* The peers proposals go to once src's promise is in, those an earlier round
\* flagged included.
Flagged(n, src) == flags[n] \cup {src}

\* Only a higher round is promised; only the round promised last is voted in.
Promises(a, d) == d.t > t_max[a]
Accepts(a, d) == d.t = t_max[a]

\* The value a proposer goes on with: that of the highest vote reported to it.
Adopted(n, max) == IF max.t > 0 THEN max.value ELSE value_try[n]

\* A new round: the node's own vote and all it counted are forgotten, the
\* replies it had queued dropped; what is queued for the peers and the
\* PAXOS_PROPOSE_OK flags are kept.
paxos_prepare(n) ==
    /\ t_try' = [t_try EXCEPT ![n] = NextTry(n)]
    /\ t_store' = [t_store EXCEPT ![n] = 0]
    /\ value_store' = [value_store EXCEPT ![n] = Empty]
    /\ best' = [best EXCEPT ![n] = NoPromise]
    /\ n_propose_ok' = [n_propose_ok EXCEPT ![n] = 0]
    /\ n_propose_success' = [n_propose_success EXCEPT ![n] = 0]
    /\ replies' = [replies EXCEPT ![n] = NoMessage]
    /\ o_list' = Queued(n, Peer(n), 1, NextTry(n))
    /\ granted' = [granted EXCEPT ![n] = {}]

\* The proposal to the nodes of P, and the value chosen to all peers.
paxos_propose(n, P) == o_list' = Queued(n, P, 3, t_try[n])
paxos_execute(n) == o_list' = Queued(n, Peer(n), 5, t_try[n])

\* Somebody types v on n's standard input, or writes it to the echo file.
paxos_echo(n, v) ==
    /\ n \in running \cap Proposer
    /\ t_try[n] < MaxTry
    /\ value_try' = [value_try EXCEPT ![n] = v]
    /\ paxos_prepare(n)
    /\ UNCHANGED <<flags, t_max, net, dups, running, chosen>>

\* epoll_before_wait gets request r out.  The requests it passes over met
\* EAGAIN and stay queued for the next pass.
epoll_before_wait(n, r) ==
    /\ n \in running
    /\ o_list' = [o_list EXCEPT ![n] = Take(@, r)]
    /\ net' = Put(net, [flag |-> r.flag, src |-> n, dst |-> r.dst,
                           t |-> r.t, value |-> value_try[n]])
    /\ UNCHANGED <<proposerVars, acceptorVars, replies, dups, running, chosen, granted>>

\* paxos_ctx_write gets queued reply r out with what value_store holds now,
\* then hands value_store itself to free(): the C library aborts the process.
paxos_ctx_write(n, r) ==
    /\ n \in running
    /\ net' = Put(net, [flag |-> r.flag, src |-> n, dst |-> r.dst, t |-> r.t,
                           value |-> IF r.held THEN value_store[n] ELSE Empty])
    /\ running' = running \ {n}
    /\ replies' = [replies EXCEPT ![n] = NoMessage]
    /\ UNCHANGED <<proposerVars, acceptorVars, o_list, dups, chosen, granted>>

-----------------------------------------------------------------------------
\* epoll_handle_paxos_node_fd_io, flag 2: one more promise is counted, whatever
\* round it answers; from a majority on, each one (re)sends the proposal, with
\* the value of the highest vote reported, to all peers flagged so far.
on_promise(d) ==
    /\ d.flag = 2
    /\ d.dst \in running
    /\ LET n == d.dst
           max == IF d.t > best[n].t THEN [t |-> d.t, value |-> d.value] ELSE best[n]
       IN  /\ flags' = [flags EXCEPT ![n] = Flagged(n, d.src)]
           /\ best' = [best EXCEPT ![n] = max]
           /\ n_propose_ok' = [n_propose_ok EXCEPT ![n] = @ + 1]
           /\ granted' = [granted EXCEPT ![n] = @ \cup {d.src}]
           /\ IF Majority(n_propose_ok[n] + 1)
              THEN /\ value_try' = [value_try EXCEPT ![n] = Adopted(n, max)]
                   /\ paxos_propose(n, Flagged(n, d.src))
              ELSE UNCHANGED <<value_try, o_list>>
    /\ net' = Take(net, d)
    /\ UNCHANGED <<t_try, n_propose_success, acceptorVars, replies, dups, running, chosen>>

\* The same handler, flag 4: one more acceptance is counted; from a majority
\* on, each one reports the value chosen and tells all peers to execute it.
on_accepted(d) ==
    /\ d.flag = 4
    /\ d.dst \in running
    /\ LET n == d.dst
       IN  /\ n_propose_success' = [n_propose_success EXCEPT ![n] = @ + 1]
           /\ IF Majority(n_propose_success[n] + 1)
              THEN /\ chosen' = chosen \cup {[node |-> n, value |-> value_try[n]]}
                   /\ paxos_execute(n)
              ELSE UNCHANGED <<chosen, o_list>>
    /\ net' = Take(net, d)
    /\ UNCHANGED <<t_try, value_try, best, n_propose_ok, flags, acceptorVars,
                   replies, dups, running, granted>>

\* The acceptor sends its answer to datagram d, or queues it on EAGAIN.
Answer(d, flag, t, value) ==
    \/ /\ net' = Put(Take(net, d), [flag |-> flag, src |-> d.dst, dst |-> d.src,
                                            t |-> t, value |-> value])
       /\ UNCHANGED replies
    \/ /\ SendAgain
       /\ net' = Take(net, d)
       /\ replies' = [replies EXCEPT ![d.dst] =
             Put(@, [dst |-> d.src, flag |-> flag, t |-> t, held |-> value # Empty])]

\* epoll_handle_paxos_fd_io, flag 1: promise a higher round, ignore the others.
on_prepare(d) ==
    /\ d.flag = 1
    /\ d.dst \in running
    /\ LET a == d.dst IN
         IF Promises(a, d)
         THEN /\ t_max' = [t_max EXCEPT ![a] = d.t]
              /\ Answer(d, 2, t_store[a], value_store[a])
         ELSE net' = Take(net, d) /\ UNCHANGED <<t_max, replies>>
    /\ UNCHANGED <<proposerVars, t_store, value_store, o_list, dups, running, chosen, granted>>

\* The same handler, flag 3: accept in the very round promised last.
on_propose(d) ==
    /\ d.flag = 3
    /\ d.dst \in running
    /\ LET a == d.dst IN
         IF Accepts(a, d)
         THEN /\ t_store' = [t_store EXCEPT ![a] = d.t]
              /\ value_store' = [value_store EXCEPT ![a] = d.value]
              /\ Answer(d, 4, d.t, d.value)
         ELSE net' = Take(net, d) /\ UNCHANGED <<t_store, value_store, replies>>
    /\ UNCHANGED <<proposerVars, t_max, o_list, dups, running, chosen, granted>>

\* The same handler, flag 5: the value is stored, t_store stays as it was.
on_execute(d) ==
    /\ d.flag = 5
    /\ d.dst \in running
    /\ value_store' = [value_store EXCEPT ![d.dst] = d.value]
    /\ net' = Take(net, d)
    /\ UNCHANGED <<proposerVars, t_max, t_store, o_list, replies, dups, running, chosen, granted>>

-----------------------------------------------------------------------------
\* The network drops a datagram, or sendto() had failed for good.
Lose(d) ==
    /\ Losses
    /\ net' = Take(net, d)
    /\ UNCHANGED <<proposerVars, acceptorVars, o_list, replies, dups, running, chosen, granted>>

\* The network delivers a datagram once more than it was sent.
Duplicate(d) ==
    /\ dups < MaxDup
    /\ dups' = dups + 1
    /\ net' = Put(net, d)
    /\ UNCHANGED <<proposerVars, acceptorVars, o_list, replies, running, chosen, granted>>

\* A node's process ends; nothing of its state was saved.
Stop(n) ==
    /\ n \in running
    /\ Cardinality(Node \ running) < MaxStop
    /\ running' = running \ {n}
    /\ UNCHANGED <<proposerVars, acceptorVars, o_list, replies, net, dups, chosen, granted>>

Send(n) ==
    \/ \E r \in DOMAIN o_list[n] : epoll_before_wait(n, r)
    \/ \E r \in DOMAIN replies[n] : paxos_ctx_write(n, r)

Handle(d) ==
    \/ on_promise(d)
    \/ on_accepted(d)
    \/ on_prepare(d)
    \/ on_propose(d)
    \/ on_execute(d)

Next ==
    \/ \E n \in Node, v \in Value : paxos_echo(n, v)
    \/ \E n \in Node : Send(n)
    \/ \E d \in DOMAIN net : Handle(d)
    \/ \E d \in DOMAIN net : Lose(d) \/ Duplicate(d)
    \/ \E n \in Node : Stop(n)

Spec == Init /\ [][Next]_vars

\* The event loop of a running node goes round at least every 100 ms: what is
\* queued is sent, since EAGAIN passes, and what arrives is handled.
Fairness ==
    \A n \in Node :
        /\ WF_vars(Send(n))
        /\ WF_vars(\E d \in DOMAIN net : d.dst = n /\ Handle(d))

FairSpec == Spec /\ Fairness

-----------------------------------------------------------------------------
\* Validity: a node only proposes, promises or votes for what somebody echoed;
\* the empty string a fresh value_store holds never becomes a proposal, a vote
\* or a chosen value, whatever is lost, duplicated or answered late.
OnlyEchoedValues ==
    /\ \A d \in DOMAIN net : d.flag \in {1, 3, 4, 5} => d.value # Empty
    /\ \A n \in Node : t_store[n] > 0 => value_store[n] # Empty
    /\ \A c \in chosen : c.value # Empty

\* No phantom round: a round an acceptor has promised or voted in was started
\* by another node, and its vote is never ahead of its promise.
RoundsWereStarted ==
    \A a \in Node :
        /\ t_store[a] <= t_max[a]
        /\ t_max[a] > 0 => \E p \in Peer(a) : t_max[a] <= t_try[p]

FirstRound == \A n \in Node : t_try[n] <= 1

\* Two proposers may use the same number.  While every node is in its first
\* round and no datagram is duplicated, at most one of them gets a proposal
\* out, because a majority of promises is counted from distinct peers.
OneProposerPerRound ==
    FirstRound /\ dups = 0 =>
        \A p, q \in Node :
            Majority(n_propose_ok[p]) /\ Majority(n_propose_ok[q]) => p = q

\* ... and so all chosen values reported in the first round are the same.
FirstRoundAgreement ==
    FirstRound /\ dups = 0 => \A c1, c2 \in chosen : c1.value = c2.value

\* What paxos/README.md promises: in the end one definite value is obtained.
Agreement == \A c1, c2 \in chosen : c1.value = c2.value

\* An echo ends in a chosen value, unless the node that took it is stopped.
Progress == \A p \in Node : (t_try[p] > 0) ~> (chosen # {} \/ p \notin running)

ChosenValues == {c.value : c \in chosen}

Abstract == INSTANCE Consensus WITH chosen <- ChosenValues

\* With one round per node and no duplicated datagram the nodes implement
\* Consensus: the first value reported chosen is never joined by another.
ImplementsConsensus == Abstract!Spec
=============================================================================

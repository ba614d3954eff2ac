---------------------------- MODULE PaxosProofs ----------------------------
(***************************************************************************)
(* Proofs about Paxos, for any set of nodes and values and any bounds.     *)
(*                                                                         *)
(* The inductive invariant has four layers, each resting on the ones       *)
(* before it: types; which rounds a datagram can name; which datagrams can *)
(* carry the empty value; and, for the first round, that a promise is one  *)
(* token that is in flight, queued or counted, never two of these.  From   *)
(* the last follow agreement in the first round and, with it, that the     *)
(* nodes implement Consensus.                                              *)
(***************************************************************************)
EXTENDS Paxos, FiniteSetTheorems, TLAPS

USE ZenonT(30)

\* What adding one element does to a bag.
LEMMA PutFacts ==
    ASSUME NEW S, NEW B, IsBagOf(B, S), NEW x \in S
    PROVE  /\ IsBagOf(Put(B, x), S)
           /\ \A e \in DOMAIN Put(B, x) : e \in DOMAIN B \/ e = x
           /\ \A e \in DOMAIN B : e # x => Put(B, x)[e] = B[e]
           /\ x \notin DOMAIN B => Put(B, x)[x] = 1
BY SMTT(30) DEF IsBagOf, Put, PutAll

\* What taking one element out does to a bag.
LEMMA TakeFacts ==
    ASSUME NEW S, NEW B, IsBagOf(B, S), NEW x
    PROVE  /\ IsBagOf(Take(B, x), S)
           /\ \A e \in DOMAIN Take(B, x) : e \in DOMAIN B
           /\ \A e \in DOMAIN Take(B, x) : e # x => Take(B, x)[e] = B[e]
           /\ x \in DOMAIN B /\ B[x] = 1 => x \notin DOMAIN Take(B, x)
BY SMTT(30) DEF IsBagOf, Take

\* What adding every element of a set once does to a bag.
LEMMA PutAllFacts ==
    ASSUME NEW S, NEW B, IsBagOf(B, S), NEW T \in SUBSET S
    PROVE  /\ IsBagOf(PutAll(B, T), S)
           /\ \A e \in DOMAIN PutAll(B, T) : e \in DOMAIN B \cup T
BY SMTT(30) DEF IsBagOf, PutAll

\* The empty bag has no element.
LEMMA NoMessageFacts ==
    ASSUME NEW S
    PROVE  IsBagOf(NoMessage, S) /\ DOMAIN NoMessage = {}
BY DEF IsBagOf, NoMessage

-----------------------------------------------------------------------------
\* Every state component keeps its type; the counters never leave Nat.
LEMMA TypeInit == Init => TypeOK
BY NoMessageFacts, SMTT(30) DEF Init, TypeOK, NoPromise

\* The requests a step adds are n's, for the nodes of P, with this flag and round.
OnlyQueues(n, P, flag, t) ==
    \A m \in Node : \A r \in DOMAIN o_list'[m] :
        r \in DOMAIN o_list[m] \/ (m = n /\ r.dst \in P /\ r.flag = flag /\ r.t = t)

\* What queueing a request for the nodes of P does to o_list.
LEMMA QueuedFacts ==
    ASSUME TypeOK, NEW n \in Node, NEW P \in SUBSET Node,
           NEW flag \in {1, 3, 5}, NEW t \in Nat, o_list' = Queued(n, P, flag, t)
    PROVE  /\ o_list' = [m \in Node |-> o_list'[m]]
           /\ \A m \in Node : IsBagOf(o_list'[m], Request)
           /\ OnlyQueues(n, P, flag, t)
<1> DEFINE T == {[dst |-> m, flag |-> flag, t |-> t] : m \in P}
<1>1. T \in SUBSET Request
  BY SMTT(30) DEF Request
<1>2. IsBagOf(o_list[n], Request)
  BY DEF TypeOK
<1>3. /\ IsBagOf(PutAll(o_list[n], T), Request)
      /\ \A r \in DOMAIN PutAll(o_list[n], T) : r \in DOMAIN o_list[n] \cup T
  BY <1>1, <1>2, PutAllFacts
<1>4. /\ o_list'[n] = PutAll(o_list[n], T)
      /\ \A m \in Node : m # n => o_list'[m] = o_list[m]
      /\ o_list' = [m \in Node |-> o_list'[m]]
  BY DEF Queued, TypeOK
<1>5. \A m \in Node : IsBagOf(o_list'[m], Request)
  BY <1>3, <1>4 DEF TypeOK
<1>6. \A r \in T : r.dst \in P /\ r.flag = flag /\ r.t = t
  BY SMTT(30)
<1>7. OnlyQueues(n, P, flag, t)
  BY <1>3, <1>4, <1>6 DEF OnlyQueues
<1> QED
  BY <1>4, <1>5, <1>7

\* What handling datagram d, with or without an answer, does to the network
\* and to the queued replies.
LEMMA AnswerFacts ==
    ASSUME TypeOK, NEW d \in DOMAIN net, NEW flag \in {2, 4}, NEW t \in Nat,
           NEW value \in Value \cup {Empty}, Answer(d, flag, t, value)
    PROVE  LET e == [flag |-> flag, src |-> d.dst, dst |-> d.src, t |-> t, value |-> value]
               r == [dst |-> d.src, flag |-> flag, t |-> t, held |-> value # Empty]
           IN  /\ e \in Datagram /\ r \in Reply
               /\ IsBagOf(net', Datagram)
               /\ replies' = [m \in Node |-> replies'[m]]
               /\ \A m \in Node : IsBagOf(replies'[m], Reply)
               /\ \/ net' = Put(Take(net, d), e) /\ replies' = replies
                  \/ /\ net' = Take(net, d)
                     /\ replies'[d.dst] = Put(replies[d.dst], r)
                     /\ \A m \in Node : m # d.dst => replies'[m] = replies[m]
<1> DEFINE e == [flag |-> flag, src |-> d.dst, dst |-> d.src, t |-> t, value |-> value]
           r == [dst |-> d.src, flag |-> flag, t |-> t, held |-> value # Empty]
<1>1. d \in Datagram /\ d.src \in Node /\ d.dst \in Node
  BY DEF TypeOK, IsBagOf, Datagram
<1>2. e \in Datagram /\ r \in Reply
  BY <1>1, SMTT(30) DEF Datagram, Reply
<1>3. IsBagOf(Take(net, d), Datagram)
  BY TakeFacts DEF TypeOK
<1>4. IsBagOf(Put(Take(net, d), e), Datagram)
  BY <1>2, <1>3, PutFacts
<1>5. IsBagOf(Put(replies[d.dst], r), Reply)
  BY <1>1, <1>2, PutFacts, SMTT(30) DEF TypeOK
<1>6. CASE net' = Put(Take(net, d), e) /\ UNCHANGED replies
  BY <1>6, <1>2, <1>4 DEF TypeOK
<1>7. CASE /\ net' = Take(net, d)
           /\ replies' = [replies EXCEPT ![d.dst] = Put(@, r)]
  <2>1. /\ replies'[d.dst] = Put(replies[d.dst], r)
        /\ \A m \in Node : m # d.dst => replies'[m] = replies[m]
        /\ replies' = [m \in Node |-> replies'[m]]
    BY <1>7, <1>1 DEF TypeOK
  <2>2. \A m \in Node : IsBagOf(replies'[m], Reply)
    BY <2>1, <1>5 DEF TypeOK
  <2> QED
    BY <2>1, <2>2, <1>7, <1>2, <1>3
<1> QED
  BY <1>6, <1>7 DEF Answer

\* The messages a step adds are the answer to d, sent or queued.
OnlyAnswers(d, flag, t, value) ==
    /\ \A x \in DOMAIN net' :
          \/ x \in DOMAIN net
          \/ x = [flag |-> flag, src |-> d.dst, dst |-> d.src, t |-> t, value |-> value]
    /\ \A m \in Node : \A x \in DOMAIN replies'[m] :
          \/ x \in DOMAIN replies[m]
          \/ /\ m = d.dst /\ x.dst = d.src /\ x.flag = flag /\ x.t = t
             /\ (x.held <=> value # Empty)

\* An acceptor's answer puts that datagram in its queue and nothing else.
LEMMA AnswerAdds ==
    ASSUME TypeOK, NEW d \in DOMAIN net, NEW flag \in {2, 4}, NEW t \in Nat,
           NEW value \in Value \cup {Empty}, Answer(d, flag, t, value)
    PROVE  OnlyAnswers(d, flag, t, value)
<1> DEFINE e == [flag |-> flag, src |-> d.dst, dst |-> d.src, t |-> t, value |-> value]
           r == [dst |-> d.src, flag |-> flag, t |-> t, held |-> value # Empty]
<1>1. d.src \in Node /\ d.dst \in Node
  BY DEF TypeOK, IsBagOf, Datagram
<1>2. IsBagOf(Take(net, d), Datagram) /\ e \in Datagram
  BY <1>1, TakeFacts, SMTT(30) DEF TypeOK, Datagram
<1>3. \A x \in DOMAIN Take(net, d) : x \in DOMAIN net
  BY TakeFacts DEF TypeOK
<1>4. r \in Reply /\ IsBagOf(replies[d.dst], Reply)
  BY <1>1 DEF TypeOK, Reply
<1>5. CASE net' = Put(Take(net, d), e) /\ replies' = replies
  <2>1. \A x \in DOMAIN net' : x \in DOMAIN net \/ x = e
    BY <1>5, <1>2, <1>3, PutFacts, SMTT(30)
  <2> QED
    BY <2>1, <1>5 DEF OnlyAnswers
<1>6. CASE /\ net' = Take(net, d)
           /\ replies'[d.dst] = Put(replies[d.dst], r)
           /\ \A m \in Node : m # d.dst => replies'[m] = replies[m]
  <2>1. \A x \in DOMAIN replies'[d.dst] : x \in DOMAIN replies[d.dst] \/ x = r
    BY <1>6, <1>4, PutFacts, SMTT(30)
  <2>2. r.dst = d.src /\ r.flag = flag /\ r.t = t /\ (r.held <=> value # Empty)
    OBVIOUS
  <2> HIDE DEF r
  <2> QED
    BY <2>1, <2>2, <1>6, <1>3 DEF OnlyAnswers
<1> QED
  BY <1>5, <1>6, AnswerFacts

\* One step keeps the types.
LEMMA TypeNext == TypeOK /\ [Next]_vars => TypeOK'
<1> SUFFICES ASSUME TypeOK, [Next]_vars PROVE TypeOK'
  OBVIOUS
<1> USE DEF proposerVars, acceptorVars
<1>1. ASSUME NEW n \in Node, NEW v \in Value, paxos_echo(n, v) PROVE TypeOK'
  <2>1. t_try[n] + 1 \in Nat /\ Peer(n) \in SUBSET Node
    BY SMTT(30) DEF TypeOK, Peer
  <2>2. o_list' = [m \in Node |-> o_list'[m]] /\ \A m \in Node : IsBagOf(o_list'[m], Request)
    BY <1>1, <2>1, QueuedFacts, o_list' = Queued(n, Peer(n), 1, t_try[n] + 1)
       DEF paxos_echo, paxos_prepare, NextTry
  <2>3. replies' = [m \in Node |-> replies'[m]] /\ \A m \in Node : IsBagOf(replies'[m], Reply)
    BY <1>1, NoMessageFacts DEF paxos_echo, paxos_prepare, TypeOK
  <2> QED
    BY <1>1, <2>1, <2>2, <2>3 DEF paxos_echo, paxos_prepare, NextTry, TypeOK, NoPromise
<1>2. ASSUME NEW n \in Node, NEW r \in DOMAIN o_list[n], epoll_before_wait(n, r)
      PROVE  TypeOK'
  <2> DEFINE e == [flag |-> r.flag, src |-> n, dst |-> r.dst, t |-> r.t, value |-> value_try[n]]
  <2>1. r \in Request
    BY DEF TypeOK, IsBagOf
  <2>2. e \in Datagram
    BY <2>1, SMTT(30) DEF Request, Datagram, TypeOK
  <2>3. IsBagOf(net', Datagram)
    BY <1>2, <2>2, PutFacts, SMTT(30) DEF epoll_before_wait, TypeOK
  <2>4. o_list' = [m \in Node |-> o_list'[m]] /\ \A m \in Node : IsBagOf(o_list'[m], Request)
    BY <1>2, TakeFacts DEF epoll_before_wait, TypeOK
  <2> QED
    BY <1>2, <2>3, <2>4 DEF epoll_before_wait, TypeOK
<1>3. ASSUME NEW n \in Node, NEW r \in DOMAIN replies[n], paxos_ctx_write(n, r)
      PROVE  TypeOK'
  <2> DEFINE e == [flag |-> r.flag, src |-> n, dst |-> r.dst, t |-> r.t,
                   value |-> IF r.held THEN value_store[n] ELSE Empty]
  <2>1. r \in Reply
    BY DEF TypeOK, IsBagOf
  <2>2. e \in Datagram
    BY <2>1, SMTT(30) DEF Reply, Datagram, TypeOK
  <2>3. IsBagOf(net', Datagram)
    BY <1>3, <2>2, PutFacts, SMTT(30) DEF paxos_ctx_write, TypeOK
  <2>4. replies' = [m \in Node |-> replies'[m]] /\ \A m \in Node : IsBagOf(replies'[m], Reply)
    BY <1>3, NoMessageFacts DEF paxos_ctx_write, TypeOK
  <2> QED
    BY <1>3, <2>3, <2>4 DEF paxos_ctx_write, TypeOK
<1>4. ASSUME NEW d \in DOMAIN net, Handle(d) PROVE TypeOK'
  <2>1. d \in DOMAIN net /\ d \in Datagram
    BY DEF TypeOK, IsBagOf
  <2>2. /\ d.src \in Node /\ d.dst \in Node /\ d.t \in Nat
        /\ d.value \in Value \cup {Empty}
    BY <2>1 DEF Datagram
  <2>3. IsBagOf(Take(net, d), Datagram)
    BY TakeFacts DEF TypeOK
  <2>4. CASE on_promise(d)
    <3> DEFINE n == d.dst
               max == IF d.t > best[n].t THEN [t |-> d.t, value |-> d.value] ELSE best[n]
    <3>1. max \in [t : Nat, value : Value \cup {Empty}]
      BY <2>2 DEF TypeOK
    <3>2. max.value \in Value \cup {Empty}
      BY <3>1
    <3>3. Adopted(n, max) \in Value \cup {Empty}
      BY <3>2, <2>2 DEF Adopted, TypeOK
    <3>4. Flagged(n, d.src) \in SUBSET Node /\ t_try[n] \in Nat
      BY <2>2 DEF Flagged, TypeOK
    <3>5. o_list' = [m \in Node |-> o_list'[m]] /\ \A m \in Node : IsBagOf(o_list'[m], Request)
      <4>1. CASE o_list' = Queued(n, Flagged(n, d.src), 3, t_try[n])
        BY <4>1, <3>4, <2>2, QueuedFacts
      <4>2. CASE o_list' = o_list
        BY <4>2 DEF TypeOK
      <4> QED
        BY <2>4, <4>1, <4>2 DEF on_promise, paxos_propose
    <3>6. value_try' \in [Node -> Value \cup {Empty}]
      BY <2>4, <3>3 DEF on_promise, paxos_propose, TypeOK
    <3>7. best' \in [Node -> [t : Nat, value : Value \cup {Empty}]]
      BY <2>4, <3>1 DEF on_promise, paxos_propose, TypeOK
    <3>8. /\ n_propose_ok' \in [Node -> Nat] /\ flags' \in [Node -> SUBSET Node]
          /\ granted' \in [Node -> SUBSET Node]
      BY <2>4, <2>2, <3>4, SMTT(30) DEF on_promise, paxos_propose, TypeOK
    <3> QED
      BY <2>4, <2>3, <3>5, <3>6, <3>7, <3>8 DEF on_promise, paxos_propose, TypeOK
  <2>5. CASE on_accepted(d)
    <3> DEFINE n == d.dst
    <3>1. o_list' = [m \in Node |-> o_list'[m]] /\ \A m \in Node : IsBagOf(o_list'[m], Request)
      <4>1. CASE o_list' = Queued(n, Peer(n), 5, t_try[n])
        <5>1. t_try[n] \in Nat /\ Peer(n) \in SUBSET Node
          BY <2>2 DEF TypeOK, Peer
        <5> QED
          BY <4>1, <5>1, <2>2, QueuedFacts
      <4>2. CASE o_list' = o_list
        BY <4>2 DEF TypeOK
      <4> QED
        BY <2>5, <4>1, <4>2 DEF on_accepted, paxos_execute
    <3>2. chosen' \subseteq [node : Node, value : Value \cup {Empty}]
      BY <2>5, <2>2, SMTT(30) DEF on_accepted, paxos_execute, TypeOK
    <3>3. n_propose_success' \in [Node -> Nat]
      BY <2>5, <2>2, SMTT(30) DEF on_accepted, paxos_execute, TypeOK
    <3> QED
      BY <2>5, <2>3, <3>1, <3>2, <3>3 DEF on_accepted, paxos_execute, TypeOK
  <2>6. CASE on_prepare(d)
    <3>1. t_store[d.dst] \in Nat /\ value_store[d.dst] \in Value \cup {Empty}
      BY <2>2 DEF TypeOK
    <3>2. /\ IsBagOf(net', Datagram)
          /\ replies' = [m \in Node |-> replies'[m]]
          /\ \A m \in Node : IsBagOf(replies'[m], Reply)
      <4>1. CASE Promises(d.dst, d)
        BY <4>1, <2>6, <2>1, <3>1, AnswerFacts DEF on_prepare
      <4>2. CASE ~ Promises(d.dst, d)
        BY <4>2, <2>6, <2>3 DEF on_prepare, TypeOK
      <4> QED
        BY <4>1, <4>2
    <3> QED
      BY <2>6, <2>2, <3>2 DEF on_prepare, TypeOK
  <2>7. CASE on_propose(d)
    <3>1. /\ IsBagOf(net', Datagram)
          /\ replies' = [m \in Node |-> replies'[m]]
          /\ \A m \in Node : IsBagOf(replies'[m], Reply)
      <4>1. CASE Accepts(d.dst, d)
        BY <4>1, <2>7, <2>1, <2>2, AnswerFacts DEF on_propose
      <4>2. CASE ~ Accepts(d.dst, d)
        BY <4>2, <2>7, <2>3 DEF on_propose, TypeOK
      <4> QED
        BY <4>1, <4>2
    <3> QED
      BY <2>7, <2>2, <3>1 DEF on_propose, TypeOK
  <2>8. CASE on_execute(d)
    BY <2>8, <2>2, <2>3 DEF on_execute, TypeOK
  <2> QED
    BY <1>4, <2>4, <2>5, <2>6, <2>7, <2>8 DEF Handle
<1>5. ASSUME NEW d \in DOMAIN net, Lose(d) \/ Duplicate(d) PROVE TypeOK'
  <2>1. d \in Datagram
    BY DEF TypeOK, IsBagOf
  <2>2. CASE Lose(d)
    BY <2>2, TakeFacts DEF Lose, TypeOK
  <2>3. CASE Duplicate(d)
    <3>1. IsBagOf(Put(net, d), Datagram)
      BY <2>1, PutFacts DEF TypeOK
    <3> QED
      BY <2>3, <3>1, SMTT(30) DEF Duplicate, TypeOK
  <2> QED
    BY <1>5, <2>2, <2>3
<1>6. ASSUME NEW n \in Node, Stop(n) PROVE TypeOK'
  BY <1>6 DEF Stop, TypeOK
<1>7. CASE UNCHANGED vars
  BY <1>7 DEF vars, TypeOK
<1> QED
  BY <1>1, <1>2, <1>3, <1>4, <1>5, <1>6, <1>7 DEF Next, Send

\* The state always has its type: no counter leaves Nat, and every datagram
\* and queued message names real nodes.
THEOREM TypeCorrect == Spec => []TypeOK
BY TypeInit, TypeNext, PTL DEF Spec

-----------------------------------------------------------------------------
\* Which rounds a queued message, a datagram or a vote can name, and that no
\* node ever addresses itself.
QueueRounds ==
    \A n \in Node : \A r \in DOMAIN o_list[n] : r.dst # n /\ 0 < r.t /\ r.t <= t_try[n]
ReplyRounds ==
    \A n \in Node : \A r \in DOMAIN replies[n] : r.dst # n /\ t_try[r.dst] > 0
NetRounds ==
    \A d \in DOMAIN net :
        /\ d.src # d.dst
        /\ d.flag \in {1, 3, 5} => 0 < d.t /\ d.t <= t_try[d.src]
        /\ d.flag \in {2, 4} => t_try[d.dst] > 0
RoundInv ==
    /\ QueueRounds
    /\ ReplyRounds
    /\ NetRounds
    /\ \A n \in Node : n \notin flags[n]
    /\ RoundsWereStarted

\* At the start no datagram names a round.
LEMMA RoundInit == Init => RoundInv
BY NoMessageFacts, SMTT(30)
   DEF Init, RoundInv, QueueRounds, ReplyRounds, NetRounds, RoundsWereStarted

\* Every step keeps the rounds that a datagram can name.
LEMMA RoundNext == TypeOK /\ TypeOK' /\ RoundInv /\ [Next]_vars => RoundInv'
<1> SUFFICES ASSUME TypeOK, TypeOK', RoundInv, [Next]_vars PROVE RoundInv'
  OBVIOUS
<1> USE DEF proposerVars, acceptorVars
<1>1. ASSUME NEW n \in Node, NEW v \in Value, paxos_echo(n, v) PROVE RoundInv'
  <2>1. /\ t_try'[n] = t_try[n] + 1 /\ t_try[n] \in Nat
        /\ \A m \in Node : t_try[m] \in Nat /\ (m # n => t_try'[m] = t_try[m])
    BY <1>1 DEF paxos_echo, paxos_prepare, NextTry, TypeOK
  <2>2. \A m \in Node : t_try[m] <= t_try'[m] /\ t_try[m] \in Nat /\ t_try'[m] \in Nat
    BY <2>1, SMTT(30)
  <2>3. QueueRounds'
    <3>1. o_list' = Queued(n, Peer(n), 1, t_try[n] + 1)
      BY <1>1 DEF paxos_echo, paxos_prepare, NextTry
    <3>2. OnlyQueues(n, Peer(n), 1, t_try[n] + 1)
      <4>1. Peer(n) \in SUBSET Node /\ t_try[n] + 1 \in Nat
        BY <2>1, SMTT(30) DEF Peer
      <4> QED
        BY <4>1, <3>1, QueuedFacts
    <3>3. \A m \in Node : \A r \in DOMAIN o_list[m] : r.t \in Nat
      BY DEF TypeOK, IsBagOf, Request
    <3> QED
      BY <2>1, <2>2, <3>2, <3>3, SMTT(30) DEF RoundInv, QueueRounds, Peer, OnlyQueues
  <2>4. ReplyRounds'
    <3>1. \A m \in Node : \A x \in DOMAIN replies'[m] : x \in DOMAIN replies[m]
      BY <1>1, NoMessageFacts DEF paxos_echo, paxos_prepare, TypeOK
    <3>2. \A m \in Node : \A r \in DOMAIN replies[m] : r.dst \in Node
      BY SMTT(30) DEF TypeOK, IsBagOf, Reply
    <3> QED
      BY <2>2, <3>1, <3>2, SMTT(30) DEF RoundInv, ReplyRounds
  <2>5. NetRounds'
    <3>1. \A d \in DOMAIN net : d.src \in Node /\ d.dst \in Node /\ d.t \in Nat
      BY DEF TypeOK, IsBagOf, Datagram
    <3> QED
      BY <1>1, <2>2, <3>1, SMTT(30) DEF paxos_echo, paxos_prepare, RoundInv, NetRounds
  <2>6. RoundsWereStarted'
    <3>1. /\ \A a \in Node : t_max[a] \in Nat /\ t_store[a] \in Nat /\ t_store'[a] <= t_store[a]
          /\ t_max' = t_max /\ \A a \in Node : t_store'[a] \in Nat
      BY <1>1, SMTT(30) DEF paxos_echo, paxos_prepare, TypeOK
    <3> QED
      BY <2>2, <3>1, SMTT(30) DEF RoundInv, RoundsWereStarted, Peer
  <2> QED
    BY <1>1, <2>3, <2>4, <2>5, <2>6 DEF RoundInv, paxos_echo, paxos_prepare
<1>2. ASSUME NEW n \in Node, NEW r \in DOMAIN o_list[n], epoll_before_wait(n, r)
      PROVE  RoundInv'
  <2> DEFINE e == [flag |-> r.flag, src |-> n, dst |-> r.dst, t |-> r.t, value |-> value_try[n]]
  <2>1. r \in Request /\ r \in DOMAIN o_list[n]
    BY DEF TypeOK, IsBagOf
  <2>2. e \in Datagram
    BY <2>1, SMTT(30) DEF Request, Datagram, TypeOK
  <2>3. \A x \in DOMAIN net' : x \in DOMAIN net \/ x = e
    BY <1>2, <2>2, PutFacts, SMTT(30) DEF epoll_before_wait, TypeOK
  <2>4. NetRounds'
    BY <1>2, <2>1, <2>3, SMTT(30) DEF epoll_before_wait, RoundInv, NetRounds, QueueRounds, Request
  <2>5. \A m \in Node : \A x \in DOMAIN o_list'[m] : x \in DOMAIN o_list[m]
    BY <1>2, TakeFacts DEF epoll_before_wait, TypeOK
  <2>6. QueueRounds'
    BY <1>2, <2>5 DEF epoll_before_wait, RoundInv, QueueRounds
  <2> QED
    BY <1>2, <2>4, <2>6 DEF epoll_before_wait, RoundInv, ReplyRounds, RoundsWereStarted
<1>3. ASSUME NEW n \in Node, NEW r \in DOMAIN replies[n], paxos_ctx_write(n, r)
      PROVE  RoundInv'
  <2> DEFINE e == [flag |-> r.flag, src |-> n, dst |-> r.dst, t |-> r.t,
                   value |-> IF r.held THEN value_store[n] ELSE Empty]
  <2>1. r \in Reply /\ r \in DOMAIN replies[n]
    BY DEF TypeOK, IsBagOf
  <2>2. e \in Datagram
    BY <2>1, SMTT(30) DEF Reply, Datagram, TypeOK
  <2>3. \A x \in DOMAIN net' : x \in DOMAIN net \/ x = e
    BY <1>3, <2>2, PutFacts, SMTT(30) DEF paxos_ctx_write, TypeOK
  <2>4. NetRounds'
    BY <1>3, <2>1, <2>3, SMTT(30) DEF paxos_ctx_write, RoundInv, NetRounds, ReplyRounds, Reply
  <2>5. \A m \in Node : \A x \in DOMAIN replies'[m] : x \in DOMAIN replies[m]
    BY <1>3, NoMessageFacts DEF paxos_ctx_write, TypeOK
  <2>6. ReplyRounds'
    BY <1>3, <2>5 DEF paxos_ctx_write, RoundInv, ReplyRounds
  <2> QED
    BY <1>3, <2>4, <2>6 DEF paxos_ctx_write, RoundInv, QueueRounds, RoundsWereStarted
<1>4. ASSUME NEW d \in DOMAIN net, Handle(d) PROVE RoundInv'
  <2>1. d \in DOMAIN net /\ d \in Datagram
    BY DEF TypeOK, IsBagOf
  <2>2. d.src \in Node /\ d.dst \in Node /\ d.t \in Nat /\ d.value \in Value \cup {Empty}
    BY <2>1 DEF Datagram
  <2>3. d.src # d.dst /\ \A m \in Node : t_try[m] \in Nat
    BY <2>1 DEF RoundInv, NetRounds, TypeOK
  <2>4. \A x \in DOMAIN Take(net, d) : x \in DOMAIN net
    BY TakeFacts DEF TypeOK
  <2>5. CASE on_promise(d)
    <3> DEFINE n == d.dst
    <3>1. t_try[n] > 0
      BY <2>5, <2>1 DEF on_promise, paxos_propose, RoundInv, NetRounds
    <3>2. \A m \in Node : m \notin flags'[m]
      BY <2>5, <2>2, <2>3, SMTT(30) DEF on_promise, paxos_propose, Flagged, RoundInv, TypeOK
    <3>3. QueueRounds'
      <4>1. CASE o_list' = Queued(n, Flagged(n, d.src), 3, t_try[n])
        <5>1. /\ Flagged(n, d.src) \in SUBSET Node /\ n \notin Flagged(n, d.src)
              /\ n \in Node /\ t_try[n] \in Nat
          BY <2>2, <2>3 DEF Flagged, RoundInv, TypeOK
        <5>2. OnlyQueues(n, Flagged(n, d.src), 3, t_try[n])
          BY <4>1, <5>1, QueuedFacts
        <5> QED
          BY <5>1, <5>2, <3>1, <2>2, <2>3, <2>5, SMTT(30)
             DEF on_promise, paxos_propose, RoundInv, QueueRounds, OnlyQueues
      <4>2. CASE o_list' = o_list
        BY <4>2, <2>5 DEF on_promise, paxos_propose, RoundInv, QueueRounds
      <4> QED
        BY <2>5, <4>1, <4>2 DEF on_promise, paxos_propose
    <3>4. NetRounds'
      BY <2>5, <2>4 DEF on_promise, paxos_propose, RoundInv, NetRounds
    <3> QED
      BY <2>5, <3>2, <3>3, <3>4
         DEF on_promise, paxos_propose, RoundInv, ReplyRounds, RoundsWereStarted
  <2>6. CASE on_accepted(d)
    <3> DEFINE n == d.dst
    <3>1. t_try[n] > 0
      BY <2>6, <2>1 DEF on_accepted, paxos_execute, RoundInv, NetRounds
    <3>2. QueueRounds'
      <4>1. CASE o_list' = Queued(n, Peer(n), 5, t_try[n])
        <5>1. Peer(n) \in SUBSET Node /\ n \notin Peer(n) /\ n \in Node /\ t_try[n] \in Nat
          BY <2>2, <2>3 DEF Peer
        <5>2. OnlyQueues(n, Peer(n), 5, t_try[n])
          BY <4>1, <5>1, QueuedFacts
        <5> QED
          BY <5>1, <5>2, <3>1, <2>2, <2>3, <2>6, SMTT(30)
             DEF on_accepted, paxos_execute, RoundInv, QueueRounds, OnlyQueues
      <4>2. CASE o_list' = o_list
        BY <4>2, <2>6 DEF on_accepted, paxos_execute, RoundInv, QueueRounds
      <4> QED
        BY <2>6, <4>1, <4>2 DEF on_accepted, paxos_execute
    <3>3. NetRounds'
      BY <2>6, <2>4 DEF on_accepted, paxos_execute, RoundInv, NetRounds
    <3> QED
      BY <2>6, <3>2, <3>3
         DEF on_accepted, paxos_execute, RoundInv, ReplyRounds, RoundsWereStarted
  <2>7. CASE \/ on_prepare(d) \/ on_propose(d)
    <3> DEFINE a == d.dst
    <3>1. d.flag \in {1, 3} /\ t_try[d.src] > 0 /\ 0 < d.t /\ d.t <= t_try[d.src]
      BY <2>7, <2>1, <2>2, <2>3, SMTT(30) DEF on_prepare, on_propose, RoundInv, NetRounds
    <3>2. /\ t_try' = t_try /\ o_list' = o_list /\ flags' = flags
      BY <2>7 DEF on_prepare, on_propose
    <3>3. ASSUME NEW flag \in {2, 4}, NEW t \in Nat, NEW value \in Value \cup {Empty},
                 Answer(d, flag, t, value)
          PROVE  NetRounds' /\ ReplyRounds'
      <4>1. OnlyAnswers(d, flag, t, value)
        BY <3>3, <2>1, AnswerAdds
      <4> QED
        BY <4>1, <3>1, <3>2, <2>3, SMTT(30) DEF OnlyAnswers, RoundInv, NetRounds, ReplyRounds
    <3>4. CASE on_prepare(d)
      <4>1. t_store[a] \in Nat /\ t_max[a] \in Nat /\ value_store[a] \in Value \cup {Empty}
        BY <2>2 DEF TypeOK
      <4>2. NetRounds' /\ ReplyRounds'
        BY <3>4, <4>1, <3>3, <3>2, <2>4 DEF on_prepare, RoundInv, NetRounds, ReplyRounds
      <4>3. RoundsWereStarted'
        <5>1. /\ t_store' = t_store /\ \A m \in Node : t_max[m] \in Nat /\ t_store[m] \in Nat
              /\ \A m \in Node : m # a => t_max'[m] = t_max[m]
              /\ t_max'[a] = t_max[a] \/ (t_max'[a] = d.t /\ d.t > t_max[a])
          BY <3>4, <2>2 DEF on_prepare, Promises, TypeOK
        <5> QED
          BY <5>1, <3>1, <3>2, <2>2, <2>3, SMTT(30) DEF RoundInv, RoundsWereStarted, Peer
      <4> QED
        BY <3>2, <4>2, <4>3 DEF RoundInv, QueueRounds
    <3>5. CASE on_propose(d)
      <4>1. NetRounds' /\ ReplyRounds'
        BY <3>5, <2>2, <3>3, <3>2, <2>4 DEF on_propose, RoundInv, NetRounds, ReplyRounds
      <4>2. RoundsWereStarted'
        <5>1. /\ t_max' = t_max /\ \A m \in Node : t_max[m] \in Nat /\ t_store[m] \in Nat
              /\ \A m \in Node : t_store'[m] = t_store[m] \/ t_store'[m] = t_max[m]
          BY <3>5, <2>2, SMTT(30) DEF on_propose, Accepts, TypeOK
        <5> QED
          BY <5>1, <3>2, SMTT(30) DEF RoundInv, RoundsWereStarted
      <4> QED
        BY <3>2, <4>1, <4>2 DEF RoundInv, QueueRounds
    <3> QED
      BY <2>7, <3>4, <3>5
  <2>8. CASE on_execute(d)
    BY <2>8, <2>4
       DEF on_execute, RoundInv, QueueRounds, ReplyRounds, NetRounds, RoundsWereStarted
  <2> QED
    BY <1>4, <2>5, <2>6, <2>7, <2>8 DEF Handle
<1>5. ASSUME NEW d \in DOMAIN net, Lose(d) \/ Duplicate(d) PROVE RoundInv'
  <2>1. d \in DOMAIN net /\ d \in Datagram
    BY DEF TypeOK, IsBagOf
  <2>2. /\ \A x \in DOMAIN Take(net, d) : x \in DOMAIN net
        /\ \A x \in DOMAIN Put(net, d) : x \in DOMAIN net
    BY <2>1, TakeFacts, PutFacts, SMTT(30) DEF TypeOK
  <2> QED
    BY <1>5, <2>2 DEF Lose, Duplicate, RoundInv, QueueRounds, ReplyRounds,
                      NetRounds, RoundsWereStarted
<1>6. ASSUME NEW n \in Node, Stop(n) PROVE RoundInv'
  BY <1>6 DEF Stop, RoundInv, QueueRounds, ReplyRounds, NetRounds, RoundsWereStarted
<1>7. CASE UNCHANGED vars
  BY <1>7 DEF vars, RoundInv, QueueRounds, ReplyRounds, NetRounds, RoundsWereStarted
<1> QED
  BY <1>1, <1>2, <1>3, <1>4, <1>5, <1>6, <1>7 DEF Next, Send

\* A round an acceptor promised or voted in was started by another node, with
\* any number of rounds, losses, duplicates, delayed replies and stops.
THEOREM Rounds == Spec => []RoundsWereStarted
<1>1. RoundInv => RoundsWereStarted
  BY DEF RoundInv
<1> QED
  BY <1>1, TypeInit, TypeNext, RoundInit, RoundNext, PTL DEF Spec

-----------------------------------------------------------------------------
\* Where the empty value can be: only in a promise, or a queued one, that
\* reports no vote.
ReplyValues ==
    \A n \in Node : \A r \in DOMAIN replies[n] :
        IF r.held THEN value_store[n] # Empty ELSE r.flag = 2 /\ r.t = 0
NetValues ==
    \A d \in DOMAIN net : d.flag # 2 \/ d.t > 0 => d.value # Empty
ValueInv ==
    /\ \A n \in Node : t_try[n] > 0 => value_try[n] # Empty
    /\ \A n \in Node : best[n].t > 0 => best[n].value # Empty
    /\ \A n \in Node : t_store[n] > 0 => value_store[n] # Empty
    /\ ReplyValues
    /\ NetValues
    /\ \A c \in chosen : c.value # Empty

\* At the start no datagram carries a value.
LEMMA ValueInit == Init => ValueInv
BY NoMessageFacts, SMTT(30) DEF Init, ValueInv, ReplyValues, NetValues, NoPromise

\* Every step keeps the rule on which datagrams carry the empty value.
LEMMA ValueNext == TypeOK /\ RoundInv /\ ValueInv /\ [Next]_vars => ValueInv'
<1> SUFFICES ASSUME TypeOK, RoundInv, ValueInv, [Next]_vars PROVE ValueInv'
  OBVIOUS
<1> USE DEF proposerVars, acceptorVars
<1>1. ASSUME NEW n \in Node, NEW v \in Value, paxos_echo(n, v) PROVE ValueInv'
  <2>1. /\ \A m \in Node : t_try'[m] > 0 => value_try'[m] # Empty
        /\ \A m \in Node : best'[m].t > 0 => best'[m].value # Empty
        /\ \A m \in Node : t_store'[m] > 0 => value_store'[m] # Empty
    BY <1>1, ValueAssumption, SMTT(30) DEF paxos_echo, paxos_prepare, NoPromise, ValueInv, TypeOK
  <2>2. ReplyValues'
    <3>1. /\ DOMAIN replies'[n] = {}
          /\ \A m \in Node : m # n => replies'[m] = replies[m] /\ value_store'[m] = value_store[m]
      BY <1>1, NoMessageFacts DEF paxos_echo, paxos_prepare, TypeOK
    <3> QED
      BY <3>1 DEF ValueInv, ReplyValues
  <2> QED
    BY <1>1, <2>1, <2>2 DEF paxos_echo, paxos_prepare, ValueInv, NetValues
<1>2. ASSUME NEW n \in Node, NEW r \in DOMAIN o_list[n], epoll_before_wait(n, r)
      PROVE  ValueInv'
  <2> DEFINE e == [flag |-> r.flag, src |-> n, dst |-> r.dst, t |-> r.t, value |-> value_try[n]]
  <2>1. r \in Request /\ r \in DOMAIN o_list[n]
    BY DEF TypeOK, IsBagOf
  <2>2. e \in Datagram
    BY <2>1, SMTT(30) DEF Request, Datagram, TypeOK
  <2>3. \A x \in DOMAIN net' : x \in DOMAIN net \/ x = e
    BY <1>2, <2>2, PutFacts, SMTT(30) DEF epoll_before_wait, TypeOK
  <2>4. t_try[n] > 0 /\ value_try[n] # Empty
    BY <2>1, SMTT(30) DEF RoundInv, QueueRounds, ValueInv, Request, TypeOK
  <2>5. NetValues'
    BY <2>3, <2>4, SMTT(30) DEF ValueInv, NetValues
  <2> QED
    BY <1>2, <2>5 DEF epoll_before_wait, ValueInv, ReplyValues
<1>3. ASSUME NEW n \in Node, NEW r \in DOMAIN replies[n], paxos_ctx_write(n, r)
      PROVE  ValueInv'
  <2> DEFINE e == [flag |-> r.flag, src |-> n, dst |-> r.dst, t |-> r.t,
                   value |-> IF r.held THEN value_store[n] ELSE Empty]
  <2>1. r \in Reply /\ r \in DOMAIN replies[n]
    BY DEF TypeOK, IsBagOf
  <2>2. e \in Datagram
    BY <2>1, SMTT(30) DEF Reply, Datagram, TypeOK
  <2>3. \A x \in DOMAIN net' : x \in DOMAIN net \/ x = e
    BY <1>3, <2>2, PutFacts, SMTT(30) DEF paxos_ctx_write, TypeOK
  <2>4. NetValues'
    BY <2>1, <2>3, SMTT(30) DEF ValueInv, NetValues, ReplyValues
  <2>5. \A m \in Node : \A x \in DOMAIN replies'[m] : x \in DOMAIN replies[m]
    BY <1>3, NoMessageFacts DEF paxos_ctx_write, TypeOK
  <2>6. ReplyValues'
    BY <1>3, <2>5 DEF paxos_ctx_write, ValueInv, ReplyValues
  <2> QED
    BY <1>3, <2>4, <2>6 DEF paxos_ctx_write, ValueInv
<1>4. ASSUME NEW d \in DOMAIN net, Handle(d) PROVE ValueInv'
  <2>1. d \in DOMAIN net /\ d \in Datagram
    BY DEF TypeOK, IsBagOf
  <2>2. d.src \in Node /\ d.dst \in Node /\ d.t \in Nat /\ d.value \in Value \cup {Empty}
    BY <2>1 DEF Datagram
  <2>3. \A x \in DOMAIN Take(net, d) : x \in DOMAIN net
    BY TakeFacts DEF TypeOK
  <2>4. d.flag # 2 \/ d.t > 0 => d.value # Empty
    BY <2>1 DEF ValueInv, NetValues
  <2>5. CASE on_promise(d)
    <3> DEFINE n == d.dst
               max == IF d.t > best[n].t THEN [t |-> d.t, value |-> d.value] ELSE best[n]
    <3>1. max.t > 0 => max.value # Empty
      BY <2>2, <2>4 DEF ValueInv, TypeOK
    <3>2. \A m \in Node : best'[m].t > 0 => best'[m].value # Empty
      BY <2>5, <3>1 DEF on_promise, paxos_propose, ValueInv, TypeOK
    <3>3. t_try[n] > 0 /\ Adopted(n, max) # Empty
      BY <2>5, <2>1, <2>2, <3>1
         DEF on_promise, paxos_propose, RoundInv, NetRounds, ValueInv, Adopted
    <3>4. \A m \in Node : t_try'[m] > 0 => value_try'[m] # Empty
      BY <2>5, <3>3 DEF on_promise, paxos_propose, ValueInv, TypeOK
    <3>5. /\ t_store' = t_store /\ value_store' = value_store /\ replies' = replies
          /\ chosen' = chosen /\ net' = Take(net, d)
      BY <2>5 DEF on_promise, paxos_propose
    <3>6. NetValues'
      BY <3>5, <2>3 DEF ValueInv, NetValues
    <3>7. ReplyValues'
      BY <3>5 DEF ValueInv, ReplyValues
    <3> QED
      BY <3>2, <3>4, <3>5, <3>6, <3>7 DEF ValueInv
  <2>6. CASE on_accepted(d)
    <3>1. t_try[d.dst] > 0
      BY <2>6, <2>1 DEF on_accepted, RoundInv, NetRounds
    <3>2. \A c \in chosen' : c.value # Empty
      <4>1. \/ chosen' = chosen
            \/ chosen' = chosen \cup {[node |-> d.dst, value |-> value_try[d.dst]]}
        BY <2>6 DEF on_accepted
      <4>2. value_try[d.dst] # Empty
        BY <3>1, <2>2 DEF ValueInv
      <4> QED
        BY <4>1, <4>2, SMTT(30) DEF ValueInv
    <3>3. /\ t_try' = t_try /\ value_try' = value_try /\ best' = best
          /\ t_store' = t_store /\ value_store' = value_store /\ replies' = replies
          /\ net' = Take(net, d)
      BY <2>6 DEF on_accepted, paxos_execute
    <3>4. NetValues'
      BY <3>3, <2>3 DEF ValueInv, NetValues
    <3>5. ReplyValues'
      BY <3>3 DEF ValueInv, ReplyValues
    <3> QED
      BY <3>2, <3>3, <3>4, <3>5 DEF ValueInv
  <2>7. CASE on_prepare(d)
    <3> DEFINE a == d.dst
    <3>1. t_store[a] \in Nat /\ value_store[a] \in Value \cup {Empty}
      BY <2>2 DEF TypeOK
    <3>2. NetValues' /\ ReplyValues'
      <4>1. CASE Promises(a, d)
        <5>1. OnlyAnswers(d, 2, t_store[a], value_store[a])
          BY <4>1, <2>7, <2>1, <3>1, AnswerAdds DEF on_prepare
        <5>2. value_store' = value_store /\ (t_store[a] > 0 => value_store[a] # Empty)
          BY <2>7, <2>2 DEF on_prepare, ValueInv
        <5> QED
          <6>1. NetValues'
            BY <5>1, <5>2, <2>2, <3>1, SMTT(30) DEF OnlyAnswers, ValueInv, NetValues
          <6>2. ReplyValues'
            BY <5>1, <5>2, <3>1, SMTT(30) DEF OnlyAnswers, ValueInv, ReplyValues
          <6> QED
            BY <6>1, <6>2
      <4>2. CASE ~ Promises(a, d)
        BY <4>2, <2>7, <2>3 DEF on_prepare, ValueInv, NetValues, ReplyValues
      <4> QED
        BY <4>1, <4>2
    <3> QED
      BY <2>7, <3>2 DEF on_prepare, ValueInv
  <2>8. CASE on_propose(d)
    <3> DEFINE a == d.dst
    <3>1. d.value # Empty
      BY <2>8, <2>4, SMTT(30) DEF on_propose
    <3>2. \A m \in Node : value_store[m] # Empty => value_store'[m] # Empty
      BY <2>8, <3>1 DEF on_propose, TypeOK
    <3>3. \A m \in Node : t_store'[m] > 0 => value_store'[m] # Empty
      BY <2>8, <3>1 DEF on_propose, TypeOK, ValueInv
    <3>4. NetValues' /\ ReplyValues'
      <4>1. CASE Accepts(a, d)
        <5>1. OnlyAnswers(d, 4, d.t, d.value)
          BY <4>1, <2>8, <2>1, <2>2, AnswerAdds DEF on_propose
        <5>2. value_store'[a] # Empty
          BY <4>1, <2>8, <2>2, <3>1 DEF on_propose, TypeOK
        <5> QED
          <6>1. NetValues'
            BY <5>1, <2>2, <3>1, SMTT(30) DEF OnlyAnswers, ValueInv, NetValues
          <6>2. ReplyValues'
            BY <5>1, <5>2, <3>1, <3>2 DEF OnlyAnswers, ValueInv, ReplyValues
          <6> QED
            BY <6>1, <6>2
      <4>2. CASE ~ Accepts(a, d)
        BY <4>2, <2>8, <2>3 DEF on_propose, ValueInv, NetValues, ReplyValues
      <4> QED
        BY <4>1, <4>2
    <3> QED
      BY <2>8, <3>3, <3>4 DEF on_propose, ValueInv
  <2>9. CASE on_execute(d)
    <3>1. d.value # Empty
      BY <2>9, <2>4, SMTT(30) DEF on_execute
    <3>2. \A m \in Node : value_store[m] # Empty => value_store'[m] # Empty
      BY <2>9, <3>1 DEF on_execute, TypeOK
    <3>3. ReplyValues'
      BY <2>9, <3>2 DEF on_execute, ValueInv, ReplyValues
    <3> QED
      BY <2>9, <2>3, <3>2, <3>3 DEF on_execute, ValueInv, NetValues
  <2> QED
    BY <1>4, <2>5, <2>6, <2>7, <2>8, <2>9 DEF Handle
<1>5. ASSUME NEW d \in DOMAIN net, Lose(d) \/ Duplicate(d) PROVE ValueInv'
  <2>1. d \in DOMAIN net /\ d \in Datagram
    BY DEF TypeOK, IsBagOf
  <2>2. /\ \A x \in DOMAIN Take(net, d) : x \in DOMAIN net
        /\ \A x \in DOMAIN Put(net, d) : x \in DOMAIN net
    BY <2>1, TakeFacts, PutFacts, SMTT(30) DEF TypeOK
  <2> QED
    BY <1>5, <2>2 DEF Lose, Duplicate, ValueInv, NetValues, ReplyValues
<1>6. ASSUME NEW n \in Node, Stop(n) PROVE ValueInv'
  BY <1>6 DEF Stop, ValueInv, NetValues, ReplyValues
<1>7. CASE UNCHANGED vars
  BY <1>7 DEF vars, ValueInv, NetValues, ReplyValues
<1> QED
  BY <1>1, <1>2, <1>3, <1>4, <1>5, <1>6, <1>7 DEF Next, Send

\* Only what somebody echoed is ever proposed, voted for or reported chosen.
THEOREM Validity == Spec => []OnlyEchoedValues
<1>1. ValueInv => OnlyEchoedValues
  BY SMTT(30) DEF ValueInv, NetValues, OnlyEchoedValues
<1> QED
  BY <1>1, TypeInit, TypeNext, RoundInit, RoundNext, ValueInit, ValueNext, PTL DEF Spec

-----------------------------------------------------------------------------
(***************************************************************************)
(* The first round of Paxos.  Two proposers may use the same round number, *)
(* so the usual argument (one value per round) is not available.  What     *)
(* replaces it: in the first round an acceptor promises once, so its       *)
(* promise is a token that is in flight, or queued, or counted by one      *)
(* proposer, and whoever gets past phase one holds a majority of tokens.   *)
(***************************************************************************)

Quiet == FirstRound /\ dups = 0

\* The promise of acceptor a is in at most one place.
Token(a) ==
    /\ \A d \in DOMAIN net : d.flag = 2 /\ d.src = a =>
          /\ t_max[a] # 0 /\ net[d] = 1 /\ d.t = 0
          /\ \A e \in DOMAIN net : e.flag = 2 /\ e.src = a => e = d
          /\ \A r \in DOMAIN replies[a] : r.flag # 2
          /\ \A p \in Node : a \notin granted[p]
    /\ \A r \in DOMAIN replies[a] : r.flag = 2 =>
          t_max[a] # 0 /\ r.t = 0 /\ \A p \in Node : a \notin granted[p]
    /\ \A p \in Node : a \in granted[p] =>
          t_max[a] # 0 /\ \A q \in Node : a \in granted[q] => p = q
Tokens == \A a \in Node : Token(a)

\* No vote is reported to a proposer.
Unvoted == \A p \in Node : best[p].t = 0

\* Nobody goes past phase one without a majority of promises; what is chosen
\* stays the proposer's value.
NetQuorum ==
    \A d \in DOMAIN net :
        /\ d.flag \in {3, 5} => Majority(n_propose_ok[d.src])
        /\ d.flag = 4 => Majority(n_propose_ok[d.dst])
QueueQuorum ==
    /\ \A n \in Node : \A r \in DOMAIN o_list[n] :
          r.flag \in {3, 5} => Majority(n_propose_ok[n])
    /\ \A n \in Node : \A r \in DOMAIN replies[n] :
          r.flag = 4 => Majority(n_propose_ok[r.dst])
ChosenQuorum ==
    \A c \in chosen :
        /\ t_try[c.node] > 0
        /\ Majority(n_propose_ok[c.node])
        /\ c.value = value_try[c.node]

\* Rounds and duplicates are only ever counted up.
LEMMA QuietBefore == TypeOK /\ [Next]_vars /\ Quiet' => Quiet
<1> SUFFICES ASSUME TypeOK, [Next]_vars, Quiet' PROVE Quiet
  OBVIOUS
<1> USE DEF proposerVars, acceptorVars
<1>1. (\A n \in Node : t_try[n] <= t_try'[n]) /\ dups <= dups' /\ dups \in Nat
  <2>1. ASSUME NEW n \in Node, NEW v \in Value, paxos_echo(n, v) 
        PROVE  (\A m \in Node : t_try[m] <= t_try'[m]) /\ dups' = dups
    BY <2>1, SMTT(30) DEF paxos_echo, paxos_prepare, NextTry, TypeOK
  <2>2. ASSUME NEW n \in Node, Send(n) PROVE t_try' = t_try /\ dups' = dups
    BY <2>2 DEF Send, epoll_before_wait, paxos_ctx_write
  <2>3. ASSUME NEW d \in DOMAIN net, Handle(d) PROVE t_try' = t_try /\ dups' = dups
    BY <2>3
       DEF Handle, on_promise, paxos_propose, on_accepted, paxos_execute, on_prepare, on_propose, on_execute
  <2>4. ASSUME NEW d \in DOMAIN net, Lose(d) \/ Duplicate(d)
        PROVE  t_try' = t_try /\ dups' \in {dups, dups + 1}
    BY <2>4 DEF Lose, Duplicate
  <2>5. ASSUME NEW n \in Node, Stop(n) PROVE t_try' = t_try /\ dups' = dups
    BY <2>5 DEF Stop
  <2>6. CASE UNCHANGED vars
    BY <2>6, SMTT(30) DEF vars, TypeOK
  <2>7. dups \in Nat /\ \A n \in Node : t_try[n] \in Nat
    BY DEF TypeOK
  <2> QED
    BY <2>1, <2>2, <2>3, <2>4, <2>5, <2>6, <2>7, SMTT(30) DEF Next
<1>2. dups' = 0 /\ \A n \in Node : t_try'[n] <= 1 /\ t_try[n] \in Nat /\ t_try'[n] \in Nat
  <2>1. TypeOK'
    BY TypeNext
  <2> QED
    BY <2>1 DEF Quiet, FirstRound, TypeOK
<1> QED
  BY <1>1, <1>2, SMTT(30) DEF Quiet, FirstRound

-----------------------------------------------------------------------------
\* The promises in flight after the step were there before.
SamePromises == \A x \in DOMAIN net' : x.flag = 2 => x \in DOMAIN net /\ net'[x] = net[x]

\* A step that creates no promise and counts none keeps the tokens apart.
LEMMA TokensKept ==
    ASSUME Tokens, SamePromises,
           \A m \in Node : \A x \in DOMAIN replies'[m] : x.flag = 2 => x \in DOMAIN replies[m],
           \A p, a \in Node : a \in granted'[p] => a \in granted[p],
           \A a \in Node : t_max[a] # 0 => t_max'[a] # 0
    PROVE  Tokens'
BY SMTT(30) DEF Tokens, Token, SamePromises

\* Taking a datagram out of the network leaves the other promises alone.
LEMMA TakeKeeps ==
    ASSUME TypeOK, Tokens, NEW d \in DOMAIN net, net' = Take(net, d)
    PROVE  SamePromises /\ (d.flag = 2 => d \notin DOMAIN net')
<1>1. IsBagOf(net, Datagram) /\ d.src \in Node
  BY DEF TypeOK, IsBagOf, Datagram
<1>2. d.flag = 2 => net[d] = 1
  BY <1>1 DEF Tokens, Token
<1>3. /\ \A x \in DOMAIN net' : x \in DOMAIN net
      /\ \A x \in DOMAIN net' : x # d => net'[x] = net[x]
      /\ net[d] = 1 => d \notin DOMAIN net'
  BY <1>1, TakeFacts
<1> QED
  BY <1>2, <1>3 DEF SamePromises

\* So does adding a datagram that is no promise.
LEMMA PutKeeps ==
    ASSUME TypeOK, NEW B, IsBagOf(B, Datagram), NEW e \in Datagram, e.flag # 2,
           net' = Put(B, e),
           \A x \in DOMAIN B : x.flag = 2 => x \in DOMAIN net /\ B[x] = net[x]
    PROVE  SamePromises
<1>1. /\ \A x \in DOMAIN net' : x \in DOMAIN B \/ x = e
      /\ \A x \in DOMAIN B : x # e => net'[x] = B[x]
  BY PutFacts, SMTT(30)
<1> QED
  BY <1>1 DEF SamePromises

\* A step that puts the promise of acceptor a, which nobody has counted, in
\* the network or in a's queue, and leaves the other promises alone.
LEMMA TokenPlaced ==
    ASSUME Tokens, NEW a \in Node, t_max'[a] # 0, granted' = granted,
           \A p \in Node : a \notin granted[p],
           \A b \in Node : b # a => t_max'[b] = t_max[b],
           \A x \in DOMAIN net' : x.flag = 2 /\ x.src # a => x \in DOMAIN net /\ net'[x] = net[x],
           \A b \in Node : b # a => \A r \in DOMAIN replies'[b] :
               r.flag = 2 => r \in DOMAIN replies[b],
           \/ /\ \A r \in DOMAIN replies'[a] : r.flag # 2
              /\ \E e : \A x \in DOMAIN net' : x.flag = 2 /\ x.src = a =>
                    x = e /\ net'[x] = 1 /\ x.t = 0
           \/ /\ \A r \in DOMAIN replies'[a] : r.flag = 2 => r.t = 0
              /\ \A x \in DOMAIN net' : ~ (x.flag = 2 /\ x.src = a)
    PROVE  Tokens'
<1>1. Token(a)'
  BY SMTT(30) DEF Token
<1>2. ASSUME NEW b \in Node, b # a PROVE Token(b)'
  BY <1>2, SMTT(30) DEF Tokens, Token
<1> QED
  BY <1>1, <1>2 DEF Tokens

\* In the first round, without duplicates, no step makes a second token of a promise.
LEMMA TokensNext ==
    ASSUME TypeOK, RoundInv, Quiet, Tokens, Unvoted, [Next]_vars, Quiet'
    PROVE  Tokens' /\ Unvoted'
<1> USE DEF proposerVars, acceptorVars
<1>0. IsBagOf(net, Datagram)
  BY DEF TypeOK
<1>1. ASSUME NEW n \in Node, NEW v \in Value, paxos_echo(n, v) PROVE Tokens' /\ Unvoted'
  <2>1. /\ granted'[n] = {} /\ best'[n].t = 0
        /\ \A m \in Node : m # n => granted'[m] = granted[m] /\ best'[m] = best[m]
    BY <1>1 DEF paxos_echo, paxos_prepare, TypeOK, NoPromise
  <2>2. \A m \in Node : \A x \in DOMAIN replies'[m] : x \in DOMAIN replies[m]
    BY <1>1, NoMessageFacts DEF paxos_echo, paxos_prepare, TypeOK
  <2>3. SamePromises /\ t_max' = t_max
    BY <1>1 DEF paxos_echo, paxos_prepare, SamePromises
  <2>4. Tokens'
    BY <2>1, <2>2, <2>3, TokensKept
  <2>5. Unvoted'
    BY <2>1 DEF Unvoted
  <2> QED
    BY <2>4, <2>5
<1>2. ASSUME NEW n \in Node, NEW r \in DOMAIN o_list[n], epoll_before_wait(n, r)
      PROVE  Tokens' /\ Unvoted'
  <2> DEFINE e == [flag |-> r.flag, src |-> n, dst |-> r.dst, t |-> r.t, value |-> value_try[n]]
  <2>1. r \in Request
    BY DEF TypeOK, IsBagOf
  <2>2. e \in Datagram /\ e.flag # 2
    BY <2>1, SMTT(30) DEF Request, Datagram, TypeOK
  <2>3. net' = Put(net, e)
    BY <1>2 DEF epoll_before_wait
  <2>4. SamePromises
    BY <2>2, <2>3, <1>0, PutKeeps
  <2> QED
    BY <1>2, <2>4, TokensKept DEF epoll_before_wait, Unvoted
<1>3. ASSUME NEW n \in Node, NEW r \in DOMAIN replies[n], paxos_ctx_write(n, r)
      PROVE  Tokens' /\ Unvoted'
  <2> DEFINE e == [flag |-> r.flag, src |-> n, dst |-> r.dst, t |-> r.t,
                   value |-> IF r.held THEN value_store[n] ELSE Empty]
  <2>1. r \in Reply /\ r \in DOMAIN replies[n]
    BY DEF TypeOK, IsBagOf
  <2>2. e \in Datagram
    BY <2>1, SMTT(30) DEF Reply, Datagram, TypeOK
  <2>3. net' = Put(net, e) /\ t_max' = t_max /\ granted' = granted
    BY <1>3 DEF paxos_ctx_write
  <2>4. DOMAIN replies'[n] = {} /\ \A m \in Node : m # n => replies'[m] = replies[m]
    BY <1>3, NoMessageFacts DEF paxos_ctx_write, TypeOK
  <2>5. CASE r.flag # 2
    <3>1. SamePromises
      BY <2>5, <2>2, <2>3, <1>0, PutKeeps
    <3> QED
      BY <1>3, <2>4, <3>1, TokensKept DEF paxos_ctx_write, Unvoted
  <2>6. CASE r.flag = 2
    <3>1. /\ t_max[n] # 0 /\ r.t = 0 /\ \A p \in Node : n \notin granted[p]
          /\ \A x \in DOMAIN net : ~ (x.flag = 2 /\ x.src = n)
      BY <2>6, <2>1 DEF Tokens, Token
    <3>2. e.flag = 2 /\ e.src = n /\ e.t = 0 /\ e \notin DOMAIN net
      BY <2>6, <3>1
    <3>3. /\ \A x \in DOMAIN net' : x \in DOMAIN net \/ x = e
          /\ \A x \in DOMAIN net : x # e => net'[x] = net[x]
          /\ net'[e] = 1
      BY <2>2, <2>3, <3>2, <1>0, PutFacts, SMTT(30)
    <3> HIDE DEF e
    <3>4. Tokens'
      BY <2>3, <2>4, <3>1, <3>2, <3>3, TokenPlaced, SMTT(30)
    <3> QED
      BY <1>3, <3>4 DEF paxos_ctx_write, Unvoted
  <2> QED
    BY <2>5, <2>6
<1>4. ASSUME NEW d \in DOMAIN net, Handle(d) PROVE Tokens' /\ Unvoted'
  <2>1. d \in DOMAIN net /\ d \in Datagram
    BY DEF TypeOK, IsBagOf
  <2>2. /\ d.src \in Node /\ d.dst \in Node /\ d.t \in Nat
        /\ d.value \in Value \cup {Empty}
    BY <2>1 DEF Datagram
  <2>3. /\ IsBagOf(Take(net, d), Datagram)
        /\ \A x \in DOMAIN Take(net, d) :
              x \in DOMAIN net /\ (x # d => Take(net, d)[x] = net[x])
    BY <1>0, TakeFacts
  <2>4. CASE on_promise(d)
    <3> DEFINE n == d.dst
               a == d.src
    <3>1. /\ d.t = 0 /\ \A p \in Node : a \notin granted[p]
          /\ t_max[a] # 0
          /\ \A e \in DOMAIN net : e.flag = 2 /\ e.src = a => e = d
          /\ \A r \in DOMAIN replies[a] : r.flag # 2
      BY <2>4, <2>1, <2>2, SMTT(30) DEF on_promise, paxos_propose, Tokens, Token
    <3>2. SamePromises /\ d \notin DOMAIN net'
      BY <2>4, <2>1, TakeKeeps DEF on_promise, paxos_propose
    <3>3. /\ granted' = [granted EXCEPT ![n] = @ \cup {a}]
          /\ replies' = replies /\ t_max' = t_max
      BY <2>4 DEF on_promise, paxos_propose
    <3>5. \A p \in Node : best'[p].t = 0
      BY <2>4, <3>1, <2>2 DEF on_promise, paxos_propose, Unvoted, TypeOK
    <3>6. /\ \A p, b \in Node : b \in granted'[p] => b \in granted[p] \/ (b = a /\ p = n)
      BY <3>3, <2>2 DEF TypeOK
    <3>7. Token(a)'
      BY <3>1, <3>2, <3>3, <3>6, <2>2 DEF Token, SamePromises
    <3>8. ASSUME NEW b \in Node, b # a PROVE Token(b)'
      BY <3>8, <3>2, <3>3, <3>6, SMTT(30) DEF Tokens, Token, SamePromises
    <3> QED
      BY <3>5, <3>7, <3>8, <2>2 DEF Unvoted, Tokens
  <2>5. CASE on_accepted(d)
    <3>1. SamePromises
      BY <2>5, <2>1, TakeKeeps DEF on_accepted, paxos_execute
    <3> QED
      BY <2>5, <3>1, TokensKept DEF on_accepted, paxos_execute, Unvoted
  <2>6. CASE on_prepare(d)
    <3> DEFINE a == d.dst
               e == [flag |-> 2, src |-> a, dst |-> d.src, t |-> t_store[a],
                     value |-> value_store[a]]
               r == [dst |-> d.src, flag |-> 2, t |-> t_store[a],
                     held |-> value_store[a] # Empty]
    <3>1. Unvoted' /\ granted' = granted
      BY <2>6 DEF on_prepare, Unvoted
    <3>2. CASE ~ Promises(a, d)
      <4>1. net' = Take(net, d) /\ t_max' = t_max /\ replies' = replies
        BY <2>6, <3>2 DEF on_prepare
      <4>2. SamePromises
        BY <4>1, <2>1, TakeKeeps
      <4> QED
        BY <3>1, <4>1, <4>2, TokensKept
    <3>3. CASE Promises(a, d)
      <4>1. /\ t_max[a] = 0 /\ t_store[a] = 0 /\ d.t # 0
        BY <3>3, <2>6, <2>1, <2>2, SMTT(30)
           DEF Promises, on_prepare, RoundInv, NetRounds, RoundsWereStarted, Quiet,
               FirstRound, TypeOK
      <4>2. /\ \A x \in DOMAIN net : ~ (x.flag = 2 /\ x.src = a)
            /\ \A x \in DOMAIN replies[a] : x.flag # 2
            /\ \A p \in Node : a \notin granted[p]
        BY <4>1, <2>2 DEF Tokens, Token
      <4>3. t_max'[a] # 0 /\ \A b \in Node : b # a => t_max'[b] = t_max[b]
        BY <3>3, <2>6, <2>2, <4>1 DEF on_prepare, TypeOK
      <4>4. Answer(d, 2, t_store[a], value_store[a]) /\ d.flag = 1
        BY <3>3, <2>6 DEF on_prepare
      <4>5. e \in Datagram /\ r \in Reply /\ IsBagOf(replies[a], Reply)
        <5>1. t_store[a] \in Nat /\ value_store[a] \in Value \cup {Empty}
          BY <2>2 DEF TypeOK
        <5>2. e \in Datagram
          BY <2>2, <5>1, SMTT(30) DEF Datagram
        <5>3. r \in Reply
          BY <2>2, <5>1 DEF Reply
        <5> QED
          BY <2>2, <5>2, <5>3 DEF TypeOK
      <4>6. e.flag = 2 /\ e.src = a /\ e.t = 0 /\ r.t = 0
        BY <4>1
      <4>7. CASE net' = Put(Take(net, d), e) /\ replies' = replies
        <5> HIDE DEF e, r
        <5>1. e \notin DOMAIN Take(net, d)
          BY <4>2, <4>6, <2>3
        <5>2. /\ \A x \in DOMAIN net' : x \in DOMAIN Take(net, d) \/ x = e
              /\ \A x \in DOMAIN Take(net, d) : x # e => net'[x] = Take(net, d)[x]
              /\ net'[e] = 1
          BY <4>7, <4>5, <5>1, <2>3, PutFacts, SMTT(30)
        <5>3. \A x \in DOMAIN net' :
                  x.flag = 2 /\ x.src # a => x \in DOMAIN net /\ net'[x] = net[x]
          BY <5>2, <4>2, <4>4, <4>6, <2>3, SMTT(30)
        <5>4. \A x \in DOMAIN net' : x.flag = 2 /\ x.src = a => x = e /\ net'[x] = 1 /\ x.t = 0
          BY <5>2, <4>2, <4>4, <4>6, <2>3
        <5>5. \E y : \A x \in DOMAIN net' : x.flag = 2 /\ x.src = a =>
                  x = y /\ net'[x] = 1 /\ x.t = 0
          BY <5>4, SMTT(30)
        <5>6. \A x \in DOMAIN replies'[a] : x.flag # 2
          BY <4>2, <4>7
        <5>7. Tokens'
          BY <5>3, <5>5, <5>6, <4>2, <4>3, <4>7, <3>1, <2>2, TokenPlaced
        <5> QED
          BY <3>1, <5>7
      <4>8. CASE /\ net' = Take(net, d)
                 /\ replies'[a] = Put(replies[a], r)
                 /\ \A m \in Node : m # a => replies'[m] = replies[m]
        <5> HIDE DEF e, r
        <5>1. \A x \in DOMAIN replies'[a] : x \in DOMAIN replies[a] \/ x = r
          BY <4>8, <4>5, PutFacts, SMTT(30)
        <5>2. \A x \in DOMAIN net' : /\ ~ (x.flag = 2 /\ x.src = a)
                                     /\ x.flag = 2 => x \in DOMAIN net /\ net'[x] = net[x]
          BY <4>8, <4>2, <4>4, <2>3, SMTT(30)
        <5>3. \A x \in DOMAIN replies'[a] : x.flag = 2 => x.t = 0
          BY <5>1, <4>2, <4>6
        <5>4. Tokens'
          BY <5>2, <5>3, <4>2, <4>3, <4>8, <3>1, <2>2, TokenPlaced, SMTT(30)
        <5> QED
          BY <3>1, <5>4
      <4>9. t_store[a] \in Nat /\ value_store[a] \in Value \cup {Empty}
        BY <2>2 DEF TypeOK
      <4> QED
        BY <4>4, <4>7, <4>8, <4>9, <2>1, AnswerFacts
    <3> QED
      BY <3>2, <3>3
  <2>7. CASE on_propose(d)
    <3> DEFINE a == d.dst
    <3>1. d.flag = 3 /\ granted' = granted /\ t_max' = t_max /\ Unvoted'
      BY <2>7 DEF on_propose, Unvoted
    <3>2. CASE ~ Accepts(a, d)
      <4>1. net' = Take(net, d) /\ replies' = replies
        BY <2>7, <3>2 DEF on_propose
      <4>2. SamePromises
        BY <4>1, <2>1, TakeKeeps
      <4> QED
        BY <3>1, <4>1, <4>2, TokensKept
    <3>3. CASE Accepts(a, d)
      <4>1. Answer(d, 4, d.t, d.value)
        BY <2>7, <3>3 DEF on_propose
      <4>2. OnlyAnswers(d, 4, d.t, d.value)
        BY <4>1, <2>1, <2>2, AnswerAdds
      <4>3. \A m \in Node : \A x \in DOMAIN replies'[m] : x.flag = 2 => x \in DOMAIN replies[m]
        BY <4>2, SMTT(30) DEF OnlyAnswers
      <4>4. SamePromises
        <5> DEFINE e == [flag |-> 4, src |-> a, dst |-> d.src, t |-> d.t, value |-> d.value]
        <5>1. e \in Datagram /\ e.flag # 2
          BY <2>2, SMTT(30) DEF Datagram
        <5>2. CASE net' = Take(net, d)
          BY <5>2, <2>1, TakeKeeps
        <5>3. CASE net' = Put(Take(net, d), e)
          <6> HIDE DEF e
          <6>1. \A x \in DOMAIN Take(net, d) :
                   x.flag = 2 => x \in DOMAIN net /\ Take(net, d)[x] = net[x]
            BY <2>3, <3>1, SMTT(30)
          <6> QED
            BY <5>1, <5>3, <6>1, <2>3, PutKeeps
        <5> QED
          BY <4>1, <5>2, <5>3 DEF Answer
      <4> QED
        BY <3>1, <4>3, <4>4, TokensKept
    <3> QED
      BY <3>2, <3>3
  <2>8. CASE on_execute(d)
    <3>1. SamePromises
      BY <2>8, <2>1, TakeKeeps DEF on_execute
    <3> QED
      BY <2>8, <3>1, TokensKept DEF on_execute, Unvoted
  <2> QED
    BY <1>4, <2>4, <2>5, <2>6, <2>7, <2>8 DEF Handle
<1>5. ASSUME NEW d \in DOMAIN net, Lose(d) PROVE Tokens' /\ Unvoted'
  <2>1. SamePromises
    BY <1>5, TakeKeeps DEF Lose
  <2> QED
    BY <1>5, <2>1, TokensKept DEF Lose, Unvoted
<1>6. ASSUME NEW d \in DOMAIN net, Duplicate(d) PROVE FALSE
  BY <1>6, SMTT(30) DEF Duplicate, Quiet
<1>7. ASSUME NEW n \in Node, Stop(n) PROVE Tokens' /\ Unvoted'
  BY <1>7, TokensKept DEF Stop, Unvoted, SamePromises
<1>8. CASE UNCHANGED vars
  BY <1>8, TokensKept DEF vars, Unvoted, SamePromises
<1> QED
  BY <1>1, <1>2, <1>3, <1>4, <1>5, <1>6, <1>7, <1>8 DEF Next, Send

-----------------------------------------------------------------------------
\* A majority stays one when more is counted.
LEMMA MajorityGrows ==
    ASSUME n_nodes \in Nat, NEW c \in Nat, NEW k \in Nat, c <= k, Majority(c)
    PROVE  Majority(k)
BY SMTT(30) DEF Majority

\* Messages past phase one, and values reported chosen, have a majority of
\* promises behind them.
LEMMA QuorumNext ==
    ASSUME n_nodes \in Nat, TypeOK, RoundInv, Quiet, Tokens, Unvoted, NetQuorum, QueueQuorum, ChosenQuorum,
           [Next]_vars, Quiet'
    PROVE  NetQuorum' /\ QueueQuorum' /\ ChosenQuorum'
<1> USE DEF proposerVars, acceptorVars
<1> DEFINE Goal == NetQuorum' /\ QueueQuorum' /\ ChosenQuorum'
<1>0. /\ IsBagOf(net, Datagram)
      /\ \A d \in DOMAIN net : d.src \in Node /\ d.dst \in Node
      /\ \A n \in Node : \A r \in DOMAIN replies[n] : r.dst \in Node
      /\ \A c \in chosen : c.node \in Node
  BY DEF TypeOK, IsBagOf, Datagram, Reply
<1>1. ASSUME NEW n \in Node, NEW v \in Value, paxos_echo(n, v) PROVE Goal
  <2>1. /\ t_try[n] = 0 /\ \A m \in Node : t_try[m] <= t_try'[m]
        /\ \A m \in Node : t_try[m] \in Nat /\ t_try'[m] \in Nat
    BY <1>1, SMTT(30) DEF paxos_echo, paxos_prepare, NextTry, TypeOK, Quiet, FirstRound
  <2>2. \A m \in Node : m # n => /\ n_propose_ok'[m] = n_propose_ok[m]
                                 /\ value_try'[m] = value_try[m]
                                 /\ t_try'[m] = t_try[m]
    BY <1>1 DEF paxos_echo, paxos_prepare, TypeOK
  <2>3. NetQuorum'
    <3>1. /\ net' = net
          /\ \A d \in DOMAIN net : /\ d.flag \in {3, 5} => d.src # n
                                   /\ d.flag = 4 => d.dst # n
      <4>1. \A d \in DOMAIN net : d.t \in Nat
        BY DEF TypeOK, IsBagOf, Datagram
      <4> QED
        BY <1>1, <2>1, <4>1, SMTT(30) DEF paxos_echo, paxos_prepare, RoundInv, NetRounds
    <3> QED
      BY <3>1, <2>2, <1>0 DEF NetQuorum
  <2>4. QueueQuorum'
    <3>1. OnlyQueues(n, Peer(n), 1, t_try[n] + 1)
      <4>1. Peer(n) \in SUBSET Node /\ t_try[n] + 1 \in Nat
        BY <2>1, SMTT(30) DEF Peer
      <4> QED
        BY <1>1, <4>1, QueuedFacts DEF paxos_echo, paxos_prepare, NextTry
    <3>2. DOMAIN o_list[n] = {}
      <4>1. \A r \in DOMAIN o_list[n] : r.t \in Nat
        BY DEF TypeOK, IsBagOf, Request
      <4> QED
        BY <2>1, <4>1, SMTT(30) DEF RoundInv, QueueRounds
    <3>3. \A m \in Node : \A r \in DOMAIN replies'[m] : r \in DOMAIN replies[m] /\ r.dst # n
      <4>1. \A m \in Node : \A r \in DOMAIN replies'[m] : r \in DOMAIN replies[m]
        BY <1>1, NoMessageFacts DEF paxos_echo, paxos_prepare, TypeOK
      <4> QED
        BY <4>1, <2>1, SMTT(30) DEF RoundInv, ReplyRounds
    <3> QED
      BY <3>1, <3>2, <3>3, <2>2, <1>0, SMTT(30) DEF QueueQuorum, OnlyQueues
  <2>5. ChosenQuorum'
    <3>1. chosen' = chosen /\ \A c \in chosen : c.node # n
      BY <1>1, <2>1, SMTT(30) DEF paxos_echo, paxos_prepare, ChosenQuorum
    <3> QED
      BY <3>1, <2>2, <1>0 DEF ChosenQuorum
  <2> QED
    BY <2>3, <2>4, <2>5
<1>2. ASSUME NEW n \in Node, NEW r \in DOMAIN o_list[n], epoll_before_wait(n, r)
      PROVE  Goal
  <2> DEFINE e == [flag |-> r.flag, src |-> n, dst |-> r.dst, t |-> r.t, value |-> value_try[n]]
  <2>1. r \in Request /\ r \in DOMAIN o_list[n]
    BY DEF TypeOK, IsBagOf
  <2>2. e \in Datagram /\ e.flag # 4 /\ e.src = n /\ e.flag = r.flag
    BY <2>1, SMTT(30) DEF Request, Datagram, TypeOK
  <2>3. \A x \in DOMAIN net' : x \in DOMAIN net \/ x = e
    <3>1. IsBagOf(net, Datagram) /\ net' = Put(net, e)
      BY <1>2 DEF epoll_before_wait, TypeOK
    <3> HIDE DEF e
    <3> QED
      BY <3>1, <2>2, PutFacts
  <2>4. NetQuorum'
    <3>1. n_propose_ok' = n_propose_ok
      BY <1>2 DEF epoll_before_wait
    <3> HIDE DEF e
    <3> QED
      BY <3>1, <2>1, <2>2, <2>3 DEF NetQuorum, QueueQuorum
  <2>5. \A m \in Node : \A x \in DOMAIN o_list'[m] : x \in DOMAIN o_list[m]
    BY <1>2, TakeFacts DEF epoll_before_wait, TypeOK
  <2> QED
    BY <1>2, <2>4, <2>5 DEF epoll_before_wait, QueueQuorum, ChosenQuorum
<1>3. ASSUME NEW n \in Node, NEW r \in DOMAIN replies[n], paxos_ctx_write(n, r)
      PROVE  Goal
  <2> DEFINE e == [flag |-> r.flag, src |-> n, dst |-> r.dst, t |-> r.t,
                   value |-> IF r.held THEN value_store[n] ELSE Empty]
  <2>1. r \in Reply /\ r \in DOMAIN replies[n]
    BY DEF TypeOK, IsBagOf
  <2>2. e \in Datagram /\ e.dst = r.dst /\ e.flag = r.flag /\ e.flag \in {2, 4}
    BY <2>1, SMTT(30) DEF Reply, Datagram, TypeOK
  <2>3. \A x \in DOMAIN net' : x \in DOMAIN net \/ x = e
    <3>1. IsBagOf(net, Datagram) /\ net' = Put(net, e)
      BY <1>3 DEF paxos_ctx_write, TypeOK
    <3> HIDE DEF e
    <3> QED
      BY <3>1, <2>2, PutFacts
  <2> HIDE DEF e
  <2>4. NetQuorum'
    <3>1. n_propose_ok' = n_propose_ok
      BY <1>3 DEF paxos_ctx_write
    <3>2. e.flag = 4 => Majority(n_propose_ok[e.dst])
      BY <2>1, <2>2 DEF QueueQuorum
    <3> QED
      BY <3>1, <3>2, <2>2, <2>3, SMTT(30) DEF NetQuorum
  <2>5. \A m \in Node : \A x \in DOMAIN replies'[m] : x \in DOMAIN replies[m]
    BY <1>3, NoMessageFacts DEF paxos_ctx_write, TypeOK
  <2> QED
    BY <1>3, <2>4, <2>5 DEF paxos_ctx_write, QueueQuorum, ChosenQuorum
<1>4. ASSUME NEW d \in DOMAIN net, Handle(d) PROVE Goal
  <2>1. d \in DOMAIN net /\ d \in Datagram
    BY DEF TypeOK, IsBagOf
  <2>2. /\ d.src \in Node /\ d.dst \in Node /\ d.t \in Nat
        /\ d.value \in Value \cup {Empty}
    BY <2>1 DEF Datagram
  <2>3. \A x \in DOMAIN Take(net, d) : x \in DOMAIN net
    BY <1>0, TakeFacts
  <2>4. CASE on_promise(d)
    <3> DEFINE n == d.dst
    <3>1. \A m \in Node : Majority(n_propose_ok[m]) => Majority(n_propose_ok'[m])
      <4>1. \A m \in Node : /\ n_propose_ok[m] \in Nat /\ n_propose_ok'[m] \in Nat
                            /\ n_propose_ok[m] <= n_propose_ok'[m]
        BY <2>4, <2>2, SMTT(30) DEF on_promise, paxos_propose, TypeOK
      <4> QED
        BY <4>1, MajorityGrows
    <3>2. n_propose_ok'[n] = n_propose_ok[n] + 1 /\ net' = Take(net, d)
      BY <2>4, <2>2 DEF on_promise, paxos_propose, TypeOK
    <3>3. NetQuorum'
      BY <3>1, <3>2, <2>3, <1>0 DEF NetQuorum
    <3>4. value_try' = value_try
      <4>1. d.t = 0 /\ best[n].t = 0
        BY <2>4, <2>1, <2>2 DEF on_promise, paxos_propose, Tokens, Token, Unvoted
      <4> QED
        BY <2>4, <4>1, <2>2, SMTT(30) DEF on_promise, paxos_propose, Adopted, TypeOK
    <3>5. QueueQuorum'
      <4>1. CASE /\ Majority(n_propose_ok[n] + 1)
                 /\ o_list' = Queued(n, Flagged(n, d.src), 3, t_try[n])
        <5>1. Flagged(n, d.src) \in SUBSET Node /\ t_try[n] \in Nat /\ n \in Node
          BY <2>2 DEF Flagged, TypeOK
        <5>2. OnlyQueues(n, Flagged(n, d.src), 3, t_try[n])
          BY <4>1, <5>1, QueuedFacts
        <5> QED
          BY <4>1, <5>2, <3>1, <3>2, <2>4, <1>0
             DEF on_promise, paxos_propose, QueueQuorum, OnlyQueues
      <4>2. CASE o_list' = o_list
        BY <4>2, <3>1, <2>4, <1>0 DEF on_promise, paxos_propose, QueueQuorum
      <4> QED
        BY <4>1, <4>2, <2>4 DEF on_promise, paxos_propose
    <3>6. ChosenQuorum'
      BY <2>4, <3>1, <3>4, <1>0 DEF on_promise, paxos_propose, ChosenQuorum
    <3> QED
      BY <3>3, <3>5, <3>6
  <2>5. CASE on_accepted(d)
    <3> DEFINE n == d.dst
    <3>1. t_try[n] > 0 /\ Majority(n_propose_ok[n])
      BY <2>5, <2>1 DEF on_accepted, paxos_execute, RoundInv, NetRounds, NetQuorum
    <3>2. NetQuorum'
      BY <2>5, <2>3 DEF on_accepted, paxos_execute, NetQuorum
    <3>3. QueueQuorum'
      <4>1. CASE o_list' = Queued(n, Peer(n), 5, t_try[n])
        <5>1. Peer(n) \in SUBSET Node /\ t_try[n] \in Nat /\ n \in Node
          BY <2>2 DEF Peer, TypeOK
        <5>2. OnlyQueues(n, Peer(n), 5, t_try[n])
          BY <4>1, <5>1, QueuedFacts
        <5> QED
          BY <5>2, <3>1, <2>5 DEF on_accepted, paxos_execute, QueueQuorum, OnlyQueues
      <4>2. CASE o_list' = o_list
        BY <4>2, <2>5 DEF on_accepted, paxos_execute, QueueQuorum
      <4> QED
        BY <4>1, <4>2, <2>5 DEF on_accepted, paxos_execute
    <3>4. ChosenQuorum'
      BY <2>5, <3>1, SMTT(30) DEF on_accepted, paxos_execute, ChosenQuorum
    <3> QED
      BY <3>2, <3>3, <3>4
  <2>6. CASE on_prepare(d) \/ on_propose(d)
    <3>1. /\ n_propose_ok' = n_propose_ok /\ o_list' = o_list
          /\ chosen' = chosen /\ t_try' = t_try /\ value_try' = value_try
      BY <2>6 DEF on_prepare, on_propose
    <3>2. ASSUME NEW flag \in {2, 4}, flag = 4 => Majority(n_propose_ok[d.src]),
                 NEW t \in Nat, NEW value \in Value \cup {Empty}, Answer(d, flag, t, value)
          PROVE  NetQuorum' /\ QueueQuorum'
      <4>1. OnlyAnswers(d, flag, t, value)
        BY <3>2, <2>1, AnswerAdds
      <4> QED
        <5>1. NetQuorum'
          <6> DEFINE e == [flag |-> flag, src |-> d.dst, dst |-> d.src, t |-> t,
                           value |-> value]
          <6>1. e.flag = flag /\ e.dst = d.src
            OBVIOUS
          <6>2. \A x \in DOMAIN net' : x \in DOMAIN net \/ x = e
            BY <4>1 DEF OnlyAnswers
          <6> HIDE DEF e
          <6> QED
            BY <6>1, <6>2, <3>1, <3>2, SMTT(30) DEF NetQuorum
        <5>2. QueueQuorum'
          <6>1. \A m \in Node : \A x \in DOMAIN replies'[m] :
                    x \in DOMAIN replies[m] \/ (x.dst = d.src /\ x.flag = flag)
            BY <4>1 DEF OnlyAnswers
          <6> QED
            BY <6>1, <3>1, <3>2 DEF QueueQuorum
        <5> QED
          BY <5>1, <5>2
    <3>3. CASE net' = Take(net, d) /\ replies' = replies
      BY <3>1, <3>3, <2>3 DEF NetQuorum, QueueQuorum, ChosenQuorum
    <3>4. CASE on_prepare(d)
      <4>1. t_store[d.dst] \in Nat /\ value_store[d.dst] \in Value \cup {Empty}
        BY <2>2 DEF TypeOK
      <4>2. CASE Answer(d, 2, t_store[d.dst], value_store[d.dst])
        BY <4>1, <4>2, <3>1, <3>2, SMTT(30) DEF ChosenQuorum
      <4> QED
        BY <3>3, <3>4, <4>2 DEF on_prepare
    <3>5. CASE on_propose(d)
      <4>1. Majority(n_propose_ok[d.src])
        BY <3>5, <2>1 DEF on_propose, NetQuorum
      <4>2. CASE Answer(d, 4, d.t, d.value)
        BY <4>1, <4>2, <3>1, <3>2, <2>2 DEF ChosenQuorum
      <4> QED
        BY <3>3, <3>5, <4>2 DEF on_propose
    <3> QED
      BY <2>6, <3>4, <3>5
  <2>7. CASE on_execute(d)
    BY <2>7, <2>3 DEF on_execute, NetQuorum, QueueQuorum, ChosenQuorum
  <2> QED
    BY <1>4, <2>4, <2>5, <2>6, <2>7 DEF Handle
<1>5. ASSUME NEW d \in DOMAIN net, Lose(d) PROVE Goal
  <2>1. \A x \in DOMAIN Take(net, d) : x \in DOMAIN net
    BY <1>0, TakeFacts
  <2> QED
    BY <1>5, <2>1 DEF Lose, NetQuorum, QueueQuorum, ChosenQuorum
<1>6. ASSUME NEW d \in DOMAIN net, Duplicate(d) PROVE FALSE
  BY <1>6, SMTT(30) DEF Duplicate, Quiet
<1>7. ASSUME NEW n \in Node, Stop(n) PROVE Goal
  BY <1>7 DEF Stop, NetQuorum, QueueQuorum, ChosenQuorum
<1>8. CASE UNCHANGED vars
  BY <1>8 DEF vars, NetQuorum, QueueQuorum, ChosenQuorum
<1> QED
  BY <1>1, <1>2, <1>3, <1>4, <1>5, <1>6, <1>7, <1>8 DEF Next, Send

-----------------------------------------------------------------------------
(***************************************************************************)
(* Agreement in the first round, and from it that the nodes implement      *)
(* Consensus: two majorities of tokens intersect, so one proposer holds    *)
(* both.                                                                   *)
(***************************************************************************)

\* A proposer counts every token it holds once.
Counted == \A p \in Node : n_propose_ok[p] = Cardinality(granted[p])

FirstInv ==
    Quiet => Tokens /\ Unvoted /\ Counted /\ NetQuorum /\ QueueQuorum /\ ChosenQuorum

\* The nodes can be counted.
LEMMA NodeCount == n_nodes \in Nat
BY NodeAssumption, FS_CardinalityType DEF n_nodes

\* At the start there is no token.
LEMMA FirstInit == Init => FirstInv
<1> SUFFICES ASSUME Init PROVE Tokens /\ Unvoted /\ Counted /\ NetQuorum /\ QueueQuorum /\ ChosenQuorum
  BY DEF FirstInv
<1>1. DOMAIN net = {} /\ \A n \in Node : DOMAIN replies[n] = {} /\ DOMAIN o_list[n] = {}
  BY NoMessageFacts DEF Init
<1>2. \A p \in Node : granted[p] = {} /\ n_propose_ok[p] = 0 /\ best[p].t = 0
  BY DEF Init, NoPromise
<1>3. Counted
  BY ZenonT(30), <1>2, FS_EmptySet DEF Counted
<1>4. chosen = {}
  BY DEF Init
<1> QED
  BY <1>1, <1>2, <1>3, <1>4 DEF Tokens, Token, Unvoted, NetQuorum, QueueQuorum, ChosenQuorum

\* A count that becomes the size of a set with one more element.
LEMMA OneMore ==
    ASSUME TypeOK, Counted, NEW n \in Node, NEW a \in Node, a \notin granted[n],
           n_propose_ok' = [n_propose_ok EXCEPT ![n] = @ + 1],
           granted' = [granted EXCEPT ![n] = @ \cup {a}]
    PROVE  \A p \in Node : n_propose_ok'[p] = Cardinality(granted'[p])
<1>1. IsFiniteSet(granted[n])
  BY NodeAssumption, FS_Subset DEF TypeOK
<1>2. Cardinality(granted[n] \cup {a}) = Cardinality(granted[n]) + 1
  BY SMTT(30), <1>1, FS_AddElement
<1>3. granted'[n] = granted[n] \cup {a} /\ n_propose_ok'[n] = n_propose_ok[n] + 1
  BY DEF TypeOK
<1>4. \A p \in Node : p # n => granted'[p] = granted[p] /\ n_propose_ok'[p] = n_propose_ok[p]
  BY DEF TypeOK
<1> QED
  BY <1>2, <1>3, <1>4 DEF Counted

\* on_promise counts a token when it takes it, and a new try drops both.
LEMMA CountedNext ==
    ASSUME TypeOK, Tokens, Counted, [Next]_vars
    PROVE  Counted'
<1> USE DEF proposerVars, acceptorVars
<1>1. ASSUME NEW n \in Node, NEW v \in Value, paxos_echo(n, v) PROVE Counted'
  <2>1. /\ granted'[n] = {} /\ n_propose_ok'[n] = 0
        /\ \A m \in Node : m # n => /\ granted'[m] = granted[m]
                                    /\ n_propose_ok'[m] = n_propose_ok[m]
    BY <1>1 DEF paxos_echo, paxos_prepare, TypeOK
  <2> QED
    BY ZenonT(30), <2>1, FS_EmptySet DEF Counted
<1>2. ASSUME NEW d \in DOMAIN net, on_promise(d) PROVE Counted'
  <2>1. d.src \in Node /\ d.dst \in Node
    BY DEF TypeOK, IsBagOf, Datagram
  <2>2. d.src \notin granted[d.dst]
    BY <1>2, <2>1 DEF on_promise, Tokens, Token
  <2>3. \A p \in Node : n_propose_ok'[p] = Cardinality(granted'[p])
    BY ZenonT(30), <1>2, <2>1, <2>2, OneMore DEF on_promise
  <2> QED
    BY <2>3 DEF Counted
<1>3. CASE UNCHANGED <<n_propose_ok, granted>>
  BY <1>3 DEF Counted
<1>4. ASSUME NEW n \in Node, Send(n) PROVE UNCHANGED <<n_propose_ok, granted>>
  BY ZenonT(30), <1>4 DEF Send, epoll_before_wait, paxos_ctx_write
<1>5. ASSUME NEW d \in DOMAIN net, Handle(d)
      PROVE  on_promise(d) \/ UNCHANGED <<n_propose_ok, granted>>
  BY <1>5 DEF Handle, on_accepted, on_prepare, on_propose, on_execute
<1>6. ASSUME NEW d \in DOMAIN net, Lose(d) \/ Duplicate(d)
      PROVE  UNCHANGED <<n_propose_ok, granted>>
  BY <1>6 DEF Lose, Duplicate
<1>7. ASSUME NEW n \in Node, Stop(n) PROVE UNCHANGED <<n_propose_ok, granted>>
  BY <1>7 DEF Stop
<1>8. CASE UNCHANGED vars
  BY <1>8 DEF vars, Counted
<1> QED
  BY <1>1, <1>2, <1>3, <1>4, <1>5, <1>6, <1>7, <1>8 DEF Next

\* Every step keeps what is known of the first round.
LEMMA FirstNext == TypeOK /\ RoundInv /\ FirstInv /\ [Next]_vars => FirstInv'
<1> SUFFICES ASSUME TypeOK, RoundInv, FirstInv, [Next]_vars, Quiet'
             PROVE  (Tokens /\ Unvoted /\ Counted /\ NetQuorum /\ QueueQuorum /\ ChosenQuorum)'
  BY DEF FirstInv
<1>1. Quiet /\ Tokens /\ Unvoted /\ Counted /\ NetQuorum /\ QueueQuorum /\ ChosenQuorum
  BY QuietBefore DEF FirstInv
<1> QED
  BY <1>1, TokensNext, CountedNext, QuorumNext, NodeCount

-----------------------------------------------------------------------------
\* Two majorities of counted promises share an acceptor, whose one promise is
\* counted by one proposer only.
LEMMA OneMajority == TypeOK /\ FirstInv => OneProposerPerRound
<1> SUFFICES ASSUME TypeOK, Quiet, Tokens, Counted, NEW p \in Node, NEW q \in Node,
                    Majority(n_propose_ok[p]), Majority(n_propose_ok[q])
             PROVE  p = q
  BY DEF FirstInv, OneProposerPerRound, Quiet
<1>1. granted[p] \subseteq Node /\ granted[q] \subseteq Node
  BY DEF TypeOK
<1>2. /\ Cardinality(Node) \in Nat /\ n_propose_ok[p] \in Nat /\ n_propose_ok[q] \in Nat
  BY NodeAssumption, FS_CardinalityType DEF TypeOK
<1>3. n_propose_ok[p] + n_propose_ok[q] > Cardinality(Node)
  BY SMTT(30), <1>2 DEF Majority, n_nodes
<1>4. Cardinality(granted[p]) + Cardinality(granted[q]) > Cardinality(Node)
  BY <1>3 DEF Counted
<1>5. granted[p] \cap granted[q] # {}
  BY <1>1, <1>4, NodeAssumption, FS_MajoritiesIntersect
<1> QED
  BY SMTT(30), <1>1, <1>5 DEF Tokens, Token

\* All values reported chosen are then the value of that one proposer.
LEMMA OneValueChosen == TypeOK /\ FirstInv => FirstRoundAgreement
<1> SUFFICES ASSUME TypeOK, FirstInv, Quiet, NEW c1 \in chosen, NEW c2 \in chosen
             PROVE  c1.value = c2.value
  BY DEF FirstRoundAgreement, Quiet
<1>1. c1.node \in Node /\ c2.node \in Node
  BY DEF TypeOK
<1>2. /\ Majority(n_propose_ok[c1.node]) /\ c1.value = value_try[c1.node]
      /\ Majority(n_propose_ok[c2.node]) /\ c2.value = value_try[c2.node]
  BY DEF FirstInv, ChosenQuorum
<1>3. c1.node = c2.node
  BY <1>1, <1>2, OneMajority DEF OneProposerPerRound, Quiet
<1> QED
  BY <1>2, <1>3

\* While every node is in its first round and nothing was duplicated, at most
\* one proposer gets past phase one, for any number of nodes.
THEOREM FirstRoundProposer == Spec => []OneProposerPerRound
BY TypeInit, TypeNext, RoundInit, RoundNext, FirstInit, FirstNext, OneMajority, PTL DEF Spec

\* ... and all the values reported chosen are equal, although messages are
\* lost, reordered, queued and sent late, and processes stop.
THEOREM Agreed == Spec => []FirstRoundAgreement
BY TypeInit, TypeNext, RoundInit, RoundNext, FirstInit, FirstNext, OneValueChosen, PTL DEF Spec

-----------------------------------------------------------------------------
\* No node starts more than MaxTry rounds, and MaxDup datagrams are duplicated.
Bounded == dups <= MaxDup /\ \A n \in Node : t_try[n] <= MaxTry

\* At the start every counter is within its bound.
LEMMA BoundedInit == Init => Bounded
BY SMTT(30), BoundAssumption DEF Init, Bounded

\* Every step keeps the counters within their bounds.
LEMMA BoundedNext == TypeOK /\ Bounded /\ [Next]_vars => Bounded'
<1> SUFFICES ASSUME TypeOK, Bounded, [Next]_vars PROVE Bounded'
  OBVIOUS
<1> USE DEF proposerVars, acceptorVars
<1>1. ASSUME NEW n \in Node, NEW v \in Value, paxos_echo(n, v) PROVE Bounded'
  BY SMTT(30), <1>1, BoundAssumption DEF paxos_echo, paxos_prepare, NextTry, TypeOK, Bounded
<1>2. ASSUME NEW n \in Node, Send(n) PROVE Bounded'
  BY ZenonT(30), <1>2 DEF Send, epoll_before_wait, paxos_ctx_write, Bounded
<1>3. ASSUME NEW d \in DOMAIN net, Handle(d) PROVE Bounded'
  BY <1>3
     DEF Handle, on_promise, paxos_propose, on_accepted, paxos_execute, on_prepare,
         on_propose, on_execute, Bounded
<1>4. ASSUME NEW d \in DOMAIN net, Lose(d) \/ Duplicate(d) PROVE Bounded'
  BY SMTT(30), <1>4, BoundAssumption DEF Lose, Duplicate, Bounded, TypeOK
<1>5. ASSUME NEW n \in Node, Stop(n) PROVE Bounded'
  BY <1>5 DEF Stop, Bounded
<1>6. CASE UNCHANGED vars
  BY <1>6 DEF vars, Bounded
<1> QED
  BY <1>1, <1>2, <1>3, <1>4, <1>5, <1>6 DEF Next

\* What is reported chosen is a value, and only a step of on_accepted adds to it.
LEMMA ChosenGrows ==
    ASSUME TypeOK, [Next]_vars
    PROVE  \/ chosen' = chosen
           \/ \E c : chosen' = chosen \cup {c}
<1> USE DEF proposerVars, acceptorVars
<1>1. ASSUME NEW n \in Node, NEW v \in Value, paxos_echo(n, v) PROVE chosen' = chosen
  BY <1>1 DEF paxos_echo, paxos_prepare
<1>2. ASSUME NEW n \in Node, Send(n) PROVE chosen' = chosen
  BY ZenonT(30), <1>2 DEF Send, epoll_before_wait, paxos_ctx_write
<1>3. ASSUME NEW d \in DOMAIN net, Handle(d)
      PROVE  chosen' = chosen \/ \E c : chosen' = chosen \cup {c}
  BY ZenonT(30), <1>3
     DEF Handle, on_promise, paxos_propose, on_accepted, paxos_execute, on_prepare,
         on_propose, on_execute
<1>4. ASSUME NEW d \in DOMAIN net, Lose(d) \/ Duplicate(d) PROVE chosen' = chosen
  BY <1>4 DEF Lose, Duplicate
<1>5. ASSUME NEW n \in Node, Stop(n) PROVE chosen' = chosen
  BY <1>5 DEF Stop
<1>6. CASE UNCHANGED vars
  BY <1>6 DEF vars
<1> QED
  BY ZenonT(30), <1>1, <1>2, <1>3, <1>4, <1>5, <1>6 DEF Next

\* A step that keeps the chosen values equal chooses the first one or none.
LEMMA ConsensusStep ==
    ASSUME TypeOK, TypeOK', ValueInv', [Next]_vars, Agreement'
    PROVE  [Abstract!Next]_ChosenValues
<1>1. CASE chosen' = chosen
  BY <1>1 DEF ChosenValues
<1>2. ASSUME NEW c, chosen' = chosen \cup {c} PROVE [Abstract!Next]_ChosenValues
  <2>1. c.value \in Value
    BY <1>2 DEF TypeOK, ValueInv
  <2>2. \A c1 \in chosen' : c1.value = c.value
    BY <1>2 DEF Agreement
  <2>3. ChosenValues' = {c.value}
    BY <1>2, <2>2 DEF ChosenValues
  <2>4. CASE chosen = {}
    <3>1. ChosenValues = {}
      BY <2>4 DEF ChosenValues
    <3> QED
      BY <2>1, <2>3, <3>1 DEF Abstract!Next, Abstract!Choose
  <2>5. CASE chosen # {}
    <3>1. ChosenValues = {c.value}
      BY <2>5, <2>2, <1>2 DEF ChosenValues
    <3> QED
      BY <2>3, <3>1
  <2> QED
    BY SMTT(30), <2>4, <2>5
<1> QED
  BY <1>1, <1>2, ChosenGrows

\* With at most one round per node and no duplicated datagram, any number of
\* nodes implements Consensus.
THEOREM Refinement ==
    ASSUME MaxTry <= 1, MaxDup = 0
    PROVE  Spec => ImplementsConsensus
<1>1. Init => Abstract!Init
  BY DEF Init, Abstract!Init, ChosenValues
<1>2. TypeOK /\ Bounded /\ FirstInv => Agreement
  <2> SUFFICES ASSUME TypeOK, Bounded, FirstInv PROVE Agreement
    OBVIOUS
  <2>1. Quiet
    BY SMTT(30), BoundAssumption DEF Bounded, Quiet, FirstRound, TypeOK
  <2> QED
    BY <2>1, OneValueChosen DEF FirstRoundAgreement, Agreement, Quiet
<1>3. /\ TypeOK /\ TypeOK' /\ ValueInv' /\ Agreement' /\ [Next]_vars
      => [Abstract!Next]_ChosenValues
  BY ConsensusStep
<1> QED
  BY <1>1, <1>2, <1>3, TypeInit, TypeNext, RoundInit, RoundNext, ValueInit, ValueNext,
     FirstInit, FirstNext, BoundedInit, BoundedNext, PTL
     DEF Spec, ImplementsConsensus, Abstract!Spec
=============================================================================

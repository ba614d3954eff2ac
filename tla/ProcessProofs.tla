---------------------------- MODULE ProcessProofs ---------------------------
(***************************************************************************)
(* The child processes, the HTTP/2 client and the download, for any number *)
(* of children, bytes, frames, sockets and contexts: output is handed over *)
(* in order, and nothing is left behind.                                   *)
(***************************************************************************)
EXTENDS Processes, TLAPS

USE ProcessesAssumption
USE ZenonT(30)

-----------------------------------------------------------------------------
(* What a child wrote, in a pipe with writes of no bytes between the data. *)

\* Of the first n in the pipe: bytes are in order, and those without a gap between
\* them have successive numbers, wherever in the pipe they are.
Sorted(p, n) ==
    /\ \A a, b \in 1..n : a < b /\ p[b] # 0 => p[a] < p[b]
    /\ \A a, b \in 1..n : a <= b /\ (\A j \in a..b : p[j] # 0) => p[b] = p[a] + (b - a)

\* The reader has the bytes g, p is in the pipe and w were written.
Stream(g, p, w) ==
    /\ \A k \in 1..Len(g) : g[k] = k
    /\ Len(g) <= w
    /\ \A j \in 1..Len(p) : p[j] # 0 => p[j] \in (Len(g) + 1)..w
    /\ \A v \in (Len(g) + 1)..w : \E j \in 1..Len(p) : p[j] = v
    /\ Sorted(p, Len(p))

\* The child writes a byte.
LEMMA StreamByte ==
    ASSUME NEW g \in Seq(Nat), NEW p \in Seq(Nat), NEW w \in Nat, Stream(g, p, w)
    PROVE  Stream(g, Append(p, w + 1), w + 1)
<1> DEFINE q == Append(p, w + 1)
           n == Len(p)
           l == Len(g)
<1>1. /\ Len(q) = n + 1 /\ q[n + 1] = w + 1 /\ n \in Nat /\ l \in Nat
      /\ \A j \in 1..n : q[j] = p[j] /\ p[j] \in Nat
  BY SMTT(30)
<1>2. l <= w /\ \A k \in 1..l : g[k] = k
  BY DEF Stream
<1>3. \A j \in 1..n : p[j] # 0 => p[j] \in (l + 1)..w
  BY DEF Stream
<1>4. \A v \in (l + 1)..w : \E j \in 1..n : p[j] = v
  BY DEF Stream
<1>5. \A a, b \in 1..n : a < b /\ p[b] # 0 => p[a] < p[b]
  BY DEF Stream, Sorted
<1>6. \A a, b \in 1..n : a <= b /\ (\A j \in a..b : p[j] # 0) => p[b] = p[a] + (b - a)
  BY DEF Stream, Sorted
<1> HIDE DEF q, n, l
<1>7. \A j \in 1..(n + 1) : q[j] # 0 => q[j] \in (l + 1)..(w + 1)
  <2> SUFFICES ASSUME NEW j \in 1..(n + 1), q[j] # 0 PROVE q[j] \in (l + 1)..(w + 1)
    OBVIOUS
  <2>1. CASE j = n + 1
    BY <2>1, <1>1, <1>2, SMTT(30)
  <2>2. CASE j \in 1..n
    BY <2>2, <1>1, <1>3, SMTT(30)
  <2> QED
    BY <1>1, <2>1, <2>2, SMTT(30)
<1>8. \A v \in (l + 1)..(w + 1) : \E j \in 1..(n + 1) : q[j] = v
  <2> SUFFICES ASSUME NEW v \in (l + 1)..(w + 1) PROVE \E j \in 1..(n + 1) : q[j] = v
    OBVIOUS
  <2>1. CASE v = w + 1
    BY <2>1, <1>1, SMTT(30)
  <2>2. CASE v # w + 1
    <3>1. v \in (l + 1)..w
      BY <2>2, <1>1, SMTT(30)
    <3>2. PICK j \in 1..n : p[j] = v
      BY <3>1, <1>4
    <3> QED
      BY <3>2, <1>1, SMTT(30)
  <2> QED
    BY <2>1, <2>2
<1>9. \A j \in 1..n : p[j] <= w
  BY <1>1, <1>3, SMTT(30)
<1>10. \A a, b \in 1..(n + 1) : a < b /\ q[b] # 0 => q[a] < q[b]
  <2> SUFFICES ASSUME NEW a \in 1..(n + 1), NEW b \in 1..(n + 1), a < b, q[b] # 0 PROVE q[a] < q[b]
    OBVIOUS
  <2>1. a \in 1..n
    BY <1>1, SMTT(30)
  <2>2. CASE b = n + 1
    <3>1. q[a] = p[a] /\ p[a] \in Nat /\ p[a] <= w /\ q[b] = w + 1
      BY <2>1, <2>2, <1>1, <1>9
    <3> QED
      BY <3>1, SMTT(30)
  <2>3. CASE b \in 1..n
    BY <2>1, <2>3, <1>1, <1>5
  <2> QED
    BY <1>1, <2>2, <2>3, SMTT(30)
<1>11. n \in 1..n /\ p[n] # 0 => p[n] = w
  <2> SUFFICES ASSUME n \in 1..n, p[n] # 0 PROVE p[n] = w
    OBVIOUS
  <2>1. p[n] \in (l + 1)..w
    BY <1>3
  <2>2. PICK j \in 1..n : p[j] = w
    <3>1. w \in (l + 1)..w
      <4>1. \A v \in (l + 1)..w : w \in (l + 1)..w
        <5>1. l \in Nat
          BY <1>1
        <5> QED
          BY <5>1, SMTT(30)
      <4> QED
        BY <2>1, <4>1
    <3> QED
      BY <3>1, <1>4
  <2>3. j < n => p[j] < p[n]
    BY <1>5
  <2>4. j = n \/ j < n
    <3>1. n \in Nat
      BY <1>1
    <3> QED
      BY <3>1, SMTT(30)
  <2>5. ~(w < p[n])
    <3>1. \A v \in (l + 1)..w : ~(w < v)
      <4>1. l \in Nat
        BY <1>1
      <4> QED
        BY <4>1, SMTT(30)
    <3> QED
      BY <2>1, <3>1
  <2> QED
    BY <2>2, <2>3, <2>4, <2>5
<1>12. \A a, b \in 1..(n + 1) : a <= b /\ (\A j \in a..b : q[j] # 0) => q[b] = q[a] + (b - a)
  <2> SUFFICES ASSUME NEW a \in 1..(n + 1), NEW b \in 1..(n + 1), a <= b, \A j \in a..b : q[j] # 0
               PROVE  q[b] = q[a] + (b - a)
    OBVIOUS
  <2>1. CASE a = n + 1
    BY <2>1, <1>1, SMTT(30)
  <2>2. CASE a \in 1..n /\ b \in 1..n
    <3>1. \A j \in a..b : p[j] # 0
      <4> TAKE j \in a..b
      <4>1. j \in 1..n /\ q[j] # 0
        BY <2>2, <1>1, SMTT(30)
      <4> QED
        BY <4>1, <1>1
    <3> QED
      BY <2>2, <3>1, <1>1, <1>6
  <2>3. CASE a \in 1..n /\ b = n + 1
    <3>1. n \in 1..n /\ a <= n
      BY <2>3, <1>1, SMTT(30)
    <3>2. \A j \in a..n : p[j] # 0
      <4> TAKE j \in a..n
      <4>1. j \in 1..n /\ j \in a..b
        BY <2>3, <1>1, SMTT(30)
      <4> QED
        BY <4>1, <1>1
    <3>3. p[n] = p[a] + (n - a)
      BY <2>3, <3>1, <3>2, <1>6
    <3>4. p[n] = w
      BY <3>1, <3>2, <1>1, <1>11, SMTT(30)
    <3>5. q[a] = p[a] /\ p[a] \in Nat /\ q[b] = w + 1
      BY <2>3, <1>1
    <3> QED
      <4> DEFINE e == p[a]
      <4>1. n \in Nat /\ a \in Nat /\ e \in Nat /\ w = e + (n - a)
        BY <2>3, <3>3, <3>4, <3>5, <1>1, SMTT(30)
      <4>2. w + 1 = e + ((n + 1) - a)
        <5> HIDE DEF e, n
        <5> QED
          BY <4>1, SMTT(30)
      <4> QED
        BY <2>3, <4>2, <3>5
  <2> QED
    BY <1>1, <2>1, <2>2, <2>3, SMTT(30)
<1>13. l <= w + 1
  BY <1>1, <1>2, SMTT(30)
<1> QED
  BY <1>1, <1>2, <1>7, <1>8, <1>10, <1>12, <1>13 DEF Stream, Sorted, q, n, l

\* The child writes nothing.
LEMMA StreamNothing ==
    ASSUME NEW g \in Seq(Nat), NEW p \in Seq(Nat), NEW w \in Nat, Stream(g, p, w)
    PROVE  Stream(g, Append(p, 0), w)
<1> DEFINE q == Append(p, 0)
           n == Len(p)
           l == Len(g)
<1>1. /\ Len(q) = n + 1 /\ q[n + 1] = 0 /\ n \in Nat /\ l \in Nat
      /\ \A j \in 1..n : q[j] = p[j] /\ p[j] \in Nat
  BY SMTT(30)
<1>2. \A j \in 1..n : p[j] # 0 => p[j] \in (l + 1)..w
  BY DEF Stream
<1>3. \A v \in (l + 1)..w : \E j \in 1..n : p[j] = v
  BY DEF Stream
<1>4. \A a, b \in 1..n : a < b /\ p[b] # 0 => p[a] < p[b]
  BY DEF Stream, Sorted
<1>5. \A a, b \in 1..n : a <= b /\ (\A j \in a..b : p[j] # 0) => p[b] = p[a] + (b - a)
  BY DEF Stream, Sorted
<1> HIDE DEF q, n, l
<1>6. \A j \in 1..(n + 1) : q[j] # 0 => j \in 1..n
  BY <1>1, SMTT(30)
<1>7. \A j \in 1..n : j \in 1..(n + 1)
  BY <1>1, SMTT(30)
<1>8. \A a, b \in 1..(n + 1) : a < b /\ q[b] # 0 => q[a] < q[b]
  <2> SUFFICES ASSUME NEW a \in 1..(n + 1), NEW b \in 1..(n + 1), a < b, q[b] # 0 PROVE q[a] < q[b]
    OBVIOUS
  <2>1. b \in 1..n /\ a \in 1..n
    BY <1>1, <1>6, SMTT(30)
  <2> QED
    BY <2>1, <1>1, <1>4
<1>9. \A a, b \in 1..(n + 1) : a <= b /\ (\A j \in a..b : q[j] # 0) => q[b] = q[a] + (b - a)
  <2> SUFFICES ASSUME NEW a \in 1..(n + 1), NEW b \in 1..(n + 1), a <= b, \A j \in a..b : q[j] # 0
               PROVE  q[b] = q[a] + (b - a)
    OBVIOUS
  <2>1. b \in a..b
    BY <1>1, SMTT(30)
  <2>2. b \in 1..n
    BY <2>1, <1>6
  <2>3. a \in 1..n /\ \A j \in a..b : j \in 1..n
    BY <2>2, <1>1, SMTT(30)
  <2> QED
    BY <2>2, <2>3, <1>1, <1>5
<1> QED
  BY <1>1, <1>2, <1>3, <1>6, <1>7, <1>8, <1>9 DEF Stream, Sorted, q, n, l

\* The order of what is left when the first m are taken out of the pipe.
LEMMA StreamShift ==
    ASSUME NEW g, NEW w, NEW p \in Seq(Nat), NEW q, NEW n, NEW m, n = Len(p), m \in 1..n,
           Stream(g, p, w), \A j \in 1..(n - m) : q[j] = p[j + m]
    PROVE  (\A j \in 1..(n - m) : j + m \in 1..n) /\ Sorted(q, n - m)
<1>1. n \in Nat /\ m \in Nat /\ \A j \in 1..n : p[j] \in Nat
  BY SMTT(30)
<1>2. \A j \in 1..(n - m) : j + m \in 1..n
  BY <1>1, SMTT(30)
<1>3. \A a, b \in 1..n : a < b /\ p[b] # 0 => p[a] < p[b]
  BY DEF Stream, Sorted
<1>4. \A a, b \in 1..n : a <= b /\ (\A j \in a..b : p[j] # 0) => p[b] = p[a] + (b - a)
  BY DEF Stream, Sorted
<1>5. \A a, b \in 1..(n - m) : a < b /\ q[b] # 0 => q[a] < q[b]
  <2> SUFFICES ASSUME NEW a \in 1..(n - m), NEW b \in 1..(n - m), a < b, q[b] # 0 PROVE q[a] < q[b]
    OBVIOUS
  <2>1. a + m < b + m /\ a + m \in 1..n /\ b + m \in 1..n
    BY <1>1, <1>2, SMTT(30)
  <2> QED
    BY <2>1, <1>3
<1>6. \A a, b \in 1..(n - m) : a <= b /\ (\A j \in a..b : q[j] # 0) => q[b] = q[a] + (b - a)
  <2> SUFFICES ASSUME NEW a \in 1..(n - m), NEW b \in 1..(n - m), a <= b, \A j \in a..b : q[j] # 0
               PROVE  q[b] = q[a] + (b - a)
    OBVIOUS
  <2>1. a + m <= b + m /\ a + m \in 1..n /\ b + m \in 1..n /\ (b + m) - (a + m) = b - a
    BY <1>1, <1>2, SMTT(30)
  <2>2. \A j \in (a + m)..(b + m) : p[j] # 0
    <3> TAKE j \in (a + m)..(b + m)
    <3>1. j - m \in a..b /\ j - m \in 1..(n - m) /\ (j - m) + m = j
      BY <1>1, SMTT(30)
    <3> QED
      BY <3>1
  <2>3. p[b + m] = p[a + m] + ((b + m) - (a + m))
    BY <2>1, <2>2, <1>4
  <2> QED
    BY <2>1, <2>3
<1> QED
  BY <1>2, <1>5, <1>6 DEF Sorted

\* The read that returns no bytes.
LEMMA StreamSkip ==
    ASSUME NEW g \in Seq(Nat), NEW p \in Seq(Nat), NEW w \in Nat, Stream(g, p, w),
           p # <<>>, p[1] = 0
    PROVE  Stream(g, Tail(p), w)
<1> DEFINE q == Tail(p)
           n == Len(p)
           l == Len(g)
<1>1. /\ Len(q) = n - 1 /\ n \in Nat /\ 1 \in 1..n /\ l \in Nat
      /\ \A j \in 1..(n - 1) : q[j] = p[j + 1]
  BY SMTT(30)
<1>2. (\A j \in 1..(n - 1) : j + 1 \in 1..n) /\ Sorted(q, n - 1)
  <2> HIDE DEF q
  <2> QED
    BY <1>1, StreamShift
<1>3. \A j \in 1..n : p[j] # 0 => p[j] \in (l + 1)..w
  BY DEF Stream
<1>4. \A v \in (l + 1)..w : \E j \in 1..n : p[j] = v
  BY DEF Stream
<1> HIDE DEF q, n, l
<1>5. \A v \in (l + 1)..w : \E j \in 1..(n - 1) : q[j] = v
  <2> SUFFICES ASSUME NEW v \in (l + 1)..w PROVE \E j \in 1..(n - 1) : q[j] = v
    OBVIOUS
  <2>1. PICK j \in 1..n : p[j] = v
    BY <1>4
  <2>2. j - 1 \in 1..(n - 1) /\ (j - 1) + 1 = j
    BY <2>1, <1>1, SMTT(30)
  <2> QED
    BY <2>1, <2>2, <1>1
<1>6. \A j \in 1..(n - 1) : q[j] # 0 => q[j] \in (l + 1)..w
  BY <1>1, <1>2, <1>3
<1> QED
  BY <1>1, <1>2, <1>5, <1>6 DEF Stream, q, n, l

\* The read that returns the first m bytes.
LEMMA StreamRead ==
    ASSUME NEW g \in Seq(Nat), NEW p \in Seq(Nat), NEW w \in Nat, Stream(g, p, w),
           NEW m \in 1..Len(p), \A j \in 1..m : p[j] # 0
    PROVE  Stream(g \o SubSeq(p, 1, m), SubSeq(p, m + 1, Len(p)), w)
<1> DEFINE q == SubSeq(p, m + 1, Len(p))
           h == g \o SubSeq(p, 1, m)
           n == Len(p)
           l == Len(g)
<1>1. /\ Len(q) = n - m /\ n \in Nat /\ m \in 1..n /\ l \in Nat /\ 1 \in 1..m /\ m \in Nat
      /\ \A j \in 1..(n - m) : q[j] = p[j + m]
      /\ \A j \in 1..n : p[j] \in Nat
  <2>1. n \in Nat /\ m \in 1..n /\ l \in Nat /\ 1 \in 1..m /\ m \in Nat
    BY SMTT(30)
  <2>2. \A j \in 1..n : p[j] \in Nat
    BY SMTT(30)
  <2>3. Len(q) = n - m
    BY SMTT(30)
  <2>4. \A j \in 1..(n - m) : q[j] = p[j + m]
    BY SMTT(30)
  <2> QED
    BY <2>1, <2>2, <2>3, <2>4
<1>2. /\ Len(h) = l + m
      /\ \A k \in 1..l : h[k] = g[k]
      /\ \A k \in 1..m : h[l + k] = p[k]
  BY <1>1, SMTT(30)
<1>3. l <= w /\ \A k \in 1..l : g[k] = k
  BY DEF Stream
<1>4. \A j \in 1..n : p[j] # 0 => p[j] \in (l + 1)..w
  BY DEF Stream
<1>5. \A v \in (l + 1)..w : \E j \in 1..n : p[j] = v
  BY DEF Stream
<1>6. \A a, b \in 1..n : a < b /\ p[b] # 0 => p[a] < p[b]
  BY DEF Stream, Sorted
<1>7. \A a, b \in 1..n : a <= b /\ (\A j \in a..b : p[j] # 0) => p[b] = p[a] + (b - a)
  BY DEF Stream, Sorted
<1>8. (\A j \in 1..(n - m) : j + m \in 1..n) /\ Sorted(q, n - m)
  <2> HIDE DEF q
  <2> QED
    BY <1>1, StreamShift
<1> HIDE DEF q, h, n, l
<1>9. \A k \in 1..m : k \in 1..n
  BY <1>1, SMTT(30)
<1>10. p[1] = l + 1
  <2>1. p[1] \in (l + 1)..w
    BY <1>1, <1>4, <1>9
  <2>2. PICK j \in 1..n : p[j] = l + 1
    <3>1. l + 1 \in (l + 1)..w
      BY <2>1, <1>1, SMTT(30)
    <3> QED
      BY <3>1, <1>5
  <2>3. 1 < j => p[1] < p[j]
    <3>1. p[j] # 0
      BY <2>2, <1>1, SMTT(30)
    <3> QED
      BY <3>1, <1>1, <1>6, <1>9
  <2>4. j = 1 \/ 1 < j
    <3>1. n \in Nat
      BY <1>1
    <3> QED
      BY <3>1, SMTT(30)
  <2>5. ~(p[1] < l + 1)
    <3>1. \A v \in (l + 1)..w : ~(v < l + 1)
      <4>1. l \in Nat
        BY <1>1
      <4> QED
        BY <4>1, SMTT(30)
    <3> QED
      BY <2>1, <3>1
  <2> QED
    BY <2>2, <2>3, <2>4, <2>5
<1>11. \A k \in 1..m : p[k] = l + k
  <2> TAKE k \in 1..m
  <2>1. 1 <= k /\ \A j \in 1..k : j \in 1..m
    BY <1>1, SMTT(30)
  <2>2. p[k] = p[1] + (k - 1)
    BY <2>1, <1>1, <1>7, <1>9
  <2> QED
    BY <2>2, <1>10, <1>1, SMTT(30)
<1>12. l + m \in (l + 1)..w
  <2>1. m \in 1..m
    BY <1>1, SMTT(30)
  <2> QED
    BY <2>1, <1>1, <1>4, <1>11
<1>13. \A k \in 1..(l + m) : h[k] = k
  <2> TAKE k \in 1..(l + m)
  <2>1. CASE k \in 1..l
    BY <2>1, <1>2, <1>3
  <2>2. CASE k \notin 1..l
    <3>1. k - l \in 1..m /\ l + (k - l) = k
      BY <2>2, <1>1, SMTT(30)
    <3> QED
      BY <3>1, <1>2, <1>11
  <2> QED
    BY <2>1, <2>2
<1>14. \A j \in 1..(n - m) : q[j] # 0 => q[j] \in (l + m + 1)..w
  <2> SUFFICES ASSUME NEW j \in 1..(n - m), q[j] # 0 PROVE q[j] \in (l + m + 1)..w
    OBVIOUS
  <2>1. m \in 1..m /\ m < j + m
    BY <1>1, SMTT(30)
  <2>2. p[m] < p[j + m] /\ p[m] = l + m
    BY <2>1, <1>1, <1>6, <1>8, <1>11
  <2>3. p[j + m] \in (l + 1)..w
    BY <1>1, <1>4, <1>8
  <2>4. q[j] = p[j + m] /\ l \in Nat /\ m \in Nat
    BY <1>1
  <2> QED
    BY <2>2, <2>3, <2>4, SMTT(30)
<1>15. \A v \in (l + m + 1)..w : \E j \in 1..(n - m) : q[j] = v
  <2> SUFFICES ASSUME NEW v \in (l + m + 1)..w PROVE \E j \in 1..(n - m) : q[j] = v
    OBVIOUS
  <2>1. v \in (l + 1)..w
    BY <1>1, SMTT(30)
  <2>2. PICK j \in 1..n : p[j] = v
    BY <2>1, <1>5
  <2>3. j \in 1..m => v = l + j
    BY <2>2, <1>11
  <2>4. j - m \in 1..(n - m) /\ (j - m) + m = j
    BY <2>3, <1>1, SMTT(30)
  <2> QED
    BY <2>2, <2>4, <1>1
<1>16. l + m <= w
  BY <1>1, <1>12, SMTT(30)
<1> QED
  BY <1>1, <1>2, <1>8, <1>13, <1>14, <1>15, <1>16 DEF Stream, q, h

\* A sequence of elements of S is a sequence over S.
LEMMA SeqOf ==
    ASSUME NEW S, NEW T, NEW s \in Seq(T), \A k \in 1..Len(s) : s[k] \in S
    PROVE  s \in Seq(S)
BY SMTT(30)

\* All bytes are among those written.
LEMMA StreamTypes ==
    ASSUME NEW g \in Seq(Nat), NEW p \in Seq(Nat), NEW m \in Nat, NEW w \in 0..m, Stream(g, p, w)
    PROVE  g \in Seq(1..m) /\ p \in Seq(0..m)
<1> DEFINE n == Len(p)
           l == Len(g)
<1>1. n \in Nat /\ l \in Nat /\ w \in Nat /\ w <= m
  BY SMTT(30)
<1>2. l <= w /\ (\A k \in 1..l : g[k] = k) /\ \A j \in 1..n : p[j] # 0 => p[j] \in (l + 1)..w
  BY DEF Stream
<1> HIDE DEF n, l
<1>3. \A k \in 1..l : g[k] \in 1..m
  <2>1. \A k \in 1..l : k \in 1..m
    <3>1. l \in Nat /\ w \in Nat /\ w <= m /\ l <= w
      BY <1>1, <1>2
    <3> QED
      BY <3>1, SMTT(30)
  <2> QED
    BY <1>2, <2>1
<1>4. \A j \in 1..n : p[j] \in 0..m
  <2> TAKE j \in 1..n
  <2>1. CASE p[j] = 0
    BY <2>1, SMTT(30)
  <2>2. CASE p[j] \in (l + 1)..w
    BY <2>2, <1>1, SMTT(30)
  <2> QED
    BY <2>1, <2>2, <1>2
<1> QED
  BY <1>3, <1>4, SeqOf DEF n, l

-----------------------------------------------------------------------------
(* The readers of a child's output: exec.cpp and test_win32_pipe.cpp. *)

PipeState ==
    /\ program \in Pipe!PipeFns /\ at \in {"start", "create", "wait", "read", "exits", "done"}
    /\ proc_exit \in BOOLEAN /\ length \in 1..BufSize /\ left \in 0..MaxWait
    /\ holders \subseteq {"parent", "child"} /\ nothing \in BOOLEAN /\ running \in BOOLEAN
    /\ ret \in Pipe!Reasons

PipeData ==
    /\ got \in Seq(Nat) /\ pipe \in Seq(Nat) /\ written \in 0..MaxOut
    /\ Stream(got, pipe, written)

\* There is no child before it is created, and it cannot write any more when the
\* first two functions have met the broken pipe.
PipeEnd ==
    /\ at \in {"start", "create"} => "child" \notin holders
    /\ at = "exits" \/ (at = "done" /\ ret = "done" /\ program # "pipe") =>
          pipe = <<>> /\ "child" \notin holders

PipeInv == PipeState /\ PipeData /\ PipeEnd

\* Before the child runs the pipe is empty.
LEMMA PipeInit == Pipe!Init => PipeInv
<1> SUFFICES ASSUME Pipe!Init PROVE PipeInv
  OBVIOUS
<1>1. PipeState /\ PipeEnd
  <2>1. BufSize \in 1..BufSize /\ MaxWait \in 0..MaxWait
    BY SMTT(30)
  <2> QED
    BY <2>1 DEF Pipe!Init, Pipe!Idle, Pipe!Reasons, PipeState, PipeEnd
<1>2. got = <<>> /\ pipe = <<>> /\ written = 0
  BY DEF Pipe!Init, Pipe!Idle
<1>3. got \in Seq(Nat) /\ pipe \in Seq(Nat) /\ Len(got) = 0 /\ Len(pipe) = 0 /\ written \in 0..MaxOut
  BY <1>2, SMTT(30)
<1>4. Stream(got, pipe, written)
  BY <1>2, <1>3, SMTT(30) DEF Stream, Sorted
<1> QED
  BY <1>1, <1>3, <1>4 DEF PipeInv, PipeData

\* A step that moves no data.
LEMMA PipeQuiet ==
    ASSUME PipeInv,
           \/ Pipe!create_pipe \/ Pipe!create_process \/ Pipe!wait \/ Pipe!read_fails
           \/ Pipe!wait_exit \/ Pipe!child_close \/ Pipe!child_exit \/ UNCHANGED Pipe!vars
    PROVE  PipeInv'
<1>1. UNCHANGED <<got, pipe, written>>
  BY DEF Pipe!create_pipe, Pipe!create_process, Pipe!wait, Pipe!read_fails, Pipe!wait_exit,
     Pipe!child_close, Pipe!child_exit, Pipe!vars, Pipe!child, Pipe!parent
<1>2. PipeData'
  BY <1>1 DEF PipeInv, PipeData
<1>3. PipeState /\ PipeEnd
  BY DEF PipeInv
<1> USE DEF PipeState, PipeEnd, Pipe!Reasons, Pipe!child, Pipe!parent, Pipe!Return, Pipe!CloseWritePipe
<1>4. CASE Pipe!create_pipe
  BY <1>2, <1>3, <1>4 DEF PipeInv, Pipe!create_pipe
<1>5. CASE Pipe!create_process
  BY <1>2, <1>3, <1>5 DEF PipeInv, Pipe!create_process
<1>6. CASE Pipe!wait
  BY <1>2, <1>3, <1>6 DEF PipeInv, Pipe!wait
<1>7. CASE Pipe!read_fails
  BY <1>2, <1>3, <1>7 DEF PipeInv, Pipe!read_fails
<1>8. CASE Pipe!wait_exit
  <2>1. left' = left \/ (left > 0 /\ left' = left - 1)
    BY <1>8 DEF Pipe!wait_exit
  <2>2. left' \in 0..MaxWait
    <3>1. left \in 0..MaxWait
      BY <1>3
    <3> HIDE DEF PipeState, PipeEnd
    <3> QED
      BY <2>1, <3>1, SMTT(30)
  <2>3. proc_exit' \in BOOLEAN
    BY <1>3, <1>8 DEF Pipe!wait_exit
  <2> QED
    BY <1>2, <1>3, <1>8, <2>2, <2>3 DEF PipeInv, Pipe!wait_exit
<1>9. CASE Pipe!child_close \/ Pipe!child_exit
  BY <1>2, <1>3, <1>9 DEF PipeInv, Pipe!child_close, Pipe!child_exit
<1>10. CASE UNCHANGED Pipe!vars
  BY <1>2, <1>3, <1>10 DEF PipeInv, Pipe!vars
<1> QED
  BY <1>4, <1>5, <1>6, <1>7, <1>8, <1>9, <1>10

\* A byte that the child writes follows the ones in the pipe.
LEMMA PipeWrite ==
    ASSUME PipeInv, Pipe!child_write
    PROVE  PipeInv'
<1>1. /\ UNCHANGED <<program, at, proc_exit, length, left, got, ret, holders, running>>
      /\ "child" \in holders
      /\ \/ /\ written < MaxOut /\ written' = written + 1
            /\ pipe' = Append(pipe, written + 1) /\ nothing' = nothing
         \/ nothing' = TRUE /\ pipe' = Append(pipe, 0) /\ written' = written
  BY DEF Pipe!child_write, Pipe!parent
<1>2. PipeState' /\ PipeEnd'
  BY <1>1 DEF PipeInv, PipeState, PipeEnd
<1>3. got \in Seq(Nat) /\ pipe \in Seq(Nat) /\ written \in Nat /\ written \in 0..MaxOut
  BY SMTT(30) DEF PipeInv, PipeData
<1>4. Stream(got, pipe, written)
  BY DEF PipeInv, PipeData
<1>5. Stream(got', pipe', written')
  BY <1>1, <1>3, <1>4, StreamByte, StreamNothing
<1>6. pipe' \in Seq(Nat) /\ written' \in 0..MaxOut
  <2>1. pipe' = Append(pipe, written + 1) \/ pipe' = Append(pipe, 0)
    BY <1>1
  <2>2. written' = written \/ (written < MaxOut /\ written' = written + 1)
    BY <1>1
  <2> QED
    <3>1. pipe' \in Seq(Nat)
      <4>1. \A x \in Nat : Append(pipe, x) \in Seq(Nat)
        BY <1>3, SMTT(30)
      <4>2. written + 1 \in Nat /\ 0 \in Nat
        BY <1>3, SMTT(30)
      <4> QED
        BY <2>1, <4>1, <4>2
    <3>2. written' \in 0..MaxOut
      BY <2>2, <1>3, SMTT(30)
    <3> QED
      BY <3>1, <3>2
<1> QED
  BY <1>1, <1>2, <1>3, <1>5, <1>6 DEF PipeInv, PipeData

\* A prefix of what is in the pipe goes to the bytes read, the rest stays.
LEMMA ReadTypes ==
    ASSUME NEW g \in Seq(Nat), NEW p \in Seq(Nat), NEW n \in 1..Len(p)
    PROVE  g \o SubSeq(p, 1, n) \in Seq(Nat) /\ SubSeq(p, n + 1, Len(p)) \in Seq(Nat)
<1>1. SubSeq(p, 1, n) \in Seq(Nat)
  BY SMTT(30)
<1>2. SubSeq(p, n + 1, Len(p)) \in Seq(Nat)
  BY SMTT(30)
<1>3. \A s \in Seq(Nat) : g \o s \in Seq(Nat)
  BY SMTT(30)
<1> QED
  BY <1>1, <1>2, <1>3

\* read takes a prefix of what is in the pipe.
LEMMA PipeRead ==
    ASSUME PipeInv, Pipe!read
    PROVE  PipeInv'
<1>1. PICK n \in 0..length :
         /\ n <= Len(pipe) /\ (\A k \in 1..n : pipe[k] # 0)
         /\ n \notin {length, Len(pipe)} => pipe[n + 1] = 0
         /\ got' = got \o SubSeq(pipe, 1, n)
         /\ pipe' = IF n = 0 THEN Tail(pipe) ELSE SubSeq(pipe, n + 1, Len(pipe))
         /\ length' = IF program = "exec" /\ n > 0 THEN n ELSE length
  BY DEF Pipe!read, Pipe!Available, Pipe!LengthAfter
<1>2. /\ UNCHANGED <<program, proc_exit, left, written, nothing, running>>
      /\ at = "read" /\ pipe # <<>>
      /\ \/ at' = "done" /\ ret' = "done" /\ program = "pipe" /\ holders' = holders \ {"parent"}
         \/ at' = "wait" /\ UNCHANGED <<ret, holders>>
  BY DEF Pipe!read, Pipe!HandsOver, Pipe!Return, Pipe!child
<1>3. length \in 1..BufSize /\ length' \in 1..BufSize
  BY <1>1, SMTT(30) DEF PipeInv, PipeState
<1>4. PipeState' /\ PipeEnd'
  <2>1. holders' \subseteq holders /\ at' \in {"wait", "done"} /\ ret' \in Pipe!Reasons
        /\ (at' = "done" => program = "pipe")
    BY <1>2 DEF PipeInv, PipeState, Pipe!Reasons
  <2> QED
    BY <1>2, <1>3, <2>1 DEF PipeInv, PipeState, PipeEnd
<1>5. got \in Seq(Nat) /\ pipe \in Seq(Nat) /\ written \in Nat /\ Len(pipe) \in Nat \ {0}
  BY <1>2, SMTT(30) DEF PipeInv, PipeData
<1>6. Stream(got, pipe, written)
  BY DEF PipeInv, PipeData
<1>7. got' \in Seq(Nat) /\ pipe' \in Seq(Nat) /\ Stream(got', pipe', written')
  <2>1. CASE n = 0
    <3>1. pipe[1] = 0
      BY <2>1, <1>1, <1>3, <1>5, SMTT(30)
    <3>2. got' = got /\ pipe' = Tail(pipe) /\ pipe' \in Seq(Nat)
      BY <2>1, <1>1, <1>2, <1>5, SMTT(30)
    <3> QED
      BY <3>1, <3>2, <1>2, <1>5, <1>6, StreamSkip
  <2>2. CASE n # 0
    <3>1. n \in 1..Len(pipe)
      BY <2>2, <1>1, <1>3, <1>5, SMTT(30)
    <3>2. got' = got \o SubSeq(pipe, 1, n) /\ pipe' = SubSeq(pipe, n + 1, Len(pipe))
      BY <2>2, <1>1
    <3>3. got' \in Seq(Nat) /\ pipe' \in Seq(Nat)
      BY <3>1, <3>2, <1>5, ReadTypes
    <3> QED
      BY <3>1, <3>2, <3>3, <1>1, <1>2, <1>5, <1>6, StreamRead
  <2> QED
    BY <2>1, <2>2
<1> QED
  BY <1>2, <1>4, <1>7 DEF PipeInv, PipeData

\* Every step of the parent and the child keeps the invariant of the pipe.
LEMMA PipeNext ==
    ASSUME PipeInv, Pipe!Next \/ UNCHANGED Pipe!vars
    PROVE  PipeInv'
BY PipeQuiet, PipeWrite, PipeRead DEF Pipe!Next, Pipe!Run

\* The invariant includes the types and bounds of the reader.
LEMMA PipeTyped == PipeInv => Pipe!TypeOK
<1> SUFFICES ASSUME PipeInv PROVE Pipe!TypeOK
  OBVIOUS
<1>1. MaxOut \in Nat
  OBVIOUS
<1>2. got \in Seq(1..MaxOut) /\ pipe \in Seq(0..MaxOut)
  BY <1>1, StreamTypes DEF PipeInv, PipeData
<1> QED
  BY <1>2 DEF PipeInv, PipeData, PipeState, Pipe!TypeOK

\* The callback saw a prefix of what the child wrote, and after a broken pipe all of it.
LEMMA PipeCaptured == PipeInv => Pipe!Captured
<1> SUFFICES ASSUME PipeInv PROVE Pipe!Captured
  OBVIOUS
<1>1. got \in Seq(Nat) /\ pipe \in Seq(Nat) /\ written \in Nat
  BY SMTT(30) DEF PipeInv, PipeData
<1>2. /\ Len(got) <= written /\ \A k \in 1..Len(got) : got[k] = k
      /\ \A v \in (Len(got) + 1)..written : \E j \in 1..Len(pipe) : pipe[j] = v
  BY DEF PipeInv, PipeData, Stream
<1>3. got = [k \in 1..Len(got) |-> k]
  BY <1>1, <1>2, SMTT(30)
<1>4. pipe = <<>> => Len(got) = written
  <2> SUFFICES ASSUME pipe = <<>>, Len(got) # written PROVE FALSE
    OBVIOUS
  <2>1. written \in (Len(got) + 1)..written
    BY <1>1, <1>2, SMTT(30)
  <2>2. PICK j \in 1..Len(pipe) : pipe[j] = written
    BY <2>1, <1>2
  <2> QED
    BY <2>2, SMTT(30)
<1> QED
  BY <1>2, <1>3, <1>4 DEF PipeInv, PipeEnd, Pipe!Captured

-----------------------------------------------------------------------------
(* send_intercmd and exec_intercmd of exec.cpp. *)

InterTypes ==
    /\ hproc \in 0..MaxExec /\ rh \in 0..MaxExec /\ wh \in 0..MaxExec
    /\ started \in 0..MaxExec /\ children \subseteq 1..started
    /\ wopen \in BOOLEAN

\* What child k wrote is handed over or in its pipe, also when the child has ended.
InterData ==
    /\ handed \in [Inter!Child -> Seq(Nat)] /\ outputs \in [Inter!Child -> Seq(Nat)]
    /\ wrote \in [Inter!Child -> Nat]
    /\ \A k \in Inter!Child : Stream(handed[k], outputs[k], wrote[k])

\* A child is started only when none runs, and the handles of a call that goes on
\* are those of a child.
InterCall ==
    /\ Inter!OneChild
    /\ at = "exec" => children = {}
    /\ at \in {"check", "send", "wait", "read"} => rh \in Inter!Child

InterInv == InterTypes /\ InterData /\ InterCall

\* Before the first command nothing is handed over.
LEMMA InterInit == Inter!Init => InterInv
<1> SUFFICES ASSUME Inter!Init PROVE InterInv
  OBVIOUS
<1>1. /\ hproc = 0 /\ rh = 0 /\ wh = 0 /\ started = 0 /\ wopen = FALSE /\ children = {} /\ at = "idle"
      /\ wrote = [k \in Inter!Child |-> 0]
      /\ outputs = [k \in Inter!Child |-> <<>>] /\ handed = [k \in Inter!Child |-> <<>>]
  BY DEF Inter!Init, Inter!NoChild
<1>2. 0 \in 0..MaxExec
  BY SMTT(30)
<1>3. InterTypes
  BY <1>1, <1>2 DEF InterTypes
<1>4. Stream(<<>>, <<>>, 0)
  BY SMTT(30) DEF Stream, Sorted
<1>5. <<>> \in Seq(Nat) /\ 0 \in Nat
  BY SMTT(30)
<1>6. InterData
  BY <1>1, <1>4, <1>5 DEF InterData
<1>7. InterCall
  BY <1>1 DEF InterCall, Inter!OneChild
<1> QED
  BY <1>3, <1>6, <1>7 DEF InterInv

\* A step that moves no data.
LEMMA InterQuiet ==
    ASSUME InterInv,
           \/ Inter!send_intercmd \/ Inter!exec_intercmd \/ Inter!check \/ Inter!send \/ Inter!wait
           \/ (\E k \in Inter!Child : Inter!child_dies(k)) \/ UNCHANGED Inter!vars
    PROVE  InterInv'
<1>1. UNCHANGED <<handed, outputs, wrote>>
  BY DEF Inter!send_intercmd, Inter!exec_intercmd, Inter!check, Inter!send, Inter!wait,
     Inter!child_dies, Inter!vars, Inter!child
<1>2. InterData'
  BY <1>1 DEF InterInv, InterData
<1>3. InterTypes /\ InterCall
  BY DEF InterInv
<1> USE DEF InterTypes, InterCall, Inter!OneChild, Inter!child, Inter!ctx, Inter!call, Inter!Return
<1>4. CASE Inter!send_intercmd
  <2>1. /\ UNCHANGED <<hproc, rh, wh, wopen, started, children>>
        /\ \/ at' = "idle"
           \/ hproc # 0 /\ rh # 0 /\ wh # 0 /\ at' = "check"
           \/ ~(hproc # 0 /\ rh # 0 /\ wh # 0) /\ at' = "exec"
    BY <1>4 DEF Inter!send_intercmd, Inter!is_intercmdctx_ready
  <2>2. rh # 0 => rh \in Inter!Child
    BY <1>3, SMTT(30) DEF Inter!Child
  <2>3. 0 \notin children
    BY <1>3, SMTT(30)
  <2>4. (hproc = 0 \/ rh = 0 \/ wh = 0) => children = {}
    BY <1>3, <2>3
  <2> QED
    BY <1>2, <1>3, <2>1, <2>2, <2>4 DEF InterInv
<1>5. CASE Inter!exec_intercmd
  <2>1. CASE UNCHANGED <<hproc, rh, wh, wopen, started, children>> /\ at' = "idle"
    BY <1>2, <1>3, <2>1 DEF InterInv
  <2>2. CASE \E k : k = started + 1 /\ k \in Inter!Child /\ started' = k /\ children' = children \cup {k}
                    /\ hproc' = k /\ rh' = k /\ wh' = k /\ wopen' = TRUE /\ at' = "check"
    <3>1. PICK k : k = started + 1 /\ k \in Inter!Child /\ started' = k /\ children' = children \cup {k}
                   /\ hproc' = k /\ rh' = k /\ wh' = k /\ wopen' = TRUE /\ at' = "check"
      BY <2>2
    <3>2. children = {}
      BY <1>3, <1>5 DEF Inter!exec_intercmd
    <3>3. k \in 0..MaxExec /\ k \in 1..k
      BY <3>1, SMTT(30) DEF Inter!Child
    <3> QED
      BY <1>2, <1>3, <3>1, <3>2, <3>3 DEF InterInv
  <2> QED
    BY <1>5, <2>1, <2>2 DEF Inter!exec_intercmd
<1>6. CASE Inter!check
  <2>1. 0 \in 0..MaxExec
    BY SMTT(30)
  <2> QED
    BY <1>2, <1>3, <1>6, <2>1 DEF InterInv, Inter!check
<1>7. CASE Inter!send
  BY <1>2, <1>3, <1>7 DEF InterInv, Inter!send
<1>8. CASE Inter!wait
  <2>1. 0 \in 0..MaxExec
    BY SMTT(30)
  <2> QED
    BY <1>2, <1>3, <1>8, <2>1 DEF InterInv, Inter!wait, Inter!Finished
<1>9. CASE \E k \in Inter!Child : Inter!child_dies(k)
  BY <1>2, <1>3, <1>9 DEF InterInv, Inter!child_dies, Inter!Ends
<1>10. CASE UNCHANGED Inter!vars
  BY <1>2, <1>3, <1>10 DEF InterInv, Inter!vars
<1> QED
  BY <1>4, <1>5, <1>6, <1>7, <1>8, <1>9, <1>10

\* Data move at one child only.
LEMMA InterAt ==
    ASSUME InterInv, NEW k \in Inter!Child, NEW g \in Seq(Nat), NEW p \in Seq(Nat), NEW w \in Nat,
           Stream(g, p, w),
           handed' = [handed EXCEPT ![k] = g], outputs' = [outputs EXCEPT ![k] = p],
           wrote' = [wrote EXCEPT ![k] = w]
    PROVE  InterData'
<1>1. /\ handed \in [Inter!Child -> Seq(Nat)] /\ outputs \in [Inter!Child -> Seq(Nat)]
      /\ wrote \in [Inter!Child -> Nat]
      /\ \A j \in Inter!Child : Stream(handed[j], outputs[j], wrote[j])
  BY DEF InterInv, InterData
<1>2. \A j \in Inter!Child : /\ handed'[j] = IF j = k THEN g ELSE handed[j]
                             /\ outputs'[j] = IF j = k THEN p ELSE outputs[j]
                             /\ wrote'[j] = IF j = k THEN w ELSE wrote[j]
  BY <1>1
<1>3. /\ handed' \in [Inter!Child -> Seq(Nat)] /\ outputs' \in [Inter!Child -> Seq(Nat)]
      /\ wrote' \in [Inter!Child -> Nat]
  BY <1>1
<1>4. \A j \in Inter!Child : Stream(handed'[j], outputs'[j], wrote'[j])
  BY <1>1, <1>2
<1> QED
  BY <1>3, <1>4 DEF InterData

\* A child takes its input and writes its output in order.
LEMMA InterChild ==
    ASSUME InterInv, NEW k \in Inter!Child, Inter!child_reads(k) \/ Inter!child_writes(k)
    PROVE  InterInv'
<1>1. /\ handed[k] \in Seq(Nat) /\ outputs[k] \in Seq(Nat) /\ wrote[k] \in Nat
      /\ Stream(handed[k], outputs[k], wrote[k])
      /\ handed = [handed EXCEPT ![k] = handed[k]] /\ outputs = [outputs EXCEPT ![k] = outputs[k]]
      /\ wrote = [wrote EXCEPT ![k] = wrote[k]]
  BY DEF InterInv, InterData
<1>2. /\ UNCHANGED <<hproc, rh, wh, wopen, at, started, handed>>
      /\ children' \subseteq children
      /\ \/ UNCHANGED <<outputs, wrote>>
         \/ outputs' = [outputs EXCEPT ![k] = Append(outputs[k], 0)] /\ wrote' = wrote
         \/ /\ outputs' = [outputs EXCEPT ![k] = Append(outputs[k], wrote[k] + 1)]
            /\ wrote' = [wrote EXCEPT ![k] = wrote[k] + 1]
  BY DEF Inter!child_reads, Inter!child_writes, Inter!ctx, Inter!Ends
<1>3. InterTypes' /\ InterCall'
  BY <1>2 DEF InterInv, InterTypes, InterCall, Inter!OneChild
<1>4. \A x \in Nat : Append(outputs[k], x) \in Seq(Nat)
  BY <1>1, SMTT(30)
<1>5. wrote[k] + 1 \in Nat /\ 0 \in Nat
  BY <1>1, SMTT(30)
<1>6. InterData'
  <2>1. CASE UNCHANGED <<outputs, wrote>>
    BY <1>2, <2>1 DEF InterInv, InterData
  <2>2. CASE outputs' = [outputs EXCEPT ![k] = Append(outputs[k], 0)] /\ wrote' = wrote
    <3>1. Stream(handed[k], Append(outputs[k], 0), wrote[k])
      BY <1>1, StreamNothing
    <3> QED
      BY <1>1, <1>2, <1>4, <1>5, <2>2, <3>1, InterAt
  <2>3. CASE /\ outputs' = [outputs EXCEPT ![k] = Append(outputs[k], wrote[k] + 1)]
             /\ wrote' = [wrote EXCEPT ![k] = wrote[k] + 1]
    <3>1. Stream(handed[k], Append(outputs[k], wrote[k] + 1), wrote[k] + 1)
      BY <1>1, StreamByte
    <3> QED
      BY <1>1, <1>2, <1>4, <1>5, <2>3, <3>1, InterAt
  <2> QED
    BY <1>2, <2>1, <2>2, <2>3
<1> QED
  BY <1>3, <1>6 DEF InterInv

\* read takes the next output of the child asked.
LEMMA InterRead ==
    ASSUME InterInv, Inter!read
    PROVE  InterInv'
<1>1. /\ UNCHANGED <<hproc, rh, wh, wopen, started, children, wrote>> /\ at' \in {"idle", "wait"}
      /\ at = "read" /\ outputs[rh] # <<>>
  BY DEF Inter!read, Inter!ctx, Inter!child, Inter!Return
<1>2. InterTypes' /\ InterCall'
  BY <1>1 DEF InterInv, InterTypes, InterCall, Inter!OneChild
<1>3. CASE UNCHANGED <<outputs, handed>>
  BY <1>1, <1>2, <1>3 DEF InterInv, InterData
<1>4. ASSUME NEW n \in 0..BufSize, n <= Len(outputs[rh]), \A j \in 1..n : outputs[rh][j] # 0,
             n \notin {BufSize, Len(outputs[rh])} => outputs[rh][n + 1] = 0,
             outputs' = [outputs EXCEPT ![rh] = SubSeq(outputs[rh], IF n = 0 THEN 2 ELSE n + 1, Len(outputs[rh]))],
             handed' = [handed EXCEPT ![rh] = handed[rh] \o SubSeq(outputs[rh], 1, n)]
      PROVE  InterData'
  <2>1. PICK k \in Inter!Child : k = rh
    BY <1>1 DEF InterInv, InterCall
  <2>2. PICK p \in Seq(Nat), g \in Seq(Nat), w \in Nat :
           p = outputs[k] /\ g = handed[k] /\ w = wrote[k] /\ Stream(g, p, w)
    BY DEF InterInv, InterData
  <2>3. wrote' = [wrote EXCEPT ![k] = w]
    BY <1>1, <2>2 DEF InterInv, InterData
  <2>4. /\ p # <<>> /\ n <= Len(p) /\ (\A j \in 1..n : p[j] # 0)
        /\ n \notin {BufSize, Len(p)} => p[n + 1] = 0
        /\ outputs' = [outputs EXCEPT ![k] = SubSeq(p, IF n = 0 THEN 2 ELSE n + 1, Len(p))]
        /\ handed' = [handed EXCEPT ![k] = g \o SubSeq(p, 1, n)]
    BY <1>1, <1>4, <2>1, <2>2
  <2>5. Len(p) \in Nat \ {0} /\ BufSize # 0
    BY <2>4, SMTT(30)
  <2>6. CASE n = 0
    <3>1. p[1] = 0
      BY <2>4, <2>5, <2>6, SMTT(30)
    <3>2. g \o SubSeq(p, 1, n) = g /\ SubSeq(p, 2, Len(p)) = Tail(p) /\ Tail(p) \in Seq(Nat)
      BY <2>4, <2>6, SMTT(30)
    <3>3. Stream(g, Tail(p), w)
      BY <2>2, <2>4, <3>1, StreamSkip
    <3> QED
      BY <2>3, <2>4, <2>6, <3>2, <3>3, InterAt
  <2>7. CASE n # 0
    <3>1. n \in 1..Len(p)
      BY <2>4, <2>5, <2>7, SMTT(30)
    <3>2. g \o SubSeq(p, 1, n) \in Seq(Nat) /\ SubSeq(p, n + 1, Len(p)) \in Seq(Nat)
      BY <3>1, SMTT(30)
    <3>3. Stream(g \o SubSeq(p, 1, n), SubSeq(p, n + 1, Len(p)), w)
      BY <2>2, <2>4, <3>1, StreamRead
    <3> QED
      BY <2>3, <2>4, <2>7, <3>2, <3>3, InterAt
  <2> QED
    BY <2>6, <2>7
<1> QED
  BY <1>2, <1>3, <1>4 DEF InterInv, Inter!read, Inter!Available

\* Every step of the parent and its children keeps the invariant.
LEMMA InterNext ==
    ASSUME InterInv, Inter!Next \/ UNCHANGED Inter!vars
    PROVE  InterInv'
BY InterQuiet, InterChild, InterRead DEF Inter!Next, Inter!Run, Inter!Answers

\* The invariant says in what order the commands were handed over.
LEMMA InterOrder == InterInv => Inter!InOrder
<1> SUFFICES ASSUME InterInv, NEW k \in Inter!Child
             PROVE  /\ handed[k] = [n \in 1..Len(handed[k]) |-> n]
                    /\ {outputs[k][j] : j \in DOMAIN outputs[k]} \ {0} = (Len(handed[k]) + 1)..wrote[k]
                    /\ \A a, b \in DOMAIN outputs[k] :
                          a < b /\ outputs[k][b] # 0 => outputs[k][a] < outputs[k][b]
  BY DEF Inter!InOrder
<1> DEFINE p == outputs[k]
           g == handed[k]
           w == wrote[k]
<1>1. p \in Seq(Nat) /\ g \in Seq(Nat) /\ w \in Nat /\ Stream(g, p, w)
  BY DEF InterInv, InterData
<1> HIDE DEF p, g, w
<1>2. DOMAIN p = 1..Len(p) /\ Len(g) \in Nat
  BY <1>1, SMTT(30)
<1>3. \A j \in 1..Len(g) : g[j] = j
  BY <1>1 DEF Stream
<1>4. g = [n \in 1..Len(g) |-> n]
  BY <1>1, <1>3, SMTT(30)
<1>5. /\ \A j \in 1..Len(p) : p[j] # 0 => p[j] \in (Len(g) + 1)..w
      /\ \A v \in (Len(g) + 1)..w : \E j \in 1..Len(p) : p[j] = v
      /\ \A a, b \in 1..Len(p) : a < b /\ p[b] # 0 => p[a] < p[b]
  BY <1>1 DEF Stream, Sorted
<1>6. 0 \notin (Len(g) + 1)..w
  BY <1>1, <1>2, SMTT(30)
<1>7. {p[j] : j \in DOMAIN p} \ {0} = (Len(g) + 1)..w
  BY <1>2, <1>5, <1>6
<1>8. \A a, b \in DOMAIN p : a < b /\ p[b] # 0 => p[a] < p[b]
  BY <1>2, <1>5
<1> QED
  BY <1>4, <1>7, <1>8 DEF p, g, w

-----------------------------------------------------------------------------
(* uv.c *)

\* Contexts in memory: one that is polled has a socket, one that is free has none.
CurlInv ==
    /\ context \in [Curl!Context -> [state : {"freed", "polled", "closing"}, fd : Sock \cup {0}]]
    /\ socketp \in [Sock -> 0..MaxContext]
    /\ \A c \in Curl!Context : context[c].state = "freed" => context[c] = Curl!Freed
    /\ \A c \in Curl!Polled : context[c].fd \in Sock
    /\ Curl!Owned /\ Curl!NoneAtEnd

\* Before the first download there is no context.
LEMMA CurlInit == Curl!Init => CurlInv
<1> SUFFICES ASSUME Curl!Init PROVE CurlInv
  OBVIOUS
<1>1. /\ at = "start" /\ context = [c \in Curl!Context |-> Curl!Freed]
      /\ socketp = [s \in Sock |-> 0]
  BY DEF Curl!Init, Curl!UvInit
<1>2. 0 \in 0..MaxContext
  BY SMTT(30)
<1>3. Curl!Freed \in [state : {"freed", "polled", "closing"}, fd : Sock \cup {0}] /\ Curl!Freed.state = "freed"
  BY SMTT(30) DEF Curl!Freed
<1>4. Curl!Polled = {}
  BY <1>1, <1>3 DEF Curl!Polled
<1> QED
  BY <1>1, <1>2, <1>3, <1>4 DEF CurlInv, Curl!Owned, Curl!NoneAtEnd

\* A step that changes no context.
LEMMA CurlQuiet ==
    ASSUME CurlInv, UNCHANGED <<context, socketp>>, at' = "done" => Curl!NoneAtEnd'
    PROVE  CurlInv'
<1>1. Curl!Polled' = Curl!Polled
  BY DEF Curl!Polled
<1>2. Curl!NoneAtEnd'
  BY DEF Curl!NoneAtEnd
<1> QED
  BY <1>1, <1>2 DEF CurlInv, Curl!Owned

\* uv_run returns only when no handle is active or closing.
LEMMA CurlEnds ==
    ASSUME CurlInv, Curl!uv_run_returns
    PROVE  CurlInv'
<1>1. UNCHANGED <<context, socketp>> /\ Curl!Polled = {} /\ Curl!Closing = {}
  BY DEF Curl!uv_run_returns
<1>2. \A c \in Curl!Context : context[c] = Curl!Freed
  <2> TAKE c \in Curl!Context
  <2>1. context[c].state \in {"freed", "polled", "closing"}
    BY SMTT(30) DEF CurlInv
  <2> QED
    BY <2>1, <1>1 DEF CurlInv, Curl!Polled, Curl!Closing
<1> QED
  BY <1>1, <1>2, CurlQuiet DEF Curl!NoneAtEnd

\* The callbacks of the closed handles.
LEMMA CurlCloses ==
    ASSUME CurlInv, Curl!curl_close_cb
    PROVE  CurlInv'
<1>1. /\ at = "loop" /\ at' = at /\ socketp' = socketp
      /\ context' = [c \in Curl!Context |-> IF c \in Curl!Closing THEN Curl!Freed ELSE context[c]]
  BY DEF Curl!curl_close_cb
<1>2. Curl!Freed \in [state : {"freed", "polled", "closing"}, fd : Sock \cup {0}] /\ Curl!Freed.state = "freed"
  BY SMTT(30) DEF Curl!Freed
<1>3. context \in [Curl!Context -> [state : {"freed", "polled", "closing"}, fd : Sock \cup {0}]]
  BY DEF CurlInv
<1>4. /\ context' \in [Curl!Context -> [state : {"freed", "polled", "closing"}, fd : Sock \cup {0}]]
      /\ \A c \in Curl!Context : context'[c] = IF c \in Curl!Closing THEN Curl!Freed ELSE context[c]
  BY <1>1, <1>2, <1>3
<1>5. \A c \in Curl!Context : context[c].state = "polled" => context'[c] = context[c]
  BY <1>4 DEF Curl!Closing
<1>6. Curl!Polled' = Curl!Polled
  BY <1>2, <1>4, <1>5 DEF Curl!Polled
<1>7. \A c \in Curl!Context : context'[c].state = "freed" => context'[c] = Curl!Freed
  BY <1>4 DEF CurlInv
<1>8. \A s \in Sock : socketp[s] # 0 => socketp[s] \in Curl!Context
  BY SMTT(30) DEF CurlInv, Curl!Context
<1>9. \A s \in Sock : socketp[s] # 0 => context[socketp[s]].state = "polled"
  <2> SUFFICES ASSUME NEW s \in Sock, socketp[s] # 0 PROVE context[socketp[s]].state = "polled"
    OBVIOUS
  <2>1. context[socketp[s]] = [state |-> "polled", fd |-> s]
    BY DEF CurlInv, Curl!Owned
  <2> QED
    BY <2>1, SMTT(30)
<1>10. Curl!Owned'
  BY <1>1, <1>5, <1>6, <1>8, <1>9 DEF CurlInv, Curl!Owned, Curl!Polled
<1>11. \A c \in Curl!Polled' : context'[c].fd \in Sock
  BY <1>5, <1>6 DEF CurlInv, Curl!Polled
<1>12. Curl!NoneAtEnd'
  BY <1>1 DEF Curl!NoneAtEnd
<1> QED
  BY <1>1, <1>4, <1>7, <1>10, <1>11, <1>12 DEF CurlInv

\* A context for a socket that has none, in memory that is free.
LEMMA CurlCreates ==
    ASSUME CurlInv, at' = at, at = "curl", NEW s \in Sock, socketp[s] = 0, NEW c \in Curl!Context,
           Curl!create_curl_context(s, c)
    PROVE  CurlInv'
<1> DEFINE new == [state |-> "polled", fd |-> s]
<1>1. /\ c \notin Curl!Polled /\ c \notin Curl!Closing
      /\ context' = [context EXCEPT ![c] = new] /\ socketp' = [socketp EXCEPT ![s] = c]
  BY DEF Curl!create_curl_context, Curl!Assigns
<1>2. new \in [state : {"freed", "polled", "closing"}, fd : Sock \cup {0}] /\ new.state = "polled" /\ new.fd = s
  BY SMTT(30)
<1> HIDE DEF new
<1>3. context \in [Curl!Context -> [state : {"freed", "polled", "closing"}, fd : Sock \cup {0}]]
      /\ socketp \in [Sock -> 0..MaxContext]
  BY DEF CurlInv
<1>4. c \in 0..MaxContext /\ c # 0
  BY SMTT(30) DEF Curl!Context
<1>5. /\ context' \in [Curl!Context -> [state : {"freed", "polled", "closing"}, fd : Sock \cup {0}]]
      /\ context'[c] = new /\ \A d \in Curl!Context : d # c => context'[d] = context[d]
  BY <1>1, <1>2, <1>3
<1>6. /\ socketp' \in [Sock -> 0..MaxContext]
      /\ socketp'[s] = c /\ \A t \in Sock : t # s => socketp'[t] = socketp[t]
  BY <1>1, <1>3, <1>4
<1>7. Curl!Polled' = Curl!Polled \cup {c}
  BY <1>2, <1>5 DEF Curl!Polled
<1>8. \A t \in Sock : socketp[t] # 0 => socketp[t] \in Curl!Context /\ socketp[t] # c
  <2> SUFFICES ASSUME NEW t \in Sock, socketp[t] # 0 PROVE socketp[t] \in Curl!Context /\ socketp[t] # c
    OBVIOUS
  <2>1. socketp[t] \in Curl!Context
    BY <1>3, SMTT(30) DEF Curl!Context
  <2>2. context[socketp[t]] = [state |-> "polled", fd |-> t]
    BY DEF CurlInv, Curl!Owned
  <2>3. context[socketp[t]].state = "polled"
    BY <2>2, SMTT(30)
  <2> QED
    BY <2>1, <2>3, <1>1 DEF Curl!Polled
<1>9. \A t \in Sock : socketp'[t] # 0 => context'[socketp'[t]] = [state |-> "polled", fd |-> t]
  <2> SUFFICES ASSUME NEW t \in Sock, socketp'[t] # 0
               PROVE  context'[socketp'[t]] = [state |-> "polled", fd |-> t]
    OBVIOUS
  <2>1. CASE t = s
    BY <2>1, <1>5, <1>6 DEF new
  <2>2. CASE t # s
    <3>1. socketp'[t] = socketp[t] /\ socketp[t] # 0
      BY <2>2, <1>6
    <3>2. context'[socketp[t]] = context[socketp[t]]
      BY <3>1, <1>5, <1>8
    <3>3. context[socketp[t]] = [state |-> "polled", fd |-> t]
      BY <3>1 DEF CurlInv, Curl!Owned
    <3> QED
      BY <3>1, <3>2, <3>3
  <2> QED
    BY <2>1, <2>2
<1>10. \A d \in Curl!Polled : d # c /\ d \in Curl!Context /\ context[d].fd \in Sock /\ socketp[context[d].fd] = d
  BY <1>1 DEF CurlInv, Curl!Owned, Curl!Polled
<1>11. \A d \in Curl!Polled : d # 0
  BY SMTT(30) DEF Curl!Polled, Curl!Context
<1>12. \A d \in Curl!Polled' : context'[d].fd \in Sock /\ socketp'[context'[d].fd] = d
  <2> TAKE d \in Curl!Polled'
  <2>1. CASE d = c
    BY <2>1, <1>2, <1>5, <1>6
  <2>2. CASE d \in Curl!Polled
    <3>1. context'[d] = context[d] /\ context[d].fd # s
      BY <2>2, <1>5, <1>10, <1>11
    <3> QED
      BY <2>2, <3>1, <1>6, <1>10
  <2> QED
    BY <2>1, <2>2, <1>7
<1>13. \A d \in Curl!Context : context'[d].state = "freed" => context'[d] = Curl!Freed
  BY <1>2, <1>5 DEF CurlInv
<1>14. Curl!NoneAtEnd'
  BY DEF Curl!NoneAtEnd
<1> QED
  BY <1>5, <1>6, <1>9, <1>12, <1>13, <1>14 DEF CurlInv, Curl!Owned

\* A socket is given up: its context waits to be closed.
LEMMA CurlRemoves ==
    ASSUME CurlInv, NEW s \in Sock, Curl!handle_socket_remove(s)
    PROVE  CurlInv'
<1>1. PICK c : c = socketp[s]
  OBVIOUS
<1>2. /\ c # 0 /\ at = "curl" /\ at' = at
      /\ context' = [context EXCEPT ![c].state = "closing"] /\ socketp' = [socketp EXCEPT ![s] = 0]
  BY <1>1 DEF Curl!handle_socket_remove, Curl!destroy_curl_context, Curl!Assigns
<1>3. context \in [Curl!Context -> [state : {"freed", "polled", "closing"}, fd : Sock \cup {0}]]
      /\ socketp \in [Sock -> 0..MaxContext]
  BY DEF CurlInv
<1>4. c \in Curl!Context /\ 0 \in 0..MaxContext
  BY <1>1, <1>2, <1>3, SMTT(30) DEF Curl!Context
<1>5. context[c].fd = s
  <2>1. context[c] = [state |-> "polled", fd |-> s]
    BY <1>1, <1>2 DEF CurlInv, Curl!Owned
  <2> QED
    BY <2>1, SMTT(30)
<1>6. /\ context' \in [Curl!Context -> [state : {"freed", "polled", "closing"}, fd : Sock \cup {0}]]
      /\ context'[c].state = "closing" /\ \A d \in Curl!Context : d # c => context'[d] = context[d]
  BY <1>2, <1>3, <1>4, SMTT(30)
<1>7. /\ socketp' \in [Sock -> 0..MaxContext]
      /\ socketp'[s] = 0 /\ \A t \in Sock : t # s => socketp'[t] = socketp[t]
  BY <1>2, <1>3, <1>4
<1>8. Curl!Polled' = Curl!Polled \ {c}
  BY <1>6 DEF Curl!Polled
<1>9. \A t \in Sock : t # s /\ socketp[t] # 0 => socketp[t] \in Curl!Context /\ socketp[t] # c
  <2> SUFFICES ASSUME NEW t \in Sock, t # s, socketp[t] # 0 PROVE socketp[t] \in Curl!Context /\ socketp[t] # c
    OBVIOUS
  <2>1. socketp[t] \in Curl!Context
    BY <1>3, SMTT(30) DEF Curl!Context
  <2>2. context[socketp[t]] = [state |-> "polled", fd |-> t]
    BY DEF CurlInv, Curl!Owned
  <2>3. context[socketp[t]].fd = t
    BY <2>2, SMTT(30)
  <2> QED
    BY <2>1, <2>3, <1>5
<1>10. \A t \in Sock : socketp'[t] # 0 => context'[socketp'[t]] = [state |-> "polled", fd |-> t]
  <2> SUFFICES ASSUME NEW t \in Sock, socketp'[t] # 0
               PROVE  context'[socketp'[t]] = [state |-> "polled", fd |-> t]
    OBVIOUS
  <2>1. socketp'[t] = socketp[t] /\ t # s /\ socketp[t] # 0
    BY <1>7
  <2>2. context'[socketp[t]] = context[socketp[t]]
    BY <2>1, <1>6, <1>9
  <2>3. context[socketp[t]] = [state |-> "polled", fd |-> t]
    BY <2>1 DEF CurlInv, Curl!Owned
  <2> QED
    BY <2>1, <2>2, <2>3
<1>11. \A d \in Curl!Polled' : context'[d].fd \in Sock /\ socketp'[context'[d].fd] = d
  <2> TAKE d \in Curl!Polled'
  <2>1. d \in Curl!Polled /\ d # c /\ d \in Curl!Context
    BY <1>8 DEF Curl!Polled
  <2>2. context[d].fd \in Sock /\ socketp[context[d].fd] = d /\ context'[d] = context[d]
    BY <2>1, <1>6 DEF CurlInv, Curl!Owned
  <2>3. context[d].fd # s
    BY <2>1, <2>2, <1>1
  <2> QED
    BY <2>2, <2>3, <1>7
<1>12. \A d \in Curl!Context : context'[d].state = "freed" => context'[d] = Curl!Freed
  BY <1>6 DEF CurlInv
<1>13. Curl!NoneAtEnd'
  BY <1>2 DEF Curl!NoneAtEnd
<1> QED
  BY <1>6, <1>7, <1>10, <1>11, <1>12, <1>13 DEF CurlInv, Curl!Owned

\* Every step of the downloads keeps the invariant.
LEMMA CurlNext ==
    ASSUME CurlInv, Curl!Next \/ UNCHANGED Curl!vars
    PROVE  CurlInv'
<1>1. CASE \/ Curl!add_download \/ Curl!curl_perform \/ Curl!on_timeout \/ Curl!check_multi_info
           \/ Curl!start_timeout \/ Curl!handle_socket_default \/ Curl!socket_action_returns
  <2>1. UNCHANGED <<context, socketp>> /\ (at' # "done" \/ (at = "curl" /\ at' = at))
    BY <1>1 DEF Curl!add_download, Curl!curl_perform, Curl!on_timeout, Curl!check_multi_info,
       Curl!start_timeout, Curl!handle_socket_default, Curl!socket_action_returns, Curl!Abort
  <2> QED
    BY <2>1, CurlQuiet
<1>2. CASE UNCHANGED Curl!vars
  <2>1. UNCHANGED <<at, context, socketp>>
    BY <1>2 DEF Curl!vars
  <2>2. Curl!NoneAtEnd'
    BY <2>1 DEF CurlInv, Curl!NoneAtEnd
  <2> QED
    BY <2>1, <2>2, CurlQuiet
<1>3. ASSUME NEW s \in Sock, Curl!handle_socket_poll(s) PROVE CurlInv'
  <2>1. \/ /\ at = "curl" /\ (at' = at \/ at' = "abort")
           /\ UNCHANGED <<context, socketp>>
        \/ /\ at = "curl" /\ at' = at /\ socketp[s] = 0
           /\ \E c \in Curl!Context : Curl!create_curl_context(s, c)
    BY <1>3 DEF Curl!handle_socket_poll, Curl!Abort
  <2> QED
    BY <2>1, CurlQuiet, CurlCreates
<1> QED
  BY <1>1, <1>2, <1>3, CurlEnds, CurlCloses, CurlRemoves DEF Curl!Next, Curl!Loop, Curl!Libcurl


-----------------------------------------------------------------------------
(* Counting positions. *)

INSTANCE FiniteSetTheorems

\* No chunk is counted where there is none.
LEMMA CountNone == H2!Cardinality({}) = 0
<1>1. H2!Cardinality({}) = Cardinality({})
  BY DEF Cardinality, H2!Cardinality
<1> QED
  BY <1>1, FS_EmptySet

\* A frame that arrives is counted once.
LEMMA CountMore ==
    ASSUME NEW n \in Nat, NEW S, S \subseteq 1..n
    PROVE  H2!Cardinality(S) \in Nat /\ H2!Cardinality(S \cup {n + 1}) = H2!Cardinality(S) + 1
<1>1. IsFiniteSet(1..n)
  <2>1. n \in Int /\ 1 \in Int
    BY SMTT(30)
  <2> QED
    BY <2>1, FS_Interval
<1>2. IsFiniteSet(S)
  BY <1>1, FS_Subset
<1>3. n + 1 \notin S
  BY SMTT(30)
<1>4. \A T : H2!Cardinality(T) = Cardinality(T)
  BY DEF Cardinality, H2!Cardinality
<1> QED
  BY <1>2, <1>3, <1>4, FS_AddElement, FS_CardinalityType

-----------------------------------------------------------------------------
(* libevent-client.c *)

Chunk == <<1, "data">>

\* The chunks of body in the input buffer.
Chunks == {k \in DOMAIN input : input[k] = Chunk}

HttpTypes ==
    /\ session \in BOOLEAN /\ asked \in BOOLEAN /\ stream_id \in {-1, 1}
    /\ stdout \in Nat /\ body \in Nat
    /\ input \in Seq(H2!Frame)

\* Callbacks that use the session come after the one that made it, and while data
\* wait a read is due; nothing happens after the session was torn down.
HttpOrder ==
    /\ session => stream_id = 1
    /\ data = "live" /\ (output # {} \/ asked \/ callbacks \cap {"read", "write"} # {}) => session
    /\ data = "live" /\ input # <<>> => "read" \in callbacks
    /\ data # "live" => wire = "closed"
    /\ wire = "connecting" => input = <<>> /\ callbacks = {} /\ goaway = "no"
    /\ "connected" \in callbacks => goaway = "no"
    /\ goaway # "no" => 1 \notin streams

\* Every chunk that arrived is printed or in the buffer.
HttpBody ==
    /\ data = "live" => stdout + H2!Cardinality(Chunks) = body /\ why # "write"
    /\ stdout <= body
    /\ why = "write" => stdout = body /\ 1 \notin streams

HttpInv == HttpTypes /\ HttpOrder /\ HttpBody

\* The frames of the stream asked for that carry data are its chunks.
LEMMA HttpFrames ==
    ASSUME NEW f \in H2!Frame
    PROVE  /\ f = Chunk <=> f[2] = "data" /\ f[1] = 1
           /\ f[2] = "push" => f[1] # 1
BY SMTT(30) DEF H2!Frame, Chunk

\* The chunks that have arrived can be counted.
LEMMA HttpChunks ==
    ASSUME HttpTypes
    PROVE  /\ Len(input) \in Nat /\ DOMAIN input = 1..Len(input)
           /\ Chunks \subseteq 1..Len(input) /\ H2!Cardinality(Chunks) \in Nat
           /\ input = <<>> => H2!Cardinality(Chunks) = 0
<1>1. Len(input) \in Nat /\ DOMAIN input = 1..Len(input)
  BY SMTT(30) DEF HttpTypes
<1>2. Chunks \subseteq 1..Len(input)
  BY <1>1 DEF Chunks
<1>3. H2!Cardinality(Chunks) \in Nat
  BY <1>1, <1>2, CountMore
<1>4. input = <<>> => Chunks = {}
  BY SMTT(30) DEF Chunks
<1> QED
  BY <1>1, <1>2, <1>3, <1>4, CountNone

\* At the start nothing is asked and nothing has arrived.
LEMMA HttpInit == H2!Http2Init => HttpInv
<1> SUFFICES ASSUME H2!Http2Init PROVE HttpInv
  OBVIOUS
<1>1. stdout = 0 /\ body = 0 /\ why = "" /\ input = <<>>
  BY DEF H2!Http2Init
<1>2. stdout \in Nat /\ body \in Nat /\ input \in Seq(H2!Frame)
  <2>1. 0 \in Nat /\ <<>> \in Seq(H2!Frame)
    BY SMTT(30)
  <2> QED
    BY <1>1, <2>1
<1>3. HttpTypes
  BY <1>1, <1>2 DEF H2!Http2Init, HttpTypes
<1>4. HttpOrder
  BY DEF H2!Http2Init, HttpOrder
<1>5. HttpBody
  <2>1. H2!Cardinality(Chunks) = 0
    BY <1>1, <1>3, HttpChunks
  <2>2. 0 <= 0 /\ 0 + 0 = 0
    BY SMTT(30)
  <2> QED
    BY <1>1, <2>1, <2>2 DEF HttpBody
<1> QED
  BY <1>3, <1>4, <1>5 DEF HttpInv

\* The session is torn down, for another reason than that the work is done.
LEMMA HttpDeleted ==
    ASSUME HttpInv, NEW by, by # "write", H2!delete_http2_session_data(by),
           UNCHANGED <<stream_id, stdout, goaway, streams, asked, body>>
    PROVE  HttpInv'
<1>1. /\ data' = "deleted" /\ session' = FALSE /\ why' = by /\ callbacks' = {}
      /\ input' = <<>> /\ wire' = "closed"
  BY DEF H2!delete_http2_session_data
<1>2. input' \in Seq(H2!Frame)
  BY <1>1, SMTT(30)
<1>3. HttpTypes'
  BY <1>1, <1>2 DEF HttpInv, HttpTypes
<1>4. HttpOrder'
  BY <1>1 DEF HttpInv, HttpOrder
<1>5. HttpBody'
  BY <1>1 DEF HttpInv, HttpBody
<1> QED
  BY <1>3, <1>4, <1>5 DEF HttpInv

\* The session sends its settings and its request when it is connected.
LEMMA HttpConnected ==
    ASSUME HttpInv, H2!eventcb_connected
    PROVE  HttpInv'
<1>1. "connected" \in callbacks /\ data = "live" /\ UNCHANGED <<stdout, asked, body>>
  BY DEF H2!eventcb_connected, H2!Callback
<1>2. CASE /\ H2!initialize_nghttp2_session /\ H2!submit_request
           /\ H2!session_send({"SETTINGS", "HEADERS"}, goaway, "connected")
           /\ UNCHANGED <<data, why, going, input, wire>>
  <2>1. /\ session' = TRUE /\ stream_id' = 1 /\ streams' = {1} /\ goaway = "no" /\ goaway' = "no"
        /\ callbacks' \subseteq callbacks \ {"connected"} /\ ("read" \in callbacks => "read" \in callbacks')
        /\ UNCHANGED <<data, why, input, wire>>
    BY <1>1, <1>2 DEF HttpInv, HttpOrder, H2!initialize_nghttp2_session, H2!submit_request, H2!session_send
  <2>2. HttpTypes'
    BY <1>1, <2>1 DEF HttpInv, HttpTypes
  <2>3. HttpOrder'
    BY <1>1, <2>1 DEF HttpInv, HttpOrder
  <2>4. Chunks' = Chunks
    BY <2>1 DEF Chunks
  <2>5. HttpBody'
    BY <1>1, <2>1, <2>4 DEF HttpInv, HttpBody
  <2> QED
    BY <2>2, <2>3, <2>5 DEF HttpInv
<1>3. CASE H2!delete_http2_session_data("connected") /\ UNCHANGED <<stream_id, H2!lib>>
  BY <1>1, <1>3, HttpDeleted DEF H2!lib
<1>4. CASE /\ data' = "deleted" /\ why' = "exit" /\ callbacks' = {} /\ wire' = "closed"
           /\ UNCHANGED <<session, stream_id, H2!lib, output, input>>
  BY <1>1, <1>4 DEF HttpInv, HttpTypes, HttpOrder, HttpBody, H2!lib
<1> QED
  BY <1>2, <1>3, <1>4 DEF H2!eventcb_connected

\* writecb closes a finished session, and otherwise sends.
LEMMA HttpWrite ==
    ASSUME HttpInv, H2!writecb
    PROVE  HttpInv'
<1>1. /\ data = "live" /\ "write" \in callbacks /\ "read" \notin callbacks
      /\ UNCHANGED <<stream_id, stdout, goaway, streams, asked, body, queued, going>>
  BY DEF H2!writecb, H2!Callback, H2!lib
<1>2. input = <<>> /\ stdout = body
  <2>1. input = <<>>
    BY <1>1 DEF HttpInv, HttpOrder
  <2>2. HttpTypes /\ stdout \in Nat /\ stdout + H2!Cardinality(Chunks) = body
    BY <1>1 DEF HttpInv, HttpBody, HttpTypes
  <2>3. H2!Cardinality(Chunks) = 0
    BY <2>1, <2>2, HttpChunks
  <2> QED
    BY <2>1, <2>2, <2>3, SMTT(30)
<1>3. CASE H2!Idle /\ H2!delete_http2_session_data("write")
  <2>1. 1 \notin streams
    BY <1>3 DEF H2!Idle, H2!want_read, HttpInv, HttpOrder
  <2>2. /\ data' = "deleted" /\ session' = FALSE /\ why' = "write" /\ callbacks' = {}
        /\ input' = input /\ wire' = "closed"
    BY <1>2, <1>3 DEF H2!delete_http2_session_data
  <2> QED
    BY <1>1, <1>2, <2>1, <2>2 DEF HttpInv, HttpTypes, HttpOrder, HttpBody
<1>4. CASE callbacks' = callbacks \ {"write"} /\ UNCHANGED <<data, session, why, output, input, wire>>
  <2>1. Chunks' = Chunks
    BY <1>4 DEF Chunks
  <2>2. HttpTypes' /\ HttpBody'
    BY <1>1, <1>4, <2>1 DEF HttpInv, HttpTypes, HttpBody
  <2>3. HttpOrder'
    BY <1>1, <1>4 DEF HttpInv, HttpOrder
  <2> QED
    BY <2>2, <2>3 DEF HttpInv
<1> QED
  BY <1>3, <1>4 DEF H2!writecb

\* readcb hands every frame in the buffer to the session, in order.
LEMMA HttpRead ==
    ASSUME HttpInv, H2!readcb
    PROVE  HttpInv'
<1>1. /\ data = "live" /\ "read" \in callbacks /\ "connected" \notin callbacks
      /\ UNCHANGED <<stream_id, asked, body>>
  BY DEF H2!readcb, H2!Callback
<1>2. CASE H2!delete_http2_session_data("read") /\ UNCHANGED <<stdout, H2!lib>>
  BY <1>1, <1>2, HttpDeleted DEF H2!lib
<1> DEFINE closes == \E k \in DOMAIN input : H2!Closes(input[k])
<1>3. CASE /\ stdout' = stdout + H2!Cardinality({k \in DOMAIN input : H2!Printed(input[k])})
           /\ streams' = (streams \cup H2!Of("push")) \ H2!Of("end")
           /\ goaway' = goaway \/ (goaway' = "sent" /\ (closes \/ goaway # "no"))
           /\ callbacks' = callbacks \ {"read"}
           /\ input' = <<>>
           /\ UNCHANGED <<data, session, why, wire>>
  <2>1. session /\ stream_id = 1 /\ wire # "connecting"
    BY <1>1 DEF HttpInv, HttpOrder
  <2>2. HttpTypes
    BY DEF HttpInv
  <2>3. \A k \in DOMAIN input : input[k] \in H2!Frame
    BY <2>2, SMTT(30) DEF HttpTypes
  <2>4. {k \in DOMAIN input : H2!Printed(input[k])} = Chunks
    BY <2>1, <2>3, HttpFrames DEF Chunks, H2!Printed
  <2>5. stdout' = body
    BY <1>1, <1>3, <2>4 DEF HttpInv, HttpBody
  <2>6. input' \in Seq(H2!Frame)
    BY <1>3, SMTT(30)
  <2>7. HttpTypes'
    BY <1>1, <1>3, <2>2, <2>5, <2>6 DEF HttpTypes
  <2>8. closes => 1 \in H2!Of("end")
    BY <2>1 DEF H2!Closes, H2!Of
  <2>9. 1 \notin H2!Of("push")
    BY <2>3, HttpFrames DEF H2!Of
  <2>10. goaway' # "no" => 1 \notin streams'
    BY <1>3, <2>8, <2>9 DEF HttpInv, HttpOrder
  <2>11. HttpOrder'
    BY <1>1, <1>3, <2>1, <2>10 DEF HttpInv, HttpOrder
  <2>12. HttpBody'
    <3>1. Chunks' = {}
      BY <1>3, SMTT(30) DEF Chunks
    <3>2. H2!Cardinality(Chunks)' = 0
      BY <3>1, CountNone
    <3> QED
      BY <1>1, <1>3, <2>5, <2>7, <3>2, SMTT(30) DEF HttpInv, HttpBody, HttpTypes
  <2> QED
    BY <2>7, <2>11, <2>12 DEF HttpInv
<1> QED
  BY <1>2, <1>3 DEF H2!readcb, H2!session_send

\* A frame that arrives is queued behind the others.
LEMMA HttpArrive ==
    ASSUME HttpInv, NEW f \in H2!Frame, H2!arrive(f)
    PROVE  HttpInv'
<1>1. /\ wire = "up" /\ asked /\ input' = Append(input, f) /\ callbacks' = callbacks \cup {"read"}
      /\ body' = IF f = Chunk THEN body + 1 ELSE body
      /\ UNCHANGED <<data, session, stream_id, stdout, why, goaway, streams, output, wire, asked>>
  BY DEF H2!arrive, H2!lib, Chunk
<1>2. data = "live" /\ session
  BY <1>1 DEF HttpInv, HttpOrder
<1>3. HttpOrder'
  BY <1>1, <1>2 DEF HttpInv, HttpOrder
<1> DEFINE n == Len(input)
<1>4. HttpTypes /\ stdout \in Nat /\ body \in Nat /\ input \in Seq(H2!Frame)
  BY DEF HttpInv, HttpTypes
<1>5. /\ n \in Nat /\ DOMAIN input = 1..n /\ DOMAIN input' = 1..(n + 1) /\ input'[n + 1] = f
      /\ \A k \in 1..n : k \in 1..(n + 1) /\ input'[k] = input[k]
      /\ \A k \in 1..(n + 1) : k \in 1..n \/ k = n + 1
      /\ n + 1 \in 1..(n + 1) /\ input' \in Seq(H2!Frame)
  BY <1>1, <1>4, SMTT(30)
<1>6. Chunks \subseteq 1..n
  BY <1>4, HttpChunks
<1> HIDE DEF n
<1>7. Chunks' = IF f = Chunk THEN Chunks \cup {n + 1} ELSE Chunks
  BY <1>5 DEF Chunks
<1>8. /\ H2!Cardinality(Chunks) \in Nat
      /\ H2!Cardinality(Chunks') = H2!Cardinality(Chunks) + (IF f = Chunk THEN 1 ELSE 0)
  <2>1. H2!Cardinality(Chunks) \in Nat /\ H2!Cardinality(Chunks \cup {n + 1}) = H2!Cardinality(Chunks) + 1
    BY <1>5, <1>6, CountMore
  <2> QED
    BY <1>7, <2>1, SMTT(30)
<1>9. body' \in Nat
  BY <1>1, <1>4, SMTT(30)
<1>10. HttpTypes'
  BY <1>1, <1>5, <1>9 DEF HttpInv, HttpTypes
<1>11. HttpBody'
  <2>1. stdout + H2!Cardinality(Chunks) = body /\ why # "write"
    BY <1>2 DEF HttpInv, HttpBody
  <2>2. stdout' + H2!Cardinality(Chunks') = body' /\ stdout' <= body'
    BY <1>1, <1>4, <1>8, <2>1, SMTT(30)
  <2> QED
    BY <1>1, <2>1, <2>2 DEF HttpBody
<1> QED
  BY <1>3, <1>10, <1>11 DEF HttpInv

\* A connection is made, breaks, or takes what was written.
LEMMA HttpNetwork ==
    ASSUME HttpInv, H2!connect \/ H2!flush \/ H2!disconnect \/ UNCHANGED H2!vars
    PROVE  HttpInv'
<1>1. /\ UNCHANGED <<data, session, stream_id, stdout, why, goaway, streams, input, body>>
      /\ asked' \in {asked, TRUE, FALSE}
  BY DEF H2!connect, H2!flush, H2!disconnect, H2!vars, H2!lib, H2!bev, H2!server
<1>2. Chunks' = Chunks
  BY <1>1 DEF Chunks
<1>3. HttpTypes' /\ HttpBody'
  BY <1>1, <1>2 DEF HttpInv, HttpTypes, HttpBody
<1>4. HttpOrder'
  <2>1. CASE H2!connect
    BY <1>1, <2>1, SMTT(30) DEF HttpInv, HttpOrder, H2!connect
  <2>2. CASE H2!flush
    BY <1>1, <2>2, SMTT(30) DEF HttpInv, HttpOrder, H2!flush
  <2>3. CASE H2!disconnect
    BY <1>1, <2>3, SMTT(30) DEF HttpInv, HttpOrder, H2!disconnect
  <2>4. CASE UNCHANGED H2!vars
    BY <1>1, <2>4, SMTT(30) DEF HttpInv, HttpOrder, H2!vars, H2!bev, H2!server
  <2> QED
    BY <2>1, <2>2, <2>3, <2>4
<1> QED
  BY <1>3, <1>4 DEF HttpInv

\* Every step of the HTTP/2 client keeps its invariant.
LEMMA HttpNext ==
    ASSUME HttpInv, H2!Next \/ UNCHANGED H2!vars
    PROVE  HttpInv'
<1>1. CASE H2!eventcb_other
  BY <1>1, HttpDeleted DEF H2!eventcb_other, H2!lib
<1> QED
  BY <1>1, HttpConnected, HttpRead, HttpWrite, HttpArrive, HttpNetwork DEF H2!Next, H2!Run, H2!Network

\* A session that writecb tears down has printed every chunk of the body.
LEMMA HttpComplete == HttpInv => H2!BodyComplete
BY DEF HttpInv, HttpOrder, HttpBody, H2!BodyComplete, H2!Callback

-----------------------------------------------------------------------------
(* The program that runs. *)

ProcessInv ==
    /\ program \in Pipe!PipeFns \cup {"intercmd", "uv", "nghttp2", "none"}
    /\ program \in Pipe!PipeFns => PipeInv
    /\ program = "intercmd" => InterInv
    /\ program = "uv" => CurlInv
    /\ program = "nghttp2" => HttpInv

\* All four programs start in their invariants.
LEMMA ProcessStarts == ProcessInit => ProcessInv
<1>1. \A x \in {"intercmd", "uv", "nghttp2", "none"} : x \notin Pipe!PipeFns
  BY DEF Pipe!PipeFns
<1>2. Pipe!Init => program \in Pipe!PipeFns
  BY DEF Pipe!Init
<1> QED
  BY <1>1, <1>2, PipeInit, InterInit, CurlInit, HttpInit DEF ProcessInit, ProcessInv, NoProcess

\* A step of one program keeps the invariants of all four.
LEMMA ProcessInductive ==
    ASSUME ProcessInv, [ProcessNext]_processVars
    PROVE  ProcessInv'
<1>1. \A x \in {"intercmd", "uv", "nghttp2", "none"} : x \notin Pipe!PipeFns
  BY DEF Pipe!PipeFns
<1>2. UNCHANGED <<pipes, program, at>> => UNCHANGED Pipe!vars
  BY DEF pipes, Pipe!vars, Pipe!parent, Pipe!child
<1>3. UNCHANGED https => UNCHANGED H2!vars
  BY DEF https, H2!vars, H2!lib, H2!bev, H2!server
<1>4. UNCHANGED <<inters, at>> => UNCHANGED Inter!vars
  BY DEF inters, Inter!vars, Inter!ctx, Inter!call, Inter!child
<1>5. UNCHANGED <<curls, at>> => UNCHANGED Curl!vars
  BY DEF curls, Curl!vars
<1>6. CASE PipeStep(Pipe!Next)
  <2>1. program' = program
    BY <1>6 DEF PipeStep, Pipe!Next, Pipe!Run, Pipe!create_pipe, Pipe!create_process, Pipe!wait, Pipe!read,
       Pipe!read_fails, Pipe!wait_exit, Pipe!child_write, Pipe!child_close, Pipe!child_exit
  <2> QED
    BY <1>1, <1>6, <2>1, PipeNext DEF ProcessInv, PipeStep
<1>7. CASE H2Step(H2!Next)
  BY <1>1, <1>7, HttpNext DEF ProcessInv, H2Step
<1>8. CASE InterStep(Inter!Next)
  BY <1>1, <1>8, InterNext DEF ProcessInv, InterStep
<1>9. CASE CurlStep(Curl!Next)
  BY <1>1, <1>9, CurlNext DEF ProcessInv, CurlStep
<1>10. CASE UNCHANGED processVars
  BY <1>2, <1>3, <1>4, <1>5, <1>10, PipeNext, HttpNext, InterNext, CurlNext DEF ProcessInv, processVars
<1> QED
  BY <1>6, <1>7, <1>8, <1>9, <1>10 DEF ProcessNext

\* The invariants hold in every state.
LEMMA ProcessInvariant == ProcessSpec => []ProcessInv
BY ProcessStarts, ProcessInductive, PTL DEF ProcessSpec

\* In every run the reader of a child's output has its buffer's length within the
\* buffer and above 0, whatever its pipe holds and whatever the sizes are.
THEOREM ReaderTyped == ProcessSpec => []ProcessTypeOK
<1>1. ProcessInv => ProcessTypeOK
  BY PipeTyped DEF ProcessInv, ProcessTypeOK
<1> QED
  BY <1>1, ProcessInvariant, PTL

\* The readers of a child's output hand over its bytes in order and without a gap, and
\* libevent-client.c prints the body of its own stream.
THEOREM InOrder == ProcessSpec => []HandedOver
<1>1. ProcessInv => HandedOver
  BY PipeCaptured, InterOrder, HttpComplete DEF ProcessInv, HandedOver
<1> QED
  BY <1>1, ProcessInvariant, PTL

\* send_intercmd leaves no second child behind, and uv.c no context.
THEOREM NoLeak == ProcessSpec => []NoneLeftBehind
<1>1. InterInv => Inter!OneChild
  BY DEF InterInv, InterCall, Inter!OneChild
<1>2. CurlInv => Curl!Owned /\ Curl!NoneAtEnd
  BY DEF CurlInv
<1>3. ProcessInv => NoneLeftBehind
  BY <1>1, <1>2 DEF ProcessInv, NoneLeftBehind
<1> QED
  BY <1>3, ProcessInvariant, PTL
=============================================================================

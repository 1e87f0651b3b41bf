------------------------ MODULE HttpConnectionProofs ------------------------
(***************************************************************************)
(* One connection, for requests of any length in pieces of any size: the   *)
(* engine is called with what the client meant, and the client reads back  *)
(* what it sent.                                                           *)
(***************************************************************************)
EXTENDS HttpConnection, WellFoundedInduction, SequenceTheorems, TLAPS

\* Induction over the numbers: of the counterexamples one is least.
LEMMA LeastNumber ==
    ASSUME NEW T, T \subseteq Nat, T # {}
    PROVE  \E m \in T : \A k \in T : m <= k
<1> DEFINE R == OpToRel(<, Nat)
<1>1. \E x \in T : \A y \in T : ~ (<<y, x>> \in R)
  <2>1. IsWellFoundedOn(R, Nat)
    BY NatLessThanWellFounded
  <2> HIDE DEF R
  <2> QED BY <2>1, WFMin
<1>2. \A x, y \in Nat : <<y, x>> \in R <=> y < x
  BY DEF OpToRel
<1> HIDE DEF R
<1>3. PICK x \in T : \A y \in T : ~ (<<y, x>> \in R)
  BY <1>1
<1>4. \A y \in T : x <= y
  <2> TAKE y \in T
  <2>1. x \in Nat /\ y \in Nat /\ ~(y < x)
    BY <1>2, <1>3
  <2> QED BY <2>1
<1> QED
  BY <1>3, <1>4

-----------------------------------------------------------------------------
(* Going through a text.                                                   *)

\* A loop that goes forward, and what it has visited from p on.
Forward(next, n) == /\ DOMAIN next \subseteq 1..n
                    /\ \A p \in DOMAIN next : next[p] \in Nat /\ next[p] > p

Rest(next, f, p) == IF p \in DOMAIN next THEN <<p>> \o f[next[p]] ELSE <<p>>

LEMMA RestExists ==
    ASSUME NEW n \in Nat, NEW next, Forward(next, n), NEW k \in 0..n + 1
    PROVE  \E f : \A p \in Nat : p >= n + 1 - k => f[p] = Rest(next, f, p)
<1> DEFINE OK(j) == \E f : \A p \in Nat : p >= n + 1 - j => f[p] = Rest(next, f, p)
           T     == {j \in 0..n + 1 : ~OK(j)}
<1> SUFFICES ASSUME T # {} PROVE FALSE
  OBVIOUS
<1>1. PICK j \in T : \A i \in T : j <= i
  <2>1. T \subseteq Nat
    OBVIOUS
  <2> HIDE DEF T
  <2> QED BY <2>1, LeastNumber
<1>2. j \in 0..n + 1 /\ ~OK(j)
  BY <1>1
<1>3. CASE j = 0
  <2> DEFINE f == [p \in Nat |-> <<p>>]
  <2>1. ASSUME NEW p \in Nat, p >= n + 1 PROVE f[p] = Rest(next, f, p)
    <3>1. p \notin DOMAIN next
      BY <2>1 DEF Forward
    <3>2. f[p] = <<p>>
      OBVIOUS
    <3> QED BY <3>1, <3>2 DEF Rest
  <2> HIDE DEF f
  <2>2. OK(0)
    BY <2>1
  <2> QED BY <1>2, <1>3, <2>2
<1>4. CASE j # 0
  <2> DEFINE b == n + 1 - j
  <2>1. b \in Nat /\ j - 1 \in 0..n + 1 /\ n + 1 - (j - 1) = b + 1 /\ ~(j <= j - 1)
    BY <1>2, <1>4
  <2>2. OK(j - 1)
    BY <1>1, <2>1
  <2>3. PICK f : \A p \in Nat : p >= b + 1 => f[p] = Rest(next, f, p)
    BY <2>1, <2>2
  <2> DEFINE g == [p \in Nat |-> IF p = b THEN Rest(next, f, p) ELSE f[p]]
  <2> HIDE DEF b
  <2>4. ASSUME NEW p \in Nat, p >= b PROVE g[p] = Rest(next, g, p)
    <3>1. p \in DOMAIN next => g[next[p]] = f[next[p]]
      BY <2>1, <2>4 DEF Forward
    <3>2. Rest(next, g, p) = Rest(next, f, p)
      <4> HIDE DEF g
      <4> QED BY <3>1 DEF Rest
    <3>3. g[p] = Rest(next, f, p)
      BY <2>1, <2>3, <2>4
    <3> QED BY <3>2, <3>3
  <2> HIDE DEF g
  <2>5. OK(j)
    BY <2>4 DEF b
  <2> QED BY <1>2, <2>5
<1> QED
  BY <1>3, <1>4

\* What is visited is any chain of positions that ends outside DOMAIN next.
LEMMA VisitedIs ==
    ASSUME NEW n \in Nat, NEW next, Forward(next, n), NEW m \in Nat, NEW cuts \in [1..m + 1 -> Nat],
           \A k \in 1..m : cuts[k] \in DOMAIN next /\ next[cuts[k]] = cuts[k + 1],
           cuts[m + 1] \notin DOMAIN next
    PROVE  Visited(next, cuts[1]) = cuts
<1> DEFINE from == CHOOSE f : f = [p \in Nat |-> IF p \in DOMAIN next THEN <<p>> \o f[next[p]] ELSE <<p>>]
<1>1. Visited(next, cuts[1]) = from[cuts[1]]
  BY Zenon DEF Visited
<1>2. \A p \in Nat : from[p] = Rest(next, from, p)
  <2>1. n + 1 \in 0..n + 1
    OBVIOUS
  <2>2. PICK h : \A p \in Nat : p >= n + 1 - (n + 1) => h[p] = Rest(next, h, p)
    BY <2>1, RestExists
  <2>3. \A p \in Nat : h[p] = Rest(next, h, p)
    BY <2>2
  <2> DEFINE g == [p \in Nat |-> h[p]]
  <2>4. \A p \in Nat : g[p] = IF p \in DOMAIN next THEN <<p>> \o g[next[p]] ELSE <<p>>
    BY <2>3 DEF Rest, Forward
  <2>5. g = [p \in Nat |-> IF p \in DOMAIN next THEN <<p>> \o g[next[p]] ELSE <<p>>]
    BY <2>4
  <2> HIDE DEF g
  <2>6. from = [p \in Nat |-> IF p \in DOMAIN next THEN <<p>> \o from[next[p]] ELSE <<p>>]
    BY <2>5, Zenon
  <2> HIDE DEF from
  <2> QED BY <2>6 DEF Rest
<1> HIDE DEF from
<1>3. cuts \in Seq(Nat) /\ Len(cuts) = m + 1
  BY SeqDef
<1> DEFINE Bad == {d \in 0..m : from[cuts[m + 1 - d]] # SubSeq(cuts, m + 1 - d, m + 1)}
<1>4. Bad = {}
  <2> SUFFICES ASSUME Bad # {} PROVE FALSE
    OBVIOUS
  <2>1. PICK d \in Bad : \A i \in Bad : d <= i
    <3>1. Bad \subseteq Nat
      OBVIOUS
    <3> HIDE DEF Bad
    <3> QED BY <3>1, LeastNumber
  <2> DEFINE j == m + 1 - d
  <2>2. d \in 0..m /\ j \in 1..m + 1 /\ from[cuts[j]] # SubSeq(cuts, j, m + 1)
    BY <2>1
  <2>3. SubSeq(cuts, j, m + 1) = <<cuts[j]>> \o SubSeq(cuts, j + 1, m + 1)
    <3>1. j \in 1..Len(cuts) /\ m + 1 \in j..Len(cuts)
      BY <1>3, <2>2
    <3> HIDE DEF j
    <3> QED BY <1>3, <3>1, SubSeqRecursiveFirst
  <2>4. CASE d = 0
    <3>1. j = m + 1 /\ cuts[j] \in Nat
      BY <2>2, <2>4
    <3>2. from[cuts[j]] = <<cuts[j]>>
      BY <1>2, <3>1 DEF Rest
    <3>3. SubSeq(cuts, j + 1, m + 1) = << >>
      BY <3>1, SubSeqEmpty
    <3>4. <<cuts[j]>> \o << >> = <<cuts[j]>>
      BY <3>1, ConcatEmptySeq
    <3> QED BY <2>2, <2>3, <3>2, <3>3, <3>4
  <2>5. CASE d # 0
    <3>1. d - 1 \in 0..m /\ m + 1 - (d - 1) = j + 1 /\ ~(d <= d - 1) /\ j \in 1..m /\ j + 1 \in 1..m + 1
      BY <2>2, <2>5
    <3>2. from[cuts[j + 1]] = SubSeq(cuts, j + 1, m + 1)
      BY <2>1, <3>1
    <3>3. from[cuts[j]] = <<cuts[j]>> \o from[cuts[j + 1]]
      <4>1. cuts[j] \in Nat /\ cuts[j] \in DOMAIN next /\ next[cuts[j]] = cuts[j + 1]
        BY <3>1
      <4> QED BY <1>2, <4>1 DEF Rest
    <3> QED BY <2>2, <2>3, <3>2, <3>3
  <2> QED BY <2>4, <2>5
<1>5. from[cuts[1]] = SubSeq(cuts, 1, m + 1)
  <2>1. m \in 0..m /\ m + 1 - m = 1
    OBVIOUS
  <2> QED BY <1>4, <2>1
<1>6. SubSeq(cuts, 1, m + 1) = cuts
  BY <1>3, SubSeqFull
<1> QED
  BY <1>1, <1>5, <1>6

-----------------------------------------------------------------------------
(* Pieces put together.                                                    *)

Joined(f, g, i) == IF i = 1 THEN f[i] ELSE g[i - 1] \o f[i]

LEMMA JoinedExists ==
    ASSUME NEW n \in Nat, NEW f, NEW k \in 0..n
    PROVE  \E g : \A i \in 1..k : g[i] = Joined(f, g, i)
<1> DEFINE OK(j) == \E g : \A i \in 1..j : g[i] = Joined(f, g, i)
           T     == {j \in 0..n : ~OK(j)}
<1> SUFFICES ASSUME T # {} PROVE FALSE
  OBVIOUS
<1>1. PICK j \in T : \A i \in T : j <= i
  <2>1. T \subseteq Nat
    OBVIOUS
  <2> HIDE DEF T
  <2> QED BY <2>1, LeastNumber
<1>2. j \in 0..n /\ ~OK(j)
  BY <1>1
<1>3. j # 0
  BY <1>2
<1>4. j - 1 \in 0..n /\ ~(j <= j - 1)
  BY <1>2, <1>3
<1>5. OK(j - 1)
  BY <1>1, <1>4
<1>6. PICK h : \A i \in 1..j - 1 : h[i] = Joined(f, h, i)
  BY <1>5
<1> DEFINE g == [i \in 1..j |-> IF i = j THEN Joined(f, h, i) ELSE h[i]]
<1>7. ASSUME NEW i \in 1..j PROVE g[i] = Joined(f, g, i)
  <2>1. i # 1 => g[i - 1] = h[i - 1]
    BY <1>2
  <2>2. Joined(f, g, i) = Joined(f, h, i)
    <3> HIDE DEF g
    <3> QED BY <2>1 DEF Joined
  <2>3. g[i] = Joined(f, h, i)
    BY <1>2, <1>6
  <2> QED BY <2>2, <2>3
<1> HIDE DEF g
<1>8. OK(j)
  BY <1>7
<1> QED
  BY <1>2, <1>8

\* Piece k ends where piece k + 1 begins.
Tiles(cut, f, s, n) ==
    /\ cut \in [0..n -> Nat] /\ cut[0] = 0 /\ cut[n] = Len(s)
    /\ \A k \in 1..n : /\ cut[k] = cut[k - 1] + Len(f[k]) /\ cut[k] <= Len(s)
                       /\ \A i \in 1..Len(f[k]) : s[cut[k - 1] + i] = f[k][i]

LEMMA FlattenedIs ==
    ASSUME NEW S, NEW n \in Nat, NEW f \in [1..n -> Seq(S)]
    PROVE  /\ FlattenSeq(f) \in Seq(S)
           /\ \E cut : Tiles(cut, f, FlattenSeq(f), n)
<1>1. Len(f) = n
  <2>1. f \in Seq(Seq(S)) /\ DOMAIN f = 1..n
    BY SeqDef
  <2> QED BY <2>1
<1>2. CASE n = 0
  <2>1. FlattenSeq(f) = << >>
    <3>1. FlattenSeq(f) = f
      BY <1>1, <1>2 DEF FlattenSeq
    <3>2. f = << >>
      <4>1. f \in Seq(Seq(S))
        BY SeqDef
      <4> QED BY <1>1, <1>2, <4>1
    <3> QED BY <3>1, <3>2
  <2> DEFINE cut == [k \in 0..0 |-> 0]
  <2>2. Tiles(cut, f, << >>, n)
    BY <1>2 DEF Tiles
  <2> QED BY <2>1, <2>2
<1>3. CASE n # 0
  <2> DEFINE fl == CHOOSE g : g = [i \in 1..n |-> IF i = 1 THEN f[i] ELSE g[i - 1] \o f[i]]
  <2>1. FlattenSeq(f) = fl[n]
    BY <1>1, <1>3, Zenon DEF FlattenSeq
  <2>2. \A i \in 1..n : fl[i] = Joined(f, fl, i)
    <3>1. PICK h : \A i \in 1..n : h[i] = Joined(f, h, i)
      <4>1. n \in 0..n
        OBVIOUS
      <4> QED BY <4>1, JoinedExists
    <3> DEFINE g == [i \in 1..n |-> h[i]]
    <3>2. \A i \in 1..n : g[i] = IF i = 1 THEN f[i] ELSE g[i - 1] \o f[i]
      BY <3>1 DEF Joined
    <3>3. g = [i \in 1..n |-> IF i = 1 THEN f[i] ELSE g[i - 1] \o f[i]]
      BY <3>2
    <3> HIDE DEF g
    <3>4. fl = [i \in 1..n |-> IF i = 1 THEN f[i] ELSE fl[i - 1] \o f[i]]
      BY <3>3, Zenon
    <3> HIDE DEF fl
    <3> QED BY <3>4 DEF Joined
  <2> HIDE DEF fl
  <2> DEFINE cut == [k \in 0..n |-> IF k = 0 THEN 0 ELSE Len(fl[k])]
             OK(i) == /\ fl[i] \in Seq(S)
                      /\ \A k \in 1..i : /\ cut[k] = cut[k - 1] + Len(f[k]) /\ cut[k] <= cut[i]
                                         /\ cut[k - 1] \in Nat
                                         /\ \A x \in 1..Len(f[k]) : fl[i][cut[k - 1] + x] = f[k][x]
             Bad   == {i \in 1..n : ~OK(i)}
  <2>3. cut[0] = 0 /\ \A k \in 1..n : cut[k] = Len(fl[k])
    OBVIOUS
  <2>4. Bad = {}
    <3> SUFFICES ASSUME Bad # {} PROVE FALSE
      OBVIOUS
    <3>1. PICK i \in Bad : \A j \in Bad : i <= j
      <4>1. Bad \subseteq Nat
        OBVIOUS
      <4> HIDE DEF Bad
      <4> QED BY <4>1, LeastNumber
    <3>2. i \in 1..n /\ ~OK(i)
      BY <3>1
    <3>3. fl[i] = Joined(f, fl, i) /\ f[i] \in Seq(S) /\ cut[i] = Len(fl[i])
      BY <2>2, <2>3, <3>2
    <3> HIDE DEF cut
    <3>4. CASE i = 1
      <4>1. fl[1] = f[1]
        BY <3>3, <3>4 DEF Joined
      <4>2. \A k \in 1..1 : k = 1
        OBVIOUS
      <4>3. Len(f[1]) \in Nat
        BY <3>3, <3>4
      <4>4. OK(1)
        BY <2>3, <3>3, <3>4, <4>1, <4>2, <4>3
      <4> QED BY <3>2, <3>4, <4>4
    <3>5. CASE i # 1
      <4>1. i - 1 \in 1..n /\ ~(i <= i - 1)
        BY <3>2, <3>5
      <4>2. OK(i - 1)
        BY <3>1, <4>1
      <4> DEFINE u == fl[i - 1]
      <4>3. fl[i] = u \o f[i]
        BY <3>3, <3>5 DEF Joined
      <4>4. u \in Seq(S) /\ cut[i - 1] = Len(u) /\ Len(u) \in Nat /\ Len(f[i]) \in Nat
        BY <2>3, <3>3, <4>1, <4>2
      <4>5. /\ fl[i] \in Seq(S) /\ Len(fl[i]) = Len(u) + Len(f[i])
            /\ \A x \in 1..Len(u) : fl[i][x] = u[x]
            /\ \A x \in 1..Len(f[i]) : fl[i][Len(u) + x] = f[i][x]
        <5> HIDE DEF u
        <5>1. /\ u \o f[i] \in Seq(S) /\ Len(u \o f[i]) = Len(u) + Len(f[i])
              /\ \A x \in 1..Len(u) + Len(f[i]) : (u \o f[i])[x] = IF x <= Len(u) THEN u[x] ELSE f[i][x - Len(u)]
          BY <3>3, <4>4, ConcatProperties
        <5>2. \A x \in 1..Len(u) : x \in 1..Len(u) + Len(f[i]) /\ x <= Len(u)
          BY <4>4
        <5>3. \A x \in 1..Len(f[i]) : Len(u) + x \in 1..Len(u) + Len(f[i]) /\ ~(Len(u) + x <= Len(u)) /\ Len(u) + x - Len(u) = x
          BY <4>4
        <5> QED BY <4>3, <5>1, <5>2, <5>3
      <4>6. ASSUME NEW k \in 1..i
            PROVE  /\ cut[k] = cut[k - 1] + Len(f[k]) /\ cut[k] <= cut[i] /\ cut[k - 1] \in Nat
                   /\ \A x \in 1..Len(f[k]) : fl[i][cut[k - 1] + x] = f[k][x]
        <5>1. CASE k = i
          <6>1. cut[i] = cut[i - 1] + Len(f[i]) /\ cut[i] <= cut[i] /\ cut[i - 1] \in Nat
            <7> HIDE DEF u
            <7> QED BY <3>3, <4>4, <4>5
          <6>2. \A x \in 1..Len(f[i]) : fl[i][cut[i - 1] + x] = f[i][x]
            <7> HIDE DEF u
            <7> QED BY <4>4, <4>5
          <6> QED BY <5>1, <6>1, <6>2, Zenon
        <5>2. CASE k # i
          <6>1. k \in 1..i - 1 /\ k \in 1..n
            BY <3>2, <5>2
          <6>2. /\ cut[k] = cut[k - 1] + Len(f[k]) /\ cut[k] <= cut[i - 1] /\ cut[k - 1] \in Nat
                /\ \A x \in 1..Len(f[k]) : u[cut[k - 1] + x] = f[k][x]
            BY <4>2, <6>1
          <6>3. Len(f[k]) \in Nat
            BY <6>1
          <6>4. cut[k] <= cut[i]
            <7>1. \A a, b, c \in Nat : a <= b => a <= b + c
              OBVIOUS
            <7>2. cut[k] <= Len(u) /\ cut[i] = Len(u) + Len(f[i])
              BY <3>3, <4>4, <4>5, <6>2, Zenon
            <7>3. cut[k] \in Nat
              BY <6>2, <6>3
            <7> HIDE DEF u
            <7> QED BY <4>4, <7>1, <7>2, <7>3
          <6>5. \A x \in 1..Len(f[k]) : cut[k - 1] + x \in 1..Len(u)
            <7>1. \A a, l, b \in Nat : a + l <= b => \A x \in 1..l : a + x \in 1..b
              OBVIOUS
            <7>2. cut[k - 1] + Len(f[k]) <= Len(u)
              BY <4>4, <6>2, Zenon
            <7> HIDE DEF u
            <7> QED BY <4>4, <6>2, <6>3, <7>1, <7>2
          <6> QED BY <4>5, <6>2, <6>4, <6>5
        <5> QED BY <5>1, <5>2
      <4>7. OK(i)
        BY <4>5, <4>6
      <4> QED BY <3>2, <4>7
    <3> QED BY <3>4, <3>5
  <2>5. OK(n)
    <3>1. n \in 1..n
      BY <1>3
    <3> HIDE DEF OK, cut
    <3> QED BY <2>4, <3>1
  <2>6. Tiles(cut, f, fl[n], n)
    <3>1. cut[n] = Len(fl[n])
      BY <1>3, <2>3
    <3>2. cut \in [0..n -> Nat]
      <4>1. ASSUME NEW k \in 1..n PROVE Len(fl[k]) \in Nat
        <5>1. cut[k] = cut[k - 1] + Len(f[k]) /\ cut[k - 1] \in Nat /\ Len(f[k]) \in Nat
          <6> HIDE DEF cut
          <6> QED BY <2>5
        <5>2. cut[k] = Len(fl[k])
          BY <2>3
        <5> HIDE DEF cut
        <5> QED BY <5>1, <5>2
      <4> QED BY <4>1
    <3> HIDE DEF cut
    <3> QED BY <2>3, <2>5, <3>1, <3>2 DEF Tiles
  <2>7. fl[n] \in Seq(S)
    BY <2>5
  <2> HIDE DEF cut
  <2> QED BY <2>1, <2>6, <2>7
<1> QED
  BY <1>2, <1>3

\* A loop that takes pieces one by one; the first begins at o + 1.
Goes(next, N, o, n, cut) ==
    /\ Forward(next, N) /\ cut \in [0..n -> Nat] /\ cut[0] = 0
    /\ \A k \in 1..n : /\ o + cut[k - 1] + 1 \in DOMAIN next
                       /\ next[o + cut[k - 1] + 1] = o + cut[k] + 1
    /\ o + cut[n] + 1 \notin DOMAIN next

\* Where they begin, and the end.
Begins(o, n, cut) == [k \in 1..n + 1 |-> o + cut[k - 1] + 1]

LEMMA VisitsPieces ==
    ASSUME NEW N \in Nat, NEW o \in Nat, NEW n \in Nat, NEW next, NEW cut, Goes(next, N, o, n, cut)
    PROVE  Visited(next, o + 1) = Begins(o, n, cut)
<1> DEFINE cuts == [k \in 1..n + 1 |-> o + cut[k - 1] + 1]
<1>1. /\ cut \in [0..n -> Nat] /\ cut[0] = 0 /\ Forward(next, N)
      /\ o + cut[n] + 1 \notin DOMAIN next
      /\ \A k \in 1..n : /\ o + cut[k - 1] + 1 \in DOMAIN next
                         /\ next[o + cut[k - 1] + 1] = o + cut[k] + 1
  BY DEF Goes
<1>2. cuts \in [1..n + 1 -> Nat] /\ cuts[1] = o + 1 /\ cuts[n + 1] = o + cut[n] + 1
  BY <1>1, SMTT(30)
<1>3. ASSUME NEW k \in 1..n PROVE cuts[k] \in DOMAIN next /\ next[cuts[k]] = cuts[k + 1]
  <2>1. k \in 1..n + 1 /\ k + 1 \in 1..n + 1 /\ (k + 1) - 1 = k
    OBVIOUS
  <2>2. cuts[k] = o + cut[k - 1] + 1 /\ cuts[k + 1] = o + cut[(k + 1) - 1] + 1
    BY <2>1
  <2> HIDE DEF cuts
  <2> QED BY <1>1, <2>1, <2>2
<1>4. cuts[n + 1] \notin DOMAIN next
  BY <1>1, <1>2
<1> HIDE DEF cuts
<1>5. Visited(next, cuts[1]) = cuts
  <2>1. \A k \in 1..n : cuts[k] \in DOMAIN next /\ next[cuts[k]] = cuts[k + 1]
    BY <1>3
  <2>2. cuts \in [1..n + 1 -> Nat]
    BY <1>2
  <2>3. \A m \in Nat : \A g \in [1..m + 1 -> Nat] :
           (\A k \in 1..m : g[k] \in DOMAIN next /\ next[g[k]] = g[k + 1])
              => (g[m + 1] \notin DOMAIN next => Visited(next, g[1]) = g)
    <3>1. Forward(next, N)
      BY <1>1
    <3> QED BY <3>1, VisitedIs
  <2> QED BY <1>4, <2>1, <2>2, <2>3, Zenon
<1> QED
  BY <1>2, <1>5 DEF cuts, Begins

-----------------------------------------------------------------------------
(* Percent decoding.                                                       *)

LEMMA CharOfCode == ASSUME NEW c \in Coded PROVE Char(Code[c]) = c
<1>1. ASSUME NEW d \in Coded, Code[d] = Code[c] PROVE d = c
  BY <1>1 DEF Code, Coded, Control
<1>2. \A d \in Coded : Code[d] = Code[c] => d = c
  BY <1>1
<1> QED
  BY <1>2, Zenon DEF Char

\* What targets are written with, so far as it matters.
Written == Coded \cup HexDigits \cup {DocumentsPrefix}

\* A form of c: itself, or an escape.
IsForm(w, c) ==
    /\ w \in Seq(Written)
    /\ \/ Len(w) = 1 /\ w[1] # "%" /\ c = IF w[1] = "+" THEN Space ELSE w[1]
       \/ /\ Len(w) = 3 /\ w[1] = "%" /\ w[2] \in HexDigits /\ w[3] \in HexDigits /\ c \in Coded
          /\ 16 * HexDigit[w[2]] + HexDigit[w[3]] = Code[c]
    /\ \A i \in 1..Len(w) : w[i] \notin {"&", "=", "?"}

LEMMA FormsAre == ASSUME NEW c \in Coded, NEW w \in Forms[c] PROVE IsForm(w, c)
<1> DEFINE Clear(d) == d \notin {"&", "=", "?"}
<1>1. CASE w = <<c>> /\ c \notin Special
  <2>1. Clear(c) /\ c # "%" /\ c # "+"
    BY <1>1 DEF Special
  <2>2. w \in Seq(Written) /\ Len(w) = 1 /\ w[1] = c
    BY <1>1 DEF Written
  <2>3. \A i \in 1..1 : w[i] \notin {"&", "=", "?"}
    BY <2>1, <2>2
  <2> QED BY <2>1, <2>2, <2>3 DEF IsForm
<1>2. CASE w = <<"+">> /\ c = Space
  <2>1. w \in Seq(Written) /\ Len(w) = 1 /\ w[1] = "+"
    BY <1>2 DEF Written, Coded
  <2>2. \A i \in 1..1 : w[i] \notin {"&", "=", "?"}
    BY <2>1
  <2> QED BY <1>2, <2>1, <2>2 DEF IsForm
<1>3. ASSUME NEW h \in HexDigits, NEW l \in HexDigits, w = <<"%", h, l>>,
             16 * HexDigit[h] + HexDigit[l] = Code[c]
      PROVE  IsForm(w, c)
  <2>1. \A d \in HexDigits : Clear(d)
    BY DEF HexDigits
  <2>2. w \in Seq(Written) /\ Len(w) = 3 /\ w[1] = "%" /\ w[2] = h /\ w[3] = l
    <3>1. h \in Written /\ l \in Written /\ "%" \in Written
      BY DEF Written, Coded
    <3> QED BY <1>3, <3>1
  <2>3. \A i \in 1..3 : i = 1 \/ i = 2 \/ i = 3
    OBVIOUS
  <2>4. \A i \in 1..3 : w[i] \notin {"&", "=", "?"}
    BY <2>1, <2>2, <2>3
  <2> QED BY <1>3, <2>2, <2>4 DEF IsForm
<1>4. \/ w = <<c>> /\ c \notin Special
      \/ w = <<"+">> /\ c = Space
      \/ \E d \in HexDigits \X HexDigits : w = <<"%", d[1], d[2]>> /\ 16 * HexDigit[d[1]] + HexDigit[d[2]] = Code[c]
  BY Zenon DEF Forms
<1>5. \A d \in HexDigits \X HexDigits : d[1] \in HexDigits /\ d[2] \in HexDigits
  OBVIOUS
<1> QED
  BY <1>1, <1>2, <1>3, <1>4, <1>5, Zenon

\* Every position is in some piece.
IsIn(p, cut, f, s, n) ==
    \E k \in 1..n : \E i \in 1..Len(f[k]) : p = cut[k - 1] + i /\ s[p] = f[k][i]

LEMMA InAPiece ==
    ASSUME NEW S, NEW n \in Nat, NEW f \in [1..n -> Seq(S)], NEW s \in Seq(S),
           NEW p \in 1..Len(s), NEW cut, Tiles(cut, f, s, n)
    PROVE  IsIn(p, cut, f, s, n)
<1>1. cut \in [0..n -> Nat] /\ cut[0] = 0 /\ cut[n] = Len(s)
  BY DEF Tiles
<1> DEFINE T == {k \in 0..n : p <= cut[k]}
<1>2. PICK k \in T : \A j \in T : k <= j
  <2>1. T \subseteq Nat /\ n \in T
    BY <1>1
  <2> HIDE DEF T
  <2> QED BY <2>1, LeastNumber
<1>3. k \in 1..n /\ p <= cut[k]
  BY <1>1, <1>2
<1>4. k - 1 \in 0..n /\ ~(p <= cut[k - 1])
  BY <1>1, <1>2, <1>3
<1>5. /\ cut[k] = cut[k - 1] + Len(f[k]) /\ Len(f[k]) \in Nat /\ cut[k - 1] \in Nat
      /\ \A i \in 1..Len(f[k]) : s[cut[k - 1] + i] = f[k][i]
  <2>1. f[k] \in Seq(S)
    BY <1>3
  <2> QED BY <1>1, <1>3, <1>4, <2>1, SMTT(30) DEF Tiles
<1> DEFINE i == p - cut[k - 1]
<1>6. i \in 1..Len(f[k]) /\ p = cut[k - 1] + i
  BY <1>3, <1>4, <1>5
<1> HIDE DEF i
<1> QED
  BY <1>3, <1>5, <1>6 DEF IsIn

\* The unit that begins where the form of a character begins.
LEMMA UnitIsForm ==
    ASSUME NEW c, NEW w, IsForm(w, c), NEW e \in Seq(Written), NEW a \in Nat,
           a + Len(w) <= Len(e), \A i \in 1..Len(w) : e[a + i] = w[i]
    PROVE  /\ a + 1 \in 1..Len(e) /\ UnitLength(e, a + 1) = Len(w)
           /\ Decoded(e, a + 1) = c
           /\ ~(UnitLength(e, a + 1) = 3 /\ StoiThrows(e[a + 1 + 1], e[a + 1 + 2]))
<1>1. CASE Len(w) = 1 /\ w[1] # "%" /\ c = IF w[1] = "+" THEN Space ELSE w[1]
  <2>1. e[a + 1] = w[1]
    BY <1>1
  <2>2. a + 1 \in 1..Len(e)
    BY <1>1
  <2>3. UnitLength(e, a + 1) = 1
    BY <1>1, <2>1 DEF UnitLength
  <2>4. Decoded(e, a + 1) = IF e[a + 1] = "+" THEN Space ELSE e[a + 1]
    <3>1. UnitLength(e, a + 1) # 3
      BY <2>3
    <3> QED BY <3>1, Zenon DEF Decoded
  <2> QED BY <1>1, <2>1, <2>2, <2>3, <2>4
<1>2. CASE /\ Len(w) = 3 /\ w[1] = "%" /\ w[2] \in HexDigits /\ w[3] \in HexDigits /\ c \in Coded
           /\ 16 * HexDigit[w[2]] + HexDigit[w[3]] = Code[c]
  <2>1. e[a + 1] = "%" /\ e[a + 1 + 1] = w[2] /\ e[a + 1 + 2] = w[3]
    <3>1. a + 1 + 1 = a + 2 /\ a + 1 + 2 = a + 3
      OBVIOUS
    <3>2. e[a + 1] = w[1] /\ e[a + 2] = w[2] /\ e[a + 3] = w[3]
      BY <1>2
    <3> QED BY <1>2, <3>1, <3>2
  <2>2. a + 1 \in 1..Len(e) /\ a + 1 + 2 <= Len(e)
    BY <1>2
  <2>3. UnitLength(e, a + 1) = 3
    BY <2>1, <2>2 DEF UnitLength
  <2>4. Decoded(e, a + 1) = Char(stoi(w[2], w[3]))
    BY <2>1, <2>3, Zenon DEF Decoded
  <2>5. stoi(w[2], w[3]) = Code[c]
    BY <1>2, Zenon DEF stoi, IsHex
  <2>6. ~StoiThrows(w[2], w[3])
    BY <1>2 DEF StoiThrows, IsHex
  <2>7. Char(Code[c]) = c
    BY <1>2, CharOfCode
  <2> QED BY <1>2, <2>1, <2>2, <2>3, <2>4, <2>5, <2>6, <2>7
<1> QED
  BY <1>1, <1>2 DEF IsForm

\* e is t, one character after the other in the form f[k].
Writes(f, cut, e, t, n) == /\ f \in [1..n -> Seq(Written)] /\ e \in Seq(Written)
                           /\ t = [k \in 1..n |-> t[k]]
                           /\ \A k \in 1..n : IsForm(f[k], t[k])
                           /\ Tiles(cut, f, e, n)

LEMMA PiecesAreDecoded ==
    ASSUME NEW n \in Nat, NEW f, NEW cut, NEW e, NEW t, Writes(f, cut, e, t, n)
    PROVE  /\ url_decode(e) = t /\ ~DecodeThrows(e)
           /\ \A p \in 1..Len(e) : e[p] \notin {"&", "=", "?"}
           /\ n # 0 => Len(e) # 0
<1>1. n \in Nat
  OBVIOUS
<1>4. f \in [1..n -> Seq(Written)] /\ \A k \in 1..n : IsForm(f[k], t[k])
  BY DEF Writes
<1>5. e \in Seq(Written)
  BY DEF Writes
<1>6. Tiles(cut, f, e, n)
  BY DEF Writes
<1>7. cut \in [0..n -> Nat] /\ cut[0] = 0 /\ cut[n] = Len(e) /\ Len(e) \in Nat
  BY <1>5, <1>6 DEF Tiles
<1>8. ASSUME NEW k \in 1..n
      PROVE  /\ cut[k - 1] + 1 \in 1..Len(e) /\ UnitLength(e, cut[k - 1] + 1) = Len(f[k])
             /\ cut[k] = cut[k - 1] + Len(f[k])
             /\ Decoded(e, cut[k - 1] + 1) = t[k]
             /\ ~(/\ UnitLength(e, cut[k - 1] + 1) = 3
                  /\ StoiThrows(e[cut[k - 1] + 1 + 1], e[cut[k - 1] + 1 + 2]))
  <2>1. cut[k - 1] \in Nat /\ IsForm(f[k], t[k])
    <3>1. k - 1 \in 0..n
      BY <1>1
    <3> QED BY <1>1, <1>4, <1>7, <3>1
  <2>2. /\ cut[k] = cut[k - 1] + Len(f[k]) /\ cut[k] <= Len(e)
        /\ \A i \in 1..Len(f[k]) : e[cut[k - 1] + i] = f[k][i]
    BY <1>6 DEF Tiles
  <2>3. cut[k - 1] + Len(f[k]) <= Len(e)
    BY <2>2
  <2> DEFINE a == cut[k - 1]
             w == f[k]
             c == t[k]
  <2>4. a \in Nat /\ IsForm(w, c) /\ a + Len(w) <= Len(e) /\ \A i \in 1..Len(w) : e[a + i] = w[i]
    BY <2>1, <2>2, <2>3
  <2> HIDE DEF a, w, c
  <2>5. /\ a + 1 \in 1..Len(e) /\ UnitLength(e, a + 1) = Len(w)
        /\ Decoded(e, a + 1) = c
        /\ ~(UnitLength(e, a + 1) = 3 /\ StoiThrows(e[a + 1 + 1], e[a + 1 + 2]))
    BY <1>5, <2>4, UnitIsForm
  <2> QED BY <2>2, <2>5 DEF a, w, c
<1> DEFINE next == [p \in 1..Len(e) |-> p + UnitLength(e, p)]
           at   == [k \in 1..n + 1 |-> cut[k - 1] + 1]
<1>9. Units(e) = at
  <2>1. Forward(next, Len(e))
    BY <1>7 DEF Forward, UnitLength
  <2>2. \A k \in 1..n : /\ 0 + cut[k - 1] + 1 \in DOMAIN next
                        /\ next[0 + cut[k - 1] + 1] = 0 + cut[k] + 1
    <3> TAKE k \in 1..n
    <3>0. k - 1 \in 0..n /\ k \in 0..n
      BY <1>1
    <3>1. cut[k - 1] \in Nat /\ cut[k] \in Nat /\ 0 + cut[k - 1] + 1 = cut[k - 1] + 1 /\ 0 + cut[k] + 1 = cut[k] + 1
      BY <1>7, <3>0
    <3>2. next[cut[k - 1] + 1] = cut[k - 1] + 1 + Len(f[k])
      BY <1>8
    <3>3. Len(f[k]) \in Nat
      BY <1>4
    <3> HIDE DEF next
    <3>4. cut[k - 1] + 1 + Len(f[k]) = cut[k] + 1
      BY <1>8, <3>1, <3>3, SMTT(30)
    <3>5. cut[k - 1] + 1 \in DOMAIN next
      BY <1>8 DEF next
    <3> QED BY <3>1, <3>2, <3>4, <3>5
  <2>3. 0 + Len(e) + 1 \notin DOMAIN next
    BY <1>7
  <2> HIDE DEF next
  <2>4. Visited(next, 0 + 1) = Begins(0, n, cut)
    <3>1. 0 \in Nat /\ n \in Nat /\ Len(e) \in Nat
      BY <1>1, <1>7
    <3>2. Goes(next, Len(e), 0, n, cut)
      BY <1>7, <2>1, <2>2, <2>3, Zenon DEF Goes
    <3> HIDE DEF at
    <3> QED BY <3>1, <3>2, VisitsPieces
  <2>5. \A k \in 1..n + 1 : 0 + cut[k - 1] + 1 = cut[k - 1] + 1
    BY <1>1, <1>7
  <2>6. Begins(0, n, cut) = at
    BY <2>5 DEF Begins
  <2>7. Visited(next, 1) = at
    BY <2>4, <2>6
  <2> QED BY <2>7 DEF Units, next
<1>10. Len(at) = n + 1 /\ (n + 1) - 1 = n /\ \A k \in 1..n : at[k] = cut[k - 1] + 1
  BY <1>1
<1> HIDE DEF at, next
<1>11. url_decode(e) = t
  <2>1. url_decode(e) = [k \in 1..n |-> Decoded(e, at[k])]
    BY <1>9, <1>10 DEF url_decode
  <2>2. \A k \in 1..n : Decoded(e, at[k]) = t[k]
    BY <1>8, <1>10
  <2>3. t = [k \in 1..n |-> t[k]]
    BY DEF Writes
  <2> QED BY <2>1, <2>2, <2>3
<1>12. ~DecodeThrows(e)
  <2>1. DecodeThrows(e) <=>
           \E k \in 1..Len(at) - 1 : UnitLength(e, at[k]) = 3 /\ StoiThrows(e[at[k] + 1], e[at[k] + 2])
    BY <1>9, Zenon DEF DecodeThrows
  <2>2. 1..Len(at) - 1 = 1..n
    BY <1>10
  <2>3. ASSUME NEW k \in 1..n
        PROVE  ~(UnitLength(e, at[k]) = 3 /\ StoiThrows(e[at[k] + 1], e[at[k] + 2]))
    <3>1. at[k] = cut[k - 1] + 1
      BY <1>10
    <3> QED BY <1>8, <3>1, Zenon
  <2> QED BY <2>1, <2>2, <2>3, Zenon
<1>13. ASSUME NEW p \in 1..Len(e) PROVE e[p] \notin {"&", "=", "?"}
  <2>1. IsIn(p, cut, f, e, n)
    <3>1. n \in Nat /\ f \in [1..n -> Seq(Written)]
      BY <1>1, <1>4
    <3> QED BY <1>5, <1>6, <3>1, InAPiece
  <2> QED BY <1>4, <2>1 DEF IsForm, IsIn
<1>14. n # 0 => Len(e) # 0
  <2> SUFFICES ASSUME n # 0 PROVE Len(e) # 0
    OBVIOUS
  <2>1. 1 \in 1..n
    BY <1>1
  <2>2. cut[1 - 1] + 1 \in 1..Len(e)
    BY <1>8, <2>1
  <2> QED BY <1>5, <1>7, <2>2
<1> QED
  BY <1>11, <1>12, <1>13, <1>14

\* However a client writes a text, it is decoded to that text.
LEMMA EncodingsArePieces ==
    ASSUME NEW t \in Seq(Coded), NEW e \in Encodings(t)
    PROVE  \E f, cut : Writes(f, cut, e, t, Len(t))
<1> DEFINE n == Len(t)
<1>1. n \in Nat /\ t = [k \in 1..n |-> t[k]] /\ \A k \in 1..n : t[k] \in Coded
  OBVIOUS
<1>2. \E f : /\ f \in [1..n -> Seq(Written)] /\ e = FlattenSeq(f)
             /\ \A k \in 1..n : IsForm(f[k], t[k])
  <2>1. PICK f \in [1..n -> UNION {Forms[t[k]] : k \in 1..n}] :
                e = FlattenSeq(f) /\ \A k \in 1..n : f[k] \in Forms[t[k]]
    BY Zenon DEF Encodings
  <2>2. \A k \in 1..n : IsForm(f[k], t[k])
    BY <1>1, <2>1, FormsAre
  <2>3. f \in [1..n -> Seq(Written)]
    BY <2>1, <2>2 DEF IsForm
  <2> QED BY <2>1, <2>2, <2>3, Zenon
<1> HIDE DEF n
<1>3. PICK f : /\ f \in [1..n -> Seq(Written)] /\ e = FlattenSeq(f)
               /\ \A k \in 1..n : IsForm(f[k], t[k])
  BY <1>2, Zenon
<1>4. f \in [1..n -> Seq(Written)] /\ e = FlattenSeq(f) /\ \A k \in 1..n : IsForm(f[k], t[k])
  BY <1>3
<1>5. e \in Seq(Written)
  BY <1>1, <1>4, FlattenedIs
<1>6. PICK cut : Tiles(cut, f, e, n)
  BY <1>1, <1>4, FlattenedIs
<1> QED
  BY <1>1, <1>4, <1>5, <1>6 DEF Writes, n

LEMMA Decoding ==
    ASSUME NEW t \in Seq(Coded), NEW e \in Encodings(t)
    PROVE  /\ e \in Seq(Written) /\ url_decode(e) = t /\ ~DecodeThrows(e)
           /\ \A p \in 1..Len(e) : e[p] \notin {"&", "=", "?"}
           /\ t # << >> => e # << >>
<1> DEFINE n == Len(t)
<1>1. n \in Nat /\ (t # << >> => n # 0)
  OBVIOUS
<1>2. PICK f, cut : Writes(f, cut, e, t, n)
  BY EncodingsArePieces
<1> HIDE DEF n
<1>3. e \in Seq(Written)
  BY <1>2 DEF Writes
<1>4. /\ url_decode(e) = t /\ ~DecodeThrows(e)
      /\ \A p \in 1..Len(e) : e[p] \notin {"&", "=", "?"}
      /\ n # 0 => Len(e) # 0
  BY <1>1, <1>2, PiecesAreDecoded
<1> QED
  BY <1>1, <1>3, <1>4

-----------------------------------------------------------------------------
(* Looking for a character.                                                *)

Finds(s, c, from, p) == /\ p \in from..Len(s) + 1
                        /\ p = Len(s) + 1 \/ s[p] = c
                        /\ \A q \in from..p - 1 : s[q] # c

LEMMA FindIs ==
    ASSUME NEW s, Len(s) \in Nat, NEW c, NEW from \in Nat, NEW p, Finds(s, c, from, p)
    PROVE  Find(s, c, from) = p
<1>1. ASSUME NEW r, Finds(s, c, from, r) PROVE r = p
  <2>1. p \in Nat /\ r \in Nat /\ p <= Len(s) + 1 /\ r <= Len(s) + 1
    BY <1>1 DEF Finds
  <2>2. ~(r < p)
    <3> SUFFICES ASSUME r < p PROVE FALSE
      OBVIOUS
    <3>1. r \in from..p - 1 /\ r # Len(s) + 1
      BY <1>1, <2>1 DEF Finds
    <3> QED BY <1>1, <3>1 DEF Finds
  <2>3. ~(p < r)
    <3> SUFFICES ASSUME p < r PROVE FALSE
      OBVIOUS
    <3>1. p \in from..r - 1 /\ p # Len(s) + 1
      BY <1>1, <2>1 DEF Finds
    <3> QED BY <1>1, <3>1 DEF Finds
  <2> QED BY <2>1, <2>2, <2>3
<1>2. Find(s, c, from) = CHOOSE r \in from..Len(s) + 1 : Finds(s, c, from, r)
  BY Zenon DEF Find, Finds
<1>3. p \in from..Len(s) + 1
  BY DEF Finds
<1> QED
  BY <1>1, <1>2, <1>3, Zenon

LEMMA FindFinds ==
    ASSUME NEW s, Len(s) \in Nat, NEW c, NEW from \in 1..Len(s) + 1
    PROVE  Finds(s, c, from, Find(s, c, from))
<1> DEFINE T == {p \in from..Len(s) + 1 : p = Len(s) + 1 \/ s[p] = c}
<1>1. PICK p \in T : \A q \in T : p <= q
  <2>1. T \subseteq Nat /\ Len(s) + 1 \in T
    OBVIOUS
  <2> HIDE DEF T
  <2> QED BY <2>1, LeastNumber
<1>2. \A q \in from..p - 1 : s[q] # c
  BY <1>1
<1>3. Finds(s, c, from, p)
  BY <1>1, <1>2 DEF Finds
<1> QED
  BY <1>3, FindIs

LEMMA Part ==
    ASSUME NEW S, NEW s \in Seq(S), NEW a \in Nat, NEW b \in Nat, 1 <= a, a <= b + 1, b <= Len(s)
    PROVE  /\ SubSeq(s, a, b) \in Seq(S) /\ Len(SubSeq(s, a, b)) = b - a + 1
           /\ \A k \in 1..b - a + 1 : SubSeq(s, a, b)[k] = s[a + k - 1]
<1>1. \A i \in a..b : s[i] \in S
  OBVIOUS
<1>2. a \in Int /\ b \in Int
  OBVIOUS
<1>3. /\ SubSeq(s, a, b) \in Seq(S)
      /\ Len(SubSeq(s, a, b)) = IF a <= b THEN b - a + 1 ELSE 0
      /\ \A k \in 1..b - a + 1 : SubSeq(s, a, b)[k] = s[a + k - 1]
  BY <1>1, <1>2, SubSeqProperties
<1> QED
  BY <1>3

\* The parts of a text before and after a character.
LEMMA Halves ==
    ASSUME NEW S, NEW s \in Seq(S), NEW c
    PROVE  /\ Before(s, c) \in Seq(S) /\ After(s, c) \in Seq(S)
           /\ \A k \in 1..Len(Before(s, c)) : k \in 1..Len(s) /\ Before(s, c)[k] = s[k]
           /\ \A k \in 1..Len(After(s, c)) : \E l \in 1..Len(s) : After(s, c)[k] = s[l]
<1> DEFINE p == Find(s, c, 1)
<1>1. Len(s) \in Nat /\ 1 \in 1..Len(s) + 1
  OBVIOUS
<1>2. p \in 1..Len(s) + 1
  BY <1>1, FindFinds DEF Finds
<1> HIDE DEF p
<1>3. Before(s, c) = SubSeq(s, 1, p - 1) /\ After(s, c) = SubSeq(s, p + 1, Len(s))
  BY DEF Before, After, p
<1>4. /\ SubSeq(s, 1, p - 1) \in Seq(S) /\ Len(SubSeq(s, 1, p - 1)) = p - 1
      /\ \A k \in 1..p - 1 : SubSeq(s, 1, p - 1)[k] = s[k]
  <2>1. 1 \in Nat /\ p - 1 \in Nat /\ 1 <= 1 /\ 1 <= (p - 1) + 1 /\ p - 1 <= Len(s) /\ (p - 1) - 1 + 1 = p - 1
    BY <1>1, <1>2
  <2>2. /\ SubSeq(s, 1, p - 1) \in Seq(S) /\ Len(SubSeq(s, 1, p - 1)) = (p - 1) - 1 + 1
        /\ \A k \in 1..(p - 1) - 1 + 1 : SubSeq(s, 1, p - 1)[k] = s[1 + k - 1]
    BY <2>1, Part
  <2>3. \A k \in 1..p - 1 : 1 + k - 1 = k
    OBVIOUS
  <2> QED BY <2>1, <2>2, <2>3
<1>5. CASE p <= Len(s)
  <2> DEFINE m == Len(s)
             u == SubSeq(s, p + 1, m)
  <2>1. m \in Nat /\ p + 1 \in Nat /\ 1 <= p + 1 /\ p + 1 <= m + 1 /\ m <= Len(s)
    BY <1>2, <1>5
  <2>2. /\ u \in Seq(S) /\ Len(u) = m - (p + 1) + 1
        /\ \A k \in 1..m - (p + 1) + 1 : u[k] = s[(p + 1) + k - 1]
    <3> HIDE DEF m
    <3> QED BY <2>1, Part
  <2>3. \A k \in 1..m - (p + 1) + 1 : (p + 1) + k - 1 \in 1..m
    BY <1>2, <1>5
  <2> HIDE DEF u
  <2>4. \A k \in 1..Len(u) : \E l \in 1..Len(s) : u[k] = s[l]
    BY <2>2, <2>3
  <2> QED BY <1>1, <1>2, <1>3, <1>4, <2>2, <2>4 DEF u
<1>6. CASE p = Len(s) + 1
  <2>1. SubSeq(s, p + 1, Len(s)) = << >>
    BY <1>1, <1>6, SubSeqEmpty
  <2> QED BY <1>1, <1>2, <1>3, <1>4, <2>1
<1> QED
  BY <1>1, <1>2, <1>5, <1>6

-----------------------------------------------------------------------------
(* Targets.                                                                *)

\* A text without an escape.
LEMMA PlainDecoding ==
    ASSUME NEW S, NEW s \in Seq(S), \A p \in 1..Len(s) : s[p] # "%"
    PROVE  /\ ~DecodeThrows(s)
           /\ url_decode(s) = [k \in 1..Len(s) |-> IF s[k] = "+" THEN Space ELSE s[k]]
<1> DEFINE n    == Len(s)
           next == [p \in 1..Len(s) |-> p + UnitLength(s, p)]
           cut  == [k \in 0..n |-> k]
<1>1. n \in Nat /\ \A p \in 1..n : UnitLength(s, p) = 1
  BY DEF UnitLength
<1>2. Goes(next, n, 0, n, cut)
  <2>1. Forward(next, n)
    <3>1. \A p \in DOMAIN next : next[p] = p + 1 /\ p \in 1..n
      BY <1>1
    <3> HIDE DEF next
    <3>2. DOMAIN next = 1..n
      BY DEF next
    <3> QED BY <1>1, <3>1, <3>2 DEF Forward
  <2>2. cut \in [0..n -> Nat] /\ cut[0] = 0 /\ cut[n] = n
    BY <1>1
  <2>3. ASSUME NEW k \in 1..n
        PROVE  0 + cut[k - 1] + 1 \in DOMAIN next /\ next[0 + cut[k - 1] + 1] = 0 + cut[k] + 1
    <3>1. k - 1 \in 0..n /\ k \in 0..n
      BY <1>1
    <3>2. cut[k - 1] = k - 1 /\ cut[k] = k
      BY <3>1
    <3>3. 0 + (k - 1) + 1 = k /\ 0 + k + 1 = k + 1
      OBVIOUS
    <3>4. k \in DOMAIN next /\ next[k] = k + 1
      BY <1>1
    <3> HIDE DEF cut, next
    <3> QED BY <3>2, <3>3, <3>4
  <2>4. 0 + cut[n] + 1 \notin DOMAIN next
    BY <1>1
  <2> HIDE DEF cut, next, n
  <2> QED BY <2>1, <2>2, <2>3, <2>4 DEF Goes
<1>3. Units(s) = Begins(0, n, cut)
  <2>1. 0 \in Nat /\ Units(s) = Visited(next, 0 + 1)
    BY DEF Units
  <2> HIDE DEF next, cut, n
  <2> QED BY <1>1, <1>2, <2>1, VisitsPieces
<1> DEFINE at == [k \in 1..n + 1 |-> k]
<1>4. Begins(0, n, cut) = at
  <2>1. \A k \in 1..n + 1 : 0 + cut[k - 1] + 1 = k
    <3> TAKE k \in 1..n + 1
    <3>1. k - 1 \in 0..n
      BY <1>1
    <3>2. cut[k - 1] = k - 1
      BY <3>1
    <3> HIDE DEF cut
    <3> QED BY <3>2
  <2> HIDE DEF cut, n
  <2> QED BY <2>1 DEF Begins
<1>5. Len(at) = n + 1 /\ (n + 1) - 1 = n /\ \A k \in 1..n : at[k] = k
  BY <1>1
<1>6. Units(s) = at
  BY <1>3, <1>4
<1> HIDE DEF at, next, cut, n
<1>7. ~DecodeThrows(s)
  BY <1>1, <1>5, <1>6 DEF DecodeThrows
<1>8. \A k \in 1..n : Decoded(s, k) = IF s[k] = "+" THEN Space ELSE s[k]
  <2> TAKE k \in 1..n
  <2>1. UnitLength(s, k) # 3
    BY <1>1
  <2> QED BY <2>1, Zenon DEF Decoded
<1>9. url_decode(s) = [k \in 1..n |-> Decoded(s, at[k])]
  BY <1>5, <1>6 DEF url_decode
<1> QED
  BY <1>5, <1>7, <1>8, <1>9 DEF n

\* One pair of a query string.
LEMMA PairIs ==
    ASSUME NEW S, NEW qs \in Seq(S), NEW p \in PairsIn(qs)
    PROVE  LET end == Find(qs, "&", p)
           IN  /\ p \in 1..Len(qs) /\ end \in p..Len(qs) + 1 /\ \A x \in p..end - 1 : qs[x] # "&"
               /\ KeyAt(qs, p) \in Seq(S) /\ ValueAt(qs, p) \in Seq(S)
               /\ \A k \in 1..Len(KeyAt(qs, p)) : p + k - 1 \in p..end - 1 /\ KeyAt(qs, p)[k] = qs[p + k - 1]
               /\ \A k \in 1..Len(ValueAt(qs, p)) : \E x \in p..end - 1 : ValueAt(qs, p)[k] = qs[x]
<1> DEFINE end == Find(qs, "&", p)
           u   == SubSeq(qs, p, end - 1)
<1>1. p \in 1..Len(qs) /\ qs[p] # "&" /\ Len(qs) \in Nat
  BY DEF PairsIn
<1>2. end \in p..Len(qs) + 1 /\ \A x \in p..end - 1 : qs[x] # "&"
  <2>1. p \in 1..Len(qs) + 1
    BY <1>1
  <2> QED BY <1>1, <2>1, FindFinds DEF Finds
<1> HIDE DEF end
<1>3. u \in Seq(S) /\ Len(u) = end - p /\ \A k \in 1..end - p : u[k] = qs[p + k - 1]
  <2>1. p \in Nat /\ end - 1 \in Nat /\ 1 <= p /\ p <= (end - 1) + 1 /\ end - 1 <= Len(qs) /\ (end - 1) - p + 1 = end - p
    BY <1>1, <1>2
  <2>2. /\ u \in Seq(S) /\ Len(u) = (end - 1) - p + 1
        /\ \A k \in 1..(end - 1) - p + 1 : u[k] = qs[p + k - 1]
    BY <2>1, Part
  <2> HIDE DEF u
  <2> QED BY <2>1, <2>2
<1>4. KeyAt(qs, p) = Before(u, "=") /\ ValueAt(qs, p) = After(u, "=")
  BY DEF KeyAt, ValueAt, PairAt, end
<1> HIDE DEF u
<1>5. /\ Before(u, "=") \in Seq(S) /\ After(u, "=") \in Seq(S)
      /\ \A k \in 1..Len(Before(u, "=")) : k \in 1..Len(u) /\ Before(u, "=")[k] = u[k]
      /\ \A k \in 1..Len(After(u, "=")) : \E l \in 1..Len(u) : After(u, "=")[k] = u[l]
  BY <1>3, Halves
<1>6. \A k \in 1..Len(u) : p + k - 1 \in p..end - 1 /\ u[k] = qs[p + k - 1]
  BY <1>1, <1>2, <1>3
<1>7. /\ \A k \in 1..Len(KeyAt(qs, p)) : p + k - 1 \in p..end - 1 /\ KeyAt(qs, p)[k] = qs[p + k - 1]
      /\ \A k \in 1..Len(ValueAt(qs, p)) : \E x \in p..end - 1 : ValueAt(qs, p)[k] = qs[x]
  <2>1. \A k \in 1..Len(Before(u, "=")) : p + k - 1 \in p..end - 1 /\ Before(u, "=")[k] = qs[p + k - 1]
    BY <1>5, <1>6, Zenon
  <2>2. ASSUME NEW k \in 1..Len(After(u, "="))
        PROVE  \E x \in p..end - 1 : After(u, "=")[k] = qs[x]
    <3>1. PICK l \in 1..Len(u) : After(u, "=")[k] = u[l]
      BY <1>5, Zenon
    <3> QED BY <1>6, <3>1, Zenon
  <2> QED BY <1>4, <2>1, <2>2, Zenon
<1> QED
  BY <1>1, <1>2, <1>4, <1>5, <1>7 DEF end

\* One without an escape.
LEMMA PlainPair ==
    ASSUME NEW S, NEW qs \in Seq(S), NEW p \in PairsIn(qs),
           \A x \in p..Find(qs, "&", p) - 1 : qs[x] # "%"
    PROVE  /\ ~DecodeThrows(KeyAt(qs, p)) /\ ~DecodeThrows(ValueAt(qs, p))
           /\ url_decode(KeyAt(qs, p)) = <<"q">> => qs[p] = "q"
<1> DEFINE key == KeyAt(qs, p)
           val == ValueAt(qs, p)
           end == Find(qs, "&", p)
<1>1. /\ p \in 1..Len(qs)
      /\ key \in Seq(S) /\ val \in Seq(S)
      /\ \A k \in 1..Len(key) : p + k - 1 \in p..end - 1 /\ key[k] = qs[p + k - 1]
      /\ \A k \in 1..Len(val) : \E x \in p..end - 1 : val[k] = qs[x]
  BY PairIs
<1> HIDE DEF key, val
<1>2. (\A k \in 1..Len(key) : key[k] # "%") /\ (\A k \in 1..Len(val) : val[k] # "%")
  BY <1>1
<1> HIDE DEF end
<1>3. ~DecodeThrows(key) /\ ~DecodeThrows(val)
  BY <1>1, <1>2, PlainDecoding
<1>4. url_decode(key) = [k \in 1..Len(key) |-> IF key[k] = "+" THEN Space ELSE key[k]]
  BY <1>1, <1>2, PlainDecoding
<1>5. ASSUME url_decode(key) = <<"q">> PROVE qs[p] = "q"
  <2>1. 1 \in DOMAIN <<"q">> /\ <<"q">>[1] = "q"
    OBVIOUS
  <2>2. 1 \in DOMAIN [k \in 1..Len(key) |-> IF key[k] = "+" THEN Space ELSE key[k]]
    BY <1>4, <1>5, <2>1
  <2>3. 1 \in 1..Len(key)
    BY <2>2
  <2>4. (IF key[1] = "+" THEN Space ELSE key[1]) = "q"
    BY <1>4, <1>5, <2>1, <2>3
  <2>5. key[1] = "q"
    BY <2>4 DEF Space
  <2>6. p + 1 - 1 = p
    BY <1>1
  <2> QED BY <1>1, <2>3, <2>5, <2>6
<1> QED
  BY <1>3, <1>5 DEF key, val

\* The pair that begins with "q=" at b and ends at l.
LEMMA QueryPair ==
    ASSUME NEW S, NEW qs \in Seq(S), NEW b \in Nat, NEW l \in Nat,
           1 <= b, b + 1 <= l, l <= Len(qs), qs[b] = "q", qs[b + 1] = "=",
           \A x \in b + 2..l : qs[x] # "&", l = Len(qs) \/ qs[l + 1] = "&"
    PROVE  /\ Find(qs, "&", b) = l + 1
           /\ url_decode(KeyAt(qs, b)) = <<"q">> /\ ~DecodeThrows(KeyAt(qs, b))
           /\ ValueAt(qs, b) = SubSeq(qs, b + 2, l)
<1>0. Len(qs) \in Nat
  OBVIOUS
<1>1. Find(qs, "&", b) = l + 1
  <2>1. \A x \in b..(l + 1) - 1 : x = b \/ x = b + 1 \/ x \in b + 2..l
    OBVIOUS
  <2>2. \A x \in b..(l + 1) - 1 : qs[x] # "&"
    BY <2>1
  <2>3. l + 1 \in b..Len(qs) + 1 /\ (l + 1 = Len(qs) + 1 \/ qs[l + 1] = "&")
    BY <1>0
  <2>4. Finds(qs, "&", b, l + 1)
    BY <2>2, <2>3 DEF Finds
  <2> QED BY <1>0, <2>4, FindIs
<1> DEFINE u == SubSeq(qs, b, l)
<1>2. u \in Seq(S) /\ Len(u) = l - b + 1 /\ \A k \in 1..l - b + 1 : u[k] = qs[b + k - 1]
  <2>1. b <= l + 1
    OBVIOUS
  <2> QED BY <2>1, Part
<1>3. PairAt(qs, b) = u
  <2>1. (l + 1) - 1 = l
    OBVIOUS
  <2> QED BY <1>1, <2>1 DEF PairAt
<1> HIDE DEF u
<1>4. Find(u, "=", 1) = 2
  <2>1. u[1] = "q" /\ u[2] = "=" /\ Len(u) \in Nat /\ 2 <= Len(u)
    <3>1. 1 \in 1..l - b + 1 /\ 2 \in 1..l - b + 1 /\ b + 1 - 1 = b /\ b + 2 - 1 = b + 1
      OBVIOUS
    <3> QED BY <1>2, <3>1
  <2>2. \A x \in 1..2 - 1 : u[x] # "="
    BY <2>1
  <2>3. Finds(u, "=", 1, 2)
    BY <2>1, <2>2 DEF Finds
  <2>4. 1 \in Nat
    OBVIOUS
  <2> QED BY <2>1, <2>3, <2>4, FindIs
<1> DEFINE key == SubSeq(u, 1, 1)
<1>5. KeyAt(qs, b) = key /\ ValueAt(qs, b) = SubSeq(u, 3, Len(u))
  BY <1>3, <1>4 DEF KeyAt, ValueAt, Before, After
<1>6. key \in Seq(S) /\ Len(key) = 1 /\ key[1] = "q"
  <2>1. 1 \in Nat /\ 1 <= 1 + 1 /\ 1 <= 1 /\ 1 <= Len(u) /\ 1 - 1 + 1 = 1 /\ 1 + 1 - 1 = 1
    BY <1>2
  <2>2. /\ key \in Seq(S) /\ Len(key) = 1 - 1 + 1
        /\ \A k \in 1..1 - 1 + 1 : key[k] = u[1 + k - 1]
    BY <1>2, <2>1, Part
  <2>3. u[1] = "q"
    <3>1. 1 \in 1..l - b + 1 /\ b + 1 - 1 = b
      OBVIOUS
    <3> QED BY <1>2, <3>1
  <2> HIDE DEF key
  <2> QED BY <2>1, <2>2, <2>3
<1> HIDE DEF key
<1>7. url_decode(key) = <<"q">> /\ ~DecodeThrows(key)
  <2>1. \A x \in 1..Len(key) : key[x] # "%"
    BY <1>6
  <2>2. /\ ~DecodeThrows(key)
        /\ url_decode(key) = [k \in 1..Len(key) |-> IF key[k] = "+" THEN Space ELSE key[k]]
    BY <1>6, <2>1, PlainDecoding
  <2>3. [k \in 1..Len(key) |-> IF key[k] = "+" THEN Space ELSE key[k]] = <<"q">>
    BY <1>6
  <2> QED BY <2>2, <2>3
<1>8. SubSeq(u, 3, Len(u)) = SubSeq(qs, b + 2, l)
  <2> DEFINE m == Len(u)
             v == SubSeq(u, 3, m)
             w == SubSeq(qs, b + 2, l)
  <2>1. v \in Seq(S) /\ Len(v) = m - 3 + 1 /\ \A k \in 1..m - 3 + 1 : v[k] = u[3 + k - 1]
    <3>1. 3 \in Nat /\ m \in Nat /\ 1 <= 3 /\ 3 <= m + 1 /\ m <= Len(u)
      BY <1>2
    <3> HIDE DEF m
    <3> QED BY <1>2, <3>1, Part
  <2>2. w \in Seq(S) /\ Len(w) = l - (b + 2) + 1 /\ \A k \in 1..l - (b + 2) + 1 : w[k] = qs[(b + 2) + k - 1]
    <3>1. b + 2 \in Nat /\ 1 <= b + 2 /\ b + 2 <= l + 1
      OBVIOUS
    <3> QED BY <3>1, Part
  <2> HIDE DEF v, w
  <2>3. Len(v) = Len(w)
    BY <1>2, <2>1, <2>2
  <2>4. ASSUME NEW k \in 1..Len(v) PROVE v[k] = w[k]
    <3>1. k \in 1..m - 3 + 1 /\ k \in 1..l - (b + 2) + 1 /\ 3 + k - 1 \in 1..l - b + 1
      BY <1>2, <2>1
    <3>2. b + (3 + k - 1) - 1 = (b + 2) + k - 1
      OBVIOUS
    <3> HIDE DEF m
    <3>3. u[3 + k - 1] = qs[b + (3 + k - 1) - 1]
      BY <1>2, <3>1
    <3> QED BY <2>1, <2>2, <3>1, <3>2, <3>3
  <2>5. v = w
    BY <2>1, <2>2, <2>3, <2>4, SeqEqual
  <2> QED BY <2>5 DEF v, w
<1> QED
  BY <1>1, <1>5, <1>7, <1>8

\* A target of a path alone.
LEMMA BareTarget ==
    ASSUME NEW S, NEW T \in Seq(S), \A p \in 1..Len(T) : T[p] # "?"
    PROVE  /\ TargetThrows(T) <=> DecodeThrows(T)
           /\ parse_target(T).path = url_decode(T)
<1> DEFINE m == Len(T)
<1>1. m \in Nat
  OBVIOUS
<1>2. Find(T, "?", 1) = m + 1
  <2>1. m + 1 \in 1..Len(T) + 1 /\ \A q \in 1..(m + 1) - 1 : T[q] # "?"
    BY <1>1
  <2>2. Finds(T, "?", 1, m + 1)
    BY <2>1 DEF Finds
  <2>3. 1 \in Nat /\ Len(T) \in Nat
    OBVIOUS
  <2> HIDE DEF m
  <2> QED BY <2>2, <2>3, FindIs
<1>3. Before(T, "?") = T
  <2>1. (m + 1) - 1 = Len(T) /\ SubSeq(T, 1, Len(T)) = T
    BY <1>1, SubSeqFull
  <2> QED BY <1>2, <2>1 DEF Before
<1>4. After(T, "?") = << >>
  <2>1. SubSeq(T, (m + 1) + 1, m) = << >>
    <3>1. (m + 1) + 1 \in Int /\ m \in Int /\ m < (m + 1) + 1
      BY <1>1
    <3> HIDE DEF m
    <3> QED BY <3>1, SubSeqEmpty
  <2> QED BY <1>2, <2>1 DEF After
<1>5. PairsIn(<< >>) = {}
  BY DEF PairsIn
<1>6. TargetThrows(T) <=> DecodeThrows(T)
  BY <1>3, <1>4, <1>5, Zenon DEF TargetThrows
<1>7. parse_target(T).path = url_decode(T)
  BY <1>3, <1>4 DEF parse_target
<1> QED
  BY <1>6, <1>7

\* The text of a search is read from the target, whatever else stands there.
LEMMA SearchTarget ==
    ASSUME NEW T \in Seq(STRING), NEW t \in Seq(Coded), AsksForSearch(T, t)
    PROVE  /\ ~TargetThrows(T) /\ parse_target(T).path = <<"/search">>
           /\ <<"q">> \in DOMAIN parse_target(T).query /\ parse_target(T).query[<<"q">>] = t
<1> DEFINE N  == Len(T)
           qs == SubSeq(T, 3, N)
<1>1. PICK i \in 2..Len(T) - 2, j \in 2..Len(T) :
          /\ SubSeq(T, i + 1, i + 2) = <<"q", "=">>
          /\ SubSeq(T, i + 3, j) \in Encodings(t)
          /\ i = 2 \/ T[i] = "&"
          /\ j = Len(T) \/ T[j + 1] = "&"
          /\ \A p \in 3..i : T[p] # "%"
          /\ \A p \in j + 1..Len(T) : T[p] \notin {"%", "q"}
  BY DEF AsksForSearch
<1>2. N \in Nat /\ i \in 2..N - 2 /\ j \in 2..N /\ 4 <= N
  BY <1>1
<1>3. T[1] = "/search" /\ T[2] = "?" /\ T[i + 1] = "q" /\ T[i + 2] = "="
  <2>1. SubSeq(T, 1, 2) = <<"/search", "?">>
    BY DEF AsksForSearch
  <2>2. \A k \in 1..2 - 1 + 1 : SubSeq(T, 1, 2)[k] = T[1 + k - 1]
    <3>1. 1 \in Nat /\ 2 \in Nat /\ 1 <= 1 /\ 1 <= 2 + 1 /\ 2 <= Len(T)
      BY <1>2
    <3> QED BY <3>1, Part
  <2>3. \A k \in 1..(i + 2) - (i + 1) + 1 : SubSeq(T, i + 1, i + 2)[k] = T[(i + 1) + k - 1]
    <3>1. i + 1 \in Nat /\ i + 2 \in Nat /\ 1 <= i + 1 /\ i + 1 <= (i + 2) + 1 /\ i + 2 <= Len(T)
      BY <1>2
    <3> QED BY <3>1, Part
  <2>4. 1 \in 1..2 - 1 + 1 /\ 2 \in 1..2 - 1 + 1 /\ 1 + 1 - 1 = 1 /\ 1 + 2 - 1 = 2
    OBVIOUS
  <2>5. /\ 1 \in 1..(i + 2) - (i + 1) + 1 /\ 2 \in 1..(i + 2) - (i + 1) + 1
        /\ (i + 1) + 1 - 1 = i + 1 /\ (i + 1) + 2 - 1 = i + 2
    BY <1>2
  <2>6. T[1] = <<"/search", "?">>[1] /\ T[2] = <<"/search", "?">>[2]
    BY <2>1, <2>2, <2>4
  <2>7. T[i + 1] = <<"q", "=">>[1] /\ T[i + 2] = <<"q", "=">>[2]
    BY <1>1, <2>3, <2>5
  <2> QED BY <2>6, <2>7
\* The value is written without a separator.
<1> DEFINE e == SubSeq(T, i + 3, j)
<1>4. /\ url_decode(e) = t /\ ~DecodeThrows(e) /\ e # << >>
      /\ \A p \in 1..Len(e) : e[p] \notin {"&", "=", "?"}
  <2>1. t # << >> /\ e \in Encodings(t)
    BY <1>1 DEF AsksForSearch
  <2> HIDE DEF e
  <2> QED BY <2>1, Decoding
<1>5. i + 3 <= j
  <2> SUFFICES ASSUME ~(i + 3 <= j) PROVE FALSE
    OBVIOUS
  <2>1. SubSeq(T, i + 3, j) = << >>
    BY <1>2, SubSeqEmpty
  <2> QED BY <1>4, <2>1
<1>6. \A x \in i + 3..j : T[x] # "&"
  <2>1. i + 3 \in Nat /\ j \in Nat /\ 1 <= i + 3 /\ i + 3 <= j + 1 /\ j <= Len(T)
    BY <1>2, <1>5
  <2>2. Len(e) = j - (i + 3) + 1 /\ \A k \in 1..j - (i + 3) + 1 : e[k] = T[(i + 3) + k - 1]
    BY <2>1, Part
  <2> HIDE DEF e
  <2> TAKE x \in i + 3..j
  <2> DEFINE k == x - (i + 2)
  <2>3. k \in 1..Len(e) /\ k \in 1..j - (i + 3) + 1 /\ (i + 3) + k - 1 = x
    BY <1>2, <2>2
  <2> HIDE DEF k
  <2> QED BY <1>4, <2>2, <2>3
\* The path, and what comes after it.
<1>7. Find(T, "?", 1) = 2
  <2>1. 2 \in 1..Len(T) + 1 /\ \A q \in 1..2 - 1 : T[q] # "?"
    BY <1>2, <1>3
  <2>2. Finds(T, "?", 1, 2)
    BY <1>3, <2>1 DEF Finds
  <2>3. 1 \in Nat /\ Len(T) \in Nat
    OBVIOUS
  <2> QED BY <2>2, <2>3, FindIs
<1> DEFINE path == SubSeq(T, 1, 1)
<1>8. Before(T, "?") = path /\ After(T, "?") = qs
  <2>1. 2 - 1 = 1 /\ 2 + 1 = 3
    OBVIOUS
  <2> QED BY <1>7, <2>1 DEF Before, After
<1>9. ~DecodeThrows(path) /\ url_decode(path) = <<"/search">>
  <2>1. path \in Seq(STRING) /\ Len(path) = 1 - 1 + 1 /\ \A k \in 1..1 - 1 + 1 : path[k] = T[1 + k - 1]
    <3>1. 1 \in Nat /\ 1 <= 1 /\ 1 <= 1 + 1 /\ 1 <= Len(T)
      BY <1>2
    <3> QED BY <3>1, Part
  <2>2. 1 - 1 + 1 = 1 /\ 1 + 1 - 1 = 1
    OBVIOUS
  <2> HIDE DEF path
  <2>3. Len(path) = 1 /\ path[1] = "/search"
    BY <1>3, <2>1, <2>2
  <2>4. \A x \in 1..Len(path) : path[x] # "%"
    BY <2>3
  <2>5. /\ ~DecodeThrows(path)
        /\ url_decode(path) = [k \in 1..Len(path) |-> IF path[k] = "+" THEN Space ELSE path[k]]
    BY <2>1, <2>4, PlainDecoding
  <2>6. [k \in 1..Len(path) |-> IF path[k] = "+" THEN Space ELSE path[k]] = <<"/search">>
    BY <2>3
  <2> QED BY <2>5, <2>6
<1>10. qs \in Seq(STRING) /\ Len(qs) = N - 2 /\ \A k \in 1..N - 2 : qs[k] = T[k + 2]
  <2>1. 3 \in Nat /\ N \in Nat /\ 1 <= 3 /\ 3 <= N + 1 /\ N <= Len(T) /\ N - 3 + 1 = N - 2
    BY <1>2
  <2>2. qs \in Seq(STRING) /\ Len(qs) = N - 3 + 1 /\ \A k \in 1..N - 3 + 1 : qs[k] = T[3 + k - 1]
    <3> HIDE DEF N
    <3> QED BY <2>1, Part
  <2>3. \A k \in 1..N - 2 : 3 + k - 1 = k + 2
    OBVIOUS
  <2> HIDE DEF qs, N
  <2> QED BY <2>1, <2>2, <2>3
<1> HIDE DEF qs, path
\* The pair of the search.
<1> DEFINE b == i - 1
           l == j - 2
<1>11. /\ b \in Nat /\ l \in Nat /\ 1 <= b /\ b + 1 <= l /\ l <= Len(qs)
       /\ qs[b] = "q" /\ qs[b + 1] = "="
       /\ \A x \in b + 2..l : qs[x] # "&"
       /\ l = Len(qs) \/ qs[l + 1] = "&"
  <2>1. b \in 1..N - 2 /\ b + 1 \in 1..N - 2 /\ b + 2 = i + 1 /\ (b + 1) + 2 = i + 2
    BY <1>2
  <2>2. qs[b] = "q" /\ qs[b + 1] = "="
    BY <1>3, <1>10, <2>1
  <2>3. \A x \in b + 2..l : x \in 1..N - 2 /\ x + 2 \in i + 3..j
    BY <1>2
  <2>4. l = N - 2 \/ (l + 1 \in 1..N - 2 /\ (l + 1) + 2 = j + 1 /\ T[j + 1] = "&")
    BY <1>1, <1>2
  <2> QED BY <1>2, <1>5, <1>6, <1>10, <2>2, <2>3, <2>4, SMTT(30)
<1>12. /\ Find(qs, "&", b) = l + 1
       /\ url_decode(KeyAt(qs, b)) = <<"q">> /\ ~DecodeThrows(KeyAt(qs, b))
       /\ ValueAt(qs, b) = SubSeq(qs, b + 2, l)
  <2> HIDE DEF b, l
  <2> QED BY <1>10, <1>11, QueryPair
<1>13. ValueAt(qs, b) = e
  <2> DEFINE v == SubSeq(qs, b + 2, l)
             c == b + 2
  <2>1. /\ v \in Seq(STRING) /\ Len(v) = l - c + 1
        /\ \A k \in 1..l - c + 1 : v[k] = qs[c + k - 1]
    <3>1. c \in Nat /\ l \in Nat /\ 1 <= c /\ c <= l + 1 /\ l <= Len(qs)
      BY <1>11
    <3> HIDE DEF l, c
    <3> QED BY <1>10, <3>1, Part DEF c
  <2>2. e \in Seq(STRING) /\ Len(e) = j - (i + 3) + 1 /\ \A k \in 1..j - (i + 3) + 1 : e[k] = T[(i + 3) + k - 1]
    <3>1. i + 3 \in Nat /\ j \in Nat /\ 1 <= i + 3 /\ i + 3 <= j + 1 /\ j <= Len(T)
      BY <1>2, <1>5
    <3> QED BY <3>1, Part
  <2> HIDE DEF v, e
  <2>3. Len(v) = Len(e)
    BY <1>2, <2>1, <2>2
  <2>4. ASSUME NEW k \in 1..Len(v) PROVE v[k] = e[k]
    <3>1. k \in 1..l - c + 1 /\ k \in 1..j - (i + 3) + 1 /\ c + k - 1 \in 1..N - 2 /\ (c + k - 1) + 2 = (i + 3) + k - 1
      BY <1>2, <2>1
    <3> HIDE DEF l, c, N
    <3> QED BY <1>10, <2>1, <2>2, <3>1
  <2>5. v = e
    BY <2>1, <2>2, <2>3, <2>4, SeqEqual
  <2> QED BY <1>12, <2>5 DEF v
<1> HIDE DEF e
<1>14. b \in PairsIn(qs)
  <2>1. b = 1 \/ qs[b - 1] = "&"
    <3>1. i = 2 \/ (b - 1 \in 1..N - 2 /\ (b - 1) + 2 = i /\ T[i] = "&")
      BY <1>1, <1>2
    <3> QED BY <1>10, <3>1
  <2> QED BY <1>10, <1>11, <2>1 DEF PairsIn
\* The others have no escape, and those behind it no "q".
<1>15. ASSUME NEW p \in PairsIn(qs), p # b
       PROVE  /\ \A x \in p..Find(qs, "&", p) - 1 : qs[x] # "%"
              /\ p > b => qs[p] # "q"
  <2>1. /\ p \in 1..Len(qs) /\ Find(qs, "&", p) \in p..Len(qs) + 1
        /\ \A x \in p..Find(qs, "&", p) - 1 : qs[x] # "&"
    BY <1>10, PairIs
  <2>2. p = 1 \/ (p - 1 \in 1..N - 2 /\ qs[p - 1] = "&")
    BY <1>10, <2>1 DEF PairsIn
  <2>3. CASE p < b
    <3>1. b # 1 /\ b - 1 \in 1..Len(qs) /\ qs[b - 1] = "&"
      BY <1>11, <1>14, <2>1, <2>3 DEF PairsIn
    <3>2. ~(b - 1 \in p..Find(qs, "&", p) - 1)
      BY <2>1, <3>1
    <3>3. Find(qs, "&", p) <= b - 1
      BY <1>11, <2>1, <2>3, <3>2
    <3>4. ASSUME NEW x \in p..Find(qs, "&", p) - 1 PROVE qs[x] # "%"
      <4>1. x \in 1..N - 2 /\ x + 2 \in 3..i
        BY <1>2, <1>10, <2>1, <3>3
      <4> QED BY <1>1, <1>10, <4>1
    <3> QED BY <1>11, <2>1, <2>3, <3>4
  <2>4. CASE p > b
    <3>1. \A x \in b..l : qs[x] # "&"
      <4>1. \A x \in b..l : x = b \/ x = b + 1 \/ x \in b + 2..l
        BY <1>11
      <4> HIDE DEF b, l
      <4> QED BY <1>11, <4>1
    <3>2. p - 1 \in 1..N - 2 /\ qs[p - 1] = "&" /\ p \in Nat
      BY <1>11, <2>1, <2>2, <2>4
    <3>3. ~(p - 1 \in b..l)
      BY <3>1, <3>2
    <3>4. p - 1 > l
      BY <1>11, <2>4, <3>2, <3>3
    <3>5. ASSUME NEW x \in p..Len(qs) PROVE qs[x] \notin {"%", "q"}
      <4>1. x \in 1..N - 2 /\ x + 2 \in j + 1..Len(T)
        BY <1>2, <1>10, <2>1, <3>4
      <4> QED BY <1>1, <1>10, <4>1
    <3> QED BY <2>1, <3>5
  <2> QED BY <1>11, <1>15, <2>1, <2>3, <2>4
<1> HIDE DEF b, l
<1>16. ~TargetThrows(T)
  <2>1. ASSUME NEW p \in PairsIn(qs) PROVE ~DecodeThrows(KeyAt(qs, p)) /\ ~DecodeThrows(ValueAt(qs, p))
    <3>1. CASE p = b
      BY <1>4, <1>12, <1>13, <3>1
    <3>2. CASE p # b
      BY <1>10, <1>15, <3>2, PlainPair
    <3> QED BY <3>1, <3>2
  <2> QED BY <1>8, <1>9, <2>1, Zenon DEF TargetThrows
<1> DEFINE named == {p \in PairsIn(qs) : url_decode(KeyAt(qs, p)) = <<"q">>}
<1>17. Max(named) = b
  <2>1. b \in named
    BY <1>12, <1>14
  <2>2. ASSUME NEW p \in named PROVE p \in Nat /\ b >= p
    <3>1. p \in PairsIn(qs) /\ url_decode(KeyAt(qs, p)) = <<"q">> /\ p \in Nat
      BY DEF PairsIn
    <3>2. p # b => qs[p] = "q"
      BY <1>10, <1>15, <3>1, PlainPair
    <3> QED BY <1>11, <1>15, <3>1, <3>2
  <2> HIDE DEF named
  <2>3. \A x \in named : (\A y \in named : x >= y) => x = b
    BY <1>11, <2>1, <2>2
  <2>4. \A y \in named : b >= y
    BY <2>2
  <2> QED BY <2>1, <2>3, <2>4, Zenon DEF Max
<1> DEFINE keys == {url_decode(KeyAt(qs, p)) : p \in PairsIn(qs)}
           Q    == [key \in keys |-> url_decode(ValueAt(qs, Max({p \in PairsIn(qs) : url_decode(KeyAt(qs, p)) = key})))]
<1>18. parse_target(T) = [path |-> url_decode(path), query |-> Q]
  BY <1>8, Zenon DEF parse_target
<1>19. <<"q">> \in keys
  BY <1>12, <1>14
<1> HIDE DEF keys
<1>20. Q[<<"q">>] = t
  BY <1>4, <1>13, <1>17, <1>19
<1>21. parse_target(T).path = <<"/search">> /\ parse_target(T).query = Q /\ DOMAIN Q = keys
  <2>1. DOMAIN Q = keys
    OBVIOUS
  <2> HIDE DEF Q
  <2> QED BY <1>9, <1>18, <2>1
<1> HIDE DEF Q
<1> QED
  BY <1>16, <1>19, <1>20, <1>21

\* The id of a document is read from the target.
LEMMA DocumentTarget ==
    ASSUME NEW T, NEW id \in Seq(Coded), AsksForDocument(T, id), T \in Seq(STRING)
    PROVE  /\ ~TargetThrows(T)
           /\ LET path == parse_target(T).path
              IN  Len(path) > 1 /\ path[1] = DocumentsPrefix /\ Tail(path) = id
<1> DEFINE n == Len(id)
           e == Tail(T)
<1>1. n \in Nat /\ n # 0 /\ e \in Encodings(id) /\ T[1] = DocumentsPrefix /\ T # << >>
  BY DEF AsksForDocument, DocumentsPrefix
<1>2. PICK f, cut : Writes(f, cut, e, id, n)
  <2> HIDE DEF e
  <2> QED BY <1>1, EncodingsArePieces
<1>3. Len(T) = Len(e) + 1 /\ \A k \in 1..Len(e) : T[k + 1] = e[k]
  <2>1. Len(T) # 0
    BY <1>1
  <2> QED BY <1>1, <2>1, HeadTailProperties
<1> HIDE DEF n, e
<1> DEFINE F   == [k \in 1..n + 1 |-> IF k = 1 THEN <<DocumentsPrefix>> ELSE f[k - 1]]
           C   == [k \in 0..n + 1 |-> IF k = 0 THEN 0 ELSE cut[k - 1] + 1]
           path == [k \in 1..n + 1 |-> IF k = 1 THEN DocumentsPrefix ELSE id[k - 1]]
<1>4. /\ f \in [1..n -> Seq(Written)] /\ e \in Seq(Written)
      /\ \A k \in 1..n : IsForm(f[k], id[k])
      /\ cut \in [0..n -> Nat] /\ cut[0] = 0 /\ cut[n] = Len(e)
      /\ \A k \in 1..n : /\ cut[k] = cut[k - 1] + Len(f[k]) /\ cut[k] <= Len(e)
                         /\ \A x \in 1..Len(f[k]) : e[cut[k - 1] + x] = f[k][x]
  BY <1>2 DEF Writes, Tiles
<1>5. Writes(F, C, T, path, n + 1)
  <2>1. F \in [1..n + 1 -> Seq(Written)]
    <3>1. <<DocumentsPrefix>> \in Seq(Written)
      <4>1. DocumentsPrefix \in Written
        BY DEF Written
      <4> QED BY <4>1
    <3>2. \A k \in 1..n + 1 : k = 1 \/ k - 1 \in 1..n
      BY <1>1
    <3> QED BY <1>4, <3>1, <3>2
  <2>2. T \in Seq(Written)
    <3>1. ASSUME NEW k \in 1..Len(T) PROVE T[k] \in Written
      <4>1. CASE k = 1
        BY <1>1, <4>1 DEF Written
      <4>2. CASE k # 1
        <5>1. k - 1 \in 1..Len(e) /\ (k - 1) + 1 = k
          BY <1>3, <1>4, <4>2
        <5>2. e[k - 1] \in Written
          BY <1>4, <5>1
        <5> QED BY <1>3, <5>1, <5>2
      <4> QED BY <4>1, <4>2
    <3>2. T = [k \in 1..Len(T) |-> T[k]] /\ Len(T) \in Nat
      OBVIOUS
    <3> QED BY <3>1, <3>2, SeqDef
  <2>3. path = [k \in 1..n + 1 |-> path[k]]
    OBVIOUS
  <2>4. ASSUME NEW k \in 1..n + 1 PROVE IsForm(F[k], path[k])
    <3>1. CASE k = 1
      <4>1. F[k] = <<DocumentsPrefix>> /\ path[k] = DocumentsPrefix
        BY <3>1
      <4>2. IsForm(<<DocumentsPrefix>>, DocumentsPrefix)
        <5>1. <<DocumentsPrefix>> \in Seq(Written)
          <6>1. DocumentsPrefix \in Written
            BY DEF Written
          <6> QED BY <6>1
        <5>2. DocumentsPrefix \notin {"%", "+", "&", "=", "?"}
          BY DEF DocumentsPrefix
        <5>3. \A x \in 1..1 : <<DocumentsPrefix>>[x] = DocumentsPrefix
          OBVIOUS
        <5> QED BY <5>1, <5>2, <5>3 DEF IsForm
      <4> QED BY <4>1, <4>2
    <3>2. CASE k # 1
      <4>1. F[k] = f[k - 1] /\ path[k] = id[k - 1] /\ k - 1 \in 1..n
        BY <1>1, <3>2
      <4> QED BY <1>4, <4>1
    <3> QED BY <3>1, <3>2
  <2>5. Tiles(C, F, T, n + 1)
    <3>1. C \in [0..n + 1 -> Nat] /\ C[0] = 0
      <4>1. ASSUME NEW k \in 0..n + 1 PROVE (IF k = 0 THEN 0 ELSE cut[k - 1] + 1) \in Nat
        <5>1. CASE k = 0
          BY <5>1
        <5>2. CASE k # 0
          <6>1. k - 1 \in 0..n
            BY <1>1, <5>2
          <6>2. cut[k - 1] \in Nat
            BY <1>4, <6>1
          <6> QED BY <5>2, <6>2
        <5> QED BY <5>1, <5>2
      <4>2. 0 \in 0..n + 1
        BY <1>1
      <4> QED BY <4>1, <4>2
    <3>2. C[n + 1] = Len(T)
      <4>1. n + 1 \in 0..n + 1 /\ n + 1 # 0 /\ (n + 1) - 1 = n
        BY <1>1
      <4>2. C[n + 1] = cut[n] + 1
        BY <4>1
      <4> QED BY <1>3, <1>4, <4>2
    <3>3. ASSUME NEW k \in 1..n + 1
          PROVE  /\ C[k] = C[k - 1] + Len(F[k]) /\ C[k] <= Len(T)
                 /\ \A x \in 1..Len(F[k]) : T[C[k - 1] + x] = F[k][x]
      <4>1. CASE k = 1
        <5>1. 1 - 1 = 0 /\ 0 \in 0..n + 1 /\ 1 \in 0..n + 1
          BY <1>1
        <5>2. C[1] = 1 /\ C[1 - 1] = 0 /\ F[1] = <<DocumentsPrefix>>
          BY <1>1, <1>4, <5>1
        <5>3. \A x \in 1..1 : x = 1
          OBVIOUS
        <5>4. Len(e) \in Nat
          BY <1>4
        <5> HIDE DEF C, F
        <5> QED BY <1>1, <1>3, <4>1, <5>2, <5>3, <5>4
      <4>2. CASE k # 1
        <5>1. k - 1 \in 1..n /\ (k - 1) - 1 \in 0..n /\ k - 1 \in 0..n + 1 /\ k \in 0..n + 1 /\ k - 1 # 0 /\ k # 0
          BY <1>1, <4>2
        <5> DEFINE q == k - 1
        <5>2. C[k] = cut[q] + 1 /\ C[q] = cut[q - 1] + 1 /\ F[k] = f[q]
          BY <4>2, <5>1
        <5> HIDE DEF C, F
        <5>3. /\ cut[q] = cut[q - 1] + Len(f[q]) /\ cut[q] <= Len(e) /\ cut[q] \in Nat /\ cut[q - 1] \in Nat
              /\ \A x \in 1..Len(f[q]) : e[cut[q - 1] + x] = f[q][x]
              /\ Len(f[q]) \in Nat /\ Len(e) \in Nat
          BY <1>4, <5>1, SMTT(30)
        <5> HIDE DEF q
        <5>4. \A x \in 1..Len(f[q]) : /\ cut[q - 1] + x \in 1..Len(e)
                                      /\ (cut[q - 1] + 1) + x = (cut[q - 1] + x) + 1
          BY <5>3
        <5>5. C[k] = C[q] + Len(F[k]) /\ C[k] <= Len(T) /\ \A x \in 1..Len(F[k]) : T[C[q] + x] = F[k][x]
          <6>1. C[k] = C[q] + Len(F[k])
            BY <5>2, <5>3, SMTT(30)
          <6>2. C[k] <= Len(T)
            BY <1>3, <5>2, <5>3
          <6>3. ASSUME NEW x \in 1..Len(F[k]) PROVE T[C[q] + x] = F[k][x]
            <7>1. x \in 1..Len(f[q]) /\ F[k][x] = f[q][x]
              BY <5>2
            <7>2. C[q] + x = (cut[q - 1] + x) + 1
              BY <5>2, <5>4, <7>1
            <7> QED BY <1>3, <5>3, <5>4, <7>1, <7>2
          <6> QED BY <6>1, <6>2, <6>3
        <5> QED BY <5>5 DEF q
      <4> QED BY <4>1, <4>2
    <3> HIDE DEF C, F
    <3> QED BY <3>1, <3>2, <3>3 DEF Tiles
  <2> HIDE DEF C, F, path
  <2> QED BY <2>1, <2>2, <2>3, <2>4, <2>5 DEF Writes
<1>6. n + 1 \in Nat
  BY <1>1
<1> HIDE DEF F, C
<1>7. Len(path) = n + 1 /\ path[1] = DocumentsPrefix
  BY <1>1
<1>8. Tail(path) = id
  <2>1. Tail(path) = [k \in 1..n |-> path[k + 1]]
    BY <1>1, <1>7
  <2>2. \A k \in 1..n : k + 1 \in 1..n + 1 /\ k + 1 # 1 /\ (k + 1) - 1 = k
    BY <1>1
  <2>3. [k \in 1..n |-> path[k + 1]] = [k \in 1..n |-> id[k]]
    BY <2>2
  <2>4. id = [k \in 1..n |-> id[k]]
    BY <1>2 DEF Writes
  <2> HIDE DEF path
  <2> QED BY <2>1, <2>3, <2>4
<1> HIDE DEF path
<1>9. /\ url_decode(T) = path /\ ~DecodeThrows(T)
      /\ \A p \in 1..Len(T) : T[p] \notin {"&", "=", "?"}
  BY <1>5, <1>6, PiecesAreDecoded
<1>10. (TargetThrows(T) <=> DecodeThrows(T)) /\ parse_target(T).path = url_decode(T)
  BY <1>9, BareTarget
<1> QED
  BY <1>1, <1>7, <1>8, <1>9, <1>10

\* A target that is one plain name.
LEMMA NameTarget ==
    ASSUME NEW S, NEW name \in S, name \notin {"%", "+", "?"}
    PROVE  ~TargetThrows(<<name>>) /\ parse_target(<<name>>).path = <<name>>
<1> DEFINE T == <<name>>
<1>1. T \in Seq(S) /\ Len(T) = 1 /\ T[1] = name /\ \A p \in 1..1 : p = 1
  OBVIOUS
<1> HIDE DEF T
<1>2. (\A p \in 1..Len(T) : T[p] # "?") /\ \A p \in 1..Len(T) : T[p] # "%"
  BY <1>1
<1>3. (TargetThrows(T) <=> DecodeThrows(T)) /\ parse_target(T).path = url_decode(T)
  BY <1>1, <1>2, BareTarget
<1>4. /\ ~DecodeThrows(T)
      /\ url_decode(T) = [k \in 1..Len(T) |-> IF T[k] = "+" THEN Space ELSE T[k]]
  BY <1>1, <1>2, PlainDecoding
<1>5. [k \in 1..Len(T) |-> IF T[k] = "+" THEN Space ELSE T[k]] = <<name>>
  BY <1>1
<1> QED
  BY <1>3, <1>4, <1>5 DEF T

-----------------------------------------------------------------------------
(* JSON strings.                                                           *)

\* What a field is written with.
Json(key) == Coded \cup {"n", "u0001", OpenBrace, CloseBrace, ":", key}

IsEscapeOf(w, c) ==
    \/ Len(w) = 1 /\ w[1] = c /\ c \notin {Quote, Backslash, "\n", Control}
    \/ /\ Len(w) = 2 /\ w[1] = Backslash /\ w[2] \in DOMAIN Meaning /\ Meaning[w[2]] = c
       /\ c # Control => c = IF w[2] = "n" THEN "\n" ELSE w[2]

LEMMA EscapeOfIs ==
    ASSUME NEW key, NEW c \in Coded
    PROVE  EscapeOf(c) \in Seq(Json(key)) /\ IsEscapeOf(EscapeOf(c), c)
<1>0. Backslash # Quote /\ Backslash # "\n" /\ Control # "\n" /\ Control # Quote /\ Control # Backslash
  BY DEF Backslash, Quote, Control
<1>1. CASE c \in {Quote, Backslash}
  <2>1. EscapeOf(c) = <<Backslash, c>>
    BY <1>1 DEF EscapeOf
  <2>2. c \in DOMAIN Meaning /\ Meaning[c] = c /\ c # "n"
    BY <1>1 DEF Meaning, Quote, Backslash
  <2>3. Backslash \in Json(key) /\ c \in Json(key)
    BY DEF Json, Coded, Backslash
  <2> QED BY <2>1, <2>2, <2>3 DEF IsEscapeOf
<1>2. CASE c = "\n"
  <2> DEFINE w == <<Backslash, "n">>
  <2>1. EscapeOf(c) = w
    BY <1>0, <1>2 DEF EscapeOf, Quote
  <2>2. "n" \in DOMAIN Meaning /\ Meaning["n"] = "\n"
    BY DEF Meaning
  <2>3. Backslash \in Json(key) /\ "n" \in Json(key)
    BY DEF Json, Coded, Backslash
  <2>4. w \in Seq(Json(key)) /\ Len(w) = 2 /\ w[1] = Backslash /\ w[2] = "n"
    BY <2>3
  <2> HIDE DEF w
  <2> QED BY <1>2, <2>1, <2>2, <2>4 DEF IsEscapeOf
<1>3. CASE c = Control
  <2>1. EscapeOf(c) = <<Backslash, "u0001">>
    BY <1>0, <1>3 DEF EscapeOf
  <2>2. "u0001" \in DOMAIN Meaning /\ Meaning["u0001"] = c
    BY <1>3 DEF Meaning
  <2>3. Backslash \in Json(key) /\ "u0001" \in Json(key)
    BY DEF Json, Coded, Backslash
  <2> QED BY <1>3, <2>1, <2>2, <2>3 DEF IsEscapeOf
<1>4. CASE c \notin {Quote, Backslash, "\n", Control}
  <2>1. EscapeOf(c) = <<c>>
    BY <1>4 DEF EscapeOf
  <2>2. c \in Json(key)
    BY DEF Json
  <2> QED BY <1>4, <2>1, <2>2 DEF IsEscapeOf
<1> QED
  BY <1>1, <1>2, <1>3, <1>4

\* Character k of t stands at cut[k - 1] + 1 of the n + 1 positions of the text.
Escapes(g, cut, E, t, key) ==
    /\ g \in [1..Len(t) -> Seq(Json(key))] /\ E \in Seq(Json(key))
    /\ \A k \in 1..Len(t) : IsEscapeOf(g[k], t[k])
    /\ Tiles(cut, g, E, Len(t))

LEMMA EscapeIs ==
    ASSUME NEW key, NEW t \in Seq(Coded)
    PROVE  \E g, cut : Escapes(g, cut, escape(t), t, key)
<1> DEFINE n == Len(t)
           g == [k \in 1..n |-> EscapeOf(t[k])]
<1>1. n \in Nat /\ \A k \in 1..n : t[k] \in Coded
  OBVIOUS
<1>2. escape(t) = FlattenSeq(g)
  BY DEF escape
<1>3. g \in [1..n -> Seq(Json(key))] /\ \A k \in 1..n : IsEscapeOf(g[k], t[k])
  BY <1>1, EscapeOfIs
<1> HIDE DEF n, g
<1>4. FlattenSeq(g) \in Seq(Json(key)) /\ \E cut : Tiles(cut, g, FlattenSeq(g), n)
  BY <1>1, <1>3, FlattenedIs
<1> QED
  BY <1>2, <1>3, <1>4 DEF Escapes, n

\* c is b behind a.
IsGlued(c, S, a, b) == /\ c \in Seq(S) /\ Len(c) = Len(a) + Len(b)
                       /\ \A x \in 1..Len(a) : c[x] = a[x]
                       /\ \A x \in 1..Len(b) : c[Len(a) + x] = b[x]

LEMMA Glued ==
    ASSUME NEW S, NEW a \in Seq(S), NEW b \in Seq(S)
    PROVE  IsGlued(a \o b, S, a, b)
<1> DEFINE la == Len(a)
           lb == Len(b)
<1>1. /\ a \o b \in Seq(S) /\ Len(a \o b) = Len(a) + Len(b)
      /\ \A x \in 1..Len(a) + Len(b) : (a \o b)[x] = IF x <= Len(a) THEN a[x] ELSE b[x - Len(a)]
  BY ConcatProperties
<1>2. la \in Nat /\ lb \in Nat
  OBVIOUS
<1>3. \A x \in 1..la : x \in 1..la + lb /\ x <= la
  BY <1>2
<1>4. \A x \in 1..lb : la + x \in 1..la + lb /\ ~(la + x <= la) /\ (la + x) - la = x
  BY <1>2
<1> QED
  BY <1>1, <1>2, <1>3, <1>4 DEF IsGlued

\* Where everything stands in an object of one field.
LEMMA FieldIs ==
    ASSUME NEW S, NEW key \in S, NEW t, escape(t) \in Seq(S),
           Quote \in S, OpenBrace \in S, ":" \in S, CloseBrace \in S
    PROVE  LET E == escape(t)
               B == Field(key, t)
           IN  /\ B \in Seq(S) /\ Len(B) = Len(E) + 8
               /\ B[1] = OpenBrace /\ B[2] = Quote /\ B[3] = key /\ B[4] = Quote /\ B[5] = ":" /\ B[6] = Quote
               /\ \A x \in 1..Len(E) : B[6 + x] = E[x]
               /\ B[Len(E) + 7] = Quote
<1> DEFINE E == escape(t)
           h == <<OpenBrace, Quote, key, Quote, ":">>
           q == <<Quote>>
           z == <<CloseBrace>>
<1>1. h \in Seq(S) /\ 5 = Len(h) /\ q \in Seq(S) /\ 1 = Len(q) /\ z \in Seq(S) /\ 1 = Len(z)
  <2>1. h \in Seq(S)
    OBVIOUS
  <2>2. q \in Seq(S) /\ z \in Seq(S)
    OBVIOUS
  <2> QED BY <2>1, <2>2
<1>2. /\ h[1] = OpenBrace /\ h[2] = Quote /\ h[3] = key /\ h[4] = Quote /\ h[5] = ":"
      /\ q[1] = Quote
  OBVIOUS
<1> HIDE DEF h, q, z, E
<1>3. Len(E) \in Nat /\ E \in Seq(S)
  BY DEF E
<1> DEFINE u == q \o E
           v == u \o q
           w == h \o v
           B == w \o z
<1>4. IsGlued(u, S, q, E)
  BY <1>1, <1>3, Glued
<1> HIDE DEF u
<1>5. u \in Seq(S) /\ Len(u) = 1 + Len(E) /\ IsGlued(v, S, u, q)
  <2>1. u \in Seq(S) /\ Len(u) = 1 + Len(E)
    BY <1>1, <1>4 DEF IsGlued
  <2> QED BY <1>1, <2>1, Glued
<1> HIDE DEF v
<1>6. v \in Seq(S) /\ Len(v) = (1 + Len(E)) + 1 /\ IsGlued(w, S, h, v)
  <2>1. v \in Seq(S) /\ Len(v) = (1 + Len(E)) + 1
    BY <1>1, <1>5 DEF IsGlued
  <2> QED BY <1>1, <2>1, Glued
<1> HIDE DEF w
<1>7. w \in Seq(S) /\ Len(w) = 5 + Len(v) /\ IsGlued(B, S, w, z)
  <2>1. w \in Seq(S) /\ Len(w) = 5 + Len(v)
    BY <1>1, <1>6 DEF IsGlued
  <2> QED BY <1>1, <2>1, Glued
<1> HIDE DEF B
<1> DEFINE lv == Len(E) + 2
           lw == Len(E) + 7
<1>8. Field(key, t) = B
  BY DEF Field, quote, B, w, v, u, h, q, z, E
<1>9. /\ Len(u) = 1 + Len(E) /\ Len(v) = lv /\ Len(w) = lw
      /\ B \in Seq(S) /\ Len(B) = Len(E) + 8
  <2>1. B \in Seq(S) /\ Len(B) = Len(w) + 1
    BY <1>1, <1>7 DEF IsGlued
  <2> QED BY <1>3, <1>5, <1>6, <1>7, <2>1
<1>10. \A x \in 1..5 : B[x] = h[x]
  <2>1. \A x \in 1..5 : x \in 1..lw
    BY <1>3
  <2> HIDE DEF lw
  <2> QED BY <1>1, <1>6, <1>7, <1>9, <2>1 DEF IsGlued
<1>11. \A x \in 1..lv : B[5 + x] = v[x]
  <2>1. \A x \in 1..lv : 5 + x \in 1..lw
    BY <1>3
  <2> HIDE DEF lw, lv
  <2> QED BY <1>1, <1>6, <1>7, <1>9, <2>1 DEF IsGlued
<1>12. B[6] = Quote
  <2>1. 1 \in 1..lv /\ 5 + 1 = 6 /\ 1 \in 1..1 + Len(E) /\ 1 \in 1..1
    BY <1>3
  <2> HIDE DEF lv
  <2> QED BY <1>1, <1>2, <1>4, <1>5, <1>9, <1>11, <2>1, SMTT(30) DEF IsGlued
<1>13. /\ \A x \in 1..Len(E) : B[6 + x] = E[x]
       /\ B[Len(E) + 7] = Quote
  <2>1. ASSUME NEW x \in 1..Len(E) PROVE B[6 + x] = E[x]
    <3>1. 1 + x \in 1..lv /\ 5 + (1 + x) = 6 + x /\ 1 + x \in 1..1 + Len(E)
      BY <1>3
    <3> HIDE DEF lv
    <3> QED BY <1>1, <1>4, <1>5, <1>9, <1>11, <3>1 DEF IsGlued
  <2>2. lv \in 1..lv /\ 5 + lv = Len(E) + 7 /\ lv = (1 + Len(E)) + 1 /\ 1 \in 1..1
    BY <1>3
  <2> HIDE DEF lv
  <2>3. B[5 + lv] = v[(1 + Len(E)) + 1]
    BY <1>11, <2>2
  <2>4. v[(1 + Len(E)) + 1] = q[1]
    BY <1>1, <1>5, <1>9, <2>2 DEF IsGlued
  <2> QED BY <1>2, <2>1, <2>2, <2>3, <2>4
<1>14. 1 \in 1..5 /\ 2 \in 1..5 /\ 3 \in 1..5 /\ 4 \in 1..5 /\ 5 \in 1..5
  OBVIOUS
<1> QED
  BY <1>2, <1>8, <1>9, <1>10, <1>11, <1>12, <1>13, <1>14 DEF E

\* The character at p of B, to a reader.
IsCharAt(B, p, c) ==
    /\ p \in 1..Len(B) /\ B[p] # Quote
    /\ \/ B[p] # Backslash /\ B[p] = c /\ c \notin {"\n", Control}
       \/ /\ B[p] = Backslash /\ p < Len(B) /\ B[p + 1] \in DOMAIN Meaning /\ Meaning[B[p + 1]] = c
          /\ c # Control => c = IF B[p + 1] = "n" THEN "\n" ELSE B[p + 1]

LEMMA FieldText ==
    ASSUME NEW key, NEW t \in Seq(Coded)
    PROVE  LET B  == Field(key, t)
               at == CharsFrom(B, 7)
               n  == Len(t)
           IN  /\ at = [k \in 1..n + 1 |-> at[k]] /\ at[n + 1] <= Len(B)
               /\ \A k \in 1..n : IsCharAt(B, at[k], t[k])
<1> DEFINE S == Json(key)
           B == Field(key, t)
           E == escape(t)
           n == Len(t)
<1>1. PICK g, cut : Escapes(g, cut, E, t, key)
  BY EscapeIs
<1>2. /\ g \in [1..n -> Seq(S)] /\ E \in Seq(S) /\ n \in Nat
      /\ \A k \in 1..n : IsEscapeOf(g[k], t[k])
      /\ cut \in [0..n -> Nat] /\ cut[0] = 0 /\ cut[n] = Len(E)
      /\ \A k \in 1..n : /\ cut[k] = cut[k - 1] + Len(g[k]) /\ cut[k] <= Len(E)
                         /\ \A i \in 1..Len(g[k]) : E[cut[k - 1] + i] = g[k][i]
  <2>1. g \in [1..n -> Seq(S)] /\ E \in Seq(S) /\ Tiles(cut, g, E, n)
    BY <1>1 DEF Escapes
  <2> HIDE DEF S, E
  <2>2. /\ cut \in [0..n -> Nat] /\ cut[0] = 0 /\ cut[n] = Len(E)
        /\ \A k \in 1..n : /\ cut[k] = cut[k - 1] + Len(g[k]) /\ cut[k] <= Len(E)
                           /\ \A i \in 1..Len(g[k]) : E[cut[k - 1] + i] = g[k][i]
    BY <2>1 DEF Tiles
  <2> QED BY <1>1, <2>1, <2>2 DEF Escapes
<1>3. /\ B \in Seq(S) /\ Len(B) = Len(E) + 8
      /\ \A x \in 1..Len(E) : B[6 + x] = E[x]
      /\ B[Len(E) + 7] = Quote
  <2>1. E \in Seq(S)
    BY <1>2
  <2>2. key \in S /\ Quote \in S /\ OpenBrace \in S /\ ":" \in S /\ CloseBrace \in S
    BY Zenon DEF Json, Coded, OpenBrace, CloseBrace
  <2> HIDE DEF S
  <2> QED BY <2>1, <2>2, FieldIs
<1> HIDE DEF S, B, E, n
<1> DEFINE begin(k) == 6 + cut[k - 1] + 1
<1>4. ASSUME NEW k \in 1..n
      PROVE  /\ begin(k) \in 7..Len(B) - 2 /\ cut[k - 1] \in Nat /\ cut[k] = cut[k - 1] + Len(g[k])
             /\ B[begin(k)] = g[k][1] /\ Len(g[k]) \in 1..2
             /\ Len(g[k]) = 2 => B[begin(k) + 1] = g[k][2]
  <2>1. k - 1 \in 0..n
    BY <1>2
  <2> DEFINE a == cut[k - 1]
             w == g[k]
  <2>2. /\ a \in Nat /\ Len(w) \in 1..2 /\ Len(E) \in Nat /\ cut[k] = a + Len(w) /\ a + Len(w) <= Len(E)
        /\ \A i \in 1..Len(w) : E[a + i] = w[i]
    <3>1. Len(w) \in 1..2
      BY <1>2 DEF IsEscapeOf
    <3> QED BY <1>2, <2>1, <3>1, SMTT(30)
  <2> HIDE DEF a, w
  <2>3. 6 + a + 1 \in 7..Len(B) - 2
    <3>1. Len(B) = Len(E) + 8
      BY <1>3
    <3>2. a \in Nat /\ Len(w) \in 1..2 /\ Len(E) \in Nat /\ a + Len(w) <= Len(E)
      BY <2>2
    <3>3. \A x, m \in Nat : \A l \in 1..2 : x + l <= m => 6 + x + 1 \in 7..(m + 8) - 2
      OBVIOUS
    <3> QED BY <3>1, <3>2, <3>3
  <2>4. \A i \in 1..Len(w) : B[6 + (a + i)] = w[i]
    <3>1. \A i \in 1..Len(w) : a + i \in 1..Len(E)
      BY <2>2
    <3> QED BY <1>3, <2>2, <3>1
  <2>5. 6 + (a + 1) = 6 + a + 1 /\ 6 + (a + 2) = 6 + a + 1 + 1
    BY <2>2
  <2>6. B[6 + a + 1] = w[1] /\ (Len(w) = 2 => B[6 + a + 1 + 1] = w[2])
    BY <2>2, <2>4, <2>5
  <2> QED BY <2>2, <2>3, <2>6 DEF a, w
<1>5. ASSUME NEW k \in 1..n
      PROVE  /\ IsCharAt(B, begin(k), t[k])
             /\ IsEscape(B, begin(k)) <=> Len(g[k]) = 2
  <2> DEFINE p == begin(k)
             w == g[k]
             c == t[k]
  <2>1. /\ p \in 7..Len(B) - 2 /\ B[p] = w[1] /\ (Len(w) = 2 => B[p + 1] = w[2])
        /\ IsEscapeOf(w, c) /\ Len(B) \in Nat
    BY <1>2, <1>3, <1>4, SMTT(30)
  <2> HIDE DEF p, w, c
  <2>2. p \in 1..Len(B) /\ p < Len(B)
    BY <2>1
  <2>3. Backslash # Quote
    BY DEF Backslash, Quote
  <2>4. ASSUME Len(w) = 1 /\ w[1] = c /\ c \notin {Quote, Backslash, "\n", Control}
        PROVE  IsCharAt(B, p, c) /\ ~IsEscape(B, p) /\ Len(w) # 2
    BY <2>1, <2>2, <2>4 DEF IsCharAt, IsEscape
  <2>5. ASSUME Len(w) = 2 /\ w[1] = Backslash /\ w[2] \in DOMAIN Meaning /\ Meaning[w[2]] = c,
               c # Control => c = IF w[2] = "n" THEN "\n" ELSE w[2]
        PROVE  IsCharAt(B, p, c) /\ IsEscape(B, p)
    BY <2>1, <2>2, <2>3, <2>5 DEF IsCharAt, IsEscape
  <2>6. IsCharAt(B, p, c) /\ (IsEscape(B, p) <=> Len(w) = 2)
    BY <2>1, <2>4, <2>5 DEF IsEscapeOf
  <2> QED BY <2>6 DEF p, w, c
<1> DEFINE next == [p \in {q \in 7..Len(B) : B[q] # Quote} |-> IF IsEscape(B, p) THEN p + 2 ELSE p + 1]
<1>6. CharsFrom(B, 7) = Visited(next, 7)
  BY DEF CharsFrom
<1>7. Goes(next, Len(B), 6, n, cut)
  <2>1. Forward(next, Len(B))
    <3>1. \A p \in DOMAIN next : p \in 7..Len(B) /\ (next[p] = p + 2 \/ next[p] = p + 1)
      OBVIOUS
    <3> HIDE DEF next
    <3>2. \A p \in DOMAIN next : p \in 1..Len(B) /\ next[p] \in Nat /\ next[p] > p
      BY <1>3, <3>1
    <3> QED BY <3>2 DEF Forward
  <2>2. ASSUME NEW k \in 1..n
        PROVE  6 + cut[k - 1] + 1 \in DOMAIN next /\ next[6 + cut[k - 1] + 1] = 6 + cut[k] + 1
    <3> DEFINE p == begin(k)
    <3>1. p \in 7..Len(B) /\ B[p] # Quote
      BY <1>3, <1>4, <1>5 DEF IsCharAt
    <3>2. next[p] = IF IsEscape(B, p) THEN p + 2 ELSE p + 1
      <4> HIDE DEF p
      <4> QED BY <3>1
    <3>3. next[p] = p + Len(g[k])
      <4>1. IsEscape(B, p) <=> Len(g[k]) = 2
        BY <1>5
      <4>2. Len(g[k]) \in 1..2
        BY <1>4
      <4>3. p \in Nat
        BY <3>1
      <4>4. \A l \in 1..2 : \A x \in Nat : x + l = IF l = 2 THEN x + 2 ELSE x + 1
        OBVIOUS
      <4> DEFINE nx == next[p]
                 es == IsEscape(B, p)
                 l  == Len(g[k])
      <4>5. nx = (IF es THEN p + 2 ELSE p + 1) /\ (es <=> l = 2) /\ l \in 1..2
        BY <3>2, <4>1, <4>2
      <4> HIDE DEF nx, es, l, p
      <4>6. nx = p + l
        BY <4>3, <4>4, <4>5
      <4> QED BY <4>6 DEF nx, l
    <3>4. p + Len(g[k]) = 6 + cut[k] + 1
      <4>1. cut[k - 1] \in Nat /\ cut[k] = cut[k - 1] + Len(g[k]) /\ Len(g[k]) \in 1..2
        BY <1>4
      <4> QED BY <4>1, SMTT(30)
    <3>5. p \in DOMAIN next
      <4> HIDE DEF p
      <4> QED BY <3>1
    <3> HIDE DEF next
    <3> QED BY <3>3, <3>4, <3>5
  <2>3. 6 + cut[n] + 1 \notin DOMAIN next
    <3>1. 6 + cut[n] + 1 = Len(E) + 7
      <4>1. Len(E) \in Nat
        BY <1>2
      <4> QED BY <1>2, <4>1
    <3> QED BY <1>3, <3>1
  <2> HIDE DEF next
  <2> QED BY <1>2, <2>1, <2>2, <2>3, Zenon DEF Goes
<1>8. Visited(next, 6 + 1) = Begins(6, n, cut)
  <2>1. Len(B) \in Nat /\ 6 \in Nat /\ n \in Nat
    BY <1>2, <1>3
  <2> HIDE DEF next
  <2> QED BY <1>7, <2>1, VisitsPieces
<1> HIDE DEF next
<1> DEFINE at == CharsFrom(B, 7)
<1>9. at = [k \in 1..n + 1 |-> begin(k)]
  <2>1. 6 + 1 = 7
    OBVIOUS
  <2>2. CharsFrom(B, 7) = Begins(6, n, cut)
    BY <1>6, <1>8, <2>1
  <2> QED BY <2>2, Zenon DEF Begins
<1> HIDE DEF at, begin
<1>10. at = [k \in 1..n + 1 |-> at[k]] /\ \A k \in 1..n + 1 : at[k] = begin(k)
  BY <1>9
<1>11. at[n + 1] <= Len(B)
  <2>1. n + 1 \in 1..n + 1 /\ (n + 1) - 1 = n /\ Len(E) \in Nat
    BY <1>2
  <2>2. begin(n + 1) = 6 + Len(E) + 1
    BY <1>2, <2>1 DEF begin
  <2> QED BY <1>3, <1>10, <2>1, <2>2
<1>12. \A k \in 1..n : IsCharAt(B, at[k], t[k])
  <2>1. \A k \in 1..n : k \in 1..n + 1
    BY <1>2
  <2> QED BY <1>5, <1>10, <2>1
<1> QED
  BY <1>10, <1>11, <1>12 DEF at, B, n

\* A client that reads the string finds the text.
LEMMA ReadBack ==
    ASSUME NEW key, NEW t \in Seq(Coded)
    PROVE  ReadString(Field(key, t), 7) = [found |-> TRUE, text |-> t]
<1> DEFINE B  == Field(key, t)
           at == CharsFrom(B, 7)
           n  == Len(t)
<1>1. /\ at = [k \in 1..n + 1 |-> at[k]] /\ at[n + 1] <= Len(B)
      /\ \A k \in 1..n : IsCharAt(B, at[k], t[k])
  BY FieldText
<1>2. n \in Nat /\ t = [k \in 1..n |-> t[k]]
  OBVIOUS
<1> HIDE DEF B, n
<1> HIDE DEF at
<1>3. Len(at) = n + 1 /\ Len(at) - 1 = n
  BY <1>1, <1>2
<1>4. Last(at) = at[n + 1]
  BY <1>3 DEF Last
<1> DEFINE chars == 1..Len(at) - 1
           ok    == Last(at) <= Len(B) /\ \A k \in chars : IsJson(B, at[k])
           text  == [k \in chars |-> IF IsEscape(B, at[k]) THEN Meaning[B[at[k] + 1]] ELSE B[at[k]]]
<1>5. ASSUME NEW k \in 1..n
      PROVE  /\ IsJson(B, at[k])
             /\ (IF IsEscape(B, at[k]) THEN Meaning[B[at[k] + 1]] ELSE B[at[k]]) = t[k]
  <2>1. IsCharAt(B, at[k], t[k])
    BY <1>1
  <2>2. CASE B[at[k]] # Backslash /\ B[at[k]] = t[k] /\ t[k] \notin {"\n", Control}
    BY <2>2 DEF IsJson, IsEscape
  <2>3. CASE /\ B[at[k]] = Backslash /\ at[k] < Len(B)
             /\ B[at[k] + 1] \in DOMAIN Meaning /\ Meaning[B[at[k] + 1]] = t[k]
    BY <2>3 DEF IsJson, IsEscape
  <2> QED BY <2>1, <2>2, <2>3 DEF IsCharAt
<1>6. ok
  BY <1>1, <1>3, <1>4, <1>5
<1>7. text = t
  BY <1>2, <1>3, <1>5
<1>8. ReadString(B, 7) = IF ok THEN [found |-> TRUE, text |-> text] ELSE Missing
  BY DEF ReadString, at
<1> HIDE DEF ok, text
<1> QED
  BY <1>6, <1>7, <1>8 DEF B

\* So does the code's own reader, but for control characters.
LEMMA PathRead ==
    ASSUME NEW t \in Seq(Coded), Control \notin ToSet(t)
    PROVE  extract_string_field(Field("path", t), "path") = [found |-> TRUE, text |-> t]
<1> DEFINE B  == Field("path", t)
           at == CharsFrom(B, 7)
           n  == Len(t)
           S  == Json("path")
           E  == escape(t)
<1>1. /\ at = [k \in 1..n + 1 |-> at[k]]
      /\ \A k \in 1..n : IsCharAt(B, at[k], t[k])
  BY FieldText
<1>2. n \in Nat /\ t = [k \in 1..n |-> t[k]] /\ \A k \in 1..n : t[k] # Control
  BY DEF ToSet
<1>3. /\ B \in Seq(S) /\ Len(B) = Len(E) + 8 /\ Len(E) \in Nat
      /\ B[1] = OpenBrace /\ B[2] = Quote /\ B[3] = "path" /\ B[4] = Quote /\ B[5] = ":" /\ B[6] = Quote
  <2>1. E \in Seq(S)
    BY EscapeIs DEF Escapes
  <2>2. "path" \in S /\ Quote \in S /\ OpenBrace \in S /\ ":" \in S /\ CloseBrace \in S
    BY Zenon DEF Json, Coded, OpenBrace, CloseBrace
  <2> HIDE DEF S
  <2> QED BY <2>1, <2>2, FieldIs
<1> HIDE DEF B, n, S, E
<1>4. StringAt(B, 7) = t
  <2> HIDE DEF at
  <2>1. Len(at) - 1 = n
    BY <1>1, <1>2
  <2>2. ASSUME NEW k \in 1..n PROVE Unescaped(B, at[k]) = t[k]
    <3>1. IsCharAt(B, at[k], t[k]) /\ t[k] # Control
      BY <1>1, <1>2
    <3>2. CASE B[at[k]] # Backslash /\ B[at[k]] = t[k]
      BY <3>2 DEF Unescaped, IsEscape
    <3>3. CASE /\ B[at[k]] = Backslash /\ at[k] < Len(B)
               /\ t[k] = IF B[at[k] + 1] = "n" THEN "\n" ELSE B[at[k] + 1]
      BY <3>3 DEF Unescaped, IsEscape
    <3> QED BY <3>1, <3>2, <3>3 DEF IsCharAt
  <2>3. StringAt(B, 7) = [k \in 1..n |-> Unescaped(B, at[k])]
    BY <2>1, Zenon DEF StringAt, at
  <2> QED BY <1>2, <2>2, <2>3
<1> HIDE DEF at
<1> DEFINE keys  == {p \in 1..Len(B) - 2 : SubSeq(B, p, p + 2) = <<Quote, "path", Quote>>}
           colon == Find(B, ":", Min(keys) + 3)
           start == Find(B, Quote, colon) + 1
<1>5. 2 \in keys /\ Min(keys) = 2
  <2>1. SubSeq(B, 2, 2 + 2) = <<Quote, "path", Quote>>
    <3> DEFINE u == SubSeq(B, 2, 4)
    <3>1. u \in Seq(S) /\ Len(u) = 4 - 2 + 1 /\ \A k \in 1..4 - 2 + 1 : u[k] = B[2 + k - 1]
      <4>1. 2 \in Nat /\ 4 \in Nat /\ 1 <= 2 /\ 2 <= 4 + 1 /\ 4 <= Len(B)
        BY <1>3
      <4> QED BY <1>3, <4>1, Part
    <3> HIDE DEF u
    <3>2. Len(u) = 3 /\ u[1] = Quote /\ u[2] = "path" /\ u[3] = Quote
      <4>1. 1 \in 1..4 - 2 + 1 /\ 2 \in 1..4 - 2 + 1 /\ 3 \in 1..4 - 2 + 1
        OBVIOUS
      <4>2. 2 + 1 - 1 = 2 /\ 2 + 2 - 1 = 3 /\ 2 + 3 - 1 = 4
        OBVIOUS
      <4> QED BY <1>3, <3>1, <4>1, <4>2
    <3>3. u = <<Quote, "path", Quote>>
      BY <3>1, <3>2
    <3>4. 2 + 2 = 4
      OBVIOUS
    <3> QED BY <3>3, <3>4 DEF u
  <2>2. SubSeq(B, 1, 1 + 2) # <<Quote, "path", Quote>>
    <3> DEFINE u == SubSeq(B, 1, 3)
    <3>1. \A k \in 1..3 - 1 + 1 : u[k] = B[1 + k - 1]
      <4>1. 1 \in Nat /\ 3 \in Nat /\ 1 <= 1 /\ 1 <= 3 + 1 /\ 3 <= Len(B)
        BY <1>3
      <4> QED BY <1>3, <4>1, Part
    <3>2. 1 \in 1..3 - 1 + 1 /\ 1 + 1 - 1 = 1 /\ 1 + 2 = 3
      OBVIOUS
    <3>3. OpenBrace # Quote
      BY Zenon DEF OpenBrace, Quote
    <3> HIDE DEF u
    <3>4. u[1] # Quote
      BY <1>3, <3>1, <3>2, <3>3
    <3>5. <<Quote, "path", Quote>>[1] = Quote
      OBVIOUS
    <3>6. u # <<Quote, "path", Quote>>
      BY <3>4, <3>5
    <3> QED BY <3>2, <3>6 DEF u
  <2>3. 2 \in keys /\ 1 \notin keys /\ keys \subseteq Nat \ {0}
    BY <1>3, <2>1, <2>2
  <2> HIDE DEF keys
  <2>4. \A y \in keys : 2 <= y
    BY <2>3
  <2>5. \A x \in keys : (\A y \in keys : x <= y) => x = 2
    BY <2>3, <2>4
  <2>6. Min(keys) = 2
    BY <2>3, <2>4, <2>5, Zenon DEF Min
  <2> QED BY <2>3, <2>6
<1> HIDE DEF keys
<1>6. colon = 5
  <2>1. 2 + 3 = 5 /\ 5 \in Nat /\ Len(B) \in Nat
    BY <1>3
  <2>2. 5 \in 5..Len(B) + 1 /\ \A q \in 5..5 - 1 : B[q] # ":"
    BY <1>3
  <2>3. Finds(B, ":", 5, 5)
    BY <1>3, <2>2 DEF Finds
  <2> QED BY <1>5, <2>1, <2>3, FindIs
<1> HIDE DEF colon
<1>7. start = 7
  <2>1. 6 + 1 = 7 /\ 5 \in Nat /\ Len(B) \in Nat
    BY <1>3
  <2>2. ":" # Quote
    BY Zenon DEF Quote
  <2>3. 6 \in 5..Len(B) + 1 /\ \A q \in 5..6 - 1 : q = 5
    BY <1>3
  <2>4. \A q \in 5..6 - 1 : B[q] # Quote
    BY <1>3, <2>2, <2>3
  <2>5. Finds(B, Quote, 5, 6)
    BY <1>3, <2>3, <2>4 DEF Finds
  <2> QED BY <1>6, <2>1, <2>5, FindIs
<1> HIDE DEF start
<1>8. keys # {} /\ ~(colon > Len(B)) /\ ~(start > Len(B) + 1)
  BY <1>3, <1>5, <1>6, <1>7
<1>9. extract_string_field(B, "path") =
         IF keys = {} \/ colon > Len(B) \/ start > Len(B) + 1 THEN Missing
         ELSE [found |-> TRUE, text |-> StringAt(B, start)]
  BY Zenon DEF extract_string_field, keys, colon, start
<1>10. extract_string_field(B, "path") = [found |-> TRUE, text |-> t]
  BY <1>4, <1>7, <1>8, <1>9, Zenon
<1> QED
  BY <1>10 DEF B

-----------------------------------------------------------------------------
(* What is on the wire.                                                    *)

Items == STRING \cup {"line", Break}

\* The length of the head, without the empty line.
HeadLength(r) == 2 * Lines(r)

LEMMA WireIs ==
    ASSUME NEW r \in Requests
    PROVE  LET h == HeadLength(r)
               w == WireOf[r]
           IN  /\ h \in Nat /\ h >= 2 /\ w \in Seq(Items) /\ Len(w) = h + 1 + Len(r.body) /\ Len(r.body) \in Nat
               /\ w[h] = Break /\ w[h + 1] = Break
               /\ \A p \in 1..h - 1 : ~(w[p] = Break /\ w[p + 1] = Break)
               /\ SubSeq(w, h + 2, Len(w)) = r.body
<1> DEFINE h == HeadLength(r)
           l == Lines(r)
           w == WireOf[r]
           a == HeadOf(r)
           b == <<Break>>
           c == r.body
<1>1. IsRequest(r)
  BY ConnectionAssumption
<1>2. l \in Nat /\ l >= 1 /\ h = 2 * l
  <2>1. Len(r.lengths) \in Nat /\ r.others \in Nat
    BY <1>1 DEF IsRequest
  <2> QED BY <2>1 DEF Lines, HeadLength
<1>3. h \in Nat /\ h >= 2
  BY <1>2
<1>4. c \in Seq(Items)
  BY <1>1 DEF IsRequest, Items
<1>5. a \in Seq(Items) /\ Len(a) = h /\ \A k \in 1..h : a[k] = IF k % 2 = 1 THEN "line" ELSE Break
  <2> DEFINE H == [k \in 1..h |-> IF k % 2 = 1 THEN "line" ELSE Break]
  <2>1. a = H
    BY DEF HeadOf, HeadLength
  <2>2. "line" \in Items /\ Break \in Items
    BY DEF Items
  <2> HIDE DEF h, a
  <2>3. H \in [1..h -> Items]
    BY <2>2
  <2>4. H \in Seq(Items) /\ Len(H) = h
    BY <1>3, <2>3, SeqDef
  <2> QED BY <2>1, <2>4
<1>6. b \in Seq(Items) /\ Len(b) = 1 /\ b[1] = Break
  <2>1. Break \in Items
    BY DEF Items
  <2> QED BY <2>1
<1>7. w = (a \o b) \o c
  BY DEF WireOf
<1> HIDE DEF a, b, c, w, h, l
<1> DEFINE d == a \o b
           x == d \o c
<1>8. IsGlued(d, Items, a, b)
  BY <1>5, <1>6, Glued
<1> HIDE DEF d
<1>9. d \in Seq(Items) /\ Len(d) = h + 1 /\ (\A k \in 1..h : d[k] = a[k]) /\ d[h + 1] = Break
  <2>1. 1 \in 1..Len(b)
    BY <1>6
  <2> QED BY <1>5, <1>6, <1>8, <2>1 DEF IsGlued
<1>10. IsGlued(x, Items, d, c)
  BY <1>4, <1>9, Glued
<1> HIDE DEF x
<1>11. /\ x \in Seq(Items) /\ Len(x) = h + 1 + Len(c) /\ Len(c) \in Nat
       /\ \A k \in 1..h + 1 : x[k] = d[k]
       /\ \A k \in 1..Len(c) : x[h + 1 + k] = c[k]
  <2>1. Len(c) \in Nat
    BY <1>4
  <2> QED BY <1>9, <1>10, <2>1 DEF IsGlued
<1>12. w = x
  BY <1>7 DEF x, d
<1>13. x[h] = Break /\ x[h + 1] = Break
  <2>1. h \in 1..h /\ h \in 1..h + 1 /\ h + 1 \in 1..h + 1 /\ h % 2 # 1
    BY <1>2
  <2> QED BY <1>5, <1>9, <1>11, <2>1
<1>14. \A p \in 1..h - 1 : ~(x[p] = Break /\ x[p + 1] = Break)
  <2> TAKE p \in 1..h - 1
  <2>1. p \in 1..h /\ p + 1 \in 1..h /\ p \in 1..h + 1 /\ p + 1 \in 1..h + 1
    BY <1>3
  <2>2. p % 2 = 1 \/ (p + 1) % 2 = 1
    OBVIOUS
  <2>3. "line" # Break
    BY DEF Break
  <2> QED BY <1>5, <1>9, <1>11, <2>1, <2>2, <2>3
<1>15. SubSeq(x, h + 2, Len(x)) = c
  <2> DEFINE m == Len(x)
             s == h + 2
             y == SubSeq(x, s, m)
  <2>1. s \in Nat /\ m \in Nat /\ 1 <= s /\ s <= m + 1 /\ m <= Len(x) /\ m - s + 1 = Len(c)
    BY <1>3, <1>11
  <2>2. \A k \in 1..Len(c) : s + k - 1 = h + 1 + k
    BY <1>3
  <2> HIDE DEF m, s
  <2>3. y \in Seq(Items) /\ Len(y) = m - s + 1 /\ \A k \in 1..m - s + 1 : y[k] = x[s + k - 1]
    BY <1>11, <2>1, Part
  <2> HIDE DEF y
  <2>4. Len(y) = Len(c) /\ \A k \in 1..Len(y) : y[k] = c[k]
    <3>1. \A k \in 1..Len(c) : k \in 1..m - s + 1
      BY <2>1
    <3>2. \A k \in 1..Len(c) : x[h + 1 + k] = c[k]
      BY <1>11
    <3>3. \A k \in 1..Len(c) : y[k] = c[k]
      BY <2>2, <2>3, <3>1, <3>2, Zenon
    <3>4. Len(y) = Len(c)
      BY <2>1, <2>3, Zenon
    <3> QED BY <3>3, <3>4, Zenon
  <2>5. y = c
    BY <1>4, <2>3, <2>4, SeqEqual
  <2> QED BY <2>5 DEF y, m, s
<1> QED
  BY <1>3, <1>11, <1>12, <1>13, <1>14, <1>15 DEF c, w, h

\* The end of the head is seen as soon as it has arrived, and it is the first empty line.
LEMMA HeadEnd ==
    ASSUME NEW r \in Requests, NEW n \in 0..Len(WireOf[r])
    PROVE  LET ends == EmptyLine(SubSeq(WireOf[r], 1, n))
           IN  /\ n <= HeadLength(r) => ends = {}
               /\ n > HeadLength(r) => ends # {} /\ Min(ends) = HeadLength(r)
<1> DEFINE h == HeadLength(r)
           w == WireOf[r]
           b == SubSeq(w, 1, n)
           ends == EmptyLine(b)
<1>1. /\ h \in Nat /\ h >= 2 /\ w \in Seq(Items) /\ Len(w) \in Nat
      /\ w[h] = Break /\ w[h + 1] = Break
      /\ \A p \in 1..h - 1 : ~(w[p] = Break /\ w[p + 1] = Break)
  BY WireIs
<1> HIDE DEF h, w
<1>2. n \in Nat /\ n <= Len(w)
  BY <1>1 DEF w
<1>3. Len(b) = n /\ \A k \in 1..n : b[k] = w[k]
  <2>1. 1 \in Nat /\ 1 <= 1 /\ 1 <= n + 1 /\ n - 1 + 1 = n
    BY <1>2
  <2>2. Len(b) = n - 1 + 1 /\ \A k \in 1..n - 1 + 1 : b[k] = w[1 + k - 1]
    BY <1>1, <1>2, <2>1, Part
  <2>3. \A k \in 1..n : 1 + k - 1 = k
    OBVIOUS
  <2> HIDE DEF b
  <2> QED BY <2>1, <2>2, <2>3
<1> HIDE DEF b
<1>4. ends = {p \in 1..n - 1 : w[p] = Break /\ w[p + 1] = Break}
  <2>1. \A p \in 1..n - 1 : p \in 1..n /\ p + 1 \in 1..n
    BY <1>2
  <2> QED BY <1>3, <2>1 DEF EmptyLine
<1> HIDE DEF ends
<1>5. n <= h => ends = {}
  BY <1>1, <1>2, <1>4
<1>6. ASSUME n > h PROVE ends # {} /\ Min(ends) = h
  <2>1. h \in ends /\ ends \subseteq Nat
    BY <1>1, <1>2, <1>4, <1>6
  <2>2. \A y \in ends : h <= y
    BY <1>1, <1>2, <1>4
  <2>3. \A x \in ends : (\A y \in ends : x <= y) => x = h
    BY <1>1, <2>1, <2>2
  <2> QED BY <2>1, <2>2, <2>3, Zenon DEF Min
<1> QED
  BY <1>5, <1>6 DEF ends, h, b, w

-----------------------------------------------------------------------------
(* The connection.                                                         *)

ContentLength(r) == IF r.lengths = << >> THEN 0 ELSE Last(r.lengths)

\* The head loop stops as soon as the head has an end, and the body is what came after it.
Reassembled ==
    /\ request \in Requests /\ received \in 0..Len(Wire) /\ closed \in BOOLEAN
    /\ phase = "head" => received <= HeadLength(request)
    /\ phase \in {"parse", "body", "send"} => received > HeadLength(request)
    /\ phase \in {"body", "send"} => /\ body = SubSeq(Wire, HeadLength(request) + 2, received)
                                     /\ expected = ContentLength(request)

\* What is answered to a search or a document is about the text of the call.
AnswersQuote ==
    (phase = "send" /\ answer.status = 200 /\ called.op \in {"search", "get"}) =>
        \E key \in {"query", "id"} : answer.text = Field(key, called.text)

ConnectionInvariant == Reassembled /\ EngineGetsWhatClientMeant /\ AnswersQuote

LEMMA WireLength == ASSUME request \in Requests
                    PROVE  /\ Wire = WireOf[request] /\ Wire \in Seq(Items) /\ Len(Wire) \in Nat
                           /\ HeadLength(request) \in Nat
                           /\ Len(Wire) = HeadLength(request) + 1 + Len(request.body)
                           /\ Len(request.body) \in Nat
BY WireIs DEF Wire

\* Pieces add up.
LEMMA PieceAdds ==
    ASSUME request \in Requests, received \in 0..Len(Wire), NEW n \in Nat, received + n <= Len(Wire),
           NEW a \in 1..received + 1
    PROVE  SubSeq(Wire, a, received) \o Arriving(n) = SubSeq(Wire, a, received + n)
<1>1. Wire \in Seq(Items) /\ Len(Wire) \in Nat
  BY WireLength
<1> DEFINE w == Wire
           k == received
           m == received + n
<1>2. w \in Seq(Items) /\ a \in 1..Len(w) + 1 /\ k \in a - 1..Len(w) /\ m \in k..Len(w)
  BY <1>1
<1> HIDE DEF w, k, m
<1>3. SubSeq(w, a, k) \o SubSeq(w, k + 1, m) = SubSeq(w, a, m)
  BY <1>2, ConcatAdjacentSubSeq
<1> QED
  BY <1>3 DEF w, k, m, Arriving

LEMMA ReassembledStep ==
    ASSUME Reassembled, [Next]_vars
    PROVE  Reassembled'
<1> DEFINE h == HeadLength(request)
<1>1. /\ request \in Requests /\ received \in 0..Len(Wire) /\ closed \in BOOLEAN
      /\ Len(Wire) \in Nat /\ h \in Nat
  BY WireLength DEF Reassembled
<1>2. request' = request => /\ Wire' = Wire /\ HeadLength(request)' = h
                            /\ ContentLength(request)' = ContentLength(request)
  BY DEF Wire, HeadLength, Lines, ContentLength
<1>3. CASE ReceiveHead
  <2>1. PICK n \in 1..Piece : Arrive(n) /\ phase' = AfterHead(Buffer \o Arriving(n), received + n)
    BY <1>3 DEF ReceiveHead
  <2>2. /\ n \in Nat /\ received' = received + n /\ received + n <= Len(Wire) /\ received + n \in 0..Len(Wire)
        /\ request' = request /\ closed' = closed /\ phase = "head"
    BY <1>1, <1>3, <2>1, ConnectionAssumption DEF ReceiveHead, Arrive
  <2>3. Buffer \o Arriving(n) = SubSeq(Wire, 1, received + n)
    <3>1. 1 \in 1..received + 1
      BY <1>1
    <3> QED BY <1>1, <2>2, <3>1, PieceAdds DEF Buffer
  <2> DEFINE ends == EmptyLine(SubSeq(Wire, 1, received + n))
  <2>4. (received + n <= h => ends = {}) /\ (received + n > h => ends # {})
    <3>1. Wire = WireOf[request]
      BY DEF Wire
    <3> DEFINE m == received + n
    <3>2. m \in 0..Len(WireOf[request])
      BY <2>2, <3>1
    <3> HIDE DEF m
    <3>3. /\ m <= h => EmptyLine(SubSeq(WireOf[request], 1, m)) = {}
          /\ m > h => EmptyLine(SubSeq(WireOf[request], 1, m)) # {}
      BY <1>1, <3>2, HeadEnd
    <3> QED BY <3>1, <3>3 DEF m
  <2>5. phase' \in {"parse", "done", "head"} /\ (phase' = "parse" <=> ends # {})
    <3>1. phase' = AfterHead(SubSeq(Wire, 1, received + n), received + n)
      BY <2>1, <2>3
    <3>2. \/ phase' = "parse" /\ ends # {}
          \/ phase' = "done" /\ ends = {}
          \/ phase' = "head" /\ ends = {}
      <4> HIDE DEF ends
      <4>1. CASE ends # {}
        BY <3>1, <4>1, Zenon DEF AfterHead, ends
      <4>2. CASE ends = {} /\ received + n > HeaderGuard
        BY <3>1, <4>2, Zenon DEF AfterHead, ends
      <4>3. CASE ends = {} /\ ~(received + n > HeaderGuard)
        BY <3>1, <4>3, Zenon DEF AfterHead, ends
      <4> QED BY <4>1, <4>2, <4>3
    <3> HIDE DEF ends
    <3> QED BY <3>2
  <2> HIDE DEF ends
  <2>6. /\ phase' = "head" => received' <= h
        /\ phase' = "parse" => received' > h
    BY <1>1, <2>2, <2>4, <2>5
  <2> QED BY <1>1, <1>2, <2>2, <2>5, <2>6 DEF Reassembled
<1>4. CASE ParseHead
  <2>1. /\ phase = "parse" /\ phase' = "body" /\ request' = request /\ received' = received /\ closed' = closed
        /\ expected' = ContentLength(request)
        /\ body' = SubSeq(Buffer, Min(EmptyLine(Buffer)) + 2, received)
    BY <1>4 DEF ParseHead, ContentLength
  <2>2. received > h
    BY <2>1 DEF Reassembled
  <2>3. Min(EmptyLine(Buffer)) = h
    <3>1. received \in 0..Len(WireOf[request]) /\ Buffer = SubSeq(WireOf[request], 1, received)
      BY <1>1 DEF Wire, Buffer
    <3> QED BY <1>1, <2>2, <3>1, HeadEnd
  <2>4. SubSeq(Buffer, h + 2, received) = SubSeq(Wire, h + 2, received)
    <3>1. Buffer \in Seq(Items) /\ Len(Buffer) = received /\ \A k \in 1..received : Buffer[k] = Wire[k]
      <4> DEFINE w == Wire
                 n == received
      <4>1. w \in Seq(Items) /\ 1 \in Nat /\ n \in Nat /\ 1 <= 1 /\ 1 <= n + 1 /\ n <= Len(w) /\ n - 1 + 1 = n
        BY <1>1, WireLength
      <4> HIDE DEF w, n
      <4>2. /\ SubSeq(w, 1, n) \in Seq(Items) /\ Len(SubSeq(w, 1, n)) = n - 1 + 1
            /\ \A k \in 1..n - 1 + 1 : SubSeq(w, 1, n)[k] = w[1 + k - 1]
        BY <4>1, Part
      <4>3. \A k \in 1..n : 1 + k - 1 = k
        OBVIOUS
      <4>4. SubSeq(w, 1, n) \in Seq(Items) /\ Len(SubSeq(w, 1, n)) = n /\ \A k \in 1..n : SubSeq(w, 1, n)[k] = w[k]
        BY <4>1, <4>2, <4>3
      <4> QED BY <4>4 DEF w, n, Buffer
    <3> DEFINE s == h + 2
               u == SubSeq(Buffer, s, received)
               v == SubSeq(Wire, s, received)
    <3>2. s \in Nat /\ received \in Nat /\ 1 <= s /\ s <= received + 1 /\ received <= Len(Wire) /\ received <= Len(Buffer)
      BY <1>1, <2>2, <3>1
    <3>3. u \in Seq(Items) /\ Len(u) = received - s + 1 /\ \A k \in 1..received - s + 1 : u[k] = Buffer[s + k - 1]
      <4> HIDE DEF s
      <4> QED BY <3>1, <3>2, Part
    <3>4. v \in Seq(Items) /\ Len(v) = received - s + 1 /\ \A k \in 1..received - s + 1 : v[k] = Wire[s + k - 1]
      <4>1. Wire \in Seq(Items)
        BY <1>1, WireLength
      <4> HIDE DEF s
      <4> QED BY <3>2, <4>1, Part
    <3> HIDE DEF u, v, s
    <3>5. \A k \in 1..received - s + 1 : s + k - 1 \in 1..received
      BY <3>2
    <3>6. \A k \in 1..received - s + 1 : u[k] = v[k]
      BY <3>1, <3>3, <3>4, <3>5
    <3>7. u = v
      BY <3>3, <3>4, <3>6, SeqEqual
    <3> QED BY <3>7 DEF u, v, s
  <2>5. body' = SubSeq(Wire, h + 2, received)
    BY <2>1, <2>3, <2>4
  <2> QED BY <1>1, <1>2, <2>1, <2>2, <2>5 DEF Reassembled
<1>5. CASE ReceiveBody
  <2>1. PICK n \in 1..Piece : Arrive(n) /\ body' = body \o Arriving(n)
    BY <1>5 DEF ReceiveBody
  <2>2. /\ n \in Nat /\ received' = received + n /\ received + n <= Len(Wire) /\ received + n \in 0..Len(Wire)
        /\ request' = request /\ closed' = closed /\ phase = "body" /\ phase' = "body" /\ expected' = expected
    BY <1>1, <1>5, <2>1, ConnectionAssumption DEF ReceiveBody, Arrive
  <2>3. received > h /\ body = SubSeq(Wire, h + 2, received) /\ expected = ContentLength(request)
    BY <2>2 DEF Reassembled
  <2>4. body' = SubSeq(Wire, h + 2, received + n)
    <3>1. h + 2 \in 1..received + 1
      BY <1>1, <2>3
    <3> HIDE DEF h
    <3>2. SubSeq(Wire, h + 2, received) \o Arriving(n) = SubSeq(Wire, h + 2, received + n)
      BY <1>1, <2>2, <3>1, PieceAdds
    <3> QED BY <2>1, <2>3, <3>2
  <2>5. received + n > h
    BY <1>1, <2>2, <2>3
  <2> QED BY <1>1, <1>2, <2>2, <2>3, <2>4, <2>5 DEF Reassembled
<1>6. CASE Dispatch
  <2>1. /\ phase = "body" /\ phase' = "send"
        /\ UNCHANGED <<request, received, closed, expected, body>>
    BY <1>6 DEF Dispatch, BodyRead
  <2> QED BY <1>1, <1>2, <2>1 DEF Reassembled
<1>7. CASE Close
  <2>1. closed' = TRUE /\ UNCHANGED <<request, received, phase, expected, body>>
    BY <1>7 DEF Close
  <2> QED BY <1>1, <1>2, <2>1 DEF Reassembled
<1>8. CASE HeadEnds \/ ParseThrows \/ TargetAborts \/ Send \/ SendKills
  <2>1. phase' \in {"done", "aborted"} /\ UNCHANGED <<request, received, closed>>
    BY <1>8 DEF HeadEnds, ParseThrows, TargetAborts, Send, SendKills, Aborts
  <2> QED BY <1>1, <1>2, <2>1 DEF Reassembled
<1>9. CASE UNCHANGED vars
  BY <1>1, <1>2, <1>9 DEF Reassembled, vars
<1> QED
  BY <1>3, <1>4, <1>5, <1>6, <1>7, <1>8, <1>9 DEF Next, Serve

\* A request in order that is dispatched is there in full.
LEMMA BodyIsWhole ==
    ASSUME Reassembled, InOrder, BodyRead, Whole \/ ~closed
    PROVE  body = request.body
<1> DEFINE h == HeadLength(request)
           L == Len(Wire)
<1>1. /\ request \in Requests /\ received \in 0..L /\ received > h
      /\ body = SubSeq(Wire, h + 2, received) /\ expected = ContentLength(request)
  BY DEF Reassembled, BodyRead
<1>2. /\ Wire \in Seq(Items) /\ L \in Nat /\ h \in Nat
      /\ L = h + 1 + Len(request.body) /\ Len(request.body) \in Nat
  BY <1>1, WireLength
<1>3. SubSeq(Wire, h + 2, L) = request.body
  BY <1>1, WireIs DEF Wire
<1>4. Whole
  <2> SUFFICES ASSUME ~closed PROVE Whole
    OBVIOUS
  <2>1. Len(body) >= Len(request.body)
    BY <1>1 DEF BodyRead, InOrder, ContentLength
  <2>2. Len(body) = received - (h + 2) + 1
    <3> DEFINE s == h + 2
    <3>1. s \in Nat /\ received \in Nat /\ 1 <= s /\ s <= received + 1 /\ received <= Len(Wire)
      BY <1>1, <1>2
    <3> HIDE DEF s
    <3>2. Len(SubSeq(Wire, s, received)) = received - s + 1
      BY <1>2, <3>1, Part
    <3> QED BY <1>1, <3>2 DEF s
  <2>3. received = L
    BY <1>1, <1>2, <2>1, <2>2
  <2> QED BY <2>3 DEF Whole
<1> QED
  BY <1>1, <1>3, <1>4 DEF Whole

\* A request in order leads to the call it asks for.
LEMMA CallIsMeant ==
    ASSUME Reassembled, InOrder, Dispatch, Whole \/ ~closed
    PROVE  called' = request.asked
<1> DEFINE r == request
           text == request.asked.text
           op   == request.asked.op
           route == <<r.method, Target.path>>
<1>1. /\ IsRequest(r) /\ r \in Requests /\ r \notin BadTarget /\ op # "none"
      /\ Means(r, r.asked) /\ r.asked = Call(op, text) /\ text \in Seq(Coded)
      /\ r.target \in Seq(STRING)
  BY ConnectionAssumption DEF Reassembled, Dispatch, InOrder, IsRequest
<1>2. ~TargetThrows(r.target) /\ Target = parse_target(r.target)
  BY <1>1 DEF BadTarget, Target, TargetOf
<1>3. body = r.body
  BY BodyIsWhole DEF Dispatch
<1>4. SearchHandler \/ IndexHandler \/ ReadHandler \/ DocumentHandler \/ NotFound
  BY DEF Dispatch
<1> DEFINE path == Target.path
<1>5. CASE op = "search" /\ r.method = "GET" /\ AsksForSearch(r.target, text)
  <2>1. path = <<"/search">> /\ <<"q">> \in DOMAIN Target.query /\ Target.query[<<"q">>] = text
    BY <1>1, <1>2, <1>5, SearchTarget
  <2>2. Param("q") = text /\ text # << >>
    BY <1>5, <2>1 DEF Param, AsksForSearch
  <2>3. Route = <<"GET", <<"/search">>>>
    BY <1>5, <2>1 DEF Route
  <2>4. ~IsDocument
    BY <2>1 DEF IsDocument
  <2>5. SearchHandler
    BY <1>4, <2>3, <2>4 DEF IndexHandler, ReadHandler, DocumentHandler, NotFound
  <2>6. called' = Call("search", text)
    BY <2>2, <2>5 DEF SearchHandler, Respond
  <2> QED BY <1>1, <1>5, <2>6
<1>6. CASE op = "get" /\ r.method = "GET" /\ AsksForDocument(r.target, text)
  <2>1. Len(path) > 1 /\ path[1] = DocumentsPrefix /\ Tail(path) = text
    BY <1>1, <1>2, <1>6, DocumentTarget
  <2>2. IsDocument
    BY <1>6, <2>1 DEF IsDocument
  <2>3. \A s \in {"/search", "/health", "/stats", "/index"} : path # <<s>>
    <3> TAKE s \in {"/search", "/health", "/stats", "/index"}
    <3>1. Len(<<s>>) = 1
      OBVIOUS
    <3> HIDE DEF path
    <3>2. SUFFICES ASSUME path = <<s>> PROVE FALSE
      OBVIOUS
    <3> QED BY <2>1, <3>1, <3>2
  <2>4. ~SearchHandler /\ ~IndexHandler /\ ~ReadHandler
    BY <2>3 DEF SearchHandler, IndexHandler, ReadHandler, Route
  <2>5. DocumentHandler
    BY <1>4, <2>2, <2>4 DEF NotFound
  <2>6. called' = Call("get", text)
    BY <2>1, <2>5 DEF DocumentHandler, Respond
  <2> QED BY <1>1, <1>6, <2>6
<1>7. CASE op = "index" /\ r.method = "POST" /\ AsksForIndex(r.target, r.body, text)
  <2>1. r.target = <<"/index">> /\ r.body = Field("path", text) /\ Control \notin ToSet(text)
    BY <1>7 DEF AsksForIndex
  <2>2. path = <<"/index">>
    <3>1. "/index" \in {"/index"} /\ "/index" \notin {"%", "+", "?"}
      OBVIOUS
    <3> QED BY <1>2, <2>1, <3>1, NameTarget
  <2>3. Route = <<"POST", <<"/index">>>>
    BY <1>7, <2>2 DEF Route
  <2>4. IndexHandler
    BY <1>4, <1>7, <2>3 DEF SearchHandler, ReadHandler, DocumentHandler, NotFound, IsDocument
  <2>5. extract_string_field(body, "path") = [found |-> TRUE, text |-> text]
    BY <1>1, <1>3, <2>1, PathRead
  <2>6. extract_string_field(body, "path").found /\ extract_string_field(body, "path").text = text
    BY <2>5
  <2>7. called' = Call("index", text)
    BY <2>4, <2>6, Zenon DEF IndexHandler, Respond
  <2> QED BY <1>1, <1>7, <2>7
<1>8. CASE r.asked = Call("read", << >>) /\ r.method = "GET" /\ r.target \in {<<"/health">>, <<"/stats">>}
  <2>1. path = <<"/health">> \/ path = <<"/stats">>
    <3>1. /\ "/health" \in {"/health"} /\ "/health" \notin {"%", "+", "?"}
          /\ "/stats" \in {"/stats"} /\ "/stats" \notin {"%", "+", "?"}
      OBVIOUS
    <3>2. parse_target(<<"/health">>).path = <<"/health">> /\ parse_target(<<"/stats">>).path = <<"/stats">>
      BY <3>1, NameTarget
    <3> QED BY <1>2, <1>8, <3>2
  <2>2. Len(path) = 1 /\ path # <<"/search">> /\ path # <<"/index">>
    BY <2>1
  <2>4. /\ Route # <<"GET", <<"/search">>>> /\ Route # <<"POST", <<"/index">>>>
        /\ Route \in {<<"GET", <<s>>>> : s \in {"/search", "/health", "/stats"}}
    BY <1>8, <2>1, <2>2 DEF Route
  <2>5. ~IsDocument
    BY <2>2 DEF IsDocument
  <2>6. ReadHandler
    BY <1>4, <2>4, <2>5, Zenon DEF SearchHandler, IndexHandler, DocumentHandler, NotFound
  <2>7. called' = Call("read", << >>)
    BY <2>6 DEF ReadHandler, Respond
  <2> QED BY <1>8, <2>7
<1> QED
  BY <1>1, <1>5, <1>6, <1>7, <1>8 DEF Means

\* Every handler quotes the text it called the engine with.
LEMMA DispatchQuotes ==
    ASSUME Dispatch, answer'.status = 200, called'.op \in {"search", "get"}
    PROVE  \E key \in {"query", "id"} : answer'.text = Field(key, called'.text)
<1>1. CASE SearchHandler
  <2> DEFINE missing == Field("error", <<"missing q">>)
             invalid == Field("error", <<"invalid query">>)
  <2>1. \/ answer' = [status |-> 400, text |-> missing]
        \/ called' = Call("search", Param("q")) /\ answer' = [status |-> 200, text |-> Field("query", Param("q"))]
        \/ answer' = [status |-> 400, text |-> invalid]
    BY <1>1, Zenon DEF SearchHandler, Respond
  <2> HIDE DEF missing, invalid
  <2>2. called'.text = Param("q") /\ answer'.text = Field("query", Param("q"))
    BY <2>1 DEF Call
  <2> QED BY <2>2
<1>2. CASE IndexHandler
  <2>1. called' = None \/ \E t : called' = Call("index", t)
    BY <1>2, Zenon DEF IndexHandler, Respond
  <2>2. called'.op \in {"none", "index"}
    BY <2>1 DEF Call, None
  <2> QED BY <2>2
<1>3. CASE ReadHandler
  <2>1. called' = Call("read", << >>)
    BY <1>3, Zenon DEF ReadHandler, Respond
  <2> QED BY <2>1 DEF Call
<1>4. CASE DocumentHandler
  <2> DEFINE id      == Tail(Target.path)
             unknown == Field("error", <<"document not found">>)
  <2>1. \/ called' = Call("get", id) /\ answer' = [status |-> 200, text |-> Field("id", id)]
        \/ answer' = [status |-> 404, text |-> unknown]
    BY <1>4, Zenon DEF DocumentHandler, Respond
  <2> HIDE DEF id, unknown
  <2>2. called'.text = id /\ answer'.text = Field("id", id)
    BY <2>1 DEF Call
  <2> QED BY <2>2
<1>5. CASE NotFound
  <2>1. called' = None
    BY <1>5, Zenon DEF NotFound, Respond
  <2> QED BY <2>1 DEF Call, None
<1> QED
  BY <1>1, <1>2, <1>3, <1>4, <1>5 DEF Dispatch

\* One step, for the part about a call.
LEMMA MeantStep ==
    ASSUME Reassembled, EngineGetsWhatClientMeant, AnswersQuote, [Next]_vars
    PROVE  EngineGetsWhatClientMeant' /\ AnswersQuote'
<1>1. request' = request => (InOrder' <=> InOrder) /\ Wire' = Wire
  BY DEF InOrder, Wire
<1>2. CASE Dispatch
  <2>1. UNCHANGED <<request, received, closed>>
    BY <1>2 DEF Dispatch
  <2>2. EngineGetsWhatClientMeant'
    <3> SUFFICES ASSUME InOrder', (Whole \/ ~closed)' PROVE (called = request.asked)'
      BY DEF EngineGetsWhatClientMeant
    <3>1. InOrder /\ (Whole \/ ~closed)
      BY <1>1, <2>1 DEF Whole
    <3>2. called' = request.asked
      BY <1>2, <3>1, CallIsMeant
    <3> QED BY <2>1, <3>2
  <2>3. AnswersQuote'
    <3> SUFFICES ASSUME answer'.status = 200, called'.op \in {"search", "get"}
                 PROVE  \E key \in {"query", "id"} : answer'.text = Field(key, called'.text)
      BY Zenon DEF AnswersQuote
    <3> QED BY <1>2, DispatchQuotes
  <2> QED BY <2>2, <2>3
<1>3. CASE Close
  <2>1. closed' = TRUE /\ UNCHANGED <<request, received, phase, called, answer>>
    BY <1>3 DEF Close
  <2>2. Whole' <=> Whole
    BY <1>1, <2>1 DEF Whole
  <2> QED BY <1>1, <2>1, <2>2 DEF EngineGetsWhatClientMeant, AnswersQuote
<1>4. CASE ReceiveHead \/ HeadEnds \/ ParseHead \/ ParseThrows \/ ReceiveBody \/ TargetAborts \/ Send \/ SendKills
  <2>1. phase' # "send"
    <3>1. CASE ReceiveHead
      BY <3>1 DEF ReceiveHead, AfterHead
    <3>2. CASE ReceiveBody
      BY <3>2 DEF ReceiveBody
    <3>3. CASE HeadEnds \/ ParseHead \/ ParseThrows \/ TargetAborts \/ Send \/ SendKills
      BY <3>3 DEF HeadEnds, ParseHead, ParseThrows, TargetAborts, Send, SendKills, Aborts
    <3> QED BY <1>4, <3>1, <3>2, <3>3
  <2> QED BY <2>1 DEF EngineGetsWhatClientMeant, AnswersQuote
<1>5. CASE UNCHANGED vars
  <2>1. UNCHANGED <<request, received, closed, phase, called, answer>>
    BY <1>5 DEF vars
  <2>2. Whole' <=> Whole
    BY <1>1, <2>1 DEF Whole
  <2> QED BY <1>1, <2>1, <2>2 DEF EngineGetsWhatClientMeant, AnswersQuote
<1> QED
  BY <1>2, <1>3, <1>4, <1>5 DEF Next, Serve

\* The least element of a set of numbers.
LEMMA MinIs ==
    ASSUME NEW S, NEW m \in S, \A y \in S : y \in Nat, \A y \in S : m <= y
    PROVE  Min(S) = m
<1>1. \A x \in S : (\A y \in S : x <= y) => x = m
  OBVIOUS
<1> QED
  BY <1>1, Zenon DEF Min

LEMMA ConnectionIsInductive == Spec => []ConnectionInvariant
<1>1. Init => ConnectionInvariant
  <2> SUFFICES ASSUME Init PROVE ConnectionInvariant
    OBVIOUS
  <2>1. request \in Requests /\ received = 0 /\ closed = FALSE /\ phase = "head"
    BY DEF Init
  <2>2. Len(Wire) \in Nat /\ HeadLength(request) \in Nat
    BY <2>1, WireLength
  <2>3. received \in 0..Len(Wire) /\ received <= HeadLength(request) /\ closed \in BOOLEAN
    <3>1. 0 \in 0..Len(Wire) /\ 0 <= HeadLength(request)
      BY <2>2
    <3>2. FALSE \in BOOLEAN
      OBVIOUS
    <3> QED BY <2>1, <3>1, <3>2, Zenon
  <2>4. phase # "parse" /\ phase # "body" /\ phase # "send"
    BY <2>1
  <2>5. Reassembled
    BY <2>1, <2>3, <2>4 DEF Reassembled
  <2> QED BY <2>4, <2>5 DEF ConnectionInvariant, EngineGetsWhatClientMeant, AnswersQuote
<1>2. ConnectionInvariant /\ [Next]_vars => ConnectionInvariant'
  BY ReassembledStep, MeantStep DEF ConnectionInvariant
<1> QED
  BY <1>1, <1>2, PTL DEF Spec

\* However a request is cut into pieces, wherever the client gives up, and whatever the
\* text and the way it is written: the engine is called with what the client meant, or
\* not at all (handle_connection(), parse_target(), url_decode(), extract_string_field()).
THEOREM ClientIsUnderstood == Spec => []EngineGetsWhatClientMeant
<1>1. ConnectionInvariant => EngineGetsWhatClientMeant
  BY DEF ConnectionInvariant
<1> QED
  BY <1>1, ConnectionIsInductive, PTL

\* escape() and quote() make a JSON string of any text, from which a JSON reader gets
\* the text that was sent.
THEOREM AnswersAreJson == Spec => []AnswersReadBack
<1>1. ConnectionInvariant => AnswersReadBack
  <2> SUFFICES ASSUME ConnectionInvariant, phase = "send", InOrder, Whole, answer.status = 200,
                      called.op \in {"search", "get"}
               PROVE  ReadString(answer.text, Min({p \in 1..Len(answer.text) : answer.text[p] = ":"}) + 2)
                        = [found |-> TRUE, text |-> request.asked.text]
    BY Zenon DEF AnswersReadBack
  <2>1. called = request.asked
    BY DEF ConnectionInvariant, EngineGetsWhatClientMeant
  <2>2. request.asked.text \in Seq(Coded)
    BY ConnectionAssumption DEF ConnectionInvariant, Reassembled, IsRequest
  <2>3. PICK key \in {"query", "id"} : answer.text = Field(key, called.text)
    BY DEF ConnectionInvariant, AnswersQuote
  <2> DEFINE t == request.asked.text
             B == Field(key, t)
             S == Json(key)
  <2>4. /\ B \in Seq(S) /\ Len(B) \in Nat /\ Len(B) >= 8
        /\ B[1] = OpenBrace /\ B[2] = Quote /\ B[3] = key /\ B[4] = Quote /\ B[5] = ":"
    <3>1. escape(t) \in Seq(S)
      BY <2>2, EscapeIs DEF Escapes
    <3>2. key \in S /\ Quote \in S /\ OpenBrace \in S /\ ":" \in S /\ CloseBrace \in S
      BY Zenon DEF Json, Coded, OpenBrace, CloseBrace
    <3> HIDE DEF S, t
    <3>3. Len(escape(t)) \in Nat
      BY <3>1
    <3> QED BY <3>1, <3>2, <3>3, FieldIs
  <2>5. answer.text = B
    BY <2>1, <2>3
  <2> HIDE DEF B, S
  <2> DEFINE value == {p \in 1..Len(B) : B[p] = ":"}
  <2>6. Min(value) = 5
    <3>1. OpenBrace # ":" /\ Quote # ":"
      BY Zenon DEF OpenBrace, Quote
    <3>2. key # ":"
      OBVIOUS
    <3>3. 5 \in value /\ \A p \in value : p \in Nat /\ p # 1 /\ p # 2 /\ p # 3 /\ p # 4 /\ p >= 1
      BY <2>4, <3>1, <3>2
    <3> HIDE DEF value
    <3>4. 5 \in value
      BY <3>3
    <3>5. \A y \in value : 5 <= y
      BY <3>3
    <3> QED BY <3>3, <3>4, <3>5, MinIs
  <2>7. 5 + 2 = 7
    OBVIOUS
  <2>8. ReadString(B, 7) = [found |-> TRUE, text |-> t]
    <3>1. t \in Seq(Coded)
      BY <2>2
    <3> HIDE DEF t
    <3> QED BY <3>1, ReadBack DEF B
  <2>9. Min({p \in 1..Len(answer.text) : answer.text[p] = ":"}) = 5
    BY <2>5, <2>6, Zenon
  <2>10. ReadString(answer.text, 7) = [found |-> TRUE, text |-> request.asked.text]
    BY <2>5, <2>8, Zenon
  <2> HIDE DEF value
  <2> QED BY <2>7, <2>9, <2>10
<1> QED
  BY <1>1, ConnectionIsInductive, PTL
=============================================================================

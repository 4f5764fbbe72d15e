---------------------------- MODULE LatencyProofs ----------------------------
(***************************************************************************)
(* Theorems about LatencyReports, for any number of orders, any window and *)
(* any bounds of the histogram.                                            *)
(***************************************************************************)
EXTENDS LatencyReports, SumLemmas

-----------------------------------------------------------------------------
(* The percentiles of a sorted list.                                       *)

\* s is sorted, as sorted() leaves it.
IsAscending(s) == \A i, j \in 1..Len(s) : i <= j => s[i] <= s[j]

\* Where Percentile looks.
Place(n, p) ==
    LET idx == (n * p) \div 1000 IN IF idx < n THEN idx + 1 ELSE n

\* Cutting a list of n after k of them puts at least p before the cut, and would
\* not without the last of these.
Cuts(n, p, k) ==
    /\ k \in 1..n
    /\ k * 1000 >= n * p
    /\ (k - 1) * 1000 <= n * p

\* The quotient, as its defining inequalities.
LEMMA Quotient ==
    ASSUME NEW m \in Nat
    PROVE  /\ m \div 1000 \in Nat
           /\ 1000 * (m \div 1000) <= m
           /\ m < 1000 * (m \div 1000) + 1000
  OBVIOUS

\* The index is in the list, and cuts it at p.
LEMMA PlaceCuts ==
    ASSUME NEW n \in Nat \ {0}, NEW p \in 0..1000
    PROVE  Cuts(n, p, Place(n, p))
  <1> DEFINE m == n * p
             q == m \div 1000
  <1>1. m \in Nat
    OBVIOUS
  <1>2. m <= n * 1000
    OBVIOUS
  <1>3. q \in Nat /\ 1000 * q <= m /\ m < 1000 * q + 1000
    BY <1>1, Quotient
  <1>4. Place(n, p) = IF q < n THEN q + 1 ELSE n
    BY DEF Place
  <1> HIDE DEF m, q
  <1>5. /\ (IF q < n THEN q + 1 ELSE n) \in 1..n
        /\ (IF q < n THEN q + 1 ELSE n) * 1000 >= m
        /\ ((IF q < n THEN q + 1 ELSE n) - 1) * 1000 <= m
    BY <1>1, <1>2, <1>3
  <1> QED
    BY <1>4, <1>5 DEF m, Cuts

\* A percentile is an element of the list; at least p of the list is not above
\* it and at most p of the list is before it, the boundaries 0 and 100 and the
\* shortest lists included (utils.py:63-68, web_server.py:97-98).
THEOREM PercentileSplits ==
    ASSUME NEW s \in Seq(Int), s # <<>>, IsAscending(s), NEW p \in 0..1000
    PROVE  \E k \in 1..Len(s) :
              /\ Percentile(s, p) = s[k]
              /\ \A i \in 1..k : s[i] <= Percentile(s, p)
              /\ \A i \in k..Len(s) : Percentile(s, p) <= s[i]
              /\ Cuts(Len(s), p, k)
  <1> DEFINE k == Place(Len(s), p)
  <1>1. Len(s) \in Nat \ {0}
    OBVIOUS
  <1>2. Cuts(Len(s), p, k)
    BY <1>1, PlaceCuts
  <1>3. Percentile(s, p) = s[k]
    BY DEF Percentile, Place
  <1> HIDE DEF k
  <1>4. k \in 1..Len(s)
    BY <1>2 DEF Cuts
  <1>5. /\ \A i \in 1..k : s[i] <= s[k]
        /\ \A i \in k..Len(s) : s[k] <= s[i]
    <2>1. ASSUME NEW i \in 1..k PROVE s[i] <= s[k]
      <3>1. i \in 1..Len(s) /\ i <= k
        BY <1>1, <1>4
      <3> QED
        BY <1>4, <3>1 DEF IsAscending
    <2>2. ASSUME NEW i \in k..Len(s) PROVE s[k] <= s[i]
      <3>1. i \in 1..Len(s) /\ k <= i
        BY <1>1, <1>4
      <3> QED
        BY <1>4, <3>1 DEF IsAscending
    <2> QED
      BY <2>1, <2>2
  <1> QED
    BY <1>2, <1>3, <1>4, <1>5

\* A higher percentile is not a lower time: the columns of every report are in
\* order.
THEOREM PercentilesOrdered ==
    ASSUME NEW s \in Seq(Int), s # <<>>, IsAscending(s),
           NEW p \in 0..1000, NEW q \in 0..1000, p <= q
    PROVE  Percentile(s, p) <= Percentile(s, q)
  <1> DEFINE n == Len(s)
             dp == (n * p) \div 1000
             dq == (n * q) \div 1000
  <1>1. n \in Nat \ {0}
    OBVIOUS
  <1>2. n * p \in Nat /\ n * q \in Nat /\ n * p <= n * q
    <2> HIDE DEF n
    <2>1. n * p \in Nat /\ n * q \in Nat /\ n * (q - p) \in Nat
      BY <1>1
    <2>2. n * q = n * p + n * (q - p)
      BY <1>1
    <2> QED
      BY <2>1, <2>2
  <1>3. dp \in Nat /\ dq \in Nat /\ dp <= dq
    BY <1>2, Quotient
  <1>4. /\ Place(n, p) = IF dp < n THEN dp + 1 ELSE n
        /\ Place(n, q) = IF dq < n THEN dq + 1 ELSE n
    BY DEF Place
  <1>5. Place(n, p) <= Place(n, q)
    <2> HIDE DEF dp, dq, n
    <2> QED BY <1>1, <1>3, <1>4
  <1>6. Place(n, p) \in 1..n /\ Place(n, q) \in 1..n
    <2>1. Cuts(n, p, Place(n, p)) /\ Cuts(n, q, Place(n, q))
      BY <1>1, PlaceCuts, ZenonT(60)
    <2> HIDE DEF n
    <2> QED
      BY <2>1 DEF Cuts
  <1>7. Percentile(s, p) = s[Place(n, p)] /\ Percentile(s, q) = s[Place(n, q)]
    BY DEF Percentile, Place
  <1> QED
    BY <1>5, <1>6, <1>7 DEF IsAscending

\* The index of get_stats needs no cap: it is in every list that is not empty,
\* and the one LatencyStats and the dashboard use (handler.py:200).
THEOREM ServerP99Agrees ==
    ASSUME NEW s \in Seq(Int), s # <<>>
    PROVE  ServerP99(s) = Percentile(s, 990)
  <1> DEFINE n == Len(s)
  <1>1. n \in Nat \ {0}
    OBVIOUS
  <1> HIDE DEF n
  <1>2. (n * 990) \div 1000 = (n * 99) \div 100
    BY <1>1
  <1>3. (n * 99) \div 100 < n
    BY <1>1
  <1> QED
    BY <1>2, <1>3 DEF ServerP99, Percentile, n

-----------------------------------------------------------------------------
(* The answers among the results, and the last of them.                    *)

\* g selects the times from every prefix of s.
Selects(g, s) ==
    g = [n \in 0..Len(s) |->
           IF n = 0 THEN <<>>
           ELSE IF s[n] > 0 THEN Append(g[n - 1], s[n]) ELSE g[n - 1]]

Selector(s) == CHOOSE g : Selects(g, s)

LEMMA ValidSelects == ASSUME NEW s PROVE Valid(s) = Selector(s)[Len(s)]
  BY DEF Valid, Selector, Selects

LEMMA SelectsAt ==
    ASSUME NEW g, NEW s, Selects(g, s), NEW i \in 0..Len(s)
    PROVE  g[i] = IF i = 0 THEN <<>>
                  ELSE IF s[i] > 0 THEN Append(g[i - 1], s[i]) ELSE g[i - 1]
  BY DEF Selects

\* Selecting from a list goes on from what was selected from its beginning.
LEMMA SelectionUnique ==
    ASSUME NEW s \in Seq(Int), NEW t \in Seq(Int), Len(s) <= Len(t),
           \A i \in 1..Len(s) : s[i] = t[i],
           NEW g, Selects(g, s), NEW h, Selects(h, t)
    PROVE  \A n \in 0..Len(s) : h[n] = g[n]
  <1> DEFINE W == {n \in 0..Len(s) : h[n] # g[n]}
  <1> SUFFICES ASSUME W # {}
               PROVE  FALSE
    OBVIOUS
  <1>1. PICK n \in W : \A m \in W : n <= m
    <2>1. W \subseteq Nat
      OBVIOUS
    <2> HIDE DEF W
    <2> QED
      BY <2>1, LeastElement
  <1>2. n \in 0..Len(s) /\ n \in 0..Len(t) /\ h[n] # g[n]
    OBVIOUS
  <1>3. /\ g[n] = IF n = 0 THEN <<>>
                  ELSE IF s[n] > 0 THEN Append(g[n - 1], s[n]) ELSE g[n - 1]
        /\ h[n] = IF n = 0 THEN <<>>
                  ELSE IF t[n] > 0 THEN Append(h[n - 1], t[n]) ELSE h[n - 1]
    BY <1>2 DEF Selects
  <1>4. n # 0
    BY <1>2, <1>3
  <1>5. n \in 1..Len(s) /\ n - 1 \in 0..Len(s) /\ ~(n <= n - 1)
    BY <1>2, <1>4
  <1>6. n - 1 \notin W
    BY <1>1, <1>5
  <1>7. h[n - 1] = g[n - 1]
    BY <1>5, <1>6
  <1>8. s[n] = t[n]
    BY <1>5
  <1> QED
    BY <1>2, <1>3, <1>4, <1>7, <1>8

\* A result more is an answer more, or none.
LEMMA ValidOfAppend ==
    ASSUME NEW s \in Seq(Int), Selects(Selector(s), s), NEW x,
           NEW u \in Seq(Int), Len(u) = Len(s) + 1, u[Len(s) + 1] = x,
           \A i \in 1..Len(s) : s[i] = u[i]
    PROVE  /\ Selects(Selector(u), u)
           /\ Valid(u) = IF x > 0 THEN Append(Valid(s), x) ELSE Valid(s)
  <1> DEFINE n == Len(s)
             f == Selector(s)
             g == [i \in 0..(n + 1) |->
                     IF i = n + 1 THEN IF x > 0 THEN Append(f[n], x) ELSE f[n] ELSE f[i]]
  <1>1. /\ n \in Nat /\ u \in Seq(Int) /\ Len(u) = n + 1 /\ u[n + 1] = x
        /\ \A i \in 1..n : s[i] = u[i]
    OBVIOUS
  <1>2. \A i \in 0..n : f[i] = IF i = 0 THEN <<>>
                               ELSE IF s[i] > 0 THEN Append(f[i - 1], s[i]) ELSE f[i - 1]
    BY DEF Selects
  <1>3. Selects(g, u)
    <2> DEFINE h == [i \in 0..(n + 1) |->
                       IF i = 0 THEN <<>>
                       ELSE IF u[i] > 0 THEN Append(g[i - 1], u[i]) ELSE g[i - 1]]
    <2>1. ASSUME NEW i \in 0..(n + 1) PROVE g[i] = h[i]
      <3>1. CASE i = n + 1
        <4>1. g[n] = f[n] /\ i # 0 /\ i - 1 = n /\ u[i] = x
          BY <1>1, <3>1
        <4>2. h[i] = IF x > 0 THEN Append(f[n], x) ELSE f[n]
          BY <4>1
        <4>3. g[i] = IF x > 0 THEN Append(f[n], x) ELSE f[n]
          BY <3>1
        <4> QED
          BY <4>2, <4>3
      <3>2. CASE i # n + 1
        <4>1. i \in 0..n /\ g[i] = f[i]
          BY <1>1, <3>2
        <4>2. CASE i = 0
          BY <1>2, <4>1, <4>2
        <4>3. CASE i # 0
          <5>1. i \in 1..n /\ i - 1 \in 0..(n + 1) /\ i - 1 # n + 1
            BY <1>1, <4>1, <4>3
          <5>2. g[i - 1] = f[i - 1] /\ s[i] = u[i]
            BY <1>1, <5>1
          <5> QED
            BY <1>2, <4>1, <4>3, <5>2
        <4> QED
          BY <4>2, <4>3
      <3> QED
        BY <3>1, <3>2, Zenon
    <2>2. g = h
      <3>1. g = [i \in 0..(n + 1) |-> g[i]] /\ h = [i \in 0..(n + 1) |-> h[i]]
        OBVIOUS
      <3> HIDE DEF g, h
      <3>2. [i \in 0..(n + 1) |-> g[i]] = [i \in 0..(n + 1) |-> h[i]]
        BY <2>1
      <3> QED
        BY <3>1, <3>2, Zenon
    <2> HIDE DEF g
    <2> QED
      BY <1>1, <2>2 DEF Selects
  <1>4. Selects(Selector(u), u)
    <2> HIDE DEF g
    <2> QED
      BY <1>3 DEF Selector
  <1>5. \A i \in 0..n : Selector(u)[i] = f[i]
    <2>1. Len(s) <= Len(u) /\ u \in Seq(Int) /\ \A i \in 1..Len(s) : s[i] = u[i]
      BY <1>1
    <2> DEFINE k == Selector(u)
    <2>2. Selects(f, s) /\ Selects(k, u)
      BY <1>4
    <2> HIDE DEF f, g, k
    <2>3. \A i \in 0..Len(s) : k[i] = f[i]
      BY <2>1, <2>2, SelectionUnique
    <2> QED
      BY <2>3 DEF k
  <1>6. Selector(u)[n + 1] = IF x > 0 THEN Append(f[n], x) ELSE f[n]
    <2> DEFINE k == Selector(u)
    <2> DEFINE m == n + 1
    <2>1. m \in 0..Len(u) /\ m # 0 /\ m - 1 = n /\ u[m] = x /\ Selects(k, u)
      BY <1>1, <1>4
    <2>2. k[n] = f[n]
      BY <1>1, <1>5
    <2> HIDE DEF k, f, g, m
    <2>3. k[m] = IF m = 0 THEN <<>>
                 ELSE IF u[m] > 0 THEN Append(k[m - 1], u[m]) ELSE k[m - 1]
      BY <2>1, SelectsAt
    <2>4. k[m] = IF x > 0 THEN Append(f[n], x) ELSE f[n]
      BY <2>1, <2>2, <2>3
    <2> QED
      BY <2>4 DEF k, m
  <1> QED
    BY <1>1, <1>4, <1>6, ValidSelects

LEMMA ValidOfNone == Selects(Selector(<<>>), <<>>) /\ Valid(<<>>) = <<>>
  <1> DEFINE g == [n \in {0} |-> <<>>]
  <1>1. Selects(g, <<>>)
    <2>1. 0..Len(<<>>) = {0}
      OBVIOUS
    <2> QED
      BY <2>1 DEF Selects
  <1>2. Selects(Selector(<<>>), <<>>)
    <2> HIDE DEF g
    <2> QED
      BY <1>1 DEF Selector
  <1>3. Selector(<<>>)[0] = <<>>
    BY <1>2 DEF Selects
  <1> QED
    BY <1>2, <1>3, ValidSelects

\* The window moves on by one: appending to the last n and keeping the last n
\* is keeping the last n of all.
LEMMA LastOfAppend ==
    ASSUME NEW S, NEW s \in Seq(S), NEW x \in S, NEW n \in Nat \ {0}
    PROVE  LastOf(Append(LastOf(s, n), x), n) = LastOf(Append(s, x), n)
  <1> DEFINE L == Len(s)
             w == SubSeq(s, L - n + 1, L)
             a == Append(w, x)
             b == Append(s, x)
  <1>1. L \in Nat
    OBVIOUS
  <1>2. CASE L > n
    <2>1. /\ w \in Seq(S) /\ Len(w) = n
          /\ \A i \in 1..n : w[i] = s[L - n + i]
      <3>1. /\ L - n + 1 \in Int /\ L \in Int /\ L - n + 1 <= L
            /\ L - (L - n + 1) + 1 = n
        BY <1>1, <1>2
      <3>2. \A i \in (L - n + 1)..L : s[i] \in S
        BY <1>1, <1>2
      <3>3. /\ w \in Seq(S) /\ Len(w) = n
            /\ \A i \in 1..n : w[i] = s[L - n + 1 + i - 1]
        BY <3>1, <3>2, SubSeqProperties
      <3>4. \A i \in 1..n : L - n + 1 + i - 1 = L - n + i
        BY <1>1
      <3> QED
        BY <3>3, <3>4
    <2> HIDE DEF w
    <2>2. /\ a \in Seq(S) /\ Len(a) = n + 1 /\ a[n + 1] = x
          /\ \A i \in 1..n : a[i] = w[i]
      BY <2>1
    <2>3. /\ b \in Seq(S) /\ Len(b) = L + 1 /\ b[L + 1] = x
          /\ \A i \in 1..L : b[i] = s[i]
      OBVIOUS
    <2> HIDE DEF a, b
    <2>4. /\ SubSeq(a, 2, n + 1) \in Seq(S) /\ Len(SubSeq(a, 2, n + 1)) = n
          /\ \A i \in 1..n : SubSeq(a, 2, n + 1)[i] = a[i + 1]
      <3>1. \A i \in 2..(n + 1) : a[i] \in S
        BY <2>2
      <3>2. 2 \in Int /\ n + 1 \in Int /\ 2 <= n + 1 /\ n + 1 - 2 + 1 = n
        OBVIOUS
      <3>3. \A i \in 1..n : SubSeq(a, 2, n + 1)[i] = a[2 + i - 1]
        BY <3>1, <3>2, SubSeqProperties
      <3>4. \A i \in 1..n : 2 + i - 1 = i + 1
        OBVIOUS
      <3> QED
        BY <3>1, <3>2, <3>3, <3>4, SubSeqProperties
    <2>5. /\ SubSeq(b, L - n + 2, L + 1) \in Seq(S) /\ Len(SubSeq(b, L - n + 2, L + 1)) = n
          /\ \A i \in 1..n : SubSeq(b, L - n + 2, L + 1)[i] = b[L - n + i + 1]
      <3>1. \A i \in (L - n + 2)..(L + 1) : b[i] \in S
        BY <1>1, <1>2, <2>3
      <3>2. /\ L - n + 2 \in Int /\ L + 1 \in Int /\ L - n + 2 <= L + 1
            /\ L + 1 - (L - n + 2) + 1 = n
        BY <1>1, <1>2
      <3>3. \A i \in 1..n : SubSeq(b, L - n + 2, L + 1)[i] = b[L - n + 2 + i - 1]
        BY <3>1, <3>2, SubSeqProperties
      <3>4. \A i \in 1..n : L - n + 2 + i - 1 = L - n + i + 1
        BY <1>1
      <3> QED
        BY <3>1, <3>2, <3>3, <3>4, SubSeqProperties
    <2>6. ASSUME NEW i \in 1..n PROVE a[i + 1] = b[L - n + i + 1]
      <3>1. CASE i = n
        <4>1. L - n + i + 1 = L + 1
          BY <1>1, <3>1
        <4> QED
          BY <2>2, <2>3, <3>1, <4>1
      <3>2. CASE i # n
        <4>1. /\ i + 1 \in 1..n /\ L - n + i + 1 \in 1..L
              /\ L - n + (i + 1) = L - n + i + 1
          BY <1>1, <1>2, <3>2
        <4>2. a[i + 1] = s[L - n + (i + 1)]
          BY <2>1, <2>2, <4>1
        <4> QED
          BY <2>3, <4>1, <4>2
      <3> QED
        BY <3>1, <3>2, Zenon
    <2>7. SubSeq(a, 2, n + 1) = SubSeq(b, L - n + 2, L + 1)
      <3> DEFINE p == SubSeq(a, 2, n + 1)
                 q == SubSeq(b, L - n + 2, L + 1)
      <3>1. \A i \in 1..n : p[i] = q[i]
        BY <2>4, <2>5, <2>6
      <3>2. p \in Seq(S) /\ q \in Seq(S) /\ Len(p) = n /\ Len(q) = n
        BY <2>4, <2>5
      <3> HIDE DEF p, q
      <3> QED
        BY <3>1, <3>2, SeqEqual DEF p, q
    <2>8. LastOf(s, n) = w
      BY <1>2 DEF LastOf, w
    <2>9. LastOf(a, n) = SubSeq(a, 2, n + 1)
      <3>1. Len(a) > n /\ n + 1 - n + 1 = 2
        BY <2>2
      <3> QED
        BY <2>2, <3>1 DEF LastOf
    <2>10. LastOf(b, n) = SubSeq(b, L - n + 2, L + 1)
      <3>1. Len(b) > n /\ L + 1 - n + 1 = L - n + 2
        BY <1>1, <1>2, <2>3
      <3> QED
        BY <2>3, <3>1 DEF LastOf
    <2> QED
      BY <2>7, <2>8, <2>9, <2>10 DEF a, b
  <1>3. CASE ~(L > n)
    BY <1>3 DEF LastOf
  <1> QED
    BY <1>2, <1>3

LEMMA LastOfType ==
    ASSUME NEW S, NEW s \in Seq(S), NEW n \in Nat \ {0}
    PROVE  /\ LastOf(s, n) \in Seq(S)
           /\ LastOf(s, n) = <<>> <=> s = <<>>
           /\ Len(s) <= n => LastOf(s, n) = s
  <1> DEFINE L == Len(s)
  <1>1. L \in Nat
    OBVIOUS
  <1>2. CASE L > n
    <2>1. /\ L - n + 1 \in Int /\ L \in Int /\ L - n + 1 <= L
          /\ L - (L - n + 1) + 1 = n
      BY <1>1, <1>2
    <2>2. \A i \in (L - n + 1)..L : s[i] \in S
      BY <1>1, <1>2
    <2>3. SubSeq(s, L - n + 1, L) \in Seq(S) /\ Len(SubSeq(s, L - n + 1, L)) = n
      BY <2>1, <2>2, SubSeqProperties
    <2>4. LastOf(s, n) = SubSeq(s, L - n + 1, L)
      BY <1>2 DEF LastOf
    <2>5. LastOf(s, n) # <<>> /\ s # <<>> /\ ~(L <= n)
      <3> DEFINE q == SubSeq(s, L - n + 1, L)
      <3>1. q # <<>>
        <4>1. q \in Seq(S) /\ Len(q) = n /\ n # 0
          BY <2>3
        <4> HIDE DEF q
        <4> QED
          BY <4>1
      <3>2. s # <<>> /\ ~(L <= n)
        BY <1>1, <1>2
      <3> HIDE DEF q, L
      <3> QED
        BY <2>4, <3>1, <3>2 DEF q
    <2> QED
      BY <2>3, <2>4, <2>5
  <1>3. CASE ~(L > n)
    BY <1>3 DEF LastOf
  <1> QED
    BY <1>2, <1>3

-----------------------------------------------------------------------------
(* Sorting.                                                                *)

\* Sizes of sets of places.
LEMMA Places ==
    ASSUME NEW n \in Nat
    PROVE  /\ \A A \in SUBSET (1..n) : IsFiniteSet(A) /\ Cardinality(A) \in 0..n
           /\ \A A, B \in SUBSET (1..n) :
                /\ A \subseteq B => Cardinality(A) <= Cardinality(B)
                /\ A \subseteq B /\ A # B => Cardinality(A) < Cardinality(B)
           /\ Cardinality(1..n) = n
  <1>1. IsFiniteSet(1..n) /\ Cardinality(1..n) = n
    <2>1. 1 \in Int /\ n \in Int /\ (IF 1 > n THEN 0 ELSE n - 1 + 1) = n
      OBVIOUS
    <2> QED
      BY <2>1, FS_Interval
  <1>2. ASSUME NEW A \in SUBSET (1..n)
        PROVE  IsFiniteSet(A) /\ Cardinality(A) \in 0..n
    <2>1. IsFiniteSet(A) /\ Cardinality(A) <= n
      BY <1>1, FS_Subset
    <2>2. Cardinality(A) \in Nat
      BY <2>1, FS_CardinalityType
    <2> QED
      BY <2>1, <2>2
  <1>3. ASSUME NEW A \in SUBSET (1..n), NEW B \in SUBSET (1..n), A \subseteq B
        PROVE  /\ Cardinality(A) <= Cardinality(B)
               /\ A # B => Cardinality(A) < Cardinality(B)
    <2>1. IsFiniteSet(B) /\ Cardinality(A) \in 0..n /\ Cardinality(B) \in 0..n
      BY <1>2
    <2>2. A \in SUBSET B
      BY <1>3
    <2>3. Cardinality(A) <= Cardinality(B) /\ (Cardinality(B) = Cardinality(A) => B = A)
      BY <2>1, <2>2, FS_Subset
    <2> QED
      BY <2>1, <2>3
  <1> QED
    BY <1>1, <1>2, <1>3

\* Counting below a time and up to it.
LEMMA Counts ==
    ASSUME NEW s \in Seq(Nat)
    PROVE  /\ \A t \in Nat : Below(s, t) \in 0..Len(s) /\ NotAbove(s, t) \in 0..Len(s)
           /\ \A t, u \in Nat : t < u => NotAbove(s, t) <= Below(s, u)
           /\ \A i \in 1..Len(s) : Below(s, s[i]) < NotAbove(s, s[i])
           /\ \A t \in Nat : (\A i \in 1..Len(s) : s[i] <= t) => NotAbove(s, t) = Len(s)
  <1> DEFINE n == Len(s)
             Lower(t) == {i \in 1..n : s[i] < t}
             Upto(t) == {i \in 1..n : s[i] <= t}
  <1>1. n \in Nat /\ DOMAIN s = 1..n /\ \A i \in 1..n : s[i] \in Nat
    OBVIOUS
  <1>2. \A t : Below(s, t) = Cardinality(Lower(t)) /\ NotAbove(s, t) = Cardinality(Upto(t))
    BY <1>1 DEF Below, NotAbove
  <1>3. \A t : Lower(t) \in SUBSET (1..n) /\ Upto(t) \in SUBSET (1..n)
    OBVIOUS
  <1>4. ASSUME NEW t \in Nat
        PROVE  Below(s, t) \in 0..n /\ NotAbove(s, t) \in 0..n
    <2> HIDE DEF n, Lower, Upto
    <2> QED
      BY <1>1, <1>2, <1>3, Places
  <1>5. ASSUME NEW t \in Nat, NEW u \in Nat, t < u
        PROVE  NotAbove(s, t) <= Below(s, u)
    <2>1. Upto(t) \subseteq Lower(u)
      BY <1>1, <1>5
    <2>2. Cardinality(Upto(t)) <= Cardinality(Lower(u))
      <3>1. Upto(t) \in SUBSET (1..n) /\ Lower(u) \in SUBSET (1..n)
        BY <1>3
      <3> HIDE DEF n, Lower, Upto
      <3> QED
        BY <1>1, <2>1, <3>1, Places
    <2> HIDE DEF n, Lower, Upto
    <2> QED
      BY <1>2, <2>2
  <1>6. ASSUME NEW i \in 1..n
        PROVE  Below(s, s[i]) < NotAbove(s, s[i])
    <2>1. Lower(s[i]) \subseteq Upto(s[i]) /\ i \in Upto(s[i]) /\ i \notin Lower(s[i])
      BY <1>1
    <2>2. Cardinality(Lower(s[i])) < Cardinality(Upto(s[i]))
      <3>1. Upto(s[i]) \in SUBSET (1..n) /\ Lower(s[i]) \in SUBSET (1..n)
        BY <1>3
      <3>2. Lower(s[i]) # Upto(s[i])
        BY <2>1
      <3> HIDE DEF n, Lower, Upto
      <3> QED
        BY <1>1, <2>1, <3>1, <3>2, Places
    <2> HIDE DEF n, Lower, Upto
    <2> QED
      BY <1>2, <2>2
  <1>7. ASSUME NEW t \in Nat, \A i \in 1..n : s[i] <= t
        PROVE  NotAbove(s, t) = n
    <2>1. Upto(t) = 1..n
      BY <1>7
    <2> HIDE DEF n, Lower, Upto
    <2> QED
      BY <1>1, <1>2, <2>1, Places
  <1> QED
    BY <1>4, <1>5, <1>6, <1>7

\* There is a longest time.
LEMMA LongestTime ==
    ASSUME NEW s \in Seq(Nat), s # <<>>
    PROVE  \E m \in Nat : \A i \in 1..Len(s) : s[i] <= m
  <1> DEFINE n == Len(s)
             T == {n - NotAbove(s, s[i]) : i \in 1..n}
  <1>1. n \in Nat \ {0} /\ \A i \in 1..n : s[i] \in Nat
    OBVIOUS
  <1>2. \A i \in 1..n : NotAbove(s, s[i]) \in 0..n
    BY <1>1, Counts
  <1>3. PICK x \in T : \A y \in T : x <= y
    <2>1. T \subseteq Nat
      BY <1>1, <1>2
    <2>2. n - NotAbove(s, s[1]) \in T
      BY <1>1
    <2> HIDE DEF T
    <2> QED
      BY <2>1, <2>2, LeastElement
  <1>4. PICK i \in 1..n : x = n - NotAbove(s, s[i])
    BY <1>3
  <1>5. ASSUME NEW j \in 1..n
        PROVE  s[j] <= s[i]
    <2>1. n - NotAbove(s, s[i]) <= n - NotAbove(s, s[j])
      BY <1>3, <1>4
    <2>2. NotAbove(s, s[j]) <= NotAbove(s, s[i])
      BY <1>1, <1>2, <1>4, <2>1
    <2>3. Below(s, s[j]) < NotAbove(s, s[j]) /\ Below(s, s[j]) \in 0..n
      BY <1>1, Counts
    <2>4. s[i] < s[j] => NotAbove(s, s[i]) <= Below(s, s[j])
      BY <1>1, <1>4, Counts
    <2>5. s[i] \in Nat /\ s[j] \in Nat
      BY <1>1, <1>4
    <2>6. NotAbove(s, s[i]) \in 0..n /\ NotAbove(s, s[j]) \in 0..n
      BY <1>2, <1>4
    <2> HIDE DEF n
    <2> QED
      BY <1>1, <2>2, <2>3, <2>4, <2>5, <2>6
  <1> QED
    BY <1>1, <1>4, <1>5

\* Every place of the sorted list has its time, and one only.
LEMMA SortedAt ==
    ASSUME NEW s \in Seq(Nat), NEW k \in 1..Len(s)
    PROVE  /\ Ascending(s)[k] \in Range(s)
           /\ Below(s, Ascending(s)[k]) < k /\ k <= NotAbove(s, Ascending(s)[k])
           /\ \A t \in Nat : Below(s, t) < k /\ k <= NotAbove(s, t) => t = Ascending(s)[k]
  <1> DEFINE n == Len(s)
             T == {t \in Nat : k <= NotAbove(s, t)}
  <1>1. n \in Nat \ {0} /\ k \in 1..n /\ s # <<>> /\ DOMAIN s = 1..n /\ \A i \in 1..n : s[i] \in Nat
    OBVIOUS
  <1>2. PICK t \in T : \A y \in T : t <= y
    <2>1. PICK m \in Nat : \A i \in 1..n : s[i] <= m
      BY <1>1, LongestTime
    <2>2. NotAbove(s, m) = n
      BY <2>1, Counts
    <2>3. m \in T
      BY <1>1, <2>1, <2>2
    <2> HIDE DEF T
    <2>4. T \subseteq Nat
      BY DEF T
    <2> QED
      BY <2>3, <2>4, LeastElement
  <1>3. t \in Nat /\ k <= NotAbove(s, t)
    BY <1>2
  <1>4. Below(s, t) < k
    <2>1. CASE t = 0
      <3>1. \A i \in 1..n : ~(s[i] < 0)
        BY <1>1
      <3>2. {i \in DOMAIN s : s[i] < 0} = {}
        BY <1>1, <3>1
      <3>3. Below(s, 0) = 0
        BY <3>2, FS_EmptySet DEF Below
      <3> QED
        BY <1>1, <2>1, <3>3
    <2>2. CASE t # 0
      <3>1. t - 1 \in Nat /\ ~(t <= t - 1)
        BY <1>3, <2>2
      <3>2. t - 1 \notin T
        BY <1>2, <3>1
      <3>3. ~(k <= NotAbove(s, t - 1))
        BY <3>1, <3>2
      <3>4. \A i \in 1..n : s[i] < t <=> s[i] <= t - 1
        BY <1>1, <1>3
      <3>5. {i \in DOMAIN s : s[i] < t} = {i \in DOMAIN s : s[i] <= t - 1}
        BY <1>1, <3>4
      <3>6. Below(s, t) = NotAbove(s, t - 1)
        BY <3>5 DEF Below, NotAbove
      <3>7. Below(s, t) \in 0..n
        BY <1>3, Counts
      <3> QED
        BY <1>1, <3>3, <3>6, <3>7
    <2> QED
      BY <2>1, <2>2
  <1>5. t \in Range(s)
    <2>1. SUFFICES ASSUME \A i \in 1..n : s[i] # t
                   PROVE  FALSE
      BY <1>1 DEF Range
    <2>2. \A i \in 1..n : s[i] < t <=> s[i] <= t
      BY <1>1, <1>3, <2>1
    <2>3. {i \in DOMAIN s : s[i] < t} = {i \in DOMAIN s : s[i] <= t}
      BY <1>1, <2>2
    <2>4. Below(s, t) = NotAbove(s, t)
      BY <2>3 DEF Below, NotAbove
    <2>5. Below(s, t) \in 0..n
      BY <1>3, Counts
    <2> QED
      BY <1>1, <1>3, <1>4, <2>4, <2>5
  <1>6. ASSUME NEW u \in Nat, NEW v \in Nat, Below(s, u) < k, k <= NotAbove(s, v)
        PROVE  u <= v
    <2>1. v < u => NotAbove(s, v) <= Below(s, u)
      BY Counts
    <2>2. NotAbove(s, v) \in 0..n /\ Below(s, u) \in 0..n
      BY Counts
    <2> HIDE DEF n
    <2> QED
      BY <1>1, <1>6, <2>1, <2>2
  <1> DEFINE a == CHOOSE r \in Range(s) : Below(s, r) < k /\ k <= NotAbove(s, r)
  <1>7. a \in Range(s) /\ Below(s, a) < k /\ k <= NotAbove(s, a)
    BY <1>3, <1>4, <1>5
  <1>8. a = Ascending(s)[k]
    BY DEF Ascending
  <1> HIDE DEF a
  <1>9. a \in Nat
    BY <1>1, <1>7 DEF Range
  <1>10. ASSUME NEW u \in Nat, Below(s, u) < k, k <= NotAbove(s, u)
         PROVE  u = a
    BY <1>6, <1>7, <1>9, <1>10
  <1> QED
    BY <1>7, <1>8, <1>10

\* sorted() gives a sorted list with the times it was given, each as often: what
\* every percentile is computed from (utils.py:40, web_server.py:94,
\* handler.py:199).
THEOREM SortingRearranges ==
    ASSUME NEW s \in Seq(Nat)
    PROVE  /\ Ascending(s) \in Seq(Nat) /\ Len(Ascending(s)) = Len(s)
           /\ IsAscending(Ascending(s))
           /\ \A t \in Nat : Cardinality({k \in 1..Len(s) : Ascending(s)[k] = t})
                               = Cardinality({i \in 1..Len(s) : s[i] = t})
  <1> DEFINE n == Len(s)
             a == Ascending(s)
  <1>1. n \in Nat /\ DOMAIN s = 1..n /\ \A i \in 1..n : s[i] \in Nat
    OBVIOUS
  <1>2. \A k \in 1..n : a[k] \in Nat
    BY <1>1, SortedAt DEF Range
  <1>3. a \in Seq(Nat) /\ Len(a) = n
    <2>1. a = [k \in 1..n |-> a[k]]
      BY DEF Ascending
    <2> HIDE DEF a
    <2>2. a \in [1..n -> Nat]
      BY <1>2, <2>1
    <2> QED
      BY <1>1, <2>2
  <1>4. ASSUME NEW i \in 1..n, NEW j \in 1..n, i <= j
        PROVE  a[i] <= a[j]
    <2>1. Below(s, a[i]) < i /\ j <= NotAbove(s, a[j])
      BY SortedAt
    <2>2. a[j] < a[i] => NotAbove(s, a[j]) <= Below(s, a[i])
      BY <1>2, Counts
    <2>3. NotAbove(s, a[j]) \in 0..n /\ Below(s, a[i]) \in 0..n
      BY <1>2, Counts
    <2>4. a[i] \in Nat /\ a[j] \in Nat
      BY <1>2
    <2> HIDE DEF n, a
    <2> QED
      BY <1>4, <2>1, <2>2, <2>3, <2>4
  <1>5. ASSUME NEW t \in Nat
        PROVE  Cardinality({k \in 1..n : a[k] = t}) = Cardinality({i \in 1..n : s[i] = t})
    <2> DEFINE b == Below(s, t)
               c == NotAbove(s, t)
               Lower == {i \in 1..n : s[i] < t}
               Upto == {i \in 1..n : s[i] <= t}
               Equal == {i \in 1..n : s[i] = t}
    <2>1. b = Cardinality(Lower) /\ c = Cardinality(Upto)
      BY <1>1 DEF Below, NotAbove
    <2>2. b \in 0..n /\ c \in 0..n
      BY Counts
    <2>3. Lower \in SUBSET (1..n) /\ Upto \in SUBSET (1..n)
      OBVIOUS
    <2>4. IsFiniteSet(Upto) /\ IsFiniteSet(Lower)
      <3> HIDE DEF Upto, Lower, n
      <3> QED
        BY <1>1, <2>3, Places
    <2>5. Upto \cap Lower = Lower /\ Upto \ Lower = Equal
      BY <1>1
    <2>6. Cardinality(Equal) = c - b
      <3>1. Cardinality(Upto \ Lower) = Cardinality(Upto) - Cardinality(Upto \cap Lower)
        BY <2>4, FS_Difference
      <3> HIDE DEF Upto, Lower, Equal
      <3> QED
        BY <2>1, <2>5, <3>1
    <2>7. \A k \in 1..n : a[k] = t <=> b < k /\ k <= c
      BY SortedAt
    <2>8. {k \in 1..n : a[k] = t} = (b + 1)..c
      <3>1. \A k \in Int : k \in (b + 1)..c <=> k \in 1..n /\ b < k /\ k <= c
        BY <1>1, <2>2
      <3> HIDE DEF a, b, c
      <3> QED
        BY <1>1, <2>7, <3>1
    <2>9. Cardinality((b + 1)..c) = c - b
      <3>1. b <= c
        <4>1. Cardinality(Equal) \in Nat
          <5>1. Equal \in SUBSET (1..n)
            OBVIOUS
          <5> HIDE DEF Equal, n
          <5> QED
            BY <1>1, <5>1, Places
        <4> HIDE DEF Equal, b, c
        <4> QED
          BY <2>2, <2>6, <4>1
      <3>2. b + 1 \in Int /\ c \in Int
        BY <2>2
      <3>3. Cardinality((b + 1)..c) = IF b + 1 > c THEN 0 ELSE c - (b + 1) + 1
        BY <3>2, FS_Interval
      <3> HIDE DEF b, c
      <3> QED
        BY <2>2, <3>1, <3>3
    <2> HIDE DEF a, b, c, Equal
    <2> QED
      BY <2>6, <2>8, <2>9 DEF Equal
  <1> QED
    BY <1>3, <1>4, <1>5 DEF IsAscending

-----------------------------------------------------------------------------
(* The loss rate and the histogram.                                        *)

\* The quotient of any two.
LEMMA QuotientOf ==
    ASSUME NEW m \in Nat, NEW n \in Nat \ {0}
    PROVE  /\ m \div n \in Nat
           /\ (m \div n) * n <= m
           /\ m < (m \div n) * n + n
  OBVIOUS

\* The loss rate is the share of the lost, to half of its last digit.
LEMMA RateRounds ==
    ASSUME NEW n \in Nat \ {0}, NEW l \in 0..n,
           NEW r, r = ((l * 20000) \div n + 1) \div 2
    PROVE  /\ l = 0 => r = 0
           /\ 2 * Abs(r * n - 10000 * l) <= n
  <1> DEFINE q == (l * 20000) \div n
  <1>1. q \in Nat /\ q * n <= l * 20000 /\ l * 20000 < q * n + n
    <2>1. l * 20000 \in Nat
      OBVIOUS
    <2> QED
      BY <2>1, QuotientOf
  <1>2. l = 0 => q = 0
    <2>1. CASE l = 0
      <3>1. q * n < n
        BY <1>1, <2>1
      <3> HIDE DEF q
      <3>2. q >= 1 => q * n >= n
        BY <1>1
      <3> QED
        BY <1>1, <3>1, <3>2
    <2> QED
      BY <2>1
  <1> HIDE DEF q
  <1>3. r \in Nat /\ (2 * r = q \/ 2 * r = q + 1) /\ (q = 0 => r = 0)
    <2>1. r = (q + 1) \div 2
      BY DEF q
    <2> QED
      BY <1>1, <2>1
  <1>4. r * n \in Int /\ q * n \in Int /\ 2 * (r * n) = (2 * r) * n /\ (q + 1) * n = q * n + n
    BY <1>1, <1>3
  <1>5. 2 * (r * n) = q * n \/ 2 * (r * n) = q * n + n
    BY <1>3, <1>4
  <1>6. 2 * Abs(r * n - 10000 * l) <= n
    <2> DEFINE a == r * n
               b == q * n
    <2>1. /\ a \in Int /\ b \in Int /\ b <= l * 20000 /\ l * 20000 < b + n
          /\ 2 * a = b \/ 2 * a = b + n
      BY <1>1, <1>4, <1>5
    <2> HIDE DEF a, b
    <2>2. 2 * Abs(a - 10000 * l) <= n
      BY <2>1 DEF Abs
    <2> QED
      BY <2>2 DEF a
  <1> QED
    BY <1>2, <1>3, <1>6

LEMMA BoundsAscend == \A i, j \in 1..Len(Bounds) : i <= j => Bounds[i] <= Bounds[j]
  <1> SUFFICES ASSUME NEW i \in 1..Len(Bounds)
               PROVE  \A j \in i..Len(Bounds) : Bounds[i] <= Bounds[j]
    <2> QED
      BY HistogramAssumption
  <1> DEFINE W == {j \in i..Len(Bounds) : ~(Bounds[i] <= Bounds[j])}
  <1>1. Len(Bounds) \in Nat /\ \A j \in 1..Len(Bounds) : Bounds[j] \in Nat
    BY HistogramAssumption
  <1>2. ASSUME W # {}
        PROVE  FALSE
    <2>1. PICK j \in W : \A k \in W : j <= k
      <3>1. W \subseteq Nat
        BY <1>1
      <3> HIDE DEF W
      <3> QED
        BY <1>2, <3>1, LeastElement
    <2>2. j \in i..Len(Bounds) /\ ~(Bounds[i] <= Bounds[j])
      BY <2>1
    <2>3. j # i
      BY <1>1, <2>2
    <2>4. /\ j - 1 \in i..Len(Bounds) /\ j - 1 \in 1..(Len(Bounds) - 1)
          /\ ~(j <= j - 1) /\ j - 1 + 1 = j
      BY <1>1, <2>2, <2>3
    <2>5. j - 1 \notin W
      BY <2>1, <2>4
    <2>6. Bounds[i] <= Bounds[j - 1]
      BY <2>4, <2>5
    <2>7. Bounds[j - 1] < Bounds[j]
      <3>1. Bounds[j - 1] < Bounds[j - 1 + 1]
        BY <2>4, HistogramAssumption
      <3> QED
        BY <2>4, <3>1
    <2>8. Bounds[i] \in Nat /\ Bounds[j - 1] \in Nat /\ Bounds[j] \in Nat
      BY <1>1, <2>2, <2>4
    <2> QED
      BY <2>2, <2>6, <2>7, <2>8
  <1> QED
    BY <1>2

\* A time is in the bucket it lies in, and in no other.
LEMMA BucketWithin ==
    ASSUME NEW t \in Nat, NEW i \in 1..(Len(Bounds) + 1)
    PROVE  Bucket(t) = i <=> Within(t, i)
  <1> DEFINE L == Len(Bounds)
             S == {k \in 1..L : t < Bounds[k]} \cup {L + 1}
             m == Bucket(t)
  <1>1. L \in Nat /\ \A k \in 1..L : Bounds[k] \in Nat
    BY HistogramAssumption
  <1>2. m \in S /\ \A y \in S : m <= y
    <2>1. S \subseteq Nat /\ S # {}
      BY <1>1
    <2>2. m = Min(S)
      BY DEF Bucket
    <2> HIDE DEF S, m
    <2>3. \E x \in S : \A y \in S : x <= y
      BY <2>1, LeastElement
    <2> QED
      BY <2>2, <2>3 DEF Min
  <1>3. m \in 1..(L + 1)
    BY <1>1, <1>2
  <1>4. Within(t, m)
    <2>1. ASSUME m > 1
          PROVE  t >= Bounds[m - 1]
      <3>1. m - 1 \in 1..L /\ ~(m <= m - 1)
        BY <1>1, <1>3, <2>1
      <3>2. m - 1 \notin S
        BY <1>2, <3>1
      <3>3. ~(t < Bounds[m - 1]) /\ Bounds[m - 1] \in Nat
        BY <1>1, <3>1, <3>2
      <3> QED
        BY <3>3
    <2>2. ASSUME m <= L
          PROVE  t < Bounds[m]
      <3>1. m # L + 1
        BY <1>1, <1>3, <2>2
      <3> QED
        BY <1>2, <3>1
    <2> HIDE DEF m
    <2> QED
      BY <2>1, <2>2 DEF Within
  <1>5. ASSUME Within(t, i)
        PROVE  m = i
    <2>1. i \in S
      <3>1. CASE i = L + 1
        BY <3>1
      <3>2. CASE i # L + 1
        <4>1. i <= L /\ i \in 1..L
          BY <1>1, <3>2
        <4> QED
          BY <1>5, <4>1 DEF Within
      <3> QED
        BY <3>1, <3>2
    <2>2. m <= i
      BY <1>2, <2>1
    <2>3. ~(m < i)
      <3> SUFFICES ASSUME m < i
                   PROVE  FALSE
        OBVIOUS
      <3>1. m \in 1..L /\ i - 1 \in 1..L /\ m <= i - 1 /\ i > 1 /\ m # L + 1
        BY <1>1, <1>3
      <3>2. t < Bounds[m]
        BY <1>2, <3>1
      <3>3. t >= Bounds[i - 1]
        BY <1>5, <3>1 DEF Within
      <3>4. Bounds[m] <= Bounds[i - 1]
        BY <3>1, BoundsAscend
      <3>5. Bounds[m] \in Nat /\ Bounds[i - 1] \in Nat
        BY <1>1, <3>1
      <3> HIDE DEF m
      <3> QED
        BY <3>2, <3>3, <3>4, <3>5
    <2> HIDE DEF m
    <2> QED
      BY <1>1, <1>3, <2>2, <2>3
  <1> HIDE DEF m
  <1> QED
    BY <1>4, <1>5 DEF m

-----------------------------------------------------------------------------
(* The statistics at any moment.                                           *)

\* What ties the counters and the window to the results so far.
LInv ==
    /\ results \in Seq(Times \cup {Lost})
    /\ Selects(Selector(results), results)
    /\ Valid(results) \in Seq(Times)
    /\ Len(Valid(results)) <= Len(results)
    /\ counters = [total |-> Len(results), successful |-> Len(Valid(results)),
                timeouts |-> Len(results) - Len(Valid(results))]
    /\ window = LastOf(Valid(results), Window)

LEMMA NothingLast == <<>> \in Seq(Times) /\ LastOf(<<>>, Window) = <<>>
  <1>1. <<>> \in Seq(Times) /\ Window \in Nat /\ ~(Len(<<>>) > Window)
    BY SizesAssumption
  <1> QED
    BY <1>1 DEF LastOf

LEMMA LInvInit == results = <<>> /\ counters = Empty /\ window = <<>> => LInv
  <1> SUFFICES ASSUME results = <<>>, counters = Empty, window = <<>>
               PROVE  LInv
    OBVIOUS
  <1>1. Selects(Selector(results), results) /\ Valid(results) = <<>>
    BY ValidOfNone
  <1>2. <<>> \in Seq(Times) /\ LastOf(<<>>, Window) = <<>>
    BY NothingLast
  <1>3. <<>> \in Seq(Times \cup {Lost}) /\ Len(<<>>) = 0
    OBVIOUS
  <1>4. counters = [total |-> Len(results), successful |-> Len(Valid(results)),
                 timeouts |-> Len(results) - Len(Valid(results))]
    BY <1>1, <1>3 DEF Empty
  <1>5. /\ results \in Seq(Times \cup {Lost}) /\ Valid(results) \in Seq(Times)
        /\ Len(Valid(results)) <= Len(results)
        /\ window = LastOf(Valid(results), Window)
    <2>1. 0 <= 0
      OBVIOUS
    <2> QED
      BY <1>1, <1>2, <1>3, <2>1, Zenon
  <1> QED
    BY <1>1, <1>4, <1>5 DEF LInv

LEMMA LInvReset == ResetStats => LInv'
  <1> SUFFICES ASSUME ResetStats
               PROVE  LInv'
    OBVIOUS
  <1>1. results' = <<>> /\ counters' = Empty /\ window' = <<>>
    BY DEF ResetStats
  <1>2. /\ Selects(Selector(results'), results') /\ Valid(results') = <<>>
    BY <1>1, ValidOfNone
  <1>3. <<>> \in Seq(Times) /\ LastOf(<<>>, Window) = <<>>
    BY NothingLast
  <1>4. <<>> \in Seq(Times \cup {Lost}) /\ Len(<<>>) = 0
    OBVIOUS
  <1>5. counters' = [total |-> Len(results'), successful |-> Len(Valid(results')),
                  timeouts |-> Len(results') - Len(Valid(results'))]
    BY <1>1, <1>2, <1>4 DEF Empty
  <1>6. /\ results' \in Seq(Times \cup {Lost}) /\ Valid(results') \in Seq(Times)
        /\ Len(Valid(results')) <= Len(results')
        /\ window' = LastOf(Valid(results'), Window)
    <2>1. 0 <= 0
      OBVIOUS
    <2> QED
      BY <1>1, <1>2, <1>3, <1>4, <2>1, Zenon
  <1> QED
    BY <1>2, <1>5, <1>6 DEF LInv

LEMMA LInvCount == LInv /\ (\E l \in Times \cup {Lost} : CountResult(l)) => LInv'
  <1> SUFFICES ASSUME LInv, NEW l \in Times \cup {Lost}, CountResult(l)
               PROVE  LInv'
    OBVIOUS
  <1> DEFINE r == results
             u == results'
             v == Valid(r)
             n == Len(r)
             k == Len(v)
  <1>1. /\ r \in Seq(Times \cup {Lost}) /\ Selects(Selector(r), r)
        /\ v \in Seq(Times) /\ k <= n /\ window = LastOf(v, Window)
        /\ counters = [total |-> n, successful |-> k, timeouts |-> n - k]
    BY DEF LInv
  <1>2. /\ u = Append(r, l)
        /\ counters' = [counters EXCEPT !.total = @ + 1,
                                  !.successful = IF l = Lost THEN @ ELSE @ + 1,
                                  !.timeouts = IF l = Lost THEN @ + 1 ELSE @]
        /\ window' = IF l = Lost THEN window ELSE LastOf(Append(window, l), Window)
    BY DEF CountResult
  <1>3. /\ Times \cup {Lost} \subseteq Int /\ Lost \notin Times
        /\ l > 0 <=> l # Lost
    BY TimesAssumption DEF Lost
  <1>4. /\ u \in Seq(Times \cup {Lost}) /\ Len(u) = n + 1 /\ u[n + 1] = l
        /\ \A i \in 1..n : r[i] = u[i]
        /\ n \in Nat /\ k \in Nat
    BY <1>1, <1>2
  <1>5. r \in Seq(Int) /\ u \in Seq(Int)
    BY <1>1, <1>3, <1>4
  <1>6. /\ Selects(Selector(u), u)
        /\ Valid(u) = IF l > 0 THEN Append(v, l) ELSE v
    BY <1>1, <1>4, <1>5, ValidOfAppend
  <1> HIDE DEF r, u, v, n, k
  <1>7. CASE l = Lost
    <2>1. Valid(u) = v /\ window' = window
      BY <1>2, <1>3, <1>6, <1>7
    <2>2. counters' = [total |-> n + 1, successful |-> k, timeouts |-> n - k + 1]
      BY <1>1, <1>2, <1>7
    <2>3. k <= n + 1 /\ n - k + 1 = n + 1 - k
      BY <1>1, <1>4
    <2>4. /\ Valid(u) \in Seq(Times) /\ Len(Valid(u)) = k /\ Len(Valid(u)) <= Len(u)
          /\ window' = LastOf(Valid(u), Window)
          /\ counters' = [total |-> Len(u), successful |-> Len(Valid(u)),
                       timeouts |-> Len(u) - Len(Valid(u))]
      <3>1. Len(v) = k
        BY DEF k
      <3> QED
        BY <1>1, <1>4, <2>1, <2>2, <2>3, <3>1
    <2> QED
      BY <1>4, <1>6, <2>4 DEF LInv, u
  <1>8. CASE l # Lost
    <2>1. Valid(u) = Append(v, l) /\ window' = LastOf(Append(window, l), Window) /\ l \in Times
      BY <1>2, <1>3, <1>6, <1>8
    <2>2. counters' = [total |-> n + 1, successful |-> k + 1, timeouts |-> n - k]
      BY <1>1, <1>2, <1>8
    <2>3. Append(v, l) \in Seq(Times) /\ Len(Append(v, l)) = k + 1
      BY <1>1, <2>1 DEF k
    <2>4. k + 1 <= n + 1 /\ n - k = n + 1 - (k + 1)
      BY <1>1, <1>4
    <2>5. LastOf(Append(window, l), Window) = LastOf(Append(v, l), Window)
      BY <1>1, <2>1, SizesAssumption, LastOfAppend
    <2>6. /\ Valid(u) \in Seq(Times) /\ Len(Valid(u)) = k + 1 /\ Len(Valid(u)) <= Len(u)
          /\ window' = LastOf(Valid(u), Window)
          /\ counters' = [total |-> Len(u), successful |-> Len(Valid(u)),
                       timeouts |-> Len(u) - Len(Valid(u))]
      BY <1>4, <2>1, <2>2, <2>3, <2>4, <2>5
    <2> QED
      BY <1>4, <1>6, <2>6 DEF LInv, u
  <1> QED
    BY <1>7, <1>8

\* The counters and the window are those of the orders since the last start, in
\* every state (web_server.py:54-59, 183-197).
THEOREM CountersFollow == ReportsSpec => []LInv
  <1>1. ReportsInit => LInv
    BY LInvInit DEF ReportsInit
  <1>2. LInv /\ [ReportsNext]_rvars => LInv'
    <2> SUFFICES ASSUME LInv, [ReportsNext]_rvars
                 PROVE  LInv'
      OBVIOUS
    <2>1. CASE ResetStats
      BY <2>1, LInvReset
    <2>2. CASE \E l \in Times \cup {Lost} : CountResult(l)
      BY <2>2, LInvCount
    <2>3. CASE UNCHANGED rvars
      BY <2>3 DEF LInv, rvars
    <2> QED
      BY <2>1, <2>2, <2>3 DEF ReportsNext
  <1> QED
    BY <1>1, <1>2, PTL DEF ReportsSpec

-----------------------------------------------------------------------------
(* What is reported.                                                       *)

LEMMA TimesAreNatural == ASSUME NEW s \in Seq(Times) PROVE s \in Seq(Nat)
  <1>1. Len(s) \in Nat /\ s \in [1..Len(s) -> Times]
    OBVIOUS
  <1>2. s \in [1..Len(s) -> Nat]
    BY <1>1, TimesAssumption
  <1> QED
    BY <1>1, <1>2

\* What the dashboard sends.
LEMMA StatsFields ==
    /\ BuildStats.histogram = Histogram(window)
    /\ window # <<>> =>
         /\ BuildStats.lossRate = LossRate
         /\ BuildStats.low = Head(Ascending(window))
         /\ BuildStats.high = Last(Ascending(window))
         /\ BuildStats.p50 = Percentile(Ascending(window), 500)
         /\ BuildStats.p95 = Percentile(Ascending(window), 950)
         /\ BuildStats.p99 = Percentile(Ascending(window), 990)
  BY DEF BuildStats

\* A percentile of the sorted list splits the list it was made from.
LEMMA PercentileOfSorted ==
    ASSUME NEW s \in Seq(Nat), s # <<>>, NEW p \in 0..1000
    PROVE  Splits(s, p, Percentile(Ascending(s), p))
  <1> DEFINE n == Len(s)
             k == Place(n, p)
             t == Ascending(s)[k]
  <1>1. n \in Nat \ {0} /\ \A i \in 1..n : s[i] \in Nat
    OBVIOUS
  <1>2. k \in 1..n /\ k * 1000 >= n * p /\ (k - 1) * 1000 <= n * p
    <2>1. Cuts(n, p, k)
      BY <1>1, PlaceCuts
    <2> HIDE DEF n, k
    <2> QED
      BY <2>1 DEF Cuts
  <1>3. Percentile(Ascending(s), p) = t
    <2>1. Len(Ascending(s)) = n
      BY SortingRearranges
    <2> QED
      BY <2>1 DEF Percentile, Place
  <1>4. t \in Range(s) /\ Below(s, t) < k /\ k <= NotAbove(s, t)
    <2>1. k \in 1..Len(s)
      BY <1>2
    <2> HIDE DEF k, n
    <2> QED
      BY <2>1, SortedAt
  <1>5. t \in Nat
    <2> HIDE DEF t
    <2> QED
      BY <1>1, <1>4 DEF Range
  <1>6. Below(s, t) \in 0..n /\ NotAbove(s, t) \in 0..n
    <2> HIDE DEF t
    <2> QED
      BY <1>5, Counts
  <1>7. n * p \in Nat
    OBVIOUS
  <1> DEFINE m == n * p
             b == Below(s, t)
             c == NotAbove(s, t)
  <1> HIDE DEF n, k, t
  <1>8. c * 1000 >= m /\ b * 1000 <= m
    <2>1. /\ m \in Nat /\ k \in 1..n /\ k * 1000 >= m /\ (k - 1) * 1000 <= m
          /\ b \in 0..n /\ c \in 0..n /\ b < k /\ k <= c /\ n \in Nat
      BY <1>1, <1>2, <1>4, <1>6, <1>7
    <2> HIDE DEF m, b, c
    <2> QED
      BY <2>1
  <1> QED
    BY <1>3, <1>8 DEF Splits, n

\* The ends of the sorted list are the extremes of the list.
LEMMA ExtremesOfSorted ==
    ASSUME NEW s \in Seq(Nat), s # <<>>
    PROVE  /\ Head(Ascending(s)) \in Range(s) /\ Last(Ascending(s)) \in Range(s)
           /\ \A i \in DOMAIN s : Head(Ascending(s)) <= s[i] /\ s[i] <= Last(Ascending(s))
  <1> DEFINE n == Len(s)
             a == Ascending(s)
  <1>1. n \in Nat \ {0} /\ DOMAIN s = 1..n /\ \A i \in 1..n : s[i] \in Nat
    OBVIOUS
  <1>2. a \in Seq(Nat) /\ Len(a) = n
    BY SortingRearranges
  <1>3. Head(a) = a[1] /\ Last(a) = a[n] /\ 1 \in 1..n /\ n \in 1..n
    <2> HIDE DEF a
    <2> QED
      BY <1>1, <1>2 DEF Last
  <1>4. /\ a[1] \in Range(s) /\ Below(s, a[1]) < 1
        /\ a[n] \in Range(s) /\ n <= NotAbove(s, a[n])
    <2>1. 1 \in 1..Len(s) /\ n \in 1..Len(s)
      BY <1>1
    <2> HIDE DEF n
    <2> QED
      BY <2>1, SortedAt
  <1>5. a[1] \in Nat /\ a[n] \in Nat
    <2> HIDE DEF a
    <2> QED
      BY <1>1, <1>2, <1>3, ElementOfSeq
  <1>6. ASSUME NEW i \in 1..n
        PROVE  a[1] <= s[i] /\ s[i] <= a[n]
    <2>1. /\ s[i] < a[1] => NotAbove(s, s[i]) <= Below(s, a[1])
          /\ a[n] < s[i] => NotAbove(s, a[n]) <= Below(s, s[i])
      BY <1>1, <1>5, Counts
    <2>2. Below(s, s[i]) < NotAbove(s, s[i])
      BY Counts
    <2>3. /\ NotAbove(s, s[i]) \in 0..n /\ Below(s, a[1]) \in 0..n
          /\ NotAbove(s, a[n]) \in 0..n /\ Below(s, s[i]) \in 0..n
      BY <1>1, <1>5, Counts
    <2>4. s[i] \in Nat
      BY <1>1
    <2> HIDE DEF a, n
    <2> QED
      BY <1>1, <1>4, <1>5, <2>1, <2>2, <2>3, <2>4
  <1> QED
    BY <1>1, <1>3, <1>4, <1>6

\* Each answer of the window is counted in the bucket it lies in.
LEMMA HistogramCounts ==
    ASSUME NEW w \in Seq(Nat), NEW i \in 1..(Len(Bounds) + 1)
    PROVE  Histogram(w)[i] = Cardinality({j \in DOMAIN w : Within(w[j], i)})
  <1>1. \A j \in DOMAIN w : Bucket(w[j]) = i <=> Within(w[j], i)
    <2>1. \A j \in DOMAIN w : w[j] \in Nat
      OBVIOUS
    <2> QED
      BY <2>1, BucketWithin
  <1>2. {j \in DOMAIN w : Bucket(w[j]) = i} = {j \in DOMAIN w : Within(w[j], i)}
    BY <1>1
  <1> QED
    BY <1>2 DEF Histogram

LEMMA LInvTruthful == LInv => StatsTruthful
  <1> SUFFICES ASSUME LInv
               PROVE  StatsTruthful
    OBVIOUS
  <1> DEFINE v == Valid(results)
             w == LastOf(v, Window)
             n == Len(results)
             lost == n - Len(v)
  <1>1. /\ results \in Seq(Times \cup {Lost}) /\ v \in Seq(Times) /\ Len(v) <= n
        /\ counters = [total |-> n, successful |-> Len(v), timeouts |-> lost]
        /\ window = w
    BY DEF LInv
  <1>2. n \in Nat /\ Len(v) \in Nat /\ lost \in 0..n /\ (v # <<>> => n # 0)
    <2> HIDE DEF v
    <2> QED
      BY <1>1
  <1>3. w \in Seq(Times) /\ (w = <<>> <=> v = <<>>)
    <2> HIDE DEF v
    <2> QED
      BY <1>1, SizesAssumption, LastOfType
  <1>4. w \in Seq(Nat)
    <2> HIDE DEF w
    <2> QED
      BY <1>3, TimesAreNatural
  <1> HIDE DEF v, w, n, lost
  <1>5. ASSUME v # <<>>
        PROVE  2 * Abs(BuildStats.lossRate * n - 10000 * lost) <= n
    <2>1. BuildStats.lossRate = LossRate
      BY <1>1, <1>3, <1>5, StatsFields
    <2>2. counters.timeouts = lost /\ counters.total = n /\ n \in Nat \ {0}
      BY <1>1, <1>2, <1>5
    <2>3. Max({n, 1}) = n
      <3> DEFINE N == {n, 1}
      <3>1. n \in N /\ \A y \in N : y <= n
        BY <2>2
      <3>2. \A x \in N : (\A y \in N : y <= x) => x = n
        BY <2>2
      <3>3. Max(N) = CHOOSE x \in N : \A y \in N : x >= y
        BY DEF Max
      <3>4. \A x, y \in N : x >= y <=> y <= x
        BY <2>2
      <3> HIDE DEF N
      <3> QED
        BY <3>1, <3>2, <3>3, <3>4 DEF N
    <2>4. LossRate = ((lost * 20000) \div n + 1) \div 2
      BY <2>2, <2>3 DEF LossRate
    <2> QED
      BY <1>2, <2>1, <2>2, <2>4, RateRounds
  <1>7. ASSUME w # <<>>
        PROVE  /\ {BuildStats.low, BuildStats.high} \subseteq Range(w)
               /\ \A i \in DOMAIN w : BuildStats.low <= w[i] /\ w[i] <= BuildStats.high
               /\ Splits(w, 500, BuildStats.p50)
               /\ Splits(w, 950, BuildStats.p95)
               /\ Splits(w, 990, BuildStats.p99)
    <2>1. /\ BuildStats.low = Head(Ascending(w)) /\ BuildStats.high = Last(Ascending(w))
          /\ BuildStats.p50 = Percentile(Ascending(w), 500)
          /\ BuildStats.p95 = Percentile(Ascending(w), 950)
          /\ BuildStats.p99 = Percentile(Ascending(w), 990)
      BY <1>1, <1>7, StatsFields
    <2>2. /\ BuildStats.low \in Range(w) /\ BuildStats.high \in Range(w)
          /\ \A i \in DOMAIN w : BuildStats.low <= w[i] /\ w[i] <= BuildStats.high
      BY <1>4, <1>7, <2>1, ExtremesOfSorted
    <2>3. 500 \in 0..1000 /\ 950 \in 0..1000 /\ 990 \in 0..1000
      OBVIOUS
    <2>4. /\ Splits(w, 500, BuildStats.p50)
          /\ Splits(w, 950, BuildStats.p95)
          /\ Splits(w, 990, BuildStats.p99)
      BY <1>4, <1>7, <2>1, <2>3, PercentileOfSorted
    <2> QED
      BY <2>2, <2>4
  <1>8. \A i \in 1..(Len(Bounds) + 1) :
          BuildStats.histogram[i] = Cardinality({j \in DOMAIN w : Within(w[j], i)})
    <2>1. BuildStats.histogram = Histogram(w)
      BY <1>1, StatsFields
    <2>2. \A i \in 1..(Len(Bounds) + 1) :
            Histogram(w)[i] = Cardinality({j \in DOMAIN w : Within(w[j], i)})
      BY <1>4, HistogramCounts
    <2> QED
      BY <2>1, <2>2, Zenon
  <1>9. /\ counters = [total |-> n, successful |-> Len(v), timeouts |-> lost]
        /\ v # <<>> => 2 * Abs(BuildStats.lossRate * n - 10000 * lost) <= n
    BY <1>1, <1>5
  <1> QED
    <2> DEFINE A == /\ {BuildStats.low, BuildStats.high} \subseteq Range(w)
                    /\ \A i \in DOMAIN w : BuildStats.low <= w[i] /\ w[i] <= BuildStats.high
                    /\ Splits(w, 500, BuildStats.p50)
                    /\ Splits(w, 950, BuildStats.p95)
                    /\ Splits(w, 990, BuildStats.p99)
               B == \A i \in 1..(Len(Bounds) + 1) :
                      BuildStats.histogram[i] = Cardinality({j \in DOMAIN w : Within(w[j], i)})
               C == counters = [total |-> n, successful |-> Len(v), timeouts |-> lost]
               E == v # <<>> => 2 * Abs(BuildStats.lossRate * n - 10000 * lost) <= n
    <2>1. w # <<>> => A
      BY <1>7, Zenon
    <2>2. B
      BY <1>8
    <2>3. C /\ E
      BY <1>9
    <2> USE DEF v, w, n, lost
    <2>4. StatsTruthful <=> C /\ E /\ (w # <<>> => A) /\ B
      BY DEF StatsTruthful, LossShown
    <2> HIDE DEF A, B, C, E
    <2> QED
      BY <2>1, <2>2, <2>3, <2>4

\* What the dashboard shows is true of the orders since the last start: the counters,
\* and once one of them was answered the loss rate, extremes and percentiles of the
\* last answers and the bucket of each (web_server.py:84-139).
THEOREM StatisticsTruthful == ReportsSpec => []StatsTruthful
  BY CountersFollow, LInvTruthful, PTL

\* Half of the list is the index of the median.
LEMMA MedianPlaces ==
    ASSUME NEW n \in Nat \ {0}
    PROVE  /\ (n + 1) \div 2 \in 1..n
           /\ n \div 2 + 1 \in 1..n
           /\ (n + 1) \div 2 <= n \div 2 + 1
           /\ Place(n, 500) = n \div 2 + 1
  <1>1. (n * 500) \div 1000 = n \div 2
    OBVIOUS
  <1>2. n \div 2 < n
    OBVIOUS
  <1>3. Place(n, 500) = n \div 2 + 1
    BY <1>1, <1>2 DEF Place
  <1> QED
    BY <1>3

LEMMA LInvAgree == LInv => ReportsAgree
  <1> SUFFICES ASSUME LInv
               PROVE  ReportsAgree
    OBVIOUS
  <1> DEFINE v == Valid(results)
             s == Ascending(v)
             n == Len(s)
  <1>1. v \in Seq(Nat) /\ window = LastOf(v, Window)
    <2>1. v \in Seq(Times) /\ window = LastOf(v, Window)
      BY DEF LInv
    <2> HIDE DEF v
    <2> QED
      BY <2>1, TimesAreNatural
  <1>2. s \in Seq(Nat) /\ Len(s) = Len(v) /\ IsAscending(s)
    <2> HIDE DEF v
    <2> QED
      BY <1>1, SortingRearranges
  <1> HIDE DEF s, v
  <1>3. s \in Seq(Int)
    BY <1>2
  <1> SUFFICES ASSUME s # <<>>
               PROVE  /\ 2 * Head(s) <= TwiceMedian(s) /\ TwiceMedian(s) <= 2 * Percentile(s, 500)
                      /\ \A p, q \in Reported : p <= q => Percentile(s, p) <= Percentile(s, q)
                      /\ Percentile(s, 999) <= Last(s)
                      /\ ServerP99(s) = Percentile(s, 990)
                      /\ Len(s) <= Window => BuildStats.p99 = ServerP99(s)
    BY Zenon DEF ReportsAgree, s, v
  <1>4. n \in Nat \ {0} /\ \A i \in 1..n : s[i] \in Nat
    BY <1>2
  <1>5. 2 * Head(s) <= TwiceMedian(s) /\ TwiceMedian(s) <= 2 * Percentile(s, 500)
    <2> DEFINE i == (n + 1) \div 2
               j == n \div 2 + 1
    <2>1. i \in 1..n /\ j \in 1..n /\ i <= j /\ Place(n, 500) = j
      <3> HIDE DEF n
      <3> QED
        BY <1>4, MedianPlaces
    <2>2. TwiceMedian(s) = s[i] + s[j] /\ Head(s) = s[1]
      BY <1>2 DEF TwiceMedian
    <2>3. Percentile(s, 500) = s[j]
      <3>1. Percentile(s, 500) = s[Place(n, 500)]
        BY DEF Percentile, Place
      <3> HIDE DEF n, j
      <3> QED
        BY <2>1, <3>1
    <2> HIDE DEF i, j
    <2>4. 1 \in 1..n /\ 1 <= i
      BY <1>4, <2>1
    <2>5. s[1] <= s[i] /\ s[i] <= s[j]
      BY <1>2, <2>1, <2>4 DEF IsAscending
    <2>6. s[1] \in Nat /\ s[i] \in Nat /\ s[j] \in Nat
      BY <1>4, <2>1, <2>4
    <2> HIDE DEF n
    <2> QED
      BY <2>2, <2>3, <2>5, <2>6
  <1>6. ASSUME NEW p \in Reported, NEW q \in Reported, p <= q
        PROVE  Percentile(s, p) <= Percentile(s, q)
    <2>1. p \in 0..1000 /\ q \in 0..1000
      BY DEF Reported
    <2> QED
      BY <1>2, <1>3, <1>6, <2>1, PercentilesOrdered, ZenonT(60)
  <1>7. Percentile(s, 999) <= Last(s)
    <2> DEFINE k == Place(n, 999)
    <2>1. k \in 1..n
      <3>1. Cuts(n, 999, k)
        BY <1>4, PlaceCuts
      <3> HIDE DEF n, k
      <3> QED
        BY <3>1 DEF Cuts
    <2>2. Percentile(s, 999) = s[k]
      BY DEF Percentile, Place
    <2> HIDE DEF k
    <2>3. n \in 1..n /\ k <= n
      BY <1>4, <2>1
    <2>4. s[k] <= s[n]
      BY <1>2, <2>1, <2>3 DEF IsAscending
    <2> QED
      BY <2>2, <2>4 DEF Last
  <1>8. ServerP99(s) = Percentile(s, 990)
    BY <1>3, ServerP99Agrees
  <1>9. ASSUME Len(s) <= Window
        PROVE  BuildStats.p99 = ServerP99(s)
    <2>1. Len(v) <= Window /\ v # <<>>
      <3>1. Len(v) = n /\ n # 0
        BY <1>2, <1>4
      <3>2. Len(<<>>) = 0
        OBVIOUS
      <3> QED
        BY <1>9, <3>1, <3>2
    <2>2. window = v
      BY <1>1, <2>1, SizesAssumption, LastOfType
    <2>3. BuildStats.p99 = Percentile(Ascending(v), 990)
      BY <2>1, <2>2, StatsFields
    <2> QED
      BY <1>8, <2>3 DEF s
  <1> QED
    BY <1>5, <1>6, <1>7, <1>8, <1>9

\* The benchmark, the dashboard and the server report the same of the same times,
\* and the benchmark's columns are in order, whatever the orders took
\* (utils.py:55-92, web_server.py:97-98, handler.py:200).
THEOREM ProgramsAgree == ReportsSpec => []ReportsAgree
  BY CountersFollow, LInvAgree, PTL
=============================================================================

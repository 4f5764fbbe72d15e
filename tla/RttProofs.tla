------------------------------ MODULE RttProofs ------------------------------
(***************************************************************************)
(* Proofs about RttBenchmark, for any number of orders and of separators:  *)
(* what the recorded times are times of.                                   *)
(***************************************************************************)
EXTENDS RttBenchmark, SumLemmas

-----------------------------------------------------------------------------
(* Sequences of responses.                                                 *)

\* A piece of a response to some of the first n orders.
PieceUpTo(n) == [of : SUBSET (1..n), bars : 1..Bars]
ResultUpTo(n) == [kind : {"rtt", "eof", "timeout", "error"},
                  answer : SUBSET SUBSET (1..n)]

LEMMA RemoveAtElements ==
    ASSUME NEW S, NEW s \in Seq(S), NEW i \in 1..Len(s)
    PROVE  /\ RemoveAt(s, i) \in Seq(S)
           /\ Len(RemoveAt(s, i)) = Len(s) - 1
           /\ \A j \in 1..(Len(s) - 1) :
                 RemoveAt(s, i)[j] = IF j < i THEN s[j] ELSE s[j + 1]
<1> DEFINE a == SubSeq(s, 1, i - 1)
           b == SubSeq(s, i + 1, Len(s))
<1>1. Len(s) \in Nat /\ i \in Int
  BY LenProperties
<1>2. /\ a \in Seq(S) /\ Len(a) = i - 1
      /\ \A j \in 1..(i - 1) : a[j] = s[j]
  <2>1. \A j \in 1..(i - 1) : s[j] \in S
    BY <1>1, ElementOfSeq
  <2> QED
    BY <1>1, <2>1, SubSeqProperties
<1>3. /\ b \in Seq(S) /\ Len(b) = Len(s) - i
      /\ \A j \in 1..(Len(s) - i) : b[j] = s[j + i]
  <2>1. \A j \in (i + 1)..Len(s) : s[j] \in S
    BY <1>1, ElementOfSeq
  <2>2. /\ b \in Seq(S) /\ Len(b) = IF i + 1 <= Len(s) THEN Len(s) - (i + 1) + 1 ELSE 0
        /\ \A j \in 1..(Len(s) - (i + 1) + 1) : b[j] = s[(i + 1) + j - 1]
    <3>1. PICK m \in Int, n \in Int : m = i + 1 /\ n = Len(s)
      BY <1>1
    <3>2. /\ SubSeq(s, m, n) \in Seq(S)
          /\ Len(SubSeq(s, m, n)) = IF m <= n THEN n - m + 1 ELSE 0
          /\ \A j \in 1..(n - m + 1) : SubSeq(s, m, n)[j] = s[m + j - 1]
      BY <2>1, <3>1, SubSeqProperties
    <3> QED
      BY <3>1, <3>2
  <2> HIDE DEF b
  <2> QED
    BY <1>1, <2>2
<1> HIDE DEF a, b
<1>4. /\ a \o b \in Seq(S) /\ Len(a \o b) = Len(a) + Len(b)
      /\ \A j \in 1..(Len(a) + Len(b)) :
            (a \o b)[j] = IF j <= Len(a) THEN a[j] ELSE b[j - Len(a)]
  BY <1>2, <1>3, ConcatProperties
<1>5. RemoveAt(s, i) = a \o b
  BY DEF RemoveAt, a, b
<1>6. ASSUME NEW j \in 1..(Len(s) - 1)
      PROVE  (a \o b)[j] = IF j < i THEN s[j] ELSE s[j + 1]
  <2>1. CASE j < i
    BY <2>1, <1>1, <1>2, <1>3, <1>4
  <2>2. CASE ~(j < i)
    <3>1. (a \o b)[j] = b[j - (i - 1)]
      BY <2>2, <1>1, <1>2, <1>3, <1>4
    <3>2. j - (i - 1) \in 1..(Len(s) - i)
      BY <2>2, <1>1
    <3>3. (j - (i - 1)) + i = j + 1
      BY <1>1
    <3> QED
      BY <2>2, <3>1, <3>2, <3>3, <1>3
  <2> QED
    BY <2>1, <2>2
<1>7. Len(a \o b) = Len(s) - 1
  BY <1>1, <1>2, <1>3, <1>4
<1> QED
  BY <1>4, <1>5, <1>6, <1>7

LEMMA AppendElements ==
    ASSUME NEW S, NEW s \in Seq(S), NEW e \in S
    PROVE  /\ Append(s, e) \in Seq(S) /\ Len(Append(s, e)) = Len(s) + 1
           /\ \A j \in 1..Len(s) : Append(s, e)[j] = s[j]
           /\ Append(s, e)[Len(s) + 1] = e
OBVIOUS

\* What is left when the first n are taken.
LEMMA DropElements ==
    ASSUME NEW S, NEW s \in Seq(S), NEW n \in 0..Len(s)
    PROVE  /\ SubSeq(s, n + 1, Len(s)) \in Seq(S)
           /\ Len(SubSeq(s, n + 1, Len(s))) = Len(s) - n
           /\ \A j \in 1..(Len(s) - n) : SubSeq(s, n + 1, Len(s))[j] = s[j + n]
<1> DEFINE b == SubSeq(s, n + 1, Len(s))
<1>1. Len(s) \in Nat /\ n \in Int
  BY LenProperties
<1>2. \A j \in (n + 1)..Len(s) : s[j] \in S
  BY <1>1, ElementOfSeq
<1>3. /\ b \in Seq(S) /\ Len(b) = IF n + 1 <= Len(s) THEN Len(s) - (n + 1) + 1 ELSE 0
      /\ \A j \in 1..(Len(s) - (n + 1) + 1) : b[j] = s[(n + 1) + j - 1]
  <2>1. PICK m \in Int, k \in Int : m = n + 1 /\ k = Len(s)
    BY <1>1
  <2>2. /\ SubSeq(s, m, k) \in Seq(S)
        /\ Len(SubSeq(s, m, k)) = IF m <= k THEN k - m + 1 ELSE 0
        /\ \A j \in 1..(k - m + 1) : SubSeq(s, m, k)[j] = s[m + j - 1]
    BY <1>2, <2>1, SubSeqProperties
  <2> QED
    BY <2>1, <2>2
<1> HIDE DEF b
<1>4. /\ b \in Seq(S) /\ Len(b) = Len(s) - n
      /\ \A j \in 1..(Len(s) - n) : b[j] = s[j + n]
  BY <1>1, <1>3
<1> QED
  BY <1>4 DEF b

LEMMA NoSeparators == Separators(<<>>) = 0
<1>1. DOMAIN [i \in DOMAIN <<>> |-> <<>>[i].bars] = {}
  OBVIOUS
<1> QED
  BY <1>1, SumOfNone DEF Separators

LEMMA SeparatorsNat ==
    ASSUME NEW n, NEW s \in Seq(PieceUpTo(n))
    PROVE  Separators(s) \in Nat
<1> DEFINE f == [i \in DOMAIN s |-> s[i].bars]
<1>1. PICK L \in Nat : L = Len(s) /\ DOMAIN s = 1..L
  BY LenProperties
<1>2. \A i \in 1..L : s[i].bars \in Nat
  <2>1. \A i \in 1..L : s[i] \in PieceUpTo(n)
    BY <1>1, ElementOfSeq
  <2> QED
    BY <2>1, CountsAssumption DEF PieceUpTo
<1>3. DOMAIN f = 1..L /\ \A i \in 1..L : f[i] \in Nat /\ f[i] \in Int
  BY <1>1, <1>2
<1> HIDE DEF f
<1>4. SumOver(f, 1..L) \in Nat
  <2>1. IsFiniteSet(1..L)
    BY FS_Interval
  <2>2. (\A x \in 1..L : f[x] \in Nat) => SumOver(f, 1..L) \in Nat
    BY <1>3, <2>1, SumType
  <2> QED
    BY <1>3, <2>2
<1> QED
  BY <1>3, <1>4, Zenon DEF Separators, f, SumFunction, SumOver

LEMMA SeparatorsAppend ==
    ASSUME NEW n, NEW s \in Seq(PieceUpTo(n)), NEW p \in PieceUpTo(n)
    PROVE  Separators(Append(s, p)) = Separators(s) + p.bars
<1> DEFINE u == Append(s, p)
           f == [i \in DOMAIN s |-> s[i].bars]
           g == [i \in DOMAIN u |-> u[i].bars]
<1>1. PICK L \in Nat : L = Len(s) /\ DOMAIN s = 1..L
  BY LenProperties
<1>2. /\ u \in Seq(PieceUpTo(n)) /\ Len(u) = L + 1
      /\ \A i \in 1..L : u[i] = s[i]
      /\ u[L + 1] = p
  BY <1>1, AppendElements
<1>3. DOMAIN u = 1..(L + 1)
  BY <1>2, LenProperties
<1>4. \A i \in 1..(L + 1) : u[i].bars \in Int
  <2>1. \A i \in 1..(L + 1) : u[i] \in PieceUpTo(n)
    BY <1>2, ElementOfSeq
  <2>2. \A x \in PieceUpTo(n) : x.bars \in Int
    BY CountsAssumption DEF PieceUpTo
  <2> QED
    BY <2>1, <2>2, Zenon
<1> HIDE DEF u
<1>5. f \in [1..L -> Int] /\ g \in [1..(L + 1) -> Int] /\ \A i \in 1..L : g[i] = f[i]
  BY <1>1, <1>2, <1>3, <1>4
<1>6. g[L + 1] = p.bars
  BY <1>2, <1>3
<1> HIDE DEF f, g
<1>7. SumFunction(g) = SumFunction(f) + g[L + 1]
  BY <1>5, SumAppend
<1> QED
  BY <1>6, <1>7, Zenon DEF Separators, u, f, g

-----------------------------------------------------------------------------
(* The variables' types, and what the steps that change a sequence do to it. *)

LEMMA TypeFacts ==
    ASSUME TypeOK
    PROVE  /\ sent \in Nat /\ Bars \in Nat /\ Bars >= 1
           /\ requests \in Seq(1..sent) /\ Len(requests) \in Nat
           /\ flying \in Seq(PieceUpTo(sent)) /\ Len(flying) \in Nat
           /\ inbox \in Seq(PieceUpTo(sent)) /\ Len(inbox) \in Nat
           /\ results \in Seq(ResultUpTo(sent)) /\ Len(results) \in Nat
           /\ data.of \in SUBSET SUBSET (1..sent) /\ data.bars \in 0..(Bars - 1)
           /\ data = [of |-> data.of, bars |-> data.bars]
           /\ tails \subseteq {"flying", "inbox"}
<1>1. sent \in Nat /\ Bars \in Nat /\ Bars >= 1
  BY CountsAssumption DEF TypeOK
<1>2. /\ requests \in Seq(1..sent)
      /\ flying \in Seq(PieceUpTo(sent))
      /\ inbox \in Seq(PieceUpTo(sent))
      /\ results \in Seq(ResultUpTo(sent))
  BY Zenon DEF TypeOK, Orders, PieceUpTo, ResultUpTo
<1>3. /\ Len(requests) \in Nat /\ Len(flying) \in Nat /\ Len(inbox) \in Nat
      /\ Len(results) \in Nat
  BY <1>2, LenProperties
<1>4. data \in [of : SUBSET SUBSET (1..sent), bars : 0..(Bars - 1)]
      /\ tails \subseteq {"flying", "inbox"}
  BY Zenon DEF TypeOK, Orders
<1> QED
  BY <1>1, <1>2, <1>3, <1>4

LEMMA DeliverFacts ==
    ASSUME TypeOK, NEW i \in 1..Len(flying), NEW bars \in 1..flying[i].bars,
           Deliver(i, bars)
    PROVE  /\ UNCHANGED <<program, protocol, phase, sent, waiting, requests, data,
                          server, results>>
           /\ flying[i] \in PieceUpTo(sent) /\ bars \in 1..Bars
           /\ protocol = "tcp" => i = 1
           /\ protocol = "udp" => bars = Bars /\ UNCHANGED tails
           /\ tails' \subseteq {"flying", "inbox"}
           /\ inbox' \in Seq(PieceUpTo(sent)) /\ Len(inbox') = Len(inbox) + 1
           /\ \A j \in 1..Len(inbox) : inbox'[j] = inbox[j]
           /\ inbox'[Len(inbox) + 1] = Piece(flying[i].of, bars)
           /\ Separators(inbox') = Separators(inbox) + bars
           /\ flying' \in Seq(PieceUpTo(sent))
           /\ \/ /\ bars = flying[i].bars
                 /\ Len(flying') = Len(flying) - 1
                 /\ \A j \in 1..(Len(flying) - 1) :
                       flying'[j] = IF j < i THEN flying[j] ELSE flying[j + 1]
              \/ /\ bars < flying[i].bars
                 /\ Len(flying') = Len(flying)
                 /\ \A j \in 1..Len(flying) : j # i => flying'[j] = flying[j]
                 /\ flying'[i] = Piece(flying[i].of, flying[i].bars - bars)
<1>1. /\ sent \in Nat /\ Bars \in Nat /\ Bars >= 1
      /\ flying \in Seq(PieceUpTo(sent)) /\ Len(flying) \in Nat
      /\ inbox \in Seq(PieceUpTo(sent)) /\ Len(inbox) \in Nat
  BY TypeFacts
<1>2. /\ flying[i] \in PieceUpTo(sent) /\ flying[i].of \in SUBSET (1..sent)
      /\ flying[i].bars \in 1..Bars
  <2>1. flying[i] \in PieceUpTo(sent)
    BY <1>1, ElementOfSeq
  <2> QED
    BY <2>1, Zenon DEF PieceUpTo
<1>3. bars \in 1..Bars /\ bars <= flying[i].bars
  BY <1>1, <1>2
<1>10. /\ protocol = "udp" => UNCHANGED tails
       /\ tails' \subseteq {"flying", "inbox"}
  BY TypeFacts DEF Deliver
<1> DEFINE p == Piece(flying[i].of, bars)
           q == Piece(flying[i].of, flying[i].bars - bars)
<1>4. p \in PieceUpTo(sent) /\ p.bars = bars
  BY <1>2, <1>3 DEF Piece, PieceUpTo
<1>5. inbox' = Append(inbox, p)
  BY DEF Deliver
<1> HIDE DEF p
<1>6. /\ inbox' \in Seq(PieceUpTo(sent)) /\ Len(inbox') = Len(inbox) + 1
      /\ \A j \in 1..Len(inbox) : inbox'[j] = inbox[j]
      /\ inbox'[Len(inbox) + 1] = p
  BY <1>1, <1>4, <1>5, AppendElements
<1>7. Separators(inbox') = Separators(inbox) + bars
  <2>1. Separators(Append(inbox, p)) = Separators(inbox) + p.bars
    BY <1>1, <1>4, SeparatorsAppend
  <2> QED
    BY <2>1, <1>4, <1>5
<1>8. CASE bars = flying[i].bars
  <2>1. flying' = RemoveAt(flying, i)
    BY <1>8 DEF Deliver
  <2>2. /\ flying' \in Seq(PieceUpTo(sent)) /\ Len(flying') = Len(flying) - 1
        /\ \A j \in 1..(Len(flying) - 1) :
                       flying'[j] = IF j < i THEN flying[j] ELSE flying[j + 1]
    BY <1>1, <2>1, RemoveAtElements
  <2> QED
    BY <1>2, <1>3, <1>6, <1>7, <1>8, <1>10, <2>2 DEF p, Deliver
<1>9. CASE bars # flying[i].bars
  <2>1. q \in PieceUpTo(sent)
    BY <1>1, <1>2, <1>3, <1>9 DEF Piece, PieceUpTo
  <2>2. flying' = [flying EXCEPT ![i] = q]
    <3>1. flying' = [flying EXCEPT ![i].bars = @ - bars]
      BY <1>9 DEF Deliver
    <3>2. [flying[i] EXCEPT !.bars = flying[i].bars - bars] = q
      BY <1>2 DEF Piece, PieceUpTo
    <3> QED
      BY <3>1, <3>2
  <2> HIDE DEF q
  <2>3. /\ flying' \in Seq(PieceUpTo(sent)) /\ Len(flying') = Len(flying)
        /\ \A j \in 1..Len(flying) : flying'[j] = IF j = i THEN q ELSE flying[j]
    BY <1>1, <2>1, <2>2, ExceptSeq
  <2>4. bars < flying[i].bars
    BY <1>2, <1>3, <1>9
  <2> QED
    BY <1>2, <1>3, <1>6, <1>7, <1>10, <2>3, <2>4 DEF p, q, Deliver
<1> QED
  BY <1>8, <1>9

LEMMA ServeFacts ==
    ASSUME TypeOK, NEW n \in 1..Len(requests), Serve(n)
    PROVE  LET new == Piece({requests[j] : j \in 1..n}, Bars)
           IN  /\ UNCHANGED <<program, protocol, phase, sent, waiting, inbox, tails, data,
                              server, results>>
               /\ new \in PieceUpTo(sent)
               /\ flying' \in Seq(PieceUpTo(sent)) /\ Len(flying') = Len(flying) + 1
               /\ \A j \in 1..Len(flying) : flying'[j] = flying[j]
               /\ flying'[Len(flying) + 1] = new
               /\ requests' \in Seq(1..sent) /\ Len(requests') = Len(requests) - n
               /\ \A j \in 1..(Len(requests) - n) : requests'[j] = requests[j + n]
<1>1. /\ sent \in Nat /\ Bars \in Nat /\ Bars >= 1
      /\ flying \in Seq(PieceUpTo(sent)) /\ requests \in Seq(1..sent)
      /\ Len(requests) \in Nat
  BY TypeFacts
<1> DEFINE new == Piece({requests[j] : j \in 1..n}, Bars)
<1>2. new \in PieceUpTo(sent)
  <2>1. \A j \in 1..n : requests[j] \in 1..sent
    BY <1>1, ElementOfSeq
  <2> QED
    BY <1>1, <2>1 DEF Piece, PieceUpTo
<1>3. flying' = Append(flying, new) /\ requests' = SubSeq(requests, n + 1, Len(requests))
  BY DEF Serve
<1> HIDE DEF new
<1>4. /\ flying' \in Seq(PieceUpTo(sent)) /\ Len(flying') = Len(flying) + 1
      /\ \A j \in 1..Len(flying) : flying'[j] = flying[j]
      /\ flying'[Len(flying) + 1] = new
  BY <1>1, <1>2, <1>3, AppendElements
<1>5. n \in 0..Len(requests)
  OBVIOUS
<1>6. /\ requests' \in Seq(1..sent) /\ Len(requests') = Len(requests) - n
      /\ \A j \in 1..(Len(requests) - n) : requests'[j] = requests[j + n]
  BY <1>1, <1>3, <1>5, DropElements
<1>7. UNCHANGED <<program, protocol, phase, sent, waiting, inbox, tails, data, server, results>>
  BY DEF Serve
<1> QED
  BY <1>2, <1>4, <1>6, <1>7 DEF new

LEMMA LoseFacts ==
    ASSUME TypeOK, NEW i \in 1..Len(flying), Lose(i)
    PROVE  /\ UNCHANGED <<program, protocol, phase, sent, waiting, requests, inbox, tails,
                          data, server, results>>
           /\ protocol = "udp"
           /\ flying' \in Seq(PieceUpTo(sent)) /\ Len(flying') = Len(flying) - 1
           /\ \A j \in 1..(Len(flying) - 1) :
                 flying'[j] = IF j < i THEN flying[j] ELSE flying[j + 1]
<1>1. flying \in Seq(PieceUpTo(sent))
  BY TypeFacts
<1>2. flying' = RemoveAt(flying, i)
  BY DEF Lose
<1>3. /\ flying' \in Seq(PieceUpTo(sent)) /\ Len(flying') = Len(flying) - 1
      /\ \A j \in 1..(Len(flying) - 1) :
            flying'[j] = IF j < i THEN flying[j] ELSE flying[j + 1]
  BY <1>1, <1>2, RemoveAtElements
<1> QED
  BY <1>3 DEF Lose

\* An order gets its result.
Concluded(kind, answer) ==
    /\ results' \in Seq(ResultUpTo(sent)) /\ Len(results') = Len(results) + 1
    /\ \A j \in 1..Len(results) : results'[j] = results[j]
    /\ results'[Len(results) + 1].kind = kind
    /\ results'[Len(results) + 1].answer = answer
    /\ waiting' = FALSE
    /\ data' = NoData /\ tails' \subseteq tails
    /\ UNCHANGED <<todo, saved, protocol, sent, requests, flying, server>>

LEMMA ConcludedFacts ==
    ASSUME TypeOK, NEW kind \in {"rtt", "eof", "timeout", "error"},
           NEW answer \in SUBSET SUBSET (1..sent),
           results' = Append(results, Result(kind, answer)),
           waiting' = FALSE, data' = NoData, tails' \subseteq tails,
           UNCHANGED <<program, protocol, sent, requests, flying, server>>
    PROVE  Concluded(kind, answer)
<1> DEFINE r == Result(kind, answer)
<1>1. results \in Seq(ResultUpTo(sent))
  BY TypeFacts
<1>2. r \in ResultUpTo(sent) /\ r.kind = kind /\ r.answer = answer
  BY DEF Result, ResultUpTo
<1>3. results' = Append(results, r)
  OBVIOUS
<1> HIDE DEF r
<1>4. /\ results' \in Seq(ResultUpTo(sent)) /\ Len(results') = Len(results) + 1
      /\ \A j \in 1..Len(results) : results'[j] = results[j]
      /\ results'[Len(results) + 1] = r
  BY <1>1, <1>2, <1>3, AppendElements
<1> QED
  BY <1>2, <1>4 DEF Concluded, program

\* What recv returns, put to what had come.
LEMMA JoinedFacts ==
    ASSUME TypeOK, inbox # <<>> \/ protocol # "udp"
    PROVE  /\ Joined.of \in SUBSET SUBSET (1..sent) /\ Joined.bars \in Nat
           /\ protocol = "udp" =>
                 Joined.of = data.of \cup {inbox[1].of} /\ Len(Taken) = 1
           /\ protocol # "udp" =>
                 /\ Joined.of = data.of \cup {inbox[i].of : i \in 1..Len(inbox)}
                 /\ Joined.bars = data.bars + Separators(inbox)
                 /\ Taken = inbox
<1>1. /\ sent \in Nat /\ inbox \in Seq(PieceUpTo(sent)) /\ Len(inbox) \in Nat
      /\ data.of \in SUBSET SUBSET (1..sent) /\ data.bars \in Nat
  BY TypeFacts
<1>2. ASSUME protocol = "udp"
      PROVE  inbox[1] \in PieceUpTo(sent) /\ Head(inbox) = inbox[1]
  <2>1. Len(inbox) >= 1
    BY <1>1, <1>2, EmptySeq
  <2> QED
    BY <1>1, <2>1, ElementOfSeq
<1>3. /\ Taken \in Seq(PieceUpTo(sent))
      /\ protocol = "udp" => Taken = <<inbox[1]>>
      /\ protocol # "udp" => Taken = inbox
  BY <1>1, <1>2 DEF Taken
<1>4. Separators(Taken) \in Nat
  BY <1>3, SeparatorsNat
<1>5. /\ Joined.bars = data.bars + Separators(Taken)
      /\ Joined.of = data.of \cup {Taken[i].of : i \in DOMAIN Taken}
  BY DEF Joined
<1>6. DOMAIN Taken = 1..Len(Taken) /\ Len(Taken) \in Nat
  BY <1>3, LenProperties
<1>7. \A i \in 1..Len(Taken) : Taken[i].of \in SUBSET (1..sent)
  <2>1. \A i \in 1..Len(Taken) : Taken[i] \in PieceUpTo(sent)
    BY <1>3, ElementOfSeq
  <2> QED
    BY <2>1 DEF PieceUpTo
<1>8. Joined.of \in SUBSET SUBSET (1..sent)
  BY <1>1, <1>5, <1>6, <1>7
<1>9. Joined.bars \in Nat
  BY <1>1, <1>4, <1>5
<1>10. ASSUME protocol = "udp"
       PROVE  Joined.of = data.of \cup {inbox[1].of} /\ Len(Taken) = 1
  <2>1. Taken = <<inbox[1]>>
    BY <1>3, <1>10
  <2>2. DOMAIN <<inbox[1]>> = {1} /\ <<inbox[1]>>[1] = inbox[1] /\ Len(<<inbox[1]>>) = 1
    OBVIOUS
  <2> QED
    BY <2>1, <2>2, <1>5
<1>11. ASSUME protocol # "udp"
       PROVE  /\ Joined.of = data.of \cup {inbox[i].of : i \in 1..Len(inbox)}
              /\ Joined.bars = data.bars + Separators(inbox)
              /\ Taken = inbox
  BY <1>3, <1>5, <1>6, <1>11
<1> QED
  BY <1>8, <1>9, <1>10, <1>11

\* A time is recorded: over UDP for one datagram, over TCP for all there is.
LEMMA ReceiveFacts ==
    ASSUME TypeOK, Receive
    PROVE  /\ waiting /\ inbox # <<>> /\ UNCHANGED phase
           /\ Concluded("rtt", Joined.of)
           /\ inbox' \in Seq(PieceUpTo(sent))
           /\ protocol = "udp" =>
                 /\ Len(inbox') = Len(inbox) - 1
                 /\ \A j \in 1..(Len(inbox) - 1) : inbox'[j] = inbox[j + 1]
           /\ protocol # "udp" =>
                 inbox' = <<>> /\ data.bars + Separators(inbox) >= Bars
<1>1. inbox \in Seq(PieceUpTo(sent)) /\ Len(inbox) \in Nat
  BY TypeFacts
<1>2. waiting /\ inbox # <<>> /\ Complete /\ Returns("rtt", Joined.of)
      /\ inbox' = SubSeq(inbox, Len(Taken) + 1, Len(inbox))
  BY DEF Receive
<1>3. Len(inbox) >= 1
  BY <1>1, <1>2, EmptySeq
<1>4. Joined.of \in SUBSET SUBSET (1..sent)
  BY <1>2, JoinedFacts
<1>5. Concluded("rtt", Joined.of) /\ UNCHANGED phase
  <2>1. results' = Append(results, Result("rtt", Joined.of)) /\ waiting' = FALSE
        /\ data' = NoData /\ UNCHANGED <<program, protocol, phase, sent, requests, flying, server>>
    BY <1>2 DEF Returns
  <2>2. tails' \subseteq tails
    BY DEF Receive
  <2> QED
    BY <2>1, <2>2, <1>4, ConcludedFacts
<1>6. ASSUME protocol = "udp"
      PROVE  /\ inbox' \in Seq(PieceUpTo(sent))
             /\ Len(inbox') = Len(inbox) - 1
             /\ \A j \in 1..(Len(inbox) - 1) : inbox'[j] = inbox[j + 1]
  <2>1. Len(Taken) = 1 /\ 1 \in 0..Len(inbox)
    BY <1>1, <1>2, <1>3, <1>6, JoinedFacts
  <2>2. inbox' = SubSeq(inbox, 1 + 1, Len(inbox))
    BY <1>2, <2>1
  <2> QED
    BY <1>1, <2>1, <2>2, DropElements
<1>7. ASSUME protocol # "udp"
      PROVE  inbox' = <<>> /\ data.bars + Separators(inbox) >= Bars
  <2>1. Taken = inbox /\ Joined.bars = data.bars + Separators(inbox)
    BY <1>2, <1>7, JoinedFacts
  <2>2. inbox' = SubSeq(inbox, Len(inbox) + 1, Len(inbox))
    BY <1>2, <2>1
  <2>3. Len(inbox) + 1 \in Int /\ Len(inbox) \in Int /\ Len(inbox) < Len(inbox) + 1
    BY <1>1
  <2>4. inbox' = <<>>
    BY <2>2, <2>3, SubSeqEmpty
  <2> QED
    BY <1>2, <1>7, <2>1, <2>4 DEF Complete
<1>8. <<>> \in Seq(PieceUpTo(sent))
  BY EmptySeq
<1> QED
  BY <1>2, <1>5, <1>6, <1>7, <1>8

LEMMA ReceivePartFacts ==
    ASSUME TypeOK, ReceivePart
    PROVE  /\ UNCHANGED <<program, protocol, phase, sent, waiting, requests, flying,
                          server, results>>
           /\ protocol # "udp" /\ waiting
           /\ inbox' = <<>> /\ tails' \subseteq tails
           /\ data'.bars = data.bars + Separators(inbox) /\ data'.bars \in 0..(Bars - 1)
           /\ data'.of = data.of \cup {inbox[i].of : i \in 1..Len(inbox)}
           /\ data' \in [of : SUBSET SUBSET (1..sent), bars : 0..(Bars - 1)]
<1>1. protocol # "udp" /\ waiting /\ Joined.bars < Bars /\ ~(Joined.bars >= Bars)
      /\ data' = Joined /\ inbox' = <<>>
  <2>1. protocol # "udp" /\ ~Complete
    BY DEF ReceivePart, Complete
  <2>2. Joined.bars \in Nat /\ Bars \in Nat
    BY <2>1, JoinedFacts, TypeFacts
  <2> QED
    BY <2>1, <2>2 DEF ReceivePart, Complete
<1>2. /\ Joined.of \in SUBSET SUBSET (1..sent) /\ Joined.bars \in Nat
      /\ Joined.of = data.of \cup {inbox[i].of : i \in 1..Len(inbox)}
      /\ Joined.bars = data.bars + Separators(inbox)
  BY <1>1, JoinedFacts
<1>3. Joined.bars \in 0..(Bars - 1)
  BY <1>1, <1>2, TypeFacts
<1>4. Joined = [of |-> Joined.of, bars |-> Joined.bars]
  BY DEF Joined
<1>5. Joined \in [of : SUBSET SUBSET (1..sent), bars : 0..(Bars - 1)]
  BY <1>2, <1>3, <1>4
<1> QED
  BY <1>1, <1>2, <1>3, <1>5 DEF ReceivePart

\* The other ends of an order: with what it had received, and no time.
LEMMA GiveUpFacts ==
    ASSUME TypeOK, Timeout \/ ReceiveEnd \/ Broken
    PROVE  /\ waiting
           /\ \E kind \in {"eof", "timeout", "error"} :
                 Concluded(kind, data.of) /\ (kind = "eof" => ReceiveEnd)
           /\ UNCHANGED <<inbox, tails>>
           /\ Timeout \/ ReceiveEnd => inbox = <<>> /\ UNCHANGED phase
           /\ Broken => phase' = IF phase = "warmup" THEN "over" ELSE phase
<1>1. data.of \in SUBSET SUBSET (1..sent)
  BY TypeFacts
<1>2. PICK kind \in {"eof", "timeout", "error"} :
        /\ results' = Append(results, Result(kind, data.of))
        /\ waiting' = FALSE /\ data' = NoData /\ tails' = tails
        /\ UNCHANGED <<program, protocol, sent, requests, flying, server>>
        /\ kind = "eof" => ReceiveEnd
  BY DEF Timeout, ReceiveEnd, Broken, Returns
<1>3. Concluded(kind, data.of)
  BY <1>1, <1>2, ConcludedFacts
<1> QED
  BY <1>2, <1>3 DEF Timeout, ReceiveEnd, Broken, Returns, Arrived

\* A server that fails or ends leaves requests behind.
LEMMA ServerStopFacts ==
    ASSUME TypeOK, ServeFails \/ ServerEnds
    PROVE  /\ UNCHANGED <<program, protocol, phase, sent, waiting, flying, inbox, tails,
                          data, results>>
           /\ alive' \in BOOLEAN /\ open' \in BOOLEAN
           /\ requests' \in Seq(1..sent) /\ Len(requests') <= Len(requests)
           /\ \E n \in 0..Len(requests) :
                 /\ Len(requests') = Len(requests) - n
                 /\ \A j \in 1..(Len(requests) - n) : requests'[j] = requests[j + n]
<1>1. requests \in Seq(1..sent) /\ Len(requests) \in Nat
  BY TypeFacts
<1>2. /\ UNCHANGED <<program, protocol, phase, sent, waiting, flying, inbox, tails,
                       data, results>>
      /\ alive' \in BOOLEAN /\ open' \in BOOLEAN
  BY DEF ServeFails, ServerEnds, TypeOK
<1>3. CASE requests' = <<>>
  <2>1. requests' \in Seq(1..sent) /\ Len(requests') = 0
    BY <1>3, EmptySeq
  <2>2. Len(requests) \in 0..Len(requests) /\ Len(requests) - Len(requests) = 0
    BY <1>1
  <2> QED
    BY <1>1, <1>2, <2>1, <2>2
<1>4. CASE requests # <<>> /\ requests' = Tail(requests)
  <2>1. /\ requests' \in Seq(1..sent) /\ Len(requests') = Len(requests) - 1
        /\ \A j \in 1..(Len(requests) - 1) : requests'[j] = requests[j + 1]
    BY <1>1, <1>4, HeadTailProperties
  <2>2. 1 \in 0..Len(requests)
    BY <1>1, <1>4, EmptySeq
  <2> QED
    BY <1>1, <1>2, <2>1, <2>2
<1> QED
  BY <1>3, <1>4 DEF ServeFails, ServerEnds

LEMMA SendFacts ==
    ASSUME TypeOK, Send
    PROVE  /\ UNCHANGED <<program, protocol, phase, flying, inbox, tails, data, server,
                          results>>
           /\ phase \in {"warmup", "test"} /\ ~waiting /\ waiting' = TRUE
           /\ sent' = sent + 1 /\ sent' \in 0..(Warmup + Tests)
           /\ requests' \in Seq(1..sent')
           /\ \/ requests' = requests
              \/ /\ Len(requests') = Len(requests) + 1
                 /\ \A j \in 1..Len(requests) : requests'[j] = requests[j]
                 /\ requests'[Len(requests) + 1] = sent + 1
<1>1. sent \in Nat /\ requests \in Seq(1..sent)
  BY TypeFacts
<1>2. sent' = sent + 1 /\ 1..sent \subseteq 1..sent' /\ sent + 1 \in 1..sent'
  BY <1>1 DEF Send
<1>3. requests \in Seq(1..sent')
  BY <1>1, <1>2, SeqMonotonic
<1>4. sent' \in 0..(Warmup + Tests)
  BY <1>1, CountsAssumption DEF Send
<1>5. CASE requests' = Append(requests, sent + 1)
  <2>1. /\ Append(requests, sent + 1) \in Seq(1..sent')
        /\ Len(Append(requests, sent + 1)) = Len(requests) + 1
        /\ \A j \in 1..Len(requests) : Append(requests, sent + 1)[j] = requests[j]
        /\ Append(requests, sent + 1)[Len(requests) + 1] = sent + 1
    BY <1>2, <1>3, AppendElements
  <2> QED
    BY <1>2, <1>4, <1>5, <2>1 DEF Send
<1>6. CASE requests' = requests
  BY <1>2, <1>3, <1>4, <1>6 DEF Send
<1> QED
  BY <1>5, <1>6 DEF Send

\* A step that leaves the orders and the responses to them alone.
Calm == UNCHANGED <<protocol, sent, waiting, requests, flying, inbox, data, results>>

-----------------------------------------------------------------------------
(* Types, and the order of the results.                                    *)

Basic == TypeOK /\ InOrder /\ Whole

LEMMA TypeTaken ==
    ASSUME TypeOK
    PROVE  /\ protocol \in {"tcp", "udp"} /\ saved \subseteq {"tcp", "udp"}
           /\ todo \in {<<>>, <<"udp">>} /\ alive \in BOOLEAN
           /\ phase \in {"connect", "warmup", "test", "over", "reported"}
           /\ sent \in 0..(Warmup + Tests)
           /\ waiting \in BOOLEAN /\ open \in BOOLEAN
           /\ requests \in Seq(1..sent)
           /\ flying \in Seq(PieceUpTo(sent)) /\ inbox \in Seq(PieceUpTo(sent))
           /\ data \in [of : SUBSET SUBSET (1..sent), bars : 0..(Bars - 1)]
           /\ results \in Seq(ResultUpTo(sent)) /\ tails \subseteq {"flying", "inbox"}
BY Zenon DEF TypeOK, Orders, PieceUpTo, ResultUpTo

LEMMA NoDataTyped ==
    ASSUME NEW n
    PROVE  NoData \in [of : SUBSET SUBSET (1..n), bars : 0..(Bars - 1)]
BY CountsAssumption DEF NoData

\* The steps between the orders and the runs.
LEMMA CalmFacts ==
    ASSUME Basic, Connect \/ Report \/ BeginTest \/ EndTest \/ DeliverTail
    PROVE  /\ Calm
           /\ waiting => UNCHANGED phase
           /\ tails' \subseteq {"flying", "inbox"}
           /\ protocol = "udp" => tails' = {}
           /\ UNCHANGED todo /\ saved' \subseteq {"tcp", "udp"}
           /\ phase' \in {"connect", "warmup", "test", "over", "reported"}
           /\ alive' \in BOOLEAN /\ open' \in BOOLEAN
<1>1. Calm
  BY DEF Connect, Report, BeginTest, EndTest, DeliverTail, Calm
<1>2. waiting => UNCHANGED phase
  BY DEF Connect, Report, BeginTest, EndTest, DeliverTail, Basic, InOrder
<1>3. UNCHANGED <<todo, alive>> /\ saved' \subseteq {"tcp", "udp"}
  BY DEF Connect, Report, BeginTest, EndTest, DeliverTail, program, server, AddResult, Basic, TypeOK
<1>4. phase' \in {"connect", "warmup", "test", "over", "reported"}
  BY DEF Connect, Report, BeginTest, EndTest, DeliverTail, Basic, TypeOK
<1>5. open' \in BOOLEAN /\ alive' \in BOOLEAN
  BY DEF Connect, Report, BeginTest, EndTest, DeliverTail, server, Basic, TypeOK
<1>6. /\ tails' \subseteq {"flying", "inbox"}
      /\ protocol = "udp" => tails' = {}
  BY DEF Connect, Report, BeginTest, EndTest, DeliverTail, Basic, TypeOK, Whole
<1> QED
  BY <1>1, <1>2, <1>3, <1>4, <1>5, <1>6

LEMMA CalmKeepsBasic ==
    ASSUME Basic, Connect \/ Report \/ BeginTest \/ EndTest \/ DeliverTail
    PROVE  Basic'
<1>1. /\ Calm /\ (waiting => UNCHANGED phase)
      /\ tails' \subseteq {"flying", "inbox"}
      /\ protocol = "udp" => tails' = {}
      /\ UNCHANGED todo /\ saved' \subseteq {"tcp", "udp"}
      /\ phase' \in {"connect", "warmup", "test", "over", "reported"}
      /\ alive' \in BOOLEAN /\ open' \in BOOLEAN
  BY CalmFacts
<1>2. UNCHANGED <<protocol, sent, waiting, requests, flying, inbox, data, results, todo>>
  BY <1>1 DEF Calm
<1>3. TypeOK'
  BY <1>1, <1>2 DEF Basic, TypeOK, Orders
<1>4. InOrder' /\ Whole'
  BY <1>1, <1>2 DEF Basic, InOrder, Whole
<1> QED
  BY <1>3, <1>4 DEF Basic

LEMMA NextRunFacts ==
    ASSUME Basic, NextRun
    PROVE  /\ phase' = "connect" /\ ~waiting /\ UNCHANGED <<saved, waiting, server>>
           /\ protocol' \in {"tcp", "udp"} /\ todo' \in {<<>>, <<"udp">>}
           /\ sent' = 0 /\ requests' = <<>> /\ flying' = <<>> /\ inbox' = <<>>
           /\ results' = <<>> /\ data' = NoData /\ tails' = {}
<1>1. todo = <<"udp">>
  BY DEF NextRun, Basic, TypeOK
<1>2. protocol' = "udp" /\ todo' = <<>>
  BY <1>1 DEF NextRun
<1> QED
  BY <1>2 DEF NextRun, Basic, InOrder

LEMMA NextRunKeepsBasic ==
    ASSUME Basic, NextRun
    PROVE  Basic'
<1>1. /\ phase' = "connect" /\ ~waiting /\ UNCHANGED <<saved, waiting, server>>
      /\ protocol' \in {"tcp", "udp"} /\ todo' \in {<<>>, <<"udp">>}
      /\ sent' = 0 /\ requests' = <<>> /\ flying' = <<>> /\ inbox' = <<>>
      /\ results' = <<>> /\ data' = NoData /\ tails' = {}
  BY NextRunFacts
<1>2. \A S : <<>> \in Seq(S)
  BY EmptySeq
<1>3. data' \in [of : SUBSET SUBSET (1..sent'), bars : 0..(Bars - 1)]
  BY <1>1, NoDataTyped
<1>4. sent' \in 0..(Warmup + Tests)
  BY <1>1, CountsAssumption
<1>5. TypeOK'
  BY <1>1, <1>2, <1>3, <1>4 DEF Basic, TypeOK, Orders, server
<1>6. InOrder' /\ Whole'
  BY <1>1 DEF InOrder, Whole
<1> QED
  BY <1>5, <1>6 DEF Basic

LEMMA SendKeepsBasic ==
    ASSUME Basic, Send
    PROVE  Basic'
<1> USE DEF Basic
<1>1. /\ UNCHANGED <<program, protocol, phase, flying, inbox, tails, data, server, results>>
      /\ phase \in {"warmup", "test"} /\ ~waiting /\ waiting' = TRUE
      /\ sent' = sent + 1 /\ sent' \in 0..(Warmup + Tests)
      /\ requests' \in Seq(1..sent')
  BY SendFacts
<1>2. sent \in Nat
  BY TypeFacts
<1>3. 1..sent \subseteq 1..sent'
  BY <1>1, <1>2
<1>4. PieceUpTo(sent) \subseteq PieceUpTo(sent') /\ ResultUpTo(sent) \subseteq ResultUpTo(sent')
  BY <1>3 DEF PieceUpTo, ResultUpTo
<1>5. /\ flying' \in Seq(PieceUpTo(sent')) /\ inbox' \in Seq(PieceUpTo(sent'))
      /\ results' \in Seq(ResultUpTo(sent'))
  BY <1>1, <1>4, TypeTaken, SeqMonotonic
<1>6. data' \in [of : SUBSET SUBSET (1..sent'), bars : 0..(Bars - 1)]
  BY <1>1, <1>3, TypeTaken
<1>7. TypeOK'
  BY <1>1, <1>5, <1>6 DEF TypeOK, Orders, PieceUpTo, ResultUpTo, program, server
<1>8. InOrder' /\ Whole'
  BY <1>1, <1>2 DEF InOrder, Whole
<1> QED
  BY <1>7, <1>8

LEMMA ConcludedKeepsBasic ==
    ASSUME Basic, waiting, NEW kind, NEW answer, Concluded(kind, answer),
           inbox' \in Seq(PieceUpTo(sent)),
           protocol = "udp" => \A i \in 1..Len(inbox') : inbox'[i].bars = Bars,
           phase' \in {phase, "over"}
    PROVE  Basic'
<1> USE DEF Basic
<1>1. /\ results' \in Seq(ResultUpTo(sent)) /\ Len(results') = Len(results) + 1
      /\ waiting' = FALSE
      /\ data' = NoData /\ tails' \subseteq tails
      /\ UNCHANGED <<todo, saved, protocol, sent, requests, flying, server>>
  BY DEF Concluded
<1>2. data' \in [of : SUBSET SUBSET (1..sent'), bars : 0..(Bars - 1)]
  BY <1>1, NoDataTyped
<1>3. TypeOK'
  BY <1>1, <1>2, TypeTaken DEF TypeOK, Orders, PieceUpTo, ResultUpTo, server
<1>4. sent \in Nat /\ Len(results) \in Nat
  BY TypeFacts
<1>5. InOrder' /\ Whole'
  BY <1>1, <1>4 DEF InOrder, Whole
<1> QED
  BY <1>3, <1>5

LEMMA ReceiveKeepsBasic ==
    ASSUME Basic, Receive
    PROVE  Basic'
<1> USE DEF Basic
<1>1. /\ waiting /\ UNCHANGED phase
      /\ Concluded("rtt", Joined.of)
      /\ inbox' \in Seq(PieceUpTo(sent))
      /\ protocol = "udp" =>
                 /\ Len(inbox') = Len(inbox) - 1
                 /\ \A j \in 1..(Len(inbox) - 1) : inbox'[j] = inbox[j + 1]
  BY ReceiveFacts
<1>2. Len(inbox) \in Nat
  BY TypeFacts
<1>3. protocol = "udp" => \A i \in 1..Len(inbox') : inbox'[i].bars = Bars
  BY <1>1, <1>2 DEF Whole
<1> QED
  BY <1>1, <1>3, ConcludedKeepsBasic

LEMMA GiveUpKeepsBasic ==
    ASSUME Basic, Timeout \/ ReceiveEnd \/ Broken
    PROVE  Basic'
<1> USE DEF Basic
<1>1. /\ waiting
      /\ \E kind \in {"eof", "timeout", "error"} : Concluded(kind, data.of)
      /\ UNCHANGED inbox
      /\ phase' \in {phase, "over"}
  BY GiveUpFacts
<1>2. /\ inbox' \in Seq(PieceUpTo(sent))
      /\ protocol = "udp" => \A i \in 1..Len(inbox') : inbox'[i].bars = Bars
  BY <1>1, TypeFacts DEF Whole
<1> QED
  BY <1>1, <1>2, ConcludedKeepsBasic

LEMMA ReceivePartKeepsBasic ==
    ASSUME Basic, ReceivePart
    PROVE  Basic'
<1> USE DEF Basic
<1>1. /\ UNCHANGED <<program, protocol, phase, sent, waiting, requests, flying,
                     server, results>>
      /\ protocol # "udp" /\ waiting
      /\ inbox' = <<>> /\ tails' \subseteq tails
      /\ data' \in [of : SUBSET SUBSET (1..sent), bars : 0..(Bars - 1)]
  BY ReceivePartFacts
<1>2. inbox' \in Seq(PieceUpTo(sent))
  BY <1>1, EmptySeq
<1>3. TypeOK'
  BY <1>1, <1>2, TypeTaken DEF TypeOK, Orders, PieceUpTo, ResultUpTo, program, server
<1>4. InOrder' /\ Whole'
  BY <1>1 DEF InOrder, Whole
<1> QED
  BY <1>3, <1>4

LEMMA NetworkKeepsBasic ==
    ASSUME Basic,
           \/ \E n \in 1..Len(requests) : Serve(n)
           \/ ServeFails \/ ServerEnds
           \/ \E i \in 1..Len(flying) : Lose(i)
           \/ \E i \in 1..Len(flying) : \E bars \in 1..flying[i].bars : Deliver(i, bars)
    PROVE  Basic'
<1> USE DEF Basic
<1> DEFINE Typed ==
            /\ UNCHANGED <<program, protocol, phase, sent, waiting, data, results>>
            /\ alive' \in BOOLEAN /\ open' \in BOOLEAN
            /\ tails' \subseteq {"flying", "inbox"}
            /\ requests' \in Seq(1..sent)
            /\ flying' \in Seq(PieceUpTo(sent)) /\ inbox' \in Seq(PieceUpTo(sent))
           Uncut ==
            protocol = "udp" =>
                /\ tails' = {}
                /\ \A i \in 1..Len(inbox') : inbox'[i].bars = Bars
                /\ \A i \in 1..Len(flying') : flying'[i].bars = Bars
<1> HIDE DEF Typed, Uncut
<1>1. Len(inbox) \in Nat /\ Len(flying) \in Nat
  BY TypeFacts
<1>2. protocol = "udp" => /\ data = NoData /\ tails = {}
                          /\ \A i \in 1..Len(inbox) : inbox[i].bars = Bars
                          /\ \A i \in 1..Len(flying) : flying[i].bars = Bars
  BY DEF Whole
<1>3. ASSUME NEW n \in 1..Len(requests), Serve(n)
      PROVE  Typed /\ Uncut
  <2> DEFINE new == Piece({requests[j] : j \in 1..n}, Bars)
  <2>1. new.bars = Bars
    BY DEF Piece
  <2> HIDE DEF new
  <2>2. /\ UNCHANGED <<program, protocol, phase, sent, waiting, inbox, tails, data, server, results>>
        /\ flying' \in Seq(PieceUpTo(sent)) /\ Len(flying') = Len(flying) + 1
        /\ \A j \in 1..Len(flying) : flying'[j] = flying[j]
        /\ flying'[Len(flying) + 1] = new
        /\ requests' \in Seq(1..sent)
    BY <1>3, ServeFacts DEF new
  <2>3. Typed
    BY <2>2, TypeTaken DEF server, Typed
  <2>4. Uncut
    BY <1>1, <1>2, <2>1, <2>2 DEF Uncut
  <2> QED
    BY <2>3, <2>4
<1>4. ASSUME ServeFails \/ ServerEnds
      PROVE  Typed /\ Uncut
  <2>1. Typed
    BY <1>4, ServerStopFacts, TypeTaken DEF Typed
  <2>2. Uncut
    BY <1>2, <1>4, ServerStopFacts DEF Uncut
  <2> QED
    BY <2>1, <2>2
<1>5. ASSUME NEW i \in 1..Len(flying), Lose(i)
      PROVE  Typed /\ Uncut
  <2>1. Typed
    BY <1>5, LoseFacts, TypeTaken DEF server, Typed
  <2>2. Uncut
    <3>1. /\ inbox' = inbox /\ tails' = tails /\ Len(flying') = Len(flying) - 1
          /\ \A j \in 1..(Len(flying) - 1) :
                flying'[j] = IF j < i THEN flying[j] ELSE flying[j + 1]
      BY <1>5, LoseFacts
    <3> QED
      BY <1>1, <1>2, <3>1, SMTT(30) DEF Uncut
  <2> QED
    BY <2>1, <2>2
<1>6. ASSUME NEW i \in 1..Len(flying), NEW bars \in 1..flying[i].bars, Deliver(i, bars)
      PROVE  Typed /\ Uncut
  <2>1. Typed
    BY <1>6, DeliverFacts, TypeTaken DEF server, Typed
  <2>2. Uncut
    <3> SUFFICES ASSUME protocol = "udp" PROVE Uncut
      BY DEF Uncut
    <3>1. /\ Len(inbox') = Len(inbox) + 1
          /\ \A j \in 1..Len(inbox) : inbox'[j] = inbox[j]
          /\ inbox'[Len(inbox) + 1] = Piece(flying[i].of, bars)
          /\ bars = Bars /\ flying[i].bars = Bars
      BY <1>2, <1>6, DeliverFacts
    <3>2. /\ Len(flying') = Len(flying) - 1
          /\ \A j \in 1..(Len(flying) - 1) :
                flying'[j] = IF j < i THEN flying[j] ELSE flying[j + 1]
      BY <3>1, <1>6, DeliverFacts, TypeFacts
    <3>3. \A j \in 1..Len(inbox') : inbox'[j].bars = Bars
      BY <1>1, <1>2, <3>1 DEF Piece
    <3>4. \A j \in 1..Len(flying') : flying'[j].bars = Bars
      BY <1>1, <1>2, <3>2
    <3>5. tails' = {}
      BY <1>2, <1>6, DeliverFacts
    <3> QED
      BY <3>3, <3>4, <3>5 DEF Uncut
  <2> QED
    BY <2>1, <2>2
<1>7. Typed /\ Uncut
  BY <1>3, <1>4, <1>5, <1>6
<1>8. TypeOK'
  BY <1>7, TypeTaken DEF TypeOK, Orders, PieceUpTo, ResultUpTo, program, Typed
<1>9. InOrder' /\ Whole'
  BY <1>2, <1>7 DEF InOrder, Whole, Typed, Uncut
<1> QED
  BY <1>8, <1>9

-----------------------------------------------------------------------------
(* An order is answered once.                                              *)

\* What was received is answers to orders that were sent.
SeenFacts ==
    /\ Came \in SUBSET SUBSET (1..sent) /\ Seen \in SUBSET SUBSET (1..sent)
    /\ Came \subseteq Seen
    /\ IsFiniteSet(Came) /\ IsFiniteSet(Seen) /\ IsFiniteSet(Timed)
    /\ Cardinality(Came) \in Nat /\ Cardinality(Seen) \in Nat
    /\ Cardinality(Timed) \in Nat

LEMMA SeenTyped == TypeOK => SeenFacts
<1> SUFFICES ASSUME TypeOK PROVE SeenFacts
  OBVIOUS
<1>1. /\ sent \in Nat /\ inbox \in Seq(PieceUpTo(sent)) /\ results \in Seq(ResultUpTo(sent))
      /\ data.of \in SUBSET SUBSET (1..sent) /\ Len(results) \in Nat
  BY TypeFacts
<1>2. Came \in SUBSET SUBSET (1..sent)
  <2>1. \A j \in 1..Len(results) : results[j] \in ResultUpTo(sent)
    BY <1>1, ElementOfSeq
  <2>2. \A j \in 1..Len(results) : results[j].answer \in SUBSET SUBSET (1..sent)
    BY <2>1 DEF ResultUpTo
  <2> QED
    BY <2>2 DEF Came
<1>3. \A i \in 1..Len(inbox) : inbox[i].of \in SUBSET (1..sent)
  <2>1. \A i \in 1..Len(inbox) : inbox[i] \in PieceUpTo(sent)
    BY <1>1, ElementOfSeq
  <2> QED
    BY <2>1 DEF PieceUpTo
<1>4. Seen \in SUBSET SUBSET (1..sent) /\ Came \subseteq Seen
  <2>1. {inbox[i].of : i \in 1..Len(inbox)} \subseteq SUBSET (1..sent)
    BY <1>3
  <2>2. Came \subseteq SUBSET (1..sent) /\ data.of \subseteq SUBSET (1..sent)
    BY <1>1, <1>2
  <2>3. Seen \subseteq SUBSET (1..sent) /\ Came \subseteq Seen
    BY <2>1, <2>2, Zenon DEF Seen
  <2> QED
    BY <2>3
<1>5. IsFiniteSet(SUBSET (1..sent)) /\ IsFiniteSet(1..Len(results))
  <2>1. IsFiniteSet(1..sent) /\ IsFiniteSet(1..Len(results))
    BY <1>1, FS_Interval
  <2> QED
    BY <2>1, FS_SUBSET
<1>6. IsFiniteSet(Came) /\ IsFiniteSet(Seen) /\ IsFiniteSet(Timed)
  <2>1. Timed \in SUBSET (1..Len(results))
    BY DEF Timed
  <2> QED
    BY <1>2, <1>4, <1>5, <2>1, FS_Subset
<1> QED
  BY <1>2, <1>4, <1>6, FS_CardinalityType DEF SeenFacts

\* A result adds its answer to what came, and its time to the times.
LEMMA ConcludedAdds ==
    ASSUME TypeOK, NEW kind, NEW answer, Concluded(kind, answer)
    PROVE  /\ Came' = Came \cup answer
           /\ kind # "rtt" => Timed' = Timed
           /\ kind = "rtt" => Timed' = Timed \cup {Len(results) + 1}
           /\ Len(results) + 1 \notin Timed
<1>1. PICK L \in Nat : L = Len(results) /\ Len(results') = L + 1
  BY TypeFacts DEF Concluded
<1>2. /\ \A j \in 1..L : results'[j] = results[j]
      /\ results'[L + 1].kind = kind /\ results'[L + 1].answer = answer
  BY <1>1 DEF Concluded
<1>3. 1..(L + 1) = 1..L \cup {L + 1} /\ L + 1 \notin 1..L
  BY <1>1
<1>4. Came = UNION {results[j].answer : j \in 1..L}
  BY <1>1 DEF Came
<1>5. Came' = UNION {results'[j].answer : j \in 1..(L + 1)}
  BY <1>1 DEF Came
<1>6. Came' = Came \cup answer
  <2>1. ASSUME NEW x
        PROVE  x \in Came' <=> x \in Came \/ x \in answer
    <3>1. x \in Came' <=> \E j \in 1..(L + 1) : x \in results'[j].answer
      BY <1>5
    <3>2. x \in Came <=> \E j \in 1..L : x \in results[j].answer
      BY <1>4
    <3> QED
      BY <1>2, <1>3, <3>1, <3>2
  <2> QED
    BY <2>1
<1>7. Timed = {j \in 1..L : results[j].kind = "rtt"}
      /\ Timed' = {j \in 1..(L + 1) : results'[j].kind = "rtt"}
  BY <1>1 DEF Timed
<1>8. /\ kind # "rtt" => Timed' = Timed
      /\ kind = "rtt" => Timed' = Timed \cup {L + 1}
      /\ L + 1 \notin Timed
  BY <1>2, <1>3, <1>7
<1> QED
  BY <1>1, <1>6, <1>8

\* Bytes that are read stay seen.
LEMMA ReadingKeepsSeen ==
    ASSUME Basic, Receive \/ ReceivePart \/ Timeout \/ ReceiveEnd \/ Broken
    PROVE  Seen' = Seen /\ UNCHANGED <<requests, flying, protocol>>
<1> USE DEF Basic
<1>0. PICK L \in Nat : L = Len(inbox)
  BY TypeFacts
<1> DEFINE In == {inbox[i].of : i \in 1..L}
<1>1. Seen = Came \cup data.of \cup In
  BY <1>0 DEF Seen
<1>2. ASSUME Receive
      PROVE  Seen' = Seen /\ UNCHANGED <<requests, flying, protocol>>
  <2>1. /\ inbox # <<>> /\ Concluded("rtt", Joined.of)
        /\ protocol = "udp" => /\ Len(inbox') = L - 1
                               /\ \A j \in 1..(L - 1) : inbox'[j] = inbox[j + 1]
        /\ protocol # "udp" => inbox' = <<>>
    BY <1>0, <1>2, ReceiveFacts
  <2>2. /\ protocol = "udp" => Joined.of = data.of \cup {inbox[1].of}
        /\ protocol # "udp" => Joined.of = data.of \cup In
    BY <1>0, <2>1, JoinedFacts
  <2>3. Came' = Came \cup Joined.of
    BY <2>1, ConcludedAdds
  <2>4. data'.of = {} /\ UNCHANGED <<requests, flying, protocol>>
    BY <2>1 DEF Concluded, NoData
  <2>5. Seen' = Came' \cup {inbox'[i].of : i \in 1..Len(inbox')}
    BY <2>4 DEF Seen
  <2>6. CASE protocol = "udp"
    <3>1. In = {inbox[1].of} \cup {inbox'[i].of : i \in 1..Len(inbox')}
      <4>1. L >= 1
        BY <1>0, <2>1, TypeFacts, EmptySeq
      <4>2. ASSUME NEW i \in 1..L
            PROVE  inbox[i].of \in {inbox[1].of} \cup {inbox'[j].of : j \in 1..Len(inbox')}
        <5>1. CASE i = 1
          BY <5>1
        <5>2. CASE i # 1
          <6>1. i - 1 \in 1..(L - 1) /\ (i - 1) + 1 = i
            BY <5>2
          <6> QED
            BY <6>1, <2>1, <2>6
        <5> QED
          BY <5>1, <5>2
      <4>3. ASSUME NEW j \in 1..Len(inbox')
            PROVE  inbox'[j].of \in In
        <5>1. j \in 1..(L - 1) /\ j + 1 \in 1..L /\ inbox'[j] = inbox[j + 1]
          BY <2>1, <2>6
        <5> QED
          BY <5>1
      <4>4. inbox[1].of \in In
        BY <4>1
      <4> HIDE DEF In
      <4>5. {inbox'[j].of : j \in 1..Len(inbox')} \subseteq In
        BY <4>3
      <4>6. In \subseteq {inbox[1].of} \cup {inbox'[j].of : j \in 1..Len(inbox')}
        BY <4>2 DEF In
      <4> QED
        BY <4>4, <4>5, <4>6
    <3> HIDE DEF In
    <3> QED
      BY <1>1, <2>2, <2>3, <2>4, <2>5, <2>6, <3>1
  <2>7. CASE protocol # "udp"
    <3>1. {inbox'[i].of : i \in 1..Len(inbox')} = {}
      BY <2>1, <2>7
    <3> HIDE DEF In
    <3> QED
      BY <1>1, <2>2, <2>3, <2>4, <2>5, <2>7, <3>1
  <2> QED
    BY <2>6, <2>7
<1>3. ASSUME ReceivePart
      PROVE  Seen' = Seen /\ UNCHANGED <<requests, flying, protocol>>
  <2>1. UNCHANGED <<requests, flying, protocol, results>> /\ inbox' = <<>>
        /\ data'.of = data.of \cup In
    BY <1>0, <1>3, ReceivePartFacts
  <2>2. Came' = Came /\ {inbox'[i].of : i \in 1..Len(inbox')} = {}
    BY <2>1 DEF Came
  <2> HIDE DEF In
  <2> QED
    BY <1>1, <2>1, <2>2 DEF Seen
<1>4. ASSUME Timeout \/ ReceiveEnd \/ Broken
      PROVE  Seen' = Seen /\ UNCHANGED <<requests, flying, protocol>>
  <2>1. PICK kind : Concluded(kind, data.of) /\ inbox' = inbox
    BY <1>4, GiveUpFacts
  <2>2. Came' = Came \cup data.of
    BY <2>1, ConcludedAdds
  <2>3. data'.of = {} /\ UNCHANGED <<requests, flying, protocol>>
    BY <2>1 DEF Concluded, NoData
  <2> QED
    BY <2>1, <2>2, <2>3 DEF Seen
<1> QED
  BY <1>2, <1>3, <1>4

LEMMA ReadingKeepsAnsweredOnce ==
    ASSUME Basic, AnsweredOnce, Receive \/ ReceivePart \/ Timeout \/ ReceiveEnd \/ Broken
    PROVE  AnsweredOnce'
<1>1. Seen' = Seen /\ UNCHANGED <<requests, flying, protocol>>
  BY ReadingKeepsSeen
<1> QED
  BY <1>1 DEF AnsweredOnce

LEMMA CalmKeepsAnsweredOnce ==
    ASSUME AnsweredOnce, Calm
    PROVE  AnsweredOnce' /\ Seen' = Seen /\ Came' = Came /\ Timed' = Timed
<1>1. Seen' = Seen /\ Came' = Came /\ Timed' = Timed
  BY DEF Calm, Seen, Came, Timed
<1> QED
  BY <1>1 DEF Calm, AnsweredOnce

LEMMA SendKeepsAnsweredOnce ==
    ASSUME Basic, AnsweredOnce, Send
    PROVE  AnsweredOnce' /\ Seen' = Seen /\ Came' = Came /\ Timed' = Timed
<1> USE DEF Basic
<1>1. UNCHANGED <<protocol, flying, inbox, data, results>>
  BY SendFacts
<1>2. Seen' = Seen /\ Came' = Came /\ Timed' = Timed
  BY <1>1 DEF Seen, Came, Timed
<1>3. CASE requests' = requests
  BY <1>1, <1>2, <1>3 DEF AnsweredOnce
<1>4. CASE /\ Len(requests') = Len(requests) + 1
           /\ \A j \in 1..Len(requests) : requests'[j] = requests[j]
           /\ requests'[Len(requests) + 1] = sent + 1
  <2>1. PICK L \in Nat : L = Len(requests)
    BY TypeFacts
  <2>2. sent \in Nat /\ \A i \in 1..L : requests[i] \in 1..sent
    BY <2>1, TypeFacts, ElementOfSeq
  <2>3. \A i \in 1..Len(flying) : flying[i].of \in SUBSET (1..sent)
    <3>1. \A i \in 1..Len(flying) : flying[i] \in PieceUpTo(sent)
      BY TypeFacts, ElementOfSeq
    <3> QED
      BY <3>1 DEF PieceUpTo
  <2>4. \A response \in Seen : response \subseteq 1..sent
    BY SeenTyped DEF SeenFacts
  <2>5. sent + 1 \notin 1..sent
    BY <2>2
  <2>6. ASSUME NEW i \in 1..Len(requests')
        PROVE  \/ i \in 1..L /\ requests'[i] = requests[i]
               \/ i = L + 1 /\ requests'[i] = sent + 1
    BY <2>1, <1>4
  <2>7. \A i, j \in 1..Len(requests') : i # j => requests'[i] # requests'[j]
    BY <2>1, <2>2, <2>5, <2>6 DEF AnsweredOnce
  <2>8. \A i \in 1..Len(requests') :
          /\ \A response \in Seen : requests'[i] \notin response
          /\ \A k \in 1..Len(flying) : requests'[i] \notin flying[k].of
    BY <2>1, <2>3, <2>4, <2>5, <2>6 DEF AnsweredOnce
  <2> QED
    BY <1>1, <1>2, <2>7, <2>8 DEF AnsweredOnce
<1> QED
  BY <1>2, <1>3, <1>4, SendFacts

LEMMA ServerStopKeepsAnsweredOnce ==
    ASSUME Basic, AnsweredOnce, ServeFails \/ ServerEnds
    PROVE  AnsweredOnce' /\ Seen' = Seen /\ Came' = Came /\ Timed' = Timed
<1> USE DEF Basic
<1>1. UNCHANGED <<protocol, flying, inbox, data, results>>
  BY ServerStopFacts
<1>2. Seen' = Seen /\ Came' = Came /\ Timed' = Timed
  BY <1>1 DEF Seen, Came, Timed
<1>3. PICK L \in Nat : L = Len(requests)
  BY TypeFacts
<1>4. PICK n \in 0..L : /\ Len(requests') = L - n
                        /\ \A j \in 1..(L - n) : requests'[j] = requests[j + n]
  BY <1>3, ServerStopFacts
<1>5. \A j \in 1..Len(requests') : j + n \in 1..L /\ requests'[j] = requests[j + n]
  BY <1>3, <1>4
<1>6. \A i, j \in 1..Len(requests') : i # j => requests'[i] # requests'[j]
  <2>1. ASSUME NEW i \in 1..Len(requests'), NEW j \in 1..Len(requests'), i # j
        PROVE  requests'[i] # requests'[j]
    <3>1. i + n # j + n
      BY <2>1, <1>4
    <3> QED
      BY <3>1, <1>3, <1>5 DEF AnsweredOnce
  <2> QED
    BY <2>1
<1>7. \A i \in 1..Len(requests') :
          /\ \A response \in Seen : requests'[i] \notin response
          /\ \A k \in 1..Len(flying) : requests'[i] \notin flying[k].of
  BY <1>3, <1>5 DEF AnsweredOnce
<1> QED
  BY <1>1, <1>2, <1>6, <1>7 DEF AnsweredOnce

LEMMA ServeKeepsAnsweredOnce ==
    ASSUME Basic, AnsweredOnce, NEW n \in 1..Len(requests), Serve(n)
    PROVE  AnsweredOnce' /\ Seen' = Seen /\ Came' = Came /\ Timed' = Timed
<1> USE DEF Basic
<1> DEFINE new == Piece({requests[j] : j \in 1..n}, Bars)
<1>1. PICK L \in Nat, F \in Nat : L = Len(requests) /\ F = Len(flying)
  BY TypeFacts
<1>2. /\ UNCHANGED <<protocol, inbox, data, results>>
      /\ Len(flying') = F + 1
      /\ \A j \in 1..F : flying'[j] = flying[j]
      /\ flying'[F + 1] = new
      /\ Len(requests') = L - n
      /\ \A j \in 1..(L - n) : requests'[j] = requests[j + n]
  BY <1>1, ServeFacts
<1>3. new.of = {requests[j] : j \in 1..n} /\ new.bars = Bars
  BY DEF Piece
<1> HIDE DEF new
<1>4. Seen' = Seen /\ Came' = Came /\ Timed' = Timed
  BY <1>2 DEF Seen, Came, Timed
<1>5. n \in 1..L /\ \A j \in 1..Len(requests') :
        j + n \in 1..L /\ requests'[j] = requests[j + n] /\ j + n \notin 1..n
  BY <1>1, <1>2
<1>6. \A i, j \in 1..L : i # j => requests[i] # requests[j]
  BY <1>1 DEF AnsweredOnce
<1>7. \A i, j \in 1..Len(requests') : i # j => requests'[i] # requests'[j]
  <2>1. ASSUME NEW i \in 1..Len(requests'), NEW j \in 1..Len(requests'), i # j
        PROVE  requests'[i] # requests'[j]
    <3>1. i + n # j + n
      BY <2>1, <1>5
    <3> QED
      BY <3>1, <1>5, <1>6
  <2> QED
    BY <2>1
<1>8. \A j \in 1..Len(requests') : requests'[j] \notin new.of
  BY <1>3, <1>5, <1>6
\* Its first order is in no other response.
<1>9. /\ requests[1] \in new.of
      /\ \A response \in Seen : requests[1] \notin response
      /\ \A k \in 1..F : requests[1] \notin flying[k].of
  BY <1>1, <1>3, <1>5 DEF AnsweredOnce
<1>10. ASSUME NEW k \in 1..Len(flying')
       PROVE  \/ k \in 1..F /\ flying'[k] = flying[k]
              \/ k = F + 1 /\ flying'[k] = new
  BY <1>1, <1>2
<1>11. \A i \in 1..Len(requests') :
          /\ \A response \in Seen : requests'[i] \notin response
          /\ \A k \in 1..Len(flying') : requests'[i] \notin flying'[k].of
  BY <1>1, <1>5, <1>8, <1>10 DEF AnsweredOnce
<1>12. \A i, j \in 1..Len(flying') : i # j => flying'[i].of # flying'[j].of
  BY <1>1, <1>9, <1>10 DEF AnsweredOnce
<1>13. \A i \in 1..Len(flying') : flying'[i].bars = Bars => flying'[i].of \notin Seen
  BY <1>1, <1>9, <1>10 DEF AnsweredOnce
<1>14. protocol = "tcp" => \A i \in 2..Len(flying') : flying'[i].bars = Bars
  BY <1>1, <1>2, <1>3 DEF AnsweredOnce
<1> QED
  BY <1>2, <1>4, <1>7, <1>11, <1>12, <1>13, <1>14 DEF AnsweredOnce

LEMMA LoseKeepsAnsweredOnce ==
    ASSUME Basic, AnsweredOnce, NEW i \in 1..Len(flying), Lose(i)
    PROVE  AnsweredOnce' /\ Seen' = Seen /\ Came' = Came /\ Timed' = Timed
<1> USE DEF Basic
<1>1. PICK F \in Nat : F = Len(flying)
  BY TypeFacts
<1>2. /\ UNCHANGED <<protocol, requests, inbox, data, results>>
      /\ protocol = "udp"
      /\ Len(flying') = F - 1
      /\ \A j \in 1..(F - 1) : flying'[j] = IF j < i THEN flying[j] ELSE flying[j + 1]
  BY <1>1, LoseFacts
<1>3. Seen' = Seen /\ Came' = Came /\ Timed' = Timed
  BY <1>2 DEF Seen, Came, Timed
<1> DEFINE was(j) == IF j < i THEN j ELSE j + 1
<1>4. ASSUME NEW j \in 1..Len(flying')
      PROVE  was(j) \in 1..F /\ flying'[j] = flying[was(j)]
  <2>1. j \in 1..(F - 1) /\ flying'[j] = IF j < i THEN flying[j] ELSE flying[j + 1]
    BY <1>1, <1>2
  <2>2. CASE j < i
    BY <2>1, <2>2, <1>1
  <2>3. CASE ~(j < i)
    BY <2>1, <2>3, <1>1
  <2> QED
    BY <2>2, <2>3
<1>5. \A j, k \in 1..Len(flying') : j # k => was(j) # was(k)
  BY <1>1, <1>2
<1> HIDE DEF was
<1>6. /\ \A j, k \in 1..Len(flying') : j # k => flying'[j].of # flying'[k].of
      /\ \A j \in 1..Len(flying') : flying'[j].bars = Bars => flying'[j].of \notin Seen
      /\ \A j \in 1..Len(requests) : \A k \in 1..Len(flying') : requests[j] \notin flying'[k].of
  BY <1>1, <1>4, <1>5 DEF AnsweredOnce
<1> QED
  BY <1>2, <1>3, <1>6 DEF AnsweredOnce

\* What arrives is seen from then on.
LEMMA DeliverSeen ==
    ASSUME Basic, NEW i \in 1..Len(flying), NEW bars \in 1..flying[i].bars, Deliver(i, bars)
    PROVE  Seen' = Seen \cup {flying[i].of} /\ Came' = Came /\ Timed' = Timed
<1> USE DEF Basic
<1>1. PICK L \in Nat : L = Len(inbox)
  BY TypeFacts
<1>2. /\ UNCHANGED <<data, results>>
      /\ Len(inbox') = L + 1
      /\ \A j \in 1..L : inbox'[j] = inbox[j]
      /\ inbox'[L + 1].of = flying[i].of
  <2>1. /\ UNCHANGED <<data, results>>
        /\ Len(inbox') = L + 1
        /\ \A j \in 1..L : inbox'[j] = inbox[j]
        /\ inbox'[L + 1] = Piece(flying[i].of, bars)
    BY <1>1, DeliverFacts
  <2> QED
    BY <2>1 DEF Piece
<1>3. Came' = Came /\ Timed' = Timed
  BY <1>2 DEF Came, Timed
<1>4. 1..(L + 1) = 1..L \cup {L + 1}
  OBVIOUS
<1>5. {inbox'[j].of : j \in 1..(L + 1)} = {inbox[j].of : j \in 1..L} \cup {flying[i].of}
  BY <1>2, <1>4
<1> QED
  BY <1>1, <1>2, <1>3, <1>5 DEF Seen

LEMMA DeliverKeepsAnsweredOnce ==
    ASSUME Basic, AnsweredOnce, NEW i \in 1..Len(flying), NEW bars \in 1..flying[i].bars,
           Deliver(i, bars)
    PROVE  AnsweredOnce'
<1> USE DEF Basic
<1>1. PICK F \in Nat : F = Len(flying)
  BY TypeFacts
<1>2. Seen' = Seen \cup {flying[i].of}
  BY DeliverSeen
<1>3. /\ UNCHANGED <<protocol, requests>>
      /\ protocol = "tcp" => i = 1
      /\ protocol = "udp" => bars = Bars
      /\ protocol \in {"tcp", "udp"}
      /\ flying[i].bars \in 1..Bars /\ bars \in 1..Bars /\ Bars \in Nat
  <2>1. flying[i] \in PieceUpTo(sent)
    BY DeliverFacts
  <2>2. flying[i].bars \in 1..Bars
    BY <2>1 DEF PieceUpTo
  <2> QED
    BY <2>2, DeliverFacts, TypeFacts DEF TypeOK
<1> DEFINE was(j) == IF bars = flying[i].bars /\ j >= i THEN j + 1 ELSE j
\* Every other response under way stays as it is.
<1>4. ASSUME NEW j \in 1..Len(flying')
      PROVE  /\ was(j) \in 1..F
             /\ flying'[j].of = flying[was(j)].of
             /\ was(j) # i => flying'[j] = flying[was(j)]
             /\ was(j) = i => /\ j = i /\ bars < flying[i].bars
                              /\ flying'[j].bars < Bars
  <2>1. CASE /\ bars = flying[i].bars
             /\ Len(flying') = F - 1
             /\ \A k \in 1..(F - 1) :
                   flying'[k] = IF k < i THEN flying[k] ELSE flying[k + 1]
    BY <2>1, <1>1
  <2>2. CASE /\ bars < flying[i].bars
             /\ Len(flying') = F
             /\ \A k \in 1..F : k # i => flying'[k] = flying[k]
             /\ flying'[i] = Piece(flying[i].of, flying[i].bars - bars)
    BY <2>2, <1>1, <1>3 DEF Piece
  <2> QED
    BY <1>1, <2>1, <2>2, DeliverFacts
<1>5. \A j, k \in 1..Len(flying') : j # k => was(j) # was(k)
  BY <1>1
<1>6. protocol = "tcp" => \A j \in 2..Len(flying') : was(j) \in 2..F /\ was(j) # i
  <2> SUFFICES ASSUME protocol = "tcp", NEW j \in 2..Len(flying')
               PROVE  was(j) \in 2..F /\ was(j) # i
    OBVIOUS
  <2>1. i = 1 /\ j \in 1..Len(flying')
    BY <1>3
  <2> QED
    BY <2>1, <1>4
<1> HIDE DEF was
<1>7. \A j, k \in 1..Len(flying') : j # k => flying'[j].of # flying'[k].of
  BY <1>1, <1>4, <1>5 DEF AnsweredOnce
<1>8. \A j \in 1..Len(requests) :
          /\ \A response \in Seen' : requests[j] \notin response
          /\ \A k \in 1..Len(flying') : requests[j] \notin flying'[k].of
  BY <1>1, <1>2, <1>4 DEF AnsweredOnce
<1>9. \A j \in 1..Len(flying') : flying'[j].bars = Bars => flying'[j].of \notin Seen'
  <2> SUFFICES ASSUME NEW j \in 1..Len(flying'), flying'[j].bars = Bars
               PROVE  flying'[j].of \notin Seen'
    OBVIOUS
  <2>1. was(j) # i /\ flying'[j] = flying[was(j)] /\ was(j) \in 1..F
    BY <1>3, <1>4
  <2> QED
    BY <2>1, <1>1, <1>2 DEF AnsweredOnce
<1>10. protocol = "tcp" => \A j \in 2..Len(flying') : flying'[j].bars = Bars
  <2> SUFFICES ASSUME protocol = "tcp", NEW j \in 2..Len(flying')
               PROVE  flying'[j].bars = Bars
    OBVIOUS
  <2>1. j \in 1..Len(flying') /\ was(j) \in 2..F /\ was(j) # i
    BY <1>6
  <2> QED
    BY <2>1, <1>1, <1>4 DEF AnsweredOnce
<1> QED
  BY <1>3, <1>7, <1>8, <1>9, <1>10 DEF AnsweredOnce

-----------------------------------------------------------------------------
(* No more times are recorded than there are responses.                    *)

\* The times and the responses of the first i orders.
TimedTo(i) == {j \in 1..i : results[j].kind = "rtt"}
CameTo(i) == UNION {results[j].answer : j \in 1..i}
CreditTo(i) == /\ Cardinality(TimedTo(i)) <= Cardinality(CameTo(i))
               /\ UNION CameTo(i) \subseteq 1..i

LEMMA CreditedByPrefix ==
    AnswersCover <=> \A i \in 1..Len(results) : CreditTo(i)
BY DEF AnswersCover, CreditTo, TimedTo, CameTo

LEMMA TimesSoFar ==
    ASSUME TypeOK, AnswersCover
    PROVE  Cardinality(Timed) <= Cardinality(Came)
<1>1. PICK L \in Nat : L = Len(results)
  BY TypeFacts
<1>2. CASE L = 0
  <2>1. Timed = {} /\ Came = {}
    BY <1>1, <1>2 DEF Timed, Came
  <2> QED
    BY <2>1, FS_EmptySet
<1>3. CASE L # 0
  <2>1. CreditTo(L)
    BY <1>1, <1>3, CreditedByPrefix
  <2> QED
    BY <2>1, <1>1 DEF CreditTo, TimedTo, CameTo, Timed, Came
<1> QED
  BY <1>2, <1>3

LEMMA ConcludedKeepsCredited ==
    ASSUME Basic, Basic', AnswersCover, waiting, NEW kind, NEW answer, Concluded(kind, answer),
           kind = "rtt" => Cardinality(Timed') <= Cardinality(Came')
    PROVE  AnswersCover'
<1> USE DEF Basic
<1>1. PICK L \in Nat : L = Len(results) /\ sent = L + 1
  BY TypeFacts DEF InOrder
<1>2. /\ Len(results') = L + 1 /\ sent' = L + 1
      /\ \A j \in 1..L : results'[j] = results[j]
  BY <1>1 DEF Concluded
<1>3. Cardinality(Timed') <= Cardinality(Came')
  <2>1. CASE kind # "rtt"
    <3>1. Timed' = Timed /\ Came' = Came \cup answer
      BY <2>1, ConcludedAdds
    <3>2. IsFiniteSet(Came') /\ Cardinality(Came') \in Nat
      <4>1. SeenFacts'
        BY SeenTyped, PTL
      <4> QED
        BY <4>1 DEF SeenFacts
    <3>3. Cardinality(Came) <= Cardinality(Came')
      BY <3>1, <3>2, FS_Subset
    <3>4. Cardinality(Timed) <= Cardinality(Came)
      BY TimesSoFar
    <3>5. Cardinality(Timed) \in Nat /\ Cardinality(Came) \in Nat
      BY SeenTyped DEF SeenFacts
    <3> QED
      BY <3>1, <3>2, <3>3, <3>4, <3>5
  <2> QED
    BY <2>1
<1>4. UNION Came' \subseteq 1..(L + 1)
  <2>1. Came' \in SUBSET SUBSET (1..sent')
    <3>1. SeenFacts'
      BY SeenTyped, PTL
    <3> QED
      BY <3>1 DEF SeenFacts
  <2> QED
    BY <1>2, <2>1
<1>5. CreditTo(L + 1)'
  BY <1>2, <1>3, <1>4 DEF CreditTo, TimedTo, CameTo, Timed, Came
<1>6. ASSUME NEW i \in 1..L
      PROVE  CreditTo(i)'
  <2>1. \A j \in 1..i : results'[j] = results[j]
    BY <1>2
  <2>2. TimedTo(i)' = TimedTo(i) /\ CameTo(i)' = CameTo(i)
    BY <2>1 DEF TimedTo, CameTo
  <2>3. CreditTo(i)
    BY <1>1, CreditedByPrefix
  <2> QED
    BY <2>2, <2>3 DEF CreditTo
<1>7. \A i \in 1..Len(results') : CreditTo(i)'
  <2>1. \A i \in 1..Len(results') : i \in 1..L \/ i = L + 1
    BY <1>2
  <2> QED
    BY <1>5, <1>6, <2>1
<1>8. AnswersCover' <=> \A i \in 1..Len(results') : CreditTo(i)'
  BY DEF AnswersCover, CreditTo, TimedTo, CameTo
<1> QED
  BY <1>7, <1>8

LEMMA CreditedKept ==
    ASSUME AnswersCover, UNCHANGED results
    PROVE  AnswersCover'
<1>1. ASSUME NEW i \in 1..Len(results')
      PROVE  CreditTo(i)'
  <2>1. CreditTo(i)
    BY CreditedByPrefix
  <2> QED
    BY <2>1 DEF CreditTo, TimedTo, CameTo
<1>2. AnswersCover' <=> \A i \in 1..Len(results') : CreditTo(i)'
  BY DEF AnswersCover, CreditTo, TimedTo, CameTo
<1> QED
  BY <1>1, <1>2

LEMMA RestNat ==
    ASSUME TypeOK
    PROVE  /\ Rest \in Nat
           /\ flying # <<>> => flying[1].bars \in 1..Bars /\ Len(flying) >= 1
<1>1. ASSUME flying # <<>>
      PROVE  flying[1].bars \in 1..Bars /\ Len(flying) >= 1
  <2>1. Len(flying) \in Nat \ {0} /\ flying \in Seq(PieceUpTo(sent))
    BY <1>1, TypeFacts, EmptySeq
  <2>2. flying[1] \in PieceUpTo(sent)
    BY <2>1, ElementOfSeq
  <2> QED
    BY <2>1, <2>2 DEF PieceUpTo
<1>2. Bars \in Nat
  BY TypeFacts
<1> QED
  BY <1>1, <1>2 DEF Rest

\* A time that is recorded over UDP is that of a response nobody had seen ...
LEMMA ReceiveUdpCredit ==
    ASSUME Basic, Credit, Receive, protocol = "udp"
    PROVE  Credit' /\ Cardinality(Timed') <= Cardinality(Came')
<1> USE DEF Basic
<1>1. PICK L \in Nat : L = Len(inbox)
  BY TypeFacts
<1>2. /\ inbox # <<>> /\ Concluded("rtt", Joined.of)
      /\ Len(inbox') = L - 1
      /\ \A j \in 1..(L - 1) : inbox'[j] = inbox[j + 1]
  BY <1>1, ReceiveFacts
<1>3. L >= 1
  BY <1>1, <1>2, TypeFacts, EmptySeq
<1>4. Joined.of = {inbox[1].of}
  <2>1. data.of = {}
    BY DEF Whole, NoData
  <2> QED
    BY <1>2, <2>1, JoinedFacts
<1>5. /\ Came' = Came \cup {inbox[1].of}
      /\ Timed' = Timed \cup {Len(results) + 1}
      /\ Len(results) + 1 \notin Timed
  BY <1>2, <1>4, ConcludedAdds
<1>6. /\ \A i, j \in 1..L : i # j => inbox[i].of # inbox[j].of
      /\ \A i \in 1..L : inbox[i].of \notin Came
      /\ Cardinality(Timed) <= Cardinality(Came)
  BY <1>1 DEF Credit
<1>7. Cardinality(Came') = Cardinality(Came) + 1 /\ Cardinality(Timed') = Cardinality(Timed) + 1
  <2>1. inbox[1].of \notin Came
    BY <1>3, <1>6
  <2>2. IsFiniteSet(Came) /\ IsFiniteSet(Timed)
    BY SeenTyped DEF SeenFacts
  <2>3. Cardinality(Came \cup {inbox[1].of}) = Cardinality(Came) + 1
    BY <2>1, <2>2, FS_AddElement
  <2>4. Cardinality(Timed \cup {Len(results) + 1}) = Cardinality(Timed) + 1
    BY <1>5, <2>2, FS_AddElement
  <2> QED
    BY <1>5, <2>3, <2>4
<1>8. Cardinality(Timed') <= Cardinality(Came')
  BY <1>6, <1>7, SeenTyped DEF SeenFacts
<1>9. \A j \in 1..(L - 1) : j + 1 \in 1..L /\ j + 1 # 1
  BY <1>1
<1>10. \A i, j \in 1..(L - 1) : i # j => inbox'[i].of # inbox'[j].of
  <2> SUFFICES ASSUME NEW i \in 1..(L - 1), NEW j \in 1..(L - 1), i # j
               PROVE  inbox'[i].of # inbox'[j].of
    OBVIOUS
  <2>1. i + 1 \in 1..L /\ j + 1 \in 1..L /\ i + 1 # j + 1
    OBVIOUS
  <2> QED
    BY <2>1, <1>2, <1>6
<1>11. \A i \in 1..(L - 1) : inbox'[i].of \notin Came'
  <2> SUFFICES ASSUME NEW i \in 1..(L - 1) PROVE inbox'[i].of \notin Came'
    OBVIOUS
  <2>1. i + 1 \in 1..L /\ 1 \in 1..L /\ i + 1 # 1 /\ inbox'[i] = inbox[i + 1]
    BY <1>2, <1>3
  <2> QED
    BY <2>1, <1>5, <1>6
<1>12. protocol' = "udp"
  BY <1>2 DEF Concluded
<1> QED
  BY <1>2, <1>8, <1>10, <1>11, <1>12 DEF Credit

\* ... and over TCP it uses up as many separators as a response has.
LEMMA ReceiveTcpCredit ==
    ASSUME Basic, Basic', Credit, Receive, protocol # "udp"
    PROVE  Credit' /\ Cardinality(Timed') <= Cardinality(Came')
<1> USE DEF Basic
<1>1. /\ Concluded("rtt", Joined.of) /\ inbox' = <<>>
      /\ data.bars + Separators(inbox) >= Bars
  BY ReceiveFacts
<1>2. UNCHANGED <<protocol, flying>> /\ data' = NoData
  BY <1>1 DEF Concluded
<1>3. Seen' = Seen
  BY ReadingKeepsSeen
<1>4. Seen' = Came'
  <2>1. Seen' = Came' \cup data'.of \cup {inbox'[i].of : i \in 1..Len(inbox')}
    BY DEF Seen
  <2>2. data'.of = {} /\ {inbox'[i].of : i \in 1..Len(inbox')} = {}
    BY <1>1, <1>2 DEF NoData
  <2> QED
    BY <2>1, <2>2
<1>5. Cardinality(Timed') = Cardinality(Timed) + 1
  <2>1. Timed' = Timed \cup {Len(results) + 1} /\ Len(results) + 1 \notin Timed
    BY <1>1, ConcludedAdds
  <2> QED
    BY <2>1, SeenTyped, FS_AddElement DEF SeenFacts
<1>6. PICK t \in Nat, c \in Nat, d \in Nat, s \in Nat, r \in Nat, b \in Nat :
        /\ t = Cardinality(Timed) /\ c = Cardinality(Seen)
        /\ d = data.bars /\ s = Separators(inbox) /\ r = Rest /\ b = Bars
        /\ b >= 1
  <2>1. Rest \in Nat
    BY RestNat
  <2>2. Separators(inbox) \in Nat
    BY TypeFacts, SeparatorsNat
  <2>3. Cardinality(Timed) \in Nat /\ Cardinality(Seen) \in Nat
    BY SeenTyped DEF SeenFacts
  <2>4. data.bars \in Nat /\ Bars \in Nat /\ Bars >= 1
    BY TypeFacts
  <2> QED
    BY <2>1, <2>2, <2>3, <2>4
<1>7. b * t + d + s + r <= b * c
  BY <1>6 DEF Credit
<1>8. d + s >= b
  BY <1>1, <1>6
<1>9. b * (t + 1) + 0 + 0 + r <= b * c
  <2>1. b * (t + 1) = b * t + b
    BY <1>6
  <2>2. b * t \in Int /\ b * c \in Int
    BY <1>6
  <2> QED
    BY <1>6, <1>7, <1>8, <2>1, <2>2
<1>10. t + 1 <= c
  <2> SUFFICES ASSUME c <= t PROVE FALSE
    BY <1>6
  <2>1. b * c <= b * t
    BY <1>6
  <2>2. b * (t + 1) = b * t + b /\ b * t \in Int /\ b * c \in Int
    BY <1>6
  <2> QED
    BY <1>6, <1>9, <2>1, <2>2
<1>11. Cardinality(Timed') <= Cardinality(Came')
  BY <1>3, <1>4, <1>5, <1>6, <1>10
<1>12. Rest' = Rest /\ Separators(inbox') = 0 /\ data'.bars = 0 /\ protocol' # "udp"
  BY <1>1, <1>2, NoSeparators DEF Rest, NoData
<1>13. Credit'
  BY <1>3, <1>5, <1>6, <1>9, <1>12 DEF Credit
<1> QED
  BY <1>11, <1>13

LEMMA ReceivePartKeepsCredit ==
    ASSUME Basic, Credit, ReceivePart
    PROVE  Credit'
<1> USE DEF Basic
<1>1. /\ UNCHANGED <<protocol, flying, results>>
      /\ protocol # "udp"
      /\ inbox' = <<>>
      /\ data'.bars = data.bars + Separators(inbox)
  BY ReceivePartFacts
<1>2. Seen' = Seen /\ Timed' = Timed /\ Rest' = Rest
  BY <1>1, ReadingKeepsSeen DEF Timed, Rest
<1>3. Separators(inbox') = 0
  BY <1>1, NoSeparators
<1>4. data.bars \in Nat /\ Separators(inbox) \in Nat /\ Rest \in Nat
  BY TypeFacts, SeparatorsNat, RestNat
<1>5. Bars * Cardinality(Timed) \in Int
  BY TypeFacts, SeenTyped DEF SeenFacts
<1>6. Bars * Cardinality(Timed) + data'.bars + Separators(inbox') + Rest
        = Bars * Cardinality(Timed) + data.bars + Separators(inbox) + Rest
  BY <1>1, <1>3, <1>4, <1>5
<1> QED
  BY <1>1, <1>2, <1>6 DEF Credit

LEMMA GiveUpKeepsCredit ==
    ASSUME Basic, Credit, Timeout \/ ReceiveEnd \/ Broken
    PROVE  Credit'
<1> USE DEF Basic
<1>1. PICK kind \in {"eof", "timeout", "error"} : Concluded(kind, data.of) /\ inbox' = inbox
  BY GiveUpFacts
<1>2. /\ UNCHANGED <<protocol, flying>> /\ data' = NoData
      /\ Came' = Came \cup data.of /\ Timed' = Timed
  BY <1>1, ConcludedAdds DEF Concluded
<1>3. Seen' = Seen /\ Rest' = Rest
  BY <1>2, ReadingKeepsSeen DEF Rest
<1>4. CASE protocol = "udp"
  <2>1. Came' = Came
    BY <1>2, <1>4 DEF Whole, NoData
  <2> QED
    BY <1>1, <1>2, <1>4, <2>1 DEF Credit
<1>5. CASE protocol # "udp"
  <2>1. data.bars \in Nat /\ Separators(inbox) \in Nat /\ Rest \in Nat /\ data'.bars = 0
    BY <1>2, TypeFacts, SeparatorsNat, RestNat DEF NoData
  <2>2. Bars * Cardinality(Timed) \in Int /\ Bars * Cardinality(Seen) \in Int
    BY TypeFacts, SeenTyped DEF SeenFacts
  <2>3. Bars * Cardinality(Timed) + data.bars + Separators(inbox) + Rest
          <= Bars * Cardinality(Seen)
    BY <1>5 DEF Credit
  <2>4. Bars * Cardinality(Timed) + 0 + Separators(inbox) + Rest
          <= Bars * Cardinality(Seen)
    BY <2>1, <2>2, <2>3
  <2> QED
    BY <1>1, <1>2, <1>3, <1>5, <2>1, <2>4 DEF Credit
<1> QED
  BY <1>4, <1>5

\* Steps that change neither what was received nor the oldest response.
LEMMA SameKeepsCredit ==
    ASSUME Credit, UNCHANGED <<protocol, inbox, data>>,
           Seen' = Seen, Came' = Came, Timed' = Timed,
           Rest' = Rest \/ protocol = "udp"
    PROVE  Credit'
BY DEF Credit

LEMMA OtherStepsKeepCredit ==
    ASSUME Basic, AnsweredOnce, Credit,
           \/ Calm \/ Send \/ ServeFails \/ ServerEnds
           \/ \E n \in 1..Len(requests) : Serve(n)
           \/ \E i \in 1..Len(flying) : Lose(i)
    PROVE  Credit' /\ UNCHANGED results
<1> USE DEF Basic
<1>1. CASE Calm
  <2>1. UNCHANGED <<protocol, inbox, data, flying, results>>
    BY <1>1 DEF Calm
  <2>2. Rest' = Rest
    BY <2>1 DEF Rest
  <2> QED
    BY <1>1, <2>1, <2>2, CalmKeepsAnsweredOnce, SameKeepsCredit
<1>2. CASE Send
  <2>1. UNCHANGED <<protocol, inbox, data, flying, results>>
    BY <1>2, SendFacts
  <2>2. Rest' = Rest
    BY <2>1 DEF Rest
  <2> QED
    BY <1>2, <2>1, <2>2, SendKeepsAnsweredOnce, SameKeepsCredit
<1>3. CASE ServeFails \/ ServerEnds
  <2>1. UNCHANGED <<protocol, inbox, data, flying, results>>
    BY <1>3, ServerStopFacts
  <2>2. Rest' = Rest
    BY <2>1 DEF Rest
  <2> QED
    BY <1>3, <2>1, <2>2, ServerStopKeepsAnsweredOnce, SameKeepsCredit
<1>4. ASSUME NEW n \in 1..Len(requests), Serve(n)
      PROVE  Credit' /\ UNCHANGED results
  <2> DEFINE new == Piece({requests[j] : j \in 1..n}, Bars)
  <2>1. /\ UNCHANGED <<protocol, inbox, data, results>>
        /\ Len(flying') = Len(flying) + 1
        /\ \A j \in 1..Len(flying) : flying'[j] = flying[j]
        /\ flying'[Len(flying) + 1] = new
    BY <1>4, ServeFacts
  <2>2. new.bars = Bars
    BY DEF Piece
  <2> HIDE DEF new
  <2>3. Len(flying) \in Nat /\ Bars \in Nat
    BY TypeFacts
  <2>4. flying' # <<>>
    BY <2>1, <2>3
  <2>5. CASE flying = <<>>
    <3>1. flying'[1].bars = Bars
      BY <2>1, <2>2, <2>5
    <3> QED
      BY <1>4, <2>1, <2>3, <2>5, <3>1, ServeKeepsAnsweredOnce, SameKeepsCredit DEF Rest
  <2>6. CASE flying # <<>>
    <3>1. flying'[1] = flying[1]
      BY <2>1, <2>3, <2>6, RestNat
    <3>2. Rest' = Rest
      BY <2>4, <2>6, <3>1 DEF Rest
    <3> QED
      BY <1>4, <2>1, <3>2, ServeKeepsAnsweredOnce, SameKeepsCredit
  <2> QED
    BY <2>5, <2>6
<1>5. ASSUME NEW i \in 1..Len(flying), Lose(i)
      PROVE  Credit' /\ UNCHANGED results
  BY <1>5, LoseFacts, LoseKeepsAnsweredOnce, SameKeepsCredit
<1> QED
  BY <1>1, <1>2, <1>3, <1>4, <1>5

LEMMA NextRunKeepsCredit ==
    ASSUME Basic, NextRun
    PROVE  Credit' /\ AnswersCover' /\ AnsweredOnce'
<1>1. /\ protocol' \in {"tcp", "udp"}
      /\ requests' = <<>> /\ flying' = <<>> /\ inbox' = <<>>
      /\ results' = <<>> /\ data' = NoData
  BY NextRunFacts
<1>2. Came' = {} /\ Timed' = {} /\ Seen' = {}
  BY <1>1 DEF Came, Timed, Seen, NoData
<1>3. Cardinality(Came') = 0 /\ Cardinality(Timed') = 0 /\ Cardinality(Seen') = 0
  BY <1>2, FS_EmptySet
<1>4. Separators(inbox') = 0 /\ Rest' = 0 /\ data'.bars = 0
  BY <1>1, NoSeparators DEF Rest, NoData
<1>5. Bars * 0 + 0 + 0 + 0 <= Bars * 0
  BY CountsAssumption
<1>6. Credit'
  BY <1>1, <1>3, <1>4, <1>5 DEF Credit
<1>7. AnswersCover'
  BY <1>1 DEF AnswersCover
<1> QED
  BY <1>1, <1>6, <1>7 DEF AnsweredOnce

LEMMA DeliverKeepsCredit ==
    ASSUME Basic, AnsweredOnce, Credit,
           NEW i \in 1..Len(flying), NEW bars \in 1..flying[i].bars, Deliver(i, bars)
    PROVE  Credit'
<1> USE DEF Basic
<1>1. PICK F \in Nat, L \in Nat : F = Len(flying) /\ L = Len(inbox)
  BY TypeFacts
<1>2. Seen' = Seen \cup {flying[i].of} /\ Came' = Came /\ Timed' = Timed
  BY DeliverSeen
<1>3. /\ UNCHANGED <<protocol, data>>
      /\ protocol = "tcp" => i = 1
      /\ protocol = "udp" => bars = Bars
      /\ Len(inbox') = L + 1
      /\ \A j \in 1..L : inbox'[j] = inbox[j]
      /\ inbox'[L + 1] = Piece(flying[i].of, bars)
      /\ Separators(inbox') = Separators(inbox) + bars
  BY <1>1, DeliverFacts
<1>4. CASE protocol = "udp"
  <2>1. /\ \A j, k \in 1..L : j # k => inbox[j].of # inbox[k].of
        /\ \A j \in 1..L : inbox[j].of \notin Came
        /\ Cardinality(Timed) <= Cardinality(Came)
    BY <1>1, <1>4 DEF Credit
  <2>2. flying[i].of \notin Seen
    BY <1>4 DEF AnsweredOnce, Whole
  <2>3. flying[i].of \notin Came /\ \A j \in 1..L : inbox[j].of # flying[i].of
    BY <2>2, <1>1 DEF Seen
  <2>4. inbox'[L + 1].of = flying[i].of
    BY <1>3 DEF Piece
  <2>5. \A j \in 1..(L + 1) : j \in 1..L \/ j = L + 1
    OBVIOUS
  <2>6. /\ \A j, k \in 1..(L + 1) : j # k => inbox'[j].of # inbox'[k].of
        /\ \A j \in 1..(L + 1) : inbox'[j].of \notin Came
    BY <2>1, <2>3, <2>4, <2>5, <1>3
  <2> QED
    BY <2>1, <2>6, <1>2, <1>3, <1>4 DEF Credit
<1>5. CASE protocol # "udp"
  <2>1. i = 1
    BY <1>3, <1>5 DEF TypeOK
  <2>2. PICK t \in Nat, c \in Nat, d \in Nat, s \in Nat, b \in Nat :
          /\ t = Cardinality(Timed) /\ c = Cardinality(Seen)
          /\ d = data.bars /\ s = Separators(inbox) /\ b = Bars
          /\ b >= 1
    <3>1. Separators(inbox) \in Nat
      BY TypeFacts, SeparatorsNat
    <3>2. Cardinality(Timed) \in Nat /\ Cardinality(Seen) \in Nat
      BY SeenTyped DEF SeenFacts
    <3>3. data.bars \in Nat /\ Bars \in Nat /\ Bars >= 1
      BY TypeFacts
    <3> QED
      BY <3>1, <3>2, <3>3
  <2>3. /\ flying # <<>> /\ flying[1].bars \in 1..b /\ flying[1].bars \in Nat
        /\ bars \in 1..flying[1].bars /\ bars \in Nat
    BY <1>1, <2>1, <2>2, RestNat
  <2>4. b * t + d + s + Rest <= b * c
    BY <1>5, <2>2 DEF Credit
  <2>5. IsFiniteSet(Seen)
    BY SeenTyped DEF SeenFacts
  <2>6. Cardinality(Seen') = IF flying[1].of \in Seen THEN c ELSE c + 1
    BY <1>2, <2>1, <2>2, <2>5, FS_AddElement
  \* What is still to come of the response.
  <2>7. Rest' = flying[1].bars - bars
    <3>1. CASE /\ bars = flying[i].bars
               /\ Len(flying') = F - 1
               /\ \A j \in 1..(F - 1) :
                     flying'[j] = IF j < i THEN flying[j] ELSE flying[j + 1]
      <4>1. flying' # <<>> => flying'[1].bars = Bars
        <5> SUFFICES ASSUME flying' # <<>> PROVE flying'[1].bars = Bars
          OBVIOUS
        <5>1. Len(flying') >= 1
          <6>1. flying' \in Seq(PieceUpTo(sent))
            BY DeliverFacts
          <6> QED
            BY <6>1, EmptySeq
        <5>2. flying'[1] = flying[2] /\ 2 \in 2..F
          BY <5>1, <3>1, <2>1, <1>1
        <5> QED
          BY <5>2, <1>1, <1>5 DEF AnsweredOnce, TypeOK
      <4>2. Rest' = 0
        BY <4>1, <2>2 DEF Rest
      <4> QED
        BY <4>2, <3>1, <2>1, <2>3
    <3>2. CASE /\ bars < flying[i].bars
               /\ Len(flying') = F
               /\ flying'[i] = Piece(flying[i].of, flying[i].bars - bars)
      <4>1. flying'[1].bars = flying[1].bars - bars
        BY <3>2, <2>1 DEF Piece
      <4>2. flying' # <<>>
        BY <3>2, <1>1
      <4>3. flying'[1].bars < Bars
        BY <4>1, <2>2, <2>3
      <4> QED
        BY <4>1, <4>2, <4>3 DEF Rest
    <3> QED
      BY <1>1, <3>1, <3>2, DeliverFacts
  <2>8. b * Cardinality(Seen') >= b * c + flying[1].bars - Rest
    <3>1. CASE flying[1].bars = b
      <4>1. flying[1].of \notin Seen
        BY <3>1, <2>1, <2>2 DEF AnsweredOnce
      <4>2. Cardinality(Seen') = c + 1 /\ Rest = 0
        BY <4>1, <2>2, <2>6, <3>1 DEF Rest
      <4>3. b * (c + 1) = b * c + b /\ b * c \in Int
        BY <2>2
      <4> QED
        BY <4>2, <4>3, <3>1
    <3>2. CASE flying[1].bars # b
      <4>1. Rest = flying[1].bars
        BY <2>2, <2>3, <3>2 DEF Rest
      <4>2. b * (c + 1) = b * c + b /\ b * c \in Int
        BY <2>2
      <4> QED
        BY <4>1, <4>2, <2>2, <2>3, <2>6, SMTT(30)
    <3> QED
      BY <3>1, <3>2
  <2>9. b * t \in Int /\ b * c \in Int /\ Rest \in Nat
    BY <2>2, RestNat
  <2>10. PICK c1 \in Nat : c1 = Cardinality(Seen')
    BY <2>2, <2>6
  <2>11. b * c1 \in Int
    BY <2>2
  <2>12. b * t + d + (s + bars) + (flying[1].bars - bars) <= b * c1
    <3>1. PICK bt \in Int, bc \in Int, bc1 \in Int, r \in Nat, f \in Nat :
            /\ bt = b * t /\ bc = b * c /\ bc1 = b * c1 /\ r = Rest
            /\ f = flying[1].bars
      BY <2>2, <2>3, <2>9, <2>10, <2>11
    <3>2. bt + d + s + r <= bc
      BY <2>4, <3>1
    <3>3. bc1 >= bc + f - r
      BY <2>8, <2>10, <3>1
    <3>4. bt + d + (s + bars) + (f - bars) <= bc1
      <4>1. /\ bt \in Int /\ bc \in Int /\ bc1 \in Int /\ r \in Int /\ f \in Int
            /\ d \in Int /\ s \in Int /\ bars \in Int
        BY <2>2, <2>3, <3>1, SMTT(30)
      <4>2. (s + bars) + (f - bars) = s + f
        BY <4>1
      <4> QED
        BY <4>1, <4>2, <3>2, <3>3
    <3> QED
      BY <3>1, <3>4
  <2> QED
    BY <1>2, <1>3, <1>5, <2>2, <2>7, <2>10, <2>12 DEF Credit
<1> QED
  BY <1>4, <1>5

-----------------------------------------------------------------------------
(* What is under way while every order got its time.                       *)

Idle == requests = <<>> /\ flying = <<>> /\ inbox = <<>> /\ data = NoData

Asked ==
    waiting /\ requests = <<sent>> /\ flying = <<>> /\ inbox = <<>> /\ data = NoData

Answering ==
    /\ waiting /\ requests = <<>>
    /\ Len(flying) <= 1
    /\ protocol = "udp" => Len(flying) + Len(inbox) <= 1
    /\ \A i \in 1..Len(flying) : flying[i].of = {sent}
    /\ \A i \in 1..Len(inbox) : inbox[i].of = {sent}
    /\ data.of \subseteq {{sent}}
    /\ flying # <<>> => data.bars + Separators(inbox) + flying[1].bars <= Bars

AllTimed == Undisturbed(Len(results) + 1)

LEMMA ExactCases == Exact <=> (AllTimed => (Idle \/ Asked \/ Answering))
BY Zenon DEF Exact, AllTimed, Idle, Asked, Answering

LEMMA LengthZero ==
    ASSUME NEW S, NEW s \in Seq(S), ~(Len(s) >= 1)
    PROVE  s = <<>>
BY LenProperties, EmptySeq

\* What was recorded before is not touched.
LEMMA UndisturbedSoFar ==
    ASSUME TypeOK, NEW kind, NEW answer, Concluded(kind, answer),
           NEW i \in 1..(Len(results) + 1)
    PROVE  Undisturbed(i)' <=> Undisturbed(i)
<1>1. Len(results) \in Nat
  BY TypeFacts
<1>2. \A j \in 1..(i - 1) : results'[j] = results[j]
  BY <1>1 DEF Concluded
<1> QED
  BY <1>2 DEF Undisturbed

LEMMA ConcludedUndisturbed ==
    ASSUME TypeOK, NEW kind, NEW answer, Concluded(kind, answer), AllTimed'
    PROVE  AllTimed /\ kind = "rtt"
<1>1. Len(results) \in Nat /\ Len(results') = Len(results) + 1
      /\ results'[Len(results) + 1].kind = kind
  BY TypeFacts DEF Concluded
<1>2. \A j \in 1..(Len(results) + 1) : results'[j].kind = "rtt"
  BY <1>1 DEF AllTimed, Undisturbed
<1>3. kind = "rtt"
  BY <1>1, <1>2
<1>4. \A j \in 1..Len(results) : results[j].kind = "rtt"
  BY <1>1, <1>2 DEF Concluded
<1> QED
  BY <1>1, <1>3, <1>4 DEF AllTimed, Undisturbed

LEMMA CalmKeepsExact ==
    ASSUME Calm, Exact, ExactUntilTimeout
    PROVE  Exact' /\ ExactUntilTimeout'
BY DEF Calm, Exact, ExactUntilTimeout, Undisturbed, Separators

LEMMA NextRunKeepsExact ==
    ASSUME NextRun
    PROVE  Exact' /\ ExactUntilTimeout'
<1>1. requests' = <<>> /\ flying' = <<>> /\ inbox' = <<>> /\ results' = <<>>
      /\ data' = NoData
  BY DEF NextRun
<1>2. Exact'
  BY <1>1 DEF Exact, NoData
<1>3. ExactUntilTimeout'
  BY <1>1 DEF ExactUntilTimeout
<1> QED
  BY <1>2, <1>3

\* Steps that record nothing.
LEMMA SameTimes ==
    ASSUME UNCHANGED results, Exact, ExactUntilTimeout,
           AllTimed /\ (Idle \/ Asked \/ Answering) => (Idle \/ Asked \/ Answering)'
    PROVE  Exact' /\ ExactUntilTimeout'
<1>1. AllTimed' => AllTimed
  BY DEF AllTimed, Undisturbed
<1>2. AllTimed' => (Idle \/ Asked \/ Answering)'
  BY <1>1, ExactCases
<1>3. Exact'
  BY <1>2 DEF Exact, AllTimed, Idle, Asked, Answering
<1>4. ExactUntilTimeout'
  BY DEF ExactUntilTimeout, Undisturbed
<1> QED
  BY <1>3, <1>4

LEMMA SendKeepsExact ==
    ASSUME TypeOK, Send, Exact, ExactUntilTimeout
    PROVE  Exact' /\ ExactUntilTimeout'
<1>1. /\ ~waiting /\ waiting' /\ sent' = sent + 1
      /\ requests' \in {requests, Append(requests, sent + 1)}
      /\ UNCHANGED <<flying, inbox, data, results>>
  BY DEF Send
<1>2. ASSUME Idle \/ Asked \/ Answering
      PROVE  (Idle \/ Asked \/ Answering)'
  <2>1. Idle
    BY <1>1, <1>2 DEF Asked, Answering
  <2>2. requests' = <<>> \/ requests' = <<sent'>>
    BY <1>1, <2>1 DEF Idle
  <2> QED
    BY <1>1, <2>1, <2>2 DEF Idle, Asked, NoData
<1> QED
  BY <1>1, <1>2, SameTimes

LEMMA ServerStopKeepsExact ==
    ASSUME TypeOK, ServeFails \/ ServerEnds, Exact, ExactUntilTimeout
    PROVE  Exact' /\ ExactUntilTimeout'
<1>1. /\ requests' = <<>> \/ (requests # <<>> /\ requests' = Tail(requests))
      /\ UNCHANGED <<protocol, sent, waiting, flying, inbox, data, results>>
  BY DEF ServeFails, ServerEnds
<1>2. ASSUME Idle \/ Asked \/ Answering
      PROVE  (Idle \/ Asked \/ Answering)'
  <2>1. requests' = <<>>
    BY <1>1, <1>2 DEF Idle, Asked, Answering
  <2>2. CASE Idle \/ Asked
    BY <1>1, <2>1, <2>2 DEF Idle, Asked, NoData
  <2>3. CASE Answering
    <3>1. Answering'
      BY <1>1, <2>1, <2>3 DEF Answering, Separators
    <3> QED
      BY <3>1
  <2> QED
    BY <1>2, <2>2, <2>3
<1> QED
  BY <1>1, <1>2, SameTimes

LEMMA ServeKeepsExact ==
    ASSUME TypeOK, NEW n \in 1..Len(requests), Serve(n), Exact, ExactUntilTimeout
    PROVE  Exact' /\ ExactUntilTimeout'
<1>1. /\ UNCHANGED <<protocol, sent, waiting, inbox, data, results>>
      /\ flying' = Append(flying, Piece({requests[i] : i \in 1..n}, Bars))
      /\ requests' = SubSeq(requests, n + 1, Len(requests))
  BY DEF Serve
<1>2. ASSUME Idle \/ Asked \/ Answering
      PROVE  (Idle \/ Asked \/ Answering)'
  <2>1. Asked
    BY <1>2 DEF Idle, Answering
  <2>2. n = 1 /\ Len(requests) = 1 /\ requests[1] = sent
    BY <2>1 DEF Asked
  <2>3. {requests[i] : i \in 1..n} = {sent}
    BY <2>2
  <2>4. flying' = <<Piece({sent}, Bars)>>
    <3>1. PICK p : p = Piece({sent}, Bars)
      OBVIOUS
    <3>2. flying' = Append(<<>>, p)
      BY <1>1, <2>1, <2>3, <3>1 DEF Asked
    <3> QED
      BY <3>1, <3>2
  <2>5. requests' = <<>>
    BY <1>1, <2>2, SubSeqEmpty
  <2>6. Len(flying') = 1 /\ flying'[1].of = {sent} /\ flying'[1].bars = Bars
    BY <2>4 DEF Piece
  <2>7. /\ waiting' /\ inbox' = <<>> /\ Len(inbox') = 0
        /\ data'.of = {} /\ data'.bars = 0 /\ sent' = sent
    BY <1>1, <2>1 DEF Asked, NoData
  <2>8. Separators(inbox') = 0
    BY <2>7, NoSeparators
  <2>9. Bars \in Nat
    BY TypeFacts
  <2>10. Answering'
    BY <2>5, <2>6, <2>7, <2>8, <2>9 DEF Answering
  <2> QED
    BY <2>10
<1> QED
  BY <1>1, <1>2, SameTimes

LEMMA LoseKeepsExact ==
    ASSUME TypeOK, NEW i \in 1..Len(flying), Lose(i), Exact, ExactUntilTimeout
    PROVE  Exact' /\ ExactUntilTimeout'
<1>1. /\ UNCHANGED <<protocol, sent, waiting, requests, inbox, data, results>>
      /\ protocol = "udp"
      /\ flying' \in Seq(PieceUpTo(sent)) /\ Len(flying') = Len(flying) - 1
  BY LoseFacts
<1>2. Len(flying) \in Nat /\ Len(inbox) \in Nat
  BY TypeFacts
<1>3. ASSUME Idle \/ Asked \/ Answering
      PROVE  (Idle \/ Asked \/ Answering)'
  <2>1. Answering
    BY <1>3 DEF Idle, Asked
  <2>2. Len(flying) = 1
    <3>1. Len(flying) <= 1
      BY <2>1 DEF Answering
    <3>2. PICK m \in Nat : m = Len(flying)
      BY <1>2
    <3>3. i \in 1..m /\ m <= 1
      BY <3>1, <3>2
    <3>4. m = 1
      BY <3>3
    <3> QED
      BY <3>2, <3>4
  <2>3. flying' = <<>> /\ Len(flying') = 0
    BY <1>1, <2>2, LengthZero
  <2>4. Len(flying') + Len(inbox') <= 1
    BY <1>1, <1>2, <2>1, <2>2, <2>3 DEF Answering
  <2>5. Answering'
    BY <1>1, <2>1, <2>3, <2>4 DEF Answering
  <2> QED
    BY <2>5
<1> QED
  BY <1>1, <1>3, SameTimes

LEMMA DeliverKeepsExact ==
    ASSUME TypeOK, Whole, NEW i \in 1..Len(flying), NEW bars \in 1..flying[i].bars,
           Deliver(i, bars), Exact, ExactUntilTimeout
    PROVE  Exact' /\ ExactUntilTimeout'
<1>1. /\ UNCHANGED <<protocol, sent, waiting, requests, data, results>>
      /\ protocol = "udp" => bars = Bars
      /\ inbox' \in Seq(PieceUpTo(sent)) /\ Len(inbox') = Len(inbox) + 1
      /\ \A j \in 1..Len(inbox) : inbox'[j] = inbox[j]
      /\ inbox'[Len(inbox) + 1] = Piece(flying[i].of, bars)
      /\ Separators(inbox') = Separators(inbox) + bars
      /\ flying' \in Seq(PieceUpTo(sent))
  BY DeliverFacts
<1>2. \/ bars = flying[i].bars /\ Len(flying') = Len(flying) - 1
      \/ /\ bars < flying[i].bars /\ Len(flying') = Len(flying)
         /\ flying'[i] = Piece(flying[i].of, flying[i].bars - bars)
  BY DeliverFacts
<1>3. Len(flying) \in Nat /\ Len(inbox) \in Nat
  BY TypeFacts
<1>4. flying[i].bars \in Nat /\ bars \in Nat /\ Separators(inbox) \in Nat
      /\ data.bars \in Nat /\ Bars \in Nat
  <2>1. flying[i] \in PieceUpTo(sent) /\ bars \in 1..Bars
    BY DeliverFacts
  <2>2. flying[i].bars \in 1..Bars
    BY <2>1 DEF PieceUpTo
  <2> QED
    BY <2>1, <2>2, TypeFacts, SeparatorsNat
<1>5. ASSUME Idle \/ Asked \/ Answering
      PROVE  (Idle \/ Asked \/ Answering)'
  <2>1. Answering
    BY <1>5 DEF Idle, Asked
  <2>2. Len(flying) = 1 /\ i = 1 /\ flying # <<>>
    <3>1. Len(flying) <= 1
      BY <2>1 DEF Answering
    <3>2. Len(flying) >= 1 /\ i >= 1 /\ i <= Len(flying) /\ i \in Nat
      BY <1>3
    <3>3. flying # <<>>
      BY <3>2
    <3> QED
      BY <1>3, <3>1, <3>2, <3>3
  <2>3. \A j \in 1..Len(inbox') : inbox'[j].of = {sent}
    <3>1. \A j \in 1..Len(inbox') : j \in 1..Len(inbox) \/ j = Len(inbox) + 1
      BY <1>1, <1>3
    <3>2. inbox'[Len(inbox) + 1].of = {sent}
      BY <1>1, <2>1 DEF Answering, Piece
    <3> QED
      BY <1>1, <2>1, <3>1, <3>2 DEF Answering
  <2>4. data.bars + Separators(inbox) + flying[1].bars <= Bars
    BY <2>1, <2>2 DEF Answering
  <2>5. Len(flying') <= 1 /\ \A j \in 1..Len(flying') : flying'[j].of = {sent}
    <3>1. CASE bars = flying[i].bars /\ Len(flying') = Len(flying) - 1
      BY <2>2, <3>1
    <3>2. CASE /\ bars < flying[i].bars /\ Len(flying') = Len(flying)
               /\ flying'[i] = Piece(flying[i].of, flying[i].bars - bars)
      <4>1. flying'[1].of = {sent}
        BY <2>1, <2>2, <3>2 DEF Answering, Piece
      <4> QED
        BY <2>2, <3>2, <4>1
    <3> QED
      BY <1>2, <3>1, <3>2
  <2>6. protocol = "udp" => Len(flying') + Len(inbox') <= 1
    <3> SUFFICES ASSUME protocol = "udp" PROVE Len(flying') + Len(inbox') <= 1
      OBVIOUS
    <3>1. bars = flying[i].bars
      BY <1>1, <2>2 DEF Whole
    <3>2. Len(flying') = 0
      BY <1>2, <1>4, <2>2, <3>1
    <3>3. Len(inbox) = 0
      BY <1>3, <2>1, <2>2 DEF Answering
    <3> QED
      BY <1>1, <3>2, <3>3
  <2>7. flying' # <<>> => data.bars + Separators(inbox') + flying'[1].bars <= Bars
    <3> SUFFICES ASSUME flying' # <<>>
                 PROVE  data.bars + Separators(inbox') + flying'[1].bars <= Bars
      OBVIOUS
    <3>1. Len(flying') >= 1
      BY <1>1, EmptySeq
    <3>2. flying'[1] = Piece(flying[1].of, flying[1].bars - bars)
      BY <1>2, <2>2, <3>1
    <3>3. flying'[1].bars = flying[1].bars - bars
      BY <3>2 DEF Piece
    <3>4. PICK f \in Nat, s \in Nat, d \in Nat :
            f = flying[1].bars /\ s = Separators(inbox) /\ d = data.bars
      BY <1>4, <2>2
    <3>5. d + (s + bars) + (f - bars) <= Bars
      BY <1>4, <2>4, <3>4
    <3> QED
      BY <1>1, <3>3, <3>4, <3>5
  <2>8. Answering'
    BY <1>1, <2>1, <2>3, <2>5, <2>6, <2>7 DEF Answering
  <2> QED
    BY <2>8
<1> QED
  BY <1>1, <1>5, SameTimes

\* recv with nothing but a tail leaves the data as they are.
LEMMA PartOfNothing ==
    ASSUME TypeOK, ReceivePart, inbox = <<>>, data = NoData
    PROVE  data' = NoData
<1>1. data' = Joined /\ data'.bars = data.bars + Separators(inbox)
      /\ data'.of = data.of \cup {inbox[i].of : i \in 1..Len(inbox)}
  BY ReceivePartFacts DEF ReceivePart
<1>2. Separators(inbox) = 0 /\ Len(inbox) = 0
  BY NoSeparators
<1>3. data'.bars = 0 /\ data'.of = {}
  BY <1>1, <1>2 DEF NoData
<1>4. data' = [bars |-> data'.bars, of |-> data'.of]
  BY <1>1 DEF Joined
<1> QED
  BY <1>3, <1>4 DEF NoData

LEMMA ReceivePartKeepsExact ==
    ASSUME TypeOK, ReceivePart, Exact, ExactUntilTimeout
    PROVE  Exact' /\ ExactUntilTimeout'
<1>1. /\ UNCHANGED <<protocol, sent, waiting, requests, flying, results>>
      /\ protocol # "udp"
      /\ inbox' = <<>>
      /\ data'.bars = data.bars + Separators(inbox)
      /\ data'.of = data.of \cup {inbox[i].of : i \in 1..Len(inbox)}
  BY ReceivePartFacts DEF ReceivePart
<1>2. ASSUME Idle \/ Asked \/ Answering
      PROVE  (Idle \/ Asked \/ Answering)'
  <2>0. CASE Idle \/ Asked
    <3>1. data' = NoData
      BY <2>0, PartOfNothing DEF Idle, Asked
    <3> QED
      BY <1>1, <2>0, <3>1 DEF Idle, Asked, NoData
  <2>1. SUFFICES ASSUME Answering PROVE Answering'
    BY <1>2, <2>0
  <2>2. data'.of \subseteq {{sent}}
    BY <1>1, <2>1 DEF Answering
  <2>3. Separators(inbox') = 0 /\ Len(inbox') = 0
    BY <1>1, NoSeparators
  <2>4. data'.bars \in Nat
    BY <1>1, TypeFacts, SeparatorsNat
  <2>5. flying # <<>> => data'.bars + Separators(inbox') + flying[1].bars <= Bars
    BY <1>1, <2>1, <2>3, <2>4 DEF Answering
  <2> QED
    BY <1>1, <2>1, <2>2, <2>3, <2>5 DEF Answering
<1> QED
  BY <1>1, <1>2, SameTimes

LEMMA GiveUpKeepsExact ==
    ASSUME TypeOK, Timeout \/ ReceiveEnd \/ Broken, ExactUntilTimeout
    PROVE  Exact' /\ ExactUntilTimeout'
<1>1. PICK kind \in {"eof", "timeout", "error"} : Concluded(kind, data.of)
  BY GiveUpFacts
<1>2. kind # "rtt" /\ Len(results) \in Nat
  BY TypeFacts
<1>3. ~AllTimed'
  BY <1>1, <1>2, ConcludedUndisturbed
<1>4. Exact'
  BY <1>3 DEF Exact, AllTimed
<1>5. ASSUME NEW i \in 1..Len(results'), Undisturbed(i)', results'[i].kind = "rtt"
      PROVE  results'[i].answer = {{i}}
  <2>1. i \in 1..Len(results)
    BY <1>1, <1>2, <1>5 DEF Concluded
  <2>2. Undisturbed(i)
    BY <1>1, <1>2, <1>5, <2>1, UndisturbedSoFar
  <2> QED
    BY <1>1, <1>5, <2>1, <2>2 DEF Concluded, ExactUntilTimeout
<1>6. ExactUntilTimeout'
  BY <1>5 DEF ExactUntilTimeout
<1> QED
  BY <1>4, <1>6

\* The response to the order that waits was all there was to receive.
LEMMA ReceiveKeepsExact ==
    ASSUME TypeOK, InOrder, Receive, Exact, ExactUntilTimeout
    PROVE  Exact' /\ ExactUntilTimeout'
<1>1. /\ waiting /\ inbox # <<>> /\ Concluded("rtt", Joined.of)
      /\ inbox' \in Seq(PieceUpTo(sent))
      /\ protocol = "udp" => Len(inbox') = Len(inbox) - 1
      /\ protocol # "udp" => inbox' = <<>> /\ data.bars + Separators(inbox) >= Bars
  BY ReceiveFacts
<1>2. /\ Len(results) \in Nat /\ Len(inbox) \in Nat /\ Len(flying) \in Nat
      /\ inbox \in Seq(PieceUpTo(sent)) /\ flying \in Seq(PieceUpTo(sent))
      /\ data.bars \in Nat /\ Bars \in Nat
  BY TypeFacts
<1>3. Len(results) + 1 = sent
  BY <1>1, TypeFacts DEF InOrder
<1>4. ASSUME AllTimed
      PROVE  Idle' /\ Joined.of = {{sent}}
  <2>1. Answering
    BY <1>1, <1>4, ExactCases DEF Idle, Asked
  <2>2. Len(inbox) >= 1 /\ inbox[1].of = {sent}
    BY <1>1, <1>2, <2>1, LengthZero DEF Answering
  <2>3. flying = <<>> /\ inbox' = <<>>
    <3>1. CASE protocol = "udp"
      <4>1. Len(flying) = 0 /\ Len(inbox') = 0
        BY <1>1, <1>2, <2>1, <2>2, <3>1 DEF Answering
      <4> QED
        BY <1>1, <1>2, <4>1, LengthZero
    <3>2. CASE protocol # "udp"
      <4>1. ASSUME flying # <<>> PROVE FALSE
        <5>1. Len(flying) >= 1
          BY <1>2, <4>1, LengthZero
        <5>2. flying[1] \in PieceUpTo(sent)
          BY <1>2, <5>1, ElementOfSeq
        <5>3. flying[1].bars >= 1 /\ flying[1].bars \in Nat
          BY <5>2, <1>2 DEF PieceUpTo
        <5>4. Separators(inbox) \in Nat
          BY <1>2, SeparatorsNat
        <5>5. data.bars + Separators(inbox) + flying[1].bars <= Bars
          BY <2>1, <4>1 DEF Answering
        <5> QED
          BY <1>1, <1>2, <3>2, <5>3, <5>4, <5>5
      <4> QED
        BY <1>1, <3>2, <4>1
    <3> QED
      BY <3>1, <3>2
  <2>4. Idle'
    BY <1>1, <2>1, <2>3 DEF Idle, Answering, Concluded
  <2>5. Joined.of = {{sent}}
    <3>1. Joined.of = data.of \cup {inbox[1].of}
          \/ Joined.of = data.of \cup {inbox[i].of : i \in 1..Len(inbox)}
      BY <1>1, JoinedFacts
    <3>2. data.of \subseteq {{sent}} /\ \A i \in 1..Len(inbox) : inbox[i].of = {sent}
      BY <2>1 DEF Answering
    <3>3. 1 \in 1..Len(inbox)
      BY <1>2, <2>2
    <3> QED
      BY <2>2, <3>1, <3>2, <3>3
  <2> QED
    BY <2>4, <2>5
<1>5. Exact'
  <2>1. AllTimed' => Idle'
    BY <1>1, <1>4, ConcludedUndisturbed
  <2> QED
    BY <2>1 DEF Exact, AllTimed, Idle
<1>6. ASSUME NEW i \in 1..Len(results'), Undisturbed(i)', results'[i].kind = "rtt"
      PROVE  results'[i].answer = {{i}}
  <2>1. i \in 1..(Len(results) + 1)
    BY <1>1, <1>6 DEF Concluded
  <2>2. Undisturbed(i)
    BY <1>1, <1>6, <2>1, UndisturbedSoFar
  <2>3. CASE i \in 1..Len(results)
    BY <1>1, <1>6, <2>2, <2>3 DEF Concluded, ExactUntilTimeout
  <2>4. CASE i = Len(results) + 1
    <3>1. Joined.of = {{sent}}
      BY <1>4, <2>2, <2>4 DEF AllTimed
    <3> QED
      BY <1>1, <1>3, <2>4, <3>1 DEF Concluded
  <2> QED
    BY <1>2, <2>1, <2>3, <2>4
<1>7. ExactUntilTimeout'
  BY <1>6 DEF ExactUntilTimeout
<1> QED
  BY <1>5, <1>7

-----------------------------------------------------------------------------
(* After the end of the connection.                                        *)

HasEnded == \E i \in 1..Len(results) : results[i].kind = "eof"

AfterEnd == /\ protocol = "tcp" /\ ~open /\ phase # "connect"
            /\ flying = <<>> /\ inbox = <<>> /\ data = NoData

\* Steps that record nothing.
LEMMA EndedKept ==
    ASSUME IInv, UNCHANGED results, HasEnded /\ AfterEnd => AfterEnd'
    PROVE  Ended' /\ NothingAfterEnd'
<1>1. HasEnded => AfterEnd
  BY DEF IInv, Ended, HasEnded, AfterEnd
<1>2. HasEnded' => HasEnded /\ AfterEnd'
  BY <1>1 DEF HasEnded
<1>3. Ended'
  BY <1>2 DEF Ended, HasEnded, AfterEnd
<1>4. NothingAfterEnd'
  <2>1. \A i \in 1..Len(results) : results[i].kind = "eof" => HasEnded /\ AfterEnd'
    BY <1>2 DEF HasEnded
  <2>2. \A i \in 1..Len(results) :
           results[i].kind = "eof" =>
              \A j \in (i + 1)..Len(results) :
                 results[j].kind # "rtt" /\ results[j].answer = {}
    BY DEF IInv, NothingAfterEnd
  <2> QED
    BY <2>1, <2>2 DEF NothingAfterEnd, AfterEnd
<1> QED
  BY <1>3, <1>4

LEMMA QuietKeepsEnded ==
    ASSUME IInv,
           \/ Connect \/ Report \/ BeginTest \/ EndTest \/ DeliverTail
           \/ Send \/ ServeFails \/ ServerEnds \/ ReceivePart
           \/ \E n \in 1..Len(requests) : Serve(n)
           \/ \E i \in 1..Len(flying) : Lose(i)
           \/ \E i \in 1..Len(flying) : \E bars \in 1..flying[i].bars : Deliver(i, bars)
           \/ UNCHANGED vars
    PROVE  Ended' /\ NothingAfterEnd'
<1>1. UNCHANGED results
  BY DEF Connect, Report, BeginTest, EndTest, DeliverTail, Send, ServeFails, ServerEnds,
     ReceivePart, Serve, Lose, Deliver, vars
<1>2. ASSUME AfterEnd
      PROVE  AfterEnd'
  <2>1. CASE Connect \/ Report \/ BeginTest \/ EndTest \/ DeliverTail \/ Send
    BY <1>2, <2>1 DEF AfterEnd, Connect, Report, BeginTest, EndTest, DeliverTail, Send,
       server
  <2>2. CASE ServeFails \/ ServerEnds
    BY <1>2, <2>2 DEF AfterEnd, ServeFails, ServerEnds
  <2>3. CASE ReceivePart
    <3>1. data' = NoData
      BY <1>2, <2>3, PartOfNothing DEF AfterEnd, IInv, Accounted
    <3> QED
      BY <1>2, <2>3, <3>1 DEF AfterEnd, ReceivePart, server
  <2>4. CASE \E n \in 1..Len(requests) : Serve(n)
    BY <1>2, <2>4 DEF AfterEnd, Serve
  <2>5. CASE \/ \E i \in 1..Len(flying) : Lose(i)
             \/ \E i \in 1..Len(flying) : \E bars \in 1..flying[i].bars : Deliver(i, bars)
    <3>1. 1..Len(flying) = {}
      BY <1>2 DEF AfterEnd
    <3> QED
      BY <2>5, <3>1
  <2>6. CASE UNCHANGED vars
    BY <1>2, <2>6 DEF AfterEnd, vars, server
  <2> QED
    BY <2>1, <2>2, <2>3, <2>4, <2>5, <2>6
<1> QED
  BY <1>1, <1>2, EndedKept

\* After the end no order gets a response, and only the end itself is recorded
\* with a time.
LEMMA ConcludingKeepsEnded ==
    ASSUME IInv, Receive \/ Timeout \/ ReceiveEnd \/ Broken
    PROVE  Ended' /\ NothingAfterEnd'
<1>1. TypeOK /\ InOrder /\ Len(results) \in Nat /\ (HasEnded => AfterEnd)
  BY TypeFacts DEF IInv, Accounted, Ended, HasEnded, AfterEnd
<1>2. PICK kind, answer :
        /\ Concluded(kind, answer) /\ waiting
        /\ kind = "eof" => ReceiveEnd
        /\ HasEnded => kind # "rtt" /\ answer = {}
        /\ phase' \in {phase, "over"} /\ UNCHANGED open
        /\ inbox = <<>> => inbox' = <<>>
  <2>1. CASE Receive
    <3>1. waiting /\ inbox # <<>> /\ UNCHANGED phase /\ Concluded("rtt", Joined.of)
      BY <1>1, <2>1, ReceiveFacts
    <3>2. ~HasEnded
      BY <1>1, <3>1 DEF AfterEnd
    <3>3. UNCHANGED open
      BY <3>1 DEF Concluded, server
    <3> QED
      BY <3>1, <3>2, <3>3
  <2>2. CASE Timeout \/ ReceiveEnd \/ Broken
    <3>1. PICK kind \in {"eof", "timeout", "error"} :
            Concluded(kind, data.of) /\ (kind = "eof" => ReceiveEnd)
      BY <1>1, <2>2, GiveUpFacts
    <3>2. waiting /\ UNCHANGED inbox /\ phase' \in {phase, "over"}
      BY <1>1, <2>2, GiveUpFacts
    <3>3. HasEnded => data.of = {}
      BY <1>1 DEF AfterEnd, NoData
    <3>4. UNCHANGED open
      BY <3>1 DEF Concluded, server
    <3> QED
      BY <3>1, <3>2, <3>3, <3>4
  <2> QED
    BY <2>1, <2>2
<1>3. /\ Len(results') = Len(results) + 1
      /\ \A j \in 1..Len(results) : results'[j] = results[j]
      /\ results'[Len(results) + 1].kind = kind
      /\ results'[Len(results) + 1].answer = answer
      /\ data' = NoData /\ UNCHANGED <<protocol, flying>>
  BY <1>2 DEF Concluded
<1>4. kind = "eof" => protocol = "tcp" /\ ~open /\ flying = <<>> /\ inbox = <<>>
                      /\ phase # "connect"
  BY <1>1, <1>2 DEF ReceiveEnd, InOrder
<1>5. HasEnded' => HasEnded \/ kind = "eof"
  BY <1>1, <1>3 DEF HasEnded
<1>6. HasEnded' => AfterEnd'
  BY <1>1, <1>2, <1>3, <1>4, <1>5 DEF AfterEnd
<1>7. Ended'
  BY <1>6 DEF Ended, HasEnded, AfterEnd
<1>8. ASSUME NEW i \in 1..Len(results'), results'[i].kind = "eof"
      PROVE  /\ AfterEnd'
             /\ \A j \in (i + 1)..Len(results') :
                   results'[j].kind # "rtt" /\ results'[j].answer = {}
  <2>1. AfterEnd'
    BY <1>6, <1>8 DEF HasEnded
  <2>2. ASSUME NEW j \in (i + 1)..Len(results')
        PROVE  results'[j].kind # "rtt" /\ results'[j].answer = {}
    <3>1. i \in 1..Len(results) /\ results[i].kind = "eof"
      BY <1>1, <1>3, <1>8, <2>2
    <3>2. HasEnded
      BY <3>1 DEF HasEnded
    <3>3. CASE j = Len(results) + 1
      BY <1>2, <1>3, <3>2, <3>3
    <3>4. CASE j # Len(results) + 1
      <4>1. j \in (i + 1)..Len(results) /\ j \in 1..Len(results)
        BY <1>1, <1>3, <2>2, <3>1, <3>4
      <4>2. results[j].kind # "rtt" /\ results[j].answer = {}
        BY <3>1, <4>1 DEF IInv, NothingAfterEnd
      <4> QED
        BY <1>3, <4>1, <4>2
    <3> QED
      BY <3>3, <3>4
  <2> QED
    BY <2>1, <2>2
<1>9. NothingAfterEnd'
  BY <1>8 DEF NothingAfterEnd, AfterEnd
<1> QED
  BY <1>7, <1>9

-----------------------------------------------------------------------------
(* The theorems.                                                           *)

LEMMA InitIsRight == Init => Accounted
<1> SUFFICES ASSUME Init PROVE Accounted
  OBVIOUS
<1>1. /\ requests = <<>> /\ flying = <<>> /\ inbox = <<>> /\ results = <<>>
      /\ data = NoData /\ sent = 0 /\ waiting = FALSE /\ tails = {}
  BY DEF Init
<1>2. /\ Len(results) = 0 /\ Len(inbox) = 0 /\ Len(flying) = 0 /\ Len(requests) = 0
  BY <1>1
<1>3. TypeOK
  <2>1. protocol \in {"tcp", "udp"} /\ todo \in {<<>>, <<"udp">>}
    <3>1. PICK run \in {<<"tcp">>, <<"udp">>, <<"tcp", "udp">>} :
            protocol = Head(run) /\ todo = Tail(run)
      BY DEF Init
    <3>2. CASE run = <<"tcp">>
      BY <3>1, <3>2
    <3>3. CASE run = <<"udp">>
      BY <3>1, <3>3
    <3>4. CASE run = <<"tcp", "udp">>
      BY <3>1, <3>4
    <3> QED
      BY <3>2, <3>3, <3>4
  <2>2. 0 \in 0..(Warmup + Tests)
    BY CountsAssumption
  <2>3. data \in [of : SUBSET SUBSET Orders, bars : 0..(Bars - 1)]
    BY <1>1, CountsAssumption DEF NoData
  <2>4. /\ requests \in Seq(Orders)
        /\ flying \in Seq([of : SUBSET Orders, bars : 1..Bars])
        /\ inbox \in Seq([of : SUBSET Orders, bars : 1..Bars])
        /\ results \in Seq([kind : {"rtt", "eof", "timeout", "error"},
                           answer : SUBSET SUBSET Orders])
    BY <1>1, EmptySeq
  <2> QED
    BY <1>1, <2>1, <2>2, <2>3, <2>4 DEF Init, TypeOK
<1>4. InOrder
  BY <1>1, <1>2 DEF InOrder
<1>5. Whole
  BY <1>1, <1>2 DEF Whole
<1>6. AnsweredOnce
  BY <1>1, <1>2 DEF AnsweredOnce
<1>7. AnswersCover
  BY <1>2 DEF AnswersCover
<1>8. Exact
  BY <1>1 DEF Exact
<1>9. ExactUntilTimeout
  BY <1>2 DEF ExactUntilTimeout
<1>10. Credit
  <2>1. Timed = {} /\ Came = {} /\ Seen = {}
    BY <1>1, <1>2 DEF Timed, Came, Seen, NoData
  <2>2. Cardinality({}) = 0
    BY FS_EmptySet
  <2>3. Separators(inbox) = 0 /\ Rest = 0 /\ data.bars = 0
    BY <1>1, NoSeparators DEF Rest, NoData
  <2>4. Bars * 0 = 0
    BY CountsAssumption
  <2> QED
    BY <1>2, <2>1, <2>2, <2>3, <2>4 DEF Credit
<1> QED
  BY <1>3, <1>4, <1>5, <1>6, <1>7, <1>8, <1>9, <1>10 DEF Accounted

LEMMA CalmKeepsAccounted ==
    ASSUME Accounted, Connect \/ Report \/ BeginTest \/ EndTest \/ DeliverTail
    PROVE  Accounted'
<1>1. Basic /\ AnsweredOnce /\ Credit /\ AnswersCover /\ Exact /\ ExactUntilTimeout
  BY DEF Accounted, Basic
<1>2. Calm
  BY <1>1, CalmFacts
<1>3. Basic'
  BY <1>1, CalmKeepsBasic
<1>4. AnsweredOnce'
  BY <1>1, <1>2, CalmKeepsAnsweredOnce
<1>5. Credit'
  BY <1>1, <1>2, OtherStepsKeepCredit
<1>6. AnswersCover'
  BY <1>1, <1>2, CreditedKept DEF Calm
<1>7. Exact' /\ ExactUntilTimeout'
  BY <1>1, <1>2, CalmKeepsExact
<1> QED
  BY <1>3, <1>4, <1>5, <1>6, <1>7 DEF Accounted, Basic

\* The client reads, or gives up.
LEMMA ReadingKeepsAccounted ==
    ASSUME Accounted, Receive \/ ReceivePart \/ Timeout \/ ReceiveEnd \/ Broken
    PROVE  Accounted'
<1>1. /\ Basic /\ AnsweredOnce /\ Credit /\ AnswersCover /\ Exact /\ ExactUntilTimeout
      /\ TypeOK /\ InOrder
  BY DEF Accounted, Basic
<1>2. AnsweredOnce'
  BY <1>1, ReadingKeepsAnsweredOnce
<1>3. CASE Receive
  <2>1. Basic'
    BY <1>1, <1>3, ReceiveKeepsBasic
  <2>2. Credit' /\ Cardinality(Timed') <= Cardinality(Came')
    BY <1>1, <1>3, <2>1, ReceiveUdpCredit, ReceiveTcpCredit
  <2>3. waiting /\ Concluded("rtt", Joined.of)
    BY <1>1, <1>3, ReceiveFacts
  <2>4. AnswersCover'
    BY <1>1, <2>1, <2>2, <2>3, ConcludedKeepsCredited
  <2>5. Exact' /\ ExactUntilTimeout'
    BY <1>1, <1>3, ReceiveKeepsExact
  <2> QED
    BY <1>2, <2>1, <2>2, <2>4, <2>5 DEF Accounted, Basic
<1>4. CASE ReceivePart
  <2>1. Basic'
    BY <1>1, <1>4, ReceivePartKeepsBasic
  <2>2. Credit'
    BY <1>1, <1>4, ReceivePartKeepsCredit
  <2>3. AnswersCover'
    BY <1>1, <1>4, CreditedKept DEF ReceivePart
  <2>4. Exact' /\ ExactUntilTimeout'
    BY <1>1, <1>4, ReceivePartKeepsExact
  <2> QED
    BY <1>2, <2>1, <2>2, <2>3, <2>4 DEF Accounted, Basic
<1>5. CASE Timeout \/ ReceiveEnd \/ Broken
  <2>1. Basic'
    BY <1>1, <1>5, GiveUpKeepsBasic
  <2>2. Credit'
    BY <1>1, <1>5, GiveUpKeepsCredit
  <2>3. waiting
    BY <1>1, <1>5, GiveUpFacts
  <2>4. PICK kind \in {"eof", "timeout", "error"} : Concluded(kind, data.of)
    BY <1>1, <1>5, GiveUpFacts
  <2>5. kind # "rtt"
    OBVIOUS
  <2>6. AnswersCover'
    BY <1>1, <2>1, <2>3, <2>4, <2>5, ConcludedKeepsCredited
  <2>7. Exact' /\ ExactUntilTimeout'
    BY <1>1, <1>5, GiveUpKeepsExact
  <2> QED
    BY <1>2, <2>1, <2>2, <2>6, <2>7 DEF Accounted, Basic
<1> QED
  BY <1>3, <1>4, <1>5

\* The client sends; server and network do their part.
LEMMA NetworkKeepsAccounted ==
    ASSUME Accounted,
           \/ Send \/ ServeFails \/ ServerEnds
           \/ \E n \in 1..Len(requests) : Serve(n)
           \/ \E i \in 1..Len(flying) : Lose(i)
    PROVE  Accounted'
<1>1. /\ Basic /\ AnsweredOnce /\ Credit /\ AnswersCover /\ Exact /\ ExactUntilTimeout
      /\ TypeOK
  BY DEF Accounted, Basic
<1>2. Basic'
  BY <1>1, SendKeepsBasic, NetworkKeepsBasic
<1>3. Credit' /\ UNCHANGED results
  BY <1>1, OtherStepsKeepCredit
<1>4. AnswersCover'
  BY <1>1, <1>3, CreditedKept
<1>5. AnsweredOnce'
  BY <1>1, SendKeepsAnsweredOnce, ServerStopKeepsAnsweredOnce, ServeKeepsAnsweredOnce,
     LoseKeepsAnsweredOnce
<1>6. Exact' /\ ExactUntilTimeout'
  BY <1>1, SendKeepsExact, ServerStopKeepsExact, ServeKeepsExact, LoseKeepsExact
<1> QED
  BY <1>2, <1>3, <1>4, <1>5, <1>6 DEF Accounted, Basic

LEMMA DeliverKeepsAccounted ==
    ASSUME Accounted, NEW i \in 1..Len(flying), NEW bars \in 1..flying[i].bars,
           Deliver(i, bars)
    PROVE  Accounted'
<1>1. /\ Basic /\ AnsweredOnce /\ Credit /\ AnswersCover /\ Exact /\ ExactUntilTimeout
      /\ TypeOK /\ Whole
  BY DEF Accounted, Basic
<1>2. Basic'
  BY <1>1, NetworkKeepsBasic
<1>3. Credit'
  BY <1>1, DeliverKeepsCredit
<1>4. AnswersCover'
  BY <1>1, CreditedKept DEF Deliver
<1>5. AnsweredOnce'
  BY <1>1, DeliverKeepsAnsweredOnce
<1>6. Exact' /\ ExactUntilTimeout'
  BY <1>1, DeliverKeepsExact
<1> QED
  BY <1>2, <1>3, <1>4, <1>5, <1>6 DEF Accounted, Basic

LEMMA NextRunKeepsAccounted ==
    ASSUME Accounted, NextRun
    PROVE  Accounted'
<1>1. Basic
  BY DEF Accounted, Basic
<1> QED
  BY <1>1, NextRunKeepsBasic, NextRunKeepsCredit, NextRunKeepsExact DEF Accounted, Basic

LEMMA StutterKeepsAccounted ==
    ASSUME Accounted, UNCHANGED vars
    PROVE  Accounted'
<1>1. /\ Basic /\ AnsweredOnce /\ Credit /\ AnswersCover /\ Exact /\ ExactUntilTimeout
      /\ TypeOK /\ InOrder /\ Whole
  BY DEF Accounted, Basic
<1>2. Calm
  BY DEF Calm, vars
<1>3. TypeOK'
  BY <1>1 DEF vars, program, server, TypeOK, Orders
<1>4. InOrder' /\ Whole'
  BY <1>1 DEF vars, InOrder, Whole
<1>5. AnsweredOnce'
  BY <1>1, <1>2, CalmKeepsAnsweredOnce
<1>6. Credit'
  BY <1>1, <1>2, OtherStepsKeepCredit
<1>7. AnswersCover'
  BY <1>1, <1>2, CreditedKept DEF Calm
<1>8. Exact' /\ ExactUntilTimeout'
  BY <1>1, <1>2, CalmKeepsExact
<1> QED
  BY <1>3, <1>4, <1>5, <1>6, <1>7, <1>8 DEF Accounted

\* The invariant: every step keeps the numbering of the orders, the account of
\* the separators, what is under way while nothing was lost, and that nothing is
\* under way once the end of the connection was read.
THEOREM RttInvariant == Spec => []IInv
<1>1. Init => IInv
  <2>1. Init => Ended /\ NothingAfterEnd
    BY DEF Init, Ended, NothingAfterEnd
  <2> QED
    BY <2>1, InitIsRight DEF IInv
<1>2. IInv /\ [Next]_vars => IInv'
  <2> SUFFICES ASSUME IInv, [Next]_vars PROVE IInv'
    OBVIOUS
  <2>0. Accounted
    BY DEF IInv
  <2>1. CASE Connect \/ Report \/ BeginTest \/ EndTest \/ DeliverTail
    BY <2>0, <2>1, CalmKeepsAccounted, QuietKeepsEnded DEF IInv
  <2>2. CASE NextRun
    <3>1. results' = <<>>
      BY <2>2 DEF NextRun
    <3>2. Ended' /\ NothingAfterEnd'
      BY <3>1 DEF Ended, NothingAfterEnd
    <3> QED
      BY <2>0, <2>2, <3>2, NextRunKeepsAccounted DEF IInv
  <2>3. CASE Receive \/ Timeout \/ ReceiveEnd \/ Broken
    BY <2>0, <2>3, ReadingKeepsAccounted, ConcludingKeepsEnded DEF IInv
  <2>4. CASE ReceivePart
    BY <2>0, <2>4, ReadingKeepsAccounted, QuietKeepsEnded DEF IInv
  <2>5. CASE \/ Send \/ ServeFails \/ ServerEnds
             \/ \E n \in 1..Len(requests) : Serve(n)
             \/ \E i \in 1..Len(flying) : Lose(i)
    BY <2>0, <2>5, NetworkKeepsAccounted, QuietKeepsEnded DEF IInv
  <2>6. CASE \E i \in 1..Len(flying) : \E bars \in 1..flying[i].bars : Deliver(i, bars)
    BY <2>0, <2>6, DeliverKeepsAccounted, QuietKeepsEnded DEF IInv
  <2>7. CASE UNCHANGED vars
    BY <2>0, <2>7, StutterKeepsAccounted, QuietKeepsEnded DEF IInv
  <2>8. Next \/ UNCHANGED vars
    OBVIOUS
  <2> QED
    BY <2>1, <2>2, <2>3, <2>4, <2>5, <2>6, <2>7, <2>8 DEF Next
<1> QED
  BY <1>1, <1>2, PTL DEF Spec

\* Every variable has its type.
THEOREM TypeCorrect == Spec => []TypeOK
<1>1. IInv => TypeOK
  BY DEF IInv, Accounted
<1> QED
  BY <1>1, RttInvariant, PTL

\* Until an order times out or the connection ends, every time that the benchmark
\* records is the time of its own order, whatever the order numbers are.
THEOREM TimesAreOwn == Spec => []ExactUntilTimeout
<1>1. IInv => ExactUntilTimeout
  BY DEF IInv, Accounted
<1> QED
  BY <1>1, RttInvariant, PTL

\* Of any first orders of a run, those with a time are no more than the responses
\* that came, none of them to a later order, but for the times recorded when the
\* server closed the TCP connection: those no response covers, and behind the first
\* of them nothing is answered any more.
THEOREM TimesAreExplained == Spec => []TimesExplained
<1>1. IInv => TimesExplained
  BY DEF IInv, Accounted, TimesExplained
<1> QED
  BY <1>1, RttInvariant, PTL
=============================================================================

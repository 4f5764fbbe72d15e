-------------------------- MODULE RefinementProofs --------------------------
(***************************************************************************)
(* The order handler implements PriceTimeExchange: the step theorem of the *)
(* refinement whose mapping MatchingRefinement gives, for every set of     *)
(* symbols and requests, every pair of size limits and every number of     *)
(* requests.                                                               *)
(***************************************************************************)
EXTENDS MatchingRefinement, MatchingProofs

-----------------------------------------------------------------------------
(* The closed form of the allotment.                                       *)

\* What an order of q units gets from r: o[x] is offered by x, and A[r] is
\* who of C is ahead of r.
Share(q, o, A, r) ==
    IF q <= SumOver(o, A[r]) THEN 0
    ELSE IF q - SumOver(o, A[r]) < o[r] THEN q - SumOver(o, A[r]) ELSE o[r]

Supplied(q, o, C) == IF q < SumOver(o, C) THEN q ELSE SumOver(o, C)

\* A loop took g[x] from each x of C, and q in all unless it took everything
\* that there is: from nobody before those ahead were used up.
Walk(C, o, g, A, q) ==
    /\ IsFiniteSet(C) /\ q \in Nat
    /\ \A x \in C : /\ g[x] \in Nat /\ o[x] \in Nat /\ g[x] <= o[x]
                    /\ A[x] \subseteq C /\ x \notin A[x]
    /\ \/ SumOver(g, C) < q /\ \A x \in C : g[x] = o[x]
       \/ /\ SumOver(g, C) = q
          /\ \A x \in C : g[x] > 0 => \A y \in A[x] : g[y] = o[y]
          /\ \A x \in C : g[x] > 0 /\ g[x] # o[x] =>
                \A y \in C : g[y] > 0 /\ y # x => y \in A[x]
          /\ \A x \in C : g[x] = 0 => \A y \in C : g[y] > 0 => y \in A[x]

\* Then it took from each what the closed form gives.
LEMMA WalkAllots ==
    ASSUME NEW C, NEW o, NEW g, NEW A, NEW q, Walk(C, o, g, A, q)
    PROVE  /\ Supplied(q, o, C) = SumOver(g, C)
           /\ \A r \in C : Share(q, o, A, r) = g[r]
<1>1. /\ IsFiniteSet(C) /\ q \in Nat
      /\ \A x \in C : /\ g[x] \in Nat /\ o[x] \in Nat /\ g[x] <= o[x]
                      /\ g[x] \in Int /\ o[x] \in Int
                      /\ A[x] \subseteq C /\ x \notin A[x]
  BY DEF Walk
<1>2. /\ SumOver(g, C) \in Nat /\ SumOver(o, C) \in Nat
      /\ SumOver(g, C) <= SumOver(o, C)
  BY <1>1, SumType, SumMonotone
<1>3. ASSUME NEW r \in C
      PROVE  /\ SumOver(g, A[r]) \in Nat /\ SumOver(o, A[r]) \in Nat
             /\ SumOver(g, A[r]) <= SumOver(o, A[r])
             /\ SumOver(g, A[r]) + g[r] <= SumOver(g, C)
  <2>1. IsFiniteSet(A[r]) /\ \A x \in A[r] : x \in C
    BY <1>1, FS_Subset
  <2>2. /\ SumOver(g, A[r]) \in Nat /\ SumOver(o, A[r]) \in Nat
        /\ SumOver(g, A[r]) <= SumOver(o, A[r])
    BY <1>1, <2>1, SumType, SumMonotone
  <2>3. SumOver(g, C) = g[r] + SumOver(g, C \ {r})
    BY <1>1, SumTakeOut
  <2>4. IsFiniteSet(C \ {r}) /\ A[r] \subseteq C \ {r}
    BY <1>1, FS_RemoveElement
  <2>5. /\ SumOver(g, C \ {r}) \in Nat
        /\ SumOver(g, A[r]) <= SumOver(g, C \ {r})
    BY <1>1, <2>4, SumOfPart
  <2>6. g[r] \in Nat
    BY <1>1
  <2> QED
    BY <2>2, <2>3, <2>5, <2>6
<1>4. CASE SumOver(g, C) < q /\ \A x \in C : g[x] = o[x]
  <2>1. SumOver(o, C) = SumOver(g, C)
    BY <1>1, <1>4, SumSame
  <2>2. Supplied(q, o, C) = SumOver(g, C)
    BY <1>1, <1>2, <1>4, <2>1 DEF Supplied
  <2>3. ASSUME NEW r \in C
        PROVE  Share(q, o, A, r) = g[r]
    <3>1. SumOver(o, A[r]) = SumOver(g, A[r])
      <4>1. IsFiniteSet(A[r]) /\ \A x \in A[r] : g[x] \in Int /\ o[x] = g[x]
        BY <1>1, <1>4, FS_Subset
      <4> QED
        BY <4>1, SumSame
    <3>2. PICK a \in Nat, s \in Nat, b \in Nat :
            /\ a = SumOver(g, A[r]) /\ s = SumOver(g, C) /\ b = g[r]
      BY <1>1, <1>2, <1>3
    <3>3. a + b <= s /\ s < q /\ o[r] = b /\ SumOver(o, A[r]) = a
      BY <1>3, <1>4, <3>1, <3>2
    <3> QED
      BY <1>1, <3>2, <3>3 DEF Share
  <2> QED
    BY <2>2, <2>3
<1>5. CASE /\ SumOver(g, C) = q
           /\ \A x \in C : g[x] > 0 => \A y \in A[x] : g[y] = o[y]
           /\ \A x \in C : g[x] > 0 /\ g[x] # o[x] =>
                 \A y \in C : g[y] > 0 /\ y # x => y \in A[x]
           /\ \A x \in C : g[x] = 0 => \A y \in C : g[y] > 0 => y \in A[x]
  <2>1. Supplied(q, o, C) = SumOver(g, C)
    BY <1>1, <1>2, <1>5 DEF Supplied
  <2>2. ASSUME NEW r \in C, g[r] > 0
        PROVE  Share(q, o, A, r) = g[r]
    <3>1. SumOver(o, A[r]) = SumOver(g, A[r])
      <4>1. IsFiniteSet(A[r]) /\ \A x \in A[r] : g[x] \in Int /\ o[x] = g[x]
        BY <1>1, <1>5, <2>2, FS_Subset
      <4> QED
        BY <4>1, SumSame
    <3>2. PICK a \in Nat, b \in Nat, c \in Nat :
            /\ a = SumOver(g, A[r]) /\ b = g[r] /\ c = o[r]
      BY <1>1, <1>3
    <3>3. a + b <= q /\ b > 0 /\ b <= c /\ SumOver(o, A[r]) = a
      BY <1>1, <1>3, <1>5, <2>2, <3>1, <3>2
    <3>4. CASE b = c
      BY <1>1, <3>2, <3>3, <3>4 DEF Share
    <3>5. CASE b # c
      <4>1. \A y \in C \ {r} : y \notin A[r] => g[y] = 0
        BY <1>1, <1>5, <2>2, <3>2, <3>5
      <4>2. IsFiniteSet(C \ {r}) /\ A[r] \subseteq C \ {r}
        BY <1>1, FS_RemoveElement
      <4>3. \A y \in (C \ {r}) \ A[r] : g[y] = 0
        BY <4>1
      <4>4. SumOver(g, C \ {r}) = SumOver(g, A[r])
        BY <1>1, <4>2, <4>3, SumSupport
      <4>5. SumOver(g, C) = g[r] + SumOver(g, C \ {r})
        BY <1>1, SumTakeOut
      <4>6. q = a + b
        BY <1>5, <3>2, <4>4, <4>5
      <4> QED
        BY <1>1, <3>2, <3>3, <3>5, <4>6 DEF Share
    <3> QED
      BY <3>4, <3>5
  <2>3. ASSUME NEW r \in C, g[r] = 0
        PROVE  Share(q, o, A, r) = g[r]
    <3>1. \A y \in C \ A[r] : g[y] = 0
      BY <1>1, <1>5, <2>3
    <3>2. SumOver(g, C) = SumOver(g, A[r])
      BY <1>1, <3>1, SumSupport
    <3>3. q <= SumOver(o, A[r])
      BY <1>2, <1>3, <1>5, <3>2
    <3> QED
      BY <2>3, <3>3 DEF Share
  <2> QED
    BY <1>1, <2>1, <2>2, <2>3
<1> QED
  BY <1>4, <1>5 DEF Walk

-----------------------------------------------------------------------------
(* What the order in the handler took from each maker.                     *)

\* A trade more.
LEMMA TakenFromAdds ==
    ASSUME NEW s \in Seq(TradeRecord), NEW t \in TradeRecord, NEW c, NEW n
    PROVE  /\ TakenFrom(s, c, n) \in Int
           /\ TakenFrom(Append(s, t), c, n) =
                TakenFrom(s, c, n) + IF Taker(t) = c /\ Maker(t) = n THEN t.qty ELSE 0
<1>1. /\ Len(s) \in Nat /\ Len(Append(s, t)) = Len(s) + 1
      /\ DOMAIN s = 1..Len(s) /\ DOMAIN Append(s, t) = 1..(Len(s) + 1)
      /\ \A i \in 1..Len(s) : Append(s, t)[i] = s[i] /\ s[i] \in TradeRecord
      /\ Append(s, t)[Len(s) + 1] = t
  BY AppendProperties, LenProperties, ElementOfSeq
<1> DEFINE u == Append(s, t)
           k == Len(s)
<1> HIDE DEF u, k
<1>2. /\ k \in Nat /\ DOMAIN s = 1..k /\ DOMAIN u = 1..(k + 1)
      /\ \A i \in 1..k : u[i] = s[i] /\ s[i] \in TradeRecord
      /\ u[k + 1] = t
  BY <1>1 DEF u, k
<1>3. \A i \in 1..(k + 1) : u[i] \in TradeRecord
  BY <1>2
<1>4. \A i \in 1..(k + 1) : u[i].qty \in Int
  BY <1>3 DEF TradeRecord
<1> DEFINE f == [i \in 1..k |->
                   IF Taker(s[i]) = c /\ Maker(s[i]) = n THEN s[i].qty ELSE 0]
           g == [i \in 1..(k + 1) |->
                   IF Taker(u[i]) = c /\ Maker(u[i]) = n THEN u[i].qty ELSE 0]
<1>5. /\ f \in [1..k -> Int] /\ g \in [1..(k + 1) -> Int]
      /\ \A i \in 1..k : g[i] = f[i]
      /\ g[k + 1] = IF Taker(t) = c /\ Maker(t) = n THEN t.qty ELSE 0
  BY <1>2, <1>4
<1>6. TakenFrom(s, c, n) = SumFunction(f) /\ TakenFrom(u, c, n) = SumFunction(g)
  BY <1>2, Zenon DEF TakenFrom
<1> HIDE DEF f, g
<1>7. SumFunction(f) \in Int /\ SumFunction(g) = SumFunction(f) + g[k + 1]
  BY <1>2, <1>5, SumAppend
<1> QED
  BY <1>5, <1>6, <1>7, Zenon DEF u

\* Positive trades give a natural number, zero for who took nothing.
LEMMA TakenFromType ==
    ASSUME NEW s \in Seq(TradeRecord), \A i \in 1..Len(s) : s[i].qty > 0,
           NEW c, NEW n
    PROVE  /\ TakenFrom(s, c, n) \in Nat
           /\ (\A i \in 1..Len(s) : Taker(s[i]) # c) => TakenFrom(s, c, n) = 0
<1> DEFINE k == Len(s)
           f == [i \in 1..k |->
                   IF Taker(s[i]) = c /\ Maker(s[i]) = n THEN s[i].qty ELSE 0]
<1>1. k \in Nat /\ DOMAIN s = 1..k /\ IsFiniteSet(1..k)
  BY LenProperties, FS_Interval
<1>2. \A i \in 1..k : s[i].qty \in Nat
  <2>1. \A i \in 1..k : s[i] \in TradeRecord
    BY ElementOfSeq
  <2> QED
    BY <2>1 DEF TradeRecord
<1>3. DOMAIN f = 1..k /\ \A i \in 1..k : f[i] \in Nat /\ f[i] \in Int
  BY <1>2
<1>4. TakenFrom(s, c, n) = SumFunction(f)
  BY <1>1, Zenon DEF TakenFrom
<1>5. (\A i \in 1..k : Taker(s[i]) # c) => \A i \in 1..k : f[i] = 0
  OBVIOUS
<1> HIDE DEF f, k
<1>6. SumFunction(f) = SumOver(f, 1..k)
  BY <1>3, Zenon DEF SumFunction, SumOver
<1>7. SumOver(f, 1..k) \in Nat
  BY <1>1, <1>3, SumType
<1>8. (\A i \in 1..k : f[i] = 0) => SumOver(f, 1..k) = 0
  BY <1>1, SumZero
<1> QED
  BY <1>4, <1>5, <1>6, <1>7, <1>8 DEF k

-----------------------------------------------------------------------------
(* The state that the mapping looks at.                                    *)

\* The orders in a list are those that may rest; what has been given.
MapShape ==
    /\ Len(objs) \in Nat /\ IsFiniteSet(Orders)
    /\ cur \in Orders \cup {0} /\ (cur # 0 => cur = Len(objs))
    /\ \A n \in Orders : objs[n] \in Order /\ n \in Nat /\ n > 0
    /\ Listed = {n \in Orders : /\ objs[n].symbol \in Symbols
                                /\ MayRest(n, objs[n].symbol, objs[n].side)}
    /\ Given \in [Orders -> Nat]
    /\ Touched \subseteq Orders
    /\ cur = 0 => \A n \in Orders : Given[n] = 0

LEMMA MappedState == AInv => MapShape
<1> SUFFICES ASSUME AInv PROVE MapShape
  OBVIOUS
<1>1. /\ Len(objs) \in Nat /\ IsFiniteSet(Orders)
      /\ cur \in Orders \cup {0} /\ (cur # 0 => cur = Len(objs))
  <2>1. TypeOK /\ InHandler
    BY Zenon DEF AInv, IInv
  <2>2. objs \in Seq(Order) /\ cur \in Orders \cup {0}
    BY <2>1, Zenon DEF TypeOK
  <2> QED
    BY <2>1, <2>2, LenProperties, FS_Interval DEF InHandler, Orders
<1>2. \A n \in Orders : objs[n] \in Order /\ n \in Nat /\ n > 0
  BY <1>1, ElementOfSeq DEF AInv, IInv, TypeOK, Orders
<1>3. Listed = {n \in Orders : /\ objs[n].symbol \in Symbols
                               /\ MayRest(n, objs[n].symbol, objs[n].side)}
  <2>1. ASSUME NEW n \in Listed
        PROVE  /\ n \in Orders /\ objs[n].symbol \in Symbols
               /\ MayRest(n, objs[n].symbol, objs[n].side)
    <3>1. PICK s \in Symbols, d \in Sides : n \in Resting(s, d)
      BY DEF Listed
    <3>2. PICK i \in 1..Len(book[s][d]) : n = book[s][d][i]
      BY <3>1 DEF Resting
    <3>3. book[s][d] \in Seq(Orders)
      BY DEF AInv, IInv, TypeOK
    <3>4. n \in Orders
      BY <3>2, <3>3, ElementOfSeq
    <3>5. MayRest(n, s, d)
      BY <3>2 DEF AInv, IInv, EntriesLive
    <3> QED
      BY <3>4, <3>5 DEF MayRest
  <2>2. ASSUME NEW n \in Orders, objs[n].symbol \in Symbols,
               MayRest(n, objs[n].symbol, objs[n].side)
        PROVE  n \in Listed
    <3>1. objs[n].side \in Sides
      BY <1>2 DEF Order
    <3>2. n \in Resting(objs[n].symbol, objs[n].side)
      BY <2>2, <3>1 DEF AInv, IInv, NothingLost
    <3> QED
      BY <2>2, <3>1, <3>2 DEF Listed
  <2> QED
    BY <2>1, <2>2
<1>4. \A i \in 1..Len(Made) : Made[i].qty > 0 /\ Taker(Made[i]) # 0
  <2>1. \A i \in 1..Len(Made) : FairTrade(Made[i]) /\ Made[i] \in TradeRecord /\ Made[i].qty > 0
    BY MadeFacts DEF AInv
  <2>2. ASSUME NEW t \in TradeRecord, FairTrade(t)
        PROVE  Taker(t) # 0
    <3>1. Taker(t) \in Orders
      BY <2>2, FairTradeNames DEF AInv
    <3> QED
      BY <1>2, <3>1
  <2> QED
    BY <2>1, <2>2
<1>5. Made \in Seq(TradeRecord)
  BY MadeFacts DEF AInv
<1>6. \A n \in Orders : TakenFrom(Made, cur, n) \in Nat
  BY <1>4, <1>5, TakenFromType
<1>7. cur = 0 => \A n \in Orders : TakenFrom(Made, cur, n) = 0
  BY <1>4, <1>5, TakenFromType
<1> QED
  BY <1>1, <1>2, <1>3, <1>6, <1>7 DEF Given, Touched, MapShape

\* What the mapping depends on.
LEMMA MappingUnchanged ==
    ASSUME UNCHANGED <<objs, book, cur, tape, fills>>
    PROVE  UNCHANGED <<Handled, Offers, Settled>>
<1>1. Handled' = Handled
  BY DEF Handled, Request
<1>2. Given' = Given
  BY DEF Given, TakenFrom, Made, Orders, Maker, Taker, Lesser
<1>3. Listed' = Listed
  BY DEF Listed, Resting
<1>4. Touched' = Touched
  BY <1>2 DEF Touched, Orders
<1>5. Offers' = Offers
  BY <1>2, <1>3, <1>4 DEF Offers, Remaining
<1>6. Settled' = Settled
  BY DEF Settled, Taker
<1> QED
  BY <1>1, <1>5, <1>6

-----------------------------------------------------------------------------
(* The invariant: one lemma for each kind of step.                         *)

\* A response: the requests that have parsed are the same.
LEMMA RespondKeepsRInv ==
    ASSUME RInv, AInv', cur' = 0, objs' = objs
    PROVE  RInv'
BY DEF RInv, Orders, Request

\* A request that parsed: nothing has been given to its order yet.
LEMMA ParsedKeepsRInv ==
    ASSUME RInv, AInv', cur = 0, NEW m \in Messages, NEW status \in Statuses,
           objs' = Append(objs, NewOrder(m, status)),
           UNCHANGED <<book, tape, fills, exec>>,
           cur' \in {0, Len(objs) + 1},
           cur' # 0 => Len(replies') < MaxRequests
    PROVE  /\ RInv'
           /\ Offers' = Offers /\ Settled' = Settled
           /\ \A n \in Orders : n \in Orders' /\ Request(objs'[n]) = Request(objs[n])
           /\ Len(objs') = Len(objs) + 1 /\ Request(objs'[Len(objs) + 1]) = m
<1>1. PICK k \in Nat : k = Len(objs) + 1
  BY LenProperties DEF RInv, AInv, IInv, TypeOK
<1>2. /\ Keeps /\ Len(objs') = k /\ Orders' = Orders \cup {k} /\ k \notin Orders
      /\ objs'[k] = NewOrder(m, status)
      /\ \A n \in Orders : objs'[n] = objs[n]
  <2>1. Len(objs) \in Nat
    BY LenProperties DEF RInv, AInv, IInv, TypeOK
  <2> QED
    BY <1>1, <2>1, AppendOrder DEF RInv, AInv, IInv, Orders
<1>3. Request(objs'[k]) = m
  <2>1. m \in Message
    BY MessagesAssumption
  <2> QED
    BY <1>2, <2>1 DEF Request, NewOrder, Message
<1>4. \A n \in Orders' : Request(objs'[n]) \in Messages
  BY <1>2, <1>3 DEF RInv
<1>5. Made' = Made /\ fills = <<>> /\ exec' = NoExecution
  BY DEF RInv, AInv, IdleHandler, Made
<1>6. /\ Made \in Seq(TradeRecord) /\ tape \in Seq(TradeRecord)
      /\ \A i \in 1..Len(Made) :
            Made[i].qty > 0 /\ Taker(Made[i]) # k /\ Taker(Made[i]) # 0
      /\ \A i \in 1..Len(tape) : Taker(tape[i]) # k /\ Taker(tape[i]) # 0
  <2>1. ASSUME NEW t \in TradeRecord, FairTrade(t)
        PROVE  Taker(t) # k /\ Taker(t) # 0
    <3>1. Taker(t) \in Orders
      BY <2>1, FairTradeNames DEF RInv, AInv
    <3> QED
      BY <1>2, <3>1 DEF Orders
  <2>2. /\ Made \in Seq(TradeRecord) /\ tape \in Seq(TradeRecord)
        /\ \A i \in 1..Len(Made) :
              Made[i].qty > 0 /\ Made[i] \in TradeRecord /\ FairTrade(Made[i])
        /\ \A i \in 1..Len(tape) : tape[i] \in TradeRecord /\ FairTrade(tape[i])
    BY MadeFacts DEF RInv, AInv
  <2> QED
    BY <2>1, <2>2
<1>7. \A i \in 1..Len(Made) : Taker(Made[i]) # cur'
  BY <1>1, <1>6
<1>8. /\ \A n \in Orders' : Given'[n] = 0
      /\ Given' \in [Orders' -> Nat]
  <2>1. \A n \in Orders' : TakenFrom(Made, cur', n) = 0
    BY <1>6, <1>7, TakenFromType
  <2> QED
    BY <1>5, <2>1 DEF Given
<1>9. Touched' = {} /\ Touched = {}
  <2>1. \A n \in Orders : Given[n] = 0
    BY MappedState DEF RInv, MapShape
  <2> QED
    BY <1>8, <2>1 DEF Touched
<1>10. cur' # 0 => Greedy'
  <2> SUFFICES ASSUME cur' # 0
               PROVE  Greedy'
    OBVIOUS
  <2>1. TouchedCross' /\ TouchedAhead' /\ OthersUsedUp'
    BY <1>9 DEF TouchedCross, TouchedAhead, OthersUsedUp
  <2>2. OneTradeEach'
    BY <1>5, <1>7, <1>9 DEF OneTradeEach
  <2>3. LastPrice'
    BY <1>5 DEF LastPrice, NoExecution
  <2>4. GivenIsFilled'
    <3>1. IsFiniteSet(Orders')
      BY <1>1, <1>2, FS_Interval DEF Orders
    <3>2. SumOver(Given', Orders') = 0
      BY <1>8, <3>1, SumZero
    <3>3. objs'[cur'].filled = 0
      BY <1>1, <1>2 DEF NewOrder
    <3> QED
      BY <3>2, <3>3 DEF GivenIsFilled, SumOver
  <2> QED
    BY <2>1, <2>2, <2>3, <2>4 DEF Greedy
<1>11. Offers' = Offers
  <2>1. Listed' = Listed
    BY DEF Listed, Resting
  <2>2. \A n \in Listed : n \in Orders
    BY MappedState DEF RInv, MapShape
  <2>3. \A n \in Listed : Remaining(objs'[n]) = Remaining(objs[n]) /\ Given'[n] = Given[n]
    <3>1. \A n \in Orders : Given[n] = 0
      BY MappedState DEF RInv, MapShape
    <3> QED
      BY <1>2, <1>8, <2>2, <3>1
  <2> QED
    BY <1>9, <2>1, <2>3 DEF Offers, Remaining
<1>12. Settled' = Settled
  <2>1. \A t \in ToSet(tape) : Taker(t) # cur /\ Taker(t) # cur'
    <3>1. \A t \in ToSet(tape) : \E i \in 1..Len(tape) : t = tape[i]
      BY <1>6, LenProperties DEF ToSet
    <3> QED
      BY <1>1, <1>6, <3>1
  <2> QED
    BY <2>1 DEF Settled, Taker
<1>13. \A n \in Orders : n \in Orders' /\ Request(objs'[n]) = Request(objs[n])
  BY <1>2
<1> QED
  BY <1>1, <1>2, <1>3, <1>4, <1>10, <1>11, <1>12, <1>13 DEF RInv

\* A trade recorded: the trades made are the same.
LEMMA RecordTradeKeepsRInv ==
    ASSUME RInv, AInv', RecordTrade
    PROVE  RInv' /\ UNCHANGED <<Handled, Offers, Settled>>
<1>1. /\ cur # 0 /\ cur' = cur /\ objs' = objs /\ book' = book /\ replies' = replies
      /\ exec' = [qty |-> exec.qty + Head(fills).qty, price |-> Head(fills).price]
      /\ tape' = Append(tape, Head(fills)) /\ Orders' = Orders
  BY DEF RecordTrade, Orders
<1>2. PICK h \in TradeRecord :
        /\ h = Head(fills) /\ Taker(h) = cur
        /\ Len(tape') = Len(tape) + 1 /\ tape' \in Seq(TradeRecord)
        /\ \A i \in 1..Len(tape) : tape'[i] = tape[i]
        /\ tape'[Len(tape) + 1] = h
        /\ Made' = Made
  BY RecordTradeFacts, Zenon DEF RInv
<1>3. tape \in Seq(TradeRecord) /\ Len(tape) \in Nat
  BY MadeFacts DEF RInv, AInv
<1>4. Given' = Given
  BY <1>1, <1>2 DEF Given
<1>5. Touched' = Touched /\ Makers' = Makers /\ Listed' = Listed
  BY <1>1, <1>4 DEF Touched, Makers, Listed, Resting
<1>6. UNCHANGED <<Handled, Offers>>
  BY <1>1, <1>4, <1>5 DEF Handled, Offers
<1>7. Settled' = Settled
  <2>1. ToSet(tape') = ToSet(tape) \cup {h}
    <3>1. DOMAIN tape = 1..Len(tape) /\ DOMAIN tape' = 1..(Len(tape) + 1)
      BY <1>2, <1>3, LenProperties
    <3> QED
      BY <1>2, <1>3, <3>1 DEF ToSet
  <2> QED
    BY <1>1, <1>2, <2>1 DEF Settled, Taker
<1>8. LastPrice'
  <2>1. /\ Len(tape) + 1 \in 1..Len(tape') /\ exec'.price = h.price
        /\ \A j \in 1..Len(tape') : j <= Len(tape) + 1
    BY <1>1, <1>2, <1>3
  <2> QED
    BY <1>1, <1>2, <2>1 DEF LastPrice
<1>9. /\ TouchedCross' /\ TouchedAhead' /\ OthersUsedUp' /\ OneTradeEach'
      /\ GivenIsFilled'
  <2>1. Greedy
    BY <1>1 DEF RInv
  <2>2. TouchedCross'
    BY <1>1, <1>5, <2>1 DEF Greedy, TouchedCross
  <2>3. TouchedAhead'
    BY <1>1, <1>5, <2>1 DEF Greedy, TouchedAhead, AheadOf, Before
  <2>4. OthersUsedUp'
    BY <1>1, <1>5, <2>1 DEF Greedy, OthersUsedUp
  <2>5. OneTradeEach'
    BY <1>1, <1>2, <1>4, <1>5, <2>1 DEF Greedy, OneTradeEach, AheadOf, Before
  <2>6. GivenIsFilled'
    BY <1>1, <1>4, <2>1 DEF Greedy, GivenIsFilled
  <2> QED
    BY <2>2, <2>3, <2>4, <2>5, <2>6
<1>10. \A n \in Orders' : Request(objs'[n]) \in Messages
  BY <1>1 DEF RInv
<1> QED
  BY <1>1, <1>6, <1>7, <1>8, <1>9, <1>10 DEF RInv, Greedy

\* An order of serving that is kept: keys and arrival numbers never change.
LEMMA AheadOfKept ==
    ASSUME RInv, Keeps, NEW a \in Orders, NEW b \in Orders
    PROVE  AheadOf(a, b)' <=> AheadOf(a, b)
<1>1. /\ Before(a, b)' <=> Before(a, b)
      /\ Before(b, a)' <=> Before(b, a)
  BY BeforeKept DEF RInv, AInv, IInv
<1> QED
  BY <1>1 DEF AheadOf

\* A round of the loop: the best maker gives what cur takes, and is next in
\* line after those that gave before.
LEMMA MatchStepKeepsRInv ==
    ASSUME RInv, AInv', MatchStep
    PROVE  RInv' /\ UNCHANGED <<Handled, Offers, Settled>>
<1>1. PICK best \in Orders, q \in Nat \ {0}, t \in TradeRecord :
        /\ cur \in Orders /\ cur # 0 /\ best < cur /\ cur \in Nat /\ best \in Nat
        /\ UNCHANGED <<cur, tape, exec, replies, registry>> /\ Orders' = Orders
        /\ objs[cur] \in Order /\ objs[best] \in Order
        /\ objs[cur].symbol \in Symbols /\ objs[cur].side \in Sides
        /\ Makers = book[objs[cur].symbol][Opposite(objs[cur].side)]
        /\ Makers \in Seq(Orders) /\ Makers # <<>> /\ Makers[1] = best
        /\ Len(Makers) \in Nat \ {0} /\ \A i \in 1..Len(Makers) : Makers[i] \in Orders
        /\ MayRest(best, objs[cur].symbol, Opposite(objs[cur].side))
        /\ objs[cur].type = "LIMIT" => Crosses(objs[cur], objs[best])
        /\ q = Lesser(Remaining(objs[cur]), Remaining(objs[best]))
        /\ Len(objs') = Len(objs) /\ Keeps
        /\ \A n \in Orders \ {best, cur} : objs'[n] = objs[n]
        /\ \A n \in {best, cur} : objs'[n].filled = objs[n].filled + q
        /\ fills' = Append(fills, t) /\ Made' = Append(Made, t)
        /\ {t.buy, t.sell} = {cur, best} /\ Taker(t) = cur
        /\ t.qty = q /\ t.price = objs[best].price
        /\ Makers' = IF FullyFilled(objs'[best]) THEN Tail(Makers) ELSE Makers
  BY MatchStepTrade, Zenon DEF RInv
<1>2. /\ cur \in Orders /\ cur # 0 /\ best < cur /\ cur \in Nat /\ best \in Nat
      /\ cur' = cur /\ Orders' = Orders /\ Len(objs') = Len(objs)
      /\ best \in Orders /\ q \in Nat \ {0} /\ t \in TradeRecord
  BY <1>1, Zenon
<1>3. /\ tape' = tape /\ exec' = exec /\ replies' = replies /\ Keeps
      /\ Made' = Append(Made, t) /\ Taker(t) = cur
      /\ t.qty = q /\ t.price = objs[best].price
  BY <1>1, Zenon
<1>4. /\ Makers = book[objs[cur].symbol][Opposite(objs[cur].side)]
      /\ objs[cur].symbol \in Symbols /\ objs[cur].side \in Sides
      /\ MayRest(best, objs[cur].symbol, Opposite(objs[cur].side))
      /\ objs[cur].type = "LIMIT" => Crosses(objs[cur], objs[best])
  BY <1>1, Zenon
<1>5. /\ Makers \in Seq(Orders) /\ Makers # <<>> /\ Makers[1] = best
      /\ Len(Makers) \in Nat \ {0} /\ \A i \in 1..Len(Makers) : Makers[i] \in Orders
  BY <1>1, Zenon
<1>6. Makers' = IF FullyFilled(objs'[best]) THEN Tail(Makers) ELSE Makers
  BY <1>1, Zenon
<1>7. /\ \A n \in Orders \ {best, cur} : objs'[n] = objs[n]
      /\ objs'[best].filled = objs[best].filled + q
      /\ objs'[cur].filled = objs[cur].filled + q
      /\ q = Lesser(Remaining(objs[cur]), Remaining(objs[best]))
  BY <1>1, Zenon
<1>8. /\ TouchedCross /\ TouchedAhead /\ OthersUsedUp
      /\ OneTradeEach /\ LastPrice /\ GivenIsFilled
  BY <1>2 DEF RInv, Greedy
<1>9. Maker(t) = best
  <2>1. (t.buy = cur /\ t.sell = best) \/ (t.buy = best /\ t.sell = cur)
    BY <1>1
  <2> QED
    BY <1>2, <2>1 DEF Maker, Lesser
<1>10. /\ Len(objs) \in Nat /\ IsFiniteSet(Orders) /\ cur = Len(objs)
       /\ \A n \in Orders : objs[n] \in Order /\ n \in Nat
       /\ Given \in [Orders -> Nat] /\ Touched \subseteq Orders
       /\ Listed = {n \in Orders : /\ objs[n].symbol \in Symbols
                                   /\ MayRest(n, objs[n].symbol, objs[n].side)}
  BY <1>2, MappedState DEF RInv, MapShape
<1>11. /\ Listed' = {n \in Orders' : /\ objs'[n].symbol \in Symbols
                                     /\ MayRest(n, objs[n].symbol, objs[n].side)'}
       /\ Given' \in [Orders' -> Nat]
  <2>1. MapShape'
    BY MappedState, PTL
  <2> QED
    BY <2>1 DEF MapShape
<1>12. /\ \A n \in Orders : /\ objs[n].qty \in Int /\ objs[n].filled \in Int
                            /\ objs[n].price \in Int /\ objs[n].ts \in Int
                            /\ Remaining(objs[n]) \in Int
       /\ Remaining(objs[cur]) > 0 /\ Remaining(objs[best]) > 0
       /\ Remaining(objs[cur]) \in Int /\ Remaining(objs[best]) \in Int
  <2>1. \A n \in Orders : /\ objs[n].qty \in Int /\ objs[n].filled \in Int
                          /\ objs[n].price \in Int /\ objs[n].ts \in Int
    BY <1>10 DEF Order
  <2>2. Remaining(objs[cur]) > 0 /\ Remaining(objs[best]) > 0
    BY <1>4 DEF MatchStep, CanMatch, MayRest
  <2>3. \A n \in Orders : Remaining(objs[n]) \in Int
    BY <2>1 DEF Remaining
  <2> QED
    BY <1>2, <2>1, <2>2, <2>3
<1>13. best \notin Touched /\ Given[best] = 0
  <2>1. best \notin Touched
    BY <1>8, <1>12 DEF OthersUsedUp
  <2> QED
    BY <1>10, <2>1 DEF Touched
<1>14. \A n \in Orders : Given'[n] = IF n = best THEN q ELSE Given[n]
  <2>1. Made \in Seq(TradeRecord)
    BY MadeFacts DEF RInv, AInv
  <2>2. \A n \in Orders : TakenFrom(Append(Made, t), cur, n)
            = TakenFrom(Made, cur, n) + IF best = n THEN q ELSE 0
    BY <1>2, <1>3, <1>9, <2>1, TakenFromAdds
  <2>3. \A n \in Orders : Given[n] = TakenFrom(Made, cur, n)
    BY DEF Given
  <2>4. \A n \in Orders : Given'[n] = TakenFrom(Append(Made, t), cur, n)
    BY <1>2, <1>3 DEF Given
  <2> QED
    BY <1>10, <1>13, <2>2, <2>3, <2>4
<1>15. Touched' = Touched \cup {best}
  <2>1. \A n \in Orders : n \in Touched' <=> n \in Touched \/ n = best
    <3>1. \A n \in Orders : n \in Touched <=> Given[n] > 0
      BY DEF Touched
    <3>2. \A n \in Orders : n \in Touched' <=> Given'[n] > 0
      BY <1>2 DEF Touched
    <3> QED
      BY <1>2, <1>14, <3>1, <3>2
  <2>2. Touched' \subseteq Orders
    BY <1>2 DEF Touched
  <2> QED
    BY <1>2, <1>10, <2>1, <2>2
\* Those who gave before have nothing left.
<1>16. \A n \in Touched : Remaining(objs[n]) = 0 /\ n # cur /\ n # best
  <2>1. \A n \in Touched : Remaining(objs[n]) = 0 /\ n < cur
    BY <1>8, <1>12 DEF OthersUsedUp, TouchedCross
  <2> QED
    BY <1>2, <1>12, <1>10, <1>13, <2>1
<1>17. \A n \in Orders : /\ objs'[n].qty = objs[n].qty
                         /\ objs'[n].side = objs[n].side
                         /\ objs'[n].symbol = objs[n].symbol
                         /\ objs'[n].price = objs[n].price
                         /\ objs'[n].type = objs[n].type
                         /\ Request(objs'[n]) = Request(objs[n])
  BY <1>3 DEF Keeps, Request
<1>18. \A n \in Orders : Remaining(objs'[n]) =
          IF n \in {best, cur} THEN Remaining(objs[n]) - q ELSE Remaining(objs[n])
  <2> SUFFICES ASSUME NEW n \in Orders
               PROVE  Remaining(objs'[n]) = IF n \in {best, cur} THEN Remaining(objs[n]) - q
                                                              ELSE Remaining(objs[n])
    OBVIOUS
  <2>1. objs'[n].qty = objs[n].qty /\ objs[n].qty \in Int /\ objs[n].filled \in Int
    BY <1>12, <1>17
  <2>2. n \in {best, cur} => objs'[n].filled = objs[n].filled + q
    BY <1>7
  <2>3. n \notin {best, cur} => objs'[n] = objs[n]
    BY <1>7
  <2> QED
    BY <1>2, <2>1, <2>2, <2>3 DEF Remaining
<1>19. Remaining(objs'[best]) > 0 => Remaining(objs'[cur]) = 0
  <2>1. /\ Remaining(objs'[best]) = Remaining(objs[best]) - q
        /\ Remaining(objs'[cur]) = Remaining(objs[cur]) - q
    BY <1>2, <1>18
  <2> QED
    BY <1>2, <1>7, <1>12, <2>1 DEF Lesser
<1>20. FullyFilled(objs'[best]) <=> ~(Remaining(objs'[best]) > 0)
  <2>1. /\ objs'[best].qty = objs[best].qty /\ objs[best].qty \in Int
        /\ objs[best].filled \in Int /\ objs'[best].filled = objs[best].filled + q
    BY <1>2, <1>7, <1>12, <1>17
  <2> QED
    BY <1>2, <2>1 DEF FullyFilled, Remaining
\* The list that is left, and who is ahead of it.
<1>21. ASSUME NEW i \in 1..Len(Makers')
       PROVE  \E k \in 1..Len(Makers) : /\ Makers'[i] = Makers[k]
                                        /\ FullyFilled(objs'[best]) => k > 1
  <2>1. CASE FullyFilled(objs'[best])
    <3>1. Makers' = Tail(Makers) /\ Makers \in Seq(Orders) /\ Makers # <<>>
      BY <1>5, <1>6, <2>1
    <3>2. Len(Tail(Makers)) = Len(Makers) - 1 /\ Tail(Makers)[i] = Makers[i + 1]
      BY <1>21, <3>1, HeadTailProperties
    <3>3. i + 1 \in 1..Len(Makers) /\ i + 1 > 1
      BY <1>5, <1>21, <3>1, <3>2
    <3> QED
      BY <3>1, <3>2, <3>3
  <2>2. CASE ~FullyFilled(objs'[best])
    BY <1>6, <1>21, <2>2
  <2> QED
    BY <2>1, <2>2
<1>22. \A k \in 1..Len(Makers) : Makers[k] # best => AheadOf(best, Makers[k])
  <2> SUFFICES ASSUME NEW k \in 1..Len(Makers), Makers[k] # best
               PROVE  AheadOf(best, Makers[k])
    OBVIOUS
  <2>1. k > 1 /\ 1 \in 1..Len(Makers)
    BY <1>5
  <2>2. Opposite(objs[cur].side) \in Sides
    BY <1>4 DEF Opposite, Sides
  <2> QED
    BY <1>4, <1>5, <2>1, <2>2 DEF RInv, AInv, IInv, PriceTimeOrder, AheadOf
<1>23. TouchedCross'
  <2> SUFFICES ASSUME NEW n \in Touched \cup {best}
               PROVE  /\ n < cur
                      /\ objs[n].symbol = objs[cur].symbol
                      /\ objs[n].side = Opposite(objs[cur].side)
                      /\ objs[cur].type = "LIMIT" => Crosses(objs[cur], objs[n])
    <3>1. \A n \in Touched \cup {best} : n \in Orders
      BY <1>2, <1>10
    <3>2. /\ objs'[cur].type = objs[cur].type /\ objs'[cur].price = objs[cur].price
          /\ objs'[cur].symbol = objs[cur].symbol /\ objs'[cur].side = objs[cur].side
      BY <1>2, <1>17
    <3>3. \A n \in Touched \cup {best} :
             /\ objs'[n].symbol = objs[n].symbol /\ objs'[n].side = objs[n].side
             /\ objs'[n].price = objs[n].price
      BY <3>1, <1>17
    <3> QED
      BY <1>2, <1>15, <3>2, <3>3 DEF TouchedCross, Crosses
  <2>1. CASE n \in Touched
    BY <1>8, <2>1 DEF TouchedCross
  <2>2. CASE n = best
    BY <1>2, <1>4, <2>2 DEF MayRest
  <2> QED
    BY <2>1, <2>2
<1>24. TouchedAhead'
  <2> SUFFICES ASSUME NEW n \in Touched \cup {best}, NEW i \in 1..Len(Makers'),
                      Makers'[i] # n
               PROVE  AheadOf(n, Makers[i])'
    BY <1>15 DEF TouchedAhead
  <2>1. PICK k \in 1..Len(Makers) : Makers'[i] = Makers[k]
    BY <1>21
  <2>2. PICK b \in Orders : b = Makers[k] /\ n \in Orders
    BY <1>2, <1>5, <1>10
  <2>3. AheadOf(n, b)
    BY <1>8, <1>22, <2>1, <2>2 DEF TouchedAhead
  <2>4. AheadOf(n, b)'
    BY <1>3, <2>2, <2>3, AheadOfKept
  <2>5. Makers'[i] = b
    BY <2>1, <2>2
  <2> QED
    BY <2>4, <2>5, Zenon DEF AheadOf, Before
<1>25. OthersUsedUp'
  <2> SUFFICES ASSUME NEW n \in Touched \cup {best}, Remaining(objs'[n]) # 0
               PROVE  Remaining(objs'[cur]) = 0 /\ Makers' # <<>> /\ n = Head(Makers')
    BY <1>2, <1>15 DEF OthersUsedUp
  <2>1. n = best
    <3>1. \A x \in Touched : Remaining(objs'[x]) = 0
      BY <1>10, <1>16, <1>18, <1>12
    <3> QED
      BY <3>1
  <2>2. Remaining(objs'[best]) > 0
    <3>1. Remaining(objs'[best]) = Remaining(objs[best]) - q
      BY <1>2, <1>18
    <3> QED
      BY <1>2, <1>7, <1>12, <2>1, <3>1 DEF Lesser
  <2>3. Makers' = Makers /\ Makers # <<>> /\ Head(Makers) = best
    BY <1>5, <1>6, <1>20, <2>2
  <2> QED
    BY <1>19, <2>1, <2>2, <2>3
<1>26. /\ Made \in Seq(TradeRecord) /\ Len(Made) \in Nat
       /\ Len(Made') = Len(Made) + 1 /\ Made'[Len(Made) + 1] = t
       /\ \A k \in 1..Len(Made) : Made'[k] = Made[k]
       /\ \A k \in 1..Len(Made) : Maker(Made[k]) \in Orders
  <2>1. Made \in Seq(TradeRecord)
    BY MadeFacts DEF RInv, AInv
  <2>2. \A k \in 1..Len(Made) : Maker(Made[k]) \in Orders
    BY MadeFacts DEF RInv, AInv, FairTrade, Maker, Lesser
  <2> HIDE DEF Made
  <2> QED
    BY <1>3, <2>1, <2>2, AppendProperties, LenProperties
<1> HIDE DEF Made
\* The makers of its trades are touched, in particular not the best one.
<1>27. \A k \in 1..Len(Made) : Taker(Made[k]) = cur =>
          Maker(Made[k]) \in Touched /\ Maker(Made[k]) # best
  <2> SUFFICES ASSUME NEW k \in 1..Len(Made), Taker(Made[k]) = cur
               PROVE  Maker(Made[k]) \in Touched
    BY <1>13
  <2>1. Given[Maker(Made[k])] > 0
    BY <1>8, MadeFacts DEF OneTradeEach, RInv, AInv
  <2> QED
    BY <1>26, <2>1 DEF Touched
<1>28. OneTradeEach'
  <2>1. ASSUME NEW k \in 1..Len(Made'), Taker(Made'[k]) = cur
        PROVE  Made'[k].qty = Given'[Maker(Made'[k])]
    <3>1. CASE k \in 1..Len(Made)
      BY <1>8, <1>14, <1>26, <1>27, <2>1, <3>1 DEF OneTradeEach
    <3>2. CASE k = Len(Made) + 1
      BY <1>3, <1>9, <1>14, <1>26, <3>2
    <3> QED
      BY <1>26, <3>1, <3>2
  <2>2. ASSUME NEW n \in Touched \cup {best}
        PROVE  \E k \in 1..Len(Made') : Taker(Made'[k]) = cur /\ Maker(Made'[k]) = n
    <3>1. CASE n \in Touched
      <4>1. PICK k \in 1..Len(Made) : Taker(Made[k]) = cur /\ Maker(Made[k]) = n
        BY <1>8, <3>1 DEF OneTradeEach
      <4>2. k \in 1..Len(Made') /\ Made'[k] = Made[k]
        BY <1>26
      <4> QED
        BY <4>1, <4>2
    <3>2. CASE n = best
      <4>1. Len(Made) + 1 \in 1..Len(Made')
        BY <1>26
      <4> QED
        BY <1>3, <1>9, <1>26, <3>2, <4>1
    <3> QED
      BY <3>1, <3>2
  <2>3. ASSUME NEW j \in 1..Len(Made'), NEW k \in 1..Len(Made'), j < k,
               Taker(Made'[j]) = cur, Taker(Made'[k]) = cur
        PROVE  AheadOf(Maker(Made[j]), Maker(Made[k]))'
    <3>1. j \in 1..Len(Made) /\ Made'[j] = Made[j]
      BY <1>26, <2>3
    <3>2. PICK a \in Orders : a = Maker(Made[j])
      BY <1>26, <3>1
    <3>3. PICK b \in Orders : b = Maker(Made'[k]) /\ AheadOf(a, b)
      <4>1. CASE k \in 1..Len(Made)
        BY <1>8, <1>26, <2>3, <3>1, <3>2, <4>1 DEF OneTradeEach
      <4>2. CASE k = Len(Made) + 1
        <5>1. a \in Touched /\ a # best
          BY <1>27, <2>3, <3>1, <3>2
        <5>2. 1 \in 1..Len(Makers) /\ Makers[1] = best
          BY <1>5
        <5>3. AheadOf(a, best)
          BY <1>8, <5>1, <5>2 DEF TouchedAhead
        <5> QED
          BY <1>9, <1>26, <4>2, <5>3
      <4> QED
        BY <1>26, <4>1, <4>2
    <3>4. AheadOf(a, b)'
      BY <1>3, <3>3, AheadOfKept
    <3>5. Maker(Made[j])' = a /\ Maker(Made[k])' = b
      BY <3>1, <3>2, <3>3 DEF Maker, Lesser
    <3> QED
      BY <3>4, <3>5, Zenon DEF AheadOf, Before
  <2> QED
    <3>1. \A n \in Touched' : \E k \in 1..Len(Made') :
             Taker(Made'[k]) = cur' /\ Maker(Made'[k]) = n
      BY <1>2, <1>15, <2>2
    <3>2. \A k \in 1..Len(Made') :
             Taker(Made'[k]) = cur' => Made'[k].qty = Given'[Maker(Made'[k])]
      BY <1>2, <2>1
    <3>3. \A j, k \in 1..Len(Made') :
             j < k /\ Taker(Made'[j]) = cur' /\ Taker(Made'[k]) = cur' =>
               AheadOf(Maker(Made[j]), Maker(Made[k]))'
      BY <1>2, <2>3
    <3> QED
      BY <3>1, <3>2, <3>3, Zenon DEF OneTradeEach, Taker, Maker, Lesser
<1>29. LastPrice'
  BY <1>2, <1>3, <1>8 DEF LastPrice
<1>30. GivenIsFilled'
  <2>1. SumOver(Given', Orders) = SumOver(Given, Orders) - Given[best] + Given'[best]
    <3>1. \A n \in Orders : Given[n] \in Int /\ Given'[n] \in Int
      <4>1. Given' \in [Orders -> Nat]
        BY <1>2, <1>11
      <4> QED
        BY <1>10, <4>1
    <3>2. \A n \in Orders : n # best => Given'[n] = Given[n]
      BY <1>14
    <3> QED
      BY <1>10, <3>1, <3>2, SumChange
  <2>2. SumOver(Given, Orders) = objs[cur].filled
    BY <1>8 DEF GivenIsFilled, SumOver
  <2>3. SumOver(Given', Orders) = objs'[cur].filled
    <3>1. Given'[best] = q /\ Given[best] = 0
      BY <1>2, <1>13, <1>14
    <3>2. objs'[cur].filled = objs[cur].filled + q /\ objs[cur].filled \in Int
      BY <1>2, <1>7, <1>12
    <3> QED
      BY <1>2, <2>1, <2>2, <3>1, <3>2
  <2> QED
    BY <1>2, <2>3 DEF GivenIsFilled, SumOver
<1>31. RInv'
  BY <1>2, <1>3, <1>17, <1>23, <1>24, <1>25, <1>28, <1>29, <1>30 DEF RInv, Greedy
<1>32. Listed' \cup Touched' = Listed \cup Touched
  <2>1. best \in Listed
    <3>1. MayRest(best, objs[best].symbol, objs[best].side) /\ objs[best].symbol \in Symbols
      BY <1>4 DEF MayRest
    <3> QED
      BY <1>2, <1>10, <3>1
  <2>2. ASSUME NEW n \in Orders, n # best
        PROVE  n \in Listed' <=> n \in Listed
    <3>1. CASE n = cur
      BY <1>2, <1>10, <1>11, <3>1 DEF MayRest
    <3>2. CASE n # cur
      <4>1. objs'[n] = objs[n]
        BY <1>7, <2>2, <3>2
      <4>2. MayRest(n, objs[n].symbol, objs[n].side)' <=>
              MayRest(n, objs[n].symbol, objs[n].side)
        BY <1>2, <4>1 DEF MayRest
      <4> QED
        BY <1>2, <1>10, <1>11, <4>1, <4>2
    <3> QED
      BY <3>1, <3>2
  <2>3. Listed \subseteq Orders /\ Listed' \subseteq Orders
    BY <1>2, <1>10, <1>11
  <2> QED
    BY <1>15, <2>1, <2>2, <2>3
<1>33. Offers' = Offers
  <2>1. ASSUME NEW n \in Listed \cup Touched
        PROVE  Remaining(objs'[n]) + Given'[n] = Remaining(objs[n]) + Given[n]
    <3>1. n \in Orders /\ n # cur
      BY <1>10, <1>16 DEF MayRest
    <3>2. Remaining(objs[n]) \in Int /\ Given[n] \in Int
      BY <1>10, <1>12, <3>1 DEF Remaining
    <3> QED
      <4>1. CASE n = best
        <5>1. /\ Remaining(objs'[n]) = Remaining(objs[n]) - q
              /\ Given'[n] = q /\ Given[n] = 0
          BY <1>2, <1>13, <1>14, <1>18, <3>1, <4>1
        <5> QED
          BY <1>2, <3>2, <5>1
      <4>2. CASE n # best
        <5>1. Remaining(objs'[n]) = Remaining(objs[n]) /\ Given'[n] = Given[n]
          BY <1>14, <1>18, <3>1, <4>2
        <5> QED
          BY <5>1
      <4> QED
        BY <4>1, <4>2
  <2> QED
    BY <1>32, <2>1 DEF Offers, Remaining
<1>34. Handled' = Handled
  <2>1. DOMAIN Handled = 1..(Len(objs) - 1)
    BY <1>2 DEF Handled
  <2>2. \A n \in 1..(Len(objs) - 1) : n \in Orders
    BY <1>10 DEF Orders
  <2> QED
    <3>1. \A n \in 1..(Len(objs) - 1) : Request(objs'[n]) = Request(objs[n])
      BY <1>17, <2>2
    <3> QED
      BY <1>2, <3>1 DEF Handled
<1>35. Settled' = Settled
  BY <1>2, <1>3 DEF Settled, Taker
<1> QED
  BY <1>31, <1>33, <1>34, <1>35

LEMMA InitEstablishesRInv == Init => RInv
BY InitEstablishesAInv DEF Init, RInv, Orders

LEMMA NextKeepsRInv == RInv /\ [Next]_vars => RInv'
<1> SUFFICES ASSUME RInv, [Next]_vars
             PROVE  RInv'
  OBVIOUS
<1>1. AInv'
  BY NextKeepsAInv DEF RInv
<1>2. CASE UNCHANGED vars
  <2>1. UNCHANGED <<objs, book, tape, cur, fills, exec, replies>>
    BY <1>2 DEF vars
  <2>2. Given' = Given /\ Orders' = Orders
    BY <2>1 DEF Given, TakenFrom, Made, Orders, Maker, Taker, Lesser
  <2>3. Touched' = Touched /\ Makers' = Makers /\ Made' = Made
    BY <2>1, <2>2 DEF Touched, Makers, Made
  <2>4. cur # 0 => Greedy'
    <3> SUFFICES ASSUME cur # 0
                 PROVE  Greedy'
      OBVIOUS
    <3>1. Greedy
      BY DEF RInv
    <3>2. TouchedCross' /\ OthersUsedUp' /\ LastPrice' /\ GivenIsFilled'
      BY <2>1, <2>2, <2>3, <3>1
         DEF Greedy, TouchedCross, OthersUsedUp, LastPrice, GivenIsFilled
    <3>3. TouchedAhead' /\ OneTradeEach'
      BY <2>1, <2>2, <2>3, <3>1
         DEF Greedy, TouchedAhead, OneTradeEach, AheadOf, Before
    <3> QED
      BY <3>2, <3>3 DEF Greedy
  <2> QED
    BY <1>1, <2>1, <2>2, <2>4 DEF RInv
<1>3. CASE RejectUnparsed
  BY <1>1, <1>3, RespondKeepsRInv DEF RejectUnparsed
<1>4. ASSUME NEW m \in Messages, RejectInvalid(m)
      PROVE  RInv'
  BY <1>1, <1>4, ParsedKeepsRInv DEF RejectInvalid, Statuses
<1>5. ASSUME NEW m \in Messages, Accept(m)
      PROVE  RInv'
  BY <1>1, <1>5, ParsedKeepsRInv DEF Accept, Statuses
<1>6. CASE MatchStep
  BY <1>1, <1>6, MatchStepKeepsRInv
<1>7. CASE RecordTrade
  BY <1>1, <1>7, RecordTradeKeepsRInv
<1>8. CASE FinishMarket \/ FinishFilledLimit \/ RestLimit
  <2>1. cur' = 0 /\ objs' = objs
    BY <1>8 DEF FinishMarket, FinishFilledLimit, RestLimit, Respond
  <2> QED
    BY <1>1, <2>1, RespondKeepsRInv
<1> QED
  BY <1>2, <1>3, <1>4, <1>5, <1>6, <1>7, <1>8 DEF Next

\* The loop that pops from sorted lists has taken what it has in price-time
\* priority, at every step of every behaviour.
THEOREM RefinementInvariant == Spec => []RInv
<1>1. Init => RInv
  BY InitEstablishesRInv
<1>2. RInv /\ [Next]_vars => RInv'
  BY NextKeepsRInv
<1> QED
  BY <1>1, <1>2, PTL DEF Spec

-----------------------------------------------------------------------------
(* What the exchange allots to the incoming order is what the loop took.   *)

\* The request in the handler, after the loop and the recording of its trades.
Incoming == Request(objs[cur])

Matched == cur # 0 /\ ~CanMatch /\ fills = <<>>

Parties == Exchange!Counterparties(Incoming)

InFront == [r \in Parties |-> {a \in Parties : Exchange!Ahead(a, r)}]

\* The sums of the two modules are the same function.
LEMMA OfferedIsSum == ASSUME NEW S PROVE Exchange!Offered(S) = SumOver(Offers, S)
BY DEF Exchange!Offered, SumOver, SumFunctionOnSet, FoldFunctionOnSet, MapThenFoldSet,
       Exchange!SumFunctionOnSet, Exchange!FoldFunctionOnSet, Exchange!MapThenFoldSet

\* The log holds the requests of all orders but the one in the handler.
LEMMA LoggedRequests ==
    ASSUME RInv, cur # 0
    PROVE  /\ cur \in Orders /\ cur = Len(objs) /\ cur \in Nat \ {0}
           /\ Len(Handled) = cur - 1 /\ Handled \in Seq(Messages)
           /\ DOMAIN Offers = Listed \cup Touched
           /\ \A r \in DOMAIN Offers : r \in Orders \ {cur}
           /\ \A r \in Orders \ {cur} : r \in 1..(cur - 1) /\ Handled[r] = Request(objs[r])
<1>1. MapShape
  BY MappedState DEF RInv
<1>2. cur \in Orders /\ cur = Len(objs) /\ cur \in Nat \ {0}
  BY <1>1 DEF MapShape
<1>3. \A r \in Orders \ {cur} : r \in 1..(cur - 1)
  BY <1>2 DEF Orders
<1>4. \A r \in 1..(cur - 1) : r \in Orders
  BY <1>2 DEF Orders
<1>5. /\ Handled = [n \in 1..(cur - 1) |-> Request(objs[n])]
      /\ cur - 1 \in Nat
  BY <1>2 DEF Handled
<1>6. \A r \in 1..(cur - 1) : Request(objs[r]) \in Messages
  BY <1>4 DEF RInv
<1>7. Handled \in [1..(cur - 1) -> Messages]
  BY <1>5, <1>6
<1>8. Handled \in Seq(Messages) /\ Len(Handled) = cur - 1
  BY <1>5, <1>7
<1>9. \A r \in Listed \cup Touched : r \in Orders \ {cur}
  <2>1. \A r \in Listed : r \in Orders \ {cur}
    BY <1>1 DEF MapShape, MayRest
  <2>2. \A r \in Touched : r \in Orders /\ r < cur
    BY <1>1 DEF MapShape, RInv, Greedy, TouchedCross
  <2> QED
    BY <1>2, <2>1, <2>2
<1>10. DOMAIN Offers = Listed \cup Touched
  BY DEF Offers
<1> QED
  BY <1>2, <1>3, <1>5, <1>8, <1>9, <1>10

\* The exchange serves the orders of a side as the lists are sorted.
LEMMA AheadMeans ==
    ASSUME RInv, cur # 0, NEW a \in Orders \ {cur}, NEW b \in Orders \ {cur},
           objs[a].side = objs[b].side
    PROVE  /\ Exchange!Ahead(a, b) <=> AheadOf(a, b)
           /\ ~(AheadOf(a, b) /\ AheadOf(b, a))
<1>1. /\ Handled[a] = Request(objs[a]) /\ Handled[b] = Request(objs[b])
      /\ a \in Nat /\ b \in Nat
  BY LoggedRequests, MappedState DEF MapShape, RInv
<1>2. /\ objs[a].price \in Int /\ objs[b].price \in Int
      /\ objs[a].ts \in Int /\ objs[b].ts \in Int
  BY MappedState DEF MapShape, RInv, Order
<1>3. PICK p \in Int, u \in Int : p = objs[a].price /\ u = objs[b].price
  BY <1>2
<1>4. PICK s \in Int, t \in Int : s = objs[a].ts /\ t = objs[b].ts
  BY <1>2
<1>5. /\ Handled[a].side = objs[a].side /\ Handled[b].side = objs[a].side
      /\ Handled[a].price = p /\ Handled[b].price = u
      /\ Handled[a].ts = s /\ Handled[b].ts = t
  BY <1>1, <1>3, <1>4 DEF Request
<1>6. Exchange!Ahead(a, b) <=>
        \/ Better(objs[a].side, p, u)
        \/ p = u /\ s < t
        \/ p = u /\ s = t /\ a < b
  BY <1>5 DEF Exchange!Ahead, Better
<1>7. /\ Before(a, b) <=> Better(objs[a].side, p, u) \/ (p = u /\ s < t)
      /\ Before(b, a) <=> Better(objs[a].side, u, p) \/ (u = p /\ t < s)
  BY <1>3, <1>4 DEF Before
<1>8. CASE objs[a].side = "BUY"
  BY <1>1, <1>6, <1>7, <1>8 DEF AheadOf, Better
<1>9. CASE objs[a].side # "BUY"
  BY <1>1, <1>6, <1>7, <1>9 DEF AheadOf, Better
<1> QED
  BY <1>8, <1>9

\* Who the order may trade with: those it did, and who of its list it crosses,
\* which nobody does when something is left of it.
LEMMA PartiesAre ==
    ASSUME RInv, Matched
    PROVE  /\ Touched \subseteq Parties /\ Parties \subseteq Orders \ {cur}
           /\ \A r \in Parties : objs[r].side = Opposite(objs[cur].side)
           /\ \A r \in Parties \ Touched : \E i \in 1..Len(Makers) : r = Makers[i]
           /\ Remaining(objs[cur]) > 0 => Parties = Touched
<1>1. MapShape /\ Greedy
  BY MappedState DEF RInv, Matched
<1>2. /\ cur \in Orders /\ cur # 0
      /\ DOMAIN Offers = Listed \cup Touched
      /\ \A r \in DOMAIN Offers : r \in Orders \ {cur} /\ Handled[r] = Request(objs[r])
  BY LoggedRequests DEF Matched
<1>3. objs[cur] \in Order /\ objs[cur].side \in Sides /\ objs[cur].price \in Int
  BY <1>1, <1>2 DEF MapShape, Order
<1>4. ASSUME NEW r \in DOMAIN Offers
      PROVE  /\ r \in Parties <=>
                  /\ objs[r].symbol = objs[cur].symbol
                  /\ objs[r].side = Opposite(objs[cur].side)
                  /\ objs[cur].type = "LIMIT" => Crosses(objs[cur], objs[r])
             /\ objs[r].side \in Sides
  <2>1. objs[r].side \in Sides /\ objs[r].price \in Int
    BY <1>1, <1>2 DEF MapShape, Order
  <2>2. /\ Handled[r].symbol = objs[r].symbol /\ Handled[r].side = objs[r].side
        /\ Handled[r].price = objs[r].price
        /\ Incoming.symbol = objs[cur].symbol /\ Incoming.side = objs[cur].side
        /\ Incoming.price = objs[cur].price /\ Incoming.type = objs[cur].type
    <3>1. Handled[r] = Request(objs[r])
      BY <1>2
    <3> QED
      BY <3>1 DEF Request, Incoming
  <2>3. r \in Parties <=>
          /\ objs[r].symbol = objs[cur].symbol
          /\ objs[r].side # objs[cur].side
          /\ objs[cur].type = "LIMIT" =>
               IF objs[cur].side = "BUY" THEN objs[r].price <= objs[cur].price
                                         ELSE objs[r].price >= objs[cur].price
    BY <2>2, Zenon DEF Parties, Exchange!Counterparties
  <2>4. objs[r].side # objs[cur].side <=> objs[r].side = Opposite(objs[cur].side)
    BY <1>3, <2>1 DEF Opposite, Sides
  <2>5. objs[r].side = Opposite(objs[cur].side) =>
          (Crosses(objs[cur], objs[r]) <=>
             IF objs[cur].side = "BUY" THEN objs[r].price <= objs[cur].price
                                       ELSE objs[r].price >= objs[cur].price)
    BY <1>3, <2>1 DEF Opposite, Crosses, Better, Sides
  <2> QED
    BY <2>1, <2>3, <2>4, <2>5
<1>5. Parties \subseteq DOMAIN Offers
  BY Zenon DEF Parties, Exchange!Counterparties
<1>6. Touched \subseteq Parties
  BY <1>1, <1>2, <1>4 DEF Greedy, TouchedCross
<1>7. objs[cur].symbol \in Symbols /\ Opposite(objs[cur].side) \in Sides
  BY <1>3 DEF RInv, AInv, IInv, InHandler, Matched, Valid, Opposite, Sides
<1>8. ASSUME NEW r \in Parties \ Touched
      PROVE  \E i \in 1..Len(Makers) : r = Makers[i]
  <2>1. r \in Orders /\ r \in Listed
    BY <1>2, <1>5
  <2>2. MayRest(r, objs[cur].symbol, Opposite(objs[cur].side))
    BY <1>1, <1>4, <1>5, <2>1 DEF MapShape
  <2>3. r \in Resting(objs[cur].symbol, Opposite(objs[cur].side))
    BY <1>7, <2>1, <2>2 DEF RInv, AInv, IInv, NothingLost
  <2> QED
    BY <2>3 DEF Resting, Makers
<1>9. ASSUME Remaining(objs[cur]) > 0, NEW r \in Parties \ Touched
      PROVE  FALSE
  <2>1. PICK i \in 1..Len(Makers) : r = Makers[i]
    BY <1>8
  <2>2. Makers \in Seq(Orders) /\ Len(Makers) \in Nat
    BY <1>7, LenProperties DEF RInv, AInv, IInv, TypeOK, Makers
  <2>3. Makers # <<>> /\ 1 \in 1..Len(Makers) /\ Head(Makers) = Makers[1]
    BY <2>1, <2>2
  <2>4. /\ objs[cur].type = "LIMIT" /\ ~Crosses(objs[cur], objs[Makers[1]])
        /\ Crosses(objs[cur], objs[r])
    BY <1>2, <1>4, <1>5, <1>9, <2>3 DEF Matched, CanMatch
  <2>5. PICK h \in Orders : h = Makers[1]
    BY <2>2, <2>3, ElementOfSeq
  <2>6. objs[h].side = Opposite(objs[cur].side) /\ objs[r].side = Opposite(objs[cur].side)
    <3>1. MayRest(h, objs[cur].symbol, Opposite(objs[cur].side))
      BY <1>7, <2>3, <2>5 DEF RInv, AInv, IInv, EntriesLive, Makers
    <3> QED
      BY <1>4, <1>5, <3>1 DEF MayRest
  <2>7. r = h \/ ~Before(r, h)
    <3>1. i = 1 \/ (1 < i)
      BY <2>2
    <3> QED
      BY <1>7, <2>1, <2>3, <2>5, <3>1 DEF RInv, AInv, IInv, PriceTimeOrder, Makers
  <2>8. objs[h].price \in Int /\ objs[r].price \in Int /\ r \in Orders
    BY <1>1, <1>2, <1>5, <2>5 DEF MapShape, Order
  <2>9. r = h \/ ~Better(objs[h].side, objs[r].price, objs[h].price)
    BY <2>6, <2>7 DEF Before
  <2> QED
    BY <1>3, <2>4, <2>5, <2>6, <2>8, <2>9 DEF Crosses, Better
<1> QED
  BY <1>2, <1>4, <1>5, <1>6, <1>8, <1>9

\* The loop has walked through the parties in the order of the exchange.
LEMMA LoopWalks ==
    ASSUME RInv, Matched
    PROVE  /\ Walk(Parties, Offers, Given, InFront, objs[cur].qty)
           /\ SumOver(Given, Parties) = objs[cur].filled
           /\ objs[cur].qty \in Nat /\ objs[cur].filled \in Nat
           /\ objs[cur].filled <= objs[cur].qty /\ objs[cur].qty > 0
<1>1. MapShape /\ Greedy
  BY MappedState DEF RInv, Matched
<1>2. /\ cur \in Orders /\ cur # 0
      /\ DOMAIN Offers = Listed \cup Touched
      /\ \A r \in DOMAIN Offers : r \in Orders \ {cur}
  BY LoggedRequests DEF Matched
<1>3. /\ Touched \subseteq Parties /\ Parties \subseteq Orders \ {cur}
      /\ \A r \in Parties : objs[r].side = Opposite(objs[cur].side)
      /\ \A r \in Parties \ Touched : \E i \in 1..Len(Makers) : r = Makers[i]
      /\ Remaining(objs[cur]) > 0 => Parties = Touched
  BY PartiesAre
<1>4. Parties \subseteq DOMAIN Offers
  BY Zenon DEF Parties, Exchange!Counterparties
<1>5. /\ exec.qty = objs[cur].filled /\ exec.qty \in Int /\ objs[cur] \in Order
      /\ 0 <= exec.qty /\ exec.qty <= objs[cur].qty /\ 0 < objs[cur].qty
  BY ExecutionIsFill DEF RInv, Matched
<1>6. /\ objs[cur].qty \in Nat /\ objs[cur].filled \in Nat
      /\ objs[cur].filled <= objs[cur].qty /\ objs[cur].qty > 0
      /\ Remaining(objs[cur]) = objs[cur].qty - objs[cur].filled
  BY <1>5 DEF Order, Remaining
<1>7. IsFiniteSet(Parties)
  BY <1>1, <1>3, FS_Subset DEF MapShape
<1>8. \A r \in Orders : Given[r] \in Nat /\ Given[r] \in Int /\ (r \in Touched <=> Given[r] > 0)
  BY <1>1 DEF MapShape, Touched
<1>9. SumOver(Given, Parties) = objs[cur].filled
  <2>1. SumOver(Given, Orders) = objs[cur].filled
    BY <1>1 DEF Greedy, GivenIsFilled, SumOver
  <2>2. \A r \in Orders \ Parties : Given[r] = 0
    BY <1>3, <1>8
  <2>3. SumOver(Given, Orders) = SumOver(Given, Parties)
    BY <1>1, <1>3, <1>8, <2>2, SumSupport DEF MapShape
  <2> QED
    BY <2>1, <2>3
\* Two orders of the list's side.
<1>10. ASSUME NEW a \in Parties, NEW b \in Parties
       PROVE  /\ a \in InFront[b] <=> AheadOf(a, b)
              /\ ~(AheadOf(a, b) /\ AheadOf(b, a))
  <2>1. a \in Orders \ {cur} /\ b \in Orders \ {cur} /\ objs[a].side = objs[b].side
    BY <1>3
  <2>2. a \in InFront[b] <=> Exchange!Ahead(a, b)
    BY Zenon DEF InFront
  <2> QED
    BY <1>2, <2>1, <2>2, AheadMeans
<1>11. \A x \in Parties : InFront[x] \subseteq Parties /\ x \notin InFront[x]
  <2>1. \A x \in Parties : InFront[x] \subseteq Parties
    BY Zenon DEF InFront
  <2> QED
    BY <1>10, <2>1
\* What is left of a party.
<1>12. ASSUME NEW x \in Parties
       PROVE  /\ Offers[x] = Remaining(objs[x]) + Given[x]
              /\ Remaining(objs[x]) \in Nat
              /\ Remaining(objs[x]) = 0 => x \in Touched
              /\ x \in Touched /\ Remaining(objs[x]) # 0 =>
                   Remaining(objs[cur]) = 0 /\ Makers # <<>> /\ x = Head(Makers)
  <2>1. Offers[x] = Remaining(objs[x]) + Given[x] /\ x \in Orders
    BY <1>3, <1>4 DEF Offers
  <2>2. Remaining(objs[x]) \in Int
    BY <1>1, <2>1 DEF MapShape, Order, Remaining
  <2>3. x \in Listed => Remaining(objs[x]) > 0
    BY <1>1 DEF MapShape, MayRest
  <2>4. x \in Touched /\ Remaining(objs[x]) # 0 =>
          Remaining(objs[cur]) = 0 /\ Makers # <<>> /\ x = Head(Makers)
    BY <1>1 DEF Greedy, OthersUsedUp
  <2>5. x \in Listed \/ x \in Touched
    BY <1>2, <1>4
  <2>6. x \in Touched /\ Remaining(objs[x]) # 0 => Remaining(objs[x]) > 0
    <3> SUFFICES ASSUME x \in Touched, Remaining(objs[x]) # 0
                 PROVE  Remaining(objs[x]) > 0
      OBVIOUS
    <3>1. Makers # <<>> /\ x = Head(Makers)
      BY <2>4
    <3>2. /\ objs[cur].symbol \in Symbols /\ Opposite(objs[cur].side) \in Sides
      BY <1>5 DEF RInv, AInv, IInv, InHandler, Matched, Valid, Opposite, Sides, Order
    <3>3. Makers \in Seq(Orders)
      BY <3>2 DEF RInv, AInv, IInv, TypeOK, Makers
    <3>4. 1 \in 1..Len(Makers) /\ x = Makers[1]
      BY <3>1, <3>3
    <3>5. MayRest(x, objs[cur].symbol, Opposite(objs[cur].side))
      BY <3>2, <3>4 DEF RInv, AInv, IInv, EntriesLive, Makers
    <3> QED
      BY <3>5 DEF MayRest
  <2> QED
    BY <2>1, <2>2, <2>3, <2>4, <2>5, <2>6
<1>13. \A x \in Parties : /\ Given[x] \in Nat /\ Offers[x] \in Nat /\ Given[x] <= Offers[x]
                          /\ Given[x] = Offers[x] <=> Remaining(objs[x]) = 0
                          /\ x \in Touched <=> Given[x] > 0
  BY <1>3, <1>8, <1>12
\* Whoever gave is ahead of everybody who has something left.
<1>14. ASSUME NEW x \in Touched, NEW y \in Parties, y # x,
              y \notin Touched \/ Remaining(objs[y]) # 0
       PROVE  AheadOf(x, y)
  <2>1. CASE y \notin Touched
    <3>1. PICK i \in 1..Len(Makers) : y = Makers[i]
      BY <1>3, <2>1
    <3> QED
      BY <1>1, <1>14, <3>1 DEF Greedy, TouchedAhead
  <2>2. CASE y \in Touched
    <3>1. Makers # <<>> /\ y = Head(Makers)
      BY <1>12, <1>14, <2>2
    <3>2. objs[cur].symbol \in Symbols /\ Opposite(objs[cur].side) \in Sides
      BY <1>5 DEF RInv, AInv, IInv, InHandler, Matched, Valid, Opposite, Sides, Order
    <3>3. Makers \in Seq(Orders)
      BY <3>2 DEF RInv, AInv, IInv, TypeOK, Makers
    <3>4. 1 \in 1..Len(Makers) /\ y = Makers[1]
      BY <3>1, <3>3
    <3> QED
      BY <1>1, <1>14, <3>4 DEF Greedy, TouchedAhead
  <2> QED
    BY <2>1, <2>2
<1>15. CASE Remaining(objs[cur]) > 0
  <2>1. SumOver(Given, Parties) < objs[cur].qty
    BY <1>6, <1>9, <1>15
  <2>2. \A x \in Parties : Given[x] = Offers[x]
    BY <1>3, <1>12, <1>13, <1>15
  <2> QED
    BY <1>6, <1>7, <1>9, <1>11, <1>13, <2>1, <2>2 DEF Walk
<1>16. CASE ~(Remaining(objs[cur]) > 0)
  <2>1. SumOver(Given, Parties) = objs[cur].qty
    BY <1>6, <1>9, <1>16
  <2>2. ASSUME NEW x \in Parties, Given[x] > 0, NEW y \in InFront[x]
        PROVE  Given[y] = Offers[y]
    <3>1. y \in Parties /\ x \in Touched /\ AheadOf(y, x) /\ y # x
      BY <1>10, <1>11, <1>13, <2>2
    <3>2. ~AheadOf(x, y)
      BY <1>10, <3>1
    <3>3. Remaining(objs[y]) = 0
      BY <1>14, <3>1, <3>2
    <3> QED
      BY <1>13, <3>1, <3>3
  <2>3. ASSUME NEW x \in Parties, Given[x] > 0, Given[x] # Offers[x],
               NEW y \in Parties, Given[y] > 0, y # x
        PROVE  y \in InFront[x]
    <3>1. x \in Touched /\ y \in Touched /\ Remaining(objs[x]) # 0
      BY <1>13, <2>3
    <3>2. AheadOf(y, x)
      BY <1>14, <2>3, <3>1
    <3> QED
      BY <1>10, <3>2
  <2>4. ASSUME NEW x \in Parties, Given[x] = 0, NEW y \in Parties, Given[y] > 0
        PROVE  y \in InFront[x]
    <3>1. x \notin Touched /\ y \in Touched /\ x # y
      BY <1>13, <2>4
    <3>2. AheadOf(y, x)
      BY <1>14, <3>1
    <3> QED
      BY <1>10, <3>2
  <2>5. /\ \A x \in Parties : Given[x] > 0 => \A y \in InFront[x] : Given[y] = Offers[y]
        /\ \A x \in Parties : Given[x] > 0 /\ Given[x] # Offers[x] =>
              \A y \in Parties : Given[y] > 0 /\ y # x => y \in InFront[x]
        /\ \A x \in Parties : Given[x] = 0 =>
              \A y \in Parties : Given[y] > 0 => y \in InFront[x]
    BY <2>2, <2>3, <2>4
  <2>6. /\ IsFiniteSet(Parties) /\ objs[cur].qty \in Nat
        /\ \A x \in Parties : /\ Given[x] \in Nat /\ Offers[x] \in Nat
                              /\ Given[x] <= Offers[x]
                              /\ InFront[x] \subseteq Parties /\ x \notin InFront[x]
    BY <1>6, <1>7, <1>11, <1>13
  <2>7. Walk(Parties, Offers, Given, InFront, objs[cur].qty)
    BY <2>1, <2>5, <2>6, Zenon DEF Walk
  <2> QED
    BY <1>6, <1>9, <2>7
<1> QED
  BY <1>6, <1>9, <1>15, <1>16

\* So each party has given its allotment.
LEMMA AllotmentsGiven ==
    ASSUME RInv, Matched
    PROVE  /\ Exchange!Traded(Incoming) = objs[cur].filled
           /\ \A r \in Parties : Exchange!Allotment(Incoming, r) = Given[r]
           /\ Exchange!Chosen(Incoming) = Touched
<1>1. /\ Supplied(objs[cur].qty, Offers, Parties) = objs[cur].filled
      /\ \A r \in Parties : Share(objs[cur].qty, Offers, InFront, r) = Given[r]
  <2>1. /\ Walk(Parties, Offers, Given, InFront, objs[cur].qty)
        /\ SumOver(Given, Parties) = objs[cur].filled
    BY LoopWalks
  <2>2. /\ Supplied(objs[cur].qty, Offers, Parties) = SumOver(Given, Parties)
        /\ \A r \in Parties : Share(objs[cur].qty, Offers, InFront, r) = Given[r]
    BY <2>1, WalkAllots
  <2> QED
    BY <2>1, <2>2
<1>2. Incoming.qty = objs[cur].qty
  BY DEF Incoming, Request
<1>3. Exchange!Traded(Incoming) = Supplied(objs[cur].qty, Offers, Parties)
  BY <1>2, OfferedIsSum, Zenon DEF Exchange!Traded, Supplied, Parties
<1>4. ASSUME NEW r \in Parties
      PROVE  Exchange!Allotment(Incoming, r) = Share(objs[cur].qty, Offers, InFront, r)
  <2>1. InFront[r] = {a \in Parties : Exchange!Ahead(a, r)}
    BY Zenon DEF InFront
  <2>2. SumOver(Offers, InFront[r]) =
          Exchange!Offered({a \in Exchange!Counterparties(Incoming) : Exchange!Ahead(a, r)})
    BY <2>1, OfferedIsSum, Zenon DEF Parties
  <2> QED
    BY <1>2, <2>2, Zenon DEF Exchange!Allotment, Share
<1>5. \A r \in Parties : Exchange!Allotment(Incoming, r) = Given[r]
  BY <1>1, <1>4
<1>6. /\ Touched \subseteq Parties /\ Parties \subseteq Orders
      /\ \A r \in Orders : r \in Touched <=> Given[r] > 0
  BY PartiesAre DEF Touched
<1>7. Exchange!Chosen(Incoming) = Touched
  <2>1. Exchange!Chosen(Incoming) = {r \in Parties : Exchange!Allotment(Incoming, r) > 0}
    BY Zenon DEF Exchange!Chosen, Parties
  <2> QED
    BY <1>5, <1>6, <2>1
<1> QED
  BY <1>1, <1>3, <1>5, <1>7

-----------------------------------------------------------------------------
(* The response is the step of the exchange.                               *)

\* The trade of the exchange between the incoming order n and party r.
Settlement(m, n, r) ==
    [buy    |-> IF m.side = "BUY" THEN n ELSE r,
     sell   |-> IF m.side = "BUY" THEN r ELSE n,
     symbol |-> m.symbol,
     price  |-> Handled[r].price,
     qty    |-> Exchange!Allotment(m, r)]

\* A trade of the incoming order on the tape, and its maker.
LEMMA TradeIsSettlement ==
    ASSUME RInv, Matched, NEW k \in 1..Len(tape), Taker(tape[k]) = cur
    PROVE  /\ Maker(tape[k]) \in Touched
           /\ tape[k].price = Handled[Maker(tape[k])].price
           /\ tape[k] = Settlement(Incoming, cur, Maker(tape[k]))
<1>1. MapShape /\ Greedy
  BY MappedState DEF RInv, Matched
<1>2. /\ cur \in Orders /\ cur # 0 /\ cur \in Nat
      /\ \A r \in DOMAIN Offers : r \in Orders \ {cur} /\ Handled[r] = Request(objs[r])
      /\ DOMAIN Offers = Listed \cup Touched
  BY LoggedRequests DEF Matched
<1>3. PICK t \in TradeRecord : /\ t = tape[k] /\ FairTrade(t) /\ t.qty > 0
                               /\ k \in 1..Len(Made) /\ Made[k] = t /\ Taker(t) = cur
  BY MadeFacts DEF RInv, AInv
<1>4. t.qty = Given[Maker(t)]
  BY <1>1, <1>3 DEF Greedy, OneTradeEach
<1>5. t.buy \in Orders /\ t.sell \in Orders /\ t.buy # t.sell /\ Taker(t) \in {t.buy, t.sell}
  BY <1>3, FairTradeNames DEF RInv, AInv
<1>6. t.buy \in Nat /\ t.sell \in Nat
  BY <1>1, <1>5 DEF MapShape
<1>7. (t.buy = cur /\ t.sell = Maker(t)) \/ (t.sell = cur /\ t.buy = Maker(t))
  BY <1>3, <1>5, <1>6 DEF Taker, Maker, Lesser
<1>8. Maker(t) \in Orders /\ Maker(t) # cur
  BY <1>5, <1>7
<1>9. Maker(t) \in Touched
  BY <1>3, <1>4, <1>8 DEF Touched
<1>10. Handled[Maker(t)] = Request(objs[Maker(t)])
  BY <1>2, <1>9
<1>11. t.price = objs[Maker(t)].price /\ Handled[Maker(t)].price = objs[Maker(t)].price
  BY <1>3, <1>10 DEF FairTrade, Maker, Request
<1>12. /\ objs[t.buy].side = "BUY" /\ objs[t.sell].side = "SELL"
       /\ objs[t.buy].symbol = t.symbol /\ objs[t.sell].symbol = t.symbol
  BY <1>3 DEF FairTrade
<1>13. /\ Incoming.side = objs[cur].side /\ Incoming.symbol = objs[cur].symbol
  BY DEF Incoming, Request
<1>14. Exchange!Allotment(Incoming, Maker(t)) = t.qty
  BY <1>4, <1>9, AllotmentsGiven, PartiesAre
<1>15. t = Settlement(Incoming, cur, Maker(t))
  <2>1. t.symbol = Incoming.symbol /\ t.price = Handled[Maker(t)].price
    BY <1>7, <1>11, <1>12, <1>13
  <2>2. /\ t.buy = IF Incoming.side = "BUY" THEN cur ELSE Maker(t)
        /\ t.sell = IF Incoming.side = "BUY" THEN Maker(t) ELSE cur
    BY <1>7, <1>12, <1>13
  <2>3. t = [buy |-> t.buy, sell |-> t.sell, symbol |-> t.symbol,
             price |-> t.price, qty |-> t.qty]
    BY DEF TradeRecord
  <2> QED
    BY <1>14, <2>1, <2>2, <2>3 DEF Settlement
<1> QED
  BY <1>3, <1>9, <1>11, <1>15

\* The trades of the incoming order are those of the exchange.
LEMMA TradesSettled ==
    ASSUME RInv, Matched, cur' = 0, tape' = tape
    PROVE  Settled' = Settled \cup {Settlement(Incoming, cur, r) : r \in Touched}
<1>1. Greedy /\ cur # 0
  BY DEF RInv, Matched
<1>2. /\ tape \in Seq(TradeRecord) /\ Made = tape
      /\ \A i \in 1..Len(tape) : tape[i] \in TradeRecord /\ FairTrade(tape[i])
  BY MadeFacts, ExecutionIsFill DEF RInv, AInv, Matched
<1>3. ToSet(tape) = {tape[i] : i \in 1..Len(tape)}
  BY <1>2, LenProperties DEF ToSet
<1>4. \A i \in 1..Len(tape) : Taker(tape[i]) # 0
  <2>1. \A i \in 1..Len(tape) : Taker(tape[i]) \in Orders
    BY <1>2, FairTradeNames DEF RInv, AInv
  <2> QED
    BY <2>1, MappedState DEF RInv, MapShape
<1>5. Settled' = ToSet(tape)
  <2>1. Settled' = {t \in ToSet(tape) : Taker(t) # 0}
    BY DEF Settled, Taker
  <2> QED
    BY <1>3, <1>4, <2>1
<1>6. ASSUME NEW t \in ToSet(tape)
      PROVE  t \in Settled \/ \E r \in Touched : t = Settlement(Incoming, cur, r)
  <2>1. PICK i \in 1..Len(tape) : t = tape[i]
    BY <1>3
  <2>2. CASE Taker(t) = cur
    <3>1. /\ Maker(tape[i]) \in Touched
          /\ tape[i] = Settlement(Incoming, cur, Maker(tape[i]))
      BY <2>1, <2>2, TradeIsSettlement
    <3> QED
      BY <2>1, <3>1
  <2>3. CASE Taker(t) # cur
    BY <1>6, <2>3 DEF Settled
  <2> QED
    BY <2>2, <2>3
<1>7. ASSUME NEW r \in Touched
      PROVE  Settlement(Incoming, cur, r) \in ToSet(tape)
  <2>1. PICK k \in 1..Len(tape) : Taker(tape[k]) = cur /\ Maker(tape[k]) = r
    BY <1>1, <1>2 DEF Greedy, OneTradeEach
  <2>2. tape[k] = Settlement(Incoming, cur, r)
    BY <2>1, TradeIsSettlement
  <2> QED
    BY <1>3, <2>2
<1>8. Settled \subseteq ToSet(tape)
  BY DEF Settled
<1> QED
  BY <1>5, <1>6, <1>7, <1>8

\* The price of the answer is that of the last party.
LEMMA PriceAnswered ==
    ASSUME RInv, Matched
    PROVE  Exchange!ReplyPrice(Incoming) = exec.price
<1>1. MapShape /\ Greedy
  BY MappedState DEF RInv, Matched
<1>2. Exchange!Chosen(Incoming) = Touched
  BY AllotmentsGiven
<1>3. /\ exec.qty = objs[cur].filled /\ exec.qty \in Int /\ Made = tape
      /\ cur # 0 /\ cur \in Orders
  BY ExecutionIsFill DEF RInv, Matched
<1>4. SumOver(Given, Orders) = exec.qty
  BY <1>1, <1>3 DEF Greedy, GivenIsFilled, SumOver
<1>5. \A r \in Orders : Given[r] \in Nat /\ Given[r] \in Int /\ (r \in Touched <=> Given[r] > 0)
  BY <1>1 DEF MapShape, Touched
<1>6. CASE Touched = {}
  <2>1. \A r \in Orders : Given[r] = 0
    BY <1>5, <1>6
  <2>2. exec.qty = 0
    BY <1>1, <1>4, <2>1, SumZero DEF MapShape
  <2>3. exec.price = 0
    BY <1>3, <2>2 DEF RInv, AInv, ExecutionSums
  <2> QED
    BY <1>2, <1>6, <2>3 DEF Exchange!ReplyPrice
<1>7. CASE Touched # {}
  <2>1. PICK r \in Touched : r \in Orders
    BY <1>1, <1>7 DEF MapShape
  <2>2. exec.qty > 0
    <3>1. SumOver(Given, Orders) = Given[r] + SumOver(Given, Orders \ {r})
      BY <1>1, <1>5, <2>1, SumTakeOut DEF MapShape
    <3>2. SumOver(Given, Orders \ {r}) \in Nat
      BY <1>1, <1>5, SumOfPart DEF MapShape
    <3> QED
      BY <1>4, <1>5, <2>1, <3>1, <3>2
  <2>3. PICK k \in 1..Len(tape) :
          /\ Taker(tape[k]) = cur /\ tape[k].price = exec.price
          /\ \A j \in 1..Len(tape) : Taker(tape[j]) = cur => j <= k
    BY <1>1, <2>2 DEF Greedy, LastPrice
  <2>4. PICK z \in Touched : z = Maker(tape[k]) /\ tape[k].price = Handled[z].price
    BY <2>3, TradeIsSettlement
  <2>5. ASSUME NEW a \in Touched, a # z
        PROVE  Exchange!Ahead(a, z) /\ ~Exchange!Ahead(z, a)
    <3>1. PICK j \in 1..Len(tape) : Taker(tape[j]) = cur /\ Maker(tape[j]) = a
      BY <1>1, <1>3 DEF Greedy, OneTradeEach
    <3>2. j < k
      <4>1. j <= k /\ j # k
        BY <2>3, <2>4, <2>5, <3>1
      <4> QED
        BY <4>1
    <3>3. AheadOf(a, z)
      BY <1>1, <1>3, <2>3, <2>4, <3>1, <3>2 DEF Greedy, OneTradeEach
    <3>4. a \in Orders \ {cur} /\ z \in Orders \ {cur} /\ objs[a].side = objs[z].side
      BY PartiesAre
    <3>5. /\ Exchange!Ahead(a, z) <=> AheadOf(a, z)
          /\ Exchange!Ahead(z, a) <=> AheadOf(z, a)
          /\ ~(AheadOf(a, z) /\ AheadOf(z, a))
      BY <1>3, <3>4, AheadMeans
    <3> QED
      BY <3>3, <3>5
  <2> DEFINE Hindmost(x) == \A a \in Touched \ {x} : Exchange!Ahead(a, x)
  <2>6. Hindmost(z) /\ \A x \in Touched : Hindmost(x) => x = z
    BY <2>5
  <2>7. (CHOOSE x \in Touched : Hindmost(x)) = z
    <3> HIDE DEF Hindmost
    <3> QED
      BY <2>6
  <2> QED
    BY <1>2, <1>7, <2>3, <2>4, <2>7, Zenon DEF Exchange!ReplyPrice
<1> QED
  BY <1>6, <1>7

\* What is on offer afterwards.
LEMMA OffersAfter ==
    ASSUME RInv, AInv', Matched, cur' = 0, objs' = objs
    PROVE  LET rests == objs[cur].type = "LIMIT" /\ Remaining(objs[cur]) > 0
           IN  /\ DOMAIN Offers' = Listed \cup (IF rests THEN {cur} ELSE {})
               /\ Offers' = [r \in DOMAIN Offers' |-> Remaining(objs[r])]
<1>1. MapShape /\ MapShape'
  BY MappedState, PTL DEF RInv
<1>2. /\ cur \in Orders /\ cur # 0 /\ objs[cur].symbol \in Symbols
      /\ objs[cur].status # "REJECTED"
  BY LoggedRequests DEF RInv, AInv, IInv, InHandler, Matched, Valid
<1>3. Orders' = Orders /\ 0 \notin Orders
  BY DEF Orders
<1>4. Given' \in [Orders -> Nat] /\ \A n \in Orders : Given'[n] = 0
  <2>1. \A n \in Orders' : Given'[n] = 0
    BY <1>1 DEF MapShape
  <2> QED
    BY <1>1, <1>3, <2>1 DEF MapShape
<1>5. Touched' = {}
  BY <1>3, <1>4 DEF Touched
<1>6. ASSUME NEW n \in Orders
      PROVE  /\ n \in Listed' <=> /\ objs[n].symbol \in Symbols
                                  /\ objs[n].type = "LIMIT"
                                  /\ objs[n].status # "REJECTED"
                                  /\ Remaining(objs[n]) > 0
             /\ n \in Listed <=> /\ n # cur
                                 /\ objs[n].symbol \in Symbols
                                 /\ objs[n].type = "LIMIT"
                                 /\ objs[n].status # "REJECTED"
                                 /\ Remaining(objs[n]) > 0
  <2>1. MayRest(n, objs[n].symbol, objs[n].side)' <=>
          objs[n].type = "LIMIT" /\ objs[n].status # "REJECTED" /\ Remaining(objs[n]) > 0
    BY <1>3 DEF MayRest, Remaining
  <2>2. Listed' = {i \in Orders' : /\ objs'[i].symbol \in Symbols
                                   /\ MayRest(i, objs[i].symbol, objs[i].side)'}
    BY <1>1 DEF MapShape
  <2>3. Listed = {i \in Orders : /\ objs[i].symbol \in Symbols
                                 /\ MayRest(i, objs[i].symbol, objs[i].side)}
    BY <1>1 DEF MapShape
  <2>4. n \in Listed' <=> objs[n].symbol \in Symbols /\ MayRest(n, objs[n].symbol, objs[n].side)'
    BY <1>3, <2>2
  <2>5. n \in Listed <=> objs[n].symbol \in Symbols /\ MayRest(n, objs[n].symbol, objs[n].side)
    BY <2>3
  <2> QED
    BY <2>1, <2>4, <2>5 DEF MayRest
<1>7. Listed \subseteq Orders /\ Listed' \subseteq Orders
  BY <1>1, <1>3 DEF MapShape
<1>8. DOMAIN Offers' = Listed'
  BY <1>5 DEF Offers
<1>9. Listed' = Listed \cup
        (IF objs[cur].type = "LIMIT" /\ Remaining(objs[cur]) > 0 THEN {cur} ELSE {})
  BY <1>2, <1>6, <1>7
<1>10. Offers' = [r \in Listed' |-> Remaining(objs[r])]
  <2>1. Offers' = [r \in Listed' |-> Remaining(objs'[r]) + Given'[r]]
    BY <1>5 DEF Offers, Remaining
  <2>2. \A r \in Listed' : Remaining(objs'[r]) + Given'[r] = Remaining(objs[r])
    <3>1. \A r \in Listed' : Given'[r] = 0
      BY <1>4, <1>7
    <3>2. \A r \in Listed' : Remaining(objs[r]) \in Int
      BY <1>1, <1>7 DEF MapShape, Order, Remaining
    <3> QED
      BY <3>1, <3>2
  <2> QED
    BY <2>1, <2>2
<1> QED
  BY <1>8, <1>9, <1>10

\* Every way to respond is the exchange's step for the request.
LEMMA RespondSubmits ==
    ASSUME RInv, AInv', Matched, cur' = 0, objs' = objs, tape' = tape,
           replies' = Append(replies, Reply(cur, Exchange!Outcome(Incoming),
                                            exec.price, exec.qty))
    PROVE  Exchange!Submit(Incoming)
<1> DEFINE m == Incoming
           exhausted == {r \in Exchange!Chosen(m) : Exchange!Allotment(m, r) = Offers[r]}
           rests == m.type = "LIMIT" /\ Exchange!Traded(m) < m.qty
           stay == (DOMAIN Offers \ exhausted) \cup (IF rests THEN {cur} ELSE {})
<1>1. MapShape /\ Greedy
  BY MappedState DEF RInv, Matched
<1>2. /\ cur \in Orders /\ cur = Len(objs) /\ cur \in Nat \ {0}
      /\ Len(Handled) = cur - 1 /\ Handled \in Seq(Messages)
      /\ DOMAIN Offers = Listed \cup Touched
      /\ \A r \in DOMAIN Offers : r \in Orders \ {cur}
  BY LoggedRequests DEF Matched
<1>3. /\ Exchange!Traded(m) = objs[cur].filled
      /\ \A r \in Parties : Exchange!Allotment(m, r) = Given[r]
      /\ Exchange!Chosen(m) = Touched
  BY AllotmentsGiven
<1>4. /\ m.qty = objs[cur].qty /\ m.type = objs[cur].type
      /\ m.symbol = objs[cur].symbol /\ m.price = objs[cur].price
  BY DEF Incoming, Request
<1>5. /\ objs[cur].qty \in Nat /\ objs[cur].filled \in Nat
      /\ exec.qty = objs[cur].filled /\ Valid(objs[cur])
      /\ Remaining(objs[cur]) = objs[cur].qty - objs[cur].filled
  BY LoopWalks, ExecutionIsFill DEF RInv, Matched, Remaining
<1>6. Valid(m)
  BY <1>4, <1>5 DEF Valid
<1>7. Len(replies) < MaxRequests
  BY DEF RInv, Matched
<1>8. Handled' = Append(Handled, m)
  <2>1. PICK k \in Nat : k = cur - 1 /\ k + 1 = cur
    BY <1>2, SMTT(30)
  <2>2. /\ \A n \in 1..cur : n \in Orders /\ Request(objs[n]) \in Messages
        /\ \A n \in 1..k : n \in 1..cur
    BY <1>2, <2>1 DEF RInv, Orders
  <2>3. Handled = [n \in 1..k |-> Request(objs[n])]
    BY <1>2, <2>1 DEF Handled
  <2>4. Handled' = [n \in 1..(k + 1) |-> Request(objs[n])]
    BY <1>2, <2>1 DEF Handled, Request
  <2>5. Handled \in [1..k -> Messages] /\ Handled' \in [1..(k + 1) -> Messages]
    BY <2>1, <2>2, <2>3, <2>4
  <2>6. \A n \in 1..k : Handled'[n] = Handled[n]
    BY <2>1, <2>3, <2>4
  <2>7. Handled'[k + 1] = m
    BY <2>1, <2>4 DEF Incoming
  <2> QED
    BY <2>5, <2>6, <2>7, LongerByOne
<1>9. Settled' = Settled \cup
        {[buy    |-> IF m.side = "BUY" THEN Len(Handled) + 1 ELSE r,
          sell   |-> IF m.side = "BUY" THEN r ELSE Len(Handled) + 1,
          symbol |-> m.symbol,
          price  |-> Handled[r].price,
          qty    |-> Exchange!Allotment(m, r)] : r \in Exchange!Chosen(m)}
  <2>1. Len(Handled) + 1 = cur
    BY <1>2
  <2>2. Settled' = Settled \cup {Settlement(m, cur, r) : r \in Touched}
    BY TradesSettled
  <2> QED
    BY <1>3, <2>1, <2>2 DEF Settlement
\* What each party keeps.
<1>10. /\ Touched \subseteq Parties /\ Parties \subseteq Orders \ {cur}
       /\ \A r \in Touched : r \in DOMAIN Offers
       /\ \A r \in Touched : Given[r] \in Int
       /\ \A r \in DOMAIN Offers :
             /\ Remaining(objs[r]) \in Int /\ Given[r] \in Nat
             /\ Offers[r] = Remaining(objs[r]) + Given[r]
             /\ r \notin Touched => Given[r] = 0
  <2>1. Touched \subseteq Parties /\ Parties \subseteq Orders \ {cur}
    BY PartiesAre
  <2>2. \A r \in DOMAIN Offers : Remaining(objs[r]) \in Int /\ Given[r] \in Nat
    <3>1. \A r \in DOMAIN Offers : r \in Orders
      BY <1>2
    <3>2. \A r \in Orders : Remaining(objs[r]) \in Int
      BY <1>1 DEF MapShape, Order, Remaining
    <3>3. \A r \in Orders : Given[r] \in Nat
      BY <1>1 DEF MapShape
    <3> QED
      BY <3>1, <3>2, <3>3
  <2>3. \A r \in DOMAIN Offers : Offers[r] = Remaining(objs[r]) + Given[r]
    BY DEF Offers
  <2>4. \A r \in DOMAIN Offers : r \notin Touched => Given[r] = 0
    <3>1. \A r \in DOMAIN Offers : r \in Orders
      BY <1>2
    <3> QED
      BY <2>2, <3>1 DEF Touched
  <2> QED
    BY <1>2, <2>1, <2>2, <2>3, <2>4
<1>11. \A r \in Touched : r \in exhausted <=> Remaining(objs[r]) = 0
  <2> SUFFICES ASSUME NEW r \in Touched
               PROVE  r \in exhausted <=> Remaining(objs[r]) = 0
    OBVIOUS
  <2>1. Exchange!Allotment(m, r) = Given[r]
    BY <1>3, <1>10
  <2>2. r \in exhausted <=> Given[r] = Offers[r]
    BY <1>3, <2>1
  <2> QED
    BY <1>10, <2>2
\* A touched order with something left is the head of its list.
<1>12. \A r \in Touched : Remaining(objs[r]) # 0 => r \in Listed
  <2> SUFFICES ASSUME NEW r \in Touched, Remaining(objs[r]) # 0
               PROVE  r \in Listed
    OBVIOUS
  <2>1. Makers # <<>> /\ r = Head(Makers)
    BY <1>1 DEF Greedy, OthersUsedUp
  <2>2. objs[cur].symbol \in Symbols /\ Opposite(objs[cur].side) \in Sides
    BY <1>1, <1>2, <1>5 DEF MapShape, Order, Valid, Opposite, Sides
  <2>3. Makers \in Seq(Orders)
    BY <2>2 DEF RInv, AInv, IInv, TypeOK, Makers
  <2>4. 1 \in 1..Len(Makers) /\ r = Makers[1]
    BY <2>1, <2>3
  <2>5. MayRest(r, objs[cur].symbol, Opposite(objs[cur].side)) /\ r \in Orders
    BY <1>1, <2>2, <2>4 DEF RInv, AInv, IInv, EntriesLive, Makers, MapShape
  <2> QED
    BY <1>1, <2>2, <2>5 DEF MapShape, MayRest
<1>13. \A r \in Listed : Remaining(objs[r]) # 0
  BY <1>1 DEF MapShape, MayRest
<1>14. exhausted \subseteq Touched
  BY <1>3
<1>15. DOMAIN Offers \ exhausted = Listed
  <2> HIDE DEF exhausted
  <2> QED
    BY <1>2, <1>11, <1>12, <1>13, <1>14
<1>16. rests <=> objs[cur].type = "LIMIT" /\ Remaining(objs[cur]) > 0
  BY <1>3, <1>4, <1>5
<1>17. /\ DOMAIN Offers' = stay
       /\ Offers' = [r \in DOMAIN Offers' |-> Remaining(objs[r])]
  <2> DEFINE left == objs[cur].type = "LIMIT" /\ Remaining(objs[cur]) > 0
  <2>1. /\ DOMAIN Offers' = Listed \cup (IF left THEN {cur} ELSE {})
        /\ Offers' = [r \in DOMAIN Offers' |-> Remaining(objs[r])]
    BY OffersAfter
  <2> QED
    BY <1>15, <1>16, <2>1
<1> DEFINE new(r) == IF r = cur THEN m.qty - Exchange!Traded(m)
                     ELSE IF r \in Exchange!Chosen(m)
                          THEN Offers[r] - Exchange!Allotment(m, r)
                          ELSE Offers[r]
<1>18. ASSUME NEW r \in stay
       PROVE  new(r) = Remaining(objs[r])
  <2>1. CASE r = cur
    BY <1>3, <1>4, <1>5, <2>1
  <2>2. CASE r # cur
    <3>1. r \in DOMAIN Offers
      BY <1>18, <2>2
    <3>2. r \in Touched => Exchange!Allotment(m, r) = Given[r]
      BY <1>3, <1>10
    <3>3. /\ Offers[r] = Remaining(objs[r]) + Given[r]
          /\ Remaining(objs[r]) \in Int /\ Given[r] \in Nat
          /\ r \notin Touched => Given[r] = 0
      BY <1>10, <3>1
    <3>4. new(r) = IF r \in Touched THEN Offers[r] - Exchange!Allotment(m, r) ELSE Offers[r]
      BY <1>3, <2>2
    <3> HIDE DEF new
    <3>5. CASE r \in Touched
      BY <3>2, <3>3, <3>4, <3>5
    <3>6. CASE r \notin Touched
      BY <3>3, <3>4, <3>6
    <3> QED
      BY <3>5, <3>6
  <2> QED
    BY <2>1, <2>2
<1>19. Offers' = [r \in stay |-> new(r)]
  <2> HIDE DEF new, stay
  <2> QED
    BY <1>17, <1>18
<1>20. replies' = Append(replies,
         [order |-> Len(Handled) + 1, status |-> Exchange!Outcome(m),
          price |-> Exchange!ReplyPrice(m), qty |-> Exchange!Traded(m)])
  <2>1. Len(Handled) + 1 = cur
    BY <1>2
  <2>2. Exchange!ReplyPrice(m) = exec.price
    BY PriceAnswered
  <2> QED
    BY <1>3, <1>5, <2>1, <2>2 DEF Reply
<1>21. Len(Handled) + 1 = cur
  BY <1>2
<1> QED
  BY <1>6, <1>7, <1>8, <1>9, <1>19, <1>20, <1>21, Zenon DEF Exchange!Submit

-----------------------------------------------------------------------------
(* The refinement.                                                         *)

LEMMA InitIsExchangeInit == Init => Exchange!Init
<1> SUFFICES ASSUME Init
             PROVE  Exchange!Init
  OBVIOUS
<1>1. /\ objs = <<>> /\ cur = 0 /\ tape = <<>> /\ replies = <<>>
      /\ book = [s \in Symbols |-> [d \in Sides |-> <<>>]]
  BY DEF Init
<1>2. Handled = <<>>
  BY <1>1 DEF Handled
<1>3. Orders = {}
  BY <1>1 DEF Orders
<1>4. Listed = {} /\ Touched = {}
  BY <1>1, <1>3 DEF Listed, Resting, Touched
<1>5. Offers = [r \in {} |-> 0]
  BY <1>4 DEF Offers
<1>6. Settled = {}
  BY <1>1 DEF Settled, ToSet
<1> QED
  BY <1>1, <1>2, <1>5, <1>6 DEF Exchange!Init

\* What the order handler does is a step of the exchange, or nothing of it.
LEMMA NextIsExchangeNext ==
    RInv /\ RInv' /\ [Next]_vars => [Exchange!Next]_(Exchange!vars)
<1> SUFFICES ASSUME RInv, RInv', [Next]_vars
             PROVE  [Exchange!Next]_(Exchange!vars)
  OBVIOUS
<1> USE DEF Exchange!vars
<1>1. AInv'
  BY DEF RInv
<1>2. CASE UNCHANGED vars
  BY <1>2, MappingUnchanged DEF vars
<1>3. CASE RejectUnparsed
  <2>1. /\ Len(replies) < MaxRequests
        /\ replies' = Append(replies, Reply(0, "REJECTED", 0, 0))
        /\ UNCHANGED <<objs, book, cur, tape, fills>>
    BY <1>3 DEF RejectUnparsed
  <2>2. UNCHANGED <<Handled, Offers, Settled>>
    BY <2>1, MappingUnchanged
  <2>3. Exchange!RefuseUnparsed
    BY <2>1, <2>2 DEF Exchange!RefuseUnparsed, Reply
  <2> QED
    BY <2>3 DEF Exchange!Next
<1>4. ASSUME NEW m \in Messages, RejectInvalid(m)
      PROVE  Exchange!Next
  <2>1. /\ cur = 0 /\ cur' = 0 /\ Len(replies) < MaxRequests /\ ~Valid(m)
        /\ objs' = Append(objs, NewOrder(m, "REJECTED"))
        /\ replies' = Append(replies, Reply(Len(objs) + 1, "REJECTED", 0, 0))
        /\ UNCHANGED <<book, tape, fills, exec>>
    BY <1>4 DEF RejectInvalid
  <2>2. /\ Offers' = Offers /\ Settled' = Settled
        /\ \A n \in Orders : n \in Orders' /\ Request(objs'[n]) = Request(objs[n])
        /\ Len(objs') = Len(objs) + 1 /\ Request(objs'[Len(objs) + 1]) = m
    BY <1>1, <2>1, ParsedKeepsRInv DEF Statuses
  <2>3. PICK k \in Nat : k = Len(objs)
    BY LenProperties DEF RInv, AInv, IInv, TypeOK
  <2>4. /\ Handled = [n \in 1..k |-> Request(objs[n])]
        /\ Handled' = [n \in 1..(k + 1) |-> Request(objs[n])']
    BY <2>1, <2>2, <2>3 DEF Handled
  <2>5. /\ \A n \in 1..k : Request(objs[n]) \in Messages
        /\ \A n \in 1..(k + 1) : Request(objs[n])' \in Messages
    BY <2>2, <2>3 DEF RInv, Orders
  <2>6. Handled \in [1..k -> Messages] /\ Handled' \in [1..(k + 1) -> Messages]
    BY <2>4, <2>5
  <2>7. \A n \in 1..k : Handled'[n] = Handled[n]
    <3>1. \A n \in 1..k : Request(objs[n])' = Request(objs[n])
      BY <2>2, <2>3 DEF Orders, Request
    <3> QED
      BY <2>3, <2>4, <3>1
  <2>8. Handled'[k + 1] = m
    <3>1. Request(objs[k + 1])' = m
      BY <2>2, <2>3 DEF Request
    <3> QED
      BY <2>3, <2>4, <3>1
  <2>9. Handled' = Append(Handled, m)
    BY <2>6, <2>7, <2>8, LongerByOne
  <2>10. Len(Handled) = k
    BY <2>6
  <2>11. Exchange!Refuse(m)
    BY <2>1, <2>2, <2>3, <2>9, <2>10 DEF Exchange!Refuse, Reply
  <2> QED
    BY <2>11 DEF Exchange!Next
<1>5. ASSUME NEW m \in Messages, Accept(m)
      PROVE  UNCHANGED <<Handled, Offers, Settled, replies>>
  <2>1. /\ cur = 0 /\ cur' = Len(objs) + 1 /\ Len(replies) < MaxRequests
        /\ objs' = Append(objs, NewOrder(m, "PENDING"))
        /\ UNCHANGED <<book, tape, fills, exec, replies>>
    BY <1>5 DEF Accept
  <2>2. /\ Offers' = Offers /\ Settled' = Settled
        /\ \A n \in Orders : n \in Orders' /\ Request(objs'[n]) = Request(objs[n])
        /\ Len(objs') = Len(objs) + 1
    BY <1>1, <2>1, ParsedKeepsRInv DEF Statuses
  <2>3. PICK k \in Nat : k = Len(objs)
    BY LenProperties DEF RInv, AInv, IInv, TypeOK
  <2>4. /\ Handled = [n \in 1..k |-> Request(objs[n])]
        /\ Handled' = [n \in 1..k |-> Request(objs[n])']
    BY <2>1, <2>2, <2>3 DEF Handled
  <2>5. \A n \in 1..k : Request(objs[n])' = Request(objs[n])
    BY <2>2, <2>3 DEF Orders, Request
  <2> QED
    BY <2>1, <2>2, <2>4, <2>5
<1>6. CASE MatchStep
  BY <1>1, <1>6, MatchStepKeepsRInv DEF MatchStep
<1>7. CASE RecordTrade
  BY <1>1, <1>7, RecordTradeKeepsRInv DEF RecordTrade
<1>8. CASE FinishMarket \/ FinishFilledLimit \/ RestLimit
  <2>1. /\ Matched /\ cur' = 0 /\ objs' = objs /\ tape' = tape
    BY <1>8 DEF FinishMarket, FinishFilledLimit, RestLimit, Respond, Matched
  <2>2. /\ exec.qty = objs[cur].filled /\ objs[cur].filled \in Nat
        /\ objs[cur].qty \in Nat /\ objs[cur].filled <= objs[cur].qty
        /\ objs[cur].qty > 0
    BY <2>1, LoopWalks, ExecutionIsFill DEF RInv, Matched
  <2>3. /\ Exchange!Traded(Incoming) = objs[cur].filled
        /\ Incoming.qty = objs[cur].qty /\ Incoming.type = objs[cur].type
    BY <2>1, AllotmentsGiven DEF Incoming, Request
  <2>4. Exchange!Outcome(Incoming) =
          IF exec.qty = objs[cur].qty THEN "FILLED"
          ELSE IF exec.qty > 0 THEN "PARTIALLY_FILLED"
          ELSE IF objs[cur].type = "LIMIT" THEN "PENDING" ELSE "REJECTED"
    BY <2>2, <2>3 DEF Exchange!Outcome
  <2>5. replies' = Append(replies, Reply(cur, Exchange!Outcome(Incoming),
                                         exec.price, exec.qty))
    <3>1. CASE FinishMarket
      <4>1. replies' = Append(replies, Reply(cur,
               IF exec.qty = 0 THEN "REJECTED"
               ELSE IF exec.qty < objs[cur].qty THEN "PARTIALLY_FILLED"
               ELSE "FILLED", exec.price, exec.qty))
        BY <3>1 DEF FinishMarket, Respond
      <4>2. objs[cur].type = "MARKET"
        BY <3>1 DEF FinishMarket
      <4> QED
        BY <2>2, <2>4, <4>1, <4>2
    <3>2. CASE FinishFilledLimit
      <4>1. replies' = Append(replies, Reply(cur, "FILLED", exec.price, exec.qty))
        BY <3>2 DEF FinishFilledLimit, Respond
      <4>2. objs[cur].filled >= objs[cur].qty
        BY <3>2 DEF FinishFilledLimit, FullyFilled
      <4> QED
        BY <2>2, <2>4, <4>1, <4>2
    <3>3. CASE RestLimit
      <4>1. replies' = Append(replies, Reply(cur,
               IF exec.qty > 0 THEN "PARTIALLY_FILLED" ELSE "PENDING",
               exec.price, exec.qty))
        BY <3>3 DEF RestLimit, Respond
      <4>2. objs[cur].type = "LIMIT" /\ ~(objs[cur].filled >= objs[cur].qty)
        BY <3>3 DEF RestLimit, FullyFilled
      <4> QED
        BY <2>2, <2>4, <4>1, <4>2
    <3> QED
      BY <1>8, <3>1, <3>2, <3>3
  <2>6. Exchange!Submit(Incoming)
    BY <1>1, <2>1, <2>5, RespondSubmits
  <2>7. Incoming \in Messages
    BY <2>1, LoggedRequests DEF RInv, Incoming, Matched
  <2> QED
    BY <2>6, <2>7 DEF Exchange!Next
<1> QED
  BY <1>2, <1>3, <1>4, <1>5, <1>6, <1>7, <1>8 DEF Next

\* The order handler, with its sorted lists, its loop that fills in place and
\* pops, and its one response per order, does what an exchange with price-time
\* priority promises: each response is the atomic step of PriceTimeExchange
\* for its request, and no other step is visible.
THEOREM Refinement == Spec => ImplementsExchange
<1>1. Init => Exchange!Init
  BY InitIsExchangeInit
<1>2. RInv /\ RInv' /\ [Next]_vars => [Exchange!Next]_(Exchange!vars)
  BY NextIsExchangeNext
<1> QED
  BY <1>1, <1>2, RefinementInvariant, PTL DEF Spec, ImplementsExchange, Exchange!Spec
=============================================================================

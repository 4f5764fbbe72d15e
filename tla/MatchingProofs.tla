--------------------------- MODULE MatchingProofs ---------------------------
(***************************************************************************)
(* Proofs about Matching, for every set of symbols and requests, every     *)
(* pair of size limits and every number of requests.                       *)
(***************************************************************************)
EXTENDS Matching, SumLemmas, SequenceTheorems, TLAPS

-----------------------------------------------------------------------------
(* Lemmas about numbers, sequences and the sort key.                       *)

\* InsertAt puts e at place p and moves the elements from p on by one.
LEMMA InsertAtElements ==
    ASSUME NEW S, NEW s \in Seq(S), NEW p \in 1..(Len(s) + 1), NEW e \in S
    PROVE  /\ InsertAt(s, p, e) \in Seq(S)
           /\ Len(InsertAt(s, p, e)) = Len(s) + 1
           /\ \A i \in 1..(Len(s) + 1) :
                InsertAt(s, p, e)[i] = IF i < p THEN s[i]
                                       ELSE IF i = p THEN e ELSE s[i - 1]
<1>1. InsertAt(s, p, e) = Inserted(s, p, e)
  BY DEF InsertAt, Inserted
<1> QED
  BY <1>1, InsertedElements

\* Before is a strict weak order on the orders of one side.
LEMMA BeforeIsWeakOrder ==
    ASSUME objs \in Seq(Order),
           NEW a \in 1..Len(objs), NEW b \in 1..Len(objs), NEW c \in 1..Len(objs),
           objs[a].side = objs[b].side, objs[b].side = objs[c].side
    PROVE  /\ ~(Before(a, b) /\ Before(b, a))
           /\ Before(a, b) /\ ~Before(c, b) => Before(a, c)
           /\ ~Before(b, a) /\ ~Before(c, b) => ~Before(c, a)
<1>1. objs[a] \in Order /\ objs[b] \in Order /\ objs[c] \in Order
  BY ElementOfSeq
<1>2. /\ objs[a].price \in Int /\ objs[b].price \in Int /\ objs[c].price \in Int
      /\ objs[a].ts \in Int /\ objs[b].ts \in Int /\ objs[c].ts \in Int
  BY <1>1 DEF Order
<1>3. PICK pa \in Int, pb \in Int, pc \in Int, ta \in Int, tb \in Int, tc \in Int :
        /\ pa = objs[a].price /\ pb = objs[b].price /\ pc = objs[c].price
        /\ ta = objs[a].ts /\ tb = objs[b].ts /\ tc = objs[c].ts
  BY <1>2
<1>4. CASE objs[a].side = "BUY"
  <2>1. /\ Before(a, b) <=> pa > pb \/ (pa = pb /\ ta < tb)
        /\ Before(b, a) <=> pb > pa \/ (pb = pa /\ tb < ta)
        /\ Before(a, c) <=> pa > pc \/ (pa = pc /\ ta < tc)
        /\ Before(c, a) <=> pc > pa \/ (pc = pa /\ tc < ta)
        /\ Before(c, b) <=> pc > pb \/ (pc = pb /\ tc < tb)
    BY <1>3, <1>4 DEF Before, Better
  <2> QED
    BY <2>1
<1>5. CASE objs[a].side # "BUY"
  <2>1. /\ Before(a, b) <=> pa < pb \/ (pa = pb /\ ta < tb)
        /\ Before(b, a) <=> pb < pa \/ (pb = pa /\ tb < ta)
        /\ Before(a, c) <=> pa < pc \/ (pa = pc /\ ta < tc)
        /\ Before(c, a) <=> pc < pa \/ (pc = pa /\ tc < ta)
        /\ Before(c, b) <=> pc < pb \/ (pc = pb /\ tc < tb)
    BY <1>3, <1>5 DEF Before, Better
  <2> QED
    BY <2>1
<1> QED
  BY <1>4, <1>5

-----------------------------------------------------------------------------
(* What every step leaves alone: the terms of an order, once parsed.       *)

Keeps ==
    /\ objs' \in Seq(Order)
    /\ Len(objs') >= Len(objs)
    /\ \A n \in Orders :
        /\ objs'[n].id = objs[n].id /\ objs'[n].ts = objs[n].ts
        /\ objs'[n].symbol = objs[n].symbol /\ objs'[n].side = objs[n].side
        /\ objs'[n].price = objs[n].price /\ objs'[n].qty = objs[n].qty
        /\ objs'[n].type = objs[n].type

\* Len of the list of objects, as a number.
LEMMA OrdersGrow ==
    ASSUME TypeOK, Keeps
    PROVE  /\ Len(objs) \in Nat /\ Len(objs') \in Nat
           /\ Orders \subseteq Orders'
<1>1. Len(objs) \in Nat /\ Len(objs') \in Nat
  BY LenProperties DEF TypeOK, Keeps
<1> QED
  BY <1>1 DEF Keeps, Orders

\* The sort key of an order never changes, so neither does their ranking.
LEMMA BeforeKept ==
    ASSUME TypeOK, Keeps, NEW a \in Orders, NEW b \in Orders
    PROVE  Before(a, b)' <=> Before(a, b)
BY DEF Keeps, Before, Better

\* A fair trade stays fair.
LEMMA FairTradeKept ==
    ASSUME TypeOK, Keeps, NEW t \in TradeRecord, FairTrade(t)
    PROVE  FairTrade(t)'
<1>1. Orders \subseteq Orders'
  BY OrdersGrow
<1>2. t.buy \in Orders /\ t.sell \in Orders /\ Lesser(t.buy, t.sell) \in Orders
  BY DEF FairTrade, Lesser
<1> QED
  BY <1>1, <1>2 DEF FairTrade, Keeps

\* The list of s and d lost its first k entries.
Shift(s, d, k) ==
    /\ Len(book'[s][d]) = Len(book[s][d]) - k
    /\ \A i \in 1..Len(book'[s][d]) : book'[s][d][i] = book[s][d][i + k]

\* Lists that only lose their front keep their order.
LEMMA OrderAfterShift ==
    ASSUME TypeOK, Keeps, PriceTimeOrder, NotCrossed, EntriesDistinct,
           \A s \in Symbols, d \in Sides : \E k \in {0, 1} : Shift(s, d, k)
    PROVE  PriceTimeOrder' /\ NotCrossed' /\ EntriesDistinct'
<1>1. ASSUME NEW s \in Symbols, NEW d \in Sides
      PROVE  /\ Len(book[s][d]) \in Nat
             /\ \A i \in 1..Len(book[s][d]) : book[s][d][i] \in Orders
  <2>1. book[s][d] \in Seq(Orders)
    BY DEF TypeOK
  <2> QED
    BY <2>1, LenProperties, ElementOfSeq
<1>2. PriceTimeOrder'
  <2> SUFFICES ASSUME NEW s \in Symbols, NEW d \in Sides,
                      NEW i \in 1..Len(book'[s][d]), NEW j \in 1..Len(book'[s][d]),
                      i < j
               PROVE  /\ ~Before(book[s][d][j], book[s][d][i])'
                      /\ ~Before(book[s][d][i], book[s][d][j])'
                            => book'[s][d][i] < book'[s][d][j]
    BY DEF PriceTimeOrder
  <2>1. PICK k \in {0, 1} : Shift(s, d, k)
    OBVIOUS
  <2> DEFINE a == book[s][d][i + k]
             b == book[s][d][j + k]
  <2>2. /\ i + k \in 1..Len(book[s][d]) /\ j + k \in 1..Len(book[s][d])
        /\ i + k < j + k
    BY <2>1, <1>1 DEF Shift
  <2>3. book'[s][d][i] = a /\ book'[s][d][j] = b
    BY <2>1 DEF Shift
  <2>4. ~Before(b, a) /\ (~Before(a, b) => a < b)
    BY <2>2 DEF PriceTimeOrder
  <2>5. a \in Orders /\ b \in Orders
    BY <1>1, <2>2
  <2> HIDE DEF a, b
  <2> QED
    BY <2>3, <2>4, <2>5, BeforeKept DEF Before, Better, Keeps
<1>3. ASSUME NEW s \in Symbols, NEW d \in Sides
      PROVE  Resting(s, d)' \subseteq Resting(s, d) /\ Resting(s, d) \subseteq Orders
  <2>1. PICK k \in {0, 1} : Shift(s, d, k)
    OBVIOUS
  <2> QED
    BY <2>1, <1>1 DEF Shift, Resting
<1>4. NotCrossed'
  <2> SUFFICES ASSUME NEW s \in Symbols,
                      NEW b \in Resting(s, "BUY")', NEW a \in Resting(s, "SELL")'
               PROVE  objs'[b].price < objs'[a].price
    BY DEF NotCrossed
  <2>1. b \in Resting(s, "BUY") /\ a \in Resting(s, "SELL")
    BY <1>3 DEF Sides
  <2>2. b \in Orders /\ a \in Orders
    BY <2>1, <1>3 DEF Sides
  <2> QED
    BY <2>1, <2>2 DEF NotCrossed, Keeps
<1>5. EntriesDistinct'
  <2> SUFFICES ASSUME NEW s \in Symbols, NEW d \in Sides,
                      NEW i \in 1..Len(book'[s][d]), NEW j \in 1..Len(book'[s][d]),
                      book'[s][d][i] = book'[s][d][j]
               PROVE  i = j
    BY DEF EntriesDistinct
  <2>1. PICK k \in {0, 1} : Shift(s, d, k)
    OBVIOUS
  <2>2. i + k \in 1..Len(book[s][d]) /\ j + k \in 1..Len(book[s][d])
    BY <2>1, <1>1 DEF Shift
  <2>3. book[s][d][i + k] = book[s][d][j + k]
    BY <2>1 DEF Shift
  <2>4. i + k = j + k
    BY <2>2, <2>3 DEF EntriesDistinct
  <2> QED
    BY <2>4
<1> QED
  BY <1>2, <1>4, <1>5

\* Trades that were fair stay fair when no list of trades grows.
LEMMA FairPriceKept ==
    ASSUME TypeOK, Keeps, FairPrice, UNCHANGED <<tape, fills>>
    PROVE  FairPrice'
<1>1. ASSUME NEW i \in 1..Len(tape)
      PROVE  FairTrade(tape[i])'
  <2>1. PICK t \in TradeRecord : t = tape[i]
    BY ElementOfSeq DEF TypeOK
  <2>2. FairTrade(t)
    BY <2>1 DEF FairPrice
  <2>3. FairTrade(t)'
    BY <2>2, FairTradeKept
  <2> QED
    BY <2>1, <2>3 DEF FairTrade, Orders
<1>2. ASSUME NEW i \in 1..Len(fills)
      PROVE  FairTrade(fills[i])'
  <2>1. PICK t \in TradeRecord : t = fills[i]
    BY ElementOfSeq DEF TypeOK
  <2>2. FairTrade(t)
    BY <2>1 DEF FairPrice
  <2>3. FairTrade(t)'
    BY <2>2, FairTradeKept
  <2> QED
    BY <2>1, <2>3 DEF FairTrade, Orders
<1> QED
  BY <1>1, <1>2 DEF FairPrice

\* A request that parsed: its Order object comes last, the others are as before.
LEMMA AppendOrder ==
    ASSUME TypeOK, NEW m \in Messages, NEW status \in Statuses,
           objs' = Append(objs, NewOrder(m, status))
    PROVE  /\ Keeps
           /\ Len(objs') = Len(objs) + 1
           /\ Orders' = Orders \cup {Len(objs) + 1}
           /\ objs'[Len(objs) + 1] = NewOrder(m, status)
           /\ \A n \in Orders : objs'[n] = objs[n]
<1>1. NewOrder(m, status) \in Order
  BY MessagesAssumption DEF NewOrder, Order, Message
<1>2. Len(objs) \in Nat
  BY LenProperties DEF TypeOK
<1>3. /\ objs' \in Seq(Order) /\ Len(objs') = Len(objs) + 1
      /\ objs'[Len(objs) + 1] = NewOrder(m, status)
      /\ \A n \in 1..Len(objs) : objs'[n] = objs[n]
  BY <1>1, AppendProperties DEF TypeOK
<1> QED
  BY <1>2, <1>3 DEF Keeps, Orders

-----------------------------------------------------------------------------
(* The invariant is inductive: one lemma per action.                       *)

LEMMA RejectUnparsedKeepsIInv ==
    ASSUME IInv, RejectUnparsed
    PROVE  IInv'
<1>1. TypeOK'
  <2>1. Reply(0, "REJECTED", 0, 0) \in ReplyRecord
    BY DEF Reply, ReplyRecord, Statuses
  <2>2. replies' \in Seq(ReplyRecord)
    BY <2>1, AppendProperties DEF IInv, TypeOK, RejectUnparsed
  <2> QED
    BY <2>2 DEF IInv, TypeOK, RejectUnparsed, Orders
<1>2. InHandler' /\ NoOverfill'
  BY DEF IInv, RejectUnparsed, InHandler, NoOverfill, Orders, Valid
<1>3. EntriesLive' /\ EntriesDistinct' /\ NothingLost'
  BY DEF IInv, RejectUnparsed, EntriesLive, EntriesDistinct, NothingLost,
         MayRest, Remaining, Orders, Resting
<1>4. PriceTimeOrder' /\ NotCrossed'
  BY SMTT(30) DEF IInv, RejectUnparsed, PriceTimeOrder, NotCrossed, Before, Better, Resting
<1>5. FairPrice'
  BY DEF IInv, RejectUnparsed, FairPrice, FairTrade, Orders
<1> QED
  BY <1>1, <1>2, <1>3, <1>4, <1>5 DEF IInv

\* Both ways a parsed request enters: the book and the trades do not change.
LEMMA ParsedKeepsIInv ==
    ASSUME IInv, cur = 0, NEW m \in Messages, NEW status \in Statuses,
           objs' = Append(objs, NewOrder(m, status)),
           UNCHANGED <<book, registry, tape, fills, exec>>,
           \/ status = "REJECTED" /\ cur' = 0
           \/ status = "PENDING" /\ cur' = Len(objs) + 1 /\ Valid(m),
           replies' \in Seq(ReplyRecord)
    PROVE  IInv'
<1> DEFINE k == Len(objs) + 1
<1>1. /\ Keeps
      /\ Len(objs') = k /\ k \in Nat
      /\ Orders' = Orders \cup {k}
      /\ k \notin Orders
      /\ objs'[k] = NewOrder(m, status)
      /\ \A n \in Orders : objs'[n] = objs[n]
  <2>1. Len(objs) \in Nat
    BY LenProperties DEF IInv, TypeOK
  <2> QED
    BY <2>1, AppendOrder DEF IInv, Orders
<1> HIDE DEF k
<1>2. \A s \in Symbols, d \in Sides :
        \A i \in 1..Len(book[s][d]) : book[s][d][i] \in Orders
  BY ElementOfSeq DEF IInv, TypeOK
<1>3. TypeOK'
  <2>1. \A s \in Symbols, d \in Sides : book[s][d] \in Seq(Orders')
    BY <1>1, SeqMonotonic DEF IInv, TypeOK
  <2>2. book' \in [Symbols -> [Sides -> Seq(Orders')]]
    BY <2>1 DEF IInv, TypeOK
  <2>3. cur' \in Orders' \cup {0}
    BY <1>1 DEF k
  <2> QED
    BY <1>1, <2>2, <2>3 DEF IInv, TypeOK, Keeps
<1>4. InHandler'
  BY <1>1 DEF InHandler, NewOrder, Valid, k
<1>5. NoOverfill'
  <2> SUFFICES ASSUME NEW n \in Orders'
               PROVE  /\ 0 <= objs'[n].filled
                      /\ objs'[n].filled > 0 =>
                           /\ objs'[n].filled <= objs'[n].qty
                           /\ objs'[n].status = IF objs'[n].filled = objs'[n].qty
                                                THEN "FILLED" ELSE "PARTIALLY_FILLED"
    BY Zenon DEF NoOverfill
  <2>1. CASE n \in Orders
    BY <1>1, <2>1 DEF IInv, NoOverfill
  <2>2. CASE n = k
    <3>1. objs'[n].filled = 0
      BY <1>1, <2>2 DEF NewOrder
    <3> QED
      BY <3>1
  <2> QED
    BY <1>1, <2>1, <2>2
<1>6. EntriesLive'
  <2> SUFFICES ASSUME NEW s \in Symbols, NEW d \in Sides, NEW i \in 1..Len(book[s][d])
               PROVE  MayRest(book[s][d][i], s, d)'
    BY DEF EntriesLive
  <2>1. MayRest(book[s][d][i], s, d)
    BY DEF IInv, EntriesLive
  <2>2. book[s][d][i] \in Orders
    BY <1>2
  <2> QED
    BY <2>1, <2>2, <1>1 DEF MayRest, Remaining, k
<1>7. NothingLost'
  <2> SUFFICES ASSUME NEW s \in Symbols, NEW d \in Sides, NEW n \in Orders',
                      MayRest(n, s, d)'
               PROVE  n \in Resting(s, d)'
    BY DEF NothingLost
  <2>1. n # k
    BY <1>1 DEF MayRest, NewOrder, k
  <2>2. n \in Orders
    BY <1>1, <2>1
  <2>3. n # cur
    BY <2>2 DEF Orders
  <2>4. MayRest(n, s, d)
    BY <1>1, <2>2, <2>3 DEF MayRest, Remaining
  <2> QED
    BY <2>2, <2>4 DEF IInv, NothingLost, Resting
<1>8. PriceTimeOrder' /\ NotCrossed' /\ EntriesDistinct'
  <2>1. ASSUME NEW s \in Symbols, NEW d \in Sides
        PROVE  Shift(s, d, 0)
    <3>1. book[s][d] \in Seq(Orders)
      BY DEF IInv, TypeOK
    <3> QED
      BY <3>1, LenProperties DEF Shift
  <2> QED
    BY <1>1, <2>1, OrderAfterShift DEF IInv
<1>9. FairPrice'
  BY <1>1, FairPriceKept DEF IInv
<1> QED
  BY <1>3, <1>4, <1>5, <1>6, <1>7, <1>8, <1>9 DEF IInv

LEMMA RejectInvalidKeepsIInv ==
    ASSUME IInv, NEW m \in Messages, RejectInvalid(m)
    PROVE  IInv'
<1>1. Reply(Len(objs) + 1, "REJECTED", 0, 0) \in ReplyRecord
  BY LenProperties DEF IInv, TypeOK, Reply, ReplyRecord, Statuses
<1>2. replies' \in Seq(ReplyRecord)
  BY <1>1, AppendProperties DEF IInv, TypeOK, RejectInvalid
<1> QED
  BY <1>2, ParsedKeepsIInv DEF RejectInvalid, Statuses

LEMMA AcceptKeepsIInv ==
    ASSUME IInv, NEW m \in Messages, Accept(m)
    PROVE  IInv'
<1>1. replies' \in Seq(ReplyRecord)
  BY DEF IInv, TypeOK, Accept
<1> QED
  BY <1>1, ParsedKeepsIInv DEF Accept, Statuses

\* fill changes what is filled and the status, and no term of the order.
LEMMA FillProperties ==
    ASSUME NEW o \in Order, NEW q \in Nat
    PROVE  /\ Fill(o, q) \in Order
           /\ Fill(o, q).filled = o.filled + q
           /\ Fill(o, q).status = IF o.filled + q >= o.qty
                                  THEN "FILLED" ELSE "PARTIALLY_FILLED"
           /\ Fill(o, q).id = o.id /\ Fill(o, q).ts = o.ts
           /\ Fill(o, q).symbol = o.symbol /\ Fill(o, q).side = o.side
           /\ Fill(o, q).price = o.price /\ Fill(o, q).qty = o.qty
           /\ Fill(o, q).type = o.type
<1> DEFINE status == IF o.filled + q >= o.qty THEN "FILLED" ELSE "PARTIALLY_FILLED"
<1>1. status \in Statuses /\ o.filled + q \in Int
  BY DEF Statuses, Order
<1> HIDE DEF status
<1>2. Fill(o, q) = [o EXCEPT !.filled = o.filled + q, !.status = status]
  BY DEF Fill, status
<1>3. /\ Fill(o, q) \in Order
      /\ Fill(o, q).filled = o.filled + q
      /\ Fill(o, q).status = status
  BY <1>1, <1>2 DEF Order
<1>4. /\ Fill(o, q).id = o.id /\ Fill(o, q).ts = o.ts
      /\ Fill(o, q).symbol = o.symbol /\ Fill(o, q).side = o.side
      /\ Fill(o, q).price = o.price /\ Fill(o, q).qty = o.qty
      /\ Fill(o, q).type = o.type
  BY <1>2 DEF Order
<1> QED
  BY <1>3, <1>4 DEF status

\* What MatchStep does to the objects and the lists, in terms of the order at
\* the head of the list and of the quantity traded.
LEMMA MatchStepFacts ==
    ASSUME IInv, MatchStep
    PROVE  \E best \in Orders, q \in Nat \ {0} :
        /\ cur \in Orders /\ best # cur /\ best < cur
        /\ objs[cur].symbol \in Symbols
        /\ objs[cur].side \in Sides
        /\ book[objs[cur].symbol][Opposite(objs[cur].side)] # <<>>
        /\ best = book[objs[cur].symbol][Opposite(objs[cur].side)][1]
        /\ best = Head(Makers)
        /\ MayRest(best, objs[cur].symbol, Opposite(objs[cur].side))
        /\ objs[cur].type = "LIMIT" => Crosses(objs[cur], objs[best])
        /\ q = Lesser(Remaining(objs[cur]), Remaining(objs[best]))
        /\ q <= Remaining(objs[cur]) /\ q <= Remaining(objs[best])
        /\ Len(objs') = Len(objs) /\ Keeps
        /\ \A n \in Orders \ {best, cur} : objs'[n] = objs[n]
        /\ \A n \in {best, cur} :
             /\ objs'[n].filled = objs[n].filled + q
             /\ objs'[n].status = IF objs[n].filled + q >= objs[n].qty
                                  THEN "FILLED" ELSE "PARTIALLY_FILLED"
        /\ fills' = Append(fills, Trade(cur, best, q))
        /\ book' = IF FullyFilled(objs'[best])
                   THEN [book EXCEPT ![objs[cur].symbol]
                                      [Opposite(objs[cur].side)] = Tail(@)]
                   ELSE book
<1> DEFINE s0 == objs[cur].symbol
           e0 == Opposite(objs[cur].side)
           best == Head(Makers)
           q == Lesser(Remaining(objs[cur]), Remaining(objs[best]))
<1>1. /\ cur \in Orders /\ objs[cur] \in Order
      /\ s0 \in Symbols /\ objs[cur].side \in Sides /\ e0 \in Sides
      /\ cur = Len(objs) /\ Len(objs) \in Nat
  <2>1. cur \in Orders /\ cur = Len(objs) /\ Valid(objs[cur])
    BY DEF IInv, TypeOK, InHandler, MatchStep, CanMatch
  <2>2. objs[cur] \in Order /\ Len(objs) \in Nat
    BY <2>1, ElementOfSeq, LenProperties DEF IInv, TypeOK, Orders
  <2> QED
    BY <2>1, <2>2 DEF Valid, Order, Opposite, Sides
<1>2. /\ book[s0][e0] \in Seq(Orders) /\ book[s0][e0] # <<>>
      /\ best = book[s0][e0][1] /\ 1 \in 1..Len(book[s0][e0])
      /\ best \in Orders /\ objs[best] \in Order
  <2>1. book[s0][e0] \in Seq(Orders) /\ book[s0][e0] # <<>>
    BY <1>1 DEF IInv, TypeOK, MatchStep, CanMatch, Makers
  <2>2. Len(book[s0][e0]) \in Nat \ {0}
    BY <2>1, EmptySeq
  <2>3. best = book[s0][e0][1]
    BY <2>1 DEF Makers
  <2>4. best \in Orders
    BY <2>1, <2>2, <2>3, ElementOfSeq
  <2> QED
    BY <2>1, <2>2, <2>3, <2>4, ElementOfSeq DEF IInv, TypeOK, Orders
<1>3. MayRest(best, s0, e0)
  BY <1>1, <1>2 DEF IInv, EntriesLive
<1>4. best # cur /\ best < cur
  BY <1>1, <1>2, <1>3 DEF MayRest, Orders
<1>5. /\ q \in Nat \ {0}
      /\ q <= Remaining(objs[cur]) /\ q <= Remaining(objs[best])
  <2>1. Remaining(objs[cur]) > 0 /\ Remaining(objs[best]) > 0
    BY <1>3 DEF MatchStep, CanMatch, MayRest
  <2>2. Remaining(objs[cur]) \in Int /\ Remaining(objs[best]) \in Int
    BY <1>1, <1>2 DEF Remaining, Order
  <2> QED
    BY <2>1, <2>2 DEF Lesser
<1>6. objs' = [objs EXCEPT ![best] = Fill(objs[best], q), ![cur] = Fill(@, q)]
  BY DEF MatchStep
<1>7. fills' = Append(fills, Trade(cur, best, q))
  BY DEF MatchStep
<1>8. book' = IF FullyFilled(Fill(objs[best], q))
              THEN [book EXCEPT ![s0][e0] = Tail(@)] ELSE book
  BY DEF MatchStep
<1>9. objs[cur].type = "LIMIT" => Crosses(objs[cur], objs[best])
  BY DEF MatchStep, CanMatch
<1> HIDE DEF best, q
<1>10. ASSUME NEW n \in {best, cur}
       PROVE  /\ Fill(objs[n], q) \in Order
              /\ Fill(objs[n], q).filled = objs[n].filled + q
              /\ Fill(objs[n], q).status = IF objs[n].filled + q >= objs[n].qty
                                           THEN "FILLED" ELSE "PARTIALLY_FILLED"
              /\ Fill(objs[n], q).id = objs[n].id /\ Fill(objs[n], q).ts = objs[n].ts
              /\ Fill(objs[n], q).symbol = objs[n].symbol
              /\ Fill(objs[n], q).side = objs[n].side
              /\ Fill(objs[n], q).price = objs[n].price
              /\ Fill(objs[n], q).qty = objs[n].qty
              /\ Fill(objs[n], q).type = objs[n].type
  <2> DEFINE o == objs[n]
  <2>1. o \in Order /\ q \in Nat
    BY <1>1, <1>2, <1>5
  <2> HIDE DEF o
  <2>2. /\ Fill(o, q) \in Order
        /\ Fill(o, q).filled = o.filled + q
        /\ Fill(o, q).status = IF o.filled + q >= o.qty
                               THEN "FILLED" ELSE "PARTIALLY_FILLED"
        /\ Fill(o, q).id = o.id /\ Fill(o, q).ts = o.ts
        /\ Fill(o, q).symbol = o.symbol /\ Fill(o, q).side = o.side
        /\ Fill(o, q).price = o.price /\ Fill(o, q).qty = o.qty
        /\ Fill(o, q).type = o.type
    BY <2>1, FillProperties
  <2> QED
    BY <2>2 DEF o
<1>11. /\ objs' \in Seq(Order) /\ Len(objs') = Len(objs)
       /\ \A n \in Orders : objs'[n] = IF n = cur THEN Fill(objs[cur], q)
                                       ELSE IF n = best THEN Fill(objs[best], q)
                                       ELSE objs[n]
  <2> DEFINE mid == [objs EXCEPT ![best] = Fill(objs[best], q)]
  <2>1. /\ mid \in Seq(Order) /\ Len(mid) = Len(objs)
        /\ \A n \in Orders : mid[n] = IF n = best THEN Fill(objs[best], q) ELSE objs[n]
    <3>1. objs \in Seq(Order) /\ best \in 1..Len(objs)
      BY <1>2 DEF IInv, TypeOK, Orders
    <3> QED
      BY <3>1, <1>10, ExceptSeq DEF Orders
  <2>2. objs' = [mid EXCEPT ![cur] = Fill(objs[cur], q)]
    BY <1>1, <1>4, <1>6, <2>1
  <2> HIDE DEF mid
  <2> QED
    BY <1>1, <1>10, <2>1, <2>2, ExceptSeq DEF Orders
<1>12. Keeps
  <2>1. ASSUME NEW n \in Orders
        PROVE  /\ objs'[n].id = objs[n].id /\ objs'[n].ts = objs[n].ts
               /\ objs'[n].symbol = objs[n].symbol /\ objs'[n].side = objs[n].side
               /\ objs'[n].price = objs[n].price /\ objs'[n].qty = objs[n].qty
               /\ objs'[n].type = objs[n].type
    <3>1. CASE n = cur
      BY <1>10, <1>11, <3>1
    <3>2. CASE n # cur /\ n = best
      BY <1>10, <1>11, <3>2
    <3>3. CASE n # cur /\ n # best
      BY <1>11, <3>3
    <3> QED
      BY <3>1, <3>2, <3>3
  <2> QED
    BY <1>1, <1>11, <2>1 DEF Keeps
<1>13. /\ \A n \in Orders \ {best, cur} : objs'[n] = objs[n]
       /\ \A n \in {best, cur} : objs'[n] = Fill(objs[n], q)
       /\ \A n \in {best, cur} :
             /\ objs'[n].filled = objs[n].filled + q
             /\ objs'[n].status = IF objs[n].filled + q >= objs[n].qty
                                  THEN "FILLED" ELSE "PARTIALLY_FILLED"
  <2>1. \A n \in {best, cur} : objs'[n] = Fill(objs[n], q)
    BY <1>1, <1>2, <1>4, <1>11
  <2> QED
    BY <1>10, <1>11, <2>1
<1>14. book' = IF FullyFilled(objs'[best])
               THEN [book EXCEPT ![s0][e0] = Tail(@)] ELSE book
  BY <1>8, <1>13
<1>15. best \in Orders /\ q \in Nat \ {0}
  BY <1>2, <1>5
<1>16. best = Head(Makers) /\ q = Lesser(Remaining(objs[cur]), Remaining(objs[best]))
  BY DEF best, q
<1> QED
  BY <1>1, <1>2, <1>3, <1>4, <1>5, <1>7, <1>9, <1>11, <1>12, <1>13, <1>14,
     <1>15, <1>16

LEMMA MatchStepKeepsIInv ==
    ASSUME IInv, MatchStep
    PROVE  IInv'
<1> DEFINE s0 == objs[cur].symbol
           e0 == Opposite(objs[cur].side)
<1>1. PICK best \in Orders, q \in Nat \ {0} :
        /\ cur \in Orders /\ best # cur /\ best < cur
        /\ s0 \in Symbols
        /\ objs[cur].side \in Sides
        /\ book[s0][e0] # <<>>
        /\ best = book[s0][e0][1]
        /\ MayRest(best, s0, e0)
        /\ objs[cur].type = "LIMIT" => Crosses(objs[cur], objs[best])
        /\ q <= Remaining(objs[cur]) /\ q <= Remaining(objs[best])
        /\ Len(objs') = Len(objs) /\ Keeps
        /\ \A n \in Orders \ {best, cur} : objs'[n] = objs[n]
        /\ \A n \in {best, cur} :
             /\ objs'[n].filled = objs[n].filled + q
             /\ objs'[n].status = IF objs[n].filled + q >= objs[n].qty
                                  THEN "FILLED" ELSE "PARTIALLY_FILLED"
        /\ fills' = Append(fills, Trade(cur, best, q))
        /\ book' = IF FullyFilled(objs'[best])
                   THEN [book EXCEPT ![s0][e0] = Tail(@)] ELSE book
  BY MatchStepFacts
<1>2. cur' = cur /\ UNCHANGED <<registry, tape, exec, replies>>
  BY DEF MatchStep
<1>3. \A n \in Orders : objs[n] \in Order /\ objs'[n] \in Order
  BY <1>1, ElementOfSeq DEF IInv, TypeOK, Orders, Keeps
<1>4. Orders' = Orders /\ e0 \in Sides
  BY <1>1 DEF Orders, Opposite, Sides
<1>5. \A s \in Symbols, d \in Sides :
        /\ book[s][d] \in Seq(Orders) /\ Len(book[s][d]) \in Nat
        /\ \A i \in 1..Len(book[s][d]) : book[s][d][i] \in Orders
  BY LenProperties, ElementOfSeq DEF IInv, TypeOK
<1>6. \A n \in {best, cur} :
        /\ objs'[n].filled = objs[n].filled + q
        /\ objs'[n].status = IF objs[n].filled + q >= objs[n].qty
                             THEN "FILLED" ELSE "PARTIALLY_FILLED"
        /\ objs'[n].qty = objs[n].qty
  BY <1>1 DEF Keeps
\* The list cur trades with loses its head if that is filled, no other changes.
<1>7. ASSUME NEW s \in Symbols, NEW d \in Sides
      PROVE  \/ /\ book'[s][d] = book[s][d]
                /\ s = s0 /\ d = e0 => ~FullyFilled(objs'[best])
             \/ /\ s = s0 /\ d = e0 /\ FullyFilled(objs'[best])
                /\ book'[s][d] = Tail(book[s][d])
  <2>1. CASE FullyFilled(objs'[best])
    BY <1>1, <1>4, <2>1 DEF IInv, TypeOK
  <2>2. CASE ~FullyFilled(objs'[best])
    BY <1>1, <2>2
  <2> QED
    BY <2>1, <2>2
<1>8. ASSUME NEW s \in Symbols, NEW d \in Sides
      PROVE  /\ book'[s][d] \in Seq(Orders)
             /\ \/ Shift(s, d, 0) /\ (s = s0 /\ d = e0 => ~FullyFilled(objs'[best]))
                \/ Shift(s, d, 1) /\ s = s0 /\ d = e0 /\ FullyFilled(objs'[best])
  <2>1. CASE book'[s][d] = book[s][d] /\ (s = s0 /\ d = e0 => ~FullyFilled(objs'[best]))
    BY <2>1, <1>5 DEF Shift
  <2>2. CASE /\ s = s0 /\ d = e0 /\ FullyFilled(objs'[best])
             /\ book'[s][d] = Tail(book[s][d])
    <3>1. /\ Tail(book[s][d]) \in Seq(Orders)
          /\ Len(Tail(book[s][d])) = Len(book[s][d]) - 1
          /\ \A i \in 1..Len(Tail(book[s][d])) : Tail(book[s][d])[i] = book[s][d][i + 1]
      BY <2>2, <1>1, <1>5, HeadTailProperties, ZenonT(60)
    <3> QED
      BY <2>2, <3>1 DEF Shift
  <2> QED
    BY <1>7, <2>1, <2>2
<1> HIDE DEF s0, e0
<1>9. /\ cur \in Orders /\ best \in Orders /\ q \in Int /\ q > 0
      /\ objs[cur].type = "LIMIT" => Crosses(objs[cur], objs[best])
  <2>1. q \in Nat \ {0}
    OBVIOUS
  <2>2. cur \in Orders /\ best \in Orders
    BY <1>1, Zenon
  <2>3. objs[cur].type = "LIMIT" => Crosses(objs[cur], objs[best])
    BY <1>1, Zenon
  <2> QED
    BY <2>1, <2>2, <2>3
\* The new trade is fair.
<1>10. /\ Trade(cur, best, q) \in TradeRecord
       /\ FairTrade(Trade(cur, best, q))
  <2>1. /\ cur \in Nat /\ best \in Nat /\ q \in Int
        /\ objs[cur].symbol \in Names /\ objs[best].price \in Int
        /\ objs[cur].price \in Int
    <3>1. objs[cur] \in Order /\ objs[best] \in Order
      BY <1>1, <1>3
    <3>2. objs[cur].symbol \in Names /\ objs[best].price \in Int
          /\ objs[cur].price \in Int
      BY <3>1 DEF Order
    <3>3. cur \in Orders /\ best \in Orders /\ q \in Int
      BY <1>9
    <3>4. cur \in Nat /\ best \in Nat
      BY <3>3 DEF Orders
    <3> QED
      BY <3>2, <3>3, <3>4
  <2>2. Trade(cur, best, q) \in TradeRecord
    BY <2>1 DEF Trade, TradeRecord
  <2>3. /\ objs[best].symbol = objs[cur].symbol
        /\ objs[best].side = Opposite(objs[cur].side)
    BY <1>1 DEF MayRest, s0, e0
  <2>4. Lesser(cur, best) = best /\ Lesser(best, cur) = best
    <3>1. best < cur
      BY <1>1
    <3> QED
      BY <2>1, <3>1 DEF Lesser
  <2> DEFINE t == Trade(cur, best, q)
  <2>5. /\ cur \in Orders /\ best \in Orders /\ q > 0
        /\ objs[cur].type = "LIMIT" => Crosses(objs[cur], objs[best])
    BY <1>9
  <2>6. CASE objs[cur].side = "BUY"
    <3>1. /\ t.buy = cur /\ t.sell = best /\ t.qty = q
          /\ t.symbol = objs[cur].symbol /\ t.price = objs[best].price
      BY <2>6 DEF Trade
    <3>2. objs[best].side = "SELL"
      BY <2>3, <2>6 DEF Opposite
    <3>3. objs[cur].type = "LIMIT" => objs[best].price <= objs[cur].price
      BY <2>1, <2>5, <3>2 DEF Crosses, Better
    <3>4. FairTrade(t)
      <4> HIDE DEF t
      <4> QED
        BY <2>1, <2>3, <2>4, <2>5, <2>6, <3>1, <3>2, <3>3 DEF FairTrade
    <3> QED
      BY <2>2, <3>4
  <2>7. CASE objs[cur].side = "SELL"
    <3>1. /\ t.buy = best /\ t.sell = cur /\ t.qty = q
          /\ t.symbol = objs[cur].symbol /\ t.price = objs[best].price
      BY <2>7 DEF Trade
    <3>2. objs[best].side = "BUY"
      BY <2>3, <2>7 DEF Opposite
    <3>3. objs[cur].type = "LIMIT" => objs[best].price >= objs[cur].price
      BY <2>1, <2>5, <3>2 DEF Crosses, Better
    <3>4. FairTrade(t)
      <4> HIDE DEF t
      <4> QED
        BY <2>1, <2>3, <2>4, <2>5, <2>7, <3>1, <3>2, <3>3 DEF FairTrade
    <3> QED
      BY <2>2, <3>4
  <2> QED
    BY <1>1, <2>2, <2>6, <2>7 DEF Sides
<1>11. TypeOK'
  <2>1. Trade(cur, best, q) \in TradeRecord
    BY <1>10
  <2>2. fills' \in Seq(TradeRecord)
    BY <1>1, <2>1, AppendProperties DEF IInv, TypeOK
  <2>3. book' \in [Symbols -> [Sides -> Seq(Orders)]]
    <3>1. CASE FullyFilled(objs'[best])
      <4>1. Tail(book[s0][e0]) \in Seq(Orders)
        BY <1>1, <1>4, <1>5, HeadTailProperties
      <4> QED
        BY <1>1, <1>4, <3>1, <4>1 DEF IInv, TypeOK
    <3>2. CASE ~FullyFilled(objs'[best])
      BY <1>1, <3>2 DEF IInv, TypeOK
    <3> QED
      BY <3>1, <3>2
  <2> QED
    BY <1>1, <1>2, <1>4, <2>2, <2>3 DEF IInv, TypeOK, Keeps
<1>12. InHandler'
  BY <1>1, <1>2, <1>6 DEF IInv, InHandler, Keeps, Valid
<1>13. NoOverfill'
  <2> SUFFICES ASSUME NEW n \in Orders
               PROVE  /\ 0 <= objs'[n].filled
                      /\ objs'[n].filled > 0 =>
                           /\ objs'[n].filled <= objs'[n].qty
                           /\ objs'[n].status = IF objs'[n].filled = objs'[n].qty
                                                THEN "FILLED" ELSE "PARTIALLY_FILLED"
    BY <1>4, Zenon DEF NoOverfill
  <2>1. CASE n \in {best, cur}
    <3>1. q <= objs[n].qty - objs[n].filled
      BY <1>1, <2>1 DEF Remaining
    <3>2. objs[n].qty \in Int /\ objs[n].filled \in Int /\ objs[n].filled >= 0
      BY <1>3 DEF Order, IInv, NoOverfill
    <3> QED
      BY <1>6, <2>1, <3>1, <3>2
  <2>2. CASE n \notin {best, cur}
    BY <1>1, <2>2 DEF IInv, NoOverfill
  <2> QED
    BY <2>1, <2>2
<1>14. PriceTimeOrder' /\ NotCrossed' /\ EntriesDistinct'
  BY <1>1, <1>8, OrderAfterShift DEF IInv
\* best stays in its list only with something left.
<1>15. ASSUME NEW n \in Orders, NEW s \in Symbols, NEW d \in Sides
       PROVE  MayRest(n, s, d)' <=> /\ MayRest(n, s, d)
                                    /\ n = best => ~FullyFilled(objs'[best])
  <2>1. CASE n = best
    <3>1. objs'[best].qty \in Int /\ objs'[best].filled \in Int
      BY <1>3 DEF Order
    <3>2. FullyFilled(objs'[best]) <=> ~(Remaining(objs'[best]) > 0)
      BY <3>1 DEF FullyFilled, Remaining
    <3>3. objs'[best].status # "REJECTED" /\ Remaining(objs[best]) > 0
      BY <1>1, <1>6 DEF MayRest
    <3>4. objs[best].status # "REJECTED"
      BY <1>1 DEF MayRest
    <3>5. MayRest(n, s, d)' <=> /\ objs[n].symbol = s /\ objs[n].side = d
                                /\ objs[n].type = "LIMIT"
                                /\ Remaining(objs'[n]) > 0
      BY <1>1, <1>2, <2>1, <3>3 DEF MayRest, Keeps, Remaining
    <3>6. MayRest(n, s, d) <=> /\ objs[n].symbol = s /\ objs[n].side = d
                               /\ objs[n].type = "LIMIT"
      BY <1>1, <2>1, <3>3, <3>4 DEF MayRest
    <3> QED
      BY <2>1, <3>2, <3>5, <3>6
  <2>2. CASE n = cur
    BY <1>1, <1>2, <2>2 DEF MayRest
  <2>3. CASE n # best /\ n # cur
    BY <1>1, <1>2, <2>3 DEF MayRest, Remaining
  <2> QED
    BY <2>1, <2>2, <2>3
<1>16. EntriesLive'
  <2> SUFFICES ASSUME NEW s \in Symbols, NEW d \in Sides,
                      NEW n \in Orders, NEW i \in 1..Len(book'[s][d]),
                      n = book'[s][d][i]
               PROVE  MayRest(n, s, d)'
    <3>1. \A s \in Symbols, d \in Sides :
            \A i \in 1..Len(book'[s][d]) : book'[s][d][i] \in Orders
      BY <1>8, ElementOfSeq
    <3> QED
      BY <3>1 DEF EntriesLive, MayRest
  <2>1. PICK k \in {0, 1} : Shift(s, d, k) /\ (k = 0 => (s = s0 /\ d = e0 =>
                                                        ~FullyFilled(objs'[best])))
                            /\ (k = 1 => s = s0 /\ d = e0)
    BY <1>8
  <2>2. i + k \in 1..Len(book[s][d]) /\ book[s][d][i + k] = n
    BY <1>5, <2>1 DEF Shift
  <2>3. MayRest(n, s, d)
    BY <2>2 DEF IInv, EntriesLive
  <2>4. ASSUME n = best, FullyFilled(objs'[best])
        PROVE  FALSE
    <3>1. s = s0 /\ d = e0
      BY <1>1, <2>3, <2>4 DEF MayRest
    <3>2. k = 1
      BY <2>1, <2>4, <3>1
    <3>3. i + k = 1
      <4>1. 1 \in 1..Len(book[s0][e0]) /\ book[s0][e0][1] = n
        BY <1>1, <1>4, <1>5, <2>4, EmptySeq
      <4> QED
        BY <1>4, <2>2, <3>1, <4>1 DEF IInv, EntriesDistinct
    <3> QED
      BY <3>2, <3>3, <2>1 DEF Shift
  <2> QED
    BY <1>15, <2>3, <2>4
<1>17. NothingLost'
  <2> SUFFICES ASSUME NEW s \in Symbols, NEW d \in Sides, NEW n \in Orders,
                      MayRest(n, s, d)'
               PROVE  \E i \in 1..Len(book'[s][d]) : book'[s][d][i] = n
    BY <1>4 DEF NothingLost, Resting
  <2>1. MayRest(n, s, d) /\ (n = best => ~FullyFilled(objs'[best]))
    BY <1>15
  <2>2. PICK i \in 1..Len(book[s][d]) : book[s][d][i] = n
    BY <2>1 DEF IInv, NothingLost, Resting
  <2>3. CASE Shift(s, d, 0)
    BY <1>5, <2>2, <2>3 DEF Shift
  <2>4. CASE Shift(s, d, 1) /\ s = s0 /\ d = e0 /\ FullyFilled(objs'[best])
    <3>1. i # 1
      BY <1>1, <2>1, <2>2, <2>4
    <3>2. i - 1 \in 1..Len(book'[s][d]) /\ book'[s][d][i - 1] = n
      BY <1>5, <2>2, <2>4, <3>1, SMTT(30) DEF Shift
    <3> QED
      BY <3>2
  <2> QED
    BY <1>8, <2>3, <2>4
<1>18. FairPrice'
  <2>1. ASSUME NEW i \in 1..Len(tape')
        PROVE  FairTrade(tape[i])'
    <3>1. PICK t \in TradeRecord : t = tape[i]
      BY <1>2, ElementOfSeq DEF IInv, TypeOK
    <3>2. FairTrade(t)
      BY <1>2, <3>1 DEF IInv, FairPrice
    <3>3. FairTrade(t)'
      BY <1>1, <3>2, FairTradeKept DEF IInv
    <3> QED
      BY <1>2, <3>1, <3>3 DEF FairTrade, Orders
  <2>2. ASSUME NEW i \in 1..Len(fills')
        PROVE  FairTrade(fills[i])'
    <3>1. fills \in Seq(TradeRecord) /\ Len(fills) \in Nat
      BY LenProperties DEF IInv, TypeOK
    <3>2. PICK t \in TradeRecord : t = fills'[i] /\ FairTrade(t)
      <4>1. CASE i \in 1..Len(fills)
        BY <1>1, <1>10, <3>1, <4>1, AppendProperties, ElementOfSeq DEF IInv, FairPrice
      <4>2. CASE i = Len(fills) + 1
        BY <1>1, <1>10, <3>1, <4>2, AppendProperties
      <4> QED
        BY <1>1, <1>10, <3>1, <4>1, <4>2, AppendProperties
    <3>3. FairTrade(t)'
      BY <1>1, <3>2, FairTradeKept DEF IInv
    <3> QED
      BY <3>2, <3>3 DEF FairTrade, Orders
  <2> QED
    BY <2>1, <2>2 DEF FairPrice
<1> QED
  BY <1>11, <1>12, <1>13, <1>14, <1>16, <1>17, <1>18 DEF IInv

LEMMA RecordTradeKeepsIInv ==
    ASSUME IInv, RecordTrade
    PROVE  IInv'
<1>1. /\ fills \in Seq(TradeRecord) /\ fills # <<>> /\ tape \in Seq(TradeRecord)
      /\ Len(fills) \in Nat \ {0} /\ Len(tape) \in Nat
      /\ Head(fills) = fills[1] /\ Head(fills) \in TradeRecord
      /\ fills' = Tail(fills) /\ tape' = Append(tape, Head(fills))
      /\ UNCHANGED <<objs, book, registry, cur, replies>>
  BY EmptySeq, LenProperties, HeadTailProperties DEF IInv, TypeOK, RecordTrade
<1>2. TypeOK'
  <2>1. fills' \in Seq(TradeRecord)
    BY <1>1, HeadTailProperties
  <2>2. tape' \in Seq(TradeRecord)
    BY <1>1, AppendProperties
  <2>3. exec' \in [qty : Int, price : Int]
    <3>1. Head(fills).qty \in Int /\ Head(fills).price \in Int
      BY <1>1 DEF TradeRecord
    <3>2. exec.qty \in Int
      BY DEF IInv, TypeOK
    <3> QED
      BY <3>1, <3>2 DEF RecordTrade
  <2> QED
    BY <1>1, <2>1, <2>2, <2>3 DEF IInv, TypeOK, Orders
<1>3. InHandler' /\ NoOverfill'
  BY <1>1 DEF IInv, InHandler, NoOverfill, Orders, Valid
<1>4. EntriesLive' /\ EntriesDistinct' /\ NothingLost'
  <2>1. objs' = objs /\ book' = book /\ cur' = cur
    BY <1>1
  <2>2. EntriesLive'
    BY <2>1 DEF IInv, EntriesLive, MayRest, Remaining
  <2>3. EntriesDistinct'
    BY <2>1 DEF IInv, EntriesDistinct
  <2>4. NothingLost'
    BY <2>1 DEF IInv, NothingLost, MayRest, Remaining, Orders, Resting
  <2> QED
    BY <2>2, <2>3, <2>4
<1>5. PriceTimeOrder' /\ NotCrossed'
  <2>1. objs' = objs /\ book' = book
    BY <1>1
  <2> QED
    BY <2>1, SMTT(30) DEF IInv, PriceTimeOrder, NotCrossed, Before, Better, Resting
<1>6. FairPrice'
  <2>1. ASSUME NEW i \in 1..Len(tape')
        PROVE  FairTrade(tape'[i])
    <3>1. tape'[i] = Head(fills) \/ (i \in 1..Len(tape) /\ tape'[i] = tape[i])
      BY <1>1, AppendProperties
    <3>2. 1 \in 1..Len(fills)
      BY <1>1
    <3> QED
      BY <1>1, <3>1, <3>2 DEF IInv, FairPrice
  <2>2. ASSUME NEW i \in 1..Len(fills')
        PROVE  FairTrade(fills'[i])
    <3>1. i + 1 \in 1..Len(fills) /\ fills'[i] = fills[i + 1]
      BY <1>1, HeadTailProperties
    <3> QED
      BY <3>1 DEF IInv, FairPrice
  <2>3. \A t : FairTrade(t)' <=> FairTrade(t)
    BY <1>1 DEF FairTrade, Orders
  <2> QED
    BY <2>1, <2>2, <2>3 DEF FairPrice
<1> QED
  BY <1>2, <1>3, <1>4, <1>5, <1>6 DEF IInv

\* Leaving the handler without resting: a MARKET order, or one that is filled.
LEMMA RespondKeepsIInv ==
    ASSUME IInv, NEW status \in Statuses, Respond(status),
           UNCHANGED <<book, registry>>,
           objs[cur].type = "MARKET" \/ FullyFilled(objs[cur])
    PROVE  IInv'
<1>1. /\ cur \in Orders /\ cur' = 0 /\ fills' = <<>> /\ exec' = NoExecution
      /\ UNCHANGED <<objs, tape, book, registry, fills>>
      /\ replies' = Append(replies, Reply(cur, status, exec.price, exec.qty))
  BY DEF IInv, TypeOK, Respond
<1>2. TypeOK'
  <2>1. Reply(cur, status, exec.price, exec.qty) \in ReplyRecord
    BY <1>1 DEF IInv, TypeOK, Reply, ReplyRecord, Orders
  <2>2. replies' \in Seq(ReplyRecord)
    BY <1>1, <2>1, AppendProperties DEF IInv, TypeOK
  <2>3. exec' \in [qty : Int, price : Int]
    BY <1>1 DEF NoExecution
  <2> QED
    BY <1>1, <2>2, <2>3 DEF IInv, TypeOK, Orders
<1>3. InHandler' /\ NoOverfill'
  BY <1>1 DEF IInv, InHandler, NoOverfill, Orders
<1>4. EntriesLive' /\ EntriesDistinct'
  <2>1. ASSUME NEW s \in Symbols, NEW d \in Sides, NEW i \in 1..Len(book[s][d])
        PROVE  book[s][d][i] \in Orders
    BY ElementOfSeq DEF IInv, TypeOK
  <2>2. \A n \in Orders : n # 0
    BY DEF Orders
  <2> QED
    BY <1>1, <2>1, <2>2 DEF IInv, EntriesLive, EntriesDistinct, MayRest, Remaining
<1>5. NothingLost'
  <2> SUFFICES ASSUME NEW s \in Symbols, NEW d \in Sides, NEW n \in Orders,
                      MayRest(n, s, d)'
               PROVE  n \in Resting(s, d)
    BY <1>1 DEF NothingLost, Orders, Resting
  <2>1. objs[cur].qty \in Int /\ objs[cur].filled \in Int
    <3>1. objs[cur] \in Order
      BY <1>1, ElementOfSeq DEF IInv, TypeOK, Orders
    <3> QED
      BY <3>1 DEF Order
  <2>2. n # cur
    BY <1>1, <2>1 DEF MayRest, Remaining, FullyFilled
  <2>3. MayRest(n, s, d)
    BY <1>1, <2>2 DEF MayRest, Remaining
  <2> QED
    BY <2>3 DEF IInv, NothingLost
<1>6. PriceTimeOrder' /\ NotCrossed'
  BY <1>1, SMTT(30) DEF IInv, PriceTimeOrder, NotCrossed, Before, Better, Resting
<1>7. FairPrice'
  BY <1>1 DEF IInv, FairPrice, FairTrade, Orders
<1> QED
  BY <1>2, <1>3, <1>4, <1>5, <1>6, <1>7 DEF IInv

\* In a sorted list there is a place behind everything n does not sort before.
LEMMA InsertPositionExists ==
    ASSUME objs \in Seq(Order), NEW list \in Seq(Orders), NEW n \in Orders,
           \A i \in 1..Len(list) : objs[list[i]].side = objs[n].side,
           \A i, j \in 1..Len(list) : i < j => ~Before(list[j], list[i])
    PROVE  /\ InsertPosition(list, n) \in 1..(Len(list) + 1)
           /\ \A i \in 1..(InsertPosition(list, n) - 1) : ~Before(n, list[i])
           /\ \A i \in InsertPosition(list, n)..Len(list) : Before(n, list[i])
<1> DEFINE T == {i \in 1..(Len(list) + 1) : i = Len(list) + 1 \/ Before(n, list[i])}
<1>1. Len(list) \in Nat /\ \A i \in 1..Len(list) : list[i] \in Orders
  BY LenProperties, ElementOfSeq
<1>2. PICK p \in T : \A i \in T : p <= i
  <2>1. T \subseteq Nat /\ Len(list) + 1 \in T
    BY <1>1
  <2> HIDE DEF T
  <2> QED
    BY <2>1, LeastElement
<1>3. p \in 1..(Len(list) + 1) /\ p \in Nat
  BY <1>1, <1>2
<1>4. ASSUME NEW i \in 1..(p - 1)
      PROVE  ~Before(n, list[i])
  <2>1. i \in 1..(Len(list) + 1) /\ ~(p <= i)
    BY <1>1, <1>3
  <2> QED
    BY <1>2, <2>1
<1>5. ASSUME NEW i \in p..Len(list)
      PROVE  Before(n, list[i])
  <2>1. p \in 1..Len(list) /\ i \in 1..Len(list) /\ p # Len(list) + 1
    BY <1>1, <1>3
  <2>2. Before(n, list[p])
    BY <1>2, <2>1
  <2>3. CASE i = p
    BY <2>2, <2>3
  <2>4. CASE p < i
    <3>1. ~Before(list[i], list[p])
      BY <2>1, <2>4
    <3>2. /\ n \in 1..Len(objs) /\ list[p] \in 1..Len(objs) /\ list[i] \in 1..Len(objs)
          /\ objs[n].side = objs[list[p]].side
          /\ objs[list[p]].side = objs[list[i]].side
      BY <1>1, <2>1 DEF Orders
    <3> QED
      BY <2>2, <3>1, <3>2, BeforeIsWeakOrder
  <2> QED
    BY <2>1, <2>3, <2>4
<1> QED
  BY <1>3, <1>4, <1>5 DEF InsertPosition

\* RestLimit puts cur into its own list, behind what it does not sort before.
LEMMA RestLimitFacts ==
    ASSUME IInv, RestLimit
    PROVE  LET s0 == objs[cur].symbol
               d0 == objs[cur].side
               list == book[s0][d0]
           IN  /\ cur \in Orders /\ cur = Len(objs)
               /\ s0 \in Symbols /\ d0 \in Sides
               /\ list \in Seq(Orders) /\ Len(list) \in Nat
               /\ Insert(list, cur) \in Seq(Orders)
               /\ Len(Insert(list, cur)) = Len(list) + 1
               /\ \E p \in 1..(Len(list) + 1) :
                    /\ \A i \in 1..(p - 1) : ~Before(cur, list[i])
                    /\ \A i \in p..Len(list) : Before(cur, list[i])
                    /\ \A i \in 1..(Len(list) + 1) :
                         Insert(list, cur)[i] = IF i < p THEN list[i]
                                                ELSE IF i = p THEN cur
                                                ELSE list[i - 1]
<1> DEFINE s0 == objs[cur].symbol
           d0 == objs[cur].side
           list == book[s0][d0]
           p == InsertPosition(list, cur)
<1>1. cur \in Orders /\ cur = Len(objs) /\ Valid(objs[cur])
  BY DEF IInv, TypeOK, InHandler, RestLimit
<1>2. objs[cur] \in Order /\ objs \in Seq(Order)
  BY <1>1, ElementOfSeq DEF IInv, TypeOK, Orders
<1>3. s0 \in Symbols /\ d0 \in Sides
  BY <1>1, <1>2 DEF Valid, Order
<1>4. list \in Seq(Orders) /\ Len(list) \in Nat
  BY <1>3, LenProperties DEF IInv, TypeOK
<1>5. /\ \A i \in 1..Len(list) : objs[list[i]].side = d0
      /\ \A i, j \in 1..Len(list) : i < j => ~Before(list[j], list[i])
  BY <1>3 DEF IInv, EntriesLive, MayRest, PriceTimeOrder
<1> HIDE DEF list
<1>6. /\ p \in 1..(Len(list) + 1)
      /\ \A i \in 1..(p - 1) : ~Before(cur, list[i])
      /\ \A i \in p..Len(list) : Before(cur, list[i])
  BY <1>1, <1>2, <1>4, <1>5, InsertPositionExists
<1> HIDE DEF p
<1>7. /\ InsertAt(list, p, cur) \in Seq(Orders)
      /\ Len(InsertAt(list, p, cur)) = Len(list) + 1
      /\ \A i \in 1..(Len(list) + 1) :
           InsertAt(list, p, cur)[i] = IF i < p THEN list[i]
                                       ELSE IF i = p THEN cur ELSE list[i - 1]
  BY <1>1, <1>4, <1>6, InsertAtElements
<1>8. Insert(list, cur) = InsertAt(list, p, cur)
  BY DEF Insert, p
<1>9. \E x \in 1..(Len(list) + 1) :
        /\ \A i \in 1..(x - 1) : ~Before(cur, list[i])
        /\ \A i \in x..Len(list) : Before(cur, list[i])
        /\ \A i \in 1..(Len(list) + 1) :
             Insert(list, cur)[i] = IF i < x THEN list[i]
                                    ELSE IF i = x THEN cur ELSE list[i - 1]
  BY <1>6, <1>7, <1>8, Zenon
<1>10. /\ Insert(list, cur) \in Seq(Orders)
       /\ Len(Insert(list, cur)) = Len(list) + 1
  BY <1>7, <1>8
<1> QED
  BY <1>1, <1>3, <1>4, <1>9, <1>10, Zenon DEF list

LEMMA RestLimitKeepsIInv ==
    ASSUME IInv, RestLimit
    PROVE  IInv'
<1> DEFINE s0 == objs[cur].symbol
           d0 == objs[cur].side
           list == book[s0][d0]
           new == Insert(list, cur)
<1>1. /\ cur \in Orders /\ cur = Len(objs)
      /\ s0 \in Symbols /\ d0 \in Sides
      /\ list \in Seq(Orders) /\ Len(list) \in Nat
      /\ new \in Seq(Orders) /\ Len(new) = Len(list) + 1
  BY RestLimitFacts, SMTT(30)
<1>2. PICK p \in 1..(Len(list) + 1) :
        /\ \A i \in 1..(p - 1) : ~Before(cur, list[i])
        /\ \A i \in p..Len(list) : Before(cur, list[i])
        /\ \A i \in 1..(Len(list) + 1) :
             new[i] = IF i < p THEN list[i] ELSE IF i = p THEN cur ELSE list[i - 1]
  BY RestLimitFacts
<1>3. /\ cur' = 0 /\ fills' = <<>> /\ fills = <<>> /\ UNCHANGED <<objs, tape>>
      /\ book' = [book EXCEPT ![s0][d0] = new]
      /\ exec' = NoExecution
      /\ objs[cur].type = "LIMIT" /\ ~FullyFilled(objs[cur]) /\ ~CanMatch /\ cur # 0
  BY DEF RestLimit, Respond
<1>4. \A s \in Symbols, d \in Sides :
        book'[s][d] = IF s = s0 /\ d = d0 THEN new ELSE book[s][d]
  BY <1>1, <1>3 DEF IInv, TypeOK
<1>5. \A s \in Symbols, d \in Sides :
        /\ book[s][d] \in Seq(Orders) /\ Len(book[s][d]) \in Nat
        /\ \A i \in 1..Len(book[s][d]) : book[s][d][i] \in Orders
  BY LenProperties, ElementOfSeq DEF IInv, TypeOK
<1>6. /\ objs \in Seq(Order) /\ Len(objs) \in Nat
      /\ \A n \in Orders : objs[n] \in Order
      /\ cur > 0 /\ \A n \in Orders : n \in Nat /\ n # 0 /\ n <= cur
  BY <1>1, ElementOfSeq, LenProperties DEF IInv, TypeOK, Orders
<1>7. /\ \A i \in 1..Len(list) :
           /\ MayRest(list[i], s0, d0) /\ list[i] \in Orders
           /\ list[i] # cur /\ list[i] < cur
      /\ Remaining(objs[cur]) > 0
      /\ objs[cur].status # "REJECTED"
  <2>1. \A i \in 1..Len(list) : MayRest(list[i], s0, d0) /\ list[i] \in Orders
    BY <1>1, <1>5 DEF IInv, EntriesLive
  <2>2. objs[cur].qty \in Int /\ objs[cur].filled \in Int
    BY <1>1, <1>6 DEF Order
  <2>3. Remaining(objs[cur]) > 0 /\ objs[cur].status # "REJECTED"
    BY <1>3, <2>2 DEF IInv, InHandler, FullyFilled, Remaining
  <2>4. ASSUME NEW i \in 1..Len(list)
        PROVE  list[i] # cur /\ list[i] < cur
    <3>1. list[i] # cur
      BY <2>1 DEF MayRest
    <3>2. list[i] \in Nat /\ list[i] <= cur /\ cur \in Nat
      BY <1>1, <1>6, <2>1
    <3> QED
      BY <3>1, <3>2
  <2> QED
    BY <2>1, <2>3, <2>4
<1>8. TypeOK'
  <2>1. book' \in [Symbols -> [Sides -> Seq(Orders)]]
    BY <1>1, <1>3 DEF IInv, TypeOK
  <2>2. registry' \in [OrderIds -> Orders \cup {0}]
    BY <1>1 DEF IInv, TypeOK, RestLimit
  <2>3. \E status \in Statuses :
          replies' = Append(replies, Reply(cur, status, exec.price, exec.qty))
    BY DEF RestLimit, Respond, Statuses
  <2>4. replies' \in Seq(ReplyRecord)
    <3>1. PICK status \in Statuses :
            replies' = Append(replies, Reply(cur, status, exec.price, exec.qty))
      BY <2>3
    <3>2. Reply(cur, status, exec.price, exec.qty) \in ReplyRecord
      BY <1>1, <1>6 DEF IInv, TypeOK, Reply, ReplyRecord
    <3> QED
      BY <3>1, <3>2, AppendProperties DEF IInv, TypeOK
  <2> QED
    BY <1>3, <2>1, <2>2, <2>4 DEF IInv, TypeOK, Orders, NoExecution
<1>9. InHandler' /\ NoOverfill' /\ FairPrice'
  <2>1. InHandler'
    BY <1>3 DEF InHandler
  <2>2. NoOverfill'
    BY <1>3 DEF IInv, NoOverfill, Orders
  <2>3. FairPrice'
    BY <1>3 DEF IInv, FairPrice, FairTrade, Orders
  <2> QED
    BY <2>1, <2>2, <2>3
<1>10. \A a, b \in Orders : Before(a, b)' <=> Before(a, b)
  BY <1>3 DEF Before, Better
<1> HIDE DEF s0, d0, list, new
\* Entry by entry, the new list holds cur or an entry of the old one.
<1>11. \A i \in 1..Len(new) :
         /\ i < p => i \in 1..Len(list) /\ new[i] = list[i]
         /\ i = p => new[i] = cur
         /\ i > p => i - 1 \in 1..Len(list) /\ new[i] = list[i - 1]
  BY <1>1, <1>2
<1>12. EntriesLive'
  <2> SUFFICES ASSUME NEW s \in Symbols, NEW d \in Sides, NEW i \in 1..Len(book'[s][d])
               PROVE  MayRest(book[s][d][i], s, d)'
    BY SMTT(30) DEF EntriesLive
  <2>1. CASE s = s0 /\ d = d0
    <3>1. i \in 1..Len(new) /\ book'[s][d][i] = new[i]
      BY <1>4, <2>1
    <3>2. i < p \/ i = p \/ i > p
      BY <1>1, <3>1
    <3>3. \/ new[i] = cur
          \/ MayRest(new[i], s0, d0) /\ new[i] \in Orders
      BY <1>7, <1>11, <3>1, <3>2
    <3> QED
      BY <1>1, <1>3, <1>6, <1>7, <2>1, <3>1, <3>3 DEF MayRest, Remaining, s0, d0
  <2>2. CASE ~(s = s0 /\ d = d0)
    <3>1. i \in 1..Len(book[s][d]) /\ book'[s][d][i] = book[s][d][i]
      BY <1>4, <2>2
    <3>2. MayRest(book[s][d][i], s, d) /\ book[s][d][i] \in Orders
      BY <1>5, <3>1 DEF IInv, EntriesLive
    <3> QED
      BY <1>3, <1>6, <3>1, <3>2 DEF MayRest, Remaining
  <2> QED
    BY <2>1, <2>2
<1>13. EntriesDistinct'
  <2> SUFFICES ASSUME NEW s \in Symbols, NEW d \in Sides,
                      NEW i \in 1..Len(book'[s][d]), NEW j \in 1..Len(book'[s][d]),
                      book'[s][d][i] = book'[s][d][j]
               PROVE  i = j
    BY DEF EntriesDistinct
  <2>1. CASE s = s0 /\ d = d0
    <3>1. \A k, l \in 1..Len(list) : list[k] = list[l] => k = l
      BY <1>1 DEF IInv, EntriesDistinct, list
    <3>2. i \in 1..Len(new) /\ j \in 1..Len(new) /\ new[i] = new[j]
      BY <1>4, <2>1
    <3>3. CASE i = p
      <4>1. new[j] = cur
        BY <1>11, <3>2, <3>3
      <4>2. ASSUME j # p
            PROVE  \E k \in 1..Len(list) : new[j] = list[k]
        BY <1>1, <1>11, <3>2, <4>2
      <4> QED
        BY <1>7, <3>3, <4>1, <4>2
    <3>4. CASE j = p
      <4>1. new[i] = cur
        BY <1>11, <3>2, <3>4
      <4>2. ASSUME i # p
            PROVE  \E k \in 1..Len(list) : new[i] = list[k]
        BY <1>1, <1>11, <3>2, <4>2
      <4> QED
        BY <1>7, <3>4, <4>1, <4>2
    <3>5. CASE i # p /\ j # p
      <4> DEFINE k == IF i < p THEN i ELSE i - 1
                 l == IF j < p THEN j ELSE j - 1
      <4>1. k \in 1..Len(list) /\ new[i] = list[k]
        BY <1>1, <1>11, <3>2, <3>5
      <4>2. l \in 1..Len(list) /\ new[j] = list[l]
        BY <1>1, <1>11, <3>2, <3>5
      <4>3. k = l
        <5> HIDE DEF k, l
        <5> QED
          BY <3>1, <3>2, <4>1, <4>2
      <4> QED
        BY <1>1, <3>2, <3>5, <4>3
    <3> QED
      BY <3>3, <3>4, <3>5
  <2>2. CASE ~(s = s0 /\ d = d0)
    BY <1>4, <2>2 DEF IInv, EntriesDistinct
  <2> QED
    BY <2>1, <2>2
<1>14. NothingLost'
  <2> SUFFICES ASSUME NEW s \in Symbols, NEW d \in Sides, NEW n \in Orders,
                      MayRest(n, s, d)'
               PROVE  \E i \in 1..Len(book'[s][d]) : book'[s][d][i] = n
    BY <1>3 DEF NothingLost, Resting, Orders
  <2>1. CASE n = cur
    <3>1. s = s0 /\ d = d0
      BY <1>3, <2>1 DEF MayRest, s0, d0
    <3>2. p \in 1..Len(new) /\ new[p] = cur
      BY <1>1, <1>11
    <3> QED
      BY <1>4, <2>1, <3>1, <3>2
  <2>2. CASE n # cur
    <3>1. MayRest(n, s, d)
      BY <1>3, <2>2 DEF MayRest, Remaining
    <3>2. PICK k \in 1..Len(book[s][d]) : book[s][d][k] = n
      BY <3>1 DEF IInv, NothingLost, Resting
    <3>3. CASE s = s0 /\ d = d0
      <4>1. k \in 1..Len(list) /\ list[k] = n
        BY <3>2, <3>3 DEF list
      <4>2. CASE k < p
        <5>1. k \in 1..Len(new) /\ new[k] = n
          BY <1>1, <1>11, <4>1, <4>2
        <5> QED
          BY <1>4, <3>3, <5>1
      <4>3. CASE k >= p
        <5>1. k + 1 \in 1..Len(new) /\ new[k + 1] = n
          BY <1>1, <1>11, <4>1, <4>3
        <5> QED
          BY <1>4, <3>3, <5>1
      <4> QED
        BY <1>1, <4>1, <4>2, <4>3
    <3>4. CASE ~(s = s0 /\ d = d0)
      BY <1>4, <3>2, <3>4
    <3> QED
      BY <3>3, <3>4
  <2> QED
    BY <2>1, <2>2
<1>15. PriceTimeOrder'
  <2> SUFFICES ASSUME NEW s \in Symbols, NEW d \in Sides,
                      NEW i \in 1..Len(book'[s][d]), NEW j \in 1..Len(book'[s][d]),
                      i < j
               PROVE  /\ ~Before(book[s][d][j], book[s][d][i])'
                      /\ ~Before(book[s][d][i], book[s][d][j])'
                            => book'[s][d][i] < book'[s][d][j]
    BY DEF PriceTimeOrder
  <2>1. CASE s = s0 /\ d = d0
    <3>1. /\ i \in 1..Len(new) /\ j \in 1..Len(new)
          /\ book'[s][d][i] = new[i] /\ book'[s][d][j] = new[j]
      BY <1>4, <2>1
    <3>2. \A k, l \in 1..Len(list) :
            k < l => /\ ~Before(list[l], list[k])
                     /\ ~Before(list[k], list[l]) => list[k] < list[l]
      BY <1>1 DEF IInv, PriceTimeOrder, list
    <3>3. /\ ~Before(new[j], new[i])
          /\ ~Before(new[i], new[j]) => new[i] < new[j]
      <4>1. CASE i # p /\ j # p
        <5>1. PICK k \in 1..Len(list), l \in 1..Len(list) :
                new[i] = list[k] /\ new[j] = list[l] /\ k < l
          <6> DEFINE k == IF i < p THEN i ELSE i - 1
                     l == IF j < p THEN j ELSE j - 1
          <6>1. k \in 1..Len(list) /\ new[i] = list[k]
            BY <1>1, <1>11, <3>1, <4>1
          <6>2. l \in 1..Len(list) /\ new[j] = list[l]
            BY <1>1, <1>11, <3>1, <4>1
          <6>3. k < l
            BY <1>1, <3>1, <4>1
          <6> HIDE DEF k, l
          <6> QED
            BY <6>1, <6>2, <6>3
        <5> QED
          BY <3>2, <5>1
      <4>2. CASE j = p
        <5>1. i \in 1..(p - 1) /\ i \in 1..Len(list) /\ new[i] = list[i] /\ new[j] = cur
          BY <1>1, <1>11, <3>1, <4>2
        <5> QED
          BY <1>2, <1>7, <5>1
      <4>3. CASE i = p
        <5>1. /\ j - 1 \in p..Len(list) /\ j - 1 \in 1..Len(list)
              /\ new[j] = list[j - 1] /\ new[i] = cur
          BY <1>1, <1>11, <3>1, <4>3
        <5>2. Before(cur, list[j - 1])
          BY <1>2, <5>1
        <5>3. /\ cur \in 1..Len(objs) /\ list[j - 1] \in 1..Len(objs)
              /\ objs[cur].side = objs[list[j - 1]].side
          BY <1>1, <1>7, <5>1 DEF Orders, MayRest, d0
        <5>4. ~Before(list[j - 1], cur)
          BY <1>6, <5>2, <5>3, BeforeIsWeakOrder
        <5> QED
          BY <5>1, <5>2, <5>4
      <4> QED
        BY <4>1, <4>2, <4>3
    <3> QED
      BY <1>3, <3>1, <3>3 DEF Before, Better
  <2>2. CASE ~(s = s0 /\ d = d0)
    <3>1. /\ book'[s][d] = book[s][d]
          /\ i \in 1..Len(book[s][d]) /\ j \in 1..Len(book[s][d])
      BY <1>4, <2>2
    <3>2. /\ ~Before(book[s][d][j], book[s][d][i])
          /\ ~Before(book[s][d][i], book[s][d][j]) => book[s][d][i] < book[s][d][j]
      BY <3>1 DEF IInv, PriceTimeOrder
    <3> QED
      BY <1>3, <3>1, <3>2 DEF Before, Better
  <2> QED
    BY <2>1, <2>2
\* The loop ended because cur crosses nothing: not the best maker, so no other.
<1>16. ASSUME NEW n \in Resting(s0, Opposite(d0))
       PROVE  IF d0 = "BUY" THEN objs[cur].price < objs[n].price
                            ELSE objs[n].price < objs[cur].price
  <2> DEFINE e0 == Opposite(d0)
             makers == book[s0][e0]
  <2>1. e0 \in Sides /\ Makers = makers
    BY <1>1 DEF Opposite, Sides, Makers, s0, d0
  <2>2. makers \in Seq(Orders) /\ Len(makers) \in Nat
    BY <1>1, <1>5, <2>1
  <2>3. PICK i \in 1..Len(makers) : makers[i] = n
    BY DEF Resting
  <2>4. makers # <<>> /\ 1 \in 1..Len(makers) /\ Head(makers) = makers[1]
    BY <2>2, <2>3
  <2>5. /\ n \in Orders /\ makers[1] \in Orders
        /\ objs[n].side = e0 /\ objs[makers[1]].side = e0
    BY <1>1, <1>5, <2>1, <2>3, <2>4 DEF IInv, EntriesLive, MayRest
  <2>6. ~Crosses(objs[cur], objs[makers[1]])
    BY <1>3, <1>7, <2>1, <2>4 DEF CanMatch
  <2>7. i = 1 \/ ~Before(n, makers[1])
    BY <1>1, <2>1, <2>3, <2>4 DEF IInv, PriceTimeOrder
  <2>8. ~Better(e0, objs[n].price, objs[makers[1]].price)
    <3>1. objs[n].price \in Int /\ objs[makers[1]].price \in Int
      BY <1>6, <2>5 DEF Order
    <3>2. CASE i = 1
      BY <2>3, <3>1, <3>2 DEF Better
    <3>3. CASE ~Before(n, makers[1])
      BY <2>5, <3>3 DEF Before
    <3> QED
      BY <2>7, <3>2, <3>3
  <2>9. Better(e0, objs[cur].price, objs[makers[1]].price)
    BY <2>5, <2>6 DEF Crosses
  <2>10. /\ objs[n].price \in Int /\ objs[makers[1]].price \in Int
         /\ objs[cur].price \in Int
    BY <1>1, <1>6, <2>5 DEF Order
  <2> HIDE DEF makers
  <2>11. d0 \in Sides
    BY <1>1
  <2>12. CASE d0 = "BUY"
    BY <2>8, <2>9, <2>10, <2>12 DEF Better, Opposite
  <2>13. CASE d0 = "SELL"
    BY <2>8, <2>9, <2>10, <2>13 DEF Better, Opposite
  <2> QED
    BY <2>11, <2>12, <2>13 DEF Sides
<1>17. NotCrossed'
  <2>1. ASSUME NEW s \in Symbols, NEW d \in Sides, NEW n \in Resting(s, d)'
        PROVE  n \in Resting(s, d) \/ (s = s0 /\ d = d0 /\ n = cur)
    <3>1. PICK i \in 1..Len(book'[s][d]) : book'[s][d][i] = n
      BY DEF Resting
    <3>2. CASE s = s0 /\ d = d0
      <4>1. i \in 1..Len(new) /\ new[i] = n
        BY <1>4, <3>1, <3>2
      <4>2. n = cur \/ \E k \in 1..Len(list) : list[k] = n
        BY <1>1, <1>11, <4>1, SMTT(30)
      <4> QED
        BY <3>2, <4>2 DEF Resting, list
    <3>3. CASE ~(s = s0 /\ d = d0)
      BY <1>4, <3>1, <3>3 DEF Resting
    <3> QED
      BY <3>2, <3>3
  <2> SUFFICES ASSUME NEW s \in Symbols,
                      NEW b \in Resting(s, "BUY")', NEW a \in Resting(s, "SELL")'
               PROVE  objs[b].price < objs[a].price
    BY <1>3 DEF NotCrossed
  <2>2. "BUY" \in Sides /\ "SELL" \in Sides /\ "BUY" # "SELL"
    BY DEF Sides
  <2>3. \/ b \in Resting(s, "BUY") /\ a \in Resting(s, "SELL")
        \/ s = s0 /\ d0 = "BUY" /\ b = cur /\ a \in Resting(s, "SELL")
        \/ s = s0 /\ d0 = "SELL" /\ a = cur /\ b \in Resting(s, "BUY")
    BY <2>1, <2>2
  <2>4. CASE b \in Resting(s, "BUY") /\ a \in Resting(s, "SELL")
    BY <2>4 DEF IInv, NotCrossed
  <2>5. CASE s = s0 /\ d0 = "BUY" /\ b = cur /\ a \in Resting(s, "SELL")
    BY <1>16, <2>5 DEF Opposite
  <2>6. CASE s = s0 /\ d0 = "SELL" /\ a = cur /\ b \in Resting(s, "BUY")
    BY <1>16, <2>2, <2>6 DEF Opposite
  <2> QED
    BY <2>3, <2>4, <2>5, <2>6
<1> QED
  BY <1>8, <1>9, <1>12, <1>13, <1>14, <1>15, <1>17 DEF IInv

-----------------------------------------------------------------------------
(* The theorems.                                                           *)

LEMMA InitEstablishesIInv == Init => IInv
<1> SUFFICES ASSUME Init
             PROVE  IInv
  OBVIOUS
<1> USE DEF Init
<1>1. \A s \in Symbols, d \in Sides : book[s][d] = <<>>
  OBVIOUS
<1>2. \A s \in Symbols, d \in Sides : Len(book[s][d]) = 0 /\ Resting(s, d) = {}
  BY <1>1 DEF Resting
<1>3. TypeOK
  <2>1. book \in [Symbols -> [Sides -> Seq(Orders)]]
    BY EmptySeq
  <2> QED
    BY <2>1, EmptySeq DEF TypeOK, NoExecution
<1>4. InHandler
  BY DEF InHandler
<1>5. Orders = {}
  BY DEF Orders
<1>6. NoOverfill /\ NothingLost
  BY <1>5 DEF NoOverfill, NothingLost
<1>7. EntriesLive /\ EntriesDistinct /\ PriceTimeOrder
  BY <1>2 DEF EntriesLive, EntriesDistinct, PriceTimeOrder
<1>8. NotCrossed
  BY <1>2 DEF NotCrossed, Sides
<1>9. FairPrice
  BY DEF FairPrice
<1> QED
  BY <1>3, <1>4, <1>6, <1>7, <1>8, <1>9 DEF IInv

\* The invariant is kept by every step.
LEMMA NextKeepsIInv == IInv /\ [Next]_vars => IInv'
<1> SUFFICES ASSUME IInv, [Next]_vars
             PROVE  IInv'
  OBVIOUS
<1>1. CASE RejectUnparsed
  BY <1>1, RejectUnparsedKeepsIInv
<1>2. ASSUME NEW m \in Messages, RejectInvalid(m)
      PROVE  IInv'
  BY <1>2, RejectInvalidKeepsIInv
<1>3. ASSUME NEW m \in Messages, Accept(m)
      PROVE  IInv'
  BY <1>3, AcceptKeepsIInv
<1>4. CASE MatchStep
  BY <1>4, MatchStepKeepsIInv
<1>5. CASE RecordTrade
  BY <1>5, RecordTradeKeepsIInv
<1>6. CASE FinishMarket
  <2>1. PICK status \in Statuses : Respond(status)
    BY <1>6 DEF FinishMarket, Statuses
  <2> QED
    BY <1>6, <2>1, RespondKeepsIInv DEF FinishMarket
<1>7. CASE FinishFilledLimit
  <2>1. "FILLED" \in Statuses /\ Respond("FILLED")
    BY <1>7 DEF FinishFilledLimit, Statuses
  <2> QED
    BY <1>7, <2>1, RespondKeepsIInv DEF FinishFilledLimit
<1>8. CASE RestLimit
  BY <1>8, RestLimitKeepsIInv
<1>9. CASE UNCHANGED vars
  <2>1. /\ objs' = objs /\ book' = book /\ registry' = registry /\ tape' = tape
        /\ cur' = cur /\ fills' = fills /\ exec' = exec /\ replies' = replies
    BY <1>9 DEF vars
  <2>2. TypeOK'
    BY <2>1 DEF IInv, TypeOK, Orders
  <2>3. InHandler' /\ NoOverfill'
    BY <2>1 DEF IInv, InHandler, NoOverfill, Orders, Valid
  <2>4. EntriesLive' /\ EntriesDistinct'
    BY <2>1 DEF IInv, EntriesLive, EntriesDistinct, MayRest, Remaining
  <2>5. NothingLost'
    BY <2>1 DEF IInv, NothingLost, MayRest, Remaining, Orders, Resting
  <2>6. PriceTimeOrder' /\ NotCrossed'
    BY <2>1, SMTT(30) DEF IInv, PriceTimeOrder, NotCrossed, Before, Better, Resting
  <2>7. FairPrice'
    BY <2>1 DEF IInv, FairPrice, FairTrade, Orders
  <2> QED
    BY <2>2, <2>3, <2>4, <2>5, <2>6, <2>7 DEF IInv
<1> QED
  BY <1>1, <1>2, <1>3, <1>4, <1>5, <1>6, <1>7, <1>8, <1>9 DEF Next

\* The inductive invariant holds: types, and what the matcher relies on.
THEOREM Invariance == Spec => []IInv
<1>1. Init => IInv
  BY InitEstablishesIInv
<1>2. IInv /\ [Next]_vars => IInv'
  BY NextKeepsIInv
<1> QED
  BY <1>1, <1>2, PTL DEF Spec

\* Every variable keeps its type (TypeOK), for every instance.
THEOREM TypeCorrect == Spec => []TypeOK
<1>1. IInv => TypeOK
  BY DEF IInv
<1> QED
  BY <1>1, Invariance, PTL

\* No book is ever crossed: matching takes every order that crosses the book
\* before what is left of it may rest.
THEOREM NeverCrossed == Spec => []NotCrossed
<1>1. IInv => NotCrossed
  BY DEF IInv
<1> QED
  BY <1>1, Invariance, PTL

\* The lists matching pops from are in price-time order, ties by arrival.
THEOREM SortedLists == Spec => []PriceTimeOrder
<1>1. IInv => PriceTimeOrder
  BY DEF IInv
<1> QED
  BY <1>1, Invariance, PTL

\* No order ever trades more than it asked for.
THEOREM NeverOverfilled == Spec => []NoOverfill
<1>1. IInv => NoOverfill
  BY DEF IInv
<1> QED
  BY <1>1, Invariance, PTL

\* Trades pair a buyer with a seller, within both limits, at the maker's price.
THEOREM TradesFair == Spec => []FairPrice
<1>1. IInv => FairPrice
  BY DEF IInv
<1> QED
  BY <1>1, Invariance, PTL

\* Between requests the books hold exactly the accepted LIMIT orders that have
\* something left to trade: none lost, none filled, none twice.
THEOREM BooksComplete == Spec => []RestingExactly
<1>1. IInv => RestingExactly
  <2> SUFFICES ASSUME IInv, cur = 0, NEW s \in Symbols, NEW d \in Sides
               PROVE  /\ Resting(s, d) =
                           {n \in Orders : /\ objs[n].symbol = s
                                           /\ objs[n].side = d
                                           /\ objs[n].type = "LIMIT"
                                           /\ objs[n].status # "REJECTED"
                                           /\ Remaining(objs[n]) > 0}
                      /\ \A i, j \in 1..Len(book[s][d]) :
                           book[s][d][i] = book[s][d][j] => i = j
    BY Zenon DEF RestingExactly
  <2>1. \A n \in Resting(s, d) : n \in Orders /\ MayRest(n, s, d)
    <3>1. \A i \in 1..Len(book[s][d]) : book[s][d][i] \in Orders
      BY ElementOfSeq DEF IInv, TypeOK
    <3> QED
      BY <3>1 DEF IInv, EntriesLive, Resting
  <2>2. \A n \in Orders : n # cur
    BY DEF Orders
  <2>3. \A n \in Orders : MayRest(n, s, d) => n \in Resting(s, d)
    BY DEF IInv, NothingLost
  <2> QED
    BY <2>1, <2>2, <2>3 DEF IInv, EntriesDistinct, MayRest
<1> QED
  BY <1>1, Invariance, PTL

\* Price-time priority: an order trades with the maker nobody is ahead of.
THEOREM PriorityRespected == Spec => PriceTimePriority
<1>1. IInv /\ [Next]_vars => [TradesWithBest]_vars
  <2> SUFFICES ASSUME IInv, Next
               PROVE  TradesWithBest
    BY DEF TradesWithBest, vars
  <2>1. ASSUME ~(Len(fills') > Len(fills))
        PROVE  TradesWithBest
    BY <2>1 DEF TradesWithBest
  <2>2. Len(fills) \in Nat /\ fills \in Seq(TradeRecord)
    BY LenProperties DEF IInv, TypeOK
  <2>3. CASE MatchStep
    <3> DEFINE s0 == objs[cur].symbol
               e0 == Opposite(objs[cur].side)
    <3>1. PICK best \in Orders, q \in Nat \ {0} :
            /\ cur \in Orders /\ best # cur /\ best < cur
            /\ s0 \in Symbols /\ objs[cur].side \in Sides
            /\ book[s0][e0] # <<>> /\ best = book[s0][e0][1]
            /\ MayRest(best, s0, e0)
            /\ fills' = Append(fills, Trade(cur, best, q))
      BY <2>3, MatchStepFacts, Zenon
    <3>2. Trade(cur, best, q) \in TradeRecord
      <4>1. objs[cur] \in Order /\ objs[best] \in Order
        BY <3>1, ElementOfSeq DEF IInv, TypeOK, Orders
      <4>2. objs[cur].symbol \in Names /\ objs[best].price \in Int
        BY <4>1 DEF Order
      <4>3. cur \in Nat /\ best \in Nat /\ q \in Int
        BY <3>1, SMTT(30) DEF Orders
      <4> QED
        BY <4>2, <4>3 DEF Trade, TradeRecord
    <3>3. fills'[Len(fills')] = Trade(cur, best, q)
      BY <2>2, <3>1, <3>2, AppendProperties, SMTT(30)
    <3>4. LET t == fills'[Len(fills')] IN Lesser(t.buy, t.sell) = best
      <4>1. cur \in Nat /\ best \in Nat /\ best < cur
        BY <3>1, SMTT(30) DEF Orders
      <4>2. LET t == Trade(cur, best, q) IN
              \/ t.buy = cur /\ t.sell = best
              \/ t.buy = best /\ t.sell = cur
        BY DEF Trade
      <4> QED
        BY <3>3, <4>1, <4>2 DEF Lesser
    <3>5. /\ \A s \in Symbols, d \in Sides : \A i \in 1..Len(book[s][d]) :
                book[s][d][i] \in Orders /\ objs[book[s][d][i]].side = d
          /\ \A s \in Symbols, d \in Sides : Len(book[s][d]) \in Nat
      BY ElementOfSeq, LenProperties DEF IInv, TypeOK, EntriesLive, MayRest
    <3>6. ASSUME NEW r \in Resting(s0, "BUY") \cup Resting(s0, "SELL"),
                 objs[r].side = objs[best].side
          PROVE  ~Before(r, best) /\ (~Before(best, r) => best <= r)
      <4>1. e0 \in Sides /\ objs[best].side = e0
        BY <3>1 DEF Opposite, Sides, MayRest
      <4>2. PICK d \in Sides : \E i \in 1..Len(book[s0][d]) : book[s0][d][i] = r
        BY <3>6 DEF Resting, Sides
      <4>a. s0 \in Symbols
        BY <3>1
      <4>3. d = e0 /\ r \in Orders
        BY <3>5, <3>6, <4>a, <4>1, <4>2
      <4>4. PICK i \in 1..Len(book[s0][e0]) : book[s0][e0][i] = r
        BY <4>2, <4>3
      <4>5. 1 \in 1..Len(book[s0][e0]) /\ i \in 1..Len(book[s0][e0])
        BY <3>5, <4>a, <4>1, <4>4
      <4>6. CASE i = 1
        <5>1. r = best /\ objs[best].price \in Int /\ objs[best].ts \in Int /\ best \in Nat
          <6>1. objs[best] \in Order /\ best \in Nat
            <7>1. best \in Orders
              BY <3>1
            <7> QED
              BY <7>1, ElementOfSeq DEF IInv, TypeOK, Orders
          <6> QED
            BY <3>1, <4>4, <4>6, <6>1 DEF Order
        <5> QED
          BY <5>1 DEF Before, Better
      <4>7. CASE i > 1
        <5>1. /\ ~Before(r, best) /\ (~Before(best, r) => best < r)
          BY <3>1, <4>1, <4>4, <4>5, <4>7 DEF IInv, PriceTimeOrder
        <5>2. r \in Nat /\ best \in Nat
          BY <4>3 DEF Orders
        <5> QED
          BY <5>1, <5>2
      <4> QED
        BY <4>5, <4>6, <4>7
    <3> QED
      BY <3>4, <3>6, Zenon DEF TradesWithBest
  <2>4. CASE ~MatchStep
    <3>1. fills' = fills \/ fills' = <<>> \/ (fills # <<>> /\ fills' = Tail(fills))
      BY <2>4 DEF Next, RejectUnparsed, RejectInvalid, Accept, RecordTrade, FinishMarket,
                  FinishFilledLimit, RestLimit, Respond
    <3>2. ~(Len(fills') > Len(fills))
      <4>1. CASE fills' = fills
        BY <2>2, <4>1
      <4>2. CASE fills' = <<>>
        BY <2>2, <4>2
      <4>3. CASE fills # <<>> /\ fills' = Tail(fills)
        BY <2>2, <4>3, HeadTailProperties
      <4> QED
        BY <3>1, <4>1, <4>2, <4>3
    <3> QED
      BY <2>1, <3>2
  <2> QED
    BY <2>3, <2>4
<1> QED
  BY <1>1, Invariance, PTL DEF Spec, PriceTimePriority

-----------------------------------------------------------------------------
(* The accounting: trades, their sums, and the responses.                  *)

\* A trade more: what it adds to the sums of an order.
LEMMA TradeAdds ==
    ASSUME NEW s \in Seq(TradeRecord), NEW t \in TradeRecord, NEW n
    PROVE  /\ QtyTraded(s, n) \in Int /\ QtyTaken(s, n) \in Int
           /\ QtyTraded(Append(s, t), n) =
                QtyTraded(s, n) + IF n \in {t.buy, t.sell} THEN t.qty ELSE 0
           /\ QtyTaken(Append(s, t), n) =
                QtyTaken(s, n) + IF Taker(t) = n THEN t.qty ELSE 0
<1>1. /\ Len(s) \in Nat /\ Len(Append(s, t)) = Len(s) + 1
      /\ DOMAIN s = 1..Len(s) /\ DOMAIN Append(s, t) = 1..(Len(s) + 1)
      /\ \A i \in 1..Len(s) : Append(s, t)[i] = s[i] /\ s[i] \in TradeRecord
      /\ Append(s, t)[Len(s) + 1] = t
  BY AppendProperties, LenProperties, ElementOfSeq
<1> DEFINE u == Append(s, t)
           k == Len(s)
<1> HIDE DEF u, k
<1>2. /\ k \in Nat /\ DOMAIN s = 1..k /\ DOMAIN u = 1..(k + 1)
      /\ \A i \in 1..k : u[i] = s[i] /\ s[i] \in TradeRecord
      /\ u[k + 1] = t
  BY <1>1 DEF u, k
<1>3. \A i \in 1..(k + 1) : u[i] \in TradeRecord
  BY <1>2
<1>4. \A i \in 1..(k + 1) : u[i].qty \in Int
  BY <1>3 DEF TradeRecord
<1>5. /\ QtyTraded(s, n) \in Int
      /\ QtyTraded(u, n) = QtyTraded(s, n) + IF n \in {t.buy, t.sell} THEN t.qty ELSE 0
  <2> DEFINE f == [i \in 1..k |-> IF n \in {s[i].buy, s[i].sell} THEN s[i].qty ELSE 0]
             g == [i \in 1..(k + 1) |->
                     IF n \in {u[i].buy, u[i].sell} THEN u[i].qty ELSE 0]
  <2>1. /\ f \in [1..k -> Int] /\ g \in [1..(k + 1) -> Int]
        /\ \A i \in 1..k : g[i] = f[i]
        /\ g[k + 1] = IF n \in {t.buy, t.sell} THEN t.qty ELSE 0
    BY <1>2, <1>4
  <2>2. QtyTraded(s, n) = SumFunction(f) /\ QtyTraded(u, n) = SumFunction(g)
    BY <1>2, Zenon DEF QtyTraded
  <2> HIDE DEF f, g
  <2>3. SumFunction(f) \in Int /\ SumFunction(g) = SumFunction(f) + g[k + 1]
    BY <1>2, <2>1, SumAppend
  <2> QED
    BY <2>1, <2>2, <2>3, Zenon
<1>6. /\ QtyTaken(s, n) \in Int
      /\ QtyTaken(u, n) = QtyTaken(s, n) + IF Taker(t) = n THEN t.qty ELSE 0
  <2> DEFINE f == [i \in 1..k |-> IF Taker(s[i]) = n THEN s[i].qty ELSE 0]
             g == [i \in 1..(k + 1) |-> IF Taker(u[i]) = n THEN u[i].qty ELSE 0]
  <2>1. /\ f \in [1..k -> Int] /\ g \in [1..(k + 1) -> Int]
        /\ \A i \in 1..k : g[i] = f[i]
        /\ g[k + 1] = IF Taker(t) = n THEN t.qty ELSE 0
    BY <1>2, <1>4
  <2>2. QtyTaken(s, n) = SumFunction(f) /\ QtyTaken(u, n) = SumFunction(g)
    BY <1>2, Zenon DEF QtyTaken
  <2> HIDE DEF f, g
  <2>3. SumFunction(f) \in Int /\ SumFunction(g) = SumFunction(f) + g[k + 1]
    BY <1>2, <2>1, SumAppend
  <2> QED
    BY <2>1, <2>2, <2>3, Zenon
<1> QED
  BY <1>5, <1>6 DEF u

\* The sums of an order no trade names are zero.
LEMMA NothingTraded ==
    ASSUME NEW s \in Seq(TradeRecord), NEW n
    PROVE  /\ (\A i \in 1..Len(s) : n \notin {s[i].buy, s[i].sell}) => QtyTraded(s, n) = 0
           /\ (\A i \in 1..Len(s) : Taker(s[i]) # n) => QtyTaken(s, n) = 0
<1> DEFINE k == Len(s)
<1>1. k \in Nat /\ DOMAIN s = 1..k /\ IsFiniteSet(1..k)
  BY LenProperties, FS_Interval
<1> HIDE DEF k
<1>2. ASSUME \A i \in 1..k : n \notin {s[i].buy, s[i].sell}
      PROVE  QtyTraded(s, n) = 0
  <2> DEFINE f == [i \in 1..k |-> IF n \in {s[i].buy, s[i].sell} THEN s[i].qty ELSE 0]
  <2>1. DOMAIN f = 1..k /\ \A i \in 1..k : f[i] = 0
    BY <1>2
  <2>2. QtyTraded(s, n) = SumFunction(f)
    BY <1>1, Zenon DEF QtyTraded
  <2> HIDE DEF f
  <2>3. SumFunction(f) = SumOver(f, 1..k)
    BY <2>1, Zenon DEF SumFunction, SumOver
  <2>4. SumOver(f, 1..k) = 0
    BY <1>1, <2>1, SumZero
  <2> QED
    BY <2>2, <2>3, <2>4
<1>3. ASSUME \A i \in 1..k : Taker(s[i]) # n
      PROVE  QtyTaken(s, n) = 0
  <2> DEFINE f == [i \in 1..k |-> IF Taker(s[i]) = n THEN s[i].qty ELSE 0]
  <2>1. DOMAIN f = 1..k /\ \A i \in 1..k : f[i] = 0
    BY <1>3
  <2>2. QtyTaken(s, n) = SumFunction(f)
    BY <1>1, Zenon DEF QtyTaken
  <2> HIDE DEF f
  <2>3. SumFunction(f) = SumOver(f, 1..k)
    BY <2>1, Zenon DEF SumFunction, SumOver
  <2>4. SumOver(f, 1..k) = 0
    BY <1>1, <2>1, SumZero
  <2> QED
    BY <2>2, <2>3, <2>4
<1> QED
  BY <1>2, <1>3 DEF k

\* Positive trades do not add up to less than zero.
LEMMA TakenNotNegative ==
    ASSUME NEW s \in Seq(TradeRecord), NEW n, \A i \in 1..Len(s) : s[i].qty > 0
    PROVE  QtyTaken(s, n) \in Nat
<1> DEFINE k == Len(s)
           f == [i \in 1..k |-> IF Taker(s[i]) = n THEN s[i].qty ELSE 0]
<1>1. k \in Nat /\ DOMAIN s = 1..k /\ IsFiniteSet(1..k)
  BY LenProperties, FS_Interval
<1>2. \A i \in 1..k : s[i].qty \in Nat
  <2>1. \A i \in 1..k : s[i] \in TradeRecord
    BY ElementOfSeq
  <2> QED
    BY <2>1 DEF TradeRecord
<1>3. DOMAIN f = 1..k /\ \A i \in 1..k : f[i] \in Nat /\ f[i] \in Int
  BY <1>2
<1>4. QtyTaken(s, n) = SumFunction(f)
  BY <1>1, Zenon DEF QtyTaken
<1> HIDE DEF f, k
<1>5. SumFunction(f) = SumOver(f, 1..k)
  BY <1>3, Zenon DEF SumFunction, SumOver
<1>6. SumOver(f, 1..k) \in Nat
  BY <1>1, <1>3, SumType
<1> QED
  BY <1>4, <1>5, <1>6

\* An order that is the incoming one in all its trades took what it traded.
LEMMA TakenIsTraded ==
    ASSUME NEW s \in Seq(TradeRecord), NEW n,
           \A i \in 1..Len(s) : n \in {s[i].buy, s[i].sell} <=> Taker(s[i]) = n
    PROVE  QtyTraded(s, n) = QtyTaken(s, n)
<1>1. DOMAIN s = 1..Len(s)
  BY LenProperties
<1>2. [i \in DOMAIN s |-> IF n \in {s[i].buy, s[i].sell} THEN s[i].qty ELSE 0]
        = [i \in DOMAIN s |-> IF Taker(s[i]) = n THEN s[i].qty ELSE 0]
  BY <1>1
<1> QED
  BY <1>2, Zenon DEF QtyTraded, QtyTaken

\* Who a fair trade names: two orders, the later one being the taker.
LEMMA FairTradeNames ==
    ASSUME IInv, NEW t \in TradeRecord, FairTrade(t)
    PROVE  /\ t.buy \in Orders /\ t.sell \in Orders /\ t.buy # t.sell
           /\ Taker(t) \in Orders /\ Taker(t) \in {t.buy, t.sell}
           /\ Len(objs) \in {t.buy, t.sell} <=> Taker(t) = Len(objs)
<1>1. t.buy \in Orders /\ t.sell \in Orders /\ t.buy # t.sell
  BY DEF FairTrade
<1>2. Len(objs) \in Nat
  BY LenProperties DEF IInv, TypeOK
<1> QED
  BY <1>1, <1>2 DEF Taker, Orders

\* The trades made are fair; those of the tape come first.
LEMMA MadeFacts ==
    ASSUME IInv
    PROVE  /\ tape \in Seq(TradeRecord) /\ fills \in Seq(TradeRecord)
           /\ Made \in Seq(TradeRecord)
           /\ Len(tape) \in Nat /\ Len(fills) \in Nat
           /\ Len(Made) = Len(tape) + Len(fills)
           /\ \A i \in 1..Len(Made) :
                 /\ Made[i] \in TradeRecord /\ FairTrade(Made[i]) /\ Made[i].qty > 0
                 /\ Made[i] = IF i <= Len(tape) THEN tape[i] ELSE fills[i - Len(tape)]
           /\ \A i \in 1..Len(tape) :
                 /\ i \in 1..Len(Made) /\ Made[i] = tape[i]
                 /\ tape[i] \in TradeRecord /\ FairTrade(tape[i]) /\ tape[i].qty > 0
<1>1. /\ tape \in Seq(TradeRecord) /\ fills \in Seq(TradeRecord)
      /\ Len(tape) \in Nat /\ Len(fills) \in Nat
  BY LenProperties DEF IInv, TypeOK
<1>2. /\ Made \in Seq(TradeRecord)
      /\ Len(Made) = Len(tape) + Len(fills)
      /\ \A i \in 1..Len(Made) :
            Made[i] = IF i <= Len(tape) THEN tape[i] ELSE fills[i - Len(tape)]
  BY <1>1, ConcatProperties DEF Made
<1> HIDE DEF Made
<1>3. ASSUME NEW i \in 1..Len(Made)
      PROVE  Made[i] \in TradeRecord /\ FairTrade(Made[i]) /\ Made[i].qty > 0
  <2>1. CASE i <= Len(tape)
    <3>1. i \in 1..Len(tape) /\ Made[i] = tape[i]
      BY <1>1, <1>2, <2>1
    <3> QED
      BY <1>1, <3>1, ElementOfSeq DEF IInv, FairPrice, FairTrade
  <2>2. CASE ~(i <= Len(tape))
    <3>1. i - Len(tape) \in 1..Len(fills) /\ Made[i] = fills[i - Len(tape)]
      BY <1>1, <1>2, <2>2
    <3> QED
      BY <1>1, <3>1, ElementOfSeq DEF IInv, FairPrice, FairTrade
  <2> QED
    BY <2>1, <2>2
<1>4. ASSUME NEW i \in 1..Len(tape)
      PROVE  i \in 1..Len(Made) /\ Made[i] = tape[i]
  BY <1>1, <1>2
<1> QED
  BY <1>1, <1>2, <1>3, <1>4

\* The ways objs, cur and replies change together.
AnswerStep ==
    \/ Len(objs') = Len(objs) /\ UNCHANGED <<cur, replies>>
    \/ /\ cur = 0 /\ cur' = Len(objs') /\ Len(objs') = Len(objs) + 1
       /\ replies' = replies
    \/ \E r \in ReplyRecord :
          /\ replies' = Append(replies, r) /\ cur' = 0
          /\ \/ cur = 0 /\ r.order = 0 /\ Len(objs') = Len(objs)
             \/ cur = 0 /\ r.order = Len(objs') /\ Len(objs') = Len(objs) + 1
             \/ cur # 0 /\ r.order = cur /\ Len(objs') = Len(objs)

\* Each order is answered once, in order of arrival.
LEMMA AnsweredOnceKept ==
    ASSUME IInv, AnsweredOnce, AnswerStep
    PROVE  AnsweredOnce'
<1> DEFINE L == Len(replies)
           M == Len(objs)
           ord(i) == replies[i].order
           Answered == {ord(i) : i \in 1..L}
<1>1. /\ replies \in Seq(ReplyRecord) /\ L \in Nat /\ M \in Nat /\ cur \in 0..M
      /\ \A i \in 1..L : ord(i) \in Nat
  <2>1. replies \in Seq(ReplyRecord) /\ L \in Nat /\ M \in Nat /\ cur \in 0..M
    BY LenProperties DEF IInv, TypeOK, Orders
  <2>2. \A i \in 1..L : replies[i] \in ReplyRecord
    BY <2>1, ElementOfSeq
  <2> QED
    BY <2>1, <2>2 DEF ReplyRecord
<1>2. /\ \A i, j \in 1..L : i < j /\ ord(i) # 0 /\ ord(j) # 0 => ord(i) < ord(j)
      /\ Answered \cup {0, cur} = 0..M
      /\ cur # 0 => cur = M /\ \A i \in 1..L : ord(i) # cur
  <2>1. (1..M) \cup {0} = 0..M
    BY <1>1
  <2> QED
    BY <2>1 DEF AnsweredOnce, Orders
<1>3. CASE Len(objs') = M /\ UNCHANGED <<cur, replies>>
  BY <1>3 DEF AnsweredOnce, Orders
<1>4. CASE cur = 0 /\ cur' = Len(objs') /\ Len(objs') = M + 1 /\ replies' = replies
  <2>1. \A i \in 1..L : ord(i) \in 0..M
    BY <1>2
  <2>2. Answered \cup {0, cur'} = 1..Len(objs') \cup {0}
    BY <1>1, <1>2, <1>4
  <2>3. cur' # 0 /\ \A i \in 1..L : ord(i) # cur'
    BY <1>1, <1>4, <2>1
  <2> QED
    BY <1>2, <1>4, <2>2, <2>3 DEF AnsweredOnce, Orders
<1>5. ASSUME NEW r \in ReplyRecord, replies' = Append(replies, r), cur' = 0,
             \/ cur = 0 /\ r.order = 0 /\ Len(objs') = M
             \/ cur = 0 /\ r.order = Len(objs') /\ Len(objs') = M + 1
             \/ cur # 0 /\ r.order = cur /\ Len(objs') = M
      PROVE  AnsweredOnce'
  <2>1. /\ Len(replies') = L + 1
        /\ \A i \in 1..L : replies'[i] = replies[i]
        /\ replies'[L + 1] = r
    BY <1>1, <1>5, AppendProperties
  <2>2. /\ \A i \in 1..L : replies'[i].order = ord(i) /\ ord(i) \in 0..M
        /\ replies'[L + 1].order = r.order
    BY <1>2, <2>1
  <2>3. \A i \in 1..L : r.order # 0 => ord(i) < r.order
    BY <1>1, <1>2, <1>5, <2>2
  <2>4. \A i, j \in 1..(L + 1) :
          i < j /\ replies'[i].order # 0 /\ replies'[j].order # 0 =>
            replies'[i].order < replies'[j].order
    <3> SUFFICES ASSUME NEW i \in 1..(L + 1), NEW j \in 1..(L + 1), i < j,
                        replies'[i].order # 0, replies'[j].order # 0
                 PROVE  replies'[i].order < replies'[j].order
      OBVIOUS
    <3>1. i \in 1..L /\ (j \in 1..L \/ j = L + 1)
      BY <1>1
    <3> QED
      BY <1>2, <2>2, <2>3, <3>1
  <2>5. {replies'[i].order : i \in 1..(L + 1)} = Answered \cup {r.order}
    <3>1. 1..(L + 1) = 1..L \cup {L + 1}
      BY <1>1
    <3> QED
      BY <2>2, <3>1
  <2>6. Answered \cup {r.order} \cup {0} = 1..Len(objs') \cup {0}
    <3> HIDE DEF Answered, ord
    <3>1. /\ 0..M = 1..M \cup {0} /\ 0..(M + 1) = 1..(M + 1) \cup {0}
          /\ 0..(M + 1) = 0..M \cup {M + 1}
      BY <1>1
    <3>2. CASE Len(objs') = M /\ r.order = cur
      BY <1>2, <3>1, <3>2
    <3>3. CASE cur = 0 /\ r.order = M + 1 /\ Len(objs') = M + 1
      BY <1>2, <3>1, <3>3
    <3> QED
      BY <1>5, <3>2, <3>3
  <2> QED
    BY <1>5, <2>1, <2>4, <2>5, <2>6 DEF AnsweredOnce, Orders
<1> QED
  BY <1>3, <1>4, <1>5 DEF AnswerStep

\* A response that is true stays true: the terms of its order do not change and
\* the tape gets no other trade that it took.
LEMMA TrueReplyKept ==
    ASSUME IInv, Keeps, NEW r \in ReplyRecord, r.order \in Orders, TrueReply(r),
           \/ tape' = tape
           \/ \E t \in TradeRecord : tape' = Append(tape, t) /\ Taker(t) # r.order
    PROVE  TrueReply(r)'
<1> DEFINE n == r.order
           o == objs[n]
<1>1. /\ n \in Orders
      /\ objs'[n].symbol = o.symbol /\ objs'[n].side = o.side
      /\ objs'[n].price = o.price /\ objs'[n].qty = o.qty /\ objs'[n].type = o.type
  BY DEF Keeps
<1>2. QtyTaken(tape', n) = QtyTaken(tape, n)
  <2>1. CASE tape' = tape
    BY <2>1
  <2>2. ASSUME NEW t \in TradeRecord, tape' = Append(tape, t), Taker(t) # n
        PROVE  QtyTaken(tape', n) = QtyTaken(tape, n)
    <3>1. tape \in Seq(TradeRecord)
      BY MadeFacts
    <3>2. QtyTaken(tape, n) \in Int /\ QtyTaken(tape', n) = QtyTaken(tape, n) + 0
      BY <2>2, <3>1, TradeAdds
    <3> QED
      BY <3>2
  <2> QED
    BY <2>1, <2>2
<1>3. ASSUME NEW k \in 1..Len(tape'), Taker(tape'[k]) = n
      PROVE  k \in 1..Len(tape) /\ tape'[k] = tape[k]
  <2>1. tape \in Seq(TradeRecord) /\ Len(tape) \in Nat
    BY MadeFacts
  <2>2. ASSUME NEW t \in TradeRecord, tape' = Append(tape, t), Taker(t) # n
        PROVE  k \in 1..Len(tape) /\ tape'[k] = tape[k]
    BY <1>3, <2>1, <2>2, AppendProperties
  <2> QED
    BY <2>2
<1>4. /\ r.qty = QtyTaken(tape, n)
      /\ r.qty = 0 => r.price = 0
      /\ \A k \in 1..Len(tape) :
            Taker(tape[k]) = n => ~Better(o.side, tape[k].price, r.price)
      /\ r.status = "FILLED" <=> Valid(o) /\ r.qty = o.qty
      /\ r.status = "PARTIALLY_FILLED" <=> 0 < r.qty /\ r.qty < o.qty
      /\ r.status = "PENDING" <=> r.qty = 0 /\ Valid(o) /\ o.type = "LIMIT"
  BY DEF TrueReply
<1>5. Valid(o)' <=> Valid(o)
  BY <1>1 DEF Valid
<1>6. \A k \in 1..Len(tape') :
         Taker(tape'[k]) = n => ~Better(o'.side, tape'[k].price, r.price)
  BY <1>1, <1>3, <1>4
<1> QED
  BY <1>1, <1>2, <1>4, <1>5, <1>6 DEF TrueReply

\* What the handler did to the tape and what it answered leaves the responses true.
LEMMA RepliesTruthfulKept ==
    ASSUME IInv, AnsweredOnce, RepliesTruthful, Keeps,
           \/ tape' = tape
           \/ /\ cur # 0
              /\ \E t \in TradeRecord : tape' = Append(tape, t) /\ Taker(t) = cur,
           \/ replies' = replies
           \/ \E r \in ReplyRecord :
                 replies' = Append(replies, r) /\ (r.order # 0 => TrueReply(r)')
    PROVE  RepliesTruthful'
<1>1. replies \in Seq(ReplyRecord) /\ Len(replies) \in Nat
  BY LenProperties DEF IInv, TypeOK
<1>2. ASSUME NEW i \in 1..Len(replies), replies[i].order # 0
      PROVE  TrueReply(replies[i])'
  <2>1. PICK r \in ReplyRecord : r = replies[i]
    BY <1>1, ElementOfSeq
  <2>2. TrueReply(r)
    BY <1>2, <2>1 DEF RepliesTruthful
  <2>3. r.order \in Orders /\ (cur # 0 => r.order # cur)
    BY <1>2, <2>1 DEF AnsweredOnce
  <2>4. TrueReply(r)'
    BY <2>2, <2>3, TrueReplyKept
  <2> QED
    BY <2>1, <2>4 DEF TrueReply
<1>3. CASE replies' = replies
  BY <1>2, <1>3 DEF RepliesTruthful, TrueReply
<1>4. ASSUME NEW r \in ReplyRecord, replies' = Append(replies, r),
             r.order # 0 => TrueReply(r)'
      PROVE  RepliesTruthful'
  <2>1. /\ Len(replies') = Len(replies) + 1
        /\ \A i \in 1..Len(replies) : replies'[i] = replies[i]
        /\ replies'[Len(replies) + 1] = r
    BY <1>1, <1>4, AppendProperties
  <2> SUFFICES ASSUME NEW i \in 1..Len(replies'), replies'[i].order # 0
               PROVE  TrueReply(replies[i])'
    BY DEF RepliesTruthful
  <2>2. CASE i \in 1..Len(replies)
    BY <1>2, <2>1, <2>2 DEF TrueReply
  <2>3. CASE i = Len(replies) + 1
    BY <1>4, <2>1, <2>3 DEF TrueReply
  <2> QED
    BY <1>1, <2>1, <2>2, <2>3
<1> QED
  BY <1>3, <1>4

\* The sums of _execute_order, once every trade is recorded: what cur filled.
LEMMA ExecutionIsFill ==
    ASSUME AInv, cur # 0, fills = <<>>
    PROVE  /\ cur \in Orders /\ cur = Len(objs) /\ Made = tape
           /\ objs[cur] \in Order /\ Valid(objs[cur])
           /\ exec.qty \in Int /\ exec.price \in Int
           /\ exec.qty = objs[cur].filled
           /\ 0 <= exec.qty /\ exec.qty <= objs[cur].qty /\ 0 < objs[cur].qty
<1>1. /\ cur \in Orders /\ cur = Len(objs) /\ Valid(objs[cur]) /\ objs[cur] \in Order
      /\ exec.qty \in Int /\ exec.price \in Int
  <2>1. cur \in Orders /\ cur = Len(objs) /\ Valid(objs[cur])
    BY DEF AInv, IInv, TypeOK, InHandler
  <2> QED
    BY <2>1, ElementOfSeq DEF AInv, IInv, TypeOK, Orders
<1>2. Made = tape
  BY ConcatEmptySeq DEF AInv, IInv, TypeOK, Made
<1>3. QtyTraded(tape, cur) = QtyTaken(tape, cur)
  <2>1. \A i \in 1..Len(tape) : cur \in {tape[i].buy, tape[i].sell} <=> Taker(tape[i]) = cur
    <3>1. ASSUME NEW t \in TradeRecord, FairTrade(t)
          PROVE  cur \in {t.buy, t.sell} <=> Taker(t) = cur
      BY <1>1, <3>1, FairTradeNames DEF AInv
    <3>2. \A i \in 1..Len(tape) : tape[i] \in TradeRecord /\ FairTrade(tape[i])
      BY MadeFacts DEF AInv
    <3> QED
      BY <3>1, <3>2
  <2>2. tape \in Seq(TradeRecord)
    BY MadeFacts DEF AInv
  <2> QED
    BY <2>1, <2>2, TakenIsTraded
<1>4. exec.qty = objs[cur].filled
  <2>1. objs[cur].filled = QtyTraded(Made, cur)
    BY <1>1 DEF AInv, FillsAccounted, Made
  <2>2. exec.qty = QtyTaken(tape, cur)
    BY DEF AInv, ExecutionSums
  <2> QED
    BY <1>2, <1>3, <2>1, <2>2
<1>5. /\ 0 <= objs[cur].filled
      /\ objs[cur].filled > 0 => objs[cur].filled <= objs[cur].qty
  BY <1>1 DEF AInv, IInv, NoOverfill
<1>6. objs[cur].qty \in Int /\ objs[cur].filled \in Int
  BY <1>1 DEF Order
<1>7. 0 < objs[cur].qty
  BY <1>1, <1>6, SizesAssumption DEF Valid
<1> QED
  BY <1>1, <1>2, <1>4, <1>5, <1>6, <1>7

LEMMA RespondKeepsAInv ==
    ASSUME AInv, IInv', NEW status \in Statuses, Respond(status),
           status = "FILLED" <=> exec.qty = objs[cur].qty,
           status = "PARTIALLY_FILLED" <=> 0 < exec.qty /\ exec.qty < objs[cur].qty,
           status = "PENDING" <=> exec.qty = 0 /\ objs[cur].type = "LIMIT"
    PROVE  AInv'
<1>1. /\ cur # 0 /\ fills = <<>> /\ cur' = 0 /\ exec' = NoExecution
      /\ objs' = objs /\ tape' = tape /\ fills' = fills
  BY DEF Respond
<1>2. /\ cur \in Orders /\ Valid(objs[cur])
      /\ exec.qty \in Int /\ exec.price \in Int
      /\ 0 <= exec.qty /\ exec.qty <= objs[cur].qty /\ 0 < objs[cur].qty
  BY <1>1, ExecutionIsFill
<1>3. PICK r \in ReplyRecord :
        /\ replies' = Append(replies, r)
        /\ r.order = cur /\ r.status = status
        /\ r.price = exec.price /\ r.qty = exec.qty
  <2>1. Reply(cur, status, exec.price, exec.qty) \in ReplyRecord
    BY <1>2 DEF Reply, ReplyRecord, Orders
  <2> QED
    BY <2>1 DEF Respond, Reply
<1>5. AnsweredOnce'
  <2>1. AnswerStep
    BY <1>1, <1>3 DEF AnswerStep
  <2> QED
    BY <2>1, AnsweredOnceKept DEF AInv
<1>6. RepliesTruthful'
  <2>1. TrueReply(r)'
    <3>1. /\ exec.qty = QtyTaken(tape, cur)
          /\ exec.qty = 0 => exec.price = 0
          /\ \A k \in 1..Len(tape) : Taker(tape[k]) = cur =>
                ~Better(objs[cur].side, tape[k].price, exec.price)
      BY <1>1 DEF AInv, ExecutionSums
    <3> QED
      BY <1>1, <1>2, <1>3, <3>1 DEF TrueReply
  <2>2. Keeps
    BY <1>1, LenProperties DEF Keeps, AInv, IInv, TypeOK
  <2> QED
    BY <1>1, <1>3, <2>1, <2>2, RepliesTruthfulKept DEF AInv
<1>7. FillsAccounted'
  BY <1>1 DEF AInv, FillsAccounted, Orders
<1>8. IdleHandler' /\ ExecutionSums' /\ PricesWorsen'
  BY <1>1 DEF IdleHandler, ExecutionSums, PricesWorsen
<1> QED
  BY <1>5, <1>6, <1>7, <1>8 DEF AInv

LEMMA RejectUnparsedKeepsAInv ==
    ASSUME AInv, IInv', RejectUnparsed
    PROVE  AInv'
<1>1. PICK r \in ReplyRecord : replies' = Append(replies, r) /\ r.order = 0
  <2>1. Reply(0, "REJECTED", 0, 0) \in ReplyRecord
    BY DEF Reply, ReplyRecord, Statuses
  <2> QED
    BY <2>1 DEF RejectUnparsed, Reply
<1>2. /\ cur = 0 /\ cur' = 0 /\ objs' = objs /\ book' = book
      /\ tape' = tape /\ fills' = fills /\ exec' = exec
  BY DEF RejectUnparsed
<1>3. AnsweredOnce'
  <2>1. AnswerStep
    BY <1>1, <1>2 DEF AnswerStep
  <2> QED
    BY <2>1, AnsweredOnceKept DEF AInv
<1>4. RepliesTruthful'
  <2>1. Keeps
    BY <1>2, LenProperties DEF Keeps, AInv, IInv, TypeOK
  <2> QED
    BY <1>1, <1>2, <2>1, RepliesTruthfulKept DEF AInv
<1>5. FillsAccounted' /\ IdleHandler' /\ ExecutionSums' /\ PricesWorsen'
  BY <1>2 DEF AInv, FillsAccounted, IdleHandler, ExecutionSums, PricesWorsen, Orders
<1> QED
  BY <1>3, <1>4, <1>5 DEF AInv

\* A request that parsed has traded nothing yet: no trade names its order.
LEMMA ParsedKeepsAInv ==
    ASSUME AInv, IInv', cur = 0, NEW m \in Messages, NEW status \in Statuses,
           objs' = Append(objs, NewOrder(m, status)),
           UNCHANGED <<book, registry, tape, fills, exec>>,
           \/ /\ status = "REJECTED" /\ cur' = 0 /\ ~Valid(m)
              /\ replies' = Append(replies, Reply(Len(objs) + 1, "REJECTED", 0, 0))
           \/ status = "PENDING" /\ cur' = Len(objs) + 1 /\ Valid(m) /\ replies' = replies
    PROVE  AInv'
<1>1. PICK n \in Nat : n = Len(objs) + 1
  BY LenProperties DEF AInv, IInv, TypeOK
<1>2. /\ Keeps /\ Len(objs') = n /\ Len(objs) \in Nat
      /\ Orders' = Orders \cup {n} /\ n \notin Orders
      /\ objs'[n] = NewOrder(m, status)
      /\ \A k \in Orders : objs'[k] = objs[k]
  <2>1. Len(objs) \in Nat
    BY LenProperties DEF AInv, IInv, TypeOK
  <2> QED
    BY <1>1, <2>1, AppendOrder DEF AInv, IInv, Orders
<1>3. /\ tape' = tape /\ fills' = fills /\ Made' = Made
      /\ fills = <<>> /\ exec = NoExecution /\ exec' = exec
  BY DEF AInv, IdleHandler, Made
<1>4. /\ tape \in Seq(TradeRecord) /\ Made \in Seq(TradeRecord)
      /\ \A i \in 1..Len(Made) : n \notin {Made[i].buy, Made[i].sell} /\ Taker(Made[i]) # n
      /\ \A i \in 1..Len(tape) : Taker(tape[i]) # n
  <2>1. ASSUME NEW t \in TradeRecord, FairTrade(t)
        PROVE  n \notin {t.buy, t.sell} /\ Taker(t) # n
    BY <1>2, <2>1, FairTradeNames DEF AInv
  <2>2. /\ tape \in Seq(TradeRecord) /\ Made \in Seq(TradeRecord)
        /\ \A i \in 1..Len(Made) : Made[i] \in TradeRecord /\ FairTrade(Made[i])
        /\ \A i \in 1..Len(tape) : tape[i] \in TradeRecord /\ FairTrade(tape[i])
    BY MadeFacts DEF AInv
  <2> QED
    BY <2>1, <2>2
<1>5. QtyTraded(Made, n) = 0 /\ QtyTaken(tape, n) = 0
  BY <1>4, NothingTraded
<1>6. AnsweredOnce'
  <2>1. Reply(n, "REJECTED", 0, 0) \in ReplyRecord /\ Reply(n, "REJECTED", 0, 0).order = n
    BY DEF Reply, ReplyRecord, Statuses
  <2>2. AnswerStep
    BY <1>1, <1>2, <2>1 DEF AnswerStep
  <2> QED
    BY <2>2, AnsweredOnceKept DEF AInv
<1>7. RepliesTruthful'
  <2>1. CASE replies' = replies
    BY <1>2, <1>3, <2>1, RepliesTruthfulKept DEF AInv
  <2>2. CASE /\ ~Valid(m)
             /\ replies' = Append(replies, Reply(Len(objs) + 1, "REJECTED", 0, 0))
    <3>1. PICK r \in ReplyRecord : r = Reply(n, "REJECTED", 0, 0)
      <4>1. Reply(n, "REJECTED", 0, 0) \in ReplyRecord
        BY DEF Reply, ReplyRecord, Statuses
      <4> QED
        BY <4>1
    <3>2. /\ r.order = n /\ r.status = "REJECTED" /\ r.price = 0 /\ r.qty = 0
      BY <3>1 DEF Reply
    <3>3. ~Valid(objs'[n])
      BY <1>2, <2>2 DEF Valid, NewOrder
    <3>4. QtyTaken(tape', n) = 0 /\ \A k \in 1..Len(tape') : Taker(tape'[k]) # n
      BY <1>3, <1>4, <1>5
    <3>5. TrueReply(r)'
      <4>1. /\ r.qty = QtyTaken(tape', r.order)
            /\ \A k \in 1..Len(tape') : Taker(tape'[k]) # r.order
            /\ ~Valid(objs'[r.order])
            /\ r.status \notin {"FILLED", "PARTIALLY_FILLED", "PENDING"}
            /\ ~(0 < r.qty) /\ r.price = 0
        <5>1. ~(0 < r.qty) /\ r.status \notin {"FILLED", "PARTIALLY_FILLED", "PENDING"}
          BY <3>2
        <5> QED
          BY <3>2, <3>3, <3>4, <5>1, Zenon
      <4>2. Valid(objs[r.order])' <=> Valid(objs'[r.order])
        BY DEF Valid
      <4> QED
        BY <4>1, <4>2, Zenon DEF TrueReply
    <3> QED
      BY <1>1, <1>2, <1>3, <2>2, <3>1, <3>5, RepliesTruthfulKept DEF AInv
  <2> QED
    BY <2>1, <2>2
<1>8. FillsAccounted'
  <2> SUFFICES ASSUME NEW k \in Orders'
               PROVE  objs'[k].filled = QtyTraded(Made, k)
    BY <1>3 DEF FillsAccounted, Made
  <2>1. CASE k \in Orders
    BY <1>2, <2>1 DEF AInv, FillsAccounted, Made
  <2>2. CASE k = n
    BY <1>2, <1>5, <2>2 DEF NewOrder
  <2> QED
    BY <1>2, <2>1, <2>2
<1>9. IdleHandler'
  BY <1>3 DEF IdleHandler
<1>10. ExecutionSums'
  <2>1. Len(fills) = 0
    BY <1>3
  <2> QED
    BY <1>1, <1>3, <1>4, <1>5, <2>1 DEF ExecutionSums, NoExecution
<1>11. PricesWorsen'
  BY <1>1, <1>3, <1>4 DEF PricesWorsen
<1> QED
  BY <1>6, <1>7, <1>8, <1>9, <1>10, <1>11 DEF AInv

\* Recording a trade moves it from the matcher's list to the tape.
LEMMA RecordTradeFacts ==
    ASSUME AInv, RecordTrade
    PROVE  \E h \in TradeRecord :
        /\ h = Head(fills) /\ h = fills[1] /\ h = Made[Len(tape) + 1]
        /\ h.qty > 0 /\ h.qty \in Int /\ Taker(h) = cur
        /\ Len(tape') = Len(tape) + 1 /\ tape' \in Seq(TradeRecord)
        /\ \A i \in 1..Len(tape) : tape'[i] = tape[i]
        /\ tape'[Len(tape) + 1] = h
        /\ Len(fills') = Len(fills) - 1 /\ fills' \in Seq(TradeRecord)
        /\ \A i \in 1..(Len(fills) - 1) : fills'[i] = fills[i + 1]
        /\ Made' = Made
<1>1. /\ cur # 0 /\ cur' = cur /\ objs' = objs /\ book' = book /\ replies' = replies
      /\ fills # <<>> /\ fills' = Tail(fills) /\ tape' = Append(tape, Head(fills))
      /\ exec' = [qty |-> exec.qty + Head(fills).qty, price |-> Head(fills).price]
  BY DEF RecordTrade
<1>2. /\ tape \in Seq(TradeRecord) /\ fills \in Seq(TradeRecord)
      /\ Len(tape) \in Nat /\ Len(fills) \in Nat /\ Len(fills) > 0
      /\ Len(Made) = Len(tape) + Len(fills)
      /\ \A i \in 1..Len(Made) :
            Made[i] = IF i <= Len(tape) THEN tape[i] ELSE fills[i - Len(tape)]
  BY <1>1, MadeFacts, EmptySeq DEF AInv
<1>3. PICK h \in TradeRecord :
        /\ h = Head(fills) /\ h = fills[1] /\ h = Made[Len(tape) + 1]
        /\ h.qty > 0 /\ h.qty \in Int /\ Taker(h) = cur
  <2>1. 1 \in 1..Len(fills) /\ Len(tape) + 1 \in 1..Len(Made) /\ Head(fills) = fills[1]
    BY <1>2
  <2>2. fills[1] = Made[Len(tape) + 1]
    BY <1>2, <2>1
  <2>3. Made[Len(tape) + 1] \in TradeRecord /\ Made[Len(tape) + 1].qty > 0
    BY <2>1, MadeFacts DEF AInv
  <2>4. Taker(fills[1]) = cur
    BY <1>1, <2>1 DEF AInv, ExecutionSums
  <2> QED
    BY <2>1, <2>2, <2>3, <2>4 DEF TradeRecord
<1>4. /\ Len(tape') = Len(tape) + 1 /\ tape' \in Seq(TradeRecord)
      /\ \A i \in 1..Len(tape) : tape'[i] = tape[i]
      /\ tape'[Len(tape) + 1] = h
      /\ Len(fills') = Len(fills) - 1 /\ fills' \in Seq(TradeRecord)
      /\ \A i \in 1..(Len(fills) - 1) : fills'[i] = fills[i + 1]
  BY <1>1, <1>2, <1>3, AppendProperties, HeadTailProperties
<1>5. Made' = Made
  <2>1. /\ Made' \in Seq(TradeRecord) /\ Made \in Seq(TradeRecord)
        /\ Len(Made') = Len(Made)
        /\ \A i \in 1..Len(Made) :
              Made'[i] = IF i <= Len(tape') THEN tape'[i] ELSE fills'[i - Len(tape')]
    <3>1. /\ Made' \in Seq(TradeRecord) /\ Made \in Seq(TradeRecord)
          /\ Len(Made') = Len(tape') + Len(fills')
          /\ \A i \in 1..(Len(tape') + Len(fills')) :
                Made'[i] = IF i <= Len(tape') THEN tape'[i] ELSE fills'[i - Len(tape')]
      <4>1. ASSUME NEW a \in Seq(TradeRecord), NEW b \in Seq(TradeRecord)
            PROVE  /\ a \o b \in Seq(TradeRecord) /\ Len(a \o b) = Len(a) + Len(b)
                   /\ \A i \in 1..(Len(a) + Len(b)) :
                        (a \o b)[i] = IF i <= Len(a) THEN a[i] ELSE b[i - Len(a)]
        BY ConcatProperties
      <4> QED
        BY <1>2, <1>4, <4>1, Zenon DEF Made
    <3>2. Len(tape') + Len(fills') = Len(Made)
      BY <1>2, <1>4
    <3> QED
      BY <3>1, <3>2
  <2>2. ASSUME NEW i \in 1..Len(Made)
        PROVE  Made'[i] = Made[i]
    <3>1. CASE i <= Len(tape)
      <4>1. i \in 1..Len(tape) /\ i <= Len(tape')
        BY <1>2, <1>4, <3>1
      <4> QED
        BY <1>2, <1>4, <2>1, <3>1, <4>1
    <3>2. CASE i = Len(tape) + 1
      BY <1>2, <1>3, <1>4, <2>1, <3>2
    <3>3. CASE i > Len(tape) + 1
      <4>1. i - Len(tape') \in 1..(Len(fills) - 1)
        BY <1>2, <1>4, <3>3
      <4>2. Made'[i] = fills'[i - Len(tape')] /\ Made[i] = fills[i - Len(tape)]
        BY <1>2, <1>4, <2>1, <3>3
      <4>3. fills'[i - Len(tape')] = fills[(i - Len(tape')) + 1]
        BY <1>4, <4>1
      <4>4. (i - Len(tape')) + 1 = i - Len(tape)
        BY <1>2, <1>4
      <4> QED
        BY <4>2, <4>3, <4>4
    <3> QED
      BY <1>2, <3>1, <3>2, <3>3
  <2> QED
    BY <2>1, <2>2, SeqEqual
<1> QED
  BY <1>3, <1>4, <1>5

LEMMA RecordTradeKeepsAInv ==
    ASSUME AInv, IInv', RecordTrade
    PROVE  AInv'
<1>1. /\ cur # 0 /\ cur' = cur /\ objs' = objs /\ book' = book /\ replies' = replies
      /\ fills # <<>> /\ fills' = Tail(fills) /\ tape' = Append(tape, Head(fills))
      /\ exec' = [qty |-> exec.qty + Head(fills).qty, price |-> Head(fills).price]
  BY DEF RecordTrade
<1>2. /\ tape \in Seq(TradeRecord) /\ fills \in Seq(TradeRecord)
      /\ Len(tape) \in Nat /\ Len(fills) \in Nat /\ Len(fills) > 0
      /\ Len(Made) = Len(tape) + Len(fills)
      /\ \A i \in 1..Len(Made) :
            Made[i] = IF i <= Len(tape) THEN tape[i] ELSE fills[i - Len(tape)]
  BY <1>1, MadeFacts, EmptySeq DEF AInv
<1>3. PICK h \in TradeRecord :
        /\ h = Head(fills) /\ h = fills[1] /\ h = Made[Len(tape) + 1]
        /\ h.qty > 0 /\ h.qty \in Int /\ Taker(h) = cur
        /\ Len(tape') = Len(tape) + 1 /\ tape' \in Seq(TradeRecord)
        /\ \A i \in 1..Len(tape) : tape'[i] = tape[i]
        /\ tape'[Len(tape) + 1] = h
        /\ Len(fills') = Len(fills) - 1 /\ fills' \in Seq(TradeRecord)
        /\ \A i \in 1..(Len(fills) - 1) : fills'[i] = fills[i + 1]
        /\ Made' = Made
  BY RecordTradeFacts, Zenon
<1>4. /\ Len(tape') = Len(tape) + 1 /\ tape' \in Seq(TradeRecord)
      /\ \A i \in 1..Len(tape) : tape'[i] = tape[i]
      /\ tape'[Len(tape) + 1] = h
      /\ Len(fills') = Len(fills) - 1 /\ fills' \in Seq(TradeRecord)
      /\ \A i \in 1..(Len(fills) - 1) : fills'[i] = fills[i + 1]
  BY <1>3
<1>5. Made' = Made
  BY <1>3
<1>6. AnsweredOnce'
  BY <1>1 DEF AInv, AnsweredOnce, Orders
<1>7. RepliesTruthful'
  <2>1. Keeps
    BY <1>1, LenProperties DEF Keeps, AInv, IInv, TypeOK
  <2> QED
    BY <1>1, <1>3, <2>1, RepliesTruthfulKept DEF AInv
<1>8. FillsAccounted'
  BY <1>1, <1>5 DEF AInv, FillsAccounted, Orders, Made
<1>9. IdleHandler' /\ PricesWorsen'
  BY <1>1, <1>5 DEF AInv, IdleHandler, PricesWorsen, Makers
<1>10. ExecutionSums'
  <2>1. /\ \A k \in 1..Len(fills) : Taker(fills[k]) = cur
        /\ exec.qty = QtyTaken(tape, cur)
    BY <1>1 DEF AInv, ExecutionSums
  <2>2. \A k \in 1..Len(fills') : Taker(fills'[k]) = cur
    <3>1. ASSUME NEW k \in 1..Len(fills')
          PROVE  k \in 1..(Len(fills) - 1) /\ k + 1 \in 1..Len(fills)
      BY <1>2, <1>4
    <3> QED
      BY <1>4, <2>1, <3>1
  <2>3. exec'.qty = exec.qty + h.qty /\ exec'.price = h.price
    BY <1>1, <1>3
  <2>4. exec'.qty = QtyTaken(tape', cur)
    <3>1. QtyTaken(tape', cur) = QtyTaken(tape, cur) + h.qty
      BY <1>1, <1>2, <1>3, TradeAdds
    <3> QED
      BY <2>1, <2>3, <3>1
  <2>5. exec'.qty # 0
    <3>1. \A i \in 1..Len(tape) : tape[i].qty > 0
      BY MadeFacts DEF AInv
    <3>2. QtyTaken(tape, cur) \in Nat
      BY <1>2, <3>1, TakenNotNegative
    <3> QED
      BY <1>3, <2>1, <2>3, <3>2
  <2>6. ASSUME NEW k \in 1..Len(tape'), Taker(tape'[k]) = cur
        PROVE  ~Better(objs[cur].side, tape'[k].price, exec'.price)
    <3>1. k \in 1..(Len(tape) + 1) /\ Len(tape) + 1 \in 1..Len(Made) /\ k \in 1..Len(Made)
      BY <1>2, <1>4
    <3>2. Made[k] = tape'[k]
      BY <1>2, <1>3, <1>4, <3>1, SMTT(30)
    <3> QED
      BY <1>1, <1>3, <2>3, <2>6, <3>1, <3>2 DEF AInv, PricesWorsen
  <2> QED
    BY <1>1, <2>2, <2>4, <2>5, <2>6 DEF ExecutionSums
<1> QED
  BY <1>6, <1>7, <1>8, <1>9, <1>10 DEF AInv

\* MatchStep once more, with the trade it makes and the list it leaves.
LEMMA MatchStepTrade ==
    ASSUME AInv, MatchStep
    PROVE  \E best \in Orders, q \in Nat \ {0}, t \in TradeRecord :
        /\ cur \in Orders /\ cur # 0 /\ best < cur /\ cur \in Nat /\ best \in Nat
        /\ UNCHANGED <<cur, tape, exec, replies, registry>> /\ Orders' = Orders
        /\ objs[cur] \in Order /\ objs[best] \in Order
        /\ objs[cur].symbol \in Symbols /\ objs[cur].side \in Sides
        /\ Makers = book[objs[cur].symbol][Opposite(objs[cur].side)]
        /\ Makers \in Seq(Orders) /\ Makers # <<>> /\ Makers[1] = best
        /\ Len(Makers) \in Nat \ {0} /\ \A i \in 1..Len(Makers) : Makers[i] \in Orders
        /\ MayRest(best, objs[cur].symbol, Opposite(objs[cur].side))
        /\ objs[cur].type = "LIMIT" => Crosses(objs[cur], objs[best])
        /\ q = Lesser(Remaining(objs[cur]), Remaining(objs[best]))
        /\ Len(objs') = Len(objs) /\ Keeps
        /\ \A n \in Orders \ {best, cur} : objs'[n] = objs[n]
        /\ \A n \in {best, cur} : objs'[n].filled = objs[n].filled + q
        /\ fills' = Append(fills, t) /\ Made' = Append(Made, t)
        /\ {t.buy, t.sell} = {cur, best} /\ Taker(t) = cur
        /\ t.qty = q /\ t.price = objs[best].price
        /\ Makers' = IF FullyFilled(objs'[best]) THEN Tail(Makers) ELSE Makers
<1> DEFINE d0 == objs[cur].side
           e0 == Opposite(d0)
<1>1. PICK best \in Orders, q \in Nat \ {0} :
        /\ cur \in Orders /\ best # cur /\ best < cur
        /\ objs[cur].symbol \in Symbols /\ d0 \in Sides
        /\ book[objs[cur].symbol][e0] # <<>>
        /\ best = book[objs[cur].symbol][e0][1]
        /\ MayRest(best, objs[cur].symbol, e0)
        /\ objs[cur].type = "LIMIT" => Crosses(objs[cur], objs[best])
        /\ q = Lesser(Remaining(objs[cur]), Remaining(objs[best]))
        /\ Len(objs') = Len(objs) /\ Keeps
        /\ \A n \in Orders \ {best, cur} : objs'[n] = objs[n]
        /\ \A n \in {best, cur} : objs'[n].filled = objs[n].filled + q
        /\ fills' = Append(fills, Trade(cur, best, q))
        /\ book' = IF FullyFilled(objs'[best])
                   THEN [book EXCEPT ![objs[cur].symbol][e0] = Tail(@)]
                   ELSE book
  BY MatchStepFacts DEF AInv
<1>2. /\ cur # 0 /\ cur' = cur /\ tape' = tape /\ exec' = exec /\ replies' = replies
      /\ registry' = registry
  BY DEF MatchStep, CanMatch
<1>3. /\ objs[cur] \in Order /\ objs[best] \in Order /\ cur \in Nat /\ best \in Nat
      /\ objs[best].price \in Int /\ objs[cur].symbol \in Names
      /\ objs[best].side = e0 /\ Orders' = Orders
  <2>1. objs[cur] \in Order /\ objs[best] \in Order
    BY <1>1, ElementOfSeq DEF AInv, IInv, TypeOK, Orders
  <2>2. objs[best].price \in Int /\ objs[cur].symbol \in Names
    BY <2>1 DEF Order
  <2>3. cur \in Nat /\ best \in Nat /\ Orders' = Orders
    <3>1. cur \in Orders /\ best \in Orders /\ Len(objs') = Len(objs)
      BY <1>1
    <3> QED
      BY <3>1 DEF Orders
  <2>4. objs[best].side = e0
    BY <1>1 DEF MayRest
  <2> QED
    BY <2>1, <2>2, <2>3, <2>4
<1>4. PICK t \in TradeRecord :
        /\ fills' = Append(fills, t)
        /\ {t.buy, t.sell} = {cur, best} /\ Taker(t) = cur
        /\ t.qty = q /\ t.price = objs[best].price
  <2>1. Trade(cur, best, q) \in TradeRecord
    BY <1>3 DEF Trade, TradeRecord
  <2>2. LET t == Trade(cur, best, q)
        IN  /\ {t.buy, t.sell} = {cur, best} /\ Taker(t) = cur
            /\ t.qty = q /\ t.price = objs[best].price
    <3>1. PICK t : t = Trade(cur, best, q)
      OBVIOUS
    <3>2. /\ \/ t.buy = cur /\ t.sell = best
             \/ t.buy = best /\ t.sell = cur
          /\ t.qty = q /\ t.price = objs[best].price
      BY <3>1 DEF Trade
    <3>3. Taker(t) = cur
      <4>1. best < cur /\ cur \in Nat /\ best \in Nat
        BY <1>1, <1>3
      <4> QED
        BY <3>2, <4>1 DEF Taker
    <3> QED
      BY <3>1, <3>2, <3>3
  <2> QED
    BY <1>1, <2>1, <2>2
<1>5. /\ tape \in Seq(TradeRecord) /\ fills \in Seq(TradeRecord)
      /\ Made \in Seq(TradeRecord) /\ Len(Made) \in Nat /\ Len(fills) \in Nat
  BY MadeFacts, LenProperties DEF AInv
<1>6. Made' = Append(Made, t)
  <2>1. <<t>> \in Seq(TradeRecord) /\ fills' = fills \o <<t>>
    BY <1>4, <1>5
  <2>2. tape \o (fills \o <<t>>) = (tape \o fills) \o <<t>>
    BY <1>5, <2>1, ConcatAssociative
  <2>3. Append(Made, t) = Made \o <<t>>
    BY <1>5
  <2> QED
    BY <1>2, <2>1, <2>2, <2>3, Zenon DEF Made
<1>7. /\ book[objs[cur].symbol][e0] \in Seq(Orders) /\ e0 \in Sides
      /\ Makers = book[objs[cur].symbol][e0] /\ Len(Makers) \in Nat \ {0}
      /\ Makers[1] = best
      /\ \A i \in 1..Len(Makers) : Makers[i] \in Orders
  <2>1. e0 \in Sides
    BY <1>1 DEF Opposite, Sides
  <2>2. book[objs[cur].symbol][e0] \in Seq(Orders)
    BY <1>1, <2>1 DEF AInv, IInv, TypeOK
  <2>3. Makers = book[objs[cur].symbol][e0]
    BY DEF Makers
  <2>4. Len(Makers) \in Nat \ {0}
    BY <1>1, <2>2, <2>3, EmptySeq
  <2> QED
    BY <1>1, <2>1, <2>2, <2>3, <2>4, ElementOfSeq
<1>8. Makers' = IF FullyFilled(objs'[best]) THEN Tail(Makers) ELSE Makers
  <2>1. Makers' = book'[objs[cur].symbol][e0]
    BY <1>1, <1>2 DEF Makers, Keeps
  <2>2. CASE FullyFilled(objs'[best])
    <3>1. book' = [book EXCEPT ![objs[cur].symbol][e0] = Tail(@)]
      BY <1>1, <2>2
    <3>2. book \in [Symbols -> [Sides -> Seq(Orders)]]
      BY DEF AInv, IInv, TypeOK
    <3>3. [book EXCEPT ![objs[cur].symbol][e0] = Tail(@)][objs[cur].symbol][e0]
             = Tail(book[objs[cur].symbol][e0])
      BY <1>1, <1>7, <3>2
    <3> QED
      BY <1>7, <2>1, <2>2, <3>1, <3>3
  <2>3. CASE ~FullyFilled(objs'[best])
    BY <1>1, <1>7, <2>1, <2>3
  <2> QED
    BY <2>2, <2>3
<1> HIDE DEF Made
<1> QED
  BY <1>1, <1>2, <1>3, <1>4, <1>6, <1>7, <1>8

\* A trade adds its quantity to both of its orders, at a price no better than
\* those cur traded at before and no worse than those still in the book.
LEMMA MatchStepKeepsAInv ==
    ASSUME AInv, IInv', MatchStep
    PROVE  AInv'
<1> DEFINE d0 == objs[cur].side
           e0 == Opposite(d0)
<1>1. PICK best \in Orders, q \in Nat \ {0}, t \in TradeRecord :
        /\ cur \in Orders /\ cur # 0 /\ best < cur /\ cur \in Nat /\ best \in Nat
        /\ UNCHANGED <<cur, tape, exec, replies, registry>> /\ Orders' = Orders
        /\ objs[cur] \in Order /\ objs[best] \in Order
        /\ objs[cur].symbol \in Symbols /\ objs[cur].side \in Sides
        /\ Makers = book[objs[cur].symbol][Opposite(objs[cur].side)]
        /\ Makers \in Seq(Orders) /\ Makers # <<>> /\ Makers[1] = best
        /\ Len(Makers) \in Nat \ {0} /\ \A i \in 1..Len(Makers) : Makers[i] \in Orders
        /\ MayRest(best, objs[cur].symbol, Opposite(objs[cur].side))
        /\ objs[cur].type = "LIMIT" => Crosses(objs[cur], objs[best])
        /\ q = Lesser(Remaining(objs[cur]), Remaining(objs[best]))
        /\ Len(objs') = Len(objs) /\ Keeps
        /\ \A n \in Orders \ {best, cur} : objs'[n] = objs[n]
        /\ \A n \in {best, cur} : objs'[n].filled = objs[n].filled + q
        /\ fills' = Append(fills, t) /\ Made' = Append(Made, t)
        /\ {t.buy, t.sell} = {cur, best} /\ Taker(t) = cur
        /\ t.qty = q /\ t.price = objs[best].price
        /\ Makers' = IF FullyFilled(objs'[best]) THEN Tail(Makers) ELSE Makers
  BY MatchStepTrade, Zenon
<1>2. /\ cur # 0 /\ cur' = cur /\ tape' = tape /\ exec' = exec /\ replies' = replies
  BY <1>1
<1>3. /\ objs[cur] \in Order /\ objs[best] \in Order /\ cur \in Nat /\ best \in Nat
      /\ objs[best].price \in Int /\ objs[cur].symbol \in Names
      /\ objs[best].side = e0 /\ Orders' = Orders
  BY <1>1 DEF Order, MayRest
<1>4. /\ fills' = Append(fills, t)
      /\ {t.buy, t.sell} = {cur, best} /\ Taker(t) = cur
      /\ t.qty = q /\ t.price = objs[best].price
  BY <1>1
<1>5. /\ tape \in Seq(TradeRecord) /\ fills \in Seq(TradeRecord)
      /\ Made \in Seq(TradeRecord) /\ Len(Made) \in Nat /\ Len(fills) \in Nat
  BY MadeFacts, LenProperties DEF AInv
<1>6. Made' = Append(Made, t)
  BY <1>1
<1> HIDE DEF Made
<1>7. /\ Len(Made') = Len(Made) + 1 /\ Made'[Len(Made) + 1] = t
      /\ \A i \in 1..Len(Made) : Made'[i] = Made[i]
      /\ Len(fills') = Len(fills) + 1 /\ fills'[Len(fills) + 1] = t
      /\ \A i \in 1..Len(fills) : fills'[i] = fills[i]
  BY <1>4, <1>5, <1>6, AppendProperties
<1>8. AnsweredOnce'
  BY <1>1, <1>2, AnsweredOnceKept DEF AInv, AnswerStep
<1>9. RepliesTruthful'
  BY <1>1, <1>2, RepliesTruthfulKept DEF AInv
<1>10. FillsAccounted'
  <2> SUFFICES ASSUME NEW n \in Orders
               PROVE  objs'[n].filled = QtyTraded(Made', n)
    BY <1>3 DEF FillsAccounted, Made
  <2>1. objs[n].filled = QtyTraded(Made, n)
    BY DEF AInv, FillsAccounted, Made
  <2>2. /\ QtyTraded(Made, n) \in Int
        /\ QtyTraded(Made', n) =
             QtyTraded(Made, n) + IF n \in {t.buy, t.sell} THEN t.qty ELSE 0
    BY <1>5, <1>6, TradeAdds
  <2>3. CASE n \in {cur, best}
    <3>1. objs'[n].filled = objs[n].filled + q /\ n \in {t.buy, t.sell} /\ t.qty = q
      BY <1>1, <1>4, <2>3
    <3> QED
      BY <2>1, <2>2, <3>1, Zenon
  <2>4. CASE n \notin {cur, best}
    <3>1. objs'[n].filled = objs[n].filled /\ n \notin {t.buy, t.sell}
      BY <1>1, <1>4, <2>4
    <3>2. QtyTraded(Made', n) = QtyTraded(Made, n) + 0
      BY <2>2, <3>1
    <3> QED
      BY <2>1, <2>2, <3>1, <3>2
  <2> QED
    BY <2>3, <2>4
<1>11. IdleHandler'
  BY <1>2 DEF IdleHandler
<1>12. ExecutionSums'
  <2>1. \A k \in 1..Len(fills') : Taker(fills'[k]) = cur
    <3>1. \A k \in 1..Len(fills) : Taker(fills[k]) = cur
      BY <1>2 DEF AInv, ExecutionSums
    <3>2. ASSUME NEW k \in 1..Len(fills')
          PROVE  k \in 1..Len(fills) \/ k = Len(fills) + 1
      BY <1>5, <1>7
    <3> QED
      BY <1>4, <1>7, <3>1, <3>2
  <2>2. objs'[cur].side = d0
    BY <1>1 DEF Keeps
  <2> QED
    BY <1>2, <2>1, <2>2 DEF AInv, ExecutionSums
<1>13. /\ book[objs[cur].symbol][e0] \in Seq(Orders) /\ e0 \in Sides
       /\ Makers = book[objs[cur].symbol][e0] /\ Len(Makers) \in Nat \ {0}
       /\ Makers[1] = best
       /\ \A i \in 1..Len(Makers) : Makers[i] \in Orders
  BY <1>1, Zenon DEF Opposite, Sides
\* The lists lose their head, if anything.
<1>14. ASSUME NEW i \in 1..Len(Makers')
       PROVE  \E k \in 1..Len(Makers) : Makers'[i] = Makers[k]
  <2>1. CASE Makers' = Makers
    BY <1>13, <1>14, <2>1
  <2>2. CASE Makers' = Tail(Makers)
    <3>1. Makers \in Seq(Orders) /\ Makers # <<>>
      BY <1>1
    <3>2. Len(Tail(Makers)) = Len(Makers) - 1 /\ Tail(Makers)[i] = Makers[i + 1]
      BY <1>14, <2>2, <3>1, HeadTailProperties
    <3>3. i + 1 \in 1..Len(Makers)
      BY <1>13, <1>14, <2>2, <3>2
    <3> QED
      BY <2>2, <3>2, <3>3
  <2> QED
    BY <1>1, <2>1, <2>2
\* The maker is the best of them.
<1>15. ASSUME NEW k \in 1..Len(Makers)
       PROVE  ~Better(e0, objs[Makers[k]].price, objs[best].price)
  <2>1. /\ objs[Makers[k]] \in Order /\ objs[Makers[k]].side = e0
    <3>1. Makers[k] \in Orders
      BY <1>13
    <3>2. MayRest(Makers[k], objs[cur].symbol, e0)
      BY <1>1, <1>13 DEF AInv, IInv, EntriesLive
    <3> QED
      BY <3>1, <3>2, ElementOfSeq DEF AInv, IInv, TypeOK, Orders, MayRest
  <2>2. CASE k = 1
    BY <1>3, <1>13, <2>2 DEF Better
  <2>3. CASE k > 1
    <3>1. 1 \in 1..Len(Makers)
      BY <1>13
    <3>2. ~Before(Makers[k], best)
      <4>1. PriceTimeOrder /\ objs[cur].symbol \in Symbols
        BY <1>1, Zenon DEF AInv, IInv
      <4>2. \A i, j \in 1..Len(Makers) : i < j => ~Before(Makers[j], Makers[i])
        BY <1>13, <4>1, Zenon DEF PriceTimeOrder
      <4> QED
        BY <1>13, <2>3, <3>1, <4>2
    <3> QED
      BY <2>1, <3>2 DEF Before
  <2> QED
    BY <1>13, <2>2, <2>3, SMTT(30)
<1>16. objs'[cur].side = d0
  BY <1>1 DEF Keeps
<1>17. PricesWorsen'
  <2> SUFFICES ASSUME NEW k \in 1..Len(Made'), Taker(Made'[k]) = cur
               PROVE  /\ \A j \in 1..k : Taker(Made'[j]) = cur =>
                           ~Better(d0, Made'[j].price, Made'[k].price)
                      /\ \A i \in 1..Len(Makers') :
                           ~Better(e0, objs'[Makers'[i]].price, Made'[k].price)
    BY <1>2, <1>16, Zenon DEF PricesWorsen
  <2>1. \A i \in 1..Len(Makers') : \E j \in 1..Len(Makers) :
           Makers'[i] = Makers[j] /\ objs'[Makers'[i]].price = objs[Makers[j]].price
    <3>1. \A j \in 1..Len(Makers) : objs'[Makers[j]].price = objs[Makers[j]].price
      BY <1>1, <1>13 DEF Keeps
    <3> QED
      BY <1>14, <3>1
  <2>2. \A m \in 1..Len(Made) : Taker(Made[m]) = cur =>
          /\ \A j \in 1..m :
                Taker(Made[j]) = cur => ~Better(d0, Made[j].price, Made[m].price)
          /\ \A i \in 1..Len(Makers) : ~Better(e0, objs[Makers[i]].price, Made[m].price)
    BY <1>2 DEF AInv, PricesWorsen
  <2>3. CASE k \in 1..Len(Made)
    <3>1. \A j \in 1..k : j \in 1..Len(Made)
      BY <1>5, <2>3
    <3>2. Made'[k] = Made[k] /\ \A j \in 1..k : Made'[j] = Made[j]
      BY <1>7, <2>3, <3>1
    <3>3. Taker(Made[k]) = cur
      BY <3>2
    <3>4. /\ \A j \in 1..k :
                Taker(Made[j]) = cur => ~Better(d0, Made[j].price, Made[k].price)
          /\ \A i \in 1..Len(Makers) : ~Better(e0, objs[Makers[i]].price, Made[k].price)
      BY <2>2, <2>3, <3>3
    <3> QED
      BY <2>1, <3>2, <3>4
  <2>4. CASE k = Len(Made) + 1
    <3>1. Made'[k].price = objs[best].price
      BY <1>4, <1>7, <2>4
    <3>2. ASSUME NEW j \in 1..k, Taker(Made'[j]) = cur
          PROVE  ~Better(d0, Made'[j].price, objs[best].price)
      <4>1. CASE j = k
        BY <1>3, <3>1, <4>1 DEF Better
      <4>2. CASE j \in 1..Len(Made)
        <5>1. Made'[j] = Made[j] /\ Taker(Made[j]) = cur
          BY <1>7, <3>2, <4>2
        <5>2. 1 \in 1..Len(Makers)
          BY <1>13
        <5>3. ~Better(e0, objs[best].price, Made[j].price)
          BY <1>13, <2>2, <4>2, <5>1, <5>2
        <5>4. Made[j].price \in Int
          <6>1. Made[j] \in TradeRecord
            BY <1>5, <4>2, ElementOfSeq
          <6> QED
            BY <6>1 DEF TradeRecord
        <5> QED
          BY <1>1, <1>3, <5>1, <5>3, <5>4 DEF Better, Opposite, Sides
      <4> QED
        BY <1>5, <2>4, <4>1, <4>2
    <3> QED
      BY <1>15, <2>1, <3>1, <3>2
  <2>5. k \in 1..Len(Made) \/ k = Len(Made) + 1
    BY <1>5, <1>7
  <2> QED
    BY <2>3, <2>4, <2>5, Zenon
<1> QED
  BY <1>8, <1>9, <1>10, <1>11, <1>12, <1>17 DEF AInv

LEMMA InitEstablishesAInv == Init => AInv
<1> SUFFICES ASSUME Init
             PROVE  AInv
  OBVIOUS
<1>1. IInv
  BY InitEstablishesIInv
<1>2. Orders = {} /\ Len(replies) = 0 /\ cur = 0
  BY DEF Init, Orders
<1>3. AnsweredOnce
  <2>1. 1..Len(replies) = {}
    BY <1>2
  <2> QED
    BY <1>2, <2>1 DEF AnsweredOnce
<1> QED
  BY <1>1, <1>2, <1>3 DEF AInv, FillsAccounted, RepliesTruthful, IdleHandler,
                          ExecutionSums, PricesWorsen, Init

LEMMA NextKeepsAInv == AInv /\ [Next]_vars => AInv'
<1> SUFFICES ASSUME AInv, [Next]_vars
             PROVE  AInv'
  OBVIOUS
<1>1. IInv'
  BY NextKeepsIInv DEF AInv
<1>2. CASE RejectUnparsed
  BY <1>1, <1>2, RejectUnparsedKeepsAInv
<1>3. ASSUME NEW m \in Messages, RejectInvalid(m)
      PROVE  AInv'
  <2>1. "REJECTED" \in Statuses
    BY DEF Statuses
  <2> QED
    BY <1>1, <1>3, <2>1, ParsedKeepsAInv DEF RejectInvalid
<1>4. ASSUME NEW m \in Messages, Accept(m)
      PROVE  AInv'
  <2>1. "PENDING" \in Statuses
    BY DEF Statuses
  <2> QED
    BY <1>1, <1>4, <2>1, ParsedKeepsAInv DEF Accept
<1>5. CASE MatchStep
  BY <1>1, <1>5, MatchStepKeepsAInv
<1>6. CASE RecordTrade
  BY <1>1, <1>6, RecordTradeKeepsAInv
<1>7. CASE FinishMarket
  <2>1. /\ exec.qty \in Int /\ 0 <= exec.qty /\ exec.qty <= objs[cur].qty
        /\ 0 < objs[cur].qty /\ objs[cur].qty \in Int
    BY <1>7, ExecutionIsFill DEF FinishMarket, Respond, Order
  <2>2. PICK status \in Statuses :
          /\ status = IF exec.qty = 0 THEN "REJECTED"
                      ELSE IF exec.qty < objs[cur].qty THEN "PARTIALLY_FILLED" ELSE "FILLED"
          /\ Respond(status) /\ objs[cur].type = "MARKET"
    BY <1>7 DEF FinishMarket, Statuses
  <2>3. /\ status = "FILLED" <=> exec.qty = objs[cur].qty
        /\ status = "PARTIALLY_FILLED" <=> 0 < exec.qty /\ exec.qty < objs[cur].qty
        /\ status = "PENDING" <=> exec.qty = 0 /\ objs[cur].type = "LIMIT"
    BY <2>1, <2>2
  <2> QED
    BY <1>1, <2>2, <2>3, RespondKeepsAInv
<1>8. CASE FinishFilledLimit
  <2>1. /\ exec.qty \in Int /\ 0 <= exec.qty /\ exec.qty <= objs[cur].qty
        /\ 0 < objs[cur].qty /\ objs[cur].qty \in Int /\ exec.qty >= objs[cur].qty
    BY <1>8, ExecutionIsFill DEF FinishFilledLimit, Respond, Order, FullyFilled
  <2>2. "FILLED" \in Statuses /\ Respond("FILLED")
    BY <1>8 DEF FinishFilledLimit, Statuses
  <2>3. exec.qty = objs[cur].qty /\ exec.qty # 0
    BY <2>1
  <2> QED
    BY <1>1, <2>1, <2>2, <2>3, RespondKeepsAInv
<1>9. CASE RestLimit
  <2>1. /\ exec.qty \in Int /\ 0 <= exec.qty /\ exec.qty < objs[cur].qty
        /\ objs[cur].qty \in Int
    BY <1>9, ExecutionIsFill DEF RestLimit, Respond, Order, FullyFilled
  <2>2. PICK status \in Statuses :
          /\ status = IF exec.qty > 0 THEN "PARTIALLY_FILLED" ELSE "PENDING"
          /\ Respond(status) /\ objs[cur].type = "LIMIT"
    BY <1>9 DEF RestLimit, Statuses
  <2>3. /\ status = "FILLED" <=> exec.qty = objs[cur].qty
        /\ status = "PARTIALLY_FILLED" <=> 0 < exec.qty /\ exec.qty < objs[cur].qty
        /\ status = "PENDING" <=> exec.qty = 0 /\ objs[cur].type = "LIMIT"
    BY <2>1, <2>2
  <2> QED
    BY <1>1, <2>2, <2>3, RespondKeepsAInv
<1>10. CASE UNCHANGED vars
  <2>1. /\ objs' = objs /\ book' = book /\ tape' = tape
        /\ cur' = cur /\ fills' = fills /\ exec' = exec /\ replies' = replies
    BY <1>10 DEF vars
  <2>2. Keeps
    BY <2>1, LenProperties DEF Keeps, AInv, IInv, TypeOK
  <2>3. AnsweredOnce'
    BY <2>1, AnsweredOnceKept DEF AInv, AnswerStep
  <2>4. RepliesTruthful'
    BY <2>1, <2>2, RepliesTruthfulKept DEF AInv
  <2>5. FillsAccounted' /\ IdleHandler' /\ ExecutionSums' /\ PricesWorsen'
    BY <2>1 DEF AInv, FillsAccounted, IdleHandler, ExecutionSums, PricesWorsen,
                Orders, Makers, Made
  <2> QED
    BY <1>1, <2>3, <2>4, <2>5 DEF AInv
<1> QED
  BY <1>2, <1>3, <1>4, <1>5, <1>6, <1>7, <1>8, <1>9, <1>10 DEF Next

\* The sums of the handler, the trades and the responses agree (AInv).
THEOREM AccountsKept == Spec => []AInv
<1>1. Init => AInv
  BY InitEstablishesAInv
<1>2. AInv /\ [Next]_vars => AInv'
  BY NextKeepsAInv
<1> QED
  BY <1>1, <1>2, PTL DEF Spec

\* What an order has filled is what the trades that name it add up to.
THEOREM QuantityConserved == Spec => []FillsAccounted
<1>1. AInv => FillsAccounted
  BY DEF AInv
<1> QED
  BY <1>1, AccountsKept, PTL

\* Each response tells the truth about what its order traded.
THEOREM AnswersTrue == Spec => []RepliesTruthful
<1>1. AInv => RepliesTruthful
  BY DEF AInv
<1> QED
  BY <1>1, AccountsKept, PTL

\* Each order is answered once, in order of arrival.
THEOREM OneAnswerEach == Spec => []AnsweredOnce
<1>1. AInv => AnsweredOnce
  BY DEF AInv
<1> QED
  BY <1>1, AccountsKept, PTL

-----------------------------------------------------------------------------
(* append and list.sort are the insertion of the model.                    *)

\* Sorting a sorted list with n appended: n goes to the place p behind all that
\* it does not sort before, and the others keep their order.
LEMMA StableSortOfAppend ==
    ASSUME objs \in Seq(Order), NEW list \in Seq(Orders), NEW n \in Orders,
           \A i \in 1..Len(list) : objs[list[i]].side = objs[n].side,
           \A i, j \in 1..Len(list) : i < j => ~Before(list[j], list[i]),
           NEW p \in 1..(Len(list) + 1),
           \A i \in 1..(p - 1) : ~Before(n, list[i]),
           \A i \in p..Len(list) : Before(n, list[i]),
           NEW new \in Seq(Orders), Len(new) = Len(list) + 1,
           \A i \in 1..(Len(list) + 1) :
              new[i] = IF i < p THEN list[i] ELSE IF i = p THEN n ELSE list[i - 1]
    PROVE  StableSort(Append(list, n)) = new
<1>1. PICK L \in Nat : L = Len(list) /\ p \in 1..(L + 1) /\ p \in Nat
  BY LenProperties
<1>2. PICK l \in Seq(Orders) :
        /\ l = Append(list, n) /\ Len(l) = L + 1 /\ l[L + 1] = n
        /\ \A i \in 1..L : l[i] = list[i] /\ list[i] \in Orders
  <2>1. /\ Append(list, n) \in Seq(Orders) /\ Len(Append(list, n)) = L + 1
        /\ Append(list, n)[L + 1] = n
        /\ \A i \in 1..L : Append(list, n)[i] = list[i]
    BY <1>1, AppendProperties
  <2>2. \A i \in 1..L : list[i] \in Orders
    BY <1>1, ElementOfSeq
  <2> QED
    BY <2>1, <2>2
<1> DEFINE precedes(i, j) == \/ Before(l[i], l[j])
                             \/ ~Before(l[j], l[i]) /\ i < j
           R == {q \in (1..(L + 1)) \X (1..(L + 1)) : precedes(q[1], q[2])}
\* An order never sorts before itself; n before no one that is ahead of p.
<1>3. ~Before(n, n)
  <2>1. n \in 1..Len(objs) /\ objs[n].side = objs[n].side
    BY DEF Orders
  <2> QED
    BY <2>1, BeforeIsWeakOrder
<1>4. ASSUME NEW i \in p..L
      PROVE  ~Before(list[i], n)
  <2>1. /\ list[i] \in 1..Len(objs) /\ n \in 1..Len(objs)
        /\ objs[list[i]].side = objs[n].side /\ Before(n, list[i])
    <3>1. i \in 1..L /\ i \in p..Len(list)
      BY <1>1
    <3> QED
      BY <1>1, <1>2, <3>1 DEF Orders
  <2> QED
    BY <2>1, BeforeIsWeakOrder
<1>5. ASSUME NEW i \in 1..L
      PROVE  /\ \A j \in 1..L : precedes(j, i) <=> j < i
             /\ precedes(L + 1, i) <=> p <= i
             /\ precedes(i, L + 1) <=> i < p
  <2>1. ASSUME NEW j \in 1..L
        PROVE  precedes(j, i) <=> j < i
    <3>1. CASE j < i
      BY <1>1, <1>2, <3>1
    <3>2. CASE i < j
      BY <1>1, <1>2, <3>2
    <3>3. CASE i = j
      <4>1. ~Before(list[i], list[i])
        <5>1. list[i] \in 1..Len(objs) /\ objs[list[i]].side = objs[list[i]].side
          BY <1>2 DEF Orders
        <5> QED
          BY <5>1, BeforeIsWeakOrder
      <4> QED
        BY <1>2, <3>3, <4>1
    <3> QED
      BY <3>1, <3>2, <3>3
  <2>2. CASE p <= i
    <3>1. i \in p..Len(list) /\ i \in p..L
      BY <1>1, <2>2
    <3>2. Before(n, list[i]) /\ ~Before(list[i], n)
      BY <1>4, <3>1
    <3> QED
      BY <1>2, <2>1, <2>2, <3>2
  <2>3. CASE i < p
    <3>1. i \in 1..(p - 1)
      BY <2>3
    <3>2. ~Before(n, list[i])
      BY <3>1
    <3>3. i < L + 1 /\ ~(L + 1 < i)
      BY <1>1
    <3> QED
      BY <1>2, <2>1, <2>3, <3>2, <3>3
  <2> QED
    BY <2>2, <2>3
<1>6. ~precedes(L + 1, L + 1)
  BY <1>2, <1>3
<1>7. LastGoesTo(R, L, p)
  <2>1. L + 1 \in 1..(L + 1) /\ \A i \in 1..L : i \in 1..(L + 1)
    BY <1>1
  <2>2. \A i, j \in 1..(L + 1) : <<i, j>> \in R <=> precedes(i, j)
    OBVIOUS
  <2> HIDE DEF R, precedes
  <2> QED
    BY <1>5, <1>6, <2>1, <2>2 DEF LastGoesTo
<1>8. ASSUME NEW k \in 1..(L + 1)
      PROVE  l[StableRank(l, k)] = new[k]
  <2>1. PICK r \in 1..(L + 1) : r = IF k < p THEN k ELSE IF k = p THEN L + 1 ELSE k - 1
    BY <1>1
  <2>2. \A i \in 1..(L + 1) : Cardinality(Ahead(R, L + 1, i)) = k - 1 <=> i = r
    <3> HIDE DEF R
    <3> QED
      BY <1>1, <1>7, <2>1, RankOfLast, SMTT(30)
  <2>3. \A i \in 1..(L + 1) : Ahead(R, L + 1, i) = {j \in 1..(L + 1) : precedes(j, i)}
    BY DEF Ahead
  <2>4. StableRank(l, k) = CHOOSE i \in 1..(L + 1) :
                             Cardinality({j \in 1..(L + 1) : precedes(j, i)}) = k - 1
    BY <1>2 DEF StableRank
  <2> HIDE DEF R, precedes
  <2>5. StableRank(l, k) = r
    BY <2>1, <2>2, <2>3, <2>4
  <2>6. l[r] = IF k < p THEN list[k] ELSE IF k = p THEN n ELSE list[k - 1]
    BY <1>1, <1>2, <2>1
  <2> QED
    BY <1>1, <2>5, <2>6
<1>9. new = [k \in 1..(L + 1) |-> new[k]]
  BY <1>1, LenProperties
<1>10. StableSort(l) = [k \in 1..(L + 1) |-> new[k]]
  BY <1>2, <1>8 DEF StableSort
<1> QED
  BY <1>2, <1>9, <1>10

\* The two ways a list of the book changes: pop of a fully filled order, or
\* append and sort of the whole list.
THEOREM BooksPopOrSort == Spec => ListSteps
<1> DEFINE Step ==
             \A s \in Symbols, d \in Sides :
               book'[s][d] # book[s][d] =>
                 \/ /\ book[s][d] # <<>>
                    /\ book'[s][d] = Tail(book[s][d])
                    /\ FullyFilled(objs'[Head(book[s][d])])
                 \/ book'[s][d] = StableSort(Append(book[s][d], cur))
<1>1. IInv /\ [Next]_vars => [Step]_vars
  <2> SUFFICES ASSUME IInv, Next, NEW s \in Symbols, NEW d \in Sides,
                      book'[s][d] # book[s][d]
               PROVE  \/ /\ book[s][d] # <<>>
                         /\ book'[s][d] = Tail(book[s][d])
                         /\ FullyFilled(objs'[Head(book[s][d])])
                      \/ book'[s][d] = StableSort(Append(book[s][d], cur))
    BY DEF vars
  <2>0. book \in [Symbols -> [Sides -> Seq(Orders)]]
    BY DEF IInv, TypeOK
  <2>1. CASE MatchStep
    <3> DEFINE s0 == objs[cur].symbol
               e0 == Opposite(objs[cur].side)
    <3>1. PICK best \in Orders :
            /\ s0 \in Symbols /\ objs[cur].side \in Sides
            /\ book[s0][e0] # <<>> /\ best = book[s0][e0][1]
            /\ book' = IF FullyFilled(objs'[best])
                       THEN [book EXCEPT ![s0][e0] = Tail(@)] ELSE book
      BY <2>1, MatchStepFacts
    <3>2. e0 \in Sides
      BY <3>1 DEF Opposite, Sides
    <3> HIDE DEF s0, e0
    <3>3. FullyFilled(objs'[best]) /\ book' = [book EXCEPT ![s0][e0] = Tail(@)]
      BY <3>1
    <3>4. s = s0 /\ d = e0 /\ book'[s][d] = Tail(book[s][d])
      BY <2>0, <3>2, <3>1, <3>3
    <3>5. Head(book[s][d]) = best
      BY <2>0, <3>1, <3>4
    <3> QED
      BY <3>1, <3>3, <3>4, <3>5
  <2>2. CASE RestLimit
    <3> DEFINE s0 == objs[cur].symbol
               d0 == objs[cur].side
               list == book[s0][d0]
               new == Insert(list, cur)
    <3>1. /\ cur \in Orders /\ s0 \in Symbols /\ d0 \in Sides
          /\ list \in Seq(Orders) /\ new \in Seq(Orders) /\ Len(new) = Len(list) + 1
      BY <2>2, RestLimitFacts, SMTT(30)
    <3>2. PICK p \in 1..(Len(list) + 1) :
            /\ \A i \in 1..(p - 1) : ~Before(cur, list[i])
            /\ \A i \in p..Len(list) : Before(cur, list[i])
            /\ \A i \in 1..(Len(list) + 1) :
                 new[i] = IF i < p THEN list[i] ELSE IF i = p THEN cur ELSE list[i - 1]
      BY <2>2, RestLimitFacts
    <3>3. book' = [book EXCEPT ![s0][d0] = new]
      BY <2>2 DEF RestLimit
    <3>4. /\ objs \in Seq(Order)
          /\ \A i \in 1..Len(list) : objs[list[i]].side = d0
          /\ \A i, j \in 1..Len(list) : i < j => ~Before(list[j], list[i])
      <4>1. objs \in Seq(Order) /\ EntriesLive /\ PriceTimeOrder
        BY DEF IInv, TypeOK
      <4>2. \A i \in 1..Len(list) : MayRest(list[i], s0, d0)
        BY <3>1, <4>1, Zenon DEF EntriesLive
      <4>3. \A i, j \in 1..Len(list) : i < j => ~Before(list[j], list[i])
        BY <3>1, <4>1, Zenon DEF PriceTimeOrder
      <4> QED
        BY <4>1, <4>2, <4>3 DEF MayRest
    <3> HIDE DEF list, new
    <3>5. StableSort(Append(list, cur)) = new
      BY <3>1, <3>2, <3>4, StableSortOfAppend
    <3> HIDE DEF s0, d0
    <3>6. s = s0 /\ d = d0 /\ book'[s][d] = new
      BY <2>0, <3>1, <3>3
    <3> QED
      BY <3>5, <3>6 DEF list
  <2>3. CASE ~MatchStep /\ ~RestLimit
    BY <2>3 DEF Next, RejectUnparsed, RejectInvalid, Accept, RecordTrade, FinishMarket,
                FinishFilledLimit
  <2> QED
    BY <2>1, <2>2, <2>3
<1>2. [][Step]_vars => ListSteps
  BY PTL DEF ListSteps
<1> HIDE DEF Step
<1> QED
  BY <1>1, <1>2, Invariance, PTL DEF Spec
=============================================================================

------------------------------ MODULE Matching ------------------------------
(***************************************************************************)
(* The order handler of the exchange server with its order books: what    *)
(* OrderHandler.handle_order (handler.py), OrderMatcher (matcher.py) and   *)
(* ExchangeState / OrderBook (order_book.py) do with one request after     *)
(* another.  One request at a time is what AsyncHFTPServer runs (the       *)
(* handler has no await) and what HFTPServer runs with one connection;     *)
(* module ThreadedExchange lets two handler threads interleave.            *)
(*                                                                         *)
(* An Order object is named by its arrival number, its place in `objs`,    *)
(* and not by the client's order_id, which several orders may share.  The  *)
(* bid and the ask branch of every method are mirror images: they are one  *)
(* definition over Sides.  A price is an integer tick: the code compares   *)
(* prices, copies them and never computes with them.                       *)
(***************************************************************************)
EXTENDS Integers, Sequences, SequencesExt

CONSTANTS
    Symbols,        \* the symbols the exchange has an order book for
    Names,          \* the symbols a request may carry
    OrderIds,       \* the order_id strings a request may carry
    Messages,       \* the requests that parse: what a client may send
    MinOrderSize,   \* order_book.min_order_size of server_settings.json
    MaxOrderSize,   \* order_book.max_order_size of server_settings.json
    MaxRequests     \* bound of the model: requests handled in a behaviour

Sides == {"BUY", "SELL"}
OrderTypes == {"MARKET", "LIMIT"}
Statuses == {"PENDING", "PARTIALLY_FILLED", "FILLED", "REJECTED"}

\* The seven fields of a request that parse_order accepts.
Message == [id : OrderIds, ts : Int, symbol : Names, side : Sides,
            price : Int, qty : Int, type : OrderTypes]

ASSUME MessagesAssumption == Messages \subseteq Message
ASSUME SymbolsAssumption == Symbols \subseteq Names
ASSUME SizesAssumption == MinOrderSize \in Nat \ {0} /\ MaxOrderSize \in Nat
ASSUME BoundAssumption == MaxRequests \in Nat

VARIABLES
    objs,       \* the Order objects ever parsed, in order of arrival
    book,       \* book[s][side]: OrderBook.bids / asks of s, arrival numbers
    registry,   \* ExchangeState.orders: order_id -> arrival number, 0 if none
    tape,       \* ExchangeState.trades
    cur,        \* the order inside _execute_order, 0 between two requests
    fills,      \* the matcher's list `trades` for cur, not yet on the tape
    exec,       \* exec_qty and exec_price of _execute_order, so far
    replies     \* the responses returned by handle_order, in order

vars == <<objs, book, registry, tape, cur, fills, exec, replies>>

-----------------------------------------------------------------------------
(* Order: the dataclass and its methods.                                   *)

Order == [id : OrderIds, ts : Int, symbol : Names, side : Sides,
          price : Int, qty : Int, type : OrderTypes,
          filled : Int, status : Statuses]

NewOrder(m, status) ==
    [id |-> m.id, ts |-> m.ts, symbol |-> m.symbol, side |-> m.side,
     price |-> m.price, qty |-> m.qty, type |-> m.type,
     filled |-> 0, status |-> status]

Remaining(o) == o.qty - o.filled

FullyFilled(o) == o.filled >= o.qty

\* Mutant: filled_qty = qty instead of +=.
SetFill(o, q) == [o EXCEPT !.filled = q,
                           !.status = IF q >= o.qty THEN "FILLED"
                                      ELSE "PARTIALLY_FILLED"]

Fill(o, q) ==
    [o EXCEPT !.filled = o.filled + q,
              !.status = IF o.filled + q >= o.qty
                         THEN "FILLED" ELSE "PARTIALLY_FILLED"]

-----------------------------------------------------------------------------
(* OrderBook: the two sorted lists of a symbol.                            *)

Opposite(side) == IF side = "BUY" THEN "SELL" ELSE "BUY"

\* Price p is strictly better than q for whoever trades against this side.
Better(side, p, q) == IF side = "BUY" THEN p > q ELSE p < q

\* Mutant: the sort key lost its timestamp.
BetterOnly(a, b) == Better(objs[a].side, objs[a].price, objs[b].price)

\* a sorts before b under the key (-price, timestamp) or (price, timestamp).
Before(a, b) ==
    \/ Better(objs[a].side, objs[a].price, objs[b].price)
    \/ objs[a].price = objs[b].price /\ objs[a].ts < objs[b].ts

\* Mutants: appended and not sorted; put in front of the orders it ties with.
LastPosition(list, n) == Len(list) + 1

FrontOfTies(list, n) ==
    CHOOSE p \in 1..(Len(list) + 1) :
        /\ \A i \in 1..(p - 1) : Before(list[i], n)
        /\ \A i \in p..Len(list) : ~Before(list[i], n)

\* append and a stable sort of a list that was sorted: n goes behind every
\* order it does not sort before.
InsertPosition(list, n) ==
    CHOOSE p \in 1..(Len(list) + 1) :
        /\ \A i \in 1..(p - 1) : ~Before(n, list[i])
        /\ \A i \in p..Len(list) : Before(n, list[i])

Insert(list, n) == InsertAt(list, InsertPosition(list, n), n)

-----------------------------------------------------------------------------
(* OrderValidator.validate; order type and side are enumerations already.  *)

Valid(m) ==
    /\ m.symbol \in Symbols
    /\ m.price > 0
    /\ m.qty >= MinOrderSize
    /\ m.qty <= MaxOrderSize

-----------------------------------------------------------------------------
(* OrderMatcher.match_market_order and match_limit_order.                  *)

\* The list cur is matched against.
Makers == book[objs[cur].symbol][Opposite(objs[cur].side)]

\* Mutant: `<` for `<=`, equal prices do not trade.
CrossesStrictly(taker, maker) == Better(Opposite(maker.side), taker.price, maker.price)

\* A LIMIT order trades at its own price or better.
Crosses(taker, maker) == ~Better(maker.side, taker.price, maker.price)

\* The condition of the while loop.
CanMatch ==
    /\ cur # 0
    /\ Makers # <<>>
    /\ Remaining(objs[cur]) > 0
    /\ objs[cur].type = "LIMIT" => Crosses(objs[cur], objs[Head(Makers)])

\* Mutant: the minimum forgotten, the taker's quantity is taken.
TakerQty(a, b) == a

Lesser(a, b) == IF a <= b THEN a ELSE b

\* Mutant: priced at the incoming order.
TradeAtTaker(taker, maker, q) ==
    [buy    |-> IF objs[taker].side = "BUY" THEN taker ELSE maker,
     sell   |-> IF objs[taker].side = "BUY" THEN maker ELSE taker,
     symbol |-> objs[taker].symbol, price |-> objs[taker].price, qty |-> q]

Trade(taker, maker, q) ==
    [buy    |-> IF objs[taker].side = "BUY" THEN taker ELSE maker,
     sell   |-> IF objs[taker].side = "BUY" THEN maker ELSE taker,
     symbol |-> objs[taker].symbol,
     price  |-> objs[maker].price,
     qty    |-> q]

\* One iteration of the loop: trade with the best maker, drop it if it is done.
MatchStep ==
    /\ CanMatch
    /\ LET best == Head(Makers)
           q == Lesser(Remaining(objs[cur]), Remaining(objs[best]))
           maker == Fill(objs[best], q)
       IN  /\ fills' = Append(fills, Trade(cur, best, q))
           /\ objs' = [objs EXCEPT ![best] = maker, ![cur] = Fill(@, q)]
           /\ book' = IF FullyFilled(maker)
                      THEN [book EXCEPT ![objs[cur].symbol]
                                         [Opposite(objs[cur].side)] = Tail(@)]
                      ELSE book
    /\ UNCHANGED <<registry, tape, cur, exec, replies>>

-----------------------------------------------------------------------------
(* OrderHandler.handle_order and _execute_order.                           *)

Reply(n, status, price, qty) ==
    [order |-> n, status |-> status, price |-> price, qty |-> qty]

\* A request that does not parse: answered as order "UNKNOWN" (here 0).
RejectUnparsed ==
    /\ cur = 0
    /\ Len(replies) < MaxRequests
    /\ replies' = Append(replies, Reply(0, "REJECTED", 0, 0))
    /\ UNCHANGED <<objs, book, registry, tape, cur, fills, exec>>

\* Mutant: the early return forgotten, a refused order is executed all the same.
RefuseAndExecute(m) ==
    /\ cur = 0
    /\ Len(replies) < MaxRequests
    /\ ~Valid(m)
    /\ objs' = Append(objs, NewOrder(m, "REJECTED"))
    /\ replies' = Append(replies, Reply(Len(objs) + 1, "REJECTED", 0, 0))
    /\ cur' = Len(objs) + 1
    /\ UNCHANGED <<book, registry, tape, fills, exec>>

RejectInvalid(m) ==
    /\ cur = 0
    /\ Len(replies) < MaxRequests
    /\ ~Valid(m)
    /\ objs' = Append(objs, NewOrder(m, "REJECTED"))
    /\ replies' = Append(replies, Reply(Len(objs) + 1, "REJECTED", 0, 0))
    /\ UNCHANGED <<book, registry, tape, cur, fills, exec>>

\* A valid order enters the matcher.
Accept(m) ==
    /\ cur = 0
    /\ Len(replies) < MaxRequests
    /\ Valid(m)
    /\ objs' = Append(objs, NewOrder(m, "PENDING"))
    /\ cur' = Len(objs) + 1
    /\ UNCHANGED <<book, registry, tape, fills, exec, replies>>

NoExecution == [qty |-> 0, price |-> 0]

\* After the matcher's loop, one by one: ExchangeState.add_trade, exec_price
\* and exec_qty.  OrderBook.trades is the tape's projection on a symbol.
RecordTrade ==
    /\ cur # 0
    /\ ~CanMatch
    /\ fills # <<>>
    /\ tape' = Append(tape, Head(fills))
    /\ exec' = [qty |-> exec.qty + Head(fills).qty, price |-> Head(fills).price]
    /\ fills' = Tail(fills)
    /\ UNCHANGED <<objs, book, registry, cur, replies>>

\* Mutant: the sums of one order carry over to the next.
RespondNoReset(status) ==
    /\ cur # 0 /\ ~CanMatch /\ fills = <<>>
    /\ replies' = Append(replies, Reply(cur, status, exec.price, exec.qty))
    /\ cur' = 0
    /\ UNCHANGED <<objs, tape, fills, exec>>

\* The end of _execute_order on every path.
Respond(status) ==
    /\ cur # 0
    /\ ~CanMatch
    /\ fills = <<>>
    /\ replies' = Append(replies, Reply(cur, status, exec.price, exec.qty))
    /\ cur' = 0
    /\ exec' = NoExecution
    /\ UNCHANGED <<objs, tape, fills>>

\* Mutants: the remainder reported with a status of its own; no answer for an
\* order that found nothing.
FinishCancelled ==
    /\ cur # 0
    /\ objs[cur].type = "MARKET"
    /\ Respond(IF exec.qty < objs[cur].qty THEN "CANCELLED" ELSE "FILLED")
    /\ UNCHANGED <<book, registry>>

FinishExecuted ==
    /\ cur # 0
    /\ objs[cur].type = "MARKET"
    /\ exec.qty > 0
    /\ Respond(IF exec.qty < objs[cur].qty THEN "PARTIALLY_FILLED" ELSE "FILLED")
    /\ UNCHANGED <<book, registry>>

\* What is left of a MARKET order is cancelled.
FinishMarket ==
    /\ cur # 0
    /\ objs[cur].type = "MARKET"
    /\ Respond(IF exec.qty = 0 THEN "REJECTED"
               ELSE IF exec.qty < objs[cur].qty THEN "PARTIALLY_FILLED"
               ELSE "FILLED")
    /\ UNCHANGED <<book, registry>>

FinishFilledLimit ==
    /\ cur # 0
    /\ objs[cur].type = "LIMIT"
    /\ FullyFilled(objs[cur])
    /\ Respond("FILLED")
    /\ UNCHANGED <<book, registry>>

\* Mutant: a LIMIT order rests whether or not something is left of it.
RestAnyLimit ==
    /\ cur # 0
    /\ objs[cur].type = "LIMIT"
    /\ Respond(IF exec.qty > 0 THEN "PARTIALLY_FILLED" ELSE "PENDING")
    /\ registry' = [registry EXCEPT ![objs[cur].id] = cur]
    /\ book' = [book EXCEPT ![objs[cur].symbol]
                             [objs[cur].side] = Insert(@, cur)]

\* What is left of a LIMIT order rests: ExchangeState.add_order.
RestLimit ==
    /\ cur # 0
    /\ objs[cur].type = "LIMIT"
    /\ ~FullyFilled(objs[cur])
    /\ Respond(IF exec.qty > 0 THEN "PARTIALLY_FILLED" ELSE "PENDING")
    /\ registry' = [registry EXCEPT ![objs[cur].id] = cur]
    /\ book' = [book EXCEPT ![objs[cur].symbol]
                             [objs[cur].side] = Insert(@, cur)]

Init ==
    /\ objs = <<>>
    /\ book = [s \in Symbols |-> [d \in Sides |-> <<>>]]
    /\ registry = [i \in OrderIds |-> 0]
    /\ tape = <<>>
    /\ cur = 0
    /\ fills = <<>>
    /\ exec = NoExecution
    /\ replies = <<>>

Next ==
    \/ RejectUnparsed
    \/ \E m \in Messages : RejectInvalid(m)
    \/ \E m \in Messages : Accept(m)
    \/ MatchStep
    \/ RecordTrade
    \/ FinishMarket
    \/ FinishFilledLimit
    \/ RestLimit

\* Once inside the handler the interpreter keeps running it; nobody is
\* obliged to send another request.
Fairness ==
    /\ WF_vars(MatchStep)
    /\ WF_vars(RecordTrade)
    /\ WF_vars(FinishMarket)
    /\ WF_vars(FinishFilledLimit)
    /\ WF_vars(RestLimit)

Spec == Init /\ [][Next]_vars /\ Fairness

-----------------------------------------------------------------------------
(* Properties.                                                             *)

Orders == 1..Len(objs)

TradeRecord == [buy : Nat, sell : Nat, symbol : Names, price : Int, qty : Int]

ReplyRecord == [order : Nat, status : Statuses, price : Int, qty : Int]

\* Every variable has its type: arrival numbers name existing orders.
TypeOK ==
    /\ objs \in Seq(Order)
    /\ book \in [Symbols -> [Sides -> Seq(Orders)]]
    /\ registry \in [OrderIds -> Orders \cup {0}]
    /\ tape \in Seq(TradeRecord)
    /\ cur \in Orders \cup {0}
    /\ fills \in Seq(TradeRecord)
    /\ exec \in [qty : Int, price : Int]
    /\ replies \in Seq(ReplyRecord)

\* The arrival numbers in a list of the book.
Resting(s, d) == {book[s][d][i] : i \in 1..Len(book[s][d])}

\* No order book is ever crossed: whatever partial fills, price levels and
\* remainders went by, the best bid stays below the best ask
\* (match_limit_order's loop condition against add_order of the remainder).
NotCrossed ==
    \A s \in Symbols : \A b \in Resting(s, "BUY"), a \in Resting(s, "SELL") :
        objs[b].price < objs[a].price

\* Price-time priority of the lists that matching pops from: better price
\* first, then the earlier client timestamp, and between equal keys the
\* order that arrived first (list.sort is stable).
PriceTimeOrder ==
    \A s \in Symbols, d \in Sides :
        \A i, j \in 1..Len(book[s][d]) :
            i < j =>
              LET a == book[s][d][i]
                  b == book[s][d][j]
              IN  ~Before(b, a) /\ (~Before(a, b) => a < b)

\* Who rests, exactly: between requests the book of s holds on side d every
\* accepted LIMIT order of that symbol and side with something left to trade,
\* each once, and nothing else.  Nothing is lost by pop, nothing filled stays.
RestingExactly ==
    cur = 0 =>
      \A s \in Symbols, d \in Sides :
        /\ Resting(s, d) =
             {n \in Orders : /\ objs[n].symbol = s
                             /\ objs[n].side = d
                             /\ objs[n].type = "LIMIT"
                             /\ objs[n].status # "REJECTED"
                             /\ Remaining(objs[n]) > 0}
        /\ \A i, j \in 1..Len(book[s][d]) :
             book[s][d][i] = book[s][d][j] => i = j

\* No order trades more than it asked for, and its status tells how far it is:
\* the comparison in Order.is_fully_filled is >=, an overfill would be hidden.
NoOverfill ==
    \A n \in Orders :
        /\ 0 <= objs[n].filled
        /\ objs[n].filled > 0 =>
             /\ objs[n].filled <= objs[n].qty
             /\ objs[n].status = IF objs[n].filled = objs[n].qty
                                 THEN "FILLED" ELSE "PARTIALLY_FILLED"

QtyTraded(trades, n) ==
    SumFunction([i \in DOMAIN trades |->
                   IF n \in {trades[i].buy, trades[i].sell} THEN trades[i].qty ELSE 0])

\* Conservation: the quantity an order has filled is what the trades that name
\* it add up to, at every step of the matching loop.
FillsAccounted ==
    \A n \in Orders : objs[n].filled = QtyTraded(tape \o fills, n)

FairTrade(t) ==
    /\ t.buy \in Orders /\ t.sell \in Orders
    /\ objs[t.buy].side = "BUY" /\ objs[t.sell].side = "SELL"
    /\ objs[t.buy].symbol = t.symbol /\ objs[t.sell].symbol = t.symbol
    /\ t.qty > 0
    /\ objs[t.buy].type = "LIMIT" => t.price <= objs[t.buy].price
    /\ objs[t.sell].type = "LIMIT" => t.price >= objs[t.sell].price
    /\ t.price = objs[Lesser(t.buy, t.sell)].price

\* Every trade is between a buyer and a seller of its symbol, within the limit
\* of both, and at the price of the order that arrived first: the taker never
\* pays worse than its limit and the maker gets exactly its own price.
FairPrice ==
    /\ \A i \in 1..Len(tape) : FairTrade(tape[i])
    /\ \A i \in 1..Len(fills) : FairTrade(fills[i])

\* The incoming order of a trade, and what order n got as the incoming one.
Taker(t) == IF t.buy > t.sell THEN t.buy ELSE t.sell

QtyTaken(trades, n) ==
    SumFunction([i \in DOMAIN trades |->
                   IF Taker(trades[i]) = n THEN trades[i].qty ELSE 0])

TrueReply(r) ==
    LET o == objs[r.order]
    IN  /\ r.qty = QtyTaken(tape, r.order)
        /\ r.qty = 0 => r.price = 0
        /\ \A k \in 1..Len(tape) :
              Taker(tape[k]) = r.order => ~Better(o.side, tape[k].price, r.price)
        /\ r.status = "FILLED" <=> Valid(o) /\ r.qty = o.qty
        /\ r.status = "PARTIALLY_FILLED" <=> 0 < r.qty /\ r.qty < o.qty
        /\ r.status = "PENDING" <=> r.qty = 0 /\ Valid(o) /\ o.type = "LIMIT"

\* A response tells the truth about the tape: its quantity is what the order
\* took, its price the worst it traded at (0 without a trade), and its status
\* follows from the quantity, the order type and the order's size.
RepliesTruthful ==
    \A i \in 1..Len(replies) : replies[i].order # 0 => TrueReply(replies[i])

\* Each parsed order is answered once, in order of arrival, except the one that
\* is being handled, which is the last.
AnsweredOnce ==
    /\ \A i, j \in 1..Len(replies) :
          i < j /\ replies[i].order # 0 /\ replies[j].order # 0 =>
            replies[i].order < replies[j].order
    /\ {replies[i].order : i \in 1..Len(replies)} \cup {0, cur} = Orders \cup {0}
    /\ cur # 0 => cur = Len(objs) /\ \A i \in 1..Len(replies) : replies[i].order # cur

TradesWithBest ==
    \A s \in Symbols : \A r \in Resting(s, "BUY") \cup Resting(s, "SELL") :
        (Len(fills') > Len(fills) /\ objs[cur].symbol = s) =>
          LET t == fills'[Len(fills')]
              maker == Lesser(t.buy, t.sell)
          IN  objs[r].side = objs[maker].side =>
                ~Before(r, maker) /\ (~Before(maker, r) => maker <= r)

\* No trade-through: when an order trades, no order resting on that side
\* sorts before the one it trades with, or arrived earlier with an equal key.
PriceTimePriority == [][TradesWithBest]_vars

-----------------------------------------------------------------------------
(* The inductive invariant behind the safety theorems of MatchingProofs.   *)

\* The order in the handler is the last one parsed, and was accepted.
InHandler ==
    cur # 0 => /\ cur = Len(objs)
               /\ Valid(objs[cur])
               /\ objs[cur].status # "REJECTED"

\* What a list of the book may hold, also while the handler runs.
MayRest(n, s, d) ==
    /\ n # cur
    /\ objs[n].symbol = s /\ objs[n].side = d
    /\ objs[n].type = "LIMIT"
    /\ objs[n].status # "REJECTED"
    /\ Remaining(objs[n]) > 0

EntriesLive ==
    \A s \in Symbols, d \in Sides :
        \A i \in 1..Len(book[s][d]) : MayRest(book[s][d][i], s, d)

EntriesDistinct ==
    \A s \in Symbols, d \in Sides :
        \A i, j \in 1..Len(book[s][d]) : book[s][d][i] = book[s][d][j] => i = j

NothingLost ==
    \A s \in Symbols, d \in Sides, n \in Orders :
        MayRest(n, s, d) => n \in Resting(s, d)

\* Type correctness, the order in the handler, what the lists hold, and the
\* properties above that the next step of the matcher relies on.
IInv ==
    /\ TypeOK
    /\ InHandler
    /\ NoOverfill
    /\ EntriesLive
    /\ EntriesDistinct
    /\ NothingLost
    /\ PriceTimeOrder
    /\ NotCrossed
    /\ FairPrice

\* Every trade ever made, recorded or about to be.
Made == tape \o fills

IdleHandler == cur = 0 => fills = <<>> /\ exec = NoExecution

\* The matcher's list holds trades of cur, and the sums of _execute_order are
\* those of the trades of cur that are recorded.
ExecutionSums ==
    cur # 0 =>
      /\ \A k \in 1..Len(fills) : Taker(fills[k]) = cur
      /\ exec.qty = QtyTaken(tape, cur)
      /\ exec.qty = 0 => exec.price = 0
      /\ \A k \in 1..Len(tape) :
            Taker(tape[k]) = cur => ~Better(objs[cur].side, tape[k].price, exec.price)

\* Prices only get worse while cur walks through the book, and what is left of
\* the book is no better than what it already traded at.
PricesWorsen ==
    cur # 0 =>
      \A k \in 1..Len(Made) : Taker(Made[k]) = cur =>
        /\ \A j \in 1..k :
              Taker(Made[j]) = cur => ~Better(objs[cur].side, Made[j].price, Made[k].price)
        /\ \A i \in 1..Len(Makers) :
              ~Better(Opposite(objs[cur].side), objs[Makers[i]].price, Made[k].price)

\* What the accounting properties need together: a response copies the sums of
\* _execute_order, which are sums over the tape.
AInv ==
    /\ IInv
    /\ AnsweredOnce
    /\ FillsAccounted
    /\ RepliesTruthful
    /\ IdleHandler
    /\ ExecutionSums
    /\ PricesWorsen

-----------------------------------------------------------------------------
(* How the lists change, and progress.                                     *)

\* Position of the k-th element of list under a stable sort by Before.
StableRank(list, k) ==
    LET precedes(i, j) == \/ Before(list[i], list[j])
                          \/ ~Before(list[j], list[i]) /\ i < j
    IN  CHOOSE i \in 1..Len(list) :
            Cardinality({j \in 1..Len(list) : precedes(j, i)}) = k - 1

StableSort(list) == [k \in 1..Len(list) |-> list[StableRank(list, k)]]

\* A list of the book changes in two ways only: a fully filled order leaves it
\* at the front, or an order is appended and the whole list sorted again.
ListSteps ==
    [][\A s \in Symbols, d \in Sides :
          book'[s][d] # book[s][d] =>
            \/ /\ book[s][d] # <<>>
               /\ book'[s][d] = Tail(book[s][d])
               /\ FullyFilled(objs'[Head(book[s][d])])
            \/ book'[s][d] = StableSort(Append(book[s][d], cur))]_vars

\* Every order that enters the handler is answered: the matching loop ends
\* (README.md: "then a response is returned").
EveryOrderAnswered ==
    \A n \in 1..MaxRequests :
        (Len(objs) >= n) ~> (\E i \in 1..Len(replies) : replies[i].order = n)
=============================================================================

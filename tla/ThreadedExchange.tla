-------------------------- MODULE ThreadedExchange --------------------------
(***************************************************************************)
(* HFTPServer without --mode async: one thread per TCP connection and one  *)
(* for UDP, all of them inside OrderHandler.handle_order at once, on one   *)
(* ExchangeState, with no lock (main_server.py, _process_data).            *)
(*                                                                         *)
(* A thread may lose the interpreter lock whenever a Python function is    *)
(* entered (remaining_qty, get_best_ask, fill, is_fully_filled, the key of *)
(* a sort), when a call of a builtin returns and at the end of a loop; it  *)
(* keeps the lock over plain reads, `+=` on an attribute and pop(0) after  *)
(* the test of is_fully_filled returned.  Each action is one such stretch. *)
(* While list.sort runs, the list looks empty to everybody else, and what  *)
(* it holds when the sort ends is replaced by what the sort has taken.     *)
(*                                                                         *)
(* Left out because no handler reads them: ExchangeState.orders and        *)
(* Order.status.  Requests that do not parse touch nothing shared.         *)
(***************************************************************************)
EXTENDS Integers, Sequences, SequencesExt

CONSTANTS
    Symbols, Names, OrderIds, Messages,   \* as in Matching
    MinOrderSize, MaxOrderSize,
    MaxRequests,    \* bound of the model: requests received in a behaviour
    Threads         \* the handler threads: TCP connections and the UDP loop

VARIABLES
    objs,       \* the Order objects, in order of arrival
    book,       \* book[s][side]: the list as any thread sees it
    bare,       \* bare[s][side]: the list has no storage (ob_item is NULL)
    tape,       \* ExchangeState.trades
    frame,      \* frame[t]: where thread t is and its local variables
    replies,    \* the responses returned
    failed,     \* orders whose handler raised: their client gets no response
    contended   \* history: symbols two handlers worked on at the same time

vars == <<objs, book, bare, tape, frame, replies, failed, contended>>

\* A limit on connections is not in the code; there are finitely many at a time.
ASSUME ThreadsAssumption == IsFiniteSet(Threads) /\ IsFiniteSet(Symbols)

\* A thread that waits in recv or recvfrom.
Waiting == [pc |-> "recv", order |-> 0, best |-> 0, qty |-> 0,
            trades |-> <<>>, sum |-> [qty |-> 0, price |-> 0], saved |-> <<>>]

-----------------------------------------------------------------------------
(* One thread at a time is Matching: the mapping of MatchingRefined below. *)

Solo == frame[CHOOSE t \in Threads : TRUE]

\* A list of the book before the append and the sort that Solo is in, and
\* after the pop it is about to do.
Settled(s, d) ==
    LET n == Solo.order
        own == n # 0 /\ objs[n].symbol = s
    IN  IF own /\ objs[n].side = d /\ Solo.pc = "sort" THEN Front(book[s][d])
        ELSE IF own /\ objs[n].side = d /\ Solo.pc = "sorting" THEN Front(Solo.saved)
        ELSE IF /\ own /\ objs[n].side # d /\ Solo.pc = "drop"
                /\ objs[Solo.best].filled >= objs[Solo.best].qty
             THEN Tail(book[s][d])
        ELSE book[s][d]

\* The LIMIT orders with this id that were answered as resting.
Rested(id) ==
    {n \in 1..Len(objs) :
        /\ objs[n].id = id /\ objs[n].type = "LIMIT"
        /\ \E i \in 1..Len(replies) :
              /\ replies[i].order = n
              /\ replies[i].status \in {"PENDING", "PARTIALLY_FILLED"}}

Sequential == INSTANCE Matching WITH
    objs <- [i \in 1..Len(objs) |->
               [id |-> objs[i].id, ts |-> objs[i].ts, symbol |-> objs[i].symbol,
                side |-> objs[i].side, price |-> objs[i].price, qty |-> objs[i].qty,
                type |-> objs[i].type, filled |-> objs[i].filled,
                status |-> IF objs[i].refused THEN "REJECTED"
                           ELSE IF objs[i].filled = 0 THEN "PENDING"
                           ELSE IF objs[i].filled >= objs[i].qty THEN "FILLED"
                           ELSE "PARTIALLY_FILLED"]],
    book <- [s \in Symbols |-> [d \in {"BUY", "SELL"} |-> Settled(s, d)]],
    registry <- [i \in OrderIds |->
                   IF Rested(i) = {} THEN 0
                   ELSE CHOOSE n \in Rested(i) : \A k \in Rested(i) : k <= n],
    cur <- Solo.order,
    fills <- Solo.trades,
    exec <- Solo.sum

ASSUME RequestsAssumption ==
    Messages \subseteq Sequential!Message /\ MinOrderSize \in Nat \ {0}

-----------------------------------------------------------------------------
(* The actions of a thread.                                                *)

Mine(t) == objs[frame[t].order]

\* The list thread t matches against, and the one its order would rest in.
Makers(t) == book[Mine(t).symbol][Sequential!Opposite(Mine(t).side)]
Own(t) == book[Mine(t).symbol][Mine(t).side]

At(t, pc) == frame[t].pc = pc
Goto(t, pc) == frame' = [frame EXCEPT ![t].pc = pc]

\* Mutant: the exception is swallowed and the request forgotten.
Forget(t) == frame' = [frame EXCEPT ![t] = Waiting] /\ UNCHANGED failed

\* The exception reaches handle_tcp_client, which closes the connection (the
\* next connection's thread takes the name), or handle_udp, which counts it.
Raise(t) ==
    /\ failed' = failed \cup {frame[t].order}
    /\ frame' = [frame EXCEPT ![t] = Waiting]

Answer(t, status) ==
    /\ replies' = Append(replies, Sequential!Reply(frame[t].order, status,
                           frame[t].sum.price, frame[t].sum.qty))
    /\ frame' = [frame EXCEPT ![t] = Waiting]

Parsed(m, refused) ==
    [id |-> m.id, ts |-> m.ts, symbol |-> m.symbol, side |-> m.side,
     price |-> m.price, qty |-> m.qty, type |-> m.type,
     filled |-> 0, refused |-> refused]

Receive(t, m) ==
    /\ At(t, "recv")
    /\ Len(objs) < MaxRequests
    /\ Sequential!Valid(m)
    /\ objs' = Append(objs, Parsed(m, FALSE))
    /\ frame' = [frame EXCEPT ![t] = [Waiting EXCEPT !.pc = "look",
                                                      !.order = Len(objs) + 1]]
    /\ contended' = IF \E u \in Threads \ {t} :
                          ~At(u, "recv") /\ Mine(u).symbol = m.symbol
                    THEN contended \cup {m.symbol} ELSE contended
    /\ UNCHANGED <<book, bare, tape, replies, failed>>

Refuse(t, m) ==
    /\ At(t, "recv")
    /\ Len(objs) < MaxRequests
    /\ ~Sequential!Valid(m)
    /\ objs' = Append(objs, Parsed(m, TRUE))
    /\ replies' = Append(replies, Sequential!Reply(Len(objs) + 1, "REJECTED", 0, 0))
    /\ UNCHANGED <<book, bare, tape, frame, failed, contended>>

\* `while self.order_book.asks and order.remaining_qty > 0`
Look(t) ==
    /\ At(t, "look")
    /\ Goto(t, IF Makers(t) = <<>> \/ Sequential!Remaining(Mine(t)) <= 0 THEN "record"
               ELSE IF Mine(t).type = "LIMIT" THEN "peek" ELSE "take")
    /\ UNCHANGED <<objs, book, bare, tape, replies, failed, contended>>

\* `and self.order_book.get_best_ask().price <= order.price`: AttributeError
\* if the list has become empty since Look.
Peek(t) ==
    /\ At(t, "peek")
    /\ \/ /\ Makers(t) = <<>>
          /\ Raise(t)
       \/ /\ Makers(t) # <<>>
          /\ Goto(t, IF Sequential!Crosses(Mine(t), objs[Head(Makers(t))])
                     THEN "take" ELSE "record")
          /\ UNCHANGED failed
    /\ UNCHANGED <<objs, book, bare, tape, replies, contended>>

\* `best_ask = self.order_book.get_best_ask()`, or the break.
Take(t) ==
    /\ At(t, "take")
    /\ frame' = IF Makers(t) = <<>> THEN [frame EXCEPT ![t].pc = "record"]
                ELSE [frame EXCEPT ![t].pc = "size", ![t].best = Head(Makers(t))]
    /\ UNCHANGED <<objs, book, bare, tape, replies, failed, contended>>

\* Mutant: all that is left of the order, whatever the maker has.
SizeAll(t) ==
    /\ At(t, "size")
    /\ frame' = [frame EXCEPT ![t].pc = "fill",
                              ![t].qty = Sequential!Remaining(Mine(t))]
    /\ UNCHANGED <<objs, book, bare, tape, replies, failed, contended>>

\* `trade_qty = min(order.remaining_qty, best_ask.remaining_qty)`
Size(t) ==
    /\ At(t, "size")
    /\ frame' = [frame EXCEPT
         ![t].pc = "fill",
         ![t].qty = Sequential!Lesser(Sequential!Remaining(Mine(t)),
                                      Sequential!Remaining(objs[frame[t].best]))]
    /\ UNCHANGED <<objs, book, bare, tape, replies, failed, contended>>

\* Mutant: only the resting order is filled.
FillMaker(t) ==
    /\ At(t, "fill")
    /\ objs' = [objs EXCEPT ![frame[t].best].filled = @ + frame[t].qty]
    /\ frame' = [frame EXCEPT
         ![t].pc = "drop",
         ![t].trades = Append(@, Sequential!Trade(frame[t].order, frame[t].best,
                                                  frame[t].qty))]
    /\ UNCHANGED <<book, bare, tape, replies, failed, contended>>

\* The Trade, its append to the local list, and both fills; of the three only
\* the fill of best_ask is seen by others, so the switches between them do not
\* matter.
FillBoth(t) ==
    /\ At(t, "fill")
    /\ objs' = [objs EXCEPT ![frame[t].best].filled = @ + frame[t].qty,
                            ![frame[t].order].filled = @ + frame[t].qty]
    /\ frame' = [frame EXCEPT
         ![t].pc = "drop",
         ![t].trades = Append(@, Sequential!Trade(frame[t].order, frame[t].best,
                                                  frame[t].qty))]
    /\ UNCHANGED <<book, bare, tape, replies, failed, contended>>

\* `if best_ask.is_fully_filled(): self.order_book.asks.pop(0)`: the head
\* goes, whichever order it is by now; IndexError if there is none.
Drop(t) ==
    /\ At(t, "drop")
    /\ \/ /\ ~Sequential!FullyFilled(objs[frame[t].best])
          /\ Goto(t, "look")
          /\ UNCHANGED <<book, failed>>
       \/ /\ Sequential!FullyFilled(objs[frame[t].best])
          /\ Makers(t) # <<>>
          /\ book' = [book EXCEPT ![Mine(t).symbol]
                                   [Sequential!Opposite(Mine(t).side)] = Tail(@)]
          /\ Goto(t, "look")
          /\ UNCHANGED failed
       \/ /\ Sequential!FullyFilled(objs[frame[t].best])
          /\ Makers(t) = <<>>
          /\ Raise(t)
          /\ UNCHANGED book
    /\ UNCHANGED <<objs, bare, tape, replies, contended>>

\* Mutant: add_trade forgotten.
RecordSumOnly(t) ==
    /\ At(t, "record")
    /\ frame[t].trades # <<>>
    /\ LET trade == Head(frame[t].trades)
       IN  frame' = [frame EXCEPT
             ![t].trades = Tail(@),
             ![t].sum = [qty |-> @.qty + trade.qty, price |-> trade.price]]
    /\ UNCHANGED <<objs, book, bare, tape, replies, failed, contended>>

\* One round of _execute_order's loop over the trades.
Record(t) ==
    /\ At(t, "record")
    /\ frame[t].trades # <<>>
    /\ LET trade == Head(frame[t].trades)
       IN  /\ tape' = Append(tape, trade)
           /\ frame' = [frame EXCEPT
                ![t].trades = Tail(@),
                ![t].sum = [qty |-> @.qty + trade.qty, price |-> trade.price]]
    /\ UNCHANGED <<objs, book, bare, replies, failed, contended>>

\* Mutant: nothing is answered to a LIMIT order that is filled at once.
FinishMarketOnly(t) ==
    /\ At(t, "record")
    /\ frame[t].trades = <<>>
    /\ Mine(t).type = "MARKET"
    /\ Answer(t, IF frame[t].sum.qty = 0 THEN "REJECTED"
                 ELSE IF frame[t].sum.qty < Mine(t).qty THEN "PARTIALLY_FILLED"
                 ELSE "FILLED")
    /\ UNCHANGED <<objs, book, bare, tape, failed, contended>>

\* The response to a MARKET order and to a LIMIT order with nothing left.
Finish(t) ==
    /\ At(t, "record")
    /\ frame[t].trades = <<>>
    /\ \/ /\ Mine(t).type = "MARKET"
          /\ Answer(t, IF frame[t].sum.qty = 0 THEN "REJECTED"
                       ELSE IF frame[t].sum.qty < Mine(t).qty THEN "PARTIALLY_FILLED"
                       ELSE "FILLED")
       \/ /\ Mine(t).type = "LIMIT"
          /\ Sequential!FullyFilled(Mine(t))
          /\ Answer(t, "FILLED")
    /\ UNCHANGED <<objs, book, bare, tape, failed, contended>>

\* add_bid / add_ask: the append ...
Rest(t) ==
    /\ At(t, "record")
    /\ frame[t].trades = <<>>
    /\ Mine(t).type = "LIMIT"
    /\ ~Sequential!FullyFilled(Mine(t))
    /\ book' = [book EXCEPT ![Mine(t).symbol][Mine(t).side] = Append(@, frame[t].order)]
    /\ bare' = [bare EXCEPT ![Mine(t).symbol][Mine(t).side] = FALSE]
    /\ Goto(t, "sort")
    /\ UNCHANGED <<objs, tape, replies, failed, contended>>

\* Mutant: a status that Order does not know.
RestStatusOpen(t) == IF frame[t].sum.qty > 0 THEN "PARTIALLY_FILLED" ELSE "OPEN"

RestStatus(t) == IF frame[t].sum.qty > 0 THEN "PARTIALLY_FILLED" ELSE "PENDING"

\* Mutant: sorted() into a copy that is assigned at the end.
SortCopy(t) ==
    /\ At(t, "sort")
    /\ frame' = [frame EXCEPT ![t].pc = "sorting", ![t].saved = Own(t)]
    /\ bare' = [bare EXCEPT ![Mine(t).symbol][Mine(t).side] = TRUE]
    /\ UNCHANGED <<objs, book, tape, replies, failed, contended>>

\* ... the sort, up to its first call of the key; a list that another thread's
\* sort has emptied has no key to compute ...
SortBegin(t) ==
    /\ At(t, "sort")
    /\ \/ /\ Own(t) = <<>>
          /\ Answer(t, RestStatus(t))
          /\ UNCHANGED <<book, bare>>
       \/ /\ Own(t) # <<>>
          /\ frame' = [frame EXCEPT ![t].pc = "sorting", ![t].saved = Own(t)]
          /\ book' = [book EXCEPT ![Mine(t).symbol][Mine(t).side] = <<>>]
          /\ bare' = [bare EXCEPT ![Mine(t).symbol][Mine(t).side] = TRUE]
          /\ UNCHANGED replies
    /\ UNCHANGED <<objs, tape, failed, contended>>

\* Mutant: the sort forgotten.
SortNothing(t) ==
    /\ At(t, "sorting")
    /\ book' = [book EXCEPT ![Mine(t).symbol][Mine(t).side] = frame[t].saved]
    /\ bare' = [bare EXCEPT ![Mine(t).symbol][Mine(t).side] = FALSE]
    /\ Answer(t, RestStatus(t))
    /\ UNCHANGED <<objs, tape, failed, contended>>

\* ... and its end: the list gets back what the sort took, sorted; whatever
\* was appended meanwhile is gone, and the sort raises ValueError.
SortEnd(t) ==
    /\ At(t, "sorting")
    /\ book' = [book EXCEPT ![Mine(t).symbol][Mine(t).side] =
                              Sequential!StableSort(frame[t].saved)]
    /\ bare' = [bare EXCEPT ![Mine(t).symbol][Mine(t).side] = FALSE]
    /\ \/ /\ bare[Mine(t).symbol][Mine(t).side]
          /\ Answer(t, RestStatus(t))
          /\ UNCHANGED failed
       \/ /\ ~bare[Mine(t).symbol][Mine(t).side]
          /\ Raise(t)
          /\ UNCHANGED replies
    /\ UNCHANGED <<objs, tape, contended>>

\* What a thread does once it has a request.
Work(t) ==
    \/ Look(t) \/ Peek(t) \/ Take(t) \/ Size(t) \/ FillBoth(t) \/ Drop(t)
    \/ Record(t) \/ Finish(t) \/ Rest(t) \/ SortBegin(t) \/ SortEnd(t)

Init ==
    /\ objs = <<>>
    /\ book = [s \in Symbols |-> [d \in {"BUY", "SELL"} |-> <<>>]]
    /\ bare = [s \in Symbols |-> [d \in {"BUY", "SELL"} |-> TRUE]]
    /\ tape = <<>>
    /\ frame = [t \in Threads |-> Waiting]
    /\ replies = <<>>
    /\ failed = {}
    /\ contended = {}

Next ==
    \/ \E t \in Threads, m \in Messages : Receive(t, m)
    \/ \E t \in Threads, m \in Messages : Refuse(t, m)
    \/ \E t \in Threads : Work(t)

\* The interpreter hands the lock around: no runnable thread starves.
Fairness == \A t \in Threads : WF_vars(Work(t))

Spec == Init /\ [][Next]_vars /\ Fairness
-----------------------------------------------------------------------------
(* Properties.                                                             *)

Orders == 1..Len(objs)
Sides == {"BUY", "SELL"}
Lists == Symbols \X Sides
Visible(l) == book[l[1]][l[2]]

OrderObject == [id : OrderIds, ts : Int, symbol : Names, side : Sides, price : Int,
                qty : Int, type : {"MARKET", "LIMIT"}, filled : Int, refused : BOOLEAN]

Frame == [pc : {"recv", "look", "peek", "take", "size", "fill", "drop",
                "record", "sort", "sorting"},
          order : Orders \cup {0}, best : Orders \cup {0}, qty : Int,
          trades : Seq(Sequential!TradeRecord),
          sum : [qty : Int, price : Int], saved : Seq(Orders)]

\* Every variable has its type.
TypeOK ==
    /\ objs \in Seq(OrderObject)
    /\ book \in [Symbols -> [Sides -> Seq(Orders)]]
    /\ bare \in [Symbols -> [Sides -> BOOLEAN]]
    /\ tape \in Seq(Sequential!TradeRecord)
    /\ frame \in [Threads -> Frame]
    /\ replies \in Seq(Sequential!ReplyRecord)
    /\ failed \subseteq Orders
    /\ contended \subseteq Symbols

\* With one connection at work the stretches between two switches add up to
\* the sequential handler: pc, exceptions and the emptied list never show.
ImplementsMatching == Sequential!Init /\ [][Sequential!Next]_(Sequential!vars)

Working(s) == \E t \in Threads : ~At(t, "recv") /\ Mine(t).symbol = s

\* What the sequential handler guarantees of the books of s.
Sound(s) ==
    /\ \A b \in ToSet(book[s]["BUY"]), a \in ToSet(book[s]["SELL"]) :
          objs[b].price < objs[a].price
    /\ \A n \in Orders : objs[n].symbol = s =>
          n \notin failed /\ (objs[n].filled > 0 => objs[n].filled <= objs[n].qty)
    /\ ~Working(s) => \A d \in {"BUY", "SELL"} :
          ToSet(book[s][d]) = {n \in Orders : /\ objs[n].symbol = s
                                             /\ objs[n].side = d
                                             /\ objs[n].type = "LIMIT"
                                             /\ ~objs[n].refused
                                             /\ objs[n].filled < objs[n].qty}

\* Threads disturb each other only over a symbol: as long as no two handlers
\* worked on s at the same time, the books of s are as if there was one thread,
\* whatever the others do to other symbols.
Isolation == \A s \in Symbols \ contended : Sound(s)

\* As long as no handler raised, every fill is on the tape or about to be put
\* there, races and overfills included; a handler that raises takes the trades
\* of its local list with it.
FillsAccounted ==
    failed = {} =>
      \A n \in Orders :
        objs[n].filled = Sequential!QtyTraded(tape, n)
          + SumFunction([t \in Threads |-> Sequential!QtyTraded(frame[t].trades, n)])

\* The trades that are on the tape or about to be put there.
NoNegativeTrade ==
    /\ \A i \in 1..Len(tape) : tape[i].qty >= 0
    /\ \A t \in Threads : \A i \in 1..Len(frame[t].trades) : frame[t].trades[i].qty >= 0

\* A resting order is overfilled by stale quantities only, one per thread; that
\* holds until Size finds an overfilled order and trades a negative quantity,
\* which leaves its taker with less than nothing filled.
OverfillBounded ==
    (failed = {} /\ NoNegativeTrade) =>
      \A n \in Orders : ~objs[n].refused =>
        objs[n].filled <= Cardinality(Threads) * objs[n].qty

\* A handler never overfills the order it handles, and what it will report is
\* what that order has filled, whoever else is matching.
OwnFillsExact ==
    \A t \in Threads :
        (frame[t].order # 0 /\ frame[t].pc \notin {"sort", "sorting"}) =>
          /\ Mine(t).filled <= Mine(t).qty
          /\ Mine(t).filled =
               frame[t].sum.qty + Sequential!QtyTraded(frame[t].trades, frame[t].order)

\* An order is at one place at most: in the list of its symbol and side, or in
\* the hands of one sort; concurrent sorts may lose it but never double it.
HeldOnce ==
    LET all == SumFunction([l \in Lists |-> Len(Visible(l))])
                 + SumFunction([t \in Threads |-> Len(frame[t].saved)])
        held == (UNION {ToSet(Visible(l)) : l \in Lists})
                  \cup (UNION {ToSet(frame[t].saved) : t \in Threads})
    IN  /\ Cardinality(held) = all
        /\ \A l \in Lists : \A n \in ToSet(Visible(l)) :
              objs[n].symbol = l[1] /\ objs[n].side = l[2] /\ objs[n].type = "LIMIT"

Answers(n) == {i \in 1..Len(replies) : replies[i].order = n}

\* Each request is in one handler, or answered once, or lost to an exception.
OneOutcome ==
    \A n \in Orders :
        Cardinality(Answers(n)) + Cardinality({t \in Threads : frame[t].order = n})
          + (IF n \in failed THEN 1 ELSE 0) = 1

\* Every request ends: no interleaving makes a handler loop for ever.
Served ==
    \A n \in 1..MaxRequests :
        (Len(objs) >= n) ~> (n \in failed \/ Answers(n) # {})

-----------------------------------------------------------------------------
(* What the documents say and two threads break.                           *)

\* Midpoint report, 2.2.3: "Orders are matched when the bid price meets or
\* exceeds the ask price": no LIMIT order trades beyond its limit.
MatchedWithinLimits ==
    \A i \in 1..Len(tape) :
        LET t == tape[i]
        IN  /\ objs[t.buy].type = "LIMIT" => t.price <= objs[t.buy].price
            /\ objs[t.sell].type = "LIMIT" => t.price >= objs[t.sell].price

\* Midpoint report, 2.2.1: the order book maintains "the current state of limit
\* orders for each trading symbol": at rest, an order answered as pending and
\* never filled is in its list.
PendingIsListed ==
    (\A t \in Threads : At(t, "recv")) =>
      \A i \in 1..Len(replies) :
        LET r == replies[i]
            o == objs[r.order]
        IN  r.status = "PENDING" /\ o.filled = 0 =>
              r.order \in ToSet(book[o.symbol][o.side])
-----------------------------------------------------------------------------
(* The inductive invariant behind the safety theorems of ThreadedProofs.   *)

\* What a handler knows of its order and of the one it took from a list.
HandlerKnows(t) ==
    LET f == frame[t]
    IN  /\ f.pc = "recv" <=> f.order = 0
        /\ f.pc = "recv" => f = Waiting
        /\ f.order # 0 => Mine(t).symbol \in Symbols /\ ~Mine(t).refused /\ Mine(t).qty > 0
        /\ f.pc \in {"peek", "sort", "sorting"} => Mine(t).type = "LIMIT"
        /\ f.pc \in {"sort", "sorting"} => f.trades = <<>>
        /\ f.pc # "sorting" => f.saved = <<>>
        /\ f.pc \in {"size", "fill", "drop"} =>
              /\ f.best # 0
              /\ objs[f.best].symbol = Mine(t).symbol
              /\ objs[f.best].side = Sequential!Opposite(Mine(t).side)
              /\ objs[f.best].qty > 0 /\ ~objs[f.best].refused

\* Trades name orders, those of a thread the one it handles.
TradesName ==
    /\ \A i \in 1..Len(tape) : tape[i].buy \in Orders /\ tape[i].sell \in Orders
    /\ \A t \in Threads : \A i \in 1..Len(frame[t].trades) :
          LET trade == frame[t].trades[i]
          IN  /\ trade.buy \in Orders /\ trade.sell \in Orders
              /\ frame[t].order \in {trade.buy, trade.sell}

\* So do responses.
RepliesName == \A i \in 1..Len(replies) : replies[i].order \in Orders

\* Where each request is.
Outcome(n) ==
    \/ \E t \in Threads : {u \in Threads : frame[u].order = n} = {t}
                           /\ Answers(n) = {} /\ n \notin failed
    \/ \E i \in 1..Len(replies) : {u \in Threads : frame[u].order = n} = {}
                                   /\ Answers(n) = {i} /\ n \notin failed
    \/ {u \in Threads : frame[u].order = n} = {} /\ Answers(n) = {} /\ n \in failed

\* Orders that have not been appended to a list yet are unknown to others.
Unlisted(n) ==
    /\ \A s \in Symbols, d \in Sides : \A i \in 1..Len(book[s][d]) : book[s][d][i] # n
    /\ \A u \in Threads : \A i \in 1..Len(frame[u].saved) : frame[u].saved[i] # n
    /\ \A u \in Threads : frame[u].best # n

Fresh(t) == frame[t].order # 0 /\ frame[t].pc \notin {"sort", "sorting"}

MayList(n, s, d) ==
    /\ objs[n].symbol = s /\ objs[n].side = d /\ objs[n].type = "LIMIT"
    /\ ~objs[n].refused /\ objs[n].qty > 0

\* Lists and sorts hold the right orders, no order twice.
Listed ==
    /\ \A s \in Symbols, d \in Sides : \A i \in 1..Len(book[s][d]) :
          MayList(book[s][d][i], s, d)
    /\ \A t \in Threads : \A i \in 1..Len(frame[t].saved) :
          MayList(frame[t].saved[i], Mine(t).symbol, Mine(t).side)
    /\ \A s \in Symbols, d \in Sides : \A i, j \in 1..Len(book[s][d]) :
          book[s][d][i] = book[s][d][j] => i = j
    /\ \A t, u \in Threads : \A i \in 1..Len(frame[t].saved), j \in 1..Len(frame[u].saved) :
          frame[t].saved[i] = frame[u].saved[j] => t = u /\ i = j
    /\ \A t \in Threads, s \in Symbols, d \in Sides :
          \A i \in 1..Len(frame[t].saved), j \in 1..Len(book[s][d]) :
            frame[t].saved[i] # book[s][d][j]

\* The quantity that thread t is about to add to order n.
Pending(t, n) ==
    IF frame[t].pc = "fill" /\ frame[t].best = n /\ frame[t].qty > 0
    THEN frame[t].qty ELSE 0

\* Stale quantities add up to one order per thread at most.
StaleBounded ==
    (failed = {} /\ NoNegativeTrade) =>
      \A n \in Orders : ~objs[n].refused =>
        /\ objs[n].filled >= 0
        /\ \A t \in Threads : Pending(t, n) <= objs[n].qty
        /\ objs[n].filled + SumFunction([t \in Threads |-> Pending(t, n)])
             <= Cardinality(Threads) * objs[n].qty

SizedRight ==
    \A t \in Threads : frame[t].pc = "fill" =>
        frame[t].qty <= Mine(t).qty - Mine(t).filled

IInv ==
    /\ TypeOK
    /\ \A t \in Threads : HandlerKnows(t)
    /\ TradesName
    /\ RepliesName
    /\ \A n \in Orders : Outcome(n)
    /\ \A t \in Threads : Fresh(t) => Unlisted(frame[t].order)
    /\ Listed
    /\ SizedRight
    /\ OwnFillsExact
    /\ FillsAccounted
    /\ StaleBounded
=============================================================================

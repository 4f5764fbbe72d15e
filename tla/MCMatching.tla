----------------------------- MODULE MCMatching -----------------------------
(***************************************************************************)
(* The instance of Matching for TLC: two prices, two quantities and two    *)
(* client timestamps, so that orders tie on price, tie on both keys, sweep *)
(* several makers and leave remainders on either side for the next ones.   *)
(***************************************************************************)
EXTENDS MatchingRefinement

\* Requests a validator accepts.  A MARKET order's price and timestamp are
\* never compared: one value each stands for all.
LimitOrders(syms, ids, stamps, prices, sizes) ==
    [id : ids, ts : stamps, symbol : syms, side : Sides,
     price : prices, qty : sizes, type : {"LIMIT"}]

MarketOrders(syms, ids, sizes) ==
    [id : ids, ts : {1}, symbol : syms, side : Sides,
     price : {1}, qty : sizes, type : {"MARKET"}]

\* One request per check of the validator: symbol, price, both size bounds.
InvalidOrders(sym, id) ==
    {[id |-> id, ts |-> 1, symbol |-> "UNLISTED", side |-> "BUY",
      price |-> 1, qty |-> 1, type |-> "LIMIT"],
     [id |-> id, ts |-> 1, symbol |-> sym, side |-> "BUY",
      price |-> 0, qty |-> 1, type |-> "LIMIT"],
     [id |-> id, ts |-> 1, symbol |-> sym, side |-> "BUY",
      price |-> 1, qty |-> MinOrderSize - 1, type |-> "LIMIT"],
     [id |-> id, ts |-> 1, symbol |-> sym, side |-> "SELL",
      price |-> 1, qty |-> MaxOrderSize + 1, type |-> "MARKET"]}

MCSymbols == {"AAPL", "MSFT"}
MCNames == {"AAPL", "MSFT", "UNLISTED"}
MCOrderIds == {"ORDER_0"}

MCMessages ==
    LimitOrders({"AAPL"}, {"ORDER_0"}, {1}, {1, 2}, {1, 2})
      \cup LimitOrders({"AAPL"}, {"ORDER_0"}, {2}, {1, 2}, {1})
      \cup MarketOrders({"AAPL"}, {"ORDER_0"}, {3})
      \cup LimitOrders({"MSFT"}, {"ORDER_0"}, {1}, {1}, {2})
      \cup InvalidOrders("AAPL", "ORDER_0")
=============================================================================

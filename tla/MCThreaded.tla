----------------------------- MODULE MCThreaded -----------------------------
(* Instances of ThreadedExchange for TLC.                                  *)
EXTENDS ThreadedExchange

MCSymbols == {"AAPL", "MSFT"}
MCNames == {"AAPL", "MSFT", "UNLISTED"}
MCOrderIds == {"ORDER_0"}

Limit(sym, side, price, qty, ts) ==
    [id |-> "ORDER_0", ts |-> ts, symbol |-> sym, side |-> side,
     price |-> price, qty |-> qty, type |-> "LIMIT"]

Market(sym, side, qty) ==
    [id |-> "ORDER_0", ts |-> 1, symbol |-> sym, side |-> side,
     price |-> 1, qty |-> qty, type |-> "MARKET"]

\* One thread: makers on two levels, takers that sweep them, an order that
\* sorts in front of a resting one, and a refused request.
SoloMessages ==
    {Limit("AAPL", "SELL", p, 1, ts) : p \in {1, 2}, ts \in {1, 2}}
      \cup {Limit("AAPL", "BUY", p, 2, 1) : p \in {1, 2}}
      \cup {Limit("AAPL", "SELL", 2, 2, 1), Limit("MSFT", "BUY", 1, 1, 1),
            Market("AAPL", "BUY", 2), Market("AAPL", "SELL", 1),
            Limit("UNLISTED", "BUY", 1, 1, 1)}

\* Several threads: they meet over AAPL while MSFT goes on beside it.
PairMessages ==
    {Limit("AAPL", "SELL", 1, 1, 1), Limit("AAPL", "SELL", 2, 1, 1),
     Limit("AAPL", "BUY", 1, 2, 1), Market("AAPL", "BUY", 2),
     Limit("MSFT", "SELL", 1, 1, 1), Market("MSFT", "BUY", 1)}
=============================================================================

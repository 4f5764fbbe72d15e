------------------------- MODULE MatchingRefinement -------------------------
(***************************************************************************)
(* The order handler implements PriceTimeExchange.  The abstract step       *)
(* happens when the handler responds: until then the mapping gives back to *)
(* the resting orders what the order in the handler has taken from them,   *)
(* the ones popped from their list included.                               *)
(***************************************************************************)
EXTENDS Matching

\* The request an Order object was parsed from.
Request(o) ==
    [id |-> o.id, ts |-> o.ts, symbol |-> o.symbol, side |-> o.side,
     price |-> o.price, qty |-> o.qty, type |-> o.type]

\* The requests that are completely handled.
Handled ==
    [n \in 1..(IF cur = 0 THEN Len(objs) ELSE Len(objs) - 1) |-> Request(objs[n])]

\* The resting order of a trade, and what the incoming order c took from n.
Maker(t) == Lesser(t.buy, t.sell)

TakenFrom(trades, c, n) ==
    SumFunction([i \in DOMAIN trades |->
                   IF Taker(trades[i]) = c /\ Maker(trades[i]) = n
                   THEN trades[i].qty ELSE 0])

\* What each order has given to the one in the handler so far.
Given == [n \in Orders |-> TakenFrom(Made, cur, n)]

\* The orders in a list, and those that cur has traded with and maybe popped.
Listed == UNION {Resting(s, d) : s \in Symbols, d \in Sides}
Touched == {n \in Orders : Given[n] > 0}

Offers == [n \in Listed \cup Touched |-> Remaining(objs[n]) + Given[n]]

\* The trades of the requests that are completely handled.
Settled == {t \in ToSet(tape) : Taker(t) # cur}

Exchange == INSTANCE PriceTimeExchange WITH
    Accepted <- Valid, log <- Handled, open <- Offers, trades <- Settled

\* Sorted lists, in-place fills and a loop that pops the front do what an
\* exchange with price-time priority promises, partial fills over several
\* price levels and cancelled MARKET remainders included (README.md: "a
\* price-time-priority matching engine").
ImplementsExchange == Exchange!Spec

-----------------------------------------------------------------------------
(* Why the loop allots what the closed form of the exchange allots: the    *)
(* invariant behind the proof in RefinementProofs.                         *)

\* Order a is served before order b of its side.
AheadOf(a, b) == ~Before(b, a) /\ (~Before(a, b) => a < b)

\* cur trades with earlier orders of the other side that its limit allows.
TouchedCross ==
    \A n \in Touched :
        /\ n < cur
        /\ objs[n].symbol = objs[cur].symbol
        /\ objs[n].side = Opposite(objs[cur].side)
        /\ objs[cur].type = "LIMIT" => Crosses(objs[cur], objs[n])

\* Whoever cur has traded with was ahead of all that are left ...
TouchedAhead ==
    \A n \in Touched : \A i \in 1..Len(Makers) :
        Makers[i] # n => AheadOf(n, Makers[i])

\* ... and is used up, but for the last one, on which cur is used up.
OthersUsedUp ==
    \A n \in Touched :
        Remaining(objs[n]) # 0 =>
            Remaining(objs[cur]) = 0 /\ Makers # <<>> /\ n = Head(Makers)

\* One trade with each of them, in their order.
OneTradeEach ==
    /\ \A k \in 1..Len(Made) :
          Taker(Made[k]) = cur => Made[k].qty = Given[Maker(Made[k])]
    /\ \A n \in Touched : \E k \in 1..Len(Made) :
          Taker(Made[k]) = cur /\ Maker(Made[k]) = n
    /\ \A j, k \in 1..Len(Made) :
          j < k /\ Taker(Made[j]) = cur /\ Taker(Made[k]) = cur =>
            AheadOf(Maker(Made[j]), Maker(Made[k]))

\* The price of the answer is that of the last trade recorded.
LastPrice ==
    exec.qty > 0 =>
      \E k \in 1..Len(tape) :
        /\ Taker(tape[k]) = cur
        /\ tape[k].price = exec.price
        /\ \A j \in 1..Len(tape) : Taker(tape[j]) = cur => j <= k

\* What the order in the handler has filled, its makers have given.
GivenIsFilled == SumFunctionOnSet(Given, Orders) = objs[cur].filled

Greedy ==
    /\ TouchedCross
    /\ TouchedAhead
    /\ OthersUsedUp
    /\ OneTradeEach
    /\ LastPrice
    /\ GivenIsFilled

\* The invariant of the refinement proof.
RInv ==
    /\ AInv
    /\ \A n \in Orders : Request(objs[n]) \in Messages
    /\ cur # 0 => Greedy /\ Len(replies) < MaxRequests
=============================================================================

-------------------------- MODULE PriceTimeExchange --------------------------
(***************************************************************************)
(* What the matching engine promises, without its lists and loops: an      *)
(* exchange whose resting orders are a set, where one atomic step takes an *)
(* incoming order, allots it to the resting orders in price-time priority, *)
(* and answers.  The allotment is stated in closed form: an order with     *)
(* `ahead` units in front of it gets whatever of the incoming quantity     *)
(* exceeds them.  MatchingRefinement shows that Matching implements it.    *)
(***************************************************************************)
EXTENDS Integers, Sequences, Functions

CONSTANTS
    Messages,      \* the requests a client may send
    Accepted(_),   \* which of them the validator accepts
    MaxRequests    \* bound of the model: requests handled in a behaviour

VARIABLES
    log,       \* the requests that parsed, in order of arrival
    open,      \* open[n]: the quantity order n still offers, if it rests
    trades,    \* the set of trades made
    replies    \* the responses, in order

vars == <<log, open, trades, replies>>

\* Resting order a is served before resting order b of the same side: better
\* price, then earlier timestamp, then earlier arrival.
Ahead(a, b) ==
    LET x == log[a]
        y == log[b]
    IN  \/ IF x.side = "BUY" THEN x.price > y.price ELSE x.price < y.price
        \/ x.price = y.price /\ x.ts < y.ts
        \/ x.price = y.price /\ x.ts = y.ts /\ a < b

\* The resting orders that m may trade with.
Counterparties(m) ==
    {r \in DOMAIN open :
        /\ log[r].symbol = m.symbol
        /\ log[r].side # m.side
        /\ m.type = "LIMIT" => IF m.side = "BUY" THEN log[r].price <= m.price
                                                 ELSE log[r].price >= m.price}

Offered(S) == SumFunctionOnSet(open, S)

\* What m gets from counterparty r.
Allotment(m, r) ==
    LET ahead == Offered({a \in Counterparties(m) : Ahead(a, r)})
    IN  IF m.qty <= ahead THEN 0
        ELSE IF m.qty - ahead < open[r] THEN m.qty - ahead ELSE open[r]

\* The counterparties that get something.
Chosen(m) == {r \in Counterparties(m) : Allotment(m, r) > 0}

\* The quantity m trades at once, and the price of the last counterparty.
Traded(m) ==
    LET supply == Offered(Counterparties(m))
    IN  IF m.qty < supply THEN m.qty ELSE supply

ReplyPrice(m) ==
    IF Chosen(m) = {} THEN 0
    ELSE log[CHOOSE r \in Chosen(m) : \A a \in Chosen(m) \ {r} : Ahead(a, r)].price

Outcome(m) ==
    IF Traded(m) = m.qty THEN "FILLED"
    ELSE IF Traded(m) > 0 THEN "PARTIALLY_FILLED"
    ELSE IF m.type = "LIMIT" THEN "PENDING" ELSE "REJECTED"

\* The whole of an order's handling in one step.
Submit(m) ==
    LET n == Len(log) + 1
        exhausted == {r \in Chosen(m) : Allotment(m, r) = open[r]}
        rests == m.type = "LIMIT" /\ Traded(m) < m.qty
        stay == (DOMAIN open \ exhausted) \cup (IF rests THEN {n} ELSE {})
    IN  /\ Accepted(m)
        /\ Len(replies) < MaxRequests
        /\ log' = Append(log, m)
        /\ trades' = trades \cup
             {[buy    |-> IF m.side = "BUY" THEN n ELSE r,
               sell   |-> IF m.side = "BUY" THEN r ELSE n,
               symbol |-> m.symbol,
               price  |-> log[r].price,
               qty    |-> Allotment(m, r)] : r \in Chosen(m)}
        /\ open' = [r \in stay |->
                      IF r = n THEN m.qty - Traded(m)
                      ELSE IF r \in Chosen(m) THEN open[r] - Allotment(m, r)
                      ELSE open[r]]
        /\ replies' = Append(replies,
                        [order |-> n, status |-> Outcome(m),
                         price |-> ReplyPrice(m), qty |-> Traded(m)])

\* A request the validator refuses changes nothing but the log.
Refuse(m) ==
    /\ ~Accepted(m)
    /\ Len(replies) < MaxRequests
    /\ log' = Append(log, m)
    /\ replies' = Append(replies, [order |-> Len(log) + 1, status |-> "REJECTED",
                                   price |-> 0, qty |-> 0])
    /\ UNCHANGED <<open, trades>>

\* A request that does not parse is not even logged.
RefuseUnparsed ==
    /\ Len(replies) < MaxRequests
    /\ replies' = Append(replies, [order |-> 0, status |-> "REJECTED",
                                   price |-> 0, qty |-> 0])
    /\ UNCHANGED <<log, open, trades>>

Init ==
    /\ log = <<>>
    /\ open = [r \in {} |-> 0]
    /\ trades = {}
    /\ replies = <<>>

Next ==
    \/ RefuseUnparsed
    \/ \E m \in Messages : Refuse(m) \/ Submit(m)

Spec == Init /\ [][Next]_vars
=============================================================================

SPECIFICATION DashboardSpec
CONSTANTS
    Pages = {p1}
    MaxStarts = 2
    MaxStops = 1
    MaxOrders = 2
    Times = {1, 2, 3}
    Bounds <- MCBounds
    Window = 4
    MaxResults = 6
INVARIANTS
    TypeOK
    SoleTrader
    StopCostsOneOrder
    RestsClean
    StatsTruthful
    ReportsAgree
PROPERTIES
    TradingEnds
\* Users may stop clicking, and the model stops at its bounds.
CHECK_DEADLOCK FALSE

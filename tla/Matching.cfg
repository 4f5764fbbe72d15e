SPECIFICATION Spec
CONSTANTS
    Symbols <- MCSymbols
    Names <- MCNames
    OrderIds <- MCOrderIds
    Messages <- MCMessages
    MinOrderSize = 1
    MaxOrderSize = 3
    MaxRequests = 4
INVARIANTS
    TypeOK
    NotCrossed
    PriceTimeOrder
    RestingExactly
    NoOverfill
    FillsAccounted
    FairPrice
    RepliesTruthful
    AnsweredOnce
PROPERTIES
    ImplementsExchange
    PriceTimePriority
    ListSteps
    EveryOrderAnswered
\* The server may stay idle for good, and the model stops at MaxRequests.
CHECK_DEADLOCK FALSE

SPECIFICATION Spec
CONSTANTS
    Symbols <- MCSymbols
    Names <- MCNames
    OrderIds <- MCOrderIds
    Messages <- PairMessages
    MinOrderSize = 1
    MaxOrderSize = 3
    MaxRequests = 3
    Threads = {t1, t2}
INVARIANTS
    PendingIsListed
\* Clients may stop sending; the model stops at MaxRequests.
CHECK_DEADLOCK FALSE

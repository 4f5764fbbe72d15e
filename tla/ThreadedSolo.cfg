SPECIFICATION Spec
CONSTANTS
    Symbols <- MCSymbols
    Names <- MCNames
    OrderIds <- MCOrderIds
    Messages <- SoloMessages
    MinOrderSize = 1
    MaxOrderSize = 3
    MaxRequests = 4
    Threads = {t1}
PROPERTIES
    ImplementsMatching
\* Clients may stop sending; the model stops at MaxRequests.
CHECK_DEADLOCK FALSE

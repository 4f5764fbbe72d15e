SPECIFICATION Spec
CONSTANTS
    Clients = {c1, c2, c3}
    MaxConnections = 2
    MaxArrivals = 5
INVARIANTS
    FullWhenRejecting
\* A stopped server and clients that do not come back.
CHECK_DEADLOCK FALSE

SPECIFICATION MainSpec
CONSTANTS
    Clients = {c1, c2, c3}
    MaxConnections = 2
    MaxArrivals = 5
    Peers = {c1, c2, c3}
    MaxConnects = 5
INVARIANTS
    CountExplained
    AtMostMax
    TotalExplained
PROPERTIES
    QueuedDecided
    AcceptedRead
    Exits
\* A stopped server and clients that do not come back.
CHECK_DEADLOCK FALSE

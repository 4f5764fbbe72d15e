SPECIFICATION Spec
CONSTANTS
    Pages = {p1}
    MaxStarts = 2
    MaxStops = 1
    MaxOrders = 2
INVARIANTS
    StoppedInConnect
\* Users may stop clicking, and the model stops at its bounds.
CHECK_DEADLOCK FALSE

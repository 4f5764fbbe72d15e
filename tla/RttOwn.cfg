SPECIFICATION Spec
CONSTANTS
    Warmup = 1
    Tests = 2
    Bars = 2
INVARIANTS
    RttIsOwn
\* The run is over when its orders are.
CHECK_DEADLOCK FALSE

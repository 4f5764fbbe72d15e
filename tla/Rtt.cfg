SPECIFICATION Spec
CONSTANTS
    Warmup = 1
    Tests = 3
    Bars = 2
INVARIANTS
    TypeOK
    ExactUntilTimeout
    TimesExplained
PROPERTIES
    BenchmarkEnds
    MeasuredIsSaved
\* The run is over when its orders are.
CHECK_DEADLOCK FALSE

SPECIFICATION ReportsSpec
CONSTANTS
    Times = {1, 2, 3}
    Bounds <- MCBounds
    Window = 4
    MaxResults = 6
INVARIANTS
    LossShown

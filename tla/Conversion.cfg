SPECIFICATION Spec
CONSTANTS
    Calls = 2
    Reports = 1
INVARIANTS
    RowMatchesDisk
PROPERTY
    StopEnds

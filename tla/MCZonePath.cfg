CONSTANTS
    Dim = 3
    Infinity = 1000
    Unit = 4
    Duration = 4
    MaxPieces = 2
    MaxWaits = 2
    TA <- Transitions
SPECIFICATION Spec
INVARIANTS
    TypeOK
    StaysCanonical
    NothingLost
    NothingInvented
    SatisfiableIffReached
    FiniteWhenMerged
    MergeExact
    MergeEager
CHECK_DEADLOCK FALSE

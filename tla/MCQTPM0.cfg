CONSTANTS
    Dim = 2
    Infinity = 1000
    Inf = 40
    Unit = 4
    TA <- Pattern0
    Pieces <- Signals0
    MaxPieces = 3
    Weight = {TRUE, FALSE}
    Zero <- BooleanZero
    One <- BooleanOne
    Plus <- BooleanPlus
    Times <- BooleanTimes
    Cost <- BooleanCost
    Reuse = FALSE
    Calls = {}
SPECIFICATION EngineSpec
INVARIANTS
    SplitHarmless
    BooleanSemantics

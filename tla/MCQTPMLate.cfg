CONSTANTS
    Dim = 3
    Infinity = 1000
    Inf = 40
    Unit = 4
    TA <- LatePattern
    Pieces <- Signals
    MaxPieces = 2
    Weight <- Margins
    Zero <- MaxMinZero
    One <- MaxMinOne
    Plus <- MaxMinPlus
    Times <- MaxMinTimes
    Cost <- RobustnessCost
    Reuse = FALSE
    Calls = {}
SPECIFICATION EngineSpec
INVARIANTS
    MatchComplete

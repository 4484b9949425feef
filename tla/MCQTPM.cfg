CONSTANTS
    Dim = 3
    Infinity = 1000
    Inf = 40
    Unit = 4
    TA <- Pattern
    Pieces <- ShortSignals
    MaxPieces = 3
    Weight <- Costs
    Zero <- MinPlusZero
    One <- MinPlusOne
    Plus <- MinPlusPlus
    Times <- MinPlusTimes
    Cost <- RobustnessCost
    Reuse = FALSE
    Calls = {}
SPECIFICATION EngineSpec
INVARIANTS
    EngineTypeOK
    MatchSound
    MatchComplete
    MergedUp
    CallsFit
PROPERTIES
    ImplementsMatcher

CONSTANTS
    Vertex = {1, 2, 3, 4}
    Inf = 4
    Weight <- Costs
    Zero <- MinPlusZero
    Plus <- MinPlusPlus
    Times <- MinPlusTimes
    Graphs <- InputGraphs
    NoResult = NoResult
SPECIFICATION FairSpec
INVARIANTS
    TypeOK
    NoLostResidual
    SettledUpToOwed
    NeverOvershoots
    FixpointOnReturn
PROPERTIES
    ImplementsShortestDistance
    Termination
CHECK_DEADLOCK FALSE

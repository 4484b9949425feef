CONSTANTS
    N = 4
    Inf = 30
    Weight <- Numbers
    Zero <- MinPlusZero
    One <- MinPlusOne
    Plus <- MinPlusPlus
    Times <- MinPlusTimes
    Star <- MinPlusStar
    Graphs <- InputGraphs
SPECIFICATION Spec
INVARIANTS
    TypeOK
    WalksSoFar
CHECK_DEADLOCK FALSE

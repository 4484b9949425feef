CONSTANTS
    Dim = 2
    Infinity = 1000
    Unit = 3
    TA <- Automata
    InitLists <- Lists
SPECIFICATION FairSpec
INVARIANTS
    TypeOK
    StepsSimulated
    VerticesReached
PROPERTIES
    Returns

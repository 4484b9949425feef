CONSTANTS
    Dim = 3
    Infinity = 1000
    Inf = 1000
    TA <- Automaton
    Calls <- AllCalls
    One <- MaxMinOne
    Cost <- RobustnessCost
    Reuse = TRUE
SPECIFICATION Spec
PROPERTIES
    OnlyRemovedForgotten

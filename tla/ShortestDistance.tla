-------------------------- MODULE ShortestDistance --------------------------
(***************************************************************************)
(* What a single-source shortest-distance computation over an idempotent   *)
(* semiring promises: given a weighted graph and initial weights, the      *)
(* answer is the least assignment of weights to vertices that covers the   *)
(* initial weights and is closed under the edges.                          *)
(*                                                                         *)
(* Weights are ordered by Covers: a covers b when adding b to a changes    *)
(* nothing.  For min-plus that is a <= b, for max-plus and max-min a >= b. *)
(***************************************************************************)
EXTENDS Integers

CONSTANTS
    Vertex,         \* the vertices of the graph
    Weight,         \* the carrier of the semiring
    Zero,           \* its neutral element for Plus
    Plus(_, _),     \* its sum
    Times(_, _),    \* its product
    Graphs,         \* the inputs: [edges : set of [src, dst, w], init : partial weights]
    NoResult        \* the answer before there is one

VARIABLES
    graph,          \* the input
    result          \* NoResult, then the weight of every vertex

Covers(a, b) == Plus(a, b) = a

(* f covers the initial weights, and what an edge carries over. *)
IsSolution(G, f) ==
    /\ \A v \in DOMAIN G.init : Covers(f[v], G.init[v])
    /\ \A e \in G.edges : Covers(f[e.dst], Times(f[e.src], e.w))

IsLeastSolution(G, f) ==
    /\ IsSolution(G, f)
    /\ \A g \in [Vertex -> Weight] :
           IsSolution(G, g) => \A v \in Vertex : Covers(g[v], f[v])

Init ==
    /\ graph \in Graphs
    /\ result = NoResult

Answer ==
    /\ result = NoResult
    /\ result' \in [Vertex -> Weight]
    /\ IsLeastSolution(graph, result')
    /\ UNCHANGED graph

Spec == Init /\ [][Answer]_<<graph, result>>
=============================================================================

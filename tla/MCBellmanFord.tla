--------------------------- MODULE MCBellmanFord ---------------------------
(* Small inputs for BellmanFord, over min-plus with non-negative weights.  *)
EXTENDS BellmanFord_proofs, Semirings, FiniteSetsExt, TLC

Costs == 0 .. Inf

E(s, d, w) == [src |-> s, dst |-> d, w |-> w]

(* Every graph with three edges between three of the vertices whose        *)
(* weights are drawn from two values, self-loops, parallel edges and       *)
(* cycles included, and two choices of initial vertices.                   *)
SmallEdges == [src : 1 .. 3, dst : 1 .. 3, w : {0, 1}]

SmallGraphs ==
    [edges : kSubset(3, SmallEdges), init : {(1 :> 0), (1 :> 2 @@ 2 :> 0), <<>>}]

(* The graph of bellman_ford_test.cc.  The weight of every edge is changed *)
(* by what the distance from vertex 2 changes along it, which makes it     *)
(* non-negative: every sum that is compared with a distance changes as the *)
(* distance does.  Vertex 3 can improve after it was processed, from 1,    *)
(* the shortcut's, to 0.                                                   *)
TestEdges == {E(1, 3, -2), E(2, 1, 4), E(2, 3, 3), E(3, 4, 2), E(4, 2, -1)}
FromTwo   == <<4, 0, 2, 4>>

TestGraph ==
    [edges |-> {[e EXCEPT !.w = @ + FromTwo[e.src] - FromTwo[e.dst]] : e \in TestEdges},
     init  |-> (2 :> 0)]

InputGraphs == SmallGraphs \cup {TestGraph}
=============================================================================

---------------------------- MODULE WarshallFloyd ----------------------------
(***************************************************************************)
(* warshall_froid of warshall_froid.hh: the distances between all pairs of *)
(* vertices over a semiring with a star, by Kleene's elimination of one    *)
(* vertex after the other, in place.                                       *)
(*                                                                         *)
(* Vertices are numbered in the order of boost::vertices(G).  The graph is *)
(* a sequence of edges [src, dst, w]; edges may be parallel.               *)
(***************************************************************************)
EXTENDS Integers, Sequences, SequencesExt, FiniteSetsExt

CONSTANTS
    N,                                            \* the number of vertices
    Weight, Zero, One, Plus(_, _), Times(_, _), Star(_),
    Graphs                                        \* the inputs

ASSUME WarshallFloydAssumption ==
    /\ N \in Nat \ {0}
    /\ \A G \in Graphs : \A e \in Range(G) : {e.src, e.dst} \subseteq 1 .. N

VARIABLES
    G,          \* the parameter G
    distance,   \* the parameter distance, the output
    k,          \* the vertex of the outer loop; 0 before it and N + 1 after it
    todo        \* what the inner loops have still to do for k, in order

vars == <<G, distance, k, todo>>

Vertex == 1 .. N

(* Mutant: one direction of every pair is left out. *)
InnerUpper(v) ==
    LET others == SelectSeq([i \in Vertex |-> i], LAMBDA i : i # v)
        row(i) == [n \in DOMAIN others |-> [op |-> "detour", i |-> i, j |-> others[n]]]
    IN  SelectSeq(FlattenSeq([n \in DOMAIN others |-> row(others[n])]), LAMBDA s : s.i <= s.j)
          \o [n \in DOMAIN others |-> [op |-> "scale", i |-> others[n], j |-> v]]
          \o <<[op |-> "star", i |-> v, j |-> v]>>

(* The inner loops for k, in order: first every pair of other vertices,    *)
(* then the row and the column of k, then its diagonal entry.              *)
Inner(v) ==
    LET others == SelectSeq([i \in Vertex |-> i], LAMBDA i : i # v)
        row(i) == [n \in DOMAIN others |-> [op |-> "detour", i |-> i, j |-> others[n]]]
    IN  FlattenSeq([n \in DOMAIN others |-> row(others[n])])
          \o [n \in DOMAIN others |-> [op |-> "scale", i |-> others[n], j |-> v]]
          \o <<[op |-> "star", i |-> v, j |-> v]>>

(* Every entry is zero, then every edge is added to the entry of its ends. *)
EdgeMatrix(edges) ==
    LET add(d, e) == [d EXCEPT ![e.src][e.dst] = Plus(@, e.w)]
    IN  FoldLeft(add, [i \in Vertex |-> [j \in Vertex |-> Zero]], edges)

Init ==
    /\ G \in Graphs
    /\ distance = EdgeMatrix(G)
    /\ k = 0 /\ todo = <<>>

NextVertex ==
    /\ todo = <<>> /\ k <= N
    /\ k' = k + 1
    /\ todo' = IF k' \in Vertex THEN Inner(k') ELSE <<>>
    /\ UNCHANGED <<G, distance>>

step == Head(todo)

(* i reaches j by way of k, going round k as often as pays. *)
Detour ==
    /\ todo # <<>> /\ step.op = "detour"
    /\ distance' = [distance EXCEPT ![step.i][step.j] =
                       Plus(@, Times(Times(distance[step.i][k], Star(distance[k][k])),
                                     distance[k][step.j]))]
    /\ todo' = Tail(todo)
    /\ UNCHANGED <<G, k>>

(* The entries from and to k take the rounds at k in.  In the code both    *)
(* are of one iteration over i.                                            *)
Scale ==
    /\ todo # <<>> /\ step.op = "scale"
    /\ distance' = [distance EXCEPT ![k][step.i] = Times(Star(distance[k][k]), @),
                                    ![step.i][k] = Times(@, Star(distance[k][k]))]
    /\ todo' = Tail(todo)
    /\ UNCHANGED <<G, k>>

(* The diagonal entry of k takes the empty walk in. *)
StarDiagonal ==
    /\ todo # <<>> /\ step.op = "star"
    /\ distance' = [distance EXCEPT ![k][k] = Star(@)]
    /\ todo' = Tail(todo)
    /\ UNCHANGED <<G, k>>

Next == NextVertex \/ Detour \/ Scale \/ StarDiagonal

Spec == Init /\ [][Next]_vars

-----------------------------------------------------------------------------
Sum(ws) == FoldSet(Plus, Zero, ws)

(* The sum of the weights of the walks of at most n edges from i to j that *)
(* pass only vertices of K in between.  Without a cycle that pays, longer  *)
(* walks than N edges add nothing.                                         *)
Walks(K, i, j) ==
    LET into(v) == {e \in Range(G) : e.dst = v}
        walk[n \in 1 .. N, v \in Vertex] ==
            Plus(Sum({e.w : e \in {d \in into(v) : d.src = i}}),
                 IF n = 1 THEN Zero
                 ELSE Sum({Times(walk[n - 1, e.src], e.w) : e \in {d \in into(v) : d.src \in K}}))
    IN  walk[N, j]

(* A cycle at v pays when it is worth more than staying: in min-plus, when *)
(* its weight is negative.  To go round it for ever is worth more than any *)
(* weight.                                                                 *)
Pays(K, v) == Plus(One, Walks(K, v, v)) # One
Best == CHOOSE w \in Weight : \A x \in Weight : Plus(w, x) = w

(* The sum over all walks from i to j through K.                           *)
Eliminated(K, i, j) ==
    LET going(u, v) == Plus(Walks(K, u, v), IF u = v /\ u \in K THEN One ELSE Zero)
    IN  IF \E v \in K : Pays(K, v) /\ Zero \notin {going(i, v), going(v, j)}
        THEN Best ELSE going(i, j)

Done == Vertex \cap 1 .. k

(* The product of the two infinities is NaN, which is no weight.  It stands*)
(* only between a vertex with a cycle that paid when it was eliminated,    *)
(* whose star is minus infinity, and one it had no walk to or from.        *)
TypeOK ==
    /\ k \in 0 .. N + 1
    /\ todo \in Seq([op : {"detour", "scale", "star"}, i : Vertex, j : Vertex])
    /\ DOMAIN distance = Vertex
    /\ \A i \in Vertex :
          /\ DOMAIN distance[i] = Vertex
          /\ \A j \in Vertex :
                \/ distance[i][j] \in Weight
                \/ \E v \in {i, j} \cap Done : Plus(One, Eliminated(1 .. v - 1, v, v)) # One

(* The argument for the algorithm: when the vertices up to k have been     *)
(* eliminated, an entry is the sum over the walks that pass only such      *)
(* vertices in between, and an eliminated vertex reaches itself by the     *)
(* empty walk too.  When the loop has ended these are all the walks.  Where*)
(* an entry has become NaN the others are still right.                     *)
WalksSoFar ==
    todo = <<>> =>
        \A i, j \in Vertex :
            distance[i][j] \in Weight => distance[i][j] = Eliminated(Done, i, j)

=============================================================================

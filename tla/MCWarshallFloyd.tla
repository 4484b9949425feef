--------------------------- MODULE MCWarshallFloyd ---------------------------
(* The graph of the unit test and what can be made of it, over min-plus.   *)
EXTENDS WarshallFloyd, Semirings

(* The doubles that are numbers. *)
Numbers == Doubles \ {NaN}

E(s, d, w) == [src |-> s, dst |-> d, w |-> w]

(* warshall_froid_test.cc *)
TestGraph == <<E(1, 3, -2), E(2, 1, 4), E(2, 3, 3), E(3, 4, 2), E(4, 2, -1)>>

(* Self-loops, a parallel edge that is worse, one that is better, short    *)
(* cuts, edges that close a cycle of weight zero, and one that closes a    *)
(* cycle of negative weight.                                               *)
Additions ==
    <<E(4, 4, 1), E(2, 3, 5), E(2, 1, 2), E(3, 1, 2), E(4, 1, 0), E(2, 4, 1), E(1, 1, 0), E(3, 1, 1)>>

Candidates == TestGraph \o Additions

Chosen(S) ==
    LET picked == SelectSeq([n \in DOMAIN Candidates |-> n], LAMBDA n : n \in S)
    IN  [n \in DOMAIN picked |-> Candidates[picked[n]]]

(* Every subset of these edges. *)
InputGraphs == {Chosen(S) : S \in SUBSET DOMAIN Candidates}

(* The same graphs over the Boolean semiring: which vertices are reached.  *)
BooleanGraphs == {[n \in DOMAIN H |-> [H[n] EXCEPT !.w = BooleanOne]] : H \in InputGraphs}
=============================================================================

---------------------------- MODULE BellmanFord ----------------------------
(***************************************************************************)
(* bellman_ford of bellman_ford.hh: the generic single-source shortest-    *)
(* distance algorithm with a work queue (Mohri 2009), over any semiring.   *)
(*                                                                         *)
(* r[v] is the weight that reached v since v was last taken from the       *)
(* queue.  A vertex may be queued several times at once.                   *)
(*                                                                         *)
(* The order in which the hash map of initial weights is walked is not     *)
(* determined by the code, nor is the order of out-edges by its callers:   *)
(* both are left open.                                                     *)
(***************************************************************************)
EXTENDS Sequences, FiniteSets

CONSTANTS Vertex, Weight, Zero, Plus(_, _), Times(_, _), Graphs, NoResult

VARIABLES
    graph,       \* the parameters G and init of the call
    distance,    \* the parameter distance, the output
    r,           \* the local map r
    Q,           \* the local queue Q
    seeds,       \* entries of init the loop over it has not reached
    currentR,    \* the local currentR
    todo,        \* out-edges of the vertex just popped still to be relaxed
    returned     \* whether the call has returned

vars == <<graph, distance, r, Q, seeds, currentR, todo, returned>>

QElems(q) == {q[i] : i \in DOMAIN q}

(* Mutant: the vertices outside init start at a weight of the input.      *)
InitFromWeights ==
    /\ graph \in Graphs
    /\ distance \in {[v \in Vertex |-> e.w] : e \in graph.edges}
    /\ r = [v \in Vertex |-> Zero]
    /\ Q = <<>> /\ seeds = DOMAIN graph.init
    /\ currentR = Zero /\ todo = {} /\ returned = FALSE

(* Mutant: the residuals are not initialised. *)
InitWithoutResiduals ==
    /\ graph \in Graphs
    /\ distance = [v \in Vertex |-> Zero] /\ r = <<>>
    /\ Q = <<>> /\ seeds = DOMAIN graph.init
    /\ currentR = Zero /\ todo = {} /\ returned = FALSE

(* The loop over vertices(G) has set every distance and residual to zero. *)
Init ==
    /\ graph \in Graphs
    /\ distance = [v \in Vertex |-> Zero]
    /\ r = [v \in Vertex |-> Zero]
    /\ Q = <<>>
    /\ seeds = DOMAIN graph.init
    /\ currentR = Zero
    /\ todo = {}
    /\ returned = FALSE

(* One iteration of the loop over init. *)
Seed(v) ==
    /\ v \in seeds
    /\ distance' = [distance EXCEPT ![v] = graph.init[v]]
    /\ r' = [r EXCEPT ![v] = graph.init[v]]
    /\ Q' = Append(Q, v)
    /\ seeds' = seeds \ {v}
    /\ UNCHANGED <<graph, currentR, todo, returned>>

(* Mutant: the residual is read after it was reset. *)
PopAfterReset ==
    /\ seeds = {} /\ todo = {}
    /\ Q # <<>>
    /\ r' = [r EXCEPT ![Head(Q)] = Zero]
    /\ currentR' = r'[Head(Q)]
    /\ todo' = {e \in graph.edges : e.src = Head(Q)}
    /\ Q' = Tail(Q)
    /\ UNCHANGED <<graph, distance, seeds, returned>>

(* Mutant: the vertex is read but not taken from the queue. *)
PopKeeping ==
    /\ seeds = {} /\ todo = {}
    /\ Q # <<>>
    /\ currentR' = r[Head(Q)]
    /\ r' = [r EXCEPT ![Head(Q)] = Zero]
    /\ todo' = {e \in graph.edges : e.src = Head(Q)}
    /\ UNCHANGED <<graph, distance, Q, seeds, returned>>

(* The head of the while loop. *)
Pop ==
    /\ seeds = {} /\ todo = {}
    /\ Q # <<>>
    /\ LET q == Head(Q) IN
       /\ currentR' = r[q]
       /\ r' = [r EXCEPT ![q] = Zero]
       /\ todo' = {e \in graph.edges : e.src = q}
    /\ Q' = Tail(Q)
    /\ UNCHANGED <<graph, distance, seeds, returned>>

(* Mutant: the improved vertex is not queued. *)
RelaxWithoutPush(e) ==
    /\ e \in todo
    /\ distance' = [distance EXCEPT ![e.dst] = Plus(@, Times(currentR, e.w))]
    /\ r' = [r EXCEPT ![e.dst] =
                IF distance' # distance THEN Plus(@, Times(currentR, e.w)) ELSE @]
    /\ todo' = todo \ {e}
    /\ UNCHANGED <<graph, Q, seeds, currentR, returned>>

(* Mutant: the weight of the edge alone is carried over. *)
RelaxByWeight(e) ==
    /\ e \in todo
    /\ distance' = [distance EXCEPT ![e.dst] = Plus(@, e.w)]
    /\ IF distance' # distance
       THEN r' = [r EXCEPT ![e.dst] = Plus(@, e.w)] /\ Q' = Append(Q, e.dst)
       ELSE UNCHANGED <<r, Q>>
    /\ todo' = todo \ {e}
    /\ UNCHANGED <<graph, seeds, currentR, returned>>

(* One iteration of the loop over out_edges. *)
Relax(e) ==
    /\ e \in todo
    /\ LET carried == Times(currentR, e.w)
           reached == Plus(distance[e.dst], carried)
       IN IF distance[e.dst] # reached
          THEN /\ distance' = [distance EXCEPT ![e.dst] = reached]
               /\ r' = [r EXCEPT ![e.dst] = Plus(@, carried)]
               /\ Q' = Append(Q, e.dst)
          ELSE UNCHANGED <<distance, r, Q>>
    /\ todo' = todo \ {e}
    /\ UNCHANGED <<graph, seeds, currentR, returned>>

(* The queue is empty: the while loop ends. *)
Return ==
    /\ seeds = {} /\ todo = {} /\ Q = <<>>
    /\ ~returned
    /\ returned' = TRUE
    /\ UNCHANGED <<graph, distance, r, Q, seeds, currentR, todo>>

Next ==
    \/ \E v \in seeds : Seed(v)
    \/ Pop
    \/ \E e \in todo : Relax(e)
    \/ Return

Spec == Init /\ [][Next]_vars

FairSpec == Spec /\ WF_vars(Next)

-----------------------------------------------------------------------------
(* The abstract specification this function implements. *)
SD == INSTANCE ShortestDistance
        WITH result <- IF returned THEN distance ELSE NoResult

Covers(a, b) == Plus(a, b) = a

TypeOK ==
    /\ graph \in Graphs
    /\ distance \in [Vertex -> Weight]
    /\ r \in [Vertex -> Weight]
    /\ Q \in Seq(Vertex)
    /\ seeds \subseteq DOMAIN graph.init
    /\ currentR \in Weight
    /\ todo \subseteq graph.edges
    /\ returned \in BOOLEAN

(* No weight is lost: a vertex with a pending residual is in the queue, so *)
(* the test in front of the push never skips a vertex that still has to be *)
(* processed.                                                              *)
NoLostResidual == \A v \in Vertex : r[v] # Zero => v \in QElems(Q)

(* What a vertex still owes along one of its out-edges. *)
Owed(e) == IF e \in todo THEN Plus(r[e.src], currentR) ELSE r[e.src]

(* Every edge is settled up to what is still owed along it: relaxing it    *)
(* with the whole distance of its source would change no more than         *)
(* relaxing it with the residual that is still to be processed.            *)
SettledUpToOwed ==
    \A e \in graph.edges :
        Plus(distance[e.dst], Times(distance[e.src], e.w)) =
            Plus(distance[e.dst], Times(Owed(e), e.w))

(* When the function returns, no edge and no initial weight can improve a  *)
(* distance.                                                               *)
FixpointOnReturn == returned => SD!IsSolution(graph, distance)

(* At no time does the algorithm claim more than every solution grants: a  *)
(* distance, a residual or the weight in flight is covered by any          *)
(* assignment that is closed under the edges.                              *)
NeverOvershoots ==
    \A g \in [Vertex -> Weight] :
        SD!IsSolution(graph, g) =>
            /\ \A v \in Vertex : Covers(g[v], distance[v]) /\ Covers(g[v], r[v])
            /\ \A e \in todo : Covers(g[e.src], currentR)

(* The call returns. *)
Termination == <>returned

(* The call returns the least solution of its input, once, and leaves it.  *)
ImplementsShortestDistance == SD!Spec
=============================================================================

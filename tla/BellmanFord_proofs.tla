------------------------ MODULE BellmanFord_proofs ------------------------
(***************************************************************************)
(* Proofs about BellmanFord for every vertex set, every input graph and    *)
(* every semiring whose sum is idempotent.                                 *)
(***************************************************************************)
EXTENDS BellmanFord, Integers, TLAPS

(* What the arguments below use of the weight class: an idempotent         *)
(* commutative sum with neutral element Zero, and a product that           *)
(* distributes over the sum from the right and that Zero annihilates.      *)
ASSUME SemiringLaws ==
    /\ Zero \in Weight
    /\ \A a, b \in Weight : Plus(a, b) \in Weight /\ Times(a, b) \in Weight
    /\ \A a \in Weight : Plus(a, a) = a /\ Plus(a, Zero) = a
    /\ \A a \in Weight : Times(Zero, a) = Zero
    /\ \A a, b \in Weight : Plus(a, b) = Plus(b, a)
    /\ \A a, b, c \in Weight : Plus(Plus(a, b), c) = Plus(a, Plus(b, c))
    /\ \A a, b, c \in Weight :
           Times(Plus(a, b), c) = Plus(Times(a, c), Times(b, c))

ASSUME InputAssumption ==
    \A G \in Graphs :
        /\ G.edges \subseteq [src : Vertex, dst : Vertex, w : Weight]
        /\ DOMAIN G.init \subseteq Vertex
        /\ \A v \in DOMAIN G.init : G.init[v] \in Weight

-----------------------------------------------------------------------------
(* Typing *)

LEMMA EdgeTyping ==
    ASSUME NEW G \in Graphs, NEW e \in G.edges
    PROVE  e.src \in Vertex /\ e.dst \in Vertex /\ e.w \in Weight
  BY InputAssumption

LEMMA TypeStep == TypeOK /\ [Next]_vars => TypeOK'
<1> SUFFICES ASSUME TypeOK, [Next]_vars PROVE TypeOK'
  OBVIOUS
<1> USE DEF TypeOK
<1>1. ASSUME NEW v \in seeds, Seed(v) PROVE TypeOK'
  <2>1. v \in Vertex /\ graph.init[v] \in Weight
    BY <1>1, InputAssumption
  <2> QED
    BY <1>1, <2>1 DEF Seed
<1>2. CASE Pop
  <2>1. Head(Q) \in Vertex /\ Tail(Q) \in Seq(Vertex)
    BY <1>2 DEF Pop
  <2> QED
    BY <1>2, <2>1, SemiringLaws DEF Pop
<1>3. ASSUME NEW e \in todo, Relax(e) PROVE TypeOK'
  <2>1. e.dst \in Vertex /\ e.w \in Weight
    BY EdgeTyping
  <2>2. /\ Plus(distance[e.dst], Times(currentR, e.w)) \in Weight
        /\ Plus(r[e.dst], Times(currentR, e.w)) \in Weight
    BY <2>1, SemiringLaws
  <2>3. CASE distance[e.dst] # Plus(distance[e.dst], Times(currentR, e.w))
    <3>1. /\ distance' = [distance EXCEPT
                             ![e.dst] = Plus(distance[e.dst], Times(currentR, e.w))]
          /\ r' = [r EXCEPT ![e.dst] = Plus(r[e.dst], Times(currentR, e.w))]
          /\ Q' = Append(Q, e.dst)
          /\ todo' = todo \ {e}
          /\ UNCHANGED <<graph, seeds, currentR, returned>>
      BY <1>3, <2>3 DEF Relax
    <3>2. distance' \in [Vertex -> Weight] /\ r' \in [Vertex -> Weight]
      BY <3>1, <2>1, <2>2
    <3>3. Q' \in Seq(Vertex)
      BY <3>1, <2>1
    <3> QED
      BY <3>1, <3>2, <3>3
  <2>4. CASE distance[e.dst] = Plus(distance[e.dst], Times(currentR, e.w))
    BY <1>3, <2>4 DEF Relax
  <2> QED
    BY <2>3, <2>4
<1>4. CASE Return
  BY <1>4 DEF Return
<1>5. CASE UNCHANGED vars
  BY <1>5 DEF vars
<1> QED
  BY <1>1, <1>2, <1>3, <1>4, <1>5 DEF Next

(* The state has its types in every reachable state.                       *)
THEOREM TypeCorrect == Spec => []TypeOK
<1>1. Init => TypeOK
  <2> SUFFICES ASSUME Init PROVE TypeOK
    OBVIOUS
  <2>1. Zero \in Weight
    BY SemiringLaws
  <2>2. <<>> \in Seq(Vertex)
    OBVIOUS
  <2> QED
    BY <2>1, <2>2 DEF Init, TypeOK
<1> QED
  BY <1>1, TypeStep, PTL DEF Spec

LEMMA GraphConstant == [Next]_vars => graph' = graph
<1>1. ASSUME NEW v \in seeds, Seed(v) PROVE graph' = graph
  BY <1>1 DEF Seed
<1>2. ASSUME NEW e \in todo, Relax(e) PROVE graph' = graph
  BY <1>2 DEF Relax
<1>3. Pop \/ Return \/ UNCHANGED vars => graph' = graph
  BY DEF Pop, Return, vars
<1> QED
  BY <1>1, <1>2, <1>3 DEF Next

-----------------------------------------------------------------------------
(* Algebra of an idempotent semiring *)

LEMMA RightDistributes ==
    ASSUME NEW a \in Weight, NEW b \in Weight, NEW c \in Weight
    PROVE  Times(Plus(a, b), c) = Plus(Times(a, c), Times(b, c))
  BY SemiringLaws

LEMMA Absorbs ==
    ASSUME NEW a \in Weight, NEW x \in Weight
    PROVE  Plus(Plus(a, x), x) = Plus(a, x)
<1>1. Plus(Plus(a, x), x) = Plus(a, Plus(x, x))
  BY SemiringLaws
<1>2. Plus(x, x) = x
  BY SemiringLaws
<1> QED
  BY <1>1, <1>2

LEMMA PlusSwap ==
    ASSUME NEW a \in Weight, NEW b \in Weight, NEW c \in Weight
    PROVE  Plus(Plus(a, b), c) = Plus(Plus(a, c), b)
<1>1. Plus(Plus(a, b), c) = Plus(a, Plus(b, c)) /\ Plus(Plus(a, c), b) = Plus(a, Plus(c, b))
  BY SemiringLaws
<1>2. Plus(b, c) = Plus(c, b)
  BY SemiringLaws
<1> QED
  BY <1>1, <1>2

(* Two sums over the same term stay equal when that term grows ...         *)
LEMMA GrowLeft ==
    ASSUME NEW a \in Weight, NEW b \in Weight, NEW c \in Weight, NEW x \in Weight,
           Plus(a, b) = Plus(a, c)
    PROVE  Plus(Plus(a, x), b) = Plus(Plus(a, x), c)
  BY PlusSwap

(* ... and when the other terms grow by the same amount.                   *)
LEMMA GrowRight ==
    ASSUME NEW a \in Weight, NEW b \in Weight, NEW c \in Weight, NEW x \in Weight,
           Plus(a, b) = Plus(a, c)
    PROVE  Plus(a, Plus(b, x)) = Plus(a, Plus(c, x))
<1>1. Plus(a, Plus(b, x)) = Plus(Plus(a, b), x) /\ Plus(a, Plus(c, x)) = Plus(Plus(a, c), x)
  BY SemiringLaws
<1> QED
  BY <1>1

(* A term that is already covered can be dropped.                          *)
LEMMA DropCovered ==
    ASSUME NEW a \in Weight, NEW b \in Weight, NEW x \in Weight, Covers(a, x)
    PROVE  Plus(a, Plus(b, x)) = Plus(a, b)
<1>1. Plus(a, Plus(b, x)) = Plus(Plus(a, b), x)
  BY SemiringLaws
<1>2. Plus(Plus(a, b), x) = Plus(Plus(a, x), b)
  BY PlusSwap
<1> QED
  BY <1>1, <1>2 DEF Covers

LEMMA CoversPlus ==
    ASSUME NEW g \in Weight, NEW a \in Weight, NEW b \in Weight,
           Covers(g, a), Covers(g, b)
    PROVE  Covers(g, Plus(a, b))
<1>1. Plus(g, Plus(a, b)) = Plus(Plus(g, a), b)
  BY SemiringLaws
<1> QED
  BY <1>1 DEF Covers

LEMMA CoversTimes ==
    ASSUME NEW g \in Weight, NEW a \in Weight, NEW w \in Weight, Covers(g, a)
    PROVE  Covers(Times(g, w), Times(a, w))
<1>1. Times(Plus(g, a), w) = Plus(Times(g, w), Times(a, w))
  BY SemiringLaws
<1> QED
  BY <1>1 DEF Covers

LEMMA CoversTrans ==
    ASSUME NEW a \in Weight, NEW b \in Weight, NEW c \in Weight,
           Covers(a, b), Covers(b, c)
    PROVE  Covers(a, c)
<1>1. Plus(Plus(a, b), c) = Plus(a, Plus(b, c))
  BY SemiringLaws
<1>2. Plus(a, c) = Plus(Plus(a, b), c) /\ Plus(a, Plus(b, c)) = Plus(a, b)
  BY DEF Covers
<1> QED
  BY <1>1, <1>2 DEF Covers

LEMMA CoversSelf == ASSUME NEW a \in Weight PROVE Covers(a, a) /\ Covers(a, Zero)
  BY SemiringLaws DEF Covers

-----------------------------------------------------------------------------
(* The queue *)

LEMMA QElemsAppend ==
    ASSUME NEW q \in Seq(Vertex), NEW v \in Vertex
    PROVE  QElems(Append(q, v)) = QElems(q) \cup {v}
<1>1. Len(Append(q, v)) = Len(q) + 1 /\ Append(q, v)[Len(q) + 1] = v
  OBVIOUS
<1>2. \A i \in 1 .. Len(q) : Append(q, v)[i] = q[i]
  OBVIOUS
<1>3. DOMAIN q = 1 .. Len(q) /\ DOMAIN Append(q, v) = 1 .. (Len(q) + 1) /\ Len(q) \in Nat
  OBVIOUS
<1> QED
  BY <1>1, <1>2, <1>3 DEF QElems

LEMMA QElemsTail ==
    ASSUME NEW q \in Seq(Vertex), q # <<>>, NEW v \in QElems(q), v # Head(q)
    PROVE  v \in QElems(Tail(q))
<1>1. PICK i \in DOMAIN q : v = q[i]
  BY DEF QElems
<1>2. i # 1 /\ i \in 1 .. Len(q) /\ Len(q) \in Nat
  BY <1>1
<1>3. i - 1 \in DOMAIN Tail(q) /\ Tail(q)[i - 1] = q[i]
  BY <1>2
<1> QED
  BY <1>1, <1>3 DEF QElems

(* What one relaxation does, whether or not it finds an improvement.       *)
LEMMA RelaxEffect ==
    ASSUME TypeOK, NEW e \in todo, Relax(e)
    PROVE  /\ Times(currentR, e.w) \in Weight
           /\ e.src \in Vertex /\ e.dst \in Vertex /\ e.w \in Weight
           /\ distance' = [distance EXCEPT
                             ![e.dst] = Plus(distance[e.dst], Times(currentR, e.w))]
           /\ \/ /\ distance' = distance /\ r' = r /\ Q' = Q
              \/ /\ r' = [r EXCEPT ![e.dst] = Plus(r[e.dst], Times(currentR, e.w))]
                 /\ Q' = Append(Q, e.dst)
           /\ todo' = todo \ {e}
           /\ UNCHANGED <<graph, seeds, currentR, returned>>
<1>1. e.src \in Vertex /\ e.dst \in Vertex /\ e.w \in Weight
  BY EdgeTyping DEF TypeOK
<1>2. Times(currentR, e.w) \in Weight
  BY <1>1, SemiringLaws DEF TypeOK
<1>3. CASE distance[e.dst] # Plus(distance[e.dst], Times(currentR, e.w))
  BY <1>1, <1>2, <1>3 DEF Relax
<1>4. CASE distance[e.dst] = Plus(distance[e.dst], Times(currentR, e.w))
  <2>1. distance = [distance EXCEPT ![e.dst] = distance[e.dst]]
    BY <1>1 DEF TypeOK
  <2> QED
    BY <1>1, <1>2, <1>4, <2>1 DEF Relax
<1> QED
  BY <1>3, <1>4

-----------------------------------------------------------------------------
(* A vertex with a pending residual is always in the queue: the algorithm  *)
(* never forgets a weight it has yet to propagate.                         *)
THEOREM NoLostResidualHolds == Spec => []NoLostResidual
<1>1. Init => NoLostResidual
  BY DEF Init, NoLostResidual
<1>2. TypeOK /\ NoLostResidual /\ [Next]_vars => NoLostResidual'
  <2> SUFFICES ASSUME TypeOK, NoLostResidual, [Next]_vars,
                      NEW v \in Vertex, r'[v] # Zero
               PROVE  v \in QElems(Q)'
    BY DEF NoLostResidual
  <2>1. ASSUME NEW u \in seeds, Seed(u) PROVE v \in QElems(Q)'
    <3>1. u \in Vertex
      BY InputAssumption DEF TypeOK
    <3>2. QElems(Q') = QElems(Q) \cup {u}
      BY <2>1, <3>1, QElemsAppend DEF Seed, TypeOK
    <3>3. v = u \/ r[v] # Zero
      BY <2>1 DEF Seed, TypeOK
    <3> QED
      BY <3>2, <3>3 DEF NoLostResidual, QElems
  <2>2. CASE Pop
    <3>1. v # Head(Q) /\ r[v] # Zero
      BY <2>2 DEF Pop, TypeOK
    <3>2. v \in QElems(Q)
      BY <3>1 DEF NoLostResidual
    <3>3. v \in QElems(Tail(Q))
      BY <2>2, <3>1, <3>2, QElemsTail DEF Pop, TypeOK
    <3> QED
      BY <2>2, <3>3 DEF Pop, QElems
  <2>3. ASSUME NEW e \in todo, Relax(e) PROVE v \in QElems(Q)'
    <3>1. CASE r' = r /\ Q' = Q
      BY <3>1 DEF NoLostResidual, QElems
    <3>2. CASE /\ r' = [r EXCEPT ![e.dst] = Plus(r[e.dst], Times(currentR, e.w))]
               /\ Q' = Append(Q, e.dst)
      <4>1. e.dst \in Vertex
        BY EdgeTyping DEF TypeOK
      <4>2. QElems(Q') = QElems(Q) \cup {e.dst}
        BY <3>2, <4>1, QElemsAppend DEF TypeOK
      <4>3. v = e.dst \/ r[v] # Zero
        BY <3>2 DEF TypeOK
      <4> QED
        BY <4>2, <4>3 DEF NoLostResidual, QElems
    <3> QED
      BY <2>3, <3>1, <3>2, RelaxEffect
  <2>4. CASE Return \/ UNCHANGED vars
    BY <2>4 DEF Return, vars, NoLostResidual, QElems
  <2> QED
    BY <2>1, <2>2, <2>3, <2>4 DEF Next
<1> QED
  BY <1>1, <1>2, TypeCorrect, PTL DEF Spec

-----------------------------------------------------------------------------
(* The edges are settled up to what is owed.  Before the first vertex is   *)
(* taken from the queue, everything is still owed.                         *)

SeedingOwesAll == seeds # {} => todo = {} /\ r = distance

LEMMA SeedingInvariant == Spec => []SeedingOwesAll
<1>1. Init => SeedingOwesAll
  BY DEF Init, SeedingOwesAll
<1>2. TypeOK /\ SeedingOwesAll /\ [Next]_vars => SeedingOwesAll'
  <2> SUFFICES ASSUME TypeOK, SeedingOwesAll, [Next]_vars PROVE SeedingOwesAll'
    OBVIOUS
  <2>1. ASSUME NEW v \in seeds, Seed(v) PROVE SeedingOwesAll'
    BY <2>1 DEF Seed, SeedingOwesAll
  <2>2. CASE Pop
    BY <2>2 DEF Pop, SeedingOwesAll
  <2>3. ASSUME NEW e \in todo, Relax(e) PROVE SeedingOwesAll'
    BY <2>3 DEF Relax, SeedingOwesAll
  <2>4. CASE Return \/ UNCHANGED vars
    BY <2>4 DEF Return, vars, SeedingOwesAll
  <2> QED
    BY <2>1, <2>2, <2>3, <2>4 DEF Next
<1> QED
  BY <1>1, <1>2, TypeCorrect, PTL DEF Spec

Settled(e) ==
    Plus(distance[e.dst], Times(distance[e.src], e.w)) =
        Plus(distance[e.dst], Times(Owed(e), e.w))

LEMMA OwedTyping ==
    ASSUME TypeOK, NEW e \in graph.edges
    PROVE  Owed(e) \in Weight /\ distance[e.src] \in Weight /\ distance[e.dst] \in Weight
<1>1. e.src \in Vertex /\ e.dst \in Vertex
  BY EdgeTyping DEF TypeOK
<1> QED
  BY <1>1, SemiringLaws DEF Owed, TypeOK

(* A relaxation of e keeps every edge f settled: first f is settled again  *)
(* with the larger distances and residuals, then the part of the debt of e *)
(* that has been paid is dropped.                                          *)
LEMMA RelaxKeepsSettled ==
    ASSUME TypeOK, NEW e \in todo, Relax(e), NEW f \in graph.edges, Settled(f)
    PROVE  Settled(f)'
<1> DEFINE x == Times(currentR, e.w)
           d == distance[f.dst]
           s == distance[f.src]
           dd == distance'[f.dst]
           ss == distance'[f.src]
           \* what f is owed after the residuals grew, before e is paid
           o == IF f \in todo THEN Plus(r'[f.src], currentR) ELSE r'[f.src]
<1>0. TypeOK'
  <2>1. [Next]_vars => TypeOK'
    BY TypeStep
  <2> QED
    BY <2>1 DEF Next
<1>1. /\ x \in Weight /\ d \in Weight /\ s \in Weight /\ Owed(f) \in Weight
      /\ f.src \in Vertex /\ f.dst \in Vertex /\ f.w \in Weight
      /\ currentR \in Weight
  BY RelaxEffect, OwedTyping, EdgeTyping DEF TypeOK
<1>2. dd \in Weight /\ ss \in Weight /\ r'[f.src] \in Weight /\ o \in Weight
  BY <1>0, <1>1, SemiringLaws DEF TypeOK
<1>3. Plus(d, Times(ss, f.w)) = Plus(d, Times(o, f.w))
  <2>1. CASE ss = s /\ o = Owed(f)
    BY <2>1 DEF Settled
  <2>2. CASE ss = Plus(s, x) /\ o = Plus(Owed(f), x)
    <3>1. /\ Times(ss, f.w) = Plus(Times(s, f.w), Times(x, f.w))
          /\ Times(o, f.w) = Plus(Times(Owed(f), f.w), Times(x, f.w))
      <4> HIDE DEF x, s
      <4> QED
        BY <1>1, <2>2, RightDistributes
    <3>2. /\ Times(s, f.w) \in Weight /\ Times(Owed(f), f.w) \in Weight
          /\ Times(x, f.w) \in Weight
      BY <1>1, SemiringLaws
    <3> QED
      BY <1>1, <3>1, <3>2, GrowRight DEF Settled
  <2>3. CASE r' = r /\ distance' = distance
    BY <2>1, <2>3 DEF Owed
  <2>4. CASE r' = [r EXCEPT ![e.dst] = Plus(r[e.dst], x)]
    <3>1. CASE f.src # e.dst
      BY <1>1, <2>1, <2>4, <3>1, RelaxEffect DEF Owed, TypeOK
    <3>2. CASE f.src = e.dst
      <4>1. ss = Plus(s, x) /\ r'[f.src] = Plus(r[f.src], x)
        BY <1>1, <2>4, <3>2, RelaxEffect DEF TypeOK
      <4>2. Plus(Plus(r[f.src], x), currentR) = Plus(Plus(r[f.src], currentR), x)
        BY <1>1, PlusSwap DEF TypeOK
      <4> QED
        BY <2>2, <4>1, <4>2 DEF Owed
    <3> QED
      BY <3>1, <3>2
  <2> QED
    BY <2>3, <2>4, RelaxEffect
<1>4. Plus(dd, Times(ss, f.w)) = Plus(dd, Times(o, f.w))
  <2>1. dd = d \/ dd = Plus(d, x)
    BY <1>1, RelaxEffect DEF TypeOK
  <2>2. Times(ss, f.w) \in Weight /\ Times(o, f.w) \in Weight
    BY <1>1, <1>2, SemiringLaws
  <2> QED
    BY <1>1, <1>3, <2>1, <2>2, GrowLeft
<1>5. CASE f # e
  <2>1. Owed(f)' = o
    BY <1>5, RelaxEffect DEF Owed
  <2> QED
    BY <1>4, <2>1, RelaxEffect DEF Settled
<1>6. CASE f = e
  <2>1. o = Plus(r'[f.src], currentR) /\ Owed(f)' = r'[f.src]
    BY <1>6, RelaxEffect DEF Owed
  <2>2. Times(o, f.w) = Plus(Times(r'[f.src], f.w), x)
    <3>1. Times(o, f.w) = Plus(Times(r'[f.src], f.w), Times(currentR, f.w))
      <4> HIDE DEF o
      <4> QED
        BY <1>1, <1>2, <2>1, RightDistributes
    <3> QED
      BY <1>6, <3>1
  <2>3. Covers(dd, x)
    <3>1. dd = Plus(d, x)
      BY <1>1, <1>6, RelaxEffect DEF TypeOK
    <3>2. Plus(Plus(d, x), x) = Plus(d, x)
      <4> HIDE DEF d, x
      <4> QED
        BY <1>1, Absorbs
    <3> QED
      BY <3>1, <3>2 DEF Covers
  <2>4. Plus(dd, Times(o, f.w)) = Plus(dd, Times(r'[f.src], f.w))
    <3>1. Times(r'[f.src], f.w) \in Weight
      BY <1>1, <1>2, SemiringLaws
    <3> QED
      BY <1>1, <1>2, <2>2, <2>3, <3>1, DropCovered
  <2> QED
    BY <1>4, <2>1, <2>4, RelaxEffect DEF Settled
<1> QED
  BY <1>5, <1>6

(* Popping a vertex turns its residual into a debt along its out-edges.    *)
LEMMA PopKeepsSettled ==
    ASSUME TypeOK, Pop, NEW f \in graph.edges, Settled(f)
    PROVE  Settled(f)'
<1>1. f.src \in Vertex /\ Head(Q) \in Vertex
  BY EdgeTyping DEF TypeOK, Pop
<1>2. CASE f.src # Head(Q)
  BY <1>1, <1>2 DEF Pop, Settled, Owed, TypeOK
<1>3. CASE f.src = Head(Q)
  <2>1. Owed(f) = r[f.src]
    BY DEF Pop, Owed
  <2>2. Owed(f)' = Plus(Zero, r[f.src])
    BY <1>1, <1>3 DEF Pop, Owed, TypeOK
  <2>3. Plus(Zero, r[f.src]) = r[f.src]
    BY <1>1, SemiringLaws DEF TypeOK
  <2> QED
    BY <2>1, <2>2, <2>3 DEF Pop, Settled
<1> QED
  BY <1>2, <1>3

(* At every moment relaxing an edge with the full distance of its source   *)
(* achieves no more than relaxing it with what the algorithm still owes.   *)
THEOREM SettledUpToOwedHolds == Spec => []SettledUpToOwed
<1>1. Init => SettledUpToOwed
  <2> SUFFICES ASSUME Init, NEW e \in graph.edges PROVE Settled(e)
    BY DEF SettledUpToOwed, Settled
  <2>1. Owed(e) = r[e.src] /\ r = distance
    BY DEF Init, Owed
  <2> QED
    BY <2>1 DEF Settled
<1>2. TypeOK /\ SeedingOwesAll /\ SettledUpToOwed /\ [Next]_vars => SettledUpToOwed'
  <2> SUFFICES ASSUME TypeOK, SeedingOwesAll, SettledUpToOwed, [Next]_vars
               PROVE  \A f \in graph.edges : Settled(f)'
    BY GraphConstant DEF SettledUpToOwed, Settled
  <2>0. \A f \in graph.edges : Settled(f)
    BY DEF SettledUpToOwed, Settled
  <2>1. ASSUME NEW v \in seeds, Seed(v) PROVE \A f \in graph.edges : Settled(f)'
    <3>1. todo' = {} /\ r' = distance'
      BY <2>1 DEF Seed, SeedingOwesAll
    <3>2. \A f : Owed(f)' = distance'[f.src]
      BY <3>1 DEF Owed
    <3> QED
      BY <3>2 DEF Settled
  <2>2. CASE Pop
    BY <2>0, <2>2, PopKeepsSettled
  <2>3. ASSUME NEW e \in todo, Relax(e) PROVE \A f \in graph.edges : Settled(f)'
    BY <2>0, <2>3, RelaxKeepsSettled
  <2>4. CASE Return \/ UNCHANGED vars
    BY <2>0, <2>4 DEF Return, vars, Settled, Owed
  <2> QED
    BY <2>1, <2>2, <2>3, <2>4 DEF Next
<1> QED
  BY <1>1, <1>2, TypeCorrect, SeedingInvariant, PTL DEF Spec

-----------------------------------------------------------------------------
(* The initial weights are accounted for once they have been read.         *)

SeedsCovered ==
    \A v \in DOMAIN graph.init : v \notin seeds => Covers(distance[v], graph.init[v])

LEMMA SeedsCoveredHolds == Spec => []SeedsCovered
<1>1. Init => SeedsCovered
  BY DEF Init, SeedsCovered
<1>2. TypeOK /\ SeedsCovered /\ [Next]_vars => SeedsCovered'
  <2> SUFFICES ASSUME TypeOK, SeedsCovered, [Next]_vars,
                      NEW v \in DOMAIN graph.init, v \notin seeds'
               PROVE  Covers(distance'[v], graph.init[v])
    BY GraphConstant DEF SeedsCovered, Covers
  <2>0. v \in Vertex /\ graph.init[v] \in Weight
    BY InputAssumption DEF TypeOK
  <2>1. ASSUME NEW u \in seeds, Seed(u) PROVE Covers(distance'[v], graph.init[v])
    <3>1. CASE v = u
      BY <2>0, <2>1, <3>1, CoversSelf DEF Seed, TypeOK
    <3>2. CASE v # u
      BY <2>0, <2>1, <3>2 DEF Seed, TypeOK, SeedsCovered
    <3> QED
      BY <3>1, <3>2
  <2>2. ASSUME NEW e \in todo, Relax(e) PROVE Covers(distance'[v], graph.init[v])
    <3>1. Covers(distance[v], graph.init[v])
      BY <2>2 DEF Relax, SeedsCovered
    <3>2. CASE v # e.dst
      BY <2>0, <2>2, <3>1, <3>2, RelaxEffect DEF TypeOK
    <3>3. CASE v = e.dst
      <4>1. distance'[v] = Plus(distance[v], Times(currentR, e.w))
        BY <2>0, <2>2, <3>3, RelaxEffect DEF TypeOK
      <4>2. distance[v] \in Weight /\ Times(currentR, e.w) \in Weight
        BY <2>0, <2>2, RelaxEffect DEF TypeOK
      <4>3. Plus(Plus(distance[v], Times(currentR, e.w)), graph.init[v])
              = Plus(Plus(distance[v], graph.init[v]), Times(currentR, e.w))
        BY <2>0, <4>2, PlusSwap
      <4> QED
        BY <3>1, <4>1, <4>3 DEF Covers
    <3> QED
      BY <3>2, <3>3
  <2>3. CASE Pop \/ Return \/ UNCHANGED vars
    BY <2>3 DEF Pop, Return, vars, SeedsCovered
  <2> QED
    BY <2>1, <2>2, <2>3 DEF Next
<1> QED
  BY <1>1, <1>2, TypeCorrect, PTL DEF Spec

(* After the return nothing is pending.                                    *)

QuietOnReturn == returned => seeds = {} /\ todo = {} /\ Q = <<>>

LEMMA QuietOnReturnHolds == Spec => []QuietOnReturn
<1>1. Init => QuietOnReturn
  BY DEF Init, QuietOnReturn
<1>2. QuietOnReturn /\ [Next]_vars => QuietOnReturn'
  <2> SUFFICES ASSUME QuietOnReturn, [Next]_vars PROVE QuietOnReturn'
    OBVIOUS
  <2>1. ASSUME NEW v \in seeds, Seed(v) PROVE QuietOnReturn'
    BY <2>1 DEF Seed, QuietOnReturn
  <2>2. ASSUME NEW e \in todo, Relax(e) PROVE QuietOnReturn'
    BY <2>2 DEF Relax, QuietOnReturn
  <2>3. CASE Pop
    BY <2>3 DEF Pop, QuietOnReturn
  <2>4. CASE Return \/ UNCHANGED vars
    BY <2>4 DEF Return, vars, QuietOnReturn
  <2> QED
    BY <2>1, <2>2, <2>3, <2>4 DEF Next
<1> QED
  BY <1>1, <1>2, PTL DEF Spec

(* An empty queue means that the distances solve the equations.            *)
LEMMA QuietIsSolution ==
    ASSUME TypeOK, NoLostResidual, SettledUpToOwed, SeedsCovered,
           seeds = {}, todo = {}, Q = <<>>
    PROVE  SD!IsSolution(graph, distance)
<1>1. \A v \in DOMAIN graph.init : SD!Covers(distance[v], graph.init[v])
  BY DEF SeedsCovered, Covers, SD!Covers
<1>2. ASSUME NEW e \in graph.edges
      PROVE  SD!Covers(distance[e.dst], Times(distance[e.src], e.w))
  <2>1. e.src \in Vertex /\ e.dst \in Vertex /\ e.w \in Weight
    BY EdgeTyping DEF TypeOK
  <2>2. r[e.src] = Zero
    BY <2>1 DEF NoLostResidual, QElems
  <2>3. Owed(e) = Zero
    BY <2>2 DEF Owed
  <2>4. Times(Zero, e.w) = Zero
    BY <2>1, SemiringLaws
  <2>5. Plus(distance[e.dst], Zero) = distance[e.dst]
    BY <2>1, SemiringLaws DEF TypeOK
  <2>6. Plus(distance[e.dst], Times(distance[e.src], e.w))
          = Plus(distance[e.dst], Times(Owed(e), e.w))
    BY DEF SettledUpToOwed
  <2> QED
    BY <2>3, <2>4, <2>5, <2>6 DEF SD!Covers
<1> QED
  BY <1>1, <1>2 DEF SD!IsSolution

(* When the call returns, neither an edge nor an initial weight can still  *)
(* improve a distance.                                                     *)
THEOREM FixpointOnReturnHolds == Spec => []FixpointOnReturn
<1>1. TypeOK /\ NoLostResidual /\ SettledUpToOwed /\ SeedsCovered /\ QuietOnReturn
        => FixpointOnReturn
  BY QuietIsSolution DEF QuietOnReturn, FixpointOnReturn
<1> QED
  BY <1>1, TypeCorrect, NoLostResidualHolds, SettledUpToOwedHolds, SeedsCoveredHolds,
     QuietOnReturnHolds, PTL

-----------------------------------------------------------------------------
(* The algorithm never claims more than every solution grants.             *)

LEMMA SolutionCovers ==
    ASSUME NEW g \in [Vertex -> Weight], SD!IsSolution(graph, g), TypeOK
    PROVE  /\ \A v \in DOMAIN graph.init : Covers(g[v], graph.init[v])
           /\ \A e \in graph.edges : Covers(g[e.dst], Times(g[e.src], e.w))
  BY DEF SD!IsSolution, SD!Covers, Covers

CoveredBy(g) ==
    /\ \A v \in Vertex : Covers(g[v], distance[v]) /\ Covers(g[v], r[v])
    /\ \A e \in todo : Covers(g[e.src], currentR)

LEMMA CoveredStep ==
    ASSUME NEW g \in [Vertex -> Weight], SD!IsSolution(graph, g),
           TypeOK, CoveredBy(g), [Next]_vars
    PROVE  CoveredBy(g)'
<1>1. ASSUME NEW u \in seeds, Seed(u) PROVE CoveredBy(g)'
  <2>1. Covers(g[u], graph.init[u])
    BY SolutionCovers DEF TypeOK
  <2> QED
    BY <1>1, <2>1 DEF Seed, CoveredBy, TypeOK
<1>2. CASE Pop
  <2>1. Head(Q) \in Vertex
    BY <1>2 DEF Pop, TypeOK
  <2>2. \A v \in Vertex : Covers(g[v], r'[v])
    BY <1>2, CoversSelf DEF Pop, CoveredBy, TypeOK
  <2>3. \A e \in todo' : Covers(g[e.src], currentR')
    BY <1>2, <2>1 DEF Pop, CoveredBy
  <2> QED
    BY <1>2, <2>2, <2>3 DEF Pop, CoveredBy
<1>3. ASSUME NEW e \in todo, Relax(e) PROVE CoveredBy(g)'
  <2> DEFINE x == Times(currentR, e.w)
  <2>1. /\ e.src \in Vertex /\ e.dst \in Vertex /\ e.w \in Weight
        /\ x \in Weight /\ currentR \in Weight
    BY <1>3, RelaxEffect DEF TypeOK
  <2>2. Covers(g[e.dst], x)
    <3>1. Covers(Times(g[e.src], e.w), x)
      BY <2>1, CoversTimes DEF CoveredBy
    <3>2. Covers(g[e.dst], Times(g[e.src], e.w))
      BY SolutionCovers DEF TypeOK
    <3>3. Times(g[e.src], e.w) \in Weight
      BY <2>1, SemiringLaws
    <3> HIDE DEF x
    <3> QED
      BY <2>1, <3>1, <3>2, <3>3, CoversTrans
  <2>3. \A v \in Vertex : Covers(g[v], distance'[v])
    <3>1. Covers(g[e.dst], Plus(distance[e.dst], x))
      <4> HIDE DEF x
      <4> QED
        BY <2>1, <2>2, CoversPlus DEF CoveredBy, TypeOK
    <3> QED
      BY <1>3, <3>1, RelaxEffect DEF CoveredBy, TypeOK
  <2>4. \A v \in Vertex : Covers(g[v], r'[v])
    <3>1. Covers(g[e.dst], Plus(r[e.dst], x))
      <4> HIDE DEF x
      <4> QED
        BY <2>1, <2>2, CoversPlus DEF CoveredBy, TypeOK
    <3> QED
      BY <1>3, <3>1, RelaxEffect DEF CoveredBy, TypeOK
  <2> QED
    BY <1>3, <2>3, <2>4 DEF Relax, CoveredBy
<1>4. CASE Return \/ UNCHANGED vars
  BY <1>4 DEF Return, vars, CoveredBy
<1> QED
  BY <1>1, <1>2, <1>3, <1>4 DEF Next

(* Whatever assignment solves the equations of the input covers every      *)
(* distance the algorithm holds at any time.                               *)
THEOREM NeverOvershootsHolds == Spec => []NeverOvershoots
<1>1. Init => NeverOvershoots
  <2> SUFFICES ASSUME Init, NEW g \in [Vertex -> Weight] PROVE CoveredBy(g)
    BY DEF NeverOvershoots, CoveredBy
  <2> QED
    BY CoversSelf DEF Init, CoveredBy
<1>2. TypeOK /\ NeverOvershoots /\ [Next]_vars => NeverOvershoots'
  <2> SUFFICES ASSUME TypeOK, NeverOvershoots, [Next]_vars,
                      NEW g \in [Vertex -> Weight], SD!IsSolution(graph, g)
               PROVE  CoveredBy(g)'
    BY GraphConstant DEF NeverOvershoots, CoveredBy, SD!IsSolution, SD!Covers
  <2>1. CoveredBy(g)
    BY DEF NeverOvershoots, CoveredBy
  <2> QED
    BY <2>1, CoveredStep
<1> QED
  BY <1>1, <1>2, TypeCorrect, PTL DEF Spec

(* The function implements its contract: it answers once, with the least   *)
(* assignment of weights that covers the initial weights and is closed     *)
(* under the edges.                                                        *)
THEOREM Refinement == Spec => ImplementsShortestDistance
<1> DEFINE Inv == /\ TypeOK /\ NoLostResidual /\ SettledUpToOwed /\ SeedsCovered
                  /\ NeverOvershoots /\ QuietOnReturn
<1>1. Init => SD!Init
  BY DEF Init, SD!Init
<1>2. Inv /\ [Next]_vars => [SD!Answer]_<<graph, IF returned THEN distance ELSE NoResult>>
  <2> SUFFICES ASSUME Inv, [Next]_vars,
                      ~ UNCHANGED <<graph, IF returned THEN distance ELSE NoResult>>
               PROVE  SD!Answer
    OBVIOUS
  <2>1. ASSUME NEW v \in seeds, Seed(v) PROVE FALSE
    BY <2>1 DEF Seed, QuietOnReturn
  <2>2. ASSUME NEW e \in todo, Relax(e) PROVE FALSE
    BY <2>2 DEF Relax, QuietOnReturn
  <2>3. CASE Pop
    BY <2>3 DEF Pop, QuietOnReturn
  <2>4. CASE UNCHANGED vars
    BY <2>4 DEF vars
  <2>5. CASE Return
    <3>1. /\ ~ returned /\ returned' = TRUE /\ distance' = distance /\ graph' = graph
          /\ seeds = {} /\ todo = {} /\ Q = <<>>
      BY <2>5 DEF Return
    <3>2. SD!IsSolution(graph, distance)
      BY <3>1, QuietIsSolution
    <3>3. \A g \in [Vertex -> Weight] :
              SD!IsSolution(graph, g) => \A v \in Vertex : SD!Covers(g[v], distance[v])
      BY DEF NeverOvershoots, Covers, SD!Covers
    <3>4. SD!IsLeastSolution(graph, distance) /\ distance \in [Vertex -> Weight]
      BY <3>2, <3>3 DEF SD!IsLeastSolution, TypeOK
    <3> QED
      BY <3>1, <3>4 DEF SD!Answer
  <2> QED
    BY <2>1, <2>2, <2>3, <2>4, <2>5 DEF Next
<1> QED
  BY <1>1, <1>2, TypeCorrect, NoLostResidualHolds, SettledUpToOwedHolds, SeedsCoveredHolds,
     NeverOvershootsHolds, QuietOnReturnHolds, PTL
     DEF Spec, ImplementsShortestDistance, SD!Spec
=============================================================================

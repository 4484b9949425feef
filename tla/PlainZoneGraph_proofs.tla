----------------------- MODULE PlainZoneGraph_proofs -----------------------
(***************************************************************************)
(* The zone graph without a signal simulates the automaton, for every      *)
(* automaton, every number of clocks and every list of initial locations:  *)
(* neither the widening nor the table of zones loses a valuation.          *)
(***************************************************************************)
EXTENDS PlainZoneGraph, TimedAutomaton_proofs

-----------------------------------------------------------------------------
(* Zones *)

LEMMA TransitionFacts ==
    ASSUME NEW n \in DOMAIN TA.edges
    PROVE  /\ IsGuard(TA.edges[n].guard) /\ TA.edges[n].resets \subseteq Var \ {0}
           /\ TA.edges[n] \in Range(TA.edges)
<1>1. TA.edges[n] \in Range(TA.edges)
  BY DEF Range
<1>2. /\ TA.edges[n].guard \subseteq [x : 1 .. Dim, odr : Orders, c : Nat]
      /\ IsFiniteSet(TA.edges[n].guard)
      /\ \A c \in TA.edges[n].guard : BoundOf(c) < Infinity
      /\ TA.edges[n].resets \subseteq 1 .. Dim
  BY <1>1, PlainZoneGraphAssumption
<1>3. 1 .. Dim \subseteq Var \ {0}
  BY DBMAssumption DEF Var
<1>4. ASSUME NEW c \in TA.edges[n].guard PROVE c \in Constraint
  <2>1. c \in [x : 1 .. Dim, odr : Orders, c : Nat]
    BY <1>2
  <2> QED
    BY <1>3, <2>1 DEF Constraint
<1> QED
  BY <1>1, <1>2, <1>3, <1>4 DEF IsGuard

(* A constraint of a guard says of a valuation what its bound says of its  *)
(* entry.                                                                  *)
LEMMA GuardEntry ==
    ASSUME NEW guard, IsGuard(guard), NEW c \in guard
    PROVE  /\ Entry(c)[1] \in Var /\ Entry(c)[2] \in Var /\ BoundOf(c) \in Bound
           /\ \A v \in Valuation : v[0] = 0 =>
                (Satisfy(c, v[c.x]) <=> Holds(v[Entry(c)[1]] - v[Entry(c)[2]], BoundOf(c)))
<1>1. c \in Constraint /\ BoundOf(c) < Infinity
  BY DEF IsGuard
<1>2. PICK i \in Var, j \in Var : Entry(c) = <<i, j>>
  BY <1>1, VarFacts DEF Entry, Constraint
<1>3. Entry(c)[1] = i /\ Entry(c)[2] = j
  BY <1>2
<1>4. PICK z : z = [x \in Var |-> 0]
  OBVIOUS
<1>5. z \in Valuation /\ z[0] = 0
  BY <1>4, VarFacts DEF Valuation
<1>6. BoundOf(c) \in Bound
  BY <1>1, <1>2, <1>5, ConstraintIsBound
<1>7. ASSUME NEW v \in Valuation, v[0] = 0
      PROVE  Satisfy(c, v[c.x]) <=> Holds(v[i] - v[j], BoundOf(c))
  BY <1>1, <1>2, <1>7, ConstraintIsBound
<1> QED
  BY <1>3, <1>6, <1>7

(* Adding the constraints of a guard one after the other.                  *)
LEMMA GuardRuns ==
    ASSUME NEW Z \in Matrix, NEW guard, IsGuard(guard)
    PROVE  \E after \in [SUBSET guard -> Matrix] :
             /\ Guard(Z, guard) = after[guard]
             /\ after[{}] = Z
             /\ \A s \in SUBSET guard : s # {} =>
                  \E c \in s : after[s] = Tighten(after[s \ {c}], Entry(c)[1], Entry(c)[2],
                                                  BoundOf(c))
<1> DEFINE some(s) == CHOOSE c \in s : TRUE
           Value(f, s) == IF s = {} THEN Z
                          ELSE Tighten(f[s \ {some(s)}], Entry(some(s))[1],
                                       Entry(some(s))[2], BoundOf(some(s)))
           Adding(f) == f = [s \in SUBSET guard |-> Value(f, s)]
           pick == [s \in SUBSET guard |-> some(s)]
           add == [c \in guard |-> [F \in Matrix |->
                     Tighten(F, Entry(c)[1], Entry(c)[2], BoundOf(c))]]
<1>1. ASSUME NEW c \in guard, NEW F \in Matrix
      PROVE  Tighten(F, Entry(c)[1], Entry(c)[2], BoundOf(c)) \in Matrix
  BY GuardEntry, TightenShortens
<1>2. \A s \in SUBSET guard : s # {} => some(s) \in s /\ pick[s] = some(s)
  OBVIOUS
<1>3. \A c \in guard : \A F \in Matrix :
         add[c][F] = Tighten(F, Entry(c)[1], Entry(c)[2], BoundOf(c))
  OBVIOUS
<1>4. PICK f \in [SUBSET guard -> Matrix] :
         \A s \in SUBSET guard :
            f[s] = IF s = {} THEN Z ELSE add[pick[s]][f[s \ {pick[s]}]]
  <2>1. \A s \in SUBSET guard : s # {} => pick[s] \in s
    BY <1>2
  <2>2. \A c \in guard : \A F \in Matrix : add[c][F] \in Matrix
    BY <1>1, <1>3
  <2> HIDE DEF pick, add
  <2>3. Foldings(guard, Matrix, Z, pick, add) # {}
    BY <2>1, <2>2, SubsetRecursion DEF IsGuard
  <2> QED
    BY <2>3 DEF Foldings
<1>5. ASSUME NEW s \in SUBSET guard PROVE f[s] = Value(f, s)
  <2>1. CASE s = {}
    BY <1>4, <2>1
  <2>2. CASE s # {}
    <3>1. f[s] = add[pick[s]][f[s \ {pick[s]}]]
      <4> HIDE DEF add, pick
      <4> QED
        BY <1>4, <2>2
    <3>2. pick[s] = some(s) /\ some(s) \in guard /\ f[s \ {some(s)}] \in Matrix
      BY <1>2, <2>2
    <3> HIDE DEF add, pick, some
    <3> QED
      BY <1>3, <2>2, <3>1, <3>2
  <2> QED
    BY <2>1, <2>2
<1>6. Adding(f)
  <2>1. DOMAIN f = SUBSET guard /\ f = [s \in SUBSET guard |-> f[s]]
    OBVIOUS
  <2> HIDE DEF Value
  <2> QED
    BY <1>5, <2>1
<1> DEFINE after == CHOOSE g : Adding(g)
<1>7. Adding(after)
  <2> HIDE DEF Adding
  <2> QED
    BY <1>6
<1>8. Guard(Z, guard) = after[guard]
  BY Zenon DEF Guard, FoldSet, MapThenFoldSet
<1>9. /\ after = [s \in SUBSET guard |-> Value(after, s)]
      /\ \A s \in SUBSET guard : after[s] = Value(after, s)
  <2> HIDE DEF after, Value
  <2> QED
    BY <1>7
<1> HIDE DEF after
<1>10. after[{}] = Z
  <2>1. {} \in SUBSET guard
    OBVIOUS
  <2> QED
    BY <1>9, <2>1
<1>11. ASSUME NEW s \in SUBSET guard, s # {}
       PROVE  \E c \in s : after[s] = Tighten(after[s \ {c}], Entry(c)[1], Entry(c)[2], BoundOf(c))
  <2>1. some(s) \in s
    BY <1>2, <1>11
  <2>2. after[s] = Tighten(after[s \ {some(s)}], Entry(some(s))[1], Entry(some(s))[2],
                           BoundOf(some(s)))
    <3> HIDE DEF some
    <3> QED
      BY <1>9, <1>11
  <2> HIDE DEF some
  <2> QED
    BY <2>1, <2>2
<1> DEFINE K == {s \in SUBSET guard : after[s] \in Matrix}
<1>12. ASSUME NEW s \in SUBSET guard, \A c \in s : s \ {c} \in K PROVE s \in K
  <2>1. CASE s = {}
    BY <1>10, <2>1
  <2>2. CASE s # {}
    <3>1. PICK c \in s : after[s] = Tighten(after[s \ {c}], Entry(c)[1], Entry(c)[2], BoundOf(c))
      <4> HIDE DEF K
      <4> QED
        BY <1>11, <2>2
    <3>2. c \in guard /\ after[s \ {c}] \in Matrix
      BY <1>12
    <3> QED
      BY <1>1, <3>1, <3>2
  <2> QED
    BY <2>1, <2>2
<1>13. \A s \in SUBSET guard : s \in K
  <2>1. IsFiniteSet(guard)
    BY DEF IsGuard
  <2> HIDE DEF K
  <2> QED
    BY <1>12, <2>1, SubsetInduction
<1>14. after \in [SUBSET guard -> Matrix]
  <2>1. DOMAIN after = SUBSET guard /\ after = [s \in SUBSET guard |-> after[s]]
    <3> HIDE DEF Value
    <3> QED
      BY <1>9
  <2>2. \A s \in SUBSET guard : after[s] \in Matrix
    BY <1>13
  <2> QED
    BY <2>1, <2>2
<1> HIDE DEF some, Value, Adding, pick, add, K
<1> QED
  BY <1>8, <1>10, <1>11, <1>14

(* The constraints cut a zone down to exactly the valuations that meet     *)
(* them, in whichever order they are added.                                *)
THEOREM GuardExact ==
    ASSUME NEW Z \in Matrix, NEW guard, IsGuard(guard)
    PROVE  /\ Guard(Z, guard) \in Matrix
           /\ \A v \in Valuation :
                v[0] = 0 => (Sat(v, Guard(Z, guard)) <=> Sat(v, Z) /\ Meets(v, guard))
<1>1. PICK after \in [SUBSET guard -> Matrix] :
         /\ Guard(Z, guard) = after[guard]
         /\ after[{}] = Z
         /\ \A s \in SUBSET guard : s # {} =>
              \E c \in s : after[s] = Tighten(after[s \ {c}], Entry(c)[1], Entry(c)[2],
                                              BoundOf(c))
  BY GuardRuns
<1> DEFINE Cut(s) == \A v \in Valuation :
                        v[0] = 0 => (Sat(v, after[s]) <=> Sat(v, Z) /\ Meets(v, s))
           K == {s \in SUBSET guard : Cut(s)}
<1>2. ASSUME NEW s \in SUBSET guard, \A c \in s : s \ {c} \in K PROVE s \in K
  <2>1. CASE s = {}
    BY <1>1, <2>1 DEF Meets
  <2>2. CASE s # {}
    <3>1. PICK c \in s : after[s] = Tighten(after[s \ {c}], Entry(c)[1], Entry(c)[2], BoundOf(c))
      <4> HIDE DEF K
      <4> QED
        BY <1>1, <2>2
    <3>2. c \in guard /\ after[s \ {c}] \in Matrix /\ Cut(s \ {c})
      BY <1>2
    <3>3. /\ Entry(c)[1] \in Var /\ Entry(c)[2] \in Var /\ BoundOf(c) \in Bound
          /\ \A v \in Valuation : v[0] = 0 =>
                (Satisfy(c, v[c.x]) <=> Holds(v[Entry(c)[1]] - v[Entry(c)[2]], BoundOf(c)))
      BY <3>2, GuardEntry
    <3>4. ASSUME NEW v \in Valuation, v[0] = 0
          PROVE  Sat(v, after[s]) <=> Sat(v, Z) /\ Meets(v, s)
      <4>1. Sat(v, after[s]) <=> Sat(v, after[s \ {c}]) /\ Satisfy(c, v[c.x])
        <5> HIDE DEF Cut, K
        <5>1. Sat(v, after[s]) <=>
                Sat(v, after[s \ {c}]) /\ Holds(v[Entry(c)[1]] - v[Entry(c)[2]], BoundOf(c))
          BY <3>1, <3>2, <3>3, TightenExact
        <5> QED
          BY <3>3, <3>4, <5>1
      <4>2. Sat(v, after[s \ {c}]) <=> Sat(v, Z) /\ Meets(v, s \ {c})
        BY <3>2, <3>4
      <4>3. Meets(v, s) <=> Meets(v, s \ {c}) /\ Satisfy(c, v[c.x])
        BY DEF Meets
      <4> QED
        BY <4>1, <4>2, <4>3
    <3> QED
      BY <3>4
  <2> QED
    BY <2>1, <2>2
<1>3. guard \in K
  <2>1. IsFiniteSet(guard)
    BY DEF IsGuard
  <2> HIDE DEF K
  <2> QED
    BY <1>2, <2>1, SubsetInduction
<1>4. guard \in SUBSET guard
  OBVIOUS
<1> QED
  BY <1>1, <1>3, <1>4

(* Widening only forgets bounds. *)
LEMMA AbstractizeWidens ==
    ASSUME NEW Z \in Matrix, NEW m
    PROVE  /\ Abstractize(Z, m) \in Matrix
           /\ Abstractize(Z, m)[0][0] \in {Z[0][0], Infinity}
           /\ \A v \in Valuation : Sat(v, Z) => Sat(v, Abstractize(Z, m))
<1>1. \A i, j \in Var : Abstractize(Z, m)[i][j] \in {Z[i][j], Infinity}
  BY DEF Abstractize
<1>2. \A i, j \in Var : Z[i][j] \in Bound /\ Infinity \in Bound
  BY DBMAssumption DEF Matrix, Bound
<1>3. Abstractize(Z, m) \in Matrix
  BY <1>2 DEF Abstractize, Matrix
<1>4. \A v \in Valuation : Sat(v, Z) => Sat(v, Abstractize(Z, m))
  BY <1>1 DEF Sat, Holds
<1> QED
  BY <1>1, <1>3, <1>4, VarFacts

(* What toTuple leaves out of a zone follows from the rest of it: the entry*)
(* (0, 0) says that the zone is empty only when another pair of entries    *)
(* does so too.                                                            *)
Contradicted(Z) == \E k \in Var \ {0} : Add(Z[0][k], Z[k][0]) < Le(0)
Rooted(Z) == Z[0][0] >= Le(0) \/ Contradicted(Z)

LEMMA RootedShorter ==
    ASSUME NEW Z \in Matrix, NEW Y \in Matrix, Contradicted(Z),
           \A i, j \in Var : Y[i][j] <= Z[i][j]
    PROVE  Contradicted(Y)
<1>1. PICK k \in Var \ {0} : Add(Z[0][k], Z[k][0]) < Le(0)
  BY DEF Contradicted
<1>2. /\ Z[0][k] \in Bound /\ Z[k][0] \in Bound /\ Y[0][k] \in Bound /\ Y[k][0] \in Bound
      /\ Y[0][k] <= Z[0][k] /\ Y[k][0] <= Z[k][0]
  BY VarFacts DEF Matrix
<1>3. /\ Add(Y[0][k], Y[k][0]) <= Add(Z[0][k], Z[k][0])
      /\ Add(Y[0][k], Y[k][0]) \in Int /\ Add(Z[0][k], Z[k][0]) \in Int
  BY <1>2, AddMonotone, AddIsBound DEF Bound
<1> QED
  BY <1>1, <1>3 DEF Contradicted, Le

LEMMA RootedClose1 ==
    ASSUME NEW Z \in Matrix, Rooted(Z), NEW x \in Var
    PROVE  Rooted(Close1(Z, x))
<1> DEFINE Y == Close1(Z, x)
<1>1. Y \in Matrix /\ \A i, j \in Var : Y[i][j] <= Z[i][j]
  BY Close1Type, Close1Entry
<1>2. Y[0][0] = Lower(Z[0][0], Add(Z[0][x], Z[x][0]))
  <2>1. 0 \in Var /\ ~ (0 > x)
    BY DBMAssumption DEF Var
  <2> QED
    BY <2>1, Close1At
<1> HIDE DEF Y
<1>3. CASE Contradicted(Z)
  BY <1>1, <1>3, RootedShorter DEF Rooted, Y
<1>4. CASE Z[0][0] >= Le(0)
  <2>1. /\ Z[0][0] \in Bound /\ Z[0][x] \in Bound /\ Z[x][0] \in Bound
        /\ Add(Z[0][x], Z[x][0]) \in Bound
    BY VarFacts, AddIsBound DEF Matrix
  <2>2. CASE Add(Z[0][x], Z[x][0]) >= Le(0)
    BY <1>2, <1>4, <2>2 DEF Lower, Rooted, Y
  <2>3. CASE ~ (Add(Z[0][x], Z[x][0]) >= Le(0))
    <3>1. x # 0
      BY <1>4, <2>1, <2>3, DBMAssumption DEF Add, Bound, Le
    <3>2. Contradicted(Z)
      BY <2>1, <2>3, <3>1 DEF Contradicted, Bound, Le
    <3> QED
      BY <1>1, <3>2, RootedShorter DEF Rooted, Y
  <2> QED
    BY <2>2, <2>3
<1> QED
  BY <1>3, <1>4 DEF Rooted

LEMMA RootedCanonize ==
    ASSUME NEW Z \in Matrix, Rooted(Z)
    PROVE  Rooted(Canonize(Z))
<1>1. PICK closed : ClosedUpTo(closed, Z, Dim + 1) /\ Canonize(Z) = closed[Dim + 1]
  BY CanonizeRuns
<1> DEFINE R == {k \in 0 .. Dim + 1 : Rooted(closed[k])}
<1>2. Dim + 1 \in Nat /\ \A k \in 0 .. Dim + 1 : closed[k] \in Matrix
  BY <1>1, ClosedEntries, DBMAssumption
<1>3. 0 \in R
  <2>1. 0 \in 0 .. Dim + 1 /\ closed[0] = Z
    BY <1>1, <1>2 DEF ClosedUpTo
  <2> QED
    BY <2>1
<1>4. ASSUME NEW k \in 0 .. (Dim + 1) - 1, k \in R PROVE k + 1 \in R
  <2>1. k + 1 \in 0 .. Dim + 1 /\ k \in Var /\ k \in 0 .. Dim + 1 /\ (k + 1) - 1 = k
        /\ k + 1 # 0
    <3> HIDE DEF R
    <3> QED
      BY DBMAssumption DEF Var
  <2>2. closed[k + 1] = Close1(closed[k], k)
    BY <1>1, <2>1 DEF ClosedUpTo
  <2>3. Rooted(closed[k])
    BY <1>4
  <2> QED
    BY <1>2, <2>1, <2>2, <2>3, RootedClose1
<1>5. Dim + 1 \in R
  <2>1. \A k \in 0 .. Dim + 1 : k \in R
    <3> HIDE DEF R
    <3> QED
      BY <1>2, <1>3, <1>4, InductionUpTo
  <2>2. Dim + 1 \in 0 .. Dim + 1
    BY <1>2
  <2> HIDE DEF R
  <2> QED
    BY <2>1, <2>2
<1> QED
  BY <1>1, <1>5

(* A zone that has the key of one with a valuation has it too. *)
LEMMA SameKeySat ==
    ASSUME NEW Z \in Matrix, NEW Y \in Matrix, Rooted(Y), NEW q, NEW r,
           Key(q, Z) = Key(r, Y), NEW v \in Valuation, Sat(v, Z)
    PROVE  Sat(v, Y)
<1>1. [Z EXCEPT ![0][0] = Le(0)] = [Y EXCEPT ![0][0] = Le(0)]
  BY DEF Key
<1>2. ASSUME NEW i \in Var, NEW j \in Var, <<i, j>> # <<0, 0>> PROVE Z[i][j] = Y[i][j]
  <2>1. \A F \in Matrix : [F EXCEPT ![0][0] = Le(0)][i][j] = F[i][j]
    BY <1>2 DEF Matrix
  <2> QED
    BY <1>1, <2>1
<1>3. ~ Contradicted(Y)
  <2> SUFFICES ASSUME NEW k \in Var \ {0} PROVE ~ (Add(Y[0][k], Y[k][0]) < Le(0))
    BY DEF Contradicted
  <2>1. Z[0][k] = Y[0][k] /\ Z[k][0] = Y[k][0]
    BY <1>2, VarFacts
  <2>2. Add(Z[0][k], Z[k][0]) >= Le(0)
    BY VarFacts, SatisfiableSound DEF IsSatisfiableWithoutCanonize
  <2>3. Add(Z[0][k], Z[k][0]) \in Int
    BY VarFacts, AddIsBound DEF Matrix, Bound
  <2> QED
    BY <2>1, <2>2, <2>3 DEF Le
<1>4. Y[0][0] >= Le(0) /\ Y[0][0] \in Int
  BY <1>3, VarFacts DEF Rooted, Matrix, Bound
<1>5. ASSUME NEW i \in Var, NEW j \in Var PROVE Holds(v[i] - v[j], Y[i][j])
  <2>1. CASE <<i, j>> = <<0, 0>>
    <3>1. v[i] - v[j] = 0
      BY <2>1, VarFacts DEF Valuation
    <3> QED
      BY <1>4, <2>1, <3>1 DEF Holds, Le
  <2>2. CASE <<i, j>> # <<0, 0>>
    BY <1>2, <2>2 DEF Sat
  <2> QED
    BY <2>1, <2>2
<1> QED
  BY <1>5 DEF Sat

LEMMA ResetKeepsRoot ==
    ASSUME NEW Z \in Matrix, Z[0][0] >= Le(0), NEW x \in Var \ {0}
    PROVE  Reset(Z, x) \in Matrix /\ Reset(Z, x)[0][0] >= Le(0)
<1> DEFINE A == Aliased(Z, x)
<1>1. A \in Matrix /\ Reset(Z, x) = Close1(A, x) /\ Reset(Z, x) \in Matrix
  BY ResetShortens
<1>2. 0 \in Var /\ x \in Var /\ x # 0 /\ ~ (0 > x) /\ Z[0][0] \in Int
  BY DBMAssumption, VarFacts DEF Var, Matrix, Bound
<1>3. A[0][0] = Z[0][0]
  BY <1>2 DEF Aliased
<1>4. A[0][x] = Le(0) /\ A[x][0] = Le(0)
  <2>1. <<0, x>> # <<0, 0>> /\ <<x, 0>> # <<0, 0>>
    BY <1>2
  <2> QED
    BY <1>2, <2>1 DEF Aliased
<1>5. Reset(Z, x)[0][0] = Lower(A[0][0], Add(A[0][x], A[x][0]))
  <2> HIDE DEF A
  <2> QED
    BY <1>1, <1>2, Close1At
<1>6. Add(Le(0), Le(0)) >= Le(0)
  BY DBMAssumption DEF Add, Le
<1>7. Reset(Z, x)[0][0] >= Le(0)
  <2> HIDE DEF A
  <2> QED
    BY <1>2, <1>3, <1>4, <1>5, <1>6 DEF Lower
<1> QED
  BY <1>1, <1>7

(* Whatever a transition that can be made leads to is a zone of which the  *)
(* key tells everything.                                                   *)
LEMMA TargetZone ==
    ASSUME NEW Z \in Matrix, NEW n \in DOMAIN TA.edges,
           IsSatisfiable(Guard(Z, TA.edges[n].guard))
    PROVE  Target(Z, TA.edges[n]) \in Matrix /\ Rooted(Target(Z, TA.edges[n]))
<1> DEFINE e == TA.edges[n]
           K == Canonize(Guard(Z, e.guard))
           R == ResetAll(K, e.resets)
           A == Abstractize(R, M)
           S == {F \in Matrix : F[0][0] >= Le(0)}
<1>1. IsGuard(e.guard) /\ e.resets \subseteq Var \ {0}
  BY TransitionFacts
<1> HIDE DEF e
<1>2. K \in S
  <2>1. Guard(Z, e.guard) \in Matrix
    BY <1>1, GuardExact
  <2>2. K \in Matrix
    BY <2>1, CanonizeShortens
  <2>3. IsSatisfiableWithoutCanonize(K)
    BY DEF IsSatisfiable, e
  <2> HIDE DEF K
  <2> QED
    BY <2>2, <2>3, SatisfiableDiagonal, VarFacts
<1> HIDE DEF K
<1>3. R \in S
  <2>1. \A F \in S : \A x \in e.resets \cap (Var \ {0}) : Reset(F, x) \in S
    BY ResetKeepsRoot
  <2> HIDE DEF S
  <2>2. S \subseteq Matrix
    BY DEF S
  <2> QED
    BY <1>2, <2>1, <2>2, ResetAllPreserves
<1> HIDE DEF R
<1>4. A \in Matrix /\ Rooted(A)
  <2>1. R \in Matrix /\ R[0][0] >= Le(0)
    BY <1>3
  <2>2. A \in Matrix /\ A[0][0] \in {R[0][0], Infinity}
    BY <2>1, AbstractizeWidens
  <2>3. Infinity >= Le(0)
    BY DBMAssumption DEF Le
  <2> HIDE DEF A
  <2> QED
    BY <2>1, <2>2, <2>3 DEF Rooted
<1> HIDE DEF A
<1>5. Canonize(A) \in Matrix /\ Rooted(Canonize(A))
  BY <1>4, CanonizeShortens, RootedCanonize
<1> QED
  BY <1>5 DEF Target, A, R, K, e

(* A valuation that meets the guard can make the transition, and the zone  *)
(* it leads to has what the transition makes of it.                        *)
LEMMA TargetSound ==
    ASSUME NEW Z \in Matrix, NEW n \in DOMAIN TA.edges,
           NEW v \in Valuation, v[0] = 0, Sat(v, Z), Meets(v, TA.edges[n].guard)
    PROVE  /\ IsSatisfiable(Guard(Z, TA.edges[n].guard))
           /\ Sat(ResetPoint(v, TA.edges[n].resets), Target(Z, TA.edges[n]))
<1> DEFINE e == TA.edges[n]
           G == Guard(Z, e.guard)
           K == Canonize(G)
           R == ResetAll(K, e.resets)
           A == Abstractize(R, M)
           w == ResetPoint(v, e.resets)
<1>1. IsGuard(e.guard) /\ e.resets \subseteq Var \ {0}
  BY TransitionFacts
<1>2. Meets(v, e.guard)
  OBVIOUS
<1> HIDE DEF e
<1>3. G \in Matrix /\ Sat(v, G)
  BY <1>1, <1>2, GuardExact
<1> HIDE DEF G
<1>4. K \in Matrix /\ Sat(v, K)
  BY <1>3, CanonizeExact
<1>5. IsSatisfiable(G)
  BY <1>4, SatisfiableSound DEF IsSatisfiable
<1> HIDE DEF K
<1>6. R \in Matrix /\ Sat(w, R)
  BY <1>1, <1>4, ResetAllSound
<1>7. w \in Valuation
  BY DEF ResetPoint, Valuation
<1> HIDE DEF R, w
<1>8. A \in Matrix /\ Sat(w, A)
  BY <1>6, <1>7, AbstractizeWidens
<1> HIDE DEF A
<1>9. Sat(w, Canonize(A))
  BY <1>7, <1>8, CanonizeExact
<1> QED
  BY <1>5, <1>9 DEF Target, w, A, R, K, G, e

-----------------------------------------------------------------------------
(* The graph *)

Locations == (UNION {Range(list) : list \in InitLists}) \cup {e.dst : e \in Range(TA.edges)}
Node == [vertex : Locations, zone : Matrix]
Out(q) == {n \in DOMAIN TA.edges : TA.edges[n].src = q}
Advanced(v, d) == [x \in Var |-> IF x = 0 THEN 0 ELSE v[x] + d]

(* Whatever the transition n makes of a valuation of vertex i and a delay, *)
(* an edge for n leads to a vertex that has it.                            *)
Mimicked(ns, es, i, n, u) ==
    \E a \in es :
        /\ a.src = i /\ a.by = n /\ a.dst \in DOMAIN ns
        /\ ns[a.dst].vertex = TA.edges[n].dst
        /\ Sat(ResetPoint(u, TA.edges[n].resets), ns[a.dst].zone)

Simulated(ns, es, i, n) ==
    \A v \in Valuation : \A d \in Nat \ {0} :
        v[0] = 0 /\ Sat(v, ns[i].zone) /\ Meets(Advanced(v, d), TA.edges[n].guard)
            => Mimicked(ns, es, i, n, Advanced(v, d))

(* The parameters and the queues are about vertices that exist, and the    *)
(* table has a vertex under its own key only.                              *)
GraphInv ==
    /\ nodes \in Seq(Node)
    /\ edges \subseteq [src : DOMAIN nodes, dst : DOMAIN nodes, by : DOMAIN TA.edges]
    /\ nextConf \in Seq(DOMAIN nodes) /\ currentConf \in Seq(DOMAIN nodes)
    /\ pending \in Seq(DOMAIN TA.edges)
    /\ \A i \in DOMAIN nodes : Rooted(nodes[i].zone)
    /\ \A key \in DOMAIN toZGState :
          /\ toZGState[key] \in DOMAIN nodes
          /\ Key(nodes[toZGState[key]].vertex, nodes[toZGState[key]].zone) = key

(* A vertex that is in no queue has been expanded; the one being expanded  *)
(* has been but for the pending transitions.                               *)
ExpandedInv ==
    /\ pending # <<>> =>
          /\ currentConf # <<>>
          /\ nowZone = Elapse(nodes[Head(currentConf)].zone)
          /\ \A n \in Out(nodes[Head(currentConf)].vertex) \ Range(pending) :
                Simulated(nodes, edges, Head(currentConf), n)
    /\ \A i \in DOMAIN nodes \ (Range(nextConf) \cup Range(currentConf)) :
          \A n \in Out(nodes[i].vertex) : Simulated(nodes, edges, i, n)
    /\ returned => nextConf = <<>> /\ currentConf = <<>> /\ pending = <<>>

SimInv == GraphInv /\ ExpandedInv

LEMMA TransitionsInOrder ==
    /\ DOMAIN TA.edges = 1 .. Len(TA.edges) /\ Len(TA.edges) \in Nat
    /\ \A q : OutEdges(q) \in Seq(DOMAIN TA.edges) /\ Range(OutEdges(q)) = Out(q)
<1> DEFINE all == [i \in DOMAIN TA.edges |-> i]
<1>1. DOMAIN TA.edges = 1 .. Len(TA.edges) /\ Len(TA.edges) \in Nat
  BY PlainZoneGraphAssumption
<1>2. all \in Seq(DOMAIN TA.edges) /\ Range(all) = DOMAIN TA.edges
  <2>1. all \in Seq(DOMAIN TA.edges)
    BY <1>1
  <2>2. Range(all) = DOMAIN TA.edges
    BY DEF Range
  <2> QED
    BY <2>1, <2>2
<1> HIDE DEF all
<1>3. ASSUME NEW q
      PROVE  OutEdges(q) \in Seq(DOMAIN TA.edges) /\ Range(OutEdges(q)) = Out(q)
  <2>1. OutEdges(q) = Selected(all, Out(q))
    BY Zenon DEF OutEdges, Out, all
  <2>2. DOMAIN TA.edges \cap Out(q) = Out(q)
    BY DEF Out
  <2>3. /\ Selected(all, Out(q)) \in Seq(DOMAIN TA.edges)
        /\ Range(Selected(all, Out(q))) = Range(all) \cap Out(q)
    BY Zenon, <1>2, SelectedIs
  <2> QED
    BY Zenon, <1>2, <2>1, <2>2, <2>3
<1> QED
  BY <1>1, <1>3

(* More vertices and more edges leave simulated what is.                   *)
LEMMA SimulatedMore ==
    ASSUME NEW ns, NEW es, NEW ms, NEW fs, NEW i \in DOMAIN ns, NEW n, Simulated(ns, es, i, n),
           es \subseteq fs, DOMAIN ns \subseteq DOMAIN ms, \A j \in DOMAIN ns : ms[j] = ns[j]
    PROVE  Simulated(ms, fs, i, n)
<1> SUFFICES ASSUME NEW v \in Valuation, NEW d \in Nat \ {0},
                    v[0] = 0, Sat(v, ms[i].zone), Meets(Advanced(v, d), TA.edges[n].guard)
             PROVE  Mimicked(ms, fs, i, n, Advanced(v, d))
  BY DEF Simulated
<1>1. Mimicked(ns, es, i, n, Advanced(v, d))
  BY DEF Simulated
<1> QED
  BY <1>1 DEF Mimicked

LEMMA GreatestIn ==
    ASSUME NEW m \in Nat, NEW S, S \subseteq 0 .. m, S # {}
    PROVE  Max(S) \in S
<1> DEFINE Down == {k \in Nat : m - k \in S}
<1>1. \A z \in S : m - z \in Down /\ z \in Nat
  OBVIOUS
<1>2. PICK y \in Down : \A k \in Down : y <= k
  <2>1. Down \subseteq Nat /\ Down # {}
    BY <1>1
  <2> HIDE DEF Down
  <2> QED
    BY <2>1, LeastNatural
<1>3. m - y \in S /\ y \in Nat
  OBVIOUS
<1>4. ASSUME NEW z \in S PROVE m - y >= z
  <2>1. y <= m - z /\ z \in Nat
    BY <1>1, <1>2
  <2> QED
    BY <1>3, <2>1
<1> QED
  BY <1>3, <1>4 DEF Max

LEMMA ZeroIsZone == ZeroDBM \in Matrix /\ Rooted(ZeroDBM)
<1>1. Le(0) \in Bound
  BY DBMAssumption DEF Le, Bound
<1>2. ZeroDBM \in Matrix
  BY <1>1 DEF ZeroDBM, Matrix
<1>3. ZeroDBM[0][0] = Le(0) /\ Le(0) >= Le(0)
  BY VarFacts DEF ZeroDBM, Le
<1> QED
  BY <1>2, <1>3 DEF Rooted

LEMMA SimInit == Init => SimInv
<1> SUFFICES ASSUME Init PROVE SimInv
  OBVIOUS
<1>1. /\ initStatesTA \in InitLists /\ initStatesTA \in Seq(Range(initStatesTA))
      /\ DOMAIN initStatesTA = 1 .. Len(initStatesTA) /\ Len(initStatesTA) \in Nat
  <2>1. initStatesTA \in InitLists
    BY DEF Init
  <2> QED
    BY <2>1, PlainZoneGraphAssumption
<1>2. /\ nodes = [i \in DOMAIN initStatesTA |-> [vertex |-> initStatesTA[i], zone |-> ZeroDBM]]
      /\ nextConf = [i \in DOMAIN nodes |-> i] /\ currentConf = <<>> /\ pending = <<>>
      /\ edges = {} /\ toZGState = InitialTable /\ returned = FALSE
  BY DEF Init
<1>3. /\ nodes \in Seq(Node) /\ DOMAIN nodes = 1 .. Len(initStatesTA)
      /\ \A i \in DOMAIN nodes : /\ nodes[i].vertex = initStatesTA[i]
                                 /\ nodes[i].zone = ZeroDBM
  <2>1. \A i \in DOMAIN initStatesTA : initStatesTA[i] \in Locations
    BY <1>1 DEF Locations, Range
  <2>2. \A i \in DOMAIN initStatesTA : [vertex |-> initStatesTA[i], zone |-> ZeroDBM] \in Node
    BY <2>1, ZeroIsZone DEF Node
  <2> QED
    BY <1>1, <1>2, <2>2
<1>4. nextConf \in Seq(DOMAIN nodes) /\ Range(nextConf) = DOMAIN nodes
  <2>1. nextConf \in Seq(DOMAIN nodes)
    BY <1>1, <1>2, <1>3
  <2>2. Range(nextConf) = DOMAIN nodes
    BY <1>2 DEF Range
  <2> QED
    BY <2>1, <2>2
<1>5. ASSUME NEW key \in DOMAIN toZGState
      PROVE  /\ toZGState[key] \in DOMAIN nodes
             /\ Key(nodes[toZGState[key]].vertex, nodes[toZGState[key]].zone) = key
  <2>1. PICK q \in Range(initStatesTA) : key = Key(q, ZeroDBM)
    BY <1>2, <1>5 DEF InitialTable
  <2> DEFINE S == {i \in DOMAIN initStatesTA : initStatesTA[i] = key.vertex}
  <2>2. toZGState[key] = Max(S)
    BY <1>2, <1>5 DEF InitialTable
  <2>3. key.vertex = q
    BY <2>1 DEF Key
  <2>4. S \subseteq 1 .. Len(initStatesTA) /\ S # {}
    BY <1>1, <2>1, <2>3 DEF Range
  <2>5. Max(S) \in S
    <3> HIDE DEF S
    <3>1. S \subseteq 0 .. Len(initStatesTA)
      BY <1>1, <2>4
    <3> QED
      BY <1>1, <2>4, <3>1, GreatestIn
  <2>6. Max(S) \in DOMAIN nodes /\ initStatesTA[Max(S)] = q
    BY <1>1, <1>3, <2>3, <2>5
  <2> HIDE DEF S
  <2> QED
    BY <1>3, <2>1, <2>2, <2>6
<1>6. GraphInv
  BY <1>2, <1>3, <1>4, <1>5, ZeroIsZone DEF GraphInv
<1>7. ExpandedInv
  BY <1>2, <1>4 DEF ExpandedInv
<1> QED
  BY <1>6, <1>7 DEF SimInv

LEMMA StartRoundKeeps == ASSUME SimInv, StartRound PROVE SimInv'
<1>1. /\ pending = <<>> /\ currentConf = <<>> /\ ~ returned
      /\ nodes' = nodes /\ edges' = edges /\ toZGState' = toZGState
      /\ nextConf' = <<>> /\ currentConf' = nextConf /\ pending' = pending
      /\ returned' = returned
  BY Zenon DEF StartRound, expanding
<1>2. Range(<<>>) = {}
  BY DEF Range
<1>3. GraphInv'
  BY <1>1 DEF SimInv, GraphInv
<1>4. ExpandedInv'
  <2>1. pending' = <<>> /\ ~ returned'
    BY Zenon, <1>1
  <2>2. Range(nextConf') \cup Range(currentConf') = Range(nextConf) \cup Range(currentConf)
    BY Zenon, <1>1, <1>2
  <2>3. ASSUME NEW i \in DOMAIN nodes' \ (Range(nextConf') \cup Range(currentConf')),
               NEW n \in Out(nodes'[i].vertex)
        PROVE  Simulated(nodes', edges', i, n)
    <3>1. i \in DOMAIN nodes \ (Range(nextConf) \cup Range(currentConf)) /\ n \in Out(nodes[i].vertex)
      BY Zenon, <1>1, <2>2
    <3>2. Simulated(nodes, edges, i, n)
      BY Zenon, <3>1 DEF SimInv, ExpandedInv
    <3> QED
      BY Zenon, <1>1, <3>2
  <2> QED
    BY <2>1, <2>3 DEF ExpandedInv
<1> QED
  BY <1>3, <1>4 DEF SimInv

LEMMA ExpandKeeps == ASSUME SimInv, Expand PROVE SimInv'
<1> DEFINE u == Head(currentConf)
           q == nodes[u].vertex
<1>1. /\ pending = <<>> /\ currentConf # <<>> /\ nowZone' = Elapse(nodes[u].zone)
      /\ pending' = OutEdges(q)
      /\ currentConf' = IF pending' = <<>> THEN Tail(currentConf) ELSE currentConf
      /\ nodes' = nodes /\ edges' = edges /\ toZGState' = toZGState
      /\ nextConf' = nextConf /\ returned' = returned
  BY Zenon DEF Expand, expanding
<1>2. /\ currentConf \in Seq(DOMAIN nodes) /\ u \in DOMAIN nodes
      /\ Tail(currentConf) \in Seq(DOMAIN nodes)
      /\ Range(currentConf) = {u} \cup Range(Tail(currentConf))
  <2>1. currentConf \in Seq(DOMAIN nodes)
    BY DEF SimInv, GraphInv
  <2> QED
    BY Zenon, <1>1, <2>1, RangeOfTail
<1>3. /\ pending' \in Seq(DOMAIN TA.edges) /\ Range(pending') = Out(q)
      /\ currentConf' \in Seq(DOMAIN nodes)
  <2>1. pending' \in Seq(DOMAIN TA.edges) /\ Range(pending') = Out(q)
    BY Zenon, <1>1, TransitionsInOrder
  <2> QED
    BY Zenon, <1>1, <1>2, <2>1
<1> HIDE DEF u
<1>4. GraphInv'
  BY <1>1, <1>3 DEF SimInv, GraphInv
<1>5. ~ returned'
  BY Zenon, <1>1 DEF SimInv, ExpandedInv
<1>6. ASSUME pending' # <<>>
      PROVE  /\ currentConf' # <<>>
             /\ nowZone' = Elapse(nodes'[Head(currentConf')].zone)
             /\ \A n \in Out(nodes'[Head(currentConf')].vertex) \ Range(pending') :
                   Simulated(nodes', edges', Head(currentConf'), n)
  <2>1. currentConf' = currentConf /\ Head(currentConf') = u
    BY Zenon, <1>1, <1>6 DEF u
  <2> QED
    BY Zenon, <1>1, <1>3, <2>1
<1>7. ASSUME NEW i \in DOMAIN nodes' \ (Range(nextConf') \cup Range(currentConf')),
             NEW n \in Out(nodes'[i].vertex)
      PROVE  Simulated(nodes', edges', i, n)
  <2>1. i \in DOMAIN nodes /\ i \notin Range(nextConf) /\ n \in Out(nodes[i].vertex)
    BY Zenon, <1>1
  <2>2. i \notin Range(currentConf)
    <3>1. CASE pending' = <<>>
      <4>1. currentConf' = Tail(currentConf)
        BY Zenon, <1>1, <3>1
      <4>2. Out(q) = {}
        <5>1. Range(<<>>) = {}
          BY DEF Range
        <5> QED
          BY Zenon, <1>3, <3>1, <5>1
      <4>3. i # u
        BY Zenon, <2>1, <4>2
      <4> QED
        BY Zenon, <1>2, <4>1, <4>3
    <3>2. CASE pending' # <<>>
      BY Zenon, <1>1, <3>2
    <3> QED
      BY Zenon, <3>1, <3>2
  <2>3. Simulated(nodes, edges, i, n)
    BY Zenon, <2>1, <2>2 DEF SimInv, ExpandedInv
  <2> QED
    BY Zenon, <1>1, <2>3
<1>8. ExpandedInv'
  BY Zenon, <1>5, <1>6, <1>7 DEF ExpandedInv
<1> QED
  BY <1>4, <1>8 DEF SimInv

LEMMA ReturnKeeps == ASSUME SimInv, Return PROVE SimInv'
<1>1. /\ pending = <<>> /\ currentConf = <<>> /\ nextConf = <<>>
      /\ nodes' = nodes /\ edges' = edges /\ toZGState' = toZGState /\ nextConf' = nextConf
      /\ currentConf' = currentConf /\ pending' = pending
  BY Zenon DEF Return, expanding
<1>2. GraphInv'
  BY <1>1 DEF SimInv, GraphInv
<1>3. ExpandedInv'
  <2>1. pending' = <<>> /\ currentConf' = <<>> /\ nextConf' = <<>>
    BY Zenon, <1>1
  <2>2. \A i \in DOMAIN nodes \ (Range(nextConf) \cup Range(currentConf)) :
           \A n \in Out(nodes[i].vertex) : Simulated(nodes, edges, i, n)
    BY Zenon DEF SimInv, ExpandedInv
  <2>3. \A i \in DOMAIN nodes' \ (Range(nextConf') \cup Range(currentConf')) :
           \A n \in Out(nodes'[i].vertex) : Simulated(nodes', edges', i, n)
    BY Zenon, <1>1, <2>2
  <2> QED
    BY Zenon, <2>1, <2>3 DEF ExpandedInv
<1> QED
  BY <1>2, <1>3 DEF SimInv

LEMMA StutterKeeps == ASSUME SimInv, UNCHANGED vars PROVE SimInv'
<1>1. /\ nodes' = nodes /\ edges' = edges /\ toZGState' = toZGState /\ nextConf' = nextConf
      /\ currentConf' = currentConf /\ nowZone' = nowZone /\ pending' = pending
      /\ returned' = returned
  BY DEF vars
<1>2. GraphInv'
  BY <1>1 DEF SimInv, GraphInv
<1>3. ExpandedInv'
  BY Zenon, <1>1 DEF SimInv, ExpandedInv
<1> QED
  BY <1>2, <1>3 DEF SimInv

(* A transition that cannot be made, one to a zone that is known, one that *)
(* makes a vertex.                                                         *)
Impossible(n) ==
    /\ ~ IsSatisfiable(Guard(nowZone, TA.edges[n].guard))
    /\ edges' = edges /\ nodes' = nodes /\ toZGState' = toZGState /\ nextConf' = nextConf

ToKnown(n, u, key) ==
    /\ IsSatisfiable(Guard(nowZone, TA.edges[n].guard))
    /\ key \in DOMAIN toZGState
    /\ edges' = edges \cup {[src |-> u, dst |-> toZGState[key], by |-> n]}
    /\ nodes' = nodes /\ toZGState' = toZGState /\ nextConf' = nextConf

ToNew(n, u, key) ==
    /\ IsSatisfiable(Guard(nowZone, TA.edges[n].guard))
    /\ edges' = edges \cup {[src |-> u, dst |-> Len(nodes) + 1, by |-> n]}
    /\ nodes' = Append(nodes, [vertex |-> TA.edges[n].dst, zone |-> Target(nowZone, TA.edges[n])])
    /\ toZGState' = [k \in DOMAIN toZGState \cup {key} |->
                         IF k = key THEN Len(nodes) + 1 ELSE toZGState[k]]
    /\ nextConf' = Append(nextConf, Len(nodes) + 1)

LEMMA Tried ==
    ASSUME SimInv, TryTransition
    PROVE  LET u == Head(currentConf)
               n == Head(pending)
               key == Key(TA.edges[n].dst, Target(nowZone, TA.edges[n]))
           IN  /\ u \in DOMAIN nodes /\ n \in DOMAIN TA.edges
               /\ nowZone = Elapse(nodes[u].zone) /\ nowZone' = nowZone
               /\ Impossible(n) \/ ToKnown(n, u, key) \/ ToNew(n, u, key)
               /\ ~ returned'
               /\ pending' = Tail(pending) /\ pending' \in Seq(DOMAIN TA.edges)
               /\ Range(pending) = {n} \cup Range(pending')
               /\ currentConf' = IF pending' = <<>> THEN Tail(currentConf) ELSE currentConf
               /\ currentConf # <<>> /\ Tail(currentConf) \in Seq(DOMAIN nodes)
               /\ Range(currentConf) = {u} \cup Range(Tail(currentConf))
<1> DEFINE u == Head(currentConf)
           n == Head(pending)
           key == Key(TA.edges[n].dst, Target(nowZone, TA.edges[n]))
<1>1. /\ pending # <<>> /\ currentConf # <<>> /\ nowZone = Elapse(nodes[u].zone) /\ ~ returned
      /\ currentConf \in Seq(DOMAIN nodes) /\ pending \in Seq(DOMAIN TA.edges)
  BY Zenon DEF TryTransition, expanding, SimInv, ExpandedInv, GraphInv
<1>2. /\ u \in DOMAIN nodes /\ Tail(currentConf) \in Seq(DOMAIN nodes)
      /\ Range(currentConf) = {u} \cup Range(Tail(currentConf))
      /\ n \in DOMAIN TA.edges /\ Tail(pending) \in Seq(DOMAIN TA.edges)
      /\ Range(pending) = {n} \cup Range(Tail(pending))
  BY Zenon, <1>1, RangeOfTail
<1>3. /\ pending' = Tail(pending) /\ nowZone' = nowZone /\ returned' = returned
      /\ currentConf' = IF pending' = <<>> THEN Tail(currentConf) ELSE currentConf
  BY Zenon DEF TryTransition
<1>4. CASE ~ IsSatisfiable(Guard(nowZone, TA.edges[n].guard))
  <2>1. Impossible(n)
    BY Zenon, <1>4 DEF TryTransition, Impossible
  <2> QED
    BY Zenon, <1>1, <1>2, <1>3, <2>1
<1>5. CASE IsSatisfiable(Guard(nowZone, TA.edges[n].guard)) /\ key \in DOMAIN toZGState
  <2>1. ToKnown(n, u, key)
    BY Zenon, <1>5 DEF TryTransition, ToKnown
  <2> QED
    BY Zenon, <1>1, <1>2, <1>3, <2>1
<1>6. CASE IsSatisfiable(Guard(nowZone, TA.edges[n].guard)) /\ key \notin DOMAIN toZGState
  <2>1. ToNew(n, u, key)
    BY Zenon, <1>6 DEF TryTransition, ToNew
  <2> QED
    BY Zenon, <1>1, <1>2, <1>3, <2>1
<1> QED
  BY Zenon, <1>4, <1>5, <1>6

(* The graph only grows. *)
LEMMA Grown ==
    ASSUME SimInv, NEW n \in DOMAIN TA.edges, NEW u \in DOMAIN nodes, NEW key,
           Impossible(n) \/ ToKnown(n, u, key) \/ ToNew(n, u, key)
    PROVE  /\ DOMAIN nodes \subseteq DOMAIN nodes' /\ edges \subseteq edges'
           /\ \A i \in DOMAIN nodes : nodes'[i] = nodes[i]
           /\ DOMAIN nodes' \ DOMAIN nodes \subseteq Range(nextConf')
           /\ Range(nextConf) \subseteq Range(nextConf')
<1>0. nodes \in Seq(Node) /\ nextConf \in Seq(DOMAIN nodes)
  BY DEF SimInv, GraphInv
<1>1. CASE Impossible(n)
  BY Zenon, <1>1 DEF Impossible
<1>2. CASE ToKnown(n, u, key)
  BY Zenon, <1>2 DEF ToKnown
<1>3. CASE ToNew(n, u, key)
  <2> DEFINE new == [vertex |-> TA.edges[n].dst, zone |-> Target(nowZone, TA.edges[n])]
  <2>1. /\ edges \subseteq edges' /\ nodes' = Append(nodes, new)
        /\ nextConf' = Append(nextConf, Len(nodes) + 1)
    BY Zenon, <1>3 DEF ToNew
  <2> HIDE DEF new
  <2>2. /\ DOMAIN nodes = 1 .. Len(nodes) /\ DOMAIN nodes' = 1 .. Len(nodes) + 1
        /\ \A i \in DOMAIN nodes : nodes'[i] = nodes[i]
    BY <1>0, <2>1
  <2>3. Range(nextConf') = Range(nextConf) \cup {Len(nodes) + 1}
    BY Zenon, <1>0, <2>1, RangeOfAppend
  <2>4. /\ DOMAIN nodes \subseteq DOMAIN nodes'
        /\ DOMAIN nodes' \ DOMAIN nodes \subseteq {Len(nodes) + 1}
    BY <1>0, <2>2
  <2> QED
    BY Zenon, <2>1, <2>2, <2>3, <2>4
<1> QED
  BY Zenon, <1>1, <1>2, <1>3

(* The vertex that has the key of the transition's target has its points.  *)
LEMMA TriedSimulated ==
    ASSUME SimInv, NEW n \in DOMAIN TA.edges, NEW u \in DOMAIN nodes,
           nowZone = Elapse(nodes[u].zone),
           LET key == Key(TA.edges[n].dst, Target(nowZone, TA.edges[n]))
           IN  Impossible(n) \/ ToKnown(n, u, key) \/ ToNew(n, u, key)
    PROVE  Simulated(nodes', edges', u, n)
<1> DEFINE e == TA.edges[n]
           Z == Target(nowZone, e)
           key == Key(e.dst, Z)
<1>1. /\ nodes \in Seq(Node) /\ nodes[u] \in Node /\ nodes[u].zone \in Matrix
      /\ nodes'[u] = nodes[u]
  <2>1. nodes \in Seq(Node)
    BY DEF SimInv, GraphInv
  <2>2. nodes[u] \in Node
    BY <2>1
  <2>3. nodes'[u] = nodes[u]
    BY Zenon, Grown
  <2> QED
    BY <2>1, <2>2, <2>3 DEF Node
<1> SUFFICES ASSUME NEW p \in Valuation, NEW d \in Nat \ {0},
                    p[0] = 0, Sat(p, nodes[u].zone), Meets(Advanced(p, d), e.guard)
             PROVE  Mimicked(nodes', edges', u, n, Advanced(p, d))
  BY <1>1 DEF Simulated
<1> DEFINE w == Advanced(p, d)
<1>2. nowZone \in Matrix /\ Sat(w, nowZone) /\ w \in Valuation /\ w[0] = 0
  <2>1. d \in Int /\ d > 0
    OBVIOUS
  <2>2. nowZone \in Matrix /\ Sat(w, nowZone)
    BY <1>1, <2>1, ElapseSound DEF Advanced
  <2>3. w \in Valuation /\ w[0] = 0
    BY VarFacts DEF Advanced, Valuation
  <2> QED
    BY <2>2, <2>3
<1> HIDE DEF w
<1>3. IsSatisfiable(Guard(nowZone, e.guard)) /\ Sat(ResetPoint(w, e.resets), Z)
  BY <1>2, TargetSound DEF w
<1>4. Z \in Matrix /\ Rooted(Z)
  BY <1>2, <1>3, TargetZone
<1>5. ResetPoint(w, e.resets) \in Valuation
  BY <1>2 DEF ResetPoint, Valuation
<1> HIDE DEF Z
<1>6. CASE ToKnown(n, u, key)
  <2> DEFINE a == [src |-> u, dst |-> toZGState[key], by |-> n]
             j == toZGState[key]
  <2>1. a \in edges' /\ nodes' = nodes /\ key \in DOMAIN toZGState
    BY Zenon, <1>6 DEF ToKnown
  <2>2. j \in DOMAIN nodes /\ Key(nodes[j].vertex, nodes[j].zone) = key /\ Rooted(nodes[j].zone)
    BY Zenon, <2>1 DEF SimInv, GraphInv
  <2>3. nodes[j].vertex = e.dst
    <3> HIDE DEF j, e
    <3> QED
      BY <2>2 DEF Key
  <2>4. nodes[j].zone \in Matrix
    <3> HIDE DEF j
    <3>1. nodes[j] \in Node
      BY <1>1, <2>2
    <3> QED
      BY <3>1 DEF Node
  <2>5. Sat(ResetPoint(w, e.resets), nodes[j].zone)
    <3> HIDE DEF j, e
    <3> QED
      BY Zenon, <1>3, <1>4, <1>5, <2>2, <2>4, SameKeySat
  <2>6. a.src = u /\ a.by = n /\ a.dst = j
    OBVIOUS
  <2> HIDE DEF a, j
  <2> QED
    BY <2>1, <2>2, <2>3, <2>5, <2>6 DEF Mimicked, w
<1>7. CASE ToNew(n, u, key)
  <2> DEFINE j == Len(nodes) + 1
             a == [src |-> u, dst |-> j, by |-> n]
             new == [vertex |-> e.dst, zone |-> Z]
  <2>1. a \in edges' /\ nodes' = Append(nodes, new)
    BY Zenon, <1>7 DEF ToNew, Z
  <2>2. new.vertex = e.dst /\ new.zone = Z
    OBVIOUS
  <2> HIDE DEF new
  <2>3. j \in DOMAIN nodes' /\ nodes'[j] = new
    BY <1>1, <2>1
  <2>4. a.src = u /\ a.by = n /\ a.dst = j
    OBVIOUS
  <2> HIDE DEF a, j
  <2> QED
    BY <1>3, <2>1, <2>2, <2>3, <2>4 DEF Mimicked, w
<1> QED
  BY Zenon, <1>3, <1>6, <1>7 DEF Impossible, Z

LEMMA TriedKeepsGraph ==
    ASSUME SimInv, NEW n \in DOMAIN TA.edges, NEW u \in DOMAIN nodes, nowZone \in Matrix,
           LET key == Key(TA.edges[n].dst, Target(nowZone, TA.edges[n]))
           IN  Impossible(n) \/ ToKnown(n, u, key) \/ ToNew(n, u, key)
    PROVE  /\ nodes' \in Seq(Node) /\ nextConf' \in Seq(DOMAIN nodes')
           /\ edges' \subseteq [src : DOMAIN nodes', dst : DOMAIN nodes', by : DOMAIN TA.edges]
           /\ \A i \in DOMAIN nodes' : Rooted(nodes'[i].zone)
           /\ \A key \in DOMAIN toZGState' :
                 /\ toZGState'[key] \in DOMAIN nodes'
                 /\ Key(nodes'[toZGState'[key]].vertex, nodes'[toZGState'[key]].zone) = key
<1> DEFINE e == TA.edges[n]
           Z == Target(nowZone, e)
           key == Key(e.dst, Z)
<1>1. GraphInv
  BY DEF SimInv
<1>2. CASE Impossible(n)
  BY <1>1, <1>2 DEF Impossible, GraphInv
<1>3. CASE ToKnown(n, u, key)
  <2>1. /\ edges' = edges \cup {[src |-> u, dst |-> toZGState[key], by |-> n]}
        /\ nodes' = nodes /\ toZGState' = toZGState /\ nextConf' = nextConf
        /\ key \in DOMAIN toZGState
    BY Zenon, <1>3 DEF ToKnown
  <2> HIDE DEF key
  <2>2. toZGState[key] \in DOMAIN nodes
    BY <1>1, <2>1 DEF GraphInv
  <2> QED
    BY <1>1, <2>1, <2>2 DEF GraphInv
<1>4. CASE ToNew(n, u, key)
  <2> DEFINE j == Len(nodes) + 1
             new == [vertex |-> e.dst, zone |-> Z]
  <2>1. /\ edges' = edges \cup {[src |-> u, dst |-> j, by |-> n]}
        /\ nodes' = Append(nodes, new)
        /\ toZGState' = [k \in DOMAIN toZGState \cup {key} |-> IF k = key THEN j ELSE toZGState[k]]
        /\ nextConf' = Append(nextConf, j)
    BY Zenon, <1>4 DEF ToNew, Z
  <2>2. new \in Node /\ Rooted(new.zone) /\ Key(new.vertex, new.zone) = key
    <3>1. Z \in Matrix /\ Rooted(Z)
      BY <1>4, TargetZone DEF ToNew
    <3>2. e.dst \in Locations
      BY TransitionFacts DEF Locations
    <3> HIDE DEF e, Z
    <3> QED
      BY <3>1, <3>2 DEF Node
  <2> HIDE DEF new, key
  <2>3. /\ nodes' \in Seq(Node) /\ DOMAIN nodes \subseteq DOMAIN nodes'
        /\ j \in DOMAIN nodes' /\ nodes'[j] = new
        /\ DOMAIN nodes' = DOMAIN nodes \cup {j}
        /\ \A i \in DOMAIN nodes : nodes'[i] = nodes[i]
    BY <1>1, <2>1, <2>2 DEF GraphInv
  <2> HIDE DEF j
  <2>4. nextConf' \in Seq(DOMAIN nodes')
    <3>1. nextConf \in Seq(DOMAIN nodes')
      BY <1>1, <2>3 DEF GraphInv
    <3> QED
      BY Zenon, <2>1, <2>3, <3>1, Appended
  <2>5. edges' \subseteq [src : DOMAIN nodes', dst : DOMAIN nodes', by : DOMAIN TA.edges]
    <3>1. edges \subseteq [src : DOMAIN nodes', dst : DOMAIN nodes', by : DOMAIN TA.edges]
      BY <1>1, <2>3 DEF GraphInv
    <3>2. u \in DOMAIN nodes'
      BY <2>3
    <3> QED
      BY <2>1, <2>3, <3>1, <3>2
  <2>6. \A i \in DOMAIN nodes' : Rooted(nodes'[i].zone)
    BY Zenon, <1>1, <2>2, <2>3 DEF GraphInv
  <2>7. ASSUME NEW k \in DOMAIN toZGState'
        PROVE  /\ toZGState'[k] \in DOMAIN nodes'
               /\ Key(nodes'[toZGState'[k]].vertex, nodes'[toZGState'[k]].zone) = k
    <3>1. CASE k = key
      <4>1. toZGState'[k] = j
        BY <2>1, <2>7, <3>1
      <4> QED
        BY Zenon, <2>2, <2>3, <3>1, <4>1
    <3>2. CASE k # key
      <4>1. k \in DOMAIN toZGState /\ toZGState'[k] = toZGState[k]
        BY <2>1, <2>7, <3>2
      <4>2. toZGState[k] \in DOMAIN nodes
        BY <1>1, <4>1 DEF GraphInv
      <4> QED
        BY Zenon, <1>1, <2>3, <4>1, <4>2 DEF GraphInv
    <3> QED
      BY <3>1, <3>2
  <2> QED
    BY Zenon, <2>3, <2>4, <2>5, <2>6, <2>7
<1> QED
  BY Zenon, <1>2, <1>3, <1>4

LEMMA TryTransitionKeeps == ASSUME SimInv, TryTransition PROVE SimInv'
<1> DEFINE u == Head(currentConf)
           n == Head(pending)
           key == Key(TA.edges[n].dst, Target(nowZone, TA.edges[n]))
<1>1. /\ u \in DOMAIN nodes /\ n \in DOMAIN TA.edges
      /\ nowZone = Elapse(nodes[u].zone) /\ nowZone' = nowZone
      /\ Impossible(n) \/ ToKnown(n, u, key) \/ ToNew(n, u, key)
      /\ ~ returned'
      /\ pending' = Tail(pending) /\ pending' \in Seq(DOMAIN TA.edges)
      /\ Range(pending) = {n} \cup Range(pending')
      /\ currentConf' = IF pending' = <<>> THEN Tail(currentConf) ELSE currentConf
      /\ currentConf # <<>> /\ Tail(currentConf) \in Seq(DOMAIN nodes)
      /\ Range(currentConf) = {u} \cup Range(Tail(currentConf))
  BY Zenon, Tried
<1>2. /\ DOMAIN nodes \subseteq DOMAIN nodes' /\ edges \subseteq edges'
      /\ \A i \in DOMAIN nodes : nodes'[i] = nodes[i]
      /\ DOMAIN nodes' \ DOMAIN nodes \subseteq Range(nextConf')
      /\ Range(nextConf) \subseteq Range(nextConf')
  BY Zenon, <1>1, Grown
<1>3. Simulated(nodes', edges', u, n)
  BY Zenon, <1>1, TriedSimulated
<1>4. nowZone \in Matrix
  <2>1. nodes[u].zone \in Matrix
    <3>1. nodes[u] \in Node
      BY <1>1 DEF SimInv, GraphInv
    <3> QED
      BY <3>1 DEF Node
  <2> QED
    BY <1>1, <2>1, ElapseIs
<1>5. /\ nodes' \in Seq(Node) /\ nextConf' \in Seq(DOMAIN nodes')
      /\ edges' \subseteq [src : DOMAIN nodes', dst : DOMAIN nodes', by : DOMAIN TA.edges]
      /\ \A i \in DOMAIN nodes' : Rooted(nodes'[i].zone)
      /\ \A k \in DOMAIN toZGState' :
            /\ toZGState'[k] \in DOMAIN nodes'
            /\ Key(nodes'[toZGState'[k]].vertex, nodes'[toZGState'[k]].zone) = k
  BY Zenon, <1>1, <1>4, TriedKeepsGraph
<1> HIDE DEF u, n, key
<1>6. ASSUME NEW i \in DOMAIN nodes, NEW m, Simulated(nodes, edges, i, m)
      PROVE  Simulated(nodes', edges', i, m)
  BY Zenon, <1>2, <1>6, SimulatedMore
<1>7. currentConf' \in Seq(DOMAIN nodes')
  <2>1. currentConf \in Seq(DOMAIN nodes)
    BY DEF SimInv, GraphInv
  <2>2. currentConf' \in Seq(DOMAIN nodes)
    BY Zenon, <1>1, <2>1
  <2> QED
    BY Zenon, <1>2, <2>2, InLargerRange
<1>8. GraphInv'
  BY Zenon, <1>1, <1>5, <1>7 DEF GraphInv
<1>9. \A m \in Out(nodes[u].vertex) \ Range(pending') : Simulated(nodes', edges', u, m)
  <2>1. \A m \in Out(nodes[u].vertex) \ Range(pending) : Simulated(nodes, edges, u, m)
    BY Zenon DEF TryTransition, expanding, SimInv, ExpandedInv, u
  <2> QED
    BY Zenon, <1>1, <1>3, <1>6, <2>1
<1>10. ASSUME pending' # <<>>
       PROVE  /\ currentConf' # <<>>
              /\ nowZone' = Elapse(nodes'[Head(currentConf')].zone)
              /\ \A m \in Out(nodes'[Head(currentConf')].vertex) \ Range(pending') :
                    Simulated(nodes', edges', Head(currentConf'), m)
  <2>1. currentConf' = currentConf /\ Head(currentConf') = u
    BY Zenon, <1>1, <1>10 DEF u
  <2> QED
    BY Zenon, <1>1, <1>2, <1>9, <2>1
<1>11. ASSUME NEW i \in DOMAIN nodes' \ (Range(nextConf') \cup Range(currentConf')),
              NEW m \in Out(nodes'[i].vertex)
       PROVE  Simulated(nodes', edges', i, m)
  <2>1. i \in DOMAIN nodes /\ i \notin Range(nextConf) /\ m \in Out(nodes[i].vertex)
    BY Zenon, <1>2
  <2>2. CASE i = u
    <3>1. pending' = <<>>
      BY Zenon, <1>1, <2>2
    <3>2. Range(<<>>) = {}
      BY DEF Range
    <3> QED
      BY Zenon, <1>9, <2>1, <2>2, <3>1, <3>2
  <2>3. CASE i # u
    <3>1. i \notin Range(currentConf)
      BY Zenon, <1>1, <2>3
    <3>2. Simulated(nodes, edges, i, m)
      BY Zenon, <2>1, <3>1 DEF SimInv, ExpandedInv
    <3> QED
      BY Zenon, <1>6, <2>1, <3>2
  <2> QED
    BY Zenon, <2>2, <2>3
<1>12. ExpandedInv'
  BY Zenon, <1>1, <1>10, <1>11 DEF ExpandedInv
<1> QED
  BY <1>8, <1>12 DEF SimInv

-----------------------------------------------------------------------------
(* The theorems *)

LEMMA NextKeeps == ASSUME SimInv, [Next]_vars PROVE SimInv'
<1>1. CASE StartRound
  BY <1>1, StartRoundKeeps
<1>2. CASE Expand
  BY <1>2, ExpandKeeps
<1>3. CASE TryTransition
  BY <1>3, TryTransitionKeeps
<1>4. CASE Return
  BY <1>4, ReturnKeeps
<1>5. CASE UNCHANGED vars
  BY <1>5, StutterKeeps
<1> QED
  BY Zenon, <1>1, <1>2, <1>3, <1>4, <1>5 DEF Next, Done

LEMMA GraphSimulates == Spec => []SimInv
  BY SimInit, NextKeeps, PTL DEF Spec

(* Vertices, edges, the table and the queues of zoneConstruction refer to  *)
(* vertices and transitions that exist, whatever the automaton.            *)
THEOREM PlainTypeOK == Spec => []TypeOK
<1>1. ASSUME SimInv PROVE TypeOK
  <2>1. GraphInv
    BY <1>1 DEF SimInv
  <2>2. ASSUME NEW i \in DOMAIN nodes PROVE nodes[i].zone \in Matrix
    <3>1. nodes[i] \in Node
      BY <2>1 DEF GraphInv
    <3> QED
      BY <3>1 DEF Node
  <2>3. Range(nextConf) \subseteq DOMAIN nodes /\ Range(currentConf) \subseteq DOMAIN nodes
    BY Zenon, <2>1, InRange DEF GraphInv
  <2>4. \A i \in DOMAIN pending : pending[i] \in DOMAIN TA.edges
    BY <2>1 DEF GraphInv
  <2> QED
    BY Zenon, <2>1, <2>2, <2>3, <2>4 DEF GraphInv, TypeOK
<1> QED
  BY <1>1, GraphSimulates, PTL

(* There is a largest constant. *)
LEMMA CeilingIsPositive == Ceiling \in Nat \ {0}
<1> DEFINE cs(i) == {c.c : c \in TA.edges[i].guard}
           S == {0} \cup UNION {cs(i) : i \in DOMAIN TA.edges}
           UpTo(k, m) == \A i \in 1 .. k : cs(i) \subseteq 0 .. m
           K == {k \in Nat : \E m \in Nat : UpTo(k, m)}
<1>1. ASSUME NEW i \in DOMAIN TA.edges PROVE \E m \in Nat : cs(i) \subseteq 0 .. m
  <2> DEFINE g == TA.edges[i].guard
             L == {s \in SUBSET g : \E m \in Nat : \A c \in s : c.c \in 0 .. m}
  <2>1. IsFiniteSet(g)
    BY TransitionFacts DEF IsGuard
  <2>2. ASSUME NEW c \in g PROVE c.c \in Nat
    <3>1. c \in [x : 1 .. Dim, odr : Orders, c : Nat]
      BY TransitionFacts, PlainZoneGraphAssumption
    <3> QED
      BY <3>1
  <2>3. ASSUME NEW s \in SUBSET g, \A c \in s : s \ {c} \in L PROVE s \in L
    <3>1. CASE s = {}
      BY <3>1
    <3>2. CASE s # {}
      <4>1. PICK c \in s : TRUE
        BY <3>2
      <4>2. PICK m \in Nat : \A b \in s \ {c} : b.c \in 0 .. m
        BY <2>3, <4>1
      <4>3. c.c \in Nat /\ m + c.c \in Nat
        BY <2>2, <4>1, <4>2
      <4>4. \A b \in s : b.c \in 0 .. m + c.c
        BY <4>2, <4>3
      <4> QED
        BY <4>3, <4>4
    <3> QED
      BY <3>1, <3>2
  <2>4. g \in L
    <3> HIDE DEF L, g
    <3> QED
      BY <2>1, <2>3, SubsetInduction
  <2> QED
    BY <2>4
<1>2. DOMAIN TA.edges = 1 .. Len(TA.edges) /\ Len(TA.edges) \in Nat
  BY TransitionsInOrder
<1> HIDE DEF cs
<1>3. 0 \in K
  <2>1. UpTo(0, 0)
    OBVIOUS
  <2> QED
    BY <2>1
<1>4. ASSUME NEW k \in 0 .. Len(TA.edges) - 1, k \in K PROVE k + 1 \in K
  <2>1. PICK m \in Nat : UpTo(k, m)
    BY <1>4
  <2>2. PICK l \in Nat : cs(k + 1) \subseteq 0 .. l
    <3>1. k + 1 \in DOMAIN TA.edges
      BY <1>2
    <3> QED
      BY <1>1, <3>1
  <2>3. m + l \in Nat /\ k + 1 \in Nat /\ k \in Nat
    BY <1>2
  <2>4. UpTo(k + 1, m + l)
    <3> SUFFICES ASSUME NEW i \in 1 .. k + 1 PROVE cs(i) \subseteq 0 .. m + l
      OBVIOUS
    <3>1. CASE i = k + 1
      BY <2>2, <3>1
    <3>2. CASE i # k + 1
      <4>1. i \in 1 .. k
        BY <2>3, <3>2
      <4>2. cs(i) \subseteq 0 .. m
        BY <2>1, <4>1
      <4> QED
        BY <4>2
    <3> QED
      BY <3>1, <3>2
  <2> HIDE DEF UpTo
  <2> QED
    BY <2>3, <2>4
<1>5. Len(TA.edges) \in K
  <2>1. \A k \in 0 .. Len(TA.edges) : k \in K
    <3> HIDE DEF K
    <3> QED
      BY <1>2, <1>3, <1>4, InductionUpTo
  <2>2. Len(TA.edges) \in 0 .. Len(TA.edges)
    BY <1>2
  <2> HIDE DEF K
  <2> QED
    BY <2>1, <2>2
<1>6. PICK m \in Nat : UpTo(Len(TA.edges), m)
  <2> HIDE DEF UpTo
  <2> QED
    BY <1>5
<1>7. S \subseteq 0 .. m /\ S # {}
  BY <1>2, <1>6
<1>8. MaxConstraints = Max(S)
  BY DEF MaxConstraints, cs
<1> HIDE DEF S
<1>9. MaxConstraints \in Nat
  <2>1. MaxConstraints \in S
    BY Zenon, <1>7, <1>8, GreatestIn
  <2> QED
    BY <1>7, <2>1
<1> QED
  BY <1>9 DEF Ceiling

(* On return the graph of zoneConstruction simulates the automaton: no     *)
(* point of a zone that time passes from and no transition is lost by the  *)
(* widening, by cutting the zone down to the guard and by the table of     *)
(* zones already met, for every automaton, number of clocks and list of    *)
(* initial locations.                                                      *)
THEOREM PlainStepsSimulated == Spec => []StepsSimulated
<1>1. ASSUME SimInv PROVE StepsSimulated
  <2> SUFFICES ASSUME returned, NEW i \in DOMAIN nodes, NEW n \in DOMAIN TA.edges,
                      TA.edges[n].src = nodes[i].vertex,
                      NEW v \in Points, Sat(v, nodes[i].zone),
                      NEW u \in Later(v), Meets(u, TA.edges[n].guard)
               PROVE  \E j \in {w.dst : w \in {d \in edges : d.src = i /\ d.by = n}} :
                         /\ nodes[j].vertex = TA.edges[n].dst
                         /\ Sat(ResetPoint(u, TA.edges[n].resets), nodes[j].zone)
    BY Zenon DEF StepsSimulated
  <2>1. v \in Valuation /\ v[0] = 0
    <3>1. PICK f \in [1 .. Dim -> 0 .. Ceiling] : v = [x \in Var |-> IF x = 0 THEN 0 ELSE f[x]]
      BY DEF Points, PointsUpTo
    <3>2. \A x \in Var : x # 0 => f[x] \in Int
      BY CeilingIsPositive, DBMAssumption DEF Var
    <3> QED
      BY <3>1, <3>2, VarFacts DEF Valuation
  <2>2. PICK d \in 1 .. Ceiling : u = Advanced(v, d)
    BY DEF Later, Advanced
  <2>3. d \in Nat \ {0}
    BY <2>2, CeilingIsPositive
  <2>4. Simulated(nodes, edges, i, n)
    <3>1. n \in Out(nodes[i].vertex)
      BY DEF Out
    <3>2. Range(<<>>) = {}
      BY DEF Range
    <3> QED
      BY Zenon, <1>1, <3>1, <3>2 DEF SimInv, ExpandedInv
  <2>5. Mimicked(nodes, edges, i, n, u)
    BY <2>1, <2>2, <2>3, <2>4 DEF Simulated
  <2> QED
    BY Zenon, <2>5 DEF Mimicked
<1> QED
  BY <1>1, GraphSimulates, PTL

=============================================================================

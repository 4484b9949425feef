------------------------ MODULE TimedAutomaton_proofs ------------------------
(***************************************************************************)
(* Zones and transitions, for every automaton, every number of clocks and  *)
(* every matrix.  The zone operations are sound and keep the canonical     *)
(* form, merging is exact, and guards and resets act on a zone as they do  *)
(* on each of its valuations.  A valuation is any integer vector: the unit *)
(* of time is arbitrary, so the statements hold for rational times.        *)
(***************************************************************************)
EXTENDS TimedAutomaton, Induction

Valuation == [Var -> Int]

-----------------------------------------------------------------------------
(* Bounds *)

LEMMA AddIsBound == ASSUME NEW a \in Bound, NEW b \in Bound PROVE Add(a, b) \in Bound
  BY DBMAssumption DEF Add, Bound

(* Adding two constraints along a path.                                    *)
LEMMA AddSound ==
    ASSUME NEW a \in Bound, NEW b \in Bound, NEW d \in Int, NEW e \in Int,
           Holds(d, a), Holds(e, b)
    PROVE  Holds(d + e, Add(a, b))
  BY DBMAssumption DEF Add, Bound, Holds

(* A smaller bound is a stronger one.                                      *)
LEMMA HoldsMonotone ==
    ASSUME NEW a \in Bound, NEW b \in Bound, a <= b, NEW d \in Int, Holds(d, a)
    PROVE  Holds(d, b)
  BY DBMAssumption DEF Bound, Holds

LEMMA HoldsLower ==
    ASSUME NEW a \in Bound, NEW b \in Bound, NEW d \in Int
    PROVE  /\ Lower(a, b) \in Bound
           /\ Holds(d, Lower(a, b)) <=> Holds(d, a) /\ Holds(d, b)
  BY DBMAssumption DEF Bound, Holds, Lower

LEMMA HoldsHigher ==
    ASSUME NEW a \in Bound, NEW b \in Bound, NEW d \in Int
    PROVE  /\ Higher(a, b) \in Bound
           /\ Holds(d, Higher(a, b)) <=> Holds(d, a) \/ Holds(d, b)
  BY DBMAssumption DEF Bound, Holds, Higher

LEMMA AddMonotone ==
    ASSUME NEW a \in Bound, NEW b \in Bound, NEW c \in Bound, NEW d \in Bound,
           a <= c, b <= d
    PROVE  Add(a, b) <= Add(c, d)
  BY DBMAssumption DEF Add, Bound

(* What a bound excludes satisfies the complementary one.                  *)
LEMMA HoldsComplement ==
    ASSUME NEW a \in Bound, NEW d \in Int, ~ Holds(d, a)
    PROVE  Complement(a) \in Int /\ Holds(-d, Complement(a))
  BY DEF Bound, Holds, Complement

LEMMA VarFacts == 0 \in Var /\ Var \subseteq Int
  BY DBMAssumption DEF Var

LEMMA EvaluatedIs == ASSUME NEW M PROVE Evaluated(M) = M
  BY DEF Evaluated

-----------------------------------------------------------------------------
(* Closing through a variable changes nothing of what the zone means.      *)

LEMMA Close1Is ==
    ASSUME NEW F, NEW x
    PROVE  Close1(F, x) =
             [i \in Var |-> [j \in Var |->
                Lower(F[i][j], Add(F[i][x],
                   IF i > x THEN [k \in Var |-> Lower(F[x][k], Add(F[x][x], F[x][k]))][j]
                   ELSE F[x][j]))]]
  BY Zenon, EvaluatedIs DEF Close1

LEMMA Close1At ==
    ASSUME NEW F, NEW x, NEW i \in Var, NEW j \in Var
    PROVE  Close1(F, x)[i][j] =
             Lower(F[i][j], Add(F[i][x],
                IF i > x THEN Lower(F[x][j], Add(F[x][x], F[x][j])) ELSE F[x][j]))
  BY Close1Is

LEMMA Close1Type ==
    ASSUME NEW F \in Matrix, NEW x \in Var
    PROVE  Close1(F, x) \in Matrix
<1>1. \A i, j \in Var : F[i][j] \in Bound
  BY DEF Matrix
<1>2. \A j \in Var : Lower(F[x][j], Add(F[x][x], F[x][j])) \in Bound
  BY <1>1, AddIsBound, HoldsLower
<1>3. \A i, j \in Var :
         Lower(F[i][j], Add(F[i][x],
            IF i > x THEN Lower(F[x][j], Add(F[x][x], F[x][j])) ELSE F[x][j])) \in Bound
  BY <1>1, <1>2, AddIsBound, HoldsLower
<1> QED
  BY <1>3, Close1Is, Close1At DEF Matrix

LEMMA Close1Entry ==
    ASSUME NEW F \in Matrix, NEW x \in Var, NEW i \in Var, NEW j \in Var
    PROVE  /\ Close1(F, x)[i][j] <= F[i][j]
           /\ \A v \in Valuation : Sat(v, F) => Holds(v[i] - v[j], Close1(F, x)[i][j])
<1> DEFINE pivot == Lower(F[x][j], Add(F[x][x], F[x][j]))
           via == IF i > x THEN pivot ELSE F[x][j]
<1>1. \A a, b \in Var : F[a][b] \in Bound
  BY DEF Matrix
<1>2. Add(F[x][x], F[x][j]) \in Bound /\ pivot \in Bound /\ via \in Bound
  BY <1>1, AddIsBound, HoldsLower
<1>3. Add(F[i][x], via) \in Bound
  BY <1>1, <1>2, AddIsBound
<1>4. Close1(F, x)[i][j] = Lower(F[i][j], Add(F[i][x], via))
  BY Close1At
<1>5. Close1(F, x)[i][j] <= F[i][j]
  BY <1>1, <1>3, <1>4 DEF Lower, Bound
<1>6. ASSUME NEW v \in Valuation, Sat(v, F)
      PROVE  Holds(v[i] - v[j], Close1(F, x)[i][j])
  <2>1. \A a, b \in Var : Holds(v[a] - v[b], F[a][b]) /\ v[a] - v[b] \in Int
    BY <1>6 DEF Sat, Valuation
  <2>2. v[x] - v[j] = (v[x] - v[x]) + (v[x] - v[j])
    BY DEF Valuation
  <2>3. Holds(v[x] - v[j], Add(F[x][x], F[x][j]))
    BY <1>1, <2>1, <2>2, AddSound
  <2>4. Holds(v[x] - v[j], via)
    BY <1>1, <1>2, <2>1, <2>3, HoldsLower
  <2>5. v[i] - v[j] = (v[i] - v[x]) + (v[x] - v[j])
    BY DEF Valuation
  <2>6. Holds(v[i] - v[j], Add(F[i][x], via))
    <3> HIDE DEF via
    <3> QED
      BY <1>1, <1>2, <2>1, <2>4, <2>5, AddSound
  <2> QED
    <3> HIDE DEF via
    <3> QED
      BY <1>1, <1>3, <1>4, <2>1, <2>6, HoldsLower
<1> QED
  BY <1>5, <1>6

(* close1 keeps exactly the valuations of the zone, whatever the matrix.   *)
THEOREM Close1Exact ==
    ASSUME NEW F \in Matrix, NEW x \in Var, NEW v \in Valuation
    PROVE  Close1(F, x) \in Matrix /\ (Sat(v, Close1(F, x)) <=> Sat(v, F))
<1>1. Close1(F, x) \in Matrix
  BY Close1Type
<1>2. Sat(v, F) => Sat(v, Close1(F, x))
  BY Close1Entry DEF Sat
<1>3. ASSUME Sat(v, Close1(F, x)) PROVE Sat(v, F)
  <2> SUFFICES ASSUME NEW i \in Var, NEW j \in Var PROVE Holds(v[i] - v[j], F[i][j])
    BY DEF Sat
  <2>1. Close1(F, x)[i][j] \in Bound /\ F[i][j] \in Bound /\ v[i] - v[j] \in Int
    BY <1>1 DEF Matrix, Valuation
  <2>2. Holds(v[i] - v[j], Close1(F, x)[i][j])
    BY <1>3 DEF Sat
  <2> QED
    BY <2>1, <2>2, Close1Entry, HoldsMonotone
<1> QED
  BY <1>1, <1>2, <1>3

(* A path through the variable is no shorter than the entry afterwards.    *)
LEMMA Close1Shortens ==
    ASSUME NEW F \in Matrix, NEW x \in Var, NEW i \in Var, NEW j \in Var
    PROVE  Close1(F, x)[i][j] <= Add(F[i][x], F[x][j])
<1> DEFINE pivot == Lower(F[x][j], Add(F[x][x], F[x][j]))
           via == IF i > x THEN pivot ELSE F[x][j]
<1>1. \A a, b \in Var : F[a][b] \in Bound
  BY DEF Matrix
<1>2. Add(F[x][x], F[x][j]) \in Bound
  BY <1>1, AddIsBound
<1>3. via \in Bound /\ via <= F[x][j]
  BY <1>1, <1>2 DEF Lower, Bound
<1>4. Close1(F, x)[i][j] = Lower(F[i][j], Add(F[i][x], via))
  BY Close1At
<1> HIDE DEF via
<1>5. Add(F[i][x], via) \in Bound /\ Add(F[i][x], via) <= Add(F[i][x], F[x][j])
  <2>1. F[i][x] \in Bound /\ F[i][x] <= F[i][x] /\ F[x][j] \in Bound
    BY <1>1 DEF Bound
  <2> QED
    BY <1>3, <2>1, AddIsBound, AddMonotone
<1>6. F[i][j] \in Bound /\ Add(F[i][x], F[x][j]) \in Bound
  BY <1>1, AddIsBound
<1> QED
  BY <1>4, <1>5, <1>6 DEF Lower, Bound

-----------------------------------------------------------------------------
(* Canonize closes through the variables one after the other.              *)

ClosedUpTo(closed, Z, n) ==
    \A k \in 0 .. n : closed[k] = IF k = 0 THEN Z ELSE Close1(closed[k - 1], k - 1)

(* The recursive function of Canonize exists.                              *)
LEMMA CanonizeRuns ==
    ASSUME NEW Z \in Matrix
    PROVE  \E closed : ClosedUpTo(closed, Z, Dim + 1) /\ Canonize(Z) = closed[Dim + 1]
<1> DEFINE Closing(f) ==
             f = [k \in 0 .. Dim + 1 |-> IF k = 0 THEN Z ELSE Close1(f[k - 1], k - 1)]
           step == [k \in 1 .. Dim + 1 |-> [M \in Matrix |-> Close1(M, k - 1)]]
<1>1. Dim + 1 \in Nat /\ \A k \in 1 .. Dim + 1 : k - 1 \in Var
  BY DBMAssumption DEF Var
<1>2. step \in [1 .. Dim + 1 -> [Matrix -> Matrix]]
  BY <1>1, Close1Type
<1>3. PICK f \in [0 .. Dim + 1 -> Matrix] :
         \A k \in 0 .. Dim + 1 : f[k] = IF k = 0 THEN Z ELSE step[k][f[k - 1]]
  <2>1. Iterates(Dim + 1, Matrix, Z, step) # {}
    <3> HIDE DEF step
    <3> QED
      BY <1>1, <1>2, RecursionExists
  <2> HIDE DEF step
  <2> QED
    BY <2>1 DEF Iterates
<1>4. \A k \in 0 .. Dim + 1 : f[k] = IF k = 0 THEN Z ELSE Close1(f[k - 1], k - 1)
  <2> TAKE k \in 0 .. Dim + 1
  <2>1. f[k] = IF k = 0 THEN Z ELSE step[k][f[k - 1]]
    <3> HIDE DEF step
    <3> QED
      BY <1>3
  <2>2. k # 0 => k \in 1 .. Dim + 1 /\ f[k - 1] \in Matrix
    BY <1>1
  <2> QED
    BY <2>1, <2>2
<1>5. Closing(f)
  BY <1>4
<1> DEFINE canonical == CHOOSE g : Closing(g)
<1>6. Closing(canonical)
  BY <1>5
<1>7. Canonize(Z) = canonical[Dim + 1]
  BY Zenon DEF Canonize
<1>8. ClosedUpTo(canonical, Z, Dim + 1)
  <2> HIDE DEF canonical
  <2> QED
    BY <1>6 DEF ClosedUpTo
<1> QED
  BY <1>7, <1>8

(* No entry grows on the way, and the valuations stay the same.            *)
LEMMA ClosedEntries ==
    ASSUME NEW Z \in Matrix, NEW closed, ClosedUpTo(closed, Z, Dim + 1)
    PROVE  /\ \A k \in 0 .. Dim + 1 : closed[k] \in Matrix
           /\ \A k \in 0 .. Dim + 1 : \A n \in 0 .. k :
                 \A i, j \in Var : closed[k][i][j] <= closed[n][i][j]
           /\ \A k \in 0 .. Dim + 1 :
                 \A v \in Valuation : Sat(v, closed[k]) <=> Sat(v, Z)
<1> DEFINE Same == {k \in 0 .. Dim + 1 :
                      /\ \A n \in 0 .. k :
                            /\ closed[n] \in Matrix
                            /\ \A i, j \in Var : closed[k][i][j] <= closed[n][i][j]
                      /\ \A v \in Valuation : Sat(v, closed[k]) <=> Sat(v, Z)}
<1>0. Dim + 1 \in Nat
  BY DBMAssumption
<1>1. 0 \in Same
  <2>1. closed[0] = Z
    BY <1>0 DEF ClosedUpTo
  <2>2. \A i, j \in Var : Z[i][j] <= Z[i][j]
    BY DEF Matrix, Bound
  <2> QED
    BY <1>0, <2>1, <2>2
<1>2. ASSUME NEW k \in 0 .. (Dim + 1) - 1, k \in Same PROVE k + 1 \in Same
  <2>1. k + 1 \in 0 .. Dim + 1 /\ k \in Var /\ k \in 0 .. Dim + 1
    <3> HIDE DEF Same
    <3> QED
      BY DBMAssumption DEF Var
  <2>2. closed[k + 1] = Close1(closed[k], k)
    BY <2>1 DEF ClosedUpTo
  <2>3. closed[k] \in Matrix /\ closed[k + 1] \in Matrix
    BY <1>2, <2>1, <2>2, Close1Type
  <2>4. \A v \in Valuation : Sat(v, closed[k + 1]) <=> Sat(v, Z)
    BY <1>2, <2>1, <2>2, Close1Exact
  <2>5. \A i, j \in Var : closed[k + 1][i][j] <= closed[k][i][j]
    BY <1>2, <2>1, <2>2, Close1Entry
  <2>6. ASSUME NEW n \in 0 .. k + 1
        PROVE  /\ closed[n] \in Matrix
               /\ \A i, j \in Var : closed[k + 1][i][j] <= closed[n][i][j]
    <3>1. CASE n = k + 1
      BY <2>3, <3>1 DEF Matrix, Bound
    <3>2. CASE n # k + 1
      <4>1. n \in 0 .. k
        BY <3>2
      <4>2. closed[n] \in Matrix /\ \A i, j \in Var : closed[k][i][j] <= closed[n][i][j]
        BY <1>2, <4>1
      <4>3. \A i, j \in Var : /\ closed[n][i][j] \in Int
                              /\ closed[k][i][j] \in Int /\ closed[k + 1][i][j] \in Int
        BY <2>3, <4>2 DEF Matrix, Bound
      <4> HIDE DEF Same
      <4> QED
        BY <2>5, <4>2, <4>3
    <3> QED
      BY <3>1, <3>2
  <2> QED
    BY <2>1, <2>4, <2>6
<1>3. \A k \in 0 .. Dim + 1 : k \in Same
  <2> HIDE DEF Same
  <2> QED
    BY <1>0, <1>1, <1>2, InductionUpTo
<1> QED
  BY <1>3

(* canonize keeps exactly the valuations of the zone.                      *)
THEOREM CanonizeExact ==
    ASSUME NEW Z \in Matrix, NEW v \in Valuation
    PROVE  Canonize(Z) \in Matrix /\ (Sat(v, Canonize(Z)) <=> Sat(v, Z))
<1>1. PICK closed : ClosedUpTo(closed, Z, Dim + 1) /\ Canonize(Z) = closed[Dim + 1]
  BY CanonizeRuns
<1>2. Dim + 1 \in 0 .. Dim + 1
  BY DBMAssumption
<1> QED
  BY <1>1, <1>2, ClosedEntries

(* Afterwards no entry is larger than it was, nor than a path of two edges *)
(* was.                                                                    *)
LEMMA CanonizeShortens ==
    ASSUME NEW Z \in Matrix
    PROVE  /\ Canonize(Z) \in Matrix
           /\ \A i, j \in Var : Canonize(Z)[i][j] <= Z[i][j]
           /\ \A i, j, k \in Var : Canonize(Z)[i][j] <= Add(Z[i][k], Z[k][j])
<1>1. PICK closed : ClosedUpTo(closed, Z, Dim + 1) /\ Canonize(Z) = closed[Dim + 1]
  BY CanonizeRuns
<1>2. Dim + 1 \in 0 .. Dim + 1 /\ 0 \in 0 .. Dim + 1
  BY DBMAssumption
<1>3. closed[0] = Z /\ closed[Dim + 1] \in Matrix
  BY <1>1, <1>2, ClosedEntries DEF ClosedUpTo
<1>4. \A i, j \in Var : Canonize(Z)[i][j] <= Z[i][j]
  BY <1>1, <1>2, <1>3, ClosedEntries
<1>5. ASSUME NEW i \in Var, NEW j \in Var, NEW k \in Var
      PROVE  Canonize(Z)[i][j] <= Add(Z[i][k], Z[k][j])
  <2>1. k \in 0 .. Dim + 1 /\ k + 1 \in 0 .. Dim + 1 /\ 0 \in 0 .. k
    BY DBMAssumption DEF Var
  <2>2. closed[k + 1] = Close1(closed[k], k)
    BY <1>1, <2>1 DEF ClosedUpTo
  <2>3. closed[k] \in Matrix /\ closed[k + 1] \in Matrix
    BY <1>1, <2>1, ClosedEntries
  <2>4. closed[k][i][k] <= Z[i][k] /\ closed[k][k][j] <= Z[k][j]
    BY <1>1, <1>3, <2>1, ClosedEntries
  <2>5. /\ closed[k][i][k] \in Bound /\ closed[k][k][j] \in Bound
        /\ Z[i][k] \in Bound /\ Z[k][j] \in Bound
    BY <2>3 DEF Matrix
  <2>6. Add(closed[k][i][k], closed[k][k][j]) <= Add(Z[i][k], Z[k][j])
    BY <2>4, <2>5, AddMonotone
  <2>7. closed[k + 1][i][j] <= Add(closed[k][i][k], closed[k][k][j])
    BY <2>2, <2>3, Close1Shortens
  <2>8. closed[Dim + 1][i][j] <= closed[k + 1][i][j]
    BY <1>1, <1>2, <2>1, ClosedEntries
  <2>9. /\ closed[Dim + 1][i][j] \in Int /\ closed[k + 1][i][j] \in Int
        /\ Add(closed[k][i][k], closed[k][k][j]) \in Int /\ Add(Z[i][k], Z[k][j]) \in Int
    BY <1>3, <2>3, <2>5, AddIsBound DEF Matrix, Bound
  <2> QED
    BY <1>1, <2>6, <2>7, <2>8, <2>9
<1> QED
  BY <1>1, <1>3, <1>4, <1>5

-----------------------------------------------------------------------------
(* Constraints, delays and resets *)

LEMMA TightenWithoutCloseIs ==
    ASSUME NEW F \in Matrix, NEW x \in Var, NEW y \in Var, NEW b \in Bound
    PROVE  /\ TightenWithoutClose(F, x, y, b) \in Matrix
           /\ \A i, j \in Var : TightenWithoutClose(F, x, y, b)[i][j] =
                                  IF i = x /\ j = y THEN Lower(F[x][y], b) ELSE F[i][j]
<1> DEFINE N == TightenWithoutClose(F, x, y, b)
<1>1. F[x][y] \in Bound /\ Lower(F[x][y], b) \in Bound
  BY DEF Matrix, Bound, Lower
<1>2. N = [F EXCEPT ![x] = [F[x] EXCEPT ![y] = Lower(F[x][y], b)]]
  BY DEF TightenWithoutClose
<1>3. F[x] \in [Var -> Bound] /\ [F[x] EXCEPT ![y] = Lower(F[x][y], b)] \in [Var -> Bound]
  BY <1>1 DEF Matrix
<1> QED
  BY <1>2, <1>3 DEF Matrix

LEMMA TightenWithoutCloseExact ==
    ASSUME NEW F \in Matrix, NEW x \in Var, NEW y \in Var, NEW b \in Bound,
           NEW v \in Valuation
    PROVE  /\ TightenWithoutClose(F, x, y, b) \in Matrix
           /\ Sat(v, TightenWithoutClose(F, x, y, b)) <=>
                  Sat(v, F) /\ Holds(v[x] - v[y], b)
<1> DEFINE N == TightenWithoutClose(F, x, y, b)
<1>4. N \in Matrix
  BY TightenWithoutCloseIs
<1>5. \A i, j \in Var : N[i][j] = IF i = x /\ j = y THEN Lower(F[x][y], b) ELSE F[i][j]
  BY TightenWithoutCloseIs
<1>7. Holds(v[x] - v[y], Lower(F[x][y], b)) <=>
          Holds(v[x] - v[y], F[x][y]) /\ Holds(v[x] - v[y], b)
  <2>1. F[x][y] \in Bound /\ v[x] - v[y] \in Int
    BY DEF Matrix, Valuation
  <2> QED
    BY <2>1, HoldsLower
<1> HIDE DEF N
<1>8. Sat(v, N) <=> Sat(v, F) /\ Holds(v[x] - v[y], b)
  <2>1. Sat(v, N) => Holds(v[x] - v[y], b)
    BY <1>5, <1>7 DEF Sat
  <2>2. ASSUME Sat(v, N), NEW i \in Var, NEW j \in Var PROVE Holds(v[i] - v[j], F[i][j])
    <3>1. CASE i = x /\ j = y
      BY <1>5, <1>7, <2>2, <3>1 DEF Sat
    <3>2. CASE ~ (i = x /\ j = y)
      BY <1>5, <2>2, <3>2 DEF Sat
    <3> QED
      BY <3>1, <3>2
  <2>3. ASSUME Sat(v, F), Holds(v[x] - v[y], b), NEW i \in Var, NEW j \in Var
        PROVE  Holds(v[i] - v[j], N[i][j])
    <3>1. CASE i = x /\ j = y
      BY <1>5, <1>7, <2>3, <3>1 DEF Sat
    <3>2. CASE ~ (i = x /\ j = y)
      BY <1>5, <2>3, <3>2 DEF Sat
    <3> QED
      BY <3>1, <3>2
  <2> QED
    BY <2>1, <2>2, <2>3 DEF Sat
<1> QED
  BY <1>4, <1>8 DEF N

(* tighten keeps exactly the valuations that meet the new constraint.      *)
THEOREM TightenExact ==
    ASSUME NEW F \in Matrix, NEW x \in Var, NEW y \in Var, NEW b \in Bound,
           NEW v \in Valuation
    PROVE  /\ Tighten(F, x, y, b) \in Matrix
           /\ Sat(v, Tighten(F, x, y, b)) <=> Sat(v, F) /\ Holds(v[x] - v[y], b)
<1> DEFINE N == TightenWithoutClose(F, x, y, b)
<1>1. N \in Matrix /\ (Sat(v, N) <=> Sat(v, F) /\ Holds(v[x] - v[y], b))
  BY TightenWithoutCloseExact
<1> HIDE DEF N
<1>2. Close1(N, x) \in Matrix /\ (Sat(v, Close1(N, x)) <=> Sat(v, N))
  BY <1>1, Close1Exact
<1>3. /\ Close1(Close1(N, x), y) \in Matrix
      /\ Sat(v, Close1(Close1(N, x), y)) <=> Sat(v, Close1(N, x))
  BY <1>2, Close1Exact
<1> QED
  BY <1>1, <1>2, <1>3 DEF Tighten, N

(* Afterwards no entry is larger than it was, nor than a path that takes   *)
(* the new edge.                                                           *)
LEMMA TightenShortens ==
    ASSUME NEW F \in Matrix, NEW x \in Var, NEW y \in Var, NEW b \in Bound
    PROVE  /\ Tighten(F, x, y, b) \in Matrix
           /\ Tighten(F, x, y, b)[x][y] <= b
           /\ \A i, j \in Var :
                /\ Tighten(F, x, y, b)[i][j] <= F[i][j]
                /\ Tighten(F, x, y, b)[i][y] <= Add(F[i][x], b)
                /\ Tighten(F, x, y, b)[x][j] <= Add(b, F[y][j])
                /\ Tighten(F, x, y, b)[i][j] <= Add(Add(F[i][x], b), F[y][j])
<1> DEFINE N == TightenWithoutClose(F, x, y, b)
           P == Close1(N, x)
           Q == Close1(P, y)
<1>1. /\ N \in Matrix
      /\ \A i, j \in Var : N[i][j] = IF i = x /\ j = y THEN Lower(F[x][y], b) ELSE F[i][j]
  BY TightenWithoutCloseIs
<1> HIDE DEF N
<1>2. P \in Matrix /\ \A i, j \in Var : P[i][j] <= N[i][j] /\ P[i][j] <= Add(N[i][x], N[x][j])
  BY <1>1, Close1Type, Close1Entry, Close1Shortens
<1> HIDE DEF P
<1>3. Q \in Matrix /\ \A i, j \in Var : Q[i][j] <= P[i][j] /\ Q[i][j] <= Add(P[i][y], P[y][j])
  BY <1>2, Close1Type, Close1Entry, Close1Shortens
<1>4. Tighten(F, x, y, b) = Q
  BY DEF Tighten, N, P, Q
<1> HIDE DEF Q
<1>5. \A i, j \in Var : /\ F[i][j] \in Bound /\ N[i][j] \in Bound
                        /\ P[i][j] \in Bound /\ Q[i][j] \in Bound
  BY <1>1, <1>2, <1>3 DEF Matrix
<1>6. N[x][y] <= b /\ \A i, j \in Var : N[i][j] <= F[i][j]
  BY <1>1, <1>5 DEF Lower, Bound
<1>7. ASSUME NEW i \in Var, NEW j \in Var
      PROVE  /\ Q[x][y] <= b /\ Q[i][j] <= F[i][j]
             /\ Q[i][y] <= Add(F[i][x], b)
             /\ Q[x][j] <= Add(b, F[y][j])
             /\ Q[i][j] <= Add(Add(F[i][x], b), F[y][j])
  <2>1. Q[x][y] <= b /\ Q[i][j] <= F[i][j]
    BY <1>2, <1>3, <1>5, <1>6 DEF Bound
  <2>2. /\ Add(N[i][x], N[x][y]) <= Add(F[i][x], b)
        /\ Add(N[i][x], N[x][y]) \in Bound /\ Add(F[i][x], b) \in Bound
    BY <1>5, <1>6, AddMonotone, AddIsBound
  <2>3. P[i][y] <= Add(F[i][x], b)
    BY <1>2, <1>5, <2>2 DEF Bound
  <2>4. Q[i][y] <= Add(F[i][x], b)
    BY <1>3, <1>5, <2>2, <2>3 DEF Bound
  <2>5. P[y][j] <= F[y][j]
    BY <1>2, <1>5, <1>6 DEF Bound
  <2>6. /\ Add(P[i][y], P[y][j]) <= Add(Add(F[i][x], b), F[y][j])
        /\ Add(P[i][y], P[y][j]) \in Bound /\ Add(Add(F[i][x], b), F[y][j]) \in Bound
    BY <1>5, <2>2, <2>3, <2>5, AddMonotone, AddIsBound
  <2>7. Q[i][j] <= Add(Add(F[i][x], b), F[y][j])
    BY <1>3, <1>5, <2>6 DEF Bound
  <2>8. Q[x][j] <= Add(b, F[y][j])
    <3>1. P[x][y] <= b
      BY <1>2, <1>5, <1>6 DEF Bound
    <3>2. /\ Add(P[x][y], P[y][j]) <= Add(b, F[y][j])
          /\ Add(P[x][y], P[y][j]) \in Bound /\ Add(b, F[y][j]) \in Bound
      BY <1>5, <2>5, <3>1, AddMonotone, AddIsBound
    <3> QED
      BY <1>3, <1>5, <3>2 DEF Bound
  <2> QED
    BY <2>1, <2>4, <2>7, <2>8
<1> QED
  BY <1>3, <1>4, <1>7

LEMMA ElapseIs ==
    ASSUME NEW F \in Matrix
    PROVE  /\ Elapse(F) \in Matrix
           /\ \A i, j \in Var : Elapse(F)[i][j] =
                IF j = 0 THEN Infinity ELSE IF i = 0 THEN Strict(F[0][j]) ELSE F[i][j]
<1>1. Elapse(F) = [i \in Var |-> [j \in Var |->
                     IF j = 0 THEN Infinity
                     ELSE IF i = 0 THEN Strict(F[0][j])
                     ELSE F[i][j]]]
  BY Zenon, EvaluatedIs DEF Elapse
<1>2. \A i, j \in Var : F[i][j] \in Bound
  BY DEF Matrix
<1>3. Infinity \in Bound /\ \A b \in Bound : Strict(b) \in Bound
  BY DBMAssumption DEF Bound, Strict
<1> QED
  BY <1>1, <1>2, <1>3, VarFacts DEF Matrix

(* A delay of positive duration stays in the elapsed zone.                 *)
THEOREM ElapseSound ==
    ASSUME NEW F \in Matrix, NEW v \in Valuation, v[0] = 0, Sat(v, F),
           NEW d \in Int, d > 0
    PROVE  /\ Elapse(F) \in Matrix
           /\ Sat([x \in Var |-> IF x = 0 THEN 0 ELSE v[x] + d], Elapse(F))
<1> DEFINE w == [x \in Var |-> IF x = 0 THEN 0 ELSE v[x] + d]
<1>1. /\ Elapse(F) \in Matrix
      /\ \A i, j \in Var : Elapse(F)[i][j] =
           IF j = 0 THEN Infinity ELSE IF i = 0 THEN Strict(F[0][j]) ELSE F[i][j]
  BY ElapseIs
<1>2. \A i, j \in Var : F[i][j] \in Bound /\ v[i] \in Int
  BY DEF Matrix, Valuation
<1>5. ASSUME NEW i \in Var, NEW j \in Var PROVE Holds(w[i] - w[j], Elapse(F)[i][j])
  <2>1. CASE j = 0
    BY <1>1, <2>1 DEF Holds
  <2>2. CASE j # 0 /\ i = 0
    <3>1. Elapse(F)[i][j] = Strict(F[0][j])
      BY <1>1, <2>2, VarFacts
    <3>2. w[i] - w[j] = (v[0] - v[j]) - d
      <4>1. w[i] = v[0] /\ w[j] = v[j] + d /\ v[0] \in Int /\ v[j] \in Int
        BY <1>2, <2>2, VarFacts
      <4> HIDE DEF w
      <4> QED
        BY <4>1
    <3>3. Holds(v[0] - v[j], F[0][j]) /\ F[0][j] \in Bound /\ v[0] - v[j] \in Int
      <4>1. Holds(v[0] - v[j], F[0][j])
        BY VarFacts DEF Sat
      <4>2. F[0][j] \in Bound /\ v[0] \in Int /\ v[j] \in Int
        BY <1>2, VarFacts
      <4> QED
        BY <4>1, <4>2
    <3>4. ASSUME NEW b \in Bound, NEW e \in Int, Holds(e, b) PROVE Holds(e - d, Strict(b))
      BY <3>4, DBMAssumption DEF Holds, Strict, Bound
    <3> QED
      BY <3>1, <3>2, <3>3, <3>4
  <2>3. CASE j # 0 /\ i # 0
    <3>1. Elapse(F)[i][j] = F[i][j] /\ w[i] - w[j] = v[i] - v[j]
      BY <1>1, <1>2, <2>3
    <3> QED
      BY <3>1 DEF Sat
  <2> QED
    BY <2>1, <2>2, <2>3
<1> QED
  BY <1>1, <1>5 DEF Sat

(* The variable x takes the place of variable 0: the matrix that reset     *)
(* closes.                                                                 *)
Aliased(F, x) ==
    [i \in Var |-> [j \in Var |->
        IF {i, j} \subseteq {0, x} /\ <<i, j>> # <<0, 0>> THEN Le(0)
        ELSE IF j = x THEN F[i][0]
        ELSE IF i = x THEN F[0][j]
        ELSE F[i][j]]]

LEMMA ResetShortens ==
    ASSUME NEW F \in Matrix, NEW x \in Var
    PROVE  /\ Aliased(F, x) \in Matrix
           /\ Reset(F, x) = Close1(Aliased(F, x), x)
           /\ Reset(F, x) \in Matrix
           /\ \A i, j \in Var : Reset(F, x)[i][j] <= Aliased(F, x)[i][j]
<1>1. \A i, j \in Var : F[i][j] \in Bound
  BY DEF Matrix
<1>2. Le(0) \in Bound
  BY DBMAssumption DEF Le, Bound
<1>3. Aliased(F, x) \in Matrix
  BY <1>1, <1>2, VarFacts DEF Matrix, Aliased
<1>4. Reset(F, x) = Close1(Aliased(F, x), x)
  BY DEF Reset, Aliased
<1> QED
  BY <1>3, <1>4, Close1Type, Close1Entry

(* A valuation whose clock x has been set to zero is in the reset zone.    *)
THEOREM ResetSound ==
    ASSUME NEW F \in Matrix, NEW x \in Var, x # 0, NEW v \in Valuation, v[0] = 0, Sat(v, F)
    PROVE  Reset(F, x) \in Matrix /\ Sat([v EXCEPT ![x] = 0], Reset(F, x))
<1> DEFINE w == [v EXCEPT ![x] = 0]
           N == Aliased(F, x)
<1>1. \A i, j \in Var : F[i][j] \in Bound /\ v[i] \in Int
  BY DEF Matrix, Valuation
<1>3. N \in Matrix /\ Reset(F, x) = Close1(N, x)
  BY ResetShortens
<1>4. w \in Valuation /\ w[x] = 0 /\ w[0] = 0 /\ \A i \in Var : i # x => w[i] = v[i]
  BY VarFacts DEF Valuation
<1>5. ASSUME NEW i \in Var, NEW j \in Var PROVE Holds(w[i] - w[j], N[i][j])
  <2>1. CASE {i, j} \subseteq {0, x} /\ <<i, j>> # <<0, 0>>
    <3>1. w[i] = 0 /\ w[j] = 0 /\ N[i][j] = Le(0)
      BY <1>4, <2>1 DEF Aliased
    <3> HIDE DEF w, N
    <3> QED
      BY <3>1 DEF Holds, Le
  <2>2. CASE ~ ({i, j} \subseteq {0, x} /\ <<i, j>> # <<0, 0>>) /\ j = x
    <3>1. i # x /\ i # 0 /\ N[i][j] = F[i][0] /\ w[i] = v[i] /\ w[j] = v[0]
      BY <1>4, <2>2 DEF Aliased
    <3> HIDE DEF w, N
    <3> QED
      BY <3>1, VarFacts DEF Sat
  <2>3. CASE ~ ({i, j} \subseteq {0, x} /\ <<i, j>> # <<0, 0>>) /\ j # x /\ i = x
    <3>1. N[i][j] = F[0][j] /\ w[i] = v[0] /\ w[j] = v[j]
      BY <1>4, <2>3 DEF Aliased
    <3> HIDE DEF w, N
    <3> QED
      BY <3>1, VarFacts DEF Sat
  <2>4. CASE ~ ({i, j} \subseteq {0, x} /\ <<i, j>> # <<0, 0>>) /\ j # x /\ i # x
    <3>1. N[i][j] = F[i][j] /\ w[i] = v[i] /\ w[j] = v[j]
      BY <1>4, <2>4 DEF Aliased
    <3> HIDE DEF w, N
    <3> QED
      BY <3>1 DEF Sat
  <2> QED
    BY <2>1, <2>2, <2>3, <2>4
<1>6. Sat(w, N)
  BY <1>5 DEF Sat
<1> HIDE DEF w, N
<1>8. Close1(N, x) \in Matrix /\ Sat(w, Close1(N, x))
  BY <1>3, <1>4, <1>6, Close1Exact
<1> QED
  BY <1>3, <1>8 DEF w

-----------------------------------------------------------------------------
(* Satisfiability and merging *)

(* The satisfiability test never rejects a zone that has a valuation.      *)
THEOREM SatisfiableSound ==
    ASSUME NEW F \in Matrix, NEW v \in Valuation, Sat(v, F)
    PROVE  IsSatisfiableWithoutCanonize(F)
<1> SUFFICES ASSUME NEW i \in Var, NEW j \in Var PROVE Add(F[i][j], F[j][i]) >= Le(0)
  BY DEF IsSatisfiableWithoutCanonize
<1>1. F[i][j] \in Bound /\ F[j][i] \in Bound /\ v[i] \in Int /\ v[j] \in Int
  BY DEF Matrix, Valuation
<1>2. Holds(v[i] - v[j], F[i][j]) /\ Holds(v[j] - v[i], F[j][i])
  BY DEF Sat
<1>3. Holds(0, Add(F[i][j], F[j][i]))
  <2>1. (v[i] - v[j]) + (v[j] - v[i]) = 0
    BY <1>1
  <2>2. v[i] - v[j] \in Int /\ v[j] - v[i] \in Int
    BY <1>1
  <2> QED
    BY <1>1, <1>2, <2>1, <2>2, AddSound
<1>4. Add(F[i][j], F[j][i]) \in Bound
  BY <1>1, AddIsBound
<1> QED
  BY <1>3, <1>4, DBMAssumption DEF Holds, Le, Bound

LEMMA IncludedSound ==
    ASSUME NEW F \in Matrix, NEW E \in Matrix, Included(F, E),
           NEW v \in Valuation, Sat(v, F)
    PROVE  Sat(v, E)
<1>1. \A i, j \in Var : F[i][j] <= E[i][j]
  BY SatisfiableSound DEF Included
<1>2. \A i, j \in Var : F[i][j] \in Bound /\ E[i][j] \in Bound /\ v[i] - v[j] \in Int
  BY DEF Matrix, Valuation
<1> QED
  BY <1>1, <1>2, HoldsMonotone DEF Sat

LEMMA UnionContains ==
    ASSUME NEW F \in Matrix, NEW E \in Matrix, NEW v \in Valuation,
           Sat(v, F) \/ Sat(v, E)
    PROVE  ConvexUnion(F, E) \in Matrix /\ Sat(v, ConvexUnion(F, E))
<1>1. \A i, j \in Var : F[i][j] \in Bound /\ E[i][j] \in Bound /\ v[i] - v[j] \in Int
  BY DEF Matrix, Valuation
<1>2. \A i, j \in Var : /\ Higher(F[i][j], E[i][j]) \in Bound
                       /\ Holds(v[i] - v[j], Higher(F[i][j], E[i][j]))
  BY <1>1, HoldsHigher DEF Sat
<1> QED
  BY <1>2 DEF ConvexUnion, Matrix, Sat

(* The heart of merge: a valuation of the hull that violates a bound of F  *)
(* is in the cut made along that bound, hence in E.                        *)
LEMMA CutCovers ==
    ASSUME NEW F \in Matrix, NEW E \in Matrix, NEW hull \in Matrix,
           NEW i \in Var, NEW j \in Var,
           IsSatisfiableWithoutCanonize(F), F[i][j] <= hull[i][j],
           Complement(F[j][i]) < Infinity, CutIncluded(F, E, hull, i, j),
           NEW v \in Valuation, Sat(v, hull), ~ Holds(v[j] - v[i], F[j][i])
    PROVE  Sat(v, E)
<1> DEFINE rev == Complement(F[j][i])
           cut == [hull EXCEPT ![i][j] = rev]
<1>1. F[i][j] \in Bound /\ F[j][i] \in Bound /\ hull[i][j] \in Bound /\ v[i] \in Int /\ v[j] \in Int
  BY DEF Matrix, Valuation
<1>2. Add(F[i][j], F[j][i]) >= 1
  BY DEF IsSatisfiableWithoutCanonize, Le
<1>3. rev \in Int /\ Holds(v[i] - v[j], rev)
  <2>1. v[j] - v[i] \in Int /\ - (v[j] - v[i]) = v[i] - v[j]
    BY <1>1
  <2> QED
    BY <1>1, <2>1, HoldsComplement
<1>4. ~ (hull[i][j] <= rev)
  <2>1. F[j][i] # Infinity
    BY DEF Holds
  <2>2. CASE F[i][j] = Infinity
    BY <1>1, <1>3, <2>2, DBMAssumption DEF Bound
  <2>3. CASE F[i][j] # Infinity
    BY <1>1, <1>2, <2>1, <2>3, DBMAssumption DEF Bound, Complement, Add
  <2> QED
    BY <2>2, <2>3
<1>5. rev \in Bound
  <2> HIDE DEF rev
  <2> QED
    BY <1>1, <1>3, <1>4, DBMAssumption DEF Bound
<1>6. cut = TightenWithoutClose(hull, i, j, rev)
  <2>1. Lower(hull[i][j], rev) = rev
    <3> HIDE DEF rev
    <3> QED
      BY <1>1, <1>3, <1>4 DEF Lower, Bound
  <2> QED
    BY <2>1 DEF TightenWithoutClose
<1>7. cut \in Matrix /\ Sat(v, cut)
  <2> HIDE DEF cut, rev
  <2> QED
    BY <1>3, <1>5, <1>6, TightenWithoutCloseExact
<1>8. Included(Close1(Close1(cut, i), j), E)
  BY <1>4 DEF CutIncluded
<1> HIDE DEF cut, rev
<1>9. Close1(cut, i) \in Matrix /\ Sat(v, Close1(cut, i))
  BY <1>7, Close1Exact
<1>10. Close1(Close1(cut, i), j) \in Matrix /\ Sat(v, Close1(Close1(cut, i), j))
  BY <1>9, Close1Exact
<1> QED
  BY <1>8, <1>10, IncludedSound

(* When merge succeeds, the zone it leaves stands for exactly the union of *)
(* the two zones, for every pair of matrices, canonical or not, whose      *)
(* finite bounds are smaller than the integer that codes infinity.         *)
THEOREM MergeIsUnion ==
    ASSUME NEW F \in Matrix, NEW E \in Matrix,
           \A i, j \in Var : Complement(F[i][j]) < Infinity,
           Mergeable(F, E), NEW v \in Valuation
    PROVE  Sat(v, Merge(F, E)) <=> Sat(v, F) \/ Sat(v, E)
<1>1. CASE Included(F, E)
  BY <1>1, IncludedSound DEF Merge
<1>2. CASE ~ Included(F, E) /\ Included(E, F)
  BY <1>2, IncludedSound DEF Merge
<1>3. CASE ~ Included(F, E) /\ ~ Included(E, F)
  <2> DEFINE hull == ConvexUnion(F, E)
  <2>1. Merge(F, E) = hull
    BY <1>3 DEF Merge
  <2>2. Sat(v, F) \/ Sat(v, E) => Sat(v, hull)
    BY UnionContains
  <2>3. ASSUME Sat(v, hull), ~ Sat(v, F) PROVE Sat(v, E)
    <3>1. PICK j \in Var, i \in Var : ~ Holds(v[j] - v[i], F[j][i])
      BY <2>3 DEF Sat
    <3>2. IsSatisfiableWithoutCanonize(F)
      BY <1>3 DEF Included
    <3>3. \A a, b \in Var : F[a][b] \in Bound /\ E[a][b] \in Bound /\ v[a] \in Int
      BY DEF Matrix, Valuation
    <3>4. i # j
      <4> SUFFICES ASSUME i = j PROVE FALSE
        OBVIOUS
      <4>1. Add(F[i][i], F[i][i]) >= 1 /\ F[i][i] \in Bound
        BY <3>2, <3>3 DEF IsSatisfiableWithoutCanonize, Le
      <4>2. ~ Holds(0, F[i][i])
        BY <3>1, <3>3
      <4> QED
        BY <4>1, <4>2, DBMAssumption DEF Holds, Add, Bound
    <3>5. hull \in Matrix /\ F[i][j] <= hull[i][j]
      <4>1. \A a, b \in Var : Higher(F[a][b], E[a][b]) \in Bound
        BY <3>3, HoldsHigher
      <4> QED
        BY <3>3, <4>1 DEF ConvexUnion, Matrix, Higher, Bound
    <3>6. CutIncluded(F, E, hull, i, j)
      BY <1>3, <3>4, EvaluatedIs DEF Mergeable
    <3> HIDE DEF hull
    <3> QED
      BY <2>3, <3>1, <3>2, <3>5, <3>6, CutCovers
  <2> QED
    BY <2>1, <2>2, <2>3
<1> QED
  BY <1>1, <1>2, <1>3

-----------------------------------------------------------------------------
(* The canonical form.  Sums saturate at infinity, so the order in which a *)
(* path is added up only does not matter as long as the finite entries stay*)
(* well below it.                                                          *)

Within(b, limit) == b = Infinity \/ b <= limit

AllWithin(F, limit) == \A i, j \in Var : Within(F[i][j], limit)

LEMMA AddCommutative == ASSUME NEW a \in Bound, NEW b \in Bound PROVE Add(a, b) = Add(b, a)
  BY DBMAssumption DEF Add, Bound

LEMMA AddAssociative ==
    ASSUME NEW a \in Bound, NEW b \in Bound, NEW c \in Bound,
           NEW limit \in Nat, 2 * limit < Infinity,
           Within(a, limit), Within(b, limit), Within(c, limit)
    PROVE  Add(Add(a, b), c) = Add(a, Add(b, c))
<1>1. a \in Int /\ b \in Int /\ c \in Int /\ Infinity \in Nat /\ Infinity % 2 = 0
  BY DBMAssumption DEF Bound
<1>2. CASE a = Infinity \/ b = Infinity \/ c = Infinity
  BY <1>1, <1>2 DEF Add
<1>3. CASE a # Infinity /\ b # Infinity /\ c # Infinity
  <2>1. a <= limit /\ b <= limit /\ c <= limit
    BY <1>3 DEF Within
  <2>2. a + b < Infinity /\ b + c < Infinity
    BY <1>1, <2>1
  <2> QED
    BY <1>1, <1>3, <2>2 DEF Add
<1> QED
  BY <1>2, <1>3

LEMMA AddWithin ==
    ASSUME NEW a \in Bound, NEW b \in Bound, NEW l \in Nat, NEW m \in Nat,
           Within(a, l), Within(b, m)
    PROVE  Within(Add(a, b), l + m)
  BY DBMAssumption DEF Add, Bound, Within

(* Adding a bound that is not negative.                                    *)
LEMMA AddNonNegative ==
    ASSUME NEW a \in Bound, NEW b \in Bound, b >= Le(0)
    PROVE  a <= Add(a, b) /\ a <= Add(b, a) /\ Add(a, Le(0)) = a /\ Add(Le(0), a) = a
  BY DBMAssumption DEF Add, Bound, Le

LEMMA SatisfiableDiagonal ==
    ASSUME NEW F \in Matrix, IsSatisfiableWithoutCanonize(F), NEW x \in Var
    PROVE  F[x][x] >= Le(0)
<1>1. F[x][x] \in Bound /\ Add(F[x][x], F[x][x]) >= Le(0)
  BY DEF Matrix, IsSatisfiableWithoutCanonize
<1> QED
  BY <1>1, DBMAssumption DEF Add, Bound, Le

(* The weaker of two matrices of which one is satisfiable is satisfiable.  *)
LEMMA SatisfiableMonotone ==
    ASSUME NEW F \in Matrix, NEW E \in Matrix, \A i, j \in Var : F[i][j] <= E[i][j],
           IsSatisfiableWithoutCanonize(F)
    PROVE  IsSatisfiableWithoutCanonize(E)
<1> SUFFICES ASSUME NEW i \in Var, NEW j \in Var PROVE Add(E[i][j], E[j][i]) >= Le(0)
  BY DEF IsSatisfiableWithoutCanonize
<1>1. /\ F[i][j] \in Bound /\ F[j][i] \in Bound /\ E[i][j] \in Bound /\ E[j][i] \in Bound
      /\ F[i][j] <= E[i][j] /\ F[j][i] <= E[j][i] /\ Add(F[i][j], F[j][i]) >= Le(0)
  BY DEF Matrix, IsSatisfiableWithoutCanonize
<1>2. Add(F[i][j], F[j][i]) <= Add(E[i][j], E[j][i])
  BY <1>1, AddMonotone
<1>3. Add(F[i][j], F[j][i]) \in Bound /\ Add(E[i][j], E[j][i]) \in Bound
  BY <1>1, AddIsBound
<1> QED
  BY <1>1, <1>2, <1>3 DEF Bound, Le

LEMMA Close1Min ==
    ASSUME NEW F \in Matrix, NEW x \in Var, F[x][x] >= Le(0), NEW i \in Var, NEW j \in Var
    PROVE  Close1(F, x)[i][j] = Lower(F[i][j], Add(F[i][x], F[x][j]))
<1>1. F[x][x] \in Bound /\ F[x][j] \in Bound
  BY DEF Matrix
<1>2. F[x][j] <= Add(F[x][x], F[x][j]) /\ Add(F[x][x], F[x][j]) \in Bound
  BY <1>1, AddNonNegative, AddIsBound
<1>3. Lower(F[x][j], Add(F[x][x], F[x][j])) = F[x][j]
  BY <1>1, <1>2 DEF Lower, Bound
<1> QED
  BY <1>3, Close1At

(* The entries other than the diagonal are no longer than the paths through*)
(* the variables of S.                                                     *)
Through(F, S) ==
    \A i, j \in Var : \A m \in S : i # j => F[i][j] <= Add(F[i][m], F[m][j])

LEMMA CanonicalIsThrough == ASSUME NEW F PROVE Canonical(F) <=> Through(F, Var)
  BY DEF Canonical, Through

(* Closing through a variable adds it to those that have been closed       *)
(* through, and undoes none of them.                                       *)
LEMMA ClosedThrough ==
    ASSUME NEW F \in Matrix, NEW limit \in Nat, 4 * limit < Infinity, AllWithin(F, limit),
           IsSatisfiableWithoutCanonize(F),
           NEW S, S \subseteq Var, Through(F, S), NEW x \in Var
    PROVE  Through(Close1(F, x), S \cup {x})
<1> DEFINE E == Close1(F, x)
<1>1. \A i, j \in Var : /\ F[i][j] \in Bound /\ Within(F[i][j], limit)
                        /\ Add(F[i][j], F[j][i]) >= Le(0)
  BY DEF Matrix, AllWithin, IsSatisfiableWithoutCanonize
<1>2. F[x][x] >= Le(0)
  BY SatisfiableDiagonal
<1>3. \A i, j \in Var : E[i][j] = Lower(F[i][j], Add(F[i][x], F[x][j]))
  BY <1>2, Close1Min
<1> HIDE DEF E
<1>4. \A i, j \in Var : /\ E[i][j] \in Bound
                        /\ E[i][j] <= F[i][j] /\ E[i][j] <= Add(F[i][x], F[x][j])
                        /\ E[i][j] = F[i][j] \/ E[i][j] = Add(F[i][x], F[x][j])
                        /\ Add(F[i][x], F[x][j]) \in Bound
  <2> TAKE i, j \in Var
  <2>1. F[i][j] \in Bound /\ Add(F[i][x], F[x][j]) \in Bound
    BY <1>1, AddIsBound
  <2> QED
    BY <1>3, <2>1 DEF Lower, Bound
<1>5. ASSUME NEW i \in Var, NEW j \in Var, i # j PROVE E[i][j] <= Add(E[i][x], E[x][j])
  <2>1. E[i][x] = F[i][x] /\ E[x][j] = F[x][j]
    <3>1. /\ F[i][x] <= Add(F[i][x], F[x][x]) /\ F[x][j] <= Add(F[x][x], F[x][j])
          /\ F[i][x] \in Int /\ F[x][j] \in Int
      BY <1>1, <1>2, AddNonNegative DEF Bound
    <3>2. Add(F[i][x], F[x][x]) \in Int /\ Add(F[x][x], F[x][j]) \in Int
      BY <1>4 DEF Bound
    <3> QED
      BY <1>3, <3>1, <3>2 DEF Lower
  <2> QED
    BY <1>4, <2>1
<1>6. ASSUME NEW i \in Var, NEW j \in Var, i # j, NEW m \in S
      PROVE  E[i][j] <= Add(E[i][m], E[m][j])
  <2> DEFINE a == F[i][x]
             b == F[x][m]
             c == F[m][j]
             d == F[x][j]
             e == F[m][x]
             f == F[i][m]
  <2>1. /\ a \in Bound /\ b \in Bound /\ c \in Bound /\ d \in Bound /\ e \in Bound
        /\ Within(a, limit) /\ Within(b, limit) /\ Within(c, limit)
        /\ Within(d, limit) /\ Within(e, limit) /\ f \in Bound
        /\ Within(f, limit) /\ E[i][j] \in Bound /\ F[i][j] \in Bound
    BY <1>1, <1>4
  <2>2. Add(b, e) >= Le(0) /\ Add(e, b) >= Le(0) /\ Add(b, e) \in Bound /\ Add(e, b) \in Bound
    BY <1>1, <2>1, AddIsBound
  <2>3. 2 * limit < Infinity /\ 2 * (limit + limit) < Infinity
    BY DBMAssumption
  <2>4. E[i][j] <= Add(a, d) /\ E[i][j] <= F[i][j]
    BY <1>4
  <2>5. i # x => a <= Add(f, e)
    BY DEF Through
  <2>6. x # j => d <= Add(b, c)
    BY DEF Through
  <2>7. F[i][j] <= Add(f, c)
    BY <1>6 DEF Through
  <2>8. x = j => c = e /\ F[i][j] = a
    OBVIOUS
  <2>9. x = i => f = b /\ F[i][j] = d
    OBVIOUS
  <2>10. E[i][m] = f \/ E[i][m] = Add(a, b)
    BY <1>4
  <2>11. E[m][j] = c \/ E[m][j] = Add(e, d)
    BY <1>4
  <2>12. Add(a, b) \in Bound /\ Add(e, d) \in Bound /\ Add(a, d) \in Bound /\ Add(b, c) \in Bound
         /\ Add(f, e) \in Bound
    BY <2>1, AddIsBound
  <2> HIDE DEF a, b, c, d, e, f
  <2>13. E[i][j] <= Add(f, c)
    <3>1. Add(f, c) \in Bound
      BY <2>1, AddIsBound
    <3> QED
      BY <2>1, <2>4, <2>7, <3>1 DEF Bound
  <2>14. E[i][j] <= Add(Add(a, b), c)
    <3>1. Add(Add(a, b), c) = Add(a, Add(b, c)) /\ Add(a, Add(b, c)) \in Bound
      BY <2>1, <2>3, <2>12, AddAssociative, AddIsBound
    <3>2. CASE x = j
      <4>1. a <= Add(a, Add(b, e))
        BY <2>1, <2>2, AddNonNegative
      <4> QED
        BY <2>1, <2>4, <2>8, <3>1, <3>2, <4>1 DEF Bound
    <3>3. CASE x # j
      <4>1. a <= a
        BY <2>1 DEF Bound
      <4>2. Add(a, d) <= Add(a, Add(b, c))
        BY <2>1, <2>6, <2>12, <3>3, <4>1, AddMonotone
      <4> QED
        BY <2>1, <2>4, <2>12, <3>1, <4>2 DEF Bound
    <3> QED
      BY <3>2, <3>3
  <2>15. E[i][j] <= Add(f, Add(e, d))
    <3>1. Add(Add(f, e), d) = Add(f, Add(e, d)) /\ Add(f, Add(e, d)) \in Bound
      BY <2>1, <2>3, <2>12, AddAssociative, AddIsBound
    <3>2. CASE x = i
      <4>1. d <= Add(Add(b, e), d)
        BY <2>1, <2>2, AddNonNegative
      <4> QED
        BY <2>1, <2>4, <2>9, <3>1, <3>2, <4>1 DEF Bound
    <3>3. CASE x # i
      <4>1. d <= d /\ a <= Add(f, e)
        BY <2>1, <2>5, <3>3 DEF Bound
      <4>2. Add(a, d) <= Add(Add(f, e), d)
        BY <2>1, <2>12, <4>1, AddMonotone
      <4> QED
        BY <2>1, <2>4, <2>12, <3>1, <4>2 DEF Bound
    <3> QED
      BY <3>2, <3>3
  <2>16. E[i][j] <= Add(Add(a, b), Add(e, d))
    <3>1. Within(Add(a, b), limit + limit) /\ Within(e, limit + limit) /\ Within(d, limit + limit)
      <4>1. Within(Add(a, b), limit + limit)
        BY <2>1, AddWithin
      <4>2. \A g \in Bound : Within(g, limit) => Within(g, limit + limit)
        BY DEF Within, Bound
      <4> QED
        BY <2>1, <4>1, <4>2
    <3>2. Add(Add(Add(a, b), e), d) = Add(Add(a, b), Add(e, d))
      <4>1. limit + limit \in Nat
        OBVIOUS
      <4> QED
        BY <2>1, <2>3, <2>12, <3>1, <4>1, AddAssociative
    <3>3. Add(Add(a, b), e) = Add(a, Add(b, e)) /\ Add(a, Add(b, e)) \in Bound
      BY <2>1, <2>2, <2>3, AddAssociative, AddIsBound
    <3>4. a <= Add(a, Add(b, e)) /\ d <= d
      BY <2>1, <2>2, AddNonNegative DEF Bound
    <3>5. Add(a, d) <= Add(Add(a, Add(b, e)), d) /\ Add(Add(a, Add(b, e)), d) \in Bound
      BY <2>1, <3>3, <3>4, AddMonotone, AddIsBound
    <3> QED
      BY <2>1, <2>4, <2>12, <3>2, <3>3, <3>5 DEF Bound
  <2> QED
    BY <2>10, <2>11, <2>13, <2>14, <2>15, <2>16
<1> QED
  BY <1>5, <1>6 DEF Through, E

(* A matrix of shortest paths, the diagonal included.                      *)
Metric(W) == \A i, j, k \in Var : W[i][j] <= Add(W[i][k], W[k][j])

Below(W, F) == \A i, j \in Var : W[i][j] <= F[i][j]

(* Closing goes no lower than a matrix of shortest paths that is below.    *)
LEMMA Close1Above ==
    ASSUME NEW F \in Matrix, NEW W \in Matrix, Metric(W), Below(W, F), NEW x \in Var
    PROVE  Below(W, Close1(F, x))
<1> SUFFICES ASSUME NEW i \in Var, NEW j \in Var PROVE W[i][j] <= Close1(F, x)[i][j]
  BY DEF Below
<1> DEFINE pivot == Lower(F[x][j], Add(F[x][x], F[x][j]))
           via == IF i > x THEN pivot ELSE F[x][j]
<1>1. \A a, b \in Var : F[a][b] \in Bound /\ W[a][b] \in Bound /\ W[a][b] <= F[a][b]
  BY DEF Matrix, Below
<1>2. Add(F[x][x], F[x][j]) \in Bound /\ W[x][j] <= Add(F[x][x], F[x][j])
  <2>1. W[x][j] <= Add(W[x][x], W[x][j]) /\ Add(W[x][x], W[x][j]) \in Bound
    BY <1>1, AddIsBound DEF Metric
  <2>2. Add(W[x][x], W[x][j]) <= Add(F[x][x], F[x][j]) /\ Add(F[x][x], F[x][j]) \in Bound
    BY <1>1, AddMonotone, AddIsBound
  <2> QED
    BY <1>1, <2>1, <2>2 DEF Bound
<1>3. via \in Bound /\ W[x][j] <= via
  BY <1>1, <1>2 DEF Lower, Bound
<1>4. Close1(F, x)[i][j] = Lower(F[i][j], Add(F[i][x], via))
  BY Close1At
<1> HIDE DEF via
<1>5. W[i][j] <= Add(W[i][x], W[x][j]) /\ Add(W[i][x], W[x][j]) \in Bound
  BY <1>1, AddIsBound DEF Metric
<1>6. Add(W[i][x], W[x][j]) <= Add(F[i][x], via) /\ Add(F[i][x], via) \in Bound
  BY <1>1, <1>3, AddMonotone, AddIsBound
<1> QED
  BY <1>1, <1>4, <1>5, <1>6 DEF Lower, Bound

LEMMA CanonizeAbove ==
    ASSUME NEW Z \in Matrix, NEW W \in Matrix, Metric(W), Below(W, Z)
    PROVE  Below(W, Canonize(Z))
<1>1. PICK closed : ClosedUpTo(closed, Z, Dim + 1) /\ Canonize(Z) = closed[Dim + 1]
  BY CanonizeRuns
<1> DEFINE Above == {k \in 0 .. Dim + 1 : Below(W, closed[k])}
<1>0. Dim + 1 \in Nat
  BY DBMAssumption
<1>2. 0 \in Above
  BY <1>0, <1>1 DEF ClosedUpTo
<1>3. ASSUME NEW k \in 0 .. (Dim + 1) - 1, k \in Above PROVE k + 1 \in Above
  <2>1. k + 1 \in 0 .. Dim + 1 /\ (k + 1) - 1 = k /\ k + 1 # 0 /\ k \in Var /\ k \in 0 .. Dim + 1
    <3> HIDE DEF Above
    <3> QED
      BY DBMAssumption DEF Var
  <2>2. closed[k + 1] = Close1(closed[k], k) /\ closed[k] \in Matrix
    BY <1>1, <2>1, ClosedEntries DEF ClosedUpTo
  <2> QED
    BY <1>3, <2>1, <2>2, Close1Above
<1>4. \A k \in 0 .. Dim + 1 : k \in Above
  <2> HIDE DEF Above
  <2> QED
    BY <1>0, <1>2, <1>3, InductionUpTo
<1> QED
  BY <1>0, <1>1, <1>4

(* A matrix of shortest paths without a negative diagonal is satisfiable.  *)
LEMMA MetricSatisfiable ==
    ASSUME NEW W \in Matrix, Metric(W), \A i \in Var : W[i][i] >= Le(0)
    PROVE  IsSatisfiableWithoutCanonize(W)
<1> SUFFICES ASSUME NEW i \in Var, NEW j \in Var PROVE Add(W[i][j], W[j][i]) >= Le(0)
  BY DEF IsSatisfiableWithoutCanonize
<1>1. W[i][j] \in Bound /\ W[j][i] \in Bound /\ W[i][i] \in Bound
  BY DEF Matrix
<1>2. W[i][i] <= Add(W[i][j], W[j][i]) /\ W[i][i] >= Le(0) /\ Add(W[i][j], W[j][i]) \in Bound
  BY <1>1, AddIsBound DEF Metric
<1> QED
  BY <1>1, <1>2 DEF Bound, Le

Zeroed(E) == [i \in Var |-> [j \in Var |-> IF i = j THEN Le(0) ELSE E[i][j]]]

(* The diagonal of a zone in canonical form may be anything that is not    *)
(* negative.                                                               *)
LEMMA ZeroedMetric ==
    ASSUME NEW E \in Matrix, Canonical(E), IsSatisfiableWithoutCanonize(E)
    PROVE  Zeroed(E) \in Matrix /\ Metric(Zeroed(E)) /\ Below(Zeroed(E), E)
<1>1. \A i, j \in Var : E[i][j] \in Bound /\ Add(E[i][j], E[j][i]) >= Le(0)
  BY DEF Matrix, IsSatisfiableWithoutCanonize
<1>2. Le(0) \in Bound
  BY DBMAssumption DEF Le, Bound
<1>3. Zeroed(E) \in Matrix
  BY <1>1, <1>2 DEF Zeroed, Matrix
<1>4. \A i \in Var : E[i][i] >= Le(0)
  BY SatisfiableDiagonal
<1>5. Below(Zeroed(E), E)
  <2> SUFFICES ASSUME NEW i \in Var, NEW j \in Var PROVE Zeroed(E)[i][j] <= E[i][j]
    BY DEF Below
  <2> QED
    BY <1>1, <1>2, <1>4 DEF Zeroed, Bound
<1>6. Metric(Zeroed(E))
  <2> SUFFICES ASSUME NEW i \in Var, NEW j \in Var, NEW k \in Var
               PROVE  Zeroed(E)[i][j] <= Add(Zeroed(E)[i][k], Zeroed(E)[k][j])
    BY DEF Metric
  <2>1. CASE i = k
    <3>1. Zeroed(E)[i][k] = Le(0) /\ Zeroed(E)[k][j] = Zeroed(E)[i][j]
          /\ Zeroed(E)[i][j] \in Bound
      BY <1>3, <2>1 DEF Zeroed, Matrix
    <3> QED
      BY <1>2, <3>1, AddNonNegative DEF Bound
  <2>2. CASE j = k
    <3>1. Zeroed(E)[k][j] = Le(0) /\ Zeroed(E)[i][k] = Zeroed(E)[i][j]
          /\ Zeroed(E)[i][j] \in Bound
      BY <1>3, <2>2 DEF Zeroed, Matrix
    <3> QED
      BY <1>2, <3>1, AddNonNegative DEF Bound
  <2>3. CASE i # k /\ j # k /\ i = j
    <3>1. /\ Zeroed(E)[i][j] = Le(0)
          /\ Zeroed(E)[i][k] = E[i][k] /\ Zeroed(E)[k][j] = E[k][i]
      BY <2>3 DEF Zeroed
    <3>2. Add(E[i][k], E[k][i]) >= Le(0) /\ Add(E[i][k], E[k][i]) \in Bound
      BY <1>1, AddIsBound
    <3> QED
      BY <1>2, <3>1, <3>2 DEF Bound
  <2>4. CASE i # k /\ j # k /\ i # j
    <3>1. /\ Zeroed(E)[i][j] = E[i][j]
          /\ Zeroed(E)[i][k] = E[i][k] /\ Zeroed(E)[k][j] = E[k][j]
      BY <2>4 DEF Zeroed
    <3> QED
      BY <2>4, <3>1 DEF Canonical
  <2> QED
    BY <2>1, <2>2, <2>3, <2>4
<1> QED
  BY <1>3, <1>5, <1>6

(* canonize leaves a zone that it finds satisfiable in canonical form.     *)
THEOREM CanonizeCanonical ==
    ASSUME NEW Z \in Matrix, NEW limit \in Nat, 4 * limit < Infinity,
           \A i, j \in Var : Z[i][j] <= limit,
           IsSatisfiableWithoutCanonize(Canonize(Z))
    PROVE  Canonical(Canonize(Z))
<1>1. PICK closed : ClosedUpTo(closed, Z, Dim + 1) /\ Canonize(Z) = closed[Dim + 1]
  BY CanonizeRuns
<1> DEFINE Done == {k \in 0 .. Dim + 1 : Through(closed[k], {m \in Var : m < k})}
<1>0. Dim + 1 \in Nat /\ 0 \in 0 .. Dim + 1 /\ Dim + 1 \in 0 .. Dim + 1
  BY DBMAssumption
<1>2. 0 \in Done
  <2>1. \A m \in Var : ~ (m < 0)
    BY DEF Var
  <2> QED
    BY <1>0, <2>1 DEF Through
<1>3. ASSUME NEW k \in 0 .. (Dim + 1) - 1, k \in Done PROVE k + 1 \in Done
  <2> DEFINE S == {m \in Var : m < k}
  <2>1. k + 1 \in 0 .. Dim + 1 /\ (k + 1) - 1 = k /\ k + 1 # 0 /\ k \in Var
        /\ k \in 0 .. Dim + 1 /\ 0 \in 0 .. k /\ k \in 0 .. Dim + 1
    <3> HIDE DEF Done
    <3> QED
      BY DBMAssumption DEF Var
  <2>2. closed[k + 1] = Close1(closed[k], k) /\ closed[k] \in Matrix /\ closed[0] = Z
        /\ closed[Dim + 1] \in Matrix
    BY <1>0, <1>1, <2>1, ClosedEntries DEF ClosedUpTo
  <2>3. AllWithin(closed[k], limit)
    <3> SUFFICES ASSUME NEW i \in Var, NEW j \in Var PROVE closed[k][i][j] <= limit
      BY DEF AllWithin, Within
    <3>1. closed[k][i][j] <= closed[0][i][j] /\ Z[i][j] <= limit
      BY <1>1, <2>1, ClosedEntries
    <3>2. closed[k][i][j] \in Int /\ Z[i][j] \in Int
      BY <2>2 DEF Matrix, Bound
    <3> QED
      BY <2>2, <3>1, <3>2
  <2>4. IsSatisfiableWithoutCanonize(closed[k])
    <3>1. \A i, j \in Var : closed[Dim + 1][i][j] <= closed[k][i][j]
      BY <1>0, <1>1, <2>1, ClosedEntries
    <3> QED
      BY <1>1, <2>2, <3>1, SatisfiableMonotone
  <2>5. Through(closed[k + 1], S \cup {k})
    BY <1>3, <2>1, <2>2, <2>3, <2>4, ClosedThrough
  <2>6. S \cup {k} = {m \in Var : m < k + 1}
    <3>1. \A m \in Var : m < k + 1 <=> m < k \/ m = k
      BY DEF Var
    <3> QED
      BY <2>1, <3>1
  <2> QED
    BY <2>1, <2>5, <2>6
<1>4. Dim + 1 \in Done
  <2> HIDE DEF Done
  <2> QED
    BY <1>0, <1>2, <1>3, InductionUpTo
<1>5. {m \in Var : m < Dim + 1} = Var
  BY DBMAssumption DEF Var
<1> QED
  BY <1>1, <1>4, <1>5, CanonicalIsThrough

(* What Canonical means of a zone in terms of the code's isCanonized: that *)
(* canonize changes nothing but the diagonal, and nothing at all when the  *)
(* diagonal is zero.                                                       *)
LEMMA CanonizeKeepsCanonical ==
    ASSUME NEW F \in Matrix, IsSatisfiableWithoutCanonize(F), Canonical(F)
    PROVE  \A i, j \in Var :
              /\ i # j => Canonize(F)[i][j] = F[i][j]
              /\ Canonize(F)[i][i] >= Le(0)
<1>1. PICK closed : ClosedUpTo(closed, F, Dim + 1) /\ Canonize(F) = closed[Dim + 1]
  BY CanonizeRuns
<1> DEFINE Kept(E) == \A i, j \in Var : /\ i # j => E[i][j] = F[i][j]
                                        /\ E[i][i] >= Le(0)
           Keeping == {k \in 0 .. Dim + 1 : Kept(closed[k])}
<1>0. Dim + 1 \in Nat
  BY DBMAssumption
<1>2. 0 \in Keeping
  <2>1. closed[0] = F
    BY <1>0, <1>1 DEF ClosedUpTo
  <2> QED
    BY <1>0, <2>1, SatisfiableDiagonal
<1>3. ASSUME NEW E \in Matrix, Kept(E), NEW x \in Var PROVE Kept(Close1(E, x))
  <2> TAKE i, j \in Var
  <2>1. \A a, b \in Var : /\ F[a][b] \in Bound /\ E[a][b] \in Bound
                          /\ Close1(E, x)[a][b] = Lower(E[a][b], Add(E[a][x], E[x][b]))
                          /\ Add(E[a][x], E[x][b]) \in Bound
    <3>1. E[x][x] >= Le(0)
      BY <1>3
    <3>2. \A a, b \in Var : Close1(E, x)[a][b] = Lower(E[a][b], Add(E[a][x], E[x][b]))
      BY <1>3, <3>1, Close1Min
    <3>3. \A a, b \in Var : F[a][b] \in Bound /\ E[a][b] \in Bound
      BY <1>3 DEF Matrix
    <3> QED
      BY <3>2, <3>3, AddIsBound
  <2>2. ASSUME i # j PROVE Close1(E, x)[i][j] = F[i][j]
    <3>1. CASE x # i /\ x # j
      <4>1. E[i][j] = F[i][j] /\ E[i][x] = F[i][x] /\ E[x][j] = F[x][j]
        BY <1>3, <2>2, <3>1
      <4>2. F[i][j] <= Add(F[i][x], F[x][j])
        BY <2>2 DEF Canonical
      <4> QED
        BY <2>1, <4>1, <4>2 DEF Lower, Bound
    <3>2. CASE x = i
      <4>1. E[i][j] = F[i][j] /\ E[i][i] >= Le(0)
        BY <1>3, <2>2
      <4>2. E[i][j] <= Add(E[i][i], E[i][j])
        BY <2>1, <4>1, AddNonNegative
      <4> QED
        BY <2>1, <3>2, <4>1, <4>2 DEF Lower, Bound
    <3>3. CASE x = j
      <4>1. E[i][j] = F[i][j] /\ E[j][j] >= Le(0)
        BY <1>3, <2>2
      <4>2. E[i][j] <= Add(E[i][j], E[j][j])
        BY <2>1, <4>1, AddNonNegative
      <4> QED
        BY <2>1, <3>3, <4>1, <4>2 DEF Lower, Bound
    <3> QED
      BY <3>1, <3>2, <3>3
  <2>3. Close1(E, x)[i][i] >= Le(0)
    <3>1. E[i][i] >= Le(0)
      BY <1>3
    <3>2. Add(E[i][x], E[x][i]) >= Le(0)
      <4>1. CASE x = i
        <5>1. E[i][i] <= Add(E[i][i], E[i][i])
          BY <2>1, <3>1, AddNonNegative
        <5> QED
          BY <2>1, <3>1, <4>1, <5>1 DEF Bound, Le
      <4>2. CASE x # i
        <5>1. E[i][x] = F[i][x] /\ E[x][i] = F[x][i]
          BY <1>3, <4>2
        <5> QED
          BY <5>1 DEF IsSatisfiableWithoutCanonize
      <4> QED
        BY <4>1, <4>2
    <3> QED
      BY <2>1, <3>1, <3>2 DEF Lower
  <2> QED
    BY <2>2, <2>3
<1>4. ASSUME NEW k \in 0 .. (Dim + 1) - 1, k \in Keeping PROVE k + 1 \in Keeping
  <2>1. k + 1 \in 0 .. Dim + 1 /\ (k + 1) - 1 = k /\ k + 1 # 0 /\ k \in Var /\ k \in 0 .. Dim + 1
    <3> HIDE DEF Keeping
    <3> QED
      BY DBMAssumption DEF Var
  <2>2. closed[k + 1] = Close1(closed[k], k) /\ closed[k] \in Matrix
    BY <1>1, <2>1, ClosedEntries DEF ClosedUpTo
  <2>3. Kept(closed[k])
    BY <1>4
  <2> HIDE DEF Kept
  <2> QED
    BY <1>3, <2>1, <2>2, <2>3
<1>5. \A k \in 0 .. Dim + 1 : k \in Keeping
  <2> HIDE DEF Keeping
  <2> QED
    BY <1>0, <1>2, <1>4, InductionUpTo
<1> QED
  BY <1>0, <1>1, <1>5

(* dbm.hh:295-299, isCanonized: off the diagonal, Canonical says of a zone *)
(* that canonize changes nothing; with a diagonal of zeros it is what      *)
(* isCanonized tests.                                                      *)
THEOREM CanonicalIsCanonized ==
    ASSUME NEW F \in Matrix, IsSatisfiableWithoutCanonize(F)
    PROVE  /\ Canonical(F) <=> \A i, j \in Var : i # j => Canonize(F)[i][j] = F[i][j]
           /\ IsSatisfiableWithoutCanonize(Canonize(F)) /\ (\A i \in Var : F[i][i] = Le(0))
                 => (IsCanonized(F) <=> Canonical(F))
<1>1. ASSUME \A i, j \in Var : i # j => Canonize(F)[i][j] = F[i][j]
      PROVE  Canonical(F)
  <2> SUFFICES ASSUME NEW i \in Var, NEW j \in Var, NEW k \in Var, i # j
               PROVE  F[i][j] <= Add(F[i][k], F[k][j])
    BY DEF Canonical
  <2>1. Canonize(F)[i][j] <= Add(F[i][k], F[k][j])
    BY CanonizeShortens
  <2> QED
    BY <1>1, <2>1
<1>2. Canonical(F) <=> \A i, j \in Var : i # j => Canonize(F)[i][j] = F[i][j]
  BY <1>1, CanonizeKeepsCanonical
<1>3. ASSUME IsSatisfiableWithoutCanonize(Canonize(F)), IsCanonized(F) PROVE Canonical(F)
  <2>1. F = Canonize(F)
    BY <1>3 DEF IsCanonized
  <2> QED
    BY <1>1, <2>1
<1>4. ASSUME Canonical(F), \A i \in Var : F[i][i] = Le(0) PROVE IsCanonized(F)
  <2>1. Canonize(F) \in Matrix /\ \A i \in Var : Canonize(F)[i][i] <= F[i][i]
    BY CanonizeShortens
  <2>2. \A i, j \in Var : Canonize(F)[i][j] = F[i][j]
    <3> TAKE i, j \in Var
    <3>1. i # j => Canonize(F)[i][j] = F[i][j]
      BY <1>2, <1>4
    <3>2. Canonize(F)[i][i] >= Le(0)
      BY <1>4, CanonizeKeepsCanonical
    <3>3. Canonize(F)[i][i] \in Bound /\ Canonize(F)[i][i] <= Le(0)
      BY <1>4, <2>1 DEF Matrix
    <3>4. Canonize(F)[i][i] = Le(0)
      BY <3>2, <3>3 DEF Bound, Le
    <3> QED
      BY <1>4, <3>1, <3>4
  <2>3. Canonize(F) = F
    BY <2>1, <2>2 DEF Matrix
  <2> QED
    BY <2>3 DEF IsCanonized
<1> QED
  BY <1>2, <1>3, <1>4

(* A delay keeps the canonical form, and a zone that is not empty stays so.*)
LEMMA ElapseCanonical ==
    ASSUME NEW Z \in Matrix, Canonical(Z), IsSatisfiableWithoutCanonize(Z)
    PROVE  /\ Elapse(Z) \in Matrix /\ Canonical(Elapse(Z))
           /\ IsSatisfiableWithoutCanonize(Elapse(Z))
<1> DEFINE E == Elapse(Z)
<1>1. /\ E \in Matrix
      /\ \A i, j \in Var : E[i][j] =
           IF j = 0 THEN Infinity ELSE IF i = 0 THEN Strict(Z[0][j]) ELSE Z[i][j]
  BY ElapseIs
<1> HIDE DEF E
<1>2. \A i, j \in Var : Z[i][j] \in Bound /\ E[i][j] \in Bound
  BY <1>1 DEF Matrix
<1>3. ASSUME NEW a \in Bound
      PROVE  Add(a, Infinity) = Infinity /\ Add(Infinity, a) = Infinity /\ a <= Infinity
  BY DEF Add, Bound
<1>4. ASSUME NEW a \in Bound, NEW b \in Bound, NEW c \in Bound, a <= Add(b, c)
      PROVE  Strict(a) <= Add(Strict(b), c)
  BY <1>4, DBMAssumption DEF Add, Bound, Strict
<1>5. Infinity >= Le(0)
  BY DBMAssumption DEF Le
<1>6. ASSUME NEW i \in Var, NEW j \in Var, NEW k \in Var, i # j
      PROVE  E[i][j] <= Add(E[i][k], E[k][j])
  <2>1. CASE k = 0
    BY <1>1, <1>2, <1>3, <2>1
  <2>2. CASE k # 0 /\ j = 0
    BY <1>1, <1>2, <1>3, <2>2
  <2>3. CASE k # 0 /\ j # 0 /\ i = 0
    <3>1. E[i][j] = Strict(Z[0][j]) /\ E[i][k] = Strict(Z[0][k]) /\ E[k][j] = Z[k][j]
      BY <1>1, <2>3
    <3>2. Z[0][j] <= Add(Z[0][k], Z[k][j])
      BY <2>3, VarFacts DEF Canonical
    <3> QED
      BY <1>2, <1>4, <3>1, <3>2, VarFacts
  <2>4. CASE k # 0 /\ j # 0 /\ i # 0
    <3>1. E[i][j] = Z[i][j] /\ E[i][k] = Z[i][k] /\ E[k][j] = Z[k][j]
      BY <1>1, <2>4
    <3> QED
      BY <1>6, <3>1 DEF Canonical
  <2> QED
    BY <2>1, <2>2, <2>3, <2>4
<1>7. ASSUME NEW i \in Var, NEW j \in Var PROVE Add(E[i][j], E[j][i]) >= Le(0)
  <2>1. CASE i = 0 \/ j = 0
    BY <1>1, <1>2, <1>3, <1>5, <2>1
  <2>2. CASE i # 0 /\ j # 0
    BY <1>1, <2>2 DEF IsSatisfiableWithoutCanonize
  <2> QED
    BY <2>1, <2>2
<1> QED
  BY <1>1, <1>6, <1>7 DEF Canonical, IsSatisfiableWithoutCanonize, E

(* After a new bound, closing through the two variables it is about is     *)
(* enough, as long as the zone is satisfiable afterwards.                  *)
THEOREM TightenCanonical ==
    ASSUME NEW E \in Matrix, Canonical(E), NEW x \in Var, NEW y \in Var, NEW b \in Bound,
           NEW limit \in Nat, 8 * limit < Infinity, AllWithin(E, limit), b <= limit,
           IsSatisfiableWithoutCanonize(Tighten(E, x, y, b))
    PROVE  Canonical(Tighten(E, x, y, b))
<1> DEFINE N == TightenWithoutClose(E, x, y, b)
           P == Close1(N, x)
           Q == Close1(P, y)
           S == Var \ {x, y}
<1>1. /\ N \in Matrix
      /\ \A i, j \in Var : N[i][j] = IF i = x /\ j = y THEN Lower(E[x][y], b) ELSE E[i][j]
  BY TightenWithoutCloseIs
<1>2. Tighten(E, x, y, b) = Q
  BY DEF Tighten
<1> HIDE DEF N
<1>3. /\ P \in Matrix
      /\ \A i, j \in Var : P[i][j] <= N[i][j]
  BY <1>1, Close1Type, Close1Entry
<1>4. N \in Matrix /\ IsSatisfiableWithoutCanonize(P) /\ IsSatisfiableWithoutCanonize(N)
  <2> HIDE DEF P
  <2>1. Q \in Matrix /\ \A i, j \in Var : Q[i][j] <= P[i][j]
    BY <1>3, Close1Type, Close1Entry
  <2>2. IsSatisfiableWithoutCanonize(Q)
    BY <1>2
  <2> HIDE DEF Q
  <2> QED
    BY <1>1, <1>3, <2>1, <2>2, SatisfiableMonotone
<1>5. AllWithin(N, limit)
  <2> SUFFICES ASSUME NEW i \in Var, NEW j \in Var PROVE Within(N[i][j], limit)
    BY DEF AllWithin
  <2>1. E[i][j] \in Bound /\ Within(E[i][j], limit) /\ E[x][y] \in Bound
    BY DEF Matrix, AllWithin
  <2> QED
    BY <1>1, <2>1 DEF Within, Lower, Bound
<1>6. Through(N, S)
  <2> SUFFICES ASSUME NEW i \in Var, NEW j \in Var, NEW m \in S, i # j
               PROVE  N[i][j] <= Add(N[i][m], N[m][j])
    BY DEF Through
  <2>1. N[i][m] = E[i][m] /\ N[m][j] = E[m][j]
    BY <1>1
  <2>2. E[i][j] <= Add(E[i][m], E[m][j])
    BY DEF Canonical
  <2>3. N[i][j] <= E[i][j] /\ N[i][j] \in Int /\ E[i][j] \in Int
    BY <1>1 DEF Lower, Matrix, Bound
  <2>4. Add(E[i][m], E[m][j]) \in Bound
    BY AddIsBound DEF Matrix
  <2> QED
    BY <2>1, <2>2, <2>3, <2>4 DEF Bound
<1>7. Through(P, S \cup {x})
  <2>1. 4 * limit < Infinity /\ S \subseteq Var
    BY DBMAssumption
  <2> HIDE DEF S
  <2> QED
    BY <1>4, <1>5, <1>6, <2>1, ClosedThrough
<1>8. AllWithin(P, limit + limit)
  <2> SUFFICES ASSUME NEW i \in Var, NEW j \in Var PROVE Within(P[i][j], limit + limit)
    BY DEF AllWithin
  <2>1. P[i][j] = Lower(N[i][j], Add(N[i][x], N[x][j]))
    BY <1>4, SatisfiableDiagonal, Close1Min
  <2>2. /\ N[i][j] \in Bound /\ N[i][x] \in Bound /\ N[x][j] \in Bound
        /\ Within(N[i][j], limit) /\ Within(N[i][x], limit) /\ Within(N[x][j], limit)
    BY <1>4, <1>5 DEF AllWithin, Matrix
  <2>3. Within(Add(N[i][x], N[x][j]), limit + limit) /\ Add(N[i][x], N[x][j]) \in Bound
    BY <2>2, AddWithin, AddIsBound
  <2>4. Within(N[i][j], limit + limit)
    BY <2>2 DEF Within, Bound
  <2> HIDE DEF P
  <2> QED
    BY <2>1, <2>2, <2>3, <2>4 DEF Lower
<1>9. Through(Q, (S \cup {x}) \cup {y})
  <2>1. limit + limit \in Nat /\ 4 * (limit + limit) < Infinity /\ S \cup {x} \subseteq Var
    BY DBMAssumption
  <2> HIDE DEF P, S
  <2> QED
    BY <1>3, <1>4, <1>7, <1>8, <2>1, ClosedThrough
<1>10. (S \cup {x}) \cup {y} = Var
  OBVIOUS
<1> QED
  BY <1>2, <1>9, <1>10, CanonicalIsThrough

(* Putting the clock x in the place of variable 0 and closing through it   *)
(* keeps the canonical form, and a zone that is not empty stays so.        *)
THEOREM ResetCanonical ==
    ASSUME NEW Z \in Matrix, Canonical(Z), IsSatisfiableWithoutCanonize(Z),
           NEW x \in Var, x # 0,
           NEW limit \in Nat, 4 * limit < Infinity, limit >= Le(0), AllWithin(Z, limit)
    PROVE  /\ Canonical(Reset(Z, x)) /\ IsSatisfiableWithoutCanonize(Reset(Z, x))
           /\ Reset(Z, x)[0][x] >= Le(0)
<1> DEFINE N == Aliased(Z, x)
           stand(i) == IF i = x THEN 0 ELSE i
           W == [i \in Var |-> [j \in Var |-> Zeroed(Z)[stand(i)][stand(j)]]]
<1>1. N \in Matrix /\ Reset(Z, x) = Close1(N, x) /\ Reset(Z, x) \in Matrix
  BY ResetShortens
<1>2. \A i, j \in Var :
         N[i][j] = IF {i, j} \subseteq {0, x} /\ <<i, j>> # <<0, 0>> THEN Le(0)
                   ELSE IF j = x THEN Z[i][0]
                   ELSE IF i = x THEN Z[0][j]
                   ELSE Z[i][j]
  BY DEF Aliased
<1> HIDE DEF N
<1>3. /\ Zeroed(Z) \in Matrix /\ Metric(Zeroed(Z)) /\ Below(Zeroed(Z), Z)
      /\ \A i, j \in Var : Zeroed(Z)[i][j] = IF i = j THEN Le(0) ELSE Z[i][j]
  BY ZeroedMetric DEF Zeroed
<1>4. \A i \in Var : stand(i) \in Var
  BY VarFacts
<1>5. \A i, j \in Var : W[i][j] = Zeroed(Z)[stand(i)][stand(j)]
  OBVIOUS
<1>6. W \in Matrix
  BY <1>3, <1>4 DEF Matrix
<1> HIDE DEF W
<1>7. Metric(W)
  <2> SUFFICES ASSUME NEW i \in Var, NEW j \in Var, NEW k \in Var
               PROVE  W[i][j] <= Add(W[i][k], W[k][j])
    BY DEF Metric
  <2>1. stand(i) \in Var /\ stand(j) \in Var /\ stand(k) \in Var
    BY <1>4
  <2> HIDE DEF stand
  <2> QED
    BY <1>3, <1>5, <2>1 DEF Metric
<1>8. ASSUME NEW i \in Var, NEW j \in Var, <<i, j>> # <<0, 0>>, i # j \/ i = x
      PROVE  N[i][j] = W[i][j]
  <2>1. CASE {i, j} \subseteq {0, x}
    BY <1>2, <1>3, <1>5, <1>8, <2>1, VarFacts
  <2>2. CASE ~ ({i, j} \subseteq {0, x}) /\ j = x
    BY <1>2, <1>3, <1>5, <2>2, VarFacts
  <2>3. CASE ~ ({i, j} \subseteq {0, x}) /\ j # x /\ i = x
    BY <1>2, <1>3, <1>5, <2>3, VarFacts
  <2>4. CASE ~ ({i, j} \subseteq {0, x}) /\ j # x /\ i # x
    BY <1>2, <1>3, <1>5, <1>8, <2>4
  <2> QED
    BY <2>1, <2>2, <2>3, <2>4
<1>9. \A i, j \in Var : N[i][j] \in Bound /\ W[i][j] \in Bound /\ Z[i][j] \in Bound
  BY <1>1, <1>6 DEF Matrix
<1>10. Below(W, N)
  <2> SUFFICES ASSUME NEW i \in Var, NEW j \in Var PROVE W[i][j] <= N[i][j]
    BY DEF Below
  <2>1. CASE <<i, j>> # <<0, 0>> /\ (i # j \/ i = x)
    BY <1>8, <1>9, <2>1 DEF Bound
  <2>2. CASE ~ (<<i, j>> # <<0, 0>> /\ (i # j \/ i = x))
    <3>1. i = j /\ i # x
      BY <2>2
    <3>2. N[i][j] = Z[i][i] /\ W[i][j] = Le(0)
      BY <1>2, <1>3, <1>5, <3>1
    <3>3. Z[i][i] >= Le(0)
      BY SatisfiableDiagonal
    <3> QED
      BY <1>9, <3>2, <3>3 DEF Bound, Le
  <2> QED
    BY <2>1, <2>2
<1>11. IsSatisfiableWithoutCanonize(W)
  <2>1. \A i \in Var : W[i][i] = Le(0)
    BY <1>3, <1>4, <1>5
  <2>2. Le(0) >= Le(0)
    BY DEF Le
  <2> QED
    BY <1>6, <1>7, <2>1, <2>2, MetricSatisfiable
<1>12. IsSatisfiableWithoutCanonize(N)
  BY <1>1, <1>6, <1>10, <1>11, SatisfiableMonotone DEF Below
<1>13. IsSatisfiableWithoutCanonize(Reset(Z, x)) /\ Reset(Z, x)[0][x] >= Le(0)
  <2>1. Below(W, Reset(Z, x))
    BY <1>1, <1>6, <1>7, <1>10, Close1Above
  <2>2. W[0][x] = Le(0)
    BY <1>3, <1>5, VarFacts
  <2>3. Reset(Z, x)[0][x] >= Le(0)
    BY <2>1, <2>2, VarFacts DEF Below
  <2> QED
    BY <1>1, <1>6, <1>11, <2>1, <2>3, SatisfiableMonotone DEF Below
<1>14. Through(N, Var)
  <2> SUFFICES ASSUME NEW i \in Var, NEW j \in Var, NEW m \in Var, i # j
               PROVE  N[i][j] <= Add(N[i][m], N[m][j])
    BY DEF Through
  <2>1. N[i][j] = W[i][j] /\ W[i][j] <= Add(W[i][m], W[m][j])
    BY <1>7, <1>8 DEF Metric
  <2>2. /\ Add(W[i][m], W[m][j]) <= Add(N[i][m], N[m][j])
        /\ Add(W[i][m], W[m][j]) \in Bound /\ Add(N[i][m], N[m][j]) \in Bound
    BY <1>9, <1>10, AddMonotone, AddIsBound DEF Below
  <2> QED
    BY <1>9, <2>1, <2>2 DEF Bound
<1>15. AllWithin(N, limit)
  <2> SUFFICES ASSUME NEW i \in Var, NEW j \in Var PROVE Within(N[i][j], limit)
    BY DEF AllWithin
  <2>1. N[i][j] = Le(0) \/ \E k, l \in Var : N[i][j] = Z[k][l]
    BY <1>2, VarFacts
  <2> QED
    BY <2>1 DEF AllWithin, Within, Le
<1>16. Through(Close1(N, x), Var \cup {x})
  BY <1>1, <1>12, <1>14, <1>15, ClosedThrough
<1>17. Var \cup {x} = Var
  OBVIOUS
<1> QED
  BY <1>1, <1>13, <1>16, <1>17, CanonicalIsThrough

(* The distances once an edge has been added: with or without the edge.    *)
Detour(e, x, y, b, i, j) == Add(Add(e[i][x], b), e[y][j])

WithEdge(e, x, y, b) ==
    [i \in Var |-> [j \in Var |-> Lower(e[i][j], Detour(e, x, y, b, i, j))]]

LEMMA WithEdgeMetric ==
    ASSUME NEW e \in Matrix, Metric(e), NEW x \in Var, NEW y \in Var, NEW b \in Bound,
           NEW limit \in Nat, 6 * limit < Infinity, AllWithin(e, limit), b <= limit,
           Add(e[y][x], b) >= Le(0)
    PROVE  WithEdge(e, x, y, b) \in Matrix /\ Metric(WithEdge(e, x, y, b))
<1> DEFINE V == WithEdge(e, x, y, b)
           two == limit + limit
           three == limit + limit + limit
<1>1. \A i, j \in Var : e[i][j] \in Bound /\ Within(e[i][j], limit)
  BY DEF Matrix, AllWithin
<1>2. \A i, j \in Var : Detour(e, x, y, b, i, j) \in Bound
  BY <1>1, AddIsBound DEF Detour
<1>3. /\ V \in Matrix
      /\ \A i, j \in Var : V[i][j] = Lower(e[i][j], Detour(e, x, y, b, i, j))
  BY <1>1, <1>2 DEF WithEdge, Matrix, Lower
<1> HIDE DEF V
<1>4. \A i, j \in Var :
         /\ V[i][j] \in Bound
         /\ V[i][j] <= e[i][j] /\ V[i][j] <= Detour(e, x, y, b, i, j)
         /\ V[i][j] = e[i][j] \/ V[i][j] = Detour(e, x, y, b, i, j)
  <2> TAKE i, j \in Var
  <2>1. e[i][j] \in Bound /\ Detour(e, x, y, b, i, j) \in Bound
    BY <1>1, <1>2
  <2> QED
    BY <1>3, <2>1 DEF Lower, Bound
<1>5. limit \in Nat /\ two \in Nat /\ three \in Nat /\ 2 * limit < Infinity /\ 2 * two < Infinity
      /\ 2 * three < Infinity /\ limit <= two /\ two <= three /\ two = limit + limit
      /\ three = two + limit
  BY DBMAssumption
<1> HIDE DEF two, three
<1>6. ASSUME NEW a \in Bound, Within(a, limit) PROVE Within(a, two) /\ Within(a, three)
  BY <1>5, <1>6 DEF Within, Bound
<1>7. ASSUME NEW a \in Bound, Within(a, two) PROVE Within(a, three)
  BY <1>5, <1>7 DEF Within, Bound
<1>8. Within(b, limit)
  BY DEF Within
<1> SUFFICES ASSUME NEW i \in Var, NEW j \in Var, NEW k \in Var
             PROVE  V[i][j] <= Add(V[i][k], V[k][j])
  BY <1>3 DEF Metric, V
<1> DEFINE ik == e[i][k]
           kj == e[k][j]
           ix == e[i][x]
           kx == e[k][x]
           yj == e[y][j]
           yk == e[y][k]
           yx == e[y][x]
           u == Add(ix, b)
           s == Add(kx, b)
<1>9. /\ ik \in Bound /\ kj \in Bound /\ ix \in Bound /\ kx \in Bound
      /\ yj \in Bound /\ yk \in Bound /\ yx \in Bound
      /\ Within(ik, limit) /\ Within(kj, limit) /\ Within(ix, limit) /\ Within(kx, limit)
      /\ Within(yj, limit) /\ Within(yk, limit) /\ Within(yx, limit)
  BY <1>1
<1>10. /\ ix <= Add(ik, kx) /\ yj <= Add(yk, kj) /\ yx <= Add(yk, kx)
       /\ V[i][j] <= Add(ik, kj)
  <2>1. e[i][j] <= Add(ik, kj) /\ V[i][j] <= e[i][j]
    BY <1>4 DEF Metric
  <2>2. Add(ik, kj) \in Bound /\ e[i][j] \in Bound /\ V[i][j] \in Bound
    BY <1>1, <1>4, <1>9, AddIsBound
  <2>3. V[i][j] <= Add(ik, kj)
    <3> HIDE DEF ik, kj
    <3> QED
      BY <2>1, <2>2 DEF Bound
  <2> QED
    BY <2>3 DEF Metric
<1>11. /\ V[i][j] \in Bound /\ V[i][j] <= Add(u, yj)
       /\ V[i][k] = ik \/ V[i][k] = Add(u, yk)
       /\ V[k][j] = kj \/ V[k][j] = Add(s, yj)
  BY <1>4 DEF Detour
<1>12. Add(yx, b) >= Le(0)
  OBVIOUS
<1> HIDE DEF ik, kj, ix, kx, yj, yk, yx
<1>13. /\ u \in Bound /\ s \in Bound /\ Within(u, two) /\ Within(s, two)
       /\ Add(u, yj) \in Bound
  BY <1>5, <1>8, <1>9, AddIsBound, AddWithin
<1>14. V[i][j] <= Add(ik, Add(s, yj))
  <2>1. Add(ik, s) = Add(Add(ik, kx), b) /\ Add(Add(ik, kx), b) \in Bound
    BY <1>5, <1>8, <1>9, AddAssociative, AddIsBound
  <2>2. u <= Add(Add(ik, kx), b)
    <3>1. b <= b /\ Add(ik, kx) \in Bound
      BY <1>9, AddIsBound DEF Bound
    <3> QED
      BY <1>9, <1>10, <3>1, AddMonotone
  <2>3. Add(Add(ik, s), yj) = Add(ik, Add(s, yj))
    <3>1. Within(ik, two) /\ Within(yj, two)
      BY <1>6, <1>9
    <3> QED
      BY <1>5, <1>9, <1>13, <3>1, AddAssociative
  <2>4. Add(u, yj) <= Add(Add(ik, s), yj) /\ Add(Add(ik, s), yj) \in Bound
    <3>1. yj <= yj /\ u <= Add(ik, s) /\ Add(ik, s) \in Bound
      BY <1>9, <2>1, <2>2 DEF Bound
    <3> HIDE DEF u, s
    <3> QED
      BY <1>9, <1>13, <3>1, AddMonotone, AddIsBound
  <2> HIDE DEF u, s
  <2> QED
    BY <1>11, <1>13, <2>3, <2>4 DEF Bound
<1>15. V[i][j] <= Add(Add(u, yk), kj)
  <2> HIDE DEF u, s
  <2>1. Add(Add(u, yk), kj) = Add(u, Add(yk, kj)) /\ Add(yk, kj) \in Bound
    <3>1. Within(yk, two) /\ Within(kj, two)
      BY <1>6, <1>9
    <3> QED
      BY <1>5, <1>9, <1>13, <3>1, AddAssociative, AddIsBound
  <2>2. Add(u, yj) <= Add(u, Add(yk, kj)) /\ Add(u, Add(yk, kj)) \in Bound
    <3>1. u <= u
      BY <1>13 DEF Bound
    <3> QED
      BY <1>9, <1>10, <1>13, <2>1, <3>1, AddMonotone, AddIsBound
  <2> QED
    BY <1>11, <1>13, <2>1, <2>2 DEF Bound
<1>16. V[i][j] <= Add(Add(u, yk), Add(s, yj))
  <2>1. Add(yk, s) = Add(Add(yk, kx), b) /\ Add(yk, s) \in Bound
    BY <1>5, <1>8, <1>9, AddAssociative, AddIsBound
  <2>2. Add(yk, s) >= Le(0)
    <3>1. Add(yk, kx) \in Bound /\ b <= b
      BY <1>9, AddIsBound DEF Bound
    <3>2. Add(yx, b) <= Add(Add(yk, kx), b) /\ Add(yx, b) \in Bound
      BY <1>9, <1>10, <3>1, AddMonotone, AddIsBound
    <3> HIDE DEF s
    <3> QED
      BY <1>12, <2>1, <3>2 DEF Bound, Le
  <2> HIDE DEF u, s
  <2>3. Add(Add(u, yk), s) = Add(u, Add(yk, s)) /\ Add(Add(u, yk), s) \in Bound
    <3>1. Within(yk, two)
      BY <1>6, <1>9
    <3> QED
      BY <1>5, <1>9, <1>13, <3>1, AddAssociative, AddIsBound
  <2>4. u <= Add(Add(u, yk), s)
    BY <1>13, <2>1, <2>2, <2>3, AddNonNegative
  <2>5. Add(Add(Add(u, yk), s), yj) = Add(Add(u, yk), Add(s, yj))
    <3>1. Add(u, yk) \in Bound /\ Within(Add(u, yk), three)
      BY <1>5, <1>9, <1>13, AddIsBound, AddWithin
    <3>2. Within(s, three) /\ Within(yj, three)
      BY <1>6, <1>7, <1>9, <1>13
    <3> QED
      BY <1>5, <1>9, <1>13, <3>1, <3>2, AddAssociative
  <2>6. /\ Add(u, yj) <= Add(Add(Add(u, yk), s), yj)
        /\ Add(Add(Add(u, yk), s), yj) \in Bound
    <3>1. yj <= yj
      BY <1>9 DEF Bound
    <3> QED
      BY <1>9, <1>13, <2>3, <2>4, <3>1, AddMonotone, AddIsBound
  <2> QED
    BY <1>11, <1>13, <2>5, <2>6 DEF Bound
<1> QED
  BY <1>10, <1>11, <1>14, <1>15, <1>16

(* A new bound leaves a zone satisfiable that does not contradict the bound*)
(* of the opposite difference.                                             *)
THEOREM TightenSatisfiable ==
    ASSUME NEW E \in Matrix, Canonical(E), IsSatisfiableWithoutCanonize(E),
           NEW x \in Var, NEW y \in Var, x # y, NEW b \in Bound,
           NEW limit \in Nat, 6 * limit < Infinity, limit >= Le(0),
           AllWithin(E, limit), b <= limit,
           Add(E[y][x], b) >= Le(0)
    PROVE  IsSatisfiableWithoutCanonize(Tighten(E, x, y, b))
<1> DEFINE N == TightenWithoutClose(E, x, y, b)
           e == Zeroed(E)
           V == WithEdge(e, x, y, b)
<1>1. /\ N \in Matrix
      /\ \A i, j \in Var : N[i][j] = IF i = x /\ j = y THEN Lower(E[x][y], b) ELSE E[i][j]
  BY TightenWithoutCloseIs
<1>2. e \in Matrix /\ Metric(e) /\ Below(e, E)
      /\ \A i, j \in Var : e[i][j] = IF i = j THEN Le(0) ELSE E[i][j]
  BY ZeroedMetric DEF Zeroed
<1> HIDE DEF N, e
<1>3. AllWithin(e, limit)
  BY <1>2 DEF AllWithin, Within, Le
<1>4. Add(e[y][x], b) >= Le(0)
  BY <1>2
<1>5. V \in Matrix /\ Metric(V)
  BY <1>2, <1>3, <1>4, WithEdgeMetric
<1>6. \A i, j \in Var : V[i][j] = Lower(e[i][j], Detour(e, x, y, b, i, j))
  BY DEF WithEdge
<1>7. \A i, j \in Var : /\ e[i][j] \in Bound /\ E[i][j] \in Bound
                        /\ Detour(e, x, y, b, i, j) \in Bound
  BY <1>2, AddIsBound DEF Detour, Matrix
<1> HIDE DEF V
<1>8. Below(V, N)
  <2> SUFFICES ASSUME NEW i \in Var, NEW j \in Var PROVE V[i][j] <= N[i][j]
    BY DEF Below
  <2>1. V[i][j] <= e[i][j] /\ V[i][j] <= Detour(e, x, y, b, i, j) /\ e[i][j] <= E[i][j]
    BY <1>2, <1>6, <1>7 DEF Lower, Bound, Below
  <2>2. V[i][j] \in Int /\ V[i][j] <= E[i][j]
    BY <1>5, <1>7, <2>1 DEF Matrix, Bound
  <2>3. i = x /\ j = y => V[i][j] <= b
    <3>1. e[x][x] = Le(0) /\ e[y][y] = Le(0)
      BY <1>2
    <3>2. Le(0) \in Bound /\ Le(0) >= Le(0)
      BY DBMAssumption DEF Le, Bound
    <3>3. Add(Le(0), b) = b /\ Add(b, Le(0)) = b
      BY <3>2, AddNonNegative
    <3>4. Detour(e, x, y, b, x, y) = b
      BY <3>1, <3>3 DEF Detour
    <3> QED
      BY <2>1, <3>4
  <2> QED
    BY <1>1, <2>2, <2>3 DEF Lower
<1>9. \A i \in Var : V[i][i] >= Le(0)
  <2> TAKE i \in Var
  <2>1. /\ e[i][i] = Le(0)
        /\ e[i][x] \in Bound /\ e[y][i] \in Bound /\ e[y][x] \in Bound
        /\ e[y][x] <= Add(e[y][i], e[i][x])
    BY <1>2, <1>7 DEF Metric
  <2>2. Detour(e, x, y, b, i, i) = Add(Add(e[y][i], e[i][x]), b)
    <3>1. Add(e[i][x], b) \in Bound
      BY <2>1, AddIsBound
    <3>2. Detour(e, x, y, b, i, i) = Add(e[y][i], Add(e[i][x], b))
      BY <2>1, <3>1, AddCommutative DEF Detour
    <3>3. Within(e[y][i], limit) /\ Within(e[i][x], limit) /\ Within(b, limit)
      BY <1>3 DEF AllWithin, Within
    <3>4. 2 * limit < Infinity
      BY DBMAssumption
    <3> QED
      BY <2>1, <3>2, <3>3, <3>4, AddAssociative
  <2>3. Add(e[y][i], e[i][x]) \in Bound
    BY <2>1, AddIsBound
  <2>4. b <= b
    BY DEF Bound
  <2>5. Add(e[y][x], b) <= Add(Add(e[y][i], e[i][x]), b) /\ Add(e[y][x], b) \in Bound
    BY <2>1, <2>3, <2>4, AddMonotone, AddIsBound
  <2>6. Detour(e, x, y, b, i, i) >= Le(0)
    BY <1>4, <1>7, <2>2, <2>5 DEF Bound, Le
  <2> QED
    BY <1>6, <2>1, <2>6 DEF Lower, Le
<1>10. IsSatisfiableWithoutCanonize(V)
  BY <1>5, <1>9, MetricSatisfiable
<1>11. Close1(N, x) \in Matrix /\ Below(V, Close1(N, x))
  BY <1>1, <1>5, <1>8, Close1Above, Close1Type
<1>12. Close1(Close1(N, x), y) \in Matrix /\ Below(V, Close1(Close1(N, x), y))
  BY <1>5, <1>11, Close1Above, Close1Type
<1>13. IsSatisfiableWithoutCanonize(Close1(Close1(N, x), y))
  BY <1>5, <1>10, <1>12, SatisfiableMonotone DEF Below
<1> QED
  BY <1>13 DEF Tighten, N

(* The hull of two zones in canonical form is in canonical form.           *)
LEMMA UnionCanonical ==
    ASSUME NEW F \in Matrix, NEW E \in Matrix, Canonical(F), Canonical(E)
    PROVE  Canonical(ConvexUnion(F, E))
<1> DEFINE U == ConvexUnion(F, E)
<1>1. \A i, j \in Var : F[i][j] \in Bound /\ E[i][j] \in Bound
  BY DEF Matrix
<1>2. \A i, j \in Var : U[i][j] = Higher(F[i][j], E[i][j])
  BY DEF ConvexUnion
<1> HIDE DEF U
<1>3. \A i, j \in Var : /\ U[i][j] \in Bound /\ F[i][j] <= U[i][j] /\ E[i][j] <= U[i][j]
                        /\ U[i][j] = F[i][j] \/ U[i][j] = E[i][j]
  BY <1>1, <1>2 DEF Higher, Bound
<1> SUFFICES ASSUME NEW i \in Var, NEW j \in Var, NEW k \in Var, i # j
             PROVE  U[i][j] <= Add(U[i][k], U[k][j])
  BY DEF Canonical, U
<1>4. /\ F[i][j] <= Add(F[i][k], F[k][j]) /\ E[i][j] <= Add(E[i][k], E[k][j])
  BY DEF Canonical
<1>5. /\ Add(F[i][k], F[k][j]) <= Add(U[i][k], U[k][j])
      /\ Add(E[i][k], E[k][j]) <= Add(U[i][k], U[k][j])
  BY <1>1, <1>3, AddMonotone
<1>6. /\ Add(F[i][k], F[k][j]) \in Bound /\ Add(E[i][k], E[k][j]) \in Bound
      /\ Add(U[i][k], U[k][j]) \in Bound
  BY <1>1, <1>3, AddIsBound
<1> QED
  BY <1>1, <1>3, <1>4, <1>5, <1>6 DEF Bound

LEMMA MatrixEqual ==
    ASSUME NEW F \in Matrix, NEW E \in Matrix, \A i, j \in Var : F[i][j] = E[i][j]
    PROVE  F = E
<1>1. \A i \in Var : F[i] \in [Var -> Bound] /\ E[i] \in [Var -> Bound]
  BY DEF Matrix
<1>2. \A i \in Var : F[i] = E[i]
  BY <1>1
<1> QED
  BY <1>2 DEF Matrix

(* Closing changes nothing when no path through the variable is shorter.   *)
LEMMA Close1Fixed ==
    ASSUME NEW F \in Matrix, NEW x \in Var, F[x][x] >= Le(0),
           \A i, j \in Var : F[i][j] <= Add(F[i][x], F[x][j])
    PROVE  Close1(F, x) = F
<1>1. Close1(F, x) \in Matrix
  BY Close1Type
<1>2. ASSUME NEW i \in Var, NEW j \in Var PROVE Close1(F, x)[i][j] = F[i][j]
  <2>1. Close1(F, x)[i][j] = Lower(F[i][j], Add(F[i][x], F[x][j]))
    BY Close1Min
  <2>2. /\ F[i][j] \in Bound /\ Add(F[i][x], F[x][j]) \in Bound
        /\ F[i][j] <= Add(F[i][x], F[x][j])
    BY AddIsBound DEF Matrix
  <2> QED
    BY <2>1, <2>2 DEF Lower, Bound
<1> QED
  BY <1>1, <1>2, MatrixEqual

(* A bound that has been added is not added again: the diagonal, which the *)
(* canonical form leaves open, has been closed through both variables too. *)
THEOREM TightenTwice ==
    ASSUME NEW E \in Matrix, Canonical(E), NEW x \in Var, NEW y \in Var, x # y,
           NEW b \in Bound, NEW limit \in Nat, 8 * limit < Infinity, AllWithin(E, limit),
           b <= limit, IsSatisfiableWithoutCanonize(Tighten(E, x, y, b)),
           AllWithin(Tighten(E, x, y, b), limit)
    PROVE  Tighten(Tighten(E, x, y, b), x, y, b) = Tighten(E, x, y, b)
<1> DEFINE N == TightenWithoutClose(E, x, y, b)
           P == Close1(N, x)
           Q == Close1(P, y)
<1>1. N \in Matrix
  BY TightenWithoutCloseIs
<1>2. Tighten(E, x, y, b) = Q
  BY DEF Tighten
<1>3. Q \in Matrix /\ Q[x][y] <= b
  BY <1>2, TightenShortens
<1>4. Canonical(Q) /\ IsSatisfiableWithoutCanonize(Q) /\ AllWithin(Q, limit)
  BY <1>2, TightenCanonical
<1> HIDE DEF N
<1>5. P \in Matrix /\ \A i, j \in Var : P[i][j] <= N[i][j]
  BY <1>1, Close1Type, Close1Entry
<1> HIDE DEF P
<1>6. \A i, j \in Var : Q[i][j] <= P[i][j]
  BY <1>5, Close1Entry
<1> HIDE DEF Q
<1>7. IsSatisfiableWithoutCanonize(P)
  BY <1>3, <1>4, <1>5, <1>6, SatisfiableMonotone
<1>8. IsSatisfiableWithoutCanonize(N)
  BY <1>1, <1>5, <1>7, SatisfiableMonotone
<1>9. \A i \in Var : N[i][i] >= Le(0) /\ P[i][i] >= Le(0) /\ Q[i][i] >= Le(0)
  BY <1>1, <1>3, <1>4, <1>5, <1>7, <1>8, SatisfiableDiagonal
<1>10. \A i, j \in Var : P[i][j] = Lower(N[i][j], Add(N[i][x], N[x][j]))
  BY <1>1, <1>9, Close1Min DEF P
<1>11. \A i, j \in Var : Q[i][j] = Lower(P[i][j], Add(P[i][y], P[y][j]))
  BY <1>5, <1>9, Close1Min DEF Q
<1>12. \A i, j \in Var : N[i][j] \in Bound /\ P[i][j] \in Bound /\ Q[i][j] \in Bound
  BY <1>1, <1>3, <1>5 DEF Matrix
<1>13. \A i, j, k \in Var : /\ Add(N[i][j], N[j][k]) \in Bound
                            /\ Add(P[i][j], P[j][k]) \in Bound
                            /\ Add(Q[i][j], Q[j][k]) \in Bound
  BY <1>12, AddIsBound
\* the rows and columns that are closed through are not changed by it
<1>14. ASSUME NEW i \in Var PROVE P[i][x] = N[i][x] /\ P[x][i] = N[x][i]
  <2>1. N[i][x] <= Add(N[i][x], N[x][x]) /\ N[x][i] <= Add(N[x][x], N[x][i])
    BY <1>9, <1>12, AddNonNegative
  <2> QED
    BY <1>10, <1>12, <1>13, <2>1 DEF Lower, Bound
<1>15. ASSUME NEW i \in Var PROVE Q[i][y] = P[i][y] /\ Q[y][i] = P[y][i]
  <2>1. P[i][y] <= Add(P[i][y], P[y][y]) /\ P[y][i] <= Add(P[y][y], P[y][i])
    BY <1>9, <1>12, AddNonNegative
  <2> QED
    BY <1>11, <1>12, <1>13, <2>1 DEF Lower, Bound
<1>16. ASSUME NEW i \in Var PROVE Q[i][i] <= Add(Q[i][y], Q[y][i])
  BY <1>11, <1>12, <1>13, <1>15 DEF Lower, Bound
<1>17. ASSUME NEW i \in Var PROVE P[i][i] <= Add(P[i][x], P[x][i])
  BY <1>10, <1>12, <1>13, <1>14 DEF Lower, Bound
<1>18. ASSUME NEW i \in Var PROVE Q[i][i] <= Add(Q[i][x], Q[x][i])
  <2>1. Q[i][i] <= P[i][i] /\ P[i][i] <= Add(P[i][x], P[x][i])
    BY <1>6, <1>17
  <2>2. CASE Q[i][x] = P[i][x] /\ Q[x][i] = P[x][i]
    BY <1>12, <1>13, <2>1, <2>2 DEF Bound
  <2>3. CASE i = x
    BY <1>9, <1>12, <2>3, AddNonNegative
  <2>4. CASE i = y
    BY <1>15, <2>2, <2>4
  <2>5. CASE i # y /\ Q[i][x] # P[i][x]
    <3>1. Q[i][x] = Add(Q[i][y], Q[y][x])
      BY <1>11, <1>15, <2>5 DEF Lower
    <3>2. Add(Add(Q[i][y], Q[y][x]), Q[x][i]) = Add(Q[i][y], Add(Q[y][x], Q[x][i]))
      <4>1. 2 * limit < Infinity
        BY DBMAssumption
      <4> QED
        BY <1>4, <1>12, <4>1, AddAssociative DEF AllWithin
    <3>3. Add(Q[i][y], Q[y][i]) <= Add(Q[i][y], Add(Q[y][x], Q[x][i]))
      <4>1. Q[y][i] <= Add(Q[y][x], Q[x][i])
        BY <1>4, <2>5 DEF Canonical
      <4>2. Q[i][y] <= Q[i][y]
        BY <1>12 DEF Bound
      <4> QED
        BY <1>12, <1>13, <4>1, <4>2, AddMonotone
    <3>4. Add(Q[i][x], Q[x][i]) = Add(Q[i][y], Add(Q[y][x], Q[x][i]))
      BY <3>1, <3>2
    <3> QED
      BY <1>12, <1>13, <1>16, <3>3, <3>4 DEF Bound
  <2>6. CASE i # y /\ Q[x][i] # P[x][i]
    <3>1. Q[x][i] = Add(Q[x][y], Q[y][i])
      BY <1>11, <1>15, <2>6 DEF Lower
    <3>2. Add(Add(Q[i][x], Q[x][y]), Q[y][i]) = Add(Q[i][x], Add(Q[x][y], Q[y][i]))
      <4>1. 2 * limit < Infinity
        BY DBMAssumption
      <4> QED
        BY <1>4, <1>12, <4>1, AddAssociative DEF AllWithin
    <3>3. Add(Q[i][y], Q[y][i]) <= Add(Add(Q[i][x], Q[x][y]), Q[y][i])
      <4>1. Q[i][y] <= Add(Q[i][x], Q[x][y])
        BY <1>4, <2>6 DEF Canonical
      <4>2. Q[y][i] <= Q[y][i]
        BY <1>12 DEF Bound
      <4> QED
        BY <1>12, <1>13, <4>1, <4>2, AddMonotone
    <3>4. Add(Q[i][x], Q[x][i]) = Add(Add(Q[i][x], Q[x][y]), Q[y][i])
      BY <3>1, <3>2
    <3> QED
      BY <1>12, <1>13, <1>16, <3>3, <3>4 DEF Bound
  <2> QED
    BY <2>2, <2>3, <2>4, <2>5, <2>6
<1>19. \A i, j \in Var : /\ Q[i][j] <= Add(Q[i][x], Q[x][j])
                         /\ Q[i][j] <= Add(Q[i][y], Q[y][j])
  BY <1>4, <1>16, <1>18 DEF Canonical
<1>20. TightenWithoutClose(Q, x, y, b) = Q
  <2>1. /\ TightenWithoutClose(Q, x, y, b) \in Matrix
        /\ \A i, j \in Var : TightenWithoutClose(Q, x, y, b)[i][j] =
                               IF i = x /\ j = y THEN Lower(Q[x][y], b) ELSE Q[i][j]
    BY <1>3, TightenWithoutCloseIs
  <2>2. Lower(Q[x][y], b) = Q[x][y]
    BY <1>3, <1>12 DEF Lower, Bound
  <2> QED
    BY <1>3, <2>1, <2>2, MatrixEqual
<1>21. Close1(Q, x) = Q /\ Close1(Q, y) = Q
  BY <1>3, <1>9, <1>19, Close1Fixed
<1>22. Tighten(Q, x, y, b) = Q
  BY <1>20, <1>21 DEF Tighten
<1> QED
  BY <1>2, <1>22

-----------------------------------------------------------------------------
(* The entry (0, 0), which the key of a configuration leaves out: while it *)
(* is not negative no operation lets it have an influence on another entry *)
(* or on satisfiability.                                                   *)

Alike(F, E) == SameZone(F, E) /\ F[0][0] >= Le(0) /\ E[0][0] >= Le(0)

AlikeOrEqual(F, E) == F = E \/ Alike(F, E)

LEMMA Close1Alike ==
    ASSUME NEW F \in Matrix, NEW E \in Matrix, AlikeOrEqual(F, E), NEW x \in Var
    PROVE  AlikeOrEqual(Close1(F, x), Close1(E, x))
<1> SUFFICES ASSUME Alike(F, E) PROVE AlikeOrEqual(Close1(F, x), Close1(E, x))
  BY DEF AlikeOrEqual
<1> DEFINE P == Close1(F, x)
           Q == Close1(E, x)
<1>1. /\ P \in Matrix /\ Q \in Matrix /\ 0 \in Var /\ Le(0) \in Int
      /\ \A i, j \in Var : F[i][j] \in Bound /\ E[i][j] \in Bound
  BY Close1Type, VarFacts DEF Matrix, Le
<1>2. /\ \A i, j \in Var : <<i, j>> # <<0, 0>> => F[i][j] = E[i][j]
      /\ F[0][0] >= Le(0) /\ E[0][0] >= Le(0)
  BY DEF Alike, SameZone
<1>3. CASE x # 0
  <2>1. ASSUME NEW i \in Var, NEW j \in Var, <<i, j>> # <<0, 0>> PROVE P[i][j] = Q[i][j]
    <3>1. <<i, x>> # <<0, 0>> /\ <<x, j>> # <<0, 0>> /\ <<x, x>> # <<0, 0>>
      BY <1>3
    <3>2. F[i][j] = E[i][j] /\ F[i][x] = E[i][x] /\ F[x][j] = E[x][j] /\ F[x][x] = E[x][x]
      BY <1>2, <2>1, <3>1
    <3> QED
      BY <3>2, Close1At
  <2> DEFINE s == Add(F[0][x], F[x][0])
  <2>2. P[0][0] = Lower(F[0][0], s) /\ Q[0][0] = Lower(E[0][0], s)
    <3>1. ~ (0 > x)
      BY <1>3 DEF Var
    <3>2. <<0, x>> # <<0, 0>> /\ <<x, 0>> # <<0, 0>>
      BY <1>3
    <3>3. F[0][x] = E[0][x] /\ F[x][0] = E[x][0]
      BY <1>1, <1>2, <3>2
    <3> QED
      BY <1>1, <3>1, <3>3, Close1At
  <2>3. s \in Bound
    BY <1>1, AddIsBound
  <2> HIDE DEF s
  <2>4. P[0][0] = Q[0][0] \/ (P[0][0] >= Le(0) /\ Q[0][0] >= Le(0))
    BY <1>1, <1>2, <2>2, <2>3 DEF Lower, Bound
  <2>5. CASE P[0][0] = Q[0][0]
    <3>1. ASSUME NEW i \in Var, NEW j \in Var PROVE P[i][j] = Q[i][j]
      BY <2>1, <2>5
    <3> HIDE DEF P, Q
    <3>2. P = Q
      BY <1>1, <3>1, MatrixEqual
    <3> QED
      BY <3>2 DEF P, Q, AlikeOrEqual
  <2>6. CASE P[0][0] >= Le(0) /\ Q[0][0] >= Le(0)
    BY <2>1, <2>6 DEF AlikeOrEqual, Alike, SameZone
  <2> QED
    BY <2>4, <2>5, <2>6
<1>4. CASE x = 0
  <2>1. \A i, j \in Var : /\ P[i][j] = Lower(F[i][j], Add(F[i][0], F[0][j]))
                          /\ Q[i][j] = Lower(E[i][j], Add(E[i][0], E[0][j]))
    BY <1>1, <1>2, <1>4, Close1Min
  <2>2. ASSUME NEW j \in Var
        PROVE  /\ Add(F[0][0], F[0][j]) >= F[0][j] /\ Add(F[j][0], F[0][0]) >= F[j][0]
               /\ Add(E[0][0], E[0][j]) >= E[0][j] /\ Add(E[j][0], E[0][0]) >= E[j][0]
    <3>1. /\ F[0][j] <= Add(F[0][0], F[0][j]) /\ F[j][0] <= Add(F[j][0], F[0][0])
          /\ E[0][j] <= Add(E[0][0], E[0][j]) /\ E[j][0] <= Add(E[j][0], E[0][0])
      BY <1>1, <1>2, AddNonNegative
    <3>2. /\ Add(F[0][0], F[0][j]) \in Bound /\ Add(F[j][0], F[0][0]) \in Bound
          /\ Add(E[0][0], E[0][j]) \in Bound /\ Add(E[j][0], E[0][0]) \in Bound
      BY <1>1, AddIsBound
    <3>3. F[0][j] \in Bound /\ F[j][0] \in Bound /\ E[0][j] \in Bound /\ E[j][0] \in Bound
      BY <1>1
    <3> QED
      BY <3>1, <3>2, <3>3 DEF Bound
  <2>3. ASSUME NEW j \in Var
        PROVE  P[0][j] = F[0][j] /\ P[j][0] = F[j][0] /\ Q[0][j] = E[0][j] /\ Q[j][0] = E[j][0]
    <3>1. /\ F[0][j] \in Bound /\ F[j][0] \in Bound /\ E[0][j] \in Bound /\ E[j][0] \in Bound
          /\ Add(F[0][0], F[0][j]) \in Bound /\ Add(F[j][0], F[0][0]) \in Bound
          /\ Add(E[0][0], E[0][j]) \in Bound /\ Add(E[j][0], E[0][0]) \in Bound
      BY <1>1, AddIsBound
    <3> QED
      BY <1>1, <2>1, <2>2, <3>1 DEF Lower, Bound
  <2>4. ASSUME NEW i \in Var, NEW j \in Var, <<i, j>> # <<0, 0>> PROVE P[i][j] = Q[i][j]
    <3>1. CASE i = 0 \/ j = 0
      BY <1>2, <2>3, <2>4, <3>1
    <3>2. CASE i # 0 /\ j # 0
      <4>1. <<i, 0>> # <<0, 0>> /\ <<0, j>> # <<0, 0>>
        BY <3>2
      <4>2. F[i][j] = E[i][j] /\ F[i][0] = E[i][0] /\ F[0][j] = E[0][j]
        BY <1>1, <1>2, <2>4, <4>1
      <4> QED
        BY <2>1, <4>2
    <3> QED
      BY <3>1, <3>2
  <2>5. P[0][0] >= Le(0) /\ Q[0][0] >= Le(0)
    BY <1>1, <1>2, <2>3
  <2> QED
    BY <2>4, <2>5 DEF AlikeOrEqual, Alike, SameZone
<1> QED
  BY <1>3, <1>4

LEMMA TightenAlike ==
    ASSUME NEW F \in Matrix, NEW E \in Matrix, AlikeOrEqual(F, E),
           NEW x \in Var, NEW y \in Var, <<x, y>> # <<0, 0>>, NEW b \in Bound
    PROVE  AlikeOrEqual(Tighten(F, x, y, b), Tighten(E, x, y, b))
<1> DEFINE P == TightenWithoutClose(F, x, y, b)
           Q == TightenWithoutClose(E, x, y, b)
<1>1. /\ P \in Matrix /\ Q \in Matrix
      /\ \A i, j \in Var : /\ P[i][j] = IF i = x /\ j = y THEN Lower(F[x][y], b) ELSE F[i][j]
                           /\ Q[i][j] = IF i = x /\ j = y THEN Lower(E[x][y], b) ELSE E[i][j]
  BY TightenWithoutCloseIs
<1>2. AlikeOrEqual(P, Q)
  <2>1. CASE F = E
    BY <2>1 DEF AlikeOrEqual
  <2>2. CASE Alike(F, E)
    <3>1. /\ \A i, j \in Var : <<i, j>> # <<0, 0>> => F[i][j] = E[i][j]
          /\ F[0][0] >= Le(0) /\ E[0][0] >= Le(0)
      BY <2>2 DEF Alike, SameZone
    <3>2. F[x][y] = E[x][y]
      BY <3>1
    <3>3. \A i, j \in Var : <<i, j>> # <<0, 0>> => P[i][j] = Q[i][j]
      BY <1>1, <3>1, <3>2
    <3>4. P[0][0] = F[0][0] /\ Q[0][0] = E[0][0]
      BY <1>1, VarFacts
    <3> QED
      BY <3>1, <3>3, <3>4 DEF AlikeOrEqual, Alike, SameZone
  <2> QED
    BY <2>1, <2>2 DEF AlikeOrEqual
<1> HIDE DEF P, Q
<1>3. AlikeOrEqual(Close1(P, x), Close1(Q, x)) /\ Close1(P, x) \in Matrix /\ Close1(Q, x) \in Matrix
  BY <1>1, <1>2, Close1Alike, Close1Type
<1>4. AlikeOrEqual(Close1(Close1(P, x), y), Close1(Close1(Q, x), y))
  BY <1>3, Close1Alike
<1> QED
  BY <1>4 DEF Tighten, P, Q

LEMMA CanonizeAlike ==
    ASSUME NEW F \in Matrix, NEW E \in Matrix, AlikeOrEqual(F, E)
    PROVE  AlikeOrEqual(Canonize(F), Canonize(E))
<1>1. PICK c : ClosedUpTo(c, F, Dim + 1) /\ Canonize(F) = c[Dim + 1]
  BY CanonizeRuns
<1>2. PICK d : ClosedUpTo(d, E, Dim + 1) /\ Canonize(E) = d[Dim + 1]
  BY CanonizeRuns
<1> DEFINE Kept == {k \in 0 .. Dim + 1 : AlikeOrEqual(c[k], d[k])}
<1>3. Dim + 1 \in Nat /\ Dim + 1 \in 0 .. Dim + 1 /\ 0 \in 0 .. Dim + 1
  BY DBMAssumption
<1>4. 0 \in Kept
  <2>1. c[0] = F /\ d[0] = E
    BY <1>1, <1>2, <1>3 DEF ClosedUpTo
  <2> QED
    BY <1>3, <2>1
<1>5. ASSUME NEW k \in 0 .. (Dim + 1) - 1, k \in Kept PROVE k + 1 \in Kept
  <2>1. k + 1 \in 0 .. Dim + 1 /\ k \in Var /\ k \in 0 .. Dim + 1 /\ k + 1 # 0 /\ (k + 1) - 1 = k
    <3> HIDE DEF Kept
    <3> QED
      BY DBMAssumption DEF Var
  <2>2. c[k + 1] = Close1(c[k], k) /\ d[k + 1] = Close1(d[k], k)
    BY <1>1, <1>2, <2>1 DEF ClosedUpTo
  <2>3. c[k] \in Matrix /\ d[k] \in Matrix
    BY <1>1, <1>2, <2>1, ClosedEntries
  <2>4. AlikeOrEqual(c[k], d[k])
    BY <1>5
  <2>5. AlikeOrEqual(c[k + 1], d[k + 1])
    BY <2>1, <2>2, <2>3, <2>4, Close1Alike
  <2> QED
    BY <2>1, <2>5
<1>6. \A k \in 0 .. Dim + 1 : k \in Kept
  <2> HIDE DEF Kept
  <2> QED
    BY <1>3, <1>4, <1>5, InductionUpTo
<1> QED
  BY <1>1, <1>2, <1>3, <1>6

LEMMA SatisfiableAlike ==
    ASSUME NEW F \in Matrix, NEW E \in Matrix, AlikeOrEqual(F, E),
           IsSatisfiableWithoutCanonize(F)
    PROVE  IsSatisfiableWithoutCanonize(E)
<1> SUFFICES ASSUME Alike(F, E), NEW i \in Var, NEW j \in Var
             PROVE  Add(E[i][j], E[j][i]) >= Le(0)
  BY DEF AlikeOrEqual, IsSatisfiableWithoutCanonize
<1>1. CASE <<i, j>> # <<0, 0>>
  <2>1. <<j, i>> # <<0, 0>>
    BY <1>1
  <2>2. F[i][j] = E[i][j] /\ F[j][i] = E[j][i]
    BY <1>1, <2>1 DEF Alike, SameZone
  <2> QED
    BY <2>2 DEF IsSatisfiableWithoutCanonize
<1>2. CASE i = 0 /\ j = 0
  <2>1. E[0][0] \in Bound /\ E[0][0] >= Le(0)
    BY <1>2 DEF Matrix, Alike
  <2> QED
    BY <1>2, <2>1, DBMAssumption DEF Add, Bound, Le
<1> QED
  BY <1>1, <1>2

LEMMA ElapseAlike ==
    ASSUME NEW F \in Matrix, NEW E \in Matrix, AlikeOrEqual(F, E)
    PROVE  Elapse(F) = Elapse(E)
<1> SUFFICES ASSUME Alike(F, E) PROVE Elapse(F) = Elapse(E)
  BY DEF AlikeOrEqual
<1>1. /\ Elapse(F) \in Matrix /\ Elapse(E) \in Matrix
      /\ \A i, j \in Var :
            /\ Elapse(F)[i][j] =
                 IF j = 0 THEN Infinity ELSE IF i = 0 THEN Strict(F[0][j]) ELSE F[i][j]
            /\ Elapse(E)[i][j] =
                 IF j = 0 THEN Infinity ELSE IF i = 0 THEN Strict(E[0][j]) ELSE E[i][j]
  BY ElapseIs
<1>2. ASSUME NEW i \in Var, NEW j \in Var, j # 0 PROVE F[i][j] = E[i][j]
  <2>1. <<i, j>> # <<0, 0>>
    BY <1>2
  <2> QED
    BY <2>1 DEF Alike, SameZone
<1>3. \A i, j \in Var : Elapse(F)[i][j] = Elapse(E)[i][j]
  BY <1>1, <1>2, VarFacts
<1> QED
  BY <1>1, <1>3, MatrixEqual

-----------------------------------------------------------------------------
(* Constraints *)

Constraint == [x : Var \ {0}, odr : Orders, c : Int]

(* A guard as the reader produces it: finitely many constraints, with      *)
(* constants that a bound can hold.                                        *)
IsGuard(guard) ==
    /\ guard \subseteq Constraint /\ IsFiniteSet(guard)
    /\ \A c \in guard : BoundOf(c) < Infinity

-----------------------------------------------------------------------------
(* Guards *)

LEMMA MinIs ==
    ASSUME NEW S, S \subseteq Int, IsFiniteSet(S), S # {}
    PROVE  Min(S) \in S /\ \A m \in S : Min(S) <= m
  BY LeastOfFinite DEF Min

(* A constraint says of a valuation what its bound says of its entry.      *)
LEMMA ConstraintIsBound ==
    ASSUME NEW c \in Constraint, BoundOf(c) < Infinity, NEW v \in Valuation, v[0] = 0,
           NEW i \in Var, NEW j \in Var, Entry(c) = <<i, j>>
    PROVE  BoundOf(c) \in Bound /\ (Satisfy(c, v[c.x]) <=> Holds(v[i] - v[j], BoundOf(c)))
<1>1. c.x \in Var /\ c.odr \in Orders /\ c.c \in Int
  BY DEF Constraint
<1>2. v[c.x] \in Int /\ v[0] = 0
  BY <1>1 DEF Valuation
<1>3. CASE c.odr = "lt"
  <2>1. i = c.x /\ j = 0 /\ BoundOf(c) = 2 * c.c /\ (Satisfy(c, v[c.x]) <=> v[c.x] < c.c)
    BY <1>3 DEF Entry, BoundOf, Satisfy, Lt
  <2>2. Holds(v[i] - v[j], BoundOf(c)) <=> v[c.x] < c.c
    BY <1>1, <1>2, <2>1 DEF Holds
  <2>3. BoundOf(c) \in Bound
    BY <1>1, <2>1, DBMAssumption DEF Bound
  <2> QED
    BY Zenon, <2>1, <2>2, <2>3
<1>4. CASE c.odr = "le"
  <2>1. i = c.x /\ j = 0 /\ BoundOf(c) = 2 * c.c + 1 /\ (Satisfy(c, v[c.x]) <=> v[c.x] <= c.c)
    BY <1>4 DEF Entry, BoundOf, Satisfy, Le
  <2>2. Holds(v[i] - v[j], BoundOf(c)) <=> v[c.x] <= c.c
    BY <1>1, <1>2, <2>1 DEF Holds
  <2>3. BoundOf(c) \in Bound
    BY <1>1, <2>1, DBMAssumption DEF Bound
  <2> QED
    BY Zenon, <2>1, <2>2, <2>3
<1>5. CASE c.odr = "gt"
  <2>1. i = 0 /\ j = c.x /\ BoundOf(c) = 2 * (- c.c) /\ (Satisfy(c, v[c.x]) <=> v[c.x] > c.c)
    BY <1>5 DEF Entry, BoundOf, Satisfy, Lt
  <2>2. Holds(v[i] - v[j], BoundOf(c)) <=> v[c.x] > c.c
    BY <1>1, <1>2, <2>1 DEF Holds
  <2>3. BoundOf(c) \in Bound
    BY <1>1, <2>1, DBMAssumption DEF Bound
  <2> QED
    BY Zenon, <2>1, <2>2, <2>3
<1>6. CASE c.odr = "ge"
  <2>1. i = 0 /\ j = c.x /\ BoundOf(c) = 2 * (- c.c) + 1 /\ (Satisfy(c, v[c.x]) <=> v[c.x] >= c.c)
    BY <1>6 DEF Entry, BoundOf, Satisfy, Le
  <2>2. Holds(v[i] - v[j], BoundOf(c)) <=> v[c.x] >= c.c
    BY <1>1, <1>2, <2>1 DEF Holds
  <2>3. BoundOf(c) \in Bound
    BY <1>1, <2>1, DBMAssumption DEF Bound
  <2> QED
    BY Zenon, <2>1, <2>2, <2>3
<1> QED
  BY <1>1, <1>3, <1>4, <1>5, <1>6 DEF Orders

(* The bounds a guard puts on one entry, with the bound that is there.     *)
Bounds(Z, guard, i, j) ==
    {Z[i][j]} \cup {BoundOf(c) : c \in {d \in guard : Entry(d) = <<i, j>>}}

LEMMA LeastBound ==
    ASSUME NEW Z \in Matrix, NEW guard, IsGuard(guard), NEW i \in Var, NEW j \in Var
    PROVE  /\ Bounds(Z, guard, i, j) \subseteq Bound
           /\ Guarded(Z, guard)[i][j] \in Bounds(Z, guard, i, j)
           /\ \A b \in Bounds(Z, guard, i, j) : Guarded(Z, guard)[i][j] <= b
<1> DEFINE G == {d \in guard : Entry(d) = <<i, j>>}
           Image == {BoundOf(c) : c \in G}
           f == [c \in G |-> BoundOf(c)]
<1>1. IsFiniteSet(Image)
  <2>1. IsFiniteSet(G)
    BY FS_Subset DEF IsGuard
  <2>2. f \in Surjection(G, Image)
    BY DEF Surjection
  <2> HIDE DEF G, f, Image
  <2> QED
    BY <2>1, <2>2, FS_Surjection
<1>2. Bounds(Z, guard, i, j) = Image \cup {Z[i][j]}
  BY DEF Bounds
<1>3. Bounds(Z, guard, i, j) \subseteq Bound
  <2>1. Z[i][j] \in Bound
    BY DEF Matrix
  <2>2. ASSUME NEW c \in G PROVE BoundOf(c) \in Bound
    <3>1. c \in Constraint /\ BoundOf(c) < Infinity
      BY DEF IsGuard
    <3>2. PICK v : v = [x \in Var |-> 0]
      OBVIOUS
    <3>3. v \in Valuation /\ v[0] = 0
      BY <3>2, VarFacts DEF Valuation
    <3> QED
      BY <3>1, <3>3, ConstraintIsBound
  <2> QED
    BY <1>2, <2>1, <2>2
<1>4. IsFiniteSet(Bounds(Z, guard, i, j))
  <2> HIDE DEF Image
  <2> QED
    BY <1>1, <1>2, FS_AddElement
<1>5. Guarded(Z, guard)[i][j] = Min(Bounds(Z, guard, i, j))
  BY EvaluatedIs DEF Guarded, Bounds
<1>6. Bounds(Z, guard, i, j) \subseteq Int /\ Bounds(Z, guard, i, j) # {}
  BY <1>2, <1>3 DEF Bound
<1> QED
  BY <1>3, <1>4, <1>5, <1>6, MinIs

(* A guard cuts a zone down to exactly the valuations that meet it, and    *)
(* makes no bound weaker.                                                  *)
THEOREM GuardedExact ==
    ASSUME NEW Z \in Matrix, NEW guard, IsGuard(guard)
    PROVE  /\ Guarded(Z, guard) \in Matrix
           /\ \A i, j \in Var : Guarded(Z, guard)[i][j] <= Z[i][j]
           /\ \A v \in Valuation :
                v[0] = 0 => (Sat(v, Guarded(Z, guard)) <=> Sat(v, Z) /\ Meets(v, guard))
<1> DEFINE N == Guarded(Z, guard)
<1>1. N \in Matrix
  <2>1. \A i, j \in Var : N[i][j] \in Bound
    BY LeastBound
  <2>2. N = [i \in Var |-> [j \in Var |-> Min(Bounds(Z, guard, i, j))]]
    BY EvaluatedIs DEF Guarded, Bounds
  <2>3. \A i, j \in Var : Min(Bounds(Z, guard, i, j)) \in Bound
    BY <2>1, <2>2
  <2> QED
    BY <2>2, <2>3 DEF Matrix
<1>2. \A i, j \in Var : Z[i][j] \in Bounds(Z, guard, i, j)
  BY DEF Bounds
<1>3. \A i, j \in Var : N[i][j] <= Z[i][j]
  BY <1>2, LeastBound
<1>4. ASSUME NEW v \in Valuation, v[0] = 0
      PROVE  Sat(v, N) <=> Sat(v, Z) /\ Meets(v, guard)
  <2>1. \A i, j \in Var : /\ N[i][j] \in Bound /\ Z[i][j] \in Bound
                          /\ v[i] - v[j] \in Int
    BY <1>1 DEF Matrix, Valuation
  <2>2. Sat(v, N) => Sat(v, Z)
    BY <1>3, <2>1, HoldsMonotone DEF Sat
  <2>3. ASSUME Sat(v, N), NEW c \in guard PROVE Satisfy(c, v[c.x])
    <3>1. c \in Constraint /\ BoundOf(c) < Infinity
      BY DEF IsGuard
    <3>2. PICK i \in Var, j \in Var : Entry(c) = <<i, j>>
      BY <3>1, VarFacts DEF Entry, Constraint
    <3>3. BoundOf(c) \in Bounds(Z, guard, i, j)
      BY <3>2 DEF Bounds
    <3>4. N[i][j] <= BoundOf(c) /\ BoundOf(c) \in Bound
      BY <3>3, LeastBound
    <3>5. Holds(v[i] - v[j], N[i][j])
      BY <2>3 DEF Sat
    <3>6. Holds(v[i] - v[j], BoundOf(c))
      BY <2>1, <3>4, <3>5, HoldsMonotone
    <3> QED
      BY <1>4, <3>1, <3>2, <3>6, ConstraintIsBound
  <2>4. ASSUME Sat(v, Z), Meets(v, guard), NEW i \in Var, NEW j \in Var
        PROVE  Holds(v[i] - v[j], N[i][j])
    <3>1. CASE N[i][j] = Z[i][j]
      BY <2>4, <3>1 DEF Sat
    <3>2. CASE N[i][j] # Z[i][j]
      <4>1. PICK c \in guard : Entry(c) = <<i, j>> /\ N[i][j] = BoundOf(c)
        <5>1. N[i][j] \in Bounds(Z, guard, i, j)
          BY LeastBound
        <5> HIDE DEF N
        <5> QED
          BY <3>2, <5>1 DEF Bounds
      <4>2. c \in Constraint /\ BoundOf(c) < Infinity /\ Satisfy(c, v[c.x])
        BY <2>4 DEF IsGuard, Meets
      <4> HIDE DEF N
      <4> QED
        BY <1>4, <4>1, <4>2, ConstraintIsBound
    <3> QED
      BY <3>1, <3>2
  <2> QED
    BY <2>2, <2>3, <2>4 DEF Sat, Meets
<1> QED
  BY <1>1, <1>3, <1>4

-----------------------------------------------------------------------------
(* Resets, one clock after the other *)

AfterResets(after, Z, xs) ==
    \A x \in 0 .. Dim :
        after[x] = IF x = 0 THEN Z
                   ELSE IF x \in xs THEN Reset(after[x - 1], x) ELSE after[x - 1]

LEMMA ResetAllRuns ==
    ASSUME NEW Z \in Matrix, NEW xs
    PROVE  \E after : AfterResets(after, Z, xs) /\ ResetAll(Z, xs) = after[Dim]
<1> DEFINE Resetting(f) ==
             f = [x \in 0 .. Dim |->
                    IF x = 0 THEN Z ELSE IF x \in xs THEN Reset(f[x - 1], x) ELSE f[x - 1]]
           step == [x \in 1 .. Dim |-> [M \in Matrix |-> IF x \in xs THEN Reset(M, x) ELSE M]]
<1>1. Dim \in Nat /\ \A x \in 1 .. Dim : x \in Var
  BY DBMAssumption DEF Var
<1>2. step \in [1 .. Dim -> [Matrix -> Matrix]]
  BY <1>1, ResetShortens
<1>3. PICK f \in [0 .. Dim -> Matrix] :
         \A x \in 0 .. Dim : f[x] = IF x = 0 THEN Z ELSE step[x][f[x - 1]]
  <2>1. Iterates(Dim, Matrix, Z, step) # {}
    <3> HIDE DEF step
    <3> QED
      BY <1>1, <1>2, RecursionExists
  <2> HIDE DEF step
  <2> QED
    BY <2>1 DEF Iterates
<1>4. ASSUME NEW x \in 0 .. Dim
      PROVE  f[x] = IF x = 0 THEN Z
                    ELSE IF x \in xs THEN Reset(f[x - 1], x) ELSE f[x - 1]
  <2>1. f[x] = IF x = 0 THEN Z ELSE step[x][f[x - 1]]
    <3> HIDE DEF step
    <3> QED
      BY <1>3
  <2>2. x # 0 => x \in 1 .. Dim /\ f[x - 1] \in Matrix
    BY <1>1
  <2> QED
    BY <2>1, <2>2
<1>5. Resetting(f)
  BY <1>4
<1> DEFINE reset == CHOOSE g : Resetting(g)
<1>6. Resetting(reset)
  BY <1>5
<1>7. ResetAll(Z, xs) = reset[Dim]
  BY Zenon DEF ResetAll
<1>8. AfterResets(reset, Z, xs)
  <2> HIDE DEF reset
  <2> QED
    BY <1>6 DEF AfterResets
<1> QED
  BY <1>7, <1>8

(* What every single reset preserves, all of them do.                      *)
LEMMA ResetAllPreserves ==
    ASSUME NEW S, S \subseteq Matrix, NEW Z \in S, NEW xs,
           \A M \in S : \A x \in xs \cap (Var \ {0}) : Reset(M, x) \in S
    PROVE  ResetAll(Z, xs) \in S
<1>1. PICK after : AfterResets(after, Z, xs) /\ ResetAll(Z, xs) = after[Dim]
  BY ResetAllRuns
<1> DEFINE Kept == {x \in 0 .. Dim : after[x] \in S}
<1>0. Dim \in Nat
  BY DBMAssumption
<1>2. 0 \in Kept
  BY <1>0, <1>1 DEF AfterResets
<1>3. ASSUME NEW x \in 0 .. Dim - 1, x \in Kept PROVE x + 1 \in Kept
  <2>1. x + 1 \in 0 .. Dim /\ x + 1 \in Var \ {0} /\ (x + 1) - 1 = x
    BY <1>0 DEF Var
  <2>2. after[x + 1] = IF x + 1 \in xs THEN Reset(after[x], x + 1) ELSE after[x]
    BY <1>1, <2>1 DEF AfterResets
  <2> QED
    BY <1>3, <2>1, <2>2
<1>4. \A x \in 0 .. Dim : x \in Kept
  <2> HIDE DEF Kept
  <2> QED
    BY <1>0, <1>2, <1>3, InductionUpTo
<1> QED
  BY <1>0, <1>1, <1>4

(* The resets of a transition move every valuation of the zone into the    *)
(* zone that is left.                                                      *)
THEOREM ResetAllSound ==
    ASSUME NEW Z \in Matrix, NEW xs, xs \subseteq Var \ {0},
           NEW v \in Valuation, v[0] = 0, Sat(v, Z)
    PROVE  ResetAll(Z, xs) \in Matrix /\ Sat(ResetPoint(v, xs), ResetAll(Z, xs))
<1>1. PICK after : AfterResets(after, Z, xs) /\ ResetAll(Z, xs) = after[Dim]
  BY ResetAllRuns
<1> DEFINE Done(x) == ResetPoint(v, {y \in xs : y <= x})
           Moved == {x \in 0 .. Dim : /\ after[x] \in Matrix
                                      /\ Done(x) \in Valuation /\ Done(x)[0] = 0
                                      /\ Sat(Done(x), after[x])}
<1>0. Dim \in Nat /\ \A y \in Var : y \in Int
  BY DBMAssumption DEF Var
<1>2. 0 \in Moved
  <2>1. \A y \in xs : ~ (y <= 0)
    BY <1>0 DEF Var
  <2>2. Done(0) = v
    BY <2>1 DEF ResetPoint, Valuation
  <2>3. after[0] = Z
    BY <1>0, <1>1 DEF AfterResets
  <2> HIDE DEF Done
  <2> QED
    BY <1>0, <2>2, <2>3
<1>3. ASSUME NEW x \in 0 .. Dim - 1, x \in Moved PROVE x + 1 \in Moved
  <2>1. x + 1 \in 0 .. Dim /\ x + 1 \in Var \ {0} /\ (x + 1) - 1 = x /\ x \in Int
    BY <1>0 DEF Var
  <2>2. after[x + 1] = IF x + 1 \in xs THEN Reset(after[x], x + 1) ELSE after[x]
    BY <1>1, <2>1 DEF AfterResets
  <2>3. CASE x + 1 \in xs
    <3>1. /\ Reset(after[x], x + 1) \in Matrix
          /\ Sat([Done(x) EXCEPT ![x + 1] = 0], Reset(after[x], x + 1))
      <4>1. after[x] \in Matrix /\ Done(x) \in Valuation /\ Done(x)[0] = 0 /\ Sat(Done(x), after[x])
        BY <1>3
      <4> HIDE DEF Done
      <4> QED
        BY <2>1, <4>1, ResetSound
    <3>2. Done(x + 1) = [Done(x) EXCEPT ![x + 1] = 0]
      <4>1. \A y \in xs : y <= x + 1 <=> y <= x \/ y = x + 1
        BY <1>0, <2>1
      <4> QED
        BY <2>1, <2>3, <4>1 DEF ResetPoint
    <3>3. Done(x + 1) \in Valuation /\ Done(x + 1)[0] = 0
      BY VarFacts DEF ResetPoint, Valuation
    <3> HIDE DEF Done
    <3> QED
      BY <2>1, <2>2, <2>3, <3>1, <3>2, <3>3
  <2>4. CASE x + 1 \notin xs
    <3>1. \A y \in xs : y <= x + 1 <=> y <= x
      BY <1>0, <2>1, <2>4
    <3>2. {y \in xs : y <= x + 1} = {y \in xs : y <= x}
      BY <3>1
    <3> QED
      BY <1>3, <2>1, <2>2, <2>4, <3>2
  <2> QED
    BY <2>3, <2>4
<1>4. \A x \in 0 .. Dim : x \in Moved
  <2> HIDE DEF Moved
  <2> QED
    BY <1>0, <1>2, <1>3, InductionUpTo
<1>5. Done(Dim) = ResetPoint(v, xs)
  <2>1. \A y \in xs : y <= Dim
    BY <1>0 DEF Var
  <2>2. {y \in xs : y <= Dim} = xs
    BY <2>1
  <2> QED
    BY <2>2
<1>6. Dim \in Moved
  <2> HIDE DEF Moved
  <2> QED
    BY <1>0, <1>4
<1> HIDE DEF Done
<1> QED
  BY <1>1, <1>5, <1>6

-----------------------------------------------------------------------------
(* Sequences *)

LEMMA Appended ==
    ASSUME NEW S, NEW s \in Seq(S), NEW e \in S
    PROVE  Append(s, e) \in Seq(S) /\ Append(s, e) # <<>>
<1>1. Append(s, e) \in Seq(S)
  OBVIOUS
<1>2. Len(s) \in Nat /\ Len(Append(s, e)) = Len(s) + 1
  OBVIOUS
<1>3. Append(s, e) # <<>>
  BY <1>2
<1> QED
  BY <1>1, <1>3

(* The values a sequence holds.                                            *)
LEMMA InRange ==
    ASSUME NEW S, NEW s \in Seq(S)
    PROVE  /\ Range(s) \subseteq S
           /\ \A e : e \in Range(s) <=> \E n \in 1 .. Len(s) : s[n] = e
           /\ s \in Seq(Range(s))
<1>1. DOMAIN s = 1 .. Len(s) /\ Len(s) \in Nat /\ \A n \in 1 .. Len(s) : s[n] \in S
  OBVIOUS
<1>2. \A n \in 1 .. Len(s) : s[n] \in Range(s)
  BY <1>1 DEF Range
<1>3. s \in Seq(Range(s))
  BY <1>1, <1>2
<1> QED
  BY <1>1, <1>2, <1>3 DEF Range

LEMMA InLargerRange ==
    ASSUME NEW S, NEW R, S \subseteq R, NEW s \in Seq(S)
    PROVE  s \in Seq(R)
  OBVIOUS

LEMMA RangeOfAppend ==
    ASSUME NEW S, NEW s \in Seq(S), NEW e
    PROVE  Range(Append(s, e)) = Range(s) \cup {e}
<1>1. /\ DOMAIN s = 1 .. Len(s) /\ Len(s) \in Nat
      /\ DOMAIN Append(s, e) = 1 .. Len(s) + 1
      /\ \A n \in 1 .. Len(s) + 1 : Append(s, e)[n] = IF n = Len(s) + 1 THEN e ELSE s[n]
  OBVIOUS
<1>2. Range(Append(s, e)) \subseteq Range(s) \cup {e}
  BY <1>1 DEF Range
<1>3. Len(s) + 1 \in DOMAIN Append(s, e) /\ DOMAIN s \subseteq DOMAIN Append(s, e)
  BY <1>1
<1>4. e \in Range(Append(s, e))
  BY <1>1, <1>3 DEF Range
<1>5. ASSUME NEW n \in DOMAIN s PROVE s[n] \in Range(Append(s, e))
  BY <1>1, <1>3 DEF Range
<1> QED
  BY <1>2, <1>4, <1>5 DEF Range

LEMMA RangeOfTail ==
    ASSUME NEW S, NEW s \in Seq(S), s # <<>>
    PROVE  /\ Head(s) \in Range(s) /\ Range(Tail(s)) \subseteq Range(s)
           /\ Head(s) \in S /\ Tail(s) \in Seq(S)
           /\ Range(s) = {Head(s)} \cup Range(Tail(s))
<1>1. /\ DOMAIN s = 1 .. Len(s) /\ Len(s) \in Nat \ {0} /\ Head(s) = s[1]
      /\ Tail(s) \in Seq(S) /\ DOMAIN Tail(s) = 1 .. Len(s) - 1
      /\ \A n \in 1 .. Len(s) - 1 : Tail(s)[n] = s[n + 1]
  OBVIOUS
<1>2. Head(s) \in Range(s) /\ Head(s) \in S
  BY <1>1 DEF Range
<1>3. ASSUME NEW n \in DOMAIN Tail(s) PROVE Tail(s)[n] \in Range(s)
  BY <1>1 DEF Range
<1>4. ASSUME NEW n \in DOMAIN s, n # 1 PROVE s[n] \in Range(Tail(s))
  <2>1. n - 1 \in DOMAIN Tail(s) /\ Tail(s)[n - 1] = s[(n - 1) + 1] /\ (n - 1) + 1 = n
    BY <1>1, <1>4
  <2> QED
    BY <2>1 DEF Range
<1> QED
  BY <1>1, <1>2, <1>3, <1>4 DEF Range

(* What is selected are the elements of the sequence that are in the set.  *)
LEMMA SelectedIs ==
    ASSUME NEW A, NEW s \in Seq(A), NEW S
    PROVE  Selected(s, S) \in Seq(A) /\ Range(Selected(s, S)) = Range(s) \cap S
<1> DEFINE Follows(f) ==
             f = [n \in 0 .. Len(s) |->
                    IF n = 0 THEN <<>>
                    ELSE IF s[n] \in S THEN Append(f[n - 1], s[n]) ELSE f[n - 1]]
           chosen == CHOOSE f : Follows(f)
           step == [n \in 1 .. Len(s) |->
                      [t \in Seq(A) |-> IF s[n] \in S THEN Append(t, s[n]) ELSE t]]
           Upto(n) == {s[m] : m \in 1 .. n}
           Right == {n \in 0 .. Len(s) : /\ chosen[n] \in Seq(A)
                                         /\ Range(chosen[n]) = Upto(n) \cap S}
<1>1. Len(s) \in Nat /\ <<>> \in Seq(A) /\ \A n \in 1 .. Len(s) : s[n] \in A
  OBVIOUS
<1>2. \E f : Follows(f)
  <2>1. step \in [1 .. Len(s) -> [Seq(A) -> Seq(A)]]
    BY <1>1
  <2>2. \A n \in 1 .. Len(s), t \in Seq(A) :
            step[n][t] = IF s[n] \in S THEN Append(t, s[n]) ELSE t
    OBVIOUS
  <2> HIDE DEF step
  <2>3. PICK f \in Iterates(Len(s), Seq(A), <<>>, step) : TRUE
    BY <1>1, <2>1, RecursionExists
  <2>4. /\ f \in [0 .. Len(s) -> Seq(A)]
        /\ \A n \in 0 .. Len(s) : f[n] = IF n = 0 THEN <<>> ELSE step[n][f[n - 1]]
    BY <2>3 DEF Iterates
  <2>5. \A n \in 0 .. Len(s) : n # 0 => n \in 1 .. Len(s) /\ n - 1 \in 0 .. Len(s)
    BY <1>1
  <2>6. \A n \in 0 .. Len(s) :
           f[n] = IF n = 0 THEN <<>>
                  ELSE IF s[n] \in S THEN Append(f[n - 1], s[n]) ELSE f[n - 1]
    <3>1. SUFFICES ASSUME NEW n \in 0 .. Len(s)
                   PROVE  f[n] = IF n = 0 THEN <<>>
                                 ELSE IF s[n] \in S THEN Append(f[n - 1], s[n]) ELSE f[n - 1]
      OBVIOUS
    <3>2. CASE n = 0
      BY <2>4, <3>2
    <3>3. CASE n # 0
      <4>1. n \in 1 .. Len(s) /\ f[n - 1] \in Seq(A) /\ f[n] = step[n][f[n - 1]]
        BY <2>4, <2>5, <3>3
      <4> QED
        BY Zenon, <2>2, <3>3, <4>1
    <3> QED
      BY <3>2, <3>3
  <2>7. Follows(f)
    BY <2>4, <2>6
  <2> HIDE DEF Follows
  <2> QED
    BY <2>7
<1>3. Follows(chosen)
  <2> HIDE DEF Follows
  <2> QED
    BY <1>2
<1>4. \A n \in 0 .. Len(s) :
         chosen[n] = IF n = 0 THEN <<>>
                     ELSE IF s[n] \in S THEN Append(chosen[n - 1], s[n]) ELSE chosen[n - 1]
  <2> HIDE DEF chosen
  <2> QED
    BY <1>3
<1>5. Selected(s, S) = chosen[Len(s)]
  BY Zenon DEF Selected
<1> HIDE DEF chosen
<1>6. 0 \in Right
  <2>1. chosen[0] = <<>> /\ 0 \in 0 .. Len(s)
    BY <1>1, <1>4
  <2>2. Range(<<>>) = {} /\ Upto(0) = {}
    BY DEF Range
  <2> QED
    BY <1>1, <2>1, <2>2
<1>7. ASSUME NEW n \in 0 .. Len(s) - 1, n \in Right PROVE n + 1 \in Right
  <2>1. /\ n + 1 \in 0 .. Len(s) /\ n + 1 \in 1 .. Len(s) /\ n + 1 # 0 /\ (n + 1) - 1 = n
        /\ chosen[n] \in Seq(A) /\ Range(chosen[n]) = Upto(n) \cap S
    BY <1>1, <1>7
  <2>2. Upto(n + 1) = Upto(n) \cup {s[n + 1]}
    BY <1>1, <2>1
  <2>3. chosen[n + 1] = IF s[n + 1] \in S THEN Append(chosen[n], s[n + 1]) ELSE chosen[n]
    BY <1>4, <2>1
  <2> HIDE DEF Upto
  <2>4. CASE s[n + 1] \in S
    <3>1. chosen[n + 1] = Append(chosen[n], s[n + 1]) /\ s[n + 1] \in A
      BY <1>1, <2>1, <2>3, <2>4
    <3>2. chosen[n + 1] \in Seq(A)
      BY <2>1, <3>1
    <3>3. Range(chosen[n + 1]) = Range(chosen[n]) \cup {s[n + 1]}
      BY <2>1, <3>1, RangeOfAppend
    <3> QED
      BY <2>1, <2>2, <2>4, <3>2, <3>3
  <2>5. CASE s[n + 1] \notin S
    BY <2>1, <2>2, <2>3, <2>5
  <2> QED
    BY <2>4, <2>5
<1>8. \A n \in 0 .. Len(s) : n \in Right
  <2> HIDE DEF Right
  <2> QED
    BY <1>1, <1>6, <1>7, InductionUpTo
<1>9. Range(s) = Upto(Len(s))
  BY DEF Range
<1>10. Len(s) \in Right
  <2> HIDE DEF Right
  <2>1. Len(s) \in 0 .. Len(s)
    BY <1>1
  <2> QED
    BY Zenon, <1>8, <2>1
<1> QED
  BY Zenon, <1>5, <1>9, <1>10

-----------------------------------------------------------------------------
(* No guard puts a bound on the entry (0, 0), so what is enabled does not  *)
(* depend on it.                                                           *)
LEMMA GuardedAlike ==
    ASSUME NEW F \in Matrix, NEW E \in Matrix, AlikeOrEqual(F, E), NEW guard, IsGuard(guard)
    PROVE  AlikeOrEqual(Guarded(F, guard), Guarded(E, guard))
<1> SUFFICES ASSUME Alike(F, E) PROVE AlikeOrEqual(Guarded(F, guard), Guarded(E, guard))
  BY DEF AlikeOrEqual
<1>1. /\ \A i, j \in Var : <<i, j>> # <<0, 0>> => F[i][j] = E[i][j]
      /\ F[0][0] >= Le(0) /\ E[0][0] >= Le(0) /\ 0 \in Var
  BY VarFacts DEF Alike, SameZone
<1>2. ASSUME NEW i \in Var, NEW j \in Var, <<i, j>> # <<0, 0>>
      PROVE  Guarded(F, guard)[i][j] = Guarded(E, guard)[i][j]
  <2>1. F[i][j] = E[i][j]
    BY <1>1, <1>2
  <2>2. Guarded(F, guard)[i][j] = Min(Bounds(F, guard, i, j))
    BY EvaluatedIs DEF Guarded, Bounds
  <2>3. Guarded(E, guard)[i][j] = Min(Bounds(E, guard, i, j))
    BY EvaluatedIs DEF Guarded, Bounds
  <2>4. Bounds(F, guard, i, j) = Bounds(E, guard, i, j)
    BY <2>1 DEF Bounds
  <2> QED
    BY <2>2, <2>3, <2>4
<1>3. ASSUME NEW c \in guard PROVE Entry(c) # <<0, 0>>
  <2>1. c.x # 0
    BY DEF IsGuard, Constraint
  <2> QED
    BY <2>1 DEF Entry
<1>4. Bounds(F, guard, 0, 0) = {F[0][0]} /\ Bounds(E, guard, 0, 0) = {E[0][0]}
  BY <1>3 DEF Bounds
<1>5. Guarded(F, guard)[0][0] = F[0][0] /\ Guarded(E, guard)[0][0] = E[0][0]
  BY <1>1, <1>4, LeastBound
<1> QED
  BY <1>1, <1>2, <1>5 DEF AlikeOrEqual, Alike, SameZone

LEMMA EnabledAlike ==
    ASSUME NEW F \in Matrix, NEW E \in Matrix, AlikeOrEqual(F, E),
           NEW e, IsGuard(e.guard), NEW q, Enabled(e, q, F)
    PROVE  Enabled(e, q, E)
<1>1. /\ Guarded(F, e.guard) \in Matrix /\ Guarded(E, e.guard) \in Matrix
      /\ AlikeOrEqual(Guarded(F, e.guard), Guarded(E, e.guard))
  BY GuardedExact, GuardedAlike
<1>2. /\ Canonize(Guarded(F, e.guard)) \in Matrix /\ Canonize(Guarded(E, e.guard)) \in Matrix
      /\ AlikeOrEqual(Canonize(Guarded(F, e.guard)), Canonize(Guarded(E, e.guard)))
  BY <1>1, CanonizeShortens, CanonizeAlike
<1> QED
  BY <1>2, SatisfiableAlike DEF Enabled, IsSatisfiable

(* A transition that is enabled leaves from a satisfiable zone.            *)
LEMMA EnabledSatisfiable ==
    ASSUME NEW Z \in Matrix, NEW e, IsGuard(e.guard), NEW q, Enabled(e, q, Z)
    PROVE  IsSatisfiableWithoutCanonize(Z)
<1> DEFINE G == Guarded(Z, e.guard)
           K == Canonize(G)
<1>1. G \in Matrix /\ \A i, j \in Var : G[i][j] <= Z[i][j]
  BY GuardedExact
<1>2. IsSatisfiableWithoutCanonize(K)
  BY DEF Enabled, IsSatisfiable
<1> HIDE DEF G
<1>3. K \in Matrix /\ \A i, j \in Var : K[i][j] <= G[i][j]
  BY <1>1, CanonizeShortens
<1> HIDE DEF K
<1>4. IsSatisfiableWithoutCanonize(G)
  BY <1>1, <1>2, <1>3, SatisfiableMonotone
<1> QED
  BY <1>1, <1>4, SatisfiableMonotone

-----------------------------------------------------------------------------
(* Merging settled zones                                                   *)

(* The zones at the end of a piece: in canonical form, satisfiable, with   *)
(* nothing on the diagonal and with entries up to a bound.                 *)
Settled(room) ==
    {Z \in Matrix :
        /\ Canonical(Z) /\ IsSatisfiableWithoutCanonize(Z)
        /\ \A i, j \in Var : Z[i][j] <= room
        /\ \A i \in Var : Z[i][i] <= Le(0)}

LEMMA UnionIs ==
    ASSUME NEW F \in Matrix, NEW E \in Matrix
    PROVE  /\ ConvexUnion(F, E) \in Matrix /\ ConvexUnion(F, E) = ConvexUnion(E, F)
           /\ \A i, j \in Var :
                /\ F[i][j] <= ConvexUnion(F, E)[i][j] /\ E[i][j] <= ConvexUnion(F, E)[i][j]
                /\ ConvexUnion(F, E)[i][j] \in {F[i][j], E[i][j]}
<1>1. \A i, j \in Var : F[i][j] \in Bound /\ E[i][j] \in Bound
  BY DEF Matrix
<1>2. \A i, j \in Var : /\ ConvexUnion(F, E)[i][j] = Higher(F[i][j], E[i][j])
                        /\ ConvexUnion(E, F)[i][j] = Higher(E[i][j], F[i][j])
  BY DEF ConvexUnion
<1>3. \A i, j \in Var : /\ Higher(F[i][j], E[i][j]) \in Bound
                        /\ Higher(F[i][j], E[i][j]) = Higher(E[i][j], F[i][j])
                        /\ F[i][j] <= Higher(F[i][j], E[i][j])
                        /\ E[i][j] <= Higher(F[i][j], E[i][j])
                        /\ Higher(F[i][j], E[i][j]) \in {F[i][j], E[i][j]}
  BY <1>1 DEF Higher, Bound
<1>4. ConvexUnion(F, E) \in Matrix /\ ConvexUnion(E, F) \in Matrix
  BY <1>3 DEF ConvexUnion, Matrix
<1>5. ConvexUnion(F, E) = ConvexUnion(E, F)
  BY <1>2, <1>3, <1>4, MatrixEqual
<1> QED
  BY <1>2, <1>3, <1>4, <1>5

(* Merging keeps a zone settled.                                           *)
LEMMA MergeSettles ==
    ASSUME NEW room, NEW F \in Settled(room), NEW E \in Settled(room)
    PROVE  Merge(F, E) \in Settled(room) /\ ConvexUnion(F, E) \in Settled(room)
<1> DEFINE hull == ConvexUnion(F, E)
<1>1. /\ F \in Matrix /\ Canonical(F) /\ IsSatisfiableWithoutCanonize(F)
      /\ E \in Matrix /\ Canonical(E)
      /\ \A i, j \in Var : F[i][j] <= room /\ E[i][j] <= room
      /\ \A i \in Var : F[i][i] <= Le(0) /\ E[i][i] <= Le(0)
  BY DEF Settled
<1>2. /\ hull \in Matrix
      /\ \A i, j \in Var : F[i][j] <= hull[i][j] /\ hull[i][j] \in {F[i][j], E[i][j]}
  BY <1>1, UnionIs
<1>3. Canonical(hull)
  BY <1>1, UnionCanonical
<1> HIDE DEF hull
<1>4. IsSatisfiableWithoutCanonize(hull)
  BY <1>1, <1>2, SatisfiableMonotone
<1>5. \A i, j \in Var : hull[i][j] <= room
  BY <1>1, <1>2
<1>6. \A i \in Var : hull[i][i] <= Le(0)
  BY <1>1, <1>2
<1>7. hull \in Settled(room)
  BY <1>2, <1>3, <1>4, <1>5, <1>6 DEF Settled
<1> QED
  BY <1>7 DEF Merge, hull

(* The complement of a bound in a satisfiable zone.                        *)
LEMMA ComplementWithin ==
    ASSUME NEW F \in Matrix, IsSatisfiableWithoutCanonize(F), NEW limit \in Nat,
           limit < Infinity, NEW i \in Var, NEW j \in Var, F[i][j] <= limit
    PROVE  Complement(F[j][i]) \in Bound /\ Complement(F[j][i]) <= limit
<1>1. F[i][j] \in Bound /\ F[j][i] \in Bound /\ Add(F[i][j], F[j][i]) >= Le(0)
  BY DEF Matrix, IsSatisfiableWithoutCanonize
<1>2. F[i][j] # Infinity /\ F[i][j] \in Int /\ F[j][i] \in Int /\ Infinity \in Int
  BY <1>1, DBMAssumption DEF Bound
<1>3. CASE F[j][i] = Infinity
  BY <1>2, <1>3, DBMAssumption DEF Bound, Complement
<1>4. CASE F[j][i] # Infinity
  <2>1. F[i][j] + F[j][i] >= 2
    BY <1>1, <1>2, <1>4, DBMAssumption DEF Bound, Add, Le
  <2> QED
    BY <1>2, <2>1, DBMAssumption DEF Bound, Complement
<1> QED
  BY <1>3, <1>4

(* Two bounds that together say no more than a bound and its complement.   *)
LEMMA Contradiction ==
    ASSUME NEW a \in Bound, NEW b \in Bound, NEW c \in Int, a <= Complement(c), b <= c,
           a # Infinity, b # Infinity
    PROVE  ~ Add(a, b) >= Le(0)
<1>1. a + b <= 1
  BY DEF Complement, Bound
<1> QED
  BY <1>1, DBMAssumption DEF Add, Bound, Le

(* and two that leave something.                                           *)
LEMMA NoContradiction ==
    ASSUME NEW a \in Bound, NEW b \in Bound, b < a, Complement(b) \in Bound
    PROVE  Add(a, Complement(b)) >= Le(0)
  BY DBMAssumption DEF Add, Bound, Le, Complement

(* CutIncluded, by Tighten.                                                 *)
CutIs(F, E, hull, i, j) ==
    LET cut == Tighten(hull, i, j, Complement(F[j][i]))
    IN  hull[i][j] <= Complement(F[j][i]) \/ Included(cut, E)

LEMMA CutTightens ==
    ASSUME NEW F, NEW E, NEW hull \in Matrix, NEW i \in Var, NEW j \in Var,
           Complement(F[j][i]) \in Bound
    PROVE  CutIncluded(F, E, hull, i, j) <=> CutIs(F, E, hull, i, j)
<1> DEFINE rev == Complement(F[j][i])
           A == [hull EXCEPT ![i][j] = rev]
           B == TightenWithoutClose(hull, i, j, rev)
<1>1. hull[i][j] \in Bound /\ hull[i] \in [Var -> Bound]
  BY DEF Matrix
<1>2. CASE hull[i][j] <= rev
  BY <1>2 DEF CutIncluded, CutIs
<1>3. CASE ~ hull[i][j] <= rev
  <2>1. Lower(hull[i][j], rev) = rev
    BY <1>1, <1>3 DEF Lower, Bound
  <2>2. B = [hull EXCEPT ![i][j] = Lower(@, rev)]
    BY Zenon DEF TightenWithoutClose
  <2>3. A = B
    <3>1. [hull EXCEPT ![i][j] = Lower(@, rev)] = [hull EXCEPT ![i][j] = Lower(hull[i][j], rev)]
      OBVIOUS
    <3> HIDE DEF rev, A, B
    <3> QED
      BY <2>1, <2>2, <3>1 DEF A
  <2>4. Tighten(hull, i, j, rev) = Close1(Close1(A, i), j)
    BY <2>3 DEF Tighten
  <2>5. CutIncluded(F, E, hull, i, j) <=> hull[i][j] <= rev \/ Included(Close1(Close1(A, i), j), E)
    BY Zenon DEF CutIncluded
  <2>6. CutIs(F, E, hull, i, j) <=> hull[i][j] <= rev \/ Included(Tighten(hull, i, j, rev), E)
    BY Zenon DEF CutIs
  <2> HIDE DEF rev, A
  <2> QED
    BY Zenon, <2>4, <2>5, <2>6
<1> QED
  BY <1>2, <1>3

(* When the hull without one zone is within the other, it is so the other  *)
(* way round: a point of the hull outside both would have been in a cut.   *)
LEMMA CutSymmetric ==
    ASSUME NEW limit \in Nat, 8 * limit < Infinity,
           NEW F \in Settled(limit), NEW E \in Settled(limit),
           NEW hull \in Settled(limit), \A i, j \in Var : F[i][j] <= hull[i][j],
           \A k, l \in Var : k # l => CutIncluded(F, E, hull, k, l),
           NEW i \in Var, NEW j \in Var, i # j
    PROVE  CutIncluded(E, F, hull, i, j)
<1> DEFINE b == Complement(E[j][i])
           cut == Tighten(hull, i, j, b)
<1>1. /\ F \in Matrix /\ Canonical(F) /\ IsSatisfiableWithoutCanonize(F)
      /\ E \in Matrix /\ Canonical(E) /\ IsSatisfiableWithoutCanonize(E)
      /\ hull \in Matrix /\ Canonical(hull) /\ IsSatisfiableWithoutCanonize(hull)
      /\ \A k, l \in Var : F[k][l] <= limit /\ E[k][l] <= limit /\ hull[k][l] <= limit
      /\ \A k \in Var : hull[k][k] <= Le(0)
  BY DEF Settled
<1>2. limit < Infinity /\ 6 * limit < Infinity /\ Infinity \in Nat /\ Le(0) \in Int
  BY DBMAssumption DEF Le
<1>3. b \in Bound /\ b <= limit
  BY <1>1, <1>2, ComplementWithin
<1>4. \A k, l \in Var : F[k][l] \in Bound /\ E[k][l] \in Bound /\ hull[k][l] \in Bound
  BY <1>1 DEF Matrix
<1> SUFFICES ASSUME IsSatisfiableWithoutCanonize(cut),
                    ~ \A k, l \in Var : cut[k][l] <= F[k][l]
             PROVE  FALSE
  <2>1. CutIncluded(E, F, hull, i, j) <=> CutIs(E, F, hull, i, j)
    BY <1>1, <1>3, CutTightens
  <2>2. Included(cut, F) => CutIs(E, F, hull, i, j)
    BY DEF CutIs
  <2> HIDE DEF cut
  <2> QED
    BY <2>1, <2>2 DEF Included
<1>5. /\ cut \in Matrix /\ cut[i][j] <= b
      /\ \A k, l \in Var : cut[k][l] <= hull[k][l]
  BY <1>1, <1>3, TightenShortens
<1>6. AllWithin(hull, limit)
  BY <1>1 DEF AllWithin, Within
<1>7. Canonical(cut)
  BY <1>1, <1>3, <1>6, TightenCanonical
<1> HIDE DEF cut
<1>8. \A k, l \in Var : cut[k][l] \in Bound /\ cut[k][l] <= limit
  <2> TAKE k, l \in Var
  <2>1. cut[k][l] \in Bound
    BY <1>5 DEF Matrix
  <2> QED
    BY <1>1, <1>4, <1>5, <2>1 DEF Bound
<1>9. PICK k \in Var, l \in Var : ~ cut[k][l] <= F[k][l]
  OBVIOUS
<1>10. F[k][l] < cut[k][l] /\ k # l
  <2>1. F[k][l] < cut[k][l]
    BY <1>4, <1>8, <1>9 DEF Bound
  <2>2. ASSUME k = l PROVE FALSE
    <3>1. F[k][k] >= Le(0) /\ cut[k][k] <= Le(0)
      <4>1. F[k][k] >= Le(0)
        BY <1>1, SatisfiableDiagonal
      <4>2. cut[k][k] <= hull[k][k] /\ hull[k][k] <= Le(0) /\ hull[k][k] \in Int
        BY <1>1, <1>4, <1>5 DEF Bound
      <4>3. cut[k][k] \in Int
        BY <1>8 DEF Bound
      <4> QED
        BY <1>2, <4>1, <4>2, <4>3
    <3>2. F[k][k] \in Int /\ cut[k][k] \in Int
      BY <1>4, <1>8 DEF Bound
    <3> QED
      BY <1>2, <2>1, <2>2, <3>1, <3>2
  <2> QED
    BY <2>1, <2>2
<1> DEFINE c == Complement(F[k][l])
           X == Tighten(cut, l, k, c)
           W == Zeroed(X)
           other == Tighten(hull, l, k, c)
<1>11. c \in Bound /\ c <= limit
  BY <1>1, <1>2, ComplementWithin
<1>12. Add(cut[k][l], c) >= Le(0)
  BY <1>4, <1>8, <1>10, <1>11, NoContradiction
<1>13. AllWithin(cut, limit)
  BY <1>8 DEF AllWithin, Within
<1>14. limit >= Le(0)
  <2>1. hull[i][i] >= Le(0) /\ hull[i][i] <= limit /\ hull[i][i] \in Int
    BY <1>1, <1>4, SatisfiableDiagonal DEF Bound
  <2> QED
    BY <1>2, <2>1
<1> HIDE DEF c
<1>15. IsSatisfiableWithoutCanonize(X)
  BY <1>2, <1>5, <1>7, <1>10, <1>11, <1>12, <1>13, <1>14, TightenSatisfiable
<1>16. /\ X \in Matrix /\ X[l][k] <= c /\ \A x, y \in Var : X[x][y] <= cut[x][y]
  BY <1>5, <1>11, TightenShortens
<1>17. Canonical(X)
  BY <1>5, <1>7, <1>11, <1>13, <1>15, TightenCanonical
<1> HIDE DEF X
<1>18. W \in Matrix /\ Metric(W) /\ Below(W, X) /\ \A x \in Var : W[x][x] >= Le(0)
  <2>1. W \in Matrix /\ Metric(W) /\ Below(W, X)
    BY <1>15, <1>16, <1>17, ZeroedMetric
  <2>2. \A x \in Var : W[x][x] = Le(0)
    BY DEF Zeroed
  <2> HIDE DEF W
  <2> QED
    BY <1>2, <2>1, <2>2
<1>19. W[j][i] = X[j][i]
  BY DEF Zeroed
<1> HIDE DEF W
<1>20. \A x, y \in Var : W[x][y] \in Bound /\ X[x][y] \in Bound
  BY <1>16, <1>18 DEF Matrix
<1> DEFINE A == TightenWithoutClose(hull, l, k, c)
<1>21. A \in Matrix /\ Below(W, A)
  <2>1. /\ A \in Matrix
        /\ \A x, y \in Var : A[x][y] = IF x = l /\ y = k THEN Lower(hull[l][k], c) ELSE hull[x][y]
    BY <1>1, <1>11, TightenWithoutCloseIs
  <2> HIDE DEF A
  <2> SUFFICES ASSUME NEW x \in Var, NEW y \in Var PROVE W[x][y] <= A[x][y]
    BY <2>1 DEF Below
  <2>2. W[x][y] <= X[x][y] /\ X[x][y] <= cut[x][y] /\ cut[x][y] <= hull[x][y]
    BY <1>5, <1>16, <1>18 DEF Below
  <2>3. W[x][y] <= hull[x][y]
    BY <1>4, <1>8, <1>20, <2>2 DEF Bound
  <2>4. x = l /\ y = k => W[x][y] <= c
    BY <1>11, <1>16, <1>20, <2>2 DEF Bound
  <2> QED
    BY <2>1, <2>3, <2>4 DEF Lower
<1>22. other = Close1(Close1(A, l), k)
  BY DEF Tighten
<1> HIDE DEF A, other
<1>23. Close1(A, l) \in Matrix /\ Below(W, Close1(A, l))
  BY <1>18, <1>21, Close1Above, Close1Type
<1>24. other \in Matrix /\ Below(W, other)
  BY <1>18, <1>22, <1>23, Close1Above, Close1Type
<1>25. IsSatisfiableWithoutCanonize(other)
  <2>1. IsSatisfiableWithoutCanonize(W)
    BY <1>18, MetricSatisfiable
  <2> QED
    BY <1>18, <1>24, <2>1, SatisfiableMonotone DEF Below
<1>26. hull[l][k] <= c \/ Included(other, E)
  <2>1. CutIncluded(F, E, hull, l, k) /\ (CutIncluded(F, E, hull, l, k) <=> CutIs(F, E, hull, l, k))
    BY <1>1, <1>10, <1>11, CutTightens DEF c
  <2> QED
    BY <2>1 DEF CutIs, c, other
<1>27. CASE hull[l][k] <= c
  <2>1. F[l][k] <= c /\ Add(F[l][k], F[k][l]) >= Le(0)
    <3>1. F[l][k] <= hull[l][k]
      OBVIOUS
    <3>2. F[l][k] <= c
      BY <1>4, <1>11, <1>27, <3>1 DEF Bound
    <3> QED
      BY <1>1, <3>2 DEF IsSatisfiableWithoutCanonize
  <2>2. F[l][k] # Infinity /\ F[k][l] # Infinity /\ F[k][l] \in Int
    BY <1>1, <1>2, <1>4 DEF Bound
  <2>3. F[k][l] <= F[k][l]
    BY <2>2
  <2> QED
    BY <1>4, <2>1, <2>2, <2>3, Contradiction DEF c
<1>28. CASE Included(other, E)
  <2>1. X[j][i] <= E[j][i]
    <3>1. other[j][i] <= E[j][i] /\ W[j][i] <= other[j][i]
      BY <1>24, <1>25, <1>28 DEF Included, Below
    <3>2. other[j][i] \in Bound
      BY <1>24 DEF Matrix
    <3> QED
      BY <1>4, <1>19, <1>20, <3>1, <3>2 DEF Bound
  <2>2. X[i][j] <= b
    <3>1. X[i][j] <= cut[i][j] /\ cut[i][j] <= b
      BY <1>5, <1>16
    <3> QED
      BY <1>3, <1>8, <1>20, <3>1 DEF Bound
  <2>3. Add(X[i][j], X[j][i]) >= Le(0)
    BY <1>15 DEF IsSatisfiableWithoutCanonize
  <2>4. E[j][i] \in Int /\ X[i][j] # Infinity /\ X[j][i] # Infinity
    <3>1. E[j][i] \in Int /\ E[j][i] <= limit
      BY <1>1, <1>4 DEF Bound
    <3> QED
      BY <1>2, <1>3, <1>20, <2>1, <2>2, <3>1 DEF Bound
  <2> QED
    BY <1>20, <2>1, <2>2, <2>3, <2>4, Contradiction DEF b
<1> QED
  BY <1>26, <1>27, <1>28

(* dbm.hh merge asks for what the hull contains outside the first zone; it *)
(* may as well have asked for what it contains outside the second.         *)
THEOREM MergeableSymmetric ==
    ASSUME NEW limit \in Nat, 8 * limit < Infinity,
           NEW F \in Settled(limit), NEW E \in Settled(limit), Mergeable(F, E)
    PROVE  Mergeable(E, F)
<1> DEFINE hull == ConvexUnion(F, E)
<1>1. F \in Matrix /\ E \in Matrix
  BY DEF Settled
<1>2. /\ hull \in Settled(limit) /\ hull = ConvexUnion(E, F)
      /\ \A i, j \in Var : F[i][j] <= hull[i][j]
  BY <1>1, MergeSettles, UnionIs
<1>3. Mergeable(F, E) <=> \/ Included(F, E) \/ Included(E, F)
                          \/ \A i, j \in Var : i # j => CutIncluded(F, E, hull, i, j)
  BY Zenon, EvaluatedIs DEF Mergeable
<1>4. Mergeable(E, F) <=> \/ Included(E, F) \/ Included(F, E)
                          \/ \A i, j \in Var : i # j => CutIncluded(E, F, ConvexUnion(E, F), i, j)
  BY Zenon, EvaluatedIs DEF Mergeable
<1> HIDE DEF hull
<1>5. CASE \A i, j \in Var : i # j => CutIncluded(F, E, hull, i, j)
  <2>1. \A i, j \in Var : i # j => CutIncluded(E, F, hull, i, j)
    BY <1>2, <1>5, CutSymmetric
  <2> QED
    BY Zenon, <1>2, <1>4, <2>1
<1> QED
  BY <1>3, <1>4, <1>5
-----------------------------------------------------------------------------
(* The zone in which a match may begin: the clocks are zero and the dwell  *)
(* time is free.                                                           *)
FreeDwell == TightenWithoutClose(Release(ZeroDBM, T), 0, T, Le(0))

LEMMA FreeDwellIs ==
    ASSUME T \in Var \ {0}
    PROVE  /\ FreeDwell \in Matrix
           /\ \A i, j \in Var : FreeDwell[i][j] =
                IF i = 0 \/ (i # T /\ j # T) THEN Le(0) ELSE Infinity
<1> DEFINE Z == Release(ZeroDBM, T)
<1>1. Le(0) \in Bound /\ Infinity \in Bound /\ Le(0) < Infinity
  BY DBMAssumption DEF Bound, Le
<1>2. Z = [i \in Var |-> [j \in Var |->
             IF i = 0 /\ j = T THEN Le(0)
             ELSE IF T \in {i, j} THEN Infinity
             ELSE ZeroDBM[i][j]]]
  BY Zenon, EvaluatedIs DEF Release
<1>3. \A i, j \in Var : ZeroDBM[i][j] = Le(0)
  BY DEF ZeroDBM
<1>4. \A i, j \in Var : Z[i][j] = IF i = 0 \/ (i # T /\ j # T) THEN Le(0) ELSE Infinity
  BY <1>2, <1>3
<1>5. Z \in Matrix
  BY <1>1, <1>2, <1>3 DEF Matrix
<1>6. Lower(Z[0][T], Le(0)) = Le(0)
  BY <1>4, VarFacts DEF Lower
<1> HIDE DEF Z
<1>7. /\ TightenWithoutClose(Z, 0, T, Le(0)) \in Matrix
      /\ \A i, j \in Var : TightenWithoutClose(Z, 0, T, Le(0))[i][j] =
                             IF i = 0 /\ j = T THEN Lower(Z[0][T], Le(0)) ELSE Z[i][j]
  BY <1>1, <1>5, VarFacts, TightenWithoutCloseIs
<1> QED
  BY <1>4, <1>6, <1>7 DEF FreeDwell, Z

(* Its canonical form, entry by entry.                                     *)
LEMMA FreedDwellIs ==
    ASSUME T \in Var \ {0}
    PROVE  /\ Canonize(FreeDwell) \in Matrix
           /\ \A i, j \in Var : Canonize(FreeDwell)[i][j] = IF i = T THEN Infinity ELSE Le(0)
           /\ Metric(Canonize(FreeDwell))
<1> DEFINE W == [i \in Var |-> [j \in Var |-> IF i = T THEN Infinity ELSE Le(0)]]
           K == Canonize(FreeDwell)
<1>1. Le(0) \in Bound /\ Infinity \in Bound /\ Le(0) <= Infinity /\ Le(0) <= Le(0)
      /\ Infinity <= Infinity
  BY DBMAssumption DEF Bound, Le
<1>2. Add(Le(0), Le(0)) = Le(0) /\ Add(Le(0), Infinity) = Infinity
      /\ Add(Infinity, Infinity) = Infinity /\ Add(Infinity, Le(0)) = Infinity
  BY <1>1, DBMAssumption DEF Add, Le, Bound
<1>3. W \in Matrix /\ \A i, j \in Var : W[i][j] = IF i = T THEN Infinity ELSE Le(0)
  BY <1>1 DEF Matrix
<1> HIDE DEF W
<1>4. Metric(W)
  <2> SUFFICES ASSUME NEW i \in Var, NEW j \in Var, NEW k \in Var
               PROVE  W[i][j] <= Add(W[i][k], W[k][j])
    BY DEF Metric
  <2> QED
    BY <1>1, <1>2, <1>3
<1>5. Below(W, FreeDwell)
  <2> SUFFICES ASSUME NEW i \in Var, NEW j \in Var PROVE W[i][j] <= FreeDwell[i][j]
    BY DEF Below
  <2> QED
    BY <1>1, <1>3, FreeDwellIs, VarFacts
<1>6. K \in Matrix /\ Below(W, K)
  BY <1>3, <1>4, <1>5, FreeDwellIs, CanonizeAbove, CanonizeShortens
<1>7. ASSUME NEW i \in Var, NEW j \in Var, i # T PROVE K[i][j] <= Le(0)
  <2>1. FreeDwell[i][0] = Le(0) /\ FreeDwell[0][j] = Le(0)
    BY <1>7, FreeDwellIs, VarFacts
  <2>2. K[i][j] <= Add(FreeDwell[i][0], FreeDwell[0][j])
    BY FreeDwellIs, VarFacts, CanonizeShortens
  <2> HIDE DEF K
  <2> QED
    BY <1>2, <2>1, <2>2
<1> HIDE DEF K
<1>8. ASSUME NEW i \in Var, NEW j \in Var
      PROVE  K[i][j] = IF i = T THEN Infinity ELSE Le(0)
  <2>1. K[i][j] \in Bound /\ W[i][j] <= K[i][j]
    BY <1>6 DEF Matrix, Below
  <2>2. K[i][j] \in Int /\ K[i][j] <= Infinity /\ Le(0) \in Int /\ Infinity \in Int
    BY <1>1, <2>1, DBMAssumption DEF Bound
  <2> QED
    BY <1>3, <1>7, <2>1, <2>2
<1>9. Metric(K)
  BY <1>3, <1>4, <1>8 DEF Metric
<1> QED
  BY <1>6, <1>8, <1>9 DEF K
-----------------------------------------------------------------------------
(***************************************************************************)
(* Points of zones.  A zone that is canonical and satisfiable has a point  *)
(* on the grid of integers, provided that its constants are multiples of a *)
(* unit that has a tick for every variable.                                *)
(***************************************************************************)
Multiples(u) == {t \in Int : \E n \in Int : t = n * u}

LEMMA MultiplesAdd ==
    ASSUME NEW u \in Nat, NEW a \in Multiples(u), NEW b \in Multiples(u)
    PROVE  a + b \in Multiples(u) /\ -a \in Multiples(u) /\ a - b \in Multiples(u)
<1>1. PICK n \in Int : a = n * u
  BY DEF Multiples
<1>2. PICK m \in Int : b = m * u
  BY DEF Multiples
<1>3. (n + m) * u = n * u + m * u /\ (-n) * u = -(n * u) /\ (n - m) * u = n * u - m * u
  OBVIOUS
<1>4. n + m \in Int /\ -n \in Int /\ n - m \in Int
  OBVIOUS
<1>5. a + b \in Int /\ -a \in Int /\ a - b \in Int
  BY DEF Multiples
<1>6. a + b = (n + m) * u /\ -a = (-n) * u /\ a - b = (n - m) * u
  BY <1>1, <1>2, <1>3
<1> QED
  BY <1>4, <1>5, <1>6 DEF Multiples

LEMMA NextMultiple ==
    ASSUME NEW u \in Nat, NEW a \in Multiples(u), a > 0
    PROVE  a >= u
<1>1. PICK n \in Int : a = n * u
  BY DEF Multiples
<1>2. CASE n <= 0
  <2>1. n * u <= 0
    BY <1>2
  <2> QED
    BY <1>1, <2>1
<1>3. CASE n >= 1
  <2>1. n * u = (n - 1) * u + u
    OBVIOUS
  <2>2. (n - 1) * u >= 0
    BY <1>3
  <2> QED
    BY <1>1, <2>1, <2>2
<1> QED
  BY <1>2, <1>3

LEMMA ModIsMultiple ==
    ASSUME NEW u \in Nat, u > 0, NEW a \in Int, a % u = 0
    PROVE  a \in Multiples(u)
<1>1. a = u * (a \div u) + (a % u) /\ a \div u \in Int
  OBVIOUS
<1>2. a = (a \div u) * u
  BY <1>1
<1> QED
  BY <1>1, <1>2 DEF Multiples

LEMMA ZeroIsMultiple == ASSUME NEW u \in Nat PROVE 0 \in Multiples(u)
<1>1. 0 * u = 0
  OBVIOUS
<1> QED
  BY <1>1 DEF Multiples

(* A bound whose constant is a multiple of the unit.                       *)
Coarse(u) == {b \in Bound : b = Infinity \/ \E t \in Multiples(u) : b = Lt(t) \/ b = Le(t)}

LEMMA CoarseOps ==
    ASSUME NEW u \in Nat, NEW a \in Coarse(u), NEW b \in Coarse(u)
    PROVE  /\ Add(a, b) \in Coarse(u)
           /\ Lower(a, b) \in Coarse(u) /\ Higher(a, b) \in Coarse(u)
           /\ a # Infinity /\ Complement(a) < Infinity => Complement(a) \in Coarse(u)
           /\ Strict(a) \in Coarse(u)
<1>0. Infinity \in Bound /\ Infinity % 2 = 0
  BY DBMAssumption DEF Bound
<1>1. a \in Bound /\ b \in Bound
  BY DEF Coarse
<1>2. Lower(a, b) \in Coarse(u) /\ Higher(a, b) \in Coarse(u)
  BY DEF Lower, Higher
<1>3. Add(a, b) \in Coarse(u)
  <2>1. CASE Add(a, b) = Infinity
    BY <1>0, <2>1 DEF Coarse
  <2>2. CASE Add(a, b) # Infinity
    <3>1. a # Infinity /\ b # Infinity
      BY <2>2 DEF Add
    <3>2. PICK s \in Multiples(u) : a = Lt(s) \/ a = Le(s)
      BY <3>1 DEF Coarse
    <3>3. PICK t \in Multiples(u) : b = Lt(t) \/ b = Le(t)
      BY <3>1 DEF Coarse
    <3>4. s + t \in Multiples(u) /\ s \in Int /\ t \in Int
      BY MultiplesAdd DEF Multiples
    <3>5. Add(a, b) = Lt(s + t) \/ Add(a, b) = Le(s + t)
      BY <1>1, <2>2, <3>2, <3>3, <3>4 DEF Add, Lt, Le
    <3>6. Add(a, b) \in Bound
      BY <1>1, AddIsBound
    <3> QED
      BY <3>4, <3>5, <3>6 DEF Coarse
  <2> QED
    BY <2>1, <2>2
<1>4. ASSUME a # Infinity, Complement(a) < Infinity PROVE Complement(a) \in Coarse(u)
  <2>1. PICK s \in Multiples(u) : a = Lt(s) \/ a = Le(s)
    BY <1>4 DEF Coarse
  <2>2. -s \in Multiples(u) /\ s \in Int
    BY MultiplesAdd DEF Multiples
  <2>3. Complement(a) = Le(-s) \/ Complement(a) = Lt(-s)
    BY <2>1, <2>2 DEF Complement, Lt, Le
  <2>4. Complement(a) \in Bound
    BY <1>0, <1>1, <1>4 DEF Complement, Bound
  <2> QED
    BY <2>2, <2>3, <2>4 DEF Coarse
<1>5. Strict(a) \in Coarse(u)
  <2>1. CASE a = Infinity
    BY <1>0, <2>1 DEF Strict, Bound
  <2>2. CASE a # Infinity
    <3>1. PICK s \in Multiples(u) : a = Lt(s) \/ a = Le(s)
      BY <2>2 DEF Coarse
    <3>2. Strict(a) = Lt(s) /\ Strict(a) <= a
      BY <3>1 DEF Strict, Lt, Le, Multiples
    <3>3. Strict(a) \in Bound
      BY <1>0, <1>1, <3>2 DEF Bound, Strict
    <3> QED
      BY <3>2, <3>3 DEF Coarse
  <2> QED
    BY <2>1, <2>2
<1> QED
  BY <1>2, <1>3, <1>4, <1>5
-----------------------------------------------------------------------------
(* The flag of a bound and its constant, as numbers.                       *)
LEMMA BoundParts ==
    ASSUME NEW u \in Nat, NEW b \in Coarse(u), b # Infinity
    PROVE  /\ Const(b) \in Multiples(u) /\ Const(b) \in Int
           /\ b \in {Lt(Const(b)), Le(Const(b))}
           /\ b # Lt(Const(b)) => b = Le(Const(b))
<1>1. PICK t \in Multiples(u) : b = Lt(t) \/ b = Le(t)
  BY DEF Coarse
<1>2. t \in Int
  BY DEF Multiples
<1>3. Const(b) = t
  BY <1>1, <1>2 DEF Const, Lt, Le
<1> QED
  BY <1>1, <1>2, <1>3

(* What a finite sum of bounds says of their constants.                    *)
LEMMA AddParts ==
    ASSUME NEW a \in Int, NEW b \in Int, NEW c \in Int,
           NEW k \in Int, NEW l \in Int, NEW m \in Int,
           a \in {Lt(k), Le(k)}, b \in {Lt(l), Le(l)}, c \in {Lt(m), Le(m)},
           NEW limit \in Nat, 2 * limit < Infinity, a <= limit, b <= limit, c <= Add(a, b)
    PROVE  /\ m <= k + l
           /\ m = k + l /\ (a = Lt(k) \/ b = Lt(l)) => c = Lt(m)
<1>1. a # Infinity /\ b # Infinity
  BY DBMAssumption
<1>2. Add(a, b) = IF a % 2 = 0 /\ b % 2 = 0 THEN a + b ELSE a + b - 1
  <2>1. a + b < Infinity /\ a + b - 1 < Infinity
    BY DBMAssumption
  <2> QED
    BY <1>1, <2>1, DBMAssumption DEF Add
<1>3. Lt(k) % 2 = 0 /\ Lt(l) % 2 = 0 /\ Le(k) % 2 = 1 /\ Le(l) % 2 = 1
  BY DEF Lt, Le
<1>4. Add(a, b) = IF a = Lt(k) /\ b = Lt(l) THEN a + b ELSE a + b - 1
  BY <1>2, <1>3
<1> QED
  BY <1>4 DEF Lt, Le

(* A zone whose bounds are all finite, coarse, and far from infinity.      *)
Gridded(u, limit) ==
    {Z \in Matrix :
        /\ Canonical(Z) /\ IsSatisfiableWithoutCanonize(Z)
        /\ \A i, j \in Var : Z[i][j] \in Coarse(u) /\ Z[i][j] <= limit}

LEMMA GriddedIs ==
    ASSUME NEW u \in Nat, NEW limit \in Nat, 2 * limit < Infinity,
           NEW Z \in Gridded(u, limit)
    PROVE  /\ Z \in Matrix /\ Canonical(Z) /\ IsSatisfiableWithoutCanonize(Z)
           /\ \A k, l \in Var : /\ Const(Z[k][l]) \in Multiples(u) /\ Const(Z[k][l]) \in Int
                                /\ Z[k][l] \in {Lt(Const(Z[k][l])), Le(Const(Z[k][l]))}
                                /\ Z[k][l] \in Int /\ Z[k][l] <= limit
<1>1. /\ Z \in Matrix /\ Canonical(Z) /\ IsSatisfiableWithoutCanonize(Z)
      /\ \A k, l \in Var : Z[k][l] \in Coarse(u) /\ Z[k][l] <= limit
      /\ limit < Infinity /\ Infinity \in Nat
  BY DBMAssumption DEF Gridded
<1>2. \A k, l \in Var : /\ Const(Z[k][l]) \in Multiples(u) /\ Const(Z[k][l]) \in Int
                        /\ Z[k][l] \in {Lt(Const(Z[k][l])), Le(Const(Z[k][l]))}
                        /\ Z[k][l] \in Int
  <2> TAKE k, l \in Var
  <2>1. Z[k][l] \in Coarse(u) /\ Z[k][l] # Infinity /\ Z[k][l] \in Int
    BY <1>1 DEF Coarse, Bound
  <2> QED
    BY <2>1, BoundParts
<1> QED
  BY <1>1, <1>2

LEMMA CornerIs ==
    ASSUME NEW u \in Nat, NEW limit \in Nat, 2 * limit < Infinity,
           NEW Z \in Gridded(u, limit), NEW i \in Var, NEW k \in Var, NEW j \in Var
    PROVE  LET a == Const(Z[i][k])
               b == Const(Z[k][j])
               c == Const(Z[i][j])
           IN  /\ i # j => c <= a + b
               /\ i # j /\ c = a + b /\ (Z[i][k] = Lt(a) \/ Z[k][j] = Lt(b)) => Z[i][j] = Lt(c)
               /\ i = j => 0 <= a + b
               /\ i = j /\ a + b = 0 => Z[i][k] # Lt(a) /\ Z[k][j] # Lt(b)
<1> DEFINE a == Const(Z[i][k])
           b == Const(Z[k][j])
           c == Const(Z[i][j])
<1>1. /\ a \in Int /\ b \in Int /\ c \in Int
      /\ Z[i][k] \in {Lt(a), Le(a)} /\ Z[k][j] \in {Lt(b), Le(b)} /\ Z[i][j] \in {Lt(c), Le(c)}
      /\ Z[i][k] \in Int /\ Z[k][j] \in Int /\ Z[i][j] \in Int
      /\ Z[i][k] <= limit /\ Z[k][j] <= limit
  BY GriddedIs
<1>2. i # j => Z[i][j] <= Add(Z[i][k], Z[k][j])
  BY GriddedIs DEF Canonical
<1>3. i = j => Le(0) <= Add(Z[i][k], Z[k][j])
  BY GriddedIs DEF IsSatisfiableWithoutCanonize, Add
<1>4. Le(0) \in {Lt(0), Le(0)} /\ Le(0) \in Int /\ Le(0) # Lt(0) /\ 0 \in Int
  BY DEF Le, Lt
<1> HIDE DEF a, b, c
<1>5. i # j => /\ c <= a + b
               /\ c = a + b /\ (Z[i][k] = Lt(a) \/ Z[k][j] = Lt(b)) => Z[i][j] = Lt(c)
  <2>1. PICK x \in Int, y \in Int, z \in Int : x = Z[i][k] /\ y = Z[k][j] /\ z = Z[i][j]
    BY <1>1
  <2>2. /\ x \in {Lt(a), Le(a)} /\ y \in {Lt(b), Le(b)} /\ z \in {Lt(c), Le(c)}
        /\ x <= limit /\ y <= limit /\ (i # j => z <= Add(x, y))
    BY <1>1, <1>2, <2>1
  <2>3. ASSUME i # j
        PROVE  c <= a + b /\ (c = a + b /\ (x = Lt(a) \/ y = Lt(b)) => z = Lt(c))
    BY <1>1, <2>2, <2>3, AddParts
  <2> QED
    BY <2>1, <2>3
<1>6. ASSUME i = j
      PROVE  /\ 0 <= a + b
             /\ 0 = a + b /\ (Z[i][k] = Lt(a) \/ Z[k][j] = Lt(b)) => Le(0) = Lt(0)
  <2>1. PICK z \in Int : z = Le(0)
    BY <1>4
  <2>2. z <= Add(Z[i][k], Z[k][j]) /\ z \in {Lt(0), Le(0)}
    BY <1>3, <1>4, <1>6, <2>1
  <2> QED
    BY <1>1, <1>4, <2>1, <2>2, AddParts
<1> QED
  BY <1>4, <1>5, <1>6 DEF a, b, c

(* The largest value of i, and whether j is what bounds it.                *)
Top(Z, i) == IF i = 0 THEN 0 ELSE Const(Z[i][0])

Slack(Z, i, j) == Const(Z[i][j]) + Top(Z, j) - Top(Z, i)

LEMMA SlackIs ==
    ASSUME NEW u \in Nat, NEW limit \in Nat, 2 * limit < Infinity,
           NEW Z \in Gridded(u, limit), NEW i \in Var, NEW j \in Var, i # j
    PROVE  /\ Top(Z, i) \in Int /\ Top(Z, j) \in Int /\ Const(Z[i][j]) \in Int
           /\ Slack(Z, i, j) \in Nat
           /\ Slack(Z, i, j) = 0 \/ Slack(Z, i, j) >= u
<1>2. \A k, l \in Var : Const(Z[k][l]) \in Multiples(u) /\ Const(Z[k][l]) \in Int
  BY GriddedIs
<1>3. 0 \in Var
  BY VarFacts
<1>4. /\ Top(Z, i) \in Int /\ Top(Z, i) \in Multiples(u)
      /\ Top(Z, j) \in Int /\ Top(Z, j) \in Multiples(u)
  BY <1>2, <1>3, ZeroIsMultiple DEF Top
<1>5. Slack(Z, i, j) \in Multiples(u) /\ Slack(Z, i, j) \in Int
  <2>1. PICK a \in Multiples(u) : a = Const(Z[i][j]) + Top(Z, j)
    BY <1>2, <1>4, MultiplesAdd
  <2>2. PICK b \in Multiples(u) : b = Top(Z, i)
    BY <1>4
  <2>3. a - b \in Multiples(u)
    BY MultiplesAdd
  <2>4. Slack(Z, i, j) = a - b
    <3>1. a \in Int /\ b \in Int
      BY DEF Multiples
    <3>2. PICK x \in Int, y \in Int : x = Const(Z[i][j]) /\ y = Top(Z, j)
      BY <1>2, <1>4
    <3>3. Slack(Z, i, j) = x + y - b /\ a = x + y
      BY <2>1, <2>2, <3>2 DEF Slack
    <3> QED
      BY <3>1, <3>3
  <2> QED
    BY <2>3, <2>4 DEF Multiples
<1>6. Slack(Z, i, j) >= 0
  <2>1. CASE i = 0
    <3>1. 0 <= Const(Z[0][j]) + Const(Z[j][0])
      BY <1>3, CornerIs
    <3>2. Slack(Z, 0, j) = Const(Z[0][j]) + Const(Z[j][0]) - 0
      BY <1>2, <1>3, <2>1 DEF Slack, Top
    <3>3. Slack(Z, 0, j) >= 0
      BY <1>2, <1>3, <3>1, <3>2
    <3> QED
      BY Zenon, <2>1, <3>3
  <2>2. CASE i # 0 /\ j = 0
    <3>1. Slack(Z, i, j) = Const(Z[i][0]) - Const(Z[i][0])
      BY <1>2, <1>3, <2>2 DEF Slack, Top
    <3> QED
      BY <1>2, <1>3, <3>1
  <2>3. CASE i # 0 /\ j # 0
    <3>1. Const(Z[i][0]) <= Const(Z[i][j]) + Const(Z[j][0])
      BY <1>3, <2>3, CornerIs
    <3>2. Slack(Z, i, j) = Const(Z[i][j]) + Const(Z[j][0]) - Const(Z[i][0])
      BY <1>2, <1>3, <2>3 DEF Slack, Top
    <3> QED
      BY <1>2, <1>3, <3>1, <3>2
  <2> QED
    BY <2>1, <2>2, <2>3
<1>7. Slack(Z, i, j) = 0 \/ Slack(Z, i, j) >= u
  BY <1>5, <1>6, NextMultiple
<1> QED
  BY <1>2, <1>4, <1>5, <1>6, <1>7

(* The variables that must stay a tick behind j... *)
Tight(Z, i, j) == i # j /\ Slack(Z, i, j) = 0

Behind(Z, j) == {i \in Var : Tight(Z, i, j) /\ Z[i][j] = Lt(Const(Z[i][j]))}

LEMMA BehindGrows ==
    ASSUME NEW u \in Nat, NEW limit \in Nat, 2 * limit < Infinity,
           NEW Z \in Gridded(u, limit), NEW i \in Var, NEW j \in Var, Tight(Z, i, j)
    PROVE  /\ Behind(Z, i) \subseteq Behind(Z, j)
           /\ Z[i][j] = Lt(Const(Z[i][j])) => i \in Behind(Z, j)
           /\ i \notin Behind(Z, i)
<1>2. \A k, l \in Var : Const(Z[k][l]) \in Int
  BY GriddedIs
<1>3. ASSUME NEW k \in Behind(Z, i) PROVE k \in Behind(Z, j)
  <2>1. k \in Var /\ k # i /\ Slack(Z, k, i) = 0 /\ Z[k][i] = Lt(Const(Z[k][i]))
    BY DEF Behind, Tight
  <2>2. Top(Z, i) \in Int /\ Top(Z, j) \in Int /\ Top(Z, k) \in Int
    BY <2>1, SlackIs DEF Tight
  <2>3. /\ Const(Z[k][i]) + Top(Z, i) = Top(Z, k)
        /\ Const(Z[i][j]) + Top(Z, j) = Top(Z, i)
    <3>1. PICK a \in Int, b \in Int : a = Const(Z[k][i]) /\ b = Const(Z[i][j])
      BY <1>2, <2>1
    <3>2. PICK x \in Int, y \in Int, z \in Int : x = Top(Z, i) /\ y = Top(Z, j) /\ z = Top(Z, k)
      BY <2>2
    <3>3. Slack(Z, k, i) = a + x - z /\ Slack(Z, i, j) = b + y - x
      BY <3>1, <3>2 DEF Slack
    <3>4. a + x - z = 0 /\ b + y - x = 0
      BY <2>1, <3>3 DEF Tight
    <3>5. a + x = z /\ b + y = x
      BY <3>4
    <3> QED
      BY <3>1, <3>2, <3>5
  <2>4. CASE k = j
    <3>1. 0 = Const(Z[j][i]) + Const(Z[i][j])
      BY <1>2, <2>2, <2>3, <2>4
    <3> QED
      BY ONLY <2>1, <2>4, <3>1, CornerIs, i \in Var, j \in Var, u \in Nat, limit \in Nat,
              2 * limit < Infinity, Z \in Gridded(u, limit)
  <2>5. CASE k # j
    <3>2. /\ Const(Z[k][j]) <= Const(Z[k][i]) + Const(Z[i][j])
          /\ Const(Z[k][j]) = Const(Z[k][i]) + Const(Z[i][j]) => Z[k][j] = Lt(Const(Z[k][j]))
      BY <2>1, <2>5, CornerIs
    <3>3. Const(Z[k][j]) + Top(Z, j) >= Top(Z, k)
      <4>1. Slack(Z, k, j) \in Nat
        BY <2>1, <2>5, SlackIs
      <4> QED
        BY <1>2, <2>1, <2>2, <4>1 DEF Slack
    <3>4. Const(Z[k][j]) = Const(Z[k][i]) + Const(Z[i][j]) /\ Slack(Z, k, j) = 0
      <4>1. PICK a \in Int, b \in Int, c \in Int :
              a = Const(Z[k][i]) /\ b = Const(Z[i][j]) /\ c = Const(Z[k][j])
        BY <1>2, <2>1
      <4>2. PICK x \in Int, y \in Int, z \in Int : x = Top(Z, i) /\ y = Top(Z, j) /\ z = Top(Z, k)
        BY <2>2
      <4>3. a + x = z /\ b + y = x /\ c <= a + b /\ c + y >= z
        BY <2>3, <3>2, <3>3, <4>1, <4>2
      <4>4. c = a + b /\ c + y - z = 0
        BY <4>3
      <4> QED
        BY <4>1, <4>2, <4>4 DEF Slack
    <3> QED
      BY <2>1, <2>5, <3>2, <3>4 DEF Behind, Tight
  <2> QED
    BY <2>4, <2>5
<1> QED
  BY <1>3 DEF Behind, Tight

Rank(Z, i) == Cardinality(Behind(Z, i))

LEMMA RankIs ==
    ASSUME NEW u \in Nat, NEW limit \in Nat, 2 * limit < Infinity,
           NEW Z \in Gridded(u, limit)
    PROVE  /\ \A i \in Var : Rank(Z, i) \in 0 .. Dim
           /\ \A i, j \in Var : Tight(Z, i, j) =>
                /\ Rank(Z, i) <= Rank(Z, j)
                /\ Z[i][j] = Lt(Const(Z[i][j])) => Rank(Z, i) < Rank(Z, j)
<1>1. IsFiniteSet(Var) /\ Cardinality(Var) = Dim + 1 /\ Dim \in Nat
  <2>1. Dim \in Nat /\ 0 \in Int /\ Dim \in Int /\ ~ 0 > Dim /\ Dim - 0 + 1 = Dim + 1
    BY DBMAssumption
  <2>2. IsFiniteSet(0 .. Dim) /\ Cardinality(0 .. Dim) = Dim - 0 + 1
    BY <2>1, FS_Interval
  <2> QED
    BY <2>1, <2>2 DEF Var
<1>2. ASSUME NEW i \in Var PROVE IsFiniteSet(Behind(Z, i)) /\ Rank(Z, i) \in 0 .. Dim
  <2>1. Behind(Z, i) \subseteq Var \ {i}
    BY DEF Behind, Tight
  <2>2. IsFiniteSet(Var \ {i}) /\ Cardinality(Var \ {i}) = Dim
    BY <1>1, FS_RemoveElement
  <2>3. /\ IsFiniteSet(Behind(Z, i)) /\ Cardinality(Behind(Z, i)) <= Dim
        /\ Cardinality(Behind(Z, i)) \in Nat
    BY <2>1, <2>2, FS_Subset, FS_CardinalityType
  <2> QED
    BY <1>1, <2>3 DEF Rank
<1>3. ASSUME NEW i \in Var, NEW j \in Var, Tight(Z, i, j)
      PROVE  /\ Rank(Z, i) <= Rank(Z, j)
             /\ Z[i][j] = Lt(Const(Z[i][j])) => Rank(Z, i) < Rank(Z, j)
  <2>1. /\ Behind(Z, i) \subseteq Behind(Z, j)
        /\ Z[i][j] = Lt(Const(Z[i][j])) => i \in Behind(Z, j)
        /\ i \notin Behind(Z, i)
    BY <1>3, BehindGrows
  <2>2. Rank(Z, i) <= Rank(Z, j)
    BY <1>2, <2>1, FS_Subset DEF Rank
  <2>3. ASSUME i \in Behind(Z, j) PROVE Rank(Z, i) < Rank(Z, j)
    <3>1. Behind(Z, i) # Behind(Z, j)
      BY <2>1, <2>3
    <3>2. Rank(Z, i) = Rank(Z, j) => Behind(Z, i) = Behind(Z, j)
      BY <1>2, <2>1, FS_Subset DEF Rank
    <3> QED
      BY <1>2, <2>2, <3>1, <3>2
  <2> QED
    BY <2>1, <2>2, <2>3
<1> QED
  BY <1>2, <1>3

THEOREM GriddedHasPoint ==
    ASSUME NEW u \in Nat, u > Dim, NEW limit \in Nat, 2 * limit < Infinity,
           NEW Z \in Gridded(u, limit)
    PROVE  \E v \in Valuation : v[0] = 0 /\ Sat(v, Z)
<1> DEFINE v == [i \in Var |-> Top(Z, i) + Rank(Z, i) - Rank(Z, 0)]
<1>0. 0 \in Var /\ Dim \in Nat
  BY VarFacts, DBMAssumption
<1>1. /\ Z \in Matrix /\ IsSatisfiableWithoutCanonize(Z)
      /\ \A k, l \in Var : /\ Const(Z[k][l]) \in Int
                            /\ Z[k][l] \in {Lt(Const(Z[k][l])), Le(Const(Z[k][l]))}
                            /\ Z[k][l] \in Int
  BY GriddedIs
<1>2. \A i \in Var : Top(Z, i) \in Int /\ Rank(Z, i) \in 0 .. Dim /\ Rank(Z, i) \in Int
  <2> TAKE i \in Var
  <2>1. Rank(Z, i) \in 0 .. Dim
    BY RankIs
  <2> QED
    BY <1>0, <1>1, <2>1 DEF Top
<1>3. v \in Valuation /\ v[0] = 0 /\ \A i \in Var : v[i] = Top(Z, i) + Rank(Z, i) - Rank(Z, 0)
  <2>1. \A i \in Var : Top(Z, i) + Rank(Z, i) - Rank(Z, 0) \in Int
    BY <1>0, <1>2
  <2>2. Top(Z, 0) = 0
    BY DEF Top
  <2> QED
    BY <1>0, <1>2, <2>1, <2>2 DEF Valuation
<1> HIDE DEF v
<1>4. ASSUME NEW i \in Var, NEW j \in Var PROVE Holds(v[i] - v[j], Z[i][j])
  <2>1. CASE i = j
    <3>1. Z[i][i] >= Le(0) /\ v[i] - v[i] = 0
      BY <1>1, <1>3, SatisfiableDiagonal DEF Valuation
    <3> QED
      BY <1>1, <2>1, <3>1 DEF Holds, Le
  <2>2. CASE i # j
    <3> DEFINE k == Const(Z[i][j])
    <3>1. v[i] - v[j] = (Top(Z, i) - Top(Z, j)) + (Rank(Z, i) - Rank(Z, j))
      BY <1>0, <1>2, <1>3
    <3>2. /\ Slack(Z, i, j) = 0 \/ Slack(Z, i, j) >= u
          /\ Top(Z, i) - Top(Z, j) = k - Slack(Z, i, j) /\ Slack(Z, i, j) \in Int
      BY <1>1, <1>2, <2>2, SlackIs DEF Slack
    <3>3. k \in Int /\ Z[i][j] \in {Lt(k), Le(k)}
      BY <1>1
    <3>4. CASE Slack(Z, i, j) >= u
      <4>1. Rank(Z, i) - Rank(Z, j) <= Dim
        BY <1>0, <1>2
      <4> HIDE DEF k
      <4>2. v[i] - v[j] <= k - 1 /\ v[i] - v[j] \in Int
        BY <1>0, <1>2, <3>1, <3>2, <3>3, <3>4, <4>1
      <4> QED
        BY <3>3, <4>2 DEF Holds, Lt, Le
    <3>5. CASE Slack(Z, i, j) = 0
      <4>1. Tight(Z, i, j)
        BY <2>2, <3>5 DEF Tight
      <4>2. /\ Rank(Z, i) <= Rank(Z, j)
            /\ Z[i][j] = Lt(k) => Rank(Z, i) < Rank(Z, j)
        BY <4>1, RankIs
      <4> HIDE DEF k
      <4>3. /\ v[i] - v[j] \in Int /\ v[i] - v[j] <= k
            /\ Z[i][j] = Lt(k) => v[i] - v[j] < k
        BY <1>2, <3>1, <3>2, <3>3, <3>5, <4>2
      <4> QED
        BY <3>3, <4>3 DEF Holds, Lt, Le
    <3> QED
      BY <3>2, <3>4, <3>5
  <2> QED
    BY <2>1, <2>2
<1>5. Sat(v, Z)
  BY <1>4 DEF Sat
<1> QED
  BY <1>3, <1>5
-----------------------------------------------------------------------------
CoarseMatrix(u) == {Z \in Matrix : \A i, j \in Var : Z[i][j] \in Coarse(u)}

LEMMA Close1Coarse ==
    ASSUME NEW u \in Nat, NEW Z \in CoarseMatrix(u), NEW x \in Var
    PROVE  Close1(Z, x) \in CoarseMatrix(u)
<1>1. Z \in Matrix /\ Close1(Z, x) \in Matrix
  BY Close1Type DEF CoarseMatrix
<1>2. ASSUME NEW i \in Var, NEW j \in Var PROVE Close1(Z, x)[i][j] \in Coarse(u)
  <2>1. PICK a \in Coarse(u), b \in Coarse(u), c \in Coarse(u), d \in Coarse(u) :
          a = Z[i][j] /\ b = Z[i][x] /\ c = Z[x][j] /\ d = Z[x][x]
    BY DEF CoarseMatrix
  <2>2. PICK e \in Coarse(u) : e = Lower(c, Add(d, c))
    <3>1. PICK s \in Coarse(u) : s = Add(d, c)
      BY CoarseOps
    <3> QED
      BY <3>1, CoarseOps
  <2>3. PICK e1 \in Coarse(u) : e1 = Lower(a, Add(b, e))
    <3>1. PICK s \in Coarse(u) : s = Add(b, e)
      BY CoarseOps
    <3> QED
      BY <3>1, CoarseOps
  <2>4. PICK e2 \in Coarse(u) : e2 = Lower(a, Add(b, c))
    <3>1. PICK s \in Coarse(u) : s = Add(b, c)
      BY CoarseOps
    <3> QED
      BY <3>1, CoarseOps
  <2>5. Close1(Z, x)[i][j] = Lower(a, Add(b, IF i > x THEN e ELSE c))
    BY <2>1, <2>2, Close1At
  <2> QED
    BY <2>3, <2>4, <2>5
<1> QED
  BY <1>1, <1>2 DEF CoarseMatrix

LEMMA TightenWithoutCloseCoarse ==
    ASSUME NEW u \in Nat, NEW Z \in CoarseMatrix(u), NEW x \in Var, NEW y \in Var,
           NEW b \in Coarse(u)
    PROVE  TightenWithoutClose(Z, x, y, b) \in CoarseMatrix(u)
<1>1. Z \in Matrix /\ b \in Bound /\ \A i, j \in Var : Z[i][j] \in Coarse(u)
  BY DEF CoarseMatrix, Coarse
<1>2. Lower(Z[x][y], b) \in Coarse(u)
  BY <1>1, CoarseOps
<1> DEFINE W == TightenWithoutClose(Z, x, y, b)
<1>3. W \in Matrix /\ \A i, j \in Var : W[i][j] = IF i = x /\ j = y THEN Lower(Z[x][y], b) ELSE Z[i][j]
  BY <1>1, TightenWithoutCloseIs
<1> HIDE DEF W
<1>4. \A i, j \in Var : W[i][j] \in Coarse(u)
  BY <1>1, <1>2, <1>3
<1>5. W \in CoarseMatrix(u)
  BY <1>3, <1>4 DEF CoarseMatrix
<1> QED
  BY <1>5 DEF W

LEMMA TightenCoarse ==
    ASSUME NEW u \in Nat, NEW Z \in CoarseMatrix(u), NEW x \in Var, NEW y \in Var,
           NEW b \in Coarse(u)
    PROVE  Tighten(Z, x, y, b) \in CoarseMatrix(u)
<1>1. TightenWithoutClose(Z, x, y, b) \in CoarseMatrix(u)
  BY TightenWithoutCloseCoarse
<1>2. Close1(TightenWithoutClose(Z, x, y, b), x) \in CoarseMatrix(u)
  BY <1>1, Close1Coarse
<1> QED
  BY <1>2, Close1Coarse DEF Tighten

LEMMA ComplementExcludes ==
    ASSUME NEW b \in Bound, b # Infinity, Complement(b) # Infinity,
           NEW d \in Int, Holds(-d, Complement(b))
    PROVE  ~ Holds(d, b)
  BY DEF Holds, Complement, Bound

(* merge only refuses when the hull contains a point that neither zone     *)
(* contains.                                                               *)
THEOREM RefusedRightly ==
    ASSUME NEW u \in Nat, u > Dim, NEW limit \in Nat, 8 * limit < Infinity,
           NEW F \in Settled(limit) \cap CoarseMatrix(u),
           NEW E \in Settled(limit) \cap CoarseMatrix(u), ~ Mergeable(F, E)
    PROVE  \E v \in Valuation : /\ v[0] = 0 /\ Sat(v, ConvexUnion(F, E))
                                /\ ~ Sat(v, F) /\ ~ Sat(v, E)
<1> DEFINE hull == ConvexUnion(F, E)
<1>1. hull \in Settled(limit) /\ hull \in Matrix /\ hull \in CoarseMatrix(u)
  <2>1. F \in Matrix /\ E \in Matrix /\ F \in Settled(limit) /\ E \in Settled(limit)
    BY DEF Settled
  <2>2. hull \in Settled(limit) /\ hull \in Matrix
    BY <2>1, UnionIs, MergeSettles
  <2>3. \A i, j \in Var : hull[i][j] \in {F[i][j], E[i][j]}
    BY <2>1, UnionIs
  <2> HIDE DEF hull
  <2>4. \A i, j \in Var : hull[i][j] \in Coarse(u)
    BY <2>3 DEF CoarseMatrix
  <2> QED
    BY <2>2, <2>4 DEF CoarseMatrix
<1>2. ~ \A i, j \in Var : i # j => CutIncluded(F, E, hull, i, j)
  BY Zenon, EvaluatedIs DEF Mergeable
<1>3. PICK i \in Var, j \in Var : i # j /\ ~ CutIncluded(F, E, hull, i, j)
  BY <1>2
<1>4. hull = ConvexUnion(F, E)
  OBVIOUS
<1> HIDE DEF hull
<1> DEFINE b == Complement(F[j][i])
           cut == Tighten(hull, i, j, b)
<1>5. /\ F \in Matrix /\ IsSatisfiableWithoutCanonize(F)
      /\ E \in Matrix /\ IsSatisfiableWithoutCanonize(E)
      /\ Canonical(hull) /\ IsSatisfiableWithoutCanonize(hull)
      /\ \A k, l \in Var : F[k][l] <= limit /\ E[k][l] <= limit /\ hull[k][l] <= limit
      /\ \A k \in Var : hull[k][k] <= Le(0)
  BY <1>1 DEF Settled
<1>6. limit < Infinity /\ 6 * limit < Infinity /\ 2 * limit < Infinity /\ Infinity \in Nat /\ Le(0) \in Int
  BY DBMAssumption DEF Le
<1>7. b \in Bound /\ b <= limit
  BY <1>5, <1>6, ComplementWithin
<1>8. \A k, l \in Var : /\ F[k][l] \in Bound /\ E[k][l] \in Bound /\ hull[k][l] \in Bound
                        /\ F[k][l] \in Coarse(u) /\ E[k][l] \in Coarse(u)
                        /\ F[k][l] # Infinity /\ E[k][l] # Infinity
  BY <1>1, <1>5, <1>6 DEF Matrix, CoarseMatrix
<1>9. ~ (hull[i][j] <= b) /\ ~ Included(cut, E)
  <2>1. CutIncluded(F, E, hull, i, j) <=> CutIs(F, E, hull, i, j)
    BY <1>1, <1>7, CutTightens
  <2> QED
    BY <1>3, <2>1 DEF CutIs
<1>10. b \in Coarse(u)
  <2>1. PICK a \in Coarse(u) : a = F[j][i] /\ a # Infinity
    BY <1>8
  <2>2. Complement(a) < Infinity
    BY <1>6, <1>7, <2>1 DEF Bound
  <2>3. Complement(a) \in Coarse(u)
    BY <2>1, <2>2, CoarseOps
  <2> QED
    BY <2>1, <2>3
<1>11. cut \in CoarseMatrix(u)
  BY <1>1, <1>10, TightenCoarse
<1>12. /\ cut \in Matrix /\ cut[i][j] <= b
       /\ \A k, l \in Var : cut[k][l] <= hull[k][l]
  BY <1>1, <1>7, TightenShortens
<1>13. AllWithin(hull, limit)
  BY <1>5 DEF AllWithin, Within
<1>14. IsSatisfiableWithoutCanonize(cut) /\ ~ \A k, l \in Var : cut[k][l] <= E[k][l]
  BY <1>9 DEF Included
<1>15. Canonical(cut)
  BY <1>1, <1>5, <1>7, <1>13, <1>14, TightenCanonical
<1>16. ASSUME NEW v \in Valuation, Sat(v, cut)
       PROVE  Sat(v, hull) /\ ~ Sat(v, F)
  <2>1. Sat(v, hull) /\ Holds(v[i] - v[j], b)
    BY <1>1, <1>7, <1>16, TightenExact
  <2>2. v[i] - v[j] = -(v[j] - v[i]) /\ v[j] - v[i] \in Int
    BY DEF Valuation
  <2>3. b # Infinity
    BY <1>6, <1>7 DEF Bound
  <2>4. ~ Holds(v[j] - v[i], F[j][i])
    BY <1>8, <2>1, <2>2, <2>3, ComplementExcludes
  <2> QED
    BY <2>1, <2>4 DEF Sat
<1> HIDE DEF cut
<1>17. \A k, l \in Var : cut[k][l] \in Bound /\ cut[k][l] <= limit
  <2> TAKE k, l \in Var
  <2>1. cut[k][l] \in Bound
    BY <1>12 DEF Matrix
  <2> QED
    BY <1>5, <1>8, <1>12, <2>1 DEF Bound
<1>18. PICK k \in Var, l \in Var : ~ cut[k][l] <= E[k][l]
  BY <1>14
<1>19. E[k][l] < cut[k][l] /\ k # l
  <2>1. E[k][l] < cut[k][l]
    BY <1>8, <1>17, <1>18 DEF Bound
  <2>2. ASSUME k = l PROVE FALSE
    <3>1. E[k][k] >= Le(0)
      BY <1>5, SatisfiableDiagonal
    <3>2. cut[k][k] <= hull[k][k] /\ hull[k][k] <= Le(0)
      BY <1>5, <1>12
    <3>3. E[k][k] \in Int /\ cut[k][k] \in Int /\ hull[k][k] \in Int
      BY <1>8, <1>17 DEF Bound
    <3> QED
      BY <1>6, <2>1, <2>2, <3>1, <3>2, <3>3
  <2> QED
    BY <2>1, <2>2
<1> DEFINE c == Complement(E[k][l])
           X == Tighten(cut, l, k, c)
<1>20. c \in Bound /\ c <= limit
  BY <1>5, <1>6, ComplementWithin
<1>21. Add(cut[k][l], c) >= Le(0)
  BY <1>8, <1>17, <1>19, <1>20, NoContradiction
<1>22. AllWithin(cut, limit)
  BY <1>17 DEF AllWithin, Within
<1>23. limit >= Le(0)
  <2>1. hull[i][i] >= Le(0) /\ hull[i][i] <= limit /\ hull[i][i] \in Int
    BY <1>1, <1>5, <1>8, SatisfiableDiagonal DEF Bound
  <2> QED
    BY <1>6, <2>1
<1>24. c \in Coarse(u) /\ c # Infinity
  <2>1. PICK a \in Coarse(u) : a = E[k][l] /\ a # Infinity
    BY <1>8
  <2>2. Complement(a) < Infinity /\ c # Infinity
    BY <1>6, <1>20, <2>1 DEF Bound
  <2>3. Complement(a) \in Coarse(u)
    BY <2>1, <2>2, CoarseOps
  <2> QED
    BY <2>1, <2>2, <2>3
<1>25. ASSUME NEW v \in Valuation, Sat(v, X)
       PROVE  Sat(v, cut) /\ ~ Sat(v, E)
  <2>1. Sat(v, cut) /\ Holds(v[l] - v[k], c)
    BY <1>12, <1>20, <1>25, TightenExact
  <2>2. v[l] - v[k] = -(v[k] - v[l]) /\ v[k] - v[l] \in Int
    BY DEF Valuation
  <2>3. ~ Holds(v[k] - v[l], E[k][l])
    BY <1>8, <1>24, <2>1, <2>2, ComplementExcludes
  <2> QED
    BY <2>1, <2>3 DEF Sat
<1> HIDE DEF c
<1>26. IsSatisfiableWithoutCanonize(X)
  BY <1>6, <1>12, <1>15, <1>14, <1>19, <1>20, <1>21, <1>22, <1>23, TightenSatisfiable
<1>27. X \in Matrix /\ \A x, y \in Var : X[x][y] <= cut[x][y]
  BY <1>12, <1>20, TightenShortens
<1>28. Canonical(X)
  BY <1>12, <1>15, <1>20, <1>22, <1>26, TightenCanonical
<1>29. X \in CoarseMatrix(u)
  BY <1>11, <1>24, TightenCoarse
<1> HIDE DEF X
<1>30. X \in Gridded(u, limit)
  <2> SUFFICES ASSUME NEW x \in Var, NEW y \in Var PROVE X[x][y] \in Coarse(u) /\ X[x][y] <= limit
    BY <1>26, <1>27, <1>28 DEF Gridded
  <2>1. X[x][y] \in Coarse(u) /\ X[x][y] \in Int
    BY <1>29 DEF CoarseMatrix, Coarse, Bound
  <2>2. X[x][y] <= cut[x][y] /\ cut[x][y] <= limit /\ cut[x][y] \in Int
    BY <1>17, <1>27 DEF Bound
  <2> QED
    BY <2>1, <2>2
<1>31. PICK v \in Valuation : v[0] = 0 /\ Sat(v, X)
  BY <1>6, <1>30, GriddedHasPoint
<1>32. Sat(v, cut) /\ ~ Sat(v, E)
  BY <1>25, <1>31
<1>33. Sat(v, hull) /\ ~ Sat(v, F)
  BY <1>16, <1>32
<1> QED
  BY <1>4, <1>31, <1>32, <1>33

(* Canonizing keeps what every single closure keeps.                       *)
LEMMA CanonizePreserves ==
    ASSUME NEW S, S \subseteq Matrix, NEW Z \in S, \A M \in S : \A x \in Var : Close1(M, x) \in S
    PROVE  Canonize(Z) \in S
<1>1. PICK closed : ClosedUpTo(closed, Z, Dim + 1) /\ Canonize(Z) = closed[Dim + 1]
  BY CanonizeRuns
<1> DEFINE Kept == {k \in 0 .. Dim + 1 : closed[k] \in S}
<1>0. Dim + 1 \in Nat
  BY DBMAssumption
<1>2. 0 \in Kept
  BY <1>0, <1>1 DEF ClosedUpTo
<1>3. ASSUME NEW k \in 0 .. (Dim + 1) - 1, k \in Kept PROVE k + 1 \in Kept
  <2>1. k + 1 \in 0 .. Dim + 1 /\ k \in Var /\ (k + 1) - 1 = k /\ k + 1 # 0
    BY DBMAssumption DEF Var
  <2>2. closed[k + 1] = Close1(closed[k], k)
    BY <1>1, <2>1 DEF ClosedUpTo
  <2> QED
    BY <1>3, <2>1, <2>2
<1>4. \A k \in 0 .. Dim + 1 : k \in Kept
  <2> HIDE DEF Kept
  <2> QED
    BY <1>0, <1>2, <1>3, InductionUpTo
<1> QED
  BY <1>0, <1>1, <1>4

LEMMA CanonizeCoarse ==
    ASSUME NEW u \in Nat, NEW Z \in CoarseMatrix(u)
    PROVE  Canonize(Z) \in CoarseMatrix(u)
<1>1. PICK S : S = CoarseMatrix(u)
  OBVIOUS
<1>2. S \subseteq Matrix /\ Z \in S /\ \A M \in S : \A x \in Var : Close1(M, x) \in S
  BY <1>1, Close1Coarse DEF CoarseMatrix
<1>3. Canonize(Z) \in S
  BY <1>2, CanonizePreserves
<1> QED
  BY <1>1, <1>3

LEMMA CoarseBounds ==
    ASSUME NEW u \in Nat
    PROVE  Infinity \in Coarse(u) /\ Le(0) \in Coarse(u)
<1>1. Infinity \in Bound /\ Le(0) \in Bound
  BY DBMAssumption DEF Bound, Le
<1> QED
  BY <1>1, ZeroIsMultiple DEF Coarse

LEMMA ElapseCoarse ==
    ASSUME NEW u \in Nat, NEW Z \in CoarseMatrix(u)
    PROVE  Elapse(Z) \in CoarseMatrix(u)
<1>1. Z \in Matrix /\ 0 \in Var /\ \A i, j \in Var : Z[i][j] \in Coarse(u)
  BY VarFacts DEF CoarseMatrix
<1>2. /\ Elapse(Z) \in Matrix
      /\ \A i, j \in Var : Elapse(Z)[i][j] =
           IF j = 0 THEN Infinity ELSE IF i = 0 THEN Strict(Z[0][j]) ELSE Z[i][j]
  BY <1>1, ElapseIs
<1>3. ASSUME NEW i \in Var, NEW j \in Var PROVE Elapse(Z)[i][j] \in Coarse(u)
  <2>1. PICK a \in Coarse(u) : a = Z[0][j]
    BY <1>1
  <2>2. Strict(a) \in Coarse(u)
    BY CoarseOps
  <2> QED
    BY <1>1, <1>2, <2>1, <2>2, CoarseBounds
<1> QED
  BY <1>2, <1>3 DEF CoarseMatrix

LEMMA ResetCoarse ==
    ASSUME NEW u \in Nat, NEW Z \in CoarseMatrix(u), NEW x \in Var
    PROVE  Reset(Z, x) \in CoarseMatrix(u)
<1>1. Z \in Matrix /\ 0 \in Var /\ \A i, j \in Var : Z[i][j] \in Coarse(u)
  BY VarFacts DEF CoarseMatrix
<1>2. Aliased(Z, x) \in Matrix /\ Reset(Z, x) = Close1(Aliased(Z, x), x)
  BY <1>1, ResetShortens
<1>3. \A i, j \in Var : Aliased(Z, x)[i][j] \in Coarse(u)
  BY <1>1, CoarseBounds DEF Aliased
<1>4. Aliased(Z, x) \in CoarseMatrix(u)
  BY <1>2, <1>3 DEF CoarseMatrix
<1> QED
  BY <1>2, <1>4, Close1Coarse

LEMMA GuardedCoarse ==
    ASSUME NEW u \in Nat, NEW Z \in CoarseMatrix(u), NEW guard, IsGuard(guard),
           \A c \in guard : c.c \in Multiples(u)
    PROVE  Guarded(Z, guard) \in CoarseMatrix(u)
<1>1. Z \in Matrix /\ \A i, j \in Var : Z[i][j] \in Coarse(u)
  BY DEF CoarseMatrix
<1>2. ASSUME NEW c \in guard PROVE BoundOf(c) \in Coarse(u)
  <2>1. PICK t \in Multiples(u) : t = c.c
    OBVIOUS
  <2>2. -t \in Multiples(u)
    BY MultiplesAdd
  <2>3. c.odr \in {"lt", "le", "gt", "ge"}
    BY DEF IsGuard, Constraint, Orders
  <2>4. BoundOf(c) \in {Lt(t), Le(t), Lt(-t), Le(-t)}
    BY <2>1, <2>3 DEF BoundOf
  <2>5. BoundOf(c) \in Bound
    <3>1. t \in Int /\ -t \in Int
      BY DEF Multiples
    <3>2. BoundOf(c) \in Int /\ BoundOf(c) < Infinity
      BY <2>4, <3>1 DEF IsGuard, Lt, Le
    <3> QED
      BY <3>2, DBMAssumption DEF Bound
  <2> QED
    BY <2>2, <2>4, <2>5 DEF Coarse
<1>3. ASSUME NEW i \in Var, NEW j \in Var PROVE Guarded(Z, guard)[i][j] \in Coarse(u)
  <2>1. Guarded(Z, guard)[i][j] \in Bounds(Z, guard, i, j)
    BY <1>1, LeastBound
  <2> QED
    BY <1>1, <1>2, <2>1 DEF Bounds
<1> QED
  BY <1>1, <1>3, GuardedExact DEF CoarseMatrix


-----------------------------------------------------------------------------
(* Dense time.  A point of a zone need not come from a point of whole      *)
(* units, so here a valuation counts m-ths of the unit, for any m: this is *)
(* every rational valuation.  The steps are followed backwards.            *)

HoldsAt(m, d, b) ==
    b = Infinity \/ d < m * Const(b) \/ (b = Le(Const(b)) /\ d = m * Const(b))

SatAt(m, v, Z) == \A i, j \in Var : HoldsAt(m, v[i] - v[j], Z[i][j])

(* The same valuation, counted in n times as many ticks.                   *)
Finer(n, v) == [x \in Var |-> n * v[x]]

Positive == Nat \ {0}

LEMMA TimesLess ==
    ASSUME NEW m \in Positive, NEW p \in Int, NEW q \in Int
    PROVE  /\ p < q => m * p + m <= m * q
           /\ p <= q => m * p <= m * q
           /\ p < q <=> m * p < m * q
           /\ p = q <=> m * p = m * q
<1>1. m \in Int /\ m >= 1 /\ m * p \in Int /\ m * q \in Int
  BY DEF Positive
<1>2. ASSUME NEW k \in Nat PROVE m * k \in Nat
  BY <1>1, <1>2
<1>3. ASSUME NEW a \in Int, NEW b \in Int, a < b PROVE m * a + m <= m * b
  <2>1. b - a - 1 \in Nat
    BY <1>3
  <2>2. m * (b - a - 1) \in Nat
    BY <1>2, <2>1
  <2>3. m * (b - a - 1) = m * b - m * a - m
    BY <1>1
  <2>4. m * b \in Int /\ m * a \in Int
    BY <1>1
  <2> QED
    BY <1>1, <2>2, <2>3, <2>4
<1>4. p < q => m * p + m <= m * q
  BY <1>3
<1>5. q < p => m * q + m <= m * p
  BY <1>3
<1> QED
  BY <1>1, <1>4, <1>5

LEMMA ConstIs ==
    ASSUME NEW b \in Int
    PROVE  /\ Const(b) \in Int /\ b \in {Lt(Const(b)), Le(Const(b))}
           /\ Lt(Const(b)) # Le(Const(b))
  BY DEF Const, Lt, Le

(* On whole units this is what a bound has meant so far.                   *)
LEMMA HoldsAtOne ==
    ASSUME NEW d \in Int, NEW b \in Bound
    PROVE  HoldsAt(1, d, b) <=> Holds(d, b)
  BY DEF HoldsAt, Holds, Bound, Const, Le

LEMMA HoldsAtMonotone ==
    ASSUME NEW m \in Positive, NEW d \in Int, NEW a \in Bound, NEW b \in Bound, a <= b,
           HoldsAt(m, d, a)
    PROVE  HoldsAt(m, d, b)
<1>1. a \in Int /\ b \in Int /\ Infinity \in Int /\ m \in Int
  BY DBMAssumption DEF Bound, Positive
<1>2. CASE b = Infinity
  BY <1>2 DEF HoldsAt
<1>3. CASE b # Infinity
  <2>1. a # Infinity
    BY <1>1, <1>3 DEF Bound
  <2> DEFINE k == Const(a)
             l == Const(b)
  <2>2. k \in Int /\ l \in Int /\ a \in {Lt(k), Le(k)} /\ b \in {Lt(l), Le(l)}
    BY <1>1, ConstIs
  <2>3. d < m * k \/ (a = Le(k) /\ d = m * k)
    BY <2>1 DEF HoldsAt
  <2>4. SUFFICES d < m * l \/ (b = Le(l) /\ d = m * l)
    BY DEF HoldsAt
  <2> HIDE DEF k, l
  <2>5. m * k \in Int /\ m * l \in Int
    BY <1>1, <2>2
  <2>6. CASE k = l
    <3>1. a = Le(k) => b = Le(l)
      BY <2>2, <2>6 DEF Lt, Le
    <3> QED
      BY <2>3, <2>6, <3>1
  <2>7. CASE k < l
    <3>1. m * k < m * l
      BY <2>2, <2>7, TimesLess
    <3> QED
      BY <2>3, <2>5, <3>1
  <2>8. ~ l < k
    BY <2>2 DEF Lt, Le
  <2> QED
    BY <2>2, <2>6, <2>7, <2>8
<1> QED
  BY <1>2, <1>3

LEMMA HoldsAtFiner ==
    ASSUME NEW m \in Positive, NEW n \in Positive, NEW d \in Int, NEW b \in Bound
    PROVE  HoldsAt(m, d, b) <=> HoldsAt(n * m, n * d, b)
<1>1. PICK c : c = Const(b)
  OBVIOUS
<1>2. c \in Int /\ m \in Int /\ n \in Int
  BY <1>1, ConstIs DEF Bound, Positive
<1>3. m * c \in Int /\ (n * m) * c = n * (m * c)
  BY <1>2
<1>4. /\ d < m * c <=> n * d < n * (m * c)
      /\ d = m * c <=> n * d = n * (m * c)
  BY <1>3, TimesLess
<1> QED
  BY <1>1, <1>3, <1>4 DEF HoldsAt

(* The least value t, in halves of a tick, that stays within the bound a   *)
(* on p - t.                                                               *)
Least(m, p, a) == 2 * p - 2 * (m * Const(a)) + (IF a = Le(Const(a)) THEN 0 ELSE 1)

LEMMA LeastIs ==
    ASSUME NEW m \in Positive, NEW p \in Int, NEW a \in Bound
    PROVE  /\ Least(m, p, a) \in Int
           /\ \A t \in Int : t >= Least(m, p, a) => HoldsAt(2 * m, 2 * p - t, a)
<1>1. PICK c : c = Const(a)
  OBVIOUS
<1>2. c \in Int /\ m \in Int
  BY <1>1, ConstIs DEF Bound, Positive
<1>3. m * c \in Int /\ (2 * m) * c = 2 * (m * c)
  BY <1>2
<1>4. Least(m, p, a) = 2 * p - 2 * (m * c) + (IF a = Le(c) THEN 0 ELSE 1)
  BY <1>1 DEF Least
<1>5. ASSUME NEW t \in Int
      PROVE  HoldsAt(2 * m, 2 * p - t, a) <=>
               \/ a = Infinity \/ 2 * p - t < 2 * (m * c)
               \/ a = Le(c) /\ 2 * p - t = 2 * (m * c)
  BY <1>1, <1>3 DEF HoldsAt
<1> QED
  BY <1>3, <1>4, <1>5

(* A value for a variable that its lower bounds allow is one that its upper*)
(* bounds allow, if the two other variables are as far apart as the bounds *)
(* together say: half a tick is room enough for one strict bound.          *)
LEMMA Between ==
    ASSUME NEW m \in Positive, NEW p \in Int, NEW q \in Int,
           NEW a \in Bound, NEW b \in Bound, NEW c \in Bound, c <= Add(a, b),
           NEW limit \in Nat, 2 * limit < Infinity, a <= limit, b <= limit,
           HoldsAt(m, p - q, c)
    PROVE  HoldsAt(2 * m, Least(m, p, a) - 2 * q, b)
<1>1. PICK k, l, n : k = Const(a) /\ l = Const(b) /\ n = Const(c)
  OBVIOUS
<1>2. /\ a \in Int /\ b \in Int /\ c \in Int /\ m \in Int
      /\ k \in Int /\ l \in Int /\ n \in Int
      /\ a \in {Lt(k), Le(k)} /\ b \in {Lt(l), Le(l)} /\ c \in {Lt(n), Le(n)}
  BY <1>1, ConstIs DEF Bound, Positive
<1>3. n <= k + l /\ (n = k + l /\ (a = Lt(k) \/ b = Lt(l)) => c = Lt(n))
  BY <1>2, AddParts
<1>4. c # Infinity
  <2>1. a + b < Infinity /\ a + b - 1 < Infinity /\ a # Infinity /\ b # Infinity
    BY <1>2, DBMAssumption
  <2> QED
    BY <1>2, <2>1, DBMAssumption DEF Add
<1>5. PICK A, B, C : A = m * k /\ B = m * l /\ C = m * n
  OBVIOUS
<1>6. A \in Int /\ B \in Int /\ C \in Int /\ m * (k + l) = A + B /\ (2 * m) * l = 2 * B
  BY <1>2, <1>5
<1>7. p - q < C \/ (c = Le(n) /\ p - q = C)
  BY <1>1, <1>4, <1>5 DEF HoldsAt
<1>8. C <= A + B /\ (C = A + B => n = k + l)
  <2>1. k + l \in Int
    BY <1>2
  <2>2. (n <= k + l => m * n <= m * (k + l)) /\ (n = k + l <=> m * n = m * (k + l))
    BY <1>2, <2>1, TimesLess
  <2> QED
    BY <1>3, <1>5, <1>6, <2>2
<1>9. PICK e : e = IF a = Le(k) THEN 0 ELSE 1
  OBVIOUS
<1>10. Least(m, p, a) = 2 * p - 2 * A + e
  BY <1>1, <1>5, <1>9 DEF Least
<1>11. Least(m, p, a) - 2 * q < 2 * B \/ (b = Le(l) /\ Least(m, p, a) - 2 * q = 2 * B)
  <2>1. CASE p - q < A + B
    <3>1. e <= 1 /\ e \in Int
      BY <1>9
    <3> QED
      BY <1>6, <1>10, <2>1, <3>1
  <2>2. CASE p - q >= A + B
    <3>1. c = Le(n) /\ p - q = A + B /\ n = k + l
      BY <1>6, <1>7, <1>8, <2>2
    <3>2. Le(n) # Lt(n)
      BY <1>2 DEF Le, Lt
    <3>3. a = Le(k) /\ b = Le(l)
      BY <1>2, <1>3, <3>1, <3>2
    <3> QED
      BY <1>6, <1>9, <1>10, <3>1, <3>3
  <2> QED
    BY <1>6, <2>1, <2>2
<1> QED
  BY <1>1, <1>6, <1>11 DEF HoldsAt

(* So values for some variables that are within their bounds, in a zone in *)
(* canonical form, leave a value for one more, and not below a given one   *)
(* that its upper bounds allow.                                            *)
LEMMA Completed ==
    ASSUME NEW Z \in Matrix, Canonical(Z), IsSatisfiableWithoutCanonize(Z),
           NEW limit \in Nat, 2 * limit < Infinity, AllWithin(Z, limit),
           NEW m \in Positive, NEW v \in Valuation,
           NEW W, W \subseteq Var, NEW x \in Var \ W, NEW low \in Int,
           \A i, j \in W : HoldsAt(m, v[i] - v[j], Z[i][j]),
           \A j \in W : HoldsAt(2 * m, low - 2 * v[j], Z[x][j])
    PROVE  \E t \in Int : /\ t >= low
                          /\ \A j \in W : /\ HoldsAt(2 * m, t - 2 * v[j], Z[x][j])
                                                  /\ HoldsAt(2 * m, 2 * v[j] - t, Z[j][x])
<1> DEFINE Lows == {j \in W : Z[j][x] # Infinity}
           f == [j \in Lows |-> - Least(m, v[j], Z[j][x])]
           Image == {- Least(m, v[j], Z[j][x]) : j \in Lows}
<1>0. x \in Var /\ x \notin W /\ W \subseteq Var
  OBVIOUS
<1>1. \A i, j \in Var : Z[i][j] \in Bound /\ v[i] \in Int /\ (Z[i][j] = Infinity \/ Z[i][j] <= limit)
  BY DEF Matrix, Valuation, AllWithin, Within
<1>2. \A j \in Lows : Least(m, v[j], Z[j][x]) \in Int
  BY <1>1, LeastIs
<1>3. IsFiniteSet(Image)
  <2>1. IsFiniteSet(Var)
    <3>1. 0 \in Int /\ Dim \in Int
      BY DBMAssumption
    <3> QED
      BY <3>1, FS_Interval DEF Var
  <2>2. IsFiniteSet(Lows)
    BY <2>1, FS_Subset
  <2>3. f \in Surjection(Lows, Image)
    BY DEF Surjection
  <2> HIDE DEF Lows, f, Image
  <2> QED
    BY <2>2, <2>3, FS_Surjection
<1>4. Image \subseteq Int
  BY <1>2
<1>5. IsFiniteSet(Image \cup {- low})
  <2> HIDE DEF Image
  <2> QED
    BY <1>3, FS_AddElement
<1>6. PICK s \in Image \cup {- low} : \A r \in Image \cup {- low} : s <= r
  <2> HIDE DEF Image
  <2>1. Image \cup {- low} \subseteq Int
    BY <1>4
  <2> QED
    BY <1>5, <2>1, LeastOfFinite
<1>7. PICK t : t = - s
  OBVIOUS
<1>8. t \in Int /\ t >= low
  BY <1>4, <1>6, <1>7
<1>9. ASSUME NEW j \in Lows PROVE t >= Least(m, v[j], Z[j][x])
  <2>1. PICK g : g = Least(m, v[j], Z[j][x])
    OBVIOUS
  <2>2. g \in Int /\ - g \in Image
    BY <1>2, <1>9, <2>1
  <2>3. s <= - g /\ s \in Int
    BY <1>4, <1>6, <2>2
  <2> QED
    BY <1>7, <2>1, <2>2, <2>3
<1>10. ASSUME NEW j \in W PROVE HoldsAt(2 * m, 2 * v[j] - t, Z[j][x])
  <2>1. CASE Z[j][x] = Infinity
    BY <2>1 DEF HoldsAt
  <2>2. CASE Z[j][x] # Infinity
    <3>1. j \in Lows /\ j \in Var /\ x \in Var
      BY <1>10, <2>2
    <3>2. t >= Least(m, v[j], Z[j][x])
      BY <1>9, <3>1
    <3>3. v[j] \in Int /\ Z[j][x] \in Bound
      BY <1>1, <3>1
    <3> HIDE DEF Lows
    <3> QED
      BY <1>8, <3>2, <3>3, LeastIs
  <2> QED
    BY <2>1, <2>2
<1>11. ASSUME NEW j \in W PROVE HoldsAt(2 * m, t - 2 * v[j], Z[x][j])
  <2>1. CASE s = - low
    <3>1. t = low
      BY <1>7, <2>1
    <3> QED
      BY <1>11, <3>1
  <2>2. CASE s # - low
    <3>1. PICK i \in Lows : s = - Least(m, v[i], Z[i][x])
      BY <1>6, <2>2
    <3>2. /\ i \in Var /\ i # x /\ Z[i][x] # Infinity /\ j \in Var /\ j # x
          /\ i \in W /\ j \in W
      BY <1>0, <1>11
    <3>3. PICK g : g = Least(m, v[i], Z[i][x])
      OBVIOUS
    <3>4. g \in Int
      BY <1>2, <3>1, <3>3
    <3>5. t = g
      BY <1>7, <3>1, <3>3, <3>4
    <3> HIDE DEF Below, Image, f
    <3>6. PICK a, b, c : a = Z[i][x] /\ b = Z[x][j] /\ c = Z[i][j]
      OBVIOUS
    <3>7. a \in Bound /\ b \in Bound /\ c \in Bound /\ v[i] \in Int /\ v[j] \in Int
      BY <1>1, <3>2, <3>6
    <3>8. CASE b = Infinity
      BY <3>6, <3>8 DEF HoldsAt
    <3>9. CASE b # Infinity
      <4>1. a <= limit /\ b <= limit
        BY <1>1, <3>2, <3>6, <3>9
      <4>2. CASE i # j
        <5>1. c <= Add(a, b)
          BY <3>2, <3>6, <4>2 DEF Canonical
        <5>2. HoldsAt(m, v[i] - v[j], c)
          <6>1. HoldsAt(m, v[i] - v[j], Z[i][j])
            BY <3>2
          <6> QED
            BY <3>6, <6>1
        <5>3. HoldsAt(2 * m, Least(m, v[i], a) - 2 * v[j], b)
          BY <3>7, <4>1, <5>1, <5>2, Between
        <5> QED
          BY <3>3, <3>5, <3>6, <5>3
      <4>3. CASE i = j
        <5>1. Add(a, b) >= Le(0) /\ Le(0) \in Bound
          BY <3>2, <3>6, <4>3, DBMAssumption DEF IsSatisfiableWithoutCanonize, Le, Bound
        <5>2. HoldsAt(m, v[i] - v[i], Le(0))
          BY <3>7 DEF HoldsAt, Le, Const, Positive
        <5>3. HoldsAt(2 * m, Least(m, v[i], a) - 2 * v[i], b)
          BY <3>7, <4>1, <5>1, <5>2, Between
        <5> QED
          BY <3>3, <3>5, <3>6, <4>3, <5>3
      <4> QED
        BY <4>2, <4>3
    <3> QED
      BY <3>8, <3>9
  <2> QED
    BY <2>1, <2>2
<1> QED
  BY <1>8, <1>10, <1>11

LEMMA CompletedFreely ==
    ASSUME NEW Z \in Matrix, Canonical(Z), IsSatisfiableWithoutCanonize(Z),
           NEW limit \in Nat, 2 * limit < Infinity, AllWithin(Z, limit),
           NEW m \in Positive, NEW v \in Valuation, v[0] = 0,
           NEW W, W \subseteq Var, 0 \in W, NEW x \in Var \ W, Z[0][x] # Infinity,
           \A i, j \in W : HoldsAt(m, v[i] - v[j], Z[i][j])
    PROVE  \E t \in Int : \A j \in W : /\ HoldsAt(2 * m, t - 2 * v[j], Z[x][j])
                                        /\ HoldsAt(2 * m, 2 * v[j] - t, Z[j][x])
<1>0. /\ 0 \in Var /\ x \in Var /\ x # 0 /\ x \notin W /\ W \subseteq Var
      /\ \A i, j \in Var : v[i] \in Int /\ Z[i][j] \in Bound
  BY VarFacts DEF Valuation, Matrix
<1>1. PICK low : low = Least(m, 0, Z[0][x])
  OBVIOUS
<1>2. low \in Int
  BY <1>0, <1>1, LeastIs
<1>3. ASSUME NEW j \in W PROVE HoldsAt(2 * m, low - 2 * v[j], Z[x][j])
  <2>1. PICK a, b, q : a = Z[0][x] /\ b = Z[x][j] /\ q = v[j]
    OBVIOUS
  <2>2. a \in Bound /\ b \in Bound /\ q \in Int /\ a <= limit /\ (b = Infinity \/ b <= limit)
    BY <1>0, <2>1 DEF AllWithin, Within
  <2>3. CASE b = Infinity
    BY <2>1, <2>3 DEF HoldsAt
  <2>4. CASE b # Infinity
    <3>1. CASE j # 0
      <4>1. PICK c : c = Z[0][j]
        OBVIOUS
      <4>2. c \in Bound /\ c <= Add(a, b)
        BY <1>0, <2>1, <3>1, <4>1 DEF Canonical
      <4>3. HoldsAt(m, 0 - q, c)
        <5>1. HoldsAt(m, v[0] - v[j], Z[0][j])
          BY <1>3
        <5> QED
          BY <2>1, <4>1, <5>1
      <4>4. HoldsAt(2 * m, Least(m, 0, a) - 2 * q, b)
        BY <2>2, <2>4, <4>2, <4>3, Between
      <4> QED
        BY <1>1, <2>1, <4>4
    <3>2. CASE j = 0
      <4>1. Add(a, b) >= Le(0) /\ Le(0) \in Bound
        <5>1. Add(Z[0][x], Z[x][0]) >= Le(0)
          BY <1>0 DEF IsSatisfiableWithoutCanonize
        <5>2. Le(0) \in Bound
          BY DBMAssumption DEF Le, Bound
        <5> QED
          BY <2>1, <3>2, <5>1, <5>2
      <4>2. HoldsAt(m, 0 - q, Le(0))
        BY <2>1, <3>2 DEF HoldsAt, Le, Const, Positive
      <4>3. HoldsAt(2 * m, Least(m, 0, a) - 2 * q, b)
        BY <2>2, <2>4, <4>1, <4>2, Between
      <4> QED
        BY <1>1, <2>1, <4>3
    <3> QED
      BY <3>1, <3>2
  <2> QED
    BY <2>3, <2>4
<1> QED
  BY <1>2, <1>3, Completed

LEMMA SatAtMonotone ==
    ASSUME NEW F \in Matrix, NEW E \in Matrix, \A i, j \in Var : F[i][j] <= E[i][j],
           NEW m \in Positive, NEW v \in Valuation, SatAt(m, v, F)
    PROVE  SatAt(m, v, E)
<1> SUFFICES ASSUME NEW i \in Var, NEW j \in Var PROVE HoldsAt(m, v[i] - v[j], E[i][j])
  BY DEF SatAt
<1>1. PICK a, b, d : a = F[i][j] /\ b = E[i][j] /\ d = v[i] - v[j]
  OBVIOUS
<1>2. a \in Bound /\ b \in Bound /\ a <= b /\ d \in Int
  BY <1>1 DEF Matrix, Valuation
<1>3. HoldsAt(m, d, a)
  BY <1>1 DEF SatAt
<1> QED
  BY <1>1, <1>2, <1>3, HoldsAtMonotone

LEMMA FinerIs ==
    ASSUME NEW n \in Positive, NEW v \in Valuation
    PROVE  /\ Finer(n, v) \in Valuation /\ (v[0] = 0 => Finer(n, v)[0] = 0)
           /\ \A x \in Var : Finer(n, v)[x] = n * v[x]
           /\ \A l \in Positive : Finer(l, Finer(n, v)) = Finer(l * n, v) /\ l * n \in Positive
<1>1. \A x \in Var : v[x] \in Int
  BY DEF Valuation
<1>2. n \in Int /\ n >= 1
  BY DEF Positive
<1>3. \A x \in Var : Finer(n, v)[x] = n * v[x] /\ n * v[x] \in Int
  BY <1>1, <1>2 DEF Finer
<1>4. Finer(n, v) \in Valuation
  BY <1>1, <1>2 DEF Finer, Valuation
<1>5. ASSUME NEW l \in Positive PROVE Finer(l, Finer(n, v)) = Finer(l * n, v) /\ l * n \in Positive
  <2>1. l \in Int /\ l >= 1
    BY DEF Positive
  <2>2. \A x \in Var : l * (n * v[x]) = (l * n) * v[x]
    BY <1>1, <1>2, <2>1
  <2>3. l * n \in Positive
    <3>1. l * n \in Nat
      BY <1>2, <2>1
    <3>2. l * n # 0
      BY <1>2, <2>1
    <3> QED
      BY <3>1, <3>2 DEF Positive
  <2> QED
    BY <1>3, <2>2, <2>3 DEF Finer
<1> QED
  BY <1>2, <1>3, <1>4, <1>5, VarFacts

(* The diagonal of a zone that the cheap test lets pass says nothing.      *)
LEMMA DiagonalHolds ==
    ASSUME NEW Z \in Matrix, IsSatisfiableWithoutCanonize(Z), NEW m \in Positive, NEW i \in Var
    PROVE  HoldsAt(m, 0, Z[i][i])
<1>1. Z[i][i] >= Le(0) /\ Z[i][i] \in Bound
  BY SatisfiableDiagonal DEF Matrix
<1>2. HoldsAt(m, 0, Le(0)) /\ Le(0) \in Bound
  BY DBMAssumption DEF HoldsAt, Le, Const, Positive, Bound
<1> QED
  BY <1>1, <1>2, HoldsAtMonotone

(* v, a delay of d halves of a tick earlier.                               *)
Earlier(v, d) == [x \in Var |-> IF x = 0 THEN 0 ELSE 2 * v[x] - d]

(* elapse adds no valuation: each one of the zone it returns is reached    *)
(* from one of the zone it is given, by a delay that is not zero.          *)
THEOREM ElapseExact ==
    ASSUME NEW Z \in Matrix, Canonical(Z), IsSatisfiableWithoutCanonize(Z),
           NEW limit \in Nat, 2 * limit < Infinity, AllWithin(Z, limit),
           NEW m \in Positive, NEW v \in Valuation, v[0] = 0, SatAt(m, v, Elapse(Z))
    PROVE  \E d \in Positive : Earlier(v, d) \in Valuation /\ SatAt(2 * m, Earlier(v, d), Z)
<1>0. 0 \in Var /\ \A i, j \in Var : v[i] \in Int /\ Z[i][j] \in Bound
  BY VarFacts DEF Valuation, Matrix
<1>1. \A i, j \in Var : Elapse(Z)[i][j] =
         IF j = 0 THEN Infinity ELSE IF i = 0 THEN Strict(Z[0][j]) ELSE Z[i][j]
  BY ElapseIs
<1>2. \A i, j \in Var \ {0} : HoldsAt(m, v[i] - v[j], Z[i][j])
  <2> SUFFICES ASSUME NEW i \in Var \ {0}, NEW j \in Var \ {0}
               PROVE  HoldsAt(m, v[i] - v[j], Z[i][j])
    OBVIOUS
  <2>1. HoldsAt(m, v[i] - v[j], Elapse(Z)[i][j])
    BY DEF SatAt
  <2> QED
    BY <1>1, <2>1
<1>3. \A j \in Var \ {0} : HoldsAt(2 * m, 1 - 2 * v[j], Z[0][j])
  <2> SUFFICES ASSUME NEW j \in Var \ {0} PROVE HoldsAt(2 * m, 1 - 2 * v[j], Z[0][j])
    OBVIOUS
  <2>1. HoldsAt(m, v[0] - v[j], Elapse(Z)[0][j])
    BY <1>0 DEF SatAt
  <2>2. PICK b, p : b = Z[0][j] /\ p = v[j]
    OBVIOUS
  <2>3. b \in Int /\ p \in Int /\ b \in Bound
    BY <1>0, <2>2 DEF Bound
  <2>4. HoldsAt(m, 0 - p, Strict(b))
    BY <1>0, <1>1, <2>1, <2>2
  <2>5. CASE b = Infinity
    BY <2>2, <2>5 DEF HoldsAt
  <2>6. CASE b # Infinity
    <3>1. PICK k : k = Const(b)
      OBVIOUS
    <3>2. k \in Int /\ b \in {Lt(k), Le(k)}
      BY <2>3, <3>1, ConstIs
    <3>3. Strict(b) = Lt(k)
      BY <3>2 DEF Strict, Lt, Le
    <3>4. Const(Lt(k)) = k /\ Lt(k) # Le(k)
      BY <3>2 DEF Const, Lt, Le
    <3>5. Lt(k) # Infinity
      <4>1. b < Infinity
        BY <2>3, <2>6, DBMAssumption DEF Bound
      <4> QED
        BY <3>2, <4>1, DBMAssumption DEF Lt, Le
    <3>6. 0 - p < m * k
      BY <2>4, <3>3, <3>4, <3>5 DEF HoldsAt
    <3>7. m * k \in Int /\ (2 * m) * k = 2 * (m * k)
      BY <3>2 DEF Positive
    <3>8. 1 - 2 * p < (2 * m) * k
      BY <2>3, <3>6, <3>7
    <3> QED
      BY <2>2, <3>1, <3>8 DEF HoldsAt
  <2> QED
    BY <2>5, <2>6
<1>4. PICK d \in Int : /\ d >= 1
                       /\ \A j \in Var \ {0} : /\ HoldsAt(2 * m, d - 2 * v[j], Z[0][j])
                                               /\ HoldsAt(2 * m, 2 * v[j] - d, Z[j][0])
  <2>1. PICK W : W = Var \ {0}
    OBVIOUS
  <2>2. W \subseteq Var /\ 0 \in Var \ W
    BY <1>0, <2>1
  <2>3. /\ \A i, j \in W : HoldsAt(m, v[i] - v[j], Z[i][j])
        /\ \A j \in W : HoldsAt(2 * m, 1 - 2 * v[j], Z[0][j])
    BY <1>2, <1>3, <2>1
  <2>4. \E d \in Int : /\ d >= 1
                      /\ \A j \in W : /\ HoldsAt(2 * m, d - 2 * v[j], Z[0][j])
                                       /\ HoldsAt(2 * m, 2 * v[j] - d, Z[j][0])
    BY <2>2, <2>3, Completed
  <2> QED
    BY <2>1, <2>4
<1>5. d \in Positive
  BY <1>4 DEF Positive
<1>6. PICK w : w = Earlier(v, d)
  OBVIOUS
<1>7. /\ w \in Valuation
      /\ \A x \in Var : w[x] = IF x = 0 THEN 0 ELSE 2 * v[x] - d
  BY <1>0, <1>4, <1>6 DEF Earlier, Valuation
<1>8. 2 \in Positive /\ 2 * m \in Positive
  BY DEF Positive
<1>9. ASSUME NEW i \in Var, NEW j \in Var PROVE HoldsAt(2 * m, w[i] - w[j], Z[i][j])
  <2>1. v[i] \in Int /\ v[j] \in Int /\ d \in Int
    BY <1>0
  <2>2. CASE i = j
    <3>1. w[i] - w[j] = 0
      BY <1>7, <2>2 DEF Valuation
    <3> QED
      BY <1>8, <2>2, <3>1, DiagonalHolds
  <2>3. CASE i # j /\ i = 0
    <3>1. w[i] - w[j] = d - 2 * v[j]
      BY <1>7, <2>1, <2>3
    <3> QED
      BY <1>4, <2>3, <3>1
  <2>4. CASE i # j /\ j = 0
    <3>1. w[i] - w[j] = 2 * v[i] - d
      BY <1>7, <2>1, <2>4
    <3> QED
      BY <1>4, <2>4, <3>1
  <2>5. CASE i # j /\ i # 0 /\ j # 0
    <3>1. w[i] - w[j] = 2 * (v[i] - v[j])
      BY <1>7, <2>1, <2>5
    <3>2. HoldsAt(m, v[i] - v[j], Z[i][j])
      BY <1>2, <2>5
    <3>3. v[i] - v[j] \in Int /\ Z[i][j] \in Bound
      BY <1>0, <2>1
    <3>4. HoldsAt(2 * m, 2 * (v[i] - v[j]), Z[i][j])
      BY <1>8, <3>2, <3>3, HoldsAtFiner
    <3> QED
      BY <3>1, <3>4
  <2> QED
    BY <2>2, <2>3, <2>4, <2>5
<1> QED
  BY <1>5, <1>6, <1>7, <1>9 DEF SatAt

(* Constraints at this scale.                                              *)
Scaled(m, c) == [x |-> c.x, odr |-> c.odr, c |-> m * c.c]

MeetsAt(m, v, guard) == \A c \in guard : Satisfy(Scaled(m, c), v[c.x])

LEMMA ConstraintAt ==
    ASSUME NEW c \in Constraint, BoundOf(c) < Infinity, NEW m \in Positive,
           NEW v \in Valuation, v[0] = 0,
           NEW i \in Var, NEW j \in Var, Entry(c) = <<i, j>>,
           HoldsAt(m, v[i] - v[j], BoundOf(c))
    PROVE  Satisfy(Scaled(m, c), v[c.x])
<1>1. c.x \in Var /\ c.odr \in Orders /\ c.c \in Int
  BY DEF Constraint
<1>2. PICK k, p, b : k = c.c /\ p = v[c.x] /\ b = BoundOf(c)
  OBVIOUS
<1>3. k \in Int /\ p \in Int /\ m \in Int
  BY <1>1, <1>2 DEF Valuation, Positive
<1>4. m * k \in Int /\ m * (- k) = - (m * k)
  BY <1>3
<1>5. PICK K : K = m * k
  OBVIOUS
<1>6. /\ Satisfy(Scaled(m, c), v[c.x]) <=> CASE c.odr = "lt" -> p < K
                                             [] c.odr = "le" -> p <= K
                                             [] c.odr = "gt" -> p > K
                                             [] c.odr = "ge" -> p >= K
  BY <1>2, <1>5 DEF Satisfy, Scaled
<1>7. b # Infinity
  BY <1>2, DBMAssumption
<1>8. CASE c.odr = "lt"
  <2>1. i = c.x /\ j = 0 /\ b = Lt(k)
    BY <1>2, <1>8 DEF Entry, BoundOf
  <2>2. Const(b) = k /\ b # Le(k)
    BY <1>3, <2>1 DEF Const, Lt, Le
  <2>3. p - 0 < K
    BY <1>2, <1>5, <1>7, <2>1, <2>2 DEF HoldsAt
  <2>4. p < K
    BY <1>3, <1>4, <1>5, <2>3
  <2> QED
    BY <1>6, <1>8, <2>4
<1>9. CASE c.odr = "le"
  <2>1. i = c.x /\ j = 0 /\ b = Le(k)
    BY <1>2, <1>9 DEF Entry, BoundOf
  <2>2. Const(b) = k
    BY <1>3, <2>1 DEF Const, Le
  <2>3. p - 0 < K \/ p - 0 = K
    BY <1>2, <1>5, <1>7, <2>1, <2>2 DEF HoldsAt
  <2>4. p <= K
    BY <1>3, <1>4, <1>5, <2>3
  <2> QED
    BY <1>6, <1>9, <2>4
<1>10. CASE c.odr = "gt"
  <2>1. i = 0 /\ j = c.x /\ b = Lt(- k)
    BY <1>2, <1>10 DEF Entry, BoundOf
  <2>2. Const(b) = - k /\ b # Le(- k)
    BY <1>3, <2>1 DEF Const, Lt, Le
  <2>3. 0 - p < m * (- k)
    BY <1>2, <1>7, <2>1, <2>2 DEF HoldsAt
  <2>4. p > K
    BY <1>3, <1>4, <1>5, <2>3
  <2> QED
    BY <1>6, <1>10, <2>4
<1>11. CASE c.odr = "ge"
  <2>1. i = 0 /\ j = c.x /\ b = Le(- k)
    BY <1>2, <1>11 DEF Entry, BoundOf
  <2>2. Const(b) = - k
    BY <1>3, <2>1 DEF Const, Le
  <2>3. 0 - p < m * (- k) \/ 0 - p = m * (- k)
    BY <1>2, <1>7, <2>1, <2>2 DEF HoldsAt
  <2>4. p >= K
    BY <1>3, <1>4, <1>5, <2>3
  <2> QED
    BY <1>6, <1>11, <2>4
<1> QED
  BY <1>1, <1>8, <1>9, <1>10, <1>11 DEF Orders

LEMMA GuardedAt ==
    ASSUME NEW Z \in Matrix, NEW guard, IsGuard(guard), NEW m \in Positive,
           NEW v \in Valuation, v[0] = 0, SatAt(m, v, Guarded(Z, guard))
    PROVE  SatAt(m, v, Z) /\ MeetsAt(m, v, guard)
<1> DEFINE N == Guarded(Z, guard)
<1>1. N \in Matrix /\ \A i, j \in Var : N[i][j] <= Z[i][j]
  BY GuardedExact
<1>2. SatAt(m, v, Z)
  <2> HIDE DEF N
  <2>1. SatAt(m, v, N)
    BY DEF N
  <2> QED
    BY <1>1, <2>1, SatAtMonotone
<1>3. ASSUME NEW c \in guard PROVE Satisfy(Scaled(m, c), v[c.x])
  <2>1. c \in Constraint /\ BoundOf(c) < Infinity
    BY DEF IsGuard
  <2>2. PICK i \in Var, j \in Var : Entry(c) = <<i, j>>
    BY <2>1, VarFacts DEF Entry, Constraint
  <2>3. BoundOf(c) \in Bounds(Z, guard, i, j)
    BY <2>2 DEF Bounds
  <2>4. N[i][j] <= BoundOf(c) /\ BoundOf(c) \in Bound
    BY <2>3, LeastBound
  <2>5. HoldsAt(m, v[i] - v[j], N[i][j])
    BY DEF SatAt
  <2>6. v[i] - v[j] \in Int /\ N[i][j] \in Bound
    BY <1>1 DEF Valuation, Matrix
  <2> HIDE DEF N
  <2>7. HoldsAt(m, v[i] - v[j], BoundOf(c))
    <3>1. PICK a, b, d : a = N[i][j] /\ b = BoundOf(c) /\ d = v[i] - v[j]
      OBVIOUS
    <3> QED
      BY <2>4, <2>5, <2>6, <3>1, HoldsAtMonotone
  <2> QED
    BY <2>1, <2>2, <2>7, ConstraintAt
<1> QED
  BY <1>2, <1>3 DEF MeetsAt

(* reset adds no valuation either.                                         *)
THEOREM ResetExact ==
    ASSUME NEW Z \in Matrix, Canonical(Z), IsSatisfiableWithoutCanonize(Z),
           NEW limit \in Nat, 2 * limit < Infinity, AllWithin(Z, limit),
           NEW x \in Var \ {0}, Z[0][x] # Infinity,
           NEW m \in Positive, NEW v \in Valuation, v[0] = 0, SatAt(m, v, Reset(Z, x))
    PROVE  \E w \in Valuation : /\ w[0] = 0 /\ SatAt(2 * m, w, Z)
                                /\ Finer(2, v) = ResetPoint(w, {x})
<1>0. /\ 0 \in Var /\ x \in Var /\ x # 0
      /\ \A i, j \in Var : v[i] \in Int /\ Z[i][j] \in Bound
      /\ 2 \in Positive /\ 2 * m \in Positive
  BY VarFacts DEF Valuation, Matrix, Positive
<1>1. /\ Aliased(Z, x) \in Matrix /\ Reset(Z, x) \in Matrix
      /\ \A i, j \in Var : Reset(Z, x)[i][j] <= Aliased(Z, x)[i][j]
  BY <1>0, ResetShortens
<1>2. \A i, j \in Var : Aliased(Z, x)[i][j] =
         IF {i, j} \subseteq {0, x} /\ <<i, j>> # <<0, 0>> THEN Le(0)
         ELSE IF j = x THEN Z[i][0] ELSE IF i = x THEN Z[0][j] ELSE Z[i][j]
  BY DEF Aliased
<1>3. SatAt(m, v, Aliased(Z, x))
  BY <1>1, SatAtMonotone
<1>4. v[x] = 0
  <2>1. Aliased(Z, x)[x][0] = Le(0) /\ Aliased(Z, x)[0][x] = Le(0)
    BY <1>0, <1>2
  <2>2. HoldsAt(m, v[x] - v[0], Le(0)) /\ HoldsAt(m, v[0] - v[x], Le(0))
    BY <1>0, <1>3, <2>1 DEF SatAt
  <2>3. Le(0) # Infinity /\ Const(Le(0)) = 0 /\ m * 0 = 0
    BY DBMAssumption DEF Le, Const, Positive
  <2>4. v[x] \in Int
    BY <1>0
  <2> QED
    BY <2>2, <2>3, <2>4 DEF HoldsAt
<1>5. \A i, j \in Var \ {x} : HoldsAt(m, v[i] - v[j], Z[i][j])
  <2> SUFFICES ASSUME NEW i \in Var \ {x}, NEW j \in Var \ {x}
               PROVE  HoldsAt(m, v[i] - v[j], Z[i][j])
    OBVIOUS
  <2>1. Aliased(Z, x)[i][j] = Z[i][j]
    BY <1>2
  <2>2. HoldsAt(m, v[i] - v[j], Aliased(Z, x)[i][j])
    BY <1>3 DEF SatAt
  <2> QED
    BY <2>1, <2>2
<1>6. PICK t \in Int : \A j \in Var \ {x} : /\ HoldsAt(2 * m, t - 2 * v[j], Z[x][j])
                                            /\ HoldsAt(2 * m, 2 * v[j] - t, Z[j][x])
  <2>1. PICK W : W = Var \ {x}
    OBVIOUS
  <2>2. W \subseteq Var /\ 0 \in W /\ x \in Var \ W
    BY <1>0, <2>1
  <2>3. \A i, j \in W : HoldsAt(m, v[i] - v[j], Z[i][j])
    BY <1>5, <2>1
  <2>4. \E t \in Int : \A j \in W : /\ HoldsAt(2 * m, t - 2 * v[j], Z[x][j])
                                    /\ HoldsAt(2 * m, 2 * v[j] - t, Z[j][x])
    BY <2>2, <2>3, CompletedFreely
  <2> QED
    BY <2>1, <2>4
<1>10. PICK w : w = [y \in Var |-> IF y = x THEN t ELSE 2 * v[y]]
  OBVIOUS
<1>11. w \in Valuation /\ w[0] = 0 /\ \A y \in Var : w[y] = IF y = x THEN t ELSE 2 * v[y]
  BY <1>0, <1>10 DEF Valuation
<1>12. Finer(2, v) = ResetPoint(w, {x})
  BY <1>4, <1>11 DEF Finer, ResetPoint
<1>13. ASSUME NEW i \in Var, NEW j \in Var PROVE HoldsAt(2 * m, w[i] - w[j], Z[i][j])
  <2>1. v[i] \in Int /\ v[j] \in Int /\ w[i] \in Int
    BY <1>0, <1>11 DEF Valuation
  <2>2. CASE i = j
    <3>1. w[i] - w[j] = 0
      BY <2>1, <2>2
    <3> QED
      BY <1>0, <2>2, <3>1, DiagonalHolds
  <2>3. CASE i # j /\ i = x
    <3>1. w[i] - w[j] = t - 2 * v[j]
      BY <1>11, <2>1, <2>3
    <3> QED
      BY <1>6, <2>3, <3>1
  <2>4. CASE i # j /\ j = x
    <3>1. w[i] - w[j] = 2 * v[i] - t
      BY <1>11, <2>1, <2>4
    <3> QED
      BY <1>6, <2>4, <3>1
  <2>5. CASE i # j /\ i # x /\ j # x
    <3>1. w[i] - w[j] = 2 * (v[i] - v[j])
      BY <1>11, <2>1, <2>5
    <3>2. HoldsAt(m, v[i] - v[j], Z[i][j])
      BY <1>5, <2>5
    <3>3. v[i] - v[j] \in Int /\ Z[i][j] \in Bound
      BY <1>0, <2>1
    <3>4. HoldsAt(2 * m, 2 * (v[i] - v[j]), Z[i][j])
      BY <1>0, <3>2, <3>3, HoldsAtFiner
    <3> QED
      BY <3>1, <3>4
  <2> QED
    BY <2>2, <2>3, <2>4, <2>5
<1> QED
  BY <1>11, <1>12, <1>13 DEF SatAt

(* The resets of a transition, for zones of any kind that resets preserve. *)
THEOREM ResetAllExact ==
    ASSUME NEW limit \in Nat, 2 * limit < Infinity, NEW xs, xs \subseteq Var \ {0},
           NEW S, S \subseteq Matrix,
           \A Z \in S : /\ Canonical(Z) /\ IsSatisfiableWithoutCanonize(Z) /\ AllWithin(Z, limit)
                        /\ \A x \in xs : Z[0][x] # Infinity /\ Reset(Z, x) \in S,
           NEW Z \in S, NEW m \in Positive, NEW v \in Valuation, v[0] = 0,
           SatAt(m, v, ResetAll(Z, xs))
    PROVE  \E n \in Positive, w \in Valuation :
               w[0] = 0 /\ SatAt(n * m, w, Z) /\ Finer(n, v) = ResetPoint(w, xs)
<1>1. PICK after : AfterResets(after, Z, xs) /\ ResetAll(Z, xs) = after[Dim]
  BY ResetAllRuns
<1> DEFINE UpTo(x) == {y \in xs : y <= x}
           From(l, p, x) == \E n \in Positive, w \in Valuation :
               w[0] = 0 /\ SatAt(n * l, w, Z) /\ Finer(n, p) = ResetPoint(w, UpTo(x))
           Traced == {x \in 0 .. Dim : /\ after[x] \in S
                                       /\ \A l \in Positive, p \in Valuation :
                                            p[0] = 0 /\ SatAt(l, p, after[x]) => From(l, p, x)}
<1>0. Dim \in Nat /\ (\A y \in Var : y \in Int) /\ 1 \in Positive /\ 2 \in Positive
  BY DBMAssumption DEF Var, Positive
<1>2. 0 \in Traced
  <2>1. after[0] = Z /\ 0 \in 0 .. Dim
    BY <1>0, <1>1 DEF AfterResets
  <2>2. UpTo(0) = {}
    <3>1. \A y \in xs : ~ (y <= 0)
      <4> TAKE y \in xs
      <4>1. y \in 0 .. Dim /\ y # 0
        BY DEF Var
      <4> QED
        BY <1>0, <4>1
    <3> QED
      BY <3>1
  <2>3. ASSUME NEW l \in Positive, NEW p \in Valuation, p[0] = 0, SatAt(l, p, after[0])
        PROVE  From(l, p, 0)
    <3>1. 1 * l = l
      BY DEF Positive
    <3>2. Finer(1, p) = ResetPoint(p, {})
      BY DEF Finer, ResetPoint, Valuation
    <3> QED
      BY <1>0, <2>1, <2>2, <2>3, <3>1, <3>2
  <2> HIDE DEF From
  <2> QED
    BY <2>1, <2>3
<1>3. ASSUME NEW x \in 0 .. Dim - 1, x \in Traced PROVE x + 1 \in Traced
  <2>1. /\ x + 1 \in 0 .. Dim /\ x + 1 \in Var \ {0} /\ (x + 1) - 1 = x /\ x + 1 # 0
        /\ x \in Int
    BY <1>0 DEF Var
  <2>2. after[x + 1] = IF x + 1 \in xs THEN Reset(after[x], x + 1) ELSE after[x]
    BY <1>1, <2>1 DEF AfterResets
  <2>3. /\ after[x] \in S
        /\ \A l \in Positive, p \in Valuation :
             p[0] = 0 /\ SatAt(l, p, after[x]) => From(l, p, x)
    BY <1>3
  <2>4. CASE x + 1 \notin xs
    <3>1. UpTo(x + 1) = UpTo(x)
      BY <1>0, <2>1, <2>4
    <3>2. after[x + 1] = after[x]
      BY <2>2, <2>4
    <3>3. \A l, p : From(l, p, x + 1) <=> From(l, p, x)
      BY <3>1
    <3> HIDE DEF From
    <3> QED
      BY <2>1, <2>3, <3>2, <3>3
  <2>5. CASE x + 1 \in xs
    <3>1. after[x + 1] = Reset(after[x], x + 1) /\ after[x + 1] \in S
      BY <2>2, <2>3, <2>5
    <3>2. PICK M : M = after[x]
      OBVIOUS
    <3>3. PICK y : y = x + 1
      OBVIOUS
    <3>4. /\ M \in Matrix /\ Canonical(M) /\ IsSatisfiableWithoutCanonize(M)
          /\ AllWithin(M, limit) /\ y \in Var \ {0} /\ M[0][y] # Infinity
      BY <2>1, <2>3, <2>5, <3>2, <3>3
    <3>5. ASSUME NEW l \in Positive, NEW p \in Valuation, p[0] = 0, SatAt(l, p, after[x + 1])
          PROVE  From(l, p, x + 1)
      <4>1. SatAt(l, p, Reset(M, y))
        BY <3>1, <3>2, <3>3, <3>5
      <4>2. PICK u \in Valuation : u[0] = 0 /\ SatAt(2 * l, u, M)
                                   /\ Finer(2, p) = ResetPoint(u, {y})
        BY <3>4, <3>5, <4>1, ResetExact
      <4>3. 2 * l \in Positive
        BY DEF Positive
      <4>4. From(2 * l, u, x)
        <5> HIDE DEF From
        <5> QED
          BY <2>3, <3>2, <4>2, <4>3
      <4>5. PICK n \in Positive, w \in Valuation :
              w[0] = 0 /\ SatAt(n * (2 * l), w, Z) /\ Finer(n, u) = ResetPoint(w, UpTo(x))
        BY <4>4
      <4>6. n * (2 * l) = (n * 2) * l
        BY DEF Positive
      <4>7. Finer(n * 2, p) = Finer(n, Finer(2, p)) /\ n * 2 \in Positive
        BY <1>0, FinerIs
      <4>8. Finer(n, ResetPoint(u, {y})) = ResetPoint(Finer(n, u), {y})
        <5>1. n * 0 = 0
          BY DEF Positive
        <5> QED
          BY <5>1 DEF Finer, ResetPoint
      <4>9. ResetPoint(ResetPoint(w, UpTo(x)), {y}) = ResetPoint(w, UpTo(x + 1))
        <5>1. \A z \in Var : z \in UpTo(x + 1) <=> z \in UpTo(x) \/ z = y
          BY <1>0, <2>1, <2>5, <3>3
        <5> HIDE DEF UpTo
        <5> QED
          BY <5>1 DEF ResetPoint
      <4> HIDE DEF UpTo
      <4>10. Finer(n * 2, p) = ResetPoint(w, UpTo(x + 1))
        BY <4>2, <4>5, <4>7, <4>8, <4>9
      <4>11. SatAt((n * 2) * l, w, Z)
        BY <4>5, <4>6
      <4> QED
        BY <4>5, <4>7, <4>10, <4>11
    <3> HIDE DEF From
    <3> QED
      BY <2>1, <3>1, <3>5
  <2> HIDE DEF From, Traced
  <2> QED
    BY <2>4, <2>5
<1>4. \A x \in 0 .. Dim : x \in Traced
  <2> HIDE DEF Traced
  <2> QED
    BY <1>0, <1>2, <1>3, InductionUpTo
<1>5. UpTo(Dim) = xs
  <2>1. \A y \in xs : y <= Dim
    <3> TAKE y \in xs
    <3>1. y \in 0 .. Dim
      BY DEF Var
    <3> QED
      BY <1>0, <3>1
  <2> QED
    BY <2>1
<1>6. From(m, v, Dim)
  <2>1. Dim \in Traced
    <3> HIDE DEF Traced
    <3> QED
      BY <1>0, <1>4
  <2> HIDE DEF From
  <2> QED
    BY <1>1, <2>1
<1> HIDE DEF UpTo
<1> QED
  BY <1>5, <1>6

(* Values for some variables that are within their bounds extend to a      *)
(* valuation of the zone: the others are chosen one after the other.       *)
LEMMA Extended ==
    ASSUME NEW Z \in Matrix, Canonical(Z), IsSatisfiableWithoutCanonize(Z),
           NEW limit \in Nat, 2 * limit < Infinity, AllWithin(Z, limit),
           \A x \in Var : Z[0][x] # Infinity,
           NEW m \in Positive, NEW v \in Valuation, v[0] = 0,
           NEW W, W \subseteq Var, 0 \in W,
           \A i, j \in W : HoldsAt(m, v[i] - v[j], Z[i][j])
    PROVE  \E n \in Positive, u \in Valuation :
               u[0] = 0 /\ SatAt(n * m, u, Z) /\ \A x \in W : u[x] = n * v[x]
<1> DEFINE Known(k) == W \cup 0 .. k
           Inside(k, n, u) == /\ \A i, j \in Known(k) : HoldsAt(n * m, u[i] - u[j], Z[i][j])
                              /\ \A x \in W : u[x] = n * v[x]
           Chosen == {k \in 0 .. Dim : \E n \in Positive, u \in Valuation :
                                          u[0] = 0 /\ Inside(k, n, u)}
<1>0. Dim \in Nat /\ 0 \in Var /\ Var = 0 .. Dim
  BY DBMAssumption, VarFacts DEF Var
<1>1. 0 \in Chosen
  <2>1. Known(0) = W
    OBVIOUS
  <2>2. \A x \in W : v[x] \in Int /\ v[x] = 1 * v[x]
    BY DEF Valuation
  <2>3. 1 \in Positive /\ 1 * m = m
    BY DEF Positive
  <2> HIDE DEF Known
  <2>4. Inside(0, 1, v)
    BY <2>1, <2>2, <2>3
  <2> HIDE DEF Inside
  <2> QED
    BY <1>0, <2>3, <2>4
<1>2. ASSUME NEW k \in 0 .. Dim - 1, k \in Chosen PROVE k + 1 \in Chosen
  <2>1. PICK n \in Positive, u \in Valuation : u[0] = 0 /\ Inside(k, n, u)
    BY <1>2
  <2>2. PICK U, x : U = Known(k) /\ x = k + 1
    OBVIOUS
  <2>3. PICK l : l = n * m
    OBVIOUS
  <2>4. /\ U \subseteq Var /\ 0 \in U /\ x \in Var /\ k + 1 \in 0 .. Dim
        /\ Known(k + 1) = U \cup {x} /\ W \subseteq U /\ l \in Positive
    <3>1. l \in Positive
      BY <2>3, FinerIs
    <3> QED
      BY <1>0, <2>2, <3>1
  <2>5. /\ \A i, j \in U : HoldsAt(l, u[i] - u[j], Z[i][j])
        /\ \A y \in W : u[y] = n * v[y]
    BY <2>1, <2>2, <2>3
  <2> HIDE DEF Known
  <2>6. CASE x \in U
    <3>1. Known(k + 1) = U
      BY <2>4, <2>6
    <3>2. Inside(k + 1, n, u)
      BY <2>3, <2>5, <3>1
    <3> HIDE DEF Inside
    <3> QED
      BY <2>1, <2>4, <3>2
  <2>7. CASE x \notin U
    <3>1. PICK t \in Int : \A j \in U : /\ HoldsAt(2 * l, t - 2 * u[j], Z[x][j])
                                       /\ HoldsAt(2 * l, 2 * u[j] - t, Z[j][x])
      <4>1. x \in Var \ U
        BY <2>4, <2>7
      <4> HIDE DEF Inside, Chosen
      <4> QED
        BY <2>1, <2>4, <2>5, <4>1, CompletedFreely
    <3>2. PICK w : w = [y \in Var |-> IF y = x THEN t ELSE 2 * u[y]]
      OBVIOUS
    <3>3. /\ w \in Valuation /\ w[0] = 0 /\ 2 \in Positive /\ 2 * l \in Positive
          /\ \A y \in Var : w[y] = IF y = x THEN t ELSE 2 * u[y]
          /\ \A y \in Var : u[y] \in Int /\ v[y] \in Int
      <4>1. \A y \in Var : u[y] \in Int /\ v[y] \in Int
        BY DEF Valuation
      <4>2. \A y \in Var : w[y] = IF y = x THEN t ELSE 2 * u[y]
        BY <3>2
      <4>3. w \in Valuation
        BY <3>2, <4>1 DEF Valuation
      <4>4. u[0] = 0 /\ x # 0
        BY <2>1, <2>4, <2>7
      <4>5. w[0] = 0
        BY <1>0, <4>2, <4>4
      <4>6. 2 \in Positive /\ 2 * l \in Positive
        BY <2>4 DEF Positive
      <4> QED
        BY <4>1, <4>2, <4>3, <4>5, <4>6
    <3>4. ASSUME NEW i \in U \cup {x}, NEW j \in U \cup {x}
          PROVE  HoldsAt(2 * l, w[i] - w[j], Z[i][j])
      <4>1. i \in Var /\ j \in Var /\ (i \in U \/ i = x) /\ (j \in U \/ j = x)
        BY <2>4
      <4>2. u[i] \in Int /\ u[j] \in Int /\ w[i] \in Int
        BY <3>3, <4>1 DEF Valuation
      <4>3. CASE i = j
        <5>1. w[i] - w[j] = 0
          BY <4>2, <4>3
        <5> QED
          BY <3>3, <4>1, <4>3, <5>1, DiagonalHolds
      <4>4. CASE i = x /\ j \in U
        <5>1. w[i] - w[j] = t - 2 * u[j]
          BY <2>7, <3>3, <4>1, <4>2, <4>4
        <5> QED
          BY <3>1, <4>4, <5>1
      <4>5. CASE i \in U /\ j = x
        <5>1. w[i] - w[j] = 2 * u[i] - t
          BY <2>7, <3>3, <4>1, <4>2, <4>5
        <5> QED
          BY <3>1, <4>5, <5>1
      <4>6. CASE i \in U /\ j \in U
        <5>1. w[i] - w[j] = 2 * (u[i] - u[j])
          BY <2>7, <3>3, <4>1, <4>2, <4>6
        <5>2. HoldsAt(l, u[i] - u[j], Z[i][j])
          BY <2>5, <4>6
        <5>3. u[i] - u[j] \in Int /\ Z[i][j] \in Bound
          BY <4>1, <4>2 DEF Matrix
        <5>4. HoldsAt(2 * l, 2 * (u[i] - u[j]), Z[i][j])
          BY <2>4, <3>3, <5>2, <5>3, HoldsAtFiner
        <5> QED
          BY <5>1, <5>4
      <4> QED
        BY <4>1, <4>3, <4>4, <4>5, <4>6
    <3>5. /\ 2 * n \in Positive /\ (2 * n) * m = 2 * l
          /\ \A y \in W : w[y] = (2 * n) * v[y]
      <4>1. n \in Int /\ m \in Int /\ 2 * n \in Positive
        BY DEF Positive
      <4>2. (2 * n) * m = 2 * l
        BY <2>3, <4>1
      <4>3. ASSUME NEW y \in W PROVE w[y] = (2 * n) * v[y]
        <5>1. y \in Var /\ y # x /\ w[y] = 2 * u[y] /\ v[y] \in Int
          BY <2>4, <2>7, <3>3
        <5>2. u[y] = n * v[y]
          BY <2>5
        <5>3. 2 * (n * v[y]) = (2 * n) * v[y]
          BY <4>1, <5>1
        <5> QED
          BY <5>1, <5>2, <5>3
      <4> QED
        BY <4>1, <4>2, <4>3
    <3>6. Inside(k + 1, 2 * n, w)
      BY <2>4, <3>4, <3>5
    <3> HIDE DEF Inside
    <3> QED
      BY <2>4, <3>3, <3>5, <3>6
  <2> QED
    BY <2>6, <2>7
<1>3. Dim \in Chosen
  <2> HIDE DEF Chosen
  <2>1. \A k \in 0 .. Dim : k \in Chosen
    BY <1>0, <1>1, <1>2, InductionUpTo
  <2> QED
    BY <1>0, <2>1
<1>4. PICK n \in Positive, u \in Valuation : u[0] = 0 /\ Inside(Dim, n, u)
  BY <1>3
<1>5. Known(Dim) = Var
  BY <1>0
<1> HIDE DEF Known
<1> QED
  BY <1>4, <1>5 DEF SatAt

(* A zone in canonical form that the cheap test lets pass has a valuation, *)
(* if every variable is bounded from below.                                *)
THEOREM SatisfiableHasPoint ==
    ASSUME NEW Z \in Matrix, Canonical(Z), IsSatisfiableWithoutCanonize(Z),
           NEW limit \in Nat, 2 * limit < Infinity, AllWithin(Z, limit),
           \A x \in Var : Z[0][x] # Infinity
    PROVE  \E m \in Positive, v \in Valuation : v[0] = 0 /\ SatAt(m, v, Z)
<1>1. PICK v : v = [x \in Var |-> 0]
  OBVIOUS
<1>2. v \in Valuation /\ v[0] = 0 /\ 1 \in Positive /\ 0 \in Var
  BY <1>1, VarFacts DEF Valuation, Positive
<1>3. ASSUME NEW i \in {0}, NEW j \in {0} PROVE HoldsAt(1, v[i] - v[j], Z[i][j])
  <2>1. i = 0 /\ j = 0 /\ v[0] - v[0] = 0
    BY <1>2
  <2>2. HoldsAt(1, 0, Z[0][0])
    BY <1>2, DiagonalHolds
  <2> QED
    BY <2>1, <2>2
<1>4. PICK n \in Positive, u \in Valuation : u[0] = 0 /\ SatAt(n * 1, u, Z)
  <2>1. PICK W : W = {0}
    OBVIOUS
  <2>2. W \subseteq Var /\ 0 \in W /\ \A i, j \in W : HoldsAt(1, v[i] - v[j], Z[i][j])
    BY <1>2, <1>3, <2>1
  <2> QED
    BY <1>2, <2>2, Extended
<1>5. n * 1 \in Positive
  BY <1>2, FinerIs
<1> QED
  BY <1>4, <1>5

-----------------------------------------------------------------------------
(* Merging adds no rational valuation either.                              *)

LEMMA AddSoundAt ==
    ASSUME NEW m \in Positive, NEW a \in Bound, NEW b \in Bound, NEW d \in Int, NEW e \in Int,
           HoldsAt(m, d, a), HoldsAt(m, e, b)
    PROVE  HoldsAt(m, d + e, Add(a, b))
<1>1. CASE a = Infinity \/ b = Infinity \/ Add(a, b) = Infinity
  BY <1>1 DEF Add, HoldsAt
<1>2. CASE a # Infinity /\ b # Infinity /\ Add(a, b) # Infinity
  <2>1. PICK p, q, s : p = Const(a) /\ q = Const(b) /\ s = Add(a, b)
    OBVIOUS
  <2>2. p \in Int /\ q \in Int /\ s \in Int /\ a \in Int /\ b \in Int
    BY <2>1, AddIsBound DEF Const, Bound
  <2>3. a \in {Lt(p), Le(p)} /\ b \in {Lt(q), Le(q)}
    BY <2>1, <2>2, ConstIs
  <2>4. /\ a = Le(p) /\ b = Le(q) => s = Le(p + q)
        /\ ~ (a = Le(p) /\ b = Le(q)) => s = Lt(p + q)
    BY <1>2, <2>1, <2>2, <2>3 DEF Add, Le, Lt
  <2>5. PICK x, y : x = m * p /\ y = m * q
    OBVIOUS
  <2>6. x \in Int /\ y \in Int /\ m * (p + q) = x + y /\ p + q \in Int
    BY <2>2, <2>5 DEF Positive
  <2>7. /\ d < x \/ (a = Le(p) /\ d = x)
        /\ e < y \/ (b = Le(q) /\ e = y)
    BY <1>2, <2>1, <2>5 DEF HoldsAt
  <2>8. Const(s) = p + q
    BY <2>2, <2>4, <2>6 DEF Const, Le, Lt
  <2>9. d + e < x + y \/ (s = Le(p + q) /\ d + e = x + y)
    BY <2>4, <2>6, <2>7
  <2> QED
    BY <2>1, <2>6, <2>8, <2>9 DEF HoldsAt
<1> QED
  BY <1>1, <1>2

LEMMA HoldsLowerAt ==
    ASSUME NEW m \in Positive, NEW a \in Bound, NEW b \in Bound, NEW d \in Int,
           HoldsAt(m, d, a), HoldsAt(m, d, b)
    PROVE  HoldsAt(m, d, Lower(a, b))
  BY DEF Lower

(* What a bound excludes satisfies the complementary one.                  *)
LEMMA HoldsComplementAt ==
    ASSUME NEW m \in Positive, NEW a \in Bound, NEW d \in Int, ~ HoldsAt(m, d, a)
    PROVE  Complement(a) \in Int /\ HoldsAt(m, -d, Complement(a))
<1>1. PICK p : p = Const(a)
  OBVIOUS
<1>2. p \in Int /\ a \in Int /\ a \in {Lt(p), Le(p)} /\ Lt(p) # Le(p)
  BY <1>1, ConstIs DEF Bound, Const
<1>3. Complement(a) \in Int /\ (a = Lt(p) => Complement(a) = Le(-p))
      /\ (a = Le(p) => Complement(a) = Lt(-p))
  BY <1>2 DEF Complement, Lt, Le
<1>4. Const(Le(-p)) = -p /\ Const(Lt(-p)) = -p
  BY <1>2 DEF Const, Lt, Le
<1>5. PICK x : x = m * p
  OBVIOUS
<1>6. x \in Int /\ m * (-p) = -x
  BY <1>2, <1>5 DEF Positive
<1>7. ~ (d < x) /\ ~ (a = Le(p) /\ d = x)
  BY <1>1, <1>5 DEF HoldsAt
<1>8. CASE a = Lt(p)
  <2>1. -d < -x \/ -d = -x
    BY <1>6, <1>7
  <2> QED
    BY <1>3, <1>4, <1>6, <1>8, <2>1 DEF HoldsAt
<1>9. CASE a = Le(p)
  <2>1. -d < -x
    BY <1>6, <1>7, <1>9
  <2> QED
    BY <1>3, <1>4, <1>6, <1>9, <2>1 DEF HoldsAt
<1> QED
  BY <1>2, <1>3, <1>8, <1>9

LEMMA Close1KeepsAt ==
    ASSUME NEW F \in Matrix, NEW x \in Var, NEW m \in Positive, NEW v \in Valuation,
           SatAt(m, v, F)
    PROVE  Close1(F, x) \in Matrix /\ SatAt(m, v, Close1(F, x))
<1>1. Close1(F, x) \in Matrix
  BY Close1Type
<1>2. ASSUME NEW i \in Var, NEW j \in Var
      PROVE  HoldsAt(m, v[i] - v[j], Close1(F, x)[i][j])
  <2>1. PICK a, b, c, d : a = F[i][j] /\ b = F[i][x] /\ c = F[x][x] /\ d = F[x][j]
    OBVIOUS
  <2>2. a \in Bound /\ b \in Bound /\ c \in Bound /\ d \in Bound
    BY <2>1 DEF Matrix
  <2>3. PICK p, q : p = v[i] - v[x] /\ q = v[x] - v[j]
    OBVIOUS
  <2>4. /\ p \in Int /\ q \in Int /\ v[i] - v[j] = p + q
        /\ v[x] - v[x] = 0 /\ p + q \in Int /\ 0 + q = q
    BY <2>3 DEF Valuation
  <2>5. HoldsAt(m, p + q, a) /\ HoldsAt(m, p, b) /\ HoldsAt(m, 0, c) /\ HoldsAt(m, q, d)
    BY <2>1, <2>3, <2>4 DEF SatAt
  <2>6. HoldsAt(m, q, Add(c, d)) /\ Add(c, d) \in Bound
    BY <2>2, <2>4, <2>5, AddSoundAt, AddIsBound
  <2>7. PICK e : e = IF i > x THEN Lower(d, Add(c, d)) ELSE d
    OBVIOUS
  <2>8. HoldsAt(m, q, e) /\ e \in Bound
    BY <2>2, <2>4, <2>5, <2>6, <2>7, HoldsLowerAt, HoldsLower
  <2>9. HoldsAt(m, p + q, Add(b, e)) /\ Add(b, e) \in Bound
    BY <2>2, <2>4, <2>5, <2>8, AddSoundAt, AddIsBound
  <2>10. HoldsAt(m, p + q, Lower(a, Add(b, e)))
    BY <2>2, <2>4, <2>5, <2>9, HoldsLowerAt
  <2>11. Close1(F, x)[i][j] = Lower(a, Add(b, e))
    BY <2>1, <2>7, Close1At
  <2> QED
    BY <2>4, <2>10, <2>11
<1> QED
  BY <1>1, <1>2 DEF SatAt

LEMMA IncludedAt ==
    ASSUME NEW F \in Matrix, NEW E \in Matrix, Included(F, E),
           NEW m \in Positive, NEW v \in Valuation, SatAt(m, v, F)
    PROVE  SatAt(m, v, E)
<1>1. IsSatisfiableWithoutCanonize(F)
  <2> SUFFICES ASSUME NEW i \in Var, NEW j \in Var PROVE Add(F[i][j], F[j][i]) >= Le(0)
    BY DEF IsSatisfiableWithoutCanonize
  <2>1. PICK a, b, d : a = F[i][j] /\ b = F[j][i] /\ d = v[i] - v[j]
    OBVIOUS
  <2>2. a \in Bound /\ b \in Bound /\ d \in Int /\ v[j] - v[i] = -d /\ -d \in Int /\ d + (-d) = 0
    BY <2>1 DEF Matrix, Valuation
  <2>3. HoldsAt(m, d, a) /\ HoldsAt(m, -d, b)
    BY <2>1, <2>2 DEF SatAt
  <2>4. HoldsAt(m, 0, Add(a, b)) /\ Add(a, b) \in Bound
    BY <2>2, <2>3, AddSoundAt, AddIsBound
  <2>5. PICK s, p : s = Add(a, b) /\ p = Const(s)
    OBVIOUS
  <2>6. s \in Int /\ p \in Int /\ s \in {Lt(p), Le(p)}
    BY <2>4, <2>5, ConstIs DEF Bound, Const
  <2>7. s = Infinity \/ 0 < m * p \/ (s = Le(p) /\ 0 = m * p)
    BY <2>4, <2>5 DEF HoldsAt
  <2>8. m * 0 = 0 /\ (0 < p <=> m * 0 < m * p) /\ (0 = p <=> m * 0 = m * p)
    BY <2>6, TimesLess DEF Positive
  <2>9. s >= Le(0)
    BY <2>6, <2>7, <2>8, DBMAssumption DEF Le, Lt
  <2> QED
    BY <2>1, <2>5, <2>9
<1>2. \A i, j \in Var : F[i][j] <= E[i][j]
  BY <1>1 DEF Included
<1> QED
  BY <1>2, SatAtMonotone

LEMMA CutCoversAt ==
    ASSUME NEW F \in Matrix, NEW E \in Matrix, NEW hull \in Matrix,
           NEW i \in Var, NEW j \in Var,
           IsSatisfiableWithoutCanonize(F), F[i][j] <= hull[i][j],
           Complement(F[j][i]) < Infinity, CutIncluded(F, E, hull, i, j),
           NEW m \in Positive, NEW v \in Valuation, SatAt(m, v, hull),
           ~ HoldsAt(m, v[j] - v[i], F[j][i])
    PROVE  SatAt(m, v, E)
<1>1. PICK rev, cut : rev = Complement(F[j][i]) /\ cut = [hull EXCEPT ![i][j] = rev]
  OBVIOUS
<1>2. F[j][i] \in Bound /\ v[i] \in Int /\ v[j] \in Int
  BY DEF Matrix, Valuation
<1>3. rev \in Int /\ HoldsAt(m, v[i] - v[j], rev)
  <2>1. PICK d : d = v[j] - v[i]
    OBVIOUS
  <2>2. d \in Int /\ -d = v[i] - v[j]
    BY <1>2, <2>1
  <2> QED
    BY <1>1, <1>2, <2>1, <2>2, HoldsComplementAt
<1>4. rev \in Bound
  BY <1>1, <1>3, DBMAssumption DEF Bound
<1>5. hull[i] \in [Var -> Bound] /\ [hull[i] EXCEPT ![j] = rev] \in [Var -> Bound]
  BY <1>4 DEF Matrix
<1>6. cut = [hull EXCEPT ![i] = [hull[i] EXCEPT ![j] = rev]]
  BY <1>1
<1>7. cut \in Matrix
  BY <1>5, <1>6 DEF Matrix
<1>8. \A a, b \in Var : cut[a][b] = IF a = i /\ b = j THEN rev ELSE hull[a][b]
  BY <1>5, <1>6 DEF Matrix
<1>9. SatAt(m, v, cut)
  <2> SUFFICES ASSUME NEW a \in Var, NEW b \in Var PROVE HoldsAt(m, v[a] - v[b], cut[a][b])
    BY DEF SatAt
  <2>1. CASE a = i /\ b = j
    BY <1>3, <1>8, <2>1
  <2>2. CASE ~ (a = i /\ b = j)
    <3>1. cut[a][b] = hull[a][b]
      BY <1>8, <2>2
    <3> QED
      BY <3>1 DEF SatAt
  <2> QED
    BY <2>1, <2>2
<1>10. Included(Close1(Close1(cut, i), j), E)
  <2>1. PICK a, b, h : a = F[i][j] /\ b = F[j][i] /\ h = hull[i][j]
    OBVIOUS
  <2>2. a \in Bound /\ b \in Bound /\ h \in Bound /\ a <= h
    BY <2>1 DEF Matrix
  <2>3. Add(a, b) >= 1 /\ b # Infinity /\ rev = 1 - b
    BY <1>1, <2>1 DEF IsSatisfiableWithoutCanonize, Le, HoldsAt, Complement
  <2>4. ~ (h <= rev)
    <3>1. CASE a = Infinity
      BY <1>1, <2>1, <2>2, <2>3, <3>1, DBMAssumption DEF Bound
    <3>2. CASE a # Infinity
      BY <2>2, <2>3, <3>2, DBMAssumption DEF Bound, Add
    <3> QED
      BY <3>1, <3>2
  <2>5. h <= rev \/ Included(Close1(Close1(cut, i), j), E)
    BY <1>1, <2>1 DEF CutIncluded
  <2> QED
    BY <2>4, <2>5
<1>11. PICK P : P = Close1(cut, i)
  OBVIOUS
<1>12. P \in Matrix /\ SatAt(m, v, P)
  BY <1>7, <1>9, <1>11, Close1KeepsAt
<1>13. PICK Q : Q = Close1(P, j)
  OBVIOUS
<1>14. Q \in Matrix /\ SatAt(m, v, Q)
  BY <1>12, <1>13, Close1KeepsAt
<1> QED
  BY <1>10, <1>11, <1>13, <1>14, IncludedAt

(* When merge succeeds, every rational valuation of the zone it leaves is  *)
(* one of the two zones.                                                   *)
THEOREM MergeAddsNone ==
    ASSUME NEW F \in Matrix, NEW E \in Matrix,
           \A i, j \in Var : Complement(F[i][j]) < Infinity,
           Mergeable(F, E), NEW m \in Positive, NEW v \in Valuation, SatAt(m, v, Merge(F, E))
    PROVE  SatAt(m, v, F) \/ SatAt(m, v, E)
<1>1. CASE Included(F, E) \/ Included(E, F)
  BY <1>1 DEF Merge
<1>2. CASE ~ Included(F, E) /\ ~ Included(E, F)
  <2>1. PICK hull : hull = ConvexUnion(F, E)
    OBVIOUS
  <2>2. SatAt(m, v, hull)
    BY <1>2, <2>1 DEF Merge
  <2>3. ASSUME ~ SatAt(m, v, F) PROVE SatAt(m, v, E)
    <3>1. PICK j \in Var, i \in Var : ~ HoldsAt(m, v[j] - v[i], F[j][i])
      BY <2>3 DEF SatAt
    <3>2. IsSatisfiableWithoutCanonize(F)
      BY <1>2 DEF Included
    <3>3. \A a, b \in Var : F[a][b] \in Bound /\ E[a][b] \in Bound /\ v[a] \in Int
      BY DEF Matrix, Valuation
    <3>4. i # j
      <4> SUFFICES ASSUME i = j PROVE FALSE
        OBVIOUS
      <4>1. v[j] - v[i] = 0
        BY <3>3
      <4> QED
        BY <3>1, <3>2, <4>1, DiagonalHolds
    <3>5. hull \in Matrix /\ F[i][j] <= hull[i][j]
      <4>1. \A a, b \in Var : Higher(F[a][b], E[a][b]) \in Bound
        BY <3>3, HoldsHigher
      <4> QED
        BY <2>1, <3>3, <4>1 DEF ConvexUnion, Matrix, Higher, Bound
    <3>6. CutIncluded(F, E, hull, i, j)
      BY <1>2, <2>1, <3>4, EvaluatedIs DEF Mergeable
    <3> QED
      BY <2>2, <3>1, <3>2, <3>5, <3>6, CutCoversAt
  <2> QED
    BY <2>3
<1> QED
  BY <1>1, <1>2
=============================================================================

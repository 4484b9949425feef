--------------------------- MODULE ZonePath_proofs ---------------------------
(***************************************************************************)
(* Along every path the engine drives a zone through, for every automaton, *)
(* every number of clocks, every length and every number of pieces.        *)
(***************************************************************************)
EXTENDS ZonePath, TimedAutomaton_proofs

(* The time that passes in p pieces.                                       *)
Reach(p) == Duration * p

(* Before the dwell time is bounded: no clock is negative, or further ahead*)
(* of the dwell time than the pieces before this one are long.             *)
Carried(Z, p) ==
    /\ \A i \in Var \ {0} : Z[0][i] <= Le(0)
    /\ \A i \in Var \ {T} : Z[i][T] <= Le(Reach(p - 1))

(* Then no clock is ahead of another by more than the pieces so far; nor   *)
(* is the diagonal, which closing never sets to zero.                      *)
Anchored(Z, p) ==
    /\ Carried(Z, p)
    /\ Z[T][0] <= Le(Duration)
    /\ \A i, j \in Var : Z[i][j] <= Le(Reach(p))

PointsAt(S, p) ==
    \A v \in S :
        /\ v \in [Var -> Nat] /\ v[0] = 0 /\ v[T] <= Duration
        /\ \A x \in Var : v[x] <= Reach(p - 1) + v[T]

(* What is true of a zone and of the valuations it stands for, in piece p. *)
Stands(Z, S, p) ==
    /\ Z \in Matrix /\ Anchored(Z, p)
    /\ PointsAt(S, p)
    /\ \A v \in S : Sat(v, Z)

AtEnd(Z) ==
    /\ Z[T][0] = Le(Duration) /\ Z[0][T] = Le(-Duration)
    /\ IsSatisfiableWithoutCanonize(Z)

PathInv ==
    /\ Stands(zone, points, pieces)
    /\ pinned \in BOOLEAN
    /\ pinned => AtEnd(zone)
    /\ pieces \in 1 .. MaxPieces /\ waits \in 0 .. MaxWaits
    /\ \A k \in kept :
           /\ Stands(k.zone, k.points, k.pieces) /\ AtEnd(k.zone)
           /\ k.pieces \in 1 .. MaxPieces /\ k.waits \in 0 .. MaxWaits
    /\ \A m \in merging :
           /\ m.left.zone \in Matrix /\ m.right \in Matrix
           /\ \A i, j \in Var : Complement(m.left.zone[i][j]) < Infinity
           /\ m.done = Mergeable(m.left.zone, m.right)

-----------------------------------------------------------------------------
LEMMA Variables ==
    /\ T \in Var /\ T \in Int /\ T # 0 /\ 0 \in Var
    /\ Clock \subseteq Var \ {0, T} /\ Var \subseteq Nat
  BY DBMAssumption, PathAssumption DEF T, Var, Clock

LEMMA Lengths ==
    ASSUME NEW p \in 1 .. MaxPieces
    PROVE  /\ Reach(p) \in Nat /\ Reach(p - 1) \in Nat
           /\ Reach(p) = Reach(p - 1) + Duration
           /\ Reach(p) <= Duration * MaxPieces
           /\ Duration \in Nat \ {0}
           /\ 20 * Reach(p) + 20 < Infinity
<1>1. Duration \in Nat \ {0} /\ MaxPieces \in Nat \ {0} /\ p \in Nat \ {0} /\ p <= MaxPieces
  BY PathAssumption
<1>2. Duration * p \in Nat /\ Duration * (p - 1) \in Nat
  BY <1>1
<1>3. Duration * p = Duration * (p - 1) + Duration
  BY <1>1
<1>4. Duration * p <= Duration * MaxPieces
  BY <1>1
<1>5. Duration * MaxPieces \in Nat
  BY <1>1
<1>6. 20 * (Duration * p) + 20 < Infinity
  <2>1. 20 * (Duration * MaxPieces + 1) < Infinity
    BY <1>5, PathAssumption, DBMAssumption
  <2> QED
    BY <1>2, <1>4, <1>5, <2>1, DBMAssumption
<1> QED
  BY <1>1, <1>2, <1>3, <1>4, <1>6 DEF Reach

LEMMA DwellBound == Le(Duration) \in Bound /\ Le(-Duration) \in Bound /\ Le(0) \in Bound
<1>1. 1 \in 1 .. MaxPieces /\ Duration * 1 = Duration
  BY PathAssumption
<1>2. 20 * Duration + 20 < Infinity /\ Duration \in Nat
  BY <1>1, Lengths DEF Reach
<1> QED
  BY <1>2, DBMAssumption DEF Le, Bound

(* Bounding the dwell time keeps the valuations within the piece, and      *)
(* bounds every clock through the dwell time.                              *)
LEMMA BoundDwellStands ==
    ASSUME NEW Z \in Matrix, NEW p \in 1 .. MaxPieces, Carried(Z, p)
    PROVE  /\ BoundDwell(Z) \in Matrix /\ Anchored(BoundDwell(Z), p)
           /\ \A v \in [Var -> Nat] :
                v[0] = 0 /\ v[T] <= Duration /\ Sat(v, Z) => Sat(v, BoundDwell(Z))
<1> DEFINE b == Le(Duration)
           Q == Tighten(Z, T, 0, b)
<1>1. /\ Q \in Matrix /\ Q[T][0] <= b
      /\ \A i, j \in Var : /\ Q[i][j] <= Z[i][j]
                           /\ Q[i][0] <= Add(Z[i][T], b)
                           /\ Q[T][j] <= Add(b, Z[0][j])
                           /\ Q[i][j] <= Add(Add(Z[i][T], b), Z[0][j])
  BY Variables, DwellBound, TightenShortens
<1>2. BoundDwell(Z) = Q
  BY DEF BoundDwell
<1>3. \A i, j \in Var : Q[i][j] \in Bound /\ Z[i][j] \in Bound
  BY <1>1 DEF Matrix
<1> HIDE DEF Q
<1>4. Carried(Q, p)
  <2>1. \A i \in Var \ {0} : Q[0][i] <= Le(0)
    <3> TAKE i \in Var \ {0}
    <3>1. Q[0][i] <= Z[0][i] /\ Z[0][i] <= Le(0)
      BY <1>1, Variables DEF Carried
    <3>2. Q[0][i] \in Int /\ Z[0][i] \in Int /\ Le(0) \in Int
      BY <1>3, Variables DEF Bound, Le
    <3> QED
      BY <3>1, <3>2
  <2>2. \A i \in Var \ {T} : Q[i][T] <= Le(Reach(p - 1))
    <3> TAKE i \in Var \ {T}
    <3>1. Q[i][T] <= Z[i][T] /\ Z[i][T] <= Le(Reach(p - 1))
      BY <1>1, Variables DEF Carried
    <3>2. Q[i][T] \in Int /\ Z[i][T] \in Int /\ Le(Reach(p - 1)) \in Int
      BY <1>3, Variables, Lengths DEF Bound, Le
    <3> QED
      BY <3>1, <3>2
  <2> QED
    BY <2>1, <2>2 DEF Carried
<1>5. ASSUME NEW i \in Var, NEW j \in Var PROVE Q[i][j] <= Le(Reach(p))
  <2>1. /\ Z[i][T] \in Bound /\ Z[0][j] \in Bound /\ b \in Bound /\ Le(Reach(p - 1)) \in Bound
        /\ Le(0) \in Bound /\ Le(Reach(p)) \in Bound
    BY <1>3, Variables, DwellBound, Lengths, DBMAssumption DEF Bound, Le
  <2>2. Add(Le(Reach(p - 1)), b) = Le(Reach(p)) /\ Add(Le(Reach(p)), Le(0)) = Le(Reach(p))
    <3>1. 20 * Reach(p) + 20 < Infinity /\ Reach(p) \in Nat /\ Reach(p - 1) \in Nat
          /\ Reach(p) = Reach(p - 1) + Duration /\ Duration \in Nat /\ Infinity \in Nat
      BY Lengths, DBMAssumption
    <3> QED
      BY <3>1 DEF Add, Le
  <2>3. CASE i = T /\ j = 0
    <3>1. b <= Le(Reach(p))
      BY Lengths DEF Le
    <3> QED
      BY <1>1, <1>3, <2>1, <2>3, <3>1 DEF Bound
  <2>4. CASE i # T /\ j = 0
    <3>1. Add(Z[i][T], b) <= Add(Le(Reach(p - 1)), b)
      <4>1. Z[i][T] <= Le(Reach(p - 1)) /\ b <= b
        BY <2>1, <2>4 DEF Carried, Bound
      <4> QED
        BY <2>1, <4>1, AddMonotone
    <3>2. Q[i][0] <= Add(Z[i][T], b) /\ Add(Z[i][T], b) \in Bound
      BY <1>1, <2>1, AddIsBound
    <3> QED
      BY <1>3, <2>1, <2>2, <2>4, <3>1, <3>2 DEF Bound
  <2>5. CASE i # T /\ j # 0
    <3>1. Add(Z[i][T], b) <= Le(Reach(p)) /\ Add(Z[i][T], b) \in Bound
      <4>1. Z[i][T] <= Le(Reach(p - 1)) /\ b <= b
        BY <2>1, <2>5 DEF Carried, Bound
      <4> QED
        BY <2>1, <2>2, <4>1, AddMonotone, AddIsBound
    <3>2. Z[0][j] <= Le(0)
      BY <2>5 DEF Carried
    <3>3. Add(Add(Z[i][T], b), Z[0][j]) <= Le(Reach(p))
      BY <2>1, <2>2, <3>1, <3>2, AddMonotone
    <3>4. Q[i][j] <= Add(Add(Z[i][T], b), Z[0][j]) /\ Add(Add(Z[i][T], b), Z[0][j]) \in Bound
      BY <1>1, <2>1, <3>1, AddIsBound
    <3> QED
      BY <1>3, <2>1, <3>3, <3>4 DEF Bound
  <2>6. CASE i = T /\ j # 0
    <3>1. Q[i][j] <= Add(b, Z[0][j]) /\ Z[0][j] <= Le(0)
      BY <1>1, <2>6 DEF Carried
    <3>2. b <= Le(Reach(p))
      BY Lengths DEF Le
    <3>3. /\ Add(b, Z[0][j]) <= Add(Le(Reach(p)), Le(0))
          /\ Add(b, Z[0][j]) \in Bound
      BY <2>1, <3>1, <3>2, AddMonotone, AddIsBound
    <3> QED
      BY <1>3, <2>1, <2>2, <3>1, <3>3 DEF Bound
  <2> QED
    BY <2>3, <2>4, <2>5, <2>6
<1>6. ASSUME NEW v \in [Var -> Nat], v[0] = 0, v[T] <= Duration, Sat(v, Z)
      PROVE  Sat(v, BoundDwell(Z))
  <2>1. v \in Valuation /\ v[T] \in Nat
    BY Variables DEF Valuation
  <2>2. Holds(v[T] - v[0], b)
    BY <1>6, <2>1, DwellBound, PathAssumption DEF Holds, Le
  <2> QED
    BY <1>6, <2>1, <2>2, Variables, DwellBound, TightenExact DEF BoundDwell
<1> QED
  BY <1>1, <1>2, <1>4, <1>5, <1>6 DEF Anchored

(* Tighter bounds are anchored as well.                                    *)
LEMMA AnchoredMonotone ==
    ASSUME NEW Z \in Matrix, NEW M \in Matrix, NEW p \in 1 .. MaxPieces, Anchored(Z, p),
           \A i, j \in Var : M[i][j] <= Z[i][j]
    PROVE  Anchored(M, p)
<1>1. \A i, j \in Var : M[i][j] \in Int /\ Z[i][j] \in Int
  BY DEF Matrix, Bound
<1>2. Le(0) \in Int /\ Le(Duration) \in Int /\ Le(Reach(p)) \in Int /\ Le(Reach(p - 1)) \in Int
  BY Lengths DEF Le
<1>3. ASSUME NEW i \in Var, NEW j \in Var, NEW b \in Int, Z[i][j] <= b PROVE M[i][j] <= b
  BY <1>1, <1>3
<1>4. \A i \in Var \ {0} : M[0][i] <= Le(0)
  BY <1>2, <1>3, Variables DEF Anchored, Carried
<1>5. \A i \in Var \ {T} : M[i][T] <= Le(Reach(p - 1))
  BY <1>2, <1>3, Variables DEF Anchored, Carried
<1>6. M[T][0] <= Le(Duration)
  BY <1>2, <1>3, Variables DEF Anchored
<1>7. \A i, j \in Var : M[i][j] <= Le(Reach(p))
  BY <1>2, <1>3 DEF Anchored
<1> QED
  BY <1>4, <1>5, <1>6, <1>7 DEF Anchored, Carried

(* A delay leaves the differences of the clocks as they are.               *)
LEMMA ElapseCarried ==
    ASSUME NEW Z \in Matrix, NEW p \in 1 .. MaxPieces, Carried(Z, p)
    PROVE  Elapse(Z) \in Matrix /\ Carried(Elapse(Z), p)
<1>1. /\ Elapse(Z) \in Matrix
      /\ \A i, j \in Var : Elapse(Z)[i][j] =
           IF j = 0 THEN Infinity ELSE IF i = 0 THEN Strict(Z[0][j]) ELSE Z[i][j]
  BY ElapseIs
<1>2. \A j \in Var : Z[0][j] \in Int /\ Strict(Z[0][j]) \in Int /\ Strict(Z[0][j]) <= Z[0][j]
  BY Variables DEF Matrix, Bound, Strict
<1>3. Le(0) <= Le(Reach(p - 1)) /\ Le(0) \in Int /\ Le(Reach(p - 1)) \in Int
  BY Lengths DEF Le
<1>4. ASSUME NEW i \in Var \ {0} PROVE Elapse(Z)[0][i] <= Le(0)
  <2>1. Elapse(Z)[0][i] = Strict(Z[0][i]) /\ Z[0][i] <= Le(0)
    BY <1>1, Variables DEF Carried
  <2> QED
    BY <1>2, <1>3, <2>1
<1>5. ASSUME NEW i \in Var \ {T} PROVE Elapse(Z)[i][T] <= Le(Reach(p - 1))
  <2>1. CASE i = 0
    <3>1. Elapse(Z)[0][T] <= Le(0) /\ Elapse(Z)[0][T] \in Int
      BY <1>1, <1>2, <1>4, Variables
    <3> QED
      BY <1>3, <2>1, <3>1
  <2>2. CASE i # 0
    BY <1>1, <2>2, Variables DEF Carried
  <2> QED
    BY <2>1, <2>2
<1> QED
  BY <1>1, <1>4, <1>5 DEF Carried

(* Setting a clock of the automaton to zero keeps the bounds within reach. *)
LEMMA ResetAnchored ==
    ASSUME NEW Z \in Matrix, NEW p \in 1 .. MaxPieces, Anchored(Z, p), NEW x \in Clock
    PROVE  Reset(Z, x) \in Matrix /\ Anchored(Reset(Z, x), p)
<1> DEFINE N == Aliased(Z, x)
<1>1. /\ x \in Var /\ x # 0 /\ x # T
      /\ N \in Matrix /\ Reset(Z, x) \in Matrix
      /\ \A i, j \in Var : Reset(Z, x)[i][j] <= N[i][j]
  BY Variables, ResetShortens
<1>2. /\ Le(0) <= Le(Reach(p - 1)) /\ Le(0) <= Le(Reach(p)) /\ Le(Duration) <= Le(Reach(p))
      /\ Le(0) \in Int /\ Le(Reach(p - 1)) \in Int /\ Le(Reach(p)) \in Int
  BY Lengths DEF Le
<1>3. \A i, j \in Var : Z[i][j] \in Int
  BY DEF Matrix, Bound
<1>4. \A i, j \in Var :
         N[i][j] = IF {i, j} \subseteq {0, x} /\ <<i, j>> # <<0, 0>> THEN Le(0)
                   ELSE IF j = x THEN Z[i][0]
                   ELSE IF i = x THEN Z[0][j]
                   ELSE Z[i][j]
  BY DEF Aliased
<1> HIDE DEF N
<1>5. \A i \in Var \ {0} : Z[0][i] <= Le(0)
  BY DEF Anchored, Carried
<1>6. \A i \in Var \ {0} : N[0][i] <= Le(0)
  BY <1>1, <1>2, <1>4, <1>5, Variables
<1>7. ASSUME NEW i \in Var \ {T} PROVE N[i][T] <= Le(Reach(p - 1))
  <2>1. CASE i = x \/ i = 0
    <3>1. N[i][T] = Z[0][T] /\ Z[0][T] <= Le(0) /\ Z[0][T] \in Int
      BY <1>1, <1>3, <1>4, <1>5, <2>1, Variables
    <3> QED
      BY <1>2, <3>1
  <2>2. CASE i # x /\ i # 0
    BY <1>1, <1>4, <2>2, Variables DEF Anchored, Carried
  <2> QED
    BY <2>1, <2>2
<1>8. N[T][0] <= Le(Duration)
  BY <1>1, <1>4, Variables DEF Anchored
<1>9. ASSUME NEW i \in Var, NEW j \in Var PROVE N[i][j] <= Le(Reach(p))
  <2>1. CASE {i, j} \subseteq {0, x}
    <3>1. N[i][j] = Le(0) \/ N[i][j] = Z[i][j]
      BY <1>4, <2>1
    <3> QED
      BY <1>2, <3>1 DEF Anchored
  <2>2. CASE ~ ({i, j} \subseteq {0, x}) /\ j = x
    BY <1>4, <2>2, Variables DEF Anchored
  <2>3. CASE ~ ({i, j} \subseteq {0, x}) /\ j # x /\ i = x
    <3>1. N[i][j] = Z[0][j] /\ j # 0
      BY <1>4, <2>3
    <3> QED
      BY <3>1, Variables DEF Anchored
  <2>4. CASE ~ ({i, j} \subseteq {0, x}) /\ j # x /\ i # x
    BY <1>4, <2>4 DEF Anchored
  <2> QED
    BY <2>1, <2>2, <2>3, <2>4
<1>10. Anchored(N, p)
  BY <1>6, <1>7, <1>8, <1>9 DEF Anchored, Carried
<1> QED
  BY <1>1, <1>10, AnchoredMonotone

(* At the end of a piece the dwell time is set to zero, and what the clocks*)
(* have reached is what they carry into the next piece.                    *)
LEMMA ResetDwell ==
    ASSUME NEW Z \in Matrix, NEW p \in 1 .. MaxPieces, Anchored(Z, p)
    PROVE  Reset(Z, T) \in Matrix /\ Carried(Reset(Z, T), p + 1)
<1> DEFINE N == Aliased(Z, T)
<1>1. /\ N \in Matrix /\ Reset(Z, T) \in Matrix
      /\ \A i, j \in Var : Reset(Z, T)[i][j] <= N[i][j]
  BY Variables, ResetShortens
<1>2. Le(0) <= Le(Reach(p)) /\ Le(0) \in Int /\ Le(Reach(p)) \in Int /\ (p + 1) - 1 = p
  BY Lengths DEF Le
<1>3. \A i, j \in Var : Reset(Z, T)[i][j] \in Int /\ N[i][j] \in Int
  BY <1>1 DEF Matrix, Bound
<1>4. \A i, j \in Var :
         N[i][j] = IF {i, j} \subseteq {0, T} /\ <<i, j>> # <<0, 0>> THEN Le(0)
                   ELSE IF j = T THEN Z[i][0]
                   ELSE IF i = T THEN Z[0][j]
                   ELSE Z[i][j]
  BY DEF Aliased
<1> HIDE DEF N
<1>5. ASSUME NEW i \in Var \ {0} PROVE Reset(Z, T)[0][i] <= Le(0)
  <2>1. N[0][i] <= Le(0)
    BY <1>2, <1>4, Variables DEF Anchored, Carried
  <2> QED
    BY <1>1, <1>2, <1>3, <2>1, Variables
<1>6. ASSUME NEW i \in Var \ {T} PROVE Reset(Z, T)[i][T] <= Le(Reach(p))
  <2>1. CASE i = 0
    <3>1. N[i][T] = Le(0)
      BY <1>4, <2>1, Variables
    <3> QED
      BY <1>1, <1>2, <1>3, <3>1, Variables
  <2>2. CASE i # 0
    <3>1. N[i][T] = Z[i][0] /\ Z[i][0] <= Le(Reach(p))
      BY <1>4, <2>2, Variables DEF Anchored
    <3> QED
      BY <1>1, <1>2, <1>3, <3>1, Variables
  <2> QED
    BY <2>1, <2>2
<1> QED
  BY <1>1, <1>2, <1>5, <1>6 DEF Carried

-----------------------------------------------------------------------------
(* What every action does to a zone and its valuations.                    *)

LEMMA StartStands == Stands(Start, StartPoints, 1)
<1>1. 1 \in 1 .. MaxPieces /\ Reach(1 - 1) = 0 /\ Reach(1) = Duration /\ Duration \in Nat
  BY PathAssumption DEF Reach
<1>2. InitialZone = Canonize(FreeDwell)
  BY DEF InitialZone, FreeDwell
<1>3. /\ InitialZone \in Matrix
      /\ \A i, j \in Var : InitialZone[i][j] <= FreeDwell[i][j]
      /\ \A i, j, k \in Var : InitialZone[i][j] <= Add(FreeDwell[i][k], FreeDwell[k][j])
  BY <1>2, FreeDwellIs, Variables, CanonizeShortens
<1>4. Carried(InitialZone, 1)
  <2>1. \A i \in Var : InitialZone[0][i] <= Le(0)
    BY <1>3, FreeDwellIs, Variables
  <2>2. ASSUME NEW i \in Var \ {T} PROVE InitialZone[i][T] <= Le(0)
    <3>1. FreeDwell[i][0] = Le(0) /\ FreeDwell[0][T] = Le(0)
      BY FreeDwellIs, Variables
    <3>2. Add(Le(0), Le(0)) = Le(0)
      BY DwellBound, DBMAssumption DEF Add, Le, Bound
    <3> QED
      BY <1>3, <3>1, <3>2, Variables
  <2> QED
    BY <1>1, <2>1, <2>2 DEF Carried
<1>5. ASSUME NEW v \in StartPoints
      PROVE  /\ v \in [Var -> Nat] /\ v[0] = 0 /\ v[T] <= Duration
             /\ \A x \in Var \ {T} : v[x] = 0
  <2>1. Duration * MaxPieces \in Nat
    BY PathAssumption
  <2> QED
    BY <2>1 DEF StartPoints, Grid, Ticks
<1>6. PointsAt(StartPoints, 1)
  <2> SUFFICES ASSUME NEW v \in StartPoints, NEW x \in Var PROVE v[x] <= 0 + v[T]
    BY <1>1, <1>5 DEF PointsAt
  <2>1. v[x] \in Nat /\ v[T] \in Nat /\ (x # T => v[x] = 0)
    BY <1>5, Variables
  <2> QED
    BY <2>1
<1>7. ASSUME NEW v \in StartPoints PROVE Sat(v, Start)
  <2>1. v \in Valuation
    BY <1>5 DEF Valuation
  <2>2. ASSUME NEW i \in Var, NEW j \in Var PROVE Holds(v[i] - v[j], FreeDwell[i][j])
    <3>1. CASE i = 0 \/ (i # T /\ j # T)
      <4>1. v[i] = 0 /\ v[j] \in Nat /\ FreeDwell[i][j] = Le(0)
        BY <1>5, <3>1, FreeDwellIs, Variables
      <4> QED
        BY <4>1 DEF Holds, Le
    <3>2. CASE ~ (i = 0 \/ (i # T /\ j # T))
      BY <3>2, FreeDwellIs, Variables DEF Holds
    <3> QED
      BY <3>1, <3>2
  <2>3. Sat(v, InitialZone)
    BY <1>2, <2>1, <2>2, FreeDwellIs, Variables, CanonizeExact DEF Sat
  <2> QED
    BY <1>1, <1>3, <1>4, <1>5, <2>3, BoundDwellStands DEF Start
<1> QED
  BY <1>1, <1>3, <1>4, <1>6, <1>7, BoundDwellStands DEF Stands, Start

LEMMA PointIsValuation ==
    ASSUME NEW p \in 1 .. MaxPieces, NEW S, PointsAt(S, p), NEW v \in S
    PROVE  /\ v \in [Var -> Nat] /\ v \in Valuation /\ v[0] = 0
           /\ v[T] \in Nat /\ v[T] <= Duration
           /\ \A x \in Var : v[x] <= Reach(p - 1) + v[T]
  BY Variables DEF PointsAt, Valuation

(* A delay.                                                                *)
LEMMA WaitStands ==
    ASSUME NEW p \in 1 .. MaxPieces, NEW Z \in Matrix, Carried(Z, p), NEW S,
           PointsAt(S, p), \A v \in S : Sat(v, Z)
    PROVE  Stands(BoundDwell(Elapse(Z)), Delayed(S), p)
<1>1. Elapse(Z) \in Matrix /\ Carried(Elapse(Z), p)
  BY ElapseCarried
<1>2. ASSUME NEW w \in Delayed(S)
      PROVE  /\ w \in [Var -> Nat] /\ w[0] = 0 /\ w[T] <= Duration
             /\ \A x \in Var : w[x] <= Reach(p - 1) + w[T]
             /\ Sat(w, Elapse(Z))
  <2>1. PICK v \in S : w \in DelayedPoints(v, Duration)
    BY DEF Delayed
  <2>2. PICK d \in 1 .. Duration - v[T] :
           w = [x \in Var |-> IF x = 0 THEN 0 ELSE v[x] + d]
    BY <2>1 DEF DelayedPoints
  <2>3. /\ v \in [Var -> Nat] /\ v \in Valuation /\ v[0] = 0
        /\ v[T] \in Nat /\ v[T] <= Duration
        /\ \A x \in Var : v[x] <= Reach(p - 1) + v[T]
    BY PointIsValuation
  <2>4. d \in Nat /\ d > 0 /\ d <= Duration - v[T] /\ Duration \in Nat /\ Reach(p - 1) \in Nat
    BY <2>3, Lengths
  <2>5. w \in [Var -> Nat] /\ w[0] = 0 /\ w[T] = v[T] + d
    BY <2>2, <2>3, <2>4, Variables
  <2>6. w[T] <= Duration
    BY <2>3, <2>4, <2>5
  <2>7. ASSUME NEW x \in Var PROVE w[x] <= Reach(p - 1) + w[T]
    <3>1. CASE x = 0
      BY <2>3, <2>4, <2>5, <3>1
    <3>2. CASE x # 0
      <4>1. w[x] = v[x] + d /\ v[x] \in Nat /\ v[x] <= Reach(p - 1) + v[T]
        BY <2>2, <2>3, <3>2
      <4> QED
        BY <2>3, <2>4, <2>5, <4>1
    <3> QED
      BY <3>1, <3>2
  <2>8. Sat(w, Elapse(Z))
    BY <2>2, <2>3, <2>4, ElapseSound
  <2> QED
    BY <2>5, <2>6, <2>7, <2>8
<1>3. PointsAt(Delayed(S), p)
  BY <1>2 DEF PointsAt
<1>4. \A w \in Delayed(S) : Sat(w, BoundDwell(Elapse(Z)))
  BY <1>1, <1>2, BoundDwellStands
<1> QED
  BY <1>1, <1>3, <1>4, BoundDwellStands DEF Stands

(* A transition.                                                           *)
LEMMA JumpStands ==
    ASSUME NEW p \in 1 .. MaxPieces, NEW Z, NEW S, Stands(Z, S, p),
           NEW n \in DOMAIN TA.edges
    PROVE  LET e == TA.edges[n]
           IN  Stands(ResetAll(Canonize(Guarded(Z, e.guard)), e.resets),
                      {ResetPoint(v, e.resets) : v \in {w \in S : Meets(w, e.guard)}}, p)
<1> DEFINE guard == TA.edges[n].guard
           xs == TA.edges[n].resets
           N == Canonize(Guarded(Z, guard))
<1>1. IsGuard(guard) /\ xs \subseteq Clock
  <2>1. [x : Clock, odr : Orders, c : Int] \subseteq Constraint
    BY Variables DEF Constraint
  <2> QED
    BY <2>1, PathAssumption DEF IsGuard
<1> HIDE DEF guard, xs
<1>2. /\ Z \in Matrix /\ Anchored(Z, p) /\ PointsAt(S, p)
      /\ \A v \in S : Sat(v, Z)
  BY DEF Stands
<1>3. /\ Guarded(Z, guard) \in Matrix
      /\ \A i, j \in Var : Guarded(Z, guard)[i][j] <= Z[i][j]
  BY <1>1, <1>2, GuardedExact
<1>4. N \in Matrix /\ Anchored(N, p)
  BY <1>2, <1>3, CanonizeShortens, AnchoredMonotone
<1>5. ResetAll(N, xs) \in {M \in Matrix : Anchored(M, p)}
  <2> DEFINE Inside == {M \in Matrix : Anchored(M, p)}
  <2>1. N \in Inside /\ Inside \subseteq Matrix
    BY <1>4
  <2>2. \A M \in Inside : \A x \in xs \cap (Var \ {0}) : Reset(M, x) \in Inside
    BY <1>1, ResetAnchored
  <2> HIDE DEF Inside, N
  <2>3. ResetAll(N, xs) \in Inside
    BY <2>1, <2>2, ResetAllPreserves
  <2> QED
    BY <2>3 DEF Inside, N
<1> DEFINE Moved == {ResetPoint(v, xs) : v \in {w \in S : Meets(w, guard)}}
<1>6. ASSUME NEW w \in Moved
      PROVE  /\ w \in [Var -> Nat] /\ w[0] = 0 /\ w[T] <= Duration
             /\ \A x \in Var : w[x] <= Reach(p - 1) + w[T]
             /\ Sat(w, ResetAll(N, xs))
  <2>1. PICK v \in S : w = ResetPoint(v, xs) /\ Meets(v, guard)
    OBVIOUS
  <2>2. /\ v \in [Var -> Nat] /\ v \in Valuation /\ v[0] = 0
        /\ v[T] \in Nat /\ v[T] <= Duration
        /\ \A x \in Var : v[x] <= Reach(p - 1) + v[T]
    BY <1>2, PointIsValuation
  <2>3. w \in [Var -> Nat] /\ w[0] = 0 /\ w[T] = v[T]
    BY <1>1, <2>1, <2>2, Variables DEF ResetPoint
  <2>4. ASSUME NEW x \in Var PROVE w[x] <= Reach(p - 1) + w[T]
    <3>1. w[x] = 0 \/ w[x] = v[x]
      BY <2>1 DEF ResetPoint
    <3>2. Reach(p - 1) \in Nat /\ w[T] \in Nat
      BY <2>2, <2>3, Lengths
    <3> QED
      BY <2>2, <2>3, <3>1, <3>2
  <2>5. Sat(v, N)
    BY <1>1, <1>2, <1>3, <2>1, <2>2, GuardedExact, CanonizeExact
  <2>6. Sat(w, ResetAll(N, xs))
    <3> HIDE DEF N
    <3> QED
      BY <1>1, <1>4, <2>1, <2>2, <2>5, Variables, ResetAllSound
  <2> QED
    BY <2>2, <2>3, <2>4, <2>6
<1> HIDE DEF N, Moved
<1>7. PointsAt(Moved, p) /\ \A w \in Moved : Sat(w, ResetAll(N, xs))
  BY <1>6 DEF PointsAt
<1>8. Stands(ResetAll(N, xs), Moved, p)
  BY <1>5, <1>7 DEF Stands
<1> QED
  BY <1>8 DEF Moved, N, guard, xs

(* A bound and the bound of the opposite difference that do not contradict *)
(* each other, with no room between them.                                  *)
LEMMA Squeezed ==
    ASSUME NEW a \in Bound, NEW b \in Bound, NEW c \in Int,
           a <= Le(c), b <= Le(-c), Le(c) < Infinity, Le(-c) < Infinity,
           Add(a, b) >= Le(0)
    PROVE  a = Le(c) /\ b = Le(-c)
<1>1. a \in Int /\ b \in Int /\ a # Infinity /\ b # Infinity
  BY DBMAssumption DEF Bound, Le
<1>2. a <= 2 * c + 1 /\ b <= 1 - 2 * c
  BY DEF Le
<1>3. a + b >= 1 /\ (a % 2 = 1 \/ b % 2 = 1 => a + b >= 2)
  BY <1>1, DBMAssumption DEF Add, Le
<1>4. a + b >= 2
  BY <1>1, <1>3
<1>5. a = 2 * c + 1 /\ b = 1 - 2 * c
  BY <1>1, <1>2, <1>4
<1> QED
  BY <1>5 DEF Le

(* The end of a piece.                                                     *)
LEMMA PinStands ==
    ASSUME NEW p \in 1 .. MaxPieces, NEW Z, NEW S, Stands(Z, S, p)
    PROVE  LET next == Canonize(TightenWithoutClose(
                     TightenWithoutClose(Z, 0, T, Le(-Duration)), T, 0, Le(Duration)))
           IN  /\ Stands(next, {v \in S : v[T] = Duration}, p)
               /\ IsSatisfiableWithoutCanonize(next) => AtEnd(next)
<1> DEFINE M == TightenWithoutClose(Z, 0, T, Le(-Duration))
           N == TightenWithoutClose(M, T, 0, Le(Duration))
           Q == Canonize(N)
<1>1. /\ Z \in Matrix /\ Anchored(Z, p) /\ PointsAt(S, p)
      /\ \A v \in S : Sat(v, Z)
  BY DEF Stands
<1>2. \A i, j \in Var : Z[i][j] \in Bound
  BY <1>1 DEF Matrix
<1>3. /\ M \in Matrix
      /\ \A i, j \in Var : M[i][j] = IF i = 0 /\ j = T THEN Lower(Z[0][T], Le(-Duration))
                                     ELSE Z[i][j]
  BY <1>1, Variables, DwellBound, TightenWithoutCloseIs
<1>4. M[0][T] <= Le(-Duration) /\ \A i, j \in Var : M[i][j] <= Z[i][j] /\ M[i][j] \in Bound
  BY <1>2, <1>3, Variables, DwellBound DEF Lower, Bound, Matrix
<1>5. ASSUME NEW v \in Valuation
      PROVE  Sat(v, M) <=> Sat(v, Z) /\ Holds(v[0] - v[T], Le(-Duration))
  BY <1>1, Variables, DwellBound, TightenWithoutCloseExact
<1> HIDE DEF M
<1>6. /\ N \in Matrix
      /\ \A i, j \in Var : N[i][j] = IF i = T /\ j = 0 THEN Lower(M[T][0], Le(Duration))
                                     ELSE M[i][j]
  BY <1>3, Variables, DwellBound, TightenWithoutCloseIs
<1>7. /\ N[0][T] <= Le(-Duration) /\ N[T][0] <= Le(Duration)
      /\ \A i, j \in Var : N[i][j] <= M[i][j] /\ N[i][j] \in Bound
  BY <1>4, <1>6, Variables, DwellBound DEF Lower, Bound, Matrix
<1>8. ASSUME NEW v \in Valuation
      PROVE  Sat(v, N) <=> Sat(v, M) /\ Holds(v[T] - v[0], Le(Duration))
  BY <1>3, Variables, DwellBound, TightenWithoutCloseExact
<1> HIDE DEF N
<1>9. Q \in Matrix /\ \A i, j \in Var : Q[i][j] <= N[i][j]
  BY <1>6, CanonizeShortens
<1>10. ASSUME NEW v \in Valuation PROVE Sat(v, Q) <=> Sat(v, N)
  BY <1>6, CanonizeExact
<1> HIDE DEF Q
<1>11. \A i, j \in Var : Q[i][j] \in Bound /\ Q[i][j] <= Z[i][j]
  <2>1. \A i, j \in Var : /\ Q[i][j] \in Int /\ N[i][j] \in Int /\ M[i][j] \in Int
                          /\ Z[i][j] \in Int /\ Q[i][j] \in Bound
    BY <1>2, <1>4, <1>7, <1>9 DEF Matrix, Bound
  <2> QED
    BY <1>4, <1>7, <1>9, <2>1
<1>12. Anchored(Q, p)
  BY <1>1, <1>9, <1>11, AnchoredMonotone
<1>13. PointsAt({v \in S : v[T] = Duration}, p)
  BY <1>1 DEF PointsAt
<1>14. ASSUME NEW v \in S, v[T] = Duration PROVE Sat(v, Q)
  <2>1. v \in Valuation /\ v[0] = 0 /\ Sat(v, Z) /\ Duration \in Nat
    BY <1>1, PointIsValuation, PathAssumption
  <2>2. Holds(v[0] - v[T], Le(-Duration)) /\ Holds(v[T] - v[0], Le(Duration))
    BY <1>14, <2>1 DEF Holds, Le
  <2> QED
    BY <1>5, <1>8, <1>10, <2>1, <2>2
<1>15. ASSUME IsSatisfiableWithoutCanonize(Q) PROVE AtEnd(Q)
  <2>1. /\ Q[T][0] \in Bound /\ Q[0][T] \in Bound
        /\ Q[T][0] <= Le(Duration) /\ Q[0][T] <= Le(-Duration)
    <3>1. Q[T][0] <= N[T][0] /\ Q[0][T] <= N[0][T]
      BY <1>9, Variables
    <3>2. /\ Q[T][0] \in Bound /\ Q[0][T] \in Bound
          /\ N[T][0] \in Bound /\ N[0][T] \in Bound
      BY <1>7, <1>11, Variables
    <3> QED
      BY <1>7, <3>1, <3>2, DwellBound DEF Bound
  <2>2. Add(Q[T][0], Q[0][T]) >= Le(0)
    BY <1>15, Variables DEF IsSatisfiableWithoutCanonize
  <2>3. Le(Duration) < Infinity /\ Le(-Duration) < Infinity
    <3>1. 1 \in 1 .. MaxPieces /\ Reach(1) = Duration
      BY PathAssumption DEF Reach
    <3>2. 20 * Duration + 20 < Infinity /\ Duration \in Nat /\ Infinity \in Int
      BY <3>1, Lengths, DBMAssumption
    <3> QED
      BY <3>2 DEF Le
  <2>4. Duration \in Int
    BY PathAssumption
  <2> QED
    BY <1>15, <2>1, <2>2, <2>3, <2>4, Squeezed DEF AtEnd
<1>16. Stands(Q, {v \in S : v[T] = Duration}, p)
  BY <1>9, <1>12, <1>13, <1>14 DEF Stands
<1> QED
  BY <1>15, <1>16 DEF Q, N, M

(* The next piece.                                                         *)
LEMMA NewPieceStands ==
    ASSUME NEW p \in 1 .. MaxPieces, p + 1 \in 1 .. MaxPieces,
           NEW Z, NEW S, Stands(Z, S, p)
    PROVE  LET next   == Reset(Z, T)
               moved  == {ResetPoint(v, {T}) : v \in S}
           IN  /\ Stands(BoundDwell(next), moved, p + 1)
               /\ Stands(BoundDwell(Elapse(next)), Delayed(moved), p + 1)
<1> DEFINE next  == Reset(Z, T)
           moved == {ResetPoint(v, {T}) : v \in S}
<1>1. /\ Z \in Matrix /\ Anchored(Z, p) /\ PointsAt(S, p)
      /\ \A v \in S : Sat(v, Z)
  BY DEF Stands
<1>2. next \in Matrix /\ Carried(next, p + 1)
  BY <1>1, ResetDwell
<1>3. ASSUME NEW w \in moved
      PROVE  /\ w \in [Var -> Nat] /\ w[0] = 0 /\ w[T] = 0
             /\ \A x \in Var : w[x] <= Reach(p)
             /\ Sat(w, next)
  <2>1. PICK v \in S : w = ResetPoint(v, {T})
    OBVIOUS
  <2>2. /\ v \in [Var -> Nat] /\ v \in Valuation /\ v[0] = 0
        /\ v[T] \in Nat /\ v[T] <= Duration
        /\ \A x \in Var : v[x] <= Reach(p - 1) + v[T]
    BY <1>1, PointIsValuation
  <2>3. w = [v EXCEPT ![T] = 0]
    BY <2>1, <2>2 DEF ResetPoint
  <2>4. w \in [Var -> Nat] /\ w[0] = 0 /\ w[T] = 0
    BY <2>2, <2>3, Variables
  <2>5. ASSUME NEW x \in Var PROVE w[x] <= Reach(p)
    <3>1. v[x] \in Nat /\ v[x] <= Reach(p)
      BY <2>2, Lengths
    <3>2. w[x] = 0 \/ w[x] = v[x]
      BY <2>3, <2>2
    <3> QED
      BY <3>1, <3>2, Lengths
  <2>6. Sat(w, next)
    BY <1>1, <2>2, <2>3, Variables, ResetSound
  <2> QED
    BY <2>4, <2>5, <2>6
<1> HIDE DEF next, moved
<1>4. (p + 1) - 1 = p /\ Duration \in Nat
  BY PathAssumption
<1>5. PointsAt(moved, p + 1)
  <2> SUFFICES ASSUME NEW w \in moved, NEW x \in Var
               PROVE  w[x] <= Reach(p) + w[T]
    BY <1>3, <1>4 DEF PointsAt
  <2> QED
    BY <1>3, Lengths
<1>6. Stands(BoundDwell(next), moved, p + 1)
  <2>1. \A w \in moved : Sat(w, BoundDwell(next))
    BY <1>2, <1>3, <1>4, BoundDwellStands
  <2> QED
    BY <1>2, <1>5, <2>1, BoundDwellStands DEF Stands
<1>7. Stands(BoundDwell(Elapse(next)), Delayed(moved), p + 1)
  BY <1>2, <1>3, <1>5, WaitStands
<1> QED
  BY <1>6, <1>7 DEF next, moved

(* A satisfiable zone whose bounds are within reach has no bound so low    *)
(* that its complement would pass for infinity.                            *)
LEMMA ComplementFinite ==
    ASSUME NEW p \in 1 .. MaxPieces, NEW Z \in Matrix, Anchored(Z, p),
           IsSatisfiableWithoutCanonize(Z), NEW i \in Var, NEW j \in Var
    PROVE  Complement(Z[i][j]) < Infinity
<1>1. Z[i][j] \in Bound /\ Z[j][i] \in Bound
  BY DEF Matrix
<1>2. Add(Z[i][j], Z[j][i]) >= 1
  BY DEF IsSatisfiableWithoutCanonize, Le
<1>3. Z[i][j] <= 2 * Reach(p) + 1 /\ Z[j][i] <= 2 * Reach(p) + 1
  BY DEF Anchored, Le
<1>4. Reach(p) \in Nat /\ 20 * Reach(p) + 20 < Infinity /\ Infinity \in Nat
  BY Lengths, DBMAssumption
<1>5. Z[i][j] + Z[j][i] >= 1
  BY <1>1, <1>2, <1>3, <1>4 DEF Add, Bound
<1> QED
  BY <1>1, <1>3, <1>4, <1>5 DEF Bound, Complement

(* The hull of two zones that are at the end of the same piece.            *)
LEMMA UnionAtEnd ==
    ASSUME NEW p \in 1 .. MaxPieces, NEW Z \in Matrix, NEW E \in Matrix,
           Anchored(Z, p), AtEnd(Z), Anchored(E, p), AtEnd(E)
    PROVE  /\ ConvexUnion(Z, E) \in Matrix
           /\ Anchored(ConvexUnion(Z, E), p) /\ AtEnd(ConvexUnion(Z, E))
<1> DEFINE U == ConvexUnion(Z, E)
<1>1. \A i, j \in Var : Z[i][j] \in Bound /\ E[i][j] \in Bound
  BY DEF Matrix
<1>2. U \in Matrix /\ \A i, j \in Var : U[i][j] = Higher(Z[i][j], E[i][j])
  BY <1>1 DEF ConvexUnion, Matrix, Higher
<1> HIDE DEF U
<1>3. \A i, j \in Var : /\ U[i][j] \in Bound /\ Z[i][j] <= U[i][j]
                        /\ U[i][j] = Z[i][j] \/ U[i][j] = E[i][j]
  BY <1>1, <1>2 DEF Higher, Bound
<1>4. Anchored(U, p)
  <2>1. ASSUME NEW i \in Var, NEW j \in Var, NEW b, Z[i][j] <= b, E[i][j] <= b
        PROVE  U[i][j] <= b
    BY <1>3, <2>1
  <2> QED
    BY <2>1, Variables DEF Anchored, Carried
<1>5. U[T][0] = Le(Duration) /\ U[0][T] = Le(-Duration)
  BY <1>3, Variables DEF AtEnd
<1>6. ASSUME NEW i \in Var, NEW j \in Var PROVE Add(U[i][j], U[j][i]) >= Le(0)
  <2>1. Add(Z[i][j], Z[j][i]) >= Le(0)
    BY DEF AtEnd, IsSatisfiableWithoutCanonize
  <2>2. Add(Z[i][j], Z[j][i]) <= Add(U[i][j], U[j][i])
    BY <1>1, <1>3, AddMonotone
  <2>3. Add(Z[i][j], Z[j][i]) \in Bound /\ Add(U[i][j], U[j][i]) \in Bound
    BY <1>1, <1>3, AddIsBound
  <2> QED
    BY <2>1, <2>2, <2>3 DEF Bound, Le
<1> QED
  BY <1>2, <1>4, <1>5, <1>6 DEF AtEnd, IsSatisfiableWithoutCanonize, U

(* Two zones of the end of the same piece that are merged.                 *)
LEMMA MergeStands ==
    ASSUME NEW p \in 1 .. MaxPieces, NEW Z, NEW R, NEW E, NEW S,
           Stands(Z, R, p), AtEnd(Z), Stands(E, S, p), AtEnd(E), Mergeable(Z, E)
    PROVE  Stands(Merge(Z, E), S \cup R, p) /\ AtEnd(Merge(Z, E))
<1>1. /\ Z \in Matrix /\ Anchored(Z, p) /\ E \in Matrix /\ Anchored(E, p)
      /\ PointsAt(S, p) /\ PointsAt(R, p)
      /\ \A v \in R : Sat(v, Z)
      /\ \A v \in S : Sat(v, E)
  BY DEF Stands
<1>2. Merge(Z, E) \in Matrix /\ Anchored(Merge(Z, E), p) /\ AtEnd(Merge(Z, E))
  BY <1>1, UnionAtEnd DEF Merge
<1>3. \A i, j \in Var : Complement(Z[i][j]) < Infinity
  BY <1>1, ComplementFinite DEF AtEnd
<1>4. PointsAt(S \cup R, p)
  BY <1>1 DEF PointsAt
<1>5. \A v \in S \cup R : Sat(v, Merge(Z, E))
  <2>1. \A v \in S \cup R : v \in Valuation
    BY <1>4, PointIsValuation
  <2> QED
    BY <1>1, <1>3, <2>1, MergeIsUnion
<1> QED
  BY <1>2, <1>4, <1>5 DEF Stands

-----------------------------------------------------------------------------
(* The inductive invariant *)

LEMMA PathInvInit == Init => PathInv
<1> SUFFICES ASSUME Init PROVE PathInv
  OBVIOUS
<1>1. 1 \in 1 .. MaxPieces /\ 0 \in 0 .. MaxWaits
  BY PathAssumption
<1>2. /\ zone = Start /\ points = StartPoints /\ pinned = FALSE
      /\ pieces = 1 /\ waits = 0 /\ kept = {} /\ merging = {}
  BY DEF Init
<1>3. Stands(zone, points, pieces)
  BY <1>2, StartStands
<1> QED
  BY <1>1, <1>2, <1>3 DEF PathInv

LEMMA PathInvStep == PathInv /\ [Next]_vars => PathInv'
<1> SUFFICES ASSUME PathInv, [Next]_vars PROVE PathInv'
  OBVIOUS
<1>0. pieces \in 1 .. MaxPieces /\ waits \in 0 .. MaxWaits /\ MaxPieces \in Nat /\ MaxWaits \in Nat
  BY PathAssumption DEF PathInv
<1>1. CASE Wait
  <2>1. zone \in Matrix /\ Carried(zone, pieces) /\ PointsAt(points, pieces)
        /\ \A v \in points : Sat(v, zone)
    BY DEF PathInv, Stands, Anchored
  <2>2. Stands(BoundDwell(Elapse(zone)), Delayed(points), pieces)
    BY <1>0, <2>1, WaitStands
  <2>3. waits' \in 0 .. MaxWaits
    BY <1>0, <1>1 DEF Wait
  <2> QED
    BY <1>1, <2>2, <2>3 DEF Wait, PathInv
<1>2. ASSUME NEW i \in DOMAIN TA.edges, Jump(TA.edges[i]) PROVE PathInv'
  <2>1. Stands(zone', points', pieces)
    BY <1>0, <1>2, JumpStands DEF Jump, PathInv
  <2> QED
    BY <1>2, <2>1 DEF Jump, PathInv
<1>3. CASE Pin
  <2>1. Stands(zone', points', pieces) /\ AtEnd(zone')
    BY <1>0, <1>3, PinStands DEF Pin, PathInv
  <2> QED
    BY <1>3, <2>1 DEF Pin, PathInv
<1>4. ASSUME NEW jumpable \in BOOLEAN, NewPiece(jumpable) PROVE PathInv'
  <2>1. pieces + 1 \in 1 .. MaxPieces
    BY <1>0, <1>4 DEF NewPiece
  <2>2. Stands(zone', points', pieces + 1)
    BY <1>0, <1>4, <2>1, NewPieceStands DEF NewPiece, PathInv
  <2>3. waits' \in 0 .. MaxWaits
    BY <1>0, <1>4 DEF NewPiece
  <2> QED
    BY <1>4, <2>1, <2>2, <2>3 DEF NewPiece, PathInv
<1>5. CASE Keep
  <2>1. Stands(zone', points', 1) /\ 1 \in 1 .. MaxPieces /\ 0 \in 0 .. MaxWaits
    BY <1>0, <1>5, StartStands DEF Keep
  <2>2. \A k \in kept' :
           /\ Stands(k.zone, k.points, k.pieces) /\ AtEnd(k.zone)
           /\ k.pieces \in 1 .. MaxPieces /\ k.waits \in 0 .. MaxWaits
    BY <1>5 DEF Keep, PathInv
  <2> QED
    BY <1>5, <2>1, <2>2 DEF Keep, PathInv
<1>6. ASSUME NEW k \in kept, MergeInto(k) PROVE PathInv'
  <2>1. /\ Stands(k.zone, k.points, pieces) /\ AtEnd(k.zone) /\ k.waits \in 0 .. MaxWaits
        /\ Stands(zone, points, pieces) /\ AtEnd(zone) /\ pinned
    BY <1>6 DEF MergeInto, PathInv
  <2>2. Stands(zone', points', pieces) /\ AtEnd(zone')
    BY <1>0, <1>6, <2>1, MergeStands DEF MergeInto
  <2>3. waits' \in 0 .. MaxWaits
    BY <1>0, <1>6, <2>1 DEF MergeInto
  <2>4. /\ k.zone \in Matrix /\ zone \in Matrix
        /\ \A i, j \in Var : Complement(k.zone[i][j]) < Infinity
    BY <1>0, <2>1, ComplementFinite DEF Stands, AtEnd
  <2>5. merging' = {[done |-> Mergeable(k.zone, zone), left |-> k, right |-> zone]}
    BY <1>6 DEF MergeInto
  <2>6. \A m \in merging' :
           /\ m.left.zone \in Matrix /\ m.right \in Matrix
           /\ \A i, j \in Var : Complement(m.left.zone[i][j]) < Infinity
           /\ m.done = Mergeable(m.left.zone, m.right)
    BY <2>4, <2>5
  <2> QED
    BY <1>6, <2>2, <2>3, <2>6 DEF MergeInto, PathInv
<1>7. CASE UNCHANGED vars
  <2>1. /\ zone' = zone /\ points' = points /\ pinned' = pinned /\ pieces' = pieces
        /\ waits' = waits /\ kept' = kept /\ merging' = merging
    BY <1>7 DEF vars
  <2> QED
    BY <2>1 DEF PathInv
<1> QED
  BY <1>1, <1>2, <1>3, <1>4, <1>5, <1>6, <1>7 DEF Next

(* In every state of a path the zone holds all the valuations the path has *)
(* reached, and no clock in it runs further than the pieces are long.      *)
THEOREM PathInvariant == Spec => []PathInv
  BY PathInvInit, PathInvStep, PTL DEF Spec

(* The zone stays a matrix of bounds, the valuations stay on the grid, and *)
(* at the end of a piece the dwell time is the duration.                   *)
THEOREM PathTypeOK == Spec => []TypeOK
<1>1. PathInv => TypeOK
  <2> SUFFICES ASSUME PathInv PROVE TypeOK
    OBVIOUS
  <2>1. pieces \in 1 .. MaxPieces /\ PointsAt(points, pieces)
    BY DEF PathInv, Stands
  <2>2. ASSUME NEW v \in points PROVE v \in Grid
    <3>1. /\ v \in [Var -> Nat] /\ v[0] = 0
          /\ v[T] \in Nat /\ v[T] <= Duration
          /\ \A x \in Var : v[x] <= Reach(pieces - 1) + v[T]
      BY <2>1, PointIsValuation
    <3>2. /\ Reach(pieces) = Reach(pieces - 1) + Duration /\ Reach(pieces - 1) \in Nat
          /\ Reach(pieces) <= Duration * MaxPieces /\ Reach(pieces) \in Nat
      BY <2>1, Lengths
    <3>3. Duration * MaxPieces \in Nat /\ Duration \in Nat
      BY PathAssumption
    <3>4. ASSUME NEW x \in Var PROVE v[x] \in Ticks
      <4>1. v[x] \in Nat /\ v[x] <= Reach(pieces - 1) + v[T]
        BY <3>1
      <4> QED
        BY <3>1, <3>2, <3>3, <4>1 DEF Ticks
    <3> QED
      BY <3>1, <3>4 DEF Grid
  <2> QED
    BY <2>2 DEF PathInv, Stands, AtEnd, TypeOK
<1> QED
  BY <1>1, PathInvariant, PTL

(* No valuation that the path reaches is ever missing from the zone,       *)
(* whatever the order of delays, transitions, piece ends and merges.       *)
THEOREM PathNothingLost == Spec => []NothingLost
<1>1. PathInv => NothingLost
  BY DEF PathInv, Stands, NothingLost
<1> QED
  BY <1>1, PathInvariant, PTL

(* At the end of a piece every bound of the zone is finite, so that the    *)
(* complements merge works with are too.                                   *)
THEOREM PathFiniteWhenMerged == Spec => []FiniteWhenMerged
<1>1. PathInv => FiniteWhenMerged
  <2> SUFFICES ASSUME PathInv, NEW i \in Var, NEW j \in Var, i # j
               PROVE  zone[i][j] < Infinity
    BY DEF FiniteWhenMerged
  <2>1. /\ pieces \in 1 .. MaxPieces /\ zone[i][j] \in Bound
        /\ zone[i][j] <= Le(Reach(pieces))
    BY DEF PathInv, Stands, Matrix, Anchored
  <2>2. Reach(pieces) \in Nat /\ 20 * Reach(pieces) + 20 < Infinity /\ Infinity \in Nat
    BY <2>1, Lengths, DBMAssumption
  <2> QED
    BY <2>1, <2>2 DEF Le, Bound
<1> QED
  BY <1>1, PathInvariant, PTL

(* A merge that succeeds leaves exactly the union of the two zones.        *)
THEOREM PathMergeExact == Spec => []MergeExact
<1>1. PathInv => MergeExact
  <2> SUFFICES ASSUME PathInv, NEW m \in merging, m.done, NEW v \in Grid
               PROVE  Sat(v, Merge(m.left.zone, m.right)) <=> InOne(m, v)
    BY DEF MergeExact
  <2>1. /\ m.left.zone \in Matrix /\ m.right \in Matrix
        /\ \A i, j \in Var : Complement(m.left.zone[i][j]) < Infinity
        /\ Mergeable(m.left.zone, m.right)
    BY DEF PathInv
  <2>2. v \in Valuation
    <3>1. Duration * MaxPieces \in Nat
      BY PathAssumption
    <3> QED
      BY <3>1 DEF Grid, Ticks, Valuation
  <2> QED
    BY <2>1, <2>2, MergeIsUnion DEF InOne
<1> QED
  BY <1>1, PathInvariant, PTL

-----------------------------------------------------------------------------
(* The canonical form.  Closing through the touched variables alone only   *)
(* restores it when the zone is satisfiable, so the two are proved         *)
(* together: that a zone is satisfiable is tested after a delay, a         *)
(* transition and the end of a piece, and has to be shown at the start of a*)
(* match, in the next piece and after a merge.                             *)

Good(Z) == Canonical(Z) /\ IsSatisfiableWithoutCanonize(Z)

CanonInv == Good(zone) /\ \A k \in kept : Good(k.zone)

LEMMA Limits ==
    ASSUME NEW p \in 1 .. MaxPieces
    PROVE  /\ Le(Reach(p)) \in Nat /\ 8 * Le(Reach(p)) < Infinity
           /\ 6 * Le(Reach(p)) < Infinity /\ 4 * Le(Reach(p)) < Infinity
           /\ Le(Reach(p)) >= Le(0) /\ Le(Duration) <= Le(Reach(p))
<1>1. Reach(p) \in Nat /\ 20 * Reach(p) + 20 < Infinity /\ Infinity \in Nat
      /\ Duration \in Nat /\ Duration <= Reach(p)
  BY Lengths, DBMAssumption
<1>2. Le(Reach(p)) = 2 * Reach(p) + 1 /\ Le(0) = 1 /\ Le(Duration) = 2 * Duration + 1
  BY DEF Le
<1> QED
  BY <1>1, <1>2

LEMMA AnchoredWithin ==
    ASSUME NEW p \in 1 .. MaxPieces, NEW Z \in Matrix, Anchored(Z, p)
    PROVE  AllWithin(Z, Le(Reach(p)))
  BY DEF Anchored, AllWithin, Within

LEMMA BoundDwellGood ==
    ASSUME NEW p \in 1 .. MaxPieces, NEW Z \in Matrix, Good(Z),
           AllWithin(Z, Le(Reach(p))), IsSatisfiableWithoutCanonize(BoundDwell(Z))
    PROVE  Good(BoundDwell(Z))
<1>1. /\ Le(Reach(p)) \in Nat /\ 8 * Le(Reach(p)) < Infinity
      /\ Le(Duration) <= Le(Reach(p)) /\ Le(Duration) \in Bound
  BY Limits, DwellBound
<1> QED
  BY <1>1, Variables, TightenCanonical DEF Good, BoundDwell

(* Where the code does not test it: the dwell time can be bounded as long  *)
(* as it is not known to be positive.                                      *)
LEMMA BoundDwellSatisfiable ==
    ASSUME NEW p \in 1 .. MaxPieces, NEW Z \in Matrix, Good(Z),
           AllWithin(Z, Le(Reach(p))), Z[0][T] >= Lt(0)
    PROVE  Good(BoundDwell(Z))
<1>1. /\ Le(Reach(p)) \in Nat /\ 6 * Le(Reach(p)) < Infinity /\ Le(Reach(p)) >= Le(0)
      /\ Le(Duration) <= Le(Reach(p)) /\ Le(Duration) \in Bound
  BY Limits, DwellBound
<1>2. Add(Z[0][T], Le(Duration)) >= Le(0)
  <2>1. Z[0][T] \in Bound /\ Duration \in Nat \ {0}
    BY Variables, PathAssumption DEF Matrix
  <2>2. Z[0][T] \in Int /\ Z[0][T] >= 0
    BY <2>1 DEF Bound, Lt
  <2> QED
    BY <2>1, <2>2, DBMAssumption DEF Add, Le
<1>3. IsSatisfiableWithoutCanonize(BoundDwell(Z))
  BY <1>1, <1>2, Variables, TightenSatisfiable DEF Good, BoundDwell
<1> QED
  BY <1>3, BoundDwellGood

LEMMA ElapseGood ==
    ASSUME NEW p \in 1 .. MaxPieces, NEW Z \in Matrix, Good(Z), AllWithin(Z, Le(Reach(p)))
    PROVE  /\ Elapse(Z) \in Matrix /\ Good(Elapse(Z)) /\ AllWithin(Elapse(Z), Le(Reach(p)))
           /\ Z[0][T] >= Le(0) => Elapse(Z)[0][T] >= Lt(0)
<1>1. /\ Elapse(Z) \in Matrix
      /\ \A i, j \in Var : Elapse(Z)[i][j] =
           IF j = 0 THEN Infinity ELSE IF i = 0 THEN Strict(Z[0][j]) ELSE Z[i][j]
  BY ElapseIs
<1>2. Good(Elapse(Z))
  BY ElapseCanonical DEF Good
<1>3. Le(Reach(p)) \in Nat
  BY Limits
<1>4. AllWithin(Elapse(Z), Le(Reach(p)))
  <2> SUFFICES ASSUME NEW i \in Var, NEW j \in Var
               PROVE  Within(Elapse(Z)[i][j], Le(Reach(p)))
    BY DEF AllWithin
  <2>1. Z[i][j] \in Bound /\ Within(Z[i][j], Le(Reach(p)))
    BY DEF Matrix, AllWithin
  <2>2. Within(Strict(Z[i][j]), Le(Reach(p)))
    BY <1>3, <2>1, DBMAssumption DEF Within, Strict, Bound
  <2>3. Within(Infinity, Le(Reach(p)))
    BY DEF Within
  <2> QED
    BY <1>1, <2>1, <2>2, <2>3
<1>5. ASSUME Z[0][T] >= Le(0) PROVE Elapse(Z)[0][T] >= Lt(0)
  <2>1. Elapse(Z)[0][T] = Strict(Z[0][T]) /\ Z[0][T] \in Bound
    BY <1>1, Variables DEF Matrix
  <2>2. Strict(Z[0][T]) >= 0
    BY <1>5, <2>1 DEF Strict, Bound, Le
  <2> QED
    BY <2>1, <2>2 DEF Lt
<1> QED
  BY <1>1, <1>2, <1>4, <1>5

(* The canonical form of the initial zone, entry by entry.                 *)
LEMMA InitialZoneIs ==
    /\ InitialZone \in Matrix
    /\ \A i, j \in Var : InitialZone[i][j] = IF i = T THEN Infinity ELSE Le(0)
  BY Variables, FreedDwellIs DEF InitialZone, FreeDwell

LEMMA StartGood == Good(Start)
<1>1. 1 \in 1 .. MaxPieces
  BY PathAssumption
<1>2. /\ InitialZone \in Matrix
      /\ \A i, j \in Var : InitialZone[i][j] = IF i = T THEN Infinity ELSE Le(0)
  BY InitialZoneIs
<1> HIDE DEF InitialZone
<1>3. Le(0) \in Bound /\ Infinity \in Bound /\ Le(0) <= Infinity /\ Le(0) <= Le(0)
      /\ Infinity <= Infinity /\ Le(0) >= Lt(0)
  BY DwellBound, DBMAssumption DEF Bound, Le, Lt
<1>4. Add(Le(0), Le(0)) = Le(0) /\ Add(Le(0), Infinity) = Infinity
      /\ Add(Infinity, Infinity) = Infinity /\ Add(Infinity, Le(0)) = Infinity
  BY <1>3, DBMAssumption DEF Add, Le, Bound
<1>5. Metric(InitialZone)
  <2> SUFFICES ASSUME NEW i \in Var, NEW j \in Var, NEW k \in Var
               PROVE  InitialZone[i][j] <= Add(InitialZone[i][k], InitialZone[k][j])
    BY DEF Metric
  <2> QED
    BY <1>2, <1>3, <1>4
<1>6. \A i \in Var : InitialZone[i][i] >= Le(0)
  BY <1>2, <1>3
<1>7. Good(InitialZone)
  BY <1>2, <1>5, <1>6, MetricSatisfiable DEF Good, Canonical, Metric
<1>8. AllWithin(InitialZone, Le(Reach(1)))
  BY <1>1, <1>2, Limits DEF AllWithin, Within
<1>9. InitialZone[0][T] >= Lt(0)
  BY <1>2, <1>3, Variables
<1> QED
  BY <1>1, <1>2, <1>7, <1>8, <1>9, BoundDwellSatisfiable DEF Start

(* Tighter bounds that were put into canonical form and found satisfiable. *)
LEMMA CanonizeGood ==
    ASSUME NEW p \in 1 .. MaxPieces, NEW Z \in Matrix, Anchored(Z, p),
           IsSatisfiableWithoutCanonize(Canonize(Z))
    PROVE  Good(Canonize(Z))
<1>1. Le(Reach(p)) \in Nat /\ 4 * Le(Reach(p)) < Infinity
  BY Limits
<1>2. \A i, j \in Var : Z[i][j] <= Le(Reach(p))
  BY DEF Anchored
<1> QED
  BY <1>1, <1>2, CanonizeCanonical DEF Good

LEMMA JumpGood ==
    ASSUME NEW p \in 1 .. MaxPieces, NEW Z \in Matrix, Anchored(Z, p),
           NEW n \in DOMAIN TA.edges,
           IsSatisfiableWithoutCanonize(Canonize(Guarded(Z, TA.edges[n].guard)))
    PROVE  Good(ResetAll(Canonize(Guarded(Z, TA.edges[n].guard)), TA.edges[n].resets))
<1> DEFINE guard == TA.edges[n].guard
           xs == TA.edges[n].resets
           M == Guarded(Z, guard)
           N == Canonize(M)
           Inside == {K \in Matrix : Anchored(K, p) /\ Good(K)}
<1>1. IsGuard(guard) /\ xs \subseteq Clock
  <2>1. [x : Clock, odr : Orders, c : Int] \subseteq Constraint
    BY Variables DEF Constraint
  <2> QED
    BY <2>1, PathAssumption DEF IsGuard
<1>2. M \in Matrix /\ \A i, j \in Var : M[i][j] <= Z[i][j]
  <2> HIDE DEF guard
  <2> QED
    BY <1>1, GuardedExact
<1>3. Anchored(M, p)
  <2> HIDE DEF M
  <2> QED
    BY <1>2, AnchoredMonotone
<1>4. N \in Inside
  <2>1. IsSatisfiableWithoutCanonize(N)
    OBVIOUS
  <2> HIDE DEF M
  <2>2. N \in Matrix /\ Anchored(N, p)
    BY <1>2, <1>3, CanonizeShortens, AnchoredMonotone
  <2>3. Good(N)
    BY <1>2, <1>3, <2>1, CanonizeGood
  <2> QED
    BY <2>2, <2>3
<1>5. ASSUME NEW K \in Inside, NEW x \in xs \cap (Var \ {0}) PROVE Reset(K, x) \in Inside
  <2>1. x \in Clock /\ x \in Var /\ x # 0
    BY <1>1
  <2>2. /\ Le(Reach(p)) \in Nat /\ 4 * Le(Reach(p)) < Infinity
        /\ Le(Reach(p)) >= Le(0) /\ AllWithin(K, Le(Reach(p)))
    BY Limits, AnchoredWithin
  <2>3. Good(Reset(K, x))
    BY <2>1, <2>2, ResetCanonical DEF Good
  <2> QED
    BY <2>1, <2>3, ResetAnchored
<1>6. Inside \subseteq Matrix
  OBVIOUS
<1> HIDE DEF N, Inside, xs
<1>7. ResetAll(N, xs) \in Inside
  BY <1>4, <1>5, <1>6, ResetAllPreserves
<1> QED
  BY <1>7 DEF Inside, N, M, xs, guard

LEMMA PinGood ==
    ASSUME NEW p \in 1 .. MaxPieces, NEW Z \in Matrix, Anchored(Z, p)
    PROVE  LET next == Canonize(TightenWithoutClose(
                     TightenWithoutClose(Z, 0, T, Le(-Duration)), T, 0, Le(Duration)))
           IN  IsSatisfiableWithoutCanonize(next) => Good(next)
<1> DEFINE M == TightenWithoutClose(Z, 0, T, Le(-Duration))
           N == TightenWithoutClose(M, T, 0, Le(Duration))
<1>1. ASSUME NEW K \in Matrix, Anchored(K, p), NEW x \in Var, NEW y \in Var, NEW b \in Bound
      PROVE  TightenWithoutClose(K, x, y, b) \in Matrix
             /\ Anchored(TightenWithoutClose(K, x, y, b), p)
  <2>1. /\ TightenWithoutClose(K, x, y, b) \in Matrix
        /\ \A i, j \in Var : TightenWithoutClose(K, x, y, b)[i][j] =
                               IF i = x /\ j = y THEN Lower(K[x][y], b) ELSE K[i][j]
    BY TightenWithoutCloseIs
  <2>2. \A i, j \in Var : TightenWithoutClose(K, x, y, b)[i][j] <= K[i][j]
    BY <2>1 DEF Lower, Matrix, Bound
  <2> QED
    BY <1>1, <2>1, <2>2, AnchoredMonotone
<1>2. M \in Matrix /\ Anchored(M, p)
  BY <1>1, Variables, DwellBound
<1>3. N \in Matrix /\ Anchored(N, p)
  <2> HIDE DEF M
  <2> QED
    BY <1>1, <1>2, Variables, DwellBound
<1>4. IsSatisfiableWithoutCanonize(Canonize(N)) => Good(Canonize(N))
  <2> HIDE DEF N
  <2> QED
    BY <1>3, CanonizeGood
<1> QED
  BY <1>4

(* Nothing is tested here: that time may start to pass in the next piece   *)
(* follows from the zone having been satisfiable at the end of this one.   *)
LEMMA NewPieceGood ==
    ASSUME NEW p \in 1 .. MaxPieces, p + 1 \in 1 .. MaxPieces,
           NEW Z \in Matrix, Anchored(Z, p), Good(Z)
    PROVE  Good(BoundDwell(Reset(Z, T))) /\ Good(BoundDwell(Elapse(Reset(Z, T))))
<1> DEFINE R == Reset(Z, T)
<1>1. /\ Le(Reach(p)) \in Nat /\ 4 * Le(Reach(p)) < Infinity
      /\ Le(Reach(p)) >= Le(0) /\ AllWithin(Z, Le(Reach(p)))
  BY Limits, AnchoredWithin
<1>2. R \in Matrix /\ Good(R) /\ R[0][T] >= Le(0)
  BY <1>1, Variables, ResetCanonical, ResetShortens DEF Good
<1>3. AllWithin(R, Le(Reach(p + 1)))
  <2> SUFFICES ASSUME NEW i \in Var, NEW j \in Var PROVE R[i][j] <= Le(Reach(p + 1))
    BY DEF AllWithin, Within
  <2>1. R[i][j] <= Aliased(Z, T)[i][j] /\ Aliased(Z, T) \in Matrix
    BY Variables, ResetShortens
  <2>2. Aliased(Z, T)[i][j] <= Le(Reach(p))
    <3>1. \A k, l \in Var : Z[k][l] <= Le(Reach(p))
      BY DEF Anchored
    <3>2. Aliased(Z, T)[i][j] = Le(0) \/ \E k, l \in Var : Aliased(Z, T)[i][j] = Z[k][l]
      BY Variables DEF Aliased
    <3> QED
      BY <1>1, <3>1, <3>2 DEF Le
  <2>3. Le(Reach(p)) <= Le(Reach(p + 1))
    <3>1. Reach(p) \in Nat /\ Reach(p + 1) \in Nat /\ Reach(p + 1) = Reach(p) + Duration
          /\ Duration \in Nat
      <4>1. (p + 1) - 1 = p
        OBVIOUS
      <4> QED
        BY <4>1, Lengths
    <3> QED
      BY <3>1 DEF Le
  <2>4. /\ R[i][j] \in Int /\ Aliased(Z, T)[i][j] \in Int
        /\ Le(Reach(p)) \in Int /\ Le(Reach(p + 1)) \in Int
    BY <1>1, <1>2, <2>1, Limits DEF Matrix, Bound
  <2> HIDE DEF R
  <2> QED
    BY <2>1, <2>2, <2>3, <2>4
<1> HIDE DEF R
<1>4. R[0][T] >= Lt(0)
  <2>1. R[0][T] \in Int
    BY <1>2, Variables DEF Matrix, Bound
  <2> QED
    BY <1>2, <2>1 DEF Le, Lt
<1>5. Good(BoundDwell(R))
  BY <1>2, <1>3, <1>4, BoundDwellSatisfiable
<1>6. /\ Elapse(R) \in Matrix /\ Good(Elapse(R)) /\ AllWithin(Elapse(R), Le(Reach(p + 1)))
      /\ Elapse(R)[0][T] >= Lt(0)
  BY <1>2, <1>3, ElapseGood
<1>7. Good(BoundDwell(Elapse(R)))
  BY <1>6, BoundDwellSatisfiable
<1> QED
  BY <1>5, <1>7 DEF R

LEMMA CanonInvStep == PathInv /\ CanonInv /\ [Next]_vars => CanonInv'
<1> SUFFICES ASSUME PathInv, CanonInv, [Next]_vars PROVE CanonInv'
  OBVIOUS
<1>0. /\ pieces \in 1 .. MaxPieces
      /\ zone \in Matrix /\ Anchored(zone, pieces) /\ Good(zone)
      /\ AllWithin(zone, Le(Reach(pieces)))
      /\ MaxPieces \in Nat
  BY AnchoredWithin, PathAssumption DEF PathInv, Stands, CanonInv
<1>1. CASE Wait
  <2>1. /\ Elapse(zone) \in Matrix /\ Good(Elapse(zone))
        /\ AllWithin(Elapse(zone), Le(Reach(pieces)))
    BY <1>0, ElapseGood
  <2>2. Good(zone')
    BY <1>0, <1>1, <2>1, BoundDwellGood DEF Wait
  <2> QED
    BY <1>1, <2>2 DEF Wait, CanonInv
<1>2. ASSUME NEW i \in DOMAIN TA.edges, Jump(TA.edges[i]) PROVE CanonInv'
  <2>1. Good(zone')
    BY <1>0, <1>2, JumpGood DEF Jump
  <2> QED
    BY <1>2, <2>1 DEF Jump, CanonInv
<1>3. CASE Pin
  <2>1. Good(zone')
    BY <1>0, <1>3, PinGood DEF Pin
  <2> QED
    BY <1>3, <2>1 DEF Pin, CanonInv
<1>4. ASSUME NEW jumpable \in BOOLEAN, NewPiece(jumpable) PROVE CanonInv'
  <2>1. pieces + 1 \in 1 .. MaxPieces
    BY <1>0, <1>4 DEF NewPiece
  <2>2. Good(zone')
    BY <1>0, <1>4, <2>1, NewPieceGood DEF NewPiece
  <2> QED
    BY <1>4, <2>2 DEF NewPiece, CanonInv
<1>5. CASE Keep
  <2>1. Good(zone')
    BY <1>5, StartGood DEF Keep
  <2>2. \A k \in kept' : Good(k.zone)
    BY <1>0, <1>5 DEF Keep
  <2> QED
    BY <2>1, <2>2 DEF CanonInv
<1>6. ASSUME NEW k \in kept, MergeInto(k) PROVE CanonInv'
  <2>1. /\ k.zone \in Matrix /\ Anchored(k.zone, pieces) /\ AtEnd(k.zone) /\ Good(k.zone)
        /\ AtEnd(zone)
    BY <1>6 DEF MergeInto, PathInv, Stands, CanonInv
  <2>2. Good(ConvexUnion(k.zone, zone))
    BY <1>0, <2>1, UnionAtEnd, UnionCanonical DEF Good, AtEnd
  <2>3. Good(Merge(k.zone, zone))
    BY <1>0, <2>1, <2>2 DEF Merge
  <2>4. Good(zone') /\ kept' = {}
    BY <1>0, <1>6, <2>3 DEF MergeInto
  <2> QED
    BY <2>4 DEF CanonInv
<1>7. CASE UNCHANGED vars
  <2>1. zone' = zone /\ kept' = kept
    BY <1>7 DEF vars
  <2> QED
    BY <2>1 DEF CanonInv
<1> QED
  BY <1>1, <1>2, <1>3, <1>4, <1>5, <1>6, <1>7 DEF Next

LEMMA CanonInvariant == Spec => []CanonInv
<1>1. Init => CanonInv
  BY StartGood DEF Init, CanonInv
<1> QED
  BY <1>1, PathInvariant, CanonInvStep, PTL DEF Spec

(* Closing through the touched variables alone keeps every zone of every   *)
(* path in canonical form.                                                 *)
THEOREM PathStaysCanonical == Spec => []StaysCanonical
<1>1. CanonInv => StaysCanonical
  BY DEF CanonInv, Good, StaysCanonical
<1> QED
  BY <1>1, CanonInvariant, PTL

(* The zone of a path is never empty, although the code does not test it in*)
(* every place.                                                            *)
THEOREM PathNeverEmpty == Spec => []IsSatisfiableWithoutCanonize(zone)
<1>1. CanonInv => IsSatisfiableWithoutCanonize(zone)
  BY DEF CanonInv, Good
<1> QED
  BY <1>1, CanonInvariant, PTL
-----------------------------------------------------------------------------
(***************************************************************************)
(* Merging only refuses when it must.  The bounds of every zone are on     *)
(* whole units of time, and at the end of a piece no diagonal entry, which *)
(* inclusion compares too, is above zero.                                  *)
(***************************************************************************)
Steady == {Z \in CoarseMatrix(Unit) : \A x \in Var \ {0, T} : Z[x][x] <= Le(0)}

Levelled(Z) == Z[0][0] <= Le(0) /\ Z[T][T] <= Le(0)

(* A zone that may be merged, in piece p.                                  *)
Candidate(Z, p) ==
    /\ Z \in Steady /\ Levelled(Z)
    /\ Anchored(Z, p) /\ AtEnd(Z) /\ Good(Z)

SteadyInv ==
    /\ zone \in Steady /\ (pinned => Levelled(zone))
    /\ \A k \in kept : k.zone \in Steady /\ Levelled(k.zone)
    /\ \A m \in merging :
           pinned /\ \E p \in 1 .. MaxPieces : Candidate(m.left.zone, p) /\ Candidate(m.right, p)

LEMMA Units ==
    /\ Unit \in Nat /\ Unit > Dim /\ Unit > 0
    /\ Le(Duration) \in Coarse(Unit) /\ Le(-Duration) \in Coarse(Unit)
    /\ Infinity \in Coarse(Unit) /\ Le(0) \in Coarse(Unit)
    /\ \A n \in DOMAIN TA.edges : \A c \in TA.edges[n].guard : c.c \in Multiples(Unit)
<1>1. Unit \in Nat /\ Unit > Dim /\ Unit > 0
  BY PathAssumption, DBMAssumption
<1>2. Duration \in Multiples(Unit)
  BY <1>1, PathAssumption, ModIsMultiple
<1>3. -Duration \in Multiples(Unit)
  BY <1>1, <1>2, MultiplesAdd
<1>4. \A n \in DOMAIN TA.edges : \A c \in TA.edges[n].guard : c.c \in Multiples(Unit)
  <2> TAKE n \in DOMAIN TA.edges
  <2> TAKE c \in TA.edges[n].guard
  <2>1. c \in [x : Clock, odr : Orders, c : Int] /\ c.c % Unit = 0
    BY PathAssumption
  <2>2. c.c \in Int
    BY <2>1
  <2> QED
    BY <1>1, <2>1, <2>2, ModIsMultiple
<1>5. Le(Duration) \in Bound /\ Le(-Duration) \in Bound
  BY DwellBound
<1> QED
  BY <1>1, <1>2, <1>3, <1>4, <1>5, CoarseBounds DEF Coarse

LEMMA SteadyIs ==
    ASSUME NEW Z \in Steady
    PROVE  /\ Z \in CoarseMatrix(Unit) /\ Z \in Matrix
           /\ \A i, j \in Var : Z[i][j] \in Coarse(Unit) /\ Z[i][j] \in Bound
           /\ \A x \in Var \ {0, T} : Z[x][x] <= Le(0)
<1>1. Z \in CoarseMatrix(Unit) /\ Z \in Matrix /\ \A i, j \in Var : Z[i][j] \in Coarse(Unit)
  BY DEF Steady, CoarseMatrix
<1> QED
  BY <1>1 DEF Steady, Coarse

(* An operation that only lowers entries keeps the diagonal.               *)
LEMMA LowerSteady ==
    ASSUME NEW Z \in Steady, NEW M \in CoarseMatrix(Unit),
           \A x \in Var \ {0, T} : M[x][x] <= Z[x][x]
    PROVE  M \in Steady
<1> SUFFICES ASSUME NEW x \in Var \ {0, T} PROVE M[x][x] <= Le(0)
  BY DEF Steady
<1>1. Z[x][x] <= Le(0) /\ Z[x][x] \in Int
  BY SteadyIs DEF Bound
<1>2. M[x][x] \in Int
  BY DEF CoarseMatrix, Coarse, Bound
<1>3. M[x][x] <= Z[x][x] /\ Le(0) \in Int
  BY DEF Le
<1> QED
  BY <1>1, <1>2, <1>3

LEMMA CanonizeSteady == ASSUME NEW Z \in Steady PROVE Canonize(Z) \in Steady
<1>1. Canonize(Z) \in CoarseMatrix(Unit)
  BY SteadyIs, Units, CanonizeCoarse
<1>2. \A i, j \in Var : Canonize(Z)[i][j] <= Z[i][j]
  BY SteadyIs, CanonizeShortens
<1> QED
  BY <1>1, <1>2, LowerSteady

LEMMA BoundDwellSteady == ASSUME NEW Z \in Steady PROVE BoundDwell(Z) \in Steady
<1>1. Tighten(Z, T, 0, Le(Duration)) \in CoarseMatrix(Unit)
  BY SteadyIs, Units, Variables, TightenCoarse
<1>2. \A i, j \in Var : Tighten(Z, T, 0, Le(Duration))[i][j] <= Z[i][j]
  BY SteadyIs, DwellBound, Variables, TightenShortens
<1> QED
  BY <1>1, <1>2, LowerSteady DEF BoundDwell

LEMMA ElapseSteady == ASSUME NEW Z \in Steady PROVE Elapse(Z) \in Steady
<1>1. Elapse(Z) \in CoarseMatrix(Unit)
  BY SteadyIs, Units, ElapseCoarse
<1>2. \A x \in Var \ {0, T} : Elapse(Z)[x][x] = Z[x][x]
  BY SteadyIs, ElapseIs
<1>3. \A x \in Var \ {0, T} : Elapse(Z)[x][x] <= Z[x][x]
  BY <1>2, SteadyIs DEF Bound
<1> QED
  BY <1>1, <1>3, LowerSteady

LEMMA ResetSteady ==
    ASSUME NEW Z \in Steady, NEW x \in Var \ {0}
    PROVE  Reset(Z, x) \in Steady
<1>1. Reset(Z, x) \in CoarseMatrix(Unit)
  BY SteadyIs, Units, ResetCoarse
<1> SUFFICES ASSUME NEW y \in Var \ {0, T} PROVE Reset(Z, x)[y][y] <= Le(0)
  BY <1>1 DEF Steady
<1>2. Reset(Z, x)[y][y] <= Aliased(Z, x)[y][y] /\ Aliased(Z, x)[y][y] \in Bound
  <2>1. /\ Aliased(Z, x) \in Matrix
        /\ \A i, j \in Var : Reset(Z, x)[i][j] <= Aliased(Z, x)[i][j]
    BY SteadyIs, ResetShortens
  <2> QED
    BY <2>1 DEF Matrix
<1>3. Aliased(Z, x)[y][y] = IF x = y THEN Le(0) ELSE Z[y][y]
  BY DEF Aliased
<1>4. Aliased(Z, x)[y][y] <= Le(0)
  BY <1>3, SteadyIs DEF Le
<1>5. Reset(Z, x)[y][y] \in Int /\ Aliased(Z, x)[y][y] \in Int /\ Le(0) \in Int
  BY <1>1, <1>2 DEF CoarseMatrix, Coarse, Bound, Le
<1> QED
  BY <1>2, <1>4, <1>5

LEMMA JumpSteady ==
    ASSUME NEW Z \in Steady, NEW n \in DOMAIN TA.edges
    PROVE  ResetAll(Canonize(Guarded(Z, TA.edges[n].guard)), TA.edges[n].resets) \in Steady
<1> DEFINE guard == TA.edges[n].guard
           xs    == TA.edges[n].resets
<1>1. IsGuard(guard) /\ xs \subseteq Clock
  BY PathAssumption, Variables DEF IsGuard, Constraint
<1>2. \A c \in guard : c.c \in Multiples(Unit)
  BY Units
<1> HIDE DEF guard, xs
<1>3. Guarded(Z, guard) \in CoarseMatrix(Unit)
  BY <1>1, <1>2, SteadyIs, Units, GuardedCoarse
<1>4. \A i, j \in Var : Guarded(Z, guard)[i][j] <= Z[i][j]
  BY <1>1, SteadyIs, GuardedExact
<1>5. Guarded(Z, guard) \in Steady
  BY <1>3, <1>4, LowerSteady
<1>6. Canonize(Guarded(Z, guard)) \in Steady
  BY <1>5, CanonizeSteady
<1>7. Steady \subseteq Matrix /\ \A M \in Steady : \A x \in xs \cap (Var \ {0}) : Reset(M, x) \in Steady
  BY SteadyIs, ResetSteady
<1>8. ResetAll(Canonize(Guarded(Z, guard)), xs) \in Steady
  BY <1>6, <1>7, ResetAllPreserves
<1> QED
  BY <1>8 DEF guard, xs

LEMMA PinSteady ==
    ASSUME NEW Z \in Steady
    PROVE  LET next == Canonize(TightenWithoutClose(
                     TightenWithoutClose(Z, 0, T, Le(-Duration)), T, 0, Le(Duration)))
           IN  next \in Steady /\ Levelled(next)
<1> DEFINE A == TightenWithoutClose(Z, 0, T, Le(-Duration))
           B == TightenWithoutClose(A, T, 0, Le(Duration))
<1>1. /\ A \in CoarseMatrix(Unit) /\ A \in Matrix
      /\ \A i, j \in Var : A[i][j] = IF i = 0 /\ j = T THEN Lower(Z[0][T], Le(-Duration)) ELSE Z[i][j]
  <2>1. Z \in Matrix /\ T \in Var /\ 0 \in Var /\ Le(-Duration) \in Bound
    BY SteadyIs, DwellBound, Variables
  <2>2. A \in CoarseMatrix(Unit)
    BY SteadyIs, Units, Variables, TightenWithoutCloseCoarse
  <2>3. /\ TightenWithoutClose(Z, 0, T, Le(-Duration)) \in Matrix
        /\ \A i, j \in Var : TightenWithoutClose(Z, 0, T, Le(-Duration))[i][j] =
                               IF i = 0 /\ j = T THEN Lower(Z[0][T], Le(-Duration)) ELSE Z[i][j]
    BY ONLY <2>1, TightenWithoutCloseIs
  <2> QED
    BY <2>2, <2>3
<1> HIDE DEF A
<1>2. /\ B \in CoarseMatrix(Unit) /\ B \in Matrix
      /\ \A i, j \in Var : B[i][j] = IF i = T /\ j = 0 THEN Lower(A[T][0], Le(Duration)) ELSE A[i][j]
  <2>1. B \in CoarseMatrix(Unit)
    BY <1>1, Units, Variables, TightenWithoutCloseCoarse
  <2>2. A \in Matrix /\ T \in Var /\ 0 \in Var /\ Le(Duration) \in Bound
    BY <1>1, DwellBound, Variables
  <2>3. /\ TightenWithoutClose(A, T, 0, Le(Duration)) \in Matrix
        /\ \A i, j \in Var : TightenWithoutClose(A, T, 0, Le(Duration))[i][j] =
                               IF i = T /\ j = 0 THEN Lower(A[T][0], Le(Duration)) ELSE A[i][j]
    BY ONLY <2>2, TightenWithoutCloseIs
  <2> QED
    BY <2>1, <2>3
<1> HIDE DEF B
<1>3. B[0][T] = Lower(Z[0][T], Le(-Duration)) /\ B[T][0] = Lower(Z[T][0], Le(Duration))
  BY <1>1, <1>2, Variables
<1>4. /\ B[0][T] \in Bound /\ B[T][0] \in Bound
      /\ B[0][T] <= Le(-Duration) /\ B[T][0] <= Le(Duration)
  BY <1>2, <1>3, SteadyIs, DwellBound, Variables DEF Lower, Bound, Matrix
<1>5. B \in Steady
  <2>1. \A x \in Var \ {0, T} : B[x][x] = Z[x][x]
    BY <1>1, <1>2
  <2>2. \A x \in Var \ {0, T} : B[x][x] <= Z[x][x]
    BY <2>1, SteadyIs DEF Bound
  <2> QED
    BY <1>2, <2>2, LowerSteady
<1>6. Add(Le(-Duration), Le(Duration)) = Le(0) /\ Add(Le(Duration), Le(-Duration)) = Le(0)
  <2>1. Le(-Duration) # Infinity /\ Le(Duration) # Infinity /\ Le(0) < Infinity
    BY DBMAssumption, DwellBound, PathAssumption DEF Le, Bound
  <2> QED
    <3>1. PICK d \in Int : d = Duration
      BY PathAssumption
    <3>2. /\ Le(-d) # Infinity /\ Le(d) # Infinity /\ Le(0) < Infinity
          /\ Le(d) % 2 = 1 /\ Le(-d) % 2 = 1 /\ Le(-d) + Le(d) - 1 = Le(0)
      BY <2>1, <3>1 DEF Le
    <3>3. Le(d) \in Int /\ Le(-d) \in Int /\ Le(0) \in Int /\ Infinity \in Int
      BY DBMAssumption DEF Le
    <3>4. Add(Le(-d), Le(d)) = Le(0) /\ Add(Le(d), Le(-d)) = Le(0)
      BY <3>2, <3>3 DEF Add
    <3> QED
      BY <3>1, <3>4
<1>7. Add(B[0][T], B[T][0]) <= Le(0) /\ Add(B[T][0], B[0][T]) <= Le(0)
  BY <1>4, <1>6, DwellBound, AddMonotone
<1>8. /\ Canonize(B)[0][0] <= Add(B[0][T], B[T][0])
      /\ Canonize(B)[T][T] <= Add(B[T][0], B[0][T])
      /\ Canonize(B)[0][0] \in Int /\ Canonize(B)[T][T] \in Int
  <2>1. Canonize(B) \in Matrix
    BY <1>2, CanonizeShortens
  <2> QED
    BY <1>2, <2>1, Variables, CanonizeShortens DEF Matrix, Bound
<1>9. Add(B[0][T], B[T][0]) \in Int /\ Add(B[T][0], B[0][T]) \in Int /\ Le(0) \in Int
  <2>1. Add(B[0][T], B[T][0]) \in Bound /\ Add(B[T][0], B[0][T]) \in Bound
    BY <1>4, AddIsBound
  <2> QED
    BY <2>1 DEF Bound, Le
<1>10. Levelled(Canonize(B))
  BY <1>7, <1>8, <1>9 DEF Levelled
<1> QED
  BY <1>5, <1>10, CanonizeSteady DEF A, B

LEMMA StartSteady == Start \in Steady
<1>1. InitialZone \in Matrix /\ \A i, j \in Var : InitialZone[i][j] = IF i = T THEN Infinity ELSE Le(0)
  BY InitialZoneIs
<1>2. InitialZone \in CoarseMatrix(Unit)
  BY <1>1, Units DEF CoarseMatrix
<1>3. \A x \in Var \ {0, T} : InitialZone[x][x] <= Le(0)
  BY <1>1 DEF Le
<1>4. InitialZone \in Steady
  BY <1>2, <1>3 DEF Steady
<1> QED
  BY <1>4, BoundDwellSteady DEF Start

LEMMA MergeSteady ==
    ASSUME NEW F \in Steady, NEW E \in Steady, Levelled(F), Levelled(E)
    PROVE  Merge(F, E) \in Steady /\ Levelled(Merge(F, E))
<1> DEFINE hull == ConvexUnion(F, E)
<1>1. hull \in Matrix /\ \A i, j \in Var : hull[i][j] \in {F[i][j], E[i][j]}
  BY SteadyIs, UnionIs
<1> HIDE DEF hull
<1>2. \A i, j \in Var : hull[i][j] \in Coarse(Unit)
  BY <1>1, SteadyIs
<1>3. \A x \in Var \ {0, T} : hull[x][x] <= Le(0)
  BY <1>1, SteadyIs
<1>4. hull \in Steady /\ Levelled(hull)
  BY <1>1, <1>2, <1>3, Variables DEF Steady, CoarseMatrix, Levelled
<1> QED
  BY <1>4 DEF Merge, hull

LEMMA SteadyInvStep == PathInv /\ CanonInv /\ SteadyInv /\ [Next]_vars => SteadyInv'
<1> SUFFICES ASSUME PathInv, CanonInv, SteadyInv, [Next]_vars PROVE SteadyInv'
  OBVIOUS
<1>0. /\ zone \in Steady /\ (pinned => Levelled(zone))
      /\ \A k \in kept : k.zone \in Steady /\ Levelled(k.zone)
      /\ ~ pinned => merging = {}
  BY DEF SteadyInv
<1>1. CASE Wait
  <2>1. zone' \in Steady
    BY <1>0, <1>1, ElapseSteady, BoundDwellSteady DEF Wait
  <2>2. ~ pinned' /\ merging' = {} /\ kept' = kept
    BY <1>0, <1>1 DEF Wait
  <2> QED
    BY <1>0, <2>1, <2>2 DEF SteadyInv
<1>2. ASSUME NEW i \in DOMAIN TA.edges, Jump(TA.edges[i]) PROVE SteadyInv'
  <2>1. zone' \in Steady
    BY <1>0, <1>2, JumpSteady DEF Jump
  <2>2. ~ pinned' /\ merging' = {} /\ kept' = kept
    BY <1>0, <1>2 DEF Jump
  <2> QED
    BY <1>0, <2>1, <2>2 DEF SteadyInv
<1>3. CASE Pin
  <2>1. zone' \in Steady /\ Levelled(zone')
    BY <1>0, <1>3, PinSteady DEF Pin
  <2>2. merging' = {} /\ kept' = kept
    BY <1>0, <1>3 DEF Pin
  <2> QED
    BY <1>0, <2>1, <2>2 DEF SteadyInv
<1>4. ASSUME NEW jumpable \in BOOLEAN, NewPiece(jumpable) PROVE SteadyInv'
  <2>1. Reset(zone, T) \in Steady
    BY <1>0, Variables, ResetSteady
  <2>2. zone' \in Steady
    BY <1>4, <2>1, ElapseSteady, BoundDwellSteady DEF NewPiece
  <2>3. ~ pinned' /\ merging' = {} /\ kept' = kept
    BY <1>4 DEF NewPiece
  <2> QED
    BY <1>0, <2>2, <2>3 DEF SteadyInv
<1>5. CASE Keep
  <2>1. zone' \in Steady /\ ~ pinned' /\ merging' = {}
    BY <1>5, StartSteady DEF Keep
  <2>2. \A k \in kept' : k.zone = zone
    BY <1>5 DEF Keep
  <2>3. zone \in Steady /\ Levelled(zone)
    BY <1>0, <1>5 DEF Keep
  <2> QED
    BY <2>1, <2>2, <2>3 DEF SteadyInv
<1>6. ASSUME NEW k \in kept, MergeInto(k) PROVE SteadyInv'
  <2>1. /\ pinned /\ pinned' = pinned /\ kept' = {} /\ k.pieces = pieces
        /\ zone' = IF Mergeable(k.zone, zone) THEN Merge(k.zone, zone) ELSE zone
        /\ \A m \in merging' : m.left.zone = k.zone /\ m.right = zone
    BY <1>6 DEF MergeInto
  <2>2. zone' \in Steady /\ Levelled(zone')
    BY <1>0, <2>1, MergeSteady
  <2>3. Candidate(zone, pieces) /\ Candidate(k.zone, pieces) /\ pieces \in 1 .. MaxPieces
    BY <1>0, <2>1 DEF Candidate, PathInv, Stands, CanonInv
  <2>4. \A m \in merging' : Candidate(m.left.zone, pieces) /\ Candidate(m.right, pieces)
    BY <2>1, <2>3
  <2> HIDE DEF Candidate
  <2> QED
    BY <2>1, <2>2, <2>3, <2>4 DEF SteadyInv
<1>7. CASE UNCHANGED vars
  BY <1>7 DEF vars, SteadyInv
<1> QED
  BY <1>1, <1>2, <1>3, <1>4, <1>5, <1>6, <1>7 DEF Next

LEMMA SteadyInvariant == Spec => []SteadyInv
<1>1. Init => SteadyInv
  BY StartSteady DEF Init, SteadyInv
<1> QED
  BY <1>1, PathInvariant, CanonInvariant, SteadyInvStep, PTL DEF Spec

(* What the hull of two zones of the end of a piece contains is on the     *)
(* grid of the path.                                                       *)
LEMMA HullOnGrid ==
    ASSUME NEW p \in 1 .. MaxPieces, NEW F, NEW E, Candidate(F, p), Candidate(E, p),
           NEW v \in Valuation, v[0] = 0, Sat(v, ConvexUnion(F, E))
    PROVE  v \in Grid
<1> DEFINE hull == ConvexUnion(F, E)
<1>1. hull \in Matrix /\ Anchored(hull, p)
  BY SteadyIs, UnionAtEnd DEF Candidate
<1> HIDE DEF hull
<1>2. ASSUME NEW x \in Var PROVE v[x] \in Ticks
  <2>1. v[x] \in Int /\ Reach(p) \in Nat /\ Reach(p) <= Duration * MaxPieces /\ Le(Reach(p)) < Infinity
    <3>1. Reach(p) \in Nat /\ Reach(p) <= Duration * MaxPieces
      BY Lengths
    <3>2. Le(Reach(p)) \in Nat /\ 8 * Le(Reach(p)) < Infinity
      BY Limits
    <3> QED
      BY <3>1, <3>2, DBMAssumption DEF Valuation
  <2>2. CASE x = 0
    <3>1. Duration * MaxPieces \in Nat
      BY PathAssumption
    <3> QED
      BY <2>2, <3>1 DEF Ticks
  <2>3. CASE x # 0
    <3>1. Holds(v[x] - v[0], hull[x][0]) /\ Holds(v[0] - v[x], hull[0][x])
      BY VarFacts DEF Sat, hull
    <3>2. v[x] - v[0] = v[x] /\ v[0] - v[x] = -v[x]
      BY <2>1
    <3>3. hull[x][0] <= Le(Reach(p)) /\ hull[0][x] <= Le(0) /\ hull[x][0] \in Int /\ hull[0][x] \in Int
      BY <1>1, <2>3, VarFacts DEF Anchored, Carried, Matrix, Bound
    <3>4. hull[x][0] # Infinity /\ hull[0][x] # Infinity
      <4>1. Le(0) <= Le(Reach(p)) /\ Le(0) \in Int /\ Le(Reach(p)) \in Int /\ Infinity \in Int
        BY <2>1, DBMAssumption DEF Le
      <4> QED
        BY <2>1, <3>3, <4>1
    <3>5. 2 * v[x] < hull[x][0] /\ 2 * (-v[x]) < hull[0][x]
      BY <3>1, <3>2, <3>4 DEF Holds
    <3>6. v[x] <= Reach(p) /\ v[x] >= 0
      BY <2>1, <3>3, <3>5 DEF Le
    <3>7. Duration * MaxPieces \in Nat
      BY PathAssumption
    <3> QED
      BY <2>1, <3>6, <3>7 DEF Ticks
  <2> QED
    BY <2>2, <2>3
<1> QED
  BY <1>2 DEF Grid, Valuation

(* dbm.hh merge: when it refuses, the hull would have added a valuation to *)
(* the two zones, so that nothing but merging too much would have been     *)
(* possible.                                                               *)
THEOREM PathMergeEager == Spec => []MergeEager
<1>1. PathInv /\ SteadyInv => MergeEager
  <2> SUFFICES ASSUME PathInv, SteadyInv, NEW m \in merging, ~ m.done
               PROVE  \E v \in Grid : Sat(v, ConvexUnion(m.left.zone, m.right)) /\ ~ InOne(m, v)
    BY DEF MergeEager
  <2>1. PICK F, E : F = m.left.zone /\ E = m.right
    OBVIOUS
  <2>2. ~ Mergeable(F, E)
    BY <2>1 DEF PathInv
  <2>3. PICK p \in 1 .. MaxPieces : Candidate(F, p) /\ Candidate(E, p)
    BY <2>1 DEF SteadyInv
  <2>4. PICK limit \in Nat : limit = Le(Reach(p)) /\ 8 * limit < Infinity
    BY Limits
  <2>5. ASSUME NEW Z, Candidate(Z, p) PROVE Z \in Settled(limit) \cap CoarseMatrix(Unit)
    <3>1. Z \in Matrix /\ Z \in CoarseMatrix(Unit) /\ \A x \in Var \ {0, T} : Z[x][x] <= Le(0)
      BY <2>5, SteadyIs DEF Candidate
    <3>2. \A x \in Var : Z[x][x] <= Le(0)
      BY <2>5, <3>1 DEF Candidate, Levelled
    <3>3. \A i, j \in Var : Z[i][j] <= limit
      BY <2>4, <2>5 DEF Candidate, Anchored
    <3> QED
      BY <2>5, <3>1, <3>2, <3>3 DEF Settled, Candidate, Good
  <2>6. F \in Settled(limit) \cap CoarseMatrix(Unit) /\ E \in Settled(limit) \cap CoarseMatrix(Unit)
    BY <2>3, <2>5
  <2>7. PICK v \in Valuation : /\ v[0] = 0 /\ Sat(v, ConvexUnion(F, E))
                               /\ ~ Sat(v, F) /\ ~ Sat(v, E)
    BY <2>2, <2>4, <2>6, Units, RefusedRightly
  <2>8. v \in Grid
    BY <2>3, <2>7, HullOnGrid
  <2> QED
    BY <2>1, <2>7, <2>8 DEF InOne
<1> QED
  BY <1>1, PathInvariant, SteadyInvariant, PTL
=============================================================================

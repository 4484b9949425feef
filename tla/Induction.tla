------------------------------ MODULE Induction ------------------------------
(***************************************************************************)
(* Induction said with sets.  The induction theorems of the library take a *)
(* predicate as a parameter; these take the set of the numbers that have   *)
(* the property, and rest on the fact that the strict inclusion of finite  *)
(* sets is well founded.                                                   *)
(***************************************************************************)
EXTENDS Integers, FiniteSetTheorems, TLAPS

(* A non-empty set of natural numbers has a least element: among the       *)
(* intervals that end in the set there is one without a smaller one.       *)
LEMMA LeastNatural ==
    ASSUME NEW S, S \subseteq Nat, S # {}
    PROVE  \E n \in S : \A m \in S : n <= m
<1> DEFINE Smaller == StrictSubsetOrdering(Nat)
           Intervals == {I \in FiniteSubsetsOf(Nat) : \E n \in S : I = 0 .. n}
<1>1. \A n \in S : 0 .. n \in Intervals
  BY FS_Interval DEF FiniteSubsetsOf
<1>2. PICK I \in Intervals : \A J \in Intervals : <<J, I>> \notin Smaller
  <2>1. IsWellFoundedOn(Smaller, FiniteSubsetsOf(Nat))
    BY FS_StrictSubsetOrderingWellFounded
  <2>2. Intervals \subseteq FiniteSubsetsOf(Nat) /\ Intervals # {}
    BY <1>1
  <2> HIDE DEF Smaller, Intervals
  <2> QED
    BY <2>1, <2>2, WFMin
<1>3. PICK n \in S : I = 0 .. n
  OBVIOUS
<1>4. ASSUME NEW m \in S, m < n PROVE FALSE
  <2>1. /\ 0 .. m \in SUBSET Nat /\ 0 .. n \in SUBSET Nat
        /\ 0 .. m \subseteq 0 .. n /\ 0 .. m # 0 .. n
    BY <1>4
  <2>2. <<0 .. m, I>> \in Smaller
    BY <1>3, <2>1 DEF StrictSubsetOrdering
  <2> QED
    BY <1>1, <1>2, <2>2
<1> QED
  BY <1>4

(* What holds of 0, and of the successor of a number of which it holds,    *)
(* holds of every number up to a limit.                                    *)
LEMMA InductionUpTo ==
    ASSUME NEW limit \in Nat, NEW S, 0 \in S,
           \A n \in 0 .. limit - 1 : n \in S => n + 1 \in S
    PROVE  \A n \in 0 .. limit : n \in S
<1> SUFFICES ASSUME NEW n \in 0 .. limit, n \notin S PROVE FALSE
  OBVIOUS
<1> DEFINE Rest == {m \in 0 .. limit : m \notin S}
<1>1. PICK m \in Rest : \A k \in Rest : m <= k
  <2>1. Rest \subseteq Nat /\ Rest # {}
    OBVIOUS
  <2> HIDE DEF Rest
  <2> QED
    BY <2>1, LeastNatural
<1>2. m # 0 /\ m - 1 \in 0 .. limit - 1 /\ m - 1 \notin Rest
  BY <1>1
<1>3. m - 1 \in S /\ (m - 1) + 1 = m
  BY <1>2
<1> QED
  BY <1>2, <1>3

LEMMA InductionOnNat ==
    ASSUME NEW S, 0 \in S, \A n \in Nat : n \in S => n + 1 \in S
    PROVE  \A n \in Nat : n \in S
<1> SUFFICES ASSUME NEW n \in Nat PROVE n \in S
  OBVIOUS
<1>1. \A m \in 0 .. n : m \in S
  <2>1. \A m \in 0 .. n - 1 : m \in S => m + 1 \in S
    OBVIOUS
  <2> QED
    BY <2>1, InductionUpTo
<1> QED
  BY <1>1

(* A finite non-empty set of integers has a least element.                 *)
LEMMA LeastOfFinite ==
    ASSUME NEW S, S \subseteq Int, IsFiniteSet(S), S # {}
    PROVE  \E n \in S : \A m \in S : n <= m
<1> DEFINE Below(n) == {m \in S : m <= n}
           Smaller == StrictSubsetOrdering(S)
           Parts == {P \in FiniteSubsetsOf(S) : \E n \in S : P = Below(n)}
<1>1. \A n \in S : Below(n) \in Parts
  <2>1. \A n \in S : Below(n) \in SUBSET S
    OBVIOUS
  <2> QED
    BY <2>1, FS_FiniteSubsetsOfFinite
<1>2. PICK P \in Parts : \A Q \in Parts : <<Q, P>> \notin Smaller
  <2>1. IsWellFoundedOn(Smaller, FiniteSubsetsOf(S))
    BY FS_StrictSubsetOrderingWellFounded
  <2>2. Parts \subseteq FiniteSubsetsOf(S) /\ Parts # {}
    BY <1>1
  <2> HIDE DEF Smaller, Parts
  <2> QED
    BY <2>1, <2>2, WFMin
<1>3. PICK n \in S : P = Below(n)
  OBVIOUS
<1>4. ASSUME NEW m \in S, m < n PROVE FALSE
  <2>1. /\ Below(m) \in SUBSET S /\ Below(n) \in SUBSET S
        /\ Below(m) \subseteq Below(n) /\ Below(m) # Below(n)
    <3>1. m \in Int /\ n \in Int /\ n \in Below(n) /\ n \notin Below(m)
      BY <1>4
    <3>2. \A k \in S : k <= m => k <= n
      BY <1>4, <3>1
    <3> QED
      BY <3>1, <3>2
  <2>2. <<Below(m), P>> \in Smaller
    BY <1>3, <2>1 DEF StrictSubsetOrdering
  <2> QED
    BY <1>1, <1>2, <2>2
<1> QED
  BY <1>4

(* The functions that start at start and are continued by step[k] at k.    *)
Iterates(limit, M, start, step) ==
    {f \in [0 .. limit -> M] :
        \A k \in 0 .. limit : f[k] = IF k = 0 THEN start ELSE step[k][f[k - 1]]}

(* A function that is defined from its value at the predecessor exists: one*)
(* that follows the equation up to n can be extended to n + 1.             *)
LEMMA RecursionExists ==
    ASSUME NEW limit \in Nat, NEW M, NEW start \in M, NEW step \in [1 .. limit -> [M -> M]]
    PROVE  Iterates(limit, M, start, step) # {}
<1> DEFINE Value(f, k) == IF k = 0 THEN start ELSE step[k][f[k - 1]]
           Reached == {n \in 0 .. limit :
                         \E f \in [0 .. n -> M] : \A k \in 0 .. n : f[k] = Value(f, k)}
<1>1. 0 \in Reached
  <2> DEFINE f == [k \in 0 .. 0 |-> start]
  <2>1. f \in [0 .. 0 -> M] /\ \A k \in 0 .. 0 : f[k] = Value(f, k)
    OBVIOUS
  <2>2. \E h \in [0 .. 0 -> M] : \A k \in 0 .. 0 : h[k] = Value(h, k)
    <3> HIDE DEF f, Value
    <3> QED
      BY <2>1
  <2> HIDE DEF f, Value
  <2> QED
    BY <2>2
<1>2. ASSUME NEW n \in 0 .. limit - 1, n \in Reached PROVE n + 1 \in Reached
  <2>1. PICK f \in [0 .. n -> M] : \A k \in 0 .. n : f[k] = Value(f, k)
    BY <1>2
  <2> DEFINE g == [k \in 0 .. n + 1 |-> IF k = n + 1 THEN step[n + 1][f[n]] ELSE f[k]]
  <2>2. g \in [0 .. n + 1 -> M]
    <3>1. f[n] \in M /\ n + 1 \in 1 .. limit
      OBVIOUS
    <3>2. step[n + 1][f[n]] \in M
      BY <3>1
    <3>3. \A k \in 0 .. n + 1 : k # n + 1 => f[k] \in M
      OBVIOUS
    <3> QED
      BY <3>2, <3>3
  <2>3. ASSUME NEW k \in 0 .. n + 1 PROVE g[k] = Value(g, k)
    <3>1. CASE k = n + 1
      BY <3>1
    <3>2. CASE k # n + 1
      <4>1. k \in 0 .. n /\ g[k] = f[k] /\ f[k] = Value(f, k)
        BY <2>1, <3>2
      <4>2. k # 0 => k - 1 \in 0 .. n + 1 /\ k - 1 # n + 1 /\ g[k - 1] = f[k - 1]
        BY <4>1
      <4> QED
        BY <4>1, <4>2
    <3> QED
      BY <3>1, <3>2
  <2>4. \E h \in [0 .. n + 1 -> M] : \A k \in 0 .. n + 1 : h[k] = Value(h, k)
    <3> HIDE DEF g, Value
    <3> QED
      BY <2>2, <2>3
  <2> HIDE DEF g, Value
  <2> QED
    BY <2>4
<1>3. limit \in Reached
  <2>1. \A n \in 0 .. limit : n \in Reached
    <3> HIDE DEF Reached
    <3> QED
      BY <1>1, <1>2, InductionUpTo
  <2> QED
    BY <2>1
<1> QED
  BY <1>3 DEF Iterates

(* What holds of a set when it holds of the set without any one of its     *)
(* elements, holds of every part of a finite set.                          *)
LEMMA SubsetInduction ==
    ASSUME NEW S, IsFiniteSet(S), NEW K,
           \A s \in SUBSET S : (\A x \in s : s \ {x} \in K) => s \in K
    PROVE  \A s \in SUBSET S : s \in K
<1> DEFINE OfSize(n) == \A s \in SUBSET S : Cardinality(s) = n => s \in K
           Right == {n \in 0 .. Cardinality(S) : OfSize(n)}
<1>1. Cardinality(S) \in Nat
  BY FS_CardinalityType
<1>2. \A s \in SUBSET S : /\ IsFiniteSet(s) /\ Cardinality(s) \in 0 .. Cardinality(S)
                          /\ Cardinality(s) = 0 <=> s = {}
  <2> SUFFICES ASSUME NEW s \in SUBSET S
               PROVE  /\ IsFiniteSet(s) /\ Cardinality(s) \in 0 .. Cardinality(S)
                      /\ Cardinality(s) = 0 <=> s = {}
    OBVIOUS
  <2>1. IsFiniteSet(s) /\ Cardinality(s) <= Cardinality(S)
    BY FS_Subset
  <2> QED
    BY <1>1, <2>1, FS_CardinalityType, FS_EmptySet
<1>3. 0 \in Right
  <2>1. {} \in K
    OBVIOUS
  <2> QED
    BY <1>1, <1>2, <2>1
<1>4. ASSUME NEW n \in 0 .. Cardinality(S) - 1, n \in Right PROVE n + 1 \in Right
  <2>1. n + 1 \in 0 .. Cardinality(S) /\ n \in Nat
    BY <1>1
  <2>2. ASSUME NEW s \in SUBSET S, Cardinality(s) = n + 1 PROVE s \in K
    <3>1. ASSUME NEW x \in s PROVE s \ {x} \in K
      <4>1. s \ {x} \in SUBSET S /\ Cardinality(s \ {x}) = Cardinality(s) - 1
        BY <1>2, FS_RemoveElement
      <4>2. Cardinality(s \ {x}) = n
        BY <2>1, <2>2, <4>1
      <4> QED
        BY <1>4, <4>1, <4>2
    <3> QED
      BY <3>1
  <2> QED
    BY <2>1, <2>2
<1>5. \A n \in 0 .. Cardinality(S) : OfSize(n)
  <2>1. \A n \in 0 .. Cardinality(S) : n \in Right
    <3> HIDE DEF Right
    <3> QED
      BY <1>1, <1>3, <1>4, InductionUpTo
  <2> QED
    BY <2>1
<1> QED
  BY <1>2, <1>5

(* The functions on the parts of a set that take start at the empty set and*)
(* add the picked element to what they give without it.                    *)
Foldings(S, M, start, pick, add) ==
    {f \in [SUBSET S -> M] :
        \A s \in SUBSET S :
            f[s] = IF s = {} THEN start ELSE add[pick[s]][f[s \ {pick[s]}]]}

(* Such a function exists for a finite set: the rounds that each compute   *)
(* one element more agree, after n of them, on the parts of n elements.    *)
LEMMA SubsetRecursion ==
    ASSUME NEW S, IsFiniteSet(S), NEW M, NEW start \in M,
           NEW pick, \A s \in SUBSET S : s # {} => pick[s] \in s,
           NEW add, \A x \in S : \A m \in M : add[x][m] \in M
    PROVE  Foldings(S, M, start, pick, add) # {}
<1> DEFINE P == SUBSET S
           Value(f, s) == IF s = {} THEN start ELSE add[pick[s]][f[s \ {pick[s]}]]
           F == [P -> M]
           zero == [s \in P |-> start]
           limit == Cardinality(S) + 1
           step == [n \in 1 .. limit |-> [f \in F |-> [s \in P |-> Value(f, s)]]]
<1>1. /\ Cardinality(S) \in Nat /\ limit \in Nat
      /\ \A n \in 0 .. Cardinality(S) : n \in 0 .. limit /\ n + 1 \in 1 .. limit
                                        /\ n + 1 \in 0 .. limit /\ (n + 1) - 1 = n /\ n + 1 # 0
  BY FS_CardinalityType
<1>2. \A s \in P : s # {} => pick[s] \in s /\ pick[s] \in S /\ s \ {pick[s]} \in P
  OBVIOUS
<1>3. \A f \in F : [s \in P |-> Value(f, s)] \in F
  <2> SUFFICES ASSUME NEW f \in F, NEW s \in P PROVE Value(f, s) \in M
    OBVIOUS
  <2>1. CASE s = {}
    BY <2>1
  <2>2. CASE s # {}
    <3>1. f[s \ {pick[s]}] \in M /\ pick[s] \in S
      BY <1>2, <2>2
    <3>2. add[pick[s]][f[s \ {pick[s]}]] \in M
      BY <3>1
    <3> QED
      BY <2>2, <3>2
  <2> QED
    BY <2>1, <2>2
<1>4. zero \in F /\ step \in [1 .. limit -> [F -> F]]
  <2> HIDE DEF F, Value
  <2>1. step \in [1 .. limit -> [F -> F]]
    BY <1>3
  <2> QED
    BY <2>1 DEF F
<1>5. PICK g \in [0 .. limit -> F] :
         \A n \in 0 .. limit : g[n] = IF n = 0 THEN zero ELSE step[n][g[n - 1]]
  <2> HIDE DEF F, zero, step, limit
  <2>1. Iterates(limit, F, zero, step) # {}
    BY <1>1, <1>4, RecursionExists
  <2> QED
    BY <2>1 DEF Iterates
<1>6. \A n \in 0 .. Cardinality(S) : \A s \in P : g[n + 1][s] = Value(g[n], s)
  <2> SUFFICES ASSUME NEW n \in 0 .. Cardinality(S), NEW s \in P
               PROVE  g[n + 1][s] = Value(g[n], s)
    OBVIOUS
  <2>1. g[n] \in F /\ n + 1 \in 1 .. limit
    BY <1>1, <1>5
  <2>2. g[n + 1] = step[n + 1][g[n]]
    <3> HIDE DEF F, zero, step, limit
    <3> QED
      BY <1>1, <1>5
  <2>3. step[n + 1][g[n]] = [t \in P |-> Value(g[n], t)]
    <3> HIDE DEF F, limit, Value
    <3> QED
      BY <2>1
  <2> HIDE DEF step, Value
  <2> QED
    BY <2>2, <2>3
<1>7. g[0] = zero
  <2>1. 0 \in 0 .. limit
    BY <1>1
  <2> HIDE DEF zero, step, F, limit
  <2> QED
    BY <1>5, <2>1
<1> DEFINE Agree(n) == \A s \in P : Cardinality(s) <= n => g[n + 1][s] = g[n][s]
           Right == {n \in 0 .. Cardinality(S) : Agree(n)}
<1>8. \A s \in P : /\ IsFiniteSet(s) /\ Cardinality(s) \in 0 .. Cardinality(S)
                   /\ Cardinality(s) = 0 <=> s = {}
  <2> SUFFICES ASSUME NEW s \in P
               PROVE  /\ IsFiniteSet(s) /\ Cardinality(s) \in 0 .. Cardinality(S)
                      /\ Cardinality(s) = 0 <=> s = {}
    OBVIOUS
  <2>1. IsFiniteSet(s) /\ Cardinality(s) <= Cardinality(S)
    BY FS_Subset
  <2> QED
    BY <1>1, <2>1, FS_CardinalityType, FS_EmptySet
<1>9. 0 \in Right
  <2>1. ASSUME NEW s \in P, Cardinality(s) <= 0 PROVE g[0 + 1][s] = g[0][s]
    <3>1. s = {} /\ 0 \in 0 .. Cardinality(S)
      BY <1>1, <1>8, <2>1
    <3>2. g[0 + 1][s] = Value(g[0], s)
      <4> HIDE DEF Value
      <4> QED
        BY <1>6, <3>1
    <3>3. g[0][s] = start
      BY <1>7
    <3> QED
      BY <3>1, <3>2, <3>3
  <2>2. 0 \in 0 .. Cardinality(S)
    BY <1>1
  <2> QED
    BY <2>1, <2>2
<1>10. ASSUME NEW n \in 0 .. Cardinality(S) - 1, n \in Right PROVE n + 1 \in Right
  <2>1. n \in 0 .. Cardinality(S) /\ n + 1 \in 0 .. Cardinality(S) /\ n \in Int
    BY <1>1
  <2>2. ASSUME NEW s \in P, Cardinality(s) <= n + 1
        PROVE  g[(n + 1) + 1][s] = g[n + 1][s]
    <3>1. g[(n + 1) + 1][s] = Value(g[n + 1], s) /\ g[n + 1][s] = Value(g[n], s)
      <4> HIDE DEF Value
      <4> QED
        BY <1>6, <2>1
    <3>2. CASE s = {}
      BY <3>1, <3>2
    <3>3. CASE s # {}
      <4> DEFINE r == s \ {pick[s]}
      <4>1. r \in P /\ Cardinality(r) = Cardinality(s) - 1
        BY <1>2, <1>8, <3>3, FS_RemoveElement
      <4>2. Cardinality(r) <= n
        BY <1>8, <2>1, <2>2, <4>1
      <4>3. g[n + 1][r] = g[n][r]
        <5> HIDE DEF r
        <5> QED
          BY <1>10, <4>1, <4>2
      <4> QED
        BY <3>1, <3>3, <4>3
    <3> QED
      BY <3>2, <3>3
  <2> QED
    BY <2>1, <2>2
<1>11. Agree(Cardinality(S))
  <2>1. \A n \in 0 .. Cardinality(S) : n \in Right
    <3> HIDE DEF Right
    <3> QED
      BY <1>1, <1>9, <1>10, InductionUpTo
  <2>2. Cardinality(S) \in 0 .. Cardinality(S)
    BY <1>1
  <2> HIDE DEF Agree
  <2> QED
    BY <2>1, <2>2
<1> DEFINE f == g[Cardinality(S)]
<1>12. Cardinality(S) \in 0 .. Cardinality(S) /\ f \in F
  <2>1. Cardinality(S) \in 0 .. Cardinality(S)
    BY <1>1
  <2>2. Cardinality(S) \in 0 .. limit
    <3> HIDE DEF limit
    <3> QED
      BY <1>1, <2>1
  <2> HIDE DEF F, limit
  <2> QED
    BY <1>5, <2>1, <2>2
<1>13. ASSUME NEW s \in P PROVE f[s] = Value(f, s)
  <2>1. g[Cardinality(S) + 1][s] = Value(f, s)
    <3> HIDE DEF Value
    <3> QED
      BY <1>6, <1>12
  <2>2. g[Cardinality(S) + 1][s] = f[s]
    BY <1>8, <1>11, <1>1
  <2> HIDE DEF f, Value
  <2> QED
    BY <2>1, <2>2
<1>14. \E h \in F : \A s \in P : h[s] = Value(h, s)
  <2> HIDE DEF f, Value
  <2> QED
    BY <1>12, <1>13
<1> QED
  BY <1>14 DEF Foldings
=============================================================================

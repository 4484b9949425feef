-------------------------------- MODULE DBM --------------------------------
(***************************************************************************)
(* The zone operations of dbm.hh.                                          *)
(*                                                                         *)
(* A bound is a C++ pair (c, weak) compared lexicographically: x - y < c   *)
(* when weak is false, x - y <= c when it is true.  It is coded by the     *)
(* integer 2c, plus one when it is weak: the order of the integers is the  *)
(* order of the pairs.  Constants are integers, in whatever unit of time   *)
(* makes them so.  Infinity codes (infinity, <).                           *)
(*                                                                         *)
(* D[i][j] bounds i - j.  Variable 0 is the constant zero; the variable x  *)
(* of the callers, who count from 0, is x + 1 here as in the code's matrix.*)
(***************************************************************************)
EXTENDS Integers

CONSTANTS
    Dim,        \* getNumOfVar(): the number of variables
    Infinity    \* the bound (infinity, <); sums of finite bounds stay below it

ASSUME DBMAssumption ==
    /\ Dim \in Nat
    /\ Infinity \in Nat /\ Infinity % 2 = 0 /\ Infinity > 1

Var    == 0 .. Dim
Bound  == {b \in Int : b <= Infinity}
Matrix == [Var -> [Var -> Bound]]

Lt(c) == 2 * c
Le(c) == 2 * c + 1

(* The constant of a bound, and the bound made strict. *)
Const(b)  == b \div 2
Strict(b) == b - (b % 2)

(* operator+ on bounds: weak when both are. *)
Add(a, b) ==
    LET sum == IF a % 2 = 0 /\ b % 2 = 0 THEN a + b ELSE a + b - 1
    IN  IF a = Infinity \/ b = Infinity \/ sum >= Infinity THEN Infinity ELSE sum

Lower(a, b)  == IF b < a THEN b ELSE a
Higher(a, b) == IF a < b THEN b ELSE a

(* Mutant: the flag is not negated. *)
ComplementKeepingFlag(b) == IF b % 2 = 0 THEN -b ELSE 2 - b

(* The bound x - y < -c that holds of exactly the values the bound         *)
(* y - x <= c excludes, and likewise for a strict one.  The complement of  *)
(* Infinity stands for -infinity: no valuation satisfies it.               *)
Complement(b) == 1 - b

(* The identity; TLC evaluates a matrix when it compares it, so that later *)
(* uses look entries up.                                                   *)
Evaluated(D) == IF D = D THEN D ELSE D

-----------------------------------------------------------------------------
ZeroDBM == [i \in Var |-> [j \in Var |-> Le(0)]]

(* close1: shorten every path through x.  The rows are rewritten in place  *)
(* and in order, so the rows after x see the row of x already rewritten.   *)
Close1(D, x) ==
    LET pivot == Evaluated([j \in Var |-> Lower(D[x][j], Add(D[x][x], D[x][j]))])
        via(i, j) == IF i > x THEN pivot[j] ELSE D[x][j]
    IN  Evaluated([i \in Var |-> [j \in Var |-> Lower(D[i][j], Add(D[i][x], via(i, j)))]])

TightenWithoutClose(D, x, y, b) == [D EXCEPT ![x][y] = Lower(@, b)]

(* Mutant: closed through one of the two variables only. *)
TightenClosingOne(D, x, y, b) == Close1(TightenWithoutClose(D, x, y, b), x)

Tighten(D, x, y, b) == Close1(Close1(TightenWithoutClose(D, x, y, b), x), y)

Reset(D, x) ==
    Close1([i \in Var |-> [j \in Var |->
              IF {i, j} \subseteq {0, x} /\ <<i, j>> # <<0, 0>> THEN Le(0)
              ELSE IF j = x THEN D[i][0]
              ELSE IF i = x THEN D[0][j]
              ELSE D[i][j]]], x)

(* Forget everything about x but that it is not negative. *)
Release(D, x) ==
    Evaluated([i \in Var |-> [j \in Var |->
        IF i = 0 /\ j = x THEN Le(0)
        ELSE IF x \in {i, j} THEN Infinity
        ELSE D[i][j]]])

(* Mutants: the last clock keeps its upper bound; a delay of zero is one;  *)
(* the clocks are delayed independently.                                   *)
ElapseButLast(D) ==
    [i \in Var |-> [j \in Var |->
        IF j = 0 /\ i < Dim THEN Infinity
        ELSE IF i = 0 THEN Strict(D[0][j]) ELSE D[i][j]]]

ElapseWeak(D) == [i \in Var |-> [j \in Var |-> IF j = 0 THEN Infinity ELSE D[i][j]]]

ElapseApart(D) ==
    [i \in Var |-> [j \in Var |->
        IF i = 0 /\ j # 0 THEN Strict(D[0][j]) ELSE IF i = j /\ i # 0 THEN D[i][j] ELSE Infinity]]

(* A delay of positive duration.  It forgets the entry (0, 0) too. *)
Elapse(D) ==
    Evaluated([i \in Var |-> [j \in Var |->
        IF j = 0 THEN Infinity
        ELSE IF i = 0 THEN Strict(D[0][j])
        ELSE D[i][j]]])

Canonize(D) ==
    LET closed[k \in 0 .. Dim + 1] ==
            IF k = 0 THEN D ELSE Close1(closed[k - 1], k - 1)
    IN  closed[Dim + 1]

(* Mutant: every bound is forgotten that is not negative. *)
AbstractizeAll(D, M) == [i \in Var |-> [j \in Var |-> IF D[i][j] > Le(0) THEN Infinity ELSE D[i][j]]]

(* Forget the bounds from M on.  Lower bounds are negative entries and     *)
(* stay, however large their constant.                                     *)
Abstractize(D, M) == [i \in Var |-> [j \in Var |-> IF D[i][j] >= M THEN Infinity ELSE D[i][j]]]

(* Mutant: blind to a contradiction between a strict and a weak bound. *)
IsSatisfiableWeakly(D) == \A i, j \in Var : Add(D[i][j], D[j][i]) >= Lt(0)

IsSatisfiableWithoutCanonize(D) ==
    \A i, j \in Var : Add(D[i][j], D[j][i]) >= Le(0)

(* isSatisfiable also leaves the zone in canonical form. *)
IsSatisfiable(D) == IsSatisfiableWithoutCanonize(Canonize(D))

(* The whole matrix is compared, the diagonal included. *)
IsCanonized(D) ==
    LET canonized == Canonize(D)
    IN  ~ IsSatisfiableWithoutCanonize(canonized) \/ D = canonized

(* operator<= *)
Included(D, E) ==
    \/ ~ IsSatisfiableWithoutCanonize(D)
    \/ \A i, j \in Var : D[i][j] <= E[i][j]

(* operator==, which overlooks the entry (0, 0), as toTuple does. *)
SameZone(D, E) == \A i, j \in Var : <<i, j>> # <<0, 0>> => D[i][j] = E[i][j]

ConvexUnion(D, E) == [i \in Var |-> [j \in Var |-> Higher(D[i][j], E[i][j])]]

(* What the hull contains outside D's bound on j - i is contained in E. *)
CutIncluded(D, E, hull, i, j) ==
    LET rev == Complement(D[j][i])
        cut == Close1(Close1([hull EXCEPT ![i][j] = rev], i), j)
    IN  hull[i][j] <= rev \/ Included(cut, E)

(* Mutant: half of the matrix is looked at. *)
MergeableHalf(D, E) ==
    \/ Included(D, E) \/ Included(E, D)
    \/ \A i, j \in Var : i < j => CutIncluded(D, E, ConvexUnion(D, E), i, j)

(* merge succeeds when one zone includes the other or the hull is covered. *)
Mergeable(D, E) ==
    \/ Included(D, E)
    \/ Included(E, D)
    \/ LET hull == Evaluated(ConvexUnion(D, E))
       IN  \A i, j \in Var : i # j => CutIncluded(D, E, hull, i, j)

Merge(D, E) ==
    IF Included(D, E) THEN E
    ELSE IF Included(E, D) THEN D
    ELSE ConvexUnion(D, E)

-----------------------------------------------------------------------------
(* What a zone means.  A valuation gives every variable an integer, zero   *)
(* to variable 0; for a finer time unit, scale the constants.              *)

Holds(diff, b) == b = Infinity \/ 2 * diff < b

Sat(v, D) == \A i, j \in Var : Holds(v[i] - v[j], D[i][j])

(* The entries other than the diagonal are shortest paths.  For zones this *)
(* is IsCanonized but for the diagonal, which the code leaves as it is     *)
(* after an elapse or a release.                                           *)
Canonical(D) ==
    \A i, j, k \in Var : i # j => D[i][j] <= Add(D[i][k], D[k][j])
=============================================================================

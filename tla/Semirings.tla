----------------------------- MODULE Semirings -----------------------------
(***************************************************************************)
(* The weight classes of weighted_graph.hh.                                *)
(*                                                                         *)
(* A weight is a C++ double.  The finite ones are the integers strictly    *)
(* between -Inf and Inf; Inf and -Inf stand for the two infinities and     *)
(* NaN for the result of "infinity - infinity", which compares false with  *)
(* everything, itself included.                                            *)
(***************************************************************************)
EXTENDS Integers

CONSTANT Inf   \* std::numeric_limits<double>::infinity()

ASSUME InfAssumption == Inf \in Nat \ {0}

NaN == Inf + 1

Doubles == -Inf .. NaN

Less(a, b) == NaN \notin {a, b} /\ a < b

Same(a, b) == a # NaN /\ a = b

(* The sum of two doubles: an infinity swallows a finite value, and two    *)
(* opposite infinities give NaN.                                           *)
AddDouble(a, b) ==
    IF NaN \in {a, b} \/ {a, b} = {Inf, -Inf} THEN NaN
    ELSE IF Inf \in {a, b}  \/ a + b >= Inf  THEN Inf
    ELSE IF -Inf \in {a, b} \/ a + b <= -Inf THEN -Inf
    ELSE a + b

(* std::min(a, b) and std::max(a, b): the first argument unless the second *)
(* one is strictly better, so that a NaN on the right is dropped and one   *)
(* on the left is kept.                                                    *)
MinDouble(a, b) == IF Less(b, a) THEN b ELSE a
MaxDouble(a, b) == IF Less(a, b) THEN b ELSE a

-----------------------------------------------------------------------------
(* MinPlusSemiring *)
MinPlusPlus(a, b)  == MinDouble(a, b)
MinPlusTimes(a, b) == AddDouble(a, b)
MinPlusZero        == Inf
MinPlusOne         == 0

(* Mutant: the cycles that cost are taken for the ones that pay. *)
MinPlusStarOfPositive(a) == IF Less(0, a) THEN -Inf ELSE MinPlusOne

MinPlusStar(a)     == IF Less(a, 0) THEN -Inf ELSE MinPlusOne

(* MaxPlusSemiring *)
MaxPlusPlus(a, b)  == MaxDouble(a, b)
MaxPlusTimes(a, b) == AddDouble(a, b)
MaxPlusZero        == -Inf
MaxPlusOne         == 0
MaxPlusStar(a)     == IF Less(0, a) THEN Inf ELSE MaxPlusOne

(* MaxMinSemiring *)
MaxMinPlus(a, b)   == MaxDouble(a, b)
MaxMinTimes(a, b)  == MinDouble(a, b)
MaxMinZero         == -Inf
MaxMinOne          == Inf
MaxMinStar(a)      == MaxMinOne

(* BooleanSemiring *)
(* Mutant: a margin of zero will do. *)
BooleanOfWeakly(value) == ~ Less(value, 0)

BooleanOf(value)   == Less(0, value)
BooleanPlus(a, b)  == a \/ b
BooleanTimes(a, b) == a /\ b
BooleanZero        == FALSE
BooleanOne         == TRUE
BooleanStar(a)     == a
=============================================================================

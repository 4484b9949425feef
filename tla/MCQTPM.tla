------------------------------- MODULE MCQTPM -------------------------------
(* A pattern with one clock and signals of a few short pieces.             *)
EXTENDS QTPM_proofs, Semirings

Rob == INSTANCE Robustness WITH OfDouble <- LAMBDA d : d

RobustnessCost(label, valuations) == Rob!MultipleSpaceRobustness(label, valuations)

BooleanRob == INSTANCE Robustness WITH OfDouble <- BooleanOf

BooleanCost(label, valuations) == BooleanRob!MultipleSpaceRobustness(label, valuations)

X(odr, c) == [x |-> 1, odr |-> odr, c |-> c]

E(s, d, guard, resets) == [src |-> s, dst |-> d, guard |-> guard, resets |-> resets]

S(odr, c) == [x |-> 1, odr |-> odr, c |-> c]

(* The value is high, then low, as in test/pattern0.dot; the second branch *)
(* has to be quick.                                                        *)
Pattern ==
    [edges |-> <<E(1, 2, {}, {1}), E(2, 3, {}, {}), E(2, 3, {X("gt", 4)}, {}),
                 E(1, 4, {X("le", 4)}, {1}), E(4, 3, {X("lt", 4)}, {})>>,
     init |-> <<1>>, match |-> {3},
     label |-> <<<<S("gt", 2)>>, <<S("lt", 3)>>, <<>>, <<S("lt", 5)>>>>]

(* The shape of test/pattern0.dot, without clocks: high, then low, and a   *)
(* value in between that is both.  The others lie on the constants.        *)
Pattern0 ==
    [edges |-> <<E(1, 2, {}, {}), E(2, 3, {}, {})>>,
     init |-> <<1>>, match |-> {3},
     label |-> <<<<S("gt", 2)>>, <<S("lt", 8)>>, <<>>>>]

Signals0 ==
    {[valuation |-> <<2>>, duration |-> 4], [valuation |-> <<5>>, duration |-> 4],
     [valuation |-> <<5>>, duration |-> 8], [valuation |-> <<8>>, duration |-> 8]}

(* A pattern whose guard only holds when the piece in which it is reached  *)
(* is over.                                                                *)
LatePattern ==
    [edges |-> <<E(1, 2, {X("gt", 4)}, {})>>,
     init |-> <<1>>, match |-> {2}, label |-> <<<<S("gt", 2)>>, <<>>>>]

(* A value with margin zero at the first location, and a higher one. *)
Signals == [valuation : {<<2>>, <<4>>}, duration : {4, 8}]

ShortSignals == {s \in Signals : s.duration = 4 \/ s.valuation = <<4>>}

(* The weights without NaN: with it std::min and std::max do not commute.  *)
(* Over min-plus minus infinity is no weight either: nothing costs that    *)
(* much less.                                                              *)
Margins == -Inf .. Inf
Costs   == -Inf + 1 .. Inf

(* The hypotheses WeightLaws of the theorems about the engine: the sums    *)
(* for all weights, the products for those that stay exact, the costs of   *)
(* short sequences of values.                                              *)
Exact ==
    IF Cardinality(Weight) = 2 THEN Weight ELSE {w \in Weight : 2 * w \in -Inf + 1 .. Inf \/ w = Inf}

ASSUME SumsAreLawful == SumLaws(Weight)

ASSUME ExactProducts == \A a, b \in Exact : Times(a, b) \in Weight

ASSUME ZeroIsLost == ZeroAnnihilates

ASSUME CostsOfAFew ==
    /\ {Zero, One} \subseteq Weight
    /\ \A q \in Locations : \A seen \in BoundedSeq(Values, 3) : Cost(TA.label[q], seen) \in Weight

(* The hypothesis of the theorems about the zones.                         *)
ASSUME ShortPieces == Timely(8)
=============================================================================

----------------------------- MODULE Robustness -----------------------------
(***************************************************************************)
(* The cost functions of robustness.hh: how far the signal values are from *)
(* violating the constraints at a location of the automaton.               *)
(***************************************************************************)
EXTENDS Integers, SequencesExt

CONSTANTS One, Times(_, _), OfDouble(_)   \* Weight::one(), operator*, Weight(double)

(* The distance of the value to the constant, positive on the side where   *)
(* the constraint holds.                                                   *)
Margin(c, valuation) ==
    IF c.odr \in {"lt", "le"} THEN c.c - valuation[c.x] ELSE valuation[c.x] - c.c

SingleSpaceRobustness(label, valuation) ==
    FoldLeft(LAMBDA init, c : Times(init, OfDouble(Margin(c, valuation))), One, label)

MultipleSpaceRobustness(label, valuations) ==
    FoldLeft(LAMBDA init, v : Times(init, SingleSpaceRobustness(label, v)), One, valuations)
=============================================================================

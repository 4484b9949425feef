----------------------------- MODULE MCZonePath -----------------------------
(* One clock, the time since the start and the dwell time; two pieces.     *)
EXTENDS ZonePath

C(odr, c) == [x |-> 1, odr |-> odr, c |-> c]

E(guard, resets) == [src |-> 1, dst |-> 1, guard |-> guard, resets |-> resets]

(* Transitions with a free, an upper, a lower and an interval guard, with  *)
(* and without a reset.                                                    *)
Transitions ==
    [edges |-> <<E({}, {1}),
                 E({C("lt", Unit)}, {}), E({C("lt", Unit)}, {1}),
                 E({C("gt", Unit)}, {}), E({C("gt", Unit)}, {1}),
                 E({C("gt", 0), C("le", Unit)}, {}), E({C("gt", 0), C("le", Unit)}, {1})>>]
=============================================================================

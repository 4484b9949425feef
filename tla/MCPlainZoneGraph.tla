-------------------------- MODULE MCPlainZoneGraph --------------------------
(* The automaton of test/small2.dot and automata with lower bounds, in     *)
(* ticks.                                                                  *)
EXTENDS PlainZoneGraph

CONSTANT Unit   \* ticks per unit of time

X(x, odr, c) == [x |-> x, odr |-> odr, c |-> c * Unit]
E(s, d, guard, resets) == [src |-> s, dst |-> d, guard |-> guard, resets |-> resets]

Automata ==
    [edges |-> <<
        \* test/small2.dot
        E(1, 2, {X(1, "lt", 2)}, {}), E(2, 2, {X(1, "lt", 2)}, {2}), E(2, 1, {X(2, "lt", 1)}, {1}),
        \* a clock that goes round while the other grows, with both bounds
        E(3, 4, {X(1, "ge", 1), X(1, "le", 2)}, {1, 2}), E(4, 3, {X(2, "gt", 1)}, {1, 2}),
        E(4, 5, {X(1, "gt", 2), X(2, "lt", 1)}, {}),
        \* bounds that meet at the largest constant
        E(6, 7, {X(1, "le", 2)}, {2}), E(7, 8, {X(1, "gt", 2), X(2, "lt", 1)}, {}),
        E(7, 7, {X(1, "lt", 2)}, {2}), E(8, 6, {X(2, "ge", 2)}, {1, 2}),
        E(7, 9, {X(1, "lt", 1), X(2, "gt", 1)}, {}),
        \* never to be made: the bound of the first guard lies below the largest constant
        E(6, 10, {X(1, "lt", 1)}, {2}), E(10, 9, {X(1, "ge", 2), X(2, "lt", 1)}, {})>>,
     match |-> {}, init |-> <<1>>, label |-> <<>>]

Lists == {<<1>>, <<2>>, <<3>>, <<4>>, <<6>>, <<7>>, <<1, 3>>, <<2, 6>>, <<4, 7>>, <<1, 1>>}
=============================================================================

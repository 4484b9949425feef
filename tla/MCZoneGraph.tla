---------------------------- MODULE MCZoneGraph ----------------------------
(* Calls of the zone construction as feed makes them, and the one of       *)
(* zone_graph_test.cc, on one automaton made of separate parts.            *)
EXTENDS ZoneGraph, Semirings

Rob == INSTANCE Robustness WITH One <- MaxMinOne, Times <- MaxMinTimes, OfDouble <- LAMBDA d : d

RobustnessCost(label, valuations) == Rob!MultipleSpaceRobustness(label, valuations)

X(odr, c) == [x |-> 1, odr |-> odr, c |-> c]

E(s, d, guard, resets) == [src |-> s, dst |-> d, guard |-> guard, resets |-> resets]

(* 1 .. 3 is the automaton of test/small3.dot.  In 4 .. 6 a jump may lead  *)
(* to a location without a way out; in 7 .. 9 the guard of a location may  *)
(* have expired, and the accepting location is final; the guard of 10 holds*)
(* only after the piece.                                                   *)
Automaton ==
    [edges |-> <<E(1, 2, {}, {1}), E(2, 3, {X("lt", 4)}, {}), E(3, 1, {X("gt", 5)}, {}),
                 E(4, 6, {X("le", 2)}, {1}), E(4, 5, {X("ge", 1)}, {}), E(5, 4, {}, {1}),
                 E(7, 8, {}, {}), E(7, 8, {X("gt", 1)}, {1}), E(8, 9, {X("le", 1)}, {}),
                 E(8, 7, {X("gt", 0), X("lt", 3)}, {1}), E(10, 9, {X("gt", 5)}, {})>>,
     match |-> {3, 9},
     label |-> [q \in 1 .. 10 |->
                   IF q \in {1, 4} THEN <<[x |-> 1, odr |-> "gt", c |-> 100]>> ELSE <<>>]]

Conf(q, jumpable, zone, valuations, w) ==
    [conf |-> [vertex |-> q, jumpable |-> jumpable, zone |-> zone, valuations |-> valuations],
     weight |-> w]

(* The zones feed starts from: the one of a new match, and the one of a    *)
(* match that started in a previous piece of this length, with time passed *)
(* in the new piece or not.                                                *)
NewMatch == Canonize(TightenWithoutClose(Release(ZeroDBM, T), 0, T, Le(0)))

Pinned(Z, d) == Canonize(TightenWithoutClose(TightenWithoutClose(Z, 0, T, Le(-d)), T, 0, Le(d)))

Carried(d) == Reset(Pinned(Elapse(Tighten(NewMatch, T, 0, Le(d))), d), T)

Start(q) == Conf(q, FALSE, NewMatch, <<>>, MaxMinOne)

FeedCalls ==
    [confs : {<<Start(q)>> : q \in {1, 2, 4, 5, 7, 8, 10}}
             \cup {<<Conf(p, TRUE, Elapse(Carried(2)), <<<<130>>, <<150>>>>, 3), Start(q)>> :
                       p \in {1, 2, 4, 5, 7, 8, 10}, q \in {1, 4, 7}}
             \cup {<<Conf(p, FALSE, Carried(1), <<>>, 3), Conf(p, FALSE, Carried(1), <<>>, 5),
                     Start(q)>> : p \in {1, 4, 6, 8}, q \in {4, 7}}
             \cup {<<Conf(p, TRUE, Elapse(Carried(1)), <<<<150>>>>, 3),
                     Conf(p, TRUE, Elapse(Carried(1)), <<<<150>>>>, 5),
                     Conf(p, TRUE, Elapse(Carried(1)), <<<<150>>>>, 7)>> : p \in {6, 8}}
             \cup {<<Conf(p, FALSE, Carried(1), <<>>, 3), Conf(p, FALSE, Carried(1), <<>>, 5),
                     Conf(p, FALSE, Carried(1), <<>>, 7)>> : p \in {6, 8}},
     valuation : {<<150>>}, duration : {1, 3}]

(* What the edges are proved to be steps from.                             *)
ASSUME FeedCallsWithin == \A c \in FeedCalls : CallWithin(c, 100)

(* zoneConstructionWithTForPatternMatchingTest1 *)
TestZone == Release(Tighten(ZeroDBM, 0, T, Le(0)), T)

TestCall ==
    [confs |-> <<Conf(1, FALSE, TestZone, <<>>, MaxMinOne),
                 Conf(2, TRUE, Elapse(TestZone), <<<<130>>, <<150>>>>, MaxMinOne)>>,
     valuation |-> <<20>>, duration |-> 3]

AllCalls == FeedCalls \cup {TestCall}
=============================================================================

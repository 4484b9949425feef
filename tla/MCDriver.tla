------------------------------ MODULE MCDriver ------------------------------
(* Signals of up to three lines, with blank lines, junk, lines that fill   *)
(* the buffer and ends without a newline, in every mode; and automata of   *)
(* well-formed and of damaged texts.                                       *)
EXTENDS Driver

RawTimes   == {0, 7}
AllGarbage == {<<>>, <<3>>, <<Junk>>, <<2, 3>>}
AnyOf(a, b) == IF a < b THEN b ELSE a

(* At most two matches that end in the piece, one of them at its end. *)
FoundBetween(a, b) ==
    LET first == <<-2 * a + 1, 2 * b, -2 * a, 2 * b + 1, 0, 2 * (b - a)>>
        last  == <<1, 2 * b + 1, -2 * b + 1, 2 * b + 1, 0, 2 * b + 1>>
    IN  {<<>>} \cup
        (IF a < b THEN {[m \in {first} |-> 0], [m \in {first} |-> 1],
                        [m \in {first, last} |-> IF m = last THEN 1 ELSE 0]}
         ELSE {})

(* ZeroIsNeutral of the proofs, wherever these signals lead. *)
ASSUME FoundWeights ==
    \A a, b \in -20 .. 20 : \A found \in FoundBetween(a, b) :
        \A m \in DOMAIN found : AnyOf(0, found[m]) = found[m]

(* test/phi7.dot: a guard and a reset. *)
SomeConstraints ==
    [x : {0, 1}, odr : {"lt", "le", "ge", "gt"}, c : {3}]
        \cup [x : {255}, odr : {"gt"}, c : {-1}]
GuardTexts ==
    {WriteVector("Constraint", g) : g \in UNION {[1 .. n -> SomeConstraints] : n \in 0 .. 2}}
ResetTexts == {WriteVector("Variable", r) : r \in UNION {[1 .. n -> {0, 2}] : n \in 0 .. 2}}

(* A token is lost, doubled or replaced. *)
Damaged(text) ==
    {SubSeq(text, 1, i - 1) \o with \o SubSeq(text, i + 1, Len(text)) :
        i \in DOMAIN text,
        with \in {<<>>, <<Char("=")>>, <<Blank>>, <<Number(257)>>, <<Char(","), Blank>>}}
    \cup {SubSeq(text, 1, i) \o SubSeq(text, i, Len(text)) : i \in DOMAIN text}

Samples ==
    {WriteVector("Constraint", g) : g \in
        {<<[x |-> 0, odr |-> "lt", c |-> 3], [x |-> 1, odr |-> "ge", c |-> 4]>>,
         <<[x |-> 1, odr |-> "gt", c |-> 3]>>, <<[x |-> 1, odr |-> "le", c |-> 3]>>}}
DamagedTexts == UNION {Damaged(t) : t \in Samples}

Edge(g, r) == [guard |-> g, reset |-> r]
Place(init, label) == [init |-> init, label |-> label]

Automata ==
    [locations : {<<>>},
     transitions : {<<Edge(g, <<>>)>> : g \in GuardTexts \cup DamagedTexts}
                   \cup {<<Edge(g, r), Edge(<<>>, r)>> :
                           g \in Samples, r \in ResetTexts \cup UNION {Damaged(t) : t \in ResetTexts}}]
    \cup [locations : {<<Place(i, l), Place(TRUE, <<>>), Place(j, l)>> :
                        i \in BOOLEAN, j \in BOOLEAN, l \in Samples \cup DamagedTexts},
          transitions : {<<Edge(g, <<>>)>> : g \in Samples}]

NoAutomaton == [locations |-> <<>>, transitions |-> <<>>]

Plain  == {<<1, 5>>, <<3, 6>>, <<4, 5, 6>>}
Odd    == {<<>>, <<2>>, <<Junk, 5>>, <<2, 5, Junk>>, <<3, 5, 6, 5>>, <<4, 5, 6, 5, 6>>}
Signals ==
    UNION {[1 .. n -> Plain] : n \in 0 .. 3} \cup [1 .. 2 -> Plain \cup Odd]
        \cup {<<p, o, q>> : p \in {<<1, 5>>}, o \in Odd, q \in {<<3, 6>>}}

Job(automaton, signal, ended, isAbsTime, quiet, boolean) ==
    [locations |-> automaton.locations, transitions |-> automaton.transitions,
     signal |-> signal, ended |-> ended,
     isAbsTime |-> isAbsTime, quiet |-> quiet, boolean |-> boolean]

AllJobs ==
    {Job(NoAutomaton, s, e, a, o = "quiet", o = "boolean") :
        s \in Signals, e \in BOOLEAN, a \in BOOLEAN, o \in {"none", "quiet", "boolean"}}
    \cup {Job(a, <<>>, TRUE, FALSE, FALSE, FALSE) : a \in Automata}
=============================================================================

-------------------------------- MODULE QTPM --------------------------------
(***************************************************************************)
(* QuantitativeTimedPatternMatching of                                     *)
(* quantitative_timed_pattern_matching.hh: the engine that is fed one      *)
(* piece of the signal after the other and collects the matches.           *)
(*                                                                         *)
(* A call of feed runs the construction of ZoneGraph.tla, step by step,    *)
(* then takes the distances that BellmanFord.tla is shown to compute, then *)
(* merges the zones at the end of the piece and records the matches.  The  *)
(* variables of ZoneGraph are the graph and the locals of that call; Calls *)
(* plays no role, as every call is one that feed makes.                    *)
(***************************************************************************)
EXTENDS ZoneGraph, SequencesExt

CONSTANTS
    Weight, Zero, Plus(_, _),   \* the semiring: its sum,
    Times(_, _),                \*     its product, with One
    Pieces,                     \* bound: the pieces fed, [valuation, duration]
    MaxPieces,                  \* bound: the number of them
    Unit                        \* ticks per unit of time

ASSUME QTPMAssumption ==
    /\ MaxPieces \in Nat /\ Unit \in Nat \ {0}
    /\ Pieces \subseteq [valuation : Seq(Int), duration : Nat]
    /\ \A piece \in Pieces : Le(piece.duration) < Infinity
    /\ TA.init \in Seq(Locations) /\ TA.init # <<>>
    /\ \A i \in DOMAIN TA.edges : ~ IsMatch(TA.edges[i].src)
    /\ \A i \in DOMAIN TA.init : ~ IsMatch(TA.init[i])

VARIABLES
    configuration,  \* set of [conf, weight]; during feed it is call.confs
    absTime, result,
    stage,          \* where feed is: "idle", "construct", "collect"
    distance,       \* the local map distance
    uncollected,    \* the vertices the loop over distance has still to collect
    confMap,        \* the local map confMap: group -> Seq of zones
    fed,            \* the pieces fed so far
    runs, matches   \* ghosts: the runs alive, and all the matches so far

(* The runs of the automaton, to compare with. *)
Runs == INSTANCE TimedMatching

stateVars == <<configuration, absTime, result, fed, runs, matches>>
feedVars == <<stage, distance, uncollected, confMap>>
engineVars == <<stateVars, feedVars, vars>>

-----------------------------------------------------------------------------
(* The constructor: every clock is zero, the dwell time is free. *)
initialZone == Canonize(TightenWithoutClose(Release(ZeroDBM, T), 0, T, Le(0)))

InitialConf(q) ==
    [vertex |-> q, jumpable |-> FALSE, zone |-> initialZone, valuations |-> <<>>]

(* Mutant: a configuration takes the new value twice. *)
EnteredTwice(conf, valuation) ==
    IF conf.jumpable
    THEN [conf EXCEPT !.zone = Elapse(Reset(@, T)), !.valuations = @ \o <<valuation, valuation>>]
    ELSE [conf EXCEPT !.zone = Reset(@, T)]

(* Mutant: the dwell time is not reset. *)
EnteredInTime(conf, valuation) ==
    IF conf.jumpable
    THEN [conf EXCEPT !.zone = Elapse(@), !.valuations = Append(@, valuation)]
    ELSE conf

(* A configuration enters a new piece. *)
Entered(conf, valuation) ==
    IF conf.jumpable
    THEN [conf EXCEPT !.zone = Elapse(Reset(@, T)), !.valuations = Append(@, valuation)]
    ELSE [conf EXCEPT !.zone = Reset(@, T)]

(* The hash map confMap lists the configurations in some order. *)
Listed(confs) == FoldSet(LAMBDA c, list : Append(list, c), <<>>, confs)

(* The sum of base and the weights ws.                                     *)
Added(base, ws) == FoldSet(Plus, base, ws)

(* What bellman_ford returns: the least solution, which is there after as  *)
(* many rounds as there are vertices when no cycle improves a distance.    *)
Improved(f) ==
    [v \in DOMAIN f |->
        Added(IF v \in DOMAIN initStatesZG THEN initStatesZG[v] ELSE Zero,
              {Times(f[e.src], e.w) : e \in {d \in edges : d.dst = v}})]

Distances ==
    LET after[n \in 0 .. Cardinality(Live)] ==
            IF n = 0 THEN [v \in Live |-> Zero] ELSE Evaluated(Improved(after[n - 1]))
    IN  after[Cardinality(Live)]

(* The zone when the piece is over. *)
AtEnd(Z) ==
    Canonize(TightenWithoutClose(TightenWithoutClose(Z, 0, T, Le(-call.duration)),
                                 T, 0, Le(call.duration)))

(* Mutant: only what has not waited yet is carried over. *)
CollectableUnlessJumpable(v, dist) ==
    /\ dist[v] # Zero
    /\ ~ IsMatch(nodes[v].vertex) /\ ~ nodes[v].jumpable
    /\ IsSatisfiableWithoutCanonize(AtEnd(nodes[v].zone))

Collectable(v, dist) ==
    /\ dist[v] # Zero
    /\ ~ IsMatch(nodes[v].vertex)
    /\ IsSatisfiableWithoutCanonize(AtEnd(nodes[v].zone))

(* The key of confMap. *)
Group(v) ==
    [vertex |-> nodes[v].vertex, jumpable |-> nodes[v].jumpable,
     valuations |-> nodes[v].valuations, weight |-> distance[v]]

(* Merge the zone with the first one of the list that allows it. *)
MergedInto(zones, Z) ==
    LET able == {i \in DOMAIN zones : Mergeable(zones[i], Z)}
    IN  IF able = {} THEN Append(zones, Z) ELSE [zones EXCEPT ![Min(able)] = Merge(@, Z)]

(* The second pass: a zone absorbs what it can of the ones behind it,      *)
Absorb(acc, Z) ==
    IF Mergeable(acc.zone, Z) THEN [acc EXCEPT !.zone = Merge(@, Z)]
    ELSE [acc EXCEPT !.rest = Append(@, Z)]

Absorbing(zones, k) ==
    LET upTo[n \in 0 .. Len(zones) - k] ==
            IF n = 0 THEN [zone |-> zones[k], rest |-> <<>>]
            ELSE Absorb(upTo[n - 1], zones[k + n])
        all == upTo[Len(zones) - k]
    IN  SubSeq(zones, 1, k - 1) \o <<all.zone>> \o all.rest

(* one after the other,                                                    *)
Sweep(zones) ==
    LET upTo[k \in 0 .. Len(zones)] ==
            IF k = 0 THEN zones
            ELSE IF k > Len(upTo[k - 1]) THEN upTo[k - 1] ELSE Absorbing(upTo[k - 1], k)
    IN  upTo[Len(zones)]

(* Mutant: no second pass. *)
SweptNever(zones) == zones

(* until no zone can.  All but the last round take at least one away.      *)
Swept(zones) ==
    LET round[n \in 0 .. Len(zones)] ==
            IF n = 0 THEN zones ELSE Sweep(round[n - 1])
    IN  round[Len(zones)]

NewConfiguration ==
    UNION {{[conf |-> [vertex |-> g.vertex, jumpable |-> g.jumpable,
                       zone |-> Z, valuations |-> g.valuations],
             weight |-> g.weight] : Z \in Range(Swept(confMap[g]))} : g \in DOMAIN confMap}

Shift(b, c) == IF b = Infinity THEN b ELSE b + 2 * c

(* Mutant: without the length. *)
ResultMatrixWithoutLength(Z) ==
    <<Shift(Z[D][T], -absTime), Shift(Z[T][D], absTime),
      Shift(Z[0][T], -absTime), Shift(Z[T][0], absTime)>>

(* The bounds of a match: begin from below and above, end, length. *)
ResultMatrix(Z) ==
    <<Shift(Z[D][T], -absTime), Shift(Z[T][D], absTime),
      Shift(Z[0][T], -absTime), Shift(Z[T][0], absTime), Z[0][D], Z[D][0]>>

Accepted ==
    {v \in Live :
        distance[v] # Zero /\ IsMatch(nodes[v].vertex) /\ ~ nodes[v].jumpable}

(* Mutant: the result is overwritten. *)
NewResultOverwriting ==
    LET mat(v) == ResultMatrix(nodes[v].zone)
    IN  [m \in DOMAIN result \cup {mat(v) : v \in Accepted} |->
            Added(Zero, {distance[v] : v \in {u \in Accepted : mat(u) = m}})]

NewResult ==
    LET mat(v) == ResultMatrix(nodes[v].zone)
    IN  [m \in DOMAIN result \cup {mat(v) : v \in Accepted} |->
            Added(IF m \in DOMAIN result THEN result[m] ELSE Zero,
                  {distance[v] : v \in {u \in Accepted : mat(u) = m}})]
-----------------------------------------------------------------------------
EngineInit ==
    /\ configuration = {} /\ absTime = 0 /\ result = <<>>
    /\ stage = "idle" /\ fed = <<>>
    /\ distance = <<>> /\ uncollected = {} /\ confMap = <<>>
    /\ runs = {} /\ matches = {}
    /\ call = <<>> /\ pc = "done"
    /\ nodes = <<>> /\ edges = {} /\ initStatesZG = <<>> /\ toZGState = <<>>
    /\ nextConf = <<>> /\ currentConf = <<>> /\ removedVertices = {}
    /\ from = 0 /\ pending = <<>> /\ freed = {} /\ born = 0

(* feed is called: the configurations enter the piece, new matches begin   *)
(* in it, and the construction of the zone graph is called.                *)
Feed(piece) ==
    /\ stage = "idle" /\ Len(fed) < MaxPieces
    /\ stage' = "construct" /\ pc' = "init"
    /\ call' = [confs |-> Listed({[c EXCEPT !.conf = Entered(@, piece.valuation)] :
                                     c \in configuration})
                          \o [i \in DOMAIN TA.init |->
                                 [conf |-> InitialConf(TA.init[i]), weight |-> One]],
                valuation |-> piece.valuation, duration |-> piece.duration]
    /\ configuration' = {}
    /\ fed' = Append(fed, piece)
    /\ UNCHANGED <<absTime, result, distance, uncollected, confMap, runs, matches>>
    /\ UNCHANGED <<initStatesZG, currentConf, removedVertices, from, pending, graphVars>>

Construct ==
    /\ stage = "construct" /\ pc # "done"
    /\ Next
    /\ UNCHANGED <<stateVars, feedVars>>

(* The distances, and the vertices the next loop will find a use for. *)
Measure ==
    /\ stage = "construct" /\ pc = "done"
    /\ stage' = "collect"
    /\ LET dist == Distances IN
       /\ distance' = dist
       /\ uncollected' = {v \in Live : Collectable(v, dist)}
    /\ UNCHANGED <<stateVars, confMap, vars>>

(* One iteration of the loop over distance, a hash map.  Only the order in *)
(* one group matters, so the groups are taken one after the other.         *)
Collect(v) ==
    /\ stage = "collect" /\ v \in uncollected
    /\ Group(v) = Group(CHOOSE u \in uncollected : TRUE)
    /\ LET g == Group(v)
           zones == IF g \in DOMAIN confMap THEN confMap[g] ELSE <<>>
       IN confMap' = Put(confMap, g, MergedInto(zones, AtEnd(nodes[v].zone)))
    /\ uncollected' = uncollected \ {v}
    /\ UNCHANGED <<stateVars, stage, distance, vars>>

(* The rest of feed; its local variables go out of scope. *)
Finish ==
    /\ stage = "collect" /\ uncollected = {}
    /\ configuration' = NewConfiguration
    /\ result' = NewResult
    /\ absTime' = absTime + call.duration
    /\ LET within == Runs!Within(runs, call.valuation, call.duration) IN
       /\ runs' = Runs!Alive(within, call.duration)
       /\ matches' = matches \cup Runs!Matches(within, absTime)
    /\ stage' = "idle" /\ distance' = <<>> /\ confMap' = <<>>
    /\ nodes' = <<>> /\ edges' = {} /\ initStatesZG' = <<>> /\ toZGState' = <<>>
    /\ nextConf' = <<>> /\ currentConf' = <<>> /\ removedVertices' = {}
    /\ from' = 0 /\ pending' = <<>> /\ freed' = {} /\ born' = 0 /\ call' = <<>>
    /\ UNCHANGED <<uncollected, fed, pc>>

(* The signal is over. *)
Over == stage = "idle" /\ Len(fed) = MaxPieces /\ UNCHANGED engineVars

EngineNext ==
    \/ \E piece \in Pieces : Feed(piece)
    \/ Construct \/ Measure
    \/ \E v \in uncollected : Collect(v)
    \/ Finish \/ Over

EngineSpec == EngineInit /\ [][EngineNext]_engineVars

-----------------------------------------------------------------------------
EngineTypeOK ==
    /\ stage \in {"idle", "construct", "collect"}
    /\ fed \in Seq(Pieces) /\ Len(fed) <= MaxPieces /\ absTime \in Nat
    /\ \A c \in configuration : c.conf.zone \in Matrix /\ c.weight \in Weight
    /\ result \in [DOMAIN result -> Weight]
    /\ DOMAIN result \subseteq [1 .. 6 -> Int]
    /\ uncollected \subseteq Live

(* What the bounds of a zone may have grown to: twice the time that can    *)
(* have passed, and as many ticks as strict bounds can have cost.          *)
Elapsed == IF stage = "idle" THEN absTime ELSE absTime + call.duration
Room    == 4 * Elapsed + 2 * Len(fed) + 1

(* Every call of the construction that feed makes is one with zones in     *)
(* canonical form, bounded by the time that has passed: nothing that the   *)
(* construction relies on is lost when zones are cut at the end of a piece,*)
(* merged, and brought into the next one.                                  *)
CallsFit == pc = "init" => CallWithin(call, Room)

Covers(a, b) == Plus(a, b) = a

(* The match from b to e satisfies the six bounds. *)
Bounded(m, b, e) ==
    /\ Holds(-b, m[1]) /\ Holds(b, m[2])
    /\ Holds(-e, m[3]) /\ Holds(e, m[4])
    /\ Holds(b - e, m[5]) /\ Holds(e - b, m[6])

Whole == {t \in 0 .. absTime : t % Unit = 0}

(* Whatever begins and ends in whole units of time within reported bounds  *)
(* is one of these matches, at least as good as reported; each of these    *)
(* matches whose weight is not zero, which means none, is within some      *)
(* reported bounds, reported as at least as good.                          *)
ReportsOnly(ms) ==
    \A m \in DOMAIN result : \A b, e \in Whole :
        Bounded(m, b, e) =>
            \E r \in ms : r.begin = b /\ r.end = e /\ Covers(r.w, result[m])

ReportsAll(ms) ==
    \A r \in {s \in ms : s.w # Zero} :
        \E m \in DOMAIN result : Bounded(m, r.begin, r.end) /\ Covers(result[m], r.w)

(* Every reported match is the match of a run of the automaton. *)
MatchSound == stage = "idle" => ReportsOnly(matches)

(* quantitative_timed_pattern_matching.hh:96 "the matching ending in this  *)
(* piece is added to this->result": every match of a run is reported.      *)
MatchComplete == stage = "idle" => ReportsAll(matches)

(* Whoever feeds the engine may rely on the abstract matcher: what a call  *)
(* adds or improves ends in the piece it was given, in absolute time, and  *)
(* whatever was recorded before stays, its weight at most improved.        *)
Promise == INSTANCE Matcher

ImplementsMatcher == Promise!Spec

(* After the second pass no two configurations that agree in all but their *)
(* zones can be merged.                                                    *)
MergedUp ==
    \A c, d \in configuration :
        c # d /\ c.weight = d.weight /\ [c.conf EXCEPT !.zone = {}] = [d.conf EXCEPT !.zone = {}]
            => ~ Mergeable(c.conf.zone, d.conf.zone)

(* The signal with pieces of one value and after one another made one.     *)
Joined(signal) ==
    LET join(list, piece) ==
            IF list # <<>> /\ Last(list).valuation = piece.valuation
            THEN [list EXCEPT ![Len(list)].duration = @ + piece.duration]
            ELSE Append(list, piece)
    IN  FoldLeft(join, <<>>, signal)

(* quantitative_timed_pattern_matching.hh:102 "It is not a problem to give *)
(* the same valuation consecutively": what is reported for the pieces that *)
(* were fed is what the signal matches when such pieces are joined, with   *)
(* the same weights.  A value seen by a location in two pieces has to      *)
(* count once, whatever the jumps made at the boundary.                    *)
SplitHarmless ==
    stage = "idle" =>
        LET ms == Runs!MatchesOf(Joined(fed)) IN ReportsOnly(ms) /\ ReportsAll(ms)

(* What matching means without weights: every value seen by a location     *)
(* satisfies its label.                                                    *)
Satisfied(label, valuations) ==
    \A v \in Range(valuations) : \A c \in Range(label) : Satisfy(c, v[c.x])

Qualitative ==
    INSTANCE TimedMatching WITH One <- TRUE, Times <- LAMBDA a, b : a /\ b, Cost <- Satisfied

(* README.md:31 "Use boolean semantics": over the Boolean semiring exactly *)
(* the matches whose values satisfy the labels are reported, although the  *)
(* engine never asks a constraint but takes the sign of its margin, and    *)
(* drops whatever has become false before the match is complete.           *)
BooleanSemantics ==
    stage = "idle" =>
        LET ms == {r \in Qualitative!MatchesOf(fed) : r.w} IN ReportsOnly(ms) /\ ReportsAll(ms)
=============================================================================

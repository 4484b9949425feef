--------------------------- MODULE PlainZoneGraph ---------------------------
(***************************************************************************)
(* zoneConstruction of zone_graph.hh: the zone graph of an automaton       *)
(* without a signal, whose zones have exactly the clocks of the automaton  *)
(* and are widened beyond its largest constant.                            *)
(*                                                                         *)
(* A vertex is named by its number in the order of creation: none is ever  *)
(* deleted here.  An edge remembers the transition it was made for, as     *)
(* the graph may have parallel edges.                                      *)
(***************************************************************************)
EXTENDS TimedAutomaton, SequencesExt

CONSTANT InitLists   \* the inputs: initStatesTA, sequences of locations

(* TimedAutomaton codes guards in ticks; the constants are not negative.   *)
ASSUME PlainZoneGraphAssumption ==
    /\ TA.edges \in Seq(Range(TA.edges))
    /\ \A e \in Range(TA.edges) :
           /\ e.guard \subseteq [x : 1 .. Dim, odr : Orders, c : Nat] /\ IsFiniteSet(e.guard)
           /\ \A c \in e.guard : BoundOf(c) < Infinity
           /\ e.resets \subseteq 1 .. Dim
    /\ \A list \in InitLists : list \in Seq(Range(list))

VARIABLES
    initStatesTA,   \* the parameter
    nodes, edges,   \* the parameter ZG: Seq of [vertex, zone]; [src, dst, by]
    initStatesZG,   \* the parameter initStatesZG
    toZGState,      \* the local map: location and zone -> vertex
    nextConf, currentConf,   \* the local queues
    nowZone, pending,        \* the zone being expanded, the transitions not yet tried
    returned

vars == <<initStatesTA, nodes, edges, initStatesZG, toZGState, nextConf, currentConf,
          nowZone, pending, returned>>

(* parseBoostTA: the largest constant of the guards, and the bound that    *)
(* zones are cut off at.                                                   *)
MaxConstraints == Max({0} \cup UNION {{c.c : c \in TA.edges[i].guard} : i \in DOMAIN TA.edges})
M == Le(MaxConstraints)

(* toTuple leaves the entry (0, 0) out. *)
Key(q, Z) == [vertex |-> q, zone |-> [Z EXCEPT ![0][0] = Le(0)]]

(* The guard, one constraint after the other; the zone stays closed for    *)
(* the variables concerned.                                                *)
Guard(Z, guard) ==
    FoldSet(LAMBDA c, acc : Tighten(acc, Entry(c)[1], Entry(c)[2], BoundOf(c)), Z, guard)

Target(Z, e) == Canonize(Abstractize(ResetAll(Canonize(Guard(Z, e.guard)), e.resets), M))

(* The transitions from a location, in order. *)
OutEdges(q) ==
    Selected([i \in DOMAIN TA.edges |-> i], {i \in DOMAIN TA.edges : TA.edges[i].src = q})

(* Mutant: the locations are entered, not the vertices made for them. *)
InitialTableOfLocations ==
    [key \in {Key(q, ZeroDBM) : q \in Range(initStatesTA)} |-> key.vertex]

(* A location that is listed twice gets two vertices; the later is kept. *)
InitialTable ==
    [key \in {Key(q, ZeroDBM) : q \in Range(initStatesTA)} |->
        Max({i \in DOMAIN initStatesTA : initStatesTA[i] = key.vertex})]

Init ==
    /\ initStatesTA \in InitLists
    /\ nodes = [i \in DOMAIN initStatesTA |-> [vertex |-> initStatesTA[i], zone |-> ZeroDBM]]
    /\ toZGState = InitialTable
    /\ initStatesZG = [i \in DOMAIN nodes |-> i]
    /\ nextConf = initStatesZG
    /\ currentConf = <<>> /\ edges = {} /\ nowZone = ZeroDBM /\ pending = <<>>
    /\ returned = FALSE

expanding == pending # <<>>

(* Mutant: the queue is copied, not moved. *)
StartRoundCopying ==
    /\ ~ returned /\ ~ expanding /\ currentConf = <<>> /\ nextConf # <<>>
    /\ currentConf' = nextConf
    /\ UNCHANGED <<initStatesTA, nodes, edges, initStatesZG, toZGState, nextConf, nowZone,
                   pending, returned>>

StartRound ==
    /\ ~ returned /\ ~ expanding /\ currentConf = <<>> /\ nextConf # <<>>
    /\ currentConf' = nextConf /\ nextConf' = <<>>
    /\ UNCHANGED <<initStatesTA, nodes, edges, initStatesZG, toZGState, nowZone, pending,
                   returned>>

(* Mutant: time does not pass. *)
ExpandAtOnce ==
    /\ ~ expanding /\ currentConf # <<>>
    /\ LET v == nodes[Head(currentConf)] IN
       /\ nowZone' = v.zone
       /\ pending' = OutEdges(v.vertex)
       /\ currentConf' = IF pending' = <<>> THEN Tail(currentConf) ELSE currentConf
    /\ UNCHANGED <<initStatesTA, nodes, edges, initStatesZG, toZGState, nextConf, returned>>

(* The next vertex of the queue: time passes, and its out-edges follow. *)
Expand ==
    /\ ~ expanding /\ currentConf # <<>>
    /\ LET v == nodes[Head(currentConf)] IN
       /\ nowZone' = Elapse(v.zone)
       /\ pending' = OutEdges(v.vertex)
       /\ currentConf' = IF pending' = <<>> THEN Tail(currentConf) ELSE currentConf
    /\ UNCHANGED <<initStatesTA, nodes, edges, initStatesZG, toZGState, nextConf, returned>>

(* One transition of the vertex at the head of the queue. *)
TryTransition ==
    /\ expanding
    /\ LET u == Head(currentConf)
           e == TA.edges[Head(pending)]
           Z == Target(nowZone, e)
           key == Key(e.dst, Z)
           v == IF key \in DOMAIN toZGState THEN toZGState[key] ELSE Len(nodes) + 1
       IN IF ~ IsSatisfiable(Guard(nowZone, e.guard))
          THEN UNCHANGED <<nodes, edges, toZGState, nextConf>>
          ELSE /\ edges' = edges \cup {[src |-> u, dst |-> v, by |-> Head(pending)]}
               /\ IF key \in DOMAIN toZGState
                  THEN UNCHANGED <<nodes, toZGState, nextConf>>
                  ELSE /\ nodes' = Append(nodes, [vertex |-> e.dst, zone |-> Z])
                       /\ toZGState' = [k \in DOMAIN toZGState \cup {key} |->
                                            IF k = key THEN v ELSE toZGState[k]]
                       /\ nextConf' = Append(nextConf, v)
    /\ pending' = Tail(pending)
    /\ currentConf' = IF pending' = <<>> THEN Tail(currentConf) ELSE currentConf
    /\ UNCHANGED <<initStatesTA, initStatesZG, nowZone, returned>>

Return ==
    /\ ~ returned /\ ~ expanding /\ currentConf = <<>> /\ nextConf = <<>>
    /\ returned' = TRUE
    /\ UNCHANGED <<initStatesTA, nodes, edges, initStatesZG, toZGState, nextConf, currentConf,
                   nowZone, pending>>

(* The caller has the graph. *)
Done == returned /\ UNCHANGED vars

Next == StartRound \/ Expand \/ TryTransition \/ Return \/ Done

Spec == Init /\ [][Next]_vars

(* The call keeps running until it returns: weak fairness of Next, as no   *)
(* state is a deadlock.                                                    *)
FairSpec == Spec /\ ([]<>returned \/ []<><<TRUE>>_vars)

-----------------------------------------------------------------------------
(* What is stored refers to vertices and transitions that exist. *)
TypeOK ==
    /\ \A i \in DOMAIN nodes : nodes[i].zone \in Matrix
    /\ edges \subseteq [src : DOMAIN nodes, dst : DOMAIN nodes, by : DOMAIN TA.edges]
    /\ \A key \in DOMAIN toZGState : toZGState[key] \in DOMAIN nodes
    /\ Range(nextConf) \cup Range(currentConf) \subseteq DOMAIN nodes
    /\ \A i \in DOMAIN pending : pending[i] \in DOMAIN TA.edges

(* Beyond the largest constant one value of a clock is as good as another. *)
Ceiling == MaxConstraints + 1

PointsUpTo(c) == {[x \in Var |-> IF x = 0 THEN 0 ELSE f[x]] : f \in [1 .. Dim -> 0 .. c]}
Points == PointsUpTo(Ceiling)
FarPoints == PointsUpTo(2 * Ceiling)

Later(v) == {[x \in Var |-> IF x = 0 THEN 0 ELSE v[x] + d] : d \in 1 .. Ceiling}

Lowered(v) == [x \in Var |-> Lower(v[x], Ceiling)]

(* On return the graph simulates the automaton: whatever point of the zone *)
(* of a vertex time passes from, a transition that can then be made is an  *)
(* edge for that transition to a vertex whose zone contains the point it   *)
(* leads to.                                                               *)
StepsSimulated ==
    returned =>
        \A i \in DOMAIN nodes : \A n \in DOMAIN TA.edges :
            LET e == TA.edges[n]
                to == {w.dst : w \in {d \in edges : d.src = i /\ d.by = n}}
            IN  e.src = nodes[i].vertex =>
                  \A v \in {p \in Points : Sat(p, nodes[i].zone)} :
                    \A u \in {p \in Later(v) : Meets(p, e.guard)} :
                      \E j \in to :
                        nodes[j].vertex = e.dst /\ Sat(ResetPoint(u, e.resets), nodes[j].zone)

(* The points that are reached from the initial locations with all clocks  *)
(* zero, values beyond the ceiling made one.                               *)
Reached ==
    LET start == {[q |-> initStatesTA[i], v |-> [x \in Var |-> 0]] : i \in DOMAIN initStatesTA}
        fired(p, e) ==
            {[q |-> e.dst, v |-> Lowered(ResetPoint(u, e.resets))] :
                u \in {w \in Later(p.v) : Meets(w, e.guard)}}
        jumps(p) == UNION {fired(p, e) : e \in {d \in Range(TA.edges) : d.src = p.q}}
        State == [q : Int, v : Points]
        closure[old \in SUBSET State, new \in SUBSET State] ==
            IF new = {} THEN old
            ELSE closure[old \cup new, UNION {jumps(p) : p \in new} \ (old \cup new)]
    IN  closure[{}, start]

(* The widening invents nothing: every vertex is of a location that is     *)
(* reached, with clocks its zone allows up to values beyond the ceiling.   *)
VerticesReached ==
    returned =>
        LET reached == Reached
        IN  \A i \in DOMAIN nodes :
              \E v \in FarPoints :
                /\ Sat(v, nodes[i].zone)
                /\ [q |-> nodes[i].vertex, v |-> Lowered(v)] \in reached

(* Every call returns, for these automata: the lower bounds that Abstractize *)
(* keeps can grow forever in others.                                       *)
Returns == <>returned
=============================================================================

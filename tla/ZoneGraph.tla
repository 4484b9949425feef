----------------------------- MODULE ZoneGraph -----------------------------
(***************************************************************************)
(* zoneConstructionWithT of zone_graph.hh: from the configurations at the  *)
(* start of a piece of the signal, build the graph of the zones reachable  *)
(* within the piece, round by round.                                       *)
(*                                                                         *)
(* A vertex descriptor is the address of a list node, so a vertex is named *)
(* by an address here.  The construction both deletes and creates vertices;*)
(* Reuse says whether the allocator may hand out the address of a deleted  *)
(* vertex again.                                                           *)
(*                                                                         *)
(* A configuration is [vertex, jumpable, zone, valuations].                *)
(***************************************************************************)
EXTENDS TimedAutomaton, Functions

CONSTANTS
    Calls,        \* the inputs: [confs : Seq of [conf, weight], valuation, duration]
    One,          \* Weight::one()
    Cost(_, _),   \* the cost function, of a label and valuations
    Reuse         \* whether addresses are recycled

Clock == 1 .. Dim - 2
Edges == {TA.edges[i] : i \in DOMAIN TA.edges}

Locations == DOMAIN TA.label

Confs == [vertex : Locations, jumpable : BOOLEAN, zone : Matrix,
          valuations : Seq(Seq(Int))]

(* What the construction may be called with.  A given configuration is     *)
(* jumpable when values have been observed since its last jump             *)
(* (zone_graph.hh:18-24).                                                  *)
WellFormed(c) ==
    /\ c.confs # <<>> /\ c.confs \in Seq({c.confs[i] : i \in DOMAIN c.confs})
    /\ \A i \in DOMAIN c.confs :
           /\ c.confs[i].conf \in Confs
           /\ c.confs[i].conf.jumpable <=> c.confs[i].conf.valuations # <<>>
    /\ c.valuation \in Seq(Int)
    /\ c.duration \in Nat /\ Le(c.duration) < Infinity

ASSUME ZoneGraphAssumption ==
    /\ Dim >= 2
    /\ Reuse \in BOOLEAN
    /\ TA.edges \in Seq(Edges)
    /\ \A e \in Edges :
           /\ {e.src, e.dst} \subseteq Locations
           /\ e.guard \subseteq [x : Clock, odr : Orders, c : Int] /\ IsFiniteSet(e.guard)
           /\ \A c \in e.guard : BoundOf(c) < Infinity
           /\ e.resets \subseteq Clock
    /\ \A c \in Calls : WellFormed(c)

VARIABLES
    call,             \* the parameters
    pc,               \* "init", "loop", "round", "done": where the call is
    nodes, edges,     \* the parameter ZG: address -> configuration; [src, dst, w]
    initStatesZG,     \* the parameter initStatesZG: address -> weight
    toZGState,        \* the local map: key -> address
    nextConf,         \* the local queues of vertices to be explored, in the
    currentConf,      \*     next round and in this one
    removedVertices,  \* vertices deleted in this round
    from, pending,    \* the vertex being expanded, its successors still to be added
    freed, born       \* addresses that are free again; addresses ever used

graphVars == <<nodes, edges, toZGState, nextConf, freed, born>>
vars == <<call, pc, initStatesZG, currentConf, removedVertices, from, pending, graphVars>>

BoundDwell(Z) == Tighten(Z, T, 0, Le(call.duration))

(* convToKey: the entry (0, 0) of the zone is not part of the key. *)
Key(conf) == [conf EXCEPT !.zone[0][0] = Le(0)]

Addresses == {born + 1} \cup (IF Reuse THEN freed ELSE {})

(* f, with value y at x. *)
Put(f, x, y) == [z \in DOMAIN f \cup {x} |-> IF z = x THEN y ELSE f[z]]

(* boost::add_vertex, and its entry in toZGState. *)
AddVertex(v, conf) ==
    /\ nodes' = Put(nodes, v, conf)
    /\ toZGState' = Put(toZGState, Key(conf), v)
    /\ freed' = freed \ {v}
    /\ born' = IF v > born THEN v ELSE born

(* Mutant: a new vertex is never queued. *)
AddEdgeUnqueued(u, conf, w) ==
    \/ /\ Key(conf) \in DOMAIN toZGState
       /\ edges' = edges \cup {[src |-> u, dst |-> toZGState[Key(conf)], w |-> w]}
       /\ UNCHANGED <<nodes, toZGState, nextConf, freed, born>>
    \/ /\ Key(conf) \notin DOMAIN toZGState
       /\ \E v \in Addresses :
            AddVertex(v, conf) /\ edges' = edges \cup {[src |-> u, dst |-> v, w |-> w]}
       /\ UNCHANGED nextConf

(* addEdge *)
AddEdge(u, conf, w) ==
    \/ /\ Key(conf) \in DOMAIN toZGState
       /\ edges' = edges \cup {[src |-> u, dst |-> toZGState[Key(conf)], w |-> w]}
       /\ UNCHANGED <<nodes, toZGState, nextConf, freed, born>>
    \/ /\ Key(conf) \notin DOMAIN toZGState
       /\ \E v \in Addresses :
            /\ AddVertex(v, conf)
            /\ edges' = edges \cup {[src |-> u, dst |-> v, w |-> w]}
            /\ nextConf' = IF conf.jumpable THEN nextConf ELSE Append(nextConf, v)

(* Mutants: what a removal may forget, given the vertex that is removed.   *)
Forgets(conf, keepNode, keepInit, keepKey) ==
    IF Key(conf) \in DOMAIN toZGState
    THEN LET v == toZGState[Key(conf)]
             Without(f, x, keep) == IF keep THEN f ELSE Restrict(f, DOMAIN f \ {x})
         IN /\ initStatesZG' = Without(initStatesZG, v, keepInit)
            /\ edges' = {e \in edges : v \notin {e.src, e.dst}}
            /\ nodes' = Without(nodes, v, keepNode)
            /\ removedVertices' = removedVertices \cup {v}
            /\ toZGState' = Without(toZGState, Key(conf), keepKey)
            /\ freed' = freed \cup {v}
            /\ UNCHANGED <<nextConf, born>>
    ELSE UNCHANGED <<initStatesZG, removedVertices, graphVars>>

RemoveStateNotVertex(conf)  == Forgets(conf, TRUE, FALSE, FALSE)
RemoveStateNotInitial(conf) == Forgets(conf, FALSE, TRUE, FALSE)
RemoveStateNotKey(conf)     == Forgets(conf, FALSE, FALSE, TRUE)

(* The removal of a useless state: the vertex that is deleted is the one   *)
(* that toZGState has for the state's key.                                 *)
RemoveState(conf) ==
    IF Key(conf) \in DOMAIN toZGState
    THEN LET v == toZGState[Key(conf)] IN
         /\ initStatesZG' = Restrict(initStatesZG, DOMAIN initStatesZG \ {v})
         /\ edges' = {e \in edges : v \notin {e.src, e.dst}}
         /\ nodes' = Restrict(nodes, DOMAIN nodes \ {v})
         /\ removedVertices' = removedVertices \cup {v}
         /\ toZGState' = Restrict(toZGState, DOMAIN toZGState \ {Key(conf)})
         /\ freed' = freed \cup {v}
         /\ UNCHANGED <<nextConf, born>>
    ELSE UNCHANGED <<initStatesZG, removedVertices, graphVars>>

(* The transitions there will be later.  The code elapses a copy of the    *)
(* zone for this, but then lists the transitions of the zone itself.       *)
FutureTransitions(q, Z) == DiscreteTransitions(q, Z)

-----------------------------------------------------------------------------
Init ==
    /\ call \in Calls
    /\ pc = "init"
    /\ nodes = <<>> /\ edges = {} /\ initStatesZG = <<>> /\ toZGState = <<>>
    /\ nextConf = <<>> /\ currentConf = <<>> /\ removedVertices = {}
    /\ from = 0 /\ pending = <<>>
    /\ freed = {} /\ born = 0

(* One iteration of the loop over initConfTA. *)
AddInit ==
    /\ pc = "init" /\ Len(nextConf) < Len(call.confs)
    /\ LET given == call.confs[Len(nextConf) + 1]
           conf == [given.conf EXCEPT !.zone = BoundDwell(@)]
       IN \E v \in Addresses :
            /\ AddVertex(v, conf)
            /\ initStatesZG' = Put(initStatesZG, v, given.weight)
            /\ nextConf' = Append(nextConf, v)
    /\ UNCHANGED <<call, pc, edges, currentConf, removedVertices, from, pending>>

(* Mutant: the queue is copied, not moved. *)
StartRoundCopying ==
    /\ \/ pc = "init" /\ Len(nextConf) = Len(call.confs)
       \/ pc = "loop"
    /\ nextConf # <<>>
    /\ pc' = "round" /\ currentConf' = nextConf /\ removedVertices' = {}
    /\ UNCHANGED <<call, nodes, edges, initStatesZG, toZGState, nextConf, from, pending,
                   freed, born>>

(* The head of the while loop. *)
StartRound ==
    /\ \/ pc = "init" /\ Len(nextConf) = Len(call.confs)
       \/ pc = "loop"
    /\ nextConf # <<>>
    /\ pc' = "round"
    /\ currentConf' = nextConf
    /\ nextConf' = <<>>
    /\ removedVertices' = {}
    /\ UNCHANGED <<call, nodes, edges, initStatesZG, toZGState, from, pending, freed, born>>

Return ==
    /\ pc = "loop" /\ nextConf = <<>>
    /\ pc' = "done"
    /\ UNCHANGED <<call, initStatesZG, currentConf, removedVertices, from, pending, graphVars>>

(* The loop over currentConf moves on. *)
Advance ==
    /\ pc = "round" /\ pending = <<>> /\ currentConf # <<>>
    /\ currentConf' = Tail(currentConf)
    /\ UNCHANGED <<call, pc>>

current == Head(currentConf)

Skip ==
    /\ Advance
    /\ current \in removedVertices
    /\ UNCHANGED <<initStatesZG, removedVertices, from, pending, graphVars>>

(* A state that may jump: its discrete transitions are its successors.     *)
(* Without any, now or later, it is useless.                               *)
ProcessJumpable ==
    /\ Advance
    /\ current \notin removedVertices /\ nodes[current].jumpable
    /\ LET conf == nodes[current]
           now  == BoundDwell(conf.zone)
           next == DiscreteTransitions(conf.vertex, now)
       IN /\ pending' = next /\ from' = current
          /\ IF next = <<>> /\ FutureTransitions(conf.vertex, now) = <<>>
             THEN RemoveState(conf)
             ELSE UNCHANGED <<initStatesZG, removedVertices, graphVars>>

(* A state that has just jumped: time elapses to a jumpable state, which   *)
(* is only added, and then expanded at once, when it has a transition.     *)
ProcessContinuous ==
    /\ Advance
    /\ current \notin removedVertices /\ ~ nodes[current].jumpable
    /\ LET conf == nodes[current]
           now  == BoundDwell(Elapse(BoundDwell(conf.zone)))
           next == DiscreteTransitions(conf.vertex, now)
           waited == [conf EXCEPT !.jumpable = TRUE, !.zone = now,
                                  !.valuations = Append(@, call.valuation)]
       IN \/ /\ IsSatisfiableWithoutCanonize(now) /\ next # <<>>
             /\ AddEdge(current, waited, One)
             /\ pending' = IF Key(waited) \in DOMAIN toZGState THEN <<>> ELSE next
             /\ from' = toZGState'[Key(waited)]
             /\ UNCHANGED <<initStatesZG, removedVertices>>
          \/ /\ IsSatisfiableWithoutCanonize(now) /\ next = <<>>
             /\ ~ IsMatch(conf.vertex)
             /\ FutureTransitions(conf.vertex, now) = <<>>
             /\ RemoveState(conf)
             /\ UNCHANGED <<from, pending>>
          \/ /\ \/ ~ IsSatisfiableWithoutCanonize(now)
                \/ /\ next = <<>>
                   /\ IsMatch(conf.vertex) \/ FutureTransitions(conf.vertex, now) # <<>>
             /\ UNCHANGED <<initStatesZG, removedVertices, from, pending, graphVars>>

(* Mutants: the jump keeps the values seen, or costs what its target says. *)
AddSuccessorWith(valuations, label) ==
    /\ pending # <<>>
    /\ AddEdge(from, [vertex |-> Head(pending).vertex, jumpable |-> FALSE,
                      zone |-> Head(pending).zone, valuations |-> valuations],
               Cost(label, nodes[from].valuations))
    /\ pending' = Tail(pending)
    /\ UNCHANGED <<call, pc, initStatesZG, currentConf, removedVertices, from>>

AddSuccessorKeeping ==
    AddSuccessorWith(nodes[from].valuations, TA.label[nodes[from].vertex])

AddSuccessorOfTarget == AddSuccessorWith(<<>>, TA.label[Head(pending).vertex])

(* The call of addEdge for one discrete transition. *)
AddSuccessor ==
    /\ pending # <<>>
    /\ LET next == Head(pending)
       IN AddEdge(from,
                  [vertex |-> next.vertex, jumpable |-> FALSE,
                   zone |-> next.zone, valuations |-> <<>>],
                  Cost(TA.label[nodes[from].vertex], nodes[from].valuations))
    /\ pending' = Tail(pending)
    /\ UNCHANGED <<call, pc, initStatesZG, currentConf, removedVertices, from>>

(* The round is over: forget the removed vertices in nextConf. *)
EndRound ==
    /\ pc = "round" /\ currentConf = <<>> /\ pending = <<>>
    /\ pc' = "loop"
    /\ nextConf' = Selected(nextConf, Range(nextConf) \ removedVertices)
    /\ UNCHANGED <<call, nodes, edges, initStatesZG, toZGState, currentConf,
                   removedVertices, from, pending, freed, born>>

Done == pc = "done" /\ UNCHANGED vars

Next ==
    \/ AddInit \/ StartRound \/ Skip \/ ProcessJumpable \/ ProcessContinuous
    \/ AddSuccessor \/ EndRound \/ Return \/ Done

Spec == Init /\ [][Next]_vars

(* The call keeps running until it returns.  As no state before that is a  *)
(* deadlock this is weak fairness of Next, said without ENABLED.           *)
FairSpec == Spec /\ ([]<>(pc = "done") \/ []<><<TRUE>>_vars)

-----------------------------------------------------------------------------
Live == DOMAIN nodes

TypeOK ==
    /\ WellFormed(call)
    /\ pc \in {"init", "loop", "round", "done"}
    /\ Live \subseteq 1 .. born /\ freed = (1 .. born) \ Live
    /\ \A v \in Live : nodes[v] \in Confs
    /\ {Range(nextConf), Range(currentConf), removedVertices} \subseteq SUBSET (1 .. born)
    /\ from \in 0 .. born

(* Deleting a vertex leaves no reference to it behind in the graph, in the *)
(* initial states, in the table or in what is still to be expanded.        *)
ReferencesLive ==
    /\ \A e \in edges : {e.src, e.dst} \subseteq Live
    /\ DOMAIN initStatesZG \subseteq Live
    /\ Range(toZGState) \subseteq Live
    /\ Range(currentConf) \subseteq Live \cup removedVertices
    /\ pc \in {"loop", "done"} => Range(nextConf) \subseteq Live
    /\ pending # <<>> => from \in Live

(* The table leads to a vertex with the key that was looked up, and misses *)
(* no vertex but an initial one whose key another initial one has too.     *)
TableFaithful ==
    /\ \A key \in DOMAIN toZGState :
           toZGState[key] \in Live /\ Key(nodes[toZGState[key]]) = key
    /\ \A v \in Live \ Range(toZGState) : v \in DOMAIN initStatesZG

(* zone_graph.hh:18-24: the flag says whether time has passed since the    *)
(* last jump, which is when values have been observed.                     *)
JumpableIffValuations ==
    \A v \in Live : nodes[v].jumpable <=> nodes[v].valuations # <<>>

(* The discrete step, and the delay, that leave a state in this piece.     *)
Jumps(conf) ==
    LET next == DiscreteTransitions(conf.vertex, BoundDwell(conf.zone))
    IN  {[vertex |-> next[i].vertex, jumpable |-> FALSE,
          zone |-> next[i].zone, valuations |-> <<>>] : i \in DOMAIN next}

Delay(conf) ==
    [conf EXCEPT !.jumpable = TRUE, !.zone = BoundDwell(Elapse(BoundDwell(@))),
                 !.valuations = Append(@, call.valuation)]

(* A zone in canonical form with a dwell time within the duration, which   *)
(* bounds every clock through the dwell time.  The diagonal says nothing of*)
(* the clocks.                                                             *)
InPiece(c, Z, limit) ==
    /\ Z \in Matrix /\ Canonical(Z) /\ IsSatisfiableWithoutCanonize(Z)
    /\ \A i \in Var \ {0, T} : Z[i][i] <= Le(0)
    /\ Z[T][0] <= Le(c.duration)
    /\ \A i \in Var : Z[i][T] + Le(c.duration) <= limit
    /\ \A i, j \in Var : Z[i][j] <= limit

Dwell(c, Z) == Tighten(Z, T, 0, Le(c.duration))

(* A call with the zones feed makes: in canonical form once the dwell time *)
(* is bounded, with a bound on every clock.                                *)
CallWithin(c, limit) ==
    /\ Le(c.duration) <= limit
    /\ \A i \in DOMAIN c.confs : InPiece(c, Dwell(c, c.confs[i].conf.zone), limit)

SameState(c, d) == Key(c) = Key(d)

(* Every edge is a step of the automaton, delays and jumps alternate, and  *)
(* a jump costs what its source has observed.                              *)
EdgesAreSteps ==
    \A e \in edges :
        LET a == nodes[e.src]
            b == nodes[e.dst]
        IN  IF a.jumpable
            THEN /\ \E c \in Jumps(a) : SameState(b, c)
                 /\ e.w = Cost(TA.label[a.vertex], a.valuations)
            ELSE SameState(b, Delay(a)) /\ e.w = One

(* A state in which time can only pass. *)
Stuck(conf) ==
    LET later == Delay(conf)
    IN  ~ conf.jumpable /\ Jumps(later) = {}
            /\ IsSatisfiableWithoutCanonize(later.zone) /\ ~ IsMatch(conf.vertex)

Linked(v, conf) == \E e \in edges : e.src = v /\ SameState(nodes[e.dst], conf)

(* The graph returned is closed: every step out of one of its states that  *)
(* leads on is an edge.                                                    *)
ClosedOnReturn ==
    pc = "done" =>
        \A v \in Live :
            IF nodes[v].jumpable
            THEN \A conf \in Jumps(nodes[v]) : Linked(v, conf) \/ Stuck(conf)
            ELSE Jumps(Delay(nodes[v])) # {} => Linked(v, Delay(nodes[v]))

(* zone_graph.hh:388 "remove the removedVertices from nextConf": a vertex  *)
(* that is in the graph stays in the queue.                                *)
OnlyRemovedForgotten ==
    [][\A v \in Range(nextConf) \cap Live :
           pc' = "loop" => v \in Range(nextConf')]_vars

(* The construction ends. *)
Termination == <>(pc = "done")
=============================================================================

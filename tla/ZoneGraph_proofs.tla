-------------------------- MODULE ZoneGraph_proofs --------------------------
(***************************************************************************)
(* The construction of the zone graph of a piece, for every automaton,     *)
(* every call and every order in which addresses are handed out.           *)
(***************************************************************************)
EXTENDS ZoneGraph, TimedAutomaton_proofs

(* What DiscreteTransitions lists.                                         *)
Successors == [vertex : Locations, zone : Matrix]

(* The discrete transitions of a zone lead to zones.                       *)
LEMMA EdgeFacts ==
    ASSUME NEW e \in Edges
    PROVE  /\ IsGuard(e.guard) /\ e.resets \subseteq Var \ {0, T}
           /\ T \in Var \ {0}
<1>1. /\ e.guard \subseteq [x : Clock, odr : Orders, c : Int] /\ IsFiniteSet(e.guard)
      /\ \A c \in e.guard : BoundOf(c) < Infinity
      /\ e.resets \subseteq Clock
  BY ZoneGraphAssumption
<1>2. Clock \subseteq Var \ {0, T} /\ T \in Var \ {0}
  BY DBMAssumption, ZoneGraphAssumption DEF Clock, Var, T
<1>3. e.guard \subseteq Constraint
  <2> SUFFICES ASSUME NEW c \in e.guard PROVE c \in Constraint
    OBVIOUS
  <2>1. c \in [x : Clock, odr : Orders, c : Int]
    BY <1>1
  <2> QED
    BY <1>2, <2>1 DEF Constraint
<1> QED
  BY <1>1, <1>2, <1>3 DEF IsGuard

LEMMA TransitionsAre ==
    ASSUME NEW q, NEW Z \in Matrix
    PROVE  /\ DiscreteTransitions(q, Z) \in Seq(Successors)
           /\ \A s \in Range(DiscreteTransitions(q, Z)) :
                \E e \in Edges :
                    /\ Enabled(e, q, Z) /\ s.vertex = e.dst
                    /\ s.zone = ResetAll(Canonize(Guarded(Z, e.guard)), e.resets)
<1> DEFINE On == {TA.edges[i] : i \in {j \in DOMAIN TA.edges : Enabled(TA.edges[j], q, Z)}}
           fired == Selected(TA.edges, On)
           After(e) == [vertex |-> e.dst,
                        zone |-> ResetAll(Canonize(Guarded(Z, e.guard)), e.resets)]
           next == [i \in DOMAIN fired |-> After(fired[i])]
<1>1. TA.edges \in Seq(Edges)
  BY ZoneGraphAssumption
<1>2. fired \in Seq(Edges) /\ Range(fired) \subseteq On
  BY <1>1, SelectedIs
<1>3. DiscreteTransitions(q, Z) = next
  BY DEF DiscreteTransitions
<1>4. ASSUME NEW e \in Edges PROVE After(e) \in Successors
  <2>1. Guarded(Z, e.guard) \in Matrix
    BY EdgeFacts, GuardedExact
  <2>2. Canonize(Guarded(Z, e.guard)) \in Matrix
    BY <2>1, CanonizeShortens
  <2>3. \A M \in Matrix : \A x \in e.resets \cap (Var \ {0}) : Reset(M, x) \in Matrix
    BY ResetShortens
  <2>4. ResetAll(Canonize(Guarded(Z, e.guard)), e.resets) \in Matrix
    BY <2>2, <2>3, ResetAllPreserves
  <2>5. e.dst \in Locations
    BY ZoneGraphAssumption
  <2> QED
    BY <2>4, <2>5 DEF Successors
<1>5. DOMAIN fired = 1 .. Len(fired) /\ Len(fired) \in Nat
      /\ \A i \in 1 .. Len(fired) : fired[i] \in Edges /\ fired[i] \in On
  <2> HIDE DEF fired, On
  <2>1. \A i \in DOMAIN fired : fired[i] \in Range(fired)
    BY DEF Range
  <2> QED
    BY <1>2, <2>1
<1>6. \A e \in On : Enabled(e, q, Z)
  OBVIOUS
<1> HIDE DEF fired, On
<1>7. next \in Seq(Successors)
  <2>1. \A i \in 1 .. Len(fired) : After(fired[i]) \in Successors
    BY <1>4, <1>5
  <2> HIDE DEF After
  <2> QED
    BY <1>5, <2>1
<1>8. ASSUME NEW s \in Range(next)
      PROVE  \E e \in Edges : Enabled(e, q, Z) /\ s = After(e)
  <2>1. PICK i \in DOMAIN fired : s = After(fired[i])
    BY DEF Range
  <2> QED
    BY <1>5, <1>6, <2>1
<1>9. \A e \in Edges : After(e).vertex = e.dst
                    /\ After(e).zone = ResetAll(Canonize(Guarded(Z, e.guard)), e.resets)
  OBVIOUS
<1> HIDE DEF After, next
<1> QED
  BY <1>3, <1>7, <1>8, <1>9

-----------------------------------------------------------------------------
(* The inductive invariant: of the graph and its table,                    *)
GraphInv ==
    /\ WellFormed(call)
    /\ born \in Nat /\ Live \subseteq 1 .. born /\ freed = (1 .. born) \ Live
    /\ \A v \in Live : nodes[v] \in Confs
    /\ JumpableIffValuations
    /\ \A e \in edges : {e.src, e.dst} \subseteq Live
    /\ DOMAIN initStatesZG \subseteq Live
    /\ TableFaithful

(* and of the queues.  In a round a queue may hold removed vertices, all of*)
(* them listed as such; before the first round every vertex is initial.    *)
QueueInv ==
    /\ pc \in {"init", "loop", "round", "done"}
    /\ nextConf \in Seq(1 .. born) /\ currentConf \in Seq(1 .. born)
    /\ removedVertices \subseteq 1 .. born
    /\ Range(nextConf) \cup Range(currentConf) \subseteq Live \cup removedVertices
    /\ pc # "round" => Range(nextConf) \subseteq Live
    /\ pc = "init" => DOMAIN initStatesZG = Live /\ pending = <<>>
    /\ from \in 0 .. born
    /\ pending \in Seq(Successors) /\ (pending # <<>> => from \in Live)
    /\ ~ Reuse => removedVertices \cap Live = {}

ZoneInv == GraphInv /\ QueueInv

(* A configuration of the graph.                                           *)
Valid(conf) == conf \in Confs /\ (conf.jumpable <=> conf.valuations # <<>>)

LEMMA CallFacts ==
    ASSUME WellFormed(call)
    PROVE  /\ Le(call.duration) \in Bound /\ call.valuation \in Seq(Int)
           /\ call.confs # <<>> /\ Len(call.confs) \in Nat
           /\ DOMAIN call.confs = 1 .. Len(call.confs)
           /\ \A i \in DOMAIN call.confs : Valid(call.confs[i].conf)
<1>1. /\ call.duration \in Nat /\ Le(call.duration) < Infinity
      /\ call.valuation \in Seq(Int) /\ call.confs # <<>>
      /\ call.confs \in Seq({call.confs[i] : i \in DOMAIN call.confs})
      /\ \A i \in DOMAIN call.confs : Valid(call.confs[i].conf)
  BY DEF WellFormed, Valid
<1>2. Le(call.duration) \in Bound
  BY <1>1, DBMAssumption DEF Le, Bound
<1> QED
  BY <1>1, <1>2

LEMMA BoundDwellType ==
    ASSUME WellFormed(call), NEW Z \in Matrix
    PROVE  BoundDwell(Z) \in Matrix
<1>1. T \in Var /\ 0 \in Var
  BY DBMAssumption, ZoneGraphAssumption DEF Var, T
<1> QED
  BY <1>1, CallFacts, TightenShortens DEF BoundDwell

(* Freshness of the addresses a new vertex may get.                        *)
LEMMA AddressIsFresh ==
    ASSUME GraphInv, NEW v \in Addresses
    PROVE  /\ v \in Nat \ {0} /\ v \notin Live /\ v <= born + 1
           /\ v > born => v = born + 1
           /\ ~ Reuse => v = born + 1
  BY DEF GraphInv, Addresses

(* A new vertex keeps the table faithful when it takes the place of none   *)
(* there, or when every vertex is initial.                                 *)
LEMMA AddVertexKeeps ==
    ASSUME GraphInv, NEW v \in Addresses, NEW conf, Valid(conf), AddVertex(v, conf),
           call' = call,
           \A e \in edges' : {e.src, e.dst} \subseteq Live \cup {v},
           DOMAIN initStatesZG \subseteq DOMAIN initStatesZG',
           DOMAIN initStatesZG' \subseteq Live \cup {v},
           Key(conf) \notin DOMAIN toZGState \/ Live \subseteq DOMAIN initStatesZG
    PROVE  /\ GraphInv'
           /\ Live' = Live \cup {v} /\ v \notin Live
           /\ nodes'[v] = conf /\ \A u \in Live : nodes'[u] = nodes[u]
           /\ toZGState'[Key(conf)] = v
           /\ born' \in Nat /\ born <= born' /\ 1 .. born \subseteq 1 .. born' /\ v \in 1 .. born'
           /\ ~ Reuse => v = born + 1
<1>1. /\ v \in Nat \ {0} /\ v \notin Live /\ v <= born + 1
      /\ (v > born => v = born + 1) /\ (~ Reuse => v = born + 1)
  BY AddressIsFresh
<1>2. /\ Live' = Live \cup {v}
      /\ nodes'[v] = conf /\ \A u \in Live : nodes'[u] = nodes[u]
  BY <1>1 DEF AddVertex, Put, Live
<1>3. /\ DOMAIN toZGState' = DOMAIN toZGState \cup {Key(conf)}
      /\ toZGState'[Key(conf)] = v
      /\ \A key \in DOMAIN toZGState : key # Key(conf) => toZGState'[key] = toZGState[key]
  BY DEF AddVertex, Put
<1>4. /\ born \in Nat /\ Live \subseteq 1 .. born /\ freed = (1 .. born) \ Live
      /\ freed' = freed \ {v} /\ born' = IF v > born THEN v ELSE born
  BY DEF GraphInv, AddVertex
<1>5. /\ born' \in Nat /\ born <= born' /\ 1 .. born' = 1 .. born \cup {v}
  BY <1>1, <1>4
<1>6. Live' \subseteq 1 .. born' /\ freed' = (1 .. born') \ Live'
  BY <1>1, <1>2, <1>4, <1>5
<1>7. \A u \in Live' : nodes'[u] \in Confs /\ (nodes'[u].jumpable <=> nodes'[u].valuations # <<>>)
  BY <1>2 DEF GraphInv, JumpableIffValuations, Valid
<1>8. ASSUME NEW key \in DOMAIN toZGState'
      PROVE  toZGState'[key] \in Live' /\ Key(nodes'[toZGState'[key]]) = key
  <2>1. CASE key = Key(conf)
    BY <1>2, <1>3, <2>1
  <2>2. CASE key # Key(conf)
    <3>1. /\ key \in DOMAIN toZGState /\ toZGState'[key] = toZGState[key]
          /\ toZGState[key] \in Live /\ Key(nodes[toZGState[key]]) = key
      BY <1>3, <2>2 DEF GraphInv, TableFaithful
    <3> QED
      BY <1>2, <3>1
  <2> QED
    BY <2>1, <2>2
<1>9. ASSUME NEW u \in Live' \ Range(toZGState') PROVE u \in DOMAIN initStatesZG'
  <2>1. v \in Range(toZGState')
    BY <1>3 DEF Range
  <2>2. u \in Live
    BY <1>2, <1>9, <2>1
  <2>3. CASE Live \subseteq DOMAIN initStatesZG
    BY <2>2, <2>3
  <2>4. CASE Key(conf) \notin DOMAIN toZGState
    <3>1. \A key \in DOMAIN toZGState : toZGState[key] \in Range(toZGState')
      BY <1>3, <2>4 DEF Range
    <3>2. u \notin Range(toZGState)
      BY <1>9, <3>1 DEF Range
    <3> QED
      BY <2>2, <3>2 DEF GraphInv, TableFaithful
  <2> QED
    BY <2>3, <2>4
<1>10. TableFaithful' /\ JumpableIffValuations'
  BY <1>7, <1>8, <1>9 DEF TableFaithful, JumpableIffValuations
<1>11. GraphInv'
  BY <1>2, <1>5, <1>6, <1>7, <1>10 DEF GraphInv
<1> QED
  BY <1>1, <1>2, <1>3, <1>5, <1>11

(* An edge leads to the vertex of its target's key, new or not.            *)
LEMMA AddEdgeKeeps ==
    ASSUME GraphInv, NEW u \in Live, NEW conf, Valid(conf), NEW w, AddEdge(u, conf, w),
           call' = call, initStatesZG' = initStatesZG, nextConf \in Seq(1 .. born)
    PROVE  /\ GraphInv'
           /\ Live \subseteq Live' /\ \A v \in Live : nodes'[v] = nodes[v]
           /\ born' \in Nat /\ 1 .. born \subseteq 1 .. born' /\ born <= born'
           /\ nextConf' \in Seq(1 .. born')
           /\ Range(nextConf) \subseteq Range(nextConf')
           /\ Range(nextConf') \subseteq Range(nextConf) \cup Live'
           /\ ~ Reuse => Live' \subseteq Live \cup {born + 1}
           /\ toZGState'[Key(conf)] \in Live'
           /\ Key(nodes'[toZGState'[Key(conf)]]) = Key(conf)
           /\ edges' = edges \cup {[src |-> u, dst |-> toZGState'[Key(conf)], w |-> w]}
           /\ Key(conf) \notin DOMAIN toZGState => nodes'[toZGState'[Key(conf)]] = conf
           /\ toZGState'[Key(conf)] \in Live \/ nodes'[toZGState'[Key(conf)]] = conf
           /\ Live' \subseteq Live \cup {toZGState'[Key(conf)]}
<1> DEFINE k == Key(conf)
<1>0. /\ born \in Nat /\ Live \subseteq 1 .. born /\ \A e \in edges : {e.src, e.dst} \subseteq Live
      /\ DOMAIN initStatesZG \subseteq Live
  BY DEF GraphInv
<1>1. CASE k \in DOMAIN toZGState
  <2>1. /\ edges' = edges \cup {[src |-> u, dst |-> toZGState[k], w |-> w]}
        /\ nodes' = nodes /\ toZGState' = toZGState /\ nextConf' = nextConf
        /\ freed' = freed /\ born' = born
    BY <1>1 DEF AddEdge
  <2>2. toZGState[k] \in Live /\ Key(nodes[toZGState[k]]) = k
    BY <1>1 DEF GraphInv, TableFaithful
  <2>3. Live' = Live
    BY <2>1 DEF Live
  <2>4. \A e \in edges' : {e.src, e.dst} \subseteq Live
    <3> DEFINE new == [src |-> u, dst |-> toZGState[k], w |-> w]
    <3>1. new.src = u /\ new.dst = toZGState[k]
      OBVIOUS
    <3> HIDE DEF new
    <3> QED
      BY <1>0, <2>1, <2>2, <3>1 DEF new
  <2>5. TableFaithful' /\ JumpableIffValuations'
    BY <2>1, <2>3 DEF GraphInv, TableFaithful, JumpableIffValuations, Key
  <2>6. GraphInv'
    BY <2>1, <2>3, <2>4, <2>5 DEF GraphInv
  <2> QED
    BY <1>0, <1>1, <2>1, <2>2, <2>3, <2>6
<1>2. CASE k \notin DOMAIN toZGState
  <2>1. PICK v \in Addresses :
           /\ AddVertex(v, conf)
           /\ edges' = edges \cup {[src |-> u, dst |-> v, w |-> w]}
           /\ nextConf' = IF conf.jumpable THEN nextConf ELSE Append(nextConf, v)
    BY <1>2 DEF AddEdge
  <2>2. \A e \in edges' : {e.src, e.dst} \subseteq Live \cup {v}
    <3> DEFINE new == [src |-> u, dst |-> v, w |-> w]
    <3>1. new.src = u /\ new.dst = v
      OBVIOUS
    <3> HIDE DEF new
    <3> QED
      BY <1>0, <2>1, <3>1 DEF new
  <2>3. /\ GraphInv'
        /\ Live' = Live \cup {v} /\ v \notin Live
        /\ nodes'[v] = conf /\ \A x \in Live : nodes'[x] = nodes[x]
        /\ toZGState'[k] = v
        /\ born' \in Nat /\ born <= born' /\ 1 .. born \subseteq 1 .. born' /\ v \in 1 .. born'
        /\ ~ Reuse => v = born + 1
    <3>1. /\ DOMAIN initStatesZG \subseteq DOMAIN initStatesZG'
          /\ DOMAIN initStatesZG' \subseteq Live \cup {v}
      BY <1>0
    <3> QED
      BY <1>2, <2>1, <2>2, <3>1, AddVertexKeeps
  <2>4. /\ nextConf' \in Seq(1 .. born') /\ Range(nextConf) \subseteq Range(nextConf')
        /\ Range(nextConf') \subseteq Range(nextConf) \cup {v}
    <3>1. nextConf \in Seq(1 .. born')
      BY <2>3, InLargerRange
    <3>2. CASE conf.jumpable
      BY <2>1, <3>1, <3>2
    <3>3. CASE ~ conf.jumpable
      <4>1. nextConf' = Append(nextConf, v)
        BY <2>1, <3>3
      <4>2. Append(nextConf, v) \in Seq(1 .. born')
        BY <2>3, <3>1
      <4> QED
        BY <3>1, <4>1, <4>2, RangeOfAppend
    <3> QED
      BY <3>2, <3>3
  <2> QED
    BY <1>2, <2>1, <2>3, <2>4
<1> QED
  BY <1>1, <1>2

(* A removal takes one vertex, with its edges and its entry in the table.  *)
LEMMA RemoveStateKeeps ==
    ASSUME GraphInv, NEW conf, RemoveState(conf), call' = call,
           removedVertices \subseteq 1 .. born
    PROVE  /\ GraphInv'
           /\ Live' \subseteq Live /\ \A v \in Live' : nodes'[v] = nodes[v]
           /\ born' = born /\ nextConf' = nextConf
           /\ edges' \subseteq edges
           /\ removedVertices' \subseteq 1 .. born
           /\ removedVertices \subseteq removedVertices'
           /\ Live \subseteq Live' \cup removedVertices'
           /\ removedVertices' \cap Live' \subseteq removedVertices \cap Live
<1> DEFINE k == Key(conf)
<1>1. CASE k \in DOMAIN toZGState
  <2> DEFINE v == toZGState[k]
  <2>1. /\ initStatesZG' = Restrict(initStatesZG, DOMAIN initStatesZG \ {v})
        /\ edges' = {e \in edges : v \notin {e.src, e.dst}}
        /\ nodes' = Restrict(nodes, DOMAIN nodes \ {v})
        /\ removedVertices' = removedVertices \cup {v}
        /\ toZGState' = Restrict(toZGState, DOMAIN toZGState \ {k})
        /\ freed' = freed \cup {v}
        /\ nextConf' = nextConf /\ born' = born
    BY <1>1 DEF RemoveState
  <2>2. v \in Live /\ Key(nodes[v]) = k
    BY <1>1 DEF GraphInv, TableFaithful
  <2> HIDE DEF v
  <2>3. Live' = Live \ {v} /\ \A x \in Live' : nodes'[x] = nodes[x]
    BY <2>1 DEF Live, Restrict
  <2>4. /\ DOMAIN initStatesZG' = DOMAIN initStatesZG \ {v}
        /\ DOMAIN toZGState' = DOMAIN toZGState \ {k}
        /\ \A key \in DOMAIN toZGState' : toZGState'[key] = toZGState[key]
    BY <2>1 DEF Restrict
  <2>5. ASSUME NEW key \in DOMAIN toZGState'
        PROVE  toZGState'[key] \in Live' /\ Key(nodes'[toZGState'[key]]) = key
    <3>1. /\ toZGState'[key] = toZGState[key] /\ toZGState[key] \in Live /\ key # k
          /\ Key(nodes[toZGState[key]]) = key
      BY <2>4 DEF GraphInv, TableFaithful
    <3>2. toZGState[key] # v
      BY <2>2, <3>1
    <3> QED
      BY <2>3, <3>1, <3>2
  <2>6. ASSUME NEW x \in Live' \ Range(toZGState') PROVE x \in DOMAIN initStatesZG'
    <3>1. \A key \in DOMAIN toZGState' : toZGState[key] \in Range(toZGState')
      BY <2>4 DEF Range
    <3>2. x # v /\ x \in Live
      BY <2>3
    <3>3. x \notin Range(toZGState)
      <4> SUFFICES ASSUME NEW key \in DOMAIN toZGState, x = toZGState[key] PROVE FALSE
        BY DEF Range
      <4> QED
        BY <2>4, <2>6, <3>1, <3>2 DEF v
    <3> QED
      BY <2>4, <3>2, <3>3 DEF GraphInv, TableFaithful
  <2>7. TableFaithful'
    BY <2>5, <2>6 DEF TableFaithful
  <2>8. /\ JumpableIffValuations' /\ \A x \in Live' : nodes'[x] \in Confs
        /\ DOMAIN initStatesZG' \subseteq Live'
        /\ \A e \in edges' : {e.src, e.dst} \subseteq Live'
    BY <2>1, <2>3, <2>4 DEF GraphInv, JumpableIffValuations
  <2>9. /\ born' \in Nat /\ Live' \subseteq 1 .. born' /\ freed' = (1 .. born') \ Live'
    BY <2>1, <2>2, <2>3 DEF GraphInv
  <2>10. GraphInv'
    BY <2>7, <2>8, <2>9 DEF GraphInv
  <2>11. v \in 1 .. born
    BY <2>2 DEF GraphInv
  <2> QED
    BY <2>1, <2>2, <2>3, <2>10, <2>11
<1>2. CASE k \notin DOMAIN toZGState
  <2>1. /\ initStatesZG' = initStatesZG /\ removedVertices' = removedVertices
        /\ nodes' = nodes /\ edges' = edges /\ toZGState' = toZGState
        /\ nextConf' = nextConf /\ freed' = freed /\ born' = born
    BY <1>2 DEF RemoveState, graphVars
  <2>2. Live' = Live
    BY <2>1 DEF Live
  <2>3. GraphInv'
    BY <2>1, <2>2 DEF GraphInv, TableFaithful, JumpableIffValuations, Key
  <2> QED
    BY <2>1, <2>2, <2>3
<1> QED
  BY <1>1, <1>2

LEMMA ZoneInit == Init => ZoneInv
<1> SUFFICES ASSUME Init PROVE ZoneInv
  OBVIOUS
<1>1. /\ WellFormed(call) /\ pc = "init" /\ nodes = <<>> /\ edges = {} /\ initStatesZG = <<>>
      /\ toZGState = <<>> /\ nextConf = <<>> /\ currentConf = <<>> /\ removedVertices = {}
      /\ from = 0 /\ pending = <<>> /\ freed = {} /\ born = 0
  BY ZoneGraphAssumption DEF Init
<1>2. DOMAIN nodes = {} /\ DOMAIN initStatesZG = {} /\ DOMAIN toZGState = {}
  BY <1>1
<1>3. GraphInv
  BY <1>1, <1>2 DEF GraphInv, TableFaithful, JumpableIffValuations, Live
<1>4. Range(nextConf) = {} /\ Range(currentConf) = {}
  BY <1>1 DEF Range
<1>5. QueueInv
  BY <1>1, <1>2, <1>4 DEF QueueInv, Live
<1> QED
  BY <1>3, <1>5 DEF ZoneInv

LEMMA ValidBounded ==
    ASSUME WellFormed(call), NEW conf, Valid(conf)
    PROVE  LET bounded == [conf EXCEPT !.zone = BoundDwell(@)]
           IN  Valid(bounded) /\ bounded.zone = BoundDwell(conf.zone)
<1>1. conf \in Confs /\ conf.zone \in Matrix
  BY DEF Valid, Confs
<1>2. BoundDwell(conf.zone) \in Matrix
  BY <1>1, BoundDwellType
<1> QED
  BY <1>1, <1>2 DEF Valid, Confs

LEMMA AddInitKeeps == ASSUME ZoneInv, AddInit PROVE ZoneInv'
<1> DEFINE given == call.confs[Len(nextConf) + 1]
           conf == [given.conf EXCEPT !.zone = BoundDwell(@)]
<1>1. /\ pc = "init" /\ Len(nextConf) < Len(call.confs)
      /\ call' = call /\ pc' = pc /\ edges' = edges /\ currentConf' = currentConf
      /\ removedVertices' = removedVertices /\ from' = from /\ pending' = pending
  BY DEF AddInit
<1>2. PICK v \in Addresses : /\ AddVertex(v, conf)
                             /\ initStatesZG' = Put(initStatesZG, v, given.weight)
                             /\ nextConf' = Append(nextConf, v)
  BY DEF AddInit
<1>3. GraphInv /\ QueueInv /\ WellFormed(call)
  BY DEF ZoneInv, GraphInv
<1>4. /\ nextConf \in Seq(1 .. born) /\ currentConf \in Seq(1 .. born)
      /\ Range(nextConf) \subseteq Live /\ Range(currentConf) \subseteq Live \cup removedVertices
      /\ DOMAIN initStatesZG = Live /\ removedVertices \subseteq 1 .. born
  BY <1>1, <1>3 DEF QueueInv
<1>5. Valid(conf)
  <2>1. Len(nextConf) + 1 \in DOMAIN call.confs
    BY <1>1, <1>3, <1>4, CallFacts
  <2>2. Valid(given.conf)
    BY <1>3, <2>1, CallFacts
  <2> HIDE DEF given
  <2> QED
    BY <1>3, <2>2, ValidBounded
<1> HIDE DEF given, conf
<1>6. DOMAIN initStatesZG' = Live \cup {v}
  BY <1>2, <1>4 DEF Put
<1>7. /\ GraphInv' /\ Live' = Live \cup {v} /\ v \notin Live
      /\ born' \in Nat /\ born <= born' /\ 1 .. born \subseteq 1 .. born' /\ v \in 1 .. born'
      /\ ~ Reuse => v = born + 1
  <2>1. \A e \in edges' : {e.src, e.dst} \subseteq Live \cup {v}
    BY <1>1, <1>3 DEF GraphInv
  <2> QED
    BY <1>1, <1>2, <1>3, <1>4, <1>5, <1>6, <2>1, AddVertexKeeps
<1>8. /\ nextConf' \in Seq(1 .. born') /\ currentConf' \in Seq(1 .. born')
      /\ Range(nextConf') = Range(nextConf) \cup {v}
  <2>1. nextConf \in Seq(1 .. born') /\ currentConf \in Seq(1 .. born')
    BY <1>4, <1>7, InLargerRange
  <2>2. Append(nextConf, v) \in Seq(1 .. born')
    BY <1>7, <2>1
  <2> QED
    BY <1>1, <1>2, <2>1, <2>2, RangeOfAppend
<1>9. ~ Reuse => removedVertices' \cap Live' = {}
  <2> SUFFICES ASSUME ~ Reuse PROVE removedVertices \cap (Live \cup {v}) = {}
    BY <1>1, <1>7
  <2>1. v = born + 1 /\ born \in Nat
    BY <1>3, <1>7 DEF GraphInv
  <2> QED
    BY <1>3, <1>4, <2>1 DEF QueueInv
<1>10. from' \in 0 .. born'
  BY <1>1, <1>3, <1>7 DEF QueueInv, GraphInv
<1>11. pending' \in Seq(Successors) /\ pending' = <<>>
  BY <1>1, <1>3 DEF QueueInv
<1>12. QueueInv'
  BY <1>1, <1>4, <1>6, <1>7, <1>8, <1>9, <1>10, <1>11 DEF QueueInv
<1> QED
  BY <1>7, <1>12 DEF ZoneInv

LEMMA StartRoundKeeps == ASSUME ZoneInv, StartRound PROVE ZoneInv'
<1>1. /\ pc # "round" /\ pc' = "round" /\ currentConf' = nextConf /\ nextConf' = <<>>
      /\ removedVertices' = {}
      /\ call' = call /\ nodes' = nodes /\ edges' = edges /\ initStatesZG' = initStatesZG
      /\ toZGState' = toZGState /\ from' = from /\ pending' = pending /\ freed' = freed
      /\ born' = born
  BY DEF StartRound
<1>2. Live' = Live
  BY <1>1 DEF Live
<1>3. GraphInv'
  BY <1>1, <1>2 DEF ZoneInv, GraphInv, TableFaithful, JumpableIffValuations, Key
<1>4. /\ QueueInv /\ Range(nextConf) \subseteq Live
  BY <1>1 DEF ZoneInv, QueueInv
<1>5. Range(nextConf') = {} /\ nextConf' \in Seq(1 .. born)
  BY <1>1 DEF Range
<1>6. QueueInv'
  BY <1>1, <1>2, <1>4, <1>5 DEF QueueInv
<1> QED
  BY <1>3, <1>6 DEF ZoneInv

(* The vertex being processed is there.                                    *)
LEMMA AdvanceFacts ==
    ASSUME ZoneInv, Advance
    PROVE  /\ pc = "round" /\ pc' = pc /\ call' = call /\ WellFormed(call)
           /\ pending = <<>> /\ currentConf # <<>>
           /\ currentConf' = Tail(currentConf) /\ currentConf' \in Seq(1 .. born)
           /\ Range(currentConf') \subseteq Range(currentConf)
           /\ current \in 1 .. born
           /\ current \notin removedVertices => current \in Live /\ Valid(nodes[current])
<1>1. /\ pc = "round" /\ pc' = pc /\ call' = call /\ pending = <<>> /\ currentConf # <<>>
      /\ currentConf' = Tail(currentConf)
  BY DEF Advance
<1>2. /\ currentConf \in Seq(1 .. born) /\ Range(currentConf) \subseteq Live \cup removedVertices
      /\ WellFormed(call)
  BY DEF ZoneInv, QueueInv, GraphInv
<1>3. /\ current \in Range(currentConf) /\ Range(Tail(currentConf)) \subseteq Range(currentConf)
      /\ current \in 1 .. born /\ Tail(currentConf) \in Seq(1 .. born)
  BY <1>1, <1>2, RangeOfTail DEF current
<1>4. ASSUME current \notin removedVertices PROVE current \in Live /\ Valid(nodes[current])
  <2>1. current \in Live
    BY <1>2, <1>3, <1>4
  <2> HIDE DEF current
  <2> QED
    BY <2>1 DEF ZoneInv, GraphInv, JumpableIffValuations, Valid
<1> QED
  BY <1>1, <1>2, <1>3, <1>4

LEMMA SkipKeeps == ASSUME ZoneInv, Skip PROVE ZoneInv'
<1>1. /\ pc' = pc /\ call' = call /\ pending = <<>> /\ pc = "round"
      /\ currentConf' \in Seq(1 .. born) /\ Range(currentConf') \subseteq Range(currentConf)
  BY AdvanceFacts DEF Skip
<1>2. /\ nodes' = nodes /\ edges' = edges /\ initStatesZG' = initStatesZG
      /\ toZGState' = toZGState /\ from' = from /\ pending' = pending /\ freed' = freed
      /\ born' = born /\ removedVertices' = removedVertices /\ nextConf' = nextConf
  BY DEF Skip, graphVars
<1>3. Live' = Live
  BY <1>2 DEF Live
<1>4. GraphInv'
  BY <1>1, <1>2, <1>3 DEF ZoneInv, GraphInv, TableFaithful, JumpableIffValuations, Key
<1>5. QueueInv'
  BY <1>1, <1>2, <1>3 DEF ZoneInv, QueueInv
<1> QED
  BY <1>4, <1>5 DEF ZoneInv

(* After a removal, with the queue moved on and nothing pending or from a  *)
(* vertex that is still there.                                             *)
LEMMA RemovalKeeps ==
    ASSUME ZoneInv, Advance, NEW conf, RemoveState(conf),
           from' \in 0 .. born, pending' = <<>>
    PROVE  ZoneInv'
<1>1. /\ pc' = pc /\ call' = call /\ pc = "round"
      /\ currentConf' \in Seq(1 .. born) /\ Range(currentConf') \subseteq Range(currentConf)
  BY AdvanceFacts
<1>2. GraphInv /\ QueueInv /\ removedVertices \subseteq 1 .. born
  BY DEF ZoneInv, QueueInv
<1>3. /\ GraphInv'
      /\ Live' \subseteq Live
      /\ born' = born /\ nextConf' = nextConf
      /\ removedVertices' \subseteq 1 .. born
      /\ removedVertices \subseteq removedVertices'
      /\ Live \subseteq Live' \cup removedVertices'
      /\ removedVertices' \cap Live' \subseteq removedVertices \cap Live
  BY <1>1, <1>2, RemoveStateKeeps
<1>4. pending' \in Seq(Successors)
  OBVIOUS
<1>5. QueueInv'
  BY <1>1, <1>2, <1>3, <1>4 DEF QueueInv
<1> QED
  BY <1>3, <1>5 DEF ZoneInv

(* The graph as it is, with the queue moved on.                            *)
LEMMA NoRemovalKeeps ==
    ASSUME ZoneInv, Advance, UNCHANGED <<initStatesZG, removedVertices, graphVars>>,
           from' \in 0 .. born, pending' \in Seq(Successors),
           pending' # <<>> => from' \in Live
    PROVE  ZoneInv'
<1>1. /\ pc' = pc /\ call' = call /\ pc = "round"
      /\ currentConf' \in Seq(1 .. born) /\ Range(currentConf') \subseteq Range(currentConf)
  BY AdvanceFacts
<1>2. /\ nodes' = nodes /\ edges' = edges /\ initStatesZG' = initStatesZG
      /\ toZGState' = toZGState /\ freed' = freed
      /\ born' = born /\ removedVertices' = removedVertices /\ nextConf' = nextConf
  BY DEF graphVars
<1>3. Live' = Live
  BY <1>2 DEF Live
<1>4. GraphInv'
  BY <1>1, <1>2, <1>3 DEF ZoneInv, GraphInv, TableFaithful, JumpableIffValuations, Key
<1>5. QueueInv'
  BY <1>1, <1>2, <1>3 DEF ZoneInv, QueueInv
<1> QED
  BY <1>4, <1>5 DEF ZoneInv

LEMMA ProcessJumpableKeeps == ASSUME ZoneInv, ProcessJumpable PROVE ZoneInv'
<1> DEFINE conf == nodes[current]
           now == BoundDwell(conf.zone)
           next == DiscreteTransitions(conf.vertex, now)
<1>1. /\ Advance /\ current \notin removedVertices
      /\ pending' = next /\ from' = current
      /\ IF next = <<>> /\ FutureTransitions(conf.vertex, now) = <<>>
         THEN RemoveState(conf)
         ELSE UNCHANGED <<initStatesZG, removedVertices, graphVars>>
  BY DEF ProcessJumpable
<1>2. current \in 1 .. born /\ current \in Live /\ Valid(conf) /\ WellFormed(call)
  BY <1>1, AdvanceFacts
<1>3. now \in Matrix
  BY <1>2, BoundDwellType DEF Valid, Confs
<1> HIDE DEF now, conf
<1>4. next \in Seq(Successors)
  BY <1>3, TransitionsAre
<1> HIDE DEF next
<1>5. from' \in 0 .. born
  BY <1>1, <1>2 DEF ZoneInv, GraphInv
<1>6. CASE next = <<>> /\ FutureTransitions(conf.vertex, now) = <<>>
  BY <1>1, <1>5, <1>6, RemovalKeeps
<1>7. CASE ~ (next = <<>> /\ FutureTransitions(conf.vertex, now) = <<>>)
  BY <1>1, <1>2, <1>4, <1>5, <1>7, NoRemovalKeeps
<1> QED
  BY <1>6, <1>7

(* An edge added while the queue of the round may have moved on.           *)
LEMMA EdgeKeeps ==
    ASSUME ZoneInv, NEW u \in Live, NEW conf, Valid(conf), NEW w, AddEdge(u, conf, w),
           call' = call, pc' = pc, pc # "init", initStatesZG' = initStatesZG,
           removedVertices' = removedVertices,
           currentConf' \in Seq(1 .. born), Range(currentConf') \subseteq Range(currentConf),
           pending' \in Seq(Successors), from' \in {from, toZGState'[Key(conf)]},
           pending' # <<>> => from' \in Live'
    PROVE  ZoneInv'
<1>1. GraphInv /\ QueueInv /\ nextConf \in Seq(1 .. born)
  BY DEF ZoneInv, QueueInv
<1>2. /\ GraphInv' /\ Live \subseteq Live'
      /\ born' \in Nat /\ 1 .. born \subseteq 1 .. born' /\ born <= born'
      /\ nextConf' \in Seq(1 .. born')
      /\ Range(nextConf') \subseteq Range(nextConf) \cup Live'
      /\ ~ Reuse => Live' \subseteq Live \cup {born + 1}
      /\ toZGState'[Key(conf)] \in Live'
  BY <1>1, AddEdgeKeeps
<1>3. from' \in 0 .. born'
  BY <1>1, <1>2 DEF QueueInv, GraphInv
<1>4. currentConf' \in Seq(1 .. born')
  BY <1>2, InLargerRange
<1>5. ~ Reuse => removedVertices' \cap Live' = {}
  <2>1. removedVertices \subseteq 1 .. born /\ born \in Nat
    BY <1>1 DEF QueueInv, GraphInv
  <2>2. born + 1 \notin removedVertices
    BY <2>1
  <2> QED
    BY <1>1, <1>2, <2>2 DEF QueueInv
<1>6. /\ Range(nextConf') \cup Range(currentConf') \subseteq Live' \cup removedVertices'
      /\ pc' # "round" => Range(nextConf') \subseteq Live'
  BY <1>1, <1>2 DEF QueueInv
<1>7. QueueInv'
  BY <1>1, <1>2, <1>3, <1>4, <1>5, <1>6 DEF QueueInv
<1> QED
  BY <1>2, <1>7 DEF ZoneInv

(* The state that time leads to.                                           *)
LEMMA DelayFacts ==
    ASSUME WellFormed(call), NEW conf, Valid(conf)
    PROVE  /\ Valid(Delay(conf))
           /\ Delay(conf).zone = BoundDwell(Elapse(BoundDwell(conf.zone)))
           /\ Delay(conf).jumpable /\ Delay(conf).vertex = conf.vertex
<1>1. /\ conf \in Confs /\ conf.zone \in Matrix /\ conf.valuations \in Seq(Seq(Int))
  BY DEF Valid, Confs
<1>2. BoundDwell(Elapse(BoundDwell(conf.zone))) \in Matrix
  BY <1>1, BoundDwellType, ElapseIs
<1>3. /\ Append(conf.valuations, call.valuation) \in Seq(Seq(Int))
      /\ Append(conf.valuations, call.valuation) # <<>>
  <2>1. call.valuation \in Seq(Int)
    BY CallFacts
  <2> QED
    BY <1>1, <2>1, Appended, Zenon
<1> QED
  BY <1>1, <1>2, <1>3 DEF Delay, Valid, Confs

LEMMA ProcessContinuousKeeps == ASSUME ZoneInv, ProcessContinuous PROVE ZoneInv'
<1> DEFINE conf == nodes[current]
           now == BoundDwell(Elapse(BoundDwell(conf.zone)))
           next == DiscreteTransitions(conf.vertex, now)
           waited == [conf EXCEPT !.jumpable = TRUE, !.zone = now,
                                  !.valuations = Append(@, call.valuation)]
           Adds == /\ AddEdge(current, waited, One)
                   /\ pending' = IF Key(waited) \in DOMAIN toZGState THEN <<>> ELSE next
                   /\ from' = toZGState'[Key(waited)]
                   /\ UNCHANGED <<initStatesZG, removedVertices>>
           Removes == RemoveState(conf) /\ UNCHANGED <<from, pending>>
           Passes == UNCHANGED <<initStatesZG, removedVertices, from, pending, graphVars>>
<1>1. /\ Advance /\ current \notin removedVertices
      /\ Adds \/ Removes \/ Passes
  BY DEF ProcessContinuous
<1>2. /\ current \in 1 .. born /\ current \in Live /\ Valid(conf) /\ WellFormed(call)
      /\ pc' = pc /\ pc = "round" /\ call' = call /\ pending = <<>>
      /\ currentConf' \in Seq(1 .. born) /\ Range(currentConf') \subseteq Range(currentConf)
  BY <1>1, AdvanceFacts
<1>3. from \in 0 .. born
  BY DEF ZoneInv, QueueInv
<1>4. waited = Delay(conf)
  BY DEF Delay
<1> HIDE DEF conf
<1>5. now \in Matrix
  BY <1>2, BoundDwellType, ElapseIs DEF Valid, Confs
<1> HIDE DEF now
<1>6. next \in Seq(Successors) /\ <<>> \in Seq(Successors)
  BY <1>5, TransitionsAre
<1> HIDE DEF next
<1>7. Valid(waited)
  BY <1>2, <1>4, DelayFacts
<1> HIDE DEF waited
<1>8. CASE Adds
  <2>1. /\ AddEdge(current, waited, One) /\ pending' \in Seq(Successors)
        /\ from' = toZGState'[Key(waited)]
        /\ initStatesZG' = initStatesZG /\ removedVertices' = removedVertices
    BY <1>6, <1>8
  <2>2. GraphInv /\ nextConf \in Seq(1 .. born)
    BY DEF ZoneInv, QueueInv
  <2>3. toZGState'[Key(waited)] \in Live'
    BY <1>2, <1>7, <2>1, <2>2, AddEdgeKeeps
  <2> HIDE DEF Adds
  <2> QED
    BY <1>2, <1>7, <2>1, <2>3, EdgeKeeps
<1>9. CASE Removes
  BY <1>1, <1>2, <1>3, <1>9, RemovalKeeps
<1>10. CASE Passes
  BY <1>1, <1>2, <1>3, <1>6, <1>10, NoRemovalKeeps
<1> QED
  BY <1>1, <1>8, <1>9, <1>10

LEMMA AddSuccessorKeeps == ASSUME ZoneInv, AddSuccessor PROVE ZoneInv'
<1> DEFINE next == Head(pending)
           conf == [vertex |-> next.vertex, jumpable |-> FALSE,
                    zone |-> next.zone, valuations |-> <<>>]
           w == Cost(TA.label[nodes[from].vertex], nodes[from].valuations)
<1>1. /\ pending # <<>> /\ AddEdge(from, conf, w) /\ pending' = Tail(pending)
      /\ call' = call /\ pc' = pc /\ initStatesZG' = initStatesZG
      /\ currentConf' = currentConf /\ removedVertices' = removedVertices /\ from' = from
  BY DEF AddSuccessor
<1>2. /\ pending \in Seq(Successors) /\ from \in Live /\ pc # "init"
      /\ currentConf \in Seq(1 .. born)
      /\ GraphInv /\ nextConf \in Seq(1 .. born)
  BY <1>1 DEF ZoneInv, QueueInv
<1>3. next \in Successors /\ Tail(pending) \in Seq(Successors)
  BY <1>1, <1>2, RangeOfTail
<1> HIDE DEF next, w
<1>4. Valid(conf)
  <2>1. <<>> \in Seq(Seq(Int))
    OBVIOUS
  <2> QED
    BY <1>3, <2>1 DEF Successors, Valid, Confs
<1> HIDE DEF conf
<1>5. Live \subseteq Live'
  BY <1>1, <1>2, <1>4, AddEdgeKeeps
<1> QED
  BY <1>1, <1>2, <1>3, <1>4, <1>5, EdgeKeeps

LEMMA EndRoundKeeps == ASSUME ZoneInv, EndRound PROVE ZoneInv'
<1>1. /\ pc' = "loop"
      /\ nextConf' = Selected(nextConf, Range(nextConf) \ removedVertices)
      /\ call' = call /\ nodes' = nodes /\ edges' = edges /\ initStatesZG' = initStatesZG
      /\ toZGState' = toZGState /\ currentConf' = currentConf
      /\ removedVertices' = removedVertices /\ from' = from /\ pending' = pending
      /\ freed' = freed /\ born' = born
  BY DEF EndRound
<1>2. Live' = Live
  BY <1>1 DEF Live
<1>3. GraphInv'
  BY <1>1, <1>2 DEF ZoneInv, GraphInv, TableFaithful, JumpableIffValuations, Key
<1>4. QueueInv /\ nextConf \in Seq(1 .. born) /\ Range(nextConf) \subseteq Live \cup removedVertices
  BY DEF ZoneInv, QueueInv
<1>5. /\ nextConf' \in Seq(1 .. born)
      /\ Range(nextConf') = Range(nextConf) \cap (Range(nextConf) \ removedVertices)
  BY <1>1, <1>4, SelectedIs
<1>6. QueueInv'
  BY <1>1, <1>2, <1>4, <1>5 DEF QueueInv
<1> QED
  BY <1>3, <1>6 DEF ZoneInv

LEMMA NothingKeeps == ASSUME ZoneInv, Return \/ UNCHANGED vars PROVE ZoneInv'
<1>1. /\ call' = call /\ nodes' = nodes /\ edges' = edges /\ initStatesZG' = initStatesZG
      /\ toZGState' = toZGState /\ currentConf' = currentConf /\ nextConf' = nextConf
      /\ removedVertices' = removedVertices /\ from' = from /\ pending' = pending
      /\ freed' = freed /\ born' = born
      /\ pc' = pc \/ (pc' = "done" /\ pc = "loop")
  <2>1. CASE Return
    BY <2>1 DEF Return, graphVars
  <2>2. CASE UNCHANGED vars
    BY <2>2 DEF vars, graphVars
  <2> QED
    BY <2>1, <2>2
<1>2. Live' = Live
  BY <1>1 DEF Live
<1>3. GraphInv'
  BY <1>1, <1>2 DEF ZoneInv, GraphInv, TableFaithful, JumpableIffValuations, Key
<1>4. QueueInv'
  BY <1>1, <1>2 DEF ZoneInv, QueueInv
<1> QED
  BY <1>3, <1>4 DEF ZoneInv

LEMMA ZoneNext == ASSUME ZoneInv, [Next]_vars PROVE ZoneInv'
<1>1. CASE AddInit
  BY <1>1, AddInitKeeps
<1>2. CASE StartRound
  BY <1>2, StartRoundKeeps
<1>3. CASE Skip
  BY <1>3, SkipKeeps
<1>4. CASE ProcessJumpable
  BY <1>4, ProcessJumpableKeeps
<1>5. CASE ProcessContinuous
  BY <1>5, ProcessContinuousKeeps
<1>6. CASE AddSuccessor
  BY <1>6, AddSuccessorKeeps
<1>7. CASE EndRound
  BY <1>7, EndRoundKeeps
<1>8. CASE Return \/ Done \/ UNCHANGED vars
  BY <1>8, NothingKeeps DEF Done
<1> QED
  BY <1>1, <1>2, <1>3, <1>4, <1>5, <1>6, <1>7, <1>8 DEF Next

(* The graph, its table and the queues agree in every state of the         *)
(* construction (zone_graph.hh:135-393), whether or not an address is used *)
(* twice.                                                                  *)
THEOREM ZoneInvariant == Spec => []ZoneInv
<1>1. Init => ZoneInv
  BY ZoneInit
<1>2. ZoneInv /\ [Next]_vars => ZoneInv'
  BY ZoneNext
<1> QED
  BY <1>1, <1>2, PTL DEF Spec

(* Every vertex holds a configuration of the automaton with a matrix of    *)
(* bounds, and the addresses that are free are those not in use.           *)
THEOREM ZoneTypeOK == Spec => []TypeOK
<1>1. ZoneInv => TypeOK
  <2> SUFFICES ASSUME ZoneInv PROVE TypeOK
    OBVIOUS
  <2>1. /\ nextConf \in Seq(1 .. born) /\ currentConf \in Seq(1 .. born)
        /\ removedVertices \subseteq 1 .. born
    BY DEF ZoneInv, QueueInv
  <2>2. Range(nextConf) \subseteq 1 .. born /\ Range(currentConf) \subseteq 1 .. born
    BY <2>1, InRange
  <2> QED
    BY <2>1, <2>2 DEF ZoneInv, GraphInv, QueueInv, TypeOK
<1> QED
  BY <1>1, ZoneInvariant, PTL

(* Deleting a vertex leaves no reference to it behind: not in the edges,   *)
(* the initial states, the table or, once the round is over, the queue.    *)
THEOREM ZoneReferencesLive == Spec => []ReferencesLive
<1>1. ZoneInv => ReferencesLive
  <2> SUFFICES ASSUME ZoneInv PROVE ReferencesLive
    OBVIOUS
  <2>1. Range(toZGState) \subseteq Live
    BY DEF ZoneInv, GraphInv, TableFaithful, Range
  <2> QED
    BY <2>1 DEF ZoneInv, GraphInv, QueueInv, ReferencesLive
<1> QED
  BY <1>1, ZoneInvariant, PTL

(* What toZGState has for a key is a vertex with that key, and it misses   *)
(* only initial vertices that share theirs.                                *)
THEOREM ZoneTableFaithful == Spec => []TableFaithful
<1>1. ZoneInv => TableFaithful
  BY DEF ZoneInv, GraphInv
<1> QED
  BY <1>1, ZoneInvariant, PTL

(* zone_graph.hh:18-24: the flag of a vertex says whether values have been *)
(* observed since its last jump.                                           *)
THEOREM ZoneJumpableIffValuations == Spec => []JumpableIffValuations
<1>1. ZoneInv => JumpableIffValuations
  BY DEF ZoneInv, GraphInv
<1> QED
  BY <1>1, ZoneInvariant, PTL

(* A vertex that is in the graph stays in the queue (zone_graph.hh:388),   *)
(* when no address is used for a second vertex: a run shows that it is     *)
(* forgotten otherwise.                                                    *)
THEOREM ZoneOnlyRemovedForgotten == ASSUME ~ Reuse PROVE Spec => OnlyRemovedForgotten
<1> DEFINE Stays == \A v \in Range(nextConf) \cap Live :
                       pc' = "loop" => v \in Range(nextConf')
<1>1. ZoneInv /\ [Next]_vars => [Stays]_vars
  <2> SUFFICES ASSUME ZoneInv, Next, pc' = "loop", NEW v \in Range(nextConf) \cap Live
               PROVE  v \in Range(nextConf') \/ UNCHANGED vars
    OBVIOUS
  <2>1. CASE EndRound
    <3>1. /\ nextConf' = Selected(nextConf, Range(nextConf) \ removedVertices)
          /\ nextConf \in Seq(1 .. born)
          /\ removedVertices \cap Live = {}
      BY <2>1 DEF EndRound, ZoneInv, QueueInv
    <3>2. Range(nextConf') = Range(nextConf) \cap (Range(nextConf) \ removedVertices)
      BY <3>1, SelectedIs
    <3> QED
      BY <3>1, <3>2
  <2>2. CASE AddSuccessor
    <3>1. Range(nextConf) \subseteq Range(nextConf')
      <4> DEFINE next == Head(pending)
                 conf == [vertex |-> next.vertex, jumpable |-> FALSE,
                          zone |-> next.zone, valuations |-> <<>>]
      <4>1. PICK w : AddEdge(from, conf, w)
        BY <2>2 DEF AddSuccessor
      <4> HIDE DEF conf
      <4>2. CASE Key(conf) \in DOMAIN toZGState
        BY <4>1, <4>2 DEF AddEdge
      <4>3. CASE Key(conf) \notin DOMAIN toZGState
        <5>1. PICK a : nextConf' = IF conf.jumpable THEN nextConf ELSE Append(nextConf, a)
          BY <4>1, <4>3 DEF AddEdge
        <5>2. nextConf \in Seq(1 .. born)
          BY DEF ZoneInv, QueueInv
        <5> QED
          BY <5>1, <5>2, RangeOfAppend
      <4> QED
        BY <4>2, <4>3
    <3> QED
      BY <3>1
  <2>3. CASE ~ EndRound /\ ~ AddSuccessor
    <3>1. ~ AddInit /\ ~ StartRound /\ ~ Return /\ ~ Done
      BY DEF AddInit, StartRound, Return, Done, vars
    <3>2. ~ Skip /\ ~ ProcessJumpable /\ ~ ProcessContinuous
      BY DEF Skip, ProcessJumpable, ProcessContinuous, Advance
    <3> QED
      BY <2>3, <3>1, <3>2 DEF Next
  <2> QED
    BY <2>1, <2>2, <2>3
<1> QED
  BY <1>1, ZoneInvariant, PTL DEF Spec, OnlyRemovedForgotten

-----------------------------------------------------------------------------
(* The zones of a piece, and the edges as steps between them.              *)

(* What ZoneEdgesAreSteps and ZoneClosedOnReturn assume of the calls.      *)
CallFits(c, limit) ==
    WellFormed(c) /\ limit \in Nat /\ 8 * limit < Infinity /\ CallWithin(c, limit)

CallsWithin(limit) == \A c \in Calls : CallFits(c, limit)

LEMMA CallStays == [Next]_vars => call' = call
  BY DEF vars, Next, AddInit, StartRound, Skip, ProcessJumpable, ProcessContinuous, Advance,
         AddSuccessor, EndRound, Return, Done

(* The call stays the one that was made.                                   *)
LEMMA CallInvariant == Spec => [](call \in Calls)
<1>1. Init => call \in Calls
  BY DEF Init
<1>2. call \in Calls /\ [Next]_vars => (call \in Calls)'
  BY CallStays
<1> QED
  BY <1>1, <1>2, PTL DEF Spec

LEMMA CallIs ==
    ASSUME NEW limit, NEW c, CallFits(c, limit)
    PROVE  /\ Le(c.duration) \in Bound /\ Le(c.duration) \in Int /\ Le(c.duration) <= limit
           /\ Le(0) <= Le(c.duration) /\ Le(0) \in Int
           /\ limit \in Nat /\ 8 * limit < Infinity /\ 4 * limit < Infinity
           /\ T \in Var /\ 0 \in Var /\ T # 0 /\ Le(0) \in Bound
<1>1. c.duration \in Nat /\ Le(c.duration) < Infinity /\ Dim >= 2
  BY ZoneGraphAssumption DEF CallFits, WellFormed
<1>2. limit \in Nat /\ 8 * limit < Infinity /\ Le(c.duration) <= limit
  BY DEF CallFits, CallWithin
<1> QED
  BY <1>1, <1>2, DBMAssumption DEF Le, Bound, T, Var

(* Adding the bound on the dwell time to a difference from the dwell time. *)
LEMMA AddDwell ==
    ASSUME NEW a \in Bound, NEW b \in Bound, NEW limit \in Nat, limit < Infinity,
           a + b <= limit
    PROVE  Add(a, b) <= limit \/ a = Infinity \/ b = Infinity
  BY DBMAssumption DEF Add, Bound

LEMMA DwellInPiece ==
    ASSUME NEW limit, NEW c, CallFits(c, limit),
           NEW E \in Matrix, Canonical(E), AllWithin(E, limit),
           \A i \in Var : E[i][T] + Le(c.duration) <= limit,
           \A i, j \in Var : j # 0 => E[i][j] <= limit,
           \A i \in Var \ {0, T} : E[i][i] <= Le(0),
           IsSatisfiableWithoutCanonize(Dwell(c, E))
    PROVE  /\ InPiece(c, Dwell(c, E), limit)
           /\ Dwell(c, Dwell(c, E)) = Dwell(c, E)
<1> DEFINE b == Le(c.duration)
           Q == Dwell(c, E)
<1>1. /\ b \in Bound /\ b \in Int /\ b <= limit /\ limit \in Nat /\ 8 * limit < Infinity
      /\ T \in Var /\ 0 \in Var /\ T # 0 /\ Infinity \in Int /\ limit < Infinity
      /\ 1 <= b
  BY CallIs, DBMAssumption DEF Le
<1>2. /\ Q \in Matrix /\ Q[T][0] <= b
      /\ \A i, j \in Var : Q[i][j] <= E[i][j] /\ Q[i][0] <= Add(E[i][T], b)
  BY <1>1, TightenShortens DEF Dwell
<1>3. Q = Tighten(E, T, 0, b)
  BY DEF Dwell
<1>4. Canonical(Q) /\ IsSatisfiableWithoutCanonize(Q)
  <2> HIDE DEF b
  <2> QED
    BY <1>1, <1>3, TightenCanonical
<1> HIDE DEF b, Q
<1>5. \A i, j \in Var : Q[i][j] \in Int /\ E[i][j] \in Int /\ E[i][j] \in Bound /\ Q[i][j] \in Bound
  BY <1>2 DEF Matrix, Bound
<1>6. ASSUME NEW i \in Var PROVE Q[i][T] + b <= limit
  <2>1. Q[i][T] <= E[i][T] /\ E[i][T] + b <= limit
    BY <1>1, <1>2 DEF b
  <2> QED
    BY <1>1, <1>5, <2>1
<1>7. ASSUME NEW i \in Var, NEW j \in Var PROVE Q[i][j] <= limit
  <2>1. CASE j # 0
    <3>1. Q[i][j] <= E[i][j] /\ E[i][j] <= limit
      BY <1>2, <2>1
    <3> QED
      BY <1>1, <1>5, <3>1
  <2>2. CASE j = 0
    <3>1. Q[i][0] <= Add(E[i][T], b) /\ E[i][T] + b <= limit
      BY <1>1, <1>2 DEF b
    <3>2. E[i][T] # Infinity /\ b # Infinity
      BY <1>1, <1>5, <3>1
    <3>3. Add(E[i][T], b) \in Bound
      BY <1>1, <1>5, AddIsBound
    <3>4. Add(E[i][T], b) <= limit
      BY <1>1, <1>5, <3>1, <3>2, AddDwell
    <3>5. Add(E[i][T], b) \in Int /\ Q[i][0] \in Int /\ limit \in Int
      BY <1>1, <1>5, <3>3 DEF Bound
    <3>6. Q[i][0] <= limit
      BY <3>1, <3>4, <3>5
    <3> QED
      BY <2>2, <3>6
  <2> QED
    BY <2>1, <2>2
<1>8. AllWithin(Q, limit)
  BY <1>7 DEF AllWithin, Within
<1>9. Tighten(Q, T, 0, b) = Q
  BY <1>1, <1>3, <1>4, <1>8, TightenTwice
<1>10. ASSUME NEW i \in Var \ {0, T} PROVE Q[i][i] <= Le(0)
  <2>1. Q[i][i] <= E[i][i] /\ E[i][i] <= Le(0) /\ Le(0) \in Int
    BY <1>2, CallIs
  <2> QED
    BY <1>5, <2>1
<1> QED
  BY <1>2, <1>4, <1>6, <1>7, <1>9, <1>10 DEF InPiece, Dwell, Q, b

LEMMA InPieceWithin ==
    ASSUME NEW limit, NEW c, NEW Z, InPiece(c, Z, limit)
    PROVE  AllWithin(Z, limit)
  BY DEF InPiece, AllWithin, Within

(* Bounding the dwell time once more leaves a zone of the piece.           *)
LEMMA DwellAgain ==
    ASSUME NEW limit, NEW c, CallFits(c, limit), NEW Z, InPiece(c, Z, limit)
    PROVE  InPiece(c, Dwell(c, Z), limit)
<1> DEFINE b == Le(c.duration)
<1>1. /\ b \in Bound /\ b <= limit /\ limit \in Nat /\ 8 * limit < Infinity
      /\ T \in Var /\ 0 \in Var /\ T # 0 /\ limit >= Le(0)
  BY CallIs DEF Le
<1>2. /\ Z \in Matrix /\ Canonical(Z) /\ IsSatisfiableWithoutCanonize(Z) /\ Z[T][0] <= b
      /\ AllWithin(Z, limit)
  BY InPieceWithin DEF InPiece
<1>3. Add(Z[0][T], b) >= Le(0)
  <2>1. Z[0][T] \in Bound /\ Z[T][0] \in Bound /\ Z[0][T] <= Z[0][T]
    BY <1>1, <1>2 DEF Matrix, Bound
  <2>2. Add(Z[0][T], Z[T][0]) >= Le(0)
    BY <1>1, <1>2 DEF IsSatisfiableWithoutCanonize
  <2> HIDE DEF b
  <2>3. Add(Z[0][T], Z[T][0]) <= Add(Z[0][T], b)
    BY <1>1, <1>2, <2>1, AddMonotone
  <2>4. Add(Z[0][T], Z[T][0]) \in Bound /\ Add(Z[0][T], b) \in Bound /\ Le(0) \in Bound
    BY <1>1, <2>1, CallIs, AddIsBound
  <2> QED
    BY <2>2, <2>3, <2>4 DEF Bound
<1>4. IsSatisfiableWithoutCanonize(Dwell(c, Z))
  <2>1. 6 * limit < Infinity
    BY <1>1, DBMAssumption
  <2> QED
    BY <1>1, <1>2, <1>3, <2>1, TightenSatisfiable DEF Dwell
<1> QED
  BY <1>2, <1>4, DwellInPiece DEF InPiece

(* A delay that stays in the piece leads to a zone of the piece, on which  *)
(* bounding the dwell time again has no effect.                            *)
LEMMA DelayInPiece ==
    ASSUME NEW limit, NEW c, CallFits(c, limit), NEW Z, InPiece(c, Z, limit),
           IsSatisfiableWithoutCanonize(Dwell(c, Elapse(Z)))
    PROVE  /\ InPiece(c, Dwell(c, Elapse(Z)), limit)
           /\ Dwell(c, Dwell(c, Elapse(Z))) = Dwell(c, Elapse(Z))
<1> DEFINE b == Le(c.duration)
           E == Elapse(Z)
<1>1. b \in Int /\ limit \in Nat /\ T \in Var /\ 0 \in Var /\ T # 0 /\ Infinity \in Int
  BY CallIs, DBMAssumption
<1>2. Z \in Matrix /\ Canonical(Z) /\ IsSatisfiableWithoutCanonize(Z)
  BY DEF InPiece
<1>3. /\ E \in Matrix /\ Canonical(E)
      /\ \A i, j \in Var : E[i][j] =
           IF j = 0 THEN Infinity ELSE IF i = 0 THEN Strict(Z[0][j]) ELSE Z[i][j]
  BY <1>2, ElapseIs, ElapseCanonical
<1>4. \A i, j \in Var : Z[i][j] \in Int /\ E[i][j] \in Int
  BY <1>2, <1>3 DEF Matrix, Bound
<1>5. \A j \in Var : Strict(Z[0][j]) <= Z[0][j] /\ Strict(Z[0][j]) \in Int
  BY <1>1, <1>4 DEF Strict
<1> HIDE DEF E, b
<1>6. \A i, j \in Var : j # 0 => E[i][j] <= Z[i][j]
  BY <1>3, <1>4, <1>5
<1>7. \A i, j \in Var : j # 0 => E[i][j] <= limit
  <2> SUFFICES ASSUME NEW i \in Var, NEW j \in Var, j # 0 PROVE E[i][j] <= limit
    OBVIOUS
  <2>1. E[i][j] <= Z[i][j] /\ Z[i][j] <= limit
    BY <1>6 DEF InPiece
  <2> QED
    BY <1>1, <1>4, <2>1
<1>8. \A i \in Var : E[i][T] + b <= limit
  <2> SUFFICES ASSUME NEW i \in Var PROVE E[i][T] + b <= limit
    OBVIOUS
  <2>1. E[i][T] <= Z[i][T] /\ Z[i][T] + b <= limit
    BY <1>1, <1>6 DEF InPiece, b
  <2> QED
    BY <1>1, <1>4, <2>1
<1>9. AllWithin(E, limit)
  BY <1>3, <1>7 DEF AllWithin, Within
<1>10. \A i \in Var \ {0, T} : E[i][i] <= Le(0)
  BY <1>3 DEF InPiece
<1> QED
  BY <1>3, <1>7, <1>8, <1>9, <1>10, DwellInPiece DEF E, b

(* Tighter bounds on a zone of the piece.                                  *)
LEMMA InPieceMonotone ==
    ASSUME NEW limit, NEW c, CallFits(c, limit), NEW Z, InPiece(c, Z, limit),
           NEW M \in Matrix, Canonical(M), IsSatisfiableWithoutCanonize(M),
           \A i, j \in Var : M[i][j] <= Z[i][j]
    PROVE  InPiece(c, M, limit)
<1>1. \A i, j \in Var : M[i][j] \in Int /\ Z[i][j] \in Int
  BY DEF InPiece, Matrix, Bound
<1>2. Le(c.duration) \in Int /\ limit \in Int /\ T \in Var /\ 0 \in Var
  BY CallIs
<1>3. ASSUME NEW i \in Var PROVE M[i][T] + Le(c.duration) <= limit
  <2>1. M[i][T] <= Z[i][T] /\ Z[i][T] + Le(c.duration) <= limit
    BY <1>2 DEF InPiece
  <2> QED
    BY <1>1, <1>2, <2>1
<1>4. ASSUME NEW i \in Var, NEW j \in Var PROVE M[i][j] <= limit
  <2>1. M[i][j] <= Z[i][j] /\ Z[i][j] <= limit
    BY DEF InPiece
  <2> QED
    BY <1>1, <1>2, <2>1
<1>5. M[T][0] <= Le(c.duration)
  <2>1. M[T][0] <= Z[T][0] /\ Z[T][0] <= Le(c.duration)
    BY <1>2 DEF InPiece
  <2> QED
    BY <1>1, <1>2, <2>1
<1>6. ASSUME NEW i \in Var \ {0, T} PROVE M[i][i] <= Le(0)
  <2>1. M[i][i] <= Z[i][i] /\ Z[i][i] <= Le(0) /\ Le(0) \in Int
    BY CallIs DEF InPiece
  <2> QED
    BY <1>1, <2>1
<1> QED
  BY <1>3, <1>4, <1>5, <1>6 DEF InPiece

(* A reset of a clock of the automaton.                                    *)
LEMMA ResetInPiece ==
    ASSUME NEW limit, NEW c, CallFits(c, limit), NEW Z, InPiece(c, Z, limit),
           NEW x \in Var, x # 0, x # T
    PROVE  InPiece(c, Reset(Z, x), limit)
<1> DEFINE N == Aliased(Z, x)
           b == Le(c.duration)
<1>1. /\ b \in Int /\ limit \in Nat /\ T \in Var /\ 0 \in Var /\ T # 0
      /\ Le(0) <= limit /\ Le(0) \in Int /\ 4 * limit < Infinity
  BY CallIs DEF Le
<1>2. /\ Z \in Matrix /\ Canonical(Z) /\ IsSatisfiableWithoutCanonize(Z) /\ AllWithin(Z, limit)
  BY InPieceWithin DEF InPiece
<1>3. /\ N \in Matrix /\ Reset(Z, x) \in Matrix
      /\ \A i, j \in Var : Reset(Z, x)[i][j] <= N[i][j]
  BY <1>2, ResetShortens
<1>4. Canonical(Reset(Z, x)) /\ IsSatisfiableWithoutCanonize(Reset(Z, x))
  BY <1>1, <1>2, ResetCanonical
<1>5. \A i, j \in Var :
         N[i][j] = IF {i, j} \subseteq {0, x} /\ <<i, j>> # <<0, 0>> THEN Le(0)
                   ELSE IF j = x THEN Z[i][0]
                   ELSE IF i = x THEN Z[0][j]
                   ELSE Z[i][j]
  BY DEF Aliased
<1> HIDE DEF N
<1>6. /\ Z[T][0] <= b
      /\ \A i \in Var : Z[i][T] + b <= limit
      /\ \A i, j \in Var : Z[i][j] <= limit
  BY DEF InPiece
<1> HIDE DEF b
<1>7. N[T][0] <= b
  BY <1>1, <1>5, <1>6
<1>8. ASSUME NEW i \in Var PROVE N[i][T] + b <= limit
  <2>1. CASE i = x
    <3>1. N[i][T] = Z[0][T]
      BY <1>1, <1>5, <2>1
    <3> QED
      BY <1>1, <1>6, <3>1
  <2>2. CASE i # x
    <3>1. N[i][T] = Z[i][T]
      BY <1>1, <1>5, <2>2
    <3> QED
      BY <1>6, <3>1
  <2> QED
    BY <2>1, <2>2
<1>9. ASSUME NEW i \in Var, NEW j \in Var PROVE N[i][j] <= limit
  <2>1. N[i][j] \in {Le(0), Z[i][0], Z[0][j], Z[i][j]}
    BY <1>5
  <2> QED
    BY <1>1, <1>6, <2>1
<1>10. \A i, j \in Var : Reset(Z, x)[i][j] \in Int /\ N[i][j] \in Int
  BY <1>3 DEF Matrix, Bound
<1>11. ASSUME NEW i \in Var PROVE Reset(Z, x)[i][T] + b <= limit
  <2>1. Reset(Z, x)[i][T] <= N[i][T] /\ N[i][T] + b <= limit
    BY <1>1, <1>3, <1>8
  <2> QED
    BY <1>1, <1>10, <2>1
<1>12. ASSUME NEW i \in Var, NEW j \in Var PROVE Reset(Z, x)[i][j] <= limit
  <2>1. Reset(Z, x)[i][j] <= N[i][j] /\ N[i][j] <= limit
    BY <1>3, <1>9
  <2> QED
    BY <1>1, <1>10, <2>1
<1>13. Reset(Z, x)[T][0] <= b
  <2>1. Reset(Z, x)[T][0] <= N[T][0]
    BY <1>1, <1>3
  <2> QED
    BY <1>1, <1>7, <1>10, <2>1
<1>14. ASSUME NEW i \in Var \ {0, T} PROVE Reset(Z, x)[i][i] <= Le(0)
  <2>1. N[i][i] = Le(0) \/ N[i][i] = Z[i][i]
    BY <1>5
  <2>2. N[i][i] <= Le(0)
    BY <1>1, <2>1 DEF InPiece
  <2>3. Reset(Z, x)[i][i] <= N[i][i]
    BY <1>3
  <2> QED
    BY <1>1, <1>10, <2>2, <2>3
<1> QED
  BY <1>3, <1>4, <1>11, <1>12, <1>13, <1>14 DEF InPiece, b

(* A zone of the piece cut down by a guard.                                *)
LEMMA GuardInPiece ==
    ASSUME NEW limit, NEW c, CallFits(c, limit), NEW Z, InPiece(c, Z, limit),
           NEW q, NEW e \in Edges, Enabled(e, q, Z)
    PROVE  /\ Canonize(Guarded(Z, e.guard)) \in Matrix
           /\ InPiece(c, Canonize(Guarded(Z, e.guard)), limit)
<1>1. Z \in Matrix /\ limit \in Nat /\ 4 * limit < Infinity
  BY CallIs DEF InPiece
<1> DEFINE G == Guarded(Z, e.guard)
           K == Canonize(G)
<1>2. IsGuard(e.guard)
  BY EdgeFacts
<1>3. G \in Matrix /\ \A i, j \in Var : G[i][j] <= Z[i][j]
  BY <1>1, <1>2, GuardedExact
<1>4. IsSatisfiableWithoutCanonize(K)
  BY DEF Enabled, IsSatisfiable
<1> HIDE DEF G
<1>5. K \in Matrix /\ \A i, j \in Var : K[i][j] <= G[i][j]
  BY <1>3, CanonizeShortens
<1>6. \A i, j \in Var : G[i][j] <= limit /\ K[i][j] <= Z[i][j]
  <2> TAKE i \in Var, j \in Var
  <2>1. G[i][j] <= Z[i][j] /\ Z[i][j] <= limit /\ K[i][j] <= G[i][j]
    BY <1>3, <1>5 DEF InPiece
  <2>2. G[i][j] \in Int /\ Z[i][j] \in Int /\ K[i][j] \in Int
    BY <1>1, <1>3, <1>5 DEF Matrix, Bound
  <2> QED
    BY <1>1, <2>1, <2>2
<1>7. Canonical(K)
  BY <1>1, <1>3, <1>4, <1>6, CanonizeCanonical
<1> HIDE DEF K
<1>8. InPiece(c, K, limit)
  BY <1>4, <1>5, <1>6, <1>7, InPieceMonotone
<1> QED
  BY <1>5, <1>8 DEF G, K

(* A discrete transition out of a zone of the piece leads to one.          *)
LEMMA TransitionInPiece ==
    ASSUME NEW limit, NEW c, CallFits(c, limit), NEW Z, InPiece(c, Z, limit),
           NEW q, NEW s \in Range(DiscreteTransitions(q, Z))
    PROVE  InPiece(c, s.zone, limit)
<1>1. Z \in Matrix
  BY DEF InPiece
<1>2. PICK e \in Edges : /\ Enabled(e, q, Z)
                         /\ s.zone = ResetAll(Canonize(Guarded(Z, e.guard)), e.resets)
  BY <1>1, TransitionsAre
<1>3. e.resets \subseteq Var \ {0, T}
  BY EdgeFacts
<1>4. PICK K : K = Canonize(Guarded(Z, e.guard))
  OBVIOUS
<1>5. K \in Matrix /\ InPiece(c, K, limit)
  BY <1>2, <1>4, GuardInPiece
<1> DEFINE S == {M \in Matrix : InPiece(c, M, limit)}
<1>6. K \in S /\ S \subseteq Matrix
  BY <1>5
<1>7. \A M \in S : \A x \in e.resets \cap (Var \ {0}) : Reset(M, x) \in S
  BY <1>3, ResetInPiece, ResetShortens
<1>8. ResetAll(K, e.resets) \in S
  <2> HIDE DEF S
  <2> QED
    BY <1>6, <1>7, ResetAllPreserves
<1> QED
  BY <1>2, <1>4, <1>8

(* A step of the automaton from a to b, as the construction takes it in the*)
(* call c: what EdgesAreSteps says of the ends of an edge.                 *)
Waited(c, conf) ==
    [conf EXCEPT !.jumpable = TRUE, !.zone = Dwell(c, Elapse(Dwell(c, @))),
                 !.valuations = Append(@, c.valuation)]

Landed(s) == [vertex |-> s.vertex, jumpable |-> FALSE, zone |-> s.zone, valuations |-> <<>>]

Ahead(c, a) == Range(DiscreteTransitions(a.vertex, Dwell(c, a.zone)))

Moves(c, a, b, w) ==
    IF a.jumpable
    THEN /\ \E s \in Ahead(c, a) : SameState(b, Landed(s))
         /\ w = Cost(TA.label[a.vertex], a.valuations)
    ELSE SameState(b, Waited(c, a)) /\ w = One

(* Inductive with ZoneInv: what is still to be added are successors of the *)
(* vertex that is being expanded.                                          *)
StepInv(limit) ==
    /\ \A v \in Live : InPiece(call, nodes[v].zone, limit)
    /\ pending # <<>> =>
           nodes[from].jumpable /\ Range(pending) \subseteq Ahead(call, nodes[from])
    /\ \A e \in edges : Moves(call, nodes[e.src], nodes[e.dst], e.w)

LEMMA MovesAreSteps ==
    ASSUME \A e \in edges : Moves(call, nodes[e.src], nodes[e.dst], e.w)
    PROVE  EdgesAreSteps
<1> SUFFICES ASSUME NEW e \in edges
             PROVE  LET a == nodes[e.src]
                        b == nodes[e.dst]
                    IN  IF a.jumpable
                        THEN /\ \E c \in Jumps(a) : SameState(b, c)
                             /\ e.w = Cost(TA.label[a.vertex], a.valuations)
                        ELSE SameState(b, Delay(a)) /\ e.w = One
  BY DEF EdgesAreSteps
<1> DEFINE a == nodes[e.src]
           b == nodes[e.dst]
<1>1. Moves(call, a, b, e.w)
  OBVIOUS
<1>2. Delay(a) = Waited(call, a)
  BY DEF Delay, Waited, BoundDwell, Dwell
<1>3. \A s \in Ahead(call, a) : Landed(s) \in Jumps(a)
  BY DEF Ahead, Range, Landed, Jumps, BoundDwell, Dwell
<1> HIDE DEF a, b
<1>4. CASE a.jumpable
  BY <1>1, <1>3, <1>4 DEF Moves, a, b
<1>5. CASE ~ a.jumpable
  BY <1>1, <1>2, <1>5 DEF Moves, a, b
<1> QED
  BY <1>4, <1>5 DEF a, b

(* Vertices stay as they are while edges and vertices are taken away.      *)
LEMMA StepInvFewer ==
    ASSUME NEW limit, StepInv(limit), GraphInv', call' = call, edges' \subseteq edges,
           Live' \subseteq Live, \A v \in Live' : nodes'[v] = nodes[v],
           pending' # <<>> =>
               nodes'[from'].jumpable /\ Range(pending') \subseteq Ahead(call, nodes'[from'])
    PROVE  StepInv(limit)'
<1>1. \A v \in Live' : InPiece(call', nodes'[v].zone, limit)
  BY DEF StepInv
<1>2. ASSUME NEW e \in edges' PROVE Moves(call', nodes'[e.src], nodes'[e.dst], e.w)
  <2>1. e.src \in Live' /\ e.dst \in Live'
    BY DEF GraphInv
  <2> QED
    BY <2>1 DEF StepInv
<1> QED
  BY <1>1, <1>2 DEF StepInv

(* And while an edge that is a step is added, with the vertex it leads to. *)
LEMMA StepInvMore ==
    ASSUME NEW limit, StepInv(limit), GraphInv, NEW u \in Live, NEW conf, Valid(conf), NEW w,
           AddEdge(u, conf, w), call' = call, initStatesZG' = initStatesZG,
           nextConf \in Seq(1 .. born),
           InPiece(call, conf.zone, limit),
           \A b : SameState(b, conf) => Moves(call, nodes[u], b, w),
           pending' # <<>> =>
               nodes'[from'].jumpable /\ Range(pending') \subseteq Ahead(call, nodes'[from'])
    PROVE  StepInv(limit)'
<1> DEFINE d == toZGState'[Key(conf)]
           new == [src |-> u, dst |-> d, w |-> w]
<1>1. /\ Live \subseteq Live' /\ \A v \in Live : nodes'[v] = nodes[v]
      /\ Key(nodes'[d]) = Key(conf)
      /\ edges' = edges \cup {new}
      /\ d \in Live \/ nodes'[d] = conf
      /\ Live' \subseteq Live \cup {d}
  BY AddEdgeKeeps
<1>2. new.src = u /\ new.dst = d /\ new.w = w
  OBVIOUS
<1> HIDE DEF d, new
<1>3. \A v \in Live' : InPiece(call', nodes'[v].zone, limit)
  BY <1>1 DEF StepInv
<1>4. ASSUME NEW e \in edges' PROVE Moves(call', nodes'[e.src], nodes'[e.dst], e.w)
  <2>1. CASE e \in edges
    <3>1. e.src \in Live /\ e.dst \in Live
      BY <2>1 DEF GraphInv
    <3> QED
      BY <1>1, <2>1, <3>1 DEF StepInv
  <2>2. CASE e = new
    <3>1. nodes'[u] = nodes[u] /\ SameState(nodes'[d], conf)
      BY <1>1 DEF SameState
    <3> QED
      BY <1>2, <2>2, <3>1
  <2> QED
    BY <1>1, <2>1, <2>2
<1> QED
  BY <1>3, <1>4 DEF StepInv

LEMMA StepAddInit ==
    ASSUME NEW limit, CallFits(call, limit), ZoneInv, StepInv(limit), AddInit
    PROVE  StepInv(limit)'
<1> DEFINE given == call.confs[Len(nextConf) + 1]
           conf == [given.conf EXCEPT !.zone = BoundDwell(@)]
<1>1. /\ Len(nextConf) < Len(call.confs) /\ pc = "init"
      /\ call' = call /\ edges' = edges /\ pending' = pending
  BY DEF AddInit
<1>2. PICK v \in Addresses : AddVertex(v, conf)
  BY DEF AddInit
<1>3. /\ GraphInv /\ WellFormed(call) /\ pending = <<>> /\ nextConf \in Seq(1 .. born)
  BY <1>1 DEF ZoneInv, GraphInv, QueueInv
<1>4. Len(nextConf) + 1 \in DOMAIN call.confs
  BY <1>1, <1>3, CallFacts
<1>5. Valid(given.conf) /\ InPiece(call, Dwell(call, given.conf.zone), limit)
  BY <1>3, <1>4, CallFacts DEF CallFits, CallWithin
<1> HIDE DEF given
<1>6. InPiece(call, conf.zone, limit)
  BY <1>3, <1>5, ValidBounded DEF BoundDwell, Dwell
<1> HIDE DEF conf
<1>7. v \notin Live
  BY <1>3, AddressIsFresh
<1>8. Live' = Live \cup {v} /\ nodes'[v] = conf /\ \A u \in Live : nodes'[u] = nodes[u]
  BY <1>2, <1>7 DEF AddVertex, Put, Live
<1>9. \A u \in Live' : InPiece(call', nodes'[u].zone, limit)
  BY <1>1, <1>6, <1>8 DEF StepInv
<1>10. ASSUME NEW e \in edges' PROVE Moves(call', nodes'[e.src], nodes'[e.dst], e.w)
  <2>1. e \in edges /\ e.src \in Live /\ e.dst \in Live
    BY <1>1, <1>3 DEF GraphInv
  <2> QED
    BY <1>1, <1>8, <2>1 DEF StepInv
<1> QED
  BY <1>1, <1>3, <1>9, <1>10 DEF StepInv

(* A step that leaves the graph and what is pending as it is.              *)
LEMMA StepInvSame ==
    ASSUME NEW limit, StepInv(limit), call' = call, nodes' = nodes, edges' = edges,
           pending' = <<>> \/ (pending' = pending /\ from' = from)
    PROVE  StepInv(limit)'
<1>1. Live' = Live
  BY DEF Live
<1> QED
  BY <1>1 DEF StepInv

LEMMA StepProcessJumpable ==
    ASSUME NEW limit, CallFits(call, limit), ZoneInv, ZoneInv', StepInv(limit), ProcessJumpable
    PROVE  StepInv(limit)'
<1> DEFINE conf == nodes[current]
           now == BoundDwell(conf.zone)
           next == DiscreteTransitions(conf.vertex, now)
<1>1. /\ Advance /\ current \notin removedVertices /\ conf.jumpable
      /\ pending' = next /\ from' = current
      /\ IF next = <<>> /\ FutureTransitions(conf.vertex, now) = <<>>
         THEN RemoveState(conf)
         ELSE UNCHANGED <<initStatesZG, removedVertices, graphVars>>
  BY DEF ProcessJumpable
<1>2. /\ current \in Live /\ Valid(conf) /\ WellFormed(call) /\ call' = call
      /\ GraphInv /\ GraphInv' /\ removedVertices \subseteq 1 .. born
  BY <1>1, AdvanceFacts DEF ZoneInv, QueueInv
<1>3. Range(next) = Ahead(call, conf)
  BY DEF Ahead, BoundDwell, Dwell
<1> HIDE DEF conf, now, next
<1>4. CASE next = <<>> /\ FutureTransitions(conf.vertex, now) = <<>>
  <2>1. RemoveState(conf) /\ pending' = <<>>
    BY <1>1, <1>4
  <2>2. Live' \subseteq Live /\ edges' \subseteq edges /\ \A v \in Live' : nodes'[v] = nodes[v]
    BY <1>2, <2>1, RemoveStateKeeps
  <2> QED
    BY <1>2, <2>1, <2>2, StepInvFewer
<1>5. CASE ~ (next = <<>> /\ FutureTransitions(conf.vertex, now) = <<>>)
  <2>1. nodes' = nodes /\ edges' = edges
    BY <1>1, <1>5 DEF graphVars
  <2>2. Live' = Live
    BY <2>1 DEF Live
  <2>3. nodes'[from'].jumpable /\ Range(pending') \subseteq Ahead(call, nodes'[from'])
    BY <1>1, <1>3, <2>1 DEF conf
  <2> QED
    BY <1>2, <2>1, <2>2, <2>3, StepInvFewer
<1> QED
  BY <1>4, <1>5

LEMMA StepProcessContinuous ==
    ASSUME NEW limit, CallFits(call, limit), ZoneInv, ZoneInv', StepInv(limit),
           ProcessContinuous
    PROVE  StepInv(limit)'
<1> DEFINE conf == nodes[current]
           now == BoundDwell(Elapse(BoundDwell(conf.zone)))
           next == DiscreteTransitions(conf.vertex, now)
           waited == [conf EXCEPT !.jumpable = TRUE, !.zone = now,
                                  !.valuations = Append(@, call.valuation)]
           Adds == /\ IsSatisfiableWithoutCanonize(now)
                   /\ AddEdge(current, waited, One)
                   /\ pending' = IF Key(waited) \in DOMAIN toZGState THEN <<>> ELSE next
                   /\ from' = toZGState'[Key(waited)]
                   /\ UNCHANGED <<initStatesZG, removedVertices>>
           Removes == RemoveState(conf) /\ UNCHANGED <<from, pending>>
           Passes == UNCHANGED <<initStatesZG, removedVertices, from, pending, graphVars>>
<1>1. /\ Advance /\ current \notin removedVertices /\ ~ conf.jumpable
      /\ Adds \/ Removes \/ Passes
  BY DEF ProcessContinuous
<1>2. /\ current \in Live /\ Valid(conf) /\ WellFormed(call) /\ call' = call
      /\ GraphInv /\ GraphInv' /\ removedVertices \subseteq 1 .. born /\ pending = <<>>
      /\ nextConf \in Seq(1 .. born)
  BY <1>1, AdvanceFacts DEF ZoneInv, QueueInv
<1>3. InPiece(call, conf.zone, limit)
  BY <1>2 DEF StepInv
<1>4. /\ now = Dwell(call, Elapse(Dwell(call, conf.zone)))
      /\ waited = Delay(conf) /\ waited = Waited(call, conf)
  BY DEF BoundDwell, Dwell, Delay, Waited
<1> HIDE DEF conf, now
<1>5. /\ Valid(waited) /\ waited.zone = now /\ waited.jumpable /\ waited.vertex = conf.vertex
  BY <1>2, <1>4, DelayFacts DEF BoundDwell, Dwell
<1> HIDE DEF waited
<1>6. CASE Adds
  <2>1. InPiece(call, Dwell(call, conf.zone), limit)
    BY <1>2, <1>3, DwellAgain
  <2>2. InPiece(call, now, limit) /\ Dwell(call, now) = now
    BY <1>2, <1>4, <1>6, <2>1, DelayInPiece
  <2>3. \A b : SameState(b, waited) => Moves(call, nodes[current], b, One)
    BY <1>1, <1>4 DEF Moves, conf
  <2>4. AddEdge(current, waited, One) /\ initStatesZG' = initStatesZG
    BY <1>6
  <2>5. ASSUME pending' # <<>>
        PROVE  nodes'[from'].jumpable /\ Range(pending') \subseteq Ahead(call, nodes'[from'])
    <3>1. Key(waited) \notin DOMAIN toZGState /\ pending' = next /\ from' = toZGState'[Key(waited)]
      BY <1>6, <2>5
    <3>2. nodes'[from'] = waited
      BY <1>2, <1>5, <2>4, <3>1, AddEdgeKeeps
    <3>3. Range(next) = Ahead(call, waited)
      BY <1>5, <2>2 DEF Ahead
    <3> QED
      BY <1>5, <3>1, <3>2, <3>3
  <2> HIDE DEF Adds, next
  <2> QED
    BY <1>2, <1>5, <2>2, <2>3, <2>4, <2>5, StepInvMore
<1>7. CASE Removes
  <2>1. RemoveState(conf) /\ pending' = <<>>
    BY <1>2, <1>7
  <2>2. Live' \subseteq Live /\ edges' \subseteq edges /\ \A v \in Live' : nodes'[v] = nodes[v]
    BY <1>2, <2>1, RemoveStateKeeps
  <2> QED
    BY <1>2, <2>1, <2>2, StepInvFewer
<1>8. CASE Passes
  <2>1. nodes' = nodes /\ edges' = edges /\ pending' = pending /\ from' = from
    BY <1>8 DEF graphVars
  <2> QED
    BY <1>2, <2>1, StepInvSame
<1> QED
  BY <1>1, <1>6, <1>7, <1>8

LEMMA StepAddSuccessor ==
    ASSUME NEW limit, CallFits(call, limit), ZoneInv, ZoneInv', StepInv(limit), AddSuccessor
    PROVE  StepInv(limit)'
<1> DEFINE next == Head(pending)
           conf == [vertex |-> next.vertex, jumpable |-> FALSE,
                    zone |-> next.zone, valuations |-> <<>>]
           w == Cost(TA.label[nodes[from].vertex], nodes[from].valuations)
<1>1. /\ pending # <<>> /\ AddEdge(from, conf, w) /\ pending' = Tail(pending)
      /\ call' = call /\ initStatesZG' = initStatesZG /\ from' = from
  BY DEF AddSuccessor
<1>2. /\ pending \in Seq(Successors) /\ from \in Live /\ WellFormed(call)
      /\ GraphInv /\ nextConf \in Seq(1 .. born)
      /\ nodes[from].jumpable /\ Range(pending) \subseteq Ahead(call, nodes[from])
      /\ InPiece(call, nodes[from].zone, limit)
  BY <1>1 DEF ZoneInv, GraphInv, QueueInv, StepInv
<1>3. /\ next \in Successors /\ next \in Ahead(call, nodes[from])
      /\ Range(Tail(pending)) \subseteq Ahead(call, nodes[from])
  BY <1>1, <1>2, RangeOfTail
<1>4. conf = Landed(next)
  BY DEF Landed
<1> HIDE DEF next
<1>5. Valid(conf) /\ conf.zone = next.zone
  <2>1. <<>> \in Seq(Seq(Int))
    OBVIOUS
  <2> QED
    BY <1>3, <2>1 DEF Successors, Valid, Confs
<1> HIDE DEF conf
<1>6. InPiece(call, conf.zone, limit)
  <2>1. InPiece(call, Dwell(call, nodes[from].zone), limit)
    BY <1>2, DwellAgain
  <2> QED
    BY <1>2, <1>3, <1>5, <2>1, TransitionInPiece DEF Ahead
<1>7. \A b : SameState(b, conf) => Moves(call, nodes[from], b, w)
  BY <1>2, <1>3, <1>4 DEF Moves
<1>8. nodes'[from'] = nodes[from]
  BY <1>1, <1>2, <1>5, AddEdgeKeeps
<1> HIDE DEF w
<1> QED
  BY <1>1, <1>2, <1>3, <1>5, <1>6, <1>7, <1>8, StepInvMore

LEMMA StepNext ==
    ASSUME NEW limit, CallFits(call, limit), ZoneInv, StepInv(limit), [Next]_vars
    PROVE  StepInv(limit)'
<1>0. ZoneInv'
  BY ZoneNext
<1>1. CASE AddInit
  BY <1>1, StepAddInit
<1>2. CASE ProcessJumpable
  BY <1>0, <1>2, StepProcessJumpable
<1>3. CASE ProcessContinuous
  BY <1>0, <1>3, StepProcessContinuous
<1>4. CASE AddSuccessor
  BY <1>0, <1>4, StepAddSuccessor
<1>5. CASE StartRound \/ Skip \/ EndRound \/ Return \/ Done \/ UNCHANGED vars
  <2>1. call' = call /\ nodes' = nodes /\ edges' = edges /\ pending' = pending /\ from' = from
    <3>1. CASE StartRound
      BY <3>1 DEF StartRound
    <3>2. CASE Skip
      BY <3>2 DEF Skip, Advance, graphVars
    <3>3. CASE EndRound
      BY <3>3 DEF EndRound
    <3>4. CASE Return
      BY <3>4 DEF Return, graphVars
    <3>5. CASE Done \/ UNCHANGED vars
      BY <3>5 DEF Done, vars, graphVars
    <3> QED
      BY <1>5, <3>1, <3>2, <3>3, <3>4, <3>5
  <2> QED
    BY <2>1, StepInvSame
<1> QED
  BY <1>1, <1>2, <1>3, <1>4, <1>5 DEF Next

(* Every edge of the graph is a delay or a jump of the automaton, they     *)
(* alternate, and a jump costs what its source has observed, for calls with*)
(* zones as feed makes them.  That a jump of a waiting state is a jump of  *)
(* the vertex made of it, where the dwell time is bounded again, is what   *)
(* the canonical form of the zones is needed for.                          *)
THEOREM ZoneEdgesAreSteps ==
    ASSUME NEW limit, CallsWithin(limit)
    PROVE  Spec => []EdgesAreSteps
<1>1. Init => StepInv(limit)
  <2> SUFFICES ASSUME Init PROVE StepInv(limit)
    OBVIOUS
  <2>1. DOMAIN nodes = {} /\ edges = {} /\ pending = <<>>
    BY DEF Init
  <2> QED
    BY <2>1 DEF StepInv, Live
<1>2. call \in Calls /\ ZoneInv /\ StepInv(limit) /\ [Next]_vars => StepInv(limit)'
  BY StepNext DEF CallsWithin
<1>3. StepInv(limit) => EdgesAreSteps
  BY MovesAreSteps DEF StepInv
<1> QED
  BY <1>1, <1>2, <1>3, CallInvariant, ZoneInvariant, PTL DEF Spec

-----------------------------------------------------------------------------
(* Closedness.  A configuration leads on when a transition of the piece is *)
(* enabled in it; configurations with one key lead on alike.               *)

LEMMA NothingAhead ==
    ASSUME NEW q, NEW Z \in Matrix
    PROVE  /\ DiscreteTransitions(q, Z) = <<>> <=> \A e \in Edges : ~ Enabled(e, q, Z)
           /\ DiscreteTransitions(q, Z) = <<>> <=> Range(DiscreteTransitions(q, Z)) = {}
<1> DEFINE next == DiscreteTransitions(q, Z)
           On == {TA.edges[i] : i \in {j \in DOMAIN TA.edges : Enabled(TA.edges[j], q, Z)}}
           fired == Selected(TA.edges, On)
<1>1. next \in Seq(Successors)
  BY TransitionsAre
<1>2. next = <<>> <=> Range(next) = {}
  <2> HIDE DEF next
  <2>1. next # <<>> => Range(next) # {}
    BY <1>1, RangeOfTail
  <2>2. next = <<>> => Range(next) = {}
    BY DEF Range
  <2> QED
    BY <2>1, <2>2
<1>3. fired \in Seq(Edges) /\ Range(fired) = Range(TA.edges) \cap On
  BY ZoneGraphAssumption, SelectedIs
<1>4. Range(fired) = On
  BY <1>3 DEF Range
<1>5. DOMAIN next = DOMAIN fired
  BY DEF DiscreteTransitions
<1>6. Range(next) = {} <=> On = {}
  <2> HIDE DEF On, fired, next
  <2> QED
    BY <1>4, <1>5 DEF Range
<1>7. On = {} <=> \A e \in Edges : ~ Enabled(e, q, Z)
  BY DEF Edges
<1> QED
  BY <1>2, <1>6, <1>7

(* What two configurations with one key have in common.                    *)
LEMMA SameKey ==
    ASSUME NEW a, NEW b, Valid(a), Valid(b), SameState(a, b)
    PROVE  /\ a.vertex = b.vertex /\ a.jumpable = b.jumpable /\ a.valuations = b.valuations
           /\ a.zone \in Matrix /\ b.zone \in Matrix /\ SameZone(a.zone, b.zone)
<1>1. /\ a \in Confs /\ b \in Confs /\ Key(a) = Key(b)
      /\ a.zone \in Matrix /\ b.zone \in Matrix
  BY DEF Valid, SameState, Confs
<1>2. ASSUME NEW conf \in Confs
      PROVE  /\ Key(conf).vertex = conf.vertex /\ Key(conf).jumpable = conf.jumpable
             /\ Key(conf).valuations = conf.valuations
             /\ Key(conf).zone = [conf.zone EXCEPT ![0][0] = Le(0)]
  BY DEF Key, Confs
<1>3. ASSUME NEW i \in Var, NEW j \in Var, <<i, j>> # <<0, 0>>
      PROVE  a.zone[i][j] = b.zone[i][j]
  <2>1. \A F \in Matrix : [F EXCEPT ![0][0] = Le(0)][i][j] = F[i][j]
    BY <1>3 DEF Matrix
  <2>2. Key(a).zone[i][j] = a.zone[i][j] /\ Key(b).zone[i][j] = b.zone[i][j]
    BY <1>1, <1>2, <2>1
  <2> QED
    BY <1>1, <2>2
<1>4. a.vertex = b.vertex
  BY Zenon, <1>1, <1>2
<1>5. a.jumpable = b.jumpable
  BY Zenon, <1>1, <1>2
<1>6. a.valuations = b.valuations
  BY Zenon, <1>1, <1>2
<1> QED
  BY <1>1, <1>3, <1>4, <1>5, <1>6 DEF SameZone

LEMMA SameKeyAlike ==
    ASSUME NEW a, NEW b, Valid(a), Valid(b), SameState(a, b),
           IsSatisfiableWithoutCanonize(a.zone), IsSatisfiableWithoutCanonize(b.zone)
    PROVE  AlikeOrEqual(a.zone, b.zone) /\ AlikeOrEqual(b.zone, a.zone)
<1>1. a.zone \in Matrix /\ b.zone \in Matrix /\ SameZone(a.zone, b.zone)
  BY SameKey
<1>2. a.zone[0][0] >= Le(0) /\ b.zone[0][0] >= Le(0)
  BY <1>1, SatisfiableDiagonal, VarFacts
<1> QED
  BY <1>1, <1>2 DEF AlikeOrEqual, Alike, SameZone

LEMMA DwellAlike ==
    ASSUME NEW c, WellFormed(c), NEW F \in Matrix, NEW E \in Matrix, AlikeOrEqual(F, E)
    PROVE  /\ Dwell(c, F) \in Matrix /\ Dwell(c, E) \in Matrix
           /\ AlikeOrEqual(Dwell(c, F), Dwell(c, E))
<1>1. /\ c.duration \in Nat /\ Le(c.duration) < Infinity /\ Dim \in Nat /\ Dim >= 2
      /\ T \in Var /\ 0 \in Var /\ T # 0
  <2>1. c.duration \in Nat /\ Le(c.duration) < Infinity /\ Dim >= 2
    BY ZoneGraphAssumption DEF WellFormed
  <2> QED
    BY <2>1, DBMAssumption DEF T, Var
<1>2. Le(c.duration) \in Bound /\ <<T, 0>> # <<0, 0>>
  BY <1>1, DBMAssumption DEF Le, Bound
<1> QED
  BY <1>1, <1>2, TightenAlike, TightenShortens DEF Dwell

(* Nothing leads on from the one when nothing does from the other.         *)
LEMMA AheadAlike ==
    ASSUME NEW c, WellFormed(c), NEW a, NEW b, Valid(a), Valid(b), SameState(a, b),
           IsSatisfiableWithoutCanonize(a.zone), IsSatisfiableWithoutCanonize(b.zone),
           Ahead(c, a) = {}
    PROVE  Ahead(c, b) = {}
<1> DEFINE F == Dwell(c, a.zone)
           E == Dwell(c, b.zone)
<1>1. a.zone \in Matrix /\ b.zone \in Matrix /\ a.vertex = b.vertex
  BY SameKey
<1>2. F \in Matrix /\ E \in Matrix /\ AlikeOrEqual(E, F)
  BY <1>1, SameKeyAlike, DwellAlike
<1> HIDE DEF F, E
<1>3. ASSUME NEW e \in Edges PROVE ~ Enabled(e, b.vertex, E)
  <2>1. ~ Enabled(e, a.vertex, F)
    BY <1>2, NothingAhead DEF Ahead, F
  <2> QED
    BY <1>1, <1>2, <2>1, EnabledAlike, EdgeFacts
<1> QED
  BY <1>2, <1>3, NothingAhead DEF Ahead, E

(* Waiting leads from one key to one zone.                                 *)
LEMMA WaitedAlike ==
    ASSUME NEW c, WellFormed(c), NEW a, NEW b, Valid(a), Valid(b), SameState(a, b),
           IsSatisfiableWithoutCanonize(a.zone), IsSatisfiableWithoutCanonize(b.zone)
    PROVE  Waited(c, a).zone = Waited(c, b).zone /\ Waited(c, a).vertex = Waited(c, b).vertex
<1>1. /\ a.zone \in Matrix /\ b.zone \in Matrix /\ a.vertex = b.vertex
      /\ a \in Confs /\ b \in Confs
  BY SameKey DEF Valid
<1>2. /\ Dwell(c, a.zone) \in Matrix /\ Dwell(c, b.zone) \in Matrix
      /\ AlikeOrEqual(Dwell(c, a.zone), Dwell(c, b.zone))
  BY <1>1, SameKeyAlike, DwellAlike
<1>3. Elapse(Dwell(c, a.zone)) = Elapse(Dwell(c, b.zone))
  BY <1>2, ElapseAlike
<1> QED
  BY <1>1, <1>3 DEF Waited, Confs

(* A configuration from which something leads on has a satisfiable zone.   *)
LEMMA AheadSatisfiable ==
    ASSUME NEW c, WellFormed(c), NEW a, a.zone \in Matrix, Ahead(c, a) # {}
    PROVE  IsSatisfiableWithoutCanonize(a.zone) /\ IsSatisfiableWithoutCanonize(Dwell(c, a.zone))
<1> DEFINE F == Dwell(c, a.zone)
<1>1. F \in Matrix /\ \A i, j \in Var : F[i][j] <= a.zone[i][j]
  <2>1. c.duration \in Nat /\ Le(c.duration) < Infinity /\ Dim >= 2
    BY ZoneGraphAssumption DEF WellFormed
  <2>2. Le(c.duration) \in Bound /\ T \in Var /\ 0 \in Var
    BY <2>1, DBMAssumption DEF Le, Bound, T, Var
  <2> QED
    BY <2>2, TightenShortens DEF Dwell
<1> HIDE DEF F
<1>2. PICK e \in Edges : Enabled(e, a.vertex, F)
  BY <1>1, NothingAhead DEF Ahead, F
<1>3. IsSatisfiableWithoutCanonize(F)
  BY <1>1, <1>2, EdgeFacts, EnabledSatisfiable
<1> QED
  BY <1>1, <1>3, SatisfiableMonotone DEF F

(* As Stuck, of one call: time can only pass.                              *)
Halts(c, conf) ==
    /\ Ahead(c, Waited(c, conf)) = {}
    /\ IsSatisfiableWithoutCanonize(Waited(c, conf).zone) /\ ~ IsMatch(conf.vertex)

LEMMA HaltsAlike ==
    ASSUME NEW c, WellFormed(c), NEW a, NEW b, Valid(a), Valid(b), SameState(a, b),
           IsSatisfiableWithoutCanonize(a.zone), IsSatisfiableWithoutCanonize(b.zone),
           Halts(c, a)
    PROVE  Halts(c, b)
<1>1. Waited(c, a).zone = Waited(c, b).zone /\ Waited(c, a).vertex = Waited(c, b).vertex
  BY WaitedAlike
<1>2. Ahead(c, Waited(c, a)) = Ahead(c, Waited(c, b))
  BY <1>1 DEF Ahead
<1>3. a.vertex = b.vertex
  BY SameKey
<1> QED
  BY <1>1, <1>2, <1>3 DEF Halts

(* In a graph with vertices ns and edges es: an edge leads from v to conf; *)
(* and every step out of v that leads on is an edge, but for the jumps in  *)
(* rest.                                                                   *)
Joins(ns, es, v, conf) == \E e \in es : e.src = v /\ SameState(ns[e.dst], conf)

Followed(c, ns, es, v, rest) ==
    IF ns[v].jumpable
    THEN \A s \in Ahead(c, ns[v]) :
             Joins(ns, es, v, Landed(s)) \/ Halts(c, Landed(s)) \/ s \in rest
    ELSE Ahead(c, Waited(c, ns[v])) # {} => Joins(ns, es, v, Waited(c, ns[v]))

Rest(v) == IF v = from THEN Range(pending) ELSE {}

(* The inductive invariant: a vertex is queued, or all that leads on from  *)
(* it is in the graph or about to be.                                      *)
ClosedInv ==
    /\ pc # "round" => currentConf = <<>> /\ pending = <<>>
    /\ pc = "done" => nextConf = <<>>
    /\ \A v \in Live : \/ v \in Range(nextConf) \cup Range(currentConf)
                       \/ Followed(call, nodes, edges, v, Rest(v))

(* Growing the graph keeps what was followed.                              *)
LEMMA FollowedMore ==
    ASSUME NEW c, NEW ns, NEW es, NEW ms, NEW fs, NEW L, NEW v \in L,
           \A e \in es : e.dst \in L, es \subseteq fs, \A u \in L : ms[u] = ns[u],
           NEW rest, NEW more, rest \subseteq more, Followed(c, ns, es, v, rest)
    PROVE  Followed(c, ms, fs, v, more)
<1>1. ms[v] = ns[v]
  OBVIOUS
<1>2. ASSUME NEW conf, Joins(ns, es, v, conf) PROVE Joins(ms, fs, v, conf)
  BY <1>2 DEF Joins
<1> QED
  BY <1>1, <1>2 DEF Followed

(* What a removal takes from the edges of the others leads to a vertex with*)
(* the key of the state removed.                                           *)
LEMMA RemovedEdge ==
    ASSUME GraphInv, NEW conf, RemoveState(conf), NEW e \in edges, e \notin edges',
           e.src \in Live'
    PROVE  SameState(nodes[e.dst], conf)
<1>1. Key(conf) \in DOMAIN toZGState
  BY DEF RemoveState, graphVars
<1>2. /\ edges' = {f \in edges : toZGState[Key(conf)] \notin {f.src, f.dst}}
      /\ nodes' = Restrict(nodes, DOMAIN nodes \ {toZGState[Key(conf)]})
  BY <1>1 DEF RemoveState
<1>3. Live' = Live \ {toZGState[Key(conf)]}
  BY <1>2 DEF Live, Restrict
<1>4. e.dst = toZGState[Key(conf)]
  BY <1>2, <1>3
<1> QED
  BY <1>1, <1>4 DEF GraphInv, TableFaithful, SameState

(* A removal keeps what was followed: from a state that is removed nothing *)
(* leads on.                                                               *)
LEMMA FollowedFewer ==
    ASSUME NEW limit, CallFits(call, limit), GraphInv, StepInv(limit), GraphInv',
           NEW conf, Valid(conf), RemoveState(conf), IsSatisfiableWithoutCanonize(conf.zone),
           call' = call, removedVertices \subseteq 1 .. born,
           IF conf.jumpable THEN Ahead(call, conf) = {} ELSE Halts(call, conf),
           NEW v \in Live', NEW rest, Followed(call, nodes, edges, v, rest)
    PROVE  Followed(call, nodes', edges', v, rest)
<1>1. /\ Live' \subseteq Live /\ \A u \in Live' : nodes'[u] = nodes[u]
      /\ edges' \subseteq edges
  BY RemoveStateKeeps
<1>2. /\ v \in Live /\ nodes'[v] = nodes[v] /\ Valid(nodes[v]) /\ WellFormed(call)
      /\ InPiece(call, nodes[v].zone, limit) /\ nodes[v].zone \in Matrix
  BY <1>1 DEF GraphInv, JumpableIffValuations, Valid, StepInv, InPiece
<1>3. ASSUME NEW to, Joins(nodes, edges, v, to)
      PROVE  \/ Joins(nodes', edges', v, to)
             \/ Key(conf) = Key(to)
  <2>1. PICK e \in edges : e.src = v /\ SameState(nodes[e.dst], to)
    BY <1>3 DEF Joins
  <2>2. CASE e \in edges'
    <3>1. e.dst \in Live'
      BY <2>2 DEF GraphInv
    <3> QED
      BY <1>1, <2>1, <2>2, <3>1 DEF Joins
  <2>3. CASE e \notin edges'
    <3>1. SameState(nodes[e.dst], conf)
      BY <2>1, <2>3, RemovedEdge
    <3> QED
      BY <2>1, <3>1 DEF SameState
  <2> QED
    BY <2>2, <2>3
<1>4. CASE nodes[v].jumpable
  <2>1. ASSUME NEW s \in Ahead(call, nodes[v]), Key(conf) = Key(Landed(s))
        PROVE  Halts(call, Landed(s))
    <3>1. Dwell(call, nodes[v].zone) \in Matrix /\ InPiece(call, Dwell(call, nodes[v].zone), limit)
      BY <1>2, DwellAgain DEF InPiece
    <3>2. InPiece(call, s.zone, limit) /\ s \in Successors
      <4>1. s \in Range(DiscreteTransitions(nodes[v].vertex, Dwell(call, nodes[v].zone)))
        BY DEF Ahead
      <4> QED
        BY <1>2, <3>1, <4>1, TransitionInPiece, TransitionsAre, InRange
    <3>3. /\ Valid(Landed(s)) /\ Landed(s).zone = s.zone /\ ~ Landed(s).jumpable
      <4>1. <<>> \in Seq(Seq(Int))
        OBVIOUS
      <4> QED
        BY <3>2, <4>1 DEF Successors, Valid, Confs, Landed
    <3>4. SameState(conf, Landed(s)) /\ IsSatisfiableWithoutCanonize(Landed(s).zone)
      BY <2>1, <3>2, <3>3 DEF SameState, InPiece
    <3>5. ~ conf.jumpable
      BY <3>3, <3>4, SameKey
    <3> QED
      BY <1>2, <3>3, <3>4, <3>5, HaltsAlike
  <2> QED
    BY <1>2, <1>3, <1>4, <2>1 DEF Followed
<1>5. CASE ~ nodes[v].jumpable
  <2> DEFINE later == Waited(call, nodes[v])
  <2>1. Valid(later) /\ later.jumpable /\ later.zone \in Matrix
    <3>1. later = Delay(nodes[v])
      BY DEF Delay, Waited, BoundDwell, Dwell
    <3>2. Valid(Delay(nodes[v])) /\ Delay(nodes[v]).jumpable
      BY <1>2, DelayFacts
    <3>3. \A any : Valid(any) => any.zone \in Matrix
      BY DEF Valid, Confs
    <3> QED
      BY Zenon, <3>1, <3>2, <3>3
  <2>2. ASSUME Key(conf) = Key(later) PROVE Ahead(call, later) = {}
    <3> HIDE DEF later
    <3>1. SameState(conf, later)
      BY <2>2 DEF SameState
    <3>2. conf.jumpable
      BY <2>1, <3>1, SameKey
    <3> SUFFICES ASSUME IsSatisfiableWithoutCanonize(later.zone) PROVE Ahead(call, later) = {}
      BY <1>2, <2>1, AheadSatisfiable
    <3> QED
      BY <1>2, <2>1, <3>1, <3>2, AheadAlike
  <2> HIDE DEF later
  <2> QED
    BY <1>2, <1>3, <1>5, <2>2 DEF Followed, later
<1> QED
  BY <1>4, <1>5

(* A step that only moves on: every vertex that was followed still is, and *)
(* every vertex that leaves the queues is.                                 *)
LEMMA ClosedInvMoves ==
    ASSUME ClosedInv, pc' = "round" \/ (currentConf' = <<>> /\ pending' = <<>>),
           pc' # "done" \/ nextConf' = <<>>,
           \A v \in Live' : \/ v \in Range(nextConf') \cup Range(currentConf')
                            \/ Followed(call', nodes', edges', v, Rest(v)')
    PROVE  ClosedInv'
  BY DEF ClosedInv

LEMMA CloseAddInit ==
    ASSUME ZoneInv, ClosedInv, AddInit
    PROVE  ClosedInv'
<1>1. /\ pc = "init" /\ pc' = pc /\ call' = call /\ edges' = edges /\ currentConf' = currentConf
      /\ pending' = pending /\ from' = from
  BY DEF AddInit
<1>2. PICK v \in Addresses : (\E conf : AddVertex(v, conf)) /\ nextConf' = Append(nextConf, v)
  BY DEF AddInit
<1>3. /\ GraphInv /\ nextConf \in Seq(1 .. born) /\ currentConf = <<>> /\ pending = <<>>
  BY <1>1 DEF ZoneInv, QueueInv, ClosedInv
<1>4. v \notin Live
  BY <1>3, AddressIsFresh
<1>5. Live' = Live \cup {v} /\ \A u \in Live : nodes'[u] = nodes[u]
  BY <1>2, <1>4 DEF AddVertex, Put, Live
<1>6. Range(nextConf') = Range(nextConf) \cup {v}
  BY <1>2, <1>3, RangeOfAppend
<1>7. ASSUME NEW u \in Live'
      PROVE  \/ u \in Range(nextConf') \cup Range(currentConf')
             \/ Followed(call', nodes', edges', u, Rest(u)')
  <2>1. CASE u = v \/ u \in Range(nextConf) \cup Range(currentConf)
    BY <1>1, <1>6, <2>1
  <2>2. CASE u # v /\ u \notin Range(nextConf) \cup Range(currentConf)
    <3>1. u \in Live /\ Followed(call, nodes, edges, u, Rest(u))
      BY <1>5, <2>2 DEF ClosedInv
    <3>2. Rest(u)' = Rest(u)
      BY <1>1 DEF Rest
    <3>3. \A e \in edges : e.dst \in Live
      BY <1>3 DEF GraphInv
    <3>4. Followed(call, nodes', edges', u, Rest(u))
      BY <1>1, <1>5, <3>1, <3>3, FollowedMore
    <3> QED
      BY <1>1, <3>2, <3>4
  <2> QED
    BY <2>1, <2>2
<1> QED
  BY <1>1, <1>3, <1>7, ClosedInvMoves

(* Where the graph stays as it is, and nothing is pending.                 *)
LEMMA FollowedStays ==
    ASSUME ZoneInv, ClosedInv, call' = call, nodes' = nodes, edges' = edges,
           pending = <<>>, NEW v \in Live', v \notin Range(nextConf) \cup Range(currentConf)
    PROVE  v \in Live /\ Followed(call', nodes', edges', v, Rest(v)')
<1>1. v \in Live /\ Followed(call, nodes, edges, v, Rest(v))
  BY DEF Live, ClosedInv
<1>2. Rest(v) = {}
  BY DEF Rest, Range
<1>3. \A e \in edges : e.dst \in Live
  BY DEF ZoneInv, GraphInv
<1>4. {} \subseteq Rest(v)' /\ \A u \in Live : nodes'[u] = nodes[u]
  OBVIOUS
<1>5. Followed(call, nodes', edges', v, Rest(v)')
  BY <1>1, <1>2, <1>3, <1>4, FollowedMore
<1> QED
  BY <1>1, <1>5

LEMMA CloseStartRound ==
    ASSUME ZoneInv, ClosedInv, StartRound
    PROVE  ClosedInv'
<1>1. /\ pc' = "round" /\ pc # "round" /\ call' = call /\ nodes' = nodes /\ edges' = edges
      /\ currentConf' = nextConf
  BY DEF StartRound
<1>2. currentConf = <<>> /\ pending = <<>>
  BY <1>1 DEF ClosedInv
<1>3. Range(currentConf) = {}
  BY <1>2 DEF Range
<1>4. ASSUME NEW v \in Live'
      PROVE  \/ v \in Range(nextConf') \cup Range(currentConf')
             \/ Followed(call', nodes', edges', v, Rest(v)')
  BY <1>1, <1>2, <1>3, FollowedStays
<1> QED
  BY <1>1, <1>4, ClosedInvMoves

LEMMA CloseEndRound ==
    ASSUME ~ Reuse, ZoneInv, ClosedInv, EndRound
    PROVE  ClosedInv'
<1>1. /\ pc' = "loop" /\ call' = call /\ nodes' = nodes /\ edges' = edges
      /\ currentConf = <<>> /\ pending = <<>> /\ currentConf' = <<>> /\ pending' = <<>>
      /\ nextConf' = Selected(nextConf, Range(nextConf) \ removedVertices)
  BY DEF EndRound
<1>2. Live' = Live /\ nextConf \in Seq(1 .. born) /\ removedVertices \cap Live = {}
  BY <1>1 DEF Live, ZoneInv, QueueInv
<1>3. Range(nextConf') = Range(nextConf) \cap (Range(nextConf) \ removedVertices)
  BY <1>1, <1>2, SelectedIs
<1>4. ASSUME NEW v \in Live'
      PROVE  \/ v \in Range(nextConf') \cup Range(currentConf')
             \/ Followed(call', nodes', edges', v, Rest(v)')
  <2>1. CASE v \in Range(nextConf)
    BY <1>2, <1>3, <2>1
  <2>2. CASE v \notin Range(nextConf)
    <3>1. v \notin Range(currentConf)
      BY <1>1 DEF Range
    <3> QED
      BY <1>1, <2>2, <3>1, FollowedStays
  <2> QED
    BY <2>1, <2>2
<1> QED
  BY <1>1, <1>4, ClosedInvMoves

LEMMA CloseReturn ==
    ASSUME ZoneInv, ClosedInv, Return \/ UNCHANGED vars
    PROVE  ClosedInv'
<1>1. /\ call' = call /\ nodes' = nodes /\ edges' = edges /\ nextConf' = nextConf
      /\ currentConf' = currentConf /\ pending' = pending /\ from' = from
      /\ \/ pc' = pc
         \/ pc = "loop" /\ nextConf = <<>>
  BY DEF Return, vars, graphVars
<1>2. Live' = Live /\ \A v \in Live : Rest(v)' = Rest(v)
  BY <1>1 DEF Live, Rest
<1> QED
  BY <1>1, <1>2 DEF ClosedInv

(* The loop over currentConf moves on from the vertex it was at.           *)
LEMMA AdvanceLeaves ==
    ASSUME ZoneInv, Advance
    PROVE  Range(currentConf) = {current} \cup Range(currentConf')
<1>1. currentConf \in Seq(1 .. born) /\ currentConf # <<>> /\ currentConf' = Tail(currentConf)
  BY DEF ZoneInv, QueueInv, Advance
<1> QED
  BY <1>1, RangeOfTail DEF current

LEMMA CloseSkip ==
    ASSUME ~ Reuse, ZoneInv, ClosedInv, Skip
    PROVE  ClosedInv'
<1>1. /\ Advance /\ current \in removedVertices
      /\ call' = call /\ nodes' = nodes /\ edges' = edges /\ nextConf' = nextConf
      /\ pc' = "round" /\ pending = <<>>
  BY DEF Skip, Advance, graphVars
<1>2. current \notin Live /\ Live' = Live
  BY <1>1 DEF ZoneInv, QueueInv, Live
<1>3. ASSUME NEW v \in Live'
      PROVE  \/ v \in Range(nextConf') \cup Range(currentConf')
             \/ Followed(call', nodes', edges', v, Rest(v)')
  <2>1. CASE v \in Range(nextConf) \cup Range(currentConf)
    BY <1>1, <1>2, <2>1, AdvanceLeaves
  <2>2. CASE v \notin Range(nextConf) \cup Range(currentConf)
    BY <1>1, <2>2, FollowedStays
  <2> QED
    BY <2>1, <2>2
<1> QED
  BY <1>1, <1>3, ClosedInvMoves

(* A removal: of the state being processed, from which nothing leads on.   *)
LEMMA CloseRemoval ==
    ASSUME NEW limit, CallFits(call, limit), ZoneInv, ZoneInv', StepInv(limit), ClosedInv,
           Advance, NEW conf, conf = nodes[current], current \in Live, RemoveState(conf),
           pending' = <<>>, IF conf.jumpable THEN Ahead(call, conf) = {} ELSE Halts(call, conf)
    PROVE  ClosedInv'
<1>1. /\ pc' = "round" /\ call' = call /\ pending = <<>>
      /\ GraphInv /\ GraphInv' /\ removedVertices \subseteq 1 .. born
  BY DEF Advance, ZoneInv, QueueInv
<1>2. Valid(conf) /\ InPiece(call, conf.zone, limit)
  BY DEF ZoneInv, GraphInv, JumpableIffValuations, Valid, StepInv
<1>3. /\ Live' \subseteq Live /\ \A v \in Live' : nodes'[v] = nodes[v]
      /\ nextConf' = nextConf
  BY <1>1, RemoveStateKeeps
<1>4. ASSUME NEW v \in Live'
      PROVE  \/ v \in Range(nextConf') \cup Range(currentConf')
             \/ Followed(call', nodes', edges', v, Rest(v)')
  <2>1. Rest(v)' = {} /\ Rest(v) = {}
    BY <1>1 DEF Rest, Range
  <2>2. CASE v = current
    <3>1. nodes'[v] = conf
      BY <1>3, <2>2
    <3>2. Followed(call, nodes', edges', v, {})
      BY <3>1 DEF Followed, Halts
    <3> QED
      BY <1>1, <2>1, <3>2
  <2>3. CASE v # current /\ v \in Range(nextConf) \cup Range(currentConf)
    BY <1>3, <2>3, AdvanceLeaves
  <2>4. CASE v \notin Range(nextConf) \cup Range(currentConf)
    <3>1. Followed(call, nodes, edges, v, {})
      BY <1>3, <2>1, <2>4 DEF ClosedInv
    <3>2. Followed(call, nodes', edges', v, {})
      BY <1>1, <1>2, <3>1, FollowedFewer DEF InPiece
    <3> QED
      BY <1>1, <2>1, <3>2
  <2> QED
    BY <2>2, <2>3, <2>4
<1> QED
  BY <1>1, <1>4, ClosedInvMoves

LEMMA CloseProcessJumpable ==
    ASSUME NEW limit, CallFits(call, limit), ZoneInv, ZoneInv', StepInv(limit), ClosedInv,
           ProcessJumpable
    PROVE  ClosedInv'
<1> DEFINE conf == nodes[current]
           now == BoundDwell(conf.zone)
           next == DiscreteTransitions(conf.vertex, now)
<1>1. /\ Advance /\ current \notin removedVertices /\ conf.jumpable
      /\ pending' = next /\ from' = current
      /\ IF next = <<>> /\ FutureTransitions(conf.vertex, now) = <<>>
         THEN RemoveState(conf)
         ELSE UNCHANGED <<initStatesZG, removedVertices, graphVars>>
  BY DEF ProcessJumpable
<1>2. /\ current \in Live /\ call' = call /\ pending = <<>> /\ pc' = "round"
  BY <1>1, AdvanceFacts
<1>3. Range(next) = Ahead(call, conf)
  BY DEF Ahead, BoundDwell, Dwell
<1>4. CASE next = <<>> /\ FutureTransitions(conf.vertex, now) = <<>>
  <2>1. RemoveState(conf) /\ pending' = <<>>
    BY <1>1, <1>4
  <2>2. Ahead(call, conf) = {}
    BY <1>3, <1>4 DEF Range
  <2> HIDE DEF next, now
  <2> QED
    BY <1>1, <1>2, <2>1, <2>2, CloseRemoval
<1>5. CASE ~ (next = <<>> /\ FutureTransitions(conf.vertex, now) = <<>>)
  <2>1. nodes' = nodes /\ edges' = edges /\ nextConf' = nextConf
    BY <1>1, <1>5 DEF graphVars
  <2> HIDE DEF conf, now, next
  <2>2. ASSUME NEW v \in Live'
        PROVE  \/ v \in Range(nextConf') \cup Range(currentConf')
               \/ Followed(call', nodes', edges', v, Rest(v)')
    <3>1. CASE v = current
      <4>1. Rest(v)' = Ahead(call, conf)
        BY <1>1, <1>3, <3>1 DEF Rest
      <4>2. nodes'[v] = conf /\ conf.jumpable
        BY <1>1, <2>1, <3>1 DEF conf
      <4>3. Followed(call, nodes', edges', v, Ahead(call, conf))
        BY <4>2 DEF Followed
      <4> QED
        BY <1>2, <4>1, <4>3
    <3>2. CASE v # current /\ v \in Range(nextConf) \cup Range(currentConf)
      BY <1>1, <2>1, <3>2, AdvanceLeaves
    <3>3. CASE v \notin Range(nextConf) \cup Range(currentConf)
      BY <1>2, <2>1, <3>3, FollowedStays
    <3> QED
      BY <3>1, <3>2, <3>3
  <2> QED
    BY <1>2, <2>2, ClosedInvMoves
<1> QED
  BY <1>4, <1>5

(* Where the graph only grows: the vertices there are stay followed or     *)
(* queued.                                                                 *)
LEMMA CloseOthers ==
    ASSUME ZoneInv, ClosedInv, NEW u \in Live, NEW conf, Valid(conf), NEW w,
           AddEdge(u, conf, w), call' = call, initStatesZG' = initStatesZG,
           NEW v \in Live, Rest(v) \subseteq Rest(v)',
           v \notin Range(nextConf) \cup Range(currentConf)
    PROVE  Followed(call', nodes', edges', v, Rest(v)')
<1>1. GraphInv /\ nextConf \in Seq(1 .. born)
  BY DEF ZoneInv, QueueInv
<1>2. /\ \A x \in Live : nodes'[x] = nodes[x]
      /\ edges \subseteq edges'
  <2>1. /\ \A x \in Live : nodes'[x] = nodes[x]
        /\ edges' = edges \cup {[src |-> u, dst |-> toZGState'[Key(conf)], w |-> w]}
    BY <1>1, AddEdgeKeeps
  <2> QED
    BY <2>1
<1>3. Followed(call, nodes, edges, v, Rest(v))
  BY DEF ClosedInv
<1>4. \A e \in edges : e.dst \in Live
  BY <1>1 DEF GraphInv
<1>5. Followed(call, nodes', edges', v, Rest(v)')
  BY <1>2, <1>3, <1>4, FollowedMore
<1> QED
  BY <1>5

(* The edge that was asked for is there, and a new vertex that may not jump*)
(* is queued.                                                              *)
LEMMA AddEdgeJoins ==
    ASSUME ZoneInv, NEW u \in Live, NEW conf, Valid(conf), NEW w,
           AddEdge(u, conf, w), call' = call, initStatesZG' = initStatesZG
    PROVE  /\ Joins(nodes', edges', u, conf)
           /\ ~ conf.jumpable => Live' \ Live \subseteq Range(nextConf')
           /\ Range(nextConf) \subseteq Range(nextConf')
           /\ Key(conf) \in DOMAIN toZGState => Live' \subseteq Live
           /\ \A v \in Live' \ Live : v = toZGState'[Key(conf)] /\ nodes'[v] = conf
<1>1. GraphInv /\ nextConf \in Seq(1 .. born)
  BY DEF ZoneInv, QueueInv
<1> DEFINE d == toZGState'[Key(conf)]
           new == [src |-> u, dst |-> d, w |-> w]
<1>2. /\ edges' = edges \cup {new} /\ Key(nodes'[d]) = Key(conf)
      /\ Range(nextConf) \subseteq Range(nextConf')
      /\ Live' \subseteq Live \cup {d}
      /\ d \in Live \/ nodes'[d] = conf
  BY <1>1, AddEdgeKeeps
<1>3. new.src = u /\ new.dst = d
  OBVIOUS
<1>4. Key(conf) \in DOMAIN toZGState => nodes' = nodes
  BY DEF AddEdge
<1>5. ASSUME ~ conf.jumpable, NEW v \in Live' \ Live PROVE v \in Range(nextConf')
  <2>1. Key(conf) \notin DOMAIN toZGState
    BY <1>4, <1>5 DEF Live
  <2>2. PICK a \in Addresses :
           /\ AddVertex(a, conf)
           /\ nextConf' = IF conf.jumpable THEN nextConf ELSE Append(nextConf, a)
    BY <2>1 DEF AddEdge
  <2>3. v = a
    BY <1>5, <2>2 DEF AddVertex, Put, Live
  <2> QED
    BY <1>1, <1>5, <2>2, <2>3, RangeOfAppend
<1> HIDE DEF d, new
<1>6. Joins(nodes', edges', u, conf)
  BY <1>2, <1>3 DEF Joins, SameState
<1>7. Key(conf) \in DOMAIN toZGState => Live' \subseteq Live
  BY <1>4 DEF Live
<1>8. \A v \in Live' \ Live : v = d /\ nodes'[v] = conf
  BY <1>2
<1> QED
  BY <1>2, <1>5, <1>6, <1>7, <1>8 DEF d

LEMMA CloseAddSuccessor ==
    ASSUME NEW limit, ZoneInv, StepInv(limit), ClosedInv, AddSuccessor
    PROVE  ClosedInv'
<1> DEFINE next == Head(pending)
           conf == [vertex |-> next.vertex, jumpable |-> FALSE,
                    zone |-> next.zone, valuations |-> <<>>]
<1>1. /\ pending # <<>> /\ pending' = Tail(pending) /\ currentConf' = currentConf
      /\ call' = call /\ initStatesZG' = initStatesZG /\ from' = from /\ pc' = pc
      /\ \E w : AddEdge(from, conf, w)
  BY DEF AddSuccessor
<1>2. /\ pending \in Seq(Successors) /\ from \in Live /\ nodes[from].jumpable /\ pc = "round"
      /\ GraphInv /\ nextConf \in Seq(1 .. born)
  BY <1>1 DEF ZoneInv, QueueInv, StepInv, ClosedInv
<1>3. /\ next \in Successors /\ Range(pending) = {next} \cup Range(pending')
  BY <1>1, <1>2, RangeOfTail
<1>4. conf = Landed(next)
  BY DEF Landed
<1> HIDE DEF next
<1>5. Valid(conf) /\ ~ conf.jumpable
  <2>1. <<>> \in Seq(Seq(Int))
    OBVIOUS
  <2> QED
    BY <1>3, <2>1 DEF Successors, Valid, Confs
<1> HIDE DEF conf
<1>6. PICK w : AddEdge(from, conf, w)
  BY <1>1
<1>7. /\ Joins(nodes', edges', from, conf)
      /\ Live' \ Live \subseteq Range(nextConf') /\ Range(nextConf) \subseteq Range(nextConf')
  BY <1>1, <1>2, <1>5, <1>6, AddEdgeJoins
<1>8. /\ \A v \in Live : nodes'[v] = nodes[v]
      /\ edges \subseteq edges'
  <2>1. /\ \A v \in Live : nodes'[v] = nodes[v]
        /\ edges' = edges \cup {[src |-> from, dst |-> toZGState'[Key(conf)], w |-> w]}
    BY <1>1, <1>2, <1>5, <1>6, AddEdgeKeeps
  <2> QED
    BY <2>1
<1>9. ASSUME NEW v \in Live'
      PROVE  \/ v \in Range(nextConf') \cup Range(currentConf')
             \/ Followed(call', nodes', edges', v, Rest(v)')
  <2>1. CASE v \in Range(nextConf) \cup Range(currentConf) \/ v \notin Live
    BY <1>1, <1>7, <2>1
  <2>2. CASE v \in Live /\ v \notin Range(nextConf) \cup Range(currentConf) /\ v # from
    <3>1. Rest(v) \subseteq Rest(v)'
      BY <2>2 DEF Rest
    <3> QED
      BY <1>1, <1>2, <1>5, <1>6, <2>2, <3>1, CloseOthers
  <2>3. CASE v = from /\ v \notin Range(nextConf) \cup Range(currentConf)
    <3>1. Followed(call, nodes, edges, from, Range(pending))
      BY <1>2, <2>3 DEF ClosedInv, Rest
    <3>2. \A e \in edges : e.dst \in Live
      BY <1>2 DEF GraphInv
    <3>3. Followed(call, nodes', edges', from, Range(pending))
      BY <1>2, <1>8, <3>1, <3>2, FollowedMore
    <3>4. nodes'[from].jumpable
      BY <1>2, <1>8
    <3>5. Followed(call, nodes', edges', from, Range(pending'))
      BY <1>3, <1>4, <1>7, <3>3, <3>4 DEF Followed
    <3>6. Rest(v)' = Range(pending')
      BY <1>1, <2>3 DEF Rest
    <3> QED
      BY <1>1, <2>3, <3>5, <3>6
  <2> QED
    BY <2>1, <2>2, <2>3
<1> QED
  BY <1>1, <1>2, <1>9, ClosedInvMoves

LEMMA CloseProcessContinuous ==
    ASSUME NEW limit, CallFits(call, limit), ZoneInv, ZoneInv', StepInv(limit), ClosedInv,
           ProcessContinuous
    PROVE  ClosedInv'
<1> DEFINE conf == nodes[current]
           now == BoundDwell(Elapse(BoundDwell(conf.zone)))
           next == DiscreteTransitions(conf.vertex, now)
           waited == [conf EXCEPT !.jumpable = TRUE, !.zone = now,
                                  !.valuations = Append(@, call.valuation)]
           Adds == /\ IsSatisfiableWithoutCanonize(now)
                   /\ AddEdge(current, waited, One)
                   /\ pending' = IF Key(waited) \in DOMAIN toZGState THEN <<>> ELSE next
                   /\ from' = toZGState'[Key(waited)]
                   /\ UNCHANGED <<initStatesZG, removedVertices>>
           Removes == /\ IsSatisfiableWithoutCanonize(now) /\ next = <<>> /\ ~ IsMatch(conf.vertex)
                      /\ RemoveState(conf) /\ UNCHANGED <<from, pending>>
           Passes == /\ ~ IsSatisfiableWithoutCanonize(now) \/ next = <<>>
                     /\ UNCHANGED <<initStatesZG, removedVertices, from, pending, graphVars>>
<1>1. /\ Advance /\ current \notin removedVertices /\ ~ conf.jumpable
      /\ Adds \/ Removes \/ Passes
  BY DEF ProcessContinuous, FutureTransitions
<1>2. /\ current \in Live /\ Valid(conf) /\ WellFormed(call) /\ call' = call /\ pc' = "round"
      /\ GraphInv /\ pending = <<>> /\ nextConf \in Seq(1 .. born)
      /\ InPiece(call, conf.zone, limit)
  BY <1>1, AdvanceFacts DEF ZoneInv, QueueInv, StepInv
<1>3. /\ now = Dwell(call, Elapse(Dwell(call, conf.zone)))
      /\ waited = Delay(conf) /\ waited = Waited(call, conf)
  BY DEF BoundDwell, Dwell, Delay, Waited
<1>11. now = BoundDwell(Elapse(BoundDwell(conf.zone)))
  OBVIOUS
<1> HIDE DEF conf, now, waited
<1>4. /\ Valid(waited) /\ waited.zone = now /\ waited.jumpable /\ waited.vertex = conf.vertex
      /\ now \in Matrix
  <2>1. Valid(waited) /\ waited.zone = now /\ waited.jumpable /\ waited.vertex = conf.vertex
    BY <1>2, <1>3, <1>11, DelayFacts
  <2> QED
    BY <2>1 DEF Valid, Confs
\* the transitions that are listed are those of the waiting state
<1>5. ASSUME IsSatisfiableWithoutCanonize(now) PROVE Ahead(call, waited) = Range(next)
  <2>1. InPiece(call, Dwell(call, conf.zone), limit)
    BY <1>2, DwellAgain
  <2>2. Dwell(call, now) = now
    BY <1>2, <1>3, <1>5, <2>1, DelayInPiece
  <2> QED
    BY <1>4, <2>2 DEF Ahead
<1>6. Range(<<>>) = {}
  BY DEF Range
<1>7. Range(currentConf) = {current} \cup Range(currentConf')
  BY <1>1, AdvanceLeaves
<1>8. CASE Adds
  <2>1. AddEdge(current, waited, One) /\ initStatesZG' = initStatesZG
    BY <1>8
  <2>2. /\ Joins(nodes', edges', current, waited)
        /\ Range(nextConf) \subseteq Range(nextConf')
        /\ Key(waited) \in DOMAIN toZGState => Live' \subseteq Live
        /\ \A v \in Live' \ Live : v = toZGState'[Key(waited)] /\ nodes'[v] = waited
    BY <1>2, <1>4, <2>1, AddEdgeJoins
  <2>3. \A v \in Live : nodes'[v] = nodes[v]
    BY <1>2, <1>4, <2>1, AddEdgeKeeps
  <2>4. ASSUME NEW v \in Live'
        PROVE  \/ v \in Range(nextConf') \cup Range(currentConf')
               \/ Followed(call', nodes', edges', v, Rest(v)')
    <3>1. CASE v = current
      <4>1. nodes'[v] = conf
        BY <1>2, <2>3, <3>1 DEF conf
      <4>2. Followed(call, nodes', edges', v, Rest(v)')
        BY <1>1, <1>3, <2>2, <3>1, <4>1 DEF Followed
      <4> QED
        BY <1>2, <4>2
    <3>2. CASE v \notin Live
      <4>1. nodes'[v] = waited /\ v = from' /\ pending' = next
        BY <1>8, <2>2, <3>2
      <4>2. Rest(v)' = Ahead(call, waited)
        BY <1>5, <1>8, <4>1 DEF Rest
      <4>3. Followed(call, nodes', edges', v, Ahead(call, waited))
        BY <1>4, <4>1 DEF Followed
      <4> QED
        BY <1>2, <4>2, <4>3
    <3>3. CASE v \in Range(nextConf) \cup Range(currentConf) /\ v # current
      BY <1>7, <2>2, <3>3
    <3>4. CASE v \in Live /\ v \notin Range(nextConf) \cup Range(currentConf)
      <4>1. Rest(v) \subseteq Rest(v)'
        BY <1>2, <1>6 DEF Rest
      <4> QED
        BY <1>2, <1>4, <2>1, <3>4, <4>1, CloseOthers
    <3> QED
      BY <3>1, <3>2, <3>3, <3>4
  <2> QED
    BY <1>2, <2>4, ClosedInvMoves
<1>9. CASE Removes
  <2>1. /\ IsSatisfiableWithoutCanonize(now) /\ next = <<>> /\ ~ IsMatch(conf.vertex)
        /\ RemoveState(conf) /\ pending' = <<>>
    BY <1>2, <1>9
  <2>2. Halts(call, conf)
    <3>1. Ahead(call, waited) = {}
      BY <1>5, <1>6, <2>1
    <3> QED
      BY <1>3, <1>4, <2>1, <3>1 DEF Halts
  <2>3. conf = nodes[current]
    BY DEF conf
  <2> HIDE DEF Adds, Removes, Passes, next
  <2> QED
    BY <1>1, <1>2, <2>1, <2>2, <2>3, CloseRemoval
<1>10. CASE Passes
  <2>1. /\ nodes' = nodes /\ edges' = edges /\ pending' = pending /\ from' = from
        /\ nextConf' = nextConf
    BY <1>10 DEF graphVars
  <2>2. Ahead(call, waited) = {}
    <3>1. CASE IsSatisfiableWithoutCanonize(now)
      BY <1>5, <1>6, <1>10, <3>1
    <3>2. CASE ~ IsSatisfiableWithoutCanonize(now)
      BY <1>2, <1>4, <3>2, AheadSatisfiable
    <3> QED
      BY <3>1, <3>2
  <2>3. ASSUME NEW v \in Live'
        PROVE  \/ v \in Range(nextConf') \cup Range(currentConf')
               \/ Followed(call', nodes', edges', v, Rest(v)')
    <3>1. CASE v = current
      <4>1. nodes'[v] = conf
        BY <2>1, <3>1 DEF conf
      <4>2. Followed(call, nodes', edges', v, Rest(v)')
        BY <1>1, <1>3, <2>2, <4>1 DEF Followed
      <4> QED
        BY <1>2, <4>2
    <3>2. CASE v # current /\ v \in Range(nextConf) \cup Range(currentConf)
      BY <1>7, <2>1, <3>2
    <3>3. CASE v \notin Range(nextConf) \cup Range(currentConf)
      BY <1>2, <2>1, <3>3, FollowedStays
    <3> QED
      BY <3>1, <3>2, <3>3
  <2> QED
    BY <1>2, <2>3, ClosedInvMoves
<1> QED
  BY <1>1, <1>8, <1>9, <1>10

LEMMA CloseNext ==
    ASSUME ~ Reuse, NEW limit, CallFits(call, limit), ZoneInv, StepInv(limit), ClosedInv,
           [Next]_vars
    PROVE  ClosedInv'
<1>0. ZoneInv'
  BY ZoneNext
<1>1. CASE AddInit
  BY <1>1, CloseAddInit
<1>2. CASE StartRound
  BY <1>2, CloseStartRound
<1>3. CASE Skip
  BY <1>3, CloseSkip
<1>4. CASE ProcessJumpable
  BY <1>0, <1>4, CloseProcessJumpable
<1>5. CASE ProcessContinuous
  BY <1>0, <1>5, CloseProcessContinuous
<1>6. CASE AddSuccessor
  BY <1>6, CloseAddSuccessor
<1>7. CASE EndRound
  BY <1>7, CloseEndRound
<1>8. CASE Return \/ Done \/ UNCHANGED vars
  BY <1>8, CloseReturn DEF Done
<1> QED
  BY <1>1, <1>2, <1>3, <1>4, <1>5, <1>6, <1>7, <1>8 DEF Next

LEMMA FollowedIsClosed ==
    ASSUME ZoneInv, ClosedInv
    PROVE  ClosedOnReturn
<1> SUFFICES ASSUME pc = "done", NEW v \in Live
             PROVE  IF nodes[v].jumpable
                    THEN \A conf \in Jumps(nodes[v]) : Linked(v, conf) \/ Stuck(conf)
                    ELSE Jumps(Delay(nodes[v])) # {} => Linked(v, Delay(nodes[v]))
  BY DEF ClosedOnReturn
<1>1. nextConf = <<>> /\ currentConf = <<>> /\ pending = <<>>
  BY DEF ClosedInv
<1>2. Range(nextConf) = {} /\ Range(currentConf) = {} /\ Rest(v) = {}
  BY <1>1 DEF Range, Rest
<1>3. Followed(call, nodes, edges, v, {})
  BY <1>2 DEF ClosedInv
<1>4. \A conf : Delay(conf) = Waited(call, conf)
  BY DEF Delay, Waited, BoundDwell, Dwell
<1>5. ASSUME NEW a, NEW conf \in Jumps(a)
      PROVE  \E s \in Ahead(call, a) : conf = Landed(s)
  BY <1>5 DEF Jumps, Ahead, Range, Landed, BoundDwell, Dwell
<1>6. ASSUME NEW a, NEW s \in Ahead(call, a) PROVE Landed(s) \in Jumps(a)
  BY <1>6 DEF Jumps, Ahead, Range, Landed, BoundDwell, Dwell
<1>7. \A conf : Joins(nodes, edges, v, conf) => Linked(v, conf)
  BY DEF Joins, Linked
<1>8. ASSUME NEW s, Halts(call, Landed(s)) PROVE Stuck(Landed(s))
  <2>1. Jumps(Delay(Landed(s))) = {}
    BY <1>4, <1>5, <1>8 DEF Halts
  <2>2. ~ Landed(s).jumpable
    BY DEF Landed
  <2> QED
    BY <1>4, <1>8, <2>1, <2>2 DEF Stuck, Halts
<1>9. CASE nodes[v].jumpable
  BY <1>3, <1>5, <1>7, <1>8, <1>9 DEF Followed
<1>10. CASE ~ nodes[v].jumpable
  <2>1. Jumps(Delay(nodes[v])) # {} => Ahead(call, Waited(call, nodes[v])) # {}
    BY <1>4, <1>5
  <2> QED
    BY <1>3, <1>4, <1>7, <1>10, <2>1 DEF Followed
<1> QED
  BY <1>9, <1>10

(* The graph returned is closed: a delay or jump out of one of its states  *)
(* is an edge, unless nothing leads on from where it ends.  For calls with *)
(* zones as feed makes them, and an allocator that uses no address twice   *)
(* (zone_graph_reuse shows the queue lose a vertex otherwise).             *)
THEOREM ZoneClosedOnReturn ==
    ASSUME ~ Reuse, NEW limit, CallsWithin(limit)
    PROVE  Spec => []ClosedOnReturn
<1>1. Init => StepInv(limit) /\ ClosedInv
  <2> SUFFICES ASSUME Init PROVE StepInv(limit) /\ ClosedInv
    OBVIOUS
  <2>1. /\ DOMAIN nodes = {} /\ edges = {} /\ pending = <<>>
        /\ currentConf = <<>> /\ nextConf = <<>>
    BY DEF Init
  <2> QED
    BY <2>1 DEF StepInv, ClosedInv, Live
<1>2. call \in Calls /\ ZoneInv /\ StepInv(limit) /\ ClosedInv /\ [Next]_vars
        => StepInv(limit)' /\ ClosedInv'
  BY StepNext, CloseNext DEF CallsWithin
<1>3. ZoneInv /\ ClosedInv => ClosedOnReturn
  BY FollowedIsClosed
<1> QED
  BY <1>1, <1>2, <1>3, CallInvariant, ZoneInvariant, PTL DEF Spec

-----------------------------------------------------------------------------
(* Nothing is invented.  Every valuation of every vertex, at any scale, is *)
(* one that the automaton comes to on a timed run within the piece.        *)

(* A configuration with a valuation in the place of its zone, in ticks of  *)
(* which there are that many to the unit.                                  *)
Point(conf, ticks, v) ==
    [vertex |-> conf.vertex, jumpable |-> conf.jumpable, valuations |-> conf.valuations,
     ticks |-> ticks, at |-> v]

RunPoints == [vertex : Locations, jumpable : BOOLEAN, valuations : Seq(Seq(Int)),
              ticks : Positive, at : Valuation]

BeforeEnd(c, p) == p.at[T] <= p.ticks * c.duration

(* Where a run starts: in a zone of the call, within the piece.            *)
Starts(c, p) ==
    \E i \in DOMAIN c.confs : /\ p = Point(c.confs[i].conf, p.ticks, p.at) /\ p.at[0] = 0
                              /\ SatAt(p.ticks, p.at, c.confs[i].conf.zone) /\ BeforeEnd(c, p)

(* How it goes on: after a jump comes a delay, in which the values of the  *)
(* piece are observed, and after a delay a jump.                           *)
Delays(c, p, q) ==
    /\ ~ p.jumpable /\ BeforeEnd(c, q)
    /\ \E d \in Positive :
         q = [vertex |-> p.vertex, jumpable |-> TRUE,
              valuations |-> Append(p.valuations, c.valuation), ticks |-> p.ticks,
              at |-> [x \in Var |-> IF x = 0 THEN 0 ELSE p.at[x] + d]]

JumpsTo(p, q) ==
    /\ p.jumpable
    /\ \E e \in Edges :
         /\ e.src = p.vertex /\ MeetsAt(p.ticks, p.at, e.guard)
         /\ q = [vertex |-> e.dst, jumpable |-> FALSE, valuations |-> <<>>,
                 ticks |-> p.ticks, at |-> ResetPoint(p.at, e.resets)]

Steps(c, p, q) == Delays(c, p, q) \/ JumpsTo(p, q)

(* What a step from there costs: a jump, what the values seen cost.        *)
StepCost(p) == IF p.jumpable THEN Cost(TA.label[p.vertex], p.valuations) ELSE One

(* The same point, with n times as many ticks to the unit.                 *)
InTicks(n, p) == Point(p, n * p.ticks, Finer(n, p.at))

ClosedUnderRuns(c, S) ==
    \A q \in RunPoints :
        \/ Starts(c, q)
        \/ \E p \in S : Steps(c, p, q)
        \/ \E n \in Positive : InTicks(n, q) \in S
        => q \in S

OnRuns(c) == {q \in RunPoints : \A S \in SUBSET RunPoints : ClosedUnderRuns(c, S) => q \in S}

LEMMA RunsAreClosed == ASSUME NEW c PROVE ClosedUnderRuns(c, OnRuns(c))
<1> SUFFICES ASSUME NEW q \in RunPoints,
                    \/ Starts(c, q)
                    \/ \E p \in OnRuns(c) : Steps(c, p, q)
                    \/ \E n \in Positive : InTicks(n, q) \in OnRuns(c),
                    NEW S \in SUBSET RunPoints, ClosedUnderRuns(c, S)
             PROVE  q \in S
  BY DEF ClosedUnderRuns, OnRuns
<1>1. OnRuns(c) \subseteq S
  BY DEF OnRuns
<1> QED
  BY <1>1 DEF ClosedUnderRuns

LEMMA DurationIs ==
    ASSUME NEW c, WellFormed(c)
    PROVE  /\ c.duration \in Nat /\ Le(c.duration) \in Bound /\ Le(c.duration) # Infinity
           /\ Const(Le(c.duration)) = c.duration
           /\ T \in Var /\ 0 \in Var /\ T # 0
<1>1. PICK k : k = c.duration
  OBVIOUS
<1>2. k \in Nat /\ Le(k) < Infinity
  BY <1>1 DEF WellFormed
<1>3. Le(k) \in Bound /\ Le(k) # Infinity /\ Const(Le(k)) = k
  BY <1>2, DBMAssumption DEF Le, Bound, Const
<1>4. T \in Var /\ 0 \in Var /\ T # 0
  BY ZoneGraphAssumption, DBMAssumption DEF T, Var
<1> QED
  BY <1>1, <1>2, <1>3, <1>4

(* What a bounded dwell time says of a valuation.                          *)
LEMMA DwellAt ==
    ASSUME NEW c, WellFormed(c), NEW Z \in Matrix, NEW m \in Positive, NEW v \in Valuation,
           v[0] = 0, SatAt(m, v, Dwell(c, Z))
    PROVE  SatAt(m, v, Z) /\ v[T] <= m * c.duration
<1>1. PICK b : b = Le(c.duration)
  OBVIOUS
<1>2. /\ b \in Bound /\ b # Infinity /\ Const(b) = c.duration /\ c.duration \in Nat
      /\ T \in Var /\ 0 \in Var
  BY <1>1, DurationIs
<1>3. PICK Q : Q = Dwell(c, Z)
  OBVIOUS
<1>4. Q \in Matrix /\ Q[T][0] <= b /\ \A i, j \in Var : Q[i][j] <= Z[i][j]
  BY <1>1, <1>2, <1>3, TightenShortens DEF Dwell
<1>5. SatAt(m, v, Z)
  BY <1>3, <1>4, SatAtMonotone
<1>6. HoldsAt(m, v[T] - v[0], Q[T][0]) /\ v[T] - v[0] \in Int /\ Q[T][0] \in Bound
  BY <1>2, <1>3, <1>4 DEF SatAt, Valuation, Matrix
<1>7. HoldsAt(m, v[T] - v[0], b)
  <2>1. PICK a, d : a = Q[T][0] /\ d = v[T] - v[0]
    OBVIOUS
  <2> QED
    BY <1>2, <1>4, <1>6, <2>1, HoldsAtMonotone
<1>8. v[T] <= m * c.duration
  <2>1. v[T] \in Int /\ m * c.duration \in Int
    BY <1>2 DEF Valuation, Positive
  <2> QED
    BY <1>2, <1>7, <2>1 DEF HoldsAt
<1> QED
  BY <1>5, <1>8

(* A matrix that agrees with a zone but in the entry (0, 0).               *)
LEMMA SameZoneAt ==
    ASSUME NEW F \in Matrix, NEW E \in Matrix, SameZone(F, E), NEW m \in Positive,
           HoldsAt(m, 0, E[0][0]), NEW v \in Valuation, SatAt(m, v, F)
    PROVE  SatAt(m, v, E)
<1> SUFFICES ASSUME NEW i \in Var, NEW j \in Var PROVE HoldsAt(m, v[i] - v[j], E[i][j])
  BY DEF SatAt
<1>1. CASE <<i, j>> # <<0, 0>>
  <2>1. F[i][j] = E[i][j]
    BY <1>1 DEF SameZone
  <2>2. HoldsAt(m, v[i] - v[j], F[i][j])
    BY DEF SatAt
  <2> QED
    BY <2>1, <2>2
<1>2. CASE <<i, j>> = <<0, 0>>
  <2>1. i = 0 /\ j = 0 /\ v[0] \in Int
    BY <1>2, VarFacts DEF Valuation
  <2>2. v[i] - v[j] = 0
    BY <2>1
  <2> QED
    BY <2>1, <2>2
<1> QED
  BY <1>1, <1>2

(* The delay that led to a valuation.                                      *)
LEMMA DelayBack ==
    ASSUME NEW limit, NEW c, CallFits(c, limit), NEW Z, InPiece(c, Z, limit),
           NEW F \in Matrix, SameZone(F, Dwell(c, Elapse(Z))),
           NEW m \in Positive, NEW v \in Valuation, v[0] = 0, SatAt(m, v, F)
    PROVE  /\ v[T] <= m * c.duration
           /\ \E d \in Positive : Earlier(v, d) \in Valuation /\ SatAt(2 * m, Earlier(v, d), Z)
<1>1. /\ Z \in Matrix /\ Canonical(Z) /\ IsSatisfiableWithoutCanonize(Z) /\ AllWithin(Z, limit)
      /\ limit \in Nat /\ 2 * limit < Infinity /\ WellFormed(c)
  <2>1. limit \in Nat /\ 8 * limit < Infinity
    BY CallIs
  <2>2. 2 * limit < Infinity
    BY <2>1, DBMAssumption
  <2>3. AllWithin(Z, limit)
    BY InPieceWithin
  <2> QED
    BY <2>1, <2>2, <2>3 DEF InPiece, CallFits
<1>2. PICK E, Q : E = Elapse(Z) /\ Q = Dwell(c, E)
  OBVIOUS
<1>3. /\ E \in Matrix /\ \A i \in Var : E[i][0] = Infinity
      /\ Q \in Matrix /\ Q[T][0] <= Le(c.duration) /\ \A i, j \in Var : Q[i][j] <= E[i][j]
      /\ 0 \in Var /\ T \in Var /\ T # 0
  BY <1>1, <1>2, ElapseIs, TightenShortens, CallIs DEF Dwell
<1>4. SatAt(m, v, E)
  <2> SUFFICES ASSUME NEW i \in Var, NEW j \in Var PROVE HoldsAt(m, v[i] - v[j], E[i][j])
    BY DEF SatAt
  <2>1. CASE j = 0
    BY <1>3, <2>1 DEF HoldsAt
  <2>2. CASE j # 0
    <3>1. F[i][j] = Q[i][j]
      BY <1>2, <2>2 DEF SameZone
    <3>2. HoldsAt(m, v[i] - v[j], Q[i][j])
      BY <3>1 DEF SatAt
    <3>3. PICK a, b, d : a = Q[i][j] /\ b = E[i][j] /\ d = v[i] - v[j]
      OBVIOUS
    <3>4. a \in Bound /\ b \in Bound /\ a <= b /\ d \in Int
      BY <1>3, <3>3 DEF Matrix, Valuation
    <3> QED
      BY <3>2, <3>3, <3>4, HoldsAtMonotone
  <2> QED
    BY <2>1, <2>2
<1>5. v[T] <= m * c.duration
  <2>1. PICK b : b = Le(c.duration)
    OBVIOUS
  <2>2. b \in Bound /\ b # Infinity /\ Const(b) = c.duration /\ c.duration \in Nat
    BY <1>1, <2>1, DurationIs
  <2>3. F[T][0] = Q[T][0]
    BY <1>2, <1>3 DEF SameZone
  <2>4. PICK a, d : a = Q[T][0] /\ d = v[T] - v[0]
    OBVIOUS
  <2>5. HoldsAt(m, d, a) /\ a \in Bound /\ d \in Int /\ a <= b
    BY <1>3, <2>1, <2>3, <2>4 DEF SatAt, Matrix, Valuation
  <2>6. HoldsAt(m, d, b)
    BY <2>2, <2>5, HoldsAtMonotone
  <2>7. v[T] \in Int /\ d = v[T] /\ m * c.duration \in Int
    BY <1>3, <2>2, <2>4 DEF Valuation, Positive
  <2> QED
    BY <2>2, <2>6, <2>7 DEF HoldsAt
<1>6. \E d \in Positive : Earlier(v, d) \in Valuation /\ SatAt(2 * m, Earlier(v, d), Z)
  BY <1>1, <1>2, <1>4, ElapseExact
<1> QED
  BY <1>5, <1>6

(* The jump that led to one.                                               *)
LEMMA JumpBack ==
    ASSUME NEW limit, NEW c, CallFits(c, limit), NEW Z, InPiece(c, Z, limit),
           NEW q, NEW s \in Range(DiscreteTransitions(q, Z)),
           NEW m \in Positive, NEW v \in Valuation, v[0] = 0, SatAt(m, v, s.zone)
    PROVE  \E e \in Edges, n \in Positive, w \in Valuation :
              /\ e.src = q /\ e.dst = s.vertex
              /\ w[0] = 0 /\ SatAt(n * m, w, Z) /\ MeetsAt(n * m, w, e.guard)
              /\ Finer(n, v) = ResetPoint(w, e.resets)
<1>1. Z \in Matrix /\ limit \in Nat /\ 2 * limit < Infinity
  <2>1. limit \in Nat /\ 8 * limit < Infinity
    BY CallIs
  <2>2. 2 * limit < Infinity
    BY <2>1, DBMAssumption
  <2> QED
    BY <2>1, <2>2 DEF InPiece
<1>2. PICK e \in Edges : /\ Enabled(e, q, Z) /\ s.vertex = e.dst
                         /\ s.zone = ResetAll(Canonize(Guarded(Z, e.guard)), e.resets)
  BY <1>1, TransitionsAre
<1>3. IsGuard(e.guard) /\ e.resets \subseteq Var \ {0, T} /\ e.resets \subseteq Var \ {0}
  BY EdgeFacts
<1>4. PICK G, K : G = Guarded(Z, e.guard) /\ K = Canonize(G)
  OBVIOUS
<1>5. G \in Matrix /\ K \in Matrix /\ \A i, j \in Var : K[i][j] <= G[i][j]
  BY <1>1, <1>3, <1>4, GuardedExact, CanonizeShortens
<1>6. InPiece(c, K, limit)
  BY <1>2, <1>4, GuardInPiece
<1> DEFINE S == {M \in Matrix : InPiece(c, M, limit)}
<1>7. K \in S /\ S \subseteq Matrix
  BY <1>5, <1>6
<1>8. ASSUME NEW M \in S
      PROVE  /\ Canonical(M) /\ IsSatisfiableWithoutCanonize(M) /\ AllWithin(M, limit)
             /\ \A x \in e.resets : M[0][x] # Infinity /\ Reset(M, x) \in S
  <2>1. InPiece(c, M, limit) /\ M \in Matrix
    BY <1>8
  <2>2. ASSUME NEW x \in e.resets PROVE M[0][x] # Infinity /\ Reset(M, x) \in S
    <3>1. x \in Var /\ x # 0 /\ x # T /\ 0 \in Var
      BY <1>3, <2>2, VarFacts
    <3>2. M[0][x] <= limit
      BY <2>1, <3>1 DEF InPiece
    <3>3. limit < Infinity /\ Infinity \in Int
      BY <1>1, DBMAssumption
    <3>4. M[0][x] # Infinity
      BY <1>1, <3>2, <3>3
    <3>5. Reset(M, x) \in Matrix /\ InPiece(c, Reset(M, x), limit)
      BY <2>1, <3>1, ResetInPiece, ResetShortens
    <3> QED
      BY <3>4, <3>5
  <2>3. Canonical(M) /\ IsSatisfiableWithoutCanonize(M) /\ AllWithin(M, limit)
    BY <2>1, InPieceWithin DEF InPiece
  <2> HIDE DEF S
  <2> QED
    BY <2>2, <2>3
<1>9. SatAt(m, v, ResetAll(K, e.resets))
  BY <1>2, <1>4
<1>10. PICK n \in Positive, w \in Valuation :
          w[0] = 0 /\ SatAt(n * m, w, K) /\ Finer(n, v) = ResetPoint(w, e.resets)
  <2> HIDE DEF S
  <2> QED
    BY <1>1, <1>3, <1>7, <1>8, <1>9, ResetAllExact
<1>11. n * m \in Positive
  BY FinerIs
<1>12. SatAt(n * m, w, G)
  BY <1>5, <1>10, <1>11, SatAtMonotone
<1>13. SatAt(n * m, w, Z) /\ MeetsAt(n * m, w, e.guard)
  BY <1>1, <1>3, <1>4, <1>10, <1>11, <1>12, GuardedAt
<1>14. e.src = q
  BY <1>2 DEF Enabled
<1> QED
  BY <1>2, <1>10, <1>13, <1>14

(* All valuations of a configuration are on runs.                          *)
Real(c, conf) ==
    \A m \in Positive, v \in Valuation :
        v[0] = 0 /\ SatAt(m, v, conf.zone) => Point(conf, m, v) \in OnRuns(c)

LEMMA PointIs ==
    ASSUME NEW conf, Valid(conf), NEW m \in Positive, NEW v \in Valuation
    PROVE  /\ Point(conf, m, v) \in RunPoints
           /\ \A n \in Positive : /\ n * m \in Positive /\ Finer(n, v) \in Valuation
                                  /\ InTicks(n, Point(conf, m, v)) = Point(conf, n * m, Finer(n, v))
<1>1. Point(conf, m, v) \in RunPoints
  BY DEF Point, RunPoints, Valid, Confs
<1>2. ASSUME NEW n \in Positive
      PROVE  /\ n * m \in Positive /\ Finer(n, v) \in Valuation
             /\ InTicks(n, Point(conf, m, v)) = Point(conf, n * m, Finer(n, v))
  <2>1. n * m \in Positive /\ Finer(n, v) \in Valuation
    BY FinerIs
  <2>2. InTicks(n, Point(conf, m, v)) = Point(conf, n * m, Finer(n, v))
    BY DEF InTicks, Point
  <2> QED
    BY <2>1, <2>2
<1> QED
  BY <1>1, <1>2

(* A configuration of the call, bounded by the piece.                      *)
LEMMA GivenIsReal ==
    ASSUME WellFormed(call), NEW i \in DOMAIN call.confs,
           NEW conf, conf = [call.confs[i].conf EXCEPT !.zone = Dwell(call, @)]
    PROVE  Real(call, conf)
<1>1. PICK given : given = call.confs[i].conf
  OBVIOUS
<1>2. Valid(given) /\ given \in Confs /\ given.zone \in Matrix
  BY <1>1, CallFacts DEF Valid, Confs
<1>3. /\ conf.vertex = given.vertex /\ conf.jumpable = given.jumpable
      /\ conf.valuations = given.valuations /\ conf.zone = Dwell(call, given.zone)
  BY <1>1, <1>2 DEF Confs
<1> SUFFICES ASSUME NEW m \in Positive, NEW v \in Valuation, v[0] = 0, SatAt(m, v, conf.zone)
             PROVE  Point(conf, m, v) \in OnRuns(call)
  BY DEF Real
<1>4. SatAt(m, v, given.zone) /\ v[T] <= m * call.duration
  BY <1>2, <1>3, DwellAt
<1>5. PICK p : p = Point(given, m, v)
  OBVIOUS
<1>6. p.ticks = m /\ p.at = v /\ p \in RunPoints /\ Point(conf, m, v) = p
  BY <1>2, <1>3, <1>5, PointIs DEF Point
<1>7. Starts(call, p)
  BY <1>1, <1>4, <1>5, <1>6 DEF Starts, BeforeEnd
<1> QED
  BY <1>6, <1>7, RunsAreClosed DEF ClosedUnderRuns

(* A step of the graph, followed back from one of the valuations it leads  *)
(* to.                                                                     *)
LEMMA MovesBack ==
    ASSUME NEW limit, CallFits(call, limit), WellFormed(call),
           NEW a, Valid(a), InPiece(call, a.zone, limit),
           NEW b, Valid(b), NEW w, Moves(call, a, b, w),
           NEW m \in Positive, NEW v \in Valuation, v[0] = 0, SatAt(m, v, b.zone)
    PROVE  \E n \in Positive, k \in Positive, u \in Valuation :
              /\ u[0] = 0 /\ SatAt(k, u, a.zone) /\ u[T] <= k * call.duration
              /\ Point(b, n * m, Finer(n, v)) \in RunPoints
              /\ Steps(call, Point(a, k, u), Point(b, n * m, Finer(n, v)))
              /\ w = StepCost(Point(a, k, u))
<1>1. PICK Z : Z = Dwell(call, a.zone)
  OBVIOUS
<1>2. InPiece(call, Z, limit) /\ Z \in Matrix /\ a.zone \in Matrix
  BY <1>1, DwellAgain DEF InPiece
<1>3. \A k \in Positive, u \in Valuation :
         u[0] = 0 /\ SatAt(k, u, Z) => SatAt(k, u, a.zone) /\ u[T] <= k * call.duration
  BY <1>1, <1>2, DwellAt
<1>4. ASSUME NEW k \in Positive, NEW u \in Valuation
      PROVE  StepCost(Point(a, k, u)) =
                IF a.jumpable THEN Cost(TA.label[a.vertex], a.valuations) ELSE One
  BY DEF StepCost, Point
<1>5. CASE ~ a.jumpable
  <2>1. SameState(b, Waited(call, a)) /\ Valid(Waited(call, a))
    <3>1. Delay(a) = Waited(call, a)
      BY DEF Delay, Waited, BoundDwell, Dwell
    <3> QED
      BY <1>5, <3>1, DelayFacts DEF Moves
  <2>2. PICK later : later = Waited(call, a)
    OBVIOUS
  <2>3. /\ later.vertex = a.vertex /\ later.jumpable
        /\ later.valuations = Append(a.valuations, call.valuation)
        /\ later.zone = Dwell(call, Elapse(Z))
    BY <1>1, <2>2 DEF Waited, Valid, Confs
  <2>4. /\ b.vertex = a.vertex /\ b.jumpable
        /\ b.valuations = Append(a.valuations, call.valuation)
        /\ b.zone \in Matrix /\ SameZone(b.zone, Dwell(call, Elapse(Z)))
    BY <2>1, <2>2, <2>3, SameKey
  <2>5. v[T] <= m * call.duration
    BY <1>2, <2>4, DelayBack
  <2>6. PICK d \in Positive : Earlier(v, d) \in Valuation /\ SatAt(2 * m, Earlier(v, d), Z)
    BY <1>2, <2>4, DelayBack
  <2>7. PICK u : u = Earlier(v, d)
    OBVIOUS
  <2>8. /\ u \in Valuation /\ u[0] = 0 /\ 2 \in Positive /\ 2 * m \in Positive
        /\ \A x \in Var : u[x] = IF x = 0 THEN 0 ELSE 2 * v[x] - d
        /\ 0 \in Var /\ T \in Var /\ d \in Int /\ \A x \in Var : v[x] \in Int
    BY <2>6, <2>7, VarFacts, CallIs DEF Earlier, Positive, Valuation
  <2>9. PICK p, r : p = Point(a, 2 * m, u) /\ r = Point(b, 2 * m, Finer(2, v))
    OBVIOUS
  <2>10. SatAt(2 * m, u, a.zone) /\ u[T] <= (2 * m) * call.duration
    BY <1>3, <2>6, <2>7, <2>8
  <2>11. r \in RunPoints
    BY <2>8, <2>9, PointIs
  <2>12. Finer(2, v) = [x \in Var |-> IF x = 0 THEN 0 ELSE u[x] + d]
    <3>1. \A x \in Var : 2 * v[x] = IF x = 0 THEN 0 ELSE u[x] + d
      BY <2>8
    <3> QED
      BY <3>1 DEF Finer
  <2>13. BeforeEnd(call, r)
    <3>1. r.at = Finer(2, v) /\ r.ticks = 2 * m
      BY <2>9 DEF Point
    <3>2. r.at[T] = 2 * v[T]
      BY <2>8, <3>1 DEF Finer
    <3>3. (2 * m) * call.duration = 2 * (m * call.duration) /\ m * call.duration \in Int
      BY DEF Positive, WellFormed
    <3>4. 2 * v[T] <= 2 * (m * call.duration)
      BY <2>5, <2>8, <3>3
    <3> QED
      BY <3>1, <3>2, <3>3, <3>4 DEF BeforeEnd
  <2>14. r = [vertex |-> p.vertex, jumpable |-> TRUE,
              valuations |-> Append(p.valuations, call.valuation), ticks |-> p.ticks,
              at |-> [x \in Var |-> IF x = 0 THEN 0 ELSE p.at[x] + d]]
    <3>1. p.vertex = a.vertex /\ p.valuations = a.valuations /\ p.at = u /\ p.ticks = 2 * m
      BY <2>9 DEF Point
    <3>2. b.jumpable = TRUE
      BY <2>4 DEF Valid, Confs
    <3>3. r = [vertex |-> a.vertex, jumpable |-> TRUE,
               valuations |-> Append(a.valuations, call.valuation),
               ticks |-> 2 * m, at |-> [x \in Var |-> IF x = 0 THEN 0 ELSE u[x] + d]]
      BY <2>4, <2>9, <2>12, <3>2 DEF Point
    <3> QED
      BY <3>1, <3>3
  <2>15. ~ p.jumpable
    BY <1>5, <2>9 DEF Point
  <2>16. Delays(call, p, r)
    BY <2>13, <2>14, <2>15 DEF Delays
  <2>17. w = StepCost(p)
    BY <1>4, <1>5, <2>8, <2>9 DEF Moves
  <2> QED
    BY <2>8, <2>9, <2>10, <2>11, <2>16, <2>17 DEF Steps
<1>6. CASE a.jumpable
  <2>1. PICK s \in Ahead(call, a) : SameState(b, Landed(s))
    BY <1>6 DEF Moves
  <2>2. /\ s \in Range(DiscreteTransitions(a.vertex, Z)) /\ s \in Successors
        /\ InPiece(call, s.zone, limit)
    <3>1. s \in Range(DiscreteTransitions(a.vertex, Z))
      BY <1>1, <2>1 DEF Ahead
    <3>2. DiscreteTransitions(a.vertex, Z) \in Seq(Successors)
      BY <1>2, TransitionsAre
    <3>3. s \in Successors
      BY <3>1, <3>2, InRange
    <3>4. InPiece(call, s.zone, limit)
      BY <1>2, <3>1, TransitionInPiece
    <3> QED
      BY <3>1, <3>3, <3>4
  <2>3. Valid(Landed(s)) /\ Landed(s).vertex = s.vertex /\ ~ Landed(s).jumpable
        /\ Landed(s).valuations = <<>> /\ Landed(s).zone = s.zone
    <3>1. <<>> \in Seq(Seq(Int))
      OBVIOUS
    <3> QED
      BY <2>2, <3>1 DEF Landed, Valid, Confs, Successors
  <2>4. /\ b.vertex = s.vertex /\ b.jumpable = FALSE /\ b.valuations = <<>>
        /\ b.zone \in Matrix /\ s.zone \in Matrix /\ SameZone(b.zone, s.zone)
    <3>1. PICK l : l = Landed(s)
      OBVIOUS
    <3>2. l.jumpable = FALSE
      BY <3>1 DEF Landed
    <3> QED
      BY <2>1, <2>3, <3>1, <3>2, SameKey
  <2>5. HoldsAt(m, 0, s.zone[0][0])
    BY <2>2, <2>4, VarFacts, DiagonalHolds DEF InPiece
  <2>6. SatAt(m, v, s.zone)
    BY <2>4, <2>5, SameZoneAt
  <2>7. PICK e \in Edges, n \in Positive, u \in Valuation :
          /\ e.src = a.vertex /\ e.dst = s.vertex
          /\ u[0] = 0 /\ SatAt(n * m, u, Z) /\ MeetsAt(n * m, u, e.guard)
          /\ Finer(n, v) = ResetPoint(u, e.resets)
    BY <1>2, <2>2, <2>6, JumpBack
  <2>8. n * m \in Positive
    BY FinerIs
  <2>9. PICK p, r : p = Point(a, n * m, u) /\ r = Point(b, n * m, Finer(n, v))
    OBVIOUS
  <2>10. SatAt(n * m, u, a.zone) /\ u[T] <= (n * m) * call.duration
    BY <1>3, <2>7, <2>8
  <2>11. r \in RunPoints
    <3>1. Finer(n, v) \in Valuation
      BY FinerIs
    <3> QED
      BY <2>8, <2>9, <3>1, PointIs
  <2>12. r = [vertex |-> e.dst, jumpable |-> FALSE, valuations |-> <<>>,
              ticks |-> p.ticks, at |-> ResetPoint(p.at, e.resets)]
    <3>1. p.ticks = n * m /\ p.at = u
      BY <2>9 DEF Point
    <3>2. r = [vertex |-> e.dst, jumpable |-> FALSE, valuations |-> <<>>,
               ticks |-> n * m, at |-> ResetPoint(u, e.resets)]
      BY <2>4, <2>7, <2>9 DEF Point
    <3> QED
      BY <3>1, <3>2
  <2>13. p.jumpable /\ e.src = p.vertex /\ MeetsAt(p.ticks, p.at, e.guard)
    BY <1>6, <2>7, <2>9 DEF Point
  <2>14. JumpsTo(p, r)
    BY <2>12, <2>13 DEF JumpsTo
  <2>15. w = StepCost(p)
    BY <1>4, <1>6, <2>8, <2>9 DEF Moves
  <2> QED
    BY <2>7, <2>8, <2>9, <2>10, <2>11, <2>14, <2>15 DEF Steps
<1> QED
  BY <1>5, <1>6

(* A step from a configuration whose valuations are all on runs.           *)
LEMMA MovesToReal ==
    ASSUME NEW limit, CallFits(call, limit), WellFormed(call),
           NEW a, Valid(a), InPiece(call, a.zone, limit), Real(call, a),
           NEW b, Valid(b), NEW w, Moves(call, a, b, w)
    PROVE  Real(call, b)
<1> SUFFICES ASSUME NEW m \in Positive, NEW v \in Valuation, v[0] = 0, SatAt(m, v, b.zone)
             PROVE  Point(b, m, v) \in OnRuns(call)
  BY DEF Real
<1>1. PICK n \in Positive, k \in Positive, u \in Valuation :
         /\ u[0] = 0 /\ SatAt(k, u, a.zone)
         /\ Point(b, n * m, Finer(n, v)) \in RunPoints
         /\ Steps(call, Point(a, k, u), Point(b, n * m, Finer(n, v)))
  BY MovesBack
<1>2. PICK p, r : p = Point(a, k, u) /\ r = Point(b, n * m, Finer(n, v))
  OBVIOUS
<1>3. p \in OnRuns(call)
  BY <1>1, <1>2 DEF Real
<1>4. r \in OnRuns(call)
  BY <1>1, <1>2, <1>3, RunsAreClosed DEF ClosedUnderRuns
<1>5. Point(b, m, v) \in RunPoints /\ InTicks(n, Point(b, m, v)) = r
  BY <1>2, PointIs
<1> QED
  BY <1>4, <1>5, RunsAreClosed DEF ClosedUnderRuns

PointsReached == \A v \in Live : Real(call, nodes[v])

VerticesHaveRuns ==
    \A v \in Live : \E m \in Positive, u \in Valuation : Point(nodes[v], m, u) \in OnRuns(call)

(* addEdge, when the edge is a step.                                       *)
LEMMA AddEdgeReal ==
    ASSUME NEW limit, CallFits(call, limit), GraphInv, StepInv(limit), StepInv(limit)',
           PointsReached, NEW u \in Live, NEW conf, Valid(conf), NEW w, AddEdge(u, conf, w),
           call' = call, initStatesZG' = initStatesZG, nextConf \in Seq(1 .. born)
    PROVE  PointsReached'
<1> DEFINE d == toZGState'[Key(conf)]
           new == [src |-> u, dst |-> d, w |-> w]
<1>1. /\ GraphInv' /\ Live \subseteq Live' /\ \A v \in Live : nodes'[v] = nodes[v]
      /\ edges' = edges \cup {new} /\ d \in Live' /\ Live' \subseteq Live \cup {d}
  BY AddEdgeKeeps
<1>2. new.src = u /\ new.dst = d /\ new.w = w
  OBVIOUS
<1> HIDE DEF d, new
<1>3. Moves(call, nodes[u], nodes'[d], w)
  <2>1. Moves(call', nodes'[new.src], nodes'[new.dst], new.w)
    BY <1>1 DEF StepInv
  <2> QED
    BY <1>1, <1>2, <2>1
<1>4. Valid(nodes[u]) /\ Valid(nodes'[d]) /\ WellFormed(call)
  BY <1>1 DEF GraphInv, JumpableIffValuations, Valid
<1>5. InPiece(call, nodes[u].zone, limit) /\ Real(call, nodes[u])
  BY DEF StepInv, PointsReached
<1>6. Real(call, nodes'[d])
  BY <1>3, <1>4, <1>5, MovesToReal
<1>7. ASSUME NEW v \in Live' PROVE Real(call', nodes'[v])
  <2>1. CASE v \in Live
    BY <1>1, <2>1 DEF PointsReached
  <2>2. CASE v = d
    BY <1>6, <2>2
  <2> QED
    BY <1>1, <2>1, <2>2
<1> QED
  BY <1>7 DEF PointsReached

(* A step that adds no vertex.                                             *)
LEMMA FewerReal ==
    ASSUME PointsReached, call' = call, Live' \subseteq Live, \A v \in Live' : nodes'[v] = nodes[v]
    PROVE  PointsReached'
  BY DEF PointsReached

LEMMA ReachedNext ==
    ASSUME NEW limit, CallFits(call, limit), ZoneInv, StepInv(limit), StepInv(limit)',
           PointsReached, [Next]_vars
    PROVE  PointsReached'
<1>0. /\ call' = call /\ GraphInv /\ WellFormed(call) /\ nextConf \in Seq(1 .. born)
      /\ removedVertices \subseteq 1 .. born
  BY CallStays DEF ZoneInv, GraphInv, QueueInv
<1>1. CASE AddInit
  <2> DEFINE i == Len(nextConf) + 1
             conf == [call.confs[i].conf EXCEPT !.zone = BoundDwell(@)]
  <2>1. Len(nextConf) < Len(call.confs) /\ \E v \in Addresses : AddVertex(v, conf)
    BY <1>1 DEF AddInit
  <2>2. PICK v \in Addresses : AddVertex(v, conf)
    BY <2>1
  <2>3. i \in DOMAIN call.confs
    BY <1>0, <2>1, CallFacts
  <2>4. conf = [call.confs[i].conf EXCEPT !.zone = Dwell(call, @)]
    BY DEF BoundDwell, Dwell
  <2> HIDE DEF conf, i
  <2>5. Real(call, conf)
    BY <1>0, <2>3, <2>4, GivenIsReal
  <2>6. v \notin Live
    BY <1>0, AddressIsFresh
  <2>7. Live' = Live \cup {v} /\ nodes'[v] = conf /\ \A u \in Live : nodes'[u] = nodes[u]
    BY <2>2, <2>6 DEF AddVertex, Put, Live
  <2> QED
    BY <1>0, <2>5, <2>7 DEF PointsReached
<1>2. CASE ProcessJumpable
  <2>1. RemoveState(nodes[current]) \/ UNCHANGED graphVars
    BY <1>2 DEF ProcessJumpable
  <2>2. CASE RemoveState(nodes[current])
    <3>1. Live' \subseteq Live /\ \A v \in Live' : nodes'[v] = nodes[v]
      BY <1>0, <2>2, RemoveStateKeeps
    <3> QED
      BY <1>0, <3>1, FewerReal
  <2>3. CASE UNCHANGED graphVars
    <3>1. nodes' = nodes
      BY <2>3 DEF graphVars
    <3> QED
      BY <1>0, <3>1, FewerReal DEF Live
  <2> QED
    BY <2>1, <2>2, <2>3
<1>3. CASE ProcessContinuous
  <2> DEFINE conf == nodes[current]
             now == BoundDwell(Elapse(BoundDwell(conf.zone)))
             waited == [conf EXCEPT !.jumpable = TRUE, !.zone = now,
                                    !.valuations = Append(@, call.valuation)]
             Adds == AddEdge(current, waited, One) /\ UNCHANGED <<initStatesZG, removedVertices>>
  <2>1. /\ Advance /\ current \notin removedVertices
        /\ Adds \/ RemoveState(conf) \/ UNCHANGED graphVars
    BY <1>3 DEF ProcessContinuous
  <2>2. current \in Live /\ Valid(conf)
    BY <2>1, AdvanceFacts
  <2>3. waited = Delay(conf)
    BY DEF Delay
  <2> HIDE DEF conf, now, waited
  <2>4. CASE Adds
    <3>1. Valid(waited)
      BY <1>0, <2>2, <2>3, DelayFacts
    <3>2. AddEdge(current, waited, One) /\ initStatesZG' = initStatesZG
      BY <2>4
    <3> QED
      BY <1>0, <2>2, <3>1, <3>2, AddEdgeReal
  <2>5. CASE RemoveState(conf)
    <3>1. Live' \subseteq Live /\ \A v \in Live' : nodes'[v] = nodes[v]
      BY <1>0, <2>5, RemoveStateKeeps
    <3> QED
      BY <1>0, <3>1, FewerReal
  <2>6. CASE UNCHANGED graphVars
    <3>1. nodes' = nodes
      BY <2>6 DEF graphVars
    <3> QED
      BY <1>0, <3>1, FewerReal DEF Live
  <2> QED
    BY <2>1, <2>4, <2>5, <2>6
<1>4. CASE AddSuccessor
  <2> DEFINE next == Head(pending)
             conf == [vertex |-> next.vertex, jumpable |-> FALSE,
                      zone |-> next.zone, valuations |-> <<>>]
             w == Cost(TA.label[nodes[from].vertex], nodes[from].valuations)
  <2>1. pending # <<>> /\ AddEdge(from, conf, w) /\ initStatesZG' = initStatesZG
    BY <1>4 DEF AddSuccessor
  <2>2. pending \in Seq(Successors) /\ from \in Live
    BY <2>1 DEF ZoneInv, QueueInv
  <2>3. next \in Successors
    BY <2>1, <2>2
  <2> HIDE DEF next, w
  <2>4. Valid(conf)
    <3>1. <<>> \in Seq(Seq(Int))
      OBVIOUS
    <3> QED
      BY <2>3, <3>1 DEF Successors, Valid, Confs
  <2> HIDE DEF conf
  <2> QED
    BY <1>0, <2>1, <2>2, <2>4, AddEdgeReal
<1>5. CASE StartRound \/ Skip \/ EndRound \/ Return \/ Done \/ UNCHANGED vars
  <2>1. nodes' = nodes
    <3>1. CASE StartRound
      BY <3>1 DEF StartRound
    <3>2. CASE Skip
      BY <3>2 DEF Skip, graphVars
    <3>3. CASE EndRound
      BY <3>3 DEF EndRound
    <3>4. CASE Return
      BY <3>4 DEF Return, graphVars
    <3>5. CASE Done \/ UNCHANGED vars
      BY <3>5 DEF Done, vars, graphVars
    <3> QED
      BY <1>5, <3>1, <3>2, <3>3, <3>4, <3>5
  <2> QED
    BY <1>0, <2>1, FewerReal DEF Live
<1> QED
  BY <1>1, <1>2, <1>3, <1>4, <1>5 DEF Next

(* A vertex has a valuation, so that a run leads to it.                    *)
LEMMA RealIsReached ==
    ASSUME NEW limit, CallFits(call, limit), StepInv(limit), PointsReached
    PROVE  VerticesHaveRuns
<1> SUFFICES ASSUME NEW v \in Live
             PROVE  \E m \in Positive, u \in Valuation : Point(nodes[v], m, u) \in OnRuns(call)
  BY DEF VerticesHaveRuns
<1>1. PICK Z : Z = nodes[v].zone
  OBVIOUS
<1>2. InPiece(call, Z, limit) /\ Real(call, nodes[v])
  BY <1>1 DEF StepInv, PointsReached
<1>3. limit \in Nat /\ 8 * limit < Infinity /\ 0 \in Var
  BY CallIs
<1>4. 2 * limit < Infinity /\ limit < Infinity
  BY <1>3, DBMAssumption
<1>5. \A x \in Var : Z[0][x] # Infinity
  <2> TAKE x \in Var
  <2>1. Z[0][x] <= limit
    BY <1>2, <1>3 DEF InPiece
  <2> QED
    BY <1>3, <1>4, <2>1, DBMAssumption
<1>6. AllWithin(Z, limit)
  BY <1>2, InPieceWithin
<1>7. PICK m \in Positive, u \in Valuation : u[0] = 0 /\ SatAt(m, u, Z)
  BY <1>2, <1>3, <1>4, <1>5, <1>6, SatisfiableHasPoint DEF InPiece
<1> QED
  BY <1>1, <1>2, <1>7 DEF Real

(* zoneConstructionWithT invents nothing: every rational valuation of every*)
(* vertex is one that the automaton comes to, by delays and jumps within   *)
(* the piece, from a valuation of a zone of the call; and every vertex has *)
(* one.                                                                    *)
THEOREM ZonePointsReached ==
    ASSUME NEW limit, CallsWithin(limit)
    PROVE  Spec => [](PointsReached /\ VerticesHaveRuns)
<1>1. Init => StepInv(limit) /\ PointsReached
  <2> SUFFICES ASSUME Init PROVE StepInv(limit) /\ PointsReached
    OBVIOUS
  <2>1. DOMAIN nodes = {} /\ edges = {} /\ pending = <<>>
    BY DEF Init
  <2> QED
    BY <2>1 DEF StepInv, PointsReached, Live
<1>2. call \in Calls /\ ZoneInv /\ StepInv(limit) /\ PointsReached /\ [Next]_vars
        => StepInv(limit)' /\ PointsReached'
  <2> SUFFICES ASSUME call \in Calls, ZoneInv, StepInv(limit), PointsReached, [Next]_vars
               PROVE  StepInv(limit)' /\ PointsReached'
    OBVIOUS
  <2>1. CallFits(call, limit)
    BY DEF CallsWithin
  <2>2. StepInv(limit)'
    BY <2>1, StepNext
  <2> QED
    BY <2>1, <2>2, ReachedNext
<1>3. call \in Calls /\ StepInv(limit) /\ PointsReached => VerticesHaveRuns
  BY RealIsReached DEF CallsWithin
<1> QED
  BY <1>1, <1>2, <1>3, CallInvariant, ZoneInvariant, PTL DEF Spec
=============================================================================

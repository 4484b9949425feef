----------------------------- MODULE QTPM_proofs -----------------------------
(***************************************************************************)
(* The engine, for every automaton, every signal, every weight class and   *)
(* every number of pieces: its types, and that it keeps what Matcher       *)
(* promises.                                                               *)
(***************************************************************************)
EXTENDS QTPM, ZoneGraph_proofs

-----------------------------------------------------------------------------
(* The dwell time of the zones in a piece                                  *)

LEMMA DwellVar == T \in Var /\ 0 \in Var /\ T # 0 /\ <<0, T>> # <<T, 0>>
  BY DBMAssumption, ZoneGraphAssumption DEF Var, T

LEMMA Entries == ASSUME NEW Z \in Matrix, NEW i \in Var, NEW j \in Var
                 PROVE  Z[i][j] \in Bound /\ Z[i][j] \in Int
  BY DEF Matrix, Bound

(* What an operation that only shortens leaves of the two bounds.          *)
Shorter(E, F) == E \in Matrix /\ E[0][T] <= F[0][T] /\ E[T][0] <= F[T][0]

LEMMA ShorterTransitive ==
    ASSUME NEW G \in Matrix, NEW F, Shorter(F, G), NEW E, Shorter(E, F)
    PROVE  Shorter(E, G)
<1>1. F \in Matrix /\ E \in Matrix
  BY DEF Shorter
<1>2. /\ E[0][T] \in Int /\ F[0][T] \in Int /\ G[0][T] \in Int
      /\ E[T][0] \in Int /\ F[T][0] \in Int /\ G[T][0] \in Int
  BY <1>1, DwellVar, Entries
<1> QED
  BY <1>2 DEF Shorter

LEMMA BoundDwellShorter ==
    ASSUME WellFormed(call), NEW Z \in Matrix
    PROVE  Shorter(BoundDwell(Z), Z) /\ BoundDwell(Z)[T][0] <= Le(call.duration)
<1>1. Le(call.duration) \in Bound
  BY CallFacts
<1> QED
  BY <1>1, DwellVar, TightenShortens DEF BoundDwell, Shorter

(* A delay takes time.                                                     *)
LEMMA ElapseTakesTime ==
    ASSUME NEW Z \in Matrix, Z[0][T] <= Le(0)
    PROVE  Elapse(Z) \in Matrix /\ Elapse(Z)[0][T] <= Lt(0)
<1>1. Elapse(Z) \in Matrix
  BY ElapseIs
<1>2. Elapse(Z)[0][T] = Strict(Z[0][T])
  BY DwellVar, ElapseIs
<1>3. Z[0][T] \in Int
  BY DwellVar, Entries
<1>4. Strict(Z[0][T]) <= Lt(0)
  BY <1>3 DEF Strict, Le, Lt
<1> QED
  BY <1>1, <1>2, <1>4

(* A jump takes none: the guard, the closure and the resets of the clocks  *)
(* of the automaton leave the bounds on the dwell time as tight as before. *)
LEMMA JumpShorter ==
    ASSUME NEW q, NEW Z \in Matrix, NEW s \in Range(DiscreteTransitions(q, Z))
    PROVE  s \in Successors /\ Shorter(s.zone, Z)
<1>1. PICK e \in Edges : s.zone = ResetAll(Canonize(Guarded(Z, e.guard)), e.resets)
  BY TransitionsAre
<1>2. s \in Successors
  <2>1. DiscreteTransitions(q, Z) \in Seq(Successors)
    BY TransitionsAre
  <2> QED
    BY <2>1 DEF Range
<1> DEFINE G == Guarded(Z, e.guard)
           K == Canonize(G)
<1>3. Shorter(G, Z)
  BY DwellVar, EdgeFacts, GuardedExact DEF Shorter
<1> HIDE DEF G
<1>4. G \in Matrix /\ Shorter(K, G)
  BY <1>3, DwellVar, CanonizeShortens DEF Shorter
<1> HIDE DEF K
<1>5. K \in Matrix /\ Shorter(K, Z)
  BY <1>3, <1>4, ShorterTransitive DEF Shorter
<1> DEFINE S == {F \in Matrix : Shorter(F, Z)}
<1>6. ASSUME NEW F \in S, NEW x \in e.resets \cap (Var \ {0}) PROVE Reset(F, x) \in S
  <2>1. x \in Var /\ x # 0 /\ x # T
    BY EdgeFacts
  <2>2. Reset(F, x) \in Matrix /\ Aliased(F, x) \in Matrix
        /\ \A i, j \in Var : Reset(F, x)[i][j] <= Aliased(F, x)[i][j]
    BY <2>1, ResetShortens
  <2>3. Aliased(F, x)[0][T] = F[0][T] /\ Aliased(F, x)[T][0] = F[T][0]
    BY <2>1, DwellVar DEF Aliased
  <2>4. Shorter(Reset(F, x), F)
    BY <2>2, <2>3, DwellVar DEF Shorter
  <2> QED
    BY <2>2, <2>4, ShorterTransitive
<1>7. ResetAll(K, e.resets) \in S
  <2>1. K \in S /\ S \subseteq Matrix
    BY <1>5
  <2> HIDE DEF S
  <2> QED
    BY <1>6, <2>1, ResetAllPreserves
<1> QED
  BY <1>1, <1>2, <1>7 DEF G, K

-----------------------------------------------------------------------------
(* The graph of a piece.  Time has passed in a zone that may jump and in   *)
(* one that has just matched, and no more of it than the piece is long; the*)
(* values observed are values of the signal; and the weights are weights.  *)

Values == {piece.valuation : piece \in Pieces}

Entering(conf) ==
    /\ conf.zone[0][T] <= Le(0)
    /\ conf.jumpable \/ IsMatch(conf.vertex) => conf.zone[0][T] <= Lt(0)
    /\ conf.valuations \in Seq(Values)

InTime(c, conf) == Entering(conf) /\ conf.zone[T][0] <= Le(c.duration)

Arriving(c, s) == s.zone[0][T] <= Lt(0) /\ s.zone[T][0] <= Le(c.duration)

PieceInv ==
    /\ call.valuation \in Values
    /\ \A i \in DOMAIN call.confs :
           Entering(call.confs[i].conf) /\ call.confs[i].weight \in Weight
    /\ \A v \in Live : InTime(call, nodes[v])
    /\ \A s \in Range(pending) : Arriving(call, s)
    /\ IsFiniteSet(edges) /\ \A e \in edges : e.w \in Weight
    /\ \A v \in DOMAIN initStatesZG : initStatesZG[v] \in Weight

(* What is assumed of the costs: they are weights.                         *)
CostsAreWeights ==
    /\ Zero \in Weight /\ One \in Weight
    /\ \A q \in Locations : \A seen \in Seq(Values) : Cost(TA.label[q], seen) \in Weight

LEMMA BoundDwellInTime ==
    ASSUME WellFormed(call), NEW conf, Valid(conf), Entering(conf)
    PROVE  InTime(call, [conf EXCEPT !.zone = BoundDwell(@)])
<1> DEFINE b == [conf EXCEPT !.zone = BoundDwell(@)]
<1>1. conf \in Confs /\ conf.zone \in Matrix
  BY DEF Valid, Confs
<1>2. /\ Shorter(BoundDwell(conf.zone), conf.zone)
      /\ BoundDwell(conf.zone)[T][0] <= Le(call.duration)
  BY <1>1, BoundDwellShorter
<1>3. /\ b.zone = BoundDwell(conf.zone) /\ b.vertex = conf.vertex
      /\ b.jumpable = conf.jumpable /\ b.valuations = conf.valuations
  BY <1>1 DEF Confs
<1>4. BoundDwell(conf.zone)[0][T] \in Int /\ conf.zone[0][T] \in Int
  BY <1>1, <1>2, DwellVar, Entries DEF Shorter
<1>5. /\ conf.zone[0][T] <= Le(0) => BoundDwell(conf.zone)[0][T] <= Le(0)
      /\ conf.zone[0][T] <= Lt(0) => BoundDwell(conf.zone)[0][T] <= Lt(0)
  BY <1>2, <1>4 DEF Shorter, Le, Lt
<1> HIDE DEF b
<1>6. b.zone[0][T] <= Le(0) /\ (b.jumpable \/ IsMatch(b.vertex) => b.zone[0][T] <= Lt(0))
  BY <1>3, <1>5 DEF Entering
<1>7. b.zone[T][0] <= Le(call.duration) /\ b.valuations \in Seq(Values)
  BY <1>2, <1>3 DEF Entering
<1> QED
  BY <1>6, <1>7 DEF InTime, Entering, b

(* The transitions of a zone in which time has passed.                     *)
LEMMA TransitionsArrive ==
    ASSUME NEW c, NEW q, NEW Z \in Matrix, Z[0][T] <= Lt(0), Z[T][0] <= Le(c.duration),
           Le(c.duration) \in Int,
           NEW s \in Range(DiscreteTransitions(q, Z))
    PROVE  Arriving(c, s)
<1>1. s \in Successors /\ Shorter(s.zone, Z)
  BY JumpShorter
<1>2. s.zone \in Matrix /\ Lt(0) \in Int
  BY <1>1 DEF Shorter, Lt
<1>3. /\ s.zone[0][T] \in Int /\ Z[0][T] \in Int
      /\ s.zone[T][0] \in Int /\ Z[T][0] \in Int
  BY <1>2, DwellVar, Entries
<1> QED
  BY <1>1, <1>2, <1>3 DEF Arriving, Shorter

(* A new edge, and the vertex it may bring along.                          *)
LEMMA AddEdgeInTime ==
    ASSUME ZoneInv, PieceInv, NEW u \in Live, NEW conf, Valid(conf), InTime(call, conf),
           NEW w \in Weight, AddEdge(u, conf, w), call' = call, initStatesZG' = initStatesZG,
           \A s \in Range(pending') : Arriving(call, s)
    PROVE  PieceInv'
<1>1. GraphInv /\ nextConf \in Seq(1 .. born)
  BY DEF ZoneInv, QueueInv
<1> DEFINE d == toZGState'[Key(conf)]
           new == [src |-> u, dst |-> d, w |-> w]
<1>2. /\ \A v \in Live : nodes'[v] = nodes[v]
      /\ edges' = edges \cup {new}
      /\ Live' \subseteq Live \cup {d} /\ (d \in Live \/ nodes'[d] = conf)
  BY <1>1, AddEdgeKeeps
<1>3. new.w = w
  OBVIOUS
<1> HIDE DEF d, new
<1>4. \A v \in Live' : InTime(call, nodes'[v])
  BY <1>2 DEF PieceInv
<1>5. IsFiniteSet(edges') /\ \A e \in edges' : e.w \in Weight
  BY <1>2, <1>3, FS_AddElement DEF PieceInv
<1> QED
  BY <1>4, <1>5 DEF PieceInv

(* A removal takes vertices, edges and initial states away only.           *)
LEMMA RemoveStateInTime ==
    ASSUME ZoneInv, PieceInv, NEW conf, RemoveState(conf), call' = call,
           \A s \in Range(pending') : Arriving(call, s)
    PROVE  PieceInv'
<1>1. GraphInv /\ removedVertices \subseteq 1 .. born
  BY DEF ZoneInv, QueueInv
<1>2. Live' \subseteq Live /\ (\A v \in Live' : nodes'[v] = nodes[v]) /\ edges' \subseteq edges
  BY <1>1, RemoveStateKeeps
<1>3. \A v \in DOMAIN initStatesZG' : v \in DOMAIN initStatesZG /\ initStatesZG'[v] = initStatesZG[v]
  BY DEF RemoveState, Restrict
<1>4. IsFiniteSet(edges')
  BY <1>2, FS_Subset DEF PieceInv
<1> QED
  BY <1>2, <1>3, <1>4 DEF PieceInv

LEMMA AddInitInTime == ASSUME ZoneInv, PieceInv, AddInit PROVE PieceInv'
<1> DEFINE given == call.confs[Len(nextConf) + 1]
           conf == [given.conf EXCEPT !.zone = BoundDwell(@)]
<1>1. /\ pc = "init" /\ Len(nextConf) < Len(call.confs)
      /\ call' = call /\ edges' = edges /\ pending' = pending
  BY DEF AddInit
<1>2. PICK v \in Addresses : /\ AddVertex(v, conf)
                             /\ initStatesZG' = Put(initStatesZG, v, given.weight)
  BY DEF AddInit
<1>3. GraphInv /\ nextConf \in Seq(1 .. born) /\ WellFormed(call)
  BY DEF ZoneInv, GraphInv, QueueInv
<1>4. Len(nextConf) + 1 \in DOMAIN call.confs
  BY <1>1, <1>3, CallFacts
<1>5. Valid(given.conf) /\ Entering(given.conf) /\ given.weight \in Weight
  BY <1>3, <1>4, CallFacts DEF PieceInv
<1> HIDE DEF given
<1>6. InTime(call, conf)
  BY <1>3, <1>5, BoundDwellInTime
<1> HIDE DEF conf
<1>7. \A u \in Live' : InTime(call, nodes'[u])
  BY <1>2, <1>6 DEF AddVertex, Put, Live, PieceInv
<1>8. \A u \in DOMAIN initStatesZG' : initStatesZG'[u] \in Weight
  BY <1>2, <1>5 DEF Put, PieceInv
<1> QED
  BY <1>1, <1>7, <1>8 DEF PieceInv

(* The waiting state that a delay leads to.                                *)
LEMMA DelayInTime ==
    ASSUME WellFormed(call), call.valuation \in Values,
           NEW conf, Valid(conf), Entering(conf)
    PROVE  LET now == BoundDwell(Elapse(BoundDwell(conf.zone)))
               waited == [conf EXCEPT !.jumpable = TRUE, !.zone = now,
                                      !.valuations = Append(@, call.valuation)]
           IN  /\ Valid(waited) /\ InTime(call, waited)
               /\ now \in Matrix /\ now[0][T] <= Lt(0) /\ now[T][0] <= Le(call.duration)
<1> DEFINE before == BoundDwell(conf.zone)
           later == Elapse(before)
           now == BoundDwell(later)
           waited == [conf EXCEPT !.jumpable = TRUE, !.zone = now,
                                  !.valuations = Append(@, call.valuation)]
<1>1. conf \in Confs /\ conf.zone \in Matrix /\ Le(0) \in Int /\ Lt(0) \in Int
  BY DEF Valid, Confs, Le, Lt
<1>2. before \in Matrix /\ before[0][T] <= Le(0)
  <2>1. Shorter(before, conf.zone)
    BY <1>1, BoundDwellShorter
  <2>2. before \in Matrix /\ before[0][T] \in Int /\ conf.zone[0][T] \in Int
    BY <1>1, <2>1, DwellVar, Entries DEF Shorter
  <2> HIDE DEF before
  <2> QED
    BY <1>1, <2>1, <2>2 DEF Shorter, Entering
<1> HIDE DEF before
<1>3. later \in Matrix /\ later[0][T] <= Lt(0)
  BY <1>2, ElapseTakesTime
<1> HIDE DEF later
<1>4. Shorter(now, later) /\ now[T][0] <= Le(call.duration)
  BY <1>3, BoundDwellShorter
<1>5. now \in Matrix /\ now[0][T] <= Lt(0)
  <2>1. now \in Matrix
    BY <1>4 DEF Shorter
  <2>2. now[0][T] \in Int /\ later[0][T] \in Int
    BY <1>3, <2>1, DwellVar, Entries
  <2> HIDE DEF now
  <2> QED
    BY <1>1, <1>3, <1>4, <2>1, <2>2 DEF Shorter
<1> HIDE DEF now
<1>6. /\ waited.zone = now /\ waited.vertex = conf.vertex /\ waited.jumpable = TRUE
      /\ waited.valuations = Append(conf.valuations, call.valuation)
  BY <1>1 DEF Confs
<1>7. Append(conf.valuations, call.valuation) \in Seq(Values)
  BY DEF Entering
<1>8. /\ Append(conf.valuations, call.valuation) \in Seq(Seq(Int))
      /\ Append(conf.valuations, call.valuation) # <<>>
  <2>1. conf.valuations \in Seq(Seq(Int)) /\ call.valuation \in Seq(Int)
    BY <1>1, CallFacts DEF Confs
  <2> QED
    BY <2>1
<1>9. Valid(waited)
  BY <1>1, <1>5, <1>6, <1>8 DEF Valid, Confs
<1>10. InTime(call, waited)
  <2>1. waited.zone[0][T] <= Le(0)
    <3>1. now[0][T] \in Int
      BY <1>5, DwellVar, Entries
    <3> QED
      BY <1>5, <1>6, <3>1 DEF Le, Lt
  <2> HIDE DEF waited
  <2> QED
    BY <1>4, <1>5, <1>6, <1>7, <2>1 DEF InTime, Entering
<1> QED
  BY <1>4, <1>5, <1>9, <1>10 DEF waited, now, later, before

LEMMA ProcessJumpableInTime == ASSUME ZoneInv, PieceInv, ProcessJumpable PROVE PieceInv'
<1> DEFINE conf == nodes[current]
           now == BoundDwell(conf.zone)
           next == DiscreteTransitions(conf.vertex, now)
<1>1. /\ Advance /\ current \notin removedVertices /\ conf.jumpable /\ pending' = next
      /\ RemoveState(conf) \/ UNCHANGED <<initStatesZG, removedVertices, graphVars>>
  BY DEF ProcessJumpable
<1>2. /\ current \in Live /\ Valid(conf) /\ WellFormed(call) /\ call' = call
  BY <1>1, AdvanceFacts
<1>3. InTime(call, conf) /\ conf.zone \in Matrix
  BY <1>2 DEF PieceInv, Valid, Confs
<1> HIDE DEF conf
<1>4. now \in Matrix /\ now[0][T] <= Lt(0) /\ now[T][0] <= Le(call.duration)
  <2>1. Shorter(now, conf.zone) /\ now[T][0] <= Le(call.duration)
    BY <1>2, <1>3, BoundDwellShorter
  <2>2. now \in Matrix /\ now[0][T] \in Int /\ conf.zone[0][T] \in Int /\ Lt(0) \in Int
    BY <1>3, <2>1, DwellVar, Entries DEF Shorter, Lt
  <2> HIDE DEF now
  <2> QED
    BY <1>1, <1>3, <2>1, <2>2 DEF Shorter, InTime, Entering
<1>5. Le(call.duration) \in Int
  BY <1>2, CallFacts DEF Bound
<1> HIDE DEF now
<1>6. \A s \in Range(pending') : Arriving(call, s)
  BY <1>1, <1>4, <1>5, TransitionsArrive
<1> HIDE DEF next
<1>7. CASE RemoveState(conf)
  BY <1>2, <1>6, <1>7, RemoveStateInTime
<1>8. CASE UNCHANGED <<initStatesZG, removedVertices, graphVars>>
  <2>1. nodes' = nodes /\ edges' = edges /\ initStatesZG' = initStatesZG /\ Live' = Live
    BY <1>8 DEF graphVars, Live
  <2> QED
    BY <1>2, <1>6, <2>1 DEF PieceInv
<1> QED
  BY <1>1, <1>7, <1>8

LEMMA ProcessContinuousInTime ==
    ASSUME CostsAreWeights, ZoneInv, PieceInv, ProcessContinuous PROVE PieceInv'
<1> DEFINE conf == nodes[current]
           now == BoundDwell(Elapse(BoundDwell(conf.zone)))
           next == DiscreteTransitions(conf.vertex, now)
           waited == [conf EXCEPT !.jumpable = TRUE, !.zone = now,
                                  !.valuations = Append(@, call.valuation)]
           Adds == /\ AddEdge(current, waited, One)
                   /\ pending' = IF Key(waited) \in DOMAIN toZGState THEN <<>> ELSE next
                   /\ UNCHANGED <<initStatesZG, removedVertices>>
           Removes == RemoveState(conf) /\ UNCHANGED <<from, pending>>
           Passes == UNCHANGED <<initStatesZG, removedVertices, from, pending, graphVars>>
<1>1. /\ Advance /\ current \notin removedVertices
      /\ Adds \/ Removes \/ Passes
  BY DEF ProcessContinuous
<1>2. /\ current \in Live /\ Valid(conf) /\ WellFormed(call) /\ call' = call /\ pending = <<>>
  BY <1>1, AdvanceFacts
<1>3. Entering(conf) /\ call.valuation \in Values
  BY <1>2 DEF PieceInv, InTime
<1> HIDE DEF conf
<1>4. /\ Valid(waited) /\ InTime(call, waited)
      /\ now \in Matrix /\ now[0][T] <= Lt(0) /\ now[T][0] <= Le(call.duration)
  BY <1>2, <1>3, DelayInTime
<1>5. Le(call.duration) \in Int /\ Range(<<>>) = {}
  BY <1>2, CallFacts DEF Bound, Range
<1> HIDE DEF now
<1>6. \A s \in Range(next) : Arriving(call, s)
  BY <1>4, <1>5, TransitionsArrive
<1> HIDE DEF next, waited
<1>7. CASE Adds
  <2>1. \A s \in Range(pending') : Arriving(call, s)
    BY <1>5, <1>6, <1>7
  <2>2. One \in Weight
    BY DEF CostsAreWeights
  <2>3. AddEdge(current, waited, One) /\ initStatesZG' = initStatesZG
    BY <1>7
  <2> QED
    BY <1>2, <1>4, <2>1, <2>2, <2>3, AddEdgeInTime
<1>8. CASE Removes
  <2>1. \A s \in Range(pending') : Arriving(call, s)
    BY <1>2, <1>5, <1>8
  <2> QED
    BY <1>2, <1>8, <2>1, RemoveStateInTime
<1>9. CASE Passes
  <2>1. nodes' = nodes /\ edges' = edges /\ initStatesZG' = initStatesZG /\ Live' = Live
        /\ pending' = pending
    BY <1>9 DEF graphVars, Live
  <2> QED
    BY <1>2, <2>1 DEF PieceInv
<1> QED
  BY <1>1, <1>7, <1>8, <1>9

LEMMA AddSuccessorInTime ==
    ASSUME CostsAreWeights, ZoneInv, PieceInv, AddSuccessor PROVE PieceInv'
<1> DEFINE next == Head(pending)
           conf == [vertex |-> next.vertex, jumpable |-> FALSE,
                    zone |-> next.zone, valuations |-> <<>>]
           w == Cost(TA.label[nodes[from].vertex], nodes[from].valuations)
<1>1. /\ pending # <<>> /\ pending' = Tail(pending) /\ call' = call
      /\ initStatesZG' = initStatesZG /\ AddEdge(from, conf, w)
  BY DEF AddSuccessor
<1>2. pending \in Seq(Successors) /\ from \in Live /\ nodes[from] \in Confs
  BY <1>1 DEF ZoneInv, QueueInv, GraphInv
<1>3. next \in Successors /\ next \in Range(pending) /\ Range(pending') \subseteq Range(pending)
  BY <1>1, <1>2, RangeOfTail
<1>4. w \in Weight
  BY <1>2 DEF CostsAreWeights, PieceInv, InTime, Entering, Confs
<1> HIDE DEF w, next
<1>5. Arriving(call, next) /\ \A s \in Range(pending') : Arriving(call, s)
  BY <1>3 DEF PieceInv
<1>6. <<>> \in Seq(Seq(Int)) /\ <<>> \in Seq(Values)
  OBVIOUS
<1>7. Valid(conf)
  BY <1>3, <1>6 DEF Valid, Confs, Successors
<1>8. InTime(call, conf)
  <2>1. conf.zone = next.zone /\ conf.valuations = <<>> /\ conf.zone[0][T] \in Int
    BY <1>3, DwellVar, Entries DEF Successors
  <2> HIDE DEF conf
  <2> QED
    BY <1>5, <1>6, <2>1 DEF Arriving, InTime, Entering, Lt, Le
<1> HIDE DEF conf
<1> QED
  BY <1>1, <1>2, <1>4, <1>5, <1>7, <1>8, AddEdgeInTime

LEMMA PieceNext == ASSUME CostsAreWeights, ZoneInv, PieceInv, [Next]_vars PROVE PieceInv'
<1>1. ASSUME UNCHANGED <<call, nodes, edges, initStatesZG, pending>> PROVE PieceInv'
  BY <1>1 DEF PieceInv, Live
<1>2. CASE StartRound \/ Skip \/ EndRound \/ Return \/ Done \/ UNCHANGED vars
  BY <1>1, <1>2 DEF StartRound, Skip, Advance, EndRound, Return, Done, vars, graphVars
<1> QED
  BY <1>2, AddInitInTime, ProcessJumpableInTime, ProcessContinuousInTime, AddSuccessorInTime
     DEF Next

-----------------------------------------------------------------------------
(* Sums of weights, and the other loops of feed                            *)

(* What is assumed of the weights: their sum is that of a semiring and     *)
(* idempotent.  Of the product it matters only that it is a weight.        *)
SumLaws(W) ==
    /\ \A a, b \in W : Plus(a, b) \in W /\ Plus(a, b) = Plus(b, a)
    /\ \A a, b, c \in W : Plus(Plus(a, b), c) = Plus(a, Plus(b, c))
    /\ \A a \in W : Plus(a, a) = a /\ Plus(a, Zero) = a

ProductsAreWeights == \A a, b \in Weight : Times(a, b) \in Weight

(* Adding weights one after the other.                                     *)
LEMMA SumRuns ==
    ASSUME SumLaws(Weight), NEW base \in Weight,
           NEW ws, ws \subseteq Weight, IsFiniteSet(ws)
    PROVE  \E after \in [SUBSET ws -> Weight] :
             /\ Added(base, ws) = after[ws]
             /\ \A s \in SUBSET ws : s = {} => after[s] = base
             /\ \A s \in SUBSET ws : s # {} =>
                  \E x \in s : after[s] = Plus(x, after[s \ {x}])
<1> DEFINE some(s) == CHOOSE x \in s : TRUE
           Value(f, s) == IF s = {} THEN base
                          ELSE Plus(some(s), f[s \ {some(s)}])
           Adding(f) == f = [s \in SUBSET ws |-> Value(f, s)]
           pick == [s \in SUBSET ws |-> some(s)]
           add == [x \in ws |-> [m \in Weight |-> Plus(x, m)]]
<1>1. ASSUME NEW x \in ws, NEW m \in Weight PROVE Plus(x, m) \in Weight
  BY DEF SumLaws
<1>2. \A s \in SUBSET ws : s # {} => some(s) \in s /\ pick[s] = some(s)
  OBVIOUS
<1>3. \A x \in ws : \A m \in Weight : add[x][m] = Plus(x, m)
  OBVIOUS
<1>4. PICK f \in [SUBSET ws -> Weight] :
         \A s \in SUBSET ws :
            f[s] = IF s = {} THEN base ELSE add[pick[s]][f[s \ {pick[s]}]]
  <2>1. \A s \in SUBSET ws : s # {} => pick[s] \in s
    BY <1>2
  <2>2. \A x \in ws : \A m \in Weight : add[x][m] \in Weight
    BY <1>1, <1>3
  <2>3. base \in Weight
    OBVIOUS
  <2> HIDE DEF pick, add
  <2>4. Foldings(ws, Weight, base, pick, add) # {}
    BY <2>1, <2>2, <2>3, SubsetRecursion
  <2> QED
    BY <2>4 DEF Foldings
<1>5. ASSUME NEW s \in SUBSET ws PROVE f[s] = Value(f, s)
  <2>1. CASE s = {}
    BY <1>4, <2>1
  <2>2. CASE s # {}
    <3>1. f[s] = add[pick[s]][f[s \ {pick[s]}]]
      <4> HIDE DEF add, pick
      <4> QED
        BY <1>4, <2>2
    <3>2. pick[s] = some(s) /\ some(s) \in ws /\ f[s \ {some(s)}] \in Weight
      BY <1>2, <2>2
    <3> HIDE DEF add, pick, some
    <3> QED
      BY <1>3, <2>2, <3>1, <3>2
  <2> QED
    BY <2>1, <2>2
<1>6. Adding(f)
  <2>1. DOMAIN f = SUBSET ws /\ f = [s \in SUBSET ws |-> f[s]]
    OBVIOUS
  <2> HIDE DEF Value
  <2> QED
    BY <1>5, <2>1
<1> DEFINE after == CHOOSE g : Adding(g)
<1>7. Adding(after)
  <2> HIDE DEF Adding
  <2> QED
    BY <1>6
<1>8. Added(base, ws) = after[ws]
  BY Zenon DEF Added, FoldSet, MapThenFoldSet
<1>9. /\ after = [s \in SUBSET ws |-> Value(after, s)]
      /\ \A s \in SUBSET ws : after[s] = Value(after, s)
  <2> HIDE DEF after, Value
  <2> QED
    BY <1>7
<1> HIDE DEF after
<1>10. after[{}] = base
  <2>1. {} \in SUBSET ws
    OBVIOUS
  <2> QED
    BY <1>9, <2>1
<1>11. ASSUME NEW s \in SUBSET ws, s # {}
       PROVE  \E x \in s : after[s] = Plus(x, after[s \ {x}])
  <2>1. some(s) \in s
    BY <1>2, <1>11
  <2>2. after[s] = Plus(some(s), after[s \ {some(s)}])
    <3> HIDE DEF some
    <3> QED
      BY <1>9, <1>11
  <2> HIDE DEF some
  <2> QED
    BY <2>1, <2>2
<1> DEFINE K == {s \in SUBSET ws : after[s] \in Weight}
<1>12. ASSUME NEW s \in SUBSET ws, \A x \in s : s \ {x} \in K PROVE s \in K
  <2>1. CASE s = {}
    <3>1. after[s] \in Weight
      <4>1. base \in Weight
        OBVIOUS
      <4> QED
        BY Zenon, <1>10, <2>1, <4>1
    <3> QED
      BY <3>1
  <2>2. CASE s # {}
    <3>1. PICK x \in s : after[s] = Plus(x, after[s \ {x}])
      <4> HIDE DEF K
      <4> QED
        BY <1>11, <2>2
    <3>2. x \in ws /\ after[s \ {x}] \in Weight
      BY <1>12
    <3>3. Plus(x, after[s \ {x}]) \in Weight
      BY <1>1, <3>2
    <3>4. after[s] \in Weight
      BY <3>1, <3>3
    <3> QED
      BY <3>4
  <2> QED
    BY <2>1, <2>2
<1>13. \A s \in SUBSET ws : s \in K
  <2> HIDE DEF K
  <2> QED
    BY <1>12, SubsetInduction
<1>14. after \in [SUBSET ws -> Weight]
  <2>1. DOMAIN after = SUBSET ws /\ after = [s \in SUBSET ws |-> after[s]]
    <3> HIDE DEF Value
    <3> QED
      BY <1>9
  <2>2. \A s \in SUBSET ws : after[s] \in Weight
    BY <1>13
  <2> QED
    BY <2>1, <2>2
<1> HIDE DEF some, Value, Adding, pick, add, K
<1> QED
  BY <1>8, <1>10, <1>11, <1>14

(* A sum is a weight that covers each of its summands.                     *)
LEMMA SumCovers ==
    ASSUME SumLaws(Weight), NEW base \in Weight,
           NEW ws, ws \subseteq Weight, IsFiniteSet(ws)
    PROVE  /\ Added(base, ws) \in Weight
           /\ Plus(base, Added(base, ws)) = Added(base, ws)
           /\ Added(base, {}) = base
<1>1. PICK after \in [SUBSET ws -> Weight] :
         /\ Added(base, ws) = after[ws]
         /\ \A s \in SUBSET ws : s = {} => after[s] = base
         /\ \A s \in SUBSET ws : s # {} => \E x \in s : after[s] = Plus(x, after[s \ {x}])
  BY SumRuns
<1> DEFINE K == {s \in SUBSET ws : Plus(base, after[s]) = after[s]}
<1>2. ASSUME NEW s \in SUBSET ws, \A x \in s : s \ {x} \in K PROVE s \in K
  <2>1. CASE s = {}
    BY <1>1, <2>1 DEF SumLaws
  <2>2. CASE s # {}
    <3>1. PICK x \in s : after[s] = Plus(x, after[s \ {x}])
      <4> HIDE DEF K
      <4> QED
        BY <1>1, <2>2
    <3>2. /\ x \in Weight /\ after[s \ {x}] \in Weight
          /\ Plus(base, after[s \ {x}]) = after[s \ {x}]
      BY <1>2
    <3>3. Plus(base, Plus(x, after[s \ {x}])) = Plus(Plus(base, x), after[s \ {x}])
      BY <3>2 DEF SumLaws
    <3>4. Plus(base, x) = Plus(x, base)
      BY <3>2 DEF SumLaws
    <3>5. Plus(Plus(x, base), after[s \ {x}]) = Plus(x, Plus(base, after[s \ {x}]))
      BY <3>2 DEF SumLaws
    <3> QED
      BY <3>1, <3>2, <3>3, <3>4, <3>5
  <2> QED
    BY <2>1, <2>2
<1>3. \A s \in SUBSET ws : s \in K
  <2> HIDE DEF K
  <2> QED
    BY <1>2, SubsetInduction
<1>4. Added(base, {}) = base
  <2>1. IsFiniteSet({})
    BY FS_EmptySet
  <2>2. PICK f \in [SUBSET {} -> Weight] :
          /\ Added(base, {}) = f[{}]
          /\ \A s \in SUBSET {} : s = {} => f[s] = base
    BY <2>1, SumRuns
  <2> QED
    BY <2>2
<1>5. ws \in SUBSET ws
  OBVIOUS
<1> HIDE DEF K
<1>6. after[ws] \in Weight /\ Plus(base, after[ws]) = after[ws]
  BY <1>1, <1>3, <1>5 DEF K
<1> QED
  BY <1>1, <1>4, <1>6

(* A set of weights that is closed under the sum has the sum of its parts. *)
LEMMA SumStays ==
    ASSUME SumLaws(Weight), NEW S, S \subseteq Weight, \A a, b \in S : Plus(a, b) \in S,
           NEW base \in S, NEW ws, ws \subseteq S, IsFiniteSet(ws)
    PROVE  Added(base, ws) \in S
<1>1. base \in Weight /\ ws \subseteq Weight
  OBVIOUS
<1>2. PICK after \in [SUBSET ws -> Weight] :
         /\ Added(base, ws) = after[ws]
         /\ \A s \in SUBSET ws : s = {} => after[s] = base
         /\ \A s \in SUBSET ws : s # {} => \E x \in s : after[s] = Plus(x, after[s \ {x}])
  BY <1>1, SumRuns
<1> DEFINE K == {s \in SUBSET ws : after[s] \in S}
<1>3. ASSUME NEW s \in SUBSET ws, \A x \in s : s \ {x} \in K PROVE s \in K
  <2>1. CASE s = {}
    BY <1>2, <2>1
  <2>2. CASE s # {}
    <3>1. PICK x \in s : after[s] = Plus(x, after[s \ {x}])
      <4> HIDE DEF K
      <4> QED
        BY <1>2, <2>2
    <3>2. x \in S /\ after[s \ {x}] \in S
      BY <1>3
    <3> QED
      BY <3>1, <3>2
  <2> QED
    BY <2>1, <2>2
<1>4. \A s \in SUBSET ws : s \in K
  <2> HIDE DEF K
  <2> QED
    BY <1>3, SubsetInduction
<1>5. ws \in SUBSET ws
  OBVIOUS
<1> QED
  BY <1>2, <1>4, <1>5

(* Listing the configurations.                                             *)
LEMMA ListRuns ==
    ASSUME NEW confs, IsFiniteSet(confs)
    PROVE  \E after \in [SUBSET confs -> Seq(confs)] :
             /\ Listed(confs) = after[confs]
             /\ \A s \in SUBSET confs : s = {} => after[s] = <<>>
             /\ \A s \in SUBSET confs : s # {} =>
                  \E x \in s : after[s] = Append(after[s \ {x}], x)
<1> DEFINE some(s) == CHOOSE x \in s : TRUE
           Value(f, s) == IF s = {} THEN <<>>
                          ELSE Append(f[s \ {some(s)}], some(s))
           Adding(f) == f = [s \in SUBSET confs |-> Value(f, s)]
           pick == [s \in SUBSET confs |-> some(s)]
           add == [x \in confs |-> [m \in Seq(confs) |-> Append(m, x)]]
<1>1. ASSUME NEW x \in confs, NEW m \in Seq(confs) PROVE Append(m, x) \in Seq(confs)
  OBVIOUS
<1>2. \A s \in SUBSET confs : s # {} => some(s) \in s /\ pick[s] = some(s)
  OBVIOUS
<1>3. \A x \in confs : \A m \in Seq(confs) : add[x][m] = Append(m, x)
  OBVIOUS
<1>4. PICK f \in [SUBSET confs -> Seq(confs)] :
         \A s \in SUBSET confs :
            f[s] = IF s = {} THEN <<>> ELSE add[pick[s]][f[s \ {pick[s]}]]
  <2>1. \A s \in SUBSET confs : s # {} => pick[s] \in s
    BY <1>2
  <2>2. \A x \in confs : \A m \in Seq(confs) : add[x][m] \in Seq(confs)
    BY <1>1, <1>3
  <2>3. <<>> \in Seq(confs)
    OBVIOUS
  <2> HIDE DEF pick, add
  <2>4. Foldings(confs, Seq(confs), <<>>, pick, add) # {}
    BY <2>1, <2>2, <2>3, SubsetRecursion
  <2> QED
    BY <2>4 DEF Foldings
<1>5. ASSUME NEW s \in SUBSET confs PROVE f[s] = Value(f, s)
  <2>1. CASE s = {}
    BY <1>4, <2>1
  <2>2. CASE s # {}
    <3>1. f[s] = add[pick[s]][f[s \ {pick[s]}]]
      <4> HIDE DEF add, pick
      <4> QED
        BY <1>4, <2>2
    <3>2. pick[s] = some(s) /\ some(s) \in confs /\ f[s \ {some(s)}] \in Seq(confs)
      BY <1>2, <2>2
    <3> HIDE DEF add, pick, some
    <3> QED
      BY <1>3, <2>2, <3>1, <3>2
  <2> QED
    BY <2>1, <2>2
<1>6. Adding(f)
  <2>1. DOMAIN f = SUBSET confs /\ f = [s \in SUBSET confs |-> f[s]]
    OBVIOUS
  <2> HIDE DEF Value
  <2> QED
    BY <1>5, <2>1
<1> DEFINE after == CHOOSE g : Adding(g)
<1>7. Adding(after)
  <2> HIDE DEF Adding
  <2> QED
    BY <1>6
<1>8. Listed(confs) = after[confs]
  BY Zenon DEF Listed, FoldSet, MapThenFoldSet
<1>9. /\ after = [s \in SUBSET confs |-> Value(after, s)]
      /\ \A s \in SUBSET confs : after[s] = Value(after, s)
  <2> HIDE DEF after, Value
  <2> QED
    BY <1>7
<1> HIDE DEF after
<1>10. after[{}] = <<>>
  <2>1. {} \in SUBSET confs
    OBVIOUS
  <2> QED
    BY <1>9, <2>1
<1>11. ASSUME NEW s \in SUBSET confs, s # {}
       PROVE  \E x \in s : after[s] = Append(after[s \ {x}], x)
  <2>1. some(s) \in s
    BY <1>2, <1>11
  <2>2. after[s] = Append(after[s \ {some(s)}], some(s))
    <3> HIDE DEF some
    <3> QED
      BY <1>9, <1>11
  <2> HIDE DEF some
  <2> QED
    BY <2>1, <2>2
<1> DEFINE K == {s \in SUBSET confs : after[s] \in Seq(confs)}
<1>12. ASSUME NEW s \in SUBSET confs, \A x \in s : s \ {x} \in K PROVE s \in K
  <2>1. CASE s = {}
    <3>1. after[s] \in Seq(confs)
      <4>1. <<>> \in Seq(confs)
        OBVIOUS
      <4> QED
        BY Zenon, <1>10, <2>1, <4>1
    <3> QED
      BY <3>1
  <2>2. CASE s # {}
    <3>1. PICK x \in s : after[s] = Append(after[s \ {x}], x)
      <4> HIDE DEF K
      <4> QED
        BY <1>11, <2>2
    <3>2. x \in confs /\ after[s \ {x}] \in Seq(confs)
      BY <1>12
    <3>3. Append(after[s \ {x}], x) \in Seq(confs)
      BY <1>1, <3>2
    <3>4. after[s] \in Seq(confs)
      BY <3>1, <3>3
    <3> QED
      BY <3>4
  <2> QED
    BY <2>1, <2>2
<1>13. \A s \in SUBSET confs : s \in K
  <2> HIDE DEF K
  <2> QED
    BY <1>12, SubsetInduction
<1>14. after \in [SUBSET confs -> Seq(confs)]
  <2>1. DOMAIN after = SUBSET confs /\ after = [s \in SUBSET confs |-> after[s]]
    <3> HIDE DEF Value
    <3> QED
      BY <1>9
  <2>2. \A s \in SUBSET confs : after[s] \in Seq(confs)
    BY <1>13
  <2> QED
    BY <2>1, <2>2
<1> HIDE DEF some, Value, Adding, pick, add, K
<1> QED
  BY <1>8, <1>10, <1>11, <1>14

LEMMA ListedIs == ASSUME NEW confs, IsFiniteSet(confs) PROVE Listed(confs) \in Seq(confs)
<1>1. PICK after \in [SUBSET confs -> Seq(confs)] : Listed(confs) = after[confs]
  BY ListRuns
<1> QED
  BY <1>1

-----------------------------------------------------------------------------
(* The distances, from weights to weights                                  *)

WeightLaws == SumLaws(Weight) /\ ProductsAreWeights /\ CostsAreWeights

LEMMA LiveFinite == ASSUME ZoneInv PROVE IsFiniteSet(Live) /\ Cardinality(Live) \in Nat
<1>1. born \in Nat /\ Live \subseteq 1 .. born
  BY DEF ZoneInv, GraphInv
<1>2. IsFiniteSet(1 .. born)
  BY <1>1, FS_Interval
<1> QED
  BY <1>1, <1>2, FS_Subset, FS_CardinalityType

LEMMA ImprovedIs ==
    ASSUME WeightLaws, ZoneInv, PieceInv, NEW f \in [Live -> Weight]
    PROVE  Improved(f) \in [Live -> Weight]
<1> SUFFICES ASSUME NEW v \in Live
             PROVE  Added(IF v \in DOMAIN initStatesZG THEN initStatesZG[v] ELSE Zero,
                          {Times(f[e.src], e.w) : e \in {d \in edges : d.dst = v}}) \in Weight
  BY DEF Improved
<1> DEFINE into == {d \in edges : d.dst = v}
           image == {Times(f[e.src], e.w) : e \in into}
           product == [e \in into |-> Times(f[e.src], e.w)]
           base == IF v \in DOMAIN initStatesZG THEN initStatesZG[v] ELSE Zero
<1>1. base \in Weight
  BY DEF PieceInv, WeightLaws, CostsAreWeights
<1>2. image \subseteq Weight
  <2> SUFFICES ASSUME NEW e \in into PROVE Times(f[e.src], e.w) \in Weight
    OBVIOUS
  <2>1. e.src \in Live /\ e.w \in Weight
    BY DEF ZoneInv, GraphInv, PieceInv
  <2> QED
    BY <2>1 DEF WeightLaws, ProductsAreWeights
<1>3. IsFiniteSet(image)
  <2>1. IsFiniteSet(into)
    BY FS_Subset DEF PieceInv
  <2>2. product \in Surjection(into, image)
    BY DEF Surjection
  <2> HIDE DEF into, image, product
  <2> QED
    BY <2>1, <2>2, FS_Surjection
<1> HIDE DEF image, base
<1>4. Added(base, image) \in Weight
  BY <1>1, <1>2, <1>3, SumCovers DEF WeightLaws
<1> QED
  BY <1>4 DEF image, base

(* What holds of the distances that are all zero, and is kept by a round,  *)
(* holds of what bellman_ford returns.                                     *)
LEMMA DistancesStay ==
    ASSUME ZoneInv, NEW M, [v \in Live |-> Zero] \in M, \A m \in M : Improved(m) \in M
    PROVE  Distances \in M
<1> DEFINE Value(k, m) == Evaluated(Improved(m))
           Follows(f) == f = [k \in 0 .. Cardinality(Live) |->
                                IF k = 0 THEN [v \in Live |-> Zero] ELSE Evaluated(Improved(f[k - 1]))]
           step == [k \in 1 .. Cardinality(Live) |-> [m \in M |-> Value(k, m)]]
           after == CHOOSE f : Follows(f)
           Right == {k \in 0 .. Cardinality(Live) : after[k] \in M}
<1>1. Cardinality(Live) \in Nat
  BY LiveFinite
<1>2. [v \in Live |-> Zero] \in M
  OBVIOUS
<1>3. ASSUME NEW k \in 1 .. Cardinality(Live), NEW m \in M PROVE Value(k, m) \in M
  BY EvaluatedIs
<1>4. \A k \in 1 .. Cardinality(Live) : \A m \in M : step[k][m] = Value(k, m)
  OBVIOUS
<1>5. PICK f \in [0 .. Cardinality(Live) -> M] :
         \A k \in 0 .. Cardinality(Live) : f[k] = IF k = 0 THEN [v \in Live |-> Zero] ELSE step[k][f[k - 1]]
  <2>1. step \in [1 .. Cardinality(Live) -> [M -> M]]
    <3> HIDE DEF Value
    <3> QED
      BY <1>3
  <2> HIDE DEF step
  <2>2. Iterates(Cardinality(Live), M, [v \in Live |-> Zero], step) # {}
    BY <1>1, <1>2, <2>1, RecursionExists
  <2> QED
    BY <2>2 DEF Iterates
<1>6. ASSUME NEW k \in 0 .. Cardinality(Live) PROVE f[k] = IF k = 0 THEN [v \in Live |-> Zero] ELSE Value(k, f[k - 1])
  <2>1. CASE k = 0
    <3> HIDE DEF step, Value
    <3> QED
      BY <1>5, <2>1
  <2>2. CASE k # 0
    <3>1. k \in 1 .. Cardinality(Live) /\ k - 1 \in 0 .. Cardinality(Live)
      BY <1>1, <2>2
    <3>2. f[k] = step[k][f[k - 1]] /\ f[k - 1] \in M
      <4> HIDE DEF step
      <4> QED
        BY <1>5, <2>2, <3>1
    <3> HIDE DEF step, Value
    <3> QED
      BY Zenon, <1>4, <2>2, <3>1, <3>2
  <2> HIDE DEF step, Value
  <2> QED
    BY <2>1, <2>2
<1>7. Follows(f)
  <2>1. f = [k \in 0 .. Cardinality(Live) |-> f[k]]
    OBVIOUS
  <2>2. f = [k \in 0 .. Cardinality(Live) |-> IF k = 0 THEN [v \in Live |-> Zero] ELSE Value(k, f[k - 1])]
    <3> HIDE DEF Value
    <3> QED
      BY <1>6, <2>1
  <2> QED
    BY Zenon, <2>2
<1>8. Follows(after)
  <2> HIDE DEF Follows
  <2> QED
    BY <1>7
<1>9. \A k \in 0 .. Cardinality(Live) : after[k] = IF k = 0 THEN [v \in Live |-> Zero] ELSE Value(k, after[k - 1])
  <2>1. after = [k \in 0 .. Cardinality(Live) |-> IF k = 0 THEN [v \in Live |-> Zero] ELSE Value(k, after[k - 1])]
    BY Zenon, <1>8
  <2> HIDE DEF after, Value
  <2> QED
    BY <2>1
<1>10. \A k \in 0 .. Cardinality(Live) : k \in Right
  <2> HIDE DEF after, Value
  <2>1. 0 \in Right
    BY <1>1, <1>2, <1>9
  <2>2. ASSUME NEW k \in 0 .. Cardinality(Live) - 1, k \in Right PROVE k + 1 \in Right
    <3>1. k + 1 \in 1 .. Cardinality(Live) /\ k + 1 \in 0 .. Cardinality(Live) /\ (k + 1) - 1 = k /\ k + 1 # 0
      BY <1>1
    <3>2. after[k + 1] = Value(k + 1, after[k]) /\ after[k] \in M
      BY <1>9, <2>2, <3>1
    <3> QED
      BY <1>3, <3>1, <3>2
  <2> HIDE DEF Right
  <2> QED
    BY <1>1, <2>1, <2>2, InductionUpTo
<1>11. after[Cardinality(Live)] \in M
  <2>1. Cardinality(Live) \in 0 .. Cardinality(Live)
    BY <1>1
  <2> HIDE DEF after
  <2> QED
    BY <1>10, <2>1
<1>12. Distances = after[Cardinality(Live)]
  BY Zenon DEF Distances
<1> HIDE DEF after
<1> QED
  BY <1>11, <1>12

(* Every round leads from weights to weights.                              *)
LEMMA DistancesAreWeights ==
    ASSUME WeightLaws, ZoneInv, PieceInv
    PROVE  Distances \in [Live -> Weight]
<1>1. [v \in Live |-> Zero] \in [Live -> Weight]
  BY DEF WeightLaws, CostsAreWeights
<1>2. \A f \in [Live -> Weight] : Improved(f) \in [Live -> Weight]
  BY ImprovedIs
<1> QED
  BY <1>1, <1>2, DistancesStay

-----------------------------------------------------------------------------
(* Merging, from lists of zones to lists of zones.  No two zones of the    *)
(* list that it ends with can be merged.                                   *)

Zones == Seq(Matrix)

LEMMA MergeType == ASSUME NEW F \in Matrix, NEW E \in Matrix PROVE Merge(F, E) \in Matrix
<1>1. ConvexUnion(F, E) \in Matrix
  BY DEF ConvexUnion, Matrix, Higher
<1> QED
  BY <1>1 DEF Merge

Around(e, s, t) == s \o <<e>> \o t

LEMMA AroundType ==
    ASSUME NEW S, NEW s \in Seq(S), NEW e \in S, NEW t \in Seq(S)
    PROVE  Around(e, s, t) \in Seq(S)
<1>1. s \o <<e>> \in Seq(S)
  OBVIOUS
<1> QED
  BY <1>1 DEF Around

LEMMA AroundLength ==
    ASSUME NEW S, NEW s \in Seq(S), NEW e \in S, NEW t \in Seq(S)
    PROVE  Len(Around(e, s, t)) = Len(s) + 1 + Len(t)
<1>1. s \o <<e>> \in Seq(S) /\ Len(s \o <<e>>) = Len(s) + 1
  OBVIOUS
<1> QED
  BY <1>1 DEF Around

LEMMA AroundFront ==
    ASSUME NEW S, NEW s \in Seq(S), NEW e \in S, NEW t \in Seq(S),
           NEW i \in 1 .. Len(s)
    PROVE  Around(e, s, t)[i] = s[i]
<1>1. s \o <<e>> \in Seq(S) /\ Len(s \o <<e>>) = Len(s) + 1
  OBVIOUS
<1>2. (s \o <<e>>)[i] = s[i] /\ i \in 1 .. Len(s) + 1
  OBVIOUS
<1> QED
  BY <1>1, <1>2 DEF Around

LEMMA AroundCentre ==
    ASSUME NEW S, NEW s \in Seq(S), NEW e \in S, NEW t \in Seq(S)
    PROVE  Around(e, s, t)[Len(s) + 1] = e
<1>1. s \o <<e>> \in Seq(S) /\ Len(s \o <<e>>) = Len(s) + 1
  OBVIOUS
<1>2. (s \o <<e>>)[Len(s) + 1] = e /\ Len(s) + 1 \in 1 .. Len(s) + 1
  OBVIOUS
<1> QED
  BY <1>1, <1>2 DEF Around

LEMMA AroundBack ==
    ASSUME NEW S, NEW s \in Seq(S), NEW e \in S, NEW t \in Seq(S)
    PROVE  \A i \in 1 .. Len(t) : Around(e, s, t)[Len(s) + 1 + i] = t[i]
<1> DEFINE f == s \o <<e>>
<1>1. f \in Seq(S) /\ Len(f) = Len(s) + 1
  OBVIOUS
<1>2. Around(e, s, t) = f \o t
  BY DEF Around
<1> HIDE DEF f
<1>3. ASSUME NEW i \in 1 .. Len(t) PROVE Around(e, s, t)[Len(s) + 1 + i] = t[i]
  <2>1. Len(s) + 1 + i \in 1 .. Len(f) + Len(t) /\ ~ Len(s) + 1 + i <= Len(f)
        /\ Len(s) + 1 + i - Len(f) = i
    BY <1>1
  <2> QED
    BY <1>1, <1>2, <2>1
<1> QED
  BY <1>3

LEMMA SameSeq ==
    ASSUME NEW S, NEW s \in Seq(S), NEW t \in Seq(S), Len(s) = Len(t),
           \A i \in 1 .. Len(s) : s[i] = t[i]
    PROVE  s = t
  OBVIOUS

(* A set of zones that merging does not leave.                             *)
Merging(S) == S \subseteq Matrix /\ \A F, E \in S : Mergeable(F, E) => Merge(F, E) \in S

LEMMA MatrixMerging == Merging(Matrix)
  BY MergeType DEF Merging

LEMMA MergedIntoStays ==
    ASSUME NEW S, Merging(S), NEW zones \in Seq(S), NEW Z \in S
    PROVE  MergedInto(zones, Z) \in Seq(S)
<1> DEFINE able == {i \in DOMAIN zones : Mergeable(zones[i], Z)}
<1>1. CASE able = {}
  <2>1. MergedInto(zones, Z) = Append(zones, Z)
    BY <1>1 DEF MergedInto
  <2> QED
    BY <2>1
<1>2. CASE able # {}
  <2>1. MergedInto(zones, Z) = [zones EXCEPT ![Min(able)] = Merge(@, Z)]
    BY <1>2 DEF MergedInto
  <2>2. zones \in [1 .. Len(zones) -> S] /\ Len(zones) \in Nat
    OBVIOUS
  <2>3. Min(able) \in 1 .. Len(zones) /\ Merge(zones[Min(able)], Z) \in S
    <3>1. IsFiniteSet(1 .. Len(zones))
      BY <2>2, FS_Interval
    <3>2. able \subseteq 1 .. Len(zones) /\ able \subseteq Int
      BY <2>2
    <3>3. IsFiniteSet(able)
      BY <3>1, <3>2, FS_Subset
    <3>4. Min(able) \in able
      <4> HIDE DEF able
      <4> QED
        BY <1>2, <3>2, <3>3, MinIs
    <3>5. PICK k : k = Min(able)
      OBVIOUS
    <3>6. k \in 1 .. Len(zones) /\ Mergeable(zones[k], Z)
      BY <3>2, <3>4, <3>5
    <3> HIDE DEF able
    <3> QED
      BY <2>2, <3>5, <3>6 DEF Merging
  <2> HIDE DEF able
  <2>4. [zones EXCEPT ![Min(able)] = Merge(@, Z)] \in [1 .. Len(zones) -> S]
    BY <2>2, <2>3
  <2> QED
    BY <2>1, <2>3, <2>4
<1> QED
  BY <1>1, <1>2

Absorptions(S) == [zone : S, rest : Seq(S)]

LEMMA AbsorbStays ==
    ASSUME NEW S, Merging(S), NEW acc \in Absorptions(S), NEW Z \in S
    PROVE  Absorb(acc, Z) \in Absorptions(S)
<1>1. acc.zone \in S /\ acc.rest \in Seq(S)
  BY DEF Absorptions
<1>2. Mergeable(acc.zone, Z) => Merge(acc.zone, Z) \in S
  BY <1>1 DEF Merging
<1>3. Append(acc.rest, Z) \in Seq(S)
  BY <1>1
<1>4. CASE Mergeable(acc.zone, Z)
  <2>1. Absorb(acc, Z) = [acc EXCEPT !.zone = Merge(@, Z)]
    BY <1>4 DEF Absorb
  <2> QED
    BY <1>1, <1>2, <1>4, <2>1 DEF Absorptions
<1>5. CASE ~ Mergeable(acc.zone, Z)
  <2>1. Absorb(acc, Z) = [acc EXCEPT !.rest = Append(@, Z)]
    BY <1>5 DEF Absorb
  <2> QED
    BY <1>3, <2>1 DEF Absorptions
<1> QED
  BY <1>4, <1>5

(* The recursion of the second pass at k, as a sequence of steps.          *)
LEMMA AbsorbingRuns ==
    ASSUME NEW S, Merging(S), NEW zones \in Seq(S), NEW k \in 1 .. Len(zones)
    PROVE  \E upTo :
             /\ upTo[0] = [zone |-> zones[k], rest |-> <<>>]
             /\ \A n \in 1 .. Len(zones) - k : upTo[n] = Absorb(upTo[n - 1], zones[k + n])
             /\ \A n \in 0 .. Len(zones) - k : upTo[n] \in Absorptions(S)
             /\ Absorbing(zones, k) = SubSeq(zones, 1, k - 1) \o <<upTo[Len(zones) - k].zone>>
                                      \o upTo[Len(zones) - k].rest
<1> DEFINE A == Absorptions(S)
           base == [zone |-> zones[k], rest |-> <<>>]
           Value(n, m) == Absorb(m, zones[k + n])
           Follows(f) == f = [n \in 0 .. Len(zones) - k |->
                                IF n = 0 THEN [zone |-> zones[k], rest |-> <<>>]
                                ELSE Absorb(f[n - 1], zones[k + n])]
           step == [n \in 1 .. Len(zones) - k |-> [m \in A |-> Value(n, m)]]
           after == CHOOSE f : Follows(f)
           Right == {n \in 0 .. Len(zones) - k : after[n] \in A}
<1>1. Len(zones) - k \in Nat
  OBVIOUS
<1>2. base \in A
  BY DEF Absorptions
<1>3. ASSUME NEW n \in 1 .. Len(zones) - k, NEW m \in A PROVE Value(n, m) \in A
  BY AbsorbStays
<1>4. \A n \in 1 .. Len(zones) - k : \A m \in A : step[n][m] = Value(n, m)
  OBVIOUS
<1> HIDE DEF A
<1>5. PICK f \in [0 .. Len(zones) - k -> A] :
         \A n \in 0 .. Len(zones) - k : f[n] = IF n = 0 THEN base ELSE step[n][f[n - 1]]
  <2>1. step \in [1 .. Len(zones) - k -> [A -> A]]
    <3> HIDE DEF Value
    <3> QED
      BY <1>3
  <2> HIDE DEF step, base
  <2>2. Iterates(Len(zones) - k, A, base, step) # {}
    BY <1>1, <1>2, <2>1, RecursionExists
  <2> QED
    BY <2>2 DEF Iterates
<1>6. ASSUME NEW n \in 0 .. Len(zones) - k
      PROVE  f[n] = IF n = 0 THEN base ELSE Value(n, f[n - 1])
  <2>1. CASE n = 0
    <3> HIDE DEF step, Value, base
    <3> QED
      BY <1>5, <2>1
  <2>2. CASE n # 0
    <3>1. n \in 1 .. Len(zones) - k /\ n - 1 \in 0 .. Len(zones) - k
      BY <1>1, <2>2
    <3>2. f[n] = step[n][f[n - 1]] /\ f[n - 1] \in A
      <4> HIDE DEF step, base
      <4> QED
        BY <1>5, <2>2, <3>1
    <3> HIDE DEF step, Value, base
    <3> QED
      BY Zenon, <1>4, <2>2, <3>1, <3>2
  <2> HIDE DEF step, Value, base
  <2> QED
    BY <2>1, <2>2
<1>7. Follows(f)
  <2>1. f = [n \in 0 .. Len(zones) - k |-> f[n]]
    OBVIOUS
  <2>2. f = [n \in 0 .. Len(zones) - k |-> IF n = 0 THEN base ELSE Value(n, f[n - 1])]
    <3> HIDE DEF Value, base
    <3> QED
      BY <1>6, <2>1
  <2> QED
    BY Zenon, <2>2
<1>8. Follows(after)
  <2> HIDE DEF Follows
  <2> QED
    BY <1>7
<1>9. \A n \in 0 .. Len(zones) - k : after[n] = IF n = 0 THEN base ELSE Value(n, after[n - 1])
  <2>1. after = [n \in 0 .. Len(zones) - k |-> IF n = 0 THEN base ELSE Value(n, after[n - 1])]
    BY Zenon, <1>8
  <2> HIDE DEF after, Value, base
  <2> QED
    BY <2>1
<1>10. after[0] = base /\ \A n \in 1 .. Len(zones) - k : after[n] = Value(n, after[n - 1])
  <2> HIDE DEF after, Value, base
  <2>1. 0 \in 0 .. Len(zones) - k /\ \A n \in 1 .. Len(zones) - k : n \in 0 .. Len(zones) - k /\ n # 0
    BY <1>1
  <2> QED
    BY <1>9, <2>1
<1>11. \A n \in 0 .. Len(zones) - k : n \in Right
  <2> HIDE DEF after, Value, base
  <2>1. 0 \in Right
    BY <1>1, <1>2, <1>10
  <2>2. ASSUME NEW n \in 0 .. Len(zones) - k - 1, n \in Right PROVE n + 1 \in Right
    <3>1. n + 1 \in 1 .. Len(zones) - k /\ n + 1 \in 0 .. Len(zones) - k /\ (n + 1) - 1 = n
      BY <1>1
    <3>2. after[n + 1] = Value(n + 1, after[n]) /\ after[n] \in A
      BY <1>10, <2>2, <3>1
    <3> QED
      BY <1>3, <3>1, <3>2
  <2> HIDE DEF Right
  <2> QED
    BY <1>1, <2>1, <2>2, InductionUpTo
<1>12. Absorbing(zones, k) = SubSeq(zones, 1, k - 1) \o <<after[Len(zones) - k].zone>>
                             \o after[Len(zones) - k].rest
  BY Zenon DEF Absorbing
<1>13. \A n \in 1 .. Len(zones) - k : after[n] = Absorb(after[n - 1], zones[k + n])
  BY Zenon, <1>10
<1>14. \A n \in 0 .. Len(zones) - k : after[n] \in Absorptions(S)
  BY <1>11 DEF A
<1>15. after[0] = [zone |-> zones[k], rest |-> <<>>]
  BY <1>10
<1> HIDE DEF after
<1> QED
  BY <1>12, <1>13, <1>14, <1>15

(* No zone of the list can be merged with one behind it, starting with the *)
(* first k.                                                                *)
CleanUpTo(zones, k) ==
    \A i \in 1 .. k : \A j \in 1 .. Len(zones) : i < j => ~ Mergeable(zones[i], zones[j])

(* What a zone does not absorb stays as it was.                            *)
LEMMA AbsorbingStays ==
    ASSUME NEW S, Merging(S), NEW zones \in Seq(S), NEW k \in 1 .. Len(zones)
    PROVE  /\ Absorbing(zones, k) \in Seq(S)
           /\ Len(Absorbing(zones, k)) <= Len(zones)
           /\ Len(Absorbing(zones, k)) = Len(zones) =>
                /\ Absorbing(zones, k) = zones
                /\ \A j \in k + 1 .. Len(zones) : ~ Mergeable(zones[k], zones[j])
<1> DEFINE N == Len(zones) - k
<1>1. PICK upTo :
             /\ upTo[0] = [zone |-> zones[k], rest |-> <<>>]
             /\ \A n \in 1 .. N : upTo[n] = Absorb(upTo[n - 1], zones[k + n])
             /\ \A n \in 0 .. N : upTo[n] \in Absorptions(S)
             /\ Absorbing(zones, k) = SubSeq(zones, 1, k - 1) \o <<upTo[N].zone>> \o upTo[N].rest
  BY AbsorbingRuns
<1>2. N \in Nat /\ Len(zones) \in Nat /\ k \in Nat \ {0} /\ k <= Len(zones) /\ Len(zones) = N + k
  OBVIOUS
<1> DEFINE Spared(n) ==
             /\ upTo[n].zone = zones[k]
             /\ \A m \in 1 .. n : /\ upTo[n].rest[m] = zones[k + m]
                                  /\ ~ Mergeable(zones[k], zones[k + m])
           Right == {n \in 0 .. N : /\ Len(upTo[n].rest) <= n
                                    /\ Len(upTo[n].rest) = n => Spared(n)}
<1>3. ASSUME NEW n \in 0 .. N
      PROVE  upTo[n].zone \in S /\ upTo[n].rest \in Seq(S) /\ Len(upTo[n].rest) \in Nat
  <2>1. upTo[n] \in Absorptions(S)
    BY <1>1
  <2> QED
    BY <2>1 DEF Absorptions
<1>4. 0 \in Right
  <2>1. upTo[0].zone = zones[k] /\ upTo[0].rest = <<>>
    BY <1>1
  <2> HIDE DEF N
  <2> QED
    BY <1>2, <2>1
<1>5. ASSUME NEW n \in 0 .. N - 1, n \in Right PROVE n + 1 \in Right
  <2> HIDE DEF N
  <2>1. n \in Nat /\ n \in 0 .. N /\ n + 1 \in 1 .. N /\ n + 1 \in 0 .. N /\ (n + 1) - 1 = n
    BY <1>2
  <2>2. upTo[n + 1] = Absorb(upTo[n], zones[k + (n + 1)]) /\ upTo[n] \in Absorptions(S)
    BY <1>1, <2>1
  <2>3. Len(upTo[n].rest) <= n /\ (Len(upTo[n].rest) = n => Spared(n))
        /\ Len(upTo[n].rest) \in Nat /\ upTo[n].rest \in Seq(S)
    BY <1>3, <1>5, <2>1
  <2> DEFINE Z == zones[k + (n + 1)]
  <2>4. CASE Mergeable(upTo[n].zone, Z)
    <3>1. upTo[n + 1].rest = upTo[n].rest
      BY <2>2, <2>4 DEF Absorb, Absorptions
    <3>2. Len(upTo[n + 1].rest) < n + 1
      BY <2>1, <2>3, <3>1
    <3> QED
      BY <2>1, <3>2
  <2>5. CASE ~ Mergeable(upTo[n].zone, Z)
    <3>1. upTo[n + 1].rest = Append(upTo[n].rest, Z) /\ upTo[n + 1].zone = upTo[n].zone
      BY <2>2, <2>5 DEF Absorb, Absorptions
    <3>2. Len(upTo[n + 1].rest) = Len(upTo[n].rest) + 1
      BY <2>3, <3>1
    <3>3. ASSUME Len(upTo[n + 1].rest) = n + 1 PROVE Spared(n + 1)
      <4>1. Len(upTo[n].rest) = n /\ Spared(n)
        BY <2>1, <2>3, <3>2, <3>3
      <4>2. upTo[n + 1].zone = zones[k] /\ ~ Mergeable(zones[k], Z)
        BY <2>5, <3>1, <4>1
      <4>3. ASSUME NEW m \in 1 .. n + 1
            PROVE  upTo[n + 1].rest[m] = zones[k + m] /\ ~ Mergeable(zones[k], zones[k + m])
        <5>1. CASE m = n + 1
          <6>1. Append(upTo[n].rest, Z)[n + 1] = Z
            BY <2>3, <4>1
          <6> QED
            BY <3>1, <4>2, <5>1, <6>1
        <5>2. CASE m # n + 1
          <6>1. m \in 1 .. n
            BY <2>1, <5>2
          <6>2. Append(upTo[n].rest, Z)[m] = upTo[n].rest[m]
            BY <2>3, <4>1, <6>1
          <6> QED
            BY <3>1, <4>1, <6>1, <6>2
        <5> QED
          BY <5>1, <5>2
      <4> QED
        BY <4>2, <4>3
    <3> HIDE DEF Spared
    <3> QED
      BY <2>1, <2>3, <3>2, <3>3
  <2> QED
    BY <2>4, <2>5
<1>6. \A n \in 0 .. N : n \in Right
  <2> HIDE DEF Right, N
  <2> QED
    BY <1>2, <1>4, <1>5, InductionUpTo
<1> HIDE DEF N
<1>7. N \in 0 .. N /\ N \in Right
  BY <1>2, <1>6
<1> DEFINE front == SubSeq(zones, 1, k - 1)
           rest == upTo[N].rest
<1>8. /\ front \in Seq(S) /\ Len(front) = k - 1
      /\ \A i \in 1 .. k - 1 : front[i] = zones[i]
  BY <1>2
<1>9. /\ rest \in Seq(S) /\ Len(rest) \in Nat /\ Len(rest) <= N /\ (Len(rest) = N => Spared(N))
      /\ upTo[N].zone \in S
  BY <1>3, <1>7
<1>10. Absorbing(zones, k) = front \o <<upTo[N].zone>> \o rest
  BY <1>1
<1> HIDE DEF front, rest
<1>11. PICK all : all = Absorbing(zones, k)
  OBVIOUS
<1>12. /\ all \in Seq(S) /\ Len(all) = k + Len(rest)
       /\ \A i \in 1 .. k - 1 : all[i] = front[i]
       /\ all[k] = upTo[N].zone
       /\ \A i \in 1 .. Len(rest) : all[k + i] = rest[i]
  <2>1. upTo[N].zone \in S /\ k \in Nat /\ all = front \o <<upTo[N].zone>> \o rest
    BY Zenon, <1>2, <1>9, <1>10, <1>11
  <2>2. front \in Seq(S) /\ rest \in Seq(S) /\ Len(front) = k - 1
    BY <1>8, <1>9
  <2> DEFINE e == upTo[N].zone
  <2> HIDE DEF e
  <2>3. e \in S /\ all = Around(e, front, rest)
    BY Zenon, <2>1 DEF e, Around
  <2>4. all \in Seq(S)
    BY <2>2, <2>3, AroundType
  <2>5. Len(all) = k + Len(rest)
    <3>1. Len(all) = Len(front) + 1 + Len(rest)
      BY <2>2, <2>3, AroundLength
    <3> QED
      BY <2>1, <2>2, <3>1, <1>9
  <2>6. \A i \in 1 .. k - 1 : all[i] = front[i]
    BY <2>2, <2>3, AroundFront
  <2>7. all[k] = e
    <3>1. all[Len(front) + 1] = e
      BY <2>2, <2>3, AroundCentre
    <3>2. Len(front) + 1 = k
      BY <2>1, <2>2
    <3> QED
      BY Zenon, <3>1, <3>2
  <2>8. ASSUME NEW i \in 1 .. Len(rest) PROVE all[k + i] = rest[i]
    <3>1. Around(e, front, rest)[Len(front) + 1 + i] = rest[i]
      <4>1. front \in Seq(S) /\ rest \in Seq(S) /\ e \in S
        BY <2>2, <2>3
      <4>2. \A m \in 1 .. Len(rest) : Around(e, front, rest)[Len(front) + 1 + m] = rest[m]
        BY <4>1, AroundBack
      <4> QED
        BY Zenon, <4>2
    <3>2. Len(front) + 1 + i = k + i
      BY <2>1, <2>2
    <3> QED
      BY Zenon, <2>3, <3>1, <3>2
  <2> QED
    BY Zenon, <2>4, <2>5, <2>6, <2>7, <2>8 DEF e
<1>13. ASSUME Len(all) = Len(zones)
       PROVE  /\ all = zones
              /\ \A j \in k + 1 .. Len(zones) : ~ Mergeable(zones[k], zones[j])
  <2>1. Len(rest) = N /\ Spared(N)
    BY <1>2, <1>9, <1>12, <1>13
  <2>2. \A m \in 1 .. N : rest[m] = zones[k + m] /\ ~ Mergeable(zones[k], zones[k + m])
    BY <2>1 DEF rest
  <2>3. all[k] = zones[k]
    BY <1>12, <2>1
  <2>4. ASSUME NEW i \in 1 .. Len(zones) PROVE all[i] = zones[i]
    <3>1. CASE i < k
      <4>1. i \in 1 .. k - 1
        BY <1>2, <3>1
      <4> QED
        BY <1>8, <1>12, <4>1
    <3>2. CASE i = k
      BY <2>3, <3>2
    <3>3. CASE i > k
      <4>1. PICK m \in 1 .. N : k + m = i
        <5>1. i - k \in 1 .. N /\ k + (i - k) = i
          BY <1>2, <3>3
        <5> QED
          BY <5>1
      <4>2. all[k + m] = rest[m] /\ rest[m] = zones[k + m]
        BY Zenon, <1>12, <2>1, <2>2
      <4> QED
        BY Zenon, <4>1, <4>2
    <3> QED
      BY <1>2, <3>1, <3>2, <3>3
  <2>5. all = zones
    BY <1>12, <1>13, <2>4, SameSeq
  <2>6. ASSUME NEW j \in k + 1 .. Len(zones) PROVE ~ Mergeable(zones[k], zones[j])
    <3>1. j - k \in 1 .. N /\ k + (j - k) = j
      BY <1>2
    <3>2. ~ Mergeable(zones[k], zones[k + (j - k)])
      BY <2>2, <3>1
    <3> QED
      BY <3>1, <3>2
  <2> QED
    BY <2>5, <2>6
<1>14. Len(all) <= Len(zones)
  BY <1>2, <1>9, <1>12
<1> QED
  BY <1>11, <1>12, <1>13, <1>14

(* The same of the passes over a list,                                     *)
LEMMA SweepRuns ==
    ASSUME NEW S, Merging(S), NEW zones \in Seq(S)
    PROVE  \E upTo :
             /\ upTo[0] = zones
             /\ \A n \in 1 .. Len(zones) : upTo[n] = IF n > Len(upTo[n - 1]) THEN upTo[n - 1]
                      ELSE Absorbing(upTo[n - 1], n)
             /\ \A n \in 0 .. Len(zones) : upTo[n] \in Seq(S)
             /\ Sweep(zones) = upTo[Len(zones)]
<1> DEFINE A == Seq(S)
           Value(n, m) == IF n > Len(m) THEN m ELSE Absorbing(m, n)
           Follows(f) == f = [n \in 0 .. Len(zones) |->
                                IF n = 0 THEN zones
                                ELSE IF n > Len(f[n - 1]) THEN f[n - 1]
                      ELSE Absorbing(f[n - 1], n)]
           step == [n \in 1 .. Len(zones) |-> [m \in A |-> Value(n, m)]]
           after == CHOOSE f : Follows(f)
           Right == {n \in 0 .. Len(zones) : after[n] \in A}
<1>1. Len(zones) \in Nat /\ zones \in A
  OBVIOUS
<1>2. ASSUME NEW n \in 1 .. Len(zones), NEW m \in A PROVE Value(n, m) \in A
  <2>1. CASE n > Len(m)
    BY <2>1
  <2>2. CASE ~ n > Len(m)
    <3>1. n \in 1 .. Len(m) /\ Value(n, m) = Absorbing(m, n)
      BY <2>2
    <3> HIDE DEF Value
    <3> QED
      BY <3>1, AbsorbingStays
  <2> QED
    BY <2>1, <2>2
<1>3. \A n \in 1 .. Len(zones) : \A m \in A : step[n][m] = Value(n, m)
  OBVIOUS
<1> HIDE DEF A
<1>4. PICK f \in [0 .. Len(zones) -> A] :
         \A n \in 0 .. Len(zones) : f[n] = IF n = 0 THEN zones ELSE step[n][f[n - 1]]
  <2>1. step \in [1 .. Len(zones) -> [A -> A]]
    <3> HIDE DEF Value
    <3> QED
      BY <1>2
  <2> HIDE DEF step
  <2>2. Iterates(Len(zones), A, zones, step) # {}
    BY <1>1, <2>1, RecursionExists
  <2> QED
    BY <2>2 DEF Iterates
<1>5. ASSUME NEW n \in 0 .. Len(zones)
      PROVE  f[n] = IF n = 0 THEN zones ELSE Value(n, f[n - 1])
  <2>1. CASE n = 0
    <3> HIDE DEF step, Value
    <3> QED
      BY <1>4, <2>1
  <2>2. CASE n # 0
    <3>1. n \in 1 .. Len(zones) /\ n - 1 \in 0 .. Len(zones)
      BY <1>1, <2>2
    <3>2. f[n] = step[n][f[n - 1]] /\ f[n - 1] \in A
      <4> HIDE DEF step
      <4> QED
        BY <1>4, <2>2, <3>1
    <3> HIDE DEF step, Value
    <3> QED
      BY Zenon, <1>3, <2>2, <3>1, <3>2
  <2> HIDE DEF step, Value
  <2> QED
    BY <2>1, <2>2
<1>6. Follows(f)
  <2>1. f = [n \in 0 .. Len(zones) |-> f[n]]
    OBVIOUS
  <2>2. f = [n \in 0 .. Len(zones) |-> IF n = 0 THEN zones ELSE Value(n, f[n - 1])]
    <3> HIDE DEF Value
    <3> QED
      BY <1>5, <2>1
  <2> QED
    BY Zenon, <2>2
<1>7. Follows(after)
  <2> HIDE DEF Follows
  <2> QED
    BY <1>6
<1>8. \A n \in 0 .. Len(zones) : after[n] = IF n = 0 THEN zones ELSE Value(n, after[n - 1])
  <2>1. after = [n \in 0 .. Len(zones) |-> IF n = 0 THEN zones ELSE Value(n, after[n - 1])]
    BY Zenon, <1>7
  <2> HIDE DEF after, Value
  <2> QED
    BY <2>1
<1>9. after[0] = zones /\ \A n \in 1 .. Len(zones) : after[n] = Value(n, after[n - 1])
  <2> HIDE DEF after, Value
  <2>1. 0 \in 0 .. Len(zones) /\ \A n \in 1 .. Len(zones) : n \in 0 .. Len(zones) /\ n # 0
    BY <1>1
  <2> QED
    BY <1>8, <2>1
<1>10. \A n \in 0 .. Len(zones) : n \in Right
  <2> HIDE DEF after, Value
  <2>1. 0 \in Right
    BY <1>1, <1>9
  <2>2. ASSUME NEW n \in 0 .. Len(zones) - 1, n \in Right PROVE n + 1 \in Right
    <3>1. n + 1 \in 1 .. Len(zones) /\ n + 1 \in 0 .. Len(zones) /\ (n + 1) - 1 = n
      BY <1>1
    <3>2. after[n + 1] = Value(n + 1, after[n]) /\ after[n] \in A
      BY <1>9, <2>2, <3>1
    <3> QED
      BY <1>2, <3>1, <3>2
  <2> HIDE DEF Right
  <2> QED
    BY <1>1, <2>1, <2>2, InductionUpTo
<1>11. Sweep(zones) = after[Len(zones)]
  BY Zenon DEF Sweep
<1>12. \A n \in 1 .. Len(zones) : after[n] = IF n > Len(after[n - 1]) THEN after[n - 1]
                      ELSE Absorbing(after[n - 1], n)
  BY Zenon, <1>9
<1>13. \A n \in 0 .. Len(zones) : after[n] \in Seq(S)
  BY <1>10 DEF A
<1>14. after[0] = zones
  BY <1>9
<1> HIDE DEF after
<1> QED
  BY <1>11, <1>12, <1>13, <1>14

(* No zone of the list can be merged with one behind it.                   *)
Clean(zones) == CleanUpTo(zones, Len(zones))

LEMMA SweepStays ==
    ASSUME NEW S, Merging(S), NEW zones \in Seq(S)
    PROVE  /\ Sweep(zones) \in Seq(S)
           /\ Len(Sweep(zones)) <= Len(zones)
           /\ Len(Sweep(zones)) = Len(zones) => Sweep(zones) = zones /\ Clean(zones)
<1>1. PICK upTo :
             /\ upTo[0] = zones
             /\ \A n \in 1 .. Len(zones) : upTo[n] = IF n > Len(upTo[n - 1]) THEN upTo[n - 1]
                                                    ELSE Absorbing(upTo[n - 1], n)
             /\ \A n \in 0 .. Len(zones) : upTo[n] \in Seq(S)
             /\ Sweep(zones) = upTo[Len(zones)]
  BY SweepRuns
<1>2. Len(zones) \in Nat
  OBVIOUS
<1> DEFINE Right == {n \in 0 .. Len(zones) :
                       /\ Len(upTo[n]) <= Len(zones)
                       /\ Len(upTo[n]) = Len(zones) => upTo[n] = zones /\ CleanUpTo(zones, n)}
<1>3. 0 \in Right
  BY <1>1, <1>2 DEF CleanUpTo
<1>4. ASSUME NEW n \in 0 .. Len(zones) - 1, n \in Right PROVE n + 1 \in Right
  <2> DEFINE prev == upTo[n]
             next == upTo[n + 1]
  <2>1. n \in Nat /\ n \in 0 .. Len(zones) /\ n + 1 \in 1 .. Len(zones)
        /\ n + 1 \in 0 .. Len(zones) /\ (n + 1) - 1 = n
    BY <1>2
  <2>2. /\ prev \in Seq(S) /\ Len(prev) \in Nat /\ Len(prev) <= Len(zones)
        /\ Len(prev) = Len(zones) => prev = zones /\ CleanUpTo(zones, n)
    BY <1>1, <1>4, <2>1
  <2>3. next = IF n + 1 > Len(prev) THEN prev ELSE Absorbing(prev, n + 1)
    BY <1>1, <2>1
  <2> HIDE DEF prev, next
  <2>4. /\ Len(next) <= Len(zones)
        /\ Len(next) = Len(zones) => next = zones /\ CleanUpTo(zones, n + 1)
    <3>1. CASE n + 1 > Len(prev)
      BY <2>1, <2>2, <2>3, <3>1
    <3>2. CASE ~ n + 1 > Len(prev)
      <4>1. next = Absorbing(prev, n + 1) /\ n + 1 \in 1 .. Len(prev)
        BY <2>1, <2>2, <2>3, <3>2
      <4>2. /\ next \in Seq(S) /\ Len(next) <= Len(prev)
            /\ Len(next) = Len(prev) =>
                 /\ next = prev
                 /\ \A j \in (n + 1) + 1 .. Len(prev) : ~ Mergeable(prev[n + 1], prev[j])
        BY <2>2, <4>1, AbsorbingStays
      <4>3. Len(next) \in Nat
        BY <4>2
      <4>4. Len(next) <= Len(zones)
        BY <1>2, <2>2, <4>2, <4>3
      <4>5. ASSUME Len(next) = Len(zones) PROVE next = zones /\ CleanUpTo(zones, n + 1)
        <5>1. Len(prev) = Len(zones) /\ Len(next) = Len(prev)
          BY <1>2, <2>2, <4>2, <4>3, <4>5
        <5>2. prev = zones /\ CleanUpTo(zones, n) /\ next = zones
          BY <2>2, <4>2, <5>1
        <5>3. \A j \in (n + 1) + 1 .. Len(zones) : ~ Mergeable(zones[n + 1], zones[j])
          BY <4>2, <5>1, <5>2
        <5>4. ASSUME NEW i \in 1 .. n + 1, NEW j \in 1 .. Len(zones), i < j
              PROVE  ~ Mergeable(zones[i], zones[j])
          <6>1. CASE i = n + 1
            <7>1. j \in (n + 1) + 1 .. Len(zones)
              BY <2>1, <5>4, <6>1
            <7> QED
              BY <5>3, <6>1, <7>1
          <6>2. CASE i # n + 1
            <7>1. i \in 1 .. n
              BY <2>1, <6>2
            <7> QED
              BY <5>2, <5>4, <7>1 DEF CleanUpTo
          <6> QED
            BY <6>1, <6>2
        <5> QED
          BY <5>2, <5>4 DEF CleanUpTo
      <4> QED
        BY <4>4, <4>5
    <3> QED
      BY <3>1, <3>2
  <2> QED
    BY <2>1, <2>4 DEF next
<1>5. \A n \in 0 .. Len(zones) : n \in Right
  <2> HIDE DEF Right
  <2> QED
    BY <1>2, <1>3, <1>4, InductionUpTo
<1>6. Len(zones) \in Right /\ Len(zones) \in 0 .. Len(zones)
  BY <1>2, <1>5
<1> QED
  BY <1>1, <1>6 DEF Clean

(* and of the rounds.                                                      *)
LEMMA SweptRuns ==
    ASSUME NEW S, Merging(S), NEW zones \in Seq(S)
    PROVE  \E upTo :
             /\ upTo[0] = zones
             /\ \A n \in 1 .. Len(zones) : upTo[n] = Sweep(upTo[n - 1])
             /\ \A n \in 0 .. Len(zones) : upTo[n] \in Seq(S)
             /\ Swept(zones) = upTo[Len(zones)]
<1> DEFINE A == Seq(S)
           Value(n, m) == Sweep(m)
           Follows(f) == f = [n \in 0 .. Len(zones) |->
                                IF n = 0 THEN zones
                                ELSE Sweep(f[n - 1])]
           step == [n \in 1 .. Len(zones) |-> [m \in A |-> Value(n, m)]]
           after == CHOOSE f : Follows(f)
           Right == {n \in 0 .. Len(zones) : after[n] \in A}
<1>1. Len(zones) \in Nat /\ zones \in A
  OBVIOUS
<1>2. ASSUME NEW n \in 1 .. Len(zones), NEW m \in A PROVE Value(n, m) \in A
  BY SweepStays DEF A
<1>3. \A n \in 1 .. Len(zones) : \A m \in A : step[n][m] = Value(n, m)
  OBVIOUS
<1> HIDE DEF A
<1>4. PICK f \in [0 .. Len(zones) -> A] :
         \A n \in 0 .. Len(zones) : f[n] = IF n = 0 THEN zones ELSE step[n][f[n - 1]]
  <2>1. step \in [1 .. Len(zones) -> [A -> A]]
    <3> HIDE DEF Value
    <3> QED
      BY <1>2
  <2> HIDE DEF step
  <2>2. Iterates(Len(zones), A, zones, step) # {}
    BY <1>1, <2>1, RecursionExists
  <2> QED
    BY <2>2 DEF Iterates
<1>5. ASSUME NEW n \in 0 .. Len(zones)
      PROVE  f[n] = IF n = 0 THEN zones ELSE Value(n, f[n - 1])
  <2>1. CASE n = 0
    <3> HIDE DEF step, Value
    <3> QED
      BY <1>4, <2>1
  <2>2. CASE n # 0
    <3>1. n \in 1 .. Len(zones) /\ n - 1 \in 0 .. Len(zones)
      BY <1>1, <2>2
    <3>2. f[n] = step[n][f[n - 1]] /\ f[n - 1] \in A
      <4> HIDE DEF step
      <4> QED
        BY <1>4, <2>2, <3>1
    <3> HIDE DEF step, Value
    <3> QED
      BY Zenon, <1>3, <2>2, <3>1, <3>2
  <2> HIDE DEF step, Value
  <2> QED
    BY <2>1, <2>2
<1>6. Follows(f)
  <2>1. f = [n \in 0 .. Len(zones) |-> f[n]]
    OBVIOUS
  <2>2. f = [n \in 0 .. Len(zones) |-> IF n = 0 THEN zones ELSE Value(n, f[n - 1])]
    <3> HIDE DEF Value
    <3> QED
      BY <1>5, <2>1
  <2> QED
    BY Zenon, <2>2
<1>7. Follows(after)
  <2> HIDE DEF Follows
  <2> QED
    BY <1>6
<1>8. \A n \in 0 .. Len(zones) : after[n] = IF n = 0 THEN zones ELSE Value(n, after[n - 1])
  <2>1. after = [n \in 0 .. Len(zones) |-> IF n = 0 THEN zones ELSE Value(n, after[n - 1])]
    BY Zenon, <1>7
  <2> HIDE DEF after, Value
  <2> QED
    BY <2>1
<1>9. after[0] = zones /\ \A n \in 1 .. Len(zones) : after[n] = Value(n, after[n - 1])
  <2> HIDE DEF after, Value
  <2>1. 0 \in 0 .. Len(zones) /\ \A n \in 1 .. Len(zones) : n \in 0 .. Len(zones) /\ n # 0
    BY <1>1
  <2> QED
    BY <1>8, <2>1
<1>10. \A n \in 0 .. Len(zones) : n \in Right
  <2> HIDE DEF after, Value
  <2>1. 0 \in Right
    BY <1>1, <1>9
  <2>2. ASSUME NEW n \in 0 .. Len(zones) - 1, n \in Right PROVE n + 1 \in Right
    <3>1. n + 1 \in 1 .. Len(zones) /\ n + 1 \in 0 .. Len(zones) /\ (n + 1) - 1 = n
      BY <1>1
    <3>2. after[n + 1] = Value(n + 1, after[n]) /\ after[n] \in A
      BY <1>9, <2>2, <3>1
    <3> QED
      BY <1>2, <3>1, <3>2
  <2> HIDE DEF Right
  <2> QED
    BY <1>1, <2>1, <2>2, InductionUpTo
<1>11. Swept(zones) = after[Len(zones)]
  BY Zenon DEF Swept
<1>12. \A n \in 1 .. Len(zones) : after[n] = Sweep(after[n - 1])
  BY Zenon, <1>9
<1>13. \A n \in 0 .. Len(zones) : after[n] \in Seq(S)
  BY <1>10 DEF A
<1>14. after[0] = zones
  BY <1>9
<1> HIDE DEF after
<1> QED
  BY <1>11, <1>12, <1>13, <1>14

(* As many rounds as there are zones are enough: all but the last take at  *)
(* least one away.                                                         *)
LEMMA SweptClean ==
    ASSUME NEW S, Merging(S), NEW zones \in Seq(S)
    PROVE  Swept(zones) \in Seq(S) /\ Clean(Swept(zones))
<1>1. PICK round :
             /\ round[0] = zones
             /\ \A n \in 1 .. Len(zones) : round[n] = Sweep(round[n - 1])
             /\ \A n \in 0 .. Len(zones) : round[n] \in Seq(S)
             /\ Swept(zones) = round[Len(zones)]
  BY SweptRuns
<1>2. Len(zones) \in Nat
  OBVIOUS
<1> DEFINE Right == {n \in 0 .. Len(zones) :
                       \/ Sweep(round[n]) = round[n] /\ Clean(round[n])
                       \/ Len(round[n]) <= Len(zones) - n}
<1>3. 0 \in Right
  BY <1>1, <1>2
<1>4. ASSUME NEW n \in 0 .. Len(zones) - 1, n \in Right PROVE n + 1 \in Right
  <2> DEFINE prev == round[n]
             next == round[n + 1]
  <2>1. n \in Nat /\ n \in 0 .. Len(zones) /\ n + 1 \in 1 .. Len(zones)
        /\ n + 1 \in 0 .. Len(zones) /\ (n + 1) - 1 = n
    BY <1>2
  <2>2. prev \in Seq(S) /\ Len(prev) \in Nat /\ next \in Seq(S) /\ Len(next) \in Nat
    BY <1>1, <2>1
  <2>3. next = Sweep(prev)
    BY <1>1, <2>1
  <2>4. \/ Sweep(prev) = prev /\ Clean(prev)
        \/ Len(prev) <= Len(zones) - n
    BY <1>4
  <2> HIDE DEF prev, next
  <2>5. /\ Len(next) <= Len(prev)
        /\ Len(next) = Len(prev) => next = prev /\ Clean(prev)
    BY <2>2, <2>3, SweepStays
  <2>6. \/ Sweep(next) = next /\ Clean(next)
        \/ Len(next) <= Len(zones) - (n + 1)
    <3>1. CASE Sweep(prev) = prev /\ Clean(prev)
      BY <2>3, <3>1
    <3>2. CASE Len(next) = Len(prev)
      BY <2>3, <2>5, <3>2
    <3>3. CASE Len(prev) <= Len(zones) - n /\ Len(next) # Len(prev)
      BY <1>2, <2>1, <2>2, <2>5, <3>3
    <3> QED
      BY <2>4, <3>1, <3>2, <3>3
  <2> QED
    BY <2>1, <2>6 DEF next
<1>5. \A n \in 0 .. Len(zones) : n \in Right
  <2> HIDE DEF Right
  <2> QED
    BY <1>2, <1>3, <1>4, InductionUpTo
<1>6. Len(zones) \in Right /\ Len(zones) \in 0 .. Len(zones)
  BY <1>2, <1>5
<1> DEFINE all == round[Len(zones)]
<1>7. all \in Seq(S) /\ Len(all) \in Nat /\ (Clean(all) \/ Len(all) <= 0)
  BY <1>1, <1>2, <1>6
<1> HIDE DEF all
<1>8. Clean(all)
  <2>1. CASE Len(all) <= 0
    <3>1. Len(all) = 0
      BY <1>7, <2>1
    <3> QED
      BY <3>1 DEF Clean, CleanUpTo
  <2> QED
    BY <1>7, <2>1
<1> QED
  BY <1>1, <1>7, <1>8 DEF all

-----------------------------------------------------------------------------
(* The zones of the configurations that enter a piece                      *)

LEMMA AtEndType == ASSUME WellFormed(call), NEW Z \in Matrix PROVE AtEnd(Z) \in Matrix
<1> DEFINE F == TightenWithoutClose(Z, 0, T, Le(-call.duration))
           E == TightenWithoutClose(F, T, 0, Le(call.duration))
<1>1. Le(call.duration) \in Bound /\ Le(-call.duration) \in Bound
  <2>1. call.duration \in Nat /\ Le(call.duration) < Infinity
    BY DEF WellFormed
  <2>2. Le(call.duration) \in Int /\ Le(-call.duration) \in Int
    BY <2>1 DEF Le
  <2>3. Le(-call.duration) <= Le(call.duration)
    BY <2>1 DEF Le
  <2> QED
    BY <2>1, <2>2, <2>3, DBMAssumption DEF Bound
<1>2. F \in Matrix
  BY <1>1, DwellVar, TightenWithoutCloseIs
<1>3. E \in Matrix
  <2> HIDE DEF F
  <2> QED
    BY <1>1, <1>2, DwellVar, TightenWithoutCloseIs
<1>4. AtEnd(Z) = Canonize(E)
  BY DEF AtEnd
<1> HIDE DEF E
<1> QED
  BY <1>3, <1>4, CanonizeShortens

LEMMA InitialZoneIs == initialZone \in Matrix /\ Metric(initialZone) /\
    (\A i, j \in Var : initialZone[i][j] = IF i = T THEN Infinity ELSE Le(0))
  BY DwellVar, FreedDwellIs DEF initialZone, FreeDwell

(* A new match has not waited yet.                                         *)
LEMMA InitialEnters ==
    ASSUME NEW i \in DOMAIN TA.init
    PROVE  Valid(InitialConf(TA.init[i])) /\ Entering(InitialConf(TA.init[i]))
<1>1. TA.init[i] \in Locations /\ ~ IsMatch(TA.init[i])
  BY QTPMAssumption
<1>2. <<>> \in Seq(Seq(Int)) /\ <<>> \in Seq(Values)
  OBVIOUS
<1>3. initialZone[0][T] <= Le(0)
  BY DwellVar, InitialZoneIs DEF Le
<1> QED
  BY <1>1, <1>2, <1>3, InitialZoneIs DEF InitialConf, Valid, Confs, Entering

(* The dwell time starts again.                                            *)
LEMMA DwellReset ==
    ASSUME NEW Z \in Matrix
    PROVE  Reset(Z, T) \in Matrix /\ Reset(Z, T)[0][T] <= Le(0)
<1>1. Aliased(Z, T)[0][T] = Le(0)
  BY DwellVar DEF Aliased
<1> QED
  BY <1>1, DwellVar, ResetShortens

(* A configuration of the last piece.                                      *)
Carried(conf) == Valid(conf) /\ ~ IsMatch(conf.vertex) /\ conf.valuations \in Seq(Values)

LEMMA ConfEnters ==
    ASSUME NEW conf, Carried(conf), NEW valuation \in Values
    PROVE  Valid(Entered(conf, valuation)) /\ Entering(Entered(conf, valuation))
<1> DEFINE e == Entered(conf, valuation)
           Z == Reset(conf.zone, T)
<1>1. /\ conf \in Confs /\ conf.zone \in Matrix /\ conf.valuations \in Seq(Values)
      /\ conf.valuations \in Seq(Seq(Int)) /\ ~ IsMatch(conf.vertex)
      /\ conf.jumpable <=> conf.valuations # <<>>
  BY DEF Carried, Valid, Confs
<1>2. Z \in Matrix /\ Z[0][T] <= Le(0)
  BY <1>1, DwellReset
<1>3. valuation \in Seq(Int)
  BY QTPMAssumption DEF Values
<1> HIDE DEF Z
<1>4. CASE conf.jumpable
  <2>1. e = [conf EXCEPT !.zone = Elapse(Z), !.valuations = Append(@, valuation)]
    BY <1>1, <1>4 DEF Entered, Z, Confs
  <2>2. Elapse(Z) \in Matrix /\ Elapse(Z)[0][T] <= Lt(0)
    BY <1>2, ElapseTakesTime
  <2>3. /\ Append(conf.valuations, valuation) \in Seq(Values)
        /\ Append(conf.valuations, valuation) \in Seq(Seq(Int))
        /\ Append(conf.valuations, valuation) # <<>>
    BY Zenon, <1>1, <1>3, Appended
  <2> HIDE DEF e
  <2>4. /\ e \in Confs /\ e.zone = Elapse(Z) /\ e.jumpable = conf.jumpable
        /\ e.valuations = Append(conf.valuations, valuation)
    BY <1>1, <2>1, <2>2, <2>3 DEF Confs
  <2>5. Elapse(Z)[0][T] \in Int
    BY <2>2, DwellVar, Entries
  <2>6. Elapse(Z)[0][T] <= Le(0)
    BY <2>2, <2>5 DEF Le, Lt
  <2>7. Valid(e)
    BY <1>4, <2>3, <2>4 DEF Valid
  <2>8. Entering(e)
    BY <2>2, <2>3, <2>4, <2>6 DEF Entering
  <2> QED
    BY <2>7, <2>8 DEF e
<1>5. CASE ~ conf.jumpable
  <2>1. e = [conf EXCEPT !.zone = Z]
    BY <1>1, <1>5 DEF Entered, Z, Confs
  <2> HIDE DEF e
  <2>2. /\ e \in Confs /\ e.zone = Z /\ e.jumpable = conf.jumpable
        /\ e.valuations = conf.valuations /\ e.vertex = conf.vertex
    BY <1>1, <1>2, <2>1 DEF Confs
  <2>3. Valid(e)
    BY <1>1, <2>2 DEF Valid
  <2>4. Entering(e)
    BY <1>1, <1>2, <1>5, <2>2 DEF Entering
  <2> QED
    BY <2>3, <2>4 DEF e
<1> QED
  BY <1>4, <1>5

-----------------------------------------------------------------------------
(* The inductive invariant of the engine                                   *)

(* Between two calls of feed there is no graph.                            *)
NoCall ==
    /\ pc = "done"
    /\ nodes = <<>> /\ edges = {} /\ initStatesZG = <<>> /\ toZGState = <<>>
    /\ nextConf = <<>> /\ currentConf = <<>> /\ removedVertices = {}
    /\ from = 0 /\ pending = <<>> /\ freed = {} /\ born = 0

Resting == [conf : {c \in Confs : Carried(c)}, weight : Weight]

Groups ==
    {g \in [vertex : Locations, jumpable : BOOLEAN, valuations : Seq(Seq(Int)),
            weight : Weight] :
        /\ ~ IsMatch(g.vertex) /\ g.valuations \in Seq(Values)
        /\ g.jumpable <=> g.valuations # <<>>}

(* What is kept from one piece to the next,                                *)
KeptInv ==
    /\ fed \in Seq(Pieces) /\ Len(fed) <= MaxPieces /\ absTime \in Nat
    /\ IsFiniteSet(configuration) /\ configuration \subseteq Resting
    /\ result \in [DOMAIN result -> Weight] /\ DOMAIN result \subseteq [1 .. 6 -> Int]

(* and the locals of feed.                                                 *)
FeedInv ==
    /\ stage \in {"idle", "construct", "collect"}
    /\ IF stage = "idle" THEN NoCall ELSE ZoneInv /\ PieceInv
    /\ uncollected \subseteq Live /\ (stage = "collect" => pc = "done")
    /\ IF stage = "collect" THEN distance \in [Live -> Weight] ELSE uncollected = {}
    /\ \A v \in uncollected : ~ IsMatch(nodes[v].vertex)
    /\ IsFiniteSet(DOMAIN confMap) /\ DOMAIN confMap \subseteq Groups
    /\ \A g \in DOMAIN confMap : confMap[g] \in Zones

EngineInv == KeptInv /\ FeedInv

LEMMA EngineStarts == EngineInit => EngineInv
<1> SUFFICES ASSUME EngineInit PROVE EngineInv
  OBVIOUS
<1>1. /\ configuration = {} /\ absTime = 0 /\ result = <<>> /\ stage = "idle" /\ fed = <<>>
      /\ uncollected = {} /\ confMap = <<>> /\ NoCall
  BY DEF EngineInit, NoCall
<1>2. IsFiniteSet({}) /\ DOMAIN <<>> = {}
  BY FS_EmptySet
<1>3. KeptInv
  <2>1. fed \in Seq(Pieces) /\ Len(fed) <= MaxPieces /\ absTime \in Nat
    BY <1>1, QTPMAssumption
  <2>2. result \in [DOMAIN result -> Weight] /\ DOMAIN result \subseteq [1 .. 6 -> Int]
    BY <1>1, <1>2
  <2> QED
    BY <1>1, <1>2, <2>1, <2>2 DEF KeptInv
<1>4. FeedInv
  BY <1>1, <1>2 DEF FeedInv
<1> QED
  BY <1>3, <1>4 DEF EngineInv

(* The call of the construction that feed makes.                           *)
Arrivals == [conf : {c \in Confs : Valid(c) /\ Entering(c)}, weight : Weight]

LEMMA SeqOfItems == ASSUME NEW A, NEW s \in Seq(A) PROVE s \in Seq({s[i] : i \in DOMAIN s})
<1> DEFINE items == {s[i] : i \in DOMAIN s}
<1>1. Len(s) \in Nat /\ DOMAIN s = 1 .. Len(s) /\ s = [i \in 1 .. Len(s) |-> s[i]]
  OBVIOUS
<1>2. \A i \in 1 .. Len(s) : s[i] \in items
  BY <1>1
<1> HIDE DEF items
<1>3. s \in [1 .. Len(s) -> items]
  BY <1>1, <1>2
<1>4. s \in Seq(items)
  BY <1>1, <1>3
<1> QED
  BY <1>4 DEF items

(* What is true of all that enter and of all that begin is true of the call.*)
LEMMA ArrivalsAre ==
    ASSUME IsFiniteSet(configuration), NEW piece \in Pieces, NEW S,
           \A c \in configuration : [c EXCEPT !.conf = Entered(@, piece.valuation)] \in S,
           \A i \in DOMAIN TA.init :
               [conf |-> InitialConf(TA.init[i]), weight |-> One] \in S
    PROVE  LET confs == Listed({[c EXCEPT !.conf = Entered(@, piece.valuation)] :
                                   c \in configuration})
                          \o [i \in DOMAIN TA.init |->
                                 [conf |-> InitialConf(TA.init[i]), weight |-> One]]
           IN  confs \in Seq(S) /\ confs # <<>>
<1> DEFINE enter(c) == [c EXCEPT !.conf = Entered(@, piece.valuation)]
           old == {enter(c) : c \in configuration}
           entering == [c \in configuration |-> enter(c)]
           begin(i) == [conf |-> InitialConf(TA.init[i]), weight |-> One]
           new == [i \in DOMAIN TA.init |-> begin(i)]
<1>1. (\A c \in configuration : enter(c) \in S) /\ (\A i \in DOMAIN TA.init : begin(i) \in S)
  OBVIOUS
<1>2. IsFiniteSet(old)
  <2> HIDE DEF enter
  <2>1. entering \in Surjection(configuration, old)
    BY DEF Surjection
  <2> HIDE DEF entering, old
  <2> QED
    BY <2>1, FS_Surjection
<1>3. Listed(old) \in Seq(S)
  <2> HIDE DEF enter
  <2>1. old \subseteq S
    BY <1>1
  <2> HIDE DEF old
  <2>2. Listed(old) \in Seq(old)
    BY <1>2, ListedIs
  <2> QED
    BY <2>1, <2>2
<1>4. new \in Seq(S) /\ Len(new) \in Nat \ {0}
  <2> HIDE DEF begin
  <2>1. DOMAIN TA.init = 1 .. Len(TA.init) /\ Len(TA.init) \in Nat \ {0}
    BY QTPMAssumption
  <2> QED
    BY <1>1, <2>1
<1> HIDE DEF old, new
<1>5. Listed(old) \o new \in Seq(S) /\ Len(Listed(old) \o new) # 0
  BY <1>3, <1>4
<1>6. Listed(old) \o new # <<>>
  BY <1>5
<1> QED
  BY <1>5, <1>6 DEF old, new

LEMMA ArrivalsEnter ==
    ASSUME CostsAreWeights, KeptInv, NEW piece \in Pieces
    PROVE  LET confs == Listed({[c EXCEPT !.conf = Entered(@, piece.valuation)] :
                                   c \in configuration})
                          \o [i \in DOMAIN TA.init |->
                                 [conf |-> InitialConf(TA.init[i]), weight |-> One]]
           IN  confs \in Seq(Arrivals) /\ confs # <<>>
<1> DEFINE enter(c) == [c EXCEPT !.conf = Entered(@, piece.valuation)]
<1>1. piece.valuation \in Values
  BY DEF Values
<1>2. ASSUME NEW c \in configuration PROVE enter(c) \in Arrivals
  <2>1. c \in Resting /\ c.conf \in Confs /\ Carried(c.conf) /\ c.weight \in Weight
    BY DEF KeptInv, Resting
  <2>2. /\ Entered(c.conf, piece.valuation) \in Confs
        /\ Valid(Entered(c.conf, piece.valuation))
        /\ Entering(Entered(c.conf, piece.valuation))
    BY <1>1, <2>1, ConfEnters DEF Valid
  <2>3. enter(c) = [conf |-> Entered(c.conf, piece.valuation), weight |-> c.weight]
    BY <2>1 DEF Resting
  <2> HIDE DEF enter
  <2> QED
    BY <2>1, <2>2, <2>3 DEF Arrivals
<1>3. ASSUME NEW i \in DOMAIN TA.init
      PROVE  [conf |-> InitialConf(TA.init[i]), weight |-> One] \in Arrivals
  BY InitialEnters DEF Arrivals, CostsAreWeights, Valid
<1>4. IsFiniteSet(configuration)
  BY DEF KeptInv
<1> QED
  BY <1>2, <1>3, <1>4, ArrivalsAre

LEMMA FeedKeeps ==
    ASSUME CostsAreWeights, EngineInv, NEW piece \in Pieces, Feed(piece)
    PROVE  EngineInv'
<1> DEFINE confs == Listed({[c EXCEPT !.conf = Entered(@, piece.valuation)] :
                                c \in configuration})
                      \o [i \in DOMAIN TA.init |->
                             [conf |-> InitialConf(TA.init[i]), weight |-> One]]
<1>1. /\ stage = "idle" /\ Len(fed) < MaxPieces /\ stage' = "construct" /\ pc' = "init"
      /\ call' = [confs |-> confs, valuation |-> piece.valuation,
                  duration |-> piece.duration]
      /\ configuration' = {} /\ fed' = Append(fed, piece)
      /\ absTime' = absTime /\ result' = result
      /\ distance' = distance /\ uncollected' = uncollected /\ confMap' = confMap
      /\ nodes' = nodes /\ edges' = edges /\ initStatesZG' = initStatesZG
      /\ toZGState' = toZGState /\ nextConf' = nextConf /\ currentConf' = currentConf
      /\ removedVertices' = removedVertices /\ from' = from /\ pending' = pending
      /\ freed' = freed /\ born' = born
  BY Zenon DEF Feed, graphVars
<1>2. confs \in Seq(Arrivals) /\ confs # <<>>
  BY ArrivalsEnter DEF EngineInv
<1> HIDE DEF confs
<1>3. NoCall /\ uncollected = {}
  BY <1>1 DEF EngineInv, FeedInv
<1>4. KeptInv'
  <2>1. fed' \in Seq(Pieces) /\ Len(fed') <= MaxPieces
    BY <1>1, QTPMAssumption DEF EngineInv, KeptInv
  <2> QED
    BY <1>1, <2>1, FS_EmptySet DEF EngineInv, KeptInv
<1>5. ASSUME NEW i \in DOMAIN confs
      PROVE  /\ Valid(confs[i].conf) /\ Entering(confs[i].conf) /\ confs[i].weight \in Weight
             /\ confs[i].conf \in Confs
  <2>1. confs[i] \in Arrivals
    BY <1>2
  <2> QED
    BY <2>1 DEF Arrivals
<1>6. WellFormed(call')
  <2>1. confs \in Seq({confs[i] : i \in DOMAIN confs})
    BY <1>2, SeqOfItems
  <2>2. /\ piece.valuation \in Seq(Int) /\ piece.duration \in Nat
        /\ Le(piece.duration) < Infinity
    BY QTPMAssumption
  <2>3. /\ call'.confs = confs /\ call'.valuation = piece.valuation
        /\ call'.duration = piece.duration
    BY <1>1
  <2> QED
    BY <1>2, <1>5, <2>1, <2>2, <2>3 DEF WellFormed, Valid
<1>7. Live' = {} /\ edges' = {} /\ DOMAIN initStatesZG' = {} /\ pending' = <<>>
  BY <1>1, <1>3 DEF NoCall, Live
<1>8. ZoneInv'
  <2>1. GraphInv'
    BY <1>1, <1>3, <1>6, <1>7
       DEF NoCall, GraphInv, TableFaithful, JumpableIffValuations, Range
  <2>2. QueueInv'
    <3>1. /\ nextConf' = <<>> /\ currentConf' = <<>> /\ removedVertices' = {}
          /\ from' = 0 /\ pending' = <<>> /\ born' = 0 /\ pc' = "init"
      BY <1>1, <1>3 DEF NoCall
    <3>2. Range(<<>>) = {}
      BY DEF Range
    <3> QED
      BY <1>7, <3>1, <3>2 DEF QueueInv
  <2> QED
    BY <2>1, <2>2 DEF ZoneInv
<1>9. PieceInv'
  <2>1. Range(pending') = {}
    BY <1>7 DEF Range
  <2>2. call'.valuation \in Values /\ call'.confs = confs
    BY <1>1 DEF Values
  <2> QED
    BY <1>5, <1>7, <2>1, <2>2, FS_EmptySet DEF PieceInv
<1>10. FeedInv'
  BY <1>1, <1>3, <1>7, <1>8, <1>9 DEF EngineInv, FeedInv
<1> QED
  BY <1>4, <1>10 DEF EngineInv

LEMMA StillInPiece == ASSUME CostsAreWeights, ZoneInv, PieceInv, UNCHANGED vars
                      PROVE  ZoneInv' /\ PieceInv'
<1>1. [Next]_vars
  OBVIOUS
<1> QED
  BY <1>1, ZoneNext, PieceNext

LEMMA KeptStays == ASSUME KeptInv, UNCHANGED stateVars PROVE KeptInv'
<1>1. /\ configuration' = configuration /\ absTime' = absTime /\ result' = result
      /\ fed' = fed
  BY Zenon DEF stateVars
<1> QED
  BY <1>1 DEF KeptInv

LEMMA ConstructKeeps == ASSUME CostsAreWeights, EngineInv, Construct PROVE EngineInv'
<1>1. /\ stage = "construct" /\ Next
      /\ stage' = stage /\ distance' = distance /\ uncollected' = uncollected
      /\ confMap' = confMap /\ UNCHANGED stateVars
  BY Zenon DEF Construct, feedVars
<1>2. KeptInv'
  BY <1>1, KeptStays DEF EngineInv
<1>3. ZoneInv /\ PieceInv /\ uncollected = {}
  BY <1>1 DEF EngineInv, FeedInv
<1>4. ZoneInv' /\ PieceInv'
  BY <1>1, <1>3, ZoneNext, PieceNext
<1>5. FeedInv'
  BY <1>1, <1>3, <1>4 DEF EngineInv, FeedInv
<1> QED
  BY <1>2, <1>5 DEF EngineInv

LEMMA MeasureKeeps == ASSUME WeightLaws, EngineInv, Measure PROVE EngineInv'
<1>1. /\ stage = "construct" /\ pc = "done"
      /\ stage' = "collect" /\ distance' = Distances
      /\ uncollected' = {v \in Live : Collectable(v, Distances)}
      /\ confMap' = confMap /\ UNCHANGED stateVars /\ UNCHANGED vars
  BY Zenon DEF Measure
<1>2. KeptInv' /\ ZoneInv /\ PieceInv
  BY <1>1, KeptStays DEF EngineInv, FeedInv
<1>3. ZoneInv' /\ PieceInv'
  BY <1>1, <1>2, StillInPiece DEF WeightLaws
<1>4. nodes' = nodes /\ Live' = Live /\ pc' = pc
  BY <1>1 DEF vars, graphVars, Live
<1>5. \A v \in uncollected' : v \in Live /\ ~ IsMatch(nodes[v].vertex)
  BY <1>1 DEF Collectable
<1>6. distance' \in [Live' -> Weight]
  BY <1>1, <1>2, <1>4, DistancesAreWeights
<1>7. FeedInv'
  BY <1>1, <1>3, <1>4, <1>5, <1>6 DEF EngineInv, FeedInv
<1> QED
  BY <1>2, <1>7 DEF EngineInv

LEMMA CollectKeeps ==
    ASSUME CostsAreWeights, EngineInv, NEW v \in uncollected, Collect(v)
    PROVE  EngineInv'
<1> DEFINE g == Group(v)
           zones == IF g \in DOMAIN confMap THEN confMap[g] ELSE <<>>
           merged == MergedInto(zones, AtEnd(nodes[v].zone))
<1>1. /\ stage = "collect" /\ confMap' = Put(confMap, g, merged)
      /\ uncollected' = uncollected \ {v}
      /\ stage' = stage /\ distance' = distance /\ UNCHANGED stateVars /\ UNCHANGED vars
  BY DEF Collect
<1>2. KeptInv' /\ ZoneInv /\ PieceInv
  BY <1>1, KeptStays DEF EngineInv, FeedInv
<1>3. ZoneInv' /\ PieceInv'
  BY <1>1, <1>2, StillInPiece
<1>4. nodes' = nodes /\ Live' = Live /\ pc' = pc
  BY <1>1 DEF vars, graphVars, Live
<1>5. /\ v \in Live /\ nodes[v] \in Confs /\ distance \in [Live -> Weight]
      /\ nodes[v].jumpable <=> nodes[v].valuations # <<>>
      /\ nodes[v].valuations \in Seq(Values) /\ ~ IsMatch(nodes[v].vertex)
  BY <1>1, <1>2 DEF EngineInv, FeedInv, ZoneInv, GraphInv, JumpableIffValuations,
                    PieceInv, InTime, Entering
<1>6. g \in Groups
  BY <1>5 DEF Group, Groups, Confs
<1>7. merged \in Zones
  <2>1. zones \in Zones
    BY DEF EngineInv, FeedInv, Zones
  <2>2. AtEnd(nodes[v].zone) \in Matrix
    <3>1. nodes[v].zone \in Matrix /\ WellFormed(call)
      BY <1>2, <1>5 DEF Confs, ZoneInv, GraphInv
    <3> QED
      BY <3>1, AtEndType
  <2> HIDE DEF zones
  <2> QED
    BY <2>1, <2>2, MatrixMerging, MergedIntoStays DEF Zones
<1> HIDE DEF g, merged
<1>8. /\ DOMAIN confMap' = DOMAIN confMap \cup {g}
      /\ \A h \in DOMAIN confMap' : confMap'[h] = IF h = g THEN merged ELSE confMap[h]
  BY <1>1 DEF Put
<1>9. /\ IsFiniteSet(DOMAIN confMap') /\ DOMAIN confMap' \subseteq Groups
      /\ \A h \in DOMAIN confMap' : confMap'[h] \in Zones
  BY <1>6, <1>7, <1>8, FS_AddElement DEF EngineInv, FeedInv
<1>10. FeedInv'
  BY <1>1, <1>3, <1>4, <1>9 DEF EngineInv, FeedInv
<1> QED
  BY <1>2, <1>10 DEF EngineInv

LEMMA NewConfigurationRests ==
    ASSUME FeedInv
    PROVE  IsFiniteSet(NewConfiguration) /\ NewConfiguration \subseteq Resting
<1> DEFINE rested(g, Z) ==
             [conf |-> [vertex |-> g.vertex, jumpable |-> g.jumpable,
                        zone |-> Z, valuations |-> g.valuations],
              weight |-> g.weight]
           part(g) == {rested(g, Z) : Z \in Range(Swept(confMap[g]))}
           parts == {part(g) : g \in DOMAIN confMap}
<1>1. NewConfiguration = UNION parts
  BY DEF NewConfiguration
<1>2. ASSUME NEW g \in DOMAIN confMap
      PROVE  IsFiniteSet(part(g)) /\ part(g) \subseteq Resting
  <2> DEFINE s == Swept(confMap[g])
             rest == [Z \in Range(s) |-> rested(g, Z)]
  <2>1. g \in Groups /\ s \in Zones
    BY MatrixMerging, SweptClean DEF FeedInv, Zones
  <2> HIDE DEF s
  <2>2. s \in Surjection(1 .. Len(s), Range(s)) /\ Len(s) \in Nat /\ Range(s) \subseteq Matrix
    BY <2>1 DEF Zones, Surjection, Range
  <2>3. IsFiniteSet(Range(s))
    <3>1. IsFiniteSet(1 .. Len(s))
      BY <2>2, FS_Interval
    <3> QED
      BY <2>2, <3>1, FS_Surjection
  <2>4. part(g) = {rested(g, Z) : Z \in Range(s)}
    BY DEF s
  <2>5. ASSUME NEW Z \in Range(s) PROVE rested(g, Z) \in Resting
    BY <2>1, <2>2 DEF Groups, Resting, Carried, Valid, Confs
  <2> HIDE DEF rested
  <2>6. rest \in Surjection(Range(s), part(g))
    BY <2>4 DEF Surjection
  <2> HIDE DEF rest, part
  <2>7. IsFiniteSet(part(g))
    BY <2>3, <2>6, FS_Surjection
  <2> QED
    BY <2>4, <2>5, <2>7
<1>3. IsFiniteSet(parts)
  <2> DEFINE all == [g \in DOMAIN confMap |-> part(g)]
  <2> HIDE DEF part
  <2>1. all \in Surjection(DOMAIN confMap, parts)
    BY DEF Surjection
  <2>2. IsFiniteSet(DOMAIN confMap)
    BY DEF FeedInv
  <2> HIDE DEF all, parts
  <2> QED
    BY <2>1, <2>2, FS_Surjection
<1> HIDE DEF part
<1>4. \A p \in parts : IsFiniteSet(p) /\ p \subseteq Resting
  BY <1>2
<1> HIDE DEF parts
<1> QED
  BY <1>1, <1>3, <1>4, FS_UNION

-----------------------------------------------------------------------------
(* The matches that a call of feed reports                                 *)

LEMMA ReportedIs ==
    ASSUME EngineInv, stage = "collect", NEW v \in Accepted
    PROVE  /\ ResultMatrix(nodes[v].zone) \in [1 .. 6 -> Int]
           /\ Promise!EndsIn(ResultMatrix(nodes[v].zone), absTime, absTime + call.duration)
           /\ v \in Live /\ distance[v] \in Weight
<1> DEFINE Z == nodes[v].zone
           m == ResultMatrix(Z)
<1>1. /\ v \in Live /\ IsMatch(nodes[v].vertex) /\ ZoneInv /\ PieceInv /\ absTime \in Nat
      /\ distance \in [Live -> Weight]
  BY DEF Accepted, EngineInv, KeptInv, FeedInv
<1>2. /\ nodes[v] \in Confs /\ WellFormed(call)
      /\ nodes[v].zone[0][T] <= Lt(0) /\ nodes[v].zone[T][0] <= Le(call.duration)
  BY <1>1 DEF ZoneInv, GraphInv, PieceInv, InTime, Entering
<1>3. Z \in Matrix /\ Z[0][T] <= Lt(0) /\ Z[T][0] <= Le(call.duration)
  BY <1>2 DEF Confs
<1> HIDE DEF Z
<1>4. D \in Var
  BY DBMAssumption, ZoneGraphAssumption DEF D, Var
<1>5. /\ Z[D][T] \in Int /\ Z[T][D] \in Int /\ Z[0][T] \in Int /\ Z[T][0] \in Int
      /\ Z[0][D] \in Int /\ Z[D][0] \in Int
  BY <1>3, <1>4, DwellVar, Entries
<1>6. call.duration \in Nat /\ Le(call.duration) < Infinity /\ Infinity \in Int /\ Infinity > 0
  BY <1>2, DBMAssumption DEF WellFormed
<1>7. \A b \in Int : Shift(b, -absTime) \in Int /\ Shift(b, absTime) \in Int
  BY <1>1, DBMAssumption DEF Shift
<1>8. m = <<Shift(Z[D][T], -absTime), Shift(Z[T][D], absTime), Shift(Z[0][T], -absTime),
            Shift(Z[T][0], absTime), Z[0][D], Z[D][0]>>
  BY DEF ResultMatrix
<1>9. m \in [1 .. 6 -> Int]
  BY <1>5, <1>7, <1>8
<1>10. Promise!EndsIn(m, absTime, absTime + call.duration)
  <2>1. m[3] = Shift(Z[0][T], -absTime) /\ m[4] = Shift(Z[T][0], absTime)
    BY <1>8
  <2>2. Shift(Z[0][T], -absTime) = Z[0][T] + 2 * (-absTime)
    BY <1>3, <1>5, <1>6 DEF Shift, Lt
  <2>3. Z[T][0] # Infinity /\ Shift(Z[T][0], absTime) = Z[T][0] + 2 * absTime
    BY <1>3, <1>5, <1>6 DEF Shift, Le
  <2>4. Z[0][T] + 2 * (-absTime) <= -2 * absTime
    BY <1>1, <1>3, <1>5 DEF Lt
  <2>5. Z[T][0] + 2 * absTime <= 2 * (absTime + call.duration) + 1
    BY <1>1, <1>3, <1>5, <1>6 DEF Le
  <2> QED
    BY <2>1, <2>2, <2>3, <2>4, <2>5 DEF Promise!EndsIn
<1> QED
  BY <1>1, <1>9, <1>10 DEF Z

(* What is recorded is only added to, within the piece.                    *)
LEMMA NewResultIs ==
    ASSUME WeightLaws, EngineInv, stage = "collect"
    PROVE  /\ NewResult \in [DOMAIN NewResult -> Weight]
           /\ DOMAIN result \subseteq DOMAIN NewResult
           /\ DOMAIN NewResult \subseteq [1 .. 6 -> Int]
           /\ \A m \in DOMAIN NewResult :
                /\ m \in DOMAIN result => Plus(result[m], NewResult[m]) = NewResult[m]
                /\ \/ Promise!EndsIn(m, absTime, absTime + call.duration)
                   \/ m \in DOMAIN result /\ NewResult[m] = result[m]
<1> DEFINE mat(v) == ResultMatrix(nodes[v].zone)
           found(m) == {u \in Accepted : mat(u) = m}
           ws(m) == {distance[v] : v \in found(m)}
           base(m) == IF m \in DOMAIN result THEN result[m] ELSE Zero
           dom == DOMAIN result \cup {mat(v) : v \in Accepted}
<1>1. NewResult = [m \in dom |-> Added(base(m), ws(m))]
  BY DEF NewResult
<1>2. /\ result \in [DOMAIN result -> Weight] /\ DOMAIN result \subseteq [1 .. 6 -> Int]
      /\ ZoneInv /\ SumLaws(Weight) /\ Zero \in Weight
  BY DEF EngineInv, KeptInv, FeedInv, WeightLaws, CostsAreWeights
<1>3. dom \subseteq [1 .. 6 -> Int]
  BY <1>2, ReportedIs
<1>4. ASSUME NEW m \in dom
      PROVE  base(m) \in Weight /\ ws(m) \subseteq Weight /\ IsFiniteSet(ws(m))
  <2>1. base(m) \in Weight
    BY <1>2
  <2>2. ws(m) \subseteq Weight
    BY ReportedIs
  <2>3. IsFiniteSet(found(m))
    BY <1>2, LiveFinite, FS_Subset DEF Accepted
  <2> DEFINE weigh == [v \in found(m) |-> distance[v]]
  <2>4. weigh \in Surjection(found(m), ws(m))
    BY DEF Surjection
  <2> HIDE DEF weigh, found, ws
  <2>5. IsFiniteSet(ws(m))
    BY <2>3, <2>4, FS_Surjection
  <2> HIDE DEF base
  <2> QED
    BY <2>1, <2>2, <2>5
<1>5. ASSUME NEW m \in dom
      PROVE  /\ Added(base(m), ws(m)) \in Weight
             /\ Plus(base(m), Added(base(m), ws(m))) = Added(base(m), ws(m))
             /\ ws(m) = {} => Added(base(m), ws(m)) = base(m)
  <2> HIDE DEF base, ws
  <2> QED
    BY <1>2, <1>4, <1>5, SumCovers
<1>6. ASSUME NEW m \in dom
      PROVE  \/ Promise!EndsIn(m, absTime, absTime + call.duration)
             \/ m \in DOMAIN result /\ ws(m) = {}
  <2>1. CASE \E v \in Accepted : mat(v) = m
    BY <2>1, ReportedIs
  <2>2. CASE ~ \E v \in Accepted : mat(v) = m
    BY <1>6, <2>2
  <2> QED
    BY <2>1, <2>2
<1>7. \A m \in DOMAIN result : base(m) = result[m]
  OBVIOUS
<1>8. DOMAIN result \subseteq dom
  OBVIOUS
<1> HIDE DEF base, ws, dom
<1>9. DOMAIN NewResult = dom /\ \A m \in dom : NewResult[m] = Added(base(m), ws(m))
  BY <1>1
<1>10. NewResult \in [DOMAIN NewResult -> Weight]
  <2>1. NewResult = [m \in DOMAIN NewResult |-> NewResult[m]]
    BY <1>1
  <2> QED
    BY <1>5, <1>9, <2>1
<1>11. ASSUME NEW m \in dom
       PROVE  /\ m \in DOMAIN result => Plus(result[m], NewResult[m]) = NewResult[m]
              /\ \/ Promise!EndsIn(m, absTime, absTime + call.duration)
                 \/ m \in DOMAIN result /\ NewResult[m] = result[m]
  BY <1>5, <1>6, <1>7, <1>9
<1> QED
  BY <1>3, <1>8, <1>9, <1>10, <1>11

LEMMA FinishKeeps == ASSUME WeightLaws, EngineInv, Finish PROVE EngineInv'
<1>1. /\ stage = "collect" /\ uncollected = {}
      /\ configuration' = NewConfiguration /\ result' = NewResult
      /\ absTime' = absTime + call.duration /\ fed' = fed
      /\ stage' = "idle" /\ confMap' = <<>> /\ uncollected' = uncollected
      /\ nodes' = <<>> /\ edges' = {} /\ initStatesZG' = <<>> /\ toZGState' = <<>>
      /\ nextConf' = <<>> /\ currentConf' = <<>> /\ removedVertices' = {}
      /\ from' = 0 /\ pending' = <<>> /\ freed' = {} /\ born' = 0 /\ pc' = pc
  BY DEF Finish
<1>2. KeptInv'
  <2>1. configuration' \subseteq Resting /\ IsFiniteSet(configuration')
    BY <1>1, NewConfigurationRests DEF EngineInv
  <2>2. result' \in [DOMAIN result' -> Weight] /\ DOMAIN result' \subseteq [1 .. 6 -> Int]
    BY <1>1, NewResultIs
  <2>3. call.duration \in Nat
    BY <1>1 DEF EngineInv, FeedInv, ZoneInv, GraphInv, WellFormed
  <2>4. absTime' \in Nat /\ fed' \in Seq(Pieces) /\ Len(fed') <= MaxPieces
    BY <1>1, <2>3 DEF EngineInv, KeptInv
  <2> QED
    BY <2>1, <2>2, <2>4 DEF KeptInv
<1>3. NoCall'
  BY <1>1 DEF NoCall, EngineInv, FeedInv
<1>4. FeedInv'
  <2>1. IsFiniteSet({}) /\ DOMAIN <<>> = {}
    BY FS_EmptySet
  <2> QED
    BY <1>1, <1>3, <2>1 DEF FeedInv
<1> QED
  BY <1>2, <1>4 DEF EngineInv

LEMMA OverKeeps == ASSUME CostsAreWeights, EngineInv, UNCHANGED engineVars PROVE EngineInv'
<1>1. /\ UNCHANGED stateVars /\ UNCHANGED vars
      /\ stage' = stage /\ distance' = distance /\ uncollected' = uncollected
      /\ confMap' = confMap
  BY Zenon DEF engineVars, feedVars
<1>2. KeptInv'
  BY <1>1, KeptStays DEF EngineInv
<1>3. /\ pc' = pc /\ nodes' = nodes /\ Live' = Live /\ edges' = edges
      /\ initStatesZG' = initStatesZG /\ toZGState' = toZGState /\ nextConf' = nextConf
      /\ currentConf' = currentConf /\ removedVertices' = removedVertices
      /\ from' = from /\ pending' = pending /\ freed' = freed /\ born' = born
  BY <1>1 DEF vars, graphVars, Live
<1>4. CASE stage = "idle"
  <2>1. NoCall'
    BY <1>3, <1>4 DEF NoCall, EngineInv, FeedInv
  <2> QED
    BY <1>1, <1>2, <1>3, <1>4, <2>1 DEF EngineInv, FeedInv
<1>5. CASE stage # "idle"
  <2>1. ZoneInv' /\ PieceInv'
    BY <1>1, <1>5, StillInPiece DEF EngineInv, FeedInv
  <2> QED
    BY <1>1, <1>2, <1>3, <1>5, <2>1 DEF EngineInv, FeedInv
<1> QED
  BY <1>4, <1>5

LEMMA EngineStep == ASSUME WeightLaws, EngineInv, [EngineNext]_engineVars PROVE EngineInv'
<1>1. CostsAreWeights
  BY DEF WeightLaws
<1>2. CASE \E piece \in Pieces : Feed(piece)
  BY <1>1, <1>2, FeedKeeps
<1>3. CASE Construct
  BY <1>1, <1>3, ConstructKeeps
<1>4. CASE Measure
  BY <1>4, MeasureKeeps
<1>5. CASE \E v \in uncollected : Collect(v)
  BY <1>1, <1>5, CollectKeeps
<1>6. CASE Finish
  BY <1>6, FinishKeeps
<1>7. CASE Over \/ UNCHANGED engineVars
  BY <1>1, <1>7, OverKeeps DEF Over
<1> QED
  BY <1>2, <1>3, <1>4, <1>5, <1>6, <1>7 DEF EngineNext

(* In every state of feed (quantitative_timed_pattern_matching.hh:104-228) *)
(* the configurations, the distances and the results are well formed,      *)
(* whatever the automaton and the signal, in any semiring whose sum is     *)
(* idempotent.                                                             *)
THEOREM EngineTypes == ASSUME WeightLaws PROVE EngineSpec => []EngineTypeOK
<1>1. EngineInit => EngineInv
  BY EngineStarts
<1>2. EngineInv /\ [EngineNext]_engineVars => EngineInv'
  BY EngineStep
<1>3. EngineInv => EngineTypeOK
  <2> SUFFICES ASSUME EngineInv PROVE EngineTypeOK
    OBVIOUS
  <2>1. \A c \in configuration : c.conf.zone \in Matrix /\ c.weight \in Weight
    BY DEF EngineInv, KeptInv, Resting, Confs
  <2> QED
    BY <2>1 DEF EngineInv, KeptInv, FeedInv, EngineTypeOK
<1> QED
  BY <1>1, <1>2, <1>3, PTL DEF EngineSpec

(* Only the end of feed changes what Matcher speaks of, and it does what a *)
(* call of the abstract matcher does.                                      *)
LEMMA FinishRefines == ASSUME WeightLaws, EngineInv, Finish PROVE Promise!Next
<1> DEFINE new == {n \in DOMAIN result' : n \notin DOMAIN result \/ result[n] # result'[n]}
<1>1. /\ stage = "collect" /\ result' = NewResult
      /\ absTime' = absTime + call.duration
  BY DEF Finish
<1>2. /\ absTime \in Nat /\ call.duration \in Nat
      /\ result \in [DOMAIN result -> Weight]
  BY <1>1 DEF EngineInv, KeptInv, FeedInv, ZoneInv, GraphInv, WellFormed
<1>3. /\ result' \in [DOMAIN result' -> Weight] /\ DOMAIN result \subseteq DOMAIN result'
      /\ \A m \in DOMAIN result' :
           /\ m \in DOMAIN result => Plus(result[m], result'[m]) = result'[m]
           /\ \/ Promise!EndsIn(m, absTime, absTime + call.duration)
              \/ m \in DOMAIN result /\ result'[m] = result[m]
  BY <1>1, NewResultIs
<1>4. absTime' - absTime = call.duration /\ absTime' = absTime + (absTime' - absTime)
  BY <1>1, <1>2
<1>5. Promise!Improved = [m \in new |-> result'[m]]
  BY DEF Promise!Improved
<1>6. \A m \in new : Promise!EndsIn(m, absTime, absTime + (absTime' - absTime))
  BY <1>3, <1>4
<1>7. DOMAIN result' = DOMAIN result \cup new
  BY <1>3
<1>8. ASSUME NEW m \in DOMAIN result'
      PROVE  result'[m] = Plus(IF m \in DOMAIN result THEN result[m] ELSE Zero,
                               IF m \in new THEN result'[m] ELSE Zero)
  <2>1. result'[m] \in Weight /\ Zero \in Weight
    BY <1>3 DEF WeightLaws, CostsAreWeights
  <2>2. CASE m \in DOMAIN result /\ m \in new
    BY <1>3, <2>2
  <2>3. CASE m \in DOMAIN result /\ m \notin new
    <3>1. result[m] = result'[m] /\ Plus(result'[m], Zero) = result'[m]
      BY <2>1, <2>3 DEF WeightLaws, SumLaws
    <3> QED
      BY <2>3, <3>1
  <2>4. CASE m \notin DOMAIN result
    <3>1. m \in new /\ Plus(Zero, result'[m]) = result'[m]
      BY <2>1, <2>4 DEF WeightLaws, SumLaws
    <3> QED
      BY <2>4, <3>1
  <2> QED
    BY <2>2, <2>3, <2>4
<1> HIDE DEF new
<1>9. result' = [m \in DOMAIN result \cup new |->
                    Plus(IF m \in DOMAIN result THEN result[m] ELSE Zero,
                         IF m \in new THEN result'[m] ELSE Zero)]
  <2>1. result' = [m \in DOMAIN result' |-> result'[m]]
    BY <1>3
  <2> QED
    BY <1>7, <1>8, <2>1
<1>10. result' = [m \in DOMAIN result \cup DOMAIN Promise!Improved |->
                     Plus(Promise!WeightIn(result, m), Promise!WeightIn(Promise!Improved, m))]
  <2>1. DOMAIN Promise!Improved = new /\ \A m \in new : Promise!Improved[m] = result'[m]
    BY <1>5
  <2> QED
    BY <1>9, <2>1 DEF Promise!WeightIn
<1>11. DOMAIN Promise!Improved = new
  BY <1>5
<1>12. Promise!Feed(absTime' - absTime, Promise!Improved)
  BY <1>4, <1>6, <1>10, <1>11 DEF Promise!Feed
<1> QED
  BY <1>12 DEF Promise!Next

(* Whoever feeds the engine may rely on the abstract matcher: a call only  *)
(* adds matches that end in its piece, and only improves weights.          *)
THEOREM EngineImplementsMatcher == ASSUME WeightLaws PROVE EngineSpec => ImplementsMatcher
<1>1. EngineInit => EngineInv /\ Promise!Init
  BY EngineStarts DEF EngineInit, Promise!Init
<1>2. EngineInv /\ [EngineNext]_engineVars => EngineInv' /\ [Promise!Next]_<<absTime, result>>
  <2> SUFFICES ASSUME EngineInv, [EngineNext]_engineVars
               PROVE  EngineInv' /\ [Promise!Next]_<<absTime, result>>
    OBVIOUS
  <2>1. EngineInv'
    BY EngineStep
  <2>2. CASE Finish
    BY <2>1, <2>2, FinishRefines
  <2>3. CASE ~ Finish
    <3>1. absTime' = absTime /\ result' = result
      BY <2>3 DEF EngineNext, Feed, Construct, Measure, Collect, Over, engineVars, stateVars
    <3> QED
      BY <2>1, <3>1
  <2> QED
    BY <2>2, <2>3
<1>3. EngineSpec => Promise!Spec
  BY <1>1, <1>2, PTL DEF EngineSpec, Promise!Spec
<1> QED
  BY <1>3 DEF ImplementsMatcher

-----------------------------------------------------------------------------
(* The zones that feed brings into a piece, and out of it                  *)

(* A piece, and the room that zones have before it and in it.              *)
Roomy(d, room, limit) ==
    /\ d \in Nat \ {0} /\ room \in Nat /\ limit \in Nat
    /\ Le(0) <= room /\ room + 2 * Le(d) <= limit /\ 8 * limit < Infinity

LEMMA RoomIs ==
    ASSUME NEW d, NEW room, NEW limit, Roomy(d, room, limit)
    PROVE  /\ Le(d) \in Bound /\ Le(d) \in Nat /\ Le(0) <= Le(d) /\ Le(d) <= limit
           /\ room <= limit /\ room < Infinity /\ limit < Infinity /\ Infinity \in Int
           /\ 4 * room < Infinity /\ 6 * limit < Infinity /\ Le(0) <= limit
           /\ Le(0) \in Bound /\ Le(0) \in Int
  BY DBMAssumption DEF Roomy, Le, Bound

(* A zone in which the dwell time has only begun, and is free.             *)
Fresh(E, room) ==
    /\ E \in Matrix /\ Canonical(E) /\ IsSatisfiableWithoutCanonize(E)
    /\ AllWithin(E, room)
    /\ \A i \in Var \ {T}, j \in Var \ {0} : E[i][j] <= room
    /\ \A i \in Var \ {0, T} : E[i][i] <= Le(0)
    /\ E[0][T] >= Lt(0)

LEMMA FreshEnters ==
    ASSUME NEW c, NEW room, NEW limit, Roomy(c.duration, room, limit),
           NEW E, Fresh(E, room)
    PROVE  InPiece(c, Dwell(c, E), limit)
<1> DEFINE b == Le(c.duration)
           Q == Dwell(c, E)
<1>1. /\ b \in Bound /\ b \in Int /\ b <= limit /\ room \in Nat /\ limit \in Nat
      /\ room + 2 * b <= limit /\ Infinity \in Int /\ room < Infinity /\ limit < Infinity
      /\ 8 * limit < Infinity /\ 6 * limit < Infinity /\ Le(0) <= limit /\ 1 <= b
      /\ room + b < Infinity
  BY RoomIs DEF Roomy, Le
<1>2. /\ E \in Matrix /\ Canonical(E) /\ IsSatisfiableWithoutCanonize(E)
      /\ \A i, j \in Var : E[i][j] \in Bound /\ E[i][j] \in Int
  BY Entries DEF Fresh
<1>3. AllWithin(E, limit)
  <2> SUFFICES ASSUME NEW i \in Var, NEW j \in Var PROVE Within(E[i][j], limit)
    BY DEF AllWithin
  <2>1. E[i][j] = Infinity \/ E[i][j] <= room
    BY DEF Fresh, AllWithin, Within
  <2> QED
    BY <1>1, <1>2, <2>1 DEF Within
<1>4. Add(E[0][T], b) >= Le(0)
  <2>1. E[0][T] \in Int /\ E[0][T] >= 0 /\ b >= 3 /\ Infinity > 1
    BY <1>2, DwellVar, DBMAssumption DEF Fresh, Lt, Roomy, Le
  <2> HIDE DEF b
  <2> QED
    BY <1>1, <2>1 DEF Add, Le
<1>5. Q = Tighten(E, T, 0, b)
  BY DEF Dwell
<1>6. /\ Q \in Matrix /\ Q[T][0] <= b
      /\ \A i, j \in Var : /\ Q[i][j] <= E[i][j]
                           /\ Q[i][0] <= Add(E[i][T], b)
                           /\ Q[T][j] <= Add(b, E[0][j])
  BY <1>1, <1>2, <1>5, DwellVar, TightenShortens
<1> HIDE DEF Q
<1>7. IsSatisfiableWithoutCanonize(Q)
  <2> HIDE DEF b
  <2> QED
    BY <1>1, <1>2, <1>3, <1>4, <1>5, DwellVar, TightenSatisfiable
<1>8. Canonical(Q)
  <2> HIDE DEF b
  <2> QED
    BY <1>1, <1>2, <1>3, <1>5, <1>7, DwellVar, TightenCanonical
<1> HIDE DEF b
<1>9. \A i, j \in Var : Q[i][j] \in Int
  BY <1>6, Entries
<1>10. ASSUME NEW i \in Var, NEW j \in Var PROVE Q[i][j] <= room + b /\ (j = T /\ i # T => Q[i][j] <= room)
  <2>1. CASE i # T /\ j # 0
    <3>1. Q[i][j] <= E[i][j] /\ E[i][j] <= room
      BY <1>6, <2>1 DEF Fresh
    <3> QED
      BY <1>1, <1>2, <1>9, <3>1
  <2>2. CASE i # T /\ j = 0
    <3>1. Q[i][0] <= Add(E[i][T], b) /\ E[i][T] <= room
      BY <1>6, <2>2, DwellVar DEF Fresh
    <3>2. Add(E[i][T], b) <= room + b
      <4>1. E[i][T] \in Int
        BY <1>2, DwellVar
      <4> QED
        BY <1>1, <3>1, <4>1 DEF Add
    <3>3. Add(E[i][T], b) \in Int
      <4>1. Add(E[i][T], b) \in Bound
        BY <1>1, <1>2, DwellVar, AddIsBound
      <4> QED
        BY <4>1 DEF Bound
    <3> QED
      BY <1>1, <1>9, <2>2, <3>1, <3>2, <3>3, DwellVar
  <2>3. CASE i = T /\ j # 0
    <3>1. Q[T][j] <= Add(b, E[0][j]) /\ E[0][j] <= room
      BY <1>6, <2>3, DwellVar DEF Fresh
    <3>2. Add(b, E[0][j]) <= room + b
      <4>1. E[0][j] \in Int
        BY <1>2, DwellVar
      <4> QED
        BY <1>1, <3>1, <4>1 DEF Add
    <3>3. Add(b, E[0][j]) \in Int
      <4>1. Add(b, E[0][j]) \in Bound
        BY <1>1, <1>2, DwellVar, AddIsBound
      <4> QED
        BY <4>1 DEF Bound
    <3> QED
      BY <1>1, <1>9, <2>3, <3>1, <3>2, <3>3
  <2>4. CASE i = T /\ j = 0
    BY <1>1, <1>6, <1>9, <2>4, DwellVar
  <2> QED
    BY <2>1, <2>2, <2>3, <2>4
<1>11. ASSUME NEW i \in Var PROVE Q[i][T] + b <= limit
  <2>1. Q[i][T] <= room + b /\ Q[i][T] \in Int
    BY <1>9, <1>10, DwellVar
  <2> QED
    BY <1>1, <2>1
<1>12. ASSUME NEW i \in Var, NEW j \in Var PROVE Q[i][j] <= limit
  <2>1. Q[i][j] <= room + b /\ Q[i][j] \in Int
    BY <1>9, <1>10
  <2> QED
    BY <1>1, <2>1
<1>13. ASSUME NEW i \in Var \ {0, T} PROVE Q[i][i] <= Le(0)
  <2>1. Q[i][i] <= E[i][i] /\ E[i][i] <= Le(0) /\ Le(0) \in Int
    BY <1>6, RoomIs DEF Fresh
  <2> QED
    BY <1>2, <1>9, <2>1
<1> QED
  BY <1>6, <1>7, <1>8, <1>11, <1>12, <1>13 DEF InPiece, Q, b

LEMMA InitialFresh ==
    ASSUME NEW room \in Nat, Le(0) <= room
    PROVE  Fresh(initialZone, room)
<1>1. Le(0) \in Bound /\ Le(0) \in Int /\ Le(0) >= Lt(0) /\ Infinity \in Int /\ Infinity > Le(0)
  BY DBMAssumption DEF Le, Lt, Bound
<1>2. /\ initialZone \in Matrix /\ Metric(initialZone)
      /\ \A i, j \in Var : initialZone[i][j] = IF i = T THEN Infinity ELSE Le(0)
  BY InitialZoneIs
<1>3. Canonical(initialZone)
  BY <1>2 DEF Metric, Canonical
<1>4. IsSatisfiableWithoutCanonize(initialZone)
  <2>1. \A i \in Var : initialZone[i][i] >= Le(0)
    BY <1>1, <1>2
  <2> QED
    BY <1>2, <2>1, MetricSatisfiable
<1>5. AllWithin(initialZone, room)
  BY <1>2 DEF AllWithin, Within
<1>6. /\ \A i \in Var \ {T}, j \in Var \ {0} : initialZone[i][j] <= room
      /\ \A i \in Var \ {0, T} : initialZone[i][i] <= Le(0)
      /\ initialZone[0][T] >= Lt(0)
  BY <1>1, <1>2, DwellVar
<1> QED
  BY <1>2, <1>3, <1>4, <1>5, <1>6 DEF Fresh

(* The dwell time starts again in a settled zone, with or without a delay. *)
LEMMA ResetFresh ==
    ASSUME NEW room \in Nat, Le(0) <= room, 4 * room < Infinity, NEW Z \in Settled(room)
    PROVE  Fresh(Reset(Z, T), room) /\ Fresh(Elapse(Reset(Z, T)), room)
<1> DEFINE N == Aliased(Z, T)
           R == Reset(Z, T)
           E == Elapse(R)
<1>1. /\ Z \in Matrix /\ Canonical(Z) /\ IsSatisfiableWithoutCanonize(Z)
      /\ \A i, j \in Var : Z[i][j] <= room
      /\ \A i \in Var : Z[i][i] <= Le(0)
  BY DEF Settled
<1>2. Le(0) \in Int /\ Infinity \in Int /\ room < Infinity /\ Lt(0) \in Int /\ Le(0) >= Lt(0)
  BY DBMAssumption DEF Le, Lt
<1>3. AllWithin(Z, room)
  BY <1>1 DEF AllWithin, Within
<1>4. /\ N \in Matrix /\ R \in Matrix /\ \A i, j \in Var : R[i][j] <= N[i][j]
  BY <1>1, DwellVar, ResetShortens
<1>5. Canonical(R) /\ IsSatisfiableWithoutCanonize(R) /\ R[0][T] >= Le(0)
  BY <1>1, <1>3, DwellVar, ResetCanonical
<1>6. \A i, j \in Var :
         N[i][j] = IF {i, j} \subseteq {0, T} /\ <<i, j>> # <<0, 0>> THEN Le(0)
                   ELSE IF j = T THEN Z[i][0]
                   ELSE IF i = T THEN Z[0][j]
                   ELSE Z[i][j]
  BY DEF Aliased
<1> HIDE DEF N, R
<1>7. \A i, j \in Var : R[i][j] \in Int /\ N[i][j] \in Int /\ Z[i][j] \in Int
  BY <1>1, <1>4, Entries
<1>8. ASSUME NEW i \in Var, NEW j \in Var PROVE R[i][j] <= room
  <2>1. N[i][j] \in {Le(0), Z[i][0], Z[0][j], Z[i][j]}
    BY <1>6
  <2>2. N[i][j] <= room
    BY <1>1, <2>1, DwellVar
  <2>3. R[i][j] <= N[i][j]
    BY <1>4
  <2> QED
    BY <1>7, <2>2, <2>3
<1>9. ASSUME NEW i \in Var \ {0, T} PROVE R[i][i] <= Le(0)
  <2>1. N[i][i] = Z[i][i] /\ Z[i][i] <= Le(0)
    BY <1>1, <1>6
  <2>2. R[i][i] <= N[i][i]
    BY <1>4
  <2> QED
    BY <1>2, <1>7, <2>1, <2>2
<1>10. AllWithin(R, room)
  BY <1>8 DEF AllWithin, Within
<1>11. R[0][T] >= Lt(0)
  <2>1. R[0][T] \in Int
    BY <1>7, DwellVar
  <2> QED
    BY <1>2, <1>5, <2>1
<1>12. Fresh(R, room)
  BY <1>4, <1>5, <1>8, <1>9, <1>10, <1>11 DEF Fresh
<1>13. /\ E \in Matrix /\ Canonical(E) /\ IsSatisfiableWithoutCanonize(E)
       /\ \A i, j \in Var : E[i][j] =
            IF j = 0 THEN Infinity ELSE IF i = 0 THEN Strict(R[0][j]) ELSE R[i][j]
  BY <1>4, <1>5, ElapseIs, ElapseCanonical
<1>14. \A a \in Int : Strict(a) \in Int /\ Strict(a) <= a /\ (a >= Le(0) => Strict(a) >= Lt(0))
  BY DEF Strict, Le, Lt
<1> HIDE DEF E
<1>15. ASSUME NEW i \in Var, NEW j \in Var \ {0} PROVE E[i][j] <= room
  <2>1. CASE i = 0
    <3>1. E[i][j] = Strict(R[0][j]) /\ R[0][j] <= room /\ R[0][j] \in Int
      BY <1>7, <1>8, <1>13, <2>1, DwellVar
    <3>2. Strict(R[0][j]) \in Int /\ Strict(R[0][j]) <= R[0][j]
      BY <1>14, <3>1
    <3> QED
      BY <3>1, <3>2
  <2>2. CASE i # 0
    BY <1>8, <1>13, <2>2
  <2> QED
    BY <2>1, <2>2
<1>16. AllWithin(E, room)
  <2> SUFFICES ASSUME NEW i \in Var, NEW j \in Var PROVE Within(E[i][j], room)
    BY DEF AllWithin
  <2>1. j = 0 => E[i][j] = Infinity
    BY <1>13
  <2> QED
    BY <1>15, <2>1 DEF Within
<1>17. \A i \in Var \ {0, T} : E[i][i] <= Le(0)
  BY <1>9, <1>13
<1>18. E[0][T] >= Lt(0)
  <2>1. E[0][T] = Strict(R[0][T]) /\ R[0][T] \in Int
    BY <1>7, <1>13, DwellVar
  <2> QED
    BY <1>5, <1>14, <2>1
<1>19. Fresh(E, room)
  BY <1>13, <1>15, <1>16, <1>17, <1>18 DEF Fresh
<1> QED
  BY <1>12, <1>19 DEF E, R

LEMMA EnteredFresh ==
    ASSUME NEW room \in Nat, Le(0) <= room, 4 * room < Infinity,
           NEW conf \in Confs, conf.zone \in Settled(room), NEW valuation
    PROVE  Fresh(Entered(conf, valuation).zone, room)
<1>1. \/ Entered(conf, valuation).zone = Elapse(Reset(conf.zone, T))
      \/ Entered(conf, valuation).zone = Reset(conf.zone, T)
  BY DEF Entered, Confs
<1> QED
  BY <1>1, ResetFresh

(* What is left of a zone at the end of the piece is settled.              *)
LEMMA AtEndSettles ==
    ASSUME NEW limit, CallFits(call, limit), NEW Z, InPiece(call, Z, limit),
           IsSatisfiableWithoutCanonize(AtEnd(Z))
    PROVE  AtEnd(Z) \in Settled(limit)
<1> DEFINE d == call.duration
           F == TightenWithoutClose(Z, 0, T, Le(-d))
           G == TightenWithoutClose(F, T, 0, Le(d))
           K == Canonize(G)
<1>1. /\ d \in Nat /\ Le(d) \in Bound /\ Le(-d) \in Bound /\ Le(d) \in Int /\ Le(-d) \in Int
      /\ limit \in Nat /\ 4 * limit < Infinity /\ Add(Le(-d), Le(d)) = Le(0)
      /\ Add(Le(d), Le(-d)) = Le(0) /\ Le(0) \in Int
  <2>1. d \in Nat /\ Le(d) < Infinity /\ limit \in Nat /\ 4 * limit < Infinity
    BY CallIs DEF CallFits, WellFormed
  <2> HIDE DEF d
  <2>2. Le(d) = 2 * d + 1 /\ Le(-d) = 1 - 2 * d /\ Le(0) = 1
    BY <2>1 DEF Le
  <2>3. Le(d) % 2 = 1 /\ Le(-d) % 2 = 1 /\ Infinity > 1
    BY <2>1, <2>2, DBMAssumption
  <2> QED
    BY <2>1, <2>2, <2>3, DBMAssumption DEF Add, Bound
<1> HIDE DEF d
<1>2. /\ Z \in Matrix /\ \A i, j \in Var : Z[i][j] \in Int /\ Z[i][j] <= limit
      /\ \A i \in Var \ {0, T} : Z[i][i] <= Le(0)
  BY Entries DEF InPiece
<1>3. /\ F \in Matrix
      /\ \A i, j \in Var : F[i][j] = IF i = 0 /\ j = T THEN Lower(Z[0][T], Le(-d)) ELSE Z[i][j]
  <2>1. Le(-d) \in Bound /\ Z \in Matrix /\ T \in Var /\ 0 \in Var
    BY <1>1, <1>2, DwellVar
  <2>2. /\ TightenWithoutClose(Z, 0, T, Le(-d)) \in Matrix
        /\ \A i, j \in Var : TightenWithoutClose(Z, 0, T, Le(-d))[i][j] =
                                IF i = 0 /\ j = T THEN Lower(Z[0][T], Le(-d)) ELSE Z[i][j]
    BY ONLY <2>1, TightenWithoutCloseIs
  <2> QED
    BY <2>2
<1> HIDE DEF F
<1>4. /\ G \in Matrix
      /\ \A i, j \in Var : G[i][j] = IF i = T /\ j = 0 THEN Lower(F[T][0], Le(d)) ELSE F[i][j]
  <2>1. Le(d) \in Bound /\ F \in Matrix /\ T \in Var /\ 0 \in Var
    BY <1>1, <1>3, DwellVar
  <2>2. /\ TightenWithoutClose(F, T, 0, Le(d)) \in Matrix
        /\ \A i, j \in Var : TightenWithoutClose(F, T, 0, Le(d))[i][j] =
                                IF i = T /\ j = 0 THEN Lower(F[T][0], Le(d)) ELSE F[i][j]
    BY ONLY <2>1, TightenWithoutCloseIs
  <2> QED
    BY <2>2
<1> HIDE DEF G
<1>5. /\ \A i, j \in Var : G[i][j] <= Z[i][j]
      /\ G[0][T] <= Le(-d) /\ G[T][0] <= Le(d)
  <2>1. \A i, j \in Var : F[i][j] <= Z[i][j] /\ F[i][j] \in Int
    BY <1>1, <1>2, <1>3, Entries DEF Lower
  <2>2. G[0][T] <= Le(-d)
    BY <1>1, <1>2, <1>3, <1>4, DwellVar DEF Lower
  <2>3. G[T][0] <= Le(d)
    BY <1>1, <1>4, <2>1, DwellVar DEF Lower
  <2>4. ASSUME NEW i \in Var, NEW j \in Var PROVE G[i][j] <= Z[i][j]
    BY <1>1, <1>2, <1>4, <2>1, DwellVar DEF Lower
  <2> QED
    BY <2>2, <2>3, <2>4
<1>6. /\ K \in Matrix /\ \A i, j \in Var : K[i][j] <= G[i][j]
      /\ \A i, j, k \in Var : K[i][j] <= Add(G[i][k], G[k][j])
  BY <1>4, CanonizeShortens
<1>7. AtEnd(Z) = K
  BY DEF AtEnd, K, G, F, d
<1>8. \A i, j \in Var : G[i][j] \in Int /\ G[i][j] \in Bound
  BY <1>4, Entries
<1>9. ASSUME NEW i \in Var, NEW j \in Var PROVE G[i][j] <= limit
  <2>1. G[i][j] <= Z[i][j] /\ Z[i][j] <= limit
    BY <1>2, <1>5
  <2> QED
    BY <1>1, <1>2, <1>8, <2>1
<1>10. Canonical(K)
  BY <1>1, <1>4, <1>7, <1>9, CanonizeCanonical
<1> HIDE DEF K
<1>11. \A i, j \in Var : K[i][j] \in Int
  BY <1>6, Entries
<1>12. ASSUME NEW i \in Var, NEW j \in Var PROVE K[i][j] <= limit
  <2>1. K[i][j] <= G[i][j] /\ G[i][j] <= limit
    BY <1>6, <1>9
  <2> QED
    BY <1>1, <1>8, <1>11, <2>1
<1>13. ASSUME NEW i \in Var PROVE K[i][i] <= Le(0)
  <2>1. CASE i \in {0, T}
    <3>1. PICK k \in {0, T} : k # i
      BY <2>1, DwellVar
    <3>2. K[i][i] <= Add(G[i][k], G[k][i])
      BY <1>6, <3>1, DwellVar
    <3>3. Add(G[i][k], G[k][i]) <= Le(0)
      <4>1. CASE i = 0
        <5>1. k = T
          BY <3>1, <4>1
        <5>2. Add(G[0][T], G[T][0]) <= Add(Le(-d), Le(d))
          BY <1>1, <1>5, <1>8, DwellVar, AddMonotone
        <5> QED
          BY <1>1, <4>1, <5>1, <5>2
      <4>2. CASE i = T
        <5>1. k = 0
          BY <3>1, <4>2
        <5>2. Add(G[T][0], G[0][T]) <= Add(Le(d), Le(-d))
          BY <1>1, <1>5, <1>8, DwellVar, AddMonotone
        <5> QED
          BY <1>1, <4>2, <5>1, <5>2
      <4> QED
        BY <2>1, <4>1, <4>2
    <3>4. Add(G[i][k], G[k][i]) \in Int
      <4>1. Add(G[i][k], G[k][i]) \in Bound
        BY <1>8, <3>1, DwellVar, AddIsBound
      <4> QED
        BY <4>1 DEF Bound
    <3> QED
      BY <1>1, <1>11, <3>2, <3>3, <3>4
  <2>2. CASE i \notin {0, T}
    <3>1. K[i][i] <= G[i][i] /\ G[i][i] <= Z[i][i] /\ Z[i][i] <= Le(0)
      BY <1>2, <1>5, <1>6, <2>2
    <3> QED
      BY <1>1, <1>2, <1>8, <1>11, <3>1
  <2> QED
    BY <2>1, <2>2
<1> QED
  BY <1>6, <1>7, <1>10, <1>12, <1>13 DEF Settled

(* Everything that enters a piece, or begins in it, is fresh.              *)
LEMMA ArrivalsFresh ==
    ASSUME CostsAreWeights, KeptInv, NEW piece \in Pieces,
           NEW room \in Nat, Le(0) <= room, 4 * room < Infinity,
           \A c \in configuration : c.conf.zone \in Settled(room)
    PROVE  LET confs == Listed({[c EXCEPT !.conf = Entered(@, piece.valuation)] :
                                   c \in configuration})
                          \o [i \in DOMAIN TA.init |->
                                 [conf |-> InitialConf(TA.init[i]), weight |-> One]]
           IN  \A i \in DOMAIN confs : Fresh(confs[i].conf.zone, room)
<1> DEFINE enter(c) == [c EXCEPT !.conf = Entered(@, piece.valuation)]
           S == {c \in Arrivals : Fresh(c.conf.zone, room)}
<1>1. piece.valuation \in Values
  BY DEF Values
<1>2. ASSUME NEW c \in configuration PROVE enter(c) \in S
  <2>1. /\ c \in Resting /\ c.conf \in Confs /\ Carried(c.conf) /\ c.weight \in Weight
        /\ c.conf.zone \in Settled(room)
    BY DEF KeptInv, Resting
  <2>2. /\ Entered(c.conf, piece.valuation) \in Confs
        /\ Valid(Entered(c.conf, piece.valuation))
        /\ Entering(Entered(c.conf, piece.valuation))
    BY <1>1, <2>1, ConfEnters DEF Valid
  <2>3. enter(c) = [conf |-> Entered(c.conf, piece.valuation), weight |-> c.weight]
    BY <2>1 DEF Resting
  <2>4. Fresh(Entered(c.conf, piece.valuation).zone, room)
    BY <2>1, EnteredFresh
  <2> HIDE DEF enter
  <2> QED
    BY <2>1, <2>2, <2>3, <2>4 DEF Arrivals
<1>3. ASSUME NEW i \in DOMAIN TA.init
      PROVE  [conf |-> InitialConf(TA.init[i]), weight |-> One] \in S
  <2>1. InitialConf(TA.init[i]).zone = initialZone
    BY DEF InitialConf
  <2>2. Fresh(InitialConf(TA.init[i]).zone, room)
    BY <2>1, InitialFresh
  <2> QED
    BY <2>2, InitialEnters DEF Arrivals, CostsAreWeights, Valid
<1>4. IsFiniteSet(configuration)
  BY DEF KeptInv
<1> DEFINE confs == Listed({enter(c) : c \in configuration})
                      \o [i \in DOMAIN TA.init |->
                             [conf |-> InitialConf(TA.init[i]), weight |-> One]]
<1> HIDE DEF S
<1>5. confs \in Seq(S)
  BY <1>2, <1>3, <1>4, ArrivalsAre
<1> SUFFICES \A i \in DOMAIN confs : Fresh(confs[i].conf.zone, room)
  OBVIOUS
<1> HIDE DEF confs
<1>6. \A i \in DOMAIN confs : confs[i] \in S
  BY <1>5
<1> QED
  BY <1>6 DEF S

-----------------------------------------------------------------------------
(* The zones of the engine have the room that the time so far gives them   *)

(* Inductive with EngineInv: between the pieces the zones are settled, in  *)
(* a piece the construction has the zones it relies on, and what is left   *)
(* of them is settled again.                                               *)
Fits(room) ==
    /\ \A c \in configuration : c.conf.zone \in Settled(room)
    /\ stage # "idle" => CallFits(call, room) /\ StepInv(room)
    /\ stage # "idle" /\ ~ Reuse => ClosedInv
    /\ stage # "collect" => DOMAIN confMap = {}
    /\ \A g \in DOMAIN confMap : confMap[g] \in Seq(Settled(room))
    /\ \A v \in uncollected : IsSatisfiableWithoutCanonize(AtEnd(nodes[v].zone))
    /\ MergedUp

LEMMA FeedFits ==
    ASSUME CostsAreWeights, EngineInv, NEW piece \in Pieces, Feed(piece),
           NEW room, NEW limit, Roomy(piece.duration, room, limit), Fits(room)
    PROVE  Fits(limit)'
<1> DEFINE confs == Listed({[c EXCEPT !.conf = Entered(@, piece.valuation)] :
                                c \in configuration})
                      \o [i \in DOMAIN TA.init |->
                             [conf |-> InitialConf(TA.init[i]), weight |-> One]]
           begun == [confs |-> confs, valuation |-> piece.valuation,
                     duration |-> piece.duration]
<1>1. /\ stage = "idle" /\ stage' = "construct" /\ pc' = "init"
      /\ call' = begun /\ configuration' = {}
      /\ uncollected' = uncollected /\ confMap' = confMap
      /\ nodes' = nodes /\ edges' = edges /\ nextConf' = nextConf
      /\ currentConf' = currentConf /\ pending' = pending
  BY Zenon DEF Feed, graphVars
<1>2. /\ room \in Nat /\ limit \in Nat /\ Le(0) <= room /\ 4 * room < Infinity
      /\ 8 * limit < Infinity /\ Le(piece.duration) <= limit
  BY RoomIs DEF Roomy
<1>3. \A i \in DOMAIN confs : Fresh(confs[i].conf.zone, room)
  BY <1>2, ArrivalsFresh DEF EngineInv, Fits
<1> HIDE DEF confs
<1>4. /\ begun.confs = confs /\ begun.duration = piece.duration
      /\ Roomy(begun.duration, room, limit)
  OBVIOUS
<1> HIDE DEF begun
<1>5. CallWithin(begun, limit)
  <2>1. ASSUME NEW i \in DOMAIN confs
        PROVE  InPiece(begun, Dwell(begun, confs[i].conf.zone), limit)
    BY <1>3, <1>4, FreshEnters
  <2> QED
    BY <1>2, <1>4, <2>1 DEF CallWithin
<1>6. NoCall /\ uncollected = {} /\ DOMAIN confMap = {}
  BY <1>1 DEF EngineInv, FeedInv, Fits
<1>7. CallFits(call, limit)'
  <2>1. EngineInv'
    BY FeedKeeps
  <2>2. WellFormed(call')
    BY <1>1, <2>1 DEF EngineInv, FeedInv, ZoneInv, GraphInv
  <2>3. CallWithin(call', limit)
    BY <1>1, <1>5
  <2> QED
    BY <1>2, <2>2, <2>3 DEF CallFits
<1>8. /\ Live' = {} /\ edges' = {} /\ pending' = <<>> /\ currentConf' = <<>>
  BY <1>1, <1>6 DEF NoCall, Live
<1>9. StepInv(limit)' /\ ClosedInv'
  BY <1>1, <1>8 DEF StepInv, ClosedInv
<1>10. MergedUp'
  BY <1>1 DEF MergedUp
<1> QED
  BY <1>1, <1>6, <1>7, <1>9, <1>10 DEF Fits

(* What the construction keeps.                                            *)
LEMMA FitsOn ==
    ASSUME ZoneInv, [Next]_vars, NEW room, CallFits(call, room), StepInv(room),
           ~ Reuse => ClosedInv
    PROVE  CallFits(call, room)' /\ StepInv(room)' /\ (~ Reuse => ClosedInv')
<1>1. call' = call
  BY CallStays
<1>2. CallFits(call, room)'
  BY <1>1 DEF CallFits
<1>3. StepInv(room)'
  BY StepNext
<1>4. ~ Reuse => ClosedInv'
  BY CloseNext
<1> QED
  BY <1>2, <1>3, <1>4

LEMMA ConstructFits ==
    ASSUME EngineInv, Construct, NEW room, Fits(room)
    PROVE  Fits(room)'
<1>1. /\ stage = "construct" /\ Next /\ stage' = stage /\ configuration' = configuration
      /\ uncollected' = uncollected /\ confMap' = confMap
  BY Zenon DEF Construct, feedVars, stateVars
<1>2. /\ ZoneInv /\ uncollected = {} /\ DOMAIN confMap = {}
      /\ CallFits(call, room) /\ StepInv(room) /\ (~ Reuse => ClosedInv)
  BY <1>1 DEF EngineInv, FeedInv, Fits
<1>3. CallFits(call, room)' /\ StepInv(room)' /\ (~ Reuse => ClosedInv')
  BY <1>1, <1>2, FitsOn
<1>4. MergedUp' = MergedUp
  BY <1>1 DEF MergedUp
<1> QED
  BY <1>1, <1>2, <1>3, <1>4 DEF Fits

LEMMA MeasureFits ==
    ASSUME EngineInv, Measure, NEW room, Fits(room)
    PROVE  Fits(room)'
<1>1. /\ stage = "construct" /\ stage' = "collect" /\ configuration' = configuration
      /\ uncollected' = {v \in Live : Collectable(v, Distances)}
      /\ confMap' = confMap /\ UNCHANGED vars
  BY Zenon DEF Measure, stateVars
<1>2. /\ ZoneInv /\ DOMAIN confMap = {}
      /\ CallFits(call, room) /\ StepInv(room) /\ (~ Reuse => ClosedInv)
  BY <1>1 DEF EngineInv, FeedInv, Fits
<1>3. CallFits(call, room)' /\ StepInv(room)' /\ (~ Reuse => ClosedInv')
  BY <1>1, <1>2, FitsOn
<1>4. nodes' = nodes /\ call' = call
  BY <1>1 DEF vars, graphVars
<1>5. \A v \in uncollected' : IsSatisfiableWithoutCanonize(AtEnd(nodes[v].zone))
  BY <1>1 DEF Collectable
<1>6. \A v \in uncollected' : IsSatisfiableWithoutCanonize(AtEnd(nodes[v].zone)')
  BY <1>4, <1>5 DEF AtEnd
<1>7. MergedUp' = MergedUp
  BY <1>1 DEF MergedUp
<1> QED
  BY <1>1, <1>2, <1>3, <1>6, <1>7 DEF Fits

LEMMA CollectFits ==
    ASSUME EngineInv, NEW v \in uncollected, Collect(v), NEW room, Fits(room)
    PROVE  Fits(room)'
<1> DEFINE g == Group(v)
           zones == IF g \in DOMAIN confMap THEN confMap[g] ELSE <<>>
           merged == MergedInto(zones, AtEnd(nodes[v].zone))
<1>1. /\ stage = "collect" /\ confMap' = Put(confMap, g, merged)
      /\ uncollected' = uncollected \ {v}
      /\ stage' = stage /\ configuration' = configuration /\ UNCHANGED vars
  BY DEF Collect, stateVars
<1>2. /\ ZoneInv /\ v \in Live
      /\ CallFits(call, room) /\ StepInv(room) /\ (~ Reuse => ClosedInv)
  BY <1>1 DEF EngineInv, FeedInv, Fits
<1>3. CallFits(call, room)' /\ StepInv(room)' /\ (~ Reuse => ClosedInv')
  BY <1>1, <1>2, FitsOn
<1>4. nodes' = nodes /\ call' = call
  BY <1>1 DEF vars, graphVars
<1>5. AtEnd(nodes[v].zone) \in Settled(room)
  <2>1. InPiece(call, nodes[v].zone, room)
    BY <1>2 DEF StepInv
  <2>2. IsSatisfiableWithoutCanonize(AtEnd(nodes[v].zone))
    BY DEF Fits
  <2> QED
    BY <1>2, <2>1, <2>2, AtEndSettles
<1>6. merged \in Seq(Settled(room))
  <2>1. Merging(Settled(room))
    BY MergeSettles DEF Merging, Settled
  <2>2. zones \in Seq(Settled(room))
    BY DEF Fits
  <2> HIDE DEF zones
  <2> QED
    BY <1>5, <2>1, <2>2, MergedIntoStays
<1> HIDE DEF g, merged
<1>7. /\ DOMAIN confMap' = DOMAIN confMap \cup {g}
      /\ \A h \in DOMAIN confMap' : confMap'[h] = IF h = g THEN merged ELSE confMap[h]
  BY <1>1 DEF Put
<1>8. \A h \in DOMAIN confMap' : confMap'[h] \in Seq(Settled(room))
  BY <1>6, <1>7 DEF Fits
<1>9. \A u \in uncollected' : IsSatisfiableWithoutCanonize(AtEnd(nodes[u].zone)')
  BY <1>1, <1>4 DEF AtEnd, Fits
<1>10. MergedUp' = MergedUp
  BY <1>1 DEF MergedUp
<1> QED
  BY <1>1, <1>3, <1>8, <1>9, <1>10 DEF Fits

LEMMA OverFits ==
    ASSUME EngineInv, UNCHANGED engineVars, NEW room, Fits(room)
    PROVE  Fits(room)'
<1>1. /\ stage' = stage /\ configuration' = configuration /\ confMap' = confMap
      /\ uncollected' = uncollected /\ UNCHANGED vars
  BY Zenon DEF engineVars, stateVars, feedVars
<1>2. stage # "idle" =>
          CallFits(call, room)' /\ StepInv(room)' /\ (~ Reuse => ClosedInv')
  <2> SUFFICES ASSUME stage # "idle"
               PROVE  CallFits(call, room)' /\ StepInv(room)' /\ (~ Reuse => ClosedInv')
    OBVIOUS
  <2>1. ZoneInv /\ CallFits(call, room) /\ StepInv(room) /\ (~ Reuse => ClosedInv)
    BY DEF EngineInv, FeedInv, Fits
  <2> QED
    BY <1>1, <2>1, FitsOn
<1>3. nodes' = nodes /\ call' = call
  BY <1>1 DEF vars, graphVars
<1>4. \A v \in uncollected' : IsSatisfiableWithoutCanonize(AtEnd(nodes[v].zone)')
  BY <1>1, <1>3 DEF AtEnd, Fits
<1>5. MergedUp' = MergedUp
  BY <1>1 DEF MergedUp
<1> QED
  BY <1>1, <1>2, <1>4, <1>5 DEF Fits

(* The zones that go on are what the second pass leaves of a group, and no *)
(* two of them can be merged.                                              *)
LEMMA NewConfigurationFits ==
    ASSUME FeedInv, NEW room \in Nat, 8 * room < Infinity,
           \A g \in DOMAIN confMap : confMap[g] \in Seq(Settled(room))
    PROVE  /\ \A c \in NewConfiguration : c.conf.zone \in Settled(room)
           /\ \A c, d \in NewConfiguration :
                c # d /\ c.weight = d.weight
                /\ [c.conf EXCEPT !.zone = {}] = [d.conf EXCEPT !.zone = {}]
                    => ~ Mergeable(c.conf.zone, d.conf.zone)
<1> DEFINE left(g) == Swept(confMap[g])
           rested(g, Z) ==
             [conf |-> [vertex |-> g.vertex, jumpable |-> g.jumpable,
                        zone |-> Z, valuations |-> g.valuations],
              weight |-> g.weight]
<1>1. ASSUME NEW g \in DOMAIN confMap
      PROVE  /\ g \in Groups /\ left(g) \in Seq(Settled(room)) /\ Clean(left(g))
  <2>1. Merging(Settled(room))
    BY MergeSettles DEF Merging, Settled
  <2> QED
    BY <2>1, SweptClean DEF FeedInv
<1>2. ASSUME NEW c \in NewConfiguration
      PROVE  \E g \in DOMAIN confMap : \E i \in DOMAIN left(g) : c = rested(g, left(g)[i])
  <2>1. PICK g \in DOMAIN confMap : \E Z \in Range(left(g)) : c = rested(g, Z)
    BY DEF NewConfiguration
  <2> HIDE DEF left, rested
  <2> QED
    BY <2>1 DEF Range
<1> HIDE DEF left
<1>3. ASSUME NEW c \in NewConfiguration PROVE c.conf.zone \in Settled(room)
  <2>1. PICK g \in DOMAIN confMap : \E i \in DOMAIN left(g) : c = rested(g, left(g)[i])
    BY <1>2
  <2>2. PICK i \in DOMAIN left(g) : c = rested(g, left(g)[i])
    BY <2>1
  <2>3. left(g)[i] \in Settled(room)
    BY <1>1
  <2> QED
    BY <2>2, <2>3
<1>4. ASSUME NEW c \in NewConfiguration, NEW d \in NewConfiguration,
             c # d, c.weight = d.weight,
             [c.conf EXCEPT !.zone = {}] = [d.conf EXCEPT !.zone = {}]
      PROVE  ~ Mergeable(c.conf.zone, d.conf.zone)
  <2>1. PICK g \in DOMAIN confMap : \E i \in DOMAIN left(g) : c = rested(g, left(g)[i])
    BY <1>2
  <2>2. PICK i \in DOMAIN left(g) : c = rested(g, left(g)[i])
    BY <2>1
  <2>3. PICK h \in DOMAIN confMap : \E j \in DOMAIN left(h) : d = rested(h, left(h)[j])
    BY <1>2
  <2>4. PICK j \in DOMAIN left(h) : d = rested(h, left(h)[j])
    BY <2>3
  <2>5. g = h
    <3>1. g \in Groups /\ h \in Groups
      BY <1>1
    <3>2. /\ c.conf = [vertex |-> g.vertex, jumpable |-> g.jumpable,
                       zone |-> left(g)[i], valuations |-> g.valuations]
          /\ d.conf = [vertex |-> h.vertex, jumpable |-> h.jumpable,
                       zone |-> left(h)[j], valuations |-> h.valuations]
      BY <2>2, <2>4
    <3>3. g.vertex = h.vertex /\ g.jumpable = h.jumpable /\ g.valuations = h.valuations
      <4> DEFINE bare(conf) == [conf EXCEPT !.zone = {}]
      <4>1. bare(c.conf) = bare(d.conf)
        BY <1>4
      <4>2. /\ bare(c.conf).vertex = g.vertex /\ bare(c.conf).jumpable = g.jumpable
            /\ bare(c.conf).valuations = g.valuations
        BY <3>2
      <4>3. /\ bare(d.conf).vertex = h.vertex /\ bare(d.conf).jumpable = h.jumpable
            /\ bare(d.conf).valuations = h.valuations
        BY <3>2
      <4> HIDE DEF bare
      <4> QED
        BY <4>1, <4>2, <4>3
    <3>4. g.weight = h.weight
      BY <1>4, <2>2, <2>4
    <3> QED
      BY <3>1, <3>3, <3>4 DEF Groups
  <2> DEFINE s == left(g)
  <2>6. s \in Seq(Settled(room)) /\ Clean(s) /\ i \in 1 .. Len(s) /\ j \in 1 .. Len(s)
    BY <1>1, <2>5
  <2>7. c.conf.zone = s[i] /\ d.conf.zone = s[j] /\ i # j
    BY <1>4, <2>2, <2>4, <2>5
  <2> HIDE DEF s
  <2>8. s[i] \in Settled(room) /\ s[j] \in Settled(room)
    BY <2>6
  <2>9. CASE i < j
    BY <2>6, <2>7, <2>9 DEF Clean, CleanUpTo
  <2>10. CASE j < i
    <3>1. ~ Mergeable(s[j], s[i])
      BY <2>6, <2>10 DEF Clean, CleanUpTo
    <3>2. Mergeable(s[i], s[j]) => Mergeable(s[j], s[i])
      BY <2>8, MergeableSymmetric
    <3> QED
      BY <2>7, <3>1, <3>2
  <2> QED
    BY <2>6, <2>7, <2>9, <2>10
<1> QED
  BY <1>3, <1>4

LEMMA FinishFits ==
    ASSUME EngineInv, Finish, NEW room, Fits(room)
    PROVE  Fits(room)'
<1>1. /\ stage = "collect" /\ configuration' = NewConfiguration /\ stage' = "idle"
      /\ uncollected = {} /\ uncollected' = {} /\ DOMAIN confMap' = {}
  BY DEF Finish
<1>2. FeedInv /\ room \in Nat /\ 8 * room < Infinity
  BY <1>1 DEF EngineInv, Fits, CallFits
<1>3. /\ \A c \in configuration' : c.conf.zone \in Settled(room)
      /\ MergedUp'
  BY <1>1, <1>2, NewConfigurationFits DEF Fits, MergedUp
<1> QED
  BY <1>1, <1>3 DEF Fits

(* What is assumed of the signal: its pieces last at least a tick and at   *)
(* most longest, and the bounds that can add up in so many pieces are all  *)
(* below the infinite one.                                                 *)
Timely(longest) ==
    /\ longest \in Nat
    /\ \A piece \in Pieces : piece.duration \in 1 .. longest
    /\ 8 * (MaxPieces * (4 * longest + 2) + 1) < Infinity

FitInv(longest) ==
    /\ Elapsed <= longest * Len(fed)
    /\ \A room \in {Room} : Fits(room)

LEMMA RoomFits ==
    ASSUME NEW longest \in Nat, NEW n \in Nat, NEW elapsed \in Nat,
           elapsed <= longest * n, n <= MaxPieces,
           8 * (MaxPieces * (4 * longest + 2) + 1) < Infinity
    PROVE  8 * (4 * elapsed + 2 * n + 1) < Infinity
<1>1. MaxPieces \in Nat /\ Infinity \in Int
  BY QTPMAssumption, DBMAssumption
<1>2. PICK k \in Nat : MaxPieces = n + k
  BY <1>1
<1>3. longest * n \in Nat /\ longest * k \in Nat
  OBVIOUS
<1>4. longest * (n + k) = longest * n + longest * k
  OBVIOUS
<1>5. (n + k) * (4 * longest + 2) = 4 * (longest * (n + k)) + 2 * (n + k)
  OBVIOUS
<1>6. 4 * elapsed + 2 * n + 1 <= (n + k) * (4 * longest + 2) + 1
  <2> DEFINE a == longest * n
             b == longest * k
  <2>1. a \in Nat /\ b \in Nat /\ elapsed <= a
    BY <1>3
  <2>2. (n + k) * (4 * longest + 2) = 4 * (a + b) + 2 * (n + k)
    BY <1>4, <1>5
  <2> HIDE DEF a, b
  <2>3. 4 * elapsed + 2 * n + 1 <= 4 * (a + b) + 2 * (n + k) + 1
    BY <2>1
  <2> QED
    BY <2>2, <2>3
<1> DEFINE most == (n + k) * (4 * longest + 2)
<1>7. most \in Nat /\ 8 * (most + 1) < Infinity /\ 4 * elapsed + 2 * n + 1 <= most + 1
  BY <1>2, <1>6
<1> HIDE DEF most
<1> QED
  BY <1>1, <1>7

LEMMA FitStarts == ASSUME NEW longest, Timely(longest), EngineInit PROVE FitInv(longest)
<1>1. /\ configuration = {} /\ absTime = 0 /\ stage = "idle" /\ fed = <<>>
      /\ uncollected = {} /\ confMap = <<>>
  BY DEF EngineInit
<1>2. Elapsed = 0 /\ Len(fed) = 0 /\ longest * 0 = 0
  BY <1>1 DEF Elapsed, Timely
<1>3. MergedUp
  BY <1>1 DEF MergedUp
<1> QED
  BY <1>1, <1>2, <1>3 DEF FitInv, Fits

(* The time that passes between a feed and the next.                       *)
LEMMA FeedTakes ==
    ASSUME EngineInv, NEW longest, Timely(longest), Elapsed <= longest * Len(fed),
           NEW piece \in Pieces, Feed(piece)
    PROVE  /\ Elapsed' <= longest * Len(fed')
           /\ Roomy(piece.duration, Room, Room')
<1>1. /\ stage = "idle" /\ stage' = "construct" /\ fed' = Append(fed, piece)
      /\ absTime' = absTime /\ call'.duration = piece.duration /\ Len(fed) < MaxPieces
  BY DEF Feed
<1>2. /\ fed \in Seq(Pieces) /\ absTime \in Nat /\ longest \in Nat
      /\ piece.duration \in 1 .. longest
  BY DEF EngineInv, KeptInv, Timely
<1>3. Len(fed') = Len(fed) + 1 /\ Len(fed) \in Nat
  BY <1>1, <1>2
<1>4. Elapsed = absTime /\ Elapsed' = absTime + piece.duration
  BY <1>1 DEF Elapsed
<1> DEFINE n == Len(fed)
<1>5. longest * (n + 1) = longest * n + longest /\ longest * n \in Nat
  BY <1>2, <1>3
<1>6. Elapsed' <= longest * Len(fed')
  <2> DEFINE a == longest * n
  <2>1. a \in Nat /\ absTime <= a /\ longest * Len(fed') = a + longest
    BY <1>3, <1>4, <1>5
  <2> HIDE DEF a
  <2> QED
    BY <1>2, <1>4, <2>1
<1>7. 8 * Room' < Infinity
  <2>1. Len(fed') <= MaxPieces /\ Len(fed') \in Nat /\ Elapsed' \in Nat
    BY <1>1, <1>2, <1>3, <1>4, QTPMAssumption
  <2>2. 8 * (4 * Elapsed' + 2 * Len(fed') + 1) < Infinity
    BY <1>2, <1>6, <2>1, RoomFits DEF Timely
  <2> QED
    BY <2>2 DEF Room
<1>8. /\ Room \in Nat /\ Room' \in Nat /\ Le(0) <= Room
      /\ Room + 2 * Le(piece.duration) <= Room'
  <2>1. /\ Room = 4 * absTime + 2 * n + 1
        /\ Room' = 4 * (absTime + piece.duration) + 2 * (n + 1) + 1
    BY <1>3, <1>4 DEF Room
  <2> DEFINE d == piece.duration
  <2>2. n \in Nat /\ d \in Nat /\ absTime \in Nat
    BY <1>2, <1>3
  <2>3. Room = 4 * absTime + 2 * n + 1 /\ Room' = 4 * (absTime + d) + 2 * (n + 1) + 1
    BY <2>1
  <2> HIDE DEF n, d
  <2>4. Le(0) = 1 /\ Le(d) = 2 * d + 1
    BY <2>2 DEF Le
  <2>5. /\ Room \in Nat /\ Room' \in Nat /\ Le(0) <= Room
        /\ Room + 2 * Le(d) <= Room'
    BY <2>2, <2>3, <2>4
  <2> QED
    BY <2>5 DEF d
<1> QED
  BY <1>2, <1>6, <1>7, <1>8 DEF Roomy

LEMMA FitStep ==
    ASSUME WeightLaws, EngineInv, NEW longest, Timely(longest), FitInv(longest),
           [EngineNext]_engineVars
    PROVE  FitInv(longest)'
<1>1. PICK room : room = Room
  OBVIOUS
<1>2. PICK next : next = Room'
  OBVIOUS
<1>3. Fits(room) /\ CostsAreWeights
  BY <1>1 DEF FitInv, WeightLaws
<1>4. SUFFICES Elapsed' <= longest * Len(fed') /\ Fits(next)'
  BY <1>2 DEF FitInv
<1>5. ASSUME NEW piece \in Pieces, Feed(piece)
      PROVE  Elapsed' <= longest * Len(fed') /\ Fits(next)'
  <2>1. Elapsed' <= longest * Len(fed') /\ Roomy(piece.duration, room, next)
    BY <1>1, <1>2, <1>5, FeedTakes DEF FitInv
  <2> QED
    BY <1>3, <1>5, <2>1, FeedFits
<1>6. ASSUME Elapsed' = Elapsed, fed' = fed
      PROVE  Elapsed' <= longest * Len(fed') /\ next = room
  BY <1>1, <1>2, <1>6 DEF FitInv, Room
<1>7. CASE Construct
  <2>1. call' = call /\ stage' = stage /\ absTime' = absTime /\ fed' = fed
    BY <1>7, CallStays DEF Construct, stateVars, feedVars
  <2>2. Elapsed' = Elapsed
    BY <2>1 DEF Elapsed
  <2> QED
    BY <1>3, <1>6, <1>7, <2>1, <2>2, ConstructFits
<1>8. CASE Measure
  <2>1. /\ call' = call /\ stage = "construct" /\ stage' = "collect" /\ absTime' = absTime
        /\ fed' = fed
    BY <1>8 DEF Measure, stateVars, vars
  <2>2. Elapsed' = Elapsed
    BY <2>1 DEF Elapsed
  <2> QED
    BY <1>3, <1>6, <1>8, <2>1, <2>2, MeasureFits
<1>9. ASSUME NEW v \in uncollected, Collect(v)
      PROVE  Elapsed' <= longest * Len(fed') /\ Fits(next)'
  <2>1. call' = call /\ stage' = stage /\ absTime' = absTime /\ fed' = fed
    BY <1>9 DEF Collect, stateVars, vars
  <2>2. Elapsed' = Elapsed
    BY <2>1 DEF Elapsed
  <2> QED
    BY <1>3, <1>6, <1>9, <2>1, <2>2, CollectFits
<1>10. CASE Finish
  <2>1. /\ stage = "collect" /\ stage' = "idle" /\ absTime' = absTime + call.duration
        /\ fed' = fed
    BY <1>10 DEF Finish
  <2>2. Elapsed' = Elapsed
    BY <2>1 DEF Elapsed
  <2> QED
    BY <1>3, <1>6, <1>10, <2>1, <2>2, FinishFits
<1>11. CASE Over \/ UNCHANGED engineVars
  <2>1. UNCHANGED engineVars
    BY <1>11 DEF Over
  <2>2. call' = call /\ stage' = stage /\ absTime' = absTime /\ fed' = fed
    BY <2>1 DEF engineVars, stateVars, feedVars, vars
  <2>3. Elapsed' = Elapsed
    BY <2>2 DEF Elapsed
  <2> QED
    BY <1>3, <1>6, <2>1, <2>2, <2>3, OverFits
<1> QED
  BY <1>5, <1>7, <1>8, <1>9, <1>10, <1>11 DEF EngineNext

THEOREM EngineInvariant ==
    ASSUME WeightLaws, NEW longest, Timely(longest)
    PROVE  EngineSpec => [](EngineInv /\ FitInv(longest))
<1>1. EngineInit => EngineInv /\ FitInv(longest)
  BY EngineStarts, FitStarts
<1>2. /\ EngineInv /\ FitInv(longest)
      /\ [EngineNext]_engineVars
      => (EngineInv /\ FitInv(longest))'
  BY EngineStep, FitStep
<1> QED
  BY <1>1, <1>2, PTL DEF EngineSpec

(* zone_graph.hh:288-306: whatever was cut, merged and carried over, every *)
(* call of the construction that feed makes is one with the zones that the *)
(* theorems about the construction assume.                                 *)
THEOREM EngineCallsFit ==
    ASSUME WeightLaws, NEW longest, Timely(longest)
    PROVE  EngineSpec => []CallsFit
<1>1. EngineInv /\ FitInv(longest) => CallsFit
  <2> SUFFICES ASSUME EngineInv, FitInv(longest), pc = "init" PROVE CallWithin(call, Room)
    BY DEF CallsFit
  <2>1. stage # "idle"
    BY DEF EngineInv, FeedInv, NoCall
  <2>2. PICK room : room = Room
    OBVIOUS
  <2>3. Fits(room)
    BY <2>2 DEF FitInv
  <2> QED
    BY <2>1, <2>2, <2>3 DEF Fits, CallFits
<1> QED
  BY <1>1, EngineInvariant, PTL

(* In the graph that the engine measures every edge is a step of the       *)
(* automaton within the piece, with its cost.                              *)
THEOREM EngineEdgesAreSteps ==
    ASSUME WeightLaws, NEW longest, Timely(longest)
    PROVE  EngineSpec => []EdgesAreSteps
<1>1. EngineInv /\ FitInv(longest) => EdgesAreSteps
  <2> SUFFICES ASSUME EngineInv, FitInv(longest) PROVE EdgesAreSteps
    OBVIOUS
  <2>1. PICK room : room = Room
    OBVIOUS
  <2>2. Fits(room)
    BY <2>1 DEF FitInv
  <2>3. CASE stage = "idle"
    BY <2>3 DEF EngineInv, FeedInv, NoCall, EdgesAreSteps
  <2>4. CASE stage # "idle"
    BY <2>2, <2>4, MovesAreSteps DEF Fits, StepInv
  <2> QED
    BY <2>3, <2>4
<1> QED
  BY <1>1, EngineInvariant, PTL

(* When the engine measures the graph, every step of the automaton that    *)
(* leads on is in it, unless an address was used for a second vertex.      *)
THEOREM EngineClosedOnReturn ==
    ASSUME ~ Reuse, WeightLaws, NEW longest, Timely(longest)
    PROVE  EngineSpec => []ClosedOnReturn
<1>1. EngineInv /\ FitInv(longest) => ClosedOnReturn
  <2> SUFFICES ASSUME EngineInv, FitInv(longest) PROVE ClosedOnReturn
    OBVIOUS
  <2>1. PICK room : room = Room
    OBVIOUS
  <2>2. Fits(room)
    BY <2>1 DEF FitInv
  <2>3. CASE stage = "idle"
    BY <2>3 DEF EngineInv, FeedInv, NoCall, ClosedOnReturn, Live
  <2>4. CASE stage # "idle"
    BY <2>2, <2>4, FollowedIsClosed DEF Fits, EngineInv, FeedInv
  <2> QED
    BY <2>3, <2>4
<1> QED
  BY <1>1, EngineInvariant, PTL

(* quantitative_timed_pattern_matching.hh:177-206: after the second pass   *)
(* no two configurations that agree in all but their zones can be merged,  *)
(* in whatever order they were collected.                                  *)
THEOREM EngineMergedUp ==
    ASSUME WeightLaws, NEW longest, Timely(longest)
    PROVE  EngineSpec => []MergedUp
<1>1. FitInv(longest) => MergedUp
  <2> SUFFICES ASSUME FitInv(longest) PROVE MergedUp
    OBVIOUS
  <2>1. PICK room : room = Room
    OBVIOUS
  <2> QED
    BY <2>1 DEF FitInv, Fits
<1> QED
  BY <1>1, EngineInvariant, PTL

(* What the construction keeps of the points, whatever the engine does.    *)
LEMMA ReachedStep ==
    ASSUME WeightLaws, EngineInv, NEW longest, Timely(longest), FitInv(longest),
           [EngineNext]_engineVars, stage # "idle" => PointsReached
    PROVE  stage' # "idle" => PointsReached'
<1>1. PICK room : room = Room
  OBVIOUS
<1>2. Fits(room)
  BY <1>1 DEF FitInv
<1>3. ASSUME stage # "idle", [Next]_vars
      PROVE  PointsReached'
  <2>1. ZoneInv /\ CallFits(call, room) /\ StepInv(room)
    BY <1>2, <1>3 DEF EngineInv, FeedInv, Fits
  <2>2. StepInv(room)'
    BY <1>3, <2>1, StepNext
  <2> QED
    BY <1>3, <2>1, <2>2, ReachedNext
<1>4. ASSUME NEW piece \in Pieces, Feed(piece)
      PROVE  PointsReached'
  <2>1. stage = "idle" /\ nodes' = nodes
    BY <1>4, Zenon DEF Feed, graphVars
  <2>2. Live' = {}
    BY <2>1 DEF EngineInv, FeedInv, NoCall, Live
  <2> QED
    BY <2>2 DEF PointsReached
<1>5. CASE Construct
  <2>1. stage = "construct" /\ Next
    BY <1>5 DEF Construct
  <2> QED
    BY <1>3, <2>1
<1>6. CASE Measure
  <2>1. stage = "construct" /\ UNCHANGED vars
    BY <1>6 DEF Measure
  <2> QED
    BY <1>3, <2>1
<1>7. ASSUME NEW v \in uncollected, Collect(v)
      PROVE  PointsReached'
  <2>1. stage = "collect" /\ UNCHANGED vars
    BY <1>7 DEF Collect
  <2> QED
    BY <1>3, <2>1
<1>8. CASE Finish
  BY <1>8 DEF Finish
<1>9. CASE Over \/ UNCHANGED engineVars
  <2>1. UNCHANGED vars /\ stage' = stage
    BY <1>9, Zenon DEF Over, engineVars, feedVars
  <2> QED
    BY <1>3, <2>1
<1> QED
  BY <1>4, <1>5, <1>6, <1>7, <1>8, <1>9 DEF EngineNext

(* Nor does the engine invent a configuration: every rational valuation of *)
(* every vertex of the graph it measures is one that the automaton comes   *)
(* to within the piece from a zone that was handed to the construction.    *)
THEOREM EnginePointsReached ==
    ASSUME WeightLaws, NEW longest, Timely(longest)
    PROVE  EngineSpec => [](PointsReached /\ VerticesHaveRuns)
<1>1. EngineInit => (stage # "idle" => PointsReached)
  BY DEF EngineInit
<1>2. EngineInv /\ FitInv(longest) /\ (stage # "idle" => PointsReached)
      /\ [EngineNext]_engineVars
      => (stage # "idle" => PointsReached)'
  BY ReachedStep
<1>3. EngineInv /\ FitInv(longest) /\ (stage # "idle" => PointsReached)
      => PointsReached /\ VerticesHaveRuns
  <2> SUFFICES ASSUME EngineInv, FitInv(longest), stage # "idle" => PointsReached
               PROVE  PointsReached /\ VerticesHaveRuns
    OBVIOUS
  <2>1. PICK room : room = Room
    OBVIOUS
  <2>2. Fits(room)
    BY <2>1 DEF FitInv
  <2>3. CASE stage = "idle"
    BY <2>3 DEF EngineInv, FeedInv, NoCall, Live, PointsReached, VerticesHaveRuns
  <2>4. CASE stage # "idle"
    BY <2>2, <2>4, RealIsReached DEF Fits
  <2> QED
    BY <2>3, <2>4
<1> QED
  BY <1>1, <1>2, <1>3, EngineInvariant, PTL DEF EngineSpec

-----------------------------------------------------------------------------
(* The runs through the pieces of a signal, and what they are worth        *)

(* A match begins in the piece, at any time: no clock has run yet.         *)
Begins(piece, p) ==
    /\ p.vertex \in Range(TA.init) /\ ~ p.jumpable /\ p.valuations = <<>>
    /\ \A x \in Var \ {T} : p.at[x] = 0
    /\ p.at[T] >= 0 /\ BeforeEnd(piece, p)

(* At the end of a piece the dwell time starts again.                      *)
Handed(p) ==
    [vertex |-> p.vertex, jumpable |-> FALSE, valuations |-> p.valuations,
     ticks |-> p.ticks, at |-> ResetPoint(p.at, {T})]

(* A run goes on in the next piece: when values have been observed since   *)
(* the last jump, those of the next piece are too.                         *)
GoesOn(last, piece, p, q) ==
    /\ p.at[T] = p.ticks * last.duration /\ ~ IsMatch(p.vertex)
    /\ IF p.jumpable THEN Delays(piece, Handed(p), q) ELSE q = Handed(p)

Earnings == Nat \X RunPoints \X Weight

(* The runs of the signal that come to the point q in the piece n are worth*)
(* x, when x is nothing, or what a run that begins there is worth, or what *)
(* the runs to a point before are worth times the cost of the step from    *)
(* there, or a sum.                                                        *)
Earns(signal, S, n, q, x) ==
    \/ x = Zero
    \/ x = One /\ Begins(signal[n], q)
    \/ \E p \in RunPoints, y \in Weight, w \in Weight :
          /\ <<n, p, y>> \in S /\ Steps(signal[n], p, q)
          /\ w = StepCost(p) /\ x = Times(y, w)
    \/ n > 1 /\ \E p \in RunPoints :
                   <<n - 1, p, x>> \in S /\ GoesOn(signal[n - 1], signal[n], p, q)
    \/ \E y, z \in Weight : <<n, q, y>> \in S /\ <<n, q, z>> \in S /\ x = Plus(y, z)
    \/ \E k \in Positive : <<n, InTicks(k, q), x>> \in S

ClosedUnderEarning(signal, S) ==
    \A n \in DOMAIN signal, q \in RunPoints, x \in Weight :
        Earns(signal, S, n, q, x) => <<n, q, x>> \in S

Earned(signal) ==
    {r \in Earnings : \A S \in SUBSET Earnings : ClosedUnderEarning(signal, S) => r \in S}

LEMMA EarnsMore ==
    ASSUME NEW signal, NEW S, NEW R, S \subseteq R, NEW n, NEW q, NEW x, Earns(signal, S, n, q, x)
    PROVE  Earns(signal, R, n, q, x)
  BY DEF Earns

LEMMA EarnedIs ==
    ASSUME NEW signal \in Seq(Pieces)
    PROVE  ClosedUnderEarning(signal, Earned(signal)) /\ Earned(signal) \subseteq Earnings
<1>1. Earned(signal) \subseteq Earnings
  BY DEF Earned
<1>2. ASSUME NEW n \in DOMAIN signal, NEW q \in RunPoints, NEW x \in Weight,
             Earns(signal, Earned(signal), n, q, x)
      PROVE  <<n, q, x>> \in Earned(signal)
  <2>1. <<n, q, x>> \in Earnings
    BY DEF Earnings
  <2>2. ASSUME NEW S \in SUBSET Earnings, ClosedUnderEarning(signal, S)
        PROVE  <<n, q, x>> \in S
    <3>1. Earned(signal) \subseteq S
      BY <2>2 DEF Earned
    <3>2. Earns(signal, S, n, q, x)
      BY <1>2, <3>1, EarnsMore
    <3> QED
      BY <2>2, <3>2 DEF ClosedUnderEarning
  <2> QED
    BY <2>1, <2>2 DEF Earned
<1> QED
  BY <1>1, <1>2 DEF ClosedUnderEarning

(* What has been earned is not lost when the next piece is fed.            *)
LEMMA EarnedGrows ==
    ASSUME NEW signal \in Seq(Pieces), NEW piece \in Pieces
    PROVE  Earned(signal) \subseteq Earned(Append(signal, piece))
<1>1. PICK next : next = Append(signal, piece)
  OBVIOUS
<1>2. /\ DOMAIN signal \subseteq DOMAIN next
      /\ \A n \in DOMAIN signal : next[n] = signal[n] /\ (n > 1 => n - 1 \in DOMAIN signal)
  BY <1>1
<1>3. ASSUME NEW S, ClosedUnderEarning(next, S) PROVE ClosedUnderEarning(signal, S)
  <2> SUFFICES ASSUME NEW n \in DOMAIN signal, NEW q \in RunPoints, NEW x \in Weight,
                      Earns(signal, S, n, q, x)
               PROVE  <<n, q, x>> \in S
    BY DEF ClosedUnderEarning
  <2>1. next[n] = signal[n] /\ (n > 1 => next[n - 1] = signal[n - 1]) /\ n \in DOMAIN next
    BY <1>2
  <2>2. Earns(next, S, n, q, x)
    BY <2>1 DEF Earns
  <2> QED
    BY <1>3, <2>1, <2>2 DEF ClosedUnderEarning
<1> QED
  BY <1>1, <1>3 DEF Earned

(* The time when the pieces up to each one are over.                       *)
After(signal) ==
    LET after[n \in 0 .. Len(signal)] ==
            IF n = 0 THEN 0 ELSE after[n - 1] + signal[n].duration
    IN  after

LEMMA AfterIs ==
    ASSUME NEW signal \in Seq(Pieces)
    PROVE  /\ After(signal) \in [0 .. Len(signal) -> Int] /\ After(signal)[0] = 0
           /\ \A n \in 1 .. Len(signal) :
                After(signal)[n] = After(signal)[n - 1] + signal[n].duration
<1> DEFINE N == Len(signal)
           Value(n, t) == t + signal[n].duration
           Follows(f) == f = [n \in 0 .. N |-> IF n = 0 THEN 0 ELSE f[n - 1] + signal[n].duration]
           step == [n \in 1 .. N |-> [t \in Int |-> Value(n, t)]]
           after == CHOOSE f : Follows(f)
<1>1. N \in Nat
  OBVIOUS
<1>2. ASSUME NEW n \in 1 .. N, NEW t \in Int PROVE Value(n, t) \in Int /\ step[n][t] = Value(n, t)
  <2>1. signal[n] \in Pieces
    OBVIOUS
  <2>2. signal[n].duration \in Nat
    BY <2>1, QTPMAssumption
  <2> QED
    BY <2>2
<1>3. PICK f \in [0 .. N -> Int] :
         \A n \in 0 .. N : f[n] = IF n = 0 THEN 0 ELSE step[n][f[n - 1]]
  <2>1. step \in [1 .. N -> [Int -> Int]]
    <3> HIDE DEF Value, N
    <3> QED
      BY <1>2
  <2> HIDE DEF step, N
  <2>2. Iterates(N, Int, 0, step) # {}
    <3>1. PICK M : M = Int
      OBVIOUS
    <3>2. step \in [1 .. N -> [M -> M]] /\ 0 \in M
      BY <2>1, <3>1
    <3>3. Iterates(N, M, 0, step) # {}
      BY ONLY <1>1, <3>2, RecursionExists
    <3> QED
      BY <3>1, <3>3
  <2>3. PICK f : f \in Iterates(N, Int, 0, step)
    BY <2>2
  <2>4. /\ f \in [0 .. N -> Int]
        /\ \A n \in 0 .. N : f[n] = IF n = 0 THEN 0 ELSE step[n][f[n - 1]]
    BY <2>3 DEF Iterates
  <2> QED
    BY <2>4
<1>4. ASSUME NEW n \in 0 .. N
      PROVE  f[n] = IF n = 0 THEN 0 ELSE f[n - 1] + signal[n].duration
  <2>1. CASE n = 0
    <3> HIDE DEF step
    <3> QED
      BY <1>3, <2>1
  <2>2. CASE n # 0
    <3>1. n \in 1 .. N /\ n - 1 \in 0 .. N
      BY <1>1, <2>2
    <3>2. f[n] = step[n][f[n - 1]] /\ f[n - 1] \in Int
      <4> HIDE DEF step, N
      <4> QED
        BY <1>3, <2>2, <3>1
    <3>3. f[n] = Value(n, f[n - 1])
      <4> HIDE DEF step, Value, N
      <4> QED
        BY <1>2, <3>1, <3>2
    <3> QED
      BY <2>2, <3>3
  <2> QED
    BY <2>1, <2>2
<1>5. Follows(f)
  <2> HIDE DEF N
  <2>1. f = [n \in 0 .. N |-> f[n]]
    OBVIOUS
  <2> QED
    BY <1>4, <2>1
<1>6. Follows(after)
  <2> HIDE DEF Follows
  <2> QED
    BY <1>5
<1>7. After(signal) = after
  BY Zenon DEF After
<1>8. \A n \in 0 .. N : after[n] = IF n = 0 THEN 0 ELSE after[n - 1] + signal[n].duration
  <2>1. after = [n \in 0 .. N |-> IF n = 0 THEN 0 ELSE after[n - 1] + signal[n].duration]
    BY Zenon, <1>6
  <2> HIDE DEF after, N
  <2> QED
    BY <2>1
<1>9. \A n \in 0 .. N : after[n] \in Int
  <2> DEFINE Right == {n \in 0 .. N : after[n] \in Int}
  <2> HIDE DEF after
  <2>1. 0 \in Right
    BY <1>1, <1>8
  <2>2. ASSUME NEW n \in 0 .. N - 1, n \in Right PROVE n + 1 \in Right
    <3>1. n + 1 \in 1 .. N /\ n + 1 \in 0 .. N /\ (n + 1) - 1 = n /\ n + 1 # 0 /\ after[n] \in Int
      BY <1>1, <2>2
    <3>2. after[n + 1] = after[n] + signal[n + 1].duration
      BY <1>8, <3>1
    <3>3. after[n] + signal[n + 1].duration \in Int
      BY <1>2, <3>1
    <3> QED
      BY <3>1, <3>2, <3>3
  <2>3. \A n \in 0 .. N : n \in Right
    <3> HIDE DEF Right
    <3> QED
      BY <1>1, <2>1, <2>2, InductionUpTo
  <2> QED
    BY <2>3
<1>10. after = [n \in 0 .. N |-> after[n]]
  <2>1. after = [n \in 0 .. N |-> IF n = 0 THEN 0 ELSE after[n - 1] + signal[n].duration]
    BY Zenon, <1>6
  <2> HIDE DEF after, N
  <2> QED
    BY <2>1
<1>11. \A n \in 1 .. N : n \in 0 .. N /\ n # 0
  BY <1>1
<1> HIDE DEF after, N
<1>12. after \in [0 .. N -> Int]
  BY <1>9, <1>10
<1>13. 0 \in 0 .. N
  BY <1>1
<1> QED
  BY <1>7, <1>8, <1>11, <1>12, <1>13 DEF N

LEMMA AfterGrows ==
    ASSUME NEW signal \in Seq(Pieces), NEW piece \in Pieces
    PROVE  /\ \A n \in 0 .. Len(signal) : After(Append(signal, piece))[n] = After(signal)[n]
           /\ After(Append(signal, piece))[Len(signal) + 1] =
                After(signal)[Len(signal)] + piece.duration
<1>1. PICK next : next = Append(signal, piece)
  OBVIOUS
<1>2. PICK f, g, N : f = After(signal) /\ g = After(next) /\ N = Len(signal)
  OBVIOUS
<1>3. /\ next \in Seq(Pieces) /\ N \in Nat /\ Len(next) = N + 1
      /\ next[N + 1] = piece /\ \A n \in 1 .. N : next[n] = signal[n]
  BY <1>1, <1>2
<1>4. f[0] = 0 /\ g[0] = 0
  BY <1>2, <1>3, AfterIs
<1>5. \A n \in 1 .. N : f[n] = f[n - 1] + signal[n].duration
  BY <1>2, AfterIs
<1>6. \A n \in 1 .. N + 1 : g[n] = g[n - 1] + next[n].duration
  BY <1>2, <1>3, AfterIs
<1> DEFINE Right == {n \in 0 .. N : g[n] = f[n]}
<1>7. 0 \in Right
  BY <1>3, <1>4
<1>8. ASSUME NEW n \in 0 .. N - 1, n \in Right PROVE n + 1 \in Right
  <2>1. n + 1 \in 1 .. N /\ n + 1 \in 0 .. N /\ n + 1 \in 1 .. N + 1 /\ (n + 1) - 1 = n
    BY <1>3, <1>8
  <2>2. f[n + 1] = f[n] + signal[n + 1].duration /\ g[n + 1] = g[n] + next[n + 1].duration
    BY <1>5, <1>6, <2>1
  <2> QED
    BY <1>3, <1>8, <2>1, <2>2
<1>9. \A n \in 0 .. N : n \in Right
  <2> HIDE DEF Right
  <2> QED
    BY <1>3, <1>7, <1>8, InductionUpTo
<1>10. \A n \in 0 .. N : g[n] = f[n]
  BY <1>9
<1>11. N + 1 \in 1 .. N + 1 /\ (N + 1) - 1 = N /\ N \in 0 .. N
  BY <1>3
<1>12. g[N + 1] = f[N] + piece.duration
  BY <1>3, <1>6, <1>10, <1>11
<1> QED
  BY <1>1, <1>2, <1>10, <1>12

(* The sums that can be made of some weights.                              *)
Sums(X) ==
    {x \in Weight : \A W \in SUBSET Weight :
        Zero \in W /\ X \subseteq W /\ (\A y, z \in W : Plus(y, z) \in W) => x \in W}

LEMMA SumsAre ==
    ASSUME WeightLaws, NEW X, X \subseteq Weight
    PROVE  /\ Sums(X) \subseteq Weight /\ Zero \in Sums(X) /\ X \subseteq Sums(X)
           /\ \A y, z \in Sums(X) : Plus(y, z) \in Sums(X)
           /\ \A Y \in SUBSET X : Sums(Y) \subseteq Sums(X)
<1>1. Zero \in Weight /\ \A y, z \in Weight : Plus(y, z) \in Weight
  BY DEF WeightLaws, SumLaws, CostsAreWeights
<1>2. Sums(X) \subseteq Weight /\ Zero \in Sums(X) /\ X \subseteq Sums(X)
  BY <1>1 DEF Sums
<1>3. ASSUME NEW y \in Sums(X), NEW z \in Sums(X) PROVE Plus(y, z) \in Sums(X)
  BY <1>1 DEF Sums
<1>4. ASSUME NEW Y \in SUBSET X PROVE Sums(Y) \subseteq Sums(X)
  BY DEF Sums
<1> QED
  BY <1>2, <1>3, <1>4

(* The point p in the piece n is where a match from b to e ends, if there  *)
(* are t ticks to the unit.                                                *)
Ends(signal, n, p, t, b, e) ==
    /\ IsMatch(p.vertex) /\ ~ p.jumpable
    /\ \E k \in Positive :
         /\ p.ticks = k * t
         /\ p.at[T] + p.ticks * After(signal)[n - 1] = k * e
         /\ p.at[T] - p.at[D] + p.ticks * After(signal)[n - 1] = k * b

(* What the runs of the signal are worth that match from b to e.           *)
Worths(signal, t, b, e) ==
    Sums({x \in Weight : \E n \in DOMAIN signal, p \in RunPoints :
                            <<n, p, x>> \in Earned(signal) /\ Ends(signal, n, p, t, b, e)})

LEMMA WorthsGrow ==
    ASSUME WeightLaws, NEW signal \in Seq(Pieces), NEW piece \in Pieces,
           NEW t, NEW b, NEW e
    PROVE  Worths(signal, t, b, e) \subseteq Worths(Append(signal, piece), t, b, e)
<1> DEFINE X(s) == {x \in Weight : \E n \in DOMAIN s, p \in RunPoints :
                       <<n, p, x>> \in Earned(s) /\ Ends(s, n, p, t, b, e)}
<1>1. PICK next : next = Append(signal, piece)
  OBVIOUS
<1>2. DOMAIN signal = 1 .. Len(signal) /\ Len(signal) \in Nat /\ DOMAIN signal \subseteq DOMAIN next
  BY <1>1
<1>3. \A n \in DOMAIN signal : After(next)[n - 1] = After(signal)[n - 1]
  <2> TAKE n \in DOMAIN signal
  <2>1. n - 1 \in 0 .. Len(signal)
    BY <1>2
  <2> QED
    BY <1>1, <2>1, AfterGrows
<1>4. ASSUME NEW x \in X(signal) PROVE x \in X(next)
  <2>1. PICK n \in DOMAIN signal, p \in RunPoints :
           <<n, p, x>> \in Earned(signal) /\ Ends(signal, n, p, t, b, e)
    OBVIOUS
  <2>2. <<n, p, x>> \in Earned(next)
    BY <1>1, <2>1, EarnedGrows
  <2>3. Ends(next, n, p, t, b, e)
    BY <1>3, <2>1 DEF Ends
  <2> QED
    BY <1>2, <2>2, <2>3
<1>5. X(signal) \in SUBSET X(next) /\ X(next) \subseteq Weight
  BY <1>4
<1>6. Worths(signal, t, b, e) = Sums(X(signal)) /\ Worths(next, t, b, e) = Sums(X(next))
  BY Zenon DEF Worths
<1> HIDE DEF X
<1> QED
  BY <1>1, <1>5, <1>6, SumsAre

LEMMA StepsOf ==
    ASSUME NEW c, NEW d, c.duration = d.duration, c.valuation = d.valuation, NEW p, NEW q
    PROVE  Steps(c, p, q) <=> Steps(d, p, q)
<1>1. BeforeEnd(c, q) <=> BeforeEnd(d, q)
  BY DEF BeforeEnd
<1> QED
  BY <1>1 DEF Steps, Delays

(* The valuations of a configuration in the last piece are worth x,        *)
Worth(signal, conf, x) ==
    \A m \in Positive, v \in Valuation :
        v[0] = 0 /\ SatAt(m, v, conf.zone) /\ v[T] <= m * signal[Len(signal)].duration
            => <<Len(signal), Point(conf, m, v), x>> \in Earned(signal)

(* and those of one at its end.                                            *)
EndWorth(signal, conf, x) ==
    \A m \in Positive, v \in Valuation :
        v[0] = 0 /\ SatAt(m, v, conf.zone)
            => /\ v[T] = m * signal[Len(signal)].duration
               /\ <<Len(signal), Point(conf, m, v), x>> \in Earned(signal)

LEMMA HoldsAtZero ==
    ASSUME NEW m \in Positive, NEW d \in Int, HoldsAt(m, d, Le(0))
    PROVE  d <= 0
<1>1. Const(Le(0)) = 0 /\ m * 0 = 0 /\ Le(0) # Infinity
  BY DBMAssumption DEF Const, Le, Positive
<1> QED
  BY <1>1 DEF HoldsAt

(* A new match begins in the piece.                                        *)
LEMMA InitialWorth ==
    ASSUME WeightLaws, NEW signal \in Seq(Pieces), signal # <<>>, NEW i \in DOMAIN TA.init
    PROVE  Worth(signal, InitialConf(TA.init[i]), One)
<1>1. PICK conf, n : conf = InitialConf(TA.init[i]) /\ n = Len(signal)
  OBVIOUS
<1>2. /\ conf.zone = initialZone /\ conf.vertex = TA.init[i] /\ conf.jumpable = FALSE
      /\ conf.valuations = <<>> /\ Valid(conf) /\ n \in DOMAIN signal
  BY <1>1, InitialEnters DEF InitialConf
<1> SUFFICES ASSUME NEW m \in Positive, NEW v \in Valuation,
                    v[0] = 0, SatAt(m, v, conf.zone), v[T] <= m * signal[n].duration
             PROVE  <<n, Point(conf, m, v), One>> \in Earned(signal)
  BY <1>1 DEF Worth
<1>3. \A x \in Var : v[x] \in Int
  BY DEF Valuation
<1>4. ASSUME NEW j \in Var, NEW k \in Var, j # T PROVE v[j] - v[k] <= 0
  <2>1. initialZone[j][k] = Le(0)
    BY <1>4, InitialZoneIs
  <2>2. HoldsAt(m, v[j] - v[k], Le(0))
    BY <1>2, <2>1 DEF SatAt
  <2>3. v[j] - v[k] \in Int
    BY <1>3
  <2> QED
    BY <2>2, <2>3, HoldsAtZero
<1>5. \A x \in Var \ {T} : v[x] = 0
  <2> TAKE x \in Var \ {T}
  <2>1. v[0] - v[x] <= 0 /\ v[x] - v[0] <= 0
    BY <1>4, DwellVar
  <2> QED
    BY <1>3, <2>1
<1>6. v[T] >= 0
  <2>1. v[0] - v[T] <= 0
    BY <1>4, DwellVar
  <2> QED
    BY <1>3, <2>1, DwellVar
<1>7. PICK q : q = Point(conf, m, v)
  OBVIOUS
<1>8. /\ q \in RunPoints /\ q.vertex = TA.init[i] /\ q.jumpable = FALSE /\ q.valuations = <<>>
      /\ q.ticks = m /\ q.at = v
  BY <1>2, <1>7, PointIs DEF Point
<1>9. Begins(signal[n], q)
  <2>1. q.vertex \in Range(TA.init)
    BY <1>8 DEF Range
  <2> QED
    BY <1>5, <1>6, <1>8, <2>1 DEF Begins, BeforeEnd
<1>10. One \in Weight
  BY DEF WeightLaws, CostsAreWeights
<1>11. Earns(signal, Earned(signal), n, q, One)
  BY <1>9 DEF Earns
<1> QED
  BY <1>2, <1>7, <1>8, <1>10, <1>11, EarnedIs DEF ClosedUnderEarning

(* What a configuration brings into a piece comes from its end of the last.*)
LEMMA EnteredBack ==
    ASSUME NEW room \in Nat, Le(0) <= room, 4 * room < Infinity,
           NEW conf, Carried(conf), conf.zone \in Settled(room), NEW piece \in Pieces,
           NEW E, E = Entered(conf, piece.valuation),
           NEW m \in Positive, NEW v \in Valuation, v[0] = 0, SatAt(m, v, E.zone),
           v[T] <= m * piece.duration
    PROVE  \E k \in Positive, u \in Valuation :
              /\ k * m \in Positive /\ Finer(k, v) \in Valuation
              /\ u[0] = 0 /\ SatAt(k * m, u, conf.zone)
              /\ IF conf.jumpable
                 THEN Delays(piece, Handed(Point(conf, k * m, u)), Point(E, k * m, Finer(k, v)))
                 ELSE Point(E, k * m, Finer(k, v)) = Handed(Point(conf, k * m, u))
<1>1. PICK Z, R : Z = conf.zone /\ R = Reset(Z, T)
  OBVIOUS
<1>2. /\ Z \in Matrix /\ Canonical(Z) /\ IsSatisfiableWithoutCanonize(Z) /\ AllWithin(Z, room)
      /\ \A i, j \in Var : Z[i][j] <= room /\ Z[i][j] \in Int
  BY <1>1, Entries DEF Settled, AllWithin, Within
<1>3. /\ T \in Var /\ 0 \in Var /\ T # 0 /\ T \in Var \ {0} /\ 2 * room < Infinity
      /\ room < Infinity /\ Z[0][T] # Infinity /\ \A x \in Var : v[x] \in Int
  <2>1. Infinity \in Int /\ T \in Var \ {0} /\ 0 \in Var /\ T # 0
    BY DwellVar, DBMAssumption
  <2>2. 2 * room < Infinity /\ room < Infinity
    BY <2>1
  <2>3. Z[0][T] <= room
    BY <1>2, <2>1
  <2> QED
    BY <1>2, <2>1, <2>2, <2>3 DEF Valuation
<1>4. /\ R \in Matrix /\ Canonical(R) /\ IsSatisfiableWithoutCanonize(R) /\ AllWithin(R, room)
  BY <1>1, ResetFresh DEF Fresh
<1>5. ASSUME NEW l \in Positive, NEW w \in Valuation, w[0] = 0, SatAt(l, w, R)
      PROVE  \E u \in Valuation : /\ u[0] = 0 /\ SatAt(2 * l, u, Z)
                                  /\ Finer(2, w) = ResetPoint(u, {T})
  BY <1>1, <1>2, <1>3, <1>5, ResetExact
<1>6. /\ conf \in Confs /\ conf.valuations \in Seq(Seq(Int)) /\ conf.jumpable \in BOOLEAN
  BY DEF Carried, Valid, Confs
<1>7. /\ 2 \in Positive /\ 4 \in Positive /\ 2 * m \in Positive /\ 4 * m \in Positive
      /\ 2 * (2 * m) = 4 * m /\ m \in Int
      /\ Finer(2, v) \in Valuation /\ Finer(4, v) \in Valuation
  BY FinerIs DEF Positive
<1>8. CASE ~ conf.jumpable
  <2>1. E = [conf EXCEPT !.zone = R]
    BY <1>1, <1>6, <1>8 DEF Entered, Confs
  <2>2. /\ E.zone = R /\ E.vertex = conf.vertex /\ E.jumpable = FALSE
        /\ E.valuations = conf.valuations
    BY <1>6, <1>8, <2>1 DEF Confs
  <2>3. PICK u \in Valuation : u[0] = 0 /\ SatAt(2 * m, u, Z) /\ Finer(2, v) = ResetPoint(u, {T})
    BY <1>5, <2>2
  <2>4. Point(E, 2 * m, Finer(2, v)) = Handed(Point(conf, 2 * m, u))
    BY <2>2, <2>3 DEF Point, Handed
  <2> QED
    BY <1>1, <1>7, <1>8, <2>3, <2>4
<1>9. CASE conf.jumpable
  <2>1. E = [conf EXCEPT !.zone = Elapse(R), !.valuations = Append(@, piece.valuation)]
    BY <1>1, <1>6, <1>9 DEF Entered, Confs
  <2>2. /\ E.zone = Elapse(R) /\ E.vertex = conf.vertex /\ E.jumpable = TRUE
        /\ E.valuations = Append(conf.valuations, piece.valuation)
    BY <1>6, <1>9, <2>1 DEF Confs
  <2>3. SatAt(m, v, Elapse(R))
    BY <2>2
  <2>4. PICK d \in Positive : Earlier(v, d) \in Valuation /\ SatAt(2 * m, Earlier(v, d), R)
    BY <1>3, <1>4, <2>3, ElapseExact
  <2>5. PICK w : w = Earlier(v, d)
    OBVIOUS
  <2>6. w \in Valuation /\ w[0] = 0 /\ \A x \in Var : w[x] = IF x = 0 THEN 0 ELSE 2 * v[x] - d
    BY <1>3, <2>4, <2>5 DEF Earlier
  <2>7. PICK u \in Valuation : /\ u[0] = 0 /\ SatAt(2 * (2 * m), u, Z)
                               /\ Finer(2, w) = ResetPoint(u, {T})
    BY <1>5, <1>7, <2>4, <2>5, <2>6
  <2>8. PICK p, r : p = Handed(Point(conf, 4 * m, u)) /\ r = Point(E, 4 * m, Finer(4, v))
    OBVIOUS
  <2>9. /\ p.vertex = conf.vertex /\ p.jumpable = FALSE /\ p.valuations = conf.valuations
        /\ p.ticks = 4 * m /\ p.at = ResetPoint(u, {T})
    BY <2>8 DEF Handed, Point
  <2>10. 2 * d \in Positive /\ d \in Int
    BY DEF Positive
  <2>11. Finer(4, v) = [x \in Var |-> IF x = 0 THEN 0 ELSE p.at[x] + 2 * d]
    <3>1. \A x \in Var : p.at[x] = 2 * w[x]
      BY <2>6, <2>7, <2>9, FinerIs DEF Finer
    <3>2. \A x \in Var : 4 * v[x] = IF x = 0 THEN 0 ELSE p.at[x] + 2 * d
      BY <1>3, <2>6, <2>10, <3>1
    <3> QED
      BY <3>2 DEF Finer
  <2>12. r = [vertex |-> p.vertex, jumpable |-> TRUE,
              valuations |-> Append(p.valuations, piece.valuation), ticks |-> p.ticks,
              at |-> [x \in Var |-> IF x = 0 THEN 0 ELSE p.at[x] + 2 * d]]
    BY <2>2, <2>8, <2>9, <2>11 DEF Point
  <2>13. BeforeEnd(piece, r)
    <3>1. r.at = Finer(4, v) /\ r.ticks = 4 * m
      BY <2>8 DEF Point
    <3>2. r.at[T] = 4 * v[T] /\ v[T] \in Int
      BY <1>3, <3>1 DEF Finer
    <3>3. piece.duration \in Nat
      BY QTPMAssumption
    <3>4. (4 * m) * piece.duration = 4 * (m * piece.duration) /\ m * piece.duration \in Int
      BY <1>7, <3>3
    <3> QED
      BY <3>1, <3>2, <3>4 DEF BeforeEnd
  <2>14. Delays(piece, p, r)
    BY <2>9, <2>10, <2>12, <2>13 DEF Delays
  <2> QED
    BY <1>1, <1>7, <1>9, <2>7, <2>8, <2>14
<1> QED
  BY <1>8, <1>9

(* So what it is worth there, it is worth here.                            *)
LEMMA EnteredWorth ==
    ASSUME NEW room \in Nat, Le(0) <= room, 4 * room < Infinity,
           NEW signal \in Seq(Pieces), signal # <<>>, NEW piece \in Pieces,
           NEW conf, Carried(conf), conf.zone \in Settled(room), NEW x \in Weight,
           EndWorth(signal, conf, x)
    PROVE  Worth(Append(signal, piece), Entered(conf, piece.valuation), x)
<1>1. PICK next, n, E : /\ next = Append(signal, piece) /\ n = Len(signal)
                        /\ E = Entered(conf, piece.valuation)
  OBVIOUS
<1>2. /\ next \in Seq(Pieces) /\ n \in Nat /\ n >= 1 /\ Len(next) = n + 1 /\ next[n] = signal[n]
      /\ next[n + 1] = piece /\ n + 1 \in DOMAIN next /\ n + 1 > 1 /\ (n + 1) - 1 = n
  BY <1>1
<1>3. Valid(E) /\ ~ IsMatch(conf.vertex) /\ Valid(conf)
  <2>1. piece.valuation \in Values
    BY DEF Values
  <2> QED
    BY <1>1, <2>1, ConfEnters DEF Carried
<1> SUFFICES ASSUME NEW m \in Positive, NEW v \in Valuation,
                    v[0] = 0, SatAt(m, v, E.zone), v[T] <= m * piece.duration
             PROVE  <<n + 1, Point(E, m, v), x>> \in Earned(next)
  BY <1>1, <1>2 DEF Worth
<1>4. PICK k \in Positive, u \in Valuation :
         /\ k * m \in Positive /\ Finer(k, v) \in Valuation
         /\ u[0] = 0 /\ SatAt(k * m, u, conf.zone)
         /\ IF conf.jumpable
            THEN Delays(piece, Handed(Point(conf, k * m, u)), Point(E, k * m, Finer(k, v)))
            ELSE Point(E, k * m, Finer(k, v)) = Handed(Point(conf, k * m, u))
  BY <1>1, EnteredBack
<1>5. PICK p, r, q : /\ p = Point(conf, k * m, u) /\ r = Point(E, k * m, Finer(k, v))
                     /\ q = Point(E, m, v)
  OBVIOUS
<1>6. p \in RunPoints /\ r \in RunPoints /\ q \in RunPoints /\ InTicks(k, q) = r
  BY <1>3, <1>4, <1>5, PointIs
<1>7. <<n, p, x>> \in Earned(signal) /\ u[T] = (k * m) * signal[n].duration
  BY <1>1, <1>4, <1>5 DEF EndWorth
<1>8. <<n, p, x>> \in Earned(next)
  BY <1>1, <1>7, EarnedGrows
<1>9. GoesOn(next[n], next[n + 1], p, r)
  <2>1. /\ p.at = u /\ p.ticks = k * m /\ p.vertex = conf.vertex /\ p.jumpable = conf.jumpable
    BY <1>5 DEF Point
  <2> QED
    BY <1>2, <1>3, <1>4, <1>5, <1>7, <2>1 DEF GoesOn
<1>10. Earns(next, Earned(next), n + 1, r, x)
  BY <1>2, <1>6, <1>8, <1>9 DEF Earns
<1>11. <<n + 1, r, x>> \in Earned(next)
  BY <1>2, <1>6, <1>10, EarnedIs DEF ClosedUnderEarning
<1>12. Earns(next, Earned(next), n + 1, q, x)
  BY <1>6, <1>11 DEF Earns
<1> QED
  BY <1>2, <1>5, <1>6, <1>12, EarnedIs DEF ClosedUnderEarning

(* The vertices that were given keep their node and their weight.          *)
LEMMA GivenRemain ==
    ASSUME ZoneInv, NEW conf, RemoveState(conf), call' = call, NEW v \in DOMAIN initStatesZG'
    PROVE  v \in DOMAIN initStatesZG /\ nodes'[v] = nodes[v] /\ initStatesZG'[v] = initStatesZG[v]
<1>1. DOMAIN initStatesZG \subseteq DOMAIN nodes
  BY DEF ZoneInv, GraphInv, Live
<1>2. CASE Key(conf) \in DOMAIN toZGState
  <2>1. PICK u : u = toZGState[Key(conf)]
    OBVIOUS
  <2>2. /\ initStatesZG' = Restrict(initStatesZG, DOMAIN initStatesZG \ {u})
        /\ nodes' = Restrict(nodes, DOMAIN nodes \ {u})
    BY <1>2, <2>1 DEF RemoveState
  <2> QED
    BY <1>1, <2>2 DEF Restrict
<1>3. CASE Key(conf) \notin DOMAIN toZGState
  BY <1>3 DEF RemoveState, graphVars
<1> QED
  BY <1>2, <1>3

LEMMA GivenStay ==
    ASSUME ZoneInv, [Next]_vars, NEW v \in DOMAIN initStatesZG'
    PROVE  \/ /\ v \in DOMAIN initStatesZG /\ nodes'[v] = nodes[v]
              /\ initStatesZG'[v] = initStatesZG[v]
           \/ \E i \in DOMAIN call.confs :
                /\ nodes'[v] = [call.confs[i].conf EXCEPT !.zone = Dwell(call, @)]
                /\ initStatesZG'[v] = call.confs[i].weight
<1> DEFINE Kept == /\ v \in DOMAIN initStatesZG /\ nodes'[v] = nodes[v]
                   /\ initStatesZG'[v] = initStatesZG[v]
<1>0. /\ call' = call /\ GraphInv /\ WellFormed(call) /\ nextConf \in Seq(1 .. born)
      /\ DOMAIN initStatesZG \subseteq Live
  BY CallStays DEF ZoneInv, GraphInv, QueueInv
<1>1. CASE AddInit
  <2> DEFINE i == Len(nextConf) + 1
             given == call.confs[i]
             conf == [given.conf EXCEPT !.zone = BoundDwell(@)]
  <2>1. /\ Len(nextConf) < Len(call.confs)
        /\ \E u \in Addresses : /\ AddVertex(u, conf)
                                /\ initStatesZG' = Put(initStatesZG, u, given.weight)
    BY <1>1 DEF AddInit
  <2>2. PICK u \in Addresses :
           AddVertex(u, conf) /\ initStatesZG' = Put(initStatesZG, u, given.weight)
    BY <2>1
  <2>3. i \in DOMAIN call.confs
    BY <1>0, <2>1, CallFacts
  <2>4. conf = [call.confs[i].conf EXCEPT !.zone = Dwell(call, @)]
    BY DEF BoundDwell, Dwell
  <2>5. u \notin Live
    BY <1>0, AddressIsFresh
  <2>6. nodes' = Put(nodes, u, conf)
    BY <2>2 DEF AddVertex
  <2> HIDE DEF conf
  <2>7. CASE v = u
    <3>1. nodes'[v] = conf
      BY <2>6, <2>7 DEF Put
    <3>2. initStatesZG'[v] = call.confs[i].weight
      BY <2>2, <2>7 DEF Put
    <3> QED
      BY <2>3, <2>4, <3>1, <3>2
  <2>8. CASE v # u
    <3>1. v \in DOMAIN initStatesZG /\ initStatesZG'[v] = initStatesZG[v]
      BY <2>2, <2>8 DEF Put
    <3>2. nodes'[v] = nodes[v]
      BY <1>0, <2>6, <2>8, <3>1 DEF Put, Live
    <3> QED
      BY <3>1, <3>2
  <2> QED
    BY <2>7, <2>8
<1>2. CASE ProcessJumpable
  <2>1. RemoveState(nodes[current]) \/ UNCHANGED <<initStatesZG, removedVertices, graphVars>>
    BY <1>2 DEF ProcessJumpable
  <2>2. CASE RemoveState(nodes[current])
    BY <1>0, <2>2, GivenRemain
  <2>3. CASE UNCHANGED <<initStatesZG, removedVertices, graphVars>>
    BY <2>3 DEF graphVars
  <2> QED
    BY <2>1, <2>2, <2>3
<1>3. ASSUME NEW u \in Live, NEW conf, Valid(conf), NEW w, AddEdge(u, conf, w),
             initStatesZG' = initStatesZG
      PROVE  Kept
  <2>1. \A x \in Live : nodes'[x] = nodes[x]
    BY <1>0, <1>3, AddEdgeKeeps
  <2> QED
    BY <1>0, <1>3, <2>1
<1>4. CASE ProcessContinuous
  <2> DEFINE conf == nodes[current]
             now == BoundDwell(Elapse(BoundDwell(conf.zone)))
             waited == [conf EXCEPT !.jumpable = TRUE, !.zone = now,
                                    !.valuations = Append(@, call.valuation)]
             Adds == AddEdge(current, waited, One) /\ UNCHANGED <<initStatesZG, removedVertices>>
  <2>1. /\ Advance /\ current \notin removedVertices
        /\ \/ Adds \/ RemoveState(conf)
           \/ UNCHANGED <<initStatesZG, removedVertices, from, pending, graphVars>>
    BY <1>4 DEF ProcessContinuous
  <2>2. current \in Live /\ Valid(conf)
    BY <2>1, AdvanceFacts
  <2>3. waited = Delay(conf)
    BY DEF Delay
  <2> HIDE DEF conf, now, waited
  <2>4. CASE Adds
    <3>1. Valid(waited)
      BY <1>0, <2>2, <2>3, DelayFacts
    <3>2. AddEdge(current, waited, One) /\ initStatesZG' = initStatesZG
      BY <2>4
    <3> QED
      BY <1>3, <2>2, <3>1, <3>2
  <2>5. CASE RemoveState(conf)
    BY <1>0, <2>5, GivenRemain
  <2>6. CASE UNCHANGED <<initStatesZG, removedVertices, from, pending, graphVars>>
    BY <2>6 DEF graphVars
  <2> QED
    BY <2>1, <2>4, <2>5, <2>6
<1>5. CASE AddSuccessor
  <2> DEFINE next == Head(pending)
             conf == [vertex |-> next.vertex, jumpable |-> FALSE,
                      zone |-> next.zone, valuations |-> <<>>]
             w == Cost(TA.label[nodes[from].vertex], nodes[from].valuations)
  <2>1. pending # <<>> /\ AddEdge(from, conf, w) /\ initStatesZG' = initStatesZG
    BY <1>5 DEF AddSuccessor
  <2>2. pending \in Seq(Successors) /\ from \in Live
    BY <2>1 DEF ZoneInv, QueueInv
  <2>3. next \in Successors
    BY <2>1, <2>2
  <2> HIDE DEF next, w
  <2>4. Valid(conf)
    <3>1. <<>> \in Seq(Seq(Int))
      OBVIOUS
    <3> QED
      BY <2>3, <3>1 DEF Successors, Valid, Confs
  <2> HIDE DEF conf
  <2> QED
    BY <1>3, <2>1, <2>2, <2>4
<1>6. CASE StartRound \/ Skip \/ EndRound \/ Return \/ Done \/ UNCHANGED vars
  <2>1. nodes' = nodes /\ initStatesZG' = initStatesZG
    <3>1. CASE StartRound
      BY <3>1 DEF StartRound
    <3>2. CASE Skip
      BY <3>2 DEF Skip, graphVars
    <3>3. CASE EndRound
      BY <3>3 DEF EndRound
    <3>4. CASE Return
      BY <3>4 DEF Return, graphVars
    <3>5. CASE Done \/ UNCHANGED vars
      BY <3>5 DEF Done, vars, graphVars
    <3> QED
      BY <1>6, <3>1, <3>2, <3>3, <3>4, <3>5
  <2> QED
    BY <2>1
<1> QED
  BY <1>1, <1>2, <1>4, <1>5, <1>6 DEF Next

(* The signal ends with the piece of the call, and the call was made with  *)
(* what the configurations are worth; so the given vertices are too.       *)
AtPiece(signal) ==
    /\ signal \in Seq(Pieces) /\ signal # <<>>
    /\ call.valuation = signal[Len(signal)].valuation
    /\ call.duration = signal[Len(signal)].duration
    /\ \A i \in DOMAIN call.confs : Worth(signal, call.confs[i].conf, call.confs[i].weight)

GivenWorth(signal) ==
    \A v \in DOMAIN initStatesZG : Worth(signal, nodes[v], initStatesZG[v])

LEMMA GivenWorthNext ==
    ASSUME ZoneInv, [Next]_vars, NEW signal, AtPiece(signal), GivenWorth(signal)
    PROVE  AtPiece(signal)' /\ GivenWorth(signal)'
<1>1. call' = call /\ WellFormed(call)
  BY CallStays DEF ZoneInv, GraphInv
<1>2. AtPiece(signal)'
  BY <1>1 DEF AtPiece
<1>3. ASSUME NEW v \in DOMAIN initStatesZG' PROVE Worth(signal, nodes'[v], initStatesZG'[v])
  <2>1. CASE /\ v \in DOMAIN initStatesZG /\ nodes'[v] = nodes[v]
             /\ initStatesZG'[v] = initStatesZG[v]
    BY <2>1 DEF GivenWorth
  <2>2. ASSUME NEW i \in DOMAIN call.confs,
               nodes'[v] = [call.confs[i].conf EXCEPT !.zone = Dwell(call, @)],
               initStatesZG'[v] = call.confs[i].weight
        PROVE  Worth(signal, nodes'[v], initStatesZG'[v])
    <3>1. PICK given, conf, x : /\ given = call.confs[i].conf /\ conf = nodes'[v]
                                /\ x = call.confs[i].weight
      OBVIOUS
    <3>2. Valid(given) /\ given.zone \in Matrix
      BY <1>1, <3>1, CallFacts DEF Valid, Confs
    <3>3. /\ conf.vertex = given.vertex /\ conf.jumpable = given.jumpable
          /\ conf.valuations = given.valuations /\ conf.zone = Dwell(call, given.zone)
      BY <2>2, <3>1, <3>2 DEF Valid, Confs
    <3>4. Worth(signal, given, x)
      BY <3>1 DEF AtPiece
    <3>5. ASSUME NEW m \in Positive, NEW u \in Valuation, u[0] = 0, SatAt(m, u, conf.zone)
          PROVE  <<Len(signal), Point(conf, m, u), x>> \in Earned(signal)
      <4>1. SatAt(m, u, given.zone) /\ u[T] <= m * call.duration
        BY <1>1, <3>2, <3>3, <3>5, DwellAt
      <4>2. Point(conf, m, u) = Point(given, m, u)
        BY <3>3 DEF Point
      <4> QED
        BY <3>4, <3>5, <4>1, <4>2 DEF Worth, AtPiece
    <3> QED
      BY <2>2, <3>1, <3>5 DEF Worth
  <2> QED
    BY <2>1, <2>2, GivenStay
<1> QED
  BY <1>2, <1>3 DEF GivenWorth

-----------------------------------------------------------------------------
(* The distances are worth what the runs earn                              *)

(* One edge more: what its source is worth, times the cost of the step, is *)
(* what each point of its target is worth.                                 *)
LEMMA EdgeWorth ==
    ASSUME WeightLaws, ZoneInv, PieceInv, NEW room, CallFits(call, room), StepInv(room),
           NEW signal, AtPiece(signal), NEW e \in edges, NEW y \in Weight,
           Worth(signal, nodes[e.src], y), NEW b, b = nodes[e.dst],
           NEW m \in Positive, NEW v \in Valuation, v[0] = 0, SatAt(m, v, b.zone)
    PROVE  <<Len(signal), Point(b, m, v), Times(y, e.w)>> \in Earned(signal)
<1>1. PICK a, w, N, x : a = nodes[e.src] /\ w = e.w /\ N = Len(signal) /\ x = Times(y, e.w)
  OBVIOUS
<1>2. /\ {e.src, e.dst} \subseteq Live /\ Moves(call, a, b, w) /\ w \in Weight
      /\ InPiece(call, a.zone, room)
  BY <1>1 DEF ZoneInv, GraphInv, StepInv, PieceInv
<1>3. Valid(a) /\ Valid(b) /\ WellFormed(call)
  BY <1>1, <1>2 DEF ZoneInv, GraphInv, JumpableIffValuations, Valid
<1>4. /\ signal \in Seq(Pieces) /\ N \in DOMAIN signal
      /\ call.valuation = signal[N].valuation /\ call.duration = signal[N].duration
  BY <1>1 DEF AtPiece
<1>5. PICK n \in Positive, k \in Positive, u \in Valuation :
         /\ u[0] = 0 /\ SatAt(k, u, a.zone) /\ u[T] <= k * call.duration
         /\ Point(b, n * m, Finer(n, v)) \in RunPoints
         /\ Steps(call, Point(a, k, u), Point(b, n * m, Finer(n, v)))
         /\ w = StepCost(Point(a, k, u))
  BY <1>2, <1>3, MovesBack
<1>6. PICK p, r, q : /\ p = Point(a, k, u) /\ r = Point(b, n * m, Finer(n, v))
                     /\ q = Point(b, m, v)
  OBVIOUS
<1>7. p \in RunPoints /\ r \in RunPoints /\ q \in RunPoints /\ InTicks(n, q) = r
  BY <1>3, <1>5, <1>6, PointIs
<1>8. <<N, p, y>> \in Earned(signal)
  BY <1>1, <1>4, <1>5, <1>6 DEF Worth
<1>9. Steps(signal[N], p, r)
  BY <1>4, <1>5, <1>6, StepsOf
<1>10. x \in Weight /\ x = Times(y, w) /\ w \in Weight /\ w = StepCost(p)
  BY <1>1, <1>2, <1>5, <1>6 DEF WeightLaws, ProductsAreWeights
<1>11. Earns(signal, Earned(signal), N, r, x)
  BY <1>7, <1>8, <1>9, <1>10 DEF Earns
<1>12. <<N, r, x>> \in Earned(signal)
  BY <1>4, <1>7, <1>10, <1>11, EarnedIs DEF ClosedUnderEarning
<1>13. Earns(signal, Earned(signal), N, q, x)
  BY <1>7, <1>12 DEF Earns
<1>14. <<N, q, x>> \in Earned(signal)
  BY <1>4, <1>7, <1>10, <1>13, EarnedIs DEF ClosedUnderEarning
<1> QED
  BY <1>1, <1>6, <1>14

(* A round of bellman_ford earns no more than the runs do,                 *)
LEMMA ImprovedWorth ==
    ASSUME WeightLaws, ZoneInv, PieceInv, NEW room, CallFits(call, room), StepInv(room),
           NEW signal, AtPiece(signal), GivenWorth(signal),
           NEW f \in [Live -> Weight], \A v \in Live : Worth(signal, nodes[v], f[v]),
           NEW t \in Live
    PROVE  Worth(signal, nodes[t], Improved(f)[t])
<1> DEFINE into == {d \in edges : d.dst = t}
           image == {Times(f[e.src], e.w) : e \in into}
           product == [e \in into |-> Times(f[e.src], e.w)]
           base == IF t \in DOMAIN initStatesZG THEN initStatesZG[t] ELSE Zero
<1>1. Improved(f)[t] = Added(base, image)
  BY DEF Improved
<1>2. PICK N, b : N = Len(signal) /\ b = nodes[t]
  OBVIOUS
<1>3. signal \in Seq(Pieces) /\ N \in DOMAIN signal
  BY <1>2 DEF AtPiece
<1>4. Valid(b)
  BY <1>2 DEF ZoneInv, GraphInv, JumpableIffValuations, Valid
<1> SUFFICES ASSUME NEW m \in Positive, NEW v \in Valuation,
                    v[0] = 0, SatAt(m, v, b.zone), v[T] <= m * signal[N].duration
             PROVE  <<N, Point(b, m, v), Added(base, image)>> \in Earned(signal)
  BY <1>1, <1>2 DEF Worth
<1>5. PICK q : q = Point(b, m, v)
  OBVIOUS
<1>6. q \in RunPoints
  BY <1>4, <1>5, PointIs
<1> DEFINE S == {x \in Weight : <<N, q, x>> \in Earned(signal)}
<1>7. ASSUME NEW y \in S, NEW z \in S PROVE Plus(y, z) \in S
  <2>1. Plus(y, z) \in Weight
    BY DEF WeightLaws, SumLaws
  <2>2. Earns(signal, Earned(signal), N, q, Plus(y, z))
    BY DEF Earns
  <2> QED
    BY <1>3, <1>6, <2>1, <2>2, EarnedIs DEF ClosedUnderEarning
<1>8. base \in S
  <2>1. CASE t \in DOMAIN initStatesZG
    <3>1. initStatesZG[t] \in Weight /\ Worth(signal, b, initStatesZG[t])
      BY <1>2, <2>1 DEF PieceInv, GivenWorth
    <3>2. <<N, q, initStatesZG[t]>> \in Earned(signal)
      BY <1>2, <1>5, <3>1 DEF Worth
    <3> QED
      BY <2>1, <3>1, <3>2
  <2>2. CASE t \notin DOMAIN initStatesZG
    <3>1. Zero \in Weight
      BY DEF WeightLaws, CostsAreWeights
    <3>2. Earns(signal, Earned(signal), N, q, Zero)
      BY DEF Earns
    <3>3. <<N, q, Zero>> \in Earned(signal)
      BY <1>3, <1>6, <3>1, <3>2, EarnedIs DEF ClosedUnderEarning
    <3> QED
      BY <2>2, <3>1, <3>3
  <2> QED
    BY <2>1, <2>2
<1>9. image \subseteq S
  <2> SUFFICES ASSUME NEW e \in into PROVE Times(f[e.src], e.w) \in S
    OBVIOUS
  <2>1. e \in edges /\ e.dst = t /\ e.src \in Live /\ e.w \in Weight
    BY DEF ZoneInv, GraphInv, PieceInv
  <2>2. PICK y : y = f[e.src]
    OBVIOUS
  <2>3. y \in Weight /\ Worth(signal, nodes[e.src], y)
    BY <2>1, <2>2
  <2>4. Times(y, e.w) \in Weight
    BY <2>1, <2>3 DEF WeightLaws, ProductsAreWeights
  <2>5. <<N, q, Times(y, e.w)>> \in Earned(signal)
    BY <1>2, <1>5, <2>1, <2>3, EdgeWorth
  <2> QED
    BY <2>2, <2>4, <2>5
<1>10. IsFiniteSet(image)
  <2>1. IsFiniteSet(into)
    BY FS_Subset DEF PieceInv
  <2>2. product \in Surjection(into, image)
    BY DEF Surjection
  <2> HIDE DEF into, image, product
  <2> QED
    BY <2>1, <2>2, FS_Surjection
<1>11. S \subseteq Weight /\ SumLaws(Weight)
  BY DEF WeightLaws
<1> HIDE DEF image, base
<1>12. Added(base, image) \in S
  <2> HIDE DEF S
  <2> QED
    BY <1>7, <1>8, <1>9, <1>10, <1>11, SumStays
<1> QED
  BY <1>5, <1>12

(* so what it returns is worth what it says.                               *)
LEMMA DistancesWorth ==
    ASSUME WeightLaws, ZoneInv, PieceInv, NEW room, CallFits(call, room), StepInv(room),
           NEW signal, AtPiece(signal), GivenWorth(signal), NEW v \in Live
    PROVE  Worth(signal, nodes[v], Distances[v])
<1> DEFINE F == {f \in [Live -> Weight] : \A u \in Live : Worth(signal, nodes[u], f[u])}
<1>1. [u \in Live |-> Zero] \in F
  <2>1. Zero \in Weight /\ signal \in Seq(Pieces) /\ Len(signal) \in DOMAIN signal
    BY DEF WeightLaws, CostsAreWeights, AtPiece
  <2>2. ASSUME NEW u \in Live PROVE Worth(signal, nodes[u], Zero)
    <3>1. PICK b : b = nodes[u]
      OBVIOUS
    <3>2. Valid(b)
      BY <3>1 DEF ZoneInv, GraphInv, JumpableIffValuations, Valid
    <3>3. ASSUME NEW m \in Positive, NEW w \in Valuation
          PROVE  <<Len(signal), Point(b, m, w), Zero>> \in Earned(signal)
      <4>1. Point(b, m, w) \in RunPoints
        BY <3>2, PointIs
      <4>2. Earns(signal, Earned(signal), Len(signal), Point(b, m, w), Zero)
        BY DEF Earns
      <4> QED
        BY <2>1, <4>1, <4>2, EarnedIs DEF ClosedUnderEarning
    <3> QED
      BY <3>1, <3>3 DEF Worth
  <2> QED
    BY <2>1, <2>2
<1>2. ASSUME NEW f \in F PROVE Improved(f) \in F
  <2>1. Improved(f) \in [Live -> Weight]
    BY ImprovedIs
  <2>2. \A u \in Live : Worth(signal, nodes[u], Improved(f)[u])
    BY ImprovedWorth
  <2> QED
    BY <2>1, <2>2
<1>3. Distances \in F
  <2> HIDE DEF F
  <2> QED
    BY <1>1, <1>2, DistancesStay
<1> QED
  BY <1>3

-----------------------------------------------------------------------------
(* What is collected at the end of the piece is worth as much              *)

LEMMA HoldsAtLe ==
    ASSUME NEW m \in Positive, NEW d \in Int, NEW c \in Int, Le(c) < Infinity
    PROVE  HoldsAt(m, d, Le(c)) <=> d <= m * c
<1>1. Const(Le(c)) = c /\ Le(c) # Infinity /\ m * c \in Int
  BY DBMAssumption DEF Const, Le, Positive
<1> QED
  BY <1>1 DEF HoldsAt

(* At the end of the piece the dwell time is its duration.                 *)
LEMMA AtEndAt ==
    ASSUME WellFormed(call), NEW Z \in Matrix,
           NEW m \in Positive, NEW v \in Valuation, v[0] = 0, SatAt(m, v, AtEnd(Z))
    PROVE  SatAt(m, v, Z) /\ v[T] = m * call.duration
<1>1. PICK d, F, E : /\ d = call.duration /\ F = TightenWithoutClose(Z, 0, T, Le(-d))
                     /\ E = TightenWithoutClose(F, T, 0, Le(d))
  OBVIOUS
<1>2. /\ d \in Nat /\ Le(d) \in Bound /\ Le(-d) \in Bound /\ Le(d) < Infinity
      /\ Le(-d) < Infinity /\ T \in Var /\ 0 \in Var /\ T # 0
  <2>1. d \in Nat /\ Le(d) < Infinity
    BY <1>1 DEF WellFormed
  <2> QED
    BY <2>1, DwellVar, DBMAssumption DEF Bound, Le
<1>3. /\ F \in Matrix
      /\ \A i, j \in Var : F[i][j] = IF i = 0 /\ j = T THEN Lower(Z[0][T], Le(-d)) ELSE Z[i][j]
  <2>1. Le(-d) \in Bound /\ Z \in Matrix /\ T \in Var /\ 0 \in Var
    BY <1>2
  <2>2. /\ TightenWithoutClose(Z, 0, T, Le(-d)) \in Matrix
        /\ \A i, j \in Var : TightenWithoutClose(Z, 0, T, Le(-d))[i][j] =
                                IF i = 0 /\ j = T THEN Lower(Z[0][T], Le(-d)) ELSE Z[i][j]
    BY ONLY <2>1, TightenWithoutCloseIs
  <2> QED
    BY <1>1, <2>2
<1>4. /\ E \in Matrix
      /\ \A i, j \in Var : E[i][j] = IF i = T /\ j = 0 THEN Lower(F[T][0], Le(d)) ELSE F[i][j]
  <2>1. Le(d) \in Bound /\ F \in Matrix /\ T \in Var /\ 0 \in Var
    BY <1>2, <1>3
  <2>2. /\ TightenWithoutClose(F, T, 0, Le(d)) \in Matrix
        /\ \A i, j \in Var : TightenWithoutClose(F, T, 0, Le(d))[i][j] =
                                IF i = T /\ j = 0 THEN Lower(F[T][0], Le(d)) ELSE F[i][j]
    BY ONLY <2>1, TightenWithoutCloseIs
  <2> QED
    BY <1>1, <2>2
<1>5. \A i, j \in Var : Z[i][j] \in Int /\ F[i][j] \in Int /\ E[i][j] \in Int
  BY <1>3, <1>4, Entries
<1>6. /\ \A i, j \in Var : E[i][j] <= Z[i][j]
      /\ E[0][T] <= Le(-d) /\ E[T][0] <= Le(d)
  BY <1>2, <1>3, <1>4, <1>5 DEF Lower, Bound
<1>7. PICK Q : Q = AtEnd(Z)
  OBVIOUS
<1>8. Q = Canonize(E)
  BY <1>1, <1>7 DEF AtEnd
<1>9. /\ Q \in Matrix /\ \A i, j \in Var : Q[i][j] <= E[i][j]
      /\ \A i, j \in Var : Q[i][j] \in Int /\ Q[i][j] \in Bound
  BY <1>4, <1>8, CanonizeShortens, Entries
<1>10. \A i, j \in Var : Q[i][j] <= Z[i][j]
  BY <1>5, <1>6, <1>9
<1>11. SatAt(m, v, Z)
  BY <1>7, <1>9, <1>10, SatAtMonotone
<1>12. PICK t, a, b : t = v[T] /\ a = Q[0][T] /\ b = Q[T][0]
  OBVIOUS
<1>13. /\ t \in Int /\ HoldsAt(m, -t, a) /\ HoldsAt(m, t, b) /\ a \in Bound /\ b \in Bound
       /\ a <= Le(-d) /\ b <= Le(d)
  <2>1. /\ HoldsAt(m, v[0] - v[T], Q[0][T]) /\ HoldsAt(m, v[T] - v[0], Q[T][0])
    BY <1>2, <1>7 DEF SatAt
  <2>2. v[T] \in Int /\ v[0] - v[T] = -v[T] /\ v[T] - v[0] = v[T]
    BY <1>2 DEF Valuation
  <2>3. Q[0][T] <= Le(-d) /\ Q[T][0] <= Le(d)
    <3>1. Q[0][T] <= E[0][T] /\ Q[T][0] <= E[T][0]
      BY <1>2, <1>9
    <3> QED
      BY <1>2, <1>5, <1>6, <1>9, <3>1 DEF Bound
  <2> QED
    BY <1>2, <1>9, <1>12, <2>1, <2>2, <2>3
<1>14. HoldsAt(m, -t, Le(-d)) /\ HoldsAt(m, t, Le(d))
  BY <1>2, <1>13, HoldsAtMonotone
<1>15. -t <= m * (-d) /\ t <= m * d
  BY <1>2, <1>13, <1>14, HoldsAtLe
<1>16. m * (-d) = -(m * d) /\ m * d \in Int
  BY <1>2 DEF Positive
<1> QED
  BY <1>1, <1>11, <1>12, <1>13, <1>15, <1>16

(* The configuration that is made of a group and a zone,                   *)
Rested(g, Z) ==
    [vertex |-> g.vertex, jumpable |-> g.jumpable, zone |-> Z, valuations |-> g.valuations]

(* and the zones with which it is worth the weight of the group.           *)
Ended(signal, g, room) ==
    {Z \in Settled(room) : EndWorth(signal, Rested(g, Z), g.weight)}

LEMMA AtEndWorth ==
    ASSUME NEW room, CallFits(call, room), NEW signal, AtPiece(signal),
           NEW conf, InPiece(call, conf.zone, room), NEW g,
           g.vertex = conf.vertex, g.jumpable = conf.jumpable,
           g.valuations = conf.valuations, Worth(signal, conf, g.weight),
           IsSatisfiableWithoutCanonize(AtEnd(conf.zone))
    PROVE  AtEnd(conf.zone) \in Ended(signal, g, room)
<1>1. PICK Z, Q, C : Z = conf.zone /\ Q = AtEnd(Z) /\ C = Rested(g, Q)
  OBVIOUS
<1>2. Q \in Settled(room) /\ Z \in Matrix /\ WellFormed(call)
  BY <1>1, AtEndSettles DEF InPiece, CallFits
<1>3. call.duration = signal[Len(signal)].duration
  BY DEF AtPiece
<1>4. ASSUME NEW m \in Positive, NEW v \in Valuation, v[0] = 0, SatAt(m, v, C.zone)
      PROVE  /\ v[T] = m * signal[Len(signal)].duration
             /\ <<Len(signal), Point(C, m, v), g.weight>> \in Earned(signal)
  <2>1. C.zone = Q
    BY <1>1 DEF Rested
  <2>2. SatAt(m, v, Z) /\ v[T] = m * call.duration
    BY <1>1, <1>2, <1>4, <2>1, AtEndAt
  <2>3. Point(C, m, v) = Point(conf, m, v)
    BY <1>1 DEF Rested, Point
  <2>4. call.duration \in Nat /\ m \in Nat
    BY <1>2 DEF WellFormed, Positive
  <2>5. v[T] <= m * signal[Len(signal)].duration
    BY <1>3, <2>2, <2>4
  <2>6. <<Len(signal), Point(conf, m, v), g.weight>> \in Earned(signal)
    BY <1>1, <1>4, <2>2, <2>5 DEF Worth
  <2> QED
    BY <1>3, <2>2, <2>3, <2>6
<1>5. EndWorth(signal, C, g.weight)
  BY <1>4 DEF EndWorth
<1> QED
  BY <1>1, <1>2, <1>5 DEF Ended

(* Merging adds no valuation, so nothing that is not worth it.             *)
LEMMA EndedMerging ==
    ASSUME NEW room \in Nat, room < Infinity, NEW signal, NEW g
    PROVE  Merging(Ended(signal, g, room))
<1> SUFFICES ASSUME NEW F \in Ended(signal, g, room), NEW E \in Ended(signal, g, room),
                    Mergeable(F, E)
             PROVE  Merge(F, E) \in Ended(signal, g, room)
  BY DEF Merging, Ended, Settled
<1>1. /\ F \in Settled(room) /\ E \in Settled(room) /\ F \in Matrix /\ E \in Matrix
      /\ IsSatisfiableWithoutCanonize(F)
      /\ \A i, j \in Var : F[i][j] <= room
      /\ EndWorth(signal, Rested(g, F), g.weight) /\ EndWorth(signal, Rested(g, E), g.weight)
  BY DEF Ended, Settled
<1>2. Merge(F, E) \in Settled(room)
  BY <1>1, MergeSettles
<1>3. \A i, j \in Var : Complement(F[i][j]) < Infinity
  <2> TAKE i \in Var, j \in Var
  <2>1. Complement(F[i][j]) \in Bound /\ Complement(F[i][j]) <= room
    BY <1>1, ComplementWithin
  <2> QED
    BY <2>1, DBMAssumption DEF Bound
<1>4. ASSUME NEW Z, NEW m, NEW v PROVE Point(Rested(g, Z), m, v) = Point(Rested(g, F), m, v)
  BY DEF Point, Rested
<1>5. \A Z : Rested(g, Z).zone = Z
  BY DEF Rested
<1>6. ASSUME NEW m \in Positive, NEW v \in Valuation, v[0] = 0, SatAt(m, v, Merge(F, E))
      PROVE  /\ v[T] = m * signal[Len(signal)].duration
             /\ <<Len(signal), Point(Rested(g, Merge(F, E)), m, v), g.weight>> \in Earned(signal)
  <2>1. SatAt(m, v, F) \/ SatAt(m, v, E)
    BY <1>1, <1>3, <1>6, MergeAddsNone
  <2>2. CASE SatAt(m, v, F)
    BY <1>1, <1>4, <1>5, <1>6, <2>2 DEF EndWorth
  <2>3. CASE SatAt(m, v, E)
    <3>1. /\ v[T] = m * signal[Len(signal)].duration
          /\ <<Len(signal), Point(Rested(g, E), m, v), g.weight>> \in Earned(signal)
      BY <1>1, <1>5, <1>6, <2>3 DEF EndWorth
    <3>2. Point(Rested(g, E), m, v) = Point(Rested(g, Merge(F, E)), m, v)
      BY <1>4
    <3> QED
      BY <3>1, <3>2
  <2> QED
    BY <2>1, <2>2, <2>3
<1>7. EndWorth(signal, Rested(g, Merge(F, E)), g.weight)
  BY <1>5, <1>6 DEF EndWorth
<1> QED
  BY <1>2, <1>7 DEF Ended

-----------------------------------------------------------------------------
(* What is reported is worth what the runs earn that end there             *)

(* The match from b to e satisfies the bounds, with t ticks to the unit.   *)
BoundedAt(t, m, b, e) ==
    /\ HoldsAt(t, -b, m[1]) /\ HoldsAt(t, b, m[2])
    /\ HoldsAt(t, -e, m[3]) /\ HoldsAt(t, e, m[4])
    /\ HoldsAt(t, b - e, m[5]) /\ HoldsAt(t, e - b, m[6])

(* A bound that is shifted holds of what has been shifted.                 *)
LEMMA ShiftAt ==
    ASSUME NEW t \in Positive, NEW d \in Int, NEW c \in Int, NEW a \in Bound,
           a + 2 * c < Infinity, a < Infinity, HoldsAt(t, d, Shift(a, c))
    PROVE  HoldsAt(t, d - t * c, a)
<1>1. a \in Int /\ a # Infinity /\ t \in Int /\ t * c \in Int /\ Infinity \in Int
  BY DBMAssumption DEF Bound, Positive
<1>2. PICK k : k = Const(a)
  OBVIOUS
<1>3. k \in Int /\ a \in {Lt(k), Le(k)} /\ Lt(k) # Le(k)
  BY <1>1, <1>2, ConstIs
<1>4. Shift(a, c) = a + 2 * c /\ Shift(a, c) # Infinity
  BY <1>1 DEF Shift
<1>5. Const(a + 2 * c) = k + c
  BY <1>1, <1>3 DEF Const, Lt, Le
<1>6. a + 2 * c = Le(k + c) <=> a = Le(k)
  BY <1>1, <1>3 DEF Lt, Le
<1>7. d < t * (k + c) \/ (a + 2 * c = Le(k + c) /\ d = t * (k + c))
  BY <1>4, <1>5 DEF HoldsAt
<1>8. t * (k + c) = t * k + t * c /\ t * k \in Int
  BY <1>1, <1>3
<1>9. d - t * c < t * k \/ (a = Le(k) /\ d - t * c = t * k)
  BY <1>1, <1>6, <1>7, <1>8
<1> QED
  BY <1>2, <1>9 DEF HoldsAt

(* Whatever is within the bounds of an accepting vertex is where a run     *)
(* ends that earns its distance.                                           *)
LEMMA AcceptedWorth ==
    ASSUME WeightLaws, NEW room, CallFits(call, room), NEW signal, AtPiece(signal),
           absTime = After(signal)[Len(signal) - 1], absTime \in Nat, 2 * absTime <= room,
           NEW conf, Valid(conf), InPiece(call, conf.zone, room),
           IsMatch(conf.vertex), ~ conf.jumpable,
           NEW x \in Weight, Worth(signal, conf, x),
           NEW t \in Positive, NEW b \in Int, NEW e \in Int,
           BoundedAt(t, ResultMatrix(conf.zone), b, e)
    PROVE  x \in Worths(signal, t, b, e)
<1>1. PICK Z, N, s : Z = conf.zone /\ N = Len(signal) /\ s = absTime
  OBVIOUS
<1>2. /\ Z \in Matrix /\ Canonical(Z) /\ IsSatisfiableWithoutCanonize(Z)
      /\ Z[T][0] <= Le(call.duration) /\ \A i, j \in Var : Z[i][j] <= room
  BY <1>1 DEF InPiece
<1>3. /\ room \in Nat /\ 4 * room < Infinity /\ Le(call.duration) \in Bound
      /\ T \in Var /\ 0 \in Var /\ T # 0
  BY CallIs
<1>4. D \in Var /\ D # T
  BY DBMAssumption, ZoneGraphAssumption DEF D, T, Var
<1>5. \A i, j \in Var : /\ Z[i][j] \in Bound /\ Z[i][j] \in Int
                        /\ Z[i][j] < Infinity /\ Z[i][j] + 2 * s < Infinity
                        /\ Z[i][j] + 2 * (-s) < Infinity
  <2> TAKE i \in Var, j \in Var
  <2>1. Z[i][j] \in Bound /\ Z[i][j] \in Int /\ Z[i][j] <= room
    BY <1>2, Entries
  <2>2. s \in Nat /\ 2 * s <= room /\ Infinity \in Int
    BY <1>1, DBMAssumption
  <2> QED
    BY <1>3, <2>1, <2>2
<1>6. s \in Nat /\ t \in Int /\ t * s \in Int /\ -s \in Int /\ t * (-s) = -(t * s)
  BY <1>1 DEF Positive
<1>7. PICK m : m = ResultMatrix(Z)
  OBVIOUS
<1>8. /\ m[1] = Shift(Z[D][T], -s) /\ m[2] = Shift(Z[T][D], s)
      /\ m[3] = Shift(Z[0][T], -s) /\ m[4] = Shift(Z[T][0], s)
      /\ m[5] = Z[0][D] /\ m[6] = Z[D][0]
  BY <1>1, <1>7 DEF ResultMatrix
<1>9. /\ HoldsAt(t, -b, m[1]) /\ HoldsAt(t, b, m[2]) /\ HoldsAt(t, -e, m[3])
      /\ HoldsAt(t, e, m[4]) /\ HoldsAt(t, b - e, m[5]) /\ HoldsAt(t, e - b, m[6])
  BY <1>1, <1>7 DEF BoundedAt
<1>10. ASSUME NEW i \in Var, NEW j \in Var, NEW d \in Int, NEW c \in {s, -s},
              HoldsAt(t, d, Shift(Z[i][j], c))
       PROVE  HoldsAt(t, d - t * c, Z[i][j])
  <2>1. PICK a : a = Z[i][j]
    OBVIOUS
  <2>2. a \in Bound /\ a < Infinity /\ a + 2 * c < Infinity /\ c \in Int
    BY <1>5, <1>6, <2>1
  <2> QED
    BY <1>10, <2>1, <2>2, ShiftAt
<1> DEFINE u0 == e - t * s
           l0 == e - b
           w == [y \in Var |-> IF y = T THEN u0 ELSE IF y = D THEN l0 ELSE 0]
           W == {0, T, D}
<1>11. u0 \in Int /\ l0 \in Int
  BY <1>6
<1>12. /\ HoldsAt(t, -u0, Z[0][T]) /\ HoldsAt(t, u0, Z[T][0])
       /\ HoldsAt(t, -l0, Z[0][D]) /\ HoldsAt(t, l0, Z[D][0])
       /\ HoldsAt(t, l0 - u0, Z[D][T]) /\ HoldsAt(t, u0 - l0, Z[T][D])
  <2>1. HoldsAt(t, (-b) - t * (-s), Z[D][T]) /\ HoldsAt(t, b - t * s, Z[T][D])
    BY <1>3, <1>4, <1>6, <1>8, <1>9, <1>10
  <2>2. HoldsAt(t, (-e) - t * (-s), Z[0][T]) /\ HoldsAt(t, e - t * s, Z[T][0])
    BY <1>3, <1>4, <1>6, <1>8, <1>9, <1>10
  <2>3. /\ (-b) - t * (-s) = l0 - u0 /\ b - t * s = u0 - l0
        /\ (-e) - t * (-s) = -u0 /\ e - t * s = u0 /\ b - e = -l0 /\ e - b = l0
    BY <1>6
  <2> HIDE DEF u0, l0
  <2> QED
    BY <1>8, <1>9, <2>1, <2>2, <2>3
<1> HIDE DEF u0, l0
<1>13. w \in Valuation /\ w[T] = u0 /\ (D # 0 => w[D] = l0) /\ w[0] = 0
  <2>1. \A y \in Var : w[y] \in Int
    BY <1>11
  <2>2. w \in Valuation
    BY <2>1 DEF Valuation
  <2>3. w[T] = u0 /\ (D # 0 => w[D] = l0)
    BY <1>3, <1>4
  <2>4. D # 0
    BY ZoneGraphAssumption, DBMAssumption DEF D
  <2>5. w[0] = 0
    BY <1>3, <2>4
  <2> QED
    BY <2>2, <2>3, <2>5
<1>14. D # 0 /\ w[D] = l0
  BY <1>13, ZoneGraphAssumption, DBMAssumption DEF D
<1> HIDE DEF w
<1>15. \A i \in Var : HoldsAt(t, 0, Z[i][i])
  BY <1>2, DiagonalHolds
<1>16. ASSUME NEW i \in W, NEW j \in W PROVE HoldsAt(t, w[i] - w[j], Z[i][j])
  <2>1. /\ u0 - u0 = 0 /\ l0 - l0 = 0 /\ 0 - 0 = 0 /\ 0 - u0 = -u0 /\ u0 - 0 = u0
        /\ 0 - l0 = -l0 /\ l0 - 0 = l0
    BY <1>11
  <2>2. CASE i = 0
    <3>1. CASE j = 0
      BY <1>3, <1>13, <1>15, <2>1, <2>2, <3>1
    <3>2. CASE j = T
      BY <1>12, <1>13, <2>1, <2>2, <3>2
    <3>3. CASE j = D
      BY <1>12, <1>13, <1>14, <2>1, <2>2, <3>3
    <3> QED
      BY <3>1, <3>2, <3>3
  <2>3. CASE i = T
    <3>1. CASE j = 0
      BY <1>12, <1>13, <2>1, <2>3, <3>1
    <3>2. CASE j = T
      BY <1>3, <1>13, <1>15, <2>1, <2>3, <3>2
    <3>3. CASE j = D
      BY <1>12, <1>13, <1>14, <2>1, <2>3, <3>3
    <3> QED
      BY <3>1, <3>2, <3>3
  <2>4. CASE i = D
    <3>1. CASE j = 0
      BY <1>12, <1>13, <1>14, <2>1, <2>4, <3>1
    <3>2. CASE j = T
      BY <1>12, <1>13, <1>14, <2>1, <2>4, <3>2
    <3>3. CASE j = D
      BY <1>4, <1>14, <1>15, <2>1, <2>4, <3>3
    <3> QED
      BY <3>1, <3>2, <3>3
  <2> QED
    BY <2>2, <2>3, <2>4
<1>17. PICK n \in Positive, u \in Valuation :
          u[0] = 0 /\ SatAt(n * t, u, Z) /\ \A y \in W : u[y] = n * w[y]
  <2>1. AllWithin(Z, room) /\ 2 * room < Infinity
    BY <1>2, <1>3, DBMAssumption DEF AllWithin, Within
  <2>2. \A y \in Var : Z[0][y] # Infinity
    BY <1>3, <1>5, DBMAssumption
  <2>3. W \subseteq Var /\ 0 \in W
    BY <1>3, <1>4
  <2> HIDE DEF W
  <2> QED
    BY <1>2, <1>3, <1>13, <1>16, <2>1, <2>2, <2>3, Extended
<1>18. u[T] = n * u0 /\ u[D] = n * l0
  BY <1>13, <1>14, <1>17
<1>19. PICK l : l = n * t
  OBVIOUS
<1>20. l \in Positive /\ n \in Int /\ l \in Int /\ l >= 1
  <2>1. n \in Nat /\ n # 0 /\ t \in Nat /\ t # 0
    BY DEF Positive
  <2>2. n * t \in Nat /\ n * t # 0
    BY <2>1
  <2> QED
    BY <1>19, <2>1, <2>2 DEF Positive
<1>21. PICK p : p = Point(conf, l, u)
  OBVIOUS
<1>22. /\ p \in RunPoints /\ p.vertex = conf.vertex /\ p.jumpable = conf.jumpable
       /\ p.ticks = l /\ p.at = u
  BY <1>20, <1>21, PointIs DEF Point
<1>23. u[T] <= l * signal[N].duration
  <2>1. HoldsAt(l, u[T] - u[0], Z[T][0]) /\ u[T] \in Int /\ u[T] - u[0] = u[T]
    BY <1>3, <1>17, <1>19 DEF SatAt, Valuation
  <2>2. call.duration \in Nat /\ Le(call.duration) < Infinity
    BY DEF CallFits, WellFormed
  <2>3. PICK a, k : a = Z[T][0] /\ k = Le(call.duration)
    OBVIOUS
  <2>4. a \in Bound /\ k \in Bound /\ a <= k /\ HoldsAt(l, u[T], a)
    BY <1>2, <1>3, <1>5, <2>1, <2>3
  <2>5. HoldsAt(l, u[T], Le(call.duration))
    BY <1>20, <2>1, <2>3, <2>4, HoldsAtMonotone
  <2>6. u[T] <= l * call.duration
    <3>1. PICK y, d : y = u[T] /\ d = call.duration
      OBVIOUS
    <3>2. y \in Int /\ d \in Int /\ Le(d) < Infinity /\ HoldsAt(l, y, Le(d))
      BY <2>1, <2>2, <2>5, <3>1
    <3>3. y <= l * d
      BY ONLY <1>20, <3>2, HoldsAtLe
    <3> QED
      BY <3>1, <3>3
  <2>7. signal[N].duration = call.duration
    BY <1>1 DEF AtPiece
  <2> QED
    BY ONLY <2>6, <2>7
<1>24. <<N, p, x>> \in Earned(signal)
  BY <1>1, <1>17, <1>19, <1>20, <1>21, <1>23 DEF Worth
<1>25. Ends(signal, N, p, t, b, e)
  <2>1. l * s = n * (t * s)
    BY <1>6, <1>19, <1>20
  <2>2. n * u0 = n * e - n * (t * s)
    <3>1. PICK q : q = t * s
      OBVIOUS
    <3>2. q \in Int /\ u0 = e - q
      BY <1>6, <3>1 DEF u0
    <3>3. n * (e - q) = n * e - n * q
      BY <1>20, <3>2
    <3> QED
      BY <3>1, <3>2, <3>3
  <2>3. n * l0 = n * e - n * b
    BY <1>20 DEF l0
  <2>4. n * e \in Int /\ n * b \in Int /\ n * (t * s) \in Int
    BY <1>6, <1>20
  <2>5. p.at[T] + p.ticks * s = n * e /\ p.at[T] - p.at[D] + p.ticks * s = n * b
    BY <1>18, <1>22, <2>1, <2>2, <2>3, <2>4
  <2> QED
    BY <1>1, <1>19, <1>22, <2>5 DEF Ends
<1> DEFINE X == {y \in Weight : \E k \in DOMAIN signal, r \in RunPoints :
                    <<k, r, y>> \in Earned(signal) /\ Ends(signal, k, r, t, b, e)}
<1>26. N \in DOMAIN signal
  BY <1>1 DEF AtPiece
<1>27. x \in X /\ X \subseteq Weight
  BY <1>22, <1>24, <1>25, <1>26
<1>28. Worths(signal, t, b, e) = Sums(X)
  BY Zenon DEF Worths
<1> HIDE DEF X
<1> QED
  BY <1>27, <1>28, SumsAre

-----------------------------------------------------------------------------
(* What the engine keeps is worth what the runs earn                       *)

ReportsRuns ==
    \A m \in DOMAIN result, t \in Positive, b \in Int, e \in Int :
        BoundedAt(t, m, b, e) => result[m] \in Worths(fed, t, b, e)

(* Inductive with EngineInv and FitInv: the configurations are worth their *)
(* weight at the end of the pieces fed so far, those of the call in the    *)
(* last of them, and so are the distances, and the zones of confMap.       *)
WorthInv ==
    /\ ReportsRuns
    /\ stage = "idle" =>
           /\ absTime = After(fed)[Len(fed)]
           /\ \A c \in configuration : fed # <<>> /\ EndWorth(fed, c.conf, c.weight)
    /\ stage # "idle" =>
           AtPiece(fed) /\ GivenWorth(fed) /\ absTime = After(fed)[Len(fed) - 1]
    /\ stage = "collect" => \A v \in Live : Worth(fed, nodes[v], distance[v])
    /\ \A g \in DOMAIN confMap : \A i \in DOMAIN confMap[g] :
           EndWorth(fed, Rested(g, confMap[g][i]), g.weight)

LEMMA FeedWorth ==
    ASSUME WeightLaws, EngineInv, WorthInv, NEW piece \in Pieces, Feed(piece),
           NEW room, NEW limit, Roomy(piece.duration, room, limit), Fits(room)
    PROVE  WorthInv'
<1> DEFINE enter(c) == [c EXCEPT !.conf = Entered(@, piece.valuation)]
           confs == Listed({enter(c) : c \in configuration})
                      \o [i \in DOMAIN TA.init |->
                             [conf |-> InitialConf(TA.init[i]), weight |-> One]]
<1>1. /\ stage = "idle" /\ stage' = "construct"
      /\ call' = [confs |-> confs, valuation |-> piece.valuation,
                  duration |-> piece.duration]
      /\ fed' = Append(fed, piece) /\ absTime' = absTime /\ result' = result
      /\ confMap' = confMap /\ nodes' = nodes /\ initStatesZG' = initStatesZG
  BY Zenon DEF Feed, graphVars
<1>2. PICK s, n : s = fed' /\ n = Len(fed)
  OBVIOUS
<1>3. /\ fed \in Seq(Pieces) /\ absTime \in Nat /\ IsFiniteSet(configuration)
      /\ configuration \subseteq Resting /\ DOMAIN initStatesZG = {} /\ DOMAIN confMap = {}
  BY <1>1 DEF EngineInv, KeptInv, FeedInv, NoCall, Fits
<1>4. /\ s = Append(fed, piece) /\ s \in Seq(Pieces) /\ s # <<>> /\ Len(s) = n + 1
      /\ s[Len(s)] = piece /\ n \in Nat
  BY <1>1, <1>2, <1>3
<1>5. /\ room \in Nat /\ Le(0) <= room /\ 4 * room < Infinity
  BY RoomIs DEF Roomy
<1>6. ReportsRuns'
  <2> SUFFICES ASSUME NEW m \in DOMAIN result, NEW t \in Positive, NEW b \in Int, NEW e \in Int,
                      BoundedAt(t, m, b, e)
               PROVE  result[m] \in Worths(s, t, b, e)
    BY <1>1, <1>2 DEF ReportsRuns
  <2>1. result[m] \in Worths(fed, t, b, e)
    BY DEF WorthInv, ReportsRuns
  <2> QED
    BY <1>3, <1>4, <2>1, WorthsGrow
<1> DEFINE S == {c \in Arrivals : Worth(s, c.conf, c.weight)}
<1>7. ASSUME NEW c \in configuration PROVE enter(c) \in S
  <2>1. /\ c \in Resting /\ c.conf \in Confs /\ Carried(c.conf) /\ c.weight \in Weight
        /\ c.conf.zone \in Settled(room)
    BY <1>3 DEF Resting, Fits
  <2>2. /\ Entered(c.conf, piece.valuation) \in Confs
        /\ Valid(Entered(c.conf, piece.valuation))
        /\ Entering(Entered(c.conf, piece.valuation))
    <3>1. piece.valuation \in Values
      BY DEF Values
    <3> QED
      BY <2>1, <3>1, ConfEnters DEF Valid
  <2>3. enter(c) = [conf |-> Entered(c.conf, piece.valuation), weight |-> c.weight]
    BY <2>1 DEF Resting
  <2>4. fed # <<>> /\ EndWorth(fed, c.conf, c.weight)
    BY <1>1 DEF WorthInv
  <2>5. Worth(s, Entered(c.conf, piece.valuation), c.weight)
    BY <1>3, <1>4, <1>5, <2>1, <2>4, EnteredWorth
  <2> HIDE DEF enter
  <2> QED
    BY <2>1, <2>2, <2>3, <2>5 DEF Arrivals
<1>8. ASSUME NEW i \in DOMAIN TA.init
      PROVE  [conf |-> InitialConf(TA.init[i]), weight |-> One] \in S
  <2>1. Worth(s, InitialConf(TA.init[i]), One)
    BY <1>4, InitialWorth
  <2> QED
    BY <2>1, InitialEnters DEF Arrivals, WeightLaws, CostsAreWeights, Valid
<1>9. \A i \in DOMAIN confs : confs[i] \in S
  <2> HIDE DEF S
  <2>1. confs \in Seq(S)
    BY <1>3, <1>7, <1>8, ArrivalsAre
  <2> HIDE DEF confs
  <2> QED
    BY <2>1
<1> HIDE DEF confs
<1>10. \A i \in DOMAIN confs : Worth(s, confs[i].conf, confs[i].weight)
  BY <1>9
<1>11. AtPiece(fed)'
  <2>1. /\ call'.confs = confs /\ call'.valuation = piece.valuation
        /\ call'.duration = piece.duration
    BY <1>1
  <2> QED
    BY <1>2, <1>4, <1>10, <2>1 DEF AtPiece
<1>12. GivenWorth(fed)'
  BY <1>1, <1>3 DEF GivenWorth
<1>13. absTime' = After(s)[Len(s) - 1]
  <2>1. absTime = After(fed)[n]
    BY <1>1, <1>2 DEF WorthInv
  <2>2. n \in 0 .. n /\ Len(s) - 1 = n
    BY <1>4
  <2>3. After(s)[n] = After(fed)[n]
    BY <1>2, <1>3, <1>4, <2>2, AfterGrows
  <2> QED
    BY <1>1, <2>1, <2>2, <2>3
<1>14. DOMAIN confMap' = {}
  BY <1>1, <1>3
<1> QED
  BY <1>1, <1>2, <1>6, <1>11, <1>12, <1>13, <1>14 DEF WorthInv

(* What does not concern the signal leaves what was reported as it is.     *)
LEMMA ReportsStay ==
    ASSUME ReportsRuns, result' = result, fed' = fed PROVE ReportsRuns'
  BY DEF ReportsRuns

LEMMA ConstructWorth ==
    ASSUME EngineInv, WorthInv, Construct, NEW room, Fits(room)
    PROVE  WorthInv'
<1>1. /\ stage = "construct" /\ Next /\ stage' = stage /\ result' = result /\ fed' = fed
      /\ absTime' = absTime /\ confMap' = confMap
  BY Zenon DEF Construct, stateVars, feedVars
<1>2. PICK s : s = fed
  OBVIOUS
<1>3. ZoneInv /\ AtPiece(s) /\ GivenWorth(s) /\ DOMAIN confMap = {}
  BY <1>1, <1>2 DEF EngineInv, FeedInv, WorthInv, Fits
<1>4. AtPiece(s)' /\ GivenWorth(s)'
  BY <1>1, <1>3, GivenWorthNext
<1>5. AtPiece(fed)' /\ GivenWorth(fed)'
  BY <1>1, <1>2, <1>4 DEF AtPiece, GivenWorth
<1>6. ReportsRuns'
  BY <1>1, ReportsStay DEF WorthInv
<1>7. absTime' = After(fed')[Len(fed') - 1]
  BY <1>1 DEF WorthInv
<1> QED
  BY <1>1, <1>3, <1>5, <1>6, <1>7 DEF WorthInv

LEMMA MeasureWorth ==
    ASSUME WeightLaws, EngineInv, WorthInv, Measure, NEW room, Fits(room)
    PROVE  WorthInv'
<1>1. /\ stage = "construct" /\ stage' = "collect" /\ distance' = Distances
      /\ result' = result /\ fed' = fed /\ absTime' = absTime /\ confMap' = confMap
      /\ UNCHANGED vars
  BY Zenon DEF Measure, stateVars
<1>2. PICK s : s = fed
  OBVIOUS
<1>3. /\ ZoneInv /\ PieceInv /\ CallFits(call, room) /\ StepInv(room)
      /\ AtPiece(s) /\ GivenWorth(s) /\ DOMAIN confMap = {}
  BY <1>1, <1>2 DEF EngineInv, FeedInv, WorthInv, Fits
<1>4. call' = call /\ nodes' = nodes /\ Live' = Live /\ initStatesZG' = initStatesZG
  BY <1>1 DEF vars, graphVars, Live
<1>5. AtPiece(fed)' /\ GivenWorth(fed)'
  BY <1>1, <1>2, <1>3, <1>4 DEF AtPiece, GivenWorth
<1>6. ReportsRuns'
  BY <1>1, ReportsStay DEF WorthInv
<1>7. absTime' = After(fed')[Len(fed') - 1]
  BY <1>1 DEF WorthInv
<1>8. \A v \in Live' : Worth(fed', nodes'[v], distance'[v])
  BY <1>1, <1>2, <1>3, <1>4, DistancesWorth
<1> QED
  BY <1>1, <1>3, <1>5, <1>6, <1>7, <1>8 DEF WorthInv

LEMMA CollectWorth ==
    ASSUME EngineInv, WorthInv, NEW v \in uncollected, Collect(v), NEW room, Fits(room)
    PROVE  WorthInv'
<1> DEFINE g == Group(v)
           zones == IF g \in DOMAIN confMap THEN confMap[g] ELSE <<>>
           merged == MergedInto(zones, AtEnd(nodes[v].zone))
<1>1. /\ stage = "collect" /\ confMap' = Put(confMap, g, merged) /\ stage' = stage
      /\ distance' = distance /\ result' = result /\ fed' = fed /\ absTime' = absTime
      /\ UNCHANGED vars
  BY DEF Collect, stateVars
<1>2. PICK s : s = fed
  OBVIOUS
<1>3. /\ ZoneInv /\ v \in Live /\ CallFits(call, room) /\ StepInv(room)
      /\ AtPiece(s) /\ GivenWorth(s) /\ Worth(s, nodes[v], distance[v])
      /\ room \in Nat /\ room < Infinity
  <2>1. CallFits(call, room)
    BY <1>1 DEF Fits
  <2>2. room \in Nat /\ room < Infinity
    <3>1. room \in Nat /\ 8 * room < Infinity /\ Infinity \in Nat
      BY <2>1, DBMAssumption DEF CallFits
    <3> QED
      BY <3>1
  <2> QED
    BY <1>1, <1>2, <2>1, <2>2 DEF EngineInv, FeedInv, WorthInv, Fits
<1>4. call' = call /\ nodes' = nodes /\ Live' = Live /\ initStatesZG' = initStatesZG
  BY <1>1 DEF vars, graphVars, Live
<1>5. AtEnd(nodes[v].zone) \in Ended(s, g, room)
  <2>1. InPiece(call, nodes[v].zone, room) /\ IsSatisfiableWithoutCanonize(AtEnd(nodes[v].zone))
    BY <1>3 DEF StepInv, Fits
  <2>2. /\ g.vertex = nodes[v].vertex /\ g.jumpable = nodes[v].jumpable
        /\ g.valuations = nodes[v].valuations /\ g.weight = distance[v]
    BY DEF Group
  <2> HIDE DEF g
  <2> QED
    BY <1>3, <2>1, <2>2, AtEndWorth
<1>6. zones \in Seq(Ended(s, g, room))
  <2>1. CASE g \in DOMAIN confMap
    <3>1. PICK z : z = confMap[g]
      OBVIOUS
    <3>2. z \in Seq(Settled(room)) /\ \A i \in DOMAIN z : EndWorth(s, Rested(g, z[i]), g.weight)
      BY <1>2, <2>1, <3>1 DEF Fits, WorthInv
    <3>3. \A i \in 1 .. Len(z) : z[i] \in Ended(s, g, room)
      <4> HIDE DEF g
      <4> QED
        BY <3>2 DEF Ended
    <3>4. z \in Seq(Ended(s, g, room))
      BY <3>2, <3>3
    <3> QED
      BY <2>1, <3>1, <3>4
  <2>2. CASE g \notin DOMAIN confMap
    BY <2>2
  <2> QED
    BY <2>1, <2>2
<1> HIDE DEF g, zones
<1>7. merged \in Seq(Ended(s, g, room))
  BY <1>3, <1>5, <1>6, EndedMerging, MergedIntoStays
<1> HIDE DEF merged
<1>8. /\ DOMAIN confMap' = DOMAIN confMap \cup {g}
      /\ \A h \in DOMAIN confMap' : confMap'[h] = IF h = g THEN merged ELSE confMap[h]
  BY <1>1 DEF Put
<1>9. ASSUME NEW h \in DOMAIN confMap', NEW i \in DOMAIN confMap'[h]
      PROVE  EndWorth(s, Rested(h, confMap'[h][i]), h.weight)
  <2>1. CASE h = g
    <3>1. confMap'[h] = merged
      BY <1>8, <2>1
    <3>2. merged[i] \in Ended(s, g, room)
      BY <1>7, <1>9, <3>1
    <3> QED
      BY <2>1, <3>1, <3>2 DEF Ended
  <2>2. CASE h # g
    BY <1>2, <1>8, <1>9, <2>2 DEF WorthInv
  <2> QED
    BY <2>1, <2>2
<1>10. AtPiece(fed)' /\ GivenWorth(fed)'
  BY <1>1, <1>2, <1>3, <1>4 DEF AtPiece, GivenWorth
<1>11. ReportsRuns'
  BY <1>1, ReportsStay DEF WorthInv
<1>12. absTime' = After(fed')[Len(fed') - 1]
  BY <1>1 DEF WorthInv
<1>13. \A u \in Live' : Worth(fed', nodes'[u], distance'[u])
  BY <1>1, <1>4 DEF WorthInv
<1> QED
  BY <1>1, <1>2, <1>9, <1>10, <1>11, <1>12, <1>13 DEF WorthInv

(* What goes on to the next piece,                                         *)
LEMMA NewConfigurationWorth ==
    ASSUME NEW room \in Nat, room < Infinity, NEW signal,
           \A g \in DOMAIN confMap : confMap[g] \in Seq(Ended(signal, g, room)),
           NEW c \in NewConfiguration
    PROVE  EndWorth(signal, c.conf, c.weight)
<1> DEFINE left(g) == Swept(confMap[g])
<1>1. PICK g \in DOMAIN confMap : \E Z \in Range(left(g)) :
             c = [conf |-> Rested(g, Z), weight |-> g.weight]
  BY DEF NewConfiguration, Rested
<1>2. left(g) \in Seq(Ended(signal, g, room))
  BY EndedMerging, SweptClean
<1> HIDE DEF left
<1>3. PICK i \in DOMAIN left(g) : c = [conf |-> Rested(g, left(g)[i]), weight |-> g.weight]
  BY <1>1 DEF Range
<1>4. left(g)[i] \in Ended(signal, g, room)
  BY <1>2
<1>5. c.conf = Rested(g, left(g)[i]) /\ c.weight = g.weight
  BY <1>3
<1> QED
  BY <1>4, <1>5 DEF Ended

(* and what is reported.                                                   *)
LEMMA NewResultWorth ==
    ASSUME WeightLaws, EngineInv, stage = "collect", WorthInv, NEW room, Fits(room),
           2 * absTime <= room, NEW m \in DOMAIN NewResult,
           NEW t \in Positive, NEW b \in Int, NEW e \in Int, BoundedAt(t, m, b, e)
    PROVE  NewResult[m] \in Worths(fed, t, b, e)
<1> DEFINE mat(v) == ResultMatrix(nodes[v].zone)
           found == {u \in Accepted : mat(u) = m}
           ws == {distance[v] : v \in found}
           base == IF m \in DOMAIN result THEN result[m] ELSE Zero
           S == Worths(fed, t, b, e)
           weigh == [v \in found |-> distance[v]]
<1>1. NewResult[m] = Added(base, ws)
  BY DEF NewResult
<1>2. /\ ZoneInv /\ CallFits(call, room) /\ StepInv(room) /\ AtPiece(fed)
      /\ absTime \in Nat /\ absTime = After(fed)[Len(fed) - 1]
      /\ distance \in [Live -> Weight]
  BY DEF EngineInv, KeptInv, FeedInv, Fits, WorthInv
<1>3. SumLaws(Weight) /\ Zero \in Weight
  BY DEF WeightLaws, CostsAreWeights
<1>4. S \subseteq Weight /\ Zero \in S /\ \A y, z \in S : Plus(y, z) \in S
  <2> DEFINE X == {x \in Weight : \E n \in DOMAIN fed, p \in RunPoints :
                      <<n, p, x>> \in Earned(fed) /\ Ends(fed, n, p, t, b, e)}
  <2>1. S = Sums(X)
    BY Zenon DEF Worths
  <2>2. X \subseteq Weight
    OBVIOUS
  <2> HIDE DEF X, S
  <2> QED
    BY <2>1, <2>2, SumsAre
<1>5. base \in S
  BY <1>4 DEF WorthInv, ReportsRuns
<1>6. ws \subseteq S
  <2> SUFFICES ASSUME NEW v \in found PROVE distance[v] \in S
    OBVIOUS
  <2>1. v \in Live /\ IsMatch(nodes[v].vertex) /\ ~ nodes[v].jumpable
    BY DEF Accepted
  <2>2. PICK conf, x : conf = nodes[v] /\ x = distance[v]
    OBVIOUS
  <2>3. Valid(conf)
    BY <1>2, <2>1, <2>2 DEF ZoneInv, GraphInv, JumpableIffValuations, Valid
  <2>4. InPiece(call, conf.zone, room) /\ x \in Weight /\ Worth(fed, conf, x)
    BY <1>2, <2>1, <2>2 DEF StepInv, WorthInv
  <2>5. BoundedAt(t, ResultMatrix(conf.zone), b, e)
    BY <2>2
  <2>6. x \in Worths(fed, t, b, e)
    BY <1>2, <2>1, <2>2, <2>3, <2>4, <2>5, AcceptedWorth
  <2> QED
    BY <2>2, <2>6
<1>7. IsFiniteSet(ws)
  <2>1. IsFiniteSet(found)
    BY <1>2, LiveFinite, FS_Subset DEF Accepted
  <2>2. weigh \in Surjection(found, ws)
    BY DEF Surjection
  <2> HIDE DEF weigh, found, ws
  <2> QED
    BY <2>1, <2>2, FS_Surjection
<1> HIDE DEF ws, base, S
<1>8. Added(base, ws) \in S
  BY <1>3, <1>4, <1>5, <1>6, <1>7, SumStays
<1> QED
  BY <1>1, <1>8 DEF S

LEMMA FinishWorth ==
    ASSUME WeightLaws, EngineInv, WorthInv, Finish, NEW room, Fits(room), 2 * absTime <= room
    PROVE  WorthInv'
<1>1. /\ stage = "collect" /\ stage' = "idle" /\ configuration' = NewConfiguration
      /\ result' = NewResult /\ absTime' = absTime + call.duration /\ fed' = fed
      /\ DOMAIN confMap' = {}
  BY DEF Finish
<1>2. PICK s, n : s = fed /\ n = Len(fed)
  OBVIOUS
<1>3. /\ AtPiece(s) /\ absTime = After(s)[n - 1] /\ s \in Seq(Pieces) /\ s # <<>>
      /\ n \in Nat /\ n \in 1 .. n /\ call.duration = s[n].duration
  BY <1>1, <1>2 DEF WorthInv, AtPiece
<1>4. room \in Nat /\ room < Infinity
  <2>1. room \in Nat /\ 8 * room < Infinity /\ Infinity \in Nat
    BY <1>1, DBMAssumption DEF Fits, CallFits
  <2> QED
    BY <2>1
<1>5. ASSUME NEW g \in DOMAIN confMap PROVE confMap[g] \in Seq(Ended(s, g, room))
  <2>1. PICK z : z = confMap[g]
    OBVIOUS
  <2>2. z \in Seq(Settled(room)) /\ \A i \in DOMAIN z : EndWorth(s, Rested(g, z[i]), g.weight)
    BY <1>2, <2>1 DEF Fits, WorthInv
  <2>3. \A i \in 1 .. Len(z) : z[i] \in Ended(s, g, room)
    BY <2>2 DEF Ended
  <2>4. z \in Seq(Ended(s, g, room))
    BY <2>2, <2>3
  <2> QED
    BY <2>1, <2>4
<1>6. \A c \in configuration' : fed' # <<>> /\ EndWorth(fed', c.conf, c.weight)
  BY <1>1, <1>2, <1>3, <1>4, <1>5, NewConfigurationWorth
<1>7. absTime' = After(fed')[Len(fed')]
  <2>1. After(s)[n] = After(s)[n - 1] + s[n].duration
    BY <1>2, <1>3, AfterIs
  <2> QED
    BY <1>1, <1>2, <1>3, <2>1
<1>8. ReportsRuns'
  <2>1. ASSUME NEW m \in DOMAIN NewResult, NEW t \in Positive, NEW b \in Int, NEW e \in Int,
               BoundedAt(t, m, b, e)
        PROVE  NewResult[m] \in Worths(fed, t, b, e)
    BY <1>1, <2>1, NewResultWorth
  <2> QED
    BY <1>1, <2>1 DEF ReportsRuns
<1> QED
  BY <1>1, <1>6, <1>7, <1>8 DEF WorthInv

LEMMA OverWorth == ASSUME WorthInv, UNCHANGED engineVars PROVE WorthInv'
<1>1. /\ stage' = stage /\ configuration' = configuration /\ confMap' = confMap
      /\ distance' = distance /\ result' = result /\ fed' = fed /\ absTime' = absTime
      /\ call' = call /\ nodes' = nodes /\ initStatesZG' = initStatesZG /\ Live' = Live
  BY Zenon DEF engineVars, stateVars, feedVars, vars, graphVars, Live
<1>2. ReportsRuns'
  BY <1>1, ReportsStay DEF WorthInv
<1>3. stage # "idle" => AtPiece(fed)' /\ GivenWorth(fed)'
  BY <1>1 DEF WorthInv, AtPiece, GivenWorth
<1> QED
  BY <1>1, <1>2, <1>3 DEF WorthInv

LEMMA WorthStep ==
    ASSUME WeightLaws, EngineInv, NEW longest, Timely(longest), FitInv(longest), WorthInv,
           [EngineNext]_engineVars
    PROVE  WorthInv'
<1>1. PICK room : room = Room
  OBVIOUS
<1>2. Fits(room)
  BY <1>1 DEF FitInv
<1>3. ASSUME NEW piece \in Pieces, Feed(piece) PROVE WorthInv'
  <2>1. PICK limit : limit = Room'
    OBVIOUS
  <2>2. Roomy(piece.duration, room, limit)
    BY <1>1, <1>3, <2>1, FeedTakes DEF FitInv
  <2> QED
    BY <1>2, <1>3, <2>2, FeedWorth
<1>4. CASE Finish
  <2>1. stage = "collect" /\ absTime \in Nat /\ call.duration \in Nat /\ Len(fed) \in Nat
    BY <1>4 DEF Finish, EngineInv, KeptInv, FeedInv, ZoneInv, GraphInv, WellFormed
  <2>2. 2 * absTime <= room
    BY <1>1, <2>1 DEF Room, Elapsed
  <2> QED
    BY <1>2, <1>4, <2>2, FinishWorth
<1>5. CASE Over \/ UNCHANGED engineVars
  BY <1>5, OverWorth DEF Over
<1>6. CASE Construct
  BY <1>2, <1>6, ConstructWorth
<1>7. CASE Measure
  BY <1>2, <1>7, MeasureWorth
<1>8. CASE \E v \in uncollected : Collect(v)
  BY <1>2, <1>8, CollectWorth
<1> QED
  BY <1>3, <1>4, <1>5, <1>6, <1>7, <1>8 DEF EngineNext

(* quantitative_timed_pattern_matching.hh:208-224: whatever match lies     *)
(* within the bounds of a result, from one rational time to another, what  *)
(* is recorded for it is a sum of what runs of the automaton earn that     *)
(* match exactly there: no weight is made up, whatever was merged, cut and *)
(* carried over between the pieces.                                        *)
THEOREM EngineReportsRuns ==
    ASSUME WeightLaws, NEW longest, Timely(longest)
    PROVE  EngineSpec => []ReportsRuns
<1>1. EngineInit => WorthInv
  <2> SUFFICES ASSUME EngineInit PROVE WorthInv
    OBVIOUS
  <2>1. /\ configuration = {} /\ absTime = 0 /\ DOMAIN result = {} /\ stage = "idle"
        /\ fed = <<>> /\ DOMAIN confMap = {}
    BY DEF EngineInit
  <2>2. fed \in Seq(Pieces) /\ Len(fed) = 0
    BY <2>1
  <2>3. After(fed)[0] = 0
    BY <2>2, AfterIs
  <2> QED
    BY <2>1, <2>2, <2>3 DEF WorthInv, ReportsRuns
<1>2. EngineInv /\ FitInv(longest) /\ WorthInv /\ [EngineNext]_engineVars => WorthInv'
  BY WorthStep
<1>3. WorthInv => ReportsRuns
  BY DEF WorthInv
<1> QED
  BY <1>1, <1>2, <1>3, EngineInvariant, PTL DEF EngineSpec

(* The same runs, without what they are worth.                             *)
Comes(signal, S, n, q) ==
    \/ Begins(signal[n], q)
    \/ \E p \in RunPoints : <<n, p>> \in S /\ Steps(signal[n], p, q)
    \/ n > 1 /\ \E p \in RunPoints :
                   <<n - 1, p>> \in S /\ GoesOn(signal[n - 1], signal[n], p, q)
    \/ \E k \in Positive : <<n, InTicks(k, q)>> \in S

ClosedUnderComing(signal, S) ==
    \A n \in DOMAIN signal, q \in RunPoints : Comes(signal, S, n, q) => <<n, q>> \in S

OnSignal(signal) ==
    {r \in Nat \X RunPoints :
        \A S \in SUBSET (Nat \X RunPoints) : ClosedUnderComing(signal, S) => r \in S}

ZeroAnnihilates == \A w \in Weight : Times(Zero, w) = Zero

(* Where no run comes to, nothing is earned.                               *)
LEMMA EarnedOnRuns ==
    ASSUME WeightLaws, ZeroAnnihilates, NEW signal \in Seq(Pieces)
    PROVE  \A n, q, x : <<n, q, x>> \in Earned(signal) => x = Zero \/ <<n, q>> \in OnSignal(signal)
<1> DEFINE R == OnSignal(signal)
           S == {r \in Earnings : r[3] = Zero \/ <<r[1], r[2]>> \in R}
<1>1. Zero \in Weight /\ Plus(Zero, Zero) = Zero
  BY DEF WeightLaws, SumLaws, CostsAreWeights
<1>2. \A n, q, x : <<n, q, x>> \in S <=>
         n \in Nat /\ q \in RunPoints /\ x \in Weight /\ (x = Zero \/ <<n, q>> \in R)
  BY DEF Earnings
<1>3. ASSUME NEW n \in DOMAIN signal, NEW q \in RunPoints, Comes(signal, R, n, q)
      PROVE  <<n, q>> \in R
  <2>1. <<n, q>> \in Nat \X RunPoints
    OBVIOUS
  <2>2. ASSUME NEW Q \in SUBSET (Nat \X RunPoints), ClosedUnderComing(signal, Q)
        PROVE  <<n, q>> \in Q
    <3>1. R \subseteq Q
      BY <2>2 DEF OnSignal
    <3>2. Comes(signal, Q, n, q)
      <4> HIDE DEF R
      <4> QED
        BY <1>3, <3>1 DEF Comes
    <3> QED
      BY <2>2, <3>2 DEF ClosedUnderComing
  <2> QED
    BY <2>1, <2>2 DEF OnSignal
<1> HIDE DEF R, S
<1>4. ASSUME NEW n \in DOMAIN signal, NEW q \in RunPoints, NEW x \in Weight,
             Earns(signal, S, n, q, x)
      PROVE  <<n, q, x>> \in S
  <2> SUFFICES ASSUME x # Zero PROVE <<n, q>> \in R
    BY <1>2
  <2>1. SUFFICES Comes(signal, R, n, q) \/ <<n, q>> \in R
    BY <1>3
  <2>2. CASE x = One /\ Begins(signal[n], q)
    BY <2>2 DEF Comes
  <2>3. ASSUME NEW p \in RunPoints, NEW y \in Weight, NEW w \in Weight,
               <<n, p, y>> \in S, Steps(signal[n], p, q), x = Times(y, w)
        PROVE  Comes(signal, R, n, q)
    <3>1. y # Zero
      BY <2>3 DEF ZeroAnnihilates
    <3>2. <<n, p>> \in R
      BY <1>2, <2>3, <3>1
    <3> QED
      BY <2>3, <3>2 DEF Comes
  <2>4. ASSUME n > 1, NEW p \in RunPoints, <<n - 1, p, x>> \in S,
               GoesOn(signal[n - 1], signal[n], p, q)
        PROVE  Comes(signal, R, n, q)
    <3>1. <<n - 1, p>> \in R
      BY <1>2, <2>4
    <3> QED
      BY <2>4, <3>1 DEF Comes
  <2>5. ASSUME NEW y \in Weight, NEW z \in Weight, <<n, q, y>> \in S, <<n, q, z>> \in S,
               x = Plus(y, z)
        PROVE  <<n, q>> \in R
    BY <1>1, <1>2, <2>5
  <2>6. ASSUME NEW k \in Positive, <<n, InTicks(k, q), x>> \in S
        PROVE  Comes(signal, R, n, q)
    <3>1. <<n, InTicks(k, q)>> \in R
      BY <1>2, <2>6
    <3> QED
      BY <3>1 DEF Comes
  <2> QED
    BY <1>4, <2>2, <2>3, <2>4, <2>5, <2>6 DEF Earns
<1>5. S \in SUBSET Earnings
  BY DEF S
<1>6. Earned(signal) \subseteq S
  BY <1>4, <1>5 DEF Earned, ClosedUnderEarning
<1> QED
  BY <1>2, <1>6 DEF R


(* Every match that lies within the bounds of a result that is not zero,   *)
(* from one rational time to another, is the match of a run.               *)
MatchesHaveRuns ==
    \A m \in DOMAIN result, t \in Positive, b \in Int, e \in Int :
        BoundedAt(t, m, b, e) /\ result[m] # Zero =>
            \E n \in DOMAIN fed, p \in RunPoints :
                <<n, p>> \in OnSignal(fed) /\ Ends(fed, n, p, t, b, e)

(* quantitative_timed_pattern_matching.hh:208-224: no match is invented.   *)
(* MatchSound says so of whole units of time and short signals, with the   *)
(* weight; this theorem, of all signals and all rational times.            *)
THEOREM EngineMatchesHaveRuns ==
    ASSUME WeightLaws, ZeroAnnihilates, NEW longest, Timely(longest)
    PROVE  EngineSpec => []MatchesHaveRuns
<1>1. EngineInv /\ ReportsRuns => MatchesHaveRuns
  <2> SUFFICES ASSUME EngineInv, ReportsRuns, NEW m \in DOMAIN result, NEW t \in Positive,
                      NEW b \in Int, NEW e \in Int, BoundedAt(t, m, b, e),
                      \A n \in DOMAIN fed, p \in RunPoints :
                          ~ (<<n, p>> \in OnSignal(fed) /\ Ends(fed, n, p, t, b, e))
               PROVE  result[m] = Zero
    BY DEF MatchesHaveRuns
  <2> DEFINE X == {x \in Weight : \E n \in DOMAIN fed, p \in RunPoints :
                      <<n, p, x>> \in Earned(fed) /\ Ends(fed, n, p, t, b, e)}
  <2>1. fed \in Seq(Pieces)
    BY DEF EngineInv, KeptInv
  <2>2. X \subseteq {Zero}
    BY <2>1, EarnedOnRuns
  <2>3. Zero \in Weight /\ Plus(Zero, Zero) = Zero
    BY DEF WeightLaws, SumLaws, CostsAreWeights
  <2>4. result[m] \in Worths(fed, t, b, e)
    BY DEF ReportsRuns
  <2>5. Worths(fed, t, b, e) = Sums(X)
    BY Zenon DEF Worths
  <2>6. {Zero} \in SUBSET Weight /\ \A y, z \in {Zero} : Plus(y, z) \in {Zero}
    BY <2>3
  <2> HIDE DEF X
  <2>7. Sums(X) \subseteq {Zero}
    BY <2>2, <2>6 DEF Sums
  <2> QED
    BY <2>4, <2>5, <2>7
<1> QED
  BY <1>1, EngineReportsRuns, EngineInvariant, PTL
=============================================================================

------------------------------ MODULE ZonePath ------------------------------
(***************************************************************************)
(* What the engine does to one zone along one path: start a match in a     *)
(* piece of the signal, wait, take a transition, cross into the next       *)
(* piece, and finally merge the zone with the one another path left        *)
(* behind.  Every action is a sequence of operations of DBM.tla exactly as *)
(* the callers in zone_graph.hh and quantitative_timed_pattern_matching.hh *)
(* chain them, because most of these operations are only correct on the    *)
(* canonical form that the one before left.                                *)
(*                                                                         *)
(* points is a ghost: the valuations that the same path reaches, moved one *)
(* by one on a grid of Unit ticks per unit of time.                        *)
(***************************************************************************)
EXTENDS TimedAutomaton

CONSTANTS
    Unit,       \* ticks per unit of time; all constants are multiples of it
    Duration,   \* the length of every piece, in ticks
    MaxPieces,  \* bound: pieces a path crosses
    MaxWaits    \* bound: delays on a path

Clock == 1 .. Dim - 2

ASSUME PathAssumption ==
    /\ Dim >= 2
    /\ Duration \in Nat \ {0} /\ Duration % Unit = 0 /\ MaxPieces \in Nat \ {0} /\ MaxWaits \in Nat
    /\ Unit \in Nat /\ Unit > Dim /\ Unit > MaxWaits + 1
    /\ \A i \in DOMAIN TA.edges :
           /\ TA.edges[i].guard \subseteq [x : Clock, odr : Orders, c : Int]
           /\ IsFiniteSet(TA.edges[i].guard)
           /\ \A c \in TA.edges[i].guard : BoundOf(c) < Infinity /\ c.c % Unit = 0
           /\ TA.edges[i].resets \subseteq Clock
    \* in the code infinity is larger than every sum of bounds
    /\ Infinity > 20 * (Duration * MaxPieces + 1)

VARIABLES
    zone,       \* the zone of the current configuration
    points,     \* ghost: the valuations it stands for
    pinned,     \* the dwell time has been forced to the duration
    pieces,     \* pieces entered
    waits,      \* delays made
    kept,       \* what another path left behind: {} or {[zone, points, pieces, waits]}
    merging     \* ghost: the merge just tried, {} or {[done, left, right]}

vars == <<zone, points, pinned, pieces, waits, kept, merging>>

Ticks == 0 .. Duration * MaxPieces
Grid  == {v \in [Var -> Ticks] : v[0] = 0}

-----------------------------------------------------------------------------
(* The initial zone of the engine: every clock is zero and the dwell time  *)
(* is free, then bounded by the duration of the piece.                     *)
InitialZone == Canonize(TightenWithoutClose(Release(ZeroDBM, T), 0, T, Le(0)))

BoundDwell(Z) == Tighten(Z, T, 0, Le(Duration))

Start == BoundDwell(InitialZone)

StartPoints == {v \in Grid : v[T] <= Duration /\ \A x \in Var \ {T} : v[x] = 0}

Delayed(S) == UNION {DelayedPoints(v, Duration) : v \in S}

-----------------------------------------------------------------------------
Init ==
    /\ zone = Start
    /\ points = StartPoints
    /\ pinned = FALSE
    /\ pieces = 1 /\ waits = 0
    /\ kept = {} /\ merging = {}

(* The continuous transition of zoneConstructionWithT. *)
Wait ==
    /\ ~ pinned /\ waits < MaxWaits
    /\ LET next == BoundDwell(Elapse(zone)) IN
       /\ IsSatisfiableWithoutCanonize(next)
       /\ zone' = next
    /\ points' = Delayed(points)
    /\ waits' = waits + 1
    /\ UNCHANGED <<pinned, pieces, kept, merging>>

(* A transition: guard, satisfiability test, resets.  Which state of the   *)
(* automaton the path is in does not matter here.                          *)
Jump(e) ==
    /\ ~ pinned
    /\ LET next == Canonize(Guarded(zone, e.guard)) IN
       /\ IsSatisfiableWithoutCanonize(next)
       /\ zone' = ResetAll(next, e.resets)
    /\ points' = {ResetPoint(v, e.resets) : v \in {w \in points : Meets(w, e.guard)}}
    /\ UNCHANGED <<pinned, pieces, waits, kept, merging>>

(* Mutant: the dwell time is only bounded from above. *)
PinFromAbove ==
    /\ ~ pinned
    /\ zone' = Canonize(TightenWithoutClose(zone, T, 0, Le(Duration)))
    /\ points' = {v \in points : v[T] = Duration}
    /\ pinned' = TRUE
    /\ UNCHANGED <<pieces, waits, kept, merging>>

(* The end of the piece: the dwell time is forced to the duration. *)
Pin ==
    /\ ~ pinned
    /\ LET next == Canonize(TightenWithoutClose(
                     TightenWithoutClose(zone, 0, T, Le(-Duration)), T, 0, Le(Duration)))
       IN /\ IsSatisfiableWithoutCanonize(next)
          /\ zone' = next
    /\ points' = {v \in points : v[T] = Duration}
    /\ pinned' = TRUE
    /\ UNCHANGED <<pieces, waits, kept, merging>>

(* The next piece; a configuration that may still jump has to wait first.  *)
NewPiece(jumpable) ==
    /\ pinned /\ pieces < MaxPieces
    /\ jumpable => waits < MaxWaits
    /\ LET next == Reset(zone, T)
       IN zone' = BoundDwell(IF jumpable THEN Elapse(next) ELSE next)
    /\ LET next == {ResetPoint(v, {T}) : v \in points}
       IN points' = IF jumpable THEN Delayed(next) ELSE next
    /\ pieces' = pieces + 1
    /\ waits' = IF jumpable THEN waits + 1 ELSE waits
    /\ pinned' = FALSE
    /\ merging' = {}
    /\ UNCHANGED kept

(* The path ends here; another one starts. *)
Keep ==
    /\ pinned /\ kept = {}
    /\ kept' = {[zone |-> zone, points |-> points, pieces |-> pieces, waits |-> waits]}
    /\ zone' = Start /\ points' = StartPoints
    /\ pinned' = FALSE /\ pieces' = 1 /\ waits' = 0
    /\ merging' = {}

(* feed offers the zone to one that was kept at the end of the same piece. *)
MergeInto(k) ==
    /\ pinned /\ k \in kept /\ k.pieces = pieces
    /\ merging' = {[done |-> Mergeable(k.zone, zone), left |-> k, right |-> zone]}
    /\ IF Mergeable(k.zone, zone)
       THEN zone' = Merge(k.zone, zone) /\ points' = points \cup k.points
       ELSE UNCHANGED <<zone, points>>
    /\ kept' = {}
    /\ waits' = IF k.waits > waits THEN k.waits ELSE waits
    /\ UNCHANGED <<pinned, pieces>>

Next ==
    \/ Wait
    \/ \E i \in DOMAIN TA.edges : Jump(TA.edges[i])
    \/ Pin
    \/ \E jumpable \in BOOLEAN : NewPiece(jumpable)
    \/ Keep
    \/ \E k \in kept : MergeInto(k)

Spec == Init /\ [][Next]_vars

-----------------------------------------------------------------------------
TypeOK ==
    /\ zone \in Matrix
    /\ pinned => zone[T][0] = Le(Duration) /\ zone[0][T] = Le(-Duration)
    /\ points \subseteq Grid
    /\ pinned \in BOOLEAN
    /\ pieces \in 1 .. MaxPieces /\ waits \in 0 .. MaxWaits

(* Closing through the touched variables alone keeps the canonical form    *)
(* the next operation relies on.                                           *)
StaysCanonical == Canonical(zone)

(* No valuation is lost: what the path reaches is in the zone.             *)
NothingLost == \A v \in points : Sat(v, zone)

(* Nothing is invented: a valuation in whole units of time that is in the  *)
(* zone is reached by the path.                                            *)
Whole == {v \in [Var -> {t \in Ticks : t % Unit = 0}] : v[0] = 0}

NothingInvented == \A v \in Whole : Sat(v, zone) => v \in points

(* The cheap satisfiability test, which presupposes the canonical form, is *)
(* right about the zones the paths produce.                                *)
SatisfiableIffReached == IsSatisfiableWithoutCanonize(zone) <=> points # {}

(* merge negates bounds, and in the code infinity and its negation add up   *)
(* to a NaN: at the end of a piece, where zones are merged, every bound of *)
(* the zone is finite.                                                     *)
FiniteWhenMerged ==
    pinned => \A i, j \in Var : i # j => zone[i][j] < Infinity

InOne(m, v) == Sat(v, m.left.zone) \/ Sat(v, m.right)

(* A successful merge stands for the union of the two zones and nothing    *)
(* more, on the whole grid.                                                *)
MergeExact ==
    \A m \in merging : m.done =>
        \A v \in Grid : Sat(v, Merge(m.left.zone, m.right)) <=> InOne(m, v)

(* A merge is only refused when the hull would have added valuations.      *)
MergeEager ==
    \A m \in merging : ~ m.done =>
        \E v \in Grid : Sat(v, ConvexUnion(m.left.zone, m.right)) /\ ~ InOne(m, v)
=============================================================================

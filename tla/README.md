# A verification project for qtpm

qtpm reads a piecewise constant signal piece by piece and reports, for a timed
signal automaton, every interval of the signal that the automaton matches,
together with a weight in a semiring: how robustly it matches. The modules here
model the program from the texts it reads to the matches it prints, the
configurations check it on small instances with TLC, and eight modules of proofs
establish with TLAPS what holds for every instance.

## 1. The system

| Part | Source | State it keeps | Operations |
|---|---|---|---|
| Zones | `dbm.hh` | a difference bound matrix: a set of clock valuations | close, tighten, reset, release, elapse, canonize, widening, satisfiability, inclusion, convex union, merge |
| Automaton | `timed_automaton.hh`, `constraint.hh` | locations with a label, transitions with a guard and resets | reading a guard as bounds; reading and writing guards, labels and resets as text |
| Zone graph | `zone_graph.hh` | the graph under construction, a table from states to vertices, two work queues, the vertices removed in this round | `zoneConstructionWithT` (engine), `zoneConstruction` (tests only) |
| Distances | `bellman_ford.hh`, `warshall_froid.hh` | distance, residual and work queue; a matrix in place | generalised single-source distance; all-pairs distance (tests only) |
| Weights | `weighted_graph.hh` | none | sum, product, star and constants of four semirings |
| Costs | `robustness.hh` | none | margin of the values seen at a location to its label |
| Engine | `quantitative_timed_pattern_matching.hh` | configurations alive at the end of the last piece, absolute time, the result table | constructor, `feed`, `getResult` |
| Driver | `main.cc` | last time stamp, the value vector, the line buffer | reads the automaton, then a line at a time; feeds it, prints and clears the results |

**How they interact.** The program is sequential. The driver parses the
automaton, then calls `feed` once per line. `feed` carries its configurations
into the piece (a zone operation each), adds the initial ones, and calls the
zone graph construction; that calls the zone operations, the automaton and the
cost function. `feed` then calls Bellman-Ford on the graph, forces the end of
the piece on every zone, merges zones, and records the matches, which the driver
prints and removes.

**What is hard about it.** No threads and no recovery, but:

* chains of zone operations, each correct only on the canonical form the one
  before happens to leave, with strict and weak bounds;
* a graph that is extended, pruned and walked in the same loop, with vertices
  named by addresses, looked up by key, deleted and still named in four other
  places;
* hash maps keyed by pointers: the order of Bellman-Ford's work, and of merging,
  is different in every execution;
* state carried over several calls: a match that began pieces ago;
* a buffer, a time and a value vector that survive from one line to the next;
* loops that end only by a fixpoint, or by a widening.

`PROJECT.json` lists these hazards line by line, each with the properties that
would catch it.

**What makes each part correct.** A zone stands for exactly the valuations its
path reaches. The zone graph has an edge for every useful step and no other, and
no dangling reference. Bellman-Ford returns the least solution, in any order;
Warshall-Floyd the sum over all walks. The engine reports a match exactly when a
run of the automaton has it. The driver feeds the signal that is written, and
prints each piece's matches once, after that piece.

## 2. The modules

Composition, from the bottom:

    Semirings   DBM <- TimedAutomaton <- ZonePath                 (one zone, one path)
                              ^-------- ZoneGraph <- QTPM         (one call of the construction; the engine)
                              ^-------- PlainZoneGraph            (one call of the plain construction)
                              ^-------- TimedMatching             (the reference; an instance in QTPM)
    Matcher     implemented by QTPM, used by Driver
    AutomatonText <- Driver <- Driver_proofs                      (the program around the engine)
    ShortestDistance <- BellmanFord <- BellmanFord_proofs         (refinement)
    WarshallFloyd   Robustness: the cost of ZoneGraph and QTPM

    Induction <- TimedAutomaton_proofs <- ZonePath_proofs
                        ^---------------- ZoneGraph_proofs <- QTPM_proofs
                        ^---------------- PlainZoneGraph_proofs
    Induction <- Driver_proofs

* **DBM** - the zone operations as operators on matrices. A bound `(c, strict or
  weak)` is one integer, `2c` or `2c+1`, so that the order of integers is the
  lexicographic order of the pairs; the largest one is infinity. `Close1` keeps
  the in-place row order of the Eigen loop. Everything below the second ruler
  (`Sat`, `Canonical`) says what a matrix means; `IsCanonized`, which the code has for
  assertions that are commented out, compares the diagonal too (see section 4).
* **TimedAutomaton** - the automaton as a constant, guards as bounds,
  `DiscreteTransitions` for the lambda `listDiscreteTransitions`.
* **ZonePath** - a state machine that drives one zone along one path the way the
  engine chains the operations: `Wait` (elapse, tighten), `Jump` (guard,
  canonize, reset), `Pin` (the end of a piece), `NewPiece`, `Keep` and
  `MergeInto`. The ghost `points` moves single valuations along the same path.
* **ZoneGraph** - `zoneConstructionWithT`. One action per loop iteration:
  `AddInit`, `StartRound`, `Skip`, `ProcessJumpable`, `ProcessContinuous`,
  `AddSuccessor` (one `addEdge` for one transition), `EndRound`, `Return`. A
  vertex is named by an address; `Reuse` says whether the address of a deleted
  vertex may be handed out again. What is bound to a C++ local is a variable with
  that name (`from` and `pending` are the position in the inner loop).
* **PlainZoneGraph** - `zoneConstruction`: `StartRound`, `Expand` (time passes at
  the head of the queue), `TryTransition` (guard, reset, widening, look-up),
  `Return`. Below the ruler it walks the automaton point by point
  (`Reached`) to compare.
* **ShortestDistance**, **BellmanFord** - what a distance computation promises,
  and `bellman_ford`, action by action (`Seed`, `Pop`, `Relax`, `Return`). The
  order in which `init` is walked and edges are relaxed is left open.
* **WarshallFloyd** - `warshall_froid`: `NextVertex`, `Detour`, `Scale`,
  `StarDiagonal`, one assignment of the inner loops at a time, in their order. The
  reference (`Eliminated`) sums walks of bounded length and asks where a cycle pays; it
  does not use the star.
* **Semirings** - the four weight classes over small integers with infinities and
  NaN. `std::min` keeps its first argument unless the second is smaller; so does
  `MinDouble`.
* **Robustness** - the cost functions.
* **TimedMatching** - what matching means without zones: single runs on an
  integer grid of times. It follows the conventions of the code: a delay between
  two jumps is positive, a match ends with the jump into an accepting location, a
  run that has waited and crosses into a piece sees the new value and waits
  again, one that has just jumped has not seen anything yet.
* **QTPM** - the engine. `Feed` (entering configurations, new matches), then
  `Construct` (a step of ZoneGraph, which QTPM extends: its variables are the graph
  and the locals of the call in progress), `Measure` (distances; their least-solution
  definition, which BellmanFord is shown to implement), `Collect` (one vertex of the hash map, merged into its
  group), `Finish` (second merging pass, results, absolute time). Ghosts `runs` and
  `matches` advance the reference semantics along.
* **Matcher** - what the engine promises whoever feeds it: a call moves the clock
  to the end of the piece and adds matches that end in the piece, leaving the
  earlier ones alone but for a better weight. QTPM is shown to implement it
  (`ImplementsMatcher`), and Driver uses it in place of the engine, so neither
  run has to carry the other's state.
* **AutomatonText** - the stream operators of constraints, variables and vectors,
  on texts made of tokens: a character, or a number with all its digits. A reader
  maps a text to what it has read and the text behind it.
* **Driver** - `main.cc`: `ParseBoostTA`, `GetOne` (`fgets_unsafe` and the string
  stream), `Feed`, `PrintResults`, `Exit`. A line is a sequence of fields and the
  buffer takes `Capacity` of them. `Times` and `Garbage` are what uninitialized
  memory may hold, `Found` what the engine may find. Ghosts `fed` and `printed`
  record the calls and the output.

Names follow the source. The operators marked "Mutant" in the modules are faulty
versions of the definition below them; the project checks that every property
notices one.

## 3. The runs

| Run | Instance | Distinct states | Shows |
|---|---|---|---|
| `bellman_ford` | every set of 3 weighted edges between 3 of 4 vertices, self-loops and parallel edges included, 3 initial maps, plus the unit test's graph, its weights shifted to be non-negative; min-plus | 23519 | invariants, refinement of `ShortestDistance`, termination |
| `zone_path` | one clock, 2 pieces of one unit, up to 2 delays, 7 transitions, grid of 4 ticks per unit | 6827 | the zone is exact at every step, merging is exact and eager |
| `zone_graph` | an automaton with 10 locations, 80 calls as `feed` makes them (new, carried, equal-but-for-weight, dead-end states), and the call of the unit test | 2897 | the graph is sound, closed, has no dangling reference; the construction ends |
| `plain_zone_graph` | the automaton of `test/small2.dot` and two with lower bounds, 2 clocks, from 10 lists of initial locations | 218 | every step of the automaton is in the graph, no vertex is invented; the construction ends |
| `qtpm` | min-plus; 4 locations, 1 clock, strict and weak guards, 3 pieces of either value and length 1 or, for the higher one, 2 units | 44798 | reported = matched, with every value counted once per piece, in every merging order; the promise of `Matcher` |
| `qtpm_signals` | Boolean; the pattern of `test/pattern0.dot` (no clock), 3 pieces of 4 kinds, values on the constants of the labels | 27665 | exactly the matches whose values satisfy the labels are reported; cutting a piece in two changes nothing |
| `warshall` | the unit test's graph (4 vertices) and every graph that dropping its edges and adding some of 8 others makes, 8192 in all, a quarter of them with a negative cycle; min-plus | 475136 | after every vertex the matrix is the sum over the walks through the vertices done; where a negative cycle leaves NaN, and that no other entry suffers |
| `driver` | signals of up to 3 lines with blank, overlong and unreadable ones, in both time modes, quiet and Boolean or not, ended by a newline or not; guards, labels and resets intact and with one token lost, doubled or replaced | 308446 | what is fed is what is written; exactly the matches of a piece are printed after it; no text is read as another guard |

`zone_graph_reuse`, `qtpm_late`, `warshall_boolean` and `driver_eof` expect a
violation; they are the findings of section 6.

**Why the bounds are enough.** *Dimensions*: every operation treats a clock in
relation to zero, to the time since the start, and to the dwell time, so one
ordinary clock beside these exercises every entry of the matrix; the clockless
run has one less, and the plain graph has two clocks, as it has neither of the
two others. *Grid*: a strict bound between multiples of a unit needs one tick
per variable and per delay to be witnessed; `PathAssumption` states it
(`Unit > Dim`, `Unit > MaxWaits + 1`, constants and durations on whole units). On the engine, soundness is asked at whole
units and completeness at every tick. In the plain graph clocks are compared up
to one tick beyond the largest constant, where no guard tells values apart any
more. *Pieces*: with two (`zone_path`), a match starts in one and ends in the next, with
and without having waited at the boundary; three add one that only passes through.
*Costs*: three locations whose labels agree or disagree with either value give
positive, negative and zero margins, all far from `Inf`, where sums would be cut off. *Semirings*: the engine only adds, multiplies
and compares with zero. Min-plus tells a value listed twice from one listed once,
which max-min, the default, cannot; Boolean weights become zero before a match is
complete, which the numbers here never do, and merge most often. The construction
(`zone_graph`) and `qtpm_late` are run with max-min. *Graphs*: four vertices are enough for a detour
around an eliminated vertex whose ends are both eliminated before, between and
after. *Lines*: a buffer of four fields is fit exactly, exceeded by one field and
exceeded by two; three lines put an odd one first, last and between; what the
engine finds is nothing, one match, or one match that reaches the end of the
piece beside one of another weight. *Counters* (`MaxPieces`, `MaxWaits`) stop the
environment, never the code.

**Deadlock** is checked in `zone_graph`, `plain_zone_graph`, the
runs of the engine, `driver` and the findings on these modules: the code may stop only
where a step `Done`, `Over` or `Exited` says it has returned. `bellman_ford` and
`warshall` end by returning, and a path of `zone_path` ends when its bounds are
used up, so these switch the check off.

**Fairness.** The code is one thread that runs until it returns: weak fairness of
`Next`. `BellmanFord` writes `WF_vars(Next)`. In `ZoneGraph` and `PlainZoneGraph`
evaluating ENABLED on zone graphs is too slow for TLC, so `FairSpec` says "the
call returns, or steps that change something are taken for ever". Every action
before the return changes a variable and no state before it is a deadlock (the
same run checks that), so a step is always enabled and this is the same formula.
The engine and the driver have no liveness property: the loops of `feed` are those
of the construction and of Bellman-Ford, and the driver's ends with its input.

**Properties worth a second look.**

* `NoLostResidual`, `SettledUpToOwed`, `NeverOvershoots` are the argument for the
  algorithm: whatever is still owed is in the queue, every edge is settled up to
  what is owed, and nothing is claimed that a solution does not grant.
* `StaysCanonical` justifies every call of `isSatisfiableWithoutCanonize`;
  `FiniteWhenMerged` keeps merge from adding an infinity to its negation.
* `CallsFit` is the other side of that: the closure and the keys of the table are right
  only on matrices whose sums can be formed, and the engine hands the graph zones that
  have been through every piece before. It is stated with the time elapsed, so it
  fails as soon as a zone is handed over too wide, open, or entered out of time.
* `TableFaithful` tolerates one thing on purpose: two initial configurations equal
  but for the weight share a key, and the first of them is not in the table. The
  signature of `zoneConstructionWithT` allows such a call and the code handles it
  (`Skip`, and a removal that deletes the other one); `feed` produces none in the
  runs here.
* `JumpableIffValuations` is the note at `zone_graph.hh:20`.
* `StepsSimulated` and `VerticesReached` bound the widening from both sides: the
  first fails when a zone is cut off too early or not closed again, the second
  when it is widened past what the automaton can tell apart.
* `WalksSoFar` is the loop invariant of Kleene's elimination, and what makes the
  update in place harmless.
* `MatchSound` and `MatchComplete` compare the result table with the runs of the
  automaton, weights and all six bounds; `MatchComplete` quotes
  `quantitative_timed_pattern_matching.hh:96`. That `qtpm` and `qtpm_signals` pass
  says that within the patterns used (in which every location reached has an
  enabled transition in the piece) the engine is right; `qtpm_late` is where it is
  not.
* `SplitHarmless` is the note at `quantitative_timed_pattern_matching.hh:102`. It is
  checked over the Boolean semiring, whose product is idempotent. Over min-plus it
  does not hold: a value is added once for each piece that lists it.
* `BooleanSemantics` compares the engine, which only takes signs of margins and drops
  what has become false, with runs that ask `Constraint::satisfy`. It is checked for
  strict labels; for a weak one met with equality it does not hold, because the
  margin, zero, is the same as for a strict one and `BooleanSemiring(double)` is true
  for positive numbers only.
* `ParsedAsWritten` goes both ways: a text that is read at all is the text written
  for what was read, so no damaged guard passes as another one. It is stated for
  variables that fit a byte (`Fits`).
* `FedAsWritten` and `PrintedInPiece` are stated for the signal as far as its lines
  are plain (a time, a value, no junk, shorter than the buffer); the lines after an
  odd one are fed too, but there is nothing written that says what they should be.

## 4. What is proved

`tlapm` checks the proof modules to the last leaf. Each extends the module it is
about; the assumptions are those of that module, which TLC evaluates on every run
of it, and what a theorem states beside them.

**Induction**: induction and recursion in the form the provers here can take. The
library's induction theorems have a predicate as a parameter, which no backend
instantiates; these have the *set* of numbers with the property instead
(`InductionUpTo`, `LeastOfFinite`), and rest on the library's fact that strict
inclusion of finite sets is well founded. `RecursionExists` says that a function
defined from its value at the predecessor exists, so that a definition like that of
`Canonize` or `Stamp`, which TLA+ reads as a CHOOSE, can be unfolded. `SubsetInduction`
and `SubsetRecursion` do the same for finite sets and folds over them.

**TimedAutomaton_proofs**, of the zones: for every number of clocks and every matrix, where a valuation is
any integer vector (the unit of time is arbitrary, so rational times are covered).
Two layers.

*What a zone stands for.* `Close1Exact` shows that the in-place row order of `close1`
is harmless: the matrix that comes out has exactly the same valuations. `CanonizeExact`
follows by induction over the rounds. `TightenExact`, `ElapseSound`, `ResetSound` and
`SatisfiableSound` follow the operations; `MergeIsUnion` shows that a successful merge
is exactly the union, whatever the zones (its hypothesis says that no bound is so
negative that its complement reaches infinity).

*The canonical form.* The code canonizes seldom: after a new bound it closes through
the two variables the bound is about, and the satisfiability test, inclusion and the
keys of the table are right only on closed matrices. `CanonizeCanonical` is the
correctness of the all-pairs closure, `TightenCanonical` that two rounds of it are
enough after a tightening, `ResetCanonical` that a reset needs one, and that a zone
that is not empty stays so; `TightenSatisfiable` says exactly when a new bound empties a
zone, and `TightenTwice` that adding a bound twice is adding it once, the diagonal
included. Three of them need that the sums that are formed stay below infinity
(`AllWithin`): doubles have no such limit, the integers that code bounds do.
The diagonal is a subject of its own: closing never sets it to zero, and an elapse or a
release leaves an infinity there, so "canonical" is the triangle inequality off the
diagonal (`Canonical`), and `Tighten` may lower a diagonal entry below zero only in an
empty zone. `CanonicalIsCanonized` relates this to `isCanonized` of the code: of a zone
that the cheap test finds satisfiable it says that `canonize` changes nothing off the
diagonal, and with zeros on the diagonal the two are the same, unless `canonize` finds
the zone empty after all.

*Points.* The layers meet in `GriddedHasPoint`: a canonical zone that the cheap test
finds satisfiable has a valuation. The point gives each variable its largest value, and
where strict bounds are tight around each other it steps back by ticks: `Rank` counts the
variables that stand behind one through such bounds, so there must be more ticks to the unit
than variables. `RefusedRightly` follows: when `merge` refuses, a bound of one zone
and one of the other can be broken together inside the hull, and the hull cut down to where
both are broken still has a point.

Of guards and resets: `GuardedExact` (a guard, read through the fallthrough of its
switch, cuts a zone down to exactly the valuations that meet it) and `ResetAllSound`.

*Dense time.* So far a valuation is followed forwards: no step loses one. That a step adds
none asks for a valuation before every valuation after, and between two strict bounds
a whole number need not be left. Here a valuation counts m-ths of the unit (`HoldsAt`,
`SatAt`), for any m, and the valuation before may take a tick half as long. In a zone in
canonical form, values for some variables that keep their bounds leave a value for one more
(`Completed`): the largest of its lower bounds, half a tick further if that is strict. So
`ElapseExact` (each valuation after a delay has one before), `ResetExact`,
`ResetAllExact` (likewise for resets) and `SatisfiableHasPoint` (a zone the cheap test passes
has a rational valuation, found clock by clock: `Extended`). `MergeAddsNone` carries
`MergeIsUnion` over to rational time: the cut of the union that `merge` looks for leaves no
gap between whole numbers either, because it is made between two complementary bounds.

**ZonePath_proofs**: of every path of delays, jumps, ends of pieces and merges of zones.

1. `PathInv`: the ghost valuations are in the zone, for the current path, the ones
   set aside and the two that are merged; a pinned zone has its dwell time bounded
   from both sides; no clock runs further than the pieces are long. The invariants
   `NothingLost` and `FiniteWhenMerged` need the last two for the merged zones: a
   bound that is infinite has no complement.
2. `CanonInv`: every zone is canonical, satisfiable, and within the bound that the
   pieces so far give. The bound grows by one piece with each `NewPiece`;
   `PathAssumption` keeps twenty times the length of the signal below `Infinity`,
   which is what lets the sums of `TightenCanonical` be formed.

3. `SteadyInv`: constants and durations are whole units, so every bound of every zone
   stays on whole units (`Steady`); and at the end of a piece no diagonal entry is
   above zero (`Levelled`). Then `RefusedRightly` applies to every merge that is
   refused.

They give `PathTypeOK`, `PathNothingLost`, `PathFiniteWhenMerged`, `PathMergeExact`,
`PathMergeEager`, `PathStaysCanonical` and `PathNeverEmpty`: every test of
`isSatisfiableWithoutCanonize` in the code is made on a matrix on which it is right.

**ZoneGraph_proofs**: of `zoneConstructionWithT`, for every automaton and every call.

1. `GraphInv`, `QueueInv` hold whether or not an address is used a second time. The
   graph, the initial states, the table, the queues and the addresses name live
   vertices only, except the queues in a round, which may name what the round has
   removed. They give `ZoneTypeOK`, `ZoneReferencesLive`, `ZoneTableFaithful` and
   `ZoneJumpableIffValuations`.
2. `ZoneOnlyRemovedForgotten` is the property `zone_graph_reuse` refutes, under the
   hypothesis that no address is reused: the finding is about recycling and nothing
   else.
3. `StepInv(limit)` adds that every zone in the graph is canonical, satisfiable and
   bounded by the piece (`InPiece`), and that every edge is a step of the automaton.
   The hard case is a jump: the code lists it for the zone of the waiting state, while
   the vertex made of that state has been bounded again (`TightenTwice`).
   It gives `ZoneEdgesAreSteps`.
4. `ClosedInv` says which steps may still be missing: those of vertices in the queues
   and the ones in `pending`. At the return there are none: `ZoneClosedOnReturn`, which
   again needs that no address is reused. A vertex is found again by its key, and a key
   leaves out the diagonal entry of the zero clock; `SameKeyAlike` and its followers
   show that zones that agree but there have the same successors.

5. `PointsReached`: the converse, that the graph invents nothing. `OnRuns` is the
   least set of configurations with a rational valuation that has those of the zones handed
   over, as far as they are within the piece, and goes on by delays and by jumps that meet
   their guards. Every valuation of every vertex is in it. A vertex is made of another
   one whose valuations are, so what is needed is a step back: `DelayBack` and `JumpBack`,
   from the dense-time theorems. With `SatisfiableHasPoint` it gives `ZonePointsReached`: every
   valuation of every vertex is reached by a run, and there is one. Reused addresses do not
   matter to it.

3, 4 and 5 are stated for `CallsWithin(limit)`: every zone of the call is, once its
dwell time is bounded, canonical, satisfiable and within a bound of which eight times is
below infinity. `FeedCallsWithin` has TLC evaluate it for the 80 calls of `zone_graph`;
that every call `feed` makes is such a call is `EngineCallsFit` of QTPM_proofs.

**PlainZoneGraph_proofs**: of `zoneConstruction`, for every automaton, number of clocks
and list of initial locations. `PlainStepsSimulated` is the claim that the widening and
the table of zones lose nothing, by `SimInv`:

1. `GraphInv`: what is stored refers to what exists, and a key of the table leads to a
   vertex with that key (`PlainTypeOK`). A location listed twice has two vertices and one
   key, so this is not the other way round too.
2. `ExpandedInv`: a vertex that is in neither queue is simulated for every transition
   that leaves its location, and the one at the head of the queue for every transition
   that is no longer pending; so that on return, with empty queues, all are.

A transition that is tried becomes simulated (`TriedSimulated`) because no operation of
the chain loses a valuation: `ElapseSound`, `GuardExact` (by induction over subsets, as
the order in which the constraints are added is left open), `SatisfiableSound`,
`ResetAllSound`, `AbstractizeWidens`, `CanonizeExact`. What remains is the look-up.
A key leaves out the entry (0, 0), so a zone with valuations might share the key of an
empty one. It does not: of every zone that is stored, the entry (0, 0) is negative only
when another pair of entries is contradictory too (`Rooted`), and then its key tells
(`SameKeySat`). How far zones are widened plays no role here; that they are not widened
too far is `VerticesReached`, which is model-checked.

**Driver_proofs**: for every automaton, signal, mode, buffer size, semiring and engine
(`Found` is arbitrary), under the types that `DriverAssumption` states.

`FedAsWrittenHolds`: `FedAsWritten` speaks of the calls already made only, so
it is not inductive; `FedInv` adds what the loop carries from one line to the next:

1. `RestIsSuffix`: what is left to read is the rest of the signal behind the lines
   taken so far;
2. `LineInHand`: between `getOne` and `feed`, `time` and `valuation` hold the line
   taken last and, before `getOne`, the vector is empty (`LoopInv`): this is where
   a vector that is not cleared would show;
3. `LastTimeIsStamp`: in absolute mode `last_time` is the stamp of the line fed
   last, and zero before the first;
4. `FedSoFar`, `NotTooMany`, `NoneLeftOut`: the claim itself, and that no line is
   taken twice or missed.

Each is conditional on the signal being plain up to that line, and a plain signal is
plain up to every earlier line (`PlainBefore`). `PlainText` is the only place that
looks inside a line.

`PrintedInPieceHolds` and `DriverTypeOK` rest on `PrintInv`: the engine's clock is the
stamp of the last line (`ClockIsStamp`), which in absolute mode is `last_time`, and
otherwise the sum of the durations (`StampStep`); what a call finds ends between two
stamps (`FoundInPiece`); and the engine holds what the last call has found until it is
printed, and nothing otherwise (`ResultOfPiece`). `ZeroIsNeutral` is the only thing
assumed of the weights, and only for what is printed: the results are cleared to the
empty map, to which the engine adds.

**QTPM_proofs**: of the engine, for every automaton, every signal of any number of pieces,
every order of merging and every weight class with `WeightLaws`.
`EngineImplementsMatcher` is the refinement that lets the driver forget the engine; it
needs that a match which is accepted ends in the piece, and this hangs on two entries of
its zone, the bounds of the dwell time, through all that feed does to a zone.

1. `PieceInv`, of the graph: the upper bound of the dwell time of every vertex is at most
   the duration, and its lower bound is strict when the vertex may jump or has just
   matched (`Entering`, `InTime`): time has passed in it. `PieceNext` follows both through
   each step of the construction. A guard, a canonization or a tightening only lowers an
   entry, and a reset of clocks does not raise these two (`JumpShorter`); it is `elapse`
   that makes the lower bound strict. So a match ends after the beginning of the piece
   and not after its end, which is `EndsIn` of `Matcher` (`ReportedIs`).
2. `ConfEnters`, `InitialEnters`: a configuration enters a piece in the same way, having
   elapsed at once when it was waiting.
3. `EngineInv`: between two calls nothing of a graph is left, and in a call the invariant
   of the construction and `PieceInv` hold (`FeedKeeps`, `ConstructKeeps`); what is
   collected is not at a match, so that no match begins in the middle of itself
   (`CollectKeeps`), and the lists that the two passes of merging make hold zones: they
   are in every set of zones that is closed under merge (`MergedIntoStays`, `SweptClean`).
4. `DistancesAreWeights`, `SumCovers`: the distances are weights, and a sum over a finite
   set, taken in whatever order, covers what it started from. Hence a result is new, or
   at most improved (`NewResultIs`, `FinishRefines`); every other step leaves the clock
   and the table alone.

5. `FitInv(longest)`: how wide a zone can be between two pieces. A piece adds at
   most two of its durations, as bounds (`RoomIs`), so that every zone is `Settled` in
   `Room`, four times the time elapsed and two per piece: canonical, satisfiable, and
   bounded by the room. A zone that enters a piece is `Fresh` (`InitialFresh`,
   `EnteredFresh`), what leaves it is again settled (`AtEndSettles`), and so is what
   merging makes of it, as merge takes the larger of two bounds (`MergeSettles`,
   `MeasureFits`). Hence `EngineCallsFit`: every call of the construction is one of the
   calls ZoneGraph_proofs is about. With it `EngineEdgesAreSteps` and, where no address is
   used twice, `EngineClosedOnReturn` hold in the engine and not only of calls made up.
6. `SweptClean`: `EngineMergedUp`, that no two of the zones carried on could still be
   merged. The second pass of merging walks the list, lets each zone absorb what it can,
   and starts over until a round changes nothing; a round that changes something makes
   the list shorter, and the invariant of a round is that what has been walked over
   cannot be merged. It rests on `MergeableSymmetric` of TimedAutomaton_proofs: the
   code asks only whether the later zone merges into the earlier one, and the order is
   that of a hash map. That in turn holds because the hull of two zones does not depend on
   the order, and what is left of it without the one lies in the other exactly when what
   is left without the other lies in the one (`TightenSatisfiable`).
7. `EnginePointsReached`: the graph that the engine measures invents nothing (`PointsReached`),
   as the calls fit (5) and no later step of `feed` touches the graph.
8. `EngineReportsRuns`: the results are sound, weights included, for signals of any number
   of pieces and for all rational times. The runs are followed point by point (`Earned`): a
   point is a location, the values observed since the last jump, and a valuation at some
   number of ticks per unit. A run begins at an initial location with every clock but `T` at
   0, delays and jumps within a piece as the automaton does (`Steps`), and is handed from
   the end of a piece to the beginning of the next (`GoesOn`), where the values go on being
   observed. What it earns starts at `One`, is multiplied by the cost of each step, and is
   added up with what other runs to the same point earn; the product is not assumed to
   distribute, so the sums are taken where the runs meet. `Worths` are the sums of what the
   runs earn whose match begins at one time and ends at another, in absolute time.
   `ReportsRuns` says that what is recorded for a match within the bounds of a result is one
   of these sums. The inductive invariant is `WorthInv`, with 3 and 5:
   - every configuration between two pieces is worth its weight, at every one of its
     valuations at the end of the piece (`EndWorth`), and so is what is being merged: a
     merge loses nothing and adds nothing (`EndedMerging`, from `MergeAddsNone`);
   - the configurations of a call are worth theirs in the new piece (`EnteredWorth`), and
     the construction adds no valuation to an initial vertex (`GivenWorth`);
   - a distance is what the valuations of its vertex are worth: relaxing an edge adds the
     worth of a point before times the cost of the step (`EdgeWorth`), and the least
     fixpoint consists of such relaxations only (`DistancesWorth`);
   - the six bounds of a result, shifted to absolute time, hold for no pair of times that
     the zone of the match does not have (`AcceptedWorth`).
9. `EngineMatchesHaveRuns`: no match is invented. Where no run comes to, only `Zero` is
   earned (`EarnedOnRuns`), provided a product with `Zero` is `Zero`; TLC evaluates this for
   the weights of the runs (`ZeroIsLost`).

5 to 9 are stated for `Timely(longest)`: a piece lasts at least one tick and at most
`longest`, and the bounds that the pieces can add up to, with the largest constant of a
guard, stay below infinity. The code has the first from its input being stamps that
increase, the others from doubles having no such limit; TLC evaluates
`ShortPieces` for the pieces of the runs.

`EngineTypes` gives `EngineTypeOK` and, through `EngineInv`, that the construction is only
called in the states that ZoneGraph_proofs is about. `WeightLaws` is a hypothesis and no
assumption of the module, as the runs use weights that are cut off at `Inf`: the sum is
commutative, associative and idempotent with `Zero` neutral, and products and the costs
of values of the signal are weights. That is so for Booleans, for max-min over all
doubles but NaN, and for min-plus and max-plus over numbers that are added exactly,
with the infinity that is their zero and not the other, as their sum is NaN. Neither minimum nor maximum commutes
with NaN on one side. MCQTPM has TLC evaluate the laws of the sum for all weights of each
run, and those of products and costs for the ones that stay below `Inf`
(`SumsAreLawful`, `ExactProducts`, `CostsOfAFew`).

**BellmanFord_proofs**: for every set of vertices, every set of input graphs and
every weight class that satisfies `SemiringLaws` (idempotent commutative sum with
a neutral element that annihilates from the left, product that distributes from
the right). Associativity of the product is not needed. The laws are
assumptions on the constants; TLC evaluates them for min-plus on every run.
*Argument.* The inductive invariant is the conjunction of

1. `TypeOK`;
2. `NoLostResidual`, inductive with the types alone: a residual is only raised
   together with a push, and cleared together with the pop;
3. `SeedingOwesAll`: while `init` is being walked nothing is in flight and every
   residual is the distance, so that everything is still owed;
4. `SettledUpToOwed`, which needs 3 for a seed that overwrites a distance: a pop
   moves the residual to `currentR` for exactly the edges in `todo`, and a relaxed
   edge leaves `todo` when its target covers what it carried;
5. `SeedsCovered`: what `init` gave is covered, once a vertex was seeded;
6. `QuietOnReturn`: after the return no seed, edge or queue entry is left.

On return the queue is empty by 6, so by 2 no residual is left, so by 4 no edge can
improve a distance, and by 5 neither can `init`: `FixpointOnReturn`. `NeverOvershoots`
is an invariant of its own, by the monotonicity of sum and product. The two together
say that what is returned is the least solution, which is `Refinement`:
`Spec => SD!Spec`.

**Only model-checked.**

* Termination of the constructions and of Bellman-Ford: liveness is out of the prover's
  reach.
* On paths, that a zone has *no other* valuation than those reached (`NothingInvented`,
  `SatisfiableIffReached`): on the grid this is about density, that a strict bound
  leaves room for a tick. `GriddedHasPoint` shows it of one zone; a path asks for the
  times of all its waits at once, and its history is not part of the state.
  (Of the graph of one piece, in rational time, it is proved: `ZonePointsReached`.)
* The engine: that no match is missed (`MatchComplete`), `SplitHarmless` and
  `BooleanSemantics`. The graph of each piece is proved to have every step; what is left is
  that the sum covers all runs through all pieces. `MatchSound` is checked in
  whole units and against the runs that the model keeps for it; what it says is proved in
  rational time, and without those runs, as `EngineReportsRuns` and `EngineMatchesHaveRuns`.
* The plain zone graph: that its vertices are reached (`VerticesReached`). A widened zone
  does have valuations that are not, and the claim is about the location only.
* The all-pairs distance.
* The readers (`ParsedAsWritten`): they recurse over the text.

## 5. What is not modelled

*Text.* The Graphviz grammar (`boost::read_graphviz`): the model starts from the
attribute texts of locations and transitions. Option parsing, the help text, the
failure to open a file, the layout of the output. A line that overflows the buffer is
cut between two fields in the model; the code may cut a number in two as well.

*Undefined or unbounded by design.* A valuation with fewer values than a label
names is read out of bounds by the cost functions. Validity of iterators of
`boost::unordered_map` across a rehash (`zone_graph.hh:333`) is below the model. A
clock that is only reset is not counted (`timed_automaton.hh:292`). Negative cycles
in Bellman-Ford, which are an endless loop.
`zoneConstruction` on an automaton with a clock that is never reset in a loop with a
lower bound, which it widens for ever; its negative constants (`Driver` shows what
becomes of them).

*Numbers.* Rounding of doubles: constants are integers in some unit of time. A sum
of infinities with opposite signs in a zone (NaN in the code) is not represented;
`FiniteWhenMerged` shows that the one place that could form it does not. `M` is
constant in the engine and left out there.

*Code nothing calls.* `cutVars`, `makeUnsat`, `operator&=` and `operator>` of DBM,
`widen` and the order of constraints, `ConstraintMaker` (a notation for tests), the
Graphviz writers. Max-plus is translated and run by nothing.

*Allocation.* In `zone_graph` and the engine runs an address is used once;
`zone_graph_reuse` shows what changes when it is not.

## 6. Findings

1. `zone_graph_reuse` - the addresses in `removedVertices` outlive the vertices;
   a new vertex at such an address is dropped from the queue (`zone_graph.hh:389`).
2. `qtpm_late` - "is there a transition in the future?" is answered by listing the
   transitions of `nowZone` after elapsing a copy (`zone_graph.hh:288` and `346`), so
   a state is removed although waiting longer would enable one: a match whose guard
   holds only in a later piece than the one its location was entered in is not
   reported.
3. `warshall_boolean` - `BooleanSemiring::star` is false at false where the empty
   walk has weight true (`weighted_graph.hh:188`), so `warshall_froid` loses every
   walk through a vertex without a cycle.
4. `driver_eof` - when the file ends without a newline, `fgets_unsafe` returns
   without writing the terminating zero (`main.cc:32`), and `getOne` parses whatever
   the uninitialized buffer holds behind the last line.

Four slips without a run of their own: the option `--ignore-zero` reaches the constructor, which
drops it, and weights that are zero are always ignored; the comment at `bellman_ford.hh:8` gives vertices outside
`init` the weight one, the code gives them zero, which is right; and the map that
`parseBoostTA` calls `isMatchMap` is the one of `isInit`, which is also right. The
fourth: `warshall_froid` multiplies a row by the star of its vertex also where there is no
walk yet (`warshall_froid.hh:52`). When a cycle through the vertex is negative this is
minus infinity plus infinity, and the NaN stays when a later vertex provides a walk.
`TypeOK` and `WalksSoFar` of `warshall` confine it to the rows and columns of such vertices.

## 7. Plan

Done: all components but the Graphviz writers; theorems about everything but the
all-pairs distance. What is left, in this order:

1. The types and the loop invariant of WarshallFloyd.
2. Bellman-Ford over Boolean and max-plus, and the engine over max-plus.
3. Negative cycles and NaN in the two distance algorithms.

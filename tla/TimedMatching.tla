--------------------------- MODULE TimedMatching ---------------------------
(***************************************************************************)
(* What quantitative timed pattern matching means, without zones: the runs *)
(* of the automaton over a piecewise constant signal, one by one, on a     *)
(* grid of integer times.                                                  *)
(*                                                                         *)
(* A run is [q, moved, seen, v, w]: its location, whether time has passed  *)
(* since it got there, the values of the signal it has seen there, its     *)
(* clocks, and the product of the costs of its jumps.  A match is a run    *)
(* that has just jumped to an accepting location.                          *)
(***************************************************************************)
EXTENDS TimedAutomaton, SequencesExt

CONSTANTS One, Times(_, _), Cost(_, _)

Started(duration) ==
    {[q |-> TA.init[i], moved |-> FALSE, seen |-> <<>>, w |-> One,
      v |-> [x \in Var |-> IF x = T THEN t ELSE 0]] :
        i \in DOMAIN TA.init, t \in 0 .. duration}

(* Time passes; a run that has not moved yet sees the current value.       *)
Waited(runs, valuation, duration) ==
    UNION {{[r EXCEPT !.moved = TRUE, !.v = v,
                      !.seen = IF r.moved THEN @ ELSE Append(@, valuation)] :
               v \in DelayedPoints(r.v, duration)} : r \in runs}

Fired(runs) ==
    UNION {{[q |-> r.e.dst, moved |-> FALSE, seen |-> <<>>,
             v |-> ResetPoint(r.run.v, r.e.resets),
             w |-> Times(r.run.w, Cost(TA.label[r.e.src], r.run.seen))] :
               r \in {[run |-> run, e |-> TA.edges[i]] : i \in {j \in DOMAIN TA.edges :
                        /\ TA.edges[j].src = run.q
                        /\ Meets(run.v, TA.edges[j].guard)}}} : run \in runs}

(* Where the runs that were alive at the end of the previous piece are at  *)
(* any time of this one: in the n-th layer they have made n jumps.  A run  *)
(* that had moved when the piece began sees the new value and has to wait. *)
Within(runs, valuation, duration) ==
    LET entered == {[r EXCEPT !.v = ResetPoint(@, {T})] : r \in runs}
        still   == {r \in entered : ~ r.moved} \cup Started(duration)
        waiting == {[r EXCEPT !.seen = Append(@, valuation)] :
                       r \in {s \in entered : s.moved}}
        layer[n \in 0 .. duration] ==
            IF n = 0
            THEN LET first == still \cup Waited(waiting \cup still, valuation, duration)
                 IN  [last |-> first, all |-> first]
            ELSE LET before == layer[n - 1]
                     jumped == Fired({r \in before.last : r.moved})
                     now    == jumped \cup Waited(jumped, valuation, duration)
                 IN  [last |-> now, all |-> before.all \cup now]
    IN  layer[duration].all

(* The runs that reach the end of the piece and are still looking for      *)
(* their match, and the matches in the piece that begins at start.         *)
Alive(within, duration) ==
    {r \in within : r.v[T] = duration /\ ~ IsMatch(r.q)}

Matches(within, start) ==
    {[begin |-> start + r.v[T] - r.v[D], end |-> start + r.v[T], w |-> r.w] :
        r \in {s \in within : IsMatch(s.q) /\ ~ s.moved}}

(* All the matches of a signal. *)
MatchesOf(signal) ==
    LET after(acc, piece) ==
            LET within == Within(acc.runs, piece.valuation, piece.duration)
            IN  [runs    |-> Alive(within, piece.duration),
                 matches |-> acc.matches \cup Matches(within, acc.time),
                 time    |-> acc.time + piece.duration]
    IN  FoldLeft(after, [runs |-> {}, matches |-> {}, time |-> 0], signal).matches
=============================================================================

--------------------------- MODULE TimedAutomaton ---------------------------
(***************************************************************************)
(* The timed signal automaton of timed_automaton.hh and constraint.hh, and *)
(* what its transitions do to a zone.                                      *)
(*                                                                         *)
(* Clock x of the automaton is variable x of the matrix, 1 .. Dim - 2; the *)
(* last two variables are the time since the start of the match and the    *)
(* dwell time in the current piece of the signal.                          *)
(***************************************************************************)
EXTENDS DBM, Sequences, FiniteSetsExt

CONSTANT TA   \* [edges : Seq of [src, dst, guard, resets], match : set, init : Seq, label : function]

T == Dim        \* the dwell time
D == Dim - 1    \* the time since the match started

Orders == {"lt", "le", "gt", "ge"}

(* The entry of the matrix a constraint bounds, and the bound.  In the     *)
(* code the case lt falls through to le and gt to ge, which adds a weaker  *)
(* bound to the same entry and so changes nothing.                         *)
Entry(c) == IF c.odr \in {"lt", "le"} THEN <<c.x, 0>> ELSE <<0, c.x>>

BoundOf(c) ==
    CASE c.odr = "lt" -> Lt(c.c)
      [] c.odr = "le" -> Le(c.c)
      [] c.odr = "gt" -> Lt(-c.c)
      [] c.odr = "ge" -> Le(-c.c)

(* Constraint::satisfy *)
Satisfy(c, d) ==
    CASE c.odr = "lt" -> d < c.c
      [] c.odr = "le" -> d <= c.c
      [] c.odr = "gt" -> d > c.c
      [] c.odr = "ge" -> d >= c.c

(* Every constraint of the guard is added, without closing. *)
Guarded(Z, guard) ==
    Evaluated([i \in Var |-> [j \in Var |->
        Min({Z[i][j]} \cup {BoundOf(c) : c \in {d \in guard : Entry(d) = <<i, j>>}})]])

ResetAll(Z, xs) ==
    LET after[x \in 0 .. Dim] ==
            IF x = 0 THEN Z
            ELSE IF x \in xs THEN Reset(after[x - 1], x) ELSE after[x - 1]
    IN  after[Dim]

Enabled(e, q, Z) == e.src = q /\ IsSatisfiable(Guarded(Z, e.guard))

(* The elements of a sequence that are in S.  As a recursive function it   *)
(* can be reasoned about, which SelectSeq cannot.                          *)
Selected(s, S) ==
    LET upTo[n \in 0 .. Len(s)] ==
            IF n = 0 THEN <<>>
            ELSE IF s[n] \in S THEN Append(upTo[n - 1], s[n]) ELSE upTo[n - 1]
    IN  upTo[Len(s)]

(* listDiscreteTransitions: the successors of a zone, in the order of the  *)
(* out-edges.                                                              *)
DiscreteTransitions(q, Z) ==
    LET fired == Selected(TA.edges, {TA.edges[i] : i \in {j \in DOMAIN TA.edges :
                                                             Enabled(TA.edges[j], q, Z)}})
    IN  [i \in DOMAIN fired |->
            [vertex |-> fired[i].dst,
             zone   |-> ResetAll(Canonize(Guarded(Z, fired[i].guard)), fired[i].resets)]]

IsMatch(q) == q \in TA.match

-----------------------------------------------------------------------------
(* The same steps on one valuation, for the properties.                    *)

Meets(v, guard) == \A c \in guard : Satisfy(c, v[c.x])

ResetPoint(v, xs) == [x \in Var |-> IF x \in xs THEN 0 ELSE v[x]]

(* The valuations a delay leads to while the dwell time is within duration.*)
DelayedPoints(v, duration) ==
    {[x \in Var |-> IF x = 0 THEN 0 ELSE v[x] + d] : d \in 1 .. duration - v[T]}
=============================================================================

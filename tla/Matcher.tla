------------------------------- MODULE Matcher -------------------------------
(***************************************************************************)
(* What the engine promises the program that feeds it, and all that the    *)
(* driver relies on: every call of feed moves the clock to the end of the  *)
(* piece and adds matches that end in the piece, without touching the      *)
(* matches found before except to improve their weight.                    *)
(*                                                                         *)
(* A match is a tuple of six bounds, begin from below and from above, end  *)
(* and length likewise, in the coding of DBM.tla.                          *)
(***************************************************************************)
EXTENDS Integers

CONSTANTS Zero, Plus(_, _)   \* the sum of the weights, and its neutral element

VARIABLES
    absTime,    \* the end of the pieces fed so far
    result      \* the matches found: bounds -> weight

(* The end of the match is after a and not after b.  A delay before a jump *)
(* is positive, so no match ends with the very beginning of a piece.       *)
EndsIn(m, a, b) == m[3] <= -2 * a /\ m[4] <= 2 * b + 1

Covers(a, b) == Plus(a, b) = a

WeightIn(f, m) == IF m \in DOMAIN f THEN f[m] ELSE Zero

Init == absTime = 0 /\ result = <<>>

(* A call of feed for a piece of this duration that finds these matches. *)
Feed(duration, found) ==
    /\ \A m \in DOMAIN found : EndsIn(m, absTime, absTime + duration)
    /\ absTime' = absTime + duration
    /\ result' = [m \in DOMAIN result \cup DOMAIN found |->
                      Plus(WeightIn(result, m), WeightIn(found, m))]

(* The matches that are new or better after a step. *)
Improved ==
    [m \in {n \in DOMAIN result' : n \notin DOMAIN result \/ result[n] # result'[n]} |->
        result'[m]]

Next == Feed(absTime' - absTime, Improved)

Spec == Init /\ [][Next]_<<absTime, result>>
=============================================================================

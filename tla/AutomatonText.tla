---------------------------- MODULE AutomatonText ----------------------------
(***************************************************************************)
(* How timed_automaton.hh reads guards, labels and resets from the         *)
(* attributes of a Graphviz file, and how it writes them.                  *)
(*                                                                         *)
(* A text is a sequence of tokens: a character, or a number with all its   *)
(* digits.  boost::lexical_cast, which calls the readers, does not skip    *)
(* blanks and wants the whole text.  A reader is given a text and returns  *)
(* the set of pairs of what it has read and the text behind it: one pair,  *)
(* or none when the stream fails.                                          *)
(***************************************************************************)
EXTENDS Integers, Sequences, SequencesExt

Number(n) == <<"number", n>>
Char(c)   == <<c, 0>>
Token     == STRING \X Int
Text      == Seq(Token)

IsNumber(text, i) == i <= Len(text) /\ text[i][1] = "number"

Begins(text, chars) == IsPrefix(chars, text)
Behind(text, n)     == SubSeq(text, n + 1, Len(text))

(* Variables are stored in an uint8_t. *)
Byte(n) == n % 256

Blank == Char(" ")

(* print of an Order. *)
Symbol(odr) ==
    CASE odr = "lt" -> <<Char("<")>>
      [] odr = "le" -> <<Char("<"), Char("=")>>
      [] odr = "ge" -> <<Char(">"), Char("=")>>
      [] odr = "gt" -> <<Char(">")>>

(* Mutant: greater is taken for not less. *)
ReadOrderWeakly(text) ==
    {<<IF odr = "gt" THEN "ge" ELSE odr, Len(Symbol(odr)) + 1>> :
        odr \in {o \in {"lt", "le", "ge", "gt"} : Begins(text, Append(Symbol(o), Blank))}}

(* An order and the blank behind it, with the number of tokens. *)
ReadOrder(text) ==
    {<<odr, Len(Symbol(odr)) + 1>> :
        odr \in {o \in {"lt", "le", "ge", "gt"} : Begins(text, Append(Symbol(o), Blank))}}

(* operator>> of a constraint: "x", number, blank, order, blank, number. *)
ReadConstraint(text) ==
    IF ~ (Begins(text, <<Char("x")>>) /\ IsNumber(text, 2) /\ Begins(Behind(text, 2), <<Blank>>))
    THEN {}
    ELSE {<<[x |-> Byte(text[2][2]), odr |-> p[1], c |-> text[4 + p[2]][2]],
            Behind(text, 4 + p[2])>> :
              p \in {q \in ReadOrder(Behind(text, 3)) : IsNumber(text, 4 + q[2])}}

(* operator>> of a variable. *)
ReadVariable(text) ==
    IF IsNumber(text, 1) THEN {<<Byte(text[1][2]), Tail(text)>>} ELSE {}

Read(type, text) ==
    IF type = "Constraint" THEN ReadConstraint(text) ELSE ReadVariable(text)

(* operator>> of a vector of this type.  There is one element at least. *)
ReadVector(type, text) ==
    LET items[t \in Text] ==
            UNION {IF Begins(e[2], <<Char("}")>>)
                   THEN {<<<<e[1]>>, Tail(e[2])>>}
                   ELSE IF Begins(e[2], <<Char(","), Blank>>)
                   THEN {<<<<e[1]>> \o r[1], r[2]>> : r \in items[Behind(e[2], 2)]}
                   ELSE {} : e \in Read(type, t)}
    IN  IF Begins(text, <<Char("{")>>) THEN items[Tail(text)] ELSE {}

(* boost::lexical_cast; a set of at most one value. *)
Cast(pairs) == {p[1] : p \in {q \in pairs : q[2] = <<>>}}

Guards(text) == Cast(ReadVector("Constraint", text))
Resets(text) == Cast(ReadVector("Variable", text))

(* operator<< *)
WriteConstraint(c) ==
    <<Char("x"), Number(c.x), Blank>> \o Symbol(c.odr) \o <<Blank, Number(c.c)>>

WriteVariable(x) == <<Number(x)>>

Write(type, item) ==
    IF type = "Constraint" THEN WriteConstraint(item) ELSE WriteVariable(item)

WriteVector(type, items) ==
    LET separated(text, i) ==
            text \o (IF i = 1 THEN <<>> ELSE <<Char(","), Blank>>) \o Write(type, items[i])
    IN  <<Char("{")>> \o FoldLeft(separated, <<>>, [i \in DOMAIN items |-> i]) \o <<Char("}")>>
=============================================================================

------------------------------- MODULE Driver -------------------------------
(***************************************************************************)
(* The program of main.cc: it reads the automaton, then feeds the engine   *)
(* one piece for every line of the signal and prints what the engine has   *)
(* found.  Of the engine it sees what Matcher.tla promises.                *)
(*                                                                         *)
(* A line is a sequence of fields, numbers or Junk.  The buffer takes      *)
(* Capacity fields, where the code's takes 99 characters: a line that      *)
(* fills it is cut, here between two fields.                               *)
(***************************************************************************)
EXTENDS AutomatonText, Functions

CONSTANTS
    Jobs,               \* the inputs: automaton, signal and options
    Times,              \* bound: what an uninitialized double holds
    Garbage,            \* bound: what the buffer holds behind an unterminated line
    Found(_, _),        \* bound: what feed may find in a piece from a to b
    Zero, Plus(_, _),   \* the semiring's sum
    Capacity,
    SizeWidth,          \* a size_t holds numbers below it
    Junk                \* a field that is not a number

ASSUME DriverAssumption ==
    /\ Capacity \in Nat \ {0} /\ SizeWidth \in Nat \ {0}
    /\ Junk \notin Int
    /\ Times \subseteq Int /\ Garbage \subseteq Seq(Int \cup {Junk})
    /\ \A job \in Jobs :
          /\ {job.quiet, job.isAbsTime, job.boolean, job.ended} \subseteq BOOLEAN
          /\ job.signal \in Seq(Seq(Int \cup {Junk}))
          /\ \A q \in Range(job.locations) : q.init \in BOOLEAN /\ q.label \in Text
          /\ \A t \in Range(job.transitions) : {t.guard, t.reset} \subseteq Text

VARIABLES
    job,                \* the parameters of main; ended: the last line is
    pc,                 \* "automaton", "line", "feed", "print", "done", "aborted"
    labels, edges,      \* the automaton read: Seq of label; Seq of [guard, reset]
    initStates,
    num_of_vars, max_constraints,
    rest,               \* the lines of the signal not read yet
    time, valuation, last_time,
    absTime, result,    \* the engine
    fed, printed        \* ghosts: the calls of feed; what was printed after each

Engine == INSTANCE Matcher

automatonVars == <<labels, edges, initStates, num_of_vars, max_constraints>>
loopVars == <<rest, time, valuation, last_time, absTime, result, fed, printed>>
vars == <<job, pc, automatonVars, loopVars>>

Init ==
    /\ job \in Jobs
    /\ pc = "automaton"
    /\ labels = <<>> /\ edges = <<>> /\ initStates = <<>>
    /\ num_of_vars = 0 /\ max_constraints = 0
    /\ rest = job.signal
    /\ time \in Times /\ valuation = <<>> /\ last_time = 0
    /\ Engine!Init
    /\ fed = <<>> /\ printed = <<>>

-----------------------------------------------------------------------------
(* An attribute that is missing is an empty vector.  "{}" is not readable. *)
Attribute(text, values) == IF text = <<>> THEN {<<>>} ELSE values

LabelOf(q) == Attribute(q.label, Guards(q.label))

EdgeOf(t) ==
    {[guard |-> g, reset |-> r] :
        g \in Attribute(t.guard, Guards(t.guard)), r \in Attribute(t.reset, Resets(t.reset))}

Readable ==
    /\ \A q \in Range(job.locations) : LabelOf(q) # {}
    /\ \A t \in Range(job.transitions) : EdgeOf(t) # {}

Constraints == UNION {Range(edges'[i].guard) : i \in DOMAIN edges'}

(* parseBoostTA.  A value that cannot be read is an exception.  Variables  *)
(* that are only reset do not count, and a negative constant is a huge one.*)
ParseBoostTA ==
    /\ pc = "automaton"
    /\ IF Readable
       THEN /\ labels' = [i \in DOMAIN job.locations |-> CHOOSE l \in LabelOf(job.locations[i]) : TRUE]
            /\ edges' = [i \in DOMAIN job.transitions |-> CHOOSE e \in EdgeOf(job.transitions[i]) : TRUE]
            /\ initStates' = SelectSeq([i \in DOMAIN job.locations |-> i],
                                       LAMBDA i : job.locations[i].init)
            /\ num_of_vars' = Max({0} \cup {c.x + 1 : c \in Constraints})
            /\ max_constraints' = Max({0} \cup {c.c % SizeWidth : c \in Constraints})
            /\ pc' = "line"
       ELSE pc' = "aborted" /\ UNCHANGED automatonVars
    /\ UNCHANGED <<job, loopVars>>

(* The file is at its end: no line is left, or a last one without a        *)
(* character.                                                              *)
EndOfFile == rest = <<>> \/ (Len(rest) = 1 /\ ~ job.ended /\ Head(rest) = <<>>)

Terminated == Len(rest) > 1 \/ job.ended

(* fgets_unsafe: the texts the buffer can hold when it returns, with the   *)
(* lines that are left.  The newline of a line that just fits is left.     *)
Lines ==
    LET line == Head(rest)
    IN  IF Len(line) >= Capacity
        THEN {[text |-> SubSeq(line, 1, Capacity),
               rest |-> <<SubSeq(line, Capacity + 1, Len(line))>> \o Tail(rest)]}
        ELSE IF Terminated THEN {[text |-> line, rest |-> Tail(rest)]}
        ELSE {[text |-> line \o g, rest |-> <<>>] : g \in Garbage}

(* ss >> time fails without a trace on an empty line, else it leaves zero. *)
TimeOf(text) ==
    IF text = <<>> THEN time ELSE IF Head(text) = Junk THEN 0 ELSE Head(text)

(* The numbers behind the first field up to what is none. *)
ValuationOf(text) ==
    LET junk == {i \in DOMAIN text : text[i] = Junk} \cup {Len(text) + 1}
    IN  SubSeq(text, 2, Min(junk) - 1)

(* getOne, which appends to what valuation holds. *)
GetOne ==
    /\ pc = "line" /\ ~ EndOfFile
    /\ \E l \in Lines :
          /\ rest' = l.rest
          /\ time' = TimeOf(l.text)
          /\ valuation' = valuation \o ValuationOf(l.text)
    /\ pc' = "feed"
    /\ UNCHANGED <<job, automatonVars, last_time, absTime, result, fed, printed>>

Duration == IF job.isAbsTime THEN time - last_time ELSE time

(* The loop body up to valuation.clear(). *)
FeedWith(duration, left) ==
    /\ pc = "feed"
    /\ \E found \in Found(absTime, absTime + duration) :
          /\ Engine!Feed(duration, found)
          /\ fed' = Append(fed, [valuation |-> valuation, duration |-> duration, found |-> found])
    /\ last_time' = IF job.isAbsTime THEN time ELSE last_time
    /\ valuation' = left
    /\ pc' = "print"
    /\ UNCHANGED <<job, automatonVars, rest, time, printed>>

(* Mutants: the valuation is kept; time stamps are taken for durations. *)
FeedKeeping  == FeedWith(Duration, valuation)
FeedTheStamp == FeedWith(time, <<>>)

Feed == FeedWith(Duration, <<>>)

(* Over the Boolean semiring printResult is silent about weight false. *)
Shown(boolean, found) == {m \in DOMAIN found : ~ boolean \/ found[m] # Zero}

PrintAnd(left) ==
    /\ pc = "print"
    /\ printed' = Append(printed, IF job.quiet THEN {} ELSE Shown(job.boolean, result))
    /\ result' = left
    /\ pc' = "line"
    /\ UNCHANGED <<job, automatonVars, rest, time, valuation, last_time, absTime, fed>>

(* Mutant: the result is not cleared. *)
PrintKeeping == PrintAnd(result)

(* The results go out and are cleared. *)
PrintResults == PrintAnd(<<>>)

Exit ==
    /\ pc = "line" /\ EndOfFile
    /\ pc' = "done"
    /\ UNCHANGED <<job, automatonVars, loopVars>>

Exited == pc \in {"done", "aborted"} /\ UNCHANGED vars

Next == ParseBoostTA \/ GetOne \/ Feed \/ PrintResults \/ Exit \/ Exited

Spec == Init /\ [][Next]_vars

-----------------------------------------------------------------------------
(* Between two lines nothing of the line before is left, and last_time is  *)
(* where the engine's clock stands.                                        *)
TypeOK ==
    /\ time \in Int /\ Range(valuation) \subseteq Int
    /\ pc = "line" => valuation = <<>> /\ result = <<>>
    /\ job.isAbsTime => last_time = absTime
    /\ Len(printed) \in {Len(fed), Len(fed) - 1}

(* No variable of the text needs more than a byte. *)
Fits(text) == \A k \in DOMAIN text : k > 1 /\ text[k - 1] = Char("x") => text[k][2] \in 0 .. 255

(* No text but the one that is written for a value is read as that value,  *)
(* and what was read is read again when it is written, so that a guard or  *)
(* label cannot be taken for another one.  Every clock of a guard counts,  *)
(* and there are no more of them than a byte can name.                     *)
ParsedAsWritten ==
    /\ \A text \in {t.guard : t \in Range(job.transitions)} \cup {q.label : q \in Range(job.locations)} :
          Fits(text) => \A g \in Guards(text) : WriteVector("Constraint", g) = text
    /\ \A g \in {e.guard : e \in Range(edges)} \cup Range(labels) :
          g # <<>> => Guards(WriteVector("Constraint", g)) = {g}
    /\ \A e \in Range(edges) :
          /\ e.reset # <<>> => Resets(WriteVector("Variable", e.reset)) = {e.reset}
          /\ \A c \in Range(e.guard) : c.x < num_of_vars
    /\ num_of_vars \in 0 .. 256

-----------------------------------------------------------------------------
(* The signal as it is written: the first k lines, when each holds a time, *)
(* a value at least and no junk, fits the buffer and is terminated.        *)
ReadableAsSuch(line) == Len(line) \in 2 .. Capacity - 1 /\ Junk \notin Range(line)

WrittenUpTo(k) ==
    /\ k <= Len(job.signal)
    /\ \A i \in 1 .. k : ReadableAsSuch(job.signal[i])

PlainUpTo(k) == WrittenUpTo(k) /\ (k < Len(job.signal) \/ job.ended)

(* Its k-th duration: the first field, or the distance of the time stamps. *)
WrittenDuration(k) ==
    IF job.isAbsTime /\ k > 1 THEN Head(job.signal[k]) - Head(job.signal[k - 1])
    ELSE Head(job.signal[k])

(* The end of the k-th piece. *)
Stamp(k) ==
    IF job.isAbsTime THEN IF k = 0 THEN 0 ELSE Head(job.signal[k])
    ELSE LET end[i \in 0 .. k] == IF i = 0 THEN 0 ELSE end[i - 1] + Head(job.signal[i])
         IN  end[k]

(* Every line of a plain signal is a piece of its own, with its values and *)
(* its duration, and none is left out.                                     *)
FedAs(Plain(_)) ==
    /\ \A k \in DOMAIN fed :
          Plain(k) => /\ fed[k].valuation = Tail(job.signal[k])
                      /\ fed[k].duration = WrittenDuration(k)
    /\ pc = "done" /\ Plain(Len(job.signal)) => Len(fed) = Len(job.signal)

FedAsWritten == FedAs(PlainUpTo)

(* After every line of a plain signal exactly the matches of this piece    *)
(* are printed, and they end between the time stamps of the piece.         *)
PrintedInPiece ==
    \A k \in DOMAIN printed :
        /\ ~ job.quiet => printed[k] = Shown(job.boolean, fed[k].found)
        /\ PlainUpTo(k) => \A m \in printed[k] : Engine!EndsIn(m, Stamp(k - 1), Stamp(k))

(* A last line without a newline is read as fgets reads it, like any       *)
(* other.                                                                  *)
LastLineToo == FedAs(WrittenUpTo)
=============================================================================

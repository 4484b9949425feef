---------------------------- MODULE Driver_proofs ----------------------------
(***************************************************************************)
(* What Driver.tla feeds and prints, for every automaton, signal, option,  *)
(* buffer size and semiring, and whatever the engine finds.                *)
(*                                                                         *)
(* The first invariant follows the loop: while the signal is plain up to   *)
(* the line in hand, what is left to read is the rest of the signal, and   *)
(* what getOne left in its variables is that line.  The second one follows *)
(* the engine's clock and its results through the calls.                   *)
(***************************************************************************)
EXTENDS Driver, Induction, SequenceTheorems

Field == Int \cup {Junk}

(* The lines read so far. *)
Taken == Len(fed) + (IF pc = "feed" THEN 1 ELSE 0)

IsSequence(s) == \E S : s \in Seq(S)

LastStamp == IF Len(fed) = 0 THEN 0 ELSE Head(job.signal[Len(fed)])

LoopInv ==
    /\ job \in Jobs
    /\ IsSequence(fed)
    /\ pc # "feed" => valuation = <<>>
    /\ pc \in {"automaton", "line", "feed", "print", "done", "aborted"}

RestIsSuffix ==
    PlainUpTo(Taken) => rest = SubSeq(job.signal, Taken + 1, Len(job.signal))

LineInHand ==
    pc = "feed" /\ PlainUpTo(Taken) =>
        valuation = Tail(job.signal[Taken]) /\ time = Head(job.signal[Taken])

LastTimeIsStamp ==
    job.isAbsTime /\ PlainUpTo(Len(fed)) => last_time = LastStamp

FedSoFar ==
    \A k \in DOMAIN fed :
        PlainUpTo(k) => /\ fed[k].valuation = Tail(job.signal[k])
                        /\ fed[k].duration = WrittenDuration(k)

NotTooMany == PlainUpTo(Len(job.signal)) => Taken <= Len(job.signal)

NoneLeftOut ==
    pc = "done" /\ PlainUpTo(Len(job.signal)) => Len(fed) = Len(job.signal)

FedInv ==
    /\ LoopInv /\ RestIsSuffix /\ LineInHand /\ LastTimeIsStamp
    /\ FedSoFar /\ NotTooMany /\ NoneLeftOut

-----------------------------------------------------------------------------
(* Sequences. *)

LEMMA SequenceFacts ==
    ASSUME NEW s, IsSequence(s)
    PROVE  Len(s) \in Nat /\ DOMAIN s = 1 .. Len(s)
<1>1. PICK S : s \in Seq(S)
  BY DEF IsSequence
<1> QED
  BY <1>1, LenProperties

LEMMA AppendFacts ==
    ASSUME NEW s, NEW e, IsSequence(s)
    PROVE  /\ IsSequence(Append(s, e))
           /\ Len(Append(s, e)) = Len(s) + 1
           /\ DOMAIN Append(s, e) = 1 .. Len(s) + 1
           /\ \A i \in 1 .. Len(s) : Append(s, e)[i] = s[i]
           /\ Append(s, e)[Len(s) + 1] = e
<1>1. PICK S : s \in Seq(S)
  BY DEF IsSequence
<1> DEFINE R == S \cup {e}
<1>2. s \in Seq(R)
  BY <1>1, SeqMonotonic, Zenon
<1>3. e \in R
  OBVIOUS
<1> HIDE DEF R
<1>4. Append(s, e) \in Seq(R)
  BY <1>2, <1>3, AppendProperties
<1>5. /\ Len(Append(s, e)) = Len(s) + 1
      /\ \A i \in 1 .. Len(s) : Append(s, e)[i] = s[i]
      /\ Append(s, e)[Len(s) + 1] = e
  BY <1>2, <1>3, AppendProperties
<1>6. DOMAIN Append(s, e) = 1 .. Len(Append(s, e))
  BY <1>4, LenProperties
<1> QED
  BY <1>4, <1>5, <1>6, Zenon DEF IsSequence

-----------------------------------------------------------------------------
(* Plain signals. *)

LEMMA SignalType ==
    ASSUME NEW j \in Jobs
    PROVE  /\ j.signal \in Seq(Seq(Field)) /\ Len(j.signal) \in Nat
           /\ DOMAIN j.signal = 1 .. Len(j.signal)
           /\ \A i \in 1 .. Len(j.signal) : j.signal[i] \in Seq(Field)
<1>1. j.signal \in Seq(Seq(Field))
  BY DriverAssumption DEF Field
<1> QED
  BY <1>1, LenProperties, ElementOfSeq

LEMMA PlainBefore ==
    ASSUME job \in Jobs, NEW n \in Nat, NEW k \in 0 .. n, PlainUpTo(n)
    PROVE  PlainUpTo(k)
<1>1. Len(job.signal) \in Nat
  BY SignalType
<1> QED
  BY <1>1 DEF PlainUpTo, WrittenUpTo

(* A plain line is what the buffer holds, all of it. *)
LEMMA PlainText ==
    ASSUME NEW line \in Seq(Field), ReadableAsSuch(line)
    PROVE  /\ Len(line) < Capacity /\ line # <<>>
           /\ TimeOf(line) = Head(line)
           /\ ValuationOf(line) = Tail(line)
           /\ Head(line) \in Int
<1>1. /\ Len(line) \in Nat /\ Len(line) >= 2 /\ Len(line) < Capacity
      /\ DOMAIN line = 1 .. Len(line)
  BY DriverAssumption, LenProperties DEF ReadableAsSuch
<1>2. line # <<>>
  BY <1>1
<1>3. \A i \in DOMAIN line : line[i] # Junk /\ line[i] \in Int
  BY ElementOfSeq, <1>1 DEF ReadableAsSuch, Field, Range
<1>4. Head(line) = line[1]
  BY <1>1
<1>5. TimeOf(line) = Head(line) /\ Head(line) \in Int
  BY <1>1, <1>2, <1>3, <1>4 DEF TimeOf
<1>6. {i \in DOMAIN line : line[i] = Junk} \cup {Len(line) + 1} = {Len(line) + 1}
  BY <1>3
<1>7. Min({Len(line) + 1}) = Len(line) + 1
  BY <1>1 DEF Min
<1>8. ValuationOf(line) = SubSeq(line, 2, Len(line))
  <2>1. ValuationOf(line) = SubSeq(line, 2, Min({Len(line) + 1}) - 1)
    BY <1>6, Zenon DEF ValuationOf
  <2>2. Min({Len(line) + 1}) - 1 = Len(line)
    BY <1>1, <1>7
  <2> QED
    BY <2>1, <2>2, Zenon
<1>9. Tail(line) = SubSeq(line, 2, Len(line))
  BY <1>2, TailIsSubSeq
<1> QED
  BY <1>1, <1>2, <1>5, <1>8, <1>9

-----------------------------------------------------------------------------
(* The steps. *)

LEMMA PlainStep ==
    ASSUME NEW k, job' = job
    PROVE  PlainUpTo(k)' <=> PlainUpTo(k)
  BY DEF PlainUpTo, WrittenUpTo, ReadableAsSuch

LEMMA InitFedInv == Init => FedInv
<1> SUFFICES ASSUME Init PROVE FedInv
  OBVIOUS
<1>1. job \in Jobs /\ fed = <<>> /\ pc = "automaton" /\ valuation = <<>> /\ last_time = 0
      /\ rest = job.signal
  BY DEF Init
<1>2. fed \in Seq({}) /\ Len(fed) = 0 /\ DOMAIN fed = {}
  BY <1>1
<1>3. Taken = 0
  BY <1>1, <1>2 DEF Taken
<1>4. LoopInv
  BY <1>1, <1>2 DEF LoopInv, IsSequence
<1>5. job.signal \in Seq(Seq(Field)) /\ Len(job.signal) \in Nat
  BY <1>1, SignalType
<1>6. rest = SubSeq(job.signal, 1, Len(job.signal))
  BY <1>1, <1>5, SubSeqFull, Zenon
<1>7. RestIsSuffix /\ NotTooMany
  BY <1>3, <1>5, <1>6 DEF RestIsSuffix, NotTooMany
<1>8. LineInHand /\ LastTimeIsStamp /\ FedSoFar /\ NoneLeftOut
  BY <1>1, <1>2 DEF LineInHand, LastTimeIsStamp, LastStamp, FedSoFar, NoneLeftOut
<1> QED
  BY <1>4, <1>7, <1>8 DEF FedInv

(* A step that neither reads nor feeds. *)
LEMMA FrameStep ==
    ASSUME FedInv, job' = job, fed' = fed, rest' = rest, valuation' = valuation, time' = time,
           last_time' = last_time, pc' = "feed" <=> pc = "feed",
           pc' \in {"automaton", "line", "feed", "print", "done", "aborted"},
           pc' = "done" /\ PlainUpTo(Len(job.signal)) => Len(fed) = Len(job.signal)
    PROVE  FedInv'
<1>1. Taken' = Taken /\ LastStamp' = LastStamp
  BY Zenon DEF Taken, LastStamp
<1>2. \A k : PlainUpTo(k)' <=> PlainUpTo(k)
  BY PlainStep
<1>3. LoopInv'
  BY DEF FedInv, LoopInv
<1>4. RestIsSuffix'
  <2>1. SUFFICES ASSUME PlainUpTo(Taken)'
                 PROVE  rest' = SubSeq(job'.signal, Taken' + 1, Len(job'.signal))
    BY DEF RestIsSuffix
  <2>2. PlainUpTo(Taken)
    BY <2>1, <1>1, <1>2 DEF PlainUpTo, WrittenUpTo, ReadableAsSuch
  <2> QED
    BY <1>1, <2>2 DEF FedInv, RestIsSuffix
<1>5. LineInHand' /\ LastTimeIsStamp'
  <2>1. pc' = "feed" /\ PlainUpTo(Taken)' =>
           valuation' = Tail(job'.signal[Taken']) /\ time' = Head(job'.signal[Taken'])
    BY <1>1 DEF FedInv, LineInHand, PlainUpTo, WrittenUpTo, ReadableAsSuch
  <2>2. job'.isAbsTime /\ PlainUpTo(Len(fed))' => last_time' = LastStamp'
    BY <1>1 DEF FedInv, LastTimeIsStamp, PlainUpTo, WrittenUpTo, ReadableAsSuch
  <2> QED
    BY <2>1, <2>2 DEF LineInHand, LastTimeIsStamp
<1>6. FedSoFar'
  BY <1>2 DEF FedInv, FedSoFar, WrittenDuration
<1>7. NotTooMany' /\ NoneLeftOut'
  <2>1. PlainUpTo(Len(job.signal))' <=> PlainUpTo(Len(job.signal))
    BY DEF PlainUpTo, WrittenUpTo, ReadableAsSuch
  <2> QED
    BY <1>1, <2>1 DEF FedInv, NotTooMany, NoneLeftOut
<1> QED
  BY <1>3, <1>4, <1>5, <1>6, <1>7 DEF FedInv

(* getOne takes the next line of a plain signal, whole. *)
LEMMA GetOneStep == FedInv /\ GetOne => FedInv'
<1> SUFFICES ASSUME FedInv, GetOne PROVE FedInv'
  OBVIOUS
<1> DEFINE n == Len(fed)
           s == job.signal
<1>1. /\ pc = "line" /\ pc' = "feed" /\ job' = job /\ fed' = fed /\ last_time' = last_time
      /\ ~ EndOfFile /\ valuation = <<>> /\ job \in Jobs
  BY DEF GetOne, FedInv, LoopInv
<1>2. n \in Nat /\ DOMAIN fed = 1 .. n
  BY SequenceFacts DEF FedInv, LoopInv
<1>3. Taken = n /\ Taken' = n + 1
  BY <1>1, <1>2 DEF Taken
<1>4. /\ s \in Seq(Seq(Field)) /\ Len(s) \in Nat
      /\ \A i \in 1 .. Len(s) : s[i] \in Seq(Field)
  BY <1>1, SignalType
<1>5. \A k : PlainUpTo(k)' <=> PlainUpTo(k)
  BY <1>1, PlainStep
<1>6. PlainUpTo(n) => rest = SubSeq(s, n + 1, Len(s))
  BY <1>3 DEF FedInv, RestIsSuffix
<1>7. ASSUME PlainUpTo(n + 1)
      PROVE  /\ rest' = SubSeq(s, n + 2, Len(s))
             /\ valuation' = Tail(s[n + 1]) /\ time' = Head(s[n + 1])
  <2>1. /\ n + 1 \in 1 .. Len(s) /\ ReadableAsSuch(s[n + 1])
        /\ n + 1 < Len(s) \/ job.ended
    BY <1>2, <1>4, <1>7 DEF PlainUpTo, WrittenUpTo
  <2>2. rest = SubSeq(s, n + 1, Len(s))
    BY <1>1, <1>2, <1>6, <1>7, PlainBefore
  <2>3. Head(rest) = s[n + 1] /\ Tail(rest) = SubSeq(s, n + 2, Len(s))
    <3>1. Len(s) \in n + 1 .. Len(s)
      BY <1>2, <1>4, <2>1
    <3>2. (n + 1) + 1 = n + 2
      BY <1>2
    <3>3. n + 1 \in 1 .. Len(s)
      BY <2>1
    <3> HIDE DEF s
    <3>4. /\ Head(SubSeq(s, n + 1, Len(s))) = s[n + 1]
          /\ Tail(SubSeq(s, n + 1, Len(s))) = SubSeq(s, (n + 1) + 1, Len(s))
      BY <1>4, <3>1, <3>3, HeadTailOfSubSeq
    <3> QED
      BY Zenon, <2>2, <3>2, <3>4
  <2>4. Len(rest) = Len(s) - n
    <3>1. \A i \in n + 1 .. Len(s) : s[i] \in Seq(Field)
      BY <1>2, <1>4
    <3>2. Len(rest) = IF n + 1 <= Len(s) THEN Len(s) - (n + 1) + 1 ELSE 0
      BY <1>2, <1>4, <2>2, <3>1, SubSeqProperties
    <3> QED
      BY <1>2, <1>4, <2>1, <3>2
  <2>5. Terminated
    BY <1>2, <1>4, <2>1, <2>4 DEF Terminated
  <2>6. /\ Len(s[n + 1]) < Capacity /\ TimeOf(s[n + 1]) = Head(s[n + 1])
        /\ ValuationOf(s[n + 1]) = Tail(s[n + 1]) /\ s[n + 1] # <<>>
    BY <1>4, <2>1, PlainText
  <2>7. s[n + 1] \in Seq(Field) /\ Len(s[n + 1]) \in Nat /\ Tail(s[n + 1]) \in Seq(Field)
    BY <1>4, <2>1, <2>6, LenProperties, HeadTailProperties
  <2>8. ~ (Len(s[n + 1]) >= Capacity)
    BY <2>6, <2>7, DriverAssumption
  <2>9. Lines = {[text |-> s[n + 1], rest |-> SubSeq(s, n + 2, Len(s))]}
    BY <2>3, <2>5, <2>8, Zenon DEF Lines
  <2>10. /\ rest' = SubSeq(s, n + 2, Len(s)) /\ time' = TimeOf(s[n + 1])
         /\ valuation' = <<>> \o ValuationOf(s[n + 1])
    BY <1>1, <2>9 DEF GetOne
  <2>11. <<>> \o Tail(s[n + 1]) = Tail(s[n + 1])
    BY <2>7, ConcatEmptySeq
  <2> QED
    BY <2>6, <2>10, <2>11
<1>8. ASSUME PlainUpTo(Len(s)) PROVE n + 1 <= Len(s)
  <2>1. n <= Len(s)
    BY <1>3, <1>8 DEF FedInv, NotTooMany
  <2>2. PlainUpTo(n)
    BY <1>1, <1>2, <1>4, <1>8, <2>1, PlainBefore
  <2>3. rest # <<>>
    BY <1>1 DEF EndOfFile
  <2>4. CASE n = Len(s)
    <3>1. SubSeq(s, n + 1, Len(s)) = <<>>
      BY <1>2, <1>4, <2>4, SubSeqEmpty
    <3> QED
      BY <1>6, <2>2, <2>3, <3>1
  <2> QED
    BY <1>2, <1>4, <2>1, <2>4
<1>9. LoopInv'
  BY <1>1 DEF FedInv, LoopInv
<1>10. RestIsSuffix' /\ LineInHand' /\ NotTooMany'
  <2>1. PlainUpTo(Taken)' => PlainUpTo(n + 1)
    BY <1>1, <1>3 DEF PlainUpTo, WrittenUpTo, ReadableAsSuch
  <2>2. (n + 1) + 1 = n + 2
    BY <1>2
  <2>3. PlainUpTo(Len(job.signal))' => PlainUpTo(Len(s))
    BY <1>1 DEF PlainUpTo, WrittenUpTo, ReadableAsSuch
  <2> QED
    BY <1>1, <1>3, <1>7, <1>8, <2>1, <2>2, <2>3 DEF RestIsSuffix, LineInHand, NotTooMany
<1>11. LastTimeIsStamp' /\ FedSoFar' /\ NoneLeftOut'
  <2>1. PlainUpTo(Len(fed))' => PlainUpTo(Len(fed))
    BY <1>1 DEF PlainUpTo, WrittenUpTo, ReadableAsSuch
  <2>2. FedSoFar'
    BY <1>1, <1>5 DEF FedInv, FedSoFar, WrittenDuration
  <2>3. LastStamp' = LastStamp
    BY <1>1 DEF LastStamp
  <2> QED
    BY <1>1, <2>1, <2>2, <2>3 DEF FedInv, LastTimeIsStamp, NoneLeftOut
<1> QED
  BY <1>9, <1>10, <1>11 DEF FedInv

(* The call of feed gets the line in hand, and its duration. *)
LEMMA FeedStep == FedInv /\ Feed => FedInv'
<1> SUFFICES ASSUME FedInv, Feed PROVE FedInv'
  OBVIOUS
<1> DEFINE n == Len(fed)
           s == job.signal
<1>1. PICK found \in Found(absTime, absTime + Duration) :
         fed' = Append(fed, [valuation |-> valuation, duration |-> Duration, found |-> found])
  BY Zenon DEF Feed, FeedWith
<1>2. /\ pc = "feed" /\ pc' = "print" /\ job' = job /\ rest' = rest /\ valuation' = <<>>
      /\ last_time' = (IF job.isAbsTime THEN time ELSE last_time) /\ job \in Jobs
  BY DEF Feed, FeedWith, FedInv, LoopInv
<1>3. /\ n \in Nat /\ DOMAIN fed = 1 .. n
      /\ IsSequence(fed') /\ Len(fed') = n + 1 /\ DOMAIN fed' = 1 .. n + 1
      /\ \A k \in 1 .. n : fed'[k] = fed[k]
      /\ fed'[n + 1] = [valuation |-> valuation, duration |-> Duration, found |-> found]
  BY <1>1, SequenceFacts, AppendFacts DEF FedInv, LoopInv
<1>4. Taken = n + 1 /\ Taken' = n + 1
  BY <1>2, <1>3 DEF Taken
<1>5. \A k : PlainUpTo(k)' <=> PlainUpTo(k)
  BY <1>2, PlainStep
<1>6. ASSUME PlainUpTo(n + 1)
      PROVE  /\ valuation = Tail(s[n + 1]) /\ time = Head(s[n + 1])
             /\ Duration = WrittenDuration(n + 1)
  <2>1. valuation = Tail(s[n + 1]) /\ time = Head(s[n + 1])
    BY <1>2, <1>4, <1>6 DEF FedInv, LineInHand
  <2>2. PlainUpTo(n)
    BY <1>2, <1>3, <1>6, PlainBefore
  <2>3. job.isAbsTime => last_time = LastStamp
    BY <2>2 DEF FedInv, LastTimeIsStamp
  <2>4. Head(s[n + 1]) \in Int
    <3>0. Len(s) \in Nat
      BY <1>2, SignalType
    <3>1. n + 1 \in 1 .. Len(s) /\ ReadableAsSuch(s[n + 1])
      BY <1>3, <1>6, <3>0 DEF PlainUpTo, WrittenUpTo
    <3> QED
      BY <1>2, <3>1, SignalType, PlainText
  <2>5. CASE job.isAbsTime /\ n = 0
    <3>1. last_time = 0
      BY <2>3, <2>5 DEF LastStamp
    <3> QED
      BY <2>1, <2>4, <2>5, <3>1 DEF Duration, WrittenDuration
  <2>6. CASE job.isAbsTime /\ n # 0
    <3>1. last_time = Head(s[n]) /\ n + 1 > 1 /\ (n + 1) - 1 = n
      BY <1>3, <2>3, <2>6 DEF LastStamp
    <3> QED
      BY <2>1, <2>6, <3>1 DEF Duration, WrittenDuration
  <2>7. CASE ~ job.isAbsTime
    BY <2>1, <2>7 DEF Duration, WrittenDuration
  <2> QED
    BY <2>1, <2>5, <2>6, <2>7
<1>7. LoopInv'
  BY <1>2, <1>3 DEF FedInv, LoopInv
<1>8. RestIsSuffix' /\ LineInHand' /\ NotTooMany' /\ NoneLeftOut'
  <2>1. PlainUpTo(Taken)' => PlainUpTo(Taken)
    BY <1>2, <1>4 DEF PlainUpTo, WrittenUpTo, ReadableAsSuch
  <2>2. PlainUpTo(Len(job.signal))' => PlainUpTo(Len(job.signal))
    BY <1>2 DEF PlainUpTo, WrittenUpTo, ReadableAsSuch
  <2> QED
    BY <1>2, <1>4, <2>1, <2>2 DEF FedInv, RestIsSuffix, LineInHand, NotTooMany, NoneLeftOut
<1>9. LastTimeIsStamp'
  <2>1. SUFFICES ASSUME job.isAbsTime, PlainUpTo(Len(fed))' PROVE last_time' = LastStamp'
    BY <1>2 DEF LastTimeIsStamp
  <2>2. PlainUpTo(n + 1)
    BY <1>2, <1>3, <2>1 DEF PlainUpTo, WrittenUpTo, ReadableAsSuch
  <2>3. LastStamp' = Head(s[n + 1])
    BY <1>2, <1>3 DEF LastStamp
  <2> QED
    BY <1>2, <1>6, <2>1, <2>2, <2>3
<1>10. FedSoFar'
  <2>1. SUFFICES ASSUME NEW k \in DOMAIN fed', PlainUpTo(k)
                 PROVE  /\ fed'[k].valuation = Tail(s[k])
                        /\ fed'[k].duration = WrittenDuration(k)
    BY <1>2, <1>5 DEF FedSoFar, WrittenDuration
  <2>2. CASE k \in 1 .. n
    <3>1. fed'[k] = fed[k] /\ k \in DOMAIN fed
      BY <1>3, <2>2
    <3>2. fed[k].valuation = Tail(s[k]) /\ fed[k].duration = WrittenDuration(k)
      BY <2>1, <3>1 DEF FedInv, FedSoFar
    <3> QED
      BY <3>1, <3>2
  <2>3. CASE k = n + 1
    <3>1. fed'[k].valuation = valuation /\ fed'[k].duration = Duration
      BY <1>3, <2>3
    <3>2. PlainUpTo(n + 1)
      BY <2>1, <2>3
    <3> QED
      BY <1>6, <2>3, <3>1, <3>2
  <2> QED
    BY <1>3, <2>2, <2>3
<1> QED
  BY <1>7, <1>8, <1>9, <1>10 DEF FedInv

(* At the end of a plain file every line has been taken. *)
LEMMA ExitStep == FedInv /\ Exit => FedInv'
<1> SUFFICES ASSUME FedInv, Exit PROVE FedInv'
  OBVIOUS
<1>1. /\ pc = "line" /\ pc' = "done" /\ EndOfFile /\ job \in Jobs
      /\ Len(fed) \in Nat /\ Len(job.signal) \in Nat
  BY SequenceFacts, SignalType DEF Exit, FedInv, LoopInv
<1>2. Taken = Len(fed)
  BY <1>1 DEF Taken
<1>3. ASSUME PlainUpTo(Len(job.signal)) PROVE Len(fed) = Len(job.signal)
  <2>1. Len(fed) <= Len(job.signal)
    BY <1>2, <1>3 DEF FedInv, NotTooMany
  <2>2. PlainUpTo(Len(fed))
    BY <1>1, <1>3, <2>1, PlainBefore
  <2>3. rest = SubSeq(job.signal, Len(fed) + 1, Len(job.signal))
    BY <1>2, <2>2 DEF FedInv, RestIsSuffix
  <2>4. rest = <<>>
    BY <1>1, <1>3 DEF EndOfFile, PlainUpTo
  <2>5. Len(rest) = IF Len(fed) + 1 <= Len(job.signal)
                    THEN Len(job.signal) - (Len(fed) + 1) + 1 ELSE 0
    <3>1. \A i \in Len(fed) + 1 .. Len(job.signal) : job.signal[i] \in Seq(Field)
      BY <1>1, SignalType
    <3> QED
      BY <1>1, <2>3, <3>1, SubSeqProperties
  <2>6. Len(rest) = 0
    BY <2>4
  <2> QED
    BY <1>1, <2>1, <2>5, <2>6
<1> QED
  BY <1>1, <1>3, FrameStep DEF Exit, loopVars

LEMMA NextFedInv == FedInv /\ [Next]_vars => FedInv'
<1> SUFFICES ASSUME FedInv, [Next]_vars PROVE FedInv'
  OBVIOUS
<1>1. pc = "done" /\ PlainUpTo(Len(job.signal)) => Len(fed) = Len(job.signal)
  BY DEF FedInv, NoneLeftOut
<1>2. pc \in {"automaton", "line", "feed", "print", "done", "aborted"}
  BY DEF FedInv, LoopInv
<1>3. CASE ParseBoostTA
  BY <1>3, FrameStep DEF ParseBoostTA, loopVars
<1>4. CASE GetOne
  BY <1>4, GetOneStep
<1>5. CASE Feed
  BY <1>5, FeedStep
<1>6. CASE PrintResults
  BY <1>6, FrameStep DEF PrintResults, PrintAnd
<1>7. CASE Exit
  BY <1>7, ExitStep
<1>8. CASE UNCHANGED vars
  BY <1>1, <1>2, <1>8, FrameStep DEF vars, loopVars
<1> QED
  BY <1>3, <1>4, <1>5, <1>6, <1>7, <1>8 DEF Next, Exited

(* While the lines of the signal are plain, the k-th call of feed gets the *)
(* values and the duration the k-th line is written with, and at the end   *)
(* none is left out: fgets_unsafe, getOne and the bookkeeping of last_time *)
(* lose, repeat and shift nothing.                                         *)
THEOREM FedAsWrittenHolds == Spec => []FedAsWritten
<1>1. FedInv => FedAsWritten
  BY DEF FedInv, FedSoFar, NoneLeftOut, FedAsWritten, FedAs
<1> QED
  BY <1>1, InitFedInv, NextFedInv, PTL DEF Spec

-----------------------------------------------------------------------------
(* What is printed.  The types, and the clock of the engine, which in      *)
(* absolute mode shows last_time.                                          *)
TypeInv ==
    /\ rest \in Seq(Seq(Field)) /\ valuation \in Seq(Int)
    /\ time \in Int /\ last_time \in Int /\ absTime \in Int
    /\ job.isAbsTime => last_time = absTime

ClockIsStamp == PlainUpTo(Len(fed)) => absTime = Stamp(Len(fed))

(* Every call of feed finds matches that end in its piece. *)
FoundInPiece ==
    \A k \in DOMAIN fed :
        /\ \E a, b : fed[k].found \in Found(a, b)
        /\ PlainUpTo(k) => \A m \in DOMAIN fed[k].found : Engine!EndsIn(m, Stamp(k - 1), Stamp(k))

(* The engine holds what the last call has found, until it is printed. *)
ResultOfPiece ==
    /\ pc # "print" => result = <<>>
    /\ pc = "print" =>
          /\ Len(fed) > 0 /\ DOMAIN result = DOMAIN fed[Len(fed)].found
          /\ \A m \in DOMAIN result : result[m] = Plus(Zero, fed[Len(fed)].found[m])

(* What feed finds has weights that the neutral element leaves alone. *)
ZeroIsNeutral ==
    \A a, b : \A found \in Found(a, b) : \A m \in DOMAIN found : Plus(Zero, found[m]) = found[m]

PrintedSoFar ==
    /\ IsSequence(printed)
    /\ Len(printed) = IF pc = "print" THEN Len(fed) - 1 ELSE Len(fed)
    /\ ZeroIsNeutral => \A k \in DOMAIN printed :
          printed[k] = IF job.quiet THEN {} ELSE Shown(job.boolean, fed[k].found)

PrintInv == TypeInv /\ ClockIsStamp /\ FoundInPiece /\ ResultOfPiece /\ PrintedSoFar

-----------------------------------------------------------------------------
(* Stamps. *)

LEMMA StampIsSum ==
    ASSUME job \in Jobs, ~ job.isAbsTime, NEW k \in Nat, PlainUpTo(k)
    PROVE  \E f \in [0 .. k -> Int] :
              /\ \A i \in 0 .. k : f[i] = IF i = 0 THEN 0 ELSE f[i - 1] + Head(job.signal[i])
              /\ Stamp(k) = f[k]
<1> DEFINE s == job.signal
           step == [i \in 1 .. k |-> [a \in Int |-> a + Head(s[i])]]
           Sums(f) == f = [i \in 0 .. k |-> IF i = 0 THEN 0 ELSE f[i - 1] + Head(s[i])]
           end == CHOOSE f : Sums(f)
<1>1. ASSUME NEW i \in 1 .. k PROVE Head(s[i]) \in Int
  <2>1. Len(s) \in Nat /\ \A j \in 1 .. Len(s) : s[j] \in Seq(Field)
    BY SignalType
  <2>2. i \in 1 .. Len(s) /\ ReadableAsSuch(s[i])
    BY <2>1 DEF PlainUpTo, WrittenUpTo
  <2> QED
    BY <2>1, <2>2, PlainText
<1>2. step \in [1 .. k -> [Int -> Int]]
  <2>1. \A i \in 1 .. k : [a \in Int |-> a + Head(s[i])] \in [Int -> Int]
    BY <1>1
  <2> QED
    BY <2>1
<1>3. PICK f \in [0 .. k -> Int] :
         \A i \in 0 .. k : f[i] = IF i = 0 THEN 0 ELSE step[i][f[i - 1]]
  <2>1. Iterates(k, Int, 0, step) # {}
    <3> HIDE DEF step
    <3>1. 0 \in Int
      OBVIOUS
    <3> QED
      BY <1>2, <3>1, RecursionExists, Zenon
  <2> HIDE DEF step
  <2> QED
    BY <2>1 DEF Iterates
<1>4. \A i \in 0 .. k : f[i] = IF i = 0 THEN 0 ELSE f[i - 1] + Head(s[i])
  <2> TAKE i \in 0 .. k
  <2>1. f[i] = IF i = 0 THEN 0 ELSE step[i][f[i - 1]]
    <3> HIDE DEF step
    <3> QED
      BY <1>3
  <2>2. i # 0 => i \in 1 .. k /\ f[i - 1] \in Int
    OBVIOUS
  <2> QED
    BY <2>1, <2>2
<1>5. Sums(f)
  BY <1>4
<1>6. Sums(end)
  BY <1>5
<1>7. Stamp(k) = end[k]
  BY Zenon DEF Stamp
<1>8. \A i \in 0 .. k : end[i] = IF i = 0 THEN 0 ELSE end[i - 1] + Head(s[i])
  <2> HIDE DEF end
  <2> QED
    BY <1>6
<1>9. \A i \in 0 .. k : i \in {j \in 0 .. k : end[j] \in Int}
  <2> HIDE DEF end
  <2>1. 0 \in {j \in 0 .. k : end[j] \in Int}
    BY <1>8
  <2>2. ASSUME NEW i \in 0 .. k - 1, i \in {j \in 0 .. k : end[j] \in Int}
        PROVE  i + 1 \in {j \in 0 .. k : end[j] \in Int}
    <3>1. i + 1 \in 1 .. k /\ (i + 1) - 1 = i
      OBVIOUS
    <3>2. end[i + 1] = end[i] + Head(s[i + 1]) /\ Head(s[i + 1]) \in Int
      BY <1>1, <1>8, <3>1
    <3> QED
      BY <2>2, <3>1, <3>2
  <2> QED
    BY <2>1, <2>2, InductionUpTo
<1>10. end \in [0 .. k -> Int]
  <2> HIDE DEF end
  <2> QED
    BY <1>6, <1>9
<1>11. /\ \A i \in 0 .. k : end[i] = IF i = 0 THEN 0 ELSE end[i - 1] + Head(job.signal[i])
       /\ Stamp(k) = end[k]
  BY <1>7, <1>8
<1> HIDE DEF end
<1> QED
  BY <1>10, <1>11, Zenon

(* A piece ends its duration after the piece before it. *)
LEMMA StampStep ==
    ASSUME job \in Jobs, NEW n \in Nat, PlainUpTo(n + 1)
    PROVE  Stamp(n + 1) = (IF job.isAbsTime THEN Head(job.signal[n + 1])
                           ELSE Stamp(n) + Head(job.signal[n + 1]))
<1>1. CASE job.isAbsTime
  BY <1>1 DEF Stamp
<1>2. CASE ~ job.isAbsTime
  <2>1. PlainUpTo(n)
    BY PlainBefore
  <2>2. PICK f \in [0 .. n -> Int] :
           /\ \A i \in 0 .. n : f[i] = IF i = 0 THEN 0 ELSE f[i - 1] + Head(job.signal[i])
           /\ Stamp(n) = f[n]
    BY <1>2, <2>1, StampIsSum
  <2>3. PICK g \in [0 .. n + 1 -> Int] :
           /\ \A i \in 0 .. n + 1 : g[i] = IF i = 0 THEN 0 ELSE g[i - 1] + Head(job.signal[i])
           /\ Stamp(n + 1) = g[n + 1]
    <3>1. n + 1 \in Nat
      OBVIOUS
    <3> QED
      BY <1>2, <3>1, StampIsSum, Zenon
  <2>4. \A i \in 0 .. n : i \in {j \in 0 .. n : g[j] = f[j]}
    <3>1. 0 \in {j \in 0 .. n : g[j] = f[j]}
      BY <2>2, <2>3
    <3>2. ASSUME NEW i \in 0 .. n - 1, i \in {j \in 0 .. n : g[j] = f[j]}
          PROVE  i + 1 \in {j \in 0 .. n : g[j] = f[j]}
      <4>1. i + 1 \in 0 .. n /\ i + 1 \in 0 .. n + 1 /\ i + 1 # 0 /\ (i + 1) - 1 = i
        OBVIOUS
      <4>2. f[i + 1] = f[i] + Head(job.signal[i + 1])
        BY <2>2, <4>1
      <4>3. g[i + 1] = g[i] + Head(job.signal[i + 1])
        BY <2>3, <4>1
      <4> QED
        BY <3>2, <4>1, <4>2, <4>3
    <3> QED
      BY <3>1, <3>2, InductionUpTo
  <2>5. g[n] = f[n]
    BY <2>4
  <2>6. g[n + 1] = g[n] + Head(job.signal[n + 1])
    <3>1. n + 1 \in 0 .. n + 1 /\ n + 1 # 0 /\ (n + 1) - 1 = n
      OBVIOUS
    <3> QED
      BY <2>3, <3>1
  <2> QED
    BY <1>2, <2>2, <2>3, <2>5, <2>6
<1> QED
  BY <1>1, <1>2

LEMMA StampOfNone ==
    ASSUME job \in Jobs, PlainUpTo(0)
    PROVE  Stamp(0) = 0
<1>1. CASE job.isAbsTime
  BY <1>1 DEF Stamp
<1>2. CASE ~ job.isAbsTime
  <2>1. PICK f \in [0 .. 0 -> Int] :
           /\ \A i \in 0 .. 0 : f[i] = IF i = 0 THEN 0 ELSE f[i - 1] + Head(job.signal[i])
           /\ Stamp(0) = f[0]
    BY <1>2, StampIsSum
  <2> QED
    BY <2>1
<1> QED
  BY <1>1, <1>2

LEMMA SameStamp ==
    ASSUME NEW k, job' = job
    PROVE  Stamp(k)' = Stamp(k)
  BY DEF Stamp

-----------------------------------------------------------------------------
(* The types of a line. *)
LEMMA LineTypes ==
    ASSUME NEW line \in Seq(Field), time \in Int
    PROVE  TimeOf(line) \in Int /\ ValuationOf(line) \in Seq(Int)
<1> DEFINE junk == {i \in DOMAIN line : line[i] = Junk} \cup {Len(line) + 1}
<1>1. /\ Len(line) \in Nat /\ DOMAIN line = 1 .. Len(line)
      /\ \A i \in 1 .. Len(line) : line[i] \in Field
  BY ElementOfSeq, LenProperties
<1>2. TimeOf(line) \in Int
  <2>1. line # <<>> => Head(line) = line[1] /\ 1 \in 1 .. Len(line)
    BY <1>1
  <2> QED
    BY <1>1, <2>1 DEF TimeOf, Field
<1>3. PICK n \in junk : \A i \in junk : n <= i
  <2>1. junk \subseteq Int /\ IsFiniteSet(junk) /\ junk # {}
    <3>1. junk \subseteq 1 .. Len(line) + 1
      BY <1>1
    <3>2. IsFiniteSet(1 .. Len(line) + 1)
      BY <1>1, FS_Interval
    <3> QED
      BY <3>1, <3>2, FS_Subset
  <2> HIDE DEF junk
  <2> QED
    BY <2>1, LeastOfFinite
<1>4. Min(junk) = n
  <2>1. junk \subseteq Int
    BY <1>1
  <2> HIDE DEF junk
  <2>2. \A i \in junk : (\A j \in junk : i <= j) => i = n
    BY <1>3, <2>1
  <2> QED
    BY <1>3, <2>2, Zenon DEF Min
<1>5. n \in 1 .. Len(line) + 1
  BY <1>1
<1>6. ASSUME NEW i \in 2 .. n - 1 PROVE line[i] \in Int
  <2>1. i \in 1 .. Len(line) /\ i \notin junk
    BY <1>1, <1>3, <1>5
  <2> QED
    BY <1>1, <2>1 DEF Field
<1>7. ValuationOf(line) = SubSeq(line, 2, n - 1)
  BY <1>4, Zenon DEF ValuationOf
<1>8. SubSeq(line, 2, n - 1) \in Seq(Int)
  BY <1>1, <1>5, <1>6, SubSeqProperties
<1> QED
  BY <1>2, <1>7, <1>8

(* fgets_unsafe leaves lines of fields. *)
LEMMA LinesTypes ==
    ASSUME rest \in Seq(Seq(Field)), ~ EndOfFile, NEW l \in Lines
    PROVE  l.text \in Seq(Field) /\ l.rest \in Seq(Seq(Field))
<1> DEFINE line == Head(rest)
<1>1. rest # <<>> /\ line \in Seq(Field) /\ Tail(rest) \in Seq(Seq(Field)) /\ Len(line) \in Nat
  BY HeadTailProperties, LenProperties DEF EndOfFile
<1>2. Capacity \in Nat \ {0} /\ \A g \in Garbage : g \in Seq(Field)
  BY DriverAssumption DEF Field
<1>3. CASE Len(line) >= Capacity
  <2>1. /\ l.text = SubSeq(line, 1, Capacity)
        /\ l.rest = <<SubSeq(line, Capacity + 1, Len(line))>> \o Tail(rest)
    <3>1. Lines = {[text |-> SubSeq(line, 1, Capacity),
                    rest |-> <<SubSeq(line, Capacity + 1, Len(line))>> \o Tail(rest)]}
      BY <1>3, Zenon DEF Lines
    <3>2. l = [text |-> SubSeq(line, 1, Capacity),
               rest |-> <<SubSeq(line, Capacity + 1, Len(line))>> \o Tail(rest)]
      BY <3>1, Zenon
    <3> QED
      BY <3>2, Zenon
  <2>2. \A i \in 1 .. Len(line) : line[i] \in Field
    BY <1>1, ElementOfSeq
  <2>3. SubSeq(line, 1, Capacity) \in Seq(Field)
    BY <1>1, <1>2, <1>3, <2>2, SubSeqProperties
  <2>4. SubSeq(line, Capacity + 1, Len(line)) \in Seq(Field)
    BY <1>1, <1>2, <1>3, <2>2, SubSeqProperties
  <2>5. <<SubSeq(line, Capacity + 1, Len(line))>> \in Seq(Seq(Field))
    BY <2>4
  <2> QED
    BY <1>1, <2>1, <2>3, <2>5, ConcatProperties
<1>4. CASE ~ (Len(line) >= Capacity) /\ Terminated
  <2>1. Lines = {[text |-> line, rest |-> Tail(rest)]}
    BY <1>4, Zenon DEF Lines
  <2>2. l = [text |-> line, rest |-> Tail(rest)]
    BY <2>1, Zenon
  <2>3. l.text = line /\ l.rest = Tail(rest)
    BY <2>2, Zenon
  <2> QED
    BY <1>1, <2>3, Zenon
<1>5. CASE ~ (Len(line) >= Capacity) /\ ~ Terminated
  <2>1. PICK g \in Garbage : l.text = line \o g /\ l.rest = <<>>
    <3>1. Lines = {[text |-> line \o g, rest |-> <<>>] : g \in Garbage}
      BY <1>5, Zenon DEF Lines
    <3>2. PICK g \in Garbage : l = [text |-> line \o g, rest |-> <<>>]
      BY <3>1, Zenon
    <3>3. l.text = line \o g /\ l.rest = <<>>
      BY <3>2, Zenon
    <3> QED
      BY <3>3, Zenon
  <2> QED
    BY <1>1, <1>2, <2>1, ConcatProperties
<1> QED
  BY <1>3, <1>4, <1>5

-----------------------------------------------------------------------------
(* The steps. *)

LEMMA InitPrintInv == Init => PrintInv
<1> SUFFICES ASSUME Init PROVE PrintInv
  OBVIOUS
<1>1. /\ job \in Jobs /\ pc = "automaton" /\ rest = job.signal /\ time \in Times
      /\ valuation = <<>> /\ last_time = 0 /\ absTime = 0 /\ result = <<>>
      /\ fed = <<>> /\ printed = <<>>
  BY DEF Init, Engine!Init
<1>2. Len(fed) = 0 /\ DOMAIN fed = {} /\ Len(printed) = 0 /\ DOMAIN printed = {}
      /\ printed \in Seq({})
  BY <1>1
<1>3. TypeInv
  BY <1>1, SignalType, DriverAssumption DEF TypeInv
<1>4. ClockIsStamp
  BY <1>1, <1>2, StampOfNone DEF ClockIsStamp
<1>5. FoundInPiece /\ ResultOfPiece /\ PrintedSoFar
  BY <1>1, <1>2 DEF FoundInPiece, ResultOfPiece, PrintedSoFar, IsSequence
<1> QED
  BY <1>3, <1>4, <1>5 DEF PrintInv

(* A step that neither feeds nor prints. *)
LEMMA QuietStep ==
    ASSUME PrintInv, TypeInv', job' = job, fed' = fed, printed' = printed, result' = result,
           absTime' = absTime, (pc' = "print") <=> (pc = "print")
    PROVE  PrintInv'
<1>1. \A k : (PlainUpTo(k)' <=> PlainUpTo(k)) /\ Stamp(k)' = Stamp(k)
  BY PlainStep, SameStamp
<1>2. ClockIsStamp'
  <2>1. PlainUpTo(Len(fed))' <=> PlainUpTo(Len(fed))
    BY DEF PlainUpTo, WrittenUpTo, ReadableAsSuch
  <2>2. Stamp(Len(fed))' = Stamp(Len(fed))
    BY DEF Stamp
  <2> QED
    BY <2>1, <2>2 DEF PrintInv, ClockIsStamp
<1>3. FoundInPiece'
  <2>1. SUFFICES ASSUME NEW k \in DOMAIN fed'
                 PROVE  /\ \E a, b : fed'[k].found \in Found(a, b)
                        /\ PlainUpTo(k)' => \A m \in DOMAIN fed'[k].found :
                               Engine!EndsIn(m, Stamp(k - 1)', Stamp(k)')
    BY DEF FoundInPiece
  <2>2. (PlainUpTo(k)' <=> PlainUpTo(k)) /\ Stamp(k - 1)' = Stamp(k - 1) /\ Stamp(k)' = Stamp(k)
    BY <1>1
  <2> QED
    BY <2>2 DEF PrintInv, FoundInPiece
<1>4. ResultOfPiece'
  BY DEF PrintInv, ResultOfPiece
<1>5. PrintedSoFar'
  BY DEF PrintInv, PrintedSoFar, Shown
<1> QED
  BY <1>2, <1>3, <1>4, <1>5 DEF PrintInv

LEMMA GetOnePrints == ASSUME PrintInv, FedInv, GetOne PROVE PrintInv'
<1>1. /\ pc = "line" /\ pc' = "feed" /\ job' = job /\ fed' = fed /\ last_time' = last_time
      /\ absTime' = absTime /\ result' = result /\ printed' = printed /\ ~ EndOfFile
  BY DEF GetOne
<1>2. PICK l \in Lines : /\ rest' = l.rest /\ time' = TimeOf(l.text)
                         /\ valuation' = valuation \o ValuationOf(l.text)
  BY DEF GetOne
<1>3. l.text \in Seq(Field) /\ l.rest \in Seq(Seq(Field))
  BY <1>1, LinesTypes DEF PrintInv, TypeInv
<1>4. TimeOf(l.text) \in Int /\ ValuationOf(l.text) \in Seq(Int)
  BY <1>3, LineTypes DEF PrintInv, TypeInv
<1>5. valuation \o ValuationOf(l.text) \in Seq(Int)
  BY <1>4, ConcatProperties DEF PrintInv, TypeInv
<1>6. TypeInv'
  BY <1>1, <1>2, <1>3, <1>4, <1>5 DEF PrintInv, TypeInv
<1> QED
  BY <1>1, <1>6, QuietStep

(* A call of feed for the k-th line moves the clock to its stamp. *)
LEMMA FeedPrints == ASSUME PrintInv, FedInv, Feed PROVE PrintInv'
<1> DEFINE n == Len(fed)
           s == job.signal
<1>1. PICK found \in Found(absTime, absTime + Duration) :
         /\ fed' = Append(fed, [valuation |-> valuation, duration |-> Duration, found |-> found])
         /\ \A m \in DOMAIN found : Engine!EndsIn(m, absTime, absTime + Duration)
         /\ absTime' = absTime + Duration
         /\ result' = [m \in DOMAIN result \cup DOMAIN found |->
                         Plus(Engine!WeightIn(result, m), Engine!WeightIn(found, m))]
  BY Zenon DEF Feed, FeedWith, Engine!Feed
<1>2. /\ pc = "feed" /\ pc' = "print" /\ job' = job /\ rest' = rest /\ valuation' = <<>>
      /\ last_time' = (IF job.isAbsTime THEN time ELSE last_time) /\ job \in Jobs
      /\ time' = time /\ printed' = printed
  BY DEF Feed, FeedWith, FedInv, LoopInv
<1>3. /\ n \in Nat /\ DOMAIN fed = 1 .. n
      /\ Len(fed') = n + 1 /\ DOMAIN fed' = 1 .. n + 1
      /\ \A k \in 1 .. n : fed'[k] = fed[k]
      /\ fed'[n + 1] = [valuation |-> valuation, duration |-> Duration, found |-> found]
  BY <1>1, SequenceFacts, AppendFacts DEF FedInv, LoopInv
<1>4. \A k : (PlainUpTo(k)' <=> PlainUpTo(k)) /\ Stamp(k)' = Stamp(k)
  BY <1>2, PlainStep, SameStamp
<1>5. TypeInv'
  BY <1>1, <1>2 DEF PrintInv, TypeInv, Duration
<1>6. ASSUME PlainUpTo(n + 1) PROVE absTime = Stamp(n) /\ absTime' = Stamp(n + 1)
  <2>1. PlainUpTo(n)
    BY <1>2, <1>3, <1>6, PlainBefore
  <2>2. absTime = Stamp(n)
    BY <2>1 DEF PrintInv, ClockIsStamp
  <2>3. time = Head(s[n + 1])
    <3>1. Taken = n + 1
      BY <1>2, <1>3 DEF Taken
    <3> QED
      BY <1>2, <1>6, <3>1 DEF FedInv, LineInHand
  <2>4. Stamp(n + 1) = IF job.isAbsTime THEN time ELSE absTime + time
    BY <1>2, <1>3, <1>6, <2>2, <2>3, StampStep
  <2> QED
    BY <1>1, <1>2, <2>2, <2>4 DEF PrintInv, TypeInv, Duration
<1>7. ClockIsStamp'
  <2>1. SUFFICES ASSUME PlainUpTo(Len(fed))' PROVE absTime' = Stamp(Len(fed))'
    BY DEF ClockIsStamp
  <2>2. PlainUpTo(n + 1)
    BY <1>2, <1>3, <2>1 DEF PlainUpTo, WrittenUpTo, ReadableAsSuch
  <2>3. Stamp(Len(fed))' = Stamp(n + 1)
    BY <1>2, <1>3 DEF Stamp
  <2> QED
    BY <1>6, <2>2, <2>3
<1>8. FoundInPiece'
  <2>1. SUFFICES ASSUME NEW k \in 1 .. n + 1
                 PROVE  /\ \E a, b : fed'[k].found \in Found(a, b)
                        /\ PlainUpTo(k) => \A m \in DOMAIN fed'[k].found :
                               Engine!EndsIn(m, Stamp(k - 1), Stamp(k))
    <3>1. SUFFICES ASSUME NEW k \in DOMAIN fed'
                   PROVE  /\ \E a, b : fed'[k].found \in Found(a, b)
                          /\ PlainUpTo(k)' => \A m \in DOMAIN fed'[k].found :
                                 Engine!EndsIn(m, Stamp(k - 1)', Stamp(k)')
      BY DEF FoundInPiece
    <3>2. /\ PlainUpTo(k)' <=> PlainUpTo(k)
          /\ Stamp(k - 1)' = Stamp(k - 1) /\ Stamp(k)' = Stamp(k)
      BY <1>4
    <3> QED
      BY <1>3, <3>2
  <2>2. CASE k \in 1 .. n
    BY <1>3, <2>2 DEF PrintInv, FoundInPiece
  <2>3. CASE k = n + 1
    <3>1. fed'[k].found = found /\ k - 1 = n
      BY <1>3, <2>3
    <3>2. PlainUpTo(k) => \A m \in DOMAIN found : Engine!EndsIn(m, Stamp(n), Stamp(n + 1))
      BY <1>1, <1>6, <2>3
    <3> QED
      BY <2>3, <3>1, <3>2
  <2> QED
    BY <2>2, <2>3
<1>9. ResultOfPiece'
  <2>1. DOMAIN result = {}
    BY <1>2 DEF PrintInv, ResultOfPiece
  <2>2. DOMAIN result' = DOMAIN found
    BY <1>1, <2>1
  <2>3. \A m \in DOMAIN found : result'[m] = Plus(Zero, found[m])
    BY <1>1, <2>1 DEF Engine!WeightIn
  <2> QED
    BY <1>2, <1>3, <2>2, <2>3 DEF ResultOfPiece
<1>10. PrintedSoFar'
  <2>1. IsSequence(printed) /\ Len(printed) = n /\ DOMAIN printed = 1 .. n
    BY <1>2, <1>3, SequenceFacts DEF PrintInv, PrintedSoFar
  <2>2. ZeroIsNeutral => \A k \in 1 .. n :
           printed[k] = IF job.quiet THEN {} ELSE Shown(job.boolean, fed[k].found)
    BY <2>1 DEF PrintInv, PrintedSoFar
  <2>3. ZeroIsNeutral => \A k \in 1 .. n :
           printed'[k] = IF job'.quiet THEN {} ELSE Shown(job'.boolean, fed'[k].found)
    BY <1>2, <1>3, <2>2
  <2>4. IsSequence(printed')
    BY <1>2, <2>1
  <2>5. Len(printed') = Len(fed') - 1 /\ DOMAIN printed' = 1 .. n
    BY <1>2, <1>3, <2>1
  <2> QED
    BY <1>2, <2>3, <2>4, <2>5 DEF PrintedSoFar
<1> QED
  BY <1>5, <1>7, <1>8, <1>9, <1>10 DEF PrintInv

LEMMA PrintResultsPrints == ASSUME PrintInv, FedInv, PrintResults PROVE PrintInv'
<1> DEFINE n == Len(fed)
<1>1. /\ pc = "print" /\ pc' = "line" /\ job' = job /\ fed' = fed /\ absTime' = absTime
      /\ rest' = rest /\ time' = time /\ valuation' = valuation /\ last_time' = last_time
      /\ result' = <<>>
      /\ printed' = Append(printed, IF job.quiet THEN {} ELSE Shown(job.boolean, result))
  BY DEF PrintResults, PrintAnd
<1>2. /\ n \in Nat /\ n > 0 /\ DOMAIN fed = 1 .. n
      /\ DOMAIN result = DOMAIN fed[n].found
      /\ \A m \in DOMAIN result : result[m] = Plus(Zero, fed[n].found[m])
  BY <1>1, SequenceFacts DEF PrintInv, FedInv, LoopInv, ResultOfPiece
<1>3. ZeroIsNeutral => Shown(job.boolean, result) = Shown(job.boolean, fed[n].found)
  <2>1. \E a, b : fed[n].found \in Found(a, b)
    BY <1>2 DEF PrintInv, FoundInPiece
  <2>2. ZeroIsNeutral => \A m \in DOMAIN result : result[m] = fed[n].found[m]
    BY <1>2, <2>1 DEF ZeroIsNeutral
  <2> QED
    BY <1>2, <2>2 DEF Shown
<1>4. IsSequence(printed) /\ Len(printed) = n - 1 /\ DOMAIN printed = 1 .. n - 1
  BY <1>1, <1>2, SequenceFacts DEF PrintInv, PrintedSoFar
<1>5. /\ IsSequence(printed') /\ Len(printed') = n /\ DOMAIN printed' = 1 .. n
      /\ \A k \in 1 .. n - 1 : printed'[k] = printed[k]
      /\ ZeroIsNeutral => printed'[n] = IF job.quiet THEN {} ELSE Shown(job.boolean, fed[n].found)
  <2> DEFINE e == IF job.quiet THEN {} ELSE Shown(job.boolean, result)
  <2>1. printed' = Append(printed, e) /\ (n - 1) + 1 = n
    BY <1>1, <1>2
  <2>2. ZeroIsNeutral => e = IF job.quiet THEN {} ELSE Shown(job.boolean, fed[n].found)
    BY <1>3
  <2> HIDE DEF e, n
  <2>3. /\ IsSequence(printed') /\ Len(printed') = (n - 1) + 1
        /\ DOMAIN printed' = 1 .. (n - 1) + 1
        /\ \A k \in 1 .. n - 1 : printed'[k] = printed[k]
        /\ printed'[(n - 1) + 1] = e
    BY <1>4, <2>1, AppendFacts
  <2> QED
    BY <2>1, <2>2, <2>3
<1>6. PrintedSoFar'
  <2>1. ZeroIsNeutral => \A k \in 1 .. n - 1 :
           printed[k] = IF job.quiet THEN {} ELSE Shown(job.boolean, fed[k].found)
    BY <1>4 DEF PrintInv, PrintedSoFar
  <2>2. ZeroIsNeutral => \A k \in 1 .. n :
           printed'[k] = IF job.quiet THEN {} ELSE Shown(job.boolean, fed[k].found)
    BY <1>2, <1>5, <2>1
  <2> QED
    <3>1. Len(printed') = IF pc' = "print" THEN Len(fed') - 1 ELSE Len(fed')
      BY <1>1, <1>2, <1>5
    <3>2. ZeroIsNeutral => \A k \in DOMAIN printed' :
             printed'[k] = IF job'.quiet THEN {} ELSE Shown(job'.boolean, fed'[k].found)
      BY <1>1, <1>5, <2>2
    <3> QED
      BY <1>5, <3>1, <3>2 DEF PrintedSoFar
<1>7. TypeInv'
  BY <1>1 DEF PrintInv, TypeInv
<1>8. ClockIsStamp'
  <2>1. PlainUpTo(Len(fed))' <=> PlainUpTo(Len(fed))
    BY <1>1 DEF PlainUpTo, WrittenUpTo, ReadableAsSuch
  <2>2. Stamp(Len(fed))' = Stamp(Len(fed))
    BY <1>1 DEF Stamp
  <2> QED
    BY <1>1, <2>1, <2>2 DEF PrintInv, ClockIsStamp
<1>9. FoundInPiece'
  <2>1. \A k : (PlainUpTo(k)' <=> PlainUpTo(k)) /\ Stamp(k)' = Stamp(k)
    BY <1>1, PlainStep, SameStamp
  <2> QED
    <3>1. SUFFICES ASSUME NEW k \in DOMAIN fed'
                   PROVE  /\ \E a, b : fed'[k].found \in Found(a, b)
                          /\ PlainUpTo(k)' => \A m \in DOMAIN fed'[k].found :
                                 Engine!EndsIn(m, Stamp(k - 1)', Stamp(k)')
      BY DEF FoundInPiece
    <3>2. /\ PlainUpTo(k)' <=> PlainUpTo(k)
          /\ Stamp(k - 1)' = Stamp(k - 1) /\ Stamp(k)' = Stamp(k)
      BY <2>1
    <3> QED
      BY <1>1, <3>2 DEF PrintInv, FoundInPiece
<1>10. ResultOfPiece'
  BY <1>1 DEF ResultOfPiece
<1> QED
  BY <1>6, <1>7, <1>8, <1>9, <1>10 DEF PrintInv

LEMMA NextPrintInv ==
    ASSUME PrintInv, FedInv, [Next]_vars
    PROVE  PrintInv'
<1>1. CASE ParseBoostTA
  BY <1>1, QuietStep DEF ParseBoostTA, loopVars, PrintInv, TypeInv
<1>2. CASE GetOne
  BY <1>2, GetOnePrints
<1>3. CASE Feed
  BY <1>3, FeedPrints
<1>4. CASE PrintResults
  BY <1>4, PrintResultsPrints
<1>5. CASE Exit
  BY <1>5, QuietStep DEF Exit, loopVars, PrintInv, TypeInv
<1>6. CASE UNCHANGED vars
  BY <1>6, QuietStep DEF vars, loopVars, PrintInv, TypeInv
<1> QED
  BY <1>1, <1>2, <1>3, <1>4, <1>5, <1>6 DEF Next, Exited

LEMMA PrintedUpTo ==
    ASSUME FedInv, PrintInv
    PROVE  /\ Len(fed) \in Nat /\ DOMAIN fed = 1 .. Len(fed)
           /\ Len(printed) \in {Len(fed), Len(fed) - 1}
           /\ DOMAIN printed \subseteq DOMAIN fed
<1>1. Len(fed) \in Nat /\ DOMAIN fed = 1 .. Len(fed)
  BY SequenceFacts DEF FedInv, LoopInv
<1>2. IsSequence(printed)
  BY DEF PrintInv, PrintedSoFar
<1>3. DOMAIN printed = 1 .. Len(printed) /\ Len(printed) \in Nat
  BY <1>2, SequenceFacts
<1>4. Len(printed) = IF pc = "print" THEN Len(fed) - 1 ELSE Len(fed)
  BY DEF PrintInv, PrintedSoFar
<1>5. Len(printed) <= Len(fed)
  <2>1. Len(fed) \in Nat
    BY <1>1
  <2>2. CASE pc = "print"
    BY <1>4, <2>1, <2>2
  <2>3. CASE pc # "print"
    BY <1>4, <2>1, <2>3
  <2> QED
    BY <2>2, <2>3
<1>6. ASSUME NEW k \in DOMAIN printed PROVE k \in 1 .. Len(fed)
  <2>1. k \in 1 .. Len(printed)
    BY <1>3
  <2> QED
    BY <1>1, <1>3, <1>5, <2>1
<1> QED
  BY <1>1, <1>3, <1>4, <1>6

(* Between two lines the value vector and the results are empty; in        *)
(* absolute mode last_time is where the engine's clock stands; what a line *)
(* is read into is made of numbers, whatever the buffer and the memory     *)
(* held.                                                                   *)
THEOREM DriverTypeOK == Spec => []TypeOK
<1>1. FedInv /\ PrintInv => TypeOK
  <2> SUFFICES ASSUME FedInv, PrintInv PROVE TypeOK
    OBVIOUS
  <2>1. time \in Int /\ valuation \in Seq(Int) /\ (job.isAbsTime => last_time = absTime)
    BY DEF PrintInv, TypeInv
  <2>2. Range(valuation) \subseteq Int
    BY <2>1, ElementOfSeq, LenProperties DEF Range
  <2>3. pc = "line" => valuation = <<>> /\ result = <<>>
    BY DEF FedInv, LoopInv, PrintInv, ResultOfPiece
  <2> QED
    BY <2>1, <2>2, <2>3, PrintedUpTo DEF TypeOK
<1> QED
  BY <1>1, InitFedInv, InitPrintInv, NextFedInv, NextPrintInv, PTL DEF Spec

(* What was printed after the k-th line is what the k-th call of feed has  *)
(* found, nothing of an earlier piece, and it ends between the time stamps *)
(* of that piece: the results are cleared, and last_time and the engine's  *)
(* clock go together in either mode, over any engine that keeps the        *)
(* promise of Matcher and any weights that Zero leaves alone.              *)
THEOREM PrintedInPieceHolds == ZeroIsNeutral => (Spec => []PrintedInPiece)
<1> SUFFICES ASSUME ZeroIsNeutral PROVE Spec => []PrintedInPiece
  OBVIOUS
<1>1. FedInv /\ PrintInv => PrintedInPiece
  <2> SUFFICES ASSUME FedInv, PrintInv, NEW k \in DOMAIN printed
               PROVE  /\ ~ job.quiet => printed[k] = Shown(job.boolean, fed[k].found)
                      /\ PlainUpTo(k) => \A m \in printed[k] :
                             Engine!EndsIn(m, Stamp(k - 1), Stamp(k))
    BY DEF PrintedInPiece
  <2>1. /\ Len(fed) \in Nat /\ DOMAIN fed = 1 .. Len(fed)
        /\ DOMAIN printed \subseteq DOMAIN fed
    BY PrintedUpTo
  <2>3. k \in DOMAIN fed
    BY <2>1
  <2>4. printed[k] = IF job.quiet THEN {} ELSE Shown(job.boolean, fed[k].found)
    BY DEF PrintInv, PrintedSoFar
  <2>5. \A m \in printed[k] : m \in DOMAIN fed[k].found
    BY <2>4 DEF Shown
  <2> QED
    BY <2>3, <2>4, <2>5 DEF PrintInv, FoundInPiece
<1>2. FedInv /\ PrintInv /\ [Next]_vars => FedInv' /\ PrintInv'
  BY NextFedInv, NextPrintInv
<1>3. Init => FedInv /\ PrintInv
  BY InitFedInv, InitPrintInv
<1> QED
  BY <1>1, <1>2, <1>3, PTL DEF Spec
=============================================================================

----------------------- MODULE ExperimentStoreProofs -----------------------
(***************************************************************************)
(* Proofs about ExperimentStore, for every set of runs and every bound.    *)
(***************************************************************************)
EXTENDS ExperimentStore, FiniteSetTheorems, WellFoundedInduction, TLAPS

Pieces == [by : Runs, n : Nat, part : {"head", "tail"}]

\* The numbers.
IdTypes ==
    /\ older \in SUBSET Nat /\ dirs \in SUBSET Nat
    /\ num \in [Runs -> Nat]
    /\ rivals \in [Runs -> SUBSET Runs]
    /\ phase \in [Runs -> {"new", "chosen", "created", "freezing", "loop", "context",
                           "events", "done", "killed", "killedLate"}]

\* Directories are never removed; a run that has chosen and has not created its
\* directory is "chosen".
DirsInv ==
    /\ older \subseteq dirs
    /\ \A r \in Runs : phase[r] = "new" => num[r] = 0
    /\ \A r \in Runs : phase[r] \notin {"new", "chosen"} => num[r] \in dirs

IdInv == IdTypes /\ DirsInv /\ OnlyRacingRunsShare

\* The files, the buffers and the rows.
RowInv ==
    /\ num \in [Runs -> Nat]
    /\ made \in [Runs -> [Streams -> Nat]]
    /\ buffer \in [Runs -> [Streams -> Seq(Pieces)]]
    /\ raw \in [Numbers -> [Streams -> Seq(Pieces)]]

-----------------------------------------------------------------------------

\* A set of naturals has a least element.
LEMMA MinExists ==
    ASSUME NEW S \in SUBSET Nat, S # {}
    PROVE  \E x \in S : \A y \in S : x <= y
<1>1. PICK x \in S : \A y \in S : ~ (<<y, x>> \in OpToRel(<, Nat))
  BY NatLessThanWellFounded, WFMin
<1>2. \A y \in S : ~(y < x)
  BY <1>1 DEF OpToRel
<1> QED
  BY <1>2

\* The next number is one of the day's, and has no directory unless it is the
\* one after the last.
LEMMA NextNumberIsFree ==
    /\ NextNumber \in Numbers
    /\ NextNumber \in 1 .. MaxNum => NextNumber \notin dirs
<1> DEFINE free == Numbers \ (dirs \ {MaxNum + 1})
<1>1. MaxNum + 1 \in free /\ free \in SUBSET Nat
  BY BoundsAssumption DEF Numbers
<1>2. PICK x \in free : \A y \in free : x <= y
  BY <1>1, MinExists
<1>3. Min(free) \in free
  BY <1>2 DEF Min
<1>4. NextNumber \in free
  BY <1>3 DEF NextNumber
<1> QED
  BY <1>4, BoundsAssumption

\* Only Choose writes num and rivals, and only Choose and Create move a run into
\* a phase whose number matters; every other step leaves the numbers alone.
LEMMA OtherStepsKeepIdInv ==
    ASSUME IdInv, UNCHANGED idVars, NEW r \in Runs, NEW p,
           phase' = [phase EXCEPT ![r] = p],
           p \in {"created", "freezing", "loop", "context", "events", "done", "killed",
                  "killedLate"},
           phase[r] \notin {"new", "chosen"}
    PROVE  IdInv'
<1>1. IdTypes'
  BY DEF IdInv, IdTypes, idVars
<1>2. DirsInv'
  BY DEF IdInv, IdTypes, DirsInv, idVars
<1>3. OnlyRacingRunsShare'
  BY DEF IdInv, OnlyRacingRunsShare, idVars
<1> QED
  BY <1>1, <1>2, <1>3 DEF IdInv

LEMMA SameIdsKeepIdInv ==
    ASSUME IdInv, UNCHANGED <<idVars, phase>>
    PROVE  IdInv'
  BY DEF IdInv, IdTypes, DirsInv, OnlyRacingRunsShare, idVars

\* The number chosen has no directory: another run with the same number has
\* chosen it and not created it.
LEMMA ChooseKeepsIdInv ==
    ASSUME IdInv, NEW r \in Runs, Choose(r)
    PROVE  IdInv'
<1>1. /\ phase[r] = "new" /\ phase' = [phase EXCEPT ![r] = "chosen"]
      /\ num' = [num EXCEPT ![r] = NextNumber]
      /\ rivals' = [rivals EXCEPT ![r] = {q \in Runs : phase[q] = "chosen"}]
      /\ UNCHANGED <<older, dirs>>
  BY DEF Choose, Goes
<1>2. NextNumber \in Nat /\ (NextNumber \in 1 .. MaxNum => NextNumber \notin dirs)
  BY NextNumberIsFree, BoundsAssumption DEF Numbers
<1>3. IdTypes'
  BY <1>1, <1>2 DEF IdInv, IdTypes
<1>4. DirsInv'
  BY <1>1, <1>2 DEF IdInv, IdTypes, DirsInv
<1>5. OnlyRacingRunsShare'
  <2> SUFFICES ASSUME NEW a \in Runs, num'[a] \in 1 .. MaxNum
               PROVE  /\ num'[a] \notin older
                      /\ \A b \in Runs \ {a} :
                             num'[b] = num'[a] => b \in rivals'[a] \/ a \in rivals'[b]
    BY <1>1 DEF OnlyRacingRunsShare
  <2>1. \A b \in Runs : b # r => num'[b] = num[b] /\ rivals'[b] = rivals[b]
    BY <1>1 DEF IdInv, IdTypes
  <2>2. num'[r] = NextNumber /\ rivals'[r] = {q \in Runs : phase[q] = "chosen"}
    BY <1>1 DEF IdInv, IdTypes
  <2>3. \A b \in Runs : b # r /\ num[b] = NextNumber /\ NextNumber \in 1 .. MaxNum
                            => phase[b] = "chosen"
    BY <1>2 DEF IdInv, DirsInv
  <2>4. num'[a] \notin older
    <3>1. CASE a = r
      BY <3>1, <1>2, <2>2 DEF IdInv, DirsInv
    <3>2. CASE a # r
      BY <3>2, <2>1 DEF IdInv, OnlyRacingRunsShare
    <3> QED
      BY <3>1, <3>2
  <2>5. ASSUME NEW b \in Runs, b # a, num'[b] = num'[a]
        PROVE  b \in rivals'[a] \/ a \in rivals'[b]
    <3>1. CASE a = r
      BY <3>1, <2>1, <2>2, <2>3, <2>5
    <3>2. CASE a # r /\ b = r
      BY <3>2, <2>1, <2>2, <2>3, <2>5
    <3>3. CASE a # r /\ b # r
      BY <3>3, <2>1, <2>5 DEF IdInv, OnlyRacingRunsShare
    <3> QED
      BY <3>1, <3>2, <3>3
  <2> QED
    BY <2>4, <2>5
<1> QED
  BY <1>3, <1>4, <1>5 DEF IdInv

LEMMA CreateKeepsIdInv ==
    ASSUME IdInv, NEW r \in Runs, Create(r)
    PROVE  IdInv'
<1>1. /\ phase[r] = "chosen" /\ phase' = [phase EXCEPT ![r] = "created"]
      /\ dirs' = dirs \cup {num[r]}
      /\ UNCHANGED <<older, num, rivals>>
  BY DEF Create, Goes
<1>2. IdTypes'
  BY <1>1 DEF IdInv, IdTypes
<1>3. DirsInv'
  BY <1>1 DEF IdInv, IdTypes, DirsInv
<1>4. OnlyRacingRunsShare'
  BY <1>1 DEF IdInv, OnlyRacingRunsShare
<1> QED
  BY <1>2, <1>3, <1>4 DEF IdInv

\* The three writes of the loop differ in the text they leave in the buffer.
LEMMA LoopWrites ==
    ASSUME NEW r \in Runs, Write(r) \/ WriteNotKept(r) \/ WriteLosesText(r)
    PROVE  \E text : WriteTo(r, text)
  BY DEF Write, WriteNotKept, WriteLosesText

LEMMA IdInvIsInductive ==
    ASSUME IdInv, [Next]_vars
    PROVE  IdInv'
<1>1. CASE UNCHANGED vars
  BY <1>1, SameIdsKeepIdInv DEF vars
<1>2. ASSUME NEW r \in Runs, Choose(r) PROVE IdInv'
  BY <1>2, ChooseKeepsIdInv
<1>3. ASSUME NEW r \in Runs, Create(r) PROVE IdInv'
  BY <1>3, CreateKeepsIdInv
<1>4. ASSUME NEW r \in Runs,
             Truncate(r) \/ Freeze(r) \/ EndContext(r) \/ WriteEvents(r) \/ Close(r)
      PROVE  IdInv'
  <2>1. PICK from \in {"created", "freezing", "loop", "context", "events"},
             to \in {"freezing", "loop", "context", "events", "done"} : Goes(r, from, to)
    BY <1>4 DEF Truncate, Freeze, EndContext, WriteEvents, Close
  <2>2. UNCHANGED idVars
    BY <1>4 DEF Truncate, Freeze, EndContext, WriteEvents, Close
  <2> QED
    BY <2>1, <2>2, OtherStepsKeepIdInv DEF Goes
<1>5. ASSUME NEW r \in Runs, Kill(r) PROVE IdInv'
  <2>1. PICK to \in {"killed", "killedLate"} : phase' = [phase EXCEPT ![r] = to]
    BY <1>5 DEF Kill
  <2>2. phase[r] \notin {"new", "chosen"} /\ UNCHANGED idVars
    BY <1>5 DEF Kill
  <2> QED
    BY <2>1, <2>2, OtherStepsKeepIdInv
<1>6. ASSUME NEW r \in Runs, Write(r) \/ WriteNotKept(r) \/ WriteLosesText(r)
      PROVE  IdInv'
  BY <1>6, LoopWrites, SameIdsKeepIdInv DEF WriteTo
<1>7. ASSUME NEW r \in Runs, PollEvent(r) \/ \E s \in Streams : Spill(r, s)
      PROVE  IdInv'
  BY <1>7, SameIdsKeepIdInv DEF PollEvent, Spill
<1> QED
  BY <1>1, <1>2, <1>3, <1>4, <1>5, <1>6, <1>7 DEF Next

LEMMA InitIdInv == Init => IdInv
<1> SUFFICES ASSUME Init PROVE IdInv
  OBVIOUS
<1>1. older \in SUBSET Nat /\ dirs = older
  BY BoundsAssumption DEF Init
<1>2. IdTypes
  BY <1>1 DEF Init, IdTypes
<1>3. DirsInv
  BY DEF Init, DirsInv
<1>4. OnlyRacingRunsShare
  BY DEF Init, OnlyRacingRunsShare
<1> QED
  BY <1>2, <1>3, <1>4 DEF IdInv

-----------------------------------------------------------------------------

\* A file that got more at its end has what it had.
LEMMA ConcatExtends ==
    ASSUME NEW S, NEW f \in Seq(S), NEW g \in Seq(S)
    PROVE  f \o g \in Seq(S) /\ IsPrefix(f, f \o g)
<1>1. f \o g \in Seq(S) /\ Len(f \o g) = Len(f) + Len(g)
  OBVIOUS
<1>2. SubSeq(f, 1, Len(f)) = SubSeq(f \o g, 1, Len(f))
  OBVIOUS
<1> QED
  BY <1>1, <1>2 DEF IsPrefix

LEMMA AppendExtends ==
    ASSUME NEW S, NEW f \in Seq(S), NEW x \in S
    PROVE  Append(f, x) \in Seq(S) /\ IsPrefix(f, Append(f, x))
<1>1. Append(f, x) \in Seq(S) /\ Len(Append(f, x)) = Len(f) + 1
  OBVIOUS
<1>2. SubSeq(f, 1, Len(f)) = SubSeq(Append(f, x), 1, Len(f))
  OBVIOUS
<1> QED
  BY <1>1, <1>2 DEF IsPrefix

LEMMA SameExtends ==
    ASSUME NEW S, NEW f \in Seq(S)
    PROVE  IsPrefix(f, f)
  BY DEF IsPrefix

LEMMA LinesAreLines ==
    ASSUME NEW r \in Runs, NEW k \in Nat
    PROVE  Lines(r, k) \in Seq(Pieces) /\ (k > 0 => Line(r, k) \in Seq(Pieces))
<1>1. \A i \in 1 .. 2 * k : (i + 1) \div 2 \in Nat
  OBVIOUS
<1>2. \A i \in 1 .. 2 * k :
        Fragment(r, (i + 1) \div 2, IF i % 2 = 1 THEN "head" ELSE "tail") \in Pieces
  BY <1>1 DEF Fragment, Pieces
<1>3. 2 * k \in Nat
  OBVIOUS
<1>4. Lines(r, k) \in Seq(Pieces)
  BY <1>2, <1>3 DEF Lines
<1>5. Line(r, k) \in Seq(Pieces)
  BY DEF Line, Fragment, Pieces
<1> QED
  BY <1>4, <1>5

\* What a step makes of the files.
Extends == \A n \in Numbers, s \in Streams : IsPrefix(raw[n][s], raw'[n][s])

LEMMA SameFilesExtend ==
    ASSUME RowInv, UNCHANGED raw
    PROVE  Extends
  BY SameExtends DEF RowInv, Extends

\* A step that puts g at the end of one file of the run.
LEMMA AddedToFile ==
    ASSUME RowInv, NEW r \in Runs, NEW s \in Streams, NEW g \in Seq(Pieces),
           raw' = [raw EXCEPT ![num[r]][s] = @ \o g]
    PROVE  Extends /\ raw' \in [Numbers -> [Streams -> Seq(Pieces)]]
<1>1. \A n \in Numbers, t \in Streams : raw[n][t] \in Seq(Pieces)
  BY DEF RowInv
<1>2. \A n \in Numbers : raw[n] \in [Streams -> Seq(Pieces)]
  BY DEF RowInv
<1>3. \A n \in Numbers : n # num[r] => raw'[n] = raw[n]
  BY DEF RowInv
<1>4. \A n \in Numbers : n = num[r] => raw'[n] = [raw[n] EXCEPT ![s] = raw[n][s] \o g]
  BY DEF RowInv
<1>5. \A n \in Numbers, t \in Streams :
        raw'[n][t] = raw[n][t] \/ raw'[n][t] = raw[n][t] \o g
  <2> SUFFICES ASSUME NEW n \in Numbers, NEW t \in Streams
               PROVE  raw'[n][t] = raw[n][t] \/ raw'[n][t] = raw[n][t] \o g
    OBVIOUS
  <2>1. CASE n # num[r]
    BY <2>1, <1>3
  <2>2. CASE n = num[r]
    <3> DEFINE longer == raw[n][s] \o g
    <3>1. raw'[n] = [raw[n] EXCEPT ![s] = longer] /\ raw[n] \in [Streams -> Seq(Pieces)]
      BY <2>2, <1>2, <1>4
    <3> HIDE DEF longer
    <3>2. raw'[n][t] = IF t = s THEN longer ELSE raw[n][t]
      BY <3>1
    <3> QED
      BY <3>2 DEF longer
  <2> QED
    BY <2>1, <2>2
<1>6. Extends
  BY <1>1, <1>5, SameExtends, ConcatExtends DEF Extends
<1>7. \A n \in Numbers : raw'[n] \in [Streams -> Seq(Pieces)]
  BY <1>1, <1>2, <1>3, <1>4, ConcatExtends
<1>8. raw' \in [Numbers -> [Streams -> Seq(Pieces)]]
  BY <1>7 DEF RowInv
<1> QED
  BY <1>6, <1>8

\* The same, of a single piece.
LEMMA AppendedToFile ==
    ASSUME RowInv, NEW r \in Runs, NEW s \in Streams, NEW x \in Pieces,
           raw' = [raw EXCEPT ![num[r]][s] = Append(@, x)]
    PROVE  Extends /\ raw' \in [Numbers -> [Streams -> Seq(Pieces)]]
<1>1. \A n \in Numbers, t \in Streams : raw[n][t] \in Seq(Pieces)
  BY DEF RowInv
<1>2. \A n \in Numbers : raw[n] \in [Streams -> Seq(Pieces)]
  BY DEF RowInv
<1>3. \A n \in Numbers : n # num[r] => raw'[n] = raw[n]
  BY DEF RowInv
<1>4. \A n \in Numbers : n = num[r] => raw'[n] = [raw[n] EXCEPT ![s] = Append(raw[n][s], x)]
  BY DEF RowInv
<1>5. \A n \in Numbers, t \in Streams :
        raw'[n][t] = raw[n][t] \/ raw'[n][t] = Append(raw[n][t], x)
  BY <1>2, <1>3, <1>4
<1>6. Extends
  BY <1>1, <1>5, SameExtends, AppendExtends DEF Extends
<1>7. \A n \in Numbers : raw'[n] \in [Streams -> Seq(Pieces)]
  BY <1>1, <1>2, <1>3, <1>4, AppendExtends
<1>8. raw' \in [Numbers -> [Streams -> Seq(Pieces)]]
  BY <1>7 DEF RowInv
<1> QED
  BY <1>6, <1>8

\* Closing the writers puts what each buffer holds at the end of its file.
LEMMA ClosedFiles ==
    ASSUME RowInv, NEW r \in Runs, raw' = [raw EXCEPT ![num[r]] = Flushed(r)]
    PROVE  Extends /\ raw' \in [Numbers -> [Streams -> Seq(Pieces)]]
<1>1. \A n \in Numbers, t \in Streams : raw[n][t] \in Seq(Pieces)
  BY DEF RowInv
<1>2. \A t \in Streams : buffer[r][t] \in Seq(Pieces)
  BY DEF RowInv
<1>3. \A n \in Numbers : n # num[r] => raw'[n] = raw[n]
  BY DEF RowInv
<1>4. raw' = [n \in Numbers |-> IF n = num[r] THEN Flushed(r) ELSE raw[n]]
  BY DEF RowInv
<1>5. ASSUME NEW n \in Numbers, n = num[r], NEW t \in Streams
      PROVE  raw'[n][t] \in Seq(Pieces) /\ IsPrefix(raw[n][t], raw'[n][t])
  <2> DEFINE longer == raw[n][t] \o buffer[r][t]
  <2>1. longer \in Seq(Pieces) /\ IsPrefix(raw[n][t], longer)
    BY <1>1, <1>2, ConcatExtends
  <2> HIDE DEF longer
  <2>2. Flushed(r)[t] = longer
    BY <1>5 DEF Flushed, longer
  <2>3. raw'[n] = Flushed(r)
    BY <1>4, <1>5
  <2> QED
    BY <2>1, <2>2, <2>3
<1>6. Extends
  BY <1>1, <1>3, <1>5, SameExtends DEF Extends
<1>7. \A n \in Numbers : raw'[n] \in [Streams -> Seq(Pieces)]
  <2> SUFFICES ASSUME NEW n \in Numbers PROVE raw'[n] \in [Streams -> Seq(Pieces)]
    OBVIOUS
  <2>1. CASE n # num[r]
    BY <2>1, <1>3 DEF RowInv
  <2>2. CASE n = num[r]
    <3>1. raw'[n] = Flushed(r)
      BY <2>2, <1>4
    <3>2. \A t \in Streams : Flushed(r)[t] \in Seq(Pieces)
      BY <2>2, <1>5, <3>1
    <3>3. Flushed(r) = [t \in Streams |-> Flushed(r)[t]]
      BY DEF Flushed
    <3> QED
      BY <3>1, <3>2, <3>3
  <2> QED
    BY <2>1, <2>2
<1>8. raw' \in [Numbers -> [Streams -> Seq(Pieces)]]
  <2>1. raw' = [n \in Numbers |-> raw'[n]]
    BY <1>4
  <2> QED
    BY <1>7, <2>1
<1> QED
  BY <1>6, <1>8

\* Every step extends the files and keeps their type.
LEMMA OneMoreIsText ==
    ASSUME RowInv, NEW r \in Runs
    PROVE  /\ OneMore(r) \in Seq(Pieces)
           /\ \A k \in 0 .. Len(OneMore(r)) - 1 : SubSeq(OneMore(r), 1, k) \in Seq(Pieces)
<1>1. made[r]["rows"] + 1 \in Nat /\ made[r]["rows"] + 1 > 0
  BY DEF RowInv, Streams
<1>2. Line(r, made[r]["rows"] + 1) \in Seq(Pieces)
  BY <1>1, LinesAreLines
<1>3. OneMore(r) \in Seq(Pieces)
  BY <1>2, ConcatExtends DEF RowInv, Streams, OneMore
<1>4. ASSUME NEW text \in Seq(Pieces), NEW k \in 0 .. Len(text) - 1
      PROVE  SubSeq(text, 1, k) \in Seq(Pieces)
  BY <1>4
<1> QED
  BY <1>3, <1>4

LEMMA StepExtends ==
    ASSUME RowInv, [Next]_vars
    PROVE  RowInv' /\ Extends
<1> USE DEF idVars, rowVars, failVars
<1>1. CASE UNCHANGED vars
  BY <1>1, SameFilesExtend DEF vars, RowInv
<1>2. ASSUME NEW r \in Runs, Choose(r) PROVE RowInv' /\ Extends
  <2>1. NextNumber \in Nat
    BY NextNumberIsFree, BoundsAssumption DEF Numbers
  <2> QED
    BY <1>2, <2>1, SameFilesExtend DEF Choose, RowInv
<1>3. ASSUME NEW r \in Runs, Create(r) \/ Truncate(r) \/ Freeze(r) PROVE RowInv' /\ Extends
  BY <1>3, SameFilesExtend DEF Create, Truncate, Freeze, RowInv
<1>4. ASSUME NEW r \in Runs, Write(r) \/ WriteNotKept(r) \/ WriteLosesText(r)
      PROVE  RowInv' /\ Extends
  <2>1. PICK text \in Seq(Pieces) : WriteTo(r, text)
    BY <1>4, OneMoreIsText DEF Write, WriteNotKept, WriteLosesText
  <2>2. made[r]["rows"] + 1 \in Nat
    BY DEF RowInv, Streams
  <2>3. buffer' \in [Runs -> [Streams -> Seq(Pieces)]]
    BY <2>1 DEF WriteTo, RowInv
  <2>4. made' \in [Runs -> [Streams -> Nat]]
    BY <2>1, <2>2 DEF WriteTo, RowInv
  <2> QED
    BY <2>1, <2>3, <2>4, SameFilesExtend DEF WriteTo, RowInv
<1>5. ASSUME NEW r \in Runs, PollEvent(r) PROVE RowInv' /\ Extends
  <2>1. made[r]["sched"] + 1 \in Nat
    BY DEF RowInv, Streams
  <2>2. made' \in [Runs -> [Streams -> Nat]]
    BY <1>5, <2>1 DEF PollEvent, RowInv
  <2> QED
    BY <1>5, <2>2, SameFilesExtend DEF PollEvent, RowInv
<1>6. ASSUME NEW r \in Runs, EndContext(r) PROVE RowInv' /\ Extends
  <2>1. Line(r, 1) \in Seq(Pieces)
    BY LinesAreLines
  <2>2. "context" \in Streams
    BY DEF Streams
  <2>3. Extends /\ raw' \in [Numbers -> [Streams -> Seq(Pieces)]]
    BY <1>6, <2>1, <2>2, AddedToFile DEF EndContext
  <2>4. made' \in [Runs -> [Streams -> Nat]]
    BY <1>6 DEF EndContext, RowInv
  <2> QED
    BY <1>6, <2>3, <2>4 DEF EndContext, RowInv
<1>7. ASSUME NEW r \in Runs, WriteEvents(r) PROVE RowInv' /\ Extends
  <2>1. Lines(r, made[r]["sched"]) \in Seq(Pieces)
    BY LinesAreLines DEF RowInv, Streams
  <2>2. buffer' \in [Runs -> [Streams -> Seq(Pieces)]]
    BY <1>7, <2>1 DEF WriteEvents, RowInv
  <2> QED
    BY <1>7, <2>2, SameFilesExtend DEF WriteEvents, RowInv
<1>8. NoFiles \in [Streams -> Seq(Pieces)]
  BY DEF NoFiles
<1>9. ASSUME NEW r \in Runs, Close(r) PROVE RowInv' /\ Extends
  <2>1. Extends /\ raw' \in [Numbers -> [Streams -> Seq(Pieces)]]
    BY <1>9, ClosedFiles DEF Close
  <2>2. buffer' \in [Runs -> [Streams -> Seq(Pieces)]]
    BY <1>9, <1>8 DEF Close, RowInv
  <2> QED
    BY <1>9, <2>1, <2>2 DEF Close, RowInv
<1>10. ASSUME NEW r \in Runs, Kill(r) PROVE RowInv' /\ Extends
  <2>1. buffer' \in [Runs -> [Streams -> Seq(Pieces)]]
    BY <1>10, <1>8 DEF Kill, RowInv
  <2> QED
    BY <1>10, <2>1, SameFilesExtend DEF Kill, RowInv
<1>11. ASSUME NEW r \in Runs, NEW s \in Streams, Spill(r, s) PROVE RowInv' /\ Extends
  <2>1. buffer[r][s] \in Seq(Pieces) /\ buffer[r][s] # <<>>
    BY <1>11 DEF Spill, RowInv
  <2>2. Head(buffer[r][s]) \in Pieces /\ Tail(buffer[r][s]) \in Seq(Pieces)
    BY <2>1
  <2>3. Extends /\ raw' \in [Numbers -> [Streams -> Seq(Pieces)]]
    BY <1>11, <2>2, AppendedToFile DEF Spill
  <2>4. buffer' \in [Runs -> [Streams -> Seq(Pieces)]]
    BY <1>11, <2>2 DEF Spill, RowInv
  <2> QED
    BY <1>11, <2>3, <2>4 DEF Spill, RowInv
<1> QED
  BY <1>1, <1>2, <1>3, <1>4, <1>5, <1>6, <1>7, <1>9, <1>10, <1>11 DEF Next

LEMMA InitRowInv == Init => RowInv
  BY DEF Init, RowInv, NoFiles

-----------------------------------------------------------------------------
(***************************************************************************)
(* What a run has put into a file.                                         *)
(***************************************************************************)

\* The place of a piece in all that its run writes to the stream.
Ix(p) == IF p.part = "head" THEN 2 * p.n - 1 ELSE 2 * p.n

\* The pieces of r in f are its first b, in their order.
Has(f, r, b) ==
    /\ \A i \in DOMAIN f : f[i].by = r => Ix(f[i]) \in 1 .. b
    /\ \A k \in 1 .. b : \E i \in DOMAIN f : f[i].by = r /\ Ix(f[i]) = k
    /\ \A i, j \in DOMAIN f :
           i < j /\ f[i].by = r /\ f[j].by = r => Ix(f[i]) < Ix(f[j])

\* All of g is of r, and it is what comes after its first b pieces.
Follows(g, r, b) == \A i \in DOMAIN g : g[i].by = r /\ Ix(g[i]) = b + i

LEMMA IxIsInt == \A p \in Pieces : Ix(p) \in Int
  BY DEF Ix, Pieces

LEMMA ConcatAt ==
    ASSUME NEW S, NEW f \in Seq(S), NEW g \in Seq(S)
    PROVE  /\ f \o g \in Seq(S) /\ Len(f \o g) = Len(f) + Len(g)
           /\ DOMAIN f = 1 .. Len(f) /\ DOMAIN g = 1 .. Len(g)
           /\ DOMAIN (f \o g) = 1 .. Len(f) + Len(g)
           /\ Len(f) \in Nat /\ Len(g) \in Nat
           /\ \A i \in DOMAIN f : i \in DOMAIN (f \o g) /\ (f \o g)[i] = f[i]
           /\ \A i \in DOMAIN g :
                  Len(f) + i \in DOMAIN (f \o g) /\ (f \o g)[Len(f) + i] = g[i]
           /\ \A i \in DOMAIN (f \o g) :
                  i \in DOMAIN f \/ \E j \in DOMAIN g : i = Len(f) + j
<1>1. f \o g \in Seq(S) /\ Len(f \o g) = Len(f) + Len(g)
  OBVIOUS
<1>2. /\ Len(f) \in Nat /\ Len(g) \in Nat
      /\ DOMAIN f = 1 .. Len(f) /\ DOMAIN g = 1 .. Len(g)
      /\ DOMAIN (f \o g) = 1 .. Len(f) + Len(g)
  BY <1>1
<1>3. \A i \in DOMAIN f : i \in DOMAIN (f \o g) /\ (f \o g)[i] = f[i]
  BY <1>2
<1>4. \A i \in DOMAIN g : Len(f) + i \in DOMAIN (f \o g) /\ (f \o g)[Len(f) + i] = g[i]
  BY <1>2
<1>5. ASSUME NEW i \in DOMAIN (f \o g), i \notin DOMAIN f
      PROVE  \E j \in DOMAIN g : i = Len(f) + j
  <2>1. i - Len(f) \in DOMAIN g /\ i = Len(f) + (i - Len(f))
    BY <1>2, <1>5
  <2> QED
    BY <2>1
<1> QED
  BY <1>1, <1>2, <1>3, <1>4, <1>5

LEMMA BothLengths == \A f, g \in Seq(Pieces) : Len(f \o g) = Len(f) + Len(g)
  OBVIOUS

\* A run that puts its next pieces at the end of a file has them there.
LEMMA HasMore ==
    ASSUME NEW f \in Seq(Pieces), NEW g \in Seq(Pieces), NEW r, NEW b \in Nat,
           Has(f, r, b), Follows(g, r, b)
    PROVE  Has(f \o g, r, b + Len(g))
<1> DEFINE h == f \o g
<1>0. /\ DOMAIN f = 1 .. Len(f) /\ DOMAIN g = 1 .. Len(g) /\ Len(f) \in Nat /\ Len(g) \in Nat
      /\ \A i \in DOMAIN f : i \in DOMAIN h /\ h[i] = f[i]
      /\ \A i \in DOMAIN g : Len(f) + i \in DOMAIN h /\ h[Len(f) + i] = g[i]
      /\ \A i \in DOMAIN h : i \in DOMAIN f \/ \E j \in DOMAIN g : i = Len(f) + j
  BY ConcatAt
<1> HIDE DEF h
<1>1. /\ \A i \in DOMAIN f : f[i].by = r => Ix(f[i]) \in 1 .. b
      /\ \A k \in 1 .. b : \E i \in DOMAIN f : f[i].by = r /\ Ix(f[i]) = k
      /\ \A i, j \in DOMAIN f : i < j /\ f[i].by = r /\ f[j].by = r => Ix(f[i]) < Ix(f[j])
  BY DEF Has
<1>2. \A i \in DOMAIN g : g[i].by = r /\ Ix(g[i]) = b + i
  BY DEF Follows
<1>3. ASSUME NEW i \in DOMAIN h, h[i].by = r PROVE Ix(h[i]) \in 1 .. b + Len(g)
  <2>1. CASE i \in DOMAIN f
    BY <1>0, <1>1, <1>3, <2>1
  <2>2. ASSUME NEW j \in DOMAIN g, i = Len(f) + j PROVE Ix(h[i]) \in 1 .. b + Len(g)
    BY <1>0, <1>2, <2>2
  <2> QED
    BY <1>0, <2>1, <2>2
<1>4. ASSUME NEW k \in 1 .. b + Len(g) PROVE \E i \in DOMAIN h : h[i].by = r /\ Ix(h[i]) = k
  <2>1. CASE k <= b
    <3>1. PICK i \in DOMAIN f : f[i].by = r /\ Ix(f[i]) = k
      BY <1>1, <2>1
    <3> QED
      BY <1>0, <3>1
  <2>2. CASE k > b
    <3>1. k - b \in DOMAIN g
      BY <1>0, <2>2
    <3>2. Ix(g[k - b]) = k /\ g[k - b].by = r
      BY <1>2, <3>1
    <3> QED
      BY <1>0, <3>1, <3>2
  <2> QED
    BY <1>0, <2>1, <2>2
<1>5. ASSUME NEW i \in DOMAIN h, NEW j \in DOMAIN h, i < j, h[i].by = r, h[j].by = r
      PROVE  Ix(h[i]) < Ix(h[j])
  <2>1. CASE i \in DOMAIN f /\ j \in DOMAIN f
    BY <1>0, <1>1, <1>5, <2>1
  <2>2. ASSUME NEW l \in DOMAIN g, j = Len(f) + l, i \in DOMAIN f PROVE Ix(h[i]) < Ix(h[j])
    <3>1. Ix(h[i]) \in 1 .. b
      BY <1>0, <1>1, <1>5, <2>2
    <3>2. Ix(h[j]) = b + l
      BY <1>0, <1>2, <2>2
    <3> QED
      BY <1>0, <3>1, <3>2
  <2>3. ASSUME NEW l \in DOMAIN g, j = Len(f) + l, NEW m \in DOMAIN g, i = Len(f) + m
        PROVE  Ix(h[i]) < Ix(h[j])
    <3>1. Ix(h[j]) = b + l /\ Ix(h[i]) = b + m
      BY <1>0, <1>2, <2>3
    <3> QED
      BY <1>0, <1>5, <2>3, <3>1
  <2>4. ~ \E m \in DOMAIN g : i = Len(f) + m /\ j \in DOMAIN f
    BY <1>0, <1>5
  <2> QED
    BY <1>0, <2>1, <2>2, <2>3, <2>4
<1> QED
  BY <1>3, <1>4, <1>5 DEF Has, h

\* What another run puts there changes nothing of it.
LEMMA HasStays ==
    ASSUME NEW f \in Seq(Pieces), NEW g \in Seq(Pieces), NEW r, NEW b \in Nat,
           Has(f, r, b), \A i \in DOMAIN g : g[i].by # r
    PROVE  Has(f \o g, r, b)
<1> DEFINE h == f \o g
<1>0. /\ \A i \in DOMAIN f : i \in DOMAIN h /\ h[i] = f[i]
      /\ \A i \in DOMAIN g : Len(f) + i \in DOMAIN h /\ h[Len(f) + i] = g[i]
      /\ \A i \in DOMAIN h : i \in DOMAIN f \/ \E j \in DOMAIN g : i = Len(f) + j
  BY ConcatAt
<1> HIDE DEF h
<1>1. \A i \in DOMAIN h : h[i].by = r => i \in DOMAIN f /\ h[i] = f[i]
  BY <1>0
<1>2. \A k \in 1 .. b : \E i \in DOMAIN h : h[i].by = r /\ Ix(h[i]) = k
  BY <1>0 DEF Has
<1>3. Has(h, r, b)
  BY <1>1, <1>2 DEF Has
<1> QED
  BY <1>3 DEF h

LEMMA FollowsMore ==
    ASSUME NEW g \in Seq(Pieces), NEW h \in Seq(Pieces), NEW r, NEW b \in Nat,
           Follows(g, r, b), Follows(h, r, b + Len(g))
    PROVE  Follows(g \o h, r, b)
<1>0. /\ DOMAIN g = 1 .. Len(g) /\ DOMAIN h = 1 .. Len(h) /\ Len(g) \in Nat
      /\ \A i \in DOMAIN g : i \in DOMAIN (g \o h) /\ (g \o h)[i] = g[i]
      /\ \A i \in DOMAIN h : (g \o h)[Len(g) + i] = h[i]
      /\ \A i \in DOMAIN (g \o h) : i \in DOMAIN g \/ \E j \in DOMAIN h : i = Len(g) + j
  BY ConcatAt
<1>1. ASSUME NEW i \in DOMAIN (g \o h)
      PROVE  (g \o h)[i].by = r /\ Ix((g \o h)[i]) = b + i
  <2>1. CASE i \in DOMAIN g
    BY <1>0, <2>1 DEF Follows
  <2>2. ASSUME NEW j \in DOMAIN h, i = Len(g) + j
        PROVE  (g \o h)[i].by = r /\ Ix((g \o h)[i]) = b + i
    <3>1. h[j].by = r /\ Ix(h[j]) = b + Len(g) + j
      BY DEF Follows
    <3> QED
      BY <1>0, <2>2, <3>1
  <2> QED
    BY <1>0, <2>1, <2>2
<1> QED
  BY <1>1 DEF Follows

\* The first piece of what follows, and the others.
LEMMA FollowsTail ==
    ASSUME NEW g \in Seq(Pieces), g # <<>>, NEW r, NEW b \in Nat, Follows(g, r, b)
    PROVE  /\ <<Head(g)>> \in Seq(Pieces) /\ Follows(<<Head(g)>>, r, b)
           /\ Tail(g) \in Seq(Pieces) /\ Len(Tail(g)) + 1 = Len(g)
           /\ Follows(Tail(g), r, b + 1)
<1>1. /\ Head(g) = g[1] /\ 1 \in DOMAIN g /\ Head(g) \in Pieces
      /\ Tail(g) \in Seq(Pieces) /\ Len(Tail(g)) + 1 = Len(g)
      /\ \A i \in DOMAIN Tail(g) : i \in Nat /\ i + 1 \in DOMAIN g /\ Tail(g)[i] = g[i + 1]
  OBVIOUS
<1>2. Follows(<<Head(g)>>, r, b)
  BY <1>1 DEF Follows
<1>3. Follows(Tail(g), r, b + 1)
  <2> SUFFICES ASSUME NEW i \in DOMAIN Tail(g)
               PROVE  Tail(g)[i].by = r /\ Ix(Tail(g)[i]) = b + 1 + i
    BY DEF Follows
  <2>1. g[i + 1].by = r /\ Ix(g[i + 1]) = b + (i + 1)
    BY <1>1 DEF Follows
  <2> QED
    BY <1>1, <2>1
<1> QED
  BY <1>1, <1>2, <1>3

LEMMA LineFollows ==
    ASSUME NEW r \in Runs, NEW k \in Nat
    PROVE  /\ Line(r, k + 1) \in Seq(Pieces) /\ Len(Line(r, k + 1)) = 2
           /\ Follows(Line(r, k + 1), r, 2 * k)
  BY DEF Line, Fragment, Pieces, Follows, Ix

LEMMA LinesFollow ==
    ASSUME NEW r \in Runs, NEW k \in Nat
    PROVE  /\ Lines(r, k) \in Seq(Pieces) /\ Len(Lines(r, k)) = 2 * k
           /\ Follows(Lines(r, k), r, 0)
<1>1. Lines(r, k) \in Seq(Pieces)
  BY LinesAreLines
<1>2. Len(Lines(r, k)) = 2 * k /\ DOMAIN Lines(r, k) = 1 .. 2 * k
  BY DEF Lines
<1>3. ASSUME NEW i \in 1 .. 2 * k PROVE Lines(r, k)[i].by = r /\ Ix(Lines(r, k)[i]) = 0 + i
  <2>1. Lines(r, k)[i] = Fragment(r, (i + 1) \div 2, IF i % 2 = 1 THEN "head" ELSE "tail")
    BY DEF Lines
  <2>2. CASE i % 2 = 1
    <3>1. 2 * ((i + 1) \div 2) = i + 1
      BY <2>2
    <3> QED
      BY <2>1, <2>2, <3>1 DEF Fragment, Ix
  <2>3. CASE i % 2 # 1
    <3>1. 2 * ((i + 1) \div 2) = i
      BY <2>3
    <3> QED
      BY <2>1, <2>3, <3>1 DEF Fragment, Ix
  <2> QED
    BY <2>2, <2>3
<1> QED
  BY <1>1, <1>2, <1>3 DEF Follows

LEMMA NothingFollows == \A r, b : Follows(<<>>, r, b)
  BY DEF Follows

-----------------------------------------------------------------------------
(***************************************************************************)
(* What a replay loads.                                                    *)
(***************************************************************************)

LEMMA Halves ==
    ASSUME NEW n \in Nat
    PROVE  /\ n \div 2 \in Nat /\ (n + 1) \div 2 \in Nat
           /\ n % 2 = 0 => n = 2 * (n \div 2)
           /\ n % 2 # 1 => n % 2 = 0
           /\ n % 2 = 1 => n = 2 * ((n + 1) \div 2) - 1
  OBVIOUS

\* A file whose every piece is of a whole line has its lines at the odd places.
LEMMA LinesAtOddPlaces ==
    ASSUME NEW f \in Seq(Pieces), Decodes(f)
    PROVE  /\ \A i \in DOMAIN f : IsLine(f, i) <=> i % 2 = 1
           /\ Len(f) % 2 = 0
<1>0. DOMAIN f = 1 .. Len(f) /\ Len(f) \in Nat /\ \A i \in DOMAIN f : f[i] \in Pieces
  OBVIOUS
<1>1. \A i \in DOMAIN f : IsLine(f, i) \/ (i > 1 /\ IsLine(f, i - 1))
  BY DEF Decodes
<1>2. \A i \in DOMAIN f : IsLine(f, i) => f[i].part = "head" /\ i < Len(f) /\ f[i + 1].part = "tail"
  BY <1>0 DEF IsLine, Pieces
<1> DEFINE Wrong == {i \in DOMAIN f : ~(IsLine(f, i) <=> i % 2 = 1)}
<1>3. Wrong = {}
  <2> SUFFICES ASSUME Wrong # {} PROVE FALSE
    OBVIOUS
  <2>1. PICK i \in Wrong : \A j \in Wrong : i <= j
    <3>1. Wrong \in SUBSET Nat
      BY <1>0
    <3> HIDE DEF Wrong
    <3> QED
      BY <3>1, MinExists
  <2>2. i \in 1 .. Len(f) /\ i \in Nat
    BY <1>0
  <2>3. CASE i = 1
    BY <1>0, <1>1, <2>1, <2>3
  <2>4. CASE i # 1
    <3>1. i - 1 \in DOMAIN f /\ i - 1 \notin Wrong
      <4>1. i - 1 \in DOMAIN f /\ ~(i <= i - 1)
        BY <1>0, <2>2, <2>4
      <4> HIDE DEF Wrong
      <4> QED
        BY <2>1, <4>1
    <3>2. IsLine(f, i - 1) <=> (i - 1) % 2 = 1
      BY <3>1
    <3>3. IsLine(f, i - 1) => f[i].part = "tail"
      <4>1. (i - 1) + 1 = i
        BY <2>2
      <4> QED
        BY <1>2, <3>1, <4>1
    <3>4. IsLine(f, i - 1) => ~IsLine(f, i)
      BY <1>2, <3>3
    <3>5. ~IsLine(f, i - 1) => IsLine(f, i)
      BY <1>1
    <3>6. (i - 1) % 2 = 1 <=> ~(i % 2 = 1)
      BY <2>2
    <3> QED
      BY <3>2, <3>4, <3>5, <3>6
  <2> QED
    BY <2>3, <2>4
<1>4. \A i \in DOMAIN f : IsLine(f, i) <=> i % 2 = 1
  BY <1>3
<1>5. Len(f) % 2 = 0
  <2> SUFFICES ASSUME Len(f) % 2 # 0 PROVE FALSE
    OBVIOUS
  <2>1. Len(f) \in DOMAIN f /\ Len(f) % 2 = 1
    BY <1>0
  <2> QED
    BY <1>0, <1>2, <1>4, <2>1
<1> QED
  BY <1>4, <1>5

\* There are k odd places up to the k-th.
LEMMA OddPlaces ==
    ASSUME NEW k \in Nat
    PROVE  Cardinality({2 * j - 1 : j \in 1 .. k}) = k /\ IsFiniteSet({2 * j - 1 : j \in 1 .. k})
<1> DEFINE odds == {2 * j - 1 : j \in 1 .. k}
           h == [j \in 1 .. k |-> 2 * j - 1]
<1>1. h \in Bijection(1 .. k, odds)
  <2>1. h \in [1 .. k -> odds]
    OBVIOUS
  <2>2. \A i, j \in 1 .. k : h[i] = h[j] => i = j
    OBVIOUS
  <2>3. \A o \in odds : \E j \in 1 .. k : h[j] = o
    OBVIOUS
  <2> HIDE DEF h, odds
  <2> QED
    BY <2>1, <2>2, <2>3 DEF Bijection, Injection, Surjection, IsInjective
<1>2. IsFiniteSet(1 .. k) /\ Cardinality(1 .. k) = k
  BY FS_Interval
<1> HIDE DEF h, odds
<1>3. ExistsBijection(1 .. k, odds)
  BY <1>1 DEF ExistsBijection
<1>4. Cardinality(odds) = k /\ IsFiniteSet(odds)
  BY <1>2, <1>3, FS_Bijection
<1> QED
  BY <1>4 DEF odds

\* What is loaded of such a file is every other piece of it.
LEMMA LoadedLines ==
    ASSUME NEW f \in Seq(Pieces), Decodes(f)
    PROVE  /\ Loaded(f) = [k \in 1 .. Len(f) \div 2 |-> f[2 * k - 1]]
           /\ \A k \in 1 .. Len(f) \div 2 : 2 * k - 1 \in DOMAIN f /\ IsLine(f, 2 * k - 1)
<1> DEFINE m == Len(f) \div 2
           starts == LineStarts(f)
           Upto(i) == {j \in starts : j <= i}
<1>1. Len(f) \in Nat /\ DOMAIN f = 1 .. Len(f) /\ Len(f) % 2 = 0
  BY LinesAtOddPlaces
<1>2. m \in Nat /\ Len(f) = 2 * m
  BY <1>1, Halves
<1> HIDE DEF m
<1>3. starts = {2 * k - 1 : k \in 1 .. m}
  <2>1. starts = {i \in 1 .. 2 * m : i % 2 = 1}
    BY <1>1, <1>2, LinesAtOddPlaces DEF LineStarts
  <2>2. ASSUME NEW i \in 1 .. 2 * m, i % 2 = 1 PROVE \E k \in 1 .. m : i = 2 * k - 1
    <3>1. (i + 1) \div 2 \in 1 .. m /\ i = 2 * ((i + 1) \div 2) - 1
      BY <1>2, <2>2
    <3> QED
      BY <3>1
  <2>3. \A k \in 1 .. m : 2 * k - 1 \in 1 .. 2 * m /\ (2 * k - 1) % 2 = 1
    BY <1>2
  <2> HIDE DEF starts
  <2> QED
    BY <2>1, <2>2, <2>3
<1> HIDE DEF starts
<1>4. Cardinality(starts) = m
  BY <1>2, <1>3, OddPlaces
<1>5. ASSUME NEW k \in 1 .. m PROVE Cardinality(Upto(2 * k - 1)) = k /\ 2 * k - 1 \in starts
  <2>1. Upto(2 * k - 1) = {2 * j - 1 : j \in 1 .. k}
    BY <1>2, <1>3
  <2>2. 2 * k - 1 \in starts
    BY <1>3
  <2> QED
    BY <1>2, <2>1, <2>2, OddPlaces
<1>6. ASSUME NEW k \in 1 .. m, NEW i \in starts, Cardinality(Upto(i)) = k
      PROVE  i = 2 * k - 1
  <2>1. PICK l \in 1 .. m : i = 2 * l - 1
    BY <1>3
  <2>2. Cardinality(Upto(i)) = l
    BY <1>5, <2>1
  <2> QED
    BY <1>6, <2>1, <2>2
<1>7. \A k \in 1 .. m : (CHOOSE i \in starts : Cardinality(Upto(i)) = k) = 2 * k - 1
  <2> SUFFICES ASSUME NEW k \in 1 .. m
               PROVE  (CHOOSE i \in starts : Cardinality(Upto(i)) = k) = 2 * k - 1
    OBVIOUS
  <2> DEFINE c == CHOOSE i \in starts : Cardinality(Upto(i)) = k
  <2>1. \E i \in starts : Cardinality(Upto(i)) = k
    BY <1>5
  <2>2. c \in starts /\ Cardinality(Upto(c)) = k
    <3> HIDE DEF Upto
    <3> QED
      BY <2>1
  <2> HIDE DEF c, Upto
  <2>3. c = 2 * k - 1
    BY <1>6, <2>2
  <2> QED
    BY <2>3 DEF c
<1>8. Loaded(f) = [k \in 1 .. m |-> f[2 * k - 1]]
  <2>1. Loaded(f) = [k \in 1 .. Cardinality(starts) |->
                        f[CHOOSE i \in starts : Cardinality(Upto(i)) = k]]
    BY DEF Loaded, starts
  <2>2. \A k \in 1 .. m : f[CHOOSE i \in starts : Cardinality(Upto(i)) = k] = f[2 * k - 1]
    BY <1>7
  <2> HIDE DEF Upto
  <2>3. Loaded(f) = [k \in 1 .. m |-> f[CHOOSE i \in starts : Cardinality(Upto(i)) = k]]
    BY <1>4, <2>1
  <2> QED
    BY <2>2, <2>3
<1>9. \A k \in 1 .. m : 2 * k - 1 \in DOMAIN f /\ IsLine(f, 2 * k - 1)
  BY <1>5 DEF starts, LineStarts
<1> QED
  BY <1>8, <1>9 DEF m

\* The pieces of a run are loaded in their order with none left out.
LEMMA LoadedInOrder ==
    ASSUME NEW f \in Seq(Pieces), Decodes(f), NEW r, NEW b \in Nat, Has(f, r, b),
           NEW k \in DOMAIN Loaded(f), Loaded(f)[k].by = r
    PROVE  Loaded(f)[k].n = Cardinality({j \in 1 .. k : Loaded(f)[j].by = r})
<1> DEFINE m == Len(f) \div 2
           v == f[2 * k - 1].n
           mine == {j \in 1 .. k : f[2 * j - 1].by = r}
           h == [j \in mine |-> f[2 * j - 1].n]
<1>0. Len(f) \in Nat /\ DOMAIN f = 1 .. Len(f) /\ Len(f) % 2 = 0 /\ \A i \in DOMAIN f : f[i] \in Pieces
  BY LinesAtOddPlaces
<1>1. /\ m \in Nat /\ Len(f) = 2 * m
      /\ DOMAIN Loaded(f) = 1 .. m /\ \A j \in 1 .. m : Loaded(f)[j] = f[2 * j - 1]
      /\ \A j \in 1 .. m : 2 * j - 1 \in DOMAIN f /\ IsLine(f, 2 * j - 1)
  <2>1. m \in Nat /\ Len(f) = 2 * m
    BY <1>0, Halves
  <2>2. /\ Loaded(f) = [j \in 1 .. m |-> f[2 * j - 1]]
        /\ \A j \in 1 .. m : 2 * j - 1 \in DOMAIN f /\ IsLine(f, 2 * j - 1)
    BY LoadedLines
  <2> HIDE DEF m
  <2> QED
    BY <2>1, <2>2
<1> HIDE DEF m
<1>2. k \in 1 .. m /\ f[2 * k - 1].by = r
  BY <1>1
<1>3. /\ \A i \in DOMAIN f : f[i].by = r => Ix(f[i]) \in 1 .. b
      /\ \A l \in 1 .. b : \E i \in DOMAIN f : f[i].by = r /\ Ix(f[i]) = l
      /\ \A i, j \in DOMAIN f : i < j /\ f[i].by = r /\ f[j].by = r => Ix(f[i]) < Ix(f[j])
  BY DEF Has
<1>4. \A j \in 1 .. m : f[2 * j - 1].part = "head" /\ f[2 * j - 1].n \in Nat
                        /\ Ix(f[2 * j - 1]) = 2 * f[2 * j - 1].n - 1
  BY <1>0, <1>1 DEF IsLine, Ix, Pieces
<1>5. v \in Nat /\ 2 * v - 1 <= b /\ v >= 1
  <2>1. Ix(f[2 * k - 1]) \in 1 .. b
    BY <1>1, <1>2, <1>3
  <2>2. v \in Nat /\ Ix(f[2 * k - 1]) = 2 * v - 1
    BY <1>2, <1>4
  <2> HIDE DEF v
  <2> QED
    BY <2>1, <2>2
<1>6. \A j \in mine : j \in 1 .. m /\ 2 * j - 1 \in DOMAIN f /\ f[2 * j - 1].by = r
  BY <1>1, <1>2
<1>7. ASSUME NEW i \in mine, NEW j \in mine, i < j PROVE f[2 * i - 1].n < f[2 * j - 1].n
  <2>1. 2 * i - 1 < 2 * j - 1
    BY <1>1, <1>6, <1>7
  <2>2. Ix(f[2 * i - 1]) < Ix(f[2 * j - 1])
    BY <1>3, <1>6, <2>1
  <2>3. \A l \in {i, j} : /\ f[2 * l - 1].n \in Nat
                          /\ Ix(f[2 * l - 1]) = 2 * f[2 * l - 1].n - 1
    BY <1>4, <1>6
  <2>4. \A x, y \in Nat : 2 * x - 1 < 2 * y - 1 => x < y
    OBVIOUS
  <2> QED
    BY <2>2, <2>3, <2>4
<1>8. k \in mine
  BY <1>2
<1>9. h \in [mine -> 1 .. v]
  <2> SUFFICES ASSUME NEW j \in mine PROVE f[2 * j - 1].n \in 1 .. v
    OBVIOUS
  <2>1. f[2 * j - 1].n \in Nat /\ f[2 * j - 1].n >= 1
    BY <1>3, <1>4, <1>6
  <2>2. j = k \/ j < k
    BY <1>2
  <2>3. f[2 * j - 1].n <= v
    <3> HIDE DEF mine
    <3>1. CASE j = k
      BY <1>5, <3>1
    <3>2. CASE j < k
      <4>1. f[2 * j - 1].n < v
        BY <1>7, <1>8, <3>2
      <4> QED
        BY <1>5, <2>1, <4>1
    <3> QED
      BY <2>2, <3>1, <3>2
  <2> QED
    BY <1>5, <2>1, <2>3
<1>10. \A i, j \in mine : h[i] = h[j] => i = j
  <2> SUFFICES ASSUME NEW i \in mine, NEW j \in mine, i < j, f[2 * i - 1].n = f[2 * j - 1].n
               PROVE  FALSE
    <3>1. \A i, j \in mine : i < j \/ i = j \/ j < i
      BY <1>2
    <3> QED
      BY <3>1
  <2>1. f[2 * i - 1].n \in Nat
    BY <1>4, <1>6
  <2> QED
    BY <1>7, <2>1
<1>11. \A w \in 1 .. v : \E j \in mine : h[j] = w
  <2> SUFFICES ASSUME NEW w \in 1 .. v PROVE \E j \in mine : f[2 * j - 1].n = w
    OBVIOUS
  <2>1. 2 * w - 1 \in 1 .. b /\ w \in Nat
    BY <1>5
  <2>2. PICK i \in DOMAIN f : f[i].by = r /\ Ix(f[i]) = 2 * w - 1
    BY <1>3, <2>1
  <2>3. f[i].part = "head" /\ f[i].n = w
    <3>1. f[i] \in Pieces
      BY <1>0
    <3>2. f[i].n \in Nat
      BY <3>1 DEF Pieces
    <3> QED
      BY <2>1, <2>2, <3>2 DEF Ix
  <2>4. i % 2 = 1
    <3> SUFFICES ASSUME i % 2 # 1 PROVE FALSE
      OBVIOUS
    <3> DEFINE j == i \div 2
    <3>1. i \in 1 .. 2 * m /\ i \in Nat
      BY <1>0, <1>1
    <3>2. j \in Nat /\ i = 2 * j
      BY <3>1, Halves
    <3> HIDE DEF j
    <3>4. j \in 1 .. m /\ 2 * j - 1 + 1 = i
      BY <1>1, <3>1, <3>2
    <3>5. IsLine(f, 2 * j - 1)
      BY <1>1, <3>4
    <3>3. f[i].part = "tail"
      <4>1. f[i] = [f[2 * j - 1] EXCEPT !.part = "tail"]
        BY <3>4, <3>5 DEF IsLine
      <4>2. f[2 * j - 1] \in Pieces
        BY <1>0, <1>1, <3>4
      <4> QED
        BY <4>1, <4>2 DEF Pieces
    <3> QED
      BY <2>3, <3>3
  <2>5. i <= 2 * k - 1
    <3> SUFFICES ASSUME 2 * k - 1 < i PROVE FALSE
      BY <1>0, <1>1, <1>2
    <3>1. Ix(f[2 * k - 1]) < Ix(f[i])
      BY <1>1, <1>2, <1>3, <2>2
    <3>2. 2 * v - 1 < 2 * w - 1
      BY <1>2, <1>4, <2>2, <3>1
    <3> QED
      BY <1>5, <3>2
  <2> DEFINE j == (i + 1) \div 2
  <2>6. j \in 1 .. k /\ 2 * j - 1 = i
    <3>1. i \in Nat /\ i >= 1 /\ k \in Nat
      BY <1>0, <1>1, <1>2
    <3>2. j \in Nat /\ i = 2 * j - 1
      BY <2>4, <3>1, Halves
    <3> HIDE DEF j
    <3> QED
      BY <2>5, <3>1, <3>2
  <2> HIDE DEF j
  <2>7. j \in mine /\ f[2 * j - 1].n = w
    BY <2>2, <2>3, <2>6
  <2> QED
    BY <2>7
<1>12. Cardinality(mine) = v
  <2> HIDE DEF h, mine, v
  <2>1. h \in Bijection(mine, 1 .. v)
    BY <1>9, <1>10, <1>11 DEF Bijection, Injection, Surjection, IsInjective
  <2>2. IsFiniteSet(mine)
    <3>1. mine \in SUBSET (1 .. k) /\ k \in Int
      BY <1>1, <1>2 DEF mine
    <3>2. IsFiniteSet(1 .. k)
      BY <3>1, FS_Interval
    <3> QED
      BY <3>1, <3>2, FS_Subset
  <2>3. ExistsBijection(mine, 1 .. v)
    BY <2>1 DEF ExistsBijection
  <2>4. Cardinality(mine) = Cardinality(1 .. v)
    BY <2>2, <2>3, FS_Bijection
  <2> QED
    BY <1>5, <2>4, FS_Interval
<1>13. mine = {j \in 1 .. k : Loaded(f)[j].by = r} /\ Loaded(f)[k].n = v
  <2>1. \A j \in 1 .. k : j \in 1 .. m
    BY <1>1, <1>2
  <2>2. \A j \in 1 .. k : Loaded(f)[j] = f[2 * j - 1]
    BY <1>1, <2>1
  <2> QED
    BY <1>1, <1>2, <2>2
<1> QED
  BY <1>12, <1>13

-----------------------------------------------------------------------------
(***************************************************************************)
(* Where the rows of a run are.                                            *)
(***************************************************************************)

\* How many pieces the run has handed to its writers: the events are not handed
\* over before WriteEvents.
Handed(r, s) ==
    IF s = "sched" /\ phase[r] \notin {"events", "done"} THEN 0 ELSE 2 * made[r][s]

\* The first b pieces are in the file and the next ones in the buffer, if no
\* raised write lost any; only a kill takes some away, and never of the context.
Placed(r, s, b) ==
    /\ Has(raw[num[r]][s], r, b)
    /\ Follows(buffer[r][s], r, b)
    /\ s = "context" \/ phase[r] \notin {"killed", "killedLate"} =>
           b + Len(buffer[r][s]) = Handed(r, s)

PlacedInv ==
    \A r \in Runs, s \in Streams :
        phase[r] # "new" /\ Clean(r, s) => \E b \in Nat : Placed(r, s, b)

\* A run has only its own pieces in its buffers.
MineInv ==
    \A r \in Runs, s \in Streams : \A i \in DOMAIN buffer[r][s] : buffer[r][s][i].by = r

\* What goes with the stage a run has reached.
Stage(r) ==
    /\ phase[r] = "new" => \A s \in Streams : made[r][s] = 0 /\ buffer[r][s] = <<>>
    /\ phase[r] # "new" => num[r] \in Numbers
    /\ phase[r] = "done" => \A s \in Streams : buffer[r][s] = <<>>
    /\ buffer[r]["context"] = <<>>
    /\ made[r]["context"] = IF phase[r] \in {"context", "events", "done", "killedLate"}
                            THEN 1 ELSE 0

StageInv == \A r \in Runs : Stage(r)

\* A file holds pieces of the runs that chose its directory.
OwnInv ==
    \A n \in Numbers, s \in Streams : \A i \in DOMAIN raw[n][s] :
        phase[raw[n][s][i].by] # "new" /\ num[raw[n][s][i].by] = n

FileInv == IdInv /\ RowInv /\ MineInv /\ PlacedInv /\ StageInv /\ OwnInv

Killed == {"killed", "killedLate"}

\* A step of r that puts the pieces of added at the end of its files.
Step(r, added) ==
    /\ added \in [Streams -> Seq(Pieces)]
    /\ \A n \in Numbers, t \in Streams :
           raw'[n][t] = IF n = num[r] THEN raw[n][t] \o added[t] ELSE raw[n][t]
    /\ num' = num
    /\ \A q \in Runs \ {r} :
           made'[q] = made[q] /\ buffer'[q] = buffer[q] /\ phase'[q] = phase[q]
    /\ phase[r] # "new" /\ phase'[r] # "new"
    /\ \A t \in Streams : \A i \in DOMAIN added[t] : added[t][i].by = r
    /\ spoiled \subseteq spoiled'

\* It takes the pieces from the buffer or hands over the next ones.
GoesOn(r, added) ==
    \A t \in Streams, b \in Nat : Clean(r, t)' /\ Placed(r, t, b) =>
        /\ Follows(added[t], r, b)
        /\ Follows(buffer'[r][t], r, b + Len(added[t]))
        /\ t = "context" \/ phase'[r] \notin Killed =>
               b + Len(added[t]) + Len(buffer'[r][t]) = Handed(r, t)'

LEMMA StepKeepsFiles ==
    ASSUME FileInv, IdInv', RowInv', NEW r \in Runs, NEW added, Step(r, added),
           GoesOn(r, added), Stage(r)'
    PROVE  PlacedInv' /\ StageInv' /\ OwnInv'
<1>1. /\ \A n \in Numbers, t \in Streams : raw[n][t] \in Seq(Pieces)
      /\ \A t \in Streams : added[t] \in Seq(Pieces)
      /\ \A q \in Runs : phase[q] # "new" => num[q] \in Numbers
      /\ num' = num /\ phase[r] # "new" /\ phase'[r] # "new"
      /\ \A q \in Runs \ {r} :
             made'[q] = made[q] /\ buffer'[q] = buffer[q] /\ phase'[q] = phase[q]
      /\ \A n \in Numbers, t \in Streams :
             raw'[n][t] = IF n = num[r] THEN raw[n][t] \o added[t] ELSE raw[n][t]
  BY DEF FileInv, RowInv, StageInv, Stage, Step
<1>2. \A q \in Runs, t \in Streams : Clean(q, t)' => Clean(q, t)
  BY DEF Step, Clean
<1>3. \A t \in Streams : \A i \in DOMAIN added[t] : added[t][i].by = r
  BY DEF Step
<1>4. ASSUME NEW q \in Runs, q # r, NEW t \in Streams, phase'[q] # "new", Clean(q, t)'
      PROVE  \E b \in Nat : Placed(q, t, b)'
  <2>1. phase[q] # "new" /\ num[q] \in Numbers
    BY <1>1, <1>4
  <2>2. PICK b \in Nat : Placed(q, t, b)
    BY <1>2, <1>4, <2>1 DEF FileInv, PlacedInv
  <2>3. Has(raw'[num[q]][t], q, b)
    <3>1. Has(raw[num[q]][t], q, b)
      BY <2>2 DEF Placed
    <3>2. CASE num[q] = num[r]
      <4>1. \A i \in DOMAIN added[t] : added[t][i].by # q
        BY <1>3, <1>4
      <4>2. raw'[num[q]][t] = raw[num[q]][t] \o added[t]
        BY <1>1, <2>1, <3>2
      <4>3. raw[num[q]][t] \in Seq(Pieces) /\ added[t] \in Seq(Pieces)
        BY <1>1, <2>1
      <4> QED
        BY <3>1, <4>1, <4>2, <4>3, HasStays
    <3>3. CASE num[q] # num[r]
      BY <1>1, <2>1, <3>1, <3>3
    <3> QED
      BY <3>2, <3>3
  <2>4. Placed(q, t, b)'
    BY <1>1, <1>4, <2>2, <2>3 DEF Placed, Handed
  <2> QED
    BY <2>4
<1>5. ASSUME NEW t \in Streams, Clean(r, t)'
      PROVE  \E b \in Nat : Placed(r, t, b)'
  <2>1. PICK b \in Nat : Placed(r, t, b)
    BY <1>1, <1>2, <1>5 DEF FileInv, PlacedInv
  <2>2. /\ Follows(added[t], r, b)
        /\ Follows(buffer'[r][t], r, b + Len(added[t]))
        /\ t = "context" \/ phase'[r] \notin Killed =>
               b + Len(added[t]) + Len(buffer'[r][t]) = Handed(r, t)'
    BY <1>5, <2>1 DEF GoesOn
  <2>3. raw'[num[r]][t] = raw[num[r]][t] \o added[t] /\ raw[num[r]][t] \in Seq(Pieces)
        /\ added[t] \in Seq(Pieces)
    BY <1>1
  <2>4. Has(raw'[num[r]][t], r, b + Len(added[t]))
    BY <2>1, <2>2, <2>3, HasMore DEF Placed
  <2>5. b + Len(added[t]) \in Nat
    BY <2>3
  <2>6. Placed(r, t, b + Len(added[t]))'
    BY <1>1, <2>2, <2>4 DEF Placed, Killed
  <2> QED
    BY <2>5, <2>6
<1>6. PlacedInv'
  BY <1>4, <1>5 DEF PlacedInv
<1>7. StageInv'
  <2> SUFFICES ASSUME NEW q \in Runs, q # r PROVE Stage(q)'
    BY DEF StageInv
  <2>1. Stage(q)
    BY DEF FileInv, StageInv
  <2> QED
    BY <1>1, <2>1 DEF Stage
<1>8. OwnInv'
  <2> SUFFICES ASSUME NEW n \in Numbers, NEW t \in Streams, NEW i \in DOMAIN raw'[n][t]
               PROVE  phase'[raw'[n][t][i].by] # "new" /\ num[raw'[n][t][i].by] = n
    BY <1>1 DEF OwnInv
  <2>1. \A j \in DOMAIN raw[n][t] :
          /\ raw[n][t][j].by \in Runs
          /\ phase'[raw[n][t][j].by] # "new" /\ num[raw[n][t][j].by] = n
    <3> SUFFICES ASSUME NEW j \in DOMAIN raw[n][t]
                 PROVE  /\ raw[n][t][j].by \in Runs
                        /\ phase'[raw[n][t][j].by] # "new" /\ num[raw[n][t][j].by] = n
      OBVIOUS
    <3>1. raw[n][t][j] \in Pieces
      BY <1>1
    <3>2. raw[n][t][j].by \in Runs
      BY <3>1 DEF Pieces
    <3> QED
      BY <1>1, <3>2 DEF FileInv, OwnInv
  <2>2. CASE n # num[r]
    BY <1>1, <2>1, <2>2
  <2>3. CASE n = num[r]
    <3>1. raw'[n][t] = raw[n][t] \o added[t] /\ raw[n][t] \in Seq(Pieces) /\ added[t] \in Seq(Pieces)
      BY <1>1, <2>3
    <3> DEFINE f == raw[n][t]
               g == added[t]
               longer == f \o g
    <3>2. /\ \A j \in DOMAIN f : longer[j] = f[j]
          /\ \A j \in DOMAIN g : longer[Len(f) + j] = g[j]
          /\ \A l \in DOMAIN longer : l \in DOMAIN f \/ \E j \in DOMAIN g : l = Len(f) + j
      <4>1. f \in Seq(Pieces) /\ g \in Seq(Pieces)
        BY <3>1
      <4> HIDE DEF f, g
      <4> QED
        BY <4>1, ConcatAt
    <3>3. i \in DOMAIN longer /\ raw'[n][t][i] = longer[i]
      BY <3>1
    <3> HIDE DEF longer
    <3>4. CASE i \in DOMAIN f
      BY <2>1, <3>2, <3>3, <3>4
    <3>5. ASSUME NEW j \in DOMAIN added[t], i = Len(f) + j
          PROVE  phase'[raw'[n][t][i].by] # "new" /\ num[raw'[n][t][i].by] = n
      <4>1. raw'[n][t][i] = added[t][j]
        BY <3>2, <3>3, <3>5
      <4> QED
        BY <1>1, <1>3, <2>3, <4>1
    <3> QED
      BY <3>2, <3>3, <3>4, <3>5
  <2> QED
    BY <2>2, <2>3
<1> QED
  BY <1>6, <1>7, <1>8

LEMMA ShortConcats ==
    ASSUME NEW S, NEW f \in Seq(S), NEW x \in S
    PROVE  f \o <<>> = f /\ f \o <<x>> = Append(f, x) /\ Len(f) \in Nat
<1>1. f \o <<>> = f
  OBVIOUS
<1>2. f \o <<x>> = Append(f, x)
  OBVIOUS
<1> QED
  BY <1>1, <1>2

LEMMA NoConcat ==
    ASSUME NEW S, NEW f \in Seq(S)
    PROVE  f \o <<>> = f /\ Len(f) \in Nat /\ Len(<<>>) = 0
  OBVIOUS

\* A step that writes to no file.
LEMMA NoFileStep ==
    ASSUME RowInv, NEW r \in Runs, raw' = raw, num' = num,
           \A q \in Runs \ {r} :
               made'[q] = made[q] /\ buffer'[q] = buffer[q] /\ phase'[q] = phase[q],
           phase[r] # "new", phase'[r] # "new", spoiled \subseteq spoiled'
    PROVE  /\ Step(r, NoFiles)
           /\ \A t \in Streams : NoFiles[t] = <<>>
<1>1. \A t \in Streams : NoFiles[t] = <<>> /\ NoFiles[t] \in Seq(Pieces)
  BY DEF NoFiles
<1>2. NoFiles \in [Streams -> Seq(Pieces)]
  BY <1>1 DEF NoFiles
<1>3. \A n \in Numbers, t \in Streams : raw[n][t] \o NoFiles[t] = raw[n][t]
  BY <1>1, NoConcat DEF RowInv
<1>4. \A t \in Streams : \A i \in DOMAIN NoFiles[t] : NoFiles[t][i].by = r
  BY <1>1
<1> QED
  BY <1>1, <1>2, <1>3, <1>4 DEF Step

\* While a run only moves on, its pieces stay where they are.
LEMMA MoveKeepsFiles ==
    ASSUME FileInv, IdInv', RowInv', NEW r \in Runs, raw' = raw, num' = num,
           UNCHANGED <<made, buffer, spoiled>>,
           \A q \in Runs \ {r} : phase'[q] = phase[q],
           phase[r] \in {"chosen", "created", "freezing"},
           phase'[r] \in {"created", "freezing", "loop"}
    PROVE  PlacedInv' /\ StageInv' /\ OwnInv'
<1>1. Step(r, NoFiles) /\ \A t \in Streams : NoFiles[t] = <<>>
  BY NoFileStep DEF FileInv
<1>2. Stage(r)'
  BY DEF FileInv, StageInv, Stage
<1>3. GoesOn(r, NoFiles)
  <2> SUFFICES ASSUME NEW t \in Streams, NEW b \in Nat, Placed(r, t, b)
               PROVE  /\ Follows(<<>>, r, b) /\ Follows(buffer[r][t], r, b + 0)
                      /\ b + 0 + Len(buffer[r][t]) = Handed(r, t)'
    BY <1>1 DEF GoesOn
  <2>1. Follows(buffer[r][t], r, b) /\ b + Len(buffer[r][t]) = Handed(r, t)
    BY DEF Placed
  <2>2. Handed(r, t)' = Handed(r, t)
    BY DEF Handed
  <2> QED
    BY <2>1, <2>2, NothingFollows
<1> QED
  BY <1>1, <1>2, <1>3, StepKeepsFiles

LEMMA ChooseKeepsFiles ==
    ASSUME FileInv, IdInv', RowInv', NEW r \in Runs, Choose(r)
    PROVE  PlacedInv' /\ StageInv' /\ OwnInv'
<1>1. /\ phase[r] = "new" /\ phase'[r] = "chosen"
      /\ num'[r] = NextNumber
      /\ \A q \in Runs \ {r} : num'[q] = num[q] /\ phase'[q] = phase[q]
      /\ UNCHANGED <<made, buffer, raw, spoiled>>
  BY DEF Choose, Goes, rowVars, failVars, FileInv, IdInv, IdTypes
<1>2. NextNumber \in Numbers
  BY NextNumberIsFree
<1>3. \A n \in Numbers, t \in Streams : \A i \in DOMAIN raw[n][t] :
        raw[n][t][i].by \in Runs \ {r}
  <2> SUFFICES ASSUME NEW n \in Numbers, NEW t \in Streams, NEW i \in DOMAIN raw[n][t]
               PROVE  raw[n][t][i].by \in Runs \ {r}
    OBVIOUS
  <2>1. raw[n][t] \in Seq(Pieces)
    BY DEF FileInv, RowInv
  <2>2. raw[n][t][i] \in Pieces
    BY <2>1
  <2>3. phase[raw[n][t][i].by] # "new"
    BY DEF FileInv, OwnInv
  <2> QED
    BY <1>1, <2>2, <2>3 DEF Pieces
<1>4. PlacedInv'
  <2> SUFFICES ASSUME NEW q \in Runs, NEW t \in Streams, phase'[q] # "new", Clean(q, t)
               PROVE  \E b \in Nat : Placed(q, t, b)'
    BY <1>1 DEF PlacedInv, Clean
  <2>1. CASE q = r
    <3>1. Has(raw[NextNumber][t], r, 0)
      BY <1>2, <1>3 DEF Has
    <3>2. buffer[r][t] = <<>> /\ made[r][t] = 0
      BY <1>1 DEF FileInv, StageInv, Stage
    <3>3. Placed(r, t, 0)'
      BY <1>1, <3>1, <3>2 DEF Placed, Follows, Handed
    <3> QED
      BY <2>1, <3>3
  <2>2. CASE q # r
    <3>1. PICK b \in Nat : Placed(q, t, b)
      BY <1>1, <2>2 DEF FileInv, PlacedInv
    <3>2. Placed(q, t, b)'
      BY <1>1, <2>2, <3>1 DEF Placed, Handed
    <3> QED
      BY <3>2
  <2> QED
    BY <2>1, <2>2
<1>5. StageInv'
  BY <1>1, <1>2 DEF FileInv, StageInv, Stage, Streams
<1>6. OwnInv'
  BY <1>1, <1>3 DEF FileInv, OwnInv
<1> QED
  BY <1>4, <1>5, <1>6

LEMMA WriteKeepsFiles ==
    ASSUME FileInv, IdInv', RowInv', NEW r \in Runs,
           Write(r) \/ WriteNotKept(r) \/ WriteLosesText(r)
    PROVE  PlacedInv' /\ StageInv' /\ OwnInv'
<1> DEFINE k == made[r]["rows"]
<1>1. k \in Nat /\ \A t \in Streams : buffer[r][t] \in Seq(Pieces) /\ made[r][t] \in Nat
  BY DEF FileInv, RowInv, Streams
<1>0. PICK text : /\ WriteTo(r, text) /\ spoiled \subseteq spoiled'
                  /\ text = OneMore(r) \/ r \in spoiled'
  BY DEF Write, WriteNotKept, WriteLosesText, failVars
<1>2. /\ phase[r] = "loop" /\ UNCHANGED <<phase, raw, num>>
      /\ \A q \in Runs \ {r} : made'[q] = made[q] /\ buffer'[q] = buffer[q]
      /\ buffer'[r]["rows"] = text /\ made'[r]["rows"] = k + 1
      /\ \A t \in Streams \ {"rows"} : buffer'[r][t] = buffer[r][t] /\ made'[r][t] = made[r][t]
  BY <1>0 DEF WriteTo, FileInv, RowInv, idVars, Streams
<1>3. Step(r, NoFiles) /\ \A t \in Streams : NoFiles[t] = <<>>
  BY <1>0, <1>2, NoFileStep DEF FileInv
<1>4. Stage(r)'
  BY <1>2 DEF FileInv, StageInv, Stage, Streams
<1>6. r \notin spoiled' => text = buffer[r]["rows"] \o Line(r, k + 1)
  BY <1>0 DEF OneMore
<1> HIDE DEF k
<1>5. GoesOn(r, NoFiles)
  <2> SUFFICES ASSUME NEW t \in Streams, NEW b \in Nat, Placed(r, t, b), Clean(r, t)'
               PROVE  /\ Follows(<<>>, r, b) /\ Follows(buffer'[r][t], r, b + 0)
                      /\ b + 0 + Len(buffer'[r][t]) = Handed(r, t)'
    BY <1>3 DEF GoesOn
  <2>1. Follows(buffer[r][t], r, b) /\ b + Len(buffer[r][t]) = Handed(r, t)
    BY <1>2 DEF Placed
  <2>2. CASE t # "rows"
    <3>1. Handed(r, t)' = Handed(r, t)
      BY <1>2, <2>2 DEF Handed
    <3>2. buffer'[r][t] = buffer[r][t] /\ b + 0 = b
      BY <1>2, <2>2
    <3> QED
      BY <2>1, <3>1, <3>2, NothingFollows
  <2>3. CASE t = "rows"
    <3> DEFINE g == buffer[r]["rows"]
    <3>1. Handed(r, t) = 2 * k /\ Handed(r, t)' = 2 * (k + 1)
      BY <1>2, <2>3 DEF Handed, k
    <3>2. /\ Line(r, k + 1) \in Seq(Pieces) /\ Len(Line(r, k + 1)) = 2
          /\ Follows(Line(r, k + 1), r, 2 * k)
      BY <1>1, LineFollows
    <3>3. g \in Seq(Pieces) /\ Follows(g, r, b) /\ b + Len(g) = 2 * k
      BY <1>1, <2>1, <2>3, <3>1
    <3>4. buffer'[r][t] = g \o Line(r, k + 1)
      BY <1>2, <1>6, <2>3 DEF Clean
    <3> HIDE DEF g
    <3>5. Follows(g \o Line(r, k + 1), r, b)
      BY <3>2, <3>3, FollowsMore
    <3>6. Len(g \o Line(r, k + 1)) = Len(g) + 2
      <4> DEFINE line == Line(r, k + 1)
      <4>1. line \in Seq(Pieces) /\ Len(line) = 2
        BY <3>2
      <4> HIDE DEF line
      <4>2. g \in Seq(Pieces)
        BY <3>3
      <4>3. Len(g \o line) = Len(g) + Len(line)
        BY <4>1, <4>2, BothLengths, Zenon
      <4> QED
        BY <4>1, <4>3 DEF line
    <3>7. b + 0 = b /\ b + (Len(g) + 2) = 2 * (k + 1)
      <4> DEFINE l == Len(g)
      <4>1. l \in Nat /\ b + l = 2 * k
        BY <3>3
      <4> HIDE DEF l
      <4>2. b + (l + 2) = 2 * (k + 1)
        BY <1>1, <4>1
      <4> QED
        BY <4>2 DEF l
    <3> QED
      BY <3>1, <3>4, <3>5, <3>6, <3>7, NothingFollows
  <2> QED
    BY <2>2, <2>3
<1> QED
  BY <1>3, <1>4, <1>5, StepKeepsFiles

LEMMA PollEventKeepsFiles ==
    ASSUME FileInv, IdInv', RowInv', NEW r \in Runs, PollEvent(r)
    PROVE  PlacedInv' /\ StageInv' /\ OwnInv'
<1>1. /\ phase[r] = "loop" /\ UNCHANGED <<phase, raw, num, buffer, spoiled>>
      /\ \A q \in Runs \ {r} : made'[q] = made[q]
      /\ \A t \in Streams \ {"sched"} : made'[r][t] = made[r][t]
  BY DEF PollEvent, FileInv, RowInv, idVars, failVars
<1>2. Step(r, NoFiles) /\ \A t \in Streams : NoFiles[t] = <<>>
  BY <1>1, NoFileStep DEF FileInv
<1>3. Stage(r)'
  BY <1>1 DEF FileInv, StageInv, Stage, Streams
<1>4. GoesOn(r, NoFiles)
  <2> SUFFICES ASSUME NEW t \in Streams, NEW b \in Nat, Placed(r, t, b)
               PROVE  /\ Follows(<<>>, r, b) /\ Follows(buffer[r][t], r, b + 0)
                      /\ b + 0 + Len(buffer[r][t]) = Handed(r, t)'
    BY <1>1, <1>2 DEF GoesOn
  <2>1. Follows(buffer[r][t], r, b) /\ b + Len(buffer[r][t]) = Handed(r, t)
    BY <1>1 DEF Placed
  <2>2. Handed(r, t)' = Handed(r, t)
    BY <1>1 DEF Handed
  <2> QED
    BY <2>1, <2>2, NothingFollows
<1> QED
  BY <1>2, <1>3, <1>4, StepKeepsFiles

\* None of the events is in the file or the buffer before they are handed over.
LEMMA WriteEventsKeepsFiles ==
    ASSUME FileInv, IdInv', RowInv', NEW r \in Runs, WriteEvents(r)
    PROVE  PlacedInv' /\ StageInv' /\ OwnInv'
<1> DEFINE k == made[r]["sched"]
<1>1. k \in Nat /\ \A t \in Streams : buffer[r][t] \in Seq(Pieces) /\ made[r][t] \in Nat
  BY DEF FileInv, RowInv, Streams
<1>2. /\ phase[r] = "context" /\ phase'[r] = "events" /\ UNCHANGED <<raw, num, made, spoiled>>
      /\ \A q \in Runs \ {r} : buffer'[q] = buffer[q] /\ phase'[q] = phase[q]
      /\ buffer'[r]["sched"] = Lines(r, k)
      /\ \A t \in Streams \ {"sched"} : buffer'[r][t] = buffer[r][t]
  BY DEF WriteEvents, Goes, FileInv, RowInv, IdInv, IdTypes, idVars, failVars, Streams
<1>3. Step(r, NoFiles) /\ \A t \in Streams : NoFiles[t] = <<>>
  BY <1>2, NoFileStep DEF FileInv
<1>4. Stage(r)'
  BY <1>2 DEF FileInv, StageInv, Stage, Streams
<1> HIDE DEF k
<1>5. GoesOn(r, NoFiles)
  <2> SUFFICES ASSUME NEW t \in Streams, NEW b \in Nat, Placed(r, t, b)
               PROVE  /\ Follows(<<>>, r, b) /\ Follows(buffer'[r][t], r, b + 0)
                      /\ b + 0 + Len(buffer'[r][t]) = Handed(r, t)'
    BY <1>3 DEF GoesOn
  <2>1. Follows(buffer[r][t], r, b) /\ b + Len(buffer[r][t]) = Handed(r, t)
    BY <1>2 DEF Placed
  <2>2. CASE t # "sched"
    <3>1. Handed(r, t)' = Handed(r, t)
      BY <1>2, <2>2 DEF Handed
    <3>2. buffer'[r][t] = buffer[r][t] /\ b + 0 = b
      BY <1>2, <2>2
    <3> QED
      BY <2>1, <3>1, <3>2, NothingFollows
  <2>3. CASE t = "sched"
    <3>1. Handed(r, t) = 0 /\ Handed(r, t)' = 2 * k
      BY <1>2, <2>3 DEF Handed, k
    <3>2. b = 0
      BY <1>1, <2>1, <3>1
    <3>3. Len(Lines(r, k)) = 2 * k /\ Follows(Lines(r, k), r, 0)
      BY <1>1, LinesFollow
    <3> QED
      BY <1>1, <1>2, <2>3, <3>1, <3>2, <3>3, NothingFollows
  <2> QED
    BY <2>2, <2>3
<1> QED
  BY <1>3, <1>4, <1>5, StepKeepsFiles

\* A kill empties the buffers; that of the context is empty.
LEMMA KillKeepsFiles ==
    ASSUME FileInv, IdInv', RowInv', NEW r \in Runs, Kill(r)
    PROVE  PlacedInv' /\ StageInv' /\ OwnInv'
<1>1. /\ \/ phase[r] \in {"created", "freezing", "loop"} /\ phase'[r] = "killed"
         \/ phase[r] \in {"context", "events"} /\ phase'[r] = "killedLate"
      /\ UNCHANGED <<raw, num, made, spoiled>>
      /\ \A q \in Runs \ {r} : buffer'[q] = buffer[q] /\ phase'[q] = phase[q]
      /\ \A t \in Streams : buffer'[r][t] = <<>>
  BY DEF Kill, FileInv, RowInv, IdInv, IdTypes, idVars, failVars, NoFiles
<1>2. Step(r, NoFiles) /\ \A t \in Streams : NoFiles[t] = <<>>
  BY <1>1, NoFileStep DEF FileInv
<1>3. Stage(r)'
  BY <1>1 DEF FileInv, StageInv, Stage, Streams
<1>4. GoesOn(r, NoFiles)
  <2> SUFFICES ASSUME NEW t \in Streams, NEW b \in Nat, Placed(r, t, b)
               PROVE  /\ Follows(<<>>, r, b) /\ Follows(<<>>, r, b + 0)
                      /\ t = "context" => b + 0 + 0 = Handed(r, t)'
    BY <1>1, <1>2 DEF GoesOn, Killed
  <2>1. ASSUME t = "context" PROVE b = Handed(r, t)'
    <3>1. b + Len(buffer[r][t]) = Handed(r, t)
      BY <2>1 DEF Placed
    <3>2. buffer[r][t] = <<>>
      BY <2>1 DEF FileInv, StageInv, Stage
    <3>3. Handed(r, t)' = Handed(r, t)
      BY <1>1, <2>1 DEF Handed
    <3> QED
      BY <3>1, <3>2, <3>3
  <2> QED
    BY <2>1, NothingFollows
<1> QED
  BY <1>2, <1>3, <1>4, StepKeepsFiles

LEMMA SpillKeepsFiles ==
    ASSUME FileInv, IdInv', RowInv', NEW r \in Runs, NEW s \in Streams, Spill(r, s)
    PROVE  PlacedInv' /\ StageInv' /\ OwnInv'
<1> DEFINE g == buffer[r][s]
           added == [t \in Streams |-> IF t = s THEN <<Head(g)>> ELSE <<>>]
<1>1. /\ \A t \in Streams : buffer[r][t] \in Seq(Pieces) /\ made[r][t] \in Nat
      /\ \A n \in Numbers : raw[n] \in [Streams -> Seq(Pieces)]
  BY DEF FileInv, RowInv
<1>2. /\ g # <<>> /\ UNCHANGED <<phase, num, made, spoiled>>
      /\ \A q \in Runs \ {r} : buffer'[q] = buffer[q]
      /\ buffer'[r][s] = Tail(g)
      /\ \A t \in Streams \ {s} : buffer'[r][t] = buffer[r][t]
      /\ raw' = [raw EXCEPT ![num[r]][s] = Append(raw[num[r]][s], Head(g))]
  BY DEF Spill, FileInv, RowInv, idVars, failVars
<1>3. phase[r] # "new" /\ s # "context" /\ phase[r] # "done"
  BY <1>2 DEF FileInv, StageInv, Stage
<1>4. Head(g) \in Pieces /\ g \in Seq(Pieces)
  BY <1>1, <1>2
<1>11. Head(g).by = r
  BY <1>2, <1>4 DEF FileInv, MineInv
<1> HIDE DEF g
<1>5. Stage(r)'
  BY <1>2, <1>3 DEF FileInv, StageInv, Stage, Streams
<1>6. \A n \in Numbers, t \in Streams :
        raw'[n][t] = IF n = num[r] THEN raw[n][t] \o added[t] ELSE raw[n][t]
  <2> SUFFICES ASSUME NEW n \in Numbers, NEW t \in Streams
               PROVE  raw'[n][t] = IF n = num[r] THEN raw[n][t] \o added[t] ELSE raw[n][t]
    OBVIOUS
  <2>1. raw[n][t] \in Seq(Pieces)
    BY <1>1
  <2>2. raw \in [Numbers -> [Streams -> Seq(Pieces)]]
    BY DEF FileInv, RowInv
  <2>3. raw'[n][t] = IF n = num[r] /\ t = s THEN Append(raw[n][t], Head(g)) ELSE raw[n][t]
    BY <1>2, <2>2
  <2>4. Append(raw[n][t], Head(g)) = raw[n][t] \o <<Head(g)>> /\ raw[n][t] \o <<>> = raw[n][t]
    BY <1>4, <2>1, ShortConcats
  <2>5. added[t] = IF t = s THEN <<Head(g)>> ELSE <<>>
    OBVIOUS
  <2> HIDE DEF added
  <2> QED
    BY <2>3, <2>4, <2>5
<1>7. added \in [Streams -> Seq(Pieces)]
  BY <1>4
<1>8. \A t \in Streams : added[t] = IF t = s THEN <<Head(g)>> ELSE <<>>
  OBVIOUS
<1>12. \A t \in Streams : \A i \in DOMAIN added[t] : added[t][i].by = r
  BY <1>11
<1> HIDE DEF added
<1>9. Step(r, added)
  BY <1>2, <1>3, <1>6, <1>7, <1>12 DEF Step
<1>10. GoesOn(r, added)
  <2> SUFFICES ASSUME NEW t \in Streams, NEW b \in Nat, Placed(r, t, b)
               PROVE  /\ Follows(added[t], r, b)
                      /\ Follows(buffer'[r][t], r, b + Len(added[t]))
                      /\ t = "context" \/ phase'[r] \notin Killed =>
                           b + Len(added[t]) + Len(buffer'[r][t]) = Handed(r, t)'
    BY DEF GoesOn
  <2>1. /\ Follows(buffer[r][t], r, b)
        /\ t = "context" \/ phase[r] \notin Killed => b + Len(buffer[r][t]) = Handed(r, t)
    BY DEF Placed, Killed
  <2>2. Handed(r, t)' = Handed(r, t) /\ phase' = phase
    BY <1>2 DEF Handed
  <2>3. CASE t # s
    <3>1. added[t] = <<>> /\ Len(added[t]) = 0 /\ buffer'[r][t] = buffer[r][t]
      BY <1>2, <1>8, <2>3
    <3> QED
      BY <1>1, <2>1, <2>2, <3>1, NothingFollows
  <2>4. CASE t = s
    <3>1. added[t] = <<Head(g)>> /\ Len(added[t]) = 1 /\ buffer'[r][t] = Tail(g)
      BY <1>2, <1>8, <2>4
    <3>2. Follows(g, r, b) /\ Len(buffer[r][t]) = Len(g)
      BY <2>1, <2>4 DEF g
    <3>3. /\ Follows(<<Head(g)>>, r, b) /\ Len(Tail(g)) + 1 = Len(g)
          /\ Follows(Tail(g), r, b + 1) /\ Len(Tail(g)) \in Nat
      BY <1>2, <1>4, <3>2, FollowsTail
    <3>4. b + 1 + Len(Tail(g)) = b + Len(g)
      <4> DEFINE l == Len(Tail(g))
                 m == Len(g)
      <4>1. l \in Nat /\ l + 1 = m
        BY <3>3
      <4> HIDE DEF l, m
      <4>2. b + 1 + l = b + m
        BY <4>1
      <4> QED
        BY <4>2 DEF l, m
    <3> QED
      BY <2>1, <2>2, <3>1, <3>2, <3>3, <3>4 DEF Killed
  <2> QED
    BY <2>3, <2>4
<1> QED
  BY <1>5, <1>9, <1>10, StepKeepsFiles

LEMMA EndContextKeepsFiles ==
    ASSUME FileInv, IdInv', RowInv', NEW r \in Runs, EndContext(r)
    PROVE  PlacedInv' /\ StageInv' /\ OwnInv'
<1> DEFINE line == Line(r, 1)
           added == [t \in Streams |-> IF t = "context" THEN line ELSE <<>>]
<1>1. /\ \A t \in Streams : buffer[r][t] \in Seq(Pieces) /\ made[r][t] \in Nat
      /\ "context" \in Streams
  BY DEF FileInv, RowInv, Streams
<1>2. /\ phase[r] = "loop" /\ phase'[r] = "context" /\ UNCHANGED <<num, buffer, spoiled>>
      /\ \A q \in Runs \ {r} : made'[q] = made[q] /\ phase'[q] = phase[q]
      /\ made'[r]["context"] = 1
      /\ \A t \in Streams \ {"context"} : made'[r][t] = made[r][t]
      /\ raw' = [raw EXCEPT ![num[r]]["context"] = raw[num[r]]["context"] \o line]
  BY DEF EndContext, Goes, FileInv, RowInv, IdInv, IdTypes, idVars, failVars, Streams
<1>3. made[r]["context"] = 0 /\ buffer[r]["context"] = <<>>
  BY <1>2 DEF FileInv, StageInv, Stage
<1>4. line \in Seq(Pieces) /\ Len(line) = 2 /\ Follows(line, r, 0)
  <2>1. 0 + 1 = 1 /\ 2 * 0 = 0 /\ 0 \in Nat
    OBVIOUS
  <2>2. Line(r, 0 + 1) \in Seq(Pieces) /\ Len(Line(r, 0 + 1)) = 2 /\ Follows(Line(r, 0 + 1), r, 2 * 0)
    BY LineFollows
  <2> QED
    BY <2>1, <2>2
<1> HIDE DEF line
<1>5. Stage(r)'
  BY <1>2, <1>3 DEF FileInv, StageInv, Stage, Streams
<1>6. \A n \in Numbers, t \in Streams :
        raw'[n][t] = IF n = num[r] THEN raw[n][t] \o added[t] ELSE raw[n][t]
  <2> SUFFICES ASSUME NEW n \in Numbers, NEW t \in Streams
               PROVE  raw'[n][t] = IF n = num[r] THEN raw[n][t] \o added[t] ELSE raw[n][t]
    OBVIOUS
  <2>1. raw[n][t] \in Seq(Pieces) /\ raw \in [Numbers -> [Streams -> Seq(Pieces)]]
    BY DEF FileInv, RowInv
  <2>2. raw[n][t] \o <<>> = raw[n][t]
    BY <2>1
  <2> DEFINE longer == raw[num[r]]["context"] \o line
  <2>3. raw'[n][t] = IF n = num[r] /\ t = "context" THEN longer ELSE raw[n][t]
    <3>1. raw' = [raw EXCEPT ![num[r]]["context"] = longer]
      BY <1>2
    <3> HIDE DEF longer
    <3> QED
      BY <2>1, <3>1
  <2> QED
    BY <2>2, <2>3
<1>7. added \in [Streams -> Seq(Pieces)]
  BY <1>4
<1>8. \A t \in Streams : added[t] = IF t = "context" THEN line ELSE <<>>
  OBVIOUS
<1>11. \A t \in Streams : \A i \in DOMAIN added[t] : added[t][i].by = r
  BY <1>4 DEF Follows
<1> HIDE DEF added
<1>9. Step(r, added)
  BY <1>2, <1>6, <1>7, <1>11 DEF Step
<1>10. GoesOn(r, added)
  <2> SUFFICES ASSUME NEW t \in Streams, NEW b \in Nat, Placed(r, t, b)
               PROVE  /\ Follows(added[t], r, b)
                      /\ Follows(buffer[r][t], r, b + Len(added[t]))
                      /\ b + Len(added[t]) + Len(buffer[r][t]) = Handed(r, t)'
    BY <1>2 DEF GoesOn
  <2>1. Follows(buffer[r][t], r, b) /\ b + Len(buffer[r][t]) = Handed(r, t)
    BY <1>2 DEF Placed
  <2>2. CASE t # "context"
    <3>1. added[t] = <<>> /\ Len(added[t]) = 0
      BY <1>8, <2>2
    <3>2. Handed(r, t)' = Handed(r, t)
      BY <1>2, <2>2 DEF Handed
    <3> QED
      BY <1>1, <2>1, <3>1, <3>2, NothingFollows
  <2>3. CASE t = "context"
    <3>1. Handed(r, t) = 0 /\ Handed(r, t)' = 2
      BY <1>2, <1>3, <2>3 DEF Handed
    <3>2. buffer[r][t] = <<>> /\ Len(buffer[r][t]) = 0
      BY <1>3, <2>3
    <3>3. b = 0
      BY <2>1, <3>1, <3>2
    <3>4. added[t] = line
      BY <1>8, <2>3
    <3> QED
      BY <1>4, <3>1, <3>2, <3>3, <3>4, NothingFollows
  <2> QED
    BY <2>2, <2>3
<1> QED
  BY <1>5, <1>9, <1>10, StepKeepsFiles

LEMMA CloseKeepsFiles ==
    ASSUME FileInv, IdInv', RowInv', NEW r \in Runs, Close(r)
    PROVE  PlacedInv' /\ StageInv' /\ OwnInv'
<1>1. \A t \in Streams : buffer[r][t] \in Seq(Pieces) /\ made[r][t] \in Nat
  BY DEF FileInv, RowInv
<1>2. /\ phase[r] = "events" /\ phase'[r] = "done" /\ UNCHANGED <<num, made, spoiled>>
      /\ \A q \in Runs \ {r} : buffer'[q] = buffer[q] /\ phase'[q] = phase[q]
      /\ \A t \in Streams : buffer'[r][t] = <<>>
      /\ raw' = [raw EXCEPT ![num[r]] = Flushed(r)]
  BY DEF Close, Goes, FileInv, RowInv, IdInv, IdTypes, idVars, failVars, NoFiles
<1>3. Stage(r)'
  BY <1>2 DEF FileInv, StageInv, Stage, Streams
<1>4. \A n \in Numbers, t \in Streams :
        raw'[n][t] = IF n = num[r] THEN raw[n][t] \o buffer[r][t] ELSE raw[n][t]
  <2>1. raw' = [n \in Numbers |-> IF n = num[r] THEN Flushed(r) ELSE raw[n]]
    BY <1>2 DEF FileInv, RowInv
  <2>2. \A t \in Streams : Flushed(r)[t] = raw[num[r]][t] \o buffer[r][t]
    BY DEF Flushed
  <2> QED
    BY <2>1, <2>2
<1>5. Step(r, buffer[r])
  BY <1>2, <1>4 DEF Step, FileInv, RowInv, MineInv
<1>6. GoesOn(r, buffer[r])
  <2> SUFFICES ASSUME NEW t \in Streams, NEW b \in Nat, Placed(r, t, b)
               PROVE  /\ Follows(buffer[r][t], r, b)
                      /\ Follows(<<>>, r, b + Len(buffer[r][t]))
                      /\ b + Len(buffer[r][t]) + 0 = Handed(r, t)'
    BY <1>2 DEF GoesOn
  <2>1. Follows(buffer[r][t], r, b) /\ b + Len(buffer[r][t]) = Handed(r, t)
    BY <1>2 DEF Placed
  <2>2. Handed(r, t)' = Handed(r, t)
    BY <1>2 DEF Handed
  <2> QED
    BY <1>1, <2>1, <2>2, NothingFollows
<1> QED
  BY <1>3, <1>5, <1>6, StepKeepsFiles

\* A step that sets one buffer to text of its own run.
LEMMA OneBuffer ==
    ASSUME RowInv, MineInv, NEW r \in Runs, NEW s \in Streams, NEW text,
           buffer' = [buffer EXCEPT ![r][s] = text],
           \A i \in DOMAIN text : text[i].by = r
    PROVE  MineInv'
<1> SUFFICES ASSUME NEW q \in Runs, NEW t \in Streams
             PROVE  \A i \in DOMAIN buffer'[q][t] : buffer'[q][t][i].by = q
  BY DEF MineInv
<1>1. buffer'[q][t] = IF q = r /\ t = s THEN text ELSE buffer[q][t]
  BY DEF RowInv
<1> QED
  BY <1>1 DEF MineInv

LEMMA BuffersStayMine ==
    ASSUME RowInv, MineInv, [Next]_vars
    PROVE  MineInv'
<1>1. ASSUME buffer' = buffer PROVE MineInv'
  BY <1>1 DEF MineInv
<1>2. ASSUME NEW r \in Runs, Write(r) \/ WriteNotKept(r) \/ WriteLosesText(r)
      PROVE  MineInv'
  <2> DEFINE g == buffer[r]["rows"]
             n == made[r]["rows"] + 1
             line == Line(r, n)
  <2>1. "rows" \in Streams /\ g \in Seq(Pieces) /\ n \in Nat /\ n > 0
    BY DEF RowInv, Streams
  <2>2. line \in Seq(Pieces)
    BY <2>1, LinesAreLines
  <2>3. \A i \in DOMAIN line : line[i].by = r
    BY DEF Line, Fragment
  <2>4. \A i \in DOMAIN g : g[i].by = r
    BY <2>1 DEF MineInv
  <2>5. OneMore(r) = g \o line
    BY DEF OneMore
  <2> HIDE DEF g, n, line
  <2>6. OneMore(r) \in Seq(Pieces) /\ \A i \in DOMAIN OneMore(r) : OneMore(r)[i].by = r
    BY <2>1, <2>2, <2>3, <2>4, <2>5, ConcatAt
  <2>7. \A k \in 0 .. Len(OneMore(r)) - 1 : \A i \in DOMAIN SubSeq(OneMore(r), 1, k) :
          SubSeq(OneMore(r), 1, k)[i].by = r
    <3> DEFINE whole == OneMore(r)
    <3>1. whole \in Seq(Pieces) /\ \A i \in DOMAIN whole : whole[i].by = r
      BY <2>6
    <3> HIDE DEF whole
    <3>2. \A k \in 0 .. Len(whole) - 1 : \A i \in DOMAIN SubSeq(whole, 1, k) :
            i \in DOMAIN whole /\ SubSeq(whole, 1, k)[i] = whole[i]
      BY <3>1
    <3>3. \A k \in 0 .. Len(whole) - 1 : \A i \in DOMAIN SubSeq(whole, 1, k) :
            SubSeq(whole, 1, k)[i].by = r
      BY <3>1, <3>2
    <3> QED
      BY <3>3 DEF whole
  <2>8. PICK text : WriteTo(r, text) /\ \A i \in DOMAIN text : text[i].by = r
    BY <1>2, <2>6, <2>7 DEF Write, WriteNotKept, WriteLosesText
  <2> QED
    BY <2>1, <2>8, OneBuffer DEF WriteTo
<1>3. ASSUME NEW r \in Runs, NEW s \in Streams, Spill(r, s) PROVE MineInv'
  <2> DEFINE g == buffer[r][s]
  <2>1. g \in Seq(Pieces) /\ g # <<>> /\ \A i \in DOMAIN g : g[i].by = r
    BY <1>3 DEF Spill, RowInv, MineInv
  <2> HIDE DEF g
  <2>2. \A i \in DOMAIN Tail(g) : i + 1 \in DOMAIN g /\ Tail(g)[i] = g[i + 1]
    BY <2>1
  <2>3. \A i \in DOMAIN Tail(g) : Tail(g)[i].by = r
    BY <2>1, <2>2
  <2>4. buffer' = [buffer EXCEPT ![r][s] = Tail(g)]
    BY <1>3 DEF Spill, g
  <2> QED
    BY <2>3, <2>4, OneBuffer
<1>4. ASSUME NEW r \in Runs, WriteEvents(r) PROVE MineInv'
  <2>1. \A k \in Nat : \A i \in DOMAIN Lines(r, k) : Lines(r, k)[i].by = r
    BY DEF Lines, Fragment
  <2>2. made[r]["sched"] \in Nat /\ "sched" \in Streams
    BY DEF RowInv, Streams
  <2> QED
    BY <1>4, <2>1, <2>2, OneBuffer DEF WriteEvents
<1>5. ASSUME NEW r \in Runs, Close(r) \/ Kill(r) PROVE MineInv'
  <2> SUFFICES ASSUME NEW q \in Runs, NEW t \in Streams
               PROVE  \A i \in DOMAIN buffer'[q][t] : buffer'[q][t][i].by = q
    BY DEF MineInv
  <2>1. buffer'[q][t] = IF q = r THEN <<>> ELSE buffer[q][t]
    BY <1>5 DEF Close, Kill, NoFiles, RowInv
  <2> QED
    BY <2>1 DEF MineInv
<1>6. ASSUME NEW r \in Runs,
             \/ Choose(r) \/ Create(r) \/ Truncate(r) \/ Freeze(r)
             \/ PollEvent(r) \/ EndContext(r)
      PROVE  MineInv'
  BY <1>1, <1>6 DEF Choose, Create, Truncate, Freeze, PollEvent, EndContext, rowVars
<1>7. CASE UNCHANGED vars
  BY <1>1, <1>7 DEF vars, rowVars
<1> QED
  BY <1>2, <1>3, <1>4, <1>5, <1>6, <1>7 DEF Next

LEMMA FilesAreInductive ==
    ASSUME FileInv, [Next]_vars
    PROVE  FileInv'
<1>1. IdInv' /\ RowInv' /\ MineInv'
  BY IdInvIsInductive, StepExtends, BuffersStayMine DEF FileInv
<1>2. CASE UNCHANGED vars
  <2>1. PlacedInv'
    BY <1>2 DEF FileInv, PlacedInv, Placed, Handed, Clean, vars, idVars, rowVars, failVars
  <2>2. StageInv' /\ OwnInv'
    BY <1>2 DEF FileInv, StageInv, Stage, OwnInv, vars, idVars, rowVars
  <2> QED
    BY <1>1, <2>1, <2>2 DEF FileInv
<1>3. ASSUME NEW r \in Runs, Create(r) \/ Truncate(r) \/ Freeze(r)
      PROVE  PlacedInv' /\ StageInv' /\ OwnInv'
  <2>1. /\ UNCHANGED <<raw, num, made, buffer, spoiled>>
        /\ phase[r] \in {"chosen", "created", "freezing"}
        /\ phase'[r] \in {"created", "freezing", "loop"}
        /\ \A q \in Runs \ {r} : phase'[q] = phase[q]
    BY <1>3 DEF Create, Truncate, Freeze, Goes, idVars, rowVars, failVars, FileInv, IdInv,
       IdTypes
  <2> QED
    BY <1>1, <2>1, MoveKeepsFiles
<1>4. CASE Next
  <2>1. PlacedInv' /\ StageInv' /\ OwnInv'
    BY <1>1, <1>3, <1>4, ChooseKeepsFiles, WriteKeepsFiles, PollEventKeepsFiles,
       EndContextKeepsFiles, WriteEventsKeepsFiles, CloseKeepsFiles, KillKeepsFiles,
       SpillKeepsFiles DEF Next
  <2> QED
    BY <1>1, <2>1 DEF FileInv
<1> QED
  BY <1>2, <1>4

LEMMA InitFiles == Init => FileInv
<1> SUFFICES ASSUME Init PROVE FileInv
  OBVIOUS
<1>1. IdInv /\ RowInv
  BY InitIdInv, InitRowInv
<1>2. PlacedInv /\ OwnInv /\ MineInv
  BY DEF Init, PlacedInv, OwnInv, MineInv, NoFiles
<1>3. StageInv
  BY DEF Init, StageInv, Stage, NoFiles, Streams
<1> QED
  BY <1>1, <1>2, <1>3 DEF FileInv

-----------------------------------------------------------------------------
(***************************************************************************)
(* A run that has its directory for itself.                                *)
(***************************************************************************)

Alone(r) == \A q \in Runs \ {r} : num[q] # num[r]

\* Its metadata stay whole.
FrozenInv ==
    /\ frozen \in [Numbers -> {"absent", "torn", "whole"}]
    /\ \A r \in Runs :
           phase[r] \in {"loop", "context", "events", "done"} /\ Alone(r) =>
               frozen[num[r]] = "whole"

LEMMA FrozenIsInductive ==
    ASSUME FileInv, FrozenInv, [Next]_vars
    PROVE  FrozenInv'
<1>0. /\ num \in [Runs -> Nat] /\ DOMAIN phase = Runs
      /\ \A r \in Runs : phase[r] # "new" => num[r] \in Numbers
  BY DEF FileInv, IdInv, IdTypes, StageInv, Stage
<1>1. ASSUME UNCHANGED <<num, frozen>>,
             \A r \in Runs : phase'[r] \in {"loop", "context", "events", "done"} =>
                                 phase[r] \in {"loop", "context", "events", "done"}
      PROVE  FrozenInv'
  BY <1>1 DEF FrozenInv, Alone
<1>2. CASE UNCHANGED vars
  BY <1>1, <1>2 DEF vars, idVars
<1>3. ASSUME NEW r \in Runs, Choose(r) PROVE FrozenInv'
  <2>1. /\ phase[r] = "new" /\ phase'[r] = "chosen" /\ frozen' = frozen
        /\ \A q \in Runs \ {r} : phase'[q] = phase[q] /\ num'[q] = num[q]
    BY <1>0, <1>3 DEF Choose, Goes
  <2>2. num[r] = 0
    BY <2>1 DEF FileInv, IdInv, DirsInv
  <2>3. ASSUME NEW q \in Runs, phase'[q] \in {"loop", "context", "events", "done"}, Alone(q)'
        PROVE  frozen[num'[q]] = "whole"
    <3>1. q # r /\ phase[q] = phase'[q] /\ num'[q] = num[q] /\ num[q] \in Numbers
      BY <1>0, <2>1, <2>3
    <3>2. num[q] # num[r]
      BY <2>2, <3>1, BoundsAssumption DEF Numbers
    <3>3. Alone(q)
      BY <2>1, <2>3, <3>1, <3>2 DEF Alone
    <3> QED
      BY <2>3, <3>1, <3>3 DEF FrozenInv
  <2> QED
    BY <2>1, <2>3 DEF FrozenInv
<1>4. ASSUME NEW r \in Runs, Create(r) PROVE FrozenInv'
  BY <1>0, <1>1, <1>4 DEF Create, Goes
<1>5. ASSUME NEW r \in Runs, Truncate(r) PROVE FrozenInv'
  <2>1. /\ phase'[r] = "freezing" /\ num' = num /\ num[r] \in Numbers
        /\ frozen' = [frozen EXCEPT ![num[r]] = "torn"]
        /\ \A q \in Runs \ {r} : phase'[q] = phase[q]
    BY <1>0, <1>5 DEF Truncate, Goes, idVars
  <2> QED
    BY <1>0, <2>1 DEF FrozenInv, Alone
<1>6. ASSUME NEW r \in Runs, Freeze(r) PROVE FrozenInv'
  <2>1. /\ phase'[r] = "loop" /\ num' = num /\ num[r] \in Numbers
        /\ frozen' = [frozen EXCEPT ![num[r]] = "whole"]
        /\ \A q \in Runs \ {r} : phase'[q] = phase[q]
    BY <1>0, <1>6 DEF Freeze, Goes, idVars
  <2> QED
    BY <1>0, <2>1 DEF FrozenInv, Alone
<1>7. ASSUME NEW r \in Runs, EndContext(r) \/ WriteEvents(r) \/ Close(r) PROVE FrozenInv'
  BY <1>0, <1>1, <1>7 DEF EndContext, WriteEvents, Close, Goes, idVars
<1>8. ASSUME NEW r \in Runs, Kill(r) PROVE FrozenInv'
  BY <1>0, <1>1, <1>8 DEF Kill, idVars
<1>9. ASSUME NEW r \in Runs, PollEvent(r) \/ \E s \in Streams : Spill(r, s)
      PROVE  FrozenInv'
  BY <1>1, <1>9 DEF PollEvent, Spill, idVars
<1>10. ASSUME NEW r \in Runs, Write(r) \/ WriteNotKept(r) \/ WriteLosesText(r)
       PROVE  FrozenInv'
  BY <1>1, <1>10, LoopWrites DEF WriteTo, idVars
<1> QED
  BY <1>2, <1>3, <1>4, <1>5, <1>6, <1>7, <1>8, <1>9, <1>10 DEF Next

LEMMA InitFrozen == Init => FrozenInv
  BY DEF Init, FrozenInv

\* In every reachable state the pieces in a file are those its writers have put
\* there, each a prefix of its run's rows in their order (but for the rows of a run
\* of which a raised write lost text), and what a run froze or
\* finished is what it wrote (raw_writer.py:23-48, controller.py:313-333).
THEOREM SpecFiles == Spec => [](FileInv /\ FrozenInv)
<1>1. Init => FileInv /\ FrozenInv
  BY InitFiles, InitFrozen
<1>2. FileInv /\ FrozenInv /\ [Next]_vars => FileInv' /\ FrozenInv'
  BY FilesAreInductive, FrozenIsInductive
<1> QED
  BY <1>1, <1>2, PTL DEF Spec

\* A file that has all pieces of k lines of r, and nothing else, has them at
\* their places.
LEMMA PlaceOfPieces ==
    ASSUME NEW f \in Seq(Pieces), NEW r, NEW b \in Nat, Has(f, r, b),
           \A i \in DOMAIN f : f[i].by = r
    PROVE  Len(f) = b /\ \A i \in DOMAIN f : Ix(f[i]) = i
<1>0. DOMAIN f = 1 .. Len(f) /\ Len(f) \in Nat /\ \A i \in DOMAIN f : Ix(f[i]) \in Int
  BY IxIsInt
<1>1. /\ \A i \in DOMAIN f : Ix(f[i]) \in 1 .. b
      /\ \A k \in 1 .. b : \E i \in DOMAIN f : Ix(f[i]) = k
      /\ \A i, j \in DOMAIN f : i < j => Ix(f[i]) < Ix(f[j])
  BY DEF Has
<1> DEFINE Wrong == {i \in DOMAIN f : Ix(f[i]) # i}
<1>2. Wrong = {}
  <2> SUFFICES ASSUME Wrong # {} PROVE FALSE
    OBVIOUS
  <2>1. PICK i \in Wrong : \A j \in Wrong : i <= j
    <3>1. Wrong \in SUBSET Nat
      BY <1>0
    <3> HIDE DEF Wrong
    <3> QED
      BY <3>1, MinExists
  <2>2. i \in DOMAIN f /\ i \in 1 .. Len(f) /\ Ix(f[i]) # i
    BY <1>0
  <2>3. \A j \in DOMAIN f : j < i => Ix(f[j]) = j
    <3> SUFFICES ASSUME NEW j \in DOMAIN f, j < i PROVE j \notin Wrong
      OBVIOUS
    <3> HIDE DEF Wrong
    <3> QED
      BY <1>0, <2>1, <2>2
  <2>4. Ix(f[i]) > i
    <3>1. CASE i = 1
      BY <1>0, <1>1, <2>2, <3>1
    <3>2. CASE i > 1
      <4>1. i - 1 \in DOMAIN f /\ i - 1 < i
        BY <1>0, <2>2, <3>2
      <4>2. Ix(f[i - 1]) = i - 1 /\ Ix(f[i - 1]) < Ix(f[i])
        BY <1>1, <2>2, <2>3, <4>1
      <4> QED
        BY <1>0, <2>2, <4>2
    <3> QED
      BY <2>2, <3>1, <3>2
  <2>5. i \in 1 .. b
    BY <1>1, <2>2, <2>4
  <2>6. PICK j \in DOMAIN f : Ix(f[j]) = i
    BY <1>1, <2>5
  <2>7. j < i \/ j = i \/ i < j
    BY <1>0, <2>2
  <2> QED
    BY <1>0, <1>1, <2>2, <2>3, <2>4, <2>6, <2>7
<1>3. \A i \in DOMAIN f : Ix(f[i]) = i
  BY <1>2
<1>4. Len(f) <= b
  <2>1. CASE Len(f) = 0
    BY <2>1
  <2>2. CASE Len(f) # 0
    <3>1. Len(f) \in DOMAIN f
      BY <1>0, <2>2
    <3>2. Len(f) \in 1 .. b
      BY <1>1, <1>3, <3>1
    <3> QED
      BY <3>2
  <2> QED
    BY <2>1, <2>2
<1>5. b <= Len(f)
  <2>1. CASE b = 0
    BY <1>0, <2>1
  <2>2. CASE b # 0
    <3>1. b \in 1 .. b
      BY <2>2
    <3>2. b \in DOMAIN f
      BY <1>1, <1>3, <3>1
    <3> QED
      BY <1>0, <3>2
  <2> QED
    BY <2>1, <2>2
<1>6. Len(f) = b
  <2> DEFINE l == Len(f)
  <2>1. l \in Nat /\ l <= b /\ b <= l
    BY <1>0, <1>4, <1>5
  <2> HIDE DEF l
  <2>2. l = b
    BY <2>1
  <2> QED
    BY <2>2 DEF l
<1> QED
  BY <1>3, <1>6

LEMMA WholeFileLoads ==
    ASSUME NEW f \in Seq(Pieces), NEW r, NEW k \in Nat, Has(f, r, 2 * k),
           \A i \in DOMAIN f : f[i].by = r
    PROVE  /\ Decodes(f) /\ DOMAIN Loaded(f) = 1 .. k /\ Len(Loaded(f)) = k
           /\ \A j \in 1 .. k : Loaded(f)[j].n = j
<1>0. DOMAIN f = 1 .. 2 * k /\ Len(f) = 2 * k /\ \A i \in DOMAIN f : f[i] \in Pieces /\ Ix(f[i]) = i
  <2>1. 2 * k \in Nat /\ DOMAIN f = 1 .. Len(f) /\ \A i \in DOMAIN f : f[i] \in Pieces
    OBVIOUS
  <2>2. Len(f) = 2 * k /\ \A i \in DOMAIN f : Ix(f[i]) = i
    BY <2>1, PlaceOfPieces
  <2> QED
    BY <2>1, <2>2
<1>1. ASSUME NEW j \in 1 .. k PROVE IsLine(f, 2 * j - 1)
  <2>1. 2 * j - 1 \in DOMAIN f /\ 2 * j \in DOMAIN f /\ (2 * j - 1) + 1 = 2 * j /\ 2 * j - 1 < 2 * k
    BY <1>0
  <2>2. f[2 * j - 1] = [by |-> r, n |-> j, part |-> "head"]
    <3>1. f[2 * j - 1] \in Pieces /\ Ix(f[2 * j - 1]) = 2 * j - 1 /\ f[2 * j - 1].by = r
      BY <1>0, <2>1
    <3> QED
      BY <3>1 DEF Ix, Pieces
  <2>3. f[2 * j] = [by |-> r, n |-> j, part |-> "tail"]
    <3>1. f[2 * j] \in Pieces /\ Ix(f[2 * j]) = 2 * j /\ f[2 * j].by = r
      BY <1>0, <2>1
    <3> QED
      BY <3>1 DEF Ix, Pieces
  <2>4. f[2 * j] = [f[2 * j - 1] EXCEPT !.part = "tail"]
    BY <2>2, <2>3
  <2>5. f[2 * j - 1].part = "head"
    BY <2>2
  <2> QED
    BY <1>0, <2>1, <2>4, <2>5 DEF IsLine
<1>2. Decodes(f)
  <2> SUFFICES ASSUME NEW i \in 1 .. 2 * k
               PROVE  IsLine(f, i) \/ (i > 1 /\ IsLine(f, i - 1))
    BY <1>0 DEF Decodes
  <2>1. CASE i % 2 = 1
    <3> DEFINE j == (i + 1) \div 2
    <3>1. j \in Nat /\ i = 2 * j - 1
      BY <2>1, Halves
    <3> HIDE DEF j
    <3>2. j \in 1 .. k
      BY <3>1
    <3> QED
      BY <1>1, <3>1, <3>2
  <2>2. CASE i % 2 # 1
    <3> DEFINE j == i \div 2
    <3>1. j \in Nat /\ i = 2 * j
      BY <2>2, Halves
    <3> HIDE DEF j
    <3>2. j \in 1 .. k /\ i > 1
      BY <3>1
    <3> QED
      BY <1>1, <3>1, <3>2
  <2> QED
    BY <2>1, <2>2
<1>3. Loaded(f) = [j \in 1 .. k |-> f[2 * j - 1]]
  <2>1. Loaded(f) = [j \in 1 .. Len(f) \div 2 |-> f[2 * j - 1]]
    BY <1>2, LoadedLines
  <2>2. Len(f) \div 2 = k
    <3>1. (2 * k) \div 2 = k
      OBVIOUS
    <3> QED
      BY <1>0, <3>1
  <2> QED
    BY <2>1, <2>2
<1>4. DOMAIN Loaded(f) = 1 .. k /\ Len(Loaded(f)) = k
  BY <1>3
<1>5. \A j \in 1 .. k : f[2 * j - 1].n = j
  <2> SUFFICES ASSUME NEW j \in 1 .. k PROVE f[2 * j - 1].n = j
    OBVIOUS
  <2>1. 2 * j - 1 \in DOMAIN f
    BY <1>0
  <2>2. f[2 * j - 1] \in Pieces /\ Ix(f[2 * j - 1]) = 2 * j - 1
    BY <1>0, <2>1
  <2>3. f[2 * j - 1].part = "head"
    BY <1>1 DEF IsLine
  <2> QED
    BY <2>2, <2>3 DEF Ix, Pieces
<1> QED
  BY <1>2, <1>3, <1>4, <1>5

\* In the directory of r there is nothing of another run.
LEMMA OnlyItsOwn ==
    ASSUME FileInv, NEW r \in Runs, Alone(r), phase[r] # "new", NEW s \in Streams
    PROVE  /\ raw[num[r]][s] \in Seq(Pieces) /\ num[r] \in Numbers
           /\ \A i \in DOMAIN raw[num[r]][s] : raw[num[r]][s][i].by = r
<1>1. num[r] \in Numbers
  BY DEF FileInv, StageInv, Stage
<1>2. raw[num[r]][s] \in Seq(Pieces)
  BY <1>1 DEF FileInv, RowInv
<1>3. ASSUME NEW i \in DOMAIN raw[num[r]][s] PROVE raw[num[r]][s][i].by = r
  <2>1. raw[num[r]][s][i] \in Pieces
    BY <1>2
  <2>2. raw[num[r]][s][i].by \in Runs
    BY <2>1 DEF Pieces
  <2>3. num[raw[num[r]][s][i].by] = num[r]
    BY <1>1 DEF FileInv, OwnInv
  <2> QED
    BY <2>2, <2>3 DEF Alone
<1> QED
  BY <1>1, <1>2, <1>3

\* A finished run alone in its directory: every row of a stream of which no text
\* was lost is in the file, once and in its place.
LEMMA ClosedStream ==
    ASSUME FileInv, NEW r \in Runs, phase[r] = "done", Alone(r),
           NEW s \in Streams, Clean(r, s)
    PROVE  /\ Decodes(raw[num[r]][s])
           /\ DOMAIN Loaded(raw[num[r]][s]) = 1 .. made[r][s]
           /\ Len(Loaded(raw[num[r]][s])) = made[r][s]
           /\ \A j \in 1 .. made[r][s] : Loaded(raw[num[r]][s])[j].n = j
<1>1. /\ raw[num[r]][s] \in Seq(Pieces)
      /\ \A i \in DOMAIN raw[num[r]][s] : raw[num[r]][s][i].by = r
  BY OnlyItsOwn
<1>2. PICK b \in Nat : Placed(r, s, b)
  BY DEF FileInv, PlacedInv
<1>3. buffer[r][s] = <<>> /\ made[r][s] \in Nat
  BY DEF FileInv, RowInv, StageInv, Stage
<1>4. b + Len(buffer[r][s]) = 2 * made[r][s] /\ Has(raw[num[r]][s], r, b)
  BY <1>2 DEF Placed, Handed
<1>5. b = 2 * made[r][s]
  BY <1>3, <1>4
<1> QED
  BY <1>1, <1>3, <1>4, <1>5, WholeFileLoads

LEMMA FinishedRunReplays == FileInv /\ FrozenInv => FinishedRunReplaysWhole
<1> SUFFICES ASSUME FileInv, FrozenInv, NEW r \in Runs, phase[r] = "done", Owns(r),
                    r \notin spoiled
             PROVE  /\ Builds(num[r])
                    /\ \A s \in Streams :
                          /\ Judged(r, s) \subseteq Read(r, s)
                          /\ Read(r, s) \ Judged(r, s)
                               \subseteq (IF s = "rows" THEN unkept[r] ELSE {})
  BY DEF FinishedRunReplaysWhole
<1>1. Alone(r) /\ \A s \in Streams : Clean(r, s)
  BY DEF Owns, Alone, Clean
<1>2. Builds(num[r])
  BY <1>1, ClosedStream DEF FrozenInv, Builds
<1>3. ASSUME NEW s \in Streams PROVE Read(r, s) = 1 .. made[r][s]
  <2> DEFINE loaded == Loaded(raw[num[r]][s])
  <2>1. DOMAIN loaded = 1 .. made[r][s] /\ \A j \in 1 .. made[r][s] : loaded[j].n = j
    BY <1>1, ClosedStream
  <2>2. Read(r, s) = {row.n : row \in {loaded[j] : j \in DOMAIN loaded}}
    BY DEF Read, Range
  <2> HIDE DEF loaded
  <2> QED
    BY <2>1, <2>2
<1> QED
  BY <1>2, <1>3 DEF Judged

-----------------------------------------------------------------------------

\* No run gets a directory of an earlier run while there are numbers left, and
\* two share one only after a race, for every set of runs (ids.py:8-20).
THEOREM SpecOnlyRacingRunsShare == Spec => []OnlyRacingRunsShare
<1>1. Init => IdInv
  BY InitIdInv
<1>2. IdInv /\ [Next]_vars => IdInv'
  BY IdInvIsInductive
<1>3. IdInv => OnlyRacingRunsShare
  BY DEF IdInv
<1> QED
  BY <1>1, <1>2, <1>3, PTL DEF Spec

\* The files only grow, whatever is killed and whoever shares a directory
\* (raw_writer.py:30-58).
THEOREM SpecRawIsAppendOnly == Spec => RawIsAppendOnly
<1>1. Init => RowInv
  BY InitRowInv
<1>2. RowInv /\ [Next]_vars => RowInv'
  BY StepExtends
<1>3. RowInv /\ [Next]_vars =>
        [\A n \in Numbers, s \in Streams :
             raw'[n][s] # raw[n][s] => IsPrefix(raw[n][s], raw'[n][s])]_vars
  BY StepExtends DEF Extends
<1> QED
  BY <1>1, <1>2, <1>3, PTL DEF Spec, RawIsAppendOnly

\* What a replay builds from is, of every run and every stream, its first rows in
\* their order, for every set of runs, every kill and every interleaving of the
\* pieces of runs that share a file, but for a run of which a raised write lost text
\* (raw_writer.py:23-48, replay.py:62-75).
THEOREM SpecNoRowSkipped == Spec => []NoRowSkipped
<1>1. FileInv => NoRowSkipped
  <2> SUFFICES ASSUME FileInv, NEW n \in Numbers, Builds(n), NEW s \in Streams,
                      NEW k \in DOMAIN Loaded(raw[n][s]), Clean(Loaded(raw[n][s])[k].by, s)
               PROVE  Loaded(raw[n][s])[k].n
                        = Cardinality({j \in 1 .. k :
                              Loaded(raw[n][s])[j].by = Loaded(raw[n][s])[k].by})
    BY DEF NoRowSkipped
  <2> DEFINE f == raw[n][s]
  <2>1. f \in Seq(Pieces) /\ Decodes(f)
    BY DEF FileInv, RowInv, Builds
  <2>2. PICK r : r = Loaded(f)[k].by
    OBVIOUS
  <2>3. \E i \in DOMAIN f : Loaded(f)[k] = f[i]
    <3> HIDE DEF f
    <3>1. /\ Loaded(f) = [j \in 1 .. Len(f) \div 2 |-> f[2 * j - 1]]
          /\ \A j \in 1 .. Len(f) \div 2 : 2 * j - 1 \in DOMAIN f
      BY <2>1, LoadedLines
    <3>2. k \in DOMAIN Loaded(f)
      BY DEF f
    <3>3. k \in 1 .. Len(f) \div 2 /\ Loaded(f)[k] = f[2 * k - 1]
      BY <3>1, <3>2
    <3> QED
      BY <3>1, <3>3
  <2>4. r \in Runs /\ phase[r] # "new" /\ num[r] = n
    <3>1. PICK i \in DOMAIN f : Loaded(f)[k] = f[i]
      BY <2>3
    <3>2. f[i] \in Pieces
      BY <2>1
    <3>3. phase[f[i].by] # "new" /\ num[f[i].by] = n
      BY DEF FileInv, OwnInv
    <3> QED
      BY <2>2, <3>1, <3>2, <3>3 DEF Pieces
  <2>5. PICK b \in Nat : Has(f, r, b)
    BY <2>2, <2>4 DEF FileInv, PlacedInv, Placed
  <2> QED
    BY <2>1, <2>2, <2>5, LoadedInOrder
<1> QED
  BY <1>1, SpecFiles, PTL

\* The replay of a run that finished, alone in its directory and with no text lost
\* by a raised write, succeeds and reads every row the run judged, and besides them
\* only rows whose write raised (replay.py:30-75, controller.py:243-287,313-333).
THEOREM SpecFinishedRunReplaysWhole == Spec => []FinishedRunReplaysWhole
  BY FinishedRunReplays, SpecFiles, PTL

\* A run killed before its context replays to no observation; a finished one
\* with all of its events (controller.py:320-329).
THEOREM SpecEventsComeWithContext == Spec => []EventsComeWithContext
<1>1. FileInv /\ FrozenInv => EventsComeWithContext
  <2> SUFFICES ASSUME FileInv, FrozenInv, NEW r \in Runs, Owns(r),
                      phase[r] \in {"killed", "done"}, Builds(num[r]),
                      Loaded(raw[num[r]]["context"]) # <<>>
               PROVE  Len(Loaded(raw[num[r]]["sched"])) = made[r]["sched"]
    BY DEF EventsComeWithContext
  <2>1. CASE phase[r] = "done"
    BY <2>1, ClosedStream DEF Owns, Alone, Clean, Streams
  <2>2. CASE phase[r] = "killed"
    <3> DEFINE f == raw[num[r]]["context"]
    <3>1. "context" \in Streams /\ Alone(r)
      BY DEF Streams, Owns, Alone
    <3>2. f \in Seq(Pieces) /\ \A i \in DOMAIN f : f[i].by = r
      BY <2>2, <3>1, OnlyItsOwn
    <3>3. PICK b \in Nat : Placed(r, "context", b)
      BY <2>2, <3>1 DEF FileInv, PlacedInv, Clean
    <3>4. made[r]["context"] = 0 /\ buffer[r]["context"] = <<>>
      BY <2>2 DEF FileInv, StageInv, Stage
    <3>5. b + Len(buffer[r]["context"]) = 2 * made[r]["context"] /\ Has(f, r, b)
      BY <3>3 DEF Placed, Handed
    <3>6. b = 0
      BY <3>4, <3>5
    <3> HIDE DEF f
    <3>7. Has(f, r, 2 * 0)
      BY <3>5, <3>6
    <3>8. Decodes(f) /\ Len(Loaded(f)) = 0
      BY <3>2, <3>7, WholeFileLoads
    <3>9. Loaded(f) = [j \in 1 .. Len(f) \div 2 |-> f[2 * j - 1]]
      BY <3>2, <3>8, LoadedLines
    <3>10. Len(f) = 0
      BY <3>2, <3>5, <3>6, PlaceOfPieces
    <3>11. Loaded(f) = <<>>
      BY <3>9, <3>10
    <3> QED
      BY <3>11 DEF f
  <2> QED
    BY <2>1, <2>2
<1> QED
  BY <1>1, SpecFiles, PTL
=============================================================================

----------------------- MODULE TracefsFallbackProofs -----------------------
(***************************************************************************)
(* Proofs of the safety properties of TracefsFallback, for every size of   *)
(* the trace buffer and any number of lines.                               *)
(***************************************************************************)
EXTENDS TracefsFallback, SequenceTheorems, TLAPS

Ctls == {"new", "opening", "loop", "copied", "disabling", "closing", "joining", "stopped"}
Readers == {"none", "test", "call", "read", "parse", "dead"}
Counts == Kinds \cup {"received", "errors"}

\* What has been parsed, in the order in which the controller gets it.
All == rows \o buf

\* The lines the thread has not been given yet, in the order in which it will be.
Waiting == ahead \o pipe

Types ==
    /\ enabled \in BOOLEAN /\ running \in BOOLEAN /\ closed \in BOOLEAN /\ locked \in BOOLEAN
    /\ traced \in 0 .. MaxLines /\ overwritten \in Nat
    /\ pipe \in Seq(Line) /\ Len(pipe) <= PipeSize
    /\ ahead \in Seq(Line) /\ Len(ahead) < PipeSize
    /\ ctl \in Ctls
    /\ reader \in Readers
    /\ line \in Line
    /\ buf \in Seq(Nat) /\ out \in Seq(Nat) /\ rows \in Seq(Nat)
    /\ count \in [Counts -> Nat]

\* poll() holds the lock between its copy and its clear, and the copy is still
\* what the buffer holds.
LockInv ==
    /\ locked <=> ctl = "copied"
    /\ locked => out = buf
    /\ ~locked => out = <<>>

\* There is no thread before start() has opened trace_pipe.
StartInv == ctl \in {"new", "opening"} => reader = "none" /\ ~running /\ ~closed

\* A thread that waits for the kernel has used up what it read, and the file is
\* closed only after _running has been cleared.
AheadInv ==
    /\ reader = "read" => ahead = <<>>
    /\ closed \/ ctl \notin {"new", "opening", "loop", "copied"} => ~running
    /\ reader = "none" => ahead = <<>>
    /\ reader = "dead" /\ ahead # <<>> => ~running

\* The lines move through the trace buffer and the parser in their order.
OrderInv ==
    /\ \A i, j \in 1 .. Len(All) : i < j => All[i] < All[j]
    /\ \A i, j \in 1 .. Len(Waiting) : i < j => Waiting[i].id < Waiting[j].id
    /\ \A i \in 1 .. Len(Waiting) : Waiting[i].id <= traced
    /\ \A i \in 1 .. Len(All), j \in 1 .. Len(Waiting) : All[i] < Waiting[j].id
    /\ \A i \in 1 .. Len(All) : All[i] <= traced
    /\ reader = "parse" =>
        /\ \A i \in 1 .. Len(All) : All[i] < line.id
        /\ \A j \in 1 .. Len(Waiting) : line.id < Waiting[j].id
        /\ line.id <= traced

CountInv == Len(All) = count["parsed"]

\* The sums of LinesAccounted.
Sums ==
    /\ traced = overwritten + Len(pipe) + Len(ahead) + count["received"]
    /\ count["received"] = count["parsed"] + count["unknown"] + count["malformed"]
                           + (IF reader = "parse" THEN 1 ELSE 0)

IInv == Types /\ StartInv /\ AheadInv /\ LockInv /\ CountInv /\ OrderInv /\ Sums

\* The initial states satisfy the invariant.
LEMMA InitIInv == Init => IInv
<1> SUFFICES ASSUME Init PROVE IInv
  OBVIOUS
<1>1. Types
  <2>1. count \in [Counts -> Nat]
    BY DEF Init, Counts
  <2>2. line \in Line
    BY MaxLinesAssumption DEF Init, Line, NoLine, Kinds
  <2>3. pipe \in Seq(Line) /\ Len(pipe) <= PipeSize /\ ahead \in Seq(Line) /\ Len(ahead) < PipeSize
    BY PipeSizeAssumption DEF Init
  <2>4. traced \in 0 .. MaxLines /\ overwritten \in Nat
    BY MaxLinesAssumption DEF Init
  <2>5. ctl \in Ctls /\ reader \in Readers
    BY DEF Init, Ctls, Readers
  <2>6. buf \in Seq(Nat) /\ out \in Seq(Nat) /\ rows \in Seq(Nat)
    BY DEF Init
  <2>7. enabled \in BOOLEAN /\ running \in BOOLEAN /\ closed \in BOOLEAN /\ locked \in BOOLEAN
    BY DEF Init
  <2> QED
    BY <2>1, <2>2, <2>3, <2>4, <2>5, <2>6, <2>7 DEF Types
<1>2. All = <<>> /\ Len(All) = 0 /\ Waiting = <<>> /\ Len(Waiting) = 0
  BY DEF Init, All, Waiting
<1>3. count = [c \in Counts |-> 0]
  BY DEF Init, Counts
<1>4. StartInv /\ AheadInv /\ LockInv /\ CountInv /\ OrderInv /\ Sums
  BY <1>2, <1>3 DEF Init, StartInv, AheadInv, LockInv, CountInv, OrderInv, Sums, Counts, Kinds
<1> QED
  BY <1>1, <1>4 DEF IInv

\* A line appended to what was not handed over yet is appended to the whole.
LEMMA ConcatAppend ==
    ASSUME NEW S, NEW s \in Seq(S), NEW t \in Seq(S), NEW x \in S
    PROVE  s \o Append(t, x) = Append(s \o t, x)
<1>1. Append(t, x) = t \o <<x>> /\ <<x>> \in Seq(S)
  BY AppendIsConcat
<1>2. s \o t \in Seq(S)
  BY ConcatProperties
<1>3. Append(s \o t, x) = (s \o t) \o <<x>>
  BY <1>2, AppendIsConcat
<1> QED
  BY <1>1, <1>3, ConcatAssociative

\* What parsing a line appends to.
LEMMA AppendOfParse ==
    ASSUME Types, ParseEvent
    PROVE  All' = Append(All, line.id)
<1>1. line.id \in Nat /\ rows \in Seq(Nat) /\ buf \in Seq(Nat)
  BY DEF Types, Line
<1>2. rows' = rows /\ buf' = Append(buf, line.id)
  BY DEF ParseEvent
<1>3. rows \o Append(buf, line.id) = Append(rows \o buf, line.id)
  BY <1>1, ConcatAppend
<1> QED
  BY <1>2, <1>3 DEF All

\* What a step does to the parsed lines: nothing, or the line being parsed is
\* appended, which happens only outside the copy of poll().
LEMMA AllOfStep ==
    ASSUME IInv, Next
    PROVE  \/ All' = All
           \/ ParseEvent /\ All' = Append(All, line.id)
<1>0. Types /\ LockInv
  BY DEF IInv
<1>1. CASE ParseEvent
  BY <1>0, <1>1, AppendOfParse
<1>2. CASE PollClear
  <2>1. out = buf /\ buf' = <<>> /\ rows' = rows \o out
    BY <1>0, <1>2 DEF PollClear, LockInv
  <2> QED
    BY <2>1 DEF All
<1>3. CASE UNCHANGED <<rows, buf>>
  BY <1>3 DEF All
<1>4. CASE \E kind \in Kinds : Trace(kind)
  BY <1>3, <1>4 DEF Trace
<1>5. CASE ReaderStep \/ ReadRaises
  BY <1>1, <1>3, <1>5 DEF ReaderStep, TestRunning, Readline, ReadlineClosed, ReadlineAhead, EnterRead,
     LeaveRead, ParseOther, ReadRaises
<1>6. CASE (\E fail \in 0 .. Tracepoints : StartEnable(fail)) \/ StartOpen \/ StartRaises
  BY <1>3, <1>6 DEF StartEnable, StartOpen, StartRaises
<1>7. CASE PollStep
  BY <1>2, <1>3, <1>7 DEF PollStep, PollCopy
<1>8. CASE StopRunning \/ StopStep
  BY <1>3, <1>8 DEF StopRunning, StopStep, StopDisable, StopClose, StopJoin
<1> QED
  BY <1>4, <1>5, <1>6, <1>7, <1>8 DEF Next

\* The numbers that Sums adds up.
LEMMA CountsTyped ==
    ASSUME Types
    PROVE  /\ traced \in Nat /\ overwritten \in Nat /\ Len(pipe) \in Nat /\ Len(ahead) \in Nat
           /\ count["received"] \in Nat /\ count["parsed"] \in Nat /\ count["malformed"] \in Nat
           /\ count["unknown"] \in Nat
<1>1. Len(pipe) \in Nat /\ Len(ahead) \in Nat /\ traced \in Nat /\ overwritten \in Nat
  BY MaxLinesAssumption DEF Types
<1>2. \A c \in Counts : count[c] \in Nat
  BY DEF Types
<1> QED
  BY <1>1, <1>2 DEF Counts, Kinds

\* What a read() that takes n lines leaves, for the thread and for the kernel.
LEMMA TakenParts ==
    ASSUME NEW S, NEW q \in Seq(S), NEW n \in 1 .. Len(q)
    PROVE  LET a == SubSeq(q, 2, n)
               b == SubSeq(q, n + 1, Len(q))
           IN  /\ Head(q) = q[1] /\ Head(q) \in S
               /\ a \in Seq(S) /\ Len(a) = n - 1 /\ \A i \in 1 .. n - 1 : a[i] = q[i + 1]
               /\ b \in Seq(S) /\ Len(b) = Len(q) - n
               /\ \A i \in 1 .. Len(q) - n : b[i] = q[n + i]
<1> DEFINE a == SubSeq(q, 2, n)
           m == n + 1
           l == Len(q)
           b == SubSeq(q, m, l)
<1>0. l \in Nat /\ n \in Nat /\ n >= 1 /\ n <= l /\ m = n + 1 /\ m \in Int /\ l \in Int
      /\ n \in Int /\ \A i \in 1 .. l : q[i] \in S
  BY LenProperties
<1>1. Head(q) = q[1] /\ Head(q) \in S
  BY <1>0, HeadTailProperties
<1>2. \A i \in 2 .. n : q[i] \in S
  BY <1>0
<1>3. /\ a \in Seq(S) /\ Len(a) = (IF 2 <= n THEN n - 2 + 1 ELSE 0)
      /\ \A i \in 1 .. n - 2 + 1 : a[i] = q[2 + i - 1]
  <2> 2 \in Int
    OBVIOUS
  <2> QED
    BY <1>0, <1>2, SubSeqProperties
<1> HIDE DEF m, l
<1>4. \A i \in m .. l : q[i] \in S
  BY <1>0
<1>5. /\ b \in Seq(S) /\ Len(b) = (IF m <= l THEN l - m + 1 ELSE 0)
      /\ \A i \in 1 .. l - m + 1 : b[i] = q[m + i - 1]
  BY <1>0, <1>4, SubSeqProperties
<1> HIDE DEF a, b
<1>6. Len(a) = n - 1 /\ \A i \in 1 .. n - 1 : a[i] = q[i + 1]
  <2>1. n - 2 + 1 = n - 1 /\ \A i \in 1 .. n - 1 : 2 + i - 1 = i + 1
    BY <1>0
  <2> QED
    BY <1>0, <1>3, <2>1
<1>7. Len(b) = l - n /\ \A i \in 1 .. l - n : b[i] = q[n + i]
  <2>1. l - m + 1 = l - n /\ \A i \in 1 .. l - n : m + i - 1 = n + i
    BY <1>0
  <2> QED
    BY <1>0, <1>5, <2>1
<1> QED
  BY <1>1, <1>3, <1>5, <1>6, <1>7 DEF a, b, m, l

\* Every step keeps the types and the counts of lines.
LEMMA TypesStep ==
    ASSUME IInv, Next
    PROVE  Types' /\ Sums'
<1>0. Types /\ StartInv /\ AheadInv /\ Sums
  BY DEF IInv
<1>20. /\ traced \in Nat /\ overwritten \in Nat /\ Len(pipe) \in Nat /\ Len(ahead) \in Nat
       /\ count["received"] \in Nat /\ count["parsed"] \in Nat /\ count["malformed"] \in Nat
       /\ count["unknown"] \in Nat
  BY <1>0, CountsTyped
<1>10. /\ Bump("received") \in [Counts -> Nat]
       /\ Bump("received")["received"] = count["received"] + 1
       /\ Bump("received")["parsed"] = count["parsed"]
       /\ Bump("received")["unknown"] = count["unknown"]
       /\ Bump("received")["malformed"] = count["malformed"]
  BY <1>0 DEF Types, Counts, Kinds, Bump
<1>1. ASSUME NEW kind \in Kinds, Trace(kind) PROVE Types' /\ Sums'
  <2> DEFINE new == [id |-> traced + 1, kind |-> kind]
  <2>1. new \in Line /\ traced' = traced + 1 /\ traced' \in 0 .. MaxLines
    BY <1>0, <1>1, MaxLinesAssumption DEF Trace, Types, Line
  <2>2. pipe' \in Seq(Line) /\ Len(pipe') <= PipeSize
        /\ overwritten' \in Nat
        /\ overwritten' + Len(pipe') = overwritten + Len(pipe) + 1
    <3>1. CASE Len(pipe) = PipeSize
      <4>1. pipe # <<>>
        BY <1>0, <3>1, PipeSizeAssumption DEF Types
      <4>2. Tail(pipe) \in Seq(Line) /\ Len(Tail(pipe)) = Len(pipe) - 1
        BY <1>0, <4>1, HeadTailProperties DEF Types
      <4>3. pipe' = Append(Tail(pipe), new) /\ overwritten' = overwritten + 1
        BY <1>1, <3>1 DEF Trace
      <4> HIDE DEF new
      <4>4. pipe' \in Seq(Line) /\ Len(pipe') = Len(Tail(pipe)) + 1
        BY <2>1, <4>2, <4>3, AppendProperties
      <4>5. overwritten \in Nat
        BY <1>0 DEF Types
      <4> QED
        BY <3>1, <4>2, <4>3, <4>4, <4>5, PipeSizeAssumption
    <3>2. CASE Len(pipe) # PipeSize
      <4>1. pipe' = Append(pipe, new) /\ overwritten' = overwritten
        BY <1>1, <3>2 DEF Trace
      <4> HIDE DEF new
      <4>2. pipe' \in Seq(Line) /\ Len(pipe') = Len(pipe) + 1
        BY <1>0, <2>1, <4>1, AppendProperties DEF Types
      <4> QED
        BY <1>0, <3>2, <4>1, <4>2, PipeSizeAssumption DEF Types
    <3> QED
      BY <3>1, <3>2
  <2>3. UNCHANGED <<enabled, ahead, ctl, reader, running, closed, line, buf, out, rows, locked, count>>
    BY <1>1 DEF Trace
  <2>4. Types'
    BY <1>0, <2>1, <2>2, <2>3 DEF Types
  <2> HIDE DEF new
  <2>5. Len(pipe) \in Nat /\ Len(pipe') \in Nat
    BY <1>0, <2>2 DEF Types
  <2>6. Len(ahead') = Len(ahead) /\ count' = count /\ reader' = reader
    BY <2>3
  <2>7. traced' = overwritten' + Len(pipe') + Len(ahead') + count'["received"]
    <3>1. traced = overwritten + Len(pipe) + Len(ahead) + count["received"]
      BY <1>0 DEF Sums
    <3>2. overwritten' \in Nat
      BY <2>2
    <3> QED
      <4>1. traced' = (overwritten + Len(pipe) + 1) + Len(ahead) + count["received"]
        BY <2>1, <3>1, <1>20
      <4> QED
        BY <2>2, <2>6, <4>1
  <2> QED
    BY <1>0, <2>4, <2>6, <2>7 DEF Sums
<1>2. CASE TestRunning \/ EnterRead
  <2>1. reader' \in Readers /\ reader # "parse" /\ reader' # "parse"
    BY <1>2 DEF TestRunning, EnterRead, Readers
  <2>2. UNCHANGED <<traceVars, pipe, ahead, ctl, running, closed, line, buf, out, rows, locked, count>>
    BY <1>2 DEF TestRunning, EnterRead
  <2> QED
    BY <1>0, <2>1, <2>2 DEF Types, Sums, traceVars
<1>3. CASE ReadlineAhead
  <2>1. ahead # <<>> /\ line' = Head(ahead) /\ ahead' = Tail(ahead) /\ pipe' = pipe
        /\ reader = "call" /\ reader' = "parse"
    BY <1>3 DEF ReadlineAhead
  <2>2. line' \in Line /\ ahead' \in Seq(Line) /\ Len(ahead') = Len(ahead) - 1
    BY <1>0, <2>1, HeadTailProperties DEF Types
  <2>3. UNCHANGED <<traceVars, ctl, running, closed, buf, out, rows, locked>>
        /\ count' = Bump("received")
    BY <1>3 DEF ReadlineAhead
  <2>4. Len(ahead) \in Nat /\ Len(ahead') < PipeSize /\ reader' \in Readers
    BY <1>0, <2>1, <2>2, PipeSizeAssumption DEF Types, Readers
  <2>5. Types'
    BY <1>0, <1>10, <2>1, <2>2, <2>3, <2>4 DEF Types, traceVars
  <2>6. Sums'
    <3>1. traced = overwritten + Len(pipe) + Len(ahead) + count["received"]
          /\ count["received"] = count["parsed"] + count["unknown"] + count["malformed"]
      BY <1>0, <2>1, <1>20 DEF Sums
    <3>2. /\ traced' = traced /\ overwritten' = overwritten /\ Len(pipe') = Len(pipe)
          /\ count'["received"] = count["received"] + 1 /\ count'["parsed"] = count["parsed"]
          /\ count'["unknown"] = count["unknown"] /\ count'["malformed"] = count["malformed"]
      BY <1>10, <2>1, <2>3 DEF traceVars
    <3>3. traced' = overwritten' + Len(pipe') + Len(ahead') + count'["received"]
          /\ count'["received"] = count'["parsed"] + count'["unknown"] + count'["malformed"] + 1
      BY <2>2, <3>1, <3>2, <1>20
    <3> QED
      BY <2>1, <3>3 DEF Sums
  <2> QED
    BY <2>5, <2>6
<1>4. ASSUME NEW n \in DOMAIN pipe, LeaveRead(n) PROVE Types' /\ Sums'
  <2>1. line' = Head(pipe) /\ ahead' = SubSeq(pipe, 2, n) /\ pipe' = SubSeq(pipe, n + 1, Len(pipe))
        /\ reader = "read" /\ reader' = "parse"
    BY <1>4 DEF LeaveRead
  <2>2. n \in 1 .. Len(pipe) /\ pipe # <<>> /\ Len(pipe) \in Nat /\ pipe \in Seq(Line)
        /\ Len(pipe) <= PipeSize
    BY <1>0, <1>4, LenProperties DEF Types
  <2>3. line' \in Line
    BY <2>1, <2>2, TakenParts
  <2>4. ahead' \in Seq(Line) /\ Len(ahead') = n - 1
    BY <2>1, <2>2, TakenParts
  <2>5. pipe' \in Seq(Line) /\ Len(pipe') = Len(pipe) - n
    BY <2>1, <2>2, TakenParts
  <2>6. UNCHANGED <<traceVars, ctl, running, closed, buf, out, rows, locked>>
        /\ count' = Bump("received")
    BY <1>4 DEF LeaveRead
  <2>7. ahead = <<>> /\ Len(ahead) = 0
    BY <1>0, <2>1 DEF AheadInv
  <2>9. /\ Len(pipe') + Len(ahead') + 1 = Len(pipe) /\ Len(pipe') <= PipeSize /\ Len(ahead') < PipeSize
        /\ Len(pipe') \in Nat /\ Len(ahead') \in Nat
    <3>1. n \in Nat /\ n >= 1 /\ n <= Len(pipe)
      BY <2>2
    <3>2. Len(ahead') = n - 1 /\ Len(pipe') = Len(pipe) - n /\ Len(pipe) <= PipeSize
          /\ PipeSize \in Nat /\ Len(pipe) \in Nat
      BY <2>2, <2>4, <2>5, PipeSizeAssumption
    <3>3. \A x, y \in Nat : (x - y) + (y - 1) + 1 = x
      OBVIOUS
    <3>4. Len(pipe') + Len(ahead') + 1 = Len(pipe)
      BY <3>1, <3>2, <3>3
    <3>5. Len(pipe') \in Nat /\ Len(pipe') <= PipeSize
      BY <3>1, <3>2
    <3>6. Len(ahead') \in Nat /\ Len(ahead') < PipeSize
      BY <3>1, <3>2
    <3> QED
      BY <3>4, <3>5, <3>6
  <2>8. Types'
    BY <1>0, <1>10, <2>1, <2>3, <2>4, <2>5, <2>6, <2>9 DEF Types, Readers, traceVars
  <2>10. Sums'
    <3>1. traced = overwritten + Len(pipe) + count["received"]
      BY <1>0, <2>7, <1>20 DEF Sums
    <3>2. traced' = overwritten' + Len(pipe') + Len(ahead') + count'["received"]
      <4>1. /\ traced' = traced /\ overwritten' = overwritten
            /\ count'["received"] = count["received"] + 1
        BY <1>10, <2>6 DEF traceVars
      <4>2. \A o, a, p, r \in Nat : o + (p + a + 1) + r = o + p + a + (r + 1)
        OBVIOUS
      <4>3. traced = overwritten + (Len(pipe') + Len(ahead') + 1) + count["received"]
        BY <2>9, <3>1
      <4> QED
        BY <2>9, <4>1, <4>2, <4>3, <1>20
    <3>3. count["received"] = count["parsed"] + count["unknown"] + count["malformed"]
      <4>1. count["received"] = count["parsed"] + count["unknown"] + count["malformed"] + 0
        BY <1>0, <2>1 DEF Sums
      <4> QED
        BY <4>1, <1>20
    <3>4. count'["received"] = count'["parsed"] + count'["unknown"] + count'["malformed"] + 1
      BY <1>0, <1>10, <2>6, <3>3, <1>20
    <3> QED
      BY <2>1, <3>2, <3>4 DEF Sums
  <2> QED
    BY <2>8, <2>10
<1>5. CASE ReadlineClosed \/ ReadRaises
  <2>1. count' \in [Counts -> Nat] /\ count'["received"] = count["received"]
        /\ count'["parsed"] = count["parsed"] /\ count'["malformed"] = count["malformed"]
        /\ count'["unknown"] = count["unknown"]
    BY <1>0, <1>5 DEF ReadlineClosed, ReadRaises, Types, Counts, Kinds, Bump
  <2>2. reader # "parse" /\ reader' = "dead"
        /\ UNCHANGED <<traceVars, pipe, ahead, ctl, running, closed, line, buf, out, rows, locked>>
    BY <1>5 DEF ReadlineClosed, ReadRaises
  <2> QED
    BY <1>0, <2>1, <2>2 DEF Types, Sums, traceVars, Readers
<1>6. CASE ParseOther \/ ParseEvent
  <2>1. PICK c \in Kinds : count' = Bump(c)
    <3>1. line.kind \in Kinds
      BY <1>0 DEF Types, Line
    <3> QED
      BY <1>6, <3>1 DEF ParseOther, ParseEvent, Kinds
  <2>2. count' \in [Counts -> Nat] /\ count'["received"] = count["received"]
        /\ count'["parsed"] + count'["unknown"] + count'["malformed"]
             = count["parsed"] + count["unknown"] + count["malformed"] + 1
    <3>1. count' \in [Counts -> Nat] /\ count'[c] = count[c] + 1 /\ c # "received"
          /\ \A d \in Counts \ {c} : count'[d] = count[d]
      BY <1>0, <2>1 DEF Types, Counts, Kinds, Bump
    <3>2. {"received", "parsed", "unknown", "malformed"} \subseteq Counts
      BY DEF Counts, Kinds
    <3>3. CASE c = "parsed"
      <4>1. /\ count'["received"] = count["received"] /\ count'["unknown"] = count["unknown"]
            /\ count'["malformed"] = count["malformed"] /\ count'["parsed"] = count["parsed"] + 1
        BY <3>1, <3>2, <3>3
      <4> QED
        BY <3>1, <4>1, <1>20
    <3>4. CASE c = "unknown"
      <4>1. /\ count'["received"] = count["received"] /\ count'["parsed"] = count["parsed"]
            /\ count'["malformed"] = count["malformed"] /\ count'["unknown"] = count["unknown"] + 1
        BY <3>1, <3>2, <3>4
      <4>2. \A x, y, z \in Nat : x + (y + 1) + z = x + y + z + 1
        OBVIOUS
      <4>3. count'["parsed"] + count'["unknown"] + count'["malformed"]
              = count["parsed"] + count["unknown"] + count["malformed"] + 1
        BY <4>1, <4>2, <1>20
      <4> QED
        BY <3>1, <4>1, <4>3
    <3>5. CASE c = "malformed"
      <4>1. /\ count'["received"] = count["received"] /\ count'["parsed"] = count["parsed"]
            /\ count'["unknown"] = count["unknown"] /\ count'["malformed"] = count["malformed"] + 1
        BY <3>1, <3>2, <3>5
      <4>2. \A x, y, z \in Nat : x + y + (z + 1) = x + y + z + 1
        OBVIOUS
      <4>3. count'["parsed"] + count'["unknown"] + count'["malformed"]
              = count["parsed"] + count["unknown"] + count["malformed"] + 1
        BY <4>1, <4>2, <1>20
      <4> QED
        BY <3>1, <4>1, <4>3
    <3> QED
      BY <2>1, <3>3, <3>4, <3>5 DEF Kinds
  <2>3. line' \in Line
    BY <1>6, MaxLinesAssumption DEF ParseOther, ParseEvent, NoLine, Line, Kinds
  <2>4. reader = "parse" /\ reader' = "test"
        /\ UNCHANGED <<traceVars, pipe, ahead, ctl, running, closed, out, rows, locked>>
    BY <1>6 DEF ParseOther, ParseEvent
  <2>5. buf' \in Seq(Nat)
    <3>1. line.id \in Nat /\ buf \in Seq(Nat)
      BY <1>0 DEF Types, Line
    <3> QED
      BY <1>6, <3>1, AppendProperties DEF ParseOther, ParseEvent
  <2>6. Types'
    BY <1>0, <2>2, <2>3, <2>4, <2>5 DEF Types, traceVars, Readers
  <2>7. Sums'
    <3>1. count["received"] = count["parsed"] + count["unknown"] + count["malformed"] + 1
      BY <1>0, <2>4 DEF Sums
    <3>2. UNCHANGED <<traced, overwritten, pipe, ahead>>
      BY <2>4 DEF traceVars
    <3>3. traced' = overwritten' + Len(pipe') + Len(ahead') + count'["received"]
      BY <1>0, <2>2, <3>2 DEF Sums
    <3>4. count'["received"] = count'["parsed"] + count'["unknown"] + count'["malformed"]
      BY <2>2, <3>1
    <3>5. /\ count'["received"] \in Nat /\ count'["parsed"] \in Nat
          /\ count'["unknown"] \in Nat /\ count'["malformed"] \in Nat
      BY <2>2 DEF Counts, Kinds
    <3> QED
      BY <2>4, <3>3, <3>4, <3>5 DEF Sums
  <2> QED
    BY <2>6, <2>7
<1>7. CASE (\E fail \in 0 .. Tracepoints : StartEnable(fail)) \/ StartOpen \/ StartRaises
  <2>1. reader # "parse" /\ reader' # "parse" /\ reader' \in Readers
    BY <1>0, <1>7 DEF StartEnable, StartOpen, StartRaises, StartInv, Types, Readers
  <2>2. ctl' \in Ctls /\ enabled' \in BOOLEAN /\ running' \in BOOLEAN
    <3>1. CASE \E fail \in 0 .. Tracepoints : StartEnable(fail)
      <4>1. PICK fail \in 0 .. Tracepoints : StartEnable(fail)
        BY <3>1
      <4>2. (fail < Tracepoints) \in BOOLEAN
        BY TracepointsAssumption
      <4> QED
        BY <1>0, <4>1, <4>2 DEF StartEnable, Types, Ctls
    <3>2. CASE StartOpen \/ StartRaises
      BY <1>0, <3>2 DEF StartOpen, StartRaises, Types, Ctls, traceVars
    <3> QED
      BY <1>7, <3>1, <3>2
  <2>3. UNCHANGED <<traced, overwritten, pipe, ahead, closed, line, buf, out, rows, locked>>
    BY <1>7 DEF StartEnable, StartOpen, StartRaises, traceVars
  <2>4. count' \in [Counts -> Nat] /\ \A c \in Kinds \cup {"received"} : count'[c] = count[c]
    <3>1. CASE count' = count
      BY <1>0, <3>1 DEF Types
    <3>2. CASE \E fail \in Nat : count' = [count EXCEPT !["errors"] = @ + fail]
      BY <1>0, <3>2 DEF Types, Counts, Kinds
    <3>3. 0 .. Tracepoints \subseteq Nat
      BY TracepointsAssumption
    <3> QED
      BY <1>7, <3>1, <3>2, <3>3 DEF StartEnable, StartOpen, StartRaises
  <2>5. count'["received"] = count["received"] /\ count'["parsed"] = count["parsed"]
        /\ count'["malformed"] = count["malformed"] /\ count'["unknown"] = count["unknown"]
    BY <2>4 DEF Kinds
  <2> QED
    BY <1>0, <2>1, <2>2, <2>3, <2>4, <2>5 DEF Types, Sums
<1>8. CASE PollStep
  <2>1. rows \o out \in Seq(Nat)
    BY <1>0, ConcatProperties DEF Types
  <2>2. rows' \in Seq(Nat) /\ buf' \in Seq(Nat) /\ out' \in Seq(Nat)
    <3>1. CASE PollCopy
      BY <1>0, <3>1 DEF PollCopy, Types
    <3>2. CASE PollClear
      BY <2>1, <3>2 DEF PollClear
    <3> QED
      BY <1>8, <3>1, <3>2 DEF PollStep
  <2>3. ctl' \in Ctls /\ locked' \in BOOLEAN
    BY <1>8 DEF PollStep, PollCopy, PollClear, Ctls
  <2>4. UNCHANGED <<traceVars, pipe, ahead, reader, running, closed, line, count>>
    BY <1>8 DEF PollStep, PollCopy, PollClear
  <2> QED
    BY <1>0, <2>2, <2>3, <2>4 DEF Types, Sums, traceVars
<1>9. CASE StopRunning \/ StopStep
  <2>1. ctl' \in Ctls
    BY <1>9 DEF StopRunning, StopStep, StopDisable, StopClose, StopJoin, Ctls
  <2>2. enabled' \in BOOLEAN /\ running' \in BOOLEAN /\ closed' \in BOOLEAN
    BY <1>0, <1>9 DEF StopRunning, StopStep, StopDisable, StopClose, StopJoin, Types, traceVars
  <2>3. UNCHANGED <<traced, overwritten, pipe, ahead, reader, line, buf, out, rows, locked, count>>
    BY <1>9 DEF StopRunning, StopStep, StopDisable, StopClose, StopJoin, traceVars
  <2> QED
    BY <1>0, <2>1, <2>2, <2>3 DEF Types, Sums
<1> QED
  BY <1>1, <1>2, <1>3, <1>4, <1>5, <1>6, <1>7, <1>8, <1>9 DEF Next, ReaderStep, Readline

\* Every step keeps the discipline of the lock and of the thread's start.
LEMMA LockStep ==
    ASSUME IInv, Next
    PROVE  LockInv' /\ StartInv'
<1>0. LockInv /\ StartInv /\ locked \in BOOLEAN
  BY DEF IInv, Types
<1>1. CASE ParseEvent
  BY <1>0, <1>1 DEF ParseEvent, LockInv, StartInv
<1>2. CASE PollCopy
  BY <1>0, <1>2 DEF PollCopy, LockInv, StartInv
<1>3. CASE PollClear
  BY <1>0, <1>3 DEF PollClear, LockInv, StartInv
<1>4. CASE UNCHANGED <<buf, out, locked>> /\ ctl # "copied" /\ ctl' # "copied"
           /\ ctl' \notin {"new", "opening"}
  BY <1>0, <1>4 DEF LockInv, StartInv
<1>5. CASE UNCHANGED <<buf, out, locked, ctl, running, closed>> /\ (reader = "none" => reader' = "none")
  BY <1>0, <1>5 DEF LockInv, StartInv
<1>6. CASE \E kind \in Kinds : Trace(kind)
  BY <1>5, <1>6 DEF Trace
<1>7. CASE ReaderStep \/ ReadRaises
  BY <1>1, <1>5, <1>7 DEF ReaderStep, TestRunning, Readline, ReadlineClosed, ReadlineAhead, EnterRead,
     LeaveRead, ParseOther, ReadRaises
<1>8. CASE \E fail \in 0 .. Tracepoints : StartEnable(fail)
  BY <1>0, <1>8 DEF StartEnable, LockInv, StartInv
<1>9. CASE StartOpen \/ StartRaises \/ StopRunning \/ StopStep
  BY <1>4, <1>9 DEF StartOpen, StartRaises, StopRunning, StopStep, StopDisable, StopClose, StopJoin
<1> QED
  BY <1>2, <1>3, <1>6, <1>7, <1>8, <1>9 DEF Next, PollStep

\* Every step keeps what was read ahead for a thread that will ask for it, unless
\* the collector has been stopped.
LEMMA AheadStep ==
    ASSUME IInv, Next
    PROVE  AheadInv'
<1>0. AheadInv /\ StartInv /\ Types
  BY DEF IInv
<1>1. CASE UNCHANGED <<ahead, reader, running, closed>>
           /\ (ctl' \in {"new", "opening", "loop", "copied"} \/ ~running)
  BY <1>0, <1>1 DEF AheadInv
<1>2. CASE UNCHANGED <<running, closed, ctl>>
           /\ (reader' \in {"read", "none"} => ahead' = <<>>)
           /\ (reader' = "dead" /\ ahead' # <<>> => ~running)
  BY <1>0, <1>2 DEF AheadInv
<1>3. CASE \E kind \in Kinds : Trace(kind)
  BY <1>0, <1>1, <1>3 DEF Trace, AheadInv
<1>4. CASE ReaderStep \/ ReadRaises
  <2>1. CASE TestRunning \/ ParseOther \/ ParseEvent \/ EnterRead \/ ReadRaises \/ ReadlineClosed
    BY <1>0, <1>2, <2>1
    DEF TestRunning, ParseOther, ParseEvent, EnterRead, ReadRaises, ReadlineClosed, AheadInv
  <2>2. CASE ReadlineAhead \/ \E n \in DOMAIN pipe : LeaveRead(n)
    BY <1>2, <2>2 DEF ReadlineAhead, LeaveRead
  <2> QED
    BY <1>4, <2>1, <2>2 DEF ReaderStep, Readline
<1>5. CASE (\E fail \in 0 .. Tracepoints : StartEnable(fail)) \/ StartRaises
  BY <1>0, <1>5 DEF StartEnable, StartRaises, AheadInv, StartInv, traceVars
<1>6. CASE StartOpen
  BY <1>0, <1>6 DEF StartOpen, AheadInv, StartInv
<1>7. CASE PollStep
  BY <1>0, <1>1, <1>7 DEF PollStep, PollCopy, PollClear, AheadInv
<1>8. CASE StopRunning \/ StopStep
  <2>1. CASE StopRunning
    BY <1>0, <2>1 DEF StopRunning, AheadInv
  <2>2. CASE StopDisable \/ StopJoin
    <3>1. UNCHANGED <<ahead, reader, running, closed>> /\ ctl \in {"disabling", "joining"}
      BY <2>2 DEF StopDisable, StopJoin, traceVars
    <3> QED
      BY <1>0, <1>1, <3>1 DEF AheadInv
  <2>3. CASE StopClose
    BY <1>0, <2>3 DEF StopClose, AheadInv
  <2> QED
    BY <1>8, <2>1, <2>2, <2>3 DEF StopStep
<1> QED
  BY <1>3, <1>4, <1>5, <1>6, <1>7, <1>8 DEF Next

\* A line taken from what was read ahead, or from a new read, is the oldest of
\* those that wait.
LEMMA TakeStep ==
    ASSUME IInv, ReadlineAhead \/ \E n \in DOMAIN pipe : LeaveRead(n)
    PROVE  /\ Len(Waiting) \in Nat \ {0} /\ line' = Waiting[1]
           /\ Len(Waiting') = Len(Waiting) - 1
           /\ \A i \in 1 .. Len(Waiting') : Waiting'[i] = Waiting[i + 1]
<1>0. pipe \in Seq(Line) /\ ahead \in Seq(Line) /\ AheadInv
  BY DEF IInv, Types
<1>1. Len(Waiting) = Len(ahead) + Len(pipe) /\ Len(ahead) \in Nat /\ Len(pipe) \in Nat
      /\ \A i \in 1 .. Len(Waiting) :
           Waiting[i] = IF i <= Len(ahead) THEN ahead[i] ELSE pipe[i - Len(ahead)]
  BY <1>0, ConcatProperties, LenProperties DEF Waiting
<1>2. CASE ReadlineAhead
  <2>1. ahead # <<>> /\ line' = Head(ahead) /\ ahead' = Tail(ahead) /\ pipe' = pipe
    BY <1>2 DEF ReadlineAhead
  <2>2. line' = ahead[1] /\ ahead' \in Seq(Line) /\ Len(ahead') = Len(ahead) - 1 /\ Len(ahead) # 0
        /\ \A i \in 1 .. Len(ahead') : ahead'[i] = ahead[i + 1]
    BY <1>0, <2>1, HeadTailProperties, EmptySeq
  <2>3. Len(Waiting') = Len(ahead') + Len(pipe)
        /\ \A i \in 1 .. Len(Waiting') :
             Waiting'[i] = IF i <= Len(ahead') THEN ahead'[i] ELSE pipe[i - Len(ahead')]
    BY <1>0, <2>1, <2>2, ConcatProperties DEF Waiting
  <2>4. ASSUME NEW i \in 1 .. Len(Waiting') PROVE Waiting'[i] = Waiting[i + 1]
    <3>1. i \in Nat /\ i + 1 \in 1 .. Len(Waiting)
      BY <1>1, <2>2, <2>3
    <3>2. CASE i <= Len(ahead')
      BY <1>1, <2>2, <2>3, <3>1, <3>2
    <3>3. CASE ~(i <= Len(ahead'))
      <4>1. i - Len(ahead') = (i + 1) - Len(ahead) /\ ~(i + 1 <= Len(ahead))
        BY <1>1, <2>2, <3>1, <3>3
      <4> QED
        BY <1>1, <2>3, <3>1, <3>3, <4>1
    <3> QED
      BY <3>2, <3>3
  <2> QED
    BY <1>1, <2>2, <2>3, <2>4
<1>3. ASSUME NEW n \in DOMAIN pipe, LeaveRead(n)
      PROVE  /\ Len(Waiting) \in Nat \ {0} /\ line' = Waiting[1]
             /\ Len(Waiting') = Len(Waiting) - 1
             /\ \A i \in 1 .. Len(Waiting') : Waiting'[i] = Waiting[i + 1]
  <2>1. line' = Head(pipe) /\ ahead' = SubSeq(pipe, 2, n) /\ pipe' = SubSeq(pipe, n + 1, Len(pipe))
        /\ ahead = <<>>
    BY <1>0, <1>3 DEF LeaveRead, AheadInv
  <2>2. n \in 1 .. Len(pipe) /\ Len(ahead) = 0
    BY <1>0, <1>3, <2>1, LenProperties
  <2>3. line' = pipe[1]
    BY <1>0, <2>1, <2>2, TakenParts
  <2>4. ahead' \in Seq(Line) /\ Len(ahead') = n - 1
        /\ \A i \in 1 .. n - 1 : ahead'[i] = pipe[i + 1]
    BY <1>0, <2>1, <2>2, TakenParts
  <2>5. pipe' \in Seq(Line) /\ Len(pipe') = Len(pipe) - n
        /\ \A i \in 1 .. Len(pipe) - n : pipe'[i] = pipe[n + i]
    BY <1>0, <2>1, <2>2, TakenParts
  <2>6. Len(Waiting') = Len(pipe) - 1
        /\ \A i \in 1 .. Len(Waiting') :
             Waiting'[i] = IF i <= n - 1 THEN ahead'[i] ELSE pipe'[i - (n - 1)]
    <3>1. /\ Len(ahead' \o pipe') = Len(ahead') + Len(pipe')
          /\ \A i \in 1 .. Len(ahead') + Len(pipe') :
               (ahead' \o pipe')[i] = IF i <= Len(ahead') THEN ahead'[i] ELSE pipe'[i - Len(ahead')]
      BY <2>4, <2>5, ConcatProperties
    <3>2. n \in Nat /\ Len(ahead') = n - 1 /\ Len(ahead') + Len(pipe') = Len(pipe) - 1
      BY <1>1, <2>2, <2>4, <2>5
    <3> QED
      BY <3>1, <3>2 DEF Waiting
  <2>7. \A i \in 1 .. Len(Waiting) : Waiting[i] = pipe[i]
    BY <1>1, <2>2
  <2>8. ASSUME NEW i \in 1 .. Len(Waiting') PROVE Waiting'[i] = pipe[i + 1]
    <3>1. CASE i <= n - 1
      BY <2>2, <2>4, <2>6, <3>1
    <3>2. CASE ~(i <= n - 1)
      <4>1. i - (n - 1) \in 1 .. Len(pipe) - n /\ n + (i - (n - 1)) = i + 1
        BY <1>1, <2>2, <2>6, <3>2
      <4> QED
        BY <2>5, <2>6, <3>2, <4>1
    <3> QED
      BY <3>1, <3>2
  <2>9. Len(Waiting) = Len(pipe) /\ 1 \in 1 .. Len(Waiting)
        /\ \A i \in 1 .. Len(Waiting') : i + 1 \in 1 .. Len(Waiting)
    BY <1>1, <2>2, <2>6
  <2> QED
    BY <1>1, <2>3, <2>6, <2>7, <2>8, <2>9
<1> QED
  BY <1>2, <1>3

\* What a step does to the lines on their way: they stay, the kernel traces one
\* (overwriting the oldest it holds or not), the thread takes the oldest, or it
\* has finished with the one it held.
LEMMA LinesStep ==
    ASSUME IInv, Next
    PROVE  \/ (\E kind \in Kinds : Trace(kind)) /\ All' = All
           \/ (ReadlineAhead \/ \E n \in DOMAIN pipe : LeaveRead(n)) /\ All' = All
           \/ ParseEvent /\ All' = Append(All, line.id)
           \/ /\ UNCHANGED <<traced, Waiting, All>>
              /\ reader' = "parse" => reader = "parse" /\ line' = line
<1>0. Types /\ (All' = All \/ (ParseEvent /\ All' = Append(All, line.id)))
  BY AllOfStep DEF IInv
<1>1. CASE ParseEvent
  <2>1. UNCHANGED <<traced, Waiting>> /\ reader' = "test"
    BY <1>1 DEF ParseEvent, traceVars, Waiting
  <2> QED
    BY <1>0, <1>1, <2>1
<1>2. CASE \E kind \in Kinds : Trace(kind)
  <2>1. reader' = reader
    BY <1>2 DEF Trace
  <2>2. ~ParseEvent
    BY <2>1 DEF ParseEvent
  <2> QED
    BY <1>0, <1>2, <2>2
<1>3. CASE ReadlineAhead \/ \E n \in DOMAIN pipe : LeaveRead(n)
  <2>1. ~ParseEvent
    BY <1>3 DEF ReadlineAhead, LeaveRead, ParseEvent
  <2> QED
    BY <1>0, <1>3, <2>1
<1>4. CASE UNCHANGED <<traced, pipe, ahead>> /\ (reader' = "parse" => reader = "parse" /\ line' = line)
  BY <1>0, <1>4 DEF Waiting
<1>5. CASE ReaderStep \/ ReadRaises
  <2>1. CASE TestRunning \/ ReadlineClosed \/ EnterRead \/ ParseOther \/ ReadRaises
    BY <1>4, <2>1 DEF TestRunning, ReadlineClosed, EnterRead, ParseOther, ReadRaises, traceVars
  <2> QED
    BY <1>1, <1>3, <1>5, <2>1 DEF ReaderStep, Readline
<1>6. CASE (\E fail \in 0 .. Tracepoints : StartEnable(fail)) \/ StartOpen \/ StartRaises
  BY <1>4, <1>6 DEF StartEnable, StartOpen, StartRaises, traceVars
<1>7. CASE PollStep \/ StopRunning \/ StopStep
  BY <1>4, <1>7
  DEF PollStep, PollCopy, PollClear, StopRunning, StopStep, StopDisable, StopClose, StopJoin, traceVars
<1> QED
  BY <1>2, <1>5, <1>6, <1>7 DEF Next

\* A queue that drops its oldest element or not, and appends one: where each
\* element of the new queue comes from.
LEMMA PushProperties ==
    ASSUME NEW S, NEW q \in Seq(S), NEW x \in S, NEW full \in BOOLEAN,
           full => q # <<>>
    PROVE  LET r == Append(IF full THEN Tail(q) ELSE q, x)
               k == IF full THEN 1 ELSE 0
           IN  /\ Len(r) = Len(q) - k + 1
               /\ \A i \in 1 .. Len(r) :
                    r[i] = IF i = Len(r) THEN x ELSE q[i + k]
<1> DEFINE base == IF full THEN Tail(q) ELSE q
           k == IF full THEN 1 ELSE 0
           r == Append(base, x)
<1>1. base \in Seq(S) /\ Len(base) = Len(q) - k
      /\ \A i \in 1 .. Len(base) : base[i] = q[i + k]
  <2>1. CASE full
    BY <2>1, HeadTailProperties
  <2>2. CASE ~full
    BY <2>2
  <2> QED
    BY <2>1, <2>2
<1> HIDE DEF base, k
<1>2. Len(r) = Len(base) + 1 /\ r[Len(base) + 1] = x
      /\ \A i \in 1 .. Len(base) : r[i] = base[i]
  BY <1>1, AppendProperties
<1>3. Len(base) \in Nat
  BY <1>1, LenProperties
<1> HIDE DEF r
<1>4. \A i \in 1 .. Len(r) : i = Len(r) \/ i \in 1 .. Len(base)
  BY <1>2, <1>3
<1>5. Len(r) = Len(q) - k + 1 /\ \A i \in 1 .. Len(r) : r[i] = IF i = Len(r) THEN x ELSE q[i + k]
  BY <1>1, <1>2, <1>3, <1>4
<1> QED
  BY <1>5 DEF r, base, k

\* Every step keeps the lines in their order.
LEMMA OrderStep ==
    ASSUME IInv, Next
    PROVE  OrderInv' /\ CountInv'
<1>0. Types /\ OrderInv /\ CountInv
  BY DEF IInv
<1>1. All \in Seq(Nat) /\ Len(All) \in Nat /\ traced \in Nat /\ line.id \in Nat
      /\ Waiting \in Seq(Line) /\ Len(Waiting) \in Nat /\ pipe \in Seq(Line) /\ ahead \in Seq(Line)
      /\ Len(pipe) \in Nat /\ Len(ahead) \in Nat /\ Len(Waiting) = Len(ahead) + Len(pipe)
  BY <1>0, ConcatProperties, CountsTyped DEF Types, All, Waiting, Line
<1>11. \A i \in 1 .. Len(All) : All[i] \in Nat
  BY <1>1
<1>12. \A i \in 1 .. Len(Waiting) : Waiting[i].id \in Nat
  <2>1. \A l \in Line : l.id \in Nat
    BY DEF Line
  <2>2. \A i \in 1 .. Len(Waiting) : Waiting[i] \in Line
    BY <1>1
  <2> QED
    BY <2>1, <2>2
<1>13. \A i, j \in 1 .. Len(Waiting) : i < j => Waiting[i].id < Waiting[j].id
  BY <1>0 DEF OrderInv
<1>14. \A i \in 1 .. Len(Waiting) : Waiting[i].id <= traced
  BY <1>0 DEF OrderInv
<1>15. \A i \in 1 .. Len(All), j \in 1 .. Len(Waiting) : All[i] < Waiting[j].id
  BY <1>0 DEF OrderInv
<1>16. \A i \in 1 .. Len(All) : All[i] <= traced
  BY <1>0 DEF OrderInv
<1>2. CASE (\E kind \in Kinds : Trace(kind)) /\ All' = All
  <2>1. PICK kind \in Kinds : Trace(kind)
    BY <1>2
  <2> DEFINE new == [id |-> traced + 1, kind |-> kind]
             full == Len(pipe) = PipeSize
             k == IF full THEN 1 ELSE 0
             from(i) == IF i <= Len(ahead) THEN i ELSE i + k
  <2>2. pipe' = Append(IF full THEN Tail(pipe) ELSE pipe, new) /\ ahead' = ahead
        /\ traced' = traced + 1 /\ UNCHANGED <<reader, line, count>>
    BY <2>1 DEF Trace
  <2>3. new \in Line /\ new.id = traced + 1
    BY <1>1, <2>1, MaxLinesAssumption DEF Trace, Line
  <2>4. full \in BOOLEAN /\ (full => pipe # <<>>)
    BY <1>0, PipeSizeAssumption DEF Types
  <2>5. Len(pipe') = Len(pipe) - k + 1 /\ pipe' \in Seq(Line)
        /\ \A i \in 1 .. Len(pipe') : pipe'[i] = IF i = Len(pipe') THEN new ELSE pipe[i + k]
    <3> HIDE DEF new, full
    <3>1. (IF full THEN Tail(pipe) ELSE pipe) \in Seq(Line)
      BY <1>1, <2>4, HeadTailProperties
    <3>2. pipe' \in Seq(Line)
      BY <2>2, <2>3, <3>1, AppendProperties
    <3>3. Len(pipe') = Len(pipe) - k + 1
          /\ \A i \in 1 .. Len(pipe') : pipe'[i] = IF i = Len(pipe') THEN new ELSE pipe[i + k]
      BY <1>1, <2>2, <2>3, <2>4, PushProperties
    <3> QED
      BY <3>2, <3>3
  <2>6. k \in {0, 1} /\ Len(pipe') \in Nat
    BY <1>1, <2>4, <2>5
  <2> HIDE DEF new, full, k
  <2>7. Len(Waiting') = Len(Waiting) - k + 1
        /\ \A i \in 1 .. Len(Waiting') :
             Waiting'[i] = IF i <= Len(ahead) THEN ahead[i] ELSE pipe'[i - Len(ahead)]
    <3>1. ahead' \in Seq(Line) /\ Len(ahead') = Len(ahead)
      BY <1>1, <2>2
    <3>2. /\ Len(ahead' \o pipe') = Len(ahead') + Len(pipe')
          /\ \A i \in 1 .. Len(ahead') + Len(pipe') :
               (ahead' \o pipe')[i] = IF i <= Len(ahead') THEN ahead'[i] ELSE pipe'[i - Len(ahead')]
      BY <2>5, <3>1, ConcatProperties
    <3>3. Len(ahead) + Len(pipe') = Len(Waiting) - k + 1
      BY <1>1, <2>5, <2>6
    <3> QED
      BY <2>2, <3>1, <3>2, <3>3 DEF Waiting
  <2>8. \A i \in 1 .. Len(Waiting) :
          Waiting[i] = IF i <= Len(ahead) THEN ahead[i] ELSE pipe[i - Len(ahead)]
    BY <1>1, ConcatProperties DEF Waiting
  <2>9. ASSUME NEW i \in 1 .. Len(Waiting')
        PROVE  \/ i = Len(Waiting') /\ Waiting'[i].id = traced + 1
               \/ i < Len(Waiting') /\ from(i) \in 1 .. Len(Waiting) /\ Waiting'[i].id = Waiting[from(i)].id
    <3>1. i \in Nat /\ Len(pipe') >= 1 /\ Len(Waiting') = Len(ahead) + Len(pipe')
      BY <1>1, <2>4, <2>5, <2>6, <2>7 DEF k, full
    <3>2. CASE i <= Len(ahead)
      <4>1. i < Len(Waiting') /\ from(i) = i /\ i \in 1 .. Len(Waiting)
        BY <1>1, <3>1, <3>2
      <4> QED
        BY <2>7, <2>8, <3>2, <4>1
    <3>3. CASE ~(i <= Len(ahead))
      <4>1. from(i) = i + k /\ i - Len(ahead) \in 1 .. Len(pipe')
            /\ Waiting'[i] = pipe'[i - Len(ahead)]
        BY <1>1, <2>7, <3>1, <3>3
      <4>2. CASE i = Len(Waiting')
        <5>1. i - Len(ahead) = Len(pipe')
          BY <1>1, <3>1, <4>2
        <5> QED
          BY <2>3, <2>5, <4>1, <4>2, <5>1
      <4>3. CASE i # Len(Waiting')
        <5>1. /\ i - Len(ahead) # Len(pipe') /\ i < Len(Waiting')
              /\ i + k \in 1 .. Len(Waiting) /\ ~(i + k <= Len(ahead))
              /\ (i - Len(ahead)) + k = (i + k) - Len(ahead)
          BY <1>1, <2>6, <2>7, <3>1, <3>3, <4>3
        <5>2. Waiting'[i] = pipe[(i - Len(ahead)) + k]
          BY <2>5, <4>1, <5>1
        <5>3. Waiting[i + k] = pipe[(i + k) - Len(ahead)]
          BY <2>8, <5>1
        <5> QED
          BY <4>1, <5>1, <5>2, <5>3
      <4> QED
        BY <4>2, <4>3
    <3> QED
      BY <3>2, <3>3
  <2>10. ASSUME NEW i \in 1 .. Len(Waiting'), NEW j \in 1 .. Len(Waiting'), i < j
         PROVE  from(i) < from(j)
    BY <1>1, <2>6, <2>7, <2>10
  <2> HIDE DEF from
  <2>11. ASSUME NEW i \in 1 .. Len(Waiting'), NEW j \in 1 .. Len(Waiting'), i < j
         PROVE  Waiting'[i].id < Waiting'[j].id
    <3>1. from(i) \in 1 .. Len(Waiting) /\ Waiting'[i].id = Waiting[from(i)].id
      BY <1>1, <2>6, <2>7, <2>9, <2>11
    <3>2. CASE Waiting'[j].id = traced + 1
      BY <1>1, <1>12, <1>14, <3>1, <3>2
    <3>3. CASE from(j) \in 1 .. Len(Waiting) /\ Waiting'[j].id = Waiting[from(j)].id
      BY <1>13, <2>10, <2>11, <3>1, <3>3
    <3> QED
      BY <2>9, <3>2, <3>3
  <2>12. ASSUME NEW i \in 1 .. Len(Waiting')
         PROVE  Waiting'[i].id <= traced'
    <3>1. CASE Waiting'[i].id = traced + 1
      BY <1>1, <2>2, <3>1
    <3>2. CASE from(i) \in 1 .. Len(Waiting) /\ Waiting'[i].id = Waiting[from(i)].id
      <4>1. Waiting[from(i)].id \in Nat /\ Waiting[from(i)].id <= traced
        BY <1>12, <1>14, <3>2
      <4> QED
        BY <1>1, <2>2, <3>2, <4>1
    <3> QED
      BY <2>9, <3>1, <3>2
  <2>13. ASSUME NEW i \in 1 .. Len(All), NEW j \in 1 .. Len(Waiting')
         PROVE  All[i] < Waiting'[j].id
    <3>1. CASE Waiting'[j].id = traced + 1
      BY <1>1, <1>11, <1>16, <3>1
    <3>2. CASE from(j) \in 1 .. Len(Waiting) /\ Waiting'[j].id = Waiting[from(j)].id
      BY <1>15, <3>2
    <3> QED
      BY <2>9, <3>1, <3>2
  <2>14. ASSUME reader = "parse", NEW j \in 1 .. Len(Waiting')
         PROVE  line.id < Waiting'[j].id
    <3>1. line.id <= traced /\ \A n \in 1 .. Len(Waiting) : line.id < Waiting[n].id
      BY <1>0, <2>14 DEF OrderInv
    <3> QED
      BY <1>1, <2>9, <3>1
  <2>15. ASSUME NEW i \in 1 .. Len(All)
         PROVE  All[i] <= traced'
    BY <1>1, <1>11, <1>16, <2>2
  <2>16. line.id <= traced => line.id <= traced'
    BY <1>1, <2>2
  <2> QED
    BY <1>0, <1>2, <2>2, <2>11, <2>12, <2>13, <2>14, <2>15, <2>16 DEF OrderInv, CountInv
<1>3. CASE (ReadlineAhead \/ \E n \in DOMAIN pipe : LeaveRead(n)) /\ All' = All
  <2>1. traced' = traced /\ count'["parsed"] = count["parsed"]
    BY <1>0, <1>3 DEF ReadlineAhead, LeaveRead, traceVars, Bump, Types, Counts, Kinds
  <2>2. line' = Waiting[1] /\ 1 \in 1 .. Len(Waiting) /\ Len(Waiting') = Len(Waiting) - 1
        /\ \A i \in 1 .. Len(Waiting') : Waiting'[i] = Waiting[i + 1]
    BY <1>1, <1>3, TakeStep
  <2>20. \A i \in 1 .. Len(Waiting') : i + 1 \in 1 .. Len(Waiting)
    BY <1>1, <2>2
  <2>3. ASSUME NEW i \in 1 .. Len(Waiting'), NEW j \in 1 .. Len(Waiting'), i < j
        PROVE  Waiting'[i].id < Waiting'[j].id
    <3>1. Waiting'[i].id = Waiting[i + 1].id /\ Waiting'[j].id = Waiting[j + 1].id
          /\ i + 1 \in 1 .. Len(Waiting) /\ j + 1 \in 1 .. Len(Waiting) /\ i + 1 < j + 1
      BY <2>2, <2>20, <2>3
    <3> QED
      BY <1>13, <3>1
  <2>4. ASSUME NEW i \in 1 .. Len(Waiting')
        PROVE  Waiting'[i].id <= traced /\ line'.id < Waiting'[i].id
    <3>1. Waiting'[i].id = Waiting[i + 1].id /\ i + 1 \in 1 .. Len(Waiting) /\ 1 < i + 1
      BY <2>2, <2>20
    <3> QED
      BY <1>13, <1>14, <2>2, <3>1
  <2>5. ASSUME NEW i \in 1 .. Len(All), NEW j \in 1 .. Len(Waiting')
        PROVE  All[i] < Waiting'[j].id
    BY <1>15, <2>2, <2>20
  <2>6. (\A i \in 1 .. Len(All) : All[i] < line'.id) /\ line'.id <= traced
    BY <1>14, <1>15, <2>2
  <2> QED
    BY <1>0, <1>3, <2>1, <2>3, <2>4, <2>5, <2>6 DEF OrderInv, CountInv
<1>4. CASE ParseEvent /\ All' = Append(All, line.id)
  <2>1. reader = "parse" /\ reader' = "test" /\ UNCHANGED <<traced, Waiting>>
        /\ count'["parsed"] = count["parsed"] + 1
    BY <1>0, <1>4 DEF ParseEvent, traceVars, Bump, Types, Counts, Kinds, Waiting
  <2>2. Len(All') = Len(All) + 1 /\ All'[Len(All) + 1] = line.id
        /\ \A i \in 1 .. Len(All) : All'[i] = All[i]
    BY <1>1, <1>4, AppendProperties
  <2>3. \A i \in 1 .. Len(All') : i = Len(All') \/ i \in 1 .. Len(All)
    BY <1>1, <2>2
  <2>4. (\A i \in 1 .. Len(All) : All[i] < line.id) /\ line.id <= traced
        /\ \A j \in 1 .. Len(Waiting) : line.id < Waiting[j].id
    BY <1>0, <2>1 DEF OrderInv
  <2>5. ASSUME NEW i \in 1 .. Len(All'), NEW j \in 1 .. Len(All'), i < j
        PROVE  All'[i] < All'[j]
    <3>1. \A m, n \in 1 .. Len(All) : m < n => All[m] < All[n]
      BY <1>0 DEF OrderInv
    <3>2. i \in 1 .. Len(All) /\ All'[i] = All[i]
      BY <1>1, <2>2, <2>3, <2>5
    <3> QED
      BY <2>2, <2>3, <2>4, <2>5, <3>1, <3>2
  <2>6. ASSUME NEW i \in 1 .. Len(All')
        PROVE  All'[i] <= traced /\ \A j \in 1 .. Len(Waiting) : All'[i] < Waiting[j].id
    BY <1>15, <1>16, <2>2, <2>3, <2>4
  <2> QED
    BY <1>0, <2>1, <2>2, <2>5, <2>6 DEF OrderInv, CountInv
<1>5. CASE /\ UNCHANGED <<traced, Waiting, All>>
           /\ reader' = "parse" => reader = "parse" /\ line' = line
  <2>1. OrderInv'
    BY <1>0, <1>5 DEF OrderInv
  <2>2. ASSUME count'["parsed"] = count["parsed"] PROVE CountInv'
    BY <1>0, <1>5, <2>2 DEF CountInv
  <2>3. CASE ParseEvent
    <3>1. All' = Append(All, line.id)
      BY <1>0, <2>3, AppendOfParse
    <3> QED
      BY <1>4, <2>3, <3>1
  <2>4. ASSUME ~ParseEvent PROVE count'["parsed"] = count["parsed"]
    <3>1. CASE ReaderStep \/ ReadRaises
      <4>1. CASE ParseOther
        BY <1>0, <4>1 DEF ParseOther, Bump, Types, Line, Counts, Kinds
      <4>2. CASE UNCHANGED count \/ count' = Bump("received") \/ count' = Bump("errors")
        BY <1>0, <4>2 DEF Bump, Types, Counts, Kinds
      <4> QED
        BY <2>4, <3>1, <4>1, <4>2
        DEF ReaderStep, TestRunning, Readline, ReadlineClosed, ReadlineAhead, EnterRead, LeaveRead, ReadRaises
    <3>2. CASE UNCHANGED count
      BY <3>2
    <3>3. CASE (\E kind \in Kinds : Trace(kind)) \/ StartOpen \/ StartRaises
      BY <3>2, <3>3 DEF Trace, StartOpen, StartRaises
    <3>5. CASE \E fail \in 0 .. Tracepoints : StartEnable(fail)
      BY <1>0, <3>5 DEF StartEnable, Types, Counts, Kinds
    <3>4. CASE PollStep \/ StopRunning \/ StopStep
      BY <3>2, <3>4 DEF PollStep, PollCopy, PollClear, StopRunning, StopStep, StopDisable, StopClose, StopJoin
    <3> QED
      BY <2>4, <3>1, <3>3, <3>4, <3>5 DEF Next
  <2> QED
    BY <2>1, <2>2, <2>3, <2>4
<1> QED
  BY <1>2, <1>3, <1>4, <1>5, LinesStep

\* The invariant is inductive.
LEMMA StepIInv == IInv /\ [Next]_vars => IInv'
<1>1. CASE IInv /\ Next
  BY <1>1, TypesStep, LockStep, AheadStep, OrderStep DEF IInv
<1>2. CASE IInv /\ UNCHANGED vars
  BY <1>2 DEF IInv, vars, traceVars, Types, StartInv, AheadInv, LockInv, CountInv, OrderInv,
     Sums, All, Waiting
<1> QED
  BY <1>1, <1>2

\* The inductive invariant holds in every reachable state.
THEOREM SpecIInv == Spec => []IInv
BY InitIInv, StepIInv, PTL DEF Spec

\* Every variable has its type, the bound of the kernel's overwrites included:
\* the kernel overwrites no more lines than it traced (fallback.py:90-192).
THEOREM SpecTypeOK == Spec => []TypeOK
<1>1. IInv => TypeOK
  <2> SUFFICES ASSUME IInv PROVE TypeOK
    OBVIOUS
  <2>1. Types /\ Sums
    BY DEF IInv
  <2>2. overwritten <= traced
    BY <2>1, CountsTyped DEF Sums
  <2>3. overwritten \in 0 .. MaxLines
    BY <2>1, <2>2, MaxLinesAssumption, CountsTyped DEF Types
  <2> QED
    BY <2>1, <2>3 DEF Types, TypeOK, Ctls, Readers, Counts
<1> QED
  BY <1>1, SpecIInv, PTL

\* Whatever the threads' interleaving, poll() hands over every parsed event once
\* and in the order of the trace: the lock keeps the daemon thread from
\* appending between the copy and the clear (fallback.py:148-155).
THEOREM SpecNoLossNoDuplicate == Spec => []NoLossNoDuplicate
<1>1. IInv => NoLossNoDuplicate
  <2> SUFFICES ASSUME IInv PROVE NoLossNoDuplicate
    OBVIOUS
  <2>1. All \in Seq(Nat) /\ DOMAIN All = 1 .. Len(All)
    BY ConcatProperties, LenProperties DEF IInv, Types, All
  <2>2. Len(All) = count["parsed"] /\ \A i, j \in 1 .. Len(All) : i < j => All[i] < All[j]
    BY DEF IInv, CountInv, OrderInv
  <2> QED
    BY <2>1, <2>2 DEF NoLossNoDuplicate, All
<1> QED
  BY <1>1, SpecIInv, PTL

\* Every line is accounted for between the kernel and the counters, for any size
\* of the trace buffer and any number of lines that one read() takes: it is
\* overwritten, waits in the kernel, has been read ahead, is being parsed, or is
\* counted; the thread ends with lines read ahead only when the collector has
\* been stopped (fallback.py:74-115, 172-178).
THEOREM SpecLinesAccounted == Spec => []LinesAccounted
<1>1. IInv => LinesAccounted
  BY DEF IInv, Sums, AheadInv, LinesAccounted
<1> QED
  BY <1>1, SpecIInv, PTL
=============================================================================

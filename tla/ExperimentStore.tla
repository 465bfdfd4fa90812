-------------------------- MODULE ExperimentStore --------------------------
(***************************************************************************)
(* The directories under data/: several runs of the controller choose an   *)
(* experiment id, create its directory, write its metadata and append to   *)
(* its raw files through RawWriter, whose buffers reach the file in pieces *)
(* that need not end where a line ends; any of them may be killed; and     *)
(* m1.builder.replay reads back a directory that nobody writes any more.   *)
(*                                                                         *)
(* A line is a head and a tail; a file is a sequence of these.  "rows" is  *)
(* what is written while the loop runs (tasks, system, PSI), "sched" what  *)
(* is written from memory after it; the context is one line, written first *)
(* after the loop.                                                         *)
(***************************************************************************)
EXTENDS Naturals, SequencesExt, FiniteSetsExt

CONSTANTS
    Runs,      \* the runs of the controller on one day
    MaxNum,    \* the largest number of three digits (999)
    MaxRows,   \* bound of the rows all runs write in the loop
    MaxEvents, \* bound of the polled events
    MaxRaises  \* bound of the writes that raise

ASSUME RunsAssumption == IsFiniteSet(Runs)
ASSUME BoundsAssumption == MaxNum \in Nat \ {0} /\ {MaxRows, MaxEvents, MaxRaises} \subseteq Nat

Streams == {"rows", "sched", "context"}
Numbers == 1 .. MaxNum + 1

VARIABLES
    older,     \* the numbers of earlier runs of the day
    dirs,      \* the numbers that have a directory
    phase,     \* phase[r]: where the run stands
    num,       \* num[r]: the number it chose, 0 before
    made,      \* made[r][s]: how many rows it has had to write
    unkept,    \* unkept[r]: those of "rows" it does not judge: their write raised
    spoiled,   \* history: the runs of which a raised write lost text
    buffer,    \* buffer[r][s]: what RawWriter has not written yet
    raw,       \* raw[n][s]: the files
    frozen,    \* frozen[n]: experiment.json and collector_config.json
    rivals     \* history: rivals[r], the runs between choice and creation when r chose

idVars == <<older, dirs, num, rivals>>
rowVars == <<made, buffer, raw>>
failVars == <<unkept, spoiled>>
vars == <<idVars, phase, rowVars, failVars, frozen>>

Fragment(r, i, p) == [by |-> r, n |-> i, part |-> p]

\* The first k lines of run r.
Lines(r, k) == [i \in 1 .. 2 * k |->
    Fragment(r, (i + 1) \div 2, IF i % 2 = 1 THEN "head" ELSE "tail")]

Line(r, i) == <<Fragment(r, i, "head"), Fragment(r, i, "tail")>>

NoFiles == [s \in Streams |-> <<>>]

Init ==
    /\ older \in SUBSET (1 .. MaxNum) /\ dirs = older
    /\ phase = [r \in Runs |-> "new"]
    /\ num = [r \in Runs |-> 0]
    /\ rivals = [r \in Runs |-> {}]
    /\ made = [r \in Runs |-> [s \in Streams |-> 0]]
    /\ unkept = [r \in Runs |-> {}] /\ spoiled = {}
    /\ buffer = [r \in Runs |-> NoFiles]
    /\ raw = [n \in Numbers |-> NoFiles]
    /\ frozen = [n \in Numbers |-> "absent"]

Goes(r, from, to) == phase[r] = from /\ phase' = [phase EXCEPT ![r] = to]

-----------------------------------------------------------------------------
(***************************************************************************)
(* The id, the directory and its metadata.                                 *)
(***************************************************************************)

\* Faulty variant of NextNumber: one more than there are.
NextNumberByCount == IF Cardinality(dirs) < MaxNum THEN Cardinality(dirs) + 1 ELSE MaxNum + 1

\* The first free number.  A name of more than three digits is not recognised:
\* the number after the last is always free.
NextNumber == Min(Numbers \ (dirs \ {MaxNum + 1}))

Choose(r) ==
    /\ Goes(r, "new", "chosen")
    /\ num' = [num EXCEPT ![r] = NextNumber]
    /\ rivals' = [rivals EXCEPT ![r] = {q \in Runs : phase[q] = "chosen"}]
    /\ UNCHANGED <<older, dirs, rowVars, failVars, frozen>>

\* mkdir does not mind that the directory exists.
Create(r) ==
    /\ Goes(r, "chosen", "created")
    /\ dirs' = dirs \cup {num[r]}
    /\ UNCHANGED <<older, num, rivals, rowVars, failVars, frozen>>

\* write_text truncates and then fills: between the two, and between the two
\* files, replay refuses the directory or raises.
Truncate(r) ==
    /\ Goes(r, "created", "freezing")
    /\ frozen' = [frozen EXCEPT ![num[r]] = "torn"]
    /\ UNCHANGED <<idVars, rowVars, failVars>>

\* Faulty variant of Freeze: the context, known from the start, is written with it.
FreezeWithContext(r) ==
    /\ Goes(r, "freezing", "loop")
    /\ frozen' = [frozen EXCEPT ![num[r]] = "whole"]
    /\ raw' = [raw EXCEPT ![num[r]]["context"] = @ \o Line(r, 1)]
    /\ UNCHANGED <<idVars, made, buffer, failVars>>

Freeze(r) ==
    /\ Goes(r, "freezing", "loop")
    /\ frozen' = [frozen EXCEPT ![num[r]] = "whole"]
    /\ UNCHANGED <<idVars, rowVars, failVars>>

-----------------------------------------------------------------------------
(***************************************************************************)
(* The rows.                                                               *)
(***************************************************************************)

\* The buffer with one more row of the loop.
OneMore(r) == buffer[r]["rows"] \o Line(r, made[r]["rows"] + 1)

\* What the runs have written in their loops, and what of it raised.
Made == {w \in Runs \X (1 .. MaxRows) : w[2] <= made[w[1]]["rows"]}
Raised == {w \in Made : w[2] \in unkept[w[1]]}

WriteTo(r, text) ==
    /\ phase[r] = "loop" /\ Cardinality(Made) < MaxRows
    /\ buffer' = [buffer EXCEPT ![r]["rows"] = text]
    /\ made' = [made EXCEPT ![r]["rows"] = @ + 1]
    /\ UNCHANGED <<idVars, phase, raw, frozen>>

\* write and write_many put lines in the buffer; the rows are kept for QA.
Write(r) == WriteTo(r, OneMore(r)) /\ UNCHANGED failVars

NotKept(r) ==
    /\ Cardinality(Raised) < MaxRaises
    /\ unkept' = [unkept EXCEPT ![r] = @ \cup {made[r]["rows"] + 1}]

\* The write or the flush after it raises, and the loop goes on: the row is in
\* the buffer and a later flush writes it, but it was never kept.
WriteNotKept(r) ==
    WriteTo(r, OneMore(r)) /\ NotKept(r) /\ UNCHANGED spoiled

\* The raised write also loses the text that was pending, rows already kept
\* among it.
WriteLosesText(r) ==
    /\ \E k \in 0 .. Len(OneMore(r)) - 1 : WriteTo(r, SubSeq(OneMore(r), 1, k))
    /\ NotKept(r)
    /\ spoiled' = spoiled \cup {r}

\* A polled event is only kept.
PollEvent(r) ==
    /\ phase[r] = "loop" /\ made[r]["sched"] < MaxEvents
    /\ made' = [made EXCEPT ![r]["sched"] = @ + 1]
    /\ UNCHANGED <<idVars, phase, buffer, raw, failVars, frozen>>

\* A full buffer spills wherever it is full; a flush spills all of it.
Spill(r, s) ==
    /\ buffer[r][s] # <<>>
    /\ raw' = [raw EXCEPT ![num[r]][s] = Append(@, Head(buffer[r][s]))]
    /\ buffer' = [buffer EXCEPT ![r][s] = Tail(@)]
    /\ UNCHANGED <<idVars, phase, made, failVars, frozen>>

\* After the loop the context gets its end, is written and closed, and the
\* events kept in memory are handed to their writer.
EndContext(r) ==
    /\ Goes(r, "loop", "context")
    /\ made' = [made EXCEPT ![r]["context"] = 1]
    /\ raw' = [raw EXCEPT ![num[r]]["context"] = @ \o Line(r, 1)]
    /\ UNCHANGED <<idVars, buffer, failVars, frozen>>

WriteEvents(r) ==
    /\ Goes(r, "context", "events")
    /\ buffer' = [buffer EXCEPT ![r]["sched"] = Lines(r, made[r]["sched"])]
    /\ UNCHANGED <<idVars, made, raw, failVars, frozen>>

\* Faulty variants of Flushed: the files are opened to write, not to append;
\* only the events are flushed.
FlushedOver(r) == [s \in Streams |-> IF buffer[r][s] = <<>> THEN raw[num[r]][s] ELSE buffer[r][s]]
FlushedEvents(r) == [raw[num[r]] EXCEPT !["sched"] = @ \o buffer[r]["sched"]]

\* What the files hold once all writers of r are closed.
Flushed(r) == [s \in Streams |-> raw[num[r]][s] \o buffer[r][s]]

\* The events' writer is closed, then the others.
Close(r) ==
    /\ Goes(r, "events", "done")
    /\ raw' = [raw EXCEPT ![num[r]] = Flushed(r)]
    /\ buffer' = [buffer EXCEPT ![r] = NoFiles]
    /\ UNCHANGED <<idVars, made, failVars, frozen>>

\* SIGTERM or SIGKILL: what is in the buffers and in memory is gone.  (Killed
\* before it has its directory, a run is one that never takes its next step.  An
\* exception that leaves the finally block ends a run like a kill, after spills.)
Kill(r) ==
    /\ \/ phase[r] \in {"created", "freezing", "loop"} /\ phase' = [phase EXCEPT ![r] = "killed"]
       \/ phase[r] \in {"context", "events"} /\ phase' = [phase EXCEPT ![r] = "killedLate"]
    /\ buffer' = [buffer EXCEPT ![r] = NoFiles]
    /\ UNCHANGED <<idVars, made, raw, failVars, frozen>>

Next ==
    \E r \in Runs :
        \/ Choose(r) \/ Create(r) \/ Truncate(r) \/ Freeze(r)
        \/ Write(r) \/ WriteNotKept(r) \/ WriteLosesText(r)
        \/ PollEvent(r) \/ EndContext(r) \/ WriteEvents(r) \/ Close(r)
        \/ Kill(r)
        \/ \E s \in Streams : Spill(r, s)

Spec == Init /\ [][Next]_vars

-----------------------------------------------------------------------------
(***************************************************************************)
(* Replay, a function of a directory that no run writes any more.          *)
(***************************************************************************)

\* No run writes directory n any more.
Over == {"done", "killed", "killedLate"}
Quiet(n) == \A r \in Runs : num[r] = n => phase[r] \in Over

IsLine(f, i) == f[i].part = "head" /\ i < Len(f) /\ f[i + 1] = [f[i] EXCEPT !.part = "tail"]

\* Faulty variant of Decodes: a line that is not JSON is passed over.
DecodesAlways(f) == TRUE

\* json.loads accepts every line.  (Braces of a cut line, or of one line put
\* into another, do not balance.)
Decodes(f) == \A i \in DOMAIN f : IsLine(f, i) \/ (i > 1 /\ IsLine(f, i - 1))

LineStarts(f) == {i \in DOMAIN f : IsLine(f, i)}

\* What load_all returns of file f: the heads of its lines, first to last.
Loaded(f) ==
    LET Nth(k) == CHOOSE i \in LineStarts(f) : Cardinality({j \in LineStarts(f) : j <= i}) = k
    IN  [k \in 1 .. Cardinality(LineStarts(f)) |-> f[Nth(k)]]

\* A replay refuses a directory whose metadata are missing or incomplete, and
\* raises on a line it cannot decode; otherwise it builds from the rows.
Builds(n) == frozen[n] = "whole" /\ \A s \in Streams : Decodes(raw[n][s])

-----------------------------------------------------------------------------
(***************************************************************************)
(* Properties.                                                             *)
(***************************************************************************)

\* "EXP-YYYYMMDD-NNN per data directory": while there are numbers left, a run
\* never gets the directory of an earlier one, whatever gaps the numbers have;
\* two runs share one only when one chose before the other had created it.
OnlyRacingRunsShare ==
    \A r \in Runs :
        num[r] \in 1 .. MaxNum =>
            /\ num[r] \notin older
            /\ \A q \in Runs \ {r} :
                   num[q] = num[r] => q \in rivals[r] \/ r \in rivals[q]

\* No text of the stream was lost by a raised write.
Clean(r, s) == s = "rows" => r \notin spoiled

\* replay.py fails "loudly" rather than "produce a different dataset": what it
\* builds from is, of every run that wrote to the directory and of every stream,
\* its first rows in their order with none left out among them, after any kill
\* and any interleaving of the pieces of two runs in one file; only the rows of
\* a run of which a raised write lost text may have gaps.
NoRowSkipped ==
    \A n \in Numbers : Quiet(n) /\ Builds(n) =>
        \A s \in Streams :
            LET loaded == Loaded(raw[n][s])
            IN  \A k \in DOMAIN loaded : Clean(loaded[k].by, s) =>
                    loaded[k].n = Cardinality({j \in 1 .. k : loaded[j].by = loaded[k].by})

\* The directory of r is its own.
Owns(r) == num[r] \notin older \cup {0} /\ \A q \in Runs \ {r} : num[q] # num[r]

\* The rows the run judges, and those its replay reads.
Judged(r, s) == {i \in 1 .. made[r][s] : s = "rows" => i \notin unkept[r]}
Read(r, s) == {row.n : row \in Range(Loaded(raw[num[r]][s]))}

\* "Regenerate processed observations from preserved raw data": unless a raised
\* write lost text, the replay of a finished run succeeds and reads, stream by
\* stream, every row the run judged.  It also reads the rows whose write raised:
\* those, which the run did not judge, and no others.
FinishedRunReplaysWhole ==
    \A r \in Runs :
        phase[r] = "done" /\ Owns(r) /\ r \notin spoiled =>
            /\ Builds(num[r])
            /\ \A s \in Streams :
                   /\ Judged(r, s) \subseteq Read(r, s)
                   /\ Read(r, s) \ Judged(r, s) \subseteq (IF s = "rows" THEN unkept[r] ELSE {})

\* Observations need a context.  A run killed before it has written its context
\* replays to none; a run that was not killed between its context and its
\* events replays with all of its events or with none of its observations.
EventsComeWithContext ==
    \A r \in Runs :
        Owns(r) /\ phase[r] \in {"killed", "done"} /\ Builds(num[r])
          /\ Loaded(raw[num[r]]["context"]) # <<>> =>
            Len(Loaded(raw[num[r]]["sched"])) = made[r]["sched"]

\* "Raw is append-only": a step that changes a raw file adds to its end, and
\* takes back no byte of it.
RawIsAppendOnly ==
    [][\A n \in Numbers, s \in Streams :
           raw'[n][s] # raw[n][s] => IsPrefix(raw[n][s], raw'[n][s])]_vars
=============================================================================

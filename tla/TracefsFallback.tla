--------------------------- MODULE TracefsFallback ---------------------------
(***************************************************************************)
(* The tracefs fallback (m1.sched_events.fallback): a daemon thread blocks *)
(* in readline() on trace_pipe and parses what it gets into a buffer that  *)
(* the controller's thread copies and clears under a lock.  The file is    *)
(* opened as text: one read() of the kernel's trace buffer may fetch many  *)
(* lines, of which readline() hands out one at a time.  The trace buffer   *)
(* overwrites its oldest line when it is full, and gives the reader no end *)
(* of file when the sched events are disabled: a reader that finds no line *)
(* stays in read().  File.close() needs the lock of the buffered file,     *)
(* which read() holds.                                                     *)
(***************************************************************************)
EXTENDS Naturals, Sequences

CONSTANTS
    Tracepoints,\* the number of sched tracepoints that are switched on and off
    PipeSize,   \* lines the kernel's trace buffer holds
    MaxLines    \* bound of the number of lines traced

ASSUME TracepointsAssumption == Tracepoints \in Nat \ {0}
ASSUME PipeSizeAssumption == PipeSize \in Nat \ {0}
ASSUME MaxLinesAssumption == MaxLines \in Nat

VARIABLES
    enabled,    \* the sched tracepoints write to the trace buffer
    traced,     \* the number of lines traced
    overwritten,\* history: lines the kernel overwrote before they were read
    pipe,       \* lines in the trace buffer: [id, kind], kind what they parse as
    ahead,      \* lines read from the kernel that readline() has not returned yet
    ctl,        \* where the controller's thread stands
    reader,     \* where the daemon thread stands
    running,    \* TracefsFallback._running
    closed,     \* trace_pipe has been closed
    line,       \* the line the daemon thread is parsing
    buf,        \* _events_buf
    out,        \* the copy poll() returns
    rows,       \* the events handed to the controller
    locked,     \* poll() holds _lock
    count       \* the counters received, parsed, malformed, unknown and errors

traceVars == <<enabled, traced, overwritten>>
vars == <<traceVars, pipe, ahead, ctl, reader, running, closed, line, buf, out, rows,
          locked, count>>

\* A line is a sched event, or one of another tracepoint, or does not parse
\* ("[LOST n EVENTS]").
Kinds == {"parsed", "unknown", "malformed"}

NoLine == [id |-> 0, kind |-> "malformed"]
Bump(c) == [count EXCEPT ![c] = @ + 1]

Init ==
    /\ enabled = FALSE /\ traced = 0 /\ overwritten = 0
    /\ pipe = <<>> /\ ahead = <<>>
    /\ ctl = "new" /\ reader = "none"
    /\ running = FALSE /\ closed = FALSE
    /\ line = NoLine
    /\ buf = <<>> /\ out = <<>> /\ rows = <<>>
    /\ locked = FALSE
    /\ count = [c \in Kinds \cup {"received", "errors"} |-> 0]

-----------------------------------------------------------------------------
(***************************************************************************)
(* The kernel.                                                             *)
(***************************************************************************)

\* The kernel writes a line, over its oldest one when the buffer is full.
Trace(kind) ==
    /\ enabled
    /\ traced < MaxLines
    /\ traced' = traced + 1
    /\ LET new == [id |-> traced + 1, kind |-> kind]
           full == Len(pipe) = PipeSize
       IN  /\ pipe' = Append(IF full THEN Tail(pipe) ELSE pipe, new)
           /\ overwritten' = IF full THEN overwritten + 1 ELSE overwritten
    /\ UNCHANGED <<enabled, ahead, ctl, reader, running, closed, line, buf, out, rows, locked, count>>

-----------------------------------------------------------------------------
(***************************************************************************)
(* The daemon thread.                                                      *)
(***************************************************************************)

\* Faulty variant of TestRunning: the loop never looks at _running.
TestRunningNot ==
    /\ reader = "test"
    /\ reader' = "call"
    /\ UNCHANGED <<traceVars, pipe, ahead, ctl, running, closed, line, buf, out, rows, locked, count>>

TestRunning ==
    /\ reader = "test"
    /\ reader' = IF running THEN "call" ELSE "dead"
    /\ UNCHANGED <<traceVars, pipe, ahead, ctl, running, closed, line, buf, out, rows, locked, count>>

\* readline() on a closed file raises, whatever had been read ahead ...
ReadlineClosed ==
    /\ reader = "call"
    /\ closed
    /\ reader' = "dead"
    /\ count' = Bump("errors")
    /\ UNCHANGED <<traceVars, pipe, ahead, ctl, running, closed, line, buf, out, rows, locked>>

\* ... returns the next line that was read ahead, without the kernel ...
ReadlineAhead ==
    /\ reader = "call"
    /\ ~closed
    /\ ahead # <<>>
    /\ line' = Head(ahead)
    /\ ahead' = Tail(ahead)
    /\ reader' = "parse"
    /\ count' = Bump("received")
    /\ UNCHANGED <<traceVars, pipe, ctl, running, closed, buf, out, rows, locked>>

\* ... or reads trace_pipe, holding the lock of the file.
EnterRead ==
    /\ reader = "call"
    /\ ~closed
    /\ ahead = <<>>
    /\ reader' = "read"
    /\ UNCHANGED <<traceVars, pipe, ahead, ctl, running, closed, line, buf, out, rows, locked, count>>

\* Faulty variant of LeaveRead: what follows the first line is thrown away.
LeaveReadFirst(n) ==
    /\ reader = "read"
    /\ line' = Head(pipe)
    /\ pipe' = SubSeq(pipe, n + 1, Len(pipe))
    /\ reader' = "parse"
    /\ count' = Bump("received")
    /\ UNCHANGED <<traceVars, ahead, ctl, running, closed, buf, out, rows, locked>>

\* read() returns as soon as there is a line, and only then, with as many as it
\* likes of those there are.
LeaveRead(n) ==
    /\ reader = "read"
    /\ line' = Head(pipe)
    /\ ahead' = SubSeq(pipe, 2, n)
    /\ pipe' = SubSeq(pipe, n + 1, Len(pipe))
    /\ reader' = "parse"
    /\ count' = Bump("received")
    /\ UNCHANGED <<traceVars, ctl, running, closed, buf, out, rows, locked>>

\* read() fails with an I/O error: the thread counts it and ends.
ReadRaises ==
    /\ reader = "read"
    /\ reader' = "dead"
    /\ count' = Bump("errors")
    /\ UNCHANGED <<traceVars, pipe, ahead, ctl, running, closed, line, buf, out, rows, locked>>

\* A line that is no sched event of ours is counted by what is wrong with it.
ParseOther ==
    /\ reader = "parse"
    /\ line.kind # "parsed"
    /\ count' = Bump(line.kind)
    /\ line' = NoLine
    /\ reader' = "test"
    /\ UNCHANGED <<traceVars, pipe, ahead, ctl, running, closed, buf, out, rows, locked>>

\* Faulty variant of ParseEvent: appends without taking the lock.
ParseEventUnlocked ==
    /\ reader = "parse"
    /\ line.kind = "parsed"
    /\ buf' = Append(buf, line.id)
    /\ count' = Bump("parsed")
    /\ line' = NoLine
    /\ reader' = "test"
    /\ UNCHANGED <<traceVars, pipe, ahead, ctl, running, closed, out, rows, locked>>

\* Waits for the lock, appends, counts.
ParseEvent ==
    /\ reader = "parse"
    /\ line.kind = "parsed"
    /\ ~locked
    /\ buf' = Append(buf, line.id)
    /\ count' = Bump("parsed")
    /\ line' = NoLine
    /\ reader' = "test"
    /\ UNCHANGED <<traceVars, pipe, ahead, ctl, running, closed, out, rows, locked>>

-----------------------------------------------------------------------------
(***************************************************************************)
(* The controller's thread: start, poll, stop.                             *)
(***************************************************************************)

\* Every tracepoint is switched on by itself; one that cannot be is counted.
StartEnable(fail) ==
    /\ ctl = "new"
    /\ enabled' = (fail < Tracepoints)
    /\ count' = [count EXCEPT !["errors"] = @ + fail]
    /\ ctl' = "opening"
    /\ UNCHANGED <<traced, overwritten, pipe, ahead, reader, running, closed, line, buf, out, rows, locked>>

StartOpen ==
    /\ ctl = "opening"
    /\ running' = TRUE
    /\ reader' = "test"
    /\ ctl' = "loop"
    /\ UNCHANGED <<traceVars, pipe, ahead, closed, line, buf, out, rows, locked, count>>

\* There is no tracefs, or trace_pipe is missing or cannot be opened: start()
\* raises, in the second case after enable(), and the controller goes on without
\* a scheduler backend.
StartRaises ==
    /\ ctl \in {"new", "opening"}
    /\ ctl' = "stopped"
    /\ UNCHANGED <<traceVars, pipe, ahead, reader, running, closed, line, buf, out, rows, locked, count>>

PollCopy ==
    /\ ctl = "loop"
    /\ locked' = TRUE
    /\ out' = buf
    /\ ctl' = "copied"
    /\ UNCHANGED <<traceVars, pipe, ahead, reader, running, closed, line, buf, rows, count>>

PollClear ==
    /\ ctl = "copied"
    /\ buf' = <<>>
    /\ rows' = rows \o out
    /\ out' = <<>>
    /\ locked' = FALSE
    /\ ctl' = "loop"
    /\ UNCHANGED <<traceVars, pipe, ahead, reader, running, closed, line, count>>

StopRunning ==
    /\ ctl = "loop"
    /\ running' = FALSE
    /\ ctl' = "disabling"
    /\ UNCHANGED <<traceVars, pipe, ahead, reader, closed, line, buf, out, rows, locked, count>>

\* A tracepoint that cannot be switched off goes on tracing.
StopDisable ==
    /\ ctl = "disabling"
    /\ enabled' \in {enabled, FALSE}
    /\ ctl' = "closing"
    /\ UNCHANGED <<traced, overwritten, pipe, ahead, reader, running, closed, line, buf, out, rows, locked, count>>

\* close() waits for the lock of the file.
StopClose ==
    /\ ctl = "closing"
    /\ reader # "read"
    /\ closed' = TRUE
    /\ ctl' = "joining"
    /\ UNCHANGED <<traceVars, pipe, ahead, reader, running, line, buf, out, rows, locked, count>>

\* join(timeout=2): returns when the thread has ended, or after two seconds.
StopJoin ==
    /\ ctl = "joining"
    /\ ctl' = "stopped"
    /\ UNCHANGED <<traceVars, pipe, ahead, reader, running, closed, line, buf, out, rows, locked, count>>

Readline   == ReadlineClosed \/ ReadlineAhead \/ EnterRead \/ \E n \in DOMAIN pipe : LeaveRead(n)
ReaderStep == TestRunning \/ Readline \/ ParseOther \/ ParseEvent
StopStep   == StopDisable \/ StopClose \/ StopJoin
PollStep   == PollCopy \/ PollClear

Next ==
    \/ \E kind \in Kinds : Trace(kind)
    \/ ReaderStep \/ ReadRaises
    \/ (\E fail \in 0 .. Tracepoints : StartEnable(fail)) \/ StartOpen \/ StartRaises
    \/ PollStep \/ StopRunning \/ StopStep

Spec == Init /\ [][Next]_vars

(***************************************************************************)
(* Both threads run whenever they can; the loop keeps polling until it     *)
(* stops.  Nothing makes the kernel trace a line.                          *)
(***************************************************************************)
FairSpec ==
    Spec /\ WF_vars(ReaderStep) /\ WF_vars(StopStep) /\ WF_vars(PollStep)

-----------------------------------------------------------------------------
(***************************************************************************)
(* Properties.                                                             *)
(***************************************************************************)

Line == [id : 0 .. MaxLines, kind : Kinds]

\* Every variable has its type.
TypeOK ==
    /\ enabled \in BOOLEAN /\ running \in BOOLEAN /\ closed \in BOOLEAN /\ locked \in BOOLEAN
    /\ traced \in 0 .. MaxLines /\ overwritten \in 0 .. MaxLines
    /\ pipe \in Seq(Line) /\ Len(pipe) <= PipeSize
    /\ ahead \in Seq(Line) /\ Len(ahead) < PipeSize
    /\ ctl \in {"new", "opening", "loop", "copied", "disabling", "closing", "joining", "stopped"}
    /\ reader \in {"none", "test", "call", "read", "parse", "dead"}
    /\ line \in Line
    /\ buf \in Seq(Nat) /\ out \in Seq(Nat) /\ rows \in Seq(Nat)
    /\ count \in [Kinds \cup {"received", "errors"} -> Nat]

\* Whatever the daemon thread appends while the controller polls, every parsed
\* event reaches the controller or the buffer exactly once and in the order of
\* the trace (the lock around the copy and the clear in poll()).
NoLossNoDuplicate ==
    LET all == rows \o buf
    IN  /\ Len(all) = count["parsed"]
        /\ \A i, j \in DOMAIN all : i < j => all[i] < all[j]

\* Every line traced was overwritten by the kernel, waits in the trace buffer,
\* has been read ahead, or was received; every line received is being parsed or
\* counted by what it is.  No counter tells of the first three: lines read ahead
\* are gone from the kernel, and those a thread that ended leaves there (a stop
\* between two lines of one read; never while the collector runs) are lost.
LinesAccounted ==
    /\ traced = overwritten + Len(pipe) + Len(ahead) + count["received"]
    /\ count["received"] = count["parsed"] + count["unknown"] + count["malformed"]
                           + (IF reader = "parse" THEN 1 ELSE 0)
    /\ reader = "dead" /\ ahead # <<>> => ~running

\* A stop that finds a line in the trace buffer returns: the reader takes the
\* line, lets go of the file and finds _running false.
StopReturnsWithLine ==
    (ctl = "closing" /\ pipe # <<>>) ~> ctl = "stopped"

\* experiment_protocol.md: the controller "stops everything safely": a stop
\* that has begun returns.
StopReturns == (ctl = "disabling") ~> (ctl = "stopped")
=============================================================================

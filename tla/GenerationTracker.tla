------------------------- MODULE GenerationTracker -------------------------
(***************************************************************************)
(* The runs that m1.sched_events.correlate keeps for one thread id: each   *)
(* run says which generation (task_id) owned the id over [start, end).     *)
(* The last run may still be open.  A generation is identified by its      *)
(* starttime, the part of the task_id that distinguishes the generations   *)
(* of one id.                                                              *)
(***************************************************************************)
EXTENDS Naturals, Sequences

CONSTANTS
    Open,        \* the end of a run that has not ended
    Unresolved   \* the answer of Resolve when no run holds the timestamp

ASSUME OpenAssumption == Open \notin Nat
ASSUME UnresolvedAssumption == Unresolved \notin Nat

LastIsOpen(runs) == runs # <<>> /\ runs[Len(runs)].end = Open

\* Faulty variant of CloseLast: moves an end that was already set.
CloseLastAgain(runs, ts) ==
    IF runs # <<>> THEN [runs EXCEPT ![Len(runs)].end = ts] ELSE runs

\* Ends the last run at ts when it is open; never looks at whose run it is.
CloseLast(runs, ts) ==
    IF LastIsOpen(runs) THEN [runs EXCEPT ![Len(runs)].end = ts] ELSE runs

-----------------------------------------------------------------------------
\* Faulty variants, used to show that the properties notice them: an observe
\* that leaves the earlier run open, and one that takes a closed run of the
\* same generation for an open one.
ObserveWithoutClosing(runs, task, ts) ==
    IF LastIsOpen(runs) /\ runs[Len(runs)].task = task THEN runs
    ELSE Append(runs, [start |-> ts, end |-> Open, task |-> task])

ObserveIgnoringEnd(runs, task, ts) ==
    IF runs # <<>> /\ runs[Len(runs)].task = task THEN runs
    ELSE Append(CloseLast(runs, ts), [start |-> ts, end |-> Open, task |-> task])
-----------------------------------------------------------------------------

\* A generation seen alive at ts: nothing changes when it already owns the
\* open run, otherwise the open run ends at ts and a new one starts there.
Observe(runs, task, ts) ==
    IF LastIsOpen(runs) /\ runs[Len(runs)].task = task
    THEN runs
    ELSE Append(CloseLast(runs, ts), [start |-> ts, end |-> Open, task |-> task])

Holds(run, ts) == run.start <= ts /\ (run.end = Open \/ ts < run.end)

\* The runs, by position, that hold the timestamp.
Holding(runs, ts) == {i \in DOMAIN runs : Holds(runs[i], ts)}

\* The generation of the first run that holds the timestamp.
Resolve(runs, ts) ==
    LET hits == Holding(runs, ts)
    IN  IF hits = {} THEN Unresolved
        ELSE runs[CHOOSE i \in hits : \A j \in hits : i <= j].task


-----------------------------------------------------------------------------
\* Runs in time order that do not overlap, of which only the last may be open.
Ordered(runs) ==
    \A i \in DOMAIN runs :
        /\ runs[i].end # Open => runs[i].start <= runs[i].end
        /\ i < Len(runs) => runs[i].end # Open /\ runs[i].end <= runs[i + 1].start

Run == [start : Nat, end : Nat \cup {Open}, task : Nat]
=============================================================================

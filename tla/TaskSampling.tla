---------------------------- MODULE TaskSampling ----------------------------
(***************************************************************************)
(* Task discovery and sampling, for one thread id: TaskRegistry.scan()     *)
(* reads /proc/<pid>/stat and then /proc/<pid>/status while the kernel     *)
(* runs, ends, reaps and reuses the id; TaskSampler.sample_once() turns    *)
(* consecutive snapshots of a task into deltas; the controller writes the  *)
(* row and keeps it; check_lifecycle sets the rows against the exit        *)
(* events.                                                                 *)
(*                                                                         *)
(* Field 14 of stat stands for every counter of that file; the context     *)
(* switches stand for every counter read after it (status, io).  A task is *)
(* readable while it is exiting, after its exit event; then a process is a *)
(* zombie until its parent reaps it, a thread is gone at once.             *)
(***************************************************************************)
EXTENDS Integers, FiniteSetsExt

CONSTANTS
    MaxGens,    \* bound of the number of tasks the id is given to
    MaxCount,   \* bound of a counter
    MaxScans    \* bound of the number of scans

ASSUME BoundsAssumption == MaxGens \in Nat /\ MaxCount \in Nat /\ MaxScans \in Nat

VARIABLES
    gen,     \* the task that has the id, or had it last; 0 before the first
    state,   \* what that task is doing
    utime,   \* its counter in stat
    cs,      \* its counter in status
    clock,   \* CLOCK_MONOTONIC, advanced by everything that is stamped
    exits,   \* the sched_process_exit events of the id
    pc,      \* where the sampling thread stands
    scans,   \* the number of scans begun
    now,     \* the stamp of the scan
    snap,    \* the snapshot the scan has made of the id
    row,     \* the row made of it
    live, exited,  \* TaskRegistry.live (its keys) and .exited
    prev,    \* TaskSampler._prev
    rows,    \* task_rows of the controller
    first,   \* history: the first reading of utime, per task
    misread, \* history: the tasks called exited because stat could not be read
    lost     \* history: the growth of utime in rows that were not written

kernelVars == <<gen, state, utime, cs, exits>>
samplerVars == <<live, exited, prev, first, misread>>
rowVars == <<row, rows, lost>>
vars == <<kernelVars, clock, pc, scans, now, snap, samplerVars, rowVars>>

None == -1
Counter == 0 .. MaxCount
Gens == 1 .. MaxGens

\* Faulty variant of TaskId: the id alone.
TaskIdOfPid(g) == 1

\* make_task_id: the start time tells the owners of an id apart.
TaskId(g) == g

\* owner and source are history: whose stat and whose status were opened; and
\* so is ended: the exit event was out when stat was read.
NoSnap == [id |-> None, ts |-> None, utime |-> None, cs |-> None,
           owner |-> None, source |-> None, ended |-> FALSE]
NoRow == [id |-> None, ts |-> None, utime |-> None, cs |-> None,
          owner |-> None, source |-> None, ended |-> FALSE, dutime |-> None, dcs |-> None]

Init ==
    /\ gen = 0 /\ state = "none" /\ utime = 0 /\ cs = 0
    /\ clock = 0 /\ exits = {}
    /\ pc = "idle" /\ scans = 0 /\ now = 0 /\ snap = NoSnap /\ row = NoRow
    /\ live = {} /\ exited = {}
    /\ prev = <<>> /\ misread = {}
    /\ rows = {}
    /\ first = [g \in Gens |-> None]
    /\ lost = [g \in Gens |-> 0]

-----------------------------------------------------------------------------
(***************************************************************************)
(* The kernel.                                                             *)
(***************************************************************************)

Fork ==
    /\ state = "none" /\ gen < MaxGens
    /\ gen' = gen + 1 /\ state' = "running" /\ utime' = 0 /\ cs' = 0
    /\ UNCHANGED <<exits, clock, pc, scans, now, snap, samplerVars, rowVars>>

RunTask ==
    /\ state \in {"running", "exiting"}
    /\ \/ utime < MaxCount /\ utime' = utime + 1 /\ cs' = cs
       \/ cs < MaxCount /\ cs' = cs + 1 /\ utime' = utime
    /\ UNCHANGED <<gen, state, exits, clock, pc, scans, now, snap, samplerVars, rowVars>>

\* sched_process_exit fires in the task that exits, which goes on to give back
\* what it holds and still reads as running.
ExitEvent ==
    /\ state = "running"
    /\ state' = "exiting"
    /\ clock' = clock + 1
    /\ exits' = exits \cup {[gen |-> gen, ts |-> clock + 1]}
    /\ UNCHANGED <<gen, utime, cs, pc, scans, now, snap, samplerVars, rowVars>>

\* A process becomes a zombie, a thread goes.
ExitNotify ==
    /\ state = "exiting"
    /\ state' \in {"zombie", "none"}
    /\ UNCHANGED <<gen, utime, cs, exits, clock, pc, scans, now, snap, samplerVars, rowVars>>

Reap ==
    /\ state = "zombie"
    /\ state' = "none"
    /\ UNCHANGED <<gen, utime, cs, exits, clock, pc, scans, now, snap, samplerVars, rowVars>>

-----------------------------------------------------------------------------
(***************************************************************************)
(* TaskRegistry.scan().                                                    *)
(***************************************************************************)

\* Faulty variant of Order: the counters before the identity.
OrderReversed == <<"status", "stat">>

\* _read_task opens the files one after the other.
Order == <<"stat", "status">>

Opening(file) == (pc = "first" /\ file = Order[1]) \/ (pc = "second" /\ file = Order[2])
AfterFile == IF pc = "first" THEN "second" ELSE "update"

ScanBegin ==
    /\ pc = "idle" /\ scans < MaxScans
    /\ scans' = scans + 1
    /\ clock' = clock + 1 /\ now' = clock + 1
    /\ snap' = NoSnap
    /\ pc' = "first"
    /\ UNCHANGED <<kernelVars, samplerVars, rowVars>>

\* Identity and the first counters come from one read of stat.
ReadStat ==
    /\ Opening("stat") /\ state # "none"
    /\ snap' = [snap EXCEPT !.id = TaskId(gen), !.owner = gen, !.ts = now,
                            !.ended = (state # "running"), !.utime = utime]
    /\ pc' = AfterFile
    /\ UNCHANGED <<kernelVars, clock, scans, now, samplerVars, rowVars>>

\* No such file, or it went away: there is no task.  Or there is one, and its
\* stat does not decode or is too short (a name may be any bytes), which looks
\* the same; its owner is remembered as history only.
ReadStatFails ==
    /\ Opening("stat")
    /\ snap' = IF state = "none" THEN NoSnap ELSE [NoSnap EXCEPT !.owner = gen]
    /\ pc' = "update"
    /\ UNCHANGED <<kernelVars, clock, scans, now, samplerVars, rowVars>>

\* The task is gone since stat was read: its counters stay missing.  Its id may
\* also have been given to another task, whose counters are read instead.
ReadStatus ==
    /\ Opening("status")
    /\ snap' = IF state = "none" THEN snap ELSE [snap EXCEPT !.cs = cs, !.source = gen]
    /\ pc' = AfterFile
    /\ UNCHANGED <<kernelVars, clock, scans, now, samplerVars, rowVars>>

\* Faulty variant of ReadStatusDenied: the task is left out of the scan.
ReadStatusSkipped ==
    /\ Opening("status") /\ state # "none"
    /\ snap' = NoSnap
    /\ pc' = "update"
    /\ UNCHANGED <<kernelVars, clock, scans, now, samplerVars, rowVars>>

\* A PermissionError or a name that does not decode is not caught: the scan ends
\* and leaves the registry as it was; the controller counts an error.
ReadStatusDenied ==
    /\ Opening("status") /\ state # "none"
    /\ snap' = NoSnap
    /\ pc' = "idle"
    /\ UNCHANGED <<kernelVars, clock, scans, now, samplerVars, rowVars>>

-----------------------------------------------------------------------------
(***************************************************************************)
(* TaskSampler.sample_once() after the scan, and the controller.           *)
(***************************************************************************)

\* Faulty variant of DeltaOrNone: a counter that went back gives a negative delta.
DeltaUnchecked(cur, old) == IF cur = None \/ old = None THEN None ELSE cur - old

DeltaOrNone(cur, old) ==
    IF cur = None \/ old = None \/ cur < old THEN None ELSE cur - old

\* Faulty variant of RowStamp: the moment the scan is over.
RowStampLate == clock

RowStamp == snap.ts

\* The rates are these deltas over the time between the two stamps, which is
\* positive.
MakeRow ==
    LET old == IF snap.id \in DOMAIN prev THEN prev[snap.id] ELSE NoSnap
    IN  [id |-> snap.id, ts |-> RowStamp, utime |-> snap.utime, cs |-> snap.cs,
         owner |-> snap.owner, source |-> snap.source, ended |-> snap.ended,
         dutime |-> DeltaOrNone(snap.utime, old.utime), dcs |-> DeltaOrNone(snap.cs, old.cs)]

\* Faulty variant of Remember: the first snapshot of a task stays the base.
RememberFirst ==
    [g \in DOMAIN prev \cup {snap.id} |-> IF g \in DOMAIN prev THEN prev[g] ELSE snap]

\* _prev keeps the last snapshot of every task ever seen.
Remember ==
    [g \in DOMAIN prev \cup {snap.id} |-> IF g = snap.id THEN snap ELSE prev[g]]

\* The registry exchanges its live tasks, the sampler makes the row.
Update ==
    /\ pc = "update"
    /\ LET found == {snap.id} \ {None}
       IN  /\ exited' = exited \cup (live \ found)
           /\ live' = found
           /\ misread' = misread \cup (IF found = {} THEN live \cap {snap.owner} ELSE {})
    /\ IF snap.id = None
       THEN /\ pc' = "idle"
            /\ UNCHANGED <<prev, first, row>>
       ELSE /\ pc' = "write"
            /\ row' = MakeRow
            /\ prev' = Remember
            /\ first' = [first EXCEPT ![snap.owner] = IF @ = None THEN snap.utime ELSE @]
    /\ UNCHANGED <<kernelVars, clock, scans, now, snap, rows, lost>>

\* The row is written and kept, or the write raises and it is lost.
WriteRow ==
    /\ pc = "write"
    /\ \/ rows' = rows \cup {row} /\ lost' = lost
       \/ /\ rows' = rows
          /\ lost' = [lost EXCEPT ![row.owner] = @ + IF row.dutime = None THEN 0 ELSE row.dutime]
    /\ row' = NoRow
    /\ pc' = "idle"
    /\ UNCHANGED <<kernelVars, clock, scans, now, snap, samplerVars>>

Kernel == Fork \/ RunTask \/ ExitEvent \/ ExitNotify \/ Reap

Sampler ==
    \/ ScanBegin \/ ReadStat \/ ReadStatFails \/ ReadStatus \/ ReadStatusDenied
    \/ Update \/ WriteRow

Next == Kernel \/ Sampler

Spec == Init /\ [][Next]_vars

-----------------------------------------------------------------------------
(***************************************************************************)
(* check_lifecycle.                                                        *)
(***************************************************************************)

FirstRow == CHOOSE r \in rows : \A s \in rows : r.ts <= s.ts

\* The exits check_lifecycle calls exit_before_create.
Inverted == IF rows = {} THEN {} ELSE {e \in exits : e.ts < FirstRow.ts}

-----------------------------------------------------------------------------
(***************************************************************************)
(* Properties.                                                             *)
(***************************************************************************)

Reading == Counter \cup {None}

Snaps == [id : Gens \cup {None}, ts : Nat \cup {None}, utime : Reading, cs : Reading,
          owner : Gens \cup {None}, source : Gens \cup {None}, ended : BOOLEAN]

Rows == [id : Gens \cup {None}, ts : Nat \cup {None}, utime : Reading, cs : Reading,
         owner : Gens \cup {None}, source : Gens \cup {None}, ended : BOOLEAN,
         dutime : Reading, dcs : Reading]

\* Every variable has its type; a delta is missing or not negative.
TypeOK ==
    /\ gen \in 0 .. MaxGens /\ state \in {"none", "running", "exiting", "zombie"}
    /\ utime \in Counter /\ cs \in Counter
    /\ clock \in Nat /\ scans \in 0 .. MaxScans /\ now \in Nat
    /\ \A e \in exits : e.gen \in Gens /\ e.ts \in Nat
    /\ pc \in {"idle", "first", "second", "update", "write"}
    /\ snap \in Snaps /\ row \in Rows /\ rows \subseteq Rows
    /\ live \subseteq Gens /\ exited \subseteq Gens /\ misread \subseteq exited
    /\ DOMAIN prev \subseteq Gens /\ \A g \in DOMAIN prev : prev[g] \in Snaps
    /\ first \in [Gens -> Reading] /\ lost \in [Gens -> Nat]

\* What the rows say of a counter's growth adds up: between a task's first and
\* last sample every tick is in exactly one row, kept or lost in a failed write,
\* however often the id changed hands, a scan missed the task, could not read
\* it or raised.
GrowthCountedOnce ==
    pc = "idle" =>
        \A g \in DOMAIN prev :
            MapThenSumSet(LAMBDA r : r.dutime, {r \in rows : r.owner = g /\ r.dutime # None})
                + lost[g]
                = prev[g].utime - first[g]

\* registry.py: "PID reuse yields a different task_id, so old and new lifetimes
\* never merge": a task reported as exited is gone for good, and no later scan
\* finds it live, unless the very scan that reported it could not read the stat
\* of a task that was there.
ExitedAreGone ==
    /\ exited \cap live \subseteq misread
    /\ \A g \in exited \ misread : g < gen \/ state = "none"

\* A snapshot whose later files were read from the next owner of the id is the
\* last one of its task: the foreign counters are never the base of a delta.
TornIsLast ==
    \A r, s \in rows :
        r.owner = s.owner /\ r.source \notin {None, r.owner} => s.ts <= r.ts

\* check_lifecycle calls an exit before the first sample impossible and fails
\* the run.  It does so only where the id was reused before it was sampled, or
\* where stat was read after the exit event, of a task on its way out or of a
\* zombie: a task first sampled before its exit event never fails the run.
InversionNeedsReuseOrEnding ==
    \A e \in Inverted : e.gen # FirstRow.owner \/ FirstRow.ended

\* qa/checks.py, check_lifecycle: "an exit timestamped before the pid's first
\* task sample is an impossible lifecycle transition (critical)".
ExitAfterFirstSample == Inverted = {}
=============================================================================

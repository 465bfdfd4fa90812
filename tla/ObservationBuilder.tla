------------------------- MODULE ObservationBuilder -------------------------
(***************************************************************************)
(* m1.builder.sync.build_observations: one record per tick and task, made  *)
(* of the latest samples at or before the tick and of the scheduler events *)
(* in the window before it.  Live, the events carry the ids the generation *)
(* tracker gave them; replay reads the raw files, where they carry none.   *)
(***************************************************************************)
EXTENDS Integers, Sequences, FiniteSets, FiniteSetsExt

CONSTANTS
    Tids,      \* thread ids
    Starts,    \* starttimes: a task is a thread id and a starttime
    Tgids,     \* thread group ids: those of processes
    MaxTime,   \* bound of the timestamps
    MaxRows,   \* bound of the number of system samples
    Window,    \* observation_window_ms
    Step       \* sample_ms

\* The configured window (2500 ms) spans several steps (500 ms).
ASSUME StepAssumption == Step \in Nat \ {0}
ASSUME WindowAssumption == Window \in Nat /\ Window >= Step

\* 0 is no thread id.
ASSUME TidsAssumption == Tids \subseteq Nat \ {0}
ASSUME TimesAssumption == Starts \subseteq Nat /\ MaxTime \in Nat /\ MaxRows \in Nat

VARIABLES
    snaps,     \* task_rows: which task was sampled when
    tgid,      \* the thread group of each task, in all of its samples
    system,    \* sys_rows: the timestamps of the system samples, as stored
    context,   \* the controlled interval
    events,    \* sched_rows, each with the task it belongs to and with the
               \* task_id the tracker gave it, Unresolved if none
    workload,  \* the launch record of a workload: its pid and its nominal lifetime
    tick,      \* the next observation time, -1 before the first
    out        \* the observations built so far

inputs == <<snaps, tgid, system, context, events, workload>>
vars == <<inputs, tick, out>>

Times == 0 .. MaxTime
Task == [tid : Tids, start : Starts]
Unresolved == [tid |-> 0, start |-> 0]

\* The samples of a task follow its creation and precede the creation of the
\* next task with its id.
Snapshots ==
    {S \in SUBSET [task : Task, ts : Times] :
        /\ S # {}
        /\ \A s \in S : s.ts >= s.task.start
        /\ \A s, r \in S : s.task.tid = r.task.tid /\ s.task.start < r.task.start
                               => s.ts < r.task.start}

\* The tracker was fed the sampled tasks, and its answer is as
\* NoFutureAttribution of TaskAttribution says.  (An event never affects what
\* happens to another one: one event is enough.)
Events(sampled) ==
    {e \in [task : Task, ts : Times, id : sampled \cup {Unresolved}] :
        /\ e.task.start <= e.ts
        /\ e.id = Unresolved \/ (e.id.tid = e.task.tid /\ e.id.start <= e.task.start)}

InOrder(rows) == \A i, j \in DOMAIN rows : i < j => rows[i] <= rows[j]

\* A run appends its system samples as time goes by.  A raw file shared by two
\* runs interleaves theirs.
SystemRows ==
    {rows \in UNION {[1 .. n -> Times] : n \in 0 .. MaxRows} :
        \E mine \in SUBSET DOMAIN rows :
            \A i, j \in DOMAIN rows :
                i < j /\ (i \in mine <=> j \in mine) => rows[i] < rows[j]}

Intervals == {i \in [from : Times, to : Times] : i.from <= i.to}

Init ==
    /\ snaps \in Snapshots
    /\ tgid \in [Task -> Tgids]
    /\ system \in SystemRows
    /\ context \in {i \in Intervals : i.from <= 1}
    /\ events \in {{}} \cup {{e} : e \in Events({s.task : s \in snaps})}
    /\ ~InOrder(system) => \A e \in events : e.id = Unresolved    \* it is a replay
    /\ workload \in {w \in [pid : Tgids, from : Times, to : Times] : w.to = w.from + Step}
    /\ tick = -1
    /\ out = {}

-----------------------------------------------------------------------------
Observed == {s.task : s \in snaps}
T0 == Min({s.ts : s \in snaps})
T1 == Max({s.ts : s \in snaps})

\* The latest of the given times at or before t, -1 if none: what _latest_at finds
\* in the samples of a task, which are sorted.
Latest(times, t) ==
    LET past == {u \in times : u <= t} IN IF past = {} THEN -1 ELSE Max(past)

LastSample(task, t) == Latest({s.ts : s \in {r \in snaps : r.task = task}}, t)

\* Faulty variant of BisectRight: bisect_left.
BisectLeft(rows, t) ==
    LET end[lo \in 0 .. Len(rows), hi \in 0 .. Len(rows)] ==
            LET mid == (lo + hi) \div 2
            IN  IF lo >= hi THEN lo
                ELSE IF t <= rows[mid + 1] THEN end[lo, mid] ELSE end[mid + 1, hi]
    IN  end[0, Len(rows)]

\* bisect.bisect_right, on rows that nobody has sorted.
BisectRight(rows, t) ==
    LET end[lo \in 0 .. Len(rows), hi \in 0 .. Len(rows)] ==
            LET mid == (lo + hi) \div 2
            IN  IF lo >= hi THEN lo
                ELSE IF t < rows[mid + 1] THEN end[lo, mid] ELSE end[mid + 1, hi]
    IN  end[0, Len(rows)]

\* The system sample of a tick, -1 if none.
SystemAt(t) ==
    LET i == BisectRight(system, t) IN IF i = 0 THEN -1 ELSE system[i]

\* Faulty variant of InWindow: bisect_left at both ends.
InWindowHalfOpen(ts, t) == t - Window <= ts /\ ts < t

InWindow(ts, t) == t - Window <= ts /\ ts <= t

\* Faulty variant of EventsAt: an event without an id is left out.
EventsAtResolved(task, t, E) == {e \in E : InWindow(e.ts, t) /\ e.id = task}

\* The events of a record: those resolved to its task and, for its thread id,
\* those that carry no id.
EventsAt(task, t, E) ==
    {e \in E : /\ InWindow(e.ts, t)
               /\ e.id = task \/ (e.id = Unresolved /\ e.task.tid = task.tid)}

\* The launched process, a thread of it, or whoever has its id.
OfWorkload(task) == task.tid = workload.pid \/ tgid[task] = workload.pid

\* Faulty variant of Labelled: once it was launched.
LabelledForEver(task, t) == OfWorkload(task) /\ workload.from <= t

\* The label of a workload goes to these in its nominal lifetime.
Labelled(task, t) == OfWorkload(task) /\ workload.from <= t /\ t <= workload.to

\* A task is skipped, and counted, where one of the three is missing.
Complete(task, t) ==
    /\ LastSample(task, t) # -1
    /\ SystemAt(t) # -1
    /\ context.from <= t /\ t <= context.to

RecordsAt(t, E) ==
    {[tick |-> t, task |-> task, sample |-> LastSample(task, t),
      system |-> SystemAt(t), events |-> EventsAt(task, t, E),
      labelled |-> Labelled(task, t)] :
        task \in {k \in Observed : Complete(k, t)}}

\* The events as the raw file has them.
Raw == {[e EXCEPT !.id = Unresolved] : e \in events}

-----------------------------------------------------------------------------
Start ==
    /\ tick = -1
    /\ tick' = T0
    /\ UNCHANGED <<inputs, out>>

Build ==
    /\ tick # -1 /\ tick <= T1
    /\ out' = out \cup RecordsAt(tick, events)
    /\ tick' = tick + Step
    /\ UNCHANGED inputs

Done == tick > T1

Next == Start \/ Build

Spec == Init /\ [][Next]_vars

-----------------------------------------------------------------------------
(***************************************************************************)
(* Properties.                                                             *)
(***************************************************************************)

\* "latest sample with ts <= T (previous-sample policy)": the system sample of a
\* record is never later than its tick, in whatever order the rows are stored, and
\* in the order of time none between the two is passed over.
SystemRowIsCurrent ==
    \A r \in out :
        /\ r.system <= r.tick
        /\ InOrder(system) => \A i \in DOMAIN system : r.system < system[i] => system[i] > r.tick

\* No resolved event falls between two windows: when the loop is over, an
\* event is in a record of the task it was resolved to, if some tick at or
\* after it, in reach of the window, has a record of that task.
NoEventBetweenWindows ==
    Done => \A e \in events, r \in out :
        e.id = r.task /\ e.ts <= r.tick /\ r.tick < e.ts + Step
            => \E r2 \in out : r2.task = e.id /\ e \in r2.events

\* sync.py: "Unresolved events are counted, never attributed."
UnresolvedNeverAttributed ==
    \A r \in out : \A e \in r.events : e.id # Unresolved

\* Replay, which "regenerates processed observations from preserved raw data"
\* without the tracker, builds the records that were built live as long as no
\* thread id had two generations among the samples.
ReplayRegenerates ==
    (\A j, k \in Observed : j.tid = k.tid => j = k) =>
        \A r \in out :
            {[e EXCEPT !.id = Unresolved] : e \in r.events} = EventsAt(r.task, r.tick, Raw)

\* sync.py: "a later process that reuses a workload's pid must never inherit
\* its label": at least none that is created after the nominal end of the
\* workload does.
LabelEndsWithWorkload ==
    \A r \in out : r.labelled => r.task.start <= workload.to
=============================================================================

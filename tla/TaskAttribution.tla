-------------------------- MODULE TaskAttribution --------------------------
(***************************************************************************)
(* How a scheduler event gets its task_id.  The kernel creates and ends    *)
(* tasks, reuses their ids and stamps events with (tid, time) only.  The   *)
(* controller's loop scans /proc one entry at a time (TaskRegistry.scan),  *)
(* appends the rows to the raw file, then feeds the generation tracker     *)
(* with what it saw and with the exits the registry noticed.  After the    *)
(* loop the observation builder resolves every event against the tracker.  *)
(*                                                                         *)
(* Time is the CLOCK_MONOTONIC that the kernel probes and the controller   *)
(* share.  A starttime is the clock's value when the task was created.     *)
(***************************************************************************)
EXTENDS GenerationTracker, FiniteSets

CONSTANTS
    Tids,        \* thread ids the kernel hands out
    NoTask,      \* marks a thread id that nobody owns
    MaxTime,     \* bound of the clock
    MaxScans,    \* bound of the number of scans
    MaxEvents    \* bound of the number of scheduler events

ASSUME NoTaskAssumption == NoTask \notin [start : Nat, kind : {"process", "thread"}]

VARIABLES
    now,      \* the monotonic clock
    alive,    \* alive[t]: the task that owns t, or NoTask
    deaths,   \* history: the tasks that ended, each with its time of death
    events,   \* the events emitted, each with the generation it belongs to
    scans,    \* the number of scans begun
    phase,    \* where the controller's loop stands
    todo,     \* /proc entries the scan in progress has still to read
    rows,     \* snapshots of the scan in progress, in the order they were read
    live,     \* TaskRegistry.live: the tasks of the last complete scan
    exited,   \* the exits the last scan found and the tracker has not been told
    runs,     \* runs[t]: the tracker's runs of thread id t
    feedTs,   \* the one timestamp of the feed in progress
    began,    \* history: when the scan in progress began
    feeds,    \* history: the completed feeds and the scans they came from
    lost      \* history: exits whose scan was dropped before the feed

kernelVars == <<alive, deaths, events>>
scanVars   == <<scans, todo, rows, live, exited, began>>
feedVars   == <<runs, feedTs, feeds, lost>>
vars == <<now, alive, deaths, events, scans, phase, todo, rows, live, exited,
          runs, feedTs, began, feeds, lost>>

Phases == {"idle", "scan", "write", "feed", "stopped"}

Kinds  == {"process", "thread"}

Task == [tid : Tids, start : Nat]

Init ==
    /\ now = 0
    /\ alive = [t \in Tids |-> NoTask]
    /\ deaths = {}
    /\ events = {}
    /\ scans = 0
    /\ phase = "idle"
    /\ todo = {}
    /\ rows = <<>>
    /\ live = {}
    /\ exited = {}
    /\ runs = [t \in Tids |-> <<>>]
    /\ feedTs = 0
    /\ began = 0
    /\ feeds = {}
    /\ lost = {}

-----------------------------------------------------------------------------
(***************************************************************************)
(* The kernel.                                                             *)
(***************************************************************************)

Tick ==
    /\ phase # "stopped"
    /\ now < MaxTime
    /\ now' = now + 1
    /\ UNCHANGED <<kernelVars, phase, scanVars, feedVars>>

\* An id is handed out again only at a later instant than the one at which
\* its last owner died, so no two generations share a starttime.
Create(t, k) ==
    /\ phase # "stopped"
    /\ alive[t] = NoTask
    /\ \A d \in deaths : d.tid = t => d.at < now
    /\ alive' = [alive EXCEPT ![t] = [start |-> now, kind |-> k]]
    /\ UNCHANGED <<now, deaths, events, phase, scanVars, feedVars>>

Die(t) ==
    /\ phase # "stopped"
    /\ alive[t] # NoTask
    /\ deaths' = deaths \cup {[tid |-> t, start |-> alive[t].start, at |-> now]}
    /\ alive' = [alive EXCEPT ![t] = NoTask]
    /\ UNCHANGED <<now, events, phase, scanVars, feedVars>>

\* A tracepoint fires for t: the record carries t and the time, not the
\* generation, which the model keeps to say what the right answer is.
Emit(t) ==
    /\ phase # "stopped"
    /\ alive[t] # NoTask
    /\ Cardinality(events) < MaxEvents
    /\ events' = events \cup {[tid |-> t, ts |-> now, start |-> alive[t].start]}
    /\ UNCHANGED <<now, alive, deaths, phase, scanVars, feedVars>>

-----------------------------------------------------------------------------
(***************************************************************************)
(* TaskRegistry.scan and the controller's feed of the tracker.             *)
(***************************************************************************)

\* The process directories and, under them, the thread directories: an id
\* reused within one scan can turn up as both, so a scan may read it twice.
Entries == Tids \X Kinds

ScanBegin ==
    /\ phase = "idle"
    /\ scans < MaxScans
    /\ scans' = scans + 1
    /\ phase' = "scan"
    /\ todo' = Entries
    /\ rows' = <<>>
    /\ began' = now
    /\ UNCHANGED <<now, kernelVars, live, exited, feedVars>>

\* A task that is gone by the time its stat is read adds no row, nor does one
\* whose stat cannot be parsed: it looks as if it had ended.
ReadTask(t, k) ==
    /\ phase = "scan"
    /\ <<t, k>> \in todo
    /\ todo' = todo \ {<<t, k>>}
    /\ \/ rows' = rows
       \/ /\ alive[t] # NoTask /\ alive[t].kind = k
          /\ rows' = Append(rows, [tid |-> t, start |-> alive[t].start])
    /\ UNCHANGED <<now, kernelVars, scans, phase, live, exited, began, feedVars>>

Seen == {rows[i] : i \in DOMAIN rows}

\* Faulty variant of ScanEnd: the exits are computed after `live` is replaced.
ScanEndWithoutExits ==
    /\ phase = "scan"
    /\ todo = {}
    /\ exited' = {}
    /\ live' = Seen
    /\ phase' = "write"
    /\ UNCHANGED <<now, kernelVars, scans, todo, rows, began, feedVars>>

ScanEnd ==
    /\ phase = "scan"
    /\ todo = {}
    /\ exited' = live \ Seen
    /\ live' = Seen
    /\ phase' = "write"
    /\ UNCHANGED <<now, kernelVars, scans, todo, rows, began, feedVars>>

\* PermissionError and the like escape the scan before it touches `live`.
ScanRaises ==
    /\ phase = "scan"
    /\ phase' = "idle"
    /\ todo' = {}
    /\ rows' = <<>>
    /\ began' = 0
    /\ UNCHANGED <<now, kernelVars, scans, live, exited, feedVars>>

\* Faulty variants of WriteRows: the feed is stamped with the time the scan
\* began, the timestamp the snapshots carry, or with the next deadline.
WriteRowsAtScanTime ==
    /\ phase = "write"
    /\ phase' = "feed"
    /\ feedTs' = began
    /\ UNCHANGED <<now, kernelVars, scanVars, runs, feeds, lost>>

WriteRowsAtDeadline ==
    /\ phase = "write"
    /\ phase' = "feed"
    /\ feedTs' = now + 1
    /\ UNCHANGED <<now, kernelVars, scanVars, runs, feeds, lost>>

WriteRows ==
    /\ phase = "write"
    /\ phase' = "feed"
    /\ feedTs' = now
    /\ UNCHANGED <<now, kernelVars, scanVars, runs, feeds, lost>>

\* The append to tasks.jsonl raises: the loop counts the error and goes on.
\* The registry has already forgotten the exited tasks, and the next scan
\* overwrites the list of exits, so the tracker is never told.
WriteRaises ==
    /\ phase = "write"
    /\ phase' = "idle"
    /\ lost' = lost \cup exited
    /\ exited' = {}
    /\ rows' = <<>>
    /\ began' = 0
    /\ UNCHANGED <<now, kernelVars, scans, todo, live, runs, feedTs, feeds>>

ObserveRow ==
    /\ phase = "feed"
    /\ rows # <<>>
    /\ LET r == Head(rows)
       IN  runs' = [runs EXCEPT ![r.tid] = Observe(runs[r.tid], r.start, feedTs)]
    /\ rows' = Tail(rows)
    /\ UNCHANGED <<now, kernelVars, scans, phase, todo, live, exited, began, feedTs, feeds, lost>>

\* The rows come first, the exits after them.
CloseExited(e) ==
    /\ phase = "feed"
    /\ rows = <<>>
    /\ e \in exited
    /\ runs' = [runs EXCEPT ![e.tid] = CloseLast(runs[e.tid], feedTs)]
    /\ exited' = exited \ {e}
    /\ UNCHANGED <<now, kernelVars, scans, phase, todo, rows, live, began, feedTs, feeds, lost>>

FeedEnd ==
    /\ phase = "feed"
    /\ rows = <<>>
    /\ exited = {}
    /\ phase' = "idle"
    /\ feeds' = feeds \cup {[began |-> began, at |-> feedTs]}
    /\ began' = 0
    /\ UNCHANGED <<now, kernelVars, scans, todo, rows, live, exited, runs, feedTs, lost>>

\* The duration is over (or ten scans in a row failed): the tracker is final.
Stop ==
    /\ phase = "idle"
    /\ phase' = "stopped"
    /\ UNCHANGED <<now, kernelVars, scanVars, feedVars>>

Next ==
    \/ Tick
    \/ \E t \in Tids : Die(t) \/ Emit(t)
    \/ \E t \in Tids, k \in Kinds : Create(t, k) \/ ReadTask(t, k)
    \/ ScanBegin \/ ScanEnd \/ ScanRaises
    \/ WriteRows \/ WriteRaises
    \/ ObserveRow \/ FeedEnd
    \/ \E e \in exited : CloseExited(e)
    \/ Stop

Spec == Init /\ [][Next]_vars

-----------------------------------------------------------------------------
(***************************************************************************)
(* Properties.                                                             *)
(***************************************************************************)

\* The task_id build_observations writes into an event.
Attributed(ev) == Resolve(runs[ev.tid], ev.ts)

\* Every variable of the kernel, the scan and the feed has its type; no
\* timestamp lies ahead of the clock they all share.
TypeOK ==
    /\ now \in Nat
    /\ alive \in [Tids -> [start : Nat, kind : Kinds] \cup {NoTask}]
    /\ deaths \subseteq [tid : Tids, start : Nat, at : Nat]
    /\ events \subseteq [tid : Tids, ts : Nat, start : Nat]
    /\ scans \in Nat
    /\ phase \in Phases
    /\ todo \subseteq Entries
    /\ rows \in Seq(Task)
    /\ live \subseteq Task
    /\ exited \subseteq Task
    /\ runs \in [Tids -> Seq(Run)]
    /\ feedTs \in Nat
    /\ began \in Nat
    /\ feeds \subseteq [began : Nat, at : Nat]
    /\ lost \subseteq Task
    /\ feedTs <= now /\ began <= now

\* The runs of an id are in time order, do not overlap and only the last one
\* may be open: whatever the scans saw, an event has at most one owner
\* (GenerationTracker.observe, close).
RunsOrdered == \A t \in Tids : Ordered(runs[t])

\* "Old events must never be attributed to a reused PID's new task": an event
\* goes to its own generation, to an earlier one, or to none, whichever way
\* scans, exits, reuse and failed writes interleave.
NoFutureAttribution ==
    \A ev \in events : Attributed(ev) # Unresolved => Attributed(ev) <= ev.start

\* An event goes to a generation that is already dead only while the loop
\* cannot know: not once a scan begun after the death has been fed to the
\* tracker, unless the exit was lost with a failed write.
StaleWindow ==
    \A ev \in events : Attributed(ev) \notin {Unresolved, ev.start} =>
        \A d \in deaths, f \in feeds :
            /\ d.tid = ev.tid /\ d.start = Attributed(ev)
            /\ d.at < f.began /\ f.at <= ev.ts
            => [tid |-> d.tid, start |-> d.start] \in lost

\* A task the scan saw owns the open run of its id when the feed is over, as
\* soon as one feed separates it from the death of the id's earlier owners:
\* the hole that reuse leaves lasts for one feed.
HoleEndsNextFeed ==
    phase = "feed" /\ rows = <<>> /\ exited = {} =>
        \A s \in live :
            \/ \E s2 \in live : s2.tid = s.tid /\ s2.start > s.start
            \/ \E d \in deaths : /\ d.tid = s.tid /\ d.start < s.start
                                 /\ \A f \in feeds : f.began <= d.at
            \/ LastIsOpen(runs[s.tid]) /\ runs[s.tid][Len(runs[s.tid])].task = s.start

\* A feed never changes who owned the time before its own timestamp, so
\* resolving after the loop gives the answer that resolving when the event
\* was polled would have given, for all that was known.
HistoryStable ==
    [][\A t \in Tids : \A ts \in 0 .. now : ts < feedTs =>
            Resolve(runs'[t], ts) = Resolve(runs[t], ts)]_vars

\* correlate.py: "the generation whose [first_seen, exit) interval contains
\* the event timestamp wins": an event that a generation emits after the
\* tracker was told about it goes to that generation, at least when it never
\* exits.
SeenGenerationWins ==
    phase = "stopped" => \A ev \in events :
        /\ alive[ev.tid] # NoTask /\ alive[ev.tid].start = ev.start
        /\ \E i \in DOMAIN runs[ev.tid] :
              runs[ev.tid][i].task = ev.start /\ runs[ev.tid][i].start <= ev.ts
        => Attributed(ev) = ev.start
=============================================================================

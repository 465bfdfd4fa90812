------------------------ MODULE ExperimentController ------------------------
(***************************************************************************)
(* One run of m1.experiment.controller: resolve the scheduler backend,     *)
(* freeze the configuration, launch the workloads, start the scheduler     *)
(* collector or its fallback, sample four streams until the time is over   *)
(* or a breaker trips, stop everything, build, judge and record.           *)
(*                                                                         *)
(* Anything that can raise may raise, Ctrl-C may arrive between any two    *)
(* steps, and the process may be killed: then it takes no further step,    *)
(* and what it leaves behind is what the state says is on disk.  A stream  *)
(* counts batches: taken (kept in memory, what QA judges), written (in the *)
(* file object or in the file) and saved (in the file).                    *)
(***************************************************************************)
EXTENDS QaVerdict, FiniteSets

CONSTANTS
    Workloads,    \* the workloads of the scenario
    Duration,     \* length of the run, in sampling periods
    TaskBreaker,  \* consecutive task errors that end the loop (10 in the code)
    SysBreaker,   \* consecutive system errors that end the loop (10)
    PsiBreaker    \* consecutive PSI errors that are recorded (5)

ASSUME WorkloadsAssumption == IsFiniteSet(Workloads)
ASSUME DurationAssumption == Duration \in Nat
ASSUME BreakersAssumption ==
    TaskBreaker \in Nat \ {0} /\ SysBreaker \in Nat \ {0} /\ PsiBreaker \in Nat \ {0}

VARIABLES
    pc,         \* the next step of run()
    raising,    \* an exception is on its way through the finally block
    requested,  \* config.scheduler_backend after --no-bpf
    backend,    \* the local variable
    meta,       \* the backend in the ExperimentMetadata object
    frozen,     \* the backend in collector_config.json
    status,     \* status in experiment.json, "absent" before the file exists
    sched,      \* the collector object in use: its backend, or "none"
    waiting,    \* workloads not launched yet
    running,    \* workload processes alive
    launched,   \* runner.launched
    recorded,   \* the launch records in workloads.jsonl
    waited,     \* workloads stop_all() has waited for
    sigkilled,  \* workloads that were sent SIGKILL
    tick,       \* sampling periods gone by
    begun,      \* iterations of the loop begun
    taken, written, saved,
    spoiled,    \* history: streams of which a write raised with kept rows pending
    observable, \* a task sample was taken after a system sample
    errs,       \* consecutive errors of the task, system and PSI samplers
    failures,   \* components with a critical failure recorded
    counters,   \* what the statistics of the collector in use report
    seen,       \* history: what any collector of the run reported
    died,       \* history: components that failed or stopped working early
    qa,         \* the verdict in qa_report.json, "absent" before it exists
    summary     \* the verdict in summary.json, "absent" before it exists

configVars  == <<requested, backend, meta, frozen>>
stopVars    == <<waited, sigkilled>>
workVars    == <<waiting, running, launched, recorded, stopVars>>
fileVars    == <<written, saved, spoiled>>
streamVars  == <<taken, fileVars, observable>>
schedVars   == <<sched, counters, seen>>
resultVars  == <<status, qa, summary>>
loopVars    == <<tick, begun, errs>>
failVars    == <<failures, died>>
vars == <<pc, raising, configVars, workVars, streamVars, schedVars, resultVars,
          loopVars, failVars>>

LoopPcs   == {"loop", "task", "system", "psi", "poll", "sleep"}
Finally   == {"stopWorkloads", "stopSched", "writeOut"}
Ended     == {"done", "raised", "aborted", "hung"}
Pcs       == {"setup", "launch", "record", "collectors", "fallback", "judge",
              "summarise", "finish"} \cup LoopPcs \cup Finally \cup Ended

Samplers == {"task", "system", "psi"}
Breaker == [task |-> TaskBreaker, system |-> SysBreaker, psi |-> PsiBreaker]
Quiet == [c \in {"dropped", "errors"} |-> FALSE]

Init ==
    /\ pc = "setup"
    /\ raising = FALSE
    /\ requested \in {"auto", "ebpf", "no-bpf", "tracefs"}
    /\ backend = "none" /\ meta = "none" /\ frozen = "absent"
    /\ status = "absent" /\ qa = "absent" /\ summary = "absent"
    /\ sched = "none" /\ counters = Quiet /\ seen = Quiet
    /\ waiting = Workloads /\ running = {} /\ launched = {} /\ recorded = {}
    /\ waited = {} /\ sigkilled = {}
    /\ tick = 0 /\ begun = 0
    /\ taken = [s \in Streams |-> 0]
    /\ written = [s \in Streams |-> 0]
    /\ saved = [s \in Streams |-> 0]
    /\ spoiled = {}
    /\ observable = FALSE
    /\ errs = [s \in Samplers |-> 0]
    /\ failures = {} /\ died = {}

-----------------------------------------------------------------------------
(***************************************************************************)
(* Before the loop.                                                        *)
(***************************************************************************)

\* A request that is not auto, ebpf or no-bpf resolves to the fallback.
Resolved ==
    CASE requested = "no-bpf" -> "none"
      [] requested \in {"auto", "ebpf"} -> "ebpf"
      [] OTHER -> "tracefs_fallback"

\* The backend is resolved before it is tried, and frozen as resolved.
Setup ==
    /\ pc = "setup"
    /\ backend' = Resolved /\ meta' = Resolved /\ frozen' = Resolved
    /\ status' = "RUNNING"
    /\ pc' = "launch"
    /\ UNCHANGED <<raising, requested, workVars, streamVars, schedVars, qa, summary, loopVars, failVars>>

Launch ==
    /\ pc = "launch"
    /\ \E w \in waiting :
        /\ waiting' = waiting \ {w}
        /\ running' = running \cup {w}
        /\ launched' = launched \cup {w}
    /\ UNCHANGED <<pc, raising, configVars, recorded, stopVars, streamVars, schedVars, resultVars, loopVars, failVars>>

\* Faulty variant of LaunchFails: the records are written inside the try block.
LaunchFailsUnrecorded ==
    /\ pc = "launch" /\ waiting # {}
    /\ failures' = failures \cup {"workload"} /\ died' = died \cup {"workload"}
    /\ pc' = "collectors"
    /\ UNCHANGED <<raising, configVars, workVars, streamVars, schedVars, resultVars, loopVars>>

\* A launch that raises gives up the ones behind it.
LaunchFails ==
    /\ pc = "launch" /\ waiting # {}
    /\ failures' = failures \cup {"workload"} /\ died' = died \cup {"workload"}
    /\ pc' = "record"
    /\ UNCHANGED <<raising, configVars, workVars, streamVars, schedVars, resultVars, loopVars>>

Launched ==
    /\ pc = "launch" /\ waiting = {}
    /\ pc' = "record"
    /\ UNCHANGED <<raising, configVars, workVars, streamVars, schedVars, resultVars, loopVars, failVars>>

Record ==
    /\ pc = "record"
    /\ recorded' = launched
    /\ pc' = "collectors"
    /\ UNCHANGED <<raising, configVars, waiting, running, launched, stopVars, streamVars, schedVars,
                   resultVars, loopVars, failVars>>

\* Without eBPF no collector is started, not even the fallback.
NoCollector ==
    /\ pc = "collectors" /\ backend # "ebpf"
    /\ pc' = "loop"
    /\ UNCHANGED <<raising, configVars, workVars, streamVars, schedVars, resultVars, loopVars, failVars>>

\* The collector starts; probes other than the required ones are a critical
\* failure, and the run goes on with them.
StartCollector ==
    /\ pc = "collectors" /\ backend = "ebpf"
    /\ sched' = "ebpf"
    /\ \E complete \in BOOLEAN :
        failures' = IF complete THEN failures ELSE failures \cup {"sched"}
    /\ pc' = "loop"
    /\ UNCHANGED <<raising, configVars, workVars, streamVars, counters, seen, resultVars, loopVars, died>>

\* Faulty variant of StartCollectorFails: the fallback makes up for the failure.
StartCollectorFailsOver ==
    /\ pc = "collectors" /\ backend = "ebpf"
    /\ died' = died
    /\ IF requested = "auto"
       THEN pc' = "fallback" /\ UNCHANGED <<backend, meta, failures>>
       ELSE pc' = "loop" /\ backend' = "none" /\ meta' = "none" /\ failures' = failures \cup {"sched"}
    /\ UNCHANGED <<raising, requested, frozen, workVars, streamVars, schedVars, resultVars, loopVars>>

\* It does not start: a critical failure, and the fallback when it is allowed.
StartCollectorFails ==
    /\ pc = "collectors" /\ backend = "ebpf"
    /\ failures' = failures \cup {"sched"} /\ died' = died \cup {"sched"}
    /\ IF requested = "auto"
       THEN pc' = "fallback" /\ UNCHANGED <<backend, meta>>
       ELSE pc' = "loop" /\ backend' = "none" /\ meta' = "none"
    /\ UNCHANGED <<raising, requested, frozen, workVars, streamVars, schedVars, resultVars, loopVars>>

\* The fallback starts, or is unavailable or raises and leaves no backend.
StartFallback ==
    /\ pc = "fallback"
    /\ \E b \in {"tracefs_fallback", "none"} : backend' = b /\ meta' = b /\ sched' = b
    /\ pc' = "loop"
    /\ UNCHANGED <<raising, requested, frozen, workVars, streamVars, counters, seen, resultVars,
                   loopVars, failVars>>

-----------------------------------------------------------------------------
(***************************************************************************)
(* The loop.                                                               *)
(***************************************************************************)

LoopTest ==
    /\ pc = "loop"
    /\ IF tick < Duration THEN pc' = "task" /\ begun' = begun + 1
       ELSE pc' = "stopWorkloads" /\ begun' = begun
    /\ UNCHANGED <<raising, configVars, workVars, streamVars, schedVars, resultVars, tick, errs, failVars>>

\* A workload ends by itself.
WorkloadEnds ==
    /\ pc \notin Ended
    /\ \E w \in running : running' = running \ {w}
    /\ UNCHANGED <<pc, raising, configVars, waiting, launched, recorded, stopVars, streamVars, schedVars,
                   resultVars, loopVars, failVars>>

\* Scan, write, flush, keep, feed the tracker.
TaskSample ==
    /\ pc = "task"
    /\ written' = [written EXCEPT !["task"] = @ + 1]
    /\ saved' = [saved EXCEPT !["task"] = written["task"] + 1]
    /\ taken' = [taken EXCEPT !["task"] = @ + 1]
    /\ observable' = (observable \/ taken["system"] > 0)
    /\ errs' = [errs EXCEPT !["task"] = 0]
    /\ pc' = "system"
    /\ UNCHANGED <<raising, configVars, workVars, spoiled, schedVars, resultVars, tick, begun, failVars>>

Breaks(s) == errs[s] + 1 >= Breaker[s]

\* An error of a sampler whose breaker ends the loop.
CountError(s, next) ==
    /\ errs' = [errs EXCEPT ![s] = @ + 1]
    /\ pc' = IF Breaks(s) THEN "stopWorkloads" ELSE next
    /\ failures' = IF Breaks(s) THEN failures \cup {s} ELSE failures
    /\ died' = IF Breaks(s) THEN died \cup {s} ELSE died

\* Faulty variant of TaskFails: keeps the batch before writing it.
TaskFailsKept ==
    /\ pc = "task"
    /\ taken' = [taken EXCEPT !["task"] = @ + 1]
    /\ CountError("task", "system")
    /\ UNCHANGED <<raising, configVars, workVars, fileVars, observable, schedVars,
                   resultVars, tick, begun>>

\* The scan raises, or the write does: part of the batch may stay in the file
\* object, and what another failed batch left there may be thrown away.  The
\* batches kept so far have been flushed.
TaskFails ==
    /\ pc = "task"
    /\ \E n \in saved["task"] .. written["task"] + 1 : written' = [written EXCEPT !["task"] = n]
    /\ CountError("task", "system")
    /\ UNCHANGED <<raising, configVars, workVars, taken, saved, spoiled, observable, schedVars,
                   resultVars, tick, begun>>

\* A row is written without a flush and kept; the file object first spills what
\* it holds when the row does not fit.
WriteRow(s) ==
    /\ written' = [written EXCEPT ![s] = @ + 1]
    /\ saved' \in {saved, [saved EXCEPT ![s] = written[s]]}
    /\ taken' = [taken EXCEPT ![s] = @ + 1]
    /\ spoiled' = spoiled

\* Taking the sample raises and nothing is written, or a spill does: the row is
\* not kept, and the file object throws away what it holds, rows kept earlier
\* included.
WriteRowFails(s) ==
    /\ \/ UNCHANGED <<written, spoiled>>
       \/ /\ saved[s] < written[s]
          /\ written' = [written EXCEPT ![s] = saved[s]]
          /\ spoiled' = spoiled \cup {s}
    /\ UNCHANGED <<taken, saved>>

SystemSample ==
    /\ pc = "system"
    /\ WriteRow("system")
    /\ errs' = [errs EXCEPT !["system"] = 0]
    /\ pc' = "psi"
    /\ UNCHANGED <<raising, configVars, workVars, observable, schedVars, resultVars, tick, begun, failVars>>

SystemFails ==
    /\ pc = "system"
    /\ WriteRowFails("system")
    /\ CountError("system", "psi")
    /\ UNCHANGED <<raising, configVars, workVars, observable, schedVars, resultVars, tick, begun>>

PsiSample ==
    /\ pc = "psi"
    /\ WriteRow("psi")
    /\ errs' = [errs EXCEPT !["psi"] = 0]
    /\ pc' = "poll"
    /\ UNCHANGED <<raising, configVars, workVars, observable, schedVars, resultVars, tick, begun, failVars>>

\* PSI failures are recorded as non-critical and never end the loop.  (The
\* counter is capped at the breaker: beyond it nothing changes.)
PsiFails ==
    /\ pc = "psi"
    /\ WriteRowFails("psi")
    /\ errs' = [errs EXCEPT !["psi"] = IF Breaks("psi") THEN PsiBreaker ELSE @ + 1]
    /\ pc' = "poll"
    /\ UNCHANGED <<raising, configVars, workVars, observable, schedVars, resultVars, tick, begun, failVars>>

\* The cadence of the PSI stream skips this iteration, or nothing is polled.
PsiSkipped ==
    /\ pc = "psi" /\ begun > 1
    /\ pc' = "poll"
    /\ UNCHANGED <<raising, configVars, workVars, streamVars, schedVars, resultVars, loopVars, failVars>>

NoPoll ==
    /\ pc = "poll" /\ sched = "none"
    /\ pc' = "sleep"
    /\ UNCHANGED <<raising, configVars, workVars, streamVars, schedVars, resultVars, loopVars, failVars>>

\* The events come to memory only; the collector's counters may go up.  The
\* tracefs fallback reports no drops.
Poll ==
    /\ pc = "poll" /\ sched # "none"
    /\ \E n \in {0, 1} : taken' = [taken EXCEPT !["sched"] = @ + n]
    /\ \E c \in DOMAIN Quiet \cup {"none"} :
        /\ c = "dropped" => sched = "ebpf"
        /\ counters' = [d \in DOMAIN Quiet |-> counters[d] \/ d = c]
        /\ seen' = [d \in DOMAIN Quiet |-> seen[d] \/ d = c]
    /\ pc' = "sleep"
    /\ UNCHANGED <<raising, configVars, workVars, fileVars, observable, sched, resultVars,
                   loopVars, failVars>>

\* Faulty variant of PollFails: the collector is dropped without a record.
PollFailsSilently ==
    /\ pc = "poll" /\ sched = "ebpf"
    /\ died' = died \cup {"sched"}
    /\ sched' = "none" /\ counters' = Quiet
    /\ pc' = "sleep"
    /\ UNCHANGED <<raising, configVars, workVars, streamVars, seen, resultVars, loopVars, failures>>

\* A failing poll is critical; the collector is stopped and forgotten, and its
\* counters with it.  The fallback's poll only copies a list: it cannot fail.
PollFails ==
    /\ pc = "poll" /\ sched = "ebpf"
    /\ failures' = failures \cup {"sched"} /\ died' = died \cup {"sched"}
    /\ sched' = "none" /\ counters' = Quiet
    /\ pc' = "sleep"
    /\ UNCHANGED <<raising, configVars, workVars, streamVars, seen, resultVars, loopVars>>

\* An overrun falls through: one iteration may take several periods.  (Beyond the
\* end of the run it makes no difference.)
Sleep ==
    /\ pc = "sleep"
    /\ \E n \in 1 .. 2 : (n > 1 => tick + n <= Duration) /\ tick' = tick + n
    /\ pc' = "loop"
    /\ UNCHANGED <<raising, configVars, workVars, streamVars, schedVars, resultVars, begun, errs, failVars>>

-----------------------------------------------------------------------------
(***************************************************************************)
(* The finally block.                                                      *)
(***************************************************************************)

\* Faulty variant of WaitWorkload: the collector is stopped first.
StopSchedFirst ==
    /\ pc = "stopWorkloads" /\ waited # launched
    /\ waited' = launched /\ sigkilled' = sigkilled
    /\ IF sched = "tracefs_fallback" THEN pc' \in {"hung", "stopSched"} ELSE pc' = "stopSched"
    /\ UNCHANGED <<raising, configVars, waiting, running, launched, recorded, streamVars,
                   schedVars, resultVars, loopVars, failVars>>

\* Faulty variant of WaitWorkload: the first that does not end has all of them killed.
WaitKillsAll ==
    /\ pc = "stopWorkloads"
    /\ \E w \in launched \ waited : waited' = waited \cup {w}
    /\ sigkilled' = sigkilled \cup running
    /\ UNCHANGED <<pc, raising, configVars, waiting, running, launched, recorded, streamVars,
                   schedVars, resultVars, loopVars, failVars>>

\* Every workload is sent SIGTERM, which it may ignore, and then each is waited
\* for: it ends (WorkloadEnds), or ten seconds pass and it is killed.
WaitWorkload ==
    /\ pc = "stopWorkloads"
    /\ \E w \in launched \ waited :
        /\ waited' = waited \cup {w}
        /\ sigkilled' = sigkilled \cup (running \cap {w})
    /\ UNCHANGED <<pc, raising, configVars, waiting, running, launched, recorded, streamVars,
                   schedVars, resultVars, loopVars, failVars>>

\* What is still there is killed again, waited for and given up in silence (a
\* process in uninterruptible sleep does not die).
CheckWorkloads ==
    /\ pc = "stopWorkloads" /\ waited = launched
    /\ sigkilled' = sigkilled \cup running
    /\ pc' = "stopSched"
    /\ UNCHANGED <<raising, configVars, waiting, running, launched, recorded, waited, streamVars,
                   schedVars, resultVars, loopVars, failVars>>

\* The fallback's stop() may never return (TracefsFallback says when).
StopSched ==
    /\ pc = "stopSched"
    /\ \/ pc' = "writeOut"
       \/ sched = "tracefs_fallback" /\ pc' = "hung"
    /\ UNCHANGED <<raising, configVars, workVars, streamVars, schedVars, resultVars, loopVars, failVars>>

\* The context and the scheduler events are written, the files closed.
WriteOut ==
    /\ pc = "writeOut"
    /\ written' = [written EXCEPT !["sched"] = taken["sched"]]
    /\ saved' = [written EXCEPT !["sched"] = taken["sched"]]
    /\ pc' = IF raising THEN "raised" ELSE "judge"
    /\ UNCHANGED <<raising, configVars, workVars, taken, spoiled, observable, schedVars, resultVars,
                   loopVars, failVars>>

-----------------------------------------------------------------------------
(***************************************************************************)
(* After the loop.  Building the observations changes no state but theirs; *)
(* that it may raise is in Escape.                                         *)
(***************************************************************************)

\* What QA is given.  The run has one context event; the builder makes
\* observations only where a system sample precedes a task sample; the other
\* facts about the rows are free.
QaFacts ==
    {[failed     |-> failures # {},
      backend    |-> backend,
      empty      |-> {s \in Streams : taken[s] = 0},
      observations |-> g.observations,
      context    |-> TRUE,
      dropped    |-> counters["dropped"],
      errors     |-> counters["errors"],
      unresolved |-> IF taken["sched"] = 0 THEN "none" ELSE g.unresolved,
      malformed  |-> g.malformed /\ taken["sched"] > 0,
      exits      |-> IF taken["sched"] = 0 THEN "seen" ELSE g.exits,
      intervals  |-> IF begun < 2 THEN "none" ELSE g.intervals,
      sound      |-> g.sound] :
        g \in [observations : IF observable THEN {"none", "one", "blank", "several"} ELSE {"none"},
               unresolved : {"none", "few", "many"}, malformed : BOOLEAN,
               exits : {"seen", "orphaned", "inverted"}, intervals : {"kept", "missed"},
               sound : BOOLEAN]}

\* Faulty variant of Judge: the status is final before the summary exists.
JudgeAndFinish ==
    /\ pc = "judge"
    /\ \E f \in QaFacts : qa' = RunAll(f) /\ status' = RunAll(f)
    /\ pc' = "summarise"
    /\ UNCHANGED <<raising, configVars, workVars, streamVars, schedVars, summary, loopVars, failVars>>

Judge ==
    /\ pc = "judge"
    /\ qa' \in {RunAll(f) : f \in QaFacts}
    /\ pc' = "summarise"
    /\ UNCHANGED <<raising, configVars, workVars, streamVars, schedVars, status, summary, loopVars, failVars>>

Summarise ==
    /\ pc = "summarise"
    /\ summary' = qa
    /\ pc' = "finish"
    /\ UNCHANGED <<raising, configVars, workVars, streamVars, schedVars, status, qa, loopVars, failVars>>

Finish ==
    /\ pc = "finish"
    /\ status' = qa
    /\ meta' = backend
    /\ pc' = "done"
    /\ UNCHANGED <<raising, requested, backend, frozen, workVars, streamVars, schedVars, qa, summary,
                   loopVars, failVars>>

-----------------------------------------------------------------------------
(***************************************************************************)
(* Interruptions.                                                          *)
(***************************************************************************)

\* An exception nobody catches (a file that cannot be written, a row that does
\* not validate) or a KeyboardInterrupt.  Inside the loop every exception but
\* the latter is caught; the finally block runs, and then run() is over.
\* Elsewhere, the finally block included, the interpreter exits at once, which
\* closes the files and saves what they hold, or fails to.
Escape ==
    /\ pc \notin Ended
    /\ IF pc \in LoopPcs
       THEN pc' = "stopWorkloads" /\ raising' = TRUE /\ saved' = saved
       ELSE /\ pc' = "aborted" /\ raising' = raising
            /\ saved' \in {saved, written}
    /\ UNCHANGED <<configVars, workVars, taken, written, spoiled, observable, schedVars, resultVars,
                   loopVars, failVars>>

Run ==
    \/ Setup \/ Launch \/ LaunchFails \/ Launched \/ Record
    \/ NoCollector \/ StartCollector \/ StartCollectorFails \/ StartFallback
    \/ LoopTest \/ TaskSample \/ TaskFails \/ SystemSample \/ SystemFails
    \/ PsiSample \/ PsiFails \/ PsiSkipped \/ NoPoll \/ Poll \/ PollFails \/ Sleep
    \/ WaitWorkload \/ CheckWorkloads \/ StopSched \/ WriteOut
    \/ Judge \/ Summarise \/ Finish

Next == Run \/ WorkloadEnds \/ Escape

Spec == Init /\ [][Next]_vars

-----------------------------------------------------------------------------
(***************************************************************************)
(* Properties.                                                             *)
(***************************************************************************)

Backends == {"ebpf", "tracefs_fallback", "none"}
Verdicts == {"PASS", "QUARANTINE", "FAIL"}
Flags == [DOMAIN Quiet -> BOOLEAN]

\* Every variable has its type; a sampler's consecutive errors never exceed
\* its breaker.
TypeOK ==
    /\ pc \in Pcs /\ raising \in BOOLEAN
    /\ requested \in {"auto", "ebpf", "no-bpf", "tracefs"}
    /\ backend \in Backends /\ meta \in Backends /\ frozen \in Backends \cup {"absent"}
    /\ status \in Verdicts \cup {"RUNNING", "absent"}
    /\ qa \in Verdicts \cup {"absent"} /\ summary \in Verdicts \cup {"absent"}
    /\ sched \in Backends /\ counters \in Flags /\ seen \in Flags
    /\ waiting \subseteq Workloads /\ running \subseteq Workloads
    /\ launched \subseteq Workloads /\ recorded \subseteq Workloads
    /\ waited \subseteq launched /\ sigkilled \subseteq waited
    /\ tick \in Nat /\ begun \in Nat
    /\ taken \in [Streams -> Nat] /\ written \in [Streams -> Nat] /\ saved \in [Streams -> Nat]
    /\ spoiled \subseteq {"system", "psi"}
    /\ observable \in BOOLEAN
    /\ errs \in [Samplers -> Nat] /\ \A s \in Samplers : errs[s] <= Breaker[s]
    /\ failures \subseteq {"workload", "sched", "task", "system"}
    /\ died \subseteq {"workload", "sched", "task", "system"}

\* controller.py: a critical collector failure "forces the final verdict to
\* FAIL or QUARANTINE -- never silent PASS": a component that died at any
\* moment of the run, however much it delivered before, keeps the verdict
\* from PASS.
NoSilentPass == qa = "PASS" => died = {}

\* A PASS stands for authoritative data: from eBPF, with task, system and
\* scheduler rows, and without a drop or an error reported by any collector
\* of the run, including one that was thrown away.
PassIsAuthoritative ==
    qa = "PASS" =>
        /\ backend = "ebpf" /\ sched = "ebpf" /\ requested \in {"auto", "ebpf"}
        /\ taken["task"] > 0 /\ taken["system"] > 0 /\ taken["sched"] > 0
        /\ ~seen["dropped"] /\ ~seen["errors"]

\* The rows that were judged, or kept by a run that one Ctrl-C ended, are in the
\* raw files, of a stream that had no write that raised with rows in the file
\* object: those, kept and never flushed, are gone, and the run goes on.  A task
\* batch, which is flushed, is there as soon as it is kept: neither a write that
\* raises later nor a crash loses it; nor can a write that raises lose scheduler
\* events, which are written when the loop is over and end the run if they cannot.
JudgedRowsAreOnDisk ==
    /\ pc \in {"judge", "summarise", "finish", "done", "raised"} =>
           \A s \in Streams \ spoiled : taken[s] <= saved[s]
    /\ spoiled \subseteq {"system", "psi"}
    /\ taken["task"] <= saved["task"]

\* From the first sample on, the launch record of every workload that runs is
\* in the raw file, also when a later launch failed: only recorded workloads
\* can label observations.
RunningAreRecorded ==
    pc \in LoopPcs \cup Finally => running \subseteq recorded

\* stop_all(): no workload outlives a run that ends, is ended by one Ctrl-C, or
\* hangs in the stop of the fallback, without having been sent SIGKILL: the
\* workloads are stopped before the collector, in every way out of the loop.
SurvivorsWereKilled == pc \in {"done", "raised", "hung"} => running \subseteq sigkilled

\* The status in experiment.json is the commit point of a run: while it says
\* RUNNING the run is not over or was cut short; once it holds a verdict, the
\* QA report and the summary exist and agree with it.
StatusCommits ==
    status \in Verdicts => qa = status /\ summary = status /\ meta = backend

\* collector_config.json is written before a backend is tried and never again,
\* so it may name another backend than experiment.json does.  A run whose data
\* came from another backend than the frozen one says so: the failure of the
\* collector is on record and the verdict is not PASS.
SwapIsNeverSilent ==
    pc = "done" /\ frozen # meta => "sched" \in failures /\ qa # "PASS" /\ status # "PASS"
=============================================================================

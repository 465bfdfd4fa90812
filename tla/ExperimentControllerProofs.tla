--------------------- MODULE ExperimentControllerProofs ---------------------
(***************************************************************************)
(* Proofs about ExperimentController, for every set of workloads, every    *)
(* length of the run and every setting of the breakers: what a verdict, a  *)
(* status and a stopped run stand for, whatever fails or interrupts.       *)
(***************************************************************************)
EXTENDS ExperimentController, TLAPS

Early  == {"setup", "launch", "record", "collectors", "fallback"}
Judged == {"summarise", "finish", "done", "aborted"}
Closed == {"judge", "summarise", "finish", "done", "raised"}

\* The breakers have not tripped while the loop goes on.
BreakerInv ==
    pc \in Early \cup LoopPcs => \A s \in {"task", "system"} : errs[s] < Breaker[s]

\* The workloads that run were launched by this run and, from the first sample
\* on, recorded; after stop_all() they are those that survived SIGKILL.
WorkloadInv ==
    /\ running \subseteq launched /\ launched \subseteq Workloads
    /\ pc \in {"collectors", "fallback"} \cup LoopPcs \cup Finally => running \subseteq recorded
    /\ pc \in {"stopSched", "writeOut", "hung"} \cup Closed => running \subseteq sigkilled

\* Each batch is written before it is kept, and closed files hold them all but
\* those a write that raised threw away.
StreamInv ==
    /\ spoiled \subseteq {"system", "psi"}
    /\ \A s \in Samplers \ spoiled : taken[s] <= written[s]
    /\ taken["task"] <= saved["task"]
    /\ pc \in Closed => \A s \in Streams \ spoiled : taken[s] <= saved[s]

\* Whoever is given up leaves a critical failure; without one of the scheduler
\* collector, the backend is the frozen one and its statistics are complete.
SchedInv ==
    /\ died \subseteq failures
    /\ backend = "ebpf" => requested \in {"auto", "ebpf"}
    /\ pc = "fallback" => "sched" \in failures
    /\ "sched" \notin failures =>
        /\ seen = counters
        /\ pc \notin {"setup", "aborted"} => frozen = backend
        /\ pc \notin Early \cup {"aborted"} /\ backend = "ebpf" => sched = "ebpf"

\* What a PASS stands for.
PassInv ==
    /\ qa # "absent" => pc \in Judged
    /\ qa = "PASS" =>
        /\ failures = {} /\ backend = "ebpf" /\ requested \in {"auto", "ebpf"} /\ sched = "ebpf"
        /\ taken["task"] > 0 /\ taken["system"] > 0 /\ taken["sched"] > 0
        /\ ~seen["dropped"] /\ ~seen["errors"]

\* What a final status stands for.
StatusInv ==
    /\ pc \in {"finish", "done"} => summary = qa
    /\ pc = "done" => meta = backend
    /\ status \in Verdicts => pc = "done" /\ qa = status

IInv == TypeOK /\ BreakerInv /\ WorkloadInv /\ StreamInv /\ SchedInv /\ PassInv /\ StatusInv

-----------------------------------------------------------------------------

\* What the checks let pass.
LEMMA PassMeans ==
    ASSUME NEW f, RunAll(f) = "PASS", f.failed \in BOOLEAN, f.dropped \in BOOLEAN, f.errors \in BOOLEAN
    PROVE  /\ ~f.failed /\ f.backend = "ebpf" /\ ~f.dropped /\ ~f.errors
           /\ "task" \notin f.empty /\ "system" \notin f.empty /\ "sched" \notin f.empty
<1>1. \A c \in Checks(f) : c.passed /\ ~c.blocking
  BY DEF RunAll
<1>2. CheckFailedCollectors(f).passed
  BY <1>1 DEF Checks
<1>3. CheckBackend(f).passed
  BY <1>1 DEF Checks
<1>4. CheckSchedEvents(f).passed
  BY <1>1 DEF Checks
<1>5. CheckCompleteness(f).passed
  BY <1>1 DEF Checks
<1>6. ~CheckPerformance(f).blocking
  BY <1>1 DEF Checks
<1>7. ~f.failed
  BY <1>2 DEF CheckFailedCollectors, Critical, Check
<1>8. f.backend = "ebpf"
  BY <1>3 DEF CheckBackend, Check
<1>9. "sched" \notin f.empty
  BY <1>4 DEF CheckSchedEvents, Check
<1>10. f.empty \cap {"task", "system"} = {}
  BY <1>5 DEF CheckCompleteness, Critical, Check
<1>11. ~f.dropped /\ ~f.errors
  BY <1>6 DEF CheckPerformance, Check
<1> QED
  BY <1>7, <1>8, <1>9, <1>10, <1>11

\* The checks come to one of three verdicts.
LEMMA VerdictTyped == \A f : RunAll(f) \in Verdicts
BY DEF RunAll, Verdicts

\* The breakers by name.
LEMMA BreakerTyped ==
    /\ Breaker["task"] \in Nat \ {0} /\ Breaker["system"] \in Nat \ {0} /\ Breaker["psi"] \in Nat \ {0}
    /\ Breaker["psi"] = PsiBreaker
    /\ \A s \in Samplers : Breaker[s] \in Nat \ {0}
BY BreakersAssumption DEF Breaker, Samplers

\* The statistics are two flags.
LEMMA FlagsTyped ==
    /\ DOMAIN Quiet = {"dropped", "errors"} /\ Flags = [{"dropped", "errors"} -> BOOLEAN]
    /\ Quiet \in Flags
BY DEF Quiet, Flags

\* The initial states satisfy the invariant.
LEMMA InitIInv == Init => IInv
<1> SUFFICES ASSUME Init PROVE IInv
  OBVIOUS
<1>1. taken \in [Streams -> Nat] /\ written \in [Streams -> Nat] /\ saved \in [Streams -> Nat]
  BY DEF Init
<1>2. errs \in [Samplers -> Nat] /\ \A s \in Samplers : errs[s] <= Breaker[s]
  <2>1. errs = [s \in Samplers |-> 0]
    BY DEF Init
  <2>2. \A s \in Samplers : errs[s] = 0
    BY <2>1
  <2> QED
    BY <2>1, <2>2, BreakerTyped
<1>3. counters \in Flags /\ seen \in Flags
  BY FlagsTyped DEF Init
<1>4. TypeOK
  BY <1>1, <1>2, <1>3 DEF Init, TypeOK, Pcs, Backends, Verdicts
<1>5. BreakerInv
  <2>1. errs["task"] = 0 /\ errs["system"] = 0
    BY DEF Init, Samplers
  <2> QED
    BY <2>1, BreakerTyped DEF BreakerInv
<1>6. WorkloadInv /\ SchedInv /\ PassInv
  BY DEF Init, WorkloadInv, SchedInv, PassInv, LoopPcs, Finally, Closed, Early
<1>7. StreamInv
  <2>1. \A s \in Streams : taken[s] = 0 /\ written[s] = 0 /\ saved[s] = 0
    BY DEF Init
  <2>2. Samplers \subseteq Streams /\ "task" \in Streams
    BY DEF Samplers, Streams
  <2>3. pc \notin Closed /\ spoiled = {}
    BY DEF Init, Closed
  <2> QED
    BY <2>1, <2>2, <2>3 DEF StreamInv
<1>8. StatusInv
  BY DEF Init, StatusInv, Verdicts
<1> QED
  BY <1>4, <1>5, <1>6, <1>7, <1>8 DEF IInv

\* The workloads under every step.
LEMMA WorkloadStep ==
    ASSUME TypeOK, WorkloadInv, Next
    PROVE  WorkloadInv' /\ waited' \subseteq launched' /\ sigkilled' \subseteq waited'
<1> USE DEF LoopPcs, Finally, Closed, WorkloadInv
<1>0. waited \subseteq launched /\ sigkilled \subseteq waited /\ waiting \subseteq Workloads
  BY DEF TypeOK
<1>1. CASE Launch
  BY <1>0, <1>1 DEF Launch, stopVars
<1>2. CASE Record
  BY <1>0, <1>2 DEF Record, stopVars
<1>3. CASE WorkloadEnds
  BY <1>0, <1>3 DEF WorkloadEnds, stopVars
<1>4. CASE WaitWorkload
  BY <1>0, <1>4 DEF WaitWorkload
<1>5. CASE CheckWorkloads
  BY <1>0, <1>5 DEF CheckWorkloads
<1>6. CASE /\ UNCHANGED workVars
           /\ pc' \in {"collectors", "fallback"} \cup LoopPcs \cup Finally
                => pc \in {"collectors", "fallback"} \cup LoopPcs \cup Finally
           /\ pc' \in {"stopSched", "writeOut", "hung"} \cup Closed
                => pc \in {"stopSched", "writeOut", "hung"} \cup Closed
  BY <1>0, <1>6 DEF workVars, stopVars
<1>7. CASE Setup \/ LaunchFails \/ Launched \/ NoCollector \/ StartCollector \/ StartCollectorFails
           \/ StartFallback
  BY <1>6, <1>7 DEF Setup, LaunchFails, Launched, NoCollector, StartCollector, StartCollectorFails,
     StartFallback
<1>8. CASE LoopTest \/ TaskSample \/ SystemSample \/ PsiSample \/ PsiFails \/ PsiSkipped
  BY <1>6, <1>8 DEF LoopTest, TaskSample, SystemSample, PsiSample, PsiFails, PsiSkipped
<1>9. CASE TaskFails \/ SystemFails \/ NoPoll \/ Poll \/ PollFails \/ Sleep
  BY <1>6, <1>9 DEF TaskFails, SystemFails, CountError, NoPoll, Poll, PollFails, Sleep
<1>10. CASE StopSched \/ WriteOut \/ Judge \/ Summarise \/ Finish \/ Escape
  BY <1>6, <1>10 DEF StopSched, WriteOut, Judge, Summarise, Finish, Escape
<1> QED
  BY <1>1, <1>2, <1>3, <1>4, <1>5, <1>7, <1>8, <1>9, <1>10 DEF Next, Run

\* The streams under every step.
LEMMA StreamStep ==
    ASSUME TypeOK, StreamInv, Next
    PROVE  /\ StreamInv'
           /\ taken' \in [Streams -> Nat] /\ written' \in [Streams -> Nat] /\ saved' \in [Streams -> Nat]
<1> DEFINE Typed == taken \in [Streams -> Nat] /\ written \in [Streams -> Nat] /\ saved \in [Streams -> Nat]
<1> USE DEF Closed, StreamInv, Samplers, Streams
<1> SUFFICES StreamInv' /\ Typed'
  OBVIOUS
<1>0. Typed
  BY DEF TypeOK
<1>1. CASE TaskSample
  BY <1>0, <1>1 DEF TaskSample
<1>2. CASE TaskFails
  <2>1. PICK n \in saved["task"] .. written["task"] + 1 : written' = [written EXCEPT !["task"] = n]
    BY <1>2 DEF TaskFails
  <2>2. saved["task"] \in Nat /\ written["task"] \in Nat /\ taken["task"] \in Nat
    BY <1>0
  <2>3. n \in Nat /\ taken["task"] <= n
    BY <2>1, <2>2
  <2>4. UNCHANGED <<taken, saved, spoiled>> /\ pc' \in {"stopWorkloads", "system"}
    BY <1>2 DEF TaskFails, CountError
  <2> QED
    BY <1>0, <2>1, <2>3, <2>4
<1>3. ASSUME NEW s \in {"system", "psi"}, WriteRow(s), pc' \notin Closed PROVE StreamInv' /\ Typed'
  <2>1. /\ written' = [written EXCEPT ![s] = @ + 1] /\ taken' = [taken EXCEPT ![s] = @ + 1]
        /\ spoiled' = spoiled
    BY <1>3 DEF WriteRow
  <2>2. CASE saved' = saved
    BY <1>0, <1>3, <2>1, <2>2
  <2>3. CASE saved' = [saved EXCEPT ![s] = written[s]]
    BY <1>0, <1>3, <2>1, <2>3
  <2> QED
    BY <1>3, <2>2, <2>3 DEF WriteRow
<1>4. ASSUME NEW s \in {"system", "psi"}, WriteRowFails(s), pc' \notin Closed PROVE StreamInv' /\ Typed'
  <2>1. CASE UNCHANGED <<written, spoiled, taken, saved>>
    BY <1>0, <1>3, <1>4, <2>1
  <2>2. CASE /\ written' = [written EXCEPT ![s] = saved[s]] /\ spoiled' = spoiled \cup {s}
             /\ UNCHANGED <<taken, saved>>
    BY <1>0, <1>4, <2>2
  <2> QED
    BY <1>4, <2>1, <2>2 DEF WriteRowFails
<1>5. CASE SystemSample \/ PsiSample
  BY <1>3, <1>5 DEF SystemSample, PsiSample
<1>6. CASE SystemFails \/ PsiFails
  BY <1>4, <1>6 DEF SystemFails, PsiFails, CountError
<1>7. CASE Poll
  BY <1>0, <1>7 DEF Poll, fileVars
<1>9. CASE WriteOut
  BY <1>0, <1>9 DEF WriteOut
<1>10. CASE Escape
  BY <1>0, <1>10 DEF Escape, LoopPcs
<1>11. CASE UNCHANGED <<taken, fileVars>> /\ (pc' \in Closed => pc \in Closed)
  BY <1>0, <1>11 DEF fileVars
<1>12. CASE Setup \/ Launch \/ LaunchFails \/ Launched \/ Record \/ NoCollector \/ StartCollector
            \/ StartCollectorFails \/ StartFallback
  BY <1>11, <1>12 DEF Setup, Launch, LaunchFails, Launched, Record, NoCollector, StartCollector,
     StartCollectorFails, StartFallback, streamVars
<1>13. CASE LoopTest \/ PsiSkipped \/ NoPoll \/ PollFails \/ Sleep \/ WorkloadEnds
  BY <1>11, <1>13 DEF LoopTest, PsiSkipped, NoPoll, PollFails, Sleep, WorkloadEnds, streamVars
<1>14. CASE WaitWorkload \/ CheckWorkloads \/ StopSched \/ Judge \/ Summarise \/ Finish
  BY <1>11, <1>14 DEF WaitWorkload, CheckWorkloads, StopSched, Judge, Summarise, Finish, streamVars
<1> QED
  BY <1>1, <1>2, <1>5, <1>6, <1>7, <1>9, <1>10, <1>12, <1>13, <1>14 DEF Next, Run

\* The consecutive errors under every step.
LEMMA BreakerStep ==
    ASSUME TypeOK, BreakerInv, Next
    PROVE  BreakerInv' /\ errs' \in [Samplers -> Nat] /\ \A s \in Samplers : errs'[s] <= Breaker[s]
<1> DEFINE Typed == errs \in [Samplers -> Nat] /\ \A s \in Samplers : errs[s] <= Breaker[s]
<1> SUFFICES BreakerInv' /\ Typed'
  BY DEF Breaker
<1> USE BreakerTyped DEF BreakerInv, Samplers
<1>0. Typed
  BY DEF TypeOK
<1>1. ASSUME NEW s \in {"task", "system"}, NEW next, CountError(s, next), pc \in LoopPcs
      PROVE  BreakerInv' /\ Typed'
  <2>1. errs' = [errs EXCEPT ![s] = @ + 1] /\ errs[s] < Breaker[s]
    BY <1>1 DEF CountError
  <2>2. errs[s] \in Nat /\ Breaker[s] \in Nat
    BY <1>0, <1>1
  <2>3. Typed'
    BY <1>0, <2>1, <2>2 DEF Breaker
  <2>4. CASE Breaks(s)
    <3>1. pc' = "stopWorkloads"
      BY <1>1, <2>4 DEF CountError
    <3> QED
      BY <2>3, <3>1 DEF Early, LoopPcs
  <2>5. CASE ~Breaks(s)
    <3>1. errs[s] + 1 < Breaker[s]
      BY <2>2, <2>5 DEF Breaks
    <3> QED
      BY <1>0, <1>1, <2>1, <2>3, <3>1 DEF Breaker
  <2> QED
    BY <2>4, <2>5
<1>2. CASE TaskFails \/ SystemFails
  BY <1>1, <1>2 DEF TaskFails, SystemFails, LoopPcs
<1>3. CASE TaskSample
  BY <1>0, <1>3 DEF TaskSample, LoopPcs, Breaker
<1>4. CASE SystemSample
  BY <1>0, <1>4 DEF SystemSample, LoopPcs, Breaker
<1>5. CASE PsiSample
  BY <1>0, <1>5 DEF PsiSample, LoopPcs, Breaker
<1>6. CASE PsiFails
  BY <1>0, <1>6 DEF PsiFails, Breaks, LoopPcs, Breaker
<1>7. CASE UNCHANGED errs /\ (pc' \in Early \cup LoopPcs => pc \in Early \cup LoopPcs)
  BY <1>0, <1>7 DEF Breaker
<1>8. CASE Setup \/ Launch \/ LaunchFails \/ Launched \/ Record \/ NoCollector \/ StartCollector
            \/ StartCollectorFails \/ StartFallback
  BY <1>7, <1>8 DEF Setup, Launch, LaunchFails, Launched, Record, NoCollector, StartCollector,
     StartCollectorFails, StartFallback, loopVars, Early
<1>9. CASE LoopTest \/ PsiSkipped \/ NoPoll \/ Poll \/ PollFails \/ Sleep \/ WorkloadEnds
  BY <1>7, <1>9 DEF LoopTest, PsiSkipped, NoPoll, Poll, PollFails, Sleep, WorkloadEnds,
     loopVars, LoopPcs
<1>10. CASE WaitWorkload \/ CheckWorkloads \/ StopSched \/ WriteOut \/ Judge \/ Summarise \/ Finish \/ Escape
  BY <1>7, <1>10 DEF WaitWorkload, CheckWorkloads, StopSched, WriteOut, Judge, Summarise, Finish, Escape,
     loopVars, LoopPcs, Early
<1> QED
  BY <1>2, <1>3, <1>4, <1>5, <1>6, <1>8, <1>9, <1>10 DEF Next, Run

\* The backend, the failures and the statistics under every step.
LEMMA SchedStep ==
    ASSUME TypeOK, SchedInv, Next
    PROVE  SchedInv'
<1> USE DEF SchedInv, Early, LoopPcs
<1>1. CASE Setup
  BY <1>1 DEF Setup, Resolved, schedVars, failVars
<1>2. CASE StartCollector
  BY <1>2 DEF StartCollector, configVars
<1>3. CASE StartCollectorFails
  BY <1>3 DEF StartCollectorFails, schedVars
<1>4. CASE StartFallback
  BY <1>4 DEF StartFallback, failVars
<1>5. CASE LaunchFails
  BY <1>5 DEF LaunchFails, configVars, schedVars
<1>6. CASE TaskFails \/ SystemFails
  BY <1>6 DEF TaskFails, SystemFails, CountError, configVars, schedVars
<1>7. CASE Poll
  BY <1>7 DEF Poll, configVars, failVars
<1>8. CASE PollFails
  BY <1>8 DEF PollFails, configVars
<1>9. CASE Finish
  BY <1>9 DEF Finish, schedVars, failVars
<1>10. CASE /\ UNCHANGED <<requested, backend, frozen, sched, counters, seen, failures, died>>
            /\ pc' = "fallback" => pc = "fallback"
            /\ pc = "setup" => pc' \in {"setup", "aborted"}
            /\ pc' \in Early \cup {"aborted"} \/ pc \notin Early \cup {"aborted"} \/ backend # "ebpf"
            /\ pc = "aborted" => pc' = "aborted"
  BY <1>10
<1>11. CASE Launch \/ Launched \/ Record \/ NoCollector
  BY <1>10, <1>11 DEF Launch, Launched, Record, NoCollector, configVars, schedVars, failVars
<1>12. CASE LoopTest \/ TaskSample \/ SystemSample \/ PsiSample \/ PsiFails \/ PsiSkipped \/ NoPoll \/ Sleep
  BY <1>10, <1>12 DEF LoopTest, TaskSample, SystemSample, PsiSample, PsiFails, PsiSkipped, NoPoll, Sleep,
     configVars, schedVars, failVars
<1>13. CASE WaitWorkload \/ CheckWorkloads \/ StopSched \/ WriteOut \/ Judge \/ Summarise
  BY <1>10, <1>13 DEF WaitWorkload, CheckWorkloads, StopSched, WriteOut, Judge, Summarise,
     configVars, schedVars, failVars
<1>14. CASE WorkloadEnds \/ Escape
  BY <1>10, <1>14 DEF WorkloadEnds, Escape, Ended, configVars, schedVars, failVars
<1> QED
  BY <1>1, <1>2, <1>3, <1>4, <1>5, <1>6, <1>7, <1>8, <1>9, <1>11, <1>12, <1>13, <1>14 DEF Next, Run

\* The verdict under every step.
LEMMA PassStep ==
    ASSUME TypeOK, SchedInv, PassInv, Next
    PROVE  PassInv'
<1> USE DEF PassInv, Judged
<1>1. CASE Judge
  <2>1. PICK f \in QaFacts : qa' = RunAll(f)
    BY <1>1 DEF Judge
  <2>2. PICK g :
          f = [failed |-> failures # {}, backend |-> backend,
               empty |-> {s \in Streams : taken[s] = 0},
               observations |-> g.observations, context |-> TRUE,
               dropped |-> counters["dropped"], errors |-> counters["errors"],
               unresolved |-> IF taken["sched"] = 0 THEN "none" ELSE g.unresolved,
               malformed |-> g.malformed /\ taken["sched"] > 0,
               exits |-> IF taken["sched"] = 0 THEN "seen" ELSE g.exits,
               intervals |-> IF begun < 2 THEN "none" ELSE g.intervals, sound |-> g.sound]
    BY <2>1 DEF QaFacts
  <2>3. counters["dropped"] \in BOOLEAN /\ counters["errors"] \in BOOLEAN
    BY FlagsTyped DEF TypeOK
  <2>4. taken["task"] \in Nat /\ taken["system"] \in Nat /\ taken["sched"] \in Nat
    BY DEF TypeOK, Streams
  <2>5. pc = "judge" /\ pc' = "summarise"
        /\ UNCHANGED <<failures, backend, requested, sched, taken, seen, counters>>
    BY <1>1 DEF Judge, configVars, streamVars, schedVars, failVars
  <2>6. ASSUME qa' = "PASS"
        PROVE  /\ failures = {} /\ backend = "ebpf" /\ ~counters["dropped"] /\ ~counters["errors"]
               /\ taken["task"] > 0 /\ taken["system"] > 0 /\ taken["sched"] > 0
    <3>1. f.backend = backend /\ f.empty = {s \in Streams : taken[s] = 0}
      BY <2>2
    <3>2. f.failed \in BOOLEAN /\ (f.failed <=> failures # {})
          /\ f.dropped \in BOOLEAN /\ (f.dropped <=> counters["dropped"])
          /\ f.errors \in BOOLEAN /\ (f.errors <=> counters["errors"])
      BY <2>2, <2>3
    <3>3. RunAll(f) = "PASS"
      BY <2>1, <2>6
    <3>4. ~f.failed /\ f.backend = "ebpf" /\ ~f.dropped /\ ~f.errors
          /\ "task" \notin f.empty /\ "system" \notin f.empty /\ "sched" \notin f.empty
      BY <3>2, <3>3, PassMeans
    <3>5. taken["task"] # 0 /\ taken["system"] # 0 /\ taken["sched"] # 0
      BY <3>1, <3>4 DEF Streams
    <3>6. taken["task"] > 0 /\ taken["system"] > 0 /\ taken["sched"] > 0
      BY <2>4, <3>5
    <3>7. failures = {} /\ ~counters["dropped"] /\ ~counters["errors"]
      BY <3>2, <3>4, Zenon
    <3>8. backend = "ebpf"
      BY <3>1, <3>4
    <3> QED
      BY <3>6, <3>7, <3>8
  <2> QED
    BY <2>5, <2>6 DEF SchedInv, Early
<1>2. CASE /\ UNCHANGED <<qa, failures, backend, requested, sched, taken, seen>>
           /\ pc \in Judged => pc' \in Judged
  BY <1>2
<1>3. CASE UNCHANGED qa /\ pc \notin Judged
  BY <1>3
<1>4. CASE Summarise \/ Finish
  BY <1>2, <1>4 DEF Summarise, Finish, configVars, streamVars, schedVars, failVars
<1>5. CASE Escape \/ WorkloadEnds
  BY <1>2, <1>5 DEF Escape, WorkloadEnds, LoopPcs, Ended, configVars, streamVars, schedVars, resultVars, failVars
<1>6. CASE Setup \/ Launch \/ LaunchFails \/ Launched \/ Record \/ NoCollector \/ StartCollector
            \/ StartCollectorFails \/ StartFallback
  BY <1>3, <1>6 DEF Setup, Launch, LaunchFails, Launched, Record, NoCollector, StartCollector,
     StartCollectorFails, StartFallback, resultVars
<1>7. CASE LoopTest \/ TaskSample \/ TaskFails \/ SystemSample \/ SystemFails \/ PsiSample \/ PsiFails
            \/ PsiSkipped \/ NoPoll
  BY <1>3, <1>7 DEF LoopTest, TaskSample, TaskFails, SystemSample, SystemFails, PsiSample, PsiFails,
     PsiSkipped, NoPoll, resultVars
<1>8. CASE Poll \/ PollFails \/ Sleep \/ WaitWorkload \/ CheckWorkloads \/ StopSched \/ WriteOut
  BY <1>3, <1>8 DEF Poll, PollFails, Sleep, WaitWorkload, CheckWorkloads, StopSched, WriteOut,
     resultVars, LoopPcs
<1> QED
  BY <1>1, <1>4, <1>5, <1>6, <1>7, <1>8 DEF Next, Run

\* The status under every step.
LEMMA StatusStep ==
    ASSUME TypeOK, StatusInv, Next
    PROVE  StatusInv'
<1> USE DEF StatusInv, Verdicts
<1>1. CASE Finish
  BY <1>1 DEF Finish
<1>2. CASE Summarise
  BY <1>2 DEF Summarise
<1>3. CASE Setup
  BY <1>3 DEF Setup
<1>4. CASE UNCHANGED status /\ pc # "done" /\ pc' \notin {"finish", "done"}
  BY <1>4
<1>5. CASE UNCHANGED <<pc, status, qa, summary, meta, backend>>
  BY <1>5
<1>6. CASE WorkloadEnds
  BY <1>5, <1>6 DEF WorkloadEnds, resultVars, configVars
<1>7. CASE Launch \/ LaunchFails \/ Launched \/ Record \/ NoCollector \/ StartCollector
            \/ StartCollectorFails \/ StartFallback
  BY <1>4, <1>7 DEF Launch, LaunchFails, Launched, Record, NoCollector, StartCollector,
     StartCollectorFails, StartFallback, resultVars
<1>8. CASE LoopTest \/ TaskSample \/ TaskFails \/ SystemSample \/ SystemFails \/ PsiSample \/ PsiFails
            \/ PsiSkipped \/ NoPoll
  BY <1>4, <1>8 DEF LoopTest, TaskSample, TaskFails, SystemSample, SystemFails, CountError, PsiSample, PsiFails,
     PsiSkipped, NoPoll, resultVars
<1>9. CASE Poll \/ PollFails \/ Sleep \/ WaitWorkload \/ CheckWorkloads \/ StopSched \/ WriteOut
  BY <1>4, <1>9 DEF Poll, PollFails, Sleep, WaitWorkload, CheckWorkloads, StopSched, WriteOut,
     resultVars, LoopPcs
<1>10. CASE Judge \/ Escape
  BY <1>4, <1>10 DEF Judge, Escape, Ended, resultVars
<1> QED
  BY <1>1, <1>2, <1>3, <1>6, <1>7, <1>8, <1>9, <1>10 DEF Next, Run

\* What the other lemmas say nothing of.
Plain ==
    /\ pc \in Pcs /\ raising \in BOOLEAN
    /\ requested \in {"auto", "ebpf", "no-bpf", "tracefs"}
    /\ backend \in Backends /\ meta \in Backends /\ frozen \in Backends \cup {"absent"}
    /\ status \in Verdicts \cup {"RUNNING", "absent"}
    /\ qa \in Verdicts \cup {"absent"} /\ summary \in Verdicts \cup {"absent"}
    /\ sched \in Backends
    /\ waiting \subseteq Workloads
    /\ tick \in Nat /\ begun \in Nat
    /\ observable \in BOOLEAN
    /\ failures \subseteq {"workload", "sched", "task", "system"}
    /\ died \subseteq {"workload", "sched", "task", "system"}

\* The other variables keep their types under every step.
LEMMA PlainStep ==
    ASSUME Plain, Next
    PROVE  Plain'
<1> USE DEF Plain
<1>1. CASE Setup \/ Launch \/ LaunchFails \/ Launched
  <2>1. Resolved \in Backends
    BY DEF Resolved, Backends
  <2>2. CASE Setup
    BY <2>1, <2>2 DEF Setup, Pcs,
       workVars, schedVars, streamVars, loopVars, failVars
  <2>3. CASE Launch
    BY <2>3 DEF Launch, configVars, schedVars, resultVars, streamVars, loopVars, failVars
  <2>4. CASE LaunchFails \/ Launched
    BY <2>4 DEF LaunchFails, Launched, Pcs,
       configVars, workVars, schedVars, resultVars, streamVars, loopVars, failVars
  <2> QED
    BY <1>1, <2>2, <2>3, <2>4
<1>2. CASE Record \/ NoCollector
  BY <1>2 DEF Record, NoCollector, Pcs, LoopPcs,
     configVars, workVars, schedVars, resultVars, streamVars, loopVars, failVars
<1>3. CASE StartCollector \/ StartCollectorFails
  <2>1. CASE StartCollector
    BY <2>1 DEF StartCollector, Pcs, LoopPcs, Backends,
       configVars, workVars, resultVars, streamVars, loopVars
  <2>2. CASE StartCollectorFails
    BY <2>2 DEF StartCollectorFails, Pcs, LoopPcs, Backends,
       workVars, schedVars, resultVars, streamVars, loopVars
  <2> QED
    BY <1>3, <2>1, <2>2
<1>4. CASE StartFallback
  BY <1>4 DEF StartFallback, Pcs, LoopPcs, Backends,
     configVars, workVars, schedVars, resultVars, streamVars, loopVars, failVars
<1>5. CASE LoopTest \/ WorkloadEnds
  <2>1. CASE LoopTest
    <3>1. pc' \in {"task", "stopWorkloads"} /\ begun' \in {begun, begun + 1}
      BY <2>1 DEF LoopTest
    <3>2. pc' \in Pcs /\ begun' \in Nat
      BY <3>1 DEF Pcs, LoopPcs, Finally
    <3> QED
      BY <2>1, <3>2 DEF LoopTest,
         configVars, workVars, schedVars, resultVars, streamVars, failVars
  <2>2. CASE WorkloadEnds
    BY <2>2 DEF WorkloadEnds, configVars, schedVars, resultVars, streamVars, loopVars, failVars
  <2> QED
    BY <1>5, <2>1, <2>2
<1>6. CASE TaskSample \/ SystemSample \/ PsiSample
  BY <1>6 DEF TaskSample, SystemSample, PsiSample, Pcs, LoopPcs,
     configVars, workVars, schedVars, resultVars, streamVars, loopVars, failVars
<1>7. CASE TaskFails \/ SystemFails
  BY <1>7 DEF TaskFails, SystemFails, CountError, Pcs, LoopPcs, Finally,
     configVars, workVars, schedVars, resultVars, streamVars, loopVars, failVars
<1>8. CASE PsiFails \/ PsiSkipped \/ NoPoll
  BY <1>8 DEF PsiFails, PsiSkipped, NoPoll, Pcs, LoopPcs,
     configVars, workVars, schedVars, resultVars, streamVars, loopVars, failVars
<1>9. CASE Poll \/ PollFails
  <2>1. CASE Poll
    <3>1. pc' \in Pcs
      BY <2>1 DEF Poll, Pcs, LoopPcs
    <3> QED
      BY <2>1, <3>1 DEF Poll, configVars, workVars, resultVars, loopVars, failVars
  <2>2. CASE PollFails
    <3>1. pc' \in Pcs /\ sched' \in Backends
      BY <2>2 DEF PollFails, Pcs, LoopPcs, Backends
    <3>2. failures' \subseteq {"workload", "sched", "task", "system"}
          /\ died' \subseteq {"workload", "sched", "task", "system"}
      BY <2>2 DEF PollFails
    <3> QED
      BY <2>2, <3>1, <3>2 DEF PollFails, configVars, workVars, resultVars, streamVars, loopVars
  <2> QED
    BY <1>9, <2>1, <2>2
<1>10. CASE Sleep
  <2>1. tick' \in Nat /\ pc' \in Pcs
    BY <1>10 DEF Sleep, Pcs, LoopPcs
  <2> QED
    BY <1>10, <2>1 DEF Sleep, configVars, workVars, schedVars, resultVars, streamVars, failVars
<1>11. CASE WaitWorkload \/ CheckWorkloads \/ StopSched
  BY <1>11 DEF WaitWorkload, CheckWorkloads, StopSched, Pcs, Finally, Ended,
     configVars, workVars, schedVars, resultVars, streamVars, loopVars, failVars
<1>12. CASE WriteOut \/ Escape
  BY <1>12 DEF WriteOut, Escape, Pcs, LoopPcs, Finally, Ended,
     configVars, workVars, schedVars, resultVars, streamVars, loopVars, failVars
<1>13. CASE Judge
  BY <1>13, VerdictTyped DEF Judge, Pcs,
     configVars, workVars, schedVars, streamVars, loopVars, failVars
<1>14. CASE Summarise \/ Finish
  BY <1>14 DEF Summarise, Finish, Pcs, Ended,
     configVars, workVars, schedVars, streamVars, loopVars, failVars
<1> QED
  BY <1>1, <1>2, <1>3, <1>4, <1>5, <1>6, <1>7, <1>8, <1>9, <1>10, <1>11, <1>12, <1>13, <1>14 DEF Next, Run

\* So do the statistics and the launch records.
LEMMA RecordsStep ==
    ASSUME TypeOK, WorkloadInv, Next
    PROVE  counters' \in Flags /\ seen' \in Flags /\ recorded' \subseteq Workloads
<1>0. counters \in Flags /\ seen \in Flags /\ recorded \subseteq Workloads /\ launched \subseteq Workloads
  BY DEF TypeOK
<1>1. CASE Poll
  <2>1. PICK c \in DOMAIN Quiet \cup {"none"} :
          /\ counters' = [d \in DOMAIN Quiet |-> counters[d] \/ d = c]
          /\ seen' = [d \in DOMAIN Quiet |-> seen[d] \/ d = c]
    BY <1>1 DEF Poll
  <2>2. recorded' = recorded
    BY <1>1 DEF Poll, workVars
  <2> QED
    BY <1>0, <2>1, <2>2 DEF Flags
<1>2. CASE PollFails
  BY <1>0, <1>2, FlagsTyped DEF PollFails, workVars
<1>3. CASE Record
  BY <1>0, <1>3 DEF Record, schedVars
<1>4. CASE UNCHANGED <<counters, seen, recorded>>
  BY <1>0, <1>4
<1>5. CASE Setup \/ Launch \/ LaunchFails \/ Launched \/ NoCollector \/ StartCollector
           \/ StartCollectorFails \/ StartFallback
  BY <1>4, <1>5 DEF Setup, Launch, LaunchFails, Launched, NoCollector, StartCollector,
     StartCollectorFails, StartFallback, workVars, schedVars
<1>6. CASE LoopTest \/ TaskSample \/ TaskFails \/ SystemSample \/ SystemFails \/ PsiSample \/ PsiFails
           \/ PsiSkipped \/ NoPoll \/ Sleep \/ WorkloadEnds
  BY <1>4, <1>6 DEF LoopTest, TaskSample, TaskFails, SystemSample, SystemFails, PsiSample, PsiFails,
     PsiSkipped, NoPoll, Sleep, WorkloadEnds, workVars, schedVars
<1>7. CASE WaitWorkload \/ CheckWorkloads \/ StopSched \/ WriteOut \/ Judge \/ Summarise \/ Finish \/ Escape
  BY <1>4, <1>7 DEF WaitWorkload, CheckWorkloads, StopSched, WriteOut, Judge, Summarise, Finish, Escape,
     workVars, schedVars
<1> QED
  BY <1>1, <1>2, <1>3, <1>5, <1>6, <1>7 DEF Next, Run

\* The invariant is inductive.
LEMMA StepIInv == IInv /\ [Next]_vars => IInv'
<1>1. CASE IInv /\ Next
  <2>0. TypeOK /\ BreakerInv /\ WorkloadInv /\ StreamInv /\ SchedInv /\ PassInv /\ StatusInv /\ Plain
    BY <1>1 DEF IInv, TypeOK, Plain
  <2>1. Plain'
    BY <1>1, <2>0, PlainStep
  <2>2. WorkloadInv' /\ waited' \subseteq launched' /\ sigkilled' \subseteq waited'
    BY <1>1, <2>0, WorkloadStep
  <2>3. StreamInv' /\ spoiled' \subseteq {"system", "psi"} /\ taken' \in [Streams -> Nat] /\ written' \in [Streams -> Nat] /\ saved' \in [Streams -> Nat]
    BY <1>1, <2>0, StreamStep DEF StreamInv
  <2>4. BreakerInv' /\ errs' \in [Samplers -> Nat] /\ \A s \in Samplers : errs'[s] <= Breaker[s]
    BY <1>1, <2>0, BreakerStep
  <2>5. counters' \in Flags /\ seen' \in Flags /\ recorded' \subseteq Workloads
    BY <1>1, <2>0, RecordsStep
  <2>6. running' \subseteq Workloads /\ launched' \subseteq Workloads
    BY <2>2 DEF WorkloadInv
  <2>7. TypeOK'
    BY <2>1, <2>2, <2>3, <2>4, <2>5, <2>6 DEF TypeOK, Plain, Breaker, Flags
  <2>8. SchedInv' /\ PassInv' /\ StatusInv'
    BY <1>1, <2>0, SchedStep, PassStep, StatusStep
  <2> QED
    BY <2>2, <2>3, <2>4, <2>7, <2>8 DEF IInv
<1>2. CASE IInv /\ UNCHANGED vars
  <2> USE <1>2 DEF IInv, vars, configVars, workVars, stopVars, streamVars, schedVars, resultVars,
      loopVars, failVars, fileVars
  <2>1. TypeOK'
    BY DEF TypeOK, Breaker, Flags
  <2>2. BreakerInv' /\ WorkloadInv' /\ StreamInv'
    BY DEF BreakerInv, Breaker, WorkloadInv, StreamInv
  <2>3. SchedInv' /\ PassInv' /\ StatusInv'
    BY DEF SchedInv, PassInv, StatusInv
  <2> QED
    BY <2>1, <2>2, <2>3
<1> QED
  BY <1>1, <1>2

\* The inductive invariant holds in every reachable state.
THEOREM SpecIInv == Spec => []IInv
BY InitIInv, StepIInv, PTL DEF Spec

\* Every variable has its type, and a sampler's consecutive errors never exceed
\* its breaker (controller.py:212-436).
THEOREM SpecTypeOK == Spec => []TypeOK
<1>1. IInv => TypeOK
  BY DEF IInv
<1> QED
  BY <1>1, SpecIInv, PTL

\* A collector or workload that failed at any moment keeps the verdict from PASS,
\* for runs of any length (controller.py:212-436 with qa/checks.py).
THEOREM SpecNoSilentPass == Spec => []NoSilentPass
<1>1. IInv => NoSilentPass
  BY DEF IInv, PassInv, SchedInv, NoSilentPass
<1> QED
  BY <1>1, SpecIInv, PTL

\* A PASS stands for eBPF data with rows in every judged stream and no drop or
\* error in the statistics of any collector of the run.
THEOREM SpecPassIsAuthoritative == Spec => []PassIsAuthoritative
<1>1. IInv => PassIsAuthoritative
  BY DEF IInv, PassInv, PassIsAuthoritative
<1> QED
  BY <1>1, SpecIInv, PTL

\* What was judged is in the raw files, whatever failed on the way, but for
\* system and PSI rows of a stream whose write raised (raw_writer.py:27-31 without
\* a flush, controller.py:271-291); a task batch is there as soon as it is kept.
THEOREM SpecJudgedRowsAreOnDisk == Spec => []JudgedRowsAreOnDisk
<1>1. IInv => JudgedRowsAreOnDisk
  BY DEF IInv, StreamInv, JudgedRowsAreOnDisk, Closed
<1> QED
  BY <1>1, SpecIInv, PTL

\* From the first sample on, every running workload has its launch record.
THEOREM SpecRunningAreRecorded == Spec => []RunningAreRecorded
<1>1. IInv => RunningAreRecorded
  BY DEF IInv, WorkloadInv, RunningAreRecorded
<1> QED
  BY <1>1, SpecIInv, PTL

\* However many workloads there are, none outlives the run without having been
\* sent SIGKILL (runner.py:197-237).
THEOREM SpecSurvivorsWereKilled == Spec => []SurvivorsWereKilled
<1>1. IInv => SurvivorsWereKilled
  BY DEF IInv, WorkloadInv, SurvivorsWereKilled, Closed
<1> QED
  BY <1>1, SpecIInv, PTL

\* A status other than RUNNING comes after the report and the summary and agrees
\* with both.
THEOREM SpecStatusCommits == Spec => []StatusCommits
<1>1. IInv => StatusCommits
  BY DEF IInv, StatusInv, StatusCommits
<1> QED
  BY <1>1, SpecIInv, PTL

\* A run whose data came from another backend than the frozen one has a failure
\* on record and does not pass.
THEOREM SpecSwapIsNeverSilent == Spec => []SwapIsNeverSilent
<1>1. IInv => SwapIsNeverSilent
  <2> SUFFICES ASSUME IInv, pc = "done", frozen # meta
               PROVE  "sched" \in failures /\ qa # "PASS" /\ status # "PASS"
    BY DEF SwapIsNeverSilent
  <2>1. meta = backend /\ (status = "PASS" => qa = "PASS")
    BY DEF IInv, StatusInv, Verdicts
  <2>2. "sched" \in failures
    BY <2>1 DEF IInv, SchedInv
  <2> QED
    BY <2>1, <2>2 DEF IInv, PassInv
<1> QED
  BY <1>1, SpecIInv, PTL
=============================================================================

---------------------- MODULE ObservationBuilderProofs ----------------------
(***************************************************************************)
(* Proofs about ObservationBuilder, for every set of tasks and samples,    *)
(* every length of a run, and every step and window.                       *)
(***************************************************************************)
EXTENDS ObservationBuilder, WellFoundedInduction, TLAPS

\* What is known of the rows.
Inputs ==
    /\ snaps \in SUBSET [task : Task, ts : Times] /\ snaps # {}
    /\ \A s \in snaps : s.ts >= s.task.start
    /\ \A e \in events : /\ e \in [task : Task, ts : Times, id : Observed \cup {Unresolved}]
                         /\ e.id = Unresolved \/ e.id.tid = e.task.tid
    /\ workload \in [pid : Tgids, from : Times, to : Times]

\* Every record is what its tick gave it.
OutInv == \A r \in out : r.tick \in Nat /\ r \in RecordsAt(r.tick, events)

IInv == Inputs /\ (tick = -1 \/ tick \in Nat) /\ OutInv

-----------------------------------------------------------------------------

\* A set of naturals has a least element.
LEMMA MinExists ==
    ASSUME NEW S \in SUBSET Nat, S # {}
    PROVE  \E x \in S : \A y \in S : x <= y
<1>1. PICK x \in S : \A y \in S : ~ (<<y, x>> \in OpToRel(<, Nat))
  BY NatLessThanWellFounded, WFMin
<1>2. \A y \in S : ~(y < x)
  BY <1>1 DEF OpToRel
<1> QED
  BY <1>2

\* A bounded set of naturals has a greatest one.
LEMMA MaxExists ==
    ASSUME NEW b \in Nat, NEW S \in SUBSET (0 .. b), S # {}
    PROVE  \E x \in S : \A y \in S : x >= y
<1> DEFINE T == {b - x : x \in S}
<1>1. \A x \in S : b - x \in Nat
  OBVIOUS
<1>2. T \in SUBSET Nat /\ T # {}
  BY <1>1
<1>3. PICK t \in T : \A u \in T : t <= u
  BY <1>2, MinExists
<1>4. PICK x \in S : t = b - x
  OBVIOUS
<1>5. \A y \in S : b - x <= b - y
  BY <1>3, <1>4
<1> QED
  BY <1>5

\* What bisect_right gives: the latest time up to t, if there is one.
LEMMA LatestProperties ==
    ASSUME NEW times \in SUBSET Times, NEW t \in Nat
    PROVE  /\ Latest(times, t) <= t
           /\ Latest(times, t) # -1 => Latest(times, t) \in times
<1> DEFINE past == {u \in times : u <= t}
<1>1. CASE past = {}
  BY <1>1 DEF Latest
<1>2. CASE past # {}
  <2>1. past \in SUBSET (0 .. MaxTime)
    BY DEF Times
  <2>2. \E x \in past : \A y \in past : x >= y
    BY <1>2, <2>1, MaxExists, TimesAssumption
  <2>3. Max(past) \in past
    BY <2>2 DEF Max
  <2> QED
    BY <1>2, <2>3 DEF Latest
<1> QED
  BY <1>1, <1>2

\* The first tick is a time.
LEMMA FirstTick == Inputs => T0 \in Nat
<1> SUFFICES ASSUME Inputs PROVE T0 \in Nat
  OBVIOUS
<1> DEFINE S == {s.ts : s \in snaps}
<1>1. S \in SUBSET Nat /\ S # {}
  BY TimesAssumption DEF Inputs, Times
<1>2. \E x \in S : \A y \in S : x <= y
  BY <1>1, MinExists
<1> QED
  BY <1>1, <1>2 DEF T0, Min

\* The initial states satisfy the invariant.
LEMMA InitIInv == Init => IInv
<1> SUFFICES ASSUME Init PROVE IInv
  OBVIOUS
<1>1. snaps \in SUBSET [task : Task, ts : Times] /\ snaps # {} /\ \A s \in snaps : s.ts >= s.task.start
  BY DEF Init, Snapshots
<1>2. workload \in [pid : Tgids, from : Times, to : Times]
  BY DEF Init
<1>3. ASSUME NEW e \in events
      PROVE  /\ e \in [task : Task, ts : Times, id : Observed \cup {Unresolved}]
             /\ e.id = Unresolved \/ e.id.tid = e.task.tid
  <2>1. e \in Events({s.task : s \in snaps})
    BY <1>3 DEF Init
  <2> QED
    BY <2>1 DEF Events, Observed
<1>4. tick = -1 /\ OutInv
  BY DEF Init, OutInv
<1> QED
  BY <1>1, <1>2, <1>3, <1>4 DEF IInv, Inputs

\* The records of a tick name it.
LEMMA RecordTick == \A t, E : \A r \in RecordsAt(t, E) : r.tick = t
BY DEF RecordsAt

\* The invariant is inductive: the rows do not change while the records are made.
LEMMA StepIInv == IInv /\ [Next]_vars => IInv'
<1> SUFFICES ASSUME IInv, [Next]_vars PROVE IInv'
  OBVIOUS
<1>0. Inputs /\ OutInv /\ (tick = -1 \/ tick \in Nat)
  BY DEF IInv
<1>1. UNCHANGED inputs
  BY DEF Next, Start, Build, vars
<1>2. Inputs'
  BY <1>0, <1>1 DEF inputs, Inputs, Observed
<1>3. \A t : RecordsAt(t, events)' = RecordsAt(t, events)
  BY <1>1 DEF inputs, RecordsAt, Observed, LastSample, Complete, EventsAt, Labelled,
     OfWorkload, SystemAt
<1>4. CASE Start
  <2>1. tick' = T0 /\ out' = out
    BY <1>4 DEF Start
  <2>2. T0 \in Nat
    BY <1>0, FirstTick
  <2> QED
    BY <1>0, <1>1, <1>2, <1>3, <2>1, <2>2 DEF IInv, OutInv
<1>5. CASE Build
  <2>1. tick \in Nat /\ tick' = tick + Step /\ out' = out \cup RecordsAt(tick, events)
    BY <1>0, <1>5 DEF Build
  <2>2. tick' \in Nat
    BY <2>1, StepAssumption
  <2>3. OutInv'
    BY <1>0, <1>3, <2>1, RecordTick DEF OutInv
  <2> QED
    BY <1>2, <2>2, <2>3 DEF IInv
<1>6. CASE UNCHANGED vars
  BY <1>0, <1>2, <1>3, <1>6 DEF vars, IInv, OutInv
<1> QED
  BY <1>4, <1>5, <1>6 DEF Next

\* The inductive invariant holds in every reachable state.
THEOREM SpecIInv == Spec => []IInv
BY InitIInv, StepIInv, PTL DEF Spec

\* What a record is made of.
LEMMA RecordProperties ==
    ASSUME IInv, NEW r \in out
    PROVE  /\ r.tick \in Nat /\ r.task \in Observed /\ Complete(r.task, r.tick)
           /\ r.sample = LastSample(r.task, r.tick)
           /\ r.events = EventsAt(r.task, r.tick, events)
           /\ r.labelled <=> Labelled(r.task, r.tick)
<1>1. r.tick \in Nat /\ r \in RecordsAt(r.tick, events)
  BY DEF IInv, OutInv
<1>2. PICK task \in Observed :
        /\ Complete(task, r.tick)
        /\ r = [tick |-> r.tick, task |-> task, sample |-> LastSample(task, r.tick),
                system |-> SystemAt(r.tick), events |-> EventsAt(task, r.tick, events),
                labelled |-> Labelled(task, r.tick)]
  BY <1>1 DEF RecordsAt
<1>3. r.task = task
  BY <1>2
<1> QED
  BY <1>1, <1>2, <1>3

\* The samples of a task that LastSample looks at.
LEMMA LastSampleProperties ==
    ASSUME IInv, NEW task, NEW t \in Nat
    PROVE  /\ LastSample(task, t) <= t
           /\ LastSample(task, t) # -1 => \E s \in snaps : s.task = task /\ s.ts <= t
<1> DEFINE times == {s.ts : s \in {r \in snaps : r.task = task}}
<1>1. times \in SUBSET Times
  BY DEF IInv, Inputs
<1>2. /\ Latest(times, t) <= t
      /\ Latest(times, t) # -1 => Latest(times, t) \in times
  BY <1>1, LatestProperties
<1> QED
  BY <1>2 DEF LastSample

\* A window at least as long as a step leaves out no resolved event, for every
\* phase of the ticks (sync.py:144-176).
THEOREM SpecNoEventBetweenWindows == Spec => []NoEventBetweenWindows
<1>1. IInv => NoEventBetweenWindows
  <2> SUFFICES ASSUME IInv, NEW e \in events, NEW r \in out,
                      e.id = r.task, e.ts <= r.tick, r.tick < e.ts + Step
               PROVE  r.task = e.id /\ e \in r.events
    BY DEF NoEventBetweenWindows
  <2>1. e.ts \in Nat /\ r.tick \in Nat
    BY RecordProperties, TimesAssumption DEF IInv, Inputs, Times
  <2>2. InWindow(e.ts, r.tick)
    BY <2>1, StepAssumption, WindowAssumption DEF InWindow
  <2> QED
    BY <2>2, RecordProperties DEF EventsAt
<1> QED
  BY <1>1, SpecIInv, PTL

\* A task created after the nominal end of a workload never gets its label,
\* although it may have its thread id (sync.py:42-69).
THEOREM SpecLabelEndsWithWorkload == Spec => []LabelEndsWithWorkload
<1>1. IInv => LabelEndsWithWorkload
  <2> SUFFICES ASSUME IInv, NEW r \in out, r.labelled
               PROVE  r.task.start <= workload.to
    BY DEF LabelEndsWithWorkload
  <2>1. r.tick \in Nat /\ r.tick <= workload.to /\ LastSample(r.task, r.tick) # -1
    BY RecordProperties DEF Labelled, Complete
  <2>2. PICK s \in snaps : s.task = r.task /\ s.ts <= r.tick
    BY <2>1, LastSampleProperties
  <2>3. s \in [task : Task, ts : Times] /\ s.ts >= s.task.start
    BY DEF IInv, Inputs
  <2>4. s.ts \in Nat /\ s.task \in Task
    BY <2>3, TimesAssumption DEF Times
  <2>5. s.task.start \in Nat
    BY <2>4, TimesAssumption DEF Task
  <2>6. workload.to \in Nat
    BY TimesAssumption DEF IInv, Inputs, Times
  <2> QED
    BY <2>1, <2>2, <2>3, <2>4, <2>5, <2>6
<1> QED
  BY <1>1, SpecIInv, PTL

\* Replay, which drops the ids the tracker gave, builds the live records for every
\* run whose samples show one generation per thread id (replay.py:65-113).
THEOREM SpecReplayRegenerates == Spec => []ReplayRegenerates
<1>1. IInv => ReplayRegenerates
  <2> SUFFICES ASSUME IInv, \A j, k \in Observed : j.tid = k.tid => j = k, NEW r \in out
               PROVE  {[e EXCEPT !.id = Unresolved] : e \in r.events} = EventsAt(r.task, r.tick, Raw)
    BY DEF ReplayRegenerates
  <2>1. r.task \in Observed /\ r.events = EventsAt(r.task, r.tick, events)
    BY RecordProperties
  <2>2. \A k \in Observed : k \in Task /\ k # Unresolved
    <3>1. \A k \in Observed : k \in Task
      BY DEF IInv, Inputs, Observed
    <3>2. Unresolved \notin Task
      BY TidsAssumption DEF Unresolved, Task
    <3> QED
      BY <3>1, <3>2
  <2>3. ASSUME NEW e \in events
        PROVE  LET d == [e EXCEPT !.id = Unresolved]
               IN  /\ d.ts = e.ts /\ d.task = e.task /\ d.id = Unresolved
                   /\ e.id = r.task \/ (e.id = Unresolved /\ e.task.tid = r.task.tid)
                        <=> d.task.tid = r.task.tid
    <3>1. e \in [task : Task, ts : Times, id : Observed \cup {Unresolved}]
          /\ (e.id = Unresolved \/ e.id.tid = e.task.tid)
      BY <2>3 DEF IInv, Inputs
    <3>2. e.id \in Observed \cup {Unresolved}
      BY <3>1
    <3>3. e.id = r.task => e.task.tid = r.task.tid
      BY <2>1, <2>2, <3>1
    <3>4. e.task.tid = r.task.tid /\ e.id # Unresolved => e.id = r.task
      BY <2>1, <3>1, <3>2
    <3> QED
      BY <3>1, <3>3, <3>4
  <2>4. ASSUME NEW e \in events
        PROVE  e \in r.events <=> [e EXCEPT !.id = Unresolved] \in EventsAt(r.task, r.tick, Raw)
    <3>1. [e EXCEPT !.id = Unresolved] \in Raw
      BY DEF Raw
    <3> QED
      BY <2>1, <2>2, <2>3, <3>1 DEF EventsAt
  <2>5. \A d \in EventsAt(r.task, r.tick, Raw) : \E e \in events : d = [e EXCEPT !.id = Unresolved]
    BY DEF EventsAt, Raw
  <2>6. r.events \subseteq events
    BY <2>1 DEF EventsAt
  <2> QED
    BY <2>4, <2>5, <2>6
<1> QED
  BY <1>1, SpecIInv, PTL
=============================================================================

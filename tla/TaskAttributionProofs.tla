----------------------- MODULE TaskAttributionProofs -----------------------
(***************************************************************************)
(* Proofs about TaskAttribution, for every set of thread ids, every bound  *)
(* of the clock, of the scans and of the events.                           *)
(***************************************************************************)
EXTENDS TaskAttribution, WellFoundedInduction, TLAPS

-----------------------------------------------------------------------------
(***************************************************************************)
(* The tracker's operators.                                                *)
(***************************************************************************)

\* All that the runs record happened by `limit`.
Within(rs, limit) ==
    \A i \in DOMAIN rs : /\ rs[i].start <= limit
                         /\ rs[i].end # Open => rs[i].end <= limit

LEMMA CloseLastProps ==
    ASSUME NEW rs \in Seq(Run), NEW ts \in Nat
    PROVE  /\ CloseLast(rs, ts) \in Seq(Run)
           /\ Len(CloseLast(rs, ts)) = Len(rs)
           /\ \A i \in 1 .. Len(rs) : /\ CloseLast(rs, ts)[i].start = rs[i].start
                                      /\ CloseLast(rs, ts)[i].task = rs[i].task
                                      /\ i < Len(rs) => CloseLast(rs, ts)[i] = rs[i]
           /\ ~LastIsOpen(CloseLast(rs, ts))
<1>1. CASE LastIsOpen(rs)
  <2>1. Len(rs) \in 1 .. Len(rs)  BY <1>1 DEF LastIsOpen
  <2>2. rs[Len(rs)] \in Run  BY <2>1
  <2>3. CloseLast(rs, ts) = [rs EXCEPT ![Len(rs)] = [rs[Len(rs)] EXCEPT !.end = ts]]
        BY <1>1 DEF CloseLast
  <2>4. [rs[Len(rs)] EXCEPT !.end = ts] \in Run  BY <2>2 DEF Run
  <2>5. QED  BY <2>1, <2>2, <2>3, <2>4, OpenAssumption DEF LastIsOpen, Run
<1>2. CASE ~LastIsOpen(rs)
  BY <1>2 DEF CloseLast
<1>3. QED  BY <1>1, <1>2

LEMMA CloseLastOrdered ==
    ASSUME NEW rs \in Seq(Run), NEW ts \in Nat, Ordered(rs), Within(rs, ts)
    PROVE  Ordered(CloseLast(rs, ts)) /\ Within(CloseLast(rs, ts), ts)
<1>1. CASE LastIsOpen(rs)
  <2>1. Len(rs) \in 1 .. Len(rs) /\ DOMAIN rs = 1 .. Len(rs)
        BY <1>1 DEF LastIsOpen
  <2>2. CloseLast(rs, ts)[Len(rs)].end = ts
        BY <1>1, <2>1 DEF CloseLast, Run
  <2>3. CloseLast(rs, ts) \in Seq(Run) /\ Len(CloseLast(rs, ts)) = Len(rs)
        BY CloseLastProps
  <2>4. \A i \in 1 .. Len(rs) : /\ CloseLast(rs, ts)[i].start = rs[i].start
                                /\ i < Len(rs) => CloseLast(rs, ts)[i] = rs[i]
        BY CloseLastProps
  <2> DEFINE cl == CloseLast(rs, ts)
  <2> HIDE DEF cl
  <2>5. \A i \in 1 .. Len(rs) : rs[i] \in Run /\ cl[i] \in Run
        BY <2>3 DEF cl
  <2>6. \A i \in 1 .. Len(rs) : cl[i].start <= ts /\ (cl[i].end # Open => cl[i].end <= ts)
    <3> SUFFICES ASSUME NEW i \in 1 .. Len(rs)
                 PROVE  cl[i].start <= ts /\ (cl[i].end # Open => cl[i].end <= ts)
        OBVIOUS
    <3>1. CASE i = Len(rs)
          BY <2>1, <2>2, <2>4, <3>1 DEF cl, Within
    <3>2. CASE i < Len(rs)
          BY <2>1, <2>4, <3>2 DEF cl, Within
    <3>3. QED  BY <3>1, <3>2
  <2>7. Ordered(cl)
    <3> SUFFICES ASSUME NEW i \in 1 .. Len(rs)
                 PROVE  /\ cl[i].end # Open => cl[i].start <= cl[i].end
                        /\ i < Len(rs) => /\ cl[i].end # Open
                                          /\ cl[i].end <= cl[i + 1].start
        BY <2>3 DEF cl, Ordered
    <3>1. CASE i = Len(rs)
          BY <2>1, <2>2, <2>4, <3>1 DEF cl, Within
    <3>2. CASE i < Len(rs)
      <4>1. i + 1 \in 1 .. Len(rs)  BY <3>2
      <4>2. cl[i] = rs[i] /\ cl[i + 1].start = rs[i + 1].start  BY <2>4, <3>2, <4>1 DEF cl
      <4>3. QED  BY <2>1, <3>2, <4>2 DEF Ordered
    <3>3. QED  BY <3>1, <3>2
  <2>8. QED  BY <2>3, <2>6, <2>7 DEF cl, Within
<1>2. CASE ~LastIsOpen(rs)
  BY <1>2 DEF CloseLast
<1>3. QED  BY <1>1, <1>2

\* Observing keeps the type whatever the runs look like.
LEMMA ObserveType ==
    ASSUME NEW rs \in Seq(Run), NEW task \in Nat, NEW ts \in Nat
    PROVE  Observe(rs, task, ts) \in Seq(Run)
<1>1. [start |-> ts, end |-> Open, task |-> task] \in Run  BY DEF Run
<1>2. CloseLast(rs, ts) \in Seq(Run)  BY CloseLastProps
<1>3. QED  BY <1>1, <1>2 DEF Observe

\* Every run of `new` is one of rs, possibly with another end, or the one that
\* the task started at ts.
Extends(new, rs, task, ts) ==
    \A i \in 1 .. Len(new) :
        \/ /\ i \in 1 .. Len(rs)
           /\ new[i].start = rs[i].start
           /\ new[i].task = rs[i].task
        \/ new[i].start = ts /\ new[i].task = task

LEMMA ObserveProps ==
    ASSUME NEW rs \in Seq(Run), NEW task \in Nat, NEW ts \in Nat,
           Ordered(rs), Within(rs, ts)
    PROVE  /\ Observe(rs, task, ts) \in Seq(Run)
           /\ Ordered(Observe(rs, task, ts))
           /\ Within(Observe(rs, task, ts), ts)
           /\ Extends(Observe(rs, task, ts), rs, task, ts)
<1>1. CASE LastIsOpen(rs) /\ rs[Len(rs)].task = task
  BY <1>1 DEF Observe, Extends
<1>2. CASE ~(LastIsOpen(rs) /\ rs[Len(rs)].task = task)
  <2> DEFINE cl == CloseLast(rs, ts)
             new == [start |-> ts, end |-> Open, task |-> task]
  <2>1. Observe(rs, task, ts) = Append(cl, new)  BY <1>2 DEF Observe
  <2>2. new \in Run  BY DEF Run
  <2>3. /\ cl \in Seq(Run) /\ Len(cl) = Len(rs)
        /\ \A i \in 1 .. Len(rs) : cl[i].start = rs[i].start /\ cl[i].task = rs[i].task
        /\ ~LastIsOpen(cl)
        BY CloseLastProps
  <2>4. Ordered(cl) /\ Within(cl, ts)  BY CloseLastOrdered
  <2> HIDE DEF cl
  <2>5. Ordered(Append(cl, new))
    <3> SUFFICES ASSUME NEW i \in 1 .. Len(cl) + 1
                 PROVE  /\ Append(cl, new)[i].end # Open
                              => Append(cl, new)[i].start <= Append(cl, new)[i].end
                        /\ i < Len(cl) + 1 =>
                              /\ Append(cl, new)[i].end # Open
                              /\ Append(cl, new)[i].end <= Append(cl, new)[i + 1].start
        BY <2>2, <2>3 DEF Ordered
    <3>1. CASE i = Len(cl) + 1  BY <3>1, <2>3
    <3>2. CASE i < Len(cl)  BY <3>2, <2>3, <2>4 DEF Ordered
    <3>3. CASE i = Len(cl)
      <4>1. cl # <<>> /\ cl[i].end # Open  BY <3>3, <2>3 DEF LastIsOpen
      <4>2. Append(cl, new)[i] = cl[i] /\ Append(cl, new)[i + 1] = new  BY <3>3, <2>3
      <4>3. cl[i].start <= cl[i].end /\ cl[i].end <= ts  BY <3>3, <4>1, <2>4 DEF Ordered, Within
      <4>4. QED  BY <4>1, <4>2, <4>3
    <3>4. QED  BY <3>1, <3>2, <3>3, <2>3
  <2>6. Within(Append(cl, new), ts)  BY <2>2, <2>3, <2>4 DEF Within
  <2>7. Extends(Append(cl, new), rs, task, ts)  BY <2>2, <2>3 DEF Extends
  <2>8. QED  BY <2>1, <2>2, <2>3, <2>5, <2>6, <2>7
<1>3. QED  BY <1>1, <1>2

\* Ordered runs, none beyond `limit`, each of a task born (one of `births`) by
\* the time its run starts.
Sound(rs, limit, births) ==
    /\ Ordered(rs)
    /\ Within(rs, limit)
    /\ \A i \in DOMAIN rs : rs[i].task \in births /\ rs[i].task <= rs[i].start

\* Soundness survives later feeds and further births.
LEMMA SoundMono ==
    ASSUME NEW rs \in Seq(Run), NEW limit \in Nat, NEW later \in Nat, limit <= later,
           NEW births, NEW more, births \subseteq more, Sound(rs, limit, births)
    PROVE  Sound(rs, later, more)
<1>1. \A i \in DOMAIN rs : rs[i] \in Run  OBVIOUS
<1>2. Within(rs, later)  BY <1>1 DEF Sound, Within, Run
<1>3. QED  BY <1>2 DEF Sound

LEMMA SoundObserve ==
    ASSUME NEW rs \in Seq(Run), NEW ts \in Nat, NEW births, NEW task \in births,
           task \in Nat, task <= ts, Sound(rs, ts, births)
    PROVE  Sound(Observe(rs, task, ts), ts, births)
<1> DEFINE new == Observe(rs, task, ts)
<1>0. Ordered(rs) /\ Within(rs, ts)  BY DEF Sound
<1>1. /\ new \in Seq(Run) /\ Ordered(new) /\ Within(new, ts)
      /\ Extends(new, rs, task, ts)
      BY <1>0, ObserveProps
<1> HIDE DEF new
<1>2. \A i \in DOMAIN new : new[i].task \in births /\ new[i].task <= new[i].start
      BY <1>1 DEF Sound, Extends
<1>3. QED  BY <1>1, <1>2 DEF Sound, new

LEMMA SoundClose ==
    ASSUME NEW rs \in Seq(Run), NEW ts \in Nat, NEW births, Sound(rs, ts, births)
    PROVE  Sound(CloseLast(rs, ts), ts, births)
<1> DEFINE new == CloseLast(rs, ts)
<1>1. /\ new \in Seq(Run) /\ Ordered(new) /\ Within(new, ts)
      /\ Len(new) = Len(rs)
      /\ \A i \in 1 .. Len(rs) : new[i].start = rs[i].start /\ new[i].task = rs[i].task
      BY CloseLastProps, CloseLastOrdered DEF Sound
<1> HIDE DEF new
<1>2. \A i \in DOMAIN new : new[i].task \in births /\ new[i].task <= new[i].start
      BY <1>1 DEF Sound
<1>3. QED  BY <1>1, <1>2 DEF Sound, new

-----------------------------------------------------------------------------
(***************************************************************************)
(* Type correctness and the inductive invariant.                           *)
(***************************************************************************)

\* h is the starttime of a task that owns or has owned the id t.
Born(t, h) == \/ alive[t] # NoTask /\ alive[t].start = h
              \/ \E d \in deaths : d.tid = t /\ d.start = h

\* Lives are in the past, and those of one id follow each other.
LivesInv ==
    /\ \A d \in deaths : d.start <= d.at /\ d.at <= now
    /\ \A t \in Tids : alive[t] # NoTask =>
          /\ alive[t].start <= now
          /\ \A d \in deaths : d.tid = t => d.start <= alive[t].start

\* An event's generation is the last one born by the time of the event.
EventsInv ==
    \A ev \in events :
        /\ ev.ts <= now
        /\ \/ alive[ev.tid] # NoTask /\ alive[ev.tid].start = ev.start
           \/ \E d \in deaths : d.tid = ev.tid /\ ev.ts <= d.at
        /\ \A h \in Nat : Born(ev.tid, h) /\ h <= ev.ts => h <= ev.start

\* A row shows a task born by the time the feed stamps it.
RowsInv ==
    \A i \in DOMAIN rows :
        /\ Born(rows[i].tid, rows[i].start)
        /\ rows[i].start <= now
        /\ phase = "feed" => rows[i].start <= feedTs

Births(t) == {h \in Nat : Born(t, h)}

\* The tracker's runs are sound for the tasks born and the feeds made so far.
RunsInv == \A t \in Tids : Sound(runs[t], feedTs, Births(t))

IInv == TypeOK /\ LivesInv /\ EventsInv /\ RowsInv /\ RunsInv

LEMMA InitIInv == Init => IInv
  BY OpenAssumption, NoTaskAssumption
  DEF Init, IInv, TypeOK, LivesInv, EventsInv, RowsInv, RunsInv, Born, Births,
      Sound, Ordered, Within, Phases, Entries, Kinds, Task, Run

\* Seen is a set of tasks whenever rows is a sequence of them.
LEMMA SeenType == rows \in Seq(Task) => Seen \in SUBSET Task
  BY DEF Seen

\* A case split on Next, with the facts each action needs to keep the types.
LEMMA TypeStep == TypeOK /\ [Next]_vars => TypeOK'
<1> SUFFICES ASSUME TypeOK, [Next]_vars PROVE TypeOK'
    OBVIOUS
<1> USE DEF TypeOK, kernelVars, scanVars, feedVars
<1>1. CASE Tick  BY <1>1 DEF Tick
<1>2. ASSUME NEW t \in Tids, NEW k \in Kinds, Create(t, k) PROVE TypeOK'
      BY <1>2 DEF Create
<1>3. ASSUME NEW t \in Tids, Die(t) PROVE TypeOK'
  <2>1. alive[t] \in [start : Nat, kind : Kinds]  BY <1>3 DEF Die
  <2>2. QED  BY <1>3, <2>1 DEF Die
<1>4. ASSUME NEW t \in Tids, Emit(t) PROVE TypeOK'
  <2>1. alive[t] \in [start : Nat, kind : Kinds]  BY <1>4 DEF Emit
  <2>2. QED  BY <1>4, <2>1 DEF Emit
<1>5. CASE ScanBegin  BY <1>5 DEF ScanBegin, Phases
<1>6. ASSUME NEW t \in Tids, NEW k \in Kinds, ReadTask(t, k) PROVE TypeOK'
  <2>1. CASE rows' # rows
    <3>0. alive[t] \in [start : Nat, kind : Kinds]  BY <1>6, <2>1 DEF ReadTask
    <3> DEFINE r == [tid |-> t, start |-> alive[t].start]
    <3>1. r \in Task  BY <3>0 DEF Task
    <3>2. rows' = Append(rows, r) /\ rows \in Seq(Task)  BY <1>6, <2>1 DEF ReadTask
    <3> HIDE DEF r
    <3>3. rows' \in Seq(Task)  BY <3>1, <3>2
    <3>4. QED  BY <1>6, <3>3 DEF ReadTask
  <2>2. CASE rows' = rows
    BY <1>6, <2>2 DEF ReadTask
  <2>3. QED  BY <2>1, <2>2
<1>7. CASE ScanEnd  BY <1>7, SeenType DEF ScanEnd, Phases
<1>8. CASE ScanRaises  BY <1>8 DEF ScanRaises, Phases
<1>9. CASE WriteRows  BY <1>9 DEF WriteRows, Phases
<1>10. CASE WriteRaises  BY <1>10 DEF WriteRaises, Phases
<1>11. CASE ObserveRow
  <2>1. Head(rows) \in Task /\ Tail(rows) \in Seq(Task)  BY <1>11 DEF ObserveRow
  <2>2. Observe(runs[Head(rows).tid], Head(rows).start, feedTs) \in Seq(Run)
        BY <2>1, ObserveType DEF Task
  <2>3. QED  BY <1>11, <2>1, <2>2 DEF ObserveRow, Task
<1>12. ASSUME NEW e \in exited, CloseExited(e) PROVE TypeOK'
  <2>1. e \in Task /\ CloseLast(runs[e.tid], feedTs) \in Seq(Run)
        BY CloseLastProps DEF Task
  <2>2. QED  BY <1>12, <2>1 DEF CloseExited, Task
<1>13. CASE FeedEnd  BY <1>13 DEF FeedEnd, Phases
<1>14. CASE Stop  BY <1>14 DEF Stop, Phases
<1>15. CASE UNCHANGED vars  BY <1>15 DEF vars
<1>16. QED
  BY <1>1, <1>2, <1>3, <1>4, <1>5, <1>6, <1>7, <1>8, <1>9, <1>10, <1>11, <1>12,
     <1>13, <1>14, <1>15 DEF Next

\* Lives move only in Create and Die (and the clock only forward).
LEMMA LivesStep == TypeOK /\ LivesInv /\ [Next]_vars => LivesInv'
<1> SUFFICES ASSUME TypeOK, LivesInv, [Next]_vars PROVE LivesInv'
    OBVIOUS
<1> USE DEF LivesInv
<1>1. CASE Tick  BY <1>1 DEF Tick, TypeOK, kernelVars
<1>2. ASSUME NEW t \in Tids, NEW k \in Kinds, Create(t, k) PROVE LivesInv'
  <2>1. alive'[t] = [start |-> now, kind |-> k]
        /\ \A u \in Tids : u # t => alive'[u] = alive[u]
        BY <1>2 DEF Create, TypeOK
  <2>2. deaths' = deaths /\ now' = now  BY <1>2 DEF Create
  <2>3. \A d \in deaths : d.start \in Nat /\ d.at \in Nat  BY DEF TypeOK
  <2>4. QED  BY <2>1, <2>2, <2>3 DEF TypeOK
<1>3. ASSUME NEW t \in Tids, Die(t) PROVE LivesInv'
  <2>1. alive'[t] = NoTask /\ \A u \in Tids : u # t => alive'[u] = alive[u]
        BY <1>3 DEF Die, TypeOK
  <2>2. deaths' = deaths \cup {[tid |-> t, start |-> alive[t].start, at |-> now]}
        /\ now' = now
        BY <1>3 DEF Die
  <2>3. alive[t] # NoTask  BY <1>3 DEF Die
  <2>4. \A d \in deaths' : d.start <= d.at /\ d.at <= now'
        BY <2>2, <2>3 DEF TypeOK
  <2>5. ASSUME NEW u \in Tids, alive'[u] # NoTask
        PROVE  /\ alive'[u].start <= now'
               /\ \A d \in deaths' : d.tid = u => d.start <= alive'[u].start
        BY <2>1, <2>2, <2>5
  <2>6. QED  BY <2>4, <2>5
<1>4. ASSUME NEW t \in Tids, Emit(t) PROVE LivesInv'
      BY <1>4 DEF Emit
<1>5. CASE UNCHANGED <<now, alive, deaths>>  BY <1>5
<1>6. QED
  BY <1>1, <1>2, <1>3, <1>4, <1>5
  DEF Next, ScanBegin, ReadTask, ScanEnd, ScanRaises, WriteRows, WriteRaises,
      ObserveRow, CloseExited, FeedEnd, Stop, vars, kernelVars

\* Who was born stays born, and only Create adds a birth, at the present time.
LEMMA BornStep ==
    ASSUME TypeOK, [Next]_vars, NEW t \in Tids, NEW h
    PROVE  /\ Born(t, h) => Born(t, h)'
           /\ Born(t, h)' => Born(t, h) \/ (h = now /\ \E k \in Kinds : Create(t, k))
<1> USE DEF Born
<1>1. ASSUME NEW u \in Tids, NEW k \in Kinds, Create(u, k)
      PROVE  /\ Born(t, h) => Born(t, h)'
             /\ Born(t, h)' => Born(t, h) \/ (h = now /\ \E l \in Kinds : Create(t, l))
  <2>1. /\ alive[u] = NoTask /\ alive'[u] = [start |-> now, kind |-> k]
        /\ \A v \in Tids : v # u => alive'[v] = alive[v]
        /\ deaths' = deaths
        BY <1>1 DEF Create, TypeOK
  <2>2. CASE u = t  BY <1>1, <2>1, <2>2
  <2>3. CASE u # t  BY <2>1, <2>3
  <2>4. QED  BY <2>2, <2>3
<1>2. ASSUME NEW u \in Tids, Die(u)
      PROVE  Born(t, h) <=> Born(t, h)'
  <2>1. /\ alive[u] # NoTask /\ alive'[u] = NoTask
        /\ \A v \in Tids : v # u => alive'[v] = alive[v]
        /\ deaths' = deaths \cup {[tid |-> u, start |-> alive[u].start, at |-> now]}
        BY <1>2 DEF Die, TypeOK
  <2> DEFINE nd == [tid |-> u, start |-> alive[u].start, at |-> now]
  <2>2. CASE u = t
    <3>1. nd \in deaths' /\ nd.tid = t /\ nd.start = alive[t].start  BY <2>1, <2>2
    <3>2. ASSUME Born(t, h) PROVE Born(t, h)'
      <4>1. CASE alive[t].start = h  BY <3>1, <4>1
      <4>2. CASE \E d \in deaths : d.tid = t /\ d.start = h  BY <2>1, <4>2
      <4>3. QED  BY <3>2, <4>1, <4>2
    <3>3. ASSUME Born(t, h)' PROVE Born(t, h)
      <4>1. PICK d \in deaths' : d.tid = t /\ d.start = h  BY <2>1, <2>2, <3>3
      <4>2. CASE d = nd  BY <2>1, <2>2, <3>1, <4>1, <4>2
      <4>3. CASE d \in deaths  BY <4>1, <4>3
      <4>4. QED  BY <2>1, <4>1, <4>2, <4>3
    <3>4. QED  BY <3>2, <3>3
  <2>3. CASE u # t  BY <2>1, <2>3
  <2>4. QED  BY <2>2, <2>3
<1>3. CASE UNCHANGED <<alive, deaths>>  BY <1>3
<1>4. QED
  BY <1>1, <1>2, <1>3
  DEF Next, Tick, Emit, ScanBegin, ReadTask, ScanEnd, ScanRaises, WriteRows,
      WriteRaises, ObserveRow, CloseExited, FeedEnd, Stop, vars, kernelVars

\* Create hands out a starttime later than every event of the id, because the
\* id was free and its last owner died before now; so it changes nothing about
\* which generation was the last at the time of an earlier event.
LEMMA EventsStep == TypeOK /\ LivesInv /\ EventsInv /\ [Next]_vars => EventsInv'
<1> SUFFICES ASSUME TypeOK, LivesInv, EventsInv, [Next]_vars PROVE EventsInv'
    OBVIOUS
<1>0. \A ev \in events : ev.tid \in Tids /\ ev.ts \in Nat /\ ev.start \in Nat
      BY DEF TypeOK
<1>1. ASSUME NEW t \in Tids, NEW k \in Kinds, Create(t, k) PROVE EventsInv'
  <2>1. /\ alive[t] = NoTask
        /\ alive'[t] = [start |-> now, kind |-> k]
        /\ \A u \in Tids : u # t => alive'[u] = alive[u]
        /\ deaths' = deaths /\ now' = now /\ events' = events
        /\ \A d \in deaths : d.tid = t => d.at < now
        BY <1>1 DEF Create, TypeOK
  <2>2. ASSUME NEW ev \in events PROVE
          /\ ev.ts <= now
          /\ \/ alive'[ev.tid] # NoTask /\ alive'[ev.tid].start = ev.start
             \/ \E d \in deaths : d.tid = ev.tid /\ ev.ts <= d.at
        <3>1. CASE ev.tid = t  BY <2>1, <3>1 DEF EventsInv
        <3>2. CASE ev.tid # t  BY <1>0, <2>1, <3>2 DEF EventsInv
        <3>3. QED  BY <3>1, <3>2
  <2>3. ASSUME NEW ev \in events, NEW h \in Nat, Born(ev.tid, h)', h <= ev.ts
        PROVE  h <= ev.start
    <3>1. CASE Born(ev.tid, h)  BY <2>3, <3>1 DEF EventsInv
    <3>2. CASE ~Born(ev.tid, h)
      <4>1. h = now /\ \E l \in Kinds : Create(ev.tid, l)
            BY <1>0, <2>3, <3>2, BornStep
      <4>2. alive[ev.tid] = NoTask /\ \A d \in deaths : d.tid = ev.tid => d.at < now
            BY <4>1 DEF Create
      <4>3. PICK d \in deaths : d.tid = ev.tid /\ ev.ts <= d.at
            BY <4>2 DEF EventsInv
      <4>4. d.at < now /\ d.at \in Nat  BY <4>2, <4>3 DEF TypeOK
      <4>5. QED  BY <1>0, <2>3, <4>1, <4>3, <4>4 DEF TypeOK
    <3>3. QED  BY <3>1, <3>2
  <2>4. QED  BY <2>1, <2>2, <2>3 DEF EventsInv
<1>2. ASSUME NEW t \in Tids, Die(t) PROVE EventsInv'
  <2>1. /\ alive'[t] = NoTask
        /\ \A u \in Tids : u # t => alive'[u] = alive[u]
        /\ deaths' = deaths \cup {[tid |-> t, start |-> alive[t].start, at |-> now]}
        /\ now' = now /\ events' = events
        BY <1>2 DEF Die, TypeOK
  <2>2. ASSUME NEW ev \in events PROVE
          /\ ev.ts <= now
          /\ \/ alive'[ev.tid] # NoTask /\ alive'[ev.tid].start = ev.start
             \/ \E d \in deaths' : d.tid = ev.tid /\ ev.ts <= d.at
        <3>1. CASE ev.tid = t
          <4> DEFINE nd == [tid |-> t, start |-> alive[t].start, at |-> now]
          <4>1. nd \in deaths' /\ nd.tid = ev.tid /\ nd.at = now  BY <2>1, <3>1
          <4>2. ev.ts <= now  BY DEF EventsInv
          <4>3. ev.ts <= nd.at  BY <4>1, <4>2
          <4> HIDE DEF nd
          <4>4. QED  BY <4>1, <4>2, <4>3
        <3>2. CASE ev.tid # t  BY <1>0, <2>1, <3>2 DEF EventsInv
        <3>3. QED  BY <3>1, <3>2
  <2>3. ~(\E u \in Tids, k \in Kinds : Create(u, k))
        BY <1>2, <2>1 DEF Create, Die, TypeOK
  <2>4. ASSUME NEW ev \in events, NEW h \in Nat, Born(ev.tid, h)', h <= ev.ts
        PROVE  h <= ev.start
        BY <1>0, <2>3, <2>4, BornStep DEF EventsInv
  <2>5. QED  BY <2>1, <2>2, <2>4 DEF EventsInv
<1>3. ASSUME NEW t \in Tids, Emit(t) PROVE EventsInv'
  <2> DEFINE new == [tid |-> t, ts |-> now, start |-> alive[t].start]
  <2>1. /\ alive[t] # NoTask /\ alive' = alive /\ deaths' = deaths /\ now' = now
        /\ events' = events \cup {new}
        BY <1>3 DEF Emit
  <2>2. \A h \in Nat : Born(t, h) => h <= alive[t].start
        BY <2>1 DEF Born, LivesInv, TypeOK
  <2>3. now <= now  BY DEF TypeOK
  <2>4. QED  BY <2>1, <2>2, <2>3 DEF EventsInv, Born
<1>4. CASE Tick
  <2>1. now' = now + 1 /\ events' = events /\ alive' = alive /\ deaths' = deaths
        BY <1>4 DEF Tick, kernelVars
  <2>2. \A ev \in events : ev.ts <= now'
        BY <1>0, <2>1 DEF EventsInv, TypeOK
  <2>3. QED  BY <2>1, <2>2 DEF EventsInv, Born
<1>5. CASE UNCHANGED <<now, alive, deaths, events>>
  BY <1>5 DEF EventsInv, Born
<1>6. QED
  BY <1>1, <1>2, <1>3, <1>4, <1>5
  DEF Next, ScanBegin, ReadTask, ScanEnd, ScanRaises, WriteRows, WriteRaises,
      ObserveRow, CloseExited, FeedEnd, Stop, vars, kernelVars

\* Rows are read from tasks alive at the time, which is before the feed.
LEMMA RowsStep == TypeOK /\ LivesInv /\ RowsInv /\ [Next]_vars => RowsInv'
<1> SUFFICES ASSUME TypeOK, LivesInv, RowsInv, [Next]_vars PROVE RowsInv'
    OBVIOUS
<1>0. \A i \in DOMAIN rows : rows[i].tid \in Tids /\ rows[i].start \in Nat
  <2>1. \A i \in DOMAIN rows : rows[i] \in Task  BY DEF TypeOK
  <2>2. QED  BY <2>1 DEF Task
<1>1. \A i \in DOMAIN rows : Born(rows[i].tid, rows[i].start)'
      \/ rows' # rows
  BY <1>0, BornStep DEF RowsInv
<1>2. ASSUME NEW t \in Tids, NEW k \in Kinds, ReadTask(t, k) PROVE RowsInv'
  <2>1. phase' = phase /\ phase = "scan" /\ alive' = alive /\ deaths' = deaths /\ now' = now
        BY <1>2 DEF ReadTask, kernelVars
  <2>2. CASE rows' # rows
    <3> DEFINE r == [tid |-> t, start |-> alive[t].start]
    <3>1. rows' = Append(rows, r) /\ rows \in Seq(Task)
          BY <1>2, <2>2 DEF ReadTask, TypeOK
    <3>2. Born(r.tid, r.start) /\ r.start <= now
          BY <1>2, <2>2 DEF ReadTask, Born, LivesInv
    <3> HIDE DEF r
    <3>3. \A i \in DOMAIN rows' : rows'[i] = r \/ (i \in DOMAIN rows /\ rows'[i] = rows[i])
          BY <3>1
    <3>4. QED  BY <2>1, <3>2, <3>3 DEF RowsInv, Born
  <2>3. CASE rows' = rows
    BY <2>1, <2>3 DEF RowsInv, Born
  <2>4. QED  BY <1>2, <2>2, <2>3 DEF ReadTask
<1>3. CASE rows' = <<>>  BY <1>3 DEF RowsInv
<1>4. CASE ObserveRow
  <2>1. /\ rows # <<>> /\ rows' = Tail(rows) /\ rows \in Seq(Task)
        /\ phase' = phase /\ feedTs' = feedTs
        /\ alive' = alive /\ deaths' = deaths /\ now' = now
        BY <1>4 DEF ObserveRow, kernelVars, TypeOK
  <2>2. \A i \in DOMAIN rows' : i + 1 \in DOMAIN rows /\ rows'[i] = rows[i + 1]
        BY <2>1
  <2>3. QED  BY <2>1, <2>2 DEF RowsInv, Born
<1>5. CASE WriteRows
  <2>1. /\ rows' = rows /\ feedTs' = now /\ now' = now
        BY <1>5 DEF WriteRows, scanVars
  <2>2. QED  BY <1>0, <1>1, <2>1 DEF RowsInv
<1>6. CASE /\ rows' = rows /\ feedTs' = feedTs /\ now' \in {now, now + 1}
           /\ phase' = phase \/ phase' # "feed"
  BY <1>0, <1>1, <1>6 DEF RowsInv, TypeOK
<1>7. QED
  BY <1>2, <1>3, <1>4, <1>5, <1>6
  DEF Next, Tick, Create, Die, Emit, ScanBegin, ScanEnd, ScanRaises, WriteRaises,
      CloseExited, FeedEnd, Stop, vars, kernelVars, scanVars, feedVars

\* Only a feed moves the runs, by Observe and CloseLast at its timestamp.
LEMMA RunsStep ==
    TypeOK /\ RowsInv /\ RunsInv /\ [Next]_vars => RunsInv'
<1> SUFFICES ASSUME TypeOK, RowsInv, RunsInv, [Next]_vars PROVE RunsInv'
    OBVIOUS
<1>1. ASSUME NEW t \in Tids PROVE Births(t) \subseteq Births(t)'
      BY BornStep DEF Births
<1>2. ASSUME NEW t \in Tids
      PROVE  runs[t] \in Seq(Run) /\ Sound(runs[t], feedTs, Births(t)')
  <2>1. runs[t] \in Seq(Run) /\ feedTs \in Nat /\ Sound(runs[t], feedTs, Births(t))
        BY DEF TypeOK, RunsInv
  <2>2. QED  BY <1>1, <2>1, SoundMono
<1>3. CASE runs' = runs /\ feedTs' = feedTs
  BY <1>2, <1>3 DEF RunsInv
<1>4. CASE WriteRows
  <2>1. runs' = runs /\ feedTs' = now  BY <1>4 DEF WriteRows
  <2>2. feedTs \in Nat /\ now \in Nat /\ feedTs <= now  BY DEF TypeOK
  <2>3. ASSUME NEW t \in Tids PROVE Sound(runs[t], now, Births(t)')
        BY <1>2, <2>2, SoundMono
  <2>4. QED  BY <2>1, <2>3 DEF RunsInv
<1>5. CASE ObserveRow
  <2>0. Head(rows) \in Task  BY <1>5 DEF ObserveRow, TypeOK
  <2> PICK r \in Task : r = Head(rows)  BY <2>0
  <2> DEFINE new == Observe(runs[r.tid], r.start, feedTs)
  <2>1. 1 \in DOMAIN rows /\ r = rows[1] /\ phase = "feed"
        BY <1>5 DEF ObserveRow, TypeOK
  <2>2. r.tid \in Tids /\ r.start \in Nat /\ r.start <= feedTs /\ Born(r.tid, r.start)
        BY <2>1 DEF RowsInv, Task
  <2>3. runs' = [runs EXCEPT ![r.tid] = new] /\ feedTs' = feedTs
        BY <1>5 DEF ObserveRow
  <2>4. r.start \in Births(r.tid)'  BY <1>1, <2>2 DEF Births
  <2>5. Sound(new, feedTs, Births(r.tid)')
        BY <1>2, <2>2, <2>4, SoundObserve DEF TypeOK
  <2>6. \A t \in Tids : runs'[t] = IF t = r.tid THEN new ELSE runs[t]
        BY <2>2, <2>3 DEF TypeOK
  <2> HIDE DEF new
  <2>7. QED  BY <1>2, <2>2, <2>3, <2>5, <2>6 DEF RunsInv
<1>6. ASSUME NEW e \in exited, CloseExited(e) PROVE RunsInv'
  <2> DEFINE new == CloseLast(runs[e.tid], feedTs)
  <2>1. e.tid \in Tids  BY DEF TypeOK, Task
  <2>2. runs' = [runs EXCEPT ![e.tid] = new] /\ feedTs' = feedTs
        BY <1>6 DEF CloseExited
  <2>3. Sound(new, feedTs, Births(e.tid)')
        BY <1>2, <2>1, SoundClose DEF TypeOK
  <2>4. \A t \in Tids : runs'[t] = IF t = e.tid THEN new ELSE runs[t]
        BY <2>1, <2>2 DEF TypeOK
  <2> HIDE DEF new
  <2>5. QED  BY <1>2, <2>1, <2>2, <2>3, <2>4 DEF RunsInv
<1>7. QED
  BY <1>3, <1>4, <1>5, <1>6
  DEF Next, Tick, Create, Die, Emit, ScanBegin, ReadTask, ScanEnd, ScanRaises,
      WriteRaises, FeedEnd, Stop, vars, feedVars

-----------------------------------------------------------------------------
(***************************************************************************)
(* The theorems.                                                           *)
(***************************************************************************)

LEMMA Invariance == Spec => []IInv
<1>1. IInv /\ [Next]_vars => IInv'
      BY TypeStep, LivesStep, EventsStep, RowsStep, RunsStep DEF IInv
<1>2. QED  BY InitIInv, <1>1, PTL DEF Spec

\* Every variable keeps its type, and no timestamp runs ahead of the clock.
THEOREM TypeCorrect == Spec => []TypeOK
<1>1. IInv => TypeOK  BY DEF IInv
<1>2. QED  BY Invariance, <1>1, PTL

\* The runs of every id stay ordered and disjoint, so an event has at most one
\* owner (GenerationTracker.observe and close).
THEOREM RunsAreOrdered == Spec => []RunsOrdered
<1>1. IInv => RunsOrdered  BY DEF IInv, RunsInv, Sound, RunsOrdered
<1>2. QED  BY Invariance, <1>1, PTL

\* A set of naturals that is not empty has a least element.
LEMMA LeastNat ==
    ASSUME NEW T, T \subseteq Nat, T # {}
    PROVE  \E i \in T : \A j \in T : i <= j
<1> DEFINE less == {ss \in Nat \X Nat : ss[1] < ss[2]}
<1>1. IsWellFoundedOn(less, Nat)  BY NatLessThanWellFounded DEF OpToRel
<1>2. \E i \in T : \A j \in T : ~(<<j, i>> \in less)
  <2> HIDE DEF less
  <2>1. QED  BY <1>1, WFMin
<1>3. PICK i \in T : \A j \in T : ~(<<j, i>> \in less)  BY <1>2
<1>4. \A j \in T : i <= j
  <2> SUFFICES ASSUME NEW j \in T PROVE i <= j
      OBVIOUS
  <2>1. i \in Nat /\ j \in Nat  OBVIOUS
  <2>2. ~(j < i)  BY <1>3, <2>1
  <2>3. QED  BY <2>1, <2>2
<1>5. QED  BY <1>3, <1>4

\* A resolved timestamp belongs to the task of a run that holds it.
LEMMA ResolveHit ==
    ASSUME NEW rs \in Seq(Run), NEW ts \in Nat, Holding(rs, ts) # {}
    PROVE  \E i \in DOMAIN rs : Holds(rs[i], ts) /\ Resolve(rs, ts) = rs[i].task
<1> DEFINE hits == Holding(rs, ts)
<1>1. hits \subseteq Nat  BY DEF Holding
<1>2. \E i \in hits : \A j \in hits : i <= j  BY <1>1, LeastNat
<1>3. QED  BY <1>2 DEF Resolve, Holding

\* An event is never attributed to a task that took the id after the event:
\* a reused id does not inherit the old task's events.
THEOREM NoEventGoesToALaterTask == Spec => []NoFutureAttribution
<1>1. ASSUME IInv PROVE NoFutureAttribution
  <2> SUFFICES ASSUME NEW ev \in events, Attributed(ev) # Unresolved
               PROVE  Attributed(ev) <= ev.start
      BY DEF NoFutureAttribution
  <2>1. ev.tid \in Tids /\ ev.ts \in Nat /\ runs[ev.tid] \in Seq(Run)
        BY <1>1 DEF IInv, TypeOK
  <2>2. Holding(runs[ev.tid], ev.ts) # {}  BY DEF Attributed, Resolve
  <2>3. PICK i \in DOMAIN runs[ev.tid] : /\ Holds(runs[ev.tid][i], ev.ts)
                                         /\ Attributed(ev) = runs[ev.tid][i].task
        BY <2>1, <2>2, ResolveHit DEF Attributed
  <2>4. runs[ev.tid][i] \in Run  BY <2>1
  <2>5. /\ Born(ev.tid, Attributed(ev)) /\ Attributed(ev) \in Nat
        /\ Attributed(ev) <= runs[ev.tid][i].start
        BY <1>1, <2>1, <2>3 DEF IInv, RunsInv, Sound, Births
  <2>6. Attributed(ev) <= ev.ts  BY <2>1, <2>3, <2>4, <2>5 DEF Holds, Run
  <2>7. QED  BY <1>1, <2>5, <2>6 DEF IInv, EventsInv
<1>2. QED  BY Invariance, <1>1, PTL

\* Two sequences of runs of which the same positions hold a timestamp, with the
\* same tasks there, resolve it alike.
LEMMA SameHits ==
    ASSUME NEW rs \in Seq(Run), NEW other \in Seq(Run), NEW ts \in Nat,
           Holding(other, ts) = Holding(rs, ts),
           \A i \in Holding(rs, ts) : other[i].task = rs[i].task
    PROVE  Resolve(other, ts) = Resolve(rs, ts)
<1> DEFINE hits == Holding(rs, ts)
<1>1. CASE hits = {}  BY <1>1 DEF Resolve
<1>2. CASE hits # {}
  <2>1. hits \subseteq Nat  BY DEF Holding
  <2>2. \E i \in hits : \A j \in hits : i <= j  BY <1>2, <2>1, LeastNat
  <2>3. (CHOOSE i \in hits : \A j \in hits : i <= j) \in hits  BY <2>2
  <2>4. QED  BY <1>2, <2>3 DEF Resolve
<1>3. QED  BY <1>1, <1>2

\* Closing the last run at `limit` or starting one there leaves the owner of
\* every earlier timestamp as it was.
LEMMA CloseKeepsPast ==
    ASSUME NEW rs \in Seq(Run), NEW limit \in Nat, NEW ts \in Nat, ts < limit
    PROVE  Resolve(CloseLast(rs, limit), ts) = Resolve(rs, ts)
<1> DEFINE cl == CloseLast(rs, limit)
<1>1. /\ cl \in Seq(Run) /\ Len(cl) = Len(rs)
      /\ \A i \in 1 .. Len(rs) : /\ cl[i].start = rs[i].start /\ cl[i].task = rs[i].task
                                 /\ i < Len(rs) => cl[i] = rs[i]
      BY CloseLastProps
<1>2. ASSUME NEW i \in 1 .. Len(rs) PROVE Holds(cl[i], ts) <=> Holds(rs[i], ts)
  <2>1. CASE cl[i] = rs[i]  BY <2>1
  <2>2. CASE cl[i] # rs[i]
    <3>1. LastIsOpen(rs) /\ i = Len(rs)  BY <1>1, <2>2 DEF CloseLast
    <3>2. rs[i] \in Run /\ rs[i].end = Open  BY <3>1 DEF LastIsOpen
    <3>3. cl[i].start = rs[i].start /\ cl[i].end = limit
          BY <3>1, <3>2 DEF CloseLast, Run
    <3>4. QED  BY <3>2, <3>3 DEF Holds
  <2>3. QED  BY <2>1, <2>2
<1> HIDE DEF cl
<1>3. DOMAIN cl = 1 .. Len(rs) /\ DOMAIN rs = 1 .. Len(rs)  BY <1>1
<1>4. Holding(cl, ts) = Holding(rs, ts)  BY <1>2, <1>3 DEF Holding
<1>5. \A i \in Holding(rs, ts) : cl[i].task = rs[i].task  BY <1>1, <1>3 DEF Holding
<1>6. QED  BY <1>1, <1>4, <1>5, SameHits DEF cl

LEMMA ObserveKeepsPast ==
    ASSUME NEW rs \in Seq(Run), NEW task \in Nat, NEW limit \in Nat,
           NEW ts \in Nat, ts < limit
    PROVE  Resolve(Observe(rs, task, limit), ts) = Resolve(rs, ts)
<1>1. CASE LastIsOpen(rs) /\ rs[Len(rs)].task = task
  BY <1>1 DEF Observe
<1>2. CASE ~(LastIsOpen(rs) /\ rs[Len(rs)].task = task)
  <2> DEFINE cl == CloseLast(rs, limit)
             new == [start |-> limit, end |-> Open, task |-> task]
  <2>1. Observe(rs, task, limit) = Append(cl, new)  BY <1>2 DEF Observe
  <2>2. cl \in Seq(Run) /\ new \in Run  BY CloseLastProps DEF Run
  <2>3. Resolve(cl, ts) = Resolve(rs, ts)  BY CloseKeepsPast
  <2>4. ~Holds(new, ts)  BY DEF Holds
  <2> HIDE DEF cl, new
  <2>5. /\ DOMAIN Append(cl, new) = 1 .. Len(cl) + 1 /\ DOMAIN cl = 1 .. Len(cl)
        /\ \A i \in 1 .. Len(cl) : Append(cl, new)[i] = cl[i]
        /\ Append(cl, new)[Len(cl) + 1] = new
        /\ Append(cl, new) \in Seq(Run)
        BY <2>2
  <2>6. Holding(Append(cl, new), ts) = Holding(cl, ts)
        BY <2>2, <2>4, <2>5 DEF Holding
  <2>7. \A i \in Holding(cl, ts) : Append(cl, new)[i].task = cl[i].task
        BY <2>5 DEF Holding
  <2>8. Resolve(Append(cl, new), ts) = Resolve(cl, ts)
        BY <2>2, <2>5, <2>6, <2>7, SameHits
  <2>9. QED  BY <2>1, <2>3, <2>8
<1>3. QED  BY <1>1, <1>2

\* A feed leaves the owner of every instant before its own timestamp alone, so
\* the builder may resolve after the run what was polled during it.
THEOREM FeedsKeepThePast == Spec => HistoryStable
<1> DEFINE Stable == \A t \in Tids : \A ts \in 0 .. now : ts < feedTs =>
                        Resolve(runs'[t], ts) = Resolve(runs[t], ts)
<1>1. ASSUME IInv, [Next]_vars PROVE Stable
  <2> SUFFICES ASSUME NEW t \in Tids, NEW ts \in 0 .. now, ts < feedTs
               PROVE  Resolve(runs'[t], ts) = Resolve(runs[t], ts)
      OBVIOUS
  <2>0. ts \in Nat /\ runs \in [Tids -> Seq(Run)] /\ feedTs \in Nat
        BY <1>1 DEF IInv, TypeOK
  <2>1. CASE runs' = runs  BY <2>1
  <2>2. CASE ObserveRow
    <3>1. Head(rows) \in Task
          BY <1>1, <2>2 DEF ObserveRow, IInv, TypeOK
    <3>2. PICK r \in Task : r = Head(rows)  BY <3>1
    <3>3. runs' = [runs EXCEPT ![r.tid] = Observe(runs[r.tid], r.start, feedTs)]
          BY <2>2, <3>2 DEF ObserveRow
    <3>4. CASE r.tid = t  BY <2>0, <3>3, <3>4, ObserveKeepsPast DEF Task
    <3>5. CASE r.tid # t  BY <2>0, <3>3, <3>5
    <3>6. QED  BY <3>4, <3>5
  <2>3. ASSUME NEW e \in exited, CloseExited(e)
        PROVE  Resolve(runs'[t], ts) = Resolve(runs[t], ts)
    <3>1. runs' = [runs EXCEPT ![e.tid] = CloseLast(runs[e.tid], feedTs)]
          BY <2>3 DEF CloseExited
    <3>2. CASE e.tid = t  BY <2>0, <3>1, <3>2, CloseKeepsPast
    <3>3. CASE e.tid # t  BY <2>0, <3>1, <3>3
    <3>4. QED  BY <3>2, <3>3
  <2>4. QED
    BY <1>1, <2>1, <2>2, <2>3
    DEF Next, Tick, Create, Die, Emit, ScanBegin, ReadTask, ScanEnd, ScanRaises,
        WriteRows, WriteRaises, FeedEnd, Stop, vars, feedVars
<1>2. IInv /\ [Next]_vars => [Stable]_vars  BY <1>1
<1>3. QED  BY Invariance, <1>2, PTL DEF Spec, HistoryStable

=============================================================================

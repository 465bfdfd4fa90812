------------------------- MODULE TaskSamplingProofs -------------------------
(***************************************************************************)
(* Proofs about TaskSampling, for every number of owners of the thread id, *)
(* of ticks of its counters and of scans.                                  *)
(***************************************************************************)
EXTENDS TaskSampling, FiniteSetTheorems, WellFoundedInduction, TLAPS

\* The exit of a task is stamped when it ends, and once.
KernelInv ==
    /\ gen \in Nat /\ state \in {"none", "running", "exiting", "zombie"}
    /\ utime \in Nat /\ cs \in Nat
    /\ clock \in Nat /\ now \in Nat /\ now <= clock
    /\ \A e \in exits :
           /\ e.gen \in Nat /\ e.ts \in Nat /\ e.ts <= clock
           /\ e.gen < gen \/ (e.gen = gen /\ state # "running")

\* What a scan may hold.
Images == [id : Int, ts : Int, utime : Int, cs : Int, owner : Int, source : Int, ended : BOOLEAN]

\* The later files of x were read from another task than the first.
Torn(x) == x.source \notin {None, x.owner}

\* What a snapshot or a row says of its task.
Sample(x) ==
    /\ x.owner \in Nat /\ x.owner <= gen
    /\ x.ts \in Nat /\ x.ts <= now
    /\ x.source = None \/ (x.source \in Nat /\ x.owner <= x.source /\ x.source <= gen)
    /\ \A e \in exits : e.gen = x.owner /\ e.ts < x.ts => x.ended

\* What is sampled after a torn row is of a later task.
AfterTorn(x) == x.ts = now /\ \A r \in rows : Torn(r) => r.owner < x.owner

\* The snapshot of a scan under way: the registry knows no later task, and has
\* not said that this one exited after it had read it.  An empty snapshot says
\* that the task is gone, or whose stat it could not read.
SnapInv ==
    /\ pc \in {"idle", "first", "second", "update", "write"}
    /\ pc \in {"second", "update"} /\ snap.id # None =>
           /\ snap.id = snap.owner
           /\ snap.id \notin exited \ misread
           /\ \A g \in live : g <= snap.id
           /\ Sample(snap) /\ AfterTorn(snap)
    /\ pc = "first" => snap = NoSnap
    /\ pc = "second" => snap.id # None
    /\ pc = "update" /\ snap.id = None =>
           \A g \in live \ {snap.owner} : g < gen \/ state = "none"
    /\ snap \in Images

RowsInv ==
    /\ pc = "write" => Sample(row) /\ AfterTorn(row)
    /\ \A r \in rows : Sample(r)
    /\ TornIsLast

LiveInv ==
    /\ live \in SUBSET Nat /\ exited \in SUBSET Nat
    /\ \A g \in live \cup exited : g <= gen
    /\ ExitedAreGone

IInv == KernelInv /\ SnapInv /\ RowsInv /\ LiveInv

-----------------------------------------------------------------------------
(***************************************************************************)
(* The kernel.                                                             *)
(***************************************************************************)

\* A step of the kernel changes nothing of what the sampler has read.
Read == <<pc, now, snap, row, rows, live, exited, misread>>

\* A sample stays true when the task it is of ends, is reaped, or is followed.
LEMMA SampleStays ==
    ASSUME KernelInv, KernelInv', now' = now, gen <= gen',
           NEW x, Sample(x),
           \A e \in exits' : e \in exits \/ e.ts > now
    PROVE  Sample(x)'
<1>1. \A e \in exits' : e \in exits \/ e.ts > now
  OBVIOUS
<1>2. gen' \in Nat /\ gen \in Nat /\ now \in Nat /\ \A e \in exits' : e.ts \in Nat
  BY DEF KernelInv
<1>3. x.owner \in Nat /\ x.owner <= gen' /\ x.ts \in Nat /\ x.ts <= now'
  BY <1>2 DEF Sample
<1>4. x.source = None \/ (x.source \in Nat /\ x.owner <= x.source /\ x.source <= gen')
  BY <1>2 DEF Sample
<1>5. \A e \in exits' : e.gen = x.owner /\ e.ts < x.ts => x.ended
  <2> SUFFICES ASSUME NEW e \in exits', e.gen = x.owner, e.ts < x.ts
               PROVE  x.ended
    OBVIOUS
  <2>1. e.ts \in Nat /\ ~(e.ts > now)
    BY <1>2, <1>3
  <2> QED
    BY <1>1, <2>1 DEF Sample
<1> QED
  BY <1>3, <1>4, <1>5 DEF Sample

LEMMA KernelStepKeepsIInv ==
    ASSUME IInv, UNCHANGED Read, KernelInv', gen <= gen',
           \A e \in exits' : e \in exits \/ e.ts > now,
           gen' > gen \/ (gen' = gen /\ (state = "none" => state' = "none"))
    PROVE  IInv'
<1>1. \A x : Sample(x) => Sample(x)'
  BY SampleStays DEF IInv, Read
<1>2. gen \in Nat /\ gen' \in Nat /\ \A g \in live \cup exited : g \in Nat
  BY DEF IInv, KernelInv, LiveInv
<1>3. \A x : AfterTorn(x) => AfterTorn(x)'
  BY DEF AfterTorn, Read
<1>4. SnapInv'
  <2>1. Sample(snap) => Sample(snap)'
    BY <1>1 DEF Read
  <2>2. AfterTorn(snap) => AfterTorn(snap)'
    BY DEF AfterTorn, Read
  <2>3. pc = "update" /\ snap.id = None =>
            \A g \in live \ {snap.owner} : g < gen' \/ state' = "none"
    BY <1>2 DEF IInv, SnapInv, LiveInv
  <2> QED
    BY <2>1, <2>2, <2>3 DEF IInv, SnapInv, Read
<1>5. RowsInv'
  <2>1. Sample(row) => Sample(row)'
    BY SampleStays DEF IInv, Read, Sample
  <2>2. AfterTorn(row) => AfterTorn(row)'
    BY DEF AfterTorn, Read
  <2>3. TornIsLast'
    BY DEF IInv, RowsInv, TornIsLast, Read
  <2>4. \A r \in rows' : Sample(r)'
    BY <1>1 DEF IInv, RowsInv, Read
  <2> QED
    BY <2>1, <2>2, <2>3, <2>4 DEF IInv, RowsInv, Read
<1>6. LiveInv'
  <2>1. \A g \in live \cup exited : g <= gen'
    BY <1>2 DEF IInv, LiveInv
  <2>2. \A g \in exited \ misread : g < gen' \/ state' = "none"
    BY <1>2 DEF IInv, LiveInv, ExitedAreGone
  <2> QED
    BY <2>1, <2>2 DEF IInv, LiveInv, ExitedAreGone, Read
<1> QED
  BY <1>4, <1>5, <1>6 DEF IInv

LEMMA KernelKeepsIInv ==
    ASSUME IInv, Kernel
    PROVE  IInv'
<1> USE DEF samplerVars, rowVars, Read
<1>1. CASE Fork
  <2>1. /\ state = "none" /\ gen' = gen + 1 /\ state' = "running" /\ UNCHANGED <<exits, clock>>
        /\ utime' = 0 /\ cs' = 0
        /\ UNCHANGED Read
    BY <1>1 DEF Fork
  <2>2. KernelInv'
    BY <2>1 DEF IInv, KernelInv
  <2>3. gen \in Nat
    BY DEF IInv, KernelInv
  <2> QED
    BY <2>1, <2>2, <2>3, KernelStepKeepsIInv
<1>2. CASE RunTask
  <2>1. /\ UNCHANGED <<gen, state, exits, clock>> /\ UNCHANGED Read
        /\ utime' \in {utime, utime + 1} /\ cs' \in {cs, cs + 1}
    BY <1>2 DEF RunTask
  <2>2. KernelInv'
    BY <2>1 DEF IInv, KernelInv
  <2>3. gen \in Nat
    BY DEF IInv, KernelInv
  <2> QED
    BY <2>1, <2>2, <2>3, KernelStepKeepsIInv
<1>3. CASE ExitEvent
  <2>1. /\ state = "running" /\ state' = "exiting" /\ clock' = clock + 1 /\ UNCHANGED <<gen, utime, cs>>
        /\ exits' = exits \cup {[gen |-> gen, ts |-> clock + 1]}
        /\ UNCHANGED Read
    BY <1>3 DEF ExitEvent
  <2>2. KernelInv'
    BY <2>1 DEF IInv, KernelInv
  <2>3. gen \in Nat /\ clock + 1 > now
    BY DEF IInv, KernelInv
  <2> QED
    BY <2>1, <2>2, <2>3, KernelStepKeepsIInv
<1>4. CASE ExitNotify \/ Reap
  <2>1. /\ state \in {"exiting", "zombie"} /\ state' \in {"zombie", "none"}
        /\ UNCHANGED <<gen, exits, clock, utime, cs>> /\ UNCHANGED Read
    BY <1>4 DEF ExitNotify, Reap
  <2>2. KernelInv'
    BY <2>1 DEF IInv, KernelInv
  <2>3. gen \in Nat
    BY DEF IInv, KernelInv
  <2> QED
    BY <2>1, <2>2, <2>3, KernelStepKeepsIInv
<1> QED
  BY <1>1, <1>2, <1>3, <1>4 DEF Kernel

-----------------------------------------------------------------------------
(***************************************************************************)
(* The sampler.                                                            *)
(***************************************************************************)

\* What a step of the sampler leaves to the kernel, and to the last step.
Others == <<gen, state, utime, cs, exits, live, exited, misread, rows>>

LEMMA EmptySnapshot ==
    /\ NoSnap.id = None
    /\ NoSnap \in Images
    /\ \A g \in Int : [NoSnap EXCEPT !.owner = g] \in Images /\ [NoSnap EXCEPT !.owner = g].id = None
<1>1. NoSnap.id = None /\ NoSnap \in Images
  BY DEF NoSnap, None, Images
<1>2. ASSUME NEW g \in Int
      PROVE  [NoSnap EXCEPT !.owner = g] \in Images /\ [NoSnap EXCEPT !.owner = g].id = None
  BY <1>1 DEF Images
<1> QED
  BY <1>1, <1>2

LEMMA ScanBeginKeepsIInv ==
    ASSUME IInv, ScanBegin
    PROVE  IInv'
<1>1. /\ pc' = "first" /\ clock' = clock + 1 /\ now' = clock + 1 /\ snap' = NoSnap
      /\ UNCHANGED Others
  BY DEF ScanBegin, kernelVars, samplerVars, rowVars, Others
<1>2. clock \in Nat /\ now \in Nat /\ now <= clock
  BY DEF IInv, KernelInv
<1>3. KernelInv'
  BY <1>1, <1>2 DEF IInv, KernelInv, Others
<1>4. SnapInv'
  BY <1>1, EmptySnapshot DEF SnapInv
<1>5. ASSUME NEW r \in rows PROVE Sample(r)'
  <2>1. Sample(r)
    BY <1>5 DEF IInv, RowsInv
  <2>2. r.ts \in Nat /\ r.ts <= now'
    BY <1>1, <1>2, <2>1 DEF Sample
  <2> QED
    BY <1>1, <2>1, <2>2 DEF Sample, Others
<1>6. RowsInv'
  BY <1>1, <1>5 DEF IInv, RowsInv, TornIsLast, Others
<1>7. LiveInv'
  BY <1>1 DEF IInv, LiveInv, ExitedAreGone, Others
<1> QED
  BY <1>3, <1>4, <1>6, <1>7 DEF IInv

\* Reading a file changes the snapshot only.
LEMMA FileReadKeepsIInv ==
    ASSUME IInv, UNCHANGED <<clock, now, Others>>, SnapInv', pc' # "write"
    PROVE  IInv'
<1>1. KernelInv'
  BY DEF IInv, KernelInv, Others
<1>2. RowsInv'
  BY DEF IInv, RowsInv, Sample, TornIsLast, Others
<1>3. LiveInv'
  BY DEF IInv, LiveInv, ExitedAreGone, Others
<1> QED
  BY <1>1, <1>2, <1>3 DEF IInv

\* stat is the first file, status the second.
LEMMA FileOrder ==
    /\ Opening("stat") => pc = "first" /\ AfterFile = "second"
    /\ Opening("status") => pc = "second" /\ AfterFile = "update"
  BY DEF Opening, Order, AfterFile

LEMMA ReadStatKeepsIInv ==
    ASSUME IInv, ReadStat
    PROVE  IInv'
<1>1. /\ pc = "first" /\ pc' = "second" /\ state # "none"
      /\ snap' = [snap EXCEPT !.id = gen, !.owner = gen, !.ts = now,
                              !.ended = (state # "running"), !.utime = utime]
      /\ UNCHANGED <<clock, now, Others>>
  BY FileOrder DEF ReadStat, TaskId, kernelVars, samplerVars, rowVars, Others
<1>2. gen \in Nat /\ gen # None /\ utime \in Nat /\ now \in Nat
  BY DEF IInv, KernelInv, None
<1>3. snap' \in Images
  <2>1. snap' = [id |-> gen, ts |-> now, utime |-> utime, cs |-> None,
                 owner |-> gen, source |-> None, ended |-> (state # "running")]
    <3>1. snap = NoSnap
      BY <1>1 DEF IInv, SnapInv
    <3>2. snap' = [NoSnap EXCEPT !.id = gen, !.owner = gen, !.ts = now,
                                 !.ended = (state # "running"), !.utime = utime]
      BY <1>1, <3>1
    <3> QED
      BY <3>2 DEF NoSnap
  <2>2. (state # "running") \in BOOLEAN /\ None \in Int
    BY DEF None
  <2> QED
    BY <1>2, <2>1, <2>2 DEF Images
<1>4. /\ snap'.id = gen /\ snap'.owner = gen /\ snap'.ts = now
      /\ snap'.ended = (state # "running") /\ snap'.source = None
  <2>1. snap = NoSnap
    BY <1>1 DEF IInv, SnapInv
  <2> QED
    BY <1>1, <2>1 DEF NoSnap
<1>5. gen \notin exited \ misread
  BY <1>1, <1>2 DEF IInv, LiveInv, ExitedAreGone
<1>6. \A g \in live' : g <= snap'.id
  BY <1>1, <1>4 DEF IInv, LiveInv, Others
<1>7. Sample(snap)'
  <2>1. \A e \in exits' : e.gen = gen => state # "running"
    BY <1>1, <1>2 DEF IInv, KernelInv, Others
  <2>2. \A e \in exits' : e.gen = snap'.owner => snap'.ended
    BY <1>4, <2>1
  <2> QED
    BY <1>1, <1>2, <1>4, <2>2 DEF Sample, Others
<1>8. AfterTorn(snap)'
  <2>1. \A r \in rows : Torn(r) => r.owner < gen
    BY <1>2 DEF IInv, RowsInv, Sample, Torn
  <2> QED
    BY <1>1, <1>4, <2>1 DEF AfterTorn, Torn, Others
<1>9. snap'.id # None
  BY <1>2, <1>4
<1>10. SnapInv'
  BY <1>1, <1>2, <1>3, <1>4, <1>5, <1>6, <1>7, <1>8, <1>9 DEF SnapInv, Others
<1> QED
  BY <1>1, <1>10, FileReadKeepsIInv

LEMMA ReadStatFailsKeepsIInv ==
    ASSUME IInv, ReadStatFails
    PROVE  IInv'
<1>1. /\ pc' = "update"
      /\ snap' = IF state = "none" THEN NoSnap ELSE [NoSnap EXCEPT !.owner = gen]
      /\ UNCHANGED <<clock, now, Others>>
  BY DEF ReadStatFails, kernelVars, samplerVars, rowVars, Others
<1>2. gen \in Nat /\ \A g \in live : g \in Nat /\ g <= gen
  BY DEF IInv, KernelInv, LiveInv
<1>3. snap'.id = None /\ snap' \in Images
  BY <1>1, <1>2, EmptySnapshot
<1>4. \A g \in live \ {snap'.owner} : g < gen \/ state = "none"
  <2>1. state # "none" => snap'.owner = gen
    BY <1>1 DEF NoSnap
  <2> QED
    BY <1>2, <2>1
<1>5. SnapInv'
  BY <1>1, <1>3, <1>4 DEF SnapInv, Others
<1> QED
  BY <1>1, <1>5, FileReadKeepsIInv

LEMMA ReadStatusKeepsIInv ==
    ASSUME IInv, ReadStatus
    PROVE  IInv'
<1>1. /\ pc = "second" /\ pc' = "update"
      /\ snap' = IF state = "none" THEN snap ELSE [snap EXCEPT !.cs = cs, !.source = gen]
      /\ UNCHANGED <<clock, now, Others>>
  BY FileOrder DEF ReadStatus, kernelVars, samplerVars, rowVars, Others
<1>2. gen \in Nat /\ cs \in Nat
  BY DEF IInv, KernelInv
<1>3. /\ snap.id = snap.owner /\ snap.id # None /\ snap.id \notin exited \ misread
      /\ \A g \in live : g <= snap.id
      /\ Sample(snap) /\ AfterTorn(snap)
      /\ snap \in Images
  BY <1>1 DEF IInv, SnapInv
<1>4. /\ snap' \in Images
      /\ snap'.id = snap.id /\ snap'.owner = snap.owner /\ snap'.ts = snap.ts
      /\ snap'.ended = snap.ended /\ snap'.source \in {snap.source, gen}
  <2>1. CASE state = "none"
    BY <1>1, <1>3, <2>1
  <2>2. CASE state # "none"
    <3>1. snap' = [snap EXCEPT !.cs = cs, !.source = gen]
      BY <1>1, <2>2
    <3>2. snap \in Images
      BY <1>3
    <3>3. gen \in Int /\ cs \in Int
      BY <1>2
    <3> QED
      BY <3>1, <3>2, <3>3 DEF Images
  <2> QED
    BY <2>1, <2>2
<1>5. Sample(snap)'
  BY <1>1, <1>2, <1>3, <1>4 DEF Sample, Others
<1>6. AfterTorn(snap)'
  BY <1>1, <1>3, <1>4 DEF AfterTorn, Torn, Others
<1>7. snap'.id # None
  BY <1>3, <1>4
<1>8. SnapInv'
  BY <1>1, <1>3, <1>4, <1>5, <1>6, <1>7 DEF SnapInv, Others
<1> QED
  BY <1>1, <1>8, FileReadKeepsIInv

LEMMA ReadStatusDeniedKeepsIInv ==
    ASSUME IInv, ReadStatusDenied
    PROVE  IInv'
<1>1. /\ pc' = "idle" /\ snap' = NoSnap /\ UNCHANGED <<clock, now, Others>>
  BY DEF ReadStatusDenied, kernelVars, samplerVars, rowVars, Others
<1>2. SnapInv'
  BY <1>1, EmptySnapshot DEF SnapInv
<1> QED
  BY <1>1, <1>2, FileReadKeepsIInv

\* A row has the fields of its snapshot.
LEMMA RowOfSnapshot ==
    /\ MakeRow.owner = snap.owner /\ MakeRow.source = snap.source
    /\ MakeRow.ts = snap.ts /\ MakeRow.ended = snap.ended
  BY DEF MakeRow, RowStamp

LEMMA UpdateKeepsIInv ==
    ASSUME IInv, Update
    PROVE  IInv'
<1> DEFINE found == {snap.id} \ {None}
<1>1. /\ pc = "update" /\ exited' = exited \cup (live \ found) /\ live' = found
      /\ misread' = misread \cup (IF found = {} THEN live \cap {snap.owner} ELSE {})
      /\ UNCHANGED <<gen, state, utime, cs, exits, clock, now, snap, rows>>
      /\ pc' \in {"idle", "write"}
      /\ pc' = "write" => snap.id # None /\ row' = MakeRow
  BY DEF Update, kernelVars
<1>2. snap.id # None => Sample(snap) /\ AfterTorn(snap)
  BY <1>1 DEF IInv, SnapInv
<1>3. KernelInv'
  BY <1>1 DEF IInv, KernelInv
<1>4. SnapInv'
  BY <1>1 DEF IInv, SnapInv
<1>5. RowsInv'
  <2>1. ASSUME pc' = "write" PROVE Sample(row)' /\ AfterTorn(row)'
    <3>1. row'.owner = snap.owner /\ row'.source = snap.source /\ row'.ts = snap.ts
          /\ row'.ended = snap.ended
      BY <1>1, <2>1, RowOfSnapshot
    <3>2. Sample(snap) /\ AfterTorn(snap)
      BY <1>1, <1>2, <2>1
    <3> QED
      BY <1>1, <3>1, <3>2 DEF Sample, AfterTorn
  <2>2. \A r \in rows' : Sample(r)'
    BY <1>1 DEF IInv, RowsInv, Sample
  <2>3. TornIsLast'
    BY <1>1 DEF IInv, RowsInv, TornIsLast
  <2> QED
    BY <2>1, <2>2, <2>3 DEF RowsInv
<1>6. LiveInv'
  <2>1. CASE snap.id = None
    <3>1. found = {}
      BY <2>1
    <3>2. \A g \in live \ {snap.owner} : g < gen \/ state = "none"
      BY <1>1, <2>1 DEF IInv, SnapInv
    <3>3. misread' = misread \cup (live \cap {snap.owner})
      BY <1>1, <3>1
    <3> QED
      BY <1>1, <3>1, <3>2, <3>3 DEF IInv, LiveInv, ExitedAreGone
  <2>2. CASE snap.id # None
    <3>1. /\ snap.id \notin exited \ misread /\ \A g \in live : g <= snap.id
          /\ snap.id \in Nat /\ snap.id <= gen
      BY <1>1, <2>2 DEF IInv, SnapInv, Sample
    <3>2. found = {snap.id} /\ misread' = misread
      BY <1>1, <2>2
    <3>3. gen \in Nat /\ live \in SUBSET Nat
      BY DEF IInv, KernelInv, LiveInv
    <3>4. \A g \in live \ found : g < gen
      BY <3>1, <3>2, <3>3
    <3>5. \A g \in exited \ misread : g < gen \/ state = "none"
      BY DEF IInv, LiveInv, ExitedAreGone
    <3>6. ExitedAreGone'
      BY <1>1, <3>1, <3>2, <3>4, <3>5 DEF ExitedAreGone
    <3> QED
      BY <1>1, <3>1, <3>2, <3>6 DEF IInv, LiveInv
  <2> QED
    BY <2>1, <2>2
<1> QED
  BY <1>3, <1>4, <1>5, <1>6 DEF IInv

LEMMA WriteRowKeepsIInv ==
    ASSUME IInv, WriteRow
    PROVE  IInv'
<1>1. /\ pc = "write" /\ pc' = "idle"
      /\ rows' = rows \cup {row} \/ rows' = rows
      /\ UNCHANGED <<gen, state, utime, cs, exits, clock, now, snap, live, exited, misread>>
  BY DEF WriteRow, kernelVars, samplerVars
<1>2. Sample(row) /\ AfterTorn(row)
  BY <1>1 DEF IInv, RowsInv
<1>3. KernelInv'
  BY <1>1 DEF IInv, KernelInv
<1>4. SnapInv'
  BY <1>1 DEF IInv, SnapInv
<1>5. \A r \in rows' : Sample(r)'
  BY <1>1, <1>2 DEF IInv, RowsInv, Sample
<1>6. TornIsLast'
  <2> SUFFICES ASSUME NEW r \in rows', NEW s \in rows', r.owner = s.owner, Torn(r)
               PROVE  s.ts <= r.ts
    BY DEF TornIsLast, Torn
  <2>1. \A x \in rows \cup {row} : x.ts \in Nat /\ x.ts <= now /\ x.owner \in Nat
    BY <1>2 DEF IInv, RowsInv, Sample
  <2>2. r \in rows \cup {row} /\ s \in rows \cup {row}
    BY <1>1
  <2>3. CASE r = row
    BY <2>1, <2>2, <2>3, <1>2 DEF AfterTorn
  <2>4. CASE r \in rows /\ s = row
    BY <2>1, <2>2, <2>4, <1>2 DEF AfterTorn
  <2>5. CASE r \in rows /\ s \in rows
    BY <2>5 DEF IInv, RowsInv, TornIsLast, Torn
  <2> QED
    BY <2>2, <2>3, <2>4, <2>5
<1>7. RowsInv'
  BY <1>1, <1>5, <1>6 DEF RowsInv
<1>8. LiveInv'
  BY <1>1 DEF IInv, LiveInv, ExitedAreGone
<1> QED
  BY <1>3, <1>4, <1>7, <1>8 DEF IInv

-----------------------------------------------------------------------------

LEMMA InitIInv == Init => IInv
<1> SUFFICES ASSUME Init PROVE IInv
  OBVIOUS
<1>1. KernelInv
  BY DEF Init, KernelInv
<1>2. SnapInv
  BY EmptySnapshot DEF Init, SnapInv
<1>3. RowsInv
  BY DEF Init, RowsInv, TornIsLast
<1>4. LiveInv
  BY DEF Init, LiveInv, ExitedAreGone
<1> QED
  BY <1>1, <1>2, <1>3, <1>4 DEF IInv

LEMMA IInvIsInductive ==
    ASSUME IInv, [Next]_vars
    PROVE  IInv'
<1>1. CASE UNCHANGED vars
  <2>1. UNCHANGED <<clock, now, Others, pc, snap, row>>
    BY <1>1 DEF vars, kernelVars, samplerVars, rowVars, Others
  <2>2. KernelInv'
    BY <2>1 DEF IInv, KernelInv, Others
  <2>3. SnapInv'
    BY <2>1 DEF IInv, SnapInv, Sample, AfterTorn, Others
  <2>4. RowsInv'
    BY <2>1 DEF IInv, RowsInv, Sample, AfterTorn, TornIsLast, Others
  <2>5. LiveInv'
    BY <2>1 DEF IInv, LiveInv, ExitedAreGone, Others
  <2> QED
    BY <2>2, <2>3, <2>4, <2>5 DEF IInv
<1> QED
  BY <1>1, KernelKeepsIInv, ScanBeginKeepsIInv, ReadStatKeepsIInv, ReadStatFailsKeepsIInv,
     ReadStatusKeepsIInv, ReadStatusDeniedKeepsIInv, UpdateKeepsIInv, WriteRowKeepsIInv
     DEF Next, Sampler

\* What the tables, the scan's answers, the snapshot and the rows have to do with
\* each other holds in every reachable state (sampler.py:27-57, registry.py:40-106).
THEOREM SpecIInv == Spec => []IInv
  BY InitIInv, IInvIsInductive, PTL DEF Spec

-----------------------------------------------------------------------------
(***************************************************************************)
(* The types.                                                              *)
(***************************************************************************)

\* A task that is there is one of the id's.
TypeInv == TypeOK /\ (state = "none" \/ gen \in Gens)

LEMMA Domains ==
    /\ MaxGens \in Nat /\ MaxCount \in Nat /\ MaxScans \in Nat
    /\ Gens = 1 .. MaxGens /\ Reading = (0 .. MaxCount) \cup {-1} /\ None = -1
  BY BoundsAssumption DEF Gens, Reading, Counter, None

LEMMA DeltaIsReading ==
    ASSUME NEW a \in Reading, NEW b \in Reading
    PROVE  DeltaOrNone(a, b) \in Reading
<1>1. CASE a = None \/ b = None \/ a < b
  BY <1>1, Domains DEF DeltaOrNone
<1>2. CASE ~(a = None \/ b = None \/ a < b)
  <2>1. a \in 0 .. MaxCount /\ b \in 0 .. MaxCount /\ b <= a
    BY <1>2, Domains
  <2>2. a - b \in 0 .. MaxCount
    BY <2>1, Domains
  <2> QED
    BY <1>2, <2>2, Domains DEF DeltaOrNone
<1> QED
  BY <1>1, <1>2

LEMMA EmptySnapAndRow == NoSnap \in Snaps /\ NoRow \in Rows
  BY Domains DEF NoSnap, NoRow, Snaps, Rows

LEMMA MadeRowIsRow ==
    ASSUME TypeInv
    PROVE  MakeRow \in Rows
<1> DEFINE old == IF snap.id \in DOMAIN prev THEN prev[snap.id] ELSE NoSnap
<1>1. snap \in Snaps /\ old \in Snaps
  BY EmptySnapAndRow DEF TypeInv, TypeOK
<1>2. DeltaOrNone(snap.utime, old.utime) \in Reading /\ DeltaOrNone(snap.cs, old.cs) \in Reading
  <2>1. snap.utime \in Reading /\ snap.cs \in Reading
        /\ old.utime \in Reading /\ old.cs \in Reading
    BY <1>1 DEF Snaps
  <2> QED
    BY <2>1, DeltaIsReading
<1> HIDE DEF old
<1>3. MakeRow = [id |-> snap.id, ts |-> snap.ts, utime |-> snap.utime, cs |-> snap.cs,
                 owner |-> snap.owner, source |-> snap.source, ended |-> snap.ended,
                 dutime |-> DeltaOrNone(snap.utime, old.utime),
                 dcs |-> DeltaOrNone(snap.cs, old.cs)]
  BY DEF MakeRow, RowStamp, old
<1> QED
  BY <1>1, <1>2, <1>3 DEF Snaps, Rows

LEMMA KernelKeepsTypes ==
    ASSUME TypeInv, Kernel
    PROVE  TypeInv'
<1> USE DEF samplerVars, rowVars
<1>1. UNCHANGED <<pc, scans, now, snap, row, rows, live, exited, prev, first, misread, lost>>
  BY DEF Kernel, Fork, RunTask, ExitEvent, ExitNotify, Reap
<1>2. /\ gen' \in 0 .. MaxGens /\ state' \in {"none", "running", "exiting", "zombie"}
      /\ state' = "none" \/ gen' \in Gens
      /\ utime' \in Counter /\ cs' \in Counter
      /\ clock' \in Nat
      /\ \A e \in exits' : e.gen \in Gens /\ e.ts \in Nat
  <2>1. CASE Fork
    BY <2>1, Domains DEF Fork, TypeInv, TypeOK, Counter
  <2>2. CASE RunTask
    BY <2>2, Domains DEF RunTask, TypeInv, TypeOK, Counter
  <2>3. CASE ExitEvent
    BY <2>3, Domains DEF ExitEvent, TypeInv, TypeOK, Counter
  <2>4. CASE ExitNotify \/ Reap
    BY <2>4, Domains DEF ExitNotify, Reap, TypeInv, TypeOK, Counter
  <2> QED
    BY <2>1, <2>2, <2>3, <2>4 DEF Kernel
<1> QED
  BY <1>1, <1>2 DEF TypeInv, TypeOK

\* What no step of the sampler changes of the kernel's.
LEMMA FileReadKeepsTypes ==
    ASSUME TypeInv, UNCHANGED <<kernelVars, samplerVars, rowVars>>, clock' \in Nat, now' \in Nat,
           pc' \in {"idle", "first", "second", "update"}, scans' \in 0 .. MaxScans,
           snap' \in Snaps
    PROVE  TypeInv'
  BY DEF TypeInv, TypeOK, kernelVars, samplerVars, rowVars

LEMMA ScanKeepsTypes ==
    ASSUME TypeInv, ScanBegin \/ ReadStat \/ ReadStatFails \/ ReadStatus \/ ReadStatusDenied
    PROVE  TypeInv'
<1> USE EmptySnapAndRow
<1>1. /\ clock \in Nat /\ now \in Nat /\ scans \in 0 .. MaxScans
      /\ snap \in Snaps /\ gen \in 0 .. MaxGens /\ state \in {"none", "running", "exiting", "zombie"}
      /\ state = "none" \/ gen \in Gens
      /\ utime \in Reading /\ cs \in Reading
  BY DEF TypeInv, TypeOK, Reading
<1>2. CASE ScanBegin
  BY <1>1, <1>2, Domains, FileReadKeepsTypes DEF ScanBegin
<1>3. CASE ReadStat
  <2>1. snap' = [snap EXCEPT !.id = gen, !.owner = gen, !.ts = now,
                             !.ended = (state # "running"), !.utime = utime]
    BY <1>3 DEF ReadStat, TaskId
  <2>2. gen \in Gens
    BY <1>1, <1>3 DEF ReadStat
  <2>3. snap' \in Snaps
    BY <1>1, <2>1, <2>2 DEF Snaps
  <2> QED
    BY <1>1, <1>3, <2>3, FileReadKeepsTypes, FileOrder DEF ReadStat
<1>4. CASE ReadStatFails
  <2>1. state # "none" => [NoSnap EXCEPT !.owner = gen] \in Snaps
    BY <1>1 DEF Snaps
  <2>2. snap' \in Snaps
    BY <1>4, <2>1 DEF ReadStatFails
  <2> QED
    BY <1>1, <1>4, <2>2, FileReadKeepsTypes DEF ReadStatFails
<1>5. CASE ReadStatus
  <2>1. CASE state = "none"
    BY <1>1, <1>5, <2>1, FileReadKeepsTypes, FileOrder DEF ReadStatus
  <2>2. CASE state # "none"
    <3>1. snap' = [snap EXCEPT !.cs = cs, !.source = gen]
      BY <1>5, <2>2 DEF ReadStatus
    <3>2. snap' \in Snaps
      BY <1>1, <2>2, <3>1 DEF Snaps
    <3> QED
      BY <1>1, <1>5, <3>2, FileReadKeepsTypes, FileOrder DEF ReadStatus
  <2> QED
    BY <2>1, <2>2
<1>6. CASE ReadStatusDenied
  BY <1>1, <1>6, FileReadKeepsTypes DEF ReadStatusDenied
<1> QED
  BY <1>2, <1>3, <1>4, <1>5, <1>6

LEMMA UpdateKeepsTypes ==
    ASSUME IInv, TypeInv, Update
    PROVE  TypeInv'
<1>1. /\ UNCHANGED <<kernelVars, clock, scans, now, snap, rows, lost>>
      /\ pc = "update" /\ pc' \in {"idle", "write"}
      /\ live' = {snap.id} \ {None}
      /\ exited' = exited \cup (live \ live')
      /\ misread' = misread \cup (IF live' = {} THEN live \cap {snap.owner} ELSE {})
  BY DEF Update
<1>2. live' \subseteq Gens /\ exited' \subseteq Gens /\ misread' \subseteq exited'
  BY <1>1 DEF TypeInv, TypeOK, Snaps
<1>3. /\ row' \in Rows
      /\ DOMAIN prev' \subseteq Gens /\ \A g \in DOMAIN prev' : prev'[g] \in Snaps
      /\ first' \in [Gens -> Reading]
  <2>1. CASE snap.id = None
    BY <2>1 DEF Update, TypeInv, TypeOK
  <2>2. CASE snap.id # None
    <3>1. snap \in Snaps /\ snap.id \in Gens /\ snap.utime \in Reading
      BY <1>1, <2>2 DEF IInv, SnapInv, TypeInv, TypeOK, Snaps
    <3>2. /\ row' = MakeRow /\ prev' = Remember
          /\ first' = [first EXCEPT ![snap.owner] = IF @ = None THEN snap.utime ELSE @]
      BY <2>2 DEF Update
    <3>3. row' \in Rows
      BY <3>2, MadeRowIsRow
    <3>4. DOMAIN prev' \subseteq Gens /\ \A g \in DOMAIN prev' : prev'[g] \in Snaps
      BY <3>1, <3>2 DEF Remember, TypeInv, TypeOK
    <3>5. first' \in [Gens -> Reading]
      BY <3>1, <3>2 DEF TypeInv, TypeOK
    <3> QED
      BY <3>3, <3>4, <3>5
  <2> QED
    BY <2>1, <2>2
<1> QED
  BY <1>1, <1>2, <1>3 DEF TypeInv, TypeOK, kernelVars

LEMMA WriteRowKeepsTypes ==
    ASSUME TypeInv, WriteRow
    PROVE  TypeInv'
<1>1. /\ UNCHANGED <<kernelVars, clock, scans, now, snap, samplerVars>>
      /\ row' = NoRow /\ pc' = "idle"
  BY DEF WriteRow
<1>2. rows' \subseteq Rows
  BY DEF WriteRow, TypeInv, TypeOK
<1>3. lost' \in [Gens -> Nat]
  <2>1. CASE lost' = lost
    BY <2>1 DEF TypeInv, TypeOK
  <2>2. CASE lost' # lost
    <3> DEFINE grown == IF row.dutime = None THEN 0 ELSE row.dutime
    <3>1. lost' = [lost EXCEPT ![row.owner] = lost[row.owner] + grown]
      BY <2>2 DEF WriteRow
    <3>2. grown \in Nat
      BY Domains DEF TypeInv, TypeOK, Rows
    <3> HIDE DEF grown
    <3>3. lost \in [Gens -> Nat]
      BY DEF TypeInv, TypeOK
    <3>4. \A g \in Gens : lost'[g] = lost[g] \/ lost'[g] = lost[g] + grown
      BY <3>1, <3>3
    <3>5. \A g \in Gens : lost'[g] \in Nat
      BY <3>2, <3>3, <3>4
    <3> QED
      BY <3>1, <3>3, <3>5
  <2> QED
    BY <2>1, <2>2
<1> QED
  BY <1>1, <1>2, <1>3, EmptySnapAndRow DEF TypeInv, TypeOK, kernelVars, samplerVars

LEMMA InitTypes == Init => TypeInv
<1> SUFFICES ASSUME Init PROVE TypeInv
  OBVIOUS
<1>1. /\ gen \in 0 .. MaxGens /\ utime \in Counter /\ scans \in 0 .. MaxScans
      /\ first \in [Gens -> Reading] /\ lost \in [Gens -> Nat]
  BY Domains DEF Init, Counter
<1>2. DOMAIN prev \subseteq Gens /\ \A g \in DOMAIN prev : prev[g] \in Snaps
  BY DEF Init
<1> QED
  BY <1>1, <1>2, EmptySnapAndRow DEF Init, TypeInv, TypeOK

\* Type correctness; a delta is missing or not negative (features.py:34-48).
THEOREM SpecTypeOK == Spec => []TypeOK
<1>1. Init => TypeInv
  BY InitTypes
<1>2. IInv /\ TypeInv /\ [Next]_vars => TypeInv'
  <2> SUFFICES ASSUME IInv, TypeInv, [Next]_vars PROVE TypeInv'
    OBVIOUS
  <2>1. CASE UNCHANGED vars
    BY <2>1 DEF TypeInv, TypeOK, vars, kernelVars, samplerVars, rowVars
  <2> QED
    BY <2>1, KernelKeepsTypes, ScanKeepsTypes, UpdateKeepsTypes, WriteRowKeepsTypes
       DEF Next, Sampler
<1>3. TypeInv => TypeOK
  BY DEF TypeInv
<1> QED
  BY <1>1, <1>2, <1>3, SpecIInv, PTL DEF Spec

-----------------------------------------------------------------------------

\* A set of naturals has a least element.
LEMMA MinExists ==
    ASSUME NEW S \in SUBSET Nat, S # {}
    PROVE  \E x \in S : \A y \in S : x <= y
<1>1. PICK x \in S : \A y \in S : ~ (<<y, x>> \in OpToRel(<, Nat))
  BY NatLessThanWellFounded, WFMin
<1>2. \A y \in S : ~(y < x)
  BY <1>1 DEF OpToRel
<1> QED
  BY <1>2

-----------------------------------------------------------------------------
(***************************************************************************)
(* What a set of rows adds up to.                                          *)
(***************************************************************************)

\* The sum of GrowthCountedOnce.
Growth(S) == MapThenSumSet(LAMBDA r : r.dutime, S)

\* The equation that defines it: a row is taken away at a time.
Pick(S) == CHOOSE r \in S : TRUE
Solves(f, S) ==
    f = [s \in SUBSET S |-> IF s = {} THEN 0 ELSE Pick(s).dutime + f[s \ {Pick(s)}]]

\* f adds up every subset of S, in whatever order the rows are taken away.
Adds(f, S) ==
    /\ f \in [SUBSET S -> Nat]
    /\ f[{}] = 0
    /\ \A s \in SUBSET S : \A r \in s : f[s] = r.dutime + f[s \ {r}]

LEMMA GrowthSolves ==
    ASSUME NEW S
    PROVE  Growth(S) = (CHOOSE f : Solves(f, S))[S]
  BY DEF Growth, MapThenSumSet, MapThenFoldSet, Solves, Pick

\* A set that has a property has a smallest subset that has it.
LEMMA AddsExists ==
    ASSUME NEW T, IsFiniteSet(T), \A r \in T : r.dutime \in Nat
    PROVE  \E f : Adds(f, T)
<1> DEFINE Bad(U) == ~ \E f : Adds(f, U)
           sizes == {n \in Nat : \E U \in SUBSET T : Cardinality(U) = n /\ Bad(U)}
<1>0. \A U \in SUBSET T : IsFiniteSet(U) /\ Cardinality(U) \in Nat
  BY FS_Subset, FS_CardinalityType
<1>1. SUFFICES ASSUME Bad(T) PROVE FALSE
  OBVIOUS
<1>2. Cardinality(T) \in sizes
  BY <1>0, <1>1
<1>3. PICK n \in sizes : \A m \in sizes : n <= m
  <2>1. sizes \in SUBSET Nat /\ sizes # {}
    BY <1>2
  <2> HIDE DEF sizes
  <2> QED
    BY <2>1, MinExists
<1>4. PICK U \in SUBSET T : Cardinality(U) = n /\ Bad(U)
  BY <1>3
<1>5. U # {}
  <2> SUFFICES ASSUME U = {} PROVE FALSE
    OBVIOUS
  <2> DEFINE z == [s \in SUBSET U |-> 0]
  <2>1. SUBSET U = {{}}
    OBVIOUS
  <2>2. Adds(z, U)
    BY <2>1 DEF Adds
  <2> QED
    BY <1>4, <2>2
<1>6. PICK y \in U : TRUE
  BY <1>5
<1>7. PICK f : Adds(f, U \ {y})
  <2>1. U \ {y} \in SUBSET T /\ Cardinality(U \ {y}) = n - 1 /\ n \in Nat
    BY <1>0, <1>3, <1>4, <1>6, FS_RemoveElement
  <2>2. n - 1 \in Nat
    BY <1>0, <2>1
  <2>3. n - 1 \notin sizes
    <3> HIDE DEF sizes
    <3> QED
      BY <1>3, <2>1
  <2> QED
    BY <2>1, <2>2, <2>3
<1> DEFINE g == [s \in SUBSET U |-> IF y \in s THEN f[s \ {y}] + y.dutime ELSE f[s]]
<1>8. /\ f \in [SUBSET (U \ {y}) -> Nat] /\ f[{}] = 0
      /\ \A s \in SUBSET (U \ {y}) : \A r \in s : f[s] = r.dutime + f[s \ {r}]
  BY <1>7 DEF Adds
<1>9. \A r \in U : r.dutime \in Nat
  BY <1>4
<1>10. g \in [SUBSET U -> Nat]
  <2>1. \A s \in SUBSET U : y \in s => f[s \ {y}] \in Nat
    BY <1>8
  <2>2. \A s \in SUBSET U : y \notin s => f[s] \in Nat
    BY <1>8
  <2>3. \A a \in Nat : a + y.dutime \in Nat
    BY <1>6, <1>9
  <2> QED
    BY <2>1, <2>2, <2>3
<1>11. g[{}] = 0
  BY <1>8
<1>12. ASSUME NEW s \in SUBSET U, NEW r \in s PROVE g[s] = r.dutime + g[s \ {r}]
  <2> HIDE DEF g
  <2>1. \A t \in SUBSET U : g[t] = IF y \in t THEN f[t \ {y}] + y.dutime ELSE f[t]
    BY DEF g
  <2>2. s \ {r} \in SUBSET U /\ r.dutime \in Nat /\ y.dutime \in Nat
    BY <1>6, <1>9
  <2>3. CASE y \notin s
    <3>1. s \in SUBSET (U \ {y}) /\ y \notin s \ {r}
      BY <2>3
    <3> QED
      BY <1>8, <2>1, <2>2, <2>3, <3>1
  <2>4. CASE r = y
    <3>1. s \ {r} \in SUBSET (U \ {y}) /\ y \notin s \ {r} /\ y \in s
      BY <2>4
    <3>2. g[s] = f[s \ {y}] + y.dutime /\ g[s \ {r}] = f[s \ {r}]
      BY <2>1, <2>2, <3>1
    <3>3. f[s \ {y}] \in Nat
      BY <1>8, <2>4, <3>1
    <3> QED
      BY <2>2, <2>4, <3>2, <3>3
  <2>5. CASE y \in s /\ r # y
    <3>1. s \ {y} \in SUBSET (U \ {y}) /\ r \in s \ {y} /\ y \in s \ {r}
          /\ (s \ {r}) \ {y} = (s \ {y}) \ {r}
      BY <2>5
    <3>2. g[s] = f[s \ {y}] + y.dutime /\ g[s \ {r}] = f[(s \ {y}) \ {r}] + y.dutime
      BY <2>1, <2>2, <2>5, <3>1
    <3>3. f[s \ {y}] = r.dutime + f[(s \ {y}) \ {r}] /\ f[(s \ {y}) \ {r}] \in Nat
      BY <1>8, <3>1
    <3> HIDE DEF g
    <3> QED
      BY <2>2, <3>2, <3>3
  <2> QED
    BY <2>3, <2>4, <2>5
<1>13. Adds(g, U)
  <2> HIDE DEF g
  <2> QED
    BY <1>10, <1>11, <1>12 DEF Adds
<1> QED
  BY <1>4, <1>13

\* Whatever adds up a set gives its growth.
LEMMA GrowthIsSum ==
    ASSUME NEW T, IsFiniteSet(T), NEW f, Adds(f, T), NEW S \in SUBSET T
    PROVE  Growth(S) = f[S]
<1> DEFINE h == CHOOSE e : Solves(e, S)
           g == [s \in SUBSET S |-> f[s]]
<1>0. \A U \in SUBSET S : IsFiniteSet(U) /\ Cardinality(U) \in Nat
  BY FS_Subset, FS_CardinalityType
<1>1. \A s \in SUBSET S : s # {} => Pick(s) \in s
  BY DEF Pick
<1>2. Solves(g, S)
  <2> SUFFICES ASSUME NEW s \in SUBSET S
               PROVE  f[s] = IF s = {} THEN 0 ELSE Pick(s).dutime + g[s \ {Pick(s)}]
    BY DEF Solves
  <2>1. s = {} => f[s] = 0
    BY DEF Adds
  <2>2. s # {} => f[s] = Pick(s).dutime + f[s \ {Pick(s)}]
    BY <1>1 DEF Adds
  <2>3. g[s \ {Pick(s)}] = f[s \ {Pick(s)}]
    OBVIOUS
  <2> QED
    BY <2>1, <2>2, <2>3
<1>3. Solves(h, S)
  BY <1>2
<1> HIDE DEF h
<1>4. \A s \in SUBSET S : h[s] = IF s = {} THEN 0 ELSE Pick(s).dutime + h[s \ {Pick(s)}]
  BY <1>3 DEF Solves
<1> DEFINE sizes == {n \in Nat : \E U \in SUBSET S : Cardinality(U) = n /\ h[U] # f[U]}
<1>5. SUFFICES ASSUME h[S] # f[S] PROVE FALSE
  BY GrowthSolves DEF h
<1>6. Cardinality(S) \in sizes
  BY <1>0, <1>5
<1>7. PICK n \in sizes : \A m \in sizes : n <= m
  <2>1. sizes \in SUBSET Nat /\ sizes # {}
    BY <1>6
  <2> HIDE DEF sizes
  <2> QED
    BY <2>1, MinExists
<1>8. PICK U \in SUBSET S : Cardinality(U) = n /\ h[U] # f[U]
  BY <1>7
<1>9. U # {}
  BY <1>4, <1>8 DEF Adds
<1>10. Pick(U) \in U /\ U \ {Pick(U)} \in SUBSET S
  BY <1>1, <1>9
<1>11. h[U \ {Pick(U)}] = f[U \ {Pick(U)}]
  <2>1. Cardinality(U \ {Pick(U)}) = n - 1 /\ n - 1 \in Nat /\ n \in Nat
    <3>1. IsFiniteSet(U) /\ Cardinality(U) = n /\ n \in Nat /\ Cardinality(U \ {Pick(U)}) \in Nat
      BY <1>0, <1>7, <1>8, <1>10
    <3> QED
      BY <1>10, <3>1, FS_RemoveElement
  <2>2. n - 1 \notin sizes
    <3> HIDE DEF sizes
    <3> QED
      BY <1>7, <2>1
  <2> QED
    BY <1>10, <2>1, <2>2
<1>12. h[U] = Pick(U).dutime + h[U \ {Pick(U)}]
  BY <1>4, <1>9
<1>13. f[U] = Pick(U).dutime + f[U \ {Pick(U)}]
  BY <1>10 DEF Adds
<1> QED
  BY <1>8, <1>11, <1>12, <1>13

LEMMA GrowthOfNothing == Growth({}) = 0
<1>1. PICK f : Adds(f, {})
  BY AddsExists, FS_EmptySet
<1>2. Growth({}) = f[{}]
  <2>1. {} \in SUBSET {} /\ IsFiniteSet({})
    BY FS_EmptySet
  <2> QED
    BY <1>1, <2>1, GrowthIsSum
<1>3. f[{}] = 0
  BY <1>1 DEF Adds
<1> QED
  BY <1>2, <1>3

LEMMA GrowthOfOneMore ==
    ASSUME NEW S, IsFiniteSet(S), \A r \in S : r.dutime \in Nat,
           NEW x, x \notin S, x.dutime \in Nat
    PROVE  Growth(S \cup {x}) = Growth(S) + x.dutime
<1>1. IsFiniteSet(S \cup {x})
  BY FS_AddElement
<1>2. PICK f : Adds(f, S \cup {x})
  BY <1>1, AddsExists
<1>3. Growth(S \cup {x}) = f[S \cup {x}] /\ Growth(S) = f[S]
  BY <1>1, <1>2, GrowthIsSum
<1>4. (S \cup {x}) \ {x} = S
  OBVIOUS
<1>5. f[S \cup {x}] = x.dutime + f[S] /\ f[S] \in Nat
  BY <1>2, <1>4 DEF Adds
<1> QED
  BY <1>3, <1>5

LEMMA GrowthIsNat ==
    ASSUME NEW S, IsFiniteSet(S), \A r \in S : r.dutime \in Nat
    PROVE  Growth(S) \in Nat
<1>1. PICK f : Adds(f, S)
  BY AddsExists
<1>2. Growth(S) = f[S]
  BY <1>1, GrowthIsSum
<1>3. f[S] \in Nat
  BY <1>1 DEF Adds
<1> QED
  BY <1>2, <1>3

-----------------------------------------------------------------------------
(***************************************************************************)
(* The growth of a counter.                                                *)
(***************************************************************************)

\* The rows of g that have a delta.
Sampled(g) == {r \in rows : r.owner = g /\ r.dutime # None}

\* The delta of a row of g that is made and not written yet.
Pending(g) == IF pc = "write" /\ row.owner = g /\ row.dutime # None THEN row.dutime ELSE 0

\* The invariant of GrowthCountedOnce, between any two steps.
SumInv ==
    \A g \in DOMAIN prev :
        Growth(Sampled(g)) + lost[g] + Pending(g) = prev[g].utime - first[g]

\* The base of the next delta was read, and the counter of the task that has the
\* id has not gone back since.
BaseInv ==
    \A g \in DOMAIN prev :
        /\ prev[g].utime # None /\ first[g] # None
        /\ g <= gen /\ (g = gen => prev[g].utime <= utime)

\* A task that was never sampled has no growth; the row made is of one that was.
FreshInv ==
    /\ \A g \in Gens \ DOMAIN prev :
           first[g] = None /\ lost[g] = 0 /\ \A r \in rows : r.owner # g
    /\ pc = "write" => row.owner \in DOMAIN prev

\* The snapshot a scan holds is between the base and the counter.
HeldInv ==
    pc \in {"second", "update"} /\ snap.id # None =>
        /\ snap.utime # None
        /\ snap.owner = gen => snap.utime <= utime
        /\ snap.id \in DOMAIN prev => prev[snap.id].utime <= snap.utime

\* The row a scan makes is none of those written before.
StampInv == pc # "idle" => \A r \in rows : r.ts < now

GrowthInv ==
    IsFiniteSet(rows) /\ SumInv /\ BaseInv /\ FreshInv /\ HeldInv /\ StampInv

\* The deltas summed are naturals.
LEMMA SampledIsFinite ==
    ASSUME TypeInv, IsFiniteSet(rows), NEW g
    PROVE  /\ IsFiniteSet(Sampled(g)) /\ \A r \in Sampled(g) : r.dutime \in Nat
           /\ Growth(Sampled(g)) \in Nat
<1>1. IsFiniteSet(Sampled(g))
  BY FS_Subset DEF Sampled
<1>2. \A r \in Sampled(g) : r.dutime \in Nat
  BY Domains DEF Sampled, TypeInv, TypeOK, Rows
<1> QED
  BY <1>1, <1>2, GrowthIsNat

\* What the growth is a function of, outside Update and WriteRow.
Books == <<rows, lost, prev, first, row>>

LEMMA SameBooksKeepSum ==
    ASSUME SumInv, UNCHANGED Books, pc' = pc \/ (pc # "write" /\ pc' # "write")
    PROVE  SumInv'
<1>1. \A g : Pending(g)' = Pending(g)
  BY DEF Pending, Books
<1>2. \A g : Sampled(g)' = Sampled(g)
  BY DEF Sampled, Books
<1>3. \A g \in DOMAIN prev : Growth(Sampled(g))' = Growth(Sampled(g))
  BY <1>2
<1> QED
  BY <1>1, <1>3 DEF SumInv, Books

LEMMA KernelKeepsGrowth ==
    ASSUME IInv, TypeInv, GrowthInv, Kernel
    PROVE  GrowthInv'
<1> USE DEF samplerVars, rowVars
<1>1. UNCHANGED <<pc, scans, now, snap, row, rows, live, exited, prev, first, misread, lost>>
  BY DEF Kernel, Fork, RunTask, ExitEvent, ExitNotify, Reap
<1>2. /\ gen \in Nat /\ utime \in Nat
      /\ \/ gen' = gen /\ utime' \in {utime, utime + 1}
         \/ gen' = gen + 1
  BY DEF Kernel, Fork, RunTask, ExitEvent, ExitNotify, Reap, IInv, KernelInv
<1>3. SumInv'
  BY <1>1, SameBooksKeepSum DEF GrowthInv, Books
<1>4. BaseInv'
  <2> SUFFICES ASSUME NEW g \in DOMAIN prev
               PROVE  /\ prev[g].utime # None /\ first[g] # None
                      /\ g <= gen' /\ (g = gen' => prev[g].utime <= utime')
    BY <1>1 DEF BaseInv
  <2>1. g \in Nat /\ prev[g].utime \in Int
    BY Domains DEF TypeInv, TypeOK, Snaps
  <2>2. prev[g].utime # None /\ first[g] # None /\ g <= gen /\ (g = gen => prev[g].utime <= utime)
    BY DEF GrowthInv, BaseInv
  <2> QED
    BY <1>2, <2>1, <2>2
<1>5. FreshInv' /\ StampInv' /\ IsFiniteSet(rows)'
  BY <1>1 DEF GrowthInv, FreshInv, StampInv
<1>6. HeldInv'
  <2> SUFFICES ASSUME pc \in {"second", "update"}, snap.id # None
               PROVE  /\ snap.utime # None
                      /\ snap.owner = gen' => snap.utime <= utime'
                      /\ snap.id \in DOMAIN prev => prev[snap.id].utime <= snap.utime
    BY <1>1 DEF HeldInv
  <2>1. snap.owner \in Nat /\ snap.owner <= gen /\ snap.utime \in Int
    BY DEF IInv, SnapInv, Sample, Images
  <2> QED
    BY <1>2, <2>1 DEF GrowthInv, HeldInv
<1> QED
  BY <1>3, <1>4, <1>5, <1>6 DEF GrowthInv

\* A step of the scan changes the snapshot only.
LEMMA FileReadKeepsGrowth ==
    ASSUME GrowthInv, UNCHANGED <<kernelVars, samplerVars, rowVars>>,
           pc # "write", pc' # "write", HeldInv', StampInv'
    PROVE  GrowthInv'
<1> USE DEF samplerVars, rowVars, kernelVars
<1>1. SumInv'
  BY SameBooksKeepSum DEF GrowthInv, Books
<1>2. BaseInv' /\ FreshInv' /\ IsFiniteSet(rows)'
  BY DEF GrowthInv, BaseInv, FreshInv
<1> QED
  BY <1>1, <1>2 DEF GrowthInv

LEMMA ScanKeepsGrowth ==
    ASSUME IInv, TypeInv, GrowthInv,
           ScanBegin \/ ReadStat \/ ReadStatFails \/ ReadStatus \/ ReadStatusDenied
    PROVE  GrowthInv'
<1>1. UNCHANGED <<kernelVars, samplerVars, rowVars>>
  BY DEF ScanBegin, ReadStat, ReadStatFails, ReadStatus, ReadStatusDenied
<1>2. pc # "write" /\ pc' # "write"
  BY FileOrder DEF ScanBegin, ReadStat, ReadStatFails, ReadStatus, ReadStatusDenied
<1>3. HeldInv'
  <2>1. CASE ScanBegin \/ ReadStatFails \/ ReadStatusDenied
    <3>1. snap' = NoSnap \/ snap' = [NoSnap EXCEPT !.owner = gen]
      BY <2>1 DEF ScanBegin, ReadStatFails, ReadStatusDenied
    <3>2. snap'.id = None
      <4>1. [NoSnap EXCEPT !.owner = gen].id = None /\ NoSnap.id = None
        BY DEF NoSnap
      <4> QED
        BY <3>1, <4>1
    <3> QED
      BY <3>2 DEF HeldInv
  <2>2. CASE ReadStat
    <3>1. snap = NoSnap
      BY <2>2, FileOrder DEF ReadStat, IInv, SnapInv
    <3>2. snap'.utime = utime /\ snap'.id = gen
      BY <2>2, <3>1 DEF ReadStat, TaskId, NoSnap
    <3>3. utime \in Nat
      BY DEF IInv, KernelInv
    <3>4. gen \in DOMAIN prev => prev[gen].utime <= utime
      BY DEF GrowthInv, BaseInv
    <3> QED
      BY <1>1, <3>2, <3>3, <3>4 DEF HeldInv, None, kernelVars, samplerVars
  <2>3. CASE ReadStatus
    <3>1. pc = "second" /\ snap.id # None
      BY <2>3, FileOrder DEF ReadStatus, IInv, SnapInv
    <3>2. snap \in Snaps
      BY DEF TypeInv, TypeOK
    <3>3. snap'.utime = snap.utime /\ snap'.id = snap.id /\ snap'.owner = snap.owner
      BY <2>3, <3>2 DEF ReadStatus, Snaps
    <3> QED
      BY <1>1, <3>1, <3>3 DEF GrowthInv, HeldInv, kernelVars, samplerVars
  <2> QED
    BY <2>1, <2>2, <2>3
<1>4. StampInv'
  <2>1. CASE ScanBegin
    <3>1. now' = clock + 1 /\ rows' = rows
      BY <2>1 DEF ScanBegin, rowVars
    <3>2. clock \in Nat /\ now \in Nat /\ now <= clock /\ \A r \in rows : r.ts \in Nat /\ r.ts <= now
      BY DEF IInv, KernelInv, RowsInv, Sample
    <3> QED
      BY <3>1, <3>2 DEF StampInv
  <2>2. CASE ReadStat \/ ReadStatFails \/ ReadStatus \/ ReadStatusDenied
    <3>1. pc # "idle" /\ now' = now /\ rows' = rows
      BY <2>2, FileOrder DEF ReadStat, ReadStatFails, ReadStatus, ReadStatusDenied, rowVars
    <3> QED
      BY <3>1 DEF GrowthInv, StampInv
  <2> QED
    BY <2>1, <2>2
<1> QED
  BY <1>1, <1>2, <1>3, <1>4, FileReadKeepsGrowth

\* A snapshot adds to the growth of its task what its row has as its delta.
LEMMA UpdateKeepsGrowth ==
    ASSUME IInv, TypeInv, GrowthInv, Update
    PROVE  GrowthInv'
<1>1. UNCHANGED <<kernelVars, clock, now, snap, rows, lost>> /\ pc = "update"
  BY DEF Update
<1>2. CASE snap.id = None
  <2>1. UNCHANGED Books /\ pc' = "idle"
    BY <1>1, <1>2 DEF Update, Books
  <2>2. SumInv'
    BY <1>1, <2>1, SameBooksKeepSum DEF GrowthInv
  <2> QED
    BY <1>1, <2>1, <2>2 DEF GrowthInv, BaseInv, FreshInv, HeldInv, StampInv, Books, kernelVars
<1>3. CASE snap.id # None
  <2> PICK k : k = snap.id
    OBVIOUS
  <2> DEFINE old == IF k \in DOMAIN prev THEN prev[k] ELSE NoSnap
             delta == DeltaOrNone(snap.utime, old.utime)
  <2>1. /\ pc' = "write" /\ row' = MakeRow /\ prev' = Remember
        /\ first' = [first EXCEPT ![k] = IF first[k] = None THEN snap.utime ELSE first[k]]
        /\ k = snap.owner
    BY <1>1, <1>3 DEF Update, IInv, SnapInv
  <2>2. /\ k \in Gens /\ k \in Nat /\ k <= gen /\ snap.utime \in Nat
        /\ k = gen => snap.utime <= utime
        /\ k \in DOMAIN prev => prev[k].utime <= snap.utime
        /\ snap.ts = now
    <3>1. snap \in Snaps /\ snap.id # None /\ snap.owner = snap.id /\ Sample(snap) /\ AfterTorn(snap)
      BY <1>1, <1>3 DEF TypeInv, TypeOK, IInv, SnapInv
    <3>2. snap.utime # None
      BY <1>1, <1>3 DEF GrowthInv, HeldInv
    <3>3. k \in Gens /\ snap.utime \in Nat
      BY <3>1, <3>2, Domains DEF Snaps
    <3> QED
      BY <1>1, <1>3, <3>1, <3>3 DEF GrowthInv, HeldInv, Sample, AfterTorn
  <2>3. row'.owner = k /\ row'.ts = now /\ row'.dutime = delta
    BY <2>1, <2>2 DEF MakeRow, RowStamp
  <2>4. /\ DOMAIN prev' = DOMAIN prev \cup {k} /\ prev'[k] = snap
        /\ \A g \in DOMAIN prev : g # k => prev'[g] = prev[g]
    BY <2>1 DEF Remember
  <2>5. /\ first'[k] = IF first[k] = None THEN snap.utime ELSE first[k]
        /\ \A g \in Gens : g # k => first'[g] = first[g]
    BY <2>1, <2>2 DEF TypeInv, TypeOK
  <2>6. DOMAIN prev \subseteq Gens
    BY DEF TypeInv, TypeOK
  <2>7. \A g : Growth(Sampled(g))' = Growth(Sampled(g))
    BY <1>1 DEF Sampled
  <2>8. \A g : Pending(g) = 0
    BY <1>1 DEF Pending
  <2>9. ASSUME NEW g \in DOMAIN prev, g # k
        PROVE  Growth(Sampled(g))' + lost'[g] + Pending(g)' = prev'[g].utime - first'[g]
    <3>1. Pending(g)' = 0
      BY <2>3, <2>9 DEF Pending
    <3> QED
      BY <1>1, <2>4, <2>5, <2>6, <2>7, <2>8, <2>9, <3>1 DEF GrowthInv, SumInv
  <2>10. Growth(Sampled(k))' + lost'[k] + Pending(k)' = prev'[k].utime - first'[k]
    <3>1. CASE k \in DOMAIN prev
      <4>1. prev[k].utime \in Nat /\ first[k] \in Nat /\ prev[k].utime <= snap.utime /\ first[k] # None
        <5>1. prev[k].utime # None /\ first[k] # None
          BY <3>1 DEF GrowthInv, BaseInv
        <5>2. prev[k].utime \in Reading /\ first[k] \in Reading
          BY <2>2, <3>1 DEF TypeInv, TypeOK, Snaps
        <5> QED
          BY <2>2, <3>1, <5>1, <5>2, Domains
      <4>2. delta = snap.utime - prev[k].utime /\ delta # None
        BY <2>2, <3>1, <4>1, Domains DEF DeltaOrNone
      <4>3. Pending(k)' = snap.utime - prev[k].utime
        <5> HIDE DEF delta
        <5>1. row'.owner = k /\ row'.dutime = delta /\ row'.dutime # None /\ pc' = "write"
          BY <2>1, <2>3, <4>2
        <5>2. Pending(k)' = row'.dutime
          BY <5>1 DEF Pending
        <5> QED
          BY <4>2, <5>1, <5>2
      <4>4. Growth(Sampled(k)) + lost[k] + 0 = prev[k].utime - first[k]
        BY <2>8, <3>1 DEF GrowthInv, SumInv
      <4>5. Growth(Sampled(k)) \in Nat /\ lost[k] \in Nat
        BY <2>2, SampledIsFinite DEF GrowthInv, TypeInv, TypeOK
      <4>6. first'[k] = first[k] /\ prev'[k].utime = snap.utime
        BY <2>4, <2>5, <4>1
      <4> QED
        BY <1>1, <2>2, <2>7, <4>1, <4>3, <4>4, <4>5, <4>6
    <3>2. CASE k \notin DOMAIN prev
      <4>1. first[k] = None /\ lost[k] = 0 /\ \A r \in rows : r.owner # k
        BY <2>2, <3>2 DEF GrowthInv, FreshInv
      <4>2. delta = None
        BY <3>2 DEF DeltaOrNone, NoSnap
      <4>3. Pending(k)' = 0
        BY <2>3, <4>2 DEF Pending
      <4>4. Sampled(k) = {}
        BY <4>1 DEF Sampled
      <4>5. Growth(Sampled(k)) = 0
        BY <4>4, GrowthOfNothing
      <4>6. first'[k] = snap.utime /\ prev'[k].utime = snap.utime
        BY <2>4, <2>5, <4>1
      <4> QED
        BY <1>1, <2>2, <2>7, <4>1, <4>3, <4>5, <4>6
    <3> QED
      BY <3>1, <3>2
  <2>11. SumInv'
    <3>1. ASSUME NEW g \in DOMAIN prev'
          PROVE  Growth(Sampled(g))' + lost'[g] + Pending(g)' = prev'[g].utime - first'[g]
      <4>1. CASE g = k
        BY <2>10, <4>1
      <4>2. CASE g # k
        BY <2>4, <2>9, <4>2
      <4> QED
        BY <4>1, <4>2
    <3> QED
      BY <3>1 DEF SumInv
  <2>12. BaseInv'
    <3> SUFFICES ASSUME NEW g \in DOMAIN prev'
                 PROVE  /\ prev'[g].utime # None /\ first'[g] # None
                        /\ g <= gen /\ (g = gen => prev'[g].utime <= utime)
      BY <1>1 DEF BaseInv, kernelVars
    <3>1. CASE g = k
      BY <2>2, <2>4, <2>5, <3>1, Domains
    <3>2. CASE g # k
      BY <2>4, <2>5, <2>6, <3>2 DEF GrowthInv, BaseInv
    <3> QED
      BY <3>1, <3>2
  <2>13. FreshInv'
    BY <1>1, <2>3, <2>4, <2>5 DEF GrowthInv, FreshInv
  <2>14. HeldInv' /\ StampInv' /\ IsFiniteSet(rows)'
    BY <1>1, <2>1 DEF GrowthInv, HeldInv, StampInv
  <2> QED
    BY <2>11, <2>12, <2>13, <2>14 DEF GrowthInv
<1> QED
  BY <1>2, <1>3

\* The delta goes from the row made to the rows, which did not hold it, or to
\* what is lost.
LEMMA WriteRowKeepsGrowth ==
    ASSUME IInv, TypeInv, GrowthInv, WriteRow
    PROVE  GrowthInv'
<1> DEFINE grown == IF row.dutime = None THEN 0 ELSE row.dutime
<1>1. /\ UNCHANGED <<kernelVars, clock, now, snap, samplerVars>>
      /\ pc = "write" /\ pc' = "idle"
      /\ \/ rows' = rows \cup {row} /\ lost' = lost
         \/ rows' = rows /\ lost' = [lost EXCEPT ![row.owner] = lost[row.owner] + grown]
  BY DEF WriteRow
<1>2. /\ row.owner \in DOMAIN prev /\ row.owner \in Gens /\ row.dutime \in Reading
      /\ row.ts = now /\ \A r \in rows : r.ts < now
      /\ now \in Nat
  BY <1>1 DEF GrowthInv, FreshInv, StampInv, TypeInv, TypeOK, IInv, RowsInv, AfterTorn, Rows
<1>3. row \notin rows
  BY <1>2
<1>4. grown \in Nat
  BY <1>2, Domains
<1>5. \A g : Pending(g)' = 0 /\ Pending(g) = IF row.owner = g THEN grown ELSE 0
  BY <1>1 DEF Pending
<1>6. /\ \A g \in Gens : lost[g] \in Nat
      /\ \A g \in DOMAIN prev : g \in Gens
      /\ \A g : Growth(Sampled(g)) \in Nat
  BY SampledIsFinite DEF TypeInv, TypeOK, GrowthInv
<1>7. ASSUME NEW g \in DOMAIN prev
      PROVE  Growth(Sampled(g))' + lost'[g] + Pending(g)'
               = Growth(Sampled(g)) + lost[g] + Pending(g)
  <2>1. CASE rows' = rows \cup {row} /\ lost' = lost
    <3>1. CASE row.owner = g /\ row.dutime # None
      <4>1. Sampled(g)' = Sampled(g) \cup {row}
        BY <2>1, <3>1 DEF Sampled
      <4>2. row \notin Sampled(g)
        BY <1>3 DEF Sampled
      <4>3. row.dutime = grown /\ row.dutime \in Nat
        BY <1>4, <3>1
      <4>4. Growth(Sampled(g) \cup {row}) = Growth(Sampled(g)) + row.dutime
        BY <4>2, <4>3, SampledIsFinite, GrowthOfOneMore DEF GrowthInv
      <4> HIDE DEF grown
      <4>5. Growth(Sampled(g))' = Growth(Sampled(g)) + grown
        BY <4>1, <4>3, <4>4
      <4> QED
        BY <1>4, <1>5, <1>6, <2>1, <3>1, <4>5
    <3>2. CASE ~(row.owner = g /\ row.dutime # None)
      <4>1. Sampled(g)' = Sampled(g)
        BY <2>1, <3>2 DEF Sampled
      <4>2. Growth(Sampled(g))' = Growth(Sampled(g))
        BY <4>1
      <4>3. Pending(g) = 0
        BY <1>5, <3>2
      <4> QED
        BY <1>5, <2>1, <4>2, <4>3
    <3> QED
      BY <3>1, <3>2
  <2>2. CASE rows' = rows /\ lost' = [lost EXCEPT ![row.owner] = lost[row.owner] + grown]
    <3> HIDE DEF grown
    <3>1. Growth(Sampled(g))' = Growth(Sampled(g))
      BY <2>2 DEF Sampled
    <3>2. lost'[g] = IF row.owner = g THEN lost[g] + grown ELSE lost[g]
      BY <1>6, <2>2 DEF TypeInv, TypeOK
    <3> QED
      BY <1>4, <1>5, <1>6, <3>1, <3>2
  <2> QED
    BY <1>1, <2>1, <2>2
<1>8. SumInv'
  <2>1. prev' = prev /\ first' = first
    BY <1>1 DEF samplerVars
  <2> QED
    BY <1>7, <2>1 DEF GrowthInv, SumInv
<1>9. IsFiniteSet(rows')
  BY <1>1, FS_AddElement DEF GrowthInv
<1>10. BaseInv' /\ HeldInv' /\ StampInv'
  BY <1>1 DEF GrowthInv, BaseInv, HeldInv, StampInv, kernelVars, samplerVars
<1>11. FreshInv'
  <2> SUFFICES ASSUME NEW g \in Gens \ DOMAIN prev
               PROVE  first[g] = None /\ lost'[g] = 0 /\ \A r \in rows' : r.owner # g
    BY <1>1 DEF FreshInv, samplerVars
  <2>1. first[g] = None /\ lost[g] = 0 /\ \A r \in rows : r.owner # g
    BY DEF GrowthInv, FreshInv
  <2>2. row.owner # g
    BY <1>2
  <2>3. lost'[g] = lost[g]
    BY <1>1, <2>2 DEF TypeInv, TypeOK
  <2> QED
    BY <1>1, <2>1, <2>2, <2>3
<1> QED
  BY <1>8, <1>9, <1>10, <1>11 DEF GrowthInv

LEMMA InitGrowth == Init => GrowthInv
<1> SUFFICES ASSUME Init PROVE GrowthInv
  OBVIOUS
<1>1. DOMAIN prev = {} /\ rows = {} /\ pc = "idle"
  BY DEF Init
<1>2. FreshInv
  BY <1>1 DEF Init, FreshInv
<1> QED
  BY <1>1, <1>2, FS_EmptySet DEF GrowthInv, SumInv, BaseInv, HeldInv, StampInv

\* Between a task's first and last sample every tick of its counter is in one
\* row, kept or lost, however the kernel's steps, the scans and the failed
\* writes come (sampler.py:27-57, features.py:34-48, registry.py:40-106).
THEOREM SpecGrowthCountedOnce == Spec => []GrowthCountedOnce
<1>1. Init => TypeInv /\ GrowthInv
  BY InitTypes, InitGrowth
<1>2. IInv /\ TypeInv /\ GrowthInv /\ [Next]_vars => TypeInv' /\ GrowthInv'
  <2> SUFFICES ASSUME IInv, TypeInv, GrowthInv, [Next]_vars PROVE TypeInv' /\ GrowthInv'
    OBVIOUS
  <2>1. CASE UNCHANGED vars
    <3>1. SumInv'
      BY <2>1, SameBooksKeepSum DEF GrowthInv, Books, vars, samplerVars, rowVars
    <3>2. GrowthInv'
      BY <2>1, <3>1 DEF GrowthInv, BaseInv, FreshInv, HeldInv, StampInv,
                        vars, kernelVars, samplerVars, rowVars
    <3> QED
      BY <2>1, <3>2 DEF TypeInv, TypeOK, vars, kernelVars, samplerVars, rowVars
  <2> QED
    BY <2>1, KernelKeepsTypes, ScanKeepsTypes, UpdateKeepsTypes, WriteRowKeepsTypes,
       KernelKeepsGrowth, ScanKeepsGrowth, UpdateKeepsGrowth, WriteRowKeepsGrowth
       DEF Next, Sampler
<1>3. TypeInv /\ GrowthInv => GrowthCountedOnce
  <2> SUFFICES ASSUME TypeInv, GrowthInv, pc = "idle", NEW g \in DOMAIN prev
               PROVE  Growth({r \in rows : r.owner = g /\ r.dutime # None}) + lost[g]
                        = prev[g].utime - first[g]
    BY DEF GrowthCountedOnce, Growth
  <2>1. Growth(Sampled(g)) + lost[g] + 0 = prev[g].utime - first[g]
    BY DEF GrowthInv, SumInv, Pending
  <2>2. Growth(Sampled(g)) \in Nat /\ lost[g] \in Nat
    BY SampledIsFinite DEF GrowthInv, TypeInv, TypeOK
  <2> QED
    BY <2>1, <2>2 DEF Sampled
<1> QED
  BY <1>1, <1>2, <1>3, SpecIInv, PTL DEF Spec

-----------------------------------------------------------------------------

\* A task the registry calls exited has ended, or its id has another owner, or
\* the scan that called it so could not read its stat, for every schedule of the
\* kernel against the scan (registry.py:40-73).
THEOREM SpecExitedAreGone == Spec => []ExitedAreGone
<1>1. IInv => ExitedAreGone
  BY DEF IInv, LiveInv
<1> QED
  BY <1>1, SpecIInv, PTL

\* The counters of the next owner of the id are read into the last row of a
\* task only (registry.py:64-106).
THEOREM SpecTornIsLast == Spec => []TornIsLast
<1>1. IInv => TornIsLast
  BY DEF IInv, RowsInv
<1> QED
  BY <1>1, SpecIInv, PTL

\* What check_lifecycle calls impossible happens to reused ids and to tasks first
\* read between their exit event and their end, and to no other task
\* (checks.py:165-180).
THEOREM SpecInversionNeedsReuseOrEnding == Spec => []InversionNeedsReuseOrEnding
<1>1. IInv => InversionNeedsReuseOrEnding
  <2> SUFFICES ASSUME IInv, NEW e \in Inverted, e.gen = FirstRow.owner
               PROVE  FirstRow.ended
    BY DEF InversionNeedsReuseOrEnding
  <2>1. rows # {} /\ e \in exits /\ e.ts < FirstRow.ts
    BY DEF Inverted
  <2>2. \A r \in rows : r.ts \in Nat
    BY DEF IInv, RowsInv, Sample
  <2>3. PICK t \in {r.ts : r \in rows} : \A u \in {r.ts : r \in rows} : t <= u
    BY <2>1, <2>2, MinExists
  <2>4. \E r \in rows : \A s \in rows : r.ts <= s.ts
    BY <2>3
  <2>5. FirstRow \in rows
    BY <2>4 DEF FirstRow
  <2> QED
    BY <2>1, <2>5 DEF IInv, RowsInv, Sample
<1> QED
  BY <1>1, SpecIInv, PTL
=============================================================================

----------------------- MODULE AttributionTimingProofs -----------------------
(***************************************************************************)
(* How long the tracker can be wrong about a task that has ended, and how  *)
(* long it can be without the owner of a reused id, for every set of       *)
(* thread ids and every bound: the argument follows a task from its death  *)
(* through the scan that misses it, the list of exits and the feed, with   *)
(* the scans that raise and the writes that fail.                          *)
(***************************************************************************)
EXTENDS TaskAttributionProofs

-----------------------------------------------------------------------------
(***************************************************************************)
(* The lives of an id follow each other.                                   *)
(***************************************************************************)

LifetimesInv ==
    \A d \in deaths :
        /\ alive[d.tid] # NoTask => d.at < alive[d.tid].start
        /\ \A e \in deaths : e.tid = d.tid => e = d \/ e.at < d.start \/ d.at < e.start

LEMMA LifetimesStep == TypeOK /\ LifetimesInv /\ [Next]_vars => LifetimesInv'
<1> SUFFICES ASSUME TypeOK, LifetimesInv, [Next]_vars PROVE LifetimesInv'
    OBVIOUS
<1>1. ASSUME NEW t \in Tids, NEW k \in Kinds, Create(t, k) PROVE LifetimesInv'
  <2>1. /\ alive'[t] = [start |-> now, kind |-> k]
        /\ \A u \in Tids : u # t => alive'[u] = alive[u]
        /\ deaths' = deaths /\ \A d \in deaths : d.tid = t => d.at < now
        BY <1>1 DEF Create, TypeOK
  <2>2. QED  BY <2>1 DEF LifetimesInv, TypeOK
<1>2. ASSUME NEW t \in Tids, Die(t) PROVE LifetimesInv'
  <2> DEFINE nd == [tid |-> t, start |-> alive[t].start, at |-> now]
  <2>1. /\ alive[t] # NoTask /\ alive'[t] = NoTask
        /\ \A u \in Tids : u # t => alive'[u] = alive[u]
        /\ deaths' = deaths \cup {nd}
        BY <1>2 DEF Die, TypeOK
  <2>2. \A d \in deaths : d.tid = t => d.at < nd.start  BY <2>1 DEF LifetimesInv
  <2>3. nd.tid = t /\ \A d \in deaths : d.tid \in Tids  BY DEF TypeOK
  <2> HIDE DEF nd
  <2>4. QED  BY <2>1, <2>2, <2>3 DEF LifetimesInv
<1>3. CASE UNCHANGED <<alive, deaths>>  BY <1>3 DEF LifetimesInv
<1>4. QED
  BY <1>1, <1>2, <1>3
  DEF Next, Tick, Emit, ScanBegin, ReadTask, ScanEnd, ScanRaises, WriteRows,
      WriteRaises, ObserveRow, CloseExited, FeedEnd, Stop, vars, kernelVars

-----------------------------------------------------------------------------
(***************************************************************************)
(* What the registry knows is fresh.                                       *)
(***************************************************************************)

\* Of the deaths D, none is of a task in S before `limit`.
Fresh(S, D, limit) ==
    \A s \in S, d \in D : d.tid = s.tid /\ d.start = s.start => limit <= d.at

\* The exits wait for the tracker only between a scan and the end of its feed.
PhaseInv ==
    /\ phase \in {"idle", "scan", "stopped"} => exited = {}
    /\ phase = "write" => live = Seen
    /\ phase = "feed" => Seen \subseteq live
    /\ phase \in {"idle", "stopped"} => rows = <<>>

\* The rows of a scan, and what the registry makes of them, show tasks that
\* lived when the scan began; every completed feed was of an earlier scan.
FreshInv ==
    /\ phase = "scan" => Fresh(Seen, deaths, began)
    /\ phase \in {"write", "feed"} => Fresh(live, deaths, began)
    /\ phase = "feed" => began <= feedTs
    /\ phase \in {"scan", "write", "feed"} => \A f \in feeds : f.began <= began

\* What the registry knows outlived every scan that has been fed.
KnownInv ==
    \A f \in feeds : /\ f.began <= f.at /\ f.at <= now /\ f.at <= feedTs
                     /\ Fresh(live \cup exited, deaths, f.began)

LEMMA SeenStep ==
    ASSUME TypeOK, [Next]_vars
    PROVE  /\ UNCHANGED rows => Seen' = Seen
           /\ rows' = <<>> => Seen' = {}
           /\ \A t \in Tids, k \in Kinds : ReadTask(t, k) /\ rows' # rows =>
                 /\ alive[t] # NoTask
                 /\ Seen' = Seen \cup {[tid |-> t, start |-> alive[t].start]}
           /\ ObserveRow => Head(rows) \in Seen /\ Seen = Seen' \cup {Head(rows)}
<1>1. UNCHANGED rows => Seen' = Seen  BY DEF Seen
<1>2. rows' = <<>> => Seen' = {}  BY DEF Seen
<1>3. ASSUME NEW t \in Tids, NEW k \in Kinds, ReadTask(t, k), rows' # rows
      PROVE  /\ alive[t] # NoTask
             /\ Seen' = Seen \cup {[tid |-> t, start |-> alive[t].start]}
  <2> DEFINE r == [tid |-> t, start |-> alive[t].start]
  <2>0. alive[t] # NoTask  BY <1>3 DEF ReadTask
  <2>1. r \in Task  BY <2>0 DEF TypeOK, Task
  <2>2. rows \in Seq(Task) /\ rows' = Append(rows, r)  BY <1>3 DEF ReadTask, TypeOK
  <2> HIDE DEF r
  <2>3. /\ DOMAIN rows' = 1 .. Len(rows) + 1 /\ DOMAIN rows = 1 .. Len(rows)
        /\ Len(rows) \in Nat
        /\ \A i \in 1 .. Len(rows) : rows'[i] = rows[i]
        /\ rows'[Len(rows) + 1] = r
        BY <2>1, <2>2
  <2>4. QED  BY <2>0, <2>3 DEF Seen, r
<1>5. ASSUME ObserveRow PROVE Head(rows) \in Seen /\ Seen = Seen' \cup {Head(rows)}
  <2>1. rows \in Seq(Task) /\ rows # <<>> /\ rows' = Tail(rows)  BY <1>5 DEF ObserveRow, TypeOK
  <2>2. /\ DOMAIN rows = 1 .. Len(rows) /\ Len(rows) \in Nat \ {0}
        /\ DOMAIN rows' = 1 .. Len(rows) - 1
        /\ \A i \in 1 .. Len(rows) - 1 : rows'[i] = rows[i + 1]
        /\ Head(rows) = rows[1]
        BY <2>1
  <2>3. \A i \in 2 .. Len(rows) : rows[i] = rows'[i - 1] /\ i - 1 \in 1 .. Len(rows) - 1
        BY <2>2
  <2>4. Head(rows) \in Seen  BY <2>2 DEF Seen
  <2>5. Seen' \subseteq Seen
    <3>1. \A i \in DOMAIN rows' : rows'[i] = rows[i + 1] /\ i + 1 \in DOMAIN rows  BY <2>2
    <3>2. QED  BY <3>1 DEF Seen
  <2>6. ASSUME NEW i \in DOMAIN rows PROVE rows[i] \in Seen' \cup {Head(rows)}
    <3>1. CASE i = 1  BY <2>2, <3>1
    <3>2. CASE i # 1  BY <2>2, <2>3, <3>2 DEF Seen
    <3>3. QED  BY <3>1, <3>2
  <2>7. QED  BY <2>4, <2>5, <2>6 DEF Seen
<1>6. QED  BY <1>1, <1>2, <1>3, <1>5

LEMMA PhaseStep == TypeOK /\ PhaseInv /\ [Next]_vars => PhaseInv'
<1> SUFFICES ASSUME TypeOK, PhaseInv, [Next]_vars PROVE PhaseInv'
    OBVIOUS
<1> USE DEF PhaseInv
<1>1. CASE UNCHANGED <<phase, exited, live, rows>>
  BY <1>1, SeenStep
<1>2. CASE ScanBegin  BY <1>2 DEF ScanBegin
<1>3. ASSUME NEW t \in Tids, NEW k \in Kinds, ReadTask(t, k) PROVE PhaseInv'
      BY <1>3 DEF ReadTask
<1>4. CASE ScanEnd  BY <1>4, SeenStep DEF ScanEnd
<1>5. CASE ScanRaises  BY <1>5 DEF ScanRaises
<1>6. CASE WriteRows  BY <1>6, SeenStep DEF WriteRows, scanVars
<1>7. CASE WriteRaises  BY <1>7 DEF WriteRaises
<1>8. CASE ObserveRow  BY <1>8, SeenStep DEF ObserveRow
<1>9. ASSUME NEW e \in exited, CloseExited(e) PROVE PhaseInv'
      BY <1>9, SeenStep DEF CloseExited
<1>10. CASE FeedEnd  BY <1>10 DEF FeedEnd
<1>11. CASE Stop  BY <1>11 DEF Stop, scanVars
<1>12. QED
  BY <1>1, <1>2, <1>3, <1>4, <1>5, <1>6, <1>7, <1>8, <1>9, <1>10, <1>11
  DEF Next, Tick, Create, Die, Emit, scanVars, vars

\* A step brings no death but at the present time.
LEMMA DeathStep ==
    ASSUME TypeOK, [Next]_vars
    PROVE  /\ deaths \subseteq deaths' /\ \A d \in deaths' : d \in deaths \/ d.at = now
           /\ now \in Nat /\ now' \in Nat /\ now <= now'
<1> DEFINE Goal == /\ deaths \subseteq deaths' /\ \A d \in deaths' : d \in deaths \/ d.at = now
                   /\ now \in Nat /\ now' \in Nat /\ now <= now'
<1>1. now \in Nat  BY DEF TypeOK
<1>2. ASSUME NEW t \in Tids, Die(t) PROVE Goal  BY <1>1, <1>2 DEF Die
<1>3. CASE Tick  BY <1>1, <1>3 DEF Tick, kernelVars
<1>4. CASE UNCHANGED <<deaths, now>>  BY <1>1, <1>4
<1>5. Tick \/ (\E t \in Tids : Die(t)) \/ UNCHANGED <<deaths, now>>
  BY DEF Next, Create, Emit, ScanBegin, ReadTask, ScanEnd, ScanRaises, WriteRows,
         WriteRaises, ObserveRow, CloseExited, FeedEnd, Stop, vars, kernelVars
<1>6. QED  BY <1>2, <1>3, <1>4, <1>5

\* So what was fresh stays fresh.
LEMMA FreshMono ==
    ASSUME NEW S, NEW T, T \subseteq S, NEW D, NEW E, NEW limit \in Nat,
           \A d \in E : d \in D \/ limit <= d.at, Fresh(S, D, limit)
    PROVE  Fresh(T, E, limit)
  BY DEF Fresh

LEMMA FreshStep ==
    ASSUME TypeOK, [Next]_vars, NEW S, NEW T, T \subseteq S, NEW limit \in Nat, limit <= now,
           Fresh(S, deaths, limit)
    PROVE  Fresh(T, deaths', limit)
<1>1. \A d \in deaths' : d \in deaths \/ limit <= d.at  BY DeathStep
<1>2. QED  BY <1>1, FreshMono

LEMMA FreshLater ==
    ASSUME NEW S, NEW D, D \subseteq [tid : Tids, start : Nat, at : Nat],
           NEW limit \in Nat, NEW later \in Nat, limit <= later, Fresh(S, D, later)
    PROVE  Fresh(S, D, limit)
  BY DEF Fresh

LEMMA KnownStep ==
    ASSUME TypeOK, KnownInv, [Next]_vars, feeds' = feeds, feedTs' \in {feedTs, now},
           live' \cup exited' \subseteq live \cup exited
    PROVE  KnownInv'
<1> SUFFICES ASSUME NEW f \in feeds
             PROVE  /\ f.began <= f.at /\ f.at <= now' /\ f.at <= feedTs'
                    /\ Fresh(live' \cup exited', deaths', f.began)
    BY DEF KnownInv
<1>1. /\ f.began \in Nat /\ f.at \in Nat /\ f.began <= f.at /\ f.at <= now /\ f.at <= feedTs
      /\ Fresh(live \cup exited, deaths, f.began)
      BY DEF KnownInv, TypeOK
<1>2. now <= now' /\ now \in Nat /\ now' \in Nat  BY DeathStep
<1>3. f.began <= now  BY <1>1, <1>2
<1>4. Fresh(live' \cup exited', deaths', f.began)  BY <1>1, <1>3, FreshStep
<1>5. QED  BY <1>1, <1>2, <1>4

LEMMA KnownInvStep ==
    TypeOK /\ PhaseInv /\ FreshInv /\ KnownInv /\ [Next]_vars => KnownInv'
<1> SUFFICES ASSUME TypeOK, PhaseInv, FreshInv, KnownInv, [Next]_vars PROVE KnownInv'
    OBVIOUS
<1>1. CASE feeds' = feeds /\ feedTs' \in {feedTs, now} /\ live' \cup exited' \subseteq live \cup exited
  BY <1>1, KnownStep
<1>2. CASE ScanEnd
  <2>1. /\ phase = "scan" /\ live' = Seen /\ exited' = live \ Seen
        /\ UNCHANGED <<deaths, now, feeds, feedTs>>
        BY <1>2 DEF ScanEnd, feedVars, kernelVars
  <2>2. Fresh(Seen, deaths, began) /\ began \in Nat  BY <2>1 DEF FreshInv, TypeOK
  <2>3. ASSUME NEW f \in feeds PROVE Fresh(live' \cup exited', deaths, f.began)
    <3>1. f.began \in Nat /\ f.began <= began  BY <2>1 DEF FreshInv, TypeOK
    <3>2. Fresh(Seen, deaths, f.began)  BY <2>2, <3>1, FreshLater DEF TypeOK
    <3>3. Fresh(live \cup exited, deaths, f.began)  BY DEF KnownInv
    <3>4. QED  BY <2>1, <3>2, <3>3 DEF Fresh
  <2>4. QED  BY <2>1, <2>3 DEF KnownInv
<1>3. CASE FeedEnd
  <2> DEFINE nf == [began |-> began, at |-> feedTs]
  <2>1. /\ phase = "feed" /\ exited = {} /\ feeds' = feeds \cup {nf}
        /\ UNCHANGED <<live, exited, feedTs, deaths, now>>
        BY <1>3 DEF FeedEnd, kernelVars
  <2>2. Fresh(live \cup exited, deaths, nf.began)  BY <2>1 DEF FreshInv
  <2>3. nf.began <= nf.at /\ nf.at <= now /\ nf.at <= feedTs  BY <2>1 DEF FreshInv, TypeOK
  <2> HIDE DEF nf
  <2>4. QED  BY <2>1, <2>2, <2>3 DEF KnownInv
<1>4. QED
  <2>1. CASE WriteRows  BY <1>1, <2>1 DEF WriteRows, scanVars
  <2>2. CASE ScanRaises  BY <1>1, <2>2 DEF ScanRaises, feedVars
  <2>3. CASE WriteRaises  BY <1>1, <2>3 DEF WriteRaises
  <2>4. ASSUME NEW e \in exited, CloseExited(e) PROVE KnownInv'
        BY <1>1, <2>4 DEF CloseExited
  <2>5. CASE UNCHANGED <<feeds, feedTs, live, exited>>  BY <1>1, <2>5
  <2>6. QED
    BY <1>2, <1>3, <2>1, <2>2, <2>3, <2>4, <2>5
    DEF Next, Tick, Create, Die, Emit, ScanBegin, ReadTask, ObserveRow, Stop,
        scanVars, feedVars, vars

LEMMA FreshInvStep ==
    IInv /\ LifetimesInv /\ PhaseInv /\ FreshInv /\ KnownInv /\ [Next]_vars => FreshInv'
<1> SUFFICES ASSUME IInv, LifetimesInv, PhaseInv, FreshInv, KnownInv, [Next]_vars
             PROVE  FreshInv'
    OBVIOUS
<1>0. /\ TypeOK
      /\ began \in Nat /\ began <= now /\ now \in Nat /\ feedTs \in Nat /\ feedTs <= now
      BY DEF IInv, TypeOK
<1>1. CASE UNCHANGED <<phase, exited, live, rows, began, feeds, feedTs>>
  <2>1. phase = "scan" => Fresh(Seen', deaths', began)
        BY <1>0, <1>1, SeenStep, FreshStep DEF FreshInv
  <2>2. phase \in {"write", "feed"} => Fresh(live, deaths', began)
        BY <1>0, <1>1, FreshStep DEF FreshInv
  <2>3. QED  BY <1>1, <2>1, <2>2 DEF FreshInv
<1>2. CASE ScanBegin
  <2>1. /\ phase' = "scan" /\ began' = now /\ rows' = <<>> /\ UNCHANGED feeds
        BY <1>2 DEF ScanBegin, feedVars
  <2>2. Seen' = {}  BY <1>0, <2>1, SeenStep
  <2>3. \A f \in feeds : f.began <= now
        BY <1>0 DEF KnownInv, TypeOK
  <2>4. QED  BY <2>1, <2>2, <2>3 DEF FreshInv, Fresh
<1>3. ASSUME NEW t \in Tids, NEW k \in Kinds, ReadTask(t, k) PROVE FreshInv'
  <2>1. /\ phase = "scan" /\ phase' = "scan" /\ UNCHANGED <<feeds, began, deaths>>
        BY <1>3 DEF ReadTask, feedVars, kernelVars
  <2>2. Fresh(Seen, deaths, began)  BY <2>1 DEF FreshInv
  <2>3. Fresh(Seen', deaths, began)
    <3>1. CASE rows' # rows
      <4> DEFINE r == [tid |-> t, start |-> alive[t].start]
      <4>1. alive[t] # NoTask /\ Seen' = Seen \cup {r}  BY <1>0, <1>3, <3>1, SeenStep
      <4>2. \A d \in deaths : d.tid = t => d.start # alive[t].start
        <5>1. \A d \in deaths : d.start \in Nat /\ d.at \in Nat /\ d.start <= d.at
              BY DEF IInv, LivesInv, TypeOK
        <5>2. \A d \in deaths : d.tid = t => d.at < alive[t].start
              BY <4>1 DEF LifetimesInv
        <5>3. alive[t].start \in Nat  BY <4>1 DEF IInv, TypeOK
        <5>4. QED  BY <5>1, <5>2, <5>3
      <4>3. Fresh({r}, deaths, began)  BY <4>2 DEF Fresh
      <4>4. QED  BY <2>2, <4>1, <4>3 DEF Fresh
    <3>2. CASE rows' = rows
      BY <1>0, <1>3, <2>2, <3>2, SeenStep
    <3>3. QED  BY <3>1, <3>2
  <2>4. QED  BY <2>1, <2>3 DEF FreshInv
<1>4. CASE ScanEnd
  BY <1>4 DEF ScanEnd, feedVars, kernelVars, FreshInv
<1>5. CASE ScanRaises  BY <1>5 DEF ScanRaises, FreshInv
<1>6. CASE WriteRows
  BY <1>0, <1>6 DEF WriteRows, scanVars, kernelVars, FreshInv
<1>7. CASE WriteRaises  BY <1>7 DEF WriteRaises, FreshInv
<1>8. CASE ObserveRow  BY <1>8 DEF ObserveRow, kernelVars, FreshInv
<1>9. ASSUME NEW e \in exited, CloseExited(e) PROVE FreshInv'
      BY <1>9 DEF CloseExited, kernelVars, FreshInv
<1>10. CASE FeedEnd  BY <1>10 DEF FeedEnd, FreshInv
<1>11. CASE Stop  BY <1>11 DEF Stop, FreshInv
<1>12. QED
  BY <1>1, <1>2, <1>3, <1>4, <1>5, <1>6, <1>7, <1>8, <1>9, <1>10, <1>11
  DEF Next, Tick, Create, Die, Emit, scanVars, feedVars, vars

-----------------------------------------------------------------------------
(***************************************************************************)
(* The runs of tasks that ended.                                           *)
(***************************************************************************)

LastTask(t) == [tid |-> t, start |-> runs[t][Len(runs[t])].task]

\* The task of an open run is known to the registry, or waits for the tracker
\* to close it, or its exit was lost.
OpenInv == \A t \in Tids : LastIsOpen(runs[t]) => LastTask(t) \in live \cup exited \cup lost

\* The runs of `task` ended by `limit`.
AllClosed(rs, task, limit) ==
    \A i \in DOMAIN rs : rs[i].task = task => rs[i].end # Open /\ rs[i].end <= limit

\* Of a task that was dead when a scan began, the runs are closed once that
\* scan has been fed, unless its exit was lost.
ClosedInv ==
    \A d \in deaths, f \in feeds :
        d.at < f.began =>
            \/ [tid |-> d.tid, start |-> d.start] \in lost
            \/ AllClosed(runs[d.tid], d.start, f.at)

\* What observing and closing make of the last run.
LEMMA LastAfterObserve ==
    ASSUME NEW rs \in Seq(Run), NEW task \in Nat, NEW ts \in Nat
    PROVE  LET new == Observe(rs, task, ts)
           IN  LastIsOpen(new) /\ new[Len(new)].task = task
<1>1. CASE LastIsOpen(rs) /\ rs[Len(rs)].task = task  BY <1>1 DEF Observe
<1>2. CASE ~(LastIsOpen(rs) /\ rs[Len(rs)].task = task)
  <2> DEFINE cl == CloseLast(rs, ts)
             r == [start |-> ts, end |-> Open, task |-> task]
  <2>1. Observe(rs, task, ts) = Append(cl, r)  BY <1>2 DEF Observe
  <2>2. cl \in Seq(Run)  BY CloseLastProps
  <2>3. r.end = Open /\ r.task = task  OBVIOUS
  <2> HIDE DEF cl, r
  <2>4. /\ Append(cl, r) # <<>> /\ Len(Append(cl, r)) = Len(cl) + 1
        /\ Append(cl, r)[Len(cl) + 1] = r
        BY <2>2
  <2>5. QED  BY <2>1, <2>3, <2>4 DEF LastIsOpen
<1>3. QED  BY <1>1, <1>2

LEMMA OpenStep ==
    TypeOK /\ PhaseInv /\ OpenInv /\ [Next]_vars => OpenInv'
<1> SUFFICES ASSUME TypeOK, PhaseInv, OpenInv, [Next]_vars PROVE OpenInv'
    OBVIOUS
<1>1. CASE runs' = runs /\ live \cup exited \cup lost \subseteq live' \cup exited' \cup lost'
  BY <1>1 DEF OpenInv, LastTask
<1>2. CASE ScanEnd  BY <1>1, <1>2 DEF ScanEnd, feedVars, PhaseInv
<1>3. CASE WriteRaises  BY <1>1, <1>3 DEF WriteRaises
<1>4. ASSUME ObserveRow, NEW r, r = Head(rows) PROVE OpenInv'
  <2>1. /\ phase = "feed" /\ runs' = [runs EXCEPT ![r.tid] = Observe(runs[r.tid], r.start, feedTs)]
        /\ UNCHANGED <<live, exited, lost>>
        BY <1>4 DEF ObserveRow
  <2>2. r \in live  BY <1>4, <2>1, SeenStep DEF PhaseInv
  <2>3. r \in Task  BY <2>2 DEF TypeOK
  <2>4. r.tid \in Tids /\ r.start \in Nat /\ r = [tid |-> r.tid, start |-> r.start]
        BY <2>3 DEF Task
  <2>5. runs'[r.tid] = Observe(runs[r.tid], r.start, feedTs)
        /\ \A t \in Tids : t # r.tid => runs'[t] = runs[t]
        BY <2>1, <2>4 DEF TypeOK
  <2>6. LastTask(r.tid)' = r
    <3>1. runs[r.tid] \in Seq(Run) /\ feedTs \in Nat  BY <2>4 DEF TypeOK
    <3>2. runs'[r.tid][Len(runs'[r.tid])].task = r.start
          BY <3>1, <2>4, <2>5, LastAfterObserve
    <3>3. QED  BY <2>4, <3>2 DEF LastTask
  <2>7. QED  BY <2>1, <2>2, <2>4, <2>5, <2>6 DEF OpenInv, LastTask
<1>5. ASSUME NEW e \in exited, CloseExited(e) PROVE OpenInv'
  <2>1. /\ runs' = [runs EXCEPT ![e.tid] = CloseLast(runs[e.tid], feedTs)]
        /\ exited' = exited \ {e} /\ UNCHANGED <<live, lost>>
        BY <1>5 DEF CloseExited
  <2>2. e.tid \in Tids /\ runs[e.tid] \in Seq(Run)  BY DEF TypeOK, Task
  <2>3. runs'[e.tid] = CloseLast(runs[e.tid], feedTs)
        /\ \A t \in Tids : t # e.tid => runs'[t] = runs[t]
        BY <2>1, <2>2 DEF TypeOK
  <2>4. ~LastIsOpen(runs'[e.tid])  BY <2>2, <2>3, CloseLastProps DEF TypeOK
  <2>5. ASSUME NEW t \in Tids, LastIsOpen(runs'[t])
        PROVE  LastTask(t)' \in live' \cup exited' \cup lost'
    <3>1. t # e.tid /\ runs'[t] = runs[t]  BY <2>3, <2>4, <2>5
    <3>2. LastTask(t) \in live \cup exited \cup lost  BY <2>5, <3>1 DEF OpenInv
    <3>3. LastTask(t)' = LastTask(t) /\ LastTask(t) # e  BY <3>1 DEF LastTask
    <3>4. QED  BY <2>1, <3>2, <3>3
  <2>6. QED  BY <2>5 DEF OpenInv
<1>6. CASE UNCHANGED <<runs, live, exited, lost>>  BY <1>1, <1>6
<1>7. QED
  BY <1>2, <1>3, <1>4, <1>5, <1>6
  DEF Next, Tick, Create, Die, Emit, ScanBegin, ReadTask, ScanRaises, WriteRows, FeedEnd, Stop,
      scanVars, feedVars, vars

\* Closing and observing leave alone the runs of a task that are closed.
LEMMA CloseKeepsClosed ==
    ASSUME NEW rs \in Seq(Run), NEW ts \in Nat, NEW task, NEW limit,
           AllClosed(rs, task, limit)
    PROVE  AllClosed(CloseLast(rs, ts), task, limit)
<1> DEFINE cl == CloseLast(rs, ts)
<1>1. CASE LastIsOpen(rs)
  <2>1. cl \in Seq(Run) /\ Len(cl) = Len(rs) /\ DOMAIN cl = 1 .. Len(rs)
        /\ \A i \in 1 .. Len(rs) : /\ cl[i].task = rs[i].task
                                   /\ i < Len(rs) => cl[i] = rs[i]
        BY CloseLastProps
  <2> HIDE DEF cl
  <2>2. rs[Len(rs)].task # task
    <3>1. Len(rs) \in DOMAIN rs /\ rs[Len(rs)].end = Open  BY <1>1 DEF LastIsOpen
    <3>2. QED  BY <3>1 DEF AllClosed
  <2>3. QED  BY <2>1, <2>2 DEF AllClosed, cl
<1>2. CASE ~LastIsOpen(rs)  BY <1>2 DEF CloseLast
<1>3. QED  BY <1>1, <1>2

LEMMA ObserveKeepsClosed ==
    ASSUME NEW rs \in Seq(Run), NEW ts \in Nat, NEW task, NEW limit, NEW seen \in Nat,
           seen # task, AllClosed(rs, task, limit)
    PROVE  AllClosed(Observe(rs, seen, ts), task, limit)
<1>1. CASE LastIsOpen(rs) /\ rs[Len(rs)].task = seen  BY <1>1 DEF Observe
<1>2. CASE ~(LastIsOpen(rs) /\ rs[Len(rs)].task = seen)
  <2> DEFINE cl == CloseLast(rs, ts)
             r == [start |-> ts, end |-> Open, task |-> seen]
  <2>1. Observe(rs, seen, ts) = Append(cl, r)  BY <1>2 DEF Observe
  <2>2. cl \in Seq(Run) /\ AllClosed(cl, task, limit)  BY CloseLastProps, CloseKeepsClosed
  <2>3. r.task # task  OBVIOUS
  <2> HIDE DEF cl, r
  <2>4. QED  BY <2>1, <2>2, <2>3 DEF AllClosed
<1>3. QED  BY <1>1, <1>2

LEMMA ClosedStep ==
    IInv /\ PhaseInv /\ FreshInv /\ KnownInv /\ OpenInv /\ ClosedInv /\ [Next]_vars
        => ClosedInv'
<1> SUFFICES ASSUME IInv, PhaseInv, FreshInv, KnownInv, OpenInv, ClosedInv, [Next]_vars
             PROVE  ClosedInv'
    OBVIOUS
<1>0. TypeOK  BY DEF IInv
<1>1. ASSUME NEW d \in deaths', NEW f \in feeds, d.at < f.began
      PROVE  d \in deaths
  <2>1. f.began \in Nat /\ f.at \in Nat /\ f.began <= f.at /\ f.at <= now /\ now \in Nat
        BY <1>0 DEF KnownInv, TypeOK
  <2>2. d \in deaths \/ d.at = now  BY <1>0, DeathStep
  <2>3. QED  BY <1>1, <2>1, <2>2
<1>2. CASE UNCHANGED <<runs, feeds>> /\ lost \subseteq lost'
  BY <1>1, <1>2 DEF ClosedInv
<1>3. ASSUME ObserveRow, NEW r, r = Head(rows) PROVE ClosedInv'
  <2>1. /\ phase = "feed" /\ runs' = [runs EXCEPT ![r.tid] = Observe(runs[r.tid], r.start, feedTs)]
        /\ UNCHANGED <<feeds, lost, deaths>>
        BY <1>3 DEF ObserveRow, kernelVars
  <2>2. r \in live  BY <1>0, <1>3, <2>1, SeenStep DEF PhaseInv
  <2>3. r.tid \in Tids /\ r.start \in Nat /\ feedTs \in Nat  BY <1>0, <2>2 DEF TypeOK, Task
  <2>4. runs'[r.tid] = Observe(runs[r.tid], r.start, feedTs)
        /\ \A t \in Tids : t # r.tid => runs'[t] = runs[t]
        BY <1>0, <2>1, <2>3 DEF TypeOK
  <2>5. ASSUME NEW d \in deaths, NEW f \in feeds, d.at < f.began,
               [tid |-> d.tid, start |-> d.start] \notin lost
        PROVE  AllClosed(runs'[d.tid], d.start, f.at)
    <3>1. AllClosed(runs[d.tid], d.start, f.at) /\ d.tid \in Tids
          BY <1>0, <2>5 DEF ClosedInv, TypeOK
    <3>2. CASE d.tid # r.tid  BY <2>4, <3>1, <3>2
    <3>3. CASE d.tid = r.tid
      <4>1. f.began <= began /\ Fresh(live, deaths, began)  BY <2>1 DEF FreshInv
      <4>2. d.at \in Nat /\ f.began \in Nat /\ began \in Nat  BY <1>0 DEF TypeOK
      <4>3. d.start # r.start  BY <2>2, <2>5, <3>3, <4>1, <4>2 DEF Fresh
      <4>4. AllClosed(runs[r.tid], d.start, f.at) /\ runs[r.tid] \in Seq(Run)
            BY <1>0, <2>3, <3>1, <3>3 DEF TypeOK
      <4>5. AllClosed(Observe(runs[r.tid], r.start, feedTs), d.start, f.at)
            BY <2>3, <4>3, <4>4, ObserveKeepsClosed
      <4>6. QED  BY <2>4, <3>3, <4>5
    <3>4. QED  BY <3>2, <3>3
  <2>6. QED  BY <2>1, <2>5 DEF ClosedInv
<1>4. ASSUME NEW e \in exited, CloseExited(e) PROVE ClosedInv'
  <2>1. /\ runs' = [runs EXCEPT ![e.tid] = CloseLast(runs[e.tid], feedTs)]
        /\ UNCHANGED <<feeds, lost, deaths>>
        BY <1>4 DEF CloseExited, kernelVars
  <2>2. e.tid \in Tids /\ feedTs \in Nat  BY <1>0 DEF TypeOK, Task
  <2>3. runs'[e.tid] = CloseLast(runs[e.tid], feedTs)
        /\ \A t \in Tids : t # e.tid => runs'[t] = runs[t]
        BY <1>0, <2>1, <2>2 DEF TypeOK
  <2>4. ASSUME NEW d \in deaths, NEW f \in feeds, d.at < f.began,
               [tid |-> d.tid, start |-> d.start] \notin lost
        PROVE  AllClosed(runs'[d.tid], d.start, f.at)
    <3>1. AllClosed(runs[d.tid], d.start, f.at) /\ d.tid \in Tids
          BY <1>0, <2>4 DEF ClosedInv, TypeOK
    <3>2. runs[d.tid] \in Seq(Run)  BY <1>0, <3>1 DEF TypeOK
    <3>3. AllClosed(CloseLast(runs[d.tid], feedTs), d.start, f.at)
          BY <2>2, <3>1, <3>2, CloseKeepsClosed
    <3>4. CASE d.tid = e.tid  BY <2>3, <3>3, <3>4
    <3>5. CASE d.tid # e.tid  BY <2>3, <3>1, <3>5
    <3>6. QED  BY <3>4, <3>5
  <2>5. QED  BY <2>1, <2>4 DEF ClosedInv
<1>5. CASE FeedEnd
  <2> DEFINE nf == [began |-> began, at |-> feedTs]
  <2>1. /\ phase = "feed" /\ exited = {} /\ feeds' = feeds \cup {nf}
        /\ UNCHANGED <<runs, lost, deaths>>
        BY <1>5 DEF FeedEnd, kernelVars
  <2>2. ASSUME NEW d \in deaths, d.at < began,
               [tid |-> d.tid, start |-> d.start] \notin lost,
               NEW i \in DOMAIN runs[d.tid], runs[d.tid][i].task = d.start
        PROVE  runs[d.tid][i].end # Open /\ runs[d.tid][i].end <= feedTs
    <3> DEFINE rs == runs[d.tid]
    <3>1. d.tid \in Tids /\ rs \in Seq(Run) /\ d.at \in Nat /\ began \in Nat
          BY <1>0 DEF TypeOK
    <3>2. Ordered(rs) /\ Within(rs, feedTs)  BY <3>1 DEF IInv, RunsInv, Sound
    <3> HIDE DEF rs
    <3>3. rs[i].end # Open
      <4> SUFFICES ASSUME rs[i].end = Open PROVE FALSE
          OBVIOUS
      <4>1. i \in 1 .. Len(rs) /\ ~(i < Len(rs))  BY <2>2, <3>1, <3>2 DEF Ordered, rs
      <4>2. i = Len(rs) /\ rs # <<>>  BY <3>1, <4>1
      <4>3. LastIsOpen(rs)  BY <4>2 DEF LastIsOpen
      <4>4. LastTask(d.tid) = [tid |-> d.tid, start |-> d.start]
            BY <2>2, <4>2 DEF LastTask, rs
      <4>5. LastTask(d.tid) \in live  BY <2>1, <2>2, <3>1, <4>3, <4>4 DEF OpenInv, rs
      <4>6. Fresh(live, deaths, began)  BY <2>1 DEF FreshInv
      <4>7. began <= d.at  BY <4>4, <4>5, <4>6 DEF Fresh
      <4>8. QED  BY <2>2, <3>1, <4>7
    <3>4. QED  BY <2>2, <3>2, <3>3 DEF Within, rs
  <2>3. ASSUME NEW d \in deaths, d.at < nf.began,
               [tid |-> d.tid, start |-> d.start] \notin lost
        PROVE  AllClosed(runs[d.tid], d.start, nf.at)
        BY <2>2, <2>3 DEF AllClosed
  <2> HIDE DEF nf
  <2>4. QED  BY <2>1, <2>3 DEF ClosedInv
<1>6. QED
  <2>1. CASE WriteRaises  BY <1>2, <2>1 DEF WriteRaises
  <2>2. CASE ObserveRow  BY <1>3, <2>2
  <2>3. CASE UNCHANGED <<runs, feeds, lost>>  BY <1>2, <2>3
  <2>4. QED
    BY <1>4, <1>5, <2>1, <2>2, <2>3
    DEF Next, Tick, Create, Die, Emit, ScanBegin, ReadTask, ScanEnd, ScanRaises, WriteRows,
        Stop, scanVars, feedVars, vars

-----------------------------------------------------------------------------

WindowInv == LifetimesInv /\ PhaseInv /\ FreshInv /\ KnownInv /\ OpenInv /\ ClosedInv

LEMMA InitWindow == Init => WindowInv
<1> SUFFICES ASSUME Init PROVE WindowInv
    OBVIOUS
<1>1. Seen = {}  BY DEF Init, Seen
<1>2. QED
  BY <1>1
  DEF Init, WindowInv, LifetimesInv, PhaseInv, FreshInv, KnownInv, OpenInv, ClosedInv,
      LastIsOpen

LEMMA WindowInvariance == Spec => []WindowInv
<1>1. IInv /\ WindowInv /\ [Next]_vars => WindowInv'
  BY LifetimesStep, PhaseStep, FreshInvStep, KnownInvStep, OpenStep, ClosedStep
  DEF WindowInv, IInv
<1>2. QED  BY InitWindow, <1>1, Invariance, PTL DEF Spec

\* An event goes to a task that had already ended only until the first scan
\* begun after the end has been fed, or when that exit was lost with a failed
\* write, for every interleaving of scans, ends, reuse, writes and feeds
\* (correlate.py:3-7, controller.py:243-265).
THEOREM StaleWindowIsBounded == Spec => []StaleWindow
<1>1. ASSUME IInv, WindowInv PROVE StaleWindow
  <2> SUFFICES ASSUME NEW ev \in events, Attributed(ev) # Unresolved,
                      NEW d \in deaths, NEW f \in feeds,
                      d.tid = ev.tid, d.start = Attributed(ev),
                      d.at < f.began, f.at <= ev.ts,
                      [tid |-> d.tid, start |-> d.start] \notin lost
               PROVE  FALSE
      BY DEF StaleWindow
  <2>1. ev.tid \in Tids /\ ev.ts \in Nat /\ runs[ev.tid] \in Seq(Run) /\ f.at \in Nat
        BY <1>1 DEF IInv, TypeOK
  <2>2. Holding(runs[ev.tid], ev.ts) # {}  BY DEF Attributed, Resolve
  <2>3. PICK i \in DOMAIN runs[ev.tid] : /\ Holds(runs[ev.tid][i], ev.ts)
                                         /\ Attributed(ev) = runs[ev.tid][i].task
        BY <2>1, <2>2, ResolveHit DEF Attributed
  <2>4. runs[ev.tid][i] \in Run  BY <2>1
  <2>5. runs[ev.tid][i].end # Open /\ runs[ev.tid][i].end <= f.at
        BY <1>1, <2>3 DEF WindowInv, ClosedInv, AllClosed
  <2>6. QED  BY <2>1, <2>3, <2>4, <2>5 DEF Holds, Run
<1>2. QED  BY Invariance, WindowInvariance, <1>1, PTL

-----------------------------------------------------------------------------
(***************************************************************************)
(* The hole that reuse leaves.                                             *)
(***************************************************************************)

\* What the registry knows was born, and was born before the scan in progress
\* began when an earlier scan found it.
BornInv ==
    /\ \A s \in live \cup exited : Born(s.tid, s.start) /\ s.start <= now
    /\ phase = "scan" => \A s \in live : s.start <= began

\* A scan that reads an id twice reads its later owner later.
RowOrderInv ==
    \A i, j \in DOMAIN rows :
        i <= j /\ rows[i].tid = rows[j].tid => rows[i].start <= rows[j].start

\* Who exited while its id has an owner is dead and was there before it.
ReplacedInv ==
    phase \in {"write", "feed"} => \A e \in exited, s \in live :
        e.tid = s.tid => /\ e.start < s.start
                         /\ \E d \in deaths : d.tid = e.tid /\ d.start = e.start

\* HoleEndsNextFeed for one task.
Settled(s) ==
    \/ \E s2 \in live : s2.tid = s.tid /\ s2.start > s.start
    \/ \E d \in deaths : /\ d.tid = s.tid /\ d.start < s.start
                         /\ \A f \in feeds : f.began <= d.at
    \/ LastIsOpen(runs[s.tid]) /\ runs[s.tid][Len(runs[s.tid])].task = s.start

\* In a feed a live task waits to be observed or is settled, and of an id only
\* its later owners still wait.
HoleInv ==
    phase = "feed" => \A s \in live :
        \/ s \in Seen
        \/ /\ Settled(s)
           /\ \A i \in DOMAIN rows : rows[i].tid = s.tid => s.start <= rows[i].start

LEMMA RowsTyped == TypeOK => \A i \in DOMAIN rows : /\ rows[i] \in Task
                                                    /\ rows[i].tid \in Tids
                                                    /\ rows[i].start \in Nat
<1> SUFFICES ASSUME TypeOK, NEW i \in DOMAIN rows PROVE rows[i] \in Task
    BY DEF Task
<1>1. QED  BY DEF TypeOK

LEMMA BornInvStep == IInv /\ BornInv /\ [Next]_vars => BornInv'
<1> SUFFICES ASSUME IInv, BornInv, [Next]_vars PROVE BornInv'
    OBVIOUS
<1>0. TypeOK /\ now <= now' /\ now \in Nat /\ now' \in Nat  BY DeathStep DEF IInv
<1>1. \A s \in live \cup exited \cup Seen :
          s.tid \in Tids /\ s.start \in Nat /\ Born(s.tid, s.start) /\ s.start <= now
      BY <1>0, RowsTyped DEF BornInv, IInv, RowsInv, Seen, TypeOK, Task
<1>2. \A s \in live \cup exited \cup Seen : Born(s.tid, s.start)' /\ s.start <= now'
      BY <1>0, <1>1, BornStep
<1>3. live' \cup exited' \subseteq live \cup exited \cup Seen
      BY DEF Next, Tick, Create, Die, Emit, ScanBegin, ReadTask, ScanEnd, ScanRaises,
             WriteRows, WriteRaises, ObserveRow, CloseExited, FeedEnd, Stop, scanVars, vars
<1>4. phase' = "scan" => \A s \in live' : s.start <= began'
  <2>1. CASE ScanBegin  BY <1>1, <2>1 DEF ScanBegin
  <2>2. CASE ~ScanBegin
    <3>1. phase' = "scan" => phase = "scan" /\ UNCHANGED <<live, began>>
          BY <2>2 DEF Next, Tick, Create, Die, Emit, ReadTask, ScanEnd, ScanRaises, WriteRows,
                      WriteRaises, ObserveRow, CloseExited, FeedEnd, Stop, scanVars, vars
    <3>2. QED  BY <3>1 DEF BornInv
  <2>3. QED  BY <2>1, <2>2
<1>5. QED  BY <1>2, <1>3, <1>4 DEF BornInv

LEMMA RowOrderStep == IInv /\ RowOrderInv /\ [Next]_vars => RowOrderInv'
<1> SUFFICES ASSUME IInv, RowOrderInv, [Next]_vars PROVE RowOrderInv'
    OBVIOUS
<1>0. TypeOK /\ rows \in Seq(Task)  BY DEF IInv, TypeOK
<1>1. CASE rows' = rows  BY <1>1 DEF RowOrderInv
<1>2. CASE rows' = <<>>  BY <1>2 DEF RowOrderInv
<1>3. ASSUME NEW t \in Tids, NEW k \in Kinds, ReadTask(t, k), rows' # rows
      PROVE  RowOrderInv'
  <2> DEFINE r == [tid |-> t, start |-> alive[t].start]
  <2>1. alive[t] # NoTask /\ rows' = Append(rows, r)  BY <1>3 DEF ReadTask
  <2>2. r \in Task /\ r.tid = t /\ r.start = alive[t].start
        BY <1>0, <2>1 DEF TypeOK, Task
  <2>3. \A i \in DOMAIN rows : rows[i].tid = t => rows[i].start <= r.start
    <3>1. ASSUME NEW i \in DOMAIN rows, rows[i].tid = t PROVE rows[i].start <= alive[t].start
      <4>1. Born(t, rows[i].start)  BY <3>1 DEF IInv, RowsInv
      <4>2. alive[t].start \in Nat  BY <1>0, <2>1 DEF TypeOK
      <4>3. QED  BY <2>1, <4>1, <4>2 DEF Born, IInv, LivesInv
    <3>2. QED  BY <3>1
  <2> HIDE DEF r
  <2>4. /\ DOMAIN rows' = 1 .. Len(rows) + 1 /\ DOMAIN rows = 1 .. Len(rows) /\ Len(rows) \in Nat
        /\ \A i \in 1 .. Len(rows) : rows'[i] = rows[i]
        /\ rows'[Len(rows) + 1] = r /\ r.start \in Nat
        BY <1>0, <2>1, <2>2 DEF Task
  <2>5. ASSUME NEW i \in DOMAIN rows', NEW j \in DOMAIN rows', i <= j,
               rows'[i].tid = rows'[j].tid
        PROVE  rows'[i].start <= rows'[j].start
    <3>1. CASE j \in 1 .. Len(rows)  BY <2>4, <2>5, <3>1 DEF RowOrderInv
    <3>2. CASE j = Len(rows) + 1 /\ i \in 1 .. Len(rows)  BY <2>2, <2>3, <2>4, <2>5, <3>2
    <3>3. CASE j = Len(rows) + 1 /\ i = j  BY <2>4, <3>3
    <3>4. QED  BY <2>4, <2>5, <3>1, <3>2, <3>3
  <2>6. QED  BY <2>5 DEF RowOrderInv
<1>4. CASE ObserveRow
  <2>1. rows # <<>> /\ rows' = Tail(rows)  BY <1>4 DEF ObserveRow
  <2>2. \A i \in DOMAIN rows' : rows'[i] = rows[i + 1] /\ i + 1 \in DOMAIN rows /\ i \in Nat
        BY <1>0, <2>1
  <2>3. \A i, j \in DOMAIN rows' : i <= j => i + 1 <= j + 1  BY <2>2
  <2>4. QED  BY <2>2, <2>3 DEF RowOrderInv
<1>5. QED
  BY <1>1, <1>2, <1>3, <1>4
  DEF Next, Tick, Create, Die, Emit, ScanBegin, ScanEnd, ScanRaises, WriteRows, WriteRaises,
      CloseExited, FeedEnd, Stop, scanVars, vars

LEMMA ReplacedStep ==
    IInv /\ LifetimesInv /\ FreshInv /\ BornInv /\ ReplacedInv /\ [Next]_vars => ReplacedInv'
<1> SUFFICES ASSUME IInv, LifetimesInv, FreshInv, BornInv, ReplacedInv, [Next]_vars
             PROVE  ReplacedInv'
    OBVIOUS
<1>0. TypeOK /\ deaths \subseteq deaths'  BY DeathStep DEF IInv
<1>1. CASE ScanEnd
  <2>1. /\ phase = "scan" /\ live' = Seen /\ exited' = live \ Seen /\ deaths' = deaths
        BY <1>1 DEF ScanEnd, kernelVars
  <2>2. ASSUME NEW e \in live \ Seen, NEW s \in Seen, e.tid = s.tid
        PROVE  e.start < s.start /\ \E d \in deaths : d.tid = e.tid /\ d.start = e.start
    <3>1. /\ e.tid \in Tids /\ e.start \in Nat /\ s.start \in Nat /\ began \in Nat
          /\ e = [tid |-> e.tid, start |-> e.start] /\ s = [tid |-> s.tid, start |-> s.start]
          BY <1>0, <2>2, RowsTyped DEF TypeOK, Task, Seen
    <3>2. Born(e.tid, e.start) /\ Born(e.tid, s.start) /\ e.start <= began
          BY <2>1, <2>2 DEF BornInv, IInv, RowsInv, Seen
    <3>3. e.start # s.start  BY <2>2, <3>1
    <3>4. \A d \in deaths : d.tid = e.tid /\ d.start = s.start => began <= d.at
          BY <2>1, <2>2 DEF FreshInv, Fresh
    <3>5. \A d \in deaths : d.start \in Nat /\ d.at \in Nat /\ d.start <= d.at
          BY <1>0 DEF TypeOK, IInv, LivesInv
    <3>6. alive[e.tid] # NoTask => /\ alive[e.tid].start \in Nat
                                   /\ \A d \in deaths : d.tid = e.tid => d.at < alive[e.tid].start
          BY <1>0, <3>1 DEF TypeOK, LifetimesInv
    <3>7. e.start < s.start
      <4>1. CASE alive[e.tid] # NoTask /\ alive[e.tid].start = s.start
        BY <3>1, <3>2, <3>3, <3>5, <3>6, <4>1 DEF Born
      <4>2. ASSUME NEW d \in deaths, d.tid = e.tid, d.start = s.start PROVE e.start < s.start
        <5>1. began <= d.at  BY <3>4, <4>2
        <5>2. CASE alive[e.tid] # NoTask /\ alive[e.tid].start = e.start
          BY <3>1, <3>2, <3>5, <3>6, <4>2, <5>1, <5>2
        <5>3. ASSUME NEW c \in deaths, c.tid = e.tid, c.start = e.start PROVE e.start < s.start
          <6>1. c.at < d.start \/ d.at < c.start
                BY <3>3, <4>2, <5>3 DEF LifetimesInv
          <6>2. QED  BY <3>1, <3>2, <3>5, <4>2, <5>1, <5>3, <6>1
        <5>4. QED  BY <3>2, <5>2, <5>3 DEF Born
      <4>3. QED  BY <3>2, <4>1, <4>2 DEF Born
    <3>8. \E d \in deaths : d.tid = e.tid /\ d.start = e.start
      <4>1. SUFFICES ASSUME alive[e.tid] # NoTask, alive[e.tid].start = e.start PROVE FALSE
            BY <3>2 DEF Born
      <4>2. QED  BY <3>1, <3>2, <3>5, <3>6, <3>7, <4>1 DEF Born
    <3>9. QED  BY <3>7, <3>8
  <2>3. QED  BY <2>1, <2>2 DEF ReplacedInv
<1>2. CASE ~ScanEnd
  <2>1. phase' \in {"write", "feed"} => /\ phase \in {"write", "feed"}
                                        /\ live' = live /\ exited' \subseteq exited
        BY <1>2
        DEF Next, Tick, Create, Die, Emit, ScanBegin, ReadTask, ScanRaises, WriteRows,
            WriteRaises, ObserveRow, CloseExited, FeedEnd, Stop, scanVars, vars
  <2>2. QED  BY <1>0, <2>1 DEF ReplacedInv
<1>3. QED  BY <1>1, <1>2

LEMMA HoleStep ==
    /\ IInv /\ PhaseInv /\ KnownInv /\ RowOrderInv /\ ReplacedInv /\ HoleInv
    /\ [Next]_vars
    => HoleInv'
<1> SUFFICES ASSUME IInv, PhaseInv, KnownInv, RowOrderInv, ReplacedInv, HoleInv,
                    [Next]_vars, phase' = "feed"
             PROVE  HoleInv'
    BY DEF HoleInv
<1>0. TypeOK /\ deaths \subseteq deaths'  BY DeathStep DEF IInv
<1>1. CASE WriteRows
  BY <1>0, <1>1, SeenStep DEF WriteRows, scanVars, PhaseInv, HoleInv
<1>2. ASSUME ObserveRow, NEW r, r = Head(rows) PROVE HoleInv'
  <2>1. /\ phase = "feed" /\ rows # <<>> /\ rows' = Tail(rows)
        /\ runs' = [runs EXCEPT ![r.tid] = Observe(runs[r.tid], r.start, feedTs)]
        /\ UNCHANGED <<live, deaths, feeds>>
        BY <1>2 DEF ObserveRow, kernelVars
  <2>2. r \in Seen /\ Seen = Seen' \cup {r}  BY <1>0, <1>2, SeenStep
  <2>3. r \in live  BY <2>1, <2>2 DEF PhaseInv
  <2>4. \A s \in live : s.tid \in Tids /\ s.start \in Nat /\ s = [tid |-> s.tid, start |-> s.start]
        BY <1>0 DEF TypeOK, Task
  <2>5. runs'[r.tid] = Observe(runs[r.tid], r.start, feedTs)
        /\ \A t \in Tids : t # r.tid => runs'[t] = runs[t]
        BY <1>0, <2>1, <2>3, <2>4 DEF TypeOK
  <2>6. rows \in Seq(Task) /\ 1 \in DOMAIN rows /\ rows[1] = r
        /\ \A i \in DOMAIN rows' : rows'[i] = rows[i + 1] /\ i + 1 \in DOMAIN rows /\ 1 <= i + 1
        BY <1>0, <1>2, <2>1 DEF TypeOK
  <2>7. ASSUME NEW s \in live, s \notin Seen'
        PROVE  /\ Settled(s)'
               /\ \A i \in DOMAIN rows' : rows'[i].tid = s.tid => s.start <= rows'[i].start
    <3>1. CASE s = r
      <4>1. runs[r.tid] \in Seq(Run) /\ feedTs \in Nat  BY <1>0, <2>3, <2>4 DEF TypeOK
      <4>2. LastIsOpen(runs'[r.tid]) /\ runs'[r.tid][Len(runs'[r.tid])].task = r.start
            BY <2>3, <2>4, <2>5, <4>1, LastAfterObserve
      <4>3. QED  BY <2>6, <3>1, <4>2 DEF Settled, RowOrderInv
    <3>2. CASE s # r
      <4>1. s \notin Seen  BY <2>2, <2>7, <3>2
      <4>2. Settled(s) /\ \A i \in DOMAIN rows : rows[i].tid = s.tid => s.start <= rows[i].start
            BY <2>1, <4>1 DEF HoleInv
      <4>3. CASE s.tid = r.tid
        <5>1. s.start <= r.start /\ s.start # r.start  BY <2>3, <2>4, <2>6, <3>2, <4>2, <4>3
        <5>2. r.start > s.start  BY <2>3, <2>4, <5>1
        <5>3. QED  BY <2>1, <2>3, <2>6, <4>2, <4>3, <5>2 DEF Settled
      <4>4. CASE s.tid # r.tid
        <5>1. runs'[s.tid] = runs[s.tid]  BY <2>4, <2>5, <4>4
        <5>2. QED  BY <2>1, <2>6, <4>2, <5>1 DEF Settled
      <4>5. QED  BY <4>3, <4>4
    <3>3. QED  BY <3>1, <3>2
  <2>8. QED  BY <2>1, <2>7 DEF HoleInv
<1>3. ASSUME NEW e \in exited, CloseExited(e) PROVE HoleInv'
  <2>1. /\ phase = "feed" /\ rows = <<>> /\ rows' = rows
        /\ runs' = [runs EXCEPT ![e.tid] = CloseLast(runs[e.tid], feedTs)]
        /\ UNCHANGED <<live, deaths, feeds>>
        BY <1>3 DEF CloseExited, kernelVars
  <2>2. Seen = {}  BY <2>1 DEF Seen
  <2>3. ASSUME NEW s \in live PROVE Settled(s)'
    <3>1. Settled(s)  BY <2>1, <2>2 DEF HoleInv
    <3>2. s.tid \in Tids  BY <1>0 DEF TypeOK, Task
    <3>3. CASE s.tid = e.tid
      <4>1. PICK d \in deaths : d.tid = e.tid /\ d.start = e.start /\ d.start < s.start
            BY <2>1, <3>3 DEF ReplacedInv
      <4>2. \A f \in feeds : f.began <= d.at  BY <4>1 DEF KnownInv, Fresh
      <4>3. QED  BY <2>1, <3>3, <4>1, <4>2 DEF Settled
    <3>4. CASE s.tid # e.tid
      <4>1. runs'[s.tid] = runs[s.tid]  BY <1>0, <2>1, <3>2, <3>4 DEF TypeOK
      <4>2. QED  BY <2>1, <3>1, <4>1 DEF Settled
    <3>5. QED  BY <3>3, <3>4
  <2>4. QED  BY <2>1, <2>3 DEF HoleInv
<1>4. CASE phase = "feed" /\ UNCHANGED <<rows, live, feeds, runs>>
  <2>1. Seen' = Seen  BY <1>0, <1>4, SeenStep
  <2>2. \A s \in live : Settled(s) => Settled(s)'  BY <1>0, <1>4 DEF Settled
  <2>3. QED  BY <1>4, <2>1, <2>2 DEF HoleInv
<1>5. QED
  <2>1. CASE ObserveRow  BY <1>2, <2>1
  <2>2. QED
    BY <1>1, <1>3, <1>4, <2>1
    DEF Next, Tick, Create, Die, Emit, ScanBegin, ReadTask, ScanEnd, ScanRaises, WriteRaises,
        FeedEnd, Stop, scanVars, feedVars, vars

\* A task the scan saw owns the open run of its id when the feed is over, as
\* soon as one feed separates it from the death of the id's earlier owners:
\* closing by id, which may close a newer owner's run, is repaired by the next
\* feed in every interleaving (correlate.py:41-63, controller.py:247-253).
THEOREM HoleIsRepaired == Spec => []HoleEndsNextFeed
<1> DEFINE HInv == BornInv /\ RowOrderInv /\ ReplacedInv /\ HoleInv
<1>1. Init => HInv
  <2> SUFFICES ASSUME Init PROVE HInv
      OBVIOUS
  <2>1. live = {} /\ exited = {} /\ phase = "idle" /\ rows = <<>>  BY DEF Init
  <2>2. QED  BY <2>1 DEF BornInv, RowOrderInv, ReplacedInv, HoleInv
<1>2. IInv /\ WindowInv /\ HInv /\ [Next]_vars => HInv'
  BY BornInvStep, RowOrderStep, ReplacedStep, HoleStep DEF WindowInv
<1>3. HInv => HoleEndsNextFeed
  <2> SUFFICES ASSUME HoleInv, phase = "feed", rows = <<>>, NEW s \in live PROVE Settled(s)
      BY DEF HoleEndsNextFeed, Settled
  <2>1. Seen = {}  BY DEF Seen
  <2>2. QED  BY <2>1 DEF HoleInv
<1> HIDE DEF HInv
<1>4. QED  BY Invariance, WindowInvariance, <1>1, <1>2, <1>3, PTL DEF Spec
=============================================================================

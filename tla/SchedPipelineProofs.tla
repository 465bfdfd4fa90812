------------------------ MODULE SchedPipelineProofs ------------------------
(***************************************************************************)
(* Proofs about SchedPipeline, for every set of programs and processors,   *)
(* every size of the ring and any number of events: its safety properties, *)
(* and that it implements LossyChannel.                                    *)
(***************************************************************************)
EXTENDS SchedPipeline, SequenceTheorems, TLAPS

\* What has been decoded, in the order in which the controller gets it.
Decoded == rows \o pending

Types ==
    /\ hooked \subseteq Programs /\ attached \subseteq Programs /\ failed \subseteq Programs
    /\ fired \in 0 .. MaxFired
    /\ clock \in Nat
    /\ probe \in [Cpus -> {"idle", "reserved", "stamped"}]
    /\ ring \in Seq(Record) /\ Len(ring) <= RingSize
    /\ drops \in Nat
    /\ reader \in Starting \cup Open \cup Over
    /\ pending \in Seq(Record) /\ rows \in Seq(Record)
    /\ received \in Nat /\ decoded \in Nat /\ rejected \in Nat
    /\ dropped \in Nat
    /\ last \in 0 .. MaxFired

\* A program that counts as attached runs.
StartInv == hooked = attached /\ StartedIsComplete

\* What a probe has done so far shows in the only record of its processor that
\* is not submitted yet.
Unfinished(c, i) ==
    /\ ring[i].by = c /\ ~ring[i].done
    /\ probe[c] = "reserved" <=> ring[i].ts = 0

ProbeOf(c) ==
    /\ probe[c] = "idle" => \A i \in 1 .. Len(ring) : ring[i].by = c => ring[i].done
    /\ probe[c] # "idle" => \E i \in 1 .. Len(ring) : Unfinished(c, i)

ProbeInv == \A c \in Cpus : ProbeOf(c)

\* A filled record has its fields, and a local one names its own processor.
Filled(r) == r.kind # "zero" /\ (r.kind = "local" => r.cpu = r.by)

\* The records of one processor are filled one after the other.
RingInv ==
    /\ \A i \in 1 .. Len(ring) :
          (ring[i].done => ring[i].ts > 0 /\ Filled(ring[i])) /\ ring[i].ts <= clock
    /\ \A i, j \in 1 .. Len(ring) :
          i < j /\ ring[i].by = ring[j].by =>
            ring[i].done /\ (ring[j].ts > 0 => ring[i].ts < ring[j].ts)

\* The decoded events are older than the records of their processor.
DecodedInv ==
    /\ \A i \in 1 .. Len(Decoded) :
          Decoded[i].done /\ Decoded[i].ts > 0 /\ Decoded[i].ts <= clock /\ Filled(Decoded[i])
    /\ \A i, j \in 1 .. Len(Decoded) :
          i < j /\ Decoded[i].by = Decoded[j].by => Decoded[i].ts < Decoded[j].ts
    /\ \A i \in 1 .. Len(Decoded), j \in 1 .. Len(ring) :
          Decoded[i].by = ring[j].by /\ ring[j].ts > 0 => Decoded[i].ts < ring[j].ts

IInv ==
    Types /\ StartInv /\ ProbeInv /\ RingInv /\ DecodedInv /\ Accounting /\ DropsNotOvercounted

\* The initial states satisfy the invariant.
LEMMA InitIInv == Init => IInv
<1> SUFFICES ASSUME Init PROVE IInv
  OBVIOUS
<1>1. Types
  BY RingSizeAssumption, MaxFiredAssumption DEF Init, Types, Starting
<1>2. StartInv /\ ProbeInv /\ RingInv
  BY DEF Init, StartInv, StartedIsComplete, ProbeInv, ProbeOf, RingInv, Open
<1>3. Decoded = <<>> /\ Len(Decoded) = 0
  BY DEF Init, Decoded
<1>4. DecodedInv /\ Accounting /\ DropsNotOvercounted
  BY <1>3 DEF Init, DecodedInv, Accounting, DropsNotOvercounted
<1> QED
  BY <1>1, <1>2, <1>4 DEF IInv

\* The fields of the records, whichever sequence holds them.
LEMMA RecordFields ==
    ASSUME NEW q \in Seq(Record)
    PROVE  \A i \in 1 .. Len(q) :
             /\ q[i] \in Record
             /\ q[i].id \in 1 .. MaxFired /\ q[i].by \in Cpus
             /\ q[i].ts \in Nat /\ q[i].done \in BOOLEAN
<1>1. \A r \in Record : r.id \in 1 .. MaxFired /\ r.by \in Cpus /\ r.ts \in Nat /\ r.done \in BOOLEAN
  BY DEF Record
<1>2. \A i \in 1 .. Len(q) : q[i] \in Record
  OBVIOUS
<1> QED
  BY <1>1, <1>2

\* A probe under way has one record that is not submitted, and finds it.
LEMMA FillingProperties ==
    ASSUME IInv, NEW c \in Cpus, probe[c] # "idle"
    PROVE  /\ Filling(c) \in 1 .. Len(ring)
           /\ ring[Filling(c)].by = c /\ ~ring[Filling(c)].done
           /\ probe[c] = "reserved" <=> ring[Filling(c)].ts = 0
           /\ \A j \in 1 .. Len(ring) : ring[j].by = c /\ j # Filling(c) => ring[j].done /\ j < Filling(c)
<1>0. Types /\ ProbeInv /\ RingInv
  BY DEF IInv
<1>1. ring \in Seq(Record) /\ Len(ring) \in Nat /\ DOMAIN ring = 1 .. Len(ring)
  BY <1>0, LenProperties DEF Types
<1>2. PICK i \in 1 .. Len(ring) : Unfinished(c, i)
  BY <1>0 DEF ProbeInv, ProbeOf
<1>3. \A j \in 1 .. Len(ring) : ring[j].by = c /\ j # i => ring[j].done /\ j < i
  BY <1>0, <1>1, <1>2 DEF RingInv, Unfinished
<1>4. Filling(c) = i
  BY <1>1, <1>2, <1>3 DEF Filling, Unfinished
<1> QED
  BY <1>2, <1>3, <1>4 DEF Unfinished

\* A record appended to what was not handed over yet is appended to the whole.
LEMMA ConcatAppend ==
    ASSUME NEW S, NEW s \in Seq(S), NEW t \in Seq(S), NEW x \in S
    PROVE  s \o Append(t, x) = Append(s \o t, x)
<1>1. Append(t, x) = t \o <<x>> /\ <<x>> \in Seq(S)
  BY AppendIsConcat
<1>2. s \o t \in Seq(S)
  BY ConcatProperties
<1>3. Append(s \o t, x) = (s \o t) \o <<x>>
  BY <1>2, AppendIsConcat
<1> QED
  BY <1>1, <1>3, ConcatAssociative

\* Loading, attaching and opening the ring touch neither ring nor rows.
LEMMA StartStep ==
    ASSUME IInv, Start
    PROVE  IInv'
<1>0. Types /\ StartInv /\ ProbeInv /\ RingInv /\ DecodedInv /\ Accounting /\ DropsNotOvercounted
  BY DEF IInv
<1>1. UNCHANGED <<fired, clock, probe, drops, ring, pending, rows, received, decoded, rejected, dropped, last>>
  BY DEF Start, OpenAndLoad, Attach, AttachFailed, OpenRing, kernelVars, collectorVars
<1>2. hooked' \subseteq Programs /\ attached' \subseteq Programs /\ failed' \subseteq Programs
      /\ hooked' = attached'
  BY <1>0 DEF Start, OpenAndLoad, Attach, AttachFailed, OpenRing, loaderVars, Types, StartInv
<1>3. reader' \in Starting \cup Open \cup Over
      /\ (reader' \in Open => hooked' = Programs)
  BY <1>0 DEF Start, OpenAndLoad, Attach, AttachFailed, OpenRing, loaderVars, Types, StartInv,
     StartedIsComplete, Starting, Open, Over
<1>4. Types'
  BY <1>0, <1>1, <1>2, <1>3 DEF Types
<1>5. StartInv'
  BY <1>2, <1>3 DEF StartInv, StartedIsComplete
<1>6. ProbeInv'
  BY <1>0, <1>1 DEF ProbeInv, ProbeOf, Unfinished
<1>7. RingInv'
  BY <1>0, <1>1 DEF RingInv
<1>8. DecodedInv'
  <2>1. Decoded' = Decoded
    BY <1>1 DEF Decoded
  <2> QED
    BY <1>0, <1>1, <2>1 DEF DecodedInv
<1>9. Accounting' /\ DropsNotOvercounted'
  BY <1>0, <1>1 DEF Accounting, DropsNotOvercounted
<1> QED
  BY <1>4, <1>5, <1>6, <1>7, <1>8, <1>9 DEF IInv

\* A reserved record is the only unfinished one of its processor and the last
\* of the ring.
LEMMA ReserveStep ==
    ASSUME IInv, NEW c \in Cpus, Reserve(c)
    PROVE  IInv'
<1> DEFINE new == Zeroed(fired + 1, c)
<1>0. Types /\ StartInv /\ ProbeInv /\ RingInv /\ DecodedInv /\ Accounting /\ DropsNotOvercounted
  BY DEF IInv
<1>1. /\ hooked # {} /\ fired < MaxFired /\ probe[c] = "idle" /\ fired' = fired + 1
      /\ Len(ring) < RingSize
      /\ ring' = Append(ring, new)
      /\ probe' = [probe EXCEPT ![c] = "reserved"]
      /\ UNCHANGED <<clock, drops, reader, hooked, attached, failed, pending, rows, received,
                     decoded, rejected, dropped, last>>
  BY DEF Reserve, Fire, loaderVars, collectorVars
<1>2. new \in Record /\ fired' \in 0 .. MaxFired
  BY <1>0, <1>1, MaxFiredAssumption DEF Types, Record, Zeroed
<1>3. new.by = c /\ new.ts = 0 /\ new.done = FALSE
  BY DEF Zeroed
<1> HIDE DEF new
<1>4. ring \in Seq(Record) /\ Len(ring) \in Nat
  BY <1>0, LenProperties DEF Types
<1>5. /\ ring' \in Seq(Record) /\ Len(ring') = Len(ring) + 1
      /\ \A i \in 1 .. Len(ring) : ring'[i] = ring[i]
      /\ ring'[Len(ring) + 1] = new
  BY <1>1, <1>2, <1>4, AppendProperties
<1>6. \A i \in 1 .. Len(ring') : i = Len(ring) + 1 \/ i \in 1 .. Len(ring)
  BY <1>4, <1>5
<1>7. Types'
  <2>1. probe' \in [Cpus -> {"idle", "reserved", "stamped"}]
    BY <1>0, <1>1 DEF Types
  <2>2. Len(ring') <= RingSize
    BY <1>1, <1>4, <1>5, RingSizeAssumption
  <2> QED
    BY <1>0, <1>1, <1>2, <1>5, <2>1, <2>2 DEF Types
<1>8. StartInv'
  BY <1>0, <1>1 DEF StartInv, StartedIsComplete
<1>9. ProbeInv'
  <2> SUFFICES ASSUME NEW d \in Cpus PROVE ProbeOf(d)'
    BY DEF ProbeInv
  <2>1. CASE d = c
    <3>1. probe'[d] = "reserved" /\ Len(ring) + 1 \in 1 .. Len(ring')
      BY <1>0, <1>1, <1>4, <1>5, <2>1 DEF Types
    <3>2. Unfinished(d, Len(ring))'
      BY <1>3, <1>5, <2>1, <3>1 DEF Unfinished
    <3> QED
      BY <3>1, <3>2 DEF ProbeOf
  <2>2. CASE d # c
    <3>1. probe'[d] = probe[d]
      BY <1>0, <1>1, <2>2 DEF Types
    <3>2. ProbeOf(d)
      BY <1>0 DEF ProbeInv
    <3>3. \A i \in 1 .. Len(ring) : i \in 1 .. Len(ring') /\ (Unfinished(d, i) => Unfinished(d, i)')
      BY <1>4, <1>5, <3>1 DEF Unfinished
    <3>4. \A i \in 1 .. Len(ring') : ring'[i].by = d => i \in 1 .. Len(ring) /\ ring'[i] = ring[i]
      BY <1>3, <1>5, <1>6, <2>2
    <3> QED
      BY <3>1, <3>2, <3>3, <3>4 DEF ProbeOf
  <2> QED
    BY <2>1, <2>2
<1>10. RingInv'
  <2>1. ASSUME NEW i \in 1 .. Len(ring')
        PROVE  (ring'[i].done => ring'[i].ts > 0 /\ Filled(ring'[i])) /\ ring'[i].ts <= clock'
    BY <1>0, <1>1, <1>3, <1>5, <1>6 DEF RingInv, Types
  <2>2. ASSUME NEW i \in 1 .. Len(ring'), NEW j \in 1 .. Len(ring'), i < j, ring'[i].by = ring'[j].by
        PROVE  ring'[i].done /\ (ring'[j].ts > 0 => ring'[i].ts < ring'[j].ts)
    <3>1. i \in 1 .. Len(ring) /\ ring'[i] = ring[i]
      BY <1>4, <1>5, <1>6, <2>2
    <3>2. CASE j = Len(ring) + 1
      <4>1. ring[i].by = c /\ ring'[j].ts = 0
        BY <1>3, <1>5, <2>2, <3>1, <3>2
      <4> QED
        BY <1>0, <1>1, <3>1, <4>1 DEF ProbeInv, ProbeOf
    <3>3. CASE j \in 1 .. Len(ring)
      BY <1>0, <1>5, <2>2, <3>1, <3>3 DEF RingInv
    <3> QED
      BY <1>6, <3>2, <3>3
  <2> QED
    BY <2>1, <2>2 DEF RingInv
<1>11. DecodedInv'
  <2>1. Decoded' = Decoded /\ clock' = clock
    BY <1>1 DEF Decoded
  <2>2. ASSUME NEW i \in 1 .. Len(Decoded), NEW j \in 1 .. Len(ring'),
               Decoded[i].by = ring'[j].by, ring'[j].ts > 0
        PROVE  Decoded[i].ts < ring'[j].ts
    BY <1>0, <1>3, <1>5, <1>6, <2>2 DEF DecodedInv
  <2> QED
    BY <1>0, <2>1, <2>2 DEF DecodedInv
<1>12. Accounting' /\ DropsNotOvercounted'
  BY <1>0, <1>1, <1>4, <1>5 DEF Accounting, DropsNotOvercounted, Types
<1> QED
  BY <1>7, <1>8, <1>9, <1>10, <1>11, <1>12 DEF IInv

\* A hit that finds the ring full is counted.
LEMMA BumpDropsStep ==
    ASSUME IInv, NEW c \in Cpus, BumpDrops(c)
    PROVE  IInv'
<1>1. /\ fired < MaxFired /\ fired' = fired + 1 /\ drops' = drops + 1
      /\ UNCHANGED <<clock, probe, ring, reader, hooked, attached, failed, pending, rows, received,
                     decoded, rejected, dropped, last>>
  BY DEF BumpDrops, Fire, loaderVars, collectorVars
<1>2. Types /\ StartInv /\ ProbeInv /\ RingInv /\ DecodedInv /\ Accounting /\ DropsNotOvercounted
  BY DEF IInv
<1>3. Len(ring) \in Nat
  BY <1>2, LenProperties DEF Types
<1>4. Types'
  BY <1>1, <1>2, MaxFiredAssumption DEF Types
<1>5. Accounting' /\ DropsNotOvercounted'
  BY <1>1, <1>2, <1>3 DEF Accounting, DropsNotOvercounted, Types
<1>6. StartInv' /\ ProbeInv'
  BY <1>1, <1>2 DEF StartInv, StartedIsComplete, ProbeInv, ProbeOf, Unfinished
<1>7. RingInv'
  BY <1>1, <1>2 DEF RingInv
<1>8. DecodedInv'
  <2>1. Decoded' = Decoded
    BY <1>1 DEF Decoded
  <2> QED
    BY <1>1, <1>2, <2>1 DEF DecodedInv
<1> QED
  BY <1>4, <1>5, <1>6, <1>7, <1>8 DEF IInv

\* What stamping does to a record.
LEMMA StampedRecord ==
    ASSUME NEW r \in Record, NEW t \in Nat
    PROVE  /\ [r EXCEPT !.ts = t] \in Record
           /\ [r EXCEPT !.ts = t].by = r.by /\ [r EXCEPT !.ts = t].done = r.done
           /\ [r EXCEPT !.ts = t].ts = t /\ [r EXCEPT !.ts = t].id = r.id
BY DEF Record

\* What a handler makes of the record it fills.
LEMMA FilledRecord ==
    ASSUME NEW c \in Cpus, NEW kind \in Kinds, NEW target \in Cpus,
           ring[Filling(c)] \in Record, ring[Filling(c)].by = c
    PROVE  /\ FilledBy(c, kind, target) \in Record
           /\ FilledBy(c, kind, target).by = c /\ FilledBy(c, kind, target).done
           /\ FilledBy(c, kind, target).ts = ring[Filling(c)].ts
           /\ FilledBy(c, kind, target).id = ring[Filling(c)].id
           /\ Filled(FilledBy(c, kind, target))
<1> DEFINE old == ring[Filling(c)]
           cpu == IF kind = "wakeup" THEN target ELSE c
           new == [old EXCEPT !.kind = kind, !.cpu = cpu, !.done = TRUE]
<1>1. old \in Record /\ old.by = c /\ cpu \in Cpus \cup {0} /\ kind \in Kinds
  OBVIOUS
<1>2. kind = "local" => cpu = c
  OBVIOUS
<1>3. FilledBy(c, kind, target) = new
  BY DEF FilledBy
<1> HIDE DEF old, cpu
<1>4. new \in Record /\ new.by = old.by /\ new.cpu = cpu /\ new.kind = kind /\ new.done
      /\ new.ts = old.ts /\ new.id = old.id
  BY <1>1 DEF Record, Kinds
<1>5. Filled(new)
  BY <1>1, <1>2, <1>4 DEF Filled, Kinds
<1> QED
  BY <1>1, <1>3, <1>4, <1>5 DEF old

\* What changing the record a probe fills does to the ring.
LEMMA FillProperties ==
    ASSUME IInv, NEW c \in Cpus, probe[c] # "idle", NEW r \in Record,
           ring' = [ring EXCEPT ![Filling(c)] = r]
    PROVE  /\ ring' \in Seq(Record) /\ Len(ring') = Len(ring)
           /\ ring'[Filling(c)] = r
           /\ \A i \in 1 .. Len(ring) : i # Filling(c) => ring'[i] = ring[i]
<1>1. ring \in Seq(Record) /\ Filling(c) \in 1 .. Len(ring)
  BY FillingProperties DEF IInv, Types
<1> QED
  BY <1>1, ExceptSeq

\* A stamp is later than every other.
LEMMA StampStep ==
    ASSUME IInv, NEW c \in Cpus, Stamp(c)
    PROVE  IInv'
<1> DEFINE f == Filling(c)
           new == [ring[f] EXCEPT !.ts = clock + 1]
<1>0. Types /\ StartInv /\ ProbeInv /\ RingInv /\ DecodedInv /\ Accounting /\ DropsNotOvercounted
  BY DEF IInv
<1>1. /\ probe[c] = "reserved" /\ clock' = clock + 1 /\ clock \in Nat
      /\ ring' = [ring EXCEPT ![f].ts = clock + 1]
      /\ probe' = [probe EXCEPT ![c] = "stamped"]
      /\ UNCHANGED <<fired, drops, reader, hooked, attached, failed, pending, rows, received,
                     decoded, rejected, dropped, last>>
  BY <1>0 DEF Stamp, loaderVars, collectorVars, Types
<1>2. f \in 1 .. Len(ring) /\ ring[f].by = c /\ ~ring[f].done /\ ring[f].ts = 0
      /\ \A j \in 1 .. Len(ring) : ring[j].by = c /\ j # f => ring[j].done /\ j < f
  BY <1>1, FillingProperties
<1>3. ring \in Seq(Record) /\ ring[f] \in Record /\ Len(ring) \in Nat
  BY <1>0, <1>2, LenProperties DEF Types
<1>4. new \in Record /\ new.by = c /\ new.done = ring[f].done /\ new.ts = clock + 1
  <2>1. clock + 1 \in Nat
    BY <1>1
  <2>2. ring[f].by = c /\ ring[f] \in Record
    BY <1>2, <1>3
  <2> HIDE DEF f
  <2> QED
    BY <2>1, <2>2, StampedRecord
<1>5. ring' = [ring EXCEPT ![f] = new]
  BY <1>1, <1>2, <1>3
<1> HIDE DEF new, f
<1>6. /\ ring' \in Seq(Record) /\ Len(ring') = Len(ring)
      /\ ring'[f] = new
      /\ \A i \in 1 .. Len(ring) : i # f => ring'[i] = ring[i]
  BY <1>1, <1>4, <1>5, FillProperties DEF f
<1>7. Types'
  <2>1. probe' \in [Cpus -> {"idle", "reserved", "stamped"}]
    BY <1>0, <1>1 DEF Types
  <2> QED
    BY <1>0, <1>1, <1>6, <2>1 DEF Types
<1>8. StartInv' /\ Accounting' /\ DropsNotOvercounted'
  BY <1>0, <1>1, <1>6 DEF StartInv, StartedIsComplete, Accounting, DropsNotOvercounted
<1>9. ProbeInv'
  <2> SUFFICES ASSUME NEW d \in Cpus PROVE ProbeOf(d)'
    BY DEF ProbeInv
  <2>1. CASE d = c
    <3>1. probe'[d] = "stamped"
      BY <1>0, <1>1, <2>1 DEF Types
    <3>2. ASSUME NEW i, i = f PROVE Unfinished(d, i)'
      BY <1>1, <1>2, <1>4, <1>6, <2>1, <3>1, <3>2 DEF Unfinished
    <3> QED
      BY <1>2, <1>6, <3>1, <3>2 DEF ProbeOf
  <2>2. CASE d # c
    <3>1. probe'[d] = probe[d]
      BY <1>0, <1>1, <2>2 DEF Types
    <3>2. ProbeOf(d)
      BY <1>0 DEF ProbeInv
    <3>3. \A i \in 1 .. Len(ring) : ring[i].by = d => i # f
      BY <1>2, <2>2
    <3>4. \A i \in 1 .. Len(ring) : Unfinished(d, i) => Unfinished(d, i)'
      BY <1>6, <3>1, <3>3 DEF Unfinished
    <3>5. \A i \in 1 .. Len(ring') : ring'[i].by = d => i \in 1 .. Len(ring) /\ ring'[i] = ring[i]
      BY <1>4, <1>6, <2>2
    <3> QED
      BY <1>6, <3>1, <3>2, <3>4, <3>5 DEF ProbeOf
  <2> QED
    BY <2>1, <2>2
<1>10. ASSUME NEW i \in 1 .. Len(ring), i # f
       PROVE  ring[i].ts \in Nat /\ ring[i].ts <= clock
  BY <1>0, <1>3, RecordFields DEF RingInv
<1>11. RingInv'
  <2>1. ASSUME NEW i \in 1 .. Len(ring')
        PROVE  (ring'[i].done => ring'[i].ts > 0 /\ Filled(ring'[i])) /\ ring'[i].ts <= clock'
    <3>1. CASE i = f
      BY <1>1, <1>2, <1>4, <1>6, <3>1
    <3>2. CASE i # f
      BY <1>0, <1>1, <1>6, <1>10, <3>2 DEF RingInv
    <3> QED
      BY <3>1, <3>2
  <2>2. ASSUME NEW i \in 1 .. Len(ring'), NEW j \in 1 .. Len(ring'), i < j, ring'[i].by = ring'[j].by
        PROVE  ring'[i].done /\ (ring'[j].ts > 0 => ring'[i].ts < ring'[j].ts)
    <3>1. i # f
      <4>1. ASSUME i = f PROVE FALSE
        <5>1. ring[j].by = c /\ j # f
          BY <1>3, <1>4, <1>6, <2>2, <4>1
        <5> QED
          BY <1>2, <1>3, <1>6, <2>2, <4>1, <5>1
      <4> QED
        BY <4>1
    <3>2. CASE j = f
      <4>1. ring[i].by = c /\ ring'[i] = ring[i] /\ ring'[j].ts = clock + 1
        BY <1>4, <1>6, <2>2, <3>1, <3>2
      <4> QED
        BY <1>1, <1>2, <1>6, <1>10, <3>1, <4>1
    <3>3. CASE j # f
      BY <1>0, <1>6, <2>2, <3>1, <3>3 DEF RingInv
    <3> QED
      BY <3>2, <3>3
  <2> QED
    BY <2>1, <2>2 DEF RingInv
<1>12. DecodedInv'
  <2>1. Decoded' = Decoded
    BY <1>1 DEF Decoded
  <2>2. Decoded \in Seq(Record)
    BY <1>0, ConcatProperties DEF Types, Decoded
  <2>3. ASSUME NEW i \in 1 .. Len(Decoded)
        PROVE  Decoded[i].done /\ Decoded[i].ts > 0 /\ Decoded[i].ts <= clock /\ Decoded[i].ts \in Nat
               /\ Filled(Decoded[i])
    BY <1>0, <2>2, RecordFields DEF DecodedInv
  <2>4. ASSUME NEW i \in 1 .. Len(Decoded), NEW j \in 1 .. Len(ring'),
               Decoded[i].by = ring'[j].by, ring'[j].ts > 0
        PROVE  Decoded[i].ts < ring'[j].ts
    <3>1. CASE j = f
      BY <1>1, <1>4, <1>6, <2>3, <3>1
    <3>2. CASE j # f
      BY <1>0, <1>6, <2>4, <3>2 DEF DecodedInv
    <3> QED
      BY <3>1, <3>2
  <2>5. \A i \in 1 .. Len(Decoded) : Decoded[i].ts <= clock'
    BY <1>1, <2>3
  <2> QED
    BY <1>0, <2>1, <2>3, <2>4, <2>5 DEF DecodedInv
<1> QED
  BY <1>7, <1>8, <1>9, <1>11, <1>12 DEF IInv

\* A record is submitted once it is stamped.
LEMMA SubmitStep ==
    ASSUME IInv, NEW c \in Cpus, NEW kind \in Kinds, NEW target \in Cpus, Submit(c, kind, target)
    PROVE  IInv'
<1> DEFINE f == Filling(c)
           new == FilledBy(c, kind, target)
<1>0. Types /\ StartInv /\ ProbeInv /\ RingInv /\ DecodedInv /\ Accounting /\ DropsNotOvercounted
  BY DEF IInv
<1>1. /\ probe[c] = "stamped"
      /\ ring' = [ring EXCEPT ![f] = new]
      /\ probe' = [probe EXCEPT ![c] = "idle"]
      /\ UNCHANGED <<fired, clock, drops, reader, hooked, attached, failed, pending, rows, received,
                     decoded, rejected, dropped, last>>
  BY DEF Submit, loaderVars, collectorVars
<1>2. f \in 1 .. Len(ring) /\ ring[f].by = c /\ ring[f].ts # 0
      /\ \A j \in 1 .. Len(ring) : ring[j].by = c /\ j # f => ring[j].done
  BY <1>1, FillingProperties
<1>3. ring \in Seq(Record) /\ ring[f] \in Record /\ Len(ring) \in Nat
  BY <1>0, <1>2, LenProperties DEF Types
<1>4. new \in Record /\ new.by = c /\ new.done /\ new.ts = ring[f].ts /\ new.ts > 0 /\ Filled(new)
  <2>1. new \in Record /\ new.by = c /\ new.done /\ new.ts = ring[f].ts /\ Filled(new)
    BY <1>2, <1>3, FilledRecord
  <2>2. ring[f].ts \in Nat
    BY <1>3 DEF Record
  <2> QED
    BY <1>2, <2>1, <2>2
<1> HIDE DEF new, f
<1>6. /\ ring' \in Seq(Record) /\ Len(ring') = Len(ring)
      /\ ring'[f] = new
      /\ \A i \in 1 .. Len(ring) : i # f => ring'[i] = ring[i]
  BY <1>1, <1>4, FillProperties DEF f
<1>7. \A i \in 1 .. Len(ring') : /\ ring'[i].by = ring[i].by /\ ring'[i].ts = ring[i].ts
                                 /\ ring'[i].done <=> ring[i].done \/ i = f
  BY <1>2, <1>4, <1>6
<1>8. Types'
  <2>1. probe' \in [Cpus -> {"idle", "reserved", "stamped"}]
    BY <1>0, <1>1 DEF Types
  <2> QED
    BY <1>0, <1>1, <1>6, <2>1 DEF Types
<1>9. StartInv' /\ Accounting' /\ DropsNotOvercounted'
  BY <1>0, <1>1, <1>6 DEF StartInv, StartedIsComplete, Accounting, DropsNotOvercounted
<1>10. ProbeInv'
  <2> SUFFICES ASSUME NEW d \in Cpus PROVE ProbeOf(d)'
    BY DEF ProbeInv
  <2>1. CASE d = c
    <3>1. probe'[d] = "idle"
      BY <1>0, <1>1, <2>1 DEF Types
    <3>2. \A i \in 1 .. Len(ring') : ring'[i].by = d => ring'[i].done
      BY <1>2, <1>6, <1>7, <2>1
    <3> QED
      BY <3>1, <3>2 DEF ProbeOf
  <2>2. CASE d # c
    <3>1. probe'[d] = probe[d]
      BY <1>0, <1>1, <2>2 DEF Types
    <3>2. ProbeOf(d)
      BY <1>0 DEF ProbeInv
    <3>3. \A i \in 1 .. Len(ring) : ring[i].by = d => i # f
      BY <1>2, <2>2
    <3>4. \A i \in 1 .. Len(ring) : Unfinished(d, i) => Unfinished(d, i)'
      BY <1>6, <3>1, <3>3 DEF Unfinished
    <3>5. \A i \in 1 .. Len(ring') : ring'[i].by = d => i \in 1 .. Len(ring) /\ ring'[i] = ring[i]
      BY <1>4, <1>6, <2>2
    <3> QED
      BY <1>6, <3>1, <3>2, <3>4, <3>5 DEF ProbeOf
  <2> QED
    BY <2>1, <2>2
<1>11. RingInv'
  <2>1. ASSUME NEW i \in 1 .. Len(ring')
        PROVE  (ring'[i].done => ring'[i].ts > 0 /\ Filled(ring'[i])) /\ ring'[i].ts <= clock'
    <3>1. i \in 1 .. Len(ring) /\ (ring[i].done => ring[i].ts > 0 /\ Filled(ring[i])) /\ ring[i].ts <= clock
      BY <1>0, <1>6 DEF RingInv
    <3> QED
      BY <1>1, <1>4, <1>6, <1>7, <3>1
  <2>2. ASSUME NEW i \in 1 .. Len(ring'), NEW j \in 1 .. Len(ring'), i < j, ring'[i].by = ring'[j].by
        PROVE  ring'[i].done /\ (ring'[j].ts > 0 => ring'[i].ts < ring'[j].ts)
    <3>1. ring[i].by = ring[j].by /\ i \in 1 .. Len(ring) /\ j \in 1 .. Len(ring)
      BY <1>6, <1>7, <2>2
    <3>2. ring[i].done /\ (ring[j].ts > 0 => ring[i].ts < ring[j].ts)
      BY <1>0, <2>2, <3>1 DEF RingInv
    <3> QED
      BY <1>7, <3>2
  <2> QED
    BY <2>1, <2>2 DEF RingInv
<1>12. DecodedInv'
  <2>1. Decoded' = Decoded
    BY <1>1 DEF Decoded
  <2>2. ASSUME NEW i \in 1 .. Len(Decoded), NEW j \in 1 .. Len(ring'),
               Decoded[i].by = ring'[j].by, ring'[j].ts > 0
        PROVE  Decoded[i].ts < ring'[j].ts
    <3>1. j \in 1 .. Len(ring) /\ Decoded[i].by = ring[j].by /\ ring'[j].ts = ring[j].ts
      BY <1>6, <1>7, <2>2
    <3> QED
      BY <1>0, <2>2, <3>1 DEF DecodedInv
  <2> QED
    BY <1>0, <1>1, <2>1, <2>2 DEF DecodedInv
<1> QED
  BY <1>8, <1>9, <1>10, <1>11, <1>12 DEF IInv

\* The oldest record is submitted: what comes out is older than what remains.
LEMMA OnRecordStep ==
    ASSUME IInv, NEW ok \in BOOLEAN, OnRecord(ok)
    PROVE  IInv'
<1> DEFINE h == Head(ring)
<1>0. Types /\ StartInv /\ ProbeInv /\ RingInv /\ DecodedInv /\ Accounting /\ DropsNotOvercounted
  BY DEF IInv
<1>1. /\ ring # <<>> /\ h.done /\ ring' = Tail(ring)
      /\ received' = received + 1
      /\ decoded' = IF ok THEN decoded + 1 ELSE decoded
      /\ rejected' = IF ok THEN rejected ELSE rejected + 1
      /\ pending' = IF ok THEN Append(pending, h) ELSE pending
      /\ last' = h.id
      /\ UNCHANGED <<hooked, attached, failed, fired, clock, probe, drops, reader, rows, dropped>>
  BY DEF OnRecord, Ready, loaderVars, kernelVars
<1>2. ring \in Seq(Record) /\ Len(ring) \in Nat /\ pending \in Seq(Record) /\ rows \in Seq(Record)
      /\ Decoded \in Seq(Record) /\ Len(Decoded) \in Nat /\ Len(pending) \in Nat
  BY <1>0, ConcatProperties, LenProperties DEF Types, Decoded
<1>3. h = ring[1] /\ 1 \in 1 .. Len(ring) /\ h \in Record
  BY <1>1, <1>2, HeadTailProperties
<1>4. h.id \in 1 .. MaxFired /\ h.by \in Cpus /\ h.ts \in Nat /\ h.ts > 0 /\ h.ts <= clock /\ Filled(h)
  BY <1>0, <1>1, <1>2, <1>3, RecordFields DEF RingInv
<1> HIDE DEF h
<1>5. /\ ring' \in Seq(Record) /\ Len(ring') = Len(ring) - 1
      /\ \A i \in 1 .. Len(ring') : ring'[i] = ring[i + 1]
  BY <1>1, <1>2, HeadTailProperties
<1>6. \A i \in 1 .. Len(ring') : i + 1 \in 1 .. Len(ring) /\ 1 < i + 1
  BY <1>2, <1>5
<1>7. Append(pending, h) \in Seq(Record) /\ Len(Append(pending, h)) = Len(pending) + 1
  BY <1>2, <1>3, AppendProperties
<1>8. Types'
  <2>1. pending' \in Seq(Record)
    BY <1>1, <1>2, <1>7
  <2>2. last' \in 0 .. MaxFired /\ received' \in Nat /\ decoded' \in Nat /\ rejected' \in Nat
    BY <1>0, <1>1, <1>4, MaxFiredAssumption DEF Types
  <2>3. Len(ring') <= RingSize
    BY <1>0, <1>2, <1>5, RingSizeAssumption DEF Types
  <2> QED
    BY <1>0, <1>1, <1>5, <2>1, <2>2, <2>3 DEF Types
<1>9. StartInv' /\ DropsNotOvercounted'
  BY <1>0, <1>1 DEF StartInv, StartedIsComplete, DropsNotOvercounted
<1>10. Accounting'
  <2>1. fired' = drops' + Len(ring') + received'
    BY <1>0, <1>1, <1>2, <1>5 DEF Accounting, Types
  <2>2. received' = decoded' + rejected'
    BY <1>0, <1>1 DEF Accounting, Types
  <2>3. decoded' = Len(pending') + Len(rows')
    BY <1>0, <1>1, <1>2, <1>7, LenProperties DEF Accounting, Types
  <2> QED
    BY <2>1, <2>2, <2>3 DEF Accounting
<1>11. ProbeInv'
  <2> SUFFICES ASSUME NEW d \in Cpus PROVE ProbeOf(d)'
    BY DEF ProbeInv
  <2>1. ProbeOf(d) /\ probe'[d] = probe[d]
    BY <1>0, <1>1 DEF ProbeInv
  <2>2. CASE probe[d] = "idle"
    BY <1>5, <1>6, <2>1, <2>2 DEF ProbeOf
  <2>3. CASE probe[d] # "idle"
    <3>1. PICK i \in 1 .. Len(ring) : Unfinished(d, i)
      BY <2>1, <2>3 DEF ProbeOf
    <3>2. i # 1
      BY <1>1, <1>3, <3>1 DEF Unfinished
    <3>3. i - 1 \in 1 .. Len(ring') /\ ring'[i - 1] = ring[i]
      BY <1>2, <1>5, <3>1, <3>2
    <3>4. ASSUME NEW j, j = i - 1 PROVE Unfinished(d, j)'
      BY <2>1, <3>1, <3>3, <3>4 DEF Unfinished
    <3> QED
      BY <2>1, <2>3, <3>3, <3>4 DEF ProbeOf
  <2> QED
    BY <2>2, <2>3
<1>12. RingInv'
  <2>1. ASSUME NEW i \in 1 .. Len(ring')
        PROVE  (ring'[i].done => ring'[i].ts > 0 /\ Filled(ring'[i])) /\ ring'[i].ts <= clock'
    BY <1>0, <1>1, <1>5, <1>6 DEF RingInv
  <2>2. ASSUME NEW i \in 1 .. Len(ring'), NEW j \in 1 .. Len(ring'), i < j, ring'[i].by = ring'[j].by
        PROVE  ring'[i].done /\ (ring'[j].ts > 0 => ring'[i].ts < ring'[j].ts)
    <3>1. i + 1 \in 1 .. Len(ring) /\ j + 1 \in 1 .. Len(ring) /\ i + 1 < j + 1
          /\ ring'[i] = ring[i + 1] /\ ring'[j] = ring[j + 1]
      BY <1>5, <1>6, <2>2
    <3> QED
      BY <1>0, <2>2, <3>1 DEF RingInv
  <2> QED
    BY <2>1, <2>2 DEF RingInv
<1>13. ASSUME NEW j \in 1 .. Len(ring'), h.by = ring'[j].by, ring'[j].ts > 0
       PROVE  h.ts < ring'[j].ts
  <2>1. ring'[j] = ring[j + 1] /\ j + 1 \in 1 .. Len(ring) /\ 1 < j + 1
    BY <1>5, <1>6
  <2> QED
    BY <1>0, <1>3, <1>13, <2>1 DEF RingInv
<1>14. DecodedInv'
  <2>1. \A i \in 1 .. Len(Decoded), j \in 1 .. Len(ring') :
          Decoded[i].by = ring'[j].by /\ ring'[j].ts > 0 => Decoded[i].ts < ring'[j].ts
    BY <1>0, <1>5, <1>6 DEF DecodedInv
  <2>2. CASE ~ok
    <3>1. Decoded' = Decoded
      BY <1>1, <2>2 DEF Decoded
    <3> QED
      BY <1>0, <1>1, <2>1, <3>1 DEF DecodedInv
  <2>3. CASE ok
    <3>1. Decoded' = Append(Decoded, h)
      <4>1. pending' = Append(pending, h) /\ rows' = rows
        BY <1>1, <2>3
      <4>2. rows \o Append(pending, h) = Append(rows \o pending, h)
        BY <1>2, <1>3, ConcatAppend
      <4> QED
        BY <4>1, <4>2 DEF Decoded
    <3>2. Len(Decoded') = Len(Decoded) + 1 /\ Decoded'[Len(Decoded) + 1] = h
          /\ \A i \in 1 .. Len(Decoded) : Decoded'[i] = Decoded[i]
      BY <1>2, <1>3, <3>1, AppendProperties
    <3>3. \A i \in 1 .. Len(Decoded') : i = Len(Decoded) + 1 \/ i \in 1 .. Len(Decoded)
      BY <1>2, <3>2
    <3>4. ASSUME NEW i \in 1 .. Len(Decoded')
          PROVE  /\ Decoded'[i].done /\ Decoded'[i].ts > 0 /\ Decoded'[i].ts <= clock'
                 /\ Filled(Decoded'[i])
      BY <1>0, <1>1, <1>4, <3>2, <3>3 DEF DecodedInv
    <3>5. ASSUME NEW i \in 1 .. Len(Decoded'), NEW j \in 1 .. Len(Decoded'), i < j,
                 Decoded'[i].by = Decoded'[j].by
          PROVE  Decoded'[i].ts < Decoded'[j].ts
      <4>1. i \in 1 .. Len(Decoded) /\ Decoded'[i] = Decoded[i]
        BY <1>2, <3>2, <3>3, <3>5
      <4>2. CASE j = Len(Decoded) + 1
        <5>1. Decoded[i].by = ring[1].by /\ ring[1].ts > 0 /\ Decoded'[j].ts = ring[1].ts
          BY <1>3, <1>4, <3>2, <3>5, <4>1, <4>2
        <5> QED
          BY <1>0, <1>3, <4>1, <5>1 DEF DecodedInv
      <4>3. CASE j \in 1 .. Len(Decoded)
        BY <1>0, <3>2, <3>5, <4>1, <4>3 DEF DecodedInv
      <4> QED
        BY <3>3, <4>2, <4>3
    <3>6. ASSUME NEW i \in 1 .. Len(Decoded'), NEW j \in 1 .. Len(ring'),
                 Decoded'[i].by = ring'[j].by, ring'[j].ts > 0
          PROVE  Decoded'[i].ts < ring'[j].ts
      <4>1. CASE i = Len(Decoded) + 1
        BY <1>13, <3>2, <3>6, <4>1
      <4>2. CASE i \in 1 .. Len(Decoded)
        BY <2>1, <3>2, <3>6, <4>2
      <4> QED
        BY <3>3, <4>1, <4>2
    <3> QED
      BY <3>4, <3>5, <3>6 DEF DecodedInv
  <2> QED
    BY <2>2, <2>3
<1> QED
  BY <1>8, <1>9, <1>10, <1>11, <1>12, <1>14 DEF IInv

\* The rest of the reader moves what is decoded and the drop counter.
LEMMA ReaderStep ==
    ASSUME IInv, PollBegin \/ PollReturn \/ ReadDropCounter \/ StopCollector
    PROVE  IInv'
<1>0. Types /\ StartInv /\ ProbeInv /\ RingInv /\ DecodedInv /\ Accounting /\ DropsNotOvercounted
  BY DEF IInv
<1>1. /\ UNCHANGED <<hooked, attached, failed, fired, clock, probe, drops, ring, received, decoded,
                     rejected, last>>
      /\ reader \in Open /\ reader' \in Open \cup Over
  BY DEF PollBegin, PollReturn, ReadDropCounter, StopCollector, loaderVars, kernelVars, collectorVars,
     Open, Over
<1>2. /\ pending' \in Seq(Record) /\ rows' \in Seq(Record)
      /\ Decoded' = Decoded /\ Len(pending') + Len(rows') = Len(pending) + Len(rows)
      /\ dropped' \in Nat /\ dropped' <= drops
  <2>1. CASE ReadDropCounter
    <3>1. rows' = rows \o pending /\ pending' = <<>>
          /\ dropped' \in {dropped, IF drops > dropped THEN drops ELSE dropped}
      BY <2>1 DEF ReadDropCounter
    <3>2. rows \in Seq(Record) /\ pending \in Seq(Record)
      BY <1>0 DEF Types
    <3>3. rows' \in Seq(Record) /\ Len(rows') = Len(rows) + Len(pending)
      BY <3>1, <3>2, ConcatProperties
    <3>4. Decoded' = Decoded
      BY <3>1, <3>3 DEF Decoded
    <3>5. dropped' \in Nat /\ dropped' <= drops
      BY <1>0, <3>1 DEF Types, DropsNotOvercounted
    <3> QED
      BY <3>1, <3>2, <3>3, <3>4, <3>5, LenProperties
  <2>2. CASE PollBegin \/ PollReturn \/ StopCollector
    <3>1. UNCHANGED <<pending, rows, dropped>>
      BY <2>2 DEF PollBegin, PollReturn, StopCollector, collectorVars
    <3> QED
      BY <1>0, <3>1 DEF Types, DropsNotOvercounted, Decoded
  <2> QED
    BY <2>1, <2>2
<1>3. Types'
  BY <1>0, <1>1, <1>2 DEF Types
<1>4. StartInv' /\ Accounting' /\ DropsNotOvercounted'
  BY <1>0, <1>1, <1>2 DEF StartInv, StartedIsComplete, Accounting, DropsNotOvercounted
<1>5. ProbeInv'
  BY <1>0, <1>1 DEF ProbeInv, ProbeOf, Unfinished
<1>6. RingInv'
  BY <1>0, <1>1 DEF RingInv
<1>7. DecodedInv'
  BY <1>0, <1>1, <1>2 DEF DecodedInv
<1> QED
  BY <1>3, <1>4, <1>5, <1>6, <1>7 DEF IInv

\* The invariant is inductive.
LEMMA StepIInv == IInv /\ [Next]_vars => IInv'
<1> SUFFICES ASSUME IInv, [Next]_vars PROVE IInv'
  OBVIOUS
<1>1. CASE Start
  BY <1>1, StartStep
<1>2. CASE Probes
  BY <1>2, ReserveStep, BumpDropsStep, StampStep, SubmitStep DEF Probes, SubmitAny
<1>3. CASE Reader \/ StopCollector
  BY <1>3, ReaderStep, OnRecordStep DEF Reader
<1>4. CASE UNCHANGED vars
  <2>0. Types /\ StartInv /\ ProbeInv /\ RingInv /\ DecodedInv /\ Accounting /\ DropsNotOvercounted
    BY DEF IInv
  <2>1. UNCHANGED <<hooked, attached, failed, fired, clock, probe, drops, ring, reader, pending, rows,
                    received, decoded, rejected, dropped, last>>
    BY <1>4 DEF vars, loaderVars, kernelVars, collectorVars
  <2>2. Types'
    BY <2>0, <2>1 DEF Types
  <2>3. StartInv' /\ Accounting' /\ DropsNotOvercounted'
    BY <2>0, <2>1 DEF StartInv, StartedIsComplete, Accounting, DropsNotOvercounted
  <2>4. ProbeInv'
    BY <2>0, <2>1 DEF ProbeInv, ProbeOf, Unfinished
  <2>5. RingInv'
    BY <2>0, <2>1 DEF RingInv
  <2>6. DecodedInv'
    <3>1. Decoded' = Decoded
      BY <2>1 DEF Decoded
    <3> QED
      BY <2>0, <2>1, <3>1 DEF DecodedInv
  <2> QED
    BY <2>2, <2>3, <2>4, <2>5, <2>6 DEF IInv
<1> QED
  BY <1>1, <1>2, <1>3, <1>4 DEF Next

\* The inductive invariant holds in every reachable state.
THEOREM SpecIInv == Spec => []IInv
BY InitIInv, StepIInv, PTL DEF Spec

\* Every variable has its type; what was dropped or received never exceeds what
\* fired (sched_collect.bpf.c:52-230, libbpf_loader.py:73-279).
THEOREM SpecTypeOK == Spec => []TypeOK
<1>1. IInv => TypeOK
  <2> SUFFICES ASSUME IInv PROVE TypeOK
    OBVIOUS
  <2>1. Types /\ Accounting /\ DropsNotOvercounted
    BY DEF IInv
  <2>2. Len(ring) \in Nat
    BY <2>1, LenProperties DEF Types
  <2>3. drops <= fired /\ received <= fired /\ decoded <= fired /\ rejected <= fired /\ dropped <= fired
    BY <2>1, <2>2 DEF Types, Accounting, DropsNotOvercounted
  <2>4. drops \in 0 .. MaxFired /\ received \in 0 .. MaxFired /\ decoded \in 0 .. MaxFired
        /\ rejected \in 0 .. MaxFired /\ dropped \in 0 .. MaxFired
    BY <2>1, <2>3, MaxFiredAssumption DEF Types
  <2> QED
    BY <2>1, <2>4 DEF Types, TypeOK
<1> QED
  BY <1>1, SpecIInv, PTL

\* Whatever programs could be attached, in any order: a collector that polls has
\* all of them (libbpf_loader.py:73-145, SchedCollector.start).
THEOREM SpecStartedIsComplete == Spec => []StartedIsComplete
<1>1. IInv => StartedIsComplete
  BY DEF IInv, StartInv
<1> QED
  BY <1>1, SpecIInv, PTL

\* Every event that fired is dropped, in the ring, received and counted, and
\* decoded events are with the controller or on their way to it: nothing is lost
\* between the probes and the rows for any number of processors (the counters of
\* SchedCollector, libbpf_loader.py).
THEOREM SpecAccounting == Spec => []Accounting
<1>1. IInv => Accounting
  BY DEF IInv
<1> QED
  BY <1>1, SpecIInv, PTL

\* The drops reported are never more than the kernel's (SchedCollector.poll).
THEOREM SpecDropsNotOvercounted == Spec => []DropsNotOvercounted
<1>1. IInv => DropsNotOvercounted
  BY DEF IInv
<1> QED
  BY <1>1, SpecIInv, PTL

\* What the rows are a part of.
LEMMA RowsOfDecoded ==
    ASSUME IInv
    PROVE  \A i \in DOMAIN rows : i \in 1 .. Len(Decoded) /\ Decoded[i] = rows[i] /\ i \in Nat
<1>1. rows \in Seq(Record) /\ pending \in Seq(Record)
  BY DEF IInv, Types
<1>2. Len(Decoded) = Len(rows) + Len(pending) /\ Len(rows) \in Nat /\ Len(pending) \in Nat
      /\ DOMAIN rows = 1 .. Len(rows)
  BY <1>1, ConcatProperties, LenProperties DEF Decoded
<1>3. \A i \in 1 .. Len(rows) : Decoded[i] = rows[i]
  BY <1>1, ConcatProperties DEF Decoded
<1> QED
  BY <1>2, <1>3

\* The controller never gets a record that its probe has not filled, however
\* the probes of other processors overtake it (sched_collect.bpf.c, libbpf).
THEOREM SpecNoHalfWrittenRow == Spec => []NoHalfWrittenRow
<1>1. IInv => NoHalfWrittenRow
  BY RowsOfDecoded DEF IInv, DecodedInv, NoHalfWrittenRow, Filled
<1> QED
  BY <1>1, SpecIInv, PTL

\* For any interleaving of the processors: what one of them stamped reaches the
\* controller in the order of the stamps, and so do the local rows that name it;
\* wakeup rows name another one (sched_collect.bpf.c:193-198, 224, 307, 368).
THEOREM SpecPerCpuOrder == Spec => []PerCpuOrder
<1>1. IInv => PerCpuOrder
  <2> SUFFICES ASSUME IInv, NEW i \in DOMAIN rows, NEW j \in DOMAIN rows, i < j,
                      \/ rows[i].by = rows[j].by
                      \/ rows[i].kind = "local" /\ rows[j].kind = "local" /\ rows[i].cpu = rows[j].cpu
               PROVE  rows[i].ts < rows[j].ts
    BY DEF PerCpuOrder
  <2>1. i \in 1 .. Len(Decoded) /\ j \in 1 .. Len(Decoded)
        /\ Decoded[i] = rows[i] /\ Decoded[j] = rows[j]
    BY RowsOfDecoded
  <2>2. Filled(rows[i]) /\ Filled(rows[j])
    BY <2>1 DEF IInv, DecodedInv
  <2>3. rows[i].by = rows[j].by
    BY <2>2 DEF Filled
  <2> QED
    BY <2>1, <2>3 DEF IInv, DecodedInv
<1> QED
  BY <1>1, SpecIInv, PTL

-----------------------------------------------------------------------------
(***************************************************************************)
(* The refinement.                                                         *)
(***************************************************************************)

Transit == [i \in DOMAIN ring |-> ring[i].id]

\* The mapped channel holds as many events as the ring holds records.
LEMMA TransitProperties ==
    ASSUME ring \in Seq(Record)
    PROVE  /\ Transit \in Seq(Nat) /\ Len(Transit) = Len(ring) /\ Len(ring) \in Nat
           /\ \A i \in 1 .. Len(ring) : Transit[i] = ring[i].id
           /\ Transit = <<>> <=> ring = <<>>
<1>1. DOMAIN ring = 1 .. Len(ring) /\ Len(ring) \in Nat
  BY LenProperties
<1>2. \A i \in 1 .. Len(ring) : ring[i].id \in Nat
  BY RecordFields
<1>3. Transit = [i \in 1 .. Len(ring) |-> ring[i].id]
  BY <1>1 DEF Transit
<1>4. Transit \in Seq(Nat) /\ Len(Transit) = Len(ring)
  BY <1>1, <1>2, <1>3
<1>5. Transit = <<>> <=> ring = <<>>
  BY <1>1, <1>4, EmptySeq
<1> QED
  BY <1>1, <1>3, <1>4, <1>5

\* The records in the next state are records.
LEMMA TransitNext ==
    ASSUME ring' \in Seq(Record)
    PROVE  /\ Transit' \in Seq(Nat) /\ Len(Transit') = Len(ring') /\ Len(ring') \in Nat
           /\ \A i \in 1 .. Len(ring') : Transit'[i] = ring'[i].id
<1>1. DOMAIN ring' = 1 .. Len(ring') /\ Len(ring') \in Nat
  BY LenProperties
<1>2. \A i \in 1 .. Len(ring') : ring'[i].id \in Nat
  BY RecordFields
<1>3. Transit' = [i \in 1 .. Len(ring') |-> ring'[i].id]
  BY <1>1 DEF Transit
<1> QED
  BY <1>1, <1>2, <1>3

\* Initial states map to initial states.
LEMMA InitChannel == Init => Channel!Init
<1> SUFFICES ASSUME Init PROVE Channel!Init
  OBVIOUS
<1>1. ring = <<>>
  BY DEF Init
<1>2. Transit = <<>>
  BY <1>1, TransitProperties
<1> QED
  BY <1>2 DEF Init, Channel!Init, Transit

\* Every step is a step of the channel, or none.
LEMMA StepChannel == IInv /\ IInv' /\ [Next]_vars => [Channel!Next]_Channel!chanVars
<1> SUFFICES ASSUME IInv, IInv', [Next]_vars
             PROVE  Channel!Next \/ UNCHANGED <<fired, Transit, received, last, drops>>
  BY DEF Channel!chanVars, Transit
<1>0. /\ ring \in Seq(Record) /\ ring' \in Seq(Record)
  BY DEF IInv, Types
<1>1. ASSUME NEW c \in Cpus, Reserve(c) PROVE Channel!Next
  <2> DEFINE new == Zeroed(fired + 1, c)
  <2>1. /\ Len(ring) < RingSize /\ fired' = fired + 1 /\ fired < MaxFired
        /\ ring' = Append(ring, new)
        /\ UNCHANGED <<received, last, drops>>
    BY <1>1 DEF Reserve, Fire, collectorVars
  <2>2. new \in Record /\ new.id = fired + 1 /\ fired + 1 \in Nat
    BY <2>1, MaxFiredAssumption DEF IInv, Types, Record, Zeroed
  <2> HIDE DEF new
  <2>3. Len(ring') = Len(ring) + 1 /\ ring'[Len(ring) + 1] = new
        /\ \A i \in 1 .. Len(ring) : ring'[i] = ring[i]
    BY <1>0, <2>1, <2>2, AppendProperties
  <2>4. Append(Transit, fired + 1) \in Seq(Nat)
        /\ Len(Append(Transit, fired + 1)) = Len(Transit) + 1
        /\ Append(Transit, fired + 1)[Len(Transit) + 1] = fired + 1
        /\ \A i \in 1 .. Len(Transit) : Append(Transit, fired + 1)[i] = Transit[i]
    BY <1>0, <2>2, AppendProperties, TransitProperties
  <2>5. Transit' = Append(Transit, fired + 1)
    <3>1. Len(Transit') = Len(Append(Transit, fired + 1))
      BY <1>0, <2>3, <2>4, TransitProperties, TransitNext
    <3>2. ASSUME NEW i \in 1 .. Len(Transit')
          PROVE  Transit'[i] = Append(Transit, fired + 1)[i]
      <4>1. Transit'[i] = ring'[i].id /\ i \in 1 .. Len(ring) + 1
        BY <1>0, <2>3, TransitNext
      <4>2. CASE i = Len(ring) + 1
        BY <1>0, <2>2, <2>3, <2>4, <4>1, <4>2, TransitProperties
      <4>3. CASE i \in 1 .. Len(ring)
        BY <1>0, <2>3, <2>4, <4>1, <4>3, TransitProperties
      <4> QED
        BY <1>0, <4>1, <4>2, <4>3, TransitProperties
    <3> QED
      BY <1>0, <2>4, <3>1, <3>2, TransitNext, SeqEqual
  <2>6. Len(Transit) < RingSize
    BY <1>0, <2>1, TransitProperties
  <2> QED
    BY <2>1, <2>5, <2>6 DEF Channel!Next, Channel!Send, Transit
<1>2. ASSUME NEW c \in Cpus, BumpDrops(c) PROVE Channel!Next
  <2>1. Len(ring) = RingSize /\ fired' = fired + 1 /\ drops' = drops + 1
        /\ UNCHANGED <<ring, received, last>>
    BY <1>2 DEF BumpDrops, Fire, collectorVars
  <2>2. Len(Transit) = RingSize /\ Transit' = Transit
    BY <1>0, <2>1, TransitProperties DEF Transit
  <2> QED
    BY <2>1, <2>2 DEF Channel!Next, Channel!Lose, Transit
<1>3. ASSUME NEW c \in Cpus, NEW r \in Record, probe[c] # "idle", r.id = ring[Filling(c)].id,
             ring' = [ring EXCEPT ![Filling(c)] = r]
      PROVE  Transit' = Transit
  <2>1. Len(ring') = Len(ring) /\ ring'[Filling(c)] = r
        /\ \A i \in 1 .. Len(ring) : i # Filling(c) => ring'[i] = ring[i]
    BY <1>3, FillProperties
  <2>2. \A i \in 1 .. Len(ring) : ring'[i].id = ring[i].id
    BY <1>3, <2>1
  <2>3. Len(Transit') = Len(Transit) /\ \A i \in 1 .. Len(Transit') : Transit'[i] = Transit[i]
    BY <1>0, <2>1, <2>2, TransitProperties, TransitNext
  <2> QED
    BY <1>0, <2>3, TransitProperties, TransitNext, SeqEqual
<1>4. ASSUME NEW c \in Cpus, Stamp(c) \/ SubmitAny(c)
      PROVE  UNCHANGED <<fired, Transit, received, last, drops>>
  <2>1. UNCHANGED <<fired, received, last, drops>> /\ probe[c] # "idle"
    BY <1>4 DEF Stamp, SubmitAny, Submit, collectorVars
  <2>2. Filling(c) \in 1 .. Len(ring) /\ ring[Filling(c)] \in Record /\ clock + 1 \in Nat
        /\ ring[Filling(c)].by = c
    BY <1>0, <2>1, FillingProperties, RecordFields DEF IInv, Types
  <2>3. CASE Stamp(c)
    <3>1. ring' = [ring EXCEPT ![Filling(c)] = [ring[Filling(c)] EXCEPT !.ts = clock + 1]]
      BY <2>3 DEF Stamp
    <3> QED
      BY <1>3, <2>1, <2>2, <3>1, StampedRecord
  <2>4. CASE SubmitAny(c)
    <3>1. PICK kind \in Kinds, target \in Cpus : ring' = [ring EXCEPT ![Filling(c)] = FilledBy(c, kind, target)]
      BY <2>4 DEF SubmitAny, Submit
    <3>2. FilledBy(c, kind, target) \in Record /\ FilledBy(c, kind, target).id = ring[Filling(c)].id
      BY <2>2, FilledRecord
    <3> QED
      BY <1>3, <2>1, <3>1, <3>2
  <2> QED
    BY <1>4, <2>3, <2>4
<1>5. ASSUME NEW ok \in BOOLEAN, OnRecord(ok) PROVE Channel!Next
  <2>1. ring # <<>> /\ ring' = Tail(ring) /\ received' = received + 1 /\ last' = Head(ring).id
        /\ UNCHANGED <<fired, drops>>
    BY <1>5 DEF OnRecord, Ready, kernelVars
  <2>2. Len(ring') = Len(ring) - 1 /\ Head(ring) = ring[1] /\ 1 \in 1 .. Len(ring)
        /\ \A i \in 1 .. Len(ring') : ring'[i] = ring[i + 1] /\ i + 1 \in 1 .. Len(ring)
    BY <1>0, <2>1, HeadTailProperties, TransitProperties
  <2>3. Transit # <<>> /\ Head(Transit) = Transit[1]
        /\ Tail(Transit) \in Seq(Nat) /\ Len(Tail(Transit)) = Len(Transit) - 1
        /\ \A i \in 1 .. Len(Tail(Transit)) : Tail(Transit)[i] = Transit[i + 1]
    BY <1>0, <2>1, HeadTailProperties, TransitProperties
  <2>4. Transit' = Tail(Transit)
    <3>1. Len(Transit') = Len(Tail(Transit))
      BY <1>0, <2>2, <2>3, TransitProperties, TransitNext
    <3>2. ASSUME NEW i \in 1 .. Len(Transit')
          PROVE  Transit'[i] = Tail(Transit)[i]
      <4>1. i \in 1 .. Len(ring') /\ Transit'[i] = ring'[i].id
        BY <1>0, TransitNext
      <4>2. Transit'[i] = ring[i + 1].id /\ i + 1 \in 1 .. Len(ring)
        BY <2>2, <4>1
      <4>3. Tail(Transit)[i] = Transit[i + 1]
        BY <2>3, <3>1
      <4> QED
        BY <1>0, <4>2, <4>3, TransitProperties
    <3> QED
      BY <1>0, <2>3, <3>1, <3>2, TransitNext, SeqEqual
  <2>5. Head(Transit) = Head(ring).id
    BY <1>0, <2>2, <2>3, TransitProperties
  <2> QED
    BY <2>1, <2>3, <2>4, <2>5 DEF Channel!Next, Channel!Deliver, Transit
<1>6. CASE UNCHANGED <<fired, drops, ring, received, last>>
  BY <1>6 DEF Transit
<1>7. CASE Probes
  BY <1>1, <1>2, <1>4, <1>7 DEF Probes
<1>8. CASE Start
  BY <1>6, <1>8 DEF Start, OpenAndLoad, Attach, AttachFailed, OpenRing, kernelVars, collectorVars
<1>9. CASE Reader \/ StopCollector
  BY <1>5, <1>6, <1>9 DEF Reader, StopCollector, PollBegin, PollReturn, ReadDropCounter,
     kernelVars, collectorVars
<1>10. CASE UNCHANGED vars
  BY <1>6, <1>10 DEF vars, kernelVars, collectorVars
<1> QED
  BY <1>7, <1>8, <1>9, <1>10 DEF Next

\* For any number of processors the ring, the probes and the poll are a bounded
\* first-in first-out channel that loses only what finds it full, and counts it
\* (sched_collect.bpf.c:52-230 with SchedCollector.poll).
THEOREM SpecImplementsChannel == Spec => ImplementsChannel
<1>1. Spec => []IInv
  BY SpecIInv
<1> QED
  BY <1>1, InitChannel, StepChannel, PTL DEF Spec, ImplementsChannel, Channel!Spec
=============================================================================

--------------------------- MODULE SchedPipeline ---------------------------
(***************************************************************************)
(* The eBPF scheduler transport: SchedCollector.start() loads the object,  *)
(* attaches its programs to the tracepoints and opens the ring buffer; the *)
(* probes of sched_collect.bpf.c run on every CPU and reserve, stamp and   *)
(* submit records in it; the controller's thread polls it through          *)
(* LibbpfLoader and SchedCollector and reads the kernel's drop counter.    *)
(* libbpf consumes records in the order of their reservation and stops at  *)
(* one that is reserved but not submitted yet.                             *)
(***************************************************************************)
EXTENDS Naturals, Sequences, SequencesExt, FiniteSets

CONSTANTS
    Programs,   \* the programs of the object, one per tracepoint
    Cpus,       \* the processors the probes run on
    RingSize,   \* records the ring buffer m1_rb holds
    MaxFired    \* bound of the number of tracepoint hits

ASSUME ProgramsAssumption == IsFiniteSet(Programs) /\ Programs # {}
ASSUME CpusAssumption == IsFiniteSet(Cpus) /\ Cpus # {}
ASSUME RingSizeAssumption == RingSize \in Nat \ {0}
ASSUME MaxFiredAssumption == MaxFired \in Nat

VARIABLES
    hooked,   \* the programs that run when their tracepoint is hit
    attached, \* LibbpfLoader.attached
    failed,   \* LibbpfLoader.failed
    fired,    \* runs of hooked programs so far
    clock,    \* bpf_ktime_get_ns, advanced at every stamp
    probe,    \* probe[c]: where the probe running on c stands
    ring,     \* the records not consumed yet, in order of reservation
    drops,    \* the kernel's m1_drops[0]
    reader,   \* where the controller's thread stands
    pending,  \* SchedCollector._pending, then the list poll() returns
    rows,     \* the events handed to the controller (sched_rows)
    received, decoded,  \* SchedCollector's counters
    rejected, \* malformed + unknown + errors
    dropped,  \* SchedCollector.dropped
    last      \* history: the record consumed last

loaderVars == <<hooked, attached, failed>>
kernelVars == <<fired, clock, probe, drops>>
collectorVars == <<pending, rows, received, decoded, rejected, dropped, last>>
vars == <<loaderVars, kernelVars, ring, reader, collectorVars>>

\* sched_switch, exec and exit rows name the CPU the probe runs on, wakeup rows
\* the CPU the task is woken for.
Kinds == {"local", "wakeup"}

\* A reserved record.  It is zeroed: ts is 0 until it is stamped, kind and cpu
\* are 0 until the handler has filled it, which submitting (done) follows.
\* by is history: the CPU whose probe writes it.
Record == [id : 1 .. MaxFired, by : Cpus, cpu : Cpus \cup {0}, kind : Kinds \cup {"zero"},
           ts : Nat, done : BOOLEAN]

Zeroed(n, c) == [id |-> n, by |-> c, cpu |-> 0, kind |-> "zero", ts |-> 0, done |-> FALSE]

Starting == {"closed", "attaching"}
Open     == {"between", "polling", "counting"}
Over     == {"stopped", "failed"}

Init ==
    /\ hooked = {} /\ attached = {} /\ failed = {}
    /\ fired = 0
    /\ clock = 0
    /\ probe = [c \in Cpus |-> "idle"]
    /\ ring = <<>>
    /\ drops = 0
    /\ reader = "closed"
    /\ pending = <<>>
    /\ rows = <<>>
    /\ received = 0 /\ decoded = 0 /\ rejected = 0
    /\ dropped = 0
    /\ last = 0

-----------------------------------------------------------------------------
(***************************************************************************)
(* SchedCollector.start().                                                 *)
(***************************************************************************)

\* bpf_object__open_file and bpf_object__load.
OpenAndLoad ==
    /\ reader = "closed"
    /\ reader' \in {"attaching", "failed"}
    /\ UNCHANGED <<loaderVars, kernelVars, ring, collectorVars>>

\* Faulty variant of Attach: an error-encoded pointer is taken for a link.
AttachUnchecked(p) ==
    /\ reader = "attaching"
    /\ p \notin attached \cup failed
    /\ attached' = attached \cup {p}
    /\ hooked' \in {hooked, hooked \cup {p}}
    /\ UNCHANGED <<failed, kernelVars, ring, reader, collectorVars>>

\* A program is attached, or is not found or cannot be attached; the others
\* are tried all the same.
Attach(p) ==
    /\ reader = "attaching"
    /\ p \notin attached \cup failed
    /\ \/ /\ attached' = attached \cup {p} /\ hooked' = hooked \cup {p}
          /\ UNCHANGED failed
       \/ /\ failed' = failed \cup {p}
          /\ UNCHANGED <<hooked, attached>>
    /\ UNCHANGED <<kernelVars, ring, reader, collectorVars>>

\* With any program missing start() closes the object and raises.  Closing it
\* does not destroy the links: what is attached goes on firing.
AttachFailed ==
    /\ reader = "attaching"
    /\ attached \cup failed = Programs
    /\ failed # {}
    /\ reader' = "failed"
    /\ UNCHANGED <<loaderVars, kernelVars, ring, collectorVars>>

\* The ring buffer is opened, or start() raises with the object still open.
OpenRing ==
    /\ reader = "attaching"
    /\ attached = Programs
    /\ reader' \in {"between", "failed"}
    /\ UNCHANGED <<loaderVars, kernelVars, ring, collectorVars>>

-----------------------------------------------------------------------------
(***************************************************************************)
(* The probes.  They run from the moment their program is attached until   *)
(* the process ends, whether or not anybody polls.                         *)
(***************************************************************************)

Fire(c) ==
    /\ hooked # {}
    /\ fired < MaxFired
    /\ probe[c] = "idle"
    /\ fired' = fired + 1

\* Faulty variant of Reserve: writes whether or not there is room.
ReserveUnchecked(c) ==
    /\ Fire(c)
    /\ ring' = Append(ring, Zeroed(fired + 1, c))
    /\ probe' = [probe EXCEPT ![c] = "reserved"]
    /\ UNCHANGED <<clock, drops, reader, loaderVars, collectorVars>>

\* reserve_zeroed gets a record at the end of the ring ...
Reserve(c) ==
    /\ Fire(c)
    /\ Len(ring) < RingSize
    /\ ring' = Append(ring, Zeroed(fired + 1, c))
    /\ probe' = [probe EXCEPT ![c] = "reserved"]
    /\ UNCHANGED <<clock, drops, reader, loaderVars, collectorVars>>

\* Faulty variant of BumpDrops: returns without counting.
BumpDropsNot(c) ==
    /\ Fire(c)
    /\ Len(ring) = RingSize
    /\ UNCHANGED <<clock, probe, ring, drops, reader, loaderVars, collectorVars>>

\* ... or, when the ring is full, counts the event it cannot record.
BumpDrops(c) ==
    /\ Fire(c)
    /\ Len(ring) = RingSize
    /\ drops' = drops + 1
    /\ UNCHANGED <<clock, probe, ring, reader, loaderVars, collectorVars>>

\* The position of the record the probe on c is filling.
Filling(c) == CHOOSE i \in DOMAIN ring : ring[i].by = c /\ ~ring[i].done

Stamp(c) ==
    /\ probe[c] = "reserved"
    /\ clock' = clock + 1
    /\ ring' = [ring EXCEPT ![Filling(c)].ts = clock + 1]
    /\ probe' = [probe EXCEPT ![c] = "stamped"]
    /\ UNCHANGED <<fired, drops, reader, loaderVars, collectorVars>>

\* The handler fills the record: ctx->target_cpu for a wakeup, its own
\* processor for the others.
FilledBy(c, kind, target) ==
    [ring[Filling(c)] EXCEPT !.kind = kind, !.cpu = IF kind = "wakeup" THEN target ELSE c,
                             !.done = TRUE]

\* Faulty variant of Submit: a handler that submits before it fills the record.
SubmitUnfilled(c, kind, target) ==
    /\ probe[c] = "reserved"
    /\ ring' = [ring EXCEPT ![Filling(c)].done = TRUE]
    /\ probe' = [probe EXCEPT ![c] = "idle"]
    /\ UNCHANGED <<fired, clock, drops, reader, loaderVars, collectorVars>>

Submit(c, kind, target) ==
    /\ probe[c] = "stamped"
    /\ ring' = [ring EXCEPT ![Filling(c)] = FilledBy(c, kind, target)]
    /\ probe' = [probe EXCEPT ![c] = "idle"]
    /\ UNCHANGED <<fired, clock, drops, reader, loaderVars, collectorVars>>

-----------------------------------------------------------------------------
(***************************************************************************)
(* The reader: one poll of the controller's loop at a time.                *)
(***************************************************************************)

PollBegin ==
    /\ reader = "between"
    /\ reader' = "polling"
    /\ UNCHANGED <<loaderVars, kernelVars, ring, collectorVars>>

\* libbpf finds a submitted record at the consumer position.
Ready == ring # <<>> /\ Head(ring).done

\* Faulty variants of OnRecord: one that forgets to count what it cannot decode,
\* one that takes the newest.
OnRecordUncounted(ok) ==
    /\ reader = "polling"
    /\ Ready
    /\ ring' = Tail(ring)
    /\ received' = received + 1
    /\ decoded' = IF ok THEN decoded + 1 ELSE decoded
    /\ rejected' = rejected
    /\ pending' = IF ok THEN Append(pending, Head(ring)) ELSE pending
    /\ last' = Head(ring).id
    /\ UNCHANGED <<loaderVars, kernelVars, reader, rows, dropped>>

OnRecordNewest(ok) ==
    /\ reader = "polling"
    /\ ring # <<>> /\ Last(ring).done
    /\ ring' = Front(ring)
    /\ received' = received + 1
    /\ decoded' = IF ok THEN decoded + 1 ELSE decoded
    /\ rejected' = IF ok THEN rejected ELSE rejected + 1
    /\ pending' = IF ok THEN Append(pending, Last(ring)) ELSE pending
    /\ last' = Last(ring).id
    /\ UNCHANGED <<loaderVars, kernelVars, reader, rows, dropped>>

\* ring_buffer__poll calls back for the oldest record, which frees its place;
\* the callback decodes it or counts why it could not.
OnRecord(ok) ==
    /\ reader = "polling"
    /\ Ready
    /\ ring' = Tail(ring)
    /\ received' = received + 1
    /\ decoded' = IF ok THEN decoded + 1 ELSE decoded
    /\ rejected' = IF ok THEN rejected ELSE rejected + 1
    /\ pending' = IF ok THEN Append(pending, Head(ring)) ELSE pending
    /\ last' = Head(ring).id
    /\ UNCHANGED <<loaderVars, kernelVars, reader, rows, dropped>>

\* Faulty variant of PollReturn: an interrupted poll that counts as one that found
\* nothing.
PollReturnEarly ==
    /\ reader = "polling"
    /\ reader' = "counting"
    /\ UNCHANGED <<loaderVars, kernelVars, ring, collectorVars>>

\* The poll returns when it meets the end of the ring or a busy record; the
\* decoded events go to the controller, which appends them to its rows once
\* the drop counter has been read.
PollReturn ==
    /\ reader = "polling"
    /\ ~Ready
    /\ reader' = "counting"
    /\ UNCHANGED <<loaderVars, kernelVars, ring, collectorVars>>

\* Faulty variant of ReadDropCounter: adds the cumulative counter up again.
ReadDropCounterAgain ==
    /\ reader = "counting"
    /\ reader' = "between"
    /\ dropped' = dropped + drops
    /\ rows' = rows \o pending
    /\ pending' = <<>>
    /\ UNCHANGED <<loaderVars, kernelVars, ring, received, decoded, rejected, last>>

\* The read may fail (read_drop_counter returns None): the old value stays.
ReadDropCounter ==
    /\ reader = "counting"
    /\ reader' = "between"
    /\ dropped' \in {dropped, IF drops > dropped THEN drops ELSE dropped}
    /\ rows' = rows \o pending
    /\ pending' = <<>>
    /\ UNCHANGED <<loaderVars, kernelVars, ring, received, decoded, rejected, last>>

\* The run is over, or a poll failed before it consumed anything, or Ctrl-C
\* arrives inside poll() and what it decoded is not handed over: the loader
\* closes the object, the collector keeps its counters, nobody drains the ring.
StopCollector ==
    /\ reader \in Open
    /\ reader' = "stopped"
    /\ UNCHANGED <<loaderVars, kernelVars, ring, collectorVars>>

Start == OpenAndLoad \/ (\E p \in Programs : Attach(p)) \/ AttachFailed \/ OpenRing

SubmitAny(c) == \E kind \in Kinds, target \in Cpus : Submit(c, kind, target)

Probes == \E c \in Cpus : Reserve(c) \/ BumpDrops(c) \/ Stamp(c) \/ SubmitAny(c)

Reader == PollBegin \/ (\E ok \in BOOLEAN : OnRecord(ok)) \/ PollReturn \/ ReadDropCounter

Next == Start \/ Probes \/ Reader \/ StopCollector

Spec == Init /\ [][Next]_vars

(***************************************************************************)
(* start() returns or raises, a probe that started runs to its end, and    *)
(* the controller's loop goes on polling until it stops.  Nothing makes a  *)
(* tracepoint fire.                                                        *)
(***************************************************************************)
Fairness ==
    /\ WF_vars(Start)
    /\ \A c \in Cpus : WF_vars(Stamp(c)) /\ WF_vars(SubmitAny(c))
    /\ WF_vars(Reader)

FairSpec == Spec /\ Fairness

-----------------------------------------------------------------------------
(***************************************************************************)
(* Properties.                                                             *)
(***************************************************************************)

\* Every variable has its type; a probe is in the middle of at most one record.
TypeOK ==
    /\ hooked \subseteq Programs /\ attached \subseteq Programs /\ failed \subseteq Programs
    /\ fired \in 0 .. MaxFired
    /\ clock \in Nat
    /\ probe \in [Cpus -> {"idle", "reserved", "stamped"}]
    /\ ring \in Seq(Record) /\ Len(ring) <= RingSize
    /\ drops \in 0 .. MaxFired
    /\ reader \in Starting \cup Open \cup Over
    /\ pending \in Seq(Record) /\ rows \in Seq(Record)
    /\ received \in 0 .. MaxFired /\ decoded \in 0 .. MaxFired /\ rejected \in 0 .. MaxFired
    /\ dropped \in 0 .. MaxFired
    /\ last \in 0 .. MaxFired

\* A collector that polls, and reports full fidelity, has every tracepoint: a
\* program that could not be attached keeps start() from returning, whichever
\* it is and whatever was attached before it.
StartedIsComplete == reader \in Open => hooked = Programs

\* No event vanishes without a trace, from the first program attached on: what
\* fired was dropped by the kernel, is in the ring, or was received; what was
\* received was counted as decoded or not; what was decoded is with the
\* controller or with the poll that will hand it over (SchedCollector's "never
\* silent" counters).
Accounting ==
    /\ fired = drops + Len(ring) + received
    /\ received = decoded + rejected
    /\ decoded = Len(pending) + Len(rows)

\* The drops reported never exceed those that happened: the counter read from
\* the kernel is cumulative (SchedCollector.poll).
DropsNotOvercounted == dropped <= drops

\* No record reaches the controller before the probe has filled it: libbpf
\* stops at a busy record even when later ones are ready.
NoHalfWrittenRow ==
    \A i \in DOMAIN rows : rows[i].ts > 0 /\ rows[i].kind # "zero" /\ rows[i].done

\* The rows stamped by one processor arrive in the order of their timestamps.
\* Among the rows that name a processor in their cpu field this holds of the
\* local ones only: a wakeup names the processor it is for, not the one whose
\* probe stamped it, so a group of rows by cpu has to be sorted when it holds
\* wakeups.
PerCpuOrder ==
    \A i, j \in DOMAIN rows :
        /\ i < j
        /\ \/ rows[i].by = rows[j].by
           \/ rows[i].kind = "local" /\ rows[j].kind = "local" /\ rows[i].cpu = rows[j].cpu
        => rows[i].ts < rows[j].ts

\* The ring, the probes and the poll implement a bounded first-in first-out
\* channel that loses an event only when it is full, and counts it.
Channel == INSTANCE LossyChannel WITH
    Capacity  <- RingSize,
    sent      <- fired,
    transit   <- [i \in DOMAIN ring |-> ring[i].id],
    delivered <- received,
    losses    <- drops

ImplementsChannel == Channel!Spec

\* A record in the ring is eventually consumed, unless the collector does not
\* start or the run ends first: no record can block the ones behind it for ever.
EventuallyConsumed ==
    \A n \in 1 .. MaxFired :
        (\E i \in DOMAIN ring : ring[i].id = n)
            ~> (reader \in Over \/ \A i \in DOMAIN ring : ring[i].id # n)
=============================================================================

----------------------------- MODULE QaVerdict -----------------------------
(***************************************************************************)
(* m1.qa.checks: the checks that turn what a run collected into PASS,      *)
(* QUARANTINE or FAIL.  A check sees the facts below, which abstract the   *)
(* rows to what it tells apart.                                            *)
(***************************************************************************)
EXTENDS Naturals

Streams == {"task", "system", "psi", "sched"}

Facts == [failed     : BOOLEAN,   \* a critical failure was recorded
          backend    : {"ebpf", "tracefs_fallback", "none"},
          empty      : SUBSET Streams,       \* the streams without a row
          observations : {"none", "one", "blank", "several"},  \* blank: several,
                                  \* and not one with a CPU history
          context    : BOOLEAN,   \* there is a context event
          dropped    : BOOLEAN,   \* the statistics report dropped events
          errors     : BOOLEAN,   \* or other errors of the transport
          unresolved : {"none", "few", "many"},  \* events without a task_id
          malformed  : BOOLEAN,   \* an event of unknown type or without a task
          exits      : {"seen", "orphaned", "inverted"},   \* of tasks that no scan
                                  \* saw, or stamped before the first scan that did
          intervals  : {"none", "kept", "missed"},   \* the sampling cadence
          sound      : BOOLEAN]   \* no row breaks its schema, identity, order
                                  \* or range

Check(name, passed, severity, blocking) ==
    [name |-> name, passed |-> passed, severity |-> severity, blocking |-> blocking]

\* A check that either holds or fails critically.
Critical(name, holds) ==
    Check(name, holds, IF holds THEN "info" ELSE "critical", FALSE)

CheckFailedCollectors(f) == Critical("collectors_alive", ~f.failed)

CheckBackend(f) ==
    Check("backend_fidelity", f.backend = "ebpf",
          CASE f.backend = "ebpf" -> "info"
            [] f.backend = "tracefs_fallback" -> "warning"
            [] OTHER -> "critical", FALSE)

\* No events at all, a malformed one, or more than a quarter of them unresolved
\* is critical; a few unresolved ones are reported and do not block, before the
\* drops are looked at.
CheckSchedEvents(f) ==
    IF "sched" \in f.empty \/ f.malformed \/ f.unresolved = "many"
    THEN Check("sched_events", FALSE, "critical", FALSE)
    ELSE IF f.unresolved = "few" THEN Check("sched_events", TRUE, "warning", FALSE)
    ELSE Check("sched_events", TRUE, IF f.dropped THEN "warning" ELSE "info", f.dropped)

\* One observation may be without a history; several are not all to be.
CheckCompleteness(f) ==
    Critical("completeness",
             f.empty \cap {"task", "system"} = {} /\ f.context
             /\ f.observations \notin {"none", "blank"})

CheckLifecycle(f) ==
    Check("lifecycle", f.exits # "inverted",
          CASE f.exits = "seen" -> "info"
            [] f.exits = "orphaned" -> "warning"
            [] OTHER -> "critical", FALSE)

\* Faulty variant of CheckPerformance: leaves the drops to CheckSchedEvents.
CheckPerformanceErrorsOnly(f) ==
    Check("performance", TRUE, IF f.errors THEN "warning" ELSE "info", f.errors)

CheckPerformance(f) ==
    LET loss == f.dropped \/ f.errors
    IN  Check("performance", TRUE, IF loss THEN "warning" ELSE "info", loss)

CheckSamplingCadence(f) ==
    Check("sampling_cadence", f.intervals # "missed",
          IF f.intervals = "kept" THEN "info" ELSE "warning", f.intervals = "none")

\* The checks of schema, identity, timestamps, uniqueness, context, workload
\* records and parsing.
CheckRows(f) == Critical("rows", f.sound)

Checks(f) ==
    {CheckFailedCollectors(f), CheckBackend(f), CheckSchedEvents(f),
     CheckCompleteness(f), CheckLifecycle(f), CheckPerformance(f),
     CheckSamplingCadence(f), CheckRows(f)}

RunAll(f) ==
    IF \E c \in Checks(f) : c.severity = "critical" /\ ~c.passed THEN "FAIL"
    ELSE IF \E c \in Checks(f) : ~c.passed \/ c.blocking THEN "QUARANTINE"
    ELSE "PASS"
=============================================================================

---------------------------- MODULE MCQaVerdict ----------------------------
(***************************************************************************)
(* QA over every combination of facts, started from every one of them and  *)
(* made worse one fact at a time.  A stream that is lost takes with it     *)
(* what QA reads off its rows.                                             *)
(***************************************************************************)
EXTENDS QaVerdict

VARIABLE facts

\* What is left of the facts when QA has no row of the streams `gone`.
Without(f, gone) ==
    [f EXCEPT !.empty = @ \cup gone,
              !.unresolved = IF "sched" \in gone THEN "none" ELSE @,
              !.malformed = @ /\ "sched" \notin gone,
              !.exits = IF "sched" \in gone THEN "seen"
                        ELSE IF "task" \in gone /\ @ = "inverted" THEN "orphaned" ELSE @,
              !.observations = IF gone \cap {"task", "system"} # {} THEN "none" ELSE @]

Init == facts \in {f \in Facts : f = Without(f, f.empty)}

\* What can be worse about a run, one fact at a time.
CollectorFails   == ~facts.failed /\ facts' = [facts EXCEPT !.failed = TRUE]
BackendDegrades  ==
    \/ facts.backend = "ebpf" /\ facts' = [facts EXCEPT !.backend = "tracefs_fallback"]
    \/ facts.backend = "tracefs_fallback" /\ facts' = [facts EXCEPT !.backend = "none"]
StreamIsLost(s)  == s \notin facts.empty /\ facts' = Without(facts, {s})
ContextLost      == facts.context /\ facts' = [facts EXCEPT !.context = FALSE]
NoObservation    == facts.observations # "none" /\ facts' = [facts EXCEPT !.observations = "none"]
HistoryLost      == facts.observations = "several" /\ facts' = [facts EXCEPT !.observations = "blank"]
OneObservation   ==
    facts.observations \in {"several", "blank"} /\ facts' = [facts EXCEPT !.observations = "one"]
EventsDropped    == ~facts.dropped /\ facts' = [facts EXCEPT !.dropped = TRUE]
TransportErrs    == ~facts.errors /\ facts' = [facts EXCEPT !.errors = TRUE]
MoreUnresolved   ==
    /\ "sched" \notin facts.empty
    /\ \/ facts.unresolved = "none" /\ facts' = [facts EXCEPT !.unresolved = "few"]
       \/ facts.unresolved = "few" /\ facts' = [facts EXCEPT !.unresolved = "many"]
EventsMalformed  ==
    "sched" \notin facts.empty /\ ~facts.malformed /\ facts' = [facts EXCEPT !.malformed = TRUE]
ExitsOrphaned    ==
    "sched" \notin facts.empty /\ facts.exits = "seen" /\ facts' = [facts EXCEPT !.exits = "orphaned"]
ExitInverted     ==
    /\ facts.empty \cap {"sched", "task"} = {}
    /\ facts.exits # "inverted" /\ facts' = [facts EXCEPT !.exits = "inverted"]
InversionLost    ==
    facts.exits = "inverted" /\ \E e \in {"seen", "orphaned"} : facts' = [facts EXCEPT !.exits = e]
CadenceCollapses == facts.intervals = "kept" /\ \E i \in {"none", "missed"} :
                        facts' = [facts EXCEPT !.intervals = i]
RowsBreak        == facts.sound /\ facts' = [facts EXCEPT !.sound = FALSE]

Next ==
    \/ CollectorFails \/ BackendDegrades \/ (\E s \in Streams : StreamIsLost(s))
    \/ ContextLost \/ NoObservation \/ HistoryLost \/ OneObservation
    \/ EventsDropped \/ TransportErrs \/ MoreUnresolved \/ EventsMalformed
    \/ ExitsOrphaned \/ ExitInverted \/ InversionLost \/ CadenceCollapses \/ RowsBreak

Spec == Init /\ [][Next]_facts

Rank == [PASS |-> 0, QUARANTINE |-> 1, FAIL |-> 2]

\* Losing data makes a verdict better in two ways and no other: when all but one
\* of several observations without a history are lost (check_completeness calls
\* a run too short for any history complete), and when the exit events, or the
\* first samples, that are out of order are lost (check_lifecycle).  All else
\* that makes the data of a run worse, the loss of a whole stream included,
\* leaves the verdict as it is or makes it worse, although check_sched_events
\* returns early and so lets one deficiency hide another (run_all needs
\* check_performance to see the drops that a few unresolved events hide).
WorseNeverBetter ==
    [][Rank[RunAll(facts')] < Rank[RunAll(facts)] =>
         \/ facts.observations = "blank" /\ facts'.observations = "one"
         \/ facts.exits = "inverted" /\ facts'.exits # "inverted" /\ facts'.empty = facts.empty]_facts
=============================================================================

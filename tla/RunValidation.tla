--------------------------- MODULE RunValidation ---------------------------
(***************************************************************************)
(* The report that inspection makes of a run, the disposition of every     *)
(* input event, strict acceptance and the two warning summaries            *)
(* (tailtriage-core/src/validation.rs).  Normalization says what becomes   *)
(* of the evidence; this module says what is told about it, issue by issue *)
(* as normalize_inner collects it.  A run additionally has the field       *)
(*                                                                         *)
(*   meta : which metadata is wrong: a subset of {"schema_version",        *)
(*          "run_id", "service_name"}.                                     *)
(*                                                                         *)
(* Messages are left out: an issue is its code, location and severity.     *)
(***************************************************************************)
EXTENDS Normalization

Issue(section, index, field, code) ==
    [section |-> section, index |-> index, field |-> field, code |-> code,
     severity |-> IF code = "precise_interval_validation_unavailable"
                  THEN "warning" ELSE "error"]

NoIndex == 0
NoField == "none"

ChildSections == {"stages", "queues"}
EventSections == {"requests"} \cup ChildSections

----------------------------------------------------------------------------
(* Issues of one event alone: inspect_required and inspect_time.           *)

ShapeCodes(ev) ==
    IF ev.shape = "blank" THEN {<<"string", "empty_required_field">>}
    ELSE IF ev.shape = "inverted" THEN {<<"end_unix_ms", "inverted_interval">>}
    ELSE {}

PrecisionCode(ev) ==
    IF ev.s = NoOffset /\ ev.e = NoOffset THEN "precise_interval_validation_unavailable"
    ELSE IF ~Precise(ev) THEN "partial_run_relative_interval"
    ELSE IF ev.e < ev.s THEN "inverted_interval"
    ELSE IF AbsDiff(ev.dur, ev.e - ev.s) > Tolerance THEN "duration_mismatch"
    ELSE "sound"

EventIssues(section, i, ev) ==
    {Issue(section, i, c[1], c[2]) : c \in ShapeCodes(ev)}
    \cup (IF PrecisionCode(ev) = "sound" THEN {}
          ELSE {Issue(section, i, NoField, PrecisionCode(ev))})

----------------------------------------------------------------------------
(* Issues that relate events: duplicate ids and the policy for children.   *)

DuplicateIssues(reqs) ==
    {Issue("requests", i, "request_id", "duplicate_completed_request_id") :
        i \in {k \in DOMAIN reqs : reqs[k].id \in DupIds(reqs)}}

\* Mutant: only the parent's state is looked at, never its interval.
Bug_NoContainment(reqs, section, i, c) ==
    IF ParentState(reqs, c.id) = "unique" THEN {}
    ELSE {Issue(section, i, "request_id", "orphan_request_scoped_event")}

\* child_policy: the codes that the parent puts on a child.
ChildPolicy(reqs, section, i, c) ==
    LET At(field, code) == {Issue(section, i, field, code)}
        Under(parent) ==
            IF parent = "orphan" THEN At("request_id", "orphan_request_scoped_event")
            ELSE IF parent = "ambiguous" THEN At("request_id", "ambiguous_parent_request_id")
            ELSE IF parent = "excluded" THEN At("request_id", "parent_request_excluded")
            ELSE IF OutsideParent(reqs, ClearBad(c))
                 THEN At(NoField, "child_interval_outside_request")
            ELSE {}
    IN  Under(ParentState(reqs, c.id))

----------------------------------------------------------------------------
(* The report.                                                             *)

MetadataIssues(run) ==
    {Issue("metadata", NoIndex, f, IF f = "schema_version"
                                   THEN "unsupported_schema_version"
                                   ELSE "empty_required_field") : f \in run.meta}
    \cup (IF run.finalized = "inverted"
          THEN {Issue("metadata", NoIndex, "finalized_at_unix_ms", "inverted_interval")}
          ELSE {})

AllEventIssues(run) ==
    UNION {UNION {EventIssues(sec, i, run[sec][i]) : i \in DOMAIN run[sec]} : sec \in EventSections}

AllChildIssues(run) ==
    UNION {UNION {ChildPolicy(run.requests, sec, i, run[sec][i]) : i \in DOMAIN run[sec]} :
               sec \in ChildSections}

GaugeIssues(run) ==
    {Issue("inflight", i, "gauge", "empty_required_field") :
        i \in {k \in DOMAIN run.inflight : run.inflight[k].gauge \in BlankGauges}}

WorkerIssues(run) ==
    {Issue("runtime", i, "worker_count", "invalid_worker_count") :
        i \in {k \in DOMAIN run.runtime : run.runtime[k] = "zero_workers"}}

\* sorted_report orders the issues; a set of them is enough here.
Report(run) ==
    MetadataIssues(run) \cup AllEventIssues(run) \cup DuplicateIssues(run.requests)
    \cup AllChildIssues(run) \cup GaugeIssues(run) \cup WorkerIssues(run)

\* validate_run_strict
ValidateStrict(run) == \A issue \in Report(run) : issue.severity # "error"

----------------------------------------------------------------------------
(* Dispositions: the codes that exclude an input event, and where a        *)
(* retained one went.                                                      *)

Clearing == {"partial_run_relative_interval", "duration_mismatch",
             "precise_interval_validation_unavailable", "invalid_worker_count"}

\* What inspection puts into `invalid`, not into `precision_clear`.
Excludes(issue) ==
    /\ issue.code \notin Clearing
    /\ issue.code = "inverted_interval" => issue.field # NoField

ExclusionCodes(report, section, i) ==
    {issue.code : issue \in {k \in report : k.section = section /\ k.index = i /\ Excludes(k)}}

Excluded(report, section, i) == ExclusionCodes(report, section, i) # {}

\* Mutant: the index among all events of the section.
Bug_InputIndex(report, section, i) == i

\* add_disps: the index of a retained event in the normalized section.
OutputIndex(report, section, i) ==
    Cardinality({k \in 1..i : ~Excluded(report, section, k)})

----------------------------------------------------------------------------
(* Warning summaries, one per group of code, section and action.           *)

SummaryAction(report, issue) ==
    IF issue.section = "metadata" THEN "metadata_failed"
    ELSE IF Excluded(report, issue.section, issue.index) THEN "excluded"
    ELSE IF issue.code = "invalid_worker_count" THEN "worker_count_cleared"
    ELSE IF \/ issue.code \in {"partial_run_relative_interval", "duration_mismatch"}
            \/ issue.code = "inverted_interval" /\ issue.field = NoField
         THEN "offsets_cleared"
    ELSE IF issue.code = "precise_interval_validation_unavailable" THEN "unchanged"
    ELSE "excluded"

Summaries(report, issues) ==
    {[code |-> k.code, section |-> k.section, action |-> SummaryAction(report, k),
      count |-> Cardinality({o \in issues : /\ o.code = k.code /\ o.section = k.section
                                            /\ SummaryAction(report, o) = SummaryAction(report, k)})] :
        k \in issues}

\* summarize_run_validation
AllSummaries(report) == Summaries(report, report)
AnalyzerSummary(run) == AllSummaries(Report(run))

\* summarize_run_validation_lifecycle
DurableSummaries(report) ==
    Summaries(report, {k \in report :
        /\ k.code # "precise_interval_validation_unavailable"
        /\ SummaryAction(report, k) \in {"excluded", "worker_count_cleared", "offsets_cleared"}})
LifecycleSummary(run) == DurableSummaries(Report(run))
============================================================================

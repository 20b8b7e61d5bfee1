--------------------------- MODULE TracingImport ---------------------------
(***************************************************************************)
(* Conversion of completed span records into a Run                         *)
(* (tailtriage-tracing/src/lib.rs), on top of Normalization.  A SpanRecord *)
(* is abstracted to                                                        *)
(*                                                                         *)
(*   kind   tt.kind: "request", "stage", "queue", another string           *)
(*          ("unknown"), not a string ("malformed"), absent although other *)
(*          tt.* fields are there ("missing"), or no tt.* field at all     *)
(*          ("foreign");                                                   *)
(*   id     tt.request_id: an id, or why it is none (BadStrings);          *)
(*   name   tt.route, tt.stage or tt.queue, by kind, likewise;             *)
(*   opt    the optional field of the kind, as a value of OptionalValues;  *)
(*   ws, wf the wall-clock bounds in milliseconds;                         *)
(*   s, e   the run-relative offsets and dur the duration, in              *)
(*          microseconds (NoOffset when absent).                           *)
(*                                                                         *)
(* An import returns a record [error, run, sources, ...]: error is "none", or  *)
(* why there is no run.  A conversion message names the source index of    *)
(* its span; only the number of the import warnings is kept.               *)
(***************************************************************************)
EXTENDS RunValidation, SequencesExt

CONSTANTS Limits,        \* resolved capture limits, by section
          MaxWarnings,   \* MAX_IMPORT_WARNINGS
          UsPerMs        \* 1000

ASSUME ImportAssumption ==
    /\ Limits \in [EventSections -> Nat]
    /\ MaxWarnings \in Nat \ {0} /\ UsPerMs \in Nat \ {0}

BadStrings == {"absent", "blank", "not_string"}

OptionalValues == {"absent", "text", "blank", "true_text", "bool", "nat", "negative"}

SectionOf == [request |-> "requests", stage |-> "stages", queue |-> "queues"]

----------------------------------------------------------------------------
(* One span.                                                               *)

\* SpanKind::parse
KnownKind(span) == span.kind \in DOMAIN SectionOf

\* parse_outcome, parse_success and parse_depth_at_start.
OptionalValid(span) ==
    span.opt \in CASE span.kind = "request" -> {"absent", "text", "true_text"}
                   [] span.kind = "stage"   -> {"absent", "true_text", "bool"}
                   [] OTHER                 -> {"absent", "nat"}

\* A message that is raised on a condition.
Raised(condition, message) == IF condition THEN <<message>> ELSE <<>>

\* required_string of the id, then of the name.
RequiredBad(span) == Raised(span.id \in BadStrings, "id") \o Raised(span.name \in BadStrings, "name")

\* What the conversion loop says of a span: the messages in the order they
\* are raised.  The first one is the error of a strict import.
Violations(span) ==
    IF span.kind = "foreign" THEN <<>>
    ELSE IF ~KnownKind(span) THEN <<"kind">>
    ELSE IF span.wf < span.ws THEN <<"inverted">>
    ELSE IF RequiredBad(span) # <<>> THEN RequiredBad(span)
    ELSE Raised(~OptionalValid(span), "optional")

Accepted(span) == KnownKind(span) /\ Violations(span) = <<>>

\* elapsed_duration_us: explicit, else run-relative when it is no negative
\* amount, else the wall clock's.
ElapsedDuration(span) ==
    IF span.dur # NoOffset THEN span.dur
    ELSE IF Precise(span) /\ span.e >= span.s THEN span.e - span.s
    ELSE (span.wf - span.ws) * UsPerMs

\* RequestEvent, StageEvent or QueueEvent of an accepted span.  Its shape is
\* always sound: blank strings and inverted wall-clock times were refused.
EventOf(span) ==
    [id |-> span.id, shape |-> "ok", s |-> span.s, e |-> span.e,
     dur |-> ElapsedDuration(span), ws |-> span.ws, wf |-> span.wf]

----------------------------------------------------------------------------
(* All spans: each section keeps the first accepted ones up to its limit.  *)

SourceIndices(spans, section) ==
    AtIndices([i \in 1..Len(spans) |-> i],
              {i \in 1..Len(spans) : Accepted(spans[i]) /\ SectionOf[spans[i].kind] = section})

\* CandidateProvenance: the source index of each candidate of a section.
Provenance(spans, section) ==
    LET Kept(all) ==
            SubSeq(all, 1, IF Len(all) > Limits[section] THEN Limits[section] ELSE Len(all))
    IN  Kept(SourceIndices(spans, section))

DroppedAtLimit(spans, section) ==
    Len(SourceIndices(spans, section)) - Len(Provenance(spans, section))

CandidateEvents(spans, section) ==
    LET Events(sources) == [k \in DOMAIN sources |-> EventOf(spans[sources[k]])]
    IN  Events(Provenance(spans, section))

CandidateRun(spans) ==
    [requests |-> CandidateEvents(spans, "requests"),
     stages   |-> CandidateEvents(spans, "stages"),
     queues   |-> CandidateEvents(spans, "queues"),
     inflight |-> <<>>, runtime |-> <<>>, finalized |-> "ok", meta |-> {}]

\* Mutant: the join looks at the input index only, not at the section.
Bug_JoinByIndex(spans, run, report) ==
    LET First(i) == CHOOSE sec \in EventSections : i \in DOMAIN Provenance(spans, sec)
    IN  UNION {{Provenance(spans, First(i))[i] :
                   i \in {k \in DOMAIN run[sec] : ~Excluded(report, sec, k)}} :
                      sec \in EventSections}

\* SourceOutcomes::from_normalized and retained_sources: the sources of the
\* retained dispositions, in source order.
JoinSources(spans, run, report) ==
    UNION {{Provenance(spans, sec)[i] :
               i \in {k \in DOMAIN run[sec] : ~Excluded(report, sec, k)}} : sec \in EventSections}

RetainedIndices(spans) == JoinSources(spans, CandidateRun(spans), Report(CandidateRun(spans)))

RetainedSources(spans) == AtIndices(spans, RetainedIndices(spans))

----------------------------------------------------------------------------
(* Metadata and warnings.                                                  *)

EventSet(run) ==
    UNION {{run[sec][i] : i \in DOMAIN run[sec]} : sec \in EventSections}

\* refresh_normalized_metadata_bounds: the run's start and end are those of
\* the evidence it retained; <<>> stands for the current time, without any.
MetadataBounds(evs) ==
    IF evs = {} THEN <<>> ELSE <<Min({ev.ws : ev \in evs}), Max({ev.wf : ev \in evs})>>

Messages(i, said) == [k \in DOMAIN said |-> [source |-> i, what |-> said[k]]]

Defaulted(spans, section) ==
    \E k \in DOMAIN Provenance(spans, section) :
        spans[Provenance(spans, section)[k]].opt = "absent"

\* The messages of the loop, then one each for defaulted outcomes and
\* successes.
ConversionWarnings(spans) ==
    FlattenSeq([i \in 1..Len(spans) |-> Messages(i, Violations(spans[i]))])
    \o Raised(Defaulted(spans, "requests"), [source |-> 0, what |-> "requests"])
    \o Raised(Defaulted(spans, "stages"), [source |-> 0, what |-> "stages"])

\* push_import_warning
CappedWarnings(n) == IF n > MaxWarnings THEN MaxWarnings ELSE n

\* attach_durable_conversion_warnings, then core's summaries, which the cap
\* does not touch.
LifecycleWarnings(ws, candidates) ==
    {ws[k] : k \in 1..CappedWarnings(Len(ws))} \cup LifecycleSummary(candidates)

----------------------------------------------------------------------------
(* run_from_span_records.                                                  *)

\* A strict import ends at the first span that the loop has a message for.
HasViolation(spans) == \E k \in DOMAIN spans : Violations(spans[k]) # <<>>

Failed(why) == [error |-> why]

ImportedOf(spans, candidates, run, ws) ==
    [error     |-> "none",
     run       |-> run,
     bounds    |-> MetadataBounds(EventSet(run)),
     lifecycle |-> LifecycleWarnings(ws, candidates),
     warnings  |-> CappedWarnings(Len(ws) + Cardinality(AnalyzerSummary(candidates))),
     dropped   |-> [sec \in EventSections |-> DroppedAtLimit(spans, sec)],
     limitsHit |-> \E sec \in EventSections : DroppedAtLimit(spans, sec) > 0,
     sources   |-> RetainedSources(spans)]

Imported(spans) ==
    ImportedOf(spans, CandidateRun(spans), NormalizeRun(CandidateRun(spans)),
               ConversionWarnings(spans))

RunFromSpanRecords(spans, strict) ==
    IF strict /\ HasViolation(spans) THEN Failed("strict")
    ELSE IF strict /\ ~ValidateStrict(CandidateRun(spans)) THEN Failed("strict")
    ELSE Imported(spans)
============================================================================

----------------------------- MODULE Analyzer -----------------------------
(***************************************************************************)
(* analyze_run: a validated set of options and a run to a report           *)
(* (tailtriage-analyzer/src/lib.rs, evidence.rs, confidence.rs,            *)
(* slicing.rs, route.rs, temporal.rs, ratio.rs).  Warnings and limitations *)
(* are tags in the order of the code; numbers inside their text are left   *)
(* out.  Report, route breakdowns and temporal segments share one record.  *)
(***************************************************************************)
EXTENDS Scoring

\* A conditional push.
Tag(condition, tag) == IF condition THEN <<tag>> ELSE <<>>

\* push_unique / stable_dedup: the first of equal values stays.
Dedup(seq) ==
    FoldLeft(LAMBDA acc, x : IF Contains(acc, x) THEN acc ELSE Append(acc, x), <<>>, seq)

DropTotal(run) == run.dropped.requests + run.dropped.stages + run.dropped.queues
                  + run.dropped.inflight + run.dropped.runtime
Truncated(run) == run.limitsHit \/ DropTotal(run) > 0

\* All snapshots lack the field.
AllMissing(run, field) == \A i \in DOMAIN run.runtime : run.runtime[i][field] = None

----------------------------------------------------------------------------
(* evidence.rs                                                             *)

FamilyStatus(total, partial, dropped) ==
    IF dropped > 0 THEN "truncated" ELSE IF total = 0 THEN "missing"
    ELSE IF partial > 0 THEN "partial" ELSE "present"

RequestStatus(run, o) ==
    IF run.requests = <<>> THEN "missing" ELSE IF run.dropped.requests > 0 THEN "truncated"
    ELSE IF Len(run.requests) < o.evidence.low_completed_request_threshold THEN "partial"
    ELSE "present"

RuntimeStatus(run) ==
    FamilyStatus(Len(run.runtime),
                 IF \E f \in {"blocking", "local", "global"} : AllMissing(run, f) THEN 1 ELSE 0,
                 run.dropped.runtime)

LowCount(run, o) == Len(run.requests) < o.evidence.low_completed_request_threshold

Limitations(run, queues, stages, runtime, o) ==
    Tag(HasPartial(run), "partial_evidence")
    \o Tag(LowCount(run, o), "low_count")
    \o Tag({queues, stages} \subseteq {"missing", "truncated"}, "no_queue_or_stage")
    \o Tag(run.runtime = <<>>, "no_runtime")
    \o Tag(run.runtime # <<>> /\ runtime = "partial", "runtime_fields_missing")
    \o Tag(Truncated(run), "truncated")

QualityOf(run, queues, stages, runtime, inflight, o) ==
    LET explanatory == run.queues # <<>> \/ run.stages # <<>> \/ run.runtime # <<>>
    IN  [requests |-> RequestStatus(run, o), queues |-> queues, stages |-> stages,
         runtime |-> runtime, inflight |-> inflight,
         runtimeCount |-> Len(run.runtime), inflightCount |-> Len(run.inflight),
         truncated |-> Truncated(run),
         limitations |-> Limitations(run, queues, stages, runtime, o),
         quality |->
            IF run.requests = <<>> \/ LowCount(run, o) \/ run.dropped.requests > 0 \/ ~explanatory
            THEN "weak"
            ELSE IF \/ "truncated" \in {queues, stages, runtime, inflight}
                    \/ run.queues = <<>> /\ run.stages = <<>>
                    \/ runtime = "partial" \/ HasPartial(run)
            THEN "partial" ELSE "strong"]

EvidenceQuality(run, o) ==
    QualityOf(run,
              FamilyStatus(Len(run.queues), PartialCount(run.queues), run.dropped.queues),
              FamilyStatus(Len(run.stages), PartialCount(run.stages), run.dropped.stages),
              RuntimeStatus(run),
              FamilyStatus(Len(run.inflight), 0, run.dropped.inflight), o)

TruncationWarnings(run) ==
    Tag(Truncated(run), "limits_hit")
    \o Tag(run.dropped.requests > 0, "dropped_requests")
    \o Tag(run.dropped.stages > 0, "dropped_stages")
    \o Tag(run.dropped.queues > 0, "dropped_queues")
    \o Tag(run.dropped.inflight > 0, "dropped_inflight")
    \o Tag(run.dropped.runtime > 0, "dropped_runtime")

----------------------------------------------------------------------------
(* confidence.rs.  A cap is a pair <<level, note>>; the note "" is silent. *)

\* apply_family_evidence_caps
FamilyCaps(s, run) ==
    LET MediumIf(condition, note) == IF condition THEN {<<Medium, note>>} ELSE {}
        partialKeys == \E f \in {"blocking", "local", "global"} : AllMissing(run, f)
    IN  CASE s.kind = Queueing ->
               MediumIf(s.basis = LowerBound, "partial_queue")
               \cup MediumIf(run.dropped.queues > 0, "truncation")
               \cup MediumIf(run.queues = <<>>, "no_queues")
          [] s.kind = Downstream ->
               MediumIf(s.basis = LowerBound, "partial_stage")
               \cup MediumIf(run.dropped.stages > 0, "truncation")
               \cup MediumIf(run.stages = <<>>, "no_stages")
          [] s.kind \in {Blocking, Executor} ->
               MediumIf(run.dropped.runtime > 0, "truncation")
               \cup MediumIf(run.runtime = <<>>, "no_runtime")
               \cup MediumIf(run.runtime # <<>> /\ partialKeys, "runtime_partial")
          [] OTHER -> {}

\* current_ambiguity_cluster_indices: the suspects close to the top score.
AmbiguityCluster(suspects, o) ==
    LET Cluster(close) == IF Cardinality(close) >= 2 THEN close ELSE {}
        Close(ranked, top) ==
            {i \in ranked : /\ suspects[i].score >= o.confidence.ambiguity_min_score
                            /\ top - suspects[i].score <= o.confidence.ambiguity_score_gap}
        Of(ranked) == IF ranked = {} THEN {}
                      ELSE Cluster(Close(ranked, Max({suspects[i].score : i \in ranked})))
    IN  Of({i \in DOMAIN suspects : suspects[i].kind # Insufficient})

\* Mutant: a truncated family does not limit confidence.
Bug_NoFamilyCaps(s, ambiguous, run, quality, o) ==
    IF s.kind # Insufficient /\ quality = "weak" THEN {<<Medium, "">>} ELSE {}

Caps(s, ambiguous, run, quality, o) ==
    LET real == s.kind # Insufficient
        If(condition, level, note) == IF condition THEN {<<level, note>>} ELSE {}
    IN  If(real /\ quality = "weak", Medium, "")
        \cup If(real /\ run.requests = <<>>, Low, "low_count")
        \cup If(real /\ run.requests # <<>> /\ LowCount(run, o), Medium, "low_count")
        \cup If(real /\ run.dropped.requests > 0, Medium, "truncation")
        \cup FamilyCaps(s, run)
        \cup If(s.limitation # "none", Medium, s.limitation)
        \cup If(real /\ ambiguous, Medium, "ambiguity")

\* apply_evidence_aware_confidence_caps_scored
CapSuspect(s, uncapped, caps) ==
    LET confidence == Min({uncapped} \cup {c[1] : c \in caps})
        notes == {c[2] : c \in caps} \ {""}
    IN  [s EXCEPT !.confidence = confidence,
                  !.notes = IF \/ confidence # uncapped
                               \/ notes \cap {"ambiguity", "partial_queue", "partial_stage"} # {}
                               \/ s.limitation # "none"
                            THEN notes ELSE {}]

CapConfidence(suspects, run, quality, o) ==
    [i \in DOMAIN suspects |->
        CapSuspect(suspects[i], FromScore(suspects[i].score, o),
                   Caps(suspects[i], i \in AmbiguityCluster(suspects, o), run, quality, o))]

----------------------------------------------------------------------------
(* Ranking and warnings (lib.rs).                                          *)

KindRank(kind) ==
    CASE kind = Queueing -> 0 [] kind = Blocking -> 1 [] kind = Executor -> 2
      [] kind = Downstream -> 3 [] OTHER -> 255

\* final_suspect_order, as the key it sorts by.
RankKey(s) ==
    <<IF s.kind = Insufficient THEN 1 ELSE 0, -s.confidence, -s.score, KindRank(s.kind)>>

\* finalize_scored_suspects
Ranked(suspects, run, quality, o) ==
    SortSeq(CapConfidence(suspects, run, quality, o),
            LAMBDA x, y : LexLess(RankKey(x), RankKey(y)))

\* ambiguity_warning
Ambiguous(suspects, o) ==
    LET Close(ranked) ==
            /\ Len(ranked) >= 2
            /\ ranked[1].score >= o.confidence.ambiguity_min_score
            /\ ranked[2].score >= o.confidence.ambiguity_min_score
            /\ ranked[1].score - ranked[2].score <= o.confidence.ambiguity_score_gap
    IN  Close(SortSeq(SelectSeq(suspects, LAMBDA s : s.kind # Insufficient),
                      LAMBDA x, y : x.score > y.score))

\* analysis_warnings
AnalysisWarnings(run, suspects, o) ==
    LET primary == suspects[1]
        runtimeRelevant == \E i \in DOMAIN suspects : suspects[i].kind \in {Blocking, Executor}
        strongOther == /\ primary.kind \in {Queueing, Downstream}
                       /\ primary.score >= o.confidence.high_score_threshold
    IN  TruncationWarnings(run)
        \o Tag(LowCount(run, o), "low_count")
        \o Tag(run.queues = <<>> /\ primary.kind = Queueing, "no_queues")
        \o Tag(run.stages = <<>> /\ primary.kind = Downstream, "no_stages")
        \o Tag(run.runtime = <<>> /\ ~strongOther, "no_runtime")
        \o Tag(/\ run.runtime # <<>> /\ runtimeRelevant
               /\ AllMissing(run, "blocking") \/ AllMissing(run, "local"), "runtime_fields")
        \o Tag(Ambiguous(suspects, o), "ambiguous")

\* analyze_run_internal; breakdowns and segments stay without their own.
ReportOf(run, evidence, trend, suspects, o) ==
    [requestIds |-> {run.requests[i].id : i \in DOMAIN run.requests},
     p50 |-> Percentile(Latencies(run), 50),
     p95 |-> Percentile(Latencies(run), 95),
     p99 |-> Percentile(Latencies(run), 99),
     queueShare |-> Percentile(QueueShares(run, Completed), 95),
     serviceShare |-> Percentile(ServiceShares(run), 95),
     trend |-> trend, evidence |-> evidence, suspects |-> suspects,
     warnings |-> AnalysisWarnings(run, suspects, o),
     routes |-> <<>>, segments |-> <<>>, config |-> {}]

Diagnose(run, workers, evidence, trend, o) ==
    ReportOf(run, evidence, trend,
             Ranked(Candidates(run, workers, trend, BlockingSignal(run), o),
                    run, evidence.quality, o), o)

AnalyzeInternal(run, workers, o) ==
    Diagnose(run, workers, EvidenceQuality(run, o), DominantTrend(run.inflight), o)

----------------------------------------------------------------------------
(* Slices (slicing.rs).                                                    *)

\* retain_sample: run-relative when both sides have it, else wall clock.
InWindow(sample, w) ==
    IF w.relative # <<>> /\ sample.us # None
    THEN w.relative[1] <= sample.us /\ sample.us <= w.relative[2]
    ELSE w.unix[1] <= sample.ms /\ sample.ms <= w.unix[2]

UsedUnix(sample, w) == InWindow(sample, w) /\ w.relative # <<>> /\ sample.us = None

NoWindow == [unix |-> <<>>, relative |-> <<>>]

\* Mutant: the slice keeps the run's requests and selects only their children.
Bug_SliceAllRequests(canonical, original, ids, w) ==
    LET Mine(ev) == ev.id \in ids
        Samples(seq) == IF w = NoWindow THEN <<>> ELSE SelectSeq(seq, LAMBDA s : InWindow(s, w))
    IN  [canonical EXCEPT !.stages = SelectSeq(@, Mine), !.queues = SelectSeq(@, Mine),
                          !.runtime = Samples(original.runtime),
                          !.inflight = Samples(original.inflight)]

\* slice_run: the requests and their children; global samples by window, or
\* none of them.
Slice(canonical, original, ids, w) ==
    LET Mine(ev) == ev.id \in ids
        Samples(seq) == IF w = NoWindow THEN <<>> ELSE SelectSeq(seq, LAMBDA s : InWindow(s, w))
    IN  [canonical EXCEPT !.requests = SelectSeq(@, Mine), !.stages = SelectSeq(@, Mine),
                          !.queues = SelectSeq(@, Mine),
                          !.runtime = Samples(original.runtime),
                          !.inflight = Samples(original.inflight)]

\* analyze_slice
AnalyzeSliced(sliced, w, o) ==
    AnalyzeInternal(Normalized(sliced),
                    IF w = NoWindow THEN "none" ELSE WorkerEvidence(sliced.runtime), o)

AnalyzeSlice(canonical, original, ids, w, o) ==
    AnalyzeSliced(Slice(canonical, original, ids, w), w, o)

----------------------------------------------------------------------------
(* Route breakdowns (route.rs, ratio.rs).                                  *)

MeetsRatio(higher, lower, num, den) == lower > 0 /\ higher * den >= lower * num

Divergent(reports) == Cardinality({reports[i].suspects[1].kind : i \in DOMAIN reports}) >= 2

\* should_emit_route_breakdowns
EmitRoutes(p95Global, reports, o) ==
    LET p95s == {reports[i].p95 : i \in DOMAIN reports} \ {None}
    IN  \/ Divergent(reports) /\ o.route.emit_on_divergent_suspects
        \/ /\ Len(SelectSeq(reports, LAMBDA r : r.p95 # None)) >= 2
           /\ \/ MeetsRatio(Max(p95s), Min(p95s), o.route.slowest_to_fastest_p95_ratio_numerator,
                            o.route.slowest_to_fastest_p95_ratio_denominator)
              \/ /\ p95Global # None
                 /\ MeetsRatio(Max(p95s), p95Global,
                               o.route.slowest_to_global_p95_ratio_numerator,
                               o.route.slowest_to_global_p95_ratio_denominator)

\* route_breakdowns: a record of the emitted breakdowns and whether to warn.
RouteIds(run, route) ==
    {run.requests[i].id : i \in {k \in DOMAIN run.requests : run.requests[k].route = route}}

Breakdown(run, route, omitted, o) ==
    [AnalyzeSlice(run, run, RouteIds(run, route), NoWindow, o) EXCEPT
        !.warnings = @ \o <<"route_runtime">> \o Tag(omitted, "routes_omitted")]
    @@ [route |-> route]

NoBreakdowns == [breakdowns |-> <<>>, warn |-> FALSE]

\* The slowest routes first, then the busiest, then by name.
RouteKey(b) == <<-b.p95, -Cardinality(b.requestIds), b.route>>

Emitted(breakdowns, o) ==
    [breakdowns |-> breakdowns,
     warn |-> o.route.emit_on_divergent_suspects /\ Divergent(breakdowns)]

EmitOrdered(ordered, p95Global, o) ==
    IF ~EmitRoutes(p95Global, ordered, o) THEN NoBreakdowns
    ELSE Emitted(SubSeq(ordered, 1, Smaller(Len(ordered), o.route.breakdown_limit)), o)

Routes(run, p95Global, o) ==
    LET routes == {run.requests[i].route : i \in DOMAIN run.requests}
        eligible == {r \in routes : Cardinality(RouteIds(run, r)) >= o.route.min_request_count}
    IN  IF Cardinality(eligible) < 2 THEN NoBreakdowns
        ELSE EmitOrdered(
                 SortSeq(SetToSeq({Breakdown(run, r, eligible # routes, o) : r \in eligible}),
                         LAMBDA x, y : LexLess(RouteKey(x), RouteKey(y))),
                 p95Global, o)

----------------------------------------------------------------------------
(* Temporal segments (temporal.rs).                                        *)

Chronological(requests) ==
    LET relative == \A i \in DOMAIN requests : requests[i].s # None
        Key(r) == IF relative THEN <<r.s, r.ms, r.id>> ELSE <<r.ms, r.id>>
    IN  SortSeq(requests, LAMBDA x, y : LexLess(Key(x), Key(y)))

\* segment_unix_window, segment_run_relative_window
Window(requests) ==
    LET Least(F(_)) == Min(ToSet(Map(F, requests)))
        Greatest(F(_)) == Max(ToSet(Map(F, requests)))
    IN  [unix |-> <<Least(LAMBDA r : r.ms), Greatest(LAMBDA r : r.msEnd)>>,
         relative |-> IF \A i \in DOMAIN requests : Precise(requests[i])
                      THEN <<Least(LAMBDA r : r.s), Greatest(LAMBDA r : r.e)>> ELSE <<>>]

Sparse(report) == report.evidence.runtime # "present" \/ report.evidence.inflight # "present"
RuntimeKind(report) == report.suspects[1].kind \in {Executor, Blocking}

WallClockFallback(original, w) ==
    \/ w.relative = <<>>
    \/ \E i \in DOMAIN original.runtime : UsedUnix(original.runtime[i], w)
    \/ \E i \in DOMAIN original.inflight : UsedUnix(original.inflight[i], w)

WarnSegment(report, original, w) ==
    [report EXCEPT !.warnings =
        @ \o Tag(WallClockFallback(original, w), "wall_clock_fallback")
          \o Tag(RuntimeKind(report) /\ Sparse(report), "sparse_runtime")]
    @@ [unix |-> w.unix]

SegmentIn(canonical, original, ids, w, o) ==
    WarnSegment(AnalyzeSlice(canonical, original, ids, w, o), original, w)

Segment(canonical, original, requests, o) ==
    SegmentIn(canonical, original, {requests[i].id : i \in DOMAIN requests}, Window(requests), o)

Shifted(x, y, o) == x # None /\ y # None /\ AbsDiff(x, y) >= o.temporal.share_shift_permille

\* has_material_p95_shift
P95Shift(early, late, o) ==
    /\ early.p95 # None /\ late.p95 # None
    /\ MeetsRatio(Larger(early.p95, late.p95), Smaller(early.p95, late.p95),
                  o.temporal.p95_shift_ratio_numerator, o.temporal.p95_shift_ratio_denominator)

\* has_material_suspect_shift: sparse runtime evidence alone does not make a
\* runtime suspect appear or vanish.
SuspectShift(early, late, moved, o) ==
    /\ early.suspects[1].kind # late.suspects[1].kind
    /\ \/ ~o.temporal.suppress_runtime_sparse_suspect_shift_without_supporting_movement
       \/ ~(Sparse(early) \/ Sparse(late))
       \/ ~(RuntimeKind(early) \/ RuntimeKind(late))
       \/ moved

\* apply_temporal_overlap_attribution_warning
Overlapping(early, late) ==
    /\ early.unix[2] >= late.unix[1]
    /\ early.evidence.runtimeCount + early.evidence.inflightCount
       + late.evidence.runtimeCount + late.evidence.inflightCount > 0

\* temporal_segments: a record of the segments and the global warnings.
NoSegments == [segments |-> <<>>, warnings |-> <<>>]

Moved(early, late, o) ==
    \/ P95Shift(early, late, o)
    \/ Shifted(early.queueShare, late.queueShare, o)
    \/ Shifted(early.serviceShare, late.serviceShare, o)

Compared(early, late, o) ==
    LET suspectShift == /\ o.temporal.emit_on_suspect_shift
                        /\ SuspectShift(early, late, Moved(early, late, o), o)
        Warned(segment) ==
            [segment EXCEPT !.warnings = @ \o Tag(Overlapping(early, late), "overlap")]
    IN  IF ~Moved(early, late, o) /\ ~suspectShift THEN NoSegments
        ELSE [segments |-> <<Warned(early), Warned(late)>>,
              warnings |-> Tag(suspectShift, "suspect_shift")
                           \o Tag(P95Shift(early, late, o), "p95_shift")]

Halves(canonical, original, requests, split, o) ==
    IF \/ Len(requests) < o.temporal.min_request_count
       \/ split < o.temporal.min_segment_request_count
       \/ Len(requests) - split < o.temporal.min_segment_request_count
    THEN NoSegments
    ELSE Compared(Segment(canonical, original, SubSeq(requests, 1, split), o),
                  Segment(canonical, original, SubSeq(requests, split + 1, Len(requests)), o), o)

Temporal(canonical, original, o) ==
    Halves(canonical, original, Chronological(canonical.requests),
           Len(canonical.requests) \div 2, o)

----------------------------------------------------------------------------
\* analyze_run: what validation, routes and segments add to the report.
Finish(report, partial, invalid, routes, temporal, o) ==
    [report EXCEPT
        !.warnings = Dedup(Tag(invalid, "validation") \o @
                           \o Tag(partial, "partial_lower_bounds")
                           \o Tag(routes.warn, "route_divergence") \o temporal.warnings),
        !.evidence.limitations = @ \o Tag(invalid, "validation"),
        !.routes = routes.breakdowns, !.segments = temporal.segments,
        !.config = NonDefaultOverrides(o)]

AnalyzeParts(run, canonical, report, o) ==
    Finish(report, HasPartial(canonical), AnalyzerSummary(ValidationView(run)) # {},
           Routes(canonical, report.p95, o), Temporal(canonical, run, o), o)

\* Worker evidence is classified on the run as it was captured.
AnalyzeCanonical(run, canonical, o) ==
    AnalyzeParts(run, canonical, AnalyzeInternal(canonical, WorkerEvidence(run.runtime), o), o)

AnalyzeRun(run, o) == AnalyzeCanonical(run, Normalized(run), o)
============================================================================

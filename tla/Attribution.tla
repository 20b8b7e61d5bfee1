---------------------------- MODULE Attribution ----------------------------
(***************************************************************************)
(* What the analyzer measures in a normalized run: percentiles, the time a *)
(* request spent in overlapping queue or stage events, its shares, the     *)
(* summaries per stage and the trend of in-flight gauges                   *)
(* (tailtriage-analyzer/src/{attribution,stage_attribution,                *)
(* partial_evidence}.rs and the helpers of lib.rs).                        *)
(*                                                                         *)
(* On top of the fields that Normalization names, a request has ms, msEnd  *)
(* (wall clock) and route, a queue depth and completed, a stage name and   *)
(* completed, an in-flight sample gauge, ms, us and count, and a runtime   *)
(* sample ms, us, blocking, local, global, alive and workers.  Absent      *)
(* numbers are None.  Names are numbers, in the order of the names.        *)
(***************************************************************************)
EXTENDS RunValidation, SequencesExt

CONSTANT RateScale    \* milli-counts per second: 1e9 over microseconds

None == -1

Smaller(a, b) == IF a < b THEN a ELSE b
Larger(a, b) == IF a < b THEN b ELSE a
Total(seq) == FoldLeft(LAMBDA x, y : x + y, 0, seq)
Map(F(_), seq) == [i \in DOMAIN seq |-> F(seq[i])]

\* The run as validation sees it, and normalize_run_permissive of it: an
\* invalid worker count of zero is cleared.
ValidationView(run) ==
    [run EXCEPT !.runtime = Map(LAMBDA s : IF s.workers = 0 THEN "zero_workers" ELSE "ok", @)]

Normalized(run) ==
    [NormalizeRun(ValidationView(run)) EXCEPT
        !.runtime = Map(LAMBDA s : [s EXCEPT !.workers = IF @ = 0 THEN None ELSE @], run.runtime)]

\* Lexicographic order of two tuples of numbers.
LexLess(a, b) ==
    \E i \in DOMAIN a : a[i] < b[i] /\ \A j \in 1..(i - 1) : a[j] = b[j]

\* percentile(values, num, 100): the index is rounded up.
Percentile(values, num) ==
    IF values = <<>> THEN None
    ELSE SortSeq(values, <)[Smaller(((Len(values) - 1) * num + 99) \div 100,
                                    Len(values) - 1) + 1]

----------------------------------------------------------------------------
(* attributed_elapsed_duration: the length of the union of the events'     *)
(* intervals, or the sum of their durations when one has no interval; at   *)
(* most the request's latency.                                             *)

\* Mutant: an event inside the merged interval shortens it.
Bug_ScanLastEnd(acc, ev) ==
    IF ev.s <= acc.to THEN [acc EXCEPT !.to = ev.e]
    ELSE [covered |-> acc.covered + (acc.to - acc.from), from |-> ev.s, to |-> ev.e]

Scan(acc, ev) ==
    IF ev.s <= acc.to THEN [acc EXCEPT !.to = Larger(@, ev.e)]
    ELSE [covered |-> acc.covered + (acc.to - acc.from), from |-> ev.s, to |-> ev.e]

Covered(acc) == acc.covered + (acc.to - acc.from)

\* The length of the union of intervals that are sorted by their starts.
MergedLength(sorted) ==
    Covered(FoldLeft(Scan, [covered |-> 0, from |-> sorted[1].s, to |-> sorted[1].s], sorted))

AttributedElapsed(events, cap) ==
    IF events = <<>> THEN 0
    ELSE IF \E i \in DOMAIN events : ~Precise(events[i])
    THEN Smaller(Total(Map(LAMBDA ev : ev.dur, events)), cap)
    ELSE Smaller(MergedLength(SortSeq(events, LAMBDA x, y : LexLess(<<x.s, x.e>>, <<y.s, y.e>>))),
                 cap)

----------------------------------------------------------------------------
(* Two bases of evidence: completed events only, or also the partial ones, *)
(* whose durations are lower bounds.                                       *)

Completed == "completed"
LowerBound == "observed_lower_bound"
Counts(basis, ev) == basis = LowerBound \/ ev.completed

PartialCount(events) == Len(SelectSeq(events, LAMBDA ev : ~ev.completed))
HasPartial(run) == PartialCount(run.queues) + PartialCount(run.stages) > 0

Latencies(run) == Map(LAMBDA r : r.dur, run.requests)

QueueWait(run, r, basis) ==
    AttributedElapsed(SelectSeq(run.queues, LAMBDA q : q.id = r.id /\ Counts(basis, q)), r.dur)

Timed(run) == SelectSeq(run.requests, LAMBDA r : r.dur > 0)

\* request_time_shares, in permille of the request's latency.
QueueShares(run, basis) ==
    Map(LAMBDA r : (QueueWait(run, r, basis) * 1000) \div r.dur, Timed(run))

ServiceShares(run) ==
    Map(LAMBDA r : ((r.dur - QueueWait(run, r, Completed)) * 1000) \div r.dur, Timed(run))

----------------------------------------------------------------------------
(* dual_stage_summaries                                                    *)

Share(part, whole) == IF whole = 0 THEN 0 ELSE (part * 1000) \div whole

StageEvidence(run, stage, basis, r) ==
    SelectSeq(run.stages, LAMBDA ev : ev.name = stage /\ ev.id = r.id /\ Counts(basis, ev))

\* The requests that the stage touched, with the time they spent in it.
StageTimes(run, stage, basis) ==
    SelectSeq(Map(LAMBDA r : [dur |-> r.dur, n |-> Len(StageEvidence(run, stage, basis, r)),
                              spent |-> AttributedElapsed(StageEvidence(run, stage, basis, r), r.dur)],
                  run.requests),
              LAMBDA t : t.n > 0)

\* The part of the durations that the times make up.
TimeShare(times, durations) == Share(Total(Map(LAMBDA t : t.spent, times)), Total(durations))

SummaryOf(stage, basis, times, durations, p95) ==
    [stage |-> stage, basis |-> basis, samples |-> Len(times),
     cumulative |-> TimeShare(times, durations),
     tail |-> TimeShare(SelectSeq(times, LAMBDA t : t.dur >= p95),
                        SelectSeq(durations, LAMBDA d : d >= p95))]

StageSummary(run, stage, basis) ==
    SummaryOf(stage, basis, StageTimes(run, stage, basis), Latencies(run),
              Percentile(Latencies(run), 95))

StageSummaries(run) ==
    {StageSummary(run, run.stages[i].name, basis) :
        i \in DOMAIN run.stages, basis \in {Completed, LowerBound}}

----------------------------------------------------------------------------
(* In-flight trends: the latest episode of activity of each gauge.         *)

Episode(acc, sample) ==
    IF sample.count > 0
    THEN [open |-> TRUE, latest |-> Append(IF acc.open THEN acc.latest ELSE <<>>, sample)]
    ELSE IF acc.open THEN [open |-> FALSE, latest |-> Append(acc.latest, sample)]
    ELSE acc

\* signed_u64_delta and the rate: truncating division, run-relative only.
Quotient(a, b) == IF a >= 0 THEN a \div b ELSE -((-a) \div b)

\* InflightOrdering: run-relative when every sample is, else wall clock.
Relative(samples) == \A i \in DOMAIN samples : samples[i].us # None

\* The sort is stable: samples of one time stay in their order.
Ordered(samples, relative) ==
    LET Key(x) == <<IF relative THEN x.sample.us ELSE x.sample.ms, x.index>>
    IN  Map(LAMBDA x : x.sample,
            SortSeq([i \in DOMAIN samples |-> [sample |-> samples[i], index |-> i]],
                    LAMBDA x, y : LexLess(Key(x), Key(y))))

LatestEpisode(ordered) == FoldLeft(Episode, [open |-> FALSE, latest |-> <<>>], ordered).latest

TrendOf(gauge, latest, counts, relative) ==
    LET delta == counts[Len(counts)] - counts[1]
        elapsed == latest[Len(latest)].us - latest[1].us
        known == Len(counts) >= 2
    IN  IF latest = <<>> THEN [gauge |-> None]
        ELSE [gauge |-> gauge, active |-> counts[Len(counts)] > 0,
              samples |-> Len(counts), known |-> known,
              growth |-> IF known THEN delta ELSE 0,
              rate |-> IF known /\ relative /\ elapsed > 0
                       THEN Quotient(delta * RateScale, elapsed) ELSE None,
              p95 |-> Percentile(counts, 95), peak |-> Max(ToSet(counts))]

InflightTrend(snapshots, gauge) ==
    LET Of(latest, relative) == TrendOf(gauge, latest, Map(LAMBDA x : x.count, latest), relative)
        Trend(mine) == Of(LatestEpisode(Ordered(mine, Relative(mine))), Relative(mine))
    IN  Trend(SelectSeq(snapshots, LAMBDA x : x.gauge = gauge))

KnownPositiveGrowth(trend) == trend.gauge # None /\ trend.known /\ trend.growth > 0

\* compare_inflight_candidates, as the key it compares by.
Dominance(t) ==
    LET grows == KnownPositiveGrowth(t)
    IN  <<IF t.active THEN 1 ELSE 0, IF grows THEN 1 ELSE 0, IF grows THEN t.growth ELSE 0,
          IF grows THEN Larger(t.rate, 0) ELSE 0, t.p95, t.peak, -t.gauge>>

\* dominant_inflight_candidate
Dominant(trends) ==
    IF trends = {} THEN [gauge |-> None]
    ELSE CHOOSE t \in trends : \A u \in trends \ {t} : LexLess(Dominance(u), Dominance(t))

DominantTrend(snapshots) ==
    Dominant({t \in {InflightTrend(snapshots, snapshots[i].gauge) : i \in DOMAIN snapshots} :
                 t.gauge # None})
============================================================================

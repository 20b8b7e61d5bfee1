------------------------------ MODULE Scoring ------------------------------
(***************************************************************************)
(* The four families of suspects and their scores                          *)
(* (tailtriage-analyzer/src/scoring.rs, candidate.rs).  A suspect is a     *)
(* record; NoSuspect stands for a family that has none.  The wording of    *)
(* evidence and next checks is left out, except the statement that a stage *)
(* mirrors the blocking pool (the field correlated).                       *)
(***************************************************************************)
EXTENDS Attribution, AnalyzerOptions

CONSTANT PatternMatches    \* pairs <<stage name, pattern it contains>>

Queueing == "application_queue_pressure"
Blocking == "blocking_pool_pressure"
Executor == "executor_pressure"
Downstream == "downstream_stage_dominance"
Insufficient == "insufficient_evidence"

NoSuspect == [kind |-> "none"]

\* Confidence::from_score_with_options, ordered Low < Medium < High.
Low == 1
Medium == 2
High == 3
FromScore(score, o) ==
    IF score >= o.confidence.high_score_threshold THEN High
    ELSE IF score >= o.confidence.medium_score_threshold THEN Medium
    ELSE Low

Suspect(kind, score, basis, limitation, correlated, o) ==
    [kind |-> kind, score |-> score, confidence |-> FromScore(score, o), basis |-> basis,
     limitation |-> limitation, correlated |-> correlated, notes |-> {}]

SampleQuality(n) ==
    IF n >= 100 THEN 8 ELSE IF n >= 40 THEN 5 ELSE IF n >= 20 THEN 3 ELSE IF n >= 8 THEN 1 ELSE 0

\* cap_unless_clean_evidence
Capped(score, clean, softCap) == Smaller(IF clean THEN score ELSE Smaller(score, softCap), 100)

Present(seq) == SelectSeq(seq, LAMBDA v : v # None)
MaxOrZero(seq) == IF seq = <<>> THEN 0 ELSE Max(ToSet(seq))

----------------------------------------------------------------------------
(* Application queue pressure.                                             *)

QueueScore(p95, depth, samples, grows) ==
    Capped(22 + (Smaller(p95, 1000) \div 14) + (Smaller(depth, 40) * 2) \div 3
              + (IF grows THEN 5 ELSE 0) + SampleQuality(samples),
           p95 >= 985 /\ depth >= 12 /\ samples >= 20 /\ grows, 95)

\* queue_measurement: the deepest queue that counts.
QueueDepth(run, basis) ==
    MaxOrZero(Present(Map(LAMBDA q : q.depth,
                          SelectSeq(run.queues, LAMBDA q : Counts(basis, q)))))

QueueCandidate(run, basis, trend, o) ==
    LET Measured(samples, p95) ==
            IF samples = 0 \/ p95 < o.queueing.trigger_permille THEN NoSuspect
            ELSE Suspect(Queueing, QueueScore(p95, QueueDepth(run, basis), samples,
                                              KnownPositiveGrowth(trend)),
                         basis, "none", FALSE, o)
        Shared(shares) == Measured(Len(shares), Percentile(shares, 95))
    IN  Shared(QueueShares(run, basis))

\* QueueRepresentations::select: the lower bound only when it scores higher.
Select(completed, observed) ==
    IF completed = NoSuspect THEN observed
    ELSE IF observed # NoSuspect /\ observed.score > completed.score THEN observed
    ELSE completed

\* queue_saturation_suspect
QueueSuspect(run, trend, o) ==
    Select(QueueCandidate(run, Completed, trend, o), QueueCandidate(run, LowerBound, trend, o))

----------------------------------------------------------------------------
(* Blocking pool pressure.                                                 *)

SignalOf(depths) ==
    LET nonzero == Len(SelectSeq(depths, LAMBDA d : d > 0))
    IN  [p95 |-> Percentile(depths, 95), peak |-> MaxOrZero(depths), nonzero |-> nonzero,
         usable |-> Len(depths),
         share |-> IF depths = <<>> THEN 0 ELSE (nonzero * 1000) \div Len(depths)]

BlockingSignal(run) == SignalOf(Present(Map(LAMBDA s : s.blocking, run.runtime)))

\* eligible_blocking_measurement
BlockingEligible(signal, o) ==
    /\ signal.usable > 0
    /\ signal.p95 > 0 \/ signal.nonzero >= o.blocking.min_nonzero_samples_for_signal

BlockingScore(signal) ==
    Capped(32 + Smaller(signal.p95, 24) + Smaller(signal.peak, 24) \div 2 + signal.share \div 80
               + SampleQuality(signal.usable),
           signal.p95 >= 16 /\ signal.peak >= 24 /\ signal.share >= 900, 94)

BlockingSuspect(signal, o) ==
    IF ~BlockingEligible(signal, o) THEN NoSuspect
    ELSE Suspect(Blocking, BlockingScore(signal), Completed, "none", FALSE, o)

StrongBlocking(signal, o) ==
    /\ signal.p95 >= o.blocking.strong_p95_threshold
    /\ signal.peak >= o.blocking.strong_peak_threshold
    /\ signal.share >= o.blocking.strong_nonzero_share_permille
    /\ signal.usable >= o.blocking.strong_min_samples

----------------------------------------------------------------------------
(* Executor pressure.                                                      *)

\* classify_worker_evidence, over the snapshots with a global queue depth.
WorkerEvidence(runtime) ==
    LET relevant == SelectSeq(runtime, LAMBDA s : s.global # None)
        counts == {relevant[i].workers : i \in DOMAIN relevant}
    IN  CASE relevant = <<>>                          -> "none"
          [] relevant # <<>> /\ 0 \in counts          -> "invalid_zero"
          [] counts = {None}                          -> "historical_absent"
          [] 0 \notin counts /\ None \in counts /\ Cardinality(counts) = 2 -> "partial"
          [] 0 \notin counts /\ None \notin counts /\ Cardinality(counts) = 1 -> "complete"
          [] OTHER                                    -> "inconsistent"

NormalizedContribution(p95) ==
    IF p95 < 500 THEN 0 ELSE IF p95 < 1000 THEN 5 ELSE IF p95 < 2000 THEN 15
    ELSE IF p95 < 4000 THEN 25 ELSE IF p95 < 8000 THEN 40 ELSE 55

\* All snapshots have a worker count: the queues are taken per worker.
NormalizedExecutor(sampled, p95, growth, o) ==
    IF p95 < o.executor.min_runnable_queue_per_worker_p95_milli_for_signal THEN NoSuspect
    ELSE Suspect(Executor,
                 Smaller(34 + NormalizedContribution(p95) + growth + SampleQuality(Len(sampled)), 100),
                 Completed,
                 IF \E i \in DOMAIN sampled : sampled[i].local = None
                 THEN "missing_local_depth" ELSE "none", FALSE, o)

PerWorker(sampled) ==
    Map(LAMBDA s : ((s.global + Larger(s.local, 0)) * 1000) \div s.workers, sampled)

\* Otherwise absolute depths are scored.
LegacyExecutor(p95, samples, local, alive, growth, workers, o) ==
    IF p95 < o.executor.min_global_queue_p95_for_signal THEN NoSuspect
    ELSE Suspect(Executor,
                 Capped(34 + Smaller(p95, 150) \div 4 + Smaller(Larger(local, 0), 60) \div 6
                        + Smaller(Larger(alive, 0), 400) \div 40 + growth + SampleQuality(samples),
                        p95 >= 140 /\ samples >= 30, 94),
                 Completed,
                 IF workers = "historical_absent" THEN "none" ELSE "ambiguous_workers", FALSE, o)

\* workers: the status of the raw run or slice, before normalization.
ExecutorSuspect(run, workers, trend, o) ==
    LET P95(values) == Percentile(Present(values), 95)
        growth == IF KnownPositiveGrowth(trend) THEN 4 ELSE 0
        Scored(sampled) ==
            IF workers = "none" \/ sampled = <<>> THEN NoSuspect
            ELSE IF workers = "complete"
            THEN NormalizedExecutor(sampled, P95(PerWorker(sampled)), growth, o)
            ELSE LegacyExecutor(P95(Map(LAMBDA s : s.global, sampled)), Len(sampled),
                                P95(Map(LAMBDA s : s.local, run.runtime)),
                                P95(Map(LAMBDA s : s.alive, run.runtime)), growth, workers, o)
    IN  Scored(SelectSeq(run.runtime, LAMBDA s : s.global # None))

----------------------------------------------------------------------------
(* Downstream stage dominance.                                             *)

StageScore(m) ==
    Capped(24 + Smaller(m.tail, 1000) \div 11 + m.cumulative \div 35 + SampleQuality(m.samples),
           m.tail >= 960 /\ m.cumulative >= 920 /\ m.samples >= 20, 95)

\* DownstreamRepresentations::select, as the key it compares by.
Preference(m) ==
    <<StageScore(m), m.tail, m.cumulative, IF m.basis = Completed THEN 1 ELSE 0, -m.stage>>

Correlates(stage, o) ==
    \E p \in ToSet(o.downstream.blocking_correlated_stage_patterns) :
        <<stage, p>> \in PatternMatches

\* downstream_stage_suspect: the best stage; one that mirrors a strongly
\* loaded blocking pool stays below the pool's score.
RelatedStage(best, signal, correlated, o) ==
    Suspect(Downstream,
            IF correlated
            THEN Smaller(StageScore(best),
                         Larger(BlockingScore(signal)
                                - o.downstream.blocking_correlation_score_margin, 0))
            ELSE StageScore(best),
            best.basis, "none", correlated, o)

DownstreamSuspect(run, signal, o) ==
    LET strong == BlockingEligible(signal, o) /\ StrongBlocking(signal, o)
        Related(best) == RelatedStage(best, signal, Correlates(best.stage, o) /\ strong, o)
        Best(eligible) == CHOOSE m \in eligible :
                              \A n \in eligible \ {m} : LexLess(Preference(n), Preference(m))
        Of(eligible) == IF run.requests = <<>> \/ eligible = {} THEN NoSuspect
                        ELSE Related(Best(eligible))
    IN  Of({m \in StageSummaries(run) : m.samples >= o.downstream.min_stage_samples})

\* FamilyCandidates::into_cross_family_candidates, or the fallback.
Candidates(run, workers, trend, signal, o) ==
    LET OrFallback(found) ==
            IF found # <<>> THEN found
            ELSE <<Suspect(Insufficient, 50, Completed, "none", FALSE, o)>>
    IN  OrFallback(SelectSeq(<<QueueSuspect(run, trend, o), BlockingSuspect(signal, o),
                               ExecutorSuspect(run, workers, trend, o),
                               DownstreamSuspect(run, signal, o)>>,
                             LAMBDA s : s # NoSuspect))
============================================================================

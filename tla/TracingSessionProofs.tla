------------------------ MODULE TracingSessionProofs ------------------------
(***************************************************************************)
(* What the live tracing session (TracingSession) guarantees for any       *)
(* spans, plans, limits, clock readings and configurations: no sample is   *)
(* lost by the merge, the retention ledger is exact, a strict snapshot     *)
(* that succeeds is complete, spans that the program nests keep their      *)
(* evidence, and the two outputs agree.                                    *)
(***************************************************************************)
EXTENDS TracingSession, TracingImportProofs

----------------------------------------------------------------------------
(* The sampler and the merge.                                              *)

\* What the merge needs of an imported run.
Mergeable(imported) ==
    /\ {"run", "limitsHit", "lifecycle", "warnings"} \subseteq DOMAIN imported
    /\ "runtime" \in DOMAIN imported.run

AfterJoin == {"snapshot", "merge", "spans", "json"}

\* The inductive invariant behind SamplesMerged: once shutdown is past the
\* join, the task is gone, so the collector no longer changes.
SamplingInv ==
    /\ runtime.snapshots \in Seq({"sampled", "manual"})
    /\ {"snapshots", "dropped", "limits_hit", "config"} = DOMAIN runtime
    /\ DOMAIN session = {"pc", "error"}
    /\ session.pc \in AfterJoin => sampler.pc \in {"none", "ended"}
    /\ session.pc = "merge" => Mergeable(captured)
    /\ SamplesMerged

\* A successful snapshot can be merged.
LEMMA SnapshotMergeable ==
    ASSUME NEW strict, SnapshotRun(strict).error = "none"
    PROVE  Mergeable(SnapshotRun(strict))
<1> DEFINE spans == CompletedSpanRecords
           plain == RunFromSpanRecords(spans, strict)
           full  == Imported(spans)
<1>1. SnapshotRun(strict) \in {Failed("strict"), WithDropWarnings(plain, RecorderWarnings)}
  BY DEF SnapshotRun
<1>2. Failed("strict").error # "none"
  BY DEF Failed
<1>3. SnapshotRun(strict) = WithDropWarnings(plain, RecorderWarnings)
  BY <1>1, <1>2
<1>4. plain \in {Failed("strict"), full}
  BY DEF RunFromSpanRecords
<1>5. plain = full
  <2>1. CASE plain.error # "none"
    BY <2>1, <1>3 DEF WithDropWarnings
  <2>2. QED
    BY <2>1, <1>2, <1>4
<1>6. /\ full.error = "none"
      /\ {"run", "limitsHit", "lifecycle", "warnings"} \subseteq DOMAIN full
      /\ full.run = NormalizeRun(CandidateRun(spans))
  BY DEF Imported, ImportedOf
<1>7. "runtime" \in DOMAIN NormalizeRun(CandidateRun(spans))
  <2> DEFINE cand == CandidateRun(spans)
  <2>1. "runtime" \in DOMAIN cand
    BY DEF CandidateRun
  <2> HIDE DEF cand
  <2>2. DOMAIN NormalizeRun(cand) = DOMAIN cand
    BY DEF NormalizeRun
  <2>3. QED
    BY <2>1, <2>2 DEF cand
<1> HIDE DEF full
<1>8. WithDropWarnings(full, RecorderWarnings).run = full.run
  BY <1>6 DEF WithDropWarnings
<1>9. DOMAIN WithDropWarnings(full, RecorderWarnings) = DOMAIN full
  BY <1>6 DEF WithDropWarnings
<1>10. QED
  BY <1>3, <1>5, <1>6, <1>7, <1>8, <1>9 DEF Mergeable

\* The merge puts every sample, and the collector's truncation, into the run.
LEMMA MergeKeepsSamples ==
    ASSUME NEW imported, Mergeable(imported),
           runtime.snapshots \in Seq({"sampled", "manual"})
    PROVE  /\ Len(MergeRuntime(imported).run.runtime) = Len(runtime.snapshots)
           /\ runtime.limits_hit => MergeRuntime(imported).limitsHit
<1> DEFINE merged == MergeRuntime(imported)
<1>1. merged.run = [imported.run EXCEPT !.runtime = [k \in DOMAIN runtime.snapshots |-> "ok"]]
  BY DEF MergeRuntime, Mergeable
<1>2. merged.limitsHit = (imported.limitsHit \/ runtime.limits_hit)
  BY DEF MergeRuntime, Mergeable
<1> HIDE DEF merged
<1>3. merged.run.runtime = [k \in 1..Len(runtime.snapshots) |-> "ok"]
  BY <1>1 DEF Mergeable
<1>4. Len(merged.run.runtime) = Len(runtime.snapshots)
  BY <1>3
<1>5. QED
  BY <1>2, <1>4 DEF merged

\* Before a session is built there is no sampler and no sample.
LEMMA SamplingStarts ==
    ASSUME Init
    PROVE  SamplingInv
BY DEF Init, SamplerInit, SamplingInv, EmptyRuntime, NoSampler, AfterJoin, SamplesMerged

\* A step of a span, or none, touches neither side.
LEMMA SamplingUntouched ==
    ASSUME SamplingInv, UNCHANGED <<config, session, captured, samplerVars>>
    PROVE  SamplingInv'
BY DEF SamplingInv, samplerVars, AfterJoin, SamplesMerged, Mergeable, HasCollector

\* A recorded sample leaves the collector a collector.
LEMMA SampleRecorded ==
    ASSUME SamplingInv, NEW at \in {"sampled", "manual"}, runtime' = RecordSample(runtime, at)
    PROVE  /\ runtime'.snapshots \in Seq({"sampled", "manual"})
           /\ {"snapshots", "dropped", "limits_hit", "config"} = DOMAIN runtime'
BY DEF SamplingInv, RecordSample

\* Every step keeps the collector frozen from the join to the merge.
LEMMA SamplingStep ==
    ASSUME SamplingInv, [Next]_vars
    PROVE  SamplingInv'
<1>1. CASE BuildSession
  <2>1. session'.pc \in {"running", "done"} /\ DOMAIN session' = {"pc", "error"}
    BY <1>1 DEF BuildSession
  <2>2. /\ runtime'.snapshots = runtime.snapshots
        /\ DOMAIN runtime' = DOMAIN runtime
    BY <1>1 DEF BuildSession, StartSampler, samplerVars, SamplingInv
  <2>3. QED
    BY <2>1, <2>2 DEF SamplingInv, AfterJoin, SamplesMerged
<1>2. CASE SampleRuntime
  <2>1. /\ sampler.pc = "loop" /\ UNCHANGED <<config, session, captured>>
        /\ runtime' = runtime \/ runtime' = RecordSample(runtime, "sampled")
    BY <1>2 DEF SampleRuntime, SamplerTick
  <2>2. session.pc \notin AfterJoin
    BY <2>1 DEF SamplingInv
  <2>3. /\ runtime'.snapshots \in Seq({"sampled", "manual"})
        /\ {"snapshots", "dropped", "limits_hit", "config"} = DOMAIN runtime'
    BY <2>1, SampleRecorded DEF SamplingInv
  <2>4. QED
    BY <2>1, <2>2, <2>3 DEF SamplingInv, AfterJoin, SamplesMerged
<1>3. CASE StopSampling
  <2>1. /\ sampler.pc = "loop" /\ UNCHANGED <<config, session, captured, runtime>>
    BY <1>3 DEF StopSampling, SamplerStops
  <2>2. QED
    BY <2>1 DEF SamplingInv, AfterJoin, SamplesMerged
<1>4. CASE ManualSnapshot
  <2>1. /\ session.pc = "running" /\ UNCHANGED <<config, session, captured, sampler>>
        /\ runtime' = RecordSample(runtime, "manual")
    BY <1>4 DEF ManualSnapshot
  <2>2. /\ runtime'.snapshots \in Seq({"sampled", "manual"})
        /\ {"snapshots", "dropped", "limits_hit", "config"} = DOMAIN runtime'
    BY <2>1, SampleRecorded
  <2>3. QED
    BY <2>1, <2>2 DEF SamplingInv, AfterJoin, SamplesMerged
<1>5. ASSUME NEW sp \in Spans,
             NewSpan(sp) \/ InsertSpan(sp) \/ RecordFields(sp) \/ CloseSpan(sp) \/ FinishClose(sp)
      PROVE  SamplingInv'
  <2>1. UNCHANGED <<config, session, captured, samplerVars>>
    BY <1>5 DEF NewSpan, InsertSpan, RecordFields, CloseSpan, FinishClose
  <2>2. QED
    BY <2>1, SamplingUntouched
<1>6. CASE BeginShutdown
  <2>1. /\ session'.pc = "join" /\ DOMAIN session' = {"pc", "error"}
        /\ UNCHANGED <<runtime, config, captured>>
    BY <1>6 DEF BeginShutdown, Goto, SamplingInv
  <2>2. QED
    BY <2>1 DEF SamplingInv, AfterJoin, SamplesMerged
<1>7. CASE JoinSampler
  <2>1. /\ session'.pc = "snapshot" /\ UNCHANGED <<samplerVars, config, captured>>
        /\ sampler.pc \in {"none", "ended"} /\ DOMAIN session' = {"pc", "error"}
    BY <1>7 DEF JoinSampler, Goto, SamplerJoined, SamplingInv
  <2>2. QED
    BY <2>1 DEF SamplingInv, AfterJoin, SamplesMerged, samplerVars
<1>8. CASE TakeSnapshot
  <2>1. /\ session.pc = "snapshot" /\ UNCHANGED samplerVars
        /\ session'.pc = IF SnapshotRun(config.strict).error = "none" THEN "merge" ELSE "done"
        /\ captured' = SnapshotRun(config.strict) /\ DOMAIN session' = {"pc", "error"}
    BY <1>8 DEF TakeSnapshot, Goto, Return, SamplingInv
  <2>2. session'.pc = "merge" => Mergeable(captured')
    BY <2>1, SnapshotMergeable
  <2>3. QED
    BY <2>1, <2>2 DEF SamplingInv, AfterJoin, SamplesMerged, samplerVars
<1>9. CASE MergeAndCheck
  <2> DEFINE merged == IF HasCollector THEN MergeRuntime(captured) ELSE captured
  <2>1. /\ session.pc = "merge" /\ UNCHANGED <<samplerVars, config>>
        /\ captured' = merged /\ session'.pc \in {"spans", "done"}
        /\ DOMAIN session' = {"pc", "error"}
    BY <1>9 DEF MergeAndCheck, Goto, Return, SamplingInv
  <2>2. HasCollector => /\ Len(merged.run.runtime) = Len(runtime.snapshots)
                        /\ runtime.limits_hit => merged.limitsHit
    BY <2>1, MergeKeepsSamples DEF SamplingInv
  <2> HIDE DEF merged
  <2>3. QED
    BY <2>1, <2>2 DEF SamplingInv, AfterJoin, SamplesMerged, samplerVars, HasCollector
<1>10. CASE WriteSpans \/ WriteRun
  <2>1. /\ session.pc \in {"spans", "json"} /\ session'.pc \in {"json", "done"}
        /\ UNCHANGED <<samplerVars, config, captured>> /\ DOMAIN session' = {"pc", "error"}
    BY <1>10 DEF WriteSpans, WriteRun, Goto, Return, SamplingInv
  <2>2. QED
    BY <2>1 DEF SamplingInv, AfterJoin, SamplesMerged, samplerVars, HasCollector
<1>11. CASE UNCHANGED vars
  BY <1>11, SamplingUntouched DEF vars, samplerVars
<1>12. QED
  BY <1>1, <1>2, <1>3, <1>4, <1>5, <1>6, <1>7, <1>8, <1>9, <1>10, <1>11 DEF Next, Shutdown

\* No runtime sample is lost between the sampler, shutdown and the merge.
THEOREM SamplesMergedHolds == Spec => []SamplesMerged
<1>1. SamplingInv => SamplesMerged
  BY DEF SamplingInv
<1>2. QED
  BY <1>1, SamplingStarts, SamplingStep, PTL DEF Spec

----------------------------------------------------------------------------
(* Types of the recorder and of the spans.                                 *)

SpanRecord ==
    [span : Spans, kind : {"request", "stage", "queue"}, id : STRING, name : STRING, opt : STRING,
     ws : Int, wf : Int, s : Int, e : Int, dur : Int]

\* Completed records by section.
Completed == [requests : Seq(SpanRecord), stages : Seq(SpanRecord), queues : Seq(SpanRecord)]

OpenType == [fields : FieldSet, ws : Int, s : Int, at : Nat]

RecorderType ==
    [open : UNION {[some -> OpenType] : some \in SUBSET Spans},
     requests : Seq(SpanRecord), stages : Seq(SpanRecord), queues : Seq(SpanRecord),
     stats : [Counters -> Nat]]

SpanType ==
    [pc : {"new", "starting", "live", "closing", "closed"}, fields : FieldSet,
     ws : Int \cup (Int \X Int), at : Nat \cup (Nat \X Nat), recorded : BOOLEAN]

\* A closing span has both readings, and its entry.
SpanPhase(sp) ==
    IF span[sp].pc = "closing"
    THEN /\ span[sp].ws \in Int \X Int /\ span[sp].at \in Nat \X Nat
         /\ sp \in DOMAIN recorder.open
    ELSE span[sp].ws \in Int /\ span[sp].at \in Nat

TypedInv ==
    /\ instant \in Nat
    /\ recorder \in RecorderType
    /\ valid \in Completed
    /\ span \in [Spans -> SpanType]
    /\ \A sp \in Spans : SpanPhase(sp)

----------------------------------------------------------------------------
(* The retention ledger.                                                   *)

AtMost(n) == IF n < MaxCompleted THEN n ELSE MaxCompleted

Losses(rec) == rec.stats.dropped_request + rec.stats.dropped_child + rec.stats.evicted_child

\* RetentionLedger, index by index, of any recorder and history; besides,
\* what lost nothing kept everything.
Ledger(rec, v) ==
    /\ Len(rec.requests) = AtMost(Len(v.requests))
    /\ \A i \in 1..Len(rec.requests) : rec.requests[i] = v.requests[i]
    /\ CompletedTotal(rec) = AtMost(CompletedTotal(v))
    /\ CompletedTotal(v) = CompletedTotal(rec) + Losses(rec)
    /\ Losses(rec) = 0 => /\ rec.requests = v.requests
                          /\ rec.stages = v.stages /\ rec.queues = v.queues

Pushed(v, record) == [v EXCEPT ![SectionOf[record.kind]] = Append(@, record)]

\* The kind of a record says which section is its own.
LEMMA SectionOfRecord ==
    ASSUME NEW record \in SpanRecord
    PROVE  \/ record.kind = "request" /\ SectionOf[record.kind] = "requests"
           \/ record.kind = "stage" /\ SectionOf[record.kind] = "stages"
           \/ record.kind = "queue" /\ SectionOf[record.kind] = "queues"
BY DEF SpanRecord, SectionOf

\* What a complete candidate adds to the history.
LEMMA PushedTyped ==
    ASSUME NEW v \in Completed, NEW record \in SpanRecord
    PROVE  /\ Pushed(v, record) \in Completed
           /\ CompletedTotal(Pushed(v, record)) = CompletedTotal(v) + 1
           /\ record.kind # "request" => Pushed(v, record).requests = v.requests
           /\ record.kind = "request" => Pushed(v, record).requests = Append(v.requests, record)
<1> DEFINE w == Pushed(v, record)
<1>1. CASE record.kind = "request"
  <2>1. w = [v EXCEPT !.requests = Append(@, record)]
    BY <1>1, SectionOfRecord DEF Pushed
  <2>2. Append(v.requests, record) \in Seq(SpanRecord) /\ Len(Append(v.requests, record)) = Len(v.requests) + 1
    BY DEF Completed
  <2> HIDE DEF w
  <2>3. w \in Completed
    BY <2>1, <2>2 DEF Completed
  <2>4. w.requests = Append(v.requests, record) /\ w.stages = v.stages /\ w.queues = v.queues
    BY <2>1 DEF Completed
  <2>5. CompletedTotal(w) = CompletedTotal(v) + 1
    BY <2>2, <2>3, <2>4 DEF CompletedTotal, Completed
  <2>6. QED
    BY <1>1, <2>3, <2>4, <2>5 DEF w
<1>2. CASE record.kind = "stage"
  <2>1. w = [v EXCEPT !.stages = Append(@, record)]
    BY <1>2, SectionOfRecord DEF Pushed
  <2>2. Append(v.stages, record) \in Seq(SpanRecord) /\ Len(Append(v.stages, record)) = Len(v.stages) + 1
    BY DEF Completed
  <2> HIDE DEF w
  <2>3. w \in Completed
    BY <2>1, <2>2 DEF Completed
  <2>4. w.stages = Append(v.stages, record) /\ w.requests = v.requests /\ w.queues = v.queues
    BY <2>1 DEF Completed
  <2>5. CompletedTotal(w) = CompletedTotal(v) + 1
    BY <2>2, <2>3, <2>4 DEF CompletedTotal, Completed
  <2>6. QED
    BY <1>2, <2>3, <2>4, <2>5 DEF w
<1>3. CASE record.kind = "queue"
  <2>1. w = [v EXCEPT !.queues = Append(@, record)]
    BY <1>3, SectionOfRecord DEF Pushed
  <2>2. Append(v.queues, record) \in Seq(SpanRecord) /\ Len(Append(v.queues, record)) = Len(v.queues) + 1
    BY DEF Completed
  <2> HIDE DEF w
  <2>3. w \in Completed
    BY <2>1, <2>2 DEF Completed
  <2>4. w.queues = Append(v.queues, record) /\ w.requests = v.requests /\ w.stages = v.stages
    BY <2>1 DEF Completed
  <2>5. CompletedTotal(w) = CompletedTotal(v) + 1
    BY <2>2, <2>3, <2>4 DEF CompletedTotal, Completed
  <2>6. QED
    BY <1>3, <2>3, <2>4, <2>5 DEF w
<1>4. QED
  BY <1>1, <1>2, <1>3, SectionOfRecord

\* Below the cap nothing was lost before, and the record joins its section.
LEMMA PushWithRoom ==
    ASSUME NEW rec \in RecorderType, NEW v \in Completed, NEW record \in SpanRecord,
           Ledger(rec, v), CompletedTotal(rec) < MaxCompleted
    PROVE  /\ PushCompleted(rec, record) \in RecorderType
           /\ PushCompleted(rec, record).requests = Pushed(v, record).requests
           /\ PushCompleted(rec, record).stages = Pushed(v, record).stages
           /\ PushCompleted(rec, record).queues = Pushed(v, record).queues
           /\ PushCompleted(rec, record).stats = rec.stats
           /\ PushCompleted(rec, record).open = rec.open
           /\ Losses(rec) = 0 /\ CompletedTotal(v) < MaxCompleted
<1> DEFINE r == PushCompleted(rec, record)
           w == Pushed(v, record)
<1>1. /\ CompletedTotal(v) \in Nat /\ CompletedTotal(rec) \in Nat /\ MaxCompleted \in Nat
      /\ Losses(rec) \in Nat
  BY SessionAssumption DEF CompletedTotal, Completed, RecorderType, Losses, Counters
<1>2. /\ Losses(rec) = 0 /\ CompletedTotal(v) < MaxCompleted
      /\ rec.requests = v.requests /\ rec.stages = v.stages /\ rec.queues = v.queues
  <2>1. CompletedTotal(v) = CompletedTotal(rec) + Losses(rec)
    BY DEF Ledger
  <2>2. CompletedTotal(rec) = IF CompletedTotal(v) < MaxCompleted THEN CompletedTotal(v)
                              ELSE MaxCompleted
    BY DEF Ledger, AtMost
  <2>3. CompletedTotal(v) < MaxCompleted /\ Losses(rec) = 0
    BY <1>1, <2>1, <2>2
  <2>4. QED
    BY <2>3 DEF Ledger
<1>3. CASE record.kind = "request"
  <2>1. r = [rec EXCEPT !.requests = Append(@, record)]
    BY <1>3, SectionOfRecord DEF PushCompleted
  <2>2. w = [v EXCEPT !.requests = Append(@, record)]
    BY <1>3, SectionOfRecord DEF Pushed
  <2>3. Append(rec.requests, record) \in Seq(SpanRecord)
    BY DEF RecorderType
  <2> HIDE DEF r, w
  <2>4. r \in RecorderType
    BY <2>1, <2>3 DEF RecorderType
  <2>5. /\ r.requests = Append(rec.requests, record) /\ r.stages = rec.stages /\ r.queues = rec.queues
        /\ r.open = rec.open /\ r.stats = rec.stats
    BY <2>1 DEF RecorderType
  <2>6. w.requests = Append(v.requests, record) /\ w.stages = v.stages /\ w.queues = v.queues
    BY <2>2 DEF Completed
  <2>7. r.requests = w.requests /\ r.stages = w.stages /\ r.queues = w.queues
    BY <1>2, <2>5, <2>6
  <2>8. QED
    BY <1>2, <2>4, <2>5, <2>7 DEF r, w
<1>4. CASE record.kind = "stage"
  <2>1. r = [rec EXCEPT !.stages = Append(@, record)]
    BY <1>4, SectionOfRecord DEF PushCompleted
  <2>2. w = [v EXCEPT !.stages = Append(@, record)]
    BY <1>4, SectionOfRecord DEF Pushed
  <2>3. Append(rec.stages, record) \in Seq(SpanRecord)
    BY DEF RecorderType
  <2> HIDE DEF r, w
  <2>4. r \in RecorderType
    BY <2>1, <2>3 DEF RecorderType
  <2>5. /\ r.stages = Append(rec.stages, record) /\ r.requests = rec.requests /\ r.queues = rec.queues
        /\ r.open = rec.open /\ r.stats = rec.stats
    BY <2>1 DEF RecorderType
  <2>6. w.stages = Append(v.stages, record) /\ w.requests = v.requests /\ w.queues = v.queues
    BY <2>2 DEF Completed
  <2>7. r.requests = w.requests /\ r.stages = w.stages /\ r.queues = w.queues
    BY <1>2, <2>5, <2>6
  <2>8. QED
    BY <1>2, <2>4, <2>5, <2>7 DEF r, w
<1>5. CASE record.kind = "queue"
  <2>1. r = [rec EXCEPT !.queues = Append(@, record)]
    BY <1>5, SectionOfRecord DEF PushCompleted
  <2>2. w = [v EXCEPT !.queues = Append(@, record)]
    BY <1>5, SectionOfRecord DEF Pushed
  <2>3. Append(rec.queues, record) \in Seq(SpanRecord)
    BY DEF RecorderType
  <2> HIDE DEF r, w
  <2>4. r \in RecorderType
    BY <2>1, <2>3 DEF RecorderType
  <2>5. /\ r.queues = Append(rec.queues, record) /\ r.requests = rec.requests /\ r.stages = rec.stages
        /\ r.open = rec.open /\ r.stats = rec.stats
    BY <2>1 DEF RecorderType
  <2>6. w.queues = Append(v.queues, record) /\ w.requests = v.requests /\ w.stages = v.stages
    BY <2>2 DEF Completed
  <2>7. r.requests = w.requests /\ r.stages = w.stages /\ r.queues = w.queues
    BY <1>2, <2>5, <2>6
  <2>8. QED
    BY <1>2, <2>4, <2>5, <2>7 DEF r, w
<1>6. QED
  BY <1>2, <1>3, <1>4, <1>5, SectionOfRecord

\* A counter that goes up is still a counter.
LEMMA Counted ==
    ASSUME NEW stats \in [Counters -> Nat], NEW c \in Counters
    PROVE  [stats EXCEPT ![c] = stats[c] + 1] \in [Counters -> Nat]
OBVIOUS

\* At the cap a child is dropped.
LEMMA ChildDropped ==
    ASSUME NEW rec \in RecorderType, NEW record \in SpanRecord,
           ~(CompletedTotal(rec) < MaxCompleted), record.kind # "request"
    PROVE  /\ PushCompleted(rec, record) \in RecorderType
           /\ PushCompleted(rec, record).requests = rec.requests
           /\ PushCompleted(rec, record).stages = rec.stages
           /\ PushCompleted(rec, record).queues = rec.queues
           /\ PushCompleted(rec, record).open = rec.open
           /\ PushCompleted(rec, record).stats =
                  [rec.stats EXCEPT !.dropped_child = rec.stats.dropped_child + 1]
<1> DEFINE r == PushCompleted(rec, record)
<1>1. r = [rec EXCEPT !.stats = [rec.stats EXCEPT !.dropped_child = rec.stats.dropped_child + 1]]
  BY DEF PushCompleted, RecorderType
<1>2. [rec.stats EXCEPT !.dropped_child = rec.stats.dropped_child + 1] \in [Counters -> Nat]
  <2>1. "dropped_child" \in Counters /\ rec.stats \in [Counters -> Nat]
    BY DEF RecorderType, Counters
  <2>2. QED
    BY <2>1, Counted
<1> HIDE DEF r
<1>3. r \in RecorderType
  BY <1>1, <1>2 DEF RecorderType
<1>4. QED
  BY <1>1, <1>3 DEF RecorderType, r

\* At the cap a request without a child to evict is dropped.
LEMMA RequestDropped ==
    ASSUME NEW rec \in RecorderType, NEW record \in SpanRecord,
           ~(CompletedTotal(rec) < MaxCompleted), record.kind = "request",
           rec.queues = <<>>, rec.stages = <<>>
    PROVE  /\ PushCompleted(rec, record) \in RecorderType
           /\ PushCompleted(rec, record).requests = rec.requests
           /\ PushCompleted(rec, record).stages = rec.stages
           /\ PushCompleted(rec, record).queues = rec.queues
           /\ PushCompleted(rec, record).open = rec.open
           /\ PushCompleted(rec, record).stats =
                  [rec.stats EXCEPT !.dropped_request = rec.stats.dropped_request + 1]
<1> DEFINE r == PushCompleted(rec, record)
<1>1. r = [rec EXCEPT !.stats = [rec.stats EXCEPT !.dropped_request = rec.stats.dropped_request + 1]]
  BY DEF PushCompleted, RecorderType
<1>2. [rec.stats EXCEPT !.dropped_request = rec.stats.dropped_request + 1] \in [Counters -> Nat]
  <2>1. "dropped_request" \in Counters /\ rec.stats \in [Counters -> Nat]
    BY DEF RecorderType, Counters
  <2>2. QED
    BY <2>1, Counted
<1> HIDE DEF r
<1>3. r \in RecorderType
  BY <1>1, <1>2 DEF RecorderType
<1>4. QED
  BY <1>1, <1>3 DEF RecorderType, r

\* Evicting from a section that is not empty.
LEMMA FrontShorter ==
    ASSUME NEW q \in Seq(SpanRecord), q # <<>>
    PROVE  /\ Front(q) \in Seq(SpanRecord) /\ Len(Front(q)) = Len(q) - 1 /\ Len(q) > 0
           /\ \A k \in 1..Len(Front(q)) : k \in 1..Len(q) /\ Front(q)[k] = q[k]
<1>1. PICK n \in Nat \ {0} : n = Len(q)
  BY EmptySeq
<1>2. \A i \in 1..n - 1 : q[i] \in SpanRecord
  BY <1>1, ElementOfSeq
<1>3. /\ SubSeq(q, 1, n - 1) \in Seq(SpanRecord)
      /\ Len(SubSeq(q, 1, n - 1)) = IF 1 <= n - 1 THEN n - 1 - 1 + 1 ELSE 0
      /\ \A k \in 1..n - 1 - 1 + 1 : SubSeq(q, 1, n - 1)[k] = q[1 + k - 1]
  BY <1>1, <1>2, SubSeqProperties
<1>4. Len(SubSeq(q, 1, n - 1)) = n - 1
  BY <1>3
<1>5. \A k \in 1..n - 1 : k \in 1..n /\ SubSeq(q, 1, n - 1)[k] = q[k]
  BY <1>3
<1>6. QED
  BY <1>1, <1>3, <1>4, <1>5 DEF Front

\* At the cap a request takes the place of the last queue, or else stage.
LEMMA ChildEvicted ==
    ASSUME NEW rec \in RecorderType, NEW record \in SpanRecord,
           ~(CompletedTotal(rec) < MaxCompleted), record.kind = "request",
           rec.queues # <<>> \/ rec.stages # <<>>
    PROVE  /\ PushCompleted(rec, record) \in RecorderType
           /\ PushCompleted(rec, record).requests = Append(rec.requests, record)
           /\ CompletedTotal(PushCompleted(rec, record)) = CompletedTotal(rec)
           /\ PushCompleted(rec, record).open = rec.open
           /\ PushCompleted(rec, record).stats =
                  [rec.stats EXCEPT !.evicted_child = rec.stats.evicted_child + 1]
           /\ Len(rec.requests) < CompletedTotal(rec)
           /\ \/ /\ rec.queues # <<>> /\ PushCompleted(rec, record).stages = rec.stages
                 /\ PushCompleted(rec, record).queues = Front(rec.queues)
              \/ /\ rec.stages # <<>> /\ PushCompleted(rec, record).queues = rec.queues
                 /\ PushCompleted(rec, record).stages = Front(rec.stages)
<1> DEFINE r     == PushCompleted(rec, record)
           stats == [rec.stats EXCEPT !.evicted_child = rec.stats.evicted_child + 1]
           more  == Append(rec.requests, record)
<1>1. stats \in [Counters -> Nat] /\ more \in Seq(SpanRecord) /\ Len(more) = Len(rec.requests) + 1
  <2>1. "evicted_child" \in Counters /\ rec.stats \in [Counters -> Nat]
    BY DEF RecorderType, Counters
  <2>2. stats \in [Counters -> Nat]
    BY <2>1, Counted
  <2>3. more \in Seq(SpanRecord) /\ Len(more) = Len(rec.requests) + 1
    BY AppendProperties DEF RecorderType
  <2>4. QED
    BY <2>2, <2>3
<1>2. Len(rec.requests) \in Nat /\ Len(rec.stages) \in Nat /\ Len(rec.queues) \in Nat
  BY DEF RecorderType
<1>3. CASE rec.queues # <<>>
  <2>1. r = [rec EXCEPT !.queues = Front(rec.queues), !.stats = stats, !.requests = more]
    BY <1>3 DEF PushCompleted, RecorderType
  <2>2. /\ Front(rec.queues) \in Seq(SpanRecord)
        /\ Len(Front(rec.queues)) = Len(rec.queues) - 1 /\ Len(rec.queues) > 0
    BY <1>3, FrontShorter DEF RecorderType
  <2> HIDE DEF r, stats, more
  <2>3. r \in RecorderType
    BY <1>1, <2>1, <2>2 DEF RecorderType
  <2>4. /\ r.queues = Front(rec.queues) /\ r.stages = rec.stages /\ r.requests = more
        /\ r.open = rec.open /\ r.stats = stats
    BY <2>1 DEF RecorderType
  <2>5. CompletedTotal(r) = CompletedTotal(rec) /\ Len(rec.requests) < CompletedTotal(rec)
    <3>1. /\ Len(r.requests) = Len(rec.requests) + 1 /\ Len(r.stages) = Len(rec.stages)
          /\ Len(r.queues) = Len(rec.queues) - 1 /\ Len(rec.queues) > 0
      BY <1>1, <2>2, <2>4
    <3>2. QED
      BY <2>3, <3>1, <1>2 DEF CompletedTotal, RecorderType
  <2>6. QED
    BY <1>3, <2>3, <2>4, <2>5 DEF r, stats, more
<1>4. CASE rec.queues = <<>> /\ rec.stages # <<>>
  <2>1. r = [rec EXCEPT !.stages = Front(rec.stages), !.stats = stats, !.requests = more]
    BY <1>4 DEF PushCompleted, RecorderType
  <2>2. /\ Front(rec.stages) \in Seq(SpanRecord)
        /\ Len(Front(rec.stages)) = Len(rec.stages) - 1 /\ Len(rec.stages) > 0
    BY <1>4, FrontShorter DEF RecorderType
  <2> HIDE DEF r, stats, more
  <2>3. r \in RecorderType
    BY <1>1, <2>1, <2>2 DEF RecorderType
  <2>4. /\ r.stages = Front(rec.stages) /\ r.queues = rec.queues /\ r.requests = more
        /\ r.open = rec.open /\ r.stats = stats
    BY <2>1 DEF RecorderType
  <2>5. CompletedTotal(r) = CompletedTotal(rec) /\ Len(rec.requests) < CompletedTotal(rec)
    <3>1. /\ Len(r.requests) = Len(rec.requests) + 1 /\ Len(r.queues) = Len(rec.queues)
          /\ Len(r.stages) = Len(rec.stages) - 1 /\ Len(rec.stages) > 0
      BY <1>1, <2>2, <2>4
    <3>2. QED
      BY <2>3, <3>1, <1>2 DEF CompletedTotal, RecorderType
  <2>6. QED
    BY <1>4, <2>3, <2>4, <2>5 DEF r, stats, more
<1>5. QED
  BY <1>3, <1>4

LossCounters == {"dropped_request", "dropped_child", "evicted_child"}

\* A loss is counted once.
LEMMA LossCounted ==
    ASSUME NEW rec \in RecorderType, NEW r \in RecorderType, NEW c \in LossCounters,
           r.stats = [rec.stats EXCEPT ![c] = rec.stats[c] + 1]
    PROVE  /\ Losses(r) = Losses(rec) + 1 /\ Losses(rec) \in Nat
           /\ \A k \in Counters \ LossCounters : r.stats[k] = rec.stats[k]
<1> DEFINE st == rec.stats
           tt == r.stats
<1>1. st \in [Counters -> Nat] /\ tt \in [Counters -> Nat] /\ tt = [st EXCEPT ![c] = st[c] + 1]
  BY DEF RecorderType
<1>2. Losses(r) = tt.dropped_request + tt.dropped_child + tt.evicted_child
  BY DEF Losses
<1>3. Losses(rec) = st.dropped_request + st.dropped_child + st.evicted_child
  BY DEF Losses
<1> HIDE DEF st, tt
<1>4. \A k \in Counters : tt[k] = IF k = c THEN st[k] + 1 ELSE st[k]
  BY <1>1
<1>5. /\ tt.dropped_request = IF "dropped_request" = c THEN st.dropped_request + 1 ELSE st.dropped_request
      /\ tt.dropped_child = IF "dropped_child" = c THEN st.dropped_child + 1 ELSE st.dropped_child
      /\ tt.evicted_child = IF "evicted_child" = c THEN st.evicted_child + 1 ELSE st.evicted_child
  BY <1>4 DEF Counters
<1>6. st.dropped_request \in Nat /\ st.dropped_child \in Nat /\ st.evicted_child \in Nat
  BY <1>1 DEF Counters
<1>7. Losses(r) = Losses(rec) + 1 /\ Losses(rec) \in Nat
  BY <1>2, <1>3, <1>5, <1>6 DEF LossCounters
<1>8. QED
  BY <1>4, <1>7 DEF st, tt, LossCounters

\* The numbers of a ledger.
LEMMA LedgerNumbers ==
    ASSUME NEW rec \in RecorderType, NEW v \in Completed
    PROVE  /\ Len(rec.requests) \in Nat /\ Len(v.requests) \in Nat
           /\ CompletedTotal(rec) \in Nat /\ CompletedTotal(v) \in Nat /\ MaxCompleted \in Nat
           /\ Len(rec.requests) <= CompletedTotal(rec) /\ Len(v.requests) <= CompletedTotal(v)
           /\ Losses(rec) \in Nat
BY SessionAssumption DEF RecorderType, Completed, CompletedTotal, Losses, Counters

\* A push with room keeps the ledger.
LEMMA LedgerWithRoom ==
    ASSUME NEW rec \in RecorderType, NEW v \in Completed, NEW record \in SpanRecord,
           Ledger(rec, v), CompletedTotal(rec) < MaxCompleted
    PROVE  Ledger(PushCompleted(rec, record), Pushed(v, record))
<1> DEFINE r == PushCompleted(rec, record)
           w == Pushed(v, record)
<1>1. /\ r \in RecorderType /\ r.requests = w.requests /\ r.stages = w.stages /\ r.queues = w.queues
      /\ r.stats = rec.stats /\ Losses(rec) = 0 /\ CompletedTotal(v) < MaxCompleted
  BY PushWithRoom
<1>2. w \in Completed /\ CompletedTotal(w) = CompletedTotal(v) + 1
  BY PushedTyped
<1> HIDE DEF r, w
<1>3. CompletedTotal(r) = CompletedTotal(w) /\ Losses(r) = 0
  BY <1>1 DEF CompletedTotal, Losses
<1>4. /\ Len(w.requests) \in Nat /\ CompletedTotal(w) \in Nat /\ CompletedTotal(v) \in Nat
      /\ MaxCompleted \in Nat /\ Len(w.requests) <= CompletedTotal(w)
  BY <1>2, LedgerNumbers
<1>5. AtMost(CompletedTotal(w)) = CompletedTotal(w) /\ AtMost(Len(w.requests)) = Len(w.requests)
  BY <1>1, <1>2, <1>4 DEF AtMost
<1>6. QED
  BY <1>1, <1>3, <1>4, <1>5 DEF Ledger, r, w

\* A push at the cap keeps the ledger: what it does not take in, or puts out,
\* is counted.
LEMMA LedgerAtCap ==
    ASSUME NEW rec \in RecorderType, NEW v \in Completed, NEW record \in SpanRecord,
           Ledger(rec, v), ~(CompletedTotal(rec) < MaxCompleted)
    PROVE  /\ PushCompleted(rec, record) \in RecorderType
           /\ Ledger(PushCompleted(rec, record), Pushed(v, record))
           /\ PushCompleted(rec, record).open = rec.open
           /\ \A k \in Counters \ LossCounters : PushCompleted(rec, record).stats[k] = rec.stats[k]
<1> DEFINE r == PushCompleted(rec, record)
           w == Pushed(v, record)
<1>1. /\ w \in Completed /\ CompletedTotal(w) = CompletedTotal(v) + 1
      /\ record.kind # "request" => w.requests = v.requests
      /\ record.kind = "request" => w.requests = Append(v.requests, record)
  BY PushedTyped
<1>2. /\ Len(rec.requests) \in Nat /\ Len(v.requests) \in Nat
      /\ CompletedTotal(rec) \in Nat /\ CompletedTotal(v) \in Nat /\ MaxCompleted \in Nat
      /\ Len(rec.requests) <= CompletedTotal(rec) /\ Losses(rec) \in Nat
  BY LedgerNumbers
<1>3. /\ CompletedTotal(rec) = MaxCompleted /\ CompletedTotal(v) >= MaxCompleted
      /\ AtMost(CompletedTotal(v) + 1) = MaxCompleted
      /\ CompletedTotal(v) = CompletedTotal(rec) + Losses(rec)
  BY <1>2 DEF Ledger, AtMost
<1>4. /\ Len(rec.requests) = AtMost(Len(v.requests))
      /\ \A i \in 1..Len(rec.requests) : rec.requests[i] = v.requests[i]
  BY DEF Ledger
<1>5. SUFFICES /\ r \in RecorderType /\ r.open = rec.open
               /\ \A k \in Counters \ LossCounters : r.stats[k] = rec.stats[k]
               /\ Losses(r) = Losses(rec) + 1 /\ CompletedTotal(r) = CompletedTotal(rec)
               /\ Len(r.requests) = AtMost(Len(w.requests))
               /\ \A i \in 1..Len(r.requests) : r.requests[i] = w.requests[i]
  <2> HIDE DEF r, w
  <2>1. Ledger(r, w)
    BY <1>1, <1>2, <1>3, <1>5 DEF Ledger
  <2>2. QED
    BY <1>5, <2>1 DEF r, w
<1> HIDE DEF w
<1>6. CASE record.kind # "request"
  <2>1. /\ r \in RecorderType /\ r.requests = rec.requests /\ r.stages = rec.stages
        /\ r.queues = rec.queues /\ r.open = rec.open
        /\ r.stats = [rec.stats EXCEPT !.dropped_child = rec.stats.dropped_child + 1]
    BY <1>6, ChildDropped
  <2> HIDE DEF r
  <2>2. /\ \A k \in Counters \ LossCounters : r.stats[k] = rec.stats[k]
        /\ Losses(r) = Losses(rec) + 1
    BY <2>1, LossCounted, "dropped_child" \in LossCounters DEF LossCounters
  <2>3. CompletedTotal(r) = CompletedTotal(rec)
    BY <2>1 DEF CompletedTotal
  <2>4. w.requests = v.requests
    BY <1>1, <1>6
  <2>5. QED
    BY <1>4, <2>1, <2>2, <2>3, <2>4 DEF r
<1>7. CASE record.kind = "request" /\ rec.queues = <<>> /\ rec.stages = <<>>
  <2>1. /\ r \in RecorderType /\ r.requests = rec.requests /\ r.stages = rec.stages
        /\ r.queues = rec.queues /\ r.open = rec.open
        /\ r.stats = [rec.stats EXCEPT !.dropped_request = rec.stats.dropped_request + 1]
    BY <1>7, RequestDropped
  <2> HIDE DEF r
  <2>2. /\ \A k \in Counters \ LossCounters : r.stats[k] = rec.stats[k]
        /\ Losses(r) = Losses(rec) + 1
    BY <2>1, LossCounted, "dropped_request" \in LossCounters DEF LossCounters
  <2>3. CompletedTotal(r) = CompletedTotal(rec)
    BY <2>1 DEF CompletedTotal
  <2>4. Len(rec.requests) = MaxCompleted
    BY <1>2, <1>3, <1>7 DEF CompletedTotal
  <2>5. Len(v.requests) >= MaxCompleted
    BY <1>2, <1>4, <2>4 DEF AtMost
  <2>6. /\ Len(w.requests) = Len(v.requests) + 1
        /\ \A i \in 1..Len(v.requests) : w.requests[i] = v.requests[i]
    <3>1. v.requests \in Seq(SpanRecord) /\ w.requests = Append(v.requests, record)
      BY <1>1, <1>7 DEF Completed
    <3>2. QED
      BY <3>1, AppendProperties
  <2>7. AtMost(Len(w.requests)) = MaxCompleted
    BY <1>2, <2>5, <2>6 DEF AtMost
  <2>8. \A i \in 1..Len(rec.requests) : rec.requests[i] = w.requests[i]
    BY <1>2, <1>4, <2>4, <2>5, <2>6
  <2>9. QED
    BY <2>1, <2>2, <2>3, <2>4, <2>7, <2>8 DEF r
<1>8. CASE record.kind = "request" /\ (rec.queues # <<>> \/ rec.stages # <<>>)
  <2>1. /\ r \in RecorderType /\ r.requests = Append(rec.requests, record)
        /\ CompletedTotal(r) = CompletedTotal(rec) /\ r.open = rec.open
        /\ r.stats = [rec.stats EXCEPT !.evicted_child = rec.stats.evicted_child + 1]
        /\ Len(rec.requests) < CompletedTotal(rec)
    BY <1>8, ChildEvicted
  <2> HIDE DEF r
  <2>2. /\ \A k \in Counters \ LossCounters : r.stats[k] = rec.stats[k]
        /\ Losses(r) = Losses(rec) + 1
    BY <2>1, LossCounted, "evicted_child" \in LossCounters DEF LossCounters
  <2>3. Len(v.requests) = Len(rec.requests) /\ Len(v.requests) < MaxCompleted
    BY <1>2, <1>3, <1>4, <2>1 DEF AtMost
  <2>4. /\ Len(w.requests) = Len(v.requests) + 1
        /\ \A i \in 1..Len(v.requests) : w.requests[i] = v.requests[i]
        /\ w.requests[Len(v.requests) + 1] = record
    <3>1. v.requests \in Seq(SpanRecord) /\ w.requests = Append(v.requests, record)
      BY <1>1, <1>8 DEF Completed
    <3>2. QED
      BY <3>1, AppendProperties
  <2>5. /\ Len(r.requests) = Len(rec.requests) + 1
        /\ \A i \in 1..Len(rec.requests) : r.requests[i] = rec.requests[i]
        /\ r.requests[Len(rec.requests) + 1] = record
    <3>1. rec.requests \in Seq(SpanRecord) /\ r.requests = Append(rec.requests, record)
      BY <2>1 DEF RecorderType
    <3>2. QED
      BY <3>1, AppendProperties
  <2>6. AtMost(Len(w.requests)) = Len(r.requests)
    BY <1>2, <2>3, <2>4, <2>5 DEF AtMost
  <2>7. \A i \in 1..Len(r.requests) : r.requests[i] = w.requests[i]
    <3>1. PICK n \in Nat : n = Len(rec.requests)
      BY <1>2
    <3>2. Len(v.requests) = n /\ Len(r.requests) = n + 1
      BY <3>1, <2>3, <2>5
    <3>3. SUFFICES ASSUME NEW i \in 1..n + 1 PROVE r.requests[i] = w.requests[i]
      BY <3>2
    <3>4. i \in 1..n \/ i = n + 1
      OBVIOUS
    <3>5. QED
      BY <1>4, <2>4, <2>5, <3>1, <3>2, <3>4
  <2>8. QED
    BY <2>1, <2>2, <2>6, <2>7 DEF r
<1>9. QED
  BY <1>6, <1>7, <1>8

----------------------------------------------------------------------------
(* The layer's steps keep the types.                                       *)

Within(q, old) == \A k \in 1..Len(q) : \E j \in 1..Len(old) : q[k] = old[j]

WithinOr(q, old, record) ==
    \A k \in 1..Len(q) : (\E j \in 1..Len(old) : q[k] = old[j]) \/ q[k] = record

\* Pushing adds the record to its own section at most, and nothing else to any.
Draws(r, rec, record) ==
    /\ WithinOr(r.requests, rec.requests, record) /\ WithinOr(r.stages, rec.stages, record)
    /\ WithinOr(r.queues, rec.queues, record)
    /\ record.kind # "request" => Within(r.requests, rec.requests)
    /\ record.kind # "stage" => Within(r.stages, rec.stages)
    /\ record.kind # "queue" => Within(r.queues, rec.queues)

\* A section as it is, after an append, and after an eviction.
LEMMA SectionDraws ==
    ASSUME NEW q \in Seq(SpanRecord), NEW record \in SpanRecord
    PROVE  /\ Within(q, q) /\ WithinOr(q, q, record)
           /\ WithinOr(Append(q, record), q, record)
           /\ q # <<>> => Within(Front(q), q) /\ WithinOr(Front(q), q, record)
<1>1. Within(q, q) /\ WithinOr(q, q, record)
  BY DEF Within, WithinOr
<1>2. WithinOr(Append(q, record), q, record)
  BY DEF WithinOr
<1>3. q # <<>> => Within(Front(q), q)
  BY FrontShorter DEF Within
<1>4. q # <<>> => WithinOr(Front(q), q, record)
  BY <1>3 DEF Within, WithinOr
<1>5. QED
  BY <1>1, <1>2, <1>3, <1>4

\* What a push leaves was there before, or is the record in its section.
LEMMA PushDraws ==
    ASSUME NEW rec \in RecorderType, NEW v \in Completed, NEW record \in SpanRecord, Ledger(rec, v)
    PROVE  Draws(PushCompleted(rec, record), rec, record)
<1> DEFINE r == PushCompleted(rec, record)
<1>1. /\ rec.requests \in Seq(SpanRecord) /\ rec.stages \in Seq(SpanRecord)
      /\ rec.queues \in Seq(SpanRecord)
  BY DEF RecorderType
<1>2. CASE CompletedTotal(rec) < MaxCompleted
  <2>1. rec.requests = v.requests /\ rec.stages = v.stages /\ rec.queues = v.queues
    BY <1>2, PushWithRoom DEF Ledger
  <2>2. /\ r.requests = Pushed(v, record).requests /\ r.stages = Pushed(v, record).stages
        /\ r.queues = Pushed(v, record).queues
    BY <1>2, PushWithRoom
  <2>3. \/ /\ record.kind = "request"
           /\ r.requests = Append(rec.requests, record)
           /\ r.stages = rec.stages /\ r.queues = rec.queues
        \/ /\ record.kind = "stage"
           /\ r.stages = Append(rec.stages, record)
           /\ r.requests = rec.requests /\ r.queues = rec.queues
        \/ /\ record.kind = "queue"
           /\ r.queues = Append(rec.queues, record)
           /\ r.requests = rec.requests /\ r.stages = rec.stages
    BY <2>1, <2>2, SectionOfRecord DEF Pushed, Completed
  <2> HIDE DEF r
  <2>4. Draws(r, rec, record)
    BY <1>1, <2>3, SectionDraws DEF Draws
  <2>5. QED
    BY <2>4 DEF r
<1>3. CASE ~(CompletedTotal(rec) < MaxCompleted) /\ record.kind # "request"
  <2>1. r.requests = rec.requests /\ r.stages = rec.stages /\ r.queues = rec.queues
    BY <1>3, ChildDropped
  <2>2. QED
    BY <1>1, <2>1, SectionDraws DEF Draws
<1>4. CASE /\ ~(CompletedTotal(rec) < MaxCompleted) /\ record.kind = "request"
           /\ rec.queues = <<>> /\ rec.stages = <<>>
  <2>1. r.requests = rec.requests /\ r.stages = rec.stages /\ r.queues = rec.queues
    BY <1>4, RequestDropped
  <2>2. QED
    BY <1>1, <2>1, SectionDraws DEF Draws
<1>5. CASE /\ ~(CompletedTotal(rec) < MaxCompleted) /\ record.kind = "request"
           /\ rec.queues # <<>> \/ rec.stages # <<>>
  <2>1. /\ r.requests = Append(rec.requests, record)
        /\ \/ rec.queues # <<>> /\ r.stages = rec.stages /\ r.queues = Front(rec.queues)
           \/ rec.stages # <<>> /\ r.queues = rec.queues /\ r.stages = Front(rec.stages)
    BY <1>5, ChildEvicted
  <2> HIDE DEF r
  <2>2. Draws(r, rec, record)
    BY <1>1, <1>5, <2>1, SectionDraws DEF Draws
  <2>3. QED
    BY <2>2 DEF r
<1>6. QED
  BY <1>2, <1>3, <1>4, <1>5

\* A span in one of the layer's phases, with one reading.
LEMMA SpanMoves ==
    ASSUME TypedInv, NEW sp \in Spans, NEW pc \in {"starting", "live", "closed"},
           NEW ws \in Int, NEW at \in Nat,
           span' = [span EXCEPT ![sp] = [span[sp] EXCEPT !.pc = pc, !.ws = ws, !.at = at]],
           DOMAIN recorder.open \ {sp} \subseteq DOMAIN recorder'.open
    PROVE  span' \in [Spans -> SpanType] /\ \A x \in Spans : SpanPhase(x)'
<1> DEFINE new == [span[sp] EXCEPT !.pc = pc, !.ws = ws, !.at = at]
<1>1. span[sp] \in SpanType
  BY DEF TypedInv
<1>2. new \in SpanType /\ new.pc = pc /\ new.ws = ws /\ new.at = at
  BY <1>1 DEF SpanType
<1> HIDE DEF new
<1>3. span' = [span EXCEPT ![sp] = new] /\ span \in [Spans -> SpanType]
  BY DEF new, TypedInv
<1>4. span' \in [Spans -> SpanType] /\ span'[sp] = new /\ \A x \in Spans \ {sp} : span'[x] = span[x]
  BY <1>2, <1>3
<1>5. SpanPhase(sp)'
  BY <1>2, <1>4 DEF SpanPhase
<1>6. ASSUME NEW x \in Spans \ {sp} PROVE SpanPhase(x)'
  <2>1. span'[x] = span[x] /\ SpanPhase(x)
    BY <1>4 DEF TypedInv
  <2>2. x \in DOMAIN recorder.open => x \in DOMAIN recorder'.open
    OBVIOUS
  <2>3. QED
    BY <2>1, <2>2 DEF SpanPhase
<1>7. QED
  BY <1>4, <1>5, <1>6

\* duration_us_between is an integer, whatever the instants.
LEMMA DurationInt ==
    ASSUME NEW a \in Int, NEW b \in Int
    PROVE  DurationUs(a, b) \in Int
BY SessionAssumption DEF DurationUs

\* on_new_span before the lock: the readings have their types.
LEMMA NewSpanTyped ==
    ASSUME TypedInv, NEW sp \in Spans, NewSpan(sp)
    PROVE  TypedInv' /\ UNCHANGED <<recorder, valid>>
<1>1. UNCHANGED <<recorder, valid>> /\ span[sp].pc = "new"
  BY DEF NewSpan
<1>2. span[sp] \in SpanType /\ span[sp].ws \in Int /\ span[sp].at \in Nat
  BY <1>1 DEF TypedInv, SpanPhase
<1>3. CASE Candidate(sp)
  <2>1. ReadClocks(sp, "starting")
    BY <1>3 DEF NewSpan
  <2>2. PICK d \in Steps[sp], w \in WallReadings[sp] :
            /\ instant' = instant + d
            /\ span' = [span EXCEPT ![sp].pc = "starting", ![sp].ws = w, ![sp].at = instant']
    BY <2>1 DEF ReadClocks
  <2>3. d \in Nat /\ w \in Int /\ instant' \in Nat
    BY <2>2, SessionAssumption DEF TypedInv
  <2>4. span' = [span EXCEPT ![sp] = [span[sp] EXCEPT !.pc = "starting", !.ws = w, !.at = instant']]
    BY <2>2 DEF TypedInv
  <2>5. span' \in [Spans -> SpanType] /\ \A x \in Spans : SpanPhase(x)'
    BY <1>1, <2>3, <2>4, SpanMoves
  <2>6. QED
    BY <1>1, <2>3, <2>5 DEF TypedInv
<1>4. CASE ~Candidate(sp)
  <2>1. instant' = instant /\ span' = [span EXCEPT ![sp].pc = "live"]
    BY <1>4 DEF NewSpan
  <2>2. span' = [span EXCEPT ![sp] = [span[sp] EXCEPT !.pc = "live", !.ws = span[sp].ws, !.at = span[sp].at]]
    BY <2>1, <1>2 DEF TypedInv, SpanType
  <2>3. span' \in [Spans -> SpanType] /\ \A x \in Spans : SpanPhase(x)'
    BY <1>1, <1>2, <2>2, SpanMoves
  <2>4. QED
    BY <1>1, <2>1, <2>3 DEF TypedInv
<1>5. QED
  BY <1>1, <1>3, <1>4

\* A table of open spans, and one entry more or less.
LEMMA OpenTables ==
    ASSUME NEW open \in UNION {[some -> OpenType] : some \in SUBSET Spans}
    PROVE  /\ open \in [DOMAIN open -> OpenType] /\ DOMAIN open \in SUBSET Spans
           /\ \A D \in SUBSET Spans : \A f \in [D -> OpenType] :
                  f \in UNION {[some -> OpenType] : some \in SUBSET Spans}
OBVIOUS

\* The recorder with another table of open spans.
LEMMA WithOpen ==
    ASSUME NEW rec \in RecorderType, NEW D \in SUBSET Spans, NEW f \in [D -> OpenType],
           NEW r, r = [rec EXCEPT !.open = f]
    PROVE  /\ r \in RecorderType /\ r.open = f /\ r.stats = rec.stats
           /\ r.requests = rec.requests /\ r.stages = rec.stages /\ r.queues = rec.queues
<1>1. f \in UNION {[some -> OpenType] : some \in SUBSET Spans}
  OBVIOUS
<1>2. r \in RecorderType
  BY <1>1 DEF RecorderType
<1>3. QED
  BY <1>2 DEF RecorderType

\* The recorder with other counters.
LEMMA WithStats ==
    ASSUME NEW rec \in RecorderType, NEW st \in [Counters -> Nat],
           NEW r, r = [rec EXCEPT !.stats = st]
    PROVE  /\ r \in RecorderType /\ r.open = rec.open /\ r.stats = st
           /\ r.requests = rec.requests /\ r.stages = rec.stages /\ r.queues = rec.queues
<1>1. r \in RecorderType
  BY DEF RecorderType
<1>2. QED
  BY <1>1 DEF RecorderType

\* A ledger looks at the sections and at three counters only.
LEMMA LedgerSame ==
    ASSUME NEW rec, NEW r, NEW v, Ledger(rec, v),
           r.requests = rec.requests, r.stages = rec.stages, r.queues = rec.queues,
           \A k \in LossCounters : r.stats[k] = rec.stats[k]
    PROVE  Ledger(r, v)
<1>1. Losses(r) = Losses(rec)
  BY DEF Losses, LossCounters
<1>2. CompletedTotal(r) = CompletedTotal(rec)
  BY DEF CompletedTotal
<1>3. QED
  BY <1>1, <1>2 DEF Ledger

RetentionInv == TypedInv /\ Ledger(recorder, valid)

\* on_new_span under the lock: the span is dropped and counted, or opened.
LEMMA InsertDoes ==
    ASSUME RetentionInv, NEW sp \in Spans, InsertSpan(sp)
    PROVE  /\ recorder' \in RecorderType
           /\ recorder'.requests = recorder.requests /\ recorder'.stages = recorder.stages
           /\ recorder'.queues = recorder.queues
           /\ \/ /\ recorder'.open = recorder.open
                 /\ recorder'.stats = [recorder.stats EXCEPT !["dropped_open"] =
                                          recorder.stats["dropped_open"] + 1]
              \/ /\ DOMAIN recorder'.open = DOMAIN recorder.open \cup {sp}
                 /\ recorder'.open[sp] = OpenSpan(sp)
                 /\ \A x \in DOMAIN recorder.open \ {sp} : recorder'.open[x] = recorder.open[x]
                 /\ recorder'.stats = recorder.stats
<1> USE DEF RetentionInv
<1>1. span[sp].pc = "starting"
  BY DEF InsertSpan
<1>2. span[sp] \in SpanType /\ span[sp].ws \in Int /\ span[sp].at \in Nat /\ recorder \in RecorderType
  BY <1>1 DEF TypedInv, SpanPhase
<1>3. CASE Cardinality(DOMAIN recorder.open) >= MaxOpen
  <2> DEFINE st == [recorder.stats EXCEPT !["dropped_open"] = recorder.stats["dropped_open"] + 1]
  <2>1. recorder' = [recorder EXCEPT !.stats = st]
    BY <1>2, <1>3 DEF InsertSpan, RecorderType
  <2>2. "dropped_open" \in Counters
    BY DEF Counters
  <2>3. recorder.stats \in [Counters -> Nat]
    BY <1>2 DEF RecorderType
  <2>4. st \in [Counters -> Nat]
    BY <2>2, <2>3, Counted
  <2> HIDE DEF st
  <2>5. /\ recorder' \in RecorderType /\ recorder'.open = recorder.open /\ recorder'.stats = st
        /\ recorder'.requests = recorder.requests /\ recorder'.stages = recorder.stages
        /\ recorder'.queues = recorder.queues
    BY <1>2, <2>1, <2>4, WithStats
  <2>6. QED
    BY <2>5 DEF st
<1>4. CASE ~(Cardinality(DOMAIN recorder.open) >= MaxOpen)
  <2> DEFINE D == DOMAIN recorder.open \cup {sp}
             f == [x \in D |-> IF x = sp THEN OpenSpan(sp) ELSE recorder.open[x]]
  <2>1. recorder' = [recorder EXCEPT !.open = f]
    BY <1>2, <1>4 DEF InsertSpan, RecorderType
  <2>2. OpenSpan(sp) \in OpenType
    <3>1. DurationUs(0, span[sp].at) \in Int
      BY <1>2, DurationInt, 0 \in Int, span[sp].at \in Int
    <3>2. span[sp].fields \in FieldSet
      BY <1>2 DEF SpanType
    <3>3. QED
      BY <3>1, <3>2, <1>2 DEF OpenSpan, OpenType
  <2>3. recorder.open \in [DOMAIN recorder.open -> OpenType] /\ DOMAIN recorder.open \in SUBSET Spans
    BY <1>2, OpenTables DEF RecorderType
  <2>4. D \in SUBSET Spans /\ f \in [D -> OpenType]
    BY <2>2, <2>3
  <2>5. /\ f[sp] = OpenSpan(sp)
        /\ \A x \in DOMAIN recorder.open \ {sp} : f[x] = recorder.open[x]
    OBVIOUS
  <2> HIDE DEF D, f
  <2>6. /\ recorder' \in RecorderType /\ recorder'.open = f /\ recorder'.stats = recorder.stats
        /\ recorder'.requests = recorder.requests /\ recorder'.stages = recorder.stages
        /\ recorder'.queues = recorder.queues
    BY <1>2, <2>1, <2>4, WithOpen
  <2>7. DOMAIN recorder'.open = D
    BY <2>4, <2>6
  <2>8. QED
    BY <2>5, <2>6, <2>7 DEF D
<1>5. QED
  BY <1>3, <1>4

\* on_new_span under the lock preserves the types and the ledger.
LEMMA InsertRetention ==
    ASSUME RetentionInv, NEW sp \in Spans, InsertSpan(sp)
    PROVE  RetentionInv'
<1> USE DEF RetentionInv
<1>1. /\ UNCHANGED <<valid, instant>> /\ span[sp].pc = "starting"
      /\ span' = [span EXCEPT ![sp].pc = "live"]
  BY DEF InsertSpan
<1>2. span[sp] \in SpanType /\ span[sp].ws \in Int /\ span[sp].at \in Nat /\ recorder \in RecorderType
  BY <1>1 DEF TypedInv, SpanPhase
<1>3. span' = [span EXCEPT ![sp] = [span[sp] EXCEPT !.pc = "live", !.ws = span[sp].ws, !.at = span[sp].at]]
  BY <1>1, <1>2 DEF TypedInv, SpanType
<1>4. /\ recorder' \in RecorderType /\ DOMAIN recorder.open \subseteq DOMAIN recorder'.open
      /\ recorder'.requests = recorder.requests /\ recorder'.stages = recorder.stages
      /\ recorder'.queues = recorder.queues
      /\ \A k \in LossCounters : recorder'.stats[k] = recorder.stats[k]
  <2>1. recorder.stats \in [Counters -> Nat]
    BY <1>2 DEF RecorderType
  <2>2. LossCounters \subseteq Counters \ {"dropped_open"}
    BY DEF Counters, LossCounters
  <2>3. QED
    BY <2>1, <2>2, InsertDoes
<1>5. span' \in [Spans -> SpanType] /\ \A x \in Spans : SpanPhase(x)'
  BY <1>2, <1>3, <1>4, SpanMoves
<1>6. Ledger(recorder', valid)
  BY <1>4, LedgerSame
<1>7. QED
  BY <1>1, <1>4, <1>5, <1>6 DEF TypedInv

\* on_record merges values of the fields' own types.
LEMMA MergedFields ==
    ASSUME NEW sp \in Spans, NEW fields \in FieldSet
    PROVE  [f \in DOMAIN fields |->
               IF f \in DOMAIN Plan[sp].later THEN Plan[sp].later[f] ELSE fields[f]] \in FieldSet
<1> DEFINE later == Plan[sp].later
           val(f) == IF f \in DOMAIN later THEN later[f] ELSE fields[f]
<1>1. \A f \in DOMAIN later : later[f] \in FieldValues[f]
  BY SessionAssumption
<1>2. /\ FieldValues["kind"] = FieldValues.kind
      /\ FieldValues["id"] = STRING /\ FieldValues["name"] = STRING /\ FieldValues["opt"] = STRING
  BY DEF FieldValues
<1>3. DOMAIN fields = {"kind", "id", "name", "opt"}
  BY DEF FieldSet
<1>4. /\ fields["kind"] \in FieldValues.kind
      /\ fields["id"] \in STRING /\ fields["name"] \in STRING /\ fields["opt"] \in STRING
  BY DEF FieldSet
<1> HIDE DEF later
<1>5. val("kind") \in FieldValues.kind /\ val("id") \in STRING /\ val("name") \in STRING /\ val("opt") \in STRING
  BY <1>1, <1>2, <1>4
<1>6. [f \in {"kind", "id", "name", "opt"} |-> val(f)] \in FieldSet
  BY <1>5 DEF FieldSet
<1>7. QED
  BY <1>3, <1>6 DEF later

\* on_record changes no more than the fields of an open span.
LEMMA RecordDoes ==
    ASSUME RetentionInv, NEW sp \in Spans, RecordFields(sp)
    PROVE  /\ recorder' \in RecorderType /\ DOMAIN recorder'.open = DOMAIN recorder.open
           /\ recorder'.requests = recorder.requests /\ recorder'.stages = recorder.stages
           /\ recorder'.queues = recorder.queues /\ recorder'.stats = recorder.stats
           /\ \A x \in DOMAIN recorder.open : /\ recorder'.open[x].at = recorder.open[x].at
                                             /\ recorder'.open[x].s = recorder.open[x].s
<1> USE DEF RetentionInv
<1>0. recorder \in RecorderType
  BY DEF TypedInv
<1>1. CASE sp \notin DOMAIN recorder.open
  BY <1>0, <1>1 DEF RecordFields
<1>2. CASE sp \in DOMAIN recorder.open
  <2> DEFINE D      == DOMAIN recorder.open
             old    == recorder.open[sp].fields
             merged == [f \in DOMAIN old |->
                           IF f \in DOMAIN Plan[sp].later THEN Plan[sp].later[f] ELSE old[f]]
             entry  == [recorder.open[sp] EXCEPT !.fields = merged]
             table  == [recorder.open EXCEPT ![sp] = entry]
  <2>1. recorder.open \in [D -> OpenType] /\ D \in SUBSET Spans
    BY <1>0, OpenTables DEF RecorderType
  <2>2. old \in FieldSet
    BY <1>2, <2>1 DEF OpenType
  <2>3. merged \in FieldSet
    BY <2>2, MergedFields
  <2>4. recorder' = [recorder EXCEPT !.open = table]
    BY <1>0, <1>2 DEF RecordFields, RecorderType
  <2> HIDE DEF merged
  <2>5. entry \in OpenType /\ entry.at = recorder.open[sp].at /\ entry.s = recorder.open[sp].s
    BY <1>2, <2>1, <2>3 DEF OpenType
  <2> HIDE DEF entry
  <2>6. table \in [D -> OpenType]
    BY <1>2, <2>1, <2>5
  <2>7. \A x \in D : table[x].at = recorder.open[x].at /\ table[x].s = recorder.open[x].s
    BY <1>2, <2>1, <2>5
  <2> HIDE DEF table, D
  <2>8. /\ recorder' \in RecorderType /\ recorder'.open = table /\ recorder'.stats = recorder.stats
        /\ recorder'.requests = recorder.requests /\ recorder'.stages = recorder.stages
        /\ recorder'.queues = recorder.queues
    BY <1>0, <2>1, <2>4, <2>6, WithOpen
  <2>9. QED
    BY <2>6, <2>7, <2>8 DEF D
<1>3. QED
  BY <1>1, <1>2

\* on_record preserves the types and the ledger.
LEMMA RecordRetention ==
    ASSUME RetentionInv, NEW sp \in Spans, RecordFields(sp)
    PROVE  RetentionInv'
<1> USE DEF RetentionInv
<1>1. /\ UNCHANGED <<valid, instant>> /\ span[sp].pc = "live"
      /\ span' = [span EXCEPT ![sp].recorded = TRUE]
  BY DEF RecordFields
<1>2. span[sp] \in SpanType /\ span[sp].ws \in Int /\ span[sp].at \in Nat /\ recorder \in RecorderType
  BY <1>1 DEF TypedInv, SpanPhase
<1>3. /\ recorder' \in RecorderType /\ DOMAIN recorder'.open = DOMAIN recorder.open
      /\ recorder'.requests = recorder.requests /\ recorder'.stages = recorder.stages
      /\ recorder'.queues = recorder.queues /\ recorder'.stats = recorder.stats
  BY RecordDoes
<1>4. span' \in [Spans -> SpanType] /\ \A x \in Spans : SpanPhase(x)'
  <2>1. span' = [span EXCEPT ![sp] = [span[sp] EXCEPT !.recorded = TRUE]] /\ span \in [Spans -> SpanType]
    BY <1>1 DEF TypedInv
  <2> DEFINE new == [span[sp] EXCEPT !.recorded = TRUE]
  <2>2. new \in SpanType /\ new.pc = "live" /\ new.ws = span[sp].ws /\ new.at = span[sp].at
    BY <1>1, <1>2 DEF SpanType
  <2> HIDE DEF new
  <2>3. span' = [span EXCEPT ![sp] = new]
    BY <2>1 DEF new
  <2>4. span' \in [Spans -> SpanType] /\ span'[sp] = new /\ \A x \in Spans \ {sp} : span'[x] = span[x]
    BY <2>1, <2>2, <2>3
  <2>5. SpanPhase(sp)'
    BY <1>2, <2>2, <2>4 DEF SpanPhase
  <2>6. ASSUME NEW x \in Spans \ {sp} PROVE SpanPhase(x)'
    BY <1>3, <2>4 DEF SpanPhase, TypedInv
  <2>7. QED
    BY <2>4, <2>5, <2>6
<1>5. Ledger(recorder', valid)
  BY <1>3, LedgerSame
<1>6. QED
  BY <1>1, <1>3, <1>4, <1>5 DEF TypedInv

\* on_close before the lock: a closing span has both readings, and its entry.
LEMMA CloseTyped ==
    ASSUME TypedInv, NEW sp \in Spans, CloseSpan(sp)
    PROVE  TypedInv' /\ UNCHANGED <<recorder, valid>>
<1>1. UNCHANGED <<recorder, valid>> /\ span[sp].pc = "live"
  BY DEF CloseSpan
<1>2. span[sp] \in SpanType /\ span[sp].ws \in Int /\ span[sp].at \in Nat
  BY <1>1 DEF TypedInv, SpanPhase
<1>3. CASE sp \in DOMAIN recorder.open
  <2>1. ReadClocks(sp, "closing")
    BY <1>3 DEF CloseSpan
  <2>2. PICK d \in Steps[sp], w \in WallReadings[sp] :
            /\ instant' = instant + d
            /\ span' = [span EXCEPT ![sp].pc = "closing", ![sp].ws = <<span[sp].ws, w>>,
                                    ![sp].at = <<span[sp].at, instant'>>]
    BY <2>1 DEF ReadClocks
  <2>3. d \in Nat /\ w \in Int /\ instant' \in Nat
    BY <2>2, SessionAssumption DEF TypedInv
  <2> DEFINE new == [span[sp] EXCEPT !.pc = "closing", !.ws = <<span[sp].ws, w>>,
                                     !.at = <<span[sp].at, instant'>>]
  <2>4. span' = [span EXCEPT ![sp] = new] /\ span \in [Spans -> SpanType]
    BY <2>2 DEF TypedInv
  <2>5. /\ new \in SpanType /\ new.pc = "closing"
        /\ new.ws = <<span[sp].ws, w>> /\ new.at = <<span[sp].at, instant'>>
    BY <1>2, <2>3 DEF SpanType
  <2>6. new.ws \in Int \X Int /\ new.at \in Nat \X Nat
    BY <1>2, <2>3, <2>5
  <2> HIDE DEF new
  <2>7. span' \in [Spans -> SpanType] /\ span'[sp] = new /\ \A x \in Spans \ {sp} : span'[x] = span[x]
    BY <2>4, <2>5
  <2>8. SpanPhase(sp)'
    BY <1>1, <1>3, <2>5, <2>6, <2>7 DEF SpanPhase
  <2>9. ASSUME NEW x \in Spans \ {sp} PROVE SpanPhase(x)'
    BY <1>1, <2>7 DEF SpanPhase, TypedInv
  <2>10. QED
    BY <1>1, <2>3, <2>7, <2>8, <2>9 DEF TypedInv
<1>4. CASE sp \notin DOMAIN recorder.open
  <2>1. instant' = instant /\ span' = [span EXCEPT ![sp].pc = "closed"]
    BY <1>4 DEF CloseSpan
  <2>2. span' = [span EXCEPT ![sp] = [span[sp] EXCEPT !.pc = "closed", !.ws = span[sp].ws, !.at = span[sp].at]]
    BY <2>1, <1>2 DEF TypedInv, SpanType
  <2>3. span' \in [Spans -> SpanType] /\ \A x \in Spans : SpanPhase(x)'
    BY <1>1, <1>2, <2>2, SpanMoves
  <2>4. QED
    BY <1>1, <2>1, <2>3 DEF TypedInv
<1>5. QED
  BY <1>1, <1>3, <1>4

RefusalCounters == {"missing_kind", "unknown_kind", "malformed_kind", "incomplete"}

\* A refused span goes to one of the refusal counters.
LEMMA RefusalIs ==
    ASSUME NEW open \in OpenType
    PROVE  /\ Refusal(open) \in RefusalCounters \cup {"none"}
           /\ Refusal(open) = "none" => open.fields.kind \in {"request", "stage", "queue"}
<1> DEFINE kind == open.fields.kind
<1>1. DOMAIN SectionOf = {"request", "stage", "queue"}
  BY DEF SectionOf
<1>2. DOMAIN KindCounter = {"missing", "unknown", "malformed"}
  BY DEF KindCounter
<1>3. kind \in DOMAIN SectionOf \cup DOMAIN KindCounter
  BY DEF OpenType, FieldSet, FieldValues
<1>4. CASE kind \in DOMAIN SectionOf
  BY <1>1, <1>4 DEF Refusal, RefusalCounters
<1>5. CASE kind \notin DOMAIN SectionOf
  <2>1. kind \in {"missing", "unknown", "malformed"} /\ Refusal(open) = KindCounter[kind]
    BY <1>2, <1>3, <1>5 DEF Refusal
  <2>2. KindCounter[kind] \in {"missing_kind", "unknown_kind", "malformed_kind"}
    BY <2>1 DEF KindCounter
  <2>3. QED
    BY <2>1, <2>2 DEF RefusalCounters
<1>6. QED
  BY <1>4, <1>5

\* What on_close makes of an accepted span is a completed record.
LEMMA ClosedRecordTyped ==
    ASSUME TypedInv, NEW sp \in Spans, span[sp].pc = "closing",
           Refusal(recorder.open[sp]) = "none"
    PROVE  ClosedRecord(sp) \in SpanRecord
<1> DEFINE open == recorder.open[sp]
<1>1. span[sp].ws \in Int \X Int /\ span[sp].at \in Nat \X Nat /\ sp \in DOMAIN recorder.open
  BY DEF TypedInv, SpanPhase
<1>2. open \in OpenType
  BY <1>1, OpenTables DEF TypedInv, RecorderType
<1>3. /\ open.fields \in FieldSet /\ open.ws \in Int /\ open.s \in Int /\ open.at \in Int
      /\ open.fields.kind \in {"request", "stage", "queue"}
  BY <1>2, RefusalIs DEF OpenType
<1>4. open.fields.id \in STRING /\ open.fields.name \in STRING /\ open.fields.opt \in STRING
  BY <1>3 DEF FieldSet
<1>5. span[sp].ws[2] \in Int /\ span[sp].at[2] \in Int
  BY <1>1
<1>6. DurationUs(0, span[sp].at[2]) \in Int /\ DurationUs(open.at, span[sp].at[2]) \in Int
  BY <1>3, <1>5, DurationInt, 0 \in Int
<1> HIDE DEF open
<1>7. ClosedRecord(sp) =
        [span |-> sp, kind |-> open.fields.kind, id |-> open.fields.id, name |-> open.fields.name,
         opt |-> open.fields.opt, ws |-> open.ws, wf |-> span[sp].ws[2],
         s |-> open.s, e |-> DurationUs(0, span[sp].at[2]),
         dur |-> DurationUs(open.at, span[sp].at[2])]
  BY DEF ClosedRecord, open
<1>8. QED
  BY <1>3, <1>4, <1>5, <1>6, <1>7 DEF SpanRecord

\* What a closed span's readings are reset to.
LEMMA ZeroTyped == 0 \in Int /\ 0 \in Nat
OBVIOUS

\* on_close under the lock: the entry goes, and the span is refused and
\* counted, or pushed.
LEMMA FinishDoes ==
    ASSUME RetentionInv, NEW sp \in Spans, FinishClose(sp)
    PROVE  /\ span[sp].pc = "closing" /\ sp \in DOMAIN recorder.open /\ UNCHANGED instant
           /\ span' \in [Spans -> SpanType] /\ span'[sp].pc = "closed"
           /\ \A x \in Spans \ {sp} : span'[x] = span[x]
           /\ \A x \in Spans : SpanPhase(x)'
           /\ recorder' \in RecorderType
           /\ DOMAIN recorder'.open = DOMAIN recorder.open \ {sp}
           /\ \A x \in DOMAIN recorder'.open : recorder'.open[x] = recorder.open[x]
           /\ \/ /\ Refusal(recorder.open[sp]) \in RefusalCounters /\ valid' = valid
                 /\ recorder'.stats = [recorder.stats EXCEPT ![Refusal(recorder.open[sp])] =
                                          recorder.stats[Refusal(recorder.open[sp])] + 1]
                 /\ recorder'.requests = recorder.requests /\ recorder'.stages = recorder.stages
                 /\ recorder'.queues = recorder.queues
              \/ /\ Refusal(recorder.open[sp]) = "none" /\ ClosedRecord(sp) \in SpanRecord
                 /\ valid' = Pushed(valid, ClosedRecord(sp))
                 /\ Ledger(recorder', valid')
                 /\ \A k \in Counters \ LossCounters : recorder'.stats[k] = recorder.stats[k]
                 /\ Draws(recorder', recorder, ClosedRecord(sp))
<1> USE DEF RetentionInv
<1> DEFINE D       == DOMAIN recorder.open \ {sp}
           rest    == [x \in D |-> recorder.open[x]]
           closed  == [recorder EXCEPT !.open = rest]
           refusal == Refusal(recorder.open[sp])
<1>1. /\ span[sp].pc = "closing" /\ UNCHANGED instant
      /\ span' = [span EXCEPT ![sp].pc = "closed", ![sp].ws = 0, ![sp].at = 0]
  BY DEF FinishClose
<1>2. recorder \in RecorderType /\ sp \in DOMAIN recorder.open /\ span[sp] \in SpanType
  BY <1>1 DEF TypedInv, SpanPhase
<1>3. recorder.open \in [DOMAIN recorder.open -> OpenType] /\ DOMAIN recorder.open \in SUBSET Spans
  BY <1>2, OpenTables DEF RecorderType
<1>4. recorder.open[sp] \in OpenType /\ D \in SUBSET Spans /\ rest \in [D -> OpenType]
  BY <1>2, <1>3
<1>5. /\ recorder' = IF refusal # "none" THEN [closed EXCEPT !.stats[refusal] = @ + 1]
                     ELSE PushCompleted(closed, ClosedRecord(sp))
      /\ valid' = IF refusal # "none" THEN valid ELSE Pushed(valid, ClosedRecord(sp))
  BY DEF FinishClose, Pushed
<1>6. refusal \in RefusalCounters \cup {"none"}
  BY <1>4, RefusalIs
<1> HIDE DEF rest, refusal
<1>7. /\ closed \in RecorderType /\ closed.open = rest /\ closed.stats = recorder.stats
      /\ closed.requests = recorder.requests /\ closed.stages = recorder.stages
      /\ closed.queues = recorder.queues
  BY <1>2, <1>4, WithOpen
<1> HIDE DEF closed
<1>8. Ledger(closed, valid)
  BY <1>7, LedgerSame
<1>9. DOMAIN rest = D /\ \A x \in D : rest[x] = recorder.open[x]
  BY DEF rest
<1>10. SUFFICES
        /\ recorder' \in RecorderType /\ recorder'.open = rest
        /\ \/ /\ refusal \in RefusalCounters /\ valid' = valid
              /\ recorder'.stats = [recorder.stats EXCEPT ![refusal] = recorder.stats[refusal] + 1]
              /\ recorder'.requests = recorder.requests /\ recorder'.stages = recorder.stages
              /\ recorder'.queues = recorder.queues
           \/ /\ refusal = "none" /\ ClosedRecord(sp) \in SpanRecord
              /\ valid' = Pushed(valid, ClosedRecord(sp))
              /\ Ledger(recorder', valid')
              /\ \A k \in Counters \ LossCounters : recorder'.stats[k] = recorder.stats[k]
              /\ Draws(recorder', recorder, ClosedRecord(sp))
  <2>1. span' = [span EXCEPT ![sp] = [span[sp] EXCEPT !.pc = "closed", !.ws = 0, !.at = 0]]
    BY <1>1 DEF TypedInv
  <2>2. DOMAIN recorder.open \ {sp} \subseteq DOMAIN recorder'.open
    BY <1>9, <1>10
  <2>3. span' \in [Spans -> SpanType] /\ \A x \in Spans : SpanPhase(x)'
    BY <2>1, <2>2, SpanMoves, ZeroTyped
  <2>4. span'[sp].pc = "closed" /\ \A x \in Spans \ {sp} : span'[x] = span[x]
    BY <1>2, <2>1 DEF TypedInv, SpanType
  <2>5. QED
    BY <1>1, <1>2, <1>9, <1>10, <2>3, <2>4 DEF refusal
<1>11. CASE refusal # "none"
  <2> DEFINE st == [closed.stats EXCEPT ![refusal] = closed.stats[refusal] + 1]
  <2>1. refusal \in RefusalCounters /\ refusal \in Counters
    BY <1>6, <1>11 DEF RefusalCounters, Counters
  <2>2. recorder' = [closed EXCEPT !.stats = st] /\ valid' = valid
    BY <1>5, <1>7, <1>11 DEF RecorderType
  <2>3. st \in [Counters -> Nat]
    BY <1>7, <2>1, Counted DEF RecorderType
  <2> HIDE DEF st
  <2>4. /\ recorder' \in RecorderType /\ recorder'.open = rest /\ recorder'.stats = st
        /\ recorder'.requests = closed.requests /\ recorder'.stages = closed.stages
        /\ recorder'.queues = closed.queues
    BY <1>7, <2>2, <2>3, WithStats
  <2>5. st = [recorder.stats EXCEPT ![refusal] = recorder.stats[refusal] + 1]
    BY <1>7 DEF st
  <2>6. QED
    BY <1>7, <2>1, <2>2, <2>4, <2>5
<1>12. CASE refusal = "none"
  <2>1. /\ ClosedRecord(sp) \in SpanRecord
    BY <1>1, <1>12, ClosedRecordTyped DEF refusal
  <2>2. valid \in Completed
    BY DEF TypedInv
  <2> DEFINE record == ClosedRecord(sp)
  <2> HIDE DEF record
  <2>3. record \in SpanRecord /\ recorder' = PushCompleted(closed, record) /\ valid' = Pushed(valid, record)
    BY <1>5, <1>12, <2>1 DEF record
  <2>4. /\ PushCompleted(closed, record) \in RecorderType
        /\ Ledger(PushCompleted(closed, record), Pushed(valid, record))
        /\ PushCompleted(closed, record).open = closed.open
        /\ \A k \in Counters \ LossCounters : PushCompleted(closed, record).stats[k] = closed.stats[k]
    <3>1. CASE CompletedTotal(closed) < MaxCompleted
      BY <1>7, <1>8, <2>2, <2>3, <3>1, PushWithRoom, LedgerWithRoom
    <3>2. CASE ~(CompletedTotal(closed) < MaxCompleted)
      BY <1>7, <1>8, <2>2, <2>3, <3>2, LedgerAtCap
    <3>3. QED
      BY <3>1, <3>2
  <2>5. Draws(PushCompleted(closed, record), closed, record)
    BY <1>7, <1>8, <2>2, <2>3, PushDraws
  <2>6. Draws(recorder', recorder, record)
    BY <1>7, <2>3, <2>5 DEF Draws
  <2>7. QED
    BY <1>7, <1>12, <2>1, <2>3, <2>4, <2>6 DEF record
<1>13. QED
  BY <1>6, <1>11, <1>12

\* on_close under the lock preserves the types and the ledger.
LEMMA FinishRetention ==
    ASSUME RetentionInv, NEW sp \in Spans, FinishClose(sp)
    PROVE  RetentionInv'
<1>1. /\ UNCHANGED instant /\ span' \in [Spans -> SpanType] /\ \A x \in Spans : SpanPhase(x)'
      /\ recorder' \in RecorderType
  BY FinishDoes
<1>2. valid' \in Completed /\ Ledger(recorder', valid')
  <2> DEFINE refusal == Refusal(recorder.open[sp])
  <2>1. CASE /\ refusal \in RefusalCounters /\ valid' = valid
             /\ recorder'.stats = [recorder.stats EXCEPT ![refusal] = recorder.stats[refusal] + 1]
             /\ recorder'.requests = recorder.requests /\ recorder'.stages = recorder.stages
             /\ recorder'.queues = recorder.queues
    <3> HIDE DEF refusal
    <3>1. recorder.stats \in [Counters -> Nat]
      BY DEF RetentionInv, TypedInv, RecorderType
    <3>2. \A k \in LossCounters : k \in Counters /\ k # refusal
      BY <2>1 DEF LossCounters, Counters, RefusalCounters
    <3>3. \A k \in LossCounters : recorder'.stats[k] = recorder.stats[k]
      BY <2>1, <3>1, <3>2
    <3>4. Ledger(recorder', valid)
      <4>1. /\ recorder'.requests = recorder.requests /\ recorder'.stages = recorder.stages
            /\ recorder'.queues = recorder.queues
        BY <2>1
      <4>2. Ledger(recorder, valid)
        BY DEF RetentionInv
      <4>3. QED
        BY <3>3, <4>1, <4>2, LedgerSame
    <3>5. QED
      BY <2>1, <3>4 DEF RetentionInv, TypedInv
  <2>2. CASE /\ ClosedRecord(sp) \in SpanRecord /\ valid' = Pushed(valid, ClosedRecord(sp))
             /\ Ledger(recorder', valid')
    BY <2>2, PushedTyped DEF RetentionInv, TypedInv
  <2>3. QED
    BY <2>1, <2>2, FinishDoes
<1>3. QED
  BY <1>1, <1>2 DEF RetentionInv, TypedInv

\* An empty recorder owes nothing to an empty history.
LEMMA RetentionStarts ==
    ASSUME Init
    PROVE  RetentionInv
<1>1. /\ instant = 0 /\ recorder = EmptyRecorder
      /\ valid = [requests |-> <<>>, stages |-> <<>>, queues |-> <<>>]
      /\ span = [sp \in Spans |-> [pc |-> "new", fields |-> Plan[sp].fields, ws |-> 0, at |-> 0,
                                   recorded |-> FALSE]]
  BY DEF Init
<1>2. recorder.open = [sp \in {} |-> 0] /\ recorder.stats = [c \in Counters |-> 0]
  BY <1>1 DEF EmptyRecorder
<1>3. recorder.requests = <<>> /\ recorder.stages = <<>> /\ recorder.queues = <<>>
  BY <1>1 DEF EmptyRecorder
<1> DEFINE table == [sp \in {} |-> 0]
           zeros == [c \in Counters |-> 0]
<1>4. table \in UNION {[some -> OpenType] : some \in SUBSET Spans} /\ zeros \in [Counters -> Nat]
  <2>1. table \in [{} -> OpenType]
    OBVIOUS
  <2>2. {} \in SUBSET Spans
    OBVIOUS
  <2>3. QED
    BY <2>1, <2>2
<1>5. recorder \in RecorderType
  <2>1. recorder = [open |-> table, requests |-> <<>>, stages |-> <<>>, queues |-> <<>>,
                    stats |-> zeros]
    BY <1>1 DEF EmptyRecorder
  <2> HIDE DEF table, zeros
  <2>2. <<>> \in Seq(SpanRecord)
    BY EmptySeq
  <2>3. QED
    BY <1>4, <2>1, <2>2 DEF RecorderType
<1>6. valid \in Completed
  BY <1>1 DEF Completed
<1>7. span \in [Spans -> SpanType]
  BY <1>1, SessionAssumption DEF SpanType
<1>8. \A sp \in Spans : SpanPhase(sp)
  BY <1>1 DEF SpanPhase
<1>9. Ledger(recorder, valid)
  <2>1. CompletedTotal(recorder) = 0 /\ CompletedTotal(valid) = 0
    BY <1>1, <1>3 DEF CompletedTotal
  <2>2. Losses(recorder) = 0
    BY <1>2 DEF Losses, Counters
  <2>3. AtMost(0) = 0
    BY SessionAssumption DEF AtMost
  <2>4. QED
    BY <1>1, <1>3, <2>1, <2>2, <2>3 DEF Ledger
<1>10. QED
  BY <1>1, <1>5, <1>6, <1>7, <1>8, <1>9 DEF RetentionInv, TypedInv

\* A step outside of the layer leaves the recording alone.
LEMMA RetentionUntouched ==
    ASSUME RetentionInv, UNCHANGED recording
    PROVE  RetentionInv'
BY DEF RetentionInv, TypedInv, SpanPhase, Ledger, recording, CompletedTotal, Losses, AtMost

\* Every step preserves the types and the ledger.
LEMMA RetentionStep ==
    ASSUME RetentionInv, [Next]_vars
    PROVE  RetentionInv'
<1>1. ASSUME NEW sp \in Spans, NewSpan(sp) \/ CloseSpan(sp)
      PROVE  RetentionInv'
  <2>1. TypedInv' /\ UNCHANGED <<recorder, valid>>
    BY <1>1, NewSpanTyped, CloseTyped DEF RetentionInv
  <2>2. QED
    BY <2>1 DEF RetentionInv
<1>2. CASE BuildSession \/ SampleRuntime \/ StopSampling \/ ManualSnapshot \/ BeginShutdown \/ Shutdown
  <2>1. UNCHANGED recording
    BY <1>2 DEF BuildSession, SampleRuntime, StopSampling, ManualSnapshot, BeginShutdown, Shutdown,
                JoinSampler, TakeSnapshot, MergeAndCheck, WriteSpans, WriteRun
  <2>2. QED
    BY <2>1, RetentionUntouched
<1>3. CASE UNCHANGED vars
  BY <1>3, RetentionUntouched DEF vars
<1>4. QED
  BY <1>1, <1>2, <1>3, InsertRetention, RecordRetention, FinishRetention DEF Next

\* The retention ledger of any recorder: the requests kept are the first that
\* closed, the cap is used in full, and every complete candidate is kept or
\* counted.
THEOREM RetentionLedgerHolds == Spec => []RetentionLedger
<1>1. ASSUME RetentionInv PROVE RetentionLedger
  <2> DEFINE n == AtMost(Len(valid.requests))
  <2>1. /\ recorder.requests \in Seq(SpanRecord) /\ valid.requests \in Seq(SpanRecord)
        /\ MaxCompleted \in Nat /\ Len(valid.requests) \in Nat
    BY <1>1, SessionAssumption DEF RetentionInv, TypedInv, RecorderType, Completed
  <2>2. n \in Nat /\ n <= Len(valid.requests)
    BY <2>1 DEF AtMost
  <2>3. /\ Len(recorder.requests) = n /\ \A i \in 1..n : recorder.requests[i] = valid.requests[i]
        /\ CompletedTotal(recorder) = AtMost(CompletedTotal(valid))
        /\ CompletedTotal(valid) = CompletedTotal(recorder) + Losses(recorder)
    BY <1>1 DEF RetentionInv, Ledger
  <2> HIDE DEF n
  <2>4. \A i \in 1..n : valid.requests[i] \in SpanRecord
    BY <2>1, <2>2, ElementOfSeq
  <2>5. /\ SubSeq(valid.requests, 1, n) \in Seq(SpanRecord)
        /\ Len(SubSeq(valid.requests, 1, n)) = IF 1 <= n THEN n - 1 + 1 ELSE 0
        /\ \A i \in 1..n - 1 + 1 : SubSeq(valid.requests, 1, n)[i] = valid.requests[1 + i - 1]
    BY <2>2, <2>4, SubSeqProperties
  <2>6. Len(SubSeq(valid.requests, 1, n)) = n
    BY <2>2, <2>5
  <2>7. \A i \in 1..n : SubSeq(valid.requests, 1, n)[i] = valid.requests[i]
    BY <2>2, <2>5
  <2>8. recorder.requests = SubSeq(valid.requests, 1, n)
    BY <2>1, <2>3, <2>5, <2>6, <2>7, SeqEqual
  <2>9. Losses(recorder) = recorder.stats.dropped_request + recorder.stats.dropped_child
                            + recorder.stats.evicted_child
    BY DEF Losses
  <2>10. /\ CompletedTotal(recorder) \in Nat /\ recorder.stats.dropped_request \in Nat
         /\ recorder.stats.dropped_child \in Nat /\ recorder.stats.evicted_child \in Nat
    BY <1>1, LedgerNumbers DEF RetentionInv, TypedInv, RecorderType, Counters
  <2>11. QED
    BY <2>3, <2>8, <2>9, <2>10 DEF RetentionLedger, AtMost, n
<1>2. QED
  BY <1>1, RetentionStarts, RetentionStep, PTL DEF Spec

----------------------------------------------------------------------------
(* Every candidate that was let in is accounted for.                       *)

LetIn == {sp \in Spans : Candidate(sp) /\ span[sp].pc \in {"live", "closing", "closed"}}

Refused(rec) == rec.stats.dropped_open + rec.stats.missing_kind + rec.stats.unknown_kind
                + rec.stats.malformed_kind + rec.stats.incomplete

KindsMatch(v) ==
    /\ \A k \in 1..Len(v.requests) : v.requests[k].kind = "request"
    /\ \A k \in 1..Len(v.stages) : v.stages[k].kind = "stage"
    /\ \A k \in 1..Len(v.queues) : v.queues[k].kind = "queue"

\* Candidates that were let in are complete, still open, or refused.
Balance ==
    Cardinality(LetIn) = CompletedTotal(valid) + Cardinality(DOMAIN recorder.open) + Refused(recorder)

\* The inductive invariant behind StrictSnapshotComplete.
AccountInv ==
    /\ RetentionInv
    /\ KindsMatch(valid)
    /\ \A sp \in Spans : span[sp].pc = "starting" => Candidate(sp)
    /\ DOMAIN recorder.open \subseteq LetIn
    /\ Balance

\* The numbers of the balance.
LEMMA BalanceNumbers ==
    ASSUME RetentionInv
    PROVE  /\ IsFiniteSet(LetIn) /\ Cardinality(LetIn) \in Nat
           /\ DOMAIN recorder.open \subseteq Spans /\ IsFiniteSet(DOMAIN recorder.open)
           /\ Cardinality(DOMAIN recorder.open) \in Nat
           /\ CompletedTotal(valid) \in Nat /\ Refused(recorder) \in Nat
<1>1. recorder \in RecorderType /\ valid \in Completed
  BY DEF RetentionInv, TypedInv
<1>2. LetIn \subseteq Spans /\ DOMAIN recorder.open \subseteq Spans
  BY <1>1, OpenTables DEF LetIn, RecorderType
<1>3. IsFiniteSet(LetIn) /\ IsFiniteSet(DOMAIN recorder.open)
  BY <1>2, SessionAssumption, FS_Subset
<1>4. Cardinality(LetIn) \in Nat /\ Cardinality(DOMAIN recorder.open) \in Nat
  BY <1>3, FS_CardinalityType
<1>5. CompletedTotal(valid) \in Nat
  BY <1>1, LedgerNumbers
<1>6. Refused(recorder) \in Nat
  BY <1>1 DEF RecorderType, Refused, Counters
<1>7. QED
  BY <1>2, <1>3, <1>4, <1>5, <1>6

\* Counting one refusal, or one drop of a span that cannot be opened.
LEMMA RefusalCounted ==
    ASSUME NEW rec \in RecorderType, NEW r \in RecorderType,
           NEW c \in RefusalCounters \cup {"dropped_open"},
           r.stats = [rec.stats EXCEPT ![c] = rec.stats[c] + 1]
    PROVE  Refused(r) = Refused(rec) + 1
<1> DEFINE st == rec.stats
           tt == r.stats
<1>1. st \in [Counters -> Nat] /\ tt = [st EXCEPT ![c] = st[c] + 1] /\ c \in Counters
  BY DEF RecorderType, RefusalCounters, Counters
<1> HIDE DEF st, tt
<1>2. tt[c] = st[c] + 1 /\ \A k \in Counters \ {c} : tt[k] = st[k]
  BY <1>1
<1>3. \A k \in Counters : st[k] \in Nat
  BY <1>1
<1>4. /\ st.dropped_open \in Nat /\ st.missing_kind \in Nat /\ st.unknown_kind \in Nat
      /\ st.malformed_kind \in Nat /\ st.incomplete \in Nat
  BY <1>3 DEF Counters
<1>5. /\ c # "dropped_open" => tt.dropped_open = st.dropped_open
      /\ c # "missing_kind" => tt.missing_kind = st.missing_kind
      /\ c # "unknown_kind" => tt.unknown_kind = st.unknown_kind
      /\ c # "malformed_kind" => tt.malformed_kind = st.malformed_kind
      /\ c # "incomplete" => tt.incomplete = st.incomplete
  BY <1>2 DEF Counters
<1>6. \/ c = "dropped_open" /\ tt.dropped_open = st.dropped_open + 1
      \/ c = "missing_kind" /\ tt.missing_kind = st.missing_kind + 1
      \/ c = "unknown_kind" /\ tt.unknown_kind = st.unknown_kind + 1
      \/ c = "malformed_kind" /\ tt.malformed_kind = st.malformed_kind + 1
      \/ c = "incomplete" /\ tt.incomplete = st.incomplete + 1
  BY <1>2 DEF RefusalCounters
<1>7. tt.dropped_open + tt.missing_kind + tt.unknown_kind + tt.malformed_kind + tt.incomplete
      = st.dropped_open + st.missing_kind + st.unknown_kind + st.malformed_kind + st.incomplete + 1
  BY <1>4, <1>5, <1>6
<1>8. QED
  BY <1>7 DEF Refused, st, tt

\* A new span that is a candidate starts, at the instant just read; one that
\* is none is only live.
LEMMA NewSpanMoves ==
    ASSUME TypedInv, NEW sp \in Spans, NewSpan(sp)
    PROVE  /\ span[sp].pc = "new" /\ MayStart(sp)
           /\ \/ Candidate(sp) /\ span'[sp].pc = "starting" /\ span'[sp].at = instant'
              \/ ~Candidate(sp) /\ span'[sp].pc = "live"
           /\ \A x \in Spans \ {sp} : span'[x] = span[x]
           /\ instant \in Nat /\ instant' \in Nat /\ instant <= instant'
<1>1. span[sp].pc = "new" /\ MayStart(sp) /\ span \in [Spans -> SpanType] /\ instant \in Nat
  BY DEF NewSpan, TypedInv
<1>2. CASE Candidate(sp)
  <2>1. ReadClocks(sp, "starting")
    BY <1>2 DEF NewSpan
  <2>2. PICK d \in Steps[sp], w \in WallReadings[sp] :
            /\ instant' = instant + d
            /\ span' = [span EXCEPT ![sp].pc = "starting", ![sp].ws = w, ![sp].at = instant']
    BY <2>1 DEF ReadClocks
  <2>3. d \in Nat
    BY SessionAssumption
  <2>4. instant' \in Nat /\ instant <= instant'
    BY <1>1, <2>2, <2>3
  <2>5. /\ span'[sp].pc = "starting" /\ span'[sp].at = instant'
        /\ \A x \in Spans \ {sp} : span'[x] = span[x]
    BY <1>1, <2>2 DEF SpanType
  <2>6. QED
    BY <1>1, <1>2, <2>4, <2>5
<1>3. CASE ~Candidate(sp)
  <2>1. span' = [span EXCEPT ![sp].pc = "live"] /\ instant' = instant
    BY <1>3 DEF NewSpan
  <2>2. QED
    BY <1>1, <1>3, <2>1 DEF SpanType
<1>4. QED
  BY <1>2, <1>3

\* A live span that closes is closing, since the instant just read, or
\* closed.
LEMMA CloseMoves ==
    ASSUME TypedInv, NEW sp \in Spans, CloseSpan(sp)
    PROVE  /\ span[sp].pc = "live" /\ MayClose(sp)
           /\ \/ /\ sp \in DOMAIN recorder.open
                 /\ span'[sp].pc = "closing" /\ span'[sp].at[2] = instant'
              \/ sp \notin DOMAIN recorder.open /\ span'[sp].pc = "closed"
           /\ \A x \in Spans \ {sp} : span'[x] = span[x]
           /\ instant \in Nat /\ instant' \in Nat /\ instant <= instant'
<1>1. span[sp].pc = "live" /\ MayClose(sp) /\ span \in [Spans -> SpanType] /\ instant \in Nat
  BY DEF CloseSpan, TypedInv
<1>2. CASE sp \in DOMAIN recorder.open
  <2>1. ReadClocks(sp, "closing")
    BY <1>2 DEF CloseSpan
  <2>2. PICK d \in Steps[sp], w \in WallReadings[sp] :
            /\ instant' = instant + d
            /\ span' = [span EXCEPT ![sp].pc = "closing", ![sp].ws = <<span[sp].ws, w>>,
                                    ![sp].at = <<span[sp].at, instant'>>]
    BY <2>1 DEF ReadClocks
  <2>3. d \in Nat
    BY SessionAssumption
  <2>4. instant' \in Nat /\ instant <= instant'
    BY <1>1, <2>2, <2>3
  <2>5. /\ span'[sp].pc = "closing" /\ span'[sp].at = <<span[sp].at, instant'>>
        /\ \A x \in Spans \ {sp} : span'[x] = span[x]
    BY <1>1, <2>2 DEF SpanType
  <2>6. span'[sp].at[2] = instant'
    BY <2>5
  <2>7. QED
    BY <1>1, <1>2, <2>4, <2>5, <2>6
<1>3. CASE sp \notin DOMAIN recorder.open
  <2>1. span' = [span EXCEPT ![sp].pc = "closed"] /\ instant' = instant
    BY <1>3 DEF CloseSpan
  <2>2. QED
    BY <1>1, <1>3, <2>1 DEF SpanType
<1>4. QED
  BY <1>2, <1>3

\* A step that lets nobody in and refuses nobody keeps the balance.
LEMMA AccountSame ==
    ASSUME AccountInv, RetentionInv', LetIn' = LetIn, valid' = valid,
           DOMAIN recorder'.open = DOMAIN recorder.open, recorder'.stats = recorder.stats,
           \A sp \in Spans : span'[sp].pc = "starting" => Candidate(sp)
    PROVE  AccountInv'
<1>1. Refused(recorder') = Refused(recorder)
  BY DEF Refused
<1>2. Balance'
  BY <1>1 DEF AccountInv, Balance
<1>3. \A sp \in Spans : Candidate(sp)' = Candidate(sp)
  BY DEF Candidate
<1>4. QED
  BY <1>2, <1>3 DEF AccountInv, KindsMatch

\* Nothing was let in before the first span, and nothing is owed.
LEMMA AccountStarts ==
    ASSUME Init
    PROVE  AccountInv
<1>1. RetentionInv
  BY RetentionStarts
<1>2. /\ recorder = EmptyRecorder /\ valid = [requests |-> <<>>, stages |-> <<>>, queues |-> <<>>]
      /\ \A sp \in Spans : span[sp].pc = "new"
  BY DEF Init
<1>3. LetIn = {}
  BY <1>2 DEF LetIn
<1>4. DOMAIN recorder.open = {}
  BY <1>2 DEF EmptyRecorder
<1>5. recorder.stats = [c \in Counters |-> 0]
  BY <1>2 DEF EmptyRecorder
<1>6. Refused(recorder) = 0
  BY <1>5 DEF Refused, Counters
<1>7. CompletedTotal(valid) = 0
  BY <1>2 DEF CompletedTotal
<1>8. Cardinality({}) = 0
  BY FS_EmptySet
<1>9. Balance
  BY <1>3, <1>4, <1>6, <1>7, <1>8 DEF Balance
<1>10. KindsMatch(valid)
  BY <1>2 DEF KindsMatch
<1>11. QED
  BY <1>1, <1>2, <1>3, <1>4, <1>9, <1>10 DEF AccountInv

\* on_new_span and on_close before the lock let nobody in.
LEMMA MovesAccount ==
    ASSUME AccountInv, RetentionInv', NEW sp \in Spans, NewSpan(sp) \/ CloseSpan(sp)
    PROVE  AccountInv'
<1>1. UNCHANGED <<recorder, valid>>
  BY DEF NewSpan, CloseSpan
<1>2. TypedInv
  BY DEF AccountInv, RetentionInv
<1>3. \A x \in Spans : Candidate(x)' = Candidate(x)
  BY DEF Candidate
<1>4. /\ \A x \in Spans \ {sp} : span'[x].pc = span[x].pc
      /\ \/ span[sp].pc = "new" /\ span'[sp].pc = IF Candidate(sp) THEN "starting" ELSE "live"
         \/ span[sp].pc = "live" /\ span'[sp].pc \in {"closing", "closed"}
  BY <1>2, NewSpanMoves, CloseMoves
<1>5. \A x \in Spans : x \in LetIn' <=> x \in LetIn
  BY <1>3, <1>4 DEF LetIn
<1>6. LetIn' \subseteq Spans /\ LetIn \subseteq Spans
  BY DEF LetIn
<1>7. LetIn' = LetIn
  BY <1>5, <1>6
<1>8. \A x \in Spans : span'[x].pc = "starting" => Candidate(x)
  BY <1>4 DEF AccountInv
<1>9. QED
  BY <1>1, <1>7, <1>8, AccountSame

\* on_record lets nobody in.
LEMMA RecordAccount ==
    ASSUME AccountInv, RetentionInv', NEW sp \in Spans, RecordFields(sp)
    PROVE  AccountInv'
<1>1. RetentionInv /\ span \in [Spans -> SpanType]
  BY DEF AccountInv, RetentionInv, TypedInv
<1>2. DOMAIN recorder'.open = DOMAIN recorder.open /\ recorder'.stats = recorder.stats
  BY <1>1, RecordDoes
<1>3. span' = [span EXCEPT ![sp].recorded = TRUE] /\ valid' = valid
  BY DEF RecordFields
<1>4. \A x \in Spans : span'[x].pc = span[x].pc
  BY <1>1, <1>3 DEF SpanType
<1>5. LetIn' = LetIn
  BY <1>4 DEF LetIn, Candidate
<1>6. QED
  BY <1>2, <1>3, <1>4, <1>5, AccountSame DEF AccountInv

\* on_new_span under the lock lets one candidate in, which is open or counted.
LEMMA InsertAccount ==
    ASSUME AccountInv, RetentionInv', NEW sp \in Spans, InsertSpan(sp)
    PROVE  AccountInv'
<1>1. RetentionInv /\ span \in [Spans -> SpanType] /\ recorder \in RecorderType
  BY DEF AccountInv, RetentionInv, TypedInv
<1>2. /\ span[sp].pc = "starting" /\ span' = [span EXCEPT ![sp].pc = "live"] /\ valid' = valid
  BY DEF InsertSpan
<1>3. span'[sp].pc = "live" /\ \A x \in Spans \ {sp} : span'[x].pc = span[x].pc
  BY <1>1, <1>2 DEF SpanType
<1>4. \A x \in Spans : Candidate(x)' = Candidate(x)
  BY DEF Candidate
<1>5. Candidate(sp) /\ sp \notin LetIn
  BY <1>2 DEF AccountInv, LetIn
<1>6. \A x \in Spans : x \in LetIn' <=> x \in LetIn \cup {sp}
  BY <1>3, <1>4, <1>5 DEF LetIn
<1>7. LetIn' \subseteq Spans /\ LetIn \cup {sp} \subseteq Spans
  BY DEF LetIn
<1>8. LetIn' = LetIn \cup {sp}
  BY <1>6, <1>7
<1>9. sp \notin DOMAIN recorder.open /\ DOMAIN recorder.open \subseteq LetIn
  BY <1>5 DEF AccountInv
<1> DEFINE open == DOMAIN recorder.open
           c    == Cardinality(LetIn)
           n    == Cardinality(open)
           t    == CompletedTotal(valid)
           r    == Refused(recorder)
<1>10. /\ IsFiniteSet(LetIn) /\ c \in Nat /\ IsFiniteSet(open) /\ n \in Nat /\ t \in Nat /\ r \in Nat
       /\ c = t + n + r
  BY <1>1, BalanceNumbers DEF AccountInv, Balance
<1>11. Cardinality(LetIn \cup {sp}) = c + 1 /\ Cardinality(open \cup {sp}) = n + 1
  BY <1>5, <1>9, <1>10, FS_AddElement
<1> HIDE DEF c, n, t, r
<1>12. recorder' \in RecorderType
  BY <1>1, InsertDoes
<1>13. CASE /\ recorder'.open = recorder.open
            /\ recorder'.stats = [recorder.stats EXCEPT !["dropped_open"] =
                                     recorder.stats["dropped_open"] + 1]
  <2>1. Refused(recorder') = r + 1
    BY <1>1, <1>12, <1>13, RefusalCounted, "dropped_open" \in RefusalCounters \cup {"dropped_open"} DEF r
  <2>2. Cardinality(DOMAIN recorder'.open) = n
    BY <1>13 DEF n
  <2>3. c + 1 = t + n + (r + 1)
    BY <1>10
  <2>4. Balance'
    BY <1>2, <1>8, <1>11, <2>1, <2>2, <2>3 DEF Balance, t
  <2>5. DOMAIN recorder'.open \subseteq LetIn'
    BY <1>8, <1>9, <1>13
  <2>6. QED
    BY <1>2, <1>3, <1>4, <2>4, <2>5 DEF AccountInv
<1>14. CASE DOMAIN recorder'.open = open \cup {sp} /\ recorder'.stats = recorder.stats
  <2>1. Refused(recorder') = r
    BY <1>14 DEF Refused, r
  <2>2. Cardinality(DOMAIN recorder'.open) = n + 1
    BY <1>11, <1>14
  <2>3. c + 1 = t + (n + 1) + r
    BY <1>10
  <2>4. Balance'
    BY <1>2, <1>8, <1>11, <2>1, <2>2, <2>3 DEF Balance, t
  <2>5. DOMAIN recorder'.open \subseteq LetIn'
    BY <1>8, <1>9, <1>14
  <2>6. QED
    BY <1>2, <1>3, <1>4, <2>4, <2>5 DEF AccountInv
<1>15. QED
  BY <1>1, <1>13, <1>14, InsertDoes

\* A complete candidate joins the section of its kind.
LEMMA PushedKinds ==
    ASSUME NEW v \in Completed, NEW record \in SpanRecord, KindsMatch(v)
    PROVE  KindsMatch(Pushed(v, record))
<1> DEFINE w == Pushed(v, record)
<1>1. CASE record.kind = "request"
  <2>1. w = [v EXCEPT !.requests = Append(@, record)]
    BY <1>1, SectionOfRecord DEF Pushed
  <2> HIDE DEF w
  <2>2. w.requests = Append(v.requests, record) /\ w.stages = v.stages /\ w.queues = v.queues
    BY <2>1 DEF Completed
  <2>3. \A k \in 1..Len(w.requests) : w.requests[k].kind = "request"
    BY <1>1, <2>2 DEF Completed, KindsMatch
  <2>4. QED
    BY <2>2, <2>3 DEF KindsMatch, w
<1>2. CASE record.kind = "stage"
  <2>1. w = [v EXCEPT !.stages = Append(@, record)]
    BY <1>2, SectionOfRecord DEF Pushed
  <2> HIDE DEF w
  <2>2. w.stages = Append(v.stages, record) /\ w.requests = v.requests /\ w.queues = v.queues
    BY <2>1 DEF Completed
  <2>3. \A k \in 1..Len(w.stages) : w.stages[k].kind = "stage"
    BY <1>2, <2>2 DEF Completed, KindsMatch
  <2>4. QED
    BY <2>2, <2>3 DEF KindsMatch, w
<1>3. CASE record.kind = "queue"
  <2>1. w = [v EXCEPT !.queues = Append(@, record)]
    BY <1>3, SectionOfRecord DEF Pushed
  <2> HIDE DEF w
  <2>2. w.queues = Append(v.queues, record) /\ w.requests = v.requests /\ w.stages = v.stages
    BY <2>1 DEF Completed
  <2>3. \A k \in 1..Len(w.queues) : w.queues[k].kind = "queue"
    BY <1>3, <2>2 DEF Completed, KindsMatch
  <2>4. QED
    BY <2>2, <2>3 DEF KindsMatch, w
<1>4. QED
  BY <1>1, <1>2, <1>3, SectionOfRecord

\* on_close under the lock turns an open candidate into a complete or a
\* refused one.
LEMMA FinishAccount ==
    ASSUME AccountInv, RetentionInv', NEW sp \in Spans, FinishClose(sp)
    PROVE  AccountInv'
<1>1. RetentionInv /\ recorder \in RecorderType /\ valid \in Completed
  BY DEF AccountInv, RetentionInv, TypedInv
<1>2. /\ span[sp].pc = "closing" /\ sp \in DOMAIN recorder.open /\ span'[sp].pc = "closed"
      /\ \A x \in Spans \ {sp} : span'[x] = span[x]
      /\ recorder' \in RecorderType
      /\ DOMAIN recorder'.open = DOMAIN recorder.open \ {sp}
  BY <1>1, FinishDoes
<1>3. \A x \in Spans : Candidate(x)' = Candidate(x)
  BY DEF Candidate
<1>4. \A x \in Spans : x \in LetIn' <=> x \in LetIn
  BY <1>2, <1>3 DEF LetIn
<1>5. LetIn' \subseteq Spans /\ LetIn \subseteq Spans
  BY DEF LetIn
<1>6. LetIn' = LetIn
  BY <1>4, <1>5
<1> DEFINE open == DOMAIN recorder.open
           c    == Cardinality(LetIn)
           n    == Cardinality(open)
           t    == CompletedTotal(valid)
           r    == Refused(recorder)
<1>7. /\ IsFiniteSet(open) /\ c \in Nat /\ n \in Nat /\ t \in Nat /\ r \in Nat /\ c = t + n + r
  BY <1>1, BalanceNumbers DEF AccountInv, Balance
<1>8. Cardinality(open \ {sp}) = n - 1 /\ Cardinality(DOMAIN recorder'.open) = n - 1
  BY <1>2, <1>7, FS_RemoveElement
<1> HIDE DEF c, n, t, r
<1>9. \A x \in Spans : span'[x].pc = "starting" => Candidate(x)
  BY <1>2 DEF AccountInv
<1>10. DOMAIN recorder'.open \subseteq LetIn'
  BY <1>2, <1>6 DEF AccountInv
<1> DEFINE refusal == Refusal(recorder.open[sp])
           record  == ClosedRecord(sp)
<1> HIDE DEF refusal, record
<1>11. CASE /\ refusal \in RefusalCounters /\ valid' = valid
            /\ recorder'.stats = [recorder.stats EXCEPT ![refusal] = recorder.stats[refusal] + 1]
  <2>1. Refused(recorder') = r + 1
    BY <1>1, <1>2, <1>11, RefusalCounted DEF r
  <2>2. c = t + (n - 1) + (r + 1)
    BY <1>7
  <2>3. Balance'
    BY <1>6, <1>8, <1>11, <2>1, <2>2 DEF Balance, t, c
  <2>4. QED
    BY <1>3, <1>9, <1>10, <1>11, <2>3 DEF AccountInv
<1>12. CASE /\ record \in SpanRecord /\ valid' = Pushed(valid, record)
            /\ \A k \in Counters \ LossCounters : recorder'.stats[k] = recorder.stats[k]
  <2>1. CompletedTotal(valid') = t + 1 /\ KindsMatch(valid')
    BY <1>1, <1>12, PushedTyped, PushedKinds DEF AccountInv, t
  <2>2. Refused(recorder') = r
    BY <1>12 DEF Refused, r, Counters, LossCounters
  <2>3. c = (t + 1) + (n - 1) + r
    BY <1>7
  <2>4. Balance'
    BY <1>6, <1>8, <2>1, <2>2, <2>3 DEF Balance, c
  <2>5. QED
    BY <1>3, <1>9, <1>10, <2>1, <2>4 DEF AccountInv
<1>13. QED
  BY <1>1, <1>11, <1>12, FinishDoes DEF refusal, record

\* A step outside of the layer leaves the account alone.
LEMMA AccountUntouched ==
    ASSUME AccountInv, UNCHANGED recording
    PROVE  AccountInv'
<1>1. RetentionInv'
  BY RetentionUntouched DEF AccountInv
<1>2. recorder' = recorder /\ span' = span /\ valid' = valid
  BY DEF recording
<1>3. LetIn' = LetIn
  BY <1>2 DEF LetIn, Candidate
<1>4. QED
  BY <1>1, <1>2, <1>3, AccountSame DEF AccountInv

\* Every step keeps the account.
LEMMA AccountStep ==
    ASSUME AccountInv, [Next]_vars
    PROVE  AccountInv'
<1>1. RetentionInv'
  BY RetentionStep DEF AccountInv
<1>2. CASE BuildSession \/ SampleRuntime \/ StopSampling \/ ManualSnapshot \/ BeginShutdown \/ Shutdown
  <2>1. UNCHANGED recording
    BY <1>2 DEF BuildSession, SampleRuntime, StopSampling, ManualSnapshot, BeginShutdown, Shutdown,
                JoinSampler, TakeSnapshot, MergeAndCheck, WriteSpans, WriteRun
  <2>2. QED
    BY <2>1, AccountUntouched
<1>3. CASE UNCHANGED vars
  BY <1>3, AccountUntouched DEF vars
<1>4. QED
  BY <1>1, <1>2, <1>3, MovesAccount, RecordAccount, InsertAccount, FinishAccount DEF Next

----------------------------------------------------------------------------
(* Strict snapshots.                                                       *)

\* A recorder with nothing to report lost nothing, refused nothing and has
\* nothing open: it holds every candidate that was let in.
LEMMA CleanRecorder ==
    ASSUME AccountInv, RecorderMessages = {}
    PROVE  /\ recorder.requests = valid.requests /\ recorder.stages = valid.stages
           /\ recorder.queues = valid.queues
           /\ CompletedTotal(valid) = Cardinality(LetIn)
<1>1. RetentionInv /\ recorder \in RecorderType
  BY DEF AccountInv, RetentionInv, TypedInv
<1>2. recorder.stats \in [Counters -> Nat]
  BY <1>1 DEF RecorderType
<1>3. ASSUME NEW c \in Counters PROVE recorder.stats[c] = 0
  <2>1. ~(recorder.stats[c] > 0)
    BY DEF RecorderMessages
  <2>2. recorder.stats[c] \in Nat
    BY <1>2
  <2>3. QED
    BY <2>1, <2>2
<1>4. ~(OpenCandidates > 0)
  BY DEF RecorderMessages
<1>5. Cardinality(DOMAIN recorder.open) = 0
  BY <1>1, <1>4, BalanceNumbers DEF OpenCandidates
<1>6. /\ recorder.stats.dropped_request = 0 /\ recorder.stats.dropped_child = 0
      /\ recorder.stats.evicted_child = 0 /\ recorder.stats.dropped_open = 0
      /\ recorder.stats.missing_kind = 0 /\ recorder.stats.unknown_kind = 0
      /\ recorder.stats.malformed_kind = 0 /\ recorder.stats.incomplete = 0
  BY <1>3 DEF Counters
<1>7. Losses(recorder) = 0 /\ Refused(recorder) = 0
  BY <1>6 DEF Losses, Refused
<1>8. CompletedTotal(valid) \in Nat
  BY <1>1, BalanceNumbers
<1>9. CompletedTotal(valid) = Cardinality(LetIn)
  BY <1>5, <1>7, <1>8 DEF AccountInv, Balance
<1>10. QED
  BY <1>1, <1>7, <1>9 DEF RetentionInv, Ledger

\* The snapshot's input lists every record of every section.
LEMMA CompletedListed ==
    ASSUME RetentionInv, NEW sec \in EventSections, NEW k \in 1..Len(recorder[sec])
    PROVE  /\ CompletedSpanRecords \in Seq(SpanRecord)
           /\ \E i \in 1..Len(CompletedSpanRecords) : CompletedSpanRecords[i] = recorder[sec][k]
<1> DEFINE a == recorder.requests
           b == recorder.stages
           c == recorder.queues
           all == (a \o b) \o c
<1>1. a \in Seq(SpanRecord) /\ b \in Seq(SpanRecord) /\ c \in Seq(SpanRecord)
  BY DEF RetentionInv, TypedInv, RecorderType
<1>2. CompletedSpanRecords = all
  BY DEF CompletedSpanRecords
<1>3. sec \in {"requests", "stages", "queues"}
  BY DEF EventSections, ChildSections
<1> HIDE DEF a, b, c
<1>4. all \in Seq(SpanRecord) /\ Len(all) = Len(a) + Len(b) + Len(c)
  BY <1>1
<1>5. ASSUME NEW j \in 1..Len(a) PROVE j \in 1..Len(all) /\ all[j] = a[j]
  BY <1>1, <1>4
<1>6. ASSUME NEW j \in 1..Len(b) PROVE Len(a) + j \in 1..Len(all) /\ all[Len(a) + j] = b[j]
  BY <1>1, <1>4
<1>7. ASSUME NEW j \in 1..Len(c)
      PROVE  Len(a) + Len(b) + j \in 1..Len(all) /\ all[Len(a) + Len(b) + j] = c[j]
  BY <1>1, <1>4
<1> HIDE DEF all
<1>8. CASE sec = "requests"
  <2>1. k \in 1..Len(a) /\ recorder[sec][k] = a[k]
    BY <1>8 DEF a
  <2>2. QED
    BY <1>2, <1>4, <1>5, <2>1
<1>9. CASE sec = "stages"
  <2>1. k \in 1..Len(b) /\ recorder[sec][k] = b[k]
    BY <1>9 DEF b
  <2>2. QED
    BY <1>2, <1>4, <1>6, <2>1
<1>10. CASE sec = "queues"
  <2>1. k \in 1..Len(c) /\ recorder[sec][k] = c[k]
    BY <1>10 DEF c
  <2>2. QED
    BY <1>2, <1>4, <1>7, <2>1
<1>11. QED
  BY <1>3, <1>8, <1>9, <1>10

\* When it succeeds, a strict snapshot has passed every check on the way.
LEMMA StrictSnapshotIs ==
    ASSUME SnapshotRun(TRUE).error = "none"
    PROVE  /\ RecorderMessages = {} /\ ~HasViolation(CompletedSpanRecords)
           /\ ValidateStrict(CandidateRun(CompletedSpanRecords))
           /\ SnapshotRun(TRUE).sources = RetainedSources(CompletedSpanRecords)
           /\ \A sec \in EventSections :
                  SnapshotRun(TRUE).dropped[sec] = DroppedAtLimit(CompletedSpanRecords, sec)
           /\ SnapshotRun(TRUE).limitsHit <=>
                  \/ \E sec \in EventSections : DroppedAtLimit(CompletedSpanRecords, sec) > 0
                  \/ \E c \in Truncating : recorder.stats[c] > 0
<1> DEFINE spans == CompletedSpanRecords
           plain == RunFromSpanRecords(spans, TRUE)
           full  == Imported(spans)
           hit   == full.limitsHit \/ \E c \in Truncating : recorder.stats[c] > 0
<1>1. Failed("strict").error # "none"
  BY DEF Failed
<1>2. RecorderMessages = {} /\ SnapshotRun(TRUE) = WithDropWarnings(plain, RecorderWarnings)
  BY <1>1 DEF SnapshotRun
<1>3. plain.error = "none"
  BY <1>2 DEF WithDropWarnings
<1>4. ~HasViolation(spans) /\ ValidateStrict(CandidateRun(spans)) /\ plain = full
  BY <1>1, <1>3 DEF RunFromSpanRecords
<1>5. /\ full.error = "none" /\ {"lifecycle", "warnings", "limitsHit", "sources", "dropped"} \subseteq DOMAIN full
      /\ full.sources = RetainedSources(spans)
      /\ full.dropped = [sec \in EventSections |-> DroppedAtLimit(spans, sec)]
      /\ full.limitsHit = \E sec \in EventSections : DroppedAtLimit(spans, sec) > 0
  BY DEF Imported, ImportedOf
<1> HIDE DEF full, spans, plain
<1>6. SnapshotRun(TRUE) =
        [full EXCEPT !.lifecycle = full.lifecycle \cup RecorderWarnings,
                     !.warnings  = full.warnings + Cardinality(RecorderWarnings),
                     !.limitsHit = hit]
  BY <1>2, <1>4, <1>5 DEF WithDropWarnings
<1> HIDE DEF hit
<1>7. /\ SnapshotRun(TRUE).sources = full.sources /\ SnapshotRun(TRUE).dropped = full.dropped
      /\ SnapshotRun(TRUE).limitsHit = hit
  BY <1>5, <1>6
<1>8. QED
  BY <1>2, <1>4, <1>5, <1>7 DEF spans, hit

\* A strict snapshot that succeeds is complete, whenever it is taken: every
\* candidate the layer has let in is a retained source, or its section is
\* reported as truncated.
THEOREM StrictSnapshotCompleteHolds == Spec => []StrictSnapshotComplete
<1>1. ASSUME AccountInv PROVE StrictSnapshotComplete
  <2> DEFINE snapshot == SnapshotRun(TRUE)
             spans    == CompletedSpanRecords
  <2>1. SUFFICES ASSUME snapshot.error = "none"
                 PROVE  /\ CompletedTotal(valid) = Cardinality(LetIn)
                        /\ \A sec \in EventSections : \A k \in DOMAIN valid[sec] :
                             \/ \E j \in DOMAIN snapshot.sources : snapshot.sources[j] = valid[sec][k]
                             \/ snapshot.limitsHit /\ snapshot.dropped[sec] > 0
    BY DEF StrictSnapshotComplete, LetIn
  <2>2. /\ RecorderMessages = {} /\ ~HasViolation(spans) /\ ValidateStrict(CandidateRun(spans))
        /\ snapshot.sources = RetainedSources(spans)
        /\ \A sec \in EventSections : snapshot.dropped[sec] = DroppedAtLimit(spans, sec)
        /\ (\E sec \in EventSections : DroppedAtLimit(spans, sec) > 0) => snapshot.limitsHit
    BY <2>1, StrictSnapshotIs
  <2>3. /\ recorder.requests = valid.requests /\ recorder.stages = valid.stages
        /\ recorder.queues = valid.queues /\ CompletedTotal(valid) = Cardinality(LetIn)
    BY <1>1, <2>2, CleanRecorder
  <2> HIDE DEF snapshot, spans
  <2>4. ASSUME NEW sec \in EventSections, NEW k \in DOMAIN valid[sec]
        PROVE  \/ \E j \in DOMAIN snapshot.sources : snapshot.sources[j] = valid[sec][k]
               \/ snapshot.limitsHit /\ snapshot.dropped[sec] > 0
    <3>1. sec \in {"requests", "stages", "queues"} /\ recorder[sec] = valid[sec]
      BY <2>3 DEF EventSections, ChildSections
    <3>2. valid \in Completed /\ RetentionInv
      BY <1>1 DEF AccountInv, RetentionInv, TypedInv
    <3>3. k \in 1..Len(recorder[sec]) /\ valid[sec] \in Seq(SpanRecord)
      BY <3>1, <3>2 DEF Completed
    <3>4. spans \in Seq(SpanRecord) /\ \E i \in 1..Len(spans) : spans[i] = recorder[sec][k]
      BY <3>2, <3>3, CompletedListed DEF spans
    <3>5. PICK i \in 1..Len(spans) : spans[i] = valid[sec][k]
      BY <3>1, <3>4
    <3>6. SectionOf[spans[i].kind] = sec /\ KnownKind(spans[i])
      <4>1. k \in 1..Len(valid[sec]) /\ KindsMatch(valid)
        BY <1>1, <3>1, <3>3 DEF AccountInv
      <4>2. \/ sec = "requests" /\ spans[i].kind = "request"
            \/ sec = "stages" /\ spans[i].kind = "stage"
            \/ sec = "queues" /\ spans[i].kind = "queue"
        BY <3>1, <3>5, <4>1 DEF KindsMatch
      <4>3. QED
        BY <4>2 DEF SectionOf, KnownKind
    <3>7. Violations(spans[i]) = <<>>
      BY <2>2, <3>4 DEF HasViolation
    <3>8. i \in OfSection(spans, sec)
      BY <3>6, <3>7 DEF OfSection, Accepted
    <3>9. CASE DroppedAtLimit(spans, sec) = 0
      <4>1. i \in RetainedIndices(spans)
        BY <2>2, <3>4, <3>8, <3>9, StrictRetainsAll
      <4>2. \E j \in DOMAIN RetainedSources(spans) : RetainedSources(spans)[j] = spans[i]
        BY <3>4, <4>1, SourceRetained
      <4>3. QED
        BY <2>2, <3>5, <4>2
    <3>10. CASE DroppedAtLimit(spans, sec) # 0
      <4>1. DroppedAtLimit(spans, sec) \in Nat
        BY <3>4, ProvenancePrefix
      <4>2. DroppedAtLimit(spans, sec) > 0
        BY <3>10, <4>1
      <4>3. QED
        BY <2>2, <4>2
    <3>11. QED
      BY <3>9, <3>10
  <2>5. QED
    BY <2>3, <2>4
<1>2. QED
  BY <1>1, AccountStarts, AccountStep, PTL DEF Spec

----------------------------------------------------------------------------
(* Clock readings: what nests in the program nests in the records.         *)

Us(ticks) == DurationUs(0, ticks)

Open(sp) == sp \in DOMAIN recorder.open

EverOf(v) ==
    {v.requests[k] : k \in 1..Len(v.requests)} \cup {v.stages[k] : k \in 1..Len(v.stages)}
    \cup {v.queues[k] : k \in 1..Len(v.queues)}

\* The readings of one span are in order.
Own(sp) ==
    /\ Open(sp) => /\ span[sp].pc \in {"live", "closing"}
                   /\ recorder.open[sp].s = Us(recorder.open[sp].at)
                   /\ recorder.open[sp].at <= instant
    /\ span[sp].pc = "starting" => span[sp].at <= instant
    /\ span[sp].pc = "closing" => /\ recorder.open[sp].at <= span[sp].at[2]
                                  /\ span[sp].at[2] <= instant

\* A record's interval runs forward and agrees with its duration.
SoundRecord(r) ==
    /\ r.id \notin BadStrings /\ r.name \notin BadStrings
    /\ 0 <= r.s /\ r.s <= r.e /\ 0 <= r.dur
    /\ AbsDiff(r.dur, r.e - r.s) <= 1

Recorded ==
    /\ \A r \in EverOf(valid) : SoundRecord(r) /\ span[r.span].pc = "closed" /\ r.e <= Us(instant)
    /\ \A i, j \in 1..Len(valid.requests) : valid.requests[i].span = valid.requests[j].span => i = j

\* A span c that the program nests in p: while c runs p is live; what is read
\* of c lies between what is read of p.
Pair(c, p) ==
    /\ c = p => span[c].pc = "new"
    /\ span[c].pc \in {"starting", "live", "closing"} => span[p].pc = "live"
    /\ span[c].pc = "closed" => span[p].pc \notin {"new", "starting"}
    /\ Open(p) /\ span[c].pc = "starting" => recorder.open[p].at <= span[c].at
    /\ Open(p) /\ Open(c) => recorder.open[p].at <= recorder.open[c].at
    /\ \A rc \in EverOf(valid) : rc.span = c =>
           /\ Open(p) => recorder.open[p].s <= rc.s
           /\ span[p].pc = "closing" => rc.e <= Us(span[p].at[2])
           /\ \A rp \in EverOf(valid) : rp.span = p => rp.s <= rc.s /\ rc.e <= rp.e

\* The program's nesting.
Nests(c, p) == c \in DOMAIN Nested /\ Nested[c] = p

\* The recorder holds nothing that has not closed.
FromHistory ==
    /\ Within(recorder.requests, valid.requests) /\ Within(recorder.stages, valid.stages)
    /\ Within(recorder.queues, valid.queues)

\* The inductive invariant behind NestedEvidenceKept.
ClockInv ==
    /\ AccountInv
    /\ \A sp \in Spans : Own(sp)
    /\ Recorded
    /\ \A c, p \in Spans : Nests(c, p) => Pair(c, p)
    /\ FromHistory

\* Division by the clock rate.
LEMMA Quotient ==
    ASSUME NEW n \in Nat \ {0}, NEW a \in Nat
    PROVE  a \div n \in Nat /\ n * (a \div n) <= a /\ a < n * (a \div n) + n
OBVIOUS

\* Multiples of the clock rate that are less than one rate apart are in order.
LEMMA QuotientOrder ==
    ASSUME NEW n \in Nat \ {0}, NEW x \in Int, NEW y \in Int, n * x <= n * y + n - 1
    PROVE  x <= y
OBVIOUS

\* Offsets are ordered as the instants they are rounded from.
LEMMA UsOrder ==
    ASSUME NEW a \in Nat, NEW b \in Nat, a <= b
    PROVE  Us(a) \in Nat /\ Us(b) \in Nat /\ Us(a) <= Us(b)
<1>1. TicksPerUs \in Nat \ {0}
  BY SessionAssumption
<1>2. Us(a) = a \div TicksPerUs /\ Us(b) = b \div TicksPerUs
  BY DEF Us, DurationUs
<1> DEFINE n == TicksPerUs
           x == a \div n
           y == b \div n
<1>3. /\ x \in Nat /\ n * x <= a /\ y \in Nat /\ b < n * y + n /\ n \in Nat \ {0}
  BY <1>1, Quotient
<1> HIDE DEF n, x, y
<1>4. n * x <= n * y + n - 1
  BY <1>3
<1>5. x <= y
  BY <1>3, <1>4, QuotientOrder
<1>6. QED
  BY <1>2, <1>3, <1>5 DEF n, x, y

\* A duration and the difference of the offsets are rounded differently: by a
\* microsecond at most.
LEMMA RoundedOff ==
    ASSUME NEW a \in Nat, NEW b \in Nat, a <= b
    PROVE  DurationUs(a, b) \in Nat /\ AbsDiff(DurationUs(a, b), Us(b) - Us(a)) <= 1
<1> DEFINE n == TicksPerUs
           q == b \div n
           p == a \div n
           r == (b - a) \div n
<1>1. b - a \in Nat /\ n \in Nat \ {0}
  BY SessionAssumption
<1>2. Us(a) = p /\ Us(b) = q /\ DurationUs(a, b) = r
  BY DEF Us, DurationUs
<1>3. q \in Nat /\ n * q <= b /\ b < n * q + n
  BY <1>1, Quotient
<1>4. p \in Nat /\ n * p <= a /\ a < n * p + n
  BY <1>1, Quotient
<1>5. r \in Nat /\ n * r <= b - a /\ b - a < n * r + n
  BY <1>1, Quotient
<1> HIDE DEF n, q, p, r
<1>6. n * r <= n * (q - p) + n - 1
  BY <1>1, <1>3, <1>4, <1>5
<1>7. n * (q - p - 1) <= n * r + n - 1
  BY <1>1, <1>3, <1>4, <1>5
<1>8. r <= q - p
  BY <1>1, <1>3, <1>4, <1>5, <1>6, QuotientOrder
<1>9. q - p - 1 <= r
  BY <1>1, <1>3, <1>4, <1>5, <1>7, QuotientOrder
<1>10. AbsDiff(r, q - p) <= 1
  BY <1>3, <1>4, <1>5, <1>8, <1>9 DEF AbsDiff
<1>11. QED
  BY <1>2, <1>5, <1>10

\* The numbers that the clock invariants compare.
LEMMA ClockTypes ==
    ASSUME TypedInv
    PROVE  /\ instant \in Nat
           /\ \A sp \in Spans : Open(sp) => /\ recorder.open[sp].at \in Nat
                                            /\ recorder.open[sp].s \in Int
           /\ \A sp \in Spans : span[sp].pc = "closing" => Open(sp) /\ span[sp].at[2] \in Nat
           /\ \A sp \in Spans : span[sp].pc # "closing" => span[sp].at \in Nat
           /\ \A r \in EverOf(valid) : r \in SpanRecord
<1>1. \A sp \in Spans : Open(sp) => recorder.open[sp] \in OpenType
  BY OpenTables DEF TypedInv, RecorderType, Open
<1>2. \A sp \in Spans : Open(sp) => recorder.open[sp].at \in Nat /\ recorder.open[sp].s \in Int
  BY <1>1 DEF OpenType
<1>3. \A sp \in Spans : span[sp].pc = "closing" => Open(sp) /\ span[sp].at \in Nat \X Nat
  BY DEF TypedInv, SpanPhase, Open
<1>4. \A sp \in Spans : span[sp].pc = "closing" => span[sp].at[2] \in Nat
  BY <1>3
<1>5. \A sp \in Spans : span[sp].pc # "closing" => span[sp].at \in Nat
  BY DEF TypedInv, SpanPhase
<1>6. /\ valid.requests \in Seq(SpanRecord) /\ valid.stages \in Seq(SpanRecord)
      /\ valid.queues \in Seq(SpanRecord)
  BY DEF TypedInv, Completed
<1>7. \A r \in EverOf(valid) : r \in SpanRecord
  BY <1>6 DEF EverOf
<1>8. QED
  BY <1>2, <1>3, <1>4, <1>5, <1>7 DEF TypedInv

\* The history after a complete candidate.
LEMMA PushedEver ==
    ASSUME NEW v \in Completed, NEW record \in SpanRecord
    PROVE  \A r \in EverOf(Pushed(v, record)) : r \in EverOf(v) \/ r = record
<1> DEFINE w == Pushed(v, record)
<1>1. /\ v.requests \in Seq(SpanRecord) /\ v.stages \in Seq(SpanRecord) /\ v.queues \in Seq(SpanRecord)
  BY DEF Completed
<1>2. \/ /\ w.requests = Append(v.requests, record)
         /\ w.stages = v.stages /\ w.queues = v.queues
      \/ /\ w.stages = Append(v.stages, record)
         /\ w.requests = v.requests /\ w.queues = v.queues
      \/ /\ w.queues = Append(v.queues, record)
         /\ w.requests = v.requests /\ w.stages = v.stages
  BY SectionOfRecord DEF Pushed, Completed
<1> HIDE DEF w
<1>3. /\ WithinOr(w.requests, v.requests, record) /\ WithinOr(w.stages, v.stages, record)
      /\ WithinOr(w.queues, v.queues, record)
  BY <1>1, <1>2, SectionDraws
<1>4. \A r \in EverOf(w) : r \in EverOf(v) \/ r = record
  BY <1>3 DEF WithinOr, EverOf
<1>5. QED
  BY <1>4 DEF w

\* What a step leaves of a span: its place, its readings and its entry, which
\* it may lose.
SameSpan(x) ==
    /\ span'[x].pc = span[x].pc /\ span'[x].at = span[x].at
    /\ Open(x)' => /\ Open(x) /\ recorder'.open[x].at = recorder.open[x].at
                   /\ recorder'.open[x].s = recorder.open[x].s

\* A step that leaves a span alone keeps its readings in order.
LEMMA OwnFrame ==
    ASSUME TypedInv, TypedInv', NEW x \in Spans, Own(x), SameSpan(x), instant <= instant'
    PROVE  Own(x)'
<1>1. instant \in Nat /\ instant' \in Nat
  BY DEF TypedInv
<1>2. Open(x)' => /\ span'[x].pc \in {"live", "closing"}
                  /\ recorder'.open[x].s = Us(recorder'.open[x].at)
                  /\ recorder'.open[x].at <= instant'
  <2>1. Open(x) => recorder.open[x].at \in Nat
    BY ClockTypes
  <2>2. QED
    BY <1>1, <2>1 DEF Own, SameSpan
<1>3. span'[x].pc = "starting" => span'[x].at <= instant'
  <2>1. span[x].pc # "closing" => span[x].at \in Nat
    BY ClockTypes
  <2>2. QED
    BY <1>1, <2>1 DEF Own, SameSpan
<1>4. span'[x].pc = "closing" => recorder'.open[x].at <= span'[x].at[2] /\ span'[x].at[2] <= instant'
  <2>1. span'[x].pc = "closing" => Open(x)' /\ span'[x].at[2] \in Nat
    BY DEF TypedInv, SpanPhase, Open
  <2>2. span[x].pc = "closing" => span[x].at[2] \in Nat
    BY ClockTypes
  <2>3. QED
    BY <1>1, <2>1, <2>2 DEF Own, SameSpan
<1>5. QED
  BY <1>2, <1>3, <1>4 DEF Own, Us, DurationUs

\* A step that leaves both spans alone, and records neither, keeps the pair.
LEMMA PairFrame ==
    ASSUME NEW c \in Spans, NEW p \in Spans, Pair(c, p), SameSpan(c), SameSpan(p),
           \A r \in EverOf(valid') : r.span \in {c, p} => r \in EverOf(valid)
    PROVE  Pair(c, p)'
<1>1. /\ c = p => span'[c].pc = "new"
      /\ span'[c].pc \in {"starting", "live", "closing"} => span'[p].pc = "live"
      /\ span'[c].pc = "closed" => span'[p].pc \notin {"new", "starting"}
  BY DEF Pair, SameSpan
<1>2. /\ Open(p)' /\ span'[c].pc = "starting" => recorder'.open[p].at <= span'[c].at
      /\ Open(p)' /\ Open(c)' => recorder'.open[p].at <= recorder'.open[c].at
  BY DEF Pair, SameSpan
<1>3. ASSUME NEW rc \in EverOf(valid'), rc.span = c
      PROVE  /\ Open(p)' => recorder'.open[p].s <= rc.s
             /\ span'[p].pc = "closing" => rc.e <= Us(span'[p].at[2])
             /\ \A rp \in EverOf(valid') : rp.span = p => rp.s <= rc.s /\ rc.e <= rp.e
  <2>1. rc \in EverOf(valid)
    BY <1>3
  <2>2. \A rp \in EverOf(valid') : rp.span = p => rp \in EverOf(valid)
    OBVIOUS
  <2>3. QED
    BY <1>3, <2>1, <2>2 DEF Pair, SameSpan
<1>4. QED
  BY <1>1, <1>2, <1>3 DEF Pair, Us, DurationUs

\* Records stay what they are while the clock goes on and closed spans stay
\* closed.
LEMMA RecordedFrame ==
    ASSUME TypedInv, Recorded, valid' = valid, instant' \in Nat, instant <= instant',
           \A x \in Spans : span[x].pc = "closed" => span'[x].pc = "closed"
    PROVE  Recorded'
<1>1. instant \in Nat /\ Us(instant) \in Nat /\ Us(instant') \in Nat /\ Us(instant) <= Us(instant')
  BY UsOrder DEF TypedInv
<1>2. ASSUME NEW r \in EverOf(valid)
      PROVE  SoundRecord(r) /\ span'[r.span].pc = "closed" /\ r.e <= Us(instant')
  <2>1. r \in SpanRecord
    BY <1>2, ClockTypes
  <2>2. r.span \in Spans /\ r.e \in Int
    BY <2>1 DEF SpanRecord
  <2>3. SoundRecord(r) /\ span[r.span].pc = "closed" /\ r.e <= Us(instant)
    BY <1>2 DEF Recorded
  <2>4. QED
    BY <1>1, <2>2, <2>3
<1>3. QED
  BY <1>2 DEF Recorded, Us, DurationUs

\* No span of a record is on its way.
LEMMA RecordsClosed ==
    ASSUME TypedInv, Recorded, NEW r \in EverOf(valid)
    PROVE  r.span \in Spans /\ span[r.span].pc = "closed" /\ r \in SpanRecord
<1>1. r \in SpanRecord
  BY ClockTypes
<1>2. QED
  BY <1>1 DEF Recorded, SpanRecord

\* Before the first span there is nothing to compare.
LEMMA ClockStarts ==
    ASSUME Init
    PROVE  ClockInv
<1>1. AccountInv
  BY AccountStarts
<1>2. /\ recorder = EmptyRecorder /\ valid = [requests |-> <<>>, stages |-> <<>>, queues |-> <<>>]
      /\ \A sp \in Spans : span[sp].pc = "new"
  BY DEF Init
<1>3. DOMAIN recorder.open = {}
  BY <1>2 DEF EmptyRecorder
<1>4. EverOf(valid) = {}
  BY <1>2 DEF EverOf
<1>5. recorder.requests = <<>> /\ recorder.stages = <<>> /\ recorder.queues = <<>>
  BY <1>2 DEF EmptyRecorder
<1>6. FromHistory
  BY <1>5 DEF FromHistory, Within
<1>7. Recorded
  BY <1>2, <1>4 DEF Recorded
<1>8. \A sp \in Spans : Own(sp)
  BY <1>2, <1>3 DEF Own, Open
<1>9. \A c, p \in Spans : Pair(c, p)
  BY <1>2, <1>3, <1>4 DEF Pair, Open
<1>10. QED
  BY <1>1, <1>6, <1>7, <1>8, <1>9 DEF ClockInv

\* on_new_span reads the clock while the parent is live.
LEMMA NewSpanClock ==
    ASSUME ClockInv, AccountInv', NEW sp \in Spans, NewSpan(sp)
    PROVE  ClockInv'
<1>1. TypedInv /\ TypedInv'
  BY DEF ClockInv, AccountInv, RetentionInv
<1>2. /\ span[sp].pc = "new" /\ MayStart(sp)
      /\ \/ span'[sp].pc = "starting" /\ span'[sp].at = instant'
         \/ span'[sp].pc = "live"
      /\ \A x \in Spans \ {sp} : span'[x] = span[x]
      /\ instant \in Nat /\ instant' \in Nat /\ instant <= instant'
  BY <1>1, NewSpanMoves
<1>3. UNCHANGED <<recorder, valid>>
  BY DEF NewSpan
<1>4. \A x \in Spans \ {sp} : SameSpan(x)
  BY <1>2, <1>3 DEF SameSpan, Open
<1>5. ~Open(sp) /\ ~Open(sp)'
  BY <1>2, <1>3 DEF ClockInv, Own, Open
<1>6. \A x \in Spans : Own(x)'
  <2>1. ASSUME NEW x \in Spans \ {sp} PROVE Own(x)'
    BY <1>1, <1>2, <1>4, OwnFrame DEF ClockInv
  <2>2. Own(sp)'
    BY <1>2, <1>5 DEF Own
  <2>3. QED
    BY <2>1, <2>2
<1>7. Recorded'
  BY <1>1, <1>2, <1>3, RecordedFrame DEF ClockInv
<1>8. \A r \in EverOf(valid) : r.span # sp
  BY <1>1, <1>2, RecordsClosed DEF ClockInv
<1>9. ASSUME NEW c \in Spans, NEW p \in Spans, Nests(c, p) PROVE Pair(c, p)'
  <2>1. Pair(c, p)
    BY <1>9 DEF ClockInv
  <2>2. CASE c # sp /\ p # sp
    BY <1>3, <1>4, <2>1, <2>2, PairFrame
  <2>3. CASE c = sp
    <3>1. span[p].pc = "live" /\ p # sp
      BY <1>2, <1>9, <2>3 DEF MayStart, Nests
    <3>2. span'[p] = span[p]
      BY <1>2, <3>1
    <3>3. Open(p) => recorder.open[p].at \in Nat /\ recorder.open[p].at <= instant
      BY <1>1, ClockTypes DEF ClockInv, Own
    <3>4. Open(p)' /\ span'[c].pc = "starting" => recorder'.open[p].at <= span'[c].at
      BY <1>2, <1>3, <2>3, <3>3 DEF Open
    <3>5. QED
      BY <1>2, <1>3, <1>5, <1>8, <2>3, <3>1, <3>2, <3>4 DEF Pair
  <2>4. CASE p = sp /\ c # sp
    <3>1. span[c].pc = "new"
      <4>1. span[c] \in SpanType
        BY <1>1 DEF TypedInv
      <4>2. QED
        BY <1>2, <2>1, <2>4, <4>1 DEF Pair, SpanType
    <3>2. span'[c].pc = "new" /\ span'[p].pc # "closing"
      BY <1>2, <2>4, <3>1
    <3>3. \A r \in EverOf(valid) : r.span # c
      BY <1>1, <3>1, RecordsClosed DEF ClockInv
    <3>4. QED
      BY <1>3, <1>5, <2>4, <3>2, <3>3 DEF Pair
  <2>5. QED
    BY <2>2, <2>3, <2>4
<1>10. FromHistory'
  BY <1>3 DEF ClockInv, FromHistory
<1>11. QED
  BY <1>6, <1>7, <1>9, <1>10 DEF ClockInv, Nests

\* What on_new_span opens carries the reading it was made of.
LEMMA InsertClock ==
    ASSUME ClockInv, AccountInv', NEW sp \in Spans, InsertSpan(sp)
    PROVE  ClockInv'
<1>1. TypedInv /\ TypedInv' /\ RetentionInv
  BY DEF ClockInv, AccountInv, RetentionInv
<1>2. /\ span[sp].pc = "starting" /\ span' = [span EXCEPT ![sp].pc = "live"]
      /\ UNCHANGED <<instant, valid>>
  BY DEF InsertSpan
<1>3. span'[sp].pc = "live" /\ \A x \in Spans \ {sp} : span'[x] = span[x]
  BY <1>1, <1>2 DEF TypedInv, SpanType
<1>4. /\ recorder'.requests = recorder.requests /\ recorder'.stages = recorder.stages
      /\ recorder'.queues = recorder.queues
      /\ \A x \in Spans \ {sp} : (Open(x)' <=> Open(x)) /\ (Open(x) => recorder'.open[x] = recorder.open[x])
      /\ Open(sp)' => Open(sp) \/ recorder'.open[sp] = OpenSpan(sp)
  BY <1>1, InsertDoes DEF Open
<1>5. \A x \in Spans \ {sp} : SameSpan(x)
  BY <1>3, <1>4 DEF SameSpan
<1>6. instant \in Nat /\ instant' = instant /\ span[sp].at \in Nat /\ span[sp].at <= instant
  BY <1>1, <1>2, ClockTypes DEF ClockInv, Own
<1>7. ~Open(sp)
  BY <1>2 DEF ClockInv, Own
<1>8. Open(sp)' => recorder'.open[sp].at = span[sp].at /\ recorder'.open[sp].s = Us(span[sp].at)
  BY <1>4, <1>7 DEF OpenSpan, Us
<1>9. \A x \in Spans : Own(x)'
  <2>1. ASSUME NEW x \in Spans \ {sp} PROVE Own(x)'
    BY <1>1, <1>5, <1>6, OwnFrame DEF ClockInv
  <2>2. Own(sp)'
    BY <1>3, <1>6, <1>8 DEF Own, Us, DurationUs
  <2>3. QED
    BY <2>1, <2>2
<1>10. Recorded'
  BY <1>1, <1>2, <1>3, <1>6, RecordedFrame DEF ClockInv
<1>11. \A r \in EverOf(valid) : r.span # sp
  BY <1>1, <1>2, RecordsClosed DEF ClockInv
<1>12. ASSUME NEW c \in Spans, NEW p \in Spans, Nests(c, p) PROVE Pair(c, p)'
  <2>1. Pair(c, p) /\ (c = sp \/ p = sp => c # p)
    BY <1>2, <1>12 DEF ClockInv, Pair
  <2>2. CASE c # sp /\ p # sp
    BY <1>2, <1>5, <2>1, <2>2, PairFrame
  <2>3. CASE c = sp
    <3>1. span[p].pc = "live" /\ span'[p] = span[p]
      BY <1>2, <1>3, <2>1, <2>3 DEF Pair
    <3>2. Open(p)' => Open(p) /\ recorder'.open[p] = recorder.open[p]
      BY <1>4, <2>1, <2>3
    <3>3. Open(p)' /\ Open(c)' => recorder'.open[p].at <= recorder'.open[c].at
      BY <1>2, <1>8, <2>1, <2>3, <3>2 DEF Pair
    <3>4. QED
      BY <1>2, <1>3, <1>11, <2>1, <2>3, <3>1, <3>3 DEF Pair
  <2>4. CASE p = sp
    <3>1. span[c].pc = "new"
      <4>1. span[c] \in SpanType
        BY <1>1 DEF TypedInv
      <4>2. QED
        BY <1>2, <2>1, <2>4, <4>1 DEF Pair, SpanType
    <3>2. span'[c].pc = "new" /\ span'[p].pc = "live"
      BY <1>3, <2>1, <2>4, <3>1
    <3>3. \A r \in EverOf(valid) : r.span # c
      BY <1>1, <3>1, RecordsClosed DEF ClockInv
    <3>4. ~Open(c)
      BY <3>1 DEF ClockInv, Own
    <3>5. ~Open(c)'
      BY <1>4, <2>1, <2>4, <3>4
    <3>6. QED
      BY <1>2, <2>1, <3>2, <3>3, <3>5 DEF Pair
  <2>5. QED
    BY <2>2, <2>3, <2>4
<1>13. FromHistory'
  BY <1>2, <1>4 DEF ClockInv, FromHistory
<1>14. QED
  BY <1>9, <1>10, <1>12, <1>13 DEF ClockInv, Nests

\* A step that moves no span and reads no clock.
LEMMA StillClock ==
    ASSUME ClockInv, AccountInv', \A x \in Spans : SameSpan(x), UNCHANGED <<instant, valid>>,
           recorder'.requests = recorder.requests, recorder'.stages = recorder.stages,
           recorder'.queues = recorder.queues
    PROVE  ClockInv'
<1>1. TypedInv /\ TypedInv'
  BY DEF ClockInv, AccountInv, RetentionInv
<1>2. instant \in Nat /\ instant' = instant /\ instant <= instant'
  BY <1>1 DEF TypedInv
<1>3. \A x \in Spans : Own(x)'
  <2>1. ASSUME NEW x \in Spans PROVE Own(x)'
    BY <1>1, <1>2, OwnFrame DEF ClockInv
  <2>2. QED
    BY <2>1
<1>4. Recorded'
  BY <1>1, <1>2, RecordedFrame DEF ClockInv, SameSpan
<1>5. ASSUME NEW c \in Spans, NEW p \in Spans, Nests(c, p) PROVE Pair(c, p)'
  BY <1>5, PairFrame DEF ClockInv
<1>6. FromHistory'
  BY DEF ClockInv, FromHistory
<1>7. QED
  BY <1>3, <1>4, <1>5, <1>6 DEF ClockInv, Nests

\* on_record leaves the readings alone.
LEMMA RecordClock ==
    ASSUME ClockInv, AccountInv', NEW sp \in Spans, RecordFields(sp)
    PROVE  ClockInv'
<1>1. TypedInv /\ RetentionInv
  BY DEF ClockInv, AccountInv, RetentionInv
<1>2. span' = [span EXCEPT ![sp].recorded = TRUE] /\ UNCHANGED <<instant, valid>>
  BY DEF RecordFields
<1>3. \A x \in Spans : span'[x].pc = span[x].pc /\ span'[x].at = span[x].at
  BY <1>1, <1>2 DEF TypedInv, SpanType
<1>4. /\ DOMAIN recorder'.open = DOMAIN recorder.open
      /\ recorder'.requests = recorder.requests /\ recorder'.stages = recorder.stages
      /\ recorder'.queues = recorder.queues
      /\ \A x \in DOMAIN recorder.open : /\ recorder'.open[x].at = recorder.open[x].at
                                         /\ recorder'.open[x].s = recorder.open[x].s
  BY <1>1, RecordDoes
<1>5. \A x \in Spans : SameSpan(x)
  BY <1>3, <1>4 DEF SameSpan, Open
<1>6. QED
  BY <1>2, <1>4, <1>5, StillClock

\* on_close reads the clock after every nested span has closed.
LEMMA CloseClock ==
    ASSUME ClockInv, AccountInv', NEW sp \in Spans, CloseSpan(sp)
    PROVE  ClockInv'
<1>1. TypedInv /\ TypedInv'
  BY DEF ClockInv, AccountInv, RetentionInv
<1>2. /\ span[sp].pc = "live" /\ MayClose(sp)
      /\ \/ /\ sp \in DOMAIN recorder.open
            /\ span'[sp].pc = "closing" /\ span'[sp].at[2] = instant'
         \/ sp \notin DOMAIN recorder.open /\ span'[sp].pc = "closed"
      /\ \A x \in Spans \ {sp} : span'[x] = span[x]
      /\ instant \in Nat /\ instant' \in Nat /\ instant <= instant'
  BY <1>1, CloseMoves
<1>3. UNCHANGED <<recorder, valid>>
  BY DEF CloseSpan
<1>4. \A x \in Spans \ {sp} : SameSpan(x)
  BY <1>2, <1>3 DEF SameSpan, Open
<1>5. \A x \in Spans : Own(x)'
  <2>1. ASSUME NEW x \in Spans \ {sp} PROVE Own(x)'
    BY <1>1, <1>2, <1>4, OwnFrame DEF ClockInv
  <2>2. Own(sp)'
    <3>1. Open(sp) => /\ recorder.open[sp].at \in Nat /\ recorder.open[sp].at <= instant
                      /\ recorder.open[sp].s = Us(recorder.open[sp].at)
      BY <1>1, ClockTypes DEF ClockInv, Own
    <3>2. Open(sp)' = Open(sp) /\ (Open(sp) <=> span'[sp].pc = "closing")
      BY <1>2, <1>3 DEF Open
    <3>3. QED
      BY <1>2, <1>3, <3>1, <3>2 DEF Own, Us, DurationUs
  <2>3. QED
    BY <2>1, <2>2
<1>6. Recorded'
  BY <1>1, <1>2, <1>3, RecordedFrame DEF ClockInv
<1>7. \A r \in EverOf(valid) : r.span # sp
  BY <1>1, <1>2, RecordsClosed DEF ClockInv
<1>8. ASSUME NEW c \in Spans, NEW p \in Spans, Nests(c, p) PROVE Pair(c, p)'
  <2>1. Pair(c, p) /\ (c = sp \/ p = sp => c # p)
    BY <1>2, <1>8 DEF ClockInv, Pair
  <2>2. CASE c # sp /\ p # sp
    BY <1>3, <1>4, <2>1, <2>2, PairFrame
  <2>3. CASE c = sp
    <3>1. span[p].pc = "live" /\ span'[p] = span[p]
      BY <1>2, <2>1, <2>3 DEF Pair
    <3>2. Open(p)' /\ Open(c)' => recorder'.open[p].at <= recorder'.open[c].at
      BY <1>3, <2>1 DEF Pair, Open
    <3>3. QED
      BY <1>2, <1>3, <1>7, <2>1, <2>3, <3>1, <3>2 DEF Pair
  <2>4. CASE p = sp
    <3>1. span[c].pc \in {"new", "closed"}
      BY <1>2, <1>8, <2>4 DEF MayClose, Nests
    <3>2. span'[c].pc \in {"new", "closed"} /\ span'[p].pc \in {"closing", "closed"}
      BY <1>2, <2>1, <2>4, <3>1
    <3>3. ~Open(c)'
      BY <1>3, <3>1 DEF ClockInv, Own, Open
    <3>4. ASSUME NEW rc \in EverOf(valid), rc.span = c
          PROVE  /\ Open(p)' => recorder'.open[p].s <= rc.s
                 /\ span'[p].pc = "closing" => rc.e <= Us(span'[p].at[2])
      <4>1. rc \in SpanRecord /\ rc.e <= Us(instant)
        BY <1>1, <3>4, RecordsClosed DEF ClockInv, Recorded
      <4>2. rc.e \in Int /\ Us(instant) \in Nat /\ Us(instant') \in Nat /\ Us(instant) <= Us(instant')
        BY <1>2, <4>1, UsOrder DEF SpanRecord
      <4>3. rc.e <= Us(instant')
        BY <4>1, <4>2
      <4>4. Open(p)' => recorder'.open[p].s <= rc.s
        BY <1>3, <2>1, <3>4 DEF Pair, Open
      <4>5. QED
        BY <1>2, <2>4, <4>3, <4>4
    <3>5. QED
      BY <1>3, <1>7, <2>1, <2>4, <3>2, <3>3, <3>4 DEF Pair, Us, DurationUs
  <2>5. QED
    BY <2>2, <2>3, <2>4
<1>9. FromHistory'
  BY <1>3 DEF ClockInv, FromHistory
<1>10. QED
  BY <1>5, <1>6, <1>8, <1>9 DEF ClockInv, Nests

\* The record of a closing span is sound: its interval is that of its two
\* readings.
LEMMA ClosedRecordSound ==
    ASSUME ClockInv, NEW sp \in Spans, span[sp].pc = "closing",
           Refusal(recorder.open[sp]) = "none"
    PROVE  /\ SoundRecord(ClosedRecord(sp)) /\ ClosedRecord(sp).span = sp
           /\ ClosedRecord(sp).s = recorder.open[sp].s
           /\ ClosedRecord(sp).e = Us(span[sp].at[2]) /\ ClosedRecord(sp).e <= Us(instant)
<1> DEFINE open == recorder.open[sp]
           end  == span[sp].at[2]
           R    == ClosedRecord(sp)
<1>1. TypedInv
  BY DEF ClockInv, AccountInv, RetentionInv
<1>2. /\ Open(sp) /\ open.at \in Nat /\ end \in Nat /\ instant \in Nat
      /\ open.at <= end /\ end <= instant /\ open.s = Us(open.at)
  BY <1>1, ClockTypes DEF ClockInv, Own
<1>3. open.fields.id \notin BadStrings /\ open.fields.name \notin BadStrings
  <2>1. open \in OpenType
    BY <1>1, <1>2, OpenTables DEF TypedInv, RecorderType, Open
  <2>2. open.fields.kind \in DOMAIN SectionOf
    BY <2>1, RefusalIs DEF SectionOf
  <2>3. QED
    BY <2>2 DEF Refusal
<1>4. /\ R.span = sp /\ R.id = open.fields.id /\ R.name = open.fields.name
      /\ R.s = open.s /\ R.e = Us(end) /\ R.dur = DurationUs(open.at, end)
  BY DEF ClosedRecord, Us
<1> HIDE DEF open, end, R
<1>5. /\ Us(open.at) \in Nat /\ Us(end) \in Nat /\ Us(open.at) <= Us(end)
      /\ Us(end) <= Us(instant)
  BY <1>2, UsOrder
<1>6. DurationUs(open.at, end) \in Nat /\ AbsDiff(DurationUs(open.at, end), Us(end) - Us(open.at)) <= 1
  BY <1>2, RoundedOff
<1>7. SoundRecord(R) /\ R.e <= Us(instant)
  BY <1>2, <1>3, <1>4, <1>5, <1>6 DEF SoundRecord
<1>8. QED
  BY <1>4, <1>7 DEF R, open, end

\* What the recorder holds after a push is in the history after it.
LEMMA PushedHistory ==
    ASSUME NEW rec \in RecorderType, NEW r \in RecorderType, NEW v \in Completed,
           NEW record \in SpanRecord, Draws(r, rec, record),
           Within(rec.requests, v.requests), Within(rec.stages, v.stages),
           Within(rec.queues, v.queues)
    PROVE  /\ Within(r.requests, Pushed(v, record).requests)
           /\ Within(r.stages, Pushed(v, record).stages)
           /\ Within(r.queues, Pushed(v, record).queues)
<1> DEFINE w == Pushed(v, record)
<1>1. /\ v.requests \in Seq(SpanRecord) /\ v.stages \in Seq(SpanRecord) /\ v.queues \in Seq(SpanRecord)
  BY DEF Completed
<1>2. \/ /\ record.kind = "request" /\ w.requests = Append(v.requests, record)
         /\ w.stages = v.stages /\ w.queues = v.queues
      \/ /\ record.kind = "stage" /\ w.stages = Append(v.stages, record)
         /\ w.requests = v.requests /\ w.queues = v.queues
      \/ /\ record.kind = "queue" /\ w.queues = Append(v.queues, record)
         /\ w.requests = v.requests /\ w.stages = v.stages
  BY SectionOfRecord DEF Pushed, Completed
<1> HIDE DEF w
<1>3. ASSUME NEW q, NEW old, NEW hist \in Seq(SpanRecord), Within(old, hist), WithinOr(q, old, record)
      PROVE  Within(q, Append(hist, record))
  <2>1. Len(Append(hist, record)) = Len(hist) + 1 /\ Append(hist, record)[Len(hist) + 1] = record
    BY <1>3
  <2>2. \A j \in 1..Len(hist) : j \in 1..Len(hist) + 1 /\ Append(hist, record)[j] = hist[j]
    BY <1>3
  <2>3. Len(hist) + 1 \in 1..Len(hist) + 1
    BY <1>3
  <2>4. QED
    BY <1>3, <2>1, <2>2, <2>3 DEF Within, WithinOr
<1>4. ASSUME NEW q, NEW old, NEW hist, Within(old, hist), Within(q, old)
      PROVE  Within(q, hist)
  BY <1>4 DEF Within
<1>5. CASE record.kind = "request"
  <2>1. WithinOr(r.requests, rec.requests, record) /\ Within(r.stages, rec.stages) /\ Within(r.queues, rec.queues)
    BY <1>5 DEF Draws
  <2>2. w.requests = Append(v.requests, record) /\ w.stages = v.stages /\ w.queues = v.queues
    BY <1>2, <1>5
  <2>3. QED
    BY <1>1, <1>3, <1>4, <2>1, <2>2 DEF w
<1>6. CASE record.kind = "stage"
  <2>1. WithinOr(r.stages, rec.stages, record) /\ Within(r.requests, rec.requests) /\ Within(r.queues, rec.queues)
    BY <1>6 DEF Draws
  <2>2. w.stages = Append(v.stages, record) /\ w.requests = v.requests /\ w.queues = v.queues
    BY <1>2, <1>6
  <2>3. QED
    BY <1>1, <1>3, <1>4, <2>1, <2>2 DEF w
<1>7. CASE record.kind = "queue"
  <2>1. WithinOr(r.queues, rec.queues, record) /\ Within(r.requests, rec.requests) /\ Within(r.stages, rec.stages)
    BY <1>7 DEF Draws
  <2>2. w.queues = Append(v.queues, record) /\ w.requests = v.requests /\ w.stages = v.stages
    BY <1>2, <1>7
  <2>3. QED
    BY <1>1, <1>3, <1>4, <2>1, <2>2 DEF w
<1>8. QED
  BY <1>2, <1>5, <1>6, <1>7

\* on_close under the lock: a record is made of the two readings, while the
\* parent is live and after the children have closed.
LEMMA FinishClock ==
    ASSUME ClockInv, AccountInv', NEW sp \in Spans, FinishClose(sp)
    PROVE  ClockInv'
<1> DEFINE R == ClosedRecord(sp)
           pushed == Refusal(recorder.open[sp]) = "none"
<1>1. TypedInv /\ TypedInv' /\ RetentionInv
  BY DEF ClockInv, AccountInv, RetentionInv
<1>2. /\ span[sp].pc = "closing" /\ Open(sp) /\ ~Open(sp)' /\ UNCHANGED instant
      /\ span'[sp].pc = "closed" /\ \A x \in Spans \ {sp} : span'[x] = span[x]
      /\ \A x \in Spans : Open(x)' => Open(x) /\ recorder'.open[x] = recorder.open[x]
      /\ recorder' \in RecorderType
  BY <1>1, FinishDoes DEF Open
<1>3. \/ /\ ~pushed /\ valid' = valid
         /\ recorder'.requests = recorder.requests /\ recorder'.stages = recorder.stages
         /\ recorder'.queues = recorder.queues
      \/ /\ pushed /\ R \in SpanRecord /\ valid' = Pushed(valid, R)
         /\ Draws(recorder', recorder, R)
  BY <1>1, FinishDoes DEF RefusalCounters
<1>4. pushed => /\ SoundRecord(R) /\ R.span = sp /\ R.s = recorder.open[sp].s
                /\ R.e = Us(span[sp].at[2]) /\ R.e <= Us(instant)
  BY <1>2, ClosedRecordSound
<1>5. valid \in Completed /\ recorder \in RecorderType /\ instant \in Nat
  BY <1>1 DEF TypedInv
<1> HIDE DEF R, pushed
<1>6. \A r \in EverOf(valid') : r \in EverOf(valid) \/ (pushed /\ r = R)
  BY <1>3, <1>5, PushedEver
<1>7. \A r \in EverOf(valid) : r.span \in Spans /\ r.span # sp /\ span[r.span].pc = "closed"
  BY <1>1, <1>2, RecordsClosed DEF ClockInv
<1>8. \A x \in Spans \ {sp} : SameSpan(x)
  BY <1>2 DEF SameSpan
<1>9. \A x \in Spans : Own(x)'
  <2>1. ASSUME NEW x \in Spans \ {sp} PROVE Own(x)'
    BY <1>1, <1>2, <1>5, <1>8, OwnFrame DEF ClockInv
  <2>2. Own(sp)'
    BY <1>2 DEF Own
  <2>3. QED
    BY <2>1, <2>2
<1>10. Recorded'
  <2>1. ASSUME NEW r \in EverOf(valid')
        PROVE  SoundRecord(r) /\ span'[r.span].pc = "closed" /\ r.e <= Us(instant')
    <3>1. CASE r \in EverOf(valid)
      <4>1. SoundRecord(r) /\ r.e <= Us(instant)
        BY <3>1 DEF ClockInv, Recorded
      <4>2. span'[r.span].pc = "closed"
        BY <1>2, <1>7, <3>1
      <4>3. QED
        BY <1>2, <4>1, <4>2
    <3>2. CASE pushed /\ r = R
      BY <1>2, <1>4, <3>2
    <3>3. QED
      BY <1>6, <2>1, <3>1, <3>2
  <2>2. ASSUME NEW i \in 1..Len(valid'.requests), NEW j \in 1..Len(valid'.requests),
               valid'.requests[i].span = valid'.requests[j].span
        PROVE  i = j
    <3>1. \A m, n \in 1..Len(valid.requests) :
              valid.requests[m].span = valid.requests[n].span => m = n
      BY DEF ClockInv, Recorded
    <3>2. \A m \in 1..Len(valid.requests) : valid.requests[m].span # sp
      BY <1>7 DEF EverOf
    <3>3. valid'.requests = valid.requests \/ (pushed /\ valid'.requests = Append(valid.requests, R))
      BY <1>3, <1>5, SectionOfRecord DEF Pushed, Completed
    <3>4. valid.requests \in Seq(SpanRecord)
      BY <1>5 DEF Completed
    <3>5. CASE valid'.requests = valid.requests
      BY <2>2, <3>1, <3>5
    <3>6. CASE pushed /\ valid'.requests = Append(valid.requests, R)
      <4>1. /\ Len(valid'.requests) = Len(valid.requests) + 1
            /\ valid'.requests[Len(valid.requests) + 1] = R
            /\ \A m \in 1..Len(valid.requests) : valid'.requests[m] = valid.requests[m]
        BY <3>4, <3>6
      <4>2. R.span = sp
        BY <1>4, <3>6
      <4>3. PICK len \in Nat : len = Len(valid.requests)
        BY <3>4
      <4>4. i \in 1..len \/ i = len + 1
        BY <4>1, <4>3
      <4>5. j \in 1..len \/ j = len + 1
        BY <4>1, <4>3
      <4>6. QED
        BY <2>2, <3>1, <3>2, <4>1, <4>2, <4>3, <4>4, <4>5
    <3>7. QED
      BY <3>3, <3>5, <3>6
  <2>3. QED
    BY <2>1, <2>2 DEF Recorded, Us, DurationUs
<1>11. ASSUME NEW c \in Spans, NEW p \in Spans, Nests(c, p) PROVE Pair(c, p)'
  <2>1. Pair(c, p) /\ (c = sp \/ p = sp => c # p)
    BY <1>2, <1>11 DEF ClockInv, Pair
  <2>2. CASE c # sp /\ p # sp
    <3>1. \A r \in EverOf(valid') : r.span \in {c, p} => r \in EverOf(valid)
      BY <1>4, <1>6, <2>2
    <3>2. QED
      BY <1>8, <2>1, <2>2, <3>1, PairFrame
  <2>3. CASE c = sp
    <3>1. span[p].pc = "live" /\ span'[p] = span[p]
      BY <1>2, <2>1, <2>3 DEF Pair
    <3>2. \A rp \in EverOf(valid') : rp.span # p
      BY <1>4, <1>6, <1>7, <2>1, <2>3, <3>1
    <3>3. Open(p)' /\ pushed => recorder'.open[p].s <= R.s
      <4>1. SUFFICES ASSUME Open(p)', pushed PROVE recorder'.open[p].s <= R.s
        OBVIOUS
      <4>2. Open(p) /\ recorder'.open[p] = recorder.open[p]
        BY <1>2, <4>1
      <4>3. /\ recorder.open[p].at \in Nat /\ recorder.open[c].at \in Nat
            /\ recorder.open[p].at <= recorder.open[c].at
            /\ recorder.open[p].s = Us(recorder.open[p].at)
            /\ recorder.open[c].s = Us(recorder.open[c].at)
        BY <1>1, <1>2, <2>1, <2>3, <4>2, ClockTypes DEF ClockInv, Own, Pair
      <4>4. Us(recorder.open[p].at) <= Us(recorder.open[c].at)
        BY <4>3, UsOrder
      <4>5. QED
        BY <1>4, <2>3, <4>1, <4>2, <4>3, <4>4
    <3>4. \A rc \in EverOf(valid') : rc.span = c => pushed /\ rc = R
      BY <1>6, <1>7, <2>3
    <3>5. QED
      BY <1>2, <2>1, <2>3, <3>1, <3>2, <3>3, <3>4 DEF Pair
  <2>4. CASE p = sp
    <3>1. span[c].pc \in {"new", "closed"}
      <4>1. span[c] \in SpanType
        BY <1>1 DEF TypedInv
      <4>2. QED
        BY <1>2, <2>1, <2>4, <4>1 DEF Pair, SpanType
    <3>2. span'[c] = span[c] /\ span'[p].pc = "closed" /\ ~Open(p)'
      BY <1>2, <2>1, <2>4
    <3>3. ASSUME NEW rc \in EverOf(valid'), rc.span = c, NEW rp \in EverOf(valid'), rp.span = p
          PROVE  rp.s <= rc.s /\ rc.e <= rp.e
      <4>1. rc \in EverOf(valid)
        BY <1>4, <1>6, <2>1, <2>4, <3>3
      <4>2. pushed /\ rp = R
        BY <1>6, <1>7, <2>4, <3>3
      <4>3. recorder.open[p].s <= rc.s /\ rc.e <= Us(span[p].at[2])
        BY <1>2, <2>1, <2>4, <3>3, <4>1 DEF Pair
      <4>4. QED
        BY <1>4, <2>4, <4>2, <4>3
    <3>4. QED
      BY <2>1, <2>4, <3>1, <3>2, <3>3 DEF Pair
  <2>5. QED
    BY <2>2, <2>3, <2>4
<1>12. FromHistory'
  <2>1. CASE ~pushed
    BY <1>3, <2>1 DEF ClockInv, FromHistory
  <2>2. CASE pushed
    BY <1>2, <1>3, <1>5, <2>2, PushedHistory DEF ClockInv, FromHistory
  <2>3. QED
    BY <2>1, <2>2
<1>13. QED
  BY <1>9, <1>10, <1>11, <1>12 DEF ClockInv, Nests

\* Every step keeps the clock invariants.
LEMMA ClockStep ==
    ASSUME ClockInv, [Next]_vars
    PROVE  ClockInv'
<1>1. AccountInv'
  BY AccountStep DEF ClockInv
<1>2. ASSUME UNCHANGED recording PROVE ClockInv'
  <2>1. UNCHANGED <<recorder, span, instant, valid>>
    BY <1>2 DEF recording
  <2>2. \A x \in Spans : SameSpan(x)
    BY <2>1 DEF SameSpan, Open
  <2>3. QED
    BY <1>1, <2>1, <2>2, StillClock
<1>3. CASE BuildSession \/ SampleRuntime \/ StopSampling \/ ManualSnapshot \/ BeginShutdown \/ Shutdown
  <2>1. UNCHANGED recording
    BY <1>3 DEF BuildSession, SampleRuntime, StopSampling, ManualSnapshot, BeginShutdown, Shutdown,
                JoinSampler, TakeSnapshot, MergeAndCheck, WriteSpans, WriteRun
  <2>2. QED
    BY <1>2, <2>1
<1>4. CASE UNCHANGED vars
  BY <1>2, <1>4 DEF vars
<1>5. QED
  BY <1>1, <1>3, <1>4, NewSpanClock, InsertClock, RecordClock, CloseClock, FinishClock DEF Next

----------------------------------------------------------------------------
(* Snapshots of records that are sound.                                    *)

\* What a snapshot that is not strict takes over from the import.
LEMMA SnapshotIs ==
    /\ SnapshotRun(FALSE).sources = RetainedSources(CompletedSpanRecords)
    /\ \A sec \in EventSections :
           SnapshotRun(FALSE).dropped[sec] = DroppedAtLimit(CompletedSpanRecords, sec)
<1> DEFINE spans == CompletedSpanRecords
           full  == Imported(spans)
           hit   == full.limitsHit \/ \E c \in Truncating : recorder.stats[c] > 0
<1>1. SnapshotRun(FALSE) = WithDropWarnings(full, RecorderWarnings)
  BY DEF SnapshotRun, RunFromSpanRecords
<1>2. /\ full.error = "none" /\ {"lifecycle", "warnings", "limitsHit", "sources", "dropped"} \subseteq DOMAIN full
      /\ full.sources = RetainedSources(spans)
      /\ full.dropped = [sec \in EventSections |-> DroppedAtLimit(spans, sec)]
  BY DEF Imported, ImportedOf
<1> HIDE DEF full, spans
<1>3. SnapshotRun(FALSE) =
        [full EXCEPT !.lifecycle = full.lifecycle \cup RecorderWarnings,
                     !.warnings  = full.warnings + Cardinality(RecorderWarnings),
                     !.limitsHit = hit]
  BY <1>1, <1>2 DEF WithDropWarnings
<1> HIDE DEF hit
<1>4. SnapshotRun(FALSE).sources = full.sources /\ SnapshotRun(FALSE).dropped = full.dropped
  BY <1>2, <1>3
<1>5. QED
  BY <1>2, <1>4 DEF spans

\* A record of the snapshot has closed, and a request is where the recorder
\* has it.
LEMMA RecordsListed ==
    ASSUME ClockInv, NEW i \in 1..Len(CompletedSpanRecords)
    PROVE  /\ CompletedSpanRecords \in Seq(SpanRecord)
           /\ CompletedSpanRecords[i] \in EverOf(valid)
           /\ CompletedSpanRecords[i].kind = "request" =>
                  /\ i \in 1..Len(recorder.requests)
                  /\ CompletedSpanRecords[i] = recorder.requests[i]
<1> DEFINE a == recorder.requests
           b == recorder.stages
           c == recorder.queues
           all == (a \o b) \o c
<1>1. a \in Seq(SpanRecord) /\ b \in Seq(SpanRecord) /\ c \in Seq(SpanRecord)
  BY DEF ClockInv, AccountInv, RetentionInv, TypedInv, RecorderType
<1>2. CompletedSpanRecords = all
  BY DEF CompletedSpanRecords
<1>3. /\ \A k \in 1..Len(a) : a[k] \in EverOf(valid)
      /\ \A k \in 1..Len(b) : b[k] \in EverOf(valid) /\ b[k].kind = "stage"
      /\ \A k \in 1..Len(c) : c[k] \in EverOf(valid) /\ c[k].kind = "queue"
  <2>1. KindsMatch(valid) /\ Within(a, valid.requests) /\ Within(b, valid.stages) /\ Within(c, valid.queues)
    BY DEF ClockInv, AccountInv, FromHistory
  <2> HIDE DEF a, b, c
  <2>2. \A k \in 1..Len(a) : a[k] \in EverOf(valid)
    BY <2>1 DEF Within, EverOf
  <2>3. \A k \in 1..Len(b) : b[k] \in EverOf(valid) /\ b[k].kind = "stage"
    BY <2>1 DEF Within, EverOf, KindsMatch
  <2>4. \A k \in 1..Len(c) : c[k] \in EverOf(valid) /\ c[k].kind = "queue"
    BY <2>1 DEF Within, EverOf, KindsMatch
  <2>5. QED
    BY <2>2, <2>3, <2>4
<1> HIDE DEF a, b, c
<1>4. all \in Seq(SpanRecord) /\ Len(all) = Len(a) + Len(b) + Len(c)
  BY <1>1
<1>5. PICK m \in Nat, n \in Nat, l \in Nat : m = Len(a) /\ n = Len(b) /\ l = Len(c)
  BY <1>1
<1>6. i \in 1..m + n + l
  BY <1>2, <1>4, <1>5
<1>7. CASE i <= m
  <2>1. i \in 1..Len(a) /\ all[i] = a[i]
    BY <1>1, <1>5, <1>6, <1>7
  <2> HIDE DEF all
  <2>2. QED
    BY <1>2, <1>3, <1>4, <2>1 DEF a
<1>8. CASE i > m /\ i <= m + n
  <2>1. i - m \in 1..Len(b) /\ all[i] = b[i - m]
    BY <1>1, <1>5, <1>6, <1>8
  <2> HIDE DEF all
  <2>2. all[i] \in EverOf(valid) /\ all[i].kind = "stage"
    BY <1>3, <2>1
  <2>3. QED
    BY <1>2, <1>4, <2>2
<1>9. CASE i > m + n
  <2>1. i - m - n \in 1..Len(c) /\ all[i] = c[i - m - n]
    BY <1>1, <1>5, <1>6, <1>9
  <2> HIDE DEF all
  <2>2. all[i] \in EverOf(valid) /\ all[i].kind = "queue"
    BY <1>3, <2>1
  <2>3. QED
    BY <1>2, <1>4, <2>2
<1>10. QED
  BY <1>5, <1>6, <1>7, <1>8, <1>9

\* A sound record makes an event with a sound interval: rounding costs less
\* than the tolerance.
LEMMA SoundEvent ==
    ASSUME NEW r \in SpanRecord, SoundRecord(r)
    PROVE  ~PrecisionBad(EventOf(r)) /\ EventOf(r).shape = "ok" /\ ClearBad(EventOf(r)) = EventOf(r)
<1>1. /\ r.s \in Int /\ r.e \in Int /\ r.dur \in Int /\ Tolerance \in Nat /\ Tolerance >= 1
      /\ AbsDiff(r.dur, r.e - r.s) \in Int
  BY SessionAssumption, ToleranceAssumption DEF SpanRecord, AbsDiff
<1>2. /\ r.s # NoOffset /\ r.e # NoOffset /\ r.dur # NoOffset /\ ~(r.e < r.s)
      /\ ~(AbsDiff(r.dur, r.e - r.s) > Tolerance)
  BY <1>1 DEF SoundRecord, NoOffset
<1>3. /\ EventOf(r).s = r.s /\ EventOf(r).e = r.e /\ EventOf(r).dur = r.dur
      /\ EventOf(r).shape = "ok"
  BY <1>2 DEF EventOf, ElapsedDuration
<1>4. QED
  BY <1>2, <1>3 DEF PrecisionBad, Precise, ClearBad

\* The conversion accepts a sound record with ordered wall-clock readings and
\* a sound optional field, and only such.
LEMMA SoundAccepted ==
    ASSUME NEW r \in SpanRecord, SoundRecord(r)
    PROVE  Accepted(r) <=> r.ws <= r.wf /\ OptionalValid(r)
<1>1. r.ws \in Int /\ r.wf \in Int /\ r.kind \in {"request", "stage", "queue"}
  BY DEF SpanRecord
<1>2. KnownKind(r) /\ r.kind # "foreign"
  BY <1>1 DEF KnownKind, SectionOf
<1>3. RequiredBad(r) = <<>>
  BY DEF RequiredBad, Raised, SoundRecord
<1>4. Violations(r) = <<>> <=> ~(r.wf < r.ws) /\ OptionalValid(r)
  BY <1>2, <1>3 DEF Violations, Raised
<1>5. QED
  BY <1>1, <1>2, <1>4 DEF Accepted

\* No other retained request that the conversion accepts has p's id.
Sole(p) ==
    /\ p \in Range(recorder.requests)
    /\ \A o \in Range(recorder.requests) : o.id = p.id /\ o.ws <= o.wf /\ OptionalValid(o) => o = p

\* A candidate request with the id of a sole request is that request, and
\* there is one at most.
LEMMA SoleRequest ==
    ASSUME ClockInv, NEW p, Sole(p), CompletedSpanRecords \in Seq(SpanRecord)
    PROVE  LET spans == CompletedSpanRecords
               reqs  == CandidateRun(spans).requests
           IN  /\ \A k \in DOMAIN reqs : reqs[k].shape = "ok"
               /\ \A k \in DOMAIN reqs : reqs[k].id = p.id =>
                      spans[Provenance(spans, "requests")[k]] = p /\ reqs[k] = EventOf(p)
               /\ \A k, l \in DOMAIN reqs : reqs[k].id = p.id /\ reqs[l].id = p.id => k = l
<1> DEFINE spans == CompletedSpanRecords
           prov  == Provenance(spans, "requests")
           reqs  == CandidateRun(spans).requests
<1>1. "requests" \in EventSections
  BY DEF EventSections
<1>2. DOMAIN reqs = DOMAIN prov
  BY <1>1, CandidateDomain
<1>3. \A k \in DOMAIN prov : reqs[k] = EventOf(spans[prov[k]])
  BY <1>1, CandidateEvent
<1>4. /\ \A k \in DOMAIN prov : prov[k] \in OfSection(spans, "requests")
      /\ \A k, l \in DOMAIN prov : prov[k] = prov[l] => k = l
  BY <1>1, ProvenancePrefix
<1> HIDE DEF reqs, prov, spans
<1>5. ASSUME NEW k \in DOMAIN prov
      PROVE  /\ prov[k] \in 1..Len(recorder.requests) /\ spans[prov[k]] = recorder.requests[prov[k]]
             /\ spans[prov[k]].ws <= spans[prov[k]].wf /\ OptionalValid(spans[prov[k]])
             /\ reqs[k].id = spans[prov[k]].id /\ reqs[k].shape = "ok"
  <2> DEFINE i == prov[k]
  <2>1. i \in 1..Len(spans) /\ Accepted(spans[i]) /\ SectionOf[spans[i].kind] = "requests"
    BY <1>4 DEF OfSection
  <2>2. spans \in Seq(SpanRecord) /\ spans[i] \in SpanRecord
    BY <2>1 DEF spans
  <2>3. spans[i].kind = "request"
    BY <2>1, <2>2 DEF SectionOf, SpanRecord
  <2>4. /\ i \in 1..Len(recorder.requests) /\ spans[i] = recorder.requests[i]
        /\ spans[i] \in EverOf(valid)
    BY <2>1, <2>3, RecordsListed DEF spans
  <2>5. SoundRecord(spans[i])
    BY <2>4 DEF ClockInv, Recorded
  <2>6. spans[i].ws <= spans[i].wf /\ OptionalValid(spans[i])
    BY <2>1, <2>2, <2>5, SoundAccepted
  <2>7. reqs[k].id = spans[i].id /\ reqs[k].shape = "ok"
    <3>1. reqs[k] = EventOf(spans[i])
      BY <1>3
    <3>2. EventOf(spans[i]).id = spans[i].id /\ EventOf(spans[i]).shape = "ok"
      BY DEF EventOf
    <3>3. QED
      BY <3>1, <3>2
  <2>8. QED
    BY <2>4, <2>6, <2>7
<1>6. recorder.requests \in Seq(SpanRecord)
  BY DEF ClockInv, AccountInv, RetentionInv, TypedInv, RecorderType
<1>7. ASSUME NEW k \in DOMAIN prov, reqs[k].id = p.id PROVE spans[prov[k]] = p
  <2>1. spans[prov[k]] \in Range(recorder.requests)
    BY <1>5, <1>6 DEF Range
  <2>2. QED
    BY <1>5, <1>7, <2>1 DEF Sole
<1>8. ASSUME NEW k \in DOMAIN prov, NEW l \in DOMAIN prov, reqs[k].id = p.id, reqs[l].id = p.id
      PROVE  k = l
  <2>1. recorder.requests[prov[k]].span = recorder.requests[prov[l]].span
    BY <1>5, <1>7, <1>8
  <2>2. /\ Len(recorder.requests) = AtMost(Len(valid.requests))
        /\ \A i \in 1..Len(recorder.requests) : recorder.requests[i] = valid.requests[i]
        /\ valid.requests \in Seq(SpanRecord)
    BY DEF ClockInv, AccountInv, RetentionInv, Ledger, TypedInv, Completed
  <2>3. PICK m \in Nat, n \in Nat : m = Len(recorder.requests) /\ n = Len(valid.requests)
    <3>1. Len(recorder.requests) \in Nat
      BY <1>6
    <3>2. Len(valid.requests) \in Nat
      BY <2>2
    <3>3. QED
      BY <3>1, <3>2
  <2>4. m <= n
    <3>1. MaxCompleted \in Nat
      BY SessionAssumption
    <3>2. QED
      BY <2>2, <2>3, <3>1 DEF AtMost
  <2>5. prov[k] \in 1..n /\ prov[l] \in 1..n
    BY <1>5, <2>3, <2>4
  <2>6. valid.requests[prov[k]].span = valid.requests[prov[l]].span
    BY <1>5, <2>1, <2>2
  <2>7. prov[k] = prov[l]
    BY <2>3, <2>5, <2>6 DEF ClockInv, Recorded
  <2>8. QED
    BY <1>4, <2>7
<1>9. QED
  BY <1>2, <1>3, <1>5, <1>7, <1>8 DEF reqs, prov, spans

\* A sole request is retained, under its id as the only parent.
LEMMA SoleRetained ==
    ASSUME ClockInv, NEW p, Sole(p), CompletedSpanRecords \in Seq(SpanRecord),
           NEW k \in DOMAIN CandidateRun(CompletedSpanRecords).requests,
           CandidateRun(CompletedSpanRecords).requests[k] = EventOf(p)
    PROVE  LET reqs == CandidateRun(CompletedSpanRecords).requests
           IN  /\ RequestRetained(reqs, reqs[k])
               /\ ParentState(reqs, p.id) = "unique" /\ ParentOf(reqs, p.id) = ClearBad(EventOf(p))
<1> DEFINE reqs == CandidateRun(CompletedSpanRecords).requests
<1>1. /\ \A n \in DOMAIN reqs : reqs[n].shape = "ok"
      /\ \A n \in DOMAIN reqs : reqs[n].id = p.id => reqs[n] = EventOf(p)
      /\ \A n, l \in DOMAIN reqs : reqs[n].id = p.id /\ reqs[l].id = p.id => n = l
  BY SoleRequest
<1>2. EventOf(p).id = p.id
  BY DEF EventOf
<1>3. k \in DOMAIN reqs /\ reqs[k] = EventOf(p) /\ reqs[k].id = p.id
  BY <1>2
<1> HIDE DEF reqs
<1>4. p.id \notin DupIds(reqs)
  BY <1>1 DEF DupIds
<1>5. RequestRetained(reqs, reqs[k])
  BY <1>1, <1>3, <1>4 DEF RequestRetained
<1>6. ParentState(reqs, p.id) = "unique"
  BY <1>3, <1>4, <1>5 DEF ParentState
<1>7. (CHOOSE r \in {reqs[i] : i \in DOMAIN reqs} : r.id = p.id /\ RequestRetained(reqs, r)) = EventOf(p)
  <2>1. \A r \in {reqs[i] : i \in DOMAIN reqs} : r.id = p.id => r = EventOf(p)
    BY <1>1
  <2>2. \E r \in {reqs[i] : i \in DOMAIN reqs} : r.id = p.id /\ RequestRetained(reqs, r)
    BY <1>3, <1>5
  <2>3. QED
    BY <2>1, <2>2
<1>8. ParentOf(reqs, p.id) = ClearBad(EventOf(p))
  BY <1>7 DEF ParentOf
<1>9. QED
  BY <1>5, <1>6, <1>8 DEF reqs

\* Every accepted span of a section without drops has its event.
LEMMA HasEvent ==
    ASSUME NEW spans \in Seq(SpanRecord), NEW sec \in EventSections, DroppedAtLimit(spans, sec) = 0,
           NEW i \in OfSection(spans, sec)
    PROVE  \E k \in DOMAIN CandidateRun(spans)[sec] :
               /\ Provenance(spans, sec)[k] = i
               /\ CandidateRun(spans)[sec][k] = EventOf(spans[i])
<1>1. PICK k \in DOMAIN Provenance(spans, sec) : Provenance(spans, sec)[k] = i
  BY ProvenancePrefix
<1>2. QED
  BY <1>1, CandidateEvent

\* A source whose event is not excluded is retained.
LEMMA SourceKept ==
    ASSUME NEW spans \in Seq(SpanRecord), NEW sec \in EventSections,
           NEW k \in DOMAIN CandidateRun(spans)[sec],
           ~Excluded(Report(CandidateRun(spans)), sec, k)
    PROVE  spans[Provenance(spans, sec)[k]] \in Range(RetainedSources(spans))
<1> DEFINE rn == CandidateRun(spans)
           i  == Provenance(spans, sec)[k]
<1>1. RetainedIndices(spans) = JoinSources(spans, rn, Report(rn))
  BY DEF RetainedIndices
<1> HIDE DEF rn
<1>2. i \in RetainedIndices(spans)
  BY <1>1 DEF JoinSources, rn
<1>3. QED
  BY <1>2, SourceRetained DEF Range

\* Spans that the program nests stay nested: a stage or queue that closed
\* within its request, both seen by sound wall-clock readings, is a retained
\* source beside it, and neither loses its run-relative interval, however the
\* clock readings interleave with the lock.
THEOREM NestedEvidenceKeptHolds == Spec => []NestedEvidenceKept
<1>1. ASSUME ClockInv PROVE NestedEvidenceKept
  <2> DEFINE spans    == CompletedSpanRecords
             snapshot == SnapshotRun(FALSE)
             reqs     == CandidateRun(spans).requests
  <2>1. SUFFICES ASSUME NEW c \in Range(spans), NEW p \in Range(spans),
                        c.span \in DOMAIN Nested, Nested[c.span] = p.span, c.id = p.id,
                        c.ws <= c.wf, OptionalValid(c), p.ws <= p.wf, OptionalValid(p),
                        {o \in Range(recorder.requests) :
                            o.id = p.id /\ o.ws <= o.wf /\ OptionalValid(o)} = {p},
                        \A sec \in EventSections : snapshot.dropped[sec] = 0
                 PROVE  /\ c \in Range(snapshot.sources) /\ p \in Range(snapshot.sources)
                        /\ ~PrecisionBad(EventOf(c)) /\ ~PrecisionBad(EventOf(p))
    BY DEF NestedEvidenceKept
  <2>2. /\ snapshot.sources = RetainedSources(spans)
        /\ \A sec \in EventSections : DroppedAtLimit(spans, sec) = 0
    BY <2>1, SnapshotIs
  <2> HIDE DEF snapshot, spans
  <2>3. spans \in Seq(SpanRecord) /\ TypedInv
    BY <1>1 DEF ClockInv, AccountInv, RetentionInv, TypedInv, RecorderType, spans, CompletedSpanRecords
  <2>4. PICK i \in 1..Len(spans), j \in 1..Len(spans) : c = spans[i] /\ p = spans[j]
    BY <2>1, <2>3 DEF Range
  <2>5. /\ c \in EverOf(valid) /\ p \in EverOf(valid) /\ c \in SpanRecord /\ p \in SpanRecord
        /\ c.kind = "request" => c \in Range(recorder.requests)
    <3>1. recorder.requests \in Seq(SpanRecord)
      BY <2>3 DEF TypedInv, RecorderType
    <3>2. /\ spans[i] \in EverOf(valid) /\ spans[j] \in EverOf(valid)
          /\ spans[i].kind = "request" =>
                 i \in 1..Len(recorder.requests) /\ spans[i] = recorder.requests[i]
      BY <1>1, RecordsListed DEF spans
    <3>3. QED
      BY <2>3, <2>4, <3>1, <3>2 DEF Range
  <2>6. /\ SoundRecord(c) /\ SoundRecord(p) /\ span[c.span].pc = "closed"
        /\ c.span \in Spans /\ p.span \in Spans
    BY <1>1, <2>3, <2>5, RecordsClosed DEF ClockInv, Recorded
  <2>7. c.span # p.span /\ p.s <= c.s /\ c.e <= p.e
    <3>1. Pair(c.span, p.span)
      BY <1>1, <2>1, <2>6 DEF ClockInv, Nests
    <3>2. QED
      BY <2>5, <2>6, <3>1 DEF Pair
  <2>8. Sole(p)
    BY <2>1 DEF Sole
  <2>9. Accepted(c) /\ Accepted(p)
    BY <2>1, <2>5, <2>6, SoundAccepted
  <2>10. p.kind = "request"
    <3>1. PICK n \in DOMAIN recorder.requests : p = recorder.requests[n]
      BY <2>8 DEF Sole, Range
    <3>2. recorder.requests \in Seq(SpanRecord) /\ valid.requests \in Seq(SpanRecord)
      BY <2>3 DEF TypedInv, RecorderType, Completed
    <3>3. n \in 1..Len(recorder.requests)
      BY <3>1, <3>2
    <3>4. KindsMatch(valid) /\ Within(recorder.requests, valid.requests)
      BY <1>1 DEF ClockInv, AccountInv, FromHistory
    <3>5. QED
      BY <3>1, <3>3, <3>4 DEF Within, KindsMatch
  <2>11. c.kind \in {"stage", "queue"}
    <3>1. c.kind # "request"
      BY <2>1, <2>5, <2>7, <2>8 DEF Sole
    <3>2. QED
      BY <2>5, <3>1 DEF SpanRecord
  <2>12. "requests" \in EventSections /\ j \in OfSection(spans, "requests")
    BY <2>4, <2>9, <2>10 DEF OfSection, SectionOf, EventSections
  <2>13. PICK sec \in ChildSections : i \in OfSection(spans, sec)
    BY <2>4, <2>9, <2>11 DEF OfSection, SectionOf, ChildSections
  <2>14. sec \in EventSections
    BY DEF EventSections
  <2>15. PICK k \in DOMAIN reqs : Provenance(spans, "requests")[k] = j /\ reqs[k] = EventOf(p)
    BY <2>2, <2>3, <2>4, <2>12, HasEvent
  <2>16. PICK l \in DOMAIN CandidateRun(spans)[sec] :
             Provenance(spans, sec)[l] = i /\ CandidateRun(spans)[sec][l] = EventOf(c)
    BY <2>2, <2>3, <2>4, <2>13, <2>14, HasEvent
  <2>17. /\ ~PrecisionBad(EventOf(c)) /\ EventOf(c).shape = "ok" /\ ClearBad(EventOf(c)) = EventOf(c)
         /\ ~PrecisionBad(EventOf(p)) /\ EventOf(p).shape = "ok" /\ ClearBad(EventOf(p)) = EventOf(p)
    BY <2>5, <2>6, SoundEvent
  <2>18. /\ RequestRetained(reqs, reqs[k]) /\ ParentState(reqs, p.id) = "unique"
         /\ ParentOf(reqs, p.id) = EventOf(p)
    BY <1>1, <2>3, <2>8, <2>15, <2>17, SoleRetained DEF spans
  <2>19. ~Excluded(Report(CandidateRun(spans)), "requests", k)
    BY <2>15, <2>17, <2>18, RequestExclusion DEF EventShapes
  <2>20. ChildRetained(reqs, EventOf(c))
    <3>1. /\ EventOf(c).id = p.id /\ EventOf(c).s = c.s /\ EventOf(c).e = c.e
          /\ EventOf(p).s = p.s /\ EventOf(p).e = p.e
      BY <2>1 DEF EventOf
    <3>2. c.s \in Int /\ c.e \in Int /\ p.s \in Int /\ p.e \in Int
      BY <2>5 DEF SpanRecord
    <3>3. ~OutsideParent(reqs, EventOf(c))
      BY <2>7, <2>18, <3>1, <3>2 DEF OutsideParent
    <3>4. QED
      BY <2>17, <2>18, <3>1, <3>3 DEF ChildRetained
  <2>21. ~Excluded(Report(CandidateRun(spans)), sec, l)
    BY <2>16, <2>17, <2>20, ChildExclusion DEF EventShapes
  <2>22. c \in Range(RetainedSources(spans)) /\ p \in Range(RetainedSources(spans))
    <3>1. spans[Provenance(spans, "requests")[k]] \in Range(RetainedSources(spans))
      BY <2>3, <2>12, <2>15, <2>19, SourceKept
    <3>2. spans[Provenance(spans, sec)[l]] \in Range(RetainedSources(spans))
      BY <2>3, <2>14, <2>16, <2>21, SourceKept
    <3>3. QED
      BY <2>4, <2>15, <2>16, <3>1, <3>2
  <2>23. QED
    BY <2>2, <2>17, <2>22
<1>2. QED
  BY <1>1, ClockStarts, ClockStep, PTL DEF Spec

----------------------------------------------------------------------------
(* The outputs of a session.                                               *)

\* What was converted, from some completed spans.
Converted(imported) ==
    /\ Mergeable(imported) /\ "sources" \in DOMAIN imported /\ EventSections \subseteq DOMAIN imported.run
    /\ \E spans \in Seq(SpanRecord) :
           /\ imported.sources = RetainedSources(spans)
           /\ \A sec \in EventSections :
                  imported.run[sec] = NormalizeRun(CandidateRun(spans))[sec]

\* The inductive invariant behind OutputsAgree: what is at the paths at each
\* point of shutdown, and that it is of the one conversion in captured.
OutputInv ==
    /\ DOMAIN session = {"pc", "error"} /\ DOMAIN files = {"jsonl", "json"}
    /\ session.pc # "done" => session.error = "none" /\ files.json = NoFile
    /\ session.pc \notin {"json", "done"} => files.jsonl = NoFile
    /\ session.pc \in {"merge", "spans", "json"} => Converted(captured)
    /\ session.pc \in {"spans", "json"} /\ (config.jsonl \/ config.json) => captured.run.requests # <<>>
    /\ session.pc = "json" /\ config.jsonl => files.jsonl # NoFile
    /\ files.jsonl # NoFile =>
           Converted(captured) /\ SpanOutput.error = "none" /\ files.jsonl = {SpanOutput.lines}
    /\ files.json # NoFile =>
           /\ captured.run.requests # <<>> /\ files.json = {captured.run}
           /\ config.jsonl => files.jsonl # NoFile
    /\ session.pc = "done" /\ session.error = "none" =>
           (config.jsonl => files.jsonl # NoFile) /\ (config.json => files.json # NoFile)
    /\ session.error \in {"strict", "ZeroRequestArtifact"} =>
           files.jsonl = NoFile /\ files.json = NoFile

\* A successful snapshot converts the completed records.
LEMMA SnapshotConverted ==
    ASSUME RetentionInv, NEW strict, SnapshotRun(strict).error = "none"
    PROVE  Converted(SnapshotRun(strict))
<1> DEFINE spans == CompletedSpanRecords
           plain == RunFromSpanRecords(spans, strict)
           full  == Imported(spans)
           snap  == SnapshotRun(strict)
           hit   == full.limitsHit \/ \E c \in Truncating : recorder.stats[c] > 0
<1>1. Mergeable(snap)
  BY SnapshotMergeable
<1>2. Failed("strict").error # "none"
  BY DEF Failed
<1>3. snap = WithDropWarnings(plain, RecorderWarnings)
  BY <1>2 DEF SnapshotRun
<1>4. plain = full
  <2>1. plain \in {Failed("strict"), full}
    BY DEF RunFromSpanRecords
  <2>2. CASE plain.error # "none"
    BY <2>2, <1>3 DEF WithDropWarnings
  <2>3. QED
    BY <2>1, <2>2, <1>2
<1>5. /\ full.error = "none" /\ {"lifecycle", "warnings", "limitsHit", "sources", "run"} \subseteq DOMAIN full
      /\ full.sources = RetainedSources(spans) /\ full.run = NormalizeRun(CandidateRun(spans))
  BY DEF Imported, ImportedOf
<1>6. EventSections \subseteq DOMAIN NormalizeRun(CandidateRun(spans))
  BY NormalizedSections
<1>7. spans \in Seq(SpanRecord)
  <2>1. /\ recorder.requests \in Seq(SpanRecord) /\ recorder.stages \in Seq(SpanRecord)
        /\ recorder.queues \in Seq(SpanRecord)
    BY DEF RetentionInv, TypedInv, RecorderType
  <2>2. QED
    BY <2>1 DEF CompletedSpanRecords
<1> HIDE DEF full, spans, plain, snap
<1>8. snap = [full EXCEPT !.lifecycle = full.lifecycle \cup RecorderWarnings,
                          !.warnings  = full.warnings + Cardinality(RecorderWarnings),
                          !.limitsHit = hit]
  BY <1>3, <1>4, <1>5 DEF WithDropWarnings
<1> HIDE DEF hit
<1>9. snap.sources = full.sources /\ snap.run = full.run /\ "sources" \in DOMAIN snap
  BY <1>5, <1>8
<1>10. QED
  BY <1>1, <1>5, <1>6, <1>7, <1>9 DEF Converted, snap

\* The merge changes no request, stage or queue, and no source.
LEMMA MergeConverted ==
    ASSUME NEW imported, Converted(imported)
    PROVE  Converted(MergeRuntime(imported))
<1> DEFINE merged == MergeRuntime(imported)
           samples == [k \in DOMAIN runtime.snapshots |-> "ok"]
<1>1. /\ {"run", "limitsHit", "lifecycle", "warnings", "sources"} \subseteq DOMAIN imported
      /\ EventSections \cup {"runtime"} \subseteq DOMAIN imported.run
  BY DEF Converted, Mergeable
<1>2. /\ merged.run = [imported.run EXCEPT !.runtime = samples]
      /\ merged.sources = imported.sources /\ DOMAIN merged = DOMAIN imported
  BY <1>1 DEF MergeRuntime
<1> HIDE DEF merged, samples
<1>3. \A sec \in EventSections : sec # "runtime"
  BY DEF EventSections, ChildSections
<1>4. DOMAIN merged.run = DOMAIN imported.run
  BY <1>2
<1>5. \A sec \in EventSections : merged.run[sec] = imported.run[sec]
  BY <1>1, <1>2, <1>3
<1>6. PICK spans \in Seq(SpanRecord) :
          /\ imported.sources = RetainedSources(spans)
          /\ \A sec \in EventSections : imported.run[sec] = NormalizeRun(CandidateRun(spans))[sec]
  BY DEF Converted
<1>7. QED
  BY <1>1, <1>2, <1>4, <1>5, <1>6 DEF Converted, Mergeable, merged

\* Nothing is written before a session is built.
LEMMA OutputStarts ==
    ASSUME Init
    PROVE  OutputInv
BY DEF Init, OutputInv, NoFile

\* A step that is not the owner's leaves the outputs and what they are of.
LEMMA OutputUntouched ==
    ASSUME OutputInv, UNCHANGED <<config, session, captured, files>>
    PROVE  OutputInv'
BY DEF OutputInv, SpanOutput, Converted, Mergeable

\* The owner's way to the snapshot: nothing is written yet.
LEMMA OutputBefore ==
    ASSUME OutputInv, BuildSession \/ BeginShutdown \/ JoinSampler
    PROVE  OutputInv'
<1>1. UNCHANGED <<config, captured, files>>
  BY DEF BuildSession, BeginShutdown, JoinSampler
<1>2. /\ session.pc \in {"unbuilt", "running", "join"} /\ session.error = "none"
      /\ files.jsonl = NoFile /\ files.json = NoFile /\ DOMAIN session = {"pc", "error"}
      /\ DOMAIN files = {"jsonl", "json"}
  BY DEF BuildSession, BeginShutdown, JoinSampler, OutputInv
<1>3. DOMAIN session' = {"pc", "error"} /\ session'.pc \in {"running", "join", "snapshot", "done"}
      /\ (session'.pc # "done" => session'.error = "none")
      /\ (session'.pc = "done" => session'.error # "none")
  BY <1>2 DEF BuildSession, BeginShutdown, JoinSampler, Goto
<1>4. QED
  BY <1>1, <1>2, <1>3 DEF OutputInv

\* The snapshot either converts the completed spans or ends the session.
LEMMA OutputSnapshot ==
    ASSUME OutputInv, RetentionInv, TakeSnapshot
    PROVE  OutputInv'
<1>1. /\ UNCHANGED <<config, files>> /\ captured' = SnapshotRun(config.strict) /\ session.pc = "snapshot"
      /\ IF captured'.error = "none" THEN Goto("merge") ELSE Return(captured'.error)
  BY DEF TakeSnapshot
<1>2. /\ session.error = "none" /\ files.jsonl = NoFile /\ files.json = NoFile
      /\ DOMAIN session = {"pc", "error"} /\ DOMAIN files = {"jsonl", "json"}
  BY <1>1 DEF OutputInv
<1>3. CASE captured'.error = "none"
  <2>1. Converted(captured)'
    BY <1>1, <1>3, SnapshotConverted DEF Converted, Mergeable
  <2>2. session'.pc = "merge" /\ session'.error = "none" /\ DOMAIN session' = {"pc", "error"}
    BY <1>1, <1>2, <1>3 DEF Goto
  <2>3. QED
    BY <1>1, <1>2, <2>1, <2>2 DEF OutputInv
<1>4. CASE captured'.error # "none"
  <2>1. session' = [pc |-> "done", error |-> captured'.error]
    BY <1>1, <1>4 DEF Return
  <2>2. session'.pc = "done" /\ session'.error # "none" /\ DOMAIN session' = {"pc", "error"}
    BY <1>4, <2>1
  <2>3. QED
    BY <1>1, <1>2, <2>2 DEF OutputInv
<1>5. QED
  BY <1>3, <1>4

\* The merge keeps the conversion, and lets no run without a request through.
LEMMA OutputMerge ==
    ASSUME OutputInv, MergeAndCheck
    PROVE  OutputInv'
<1> DEFINE merged == IF HasCollector THEN MergeRuntime(captured) ELSE captured
<1>1. /\ UNCHANGED <<config, files>> /\ session.pc = "merge" /\ captured' = merged
      /\ IF (config.jsonl \/ config.json) /\ merged.run.requests = <<>>
         THEN Return("ZeroRequestArtifact") ELSE Goto("spans")
  BY DEF MergeAndCheck
<1>2. /\ session.error = "none" /\ files.jsonl = NoFile /\ files.json = NoFile
      /\ DOMAIN session = {"pc", "error"} /\ DOMAIN files = {"jsonl", "json"} /\ Converted(captured)
  BY <1>1 DEF OutputInv
<1>3. Converted(merged)
  BY <1>2, MergeConverted
<1> HIDE DEF merged
<1>4. Converted(captured)'
  BY <1>1, <1>3 DEF Converted, Mergeable
<1>5. \/ session' = [pc |-> "done", error |-> "ZeroRequestArtifact"]
      \/ session' = [session EXCEPT !.pc = "spans"]
         /\ ~((config.jsonl \/ config.json) /\ merged.run.requests = <<>>)
  BY <1>1 DEF Return, Goto
<1>6. CASE session' = [pc |-> "done", error |-> "ZeroRequestArtifact"]
  <2>1. session'.pc = "done" /\ session'.error # "none" /\ DOMAIN session' = {"pc", "error"}
    BY <1>6
  <2>2. QED
    BY <1>1, <1>2, <2>1 DEF OutputInv
<1>7. CASE /\ session' = [session EXCEPT !.pc = "spans"]
           /\ ~((config.jsonl \/ config.json) /\ merged.run.requests = <<>>)
  <2>1. session'.pc = "spans" /\ session'.error = "none" /\ DOMAIN session' = {"pc", "error"}
    BY <1>2, <1>7
  <2>2. QED
    BY <1>1, <1>2, <1>4, <1>7, <2>1 DEF OutputInv
<1>8. QED
  BY <1>5, <1>6, <1>7

\* The JSONL is written whole, or not at all.
LEMMA OutputSpans ==
    ASSUME OutputInv, WriteSpans
    PROVE  OutputInv'
<1>1. /\ session.pc = "spans" /\ UNCHANGED <<config, captured>>
      /\ session.error = "none" /\ files.jsonl = NoFile /\ files.json = NoFile
      /\ DOMAIN session = {"pc", "error"} /\ DOMAIN files = {"jsonl", "json"} /\ Converted(captured)
      /\ (config.jsonl \/ config.json => captured.run.requests # <<>>)
  BY DEF OutputInv, WriteSpans
<1>2. Converted(captured)' /\ SpanOutput' = SpanOutput
  BY <1>1 DEF Converted, Mergeable, SpanOutput
<1>3. ASSUME Goto("json") PROVE session'.pc = "json" /\ session'.error = "none" /\ DOMAIN session' = {"pc", "error"}
  BY <1>1, <1>3 DEF Goto
<1>4. ASSUME NEW error, Return(error)
      PROVE  session'.pc = "done" /\ session'.error = error /\ DOMAIN session' = {"pc", "error"}
  BY <1>4 DEF Return
<1>5. CASE ~config.jsonl /\ Goto("json") /\ UNCHANGED files
  BY <1>1, <1>2, <1>3, <1>5 DEF OutputInv
<1>6. CASE /\ config.jsonl /\ SpanOutput.error = "none"
           /\ files' = [files EXCEPT !.jsonl = {SpanOutput.lines}] /\ Goto("json")
  <2>1. files'.jsonl = {SpanOutput.lines} /\ files'.json = NoFile /\ DOMAIN files' = {"jsonl", "json"}
    BY <1>1, <1>6
  <2>2. files'.jsonl # NoFile
    BY <2>1 DEF NoFile
  <2>3. QED
    BY <1>1, <1>2, <1>3, <1>6, <2>1, <2>2 DEF OutputInv
<1>7. CASE config.jsonl /\ SpanOutput.error # "none" /\ Return(SpanOutput.error) /\ UNCHANGED files
  BY <1>1, <1>4, <1>7 DEF OutputInv
<1>8. CASE config.jsonl /\ Return("Io") /\ UNCHANGED files
  BY <1>1, <1>4, <1>8 DEF OutputInv
<1>9. QED
  BY <1>5, <1>6, <1>7, <1>8 DEF WriteSpans

\* The Run JSON is written last, from the conversion that the JSONL is of.
LEMMA OutputRun ==
    ASSUME OutputInv, WriteRun
    PROVE  OutputInv'
<1>1. /\ session.pc = "json" /\ UNCHANGED <<config, captured>> /\ session.error = "none"
      /\ files.json = NoFile /\ DOMAIN files = {"jsonl", "json"}
      /\ (config.jsonl \/ config.json => captured.run.requests # <<>>)
      /\ (config.jsonl => files.jsonl # NoFile)
      /\ (files.jsonl # NoFile =>
             Converted(captured) /\ SpanOutput.error = "none" /\ files.jsonl = {SpanOutput.lines})
  BY DEF OutputInv, WriteRun
<1>2. (Converted(captured)' <=> Converted(captured)) /\ SpanOutput' = SpanOutput
  BY <1>1 DEF Converted, Mergeable, SpanOutput
<1>3. ASSUME NEW error, Return(error)
      PROVE  session'.pc = "done" /\ session'.error = error /\ DOMAIN session' = {"pc", "error"}
  BY <1>3 DEF Return
<1>4. CASE ~config.json /\ Return("none") /\ UNCHANGED files
  BY <1>1, <1>2, <1>3, <1>4 DEF OutputInv
<1>5. CASE config.json /\ files' = [files EXCEPT !.json = {captured.run}] /\ Return("none")
  <2>1. files'.json = {captured.run} /\ files'.jsonl = files.jsonl /\ DOMAIN files' = {"jsonl", "json"}
    BY <1>1, <1>5
  <2>2. files'.json # NoFile
    BY <2>1 DEF NoFile
  <2>3. QED
    BY <1>1, <1>2, <1>3, <1>5, <2>1, <2>2 DEF OutputInv
<1>6. CASE config.json /\ Return("RunJsonWrite") /\ UNCHANGED files
  BY <1>1, <1>2, <1>3, <1>6 DEF OutputInv
<1>7. QED
  BY <1>4, <1>5, <1>6 DEF WriteRun

\* Every step preserves the outputs' invariant.
LEMMA OutputStep ==
    ASSUME OutputInv, RetentionInv, [Next]_vars
    PROVE  OutputInv'
<1>1. CASE SampleRuntime \/ StopSampling \/ ManualSnapshot \/ UNCHANGED vars
  <2>1. UNCHANGED <<config, session, captured, files>>
    BY <1>1 DEF SampleRuntime, StopSampling, ManualSnapshot, vars
  <2>2. QED
    BY <2>1, OutputUntouched
<1>2. ASSUME NEW sp \in Spans,
             NewSpan(sp) \/ InsertSpan(sp) \/ RecordFields(sp) \/ CloseSpan(sp) \/ FinishClose(sp)
      PROVE  OutputInv'
  <2>1. UNCHANGED <<config, session, captured, files>>
    BY <1>2 DEF NewSpan, InsertSpan, RecordFields, CloseSpan, FinishClose
  <2>2. QED
    BY <2>1, OutputUntouched
<1>3. QED
  BY <1>1, <1>2, OutputBefore, OutputSnapshot, OutputMerge, OutputSpans, OutputRun DEF Next, Shutdown

\* The outputs agree for any spans, limits and configuration: a Run JSON is
\* only ever beside the span JSONL of the same conversion, and importing that
\* JSONL again gives its requests, stages and queues.
THEOREM OutputsAgreeHolds == Spec => []OutputsAgree
<1>1. ASSUME OutputInv PROVE OutputsAgree
  <2>1. ASSUME NEW run \in files.json, NEW lines \in files.jsonl
        PROVE  /\ ImportJsonl(lines, FALSE).error = "none"
               /\ \A sec \in EventSections : ImportJsonl(lines, FALSE).run[sec] = run[sec]
    <3>1. /\ run = captured.run /\ Converted(captured) /\ WriteJsonl(captured.sources).error = "none"
          /\ lines = WriteJsonl(captured.sources).lines
      BY <1>1, <2>1 DEF OutputInv, SpanOutput, NoFile
    <3>2. PICK spans \in Seq(SpanRecord) :
              /\ captured.sources = RetainedSources(spans)
              /\ \A sec \in EventSections : captured.run[sec] = NormalizeRun(CandidateRun(spans))[sec]
      BY <3>1 DEF Converted
    <3>3. RetainedSources(spans) \in Seq(SpanRecord)
      BY SourcesKept
    <3>4. /\ ImportJsonl(lines, FALSE).error = "none"
          /\ ImportJsonl(lines, FALSE).run = NormalizeRun(CandidateRun(RetainedSources(spans)))
      BY <3>1, <3>2, <3>3, ReadBack
    <3>5. \A sec \in EventSections :
              NormalizeRun(CandidateRun(RetainedSources(spans)))[sec] = NormalizeRun(CandidateRun(spans))[sec]
      BY ReimportRun
    <3>6. QED
      BY <3>1, <3>2, <3>4, <3>5
  <2>2. ASSUME NEW run \in files.json
        PROVE  run.requests # <<>> /\ (config.jsonl => files.jsonl # NoFile)
    BY <1>1, <2>2 DEF OutputInv, NoFile
  <2>3. QED
    BY <1>1, <2>1, <2>2 DEF OutputsAgree, OutputInv
<1>2. QED
  BY <1>1, OutputStarts, OutputStep, RetentionStarts, RetentionStep, PTL DEF Spec
=============================================================================

--------------------------- MODULE TracingSession ---------------------------
(***************************************************************************)
(* Live tracing intake (tailtriage-tracing/src/recorder.rs): the layer     *)
(* that follows spans, bounded kind-aware retention, snapshots, and a      *)
(* session that shuts its runtime sampler down, converts what was          *)
(* retained and writes the configured outputs.                             *)
(*                                                                         *)
(* The recorder's state is behind one mutex.  on_new_span and on_close     *)
(* read the clocks before they take it, so each is two actions: the        *)
(* reading, and the critical section.  Instants are in ticks, TicksPerUs   *)
(* of them to a microsecond, counted from the recorder's start.            *)
(***************************************************************************)
EXTENDS TracingJsonl, RuntimeSampler

CONSTANTS
    Spans,           \* spans of the program
    Plan,            \* [Spans -> [fields, later, declared]]: what they carry
    Nested,          \* [Nested spans -> parent]: scopes the program nests
    Configs,         \* the session configurations to look at
    MaxOpen,         \* RecorderLimits.max_open_spans
    MaxCompleted,    \* RecorderLimits.max_completed_candidate_spans
    TicksPerUs,      \* instant ticks in a microsecond
    Steps,           \* [Spans -> ticks that may pass before a clock reading]
    MaxInstant,      \* bound: the last instant
    WallReadings,    \* [Spans -> wall-clock readings in milliseconds]
    MaxManual        \* bound: manual runtime snapshots

\* classify_kind: the counter of a span whose kind is none of SectionOf's.
KindCounter == [missing |-> "missing_kind", unknown |-> "unknown_kind",
                malformed |-> "malformed_kind"]

\* The fields that a span carries, by what the layer finds in them.
FieldValues == [kind |-> DOMAIN SectionOf \cup DOMAIN KindCounter,
                id |-> STRING, name |-> STRING, opt |-> STRING]
FieldSet == [kind : FieldValues.kind, id : STRING, name : STRING, opt : STRING]

ASSUME SessionAssumption ==
    /\ MaxOpen \in Nat /\ MaxCompleted \in Nat /\ TicksPerUs \in Nat \ {0}
    /\ Tolerance >= 1     \* what rounding offsets to microseconds can cost
    /\ IsFiniteSet(Spans) /\ MaxManual \in Nat
    /\ \A sp \in Spans :
           /\ Steps[sp] \subseteq Nat /\ WallReadings[sp] \subseteq Int
           /\ Plan[sp].fields \in FieldSet /\ DOMAIN Plan[sp].later \subseteq DOMAIN FieldValues
           /\ \A f \in DOMAIN Plan[sp].later : Plan[sp].later[f] \in FieldValues[f]

VARIABLES
    config,     \* TracingSessionBuilder
    session,    \* [pc, error]: the session's owner
    recorder,   \* RecorderState
    span,       \* per span: [pc, fields, ws, at, recorded]
    instant,    \* the monotonic clock
    manual,     \* manual runtime snapshots so far
    captured,   \* the ImportedRun that shutdown carries along
    files,      \* [jsonl, json]: what is at the output paths
    valid       \* per section: the complete candidates that closed, in order

recording == <<recorder, span, instant, valid>>
vars == <<config, session, recording, manual, captured, files, sampler, runtime>>

NoFile == {}     \* a path holds no file, or the set of its one content
NothingCaptured == [absent |-> TRUE]

Counters == {"dropped_open", "dropped_request", "dropped_child", "evicted_child",
             "missing_kind", "unknown_kind", "malformed_kind", "incomplete"}

EmptyRecorder ==
    [open |-> [sp \in {} |-> 0], requests |-> <<>>, stages |-> <<>>, queues |-> <<>>,
     stats |-> [c \in Counters |-> 0]]

Init ==
    /\ config \in Configs
    /\ session = [pc |-> "unbuilt", error |-> "none"]
    /\ recorder = EmptyRecorder
    /\ span = [sp \in Spans |-> [pc |-> "new", fields |-> Plan[sp].fields, ws |-> 0, at |-> 0,
                                 recorded |-> FALSE]]
    /\ instant = 0
    /\ manual = 0
    /\ captured = NothingCaptured
    /\ files = [jsonl |-> NoFile, json |-> NoFile]
    /\ valid = [requests |-> <<>>, stages |-> <<>>, queues |-> <<>>]
    /\ SamplerInit

----------------------------------------------------------------------------
(* Building a session.                                                     *)

HasCollector == config.interval # NoValue \/ config.manual

SamplerBuilder == [mode |-> Unset, interval |-> config.interval, max |-> RuntimeCap]

\* LiveRecorderBuilder::build, build_runtime_collector, build_runtime_sampler.
BuildError ==
    IF config.service = "blank" THEN "EmptyServiceName"
    ELSE IF config.interval = NoValue THEN "none"
    ELSE IF config.interval = 0 THEN "InvalidConfiguration"
    ELSE IF StartError(ResolveConfig(SamplerBuilder, config.mode), config.in_runtime) # "none"
         THEN "Io"
    ELSE "none"

BuildSession ==
    /\ session.pc = "unbuilt"
    /\ session' = [pc |-> IF BuildError = "none" THEN "running" ELSE "done", error |-> BuildError]
    /\ IF BuildError = "none" /\ config.interval # NoValue
       THEN StartSampler(ResolveConfig(SamplerBuilder, config.mode))
       ELSE UNCHANGED samplerVars
    /\ UNCHANGED <<config, recording, manual, captured, files>>

\* The sampler's task; its snapshots carry the wall clock.
SampleRuntime ==
    /\ SamplerTick("sampled")
    /\ UNCHANGED <<config, session, recording, manual, captured, files>>

StopSampling ==
    /\ SamplerStops
    /\ UNCHANGED <<config, session, recording, manual, captured, files>>

\* record_runtime_snapshot, for a session with a runtime collector.
ManualSnapshot ==
    /\ session.pc = "running" /\ HasCollector /\ manual < MaxManual
    /\ manual' = manual + 1
    /\ runtime' = RecordSample(runtime, "manual")
    /\ UNCHANGED <<config, session, recording, captured, files, sampler>>

----------------------------------------------------------------------------
(* The layer: TailtriageLayer.                                             *)

\* Spans are followed until the session is over (bound).
Live == session.pc \notin {"unbuilt", "done"}

\* metadata_has_tailtriage_field || fields_have_tailtriage_key
Candidate(sp) ==
    \/ Plan[sp].declared
    \/ \E f \in DOMAIN Plan[sp].fields : Plan[sp].fields[f] \notin {"absent", "missing"}

ReadClocks(sp, pc) ==
    \E d \in Steps[sp], w \in WallReadings[sp] :
        /\ instant + d <= MaxInstant
        /\ instant' = instant + d
        /\ span' = [span EXCEPT ![sp].pc = pc,
                                ![sp].ws = IF pc = "closing" THEN <<span[sp].ws, w>> ELSE w,
                                ![sp].at = IF pc = "closing"
                                           THEN <<span[sp].at, instant'>> ELSE instant']

\* The program's nesting: a nested span lives while its parent does.
MayStart(sp) == sp \in DOMAIN Nested => span[Nested[sp]].pc = "live"
MayClose(sp) == \A c \in DOMAIN Nested : Nested[c] = sp => span[c].pc \in {"new", "closed"}

\* on_new_span up to the lock; a span that is no candidate ends here.
NewSpan(sp) ==
    /\ Live /\ sp \in config.spans /\ span[sp].pc = "new" /\ MayStart(sp)
    /\ IF Candidate(sp) THEN ReadClocks(sp, "starting")
       ELSE span' = [span EXCEPT ![sp].pc = "live"] /\ UNCHANGED instant
    /\ UNCHANGED <<config, session, recorder, valid, manual, captured, files, samplerVars>>

\* duration_us_between
DurationUs(a, b) == (b - a) \div TicksPerUs

\* Mutant: the offset is taken from the clock once the lock is held.
Bug_OffsetUnderLock(sp) ==
    [fields |-> span[sp].fields, ws |-> span[sp].ws, s |-> DurationUs(0, instant),
     at |-> span[sp].at]

\* open_span_from_start_sample
OpenSpan(sp) ==
    [fields |-> span[sp].fields, ws |-> span[sp].ws, s |-> DurationUs(0, span[sp].at),
     at |-> span[sp].at]

\* on_new_span under the lock.
InsertSpan(sp) ==
    /\ Live /\ span[sp].pc = "starting"
    /\ span' = [span EXCEPT ![sp].pc = "live"]
    /\ recorder' =
           IF Cardinality(DOMAIN recorder.open) >= MaxOpen
           THEN [recorder EXCEPT !.stats.dropped_open = @ + 1]
           ELSE [recorder EXCEPT !.open =
                    [x \in DOMAIN @ \cup {sp} |-> IF x = sp THEN OpenSpan(sp) ELSE @[x]]]
    /\ UNCHANGED <<config, session, instant, valid, manual, captured, files, samplerVars>>

\* on_record: the new values replace the span's fields, if it is open.
RecordFields(sp) ==
    LET later    == Plan[sp].later
        merge(f) == IF f \in DOMAIN later THEN later[f] ELSE recorder.open[sp].fields[f]
    IN  /\ Live /\ span[sp].pc = "live" /\ ~span[sp].recorded /\ DOMAIN later # {}
        /\ span' = [span EXCEPT ![sp].recorded = TRUE]
        /\ recorder' = IF sp \notin DOMAIN recorder.open THEN recorder
                       ELSE [recorder EXCEPT !.open[sp].fields = [f \in DOMAIN @ |-> merge(f)]]
        /\ UNCHANGED <<config, session, instant, valid, manual, captured, files, samplerVars>>

\* on_close up to the lock.
CloseSpan(sp) ==
    /\ Live /\ span[sp].pc = "live" /\ MayClose(sp)
    /\ IF sp \in DOMAIN recorder.open THEN ReadClocks(sp, "closing")
       ELSE span' = [span EXCEPT ![sp].pc = "closed"] /\ UNCHANGED instant
    /\ UNCHANGED <<config, session, recorder, valid, manual, captured, files, samplerVars>>

----------------------------------------------------------------------------
(* on_close under the lock.                                                *)

\* classify_kind and precheck_required_fields: the counter that a refused
\* span goes to, or "none".
Refusal(open) ==
    IF open.fields.kind \notin DOMAIN SectionOf THEN KindCounter[open.fields.kind]
    ELSE IF open.fields.id \in BadStrings \/ open.fields.name \in BadStrings THEN "incomplete"
    ELSE "none"

\* The SpanRecord of a closed span.
ClosedRecord(sp) ==
    LET open == recorder.open[sp]
    IN  [span |-> sp, kind |-> open.fields.kind, id |-> open.fields.id, name |-> open.fields.name,
         opt |-> open.fields.opt, ws |-> open.ws, wf |-> span[sp].ws[2],
         s |-> open.s, e |-> DurationUs(0, span[sp].at[2]),
         dur |-> DurationUs(open.at, span[sp].at[2])]

CompletedTotal(rec) == Len(rec.requests) + Len(rec.stages) + Len(rec.queues)

\* Mutant: at the cap, a request that finds a child to evict is pushed, and
\* so is one that finds none.
Bug_RequestAlwaysPushed(rec, record) ==
    LET section == SectionOf[record.kind]
    IN  IF CompletedTotal(rec) < MaxCompleted \/ record.kind = "request"
        THEN [rec EXCEPT ![section] = Append(@, record)]
        ELSE [rec EXCEPT !.stats.dropped_child = @ + 1]

\* push_completed_candidate_with_kind_aware_retention
PushCompleted(rec, record) ==
    LET section == SectionOf[record.kind]
        evict(victims) == [rec EXCEPT ![victims] = Front(@), !.stats.evicted_child = @ + 1,
                                      !.requests = Append(@, record)]
    IN  IF CompletedTotal(rec) < MaxCompleted
        THEN [rec EXCEPT ![section] = Append(@, record)]
        ELSE IF record.kind # "request" THEN [rec EXCEPT !.stats.dropped_child = @ + 1]
        ELSE IF rec.queues # <<>> THEN evict("queues")
        ELSE IF rec.stages # <<>> THEN evict("stages")
        ELSE [rec EXCEPT !.stats.dropped_request = @ + 1]

FinishClose(sp) ==
    LET closed  == [recorder EXCEPT !.open = [x \in DOMAIN @ \ {sp} |-> @[x]]]
        refusal == Refusal(recorder.open[sp])
    IN  /\ Live /\ span[sp].pc = "closing"
        /\ span' = [span EXCEPT ![sp].pc = "closed", ![sp].ws = 0, ![sp].at = 0]
        /\ recorder' = IF refusal # "none" THEN [closed EXCEPT !.stats[refusal] = @ + 1]
                       ELSE PushCompleted(closed, ClosedRecord(sp))
        /\ valid' = IF refusal # "none" THEN valid
                    ELSE [valid EXCEPT ![SectionOf[ClosedRecord(sp).kind]] =
                             Append(@, ClosedRecord(sp))]
        /\ UNCHANGED <<config, session, instant, manual, captured, files, samplerVars>>

----------------------------------------------------------------------------
(* snapshot_run.                                                           *)

CompletedSpanRecords == recorder.requests \o recorder.stages \o recorder.queues

OpenCandidates == Cardinality(DOMAIN recorder.open)

\* push_strict_recorder_messages and append_non_strict_drop_warnings speak of
\* the same counters; the latter joins the three kind counters.
RecorderMessages ==
    {[recorder |-> c, count |-> recorder.stats[c]] : c \in {k \in Counters : recorder.stats[k] > 0}}
    \cup (IF OpenCandidates > 0 THEN {[recorder |-> "open", count |-> OpenCandidates]} ELSE {})

KindCounters == Range(KindCounter)

RecorderWarnings ==
    LET invalid == {k \in RecorderMessages : k.recorder \in KindCounters}
    IN  (RecorderMessages \ invalid)
        \cup (IF invalid = {} THEN {} ELSE {[recorder |-> "invalid_kind", count |-> invalid]})

Truncating == {"dropped_open", "dropped_request", "dropped_child", "evicted_child"}

\* append_non_strict_drop_warnings
WithDropWarnings(imported, warnings) ==
    IF imported.error # "none" THEN imported
    ELSE [imported EXCEPT !.lifecycle = @ \cup warnings,
                          !.warnings  = @ + Cardinality(warnings),
                          !.limitsHit = @ \/ \E c \in Truncating : recorder.stats[c] > 0]

\* Mutant: an open span at the snapshot is only worth a warning.
Bug_StrictIgnoresOpen(strict) ==
    IF strict /\ \E c \in Counters : recorder.stats[c] > 0 THEN Failed("strict")
    ELSE WithDropWarnings(RunFromSpanRecords(CompletedSpanRecords, strict), RecorderWarnings)

\* imported_with_drop_warnings: in strict mode any counter fails.
SnapshotRun(strict) ==
    IF strict /\ RecorderMessages # {} THEN Failed("strict")
    ELSE WithDropWarnings(RunFromSpanRecords(CompletedSpanRecords, strict), RecorderWarnings)

----------------------------------------------------------------------------
(* Shutdown: sampler first, then snapshot, merge, check, and the outputs.  *)

Return(error) == session' = [pc |-> "done", error |-> error]
Goto(pc) == session' = [session EXCEPT !.pc = pc]

BeginShutdown ==
    /\ session.pc = "running"
    /\ Goto("join") /\ SignalStop
    /\ UNCHANGED <<config, recording, manual, captured, files, runtime>>

\* Mutant: the sampler is told to stop, and nobody waits for it.
Bug_SamplerNotAwaited ==
    /\ session.pc = "join"
    /\ Goto("snapshot")
    /\ UNCHANGED <<config, recording, manual, captured, files, samplerVars>>

JoinSampler ==
    /\ session.pc = "join" /\ SamplerJoined
    /\ Goto("snapshot")
    /\ UNCHANGED <<config, recording, manual, captured, files, samplerVars>>

TakeSnapshot ==
    /\ session.pc = "snapshot"
    /\ captured' = SnapshotRun(config.strict)
    /\ IF captured'.error = "none" THEN Goto("merge") ELSE Return(captured'.error)
    /\ UNCHANGED <<config, recording, manual, files, samplerVars>>

\* merge_runtime_data and with_manual_sampler_warning.  Every snapshot that a
\* collector took in has a run offset, which is cleared and said so.
MergeRuntime(imported) ==
    LET none == runtime.snapshots = <<>>
        said == (IF none THEN {} ELSE {[session |-> "offsets_cleared"]})
                \cup (IF config.interval # NoValue THEN {}
                      ELSE {[session |-> IF none THEN "no_samples" ELSE "manual_samples"]})
    IN  [imported EXCEPT !.run.runtime = [k \in DOMAIN runtime.snapshots |-> "ok"],
                         !.limitsHit   = @ \/ runtime.limits_hit,
                         !.lifecycle   = @ \cup said,
                         !.warnings    = @ + Cardinality(said)]

\* The merge, finalization and the check that a persisted run has requests.
MergeAndCheck ==
    LET merged == IF HasCollector THEN MergeRuntime(captured) ELSE captured
    IN  /\ session.pc = "merge"
        /\ captured' = merged
        /\ IF (config.jsonl \/ config.json) /\ merged.run.requests = <<>>
           THEN Return("ZeroRequestArtifact")
           ELSE Goto("spans")
        /\ UNCHANGED <<config, recording, manual, files, samplerVars>>

\* The lines that the session writes, or why it writes none.
SpanOutput == WriteJsonl(captured.sources)

\* Mutant: a failed JSONL output is no reason to keep the Run JSON back.
Bug_JsonlBestEffort ==
    /\ session.pc = "spans"
    /\ Goto("json")
    /\ \/ UNCHANGED files
       \/ /\ config.jsonl /\ SpanOutput.error = "none"
          /\ files' = [files EXCEPT !.jsonl = {SpanOutput.lines}]
    /\ UNCHANGED <<config, recording, manual, captured, samplerVars>>

\* write_completed_span_jsonl: all or nothing (ArtifactFile).
WriteSpans ==
    /\ session.pc = "spans"
    /\ \/ ~config.jsonl /\ Goto("json") /\ UNCHANGED files
       \/ /\ config.jsonl /\ SpanOutput.error = "none"
          /\ files' = [files EXCEPT !.jsonl = {SpanOutput.lines}] /\ Goto("json")
       \/ config.jsonl /\ SpanOutput.error # "none" /\ Return(SpanOutput.error) /\ UNCHANGED files
       \/ config.jsonl /\ Return("Io") /\ UNCHANGED files
    /\ UNCHANGED <<config, recording, manual, captured, samplerVars>>

\* LocalJsonSink::write of the same run.
WriteRun ==
    /\ session.pc = "json"
    /\ \/ ~config.json /\ Return("none") /\ UNCHANGED files
       \/ config.json /\ files' = [files EXCEPT !.json = {captured.run}] /\ Return("none")
       \/ config.json /\ Return("RunJsonWrite") /\ UNCHANGED files
    /\ UNCHANGED <<config, recording, manual, captured, samplerVars>>

----------------------------------------------------------------------------
Shutdown == JoinSampler \/ TakeSnapshot \/ MergeAndCheck \/ WriteSpans \/ WriteRun

Next ==
    \/ BuildSession \/ SampleRuntime \/ StopSampling \/ ManualSnapshot
    \/ \E sp \in Spans : \/ NewSpan(sp) \/ InsertSpan(sp) \/ RecordFields(sp)
                         \/ CloseSpan(sp) \/ FinishClose(sp)
    \/ BeginShutdown \/ Shutdown

\* The owner's next step, whatever it does: from these points on, session
\* changes only by a Shutdown step, and one is always possible.
OwnerMoves ==
    /\ session.pc \in {"join", "snapshot", "merge", "spans", "json"}
    /\ session.pc = "join" => SamplerJoined
    /\ \E pc \in {"snapshot", "merge", "spans", "json", "done"},
          error \in {"none", "strict", "ZeroRequestArtifact", "too_large", "Io", "RunJsonWrite"} :
              session' = [pc |-> pc, error |-> error]

\* The runtime polls the sampler's task once it was told to stop, and the
\* task that awaits shutdown.
Spec == Init /\ [][Next]_vars /\ WF_sampler(StopSampling) /\ WF_session(OwnerMoves)

----------------------------------------------------------------------------
(* Properties.                                                             *)

\* The retention ledger: the requests kept are the first ones that closed, up
\* to the cap and whatever closed in between; the cap is used in full while
\* there is anything to keep; and every complete candidate is kept or counted
\* as dropped or evicted.
RetentionLedger ==
    LET AtMost(n) == IF n < MaxCompleted THEN n ELSE MaxCompleted
    IN  /\ recorder.requests = SubSeq(valid.requests, 1, AtMost(Len(valid.requests)))
        /\ CompletedTotal(recorder) = AtMost(CompletedTotal(valid))
        /\ CompletedTotal(valid) = CompletedTotal(recorder) + recorder.stats.dropped_request
                                   + recorder.stats.dropped_child + recorder.stats.evicted_child

\* A strict snapshot that succeeds is complete: whenever it is taken, every
\* candidate span that the layer has let in is a retained source, or the
\* section it belongs to is reported as truncated.
StrictSnapshotComplete ==
    LET let_in == {sp \in Spans : Candidate(sp) /\ span[sp].pc \in {"live", "closing", "closed"}}
        Complete(snapshot) ==
            snapshot.error = "none" =>
                /\ CompletedTotal(valid) = Cardinality(let_in)
                /\ \A sec \in EventSections : \A k \in DOMAIN valid[sec] :
                       \/ \E j \in DOMAIN snapshot.sources : snapshot.sources[j] = valid[sec][k]
                       \/ snapshot.limitsHit /\ snapshot.dropped[sec] > 0
    IN  Complete(SnapshotRun(TRUE))

\* Spans that the program nests stay nested: a stage or queue that closed
\* within its retained request, both seen by sound wall-clock readings, is a
\* retained source, and neither of them loses its run-relative interval,
\* however the clock readings interleave with the lock.
NestedEvidenceKept ==
    LET records  == Range(CompletedSpanRecords)
        sound(r) == r.ws <= r.wf /\ OptionalValid(r)
        rivals(r) == {o \in Range(recorder.requests) : o.id = r.id /\ sound(o)}
        kept(snapshot) ==
            \A c, p \in records :
                /\ c.span \in DOMAIN Nested /\ Nested[c.span] = p.span /\ c.id = p.id
                /\ sound(c) /\ sound(p) /\ rivals(p) = {p}
                /\ \A sec \in EventSections : snapshot.dropped[sec] = 0
                => /\ {c, p} \subseteq Range(snapshot.sources)
                   /\ ~PrecisionBad(EventOf(c)) /\ ~PrecisionBad(EventOf(p))
    IN  kept(SnapshotRun(FALSE))

\* The two outputs agree: a Run JSON is only ever beside the span JSONL of the
\* same snapshot, which imports to the same requests, stages and queues; it
\* has a request; and a session that returned without error has written
\* everything it was asked to, one that failed to convert nothing.
OutputsAgree ==
    /\ \A run \in files.json :
           /\ run.requests # <<>>
           /\ config.jsonl => files.jsonl # NoFile
           /\ \A lines \in files.jsonl :
                  LET same(again) == /\ again.error = "none"
                                     /\ \A sec \in EventSections : again.run[sec] = run[sec]
                  IN  same(ImportJsonl(lines, FALSE))
    /\ session.pc = "done" /\ session.error = "none" =>
           (config.jsonl => files.jsonl # NoFile) /\ (config.json => files.json # NoFile)
    /\ session.error \in {"strict", "ZeroRequestArtifact"} =>
           files.jsonl = NoFile /\ files.json = NoFile

\* No runtime sample is lost: from the merge on, the run has every sample that
\* the collector holds, because the sampler's task ended before.
SamplesMerged ==
    session.pc \in {"spans", "json"} /\ HasCollector =>
        /\ Len(captured.run.runtime) = Len(runtime.snapshots)
        /\ runtime.limits_hit => captured.limitsHit

\* A session that is asked to shut down returns.
ShutdownReturns == (session.pc = "join") ~> (session.pc = "done")
=============================================================================

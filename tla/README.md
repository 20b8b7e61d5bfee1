# tailtriage in TLA+

This directory is a TLA+ model of [tailtriage](../src/README.md), a Rust toolkit
that captures request evidence in-process, writes it as one *Run* artifact and
ranks latency suspects from it. The modules follow the source; `PROJECT.json`
maps each definition to the lines it stands for.

## The system

| Component | State | Operations | Talks to |
| --- | --- | --- | --- |
| **Core collector** (`tailtriage-core`: `collector.rs`, `timers.rs`, `retention.rs`, `time.rs`) | one mutex over the run, the pending requests, the in-flight gauges, the phase; a limits-hit latch and listener beside it | begin and finish requests, stage and queue futures, in-flight guards, runtime snapshots, integration hooks, `shutdown()` | the sink (`RunSink::write`), the listener (a callback), the clock |
| **Validation** (`validation.rs`) | none: a function of a run | normalize, inspect, validate strictly, summarise | called by `shutdown()`, the run builder, the importer, the analyzer, the CLI |
| **Controller** (`tailtriage-controller`) | lifecycle, the next template; per generation: two gates, atomics, the sampler handle | `build`, `enable`, `reload_*`, `begin_request_with`, completion, `disable`, `shutdown`, the limits-hit callback | one core run per generation, the sampler task, a TOML file |
| **Runtime sampler** (`tailtriage-tokio`) | a task and a stop channel | start, sample, stop | the core run |
| **Sinks** (`sink.rs`) | files | write to a temporary file, sync, rename | the file system |
| **Tracing recorder** (`recorder.rs` of `tailtriage-tracing`) | open and completed spans, counters, behind one mutex | span open/record/close, snapshot, session shutdown | the importer, both file writers, the sampler |
| **Tracing import** (`lib.rs`, `jsonl.rs`) | none: functions of records and bytes | read lines, parse, convert, normalize | validation |
| **Run builder** (`run_builder.rs`), **configuration** (`config.rs`) | a run under construction | bounded pushes, build, resolve limits | retention rules, validation |
| **Analyzer** (`tailtriage-analyzer`) | none: a function of a run and options | attribution, scoring, caps, ranking, slices, options | runs |
| **CLI**, **axum middleware** | none of their own | accept, import or analyze an artifact; time a request | all of the above; core handles |

What is hard to test is of two sorts. In the collector, the controller, the
recorder and the file writers it is concurrency and failure:

* completion tokens, timers and guards outlive the call that made them and race
  `shutdown()`; the user's sink runs between two critical sections;
* admission has to reserve the place its completion will need;
* the limits-hit listener is called after the lock was released, and in the
  controller it comes back into the generation, sometimes in a thread that
  already holds that generation's admission gate;
* a closing generation is finalized either by the closer or by the last
  completion, decided by two atomics and no common lock;
* finalization joins the sampler task, which needs a runtime worker to end;
* the tracing layer reads its clocks before it takes the recorder's lock, and
  spans close while a snapshot is made;
* writers of artifacts fail, crash or meet another writer's temporary file.

In the pure parts it is how many rules meet in one input: wall clocks that go
back while durations are monotonic, repeated ids, precise and imprecise
intervals, losses at several limits that all have to be reported, caps that
depend on each other's order, settings that fall back to different places.

## Modules

| Module | Models |
| --- | --- |
| `Normalization` | `normalize_inner` and strict validation as operators on a run |
| `RunValidation` | the issue report, dispositions and warning summaries (extends `Normalization`) |
| `CaptureSpec` | what one capture run promises, with no locks, clocks or threads |
| `Collector`, `MCCollector` | one core run, and its small instances |
| `NormalizationProofs` | theorems about normalization and validation of any well-formed run: how a section keeps events, that report and normalization exclude the same ones, that normalizing what was kept changes nothing; shared by the other proofs |
| `CollectorProofs` | theorems about `Collector`: the ledger, the seal and the refinement of `CaptureSpec`; gauges, truncation and what the artifact holds |
| `Controller`, `MCController` | the controller: threads, gates, atomics, generations |
| `ControllerProofs`, `ControllerLedgerProofs` | theorems about `Controller`: gates and finalization; slots and counts, and that each generation implements `CaptureSpec` |
| `ControllerConfig` | builder, configuration file, template resolution, reload, artifact paths |
| `RuntimeSampler` | the sampler's configuration, task, stop and join |
| `TracingImport` | spans to a run, with provenance, strict or permissive |
| `TracingJsonl` | the bounded line reader, the record format and its writer |
| `TracingSession`, `MCTracingSession` | layer, recorder and session (extends `TracingJsonl` and `RuntimeSampler`) |
| `TracingImportProofs` | lemmas about an import of any spans: which sources it retains and in which order, that importing these again changes nothing, and what it says of the others; shared by the session's and the pure operators' proofs |
| `TracingSessionProofs` | theorems about `TracingSession` |
| `ArtifactFile`, `MCArtifactFile` | the sinks and the JSONL writer over a small file system |
| `ArtifactFileProofs` | theorems about `ArtifactFile` |
| `RunBuilder` | capture limits and direct construction of a run |
| `Attribution`, `Scoring`, `Analyzer` | measures, suspects, and the report with its slices |
| `AnalyzerOptions` | defaults, validation, overrides, TOML, non-default listing |
| `Cli` | the two commands (extends `Analyzer`, `RunBuilder`, `TracingJsonl`) |
| `MCAlgorithms` | a system whose states are inputs of the pure operators |
| `AlgorithmsProofs` | theorems about `MCAlgorithms`: validation, the JSONL reader, the import, the run builder, options and templates |

`Collector` and `Controller` both implement `CaptureSpec`: the collector as a
whole, the controller once per generation. `Cli` composes everything between a
built or imported run and a report. Operators named `Bug_...` are mutants: plausible
errors used to see that a property notices them.

### Collector

One action is one critical section of the state mutex. Two things happen outside
it and are actions of their own: the end of an interval (`FinishToken`,
`EndTimer`: the token or future disarms itself and reads the clock before it
takes the lock) and the listener call (`NotifyLimitsHitListener`). So the run
can be sealed between any completion and its record.

| Code | Action |
| --- | --- |
| `start_request` | `BeginRequest` |
| `RequestCompletion::finish`, its `Drop` | `FinishToken`, then `ResolveRequest` |
| `StageTimer` / `QueueTimer` futures, cancelled ones too | `PollTimer`, `EndTimer`, `RecordChild` |
| `inflight()`, `InflightGuard::drop` | `CreateGuard`, `DropGuard` |
| `record_runtime_snapshot`, `register_tokio_runtime_sampler`, `set_run_end_reason_if_absent`, `set_limits_hit_listener` | the actions of the same names |
| `shutdown()` | `Shutdown` (the loop and the seal), `WriteArtifact`, `CloseRun`; `SpuriousWakeup` for the condition variable |

`run` is a record of the sections and of the metadata the properties need. An
event carries its key, id, outcome and interval; routes, labels and texts are
left out. A clock reading is a fresh number for the monotonic part, and a
*shape* for the wall clock: `"inverted"` if the clock was set back inside the
interval. `finalized` is the shape of `finalized_at_unix_ms` against the start of the
run. The section saturation flags of `TruncationState` are written and never
read, and are left out.

### Controller

A thread has a program counter over the public operations, and each action is
one access to something other threads can see: a critical section of the
lifecycle mutex, of `admission_gate` or `finalization_gate`, of the core run, or
one atomic. The core run is reduced to the request ledger, the latch and
`shutdown()`.

`closing` and `inflight_captured` are Release/Acquire atomics. With `TSO` set
the store to `closing` may sit in the store buffer of the closing thread
(`"buffered"`) until that thread next takes or releases a lock, or until it
drains on its own (`DrainStore`): the store-buffer outcome that Release and
Acquire allow, and that x86 and ARM produce. `accepting_new` is only read under
the gate that guards its store, so it needs no buffer. `fetch_sub` is a
read-modify-write and takes effect at once.

The `Weak` references of completions and of the listener upgrade while the
lifecycle or a thread inside an operation holds the generation (`Alive`).

### Normalization and RunValidation

A run is a sequence of requests and of children, each with an id, a shape and
offsets. `NormalizeRun` follows `normalize_inner`: which requests are excluded,
which ids are duplicates, the parent state of each id, which children are
dropped, when run-relative offsets are cleared. `Report` collects the issues the
same pass pushes, `Excluded` and `OutputIndex` are `add_disps`, and the two
summaries are sets of (section, action, code). Messages and sample indices are
left out. What a section keeps, here and in `TracingImport`, is given by the
set of kept input indices (`AtIndices`: the n-th output is the event with n kept
indices up to its own), so that it can be reasoned about without recursion.

### TracingSession

| Code | Action |
| --- | --- |
| `TracingSessionBuilder::build` | `BuildSession` (with `StartSampler` of `RuntimeSampler`) |
| `on_new_span` | `NewSpan` (clocks), `InsertSpan` (lock) |
| `on_record` | `RecordFields` |
| `on_close` | `CloseSpan` (clocks), `FinishClose` (lock: precheck and `PushCompleted`) |
| `snapshot_run` | `SnapshotRun`, one critical section; evaluated in every state by the properties |
| `record_runtime_snapshot` | `ManualSnapshot` |
| `shutdown` | `BeginShutdown`, `JoinSampler`, `TakeSnapshot`, `MergeAndCheck`, `WriteSpans`, `WriteRun` |
| the sampler's task | `SampleRuntime`, `StopSampling` |

The clock readings are actions of their own because another thread can take the
lock between a reading and its use. Instants advance in ticks, a few to the
microsecond, so that rounding to microseconds is real. `valid` is a history
variable: per section, the complete candidates that have closed, in order.

### ArtifactFile

Each file operation of `LocalJsonSink::write` and of the span JSONL writer is an
action, and each may fail, the removal of a temporary file included: both writers
discard that error, so `CleanupFails` ends in `left`, which is `failed` with the
file still there. `Crash` stops a writer between any two; `PowerFails` loses unsynced
data. The sink tries one temporary name, syncs, and removes that name after any
error; the JSONL writer tries several, does not sync, and removes only what it
created. `FileAssumption` says that the names of sinks (`.F.tmp-pid-nanos`) and of
JSONL writers (`.F.tailtriage-tmp-pid-nanos-attempt`) never meet, which their
forms guarantee. Sinks may share a name with each other (one process, one target,
one nanosecond), and so may JSONL writers.

When two sinks choose one name, the second meets the file of the first, fails, and
removes it; the first then cannot rename and fails as well, but the target stays as it
was (`Robbed`, `TempsKept`). It takes a third sink of the same name to break the target: the
first creates, the second meets the name and removes it, the third creates anew, and
the first renames the third's unfinished file. `Crowded` names that case, and
`TargetWhole` and `ResultsTrue` claim no more there than the code gives: the
target is never missing, and temporary names are kept as above.

### The pure operators

`MCAlgorithms` has one variable, `input`, and one family of inputs for each group
of operators. Actions make an input larger (an event, a line, a sample, an
override, a push), feed a buffer to the reader, or do one thing to a controller's
configuration, so that every input within the bounds is a reachable state.
Numbers such as the record limit, the warning cap or microseconds per
millisecond are constants. Strings are model values or small numbers; the kind
of a text (what parsing finds in it) is part of the value, so that parsing can
fail. Analysis reports are records of suspects (kind, score, confidence, basis,
notes), evidence statuses, warnings as tags in the code's order, routes and segments.

## Runs

`MC*.cfg` values are small on purpose; what they have to contain is in the
last column.

| Run | Properties | What the instance contains |
| --- | --- | --- |
| `requests` | `TypeOK`, `Conservation`, `FrozenAfterSeal`, `OneTerminalResult`, `ArtifactEvidenceValid`, `SoundEvidencePersisted`, `ImplementsCapture` | two requests with one id, a timer, two callers of `shutdown()`, the sampler and end-reason hooks, a clock that goes back, a sink that may fail or panic |
| `guards` | `GaugesMatchGuards`, `CapacityReserved`, `TruncationHonest`, `StrictArtifactComplete`, `ShutdownReturns`, `ListenerTold` | a strict run with three guards on two gauges, every cap 1, two requests (one refused), a runtime snapshot, the listener, two callers of `shutdown()`, fairness |
| `controller` | `TypeOK`, `InflightExact`, `AdmissionAgrees`, `ClosersDrain`, `ReportsAgree`, `SamplerEndsFirst`, `ImplementsCapture` | two threads, three requests for two slots, two generations, a strict and an auto-sealing template with a sampler, reload, store buffering |
| `controller_liveness` | `DrainedIsFinalized`, `OperationsReturn`, `LimitsHitCloses` | two threads, one generation, sequentially consistent atomics, a free worker |
| `session` | `RetentionLedger`, `StrictSnapshotComplete`, `NestedEvidenceKept`, `OutputsAgree`, `SamplesMerged`, `ShutdownReturns` | eight session configurations over ten spans, two places for candidates and two for open spans, strict and permissive, sampled and manual, either or both outputs, three that fail to build |
| `files` | `TargetWhole`, `ResultsTrue` | two sinks on one path that chose one temporary name, two JSONL writers with the same candidate names, a memory sink, failures (of removals too), crashes, a power failure |
| `algorithms` | `ReportDecides`, `LossesReported`, `ImportLossless`, `LinesExact`, `MeasuresExact`, `ConfidenceEarned`, `SlicesPartition`, `ConfigurationReplays`, `BuiltAccepted` | nine families of inputs, see below |
| `sink_panic`, `clock_set_back`, `store_buffer`, `late_completion`, `blocking_priority` | one each | see Findings |

The families of `algorithms`:

| Family | Inputs | Properties |
| --- | --- | --- |
| `run` | up to three requests and a child over two ids and eight kinds of interval, blank gauges, zero workers, wrong metadata | `ReportDecides`, `LossesReported` |
| `import` | up to three lines, two of them bad, of every kind of span and every form of text | `ImportLossless` |
| `reader` | streams of up to eight bytes in buffers of every size, record limit two | `LinesExact` |
| `intervals`, `gauge` | up to four events, or gauge samples in any order | `MeasuresExact` |
| `analysis` | zero to two requests with queues, stages, snapshots, drops, routes; thresholds scaled to that size | `ConfidenceEarned`, `SlicesPartition` |
| `options` | up to two overrides after an optional TOML document, valid and not | `ConfigurationReplays` |
| `template` | two files edited, reloaded, replaced, with enabling, disabling and shutdown, four steps | `ConfigurationReplays` |
| `built` | up to four pushes of sound and unsound events under small limits | `BuiltAccepted` |

**Bounds.** Two requests and a cap of one or two give every combination of room,
last place and refusal; two tokens are enough for one to resolve while the other
is pending when the run is sealed. Two requests with one id are the least that
make a duplicate, and with one request valid and one not, the least that make a
duplicate that is none. Three guards on two gauges let one gauge be shared, give
its slot back and be taken by the other. Two callers give a finalizer and a
waiter, or two that race for the seal. In the controller three requests and
`MaxRequests = 2` saturate a generation with one in flight and another done; two
generations let a completion of the first meet the second; two threads are a
closer and a completer, or a closer and the thread that finalizes after it. The
theorems say the same of any number of threads, requests and generations.
In a session two
places and four competing spans make every eviction and drop; a parent, its stage
and an orphan read at different ticks give every order of reading and locking.
Two writers of a kind are the least that collide. Each family of `algorithms` is large enough for
two of the rules it exercises to apply to the same event.
`MaxCalls`, `MaxGen` and `MaxRuntime` bound calls that could be repeated for
ever. `MaxCalls = 2` is enough for `disable()` to meet `shutdown()`, and for a
reload between two generations.

**Deadlock.** The collector runs check for deadlock; a run that is over can
always be shut down again. In the controller the calls are bounded, so it does
stop when they are used up; there `OperationsReturn` says what deadlock freedom
would: no thread is stuck inside an operation.
The inputs of `algorithms`, the writers of `files` and a session that returned
have nothing more to do, so those runs may stop too.

**Fairness.** Weak fairness of what a thread already inside an operation does
next, of a woken waiter taking a mutex that nobody holds for ever, and of the
runtime polling a task that was told to stop, when a worker is free. The
application is never obliged to finish a request, to call `shutdown()` or to
do anything else. Weak fairness of a gate is enough because each operation
takes a gate a bounded number of times and the calls are bounded. In a tracing
session it is the sampler's task noticing that it was told to stop, and the owner
of a session that called `shutdown()` going on whenever it can; both are tasks
that the runtime polls.

## Proofs

Every theorem has the form `Spec => []P` or `Spec => Refinement`, but for those of
`NormalizationProofs` and `ReimportRun`, which are about operators, and holds for every
value of the constants that the named assumptions allow. Throughout, what is proved
inductive is stronger than what is claimed; the invariants below were
model-checked as well, except for the part of `OutputInv` that quantifies over all
sequences of spans (`Converted`).

| Module | Theorems | Inductive invariant |
| --- | --- | --- |
| `NormalizationProofs` | `NormalizedValid`, `StrictDecides`, `NormalizedStrict`, `ChangeIsTold`, `DispositionsTrue` | none: `EvidenceRun` is the only hypothesis |
| `CollectorProofs` | `TypeCorrect`, `ConservationHolds`, `FrozenAfterSealHolds`, `OneTerminalResultHolds`, `CapacityReservedHolds`, `StrictArtifactCompleteHolds`, `ImplementsCaptureHolds`, `TruncationHonestHolds`, `GaugesMatchGuardsHolds`, `ArtifactEvidenceValidHolds`, `SoundEvidencePersistedHolds` | `IInv`, `GaugeExact`, `EvidenceInv` |
| `ControllerProofs` | `ReportsAgreeHolds`, `SamplerEndsFirstHolds` | `BaseInv` |
| `ControllerLedgerProofs` | `AdmissionAgreesHolds`, `InflightExactHolds`, `TypeOKHolds`, `ClosersDrainHolds`, `ControllerImplementsCapture` | `LedgerInv`, `CountInv` |
| `ArtifactFileProofs` | `TargetWholeHolds`, `ResultsTrueHolds` | `FileInv` |
| `TracingImportProofs` | `ReimportRun` | none: any sequence of spans |
| `TracingSessionProofs` | `SamplesMergedHolds`, `RetentionLedgerHolds`, `StrictSnapshotCompleteHolds`, `NestedEvidenceKeptHolds`, `OutputsAgreeHolds` | `SamplingInv`, `RetentionInv`, `AccountInv`, `ClockInv`, `OutputInv` |
| `AlgorithmsProofs` | `ReportDecidesHolds`, `LossesReportedHolds`, `LinesExactHolds`, `ImportLosslessHolds`, `BuiltAcceptedHolds`, `ConfigurationReplaysHolds` | `RunInv`, `ReaderInv`, `ImportInv`, `BuiltInv`, `OptionInv`, `TemplateInv` |

The assumptions are those of the modelled modules, and TLC evaluates them on every
run: `CollectorAssumption` (requests are naturals and finite, guards are finite, limits
are naturals, owner functions map into the requests), `ToleranceAssumption`,
`ControllerAssumption` (finite threads and requests, natural bounds, at least one
template), `FileAssumption` (no sink and JSONL writer choose the same temporary name), `ImportAssumption`,
`SamplerAssumption` and `SessionAssumption` (finite spans, natural caps, a positive
clock rate, fields among the values that the layer tells apart, and a tolerance of at least the
microsecond that rounding can cost; the code's is 2000), `RecordLimitAssumption`, `ModeAssumption`
(the defaults of each capture mode are naturals) and `BoundsAssumption` (how far the inputs of `MCAlgorithms` grow:
naturals, so what is proved holds for inputs of every length).

### The collector's ledger and seal

`IInv` is `TypeOK` with four parts:

* `Ownership`: a pending key has a token that is armed or being finished, while
  the run is open every such token's key is pending, and the recorded keys are
  distinct and their tokens consumed. Without it a completion could record a
  request twice, or miss one that was admitted.
* `Ledger`: as many requests were admitted as are recorded, pending or counted
  unfinished; the recorded and the pending ones fit `max_requests`; nothing is
  counted unfinished while the run is open. The cap is part of the
  induction: the sum survives a completion only because its push cannot overflow.
* `Sealed`: once the phase is not Open nothing is pending and the run is what
  was handed to the sink.
* `OneWriter`: there is at most one caller between the seal and the
  publication, only in phase Finalizing; its place in the code fixes `writes` and
  `persisted`; a caller that was told a terminal result was told that of the phase.

Each action of a request or of `shutdown()` is a lemma. Timers, guards and hooks are
covered by one frame lemma, `QuietStep`: a step is `Quiet` if it leaves tokens,
pending and recorded requests and the callers alone and does not touch a sealed
run, and such a step preserves every part.

Two properties need one more conjunct on top of `IInv`. `WithinCaps` (every
section fits its cap) is kept because `push_*_bounded` appends only below it.
`StrictInv` says that while the run is open a consumed token was recorded; a
strict seal happens only with nothing pending, so at that moment the admitted
requests are exactly the recorded ones, and the seal keeps them so.

The refinement maps every step under `IInv`. Admission is `Admit` (the ledger
bounds the number admitted), a completion in an open run is `Complete` (the
push cannot overflow and the key was not recorded before), the seal is `Seal`,
publication is `Publish`. Every other step changes at most what callers have
been told: by `OneWriter` that is `Observe` after publication and nothing before.

### The collector's evidence

`TruncationHonest` is inductive together with `TypeOK`. For the gauges,
`GaugeExact` says of each gauge that its entry counts exactly the enabled guards on it
and that there is no entry without one; with the bound on the number of entries that gives
`GaugesMatchGuards`.

`NormalizedValid` (in `NormalizationProofs`) is about the pure operators: whatever well-formed run goes
into `NormalizeRun`, nothing is left in the result that a second pass would exclude, clear or
repair. The argument needs to know which input event each output is. `RankBijective`
gives it without an induction over sequences: numbering the kept indices by how many are
up to each is an injection between two finite sets of the same size, hence onto.
`ArtifactEvidenceValid` follows for every persisted run.

`SoundEvidencePersisted` says that sound events are in the artifact. `EvidenceInv` ties
each recorded event to the token or timer it came from (`RequestsAnchored`,
`ChildrenAnchored`) and orders the clock readings of a token and of its timers
(`TokenClocked`, `TimerClocked`); a child that ended inside its request is then inside
its parent's interval when normalization looks at it.

### The controller

`BaseInv` has four layers, each proved with one lemma per action, after a lemma that
says what the action does:

* `Shape`: types, which operation brings a thread where (`Where`), and that generations not
  yet enabled are untouched (`Born`);
* `GatesOwned` and `TokensOwned`: a gate is held by the one thread that is between taking and
  releasing it, and a request is in the hands of one thread;
* `AdmissionInv`: a generation accepts exactly until it is closing; who is past the
  closing finds it closed, who is admitting finds it accepting with a free slot;
* `FinalInv`: how far the holder of the finalization gate has come (`Stage`), that result,
  reports and sampler agree with the sink attempt (`Settled`), and that the lifecycle refers
  to the one generation without a result (`Referred`).

`ReportsAgree` and `SamplerEndsFirst` follow. `LedgerInv` adds that the core run holds
exactly the tokens that were handed out or are being committed (`Held`) and that the slots count
them, which gives `AdmissionAgrees`. `CountInv` adds `InflightExact`, that no count goes below zero,
and that a generation which its closer saw drained stays drained until it is sealed
(`StaysDrained`): nobody is admitted after the closing store, even while that store is still
buffered. That gives `ClosersDrain`. All of it holds with and without store buffering.
`ControllerImplementsCapture` maps each step, per generation, to a step of `CaptureSpec` or to a
stutter.

### The file writers

`FileInv` says that a temporary name leads nowhere or to the file of the one writer that
created it under that name (`TempsOwned`), that a writer works on its own file, under its own name
unless a failed sink of the same name took it away, and the file is filled as far as the writer has
come (`WorkOwned`), that a target holds the previous artifact or, unless it is `Crowded`, that of a
writer that succeeded (`TargetsOwned`), and that what was returned as written stays whole, and a
Run JSON synced (`Kept`). `WorkOwned` makes the JSONL writer's cleanup harmless for others; a sink's
cleanup can only hit a sink of the same name (`SinkName`, from `FileAssumption`). In `RenameInv` a
sink whose name leads to a file not its own was robbed by a second sink, so the file is
a third's: that is where `Crowded` comes from.

### The tracing session

* `SamplingInv`: past the join the sampler's task is gone, so from the snapshot to the merge
  the collector does not change, and the merge copies what it holds.
* `RetentionInv` is types and `Ledger`: index by index, the requests kept are the first of the
  history; the number kept is the number that closed, up to the cap; what is missing is counted;
  and while nothing is counted every section is the history's. The last part is
  what makes the step below the cap go through: a recorder with room has lost nothing before.
* `AccountInv` adds `Balance`: the candidates that were let in are as many as are complete, still
  open, or refused and counted. A strict snapshot succeeds only if no counter is
  above zero and nothing is open, so by `Balance` and the ledger every candidate let in is
  in the snapshot's input. The lemmas on the import (`SourcesListed`, `ProvenancePrefix`,
  `StrictExcludesNothing`, `StrictRetainsAll`, `SourceRetained`) follow each of them to a retained
  source, unless its section was cut at its limit and says so.
* `ClockInv` orders the clock readings. `Own` does so for one span, from the reading in
  `on_new_span` to the one in `on_close`; `Pair` relates a span to the one it is nested in:
  while it runs its parent is live, and whatever has been read of it lies between what
  has been read of the parent, be that still in the layer's hands, in the open table or in a record.
  `Recorded` says that a record's interval runs forward and is off its duration by at most a microsecond,
  because the offsets and the duration are rounded down separately (`RoundedOff`). For
  `NestedEvidenceKept` the records are then followed through a snapshot: the conversion accepts
  them, the request is the only candidate under its id (`SoleRequest`, which needs the ledger's prefix
  and that a span is recorded once), the child is inside its parent's interval, and the report
  excludes exactly what normalization does not retain (`RequestExclusion`, `ChildExclusion`).
* `OutputInv` says what is at the output paths at each point of shutdown, and that it is of the one
  conversion in `captured`. That the JSONL imports to the run beside it is `ReadBack` and
  `ReimportRun`. The lines read back as the sources they were written from. Imported again, these
  give each section exactly the events that the report had left, in the same order
  (`ReimportEvents`: two increasing enumerations of one set of source indices are equal, `InOrder`), so no
  limit is hit; and normalizing what normalization kept keeps all of it, under the same parents
  (`RequestsAgain`, `ChildrenAgain`).

### The pure operators

Each family of inputs has its own invariant; a step of another family leaves it alone (`StepInFamily`).

* `RunInv`: the run is well formed, whatever was added to it. The rest of `ReportDecides` and
  `LossesReported` is `NormalizationProofs`: the report has an error for an event exactly when normalization would
  exclude or repair it, and the output index of a disposition is the rank of the event among the kept ones.
* `ReaderInv` says where the reader is in the stream: `pos` is within the line that began `record` bytes
  before, as many lines were returned as begin earlier, each with its number and size, and none of them was over the
  limit; once it is done it has returned all, or all up to the first line over the limit. At the end of the stream
  that is `LinesExact`, for every cut into buffers, since the invariant does not mention them.
* `ImportInv` says only that the lines are lines (a byte at least, no name that outgrows a record); the rest holds of any
  sequence of spans, by `TracingImportProofs`. A span that is neither foreign nor in the run
  has a message of its own (`WarningsNamed`: the flattened list holds the messages of each span, and the cap hides one only when
  the list is full), or is accepted; then it was dropped at the limit, or is a candidate, and the run excludes a
  candidate only with a durable summary for its section (`ExcludedWarned`). The sources it keeps are accepted, under the limits and
  excluded no more (`AgainUnexcluded`), so that importing them keeps all of them in their order
  (`RetainedAgain`) and gives the same run (`RunAgain`). The command's artifact is a normalized run without samples, hence its own
  normalization (`NormalizedValid`, `StrictDecides`).
* `BuiltInv`: what was taken is in the run or counted as dropped (`Accounted`), and the run was
  assembled by pushes (`AssembledRun`). `BuiltAccepted` then follows from `NormalizedValid` and
  `ChangeIsTold`: what `build` returns is its own normalization, so `analyze` accepts it, and the analysis looks only at what
  normalization leaves alone.
* `OptionInv`: overrides are applied in a loop that stops at the first failure. Its result is valid because
  the first round that were not would contradict its predecessor (`NoFirstFailure`: a set of naturals has a least
  element, which is as much induction as the prover offers). Sound options have the shape of the defaults
  (`Shaped`), so the list of what differs from the defaults, read as TOML, gives them back.
* `TemplateInv`: the controller, its template and both documents are sound; as many artifacts were named as
  there are generations, each with its generation's number (`PathsOk`); and after a reload the template is what
  a controller built now from that file would have (`FreshReplays`).

### Only model-checked

* The liveness properties (`ShutdownReturns`, `ListenerTold`, `DrainedIsFinalized`,
  `OperationsReturn`, `LimitsHitCloses`): fairness and `ENABLED` are out of the prover's reach.
* `MeasuresExact`, `ConfidenceEarned` and `SlicesPartition`: percentiles, sweeps and rankings are folds over sorted
  sequences. What a fold or a sort computes for inputs of any length needs induction over data, which
  is out of reach. They are compared with reference definitions over bounded inputs.

## Findings

* `sink_panic`. A `RunSink` that panics in `write` leaves the phase at
  Finalizing and signals nobody. Every other or later `shutdown()` waits for
  ever, where the documentation of `shutdown()` promises that a run which
  reached the sink replays a terminal result.
* `clock_set_back`. `finalized_at_unix_ms` is a fresh wall-clock reading. If the
  clock was set back below the start of the run, normalization does not repair
  it and the run's own artifact fails strict validation. The evidence is
  always valid (`ArtifactEvidenceValid`); only this piece of metadata is not.
* `store_buffer`. The closer stores `closing` and then loads
  `inflight_captured`; the last completion decrements the count and then loads
  `closing`. With Release and Acquire both may read the old value: the
  generation has drained, is closing, and nobody finalizes it until
  `shutdown()`. With sequentially consistent accesses
  (`controller_liveness`) it is always finalized.
* `late_completion`. A completion decrements `inflight_captured` and loads `closing`
  afterwards. In between another request can be admitted and `disable()` can close the
  generation; it sees that request in flight and leaves finalization to the last
  completion. The first completion then sees `closing` and finalizes, and
  `finalize_generation` does not look at the count again: a request that is
  still running is marked unfinished although nobody shut the controller
  down. (Under strict lifecycles the core run refuses and the later completion tries
  again.) `NothingCutOff` is what this violates. What does hold is `ClosersDrain`: a thread that closes a generation itself and then finalizes it does
  so only when nothing is in flight.
* `blocking_priority`. A stage whose name matches the blocking pool has its score
  held below the pool's, but suspects are ranked by confidence after the caps,
  then by score. If `local_queue_depth` is missing in every snapshot the pool's
  suspect (score 88) is capped to Medium while the stage (capped to 86) stays
  High; a third suspect of score 95 keeps the ambiguity rule, which would cap both, away
  from them. The stage is then ranked before the evidence it mirrors,
  which the rationale and the diagnostics guide say it should not be.

Observed without a run of their own:

* `disable()` and `shutdown()` of a controller block their thread until the sampler
  task has ended. On a runtime whose only worker is that thread the task is never
  polled and the call does not return (the model
  with `FreeWorker = FALSE`). `controller_liveness` assumes a free worker, so
  `OperationsReturn` says nothing of this case.
* The controller's documentation gives `enabled` of the runtime sampler table the
  default `false`; the type has no default for it, so a table without
  `enabled` is refused (`FileError`).
* A reload that omits the service name keeps the name of the current template, while the other
  omitted keys fall back to the builder; the tests ask for this.
* The non-default listing of a report is compared as one TOML document. Applied
  as overrides one after another it can be refused, because each is validated alone.

## Not modelled

* The axum middleware: it begins a request, awaits the handler and finishes with
  the classified status, or drops the token. `Collector` takes any outcome and any
  drop at any time, so nothing but the status table would be added.
* The request helpers of `tailtriage-tokio`: thin wrappers over core timers.
* Rendering, wording, argument parsing, serde layout: text. Where a property
  depends on what parsing accepts, the kinds of text are modelled.
* The blank run id of a controller's run; dropping the last clone of a controller
  with a live generation.
* Counters saturate at `u64::MAX` in the code; the bounds stay far below.
* Demos, examples, benchmarks and scripts.

## Plan

1. Done: every component above but those under "Not modelled"; every safety
   property of the collector, the controller, the file writers and the session, and
   six of the nine properties of the pure operators, as a theorem.
2. Theorems that could follow: parts of `SlicesPartition` that need no fold, such as the disjointness of
   the segments.
3. Dropping the last controller clone; the sampler against a run that a
   controller seals, as a composition of `RuntimeSampler` and `Collector`.

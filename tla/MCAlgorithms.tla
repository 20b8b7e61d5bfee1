---------------------------- MODULE MCAlgorithms ----------------------------
(* The pure parts of the system over small inputs.  Each initial state     *)
(* starts one family of inputs; actions make inputs larger, or feed bytes  *)
(* to the JSONL reader.  A property speaks of the family it names.         *)
EXTENDS Cli, ControllerConfig

CONSTANTS Families,                 \* the families of inputs to look at
          MaxRunRequests,           \* bound: requests of a run to validate
          MaxLines, MaxBadLines,    \* bounds: lines to import
          MaxBytes,                 \* bound: length of a JSONL stream
          MaxIntervals, MaxGauge,   \* bounds: events to measure, samples
          MaxPushes,                \* bound: pushes into a RunBuilder
          MaxSets,                  \* bound: option overrides
          MaxSteps                  \* bound: steps of a controller's configuration

ASSUME BoundsAssumption ==
    {MaxRunRequests, MaxLines, MaxBadLines, MaxBytes, MaxIntervals, MaxGauge, MaxPushes, MaxSets,
     MaxSteps} \subseteq Nat

VARIABLE input

Is(family) == input.family = family

----------------------------------------------------------------------------
(* Runs to validate: events of every kind, blank gauges, zero worker       *)
(* counts and wrong metadata.                                              *)

\* No offsets, exact, a mismatch, partial, inverted, and one that ends later.
RunEvents ==
    {[id |-> id, shape |-> "ok", s |-> iv[1], e |-> iv[2], dur |-> iv[3]] : id \in {1, 2},
        iv \in {<<NoOffset, NoOffset, 2>>, <<0, 2, 2>>, <<0, 2, 5>>, <<0, NoOffset, 2>>,
                <<2, 0, 2>>, <<1, 3, 2>>}}
    \cup {[id |-> id, shape |-> shape, s |-> 0, e |-> 2, dur |-> 2] :
        id \in {1, 2}, shape \in {"blank", "inverted"}}

RunInputs ==
    {[family |-> "run",
      run |-> [requests |-> <<>>, stages |-> <<>>, queues |-> <<>>, inflight |-> <<>>,
               runtime |-> <<>>, finalized |-> fin, meta |-> bad]] :
        fin \in {"ok", "inverted"},
        bad \in {{}, {"run_id"}, {"schema_version", "service_name"}}}

AddEvent(section) ==
    /\ Is("run") /\ input.run.meta = {} /\ input.run.finalized = "ok"
    /\ input.run.stages = <<>> /\ input.run.queues = <<>>
    /\ input.run.inflight = <<>> /\ input.run.runtime = <<>>
    /\ section = "requests" => Len(input.run.requests) < MaxRunRequests
    /\ \E ev \in RunEvents : input' = [input EXCEPT !.run[section] = Append(@, ev)]

AddSample ==
    /\ Is("run") /\ input.run.requests = <<>>
    /\ Len(input.run.inflight) + Len(input.run.runtime) < 3
    /\ \/ \E g \in {0, 1} :
              input' = [input EXCEPT !.run.inflight = Append(@, [gauge |-> g])]
       \/ \E w \in {"ok", "zero_workers"} :
              input' = [input EXCEPT !.run.runtime = Append(@, w)]

----------------------------------------------------------------------------
(* Lines of span JSONL to import.                                          *)

Span(kind, id, s, e, dur) ==
    [kind |-> kind, id |-> id, name |-> "n", opt |-> "absent",
     ws |-> 1, wf |-> 2, s |-> s, e |-> e, dur |-> dur]

SoundSpan == Span("request", "r1", 0, 6, 6)

\* Requests of two ids with every source of a duration and every kind of
\* offsets; children inside, outside and without offsets.
TimedSpans ==
    {SoundSpan, Span("request", "r2", 0, 6, 6),
     Span("request", "r1", NoOffset, NoOffset, NoOffset),
     Span("request", "r1", 0, 6, 9), Span("request", "r1", 6, 0, NoOffset),
     Span("request", "r1", 0, NoOffset, NoOffset),
     Span("stage", "r1", 1, 3, NoOffset), Span("stage", "r1", 1, 8, 7),
     Span("stage", "r2", NoOffset, NoOffset, 1), Span("queue", "r1", 0, 2, 2)}

\* One thing wrong with each.
RefusedSpans ==
    {[SoundSpan EXCEPT !.kind = k] : k \in {"foreign", "missing", "unknown", "malformed"}}
    \cup {[SoundSpan EXCEPT !.ws = 3],
          [SoundSpan EXCEPT !.id = "blank", !.name = "not_string"],
          [SoundSpan EXCEPT !.opt = "nat"],
          [SoundSpan EXCEPT !.kind = "stage", !.opt = "text"],
          [SoundSpan EXCEPT !.kind = "stage", !.opt = "bool", !.ws = 0],
          [SoundSpan EXCEPT !.kind = "queue", !.opt = "negative"],
          [SoundSpan EXCEPT !.kind = "queue", !.opt = "nat", !.wf = 5]}

Line(form, size, span) == [form |-> form, size |-> size, span |-> span]

GoodLines == {Line("span", 1, x) : x \in TimedSpans}
BadLines == {Line("span", 1, x) : x \in RefusedSpans}
            \cup {Line(form, 1, SoundSpan) : form \in Forms \ {"span"}}
            \cup {Line("span", RecordLimit + 1, SoundSpan)}

AddLine ==
    /\ Is("import")
    /\ \/ Len(input.lines) < MaxLines /\ \E l \in GoodLines : input' = [input EXCEPT !.lines = Append(@, l)]
       \/ Len(input.lines) < MaxBadLines /\ \E l \in BadLines : input' = [input EXCEPT !.lines = Append(@, l)]

MCLimits == [requests |-> 2, stages |-> 1, queues |-> 1]

----------------------------------------------------------------------------
(* A stream of bytes and the reader of its lines, in buffers of any size.  *)

ReaderInputs ==
    {[family |-> "reader", stream |-> s, reader |-> ReaderStart] :
        s \in UNION {[1..n -> {"x", "nl"}] : n \in 0..MaxBytes}}

Read ==
    /\ Is("reader") /\ ~input.reader.done
    /\ \E buf \in 1..(Len(input.stream) - input.reader.pos) :
           input' = [input EXCEPT !.reader = ReadBuffer(@, input.stream, buf)]

ReachEnd ==
    /\ Is("reader") /\ ~input.reader.done /\ input.reader.pos = Len(input.stream)
    /\ input' = [input EXCEPT !.reader = ReadEof(@)]

----------------------------------------------------------------------------
(* Events to measure.                                                      *)

Intervals ==
    {[s |-> iv[1], e |-> iv[2], dur |-> iv[3]] :
        iv \in {<<0, 2, 2>>, <<0, 6, 5>>, <<1, 3, 4>>, <<2, 4, 2>>, <<5, 5, 0>>, <<4, 7, 3>>,
                <<NoOffset, NoOffset, 3>>}}

AddInterval ==
    /\ Is("intervals") /\ Len(input.events) < MaxIntervals
    /\ \E ev \in Intervals : input' = [input EXCEPT !.events = Append(@, ev)]

\* Samples of one gauge, in any order and with equal times.
AddGaugeSample ==
    /\ Is("gauge") /\ Len(input.samples) < MaxGauge
    /\ \E us \in {None, 1, 2, 3}, n \in 0..2 :
           input' = [input EXCEPT !.samples =
                        Append(@, [gauge |-> 1, us |-> us, ms |-> 4 - us, count |-> n])]

----------------------------------------------------------------------------
(* Runs to analyze.  Requests start four microseconds apart.               *)

Req(i, route, dur, precise) ==
    [id |-> i, shape |-> "ok", route |-> route, dur |-> dur, ms |-> i, msEnd |-> i + dur,
     s |-> IF precise THEN 4 * i ELSE NoOffset, e |-> IF precise THEN 4 * i + dur ELSE NoOffset]

\* A queue or stage event from the start of request i.
Child(i, dur, completed, name, depth) ==
    [id |-> i, shape |-> "ok", dur |-> dur, s |-> 4 * i, e |-> 4 * i + dur,
     completed |-> completed, name |-> name, depth |-> depth]

Sample(us, ms, blocking, local, global, workers) ==
    [us |-> us, ms |-> ms, blocking |-> blocking, local |-> local, global |-> global,
     alive |-> None, workers |-> workers]

Repeat(n, x) == [i \in 1..n |-> x]

Gauge(us, ms, n) == [gauge |-> 1, us |-> us, ms |-> ms, count |-> n]

MCPatternMatches == {<<1, "blocking">>}

NoDrops == [sec \in Sections |-> 0]

RunOf(requests, queues, stages, runtime, inflight, dropped) ==
    [requests |-> requests, queues |-> queues, stages |-> stages, runtime |-> runtime,
     inflight |-> inflight, dropped |-> dropped, limitsHit |-> dropped # NoDrops,
     meta |-> {}, finalized |-> "ok"]

\* Two requests; the thresholds that count requests are lowered to match.
AnalysisOptions ==
    [Defaults EXCEPT !.evidence.low_completed_request_threshold = 2,
                     !.downstream.min_stage_samples = 1,
                     !.route.min_request_count = 1,
                     !.temporal.min_request_count = 2,
                     !.temporal.min_segment_request_count = 1]

AnalysisRequests ==
    {<<Req(1, r[1], d[1], precise), Req(2, r[2], d[2], TRUE)>> :
        r \in {<<1, 1>>, <<1, 2>>}, d \in {<<10, 10>>, <<6, 12>>}, precise \in BOOLEAN}
    \cup {<<Req(1, 1, 10, TRUE)>>, <<>>, <<Req(1, 1, 10, TRUE), Req(1, 2, 6, TRUE)>>}

AnalysisQueues ==
    {<<>>, <<Child(1, 6, TRUE, 1, 12)>>, <<Child(1, 6, FALSE, 1, 12), Child(2, 2, TRUE, 1, None)>>}

AnalysisStages ==
    {<<>>, <<Child(1, 5, TRUE, 1, None), Child(2, 6, TRUE, 1, None)>>,
     <<Child(1, 6, FALSE, 1, None), Child(2, 3, TRUE, 2, None)>>}

AnalysisRuntimes ==
    {<<>>, Repeat(40, Sample(5, 1, 24, None, 0, None)), Repeat(40, Sample(None, 2, 24, 0, 0, 2)),
     Repeat(9, Sample(18, 9, 0, 3, 8, 2)), <<Sample(5, 1, 3, 0, 9, 0), Sample(18, 3, 0, 0, 9, 2)>>}

AnalysisInflight == {<<>>, <<Gauge(5, 1, 1), Gauge(None, 2, 3)>>}

AnalysisInputs ==
    {[family |-> "analysis", run |-> RunOf(rq, q, st, rt, fl, dr)] :
        rq \in AnalysisRequests, q \in AnalysisQueues, st \in AnalysisStages,
        rt \in AnalysisRuntimes, fl \in AnalysisInflight,
        dr \in {NoDrops, [NoDrops EXCEPT !.queues = 1, !.runtime = 1],
                [NoDrops EXCEPT !.requests = 1, !.stages = 1]}}

\* A service whose requests spend their time in a stage around the blocking
\* pool, captured by a runtime sampler that has no local queue depths.
Incident(n, partial) ==
    RunOf([i \in 1..n |-> Req(i, 1, 10, TRUE)],
          IF partial THEN [i \in 1..n |-> Child(i, 10, FALSE, 1, 12)] ELSE <<>>,
          [i \in 1..n |-> Child(i, 6, TRUE, 1, None)],
          Repeat(100, Sample(5, 1, 24, None, 0, None)), <<>>, NoDrops)

IncidentInputs ==
    {[family |-> "incident", run |-> Incident(20, partial)] : partial \in BOOLEAN}

----------------------------------------------------------------------------
(* Overrides and TOML documents for the options.                           *)

Raw(path, kind, value) == [syntax |-> TRUE, path |-> path, kind |-> kind, value |-> value]
Path(group, field) == <<group, field>>

High50 == Raw(Path("confidence", "high_score_threshold"), "u8", 50)
Medium40 == Raw(Path("confidence", "medium_score_threshold"), "u8", 40)
Patterns == Path("downstream", "blocking_correlated_stage_patterns")

Raws ==
    {High50, Medium40, [High50 EXCEPT !.syntax = FALSE], [High50 EXCEPT !.path = Path("x", "y")],
     [High50 EXCEPT !.kind = "u64", !.value = 300], Raw(Patterns, "list", <<"pool">>),
     Raw(Patterns, "list", <<"spawn_blocking", "blocking_path", "blocking">>),
     Raw(Path("route", "breakdown_limit"), "u64", 0), Raw(Path("route", "breakdown_limit"), "u8", 3),
     Raw(Path("route", "emit_on_divergent_suspects"), "bool", FALSE),
     Raw(Path("temporal", "min_request_count"), "u8", 15)}

Document(fields) ==
    [parses |-> TRUE, table |-> TRUE, version |-> "supported", fields |-> fields]

Documents ==
    {<<>>, <<Document({High50, Medium40})>>, <<Document({High50})>>,
     <<Document({Raw(Patterns, "blank_list", <<BlankPattern>>)})>>,
     <<Document({[High50 EXCEPT !.kind = "bool"]})>>,
     <<[Document({}) EXCEPT !.parses = FALSE]>>, <<[Document({}) EXCEPT !.table = FALSE]>>,
     <<[Document({Medium40}) EXCEPT !.version = "none"]>>,
     <<[Document({Medium40}) EXCEPT !.version = "other"]>>}

OptionInputs == {[family |-> "options", config |-> doc, sets |-> <<>>] : doc \in Documents}

AddSet ==
    /\ Is("options") /\ Len(input.sets) < MaxSets
    /\ \E raw \in Raws : input' = [input EXCEPT !.sets = Append(@, raw)]

----------------------------------------------------------------------------
(* Events pushed into a RunBuilder.                                        *)

BuilderOptions ==
    {[service |-> "svc", started |-> 1, finalized |-> 2, mode |-> mode, limits |-> full,
      run_id |-> id, reason |-> "none"] :
        mode \in DOMAIN ModeDefaults, full \in {<<>>, <<[sec \in Sections |-> 1]>>},
        id \in {"set", "blank"}}

MCModes == [light |-> [sec \in Sections |-> 2],
            investigation |-> [[sec \in Sections |-> 3] EXCEPT !["requests"] = 2]]

BuilderInputs ==
    {[family |-> "built", builder |-> NewRunBuilder(options), taken |-> NoDrops] :
        options \in {o \in BuilderOptions : NewError(o) = "none"}}

Pushes ==
    {<<"requests", Req(1, 1, 10, TRUE)>>, <<"requests", Req(2, 1, 6, TRUE)>>,
     <<"requests", [Req(2, 1, 6, TRUE) EXCEPT !.dur = 9]>>,
     <<"requests", [Req(1, 1, 6, TRUE) EXCEPT !.shape = "inverted"]>>,
     <<"stages", Child(1, 6, TRUE, 1, None)>>, <<"stages", Child(2, 9, TRUE, 1, None)>>,
     <<"queues", [Child(1, 2, TRUE, 1, 12) EXCEPT !.s = NoOffset]>>,
     <<"queues", [Child(1, 2, TRUE, 1, 12) EXCEPT !.e = 2]>>,
     <<"inflight", Gauge(5, 1, 1)>>, <<"inflight", [Gauge(5, 1, 1) EXCEPT !.gauge = 0]>>,
     <<"runtime", Sample(5, 1, 3, 0, 9, 2)>>, <<"runtime", Sample(5, 1, 3, 0, 9, 0)>>}

SectionOrder == <<"requests", "stages", "queues", "inflight", "runtime">>

PushEvent ==
    /\ Is("built") /\ Total(Map(LAMBDA sec : input.taken[sec], SectionOrder)) < MaxPushes
    /\ \E p \in Pushes :
           input' = [input EXCEPT !.builder = Push(@, p[1], p[2]),
                                  !.taken[p[1]] = IF Impossible(p[1], p[2]) THEN @ ELSE @ + 1]

----------------------------------------------------------------------------
(* A controller, its two configuration files, and what an operator does to *)
(* them.  paths collects the artifacts of the generations, before is the   *)
(* template that the last step found.                                      *)

Out(stem, ext) == [dir |-> "d", stem |-> stem, ext |-> ext]

Omitted == [service |-> Absent, enabled |-> Absent, output |-> Absent, mode |-> Absent,
            limits |-> Absent, strict |-> Absent, sampler |-> Absent, policy |-> Absent]

File(fields) ==
    [readable |-> TRUE, toml |-> TRUE, keys |-> {}, no_enabled |-> FALSE, fields |-> fields]

FullFile ==
    File([service |-> <<"filed">>, enabled |-> <<TRUE>>, output |-> <<Out("b", "")>>,
          mode |-> <<"investigation">>, limits |-> <<[requests |-> 1]>>, strict |-> <<TRUE>>,
          sampler |-> <<[SamplerOff EXCEPT !.enabled = TRUE, !.interval = <<0>>]>>,
          policy |-> <<"auto_seal_on_limits_hit">>])

Files ==
    {FullFile, File(Omitted), File([Omitted EXCEPT !.service = <<"blank">>]),
     File([Omitted EXCEPT !.output = <<EmptyPath>>, !.mode = <<"investigation">>]),
     File([Omitted EXCEPT !.output = <<Out("a", "json")>>, !.enabled = <<FALSE>>]),
     [FullFile EXCEPT !.readable = FALSE], [FullFile EXCEPT !.toml = FALSE],
     [FullFile EXCEPT !.keys = {"sink"}], [FullFile EXCEPT !.no_enabled = TRUE]}

Configured(output, config, enabled) ==
    [NewBuilder("svc") EXCEPT !.output = output, !.config = config, !.enabled = enabled,
                              !.strict = TRUE]

Builders ==
    {Configured(output, config, enabled) :
        output \in {Absent, <<Out("a", "json")>>, <<EmptyPath>>},
        config \in {Absent, <<1>>}, enabled \in BOOLEAN}

Artifacts(ctl) == {ctl.active[i].path : i \in DOMAIN ctl.active}

TemplateInputs ==
    LET Start(built, file) ==
            [family |-> "template", ctl |-> built.ctl, files |-> <<file, File(Omitted)>>,
             last |-> "build", before |-> built.ctl.template, paths |-> Artifacts(built.ctl),
             steps |-> 0]
    IN  {Start(BuildController(pair[1], pair[2], TRUE), pair[2]) :
            pair \in {p \in Builders \X Files : BuildController(p[1], p[2], TRUE).error = "none"}}

Step(last, ctl, files) ==
    /\ Is("template") /\ input.steps < MaxSteps
    /\ input' = [input EXCEPT !.ctl = ctl, !.files = files, !.last = last, !.steps = @ + 1,
                              !.before = input.ctl.template, !.paths = @ \cup Artifacts(ctl)]

EditFile == \E p \in {1, 2}, file \in Files :
                Step("edit", input.ctl, [input.files EXCEPT ![p] = file])

ReloadFile == Step("config", ReloadConfig(input.ctl, input.files), input.files)

ReloadDirect ==
    /\ Is("template")
    /\ \E template \in {[input.ctl.template EXCEPT !.config = <<2>>],
                         [input.ctl.template EXCEPT !.service = "direct", !.output = Out("b", "")],
                         [input.ctl.template EXCEPT !.service = "blank"],
                         [input.ctl.template EXCEPT !.output = EmptyPath]} :
           Step("template", ReloadTemplate(input.ctl, template), input.files)

Arm == \E inRuntime \in BOOLEAN :
           Step("enable", EnableConfigured(input.ctl, inRuntime), input.files)

Disarm == Step("disable", [input.ctl EXCEPT !.active = <<>>], input.files)

ShutDown == Step("shutdown", [input.ctl EXCEPT !.active = <<>>, !.shutdown = TRUE], input.files)

----------------------------------------------------------------------------
Inputs ==
    RunInputs \cup ReaderInputs \cup AnalysisInputs \cup OptionInputs \cup BuilderInputs
    \cup {[family |-> "import", lines |-> <<>>], [family |-> "intervals", events |-> <<>>],
          [family |-> "gauge", samples |-> <<>>]}
    \cup IncidentInputs \cup TemplateInputs

Init == input \in {i \in Inputs : i.family \in Families}

Next ==
    \/ \E sec \in EventSections : AddEvent(sec)
    \/ AddSample \/ AddLine \/ Read \/ ReachEnd \/ AddInterval \/ AddGaugeSample
    \/ AddSet \/ PushEvent
    \/ EditFile \/ ReloadFile \/ ReloadDirect \/ Arm \/ Disarm \/ ShutDown

Spec == Init /\ [][Next]_input

----------------------------------------------------------------------------
(* Properties.                                                             *)

\* Strict validation accepts exactly the runs with sound metadata that
\* normalization leaves alone, and what normalization returns has no
\* error-level issue left: excluding an event never makes another invalid.
ReportDecides ==
    Is("run") =>
        LET Decided(run, out) ==
                /\ ValidateStrict(run) <=> run.meta = {} /\ run.finalized = "ok" /\ out = run
                /\ ValidateStrict([out EXCEPT !.meta = {}, !.finalized = "ok"])
        IN  Decided(input.run, NormalizeRun(input.run))

\* Every disposition is true: an event is retained at the index that
\* add_disps gives it, with at most its offsets cleared, and a durable
\* lifecycle warning is written exactly when normalization changed the run.
LossesReported ==
    Is("run") =>
        LET True(report, out) ==
                /\ LifecycleSummary(input.run) # {} <=> out # input.run
                /\ \A sec \in EventSections :
                       LET kept == {i \in DOMAIN input.run[sec] : ~Excluded(report, sec, i)}
                       IN  /\ Cardinality(kept) = Len(out[sec])
                           /\ \A i \in kept :
                                  /\ OutputIndex(report, sec, i) \in DOMAIN out[sec]
                                  /\ out[sec][OutputIndex(report, sec, i)]
                                         = ClearBad(input.run[sec][i])
        IN  True(Report(input.run), NormalizeRun(input.run))

Named(x, i, lifecycle) ==
    \E w \in lifecycle : IF "source" \in DOMAIN w THEN w.source = i
                         ELSE /\ w.action = "excluded" /\ KnownKind(x)
                              /\ w.section = SectionOf[x.kind]

SpansAccounted(imported, spans, kept) ==
    \A i \in DOMAIN spans :
        \/ spans[i].kind = "foreign" \/ i \in kept \/ Named(spans[i], i, imported.lifecycle)
        \/ KnownKind(spans[i]) /\ imported.dropped[SectionOf[spans[i].kind]] > 0
        \/ Violations(spans[i]) # <<>> /\ imported.warnings >= MaxWarnings

SameImport(one, other) ==
    one.run = other.run /\ one.bounds = other.bounds /\ one.sources = other.sources

Analyzable(command) ==
    command.error = "none" => AcceptError(command.artifact, FALSE) = "none"

Lossless(imported, spans) ==
    imported.error = "none" =>
        /\ SpansAccounted(imported, spans, RetainedIndices(spans))
        /\ SameImport(ImportJsonl(WriteJsonl(imported.sources).lines, FALSE), imported)
        /\ Analyzable(ImportCommand(input.lines, 2, FALSE))

\* A candidate span that an import leaves out of the run is accounted for: a
\* warning names it unless the list is full, its section counts it at the
\* limit, or core summarises the exclusion.  The spans it keeps, written and
\* imported again, give the same run and bounds; and the artifact that the import
\* command writes is one that strict `analyze` accepts.
ImportLossless ==
    Is("import") => Lossless(ImportJsonl(input.lines, FALSE), ReadSpans(input.lines, FALSE).spans)

\* The lines of a stream, by definition: the stretches between newlines, the
\* last one only if it is not empty.
LineStarts(stream) ==
    {k \in 1..Len(stream) : k = 1 \/ stream[k - 1] = "nl"}
LineLength(stream, k) ==
    Min({j \in k..(Len(stream) + 1) : j = Len(stream) + 1 \/ stream[j] = "nl"}) - k

\* What a reader returned of a stream is a prefix of its lines, all of them
\* once it is done.
ReadsExactly(stream, reader) ==
    LET starts == LineStarts(stream)
        Number(k) == Cardinality({j \in starts : j <= k})
        start == [n \in 1..Cardinality(starts) |-> CHOOSE k \in starts : Number(k) = n]
        over == {n \in DOMAIN start : LineLength(stream, start[n]) > RecordLimit}
        good == IF over = {} THEN Cardinality(starts) ELSE Min(over) - 1
        expected == [n \in 1..good |-> <<"line", n, LineLength(stream, start[n])>>]
                    \o (IF over = {} THEN <<>> ELSE << <<"too_large", Min(over)>> >>)
    IN  /\ Len(reader.out) <= Len(expected)
        /\ SubSeq(expected, 1, Len(reader.out)) = reader.out
        /\ reader.done => reader.out = expected

\* Whatever the sizes of the buffers that the stream arrives in, the reader
\* returns its lines in order with their numbers, and ends with an error at
\* the first line that is longer than the limit.
LinesExact == Is("reader") => ReadsExactly(input.stream, input.reader)

\* The time a request is said to have spent in overlapping events is the
\* measure of their union (their sum when one has no interval), never more
\* than its latency; the 95th percentile leaves at most a twentieth of the
\* gaps above it; and a gauge's trend is that of its latest episode of
\* activity: the samples since the last zero, and the zero that ended it.
MeasuresExact ==
    /\ Is("intervals") =>
           LET evs == input.events
               durations == Map(LAMBDA ev : ev.dur, evs)
               n == Len(evs)
               union == UNION {evs[i].s..(evs[i].e - 1) : i \in DOMAIN evs}
               p95 == Percentile(durations, 95)
           IN  /\ AttributedElapsed(evs, 6) =
                      Smaller(6, IF \A i \in DOMAIN evs : Precise(evs[i])
                                 THEN Cardinality(union) ELSE Total(durations))
               /\ evs # <<>> =>
                      /\ Cardinality({i \in 1..n : durations[i] > p95}) * 100 <= (n - 1) * 5
                      /\ p95 \in ToSet(durations)
    /\ Is("gauge") =>
           LET samples == input.samples
               trend == InflightTrend(samples, 1)
               relative == \A i \in DOMAIN samples : samples[i].us # None
               At(i) == IF relative THEN samples[i].us ELSE samples[i].ms
               Before(i, j) == At(i) < At(j) \/ (At(i) = At(j) /\ i < j)
               positive == {i \in DOMAIN samples : samples[i].count > 0}
               last == CHOOSE i \in positive : \A j \in positive \ {i} : Before(j, i)
               SameEpisode(i) == \/ i = last
                                 \/ /\ Before(i, last) /\ i \in positive
                                    /\ \A k \in DOMAIN samples :
                                           Before(i, k) /\ Before(k, last) => k \in positive
               first == CHOOSE i \in DOMAIN samples :
                            SameEpisode(i) /\ \A j \in DOMAIN samples :
                                SameEpisode(j) => j = i \/ Before(i, j)
               ended == \E k \in DOMAIN samples : Before(last, k)
               size == Cardinality({i \in DOMAIN samples : SameEpisode(i)}) + (IF ended THEN 1 ELSE 0)
               final == IF ended THEN 0 ELSE samples[last].count
           IN  IF positive = {} THEN trend = [gauge |-> None]
               ELSE /\ trend.samples = size /\ trend.active = ~ended
                    /\ trend.growth = IF size = 1 THEN 0 ELSE final - samples[first].count

Parts(report) == {report} \cup ToSet(report.routes) \cup ToSet(report.segments)

Evidence(kind) == CASE kind = Queueing -> "queues" [] kind = Downstream -> "stages"
                    [] OTHER -> "runtime"

\* High confidence is earned, in the report as in each of its parts: enough
\* requests and none dropped, completed evidence of a family that lost
\* nothing, and no rival within the ambiguity gap.  Confidence below what the
\* score alone gives is explained by a note, and the ambiguity warning is
\* raised exactly when notes say so.
ConfidenceEarned ==
    Is("analysis") =>
        \A part \in Parts(AnalyzeRun(input.run, AnalysisOptions)) :
            LET suspects == ToSet(part.suspects)
            IN  /\ \A s \in suspects :
                       /\ s.confidence = High =>
                              /\ part.evidence.quality # "weak" /\ s.basis = Completed
                              /\ s.kind # Insufficient
                              /\ input.run.dropped[Evidence(s.kind)] = 0
                              /\ \A t \in suspects \ {s} :
                                     \/ t.score < AnalysisOptions.confidence.ambiguity_min_score
                                     \/ AbsDiff(s.score, t.score)
                                            > AnalysisOptions.confidence.ambiguity_score_gap
                                     \/ \E u \in suspects : u.score > s.score
                       /\ s.confidence < FromScore(s.score, AnalysisOptions) => s.notes # {}
                /\ "ambiguous" \in ToSet(part.warnings)
                       <=> \E s \in suspects : "ambiguity" \in s.notes

Split(parts, whole) ==
    /\ \A i, j \in DOMAIN parts :
           i # j => parts[i].requestIds \cap parts[j].requestIds = {}
    /\ parts # <<>> =>
           /\ UNION {parts[i].requestIds : i \in DOMAIN parts} = whole.requestIds
           /\ \E i \in DOMAIN parts : parts[i].p95 >= whole.p95

Partitioned(report) ==
    /\ Split(report.routes, report) /\ Split(report.segments, report)
    /\ \A i \in DOMAIN report.routes : \A k \in DOMAIN report.routes[i].suspects :
           report.routes[i].suspects[k].kind \notin {Executor, Blocking}

\* Route breakdowns and temporal segments split the requests of the
\* canonical run between them: none is analyzed twice and, with all routes
\* shown, none is left out, so the slowest part is as slow as the whole.
\* Breakdowns by route never name a pressure of the whole runtime.
SlicesPartition ==
    Is("analysis") => Partitioned(AnalyzeRun(input.run, AnalysisOptions))

OptionsReplay(direct, result) ==
    /\ direct.error # "none" => direct.options = Defaults
    /\ result.error = "none" =>
           /\ Validate(result.options) = "ok"
           /\ MergeToml(Defaults, Document(NonDefaultOverrides(result.options))) = result

\* A controller that is built now from the file of a template.
FreshController(base, template, before, file) ==
    BuildController([base EXCEPT !.config = template.config, !.service = before.service],
                    [file EXCEPT !.fields.enabled = <<FALSE>>], FALSE)

ReloadReplays(template, before, file, loaded, fresh) ==
    /\ IF fresh.error = "none" THEN template = fresh.ctl.template ELSE template = before
    /\ loaded.error = "none" /\ file.fields.mode # Absent /\ fresh.error = "none" =>
           \A key \in DOMAIN loaded.activation : template[key] = loaded.activation[key]

TemplateReplays(ctl, files, last, before, paths) ==
    LET template == ctl.template
        file == files[template.config[1]]
    IN  /\ ConstructGeneration(template, ctl.next, TRUE).error \in {"none", "StartRuntimeSampler"}
        /\ Cardinality(paths) = ctl.next - 1
        /\ last = "config" /\ ~ctl.shutdown /\ template.config # Absent =>
               ReloadReplays(template, before, file, LoadConfig(file),
                             FreshController(ctl.base, template, before, file))

\* Configuration is all or nothing and does not depend on its history.  A
\* failing override changes no analyzer option, and what overrides and TOML
\* lead to is valid and comes back when the report's summary is read as TOML.
\* A controller's template stays usable whatever reloads fail, a reload
\* gives what a controller built from that file would have, but for the
\* service name that the file omits, and no two generations share an
\* artifact.
ConfigurationReplays ==
    /\ Is("options") =>
           OptionsReplay(ApplyOverrides(Defaults, input.sets),
                         BuildOptions(input.config, input.sets))
    /\ Is("template") =>
           TemplateReplays(input.ctl, input.files, input.last, input.before, input.paths)

SameFindings(r, t) == /\ r.suspects = t.suspects /\ r.p95 = t.p95
                      /\ r.routes = t.routes /\ r.segments = t.segments

JudgedRight(raw, run, verdict) ==
    /\ verdict = IF raw.meta # {} THEN "strict"
                 ELSE IF run.requests = <<>> THEN "no_requests" ELSE "none"
    /\ verdict = "none" =>
           SameFindings(AnalyzeRun(run, AnalysisOptions), AnalyzeRun(raw, AnalysisOptions))

BuiltArtifact(built) == Artifact(built.run, built.warnings)

PushesAccounted(built) ==
    \A sec \in Sections :
        \/ input.taken[sec] = Len(built.run[sec]) + built.run.dropped[sec]
        \/ \E w \in built.warnings : w.section = sec /\ w.action = "excluded"

\* A run that RunBuilder::build returns is accepted by strict `analyze` when
\* it has a run id and a request, the analysis of it is that of the events
\* as they were pushed, and an event that was taken and is not in it was
\* counted at a limit or is covered by a durable warning.
BuiltAccepted ==
    Is("built") =>
        /\ JudgedRight(input.builder.run, Build(input.builder).run,
                       AcceptError(BuiltArtifact(Build(input.builder)), FALSE))
        /\ PushesAccounted(Build(input.builder))

\* The statement of the rationale that a stage which mirrors the blocking
\* pool does not outrank the pool's own evidence.
BlockingPrioritized ==
    Is("incident") =>
        LET Prioritized(suspects) ==
                \A i \in DOMAIN suspects : suspects[i].correlated =>
                    \E j \in 1..(i - 1) : suspects[j].kind = Blocking
        IN  Prioritized(AnalyzeRun(input.run, Defaults).suspects)
=============================================================================

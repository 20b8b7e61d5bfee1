----------------------------- MODULE RunBuilder -----------------------------
(***************************************************************************)
(* Capture configuration and the assembly of a Run from completed events   *)
(* (tailtriage-core/src/config.rs, run_builder.rs, retention.rs).          *)
(*                                                                         *)
(* Limits are functions from sections to numbers; an override maps a       *)
(* subset of the sections.  A builder is [run, limits, warnings, reason]:  *)
(* the run, with the fields that Attribution names, its lifecycle warnings *)
(* and its optional end reason.                                            *)
(***************************************************************************)
EXTENDS Attribution

CONSTANT ModeDefaults     \* [modes -> limits]: CaptureMode::core_defaults

Sections == {"requests", "stages", "queues", "inflight", "runtime"}

ASSUME ModeAssumption == \A mode \in DOMAIN ModeDefaults : ModeDefaults[mode] \in [Sections -> Nat]

----------------------------------------------------------------------------
(* Resolution of the limits.                                               *)

\* CaptureLimitsOverride::apply
OverrideLimits(override, base) ==
    [sec \in Sections |-> IF sec \in DOMAIN override THEN override[sec] ELSE base[sec]]

\* CaptureLimitsOverride::merge: a later call wins field by field.
MergeOverride(older, newer) == newer @@ older

\* Config::from_builder: a full set of limits, one tuple when given, wins
\* over every override whatever the order of the calls.
EffectiveLimits(mode, full, overrides) ==
    IF full # <<>> THEN full[1]
    ELSE OverrideLimits(FoldLeft(MergeOverride, <<>>, overrides), ModeDefaults[mode])

\* TailtriageBuilder::build
CollectorBuildError(service, sink) ==
    IF service = "blank" THEN "EmptyServiceName"
    ELSE IF sink = "none" THEN "MissingSink" ELSE "none"

----------------------------------------------------------------------------
(* RunBuilder.                                                             *)

\* RunBuilder::new.  The metadata that normalization cannot repair is left
\* with a blank run_id, which is accepted here.
NewError(options) ==
    IF options.service = "blank" THEN "EmptyServiceName"
    ELSE IF options.finalized < options.started THEN "InvalidFinalizationTime" ELSE "none"

NewRunBuilder(options) ==
    [run |-> [requests |-> <<>>, stages |-> <<>>, queues |-> <<>>, inflight |-> <<>>,
              runtime |-> <<>>, finalized |-> "ok",
              meta |-> IF options.run_id = "blank" THEN {"run_id"} ELSE {},
              dropped |-> [sec \in Sections |-> 0], limitsHit |-> FALSE],
     limits |-> EffectiveLimits(options.mode, options.limits, <<>>),
     warnings |-> <<>>, reason |-> options.reason]

\* validate_*_shape and the worker count: what one event alone shows to be
\* impossible is refused.  Offsets that contradict the duration, or of
\* which one is missing, pass.
Impossible(section, ev) ==
    CASE section = "inflight" -> ev.gauge \in BlankGauges
      [] section = "runtime"  -> ev.workers = 0
      [] OTHER                -> ev.shape # "ok" \/ (Precise(ev) /\ ev.e < ev.s)

\* push_*_bounded: at the limit the event is counted and dropped.
PushBounded(run, limits, section, ev) ==
    IF Len(run[section]) >= limits[section]
    THEN [run EXCEPT !.dropped[section] = @ + 1, !.limitsHit = TRUE]
    ELSE [run EXCEPT ![section] = Append(@, ev)]

\* push_request, push_stage, push_queue, push_inflight_snapshot and
\* push_runtime_snapshot; an error leaves the builder as it was.
Push(builder, section, ev) ==
    IF Impossible(section, ev) THEN builder
    ELSE [builder EXCEPT !.run = PushBounded(@, builder.limits, section, ev)]

AddLifecycleWarning(builder, warning) == [builder EXCEPT !.warnings = Append(@, warning)]

SetRunEndReasonIfAbsent(builder, reason) ==
    [builder EXCEPT !.reason = IF @ = "none" THEN reason ELSE @]

\* Mutant: the run is handed over as it was assembled.
Bug_BuildRaw(builder) == [run |-> builder.run, warnings |-> ToSet(builder.warnings)]

\* build: the normalized run, and the warnings with those of normalization.
Build(builder) ==
    [run |-> Normalized(builder.run),
     warnings |-> ToSet(builder.warnings) \cup LifecycleSummary(ValidationView(builder.run))]
=============================================================================

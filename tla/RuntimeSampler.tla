--------------------------- MODULE RuntimeSampler ---------------------------
(***************************************************************************)
(* The background Tokio runtime sampler (tailtriage-tokio/src/lib.rs): how *)
(* its configuration is resolved, when it may start, the sampling task,    *)
(* and the stop-and-join of shutdown().  It records into the runtime       *)
(* section of a collector that nobody else finalizes while it runs.        *)
(***************************************************************************)
EXTENDS Integers, Sequences, FiniteSets

CONSTANTS
    RuntimeCap,    \* the collector's max_runtime_snapshots
    ModeCadence,   \* TokioSamplerModeDefaults.cadence: [mode -> Nat]
    ModeRetention  \* TokioSamplerModeDefaults.max_runtime_snapshots: [mode -> Nat]

ASSUME SamplerAssumption ==
    /\ RuntimeCap \in Nat
    /\ \A mode \in DOMAIN ModeCadence : ModeCadence[mode] \in Nat \ {0}
    /\ ModeRetention \in [DOMAIN ModeCadence -> Nat]

Unset == "unset"   \* no explicit mode
NoValue == -1      \* no explicit interval or retention

VARIABLES
    sampler,   \* the handle and its task: [pc, stop, captured, max]
    runtime    \* the runtime collector: [snapshots, dropped, limits_hit, config];
               \* config holds the registered sampler's, if there is one

samplerVars == <<sampler, runtime>>

NoSampler == [pc |-> "none", stop |-> FALSE, captured |-> 0, max |-> 0]
EmptyRuntime == [snapshots |-> <<>>, dropped |-> 0, limits_hit |-> FALSE, config |-> {}]

SamplerInit == sampler = NoSampler /\ runtime = EmptyRuntime

----------------------------------------------------------------------------
(* Configuration: overrides win over the mode's defaults, and the          *)
(* collector's own cap bounds the retention.                               *)

Override(value, unset, default) == IF value = unset THEN default ELSE value

\* RuntimeSamplerBuilder::resolve_config
ResolveConfig(builder, inherited) ==
    LET mode      == Override(builder.mode, Unset, inherited)
        requested == Override(builder.max, NoValue, ModeRetention[mode])
    IN  [inherited_mode |-> inherited, explicit_mode |-> builder.mode, mode |-> mode,
         interval |-> Override(builder.interval, NoValue, ModeCadence[mode]),
         retention |-> IF requested < RuntimeCap THEN requested ELSE RuntimeCap]

\* Why start() refuses, in the order of its checks.
StartError(config, inRuntime) ==
    IF config.interval = 0 THEN "ZeroInterval"
    ELSE IF ~inRuntime THEN "MissingRuntime"
    ELSE IF runtime.config # {} THEN "DuplicateStart"
    ELSE "none"

----------------------------------------------------------------------------
(* The collector's side of a sample.                                       *)

\* record_runtime_snapshot under the collector's mutex.
RecordSample(rt, at) ==
    IF Len(rt.snapshots) < RuntimeCap
    THEN [rt EXCEPT !.snapshots = Append(@, at)]
    ELSE [rt EXCEPT !.dropped = @ + 1, !.limits_hit = TRUE]

----------------------------------------------------------------------------
(* Operations.                                                             *)

\* start() after its checks: registration, then the task is spawned.
StartSampler(config) ==
    /\ runtime' = [runtime EXCEPT !.config = {config}]
    /\ sampler' = [pc |-> "loop", stop |-> FALSE, captured |-> 0, max |-> config.retention]

\* One turn of the task's select! that took the tick: a snapshot stamped
\* with the wall clock, unless the retention is used up.
SamplerTick(at) ==
    /\ sampler.pc = "loop"
    /\ IF sampler.captured >= sampler.max
       THEN /\ sampler' = [sampler EXCEPT !.pc = "ended"]
            /\ UNCHANGED runtime
       ELSE /\ runtime' = RecordSample(runtime, at)
            /\ sampler' = [sampler EXCEPT !.captured = @ + 1,
                               !.pc = IF sampler.captured + 1 >= sampler.max
                                      THEN "ended" ELSE "loop"]

\* The turn that took the stop signal.
SamplerStops ==
    /\ sampler.pc = "loop" /\ sampler.stop
    /\ sampler' = [sampler EXCEPT !.pc = "ended"]
    /\ UNCHANGED runtime

\* Mutant: the handle is dropped without a signal that the task would see.
Bug_NoSignal == UNCHANGED sampler

\* shutdown(): send the signal, then wait for the task.
SignalStop == sampler' = [sampler EXCEPT !.stop = TRUE]
SamplerJoined == sampler.pc \in {"none", "ended"}
=============================================================================

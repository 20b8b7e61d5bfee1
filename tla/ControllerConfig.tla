-------------------------- MODULE ControllerConfig --------------------------
(***************************************************************************)
(* The controller's configuration (tailtriage-controller/src/lib.rs): the  *)
(* builder, the TOML file, the template they resolve to, its reloads, and  *)
(* what enable() makes of it.                                              *)
(*                                                                         *)
(* A template is [service, config, output, mode, limits, strict, sampler,  *)
(* policy]; a builder has the same fields, with an optional output, and    *)
(* `enabled`.  A decoded file is [service, enabled, output, mode, limits,  *)
(* strict, sampler, policy] of optional values.  An optional value is <<>> *)
(* or <<value>>; a path is [dir, stem, ext].                               *)
(***************************************************************************)
EXTENDS RunBuilder

Absent == <<>>
Given(option, fallback) == IF option = Absent THEN fallback ELSE option[1]

EmptyPath == [dir |-> "", stem |-> "", ext |-> ""]

Refused(why) == [error |-> why]

SamplerOff == [enabled |-> FALSE, mode |-> Absent, interval |-> Absent, max |-> Absent]

\* TailtriageControllerBuilder::new
NewBuilder(service) ==
    [service |-> service, config |-> Absent, enabled |-> FALSE, output |-> Absent,
     mode |-> "light", limits |-> <<>>, strict |-> FALSE, sampler |-> SamplerOff,
     policy |-> "continue_after_limits_hit"]

----------------------------------------------------------------------------
(* The file.                                                               *)

\* Keys that are refused by name.
RemovedKeys == {"sink", "enabled_for_armed_runs"}

\* ControllerConfigFile::from_path: a document is [readable, toml, keys,
\* no_enabled, fields]; keys are the unknown keys in it, and no_enabled says
\* that its runtime_sampler table lacks `enabled`, which does not decode.
FileError(doc) ==
    IF ~doc.readable THEN "io"
    ELSE IF ~doc.toml \/ doc.keys \cap RemovedKeys # {} \/ doc.no_enabled
    THEN "parse" ELSE "none"

\* The activation table with serde's defaults; what output and mode fall
\* back to is for the caller to say.
Activation(fields, output, mode) ==
    [output  |-> Given(fields.output, output),
     mode    |-> Given(fields.mode, mode),
     limits  |-> Given(fields.limits, <<>>),
     strict  |-> Given(fields.strict, FALSE),
     sampler |-> Given(fields.sampler, SamplerOff),
     policy  |-> Given(fields.policy, "continue_after_limits_hit")]

\* load_config_from_path: without a builder there is no output to fall back
\* to, and the mode is light.
LoadConfig(doc) ==
    IF FileError(doc) # "none" THEN Refused(FileError(doc))
    ELSE IF doc.fields.output \in {Absent, <<EmptyPath>>} THEN Refused("MissingOutput")
    ELSE [error |-> "none", service |-> doc.fields.service, enabled |-> doc.fields.enabled,
          activation |-> Activation(doc.fields, EmptyPath, "light")]

----------------------------------------------------------------------------
(* Resolution.                                                             *)

\* validate_public_template
TemplateError(template) ==
    IF template.service = "blank" THEN "EmptyServiceName"
    ELSE IF template.output = EmptyPath THEN "MissingOutput" ELSE "none"

Template(service, config, activation) ==
    [service |-> service, config |-> config, output |-> activation.output,
     mode |-> activation.mode, limits |-> activation.limits, strict |-> activation.strict,
     sampler |-> activation.sampler, policy |-> activation.policy]

\* resolve_controller_template: output and mode fall back to the builder's,
\* the service name to the current template's; the rest of the activation
\* is the file's alone.  current and loaded are tuples of at most one.
Resolve(base, current, loaded) ==
    LET service  == IF current = <<>> THEN base.service ELSE current[1].service
        config   == IF current = <<>> THEN base.config ELSE current[1].config
        output   == Given(base.output, EmptyPath)
        template ==
            IF loaded = <<>> THEN Template(service, config, [base EXCEPT !.output = output])
            ELSE Template(Given(loaded[1].service, service), config,
                          Activation(loaded[1], output, base.mode))
    IN  IF TemplateError(template) # "none" THEN Refused(TemplateError(template))
        ELSE [error |-> "none", template |-> template]

----------------------------------------------------------------------------
(* Activation.                                                             *)

\* generated_artifact_path
ArtifactPath(output, generation) ==
    [dir |-> output.dir, stem |-> <<output.stem, generation>>,
     ext |-> IF output.ext = "" THEN "json" ELSE output.ext]

\* start_runtime_sampler_if_enabled: the runtime is looked for before the
\* sampler's own checks.
SamplerError(sampler, inRuntime) ==
    IF ~sampler.enabled THEN "none"
    ELSE IF ~inRuntime THEN "MissingTokioRuntimeForSampler"
    ELSE IF sampler.interval = <<0>> THEN "StartRuntimeSampler" ELSE "none"

\* construct_generation
ConstructGeneration(template, generation, inRuntime) ==
    IF CollectorBuildError(template.service, "file") # "none"
    THEN Refused("Build")
    ELSE IF SamplerError(template.sampler, inRuntime) # "none"
    THEN Refused(SamplerError(template.sampler, inRuntime))
    ELSE [error |-> "none", id |-> generation,
          path |-> ArtifactPath(template.output, generation),
          limits |-> EffectiveLimits(template.mode, <<>>, <<template.limits>>),
          activation |-> template]

\* A controller is [base, template, next, active, shutdown]; active is a
\* tuple of at most one generation.  enable() that fails changes nothing.
EnableResult(ctl, inRuntime) ==
    IF ctl.shutdown THEN Refused("ControllerShutdown")
    ELSE IF ctl.active # <<>> THEN Refused("AlreadyActive")
    ELSE ConstructGeneration(ctl.template, ctl.next, inRuntime)

EnableConfigured(ctl, inRuntime) ==
    LET result == EnableResult(ctl, inRuntime)
    IN  IF result.error # "none" THEN ctl
        ELSE [ctl EXCEPT !.active = <<result>>, !.next = @ + 1]

\* TailtriageControllerBuilder::build, with the file at the builder's path.
BuildController(builder, doc, inRuntime) ==
    LET fileError == IF builder.config = Absent THEN "none" ELSE FileError(doc)
        loaded    == IF builder.config = Absent \/ fileError # "none" THEN <<>> ELSE <<doc.fields>>
        resolved  == Resolve(builder, <<>>, loaded)
        enabled   == IF loaded = <<>> THEN builder.enabled
                     ELSE Given(loaded[1].enabled, builder.enabled)
        ctl       == [base |-> builder, template |-> resolved.template, next |-> 1,
                      active |-> <<>>, shutdown |-> FALSE]
    IN  IF fileError # "none" THEN Refused("ConfigLoad")
        ELSE IF resolved.error # "none" THEN resolved
        ELSE IF enabled /\ EnableResult(ctl, inRuntime).error # "none" THEN Refused("InitialEnable")
        ELSE [error |-> "none", ctl |-> IF enabled THEN EnableConfigured(ctl, inRuntime) ELSE ctl]

----------------------------------------------------------------------------
(* Reloads: the template is replaced once everything was checked.          *)

\* reload_template
ReloadTemplate(ctl, template) ==
    IF ctl.shutdown \/ TemplateError(template) # "none" THEN ctl
    ELSE [ctl EXCEPT !.template = template]

\* reload_config; files maps the paths to documents.
ReloadConfigResult(ctl, files) ==
    IF ctl.shutdown THEN Refused("ControllerShutdown")
    ELSE IF ctl.template.config = Absent THEN Refused("MissingConfigPath")
    ELSE IF FileError(files[ctl.template.config[1]]) # "none" THEN Refused("Load")
    ELSE Resolve(ctl.base, <<ctl.template>>, <<files[ctl.template.config[1]].fields>>)

ReloadConfig(ctl, files) ==
    LET result == ReloadConfigResult(ctl, files)
    IN  IF result.error # "none" THEN ctl ELSE [ctl EXCEPT !.template = result.template]
=============================================================================

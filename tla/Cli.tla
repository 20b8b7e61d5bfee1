-------------------------------- MODULE Cli --------------------------------
(***************************************************************************)
(* The command line (tailtriage-cli/src): `analyze` decodes an artifact,   *)
(* validates it, builds the options and analyzes the run as it was         *)
(* decoded; `import tracing-spans-jsonl` converts span JSONL to an         *)
(* artifact.  A command returns a record with the field error ("none", or  *)
(* why it exits with status 1); wording and rendering are left out.        *)
(*                                                                         *)
(* An artifact is [file, schema, run, lifecycle, unfinished]: whether the  *)
(* file can be read and decoded, the schema version, the run (its field    *)
(* finalized may be "absent"), lifecycle warnings and the number of        *)
(* unfinished requests.                                                    *)
(***************************************************************************)
EXTENDS Analyzer, RunBuilder, TracingJsonl

FileStates == {"ok", "unreadable", "truncated", "malformed", "shape"}

Artifact(run, lifecycle) ==
    [file |-> "ok", schema |-> "supported", run |-> run, lifecycle |-> lifecycle,
     unfinished |-> 0]

----------------------------------------------------------------------------
(* decode_run_json_path and decode_run_artifact.                           *)

\* RunJsonDecodeError as map_decode_error reports it; the version is looked
\* at only once the whole document decoded.
DecodeError(artifact) ==
    CASE artifact.file = "unreadable" -> "read"
      [] artifact.file \in {"truncated", "malformed", "shape"} -> "parse"
      [] artifact.file = "ok" /\ artifact.schema # "supported" -> "schema"
      [] OTHER -> "none"

LoadError(artifact) ==
    IF DecodeError(artifact) # "none" THEN DecodeError(artifact)
    ELSE IF artifact.run.finalized = "absent" THEN "unfinalized" ELSE "none"

\* The warnings of the loader, printed before the report.
LoaderWarnings(artifact) ==
    artifact.lifecycle \cup (IF artifact.unfinished > 0 THEN {"unfinished"} ELSE {})

\* The checks of the analyze command up to the options.
AcceptError(artifact, allow) ==
    IF LoadError(artifact) # "none" THEN LoadError(artifact)
    ELSE IF ~allow /\ ~ValidateStrict(ValidationView(artifact.run)) THEN "strict"
    ELSE IF Normalized(artifact.run).requests = <<>> THEN "no_requests"
    ELSE "none"

\* What --allow-ambiguous-artifact prints: every issue of the report.
PermissiveWarnings(artifact) == Report(ValidationView(artifact.run))

----------------------------------------------------------------------------
(* The commands.                                                           *)

\* build_analyze_options: defaults, then the TOML file (a tuple of one when
\* given), then the overrides in their order.
BuildOptions(config, sets) ==
    LET base == IF config = <<>> THEN Ok(Defaults) ELSE MergeToml(Defaults, config[1])
    IN  IF base.error # "none" THEN base ELSE ApplyOverrides(base.options, sets)

AnalyzeCommand(artifact, allow, config, sets) ==
    LET options == BuildOptions(config, sets)
    IN  IF AcceptError(artifact, allow) # "none" THEN [error |-> AcceptError(artifact, allow)]
        ELSE IF options.error # "none" THEN [error |-> options.error]
        ELSE [error |-> "none", printed |-> LoaderWarnings(artifact),
              report |-> AnalyzeRun(artifact.run, options.options)]

\* import_tracing_spans_jsonl under the resolved Limits: the run is written
\* only when a request is left in it.
WriteImported(imported) ==
    IF imported.error # "none" THEN imported
    ELSE IF imported.run.requests = <<>> THEN Failed("no_requests")
    ELSE [error |-> "none", artifact |-> Artifact(imported.run, imported.lifecycle)]

ImportCommand(lines, maxRequests, strict) ==
    IF maxRequests = 0 THEN Failed("max_requests") ELSE WriteImported(ImportJsonl(lines, strict))
============================================================================

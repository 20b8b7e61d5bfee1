-------------------------- MODULE AnalyzerOptions --------------------------
(***************************************************************************)
(* The analyzer's options (tailtriage-analyzer/src/options): defaults, the *)
(* registry of paths, semantic validation, `path=value` overrides, TOML    *)
(* and the summary of non-default options that a report carries.           *)
(*                                                                         *)
(* A path is a pair <<group, field>>.  The text of a value is a record     *)
(* [kind, value]: the kind that parsing finds in it, so that a text fits   *)
(* an option exactly when the kinds agree; numbers that exceed a u8 have   *)
(* the kind "u64".  A pattern is a string of the constant set.             *)
(***************************************************************************)
EXTENDS Integers, Sequences, SequencesExt

BlankPattern == "blank"

Defaults ==
    [queueing |-> [trigger_permille |-> 300],
     blocking |-> [min_nonzero_samples_for_signal |-> 2,
                   strong_p95_threshold |-> 12,
                   strong_peak_threshold |-> 20,
                   strong_nonzero_share_permille |-> 700,
                   strong_min_samples |-> 30],
     executor |-> [min_global_queue_p95_for_signal |-> 1,
                   min_runnable_queue_per_worker_p95_milli_for_signal |-> 500],
     downstream |-> [min_stage_samples |-> 3,
                     blocking_correlated_stage_patterns |->
                         <<"spawn_blocking", "blocking_path", "blocking">>,
                     blocking_correlation_score_margin |-> 2],
     confidence |-> [medium_score_threshold |-> 65,
                     high_score_threshold |-> 85,
                     ambiguity_min_score |-> 60,
                     ambiguity_score_gap |-> 4],
     evidence |-> [low_completed_request_threshold |-> 20],
     route |-> [min_request_count |-> 3,
                breakdown_limit |-> 10,
                emit_on_divergent_suspects |-> TRUE,
                slowest_to_fastest_p95_ratio_numerator |-> 3,
                slowest_to_fastest_p95_ratio_denominator |-> 2,
                slowest_to_global_p95_ratio_numerator |-> 5,
                slowest_to_global_p95_ratio_denominator |-> 4],
     temporal |-> [min_request_count |-> 20,
                   min_segment_request_count |-> 8,
                   share_shift_permille |-> 200,
                   p95_shift_ratio_numerator |-> 3,
                   p95_shift_ratio_denominator |-> 2,
                   emit_on_suspect_shift |-> TRUE,
                   suppress_runtime_sparse_suspect_shift_without_supporting_movement |-> TRUE]]

Paths == UNION {{<<g, f>> : f \in DOMAIN Defaults[g]} : g \in DOMAIN Defaults}

BoolPaths ==
    {<<"route", "emit_on_divergent_suspects">>, <<"temporal", "emit_on_suspect_shift">>,
     <<"temporal", "suppress_runtime_sparse_suspect_shift_without_supporting_movement">>}
ListPaths == {<<"downstream", "blocking_correlated_stage_patterns">>}
U8Paths == {<<"confidence", f>> : f \in DOMAIN Defaults.confidence}
           \cup {<<"downstream", "blocking_correlation_score_margin">>}

\* ValueKind::parse_cli and the typed TOML fields: the kinds of text that
\* each kind of option accepts (a list entry that is blank makes its text
\* "blank_list"; TOML passes such a list on to validation).
Accepts(path, kind) ==
    CASE path \in BoolPaths -> kind = "bool"
      [] path \in ListPaths -> kind = "list"
      [] path \in U8Paths   -> kind = "u8"
      [] OTHER              -> kind \in {"u8", "u64"}

----------------------------------------------------------------------------
(* AnalyzeOptions::validate: the path of the first failing check.          *)

RatioChecks(num, den, n, d) == << <<num, n = 0>>, <<den, d = 0>>, <<num, n < d>> >>

Checks(o) ==
    << <<"queueing.trigger_permille", o.queueing.trigger_permille > 1000>>,
       <<"blocking.strong_nonzero_share_permille",
         o.blocking.strong_nonzero_share_permille > 1000>>,
       <<"confidence.medium_score_threshold",
         o.confidence.medium_score_threshold > o.confidence.high_score_threshold>>,
       <<"confidence.high_score_threshold", o.confidence.high_score_threshold > 100>>,
       <<"confidence.ambiguity_min_score", o.confidence.ambiguity_min_score > 100>>,
       <<"confidence.ambiguity_score_gap", o.confidence.ambiguity_score_gap > 100>>,
       <<"downstream.blocking_correlation_score_margin",
         o.downstream.blocking_correlation_score_margin > 100>>,
       <<"route.breakdown_limit", o.route.breakdown_limit = 0>> >>
    \o RatioChecks("route.slowest_to_fastest_p95_ratio_numerator",
                   "route.slowest_to_fastest_p95_ratio_denominator",
                   o.route.slowest_to_fastest_p95_ratio_numerator,
                   o.route.slowest_to_fastest_p95_ratio_denominator)
    \o RatioChecks("route.slowest_to_global_p95_ratio_numerator",
                   "route.slowest_to_global_p95_ratio_denominator",
                   o.route.slowest_to_global_p95_ratio_numerator,
                   o.route.slowest_to_global_p95_ratio_denominator)
    \o << <<"temporal.min_segment_request_count", o.temporal.min_segment_request_count = 0>>,
          <<"temporal.min_segment_request_count",
            o.temporal.min_segment_request_count * 2 > o.temporal.min_request_count>>,
          <<"temporal.share_shift_permille", o.temporal.share_shift_permille > 1000>> >>
    \o RatioChecks("temporal.p95_shift_ratio_numerator", "temporal.p95_shift_ratio_denominator",
                   o.temporal.p95_shift_ratio_numerator, o.temporal.p95_shift_ratio_denominator)
    \o LET patterns == o.downstream.blocking_correlated_stage_patterns
       IN  << <<"downstream.blocking_correlated_stage_patterns", patterns = <<>> >>,
              <<"downstream.blocking_correlated_stage_patterns",
                BlankPattern \in ToSet(patterns)>> >>

Validate(o) ==
    LET failed == SelectInSeq(Checks(o), LAMBDA c : c[2])
    IN  IF failed = 0 THEN "ok" ELSE Checks(o)[failed][1]

----------------------------------------------------------------------------
(* Setting options.  A result is [error, options].                         *)

Set(o, path, value) == [o EXCEPT ![path[1]][path[2]] = value]

Ok(o) == [error |-> "none", options |-> o]
Err(kind, o) == [error |-> kind, options |-> o]

\* apply_override: raw is [syntax, path, kind, value], syntax FALSE unless
\* the text has exactly one "=".
ApplyOverride(o, raw) ==
    CASE ~raw.syntax          -> Err("syntax", o)
      [] raw.syntax /\ raw.path \notin Paths -> Err("unknown_path", o)
      [] raw.syntax /\ raw.path \in Paths /\ ~Accepts(raw.path, raw.kind) -> Err("value", o)
      [] OTHER ->
           LET candidate == Set(o, raw.path, raw.value)
           IN  IF Validate(candidate) = "ok" THEN Ok(candidate) ELSE Err("invalid", o)

\* The result after each of the first n overrides; an error ends the loop.
Applied(o, raws) ==
    LET applied[n \in 0..Len(raws)] ==
            IF n = 0 THEN Ok(o)
            ELSE IF applied[n - 1].error # "none" THEN applied[n - 1]
            ELSE ApplyOverride(applied[n - 1].options, raws[n])
    IN  applied

\* Mutant: the overrides before the failing one stay applied.
Bug_NotTransactional(o, raws) == Applied(o, raws)[Len(raws)]

\* apply_overrides
ApplyOverrides(o, raws) ==
    LET result == Applied(o, raws)[Len(raws)]
    IN  IF result.error = "none" THEN result ELSE Err(result.error, o)

\* The typed tables of [analyzer] (AnalyzerTomlConfig): an unknown field or a
\* value of another type fails to decode.  fields is the set of the fields
\* that are present, [path, kind, value] each; no path occurs twice.
Decodes(fields) ==
    \A u \in fields :
        /\ u.path \in Paths
        /\ Accepts(u.path, IF u.kind = "blank_list" THEN "list" ELSE u.kind)

\* collect_updates and apply_typed_path: a field that is present replaces
\* the option, an absent one leaves it.
Updates(o, fields) ==
    LET given == {u.path : u \in fields}
        Value(path) == (CHOOSE u \in fields : u.path = path).value
    IN  [g \in DOMAIN o |-> [f \in DOMAIN o[g] |->
            IF <<g, f>> \in given THEN Value(<<g, f>>) ELSE o[g][f]]]

\* merge_toml_str: a document is [parses, table, version, fields].  The
\* options are validated once, after every update.
MergeToml(o, doc) ==
    IF ~doc.parses THEN Err("toml", o)
    ELSE IF ~doc.table THEN Err("missing_table", o)
    ELSE IF ~Decodes(doc.fields) THEN Err("toml", o)
    ELSE IF doc.version = "none" THEN Err("missing_version", o)
    ELSE IF doc.version # "supported" THEN Err("unsupported_version", o)
    ELSE LET merged == Updates(o, doc.fields)
         IN  IF Validate(merged) = "ok" THEN Ok(merged) ELSE Err("invalid", o)

----------------------------------------------------------------------------
(* The summary of a report: every option that differs from its default,    *)
(* with the text that display_value writes.  A list is joined with commas, *)
(* so an entry that holds a comma does not read back as itself.            *)

KindOf(path) ==
    CASE path \in BoolPaths -> "bool"
      [] path \in ListPaths -> "list"
      [] path \in U8Paths   -> "u8"
      [] OTHER              -> "u64"

NonDefaultOverrides(o) ==
    {[syntax |-> TRUE, path |-> p, kind |-> KindOf(p), value |-> o[p[1]][p[2]]] :
        p \in {q \in Paths : o[q[1]][q[2]] # Defaults[q[1]][q[2]]}}
============================================================================

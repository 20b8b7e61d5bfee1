---------------------------- MODULE TracingJsonl ----------------------------
(***************************************************************************)
(* The completed-span JSONL format (tailtriage-tracing/src/jsonl.rs and    *)
(* the record writer of recorder.rs): the bounded line reader over a       *)
(* buffered stream, record parsing, import of a stream, and the writer     *)
(* with the same per-record limit.                                         *)
(*                                                                         *)
(* A byte is "x" or "nl".  A line of a parsed stream is [form, size, span] *)
(* where form says what its text is (Forms).                               *)
(***************************************************************************)
EXTENDS TracingImport

CONSTANT RecordLimit     \* MAX_JSONL_RECORD_BYTES

ASSUME RecordLimitAssumption == RecordLimit \in Nat

\* What the text of a line is; only "span" deserializes to a SpanRecord.
Forms == {"blank", "not_json", "not_object", "no_format", "other_format",
          "forbidden_key", "no_span", "alias_key", "bad_span", "span"}

----------------------------------------------------------------------------
(* BoundedJsonlRecords::next, one buffer at a time.  The reader's state is *)
(* [pos, record, line, done, out]: bytes consumed, bytes of the record     *)
(* collected so far, the line number, and what it returned: <<"line",      *)
(* number, length>> or <<"too_large", number>>.                            *)

ReaderStart == [pos |-> 0, record |-> 0, line |-> 1, done |-> FALSE, out |-> <<>>]

\* Mutant: the limit is tested on the buffer alone.
Bug_LimitPerBuffer(reader, stream, buf) ==
    LET nls  == {k \in 1..buf : stream[reader.pos + k] = "nl"}
        take == IF nls = {} THEN buf ELSE Min(nls) - 1
    IN  IF take > RecordLimit
        THEN [reader EXCEPT !.done = TRUE, !.out = Append(@, <<"too_large", reader.line>>)]
        ELSE IF nls = {}
        THEN [reader EXCEPT !.pos = @ + take, !.record = @ + take]
        ELSE [reader EXCEPT !.pos = @ + take + 1, !.record = 0, !.line = @ + 1,
                            !.out = Append(@, <<"line", reader.line, reader.record + take>>)]

\* One turn of the loop with a buffer of buf > 0 bytes: up to the newline, or
\* all of it.
ReadBuffer(reader, stream, buf) ==
    LET nls  == {k \in 1..buf : stream[reader.pos + k] = "nl"}
        take == IF nls = {} THEN buf ELSE Min(nls) - 1
    IN  IF reader.record + take > RecordLimit
        THEN [reader EXCEPT !.done = TRUE, !.out = Append(@, <<"too_large", reader.line>>)]
        ELSE IF nls = {}
        THEN [reader EXCEPT !.pos = @ + take, !.record = @ + take]
        ELSE [reader EXCEPT !.pos = @ + take + 1, !.record = 0, !.line = @ + 1,
                            !.out = Append(@, <<"line", reader.line, reader.record + take>>)]

\* The empty buffer: end of input, with or without a last newline.
ReadEof(reader) ==
    [reader EXCEPT !.done = TRUE, !.record = 0,
                   !.out = IF reader.record = 0 THEN @
                           ELSE Append(@, <<"line", reader.line, reader.record>>)]

----------------------------------------------------------------------------
(* parse_record and import_jsonl_reader.                                   *)

ParseRecord(line, strict) ==
    IF line.form = "span" THEN "span"
    ELSE IF line.form # "bad_span" THEN "wrapper"
    ELSE IF strict THEN "strict" ELSE "skip"

\* What one line contributes: "skip", "span", or the error it ends with.
LineResult(line, strict) ==
    IF line.size > RecordLimit THEN "too_large"
    ELSE IF line.form = "blank" THEN "skip"
    ELSE IF line.form = "not_json" THEN "not_json"
    ELSE ParseRecord(line, strict)

\* The spans before the first line that fails; lines are pulled one by one,
\* so an earlier strict violation of the conversion wins over it.
ReadSpans(lines, strict) ==
    LET failing == {j \in DOMAIN lines : LineResult(lines[j], strict) \notin {"skip", "span"}}
        SpansIn(ks) == AtIndices([j \in DOMAIN lines |-> lines[j].span],
                                 {j \in ks : LineResult(lines[j], strict) = "span"})
    IN  IF failing = {} THEN [spans |-> SpansIn(DOMAIN lines), error |-> "none"]
        ELSE [spans |-> SpansIn(1..Min(failing) - 1),
              error |-> LineResult(lines[Min(failing)], strict)]

\* One per span that does not deserialize, up to the cap on warnings.
ParseWarnings(lines) ==
    LET bad == {j \in DOMAIN lines : lines[j].form = "bad_span"}
    IN  {[source |-> k, what |-> "bad_span"] :
            k \in {j \in bad : Cardinality({i \in bad : i <= j}) <= MaxWarnings}}

WithParseWarnings(imported, warnings) ==
    IF imported.error # "none" THEN imported
    ELSE [imported EXCEPT !.lifecycle = @ \cup warnings, !.warnings = @ + Cardinality(warnings)]

ImportRead(read, warnings, strict) ==
    IF strict /\ HasViolation(read.spans) THEN Failed("strict")
    ELSE IF read.error # "none" THEN Failed(read.error)
    ELSE WithParseWarnings(RunFromSpanRecords(read.spans, strict), warnings)

ImportJsonl(lines, strict) == ImportRead(ReadSpans(lines, strict), ParseWarnings(lines), strict)

----------------------------------------------------------------------------
(* write_completed_span_jsonl_to_owned_temp: one record per line, refused  *)
(* when a record outgrows the limit; the newline does not count.           *)

\* The bytes of a record: only a "long" name takes it over the limit.
SpanBytes(span) == IF span.name = "long" THEN RecordLimit + 1 ELSE 1

WriteJsonl(sources) ==
    IF \E k \in DOMAIN sources : SpanBytes(sources[k]) > RecordLimit THEN Failed("too_large")
    ELSE [error |-> "none",
          lines |-> [k \in DOMAIN sources |->
              [form |-> "span", size |-> SpanBytes(sources[k]), span |-> sources[k]]]]
=============================================================================

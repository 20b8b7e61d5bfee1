-------------------------- MODULE MCTracingSession --------------------------
EXTENDS TracingSession

Fields(kind, id, name) == [kind |-> kind, id |-> id, name |-> name, opt |-> "absent"]
NoFields == Fields("missing", "absent", "absent")
Nothing == [f \in {} |-> "absent"]

MCSpans == {"req1", "stage1", "req2", "req3", "stage", "queue", "other", "odd",
            "late", "plain"}

Always(fields) == [fields |-> fields, later |-> Nothing, declared |-> TRUE]

\* A request with a nested stage and an orphan beside them, read at different
\* times; spans that compete
\* for two places; a declared span whose kind is never a known one; one whose
\* id comes late; and one that is no candidate.
MCPlan ==
    [sp \in MCSpans |->
        CASE sp = "req1"   -> Always(Fields("request", "r1", "n"))
          [] sp = "stage1" -> [Always(Fields("stage", "r1", "n")) EXCEPT !.later = [name |-> "long"]]
          [] sp = "req2"   -> Always(Fields("request", "r2", "n"))
          [] sp = "req3"   -> Always(Fields("request", "r3", "n"))
          [] sp = "stage"  -> Always(Fields("stage", "r2", "n"))
          [] sp = "queue"  -> Always(Fields("queue", "r3", "n"))
          [] sp = "other"  -> Always(Fields("queue", "r9", "n"))
          [] sp = "odd"    -> [Always(NoFields) EXCEPT !.later = [kind |-> "unknown"]]
          [] sp = "late"   -> [fields |-> Fields("request", "absent", "n"), later |-> [id |-> "r4"],
                               declared |-> FALSE]
          [] sp = "plain"  -> [fields |-> NoFields, later |-> [kind |-> "malformed"],
                               declared |-> FALSE]]

MCNested == [sp \in {"stage1"} |-> "req1"]

Session(spans, strict, interval, manual_on, jsonl, json) ==
    [spans |-> spans, strict |-> strict, interval |-> interval, manual |-> manual_on,
     jsonl |-> jsonl, json |-> json, service |-> "ok", in_runtime |-> TRUE, mode |-> "light"]

Sampled == Session({"req1", "stage1"}, FALSE, 1, FALSE, TRUE, TRUE)

MCConfigs ==
    {Sampled,
     Session({"req1", "stage1", "other"}, TRUE, NoValue, TRUE, FALSE, TRUE),
     Session({"req2", "req3", "stage", "queue"}, FALSE, NoValue, FALSE, TRUE, FALSE),
     Session({"odd", "late", "plain"}, FALSE, NoValue, TRUE, TRUE, TRUE),
     Session({"odd", "late", "plain"}, TRUE, NoValue, FALSE, TRUE, TRUE),
     [Sampled EXCEPT !.service = "blank"], [Sampled EXCEPT !.interval = 0],
     [Sampled EXCEPT !.in_runtime = FALSE]}

MCSteps == [sp \in MCSpans |-> CASE sp = "req1" -> {0, 1} [] sp = "stage1" -> {1, 4}
                              [] sp = "other" -> {4} [] OTHER -> {0}]
MCWall == [sp \in MCSpans |-> IF sp \in {"req1", "late"} THEN {1, 2} ELSE {1}]
MCLimits == [requests |-> 2, stages |-> 1, queues |-> 1]
MCCadence == [mode \in {"light"} |-> 1]
MCRetention == [mode \in {"light"} |-> 3]
=============================================================================

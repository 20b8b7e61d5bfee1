--------------------------- MODULE MCArtifactFile ---------------------------
EXTENDS ArtifactFile

MCWriters == {"run1", "run2", "spans1", "spans2", "mem"}
MCKind == [w \in MCWriters |-> CASE w \in {"run1", "run2"} -> "json"
                                 [] w \in {"spans1", "spans2"} -> "jsonl"
                                 [] OTHER -> "memory"]

\* Two sinks on one target that chose one name, and two JSONL writers on
\* another whose candidate names are the same.
MCTarget == [w \in MCWriters |-> IF MCKind[w] = "json" THEN "run.json" ELSE "spans.jsonl"]
MCNames == [w \in MCWriters |-> IF MCKind[w] = "json" THEN <<"a">> ELSE <<"c", "d">>]
=============================================================================

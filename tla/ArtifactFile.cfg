\* Two Run JSON sinks with one name and two span JSONL writers with the same
\* candidates.
CONSTANTS
  Writers <- MCWriters
  Kind <- MCKind
  Target <- MCTarget
  Names <- MCNames
  MaxReads = 1
SPECIFICATION Spec
INVARIANTS TargetWhole ResultsTrue
CHECK_DEADLOCK FALSE

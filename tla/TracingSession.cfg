\* Sessions over one to four spans with two kept candidates, two open ones,
\* and two runtime samples.
CONSTANTS
  Tolerance = 1
  BlankGauges = {}
  Limits <- MCLimits
  MaxWarnings = 4
  UsPerMs = 2
  RecordLimit = 1
  RuntimeCap = 2
  ModeCadence <- MCCadence
  ModeRetention <- MCRetention
  Spans <- MCSpans
  Plan <- MCPlan
  Nested <- MCNested
  Configs <- MCConfigs
  MaxOpen = 2
  MaxCompleted = 2
  TicksPerUs = 2
  Steps <- MCSteps
  MaxInstant = 10
  WallReadings <- MCWall
  MaxManual = 1
SPECIFICATION Spec
INVARIANTS RetentionLedger StrictSnapshotComplete NestedEvidenceKept OutputsAgree SamplesMerged
PROPERTY ShutdownReturns
CHECK_DEADLOCK FALSE

\* Every family of small inputs for the pure operators.
CONSTANTS
  Tolerance = 2
  BlankGauges = {0}
  RateScale = 1000
  PatternMatches <- MCPatternMatches
  ModeDefaults <- MCModes
  Limits <- MCLimits
  MaxWarnings = 2
  UsPerMs = 2
  RecordLimit = 2
  Families = {"run", "import", "reader", "intervals", "gauge", "analysis", "options", "built", "template"}
  MaxRunRequests = 3
  MaxLines = 3
  MaxBadLines = 2
  MaxBytes = 8
  MaxIntervals = 4
  MaxGauge = 4
  MaxPushes = 4
  MaxSets = 2
  MaxSteps = 4
SPECIFICATION Spec
INVARIANTS ReportDecides LossesReported ImportLossless LinesExact MeasuresExact ConfidenceEarned SlicesPartition ConfigurationReplays BuiltAccepted
CHECK_DEADLOCK FALSE

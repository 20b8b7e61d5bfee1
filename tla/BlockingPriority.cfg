\* Twenty requests of an incident, analyzed with the default options.
CONSTANTS
  Tolerance = 2
  BlankGauges = {0}
  RateScale = 1000
  PatternMatches <- MCPatternMatches
  ModeDefaults <- MCModes
  Limits <- MCLimits
  MaxWarnings = 2
  UsPerMs = 2
  RecordLimit = 2
  Families = {"incident"}
  MaxRunRequests = 2
  MaxLines = 3
  MaxBadLines = 2
  MaxBytes = 6
  MaxIntervals = 3
  MaxGauge = 4
  MaxPushes = 3
  MaxSteps = 0
  MaxSets = 2
SPECIFICATION Spec
INVARIANT BlockingPrioritized
CHECK_DEADLOCK FALSE

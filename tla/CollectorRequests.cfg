\* Admission, completion, timers and two shutdown callers, with repeated ids,
\* a clock that is set back, a sink that may panic, and the sampler and
\* end-reason hooks.
CONSTANTS
  a = a
  b = b
  c1 = c1
  c2 = c2
  c3 = c3
  Tolerance = 2
  BlankGauges = {}
  Requests = {1, 2}
  RequestId <- MCRequestIdShared
  Timers = {1}
  TimerOwner <- MCTimerOwner
  TimerSection <- MCTimerSection
  Guards = {}
  GuardOwner <- MCGuardOwner
  GuardGauge <- MCGuardGauge
  Callers = {c1, c2}
  Limits <- MCLimits2
  SampleLimit = 1
  Strict = FALSE
  Outcomes = {"ok"}
  Hooks = {"sampler", "end_reason"}
  MaxRuntime = 0
  ClockStepsBack = TRUE
  SinkMayPanic = TRUE
SPECIFICATION Spec
SYMMETRY Sym
INVARIANTS TypeOK Conservation FrozenAfterSeal OneTerminalResult ArtifactEvidenceValid SoundEvidencePersisted
PROPERTY ImplementsCapture

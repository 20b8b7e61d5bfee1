\* The user's RunSink may panic.
CONSTANTS
  a = a
  b = b
  c1 = c1
  c2 = c2
  c3 = c3
  Tolerance = 2
  BlankGauges = {}
  Requests = {1, 2}
  RequestId <- MCRequestIdDistinct
  Timers = {}
  TimerOwner <- MCTimerOwner
  TimerSection <- MCTimerSection
  Guards = {}
  GuardOwner <- MCGuardOwner
  GuardGauge <- MCGuardGauge
  Callers = {c1, c2}
  Limits <- MCLimits1
  SampleLimit = 1
  Strict = TRUE
  Outcomes = {"ok", "error"}
  Hooks = {"listener"}
  MaxRuntime = 0
  ClockStepsBack = FALSE
  SinkMayPanic = TRUE
SPECIFICATION FairSpec
PROPERTY ShutdownReturns

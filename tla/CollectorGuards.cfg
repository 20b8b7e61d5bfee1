\* In-flight guards on two gauges with one slot, a runtime snapshot, the
\* limits-hit listener, a refused request and two threads that race to shut
\* the strict run down.
CONSTANTS
  a = a
  b = b
  c1 = c1
  c2 = c2
  c3 = c3
  Tolerance = 2
  BlankGauges = {b}
  Requests = {1, 2}
  RequestId <- MCRequestIdDistinct
  Timers = {}
  TimerOwner <- MCTimerOwner
  TimerSection <- MCTimerSection
  Guards = {1, 2, 3}
  GuardOwner <- MCGuardOwner
  GuardGauge <- MCGuardGaugeShared
  Callers = {c1, c2}
  Limits <- MCLimits1
  SampleLimit = 1
  Strict = TRUE
  Outcomes = {"ok", "cancelled"}
  Hooks = {"listener"}
  MaxRuntime = 1
  ClockStepsBack = FALSE
  SinkMayPanic = FALSE
SPECIFICATION FairSpec
INVARIANTS GaugesMatchGuards CapacityReserved TruncationHonest StrictArtifactComplete
PROPERTIES ShutdownReturns ListenerTold

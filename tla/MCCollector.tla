---------------------------- MODULE MCCollector ----------------------------
(* Small instances of Collector for TLC. *)
EXTENDS Collector, TLC

CONSTANTS a, b, c1, c2, c3

MCRequestIdDistinct == [r \in Requests |-> r]
MCRequestIdShared == [r \in Requests |-> 1]
MCTimerOwner == [t \in Timers |-> 1]
MCTimerSection == [t \in Timers |-> IF t = 1 THEN "stages" ELSE "queues"]
MCGuardOwner == [g \in Guards |-> 1]
MCGuardGauge == [g \in Guards |-> IF g = 1 THEN a ELSE b]
MCGuardGaugeShared == [g \in Guards |-> IF g < 3 THEN a ELSE b]
MCLimits1 == [x \in Sections |-> 1]
MCLimits2 == [x \in Sections |-> 2]
\* Callers of shutdown() are interchangeable.
Sym == Permutations(Callers)

============================================================================

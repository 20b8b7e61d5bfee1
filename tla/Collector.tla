----------------------------- MODULE Collector -----------------------------
(***************************************************************************)
(* One capture run of tailtriage-core: admission, completion tokens, child *)
(* timers, in-flight guards, bounded retention, the limits-hit listener    *)
(* and single-shot shutdown (collector.rs, retention.rs, timers.rs).       *)
(*                                                                         *)
(* The program guards CollectorState with one mutex.  An action is one     *)
(* critical section, together with the thread-local code before it that    *)
(* no other thread can see.  The end of an interval is read, and the       *)
(* limits-hit callback is made, outside the mutex: both are actions of     *)
(* their own, since the run may be sealed in between.  The start of an     *)
(* interval is read with the admission it precedes.                        *)
(***************************************************************************)
EXTENDS Normalization

CONSTANTS
    Requests,        \* pending keys, drawn from PENDING_SEQUENCE
    RequestId,       \* [Requests -> request_id]: callers may repeat an id
    Timers,          \* stage and queue helper futures
    TimerOwner,      \* [Timers -> Requests]: the handle a timer was made from
    TimerSection,    \* [Timers -> {"stages", "queues"}]
    Guards,          \* in-flight guards
    GuardOwner,      \* [Guards -> Requests]
    GuardGauge,      \* [Guards -> gauge name]
    Callers,         \* threads that call shutdown()
    Limits,          \* CaptureLimits: [Sections -> Nat]
    SampleLimit,     \* how many unfinished requests are sampled (5)
    Strict,          \* strict_lifecycle
    Outcomes,        \* the outcomes callers finish with; Drop is "cancelled"
    Hooks,           \* integration hooks in use: "sampler", "end_reason", "listener"
    MaxRuntime,      \* bound: calls of record_runtime_snapshot
    ClockStepsBack,  \* whether the wall clock may be set back during a run
    SinkMayPanic     \* whether the user's RunSink may panic

Sections == {"requests", "stages", "queues", "inflight", "runtime"}
EndReasons == {"ManualDisarm", "AutoSealOnLimitsHit", "Shutdown"}
None == "none"

Gauges == {GuardGauge[g] : g \in Guards}

ASSUME CollectorAssumption ==
    /\ Requests \subseteq Nat
    /\ IsFiniteSet(Requests)
    /\ TimerOwner \in [Timers -> Requests]
    /\ TimerSection \in [Timers -> {"stages", "queues"}]
    /\ GuardOwner \in [Guards -> Requests]
    /\ IsFiniteSet(Guards)
    /\ Limits \in [Sections -> Nat]
    /\ SampleLimit \in Nat
    /\ Outcomes \subseteq {"ok", "error", "cancelled"}
    /\ MaxRuntime \in Nat
    /\ {Strict, ClockStepsBack, SinkMayPanic} \subseteq BOOLEAN

VARIABLES
    run,              \* CollectorState.run: the evidence and its metadata
    pending,          \* CollectorState.pending_requests (its keys)
    inflight_counts,  \* CollectorState.inflight_counts: [live gauges -> count]
    registered,       \* CollectorState.runtime_sampler_registered
    phase,            \* "Open", "Finalizing", or Closed: "Success" / "Failure"
    latch,            \* TruncationState.limits_hit, set by compare-exchange
    listener,         \* is a limits-hit listener installed?
    notifying,        \* threads that won the latch and have not yet called it
    fired,            \* how often the listener was called
    now,              \* the run clock: a reading never repeats
    token,            \* per request: the completion token and its interval
    timer,            \* per timer: the helper future and its interval
    guard,            \* per guard: "new", "enabled", "inert", "dropped"
    caller,           \* per shutdown caller: where it is, or what it returned
    candidate,        \* the clone of run that shutdown hands to the sink
    writes,           \* how often sink.write was called
    persisted         \* did sink.write persist the artifact?

state == <<run, pending, inflight_counts, registered, phase, latch>>
notice == <<listener, notifying, fired>>
objects == <<token, timer, guard>>
closing == <<caller, candidate, writes, persisted>>
vars == <<state, notice, now, objects, closing>>

----------------------------------------------------------------------------
(* Initial state: Tailtriage::from_config.                                 *)

EmptyRun ==
    [requests |-> <<>>, stages |-> <<>>, queues |-> <<>>, inflight |-> <<>>,
     runtime |-> <<>>, dropped |-> [x \in Sections |-> 0], limits_hit |-> FALSE,
     sampler |-> FALSE, end_reason |-> None, finalized |-> None,
     unfinished |-> 0, sample |-> {}]

Init ==
    /\ run = EmptyRun
    /\ pending = {}
    /\ inflight_counts = [g \in {} |-> 0]
    /\ registered = FALSE
    /\ phase = "Open"
    /\ latch = FALSE
    /\ listener = FALSE
    /\ notifying = 0
    /\ fired = 0
    /\ now = 0
    /\ token = [r \in Requests |->
                   [st |-> "unstarted", s |-> 0, e |-> 0, shape |-> "ok", outcome |-> None]]
    /\ timer = [t \in Timers |->
                   [st |-> "new", s |-> 0, e |-> 0, shape |-> "ok", completed |-> FALSE]]
    /\ guard = [g \in Guards |-> "new"]
    /\ caller = [c \in Callers |-> "idle"]
    /\ candidate = EmptyRun
    /\ writes = 0
    /\ persisted = FALSE

----------------------------------------------------------------------------
(* Bounded retention and the limits-hit latch.                             *)

Started(r) == token[r].st # "unstarted"
Admitted(r) == token[r].st \in {"armed", "finishing", "consumed"}

\* push_*_bounded: append below the section's cap, else count the drop.
PushBounded(rn, section, event) ==
    IF Len(rn[section]) < Limits[section]
    THEN [rn EXCEPT ![section] = Append(@, event)]
    ELSE [rn EXCEPT !.limits_hit = TRUE, !.dropped[section] = @ + 1]

Overflows(rn, section) == ~(Len(rn[section]) < Limits[section])

\* Mutant: every overflow calls the listener, not just the first.
Bug_NotifyEveryTime(hit) ==
    /\ latch' = (latch \/ hit)
    /\ notifying' = notifying + (IF hit THEN 1 ELSE 0)
    /\ UNCHANGED <<listener, fired>>

\* The compare-exchange of mark_limits_hit: the one winner owes the callback.
MarkLimitsHit(hit) ==
    /\ latch' = (latch \/ hit)
    /\ notifying' = notifying + (IF hit /\ ~latch THEN 1 ELSE 0)
    /\ UNCHANGED <<listener, fired>>

\* A clock reading.  The wall clock read with it may have been set back.
Tick == now' = now + 1
Shapes == IF ClockStepsBack THEN {"ok", "inverted"} ELSE {"ok"}

----------------------------------------------------------------------------
(* Requests.                                                               *)

\* Mutant: a pending request does not reserve its place.
Bug_RoomIgnoresPending == Len(run.requests) < Limits["requests"]

HasRoom == Len(run.requests) + Cardinality(pending) < Limits["requests"]

\* start_request: the interval starts, then admission is decided under the
\* lock.  A request refused for capacity is counted; one that comes after
\* finalization began is not.
BeginRequest(r) ==
    /\ ~Started(r)
    /\ Tick
    /\ LET refused == phase = "Open" /\ ~HasRoom
       IN  /\ token' = [token EXCEPT ![r].s = now,
                            ![r].st = IF phase = "Open" /\ HasRoom THEN "armed" ELSE "inert"]
           /\ pending' = IF phase = "Open" /\ HasRoom THEN pending \cup {r} ELSE pending
           /\ run' = IF refused
                     THEN [run EXCEPT !.dropped["requests"] = @ + 1, !.limits_hit = TRUE]
                     ELSE run
           /\ MarkLimitsHit(refused)
    /\ UNCHANGED <<inflight_counts, registered, phase, timer, guard, closing>>

\* finish(outcome), or the token's Drop with "cancelled": take() disarms the
\* token and finish_interval reads the clock, both before the lock.
FinishToken(r, outcome) ==
    /\ token[r].st = "armed"
    /\ Tick
    /\ \E sh \in Shapes :
           token' = [token EXCEPT ![r].st = "finishing", ![r].e = now,
                                  ![r].shape = sh, ![r].outcome = outcome]
    /\ UNCHANGED <<state, notice, timer, guard, closing>>

\* Mutant: the event is built before the outcome is known.
Bug_EventWithoutOutcome(r) ==
    [key |-> r, id |-> RequestId[r], outcome |-> None, shape |-> token[r].shape,
     s |-> token[r].s, e |-> token[r].e, dur |-> token[r].e - token[r].s]

RequestEvent(r) ==
    [key |-> r, id |-> RequestId[r], outcome |-> token[r].outcome,
     shape |-> token[r].shape, s |-> token[r].s, e |-> token[r].e,
     dur |-> token[r].e - token[r].s]

\* Mutant: the completion looks its request up without removing it.
Bug_ResolveKeepsPending(r) ==
    /\ token[r].st = "finishing"
    /\ token' = [token EXCEPT ![r].st = "consumed"]
    /\ IF phase = "Open" /\ r \in pending
       THEN /\ run' = PushBounded(run, "requests", RequestEvent(r))
            /\ MarkLimitsHit(Overflows(run, "requests"))
       ELSE UNCHANGED <<run, latch, notice>>
    /\ UNCHANGED <<pending, inflight_counts, registered, phase, now, timer, guard, closing>>

\* resolve_request's critical section.
ResolveRequest(r) ==
    /\ token[r].st = "finishing"
    /\ token' = [token EXCEPT ![r].st = "consumed"]
    /\ IF phase = "Open" /\ r \in pending
       THEN /\ pending' = pending \ {r}
            /\ run' = PushBounded(run, "requests", RequestEvent(r))
            /\ MarkLimitsHit(Overflows(run, "requests"))
       ELSE UNCHANGED <<run, pending, latch, notice>>
    /\ UNCHANGED <<inflight_counts, registered, phase, now, timer, guard, closing>>

----------------------------------------------------------------------------
(* Stage and queue helper futures (StageTimer, QueueTimer).                *)

\* First poll: a refused handle's timer never arms.
PollTimer(t) ==
    /\ timer[t].st = "new"
    /\ Started(TimerOwner[t])
    /\ Tick
    /\ timer' = [timer EXCEPT ![t].s = now,
                     ![t].st = IF Admitted(TimerOwner[t]) THEN "armed" ELSE "inert"]
    /\ UNCHANGED <<state, notice, token, guard, closing>>

\* The future became ready (completed) or was dropped after its first poll
\* (a partial event): either way disarm() and finish_interval, no lock yet.
EndTimer(t, completed) ==
    /\ timer[t].st = "armed"
    /\ Tick
    /\ \E sh \in Shapes :
           timer' = [timer EXCEPT ![t].st = "ending", ![t].e = now,
                                  ![t].shape = sh, ![t].completed = completed]
    /\ UNCHANGED <<state, notice, token, guard, closing>>

ChildEvent(t) ==
    [timer |-> t, id |-> RequestId[TimerOwner[t]], completed |-> timer[t].completed,
     shape |-> timer[t].shape, s |-> timer[t].s, e |-> timer[t].e,
     dur |-> timer[t].e - timer[t].s]

\* Mutant: a child event is pushed whatever the phase.
Bug_RecordAfterSeal(t) ==
    /\ timer[t].st = "ending"
    /\ timer' = [timer EXCEPT ![t].st = "recorded"]
    /\ run' = PushBounded(run, TimerSection[t], ChildEvent(t))
    /\ MarkLimitsHit(Overflows(run, TimerSection[t]))
    /\ UNCHANGED <<pending, inflight_counts, registered, phase, now, token, guard, closing>>

\* record_stage_event / record_queue_event.
RecordChild(t) ==
    /\ timer[t].st = "ending"
    /\ timer' = [timer EXCEPT ![t].st = "recorded"]
    /\ LET section == TimerSection[t]
       IN  IF phase = "Open"
           THEN /\ run' = PushBounded(run, section, ChildEvent(t))
                /\ MarkLimitsHit(Overflows(run, section))
           ELSE UNCHANGED <<run, latch, notice>>
    /\ UNCHANGED <<pending, inflight_counts, registered, phase, now, token, guard, closing>>

----------------------------------------------------------------------------
(* In-flight guards.                                                       *)

GaugeCount(g) == IF g \in DOMAIN inflight_counts THEN inflight_counts[g] ELSE 0

SetGauge(g, n) ==
    [h \in DOMAIN inflight_counts \cup {g} |-> IF h = g THEN n ELSE inflight_counts[h]]

\* Mutant: a gauge back at zero keeps its slot.
Bug_KeepZeroGauge(g) == SetGauge(g, 0)

RemoveGauge(g) == [h \in DOMAIN inflight_counts \ {g} |-> inflight_counts[h]]

\* inflight(): a refused handle, a run that is no longer open and a new
\* gauge without a free slot all give an inert guard; the last is counted.
CreateGuard(k) ==
    LET g == GuardGauge[k]
        noSlot == /\ g \notin DOMAIN inflight_counts
                  /\ Cardinality(DOMAIN inflight_counts) >= Limits["inflight"]
        live == Admitted(GuardOwner[k]) /\ phase = "Open"
    IN  /\ guard[k] = "new"
        /\ Started(GuardOwner[k])
        /\ guard' = [guard EXCEPT ![k] = IF live /\ ~noSlot THEN "enabled" ELSE "inert"]
        /\ \/ /\ ~live
              /\ UNCHANGED <<run, inflight_counts, latch, notice>>
           \/ /\ live /\ noSlot
              /\ run' = [run EXCEPT !.dropped["inflight"] = @ + 1, !.limits_hit = TRUE]
              /\ MarkLimitsHit(TRUE)
              /\ UNCHANGED inflight_counts
           \/ /\ live /\ ~noSlot
              /\ inflight_counts' = SetGauge(g, GaugeCount(g) + 1)
              /\ run' = PushBounded(run, "inflight",
                                    [gauge |-> g, count |-> GaugeCount(g) + 1])
              /\ MarkLimitsHit(Overflows(run, "inflight"))
        /\ UNCHANGED <<pending, registered, phase, now, token, timer, closing>>

\* Drop for InflightGuard: a gauge that returns to zero gives up its slot.
DropGuard(k) ==
    LET g == GuardGauge[k]
        n == GaugeCount(g) - 1
    IN  /\ guard[k] = "enabled"
        /\ guard' = [guard EXCEPT ![k] = "dropped"]
        /\ IF phase = "Open" /\ GaugeCount(g) > 0
           THEN /\ inflight_counts' = IF n = 0 THEN RemoveGauge(g) ELSE SetGauge(g, n)
                /\ run' = PushBounded(run, "inflight", [gauge |-> g, count |-> n])
                /\ MarkLimitsHit(Overflows(run, "inflight"))
           ELSE UNCHANGED <<run, inflight_counts, latch, notice>>
        /\ UNCHANGED <<pending, registered, phase, now, token, timer, closing>>

----------------------------------------------------------------------------
(* Integration hooks: runtime snapshots, the sampler, the end reason, the  *)
(* limits-hit listener.                                                    *)

RecordRuntimeSnapshot(snapshot) ==
    /\ Len(run.runtime) + run.dropped["runtime"] < MaxRuntime
    /\ phase = "Open"
    /\ run' = PushBounded(run, "runtime", snapshot)
    /\ MarkLimitsHit(Overflows(run, "runtime"))
    /\ UNCHANGED <<pending, inflight_counts, registered, phase, now, objects, closing>>

\* register_tokio_runtime_sampler: a second registration is refused, one
\* after finalization began is accepted and has no effect.
RegisterSampler ==
    /\ phase = "Open" /\ ~registered
    /\ registered' = TRUE
    /\ run' = [run EXCEPT !.sampler = TRUE]
    /\ UNCHANGED <<pending, inflight_counts, phase, latch, notice, now, objects, closing>>

SetRunEndReasonIfAbsent(reason) ==
    /\ phase = "Open" /\ run.end_reason = None
    /\ run' = [run EXCEPT !.end_reason = reason]
    /\ UNCHANGED <<pending, inflight_counts, registered, phase, latch, notice, now,
                   objects, closing>>

SetLimitsHitListener(on) ==
    /\ listener # on
    /\ listener' = on
    /\ UNCHANGED <<state, notifying, fired, now, objects, closing>>

\* Mutant: the callback is skipped when the run was sealed meanwhile.
Bug_NotifyOnlyWhileOpen ==
    /\ notifying > 0
    /\ notifying' = notifying - 1
    /\ fired' = fired + (IF listener /\ phase = "Open" THEN 1 ELSE 0)
    /\ UNCHANGED <<state, listener, now, objects, closing>>

\* notify_limits_hit_listener: outside the state lock, so anything may have
\* happened since the latch was won, finalization included.
NotifyLimitsHitListener ==
    /\ notifying > 0
    /\ notifying' = notifying - 1
    /\ fired' = fired + (IF listener THEN 1 ELSE 0)
    /\ UNCHANGED <<state, listener, now, objects, closing>>

----------------------------------------------------------------------------
(* shutdown().                                                             *)

Returned == {"Ok", "SinkError", "UnfinishedRequests"}

\* The first SampleLimit pending keys in key order.
PendingSamples ==
    {r \in pending : Cardinality({q \in pending : q < r}) < SampleLimit}

\* Mutant: the run stays open while the artifact is written.
Bug_SealWithoutPhase(c) ==
    /\ run' = [run EXCEPT !.finalized = "ok",
                          !.unfinished = Cardinality(pending),
                          !.sample = PendingSamples]
    /\ candidate' = run'
    /\ pending' = {}
    /\ caller' = [caller EXCEPT ![c] = "writing"]
    /\ UNCHANGED <<phase, inflight_counts, registered, latch, writes, persisted>>

\* Finalization wins: everything from clearing pending_requests to entering
\* Finalizing happens in one critical section.  finalized_at_unix_ms is a
\* wall-clock reading: it may lie before the start of the run.
SealRun(c) ==
    /\ \E sh \in Shapes :
           run' = [run EXCEPT !.finalized = sh,
                              !.end_reason = IF @ = None THEN "Shutdown" ELSE @,
                              !.unfinished = Cardinality(pending),
                              !.sample = PendingSamples]
    /\ candidate' = run'
    /\ pending' = {}
    /\ phase' = "Finalizing"
    /\ caller' = [caller EXCEPT ![c] = "writing"]
    /\ UNCHANGED <<inflight_counts, registered, latch, writes, persisted>>

\* shutdown() returns without touching the run, or waits on the condition
\* variable while another caller finalizes.
LeaveShutdown(c, result) ==
    /\ caller' = [caller EXCEPT ![c] = result]
    /\ UNCHANGED <<state, candidate, writes, persisted>>

\* Mutant: strict_lifecycle is not looked at.
Bug_NeverRefused == FALSE

\* strict_lifecycle refuses to finalize while requests are pending.
UnfinishedRefused == Strict /\ pending # {}

\* The critical section at the top of shutdown(), entered by the call and
\* again after every wakeup.
Shutdown(c) ==
    /\ caller[c] \in {"idle", "woken"} \cup Returned
    /\ \/ phase = "Open" /\ ~UnfinishedRefused /\ SealRun(c)
       \/ phase = "Open" /\ UnfinishedRefused /\ LeaveShutdown(c, "UnfinishedRequests")
       \/ phase = "Finalizing" /\ LeaveShutdown(c, "waiting")
       \/ phase = "Success" /\ LeaveShutdown(c, "Ok")
       \/ phase = "Failure" /\ LeaveShutdown(c, "SinkError")
    /\ UNCHANGED <<notice, now, objects>>

SpuriousWakeup(c) ==
    /\ caller[c] = "waiting"
    /\ caller' = [caller EXCEPT ![c] = "woken"]
    /\ UNCHANGED <<state, notice, now, objects, candidate, writes, persisted>>

\* normalize_for_lifecycle: what the sink persists.
Artifact == NormalizeRun(candidate)

\* sink.write of the artifact, with no lock held.
WriteArtifact(c) ==
    /\ caller[c] = "writing"
    /\ writes' = writes + 1
    /\ \/ /\ persisted' = TRUE
          /\ caller' = [caller EXCEPT ![c] = "persisted"]
       \/ /\ caller' = [caller EXCEPT ![c] = "write_failed"]
          /\ UNCHANGED persisted
       \/ /\ SinkMayPanic
          /\ caller' = [caller EXCEPT ![c] = "panicked"]
          /\ UNCHANGED persisted
    /\ UNCHANGED <<state, notice, now, objects, candidate>>

\* Mutants: notify_all is missing, or a waiter takes waking up for success.
Bug_NobodyNotified(f) == f
Bug_WokenMeansOk(f) == [c \in Callers |-> IF f[c] = "waiting" THEN "Ok" ELSE f[c]]

\* Publish the terminal result, notify_all, return.
NotifyAll(f) == [c \in Callers |-> IF f[c] = "waiting" THEN "woken" ELSE f[c]]

CloseRun(c) ==
    /\ caller[c] \in {"persisted", "write_failed"}
    /\ phase' = IF caller[c] = "persisted" THEN "Success" ELSE "Failure"
    /\ caller' = NotifyAll([caller EXCEPT ![c] =
                     IF caller[c] = "persisted" THEN "Ok" ELSE "SinkError"])
    /\ UNCHANGED <<run, pending, inflight_counts, registered, latch, notice, now,
                   objects, candidate, writes, persisted>>

----------------------------------------------------------------------------
RequestStep ==
    \E r \in Requests :
        \/ BeginRequest(r)
        \/ \E outcome \in Outcomes : FinishToken(r, outcome)
        \/ ResolveRequest(r)

TimerStep ==
    \E t \in Timers :
        \/ PollTimer(t)
        \/ \E completed \in BOOLEAN : EndTimer(t, completed)
        \/ RecordChild(t)

GuardStep == \E k \in Guards : CreateGuard(k) \/ DropGuard(k)

HookStep ==
    \/ \E snapshot \in {"ok", "zero_workers"} : RecordRuntimeSnapshot(snapshot)
    \/ "sampler" \in Hooks /\ RegisterSampler
    \/ "end_reason" \in Hooks /\ \E reason \in EndReasons : SetRunEndReasonIfAbsent(reason)
    \/ "listener" \in Hooks /\ \E on \in BOOLEAN : SetLimitsHitListener(on)
    \/ NotifyLimitsHitListener

ShutdownStep ==
    \E c \in Callers :
        Shutdown(c) \/ SpuriousWakeup(c) \/ WriteArtifact(c) \/ CloseRun(c)

Next == RequestStep \/ TimerStep \/ GuardStep \/ HookStep \/ ShutdownStep

Spec == Init /\ [][Next]_vars

\* A thread inside shutdown() or about to call the listener keeps running; a
\* woken waiter re-acquires a mutex nobody holds for ever.  Nothing makes a
\* caller finish a request, drive a timer or call shutdown.
Fairness ==
    /\ \A c \in Callers :
           /\ WF_vars(caller[c] = "woken" /\ Shutdown(c))
           /\ WF_vars(WriteArtifact(c))
           /\ WF_vars(CloseRun(c))
    /\ WF_vars(NotifyLimitsHitListener)

FairSpec == Spec /\ Fairness

----------------------------------------------------------------------------
(* Properties.                                                             *)

Ids == {RequestId[r] : r \in Requests}
ShapeType == {"ok", "inverted"}

RequestType == [key : Requests, id : Ids, outcome : Outcomes, shape : ShapeType,
                s : Nat, e : Nat, dur : Int]
ChildType == [timer : Timers, id : Ids, completed : BOOLEAN, shape : ShapeType,
              s : Nat, e : Nat, dur : Int]

RunType ==
    [requests : Seq(RequestType), stages : Seq(ChildType), queues : Seq(ChildType),
     inflight : Seq([gauge : Gauges, count : Nat]), runtime : Seq({"ok", "zero_workers"}),
     dropped : [Sections -> Nat], limits_hit : BOOLEAN, sampler : BOOLEAN,
     end_reason : EndReasons \cup {None}, finalized : ShapeType \cup {None},
     unfinished : Nat, sample : SUBSET Requests]

TokenType == [st : {"unstarted", "armed", "inert", "finishing", "consumed"},
              s : Nat, e : Nat, shape : ShapeType, outcome : Outcomes \cup {None}]
TimerType == [st : {"new", "armed", "inert", "ending", "recorded"},
              s : Nat, e : Nat, shape : ShapeType, completed : BOOLEAN]

\* The collector's state and the objects handed to callers keep their types.
TypeOK ==
    /\ run \in RunType
    /\ candidate \in RunType
    /\ pending \subseteq Requests
    /\ DOMAIN inflight_counts \subseteq Gauges
    /\ inflight_counts \in [DOMAIN inflight_counts -> Nat]
    /\ registered \in BOOLEAN
    /\ phase \in {"Open", "Finalizing", "Success", "Failure"}
    /\ latch \in BOOLEAN
    /\ listener \in BOOLEAN
    /\ notifying \in Nat
    /\ fired \in Nat
    /\ now \in Nat
    /\ token \in [Requests -> TokenType]
    /\ \A r \in Requests : token[r].st \in {"finishing", "consumed"} => token[r].outcome \in Outcomes
    /\ timer \in [Timers -> TimerType]
    /\ guard \in [Guards -> {"new", "enabled", "inert", "dropped"}]
    /\ caller \in [Callers -> {"idle", "waiting", "woken", "writing", "persisted",
                               "write_failed", "panicked"} \cup Returned]
    /\ writes \in Nat
    /\ persisted \in BOOLEAN

Completed == {run.requests[i].key : i \in DOMAIN run.requests}
AdmittedSet == {r \in Requests : Admitted(r)}

\* Every admitted request is accounted for exactly once: it is pending, or
\* it was recorded by its completion token (or the token's Drop), or it is
\* counted as unfinished by shutdown.  In particular a completion never
\* overflows the request section, because admission reserved its place.
Conservation ==
    /\ Cardinality(AdmittedSet) = Len(run.requests) + Cardinality(pending) + run.unfinished
    /\ \A i, j \in DOMAIN run.requests : run.requests[i].key = run.requests[j].key => i = j
    /\ Completed \cap pending = {}
    /\ Completed \cup pending \subseteq AdmittedSet

\* Finished and pending requests together never exceed max_requests, and
\* every other section stays within its own cap.
CapacityReserved ==
    /\ Len(run.requests) + Cardinality(pending) <= Limits["requests"]
    /\ \A x \in Sections : Len(run[x]) <= Limits[x]

\* Once shutdown() has sealed the run, no completion, Drop, timer, guard or
\* integration hook changes it: what snapshot() returns stays what the sink
\* was handed.
FrozenAfterSeal == phase # "Open" => run = candidate

\* The sink is written at most once, and every shutdown() that returned a
\* terminal result returned the result of that one write.
OneTerminalResult ==
    /\ writes <= 1
    /\ \A c \in Callers :
           /\ caller[c] = "Ok" => phase = "Success" /\ persisted
           /\ caller[c] = "SinkError" => phase = "Failure" /\ ~persisted

\* With strict_lifecycle an artifact is only written when every admitted
\* request was completed.
StrictArtifactComplete ==
    Strict /\ persisted => Completed = AdmittedSet /\ run.sample = {}

\* While the run is open a gauge's live count is the number of enabled
\* guards on it, and only gauges with a live guard occupy a slot.
GaugesMatchGuards ==
    /\ Cardinality(DOMAIN inflight_counts) <= Limits["inflight"]
    /\ phase = "Open" =>
           \A g \in Gauges :
               LET live == {k \in Guards : guard[k] = "enabled" /\ GuardGauge[k] = g}
               IN  GaugeCount(g) = Cardinality(live) /\ (g \in DOMAIN inflight_counts <=> live # {})

\* The artifact admits truncation exactly when something was dropped, and
\* the listener is called at most once, by the thread that won the latch.
TruncationHonest ==
    /\ run.limits_hit <=> \E x \in Sections : run.dropped[x] > 0
    /\ run.limits_hit <=> latch
    /\ fired + notifying <= (IF latch THEN 1 ELSE 0)

\* Whatever the interleaving, repeated request ids and wall-clock steps, the
\* evidence in the artifact passes strict validation.
ArtifactEvidenceValid == persisted => EvidenceValid(Artifact)

\* The artifact as a whole passes strict validation, metadata included.
ArtifactStrictValid == persisted => StrictValid(Artifact)

InArtifact(section, field, x) ==
    Cardinality({i \in DOMAIN Artifact[section] : Artifact[section][i][field] = x}) = 1

\* Normalization loses no sound evidence: a completed request with a sound
\* interval whose id no other such request carries is in the artifact once
\* (an invalid one with its id does not take it along), and so is each of
\* its timers that was recorded with a sound interval that ended before the
\* request did.
SoundEvidencePersisted ==
    persisted =>
        \A r \in Completed :
            /\ token[r].shape = "ok"
            /\ \A q \in Completed \ {r} : RequestId[q] = RequestId[r] => token[q].shape # "ok"
            =>
            /\ InArtifact("requests", "key", r)
            /\ \A t \in Timers :
                   LET section == TimerSection[t]
                   IN  /\ TimerOwner[t] = r
                       /\ \E i \in DOMAIN candidate[section] : candidate[section][i].timer = t
                       /\ timer[t].shape = "ok"
                       /\ timer[t].e < token[r].e
                       => InArtifact(section, "timer", t)

\* The collector as CaptureSpec sees it.  Requests are known by their
\* pending key; those pending when the run was sealed are the ones that were
\* admitted and never recorded.
Recorded == {<<run.requests[i].key, run.requests[i].outcome>> : i \in DOMAIN run.requests}
Unfinished == IF phase = "Open" THEN {} ELSE AdmittedSet \ Completed
Result == IF phase = "Success" THEN "Ok" ELSE IF phase = "Failure" THEN "SinkError" ELSE "none"
Seen == {caller[c] : c \in Callers} \cap {"Ok", "SinkError"}

Capture == INSTANCE CaptureSpec WITH
    MaxRequests <- Limits["requests"],
    admitted    <- AdmittedSet,
    completed   <- Recorded,
    sealed      <- phase # "Open",
    unfinished  <- Unfinished,
    result      <- Result,
    seen        <- Seen

\* Every step of the collector is a step of CaptureSpec or changes nothing
\* that CaptureSpec speaks of.
ImplementsCapture == Capture!Spec

\* A shutdown() call that has begun returns: the finalizing caller after its
\* one write, the others by waking up and replaying its result.
ShutdownReturns ==
    \A c \in Callers :
        caller[c] \in {"waiting", "woken", "writing", "persisted", "write_failed"}
            ~> caller[c] \in Returned

\* A listener that is installed when the first item is dropped, and stays
\* installed, is called, although the call comes after the lock is released.
ListenerTold == (notifying > 0 /\ []listener) ~> fired = 1
============================================================================

-------------------------- MODULE CollectorProofs --------------------------
(***************************************************************************)
(* Proofs about Collector, for any sets of requests, timers, guards and    *)
(* callers and any capture limits: bounded retention, the final record and *)
(* the refinement of CaptureSpec, then what the collector says of its own  *)
(* evidence: truncation is admitted exactly when something was dropped,    *)
(* and the in-flight gauges count the live guards.                         *)
(***************************************************************************)
EXTENDS Collector, NormalizationProofs

----------------------------------------------------------------------------
(* Bounded retention.                                                      *)

\* Counting a drop, as every refusal and overflow does, leaves a run.
LEMMA CountDropType ==
    ASSUME NEW rn \in RunType, NEW x \in Sections
    PROVE  [rn EXCEPT !.limits_hit = TRUE, !.dropped[x] = @ + 1] \in RunType
<1>1. [rn.dropped EXCEPT ![x] = @ + 1] \in [Sections -> Nat]
  BY DEF RunType
<1>2. ASSUME NEW d \in [Sections -> Nat]
      PROVE  [rn EXCEPT !.limits_hit = TRUE, !.dropped = d] \in RunType
  BY DEF RunType
<1>3. [rn EXCEPT !.limits_hit = TRUE, !.dropped[x] = @ + 1]
        = [rn EXCEPT !.limits_hit = TRUE, !.dropped = [rn.dropped EXCEPT ![x] = @ + 1]]
  BY DEF RunType
<1> QED BY <1>1, <1>2, <1>3, Zenon

\* push_*_bounded maps a run and an event of the section's type to a run.
LEMMA PushRequestType ==
    ASSUME NEW rn \in RunType, NEW ev \in RequestType
    PROVE  PushBounded(rn, "requests", ev) \in RunType
<1>1. Append(rn.requests, ev) \in Seq(RequestType)
  <2>1. rn.requests \in Seq(RequestType)  BY DEF RunType
  <2> QED BY <2>1
<1>2. ASSUME NEW v \in Seq(RequestType) PROVE [rn EXCEPT !["requests"] = v] \in RunType
  BY DEF RunType
<1>3. "requests" \in Sections  BY DEF Sections
<1> QED BY <1>1, <1>2, <1>3, CountDropType, Zenon DEF PushBounded

\* A child event pushed on stages or queues leaves a run of the right type.
LEMMA PushChildType ==
    ASSUME NEW rn \in RunType, NEW ev \in ChildType, NEW x \in {"stages", "queues"}
    PROVE  PushBounded(rn, x, ev) \in RunType
<1>1. CASE x = "stages"
  <2>1. Append(rn.stages, ev) \in Seq(ChildType)
    <3>1. rn.stages \in Seq(ChildType)  BY DEF RunType
    <3> QED BY <3>1
  <2>2. ASSUME NEW v \in Seq(ChildType) PROVE [rn EXCEPT !["stages"] = v] \in RunType
    BY DEF RunType
  <2>3. "stages" \in Sections  BY DEF Sections
  <2> QED BY <1>1, <2>1, <2>2, <2>3, CountDropType, Zenon DEF PushBounded
<1>2. CASE x = "queues"
  <2>1. Append(rn.queues, ev) \in Seq(ChildType)
    <3>1. rn.queues \in Seq(ChildType)  BY DEF RunType
    <3> QED BY <3>1
  <2>2. ASSUME NEW v \in Seq(ChildType) PROVE [rn EXCEPT !["queues"] = v] \in RunType
    BY DEF RunType
  <2>3. "queues" \in Sections  BY DEF Sections
  <2> QED BY <1>2, <2>1, <2>2, <2>3, CountDropType, Zenon DEF PushBounded
<1> QED BY <1>1, <1>2

\* A gauge sample pushed on the in-flight section leaves a run.
LEMMA PushInflightType ==
    ASSUME NEW rn \in RunType, NEW ev \in [gauge : Gauges, count : Nat]
    PROVE  PushBounded(rn, "inflight", ev) \in RunType
<1> DEFINE T == [gauge : Gauges, count : Nat]
<1>1. Append(rn.inflight, ev) \in Seq(T)
  <2>1. rn.inflight \in Seq(T)  BY DEF RunType
  <2> QED BY <2>1
<1>2. ASSUME NEW v \in Seq(T) PROVE [rn EXCEPT !["inflight"] = v] \in RunType
  BY DEF RunType
<1>3. "inflight" \in Sections  BY DEF Sections
<1> QED BY <1>1, <1>2, <1>3, CountDropType, Zenon DEF PushBounded

\* A runtime snapshot pushed on its section leaves a run.
LEMMA PushRuntimeType ==
    ASSUME NEW rn \in RunType, NEW ev \in {"ok", "zero_workers"}
    PROVE  PushBounded(rn, "runtime", ev) \in RunType
<1>1. Append(rn.runtime, ev) \in Seq({"ok", "zero_workers"})
  <2>1. rn.runtime \in Seq({"ok", "zero_workers"})  BY DEF RunType
  <2> QED BY <2>1
<1>2. ASSUME NEW v \in Seq({"ok", "zero_workers"})
      PROVE  [rn EXCEPT !["runtime"] = v] \in RunType
  BY DEF RunType
<1>3. "runtime" \in Sections  BY DEF Sections
<1> QED BY <1>1, <1>2, <1>3, CountDropType, Zenon DEF PushBounded

----------------------------------------------------------------------------
(* Type correctness.                                                       *)

LatchType == latch \in BOOLEAN /\ listener \in BOOLEAN /\ notifying \in Nat /\ fired \in Nat

\* The latch's compare-exchange keeps the latch, the listener and their counts
\* typed.
LEMMA MarkLimitsHitType ==
    ASSUME LatchType, NEW hit \in BOOLEAN, MarkLimitsHit(hit)
    PROVE  LatchType'
BY DEF LatchType, MarkLimitsHit

\* A run built by from_config is well typed.
LEMMA InitType == Init => TypeOK
<1> SUFFICES ASSUME Init PROVE TypeOK  OBVIOUS
<1>1. EmptyRun \in RunType
  <2>1. [x \in Sections |-> 0] \in [Sections -> Nat]  OBVIOUS
  <2>2. <<>> \in Seq(RequestType) /\ <<>> \in Seq(ChildType)
        /\ <<>> \in Seq([gauge : Gauges, count : Nat]) /\ <<>> \in Seq({"ok", "zero_workers"})
    OBVIOUS
  <2>3. None \in EndReasons \cup {None} /\ {} \in SUBSET Requests  OBVIOUS
  <2> QED BY <2>1, <2>2, <2>3 DEF EmptyRun, RunType
<1>2. DOMAIN inflight_counts = {}  BY DEF Init
<1> QED BY <1>1, <1>2 DEF Init, TypeOK, TokenType, TimerType, ShapeType, Returned

\* Admission, finish or Drop, and resolve_request keep the types.
LEMMA RequestStepType == TypeOK /\ RequestStep => TypeOK'
<1> SUFFICES ASSUME TypeOK, NEW r \in Requests,
                    \/ BeginRequest(r)
                    \/ \E outcome \in Outcomes : FinishToken(r, outcome)
                    \/ ResolveRequest(r)
             PROVE  TypeOK'
  BY DEF RequestStep
<1>0. LatchType  BY DEF TypeOK, LatchType
<1>1. CASE BeginRequest(r)
  <2>1. LatchType'  BY <1>0, <1>1, MarkLimitsHitType DEF BeginRequest, TypeOK
  <2>2. run' \in RunType
    <3>1. "requests" \in Sections  BY DEF Sections
    <3>2. [run EXCEPT !.limits_hit = TRUE, !.dropped["requests"] = @ + 1] \in RunType
      BY <3>1, CountDropType DEF TypeOK
    <3> QED BY <1>1, <3>2 DEF BeginRequest, TypeOK
  <2>3. pending' \subseteq Requests  BY <1>1 DEF BeginRequest, TypeOK
  <2>4. /\ token' \in [Requests -> TokenType]
        /\ \A q \in Requests : token'[q].st \in {"finishing", "consumed"} => token'[q].outcome \in Outcomes
    <3> DEFINE st == IF phase = "Open" /\ HasRoom
                     THEN "armed" ELSE "inert"
               tk == [token[r] EXCEPT !.s = now, !.st = st]
    <3>1. token' = [token EXCEPT ![r] = tk]  BY <1>1 DEF BeginRequest, TypeOK
    <3>2. tk \in TokenType /\ tk.st \in {"armed", "inert"}
      BY DEF TypeOK, TokenType
    <3> QED BY <3>1, <3>2 DEF TypeOK
  <2> QED BY <1>1, <2>1, <2>2, <2>3, <2>4 DEF BeginRequest, Tick, TypeOK, LatchType, closing
<1>2. ASSUME NEW outcome \in Outcomes, FinishToken(r, outcome) PROVE TypeOK'
  <2>1. /\ token' \in [Requests -> TokenType]
        /\ \A q \in Requests : token'[q].st \in {"finishing", "consumed"} => token'[q].outcome \in Outcomes
    <3>1. PICK sh \in Shapes :
              token' = [token EXCEPT ![r].st = "finishing", ![r].e = now,
                                     ![r].shape = sh, ![r].outcome = outcome]
      BY <1>2 DEF FinishToken
    <3> DEFINE tk == [token[r] EXCEPT !.st = "finishing", !.e = now, !.shape = sh,
                                      !.outcome = outcome]
    <3>2. token' = [token EXCEPT ![r] = tk]  BY <3>1 DEF TypeOK
    <3>3. tk \in TokenType /\ tk.outcome \in Outcomes
      BY DEF TypeOK, TokenType, Shapes, ShapeType
    <3> QED BY <3>2, <3>3 DEF TypeOK
  <2>2. UNCHANGED <<state, notice, timer, guard, closing>> /\ now' = now + 1
    BY <1>2 DEF FinishToken, Tick
  <2> QED BY <2>1, <2>2 DEF TypeOK, state, notice, closing
<1>3. CASE ResolveRequest(r)
  <2>1. CASE phase = "Open" /\ r \in pending
    <3>1. RequestEvent(r) \in RequestType
      BY <1>3 DEF ResolveRequest, RequestEvent, RequestType, TypeOK, TokenType, Ids
    <3>2. LatchType'
      BY <1>0, <1>3, <2>1, MarkLimitsHitType DEF ResolveRequest, Overflows
    <3>3. run' \in RunType
      BY <1>3, <2>1, <3>1, PushRequestType DEF ResolveRequest, TypeOK
    <3> QED BY <1>3, <2>1, <3>2, <3>3 DEF ResolveRequest, TypeOK, TokenType, LatchType, closing
  <2>2. CASE ~(phase = "Open" /\ r \in pending)
    BY <1>3, <2>2 DEF ResolveRequest, TypeOK, TokenType, notice, closing
  <2> QED BY <2>1, <2>2
<1> QED BY <1>1, <1>2, <1>3

\* Polling, ending and recording a stage or queue timer keeps the types.
LEMMA TimerStepType == TypeOK /\ TimerStep => TypeOK'
<1> SUFFICES ASSUME TypeOK, NEW t \in Timers,
                    \/ PollTimer(t)
                    \/ \E completed \in BOOLEAN : EndTimer(t, completed)
                    \/ RecordChild(t)
             PROVE  TypeOK'
  BY DEF TimerStep
<1>0. LatchType  BY DEF TypeOK, LatchType
<1>1. CASE PollTimer(t)
  BY <1>1 DEF PollTimer, Tick, TypeOK, TimerType, state, notice, closing
<1>2. ASSUME NEW completed \in BOOLEAN, EndTimer(t, completed) PROVE TypeOK'
  <2>1. timer' \in [Timers -> TimerType]
    <3>1. PICK sh \in Shapes :
              timer' = [timer EXCEPT ![t].st = "ending", ![t].e = now,
                                     ![t].shape = sh, ![t].completed = completed]
      BY <1>2 DEF EndTimer
    <3> DEFINE tm == [timer[t] EXCEPT !.st = "ending", !.e = now, !.shape = sh,
                                      !.completed = completed]
    <3>2. timer' = [timer EXCEPT ![t] = tm]  BY <3>1 DEF TypeOK
    <3>3. tm \in TimerType  BY DEF TypeOK, TimerType, Shapes, ShapeType
    <3> QED BY <3>2, <3>3 DEF TypeOK
  <2>2. UNCHANGED <<state, notice, token, guard, closing>> /\ now' = now + 1
    BY <1>2 DEF EndTimer, Tick
  <2> QED BY <2>1, <2>2 DEF TypeOK, state, notice, closing
<1>3. CASE RecordChild(t)
  <2>1. CASE phase = "Open"
    <3>1. ChildEvent(t) \in ChildType
      BY CollectorAssumption DEF ChildEvent, ChildType, TypeOK, TimerType, Ids
    <3>2. TimerSection[t] \in {"stages", "queues"}  BY CollectorAssumption
    <3>3. LatchType'
      BY <1>0, <1>3, <2>1, MarkLimitsHitType DEF RecordChild, Overflows
    <3>4. run' \in RunType
      BY <1>3, <2>1, <3>1, <3>2, PushChildType DEF RecordChild, TypeOK
    <3> QED BY <1>3, <2>1, <3>3, <3>4 DEF RecordChild, TypeOK, TimerType, LatchType, closing
  <2>2. CASE phase # "Open"
    BY <1>3, <2>2 DEF RecordChild, TypeOK, TimerType, notice, closing
  <2> QED BY <2>1, <2>2
<1> QED BY <1>1, <1>2, <1>3

\* Creating or dropping an in-flight guard keeps the types: a gauge's count
\* stays a natural number because it is decremented only when positive.
LEMMA GuardStepType == TypeOK /\ GuardStep => TypeOK'
<1> SUFFICES ASSUME TypeOK, NEW k \in Guards, CreateGuard(k) \/ DropGuard(k)
             PROVE  TypeOK'
  BY DEF GuardStep
<1> DEFINE g == GuardGauge[k]
           n == GaugeCount(g)
<1>0. LatchType  BY DEF TypeOK, LatchType
<1>1. g \in Gauges  BY DEF Gauges
<1>2. n \in Nat  BY DEF GaugeCount, TypeOK
<1>3. ASSUME NEW m \in Nat
      PROVE  /\ SetGauge(g, m) \in [DOMAIN SetGauge(g, m) -> Nat]
             /\ DOMAIN SetGauge(g, m) \subseteq Gauges
  BY <1>1 DEF SetGauge, TypeOK
<1>4. /\ RemoveGauge(g) \in [DOMAIN RemoveGauge(g) -> Nat]
      /\ DOMAIN RemoveGauge(g) \subseteq Gauges
  BY DEF RemoveGauge, TypeOK
<1>5. ASSUME NEW m \in Nat
      PROVE  PushBounded(run, "inflight", [gauge |-> g, count |-> m]) \in RunType
  BY <1>1, PushInflightType DEF TypeOK
<1>6. [run EXCEPT !.limits_hit = TRUE, !.dropped["inflight"] = @ + 1] \in RunType
  BY CountDropType DEF TypeOK, Sections
<1>7. CASE CreateGuard(k)
  <2>1. guard' \in [Guards -> {"new", "enabled", "inert", "dropped"}]
    BY <1>7 DEF CreateGuard, TypeOK
  <2>2. /\ run' \in RunType
        /\ DOMAIN inflight_counts' \subseteq Gauges
        /\ inflight_counts' \in [DOMAIN inflight_counts' -> Nat]
        /\ LatchType'
    <3>1. CASE UNCHANGED <<run, inflight_counts, latch, notice>>
      BY <3>1 DEF TypeOK, notice, LatchType
    <3>2. CASE /\ run' = [run EXCEPT !.dropped["inflight"] = @ + 1, !.limits_hit = TRUE]
               /\ MarkLimitsHit(TRUE)
               /\ UNCHANGED inflight_counts
      <4>1. run' \in RunType  BY <3>2, <1>6
      <4> QED BY <1>0, <3>2, <4>1, MarkLimitsHitType DEF TypeOK
    <3>3. CASE /\ inflight_counts' = SetGauge(g, n + 1)
               /\ run' = PushBounded(run, "inflight", [gauge |-> g, count |-> n + 1])
               /\ MarkLimitsHit(Overflows(run, "inflight"))
      <4>1. LatchType'  BY <1>0, <3>3, MarkLimitsHitType DEF Overflows
      <4>2. n + 1 \in Nat  BY <1>2
      <4> QED BY <3>3, <4>1, <4>2, <1>3, <1>5
    <3> QED BY <1>7, <3>1, <3>2, <3>3 DEF CreateGuard
  <2>3. UNCHANGED <<pending, registered, phase, now, token, timer, closing>>
    BY <1>7 DEF CreateGuard
  <2> QED BY <2>1, <2>2, <2>3 DEF TypeOK, LatchType, closing
<1>8. CASE DropGuard(k)
  <2>1. guard' \in [Guards -> {"new", "enabled", "inert", "dropped"}]
    BY <1>8 DEF DropGuard, TypeOK
  <2>2. /\ run' \in RunType
        /\ DOMAIN inflight_counts' \subseteq Gauges
        /\ inflight_counts' \in [DOMAIN inflight_counts' -> Nat]
        /\ LatchType'
    <3>1. CASE phase = "Open" /\ n > 0
      <4>1. n - 1 \in Nat  BY <1>2, <3>1
      <4>2. LatchType'  BY <1>0, <1>8, <3>1, MarkLimitsHitType DEF DropGuard, Overflows
      <4>3. run' \in RunType  BY <1>8, <3>1, <4>1, <1>5 DEF DropGuard
      <4>4. inflight_counts' = RemoveGauge(g) \/ inflight_counts' = SetGauge(g, n - 1)
        BY <1>8, <3>1 DEF DropGuard
      <4> QED BY <4>1, <4>2, <4>3, <4>4, <1>3, <1>4
    <3>2. CASE ~(phase = "Open" /\ n > 0)
      BY <1>8, <3>2 DEF DropGuard, TypeOK, notice, LatchType
    <3> QED BY <3>1, <3>2
  <2>3. UNCHANGED <<pending, registered, phase, now, token, timer, closing>>
    BY <1>8 DEF DropGuard
  <2> QED BY <2>1, <2>2, <2>3 DEF TypeOK, LatchType, closing
<1> QED BY <1>7, <1>8

\* Runtime snapshots, sampler registration, end reason and listener keep the
\* types.
LEMMA HookStepType == TypeOK /\ HookStep => TypeOK'
<1> SUFFICES ASSUME TypeOK, HookStep PROVE TypeOK'  OBVIOUS
<1>0. LatchType  BY DEF TypeOK, LatchType
<1>1. ASSUME NEW snapshot \in {"ok", "zero_workers"}, RecordRuntimeSnapshot(snapshot)
      PROVE  TypeOK'
  <2>1. run' \in RunType
    BY <1>1, PushRuntimeType DEF RecordRuntimeSnapshot, TypeOK
  <2>2. LatchType'
    BY <1>0, <1>1, MarkLimitsHitType DEF RecordRuntimeSnapshot, Overflows
  <2> QED BY <1>1, <2>1, <2>2 DEF RecordRuntimeSnapshot, TypeOK, LatchType, objects, closing
<1>2. CASE RegisterSampler
  <2>1. run' \in RunType  BY <1>2 DEF RegisterSampler, TypeOK, RunType
  <2> QED BY <1>2, <2>1 DEF RegisterSampler, TypeOK, notice, objects, closing
<1>3. ASSUME NEW reason \in EndReasons, SetRunEndReasonIfAbsent(reason) PROVE TypeOK'
  <2>1. run' \in RunType  BY <1>3 DEF SetRunEndReasonIfAbsent, TypeOK, RunType
  <2> QED BY <1>3, <2>1 DEF SetRunEndReasonIfAbsent, TypeOK, notice, objects, closing
<1>4. ASSUME NEW on \in BOOLEAN, SetLimitsHitListener(on) PROVE TypeOK'
  BY <1>4 DEF SetLimitsHitListener, TypeOK, state, objects, closing
<1>5. CASE NotifyLimitsHitListener
  BY <1>5 DEF NotifyLimitsHitListener, TypeOK, state, objects, closing
<1> QED BY <1>1, <1>2, <1>3, <1>4, <1>5 DEF HookStep

\* Every critical section of shutdown() keeps the types.
LEMMA ShutdownStepType == TypeOK /\ ShutdownStep => TypeOK'
<1> SUFFICES ASSUME TypeOK, NEW c \in Callers,
                    Shutdown(c) \/ SpuriousWakeup(c) \/ WriteArtifact(c) \/ CloseRun(c)
             PROVE  TypeOK'
  BY DEF ShutdownStep
<1>1. ASSUME SealRun(c), UNCHANGED <<notice, now, objects>> PROVE TypeOK'
  <2>1. run' \in RunType
    <3>1. Cardinality(pending) \in Nat
      BY CollectorAssumption, FS_Subset, FS_CardinalityType DEF TypeOK
    <3>2. PendingSamples \in SUBSET Requests  BY DEF PendingSamples, TypeOK
    <3>3. (IF run.end_reason = None THEN "Shutdown" ELSE run.end_reason) \in EndReasons \cup {None}
      BY DEF TypeOK, RunType, EndReasons
    <3>4. Shapes \subseteq ShapeType  BY DEF Shapes, ShapeType
    <3>5. PICK sh \in Shapes :
              run' = [run EXCEPT !.finalized = sh,
                                 !.end_reason = IF @ = None THEN "Shutdown" ELSE @,
                                 !.unfinished = Cardinality(pending),
                                 !.sample = PendingSamples]
      BY <1>1 DEF SealRun
    <3> QED BY <3>1, <3>2, <3>3, <3>4, <3>5 DEF TypeOK, RunType
  <2> QED BY <1>1, <2>1 DEF SealRun, TypeOK, notice, objects
<1>2. ASSUME NEW result \in {"waiting"} \cup Returned, LeaveShutdown(c, result),
             UNCHANGED <<notice, now, objects>>
      PROVE  TypeOK'
  BY <1>2 DEF LeaveShutdown, TypeOK, state, notice, objects
<1>3. CASE Shutdown(c)  BY <1>1, <1>2, <1>3 DEF Shutdown, Returned
<1>4. CASE SpuriousWakeup(c)
  BY <1>4 DEF SpuriousWakeup, TypeOK, state, notice, objects
<1>5. CASE WriteArtifact(c)
  <2>1. /\ UNCHANGED <<state, notice, now, objects, candidate>>
        /\ writes' = writes + 1
        /\ persisted' = TRUE \/ persisted' = persisted
    BY <1>5 DEF WriteArtifact
  <2>2. \E x \in {"persisted", "write_failed", "panicked"} : caller' = [caller EXCEPT ![c] = x]
    BY <1>5 DEF WriteArtifact
  <2>3. persisted' \in BOOLEAN  BY <2>1 DEF TypeOK
  <2> QED BY <2>1, <2>2, <2>3 DEF TypeOK, state, notice, objects
<1>6. CASE CloseRun(c)
  BY <1>6 DEF CloseRun, NotifyAll, Returned, TypeOK, notice, objects
<1> QED BY <1>3, <1>4, <1>5, <1>6

\* Every step of the collector keeps the types.
LEMMA StepType == TypeOK /\ [Next]_vars => TypeOK'
<1> SUFFICES ASSUME TypeOK, [Next]_vars PROVE TypeOK'  OBVIOUS
<1>1. CASE UNCHANGED vars
  BY <1>1 DEF vars, TypeOK, state, notice, objects, closing
<1> QED BY <1>1, RequestStepType, TimerStepType, GuardStepType, HookStepType,
           ShutdownStepType DEF Next

\* The collector keeps its types under every interleaving of callers,
\* timers, guards, hooks and shutdown.
THEOREM TypeCorrect == Spec => []TypeOK
BY InitType, StepType, PTL DEF Spec

----------------------------------------------------------------------------
(* The inductive invariant.                                                *)

\* Who owns a request: while the run is open a token that still has to
\* resolve is exactly a pending request, and a recorded one is consumed.
Ownership ==
    /\ \A r \in pending : token[r].st \in {"armed", "finishing"}
    /\ phase = "Open" =>
           \A r \in Requests : token[r].st \in {"armed", "finishing"} => r \in pending
    /\ \A i \in DOMAIN run.requests : token[run.requests[i].key].st = "consumed"
    /\ \A i, j \in DOMAIN run.requests : run.requests[i].key = run.requests[j].key => i = j

\* The request ledger balances, and nothing is unfinished before the seal.
Ledger ==
    /\ Cardinality(AdmittedSet) = Len(run.requests) + Cardinality(pending) + run.unfinished
    /\ Len(run.requests) + Cardinality(pending) <= Limits["requests"]
    /\ phase = "Open" => run.unfinished = 0

Sealed == phase # "Open" => run = candidate /\ pending = {}

Active(c) == caller[c] \in {"writing", "persisted", "write_failed", "panicked"}

\* One caller at a time drives the finalization, and what it has done so
\* far shows in writes and persisted.
OneWriter ==
    /\ \A c, d \in Callers : Active(c) /\ Active(d) /\ phase = "Finalizing" => c = d
    /\ \A c \in Callers :
           /\ caller[c] \in {"writing", "persisted", "write_failed"} => phase = "Finalizing"
           /\ caller[c] = "panicked" => phase = "Finalizing"
           /\ caller[c] = "writing" => writes = 0 /\ ~persisted
           /\ caller[c] = "persisted" => writes = 1 /\ persisted
           /\ caller[c] \in {"write_failed", "panicked"} => writes = 1 /\ ~persisted
           /\ caller[c] = "Ok" => phase = "Success"
           /\ caller[c] = "SinkError" => phase = "Failure"
    /\ phase = "Open" => writes = 0 /\ ~persisted
    /\ phase = "Success" => writes = 1 /\ persisted
    /\ phase = "Failure" => writes = 1 /\ ~persisted
    /\ writes <= 1

IInv == TypeOK /\ Ownership /\ Ledger /\ Sealed /\ OneWriter

\* Retention in another section, and counting a drop, leave the recorded
\* requests and the unfinished count alone.
LEMMA PushElsewhere ==
    ASSUME NEW rn \in RunType, NEW ev, NEW x \in Sections \ {"requests"}
    PROVE  /\ PushBounded(rn, x, ev).requests = rn.requests
           /\ PushBounded(rn, x, ev).unfinished = rn.unfinished
BY DEF PushBounded, RunType, Sections

\* Counting a drop changes neither the recorded requests nor the unfinished
\* count.
LEMMA CountDropElsewhere ==
    ASSUME NEW rn \in RunType, NEW x \in Sections
    PROVE  LET rn2 == [rn EXCEPT !.limits_hit = TRUE, !.dropped[x] = @ + 1]
           IN  rn2.requests = rn.requests /\ rn2.unfinished = rn.unfinished
BY DEF RunType

\* A step that neither admits, resolves nor seals, leaves the callers of
\* shutdown() alone and respects the seal.
Quiet ==
    /\ UNCHANGED <<pending, phase, token, caller, writes, persisted, candidate>>
    /\ run'.requests = run.requests /\ run'.unfinished = run.unfinished
    /\ phase # "Open" => run' = run

\* Such a step preserves the invariant.
LEMMA QuietStep == ASSUME IInv, TypeOK', Quiet PROVE IInv'
<1>1. AdmittedSet' = AdmittedSet  BY DEF Quiet, AdmittedSet, Admitted
<1>2. Ownership'  BY DEF IInv, Ownership, Quiet
<1>3. Ledger'  BY <1>1 DEF IInv, Ledger, Quiet
<1>4. Sealed'  BY DEF IInv, Sealed, Quiet
<1>5. OneWriter'  BY DEF IInv, OneWriter, Active, Quiet
<1> QED BY <1>2, <1>3, <1>4, <1>5 DEF IInv

\* The inductive invariant holds of a new run.
LEMMA InitInv == Init => IInv
<1> SUFFICES ASSUME Init PROVE IInv  OBVIOUS
<1>1. TypeOK  BY InitType
<1>2. run.requests = <<>> /\ run.unfinished = 0  BY DEF Init, EmptyRun
<1>3. AdmittedSet = {}  BY DEF Init, AdmittedSet, Admitted
<1>4. Ownership  BY <1>2 DEF Init, Ownership
<1>5. Ledger
  <2>1. Cardinality({}) = 0  BY FS_EmptySet
  <2>2. Limits["requests"] \in Nat  BY CollectorAssumption DEF Sections
  <2> QED BY <1>2, <1>3, <2>1, <2>2 DEF Init, Ledger
<1>6. Sealed  BY DEF Init, Sealed
<1>7. OneWriter  BY DEF Init, OneWriter, Active
<1> QED BY <1>1, <1>4, <1>5, <1>6, <1>7 DEF IInv

\* The pending keys are a finite set, so counting them is meaningful.
LEMMA PendingFinite ==
    ASSUME TypeOK
    PROVE  /\ IsFiniteSet(pending) /\ Cardinality(pending) \in Nat
           /\ IsFiniteSet(AdmittedSet) /\ Cardinality(AdmittedSet) \in Nat
<1>1. pending \subseteq Requests /\ AdmittedSet \subseteq Requests
  BY DEF TypeOK, AdmittedSet
<1> QED BY <1>1, CollectorAssumption, FS_Subset, FS_CardinalityType

\* The recorded requests carry keys of requests.
LEMMA RecordedKeys ==
    ASSUME TypeOK PROVE \A i \in DOMAIN run.requests : run.requests[i].key \in Requests
<1>1. run.requests \in Seq(RequestType)  BY DEF TypeOK, RunType
<1>2. ASSUME NEW i \in DOMAIN run.requests PROVE run.requests[i].key \in Requests
  <2> DEFINE q == run.requests
  <2>1. q[i] \in RequestType  BY <1>1
  <2> HIDE DEF q
  <2>2. q[i].key \in Requests  BY <2>1 DEF RequestType
  <2> QED BY <2>2 DEF q
<1> QED BY <1>2

\* start_request preserves the invariant: an admitted request enters pending
\* and the ledger at once, a refused one enters neither.
LEMMA BeginInv ==
    ASSUME IInv, TypeOK', NEW r \in Requests, BeginRequest(r)
    PROVE  IInv'
<1>0. TypeOK  BY DEF IInv
<1>t. token \in [Requests -> TokenType] /\ token[r].st = "unstarted"
  BY <1>0 DEF TypeOK, BeginRequest, Started
<1>1. UNCHANGED <<phase, caller, writes, persisted, candidate>>
  BY DEF BeginRequest, closing
<1>2. CASE phase = "Open" /\ HasRoom
  <2>1. run' = run /\ pending' = pending \cup {r}  BY <1>2 DEF BeginRequest
  <2>2. \A q \in Requests : token'[q].st = IF q = r THEN "armed" ELSE token[q].st
    BY <1>2, <1>t DEF BeginRequest, TokenType
  <2>3. r \notin pending  BY <1>t DEF IInv, Ownership
  <2>4. AdmittedSet' = AdmittedSet \cup {r} /\ r \notin AdmittedSet
    BY <2>2, <1>t DEF AdmittedSet, Admitted
  <2>5. /\ Cardinality(AdmittedSet') = Cardinality(AdmittedSet) + 1
        /\ Cardinality(pending') = Cardinality(pending) + 1
    BY <1>0, <2>1, <2>3, <2>4, PendingFinite, FS_AddElement
  <2>6. Len(run.requests) \in Nat /\ run.unfinished \in Nat /\ Limits["requests"] \in Nat
    BY <1>0, CollectorAssumption DEF TypeOK, RunType, Sections
  <2>7. Ledger'
    BY <1>0, <1>1, <1>2, <2>1, <2>5, <2>6, PendingFinite DEF IInv, Ledger, HasRoom
  <2>8. Ownership'
    <3>1. \A i \in DOMAIN run.requests : run.requests[i].key # r /\ run.requests[i].key \in Requests
      BY <1>0, <1>t, RecordedKeys DEF IInv, Ownership
    <3>2. \A q \in pending' : q \in Requests  BY <1>0, <2>1 DEF TypeOK
    <3> QED BY <1>1, <2>1, <2>2, <3>1, <3>2 DEF IInv, Ownership
  <2>9. Sealed' /\ OneWriter'  BY <1>1, <1>2 DEF IInv, Sealed, OneWriter, Active
  <2> QED BY <2>7, <2>8, <2>9 DEF IInv
<1>3. CASE ~(phase = "Open" /\ HasRoom)
  <2>1. UNCHANGED pending  BY <1>3 DEF BeginRequest
  <2>2. \A q \in Requests : token'[q].st = IF q = r THEN "inert" ELSE token[q].st
    BY <1>3, <1>t DEF BeginRequest, TokenType
  <2>3. AdmittedSet' = AdmittedSet  BY <2>2, <1>t DEF AdmittedSet, Admitted
  <2>4. /\ run'.requests = run.requests /\ run'.unfinished = run.unfinished
        /\ phase # "Open" => run' = run
    <3>1. "requests" \in Sections  BY DEF Sections
    <3> QED BY <1>0, <3>1, CountDropElsewhere DEF BeginRequest, TypeOK
  <2>5. Ownership'
    <3>1. \A i \in DOMAIN run.requests : run.requests[i].key # r /\ run.requests[i].key \in Requests
      BY <1>0, <1>t, RecordedKeys DEF IInv, Ownership
    <3>2. \A q \in pending : q \in Requests /\ q # r  BY <1>0, <1>t DEF TypeOK, IInv, Ownership
    <3> QED BY <1>1, <2>1, <2>2, <2>4, <3>1, <3>2 DEF IInv, Ownership
  <2>6. Ledger'  BY <1>1, <2>1, <2>3, <2>4 DEF IInv, Ledger
  <2>7. Sealed' /\ OneWriter'
    BY <1>1, <2>1, <2>4 DEF IInv, Sealed, OneWriter, Active
  <2> QED BY <2>5, <2>6, <2>7 DEF IInv
<1> QED BY <1>2, <1>3

\* Disarming a completion token moves no request in the ledger.
LEMMA FinishInv ==
    ASSUME IInv, TypeOK', NEW r \in Requests, NEW outcome, FinishToken(r, outcome)
    PROVE  IInv'
<1>0. TypeOK /\ UNCHANGED <<state, closing>>  BY DEF IInv, FinishToken
<1>t. token \in [Requests -> TokenType] /\ token[r].st = "armed"
  BY <1>0 DEF TypeOK, FinishToken
<1>1. \A q \in Requests : token'[q].st = IF q = r THEN "finishing" ELSE token[q].st
  BY <1>t DEF FinishToken, TokenType
<1>2. AdmittedSet' = AdmittedSet  BY <1>1, <1>t DEF AdmittedSet, Admitted
<1>3. Ownership'
  <2>1. pending \subseteq Requests  BY <1>0 DEF TypeOK
  <2> QED BY <1>0, <1>t, <1>1, <2>1, RecordedKeys DEF IInv, Ownership, state
<1>4. Ledger'  BY <1>0, <1>2 DEF IInv, Ledger, state
<1>5. Sealed' /\ OneWriter'
  BY <1>0 DEF IInv, Sealed, OneWriter, Active, state, closing
<1> QED BY <1>3, <1>4, <1>5 DEF IInv

\* Admission reserved the place of a pending request: the completion's push
\* cannot overflow the request section.
LEMMA ResolveAppends ==
    ASSUME IInv, NEW r \in Requests, ResolveRequest(r), phase = "Open", r \in pending
    PROVE  /\ run'.requests = Append(run.requests, RequestEvent(r))
           /\ run'.unfinished = run.unfinished
           /\ Cardinality(pending \ {r}) = Cardinality(pending) - 1
<1>0. TypeOK  BY DEF IInv
<1>1. Cardinality(pending \ {r}) = Cardinality(pending) - 1 /\ Cardinality(pending) >= 1
  <2>1. IsFiniteSet(pending \ {r}) /\ r \notin pending \ {r}
    BY <1>0, PendingFinite, FS_Subset
  <2>2. (pending \ {r}) \cup {r} = pending  OBVIOUS
  <2>3. Cardinality(pending) = Cardinality(pending \ {r}) + 1
    BY <2>1, <2>2, FS_AddElement
  <2> QED BY <2>1, <2>3, FS_CardinalityType
<1>2. Len(run.requests) \in Nat /\ Limits["requests"] \in Nat
  BY <1>0, CollectorAssumption DEF TypeOK, RunType, Sections
<1>3. Len(run.requests) < Limits["requests"]
  BY <1>0, <1>1, <1>2, PendingFinite DEF IInv, Ledger
<1>4. run'.requests = Append(run.requests, RequestEvent(r)) /\ run'.unfinished = run.unfinished
  BY <1>0, <1>3 DEF ResolveRequest, PushBounded, TypeOK, RunType
<1> QED BY <1>1, <1>4

\* resolve_request preserves the invariant: the request moves from pending to
\* the recorded ones, whose section has room because admission reserved it.
LEMMA ResolveInv ==
    ASSUME IInv, TypeOK', NEW r \in Requests, ResolveRequest(r)
    PROVE  IInv'
<1>0. TypeOK  BY DEF IInv
<1>t. token \in [Requests -> TokenType] /\ token[r].st = "finishing"
  BY <1>0 DEF TypeOK, ResolveRequest
<1>1. UNCHANGED <<phase, caller, writes, persisted, candidate>>
  BY DEF ResolveRequest, closing
<1>2. \A q \in Requests : token'[q].st = IF q = r THEN "consumed" ELSE token[q].st
  BY <1>t DEF ResolveRequest, TokenType
<1>3. AdmittedSet' = AdmittedSet  BY <1>2, <1>t DEF AdmittedSet, Admitted
<1>4. pending \subseteq Requests  BY <1>0 DEF TypeOK
<1>5. CASE phase = "Open" /\ r \in pending
  <2>1. /\ run'.requests = Append(run.requests, RequestEvent(r))
        /\ run'.unfinished = run.unfinished
        /\ Cardinality(pending \ {r}) = Cardinality(pending) - 1
    BY <1>5, ResolveAppends
  <2>2. Len(run.requests) \in Nat /\ run.unfinished \in Nat /\ Limits["requests"] \in Nat
    BY <1>0, CollectorAssumption DEF TypeOK, RunType, Sections
  <2>5. pending' = pending \ {r}  BY <1>5 DEF ResolveRequest
  <2>6. run.requests \in Seq(RequestType)  BY <1>0 DEF TypeOK, RunType
  <2>7. Len(run'.requests) = Len(run.requests) + 1  BY <2>1, <2>6
  <2>8. Ledger'
    BY <1>0, <1>1, <1>3, <2>1, <2>2, <2>5, <2>7, PendingFinite DEF IInv, Ledger
  <2>9. Ownership'
    <3> DEFINE n == Len(run.requests)
    <3>1. /\ DOMAIN run'.requests = 1 .. n + 1 /\ DOMAIN run.requests = 1 .. n
          /\ \A i \in 1 .. n : run'.requests[i] = run.requests[i]
          /\ run'.requests[n + 1] = RequestEvent(r)
      BY <2>1, <2>6
    <3>2. RequestEvent(r).key = r  BY DEF RequestEvent
    <3>3. \A i \in 1 .. n : run.requests[i].key # r /\ run.requests[i].key \in Requests
      BY <1>0, <1>t, <3>1, RecordedKeys DEF IInv, Ownership
    <3>4. \A i \in DOMAIN run'.requests :
              /\ i \in 1 .. n => run'.requests[i].key = run.requests[i].key
              /\ i \notin 1 .. n => i = n + 1 /\ run'.requests[i].key = r
      BY <2>2, <3>1, <3>2
    <3>5. \A i \in DOMAIN run'.requests : token'[run'.requests[i].key].st = "consumed"
      BY <1>2, <3>1, <3>3, <3>4 DEF IInv, Ownership
    <3>6. \A i, j \in DOMAIN run'.requests :
              run'.requests[i].key = run'.requests[j].key => i = j
      BY <3>1, <3>3, <3>4 DEF IInv, Ownership
    <3>7. \A q \in pending' : token'[q].st \in {"armed", "finishing"}
      BY <1>2, <1>4, <2>5 DEF IInv, Ownership
    <3>8. \A q \in Requests : token'[q].st \in {"armed", "finishing"} => q \in pending'
      BY <1>2, <1>5, <2>5 DEF IInv, Ownership
    <3> QED BY <3>5, <3>6, <3>7, <3>8 DEF Ownership
  <2>10. Sealed' /\ OneWriter'
    BY <1>1, <1>5 DEF IInv, Sealed, OneWriter, Active
  <2> QED BY <2>8, <2>9, <2>10 DEF IInv
<1>6. CASE ~(phase = "Open" /\ r \in pending)
  <2>1. UNCHANGED <<run, pending>>  BY <1>6 DEF ResolveRequest
  <2>2. phase # "Open" /\ pending = {}
    BY <1>6, <1>t DEF IInv, Ownership, Sealed
  <2>3. Ownership'
    BY <1>0, <1>1, <1>2, <2>1, <2>2, RecordedKeys DEF IInv, Ownership
  <2>4. Ledger'  BY <1>1, <1>3, <2>1 DEF IInv, Ledger
  <2>5. Sealed' /\ OneWriter'
    BY <1>1, <2>1 DEF IInv, Sealed, OneWriter, Active
  <2> QED BY <2>3, <2>4, <2>5 DEF IInv
<1> QED BY <1>5, <1>6

\* Timers touch neither pending nor recorded requests, and a sealed run not at
\* all.
LEMMA TimerQuiet == ASSUME TypeOK, TimerStep PROVE Quiet
<1> SUFFICES ASSUME NEW t \in Timers,
                    \/ PollTimer(t)
                    \/ \E completed \in BOOLEAN : EndTimer(t, completed)
                    \/ RecordChild(t)
             PROVE  Quiet
  BY DEF TimerStep
<1>0. run \in RunType  BY DEF TypeOK
<1>1. CASE PollTimer(t)
  BY <1>1 DEF Quiet, PollTimer, state, closing
<1>2. ASSUME NEW completed \in BOOLEAN, EndTimer(t, completed) PROVE Quiet
  BY <1>2 DEF Quiet, EndTimer, state, closing
<1>3. CASE RecordChild(t)
  <2>1. TimerSection[t] \in Sections \ {"requests"}
    BY CollectorAssumption DEF Sections
  <2>2. /\ run'.requests = run.requests /\ run'.unfinished = run.unfinished
        /\ phase # "Open" => run' = run
    BY <1>0, <1>3, <2>1, PushElsewhere DEF RecordChild
  <2>3. UNCHANGED <<pending, phase, token, caller, writes, persisted, candidate>>
    BY <1>3 DEF RecordChild, closing
  <2> QED BY <2>2, <2>3 DEF Quiet
<1> QED BY <1>1, <1>2, <1>3

\* In-flight guards touch neither pending nor recorded requests, and a sealed
\* run not at all.
LEMMA GuardQuiet == ASSUME TypeOK, GuardStep PROVE Quiet
<1> SUFFICES ASSUME NEW k \in Guards, CreateGuard(k) \/ DropGuard(k) PROVE Quiet
  BY DEF GuardStep
<1>0. run \in RunType /\ "inflight" \in Sections /\ "inflight" \in Sections \ {"requests"}
  BY DEF TypeOK, Sections
<1>1. UNCHANGED <<pending, phase, token, caller, writes, persisted, candidate>>
  BY DEF CreateGuard, DropGuard, closing
<1>2. /\ run'.requests = run.requests /\ run'.unfinished = run.unfinished
      /\ phase # "Open" => run' = run
  <2>1. CASE CreateGuard(k)
    <3>1. CASE run' = run  BY <3>1
    <3>2. CASE /\ phase = "Open"
               /\ run' = [run EXCEPT !.dropped["inflight"] = @ + 1, !.limits_hit = TRUE]
      BY <1>0, <3>2 DEF RunType
    <3>3. ASSUME NEW ev, phase = "Open", run' = PushBounded(run, "inflight", ev)
          PROVE  run'.requests = run.requests /\ run'.unfinished = run.unfinished
      BY <1>0, <3>3, PushElsewhere
    <3> QED BY <2>1, <3>1, <3>2, <3>3 DEF CreateGuard
  <2>2. CASE DropGuard(k)
    BY <1>0, <2>2, PushElsewhere DEF DropGuard
  <2> QED BY <2>1, <2>2
<1> QED BY <1>1, <1>2 DEF Quiet

\* Integration hooks touch neither pending nor recorded requests, and a sealed
\* run not at all.
LEMMA HookQuiet == ASSUME TypeOK, HookStep PROVE Quiet
<1>0. run \in RunType /\ "runtime" \in Sections \ {"requests"}
  BY DEF TypeOK, Sections
<1>1. UNCHANGED <<pending, phase, token, caller, writes, persisted, candidate>>
  BY DEF HookStep, RecordRuntimeSnapshot, RegisterSampler, SetRunEndReasonIfAbsent,
         SetLimitsHitListener, NotifyLimitsHitListener, state, objects, closing
<1> DEFINE Kept == /\ run'.requests = run.requests /\ run'.unfinished = run.unfinished
                   /\ phase # "Open" => run' = run
<1>2. Kept
  <2>1. ASSUME NEW snapshot, RecordRuntimeSnapshot(snapshot) PROVE Kept
    BY <1>0, <2>1, PushElsewhere DEF RecordRuntimeSnapshot
  <2>2. CASE RegisterSampler  BY <1>0, <2>2 DEF RegisterSampler, RunType
  <2>3. ASSUME NEW reason, SetRunEndReasonIfAbsent(reason) PROVE Kept
    BY <1>0, <2>3 DEF SetRunEndReasonIfAbsent, RunType
  <2>4. CASE run' = run  BY <2>4
  <2> QED BY <2>1, <2>2, <2>3, <2>4
          DEF HookStep, SetLimitsHitListener, NotifyLimitsHitListener, state
<1> QED BY <1>1, <1>2 DEF Quiet

\* shutdown() preserves the invariant: sealing turns the pending requests into
\* unfinished ones and makes its caller the only writer; the writer publishes
\* what its write returned.
LEMMA ShutdownInv == ASSUME IInv, TypeOK', ShutdownStep PROVE IInv'
<1> SUFFICES ASSUME NEW c \in Callers,
                    Shutdown(c) \/ SpuriousWakeup(c) \/ WriteArtifact(c) \/ CloseRun(c)
             PROVE  IInv'
  BY DEF ShutdownStep
<1>0. TypeOK  BY DEF IInv
<1>1. UNCHANGED token
  BY DEF Shutdown, SpuriousWakeup, WriteArtifact, CloseRun, objects
<1>2. AdmittedSet' = AdmittedSet  BY <1>1 DEF AdmittedSet, Admitted
<1>3. ASSUME caller[c] \in {"idle", "woken"} \cup Returned, phase = "Open", SealRun(c)
      PROVE  IInv'
  <2>1. /\ run'.requests = run.requests /\ run'.unfinished = Cardinality(pending)
        /\ pending' = {} /\ phase' = "Finalizing" /\ candidate' = run'
        /\ UNCHANGED <<writes, persisted>>
    BY <1>0, <1>3 DEF SealRun, TypeOK, RunType
  <2>2. Ownership'  BY <1>1, <2>1 DEF IInv, Ownership
  <2>3. Ledger'
    <3>1. Cardinality({}) = 0  BY FS_EmptySet
    <3>2. Len(run.requests) \in Nat  BY <1>0 DEF TypeOK, RunType
    <3>3. Limits["requests"] \in Nat  BY CollectorAssumption DEF Sections
    <3> QED BY <1>0, <1>2, <1>3, <2>1, <3>1, <3>2, <3>3, PendingFinite DEF IInv, Ledger
  <2>4. Sealed'  BY <2>1 DEF Sealed
  <2>5. OneWriter'
    <3>1. \A d \in Callers : caller'[d] = IF d = c THEN "writing" ELSE caller[d]
      BY <1>0, <1>3 DEF SealRun, TypeOK
    <3> QED BY <1>3, <2>1, <3>1 DEF IInv, OneWriter, Active
  <2> QED BY <2>2, <2>3, <2>4, <2>5 DEF IInv
<1>4. ASSUME UNCHANGED <<run, pending, phase, candidate>>, OneWriter' PROVE IInv'
  BY <1>1, <1>2, <1>4 DEF IInv, Ownership, Ledger, Sealed
<1>5. ASSUME NEW result, caller[c] \in {"idle", "woken"} \cup Returned, LeaveShutdown(c, result),
             \/ result \in {"waiting", "UnfinishedRequests"}
             \/ result = "Ok" /\ phase = "Success"
             \/ result = "SinkError" /\ phase = "Failure"
      PROVE  IInv'
  <2>1. \A d \in Callers : caller'[d] = IF d = c THEN result ELSE caller[d]
    BY <1>0, <1>5 DEF LeaveShutdown, TypeOK
  <2>2. UNCHANGED <<run, pending, phase, candidate, writes, persisted>>
    BY <1>5 DEF LeaveShutdown, state
  <2>3. OneWriter'  BY <1>5, <2>1, <2>2 DEF IInv, OneWriter, Active
  <2> QED BY <1>4, <2>2, <2>3
<1>6. CASE Shutdown(c)  BY <1>3, <1>5, <1>6 DEF Shutdown
<1>7. CASE SpuriousWakeup(c)
  <2>1. \A d \in Callers : caller'[d] = IF d = c THEN "woken" ELSE caller[d]
    BY <1>0, <1>7 DEF SpuriousWakeup, TypeOK
  <2>2. UNCHANGED <<run, pending, phase, candidate, writes, persisted>>
    BY <1>7 DEF SpuriousWakeup, state
  <2>3. OneWriter'  BY <1>7, <2>1, <2>2 DEF IInv, OneWriter, Active
  <2> QED BY <1>4, <2>2, <2>3
<1>8. CASE WriteArtifact(c)
  <2>1. UNCHANGED <<run, pending, phase, candidate>> /\ writes' = writes + 1
    BY <1>8 DEF WriteArtifact, state
  <2>2. PICK x \in {"persisted", "write_failed", "panicked"} :
            /\ caller' = [caller EXCEPT ![c] = x]
            /\ x = "persisted" => persisted' = TRUE
            /\ x # "persisted" => persisted' = persisted
    BY <1>8 DEF WriteArtifact
  <2>3. \A d \in Callers : caller'[d] = IF d = c THEN x ELSE caller[d]
    BY <1>0, <2>2 DEF TypeOK
  <2>4. caller[c] = "writing" /\ phase = "Finalizing" /\ writes = 0 /\ ~persisted
    BY <1>8 DEF WriteArtifact, IInv, OneWriter
  <2>5. OneWriter'
    BY <2>1, <2>2, <2>3, <2>4 DEF IInv, OneWriter, Active
  <2> QED BY <1>4, <2>1, <2>5
<1>9. CASE CloseRun(c)
  <2>1. UNCHANGED <<run, pending, candidate, writes, persisted>>  BY <1>9 DEF CloseRun
  <2> DEFINE res == IF caller[c] = "persisted" THEN "Ok" ELSE "SinkError"
  <2>2. \A d \in Callers : caller'[d] = IF d = c THEN res
                                        ELSE IF caller[d] = "waiting" THEN "woken" ELSE caller[d]
    BY <1>0, <1>9 DEF CloseRun, NotifyAll, TypeOK
  <2>3. phase = "Finalizing" /\ phase' = IF caller[c] = "persisted" THEN "Success" ELSE "Failure"
    BY <1>9 DEF CloseRun, IInv, OneWriter
  <2>4. OneWriter'
    <3>1. \A d \in Callers \ {c} : ~Active(d)
      BY <1>9, <2>3 DEF CloseRun, IInv, OneWriter, Active
    <3>2. \A d \in Callers : caller[d] \notin {"Ok", "SinkError"}
      BY <2>3 DEF IInv, OneWriter
    <3>3. writes = 1 /\ (persisted <=> caller[c] = "persisted")
      BY <1>9 DEF CloseRun, IInv, OneWriter
    <3>4. \A d \in Callers :
              /\ caller'[d] \notin {"writing", "persisted", "write_failed", "panicked"}
              /\ caller'[d] = "Ok" => phase' = "Success"
              /\ caller'[d] = "SinkError" => phase' = "Failure"
      BY <2>2, <2>3, <3>1, <3>2 DEF Active
    <3> QED BY <2>1, <2>3, <3>3, <3>4 DEF OneWriter, Active
  <2>5. Ownership' /\ Ledger' /\ Sealed'
    BY <1>1, <1>2, <2>1, <2>3 DEF IInv, Ownership, Ledger, Sealed
  <2> QED BY <2>4, <2>5 DEF IInv
<1> QED BY <1>6, <1>7, <1>8, <1>9

\* The invariant is inductive.
LEMMA StepInv == IInv /\ [Next]_vars => IInv'
<1> SUFFICES ASSUME IInv, [Next]_vars PROVE IInv'  OBVIOUS
<1>1. TypeOK /\ TypeOK'  BY StepType DEF IInv
<1>2. CASE UNCHANGED vars
  <2>1. Quiet  BY <1>2 DEF Quiet, vars, state, notice, objects, closing
  <2> QED BY <1>1, <2>1, QuietStep
<1>3. CASE RequestStep
  BY <1>1, <1>3, BeginInv, FinishInv, ResolveInv DEF RequestStep
<1>4. CASE TimerStep \/ GuardStep \/ HookStep
  BY <1>1, <1>4, TimerQuiet, GuardQuiet, HookQuiet, QuietStep
<1> QED BY <1>1, <1>2, <1>3, <1>4, ShutdownInv DEF Next

\* The invariant holds in every reachable state.
LEMMA Invariance == Spec => []IInv
BY InitInv, StepInv, PTL DEF Spec

\* Every admitted request is pending, recorded once or counted unfinished,
\* for any number of requests, callers and any limits.
THEOREM ConservationHolds == Spec => []Conservation
<1>1. IInv => Conservation
  <2> SUFFICES ASSUME IInv PROVE Conservation  OBVIOUS
  <2>1. TypeOK  BY DEF IInv
  <2>2. pending \subseteq Requests  BY <2>1 DEF TypeOK
  <2> QED BY <2>1, <2>2, RecordedKeys
          DEF IInv, Ownership, Ledger, Conservation, Completed, AdmittedSet, Admitted
<1> QED BY <1>1, Invariance, PTL

\* Nothing changes the run once shutdown() has sealed it.
THEOREM FrozenAfterSealHolds == Spec => []FrozenAfterSeal
<1>1. IInv => FrozenAfterSeal  BY DEF IInv, Sealed, FrozenAfterSeal
<1> QED BY <1>1, Invariance, PTL

\* The sink is called at most once and all terminal results agree with it.
THEOREM OneTerminalResultHolds == Spec => []OneTerminalResult
<1>1. IInv => OneTerminalResult  BY DEF IInv, OneWriter, OneTerminalResult
<1> QED BY <1>1, Invariance, PTL

----------------------------------------------------------------------------
(* Section caps.                                                           *)

WithinCaps(rn) == \A x \in Sections : Len(rn[x]) <= Limits[x]

\* push_*_bounded appends only below the cap.
LEMMA PushWithinCaps ==
    ASSUME NEW rn \in RunType, WithinCaps(rn), NEW x \in Sections, NEW ev,
           PushBounded(rn, x, ev) \in RunType
    PROVE  WithinCaps(PushBounded(rn, x, ev))
<1> DEFINE p == PushBounded(rn, x, ev)
<1>1. Limits[x] \in Nat  BY CollectorAssumption
<1>2. \E T : rn[x] \in Seq(T) /\ p[x] \in Seq(T)
  <2>1. p \in RunType  OBVIOUS
  <2> HIDE DEF p
  <2>2. CASE x = "requests"
    <3>1. rn[x] \in Seq(RequestType) /\ p[x] \in Seq(RequestType)  BY <2>1, <2>2 DEF RunType
    <3> QED BY <3>1
  <2>3. CASE x \in {"stages", "queues"}
    <3>1. rn[x] \in Seq(ChildType) /\ p[x] \in Seq(ChildType)  BY <2>1, <2>3 DEF RunType
    <3> QED BY <3>1
  <2>4. CASE x = "inflight"
    <3> DEFINE T == [gauge : Gauges, count : Nat]
    <3>1. rn[x] \in Seq(T) /\ p[x] \in Seq(T)  BY <2>1, <2>4 DEF RunType
    <3> QED BY <3>1
  <2>5. CASE x = "runtime"
    <3> DEFINE T == {"ok", "zero_workers"}
    <3>1. rn[x] \in Seq(T) /\ p[x] \in Seq(T)  BY <2>1, <2>5 DEF RunType
    <3> QED BY <3>1
  <2> QED BY <2>2, <2>3, <2>4, <2>5 DEF Sections
<1>3. \A y \in Sections \ {x} : p[y] = rn[y]
  BY DEF PushBounded, RunType, Sections
<1>4. p[x] = rn[x] \/ (Len(rn[x]) < Limits[x] /\ p[x] = Append(rn[x], ev))
  BY DEF PushBounded, RunType, Sections
<1>5. Len(p[x]) <= Limits[x]
  <2>1. CASE p[x] = rn[x]  BY <2>1 DEF WithinCaps
  <2>2. CASE Len(rn[x]) < Limits[x] /\ p[x] = Append(rn[x], ev)
    BY <1>1, <1>2, <2>2
  <2> QED BY <1>4, <2>1, <2>2
<1> QED BY <1>3, <1>5 DEF WithinCaps

\* Replacing what is not a section changes no section's length.
LEMMA SameSections ==
    ASSUME WithinCaps(run), \A x \in Sections : run'[x] = run[x]
    PROVE  WithinCaps(run)'
BY DEF WithinCaps

\* No step pushes a section past its cap.
LEMMA StepWithinCaps ==
    ASSUME TypeOK, TypeOK', WithinCaps(run), [Next]_vars
    PROVE  WithinCaps(run)'
<1>0. run \in RunType /\ run' \in RunType  BY DEF TypeOK
<1> DEFINE Keeps == \A x \in Sections : run'[x] = run[x]
<1>1. ASSUME NEW x \in Sections, NEW ev, run' = PushBounded(run, x, ev) PROVE WithinCaps(run)'
  <2>1. WithinCaps(PushBounded(run, x, ev))  BY <1>0, <1>1, PushWithinCaps
  <2> QED BY <1>1, <2>1 DEF WithinCaps
<1>2. CASE Keeps  BY <1>2, SameSections
<1>3. ASSUME NEW x \in Sections,
             run' = [run EXCEPT !.dropped[x] = @ + 1, !.limits_hit = TRUE]
      PROVE  Keeps
  BY <1>0, <1>3 DEF RunType, Sections
<1>4. CASE run' = run
  <2>1. Keeps  BY <1>4
  <2> QED BY <2>1, <1>2
<1>5. CASE RequestStep
  <2> SUFFICES ASSUME NEW r \in Requests,
                      \/ BeginRequest(r)
                      \/ \E outcome \in Outcomes : FinishToken(r, outcome)
                      \/ ResolveRequest(r)
               PROVE  WithinCaps(run)'
    BY <1>5 DEF RequestStep
  <2>1. "requests" \in Sections  BY DEF Sections
  <2>2. CASE BeginRequest(r)  BY <1>2, <1>3, <1>4, <2>1, <2>2 DEF BeginRequest
  <2>3. CASE ResolveRequest(r)  BY <1>1, <1>4, <2>1, <2>3 DEF ResolveRequest
  <2>4. ASSUME NEW outcome, FinishToken(r, outcome) PROVE run' = run
    BY <2>4 DEF FinishToken, state
  <2> QED BY <1>4, <2>2, <2>3, <2>4
<1>6. CASE TimerStep
  <2> SUFFICES ASSUME NEW t \in Timers,
                      \/ PollTimer(t)
                      \/ \E completed \in BOOLEAN : EndTimer(t, completed)
                      \/ RecordChild(t)
               PROVE  WithinCaps(run)'
    BY <1>6 DEF TimerStep
  <2>1. TimerSection[t] \in Sections  BY CollectorAssumption DEF Sections
  <2>2. CASE RecordChild(t)  BY <1>1, <1>4, <2>1, <2>2 DEF RecordChild
  <2>3. CASE PollTimer(t)  BY <1>4, <2>3 DEF PollTimer, state
  <2>4. ASSUME NEW completed, EndTimer(t, completed) PROVE run' = run
    BY <2>4 DEF EndTimer, state
  <2> QED BY <1>4, <2>2, <2>3, <2>4
<1>7. CASE GuardStep
  <2> SUFFICES ASSUME NEW k \in Guards, CreateGuard(k) \/ DropGuard(k)
               PROVE  WithinCaps(run)'
    BY <1>7 DEF GuardStep
  <2>1. "inflight" \in Sections  BY DEF Sections
  <2>2. CASE CreateGuard(k)  BY <1>1, <1>2, <1>3, <1>4, <2>1, <2>2 DEF CreateGuard
  <2>3. CASE DropGuard(k)  BY <1>1, <1>4, <2>1, <2>3 DEF DropGuard
  <2> QED BY <2>2, <2>3
<1>8. CASE HookStep
  <2>1. ASSUME NEW snapshot, RecordRuntimeSnapshot(snapshot) PROVE WithinCaps(run)'
    <3>1. "runtime" \in Sections  BY DEF Sections
    <3> QED BY <1>1, <1>4, <2>1, <3>1 DEF RecordRuntimeSnapshot
  <2>2. CASE RegisterSampler
    <3>1. Keeps  BY <1>0, <2>2 DEF RegisterSampler, RunType, Sections
    <3> QED BY <1>2, <3>1
  <2>3. ASSUME NEW reason, SetRunEndReasonIfAbsent(reason) PROVE WithinCaps(run)'
    <3>1. Keeps  BY <1>0, <2>3 DEF SetRunEndReasonIfAbsent, RunType, Sections
    <3> QED BY <1>2, <3>1
  <2> QED BY <1>4, <1>8, <2>1, <2>2, <2>3
          DEF HookStep, SetLimitsHitListener, NotifyLimitsHitListener, state
<1>9. CASE ShutdownStep
  <2> SUFFICES ASSUME NEW c \in Callers,
                      Shutdown(c) \/ SpuriousWakeup(c) \/ WriteArtifact(c) \/ CloseRun(c)
               PROVE  WithinCaps(run)'
    BY <1>9 DEF ShutdownStep
  <2>1. CASE SealRun(c)
    <3>1. Keeps  BY <1>0, <2>1 DEF SealRun, RunType, Sections
    <3> QED BY <1>2, <3>1
  <2>2. CASE ~SealRun(c)
    <3>1. run' = run
      BY <2>2 DEF Shutdown, LeaveShutdown, SpuriousWakeup, WriteArtifact, CloseRun, state
    <3> QED BY <1>4, <3>1
  <2> QED BY <2>1, <2>2
<1>10. CASE UNCHANGED vars  BY <1>4, <1>10 DEF vars, state
<1> QED BY <1>5, <1>6, <1>7, <1>8, <1>9, <1>10 DEF Next

\* Pending requests keep their reservation and no section outgrows its cap,
\* whatever the limits.
THEOREM CapacityReservedHolds == Spec => []CapacityReserved
<1>1. Init => WithinCaps(run)
  <2> SUFFICES ASSUME Init PROVE WithinCaps(run)  OBVIOUS
  <2>1. \A x \in Sections : run[x] = <<>>  BY DEF Init, EmptyRun, Sections
  <2>2. \A x \in Sections : Limits[x] \in Nat  BY CollectorAssumption
  <2> QED BY <2>1, <2>2 DEF WithinCaps
<1>2. IInv /\ WithinCaps(run) /\ [Next]_vars => WithinCaps(run)'
  <2>1. IInv /\ [Next]_vars => TypeOK /\ TypeOK'  BY StepInv DEF IInv
  <2> QED BY <2>1, StepWithinCaps
<1>3. IInv /\ WithinCaps(run) => CapacityReserved
  BY DEF IInv, Ledger, WithinCaps, CapacityReserved
<1> QED BY <1>1, <1>2, <1>3, Invariance, PTL DEF Spec

----------------------------------------------------------------------------
(* Strict lifecycle.                                                       *)

\* A consumed token was recorded as long as the run is open, so a strict seal
\* with nothing pending finds every admitted request recorded.
StrictInv ==
    /\ phase = "Open" => \A r \in Requests : token[r].st = "consumed" => r \in Completed
    /\ Strict /\ phase # "Open" => Completed = AdmittedSet /\ run.sample = {}

\* No step spoils the completeness of a strict artifact.
LEMMA StrictStep == ASSUME IInv, IInv', StrictInv, [Next]_vars PROVE StrictInv'
<1>0. TypeOK /\ token \in [Requests -> TokenType] /\ run \in RunType  BY DEF IInv, TypeOK
<1>1. ASSUME Quiet PROVE StrictInv'
  <2>1. Completed' = Completed /\ AdmittedSet' = AdmittedSet
    BY <1>1 DEF Quiet, Completed, AdmittedSet, Admitted
  <2> QED BY <1>1, <2>1 DEF Quiet, StrictInv
<1>2. ASSUME NEW r \in Requests, BeginRequest(r) PROVE StrictInv'
  <2>1. run'.requests = run.requests /\ (phase # "Open" => run' = run) /\ phase' = phase
    <3>1. "requests" \in Sections  BY DEF Sections
    <3> QED BY <1>0, <1>2, <3>1, CountDropElsewhere DEF BeginRequest
  <2>2. token[r].st = "unstarted"
    BY <1>2 DEF BeginRequest, Started
  <2>3. PICK st \in {"armed", "inert"} :
            /\ \A q \in Requests : token'[q].st = IF q = r THEN st ELSE token[q].st
            /\ phase # "Open" => st = "inert"
    BY <1>0, <1>2 DEF BeginRequest, TokenType
  <2>4. Completed' = Completed  BY <2>1 DEF Completed
  <2>5. phase # "Open" => AdmittedSet' = AdmittedSet
    BY <2>2, <2>3 DEF AdmittedSet, Admitted
  <2> QED BY <2>1, <2>3, <2>4, <2>5 DEF StrictInv
<1>3. ASSUME NEW r \in Requests, NEW outcome, FinishToken(r, outcome) PROVE StrictInv'
  <2>1. UNCHANGED <<run, phase>> /\ token[r].st = "armed"  BY <1>3 DEF FinishToken, state
  <2>2. \A q \in Requests : token'[q].st = IF q = r THEN "finishing" ELSE token[q].st
    BY <1>0, <1>3 DEF FinishToken, TokenType
  <2>3. AdmittedSet' = AdmittedSet  BY <2>1, <2>2 DEF AdmittedSet, Admitted
  <2>4. Completed' = Completed  BY <2>1 DEF Completed
  <2> QED BY <2>1, <2>2, <2>3, <2>4 DEF StrictInv
<1>4. ASSUME NEW r \in Requests, ResolveRequest(r) PROVE StrictInv'
  <2>1. phase' = phase /\ token[r].st = "finishing"  BY <1>4 DEF ResolveRequest
  <2>2. \A q \in Requests : token'[q].st = IF q = r THEN "consumed" ELSE token[q].st
    BY <1>0, <1>4 DEF ResolveRequest, TokenType
  <2>3. CASE phase = "Open"
    <3>1. r \in pending  BY <2>1, <2>3 DEF IInv, Ownership
    <3>2. run'.requests = Append(run.requests, RequestEvent(r))
      BY <1>4, <2>3, <3>1, ResolveAppends
    <3>3. run.requests \in Seq(RequestType)  BY <1>0 DEF RunType
    <3> DEFINE n == Len(run.requests)
    <3>4. /\ n \in Nat
          /\ DOMAIN run'.requests = 1 .. n + 1 /\ DOMAIN run.requests = 1 .. n
          /\ \A i \in 1 .. n : run'.requests[i] = run.requests[i]
          /\ run'.requests[n + 1] = RequestEvent(r)
      BY <3>2, <3>3
    <3>5. RequestEvent(r).key = r  BY DEF RequestEvent
    <3>6. Completed \subseteq Completed'  BY <3>4 DEF Completed
    <3>7. r \in Completed'  BY <3>4, <3>5 DEF Completed
    <3> QED BY <2>1, <2>2, <2>3, <3>6, <3>7 DEF StrictInv
  <2>4. CASE phase # "Open"
    <3>1. run' = run  BY <1>4, <2>4 DEF ResolveRequest
    <3>2. Completed' = Completed  BY <3>1 DEF Completed
    <3>3. AdmittedSet' = AdmittedSet  BY <2>1, <2>2 DEF AdmittedSet, Admitted
    <3> QED BY <2>1, <2>4, <3>1, <3>2, <3>3 DEF StrictInv
  <2> QED BY <2>3, <2>4
<1>5. ASSUME NEW c \in Callers,
             Shutdown(c) \/ SpuriousWakeup(c) \/ WriteArtifact(c) \/ CloseRun(c)
      PROVE  StrictInv'
  <2>1. UNCHANGED token
    BY <1>5 DEF Shutdown, SpuriousWakeup, WriteArtifact, CloseRun, objects
  <2>2. AdmittedSet' = AdmittedSet  BY <2>1 DEF AdmittedSet, Admitted
  <2>3. ASSUME phase = "Open", ~UnfinishedRefused, SealRun(c) PROVE StrictInv'
    <3>1. run'.requests = run.requests /\ run'.sample = PendingSamples /\ phase' = "Finalizing"
      BY <1>0, <2>3 DEF SealRun, RunType
    <3>2. Completed' = Completed  BY <3>1 DEF Completed
    <3>3. Strict => pending = {}  BY <2>3 DEF UnfinishedRefused
    <3>4. Strict => PendingSamples = {}  BY <3>3 DEF PendingSamples
    <3>5. Strict => AdmittedSet = Completed
      <4>1. Completed \subseteq AdmittedSet
        BY <1>0, RecordedKeys DEF IInv, Ownership, Completed, AdmittedSet, Admitted
      <4>2. Strict => AdmittedSet \subseteq Completed
        BY <2>3, <3>3 DEF IInv, Ownership, StrictInv, AdmittedSet, Admitted
      <4> QED BY <4>1, <4>2
    <3> QED BY <2>2, <3>1, <3>2, <3>4, <3>5 DEF StrictInv
  <2>4. ASSUME run' = run, (phase' = "Open") <=> (phase = "Open") PROVE StrictInv'
    <3>1. Completed' = Completed  BY <2>4 DEF Completed
    <3> QED BY <2>1, <2>2, <2>4, <3>1 DEF StrictInv
  <2>5. CASE Shutdown(c)  BY <2>3, <2>4, <2>5 DEF Shutdown, LeaveShutdown, state
  <2>6. CASE SpuriousWakeup(c) \/ WriteArtifact(c)
    BY <2>4, <2>6 DEF SpuriousWakeup, WriteArtifact, state
  <2>7. CASE CloseRun(c)
    <3>1. phase # "Open" /\ phase' # "Open" /\ run' = run
      BY <2>7 DEF CloseRun, IInv, OneWriter
    <3> QED BY <2>4, <3>1
  <2> QED BY <1>5, <2>5, <2>6, <2>7
<1>6. CASE UNCHANGED vars
  BY <1>1, <1>6 DEF Quiet, vars, state, notice, objects, closing
<1>7. CASE TimerStep \/ GuardStep \/ HookStep
  BY <1>0, <1>1, <1>7, TimerQuiet, GuardQuiet, HookQuiet
<1>8. CASE RequestStep  BY <1>2, <1>3, <1>4, <1>8 DEF RequestStep
<1>9. CASE ShutdownStep  BY <1>5, <1>9 DEF ShutdownStep
<1> QED BY <1>6, <1>7, <1>8, <1>9 DEF Next

\* A strict run persists an artifact only when every admitted request was
\* completed, for any interleaving of completions with shutdown().
THEOREM StrictArtifactCompleteHolds == Spec => []StrictArtifactComplete
<1>1. Init => StrictInv  BY DEF Init, StrictInv
<1>2. IInv /\ StrictInv /\ [Next]_vars => StrictInv'
  BY StepInv, StrictStep
<1>3. IInv /\ StrictInv => StrictArtifactComplete
  BY DEF IInv, OneWriter, StrictInv, StrictArtifactComplete
<1> QED BY <1>1, <1>2, <1>3, Invariance, PTL DEF Spec

----------------------------------------------------------------------------
(* The collector implements CaptureSpec, for any sets of requests, timers, *)
(* guards and callers and any capture limits.                              *)

CaptureStep == [Capture!Next]_(Capture!vars)

----------------------------------------------------------------------------
\* CaptureSpec's instance of FiniteSets counts as this module's does.
LEMMA SameCardinality == \A S : Capture!Cardinality(S) = Cardinality(S)
BY DEF Capture!Cardinality, Cardinality

\* The requests CaptureSpec takes for done are the recorded ones.
LEMMA DoneCompleted == Capture!Done = Completed
<1> DEFINE pair(i) == <<run.requests[i].key, run.requests[i].outcome>>
<1>1. \A i \in DOMAIN run.requests : pair(i)[1] = run.requests[i].key  OBVIOUS
<1>2. Recorded = {pair(i) : i \in DOMAIN run.requests}  BY DEF Recorded
<1> HIDE DEF pair
<1>3. {p[1] : p \in Recorded} = {pair(i)[1] : i \in DOMAIN run.requests}  BY <1>2
<1> QED BY <1>1, <1>3 DEF Capture!Done, Completed

\* A caller that was told a terminal result was told the published one, and
\* before publication nobody was told any.
LEMMA SeenResult == IInv => Seen \subseteq {Result} \ {"none"}
BY DEF IInv, OneWriter, Seen, Result

\* The same of the state a step ends in.
LEMMA SeenResultNext == IInv' => Seen' \subseteq {Result'} \ {"none"}
BY DEF IInv, OneWriter, Seen, Result

\* A step that neither admits, records, seals nor publishes is a caller's
\* observation of the result, or changes nothing CaptureSpec speaks of.
LEMMA FrameStep ==
    ASSUME IInv, IInv', AdmittedSet' = AdmittedSet, run'.requests = run.requests,
           phase' = phase
    PROVE  CaptureStep
<1>1. /\ Recorded' = Recorded /\ Completed' = Completed
      BY DEF Recorded, Completed
<1>2. Unfinished' = Unfinished /\ Result' = Result
  BY <1>1 DEF Unfinished, Result
<1>3. Seen \subseteq {Result} \ {"none"} /\ Seen' \subseteq {Result} \ {"none"}
  BY <1>2, SeenResult, SeenResultNext
<1>4. CASE Result = "none"
  <2>1. Seen = {} /\ Seen' = {}  BY <1>3, <1>4
  <2> QED BY <1>1, <1>2, <2>1 DEF CaptureStep, Capture!vars
<1>5. CASE Result # "none"
  <2>1. Capture!Observe
    BY <1>1, <1>2, <1>3, <1>5 DEF Capture!Observe
  <2> QED BY <2>1 DEF CaptureStep, Capture!Next
<1> QED BY <1>4, <1>5

----------------------------------------------------------------------------
\* start_request admits at most max_requests requests, each once, and only
\* while the run is open; a refusal is invisible to CaptureSpec.
LEMMA BeginRefines ==
    ASSUME IInv, IInv', NEW r \in Requests, BeginRequest(r)
    PROVE  CaptureStep
<1>0. TypeOK  BY DEF IInv
<1>t. token \in [Requests -> TokenType] /\ token[r].st = "unstarted"
  BY <1>0 DEF TypeOK, BeginRequest, Started
<1>1. UNCHANGED <<phase, caller>>  BY DEF BeginRequest, closing
<1>2. run'.requests = run.requests
  <2>1. run \in RunType /\ "requests" \in Sections  BY <1>0 DEF TypeOK, Sections
  <2> QED BY <2>1, CountDropElsewhere DEF BeginRequest
<1>3. CASE phase = "Open" /\ HasRoom
  <2>1. \A q \in Requests : token'[q].st = IF q = r THEN "armed" ELSE token[q].st
    BY <1>t, <1>3 DEF BeginRequest, TokenType
  <2>2. AdmittedSet' = AdmittedSet \cup {r} /\ r \notin AdmittedSet
    BY <1>t, <2>1 DEF AdmittedSet, Admitted
  <2>3. Cardinality(AdmittedSet) < Limits["requests"]
    <3>1. /\ Len(run.requests) \in Nat /\ Cardinality(pending) \in Nat
          /\ Limits["requests"] \in Nat
      <4>1. Cardinality(pending) \in Nat  BY <1>0, PendingFinite
      <4> QED BY <1>0, <4>1, CollectorAssumption DEF TypeOK, RunType, Sections
    <3> QED BY <1>3, <3>1 DEF IInv, Ledger, HasRoom
  <2>4. UNCHANGED <<Recorded, Unfinished, Result, Seen>>
    BY <1>1, <1>2, <1>3 DEF Recorded, Unfinished, Result, Seen
  <2>5. Capture!Admit(r)  BY <1>1, <1>3, <2>2, <2>3, <2>4, SameCardinality DEF Capture!Admit
  <2> QED BY <2>5 DEF CaptureStep, Capture!Next
<1>4. CASE ~(phase = "Open" /\ HasRoom)
  <2>1. \A q \in Requests : token'[q].st = IF q = r THEN "inert" ELSE token[q].st
    BY <1>t, <1>4 DEF BeginRequest, TokenType
  <2>2. AdmittedSet' = AdmittedSet  BY <1>t, <2>1 DEF AdmittedSet, Admitted
  <2> QED BY <1>1, <1>2, <2>2, FrameStep
<1> QED BY <1>3, <1>4

\* Disarming a token is invisible to CaptureSpec.
LEMMA FinishRefines ==
    ASSUME IInv, IInv', NEW r \in Requests, NEW outcome, FinishToken(r, outcome)
    PROVE  CaptureStep
<1>1. token \in [Requests -> TokenType] /\ token[r].st = "armed"
  BY DEF IInv, TypeOK, FinishToken
<1>2. \A q \in Requests : token'[q].st = IF q = r THEN "finishing" ELSE token[q].st
  BY <1>1 DEF FinishToken, TokenType
<1>3. AdmittedSet' = AdmittedSet  BY <1>1, <1>2 DEF AdmittedSet, Admitted
<1>4. UNCHANGED <<run, phase>>  BY DEF FinishToken, state
<1> QED BY <1>3, <1>4, FrameStep

\* resolve_request records an admitted request once with one outcome, or comes
\* after the seal and is invisible.
LEMMA ResolveRefines ==
    ASSUME IInv, IInv', NEW r \in Requests, ResolveRequest(r)
    PROVE  CaptureStep
<1>0. TypeOK  BY DEF IInv
<1>t. token \in [Requests -> TokenType] /\ token[r].st = "finishing"
  BY <1>0 DEF TypeOK, ResolveRequest
<1>1. UNCHANGED <<phase, caller>>  BY DEF ResolveRequest, closing
<1>2. \A q \in Requests : token'[q].st = IF q = r THEN "consumed" ELSE token[q].st
  BY <1>t DEF ResolveRequest, TokenType
<1>3. AdmittedSet' = AdmittedSet  BY <1>2, <1>t DEF AdmittedSet, Admitted
<1>4. CASE phase = "Open" /\ r \in pending
  <2> DEFINE n == Len(run.requests)
             outcome == token[r].outcome
  <2>1. run'.requests = Append(run.requests, RequestEvent(r))
    BY <1>4, ResolveAppends
  <2>2. run.requests \in Seq(RequestType)  BY <1>0 DEF TypeOK, RunType
  <2>3. /\ n \in Nat
        /\ DOMAIN run'.requests = 1 .. n + 1 /\ DOMAIN run.requests = 1 .. n
        /\ \A i \in 1 .. n : run'.requests[i] = run.requests[i]
        /\ run'.requests[n + 1] = RequestEvent(r)
    BY <2>1, <2>2
  <2>4. RequestEvent(r).key = r /\ RequestEvent(r).outcome = outcome
    BY DEF RequestEvent
  <2>5. Recorded' = Recorded \cup {<<r, outcome>>}
    <3> DEFINE pair(q, i) == <<q[i].key, q[i].outcome>>
    <3>1. DOMAIN run'.requests = DOMAIN run.requests \cup {n + 1}  BY <2>3
    <3>2. \A i \in DOMAIN run.requests : pair(run'.requests, i) = pair(run.requests, i)
      BY <2>3
    <3>3. pair(run'.requests, n + 1) = <<r, outcome>>  BY <2>3, <2>4
    <3>4. /\ Recorded = {pair(run.requests, i) : i \in DOMAIN run.requests}
          /\ Recorded' = {pair(run'.requests, i) : i \in DOMAIN run'.requests}
      BY DEF Recorded
    <3> HIDE DEF pair, outcome, n
    <3> QED BY <3>1, <3>2, <3>3, <3>4
  <2>6. r \in AdmittedSet  BY <1>t DEF AdmittedSet, Admitted
  <2>7. r \notin Completed  BY <1>t DEF IInv, Ownership, Completed
  <2>8. outcome \in Outcomes  BY <1>0, <1>t DEF TypeOK
  <2>9. UNCHANGED <<Unfinished, Result, Seen>>
    BY <1>1, <1>4 DEF Unfinished, Result, Seen
  <2>10. Capture!Complete(r, outcome)
    BY <1>1, <1>3, <1>4, <2>5, <2>6, <2>7, <2>9, DoneCompleted DEF Capture!Complete
  <2> QED BY <2>8, <2>10 DEF CaptureStep, Capture!Next
<1>5. CASE ~(phase = "Open" /\ r \in pending)
  <2>1. UNCHANGED run  BY <1>5 DEF ResolveRequest
  <2> QED BY <1>1, <1>3, <2>1, FrameStep
<1> QED BY <1>4, <1>5

\* shutdown() seals once, publishes the result of its one write once, and
\* otherwise at most lets a caller observe that result.
LEMMA ShutdownRefines ==
    ASSUME IInv, IInv', ShutdownStep
    PROVE  CaptureStep
<1> SUFFICES ASSUME NEW c \in Callers,
                    Shutdown(c) \/ SpuriousWakeup(c) \/ WriteArtifact(c) \/ CloseRun(c)
             PROVE  CaptureStep
  BY DEF ShutdownStep
<1>0. TypeOK  BY DEF IInv
<1>1. AdmittedSet' = AdmittedSet
  <2>1. UNCHANGED token
    BY DEF Shutdown, SpuriousWakeup, WriteArtifact, CloseRun, objects
  <2> QED BY <2>1 DEF AdmittedSet, Admitted
<1>2. ASSUME phase = "Open", SealRun(c) PROVE CaptureStep
  <2>1. run'.requests = run.requests /\ phase' = "Finalizing"
    BY <1>0, <1>2 DEF SealRun, TypeOK, RunType
  <2>2. Recorded' = Recorded /\ Completed' = Completed  BY <2>1 DEF Recorded, Completed
  <2>3. Result = "none" /\ Result' = "none"  BY <1>2, <2>1 DEF Result
  <2>4. Seen = {} /\ Seen' = {}  BY <2>3, SeenResult, SeenResultNext
  <2>5. Unfinished' = AdmittedSet \ Completed  BY <1>1, <2>1, <2>2 DEF Unfinished
  <2>6. Capture!Seal
    BY <1>1, <1>2, <2>1, <2>2, <2>3, <2>4, <2>5, DoneCompleted DEF Capture!Seal
  <2> QED BY <2>6 DEF CaptureStep, Capture!Next
<1>3. ASSUME UNCHANGED <<run, phase>> PROVE CaptureStep  BY <1>1, <1>3, FrameStep
<1>4. CASE Shutdown(c)  BY <1>2, <1>3, <1>4 DEF Shutdown, LeaveShutdown, state
<1>5. CASE SpuriousWakeup(c) \/ WriteArtifact(c)
  BY <1>3, <1>5 DEF SpuriousWakeup, WriteArtifact, state
<1>6. CASE CloseRun(c)
  <2>1. phase = "Finalizing" /\ phase' \in {"Success", "Failure"} /\ UNCHANGED run
    BY <1>6 DEF CloseRun, IInv, OneWriter
  <2>2. Recorded' = Recorded /\ Completed' = Completed  BY <2>1 DEF Recorded, Completed
  <2>3. Result = "none" /\ Result' \in {"Ok", "SinkError"}  BY <2>1 DEF Result
  <2>4. Seen' \subseteq {Result'}  BY SeenResultNext
  <2>5. Unfinished' = Unfinished  BY <1>1, <2>1, <2>2 DEF Unfinished
  <2>6. Capture!Publish
    BY <1>1, <2>1, <2>2, <2>3, <2>4, <2>5 DEF Capture!Publish
  <2> QED BY <2>6 DEF CaptureStep, Capture!Next
<1> QED BY <1>4, <1>5, <1>6

\* Every step of the collector is a step of CaptureSpec or a stutter.
LEMMA StepRefines == IInv /\ [Next]_vars => CaptureStep
<1> SUFFICES ASSUME IInv, [Next]_vars PROVE CaptureStep  OBVIOUS
<1>1. IInv' /\ TypeOK  BY StepInv DEF IInv
<1>2. ASSUME Quiet PROVE CaptureStep
  <2>1. AdmittedSet' = AdmittedSet  BY <1>2 DEF Quiet, AdmittedSet, Admitted
  <2> QED BY <1>1, <1>2, <2>1, FrameStep DEF Quiet
<1>3. CASE UNCHANGED vars
  BY <1>2, <1>3 DEF Quiet, vars, state, notice, objects, closing
<1>4. CASE RequestStep
  BY <1>1, <1>4, BeginRefines, FinishRefines, ResolveRefines DEF RequestStep
<1>5. CASE TimerStep \/ GuardStep \/ HookStep
  BY <1>1, <1>2, <1>5, TimerQuiet, GuardQuiet, HookQuiet
<1> QED BY <1>1, <1>3, <1>4, <1>5, ShutdownRefines DEF Next

\* A new run is an initial state of CaptureSpec.
LEMMA InitRefines == Init => Capture!Init
<1> SUFFICES ASSUME Init PROVE Capture!Init  OBVIOUS
<1>1. AdmittedSet = {}  BY DEF Init, AdmittedSet, Admitted
<1>2. run.requests = <<>>  BY DEF Init, EmptyRun
<1>3. Recorded = {}  BY <1>2 DEF Recorded
<1>4. Unfinished = {} /\ Result = "none" /\ Seen = {}
  BY DEF Init, Unfinished, Result, Seen
<1> QED BY <1>1, <1>3, <1>4 DEF Init, Capture!Init

\* The collector implements CaptureSpec: bounded admission, each admitted request
\* recorded at most once and never after the seal, the unfinished ones fixed
\* by the seal, and one terminal result that every caller is told.
THEOREM ImplementsCaptureHolds == Spec => ImplementsCapture
BY InitRefines, StepRefines, Invariance, PTL DEF Spec, ImplementsCapture, Capture!Spec, CaptureStep

----------------------------------------------------------------------------
(* Truncation.                                                             *)

\* A step that counts no drop and leaves the latch alone keeps the account.
LEMMA NothingDropped ==
    ASSUME TruncationHonest, run'.dropped = run.dropped, run'.limits_hit = run.limits_hit,
           UNCHANGED <<latch, notifying, fired>>
    PROVE  TruncationHonest'
BY DEF TruncationHonest

\* A counted drop sets limits_hit, and its compare-exchange makes one thread
\* at most owe the callback.
LEMMA DropAdmitted ==
    ASSUME TypeOK, TruncationHonest, NEW x \in Sections,
           run' = [run EXCEPT !.dropped[x] = @ + 1, !.limits_hit = TRUE],
           MarkLimitsHit(TRUE)
    PROVE  TruncationHonest'
<1>1. run \in RunType /\ run.dropped \in [Sections -> Nat]  BY DEF TypeOK, RunType
<1>2. run'.limits_hit = TRUE /\ run'.dropped[x] = run.dropped[x] + 1
  BY <1>1 DEF RunType
<1>3. run'.dropped[x] > 0  BY <1>1, <1>2
<1>4. latch' = TRUE /\ fired' = fired
      /\ notifying' = notifying + (IF ~latch THEN 1 ELSE 0)
  BY DEF MarkLimitsHit
<1>5. fired' + notifying' <= 1
  BY <1>4 DEF TruncationHonest, TypeOK
<1> QED BY <1>2, <1>3, <1>4, <1>5 DEF TruncationHonest

\* push_*_bounded drops, and marks the latch, exactly on overflow.
LEMMA PushAdmitted ==
    ASSUME TypeOK, TruncationHonest, NEW x \in Sections, NEW ev,
           run' = PushBounded(run, x, ev), MarkLimitsHit(Overflows(run, x))
    PROVE  TruncationHonest'
<1>1. run \in RunType  BY DEF TypeOK
<1>2. CASE Overflows(run, x)
  <2>1. run' = [run EXCEPT !.dropped[x] = @ + 1, !.limits_hit = TRUE]
    BY <1>1, <1>2 DEF PushBounded, Overflows, RunType
  <2>2. MarkLimitsHit(TRUE)  BY <1>2 DEF MarkLimitsHit
  <2> QED BY <2>1, <2>2, DropAdmitted
<1>3. CASE ~Overflows(run, x)
  <2>1. run' = [run EXCEPT ![x] = Append(@, ev)]
    BY <1>3 DEF PushBounded, Overflows
  <2>2. run'.dropped = run.dropped /\ run'.limits_hit = run.limits_hit
    BY <1>1, <2>1 DEF RunType, Sections
  <2>3. UNCHANGED <<latch, notifying, fired>>
    BY <1>3 DEF MarkLimitsHit, TypeOK
  <2> QED BY <2>2, <2>3, NothingDropped
<1> QED BY <1>2, <1>3

\* No step drops without admitting it, or admits what was not dropped.
LEMMA StepTruncation ==
    ASSUME TypeOK, TruncationHonest, [Next]_vars
    PROVE  TruncationHonest'
<1>0. run \in RunType /\ notifying \in Nat /\ fired \in Nat  BY DEF TypeOK
<1>1. CASE UNCHANGED <<run, latch, notice>>
  BY <1>1, NothingDropped DEF notice
<1>2. CASE RequestStep
  <2> SUFFICES ASSUME NEW r \in Requests,
                      \/ BeginRequest(r)
                      \/ \E outcome \in Outcomes : FinishToken(r, outcome)
                      \/ ResolveRequest(r)
               PROVE  TruncationHonest'
    BY <1>2 DEF RequestStep
  <2>1. "requests" \in Sections  BY DEF Sections
  <2>2. CASE BeginRequest(r)
    <3> DEFINE refused == phase = "Open" /\ ~HasRoom
    <3>1. CASE refused
      <4>1. run' = [run EXCEPT !.dropped["requests"] = @ + 1, !.limits_hit = TRUE]
        BY <2>2, <3>1 DEF BeginRequest
      <4>2. MarkLimitsHit(TRUE)  BY <2>2, <3>1 DEF BeginRequest, MarkLimitsHit
      <4> QED BY <2>1, <4>1, <4>2, DropAdmitted
    <3>2. CASE ~refused
      <4>1. UNCHANGED <<run, latch, notice>>
        BY <1>0, <2>2, <3>2 DEF BeginRequest, MarkLimitsHit, notice, TypeOK
      <4> QED BY <1>1, <4>1
    <3> QED BY <3>1, <3>2
  <2>3. ASSUME NEW outcome, FinishToken(r, outcome) PROVE UNCHANGED <<run, latch, notice>>
    BY <2>3 DEF FinishToken, state
  <2>4. CASE ResolveRequest(r)
    BY <1>1, <2>1, <2>4, PushAdmitted DEF ResolveRequest
  <2> QED BY <1>1, <2>2, <2>3, <2>4
<1>3. CASE TimerStep
  <2> SUFFICES ASSUME NEW t \in Timers,
                      \/ PollTimer(t)
                      \/ \E completed \in BOOLEAN : EndTimer(t, completed)
                      \/ RecordChild(t)
               PROVE  TruncationHonest'
    BY <1>3 DEF TimerStep
  <2>1. TimerSection[t] \in Sections  BY CollectorAssumption DEF Sections
  <2>2. CASE RecordChild(t)
    BY <1>1, <2>1, <2>2, PushAdmitted DEF RecordChild
  <2>3. CASE PollTimer(t)  BY <1>1, <2>3 DEF PollTimer, state
  <2>4. ASSUME NEW completed, EndTimer(t, completed) PROVE UNCHANGED <<run, latch, notice>>
    BY <2>4 DEF EndTimer, state
  <2> QED BY <1>1, <2>2, <2>3, <2>4
<1>4. CASE GuardStep
  <2> SUFFICES ASSUME NEW k \in Guards, CreateGuard(k) \/ DropGuard(k)
               PROVE  TruncationHonest'
    BY <1>4 DEF GuardStep
  <2>1. "inflight" \in Sections  BY DEF Sections
  <2>2. CASE CreateGuard(k)
    BY <1>1, <2>1, <2>2, PushAdmitted, DropAdmitted DEF CreateGuard
  <2>3. CASE DropGuard(k)  BY <1>1, <2>1, <2>3, PushAdmitted DEF DropGuard
  <2> QED BY <2>2, <2>3
<1>5. CASE HookStep
  <2>1. ASSUME NEW snapshot, RecordRuntimeSnapshot(snapshot) PROVE TruncationHonest'
    <3>1. "runtime" \in Sections  BY DEF Sections
    <3> QED BY <2>1, <3>1, PushAdmitted DEF RecordRuntimeSnapshot
  <2>2. CASE RegisterSampler
    <3>1. run'.dropped = run.dropped /\ run'.limits_hit = run.limits_hit
      BY <1>0, <2>2 DEF RegisterSampler, RunType
    <3> QED BY <2>2, <3>1, NothingDropped DEF RegisterSampler, notice
  <2>3. ASSUME NEW reason, SetRunEndReasonIfAbsent(reason) PROVE TruncationHonest'
    <3>1. run'.dropped = run.dropped /\ run'.limits_hit = run.limits_hit
      BY <1>0, <2>3 DEF SetRunEndReasonIfAbsent, RunType
    <3> QED BY <2>3, <3>1, NothingDropped DEF SetRunEndReasonIfAbsent, notice
  <2>4. ASSUME NEW on, SetLimitsHitListener(on) PROVE TruncationHonest'
    BY <2>4, NothingDropped DEF SetLimitsHitListener, state
  <2>5. CASE NotifyLimitsHitListener
    <3>1. UNCHANGED <<run, latch>>  BY <2>5 DEF NotifyLimitsHitListener, state
    <3>2. /\ fired' \in Nat /\ notifying' \in Nat
          /\ fired' + notifying' <= fired + notifying
      BY <1>0, <2>5 DEF NotifyLimitsHitListener
    <3>3. ASSUME NEW b \in Nat, fired + notifying <= b PROVE fired' + notifying' <= b
      <4>1. ASSUME NEW x \in Nat, NEW y \in Nat, NEW u \in Nat, NEW v \in Nat,
                   u + v <= x + y, x + y <= b
            PROVE  u + v <= b
        BY <3>3, <4>1
      <4> QED BY <1>0, <3>2, <3>3, <4>1
    <3>4. fired' + notifying' <= (IF latch THEN 1 ELSE 0)
      BY <3>3 DEF TruncationHonest
    <3> QED BY <3>1, <3>4 DEF TruncationHonest
  <2> QED BY <1>5, <2>1, <2>2, <2>3, <2>4, <2>5 DEF HookStep
<1>6. CASE ShutdownStep
  <2> SUFFICES ASSUME NEW c \in Callers,
                      Shutdown(c) \/ SpuriousWakeup(c) \/ WriteArtifact(c) \/ CloseRun(c)
               PROVE  TruncationHonest'
    BY <1>6 DEF ShutdownStep
  <2>1. UNCHANGED <<latch, notice>>
    BY DEF Shutdown, SealRun, LeaveShutdown, SpuriousWakeup, WriteArtifact, CloseRun, state
  <2>2. CASE SealRun(c)
    <3>1. run'.dropped = run.dropped /\ run'.limits_hit = run.limits_hit
      BY <1>0, <2>2 DEF SealRun, RunType
    <3> QED BY <2>1, <3>1, NothingDropped DEF notice
  <2>3. CASE ~SealRun(c)
    <3>1. run' = run
      BY <2>3 DEF Shutdown, LeaveShutdown, SpuriousWakeup, WriteArtifact, CloseRun, state
    <3> QED BY <1>1, <2>1, <3>1
  <2> QED BY <2>2, <2>3
<1>7. CASE UNCHANGED vars  BY <1>1, <1>7 DEF vars, state
<1> QED BY <1>2, <1>3, <1>4, <1>5, <1>6, <1>7 DEF Next

\* The artifact admits truncation exactly when something was dropped, and the
\* listener is called at most once, whatever the limits and the number of
\* threads that overflow a section at once.
THEOREM TruncationHonestHolds == Spec => []TruncationHonest
<1>1. Init => TruncationHonest
  BY DEF Init, EmptyRun, TruncationHonest
<1>2. IInv /\ TruncationHonest /\ [Next]_vars => TruncationHonest'
  BY StepTruncation DEF IInv
<1> QED BY <1>1, <1>2, Invariance, PTL DEF Spec

----------------------------------------------------------------------------
(* In-flight gauges.                                                       *)

LiveGuards(g) == {k \in Guards : guard[k] = "enabled" /\ GuardGauge[k] = g}

\* What the open run knows of a gauge: its live count, and whether it holds a
\* slot.
GaugeExact(g) ==
    /\ GaugeCount(g) = Cardinality(LiveGuards(g))
    /\ g \in DOMAIN inflight_counts <=> LiveGuards(g) # {}

SlotsBounded == Cardinality(DOMAIN inflight_counts) <= Limits["inflight"]

\* GaugesMatchGuards, gauge by gauge.
LEMMA GaugesByName ==
    GaugesMatchGuards <=> SlotsBounded /\ (phase = "Open" => \A g \in Gauges : GaugeExact(g))
BY DEF GaugesMatchGuards, SlotsBounded, GaugeExact, LiveGuards

\* The same in the next state.
LEMMA GaugesByNameNext ==
    GaugesMatchGuards' <=> SlotsBounded' /\ (phase' = "Open" => \A g \in Gauges : GaugeExact(g)')
BY DEF GaugesMatchGuards, SlotsBounded, GaugeExact, LiveGuards

\* A gauge whose guards and count a step leaves alone stays exact.
LEMMA GaugeKept ==
    ASSUME NEW g, GaugeExact(g), LiveGuards(g)' = LiveGuards(g),
           GaugeCount(g)' = GaugeCount(g),
           (g \in DOMAIN inflight_counts') <=> (g \in DOMAIN inflight_counts)
    PROVE  GaugeExact(g)'
BY DEF GaugeExact

\* The slots and the guards on one gauge are finitely many.
LEMMA GaugesFinite ==
    ASSUME TypeOK
    PROVE  /\ IsFiniteSet(DOMAIN inflight_counts)
           /\ \A g : IsFiniteSet(LiveGuards(g))
<1>1. IsFiniteSet(Gauges)
  <2> DEFINE f == [k \in Guards |-> GuardGauge[k]]
  <2>1. f \in Surjection(Guards, Gauges)  BY DEF Surjection, Gauges
  <2> QED BY <2>1, CollectorAssumption, FS_Surjection
<1>2. IsFiniteSet(DOMAIN inflight_counts)  BY <1>1, FS_Subset DEF TypeOK
<1>3. ASSUME NEW g PROVE IsFiniteSet(LiveGuards(g))
  BY CollectorAssumption, FS_Subset DEF LiveGuards
<1> QED BY <1>2, <1>3

\* inflight() keeps the gauges exact, whether it counts or gives an inert
\* guard.
LEMMA CreateGauges ==
    ASSUME TypeOK, GaugesMatchGuards, NEW k \in Guards, CreateGuard(k)
    PROVE  GaugesMatchGuards'
<1> DEFINE h == GuardGauge[k]
           n == GaugeCount(h)
<1>0. /\ guard \in [Guards -> {"new", "enabled", "inert", "dropped"}]
      /\ guard[k] = "new" /\ phase' = phase
      /\ \A g : IsFiniteSet(LiveGuards(g))
      /\ IsFiniteSet(DOMAIN inflight_counts)
      /\ SlotsBounded
  BY GaugesFinite, GaugesByName DEF CreateGuard, TypeOK
<1>1. CASE UNCHANGED inflight_counts /\ guard' = [guard EXCEPT ![k] = "inert"]
  <2>1. SlotsBounded'  BY <1>0, <1>1 DEF SlotsBounded
  <2>2. ASSUME NEW g, GaugeExact(g) PROVE GaugeExact(g)'
    <3>1. LiveGuards(g)' = LiveGuards(g)  BY <1>0, <1>1 DEF LiveGuards
    <3>2. GaugeCount(g)' = GaugeCount(g)  BY <1>1 DEF GaugeCount
    <3> QED BY <1>1, <2>2, <3>1, <3>2, GaugeKept
  <2> QED BY <1>0, <2>1, <2>2, GaugesByName, GaugesByNameNext
<1>2. CASE /\ phase = "Open"
           /\ h \in DOMAIN inflight_counts
              \/ ~(Cardinality(DOMAIN inflight_counts) >= Limits["inflight"])
           /\ inflight_counts' = SetGauge(h, n + 1)
           /\ guard' = [guard EXCEPT ![k] = "enabled"]
  <2>1. DOMAIN inflight_counts' = DOMAIN inflight_counts \cup {h}
    BY <1>2 DEF SetGauge
  <2>2. SlotsBounded'
    <3>1. Limits["inflight"] \in Nat  BY CollectorAssumption DEF Sections
    <3>2. Cardinality(DOMAIN inflight_counts) \in Nat  BY <1>0, FS_CardinalityType
    <3>3. CASE h \in DOMAIN inflight_counts
      <4>1. DOMAIN inflight_counts' = DOMAIN inflight_counts  BY <2>1, <3>3
      <4> QED BY <1>0, <4>1 DEF SlotsBounded
    <3>4. CASE h \notin DOMAIN inflight_counts
      <4>1. Cardinality(DOMAIN inflight_counts \cup {h}) = Cardinality(DOMAIN inflight_counts) + 1
        BY <1>0, <3>4, FS_AddElement
      <4>2. Cardinality(DOMAIN inflight_counts) < Limits["inflight"]
        BY <1>2, <3>1, <3>2, <3>4
      <4>3. Cardinality(DOMAIN inflight_counts) + 1 <= Limits["inflight"]
        BY <3>1, <3>2, <4>2
      <4> QED BY <2>1, <4>1, <4>3, Zenon DEF SlotsBounded
    <3> QED BY <3>3, <3>4
  <2>3. ASSUME NEW g \in Gauges PROVE GaugeExact(g)'
    <3>0. GaugeExact(g)  BY <1>2, GaugesByName
    <3>1. CASE g # h
      <4>1. LiveGuards(g)' = LiveGuards(g)  BY <1>0, <1>2, <3>1 DEF LiveGuards
      <4>2. GaugeCount(g)' = GaugeCount(g)
        BY <1>2, <3>1 DEF GaugeCount, SetGauge
      <4> QED BY <2>1, <3>0, <3>1, <4>1, <4>2, GaugeKept
    <3>2. CASE g = h
      <4>1. LiveGuards(h)' = LiveGuards(h) \cup {k} /\ k \notin LiveGuards(h)
        BY <1>0, <1>2 DEF LiveGuards
      <4>2. Cardinality(LiveGuards(h) \cup {k}) = Cardinality(LiveGuards(h)) + 1
        BY <1>0, <4>1, FS_AddElement
      <4>3. GaugeCount(h)' = n + 1  BY <1>2 DEF GaugeCount, SetGauge
      <4>4. n = Cardinality(LiveGuards(h))  BY <3>0, <3>2 DEF GaugeExact
      <4>5. Cardinality(LiveGuards(h)') = Cardinality(LiveGuards(h)) + 1
        BY <4>1, <4>2, Zenon
      <4>6. GaugeCount(h)' = Cardinality(LiveGuards(h)')  BY <4>3, <4>4, <4>5, Zenon
      <4>7. h \in DOMAIN inflight_counts' /\ LiveGuards(h)' # {}
        BY <2>1, <4>1
      <4> QED BY <3>2, <4>6, <4>7 DEF GaugeExact
    <3> QED BY <3>1, <3>2
  <2> QED BY <2>2, <2>3, GaugesByNameNext
<1> QED BY <1>1, <1>2 DEF CreateGuard

\* Dropping a guard takes it off its gauge, and the gauge off its slot when
\* it was the last; the count it decrements is never zero.
LEMMA DropGauges ==
    ASSUME TypeOK, GaugesMatchGuards, NEW k \in Guards, DropGuard(k)
    PROVE  GaugesMatchGuards'
<1> DEFINE h == GuardGauge[k]
           n == GaugeCount(h)
<1>0. /\ guard \in [Guards -> {"new", "enabled", "inert", "dropped"}]
      /\ guard[k] = "enabled" /\ phase' = phase
      /\ guard' = [guard EXCEPT ![k] = "dropped"]
      /\ \A g : IsFiniteSet(LiveGuards(g))
      /\ IsFiniteSet(DOMAIN inflight_counts)
      /\ SlotsBounded
  BY GaugesFinite, GaugesByName DEF DropGuard, TypeOK
<1>1. CASE phase # "Open"
  <2>1. UNCHANGED inflight_counts  BY <1>1 DEF DropGuard
  <2> QED BY <1>0, <1>1, <2>1, GaugesByNameNext DEF SlotsBounded
<1>2. CASE phase = "Open"
  <2>0. h \in Gauges /\ GaugeExact(h)  BY <1>2, GaugesByName DEF Gauges
  <2>1. k \in LiveGuards(h)  BY <1>0 DEF LiveGuards
  <2>2. n \in Nat /\ n > 0 /\ h \in DOMAIN inflight_counts
    <3>1. n = Cardinality(LiveGuards(h))  BY <2>0 DEF GaugeExact
    <3>2. Cardinality(LiveGuards(h)) \in Nat /\ Cardinality(LiveGuards(h)) # 0
      BY <1>0, <2>1, FS_CardinalityType, FS_EmptySet
    <3>3. h \in DOMAIN inflight_counts  BY <2>0, <2>1 DEF GaugeExact
    <3>4. n \in Nat /\ n # 0  BY <3>1, <3>2, Zenon
    <3> HIDE DEF n
    <3> QED BY <3>3, <3>4
  <2>3. inflight_counts' = IF n - 1 = 0 THEN RemoveGauge(h) ELSE SetGauge(h, n - 1)
    BY <1>2, <2>2 DEF DropGuard
  <2>4. DOMAIN inflight_counts'
          = IF n - 1 = 0 THEN DOMAIN inflight_counts \ {h} ELSE DOMAIN inflight_counts
    BY <2>2, <2>3 DEF RemoveGauge, SetGauge
  <2>5. SlotsBounded'
    <3>1. Limits["inflight"] \in Nat  BY CollectorAssumption DEF Sections
    <3>2. DOMAIN inflight_counts' \subseteq DOMAIN inflight_counts  BY <2>4
    <3>3. /\ Cardinality(DOMAIN inflight_counts') <= Cardinality(DOMAIN inflight_counts)
          /\ Cardinality(DOMAIN inflight_counts') \in Nat
          /\ Cardinality(DOMAIN inflight_counts) \in Nat
      BY <1>0, <3>2, FS_Subset, FS_CardinalityType
    <3> QED BY <1>0, <3>1, <3>3 DEF SlotsBounded
  <2>6. ASSUME NEW g \in Gauges PROVE GaugeExact(g)'
    <3>0. GaugeExact(g)  BY <1>2, GaugesByName
    <3>1. CASE g # h
      <4>1. LiveGuards(g)' = LiveGuards(g)  BY <1>0, <3>1 DEF LiveGuards
      <4>2. GaugeCount(g)' = GaugeCount(g)
        BY <2>3, <3>1 DEF GaugeCount, SetGauge, RemoveGauge
      <4> QED BY <2>4, <3>0, <3>1, <4>1, <4>2, GaugeKept
    <3>2. CASE g = h
      <4>1. LiveGuards(h)' = LiveGuards(h) \ {k}
        BY <1>0 DEF LiveGuards
      <4>2. /\ IsFiniteSet(LiveGuards(h) \ {k})
            /\ Cardinality(LiveGuards(h) \ {k}) = Cardinality(LiveGuards(h)) - 1
        BY <1>0, <2>1, FS_RemoveElement
      <4>3. GaugeCount(h)' = n - 1  BY <2>2, <2>3, <2>4 DEF GaugeCount, SetGauge, RemoveGauge
      <4>4. n = Cardinality(LiveGuards(h))  BY <3>0, <3>2 DEF GaugeExact
      <4>5. Cardinality(LiveGuards(h)') = n - 1  BY <4>1, <4>2, <4>4, Zenon
      <4>6. (LiveGuards(h)' = {}) <=> (n - 1 = 0)
        BY <4>1, <4>2, <4>5, FS_EmptySet, Zenon
      <4>7. (h \in DOMAIN inflight_counts') <=> (n - 1 # 0)  BY <2>2, <2>4
      <4> QED BY <3>2, <4>3, <4>5, <4>6, <4>7 DEF GaugeExact
    <3> QED BY <3>1, <3>2
  <2> QED BY <2>5, <2>6, GaugesByNameNext
<1> QED BY <1>1, <1>2

\* A step of anything but a guard leaves the gauges alone, and none reopens a
\* sealed run.
LEMMA GaugesUntouched ==
    ASSUME IInv, [Next]_vars, ~GuardStep
    PROVE  UNCHANGED <<inflight_counts, guard>> /\ (phase' = "Open" => phase = "Open")
<1>1. CASE UNCHANGED vars  BY <1>1 DEF vars, state, objects
<1>2. CASE RequestStep
  BY <1>2 DEF RequestStep, BeginRequest, FinishToken, ResolveRequest, state
<1>3. CASE TimerStep
  BY <1>3 DEF TimerStep, PollTimer, EndTimer, RecordChild, state
<1>4. CASE HookStep
  BY <1>4 DEF HookStep, RecordRuntimeSnapshot, RegisterSampler, SetRunEndReasonIfAbsent,
              SetLimitsHitListener, NotifyLimitsHitListener, state, objects
<1>5. CASE ShutdownStep
  BY <1>5 DEF ShutdownStep, Shutdown, SealRun, LeaveShutdown, SpuriousWakeup, WriteArtifact,
              CloseRun, state, objects
<1> QED BY <1>1, <1>2, <1>3, <1>4, <1>5 DEF Next

\* While the run is open every gauge counts its live guards, and only gauges
\* with one occupy a slot of max_inflight, for any guards, gauges and limits.
THEOREM GaugesMatchGuardsHolds == Spec => []GaugesMatchGuards
<1>1. Init => GaugesMatchGuards
  <2> SUFFICES ASSUME Init PROVE GaugesMatchGuards  OBVIOUS
  <2>1. DOMAIN inflight_counts = {}  BY DEF Init
  <2>2. SlotsBounded
    BY <2>1, FS_EmptySet, CollectorAssumption DEF SlotsBounded, Sections
  <2>3. ASSUME NEW g PROVE GaugeExact(g)
    <3>1. LiveGuards(g) = {}  BY DEF Init, LiveGuards
    <3> QED BY <2>1, <3>1, FS_EmptySet DEF GaugeExact, GaugeCount
  <2> QED BY <2>2, <2>3, GaugesByName
<1>2. IInv /\ GaugesMatchGuards /\ [Next]_vars => GaugesMatchGuards'
  <2> SUFFICES ASSUME IInv, GaugesMatchGuards, [Next]_vars PROVE GaugesMatchGuards'
    OBVIOUS
  <2>1. TypeOK  BY DEF IInv
  <2>2. CASE GuardStep  BY <2>1, <2>2, CreateGauges, DropGauges DEF GuardStep
  <2>3. CASE ~GuardStep
    <3>1. UNCHANGED <<inflight_counts, guard>> /\ (phase' = "Open" => phase = "Open")
      BY <2>3, GaugesUntouched
    <3>2. SlotsBounded => SlotsBounded'  BY <3>1 DEF SlotsBounded
    <3>3. ASSUME NEW g, GaugeExact(g) PROVE GaugeExact(g)'
      BY <3>1, <3>3 DEF GaugeExact, GaugeCount, LiveGuards
    <3> QED BY <3>1, <3>2, <3>3, GaugesByName, GaugesByNameNext
  <2> QED BY <2>2, <2>3
<1> QED BY <1>1, <1>2, Invariance, PTL DEF Spec
----------------------------------------------------------------------------
(* Normalization leaves nothing to exclude, clear or repair: what holds of *)
(* any run of well-formed events (NormalizationProofs) holds of the        *)
(* collector's.                                                            *)

\* The run that the collector keeps is made of well-formed events.
LEMMA RunIsEvidence ==
    ASSUME NEW rn \in RunType
    PROVE  EvidenceRun(rn)
<1>1. /\ rn.requests \in Seq(RequestType)
      /\ rn.stages \in Seq(ChildType) /\ rn.queues \in Seq(ChildType)
      /\ rn.inflight \in Seq([gauge : Gauges, count : Nat])
      /\ rn.runtime \in Seq({"ok", "zero_workers"})
  BY DEF RunType
<1>2. rn = [f \in DOMAIN rn |-> rn[f]] /\ RunSections \subseteq DOMAIN rn
  BY DEF RunType, RunSections
<1>3. ASSUME NEW ev \in RequestType PROVE WellFormed(ev)
  BY DEF RequestType, WellFormed, EventFields, EventShapes, ShapeType
<1>4. ASSUME NEW ev \in ChildType PROVE WellFormed(ev)
  BY DEF ChildType, WellFormed, EventFields, EventShapes, ShapeType
<1>5. IsSection(rn.requests) /\ \A i \in DOMAIN rn.requests : rn.requests[i] \in RequestType
  BY <1>1, SequenceIsSection
<1>6. IsSection(rn.stages) /\ \A i \in DOMAIN rn.stages : rn.stages[i] \in ChildType
  BY <1>1, SequenceIsSection
<1>7. IsSection(rn.queues) /\ \A i \in DOMAIN rn.queues : rn.queues[i] \in ChildType
  BY <1>1, SequenceIsSection
<1>8. IsSection(rn.inflight)
  BY <1>1, SequenceIsSection
<1>9. IsSection(rn.runtime) /\ \A i \in DOMAIN rn.runtime : rn.runtime[i] \in {"ok", "zero_workers"}
  BY <1>1, SequenceIsSection
<1>10. QED
  BY <1>2, <1>3, <1>4, <1>5, <1>6, <1>7, <1>8, <1>9 DEF EvidenceRun, EventSection

\* Whatever the interleaving, the artifact a sink persisted passes strict
\* evidence validation.
THEOREM ArtifactEvidenceValidHolds == Spec => []ArtifactEvidenceValid
<1>1. TypeOK => ArtifactEvidenceValid
  BY RunIsEvidence, NormalizedValid DEF TypeOK, ArtifactEvidenceValid, Artifact
<1> QED BY <1>1, TypeCorrect, PTL
----------------------------------------------------------------------------
(* Sound evidence reaches the artifact.                                    *)

\* A recorded request is its token's event, and a consumed token is final.
RequestsAnchored ==
    \A i \in DOMAIN run.requests : run.requests[i] = RequestEvent(run.requests[i].key)

\* A recorded child is its timer's event, in the timer's section, once.
ChildAnchored(x, i) ==
    LET t == run[x][i].timer
    IN  TimerSection[t] = x /\ timer[t].st = "recorded" /\ run[x][i] = ChildEvent(t)

ChildrenAnchored(x) ==
    /\ \A i \in DOMAIN run[x] : ChildAnchored(x, i)
    /\ \A i, j \in DOMAIN run[x] : run[x][i].timer = run[x][j].timer => i = j

\* A token's interval runs forward on the run clock.
TokenClocked(r) ==
    /\ Started(r) => token[r].s < now
    /\ token[r].st \in {"finishing", "consumed"} => token[r].s <= token[r].e

\* So does a timer's, and it starts after its request did.
TimerClocked(t) ==
    /\ timer[t].st # "new" =>
           /\ Started(TimerOwner[t])
           /\ token[TimerOwner[t]].s <= timer[t].s
           /\ timer[t].s < now
    /\ timer[t].st \in {"ending", "recorded"} => timer[t].s <= timer[t].e

EvidenceInv ==
    /\ RequestsAnchored
    /\ \A x \in {"stages", "queues"} : ChildrenAnchored(x)
    /\ \A r \in Requests : TokenClocked(r)
    /\ \A t \in Timers : TimerClocked(t)

\* A step that leaves the three request sections, the tokens, the timers and
\* the clock alone keeps the evidence.
LEMMA EvidenceKept ==
    ASSUME EvidenceInv, UNCHANGED <<token, timer, now>>,
           \A x \in {"requests", "stages", "queues"} : run'[x] = run[x]
    PROVE  EvidenceInv'
<1>1. run'.requests = run.requests  OBVIOUS
<1>2. RequestsAnchored'
  BY <1>1 DEF EvidenceInv, RequestsAnchored, RequestEvent
<1>3. ASSUME NEW x \in {"stages", "queues"} PROVE ChildrenAnchored(x)'
  <2>1. run'[x] = run[x] /\ ChildrenAnchored(x)  BY DEF EvidenceInv
  <2> QED BY <2>1 DEF ChildrenAnchored, ChildAnchored, ChildEvent
<1>4. \A r \in Requests : TokenClocked(r)'
  BY DEF EvidenceInv, TokenClocked, Started
<1>5. \A t \in Timers : TimerClocked(t)'
  BY DEF EvidenceInv, TimerClocked, Started
<1> QED BY <1>2, <1>3, <1>4, <1>5 DEF EvidenceInv

\* Pushing on one section leaves the others alone.
LEMMA PushLeavesOthers ==
    ASSUME NEW rn \in RunType, NEW x \in Sections, NEW y \in Sections \ {x}, NEW ev
    PROVE  PushBounded(rn, x, ev)[y] = rn[y]
BY DEF PushBounded, RunType, Sections

\* Pushing appends to its section or leaves it alone.
LEMMA PushAppends ==
    ASSUME NEW rn \in RunType, NEW x \in Sections, NEW ev
    PROVE  LET p == PushBounded(rn, x, ev) IN p[x] = rn[x] \/ p[x] = Append(rn[x], ev)
BY DEF PushBounded, RunType, Sections

\* Guards, hooks and shutdown() touch none of the request evidence.
LEMMA OthersKeepEvidence ==
    ASSUME TypeOK, GuardStep \/ HookStep \/ ShutdownStep
    PROVE  /\ UNCHANGED <<token, timer, now>>
           /\ \A x \in {"requests", "stages", "queues"} : run'[x] = run[x]
<1>0. run \in RunType  BY DEF TypeOK
<1> DEFINE Keeps == \A x \in {"requests", "stages", "queues"} : run'[x] = run[x]
<1>1. ASSUME NEW x \in {"inflight", "runtime"}, NEW ev, run' = PushBounded(run, x, ev)
      PROVE  Keeps
  <2>1. x \in Sections /\ {"requests", "stages", "queues"} \subseteq Sections \ {x}
    BY DEF Sections
  <2> QED BY <1>0, <1>1, <2>1, PushLeavesOthers
<1>2. ASSUME run' = [run EXCEPT !.dropped["inflight"] = @ + 1, !.limits_hit = TRUE]
      PROVE  Keeps
  BY <1>0, <1>2 DEF RunType
<1>3. CASE GuardStep
  <2> SUFFICES ASSUME NEW k \in Guards, CreateGuard(k) \/ DropGuard(k)
               PROVE  UNCHANGED <<token, timer, now>> /\ Keeps
    BY <1>3 DEF GuardStep
  <2>1. UNCHANGED <<token, timer, now>>  BY DEF CreateGuard, DropGuard
  <2>2. \/ run' = run
        \/ run' = [run EXCEPT !.dropped["inflight"] = @ + 1, !.limits_hit = TRUE]
        \/ \E ev : run' = PushBounded(run, "inflight", ev)
    BY DEF CreateGuard, DropGuard
  <2> QED BY <1>1, <1>2, <2>1, <2>2
<1>4. CASE HookStep
  <2>1. UNCHANGED <<token, timer, now>>
    BY <1>4 DEF HookStep, RecordRuntimeSnapshot, RegisterSampler, SetRunEndReasonIfAbsent,
                SetLimitsHitListener, NotifyLimitsHitListener, objects
  <2>2. \/ run' = run
        \/ \E ev : run' = PushBounded(run, "runtime", ev)
        \/ run' = [run EXCEPT !.sampler = TRUE]
        \/ \E reason : run' = [run EXCEPT !.end_reason = reason]
    BY <1>4 DEF HookStep, RecordRuntimeSnapshot, RegisterSampler, SetRunEndReasonIfAbsent,
                SetLimitsHitListener, NotifyLimitsHitListener, state
  <2>3. CASE run' = [run EXCEPT !.sampler = TRUE]  BY <1>0, <2>1, <2>3 DEF RunType
  <2>4. ASSUME NEW reason, run' = [run EXCEPT !.end_reason = reason] PROVE Keeps
    BY <1>0, <2>4 DEF RunType
  <2> QED BY <1>1, <2>1, <2>2, <2>3, <2>4
<1>5. CASE ShutdownStep
  <2> SUFFICES ASSUME NEW c \in Callers,
                      Shutdown(c) \/ SpuriousWakeup(c) \/ WriteArtifact(c) \/ CloseRun(c)
               PROVE  UNCHANGED <<token, timer, now>> /\ Keeps
    BY <1>5 DEF ShutdownStep
  <2>1. UNCHANGED <<token, timer, now>>
    BY DEF Shutdown, SpuriousWakeup, WriteArtifact, CloseRun, objects
  <2>2. CASE SealRun(c)  BY <1>0, <2>1, <2>2 DEF SealRun, RunType
  <2>3. CASE ~SealRun(c)
    <3>1. run' = run
      BY <2>3 DEF Shutdown, LeaveShutdown, SpuriousWakeup, WriteArtifact, CloseRun, state
    <3> QED BY <2>1, <3>1
  <2> QED BY <2>2, <2>3
<1> QED BY <1>3, <1>4, <1>5

\* Admission starts a token that no recorded event and no polled timer can
\* refer to.
LEMMA BeginEvidence ==
    ASSUME IInv, EvidenceInv, NEW r \in Requests, BeginRequest(r)
    PROVE  EvidenceInv'
<1>0. /\ run \in RunType /\ token \in [Requests -> TokenType] /\ now \in Nat
      /\ timer \in [Timers -> TimerType]
      /\ run.requests \in Seq(RequestType)
  BY DEF IInv, TypeOK, RunType
<1>1. token[r].st = "unstarted" /\ now' = now + 1 /\ timer' = timer
  BY DEF BeginRequest, Started, Tick
<1>2. \A x \in {"requests", "stages", "queues"} : run'[x] = run[x]
  <2>1. run' = run \/ run' = [run EXCEPT !.dropped["requests"] = @ + 1, !.limits_hit = TRUE]
    BY DEF BeginRequest
  <2>2. ASSUME run' = [run EXCEPT !.dropped["requests"] = @ + 1, !.limits_hit = TRUE],
               NEW x \in {"requests", "stages", "queues"}
        PROVE  run'[x] = run[x]
    BY <1>0, <2>2 DEF RunType
  <2> QED BY <2>1, <2>2
<1>3. /\ \A q \in Requests \ {r} : token'[q] = token[q]
      /\ token'[r].s = now /\ token'[r].st \in {"armed", "inert"}
  <2> DEFINE st == IF phase = "Open" /\ HasRoom THEN "armed" ELSE "inert"
  <2>1. token' = [token EXCEPT ![r].s = now, ![r].st = st]  BY DEF BeginRequest
  <2>2. st \in {"armed", "inert"}  OBVIOUS
  <2> HIDE DEF st
  <2>3. token' = [token EXCEPT ![r] = [token[r] EXCEPT !.s = now, !.st = st]]
    BY <1>0, <2>1
  <2> QED BY <1>0, <2>2, <2>3 DEF TokenType
<1>4. RequestsAnchored'
  <2>1. run'.requests = run.requests  BY <1>2
  <2>2. \A i \in DOMAIN run.requests : run.requests[i].key \in Requests \ {r}
    <3>1. \A i \in DOMAIN run.requests : run.requests[i].key \in Requests
      BY RecordedKeys DEF IInv
    <3>2. \A i \in DOMAIN run.requests : token[run.requests[i].key].st = "consumed"
      BY DEF IInv, Ownership
    <3> QED BY <1>1, <3>1, <3>2
  <2>3. \A q \in Requests \ {r} : RequestEvent(q)' = RequestEvent(q)
    BY <1>3 DEF RequestEvent
  <2> QED BY <2>1, <2>2, <2>3 DEF EvidenceInv, RequestsAnchored
<1>5. ASSUME NEW x \in {"stages", "queues"} PROVE ChildrenAnchored(x)'
  <2>1. run'[x] = run[x] /\ ChildrenAnchored(x)  BY <1>2 DEF EvidenceInv
  <2> QED BY <1>1, <2>1 DEF ChildrenAnchored, ChildAnchored, ChildEvent
<1>6. ASSUME NEW q \in Requests PROVE TokenClocked(q)'
  <2>1. TokenClocked(q) /\ token[q].s \in Nat  BY <1>0 DEF EvidenceInv, TokenType
  <2>2. CASE q = r  BY <1>0, <1>1, <1>3, <2>2 DEF TokenClocked, Started
  <2>3. CASE q # r  BY <1>0, <1>1, <1>3, <2>1, <2>3 DEF TokenClocked, Started
  <2> QED BY <2>2, <2>3
<1>7. ASSUME NEW t \in Timers PROVE TimerClocked(t)'
  <2>1. TimerClocked(t) /\ timer[t].s \in Nat  BY <1>0 DEF EvidenceInv, TimerType
  <2>2. TimerOwner[t] \in Requests  BY CollectorAssumption
  <2>3. CASE timer[t].st = "new"  BY <1>1, <2>3 DEF TimerClocked
  <2>4. CASE timer[t].st # "new"
    <3>1. TimerOwner[t] # r  BY <1>1, <2>1, <2>4 DEF TimerClocked, Started
    <3>2. token'[TimerOwner[t]] = token[TimerOwner[t]]  BY <1>3, <2>2, <3>1
    <3>3. timer[t].s < now + 1  BY <1>0, <2>1, <2>4 DEF TimerClocked
    <3> QED BY <1>1, <2>1, <3>2, <3>3 DEF TimerClocked, Started
  <2> QED BY <2>3, <2>4
<1> QED BY <1>4, <1>5, <1>6, <1>7 DEF EvidenceInv

\* finish() or Drop closes the interval of a token that is not yet recorded.
LEMMA FinishEvidence ==
    ASSUME IInv, EvidenceInv, NEW r \in Requests, NEW outcome, FinishToken(r, outcome)
    PROVE  EvidenceInv'
<1>0. /\ run \in RunType /\ token \in [Requests -> TokenType] /\ now \in Nat
      /\ timer \in [Timers -> TimerType]
      /\ run.requests \in Seq(RequestType)
  BY DEF IInv, TypeOK, RunType
<1>1. token[r].st = "armed" /\ now' = now + 1 /\ UNCHANGED <<run, timer>>
  BY DEF FinishToken, Tick, state
<1>2. /\ \A q \in Requests \ {r} : token'[q] = token[q]
      /\ token'[r].st = "finishing" /\ token'[r].s = token[r].s /\ token'[r].e = now
  <2>1. PICK sh \in Shapes :
            token' = [token EXCEPT ![r].st = "finishing", ![r].e = now,
                                   ![r].shape = sh, ![r].outcome = outcome]
    BY DEF FinishToken
  <2>2. token' = [token EXCEPT ![r] = [token[r] EXCEPT !.st = "finishing", !.e = now,
                                                       !.shape = sh, !.outcome = outcome]]
    BY <1>0, <2>1
  <2> QED BY <1>0, <2>2 DEF TokenType
<1>3. RequestsAnchored'
  <2>1. \A i \in DOMAIN run.requests : run.requests[i].key \in Requests \ {r}
    <3>1. \A i \in DOMAIN run.requests : run.requests[i].key \in Requests
      BY RecordedKeys DEF IInv
    <3>2. \A i \in DOMAIN run.requests : token[run.requests[i].key].st = "consumed"
      BY DEF IInv, Ownership
    <3> QED BY <1>1, <3>1, <3>2
  <2>2. \A q \in Requests \ {r} : RequestEvent(q)' = RequestEvent(q)
    BY <1>2 DEF RequestEvent
  <2> QED BY <1>1, <2>1, <2>2 DEF EvidenceInv, RequestsAnchored
<1>4. ASSUME NEW x \in {"stages", "queues"} PROVE ChildrenAnchored(x)'
  <2>1. run'[x] = run[x] /\ ChildrenAnchored(x)  BY <1>1 DEF EvidenceInv
  <2> QED BY <1>1, <2>1 DEF ChildrenAnchored, ChildAnchored, ChildEvent
<1>5. ASSUME NEW q \in Requests PROVE TokenClocked(q)'
  <2>1. TokenClocked(q) /\ token[q].s \in Nat  BY <1>0 DEF EvidenceInv, TokenType
  <2>2. CASE q = r
    <3>1. token[r].s < now  BY <1>1, <2>1, <2>2 DEF TokenClocked, Started
    <3>2. token[r].s < now + 1 /\ token[r].s <= now  BY <1>0, <2>1, <2>2, <3>1
    <3> QED BY <1>1, <1>2, <2>2, <3>2 DEF TokenClocked, Started
  <2>3. CASE q # r  BY <1>0, <1>1, <1>2, <2>1, <2>3 DEF TokenClocked, Started
  <2> QED BY <2>2, <2>3
<1>6. ASSUME NEW t \in Timers PROVE TimerClocked(t)'
  <2>1. TimerClocked(t) /\ timer[t].s \in Nat  BY <1>0 DEF EvidenceInv, TimerType
  <2>2. TimerOwner[t] \in Requests  BY CollectorAssumption
  <2>3. /\ token'[TimerOwner[t]].s = token[TimerOwner[t]].s
        /\ Started(TimerOwner[t]) => Started(TimerOwner[t])'
    BY <1>1, <1>2, <2>2 DEF Started
  <2>4. timer[t].st # "new" => timer[t].s < now + 1  BY <1>0, <2>1 DEF TimerClocked
  <2> QED BY <1>1, <2>1, <2>3, <2>4 DEF TimerClocked
<1> QED BY <1>3, <1>4, <1>5, <1>6 DEF EvidenceInv

\* resolve_request records the event of the token it consumes.
LEMMA ResolveEvidence ==
    ASSUME IInv, EvidenceInv, NEW r \in Requests, ResolveRequest(r)
    PROVE  EvidenceInv'
<1>0. /\ run \in RunType /\ token \in [Requests -> TokenType]
      /\ run.requests \in Seq(RequestType)
  BY DEF IInv, TypeOK, RunType
<1>1. token[r].st = "finishing" /\ UNCHANGED <<now, timer>>  BY DEF ResolveRequest
<1>2. /\ \A q \in Requests \ {r} : token'[q] = token[q]
      /\ token'[r] = [token[r] EXCEPT !.st = "consumed"]
      /\ token'[r].st = "consumed" /\ token'[r].s = token[r].s /\ token'[r].e = token[r].e
      /\ token'[r].shape = token[r].shape /\ token'[r].outcome = token[r].outcome
  <2>1. token' = [token EXCEPT ![r] = [token[r] EXCEPT !.st = "consumed"]]
    BY <1>0 DEF ResolveRequest
  <2> QED BY <1>0, <2>1 DEF TokenType
<1>3. \A q \in Requests : RequestEvent(q)' = RequestEvent(q)
  BY <1>2 DEF RequestEvent
<1>4. /\ run'.requests = run.requests \/ run'.requests = Append(run.requests, RequestEvent(r))
      /\ \A x \in {"stages", "queues"} : run'[x] = run[x]
  <2>1. run' = run \/ run' = PushBounded(run, "requests", RequestEvent(r))
    BY DEF ResolveRequest
  <2>2. "requests" \in Sections /\ {"stages", "queues"} \subseteq Sections \ {"requests"}
    BY DEF Sections
  <2> QED BY <1>0, <2>1, <2>2, PushLeavesOthers, PushAppends
<1>5. RequestsAnchored'
  <2>1. \A i \in DOMAIN run.requests :
            run.requests[i].key \in Requests /\ run.requests[i] = RequestEvent(run.requests[i].key)
    BY RecordedKeys DEF IInv, EvidenceInv, RequestsAnchored
  <2>2. CASE run'.requests = run.requests
    BY <1>3, <2>1, <2>2 DEF RequestsAnchored
  <2>3. CASE run'.requests = Append(run.requests, RequestEvent(r))
    <3> DEFINE n == Len(run.requests)
    <3>1. /\ DOMAIN run'.requests = 1 .. n + 1 /\ DOMAIN run.requests = 1 .. n /\ n \in Nat
          /\ \A i \in 1 .. n : run'.requests[i] = run.requests[i]
          /\ run'.requests[n + 1] = RequestEvent(r)
      BY <1>0, <2>3
    <3>2. RequestEvent(r).key = r  BY DEF RequestEvent
    <3> SUFFICES ASSUME NEW i \in DOMAIN run'.requests
                 PROVE  (run.requests[i] = RequestEvent(run.requests[i].key))'
      BY DEF RequestsAnchored
    <3>3. CASE i \in 1 .. n  BY <1>3, <2>1, <3>1, <3>3
    <3>4. CASE i = n + 1  BY <1>3, <3>1, <3>2, <3>4
    <3> QED BY <3>1, <3>3, <3>4
  <2> QED BY <1>4, <2>2, <2>3
<1>6. ASSUME NEW x \in {"stages", "queues"} PROVE ChildrenAnchored(x)'
  <2>1. run'[x] = run[x] /\ ChildrenAnchored(x)  BY <1>4 DEF EvidenceInv
  <2> QED BY <1>1, <2>1 DEF ChildrenAnchored, ChildAnchored, ChildEvent
<1>7. ASSUME NEW q \in Requests PROVE TokenClocked(q)'
  <2>1. TokenClocked(q)  BY DEF EvidenceInv
  <2> QED BY <1>1, <1>2, <2>1 DEF TokenClocked, Started
<1>8. ASSUME NEW t \in Timers PROVE TimerClocked(t)'
  <2>1. TimerClocked(t) /\ TimerOwner[t] \in Requests
    BY CollectorAssumption DEF EvidenceInv
  <2>2. /\ token'[TimerOwner[t]].s = token[TimerOwner[t]].s
        /\ Started(TimerOwner[t]) => Started(TimerOwner[t])'
    BY <1>1, <1>2, <2>1 DEF Started
  <2> QED BY <1>1, <2>1, <2>2 DEF TimerClocked
<1> QED BY <1>5, <1>6, <1>7, <1>8 DEF EvidenceInv

\* The timer of a recorded child.
LEMMA RecordedTimers ==
    ASSUME TypeOK, NEW x \in {"stages", "queues"}
    PROVE  /\ run[x] \in Seq(ChildType)
           /\ \A i \in DOMAIN run[x] : run[x][i].timer \in Timers
<1>1. run[x] \in Seq(ChildType)
  <2>1. CASE x = "stages"  BY <2>1 DEF TypeOK, RunType
  <2>2. CASE x = "queues"  BY <2>2 DEF TypeOK, RunType
  <2> QED BY <2>1, <2>2
<1>2. ASSUME NEW i \in DOMAIN run[x] PROVE run[x][i].timer \in Timers
  <2> DEFINE q == run[x]
  <2>1. q[i] \in ChildType  BY <1>1
  <2> HIDE DEF q
  <2>2. q[i].timer \in Timers  BY <2>1 DEF ChildType
  <2> QED BY <2>2 DEF q
<1> QED BY <1>1, <1>2

\* A step that changes one timer, not yet recorded, and records nothing keeps
\* the recorded children.
LEMMA ChildrenKeptAnchored ==
    ASSUME TypeOK, NEW x \in {"stages", "queues"}, ChildrenAnchored(x), run'[x] = run[x],
           NEW t \in Timers, timer[t].st # "recorded",
           \A u \in Timers \ {t} : timer'[u] = timer[u]
    PROVE  ChildrenAnchored(x)'
<1>1. \A i \in DOMAIN run[x] : run[x][i].timer \in Timers \ {t}
  BY RecordedTimers DEF ChildrenAnchored, ChildAnchored
<1>2. \A u \in Timers \ {t} : ChildEvent(u)' = ChildEvent(u) /\ timer'[u].st = timer[u].st
  BY DEF ChildEvent
<1>3. ASSUME NEW i \in DOMAIN run[x] PROVE ChildAnchored(x, i)'
  <2>1. ChildAnchored(x, i)  BY DEF ChildrenAnchored
  <2> QED BY <1>1, <1>2, <2>1 DEF ChildAnchored
<1> QED BY <1>3 DEF ChildrenAnchored

\* The first poll starts a timer's interval after its request's.
LEMMA PollEvidence ==
    ASSUME IInv, EvidenceInv, NEW t \in Timers, PollTimer(t)
    PROVE  EvidenceInv'
<1>0. /\ token \in [Requests -> TokenType] /\ now \in Nat
      /\ timer \in [Timers -> TimerType] /\ TypeOK
      /\ TimerOwner \in [Timers -> Requests]
  BY CollectorAssumption DEF IInv, TypeOK
<1>1. /\ timer[t].st = "new" /\ Started(TimerOwner[t])
      /\ now' = now + 1 /\ UNCHANGED <<run, token>>
  BY DEF PollTimer, Tick, state
<1>2. /\ \A u \in Timers \ {t} : timer'[u] = timer[u]
      /\ timer'[t].s = now /\ timer'[t].st \in {"armed", "inert"}
  <2> DEFINE st == IF Admitted(TimerOwner[t]) THEN "armed" ELSE "inert"
  <2>1. timer' = [timer EXCEPT ![t].s = now, ![t].st = st]  BY DEF PollTimer
  <2>2. st \in {"armed", "inert"}  OBVIOUS
  <2> HIDE DEF st
  <2>3. timer' = [timer EXCEPT ![t] = [timer[t] EXCEPT !.s = now, !.st = st]]
    BY <1>0, <2>1
  <2> QED BY <1>0, <2>2, <2>3 DEF TimerType
<1>3. RequestsAnchored'
  BY <1>1 DEF EvidenceInv, RequestsAnchored, RequestEvent
<1>4. ASSUME NEW x \in {"stages", "queues"} PROVE ChildrenAnchored(x)'
  <2>1. run'[x] = run[x] /\ ChildrenAnchored(x)  BY <1>1 DEF EvidenceInv
  <2> QED BY <1>0, <1>1, <1>2, <2>1, ChildrenKeptAnchored
<1>5. ASSUME NEW q \in Requests PROVE TokenClocked(q)'
  <2>1. TokenClocked(q) /\ token[q].s \in Nat  BY <1>0 DEF EvidenceInv, TokenType
  <2>2. Started(q) => token[q].s < now + 1  BY <1>0, <2>1 DEF TokenClocked
  <2> QED BY <1>1, <2>1, <2>2 DEF TokenClocked, Started
<1>6. ASSUME NEW u \in Timers PROVE TimerClocked(u)'
  <2>1. TimerClocked(u) /\ timer[u].s \in Nat  BY <1>0 DEF EvidenceInv, TimerType
  <2>2. CASE u = t
    <3>1. token[TimerOwner[t]].s \in Nat /\ TokenClocked(TimerOwner[t])
      BY <1>0 DEF EvidenceInv, TokenType
    <3>2. token[TimerOwner[t]].s <= now /\ now < now + 1
      BY <1>0, <1>1, <3>1 DEF TokenClocked
    <3> QED BY <1>1, <1>2, <2>2, <3>2 DEF TimerClocked, Started
  <2>3. CASE u # t
    <3>1. timer[u].st # "new" => timer[u].s < now + 1  BY <1>0, <2>1 DEF TimerClocked
    <3> QED BY <1>1, <1>2, <2>1, <2>3, <3>1 DEF TimerClocked, Started
  <2> QED BY <2>2, <2>3
<1> QED BY <1>3, <1>4, <1>5, <1>6 DEF EvidenceInv

\* A ready or dropped helper future closes its interval.
LEMMA EndEvidence ==
    ASSUME IInv, EvidenceInv, NEW t \in Timers, NEW completed, EndTimer(t, completed)
    PROVE  EvidenceInv'
<1>0. /\ token \in [Requests -> TokenType] /\ now \in Nat
      /\ timer \in [Timers -> TimerType] /\ TypeOK
  BY DEF IInv, TypeOK
<1>1. timer[t].st = "armed" /\ now' = now + 1 /\ UNCHANGED <<run, token>>
  BY DEF EndTimer, Tick, state
<1>2. /\ \A u \in Timers \ {t} : timer'[u] = timer[u]
      /\ timer'[t].st = "ending" /\ timer'[t].s = timer[t].s /\ timer'[t].e = now
  <2>1. PICK sh \in Shapes :
            timer' = [timer EXCEPT ![t].st = "ending", ![t].e = now,
                                   ![t].shape = sh, ![t].completed = completed]
    BY DEF EndTimer
  <2>2. timer' = [timer EXCEPT ![t] = [timer[t] EXCEPT !.st = "ending", !.e = now,
                                                       !.shape = sh, !.completed = completed]]
    BY <1>0, <2>1
  <2> QED BY <1>0, <2>2 DEF TimerType
<1>3. RequestsAnchored'
  BY <1>1 DEF EvidenceInv, RequestsAnchored, RequestEvent
<1>4. ASSUME NEW x \in {"stages", "queues"} PROVE ChildrenAnchored(x)'
  <2>1. run'[x] = run[x] /\ ChildrenAnchored(x)  BY <1>1 DEF EvidenceInv
  <2> QED BY <1>0, <1>1, <1>2, <2>1, ChildrenKeptAnchored
<1>5. ASSUME NEW q \in Requests PROVE TokenClocked(q)'
  <2>1. TokenClocked(q) /\ token[q].s \in Nat  BY <1>0 DEF EvidenceInv, TokenType
  <2>2. Started(q) => token[q].s < now + 1  BY <1>0, <2>1 DEF TokenClocked
  <2> QED BY <1>1, <2>1, <2>2 DEF TokenClocked, Started
<1>6. ASSUME NEW u \in Timers PROVE TimerClocked(u)'
  <2>1. TimerClocked(u) /\ timer[u].s \in Nat  BY <1>0 DEF EvidenceInv, TimerType
  <2>2. timer[u].st # "new" => timer[u].s < now + 1 /\ timer[u].s <= now
    BY <1>0, <2>1 DEF TimerClocked
  <2>3. CASE u = t  BY <1>1, <1>2, <2>1, <2>2, <2>3 DEF TimerClocked, Started
  <2>4. CASE u # t  BY <1>1, <1>2, <2>1, <2>2, <2>4 DEF TimerClocked, Started
  <2> QED BY <2>3, <2>4
<1> QED BY <1>3, <1>4, <1>5, <1>6 DEF EvidenceInv

\* record_stage_event and record_queue_event record a timer once, in its own
\* section.
LEMMA RecordEvidence ==
    ASSUME IInv, EvidenceInv, NEW t \in Timers, RecordChild(t)
    PROVE  EvidenceInv'
<1> DEFINE sec == TimerSection[t]
<1>0. /\ run \in RunType /\ timer \in [Timers -> TimerType] /\ TypeOK
      /\ sec \in {"stages", "queues"}
  BY CollectorAssumption DEF IInv, TypeOK
<1>1. timer[t].st = "ending" /\ UNCHANGED <<now, token>>  BY DEF RecordChild
<1>2. /\ \A u \in Timers \ {t} : timer'[u] = timer[u]
      /\ timer'[t].st = "recorded" /\ timer'[t].s = timer[t].s /\ timer'[t].e = timer[t].e
      /\ timer'[t].shape = timer[t].shape /\ timer'[t].completed = timer[t].completed
  <2>1. timer' = [timer EXCEPT ![t] = [timer[t] EXCEPT !.st = "recorded"]]
    BY <1>0 DEF RecordChild
  <2> QED BY <1>0, <2>1 DEF TimerType
<1>3. /\ \A x \in {"requests", "stages", "queues"} \ {sec} : run'[x] = run[x]
      /\ run'[sec] = run[sec] \/ run'[sec] = Append(run[sec], ChildEvent(t))
  <2>1. run' = run \/ run' = PushBounded(run, sec, ChildEvent(t))
    BY DEF RecordChild
  <2>2. sec \in Sections /\ {"requests", "stages", "queues"} \ {sec} \subseteq Sections \ {sec}
    BY <1>0 DEF Sections
  <2> HIDE DEF sec
  <2> QED BY <1>0, <2>1, <2>2, PushLeavesOthers, PushAppends
<1>4. RequestsAnchored'
  <2>1. run'.requests = run.requests  BY <1>0, <1>3
  <2> QED BY <1>1, <2>1 DEF EvidenceInv, RequestsAnchored, RequestEvent
<1>5. ASSUME NEW x \in {"stages", "queues"} PROVE ChildrenAnchored(x)'
  <2>0. ChildrenAnchored(x)  BY DEF EvidenceInv
  <2>1. CASE run'[x] = run[x]
    BY <1>0, <1>1, <1>2, <2>0, <2>1, ChildrenKeptAnchored
  <2>2. CASE x = sec /\ run'[x] = Append(run[x], ChildEvent(t))
    <3> DEFINE n == Len(run[x])
    <3>0. run[x] \in Seq(ChildType)  BY <1>0, RecordedTimers
    <3>1. /\ DOMAIN run'[x] = 1 .. n + 1 /\ DOMAIN run[x] = 1 .. n /\ n \in Nat
          /\ \A i \in 1 .. n : run'[x][i] = run[x][i]
          /\ run'[x][n + 1] = ChildEvent(t)
      BY <2>2, <3>0
    <3>2. ChildEvent(t).timer = t /\ ChildEvent(t)' = ChildEvent(t)
      BY <1>2 DEF ChildEvent
    <3>3. \A i \in 1 .. n : run[x][i].timer \in Timers \ {t} /\ ChildAnchored(x, i)
      BY <1>0, <1>1, <2>0, <3>1, RecordedTimers DEF ChildrenAnchored, ChildAnchored
    <3>4. \A u \in Timers \ {t} : ChildEvent(u)' = ChildEvent(u) /\ timer'[u].st = timer[u].st
      BY <1>2 DEF ChildEvent
    <3>5. ASSUME NEW i \in DOMAIN run'[x] PROVE ChildAnchored(x, i)'
      <4>1. CASE i \in 1 .. n
        <5>1. run'[x][i] = run[x][i]  BY <3>1, <4>1
        <5> QED BY <3>3, <3>4, <4>1, <5>1 DEF ChildAnchored
      <4>2. CASE i = n + 1
        <5>1. run'[x][i] = ChildEvent(t)  BY <3>1, <4>2
        <5> QED BY <1>2, <2>2, <3>2, <5>1 DEF ChildAnchored
      <4> QED BY <3>1, <4>1, <4>2
    <3>6. ASSUME NEW i \in DOMAIN run'[x], NEW j \in DOMAIN run'[x],
                 run'[x][i].timer = run'[x][j].timer
          PROVE  i = j
      <4>1. CASE i \in 1 .. n /\ j \in 1 .. n
        BY <2>0, <3>1, <3>6, <4>1 DEF ChildrenAnchored
      <4>2. CASE i = n + 1 /\ j \in 1 .. n  BY <3>1, <3>2, <3>3, <3>6, <4>2
      <4>3. CASE j = n + 1 /\ i \in 1 .. n  BY <3>1, <3>2, <3>3, <3>6, <4>3
      <4>4. CASE i = n + 1 /\ j = n + 1  BY <4>4
      <4> QED BY <3>1, <4>1, <4>2, <4>3, <4>4
    <3> QED BY <3>5, <3>6 DEF ChildrenAnchored
  <2> QED BY <1>3, <2>1, <2>2
<1>6. ASSUME NEW q \in Requests PROVE TokenClocked(q)'
  BY <1>1 DEF EvidenceInv, TokenClocked, Started
<1>7. ASSUME NEW u \in Timers PROVE TimerClocked(u)'
  <2>1. TimerClocked(u)  BY DEF EvidenceInv
  <2> QED BY <1>1, <1>2, <2>1 DEF TimerClocked, Started
<1> QED BY <1>4, <1>5, <1>6, <1>7 DEF EvidenceInv

\* The recorded evidence stays anchored in its tokens and timers.
LEMMA EvidenceInvariance == Spec => [](IInv /\ EvidenceInv)
<1>1. Init => EvidenceInv
  <2> SUFFICES ASSUME Init PROVE EvidenceInv  OBVIOUS
  <2>1. run.requests = <<>> /\ run.stages = <<>> /\ run.queues = <<>>
    BY DEF Init, EmptyRun
  <2>2. RequestsAnchored  BY <2>1 DEF RequestsAnchored
  <2>3. \A x \in {"stages", "queues"} : ChildrenAnchored(x)
    <3>1. \A x \in {"stages", "queues"} : DOMAIN run[x] = {}  BY <2>1
    <3> QED BY <3>1 DEF ChildrenAnchored
  <2>4. \A r \in Requests : TokenClocked(r)  BY DEF Init, TokenClocked, Started
  <2>5. \A t \in Timers : TimerClocked(t)  BY DEF Init, TimerClocked
  <2> QED BY <2>2, <2>3, <2>4, <2>5 DEF EvidenceInv
<1>2. IInv /\ EvidenceInv /\ [Next]_vars => EvidenceInv'
  <2> SUFFICES ASSUME IInv, EvidenceInv, [Next]_vars PROVE EvidenceInv'  OBVIOUS
  <2>1. CASE RequestStep
    BY <2>1, BeginEvidence, FinishEvidence, ResolveEvidence DEF RequestStep
  <2>2. CASE TimerStep
    BY <2>2, PollEvidence, EndEvidence, RecordEvidence DEF TimerStep
  <2>3. CASE GuardStep \/ HookStep \/ ShutdownStep
    BY <2>3, OthersKeepEvidence, EvidenceKept DEF IInv
  <2>4. CASE UNCHANGED vars
    BY <2>4, EvidenceKept DEF vars, state, objects
  <2> QED BY <2>1, <2>2, <2>3, <2>4 DEF Next
<1> QED BY <1>1, <1>2, InitInv, StepInv, PTL DEF Spec

\* An interval taken from the run clock is precise and needs no clearing.
LEMMA ClockedIsSound ==
    ASSUME NEW ev, ev.s \in Nat, ev.e \in Nat, ev.s <= ev.e, ev.dur = ev.e - ev.s
    PROVE  ~PrecisionBad(ev) /\ ClearBad(ev) = ev
<1>1. Precise(ev)  BY DEF Precise, NoOffset
<1>2. AbsDiff(ev.dur, ev.e - ev.s) = 0  BY DEF AbsDiff
<1>3. ~PrecisionBad(ev)
  BY <1>1, <1>2, ToleranceAssumption DEF PrecisionBad
<1> QED BY <1>3 DEF ClearBad

\* Clearing offsets does not touch what identifies an event.
LEMMA ClearedKeys ==
    /\ \A ev \in RequestType : ClearBad(ev).key = ev.key
    /\ \A ev \in ChildType : ClearBad(ev).timer = ev.timer
<1>1. ASSUME NEW ev \in RequestType PROVE ClearBad(ev).key = ev.key
  BY DEF ClearBad, RequestType
<1>2. ASSUME NEW ev \in ChildType PROVE ClearBad(ev).timer = ev.timer
  BY DEF ClearBad, ChildType
<1> QED BY <1>1, <1>2

\* A set with one member has one.
LEMMA OneMember ==
    ASSUME NEW S, NEW x \in S, \A y \in S : y = x
    PROVE  Cardinality(S) = 1
<1>1. S = {x}  OBVIOUS
<1> QED BY <1>1, FS_Singleton

\* The recorded request r, whose interval is sound and whose id no other
\* sound request carries.
Sole(r) ==
    /\ token[r].shape = "ok"
    /\ \A q \in Completed \ {r} : RequestId[q] = RequestId[r] => token[q].shape # "ok"

\* Such a request is retained.
LEMMA SoleRetained ==
    ASSUME IInv, EvidenceInv, NEW i \in DOMAIN run.requests, Sole(run.requests[i].key)
    PROVE  /\ i \in KeptRequests(run.requests)
           /\ ClearBad(run.requests[i]) = run.requests[i]
<1> DEFINE reqs == run.requests
           r == reqs[i].key
<1>1. \A k \in DOMAIN reqs :
          /\ reqs[k].key \in Completed
          /\ reqs[k].id = RequestId[reqs[k].key] /\ reqs[k].shape = token[reqs[k].key].shape
  <2> SUFFICES ASSUME NEW k \in DOMAIN reqs
               PROVE  /\ reqs[k].key \in Completed
                      /\ reqs[k].id = RequestId[reqs[k].key]
                      /\ reqs[k].shape = token[reqs[k].key].shape
    OBVIOUS
  <2>1. reqs[k].key \in Completed  BY DEF Completed
  <2>2. reqs[k] = RequestEvent(reqs[k].key)  BY DEF EvidenceInv, RequestsAnchored
  <2>3. ASSUME NEW q PROVE RequestEvent(q).id = RequestId[q]
                           /\ RequestEvent(q).shape = token[q].shape
    BY DEF RequestEvent
  <2> HIDE DEF reqs
  <2> QED BY <2>1, <2>2, <2>3
<1>2. \A k, l \in DOMAIN reqs : reqs[k].key = reqs[l].key => k = l  BY DEF IInv, Ownership
<1>3. reqs[i].id \notin DupIds(reqs)
  <2> SUFFICES ASSUME NEW k \in DOMAIN reqs, NEW l \in DOMAIN reqs \ {k},
                      reqs[k].id = reqs[l].id, reqs[k].shape = "ok", reqs[l].shape = "ok",
                      reqs[i].id = reqs[k].id
               PROVE  FALSE
    BY DEF DupIds
  <2>1. reqs[k].key # r \/ reqs[l].key # r  BY <1>2
  <2> HIDE DEF reqs, r
  <2> QED BY <1>1, <2>1 DEF Sole, r, reqs
<1>4. RequestRetained(reqs, reqs[i])  BY <1>1, <1>3 DEF RequestRetained, Sole
<1>5. ClearBad(reqs[i]) = reqs[i]
  <2>1. r \in Requests /\ token[r] \in TokenType /\ token[r].st = "consumed" /\ TokenClocked(r)
    BY RecordedKeys DEF IInv, TypeOK, Ownership, EvidenceInv
  <2>2. token[r].s \in Nat /\ token[r].e \in Nat /\ token[r].s <= token[r].e
    BY <2>1 DEF TokenType, TokenClocked
  <2>3. reqs[i] = RequestEvent(r)  BY DEF EvidenceInv, RequestsAnchored
  <2>4. /\ reqs[i].s = token[r].s /\ reqs[i].e = token[r].e
        /\ reqs[i].dur = token[r].e - token[r].s
    BY <2>3 DEF RequestEvent
  <2> HIDE DEF reqs, r
  <2> QED BY <2>2, <2>4, ClockedIsSound
<1> QED BY <1>4, <1>5 DEF KeptRequests

\* It is in the artifact once.
LEMMA SoleInArtifact ==
    ASSUME IInv, EvidenceInv, candidate = run, NEW i \in DOMAIN run.requests,
           Sole(run.requests[i].key)
    PROVE  InArtifact("requests", "key", run.requests[i].key)
<1> DEFINE reqs == run.requests
           K == KeptRequests(reqs)
           out == RetainedRequests(reqs)
           r == reqs[i].key
           S == {n \in DOMAIN out : out[n]["key"] = r}
<1>0. run \in RunType /\ reqs \in Seq(RequestType)  BY DEF IInv, TypeOK, RunType
<1>00. IsSection(reqs)  BY <1>0, SequenceIsSection
<1>1. Artifact["requests"] = out  BY <1>0, RunIsEvidence, SectionsOut DEF Artifact
<1>2. i \in K  BY SoleRetained
<1>3. PICK n \in DOMAIN out : Index(K, n) = i  BY <1>00, <1>2, RequestsKept
<1>4. \A m \in DOMAIN out : Index(K, m) \in K /\ out[m] = ClearBad(reqs[Index(K, m)])
  BY <1>00, RequestsKept
<1>5. \A k \in K : k \in DOMAIN reqs /\ ClearBad(reqs[k]).key = reqs[k].key
  BY <1>0, ClearedKeys DEF KeptRequests
<1>6. \A m, l \in DOMAIN out : Index(K, m) = Index(K, l) => m = l  BY <1>00, RequestsKept
<1>7. \A k \in DOMAIN reqs : reqs[k].key = r => k = i  BY DEF IInv, Ownership
<1>8. n \in S /\ \A m \in S : m = n
  <2> HIDE DEF K, out, reqs, r
  <2>1. n \in S  BY <1>3, <1>4, <1>5 DEF r
  <2>2. ASSUME NEW m \in S PROVE m = n
    BY <1>3, <1>4, <1>5, <1>6, <1>7, <2>2
  <2> QED BY <2>1, <2>2
<1>9. Cardinality(S) = 1
  <2> HIDE DEF S
  <2> QED BY <1>8, OneMember
<1> QED BY <1>1, <1>9 DEF InArtifact

\* A recorded sound child that ended before such a request did is retained
\* under it, and in the artifact once.
LEMMA ChildInArtifact ==
    ASSUME IInv, EvidenceInv, candidate = run, NEW i \in DOMAIN run.requests,
           Sole(run.requests[i].key), NEW t \in Timers, TimerOwner[t] = run.requests[i].key,
           NEW x \in {"stages", "queues"}, NEW j \in DOMAIN run[x], run[x][j].timer = t,
           timer[t].shape = "ok", timer[t].e < token[run.requests[i].key].e
    PROVE  InArtifact(x, "timer", t)
<1> DEFINE reqs == run.requests
           cs == run[x]
           r == reqs[i].key
           K == KeptChildren(reqs, cs)
           out == RetainedChildren(reqs, cs)
           S == {n \in DOMAIN out : out[n]["timer"] = t}
<1>0. /\ run \in RunType /\ TypeOK
      /\ cs \in Seq(ChildType)
  BY RecordedTimers DEF IInv, TypeOK
<1>00. IsSection(cs)  BY <1>0, SequenceIsSection
<1>1. Artifact[x] = out
  <2>1. CASE x = "stages"  BY <1>0, <2>1, RunIsEvidence, SectionsOut DEF Artifact
  <2>2. CASE x = "queues"  BY <1>0, <2>2, RunIsEvidence, SectionsOut DEF Artifact
  <2> QED BY <2>1, <2>2
<1>2. /\ i \in KeptRequests(reqs) /\ ClearBad(reqs[i]) = reqs[i]
  BY SoleRetained
<1>3. reqs[i].id = RequestId[r] /\ reqs[i].s = token[r].s /\ reqs[i].e = token[r].e
  <2>1. reqs[i] = RequestEvent(r)  BY DEF EvidenceInv, RequestsAnchored
  <2> QED BY <2>1 DEF RequestEvent
<1>4. /\ ChildrenAnchored(x) /\ ChildAnchored(x, j)
  BY DEF EvidenceInv, ChildrenAnchored
<1>5. cs[j] = ChildEvent(t) /\ timer[t].st = "recorded"  BY <1>4 DEF ChildAnchored
<1>6. /\ cs[j].id = RequestId[r] /\ cs[j].shape = "ok"
      /\ cs[j].s = timer[t].s /\ cs[j].e = timer[t].e /\ cs[j].dur = timer[t].e - timer[t].s
  BY <1>5 DEF ChildEvent
<1>7. /\ timer[t].s \in Nat /\ timer[t].e \in Nat /\ timer[t].s <= timer[t].e
      /\ token[r].s \in Nat /\ token[r].e \in Nat /\ token[r].s <= timer[t].s
  <2>1. TimerClocked(t) /\ timer[t] \in TimerType  BY <1>0 DEF EvidenceInv, TypeOK
  <2>2. r \in Requests  BY <1>0, RecordedKeys
  <2>3. token[r] \in TokenType  BY <1>0, <2>2 DEF TypeOK
  <2> QED BY <1>5, <2>1, <2>3 DEF TimerClocked, TimerType, TokenType
<1>8. ClearBad(cs[j]) = cs[j]
  <2> HIDE DEF cs
  <2> QED BY <1>6, <1>7, ClockedIsSound
<1>9. /\ ParentState(reqs, cs[j].id) = "unique"
      /\ ParentOf(reqs, cs[j].id) = reqs[i]
  BY <1>2, <1>3, <1>6, UniqueParent
<1>10. ~OutsideParent(reqs, cs[j])
  <2>1. ~(cs[j].s < reqs[i].s) /\ ~(cs[j].e > reqs[i].e)
    <3> HIDE DEF cs, reqs, r
    <3> QED BY <1>3, <1>6, <1>7 DEF r, reqs
  <2> QED BY <1>9, <2>1 DEF OutsideParent
<1>11. j \in K  BY <1>6, <1>8, <1>9, <1>10 DEF KeptChildren, ChildRetained
<1>12. PICK n \in DOMAIN out : Index(K, n) = j
  <2> HIDE DEF cs, reqs
  <2>1. \A k \in K : \E m \in DOMAIN out : Index(K, m) = k  BY <1>00, ChildrenKept
  <2> HIDE DEF K, out
  <2> QED BY <1>11, <2>1
<1>13. \A m \in DOMAIN out : Index(K, m) \in K /\ out[m] = ClearBad(cs[Index(K, m)])
  BY <1>00, ChildrenKept
<1>14. \A k \in K : k \in DOMAIN cs /\ ClearBad(cs[k]).timer = cs[k].timer
  BY <1>0, ClearedKeys DEF KeptChildren
<1>15. \A m, l \in DOMAIN out : Index(K, m) = Index(K, l) => m = l  BY <1>00, ChildrenKept
<1>16. \A k \in DOMAIN cs : cs[k].timer = t => k = j  BY <1>4 DEF ChildrenAnchored
<1>17. n \in S /\ \A m \in S : m = n
  <2> HIDE DEF K, out
  <2>1. n \in S  BY <1>12, <1>13, <1>14
  <2>2. ASSUME NEW m \in S PROVE m = n
    BY <1>12, <1>13, <1>14, <1>15, <1>16, <2>2
  <2> QED BY <2>1, <2>2
<1>18. Cardinality(S) = 1
  <2> HIDE DEF S
  <2> QED BY <1>17, OneMember
<1> QED BY <1>1, <1>18 DEF InArtifact

\* Normalization loses no sound evidence, for any number of requests and
\* timers, any repetition of ids and any wall-clock steps.
THEOREM SoundEvidencePersistedHolds == Spec => []SoundEvidencePersisted
<1>1. IInv /\ EvidenceInv => SoundEvidencePersisted
  <2> SUFFICES ASSUME IInv, EvidenceInv, persisted, NEW r \in Completed, Sole(r)
               PROVE  /\ InArtifact("requests", "key", r)
                      /\ \A t \in Timers :
                             LET section == TimerSection[t]
                             IN  /\ TimerOwner[t] = r
                                 /\ \E i \in DOMAIN candidate[section] :
                                        candidate[section][i].timer = t
                                 /\ timer[t].shape = "ok"
                                 /\ timer[t].e < token[r].e
                                 => InArtifact(section, "timer", t)
    BY DEF SoundEvidencePersisted, Sole
  <2>1. candidate = run  BY DEF IInv, OneWriter, Sealed
  <2>2. PICK i \in DOMAIN run.requests : run.requests[i].key = r  BY DEF Completed
  <2>3. InArtifact("requests", "key", r)  BY <2>1, <2>2, SoleInArtifact
  <2>4. ASSUME NEW t \in Timers, TimerOwner[t] = r,
               NEW j \in DOMAIN candidate[TimerSection[t]],
               candidate[TimerSection[t]][j].timer = t,
               timer[t].shape = "ok", timer[t].e < token[r].e
        PROVE  InArtifact(TimerSection[t], "timer", t)
    <3>1. TimerSection[t] \in {"stages", "queues"}  BY CollectorAssumption
    <3> QED BY <2>1, <2>2, <2>4, <3>1, ChildInArtifact
  <2> QED BY <2>3, <2>4
<1> QED BY <1>1, EvidenceInvariance, PTL
============================================================================

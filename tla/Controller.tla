----------------------------- MODULE Controller -----------------------------
(***************************************************************************)
(* TailtriageController: repeated capture generations over one core run    *)
(* each (tailtriage-controller/src/lib.rs).                                *)
(*                                                                         *)
(* A thread is a small program counter over the code of the public         *)
(* operations: each action is one access to state that other threads see   *)
(* (a critical section of the lifecycle mutex, of a generation's           *)
(* admission_gate or finalization_gate, of the core run, or one atomic).   *)
(* The core run of a generation is what Collector makes of it, reduced to  *)
(* request admission, the limits-hit latch and shutdown.                   *)
(***************************************************************************)
EXTENDS Integers, FiniteSets

CONSTANTS
    Threads,      \* application threads that call the controller
    Workers,      \* those that are workers of the Tokio runtime
    FreeWorker,   \* has the runtime a worker that never runs controller code?
    Requests,     \* each is begun once
    MaxRequests,  \* capture_limits.max_requests
    MaxGen,       \* bound: generations
    MaxCalls,     \* bound: calls of disable, shutdown and reload together
    Templates,    \* templates: [auto, strict, sampler : BOOLEAN]
    TSO           \* may an atomic store be seen late (Release, not SeqCst)?

Nobody == "nobody"
NoRequest == "none"

ASSUME ControllerAssumption ==
    /\ Workers \subseteq Threads
    /\ Nobody \notin Threads /\ NoRequest \notin Requests
    /\ IsFiniteSet(Threads) /\ IsFiniteSet(Requests)
    /\ {MaxRequests, MaxGen, MaxCalls} \subseteq Nat
    /\ Templates \subseteq [auto : BOOLEAN, strict : BOOLEAN, sampler : BOOLEAN]
    /\ Templates # {}
    /\ {FreeWorker, TSO} \subseteq BOOLEAN

VARIABLES
    lifecycle,  \* ControllerLifecycle: [st, gen, next]
    template,   \* the template of the next activation
    gen,        \* per generation: its ActiveGenerationRuntime
    core,       \* per generation: its core run
    agate,      \* per generation: the holder of admission_gate
    fgate,      \* per generation: the holder of finalization_gate
    token,      \* per request: its ControllerRequestCompletion
    thread,     \* per thread: where it is
    told,       \* per generation: what disable() and shutdown() reported
    calls       \* calls counted against MaxCalls

vars == <<lifecycle, template, gen, core, agate, fgate, token, thread, told, calls>>

Generations == 1 .. MaxGen
NoGen == 0
Idle == [pc |-> "idle", op |-> "none", gen |-> NoGen, req |-> NoRequest, n |-> 0]

NewGeneration(tpl) ==
    [auto |-> tpl.auto, strict |-> tpl.strict, accepting |-> TRUE, closing |-> "no",
     slots |-> 0, inflight |-> 0, result |-> "Pending", finalize_started |-> FALSE,
     last_error |-> FALSE, sampler |-> IF tpl.sampler THEN "running" ELSE "none"]

Unborn == [NewGeneration([auto |-> FALSE, strict |-> FALSE, sampler |-> FALSE])
              EXCEPT !.accepting = FALSE]

NewRun == [phase |-> "Open", pending |-> {}, done |-> {}, unfinished |-> {},
           limits_hit |-> FALSE, reason |-> "none", writes |-> 0]

Init ==
    /\ lifecycle = [st |-> "Disabled", gen |-> NoGen, next |-> 1]
    /\ template \in Templates
    /\ gen = [g \in Generations |-> Unborn]
    /\ core = [g \in Generations |-> NewRun]
    /\ agate = [g \in Generations |-> Nobody]
    /\ fgate = [g \in Generations |-> Nobody]
    /\ token = [r \in Requests |-> [st |-> "new", gen |-> NoGen]]
    /\ thread = [t \in Threads |-> Idle]
    /\ told = [g \in Generations |-> {}]
    /\ calls = 0

----------------------------------------------------------------------------
(* Thread bookkeeping.                                                     *)

At(t, pc) == thread[t].pc = pc
G(t) == thread[t].gen

Goto(t, pc) == thread' = [thread EXCEPT ![t].pc = pc]
Call(t, op, g, r, pc) ==
    thread' = [thread EXCEPT ![t] = [pc |-> pc, op |-> op, gen |-> g, req |-> r, n |-> 0]]

\* A Weak<ActiveGenerationRuntime> upgrades while the lifecycle or a thread
\* inside an operation holds the Arc.
HoldsArc(t, g) ==
    /\ G(t) = g
    /\ ~At(t, "idle") /\ ~At(t, "mark")
    /\ ~(At(t, "callback") /\ thread[t].op = "overflow")
Alive(g) ==
    \/ lifecycle.gen = g
    \/ \E t \in Threads : HoldsArc(t, g)

\* What an operation that returns leaves behind: begin_request_with releases
\* the gate it may hold and hands out an inert pair, the others just return.
Return(t) ==
    /\ thread' = [thread EXCEPT ![t] = Idle]
    /\ IF thread[t].op = "begin"
       THEN /\ agate' = [g \in Generations |-> IF agate[g] = t THEN Nobody ELSE agate[g]]
            /\ token' = [token EXCEPT ![thread[t].req].st = "inert"]
       ELSE UNCHANGED <<agate, token>>

\* disable() and shutdown() hand finalize_generation's result to the caller;
\* the other operations ignore it.
Report(t, answer) ==
    told' = IF thread[t].op \in {"disable", "shutdown"}
            THEN [told EXCEPT ![G(t)] = @ \cup {answer}]
            ELSE told

----------------------------------------------------------------------------
(* The core run as the controller uses it.                                 *)

HasRoom(c) == Cardinality(c.pending) + Cardinality(c.done) < MaxRequests

\* begin_owned_request_with
CoreBegin(c, r) ==
    IF c.phase # "Open" THEN c
    ELSE IF HasRoom(c) THEN [c EXCEPT !.pending = @ \cup {r}]
    ELSE [c EXCEPT !.limits_hit = TRUE]

\* completion.finish(..) or its Drop
CoreFinish(c, r) ==
    IF c.phase = "Open" /\ r \in c.pending
    THEN [c EXCEPT !.pending = @ \ {r}, !.done = @ \cup {r}]
    ELSE c

\* set_run_end_reason_if_absent
CoreEndReason(c, reason) ==
    IF c.phase = "Open" /\ c.reason = "none" THEN [c EXCEPT !.reason = reason] ELSE c

----------------------------------------------------------------------------
(* Activation.                                                             *)

\* enable(): one critical section of the lifecycle mutex.  A sampler needs a
\* Tokio runtime in the calling thread; without one nothing changes.
Enable(t) ==
    LET g == lifecycle.next
    IN  /\ At(t, "idle")
        /\ lifecycle.st \in {"Disabled", "TerminalFailed"}
        /\ g \in Generations
        /\ template.sampler => t \in Workers
        /\ lifecycle' = [st |-> "Active", gen |-> g, next |-> g + 1]
        /\ gen' = [gen EXCEPT ![g] = NewGeneration(template)]
        /\ core' = [core EXCEPT ![g] = NewRun]
        /\ UNCHANGED <<template, agate, fgate, token, thread, told, calls>>

\* reload_template / reload_config, once the new template is validated.
Reload(t, tpl) ==
    /\ At(t, "idle")
    /\ calls < MaxCalls
    /\ lifecycle.st # "Shutdown"
    /\ tpl # template
    /\ template' = tpl
    /\ calls' = calls + 1
    /\ UNCHANGED <<lifecycle, gen, core, agate, fgate, token, thread, told>>

----------------------------------------------------------------------------
(* Admission.                                                              *)

BeginRequest(t, r) ==
    /\ At(t, "idle")
    /\ token[r].st = "new"
    /\ IF lifecycle.st = "Active"
       THEN /\ Call(t, "begin", lifecycle.gen, r, "begin_gate")
            /\ token' = [token EXCEPT ![r].st = "beginning"]
       ELSE /\ token' = [token EXCEPT ![r].st = "inert"]
            /\ UNCHANGED thread
    /\ UNCHANGED <<lifecycle, template, gen, core, agate, fgate, told, calls>>

\* The stores of close_generation_admissions_locked.  They are Release
\* stores: under TSO closing may stay in the store buffer until the thread
\* next takes or releases a lock (accepting_new is read under the gate only).
SealAdmissions(g, reason) ==
    /\ core' = [core EXCEPT ![g] = CoreEndReason(@, reason)]
    /\ gen' = [gen EXCEPT ![g].accepting = FALSE,
                          ![g].closing = IF TSO /\ @ = "no" THEN "buffered" ELSE "yes"]

\* What every thread sees once the store buffer of the closing one is empty.
Drained(gn) == IF gn.closing = "buffered" THEN [gn EXCEPT !.closing = "yes"] ELSE gn

\* Mutant: one admission too many.
Bug_SaturatedLate(g) == gen[g].slots > MaxRequests

Saturated(g) == gen[g].slots >= MaxRequests

\* Under admission_gate: refuse, seal the generation whose limits were hit,
\* or go on to the core run with the gate held.
BeginGate(t) ==
    LET g == G(t)
    IN  /\ At(t, "begin_gate")
        /\ agate[g] = Nobody
        /\ \/ /\ ~gen[g].accepting
              /\ Return(t)
              /\ UNCHANGED <<gen, core>>
           \/ /\ gen[g].accepting /\ gen[g].auto /\ core[g].limits_hit
              /\ agate' = [agate EXCEPT ![g] = t]
              /\ SealAdmissions(g, "AutoSealOnLimitsHit")
              /\ Goto(t, "close_unlock")
              /\ UNCHANGED token
           \/ /\ gen[g].accepting /\ ~(gen[g].auto /\ core[g].limits_hit)
              /\ agate' = [agate EXCEPT ![g] = t]
              /\ Goto(t, IF Saturated(g) THEN "refuse" ELSE "admit")
              /\ IF Saturated(g) /\ gen[g].auto
                 THEN SealAdmissions(g, "AutoSealOnLimitsHit")
                 ELSE UNCHANGED <<gen, core>>
              /\ UNCHANGED token
        /\ UNCHANGED <<lifecycle, template, fgate, told, calls>>

\* The core run counts the refusal; the first one calls the listener, in
\* this thread and with admission_gate held.
Refuse(t) ==
    LET g == G(t)
    IN  /\ At(t, "refuse")
        /\ core' = [core EXCEPT ![g] = CoreBegin(@, thread[t].req)]
        /\ gen' = [gen EXCEPT ![g] = Drained(@)]
        /\ IF gen[g].auto /\ core'[g].limits_hit /\ ~core[g].limits_hit
           THEN Goto(t, "callback") /\ UNCHANGED <<agate, token>>
           ELSE Return(t)
        /\ UNCHANGED <<lifecycle, template, fgate, told, calls>>

\* The core run admits (AdmissionAgrees: it never refuses here).
Admit(t) ==
    /\ At(t, "admit")
    /\ core' = [core EXCEPT ![G(t)] = CoreBegin(@, thread[t].req)]
    /\ Goto(t, "commit")
    /\ UNCHANGED <<lifecycle, template, gen, agate, fgate, token, told, calls>>

\* Mutant: the admission is not counted as in flight.
Bug_CommitUncounted(t) ==
    LET g == G(t)
    IN  /\ At(t, "commit")
        /\ gen' = [gen EXCEPT ![g].slots = @ + 1]
        /\ token' = [token EXCEPT ![thread[t].req] = [st |-> "captured", gen |-> g]]
        /\ agate' = [agate EXCEPT ![g] = Nobody]
        /\ thread' = [thread EXCEPT ![t] = Idle]
        /\ UNCHANGED <<lifecycle, template, core, fgate, told, calls>>

\* The slot and the in-flight count are committed and the gate released.
Commit(t) ==
    LET g == G(t)
    IN  /\ At(t, "commit")
        /\ gen' = [gen EXCEPT ![g].slots = @ + 1, ![g].inflight = @ + 1]
        /\ token' = [token EXCEPT ![thread[t].req] = [st |-> "captured", gen |-> g]]
        /\ agate' = [agate EXCEPT ![g] = Nobody]
        /\ thread' = [thread EXCEPT ![t] = Idle]
        /\ UNCHANGED <<lifecycle, template, core, fgate, told, calls>>

----------------------------------------------------------------------------
(* Completion: finish(..) or Drop, then mark_finished.                     *)

FinishRequest(t, r) ==
    LET g == token[r].gen
    IN  /\ At(t, "idle")
        /\ token[r].st = "captured"
        /\ core' = [core EXCEPT ![g] = CoreFinish(@, r)]
        /\ token' = [token EXCEPT ![r].st = "finishing"]
        /\ Call(t, "finish", g, r, "mark")
        /\ UNCHANGED <<lifecycle, template, gen, agate, fgate, told, calls>>

\* The generation is found again through its Weak reference; a generation
\* whose limits were hit is closed before this request leaves it.
MarkFinished(t) ==
    LET g == G(t)
    IN  /\ At(t, "mark")
        /\ IF Alive(g)
           THEN /\ Goto(t, IF gen[g].auto /\ core[g].limits_hit THEN "close_gate" ELSE "leave")
                /\ UNCHANGED token
           ELSE /\ thread' = [thread EXCEPT ![t] = Idle]
                /\ token' = [token EXCEPT ![thread[t].req].st = "done"]
        /\ UNCHANGED <<lifecycle, template, gen, core, agate, fgate, told, calls>>

\* Mutant: only a closing generation is counted down.
Bug_LeaveOnlyClosing(t) ==
    LET g == G(t)
        left == gen[g].inflight - (IF gen[g].closing = "no" THEN 0 ELSE 1)
    IN  /\ At(t, "leave")
        /\ gen' = [gen EXCEPT ![g].inflight = left]
        /\ token' = [token EXCEPT ![thread[t].req].st = "done"]
        /\ IF left = 0 THEN Goto(t, "check_closing") ELSE thread' = [thread EXCEPT ![t] = Idle]
        /\ UNCHANGED <<lifecycle, template, core, agate, fgate, told, calls>>

\* inflight_captured.fetch_sub(1)
LeaveGeneration(t) ==
    LET g == G(t)
    IN  /\ At(t, "leave")
        /\ gen' = [gen EXCEPT ![g].inflight = @ - 1]
        /\ token' = [token EXCEPT ![thread[t].req].st = "done"]
        /\ IF gen[g].inflight - 1 = 0
           THEN Goto(t, "check_closing")
           ELSE thread' = [thread EXCEPT ![t] = Idle]
        /\ UNCHANGED <<lifecycle, template, core, agate, fgate, told, calls>>

\* Mutant: the last completion leaves finalization to somebody else.
Bug_NobodyFinalizes(t) ==
    /\ At(t, "check_closing")
    /\ thread' = [thread EXCEPT ![t] = Idle]
    /\ UNCHANGED <<lifecycle, template, gen, core, agate, fgate, token, told, calls>>

\* remaining == 0 && closing.load(Acquire)
CheckClosing(t) ==
    /\ At(t, "check_closing")
    /\ IF gen[G(t)].closing = "yes"
       THEN Goto(t, "finalize")
       ELSE thread' = [thread EXCEPT ![t] = Idle]
    /\ UNCHANGED <<lifecycle, template, gen, core, agate, fgate, token, told, calls>>

----------------------------------------------------------------------------
(* The limits-hit signal.                                                  *)

\* Mutant: only a refused request reaches the listener.
Bug_OverflowSilent(t, g) ==
    /\ At(t, "idle")
    /\ \E r \in Requests : token[r].gen = g
    /\ core[g].phase = "Open" /\ ~core[g].limits_hit
    /\ core' = [core EXCEPT ![g].limits_hit = TRUE]
    /\ UNCHANGED <<lifecycle, template, gen, agate, fgate, token, thread, told, calls>>

\* A handle of generation g records evidence beyond some section's cap.
Overflow(t, g) ==
    /\ At(t, "idle")
    /\ \E r \in Requests : token[r].gen = g
    /\ core[g].phase = "Open" /\ ~core[g].limits_hit
    /\ core' = [core EXCEPT ![g].limits_hit = TRUE]
    /\ IF gen[g].auto THEN Call(t, "overflow", g, NoRequest, "callback") ELSE UNCHANGED thread
    /\ UNCHANGED <<lifecycle, template, gen, agate, fgate, token, told, calls>>

\* Mutant: the callback closes the generation without looking at closing.
Bug_CallbackTakesGate(t) ==
    /\ At(t, "callback")
    /\ IF Alive(G(t)) THEN Goto(t, "close_gate") ELSE thread' = [thread EXCEPT ![t] = Idle]
    /\ UNCHANGED <<lifecycle, template, gen, core, agate, fgate, token, told, calls>>

\* on_limits_hit_signal: a generation that is already closing must not be
\* closed again, since this thread may hold its admission_gate.
OnLimitsHitSignal(t) ==
    LET g == G(t)
    IN  /\ At(t, "callback")
        /\ IF Alive(g)
           THEN Goto(t, IF gen[g].closing = "yes" THEN "load_inflight" ELSE "close_gate")
           ELSE thread' = [thread EXCEPT ![t] = Idle]
        /\ UNCHANGED <<lifecycle, template, gen, core, agate, fgate, token, told, calls>>

LoadInflight(t) ==
    /\ At(t, "load_inflight")
    /\ IF gen[G(t)].inflight = 0
       THEN Goto(t, "finalize") /\ UNCHANGED <<agate, token>>
       ELSE Return(t)
    /\ UNCHANGED <<lifecycle, template, gen, core, fgate, told, calls>>

----------------------------------------------------------------------------
(* disable() and shutdown().                                               *)

Disable(t) ==
    /\ At(t, "idle")
    /\ calls < MaxCalls
    /\ calls' = calls + 1
    /\ \/ /\ lifecycle.st = "Active"
          /\ Call(t, "disable", lifecycle.gen, NoRequest, "close_gate")
          /\ UNCHANGED told
       \/ /\ lifecycle.st = "TerminalFailed"
          /\ told' = [told EXCEPT ![lifecycle.gen] = @ \cup {"Err"}]
          /\ UNCHANGED thread
       \/ /\ lifecycle.st \in {"Disabled", "Shutdown"}
          /\ UNCHANGED <<thread, told>>
    /\ UNCHANGED <<lifecycle, template, gen, core, agate, fgate, token>>

Shutdown(t) ==
    /\ At(t, "idle")
    /\ calls < MaxCalls
    /\ calls' = calls + 1
    /\ lifecycle' = [lifecycle EXCEPT !.st = "Shutdown"]
    /\ IF lifecycle.gen # NoGen
       THEN Call(t, "shutdown", lifecycle.gen, NoRequest, "close_gate")
       ELSE UNCHANGED thread
    /\ UNCHANGED <<template, gen, core, agate, fgate, token, told>>

Reason(op) ==
    IF op = "disable" THEN "ManualDisarm"
    ELSE IF op = "shutdown" THEN "Shutdown"
    ELSE "AutoSealOnLimitsHit"

\* close_generation_admissions: the stores, ...
CloseAdmissions(t) ==
    LET g == G(t)
    IN  /\ At(t, "close_gate")
        /\ agate[g] = Nobody
        /\ agate' = [agate EXCEPT ![g] = t]
        /\ SealAdmissions(g, Reason(thread[t].op))
        /\ Goto(t, "close_load")
        /\ UNCHANGED <<lifecycle, template, fgate, token, told, calls>>

\* ... the load of inflight_captured, ...
CloseLoad(t) ==
    /\ At(t, "close_load")
    /\ thread' = [thread EXCEPT ![t].pc = "close_unlock", ![t].n = gen[G(t)].inflight]
    /\ UNCHANGED <<lifecycle, template, gen, core, agate, fgate, token, told, calls>>

\* Mutant: whoever closes finalizes, drained or not.
Bug_CloserFinalizes(t) ==
    LET g == G(t)
    IN  /\ At(t, "close_unlock")
        /\ gen' = [gen EXCEPT ![g] = Drained(@)]
        /\ IF thread[t].op = "begin"
           THEN Return(t)
           ELSE /\ agate' = [agate EXCEPT ![g] = Nobody]
                /\ Goto(t, IF thread[t].op = "finish" THEN "leave" ELSE "finalize")
                /\ UNCHANGED token
        /\ UNCHANGED <<lifecycle, template, core, fgate, told, calls>>

\* ... and the release of the gate, which drains the store buffer.
CloseUnlock(t) ==
    LET g == G(t)
        op == thread[t].op
    IN  /\ At(t, "close_unlock")
        /\ gen' = [gen EXCEPT ![g] = Drained(@)]
        /\ IF op = "begin"
           THEN Return(t)
           ELSE /\ agate' = [agate EXCEPT ![g] = Nobody]
                /\ IF op = "finish"
                   THEN Goto(t, "leave")
                   ELSE IF op = "shutdown" \/ thread[t].n = 0
                   THEN Goto(t, "finalize")
                   ELSE thread' = [thread EXCEPT ![t] = Idle]
                /\ UNCHANGED token
        /\ UNCHANGED <<lifecycle, template, core, fgate, told, calls>>

\* A buffered store becomes visible on its own.
DrainStore(g) ==
    /\ gen[g].closing = "buffered"
    /\ gen' = [gen EXCEPT ![g] = Drained(@)]
    /\ UNCHANGED <<lifecycle, template, core, agate, fgate, token, thread, told, calls>>

----------------------------------------------------------------------------
(* finalize_generation, serialized by the generation's finalization_gate.  *)

\* Mutant: a controller that is shutting down has no current generation.
Bug_CurrentOnlyActive(g) == lifecycle.st = "Active" /\ lifecycle.gen = g

\* The lifecycle still refers to this generation.
Current(g) == lifecycle.st \in {"Active", "Shutdown"} /\ lifecycle.gen = g

\* Replay a stored result, or begin to finalize a current generation.
FinalizeGate(t) ==
    LET g == G(t)
        result == gen[g].result
        failed == \/ result = "TerminalFailure"
                  \/ result = "Pending" /\ lifecycle.gen = g
    IN  /\ At(t, "finalize")
        /\ fgate[g] = Nobody
        /\ \/ /\ result = "Pending" /\ Current(g)
              /\ fgate' = [fgate EXCEPT ![g] = t]
              /\ gen' = [gen EXCEPT ![g].finalize_started = TRUE, ![g].last_error = FALSE]
              /\ Goto(t, "stop_sampler")
              /\ UNCHANGED <<agate, token, told>>
           \/ /\ ~(result = "Pending" /\ Current(g))
              /\ Report(t, IF failed THEN "Err" ELSE "Ok")
              /\ gen' = [gen EXCEPT ![g].result = IF failed THEN "TerminalFailure" ELSE @]
              /\ Return(t)
              /\ UNCHANGED fgate
        /\ UNCHANGED <<lifecycle, template, core, calls>>

\* Mutant: the task is told to stop and not waited for.
Bug_SamplerNotJoined(t) ==
    LET g == G(t)
    IN  /\ At(t, "stop_sampler")
        /\ gen' = [gen EXCEPT ![g].sampler = IF @ = "running" THEN "stopping" ELSE @]
        /\ Goto(t, "core_shutdown")
        /\ UNCHANGED <<lifecycle, template, core, agate, fgate, token, told, calls>>

\* stop_runtime_sampler: signal the task and block this thread until it ended.
StopSampler(t) ==
    LET g == G(t)
    IN  /\ At(t, "stop_sampler")
        /\ IF gen[g].sampler = "running"
           THEN Goto(t, "join_sampler") /\ gen' = [gen EXCEPT ![g].sampler = "stopping"]
           ELSE Goto(t, "core_shutdown") /\ UNCHANGED gen
        /\ UNCHANGED <<lifecycle, template, core, agate, fgate, token, told, calls>>

JoinSampler(t) ==
    /\ At(t, "join_sampler")
    /\ gen[G(t)].sampler = "ended"
    /\ Goto(t, "core_shutdown")
    /\ UNCHANGED <<lifecycle, template, gen, core, agate, fgate, token, told, calls>>

\* The sampler task ends when it is polled after the stop signal, or after
\* its last sample.  A worker inside a controller operation polls nothing.
SamplerTaskEnds(g) ==
    /\ gen[g].sampler \in {"running", "stopping"}
    /\ FreeWorker \/ \E w \in Workers : At(w, "idle")
    /\ gen' = [gen EXCEPT ![g].sampler = "ended"]
    /\ UNCHANGED <<lifecycle, template, core, agate, fgate, token, thread, told, calls>>

\* Mutant: sealing the run forgets the pending requests.
Bug_SealForgets(t) ==
    LET g == G(t)
    IN  /\ At(t, "core_shutdown")
        /\ core[g].phase = "Open"
        /\ core' = [core EXCEPT ![g].phase = "Finalizing", ![g].pending = {}]
        /\ Goto(t, "sink_write")
        /\ UNCHANGED <<lifecycle, template, gen, agate, fgate, token, told, calls>>

\* The core run's shutdown(): a strict run with pending requests refuses
\* without a sink attempt, any other run is sealed.
CoreShutdown(t) ==
    LET g == G(t)
        refused == gen[g].strict /\ core[g].pending # {}
    IN  /\ At(t, "core_shutdown")
        /\ core[g].phase = "Open"
        /\ \/ /\ refused
              /\ gen' = [gen EXCEPT ![g].finalize_started = FALSE, ![g].last_error = TRUE]
              /\ fgate' = [fgate EXCEPT ![g] = Nobody]
              /\ Return(t)
              /\ UNCHANGED core
           \/ /\ ~refused
              /\ core' = [core EXCEPT ![g] =
                     [CoreEndReason(@, "Shutdown") EXCEPT
                         !.phase = "Finalizing", !.unfinished = core[g].pending, !.pending = {}]]
              /\ Goto(t, "sink_write")
              /\ UNCHANGED <<gen, fgate, agate, token>>
        /\ UNCHANGED <<lifecycle, template, told, calls>>

SinkWrite(t) ==
    LET g == G(t)
    IN  /\ At(t, "sink_write")
        /\ \E outcome \in {"Success", "Failure"} :
               core' = [core EXCEPT ![g].phase = outcome, ![g].writes = @ + 1]
        /\ Goto(t, "publish")
        /\ UNCHANGED <<lifecycle, template, gen, agate, fgate, token, told, calls>>

\* set_generation_result, before the lifecycle changes.
PublishResult(t) ==
    LET g == G(t)
        ok == core[g].phase = "Success"
    IN  /\ At(t, "publish")
        /\ gen' = [gen EXCEPT ![g].finalize_started = FALSE,
                              ![g].last_error = ~ok,
                              ![g].result = IF ok THEN "Success" ELSE "TerminalFailure"]
        /\ Goto(t, "retire")
        /\ UNCHANGED <<lifecycle, template, core, agate, fgate, token, told, calls>>

\* Disabled after success, TerminalFailed after a sink failure; a controller
\* that was shut down meanwhile stays so.
Retire(t) ==
    LET g == G(t)
        ok == gen[g].result = "Success"
    IN  /\ At(t, "retire")
        /\ lifecycle' = IF lifecycle.st = "Active" /\ lifecycle.gen = g
                        THEN IF ok THEN [lifecycle EXCEPT !.st = "Disabled", !.gen = NoGen]
                                   ELSE [lifecycle EXCEPT !.st = "TerminalFailed"]
                        ELSE lifecycle
        /\ fgate' = [fgate EXCEPT ![g] = Nobody]
        /\ Report(t, IF ok THEN "Ok" ELSE "Err")
        /\ Return(t)
        /\ UNCHANGED <<template, gen, core, calls>>

----------------------------------------------------------------------------
\* What an idle thread may call.
Operation(t) ==
    \/ Enable(t)
    \/ \E tpl \in Templates : Reload(t, tpl)
    \/ \E r \in Requests : BeginRequest(t, r) \/ FinishRequest(t, r)
    \/ \E g \in Generations : Overflow(t, g)
    \/ Disable(t)
    \/ Shutdown(t)

\* What a thread inside an operation goes on to do.
Continue(t) ==
    \/ BeginGate(t) \/ Refuse(t) \/ Admit(t) \/ Commit(t)
    \/ MarkFinished(t) \/ LeaveGeneration(t) \/ CheckClosing(t)
    \/ OnLimitsHitSignal(t) \/ LoadInflight(t)
    \/ CloseAdmissions(t) \/ CloseLoad(t) \/ CloseUnlock(t)
    \/ FinalizeGate(t) \/ StopSampler(t) \/ JoinSampler(t) \/ CoreShutdown(t)
    \/ SinkWrite(t) \/ PublishResult(t) \/ Retire(t)

Background == \E g \in Generations : DrainStore(g) \/ SamplerTaskEnds(g)

Next == (\E t \in Threads : Operation(t) \/ Continue(t)) \/ Background

Spec == Init /\ [][Next]_vars

\* A thread inside an operation keeps running, and a runtime with a worker
\* to spare polls a task that was told to stop.  Nobody is obliged to call
\* anything.
Fairness ==
    /\ \A t \in Threads : WF_vars(Continue(t))
    /\ \A g \in Generations : WF_vars(gen[g].sampler = "stopping" /\ SamplerTaskEnds(g))

FairSpec == Spec /\ Fairness

----------------------------------------------------------------------------
(* Properties.                                                             *)

Pcs == {"idle", "begin_gate", "refuse", "admit", "commit", "mark", "leave",
        "check_closing", "callback", "load_inflight", "close_gate", "close_load",
        "close_unlock", "finalize", "stop_sampler", "join_sampler",
        "core_shutdown", "sink_write", "publish", "retire"}

\* The controller's state keeps its types; in particular the unsigned
\* in-flight counter is never decremented below zero.
TypeOK ==
    /\ lifecycle \in [st : {"Disabled", "Active", "TerminalFailed", "Shutdown"},
                      gen : Generations \cup {NoGen}, next : 1 .. MaxGen + 1]
    /\ template \in Templates
    /\ gen \in [Generations ->
           [auto : BOOLEAN, strict : BOOLEAN, accepting : BOOLEAN,
            closing : {"no", "buffered", "yes"}, slots : Nat, inflight : Nat,
            result : {"Pending", "Success", "TerminalFailure"},
            finalize_started : BOOLEAN, last_error : BOOLEAN,
            sampler : {"none", "running", "stopping", "ended"}]]
    /\ core \in [Generations ->
           [phase : {"Open", "Finalizing", "Success", "Failure"},
            pending : SUBSET Requests, done : SUBSET Requests,
            unfinished : SUBSET Requests, limits_hit : BOOLEAN,
            reason : {"none", "ManualDisarm", "Shutdown", "AutoSealOnLimitsHit"},
            writes : Nat]]
    /\ agate \in [Generations -> Threads \cup {Nobody}]
    /\ fgate \in [Generations -> Threads \cup {Nobody}]
    /\ token \in [Requests ->
           [st : {"new", "beginning", "captured", "finishing", "done", "inert"},
            gen : Generations \cup {NoGen}]]
    /\ thread \in [Threads ->
           [pc : Pcs, op : {"none", "begin", "finish", "overflow", "disable", "shutdown"},
            gen : Generations \cup {NoGen}, req : Requests \cup {NoRequest}, n : Nat]]
    /\ told \in [Generations -> SUBSET {"Ok", "Err"}]
    /\ calls \in Nat

\* inflight_captured is the number of tokens of the generation that were
\* handed out and have not left it, unless nobody refers to it any more.
InflightExact ==
    \A g \in Generations :
        Alive(g) => gen[g].inflight =
            Cardinality({r \in Requests : token[r].gen = g
                                          /\ token[r].st \in {"captured", "finishing"}})

\* Where the controller goes to the core run to admit, the generation still
\* accepts, the core run is open and has room: the pair it hands out is live,
\* and the listener cannot re-enter the gate this thread holds.
AdmissionAgrees ==
    \A t \in Threads :
        At(t, "admit") => /\ gen[G(t)].accepting
                          /\ core[G(t)].phase = "Open"
                          /\ HasRoom(core[G(t)])

\* A thread that closed the generation itself (disable(), the limits-hit
\* signal, a refused admission) and goes on to finalize it leaves nobody
\* behind, and a strict generation is never persisted without a request.
ClosersDrain ==
    /\ \A t \in Threads :
           /\ thread[t].pc \in {"finalize", "stop_sampler", "join_sampler", "core_shutdown"}
           /\ thread[t].op \in {"disable", "overflow", "begin"}
           => core[G(t)].pending = {}
    /\ \A g \in Generations : core[g].unfinished # {} => ~gen[g].strict

\* Only shutdown() cuts admitted requests off: disable() and auto-seal wait
\* for every one of them.  The code does not guarantee it: a completion that
\* found the count at zero looks at closing later, when the generation may
\* have admitted another request and closed.
NothingCutOff ==
    \A g \in Generations :
        core[g].unfinished # {} =>
            lifecycle.st = "Shutdown" /\ lifecycle.gen = g /\ ~gen[g].strict

\* disable() and shutdown() report success only of a generation whose
\* artifact was written, and failure only of one whose sink attempt failed;
\* every report agrees with the one attempt.  A strict generation's refusal
\* can be retried and is no such report.
ReportsAgree ==
    \A g \in Generations :
        /\ "Ok" \in told[g] => core[g].phase = "Success" /\ gen[g].result = "Success"
        /\ "Err" \in told[g] => core[g].phase = "Failure" /\ gen[g].result = "TerminalFailure"
        /\ core[g].writes <= 1

\* The sampler task of a generation has ended before its run is sealed, so
\* no snapshot is lost to the race with the artifact.
SamplerEndsFirst ==
    \A g \in Generations :
        core[g].phase # "Open" => gen[g].sampler \in {"none", "ended"}

\* Each generation keeps the promise of a capture run, whatever the others do.
Capture(g) == INSTANCE CaptureSpec WITH
    Outcomes   <- {"ok"},
    admitted   <- core[g].pending \cup core[g].done \cup core[g].unfinished,
    completed  <- core[g].done \X {"ok"},
    sealed     <- core[g].phase # "Open",
    unfinished <- core[g].unfinished,
    result     <- IF core[g].phase = "Success" THEN "Ok"
                  ELSE IF core[g].phase = "Failure" THEN "SinkError"
                  ELSE "none",
    seen       <- (IF "Ok" \in told[g] THEN {"Ok"} ELSE {})
                  \cup (IF "Err" \in told[g] THEN {"SinkError"} ELSE {})

\* Each generation starts as CaptureSpec does, and every step is for each
\* generation a step of CaptureSpec or one that leaves its promise alone.
ImplementsCapture ==
    /\ \A g \in Generations : Capture(g)!Init
    /\ [][\A g \in Generations : [Capture(g)!Next]_(Capture(g)!vars)]_vars

\* A generation that is closing and drained is finalized: by the closer if
\* it saw the drained count, else by the completion that saw closing.
DrainedIsFinalized ==
    \A g \in Generations :
        (gen[g].closing = "yes" /\ gen[g].inflight = 0) ~> gen[g].result # "Pending"

\* Every operation returns.
OperationsReturn == \A t \in Threads : ~At(t, "idle") ~> At(t, "idle")

\* Auto-seal: a generation whose limits were hit stops admitting.
LimitsHitCloses ==
    \A g \in Generations :
        (gen[g].auto /\ core[g].limits_hit) ~> gen[g].closing = "yes"
============================================================================

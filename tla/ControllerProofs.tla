-------------------------- MODULE ControllerProofs --------------------------
(***************************************************************************)
(* Proofs about Controller, for any threads, requests, limits, templates   *)
(* and number of generations, with early or late visible stores.           *)
(*                                                                         *)
(* The inductive invariant is built in layers; each one is proved with the *)
(* help of those before it.                                                *)
(***************************************************************************)
EXTENDS Controller, TLAPS, FiniteSetTheorems

Ops == {"none", "begin", "finish", "overflow", "disable", "shutdown"}

\* The pcs at which a thread holds the finalization_gate of its generation.
Finalizing == {"stop_sampler", "join_sampler", "core_shutdown", "sink_write", "publish", "retire"}

\* A thread holds admission_gate from its admission on, or while it closes.
HoldsGate(t) ==
    \/ thread[t].op = "begin" /\ ~At(t, "begin_gate")
    \/ thread[t].pc \in {"close_load", "close_unlock"}

----------------------------------------------------------------------------
(* Layer 1: types, with the in-flight count only known to be an integer,   *)
(* and where a thread can be in which operation.                           *)

LifecycleType ==
    [st : {"Disabled", "Active", "TerminalFailed", "Shutdown"},
     gen : Generations \cup {NoGen}, next : 1 .. MaxGen + 1]
GenerationType ==
    [auto : BOOLEAN, strict : BOOLEAN, accepting : BOOLEAN,
     closing : {"no", "buffered", "yes"}, slots : Nat, inflight : Int,
     result : {"Pending", "Success", "TerminalFailure"},
     finalize_started : BOOLEAN, last_error : BOOLEAN,
     sampler : {"none", "running", "stopping", "ended"}]
CoreType ==
    [phase : {"Open", "Finalizing", "Success", "Failure"},
     pending : SUBSET Requests, done : SUBSET Requests,
     unfinished : SUBSET Requests, limits_hit : BOOLEAN,
     reason : {"none", "ManualDisarm", "Shutdown", "AutoSealOnLimitsHit"},
     writes : Nat]
TokenType ==
    [st : {"new", "beginning", "captured", "finishing", "done", "inert"},
     gen : Generations \cup {NoGen}]
ThreadType ==
    [pc : Pcs, op : Ops, gen : Generations \cup {NoGen},
     req : Requests \cup {NoRequest}, n : Int]

TypeInv ==
    /\ lifecycle \in LifecycleType
    /\ template \in Templates
    /\ gen \in [Generations -> GenerationType]
    /\ core \in [Generations -> CoreType]
    /\ agate \in [Generations -> Threads \cup {Nobody}]
    /\ fgate \in [Generations -> Threads \cup {Nobody}]
    /\ token \in [Requests -> TokenType]
    /\ thread \in [Threads -> ThreadType]
    /\ told \in [Generations -> SUBSET {"Ok", "Err"}]
    /\ calls \in Nat

\* Which operation brings a thread where, on which generation.
Where(t) ==
    LET pc == thread[t].pc
        op == thread[t].op
    IN  /\ pc = "idle" => op = "none"
        /\ pc # "idle" => /\ op # "none" /\ thread[t].gen \in Generations
                          /\ thread[t].gen < lifecycle.next
        /\ pc \in {"begin_gate", "refuse", "admit", "commit"} => op = "begin"
        /\ pc \in {"mark", "leave", "check_closing"} => op = "finish"
        /\ pc \in {"callback", "load_inflight"} => op \in {"begin", "overflow"}
        /\ pc \in {"close_gate", "close_load"} => op \in {"finish", "overflow", "disable", "shutdown"}
        /\ op \in {"begin", "finish"} => thread[t].req \in Requests
        /\ op = "begin" /\ pc = "callback" => gen[thread[t].gen].closing = "yes"
        /\ pc = "refuse" /\ gen[thread[t].gen].auto => gen[thread[t].gen].closing # "no"
        /\ op = "shutdown" => lifecycle.st = "Shutdown" /\ lifecycle.gen = thread[t].gen

\* Generations up to the next one were enabled; the others are untouched.
Born ==
    /\ lifecycle.gen < lifecycle.next
    /\ lifecycle.st = "Disabled" <=> lifecycle.st # "Shutdown" /\ lifecycle.gen = NoGen
    /\ \A g \in Generations : g >= lifecycle.next =>
           /\ gen[g] = Unborn /\ core[g] = NewRun /\ told[g] = {}
    /\ \A r \in Requests :
           token[r].gen < lifecycle.next /\ (token[r].st = "captured" => token[r].gen # NoGen)

Shape == TypeInv /\ Born /\ \A t \in Threads : Where(t)

----------------------------------------------------------------------------
(* Layer 2: gates and tokens have one owner.                               *)

GatesOwned ==
    /\ \A t \in Threads : HoldsGate(t) => agate[G(t)] = t
    /\ \A g \in Generations, t \in Threads : agate[g] = t => HoldsGate(t) /\ G(t) = g
    /\ \A t \in Threads : thread[t].pc \in Finalizing => fgate[G(t)] = t
    /\ \A g \in Generations, t \in Threads :
           fgate[g] = t => thread[t].pc \in Finalizing /\ G(t) = g

Holder(t) == thread[t].op \in {"begin", "finish"}
BeforeLeave == {"mark", "leave", "close_gate", "close_load", "close_unlock"}

TokensOwned ==
    /\ \A r \in Requests : token[r].gen = NoGen <=> token[r].st \in {"new", "beginning", "inert"}
    /\ \A t \in Threads :
           /\ thread[t].op = "begin" => token[thread[t].req].st = "beginning"
           /\ thread[t].op = "finish" =>
                  /\ token[thread[t].req].gen = G(t)
                  /\ token[thread[t].req].st = IF thread[t].pc \in BeforeLeave THEN "finishing" ELSE "done"
    /\ \A t, u \in Threads :
           t # u /\ Holder(t) /\ Holder(u) => thread[t].req # thread[u].req

----------------------------------------------------------------------------
(* Layer 3: admission.                                                     *)

Closed(g) == ~gen[g].accepting

\* Whoever is past the closing of its generation finds it closed; whoever is
\* admitting finds it accepting.
AdmissionInv ==
    /\ \A g \in Generations : g < lifecycle.next =>
           /\ gen[g].accepting <=> gen[g].closing = "no"
           /\ core[g].phase # "Open" => Closed(g)
    /\ \A t \in Threads :
           /\ thread[t].pc \in {"admit", "commit"} => gen[G(t)].accepting
           /\ At(t, "load_inflight") => gen[G(t)].closing = "yes"
           /\ thread[t].pc \in {"close_load", "close_unlock", "finalize"} \cup Finalizing => Closed(G(t))
           /\ At(t, "admit") => gen[G(t)].slots < MaxRequests
           /\ At(t, "refuse") => gen[G(t)].slots >= MaxRequests

----------------------------------------------------------------------------
(* Layer 4: finalization.                                                  *)

\* How far the holder of the finalization_gate has come.
Stage(t) ==
    LET g == G(t)
        pc == thread[t].pc
    IN  /\ pc \in {"stop_sampler", "join_sampler", "core_shutdown"} => core[g].phase = "Open"
        /\ pc = "stop_sampler" => gen[g].sampler # "stopping"
        /\ pc = "join_sampler" => gen[g].sampler \in {"stopping", "ended"}
        /\ pc = "core_shutdown" => gen[g].sampler \in {"none", "ended"}
        /\ pc = "sink_write" => core[g].phase = "Finalizing"
        /\ pc = "publish" => core[g].phase \in {"Success", "Failure"}
        /\ pc \in Finalizing => (pc = "retire" <=> gen[g].result # "Pending")

\* The result, the reports and the sampler agree with the sink attempt.
Settled(g) ==
    /\ gen[g].result = "Pending" /\ fgate[g] = Nobody =>
           core[g].phase = "Open" /\ gen[g].sampler # "stopping"
    /\ gen[g].result = "Success" => core[g].phase = "Success"
    /\ gen[g].result = "TerminalFailure" => core[g].phase = "Failure"
    /\ core[g].writes = IF core[g].phase \in {"Open", "Finalizing"} THEN 0 ELSE 1
    /\ core[g].phase # "Open" => gen[g].sampler \in {"none", "ended"}
    /\ "Ok" \in told[g] => gen[g].result = "Success"
    /\ "Err" \in told[g] => gen[g].result = "TerminalFailure"
    /\ core[g].unfinished # {} => ~gen[g].strict

\* The lifecycle refers to the one generation that may have no result yet.
Referred ==
    /\ \A g \in Generations :
           gen[g].result = "Pending" /\ g < lifecycle.next => lifecycle.gen = g
    /\ lifecycle.st = "TerminalFailed" => gen[lifecycle.gen].result = "TerminalFailure"

FinalInv == Referred /\ (\A g \in Generations : Settled(g)) /\ \A t \in Threads : Stage(t)

\* What the four layers say together.
BaseInv == Shape /\ GatesOwned /\ TokensOwned /\ AdmissionInv /\ FinalInv

----------------------------------------------------------------------------
(* What the building blocks of the actions do, field by field.             *)

ThreadsType == [Threads -> ThreadType]
GensType == [Generations -> GenerationType]
CoresType == [Generations -> CoreType]
TokensType == [Requests -> TokenType]
GatesType == [Generations -> Threads \cup {Nobody}]

\* Thread t goes on at pc within its operation; it returns; it is called.
OthersRun(t) == \A u \in Threads \ {t} : thread'[u] = thread[u]
Steps(t, pc) ==
    /\ OthersRun(t) /\ thread' \in ThreadsType
    /\ thread'[t].pc = pc /\ thread'[t].op = thread[t].op
    /\ thread'[t].gen = thread[t].gen /\ thread'[t].req = thread[t].req
Ends(t) ==
    /\ OthersRun(t) /\ thread' \in ThreadsType
    /\ thread'[t].pc = "idle" /\ thread'[t].op = "none" /\ thread'[t].n = 0
Enters(t, op, g, r, pc) ==
    /\ OthersRun(t) /\ thread' \in ThreadsType
    /\ thread'[t].pc = pc /\ thread'[t].op = op
    /\ thread'[t].gen = g /\ thread'[t].req = r /\ thread'[t].n = 0

\* Only the token of request r changes, and of it only the state.
OtherTokens(r) == \A q \in Requests \ {r} : token'[q] = token[q]
TokenTurns(r, st) ==
    /\ token' \in TokensType /\ OtherTokens(r)
    /\ token'[r].st = st /\ token'[r].gen = token[r].gen

\* What Return does: the admission_gate this thread may hold is released, and
\* an admission that was refused leaves an inert token.
Returns(t) ==
    /\ Ends(t) /\ agate' \in GatesType
    /\ thread[t].op # "begin" => agate' = agate /\ token' = token
    /\ thread[t].op = "begin" =>
          /\ thread[t].req \in Requests /\ TokenTurns(thread[t].req, "inert")
          /\ \A g \in Generations : agate'[g] = IF agate[g] = t THEN Nobody ELSE agate[g]

\* Only generation g, or its run, changes.
GenMoves(g) == gen' \in GensType /\ \A h \in Generations \ {g} : gen'[h] = gen[h]
CoreMoves(g) == core' \in CoresType /\ \A h \in Generations \ {g} : core'[h] = core[h]

\* The fields of a generation, and of a run, that stay as they are.
SamePolicy(x, y) == x.auto = y.auto /\ x.strict = y.strict
SameAdmission(x, y) == x.accepting = y.accepting /\ x.closing = y.closing
SameCounts(x, y) == x.slots = y.slots /\ x.inflight = y.inflight
SameFinal(x, y) == x.result = y.result /\ x.sampler = y.sampler
SameEvidence(c, d) ==
    c.pending = d.pending /\ c.done = d.done /\ c.unfinished = d.unfinished
SamePhase(c, d) == c.phase = d.phase /\ c.writes = d.writes

\* Generation g stops admitting, perhaps visibly so; its closing shows.
Seals(g) ==
    /\ GenMoves(g) /\ CoreMoves(g)
    /\ ~gen'[g].accepting /\ gen'[g].closing \in {"buffered", "yes"}
    /\ gen[g].closing = "yes" => gen'[g].closing = "yes"
    /\ SamePolicy(gen'[g], gen[g]) /\ SameCounts(gen'[g], gen[g]) /\ SameFinal(gen'[g], gen[g])
    /\ SameEvidence(core'[g], core[g]) /\ SamePhase(core'[g], core[g])
Shows(g) ==
    /\ GenMoves(g)
    /\ gen'[g].accepting = gen[g].accepting
    /\ gen'[g].closing = IF gen[g].closing = "buffered" THEN "yes" ELSE gen[g].closing
    /\ SamePolicy(gen'[g], gen[g]) /\ SameCounts(gen'[g], gen[g]) /\ SameFinal(gen'[g], gen[g])

\* Goto moves one thread within its operation.
LEMMA GotoSteps ==
    ASSUME TypeInv, NEW t \in Threads, NEW pc \in Pcs, Goto(t, pc)
    PROVE  Steps(t, pc) /\ thread'[t].n = thread[t].n
<1> USE DEF TypeInv, Goto, Steps, OthersRun, ThreadsType, ThreadType
<1>1. thread' = [thread EXCEPT ![t].pc = pc]
  OBVIOUS
<1> QED
  BY <1>1

\* A thread that returns is idle.
LEMMA IdleEnds ==
    ASSUME TypeInv, NEW t \in Threads, thread' = [thread EXCEPT ![t] = Idle]
    PROVE  Ends(t)
BY DEF TypeInv, Idle, Ends, OthersRun, ThreadsType, ThreadType, Pcs, Ops

\* A call puts the thread at the operation's first step.
LEMMA CallEnters ==
    ASSUME TypeInv, NEW t \in Threads, NEW op \in Ops, NEW g \in Generations,
           NEW r \in Requests \cup {NoRequest}, NEW pc \in Pcs, Call(t, op, g, r, pc)
    PROVE  Enters(t, op, g, r, pc)
BY DEF TypeInv, Call, Enters, OthersRun, ThreadsType, ThreadType

TokenStates == {"new", "beginning", "captured", "finishing", "done", "inert"}

\* A token's state changes alone.
LEMMA TokenSets ==
    ASSUME TypeInv, NEW r \in Requests, NEW st \in TokenStates,
           token' = [token EXCEPT ![r].st = st]
    PROVE  TokenTurns(r, st)
BY DEF TypeInv, TokenTurns, TokensType, TokenType, TokenStates, OtherTokens

\* Return releases the admission_gate and leaves an inert token.
LEMMA ReturnEnds ==
    ASSUME TypeInv, NEW t \in Threads, Where(t), Return(t)
    PROVE  Returns(t)
<1>1. Ends(t)
  BY IdleEnds DEF Return
<1>2. CASE thread[t].op # "begin"
  BY <1>1, <1>2 DEF Return, Returns, TypeInv, GatesType
<1>3. CASE thread[t].op = "begin"
  <2>1. thread[t].req \in Requests
    BY <1>3 DEF Where
  <2>2. agate' = [g \in Generations |-> IF agate[g] = t THEN Nobody ELSE agate[g]]
    BY <1>3 DEF Return
  <2>3. TokenTurns(thread[t].req, "inert")
    BY <1>3, <2>1, TokenSets DEF Return, TokenStates
  <2>4. agate' \in GatesType
    BY <2>2 DEF TypeInv, GatesType
  <2> QED
    BY <1>1, <1>3, <2>1, <2>2, <2>3, <2>4 DEF Returns
<1> QED
  BY <1>2, <1>3

\* A generation, or its run, is replaced as a whole.
LEMMA GenReplaced ==
    ASSUME TypeInv, NEW g \in Generations, NEW x \in GenerationType,
           gen' = [gen EXCEPT ![g] = x]
    PROVE  GenMoves(g) /\ gen'[g] = x
BY DEF TypeInv, GenMoves, GensType

\* Replacing one core run's record moves that run and no other.
LEMMA CoreReplaced ==
    ASSUME TypeInv, NEW g \in Generations, NEW c \in CoreType,
           core' = [core EXCEPT ![g] = c]
    PROVE  CoreMoves(g) /\ core'[g] = c
BY DEF TypeInv, CoreMoves, CoresType

Reasons == {"none", "ManualDisarm", "Shutdown", "AutoSealOnLimitsHit"}

\* The first reason to end a run is kept; nothing else of the run changes.
LEMMA EndReasonKeeps ==
    ASSUME NEW c \in CoreType, NEW reason \in Reasons
    PROVE  /\ CoreEndReason(c, reason) \in CoreType
           /\ SameEvidence(CoreEndReason(c, reason), c) /\ SamePhase(CoreEndReason(c, reason), c)
BY DEF CoreType, CoreEndReason, SameEvidence, SamePhase, Reasons

\* The flags of a generation that is being closed.
LEMMA ClosingFlags ==
    ASSUME NEW x \in GenerationType, NEW f \in {"buffered", "yes"}, NEW y,
           y = [x EXCEPT !.accepting = FALSE, !.closing = f]
    PROVE  /\ y \in GenerationType /\ ~y.accepting /\ y.closing = f
           /\ SamePolicy(y, x) /\ SameCounts(y, x) /\ SameFinal(y, x)
BY DEF GenerationType, SamePolicy, SameCounts, SameFinal

\* close_generation_admissions_locked stops the admissions of one generation
\* and leaves everything but the end reason of its run alone.
LEMMA SealCloses ==
    ASSUME TypeInv, NEW g \in Generations, NEW reason \in Reasons, SealAdmissions(g, reason)
    PROVE  Seals(g)
<1>1. core[g] \in CoreType /\ gen[g] \in GenerationType /\ gen \in GensType
  BY DEF TypeInv, GensType
<1>2. CoreMoves(g) /\ SameEvidence(core'[g], core[g]) /\ SamePhase(core'[g], core[g])
  <2>1. core' = [core EXCEPT ![g] = CoreEndReason(core[g], reason)]
    BY DEF SealAdmissions
  <2> QED
    BY <1>1, <2>1, EndReasonKeeps, CoreReplaced
<1> DEFINE closing == IF TSO /\ gen[g].closing = "no" THEN "buffered" ELSE "yes"
<1>3. gen' = [gen EXCEPT ![g].accepting = FALSE, ![g].closing = closing]
  BY DEF SealAdmissions
<1>4. closing \in {"buffered", "yes"} /\ (gen[g].closing = "yes" => closing = "yes")
  OBVIOUS
<1> HIDE DEF closing
<1>5. gen'[g] = [gen[g] EXCEPT !.accepting = FALSE, !.closing = closing]
  BY <1>1, <1>3 DEF GensType
<1>6. /\ gen'[g] \in GenerationType /\ ~gen'[g].accepting /\ gen'[g].closing = closing
      /\ SamePolicy(gen'[g], gen[g]) /\ SameCounts(gen'[g], gen[g]) /\ SameFinal(gen'[g], gen[g])
  BY <1>1, <1>4, <1>5, ClosingFlags
<1>7. GenMoves(g)
  BY <1>1, <1>3, <1>6 DEF GenMoves, GensType
<1> QED
  BY <1>2, <1>4, <1>6, <1>7 DEF Seals

\* A drained store buffer shows a closing flag and nothing else.
LEMMA DrainShows ==
    ASSUME TypeInv, NEW g \in Generations, gen' = [gen EXCEPT ![g] = Drained(gen[g])]
    PROVE  Shows(g)
BY DEF TypeInv, GenMoves, GensType, GenerationType, SamePolicy, SameCounts, SameFinal,
       Drained, Shows

\* The limits-hit latch leaves the evidence of the run alone.
LEMMA HitFields ==
    ASSUME NEW c \in CoreType, NEW d, d = [c EXCEPT !.limits_hit = TRUE]
    PROVE  d \in CoreType /\ SamePhase(d, c) /\ SameEvidence(d, c)
<1>1. d \in CoreType
  BY DEF CoreType
<1>2. SamePhase(d, c) /\ SameEvidence(d, c)
  BY DEF CoreType, SamePhase, SameEvidence
<1> QED
  BY <1>1, <1>2

\* Marking limits_hit changes neither the run's phase nor its evidence.
LEMMA HitKeepsEvidence ==
    ASSUME TypeInv, NEW g \in Generations, core' = [core EXCEPT ![g].limits_hit = TRUE]
    PROVE  CoreMoves(g) /\ SamePhase(core'[g], core[g]) /\ SameEvidence(core'[g], core[g])
<1>1. core \in CoresType /\ core[g] \in CoreType
  BY DEF TypeInv, CoresType
<1> DEFINE new == [core[g] EXCEPT !.limits_hit = TRUE]
<1>2. core' = [core EXCEPT ![g] = new]
  BY <1>1 DEF CoresType
<1>3. new \in CoreType /\ SamePhase(new, core[g]) /\ SameEvidence(new, core[g])
  BY <1>1, HitFields
<1> HIDE DEF new
<1> QED
  BY <1>2, <1>3, CoreReplaced

\* The core run admits a request if it is open and has room; otherwise it
\* keeps its evidence.
LEMMA CoreBeginAdmits ==
    ASSUME TypeInv, NEW g \in Generations, NEW r \in Requests,
           core' = [core EXCEPT ![g] = CoreBegin(core[g], r)]
    PROVE  /\ CoreMoves(g) /\ SamePhase(core'[g], core[g])
           /\ core'[g].unfinished = core[g].unfinished
           /\ core[g].phase = "Open" /\ HasRoom(core[g]) =>
                 core'[g].pending = core[g].pending \cup {r} /\ core'[g].done = core[g].done
           /\ ~(core[g].phase = "Open" /\ HasRoom(core[g])) => SameEvidence(core'[g], core[g])
<1>1. core[g] \in CoreType
  BY DEF TypeInv
<1>2. CASE core[g].phase # "Open"
  <2>1. core' = [core EXCEPT ![g] = core[g]]
    BY <1>2 DEF CoreBegin
  <2> QED
    BY <1>1, <1>2, <2>1, CoreReplaced DEF SamePhase, SameEvidence
<1>3. CASE core[g].phase = "Open" /\ HasRoom(core[g])
  <2> DEFINE new == [core[g] EXCEPT !.pending = core[g].pending \cup {r}]
  <2>1. core' = [core EXCEPT ![g] = new]
    BY <1>3 DEF CoreBegin
  <2>2. /\ new \in CoreType /\ SamePhase(new, core[g]) /\ new.done = core[g].done
        /\ new.pending = core[g].pending \cup {r} /\ new.unfinished = core[g].unfinished
    BY <1>1 DEF CoreType, SamePhase
  <2> HIDE DEF new
  <2> QED
    BY <1>3, <2>1, <2>2, CoreReplaced
<1>4. CASE core[g].phase = "Open" /\ ~HasRoom(core[g])
  <2> DEFINE new == [core[g] EXCEPT !.limits_hit = TRUE]
  <2>1. core' = [core EXCEPT ![g] = new]
    BY <1>4 DEF CoreBegin
  <2>2. new \in CoreType /\ SamePhase(new, core[g]) /\ SameEvidence(new, core[g])
    BY <1>1, HitFields
  <2> HIDE DEF new
  <2> QED
    BY <1>4, <2>1, <2>2, CoreReplaced DEF SameEvidence
<1> QED
  BY <1>2, <1>3, <1>4

\* A completion moves the request from pending to done, once.
LEMMA CoreFinishMoves ==
    ASSUME TypeInv, NEW g \in Generations, NEW r \in Requests,
           core' = [core EXCEPT ![g] = CoreFinish(core[g], r)]
    PROVE  /\ CoreMoves(g) /\ SamePhase(core'[g], core[g])
           /\ core'[g].unfinished = core[g].unfinished
           /\ core[g].phase = "Open" /\ r \in core[g].pending =>
                 /\ core'[g].pending = core[g].pending \ {r}
                 /\ core'[g].done = core[g].done \cup {r}
           /\ ~(core[g].phase = "Open" /\ r \in core[g].pending) => SameEvidence(core'[g], core[g])
<1>1. core[g] \in CoreType
  BY DEF TypeInv
<1>2. CASE core[g].phase = "Open" /\ r \in core[g].pending
  <2> DEFINE new == [core[g] EXCEPT !.pending = core[g].pending \ {r}, !.done = core[g].done \cup {r}]
  <2>1. core' = [core EXCEPT ![g] = new]
    BY <1>2 DEF CoreFinish
  <2>2. /\ new \in CoreType /\ SamePhase(new, core[g]) /\ new.done = core[g].done \cup {r}
        /\ new.pending = core[g].pending \ {r} /\ new.unfinished = core[g].unfinished
    BY <1>1 DEF CoreType, SamePhase
  <2> HIDE DEF new
  <2> QED
    BY <1>2, <2>1, <2>2, CoreReplaced
<1>3. CASE ~(core[g].phase = "Open" /\ r \in core[g].pending)
  <2>1. core' = [core EXCEPT ![g] = core[g]]
    BY <1>3 DEF CoreFinish
  <2> QED
    BY <1>1, <1>3, <2>1, CoreReplaced DEF SamePhase, SameEvidence
<1> QED
  BY <1>2, <1>3

----------------------------------------------------------------------------
(* What the actions do, field by field.                                    *)

\* enable() starts the next generation, open and empty.
LEMMA EnableDoes ==
    ASSUME Shape, NEW t \in Threads, Enable(t)
    PROVE  LET g == lifecycle.next IN
           /\ lifecycle.st \in {"Disabled", "TerminalFailed"} /\ g \in Generations
           /\ lifecycle' \in LifecycleType
           /\ lifecycle'.st = "Active" /\ lifecycle'.gen = g /\ lifecycle'.next = g + 1
           /\ GenMoves(g) /\ gen'[g].accepting /\ gen'[g].closing = "no"
           /\ gen'[g].slots = 0 /\ gen'[g].inflight = 0
           /\ gen'[g].result = "Pending" /\ gen'[g].sampler \in {"none", "running"}
           /\ CoreMoves(g) /\ core'[g] = NewRun
           /\ UNCHANGED <<template, agate, fgate, token, thread, told, calls>>
<1> DEFINE g == lifecycle.next
           new == NewGeneration(template)
<1>1. /\ lifecycle.st \in {"Disabled", "TerminalFailed"} /\ g \in Generations
      /\ lifecycle' = [st |-> "Active", gen |-> g, next |-> g + 1]
      /\ gen' = [gen EXCEPT ![g] = new] /\ core' = [core EXCEPT ![g] = NewRun]
      /\ UNCHANGED <<template, agate, fgate, token, thread, told, calls>>
  BY DEF Enable
<1>2. lifecycle' \in LifecycleType
  BY <1>1, ControllerAssumption DEF LifecycleType, Generations
<1>3. template \in [auto : BOOLEAN, strict : BOOLEAN, sampler : BOOLEAN]
  BY ControllerAssumption DEF Shape, TypeInv
<1>4. new \in GenerationType
  BY <1>3 DEF NewGeneration, GenerationType
<1>5. /\ new.accepting /\ new.closing = "no" /\ new.slots = 0 /\ new.inflight = 0
      /\ new.result = "Pending" /\ new.sampler \in {"none", "running"}
  BY DEF NewGeneration
<1>6. NewRun \in CoreType
  BY DEF NewRun, CoreType
<1>7. CoreMoves(g) /\ core'[g] = NewRun
  BY <1>1, <1>6, CoreReplaced DEF Shape
<1> HIDE DEF new
<1>8. GenMoves(g) /\ gen'[g] = new
  BY <1>1, <1>4, GenReplaced DEF Shape
<1> QED
  BY <1>1, <1>2, <1>5, <1>7, <1>8

\* begin_request_with looks at the lifecycle.
LEMMA BeginRequestDoes ==
    ASSUME Shape, NEW t \in Threads, NEW r \in Requests, BeginRequest(t, r)
    PROVE  /\ At(t, "idle") /\ token[r].st = "new"
           /\ \/ /\ lifecycle.st = "Active" /\ lifecycle.gen \in Generations
                 /\ Enters(t, "begin", lifecycle.gen, r, "begin_gate")
                 /\ TokenTurns(r, "beginning")
              \/ UNCHANGED thread /\ TokenTurns(r, "inert")
           /\ UNCHANGED <<lifecycle, template, gen, core, agate, fgate, told, calls>>
<1>1. CASE lifecycle.st = "Active"
  <2>1. lifecycle.gen \in Generations
    BY <1>1 DEF Shape, Born, TypeInv, LifecycleType
  <2>2. Enters(t, "begin", lifecycle.gen, r, "begin_gate")
    BY <1>1, <2>1, CallEnters DEF BeginRequest, Shape, Ops, Pcs
  <2>3. TokenTurns(r, "beginning")
    BY <1>1, TokenSets DEF BeginRequest, Shape, TokenStates
  <2> QED
    BY <1>1, <2>1, <2>2, <2>3 DEF BeginRequest
<1>2. CASE lifecycle.st # "Active"
  <2>1. TokenTurns(r, "inert")
    BY <1>2, TokenSets DEF BeginRequest, Shape, TokenStates
  <2> QED
    BY <1>2, <2>1 DEF BeginRequest
<1> QED
  BY <1>1, <1>2

\* A completion leaves the core run, then marks the controller's count.
LEMMA FinishRequestDoes ==
    ASSUME Shape, NEW t \in Threads, NEW r \in Requests, FinishRequest(t, r)
    PROVE  LET g == token[r].gen IN
           /\ At(t, "idle") /\ token[r].st = "captured" /\ g \in Generations
           /\ Enters(t, "finish", g, r, "mark") /\ TokenTurns(r, "finishing")
           /\ CoreMoves(g) /\ SamePhase(core'[g], core[g])
           /\ core'[g].unfinished = core[g].unfinished
           /\ core[g].phase = "Open" /\ r \in core[g].pending =>
                 /\ core'[g].pending = core[g].pending \ {r}
                 /\ core'[g].done = core[g].done \cup {r}
           /\ ~(core[g].phase = "Open" /\ r \in core[g].pending) => SameEvidence(core'[g], core[g])
           /\ UNCHANGED <<lifecycle, template, gen, agate, fgate, told, calls>>
<1> DEFINE g == token[r].gen
<1>1. /\ At(t, "idle") /\ token[r].st = "captured"
      /\ core' = [core EXCEPT ![g] = CoreFinish(core[g], r)]
      /\ token' = [token EXCEPT ![r].st = "finishing"]
      /\ Call(t, "finish", g, r, "mark")
      /\ UNCHANGED <<lifecycle, template, gen, agate, fgate, told, calls>>
  BY DEF FinishRequest
<1>2. g \in Generations
  BY <1>1 DEF Shape, Born, TypeInv, TokenType
<1>3. Enters(t, "finish", g, r, "mark")
  BY <1>1, <1>2, CallEnters DEF Shape, Ops, Pcs
<1>4. TokenTurns(r, "finishing")
  BY <1>1, TokenSets DEF Shape, TokenStates
<1> HIDE DEF g
<1>5. /\ CoreMoves(g) /\ SamePhase(core'[g], core[g])
      /\ core'[g].unfinished = core[g].unfinished
      /\ core[g].phase = "Open" /\ r \in core[g].pending =>
            /\ core'[g].pending = core[g].pending \ {r}
            /\ core'[g].done = core[g].done \cup {r}
      /\ ~(core[g].phase = "Open" /\ r \in core[g].pending) => SameEvidence(core'[g], core[g])
  BY <1>1, <1>2, CoreFinishMoves DEF Shape
<1> QED
  BY <1>1, <1>2, <1>3, <1>4, <1>5 DEF g

\* Evidence beyond a cap latches limits_hit and calls the listener.
LEMMA OverflowDoes ==
    ASSUME Shape, NEW t \in Threads, NEW g \in Generations, Overflow(t, g)
    PROVE  /\ At(t, "idle") /\ \E r \in Requests : token[r].gen = g
           /\ CoreMoves(g) /\ SamePhase(core'[g], core[g]) /\ SameEvidence(core'[g], core[g])
           /\ Enters(t, "overflow", g, NoRequest, "callback") \/ UNCHANGED thread
           /\ UNCHANGED <<lifecycle, template, gen, agate, fgate, token, told, calls>>
<1>1. /\ At(t, "idle") /\ \E r \in Requests : token[r].gen = g
      /\ core' = [core EXCEPT ![g].limits_hit = TRUE]
      /\ Call(t, "overflow", g, NoRequest, "callback") \/ UNCHANGED thread
      /\ UNCHANGED <<lifecycle, template, gen, agate, fgate, token, told, calls>>
  BY DEF Overflow
<1>2. CoreMoves(g) /\ SamePhase(core'[g], core[g]) /\ SameEvidence(core'[g], core[g])
  BY <1>1, HitKeepsEvidence DEF Shape
<1>3. Enters(t, "overflow", g, NoRequest, "callback") \/ UNCHANGED thread
  BY <1>1, CallEnters DEF Shape, Ops, Pcs
<1> QED
  BY <1>1, <1>2, <1>3

\* disable() closes the active generation, or repeats a terminal failure.
LEMMA DisableDoes ==
    ASSUME Shape, NEW t \in Threads, Disable(t)
    PROVE  /\ At(t, "idle") /\ calls' = calls + 1
           /\ \/ /\ lifecycle.st = "Active" /\ lifecycle.gen \in Generations
                 /\ Enters(t, "disable", lifecycle.gen, NoRequest, "close_gate")
                 /\ UNCHANGED told
              \/ /\ lifecycle.st = "TerminalFailed" /\ lifecycle.gen \in Generations
                 /\ told' = [told EXCEPT ![lifecycle.gen] = @ \cup {"Err"}]
                 /\ UNCHANGED thread
              \/ UNCHANGED <<thread, told>>
           /\ UNCHANGED <<lifecycle, template, gen, core, agate, fgate, token>>
<1>1. lifecycle.st \in {"Active", "TerminalFailed"} => lifecycle.gen \in Generations
  BY DEF Shape, Born, TypeInv, LifecycleType
<1>2. /\ lifecycle.st = "Active" /\ Call(t, "disable", lifecycle.gen, NoRequest, "close_gate")
      => Enters(t, "disable", lifecycle.gen, NoRequest, "close_gate")
  BY <1>1, CallEnters DEF Shape, Ops, Pcs
<1> QED
  BY <1>1, <1>2 DEF Disable

\* shutdown() ends the controller and closes the generation it refers to.
LEMMA ShutdownDoes ==
    ASSUME Shape, NEW t \in Threads, Shutdown(t)
    PROVE  /\ At(t, "idle") /\ calls' = calls + 1
           /\ lifecycle' \in LifecycleType /\ lifecycle'.st = "Shutdown"
           /\ lifecycle'.gen = lifecycle.gen /\ lifecycle'.next = lifecycle.next
           /\ \/ /\ lifecycle.gen \in Generations
                 /\ Enters(t, "shutdown", lifecycle.gen, NoRequest, "close_gate")
              \/ UNCHANGED thread
           /\ UNCHANGED <<template, gen, core, agate, fgate, token, told>>
<1>1. /\ lifecycle' = [lifecycle EXCEPT !.st = "Shutdown"] /\ lifecycle \in LifecycleType
      /\ At(t, "idle") /\ calls' = calls + 1
      /\ \/ lifecycle.gen # NoGen /\ Call(t, "shutdown", lifecycle.gen, NoRequest, "close_gate")
         \/ UNCHANGED thread
      /\ UNCHANGED <<template, gen, core, agate, fgate, token, told>>
  BY DEF Shutdown, Shape, TypeInv
<1>2. /\ lifecycle' \in LifecycleType /\ lifecycle'.st = "Shutdown"
      /\ lifecycle'.gen = lifecycle.gen /\ lifecycle'.next = lifecycle.next
  BY <1>1 DEF LifecycleType
<1>3. lifecycle.gen # NoGen => lifecycle.gen \in Generations
  BY <1>1 DEF LifecycleType
<1>4. \/ /\ lifecycle.gen \in Generations
         /\ Enters(t, "shutdown", lifecycle.gen, NoRequest, "close_gate")
      \/ UNCHANGED thread
  BY <1>1, <1>3, CallEnters DEF Shape, Ops, Pcs
<1> QED
  BY <1>1, <1>2, <1>4

\* Admission under the gate: refused, closed, or on to the core run.
LEMMA BeginGateDoes ==
    ASSUME Shape, NEW t \in Threads, BeginGate(t)
    PROVE  LET g == G(t) IN
           /\ At(t, "begin_gate") /\ thread[t].op = "begin" /\ g \in Generations
           /\ agate[g] = Nobody
           /\ \/ ~gen[g].accepting /\ Returns(t) /\ UNCHANGED <<gen, core>>
              \/ /\ gen[g].accepting /\ agate' = [agate EXCEPT ![g] = t] /\ UNCHANGED token
                 /\ \/ Seals(g) /\ Steps(t, "close_unlock")
                    \/ Saturated(g) /\ Seals(g) /\ Steps(t, "refuse")
                    \/ Saturated(g) /\ ~gen[g].auto /\ UNCHANGED <<gen, core>> /\ Steps(t, "refuse")
                    \/ ~Saturated(g) /\ UNCHANGED <<gen, core>> /\ Steps(t, "admit")
           /\ thread'[t].n \in {0, thread[t].n}
           /\ UNCHANGED <<lifecycle, template, fgate, told, calls>>
<1> DEFINE g == G(t)
<1>1. TypeInv /\ Where(t)
  BY DEF Shape
<1>2. /\ At(t, "begin_gate") /\ thread[t].op = "begin" /\ g \in Generations
      /\ agate[g] = Nobody
      /\ UNCHANGED <<lifecycle, template, fgate, told, calls>>
  BY <1>1 DEF BeginGate, Where, At, G
<1>3. Seals(g) \/ ~SealAdmissions(g, "AutoSealOnLimitsHit")
  BY <1>1, <1>2, SealCloses DEF Reasons
<1>4. Goto(t, "close_unlock") => Steps(t, "close_unlock") /\ thread'[t].n = thread[t].n
  BY <1>1, GotoSteps DEF Pcs
<1>5. Goto(t, "refuse") => Steps(t, "refuse") /\ thread'[t].n = thread[t].n
  BY <1>1, GotoSteps DEF Pcs
<1>6. Goto(t, "admit") => Steps(t, "admit") /\ thread'[t].n = thread[t].n
  BY <1>1, GotoSteps DEF Pcs
<1>7. Return(t) => Returns(t) /\ thread'[t].n = 0
  BY <1>1, ReturnEnds DEF Returns, Ends
<1> QED
  BY <1>2, <1>3, <1>4, <1>5, <1>6, <1>7 DEF BeginGate

\* A refused admission is counted by the core run, whose listener may be
\* called with the gate held.
LEMMA RefuseDoes ==
    ASSUME Shape, NEW t \in Threads, Refuse(t)
    PROVE  LET g == G(t)
               r == thread[t].req IN
           /\ At(t, "refuse") /\ thread[t].op = "begin" /\ g \in Generations /\ r \in Requests
           /\ CoreMoves(g) /\ SamePhase(core'[g], core[g])
           /\ core'[g].unfinished = core[g].unfinished
           /\ ~(core[g].phase = "Open" /\ HasRoom(core[g])) => SameEvidence(core'[g], core[g])
           /\ Shows(g)
           /\ \/ gen[g].auto /\ Steps(t, "callback") /\ UNCHANGED <<agate, token>>
              \/ Returns(t)
           /\ thread'[t].n \in {0, thread[t].n}
           /\ UNCHANGED <<lifecycle, template, fgate, told, calls>>
<1> DEFINE g == G(t)
           r == thread[t].req
<1>1. TypeInv /\ Where(t)
  BY DEF Shape
<1>2. /\ At(t, "refuse") /\ thread[t].op = "begin" /\ g \in Generations /\ r \in Requests
      /\ core' = [core EXCEPT ![g] = CoreBegin(core[g], r)]
      /\ gen' = [gen EXCEPT ![g] = Drained(gen[g])]
      /\ UNCHANGED <<lifecycle, template, fgate, told, calls>>
  BY <1>1 DEF Refuse, Where, At, G
<1>3. \/ gen[g].auto /\ Goto(t, "callback") /\ UNCHANGED <<agate, token>>
      \/ Return(t)
  BY DEF Refuse
<1>4. Goto(t, "callback") => Steps(t, "callback") /\ thread'[t].n = thread[t].n
  BY <1>1, GotoSteps DEF Pcs
<1>5. Return(t) => Returns(t) /\ thread'[t].n = 0
  BY <1>1, ReturnEnds DEF Returns, Ends
<1> HIDE DEF g, r
<1>6. Shows(g)
  BY <1>1, <1>2, DrainShows
<1>7. /\ CoreMoves(g) /\ SamePhase(core'[g], core[g])
      /\ core'[g].unfinished = core[g].unfinished
      /\ ~(core[g].phase = "Open" /\ HasRoom(core[g])) => SameEvidence(core'[g], core[g])
  BY <1>1, <1>2, CoreBeginAdmits
<1> QED
  BY <1>2, <1>3, <1>4, <1>5, <1>6, <1>7 DEF g, r

\* The core run is asked to admit.
LEMMA AdmitDoes ==
    ASSUME Shape, NEW t \in Threads, Admit(t)
    PROVE  LET g == G(t)
               r == thread[t].req IN
           /\ At(t, "admit") /\ thread[t].op = "begin" /\ g \in Generations /\ r \in Requests
           /\ CoreMoves(g) /\ SamePhase(core'[g], core[g])
           /\ core'[g].unfinished = core[g].unfinished
           /\ core[g].phase = "Open" /\ HasRoom(core[g]) =>
                 core'[g].pending = core[g].pending \cup {r} /\ core'[g].done = core[g].done
           /\ Steps(t, "commit") /\ thread'[t].n = thread[t].n
           /\ UNCHANGED <<lifecycle, template, gen, agate, fgate, token, told, calls>>
<1> DEFINE g == G(t)
           r == thread[t].req
<1>1. TypeInv /\ Where(t)
  BY DEF Shape
<1>2. /\ At(t, "admit") /\ thread[t].op = "begin" /\ g \in Generations /\ r \in Requests
      /\ core' = [core EXCEPT ![g] = CoreBegin(core[g], r)] /\ Goto(t, "commit")
      /\ UNCHANGED <<lifecycle, template, gen, agate, fgate, token, told, calls>>
  BY <1>1 DEF Admit, Where, At, G
<1>3. Steps(t, "commit") /\ thread'[t].n = thread[t].n
  BY <1>1, <1>2, GotoSteps DEF Pcs
<1> HIDE DEF g, r
<1>4. /\ CoreMoves(g) /\ SamePhase(core'[g], core[g])
      /\ core'[g].unfinished = core[g].unfinished
      /\ core[g].phase = "Open" /\ HasRoom(core[g]) =>
            core'[g].pending = core[g].pending \cup {r} /\ core'[g].done = core[g].done
  BY <1>1, <1>2, CoreBeginAdmits
<1> QED
  BY <1>2, <1>3, <1>4 DEF g, r

\* The admission is committed: slot, in-flight count, token and gate.
LEMMA CommitDoes ==
    ASSUME Shape, NEW t \in Threads, Commit(t)
    PROVE  LET g == G(t)
               r == thread[t].req IN
           /\ At(t, "commit") /\ thread[t].op = "begin" /\ g \in Generations /\ r \in Requests
           /\ GenMoves(g) /\ gen'[g].slots = gen[g].slots + 1
           /\ gen'[g].inflight = gen[g].inflight + 1
           /\ SamePolicy(gen'[g], gen[g]) /\ SameAdmission(gen'[g], gen[g])
           /\ SameFinal(gen'[g], gen[g])
           /\ token' \in TokensType /\ OtherTokens(r)
           /\ token'[r].st = "captured" /\ token'[r].gen = g
           /\ agate' = [agate EXCEPT ![g] = Nobody] /\ Ends(t)
           /\ UNCHANGED <<lifecycle, template, core, fgate, told, calls>>
<1> DEFINE g == G(t)
           r == thread[t].req
<1>1. TypeInv /\ Where(t)
  BY DEF Shape
<1>2. /\ At(t, "commit") /\ thread[t].op = "begin" /\ g \in Generations /\ r \in Requests
      /\ gen' = [gen EXCEPT ![g].slots = gen[g].slots + 1, ![g].inflight = gen[g].inflight + 1]
      /\ token' = [token EXCEPT ![r] = [st |-> "captured", gen |-> g]]
      /\ agate' = [agate EXCEPT ![g] = Nobody] /\ thread' = [thread EXCEPT ![t] = Idle]
      /\ UNCHANGED <<lifecycle, template, core, fgate, told, calls>>
  BY <1>1 DEF Commit, Where, At, G
<1>3. Ends(t)
  BY <1>1, <1>2, IdleEnds
<1> HIDE DEF g, r
<1>4. gen \in GensType /\ gen[g] \in GenerationType /\ token \in TokensType
  BY <1>1, <1>2 DEF TypeInv, GensType, TokensType
<1> DEFINE slots == gen[g].slots + 1
           inflight == gen[g].inflight + 1
<1>5. slots \in Nat /\ inflight \in Int
  BY <1>4 DEF GenerationType
<1>6. gen'[g] = [gen[g] EXCEPT !.slots = slots, !.inflight = inflight]
  BY <1>2, <1>4 DEF GensType
<1> HIDE DEF slots, inflight
<1>7. /\ gen'[g] \in GenerationType /\ gen'[g].slots = slots /\ gen'[g].inflight = inflight
      /\ SamePolicy(gen'[g], gen[g]) /\ SameAdmission(gen'[g], gen[g])
      /\ SameFinal(gen'[g], gen[g])
  <2>1. gen'[g] \in GenerationType
    BY <1>4, <1>5, <1>6 DEF GenerationType
  <2> QED
    BY <1>4, <1>6, <2>1 DEF GenerationType, SamePolicy, SameAdmission, SameFinal
<1>8. GenMoves(g)
  BY <1>2, <1>4, <1>7 DEF GenMoves, GensType
<1>9. [st |-> "captured", gen |-> g] \in TokenType
  BY <1>2 DEF TokenType
<1>10. /\ token' \in TokensType /\ OtherTokens(r)
       /\ token'[r].st = "captured" /\ token'[r].gen = g
  BY <1>2, <1>4, <1>9 DEF TokensType, OtherTokens
<1> QED
  BY <1>2, <1>3, <1>7, <1>8, <1>10 DEF g, r, slots, inflight

\* A completion finds its generation again, or finds it gone.
LEMMA MarkFinishedDoes ==
    ASSUME Shape, NEW t \in Threads, MarkFinished(t)
    PROVE  LET g == G(t)
               r == thread[t].req IN
           /\ At(t, "mark") /\ thread[t].op = "finish" /\ g \in Generations /\ r \in Requests
           /\ \/ Alive(g) /\ Steps(t, "close_gate") /\ UNCHANGED token
              \/ Alive(g) /\ Steps(t, "leave") /\ UNCHANGED token
              \/ ~Alive(g) /\ Ends(t) /\ TokenTurns(r, "done")
           /\ thread'[t].n \in {0, thread[t].n}
           /\ UNCHANGED <<lifecycle, template, gen, core, agate, fgate, told, calls>>
<1> DEFINE g == G(t)
           r == thread[t].req
<1>1. TypeInv /\ Where(t)
  BY DEF Shape
<1>2. /\ At(t, "mark") /\ thread[t].op = "finish" /\ g \in Generations /\ r \in Requests
      /\ UNCHANGED <<lifecycle, template, gen, core, agate, fgate, told, calls>>
  BY <1>1 DEF MarkFinished, Where, At, G
<1>3. Goto(t, "close_gate") => Steps(t, "close_gate") /\ thread'[t].n = thread[t].n
  BY <1>1, GotoSteps DEF Pcs
<1>4. Goto(t, "leave") => Steps(t, "leave") /\ thread'[t].n = thread[t].n
  BY <1>1, GotoSteps DEF Pcs
<1>5. thread' = [thread EXCEPT ![t] = Idle] => Ends(t) /\ thread'[t].n = 0
  BY <1>1, IdleEnds DEF Ends
<1>6. token' = [token EXCEPT ![r].st = "done"] => TokenTurns(r, "done")
  BY <1>1, <1>2, TokenSets DEF TokenStates
<1> QED
  BY <1>2, <1>3, <1>4, <1>5, <1>6 DEF MarkFinished

\* fetch_sub: the request leaves its generation.
LEMMA LeaveDoes ==
    ASSUME Shape, NEW t \in Threads, LeaveGeneration(t)
    PROVE  LET g == G(t)
               r == thread[t].req IN
           /\ At(t, "leave") /\ thread[t].op = "finish" /\ g \in Generations /\ r \in Requests
           /\ GenMoves(g) /\ gen'[g].slots = gen[g].slots
           /\ gen'[g].inflight = gen[g].inflight - 1
           /\ SamePolicy(gen'[g], gen[g]) /\ SameAdmission(gen'[g], gen[g])
           /\ SameFinal(gen'[g], gen[g])
           /\ TokenTurns(r, "done")
           /\ Steps(t, "check_closing") \/ Ends(t)
           /\ thread'[t].n \in {0, thread[t].n}
           /\ UNCHANGED <<lifecycle, template, core, agate, fgate, told, calls>>
<1> DEFINE g == G(t)
           r == thread[t].req
<1>1. TypeInv /\ Where(t)
  BY DEF Shape
<1>2. /\ At(t, "leave") /\ thread[t].op = "finish" /\ g \in Generations /\ r \in Requests
      /\ gen' = [gen EXCEPT ![g].inflight = gen[g].inflight - 1]
      /\ token' = [token EXCEPT ![r].st = "done"]
      /\ Goto(t, "check_closing") \/ thread' = [thread EXCEPT ![t] = Idle]
      /\ UNCHANGED <<lifecycle, template, core, agate, fgate, told, calls>>
  BY <1>1 DEF LeaveGeneration, Where, At, G
<1>3. /\ Steps(t, "check_closing") \/ Ends(t)
      /\ thread'[t].n \in {0, thread[t].n}
  BY <1>1, <1>2, IdleEnds, GotoSteps DEF Pcs, Ends
<1> HIDE DEF g, r
<1>4. TokenTurns(r, "done")
  BY <1>1, <1>2, TokenSets DEF TokenStates
<1>5. gen \in GensType /\ gen[g] \in GenerationType
  BY <1>1, <1>2 DEF TypeInv, GensType
<1> DEFINE slots == gen[g].slots
           inflight == gen[g].inflight - 1
<1>6. slots \in Nat /\ inflight \in Int
  BY <1>5 DEF GenerationType
<1>7. gen'[g] = [gen[g] EXCEPT !.slots = slots, !.inflight = inflight]
  BY <1>2, <1>5 DEF GensType, GenerationType
<1> HIDE DEF slots, inflight
<1>8. /\ gen'[g] \in GenerationType /\ gen'[g].slots = slots /\ gen'[g].inflight = inflight
      /\ SamePolicy(gen'[g], gen[g]) /\ SameAdmission(gen'[g], gen[g])
      /\ SameFinal(gen'[g], gen[g])
  <2>1. gen'[g] \in GenerationType
    BY <1>5, <1>6, <1>7 DEF GenerationType
  <2> QED
    BY <1>5, <1>7, <2>1 DEF GenerationType, SamePolicy, SameAdmission, SameFinal
<1>9. GenMoves(g)
  BY <1>2, <1>5, <1>8 DEF GenMoves, GensType
<1> QED
  BY <1>2, <1>3, <1>4, <1>8, <1>9 DEF g, r, slots, inflight

\* The last completion looks at closing.
LEMMA CheckClosingDoes ==
    ASSUME Shape, NEW t \in Threads, CheckClosing(t)
    PROVE  /\ At(t, "check_closing") /\ thread[t].op = "finish" /\ G(t) \in Generations
           /\ (gen[G(t)].closing = "yes" /\ Steps(t, "finalize")) \/ Ends(t)
           /\ thread'[t].n \in {0, thread[t].n}
           /\ UNCHANGED <<lifecycle, template, gen, core, agate, fgate, token, told, calls>>
<1>1. TypeInv /\ Where(t)
  BY DEF Shape
<1>2. Goto(t, "finalize") => Steps(t, "finalize") /\ thread'[t].n = thread[t].n
  BY <1>1, GotoSteps DEF Pcs
<1>3. thread' = [thread EXCEPT ![t] = Idle] => Ends(t) /\ thread'[t].n = 0
  BY <1>1, IdleEnds DEF Ends
<1>4. At(t, "check_closing") => thread[t].op = "finish" /\ G(t) \in Generations
  BY <1>1 DEF At, G, Where
<1> QED
  BY <1>2, <1>3, <1>4 DEF CheckClosing

\* on_limits_hit_signal
LEMMA SignalDoes ==
    ASSUME Shape, NEW t \in Threads, OnLimitsHitSignal(t)
    PROVE  LET g == G(t) IN
           /\ At(t, "callback") /\ thread[t].op \in {"begin", "overflow"} /\ g \in Generations
           /\ \/ Alive(g) /\ gen[g].closing = "yes" /\ Steps(t, "load_inflight")
              \/ Alive(g) /\ gen[g].closing # "yes" /\ Steps(t, "close_gate")
              \/ ~Alive(g) /\ Ends(t)
           /\ thread'[t].n \in {0, thread[t].n}
           /\ UNCHANGED <<lifecycle, template, gen, core, agate, fgate, token, told, calls>>
<1> DEFINE g == G(t)
<1>1. TypeInv /\ Where(t)
  BY DEF Shape
<1>2. /\ At(t, "callback") /\ thread[t].op \in {"begin", "overflow"} /\ g \in Generations
      /\ UNCHANGED <<lifecycle, template, gen, core, agate, fgate, token, told, calls>>
  BY <1>1 DEF OnLimitsHitSignal, Where, At, G
<1>3. Goto(t, "load_inflight") => Steps(t, "load_inflight") /\ thread'[t].n = thread[t].n
  BY <1>1, GotoSteps DEF Pcs
<1>4. Goto(t, "close_gate") => Steps(t, "close_gate") /\ thread'[t].n = thread[t].n
  BY <1>1, GotoSteps DEF Pcs
<1>5. thread' = [thread EXCEPT ![t] = Idle] => Ends(t) /\ thread'[t].n = 0
  BY <1>1, IdleEnds DEF Ends
<1> QED
  BY <1>2, <1>3, <1>4, <1>5 DEF OnLimitsHitSignal

\* A closing generation that is drained is finalized by the signal.
LEMMA LoadInflightDoes ==
    ASSUME Shape, NEW t \in Threads, LoadInflight(t)
    PROVE  LET g == G(t) IN
           /\ At(t, "load_inflight") /\ thread[t].op \in {"begin", "overflow"} /\ g \in Generations
           /\ \/ gen[g].inflight = 0 /\ Steps(t, "finalize") /\ UNCHANGED <<agate, token>>
              \/ Returns(t)
           /\ thread'[t].n \in {0, thread[t].n}
           /\ UNCHANGED <<lifecycle, template, gen, core, fgate, told, calls>>
<1>1. TypeInv /\ Where(t)
  BY DEF Shape
<1>2. Goto(t, "finalize") => Steps(t, "finalize") /\ thread'[t].n = thread[t].n
  BY <1>1, GotoSteps DEF Pcs
<1>3. Return(t) => Returns(t) /\ thread'[t].n = 0
  BY <1>1, ReturnEnds DEF Returns, Ends
<1>4. At(t, "load_inflight") => thread[t].op \in {"begin", "overflow"} /\ G(t) \in Generations
  BY <1>1 DEF At, G, Where
<1> QED
  BY <1>2, <1>3, <1>4 DEF LoadInflight

\* close_generation_admissions, under the gate.
LEMMA CloseAdmissionsDoes ==
    ASSUME Shape, NEW t \in Threads, CloseAdmissions(t)
    PROVE  LET g == G(t) IN
           /\ At(t, "close_gate") /\ thread[t].op \in {"finish", "overflow", "disable", "shutdown"}
           /\ g \in Generations /\ agate[g] = Nobody /\ agate' = [agate EXCEPT ![g] = t]
           /\ Seals(g) /\ Steps(t, "close_load") /\ thread'[t].n = thread[t].n
           /\ UNCHANGED <<lifecycle, template, fgate, token, told, calls>>
<1> DEFINE g == G(t)
<1>1. TypeInv /\ Where(t)
  BY DEF Shape
<1>2. /\ At(t, "close_gate") /\ thread[t].op \in {"finish", "overflow", "disable", "shutdown"}
      /\ g \in Generations /\ agate[g] = Nobody /\ agate' = [agate EXCEPT ![g] = t]
      /\ SealAdmissions(g, Reason(thread[t].op)) /\ Goto(t, "close_load")
      /\ UNCHANGED <<lifecycle, template, fgate, token, told, calls>>
  BY <1>1 DEF CloseAdmissions, Where, At, G
<1>3. Steps(t, "close_load") /\ thread'[t].n = thread[t].n
  BY <1>1, <1>2, GotoSteps DEF Pcs
<1>4. Reason(thread[t].op) \in Reasons
  BY DEF Reason, Reasons
<1> HIDE DEF g
<1>5. Seals(g)
  BY <1>1, <1>2, <1>4, SealCloses
<1> QED
  BY <1>2, <1>3, <1>5 DEF g

\* The count a closer reads under the gate.
LEMMA CloseLoadDoes ==
    ASSUME Shape, NEW t \in Threads, CloseLoad(t)
    PROVE  LET g == G(t) IN
           /\ At(t, "close_load") /\ thread[t].op \in {"finish", "overflow", "disable", "shutdown"}
           /\ g \in Generations
           /\ Steps(t, "close_unlock") /\ thread'[t].n = gen[g].inflight
           /\ UNCHANGED <<lifecycle, template, gen, core, agate, fgate, token, told, calls>>
<1> DEFINE g == G(t)
<1>1. TypeInv /\ Where(t)
  BY DEF Shape
<1>2. /\ At(t, "close_load") /\ thread[t].op \in {"finish", "overflow", "disable", "shutdown"}
      /\ g \in Generations
      /\ thread' = [thread EXCEPT ![t].pc = "close_unlock", ![t].n = gen[g].inflight]
      /\ UNCHANGED <<lifecycle, template, gen, core, agate, fgate, token, told, calls>>
  BY <1>1 DEF CloseLoad, Where, At, G
<1>3. gen[g].inflight \in Int
  BY <1>1, <1>2 DEF TypeInv, GenerationType
<1>4. Steps(t, "close_unlock") /\ thread'[t].n = gen[g].inflight
  <2>1. thread \in ThreadsType /\ thread[t] \in ThreadType
    BY <1>1 DEF TypeInv, ThreadsType
  <2> HIDE DEF g
  <2>2. thread'[t] = [thread[t] EXCEPT !.pc = "close_unlock", !.n = gen[g].inflight]
    BY <1>2, <2>1 DEF ThreadsType
  <2>3. /\ thread'[t] \in ThreadType /\ thread'[t].pc = "close_unlock"
        /\ thread'[t].n = gen[g].inflight /\ thread'[t].op = thread[t].op
        /\ thread'[t].gen = thread[t].gen /\ thread'[t].req = thread[t].req
    BY <1>3, <2>1, <2>2 DEF ThreadType, Pcs
  <2> QED
    BY <1>2, <2>1, <2>3 DEF Steps, OthersRun, ThreadsType
<1> QED
  BY <1>2, <1>4

\* The closer releases the gate and goes on, returns, or leaves.
LEMMA CloseUnlockDoes ==
    ASSUME Shape, NEW t \in Threads, CloseUnlock(t)
    PROVE  LET g == G(t) IN
           /\ At(t, "close_unlock") /\ thread[t].op # "none" /\ g \in Generations
           /\ Shows(g)
           /\ \/ thread[t].op = "begin" /\ Returns(t)
              \/ /\ thread[t].op # "begin" /\ agate' = [agate EXCEPT ![g] = Nobody] /\ UNCHANGED token
                 /\ \/ thread[t].op = "finish" /\ Steps(t, "leave")
                    \/ thread[t].op # "finish" /\ (thread[t].op = "shutdown" \/ thread[t].n = 0)
                       /\ Steps(t, "finalize")
                    \/ thread[t].op # "finish" /\ Ends(t)
           /\ thread'[t].n \in {0, thread[t].n}
           /\ UNCHANGED <<lifecycle, template, core, fgate, told, calls>>
<1> DEFINE g == G(t)
<1>1. TypeInv /\ Where(t)
  BY DEF Shape
<1>2. /\ At(t, "close_unlock") /\ thread[t].op # "none" /\ g \in Generations
      /\ gen' = [gen EXCEPT ![g] = Drained(gen[g])]
      /\ UNCHANGED <<lifecycle, template, core, fgate, told, calls>>
  BY <1>1 DEF CloseUnlock, Where, At, G
<1>3. Shows(g)
  BY <1>1, <1>2, DrainShows
<1>4. Goto(t, "leave") => Steps(t, "leave") /\ thread'[t].n = thread[t].n
  BY <1>1, GotoSteps DEF Pcs
<1>5. Goto(t, "finalize") => Steps(t, "finalize") /\ thread'[t].n = thread[t].n
  BY <1>1, GotoSteps DEF Pcs
<1>6. thread' = [thread EXCEPT ![t] = Idle] => Ends(t) /\ thread'[t].n = 0
  BY <1>1, IdleEnds DEF Ends
<1>7. Return(t) => Returns(t) /\ thread'[t].n = 0
  BY <1>1, ReturnEnds DEF Returns, Ends
<1> QED
  BY <1>2, <1>3, <1>4, <1>5, <1>6, <1>7 DEF CloseUnlock

\* Generation g gets result res and keeps everything else that matters.
Results(g, res) ==
    /\ GenMoves(g) /\ gen'[g].result = res /\ gen'[g].sampler = gen[g].sampler
    /\ SamePolicy(gen'[g], gen[g]) /\ SameAdmission(gen'[g], gen[g]) /\ SameCounts(gen'[g], gen[g])

\* The finalization fields of a generation change alone.
FinalMove(y, x, res) ==
    \E s, e \in BOOLEAN :
        y = [x EXCEPT !.finalize_started = s, !.last_error = e, !.result = res]

\* Publishing a finalization result keeps policy, admission and counts.
LEMMA FinalFields ==
    ASSUME NEW x \in GenerationType, NEW y,
           NEW res \in {"Pending", "Success", "TerminalFailure"}, FinalMove(y, x, res)
    PROVE  /\ y \in GenerationType /\ y.result = res /\ y.sampler = x.sampler
           /\ SamePolicy(y, x) /\ SameAdmission(y, x) /\ SameCounts(y, x)
BY DEF GenerationType, SamePolicy, SameAdmission, SameCounts, FinalMove

\* A step that publishes a result for one generation leaves the others alone.
LEMMA FinalSets ==
    ASSUME TypeInv, NEW g \in Generations, NEW res \in {"Pending", "Success", "TerminalFailure"},
           FinalMove(gen'[g], gen[g], res), gen' = [gen EXCEPT ![g] = gen'[g]]
    PROVE  Results(g, res)
<1>1. gen[g] \in GenerationType
  BY DEF TypeInv
<1>2. /\ gen'[g] \in GenerationType /\ gen'[g].result = res /\ gen'[g].sampler = gen[g].sampler
      /\ SamePolicy(gen'[g], gen[g]) /\ SameAdmission(gen'[g], gen[g])
      /\ SameCounts(gen'[g], gen[g])
  BY <1>1, FinalFields
<1>3. GenMoves(g)
  BY <1>2, GenReplaced
<1> QED
  BY <1>2, <1>3 DEF Results

\* The sampler of a generation changes alone.
LEMMA SamplerSets ==
    ASSUME TypeInv, NEW g \in Generations, NEW s \in {"none", "running", "stopping", "ended"},
           gen' = [gen EXCEPT ![g].sampler = s]
    PROVE  /\ GenMoves(g) /\ gen'[g].sampler = s /\ gen'[g].result = gen[g].result
           /\ SamePolicy(gen'[g], gen[g]) /\ SameAdmission(gen'[g], gen[g])
           /\ SameCounts(gen'[g], gen[g])
<1>1. gen \in GensType /\ gen[g] \in GenerationType
  BY DEF TypeInv, GensType
<1>2. gen'[g] = [gen[g] EXCEPT !.sampler = s]
  BY <1>1 DEF GensType
<1>3. gen'[g] \in GenerationType
  BY <1>1, <1>2 DEF GenerationType
<1>4. /\ gen'[g].sampler = s /\ gen'[g].result = gen[g].result
      /\ SamePolicy(gen'[g], gen[g]) /\ SameAdmission(gen'[g], gen[g])
      /\ SameCounts(gen'[g], gen[g])
  BY <1>1, <1>2 DEF GenerationType, SamePolicy, SameAdmission, SameCounts
<1>5. GenMoves(g)
  BY <1>1, <1>3 DEF GenMoves, GensType
<1> QED
  BY <1>4, <1>5

\* finalize_generation replays a stored result or takes the generation on.
LEMMA FinalizeGateDoes ==
    ASSUME Shape, NEW t \in Threads, FinalizeGate(t)
    PROVE  LET g == G(t)
               res == gen[g].result
               failed == res = "TerminalFailure" \/ (res = "Pending" /\ lifecycle.gen = g) IN
           /\ At(t, "finalize") /\ thread[t].op # "none" /\ g \in Generations
           /\ fgate[g] = Nobody
           /\ \/ /\ res = "Pending" /\ Current(g)
                 /\ fgate' = [fgate EXCEPT ![g] = t]
                 /\ Results(g, "Pending") /\ Steps(t, "stop_sampler")
                 /\ UNCHANGED <<agate, token, told>>
              \/ /\ ~(res = "Pending" /\ Current(g))
                 /\ Report(t, IF failed THEN "Err" ELSE "Ok")
                 /\ Results(g, IF failed THEN "TerminalFailure" ELSE res)
                 /\ Returns(t) /\ UNCHANGED fgate
           /\ thread'[t].n \in {0, thread[t].n}
           /\ UNCHANGED <<lifecycle, template, core, calls>>
<1> DEFINE g == G(t)
           res == gen[g].result
           failed == res = "TerminalFailure" \/ (res = "Pending" /\ lifecycle.gen = g)
<1>1. TypeInv /\ Where(t)
  BY DEF Shape
<1>2. /\ At(t, "finalize") /\ thread[t].op # "none" /\ g \in Generations
      /\ fgate[g] = Nobody
      /\ UNCHANGED <<lifecycle, template, core, calls>>
  BY <1>1 DEF FinalizeGate, Where, At, G
<1>3. gen \in GensType /\ gen[g] \in GenerationType
  BY <1>1, <1>2 DEF TypeInv, GensType
<1>4. res \in {"Pending", "Success", "TerminalFailure"}
  BY <1>3 DEF GenerationType
<1>5. CASE /\ res = "Pending" /\ Current(g)
           /\ fgate' = [fgate EXCEPT ![g] = t]
           /\ gen' = [gen EXCEPT ![g].finalize_started = TRUE, ![g].last_error = FALSE]
           /\ Goto(t, "stop_sampler")
           /\ UNCHANGED <<agate, token, told>>
  <2>1. Steps(t, "stop_sampler") /\ thread'[t].n = thread[t].n
    BY <1>1, <1>5, GotoSteps DEF Pcs
  <2>2. gen'[g] = [gen[g] EXCEPT !.finalize_started = TRUE, !.last_error = FALSE]
    BY <1>2, <1>3, <1>5 DEF GensType
  <2>3. gen'[g] = [gen[g] EXCEPT !.finalize_started = TRUE, !.last_error = FALSE, !.result = "Pending"]
    BY <1>3, <1>5, <2>2 DEF GenerationType
  <2>4. FinalMove(gen'[g], gen[g], "Pending")
    BY <2>3 DEF FinalMove
  <2>5. gen' = [gen EXCEPT ![g] = gen'[g]]
    BY <1>2, <1>3, <1>5 DEF GensType
  <2>6. Results(g, "Pending")
    BY <1>1, <1>2, <2>4, <2>5, FinalSets
  <2> QED
    BY <1>2, <1>5, <2>1, <2>6
<1>6. CASE /\ ~(res = "Pending" /\ Current(g))
           /\ Report(t, IF failed THEN "Err" ELSE "Ok")
           /\ gen' = [gen EXCEPT ![g].result = IF failed THEN "TerminalFailure" ELSE res]
           /\ Return(t) /\ UNCHANGED fgate
  <2>1. Returns(t) /\ thread'[t].n = 0
    BY <1>1, <1>6, ReturnEnds DEF Returns, Ends
  <2> DEFINE new == IF failed THEN "TerminalFailure" ELSE res
  <2>2. new \in {"Pending", "Success", "TerminalFailure"}
    BY <1>4
  <2>3. gen' = [gen EXCEPT ![g].result = new]
    BY <1>6
  <2> HIDE DEF new, g
  <2>4. gen'[g] = [gen[g] EXCEPT !.result = new]
    BY <1>2, <1>3, <2>3 DEF GensType
  <2>5. FinalMove(gen'[g], gen[g], new)
    <3>1. gen[g].finalize_started \in BOOLEAN /\ gen[g].last_error \in BOOLEAN
      BY <1>3 DEF GenerationType
    <3>2. gen'[g] = [gen[g] EXCEPT !.finalize_started = gen[g].finalize_started,
                                   !.last_error = gen[g].last_error, !.result = new]
      BY <1>3, <2>4 DEF GenerationType
    <3> QED
      BY <3>1, <3>2 DEF FinalMove
  <2>6. gen' = [gen EXCEPT ![g] = gen'[g]]
    BY <1>2, <1>3, <2>3 DEF GensType
  <2>7. Results(g, new)
    BY <1>1, <1>2, <2>2, <2>5, <2>6, FinalSets
  <2> QED
    BY <1>2, <1>6, <2>1, <2>7 DEF new, g
<1> QED
  BY <1>5, <1>6 DEF FinalizeGate

\* stop_runtime_sampler signals the task, if it still runs.
LEMMA StopSamplerDoes ==
    ASSUME Shape, NEW t \in Threads, StopSampler(t)
    PROVE  LET g == G(t) IN
           /\ At(t, "stop_sampler") /\ thread[t].op # "none" /\ g \in Generations
           /\ \/ /\ gen[g].sampler = "running" /\ Steps(t, "join_sampler")
                 /\ GenMoves(g) /\ gen'[g].sampler = "stopping" /\ gen'[g].result = gen[g].result
                 /\ SamePolicy(gen'[g], gen[g]) /\ SameAdmission(gen'[g], gen[g])
                 /\ SameCounts(gen'[g], gen[g])
              \/ gen[g].sampler # "running" /\ Steps(t, "core_shutdown") /\ UNCHANGED gen
           /\ thread'[t].n = thread[t].n
           /\ UNCHANGED <<lifecycle, template, core, agate, fgate, token, told, calls>>
<1> DEFINE g == G(t)
<1>1. TypeInv /\ Where(t)
  BY DEF Shape
<1>2. /\ At(t, "stop_sampler") /\ thread[t].op # "none" /\ g \in Generations
      /\ \/ /\ gen[g].sampler = "running" /\ Goto(t, "join_sampler")
            /\ gen' = [gen EXCEPT ![g].sampler = "stopping"]
         \/ gen[g].sampler # "running" /\ Goto(t, "core_shutdown") /\ UNCHANGED gen
      /\ UNCHANGED <<lifecycle, template, core, agate, fgate, token, told, calls>>
  BY <1>1 DEF StopSampler, Where, At, G
<1>3. Goto(t, "join_sampler") => Steps(t, "join_sampler") /\ thread'[t].n = thread[t].n
  BY <1>1, GotoSteps DEF Pcs
<1>4. Goto(t, "core_shutdown") => Steps(t, "core_shutdown") /\ thread'[t].n = thread[t].n
  BY <1>1, GotoSteps DEF Pcs
<1> HIDE DEF g
<1>5. gen' = [gen EXCEPT ![g].sampler = "stopping"] =>
      /\ GenMoves(g) /\ gen'[g].sampler = "stopping" /\ gen'[g].result = gen[g].result
      /\ SamePolicy(gen'[g], gen[g]) /\ SameAdmission(gen'[g], gen[g])
      /\ SameCounts(gen'[g], gen[g])
  BY <1>1, <1>2, SamplerSets
<1> QED
  BY <1>2, <1>3, <1>4, <1>5 DEF g

\* The joining thread goes on once the task has ended.
LEMMA JoinSamplerDoes ==
    ASSUME Shape, NEW t \in Threads, JoinSampler(t)
    PROVE  /\ At(t, "join_sampler") /\ thread[t].op # "none" /\ G(t) \in Generations
           /\ gen[G(t)].sampler = "ended"
           /\ Steps(t, "core_shutdown") /\ thread'[t].n = thread[t].n
           /\ UNCHANGED <<lifecycle, template, gen, core, agate, fgate, token, told, calls>>
<1>1. TypeInv /\ Where(t)
  BY DEF Shape
<1>2. Goto(t, "core_shutdown") => Steps(t, "core_shutdown") /\ thread'[t].n = thread[t].n
  BY <1>1, GotoSteps DEF Pcs
<1>3. At(t, "join_sampler") => thread[t].op # "none" /\ G(t) \in Generations
  BY <1>1 DEF At, G, Where
<1> QED
  BY <1>2, <1>3 DEF JoinSampler

\* The core run's shutdown() refuses a strict run with pending requests and
\* seals any other.
LEMMA CoreShutdownDoes ==
    ASSUME Shape, NEW t \in Threads, CoreShutdown(t)
    PROVE  LET g == G(t) IN
           /\ At(t, "core_shutdown") /\ thread[t].op # "none" /\ g \in Generations
           /\ core[g].phase = "Open"
           /\ \/ /\ Results(g, gen[g].result) /\ fgate' = [fgate EXCEPT ![g] = Nobody]
                 /\ Returns(t) /\ UNCHANGED core
              \/ /\ ~(gen[g].strict /\ core[g].pending # {})
                 /\ CoreMoves(g) /\ core'[g].phase = "Finalizing"
                 /\ core'[g].unfinished = core[g].pending /\ core'[g].pending = {}
                 /\ core'[g].done = core[g].done /\ core'[g].writes = core[g].writes
                 /\ Steps(t, "sink_write") /\ UNCHANGED <<gen, fgate, agate, token>>
           /\ thread'[t].n \in {0, thread[t].n}
           /\ UNCHANGED <<lifecycle, template, told, calls>>
<1> DEFINE g == G(t)
           refused == gen[g].strict /\ core[g].pending # {}
<1>1. TypeInv /\ Where(t)
  BY DEF Shape
<1>2. /\ At(t, "core_shutdown") /\ thread[t].op # "none" /\ g \in Generations
      /\ core[g].phase = "Open" /\ UNCHANGED <<lifecycle, template, told, calls>>
  BY <1>1 DEF CoreShutdown, Where, At, G
<1>3. gen \in GensType /\ gen[g] \in GenerationType /\ core[g] \in CoreType
  BY <1>1, <1>2 DEF TypeInv, GensType
<1>4. CASE /\ gen' = [gen EXCEPT ![g].finalize_started = FALSE, ![g].last_error = TRUE]
           /\ fgate' = [fgate EXCEPT ![g] = Nobody] /\ Return(t) /\ UNCHANGED core
  <2>1. Returns(t) /\ thread'[t].n = 0
    BY <1>1, <1>4, ReturnEnds DEF Returns, Ends
  <2> HIDE DEF g
  <2> DEFINE res == gen[g].result
  <2>2. res \in {"Pending", "Success", "TerminalFailure"}
    BY <1>3 DEF GenerationType
  <2>3. gen'[g] = [gen[g] EXCEPT !.finalize_started = FALSE, !.last_error = TRUE]
    BY <1>2, <1>3, <1>4 DEF GensType
  <2>4. gen'[g] = [gen[g] EXCEPT !.finalize_started = FALSE, !.last_error = TRUE, !.result = res]
    BY <1>3, <2>3 DEF GenerationType
  <2> HIDE DEF res
  <2>5. FinalMove(gen'[g], gen[g], res)
    BY <2>4 DEF FinalMove
  <2>6. gen' = [gen EXCEPT ![g] = gen'[g]]
    BY <1>2, <1>3, <1>4 DEF GensType
  <2>7. Results(g, res)
    BY <1>1, <1>2, <2>2, <2>5, <2>6, FinalSets
  <2> QED
    BY <1>2, <1>4, <2>1, <2>7 DEF g, res
<1>5. CASE /\ ~refused
           /\ core' = [core EXCEPT ![g] =
                  [CoreEndReason(core[g], "Shutdown") EXCEPT
                      !.phase = "Finalizing", !.unfinished = core[g].pending, !.pending = {}]]
           /\ Goto(t, "sink_write") /\ UNCHANGED <<gen, fgate, agate, token>>
  <2>1. Steps(t, "sink_write") /\ thread'[t].n = thread[t].n
    BY <1>1, <1>5, GotoSteps DEF Pcs
  <2> HIDE DEF g
  <2> DEFINE c == CoreEndReason(core[g], "Shutdown")
             p == core[g].pending
  <2>2. c \in CoreType /\ SameEvidence(c, core[g]) /\ SamePhase(c, core[g])
    BY <1>3, EndReasonKeeps DEF Reasons
  <2>3. p \in SUBSET Requests
    BY <1>3 DEF CoreType
  <2>4. core' = [core EXCEPT ![g] =
                    [c EXCEPT !.phase = "Finalizing", !.unfinished = p, !.pending = {}]]
    BY <1>5
  <2> HIDE DEF c, p
  <2>5. core'[g] = [c EXCEPT !.phase = "Finalizing", !.unfinished = p, !.pending = {}]
    BY <1>1, <1>2, <2>4 DEF TypeInv
  <2>6. core'[g] \in CoreType
    BY <2>2, <2>3, <2>5 DEF CoreType
  <2>7. /\ core'[g].phase = "Finalizing" /\ core'[g].unfinished = p /\ core'[g].pending = {}
        /\ core'[g].done = c.done /\ core'[g].writes = c.writes
    BY <2>2, <2>5 DEF CoreType
  <2>8. CoreMoves(g)
    BY <1>1, <1>2, <2>4, <2>5, <2>6, CoreReplaced
  <2>9. core'[g].done = core[g].done /\ core'[g].writes = core[g].writes
    BY <2>2, <2>7 DEF SameEvidence, SamePhase
  <2> QED
    BY <1>2, <1>5, <2>1, <2>7, <2>8, <2>9 DEF g, p
<1> QED
  BY <1>4, <1>5 DEF CoreShutdown

\* The one sink attempt of a sealed run.
LEMMA SinkWriteDoes ==
    ASSUME Shape, NEW t \in Threads, SinkWrite(t)
    PROVE  LET g == G(t) IN
           /\ At(t, "sink_write") /\ thread[t].op # "none" /\ g \in Generations
           /\ CoreMoves(g) /\ core'[g].phase \in {"Success", "Failure"}
           /\ core'[g].writes = core[g].writes + 1 /\ SameEvidence(core'[g], core[g])
           /\ Steps(t, "publish") /\ thread'[t].n = thread[t].n
           /\ UNCHANGED <<lifecycle, template, gen, agate, fgate, token, told, calls>>
<1> DEFINE g == G(t)
<1>1. TypeInv /\ Where(t)
  BY DEF Shape
<1>2. /\ At(t, "sink_write") /\ thread[t].op # "none" /\ g \in Generations
      /\ Goto(t, "publish")
      /\ UNCHANGED <<lifecycle, template, gen, agate, fgate, token, told, calls>>
  BY <1>1 DEF SinkWrite, Where, At, G
<1>3. PICK outcome \in {"Success", "Failure"} :
          core' = [core EXCEPT ![g].phase = outcome, ![g].writes = core[g].writes + 1]
  BY DEF SinkWrite
<1>4. Steps(t, "publish") /\ thread'[t].n = thread[t].n
  BY <1>1, <1>2, GotoSteps DEF Pcs
<1> HIDE DEF g
<1>5. core \in CoresType /\ core[g] \in CoreType
  BY <1>1, <1>2 DEF TypeInv, CoresType
<1>6. core'[g] = [core[g] EXCEPT !.phase = outcome, !.writes = core[g].writes + 1]
  BY <1>2, <1>3, <1>5 DEF CoresType
<1>7. core'[g] \in CoreType
  <2> DEFINE w == core[g].writes + 1
  <2>1. w \in Nat /\ core'[g] = [core[g] EXCEPT !.phase = outcome, !.writes = w]
    BY <1>5, <1>6 DEF CoreType
  <2> HIDE DEF w
  <2> QED
    BY <1>5, <2>1 DEF CoreType
<1>8. /\ core'[g].phase = outcome /\ core'[g].writes = core[g].writes + 1
      /\ SameEvidence(core'[g], core[g])
  BY <1>5, <1>6 DEF CoreType, SameEvidence
<1>9. CoreMoves(g)
  BY <1>2, <1>3, <1>5, <1>7 DEF CoreMoves, CoresType
<1> QED
  BY <1>2, <1>4, <1>8, <1>9 DEF g

\* set_generation_result stores what the sink attempt came to.
LEMMA PublishDoes ==
    ASSUME Shape, NEW t \in Threads, PublishResult(t)
    PROVE  LET g == G(t) IN
           /\ At(t, "publish") /\ thread[t].op # "none" /\ g \in Generations
           /\ Results(g, IF core[g].phase = "Success" THEN "Success" ELSE "TerminalFailure")
           /\ Steps(t, "retire") /\ thread'[t].n = thread[t].n
           /\ UNCHANGED <<lifecycle, template, core, agate, fgate, token, told, calls>>
<1> DEFINE g == G(t)
           res == IF core[g].phase = "Success" THEN "Success" ELSE "TerminalFailure"
           err == core[g].phase # "Success"
<1>1. TypeInv /\ Where(t)
  BY DEF Shape
<1>2. /\ At(t, "publish") /\ thread[t].op # "none" /\ g \in Generations
      /\ gen' = [gen EXCEPT ![g].finalize_started = FALSE, ![g].last_error = err, ![g].result = res]
      /\ Goto(t, "retire")
      /\ UNCHANGED <<lifecycle, template, core, agate, fgate, token, told, calls>>
  BY <1>1 DEF PublishResult, Where, At, G
<1>3. Steps(t, "retire") /\ thread'[t].n = thread[t].n
  BY <1>1, <1>2, GotoSteps DEF Pcs
<1>4. err \in BOOLEAN /\ res \in {"Pending", "Success", "TerminalFailure"}
  OBVIOUS
<1> HIDE DEF g, err, res
<1>5. gen \in GensType
  BY <1>1 DEF TypeInv, GensType
<1>6. gen'[g] = [gen[g] EXCEPT !.finalize_started = FALSE, !.last_error = err, !.result = res]
  BY <1>2, <1>5 DEF GensType
<1>7. FinalMove(gen'[g], gen[g], res)
  BY <1>4, <1>6 DEF FinalMove
<1>8. gen' = [gen EXCEPT ![g] = gen'[g]]
  BY <1>2, <1>5 DEF GensType
<1>9. Results(g, res)
  BY <1>1, <1>2, <1>4, <1>7, <1>8, FinalSets
<1> QED
  BY <1>2, <1>3, <1>9 DEF g, res

\* The lifecycle lets go of a generation, unless it was shut down meanwhile.
LEMMA RetireDoes ==
    ASSUME Shape, NEW t \in Threads, Retire(t)
    PROVE  LET g == G(t)
               ok == gen[g].result = "Success" IN
           /\ At(t, "retire") /\ thread[t].op # "none" /\ g \in Generations
           /\ lifecycle' \in LifecycleType /\ lifecycle'.next = lifecycle.next
           /\ \/ /\ lifecycle.st = "Active" /\ lifecycle.gen = g
                 /\ \/ ok /\ lifecycle'.st = "Disabled" /\ lifecycle'.gen = NoGen
                    \/ ~ok /\ lifecycle'.st = "TerminalFailed" /\ lifecycle'.gen = g
              \/ ~(lifecycle.st = "Active" /\ lifecycle.gen = g) /\ UNCHANGED lifecycle
           /\ fgate' = [fgate EXCEPT ![g] = Nobody]
           /\ Report(t, IF ok THEN "Ok" ELSE "Err")
           /\ Returns(t)
           /\ UNCHANGED <<template, gen, core, calls>>
<1> DEFINE g == G(t)
           ok == gen[g].result = "Success"
<1>1. TypeInv /\ Where(t) /\ lifecycle \in LifecycleType
  BY DEF Shape, TypeInv
<1>2. /\ At(t, "retire") /\ thread[t].op # "none" /\ g \in Generations
      /\ lifecycle' = IF lifecycle.st = "Active" /\ lifecycle.gen = g
                      THEN IF ok THEN [lifecycle EXCEPT !.st = "Disabled", !.gen = NoGen]
                                 ELSE [lifecycle EXCEPT !.st = "TerminalFailed"]
                      ELSE lifecycle
      /\ fgate' = [fgate EXCEPT ![g] = Nobody]
      /\ Report(t, IF ok THEN "Ok" ELSE "Err") /\ Return(t)
      /\ UNCHANGED <<template, gen, core, calls>>
  BY <1>1 DEF Retire, Where, At, G
<1>3. Returns(t)
  BY <1>1, <1>2, ReturnEnds
<1> HIDE DEF g, ok
<1>4. /\ lifecycle' \in LifecycleType /\ lifecycle'.next = lifecycle.next
      /\ \/ /\ lifecycle.st = "Active" /\ lifecycle.gen = g
            /\ \/ ok /\ lifecycle'.st = "Disabled" /\ lifecycle'.gen = NoGen
               \/ ~ok /\ lifecycle'.st = "TerminalFailed" /\ lifecycle'.gen = g
         \/ ~(lifecycle.st = "Active" /\ lifecycle.gen = g) /\ UNCHANGED lifecycle
  <2>1. CASE lifecycle.st = "Active" /\ lifecycle.gen = g /\ ok
    BY <1>1, <1>2, <2>1 DEF LifecycleType
  <2>2. CASE lifecycle.st = "Active" /\ lifecycle.gen = g /\ ~ok
    BY <1>1, <1>2, <2>2 DEF LifecycleType
  <2>3. CASE ~(lifecycle.st = "Active" /\ lifecycle.gen = g)
    BY <1>1, <1>2, <2>3
  <2> QED
    BY <2>1, <2>2, <2>3
<1> QED
  BY <1>2, <1>3, <1>4 DEF g, ok

\* The store buffer drains on its own.
LEMMA DrainStoreDoes ==
    ASSUME Shape, NEW g \in Generations, DrainStore(g)
    PROVE  /\ gen[g].closing = "buffered" /\ Shows(g)
           /\ UNCHANGED <<lifecycle, template, core, agate, fgate, token, thread, told, calls>>
BY DrainShows DEF DrainStore, Shape

\* The sampler task ends.
LEMMA SamplerTaskDoes ==
    ASSUME Shape, NEW g \in Generations, SamplerTaskEnds(g)
    PROVE  /\ gen[g].sampler \in {"running", "stopping"}
           /\ GenMoves(g) /\ gen'[g].sampler = "ended" /\ gen'[g].result = gen[g].result
           /\ SamePolicy(gen'[g], gen[g]) /\ SameAdmission(gen'[g], gen[g])
           /\ SameCounts(gen'[g], gen[g])
           /\ UNCHANGED <<lifecycle, template, core, agate, fgate, token, thread, told, calls>>
BY SamplerSets DEF SamplerTaskEnds, Shape

----------------------------------------------------------------------------
(* Layer 1 is inductive.                                                   *)

\* Every step keeps the types.
LEMMA StepTypes ==
    ASSUME Shape, [Next]_vars
    PROVE  TypeInv'
<1>1. ASSUME NEW t \in Threads, Enable(t)
      PROVE  TypeInv'
  BY <1>1, EnableDoes
  DEF Shape, TypeInv, GensType, CoresType, TokensType, GatesType, ThreadsType, GenMoves,
      CoreMoves, Steps, Ends, Enters, Returns, TokenTurns, Seals, Shows, Results, Report
<1>2. ASSUME NEW t \in Threads, NEW tpl \in Templates, Reload(t, tpl)
      PROVE  TypeInv'
  BY <1>2
  DEF Reload, Shape, TypeInv, GensType, CoresType, TokensType, GatesType, ThreadsType,
      GenMoves, CoreMoves, Steps, Ends, Enters, Returns, TokenTurns, Seals, Shows,
      Results, Report
<1>3. ASSUME NEW t \in Threads, NEW r \in Requests, BeginRequest(t, r)
      PROVE  TypeInv'
  BY <1>3, BeginRequestDoes
  DEF Shape, TypeInv, GensType, CoresType, TokensType, GatesType, ThreadsType, GenMoves,
      CoreMoves, Steps, Ends, Enters, Returns, TokenTurns, Seals, Shows, Results, Report
<1>4. ASSUME NEW t \in Threads, NEW r \in Requests, FinishRequest(t, r)
      PROVE  TypeInv'
  BY <1>4, FinishRequestDoes
  DEF Shape, TypeInv, GensType, CoresType, TokensType, GatesType, ThreadsType, GenMoves,
      CoreMoves, Steps, Ends, Enters, Returns, TokenTurns, Seals, Shows, Results, Report
<1>5. ASSUME NEW t \in Threads, NEW g \in Generations, Overflow(t, g)
      PROVE  TypeInv'
  BY <1>5, OverflowDoes
  DEF Shape, TypeInv, GensType, CoresType, TokensType, GatesType, ThreadsType, GenMoves,
      CoreMoves, Steps, Ends, Enters, Returns, TokenTurns, Seals, Shows, Results, Report
<1>6. ASSUME NEW t \in Threads, Disable(t)
      PROVE  TypeInv'
  BY <1>6, DisableDoes
  DEF Shape, TypeInv, GensType, CoresType, TokensType, GatesType, ThreadsType, GenMoves,
      CoreMoves, Steps, Ends, Enters, Returns, TokenTurns, Seals, Shows, Results, Report
<1>7. ASSUME NEW t \in Threads, Shutdown(t)
      PROVE  TypeInv'
  BY <1>7, ShutdownDoes
  DEF Shape, TypeInv, GensType, CoresType, TokensType, GatesType, ThreadsType, GenMoves,
      CoreMoves, Steps, Ends, Enters, Returns, TokenTurns, Seals, Shows, Results, Report
<1>8. ASSUME NEW t \in Threads, BeginGate(t)
      PROVE  TypeInv'
  BY <1>8, BeginGateDoes
  DEF Shape, TypeInv, GensType, CoresType, TokensType, GatesType, ThreadsType, GenMoves,
      CoreMoves, Steps, Ends, Enters, Returns, TokenTurns, Seals, Shows, Results, Report
<1>9. ASSUME NEW t \in Threads, Refuse(t)
      PROVE  TypeInv'
  BY <1>9, RefuseDoes
  DEF Shape, TypeInv, GensType, CoresType, TokensType, GatesType, ThreadsType, GenMoves,
      CoreMoves, Steps, Ends, Enters, Returns, TokenTurns, Seals, Shows, Results, Report
<1>10. ASSUME NEW t \in Threads, Admit(t)
      PROVE  TypeInv'
  BY <1>10, AdmitDoes
  DEF Shape, TypeInv, GensType, CoresType, TokensType, GatesType, ThreadsType, GenMoves,
      CoreMoves, Steps, Ends, Enters, Returns, TokenTurns, Seals, Shows, Results, Report
<1>11. ASSUME NEW t \in Threads, Commit(t)
      PROVE  TypeInv'
  BY <1>11, CommitDoes
  DEF Shape, TypeInv, GensType, CoresType, TokensType, GatesType, ThreadsType, GenMoves,
      CoreMoves, Steps, Ends, Enters, Returns, TokenTurns, Seals, Shows, Results, Report
<1>12. ASSUME NEW t \in Threads, MarkFinished(t)
      PROVE  TypeInv'
  BY <1>12, MarkFinishedDoes
  DEF Shape, TypeInv, GensType, CoresType, TokensType, GatesType, ThreadsType, GenMoves,
      CoreMoves, Steps, Ends, Enters, Returns, TokenTurns, Seals, Shows, Results, Report
<1>13. ASSUME NEW t \in Threads, LeaveGeneration(t)
      PROVE  TypeInv'
  BY <1>13, LeaveDoes
  DEF Shape, TypeInv, GensType, CoresType, TokensType, GatesType, ThreadsType, GenMoves,
      CoreMoves, Steps, Ends, Enters, Returns, TokenTurns, Seals, Shows, Results, Report
<1>14. ASSUME NEW t \in Threads, CheckClosing(t)
      PROVE  TypeInv'
  BY <1>14, CheckClosingDoes
  DEF Shape, TypeInv, GensType, CoresType, TokensType, GatesType, ThreadsType, GenMoves,
      CoreMoves, Steps, Ends, Enters, Returns, TokenTurns, Seals, Shows, Results, Report
<1>15. ASSUME NEW t \in Threads, OnLimitsHitSignal(t)
      PROVE  TypeInv'
  BY <1>15, SignalDoes
  DEF Shape, TypeInv, GensType, CoresType, TokensType, GatesType, ThreadsType, GenMoves,
      CoreMoves, Steps, Ends, Enters, Returns, TokenTurns, Seals, Shows, Results, Report
<1>16. ASSUME NEW t \in Threads, LoadInflight(t)
      PROVE  TypeInv'
  BY <1>16, LoadInflightDoes
  DEF Shape, TypeInv, GensType, CoresType, TokensType, GatesType, ThreadsType, GenMoves,
      CoreMoves, Steps, Ends, Enters, Returns, TokenTurns, Seals, Shows, Results, Report
<1>17. ASSUME NEW t \in Threads, CloseAdmissions(t)
      PROVE  TypeInv'
  BY <1>17, CloseAdmissionsDoes
  DEF Shape, TypeInv, GensType, CoresType, TokensType, GatesType, ThreadsType, GenMoves,
      CoreMoves, Steps, Ends, Enters, Returns, TokenTurns, Seals, Shows, Results, Report
<1>18. ASSUME NEW t \in Threads, CloseLoad(t)
      PROVE  TypeInv'
  BY <1>18, CloseLoadDoes
  DEF Shape, TypeInv, GensType, CoresType, TokensType, GatesType, ThreadsType, GenMoves,
      CoreMoves, Steps, Ends, Enters, Returns, TokenTurns, Seals, Shows, Results, Report
<1>19. ASSUME NEW t \in Threads, CloseUnlock(t)
      PROVE  TypeInv'
  BY <1>19, CloseUnlockDoes
  DEF Shape, TypeInv, GensType, CoresType, TokensType, GatesType, ThreadsType, GenMoves,
      CoreMoves, Steps, Ends, Enters, Returns, TokenTurns, Seals, Shows, Results, Report
<1>20. ASSUME NEW t \in Threads, FinalizeGate(t)
      PROVE  TypeInv'
  BY <1>20, FinalizeGateDoes
  DEF Shape, TypeInv, GensType, CoresType, TokensType, GatesType, ThreadsType, GenMoves,
      CoreMoves, Steps, Ends, Enters, Returns, TokenTurns, Seals, Shows, Results, Report
<1>21. ASSUME NEW t \in Threads, StopSampler(t)
      PROVE  TypeInv'
  BY <1>21, StopSamplerDoes
  DEF Shape, TypeInv, GensType, CoresType, TokensType, GatesType, ThreadsType, GenMoves,
      CoreMoves, Steps, Ends, Enters, Returns, TokenTurns, Seals, Shows, Results, Report
<1>22. ASSUME NEW t \in Threads, JoinSampler(t)
      PROVE  TypeInv'
  BY <1>22, JoinSamplerDoes
  DEF Shape, TypeInv, GensType, CoresType, TokensType, GatesType, ThreadsType, GenMoves,
      CoreMoves, Steps, Ends, Enters, Returns, TokenTurns, Seals, Shows, Results, Report
<1>23. ASSUME NEW t \in Threads, CoreShutdown(t)
      PROVE  TypeInv'
  BY <1>23, CoreShutdownDoes
  DEF Shape, TypeInv, GensType, CoresType, TokensType, GatesType, ThreadsType, GenMoves,
      CoreMoves, Steps, Ends, Enters, Returns, TokenTurns, Seals, Shows, Results, Report
<1>24. ASSUME NEW t \in Threads, SinkWrite(t)
      PROVE  TypeInv'
  BY <1>24, SinkWriteDoes
  DEF Shape, TypeInv, GensType, CoresType, TokensType, GatesType, ThreadsType, GenMoves,
      CoreMoves, Steps, Ends, Enters, Returns, TokenTurns, Seals, Shows, Results, Report
<1>25. ASSUME NEW t \in Threads, PublishResult(t)
      PROVE  TypeInv'
  BY <1>25, PublishDoes
  DEF Shape, TypeInv, GensType, CoresType, TokensType, GatesType, ThreadsType, GenMoves,
      CoreMoves, Steps, Ends, Enters, Returns, TokenTurns, Seals, Shows, Results, Report
<1>26. ASSUME NEW t \in Threads, Retire(t)
      PROVE  TypeInv'
  BY <1>26, RetireDoes
  DEF Shape, TypeInv, GensType, CoresType, TokensType, GatesType, ThreadsType, GenMoves,
      CoreMoves, Steps, Ends, Enters, Returns, TokenTurns, Seals, Shows, Results, Report
<1>27. ASSUME NEW g \in Generations, DrainStore(g)
      PROVE  TypeInv'
  BY <1>27, DrainStoreDoes
  DEF Shape, TypeInv, GensType, CoresType, TokensType, GatesType, ThreadsType, GenMoves,
      CoreMoves, Steps, Ends, Enters, Returns, TokenTurns, Seals, Shows, Results, Report
<1>28. ASSUME NEW g \in Generations, SamplerTaskEnds(g)
      PROVE  TypeInv'
  BY <1>28, SamplerTaskDoes
  DEF Shape, TypeInv, GensType, CoresType, TokensType, GatesType, ThreadsType, GenMoves,
      CoreMoves, Steps, Ends, Enters, Returns, TokenTurns, Seals, Shows, Results, Report
<1>29. CASE UNCHANGED vars
  BY <1>29
  DEF vars, Shape, TypeInv, GensType, CoresType, TokensType, GatesType, ThreadsType,
      GenMoves, CoreMoves, Steps, Ends, Enters, Returns, TokenTurns, Seals, Shows,
      Results, Report
<1> QED
  BY <1>1, <1>2, <1>3, <1>4, <1>5, <1>6, <1>7, <1>8, <1>9, <1>10, <1>11, <1>12, <1>13,
     <1>14, <1>15, <1>16, <1>17, <1>18, <1>19, <1>20, <1>21, <1>22, <1>23, <1>24, <1>25,
     <1>26, <1>27, <1>28, <1>29
  DEF Next, Operation, Continue, Background

\* What a generation that was enabled never takes back, and a controller that
\* was shut down.
Grows ==
    /\ lifecycle.next <= lifecycle'.next
    /\ lifecycle.st = "Shutdown" =>
           lifecycle'.st = "Shutdown" /\ lifecycle'.gen = lifecycle.gen
    /\ \A g \in Generations : g < lifecycle.next =>
           /\ SamePolicy(gen'[g], gen[g])
           /\ gen[g].closing = "yes" => gen'[g].closing = "yes"
           /\ gen[g].closing # "no" => gen'[g].closing # "no"
           /\ ~gen[g].accepting => ~gen'[g].accepting

\* Generation numbers only grow, and only enable() hands out a new one.
LEMMA StepGrows ==
    ASSUME Shape, [Next]_vars
    PROVE  Grows
<1>0. lifecycle.next \in Int /\ \A g \in Generations : g \in Int
  BY ControllerAssumption DEF Shape, TypeInv, LifecycleType, Generations
<1>1. ASSUME NEW t \in Threads, Enable(t)
      PROVE  Grows
  <2>1. /\ lifecycle.st # "Shutdown" /\ lifecycle'.next = lifecycle.next + 1
        /\ \A h \in Generations \ {lifecycle.next} : gen'[h] = gen[h]
    BY <1>1, EnableDoes DEF GenMoves
  <2>2. \A h \in Generations : h < lifecycle.next => gen'[h] = gen[h]
    BY <1>0, <2>1
  <2> QED
    BY <1>0, <2>1, <2>2 DEF Grows, SamePolicy
<1>2. ASSUME NEW t \in Threads, NEW tpl \in Templates, Reload(t, tpl)
      PROVE  Grows
  BY <1>2, <1>0
  DEF Reload, Grows, SamePolicy, SameAdmission, GenMoves, Seals, Shows, Results
<1>3. ASSUME NEW t \in Threads, NEW r \in Requests, BeginRequest(t, r)
      PROVE  Grows
  BY <1>3, BeginRequestDoes, <1>0
  DEF Grows, SamePolicy, SameAdmission, GenMoves, Seals, Shows, Results
<1>4. ASSUME NEW t \in Threads, NEW r \in Requests, FinishRequest(t, r)
      PROVE  Grows
  BY <1>4, FinishRequestDoes, <1>0
  DEF Grows, SamePolicy, SameAdmission, GenMoves, Seals, Shows, Results
<1>5. ASSUME NEW t \in Threads, NEW g \in Generations, Overflow(t, g)
      PROVE  Grows
  BY <1>5, OverflowDoes, <1>0
  DEF Grows, SamePolicy, SameAdmission, GenMoves, Seals, Shows, Results
<1>6. ASSUME NEW t \in Threads, Disable(t)
      PROVE  Grows
  BY <1>6, DisableDoes, <1>0
  DEF Grows, SamePolicy, SameAdmission, GenMoves, Seals, Shows, Results
<1>7. ASSUME NEW t \in Threads, Shutdown(t)
      PROVE  Grows
  BY <1>7, ShutdownDoes, <1>0
  DEF Grows, SamePolicy, SameAdmission, GenMoves, Seals, Shows, Results
<1>8. ASSUME NEW t \in Threads, BeginGate(t)
      PROVE  Grows
  BY <1>8, BeginGateDoes, <1>0
  DEF Grows, SamePolicy, SameAdmission, GenMoves, Seals, Shows, Results
<1>9. ASSUME NEW t \in Threads, Refuse(t)
      PROVE  Grows
  BY <1>9, RefuseDoes, <1>0
  DEF Grows, SamePolicy, SameAdmission, GenMoves, Seals, Shows, Results
<1>10. ASSUME NEW t \in Threads, Admit(t)
      PROVE  Grows
  BY <1>10, AdmitDoes, <1>0
  DEF Grows, SamePolicy, SameAdmission, GenMoves, Seals, Shows, Results
<1>11. ASSUME NEW t \in Threads, Commit(t)
      PROVE  Grows
  BY <1>11, CommitDoes, <1>0
  DEF Grows, SamePolicy, SameAdmission, GenMoves, Seals, Shows, Results
<1>12. ASSUME NEW t \in Threads, MarkFinished(t)
      PROVE  Grows
  BY <1>12, MarkFinishedDoes, <1>0
  DEF Grows, SamePolicy, SameAdmission, GenMoves, Seals, Shows, Results
<1>13. ASSUME NEW t \in Threads, LeaveGeneration(t)
      PROVE  Grows
  BY <1>13, LeaveDoes, <1>0
  DEF Grows, SamePolicy, SameAdmission, GenMoves, Seals, Shows, Results
<1>14. ASSUME NEW t \in Threads, CheckClosing(t)
      PROVE  Grows
  BY <1>14, CheckClosingDoes, <1>0
  DEF Grows, SamePolicy, SameAdmission, GenMoves, Seals, Shows, Results
<1>15. ASSUME NEW t \in Threads, OnLimitsHitSignal(t)
      PROVE  Grows
  BY <1>15, SignalDoes, <1>0
  DEF Grows, SamePolicy, SameAdmission, GenMoves, Seals, Shows, Results
<1>16. ASSUME NEW t \in Threads, LoadInflight(t)
      PROVE  Grows
  BY <1>16, LoadInflightDoes, <1>0
  DEF Grows, SamePolicy, SameAdmission, GenMoves, Seals, Shows, Results
<1>17. ASSUME NEW t \in Threads, CloseAdmissions(t)
      PROVE  Grows
  BY <1>17, CloseAdmissionsDoes, <1>0
  DEF Grows, SamePolicy, SameAdmission, GenMoves, Seals, Shows, Results
<1>18. ASSUME NEW t \in Threads, CloseLoad(t)
      PROVE  Grows
  BY <1>18, CloseLoadDoes, <1>0
  DEF Grows, SamePolicy, SameAdmission, GenMoves, Seals, Shows, Results
<1>19. ASSUME NEW t \in Threads, CloseUnlock(t)
      PROVE  Grows
  BY <1>19, CloseUnlockDoes, <1>0
  DEF Grows, SamePolicy, SameAdmission, GenMoves, Seals, Shows, Results
<1>20. ASSUME NEW t \in Threads, FinalizeGate(t)
      PROVE  Grows
  BY <1>20, FinalizeGateDoes, <1>0
  DEF Grows, SamePolicy, SameAdmission, GenMoves, Seals, Shows, Results
<1>21. ASSUME NEW t \in Threads, StopSampler(t)
      PROVE  Grows
  BY <1>21, StopSamplerDoes, <1>0
  DEF Grows, SamePolicy, SameAdmission, GenMoves, Seals, Shows, Results
<1>22. ASSUME NEW t \in Threads, JoinSampler(t)
      PROVE  Grows
  BY <1>22, JoinSamplerDoes, <1>0
  DEF Grows, SamePolicy, SameAdmission, GenMoves, Seals, Shows, Results
<1>23. ASSUME NEW t \in Threads, CoreShutdown(t)
      PROVE  Grows
  BY <1>23, CoreShutdownDoes, <1>0
  DEF Grows, SamePolicy, SameAdmission, GenMoves, Seals, Shows, Results
<1>24. ASSUME NEW t \in Threads, SinkWrite(t)
      PROVE  Grows
  BY <1>24, SinkWriteDoes, <1>0
  DEF Grows, SamePolicy, SameAdmission, GenMoves, Seals, Shows, Results
<1>25. ASSUME NEW t \in Threads, PublishResult(t)
      PROVE  Grows
  BY <1>25, PublishDoes, <1>0
  DEF Grows, SamePolicy, SameAdmission, GenMoves, Seals, Shows, Results
<1>26. ASSUME NEW t \in Threads, Retire(t)
      PROVE  Grows
  BY <1>26, RetireDoes, <1>0
  DEF Grows, SamePolicy, SameAdmission, GenMoves, Seals, Shows, Results
<1>27. ASSUME NEW g \in Generations, DrainStore(g)
      PROVE  Grows
  BY <1>27, DrainStoreDoes, <1>0
  DEF Grows, SamePolicy, SameAdmission, GenMoves, Seals, Shows, Results
<1>28. ASSUME NEW g \in Generations, SamplerTaskEnds(g)
      PROVE  Grows
  BY <1>28, SamplerTaskDoes, <1>0
  DEF Grows, SamePolicy, SameAdmission, GenMoves, Seals, Shows, Results
<1>29. CASE UNCHANGED vars
  BY <1>29, <1>0
  DEF vars, Grows, SamePolicy, SameAdmission, GenMoves, Seals, Shows, Results
<1> QED
  BY <1>1, <1>2, <1>3, <1>4, <1>5, <1>6, <1>7, <1>8, <1>9, <1>10, <1>11, <1>12, <1>13,
     <1>14, <1>15, <1>16, <1>17, <1>18, <1>19, <1>20, <1>21, <1>22, <1>23, <1>24, <1>25,
     <1>26, <1>27, <1>28, <1>29
  DEF Next, Operation, Continue, Background

\* A thread that does not move stays where its operation may be.
LEMMA WhereKept ==
    ASSUME Shape, Grows, NEW u \in Threads, thread'[u] = thread[u], lifecycle' \in LifecycleType
    PROVE  Where(u)'
<1>1. Where(u) /\ thread[u] \in ThreadType
  BY DEF Shape, TypeInv
<1>2. /\ lifecycle.next \in Int /\ lifecycle'.next \in Int /\ lifecycle.next <= lifecycle'.next
      /\ \A g \in Generations : g \in Int
  BY ControllerAssumption DEF Shape, TypeInv, LifecycleType, Generations, Grows
<1>3. thread[u].pc # "idle" =>
          thread[u].gen \in Generations /\ thread[u].gen < lifecycle.next
  BY <1>1 DEF Where
<1>4. thread[u].pc # "idle" => thread[u].gen < lifecycle'.next
  BY <1>2, <1>3
<1>5. thread[u].pc # "idle" =>
          LET g == thread[u].gen IN
          /\ gen'[g].auto = gen[g].auto
          /\ gen[g].closing = "yes" => gen'[g].closing = "yes"
          /\ gen[g].closing # "no" => gen'[g].closing # "no"
  BY <1>3 DEF Grows, SamePolicy
<1>6. lifecycle.st = "Shutdown" =>
          lifecycle'.st = "Shutdown" /\ lifecycle'.gen = lifecycle.gen
  BY DEF Grows
<1> QED
  BY <1>1, <1>3, <1>4, <1>5, <1>6 DEF Where

\* A thread that moves is where its operation may be.
LEMMA MovedWhere ==
    ASSUME Shape, [Next]_vars
    PROVE  \A u \in Threads : thread'[u] = thread[u] \/ Where(u)'
<1>0. /\ lifecycle.next \in Int /\ \A g \in Generations : g \in Int
      /\ \A t \in Threads : Where(t)
  BY ControllerAssumption DEF Shape, TypeInv, LifecycleType, Generations
<1>1. ASSUME NEW t \in Threads, Enable(t)
      PROVE  \A u \in Threads : thread'[u] = thread[u] \/ Where(u)'
  BY <1>1, EnableDoes, <1>0
  DEF Where, Steps, Ends, Enters, Returns, OthersRun, At, G, Shows, Seals, SamePolicy
<1>2. ASSUME NEW t \in Threads, NEW tpl \in Templates, Reload(t, tpl)
      PROVE  \A u \in Threads : thread'[u] = thread[u] \/ Where(u)'
  BY <1>2, <1>0
  DEF Reload, Where, Steps, Ends, Enters, Returns, OthersRun, At, G, Shows, Seals,
      SamePolicy
<1>3. ASSUME NEW t \in Threads, NEW r \in Requests, BeginRequest(t, r)
      PROVE  \A u \in Threads : thread'[u] = thread[u] \/ Where(u)'
  BY <1>3, BeginRequestDoes, <1>0
  DEF Where, Steps, Ends, Enters, Returns, OthersRun, At, G, Shows, Seals, SamePolicy,
      Shape, Born
<1>4. ASSUME NEW t \in Threads, NEW r \in Requests, FinishRequest(t, r)
      PROVE  \A u \in Threads : thread'[u] = thread[u] \/ Where(u)'
  BY <1>4, FinishRequestDoes, <1>0
  DEF Where, Steps, Ends, Enters, Returns, OthersRun, At, G, Shows, Seals, SamePolicy,
      Shape, Born
<1>5. ASSUME NEW t \in Threads, NEW g \in Generations, Overflow(t, g)
      PROVE  \A u \in Threads : thread'[u] = thread[u] \/ Where(u)'
  BY <1>5, OverflowDoes, <1>0
  DEF Where, Steps, Ends, Enters, Returns, OthersRun, At, G, Shows, Seals, SamePolicy,
      Shape, Born
<1>6. ASSUME NEW t \in Threads, Disable(t)
      PROVE  \A u \in Threads : thread'[u] = thread[u] \/ Where(u)'
  BY <1>6, DisableDoes, <1>0
  DEF Where, Steps, Ends, Enters, Returns, OthersRun, At, G, Shows, Seals, SamePolicy,
      Shape, Born
<1>7. ASSUME NEW t \in Threads, Shutdown(t)
      PROVE  \A u \in Threads : thread'[u] = thread[u] \/ Where(u)'
  BY <1>7, ShutdownDoes, <1>0
  DEF Where, Steps, Ends, Enters, Returns, OthersRun, At, G, Shows, Seals, SamePolicy,
      Shape, Born
<1>8. ASSUME NEW t \in Threads, BeginGate(t)
      PROVE  \A u \in Threads : thread'[u] = thread[u] \/ Where(u)'
  BY <1>8, BeginGateDoes, <1>0
  DEF Where, Steps, Ends, Enters, Returns, OthersRun, At, G, Shows, Seals, SamePolicy
<1>9. ASSUME NEW t \in Threads, Refuse(t)
      PROVE  \A u \in Threads : thread'[u] = thread[u] \/ Where(u)'
  <2>1. G(t) \in Generations
    BY <1>9, RefuseDoes
  <2>2. gen[G(t)].closing \in {"no", "buffered", "yes"}
    BY <2>1 DEF Shape, TypeInv, GenerationType
  <2>3. At(t, "refuse") /\ (gen[G(t)].auto => gen'[G(t)].closing = "yes")
    BY <1>0, <1>9, <2>2, RefuseDoes DEF Where, At, G, Shows
  <2>4. (gen[G(t)].auto /\ Steps(t, "callback")) \/ Ends(t)
    BY <1>9, RefuseDoes DEF Returns
  <2> QED
    BY <1>0, <1>9, <2>3, <2>4, RefuseDoes DEF Where, Steps, Ends, OthersRun, At, G
<1>10. ASSUME NEW t \in Threads, Admit(t)
      PROVE  \A u \in Threads : thread'[u] = thread[u] \/ Where(u)'
  BY <1>10, AdmitDoes, <1>0
  DEF Where, Steps, Ends, Enters, Returns, OthersRun, At, G, Shows, Seals, SamePolicy
<1>11. ASSUME NEW t \in Threads, Commit(t)
      PROVE  \A u \in Threads : thread'[u] = thread[u] \/ Where(u)'
  BY <1>11, CommitDoes, <1>0
  DEF Where, Steps, Ends, Enters, Returns, OthersRun, At, G, Shows, Seals, SamePolicy
<1>12. ASSUME NEW t \in Threads, MarkFinished(t)
      PROVE  \A u \in Threads : thread'[u] = thread[u] \/ Where(u)'
  BY <1>12, MarkFinishedDoes, <1>0
  DEF Where, Steps, Ends, Enters, Returns, OthersRun, At, G, Shows, Seals, SamePolicy
<1>13. ASSUME NEW t \in Threads, LeaveGeneration(t)
      PROVE  \A u \in Threads : thread'[u] = thread[u] \/ Where(u)'
  BY <1>13, LeaveDoes, <1>0
  DEF Where, Steps, Ends, Enters, Returns, OthersRun, At, G, Shows, Seals, SamePolicy
<1>14. ASSUME NEW t \in Threads, CheckClosing(t)
      PROVE  \A u \in Threads : thread'[u] = thread[u] \/ Where(u)'
  BY <1>14, CheckClosingDoes, <1>0
  DEF Where, Steps, Ends, Enters, Returns, OthersRun, At, G, Shows, Seals, SamePolicy
<1>15. ASSUME NEW t \in Threads, OnLimitsHitSignal(t)
      PROVE  \A u \in Threads : thread'[u] = thread[u] \/ Where(u)'
  BY <1>15, SignalDoes, <1>0
  DEF Where, Steps, Ends, Enters, Returns, OthersRun, At, G, Shows, Seals, SamePolicy
<1>16. ASSUME NEW t \in Threads, LoadInflight(t)
      PROVE  \A u \in Threads : thread'[u] = thread[u] \/ Where(u)'
  BY <1>16, LoadInflightDoes, <1>0
  DEF Where, Steps, Ends, Enters, Returns, OthersRun, At, G, Shows, Seals, SamePolicy
<1>17. ASSUME NEW t \in Threads, CloseAdmissions(t)
      PROVE  \A u \in Threads : thread'[u] = thread[u] \/ Where(u)'
  BY <1>17, CloseAdmissionsDoes, <1>0
  DEF Where, Steps, Ends, Enters, Returns, OthersRun, At, G, Shows, Seals, SamePolicy
<1>18. ASSUME NEW t \in Threads, CloseLoad(t)
      PROVE  \A u \in Threads : thread'[u] = thread[u] \/ Where(u)'
  BY <1>18, CloseLoadDoes, <1>0
  DEF Where, Steps, Ends, Enters, Returns, OthersRun, At, G, Shows, Seals, SamePolicy
<1>19. ASSUME NEW t \in Threads, CloseUnlock(t)
      PROVE  \A u \in Threads : thread'[u] = thread[u] \/ Where(u)'
  BY <1>19, CloseUnlockDoes, <1>0
  DEF Where, Steps, Ends, Enters, Returns, OthersRun, At, G, Shows, Seals, SamePolicy
<1>20. ASSUME NEW t \in Threads, FinalizeGate(t)
      PROVE  \A u \in Threads : thread'[u] = thread[u] \/ Where(u)'
  BY <1>20, FinalizeGateDoes, <1>0
  DEF Where, Steps, Ends, Enters, Returns, OthersRun, At, G, Shows, Seals, SamePolicy
<1>21. ASSUME NEW t \in Threads, StopSampler(t)
      PROVE  \A u \in Threads : thread'[u] = thread[u] \/ Where(u)'
  BY <1>21, StopSamplerDoes, <1>0
  DEF Where, Steps, Ends, Enters, Returns, OthersRun, At, G, Shows, Seals, SamePolicy
<1>22. ASSUME NEW t \in Threads, JoinSampler(t)
      PROVE  \A u \in Threads : thread'[u] = thread[u] \/ Where(u)'
  BY <1>22, JoinSamplerDoes, <1>0
  DEF Where, Steps, Ends, Enters, Returns, OthersRun, At, G, Shows, Seals, SamePolicy
<1>23. ASSUME NEW t \in Threads, CoreShutdown(t)
      PROVE  \A u \in Threads : thread'[u] = thread[u] \/ Where(u)'
  BY <1>23, CoreShutdownDoes, <1>0
  DEF Where, Steps, Ends, Enters, Returns, OthersRun, At, G, Shows, Seals, SamePolicy
<1>24. ASSUME NEW t \in Threads, SinkWrite(t)
      PROVE  \A u \in Threads : thread'[u] = thread[u] \/ Where(u)'
  BY <1>24, SinkWriteDoes, <1>0
  DEF Where, Steps, Ends, Enters, Returns, OthersRun, At, G, Shows, Seals, SamePolicy
<1>25. ASSUME NEW t \in Threads, PublishResult(t)
      PROVE  \A u \in Threads : thread'[u] = thread[u] \/ Where(u)'
  BY <1>25, PublishDoes, <1>0
  DEF Where, Steps, Ends, Enters, Returns, OthersRun, At, G, Shows, Seals, SamePolicy
<1>26. ASSUME NEW t \in Threads, Retire(t)
      PROVE  \A u \in Threads : thread'[u] = thread[u] \/ Where(u)'
  BY <1>26, RetireDoes, <1>0
  DEF Where, Steps, Ends, Enters, Returns, OthersRun, At, G, Shows, Seals, SamePolicy
<1>27. ASSUME NEW g \in Generations, DrainStore(g)
      PROVE  \A u \in Threads : thread'[u] = thread[u] \/ Where(u)'
  BY <1>27, DrainStoreDoes, <1>0
  DEF Where, Steps, Ends, Enters, Returns, OthersRun, At, G, Shows, Seals, SamePolicy
<1>28. ASSUME NEW g \in Generations, SamplerTaskEnds(g)
      PROVE  \A u \in Threads : thread'[u] = thread[u] \/ Where(u)'
  BY <1>28, SamplerTaskDoes, <1>0
  DEF Where, Steps, Ends, Enters, Returns, OthersRun, At, G, Shows, Seals, SamePolicy
<1>29. CASE UNCHANGED vars
  BY <1>29, <1>0
  DEF vars, Where, Steps, Ends, Enters, Returns, OthersRun, At, G, Shows, Seals,
      SamePolicy
<1> QED
  BY <1>1, <1>2, <1>3, <1>4, <1>5, <1>6, <1>7, <1>8, <1>9, <1>10, <1>11, <1>12, <1>13,
     <1>14, <1>15, <1>16, <1>17, <1>18, <1>19, <1>20, <1>21, <1>22, <1>23, <1>24, <1>25,
     <1>26, <1>27, <1>28, <1>29
  DEF Next, Operation, Continue, Background

\* Every step leaves each thread where its operation may be.
LEMMA StepWhere ==
    ASSUME Shape, [Next]_vars
    PROVE  \A u \in Threads : Where(u)'
<1>1. lifecycle' \in LifecycleType
  BY StepTypes DEF TypeInv
<1> QED
  BY <1>1, StepGrows, WhereKept, MovedWhere

\* No step touches a generation that was not enabled.
LEMMA UnbornUntouched ==
    ASSUME Shape, [Next]_vars
    PROVE  \A h \in Generations : h >= lifecycle'.next =>
               gen'[h] = gen[h] /\ core'[h] = core[h] /\ told'[h] = told[h]
<1>0. /\ lifecycle.next \in Int /\ \A g \in Generations : g \in Int
      /\ \A t \in Threads : At(t, "idle") \/ (G(t) \in Generations /\ G(t) < lifecycle.next)
      /\ lifecycle'.next \in Int /\ lifecycle.next <= lifecycle'.next
      /\ lifecycle.gen < lifecycle.next /\ \A r \in Requests : token[r].gen < lifecycle.next
      /\ told \in [Generations -> SUBSET {"Ok", "Err"}]
  BY ControllerAssumption, StepTypes, StepGrows
  DEF Shape, TypeInv, LifecycleType, Generations, Grows, Where, Born, At, G
<1>u. \A g \in Generations : g >= lifecycle.next => gen[g].closing = "no" /\ gen[g].sampler = "none"
  BY DEF Shape, Born, Unborn, NewGeneration
<1> DEFINE Goal == \A h \in Generations : h >= lifecycle'.next =>
               gen'[h] = gen[h] /\ core'[h] = core[h] /\ told'[h] = told[h]
<1>1. ASSUME NEW t \in Threads, Enable(t)
      PROVE  Goal
  BY <1>1, EnableDoes, <1>0
  DEF At, GenMoves, CoreMoves, Seals, Shows, Results, Report
<1>2. ASSUME NEW t \in Threads, NEW tpl \in Templates, Reload(t, tpl)
      PROVE  Goal
  BY <1>2, <1>0
  DEF Reload, At, GenMoves, CoreMoves, Seals, Shows, Results, Report
<1>3. ASSUME NEW t \in Threads, NEW r \in Requests, BeginRequest(t, r)
      PROVE  Goal
  BY <1>3, BeginRequestDoes, <1>0
  DEF At, GenMoves, CoreMoves, Seals, Shows, Results, Report
<1>4. ASSUME NEW t \in Threads, NEW r \in Requests, FinishRequest(t, r)
      PROVE  Goal
  BY <1>4, FinishRequestDoes, <1>0
  DEF At, GenMoves, CoreMoves, Seals, Shows, Results, Report
<1>5. ASSUME NEW t \in Threads, NEW g \in Generations, Overflow(t, g)
      PROVE  Goal
  BY <1>5, OverflowDoes, <1>0
  DEF At, GenMoves, CoreMoves, Seals, Shows, Results, Report
<1>6. ASSUME NEW t \in Threads, Disable(t)
      PROVE  Goal
  BY <1>6, DisableDoes, <1>0
  DEF At, GenMoves, CoreMoves, Seals, Shows, Results, Report
<1>7. ASSUME NEW t \in Threads, Shutdown(t)
      PROVE  Goal
  BY <1>7, ShutdownDoes, <1>0
  DEF At, GenMoves, CoreMoves, Seals, Shows, Results, Report
<1>8. ASSUME NEW t \in Threads, BeginGate(t)
      PROVE  Goal
  BY <1>8, BeginGateDoes, <1>0
  DEF At, GenMoves, CoreMoves, Seals, Shows, Results, Report
<1>9. ASSUME NEW t \in Threads, Refuse(t)
      PROVE  Goal
  BY <1>9, RefuseDoes, <1>0
  DEF At, GenMoves, CoreMoves, Seals, Shows, Results, Report
<1>10. ASSUME NEW t \in Threads, Admit(t)
      PROVE  Goal
  BY <1>10, AdmitDoes, <1>0
  DEF At, GenMoves, CoreMoves, Seals, Shows, Results, Report
<1>11. ASSUME NEW t \in Threads, Commit(t)
      PROVE  Goal
  BY <1>11, CommitDoes, <1>0
  DEF At, GenMoves, CoreMoves, Seals, Shows, Results, Report
<1>12. ASSUME NEW t \in Threads, MarkFinished(t)
      PROVE  Goal
  BY <1>12, MarkFinishedDoes, <1>0
  DEF At, GenMoves, CoreMoves, Seals, Shows, Results, Report
<1>13. ASSUME NEW t \in Threads, LeaveGeneration(t)
      PROVE  Goal
  BY <1>13, LeaveDoes, <1>0
  DEF At, GenMoves, CoreMoves, Seals, Shows, Results, Report
<1>14. ASSUME NEW t \in Threads, CheckClosing(t)
      PROVE  Goal
  BY <1>14, CheckClosingDoes, <1>0
  DEF At, GenMoves, CoreMoves, Seals, Shows, Results, Report
<1>15. ASSUME NEW t \in Threads, OnLimitsHitSignal(t)
      PROVE  Goal
  BY <1>15, SignalDoes, <1>0
  DEF At, GenMoves, CoreMoves, Seals, Shows, Results, Report
<1>16. ASSUME NEW t \in Threads, LoadInflight(t)
      PROVE  Goal
  BY <1>16, LoadInflightDoes, <1>0
  DEF At, GenMoves, CoreMoves, Seals, Shows, Results, Report
<1>17. ASSUME NEW t \in Threads, CloseAdmissions(t)
      PROVE  Goal
  BY <1>17, CloseAdmissionsDoes, <1>0
  DEF At, GenMoves, CoreMoves, Seals, Shows, Results, Report
<1>18. ASSUME NEW t \in Threads, CloseLoad(t)
      PROVE  Goal
  BY <1>18, CloseLoadDoes, <1>0
  DEF At, GenMoves, CoreMoves, Seals, Shows, Results, Report
<1>19. ASSUME NEW t \in Threads, CloseUnlock(t)
      PROVE  Goal
  BY <1>19, CloseUnlockDoes, <1>0
  DEF At, GenMoves, CoreMoves, Seals, Shows, Results, Report
<1>20. ASSUME NEW t \in Threads, FinalizeGate(t)
      PROVE  Goal
  BY <1>20, FinalizeGateDoes, <1>0
  DEF At, GenMoves, CoreMoves, Seals, Shows, Results, Report
<1>21. ASSUME NEW t \in Threads, StopSampler(t)
      PROVE  Goal
  BY <1>21, StopSamplerDoes, <1>0
  DEF At, GenMoves, CoreMoves, Seals, Shows, Results, Report
<1>22. ASSUME NEW t \in Threads, JoinSampler(t)
      PROVE  Goal
  BY <1>22, JoinSamplerDoes, <1>0
  DEF At, GenMoves, CoreMoves, Seals, Shows, Results, Report
<1>23. ASSUME NEW t \in Threads, CoreShutdown(t)
      PROVE  Goal
  BY <1>23, CoreShutdownDoes, <1>0
  DEF At, GenMoves, CoreMoves, Seals, Shows, Results, Report
<1>24. ASSUME NEW t \in Threads, SinkWrite(t)
      PROVE  Goal
  BY <1>24, SinkWriteDoes, <1>0
  DEF At, GenMoves, CoreMoves, Seals, Shows, Results, Report
<1>25. ASSUME NEW t \in Threads, PublishResult(t)
      PROVE  Goal
  BY <1>25, PublishDoes, <1>0
  DEF At, GenMoves, CoreMoves, Seals, Shows, Results, Report
<1>26. ASSUME NEW t \in Threads, Retire(t)
      PROVE  Goal
  BY <1>26, RetireDoes, <1>0
  DEF At, GenMoves, CoreMoves, Seals, Shows, Results, Report
<1>27. ASSUME NEW g \in Generations, DrainStore(g)
      PROVE  Goal
  BY <1>27, DrainStoreDoes, <1>0, <1>u
  DEF At, GenMoves, CoreMoves, Seals, Shows, Results, Report
<1>28. ASSUME NEW g \in Generations, SamplerTaskEnds(g)
      PROVE  Goal
  BY <1>28, SamplerTaskDoes, <1>0, <1>u
  DEF At, GenMoves, CoreMoves, Seals, Shows, Results, Report
<1>29. CASE UNCHANGED vars
  BY <1>29, <1>0
  DEF vars, At, GenMoves, CoreMoves, Seals, Shows, Results, Report
<1> QED
  BY <1>1, <1>2, <1>3, <1>4, <1>5, <1>6, <1>7, <1>8, <1>9, <1>10, <1>11, <1>12, <1>13,
     <1>14, <1>15, <1>16, <1>17, <1>18, <1>19, <1>20, <1>21, <1>22, <1>23, <1>24, <1>25,
     <1>26, <1>27, <1>28, <1>29
  DEF Next, Operation, Continue, Background

\* The lifecycle refers to a generation that was enabled.
LEMMA StepLifecycle ==
    ASSUME Shape, [Next]_vars
    PROVE  /\ lifecycle'.gen < lifecycle'.next
           /\ lifecycle'.st = "Disabled" <=> lifecycle'.st # "Shutdown" /\ lifecycle'.gen = NoGen
<1>0. /\ lifecycle.next \in Int /\ lifecycle.next > 0
      /\ lifecycle.gen < lifecycle.next
      /\ lifecycle.st = "Disabled" <=> lifecycle.st # "Shutdown" /\ lifecycle.gen = NoGen
      /\ NoGen \notin Generations /\ NoGen = 0
  BY ControllerAssumption DEF Shape, TypeInv, LifecycleType, Generations, Born, NoGen
<1> DEFINE Goal == /\ lifecycle'.gen < lifecycle'.next
                   /\ lifecycle'.st = "Disabled" <=> lifecycle'.st # "Shutdown" /\ lifecycle'.gen = NoGen
<1>1. ASSUME NEW t \in Threads, Enable(t)
      PROVE  Goal
  BY <1>1, EnableDoes, <1>0
<1>2. ASSUME NEW t \in Threads, NEW tpl \in Templates, Reload(t, tpl)
      PROVE  Goal
  BY <1>2, <1>0
  DEF Reload
<1>3. ASSUME NEW t \in Threads, NEW r \in Requests, BeginRequest(t, r)
      PROVE  Goal
  BY <1>3, BeginRequestDoes, <1>0
<1>4. ASSUME NEW t \in Threads, NEW r \in Requests, FinishRequest(t, r)
      PROVE  Goal
  BY <1>4, FinishRequestDoes, <1>0
<1>5. ASSUME NEW t \in Threads, NEW g \in Generations, Overflow(t, g)
      PROVE  Goal
  BY <1>5, OverflowDoes, <1>0
<1>6. ASSUME NEW t \in Threads, Disable(t)
      PROVE  Goal
  BY <1>6, DisableDoes, <1>0
<1>7. ASSUME NEW t \in Threads, Shutdown(t)
      PROVE  Goal
  BY <1>7, ShutdownDoes, <1>0
<1>8. ASSUME NEW t \in Threads, BeginGate(t)
      PROVE  Goal
  BY <1>8, BeginGateDoes, <1>0
<1>9. ASSUME NEW t \in Threads, Refuse(t)
      PROVE  Goal
  BY <1>9, RefuseDoes, <1>0
<1>10. ASSUME NEW t \in Threads, Admit(t)
      PROVE  Goal
  BY <1>10, AdmitDoes, <1>0
<1>11. ASSUME NEW t \in Threads, Commit(t)
      PROVE  Goal
  BY <1>11, CommitDoes, <1>0
<1>12. ASSUME NEW t \in Threads, MarkFinished(t)
      PROVE  Goal
  BY <1>12, MarkFinishedDoes, <1>0
<1>13. ASSUME NEW t \in Threads, LeaveGeneration(t)
      PROVE  Goal
  BY <1>13, LeaveDoes, <1>0
<1>14. ASSUME NEW t \in Threads, CheckClosing(t)
      PROVE  Goal
  BY <1>14, CheckClosingDoes, <1>0
<1>15. ASSUME NEW t \in Threads, OnLimitsHitSignal(t)
      PROVE  Goal
  BY <1>15, SignalDoes, <1>0
<1>16. ASSUME NEW t \in Threads, LoadInflight(t)
      PROVE  Goal
  BY <1>16, LoadInflightDoes, <1>0
<1>17. ASSUME NEW t \in Threads, CloseAdmissions(t)
      PROVE  Goal
  BY <1>17, CloseAdmissionsDoes, <1>0
<1>18. ASSUME NEW t \in Threads, CloseLoad(t)
      PROVE  Goal
  BY <1>18, CloseLoadDoes, <1>0
<1>19. ASSUME NEW t \in Threads, CloseUnlock(t)
      PROVE  Goal
  BY <1>19, CloseUnlockDoes, <1>0
<1>20. ASSUME NEW t \in Threads, FinalizeGate(t)
      PROVE  Goal
  BY <1>20, FinalizeGateDoes, <1>0
<1>21. ASSUME NEW t \in Threads, StopSampler(t)
      PROVE  Goal
  BY <1>21, StopSamplerDoes, <1>0
<1>22. ASSUME NEW t \in Threads, JoinSampler(t)
      PROVE  Goal
  BY <1>22, JoinSamplerDoes, <1>0
<1>23. ASSUME NEW t \in Threads, CoreShutdown(t)
      PROVE  Goal
  BY <1>23, CoreShutdownDoes, <1>0
<1>24. ASSUME NEW t \in Threads, SinkWrite(t)
      PROVE  Goal
  BY <1>24, SinkWriteDoes, <1>0
<1>25. ASSUME NEW t \in Threads, PublishResult(t)
      PROVE  Goal
  BY <1>25, PublishDoes, <1>0
<1>26. ASSUME NEW t \in Threads, Retire(t)
      PROVE  Goal
  BY <1>26, RetireDoes, <1>0
<1>27. ASSUME NEW g \in Generations, DrainStore(g)
      PROVE  Goal
  BY <1>27, DrainStoreDoes, <1>0
<1>28. ASSUME NEW g \in Generations, SamplerTaskEnds(g)
      PROVE  Goal
  BY <1>28, SamplerTaskDoes, <1>0
<1>29. CASE UNCHANGED vars
  BY <1>29, <1>0
  DEF vars
<1> QED
  BY <1>1, <1>2, <1>3, <1>4, <1>5, <1>6, <1>7, <1>8, <1>9, <1>10, <1>11, <1>12, <1>13,
     <1>14, <1>15, <1>16, <1>17, <1>18, <1>19, <1>20, <1>21, <1>22, <1>23, <1>24, <1>25,
     <1>26, <1>27, <1>28, <1>29
  DEF Next, Operation, Continue, Background

\* Tokens are handed out by generations that were enabled.
LEMMA StepTokens ==
    ASSUME Shape, [Next]_vars
    PROVE  \A r \in Requests :
               token'[r].gen < lifecycle'.next /\ (token'[r].st = "captured" => token'[r].gen # NoGen)
<1>a. /\ lifecycle.next \in Int /\ \A g \in Generations : g \in Int /\ g # NoGen
      /\ lifecycle'.next \in Int /\ lifecycle.next <= lifecycle'.next
  BY ControllerAssumption, StepTypes, StepGrows
  DEF Shape, TypeInv, LifecycleType, Generations, Grows, NoGen
<1>b. \A r \in Requests : token[r].gen \in Int
  BY <1>a DEF Shape, TypeInv, TokenType, NoGen
<1>0. /\ lifecycle.next \in Int /\ \A g \in Generations : g \in Int /\ g # NoGen
      /\ \A t \in Threads : At(t, "idle") \/ (G(t) \in Generations /\ G(t) < lifecycle.next)
      /\ lifecycle'.next \in Int /\ lifecycle.next <= lifecycle'.next
      /\ \A r \in Requests : token[r].gen \in Int
      /\ \A r \in Requests :
             token[r].gen < lifecycle.next /\ (token[r].st = "captured" => token[r].gen # NoGen)
  BY <1>a, <1>b DEF Shape, Where, Born, At, G
<1> DEFINE Goal == \A r \in Requests :
               token'[r].gen < lifecycle'.next /\ (token'[r].st = "captured" => token'[r].gen # NoGen)
<1>1. ASSUME NEW t \in Threads, Enable(t)
      PROVE  Goal
  BY <1>1, EnableDoes, <1>0
  DEF At, TokenTurns, OtherTokens, Returns
<1>2. ASSUME NEW t \in Threads, NEW tpl \in Templates, Reload(t, tpl)
      PROVE  Goal
  BY <1>2, <1>0
  DEF Reload, At, TokenTurns, OtherTokens, Returns
<1>3. ASSUME NEW t \in Threads, NEW r \in Requests, BeginRequest(t, r)
      PROVE  Goal
  BY <1>3, BeginRequestDoes, <1>0
  DEF At, TokenTurns, OtherTokens, Returns
<1>4. ASSUME NEW t \in Threads, NEW r \in Requests, FinishRequest(t, r)
      PROVE  Goal
  BY <1>4, FinishRequestDoes, <1>0
  DEF At, TokenTurns, OtherTokens, Returns
<1>5. ASSUME NEW t \in Threads, NEW g \in Generations, Overflow(t, g)
      PROVE  Goal
  BY <1>5, OverflowDoes, <1>0
  DEF At, TokenTurns, OtherTokens, Returns
<1>6. ASSUME NEW t \in Threads, Disable(t)
      PROVE  Goal
  BY <1>6, DisableDoes, <1>0
  DEF At, TokenTurns, OtherTokens, Returns
<1>7. ASSUME NEW t \in Threads, Shutdown(t)
      PROVE  Goal
  BY <1>7, ShutdownDoes, <1>0
  DEF At, TokenTurns, OtherTokens, Returns
<1>8. ASSUME NEW t \in Threads, BeginGate(t)
      PROVE  Goal
  BY <1>8, BeginGateDoes, <1>0
  DEF At, TokenTurns, OtherTokens, Returns
<1>9. ASSUME NEW t \in Threads, Refuse(t)
      PROVE  Goal
  BY <1>9, RefuseDoes, <1>0
  DEF At, TokenTurns, OtherTokens, Returns
<1>10. ASSUME NEW t \in Threads, Admit(t)
      PROVE  Goal
  BY <1>10, AdmitDoes, <1>0
  DEF At, TokenTurns, OtherTokens, Returns
<1>11. ASSUME NEW t \in Threads, Commit(t)
      PROVE  Goal
  BY <1>11, CommitDoes, <1>0
  DEF At, TokenTurns, OtherTokens, Returns
<1>12. ASSUME NEW t \in Threads, MarkFinished(t)
      PROVE  Goal
  BY <1>12, MarkFinishedDoes, <1>0
  DEF At, TokenTurns, OtherTokens, Returns
<1>13. ASSUME NEW t \in Threads, LeaveGeneration(t)
      PROVE  Goal
  BY <1>13, LeaveDoes, <1>0
  DEF At, TokenTurns, OtherTokens, Returns
<1>14. ASSUME NEW t \in Threads, CheckClosing(t)
      PROVE  Goal
  BY <1>14, CheckClosingDoes, <1>0
  DEF At, TokenTurns, OtherTokens, Returns
<1>15. ASSUME NEW t \in Threads, OnLimitsHitSignal(t)
      PROVE  Goal
  BY <1>15, SignalDoes, <1>0
  DEF At, TokenTurns, OtherTokens, Returns
<1>16. ASSUME NEW t \in Threads, LoadInflight(t)
      PROVE  Goal
  BY <1>16, LoadInflightDoes, <1>0
  DEF At, TokenTurns, OtherTokens, Returns
<1>17. ASSUME NEW t \in Threads, CloseAdmissions(t)
      PROVE  Goal
  BY <1>17, CloseAdmissionsDoes, <1>0
  DEF At, TokenTurns, OtherTokens, Returns
<1>18. ASSUME NEW t \in Threads, CloseLoad(t)
      PROVE  Goal
  BY <1>18, CloseLoadDoes, <1>0
  DEF At, TokenTurns, OtherTokens, Returns
<1>19. ASSUME NEW t \in Threads, CloseUnlock(t)
      PROVE  Goal
  BY <1>19, CloseUnlockDoes, <1>0
  DEF At, TokenTurns, OtherTokens, Returns
<1>20. ASSUME NEW t \in Threads, FinalizeGate(t)
      PROVE  Goal
  BY <1>20, FinalizeGateDoes, <1>0
  DEF At, TokenTurns, OtherTokens, Returns
<1>21. ASSUME NEW t \in Threads, StopSampler(t)
      PROVE  Goal
  BY <1>21, StopSamplerDoes, <1>0
  DEF At, TokenTurns, OtherTokens, Returns
<1>22. ASSUME NEW t \in Threads, JoinSampler(t)
      PROVE  Goal
  BY <1>22, JoinSamplerDoes, <1>0
  DEF At, TokenTurns, OtherTokens, Returns
<1>23. ASSUME NEW t \in Threads, CoreShutdown(t)
      PROVE  Goal
  BY <1>23, CoreShutdownDoes, <1>0
  DEF At, TokenTurns, OtherTokens, Returns
<1>24. ASSUME NEW t \in Threads, SinkWrite(t)
      PROVE  Goal
  BY <1>24, SinkWriteDoes, <1>0
  DEF At, TokenTurns, OtherTokens, Returns
<1>25. ASSUME NEW t \in Threads, PublishResult(t)
      PROVE  Goal
  BY <1>25, PublishDoes, <1>0
  DEF At, TokenTurns, OtherTokens, Returns
<1>26. ASSUME NEW t \in Threads, Retire(t)
      PROVE  Goal
  BY <1>26, RetireDoes, <1>0
  DEF At, TokenTurns, OtherTokens, Returns
<1>27. ASSUME NEW g \in Generations, DrainStore(g)
      PROVE  Goal
  BY <1>27, DrainStoreDoes, <1>0
  DEF At, TokenTurns, OtherTokens, Returns
<1>28. ASSUME NEW g \in Generations, SamplerTaskEnds(g)
      PROVE  Goal
  BY <1>28, SamplerTaskDoes, <1>0
  DEF At, TokenTurns, OtherTokens, Returns
<1>29. CASE UNCHANGED vars
  BY <1>29, <1>0
  DEF vars, At, TokenTurns, OtherTokens, Returns
<1> QED
  BY <1>1, <1>2, <1>3, <1>4, <1>5, <1>6, <1>7, <1>8, <1>9, <1>10, <1>11, <1>12, <1>13,
     <1>14, <1>15, <1>16, <1>17, <1>18, <1>19, <1>20, <1>21, <1>22, <1>23, <1>24, <1>25,
     <1>26, <1>27, <1>28, <1>29
  DEF Next, Operation, Continue, Background

\* A generation whose number was not handed out yet is untouched.
LEMMA StepBorn ==
    ASSUME Shape, [Next]_vars
    PROVE  Born'
<1>1. /\ lifecycle.next \in Int /\ lifecycle'.next \in Int /\ lifecycle.next <= lifecycle'.next
      /\ \A g \in Generations : g \in Int
  BY ControllerAssumption, StepTypes, StepGrows
  DEF Shape, TypeInv, LifecycleType, Generations, Grows
<1>2. \A g \in Generations : g >= lifecycle'.next =>
          gen[g] = Unborn /\ core[g] = NewRun /\ told[g] = {}
  BY <1>1 DEF Shape, Born
<1>3. \A g \in Generations : g >= lifecycle'.next =>
          gen'[g] = Unborn /\ core'[g] = NewRun /\ told'[g] = {}
  BY <1>2, UnbornUntouched
<1> QED
  BY <1>3, StepLifecycle, StepTokens DEF Born, Unborn, NewRun, NewGeneration, NoGen

\* The first layer holds at every step.
LEMMA InitShape == Init => Shape
<1> SUFFICES ASSUME Init PROVE Shape
  OBVIOUS
<1>1. Unborn \in GenerationType
  <2>1. Unborn = [auto |-> FALSE, strict |-> FALSE, accepting |-> FALSE, closing |-> "no",
                  slots |-> 0, inflight |-> 0, result |-> "Pending", finalize_started |-> FALSE,
                  last_error |-> FALSE, sampler |-> "none"]
    <3> DEFINE f == NewGeneration([auto |-> FALSE, strict |-> FALSE, sampler |-> FALSE])
    <3>1. f = [auto |-> FALSE, strict |-> FALSE, accepting |-> TRUE, closing |-> "no",
               slots |-> 0, inflight |-> 0, result |-> "Pending", finalize_started |-> FALSE,
               last_error |-> FALSE, sampler |-> "none"]
      BY DEF NewGeneration
    <3>2. Unborn = [f EXCEPT !.accepting = FALSE]
      BY DEF Unborn
    <3> HIDE DEF f
    <3> QED
      BY <3>1, <3>2
  <2> QED
    BY <2>1 DEF GenerationType
<1>2. NewRun \in CoreType
  BY DEF NewRun, CoreType
<1>3. lifecycle \in LifecycleType
  BY ControllerAssumption DEF Init, LifecycleType, NoGen
<1>4. Idle \in ThreadType
  BY DEF Idle, ThreadType, Pcs, Ops
<1>5. \A r \in Requests : token[r] \in TokenType
  BY DEF Init, TokenType
<1>6. TypeInv
  BY <1>1, <1>2, <1>3, <1>4, <1>5 DEF Init, TypeInv
<1>7. Born
  BY ControllerAssumption DEF Init, Born, NoGen, Generations
<1>8. \A t \in Threads : Where(t)
  BY DEF Init, Where, Idle
<1> QED
  BY <1>6, <1>7, <1>8 DEF Shape

\* Layer 1 is inductive: types, births and program counters fit together.
LEMMA StepShape ==
    ASSUME Shape, [Next]_vars
    PROVE  Shape'
BY StepTypes, StepWhere, StepBorn DEF Shape

----------------------------------------------------------------------------
(* Layer 2 is inductive.                                                   *)

\* Each gate is held by the one thread that is inside its critical section.
LEMMA StepGates ==
    ASSUME Shape, GatesOwned, [Next]_vars
    PROVE  GatesOwned'
<1>0. /\ agate \in GatesType /\ fgate \in GatesType /\ Nobody \notin Threads
      /\ \A t \in Threads : Where(t)
  BY ControllerAssumption DEF Shape, TypeInv, GatesType
<1>1. ASSUME NEW t \in Threads, Enable(t)
      PROVE  GatesOwned'
  BY <1>1, EnableDoes, <1>0
  DEF GatesOwned, GatesType, HoldsGate, Finalizing, Where, Steps, Ends, Enters, Returns,
      OthersRun, At, G
<1>2. ASSUME NEW t \in Threads, NEW tpl \in Templates, Reload(t, tpl)
      PROVE  GatesOwned'
  BY <1>2, <1>0
  DEF Reload, GatesOwned, GatesType, HoldsGate, Finalizing, Where, Steps, Ends, Enters,
      Returns, OthersRun, At, G
<1>3. ASSUME NEW t \in Threads, NEW r \in Requests, BeginRequest(t, r)
      PROVE  GatesOwned'
  BY <1>3, BeginRequestDoes, <1>0
  DEF GatesOwned, GatesType, HoldsGate, Finalizing, Where, Steps, Ends, Enters, Returns,
      OthersRun, At, G
<1>4. ASSUME NEW t \in Threads, NEW r \in Requests, FinishRequest(t, r)
      PROVE  GatesOwned'
  BY <1>4, FinishRequestDoes, <1>0
  DEF GatesOwned, GatesType, HoldsGate, Finalizing, Where, Steps, Ends, Enters, Returns,
      OthersRun, At, G
<1>5. ASSUME NEW t \in Threads, NEW g \in Generations, Overflow(t, g)
      PROVE  GatesOwned'
  BY <1>5, OverflowDoes, <1>0
  DEF GatesOwned, GatesType, HoldsGate, Finalizing, Where, Steps, Ends, Enters, Returns,
      OthersRun, At, G
<1>6. ASSUME NEW t \in Threads, Disable(t)
      PROVE  GatesOwned'
  BY <1>6, DisableDoes, <1>0
  DEF GatesOwned, GatesType, HoldsGate, Finalizing, Where, Steps, Ends, Enters, Returns,
      OthersRun, At, G
<1>7. ASSUME NEW t \in Threads, Shutdown(t)
      PROVE  GatesOwned'
  BY <1>7, ShutdownDoes, <1>0
  DEF GatesOwned, GatesType, HoldsGate, Finalizing, Where, Steps, Ends, Enters, Returns,
      OthersRun, At, G
<1>8. ASSUME NEW t \in Threads, BeginGate(t)
      PROVE  GatesOwned'
  BY <1>8, BeginGateDoes, <1>0
  DEF GatesOwned, GatesType, HoldsGate, Finalizing, Where, Steps, Ends, Enters, Returns,
      OthersRun, At, G
<1>9. ASSUME NEW t \in Threads, Refuse(t)
      PROVE  GatesOwned'
  BY <1>9, RefuseDoes, <1>0
  DEF GatesOwned, GatesType, HoldsGate, Finalizing, Where, Steps, Ends, Enters, Returns,
      OthersRun, At, G
<1>10. ASSUME NEW t \in Threads, Admit(t)
      PROVE  GatesOwned'
  BY <1>10, AdmitDoes, <1>0
  DEF GatesOwned, GatesType, HoldsGate, Finalizing, Where, Steps, Ends, Enters, Returns,
      OthersRun, At, G
<1>11. ASSUME NEW t \in Threads, Commit(t)
      PROVE  GatesOwned'
  BY <1>11, CommitDoes, <1>0
  DEF GatesOwned, GatesType, HoldsGate, Finalizing, Where, Steps, Ends, Enters, Returns,
      OthersRun, At, G
<1>12. ASSUME NEW t \in Threads, MarkFinished(t)
      PROVE  GatesOwned'
  BY <1>12, MarkFinishedDoes, <1>0
  DEF GatesOwned, GatesType, HoldsGate, Finalizing, Where, Steps, Ends, Enters, Returns,
      OthersRun, At, G
<1>13. ASSUME NEW t \in Threads, LeaveGeneration(t)
      PROVE  GatesOwned'
  BY <1>13, LeaveDoes, <1>0
  DEF GatesOwned, GatesType, HoldsGate, Finalizing, Where, Steps, Ends, Enters, Returns,
      OthersRun, At, G
<1>14. ASSUME NEW t \in Threads, CheckClosing(t)
      PROVE  GatesOwned'
  BY <1>14, CheckClosingDoes, <1>0
  DEF GatesOwned, GatesType, HoldsGate, Finalizing, Where, Steps, Ends, Enters, Returns,
      OthersRun, At, G
<1>15. ASSUME NEW t \in Threads, OnLimitsHitSignal(t)
      PROVE  GatesOwned'
  BY <1>15, SignalDoes, <1>0
  DEF GatesOwned, GatesType, HoldsGate, Finalizing, Where, Steps, Ends, Enters, Returns,
      OthersRun, At, G, Alive, HoldsArc
<1>16. ASSUME NEW t \in Threads, LoadInflight(t)
      PROVE  GatesOwned'
  BY <1>16, LoadInflightDoes, <1>0
  DEF GatesOwned, GatesType, HoldsGate, Finalizing, Where, Steps, Ends, Enters, Returns,
      OthersRun, At, G
<1>17. ASSUME NEW t \in Threads, CloseAdmissions(t)
      PROVE  GatesOwned'
  BY <1>17, CloseAdmissionsDoes, <1>0
  DEF GatesOwned, GatesType, HoldsGate, Finalizing, Where, Steps, Ends, Enters, Returns,
      OthersRun, At, G
<1>18. ASSUME NEW t \in Threads, CloseLoad(t)
      PROVE  GatesOwned'
  BY <1>18, CloseLoadDoes, <1>0
  DEF GatesOwned, GatesType, HoldsGate, Finalizing, Where, Steps, Ends, Enters, Returns,
      OthersRun, At, G
<1>19. ASSUME NEW t \in Threads, CloseUnlock(t)
      PROVE  GatesOwned'
  BY <1>19, CloseUnlockDoes, <1>0
  DEF GatesOwned, GatesType, HoldsGate, Finalizing, Where, Steps, Ends, Enters, Returns,
      OthersRun, At, G
<1>20. ASSUME NEW t \in Threads, FinalizeGate(t)
      PROVE  GatesOwned'
  BY <1>20, FinalizeGateDoes, <1>0
  DEF GatesOwned, GatesType, HoldsGate, Finalizing, Where, Steps, Ends, Enters, Returns,
      OthersRun, At, G
<1>21. ASSUME NEW t \in Threads, StopSampler(t)
      PROVE  GatesOwned'
  BY <1>21, StopSamplerDoes, <1>0
  DEF GatesOwned, GatesType, HoldsGate, Finalizing, Where, Steps, Ends, Enters, Returns,
      OthersRun, At, G
<1>22. ASSUME NEW t \in Threads, JoinSampler(t)
      PROVE  GatesOwned'
  BY <1>22, JoinSamplerDoes, <1>0
  DEF GatesOwned, GatesType, HoldsGate, Finalizing, Where, Steps, Ends, Enters, Returns,
      OthersRun, At, G
<1>23. ASSUME NEW t \in Threads, CoreShutdown(t)
      PROVE  GatesOwned'
  BY <1>23, CoreShutdownDoes, <1>0
  DEF GatesOwned, GatesType, HoldsGate, Finalizing, Where, Steps, Ends, Enters, Returns,
      OthersRun, At, G
<1>24. ASSUME NEW t \in Threads, SinkWrite(t)
      PROVE  GatesOwned'
  BY <1>24, SinkWriteDoes, <1>0
  DEF GatesOwned, GatesType, HoldsGate, Finalizing, Where, Steps, Ends, Enters, Returns,
      OthersRun, At, G
<1>25. ASSUME NEW t \in Threads, PublishResult(t)
      PROVE  GatesOwned'
  BY <1>25, PublishDoes, <1>0
  DEF GatesOwned, GatesType, HoldsGate, Finalizing, Where, Steps, Ends, Enters, Returns,
      OthersRun, At, G
<1>26. ASSUME NEW t \in Threads, Retire(t)
      PROVE  GatesOwned'
  BY <1>26, RetireDoes, <1>0
  DEF GatesOwned, GatesType, HoldsGate, Finalizing, Where, Steps, Ends, Enters, Returns,
      OthersRun, At, G
<1>27. ASSUME NEW g \in Generations, DrainStore(g)
      PROVE  GatesOwned'
  BY <1>27, DrainStoreDoes, <1>0
  DEF GatesOwned, GatesType, HoldsGate, Finalizing, Where, Steps, Ends, Enters, Returns,
      OthersRun, At, G
<1>28. ASSUME NEW g \in Generations, SamplerTaskEnds(g)
      PROVE  GatesOwned'
  BY <1>28, SamplerTaskDoes, <1>0
  DEF GatesOwned, GatesType, HoldsGate, Finalizing, Where, Steps, Ends, Enters, Returns,
      OthersRun, At, G
<1>29. CASE UNCHANGED vars
  BY <1>29, <1>0
  DEF vars, GatesOwned, GatesType, HoldsGate, Finalizing, Where, Steps, Ends, Enters,
      Returns, OthersRun, At, G
<1> QED
  BY <1>1, <1>2, <1>3, <1>4, <1>5, <1>6, <1>7, <1>8, <1>9, <1>10, <1>11, <1>12, <1>13,
     <1>14, <1>15, <1>16, <1>17, <1>18, <1>19, <1>20, <1>21, <1>22, <1>23, <1>24, <1>25,
     <1>26, <1>27, <1>28, <1>29
  DEF Next, Operation, Continue, Background

\* Each token is handled by one thread, and its state says how far that is.
LEMMA StepOwners ==
    ASSUME Shape, TokensOwned, [Next]_vars
    PROVE  TokensOwned'
<1>0. /\ NoGen \notin Generations
      /\ \A t \in Threads : Where(t)
  BY ControllerAssumption DEF Shape, Generations, NoGen
<1>1. ASSUME NEW t \in Threads, Enable(t)
      PROVE  TokensOwned'
  BY <1>1, EnableDoes, <1>0
  DEF TokensOwned, Holder, BeforeLeave, Where, Steps, Ends, Enters, Returns, OthersRun,
      TokenTurns, OtherTokens, At, G
<1>2. ASSUME NEW t \in Threads, NEW tpl \in Templates, Reload(t, tpl)
      PROVE  TokensOwned'
  BY <1>2, <1>0
  DEF Reload, TokensOwned, Holder, BeforeLeave, Where, Steps, Ends, Enters, Returns,
      OthersRun, TokenTurns, OtherTokens, At, G
<1>3. ASSUME NEW t \in Threads, NEW r \in Requests, BeginRequest(t, r)
      PROVE  TokensOwned'
  BY <1>3, BeginRequestDoes, <1>0
  DEF TokensOwned, Holder, BeforeLeave, Where, Steps, Ends, Enters, Returns, OthersRun,
      TokenTurns, OtherTokens, At, G
<1>4. ASSUME NEW t \in Threads, NEW r \in Requests, FinishRequest(t, r)
      PROVE  TokensOwned'
  BY <1>4, FinishRequestDoes, <1>0
  DEF TokensOwned, Holder, BeforeLeave, Where, Steps, Ends, Enters, Returns, OthersRun,
      TokenTurns, OtherTokens, At, G
<1>5. ASSUME NEW t \in Threads, NEW g \in Generations, Overflow(t, g)
      PROVE  TokensOwned'
  BY <1>5, OverflowDoes, <1>0
  DEF TokensOwned, Holder, BeforeLeave, Where, Steps, Ends, Enters, Returns, OthersRun,
      TokenTurns, OtherTokens, At, G
<1>6. ASSUME NEW t \in Threads, Disable(t)
      PROVE  TokensOwned'
  BY <1>6, DisableDoes, <1>0
  DEF TokensOwned, Holder, BeforeLeave, Where, Steps, Ends, Enters, Returns, OthersRun,
      TokenTurns, OtherTokens, At, G
<1>7. ASSUME NEW t \in Threads, Shutdown(t)
      PROVE  TokensOwned'
  BY <1>7, ShutdownDoes, <1>0
  DEF TokensOwned, Holder, BeforeLeave, Where, Steps, Ends, Enters, Returns, OthersRun,
      TokenTurns, OtherTokens, At, G
<1>8. ASSUME NEW t \in Threads, BeginGate(t)
      PROVE  TokensOwned'
  BY <1>8, BeginGateDoes, <1>0
  DEF TokensOwned, Holder, BeforeLeave, Where, Steps, Ends, Enters, Returns, OthersRun,
      TokenTurns, OtherTokens, At, G
<1>9. ASSUME NEW t \in Threads, Refuse(t)
      PROVE  TokensOwned'
  BY <1>9, RefuseDoes, <1>0
  DEF TokensOwned, Holder, BeforeLeave, Where, Steps, Ends, Enters, Returns, OthersRun,
      TokenTurns, OtherTokens, At, G
<1>10. ASSUME NEW t \in Threads, Admit(t)
      PROVE  TokensOwned'
  BY <1>10, AdmitDoes, <1>0
  DEF TokensOwned, Holder, BeforeLeave, Where, Steps, Ends, Enters, Returns, OthersRun,
      TokenTurns, OtherTokens, At, G
<1>11. ASSUME NEW t \in Threads, Commit(t)
      PROVE  TokensOwned'
  BY <1>11, CommitDoes, <1>0
  DEF TokensOwned, Holder, BeforeLeave, Where, Steps, Ends, Enters, Returns, OthersRun,
      TokenTurns, OtherTokens, At, G
<1>12. ASSUME NEW t \in Threads, MarkFinished(t)
      PROVE  TokensOwned'
  BY <1>12, MarkFinishedDoes, <1>0
  DEF TokensOwned, Holder, BeforeLeave, Where, Steps, Ends, Enters, Returns, OthersRun,
      TokenTurns, OtherTokens, At, G
<1>13. ASSUME NEW t \in Threads, LeaveGeneration(t)
      PROVE  TokensOwned'
  BY <1>13, LeaveDoes, <1>0
  DEF TokensOwned, Holder, BeforeLeave, Where, Steps, Ends, Enters, Returns, OthersRun,
      TokenTurns, OtherTokens, At, G
<1>14. ASSUME NEW t \in Threads, CheckClosing(t)
      PROVE  TokensOwned'
  BY <1>14, CheckClosingDoes, <1>0
  DEF TokensOwned, Holder, BeforeLeave, Where, Steps, Ends, Enters, Returns, OthersRun,
      TokenTurns, OtherTokens, At, G
<1>15. ASSUME NEW t \in Threads, OnLimitsHitSignal(t)
      PROVE  TokensOwned'
  BY <1>15, SignalDoes, <1>0
  DEF TokensOwned, Holder, BeforeLeave, Where, Steps, Ends, Enters, Returns, OthersRun,
      TokenTurns, OtherTokens, At, G
<1>16. ASSUME NEW t \in Threads, LoadInflight(t)
      PROVE  TokensOwned'
  BY <1>16, LoadInflightDoes, <1>0
  DEF TokensOwned, Holder, BeforeLeave, Where, Steps, Ends, Enters, Returns, OthersRun,
      TokenTurns, OtherTokens, At, G
<1>17. ASSUME NEW t \in Threads, CloseAdmissions(t)
      PROVE  TokensOwned'
  BY <1>17, CloseAdmissionsDoes, <1>0
  DEF TokensOwned, Holder, BeforeLeave, Where, Steps, Ends, Enters, Returns, OthersRun,
      TokenTurns, OtherTokens, At, G
<1>18. ASSUME NEW t \in Threads, CloseLoad(t)
      PROVE  TokensOwned'
  BY <1>18, CloseLoadDoes, <1>0
  DEF TokensOwned, Holder, BeforeLeave, Where, Steps, Ends, Enters, Returns, OthersRun,
      TokenTurns, OtherTokens, At, G
<1>19. ASSUME NEW t \in Threads, CloseUnlock(t)
      PROVE  TokensOwned'
  BY <1>19, CloseUnlockDoes, <1>0
  DEF TokensOwned, Holder, BeforeLeave, Where, Steps, Ends, Enters, Returns, OthersRun,
      TokenTurns, OtherTokens, At, G
<1>20. ASSUME NEW t \in Threads, FinalizeGate(t)
      PROVE  TokensOwned'
  BY <1>20, FinalizeGateDoes, <1>0
  DEF TokensOwned, Holder, BeforeLeave, Where, Steps, Ends, Enters, Returns, OthersRun,
      TokenTurns, OtherTokens, At, G
<1>21. ASSUME NEW t \in Threads, StopSampler(t)
      PROVE  TokensOwned'
  BY <1>21, StopSamplerDoes, <1>0
  DEF TokensOwned, Holder, BeforeLeave, Where, Steps, Ends, Enters, Returns, OthersRun,
      TokenTurns, OtherTokens, At, G
<1>22. ASSUME NEW t \in Threads, JoinSampler(t)
      PROVE  TokensOwned'
  BY <1>22, JoinSamplerDoes, <1>0
  DEF TokensOwned, Holder, BeforeLeave, Where, Steps, Ends, Enters, Returns, OthersRun,
      TokenTurns, OtherTokens, At, G
<1>23. ASSUME NEW t \in Threads, CoreShutdown(t)
      PROVE  TokensOwned'
  BY <1>23, CoreShutdownDoes, <1>0
  DEF TokensOwned, Holder, BeforeLeave, Where, Steps, Ends, Enters, Returns, OthersRun,
      TokenTurns, OtherTokens, At, G
<1>24. ASSUME NEW t \in Threads, SinkWrite(t)
      PROVE  TokensOwned'
  BY <1>24, SinkWriteDoes, <1>0
  DEF TokensOwned, Holder, BeforeLeave, Where, Steps, Ends, Enters, Returns, OthersRun,
      TokenTurns, OtherTokens, At, G
<1>25. ASSUME NEW t \in Threads, PublishResult(t)
      PROVE  TokensOwned'
  BY <1>25, PublishDoes, <1>0
  DEF TokensOwned, Holder, BeforeLeave, Where, Steps, Ends, Enters, Returns, OthersRun,
      TokenTurns, OtherTokens, At, G
<1>26. ASSUME NEW t \in Threads, Retire(t)
      PROVE  TokensOwned'
  BY <1>26, RetireDoes, <1>0
  DEF TokensOwned, Holder, BeforeLeave, Where, Steps, Ends, Enters, Returns, OthersRun,
      TokenTurns, OtherTokens, At, G
<1>27. ASSUME NEW g \in Generations, DrainStore(g)
      PROVE  TokensOwned'
  BY <1>27, DrainStoreDoes, <1>0
  DEF TokensOwned, Holder, BeforeLeave, Where, Steps, Ends, Enters, Returns, OthersRun,
      TokenTurns, OtherTokens, At, G
<1>28. ASSUME NEW g \in Generations, SamplerTaskEnds(g)
      PROVE  TokensOwned'
  BY <1>28, SamplerTaskDoes, <1>0
  DEF TokensOwned, Holder, BeforeLeave, Where, Steps, Ends, Enters, Returns, OthersRun,
      TokenTurns, OtherTokens, At, G
<1>29. CASE UNCHANGED vars
  BY <1>29, <1>0
  DEF vars, TokensOwned, Holder, BeforeLeave, Where, Steps, Ends, Enters, Returns,
      OthersRun, TokenTurns, OtherTokens, At, G
<1> QED
  BY <1>1, <1>2, <1>3, <1>4, <1>5, <1>6, <1>7, <1>8, <1>9, <1>10, <1>11, <1>12, <1>13,
     <1>14, <1>15, <1>16, <1>17, <1>18, <1>19, <1>20, <1>21, <1>22, <1>23, <1>24, <1>25,
     <1>26, <1>27, <1>28, <1>29
  DEF Next, Operation, Continue, Background

----------------------------------------------------------------------------
(* Layer 3 is inductive.                                                   *)

\* What every proof of this layer knows of generations and threads.
LEMMA Numbers ==
    ASSUME Shape
    PROVE  /\ lifecycle.next \in Int /\ \A g \in Generations : g \in Int
           /\ \A t \in Threads : At(t, "idle") \/ (G(t) \in Generations /\ G(t) < lifecycle.next)
           /\ agate \in GatesType /\ fgate \in GatesType /\ Nobody \notin Threads
           /\ MaxRequests \in Nat /\ \A g \in Generations : gen[g].slots \in Nat
<1>1. lifecycle.next \in Int /\ (\A g \in Generations : g \in Int) /\ MaxRequests \in Nat
  BY ControllerAssumption DEF Shape, TypeInv, LifecycleType, Generations
<1>2. \A t \in Threads : At(t, "idle") \/ (G(t) \in Generations /\ G(t) < lifecycle.next)
  BY DEF Shape, Where, At, G
<1>3. agate \in GatesType /\ fgate \in GatesType /\ Nobody \notin Threads
  BY ControllerAssumption DEF Shape, TypeInv, GatesType
<1>4. \A g \in Generations : gen[g].slots \in Nat
  BY DEF Shape, TypeInv, GenerationType
<1> QED
  BY <1>1, <1>2, <1>3, <1>4

\* Admission stops where a generation closes.
LEMMA StepAdmission ==
    ASSUME Shape, GatesOwned, AdmissionInv, [Next]_vars
    PROVE  AdmissionInv'
<1>0. /\ lifecycle.next \in Int /\ \A g \in Generations : g \in Int
      /\ \A t \in Threads : At(t, "idle") \/ (G(t) \in Generations /\ G(t) < lifecycle.next)
      /\ agate \in GatesType /\ Nobody \notin Threads
      /\ MaxRequests \in Nat /\ \A g \in Generations : gen[g].slots \in Nat
      /\ \A t \in Threads : Where(t)
  BY Numbers DEF Shape
<1>1. ASSUME NEW t \in Threads, Enable(t)
      PROVE  AdmissionInv'
  <2> DEFINE n == lifecycle.next
  <2>1. /\ n \in Generations /\ lifecycle'.next = n + 1 /\ thread' = thread
        /\ gen'[n].accepting /\ gen'[n].closing = "no" /\ core'[n].phase = "Open"
        /\ \A h \in Generations \ {n} : gen'[h] = gen[h] /\ core'[h] = core[h]
    BY <1>1, EnableDoes DEF GenMoves, CoreMoves, NewRun
  <2>2. \A h \in Generations : h < n => gen'[h] = gen[h] /\ core'[h] = core[h]
    BY <1>0, <2>1
  <2>3. \A h \in Generations : h < n + 1 => h < n \/ h = n
    BY <1>0
  <2>4. \A g \in Generations : g < lifecycle'.next =>
            /\ gen'[g].accepting <=> gen'[g].closing = "no"
            /\ core'[g].phase # "Open" => ~gen'[g].accepting
    BY <2>1, <2>2, <2>3 DEF AdmissionInv, Closed
  <2>5. \A u \in Threads : At(u, "idle") \/ gen'[G(u)] = gen[G(u)]
    BY <1>0, <2>2
  <2> QED
    BY <2>1, <2>4, <2>5 DEF AdmissionInv, Closed, At, G, Finalizing
<1>2. ASSUME NEW t \in Threads, NEW tpl \in Templates, Reload(t, tpl)
      PROVE  AdmissionInv'
  BY <1>2, <1>0
  DEF Reload, AdmissionInv, Closed, GatesOwned, GatesType, HoldsGate, Finalizing, Where,
      Steps, Ends, Enters, Returns, OthersRun, At, G, GenMoves, CoreMoves,
      SameAdmission, SameCounts, SamePhase, Seals, Shows, Results, Saturated
<1>3. ASSUME NEW t \in Threads, NEW r \in Requests, BeginRequest(t, r)
      PROVE  AdmissionInv'
  BY <1>3, BeginRequestDoes, <1>0
  DEF AdmissionInv, Closed, GatesOwned, GatesType, HoldsGate, Finalizing, Where, Steps,
      Ends, Enters, Returns, OthersRun, At, G, GenMoves, CoreMoves, SameAdmission,
      SameCounts, SamePhase, Seals, Shows, Results, Saturated
<1>4. ASSUME NEW t \in Threads, NEW r \in Requests, FinishRequest(t, r)
      PROVE  AdmissionInv'
  BY <1>4, FinishRequestDoes, <1>0
  DEF AdmissionInv, Closed, GatesOwned, GatesType, HoldsGate, Finalizing, Where, Steps,
      Ends, Enters, Returns, OthersRun, At, G, GenMoves, CoreMoves, SameAdmission,
      SameCounts, SamePhase, Seals, Shows, Results, Saturated
<1>5. ASSUME NEW t \in Threads, NEW g \in Generations, Overflow(t, g)
      PROVE  AdmissionInv'
  BY <1>5, OverflowDoes, <1>0
  DEF AdmissionInv, Closed, GatesOwned, GatesType, HoldsGate, Finalizing, Where, Steps,
      Ends, Enters, Returns, OthersRun, At, G, GenMoves, CoreMoves, SameAdmission,
      SameCounts, SamePhase, Seals, Shows, Results, Saturated
<1>6. ASSUME NEW t \in Threads, Disable(t)
      PROVE  AdmissionInv'
  BY <1>6, DisableDoes, <1>0
  DEF AdmissionInv, Closed, GatesOwned, GatesType, HoldsGate, Finalizing, Where, Steps,
      Ends, Enters, Returns, OthersRun, At, G, GenMoves, CoreMoves, SameAdmission,
      SameCounts, SamePhase, Seals, Shows, Results, Saturated
<1>7. ASSUME NEW t \in Threads, Shutdown(t)
      PROVE  AdmissionInv'
  BY <1>7, ShutdownDoes, <1>0
  DEF AdmissionInv, Closed, GatesOwned, GatesType, HoldsGate, Finalizing, Where, Steps,
      Ends, Enters, Returns, OthersRun, At, G, GenMoves, CoreMoves, SameAdmission,
      SameCounts, SamePhase, Seals, Shows, Results, Saturated
<1>8. ASSUME NEW t \in Threads, BeginGate(t)
      PROVE  AdmissionInv'
  BY <1>8, BeginGateDoes, <1>0
  DEF AdmissionInv, Closed, GatesOwned, GatesType, HoldsGate, Finalizing, Where, Steps,
      Ends, Enters, Returns, OthersRun, At, G, GenMoves, CoreMoves, SameAdmission,
      SameCounts, SamePhase, Seals, Shows, Results, Saturated
<1>9. ASSUME NEW t \in Threads, Refuse(t)
      PROVE  AdmissionInv'
  BY <1>9, RefuseDoes, <1>0
  DEF AdmissionInv, Closed, GatesOwned, GatesType, HoldsGate, Finalizing, Where, Steps,
      Ends, Enters, Returns, OthersRun, At, G, GenMoves, CoreMoves, SameAdmission,
      SameCounts, SamePhase, Seals, Shows, Results, Saturated
<1>10. ASSUME NEW t \in Threads, Admit(t)
      PROVE  AdmissionInv'
  BY <1>10, AdmitDoes, <1>0
  DEF AdmissionInv, Closed, GatesOwned, GatesType, HoldsGate, Finalizing, Where, Steps,
      Ends, Enters, Returns, OthersRun, At, G, GenMoves, CoreMoves, SameAdmission,
      SameCounts, SamePhase, Seals, Shows, Results, Saturated
<1>11. ASSUME NEW t \in Threads, Commit(t)
      PROVE  AdmissionInv'
  BY <1>11, CommitDoes, <1>0
  DEF AdmissionInv, Closed, GatesOwned, GatesType, HoldsGate, Finalizing, Where, Steps,
      Ends, Enters, Returns, OthersRun, At, G, GenMoves, CoreMoves, SameAdmission,
      SameCounts, SamePhase, Seals, Shows, Results, Saturated
<1>12. ASSUME NEW t \in Threads, MarkFinished(t)
      PROVE  AdmissionInv'
  BY <1>12, MarkFinishedDoes, <1>0
  DEF AdmissionInv, Closed, GatesOwned, GatesType, HoldsGate, Finalizing, Where, Steps,
      Ends, Enters, Returns, OthersRun, At, G, GenMoves, CoreMoves, SameAdmission,
      SameCounts, SamePhase, Seals, Shows, Results, Saturated
<1>13. ASSUME NEW t \in Threads, LeaveGeneration(t)
      PROVE  AdmissionInv'
  BY <1>13, LeaveDoes, <1>0
  DEF AdmissionInv, Closed, GatesOwned, GatesType, HoldsGate, Finalizing, Where, Steps,
      Ends, Enters, Returns, OthersRun, At, G, GenMoves, CoreMoves, SameAdmission,
      SameCounts, SamePhase, Seals, Shows, Results, Saturated
<1>14. ASSUME NEW t \in Threads, CheckClosing(t)
      PROVE  AdmissionInv'
  BY <1>14, CheckClosingDoes, <1>0
  DEF AdmissionInv, Closed, GatesOwned, GatesType, HoldsGate, Finalizing, Where, Steps,
      Ends, Enters, Returns, OthersRun, At, G, GenMoves, CoreMoves, SameAdmission,
      SameCounts, SamePhase, Seals, Shows, Results, Saturated
<1>15. ASSUME NEW t \in Threads, OnLimitsHitSignal(t)
      PROVE  AdmissionInv'
  BY <1>15, SignalDoes, <1>0
  DEF AdmissionInv, Closed, GatesOwned, GatesType, HoldsGate, Finalizing, Where, Steps,
      Ends, Enters, Returns, OthersRun, At, G, GenMoves, CoreMoves, SameAdmission,
      SameCounts, SamePhase, Seals, Shows, Results, Saturated
<1>16. ASSUME NEW t \in Threads, LoadInflight(t)
      PROVE  AdmissionInv'
  BY <1>16, LoadInflightDoes, <1>0
  DEF AdmissionInv, Closed, GatesOwned, GatesType, HoldsGate, Finalizing, Where, Steps,
      Ends, Enters, Returns, OthersRun, At, G, GenMoves, CoreMoves, SameAdmission,
      SameCounts, SamePhase, Seals, Shows, Results, Saturated
<1>17. ASSUME NEW t \in Threads, CloseAdmissions(t)
      PROVE  AdmissionInv'
  BY <1>17, CloseAdmissionsDoes, <1>0
  DEF AdmissionInv, Closed, GatesOwned, GatesType, HoldsGate, Finalizing, Where, Steps,
      Ends, Enters, Returns, OthersRun, At, G, GenMoves, CoreMoves, SameAdmission,
      SameCounts, SamePhase, Seals, Shows, Results, Saturated
<1>18. ASSUME NEW t \in Threads, CloseLoad(t)
      PROVE  AdmissionInv'
  BY <1>18, CloseLoadDoes, <1>0
  DEF AdmissionInv, Closed, GatesOwned, GatesType, HoldsGate, Finalizing, Where, Steps,
      Ends, Enters, Returns, OthersRun, At, G, GenMoves, CoreMoves, SameAdmission,
      SameCounts, SamePhase, Seals, Shows, Results, Saturated
<1>19. ASSUME NEW t \in Threads, CloseUnlock(t)
      PROVE  AdmissionInv'
  BY <1>19, CloseUnlockDoes, <1>0
  DEF AdmissionInv, Closed, GatesOwned, GatesType, HoldsGate, Finalizing, Where, Steps,
      Ends, Enters, Returns, OthersRun, At, G, GenMoves, CoreMoves, SameAdmission,
      SameCounts, SamePhase, Seals, Shows, Results, Saturated
<1>20. ASSUME NEW t \in Threads, FinalizeGate(t)
      PROVE  AdmissionInv'
  BY <1>20, FinalizeGateDoes, <1>0
  DEF AdmissionInv, Closed, GatesOwned, GatesType, HoldsGate, Finalizing, Where, Steps,
      Ends, Enters, Returns, OthersRun, At, G, GenMoves, CoreMoves, SameAdmission,
      SameCounts, SamePhase, Seals, Shows, Results, Saturated
<1>21. ASSUME NEW t \in Threads, StopSampler(t)
      PROVE  AdmissionInv'
  BY <1>21, StopSamplerDoes, <1>0
  DEF AdmissionInv, Closed, GatesOwned, GatesType, HoldsGate, Finalizing, Where, Steps,
      Ends, Enters, Returns, OthersRun, At, G, GenMoves, CoreMoves, SameAdmission,
      SameCounts, SamePhase, Seals, Shows, Results, Saturated
<1>22. ASSUME NEW t \in Threads, JoinSampler(t)
      PROVE  AdmissionInv'
  BY <1>22, JoinSamplerDoes, <1>0
  DEF AdmissionInv, Closed, GatesOwned, GatesType, HoldsGate, Finalizing, Where, Steps,
      Ends, Enters, Returns, OthersRun, At, G, GenMoves, CoreMoves, SameAdmission,
      SameCounts, SamePhase, Seals, Shows, Results, Saturated
<1>23. ASSUME NEW t \in Threads, CoreShutdown(t)
      PROVE  AdmissionInv'
  BY <1>23, CoreShutdownDoes, <1>0
  DEF AdmissionInv, Closed, GatesOwned, GatesType, HoldsGate, Finalizing, Where, Steps,
      Ends, Enters, Returns, OthersRun, At, G, GenMoves, CoreMoves, SameAdmission,
      SameCounts, SamePhase, Seals, Shows, Results, Saturated
<1>24. ASSUME NEW t \in Threads, SinkWrite(t)
      PROVE  AdmissionInv'
  BY <1>24, SinkWriteDoes, <1>0
  DEF AdmissionInv, Closed, GatesOwned, GatesType, HoldsGate, Finalizing, Where, Steps,
      Ends, Enters, Returns, OthersRun, At, G, GenMoves, CoreMoves, SameAdmission,
      SameCounts, SamePhase, Seals, Shows, Results, Saturated
<1>25. ASSUME NEW t \in Threads, PublishResult(t)
      PROVE  AdmissionInv'
  BY <1>25, PublishDoes, <1>0
  DEF AdmissionInv, Closed, GatesOwned, GatesType, HoldsGate, Finalizing, Where, Steps,
      Ends, Enters, Returns, OthersRun, At, G, GenMoves, CoreMoves, SameAdmission,
      SameCounts, SamePhase, Seals, Shows, Results, Saturated
<1>26. ASSUME NEW t \in Threads, Retire(t)
      PROVE  AdmissionInv'
  BY <1>26, RetireDoes, <1>0
  DEF AdmissionInv, Closed, GatesOwned, GatesType, HoldsGate, Finalizing, Where, Steps,
      Ends, Enters, Returns, OthersRun, At, G, GenMoves, CoreMoves, SameAdmission,
      SameCounts, SamePhase, Seals, Shows, Results, Saturated
<1>27. ASSUME NEW g \in Generations, DrainStore(g)
      PROVE  AdmissionInv'
  BY <1>27, DrainStoreDoes, <1>0
  DEF AdmissionInv, Closed, GatesOwned, GatesType, HoldsGate, Finalizing, Where, Steps,
      Ends, Enters, Returns, OthersRun, At, G, GenMoves, CoreMoves, SameAdmission,
      SameCounts, SamePhase, Seals, Shows, Results, Saturated
<1>28. ASSUME NEW g \in Generations, SamplerTaskEnds(g)
      PROVE  AdmissionInv'
  BY <1>28, SamplerTaskDoes, <1>0
  DEF AdmissionInv, Closed, GatesOwned, GatesType, HoldsGate, Finalizing, Where, Steps,
      Ends, Enters, Returns, OthersRun, At, G, GenMoves, CoreMoves, SameAdmission,
      SameCounts, SamePhase, Seals, Shows, Results, Saturated
<1>29. CASE UNCHANGED vars
  BY <1>29, <1>0
  DEF vars, AdmissionInv, Closed, GatesOwned, GatesType, HoldsGate, Finalizing, Where,
      Steps, Ends, Enters, Returns, OthersRun, At, G, GenMoves, CoreMoves,
      SameAdmission, SameCounts, SamePhase, Seals, Shows, Results, Saturated
<1> QED
  BY <1>1, <1>2, <1>3, <1>4, <1>5, <1>6, <1>7, <1>8, <1>9, <1>10, <1>11, <1>12, <1>13,
     <1>14, <1>15, <1>16, <1>17, <1>18, <1>19, <1>20, <1>21, <1>22, <1>23, <1>24, <1>25,
     <1>26, <1>27, <1>28, <1>29
  DEF Next, Operation, Continue, Background

----------------------------------------------------------------------------
(* Layer 4 is inductive.                                                   *)

\* A step that finalization does not see in generation g.
Unseen(g) ==
    /\ SameFinal(gen'[g], gen[g]) /\ gen'[g].strict = gen[g].strict
    /\ SamePhase(core'[g], core[g]) /\ core'[g].unfinished = core[g].unfinished
    /\ told'[g] = told[g] /\ fgate'[g] = fgate[g]

\* A step that does not see a generation's finalization keeps it settled.
LEMMA SettledKept ==
    ASSUME NEW g \in Generations, Settled(g), Unseen(g)
    PROVE  Settled(g)'
BY DEF Settled, Unseen, SameFinal, SamePhase

\* Which steps finalization sees, and in which generation.
Finalizes(t) ==
    \/ FinalizeGate(t) \/ StopSampler(t) \/ JoinSampler(t) \/ CoreShutdown(t)
    \/ SinkWrite(t) \/ PublishResult(t) \/ Retire(t)

\* Requests, admissions and closings are not seen by finalization.
LEMMA StepUnseen ==
    ASSUME Shape, [Next]_vars
    PROVE  \/ \A g \in Generations : Unseen(g)
           \/ \E t \in Threads : Enable(t) \/ Disable(t) \/ Finalizes(t)
           \/ \E g \in Generations : SamplerTaskEnds(g)
<1> DEFINE Goal == \/ \A g \in Generations : Unseen(g)
                   \/ \E t \in Threads : Enable(t) \/ Disable(t) \/ Finalizes(t)
                   \/ \E g \in Generations : SamplerTaskEnds(g)
<1>1. ASSUME NEW t \in Threads, Enable(t)
      PROVE  Goal
  BY <1>1
<1>2. ASSUME NEW t \in Threads, NEW tpl \in Templates, Reload(t, tpl)
      PROVE  Goal
  BY <1>2
  DEF Reload, Unseen, GenMoves, CoreMoves, SameFinal, SamePolicy, SamePhase,
      SameEvidence, Seals, Shows
<1>3. ASSUME NEW t \in Threads, NEW r \in Requests, BeginRequest(t, r)
      PROVE  Goal
  BY <1>3, BeginRequestDoes
  DEF Unseen, GenMoves, CoreMoves, SameFinal, SamePolicy, SamePhase, SameEvidence,
      Seals, Shows
<1>4. ASSUME NEW t \in Threads, NEW r \in Requests, FinishRequest(t, r)
      PROVE  Goal
  BY <1>4, FinishRequestDoes
  DEF Unseen, GenMoves, CoreMoves, SameFinal, SamePolicy, SamePhase, SameEvidence,
      Seals, Shows
<1>5. ASSUME NEW t \in Threads, NEW g \in Generations, Overflow(t, g)
      PROVE  Goal
  BY <1>5, OverflowDoes
  DEF Unseen, GenMoves, CoreMoves, SameFinal, SamePolicy, SamePhase, SameEvidence,
      Seals, Shows
<1>6. ASSUME NEW t \in Threads, Disable(t)
      PROVE  Goal
  BY <1>6
<1>7. ASSUME NEW t \in Threads, Shutdown(t)
      PROVE  Goal
  BY <1>7, ShutdownDoes
  DEF Unseen, GenMoves, CoreMoves, SameFinal, SamePolicy, SamePhase, SameEvidence,
      Seals, Shows
<1>8. ASSUME NEW t \in Threads, BeginGate(t)
      PROVE  Goal
  BY <1>8, BeginGateDoes
  DEF Unseen, GenMoves, CoreMoves, SameFinal, SamePolicy, SamePhase, SameEvidence,
      Seals, Shows
<1>9. ASSUME NEW t \in Threads, Refuse(t)
      PROVE  Goal
  BY <1>9, RefuseDoes
  DEF Unseen, GenMoves, CoreMoves, SameFinal, SamePolicy, SamePhase, SameEvidence,
      Seals, Shows
<1>10. ASSUME NEW t \in Threads, Admit(t)
      PROVE  Goal
  BY <1>10, AdmitDoes
  DEF Unseen, GenMoves, CoreMoves, SameFinal, SamePolicy, SamePhase, SameEvidence,
      Seals, Shows
<1>11. ASSUME NEW t \in Threads, Commit(t)
      PROVE  Goal
  BY <1>11, CommitDoes
  DEF Unseen, GenMoves, CoreMoves, SameFinal, SamePolicy, SamePhase, SameEvidence,
      Seals, Shows
<1>12. ASSUME NEW t \in Threads, MarkFinished(t)
      PROVE  Goal
  BY <1>12, MarkFinishedDoes
  DEF Unseen, GenMoves, CoreMoves, SameFinal, SamePolicy, SamePhase, SameEvidence,
      Seals, Shows
<1>13. ASSUME NEW t \in Threads, LeaveGeneration(t)
      PROVE  Goal
  BY <1>13, LeaveDoes
  DEF Unseen, GenMoves, CoreMoves, SameFinal, SamePolicy, SamePhase, SameEvidence,
      Seals, Shows
<1>14. ASSUME NEW t \in Threads, CheckClosing(t)
      PROVE  Goal
  BY <1>14, CheckClosingDoes
  DEF Unseen, GenMoves, CoreMoves, SameFinal, SamePolicy, SamePhase, SameEvidence,
      Seals, Shows
<1>15. ASSUME NEW t \in Threads, OnLimitsHitSignal(t)
      PROVE  Goal
  BY <1>15, SignalDoes
  DEF Unseen, GenMoves, CoreMoves, SameFinal, SamePolicy, SamePhase, SameEvidence,
      Seals, Shows
<1>16. ASSUME NEW t \in Threads, LoadInflight(t)
      PROVE  Goal
  BY <1>16, LoadInflightDoes
  DEF Unseen, GenMoves, CoreMoves, SameFinal, SamePolicy, SamePhase, SameEvidence,
      Seals, Shows
<1>17. ASSUME NEW t \in Threads, CloseAdmissions(t)
      PROVE  Goal
  BY <1>17, CloseAdmissionsDoes
  DEF Unseen, GenMoves, CoreMoves, SameFinal, SamePolicy, SamePhase, SameEvidence,
      Seals, Shows
<1>18. ASSUME NEW t \in Threads, CloseLoad(t)
      PROVE  Goal
  BY <1>18, CloseLoadDoes
  DEF Unseen, GenMoves, CoreMoves, SameFinal, SamePolicy, SamePhase, SameEvidence,
      Seals, Shows
<1>19. ASSUME NEW t \in Threads, CloseUnlock(t)
      PROVE  Goal
  BY <1>19, CloseUnlockDoes
  DEF Unseen, GenMoves, CoreMoves, SameFinal, SamePolicy, SamePhase, SameEvidence,
      Seals, Shows
<1>20. ASSUME NEW t \in Threads, FinalizeGate(t)
      PROVE  Goal
  BY <1>20 DEF Finalizes
<1>21. ASSUME NEW t \in Threads, StopSampler(t)
      PROVE  Goal
  BY <1>21 DEF Finalizes
<1>22. ASSUME NEW t \in Threads, JoinSampler(t)
      PROVE  Goal
  BY <1>22 DEF Finalizes
<1>23. ASSUME NEW t \in Threads, CoreShutdown(t)
      PROVE  Goal
  BY <1>23 DEF Finalizes
<1>24. ASSUME NEW t \in Threads, SinkWrite(t)
      PROVE  Goal
  BY <1>24 DEF Finalizes
<1>25. ASSUME NEW t \in Threads, PublishResult(t)
      PROVE  Goal
  BY <1>25 DEF Finalizes
<1>26. ASSUME NEW t \in Threads, Retire(t)
      PROVE  Goal
  BY <1>26 DEF Finalizes
<1>27. ASSUME NEW g \in Generations, DrainStore(g)
      PROVE  Goal
  BY <1>27, DrainStoreDoes
  DEF Unseen, GenMoves, CoreMoves, SameFinal, SamePolicy, SamePhase, SameEvidence,
      Seals, Shows
<1>28. ASSUME NEW g \in Generations, SamplerTaskEnds(g)
      PROVE  Goal
  BY <1>28
<1>29. CASE UNCHANGED vars
  BY <1>29
  DEF vars, Unseen, GenMoves, CoreMoves, SameFinal, SamePolicy, SamePhase, SameEvidence,
      Seals, Shows
<1> QED
  BY <1>1, <1>2, <1>3, <1>4, <1>5, <1>6, <1>7, <1>8, <1>9, <1>10, <1>11, <1>12, <1>13,
     <1>14, <1>15, <1>16, <1>17, <1>18, <1>19, <1>20, <1>21, <1>22, <1>23, <1>24, <1>25,
     <1>26, <1>27, <1>28, <1>29
  DEF Next, Operation, Continue, Background

\* Only finalization moves a thread under the finalization_gate.
LEMMA StepOutside ==
    ASSUME Shape, [Next]_vars
    PROVE  \A u \in Threads : \/ thread'[u] = thread[u] \/ thread'[u].pc \notin Finalizing
                              \/ Finalizes(u)
<1> DEFINE Goal == \A u \in Threads : \/ thread'[u] = thread[u] \/ thread'[u].pc \notin Finalizing
                                      \/ Finalizes(u)
<1>1. ASSUME NEW t \in Threads, Enable(t)
      PROVE  Goal
  BY <1>1, EnableDoes
  DEF Finalizing, Finalizes, Steps, Ends, Enters, Returns, OthersRun
<1>2. ASSUME NEW t \in Threads, NEW tpl \in Templates, Reload(t, tpl)
      PROVE  Goal
  BY <1>2
  DEF Reload, Finalizing, Finalizes, Steps, Ends, Enters, Returns, OthersRun
<1>3. ASSUME NEW t \in Threads, NEW r \in Requests, BeginRequest(t, r)
      PROVE  Goal
  BY <1>3, BeginRequestDoes
  DEF Finalizing, Finalizes, Steps, Ends, Enters, Returns, OthersRun
<1>4. ASSUME NEW t \in Threads, NEW r \in Requests, FinishRequest(t, r)
      PROVE  Goal
  BY <1>4, FinishRequestDoes
  DEF Finalizing, Finalizes, Steps, Ends, Enters, Returns, OthersRun
<1>5. ASSUME NEW t \in Threads, NEW g \in Generations, Overflow(t, g)
      PROVE  Goal
  BY <1>5, OverflowDoes
  DEF Finalizing, Finalizes, Steps, Ends, Enters, Returns, OthersRun
<1>6. ASSUME NEW t \in Threads, Disable(t)
      PROVE  Goal
  BY <1>6, DisableDoes
  DEF Finalizing, Finalizes, Steps, Ends, Enters, Returns, OthersRun
<1>7. ASSUME NEW t \in Threads, Shutdown(t)
      PROVE  Goal
  BY <1>7, ShutdownDoes
  DEF Finalizing, Finalizes, Steps, Ends, Enters, Returns, OthersRun
<1>8. ASSUME NEW t \in Threads, BeginGate(t)
      PROVE  Goal
  BY <1>8, BeginGateDoes
  DEF Finalizing, Finalizes, Steps, Ends, Enters, Returns, OthersRun
<1>9. ASSUME NEW t \in Threads, Refuse(t)
      PROVE  Goal
  BY <1>9, RefuseDoes
  DEF Finalizing, Finalizes, Steps, Ends, Enters, Returns, OthersRun
<1>10. ASSUME NEW t \in Threads, Admit(t)
      PROVE  Goal
  BY <1>10, AdmitDoes
  DEF Finalizing, Finalizes, Steps, Ends, Enters, Returns, OthersRun
<1>11. ASSUME NEW t \in Threads, Commit(t)
      PROVE  Goal
  BY <1>11, CommitDoes
  DEF Finalizing, Finalizes, Steps, Ends, Enters, Returns, OthersRun
<1>12. ASSUME NEW t \in Threads, MarkFinished(t)
      PROVE  Goal
  BY <1>12, MarkFinishedDoes
  DEF Finalizing, Finalizes, Steps, Ends, Enters, Returns, OthersRun
<1>13. ASSUME NEW t \in Threads, LeaveGeneration(t)
      PROVE  Goal
  BY <1>13, LeaveDoes
  DEF Finalizing, Finalizes, Steps, Ends, Enters, Returns, OthersRun
<1>14. ASSUME NEW t \in Threads, CheckClosing(t)
      PROVE  Goal
  BY <1>14, CheckClosingDoes
  DEF Finalizing, Finalizes, Steps, Ends, Enters, Returns, OthersRun
<1>15. ASSUME NEW t \in Threads, OnLimitsHitSignal(t)
      PROVE  Goal
  BY <1>15, SignalDoes
  DEF Finalizing, Finalizes, Steps, Ends, Enters, Returns, OthersRun
<1>16. ASSUME NEW t \in Threads, LoadInflight(t)
      PROVE  Goal
  BY <1>16, LoadInflightDoes
  DEF Finalizing, Finalizes, Steps, Ends, Enters, Returns, OthersRun
<1>17. ASSUME NEW t \in Threads, CloseAdmissions(t)
      PROVE  Goal
  BY <1>17, CloseAdmissionsDoes
  DEF Finalizing, Finalizes, Steps, Ends, Enters, Returns, OthersRun
<1>18. ASSUME NEW t \in Threads, CloseLoad(t)
      PROVE  Goal
  BY <1>18, CloseLoadDoes
  DEF Finalizing, Finalizes, Steps, Ends, Enters, Returns, OthersRun
<1>19. ASSUME NEW t \in Threads, CloseUnlock(t)
      PROVE  Goal
  BY <1>19, CloseUnlockDoes
  DEF Finalizing, Finalizes, Steps, Ends, Enters, Returns, OthersRun
<1>20. ASSUME NEW t \in Threads, FinalizeGate(t)
      PROVE  Goal
  BY <1>20, FinalizeGateDoes DEF Finalizes, Steps, Ends, Returns, OthersRun
<1>21. ASSUME NEW t \in Threads, StopSampler(t)
      PROVE  Goal
  BY <1>21, StopSamplerDoes DEF Finalizes, Steps, Ends, Returns, OthersRun
<1>22. ASSUME NEW t \in Threads, JoinSampler(t)
      PROVE  Goal
  BY <1>22, JoinSamplerDoes DEF Finalizes, Steps, Ends, Returns, OthersRun
<1>23. ASSUME NEW t \in Threads, CoreShutdown(t)
      PROVE  Goal
  BY <1>23, CoreShutdownDoes DEF Finalizes, Steps, Ends, Returns, OthersRun
<1>24. ASSUME NEW t \in Threads, SinkWrite(t)
      PROVE  Goal
  BY <1>24, SinkWriteDoes DEF Finalizes, Steps, Ends, Returns, OthersRun
<1>25. ASSUME NEW t \in Threads, PublishResult(t)
      PROVE  Goal
  BY <1>25, PublishDoes DEF Finalizes, Steps, Ends, Returns, OthersRun
<1>26. ASSUME NEW t \in Threads, Retire(t)
      PROVE  Goal
  BY <1>26, RetireDoes DEF Finalizes, Steps, Ends, Returns, OthersRun
<1>27. ASSUME NEW g \in Generations, DrainStore(g)
      PROVE  Goal
  BY <1>27, DrainStoreDoes
  DEF Finalizing, Finalizes, Steps, Ends, Enters, Returns, OthersRun
<1>28. ASSUME NEW g \in Generations, SamplerTaskEnds(g)
      PROVE  Goal
  BY <1>28, SamplerTaskDoes
  DEF Finalizing, Finalizes, Steps, Ends, Enters, Returns, OthersRun
<1>29. CASE UNCHANGED vars
  BY <1>29
  DEF vars, Finalizing, Finalizes, Steps, Ends, Enters, Returns, OthersRun
<1> QED
  BY <1>1, <1>2, <1>3, <1>4, <1>5, <1>6, <1>7, <1>8, <1>9, <1>10, <1>11, <1>12, <1>13,
     <1>14, <1>15, <1>16, <1>17, <1>18, <1>19, <1>20, <1>21, <1>22, <1>23, <1>24, <1>25,
     <1>26, <1>27, <1>28, <1>29
  DEF Next, Operation, Continue, Background

\* Finalization of one generation is not seen by the others.
LEMMA OthersUnseen ==
    ASSUME Shape, NEW t \in Threads, Finalizes(t)
    PROVE  /\ G(t) \in Generations /\ OthersRun(t)
           /\ \A h \in Generations \ {G(t)} : Unseen(h)
<1>0. fgate \in GatesType /\ told \in [Generations -> SUBSET {"Ok", "Err"}]
  BY DEF Shape, TypeInv, GatesType
<1> USE <1>0 DEF Unseen, GatesType, GenMoves, CoreMoves, SameFinal, SamePhase, Results, Steps,
                 Ends, Returns, Report
<1>1. CASE FinalizeGate(t)
  BY <1>1, FinalizeGateDoes
<1>2. CASE StopSampler(t)
  BY <1>2, StopSamplerDoes
<1>3. CASE JoinSampler(t)
  BY <1>3, JoinSamplerDoes
<1>4. CASE CoreShutdown(t)
  BY <1>4, CoreShutdownDoes
<1>5. CASE SinkWrite(t)
  BY <1>5, SinkWriteDoes
<1>6. CASE PublishResult(t)
  BY <1>6, PublishDoes
<1>7. CASE Retire(t)
  BY <1>7, RetireDoes
<1> QED
  BY <1>1, <1>2, <1>3, <1>4, <1>5, <1>6, <1>7 DEF Finalizes

\* A thread under the finalization_gate of g finds what it left there.
LEMMA StageKept ==
    ASSUME NEW u \in Threads, Stage(u), thread'[u] = thread[u],
           thread[u].pc \notin Finalizing \/ Unseen(G(u))
    PROVE  Stage(u)'
<1>1. CASE thread[u].pc \notin Finalizing
  BY <1>1 DEF Stage, Finalizing
<1>2. CASE Unseen(G(u))
  BY <1>2 DEF Stage, Unseen, SameFinal, SamePhase, G
<1> QED
  BY <1>1, <1>2

\* The finalizer's own progress.
LEMMA FinalizerStage ==
    ASSUME Shape, GatesOwned, FinalInv, NEW t \in Threads, Finalizes(t)
    PROVE  Stage(t)'
<1>0. Settled(G(t)) /\ Stage(t)
  BY OthersUnseen DEF FinalInv
<1>s. gen[G(t)].sampler \in {"none", "running", "stopping", "ended"}
  BY OthersUnseen DEF Shape, TypeInv, GenerationType
<1> USE <1>0, <1>s DEF Stage, Finalizing, Settled, At, G, Results, Steps, Ends, Returns
<1>1. CASE FinalizeGate(t)
  BY <1>1, FinalizeGateDoes
<1>2. CASE StopSampler(t)
  BY <1>2, StopSamplerDoes
<1>3. CASE JoinSampler(t)
  BY <1>3, JoinSamplerDoes
<1>4. CASE CoreShutdown(t)
  BY <1>4, CoreShutdownDoes
<1>5. CASE SinkWrite(t)
  BY <1>5, SinkWriteDoes
<1>6. CASE PublishResult(t)
  BY <1>6, PublishDoes
<1>7. CASE Retire(t)
  BY <1>7, RetireDoes
<1> QED
  BY <1>1, <1>2, <1>3, <1>4, <1>5, <1>6, <1>7 DEF Finalizes

\* Nobody else is under the finalization_gate that a finalizer takes or holds.
LEMMA FinalizerAlone ==
    ASSUME Shape, GatesOwned, NEW t \in Threads, Finalizes(t), NEW u \in Threads, u # t,
           thread[u].pc \in Finalizing
    PROVE  G(u) \in Generations \ {G(t)}
<1>1. Nobody \notin Threads /\ G(u) \in Generations
  BY ControllerAssumption DEF Shape, Where, Finalizing, G
<1>2. fgate[G(t)] = Nobody \/ fgate[G(t)] = t
  <2>1. At(t, "finalize") => fgate[G(t)] = Nobody \/ ~FinalizeGate(t)
    BY DEF FinalizeGate
  <2>2. FinalizeGate(t) \/ thread[t].pc \in Finalizing
    BY DEF Finalizes, Finalizing, At, StopSampler, JoinSampler, CoreShutdown, SinkWrite,
           PublishResult, Retire
  <2> QED
    BY <2>1, <2>2 DEF GatesOwned, FinalizeGate
<1> QED
  BY <1>1, <1>2 DEF GatesOwned

\* Every thread under a finalization_gate finds its generation as it left it.
LEMMA StepStage ==
    ASSUME Shape, GatesOwned, FinalInv, [Next]_vars
    PROVE  \A u \in Threads : Stage(u)'
<1>0. \A u \in Threads : Stage(u)
  BY DEF FinalInv
<1>1. ASSUME NEW t \in Threads, Finalizes(t), NEW u \in Threads
      PROVE  Stage(u)'
  <2>1. CASE u = t
    BY <1>1, <2>1, FinalizerStage
  <2>2. CASE u # t
    BY <1>0, <1>1, <2>2, OthersUnseen, FinalizerAlone, StageKept DEF OthersRun
  <2> QED
    BY <2>1, <2>2
<1>2. ASSUME \A t \in Threads : ~Finalizes(t), \A g \in Generations : Unseen(g), NEW u \in Threads
      PROVE  Stage(u)'
  <2>1. CASE thread'[u] = thread[u]
    <3>1. thread[u].pc \in Finalizing => G(u) \in Generations
      BY DEF Shape, Where, Finalizing, G
    <3> QED
      BY <1>0, <1>2, <2>1, <3>1, StageKept
  <2>2. CASE thread'[u].pc \notin Finalizing
    BY <2>2 DEF Stage, Finalizing
  <2> QED
    BY <1>2, <2>1, <2>2, StepOutside
<1>3. ASSUME NEW t \in Threads, Enable(t), NEW u \in Threads
      PROVE  Stage(u)'
  <2>1. thread' = thread /\ fgate' = fgate /\ told' = told
    BY <1>3, EnableDoes
  <2>2. \A h \in Generations : h < lifecycle.next => gen'[h] = gen[h] /\ core'[h] = core[h]
    BY <1>3, EnableDoes, Numbers DEF GenMoves, CoreMoves
  <2>3. thread[u].pc \in Finalizing => G(u) \in Generations /\ G(u) < lifecycle.next
    BY DEF Shape, Where, Finalizing, G
  <2>4. thread[u].pc \in Finalizing => Unseen(G(u))
    BY <2>1, <2>2, <2>3 DEF Unseen, SameFinal, SamePhase
  <2> QED
    BY <1>0, <2>1, <2>4, StageKept
<1>4. ASSUME NEW t \in Threads, Disable(t), NEW u \in Threads
      PROVE  Stage(u)'
  <2>1. /\ gen' = gen /\ core' = core
        /\ thread'[u] = thread[u] \/ thread'[u].pc = "close_gate"
    BY <1>4, DisableDoes DEF Enters, OthersRun
  <2> QED
    BY <1>0, <2>1 DEF Stage, Finalizing, G
<1>5. ASSUME NEW g \in Generations, SamplerTaskEnds(g), NEW u \in Threads
      PROVE  Stage(u)'
  <2>1. /\ thread' = thread /\ core' = core
        /\ \A h \in Generations : gen'[h].result = gen[h].result
        /\ \A h \in Generations : gen'[h].sampler = gen[h].sampler \/
                                  (gen[h].sampler \in {"running", "stopping"} /\ gen'[h].sampler = "ended")
    BY <1>5, SamplerTaskDoes DEF GenMoves
  <2>2. thread[u].pc \in Finalizing => G(u) \in Generations
    BY DEF Shape, Where, Finalizing, G
  <2> QED
    BY <1>0, <2>1, <2>2 DEF Stage, Finalizing, G
<1> QED
  BY <1>1, <1>2, <1>3, <1>4, <1>5, StepUnseen

\* What a stored result means when finalize_generation finds it.
LEMMA StoredResult ==
    ASSUME Shape, FinalInv, NEW g \in Generations, g < lifecycle.next, ~Current(g)
    PROVE  gen[g].result # "Pending"
<1>1. lifecycle.st \in {"Disabled", "Active", "TerminalFailed", "Shutdown"} /\ NoGen \notin Generations
  BY ControllerAssumption DEF Shape, TypeInv, LifecycleType, Generations, NoGen
<1>2. ASSUME gen[g].result = "Pending" PROVE FALSE
  <2>1. lifecycle.gen = g
    BY <1>2 DEF FinalInv, Referred
  <2>2. lifecycle.st = "TerminalFailed" \/ lifecycle.st = "Disabled"
    BY <1>1, <2>1 DEF Current
  <2> QED
    BY <1>1, <1>2, <2>1, <2>2 DEF FinalInv, Referred, Shape, Born
<1> QED
  BY <1>2

\* Finalization keeps result, reports and sampler in agreement with the sink.
LEMMA FinalizerSettles ==
    ASSUME Shape, GatesOwned, FinalInv, NEW t \in Threads, Finalizes(t), NEW g, g = G(t)
    PROVE  Settled(g)'
<1>1. g \in Generations /\ (g < lifecycle.next \/ At(t, "idle"))
  BY OthersUnseen, Numbers
<1>2. /\ fgate \in GatesType /\ Nobody \notin Threads
      /\ told \in [Generations -> SUBSET {"Ok", "Err"}]
  BY Numbers DEF Shape, TypeInv
<1>3. /\ gen[g].sampler \in {"none", "running", "stopping", "ended"}
      /\ gen[g].result \in {"Pending", "Success", "TerminalFailure"}
      /\ core[g].phase \in {"Open", "Finalizing", "Success", "Failure"}
  BY <1>1 DEF Shape, TypeInv, GenerationType, CoreType
<1>4. Settled(g) /\ Stage(t) /\ (thread[t].pc \in Finalizing => fgate[g] = t)
  BY <1>1 DEF FinalInv, GatesOwned
<1> USE <1>1, <1>2, <1>3, <1>4
<1> USE DEF Settled, Stage, Finalizing, GatesType, At, Results, SamePolicy
<1>5. CASE FinalizeGate(t)
  BY <1>5, FinalizeGateDoes, StoredResult DEF Report
<1>6. CASE StopSampler(t)
  BY <1>6, StopSamplerDoes
<1>7. CASE JoinSampler(t)
  BY <1>7, JoinSamplerDoes
<1>8. CASE CoreShutdown(t)
  BY <1>8, CoreShutdownDoes
<1>9. CASE SinkWrite(t)
  <2>1. At(t, "sink_write")
    BY <1>9, SinkWriteDoes
  <2>2. core[g].phase = "Finalizing" /\ gen[g].result = "Pending" /\ core[g].writes = 0
    BY <2>1
  <2>3. /\ core'[g].phase \in {"Success", "Failure"} /\ core'[g].writes = core[g].writes + 1
        /\ core'[g].unfinished = core[g].unfinished /\ gen' = gen /\ told' = told /\ fgate' = fgate
    BY <1>9, SinkWriteDoes DEF SameEvidence
  <2> QED
    BY <2>1, <2>2, <2>3
<1>10. CASE PublishResult(t)
  BY <1>10, PublishDoes
<1>11. CASE Retire(t)
  BY <1>11, RetireDoes DEF Report
<1> QED
  BY <1>5, <1>6, <1>7, <1>8, <1>9, <1>10, <1>11 DEF Finalizes

\* Every step leaves every generation's finalization record consistent.
LEMMA StepSettled ==
    ASSUME Shape, GatesOwned, FinalInv, [Next]_vars
    PROVE  \A g \in Generations : Settled(g)'
<1>0. \A g \in Generations : Settled(g)
  BY DEF FinalInv
<1>1. ASSUME NEW t \in Threads, Finalizes(t), NEW h \in Generations
      PROVE  Settled(h)'
  BY <1>0, <1>1, FinalizerSettles, OthersUnseen, SettledKept
<1>2. ASSUME \A g \in Generations : Unseen(g), NEW h \in Generations
      PROVE  Settled(h)'
  BY <1>0, <1>2, SettledKept
<1>3. ASSUME NEW t \in Threads, Enable(t), NEW h \in Generations
      PROVE  Settled(h)'
  <2>1. thread' = thread /\ fgate' = fgate /\ told' = told
    BY <1>3, EnableDoes
  <2>2. CASE h # lifecycle.next
    <3>1. gen'[h] = gen[h] /\ core'[h] = core[h]
      BY <1>3, <2>2, EnableDoes DEF GenMoves, CoreMoves
    <3> QED
      BY <1>0, <2>1, <3>1, SettledKept DEF Unseen, SameFinal, SamePhase
  <2>3. CASE h = lifecycle.next
    <3>1. /\ gen'[h].result = "Pending" /\ gen'[h].sampler \in {"none", "running"}
          /\ core'[h] = NewRun
      BY <1>3, <2>3, EnableDoes
    <3>2. told[h] = {}
      BY <2>3, Numbers DEF Shape, Born
    <3> QED
      BY <2>1, <3>1, <3>2 DEF Settled, NewRun
  <2> QED
    BY <2>2, <2>3
<1>4. ASSUME NEW t \in Threads, Disable(t), NEW h \in Generations
      PROVE  Settled(h)'
  <2>1. /\ gen' = gen /\ core' = core /\ fgate' = fgate
        /\ \/ told' = told
           \/ lifecycle.st = "TerminalFailed" /\ told' = [told EXCEPT ![lifecycle.gen] = @ \cup {"Err"}]
    BY <1>4, DisableDoes
  <2>2. CASE told' = told
    BY <1>0, <2>1, <2>2, SettledKept DEF Unseen, SameFinal, SamePhase
  <2>3. CASE /\ lifecycle.st = "TerminalFailed"
             /\ told' = [told EXCEPT ![lifecycle.gen] = @ \cup {"Err"}]
    <3>1. gen[lifecycle.gen].result = "TerminalFailure"
      BY <2>3 DEF FinalInv, Referred
    <3>2. /\ "Ok" \in told'[h] => "Ok" \in told[h]
          /\ "Err" \in told'[h] => "Err" \in told[h] \/ h = lifecycle.gen
      BY <2>3 DEF Shape, TypeInv
    <3> QED
      BY <1>0, <2>1, <3>1, <3>2 DEF Settled
  <2> QED
    BY <2>1, <2>2, <2>3
<1>5. ASSUME NEW g \in Generations, SamplerTaskEnds(g), NEW h \in Generations
      PROVE  Settled(h)'
  <2>1. /\ core' = core /\ told' = told /\ fgate' = fgate
        /\ gen'[h].result = gen[h].result /\ gen'[h].strict = gen[h].strict
        /\ gen'[h].sampler = gen[h].sampler \/ gen'[h].sampler = "ended"
    BY <1>5, SamplerTaskDoes DEF GenMoves, SamePolicy
  <2> QED
    BY <1>0, <2>1 DEF Settled
<1> QED
  BY <1>1, <1>2, <1>3, <1>4, <1>5, StepUnseen

\* Only enable(), shutdown() and the end of finalization change the lifecycle.
LEMMA StepLife ==
    ASSUME Shape, [Next]_vars
    PROVE  lifecycle' = lifecycle \/ \E t \in Threads : Enable(t) \/ Shutdown(t) \/ Retire(t)
<1> DEFINE Goal == lifecycle' = lifecycle \/ \E t \in Threads : Enable(t) \/ Shutdown(t) \/ Retire(t)
<1>1. ASSUME NEW t \in Threads, Enable(t)
      PROVE  Goal
  BY <1>1
<1>2. ASSUME NEW t \in Threads, NEW tpl \in Templates, Reload(t, tpl)
      PROVE  Goal
  BY <1>2
  DEF Reload
<1>3. ASSUME NEW t \in Threads, NEW r \in Requests, BeginRequest(t, r)
      PROVE  Goal
  BY <1>3, BeginRequestDoes
<1>4. ASSUME NEW t \in Threads, NEW r \in Requests, FinishRequest(t, r)
      PROVE  Goal
  BY <1>4, FinishRequestDoes
<1>5. ASSUME NEW t \in Threads, NEW g \in Generations, Overflow(t, g)
      PROVE  Goal
  BY <1>5, OverflowDoes
<1>6. ASSUME NEW t \in Threads, Disable(t)
      PROVE  Goal
  BY <1>6, DisableDoes
<1>7. ASSUME NEW t \in Threads, Shutdown(t)
      PROVE  Goal
  BY <1>7
<1>8. ASSUME NEW t \in Threads, BeginGate(t)
      PROVE  Goal
  BY <1>8, BeginGateDoes
<1>9. ASSUME NEW t \in Threads, Refuse(t)
      PROVE  Goal
  BY <1>9, RefuseDoes
<1>10. ASSUME NEW t \in Threads, Admit(t)
      PROVE  Goal
  BY <1>10, AdmitDoes
<1>11. ASSUME NEW t \in Threads, Commit(t)
      PROVE  Goal
  BY <1>11, CommitDoes
<1>12. ASSUME NEW t \in Threads, MarkFinished(t)
      PROVE  Goal
  BY <1>12, MarkFinishedDoes
<1>13. ASSUME NEW t \in Threads, LeaveGeneration(t)
      PROVE  Goal
  BY <1>13, LeaveDoes
<1>14. ASSUME NEW t \in Threads, CheckClosing(t)
      PROVE  Goal
  BY <1>14, CheckClosingDoes
<1>15. ASSUME NEW t \in Threads, OnLimitsHitSignal(t)
      PROVE  Goal
  BY <1>15, SignalDoes
<1>16. ASSUME NEW t \in Threads, LoadInflight(t)
      PROVE  Goal
  BY <1>16, LoadInflightDoes
<1>17. ASSUME NEW t \in Threads, CloseAdmissions(t)
      PROVE  Goal
  BY <1>17, CloseAdmissionsDoes
<1>18. ASSUME NEW t \in Threads, CloseLoad(t)
      PROVE  Goal
  BY <1>18, CloseLoadDoes
<1>19. ASSUME NEW t \in Threads, CloseUnlock(t)
      PROVE  Goal
  BY <1>19, CloseUnlockDoes
<1>20. ASSUME NEW t \in Threads, FinalizeGate(t)
      PROVE  Goal
  BY <1>20, FinalizeGateDoes
<1>21. ASSUME NEW t \in Threads, StopSampler(t)
      PROVE  Goal
  BY <1>21, StopSamplerDoes
<1>22. ASSUME NEW t \in Threads, JoinSampler(t)
      PROVE  Goal
  BY <1>22, JoinSamplerDoes
<1>23. ASSUME NEW t \in Threads, CoreShutdown(t)
      PROVE  Goal
  BY <1>23, CoreShutdownDoes
<1>24. ASSUME NEW t \in Threads, SinkWrite(t)
      PROVE  Goal
  BY <1>24, SinkWriteDoes
<1>25. ASSUME NEW t \in Threads, PublishResult(t)
      PROVE  Goal
  BY <1>25, PublishDoes
<1>26. ASSUME NEW t \in Threads, Retire(t)
      PROVE  Goal
  BY <1>26
<1>27. ASSUME NEW g \in Generations, DrainStore(g)
      PROVE  Goal
  BY <1>27, DrainStoreDoes
<1>28. ASSUME NEW g \in Generations, SamplerTaskEnds(g)
      PROVE  Goal
  BY <1>28, SamplerTaskDoes
<1>29. CASE UNCHANGED vars
  BY <1>29
  DEF vars
<1> QED
  BY <1>1, <1>2, <1>3, <1>4, <1>5, <1>6, <1>7, <1>8, <1>9, <1>10, <1>11, <1>12, <1>13,
     <1>14, <1>15, <1>16, <1>17, <1>18, <1>19, <1>20, <1>21, <1>22, <1>23, <1>24, <1>25,
     <1>26, <1>27, <1>28, <1>29
  DEF Next, Operation, Continue, Background

\* The lifecycle refers to the one generation that has no result yet.
LEMMA StepReferred ==
    ASSUME Shape, GatesOwned, FinalInv, [Next]_vars
    PROVE  Referred'
<1>0. /\ lifecycle.next \in Int /\ \A g \in Generations : g \in Int
      /\ NoGen \notin Generations /\ NoGen = 0
      /\ Referred
  BY ControllerAssumption, Numbers DEF FinalInv, Generations, NoGen
<1>1. ASSUME NEW t \in Threads, Enable(t) PROVE Referred'
  <2> DEFINE n == lifecycle.next
  <2>1. /\ n \in Generations /\ lifecycle.st \in {"Disabled", "TerminalFailed"}
        /\ lifecycle'.st = "Active" /\ lifecycle'.gen = n /\ lifecycle'.next = n + 1
        /\ \A h \in Generations \ {n} : gen'[h] = gen[h]
    BY <1>1, EnableDoes DEF GenMoves
  <2>2. \A h \in Generations : h < n => gen[h].result # "Pending"
    BY <2>1, StoredResult DEF Current
  <2>3. \A h \in Generations : h < n + 1 => h < n \/ h = n
    BY <1>0
  <2> QED
    BY <2>1, <2>2, <2>3 DEF Referred
<1>2. ASSUME NEW t \in Threads, Shutdown(t) PROVE Referred'
  <2>1. /\ gen' = gen /\ lifecycle'.st = "Shutdown"
        /\ lifecycle'.gen = lifecycle.gen /\ lifecycle'.next = lifecycle.next
    BY <1>2, ShutdownDoes
  <2> QED
    BY <1>0, <2>1 DEF Referred
<1>3. ASSUME NEW t \in Threads, Retire(t) PROVE Referred'
  <2>1. /\ G(t) \in Generations /\ gen' = gen /\ lifecycle'.next = lifecycle.next
        /\ \/ /\ lifecycle.gen = G(t)
              /\ \/ lifecycle'.st = "Disabled"
                 \/ gen[G(t)].result # "Success" /\ lifecycle'.gen = G(t)
           \/ UNCHANGED lifecycle
    BY <1>3, RetireDoes
  <2>2. gen[G(t)].result # "Pending"
    BY <1>3 DEF FinalInv, Stage, Finalizing, Retire, At, G
  <2>3. gen[G(t)].result \in {"Pending", "Success", "TerminalFailure"}
    BY <2>1 DEF Shape, TypeInv, GenerationType
  <2> QED
    BY <1>0, <2>1, <2>2, <2>3 DEF Referred
<1>4. CASE /\ lifecycle' = lifecycle /\ \A h \in Generations : gen'[h].result = gen[h].result
  <2>1. lifecycle.st = "TerminalFailed" => lifecycle.gen \in Generations
    BY DEF Shape, Born, TypeInv, LifecycleType
  <2> QED
    BY <1>0, <1>4, <2>1 DEF Referred
<1>5. ASSUME NEW t \in Threads, FinalizeGate(t) PROVE Referred'
  <2>1. G(t) \in Generations /\ G(t) < lifecycle.next /\ lifecycle' = lifecycle
    BY <1>5, FinalizeGateDoes, Numbers DEF At
  <2>2. CASE Current(G(t)) /\ gen[G(t)].result = "Pending"
    BY <1>4, <1>5, <2>1, <2>2, FinalizeGateDoes DEF Results, GenMoves
  <2>3. CASE gen[G(t)].result # "Pending"
    BY <1>4, <1>5, <2>1, <2>3, FinalizeGateDoes DEF Results, GenMoves
  <2> QED
    BY <2>1, <2>2, <2>3, StoredResult
<1>6. ASSUME NEW t \in Threads, PublishResult(t) PROVE Referred'
  <2>1. G(t) \in Generations /\ G(t) < lifecycle.next /\ lifecycle' = lifecycle
    BY <1>6, PublishDoes, Numbers DEF At
  <2>2. gen[G(t)].result = "Pending"
    BY <1>6, <2>1 DEF FinalInv, Stage, Finalizing, PublishResult, At, G
  <2>3. \A h \in Generations : h # G(t) => gen'[h] = gen[h]
    BY <1>6, PublishDoes DEF Results, GenMoves
  <2>4. gen'[G(t)].result # "Pending"
    BY <1>6, PublishDoes DEF Results
  <2>5. lifecycle.st # "TerminalFailed"
    BY <1>0, <2>1, <2>2 DEF Referred
  <2> QED
    BY <1>0, <2>1, <2>3, <2>4, <2>5 DEF Referred
<1>7. ASSUME NEW t \in Threads, StopSampler(t) \/ JoinSampler(t) \/ CoreShutdown(t) \/ SinkWrite(t)
      PROVE  Referred'
  BY <1>4, <1>7, StopSamplerDoes, JoinSamplerDoes, CoreShutdownDoes, SinkWriteDoes
  DEF Results, GenMoves
<1>8. ASSUME NEW g \in Generations, SamplerTaskEnds(g) PROVE Referred'
  BY <1>4, <1>8, SamplerTaskDoes DEF GenMoves
<1>9. ASSUME NEW t \in Threads, Disable(t) PROVE Referred'
  BY <1>4, <1>9, DisableDoes
<1>10. ASSUME \A g \in Generations : Unseen(g), lifecycle' = lifecycle PROVE Referred'
  BY <1>4, <1>10 DEF Unseen, SameFinal
<1>11. \/ lifecycle' = lifecycle
       \/ \E t \in Threads : Enable(t) \/ Shutdown(t) \/ Retire(t)
  BY StepLife
<1> QED
  BY <1>1, <1>2, <1>3, <1>5, <1>6, <1>7, <1>8, <1>9, <1>10, <1>11, StepUnseen DEF Finalizes

\* Layer 4 is inductive: finalization runs once and in order.
LEMMA StepFinal ==
    ASSUME Shape, GatesOwned, FinalInv, [Next]_vars
    PROVE  FinalInv'
BY StepStage, StepSettled, StepReferred DEF FinalInv

----------------------------------------------------------------------------
(* The four layers hold from the start, and what follows from them.        *)

\* The layers hold when the controller is built.
LEMMA InitBase == Init => BaseInv
<1> SUFFICES ASSUME Init PROVE BaseInv
  OBVIOUS
<1>1. Shape
  BY InitShape
<1>2. GatesOwned
  BY ControllerAssumption DEF Init, GatesOwned, HoldsGate, Finalizing, Idle, At
<1>3. TokensOwned
  BY DEF Init, TokensOwned, Holder, Idle
<1>4. AdmissionInv
  <2>1. \A g \in Generations : ~(g < lifecycle.next)
    BY ControllerAssumption DEF Init, Generations
  <2> QED
    BY <2>1 DEF Init, AdmissionInv, Finalizing, Idle, At
<1>5. FinalInv
  <2>1. \A g \in Generations : ~(g < lifecycle.next)
    BY ControllerAssumption DEF Init, Generations
  <2>2. Unborn.result = "Pending" /\ Unborn.sampler = "none"
    BY DEF Unborn, NewGeneration
  <2>3. \A g \in Generations : Settled(g)
    BY <2>2 DEF Init, Settled, NewRun
  <2>4. \A t \in Threads : Stage(t)
    BY DEF Init, Stage, Finalizing, Idle
  <2>5. Referred
    BY <2>1 DEF Init, Referred
  <2> QED
    BY <2>3, <2>4, <2>5 DEF FinalInv
<1> QED
  BY <1>1, <1>2, <1>3, <1>4, <1>5 DEF BaseInv

\* No step of any thread breaks a layer.
LEMMA StepBase ==
    ASSUME BaseInv, [Next]_vars
    PROVE  BaseInv'
BY StepShape, StepGates, StepOwners, StepAdmission, StepFinal DEF BaseInv

\* The state keeps its shape, gates and tokens have one owner, admission stops
\* where a generation closes, and finalization runs once.
THEOREM BaseInvariance == Spec => []BaseInv
<1>1. Init => BaseInv
  BY InitBase
<1>2. BaseInv /\ [Next]_vars => BaseInv'
  BY StepBase
<1> QED
  BY <1>1, <1>2, PTL DEF Spec

\* disable() and shutdown() report success only of an artifact that was
\* written and failure only of a failed sink attempt, and there is at most one
\* attempt per generation, however many threads finalize it.
THEOREM ReportsAgreeHolds == Spec => []ReportsAgree
<1>1. BaseInv => ReportsAgree
  BY DEF BaseInv, FinalInv, Settled, ReportsAgree
<1> QED
  BY <1>1, BaseInvariance, PTL

\* The runtime sampler of a generation has ended before its run is sealed,
\* whichever thread finalizes it.
THEOREM SamplerEndsFirstHolds == Spec => []SamplerEndsFirst
<1>1. BaseInv => SamplerEndsFirst
  BY DEF BaseInv, FinalInv, Settled, SamplerEndsFirst
<1> QED
  BY <1>1, BaseInvariance, PTL
=============================================================================

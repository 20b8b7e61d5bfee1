----------------------- MODULE ControllerLedgerProofs -----------------------
(***************************************************************************)
(* The counts of Controller: what a generation handed out, what its core   *)
(* run holds and what is in flight agree, for any threads, requests,       *)
(* limits, templates and number of generations.                            *)
(*                                                                         *)
(* The argument stands on BaseInv (ControllerProofs): a thread between the *)
(* core run's admission and the commit of the slot holds admission_gate,   *)
(* and the gate has one holder.                                            *)
(***************************************************************************)
EXTENDS ControllerProofs

Captured(g) == {r \in Requests : token[r].gen = g}
Committing(g, r) == \E t \in Threads : At(t, "commit") /\ G(t) = g /\ thread[t].req = r

\* What the core run holds is what the controller handed out or is about to.
Held(g) ==
    /\ \A r \in Requests :
           /\ r \in core[g].pending \cup core[g].done \cup core[g].unfinished
                 <=> token[r].gen = g \/ Committing(g, r)
           /\ r \in core[g].pending =>
                 (token[r].gen = g /\ token[r].st = "captured") \/ Committing(g, r)
    /\ core[g].pending \cap core[g].done = {}
    /\ core[g].unfinished \cap core[g].done = {}
    /\ core[g].phase = "Open" => core[g].unfinished = {}
    /\ core[g].phase # "Open" => core[g].pending = {}
Ledger == \A g \in Generations : Held(g)

\* The slots of a generation count the tokens it handed out.
SlotsExact == \A g \in Generations : gen[g].slots = Cardinality(Captured(g))

LedgerInv == BaseInv /\ Ledger /\ SlotsExact

----------------------------------------------------------------------------
(* The controller's slots and the core run's room.                         *)

\* An admission between core run and commit is its request's only handler.
LEMMA CommittingOwned ==
    ASSUME BaseInv, NEW g \in Generations, NEW r \in Requests, Committing(g, r)
    PROVE  /\ token[r].st = "beginning" /\ token[r].gen = NoGen
           /\ \A t \in Threads : Holder(t) /\ thread[t].req = r => At(t, "commit")
           /\ agate[g] \in Threads /\ At(agate[g], "commit")
<1>1. PICK u \in Threads : At(u, "commit") /\ G(u) = g /\ thread[u].req = r
  BY DEF Committing
<1>2. thread[u].op = "begin"
  BY <1>1 DEF BaseInv, Shape, Where, At
<1>3. token[r].st = "beginning" /\ token[r].gen = NoGen
  BY <1>1, <1>2 DEF BaseInv, TokensOwned
<1>4. \A t \in Threads : Holder(t) /\ thread[t].req = r => t = u
  BY <1>1, <1>2 DEF BaseInv, TokensOwned, Holder
<1>5. agate[g] = u
  BY <1>1, <1>2 DEF BaseInv, GatesOwned, HoldsGate, At
<1> QED
  BY <1>1, <1>3, <1>4, <1>5

\* While a thread holds admission_gate and is not committing, the core run of
\* its open generation has room exactly if the generation has a free slot.
LEMMA RoomExact ==
    ASSUME LedgerInv, NEW t \in Threads, HoldsGate(t), ~At(t, "commit"),
           NEW g \in Generations, G(t) = g, core[g].phase = "Open"
    PROVE  HasRoom(core[g]) <=> gen[g].slots < MaxRequests
<1> DEFINE P == core[g].pending
           D == core[g].done
<1>1. Held(g) /\ gen[g].slots = Cardinality(Captured(g)) /\ IsFiniteSet(Requests)
  BY ControllerAssumption DEF LedgerInv, Ledger, SlotsExact
<1>2. P \subseteq Requests /\ D \subseteq Requests
  BY DEF LedgerInv, BaseInv, Shape, TypeInv, CoreType
<1>3. agate[g] = t
  BY DEF LedgerInv, BaseInv, GatesOwned
<1>4. \A r \in Requests : ~Committing(g, r)
  BY <1>3, CommittingOwned DEF LedgerInv
<1>5. \A r \in Requests : r \in P \cup D <=> token[r].gen = g
  BY <1>1, <1>4 DEF Held
<1>6. P \cup D = Captured(g) /\ P \cap D = {}
  BY <1>1, <1>2, <1>5 DEF Captured, Held
<1>c. Cardinality(P \cup D) = Cardinality(Captured(g)) /\ Cardinality(P \cap D) = 0
  BY <1>6, FS_EmptySet, Zenon
<1>7. IsFiniteSet(P) /\ IsFiniteSet(D)
  BY <1>1, <1>2, FS_Subset
<1> HIDE DEF P, D
<1>8. Cardinality(P \cup D) = Cardinality(P) + Cardinality(D) - Cardinality(P \cap D)
  BY <1>7, FS_Union
<1>9. Cardinality({}) = 0 /\ Cardinality(P) \in Nat /\ Cardinality(D) \in Nat
  BY <1>7, FS_EmptySet, FS_CardinalityType
<1>10. gen[g].slots = Cardinality(P) + Cardinality(D)
  BY <1>1, <1>c, <1>8, <1>9
<1> QED
  BY <1>10 DEF HasRoom, P, D

\* A refused admission finds no room in the core run either: the run keeps
\* its evidence.
LEMMA RefuseKeeps ==
    ASSUME LedgerInv, NEW t \in Threads, Refuse(t)
    PROVE  SameEvidence(core'[G(t)], core[G(t)])
<1>1. At(t, "refuse") /\ thread[t].op = "begin" /\ G(t) \in Generations
  BY RefuseDoes DEF LedgerInv, BaseInv
<1>2. HoldsGate(t) /\ ~At(t, "commit")
  BY <1>1 DEF HoldsGate, At
<1>3. gen[G(t)].slots >= MaxRequests /\ gen[G(t)].slots \in Nat /\ MaxRequests \in Nat
  BY <1>1, Numbers DEF LedgerInv, BaseInv, AdmissionInv
<1>4. ~(core[G(t)].phase = "Open" /\ HasRoom(core[G(t)]))
  BY <1>1, <1>2, <1>3, RoomExact
<1> QED
  BY <1>4, RefuseDoes DEF LedgerInv, BaseInv

\* Where the controller admits, the generation accepts and the core run is
\* open and has room.
LEMMA AdmitHasRoom ==
    ASSUME LedgerInv, NEW t \in Threads, At(t, "admit")
    PROVE  G(t) \in Generations /\ gen[G(t)].accepting /\ core[G(t)].phase = "Open"
           /\ HasRoom(core[G(t)])
<1>1. thread[t].op = "begin" /\ G(t) \in Generations /\ G(t) < lifecycle.next
  BY DEF LedgerInv, BaseInv, Shape, Where, At, G
<1>2. gen[G(t)].accepting /\ gen[G(t)].slots < MaxRequests
  BY DEF LedgerInv, BaseInv, AdmissionInv, At
<1>3. core[G(t)].phase = "Open"
  BY <1>1, <1>2 DEF LedgerInv, BaseInv, AdmissionInv, Closed
<1>4. HoldsGate(t) /\ ~At(t, "commit")
  BY <1>1 DEF HoldsGate, At
<1> QED
  BY <1>1, <1>2, <1>3, <1>4, RoomExact

----------------------------------------------------------------------------
(* The ledger is inductive.                                                *)

\* A step that leaves the ledger alone.
OffLedger ==
    /\ \A g \in Generations :
           /\ SameEvidence(core'[g], core[g]) /\ gen'[g].slots = gen[g].slots
           /\ core'[g].phase = "Open" <=> core[g].phase = "Open"
    /\ \A r \in Requests :
           /\ token'[r].gen = token[r].gen
           /\ token[r].st = "captured" => token'[r].st = "captured"
    /\ \A u \in Threads : \/ thread'[u] = thread[u]
                          \/ thread[u].pc # "commit" /\ thread'[u].pc # "commit"

OnLedger(t) ==
    \/ Enable(t) \/ Admit(t) \/ Commit(t) \/ CoreShutdown(t)
    \/ \E r \in Requests : FinishRequest(t, r)

\* Closing, limits and finalization leave the ledger alone, but for the
\* sealing of the run.
LEMMA StepOffLedger ==
    ASSUME LedgerInv, [Next]_vars
    PROVE  OffLedger \/ \E t \in Threads : OnLedger(t)
<1>0. /\ Shape /\ TokensOwned
      /\ \A t \in Threads : Stage(t)
  BY DEF LedgerInv, BaseInv, FinalInv
<1> DEFINE Goal == OffLedger \/ \E t \in Threads : OnLedger(t)
<1>1. ASSUME NEW t \in Threads, Enable(t)
      PROVE  Goal
  BY <1>1 DEF OnLedger
<1>2. ASSUME NEW t \in Threads, NEW tpl \in Templates, Reload(t, tpl)
      PROVE  Goal
  BY <1>2, <1>0
  DEF Reload, OffLedger, TokensOwned, BeforeLeave, Stage, At, Steps, Ends, Enters,
      Returns, OthersRun, TokenTurns, OtherTokens, GenMoves, CoreMoves, SameCounts,
      SamePhase, SameEvidence, Seals, Shows, Results
<1>3. ASSUME NEW t \in Threads, NEW r \in Requests, BeginRequest(t, r)
      PROVE  Goal
  BY <1>3, BeginRequestDoes, <1>0
  DEF OffLedger, TokensOwned, BeforeLeave, Stage, At, Steps, Ends, Enters, Returns,
      OthersRun, TokenTurns, OtherTokens, GenMoves, CoreMoves, SameCounts, SamePhase,
      SameEvidence, Seals, Shows, Results
<1>4. ASSUME NEW t \in Threads, NEW r \in Requests, FinishRequest(t, r)
      PROVE  Goal
  BY <1>4 DEF OnLedger
<1>5. ASSUME NEW t \in Threads, NEW g \in Generations, Overflow(t, g)
      PROVE  Goal
  BY <1>5, OverflowDoes, <1>0
  DEF OffLedger, TokensOwned, BeforeLeave, Stage, At, Steps, Ends, Enters, Returns,
      OthersRun, TokenTurns, OtherTokens, GenMoves, CoreMoves, SameCounts, SamePhase,
      SameEvidence, Seals, Shows, Results
<1>6. ASSUME NEW t \in Threads, Disable(t)
      PROVE  Goal
  BY <1>6, DisableDoes, <1>0
  DEF OffLedger, TokensOwned, BeforeLeave, Stage, At, Steps, Ends, Enters, Returns,
      OthersRun, TokenTurns, OtherTokens, GenMoves, CoreMoves, SameCounts, SamePhase,
      SameEvidence, Seals, Shows, Results
<1>7. ASSUME NEW t \in Threads, Shutdown(t)
      PROVE  Goal
  BY <1>7, ShutdownDoes, <1>0
  DEF OffLedger, TokensOwned, BeforeLeave, Stage, At, Steps, Ends, Enters, Returns,
      OthersRun, TokenTurns, OtherTokens, GenMoves, CoreMoves, SameCounts, SamePhase,
      SameEvidence, Seals, Shows, Results
<1>8. ASSUME NEW t \in Threads, BeginGate(t)
      PROVE  Goal
  BY <1>8, BeginGateDoes, <1>0
  DEF OffLedger, TokensOwned, BeforeLeave, Stage, At, Steps, Ends, Enters, Returns,
      OthersRun, TokenTurns, OtherTokens, GenMoves, CoreMoves, SameCounts, SamePhase,
      SameEvidence, Seals, Shows, Results
<1>9. ASSUME NEW t \in Threads, Refuse(t)
      PROVE  Goal
  BY <1>9, RefuseDoes, <1>0, RefuseKeeps
  DEF OffLedger, TokensOwned, BeforeLeave, Stage, At, Steps, Ends, Enters, Returns,
      OthersRun, TokenTurns, OtherTokens, GenMoves, CoreMoves, SameCounts, SamePhase,
      SameEvidence, Seals, Shows, Results
<1>10. ASSUME NEW t \in Threads, Admit(t)
      PROVE  Goal
  BY <1>10 DEF OnLedger
<1>11. ASSUME NEW t \in Threads, Commit(t)
      PROVE  Goal
  BY <1>11 DEF OnLedger
<1>12. ASSUME NEW t \in Threads, MarkFinished(t)
      PROVE  Goal
  BY <1>12, MarkFinishedDoes, <1>0
  DEF OffLedger, TokensOwned, BeforeLeave, Stage, At, Steps, Ends, Enters, Returns,
      OthersRun, TokenTurns, OtherTokens, GenMoves, CoreMoves, SameCounts, SamePhase,
      SameEvidence, Seals, Shows, Results
<1>13. ASSUME NEW t \in Threads, LeaveGeneration(t)
      PROVE  Goal
  BY <1>13, LeaveDoes, <1>0
  DEF OffLedger, TokensOwned, BeforeLeave, Stage, At, Steps, Ends, Enters, Returns,
      OthersRun, TokenTurns, OtherTokens, GenMoves, CoreMoves, SameCounts, SamePhase,
      SameEvidence, Seals, Shows, Results
<1>14. ASSUME NEW t \in Threads, CheckClosing(t)
      PROVE  Goal
  BY <1>14, CheckClosingDoes, <1>0
  DEF OffLedger, TokensOwned, BeforeLeave, Stage, At, Steps, Ends, Enters, Returns,
      OthersRun, TokenTurns, OtherTokens, GenMoves, CoreMoves, SameCounts, SamePhase,
      SameEvidence, Seals, Shows, Results
<1>15. ASSUME NEW t \in Threads, OnLimitsHitSignal(t)
      PROVE  Goal
  BY <1>15, SignalDoes, <1>0
  DEF OffLedger, TokensOwned, BeforeLeave, Stage, At, Steps, Ends, Enters, Returns,
      OthersRun, TokenTurns, OtherTokens, GenMoves, CoreMoves, SameCounts, SamePhase,
      SameEvidence, Seals, Shows, Results
<1>16. ASSUME NEW t \in Threads, LoadInflight(t)
      PROVE  Goal
  BY <1>16, LoadInflightDoes, <1>0
  DEF OffLedger, TokensOwned, BeforeLeave, Stage, At, Steps, Ends, Enters, Returns,
      OthersRun, TokenTurns, OtherTokens, GenMoves, CoreMoves, SameCounts, SamePhase,
      SameEvidence, Seals, Shows, Results
<1>17. ASSUME NEW t \in Threads, CloseAdmissions(t)
      PROVE  Goal
  BY <1>17, CloseAdmissionsDoes, <1>0
  DEF OffLedger, TokensOwned, BeforeLeave, Stage, At, Steps, Ends, Enters, Returns,
      OthersRun, TokenTurns, OtherTokens, GenMoves, CoreMoves, SameCounts, SamePhase,
      SameEvidence, Seals, Shows, Results
<1>18. ASSUME NEW t \in Threads, CloseLoad(t)
      PROVE  Goal
  BY <1>18, CloseLoadDoes, <1>0
  DEF OffLedger, TokensOwned, BeforeLeave, Stage, At, Steps, Ends, Enters, Returns,
      OthersRun, TokenTurns, OtherTokens, GenMoves, CoreMoves, SameCounts, SamePhase,
      SameEvidence, Seals, Shows, Results
<1>19. ASSUME NEW t \in Threads, CloseUnlock(t)
      PROVE  Goal
  BY <1>19, CloseUnlockDoes, <1>0
  DEF OffLedger, TokensOwned, BeforeLeave, Stage, At, Steps, Ends, Enters, Returns,
      OthersRun, TokenTurns, OtherTokens, GenMoves, CoreMoves, SameCounts, SamePhase,
      SameEvidence, Seals, Shows, Results
<1>20. ASSUME NEW t \in Threads, FinalizeGate(t)
      PROVE  Goal
  BY <1>20, FinalizeGateDoes, <1>0
  DEF OffLedger, TokensOwned, BeforeLeave, Stage, At, Steps, Ends, Enters, Returns,
      OthersRun, TokenTurns, OtherTokens, GenMoves, CoreMoves, SameCounts, SamePhase,
      SameEvidence, Seals, Shows, Results
<1>21. ASSUME NEW t \in Threads, StopSampler(t)
      PROVE  Goal
  BY <1>21, StopSamplerDoes, <1>0
  DEF OffLedger, TokensOwned, BeforeLeave, Stage, At, Steps, Ends, Enters, Returns,
      OthersRun, TokenTurns, OtherTokens, GenMoves, CoreMoves, SameCounts, SamePhase,
      SameEvidence, Seals, Shows, Results
<1>22. ASSUME NEW t \in Threads, JoinSampler(t)
      PROVE  Goal
  BY <1>22, JoinSamplerDoes, <1>0
  DEF OffLedger, TokensOwned, BeforeLeave, Stage, At, Steps, Ends, Enters, Returns,
      OthersRun, TokenTurns, OtherTokens, GenMoves, CoreMoves, SameCounts, SamePhase,
      SameEvidence, Seals, Shows, Results
<1>23. ASSUME NEW t \in Threads, CoreShutdown(t)
      PROVE  Goal
  BY <1>23 DEF OnLedger
<1>24. ASSUME NEW t \in Threads, SinkWrite(t)
      PROVE  Goal
  BY <1>24, SinkWriteDoes, <1>0
  DEF OffLedger, TokensOwned, BeforeLeave, Stage, At, Steps, Ends, Enters, Returns,
      OthersRun, TokenTurns, OtherTokens, GenMoves, CoreMoves, SameCounts, SamePhase,
      SameEvidence, Seals, Shows, Results
<1>25. ASSUME NEW t \in Threads, PublishResult(t)
      PROVE  Goal
  BY <1>25, PublishDoes, <1>0
  DEF OffLedger, TokensOwned, BeforeLeave, Stage, At, Steps, Ends, Enters, Returns,
      OthersRun, TokenTurns, OtherTokens, GenMoves, CoreMoves, SameCounts, SamePhase,
      SameEvidence, Seals, Shows, Results
<1>26. ASSUME NEW t \in Threads, Retire(t)
      PROVE  Goal
  BY <1>26, RetireDoes, <1>0
  DEF OffLedger, TokensOwned, BeforeLeave, Stage, At, Steps, Ends, Enters, Returns,
      OthersRun, TokenTurns, OtherTokens, GenMoves, CoreMoves, SameCounts, SamePhase,
      SameEvidence, Seals, Shows, Results
<1>27. ASSUME NEW g \in Generations, DrainStore(g)
      PROVE  Goal
  BY <1>27, DrainStoreDoes, <1>0
  DEF OffLedger, TokensOwned, BeforeLeave, Stage, At, Steps, Ends, Enters, Returns,
      OthersRun, TokenTurns, OtherTokens, GenMoves, CoreMoves, SameCounts, SamePhase,
      SameEvidence, Seals, Shows, Results
<1>28. ASSUME NEW g \in Generations, SamplerTaskEnds(g)
      PROVE  Goal
  BY <1>28, SamplerTaskDoes, <1>0
  DEF OffLedger, TokensOwned, BeforeLeave, Stage, At, Steps, Ends, Enters, Returns,
      OthersRun, TokenTurns, OtherTokens, GenMoves, CoreMoves, SameCounts, SamePhase,
      SameEvidence, Seals, Shows, Results
<1>29. CASE UNCHANGED vars
  BY <1>29, <1>0
  DEF vars, OffLedger, TokensOwned, BeforeLeave, Stage, At, Steps, Ends, Enters,
      Returns, OthersRun, TokenTurns, OtherTokens, GenMoves, CoreMoves, SameCounts,
      SamePhase, SameEvidence, Seals, Shows, Results
<1> QED
  BY <1>1, <1>2, <1>3, <1>4, <1>5, <1>6, <1>7, <1>8, <1>9, <1>10, <1>11, <1>12, <1>13,
     <1>14, <1>15, <1>16, <1>17, <1>18, <1>19, <1>20, <1>21, <1>22, <1>23, <1>24, <1>25,
     <1>26, <1>27, <1>28, <1>29
  DEF Next, Operation, Continue, Background

\* A thread that is committing before and after a step is the same admission.
LEMMA CommittingSame ==
    ASSUME \A u \in Threads : \/ thread'[u] = thread[u]
                              \/ thread[u].pc # "commit" /\ thread'[u].pc # "commit"
    PROVE  \A g, r : Committing(g, r)' <=> Committing(g, r)
BY DEF Committing, At, G

\* A step off the ledger moves no token, slot or core evidence.
LEMMA LedgerKept ==
    ASSUME LedgerInv, OffLedger
    PROVE  Ledger' /\ SlotsExact'
<1>1. ASSUME NEW g \in Generations PROVE Held(g)'
  <2>1. Held(g)
    BY <1>1 DEF LedgerInv, Ledger
  <2>2. \A r \in Requests : Committing(g, r)' <=> Committing(g, r)
    BY CommittingSame DEF OffLedger
  <2> QED
    BY <2>1, <2>2 DEF Held, OffLedger, SameEvidence
<1>2. ASSUME NEW g \in Generations PROVE gen'[g].slots = Cardinality(Captured(g)')
  <2>1. Captured(g)' = Captured(g)
    BY DEF OffLedger, Captured
  <2> QED
    BY <2>1 DEF OffLedger, LedgerInv, SlotsExact
<1> QED
  BY <1>1, <1>2 DEF Ledger, SlotsExact

\* A new generation starts with an empty ledger: no token refers to it.
LEMMA EnableLedger ==
    ASSUME LedgerInv, NEW t \in Threads, Enable(t)
    PROVE  Ledger' /\ SlotsExact'
<1> DEFINE n == lifecycle.next
<1>1. /\ n \in Generations /\ thread' = thread /\ token' = token
      /\ gen'[n].slots = 0 /\ core'[n] = NewRun
      /\ \A h \in Generations \ {n} : gen'[h] = gen[h] /\ core'[h] = core[h]
  BY EnableDoes DEF LedgerInv, BaseInv, GenMoves, CoreMoves
<1>2. \A r \in Requests : token[r].gen # n
  BY Numbers DEF LedgerInv, BaseInv, Shape, Born
<1>3. \A u \in Threads : At(u, "idle") \/ G(u) # n
  BY Numbers DEF LedgerInv, BaseInv
<1>4. \A g, r : Committing(g, r)' <=> Committing(g, r)
  BY <1>1, CommittingSame
<1>5. \A r \in Requests : ~Committing(n, r)
  BY <1>3 DEF Committing, At
<1>6. ASSUME NEW g \in Generations PROVE Held(g)' /\ gen'[g].slots = Cardinality(Captured(g)')
  <2>1. Captured(g)' = Captured(g)
    BY <1>1 DEF Captured
  <2>2. CASE g = n
    <3>1. Captured(g) = {}
      BY <1>2, <2>2 DEF Captured
    <3>2. gen'[g].slots = Cardinality(Captured(g)')
      BY <1>1, <2>1, <2>2, <3>1, FS_EmptySet
    <3>3. Held(g)'
      BY <1>1, <1>2, <1>4, <1>5, <2>2 DEF Held, NewRun
    <3> QED
      BY <3>2, <3>3
  <2>3. CASE g # n
    <3>1. Held(g) /\ gen[g].slots = Cardinality(Captured(g))
      BY DEF LedgerInv, Ledger, SlotsExact
    <3> QED
      BY <1>1, <1>4, <2>1, <2>3, <3>1 DEF Held
  <2> QED
    BY <2>2, <2>3
<1> QED
  BY <1>6 DEF Ledger, SlotsExact

\* The core run admits a request: it is pending before its token is handed out.
LEMMA AdmitLedger ==
    ASSUME LedgerInv, NEW t \in Threads, Admit(t)
    PROVE  Ledger' /\ SlotsExact'
<1> DEFINE g == G(t)
           r == thread[t].req
<1>1. /\ At(t, "admit") /\ thread[t].op = "begin" /\ g \in Generations /\ r \in Requests
      /\ Steps(t, "commit") /\ gen' = gen /\ token' = token
      /\ \A h \in Generations \ {g} : core'[h] = core[h]
  BY AdmitDoes DEF LedgerInv, BaseInv, CoreMoves
<1>2. core[g].phase = "Open" /\ HasRoom(core[g])
  BY <1>1, AdmitHasRoom
<1>3. /\ core'[g].pending = core[g].pending \cup {r} /\ core'[g].done = core[g].done
      /\ core'[g].unfinished = core[g].unfinished /\ core'[g].phase = core[g].phase
  BY <1>1, <1>2, AdmitDoes DEF LedgerInv, BaseInv, SamePhase
<1>4. token[r].st = "beginning" /\ token[r].gen = NoGen /\ NoGen \notin Generations
  BY <1>1, ControllerAssumption DEF LedgerInv, BaseInv, TokensOwned, Generations, NoGen
<1>5. \A h \in Generations, q \in Requests :
          Committing(h, q)' <=> Committing(h, q) \/ (h = g /\ q = r)
  BY <1>1 DEF Committing, At, G, Steps, OthersRun
<1>6. \A h \in Generations : ~Committing(h, r)
  BY <1>1, CommittingOwned DEF LedgerInv, Holder, At
<1>7. ASSUME NEW h \in Generations PROVE Held(h)' /\ gen'[h].slots = Cardinality(Captured(h)')
  <2>1. Captured(h)' = Captured(h)
    BY <1>1 DEF Captured
  <2>2. Held(h) /\ gen[h].slots = Cardinality(Captured(h))
    BY DEF LedgerInv, Ledger, SlotsExact
  <2>3. CASE h = g
    <3>1. r \notin core[g].done
      BY <1>1, <1>4, <1>6, <2>2, <2>3 DEF Held
    <3> QED
      BY <1>1, <1>2, <1>3, <1>5, <2>1, <2>2, <2>3, <3>1 DEF Held
  <2>4. CASE h # g
    BY <1>1, <1>5, <2>1, <2>2, <2>4 DEF Held
  <2> QED
    BY <2>3, <2>4
<1> QED
  BY <1>7 DEF Ledger, SlotsExact

\* The commit hands the token out and takes the slot.
LEMMA CommitLedger ==
    ASSUME LedgerInv, NEW t \in Threads, Commit(t)
    PROVE  Ledger' /\ SlotsExact'
<1> DEFINE g == G(t)
           r == thread[t].req
<1>1. /\ At(t, "commit") /\ thread[t].op = "begin" /\ g \in Generations /\ r \in Requests
      /\ Ends(t) /\ core' = core /\ gen'[g].slots = gen[g].slots + 1
      /\ \A h \in Generations \ {g} : gen'[h] = gen[h]
      /\ \A q \in Requests \ {r} : token'[q] = token[q]
      /\ token'[r].st = "captured" /\ token'[r].gen = g
  BY CommitDoes DEF LedgerInv, BaseInv, GenMoves, OtherTokens
<1>2. Committing(g, r)
  BY <1>1 DEF Committing
<1>3. token[r].gen = NoGen /\ NoGen \notin Generations
  BY <1>1, <1>2, CommittingOwned, ControllerAssumption DEF LedgerInv, Generations, NoGen
<1>4. \A h \in Generations, q \in Requests :
          Committing(h, q)' <=> Committing(h, q) /\ ~(h = g /\ q = r)
  <2>1. \A u \in Threads \ {t} : thread[u].pc = "commit" => thread[u].req # r
    BY <1>1 DEF LedgerInv, BaseInv, TokensOwned, Holder, Shape, Where, At
  <2> QED
    BY <1>1, <2>1 DEF Committing, At, G, Ends, OthersRun
<1>5. \A h \in Generations : Committing(h, r) => h = g
  <2>1. \A u \in Threads \ {t} : thread[u].pc = "commit" => thread[u].req # r
    BY <1>1 DEF LedgerInv, BaseInv, TokensOwned, Holder, Shape, Where, At
  <2> QED
    BY <2>1 DEF Committing, At
<1>6. ASSUME NEW h \in Generations PROVE Held(h)'
  <2>1. Held(h)
    BY DEF LedgerInv, Ledger
  <2>2. ASSUME NEW q \in Requests
        PROVE  /\ token'[q].gen = h \/ Committing(h, q)' <=> token[q].gen = h \/ Committing(h, q)
               /\ (token[q].gen = h /\ token[q].st = "captured") \/ Committing(h, q)
                     => (token'[q].gen = h /\ token'[q].st = "captured") \/ Committing(h, q)'
    <3>1. CASE q = r
      BY <1>1, <1>2, <1>3, <1>4, <1>5, <3>1
    <3>2. CASE q # r
      BY <1>1, <1>4, <3>2
    <3> QED
      BY <3>1, <3>2
  <2> QED
    BY <1>1, <2>1, <2>2 DEF Held
<1>7. ASSUME NEW h \in Generations PROVE gen'[h].slots = Cardinality(Captured(h)')
  <2>1. gen[h].slots = Cardinality(Captured(h))
    BY DEF LedgerInv, SlotsExact
  <2>2. CASE h # g
    <3>1. Captured(h)' = Captured(h)
      BY <1>1, <1>3, <2>2 DEF Captured
    <3> QED
      BY <1>1, <2>1, <2>2, <3>1
  <2>3. CASE h = g
    <3>1. Captured(h)' = Captured(h) \cup {r} /\ r \notin Captured(h)
      BY <1>1, <1>3, <2>3 DEF Captured
    <3>2. IsFiniteSet(Captured(h))
      BY ControllerAssumption, FS_Subset DEF Captured
    <3>3. Cardinality(Captured(h) \cup {r}) = Cardinality(Captured(h)) + 1
      BY <3>1, <3>2, FS_AddElement
    <3> QED
      BY <1>1, <2>1, <2>3, <3>1, <3>3
  <2> QED
    BY <2>2, <2>3
<1> QED
  BY <1>6, <1>7 DEF Ledger, SlotsExact

\* A completion moves its request from pending to done, or comes too late.
LEMMA FinishLedger ==
    ASSUME LedgerInv, NEW t \in Threads, NEW r \in Requests, FinishRequest(t, r)
    PROVE  Ledger' /\ SlotsExact'
<1> DEFINE g == token[r].gen
<1>1. /\ At(t, "idle") /\ token[r].st = "captured" /\ g \in Generations /\ gen' = gen
      /\ Enters(t, "finish", g, r, "mark") /\ TokenTurns(r, "finishing")
      /\ \A h \in Generations \ {g} : core'[h] = core[h]
      /\ core'[g].phase = core[g].phase /\ core'[g].unfinished = core[g].unfinished
      /\ core[g].phase = "Open" /\ r \in core[g].pending =>
            /\ core'[g].pending = core[g].pending \ {r}
            /\ core'[g].done = core[g].done \cup {r}
      /\ ~(core[g].phase = "Open" /\ r \in core[g].pending) =>
            core'[g].pending = core[g].pending /\ core'[g].done = core[g].done
  BY FinishRequestDoes DEF LedgerInv, BaseInv, CoreMoves, SamePhase, SameEvidence
<1>2. \A h \in Generations, q \in Requests : Committing(h, q)' <=> Committing(h, q)
  BY <1>1, CommittingSame DEF Enters, OthersRun, At
<1>3. \A h \in Generations : ~Committing(h, r)
  BY <1>1, CommittingOwned DEF LedgerInv
<1>4. \A q \in Requests : /\ token'[q].gen = token[q].gen
                          /\ q # r => token'[q].st = token[q].st
  BY <1>1 DEF TokenTurns, OtherTokens
<1>5. ASSUME NEW h \in Generations PROVE Held(h)'
  <2>1. Held(h)
    BY DEF LedgerInv, Ledger
  <2>2. CASE h # g
    <3>1. r \notin core[h].pending
      BY <1>3, <2>1, <2>2 DEF Held
    <3> QED
      BY <1>1, <1>2, <1>4, <2>1, <2>2, <3>1 DEF Held
  <2>3. CASE h = g /\ core[g].phase = "Open" /\ r \in core[g].pending
    <3>1. r \notin core[h].unfinished /\ core'[h].unfinished = core[h].unfinished
      BY <1>1, <2>1, <2>3 DEF Held
    <3>2. core'[h].pending = core[h].pending \ {r} /\ core'[h].done = core[h].done \cup {r}
      BY <1>1, <2>3
    <3> QED
      BY <1>1, <1>2, <1>4, <2>1, <2>3, <3>1, <3>2 DEF Held
  <2>4. CASE h = g /\ ~(core[g].phase = "Open" /\ r \in core[g].pending)
    <3>1. r \notin core[h].pending
      BY <2>1, <2>4 DEF Held
    <3>2. core'[h].pending = core[h].pending /\ core'[h].done = core[h].done
      BY <1>1, <2>4
    <3> QED
      BY <1>1, <1>2, <1>4, <2>1, <2>4, <3>1, <3>2 DEF Held
  <2> QED
    BY <2>2, <2>3, <2>4
<1>6. ASSUME NEW h \in Generations PROVE gen'[h].slots = Cardinality(Captured(h)')
  <2>1. Captured(h)' = Captured(h)
    BY <1>4 DEF Captured
  <2> QED
    BY <1>1, <2>1 DEF LedgerInv, SlotsExact
<1> QED
  BY <1>5, <1>6 DEF Ledger, SlotsExact

\* Sealing the run turns the pending requests into unfinished ones.
LEMMA ShutdownLedger ==
    ASSUME LedgerInv, NEW t \in Threads, CoreShutdown(t)
    PROVE  Ledger' /\ SlotsExact'
<1> DEFINE g == G(t)
<1>1. /\ At(t, "core_shutdown") /\ g \in Generations /\ core[g].phase = "Open"
      /\ \A h \in Generations : gen'[h].slots = gen[h].slots
      /\ \A h \in Generations \ {g} : core'[h] = core[h]
      /\ \/ core' = core
         \/ /\ core'[g].phase = "Finalizing"
            /\ core'[g].unfinished = core[g].pending /\ core'[g].pending = {}
            /\ core'[g].done = core[g].done
  BY CoreShutdownDoes DEF LedgerInv, BaseInv, CoreMoves, GenMoves, Results, SameCounts
<1>2. \A h \in Generations, q \in Requests : Committing(h, q)' <=> Committing(h, q)
  BY <1>1, CoreShutdownDoes, CommittingSame
  DEF LedgerInv, BaseInv, Returns, Ends, Steps, OthersRun, At
<1>3. \A q \in Requests : /\ token'[q].gen = token[q].gen
                          /\ token[q].st = "captured" => token'[q].st = "captured"
  BY CoreShutdownDoes DEF LedgerInv, BaseInv, TokensOwned, Returns, TokenTurns, OtherTokens
<1>4. ASSUME NEW h \in Generations PROVE Held(h)'
  <2>1. Held(h)
    BY DEF LedgerInv, Ledger
  <2>2. CASE core'[h] = core[h]
    BY <1>2, <1>3, <2>1, <2>2 DEF Held
  <2>3. CASE /\ h = g /\ core'[g].phase = "Finalizing"
             /\ core'[g].unfinished = core[g].pending /\ core'[g].pending = {}
             /\ core'[g].done = core[g].done
    BY <1>1, <1>2, <1>3, <2>1, <2>3 DEF Held
  <2> QED
    BY <1>1, <2>2, <2>3
<1>5. ASSUME NEW h \in Generations PROVE gen'[h].slots = Cardinality(Captured(h)')
  <2>1. Captured(h)' = Captured(h)
    BY <1>3 DEF Captured
  <2> QED
    BY <1>1, <2>1 DEF LedgerInv, SlotsExact
<1> QED
  BY <1>4, <1>5 DEF Ledger, SlotsExact

\* The ledger holds at every step.
LEMMA StepLedger ==
    ASSUME LedgerInv, [Next]_vars
    PROVE  LedgerInv'
<1>1. BaseInv'
  BY StepBase DEF LedgerInv
<1>2. Ledger' /\ SlotsExact'
  BY StepOffLedger, LedgerKept, EnableLedger, AdmitLedger, CommitLedger, FinishLedger, ShutdownLedger
  DEF OnLedger
<1> QED
  BY <1>1, <1>2 DEF LedgerInv

\* A new controller holds no tokens and no slots.
LEMMA InitLedger == Init => LedgerInv
<1> SUFFICES ASSUME Init PROVE LedgerInv
  OBVIOUS
<1>1. \A g \in Generations : Captured(g) = {}
  BY ControllerAssumption DEF Init, Captured, Generations, NoGen
<1>2. \A g \in Generations, r \in Requests : ~Committing(g, r)
  BY DEF Init, Committing, Idle, At
<1>3. Unborn.slots = 0
  BY DEF Unborn, NewGeneration
<1>4. SlotsExact
  BY <1>1, <1>3, FS_EmptySet DEF Init, SlotsExact
<1>5. \A g \in Generations, r \in Requests : token[r].gen # g
  BY ControllerAssumption DEF Init, Generations, NoGen
<1>6. Ledger
  BY <1>2, <1>5 DEF Init, Ledger, Held, NewRun
<1> QED
  BY <1>4, <1>6, InitBase DEF LedgerInv

\* What the controller handed out and what the core runs hold agree.
THEOREM LedgerInvariance == Spec => []LedgerInv
<1>1. LedgerInv /\ [Next]_vars => LedgerInv'
  BY StepLedger
<1> QED
  BY <1>1, InitLedger, PTL DEF Spec

\* Where the controller goes to the core run to admit, the generation still
\* accepts, the run is open and has room: admission slots and core capacity
\* never disagree, whatever other threads close, seal or complete.
THEOREM AdmissionAgreesHolds == Spec => []AdmissionAgrees
<1>1. LedgerInv => AdmissionAgrees
  BY AdmitHasRoom DEF AdmissionAgrees
<1> QED
  BY <1>1, LedgerInvariance, PTL

----------------------------------------------------------------------------
(* The in-flight count.                                                    *)

InFlight(g) == {r \in Requests : token[r].gen = g /\ token[r].st \in {"captured", "finishing"}}

\* Unsigned counts are never taken below zero.
CountsNat ==
    /\ \A g \in Generations : gen[g].inflight >= 0
    /\ \A t \in Threads : thread[t].n >= 0

\* A thread that closed the generation, saw nothing in flight and has not
\* sealed the run yet.
SawDrained(t) ==
    /\ thread[t].op \in {"disable", "overflow", "begin"}
    /\ \/ thread[t].pc \in {"finalize", "stop_sampler", "join_sampler", "core_shutdown"}
       \/ thread[t].pc = "close_unlock" /\ thread[t].op # "begin" /\ thread[t].n = 0

StaysDrained == \A t \in Threads : SawDrained(t) => gen[G(t)].inflight = 0

CountInv == LedgerInv /\ InflightExact /\ CountsNat /\ StaysDrained

\* A generation that nobody refers to is not found again: only the lifecycle
\* and a thread that already holds the Arc pass it on.
LEMMA StepAlive ==
    ASSUME BaseInv, [Next]_vars, NEW g \in Generations, Alive(g)'
    PROVE  Alive(g) \/ g = lifecycle.next
<1>0. Shape
  BY DEF BaseInv
<1>h. (lifecycle'.gen = g) \/ \E u \in Threads : /\ thread'[u].gen = g
                                                 /\ thread'[u].pc # "idle" /\ thread'[u].pc # "mark"
                                                 /\ ~(thread'[u].pc = "callback" /\ thread'[u].op = "overflow")
  BY DEF Alive, HoldsArc, At, G
<1>s. \A u \in Threads : HoldsArc(u, g) => Alive(g)
  BY DEF Alive
<1>l. lifecycle.gen = g => Alive(g)
  BY DEF Alive
<1>m. \A u \in Threads : /\ thread[u].gen = g
                         /\ thread[u].pc # "idle" /\ thread[u].pc # "mark"
                         /\ ~(thread[u].pc = "callback" /\ thread[u].op = "overflow")
                         => Alive(g)
  BY <1>s DEF HoldsArc, At, G
<1>z. NoGen # g
  BY ControllerAssumption DEF Generations, NoGen
<1> DEFINE Goal == Alive(g) \/ g = lifecycle.next
<1>1. ASSUME NEW t \in Threads, Enable(t)
      PROVE  Goal
  BY <1>1, EnableDoes, <1>0, <1>h, <1>l, <1>m
  DEF At, G, Steps, Ends, Enters, Returns, OthersRun
<1>2. ASSUME NEW t \in Threads, NEW tpl \in Templates, Reload(t, tpl)
      PROVE  Goal
  BY <1>2, <1>0, <1>h, <1>l, <1>m
  DEF Reload, At, G, Steps, Ends, Enters, Returns, OthersRun
<1>3. ASSUME NEW t \in Threads, NEW r \in Requests, BeginRequest(t, r)
      PROVE  Goal
  BY <1>3, BeginRequestDoes, <1>0, <1>h, <1>l, <1>m
  DEF At, G, Steps, Ends, Enters, Returns, OthersRun
<1>4. ASSUME NEW t \in Threads, NEW r \in Requests, FinishRequest(t, r)
      PROVE  Goal
  BY <1>4, FinishRequestDoes, <1>0, <1>h, <1>l, <1>m
  DEF At, G, Steps, Ends, Enters, Returns, OthersRun
<1>5. ASSUME NEW t \in Threads, NEW h \in Generations, Overflow(t, h)
      PROVE  Goal
  BY <1>5, OverflowDoes, <1>0, <1>h, <1>l, <1>m
  DEF At, G, Steps, Ends, Enters, Returns, OthersRun
<1>6. ASSUME NEW t \in Threads, Disable(t)
      PROVE  Goal
  BY <1>6, DisableDoes, <1>0, <1>h, <1>l, <1>m
  DEF At, G, Steps, Ends, Enters, Returns, OthersRun
<1>7. ASSUME NEW t \in Threads, Shutdown(t)
      PROVE  Goal
  BY <1>7, ShutdownDoes, <1>0, <1>h, <1>l, <1>m
  DEF At, G, Steps, Ends, Enters, Returns, OthersRun
<1>8. ASSUME NEW t \in Threads, BeginGate(t)
      PROVE  Goal
  BY <1>8, BeginGateDoes, <1>0, <1>h, <1>l, <1>m
  DEF At, G, Steps, Ends, Enters, Returns, OthersRun
<1>9. ASSUME NEW t \in Threads, Refuse(t)
      PROVE  Goal
  BY <1>9, RefuseDoes, <1>0, <1>h, <1>l, <1>m
  DEF At, G, Steps, Ends, Enters, Returns, OthersRun
<1>10. ASSUME NEW t \in Threads, Admit(t)
      PROVE  Goal
  BY <1>10, AdmitDoes, <1>0, <1>h, <1>l, <1>m
  DEF At, G, Steps, Ends, Enters, Returns, OthersRun
<1>11. ASSUME NEW t \in Threads, Commit(t)
      PROVE  Goal
  BY <1>11, CommitDoes, <1>0, <1>h, <1>l, <1>m
  DEF At, G, Steps, Ends, Enters, Returns, OthersRun
<1>12. ASSUME NEW t \in Threads, MarkFinished(t)
      PROVE  Goal
  BY <1>12, MarkFinishedDoes, <1>0, <1>h, <1>l, <1>m
  DEF At, G, Steps, Ends, Enters, Returns, OthersRun
<1>13. ASSUME NEW t \in Threads, LeaveGeneration(t)
      PROVE  Goal
  BY <1>13, LeaveDoes, <1>0, <1>h, <1>l, <1>m
  DEF At, G, Steps, Ends, Enters, Returns, OthersRun
<1>14. ASSUME NEW t \in Threads, CheckClosing(t)
      PROVE  Goal
  BY <1>14, CheckClosingDoes, <1>0, <1>h, <1>l, <1>m
  DEF At, G, Steps, Ends, Enters, Returns, OthersRun
<1>15. ASSUME NEW t \in Threads, OnLimitsHitSignal(t)
      PROVE  Goal
  BY <1>15, SignalDoes, <1>0, <1>h, <1>l, <1>m
  DEF At, G, Steps, Ends, Enters, Returns, OthersRun
<1>16. ASSUME NEW t \in Threads, LoadInflight(t)
      PROVE  Goal
  BY <1>16, LoadInflightDoes, <1>0, <1>h, <1>l, <1>m
  DEF At, G, Steps, Ends, Enters, Returns, OthersRun
<1>17. ASSUME NEW t \in Threads, CloseAdmissions(t)
      PROVE  Goal
  BY <1>17, CloseAdmissionsDoes, <1>0, <1>h, <1>l, <1>m
  DEF At, G, Steps, Ends, Enters, Returns, OthersRun
<1>18. ASSUME NEW t \in Threads, CloseLoad(t)
      PROVE  Goal
  BY <1>18, CloseLoadDoes, <1>0, <1>h, <1>l, <1>m
  DEF At, G, Steps, Ends, Enters, Returns, OthersRun
<1>19. ASSUME NEW t \in Threads, CloseUnlock(t)
      PROVE  Goal
  BY <1>19, CloseUnlockDoes, <1>0, <1>h, <1>l, <1>m
  DEF At, G, Steps, Ends, Enters, Returns, OthersRun
<1>20. ASSUME NEW t \in Threads, FinalizeGate(t)
      PROVE  Goal
  BY <1>20, FinalizeGateDoes, <1>0, <1>h, <1>l, <1>m
  DEF At, G, Steps, Ends, Enters, Returns, OthersRun
<1>21. ASSUME NEW t \in Threads, StopSampler(t)
      PROVE  Goal
  BY <1>21, StopSamplerDoes, <1>0, <1>h, <1>l, <1>m
  DEF At, G, Steps, Ends, Enters, Returns, OthersRun
<1>22. ASSUME NEW t \in Threads, JoinSampler(t)
      PROVE  Goal
  BY <1>22, JoinSamplerDoes, <1>0, <1>h, <1>l, <1>m
  DEF At, G, Steps, Ends, Enters, Returns, OthersRun
<1>23. ASSUME NEW t \in Threads, CoreShutdown(t)
      PROVE  Goal
  BY <1>23, CoreShutdownDoes, <1>0, <1>h, <1>l, <1>m
  DEF At, G, Steps, Ends, Enters, Returns, OthersRun
<1>24. ASSUME NEW t \in Threads, SinkWrite(t)
      PROVE  Goal
  BY <1>24, SinkWriteDoes, <1>0, <1>h, <1>l, <1>m
  DEF At, G, Steps, Ends, Enters, Returns, OthersRun
<1>25. ASSUME NEW t \in Threads, PublishResult(t)
      PROVE  Goal
  BY <1>25, PublishDoes, <1>0, <1>h, <1>l, <1>m
  DEF At, G, Steps, Ends, Enters, Returns, OthersRun
<1>26. ASSUME NEW t \in Threads, Retire(t)
      PROVE  Goal
  BY <1>26, RetireDoes, <1>0, <1>h, <1>l, <1>m, <1>z
  DEF At, G, Steps, Ends, Enters, Returns, OthersRun
<1>27. ASSUME NEW h \in Generations, DrainStore(h)
      PROVE  Goal
  BY <1>27, DrainStoreDoes, <1>0, <1>h, <1>l, <1>m
  DEF At, G, Steps, Ends, Enters, Returns, OthersRun
<1>28. ASSUME NEW h \in Generations, SamplerTaskEnds(h)
      PROVE  Goal
  BY <1>28, SamplerTaskDoes, <1>0, <1>h, <1>l, <1>m
  DEF At, G, Steps, Ends, Enters, Returns, OthersRun
<1>29. CASE UNCHANGED vars
  BY <1>29, <1>0, <1>h, <1>l, <1>m
  DEF vars, At, G, Steps, Ends, Enters, Returns, OthersRun
<1> QED
  BY <1>1, <1>2, <1>3, <1>4, <1>5, <1>6, <1>7, <1>8, <1>9, <1>10, <1>11, <1>12, <1>13,
     <1>14, <1>15, <1>16, <1>17, <1>18, <1>19, <1>20, <1>21, <1>22, <1>23, <1>24, <1>25,
     <1>26, <1>27, <1>28, <1>29
  DEF Next, Operation, Continue, Background

\* A step that leaves the counts, and what they count, alone.
OffCount ==
    /\ \A g \in Generations : gen'[g].inflight = gen[g].inflight
    /\ \A r \in Requests :
           /\ token'[r].gen = token[r].gen
           /\ token'[r].st \in {"captured", "finishing"} <=> token[r].st \in {"captured", "finishing"}

OnCount(t) == Enable(t) \/ Commit(t) \/ MarkFinished(t) \/ LeaveGeneration(t)

\* Requests enter a generation at the commit and leave it in mark_finished.
LEMMA StepOffCount ==
    ASSUME BaseInv, [Next]_vars
    PROVE  OffCount \/ \E t \in Threads : OnCount(t)
<1>0. Shape /\ TokensOwned
  BY DEF BaseInv
<1> DEFINE Goal == OffCount \/ \E t \in Threads : OnCount(t)
<1>1. ASSUME NEW t \in Threads, Enable(t)
      PROVE  Goal
  BY <1>1 DEF OnCount
<1>2. ASSUME NEW t \in Threads, NEW tpl \in Templates, Reload(t, tpl)
      PROVE  Goal
  BY <1>2, <1>0
  DEF Reload, OffCount, TokensOwned, At, Returns, TokenTurns, OtherTokens, GenMoves,
      SameCounts, Seals, Shows, Results
<1>3. ASSUME NEW t \in Threads, NEW r \in Requests, BeginRequest(t, r)
      PROVE  Goal
  BY <1>3, BeginRequestDoes, <1>0
  DEF OffCount, TokensOwned, At, Returns, TokenTurns, OtherTokens, GenMoves, SameCounts,
      Seals, Shows, Results
<1>4. ASSUME NEW t \in Threads, NEW r \in Requests, FinishRequest(t, r)
      PROVE  Goal
  BY <1>4, FinishRequestDoes, <1>0
  DEF OffCount, TokensOwned, At, Returns, TokenTurns, OtherTokens, GenMoves, SameCounts,
      Seals, Shows, Results
<1>5. ASSUME NEW t \in Threads, NEW g \in Generations, Overflow(t, g)
      PROVE  Goal
  BY <1>5, OverflowDoes, <1>0
  DEF OffCount, TokensOwned, At, Returns, TokenTurns, OtherTokens, GenMoves, SameCounts,
      Seals, Shows, Results
<1>6. ASSUME NEW t \in Threads, Disable(t)
      PROVE  Goal
  BY <1>6, DisableDoes, <1>0
  DEF OffCount, TokensOwned, At, Returns, TokenTurns, OtherTokens, GenMoves, SameCounts,
      Seals, Shows, Results
<1>7. ASSUME NEW t \in Threads, Shutdown(t)
      PROVE  Goal
  BY <1>7, ShutdownDoes, <1>0
  DEF OffCount, TokensOwned, At, Returns, TokenTurns, OtherTokens, GenMoves, SameCounts,
      Seals, Shows, Results
<1>8. ASSUME NEW t \in Threads, BeginGate(t)
      PROVE  Goal
  BY <1>8, BeginGateDoes, <1>0
  DEF OffCount, TokensOwned, At, Returns, TokenTurns, OtherTokens, GenMoves, SameCounts,
      Seals, Shows, Results
<1>9. ASSUME NEW t \in Threads, Refuse(t)
      PROVE  Goal
  BY <1>9, RefuseDoes, <1>0
  DEF OffCount, TokensOwned, At, Returns, TokenTurns, OtherTokens, GenMoves, SameCounts,
      Seals, Shows, Results
<1>10. ASSUME NEW t \in Threads, Admit(t)
      PROVE  Goal
  BY <1>10, AdmitDoes, <1>0
  DEF OffCount, TokensOwned, At, Returns, TokenTurns, OtherTokens, GenMoves, SameCounts,
      Seals, Shows, Results
<1>11. ASSUME NEW t \in Threads, Commit(t)
      PROVE  Goal
  BY <1>11 DEF OnCount
<1>12. ASSUME NEW t \in Threads, MarkFinished(t)
      PROVE  Goal
  BY <1>12 DEF OnCount
<1>13. ASSUME NEW t \in Threads, LeaveGeneration(t)
      PROVE  Goal
  BY <1>13 DEF OnCount
<1>14. ASSUME NEW t \in Threads, CheckClosing(t)
      PROVE  Goal
  BY <1>14, CheckClosingDoes, <1>0
  DEF OffCount, TokensOwned, At, Returns, TokenTurns, OtherTokens, GenMoves, SameCounts,
      Seals, Shows, Results
<1>15. ASSUME NEW t \in Threads, OnLimitsHitSignal(t)
      PROVE  Goal
  BY <1>15, SignalDoes, <1>0
  DEF OffCount, TokensOwned, At, Returns, TokenTurns, OtherTokens, GenMoves, SameCounts,
      Seals, Shows, Results
<1>16. ASSUME NEW t \in Threads, LoadInflight(t)
      PROVE  Goal
  BY <1>16, LoadInflightDoes, <1>0
  DEF OffCount, TokensOwned, At, Returns, TokenTurns, OtherTokens, GenMoves, SameCounts,
      Seals, Shows, Results
<1>17. ASSUME NEW t \in Threads, CloseAdmissions(t)
      PROVE  Goal
  BY <1>17, CloseAdmissionsDoes, <1>0
  DEF OffCount, TokensOwned, At, Returns, TokenTurns, OtherTokens, GenMoves, SameCounts,
      Seals, Shows, Results
<1>18. ASSUME NEW t \in Threads, CloseLoad(t)
      PROVE  Goal
  BY <1>18, CloseLoadDoes, <1>0
  DEF OffCount, TokensOwned, At, Returns, TokenTurns, OtherTokens, GenMoves, SameCounts,
      Seals, Shows, Results
<1>19. ASSUME NEW t \in Threads, CloseUnlock(t)
      PROVE  Goal
  BY <1>19, CloseUnlockDoes, <1>0
  DEF OffCount, TokensOwned, At, Returns, TokenTurns, OtherTokens, GenMoves, SameCounts,
      Seals, Shows, Results
<1>20. ASSUME NEW t \in Threads, FinalizeGate(t)
      PROVE  Goal
  BY <1>20, FinalizeGateDoes, <1>0
  DEF OffCount, TokensOwned, At, Returns, TokenTurns, OtherTokens, GenMoves, SameCounts,
      Seals, Shows, Results
<1>21. ASSUME NEW t \in Threads, StopSampler(t)
      PROVE  Goal
  BY <1>21, StopSamplerDoes, <1>0
  DEF OffCount, TokensOwned, At, Returns, TokenTurns, OtherTokens, GenMoves, SameCounts,
      Seals, Shows, Results
<1>22. ASSUME NEW t \in Threads, JoinSampler(t)
      PROVE  Goal
  BY <1>22, JoinSamplerDoes, <1>0
  DEF OffCount, TokensOwned, At, Returns, TokenTurns, OtherTokens, GenMoves, SameCounts,
      Seals, Shows, Results
<1>23. ASSUME NEW t \in Threads, CoreShutdown(t)
      PROVE  Goal
  BY <1>23, CoreShutdownDoes, <1>0
  DEF OffCount, TokensOwned, At, Returns, TokenTurns, OtherTokens, GenMoves, SameCounts,
      Seals, Shows, Results
<1>24. ASSUME NEW t \in Threads, SinkWrite(t)
      PROVE  Goal
  BY <1>24, SinkWriteDoes, <1>0
  DEF OffCount, TokensOwned, At, Returns, TokenTurns, OtherTokens, GenMoves, SameCounts,
      Seals, Shows, Results
<1>25. ASSUME NEW t \in Threads, PublishResult(t)
      PROVE  Goal
  BY <1>25, PublishDoes, <1>0
  DEF OffCount, TokensOwned, At, Returns, TokenTurns, OtherTokens, GenMoves, SameCounts,
      Seals, Shows, Results
<1>26. ASSUME NEW t \in Threads, Retire(t)
      PROVE  Goal
  BY <1>26, RetireDoes, <1>0
  DEF OffCount, TokensOwned, At, Returns, TokenTurns, OtherTokens, GenMoves, SameCounts,
      Seals, Shows, Results
<1>27. ASSUME NEW g \in Generations, DrainStore(g)
      PROVE  Goal
  BY <1>27, DrainStoreDoes, <1>0
  DEF OffCount, TokensOwned, At, Returns, TokenTurns, OtherTokens, GenMoves, SameCounts,
      Seals, Shows, Results
<1>28. ASSUME NEW g \in Generations, SamplerTaskEnds(g)
      PROVE  Goal
  BY <1>28, SamplerTaskDoes, <1>0
  DEF OffCount, TokensOwned, At, Returns, TokenTurns, OtherTokens, GenMoves, SameCounts,
      Seals, Shows, Results
<1>29. CASE UNCHANGED vars
  BY <1>29, <1>0
  DEF vars, OffCount, TokensOwned, At, Returns, TokenTurns, OtherTokens, GenMoves,
      SameCounts, Seals, Shows, Results
<1> QED
  BY <1>1, <1>2, <1>3, <1>4, <1>5, <1>6, <1>7, <1>8, <1>9, <1>10, <1>11, <1>12, <1>13,
     <1>14, <1>15, <1>16, <1>17, <1>18, <1>19, <1>20, <1>21, <1>22, <1>23, <1>24, <1>25,
     <1>26, <1>27, <1>28, <1>29
  DEF Next, Operation, Continue, Background

\* Whoever goes on as one that saw the generation drained saw it before the
\* step or sees it now; what a thread loaded is a count.
LEMMA StepSees ==
    ASSUME BaseInv, [Next]_vars
    PROVE  \A u \in Threads :
               /\ SawDrained(u)' => \/ SawDrained(u) /\ thread'[u].gen = thread[u].gen
                                    \/ thread[u].pc \in {"close_load", "load_inflight"}
                                       /\ thread'[u].gen = thread[u].gen /\ gen' = gen
                                       /\ gen[thread[u].gen].inflight = 0
               /\ \/ thread'[u].n \in {0, thread[u].n}
                  \/ thread[u].pc = "close_load" /\ thread[u].gen \in Generations
                     /\ thread'[u].n = gen[thread[u].gen].inflight
<1>0. Shape
  BY DEF BaseInv
<1>w. \A u \in Threads : thread[u].pc \in {"begin_gate", "refuse", "admit", "commit"} => thread[u].op = "begin"
  BY DEF BaseInv, Shape, Where
<1> DEFINE Goal == \A u \in Threads :
               /\ SawDrained(u)' => \/ SawDrained(u) /\ thread'[u].gen = thread[u].gen
                                    \/ thread[u].pc \in {"close_load", "load_inflight"}
                                       /\ thread'[u].gen = thread[u].gen /\ gen' = gen
                                       /\ gen[thread[u].gen].inflight = 0
               /\ \/ thread'[u].n \in {0, thread[u].n}
                  \/ thread[u].pc = "close_load" /\ thread[u].gen \in Generations
                     /\ thread'[u].n = gen[thread[u].gen].inflight
<1>1. ASSUME NEW t \in Threads, Enable(t)
      PROVE  Goal
  BY <1>1, EnableDoes, <1>0, <1>w
  DEF SawDrained, At, G, Steps, Ends, Enters, Returns, OthersRun
<1>2. ASSUME NEW t \in Threads, NEW tpl \in Templates, Reload(t, tpl)
      PROVE  Goal
  BY <1>2, <1>0, <1>w
  DEF Reload, SawDrained, At, G, Steps, Ends, Enters, Returns, OthersRun
<1>3. ASSUME NEW t \in Threads, NEW r \in Requests, BeginRequest(t, r)
      PROVE  Goal
  BY <1>3, BeginRequestDoes, <1>0, <1>w
  DEF SawDrained, At, G, Steps, Ends, Enters, Returns, OthersRun
<1>4. ASSUME NEW t \in Threads, NEW r \in Requests, FinishRequest(t, r)
      PROVE  Goal
  BY <1>4, FinishRequestDoes, <1>0, <1>w
  DEF SawDrained, At, G, Steps, Ends, Enters, Returns, OthersRun
<1>5. ASSUME NEW t \in Threads, NEW g \in Generations, Overflow(t, g)
      PROVE  Goal
  BY <1>5, OverflowDoes, <1>0, <1>w
  DEF SawDrained, At, G, Steps, Ends, Enters, Returns, OthersRun
<1>6. ASSUME NEW t \in Threads, Disable(t)
      PROVE  Goal
  BY <1>6, DisableDoes, <1>0, <1>w
  DEF SawDrained, At, G, Steps, Ends, Enters, Returns, OthersRun
<1>7. ASSUME NEW t \in Threads, Shutdown(t)
      PROVE  Goal
  BY <1>7, ShutdownDoes, <1>0, <1>w
  DEF SawDrained, At, G, Steps, Ends, Enters, Returns, OthersRun
<1>8. ASSUME NEW t \in Threads, BeginGate(t)
      PROVE  Goal
  BY <1>8, BeginGateDoes, <1>0, <1>w
  DEF SawDrained, At, G, Steps, Ends, Enters, Returns, OthersRun
<1>9. ASSUME NEW t \in Threads, Refuse(t)
      PROVE  Goal
  BY <1>9, RefuseDoes, <1>0, <1>w
  DEF SawDrained, At, G, Steps, Ends, Enters, Returns, OthersRun
<1>10. ASSUME NEW t \in Threads, Admit(t)
      PROVE  Goal
  BY <1>10, AdmitDoes, <1>0, <1>w
  DEF SawDrained, At, G, Steps, Ends, Enters, Returns, OthersRun
<1>11. ASSUME NEW t \in Threads, Commit(t)
      PROVE  Goal
  BY <1>11, CommitDoes, <1>0, <1>w
  DEF SawDrained, At, G, Steps, Ends, Enters, Returns, OthersRun
<1>12. ASSUME NEW t \in Threads, MarkFinished(t)
      PROVE  Goal
  BY <1>12, MarkFinishedDoes, <1>0, <1>w
  DEF SawDrained, At, G, Steps, Ends, Enters, Returns, OthersRun
<1>13. ASSUME NEW t \in Threads, LeaveGeneration(t)
      PROVE  Goal
  BY <1>13, LeaveDoes, <1>0, <1>w
  DEF SawDrained, At, G, Steps, Ends, Enters, Returns, OthersRun
<1>14. ASSUME NEW t \in Threads, CheckClosing(t)
      PROVE  Goal
  BY <1>14, CheckClosingDoes, <1>0, <1>w
  DEF SawDrained, At, G, Steps, Ends, Enters, Returns, OthersRun
<1>15. ASSUME NEW t \in Threads, OnLimitsHitSignal(t)
      PROVE  Goal
  BY <1>15, SignalDoes, <1>0, <1>w
  DEF SawDrained, At, G, Steps, Ends, Enters, Returns, OthersRun
<1>16. ASSUME NEW t \in Threads, LoadInflight(t)
      PROVE  Goal
  BY <1>16, LoadInflightDoes, <1>0, <1>w
  DEF SawDrained, At, G, Steps, Ends, Enters, Returns, OthersRun
<1>17. ASSUME NEW t \in Threads, CloseAdmissions(t)
      PROVE  Goal
  BY <1>17, CloseAdmissionsDoes, <1>0, <1>w
  DEF SawDrained, At, G, Steps, Ends, Enters, Returns, OthersRun
<1>18. ASSUME NEW t \in Threads, CloseLoad(t)
      PROVE  Goal
  BY <1>18, CloseLoadDoes, <1>0, <1>w
  DEF SawDrained, At, G, Steps, Ends, Enters, Returns, OthersRun
<1>19. ASSUME NEW t \in Threads, CloseUnlock(t)
      PROVE  Goal
  BY <1>19, CloseUnlockDoes, <1>0, <1>w
  DEF SawDrained, At, G, Steps, Ends, Enters, Returns, OthersRun
<1>20. ASSUME NEW t \in Threads, FinalizeGate(t)
      PROVE  Goal
  BY <1>20, FinalizeGateDoes, <1>0, <1>w
  DEF SawDrained, At, G, Steps, Ends, Enters, Returns, OthersRun
<1>21. ASSUME NEW t \in Threads, StopSampler(t)
      PROVE  Goal
  BY <1>21, StopSamplerDoes, <1>0, <1>w
  DEF SawDrained, At, G, Steps, Ends, Enters, Returns, OthersRun
<1>22. ASSUME NEW t \in Threads, JoinSampler(t)
      PROVE  Goal
  BY <1>22, JoinSamplerDoes, <1>0, <1>w
  DEF SawDrained, At, G, Steps, Ends, Enters, Returns, OthersRun
<1>23. ASSUME NEW t \in Threads, CoreShutdown(t)
      PROVE  Goal
  BY <1>23, CoreShutdownDoes, <1>0, <1>w
  DEF SawDrained, At, G, Steps, Ends, Enters, Returns, OthersRun
<1>24. ASSUME NEW t \in Threads, SinkWrite(t)
      PROVE  Goal
  BY <1>24, SinkWriteDoes, <1>0, <1>w
  DEF SawDrained, At, G, Steps, Ends, Enters, Returns, OthersRun
<1>25. ASSUME NEW t \in Threads, PublishResult(t)
      PROVE  Goal
  BY <1>25, PublishDoes, <1>0, <1>w
  DEF SawDrained, At, G, Steps, Ends, Enters, Returns, OthersRun
<1>26. ASSUME NEW t \in Threads, Retire(t)
      PROVE  Goal
  BY <1>26, RetireDoes, <1>0, <1>w
  DEF SawDrained, At, G, Steps, Ends, Enters, Returns, OthersRun
<1>27. ASSUME NEW g \in Generations, DrainStore(g)
      PROVE  Goal
  BY <1>27, DrainStoreDoes, <1>0, <1>w
  DEF SawDrained, At, G, Steps, Ends, Enters, Returns, OthersRun
<1>28. ASSUME NEW g \in Generations, SamplerTaskEnds(g)
      PROVE  Goal
  BY <1>28, SamplerTaskDoes, <1>0, <1>w
  DEF SawDrained, At, G, Steps, Ends, Enters, Returns, OthersRun
<1>29. CASE UNCHANGED vars
  BY <1>29, <1>0, <1>w
  DEF vars, SawDrained, At, G, Steps, Ends, Enters, Returns, OthersRun
<1> QED
  BY <1>1, <1>2, <1>3, <1>4, <1>5, <1>6, <1>7, <1>8, <1>9, <1>10, <1>11, <1>12, <1>13,
     <1>14, <1>15, <1>16, <1>17, <1>18, <1>19, <1>20, <1>21, <1>22, <1>23, <1>24, <1>25,
     <1>26, <1>27, <1>28, <1>29
  DEF Next, Operation, Continue, Background

Counted(g) == gen[g].inflight = Cardinality(InFlight(g))

\* A generation that is referred to, or comes next, is counted exactly; one
\* that a thread saw drained is referred to by that thread, and closed.
LEMMA CountFacts ==
    ASSUME CountInv
    PROVE  /\ Shape /\ TokensOwned /\ \A g \in Generations : gen[g].inflight \in Int
           /\ \A g \in Generations : Alive(g) \/ g = lifecycle.next => Counted(g)
           /\ \A g \in Generations : IsFiniteSet(InFlight(g)) /\ Cardinality(InFlight(g)) \in Nat
           /\ \A t \in Threads : SawDrained(t) =>
                  G(t) \in Generations /\ Alive(G(t)) /\ Closed(G(t)) /\ G(t) # lifecycle.next
<1>1. Shape /\ AdmissionInv /\ InflightExact /\ TokensOwned
  BY DEF CountInv, LedgerInv, BaseInv
<1>2. \A g \in Generations : gen[g].inflight \in Int
  BY <1>1 DEF Shape, TypeInv, GenerationType
<1>3. \A g \in Generations : Alive(g) => Counted(g)
  BY <1>1, Zenon DEF InflightExact, InFlight, Counted
<1>4. ASSUME NEW g \in Generations PROVE IsFiniteSet(InFlight(g)) /\ Cardinality(InFlight(g)) \in Nat
  <2>1. InFlight(g) \subseteq Requests
    BY DEF InFlight
  <2>2. IsFiniteSet(InFlight(g))
    BY <2>1, ControllerAssumption, FS_Subset
  <2> QED
    BY <2>2, FS_CardinalityType
<1>5. ASSUME NEW t \in Threads, SawDrained(t)
      PROVE  G(t) \in Generations /\ Alive(G(t)) /\ Closed(G(t)) /\ G(t) # lifecycle.next
  <2>1. G(t) \in Generations /\ HoldsArc(t, G(t)) /\ Closed(G(t)) /\ ~At(t, "idle")
    BY <1>1, <1>5 DEF SawDrained, Shape, Where, HoldsArc, AdmissionInv, Finalizing, At, G
  <2> QED
    BY <2>1, <1>1, Numbers DEF Alive
<1>6. ASSUME NEW g \in Generations, g = lifecycle.next PROVE Counted(g)
  <2>1. gen[g].inflight = 0
    BY <1>1, <1>6, Numbers DEF Shape, Born, Unborn, NewGeneration
  <2>2. \A r \in Requests : token[r].gen # g
    BY <1>1, <1>6, Numbers DEF Shape, Born
  <2>3. InFlight(g) = {}
    BY <2>2 DEF InFlight
  <2> QED
    BY <2>1, <2>3, FS_EmptySet DEF Counted
<1> QED
  BY <1>1, <1>2, <1>3, <1>4, <1>5, <1>6

\* A step that leaves the count of a generation alone keeps it right.
LEMMA CountKept ==
    ASSUME CountInv, [Next]_vars, NEW g \in Generations, Alive(g)',
           gen'[g].inflight = gen[g].inflight, InFlight(g)' = InFlight(g)
    PROVE  Counted(g)'
<1>1. Counted(g)
  BY StepAlive, CountFacts DEF CountInv, LedgerInv
<1> QED
  BY <1>1 DEF Counted

\* The commit counts the request it hands out.
LEMMA CommitCounts ==
    ASSUME CountInv, NEW t \in Threads, Commit(t)
    PROVE  /\ \A g \in Generations : Counted(g) => Counted(g)'
           /\ \A g \in Generations : gen'[g].inflight >= gen[g].inflight
           /\ \A g \in Generations : Closed(g) => gen'[g].inflight = gen[g].inflight
<1> DEFINE g == G(t)
           r == thread[t].req
<1>1. /\ At(t, "commit") /\ g \in Generations /\ r \in Requests /\ thread[t].op = "begin"
      /\ gen'[g].inflight = gen[g].inflight + 1
      /\ \A h \in Generations \ {g} : gen'[h] = gen[h]
      /\ \A q \in Requests \ {r} : token'[q] = token[q]
      /\ token'[r].st = "captured" /\ token'[r].gen = g
  BY CommitDoes, CountFacts DEF GenMoves, OtherTokens
<1>2. token[r].st = "beginning" /\ gen[g].accepting
  BY <1>1 DEF CountInv, LedgerInv, BaseInv, TokensOwned, AdmissionInv, At
<1>2a. token[r].gen = NoGen
  BY <1>1, <1>2, CountFacts DEF TokensOwned
<1>2b. \A h \in Generations : h # NoGen
  BY DEF Generations, NoGen
<1>3. ASSUME NEW h \in Generations, Counted(h) PROVE Counted(h)'
  <2>1. CASE h # g
    <3>1. InFlight(h)' = InFlight(h)
      BY <1>1, <1>2a, <1>2b, <2>1 DEF InFlight
    <3> QED
      BY <1>1, <1>3, <2>1, <3>1 DEF Counted
  <2>2. CASE h = g
    <3>1. InFlight(h)' = InFlight(h) \cup {r} /\ r \notin InFlight(h)
      BY <1>1, <1>2, <2>2 DEF InFlight
    <3>2. Cardinality(InFlight(h) \cup {r}) = Cardinality(InFlight(h)) + 1
      BY <3>1, CountFacts, FS_AddElement
    <3> QED
      BY <1>1, <1>3, <2>2, <3>1, <3>2 DEF Counted
  <2> QED
    BY <2>1, <2>2
<1>4. \A h \in Generations : gen'[h].inflight >= gen[h].inflight
  BY <1>1, CountFacts
<1>5. \A h \in Generations : Closed(h) => gen'[h].inflight = gen[h].inflight
  BY <1>1, <1>2 DEF Closed
<1> QED
  BY <1>3, <1>4, <1>5

\* The completion that leaves was counted, so the count was not zero.
LEMMA LeaveCounts ==
    ASSUME CountInv, NEW t \in Threads, LeaveGeneration(t)
    PROVE  /\ \A g \in Generations : Counted(g) => Counted(g)'
           /\ gen'[G(t)].inflight >= 0 /\ gen[G(t)].inflight > 0 /\ G(t) \in Generations
           /\ \A g \in Generations \ {G(t)} : gen'[g] = gen[g]
<1> DEFINE g == G(t)
           r == thread[t].req
<1>1. /\ At(t, "leave") /\ g \in Generations /\ r \in Requests /\ thread[t].op = "finish"
      /\ gen'[g].inflight = gen[g].inflight - 1
      /\ \A h \in Generations \ {g} : gen'[h] = gen[h]
      /\ \A q \in Requests \ {r} : token'[q] = token[q]
      /\ token'[r].st = "done" /\ token'[r].gen = token[r].gen
  BY LeaveDoes, CountFacts DEF GenMoves, OtherTokens, TokenTurns
<1>2. token[r].st = "finishing" /\ token[r].gen = g
  BY <1>1, CountFacts DEF TokensOwned, BeforeLeave, At
<1>3. r \in InFlight(g)
  BY <1>1, <1>2 DEF InFlight
<1>4. Alive(g)
  BY <1>1 DEF Alive, HoldsArc, At
<1>5. Counted(g) /\ IsFiniteSet(InFlight(g)) /\ Cardinality(InFlight(g)) \in Nat
  BY <1>1, <1>4, CountFacts
<1>6. Cardinality(InFlight(g) \ {r}) = Cardinality(InFlight(g)) - 1
  BY <1>3, <1>5, FS_RemoveElement
<1>7. Cardinality(InFlight(g)) # 0
  BY <1>3, <1>5, FS_EmptySet
<1>8. ASSUME NEW h \in Generations, Counted(h) PROVE Counted(h)'
  <2>1. CASE h # g
    <3>1. InFlight(h)' = InFlight(h)
      BY <1>1, <1>2, <2>1 DEF InFlight
    <3> QED
      BY <1>1, <1>8, <2>1, <3>1 DEF Counted
  <2>2. CASE h = g
    <3>1. InFlight(h)' = InFlight(h) \ {r}
      BY <1>1, <1>2, <2>2 DEF InFlight
    <3> QED
      BY <1>1, <1>6, <1>8, <2>2, <3>1 DEF Counted
  <2> QED
    BY <2>1, <2>2
<1>9. gen[g].inflight > 0 /\ gen'[g].inflight >= 0
  BY <1>1, <1>5, <1>7 DEF Counted
<1> QED
  BY <1>1, <1>8, <1>9

\* The counts hold at every step.
LEMMA StepCount ==
    ASSUME CountInv, [Next]_vars
    PROVE  InflightExact' /\ CountsNat' /\ StaysDrained'
<1>0. BaseInv /\ Shape
  BY DEF CountInv, LedgerInv, BaseInv
<1>1. ASSUME NEW g \in Generations, Alive(g)' PROVE Counted(g)'
  <2>0. Counted(g)
    BY <1>0, <1>1, StepAlive, CountFacts
  <2>1. CASE OffCount
    <3>1. InFlight(g)' = InFlight(g) /\ gen'[g].inflight = gen[g].inflight
      BY <2>1 DEF OffCount, InFlight
    <3> QED
      BY <1>1, <3>1, CountKept
  <2>2. ASSUME NEW t \in Threads, Enable(t) PROVE Counted(g)'
    <3>1. /\ lifecycle.next \in Generations /\ gen'[lifecycle.next].inflight = 0
          /\ token' = token /\ \A h \in Generations \ {lifecycle.next} : gen'[h] = gen[h]
      BY <1>0, <2>2, EnableDoes DEF GenMoves
    <3>2. gen[lifecycle.next].inflight = 0
      BY <1>0, <3>1, Numbers DEF Shape, Born, Unborn, NewGeneration
    <3>3. InFlight(g)' = InFlight(g) /\ gen'[g].inflight = gen[g].inflight
      BY <3>1, <3>2 DEF InFlight
    <3> QED
      BY <1>1, <3>3, CountKept
  <2>3. ASSUME NEW t \in Threads, Commit(t) PROVE Counted(g)'
    BY <2>0, <2>3, CommitCounts
  <2>4. ASSUME NEW t \in Threads, LeaveGeneration(t) PROVE Counted(g)'
    BY <2>0, <2>4, LeaveCounts
  <2>5. ASSUME NEW t \in Threads, MarkFinished(t) PROVE Counted(g)'
    <3>1. /\ G(t) \in Generations /\ gen' = gen /\ lifecycle' = lifecycle
          /\ thread[t].op = "finish" /\ At(t, "mark")
          /\ token' = token \/ (~Alive(G(t)) /\ Ends(t) /\ TokenTurns(thread[t].req, "done"))
      BY <1>0, <2>5, MarkFinishedDoes
    <3>2. token[thread[t].req].gen = G(t)
      BY <3>1, CountFacts DEF TokensOwned
    <3>3. CASE token' = token
      <4>1. InFlight(g)' = InFlight(g)
        BY <3>3 DEF InFlight
      <4> QED
        BY <1>1, <3>1, <4>1, CountKept
    <3>4. CASE ~Alive(G(t)) /\ Ends(t) /\ TokenTurns(thread[t].req, "done")
      <4>1. ~Alive(G(t))
        BY <3>4
      <4>2. G(t) # g
        <5>1. G(t) # lifecycle.next
          BY <1>0, <3>1, Numbers DEF At
        <5> QED
          BY <1>0, <1>1, <4>1, <5>1, StepAlive
      <4>3. InFlight(g)' = InFlight(g)
        BY <3>2, <3>4, <4>2 DEF InFlight, TokenTurns, OtherTokens
      <4> QED
        BY <1>1, <3>1, <4>3, CountKept
    <3> QED
      BY <3>1, <3>3, <3>4
  <2> QED
    BY <1>0, <2>1, <2>2, <2>3, <2>4, <2>5, StepOffCount DEF OnCount
<1>2. InflightExact'
  BY <1>1, Zenon DEF InflightExact, InFlight, Counted
<1>3. ASSUME NEW g \in Generations
      PROVE  /\ gen'[g].inflight >= 0
             /\ \A u \in Threads : SawDrained(u) /\ G(u) = g => gen'[g].inflight = 0
  <2>0. /\ gen[g].inflight >= 0 /\ gen[g].inflight \in Int
        /\ \A u \in Threads : SawDrained(u) /\ G(u) = g => gen[g].inflight = 0
    BY CountFacts DEF CountInv, CountsNat, StaysDrained
  <2>1. CASE gen'[g].inflight = gen[g].inflight
    BY <2>0, <2>1
  <2>2. ASSUME NEW t \in Threads, Enable(t) PROVE gen'[g].inflight = 0 \/ gen'[g].inflight = gen[g].inflight
    BY <1>0, <2>2, EnableDoes DEF GenMoves
  <2>3. ASSUME NEW t \in Threads, Commit(t)
        PROVE  /\ gen'[g].inflight >= 0
               /\ \A u \in Threads : SawDrained(u) /\ G(u) = g => gen'[g].inflight = 0
    <3>1. gen'[g].inflight >= gen[g].inflight /\ (Closed(g) => gen'[g].inflight = gen[g].inflight)
      BY <2>3, CommitCounts
    <3>2. gen'[g].inflight \in Int
      BY <1>0, StepTypes DEF Shape, TypeInv, GenerationType
    <3>3. gen'[g].inflight >= 0
      BY <2>0, <3>1, <3>2
    <3>4. \A u \in Threads : SawDrained(u) /\ G(u) = g => gen'[g].inflight = 0
      BY <2>0, <3>1, CountFacts
    <3> QED
      BY <3>3, <3>4
  <2>4. ASSUME NEW t \in Threads, LeaveGeneration(t)
        PROVE  /\ gen'[g].inflight >= 0
               /\ \A u \in Threads : SawDrained(u) /\ G(u) = g => gen'[g].inflight = 0
    <3>1. /\ gen'[G(t)].inflight >= 0 /\ gen[G(t)].inflight > 0
          /\ \A h \in Generations \ {G(t)} : gen'[h] = gen[h]
      BY <2>4, LeaveCounts
    <3>2. CASE g = G(t)
      BY <2>0, <3>1, <3>2
    <3>3. CASE g # G(t)
      BY <2>1, <3>1, <3>3
    <3> QED
      BY <3>2, <3>3
  <2>5. ASSUME NEW t \in Threads, MarkFinished(t) PROVE gen'[g].inflight = gen[g].inflight
    BY <1>0, <2>5, MarkFinishedDoes
  <2>6. CASE OffCount
    BY <2>1, <2>6 DEF OffCount
  <2>7. CASE gen'[g].inflight = 0
    BY <2>7
  <2> QED
    BY <1>0, <2>1, <2>2, <2>3, <2>4, <2>5, <2>6, <2>7, StepOffCount DEF OnCount
<1>4. CountsNat'
  <2>1. \A g \in Generations : gen[g].inflight >= 0
    BY DEF CountInv, CountsNat
  <2>2. \A u \in Threads : thread[u].n >= 0
    BY DEF CountInv, CountsNat
  <2>3. \A u \in Threads : thread'[u].n >= 0
    BY <1>0, <2>1, <2>2, StepSees
  <2> QED
    BY <1>3, <2>3 DEF CountsNat
<1>5. ASSUME NEW u \in Threads, SawDrained(u)' PROVE gen'[G(u)'].inflight = 0
  <2>1. \/ SawDrained(u) /\ thread'[u].gen = thread[u].gen
        \/ /\ thread[u].pc \in {"close_load", "load_inflight"}
           /\ thread'[u].gen = thread[u].gen /\ gen' = gen /\ gen[thread[u].gen].inflight = 0
    BY <1>0, <1>5, StepSees
  <2>2. CASE SawDrained(u) /\ thread'[u].gen = thread[u].gen
    <3>1. G(u) \in Generations /\ G(u)' = G(u)
      BY <2>2, CountFacts DEF G
    <3> QED
      BY <1>3, <2>2, <3>1
  <2>3. CASE /\ thread[u].pc \in {"close_load", "load_inflight"}
             /\ thread'[u].gen = thread[u].gen /\ gen' = gen /\ gen[thread[u].gen].inflight = 0
    BY <2>3 DEF G
  <2> QED
    BY <2>1, <2>2, <2>3
<1> QED
  BY <1>2, <1>4, <1>5 DEF StaysDrained

\* Nothing is counted before the first activation.
LEMMA InitCount == Init => CountInv
<1> SUFFICES ASSUME Init PROVE CountInv
  OBVIOUS
<1>1. Unborn.inflight = 0 /\ Idle.n = 0 /\ Idle.op = "none" /\ Idle.pc = "idle"
  BY DEF Unborn, NewGeneration, Idle
<1>2. \A g \in Generations : gen[g].inflight = 0
  BY <1>1 DEF Init
<1>3. \A g \in Generations : InFlight(g) = {}
  BY DEF Init, InFlight
<1>4. \A g \in Generations : Counted(g)
  BY <1>2, <1>3, FS_EmptySet DEF Counted
<1>5. InflightExact
  BY <1>4, Zenon DEF InflightExact, InFlight, Counted
<1>6. \A t \in Threads : thread[t].n = 0 /\ ~SawDrained(t)
  BY <1>1 DEF Init, SawDrained
<1> QED
  BY <1>2, <1>5, <1>6, InitLedger DEF CountInv, CountsNat, StaysDrained

\* The counts hold in every reachable state.
THEOREM CountInvariance == Spec => []CountInv
<1>1. CountInv /\ [Next]_vars => CountInv'
  BY StepCount, StepLedger DEF CountInv
<1> QED
  BY <1>1, InitCount, PTL DEF Spec

\* inflight_captured is the number of tokens handed out that have not left,
\* for every generation that somebody still refers to.
THEOREM InflightExactHolds == Spec => []InflightExact
<1>1. CountInv => InflightExact
  BY DEF CountInv
<1> QED
  BY <1>1, CountInvariance, PTL

\* The state keeps its types: fetch_sub never takes the unsigned
\* inflight_captured below zero, and every value loaded from it is a count.
THEOREM TypeOKHolds == Spec => []TypeOK
<1>1. ASSUME CountInv PROVE TypeOK
  <2>1. TypeInv /\ CountsNat
    BY <1>1 DEF CountInv, LedgerInv, BaseInv, Shape
  <2>2. \A g \in Generations : gen[g] \in GenerationType /\ gen[g].inflight \in Nat
    BY <2>1 DEF TypeInv, CountsNat, GenerationType
  <2>3. \A t \in Threads : thread[t] \in ThreadType /\ thread[t].n \in Nat
    BY <2>1 DEF TypeInv, CountsNat, ThreadType
  <2>4. gen \in [Generations ->
           [auto : BOOLEAN, strict : BOOLEAN, accepting : BOOLEAN,
            closing : {"no", "buffered", "yes"}, slots : Nat, inflight : Nat,
            result : {"Pending", "Success", "TerminalFailure"},
            finalize_started : BOOLEAN, last_error : BOOLEAN,
            sampler : {"none", "running", "stopping", "ended"}]]
    BY <2>1, <2>2 DEF TypeInv, GenerationType
  <2>5. thread \in [Threads ->
           [pc : Pcs, op : {"none", "begin", "finish", "overflow", "disable", "shutdown"},
            gen : Generations \cup {NoGen}, req : Requests \cup {NoRequest}, n : Nat]]
    BY <2>1, <2>3 DEF TypeInv, ThreadType, Ops
  <2> QED
    BY <2>1, <2>4, <2>5 DEF TypeInv, TypeOK, LifecycleType, CoreType, TokenType
<1> QED
  BY <1>1, CountInvariance, PTL

\* A thread that closed its generation and finalizes it (disable(), the
\* limits-hit signal, a refused admission) leaves no pending request behind,
\* whichever completions and admissions ran in between.
THEOREM ClosersDrainHolds == Spec => []ClosersDrain
<1>1. ASSUME CountInv PROVE ClosersDrain
  <2>1. ASSUME NEW t \in Threads,
               thread[t].pc \in {"finalize", "stop_sampler", "join_sampler", "core_shutdown"},
               thread[t].op \in {"disable", "overflow", "begin"}
        PROVE  core[G(t)].pending = {}
    <3> DEFINE g == G(t)
    <3>1. SawDrained(t)
      BY <2>1 DEF SawDrained
    <3>2. g \in Generations /\ Alive(g) /\ Closed(g) /\ gen[g].inflight = 0
      BY <1>1, <3>1, CountFacts DEF CountInv, StaysDrained
    <3>3. Counted(g) /\ IsFiniteSet(InFlight(g))
      BY <1>1, <3>2, CountFacts
    <3>4. InFlight(g) = {}
      BY <3>2, <3>3, FS_EmptySet DEF Counted
    <3>5. \A r \in Requests : ~Committing(g, r)
      BY <1>1, <3>2 DEF CountInv, LedgerInv, BaseInv, AdmissionInv, Committing, Closed, At
    <3>6. Held(g) /\ core[g].pending \subseteq Requests
      BY <1>1, <3>2 DEF CountInv, LedgerInv, Ledger, BaseInv, Shape, TypeInv, CoreType
    <3> QED
      BY <3>4, <3>5, <3>6 DEF Held, InFlight
  <2>2. \A g \in Generations : core[g].unfinished # {} => ~gen[g].strict
    BY <1>1 DEF CountInv, LedgerInv, BaseInv, FinalInv, Settled
  <2> QED
    BY <2>1, <2>2 DEF ClosersDrain
<1> QED
  BY <1>1, CountInvariance, PTL
----------------------------------------------------------------------------
(* Controller implements CaptureSpec, generation by generation: what the   *)
(* gates, counters and reports of the controller do to the core run of a   *)
(* generation is always something a single capture run may do.             *)
(*                                                                         *)
(* LedgerInv supplies what the steps need: the run is open and has room    *)
(* where the controller admits, a request is admitted once, pending and    *)
(* done requests are apart, and what callers were told agrees with the     *)
(* sink attempt.                                                           *)

CaptureStep(g) == [Capture(g)!Next]_(Capture(g)!vars)

\* Cardinality means the same inside the instance.
LEMMA SameCardinality ==
    \A g \in Generations : \A S : Capture(g)!Cardinality(S) = Cardinality(S)
BY DEF Capture!Cardinality, Cardinality

\* The abstract result and what callers were told of it.
ResOf(phase) == IF phase = "Success" THEN "Ok"
                ELSE IF phase = "Failure" THEN "SinkError"
                ELSE "none"
SeenOf(answers) == (IF "Ok" \in answers THEN {"Ok"} ELSE {})
                   \cup (IF "Err" \in answers THEN {"SinkError"} ELSE {})
Res(g) == ResOf(core[g].phase)
Seen(g) == SeenOf(told[g])

\* Answers that agree with the result of the sink attempt show only that.
LEMMA AnswersAgree ==
    ASSUME NEW phase, NEW answers, "Ok" \in answers => phase = "Success",
           "Err" \in answers => phase = "Failure"
    PROVE  /\ SeenOf(answers) \subseteq {ResOf(phase)}
           /\ ResOf(phase) = "none" => SeenOf(answers) = {}
BY DEF SeenOf, ResOf

\* Nobody is told a result that the sink attempt did not have, before and
\* after a step.
LEMMA SeenAgrees ==
    ASSUME BaseInv, BaseInv', NEW g \in Generations
    PROVE  /\ Seen(g) \subseteq {Res(g)} /\ (Res(g) = "none" => Seen(g) = {})
           /\ Seen(g)' \subseteq {Res(g)'} /\ (Res(g)' = "none" => Seen(g)' = {})
<1>1. /\ "Ok" \in told[g] => core[g].phase = "Success"
      /\ "Err" \in told[g] => core[g].phase = "Failure"
  BY DEF BaseInv, FinalInv, Settled
<1>2. /\ "Ok" \in told'[g] => core'[g].phase = "Success"
      /\ "Err" \in told'[g] => core'[g].phase = "Failure"
  BY DEF BaseInv, FinalInv, Settled
<1> QED
  BY <1>1, <1>2, AnswersAgree DEF Seen, Res

\* The requests of the completed pairs are the done ones.
LEMMA FirstsAre ==
    ASSUME NEW D
    PROVE  {p[1] : p \in D \X {"ok"}} = D
<1>1. \A d \in D : <<d, "ok">> \in D \X {"ok"} /\ <<d, "ok">>[1] = d
  OBVIOUS
<1>2. \A p \in D \X {"ok"} : p[1] \in D
  OBVIOUS
<1> QED
  BY <1>1, <1>2

\* A generation whose evidence and phase stay is at most observed.
LEMMA QuietRefines ==
    ASSUME BaseInv, BaseInv', NEW g \in Generations,
           SameEvidence(core'[g], core[g]), core'[g].phase = core[g].phase
    PROVE  CaptureStep(g)
<1>1. Res(g)' = Res(g)
  BY DEF Res, ResOf
<1>2. CASE Res(g) = "none"
  <2>1. Seen(g)' = Seen(g)
    BY <1>1, <1>2, SeenAgrees
  <2> QED
    BY <1>1, <2>1 DEF CaptureStep, Capture!vars, SameEvidence, Res, Seen, ResOf, SeenOf
<1>3. CASE Res(g) # "none"
  <2>1. Seen(g)' \subseteq {Res(g)}
    BY <1>1, SeenAgrees
  <2>2. Capture(g)!Observe
    BY <1>1, <1>3, <2>1 DEF Capture!Observe, SameEvidence, Res, Seen, ResOf, SeenOf
  <2> QED
    BY <2>2 DEF CaptureStep, Capture!Next
<1> QED
  BY <1>2, <1>3

\* The sink attempt publishes the result.
LEMMA SinkRefines ==
    ASSUME BaseInv, BaseInv', NEW g \in Generations, SameEvidence(core'[g], core[g]),
           core[g].phase = "Finalizing", core'[g].phase \in {"Success", "Failure"}
    PROVE  CaptureStep(g)
<1>1. Res(g) = "none" /\ Res(g)' \in {"Ok", "SinkError"}
  BY DEF Res, ResOf
<1>2. Seen(g)' \subseteq {Res(g)'}
  BY SeenAgrees
<1>3. Capture(g)!Publish
  BY <1>1, <1>2 DEF Capture!Publish, SameEvidence, Res, Seen, ResOf, SeenOf
<1> QED
  BY <1>3 DEF CaptureStep, Capture!Next

\* A step off the ledger changes no phase but that of the sink attempt.
OffPhase ==
    \A g \in Generations :
        \/ core'[g].phase = core[g].phase
        \/ core[g].phase = "Finalizing" /\ core'[g].phase \in {"Success", "Failure"}

\* Only Enable, the sealing of the run and the sink attempt change a phase.
LEMMA StepPhase ==
    ASSUME BaseInv, [Next]_vars
    PROVE  OffPhase \/ \E t \in Threads : OnLedger(t)
<1>0. Shape /\ \A t \in Threads : Stage(t)
  BY DEF BaseInv, FinalInv
<1> DEFINE Goal == OffPhase \/ \E t \in Threads : OnLedger(t)
<1>1. ASSUME NEW t \in Threads, Enable(t)
      PROVE  Goal
  BY <1>1 DEF OnLedger
<1>2. ASSUME NEW t \in Threads, NEW tpl \in Templates, Reload(t, tpl)
      PROVE  Goal
  BY <1>2, <1>0
  DEF Reload, OffPhase, Stage, At, CoreMoves, SamePhase, Seals
<1>3. ASSUME NEW t \in Threads, NEW r \in Requests, BeginRequest(t, r)
      PROVE  Goal
  BY <1>3, BeginRequestDoes, <1>0
  DEF OffPhase, Stage, At, CoreMoves, SamePhase, Seals
<1>4. ASSUME NEW t \in Threads, NEW r \in Requests, FinishRequest(t, r)
      PROVE  Goal
  BY <1>4 DEF OnLedger
<1>5. ASSUME NEW t \in Threads, NEW g \in Generations, Overflow(t, g)
      PROVE  Goal
  BY <1>5, OverflowDoes, <1>0
  DEF OffPhase, Stage, At, CoreMoves, SamePhase, Seals
<1>6. ASSUME NEW t \in Threads, Disable(t)
      PROVE  Goal
  BY <1>6, DisableDoes, <1>0
  DEF OffPhase, Stage, At, CoreMoves, SamePhase, Seals
<1>7. ASSUME NEW t \in Threads, Shutdown(t)
      PROVE  Goal
  BY <1>7, ShutdownDoes, <1>0
  DEF OffPhase, Stage, At, CoreMoves, SamePhase, Seals
<1>8. ASSUME NEW t \in Threads, BeginGate(t)
      PROVE  Goal
  BY <1>8, BeginGateDoes, <1>0
  DEF OffPhase, Stage, At, CoreMoves, SamePhase, Seals
<1>9. ASSUME NEW t \in Threads, Refuse(t)
      PROVE  Goal
  BY <1>9, RefuseDoes, <1>0
  DEF OffPhase, Stage, At, CoreMoves, SamePhase, Seals
<1>10. ASSUME NEW t \in Threads, Admit(t)
      PROVE  Goal
  BY <1>10 DEF OnLedger
<1>11. ASSUME NEW t \in Threads, Commit(t)
      PROVE  Goal
  BY <1>11 DEF OnLedger
<1>12. ASSUME NEW t \in Threads, MarkFinished(t)
      PROVE  Goal
  BY <1>12, MarkFinishedDoes, <1>0
  DEF OffPhase, Stage, At, CoreMoves, SamePhase, Seals
<1>13. ASSUME NEW t \in Threads, LeaveGeneration(t)
      PROVE  Goal
  BY <1>13, LeaveDoes, <1>0
  DEF OffPhase, Stage, At, CoreMoves, SamePhase, Seals
<1>14. ASSUME NEW t \in Threads, CheckClosing(t)
      PROVE  Goal
  BY <1>14, CheckClosingDoes, <1>0
  DEF OffPhase, Stage, At, CoreMoves, SamePhase, Seals
<1>15. ASSUME NEW t \in Threads, OnLimitsHitSignal(t)
      PROVE  Goal
  BY <1>15, SignalDoes, <1>0
  DEF OffPhase, Stage, At, CoreMoves, SamePhase, Seals
<1>16. ASSUME NEW t \in Threads, LoadInflight(t)
      PROVE  Goal
  BY <1>16, LoadInflightDoes, <1>0
  DEF OffPhase, Stage, At, CoreMoves, SamePhase, Seals
<1>17. ASSUME NEW t \in Threads, CloseAdmissions(t)
      PROVE  Goal
  BY <1>17, CloseAdmissionsDoes, <1>0
  DEF OffPhase, Stage, At, CoreMoves, SamePhase, Seals
<1>18. ASSUME NEW t \in Threads, CloseLoad(t)
      PROVE  Goal
  BY <1>18, CloseLoadDoes, <1>0
  DEF OffPhase, Stage, At, CoreMoves, SamePhase, Seals
<1>19. ASSUME NEW t \in Threads, CloseUnlock(t)
      PROVE  Goal
  BY <1>19, CloseUnlockDoes, <1>0
  DEF OffPhase, Stage, At, CoreMoves, SamePhase, Seals
<1>20. ASSUME NEW t \in Threads, FinalizeGate(t)
      PROVE  Goal
  BY <1>20, FinalizeGateDoes, <1>0
  DEF OffPhase, Stage, At, CoreMoves, SamePhase, Seals
<1>21. ASSUME NEW t \in Threads, StopSampler(t)
      PROVE  Goal
  BY <1>21, StopSamplerDoes, <1>0
  DEF OffPhase, Stage, At, CoreMoves, SamePhase, Seals
<1>22. ASSUME NEW t \in Threads, JoinSampler(t)
      PROVE  Goal
  BY <1>22, JoinSamplerDoes, <1>0
  DEF OffPhase, Stage, At, CoreMoves, SamePhase, Seals
<1>23. ASSUME NEW t \in Threads, CoreShutdown(t)
      PROVE  Goal
  BY <1>23 DEF OnLedger
<1>24. ASSUME NEW t \in Threads, SinkWrite(t)
      PROVE  Goal
  BY <1>24, SinkWriteDoes, <1>0
  DEF OffPhase, Stage, At, CoreMoves, SamePhase, Seals
<1>25. ASSUME NEW t \in Threads, PublishResult(t)
      PROVE  Goal
  BY <1>25, PublishDoes, <1>0
  DEF OffPhase, Stage, At, CoreMoves, SamePhase, Seals
<1>26. ASSUME NEW t \in Threads, Retire(t)
      PROVE  Goal
  BY <1>26, RetireDoes, <1>0
  DEF OffPhase, Stage, At, CoreMoves, SamePhase, Seals
<1>27. ASSUME NEW g \in Generations, DrainStore(g)
      PROVE  Goal
  BY <1>27, DrainStoreDoes, <1>0
  DEF OffPhase, Stage, At, CoreMoves, SamePhase, Seals
<1>28. ASSUME NEW g \in Generations, SamplerTaskEnds(g)
      PROVE  Goal
  BY <1>28, SamplerTaskDoes, <1>0
  DEF OffPhase, Stage, At, CoreMoves, SamePhase, Seals
<1>29. CASE UNCHANGED vars
  BY <1>29, <1>0
  DEF vars, OffPhase, Stage, At, CoreMoves, SamePhase, Seals
<1> QED
  BY <1>1, <1>2, <1>3, <1>4, <1>5, <1>6, <1>7, <1>8, <1>9, <1>10, <1>11, <1>12, <1>13,
     <1>14, <1>15, <1>16, <1>17, <1>18, <1>19, <1>20, <1>21, <1>22, <1>23, <1>24, <1>25,
     <1>26, <1>27, <1>28, <1>29
  DEF Next, Operation, Continue, Background

\* A new generation starts as the run it was before anybody enabled it.
LEMMA EnableRefines ==
    ASSUME LedgerInv, LedgerInv', NEW t \in Threads, Enable(t), NEW g \in Generations
    PROVE  CaptureStep(g)
<1>1. core'[g] = core[g]
  <2>1. lifecycle.next \in Generations
        /\ core'[lifecycle.next] = NewRun
        /\ \A h \in Generations \ {lifecycle.next} : core'[h] = core[h]
    BY EnableDoes DEF LedgerInv, BaseInv, CoreMoves
  <2>2. core[lifecycle.next] = NewRun
    BY <2>1, Numbers DEF LedgerInv, BaseInv, Shape, Born
  <2> QED
    BY <2>1, <2>2
<1> QED
  BY <1>1, QuietRefines DEF LedgerInv, SameEvidence

\* The core run admits a request it has room for and never held before.
LEMMA AdmitRefines ==
    ASSUME LedgerInv, LedgerInv', NEW t \in Threads, Admit(t), NEW g \in Generations
    PROVE  CaptureStep(g)
<1>0. PICK r \in Requests : r = thread[t].req
  BY AdmitDoes DEF LedgerInv, BaseInv
<1> DEFINE P == core[g].pending
           D == core[g].done
<1>1. /\ At(t, "admit") /\ thread[t].op = "begin" /\ told' = told
      /\ \A h \in Generations \ {G(t)} : core'[h] = core[h]
  BY AdmitDoes DEF LedgerInv, BaseInv, CoreMoves
<1>2. CASE g # G(t)
  BY <1>0, <1>1, <1>2, QuietRefines DEF LedgerInv, SameEvidence
<1>3. CASE g = G(t)
  <2>1. core[g].phase = "Open" /\ HasRoom(core[g])
    BY <1>0, <1>1, <1>3, AdmitHasRoom
  <2>2. /\ core'[g].pending = P \cup {r} /\ core'[g].done = D
        /\ core'[g].unfinished = core[g].unfinished /\ core'[g].phase = "Open"
    BY <1>0, <1>1, <1>3, <2>1, AdmitDoes DEF LedgerInv, BaseInv, SamePhase
  <2>3. Held(g) /\ P \subseteq Requests /\ D \subseteq Requests
    BY DEF LedgerInv, Ledger, BaseInv, Shape, TypeInv, CoreType
  <2>4. core[g].unfinished = {}
    BY <2>1, <2>3 DEF Held
  <2>5. token[r].gen # g /\ ~Committing(g, r)
    <3>1. token[r].st = "beginning"
      BY <1>0, <1>1 DEF LedgerInv, BaseInv, TokensOwned
    <3>2. token[r].gen = NoGen /\ NoGen # g
      BY <1>0, <1>1, <3>1, ControllerAssumption DEF LedgerInv, BaseInv, TokensOwned, Generations, NoGen
    <3>3. ~Committing(g, r)
      BY <1>0, <1>1, CommittingOwned DEF LedgerInv, Holder, At
    <3> QED
      BY <3>2, <3>3
  <2>6. r \notin P \cup D \cup core[g].unfinished
    BY <1>0, <1>1, <2>3, <2>5 DEF Held
  <2>7. Cardinality(P \cup D \cup core[g].unfinished) < MaxRequests
    <3>1. IsFiniteSet(P) /\ IsFiniteSet(D) /\ P \cap D = {}
      BY <2>3, ControllerAssumption, FS_Subset DEF Held
    <3>2. P \cup D \cup core[g].unfinished = P \cup D
      BY <2>4
    <3>3. Cardinality(P) + Cardinality(D) < MaxRequests
      BY <2>1 DEF HasRoom
    <3> HIDE DEF P, D
    <3>4. /\ Cardinality(P \cup D) = Cardinality(P) + Cardinality(D) - Cardinality(P \cap D)
          /\ Cardinality(P) \in Nat /\ Cardinality(D) \in Nat
      BY <3>1, FS_Union, FS_CardinalityType
    <3>5. Cardinality(P \cap D) = 0
      BY <3>1, FS_EmptySet, Zenon
    <3>6. Cardinality(P \cup D) < MaxRequests
      BY <3>3, <3>4, <3>5
    <3> QED
      BY <3>2, <3>6, Zenon
  <2>8. Capture(g)!Admit(r)
    <3>1. core'[g].pending \cup core'[g].done \cup core'[g].unfinished
              = (P \cup D \cup core[g].unfinished) \cup {r}
      BY <2>2
    <3> QED
      BY <1>1, <2>1, <2>2, <2>6, <2>7, <3>1, SameCardinality DEF Capture!Admit
  <2> QED
    BY <1>0, <1>1, <2>8 DEF CaptureStep, Capture!Next
<1> QED
  BY <1>2, <1>3

\* A completion that reaches the open run completes its request once.
LEMMA FinishRefines ==
    ASSUME LedgerInv, LedgerInv', NEW t \in Threads, NEW r \in Requests,
           FinishRequest(t, r), NEW g \in Generations
    PROVE  CaptureStep(g)
<1>1. /\ \A h \in Generations \ {token[r].gen} : core'[h] = core[h]
      /\ SamePhase(core'[token[r].gen], core[token[r].gen]) /\ told' = told
  BY FinishRequestDoes DEF LedgerInv, BaseInv, CoreMoves
<1>2. CASE g # token[r].gen
  BY <1>1, <1>2, QuietRefines DEF LedgerInv, SameEvidence
<1>3. CASE g = token[r].gen /\ ~(core[g].phase = "Open" /\ r \in core[g].pending)
  BY <1>1, <1>3, FinishRequestDoes, QuietRefines DEF LedgerInv, BaseInv, SamePhase
<1>4. CASE g = token[r].gen /\ core[g].phase = "Open" /\ r \in core[g].pending
  <2>1. /\ core'[g].pending = core[g].pending \ {r}
        /\ core'[g].done = core[g].done \cup {r}
        /\ core'[g].unfinished = core[g].unfinished /\ core'[g].phase = core[g].phase
    BY <1>4, FinishRequestDoes DEF LedgerInv, BaseInv, SamePhase
  <2>2. r \notin core[g].done
    BY <1>4 DEF LedgerInv, Ledger, Held
  <2>3. core'[g].done \X {"ok"} = (core[g].done \X {"ok"}) \cup {<<r, "ok">>}
    BY <2>1
  <2>4. core'[g].pending \cup core'[g].done \cup core'[g].unfinished
            = core[g].pending \cup core[g].done \cup core[g].unfinished
    BY <1>4, <2>1
  <2>5. {p[1] : p \in core[g].done \X {"ok"}} = core[g].done
    BY FirstsAre
  <2>6. r \in (core[g].pending \cup core[g].done \cup core[g].unfinished) \ core[g].done
    BY <1>4, <2>2
  <2>7. Capture(g)!Complete(r, "ok")
    BY <1>1, <1>4, <2>1, <2>3, <2>4, <2>5, <2>6 DEF Capture!Complete, Capture!Done
  <2> QED
    BY <2>7 DEF CaptureStep, Capture!Next
<1> QED
  BY <1>2, <1>3, <1>4

\* Sealing the run decides which requests stay unfinished.
LEMMA SealRefines ==
    ASSUME LedgerInv, LedgerInv', NEW t \in Threads, CoreShutdown(t), NEW g \in Generations
    PROVE  CaptureStep(g)
<1>1. /\ \A h \in Generations \ {G(t)} : core'[h] = core[h]
      /\ core[G(t)].phase = "Open" /\ told' = told /\ G(t) \in Generations
      /\ \/ core' = core
         \/ /\ core'[G(t)].phase = "Finalizing"
            /\ core'[G(t)].unfinished = core[G(t)].pending /\ core'[G(t)].pending = {}
            /\ core'[G(t)].done = core[G(t)].done
  BY CoreShutdownDoes DEF LedgerInv, BaseInv, CoreMoves
<1>2. CASE core'[g] = core[g]
  BY <1>2, QuietRefines DEF LedgerInv, SameEvidence
<1>3. CASE /\ g = G(t) /\ core'[g].phase = "Finalizing"
           /\ core'[g].unfinished = core[g].pending /\ core'[g].pending = {}
           /\ core'[g].done = core[g].done
  <2>1. /\ core[g].pending \cap core[g].done = {} /\ core[g].unfinished = {}
        /\ core[g].phase = "Open"
    BY <1>1, <1>3 DEF LedgerInv, Ledger, Held
  <2>2. {p[1] : p \in core[g].done \X {"ok"}} = core[g].done
    BY FirstsAre
  <2>3. Capture(g)!Seal
    BY <1>1, <1>3, <2>1, <2>2 DEF Capture!Seal, Capture!Done
  <2> QED
    BY <2>3 DEF CaptureStep, Capture!Next
<1> QED
  BY <1>1, <1>2, <1>3

\* Every step is for every generation a step of CaptureSpec, or leaves its
\* promise alone.
LEMMA StepRefines ==
    ASSUME LedgerInv, [Next]_vars, NEW g \in Generations
    PROVE  CaptureStep(g)
<1>0. LedgerInv'
  BY StepLedger
<1>1. CASE OffLedger /\ OffPhase
  BY <1>0, <1>1, QuietRefines, SinkRefines DEF OffLedger, OffPhase, LedgerInv
<1>2. ASSUME NEW t \in Threads, OnLedger(t) PROVE CaptureStep(g)
  <2>1. CASE Commit(t)
    BY <1>0, <2>1, CommitDoes, QuietRefines DEF LedgerInv, BaseInv, SameEvidence
  <2> QED
    BY <1>0, <1>2, <2>1, EnableRefines, AdmitRefines, FinishRefines, SealRefines DEF OnLedger
<1> QED
  BY <1>1, <1>2, StepOffLedger, StepPhase DEF LedgerInv

\* An unborn generation is an empty run.
LEMMA InitRefines ==
    ASSUME Init, NEW g \in Generations
    PROVE  Capture(g)!Init
BY DEF Init, NewRun, Capture!Init

\* Every generation keeps the promise of a capture run, whatever the other
\* generations and the threads that enable, disable, seal and shut down the
\* controller do: bounded admission, one completion per request, one seal,
\* one published result that every report agrees with.
THEOREM ControllerImplementsCapture == Spec => ImplementsCapture
<1>1. Init => \A g \in Generations : Capture(g)!Init
  BY InitRefines
<1>2. LedgerInv /\ [Next]_vars => [\A g \in Generations : [Capture(g)!Next]_(Capture(g)!vars)]_vars
  BY StepRefines DEF CaptureStep
<1> QED
  BY <1>1, <1>2, LedgerInvariance, PTL DEF Spec, ImplementsCapture
=============================================================================

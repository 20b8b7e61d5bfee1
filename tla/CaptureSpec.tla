---------------------------- MODULE CaptureSpec ----------------------------
(***************************************************************************)
(* What one capture run promises its users, without locks, clocks or       *)
(* threads: a bounded number of requests is admitted, each is completed at *)
(* most once with one outcome, sealing the run decides once and for all    *)
(* which requests stay unfinished, and one terminal result is published,   *)
(* which every shutdown() that reports a terminal result reports.          *)
(***************************************************************************)
EXTENDS Naturals, FiniteSets

CONSTANTS Requests, MaxRequests, Outcomes

VARIABLES
    admitted,    \* requests ever admitted
    completed,   \* pairs <<request, outcome>> recorded in the run
    sealed,      \* has shutdown won?
    unfinished,  \* admitted requests that were pending when the run was sealed
    result,      \* the terminal result: "none", "Ok" or "SinkError"
    seen         \* terminal results that shutdown() callers were given

vars == <<admitted, completed, sealed, unfinished, result, seen>>

Done == {p[1] : p \in completed}

Init ==
    /\ admitted = {} /\ completed = {} /\ unfinished = {} /\ seen = {}
    /\ sealed = FALSE /\ result = "none"

Admit(r) ==
    /\ ~sealed /\ r \notin admitted
    /\ Cardinality(admitted) < MaxRequests
    /\ admitted' = admitted \cup {r}
    /\ UNCHANGED <<completed, sealed, unfinished, result, seen>>

Complete(r, outcome) ==
    /\ ~sealed /\ r \in admitted \ Done
    /\ completed' = completed \cup {<<r, outcome>>}
    /\ UNCHANGED <<admitted, sealed, unfinished, result, seen>>

Seal ==
    /\ ~sealed
    /\ sealed' = TRUE
    /\ unfinished' = admitted \ Done
    /\ UNCHANGED <<admitted, completed, result, seen>>

Publish ==
    /\ sealed /\ result = "none"
    /\ result' \in {"Ok", "SinkError"}
    /\ seen' \subseteq {result'}
    /\ UNCHANGED <<admitted, completed, sealed, unfinished>>

\* A caller may also forget what it was told, by calling shutdown() again.
Observe ==
    /\ result # "none"
    /\ seen' \subseteq {result}
    /\ UNCHANGED <<admitted, completed, sealed, unfinished, result>>

Next ==
    \/ \E r \in Requests : Admit(r) \/ \E outcome \in Outcomes : Complete(r, outcome)
    \/ Seal \/ Publish \/ Observe

Spec == Init /\ [][Next]_vars
============================================================================

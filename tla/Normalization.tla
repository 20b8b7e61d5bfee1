--------------------------- MODULE Normalization ---------------------------
(***************************************************************************)
(* Canonical integrity inspection and normalization of a captured run      *)
(* (tailtriage-core/src/validation.rs).  A run is a record of sequences:   *)
(*                                                                         *)
(*   requests, stages, queues : events with the fields                     *)
(*       id    the request_id the event carries,                           *)
(*       shape "ok", or why the event alone is invalid: "blank" (a blank   *)
(*             required string) or "inverted" (wall-clock end < start),    *)
(*       s, e  the optional run-relative offsets (NoOffset when absent),   *)
(*       dur   the authoritative duration;                                 *)
(*   inflight : events with the field gauge;                               *)
(*   runtime  : "ok" or "zero_workers" (a snapshot whose optional          *)
(*              worker_count is 0);                                        *)
(*   finalized : "inverted" when finalized_at_unix_ms < started_at.        *)
(*                                                                         *)
(* The operators look at no other field, so callers may add their own.     *)
(***************************************************************************)
EXTENDS Integers, Sequences, FiniteSets

CONSTANTS Tolerance,     \* RUN_RELATIVE_DURATION_TOLERANCE_US
          BlankGauges    \* gauge names that are blank once trimmed

ASSUME ToleranceAssumption == Tolerance \in Nat

NoOffset == -1

----------------------------------------------------------------------------
(* One event.                                                              *)

AbsDiff(a, b) == IF a < b THEN b - a ELSE a - b

Precise(ev) == ev.s # NoOffset /\ ev.e # NoOffset

\* The run-relative offsets cannot be kept: one is missing, they are
\* inverted, or they contradict the duration.
PrecisionBad(ev) ==
    /\ ev.s # NoOffset \/ ev.e # NoOffset
    /\ Precise(ev) => ev.e < ev.s \/ AbsDiff(ev.dur, ev.e - ev.s) > Tolerance

ClearBad(ev) ==
    IF PrecisionBad(ev) THEN [ev EXCEPT !.s = NoOffset, !.e = NoOffset] ELSE ev

----------------------------------------------------------------------------
(* A section keeps the events at some of its input indices, in order: the  *)
(* n-th output event is the one with n kept indices up to its own.         *)

AtIndices(s, K) ==
    [n \in 1..Cardinality(K) |-> s[CHOOSE k \in K : Cardinality({j \in K : j <= k}) = n]]

----------------------------------------------------------------------------
(* Requests: an invalid event is excluded, and so is every otherwise valid *)
(* one whose request_id another otherwise valid one carries.               *)

\* Mutant: an invalid event makes the valid one with its id ambiguous.
Bug_DupIdsAny(reqs) ==
    {reqs[i].id : i \in {k \in DOMAIN reqs :
        \E j \in DOMAIN reqs \ {k} : reqs[k].id = reqs[j].id}}

DupIds(reqs) ==
    {reqs[i].id : i \in {k \in DOMAIN reqs :
        \E j \in DOMAIN reqs \ {k} :
            reqs[k].id = reqs[j].id /\ reqs[k].shape = "ok" /\ reqs[j].shape = "ok"}}

RequestRetained(reqs, r) == r.shape = "ok" /\ r.id \notin DupIds(reqs)

RetainedRequests(reqs) ==
    LET kept == AtIndices(reqs, {i \in DOMAIN reqs : RequestRetained(reqs, reqs[i])})
    IN  [n \in DOMAIN kept |-> ClearBad(kept[n])]

----------------------------------------------------------------------------
(* Children: kept only under exactly one retained parent, and inside its   *)
(* interval when both intervals are precise.                               *)

ParentState(reqs, id) ==
    LET same == {i \in DOMAIN reqs : reqs[i].id = id}
    IN  IF id \in DupIds(reqs) THEN "ambiguous"
        ELSE IF \E i \in same : RequestRetained(reqs, reqs[i]) THEN "unique"
        ELSE IF same # {} THEN "excluded"
        ELSE "orphan"

ParentOf(reqs, id) ==
    ClearBad(CHOOSE r \in {reqs[i] : i \in DOMAIN reqs} :
                 r.id = id /\ RequestRetained(reqs, r))

OutsideParent(reqs, c) ==
    LET p == ParentOf(reqs, c.id)
    IN  Precise(p) /\ Precise(c) /\ (c.s < p.s \/ c.e > p.e)

ChildRetained(reqs, c) ==
    /\ c.shape = "ok"
    /\ ParentState(reqs, c.id) = "unique"
    /\ ~OutsideParent(reqs, ClearBad(c))

RetainedChildren(reqs, cs) ==
    LET kept == AtIndices(cs, {i \in DOMAIN cs : ChildRetained(reqs, cs[i])})
    IN  [n \in DOMAIN kept |-> ClearBad(kept[n])]

----------------------------------------------------------------------------
(* normalize_run_permissive and validate_run_strict.                       *)

\* Mutant: children stay although their parent was excluded.
Bug_KeepChildren(run) ==
    [run EXCEPT !.requests = RetainedRequests(run.requests),
                !.runtime = [i \in DOMAIN run.runtime |-> "ok"]]

NormalizeRun(run) ==
    [run EXCEPT
        !.requests = RetainedRequests(run.requests),
        !.stages   = RetainedChildren(run.requests, run.stages),
        !.queues   = RetainedChildren(run.requests, run.queues),
        !.inflight = AtIndices(run.inflight,
                       {i \in DOMAIN run.inflight : run.inflight[i].gauge \notin BlankGauges}),
        !.runtime  = [i \in DOMAIN run.runtime |-> "ok"]]

\* No error-level issue in the evidence: nothing would be excluded, cleared
\* or repaired.
EvidenceValid(run) ==
    /\ \A i \in DOMAIN run.requests :
           /\ RequestRetained(run.requests, run.requests[i])
           /\ ~PrecisionBad(run.requests[i])
    /\ \A cs \in {run.stages, run.queues} : \A i \in DOMAIN cs :
           ChildRetained(run.requests, cs[i]) /\ ~PrecisionBad(cs[i])
    /\ \A i \in DOMAIN run.inflight : run.inflight[i].gauge \notin BlankGauges
    /\ \A i \in DOMAIN run.runtime : run.runtime[i] # "zero_workers"

\* The metadata that normalization reports and leaves alone: a wall-clock
\* finalization time before the start is an error.  (A blank run_id, which
\* the builder lets pass, and a foreign schema version are left out.)
MetadataValid(run) == run.finalized # "inverted"

\* validate_run_strict
StrictValid(run) == MetadataValid(run) /\ EvidenceValid(run)
============================================================================

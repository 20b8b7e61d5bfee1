---------------------------- MODULE MCController ----------------------------
(* Small instances of Controller for TLC. *)
EXTENDS Controller, TLC

CONSTANTS t1, t2, t3, r1, r2, r3

Template(a, s, m) == [auto |-> a, strict |-> s, sampler |-> m]

\* Every feature off; a sampler only; a strict one and one that auto-seals.
PlainTemplate == {Template(FALSE, FALSE, FALSE)}
SamplerTemplate == {Template(FALSE, FALSE, TRUE)}
MixedTemplates == {Template(FALSE, TRUE, FALSE), Template(TRUE, FALSE, TRUE)}

Sym == Permutations(Threads) \cup Permutations(Requests)
============================================================================

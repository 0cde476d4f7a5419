----------------------------- MODULE MCRunStore -----------------------------
(* Two runs, so that a restart recovers, loses and fails on several at     *)
(* once; one key and one context, since the store compares each of them    *)
(* only with None and with itself (AgentExecution compares two contexts,   *)
(* and two keys where a run is executed twice).                            *)
EXTENDS RunStore, TLC

CONSTANTS r1, r2

Symmetry == Permutations(Runs)
=============================================================================

-------------------------- MODULE MCAgentExecution --------------------------
(* Plans for one instrument, for two, and for one that is source and meter *)
(* at once.  Where a configuration has two runs, they compete for an       *)
(* instrument.                                                             *)
EXTENDS AgentExecution, TLC

CONSTANTS a1, a2

SinglePlan == [dual |-> FALSE, addresses |-> {a1}]

DualPlan == [dual |-> TRUE, addresses |-> {a1, a2}]

Single == {SinglePlan}

SingleOrDual == {SinglePlan, DualPlan}

AnyPlan == SingleOrDual \union {[dual |-> TRUE, addresses |-> {a1}]}

Symmetry ==
  Permutations(Runs) \union Permutations(Keys) \union Permutations(Fingerprints)
    \union Permutations(Handlers)
=============================================================================

------------------------- MODULE MCInstrumentAccess -------------------------
(* Two instruments, so that an operation can hold one lease while it waits *)
(* for another: a dual run takes both, a sweep one.  The agent's callback, *)
(* which differs from the sweep's where mark_unhealthy raises, is followed *)
(* to its end in AgentExecution.                                           *)
EXTENDS InstrumentAccess, TLC

CONSTANTS a1, a2

Alphabetical == a1 :> 1 @@ a2 :> 2

DualAndSweep ==
  { [kind |-> "dual", addresses |-> {a1, a2}], [kind |-> "sweep", addresses |-> {a1}] }

Symmetry ==
  Permutations(Resources) \union Permutations(Operations) \union Permutations(Clients)
=============================================================================

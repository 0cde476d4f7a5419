---------------------------- MODULE ExperimentRun ---------------------------
(***************************************************************************)
(* What the run store promises to the laboratory: a run is open until its  *)
(* one permission to drive hardware is granted, then executing, and a run  *)
(* that is closed stays closed, whatever crashes, failed writes and        *)
(* restarts happen.  RunStore is shown to implement this specification.    *)
(***************************************************************************)

CONSTANT Runs

VARIABLE phase

Phases == {"open", "executing", "closed"}

TypeOK == phase \in [Runs -> Phases]

Init == phase = [r \in Runs |-> "open"]

(* The only step that allows hardware to be driven for r.                  *)
Grant(r) ==
  /\ phase[r] = "open"
  /\ phase' = [phase EXCEPT ![r] = "executing"]

(* Runs end together when a restart recovers everything it finds active.   *)
Close(S) ==
  phase' = [r \in Runs |-> IF r \in S THEN "closed" ELSE phase[r]]

Next ==
  \/ \E r \in Runs : Grant(r)
  \/ \E S \in SUBSET Runs : Close(S)

Spec == Init /\ [][Next]_phase
=============================================================================

---------------------------- MODULE RunLifecycle ----------------------------
(***************************************************************************)
(* The lifecycle rules shared by agent runs and sweep sessions.            *)
(* src/src/instr_core/run_lifecycle.py                                     *)
(*                                                                         *)
(* A status is the value of the enumeration.  transition_run is a check    *)
(* (CanTransition) followed by an assignment; the modules that use it say  *)
(* whether the two happen in one step or can be separated by a thread.     *)
(***************************************************************************)

Terminal == {"completed", "aborted", "error"}

Active == {"running", "stopping"}

(* The statuses from which execution has not been reserved yet.            *)
Executable == {"planned", "dry_run"}

RunStatus == Executable \union Active \union Terminal

(* Fault: a run in error may be tried again.                               *)
AllowedTransitionsWithRetry ==
  [ planned   |-> {"dry_run"},
    dry_run   |-> {"dry_run", "running"},
    running   |-> {"stopping"} \union Terminal,
    stopping  |-> {"aborted", "error"},
    completed |-> {},
    aborted   |-> {},
    error     |-> {"dry_run"} ]

AllowedTransitions ==
  [ planned   |-> {"dry_run"},
    dry_run   |-> {"dry_run", "running"},
    running   |-> {"stopping"} \union Terminal,
    stopping  |-> {"aborted", "error"},
    completed |-> {},
    aborted   |-> {},
    error     |-> {} ]

CanTransition(current, target) == target \in AllowedTransitions[current]

IsTerminal(status) == status \in Terminal
=============================================================================

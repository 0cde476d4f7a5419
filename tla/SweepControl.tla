---------------------------- MODULE SweepControl ----------------------------
(***************************************************************************)
(* SweepEngine as its callers see it: sweeps are started, run by a thread  *)
(* of their own, stopped by other threads, and reported to a completion    *)
(* callback.  What the thread does with the instrument is left open here;  *)
(* SweepEngine adds it and implements this specification.                  *)
(* src/src/instr_core/sweep/engine.py                                      *)
(*                                                                         *)
(* The engine's lock guards the table of sessions and the worker's last    *)
(* transition, but stop_sweep changes a session's status without it, and   *)
(* transition_run is a check followed by an assignment: a stop and the     *)
(* worker can be between the two at the same time.  So the check and the   *)
(* assignment are separate steps here.                                     *)
(***************************************************************************)
EXTENDS RunLifecycle

CONSTANTS
  Sessions,  \* sweep session ids
  Stoppers,  \* threads that call stop_sweep
  Nobody     \* no session

VARIABLES
  sessions,  \* _sessions: the ids that are registered
  status,    \* session.status
  event,     \* session._stop_event: none, clear or set
  starter,   \* where start_sweep is for a session
  worker,    \* where the sweep's thread is
  target,    \* the status the worker is about to assign
  stopper    \* where a stop request is, and for which session

vars == <<sessions, status, event, starter, worker, target, stopper>>

(* driving: in the try of _execute_sweep, before its last transition;      *)
(* checking, assigning: in transition_run; failed: in the except branch.   *)
WorkerStates ==
  {"none", "enter", "driving", "checking", "failed", "assigning", "callback", "done"}

IdleStopper == [at |-> "idle", session |-> Nobody]

TypeOK ==
  /\ sessions \subseteq Sessions
  /\ status \in [Sessions -> RunStatus]
  /\ event \in [Sessions -> {"none", "clear", "set"}]
  /\ starter \in [Sessions -> {"idle", "registered", "prepared", "running", "started"}]
  /\ worker \in [Sessions -> WorkerStates]
  /\ target \in [Sessions -> Terminal]
  /\ stopper \in [Stoppers -> [at : {"idle", "found", "checking", "assigning", "setting"},
                               session : Sessions \union {Nobody}]]

Init ==
  /\ sessions = {}
  /\ status = [s \in Sessions |-> "planned"]
  /\ event = [s \in Sessions |-> "none"]
  /\ starter = [s \in Sessions |-> "idle"]
  /\ worker = [s \in Sessions |-> "none"]
  /\ target = [s \in Sessions |-> "error"]
  /\ stopper = [t \in Stoppers |-> IdleStopper]

-----------------------------------------------------------------------------
(* start_sweep.                                                            *)

Starting(s, from, to) ==
  /\ starter[s] = from
  /\ starter' = [starter EXCEPT ![s] = to]
  /\ UNCHANGED <<target, stopper>>

Register(s) ==
  /\ s \notin sessions
  /\ Starting(s, "idle", "registered")
  /\ sessions' = sessions \union {s}
  /\ UNCHANGED <<status, event, worker>>

Prepare(s) ==
  /\ Starting(s, "registered", "prepared")
  /\ event' = [event EXCEPT ![s] = "clear"]
  /\ UNCHANGED <<sessions, status, worker>>

(* PLANNED -> DRY_RUN -> RUNNING: nobody distinguishes the first two.      *)
BeginRunning(s) ==
  /\ Starting(s, "prepared", "running")
  /\ status' = [status EXCEPT ![s] = "running"]
  /\ UNCHANGED <<sessions, event, worker>>

Spawn(s) ==
  /\ Starting(s, "running", "started")
  /\ worker' = [worker EXCEPT ![s] = "enter"]
  /\ UNCHANGED <<sessions, status, event>>

(* What start_sweep does once the session is registered.                   *)
Launch(s) == Prepare(s) \/ BeginRunning(s) \/ Spawn(s)

-----------------------------------------------------------------------------
(* The worker: _run_sweep and _execute_sweep.                              *)

Working(s, from, to) ==
  /\ worker[s] = from
  /\ worker' = [worker EXCEPT ![s] = to]
  /\ UNCHANGED <<sessions, event, starter, stopper>>

EnterLease(s) ==
  /\ Working(s, "enter", "driving")
  /\ UNCHANGED <<status, target>>

(* The lease is entered outside the try that turns errors into ERROR: the  *)
(* callback follows and the status is left as it is.                       *)
LeaseFails(s) ==
  /\ Working(s, "enter", "callback")
  /\ UNCHANGED <<status, target>>

(* Fault: the session's status is asked instead of its stop event.         *)
OutcomeByStatus(s) == IF status[s] = "stopping" THEN "aborted" ELSE "completed"

(* Fault: a stopped sweep ends with the status it has.                     *)
OutcomeAsItIs(s) == IF event[s] = "set" THEN status[s] ELSE "completed"

Outcome(s) == IF event[s] = "set" THEN "aborted" ELSE "completed"

(* The loop is over and the output has been turned off.                    *)
Decide(s) ==
  /\ Working(s, "driving", "checking")
  /\ target' = [target EXCEPT ![s] = Outcome(s)]
  /\ UNCHANGED status

(* A command raised.                                                       *)
Fail(s) ==
  /\ Working(s, "driving", "failed")
  /\ UNCHANGED <<status, target>>

(* Fault: the worker tries its transition until it is allowed.             *)
CheckUntilAllowed(s) ==
  /\ Working(s, "checking", IF CanTransition(status[s], target[s])
                              THEN "assigning" ELSE "checking")
  /\ UNCHANGED <<status, target>>

(* transition_run, the check: what it raises is caught by the except branch.*)
Check(s) ==
  /\ Working(s, "checking", IF CanTransition(status[s], target[s])
                              THEN "assigning" ELSE "failed")
  /\ UNCHANGED <<status, target>>

(* The check of the except branch: nothing catches what it raises.         *)
CheckError(s) ==
  /\ Working(s, "failed", IF CanTransition(status[s], "error")
                            THEN "assigning" ELSE "callback")
  /\ target' = [target EXCEPT ![s] = "error"]
  /\ UNCHANGED status

Assign(s) ==
  /\ Working(s, "assigning", "callback")
  /\ status' = [status EXCEPT ![s] = target[s]]
  /\ UNCHANGED target

(* on_complete has returned or raised; the thread ends.                    *)
Finish(s) ==
  /\ Working(s, "callback", "done")
  /\ UNCHANGED <<status, target>>

Work(s) ==
  \/ EnterLease(s) \/ LeaseFails(s)
  \/ Decide(s) \/ Fail(s)
  \/ Check(s) \/ CheckError(s)
  \/ Assign(s)

-----------------------------------------------------------------------------
(* stop_sweep, by thread t.                                                *)

Stopping(t, from, s, to) ==
  /\ stopper[t].at = from
  /\ stopper' = [stopper EXCEPT ![t] =
                   IF to = "idle" THEN IdleStopper ELSE [at |-> to, session |-> s]]
  /\ UNCHANGED <<sessions, starter, worker, target>>

(* A session that is not registered is a KeyError and no step.             *)
StopLookup(t, s) ==
  /\ s \in sessions
  /\ Stopping(t, "idle", s, "found")
  /\ UNCHANGED <<status, event>>

(* No event yet: stop_sweep returns as if it had done something.           *)
StopTooEarly(t) ==
  /\ Stopping(t, "found", Nobody, "idle")
  /\ event[stopper[t].session] = "none"
  /\ UNCHANGED <<status, event>>

StopLooks(t) ==
  LET s == stopper[t].session
  IN  /\ stopper[t].at = "found" /\ event[s] # "none"
      /\ Stopping(t, "found", s, IF status[s] = "running" THEN "checking" ELSE "setting")
      /\ UNCHANGED <<status, event>>

(* InvalidRunTransition leaves stop_sweep without setting the event.       *)
StopRefused(t) ==
  /\ Stopping(t, "checking", Nobody, "idle")
  /\ ~CanTransition(status[stopper[t].session], "stopping")
  /\ UNCHANGED <<status, event>>

StopChecks(t) ==
  LET s == stopper[t].session
  IN  /\ stopper[t].at = "checking" /\ CanTransition(status[s], "stopping")
      /\ Stopping(t, "checking", s, "assigning")
      /\ UNCHANGED <<status, event>>

StopAssigns(t) ==
  LET s == stopper[t].session
  IN  /\ Stopping(t, "assigning", s, "setting")
      /\ status' = [status EXCEPT ![s] = "stopping"]
      /\ UNCHANGED event

StopSets(t) ==
  /\ Stopping(t, "setting", Nobody, "idle")
  /\ event' = [event EXCEPT ![stopper[t].session] = "set"]
  /\ UNCHANGED status

StopStep(t) ==
  \/ StopTooEarly(t) \/ StopLooks(t)
  \/ StopRefused(t) \/ StopChecks(t)
  \/ StopAssigns(t) \/ StopSets(t)

-----------------------------------------------------------------------------
Next ==
  \/ \E s \in Sessions : Register(s) \/ Launch(s) \/ Work(s) \/ Finish(s)
  \/ \E t \in Stoppers, s \in Sessions : StopLookup(t, s)
  \/ \E t \in Stoppers : StopStep(t)

Spec == Init /\ [][Next]_vars

(* Threads that can run do: VISA calls return or time out, and nothing     *)
(* here waits for anybody.  No client has to start a sweep or to stop one. *)
Fairness ==
  /\ \A s \in Sessions : WF_vars(Launch(s)) /\ WF_vars(Work(s)) /\ WF_vars(Finish(s))
  /\ \A t \in Stoppers : WF_vars(StopStep(t))

FairSpec == Spec /\ Fairness

-----------------------------------------------------------------------------
(* Properties.                                                             *)

(* Every sweep that was registered gets a thread, and the thread runs the  *)
(* completion callback and ends.                                           *)
SweepEnds == \A s \in Sessions : s \in sessions ~> worker[s] = "done"

(* A stop whose event reaches the worker while it is still driving the     *)
(* instrument ends the sweep as aborted or in error, never as a normal     *)
(* completion (stop_sweep has already moved the status off running).       *)
StopEndsTheSweep ==
  \A s \in Sessions :
    event[s] = "set" /\ worker[s] = "driving" ~> status[s] \in {"aborted", "error"}
=============================================================================

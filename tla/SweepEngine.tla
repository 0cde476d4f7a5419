----------------------------- MODULE SweepEngine ----------------------------
(***************************************************************************)
(* SweepControl with the instrument: what the sweep's thread writes, what  *)
(* may fail, and how the output is turned off.                             *)
(* src/src/instr_core/sweep/engine.py, src/src/instr_core/safety.py        *)
(*                                                                         *)
(* The instrument is external.  A write that returns has been executed; a  *)
(* write that raises (a timeout, a broken link) may or may not have been.  *)
(***************************************************************************)
EXTENDS RunLifecycle, Naturals

CONSTANTS
  Sessions, Stoppers, Nobody,  \* as in SweepControl
  Levels                       \* length of the source point sequence

ASSUME LevelsAssumption == Levels \in Nat \ {0}

VARIABLES
  sessions, status, event, starter, worker, target, stopper,  \* SweepControl
  phase,     \* where _execute_sweep is
  step,      \* the setup command it has reached; 0 before the lease
  attempt,   \* the teardown attempt it has reached
  points,    \* how many points were measured
  report,    \* the last TeardownReport: none, safe or unsafe
  output,    \* external: the instrument's output is ON
  limited    \* external: its compliance limit is programmed

Control == INSTANCE SweepControl

controlVars == <<sessions, status, event, starter, worker, target, stopper>>
deviceVars == <<output, limited>>
executeVars == <<phase, step, attempt, points, report>>
vars == <<controlVars, executeVars, deviceVars>>

(* Fault: the limit is programmed after the output is on.                  *)
SetupLimitLast == <<"reset", "off", "function", "range", "level", "on", "protect">>

(* The writes of the safety initialisation, in order.                      *)
Setup == <<"reset", "off", "function", "protect", "range", "level", "on">>

(* The attempts of safe_turn_off_output, in order.                         *)
Attempts == <<"off", "off", "reset">>

TypeOK ==
  /\ Control!TypeOK
  /\ phase \in [Sessions -> {"idle", "setup", "scan", "measure", "closing", "closed"}]
  /\ step \in [Sessions -> 0 .. 7]
  /\ attempt \in [Sessions -> 1 .. 3]
  /\ points \in [Sessions -> 0 .. Levels]
  /\ report \in [Sessions -> {"none", "safe", "unsafe"}]
  /\ output \in [Sessions -> BOOLEAN]
  /\ limited \in [Sessions -> BOOLEAN]

(* Whatever was done to the instrument before, its output may be ON.       *)
Init ==
  /\ Control!Init
  /\ phase = [s \in Sessions |-> "idle"]
  /\ step = [s \in Sessions |-> 0]
  /\ attempt = [s \in Sessions |-> 1]
  /\ points = [s \in Sessions |-> 0]
  /\ report = [s \in Sessions |-> "none"]
  /\ output \in [Sessions -> BOOLEAN]
  /\ limited = [s \in Sessions |-> FALSE]

-----------------------------------------------------------------------------
(* The instrument.                                                         *)

Execute(s, command) ==
  /\ output' = [output EXCEPT ![s] = IF command = "on" THEN TRUE
                                     ELSE IF command \in {"off", "reset"} THEN FALSE
                                     ELSE @]
  /\ limited' = [limited EXCEPT ![s] = IF command = "protect" THEN TRUE
                                       ELSE IF command = "reset" THEN FALSE
                                       ELSE @]

(* One visa.write: ok when it returns.                                     *)
Write(s, command, ok) ==
  \/ Execute(s, command)
  \/ ~ok /\ UNCHANGED deviceVars

-----------------------------------------------------------------------------
(* _execute_sweep.                                                         *)

Go(s, from, to) ==
  /\ worker[s] = "driving"
  /\ phase[s] = from
  /\ phase' = [phase EXCEPT ![s] = to]

EnterLease(s) ==
  /\ Control!EnterLease(s)
  /\ phase' = [phase EXCEPT ![s] = "setup"]
  /\ step' = [step EXCEPT ![s] = 1]
  /\ UNCHANGED <<attempt, points, report, deviceVars>>

(* Fault: the except branch reports the error without turning the output   *)
(* off.                                                                    *)
RaiseWithoutTeardown(s) ==
  /\ Control!Fail(s)
  /\ phase' = [phase EXCEPT ![s] = "closed"]
  /\ UNCHANGED <<step, attempt, points, report>>

(* An exception anywhere in the try: the except branch tears down first.   *)
Raise(s) ==
  /\ Control!Fail(s)
  /\ phase' = [phase EXCEPT ![s] = "closing"]
  /\ UNCHANGED <<step, attempt, points, report>>

SetupWrite(s) ==
  /\ Go(s, "setup", IF step[s] = 7 THEN "scan" ELSE "setup")
  /\ Write(s, Setup[step[s]], TRUE)
  /\ step' = IF step[s] < 7 THEN [step EXCEPT ![s] = @ + 1] ELSE step
  /\ UNCHANGED <<controlVars, attempt, points, report>>

SetupRaises(s) ==
  /\ phase[s] = "setup"
  /\ Raise(s)
  /\ Write(s, Setup[step[s]], FALSE)

(* Fault: the last level is left out.                                      *)
ScanEndsEarly(s) == event[s] = "set" \/ points[s] + 1 = Levels

(* Fault: one level too many.                                              *)
ScanEndsLate(s) == event[s] = "set" \/ points[s] > Levels

(* The loop test: the stop event first, then the next level.               *)
ScanEnds(s) == event[s] = "set" \/ points[s] = Levels

Scan(s) ==
  /\ Go(s, "scan", IF ScanEnds(s) THEN "closing" ELSE "measure")
  /\ UNCHANGED <<controlVars, step, attempt, points, report, deviceVars>>

(* Write the level, wait, query :READ? and append the point.               *)
Measure(s) ==
  /\ Go(s, "measure", "scan")
  /\ points' = [points EXCEPT ![s] = @ + 1]
  /\ UNCHANGED <<controlVars, step, attempt, report, deviceVars>>

(* The write, the query or the parsing of its answer raises.               *)
MeasureRaises(s) ==
  /\ phase[s] = "measure"
  /\ Raise(s)
  /\ UNCHANGED deviceVars

(* One attempt of safe_turn_off_output, in the try or in the except branch.*)
Teardown(s, ok) ==
  LET over == ok \/ attempt[s] = 3
  IN  /\ worker[s] \in {"driving", "failed"}
      /\ phase[s] = "closing"
      /\ phase' = [phase EXCEPT ![s] = IF over THEN "closed" ELSE @]
      /\ Write(s, Attempts[attempt[s]], ok)
      /\ attempt' = [attempt EXCEPT ![s] = IF over THEN 1 ELSE @ + 1]
      /\ report' = IF over THEN [report EXCEPT ![s] = IF ok THEN "safe" ELSE "unsafe"]
                   ELSE report
      /\ UNCHANGED <<controlVars, step, points>>

(* Fault: the stop event is forgotten once the output is off.              *)
DecideCompleted(s) ==
  /\ phase[s] = "closed"
  /\ Control!Working(s, "driving", "checking")
  /\ target' = [target EXCEPT ![s] = "completed"]
  /\ UNCHANGED <<status, executeVars, deviceVars>>

(* The transitions, which wait for the teardown.  A transition that is     *)
(* refused inside the try leads to the except branch and its teardown.     *)
Decide(s) ==
  /\ phase[s] = "closed"
  /\ Control!Decide(s)
  /\ UNCHANGED <<executeVars, deviceVars>>

Check(s) ==
  /\ Control!Check(s)
  /\ phase' = [phase EXCEPT ![s] = IF worker'[s] = "failed" THEN "closing" ELSE @]
  /\ UNCHANGED <<step, attempt, points, report, deviceVars>>

CheckError(s) ==
  /\ phase[s] = "closed"
  /\ Control!CheckError(s)
  /\ UNCHANGED <<executeVars, deviceVars>>

Work(s) ==
  \/ EnterLease(s)
  \/ SetupWrite(s) \/ SetupRaises(s)
  \/ Scan(s)
  \/ Measure(s) \/ MeasureRaises(s)
  \/ \E ok \in BOOLEAN : Teardown(s, ok)
  \/ Decide(s) \/ Check(s) \/ CheckError(s)

-----------------------------------------------------------------------------
(* Everything else is SweepControl's and does not touch the instrument.    *)
Quietly(A) == A /\ UNCHANGED <<executeVars, deviceVars>>

Start(s) == Quietly(Control!Register(s) \/ Control!Launch(s))

Around(s) ==
  \/ Quietly(Control!LeaseFails(s))
  \/ Quietly(Control!Assign(s))
  \/ Quietly(Control!Finish(s))

Stop(t) ==
  \/ \E s \in Sessions : Quietly(Control!StopLookup(t, s))
  \/ Quietly(Control!StopStep(t))

Next ==
  \/ \E s \in Sessions : Start(s) \/ Work(s) \/ Around(s)
  \/ \E t \in Stoppers : Stop(t)

Spec == Init /\ [][Next]_vars

(* As in SweepControl: VISA calls return or time out, and every thread     *)
(* that can take a step takes one.                                         *)
Fairness ==
  /\ \A s \in Sessions : /\ WF_vars(Quietly(Control!Launch(s)))
                         /\ WF_vars(Work(s) \/ Around(s))
  /\ \A t \in Stoppers : WF_vars(Quietly(Control!StopStep(t)))

FairSpec == Spec /\ Fairness

-----------------------------------------------------------------------------
(* Properties.                                                             *)

Over(s) == worker[s] \in {"callback", "done"}

(* However a sweep ends - all points, a stop, a failed command anywhere, a *)
(* transition refused at the end - once its thread has had the instrument  *)
(* the output is off, or every attempt to turn it off has raised and the   *)
(* report says so.                                                         *)
OffOrReported ==
  \A s \in Sessions : Over(s) /\ step[s] > 0 =>
    report[s] = "unsafe" \/ (report[s] = "safe" /\ ~output[s])

(* From its reset on, a sweep never has the output on without the          *)
(* compliance limit programmed, failed writes included.                    *)
OnlyOnWithLimit ==
  \A s \in Sessions : step[s] > 1 /\ output[s] => limited[s]

(* A sweep that reports completion has measured every level, and one that  *)
(* reports an abort was asked to stop.                                     *)
OutcomeIsHonest ==
  \A s \in Sessions :
    /\ status[s] = "completed" => points[s] = Levels
    /\ status[s] = "aborted" => event[s] = "set"

(* The thread with its writes, retries and failures is one of the threads  *)
(* SweepControl allows, and it ends when they do.                          *)
ImplementsControl == Control!FairSpec

(* With the retries of the teardown and every way a command may fail, a    *)
(* sweep that was registered still comes to its callback and ends.         *)
SweepEnds == Control!SweepEnds

(* A stop that reaches the worker while it drives the instrument, in setup,*)
(* between two levels or in the teardown, ends the sweep as a stop.        *)
StopEndsTheSweep == Control!StopEndsTheSweep
=============================================================================

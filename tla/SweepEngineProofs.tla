-------------------------- MODULE SweepEngineProofs -------------------------
(***************************************************************************)
(* What SweepEngine promises of the thread that drives the instrument, for *)
(* any sets of sessions and of stop requests and any number of levels.     *)
(*                                                                         *)
(* The invariants the runs check speak of the end of a sweep; none is      *)
(* inductive.  IInv follows a sweep through its phases: how far it was     *)
(* launched (Launching), which phase of _execute_sweep each state of the   *)
(* thread is in (Phases), that the output is off before the switch that    *)
(* follows the limit (Limits), that a phase that counts as closed has a    *)
(* report (TornDown), and why the thread decided what it decided           *)
(* (Deciding).                                                             *)
(***************************************************************************)
EXTENDS SweepEngine, TLAPS

(* A session has no stop event before it is prepared and no thread before  *)
(* it is running; a stop has got past its look at the event only if there  *)
(* is one.                                                                 *)
Launching ==
  /\ \A s \in Sessions :
       /\ starter[s] \in {"idle", "registered"} => event[s] = "none"
       /\ starter[s] # "started" => worker[s] = "none"
       /\ worker[s] \in {"none", "enter"} => phase[s] = "idle" /\ step[s] = 0
  /\ \A t \in Stoppers :
       /\ stopper[t].at # "idle" => stopper[t].session \in Sessions
       /\ stopper[t].at \in {"checking", "assigning", "setting"} =>
            event[stopper[t].session] # "none"

(* In which phase of _execute_sweep each state of the thread is: only a    *)
(* sweep past its teardown is over or deciding, a level is measured only   *)
(* when one is left.                                                       *)
Phases ==
  \A s \in Sessions :
    /\ worker[s] = "driving" => phase[s] # "idle"
    /\ worker[s] = "failed" => phase[s] \in {"closing", "closed"}
    /\ worker[s] \in {"checking", "assigning"} => phase[s] = "closed"
    /\ Over(s) /\ step[s] > 0 => phase[s] = "closed"
    /\ phase[s] = "setup" => step[s] > 0
    /\ phase[s] = "measure" => points[s] < Levels

(* A teardown that is over has reported, and a report says the truth.      *)
TornDown ==
  \A s \in Sessions : phase[s] = "closed" =>
    report[s] = "unsafe" \/ (report[s] = "safe" /\ ~output[s])

(* The setup switches the output off before it programs the limit, and on  *)
(* only after it.                                                          *)
Limits ==
  /\ OnlyOnWithLimit
  /\ \A s \in Sessions : phase[s] = "setup" =>
       /\ step[s] > 1 => ~output[s]
       /\ step[s] > 4 => limited[s]

(* What the thread goes on to report is what made it leave its loop, and   *)
(* the status says so only once the sweep is over.                         *)
Deciding ==
  /\ OutcomeIsHonest
  /\ \A s \in Sessions :
       /\ worker[s] = "driving" /\ phase[s] \in {"closing", "closed"} =>
            event[s] = "set" \/ points[s] = Levels
       /\ worker[s] \in {"checking", "assigning"} =>
            /\ target[s] = "completed" => points[s] = Levels
            /\ target[s] = "aborted" => event[s] = "set"
       /\ status[s] \in {"completed", "aborted"} => Over(s)

IInv == TypeOK /\ Launching /\ Phases /\ TornDown /\ Limits /\ Deciding

-----------------------------------------------------------------------------
(* The statuses a session is given are statuses.                           *)
LEMMA StatusTypes ==
  /\ {"running", "stopping"} \subseteq Control!RunStatus
  /\ {"completed", "aborted", "error"} \subseteq Control!Terminal
  /\ Control!Terminal \subseteq Control!RunStatus
BY DEF Control!RunStatus, Control!Active, Control!Terminal

(* The output is switched on by the last command of the setup and by no    *)
(* attempt of the teardown.                                                *)
LEMMA CommandOrder ==
  /\ \A i \in 1 .. 7 : /\ Setup[i] = "reset" <=> i = 1
                       /\ Setup[i] = "protect" <=> i = 4
                       /\ Setup[i] = "on" <=> i = 7
  /\ \A i \in 1 .. 3 : Attempts[i] \in {"off", "reset"}
<1>1. ASSUME NEW i \in 1 .. 7
      PROVE  i = 1 \/ i = 2 \/ i = 3 \/ i = 4 \/ i = 5 \/ i = 6 \/ i = 7
  OBVIOUS
<1>2. ASSUME NEW i \in 1 .. 3
      PROVE  i = 1 \/ i = 2 \/ i = 3
  OBVIOUS
<1>3. QED
  BY DEF Setup, Attempts

(* What a write does to the instrument, whether it returns or raises: no   *)
(* command but the last of the setup turns the output on, only a reset     *)
(* loses the limit, and a write that returns was executed.                 *)
Written(s, command, ok) ==
  /\ output' \in [Sessions -> BOOLEAN]
  /\ limited' \in [Sessions -> BOOLEAN]
  /\ \A q \in Sessions : q # s =>
       output'[q] = output[q] /\ limited'[q] = limited[q]
  /\ output'[s] => output[s] \/ command = "on"
  /\ limited[s] /\ command # "reset" => limited'[s]
  /\ (output[s] => limited[s]) /\ command # "on" => (output'[s] => limited'[s])
  /\ ok /\ command \in {"off", "reset"} => ~output'[s]
  /\ ok /\ command = "protect" => limited'[s]

(* Every visa.write of the engine does that.                               *)
LEMMA WriteFacts ==
  ASSUME TypeOK, NEW s \in Sessions, NEW command, NEW ok \in BOOLEAN,
         Write(s, command, ok)
  PROVE  Written(s, command, ok)
BY DEF TypeOK, Write, Execute, deviceVars, Written

-----------------------------------------------------------------------------
(* Every step keeps the inductive invariant.                               *)
LEMMA StepInv ==
  ASSUME IInv, Next
  PROVE  IInv'
<1> USE LevelsAssumption
<1>1. ASSUME NEW s \in Sessions, Quietly(Control!Register(s))
      PROVE  IInv'
  <2>1. TypeOK'
    BY <1>1 DEF IInv, TypeOK, Control!TypeOK, executeVars, deviceVars,
       Quietly, Control!Register, Control!Starting
  <2>2. Launching' /\ Phases'
    BY <1>1 DEF IInv, Launching, Phases, Over, executeVars, Quietly,
       Control!Register, Control!Starting
  <2>3. TornDown' /\ Limits'
    BY <1>1 DEF IInv, TornDown, Limits, OnlyOnWithLimit, executeVars,
       deviceVars, Quietly
  <2>4. Deciding'
    BY <1>1 DEF IInv, Deciding, OutcomeIsHonest, Over, executeVars, Quietly,
       Control!Register, Control!Starting
  <2>5. QED
    BY <2>1, <2>2, <2>3, <2>4 DEF IInv
<1>2. ASSUME NEW s \in Sessions, Quietly(Control!Prepare(s))
      PROVE  IInv'
  <2>1. TypeOK'
    BY <1>2 DEF IInv, TypeOK, Control!TypeOK, executeVars, deviceVars,
       Quietly, Control!Prepare, Control!Starting
  <2>2. Launching' /\ Phases'
    BY <1>2 DEF IInv, TypeOK, Control!TypeOK, Launching, Phases, Over,
       executeVars, Quietly, Control!Prepare, Control!Starting
  <2>3. TornDown' /\ Limits'
    BY <1>2 DEF IInv, TornDown, Limits, OnlyOnWithLimit, executeVars,
       deviceVars, Quietly
  <2>4. Deciding'
    BY <1>2 DEF IInv, Launching, Deciding, OutcomeIsHonest, Over, executeVars,
       Quietly, Control!Prepare, Control!Starting
  <2>5. QED
    BY <2>1, <2>2, <2>3, <2>4 DEF IInv
<1>3. ASSUME NEW s \in Sessions, Quietly(Control!BeginRunning(s))
      PROVE  IInv'
  <2>1. TypeOK'
    BY <1>3, StatusTypes DEF IInv, TypeOK, Control!TypeOK, executeVars,
       deviceVars, Quietly, Control!BeginRunning, Control!Starting
  <2>2. Launching' /\ Phases'
    BY <1>3 DEF IInv, Launching, Phases, Over, executeVars, Quietly,
       Control!BeginRunning, Control!Starting
  <2>3. TornDown' /\ Limits'
    BY <1>3 DEF IInv, TornDown, Limits, OnlyOnWithLimit, executeVars,
       deviceVars, Quietly
  <2>4. Deciding'
    BY <1>3 DEF IInv, Deciding, OutcomeIsHonest, Over, executeVars, Quietly,
       Control!BeginRunning, Control!Starting
  <2>5. QED
    BY <2>1, <2>2, <2>3, <2>4 DEF IInv
<1>4. ASSUME NEW s \in Sessions, Quietly(Control!Spawn(s))
      PROVE  IInv'
  <2>1. TypeOK'
    BY <1>4 DEF IInv, TypeOK, Control!TypeOK, Control!WorkerStates,
       executeVars, deviceVars, Quietly, Control!Spawn, Control!Starting
  <2>2. Launching' /\ Phases'
    BY <1>4 DEF IInv, TypeOK, Control!TypeOK, Launching, Phases, Over,
       executeVars, Quietly, Control!Spawn, Control!Starting
  <2>3. TornDown' /\ Limits'
    BY <1>4 DEF IInv, TornDown, Limits, OnlyOnWithLimit, executeVars,
       deviceVars, Quietly
  <2>4. Deciding'
    BY <1>4 DEF IInv, Launching, Deciding, OutcomeIsHonest, Over, executeVars,
       Quietly, Control!Spawn, Control!Starting
  <2>5. QED
    BY <2>1, <2>2, <2>3, <2>4 DEF IInv
<1>5. ASSUME NEW s \in Sessions, EnterLease(s)
      PROVE  IInv'
  <2>1. TypeOK'
    BY <1>5 DEF IInv, TypeOK, Control!TypeOK, Control!WorkerStates,
       deviceVars, EnterLease, Control!EnterLease, Control!Working
  <2>2. Launching' /\ Phases'
    BY <1>5 DEF IInv, TypeOK, Control!TypeOK, Launching, Phases, Over,
       EnterLease, Control!EnterLease, Control!Working
  <2>3. TornDown' /\ Limits'
    BY <1>5 DEF IInv, TypeOK, TornDown, Limits, OnlyOnWithLimit, deviceVars,
       EnterLease
  <2>4. Deciding'
    BY <1>5 DEF IInv, TypeOK, Deciding, OutcomeIsHonest, Over, EnterLease,
       Control!EnterLease, Control!Working
  <2>5. QED
    BY <2>1, <2>2, <2>3, <2>4 DEF IInv
<1>6. ASSUME NEW s \in Sessions, SetupWrite(s)
      PROVE  IInv'
  <2> DEFINE c == Setup[step[s]]
  <2>1. Write(s, c, TRUE) /\ TypeOK
    BY <1>6 DEF IInv, SetupWrite
  <2>2. Written(s, c, TRUE)
    BY <2>1, WriteFacts
  <2>3. /\ step[s] \in 1 .. 7
        /\ c = "reset" <=> step[s] = 1
        /\ c = "protect" <=> step[s] = 4
        /\ c = "on" <=> step[s] = 7
    BY <1>6, CommandOrder DEF IInv, TypeOK, Phases, SetupWrite, Go
  <2> HIDE DEF c
  <2>4. TypeOK'
    <3>1. phase' \in [Sessions -> {"idle", "setup", "scan", "measure",
                              "closing", "closed"}]
      BY <1>6 DEF IInv, TypeOK, SetupWrite, Go
    <3>2. Control!TypeOK'
      BY <1>6 DEF IInv, TypeOK, Control!TypeOK, SetupWrite, controlVars
    <3>3. QED
      BY <1>6, <2>2, <3>1, <3>2 DEF Written, IInv, TypeOK, SetupWrite
  <2>5. Launching' /\ Phases'
    BY <1>6 DEF IInv, TypeOK, Launching, Phases, Over, controlVars,
       SetupWrite, Go
  <2>6. TornDown' /\ Limits'
    BY <1>6, <2>2, <2>3 DEF Written, IInv, TypeOK, TornDown, Limits,
       OnlyOnWithLimit, SetupWrite, Go
  <2>7. Deciding'
    BY <1>6 DEF IInv, Deciding, OutcomeIsHonest, Over, controlVars,
       SetupWrite, Go
  <2>8. QED
    BY <2>4, <2>5, <2>6, <2>7 DEF IInv
<1>7. ASSUME NEW s \in Sessions, SetupRaises(s)
      PROVE  IInv'
  <2> DEFINE c == Setup[step[s]]
  <2>1. Write(s, c, FALSE) /\ TypeOK
    BY <1>7 DEF IInv, SetupRaises
  <2>2. Written(s, c, FALSE)
    BY <2>1, WriteFacts
  <2>3. /\ step[s] \in 1 .. 7
        /\ c = "reset" <=> step[s] = 1
        /\ c = "protect" <=> step[s] = 4
        /\ c = "on" <=> step[s] = 7
    BY <1>7, CommandOrder DEF IInv, TypeOK, Phases, SetupRaises
  <2> HIDE DEF c
  <2>4. TypeOK'
    BY <1>7, <2>2 DEF Written, IInv, TypeOK, Control!TypeOK, Control!WorkerStates,
       SetupRaises, Raise, Control!Fail, Control!Working
  <2>5. Launching' /\ Phases'
    BY <1>7 DEF IInv, TypeOK, Launching, Phases, Over, SetupRaises, Raise,
       Control!Fail, Control!Working
  <2>6. TornDown' /\ Limits'
    BY <1>7, <2>2, <2>3 DEF Written, IInv, TypeOK, TornDown, Limits,
       OnlyOnWithLimit, SetupRaises, Raise
  <2>7. Deciding'
    BY <1>7 DEF IInv, TypeOK, Control!TypeOK, Deciding, OutcomeIsHonest, Over,
       SetupRaises, Raise, Control!Fail, Control!Working
  <2>8. QED
    BY <2>4, <2>5, <2>6, <2>7 DEF IInv
<1>8. ASSUME NEW s \in Sessions, Scan(s)
      PROVE  IInv'
  <2>1. TypeOK' /\ Launching'
    BY <1>8 DEF IInv, TypeOK, Control!TypeOK, Launching, controlVars,
       deviceVars, Scan, Go
  <2>2. Phases'
    <3>1. phase'[s] = "measure" => points[s] < Levels
      BY <1>8 DEF IInv, TypeOK, Scan, Go, ScanEnds
    <3>2. QED
      BY <1>8, <3>1 DEF IInv, Phases, Over, Scan, Go, controlVars
  <2>3. TornDown' /\ Limits'
    BY <1>8 DEF IInv, TornDown, Limits, OnlyOnWithLimit, deviceVars, Scan, Go
  <2>4. Deciding'
    BY <1>8 DEF IInv, Deciding, OutcomeIsHonest, Over, controlVars, Scan, Go,
       ScanEnds
  <2>5. QED
    BY <2>1, <2>2, <2>3, <2>4 DEF IInv
<1>9. ASSUME NEW s \in Sessions, Measure(s)
      PROVE  IInv'
  <2>1. TypeOK'
    BY <1>9 DEF IInv, TypeOK, Control!TypeOK, Phases, controlVars, deviceVars,
       Measure, Go
  <2>2. Launching' /\ Phases'
    BY <1>9 DEF IInv, TypeOK, Launching, Phases, Over, controlVars, Measure,
       Go
  <2>3. TornDown' /\ Limits'
    BY <1>9 DEF IInv, TornDown, Limits, OnlyOnWithLimit, deviceVars, Measure,
       Go
  <2>4. Deciding'
    BY <1>9 DEF IInv, Deciding, OutcomeIsHonest, Over, controlVars, Measure,
       Go
  <2>5. QED
    BY <2>1, <2>2, <2>3, <2>4 DEF IInv
<1>10. ASSUME NEW s \in Sessions, MeasureRaises(s)
      PROVE  IInv'
  <2>1. TypeOK'
    BY <1>10 DEF IInv, TypeOK, Control!TypeOK, Control!WorkerStates,
       deviceVars, MeasureRaises, Raise, Control!Fail, Control!Working
  <2>2. Launching' /\ Phases'
    BY <1>10 DEF IInv, TypeOK, Launching, Phases, Over, MeasureRaises, Raise,
       Control!Fail, Control!Working
  <2>3. TornDown' /\ Limits'
    BY <1>10 DEF IInv, TornDown, Limits, OnlyOnWithLimit, deviceVars,
       MeasureRaises, Raise
  <2>4. Deciding'
    BY <1>10 DEF IInv, TypeOK, Control!TypeOK, Deciding, OutcomeIsHonest,
       Over, MeasureRaises, Raise, Control!Fail, Control!Working
  <2>5. QED
    BY <2>1, <2>2, <2>3, <2>4 DEF IInv
<1>11. ASSUME NEW s \in Sessions, NEW ok \in BOOLEAN, Teardown(s, ok)
      PROVE  IInv'
  <2> DEFINE c == Attempts[attempt[s]]
  <2>1. Write(s, c, ok) /\ TypeOK
    BY <1>11 DEF IInv, Teardown
  <2>2. Written(s, c, ok)
    BY <2>1, WriteFacts
  <2>3. attempt[s] \in 1 .. 3 /\ c \in {"off", "reset"}
    BY <2>1, CommandOrder DEF TypeOK
  <2> HIDE DEF c
  <2>4. TypeOK'
    <3>1. attempt' \in [Sessions -> 1 .. 3]
      BY <1>11 DEF IInv, TypeOK, Teardown
    <3>2. Control!TypeOK'
      BY <1>11 DEF IInv, TypeOK, Control!TypeOK, Teardown, controlVars
    <3>3. QED
      BY <1>11, <2>2, <3>1, <3>2 DEF Written, IInv, TypeOK, Teardown
  <2>5. Launching' /\ Phases'
    BY <1>11 DEF IInv, Launching, Phases, Over, controlVars, Teardown
  <2>6. TornDown' /\ Limits'
    BY <1>11, <2>2, <2>3 DEF Written, IInv, TypeOK, TornDown, Limits,
       OnlyOnWithLimit, Teardown
  <2>7. Deciding'
    BY <1>11 DEF IInv, Deciding, OutcomeIsHonest, Over, controlVars, Teardown
  <2>8. QED
    BY <2>4, <2>5, <2>6, <2>7 DEF IInv
<1>12. ASSUME NEW s \in Sessions, Decide(s)
      PROVE  IInv'
  <2>1. TypeOK'
    BY <1>12, StatusTypes DEF IInv, TypeOK, Control!TypeOK,
       Control!WorkerStates, executeVars, deviceVars, Decide, Control!Decide,
       Control!Outcome, Control!Working
  <2>2. Launching' /\ Phases'
    BY <1>12 DEF IInv, Launching, Phases, Over, executeVars, Decide,
       Control!Decide, Control!Working
  <2>3. TornDown' /\ Limits'
    BY <1>12 DEF IInv, TornDown, Limits, OnlyOnWithLimit, executeVars,
       deviceVars, Decide
  <2>4. Deciding'
    BY <1>12 DEF IInv, TypeOK, Control!TypeOK, Deciding, OutcomeIsHonest,
       Over, executeVars, Decide, Control!Decide, Control!Outcome,
       Control!Working
  <2>5. QED
    BY <2>1, <2>2, <2>3, <2>4 DEF IInv
<1>13. ASSUME NEW s \in Sessions, Check(s)
      PROVE  IInv'
  <2>1. TypeOK'
    BY <1>13 DEF IInv, TypeOK, Control!TypeOK, Control!WorkerStates,
       deviceVars, Check, Control!Check, Control!Working
  <2>2. Launching' /\ Phases'
    BY <1>13 DEF IInv, Launching, Phases, Over, Check, Control!Check,
       Control!Working
  <2>3. TornDown' /\ Limits'
    BY <1>13 DEF IInv, TornDown, Limits, OnlyOnWithLimit, deviceVars, Check
  <2>4. Deciding'
    BY <1>13 DEF IInv, Deciding, OutcomeIsHonest, Over, Check, Control!Check,
       Control!Working
  <2>5. QED
    BY <2>1, <2>2, <2>3, <2>4 DEF IInv
<1>14. ASSUME NEW s \in Sessions, CheckError(s)
      PROVE  IInv'
  <2>1. TypeOK'
    BY <1>14, StatusTypes DEF IInv, TypeOK, Control!TypeOK,
       Control!WorkerStates, executeVars, deviceVars, CheckError,
       Control!CheckError, Control!Working
  <2>2. Launching' /\ Phases'
    BY <1>14 DEF IInv, Launching, Phases, Over, executeVars, CheckError,
       Control!CheckError, Control!Working
  <2>3. TornDown' /\ Limits'
    BY <1>14 DEF IInv, TornDown, Limits, OnlyOnWithLimit, executeVars,
       deviceVars, CheckError
  <2>4. Deciding'
    BY <1>14 DEF IInv, TypeOK, Control!TypeOK, Deciding, OutcomeIsHonest,
       Over, executeVars, CheckError, Control!CheckError, Control!Working
  <2>5. QED
    BY <2>1, <2>2, <2>3, <2>4 DEF IInv
<1>15. ASSUME NEW s \in Sessions, Quietly(Control!LeaseFails(s))
      PROVE  IInv'
  <2>1. TypeOK'
    BY <1>15 DEF IInv, TypeOK, Control!TypeOK, Control!WorkerStates,
       executeVars, deviceVars, Quietly, Control!LeaseFails, Control!Working
  <2>2. Launching' /\ Phases'
    BY <1>15 DEF IInv, Launching, Phases, Over, executeVars, Quietly,
       Control!LeaseFails, Control!Working
  <2>3. TornDown' /\ Limits'
    BY <1>15 DEF IInv, TornDown, Limits, OnlyOnWithLimit, executeVars,
       deviceVars, Quietly
  <2>4. Deciding'
    BY <1>15 DEF IInv, Deciding, OutcomeIsHonest, Over, executeVars, Quietly,
       Control!LeaseFails, Control!Working
  <2>5. QED
    BY <2>1, <2>2, <2>3, <2>4 DEF IInv
<1>16. ASSUME NEW s \in Sessions, Quietly(Control!Assign(s))
      PROVE  IInv'
  <2>1. TypeOK'
    BY <1>16, StatusTypes DEF IInv, TypeOK, Control!TypeOK,
       Control!WorkerStates, executeVars, deviceVars, Quietly, Control!Assign,
       Control!Working
  <2>2. Launching' /\ Phases'
    BY <1>16 DEF IInv, Launching, Phases, Over, executeVars, Quietly,
       Control!Assign, Control!Working
  <2>3. TornDown' /\ Limits'
    BY <1>16 DEF IInv, TornDown, Limits, OnlyOnWithLimit, executeVars,
       deviceVars, Quietly
  <2>4. Deciding'
    BY <1>16 DEF IInv, TypeOK, Control!TypeOK, Deciding, OutcomeIsHonest,
       Over, executeVars, Quietly, Control!Assign, Control!Working
  <2>5. QED
    BY <2>1, <2>2, <2>3, <2>4 DEF IInv
<1>17. ASSUME NEW s \in Sessions, Quietly(Control!Finish(s))
      PROVE  IInv'
  <2>1. TypeOK'
    BY <1>17 DEF IInv, TypeOK, Control!TypeOK, Control!WorkerStates,
       executeVars, deviceVars, Quietly, Control!Finish, Control!Working
  <2>2. Launching' /\ Phases'
    BY <1>17 DEF IInv, Launching, Phases, Over, executeVars, Quietly,
       Control!Finish, Control!Working
  <2>3. TornDown' /\ Limits'
    BY <1>17 DEF IInv, TornDown, Limits, OnlyOnWithLimit, executeVars,
       deviceVars, Quietly
  <2>4. Deciding'
    BY <1>17 DEF IInv, Deciding, OutcomeIsHonest, Over, executeVars, Quietly,
       Control!Finish, Control!Working
  <2>5. QED
    BY <2>1, <2>2, <2>3, <2>4 DEF IInv
<1>18. ASSUME NEW t \in Stoppers, NEW s \in Sessions, Quietly(Control!StopLookup(t, s))
      PROVE  IInv'
  <2>1. TypeOK'
    BY <1>18 DEF IInv, TypeOK, Control!TypeOK, executeVars, deviceVars,
       Quietly, Control!StopLookup, Control!Stopping
  <2>2. Launching' /\ Phases'
    BY <1>18 DEF IInv, Launching, Phases, Over, executeVars, Quietly,
       Control!StopLookup, Control!Stopping
  <2>3. TornDown' /\ Limits'
    BY <1>18 DEF IInv, TornDown, Limits, OnlyOnWithLimit, executeVars,
       deviceVars, Quietly
  <2>4. Deciding'
    BY <1>18 DEF IInv, Deciding, OutcomeIsHonest, Over, executeVars, Quietly,
       Control!StopLookup, Control!Stopping
  <2>5. QED
    BY <2>1, <2>2, <2>3, <2>4 DEF IInv
<1>19. ASSUME NEW t \in Stoppers, Quietly(Control!StopTooEarly(t))
      PROVE  IInv'
  <2>1. TypeOK'
    BY <1>19 DEF IInv, TypeOK, Control!TypeOK, executeVars, deviceVars,
       Quietly, Control!StopTooEarly, Control!Stopping, Control!IdleStopper
  <2>2. Launching' /\ Phases'
    BY <1>19 DEF IInv, Launching, Phases, Over, executeVars, Quietly,
       Control!StopTooEarly, Control!Stopping, Control!IdleStopper
  <2>3. TornDown' /\ Limits'
    BY <1>19 DEF IInv, TornDown, Limits, OnlyOnWithLimit, executeVars,
       deviceVars, Quietly
  <2>4. Deciding'
    BY <1>19 DEF IInv, Deciding, OutcomeIsHonest, Over, executeVars, Quietly,
       Control!StopTooEarly, Control!Stopping
  <2>5. QED
    BY <2>1, <2>2, <2>3, <2>4 DEF IInv
<1>20. ASSUME NEW t \in Stoppers, Quietly(Control!StopLooks(t))
      PROVE  IInv'
  <2>1. TypeOK'
    BY <1>20 DEF IInv, TypeOK, Control!TypeOK, executeVars, deviceVars,
       Quietly, Control!StopLooks, Control!Stopping
  <2>2. Launching' /\ Phases'
    BY <1>20 DEF IInv, Launching, Phases, Over, executeVars, Quietly,
       Control!StopLooks, Control!Stopping
  <2>3. TornDown' /\ Limits'
    BY <1>20 DEF IInv, TornDown, Limits, OnlyOnWithLimit, executeVars,
       deviceVars, Quietly
  <2>4. Deciding'
    BY <1>20 DEF IInv, Deciding, OutcomeIsHonest, Over, executeVars, Quietly,
       Control!StopLooks, Control!Stopping
  <2>5. QED
    BY <2>1, <2>2, <2>3, <2>4 DEF IInv
<1>21. ASSUME NEW t \in Stoppers, Quietly(Control!StopRefused(t))
      PROVE  IInv'
  <2>1. TypeOK'
    BY <1>21 DEF IInv, TypeOK, Control!TypeOK, executeVars, deviceVars,
       Quietly, Control!StopRefused, Control!Stopping, Control!IdleStopper
  <2>2. Launching' /\ Phases'
    BY <1>21 DEF IInv, Launching, Phases, Over, executeVars, Quietly,
       Control!StopRefused, Control!Stopping, Control!IdleStopper
  <2>3. TornDown' /\ Limits'
    BY <1>21 DEF IInv, TornDown, Limits, OnlyOnWithLimit, executeVars,
       deviceVars, Quietly
  <2>4. Deciding'
    BY <1>21 DEF IInv, Deciding, OutcomeIsHonest, Over, executeVars, Quietly,
       Control!StopRefused, Control!Stopping
  <2>5. QED
    BY <2>1, <2>2, <2>3, <2>4 DEF IInv
<1>22. ASSUME NEW t \in Stoppers, Quietly(Control!StopChecks(t))
      PROVE  IInv'
  <2>1. TypeOK'
    BY <1>22 DEF IInv, TypeOK, Control!TypeOK, executeVars, deviceVars,
       Quietly, Control!StopChecks, Control!Stopping
  <2>2. Launching' /\ Phases'
    BY <1>22 DEF IInv, Launching, Phases, Over, executeVars, Quietly,
       Control!StopChecks, Control!Stopping
  <2>3. TornDown' /\ Limits'
    BY <1>22 DEF IInv, TornDown, Limits, OnlyOnWithLimit, executeVars,
       deviceVars, Quietly
  <2>4. Deciding'
    BY <1>22 DEF IInv, Deciding, OutcomeIsHonest, Over, executeVars, Quietly,
       Control!StopChecks, Control!Stopping
  <2>5. QED
    BY <2>1, <2>2, <2>3, <2>4 DEF IInv
<1>23. ASSUME NEW t \in Stoppers, Quietly(Control!StopAssigns(t))
      PROVE  IInv'
  <2>1. TypeOK'
    BY <1>23, StatusTypes DEF IInv, TypeOK, Control!TypeOK, Launching,
       executeVars, deviceVars, Quietly, Control!StopAssigns, Control!Stopping
  <2>2. Launching' /\ Phases'
    BY <1>23 DEF IInv, Launching, Phases, Over, executeVars, Quietly,
       Control!StopAssigns, Control!Stopping
  <2>3. TornDown' /\ Limits'
    BY <1>23 DEF IInv, TornDown, Limits, OnlyOnWithLimit, executeVars,
       deviceVars, Quietly
  <2>4. Deciding'
    BY <1>23 DEF IInv, Deciding, OutcomeIsHonest, Over, executeVars, Quietly,
       Control!StopAssigns, Control!Stopping
  <2>5. QED
    BY <2>1, <2>2, <2>3, <2>4 DEF IInv
<1>24. ASSUME NEW t \in Stoppers, Quietly(Control!StopSets(t))
      PROVE  IInv'
  <2>1. TypeOK'
    BY <1>24 DEF IInv, TypeOK, Control!TypeOK, Launching, executeVars,
       deviceVars, Quietly, Control!StopSets, Control!Stopping,
       Control!IdleStopper
  <2>2. Launching' /\ Phases'
    BY <1>24 DEF IInv, Launching, Phases, Over, executeVars, Quietly,
       Control!StopSets, Control!Stopping, Control!IdleStopper
  <2>3. TornDown' /\ Limits'
    BY <1>24 DEF IInv, TornDown, Limits, OnlyOnWithLimit, executeVars,
       deviceVars, Quietly
  <2>4. Deciding'
    BY <1>24 DEF IInv, Deciding, OutcomeIsHonest, Over, executeVars, Quietly,
       Control!StopSets, Control!Stopping
  <2>5. QED
    BY <2>1, <2>2, <2>3, <2>4 DEF IInv
<1>25. QED
  BY <1>1, <1>2, <1>3, <1>4, <1>5, <1>6, <1>7, <1>8, <1>9, <1>10, <1>11,
     <1>12, <1>13, <1>14, <1>15, <1>16, <1>17, <1>18, <1>19, <1>20, <1>21,
     <1>22, <1>23, <1>24 DEF Next, Start, Work, Around, Stop, Quietly,
     Control!Launch, Control!StopStep

(* In every state the program can reach, IInv holds.                       *)
LEMMA Invariance == Spec => []IInv
<1> USE LevelsAssumption
<1>1. Init => IInv
  BY DEF Init, Control!Init, Control!IdleStopper, IInv, TypeOK,
     Control!TypeOK, Control!WorkerStates, Control!RunStatus,
     Control!Terminal, Control!Executable, Launching, Phases, TornDown,
     Limits, Deciding, OnlyOnWithLimit, OutcomeIsHonest
<1>2. ASSUME IInv, UNCHANGED vars
      PROVE  IInv'
  BY <1>2 DEF vars, controlVars, executeVars, deviceVars, IInv, TypeOK,
     Control!TypeOK, Launching, Phases, TornDown, Limits, Deciding,
     OnlyOnWithLimit, OutcomeIsHonest, Over
<1>3. IInv /\ [Next]_vars => IInv'
  BY <1>2, StepInv
<1>4. QED
  BY <1>1, <1>3, PTL DEF Spec

-----------------------------------------------------------------------------
(* The sessions, events, threads and stop requests of the engine, and the  *)
(* phases of the sweep's thread, keep their types: no command of the setup *)
(* and no attempt of the teardown beyond the last is reached, no point     *)
(* beyond the last level is measured.                                      *)
THEOREM TypeCorrect == Spec => []TypeOK
<1>1. IInv => TypeOK
  BY DEF IInv
<1>2. QED
  BY <1>1, Invariance, PTL

(* However a sweep of any number of levels ends, with any number of stop   *)
(* requests between any two of its steps: once its thread has had the      *)
(* instrument, the output is off or the report says that every attempt to  *)
(* turn it off has raised.                                                 *)
THEOREM OutputIsOffOrReported == Spec => []OffOrReported
<1>1. IInv => OffOrReported
  BY DEF IInv, OffOrReported, Phases, TornDown
<1>2. QED
  BY <1>1, Invariance, PTL

(* From its reset on a sweep never has the output on without the           *)
(* compliance limit programmed, whichever write fails.                     *)
THEOREM OutputIsOnOnlyWithLimit == Spec => []OnlyOnWithLimit
<1>1. IInv => OnlyOnWithLimit
  BY DEF IInv, Limits
<1>2. QED
  BY <1>1, Invariance, PTL

(* A sweep that reports completion has measured every level, one that      *)
(* reports an abort was asked to stop, whatever late stops do to the       *)
(* status.                                                                 *)
THEOREM OutcomesAreHonest == Spec => []OutcomeIsHonest
<1>1. IInv => OutcomeIsHonest
  BY DEF IInv, Deciding
<1>2. QED
  BY <1>1, Invariance, PTL

-----------------------------------------------------------------------------
(* The engine implements SweepControl: every step of the thread that       *)
(* drives the instrument is a step SweepControl allows, or changes nothing *)
(* a caller of the engine sees.                                            *)
LEMMA ControlStep ==
  ASSUME Next
  PROVE  Control!Next \/ UNCHANGED controlVars
<1>1. ASSUME NEW s \in Sessions, Start(s) \/ Around(s)
      PROVE  Control!Next
  BY <1>1 DEF Start, Around, Quietly, Control!Next, Control!Work
<1>2. ASSUME NEW s \in Sessions, Work(s)
      PROVE  Control!Next \/ UNCHANGED controlVars
  <2>1. \/ Control!EnterLease(s) \/ Control!Fail(s) \/ Control!Decide(s)
        \/ Control!Check(s) \/ Control!CheckError(s)
        \/ UNCHANGED controlVars
    BY <1>2 DEF Work, EnterLease, SetupWrite, SetupRaises, Scan, Measure,
       MeasureRaises, Teardown, Decide, Check, CheckError, Raise
  <2>2. QED
    BY <2>1 DEF Control!Next, Control!Work
<1>3. ASSUME NEW t \in Stoppers, Stop(t)
      PROVE  Control!Next
  BY <1>3 DEF Stop, Quietly, Control!Next
<1>4. QED
  BY <1>1, <1>2, <1>3 DEF Next

(* What the callers of the engine may rely on: every behaviour of the      *)
(* engine with its instrument, its retries and its failures is one of      *)
(* SweepControl (the safety part of ImplementsControl).                    *)
THEOREM ControlRefinement == Spec => Control!Spec
<1>1. Init => Control!Init
  BY DEF Init
<1>2. [Next]_vars => [Control!Next]_(Control!vars)
  BY ControlStep DEF vars, Control!vars, controlVars
<1>3. QED
  BY <1>1, <1>2, PTL DEF Spec, Control!Spec
=============================================================================

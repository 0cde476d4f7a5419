------------------------------ MODULE SweepPlan ------------------------------
(***************************************************************************)
(* What becomes of a sweep's configuration: the model that normalises it,  *)
(* the dry-run that validates the preview of its commands, the setup and   *)
(* the levels that are sent, and the validation of a sequence that the MCP *)
(* server offers for the same commands.                                    *)
(* src/src/instr_core/sweep/models.py, sweep/engine.py, agent/planner.py,  *)
(* api/services/sweep_service.py, server.py                                *)
(*                                                                         *)
(* A sweep is started directly, by an agent's run, or as the source of a   *)
(* dual-device run.  Levels, steps and limits are whole numbers of some    *)
(* unit; a command is a pair of its header and its argument.  *RST, which  *)
(* the previews show and the dry-runs skip, is left out, and so are the    *)
(* delay, the meter of a dual run, and failures, which are SweepEngine's.  *)
(***************************************************************************)
EXTENDS CommandRules, Integers, SequencesExt

CONSTANTS
  Levels,          \* the start and stop levels clients ask for
  Steps,           \* the steps they ask for
  Limits,          \* the compliance limits they ask for
  Schema,          \* the definition of each command of the instrument
  GlobalMax,       \* the schema's global limit of the quantity of a mode
  MaxPoints        \* the point limit: 10,000

Modes == {"VOLT", "CURR"}

Directions == {"UP", "DOWN", "BOTH"}

Routes == {"direct", "agent", "dual"}

ASSUME NumbersAssumption ==
  /\ Levels \subseteq Int
  /\ Steps \subseteq Nat \ {0} /\ Limits \subseteq Nat \ {0}
  /\ GlobalMax \in [Modes -> Nat]
  /\ MaxPoints \in Nat \ {0}

VARIABLES
  route,   \* how the sweep is started
  config,  \* its configuration
  stage,   \* how far it has come
  at,      \* how many commands of the setup have been sent
  unit,    \* the state of the instrument, in the terms of its schema
  levels   \* the levels that were set, the one of the setup first

vars == <<route, config, stage, at, unit, levels>>

SweepConfig ==
  [ start : Levels, stop : Levels, step : Steps, compliance : Limits,
    direction : Directions, mode : Modes ]

-----------------------------------------------------------------------------
(* SweepConfig and its validators.                                         *)

Magnitude(x) == IF x < 0 THEN -x ELSE x

(* Fault: what is left after the last whole step is cut off.               *)
RoundDown(n, d) == n \div d

(* round(n / d): the nearest whole number, the even one of two.            *)
Round(n, d) ==
  LET q == n \div d
      r == n % d
  IN  IF 2 * r < d \/ (2 * r = d /\ q % 2 = 0) THEN q ELSE q + 1

StepCount(c) == Round(Magnitude(c.stop - c.start), c.step)

(* Fault: start and stop are left as they are.                             *)
OrderedAsGiven(c) == c

(* UP goes up, whichever way round its ends were given.                    *)
Ordered(c) ==
  IF c.direction = "UP" /\ c.start > c.stop
    THEN [c EXCEPT !.start = c.stop, !.stop = c.start] ELSE c

(* The way back of BOTH is not counted.                                    *)
WithinPointLimit(c) == StepCount(c) + 1 <= MaxPoints

MaxLevel(c) ==
  LET start == Magnitude(c.start)
      stop  == Magnitude(c.stop)
  IN  IF start > stop THEN start ELSE stop

Protected(mode) == IF mode = "VOLT" THEN "CURR" ELSE "VOLT"

(* validate_sweep_config                                                   *)
ConfigValid(c) ==
  /\ MaxLevel(c) <= GlobalMax[c.mode]
  /\ c.compliance <= GlobalMax[Protected(c.mode)]
  /\ WithinPointLimit(c)

(* Fault: a stop that is no whole number of steps away is passed.          *)
WayUpOvershooting(c) ==
  LET step == IF c.start <= c.stop THEN c.step ELSE -c.step
  IN  [i \in 1 .. StepCount(c) + 1 |-> c.start + (i - 1) * step]

(* From start to stop, step by step, the last point being stop.            *)
WayUp(c) ==
  LET step == IF c.start <= c.stop THEN c.step ELSE -c.step
  IN  [i \in 1 .. StepCount(c) + 1 |->
         IF i = StepCount(c) + 1 THEN c.stop ELSE c.start + (i - 1) * step]

(* _generate_voltage_points, the engine's and the planner's.               *)
Points(c) ==
  CASE c.direction = "UP"   -> WayUp(c)
    [] c.direction = "DOWN" -> Reverse(WayUp(c))
    [] c.direction = "BOTH" -> WayUp(c) \o Tail(Reverse(WayUp(c)))

(* Fault: the way back is not counted.                                     *)
EstimateOneWay(c) == StepCount(c) + 1

EstimatePoints(c) ==
  IF c.direction = "BOTH" THEN 2 * (StepCount(c) + 1) - 1 ELSE StepCount(c) + 1

-----------------------------------------------------------------------------
(* The commands.                                                           *)

Level == [VOLT |-> ":SOUR:VOLT", CURR |-> ":SOUR:CURR"]
LevelRange == [VOLT |-> ":SOUR:VOLT:RANG", CURR |-> ":SOUR:CURR:RANG"]
Protection == [VOLT |-> ":SENS:CURR:PROT", CURR |-> ":SENS:VOLT:PROT"]

(* A dual-device run sources voltage, whatever its configuration says.     *)
ModeOf(r, c) == IF r = "dual" THEN "VOLT" ELSE c.mode

(* Fault: the limit is set after the level it protects from.               *)
SetupLimitAfterLevel(mode, c) ==
  << <<":OUTP", "OFF">>, <<":SOUR:FUNC", mode>>,
     <<LevelRange[mode], MaxLevel(c)>>, <<Level[mode], c.start>>,
     <<Protection[mode], c.compliance>>, <<":OUTP", "ON">> >>

(* What is sent before the first point, by the engine or for a dual run.   *)
Setup(mode, c) ==
  << <<":OUTP", "OFF">>, <<":SOUR:FUNC", mode>>,
     <<Protection[mode], c.compliance>>,
     <<LevelRange[mode], MaxLevel(c)>>, <<Level[mode], c.start>>,
     <<":OUTP", "ON">> >>

(* build_command_preview, build_dual_keithley_commands: the loop, which is *)
(* never validated, is a remark between the last two commands.             *)
Preview(mode, c) ==
  << <<":OUTP", "OFF">>, <<":SOUR:FUNC", mode>>,
     <<Protection[mode], c.compliance>>,
     <<LevelRange[mode], MaxLevel(c)>>, <<Level[mode], c.start>>,
     <<":OUTP", "ON">>, <<":OUTP", "OFF">> >>

(* validate_command, an unknown command being an issue.                    *)
Passes(command, state) ==
  command[1] \in DOMAIN Schema /\ Accepts(Schema[command[1]], command[2], state)

(* _update_state: a command the schema does not know changes nothing.      *)
Updated(command, state) ==
  IF command[1] \in DOMAIN Schema
    THEN Apply(Schema[command[1]], command[2], state) ELSE state

(* Fault: the limit of current mode is not among the keys.                 *)
PreviewKeysOfVoltage ==
  [ h \in {":SOUR:FUNC", ":OUTP", ":SENS:CURR:PROT", ":SOUR:VOLT", ":SOUR:CURR"} |->
      CASE h = ":SOUR:FUNC" -> "source_mode" [] h = ":OUTP" -> "output" [] OTHER -> h ]

(* The keys of the planner's own idea of what commands do.                 *)
PreviewKeys ==
  [ h \in {":SOUR:FUNC", ":OUTP", ":SENS:CURR:PROT", ":SENS:VOLT:PROT",
           ":SOUR:VOLT", ":SOUR:CURR"} |->
      CASE h = ":SOUR:FUNC" -> "source_mode" [] h = ":OUTP" -> "output" [] OTHER -> h ]

(* _apply_preview_state                                                    *)
Previewed(command, state) ==
  IF command[1] \in DOMAIN PreviewKeys /\ command[2] # None
    THEN [state EXCEPT ![PreviewKeys[command[1]]] = command[2]] ELSE state

(* The dry-run of a dual run follows the schema where it knows the command.*)
DryRunState(r, command, state) ==
  IF r = "dual" /\ command[1] \in DOMAIN Schema
    THEN Updated(command, state) ELSE Previewed(command, state)

(* The commands of dry_run_plan and of _validate_command_preview that have *)
(* issues.                                                                 *)
DryRunIssues(r, commands) ==
  LET state[i \in 1 .. Len(commands)] ==
        IF i = 1 THEN Nothing ELSE DryRunState(r, commands[i - 1], state[i - 1])
  IN  {i \in 1 .. Len(commands) : ~Passes(commands[i], state[i])}

(* dry_run_plan, and the source's part of dry_run_dual_keithley_plan: the  *)
(* limits of the configuration are those of its own mode.                  *)
DryRunValid(r, c) ==
  ConfigValid(c) /\ DryRunIssues(r, Preview(ModeOf(r, c), c)) = {}

(* validate_command_sequence: the steps that fail, when none brings a      *)
(* state of its own.                                                       *)
SequenceIssues(commands) ==
  LET state[i \in 1 .. Len(commands) + 1] ==
        IF i = 1 THEN Nothing ELSE Updated(commands[i - 1], state[i - 1])
      Holds(command, after) ==
        command[1] \in DOMAIN Schema =>
          SequenceHoldsAfter(Schema[command[1]], command[2], after)
  IN  {i \in 1 .. Len(commands) :
         ~(Passes(commands[i], state[i]) /\ Holds(commands[i], state[i + 1]))}

-----------------------------------------------------------------------------
(* An argument that is a number is one.                                    *)
ASSUME NoneAssumption == None \notin Int

(* check_global_limits looks at a level range that is beyond the limit: the*)
(* definition of the command states a range.                               *)
ASSUME RangeAssumption ==
  LevelRange["VOLT"] \in DOMAIN Schema =>
    \A c \in SweepConfig :
      MaxLevel(c) > GlobalMax["VOLT"] => MaxLevel(c) \in Schema[LevelRange["VOLT"]].exceeds

(* Where the schemas keep the output and the source mode, and which of the *)
(* commands of a setup set them to their argument.                         *)
ASSUME StateAssumption ==
  /\ {"output", "source_mode"} \subseteq Keys
  /\ \A h \in DOMAIN Schema :
       LET sets == Schema[h].sets
       IN  /\ "output" \in DOMAIN sets =>
                \/ sets["output"] \in {"ON", "OFF"}
                \/ sets["output"] = "$ARGUMENT" /\ h = ":OUTP"
           /\ "source_mode" \in DOMAIN sets =>
                \/ sets["source_mode"] \in Modes
                \/ sets["source_mode"] = "$ARGUMENT" /\ h = ":SOUR:FUNC"

Headers ==
  {":OUTP", ":SOUR:FUNC"} \union
    UNION {{Level[m], LevelRange[m], Protection[m]} : m \in Modes}

(* The keys that a command sets to its argument, for the planner: one or   *)
(* none.                                                                   *)
KeysOf(h) ==
  CASE h = ":OUTP"                            -> {"output"}
    [] h = ":SOUR:FUNC"                       -> {"source_mode"}
    [] h \in {LevelRange[m] : m \in Modes}    -> {}
    [] OTHER                                  -> {h}

(* A schema that says what the planner supposes: the commands of a sweep   *)
(* are there, and what is expected after one is the output it sets.        *)
PlannerKnowsTheSchema ==
  \A h \in Headers :
    /\ h \in DOMAIN Schema
    /\ DOMAIN Schema[h].sets = KeysOf(h)
    /\ \A k \in KeysOf(h) : k \in Keys /\ Schema[h].sets[k] = "$ARGUMENT"
    /\ \A rule \in Schema[h].after :
         /\ h = ":OUTP" /\ rule.argument # None
         /\ rule.anyOf = {} /\ rule.expect \subseteq {<<"output", rule.argument>>}

-----------------------------------------------------------------------------
(* A sweep, from the request to its last point.                            *)

Stages == {"request", "made", "setup", "scan", "done", "refused"}

TypeOK ==
  /\ route \in Routes
  /\ config \in SweepConfig
  /\ stage \in Stages
  /\ stage \notin {"request", "refused"} =>
       /\ config.direction = "UP" => config.start <= config.stop
       /\ WithinPointLimit(config)
  /\ at \in 0 .. 6
  /\ DOMAIN unit = Keys
  /\ unit["output"] \in {"ON", "OFF", Unknown} /\ unit["source_mode"] \in Modes \union {Unknown}
  /\ levels \in Seq(Int)

Init ==
  /\ route \in Routes
  /\ config \in SweepConfig
  /\ stage = "request"
  /\ at = 0
  /\ unit = Nothing
  /\ levels = <<>>

(* The request's model is validated.                                       *)
Make ==
  /\ stage = "request"
  /\ config' = Ordered(config)
  /\ stage' = IF WithinPointLimit(config') THEN "made" ELSE "refused"
  /\ UNCHANGED <<route, at, unit, levels>>

(* sweep_start looks at the configuration only.                            *)
StartDirectly ==
  /\ stage = "made" /\ route = "direct"
  /\ stage' = IF ConfigValid(config) THEN "setup" ELSE "refused"
  /\ UNCHANGED <<route, config, at, unit, levels>>

(* A run that a dry-run has found valid is executed.                       *)
DryRun ==
  /\ stage = "made" /\ route # "direct"
  /\ stage' = IF DryRunValid(route, config) THEN "setup" ELSE "refused"
  /\ UNCHANGED <<route, config, at, unit, levels>>

ToSend == Setup(ModeOf(route, config), config)

SendSetup ==
  LET command == ToSend[at + 1]
  IN  /\ stage = "setup"
      /\ unit' = Updated(command, unit)
      /\ levels' = IF command[1] = Level[ModeOf(route, config)]
                     THEN Append(levels, command[2]) ELSE levels
      /\ at' = at + 1
      /\ stage' = IF at' = Len(ToSend) THEN "scan" ELSE "setup"
      /\ UNCHANGED <<route, config>>

(* A point: the level is set and the other quantity is measured.           *)
Measure ==
  LET n == Len(levels)
  IN  /\ stage = "scan"
      /\ levels' = Append(levels, Points(config)[n])
      /\ stage' = IF n = Len(Points(config)) THEN "done" ELSE "scan"
      /\ UNCHANGED <<route, config, at, unit>>

Over == stage \in {"done", "refused"} /\ UNCHANGED vars

Next == Make \/ StartDirectly \/ DryRun \/ SendSetup \/ Measure \/ Over

Spec == Init /\ [][Next]_vars

-----------------------------------------------------------------------------
(* Properties.                                                             *)

(* No level that is set, on the way or at the ends, exceeds the limit of   *)
(* the quantity that is really sourced, whatever way the sweep was started *)
(* and whatever mode its limits were checked for.                          *)
LevelsWithinLimits ==
  \A i \in 1 .. Len(levels) : Magnitude(levels[i]) <= GlobalMax[ModeOf(route, config)]

(* The dry-run announces as many points as are measured, the way back of   *)
(* BOTH and rounding included.                                             *)
EstimateIsExact == stage = "done" => Len(levels) = EstimatePoints(config) + 1

Measured == Tail(levels)

Distance(i) == Magnitude(Measured[i + 1] - Measured[i])

(* A sweep reaches both ends of its range, unless the range is smaller     *)
(* than a step, and never goes more than a step and a half at once, so     *)
(* that the last step may take up what is left over.                       *)
SweepCoversTheRange ==
  stage = "done" =>
    /\ \A i \in 1 .. Len(Measured) - 1 : 2 * Distance(i) <= 3 * config.step
    /\ config.step <= Magnitude(config.stop - config.start) =>
         {config.start, config.stop} \subseteq {Measured[i] : i \in DOMAIN Measured}

(* What a validated run sends to set the instrument up is what the schema  *)
(* allows in the state that the commands before it have left; the preview  *)
(* that was validated is another piece of code (planner.py:31).            *)
SetupIsValidated ==
  stage = "setup" /\ route # "direct" => Passes(ToSend[at + 1], unit)

(* The planner keeps the state of a preview in its own way (planner.py:329)*)
(* and the MCP server in another (server.py:755): they find the same       *)
(* commands wanting, in every configuration and in either mode.            *)
VerdictsAgree ==
  stage = "made" =>
    LET commands == Preview(ModeOf(route, config), config)
    IN  DryRunIssues(route, commands) = SequenceIssues(commands)
=============================================================================

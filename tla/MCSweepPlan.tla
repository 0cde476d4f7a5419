----------------------------- MODULE MCSweepPlan -----------------------------
(* The commands of src/tests/fixtures/registry/keithley/smu/2600.yaml that *)
(* a sweep uses, its limits of 40 V and 3 A scaled to 3 and 1: levels and  *)
(* compliance limits lie within both, within one and beyond both.          *)
EXTENDS SweepPlan

SmuKeys ==
  {"output", "source_mode", ":SENS:CURR:PROT", ":SENS:VOLT:PROT", ":SOUR:VOLT", ":SOUR:CURR"}

RequestedLevels == -3 .. 4

RequestedSteps == 1 .. 3

RequestedLimits == {1, 2, 4}

ScaledMax == [VOLT |-> 3, CURR |-> 1]

Plain ==
  [ requires |-> {}, forbidden |-> {}, before |-> {}, after |-> {}, allowed |-> {},
    exceeds |-> {}, compliance |-> None, sets |-> <<>> ]

Beyond(bottom, mode) ==
  (RequestedLevels \union RequestedLimits) \ (bottom .. ScaledMax[mode])

LevelDef(mode) ==
  [Plain EXCEPT !.requires = {<<"source_mode", mode>>}, !.forbidden = {<<"output", "ON">>},
                !.exceeds = Beyond(-ScaledMax[mode], mode),
                !.compliance = Protection[mode], !.sets = Level[mode] :> "$ARGUMENT"]

RangeDef(mode) ==
  [Plain EXCEPT !.requires = {<<"source_mode", mode>>}, !.exceeds = Beyond(0, mode)]

ProtectionDef(mode) ==
  [Plain EXCEPT !.exceeds = Beyond(0, Protected(mode)),
                !.sets = Protection[mode] :> "$ARGUMENT"]

OutputDef ==
  [Plain EXCEPT !.allowed = {"ON", "OFF"}, !.sets = "output" :> "$ARGUMENT",
     !.before = {[argument |-> "ON", expect |-> {},
                  anyOf |-> {":SENS:CURR:PROT", ":SENS:VOLT:PROT"}]},
     !.after = {[argument |-> "OFF", expect |-> {<<"output", "OFF">>}, anyOf |-> {}]}]

FunctionDef ==
  [Plain EXCEPT !.allowed = Modes, !.requires = {<<"output", "OFF">>},
                !.sets = "source_mode" :> "$ARGUMENT"]

Keithley2600 ==
     ":SOUR:FUNC" :> FunctionDef @@ ":OUTP" :> OutputDef
  @@ ":SOUR:VOLT" :> LevelDef("VOLT") @@ ":SOUR:CURR" :> LevelDef("CURR")
  @@ ":SOUR:VOLT:RANG" :> RangeDef("VOLT") @@ ":SOUR:CURR:RANG" :> RangeDef("CURR")
  @@ ":SENS:CURR:PROT" :> ProtectionDef("VOLT") @@ ":SENS:VOLT:PROT" :> ProtectionDef("CURR")

(* The schema is one that the planner knows.                               *)
ASSUME SchemaAssumption == PlannerKnowsTheSchema
=============================================================================

---------------------------- MODULE MCCommandPath ---------------------------
(* The source-measure unit of                                              *)
(* src/tests/fixtures/registry/keithley/smu/2600.yaml: the commands that   *)
(* set the keys or depend on them, with an argument that is allowed and,   *)
(* where there is a range, one beyond it.                                  *)
EXTENDS CommandPath, TLC

SmuKeys == {"output", "source_mode", ":SENS:CURR:PROT", ":SENS:VOLT:PROT"}

Plain ==
  [ requires |-> {}, forbidden |-> {}, before |-> {}, allowed |-> {}, exceeds |-> {},
    compliance |-> None, sets |-> <<>>, arguments |-> {None} ]

LevelOf(mode) ==
  [Plain EXCEPT !.requires = {<<"source_mode", mode>>}, !.forbidden = {<<"output", "ON">>},
                !.compliance = Limit[mode], !.exceeds = {"beyond"},
                !.arguments = {"level", "beyond"}]

LimitOf(key) ==
  [Plain EXCEPT !.exceeds = {"beyond"}, !.sets = key :> "$ARGUMENT",
                !.arguments = {"limit", "beyond"}]

Keithley2600 ==
  ( ":SOUR:FUNC" :> [Plain EXCEPT !.allowed = {"VOLT", "CURR"},
                                  !.requires = {<<"output", "OFF">>},
                                  !.sets = "source_mode" :> "$ARGUMENT",
                                  !.arguments = {"VOLT", "CURR"}]
 @@ ":SOUR:VOLT" :> LevelOf("VOLT")
 @@ ":SOUR:CURR" :> LevelOf("CURR")
 @@ ":SENS:CURR:PROT" :> LimitOf(":SENS:CURR:PROT")
 @@ ":SENS:VOLT:PROT" :> LimitOf(":SENS:VOLT:PROT")
 @@ ":OUTP" :> [Plain EXCEPT !.allowed = {"ON", "OFF"},
                             !.before = {[argument |-> "ON", expect |-> {},
                                          anyOf |-> {":SENS:CURR:PROT", ":SENS:VOLT:PROT"}]},
                             !.sets = "output" :> "$ARGUMENT",
                             !.arguments = {None, "ON", "OFF"}] )

(* The theorem about the output is about schemas like this one.            *)
ASSUME RulesAssumption == GuardsTheOutput

Symmetry == Permutations(Resources)
=============================================================================

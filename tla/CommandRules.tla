---------------------------- MODULE CommandRules ----------------------------
(***************************************************************************)
(* The command validator: when a schema accepts a command in a state of    *)
(* the instrument, and what the command does to that state.                *)
(* src/src/instr_core/validator.py, src/src/instr_core/schema.py           *)
(*                                                                         *)
(* A state maps every key to a value, or to Unknown when the dictionary    *)
(* has no such key.  A definition is a CommandDef.  The values its         *)
(* parameters allow, and those beyond its range or a global limit, are     *)
(* sets of arguments; an argument that is not a number is in no range and  *)
(* so beyond none.                                                         *)
(***************************************************************************)
CONSTANTS
  Keys,     \* the state keys of the schema
  Unknown,  \* the key is not in the state
  None      \* no argument, no compliance required, no value

Nothing == [k \in Keys |-> Unknown]

(* check_requires                                                          *)
RequirementsMet(d, state) == \A p \in d.requires : state[p[1]] = p[2]

(* check_forbidden_when                                                    *)
NotForbidden(d, state) == \A p \in d.forbidden : state[p[1]] # p[2]

(* _check_sequence_rule: one of the keys has a value, any will do, and the *)
(* expected values are there.                                              *)
RuleHolds(rule, state) ==
  /\ rule.anyOf = {} \/ \E k \in rule.anyOf : state[k] # Unknown
  /\ \A p \in rule.expect : state[p[1]] = p[2]

(* check_sequence_rules: a rule is about one argument, or about them all.  *)
(* Rules with "after" are not looked at before the command.                *)
SequenceAllows(d, argument, state) ==
  \A rule \in d.before :
    rule.argument \in {None, argument} => RuleHolds(rule, state)

(* check_sequence_rules_after: the rules with "after", in the state that   *)
(* the command has left.                                                   *)
SequenceHoldsAfter(d, argument, state) ==
  \A rule \in d.after :
    rule.argument \in {None, argument} => RuleHolds(rule, state)

(* check_argument, the range and check_global_limits.                      *)
ArgumentAllowed(d, argument) ==
  argument # None =>
    /\ d.allowed = {} \/ argument \in d.allowed
    /\ argument \notin d.exceeds

(* compliance_required: None when it is not.  One without a parameter, a   *)
(* fault of the schema, or with a parameter that is no key, is never met.  *)
ComplianceSet(d, state) ==
  d.compliance # None => d.compliance \in Keys /\ state[d.compliance] # Unknown

(* validate_command: every check is made, and none may find an issue.      *)
Accepts(d, argument, state) ==
  /\ RequirementsMet(d, state)
  /\ NotForbidden(d, state)
  /\ SequenceAllows(d, argument, state)
  /\ ArgumentAllowed(d, argument)
  /\ ComplianceSet(d, state)

-----------------------------------------------------------------------------
(* sets_state: a fixed value, or the argument.                             *)

ValueOf(d, k, argument) == IF d.sets[k] = "$ARGUMENT" THEN argument ELSE d.sets[k]

(* Fault: the key is set although there is no argument.                    *)
ChangesAlways(d, argument) == DOMAIN d.sets

Changes(d, argument) == {k \in DOMAIN d.sets : ValueOf(d, k, argument) # None}

Apply(d, argument, state) ==
  [k \in Keys |-> IF k \in Changes(d, argument) THEN ValueOf(d, k, argument)
                                                ELSE state[k]]
=============================================================================

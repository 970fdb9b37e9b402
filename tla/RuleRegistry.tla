------------------------------ MODULE RuleRegistry ------------------------------
(***************************************************************************)
(* DetectionRuleRegistry (src/detection_rule_registry.cpp): the rules the  *)
(* engine runs.  main registers the built-in ones; the functions to add,   *)
(* replace, remove, disable and enable rules are its public interface      *)
(* (docs/extending_detectors.md), used before a trace starts.              *)
(***************************************************************************)
EXTENDS Naturals, Sequences, SequencesExt, Selection

CONSTANTS
  RuleIds,          (* Every rule id, in the order of the ids.              *)
  StageOf,          (* IDetectionRule::stage of each.                       *)
  Builtin           (* Sequence of what register_builtin_detection_rules    *)
                    (* registers.                                           *)

VARIABLES
  rules,            (* rules_: ids in the order of registration             *)
  disabled          (* disabled_rules_                                      *)

vars == << rules, disabled >>

Rule == Range(RuleIds)

Registered == Range(rules)

Without(id) == Kept(rules, Rule \ {id})

(* main: register_builtin_detection_rules.                                 *)
Init ==
  /\ rules = Builtin
  /\ disabled = {}

(* register_rule: the new implementation replaces one of the same id and   *)
(* is enabled.                                                             *)
Register(id) ==
  /\ rules' = Append(Without(id), id)
  /\ disabled' = disabled \ {id}

Unregister(id) ==
  /\ rules' = Without(id)
  /\ disabled' = disabled \ {id}

(* disable_rule and enable_rule ask for no registered rule.                *)
Disable(id) ==
  /\ disabled' = disabled \cup {id}
  /\ UNCHANGED rules

Enable(id) ==
  /\ disabled' = disabled \ {id}
  /\ UNCHANGED rules

Next ==
  \E id \in Rule : Register(id) \/ Unregister(id) \/ Disable(id) \/ Enable(id)

(* active_rules: the rules of a stage that are not disabled, sorted by id  *)
(* whatever the order of their registration.  (A rule registered twice     *)
(* would be listed twice.)                                                 *)
ActiveRules(stage) ==
  LET copies(id) == IF StageOf[id] = stage /\ id \notin disabled THEN Kept(rules, {id}) ELSE << >>
  IN FlattenSeq([n \in DOMAIN RuleIds |-> copies(RuleIds[n])])
=============================================================================

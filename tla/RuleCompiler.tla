---------------------------- MODULE RuleCompiler ----------------------------
(***************************************************************************)
(* lib/rules.ts: the filters of aacyn.toml, compiled into the records that *)
(* FilterRules gives a meaning.  A text rule names its column, comparison  *)
(* and action by the words of the file.                                    *)
(*                                                                         *)
(* A definition marked "Mutant" is a faulty variant of the definition      *)
(* after it: nothing uses it but the test that the properties catch it.    *)
(***************************************************************************)
EXTENDS FilterRules

CONSTANT MaxCompiled    \* AACYN_MAX_RULES in rules.ts

COLUMNS == [duration |-> 0, is_error |-> 1, timestamp |-> 2]
RULE_ACTIONS == [drop |-> DropAction, keep |-> KeepAction]

(* Every comparison has a word and a sign; its code is its place, from 0.  *)
OPS == << {"lt", "<"}, {"gt", ">"}, {"eq", "=="},
          {"neq", "!="}, {"lte", "<="}, {"gte", ">="} >>

KnownOp(op) == \E k \in DOMAIN OPS : op \in OPS[k]

Compilable(rule) ==
  /\ rule.column \in DOMAIN COLUMNS
  /\ KnownOp(rule.op)
  /\ rule.action \in DOMAIN RULE_ACTIONS

CompileRule(rule) ==
  [column |-> COLUMNS[rule.column],
   op |-> (CHOOSE k \in DOMAIN OPS : rule.op \in OPS[k]) - 1,
   action |-> RULE_ACTIONS[rule.action],
   threshold |-> rule.threshold]

(* compileRules: one word it does not know among the rules that fit and    *)
(* nothing is compiled; rules past the limit are not even looked at.       *)
Considered(config) == SubSeq(config, 1, IF Len(config) < MaxCompiled
                                        THEN Len(config) ELSE MaxCompiled)

CompileRules(config) ==
  LET rules == Considered(config)
  IN  IF \A i \in DOMAIN rules : Compilable(rules[i])
      THEN [i \in DOMAIN rules |-> CompileRule(rules[i])]
      ELSE << >>
=============================================================================

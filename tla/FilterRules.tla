---------------------------- MODULE FilterRules ----------------------------
(***************************************************************************)
(* The declarative ingestion filter: the rules of aacyn.toml, compiled by  *)
(* lib/rules.ts into aacyn_rule_t records and evaluated by libaacyn.c      *)
(* against every event of a batch.                                         *)
(*                                                                         *)
(* An event is a record with one field per column of the store; a compiled *)
(* rule names its column, its comparison, its action and its threshold by  *)
(* the source's numeric codes.                                             *)
(*                                                                         *)
(* A definition marked "Mutant" is a faulty variant of the definition      *)
(* after it: nothing uses it but the test that the properties catch it.    *)
(***************************************************************************)
EXTENDS Integers, Sequences

(* The columns, by their AACYN_COL_* codes.                                *)
ColumnOf(code) == CASE code = 0 -> "duration"
                    [] code = 1 -> "is_error"
                    [] code = 2 -> "timestamp"

(* The AACYN_OP_* comparisons.                                             *)
Compare(op, val, threshold) ==
  CASE op = 0 -> val < threshold
    [] op = 1 -> val > threshold
    [] op = 2 -> val = threshold
    [] op = 3 -> val # threshold
    [] op = 4 -> val <= threshold
    [] op = 5 -> val >= threshold

DropAction == 0
KeepAction == 1

CompiledRule == [column : Nat, op : 0 .. 5,
                 action : {DropAction, KeepAction}, threshold : Int]

(* A rule applies to an event when it is a DROP rule, on a column the      *)
(* engine knows, whose comparison holds.                                   *)
RuleDrops(r, e) ==
  /\ r.action = DropAction
  /\ r.column \in 0 .. 2
  /\ Compare(r.op, e[ColumnOf(r.column)], r.threshold)

(* Any matching DROP rule drops the event; KEEP rules never take part.     *)
ShouldDrop(rules, e) == \E i \in 1 .. Len(rules) : RuleDrops(rules[i], e)

(* The positions of the surviving events of a batch, in order: ix[k] is    *)
(* the i at which the filtered path stores its k-th survivor.  The set has *)
(* exactly one element.                                                    *)
Survivors(rules, batch) ==
  { ix \in UNION { [1 .. n -> 1 .. Len(batch)] : n \in 0 .. Len(batch) } :
      /\ \A j, k \in DOMAIN ix : j < k => ix[j] < ix[k]
      /\ \A i \in 1 .. Len(batch) :
           (\E k \in DOMAIN ix : ix[k] = i) <=> ~ShouldDrop(rules, batch[i]) }

PickPrefix(batch, ix) == [k \in DOMAIN ix |-> batch[k]]        \* Mutant
Pick(batch, ix) == [k \in DOMAIN ix |-> batch[ix[k]]]
=============================================================================

---------------------------- MODULE MCRingStore ----------------------------
(***************************************************************************)
(* Small instances of RingStore.  The two events differ in every column,   *)
(* so a record assembled from the wrong slots, or from two events, shows.  *)
(***************************************************************************)
EXTENDS RingStore

MCEvents == { [timestamp |-> 1, duration |-> 1, is_error |-> 0],
              [timestamp |-> 2, duration |-> 3, is_error |-> 1] }

(* aacyn.toml's own rule (drop what is faster than a threshold), and a     *)
(* KEEP rule followed by the errors-only rule.                             *)
MCRuleLists ==
  { << [column |-> 0, op |-> 0, action |-> DropAction, threshold |-> 2] >>,
    << [column |-> 0, op |-> 1, action |-> KeepAction, threshold |-> 0],
       [column |-> 1, op |-> 2, action |-> DropAction, threshold |-> 0] >> }
=============================================================================

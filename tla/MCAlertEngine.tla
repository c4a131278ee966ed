--------------------------- MODULE MCAlertEngine ---------------------------
(***************************************************************************)
(* Small instances of AlertEngine.                                         *)
(***************************************************************************)
EXTENDS AlertEngine, TLC

Rule(type, perService, firings, clears) ==
  [type |-> type, perService |-> perService, firings |-> firings, clears |-> clears]

(* One rule of every type, as the default rules have them, a threshold     *)
(* watched service by service and a second rule that reports new services. *)
EveryRule ==
  << Rule("threshold", FALSE, 2, 2), Rule("threshold", TRUE, 2, 1),
     Rule("rate_drop", FALSE, 1, 1), Rule("new_service", FALSE, 1, 1),
     Rule("service_disappeared", FALSE, 1, 1), Rule("new_service", FALSE, 1, 1) >>

(* The default rule for a dropped rate.                                    *)
DropRule == << Rule("rate_drop", FALSE, 1, 1) >>

(* Every service is treated alike.                                         *)
ServiceSymmetry == Permutations(Services)
=============================================================================

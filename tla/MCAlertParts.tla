---------------------------- MODULE MCAlertParts ----------------------------
(***************************************************************************)
(* Two alert engines, of which a behaviour moves the one that "part"       *)
(* names: "rules", that of MCAlertEngine, with every rule and several      *)
(* services, for what a step may do; and Lasting, with the rules that a    *)
(* lasting condition must settle, one service and more rates, for what its *)
(* fair interval must bring.  The services of the first are symmetric: the *)
(* properties over time speak of the second alone, which has none of them. *)
(***************************************************************************)
EXTENDS MCAlertEngine

VARIABLES part, lastingAlerts, lastingRates, lastingSeen, lastingLastSeen,
          lastingSnap, lastingStreak, lastingAnnounced

(* The default rules that a lasting condition must settle.                 *)
LastingRules ==
  << Rule("threshold", FALSE, 2, 2), Rule("rate_drop", FALSE, 1, 1),
     Rule("service_disappeared", FALSE, 1, 1) >>

Lasting == INSTANCE AlertEngine WITH
  Services <- {"cart"}, Rules <- LastingRules, Rates <- {0, 1, 3},
  alerts <- lastingAlerts, prevRates <- lastingRates, seen <- lastingSeen,
  lastSeen <- lastingLastSeen, snap <- lastingSnap, streak <- lastingStreak,
  announced <- lastingAnnounced

lastingVars == <<lastingAlerts, lastingRates, lastingSeen, lastingLastSeen,
                 lastingSnap, lastingStreak, lastingAnnounced>>
allVars == <<part, vars, lastingVars>>

RulesMove == part = "rules" /\ Next /\ UNCHANGED <<part, lastingVars>>
LastingMoves(A) == part = "lasting" /\ A /\ UNCHANGED <<part, vars>>

MCInit == part \in {"rules", "lasting"} /\ Init /\ Lasting!Init

MCSpec ==
  /\ MCInit
  /\ [][RulesMove \/ LastingMoves(Lasting!Next)]_allVars
  /\ WF_allVars(LastingMoves(\E new \in Lasting!Snapshots : Lasting!Evaluate(new)))

(* Once every snapshot shows every service healthy, with a steady rate     *)
(* above 0, no alert stays firing, from whatever happened before           *)
(* (updateBreachCounters, transitionToResolved).                           *)
LastingHealthSettles == Lasting!Settles

(* Once every snapshot shows a service beyond the threshold, the alert     *)
(* fires and stays so, although runs are broken before and snapshots fail  *)
(* (updateBreachCounters, transitionToFiring).                             *)
LastingBreachFires == Lasting!KeepsFiring
=============================================================================

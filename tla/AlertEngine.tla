----------------------------- MODULE AlertEngine -----------------------------
(***************************************************************************)
(* The alert engine (ts/apps/api/src/lib/alerting.ts): every interval it   *)
(* takes a snapshot of the golden signals and runs each rule over it, in   *)
(* the order of the configuration.  One evaluation is one step: it awaits  *)
(* nothing.  Notifications go out afterwards and touch no engine state, so *)
(* they are not modelled.                                                  *)
(*                                                                         *)
(* A snapshot is a function from the services it shows to their signals:   *)
(* bad (the rule's metric is beyond its threshold) and rate.  Time is      *)
(* counted in intervals.  A state that getOrCreateAlertState has not made  *)
(* yet is the default state.                                               *)
(*                                                                         *)
(* A definition marked "Mutant" is a faulty variant of the definition      *)
(* after it: nothing uses it but the test that the properties catch it.    *)
(***************************************************************************)
EXTENDS Integers, Sequences, FiniteSets

CONSTANTS
  Services,
  Rules,     \* sequence of [type, perService, firings, clears]
  Rates,     \* values of rate_rps
  GoneAfter, \* fiveMinMs in evaluation intervals
  Global,    \* the target of a rule without a service pattern
  None       \* no entry in prevRates or lastSeenTimes

RuleTypes == {"threshold", "rate_drop", "new_service", "service_disappeared"}

ASSUME AlertAssumption ==
  /\ Rules \in Seq([type : RuleTypes, perService : BOOLEAN,
                    firings : Nat \ {0}, clears : Nat \ {0}])
  /\ Rates \subseteq Nat
  /\ GoneAfter \in Nat \ {0}
  /\ Global \notin Services
  /\ None \notin Nat

VARIABLES
  alerts,     \* states: by rule and target
  prevRates,  \* by service
  seen,       \* seenServices
  lastSeen,   \* intervals since lastSeenTimes, up to GoneAfter
  snap,       \* history: the last snapshot evaluated
  streak,     \* history: by rule and target, the run of equal outcomes
  announced   \* history: how often each service was reported as new

vars == <<alerts, prevRates, seen, lastSeen, snap, streak, announced>>

RuleIds == 1 .. Len(Rules)
Targets == Services \cup {Global}
Signals == [bad : BOOLEAN, rate : Rates]
Snapshots == UNION { [S -> Signals] : S \in SUBSET Services }

(* Counters are compared with their limit only: they stop there.           *)
UpTo(n, limit) == IF n > limit THEN limit ELSE n

-----------------------------------------------------------------------------
(* The life of one alert.                                                  *)

Ok == [status |-> "ok", breaches |-> 0, clears |-> 0]

CountKeepingBreaches(st, r, breached) ==                       \* Mutant
  [st EXCEPT !.breaches = IF breached THEN UpTo(@ + 1, r.firings) ELSE @,
             !.clears   = IF breached THEN 0 ELSE UpTo(@ + 1, r.clears)]

CountForgetting(st, r, breached) ==                            \* Mutant
  [st EXCEPT !.breaches = IF breached THEN 1 ELSE 0,
             !.clears   = IF breached THEN 0 ELSE UpTo(@ + 1, r.clears)]

(* updateBreachCounters.                                                   *)
CountBreach(st, r, breached) ==
  [st EXCEPT !.breaches = IF breached THEN UpTo(@ + 1, r.firings) ELSE 0,
             !.clears   = IF breached THEN 0 ELSE UpTo(@ + 1, r.clears)]

SettleFiringOnly(st, r) ==                                     \* Mutant
  IF st.status = "ok" /\ st.breaches >= r.firings
  THEN [st EXCEPT !.status = "firing"]
  ELSE st

SettleOnBoth(st, r) ==                                         \* Mutant
  IF st.status = "ok" /\ st.breaches >= r.firings
  THEN [st EXCEPT !.status = "firing"]
  ELSE IF st.status = "firing"
  THEN [st EXCEPT !.status = "ok"]
  ELSE st

(* transitionToFiring and transitionToResolved, which leave the counters.  *)
Settle(st, r) ==
  IF st.status = "ok" /\ st.breaches >= r.firings
  THEN [st EXCEPT !.status = "firing"]
  ELSE IF st.status = "firing" /\ st.clears >= r.clears
  THEN [st EXCEPT !.status = "ok"]
  ELSE st

(* evaluateRule.                                                           *)
EvaluateRule(st, r, breached) == Settle(CountBreach(st, r, breached), r)

-----------------------------------------------------------------------------
(* What rule i sees: the rules before it in the same evaluation have       *)
(* already recorded rates and services.                                    *)

EarlierRule(i, type) == \E j \in 1 .. i - 1 : Rules[j].type = type

PrevRate(i, s, new) ==
  IF EarlierRule(i, "rate_drop") THEN new[s].rate ELSE prevRates[s]

SeenBeforeEvaluation(i, new) == seen                           \* Mutant

SeenServices(i, new) ==
  IF EarlierRule(i, "new_service") THEN seen \cup DOMAIN new ELSE seen

(* dropPct > 50.                                                           *)
HalvedBy(prev, rate) == 2 * (prev - rate) > prev

(* How long ago a service was seen, at this evaluation.                    *)
Elapsed(s) == UpTo(lastSeen[s] + 1, GoneAfter)
GoneLong(s, new) ==
  lastSeen[s] # None /\ s \notin DOMAIN new /\ Elapsed(s) >= GoneAfter

(* The rules, each with the targets it evaluates in snapshot new.          *)

(* Left out: a rule per service whose metric is a global one is evaluated  *)
(* under its own name when its pattern matches no service.                 *)
Threshold(i, t, new) ==
  LET r == Rules[i]
  IN  IF r.perService
      THEN IF t \in DOMAIN new
           THEN EvaluateRule(alerts[<<i, t>>], r, new[t].bad)
           ELSE alerts[<<i, t>>]
      ELSE IF t = Global
           THEN EvaluateRule(alerts[<<i, t>>], r, \E s \in DOMAIN new : new[s].bad)
           ELSE alerts[<<i, t>>]

(* A service without a positive earlier rate is recorded, not evaluated.   *)
RateDrop(i, t, new) ==
  IF t \in DOMAIN new /\ PrevRate(i, t, new) # None /\ PrevRate(i, t, new) > 0
  THEN EvaluateRule(alerts[<<i, t>>], Rules[i], HalvedBy(PrevRate(i, t, new), new[t].rate))
  ELSE alerts[<<i, t>>]

(* A service that is back resolves its alert at once; one gone for five    *)
(* minutes counts a breach.                                                *)
ServiceDisappeared(i, t, new) ==
  LET st == alerts[<<i, t>>]
  IN  IF t = Global \/ lastSeen[t] = None THEN st
      ELSE IF t \in DOMAIN new
           THEN IF st.status = "firing" THEN [st EXCEPT !.status = "ok"] ELSE st
      ELSE IF GoneLong(t, new) /\ st.status # "firing"
           THEN Settle(CountBreach(st, Rules[i], TRUE), Rules[i])
      ELSE st

(* A new-service alert is "ok" again when its evaluation ends.             *)
AlertAfter(i, t, new) ==
  CASE Rules[i].type = "threshold" -> Threshold(i, t, new)
    [] Rules[i].type = "rate_drop" -> RateDrop(i, t, new)
    [] Rules[i].type = "service_disappeared" -> ServiceDisappeared(i, t, new)
    [] Rules[i].type = "new_service" -> alerts[<<i, t>>]

(* evaluateNewService: rule i notifies of service s.                       *)
Announces(i, s, new) ==
  Rules[i].type = "new_service" /\ s \in DOMAIN new \ SeenServices(i, new)

(* The rules that notify of service s.                                     *)
Announcing(s, new) == { i \in RuleIds : Announces(i, s, new) }

(* trackServices.                                                          *)
TrackServices(new) ==
  /\ seen' = seen \cup DOMAIN new
  /\ lastSeen' = [s \in Services |->
                    IF s \in DOMAIN new THEN 0
                    ELSE IF lastSeen[s] = None THEN None ELSE Elapsed(s)]
  /\ prevRates' = [s \in Services |->
                     IF s \in DOMAIN new THEN new[s].rate ELSE prevRates[s]]

-----------------------------------------------------------------------------
(* History, independent of the engine's counters: whether a rule's         *)
(* condition holds of a target, for the rules that count evaluations.      *)

Evaluated(i, t, new) ==
  CASE Rules[i].type = "threshold" ->
         IF Rules[i].perService THEN t \in DOMAIN new ELSE t = Global
    [] Rules[i].type = "rate_drop" ->
         t \in DOMAIN new /\ PrevRate(i, t, new) # None /\ PrevRate(i, t, new) > 0
    [] Rules[i].type = "service_disappeared" -> t # Global /\ lastSeen[t] # None
    [] Rules[i].type = "new_service" -> FALSE

Breached(i, t, new) ==
  CASE Rules[i].type = "threshold" ->
         IF Rules[i].perService THEN new[t].bad
                                ELSE \E s \in DOMAIN new : new[s].bad
    [] Rules[i].type = "rate_drop" -> HalvedBy(PrevRate(i, t, new), new[t].rate)
    [] Rules[i].type = "service_disappeared" -> GoneLong(t, new)

Lengthen(run, r, breached) ==
  [breach |-> IF breached THEN UpTo(run.breach + 1, r.firings) ELSE 0,
   clear  |-> IF breached THEN 0 ELSE UpTo(run.clear + 1, r.clears)]

-----------------------------------------------------------------------------
(* One firing of the interval.                                             *)
Evaluate(new) ==
  /\ snap' = new
  /\ alerts' = [k \in RuleIds \X Targets |-> AlertAfter(k[1], k[2], new)]
  /\ announced' = [s \in Services |->
                     UpTo(announced[s] + Cardinality(Announcing(s, new)), 2)]
  /\ TrackServices(new)
  /\ streak' = [k \in RuleIds \X Targets |->
       IF Evaluated(k[1], k[2], new)
       THEN Lengthen(streak[k], Rules[k[1]], Breached(k[1], k[2], new))
       ELSE streak[k]]

(* The provider has no snapshot: the interval passes unused.               *)
NoSnapshot ==
  /\ lastSeen' = [s \in Services |-> IF lastSeen[s] = None THEN None ELSE Elapsed(s)]
  /\ UNCHANGED <<alerts, prevRates, seen, snap, streak, announced>>

Init ==
  /\ alerts = [k \in RuleIds \X Targets |-> Ok]
  /\ prevRates = [s \in Services |-> None]
  /\ seen = {}
  /\ lastSeen = [s \in Services |-> None]
  /\ snap = << >>
  /\ streak = [k \in RuleIds \X Targets |-> [breach |-> 0, clear |-> 0]]
  /\ announced = [s \in Services |-> 0]

Next == (\E new \in Snapshots : Evaluate(new)) \/ NoSnapshot

Spec == Init /\ [][Next]_vars

(* The interval fires for ever, and the provider does not fail for ever.   *)
FairSpec == Spec /\ WF_vars(\E new \in Snapshots : Evaluate(new))

-----------------------------------------------------------------------------
(* Properties.                                                             *)

AlertStates(r) == [status : {"ok", "firing"}, breaches : 0 .. r.firings,
                   clears : 0 .. r.clears]

(* The variables keep their shape.                                         *)
TypeOK ==
  /\ \A i \in RuleIds, t \in Targets :
       /\ alerts[<<i, t>>] \in AlertStates(Rules[i])
       /\ streak[<<i, t>>] \in [breach : 0 .. Rules[i].firings, clear : 0 .. Rules[i].clears]
  /\ prevRates \in [Services -> Rates \cup {None}]
  /\ seen \subseteq Services
  /\ lastSeen \in [Services -> 0 .. GoneAfter \cup {None}]
  /\ snap \in Snapshots
  /\ announced \in [Services -> 0 .. 2]

Fires(i, t) == alerts[<<i, t>>].status = "ok" /\ alerts'[<<i, t>>].status = "firing"
Resolves(i, t) == alerts[<<i, t>>].status = "firing" /\ alerts'[<<i, t>>].status = "ok"

(* firingsBeforeAlert, "How many consecutive evaluations must breach       *)
(* before firing" (alerting.ts:38): an alert fires only at the end of such *)
(* a run, whatever happened before it.                                     *)
FiresAfterStreak ==
  [][ \A i \in RuleIds, t \in Targets :
        Fires(i, t) => streak'[<<i, t>>].breach = Rules[i].firings ]_vars

(* "Request rate dropped more than 50% compared to previous evaluation"    *)
(* (alerting.ts:562): an alert of a dropped rate fires only for a service  *)
(* that the evaluation before showed at more than twice the rate.          *)
DropsFromPreviousEvaluation ==
  [][ \A i \in RuleIds, t \in Targets :
        Rules[i].type = "rate_drop" /\ Fires(i, t) =>
          t \in DOMAIN snap /\ HalvedBy(snap[t].rate, snap'[t].rate) ]_vars

(* clearsBeforeResolve, "How many consecutive clear evaluations before     *)
(* resolving" (alerting.ts:40).                                            *)
ResolvesAfterStreak ==
  [][ \A i \in RuleIds, t \in Targets :
        Resolves(i, t) => streak'[<<i, t>>].clear = Rules[i].clears ]_vars

(* An alert state that fires says so until a clear run ends it: an alert   *)
(* that is ok has no full run of breaches behind it, one that fires no     *)
(* full run of clears.                                                     *)
StatusFollowsStreak ==
  \A i \in RuleIds, t \in Targets :
    /\ alerts[<<i, t>>].status = "ok" => streak[<<i, t>>].breach < Rules[i].firings
    /\ alerts[<<i, t>>].status = "firing" => streak[<<i, t>>].clear < Rules[i].clears

(* A service is reported as new once, in the first snapshot that shows it, *)
(* however often it comes and goes and however many rules report new       *)
(* services: the rules and the tracking after them share one set.          *)
NewServiceOnce ==
  (\E i \in RuleIds : Rules[i].type = "new_service") =>
    \A s \in Services :
      /\ announced[s] <= 1
      /\ s \in DOMAIN snap => announced[s] = 1

(* Once every snapshot shows every service healthy, with a steady rate     *)
(* above 0, no alert stays firing.  (A rate that stays at 0 is never       *)
(* compared, and an absent service is never evaluated: their alerts stay.) *)
AllClear(c) == c \in [Services -> Signals] /\ \A s \in Services : ~c[s].bad /\ c[s].rate > 0
Settles ==
  \A c \in { c \in Snapshots : AllClear(c) } :
    <>[](snap = c) => <>[](\A i \in RuleIds, t \in Targets : alerts[<<i, t>>].status = "ok")

(* Once every snapshot shows a service beyond the threshold, the alert     *)
(* fires and stays so, although runs are broken before and snapshots fail. *)
KeepsFiring ==
  \A i \in RuleIds :
    Rules[i].type = "threshold" /\ ~Rules[i].perService =>
      (<>[](\E s \in DOMAIN snap : snap[s].bad) => <>[](alerts[<<i, Global>>].status = "firing"))
=============================================================================

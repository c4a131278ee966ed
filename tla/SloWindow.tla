----------------------------- MODULE SloWindow -----------------------------
(***************************************************************************)
(* lib/slo.ts: service level objectives, their error budgets and burn      *)
(* rates.  The numerator of a burn rate is a count of bad events in a      *)
(* window of buckets; its denominator is the traffic of an hour that is    *)
(* over.  Observations come from the topology snapshots that the alert     *)
(* engine asks for.                                                        *)
(*                                                                         *)
(* Percentages are given as the share of events that may be bad, in        *)
(* thousandths, and the rates of the alerts in tenths, so that both sides  *)
(* of every comparison are integers.                                       *)
(*                                                                         *)
(* A definition marked "Mutant" is a faulty variant of the definition      *)
(* after it: nothing uses it but the test that the properties catch it.    *)
(***************************************************************************)
EXTENDS Integers, Sequences, FiniteSetsExt, Functions

CONSTANTS
  Slos,            \* [name, service, metric, threshold, budget]
  SloSets,         \* what define may be called with: subsets of Slos
  AnyService,      \* "*"
  Samples,         \* golden signals: [service, latency, error_rate, throughput]
  Hour,            \* 3600_000 and the short window
  SixHours,        \* 21600_000, the long window
  BucketCount,     \* buckets of the short window; the long one has six times as many
  CriticalRate,    \* 14.4, in tenths
  WarningRate,     \* 6.0, in tenths
  MaxTotal,        \* bound: observations of one objective
  SloHorizon       \* bound: the last tick of the clock

(* Windows of at least a bucket, targets of at most everything, and rates  *)
(* that some traffic must reach.                                           *)
ASSUME SloAssumption ==
  /\ Hour \in Nat \ {0} /\ SixHours \in Nat \ {0} /\ BucketCount \in Nat \ {0}
  /\ CriticalRate \in Nat \ {0} /\ WarningRate \in Nat \ {0}
  /\ SloSets \subseteq SUBSET Slos
  /\ \A slo \in Slos : slo.budget \in Nat

VARIABLES
  time,            \* Date.now()
  slos,            \* the current definitions
  perSlo,          \* sloKey -> state
  badAt            \* history: sloKey -> the times of its bad events

sloVars == <<time, slos, perSlo, badAt>>

sloKey(slo) == <<slo.service, slo.metric, slo.name>>
Keys == { sloKey(slo) : slo \in Slos }

-----------------------------------------------------------------------------
(* The windows.                                                            *)

CeilDiv(a, b) == (a + b - 1) \div b
createWindow(windowMs, bucketCount) ==
  [buckets |-> << >>, bucketSizeMs |-> CeilDiv(windowMs, bucketCount),
   windowSizeMs |-> windowMs, totalBad |-> 0]

Bucket(w, at) == (at \div w.bucketSizeMs) * w.bucketSizeMs
ExpiredEarly(w, at) == { ts \in DOMAIN w.buckets : ts <= at - w.windowSizeMs }   \* Mutant
Expired(w, at) == { ts \in DOMAIN w.buckets : ts < at - w.windowSizeMs }
Total(buckets) == SumFunction(buckets)

(* recordBad: the bucket is counted first, then what has expired is        *)
(* evicted; nothing is evicted while all goes well.                        *)
recordBad(w, at) ==
  LET ts == Bucket(w, at)
      counted == [w EXCEPT !.buckets =
        [b \in DOMAIN @ \cup {ts} |->
           (IF b \in DOMAIN @ THEN @[b] ELSE 0) + (IF b = ts THEN 1 ELSE 0)]]
      gone == Restrict(counted.buckets, Expired(counted, at))
  IN  [counted EXCEPT !.buckets = Restrict(@, DOMAIN @ \ DOMAIN gone),
                      !.totalBad = @ + 1 - Total(gone)]

badInWindow(w, windowMs, at) ==
  Total(Restrict(w.buckets, { ts \in DOMAIN w.buckets : ts >= at - windowMs }))

-----------------------------------------------------------------------------
(* The engine.                                                             *)

FreshState ==
  [shortWindow |-> createWindow(Hour, BucketCount),
   longWindow |-> createWindow(SixHours, 6 * BucketCount),
   totalEvents |-> 0, badEvents |-> 0,
   hourStart |-> time, hourCount |-> 0, eventsPerHour |-> 0]

(* define: an objective that was defined before keeps its state.           *)
define(defined) ==
  LET keys == { sloKey(slo) : slo \in defined }
  IN  /\ slos' = defined
      /\ perSlo' = [k \in keys |-> IF k \in DOMAIN perSlo THEN perSlo[k] ELSE FreshState]
      /\ badAt' = [k \in keys |-> IF k \in DOMAIN badAt THEN badAt[k] ELSE << >>]
      /\ UNCHANGED time

Applies(slo, service, metric) ==
  slo.service \in {AnyService, service} /\ slo.metric = metric

(* The roll of the hour: the count of the hour that is over becomes the    *)
(* rate, and a new hour begins with this event, whenever that is.          *)
RollHour(state) ==
  IF time - state.hourStart >= Hour
  THEN [state EXCEPT !.eventsPerHour = state.hourCount, !.hourCount = 1, !.hourStart = time]
  ELSE [state EXCEPT !.hourCount = @ + 1]

Observe(slo, state, value) ==
  LET counted == [RollHour(state) EXCEPT !.totalEvents = @ + 1]
  IN  IF value > slo.threshold
      THEN [counted EXCEPT !.badEvents = @ + 1,
                           !.shortWindow = recordBad(@, time),
                           !.longWindow = recordBad(@, time)]
      ELSE counted

(* record for one sample: recordSloMetrics hands all three of its metrics  *)
(* to the engine, of which an objective looks at one.                      *)
Concerned(sample) ==
  { slo \in slos : \E metric \in {"latency", "error_rate", "throughput"} :
      Applies(slo, sample.service, metric) }
SloOf(key) == CHOOSE slo \in slos : sloKey(slo) = key

RecordSloMetrics(sample) ==
  LET keys == { sloKey(slo) : slo \in Concerned(sample) }
      value(k) == sample[SloOf(k).metric]
  IN  /\ \A k \in keys : perSlo[k].totalEvents < MaxTotal
      /\ perSlo' = [k \in DOMAIN perSlo |->
           IF k \in keys THEN Observe(SloOf(k), perSlo[k], value(k)) ELSE perSlo[k]]
      /\ badAt' = [k \in DOMAIN badAt |->
           IF k \in keys /\ value(k) > SloOf(k).threshold
           THEN Append(badAt[k], time) ELSE badAt[k]]
      /\ UNCHANGED <<time, slos>>

(* reset.                                                                  *)
ResetSlo ==
  /\ perSlo' = [k \in DOMAIN perSlo |-> FreshState]
  /\ badAt' = [k \in DOMAIN badAt |-> << >>]
  /\ UNCHANGED <<time, slos>>

SloTick ==
  /\ time < SloHorizon
  /\ time' = time + 1
  /\ UNCHANGED <<slos, perSlo, badAt>>

(* The server defines the default objectives before it takes requests.     *)
SloInit ==
  /\ time = 0
  /\ slos \in SloSets
  /\ perSlo = [k \in { sloKey(slo) : slo \in slos } |-> FreshState]
  /\ badAt = [k \in { sloKey(slo) : slo \in slos } |-> << >>]

SloNext ==
  \/ \E defined \in SloSets : define(defined)
  \/ \E sample \in Samples : RecordSloMetrics(sample)
  \/ ResetSlo
  \/ SloTick

SloSpec == SloInit /\ [][SloNext]_sloVars

-----------------------------------------------------------------------------
(* GET /v1/slo and GET /v1/slo/:service: what is computed on demand.       *)

(* Rounded to the nearest, a half upwards.                                 *)
errorBudget(budget, total) == (2 * total * budget + 1000) \div 2000

(* Bad over budgeted, as a fraction; a budget of nothing is infinitely     *)
(* burnt by any bad event and not at all by none.                          *)
AtLeast(bad, budgeted, rate) ==
  IF budgeted = 0 THEN bad > 0 ELSE 10000 * bad >= rate * budgeted

status(slo) ==
  LET state == perSlo[sloKey(slo)]
      total == Max({1, state.totalEvents})
      budget == errorBudget(slo.budget, total)
  IN  [budget |-> budget,
       remaining |-> Max({0, budget - state.badEvents}),
       budgetPerHour |-> Max({1, state.eventsPerHour}) * slo.budget,
       bad1h |-> badInWindow(state.shortWindow, Hour, time),
       bad6h |-> badInWindow(state.longWindow, SixHours, time)]

(* budgetRemaining as a share: with a budget of nothing all of it is left. *)
BudgetLeft(s) == IF s.budget > 0 THEN <<s.remaining, s.budget>> ELSE <<1, 1>>

checkBurnAlerts(defined) ==
  { <<slo, "critical-1h">> : slo \in
      { x \in defined : LET s == status(x) IN AtLeast(s.bad1h, s.budgetPerHour, CriticalRate) } }
  \cup
  { <<slo, "warning-6h">> : slo \in
      { x \in defined : LET s == status(x) IN AtLeast(s.bad6h, 6 * s.budgetPerHour, WarningRate) } }

SloOfService(service) ==
  LET asked == { slo \in slos : slo.service \in {service, AnyService} }
  IN  [slos |-> { <<slo, status(slo), BudgetLeft(status(slo))>> : slo \in asked },
       burnAlerts |-> checkBurnAlerts(asked)]

-----------------------------------------------------------------------------
(* Properties.                                                             *)

BadSince(k, from) == Cardinality({ i \in DOMAIN badAt[k] : badAt[k][i] >= from })

Faithful(k, w, windowMs) ==
  /\ badInWindow(w, windowMs, time) <= BadSince(k, time - windowMs)
  /\ badInWindow(w, windowMs, time) >= BadSince(k, time - windowMs + w.bucketSizeMs - 1)
  /\ w.totalBad = Total(w.buckets)

(* Eviction happens only when something goes wrong, buckets are as wide as *)
(* a sixtieth of the window, and objectives are redefined and reset while  *)
(* they run; still both burn rates count every bad event of their window,  *)
(* but for one bucket at its old end, and none that is older, so an alert  *)
(* falls silent by itself.                                                 *)
BurnCountsRecentBad ==
  /\ \A k \in DOMAIN perSlo :
       /\ Faithful(k, perSlo[k].shortWindow, Hour)
       /\ Faithful(k, perSlo[k].longWindow, SixHours)
  /\ \A slo \in slos :
       LET fired == SloOfService(slo.service).burnAlerts
       IN  /\ <<slo, "critical-1h">> \in fired => BadSince(sloKey(slo), time - Hour) > 0
           /\ <<slo, "warning-6h">> \in fired => BadSince(sloKey(slo), time - SixHours) > 0
=============================================================================

----------------------------- MODULE Forwarders -----------------------------
(***************************************************************************)
(* lib/forwarder.ts and lib/forwarders/: every batch that POST             *)
(* /ingest/batch takes is handed to all forwarders at once and nobody      *)
(* waits for the answer.  Each forwarder cuts the batch into requests and  *)
(* sends them one after the other, each after a pause that keeps the       *)
(* requests apart; the batches of two callers are sent concurrently.       *)
(*                                                                         *)
(* The services at the other end are external: they answer well, badly, or *)
(* not at all, in which case the timeout of the fetch ends it.             *)
(*                                                                         *)
(* A definition marked "Mutant" is a faulty variant of the definition      *)
(* after it: nothing uses it but the test that the properties catch it.    *)
(***************************************************************************)
EXTENDS Integers, FiniteSets, SequencesExt

CONSTANTS
  Environments,    \* the sets of forwarders the environment may configure
  Bodies,          \* bodies of POST /ingest/batch: how many events each has
  DatadogChunk,    \* 200 series
  SplunkChunk,     \* 500 events
  SeriesPerMetric, \* 6
  MinInterval,     \* 1000 / maxRps
  MaxBatches       \* bound: batches ever posted

ASSUME ForwardAssumption ==
  /\ Environments \subseteq SUBSET {"datadog", "splunk", "otlp"}
  /\ DatadogChunk \in Nat \ {0} /\ SplunkChunk \in Nat \ {0}
  /\ SeriesPerMetric \in Nat \ {0} /\ MinInterval \in Nat
  /\ Bodies \subseteq Nat /\ MaxBatches \in Nat

VARIABLES
  configured,      \* the forwarders registered at start-up
  batches,         \* the batches posted, in order: how many metrics each has
  task,            \* <<batch, forwarder>> -> the state of that send
  elapsed,         \* forwarder -> Date.now() - lastRequestTime, up to MinInterval
  results,         \* batch -> what forwardToAll has collected so far
  running          \* FALSE once the process has left

forwardVars == <<configured, batches, task, elapsed, results, running>>

(* forwardBatch makes one metric of every event and no edges, so what the  *)
(* forwarders do with edges is left out.                                   *)
-----------------------------------------------------------------------------
(* What each forwarder makes of a batch: the sizes of its requests.        *)

Chunks(n, size) ==
  [i \in 1 .. (n + size - 1) \div size |-> IF i * size <= n THEN size ELSE n % size]

(* Six series per metric in chunks; all events in chunks; one request with *)
(* everything, which counts for one.  A batch of the route can always be   *)
(* encoded: the branch of otlp.ts that answers 0 accepted and 0 rejected   *)
(* when it cannot is left out.                                             *)
DatadogPlan(n) == Chunks(SeriesPerMetric * n, DatadogChunk)
SplunkPlan(n) == Chunks(n, SplunkChunk)
OtlpPlan(n) == IF n = 0 THEN << >> ELSE <<1>>

Plan(f, n) ==
  CASE f = "datadog" -> DatadogPlan(n) [] f = "splunk" -> SplunkPlan(n) [] f = "otlp" -> OtlpPlan(n)

(* What there is to accept of a batch of n metrics, in the units in which  *)
(* each forwarder reports.                                                 *)
Whole(f, n) ==
  CASE f = "datadog" -> SeriesPerMetric * n
    [] f = "splunk" -> n
    [] f = "otlp" -> IF n = 0 THEN 0 ELSE 1

-----------------------------------------------------------------------------
(* The registry.                                                           *)

NewSend(plan) ==
  [at |-> "throttle", todo |-> plan, accepted |-> 0, rejected |-> 0,
   sleep |-> 0,           \* what is left of the sleep in throttle
   gap |-> MinInterval,   \* history: the time since its own last request
   troubled |-> FALSE]    \* history: one of its requests was not answered well

Sends(n) == { <<n, f>> : f \in configured }

(* forwardBatch and forwardToAll: a send begins with every forwarder.      *)
PostBatch(body) ==
  /\ running
  /\ configured # {}
  /\ Len(batches) < MaxBatches
  /\ batches' = Append(batches, body)
  /\ task' = [p \in DOMAIN task \cup Sends(Len(batches')) |->
       IF p \in DOMAIN task THEN task[p] ELSE NewSend(Plan(p[2], body))]
  /\ results' = Append(results, << >>)
  /\ UNCHANGED <<configured, elapsed, running>>

At(p, place) == running /\ p \in DOMAIN task /\ task[p].at = place

(* A send returns; what is left of it is its result.                       *)
Return(p, t) ==
  /\ task' = [task EXCEPT ![p] = [NewSend(<< >>) EXCEPT !.at = "done", !.troubled = t.troubled]]
  /\ results' = [results EXCEPT ![p[1]] =
       [f \in DOMAIN @ \cup {p[2]} |->
          IF f = p[2] THEN [accepted |-> t.accepted, rejected |-> t.rejected] ELSE @[f]]]

Continue(p, t) ==
  IF t.todo = << >> THEN Return(p, t)
  ELSE task' = [task EXCEPT ![p] = [t EXCEPT !.at = "throttle"]] /\ UNCHANGED results

-----------------------------------------------------------------------------
(* One send.                                                               *)

(* The request goes out, and throttle notes the time of it.                *)
Go(p) ==
  /\ task' = [task EXCEPT ![p].at = "fetch", ![p].gap = 0]
  /\ elapsed' = [elapsed EXCEPT ![p[2]] = 0]
  /\ UNCHANGED results

(* throttle looks at the time of the last request, of any send, before it  *)
(* sleeps and not after: several sends may wake together.                  *)
TooSoonByOne(f) == elapsed[f] < MinInterval - 1                 \* Mutant
TooSoon(f) == elapsed[f] < MinInterval

Throttle(p) ==
  /\ At(p, "throttle")
  /\ IF task[p].todo = << >> THEN Return(p, task[p]) /\ UNCHANGED elapsed
     ELSE IF TooSoon(p[2])
          THEN /\ task' = [task EXCEPT ![p].at = "sleep",
                              ![p].sleep = MinInterval - elapsed[p[2]]]
               /\ UNCHANGED <<elapsed, results>>
          ELSE Go(p)
  /\ UNCHANGED <<configured, batches, running>>

Wake(p) ==
  /\ At(p, "sleep")
  /\ task[p].sleep = 0
  /\ Go(p)
  /\ UNCHANGED <<configured, batches, running>>

Accept(t) == [t EXCEPT !.todo = Tail(@), !.accepted = @ + Head(t.todo)]
Reject(t, n) == [t EXCEPT !.todo = Tail(@), !.rejected = @ + n, !.troubled = TRUE]

AnswerGood(p) == Continue(p, Accept(task[p]))

(* An HTTP error, an unreachable service or the timeout.                   *)
AnswerBad(p) == Continue(p, Reject(task[p], Head(task[p].todo)))

(* Datadog may list errors: the chunk then counts as as many rejections as *)
(* there are errors.                                                       *)
AnswerErrors(p) ==
  /\ p[2] = "datadog"
  /\ \E errors \in 1 .. Head(task[p].todo) : Continue(p, Reject(task[p], errors))

(* A Datadog answer whose body breaks off or is no JSON throws out of the  *)
(* send: the registry counts the whole batch, in metrics, as rejected, and *)
(* the requests that were left are not sent.                               *)
Uncaught(p) ==                                                 \* Mutant
  task' = [task EXCEPT ![p].at = "done"] /\ UNCHANGED results
SilentCatch(p) == Return(p, [task[p] EXCEPT !.accepted = 0, !.troubled = TRUE])  \* Mutant
Catch(p) ==
  Return(p, [task[p] EXCEPT !.accepted = 0, !.rejected = batches[p[1]], !.troubled = TRUE])

Answer(p) ==
  /\ At(p, "fetch")
  /\ \/ AnswerGood(p)
     \/ AnswerBad(p)
     \/ AnswerErrors(p)
     \/ p[2] = "datadog" /\ Catch(p)
  /\ UNCHANGED <<configured, batches, elapsed, running>>

(* SIGTERM: no forwarder has anything to flush, so the process leaves, and *)
(* whatever is being sent is gone.                                         *)
ShutdownAll ==
  /\ running
  /\ running' = FALSE
  /\ UNCHANGED configured
  /\ batches' = << >>
  /\ task' = << >>
  /\ elapsed' = [f \in configured |-> MinInterval]
  /\ results' = << >>

(* Time passes for whoever counts it.                                      *)
Later(t) == [t EXCEPT !.sleep = Max({0, @ - 1}), !.gap = Min({MinInterval, @ + 1})]

ForwardTick ==
  /\ running
  /\ elapsed' = [f \in configured |-> Min({MinInterval, elapsed[f] + 1})]
  /\ task' = [p \in DOMAIN task |-> IF task[p].at = "done" THEN task[p] ELSE Later(task[p])]
  /\ UNCHANGED <<configured, batches, results, running>>

ForwardInit ==
  /\ configured \in Environments
  /\ batches = << >>
  /\ task = << >>
  /\ elapsed = [f \in configured |-> MinInterval]
  /\ results = << >>
  /\ running = TRUE

Step(p) == Throttle(p) \/ Wake(p) \/ Answer(p)
AllSends == (1 .. MaxBatches) \X UNION Environments

ForwardNext ==
  \/ \E body \in Bodies : PostBatch(body)
  \/ \E p \in AllSends : Step(p)
  \/ ShutdownAll
  \/ ForwardTick

(* Timers fire, and a fetch ends with its timeout at the latest.           *)
ForwardFairness ==
  /\ \A p \in AllSends : WF_forwardVars(Step(p))
  /\ WF_forwardVars(ForwardTick)

ForwardSpec == ForwardInit /\ [][ForwardNext]_forwardVars /\ ForwardFairness

-----------------------------------------------------------------------------
(* Properties.                                                             *)

(* A result tells how the send went: all is accepted exactly when every    *)
(* request was answered well, whatever happened to the other forwarders    *)
(* and the other batches, and trouble always shows as a rejection.         *)
ResultsTell ==
  \A p \in DOMAIN task : task[p].at = "done" =>
    LET r == results[p[1]][p[2]]
    IN  IF task[p].troubled THEN r.rejected > 0
        ELSE r = [accepted |-> Whole(p[2], batches[p[1]]), rejected |-> 0]

(* The requests of one send are at least MinInterval apart, although the   *)
(* time throttle keeps is shared with all other sends.                     *)
PacedPerSend ==
  [][\A p \in AllSends : ~At(p, "fetch") /\ At(p, "fetch")' =>
       task[p].gap >= MinInterval]_forwardVars

(* Every batch gets a result from every forwarder, unless the server is    *)
(* stopped.                                                                *)
EveryBatchSettles ==
  \A n \in 1 .. MaxBatches :
    Len(batches) >= n ~> (running => n \in DOMAIN results /\ DOMAIN results[n] = configured)
=============================================================================

# A verification of aacyn

aacyn is an observability server: services and eBPF probes send it events, a
native engine (`native/libaacyn.c`) keeps them in a columnar ring buffer, and a
TypeScript server (`ts/apps/api`) ingests, queries, archives, aggregates,
alerts on and forwards them.  This directory holds TLA+ models of its
stateful parts, the TLC configurations that check them on small instances,
and proofs, checked by TLAPS, of what matters most for every instance.
Paths below are relative to the repository; `lib/` is
`ts/apps/api/src/lib/`.

## Inventory

| Component | State | Operations | Talks to | Hard part | Correct when |
|---|---|---|---|---|---|
| Columnar ring store, `native/libaacyn.c` 40-1000 | three mapped columns, `header->head`, `header->count`, `store->len` | create, open, batch_insert, scan, aggregates, extract_raw, sync | every writer and reader, one thread | wrap-around, three copies of one fact, kill inside an insertion | readers see the newest `capacity` accepted events, whole, in order, and nothing else |
| Filter rules, `libaacyn.c` 376-456, `lib/rules.ts` | `rules`, `num_rules`, `events_dropped` | set_rules, eval, filtered insert | called inside batch_insert, which calls itself | `num_rules` cleared during the recursion | no dropped event is stored, no other is lost |
| Archiver, `ts/apps/api/src/archiver.ts` | `lastArchivedHead`, its state file, objects in the bucket | tick, archiveChunk, commit, loadState, SIGTERM handler | extractRaw, S3 | overlapping ticks, lost answers, torn state file, overwritten region | no readable event is passed over, backlog shrinks |
| NativeStore, `lib/native-store.ts` | trace index, `_count`, last drop counters | ingestBatch, ingestBinary, query, drainTraceSpans, topologyEdges | engine by FFI, routes | index filled before the engine decides, batches that break off, span slots read again | index, count and engine agree |
| Store initialisation, `lib/store-init.ts` | -- | create, attach, load rules, start archiver | all of the above | order; attach is not awaited | no request enters unfiltered |
| V8 fallback, `lib/store.ts` | a map of arrays, `_count` | same interface | routes | the index is the store | queries return what came in |
| FlatBuffers ingest, `libaacyn.c` 1004-1095 | -- | decode then batch_insert | ingest route | bounds of a byte buffer | -- |
| eBPF probes, `native/aacyn_probes.bpf.c` | per-cpu and hash maps, two ring buffers | kernel hooks | consumer | two rings emptied one after the other, full rings, probes in foreign tasks | every event is delivered or counted as lost |
| eBPF consumer, `libaacyn.c` 1107-1860 | topology (512 edges), services, span ring, drop counters | poll callback, getters | store, NativeStore | fixed tables, matching that is no equivalence, order of events, per-pid cache, ring of spans read whole each time | one edge per identity, its counts stay with it, no span of the ring is missed |
| Alert engine, `lib/alerting.ts` | per rule and service: status, counters; seen services, rates | evaluate, fire, resolve | outputs (async) | counters that reset one another, services that vanish and return, state kept beyond a service's presence | fire and resolve at the end of full runs, each new service once, lasting conditions settle |
| Aggregator and push client, `lib/aggregator.ts` | latest snapshot per node, cached merge | push, removeNode, getMerged, pushOnce | nodes over HTTP | overlapping pushes, loss and reordering, sender's clock, restarts under new ids | the view shows fresh snapshots only, each push's own, and settles on the processes that run |
| SLO engine, `lib/slo.ts` | bucketed windows, hour counters | define, record, status, burn alerts, reset | server's alert snapshots, routes | eviction only on bad events, hours that roll only at a record | burn rates count the bad events of their window |
| Rate limiter, `lib/rate-limiter.ts` | count and window start per address | allow, cleanup | every request | windows placed by requests, cleanup between | never three limits around one window |
| Forwarders, `lib/forwarder.ts`, `lib/forwarders/*` | `lastRequestTime` per forwarder | forwardToAll, send, throttle, shutdownAll | ingest route, vendors | concurrent sends, chunks that fail, answers that throw | each batch gets a true result from each forwarder |
| Kubernetes discovery, `lib/k8s-discovery.ts` | pod map, timer | start, refresh, enrichEdges, enrichServices | API server, routes | addresses that pass on, lists that fail | labels are those of the last list read |
| Trace tree, `routes/trace.ts` | -- | buildSpanTree, computeTotalDuration | trace index, waterfall | cycles, orphans, copies | each span once |
| OTLP ingest, `routes/otlp.ts` | tag dictionary | spans to events | ingestBatch | malformed times, full dictionary | -- |
| Web pages, `packages/ui`, `apps/web` | last answer, error, renderer | poll, render | dashboard route | fetches neither ordered nor cancelled, effects that run once | what is shown becomes what the server holds |
| Metrics, logging, CLI, SDK, Grafana plugin, charts | -- | formatting, wiring | -- | -- | not protocols |

The hazards of this code, each at its line, are listed in `PROJECT.json`
with the properties that cover it, or with the reason why none does.

## Modules

| Module | Models | Correspondence |
|---|---|---|
| `RingIndex` | index arithmetic of the ring | `SlotOf` = `head % cap`, `NewCount` = `min(head, cap)`, `CopyIn` = one memcpy, `ExtractRange` = the clamps of `aacyn_store_extract_raw` |
| `FilterRules` | evaluation of compiled rules | `RuleDrops`, `ShouldDrop` = `eval_rules_should_drop`, `Pick` = the compaction of survivors |
| `EventLog` | what the store promises: a numbered log that keeps the newest `Cap` | abstract: no slots |
| `RingStore` | the store at the grain of calls, both modes | `BatchInsert`, which calls itself with the rules `Cleared` (`FastPath`) and then `PutBack`; `SetRules`, `Restart`; the scans and `ExtractRaw` are operators on the state |
| `RingRecovery` | one insertion at the grain of its stores to the shared mapping, and kills | `Call`, `WriteColumn`, `WriteHead`, `WriteCount`, `WriteLen`, `Kill`, `Reopen` |
| `Archiver` | ticks, uploads, state file, restarts; composes with the store through `RingIndex` | `TickStart`, `StorePut`, `Ack`, `UploadFails`, `Stop`, `Start`, `Insert` |
| `AlertEngine` | evaluation of every rule type over snapshots of services | `Evaluate` = one firing of the interval; `Settle` = the counters' thresholds, `CountBreach` = `updateBreachCounters`, one operator per `evaluate...` method |
| `NodePush` | push clients on machines, the network, the aggregator | `PushOnce`, `Start`, `Stop` on a machine; `Push`, `Prune`, `RestartAggregator` at the aggregator; `Lose` in between; `Tick` of the clock |
| `EbpfPipeline` | probes, the two kernel rings, the poll callback, the tables it fills, the span drain | one action per probe; `Poll` = one call of `ebpf_event_handler`; `Addressed` = `dest_ip != 0`, the guard of each of its branches; `FindEdge`, `CreateEdge`, `Count`, `Register`; `DrainTraceSpans` |
| `SpanTree` | the tree of a trace, level by level, and the rows of the waterfall | `NodeMap`, `Attached`, `BuildSpanTree`, `TotalDuration`, `Rows` = `flattenTree` |
| `RuleCompiler` | text rules to the records of `FilterRules` | `CompileRules` = `parseConfig` and `compileRules` |
| `OtlpIngest` | export requests to events and tags | `SpanToEvent`, `OtlpToEvents`, `TagsAfter` |
| `StoreServer` | the facade, both stores, the start-up and the routes that write and read; composes `RingStore`, `SpanTree`, `RuleCompiler`, `OtlpIngest` | one action per route, `ProbeEvent` = one event of the poll, `DrainTraceSpans`, `TryAttachEbpf`, `LoadRules`, `ServerRestart`; `Query` and `TraceTree` are operators on the state |
| `Topology` | records to edges, resolution of addresses, golden signals, the aggregator's merge | `ReadTopologyEdge`, `Resolve`, `DeduplicateEdges`, `Merge`: pure operators |
| `RateLimiter` | windows per client and their cleanup | `Require`, `Cleanup` |
| `SloWindow` | objectives, windows, budgets, burn alerts | `define`, `RecordSloMetrics`, `ResetSlo`; `status`, `checkBurnAlerts` on demand |
| `Forwarders` | sends of three vendors, one task per batch and vendor | `PostBatch`, `Throttle`, `Wake`, `Answer`, `ShutdownAll`; a task is at `throttle`, `sleep`, `fetch` or `done`, the awaits of `send` |
| `PodWatch` | the pod watcher and the labels it gives | `ListPods`, `RefreshPods`, `PollTimerFires`; `EnrichEdges`, `EnrichServices` |
| `DashboardView` | the dashboard, topology and services routes over `PodWatch` and `Topology`, and the four components that poll | `Mount`, `PollFires`, `AnswerPoll`, `Arrive`, `Fail`; `GraphShown`, `StatusShown`, `PageShown`, `CardShown` = what is rendered |
| `MC*` | constants of the small instances; `MCServerClock` puts four clock-driven parts side by side, `MCAlertParts` two alert engines, `MCArchiverStores` the archiver over either store; each behaviour is of one of them | -- |
| `*_proofs` | theorems and proofs about the module of that name; `ServerParts_proofs`: `RateLimiter`, `Forwarders`, `AlertEngine`; `Views_proofs`: `NodePush`, `Topology`, `PodWatch`, `SloWindow` | -- |

**Grain.**  The engine is called from one JavaScript thread and takes no
callback, so a call is one step to everybody in the process: `RingStore`
treats it so.  Only a kill can separate the stores of one call;
`RingRecovery` models them one by one, with a memcpy stopped anywhere and
in any order of its elements.  In the archiver a step is one turn of the
event loop: from the answer of one upload to the start of the next.  An
evaluation of all alert rules awaits nothing and is one step; so is the
aggregator's handler of a push.  A probe's emission and the handling of one
event are steps of their own, because probes run on other CPUs during a
poll; the JavaScript thread can drain spans only between polls.  A handler
that changes the store runs without an await between its first and its last
effect, so a request is one step of `StoreServer`.  A send of a forwarder
has a step for every await: the sleep, the request, the answer.  A web page
has one for the mount, the start of a fetch, the server's answer and its
arrival.

**Data.**  An event is a record with a field per column.  Indices are
unbounded integers: the code's are 64 bit and count events.  `log` in
`RingStore` and `RingRecovery` is a history variable: no guard reads it,
except that its length bounds the run; `loaded` in `RingStore` (the rules
last loaded), `uploaded` and `inherited` in `Archiver` (what the bucket ever
received; the head a new store began under), `connects` in `EbpfPipeline`
(whose the counted connects were), `streak` and `announced` in `AlertEngine`,
`passed` in `RateLimiter`, `badAt` in `SloWindow`, `probed` in `StoreServer`,
`gap` and `troubled` in `Forwarders` and `answered` in `PodWatch` are
histories too.  What a node reports in its
snapshots is the constant `Reported` of `NodePush`: timing decides which
snapshots are merged, not what is in them.  Divisions of golden signals by the uptime
are left out, burn rates are compared as products of integers, and words of
the rule file are strings that are only compared.

Operators marked `Mutant` are faulty variants, used only to check that each
property notices the fault.

## What the runs check

| Run | Instance | Shows |
|---|---|---|
| `RingStore_file` | capacity 3, batches up to 3, 8 events, 2 rule sets | the file-backed ring keeps the newest events, whole and in order; scans, aggregates and extraction agree with the history; nothing enters that the rules last loaded drop; it implements `EventLog` |
| `RingRecovery_kill` | capacity 3, batches up to 2, 7 events, 2 kills | a kill damages at most the oldest `MaxBatch` retained events; the count is never ahead; the next insertion heals the header |
| `RingRecovery_NeverCorrupted` | one kill | **violated**: ADR 002's "never corrupted" |
| `Archiver_life` | in either store: capacity 4, chunk 2, two overlapping ticks, 2 stops, fairness; 4 events in the anonymous store and 6 in the file, two chunks of equal end stamps and a third that begins alike | in either store what counts as archived, from the inherited pointer on, was received by the bucket and lost only to an object with the same end stamps; repeated uploads of a region coincide; the backlog ends below one chunk |
| `Archiver_anon_restart` | anonymous store | **violated**: after a restart the stale pointer hides new events |
| `Alert_rules` | every rule type as the default rules set it, a second rule for new services and a threshold per service, two services, rates 0 and 3; and, with one service, rates 0, 1, 3 and fairness, the rules that a lasting condition must settle | status follows the last full run of outcomes; alerts fire and resolve at the end of such a run only; each service is announced once, by whichever rule; a lasting breach ends in a firing alert, lasting health in none, and neither ends by itself |
| `Alert_drop` | the rule of a dropped rate, one service | **violated**: a service that returns after an absence is compared with its rate before it |
| `NodePush_view` | two machines, one restarted, one with a clock behind, requests that take up to 2 ticks, limit 3 ticks, fairness; three edges per machine, merged in every order | the view a push returns holds nothing stale and the pusher's own snapshot; it settles on the processes that run; the merge keeps every source's totals |
| `EbpfPipeline_host` | two processes of one name in two containers of one address, one with a second thread name, one with a second socket connected to 0.0.0.0; rings of 2 and 1, 2 edges, 1 service, 2 span slots, 6 events | no event is lost unseen, no two edges for one identity, identities keep their edge, an edge's hits are its completed connects, also when the table is full, a drain finds every span in the ring |
| `Store_server` | both stores; a native one of 2 events; 3 batch bodies, one that breaks off; 3 OTLP requests, 1 binary batch, 1 event of a probe, 4 spans of which one is a cycle; 4 rule files; restarts | what a query finds a trace lookup finds; the counts agree; a tree shows each span once; only probe events outrun the rules; the anonymous engine implements the refusing `EventLog` |
| `Server_clock` | windows of 1 tick and 2 requests, two clients; two objectives, hours of 3 ticks; two batches to pairs of forwarders; two addresses and one polling component with two fetches; fairness | the bound on bursts; burn rates; results of sends and their pace; labels; every batch settles; every page catches up |
| `Dashboard_graph` | the dashboard part alone | **violated**: the graph shows a canvas that nothing draws on |

**Bounds.**  `MaxHead` lets each ring wrap at least twice with every
alignment of head and batch; batches up to the capacity include the whole-ring batch; two
events that differ in every column expose a record mixed from two events.
Four events are two chunks, of which the second has the
first one's stamps; with two more, which end with another stamp, the file
overwrites a chunk, or half of one, that a tick was about to read.  Two
overlapping ticks are enough for every pair of conflicting writes to the
shared pointer and the file; two stops allow a stop during recovery from
another.  A batch is never larger than the ring: the server limits a request
body to 10 MB and the ring holds 16 million events.  An alert's counters
are modelled up to the rule's thresholds, beyond which nothing tells values
apart; rates 0, 1 and 3 include a drop by more than half, one of less, and
none at all.  In `NodePush` ages are counted up to `MaxAge`, at
which a snapshot is stale whatever the sender's clock; one machine has two successive `nodeIds`,
so an old process is in the view beside a new one.  In `EbpfPipeline`
`MaxEmitted` = 6 lets three of the four calls complete, so that a third edge
meets a table of two, and lets the socket connected to 0.0.0.0 send to a peer
that has an edge; the rings are smaller than that, so both overflow, and the
span ring wraps.  `Store_server` starts with an empty
store of two places, so the third event is refused, and `MaxIndexed` = 4
lets a trace hold a span, its parent, a copy and an orphan; a limit of two
compiled rules meets a file with three.  `Server_clock` has room for a
third window of a client within `RateHorizon` = 4, for a long window of
which everything has expired by `SloHorizon` = 8, and for two
sends of one forwarder that wake together; two fetches are the least that
can overtake one another, and one change of the surroundings (`MaxChanges`)
stales every reading taken before it.  Its parts share no variable, so the
run moves one part at a time (`part`): the union of their behaviours, not
their product, and what is reachable in one is reachable all the same.

**Deadlock** is checked in all runs but those of `RingRecovery` and
`Archiver`, which stop at their bounds (`MaxHead`, `MaxKills`,
`MaxRestarts`) or when an anonymous store is full, where nothing need happen,
and `Server_clock`, where SIGTERM ends the forwarders for good.

**Fairness.**  `Archiver_life`: the interval timer keeps firing (weak
fairness of each tick), a supervisor restarts a stopped process (weak
fairness of `Start`), and the bucket does not fail for ever (strong fairness
of `StorePut` and `Ack`: an upload tried again and again at last succeeds).
Nothing obliges an insert or a stop.  Without strong fairness the bucket
could refuse everything and no archiver would catch up.  `Alert_rules`:
the interval fires and the provider does not withhold snapshots for ever
(weak fairness of an evaluation), of the engine with one service, of which
alone the properties over time speak; the two services of the other are
symmetric.  `NodePush_view`: time passes and timers
fire (weak fairness of `Tick` and `PushOnce`), and of a process that pushes
for ever not every request is lost (strong fairness of its arrival).
Nothing obliges a machine to start, stop or lose a request.  `EbpfPipeline`
has safety properties only: nothing there must happen, since a poll that
finds its rings refilled may lag behind for ever.  `Server_clock`: each send
goes on and time passes (weak fairness of `Step` and `ForwardTick`: timers
fire, and a request ends with its timeout at the latest); the interval of a
page polls (weak fairness), and of requests that are made again and again
some are answered and arrive (strong fairness of `Answers` and `Arrives`),
though any may fail; the pod watcher's timer fires and its fetches end, and
the cluster's API does not fail for ever (strong fairness of `Listed`).
Nothing obliges anyone to post a batch or to stop.

## What is proved

Every safety invariant and every action property that a run passes is a
theorem, for every value of the constants that the assumptions of the
modules allow.  Liveness is left to the runs.

| Theorem | States |
|---|---|
| `RingStore_proofs!TypeCorrect`, `HeaderAgreement` | types; `head`, `count`, `len` describe one history |
| `RingStore_proofs!NewestRetained` | slot `h % Cap` holds event `h`, for each of the newest `Cap` |
| `RingStore_proofs!DroppedNeverEnters` | no event enters that the rules last loaded drop: what an insertion clears it puts back |
| `RingStore_proofs!Implementation` | `RingStore` implements `EventLog`, with the scan order as refinement mapping |
| `RingStore_proofs!ExtractionFaithful`, `ScansRight`, `AggregatesRight` | extraction returns exactly the clamped range of the history, a scan the oldest of what it asks for, the aggregates count each retained event once |
| `RingRecovery_proofs!KillsDamageOnlyOldest`, `CountFallsBehindByKills`, `ReturnHeals`, `TypeCorrect` | kills inside insertions damage at most the oldest `MaxBatch` retained events, the count is never ahead, an insertion that returns heals the header |
| `Archiver_proofs!NonePassedOver`, `TypeCorrect` | over either store and with any stamps: from the inherited pointer on, what counts as archived was received by the bucket, and lost there only to an object with the same end stamps, or overwritten first |
| `Archiver_proofs!NoEventTwice` | while nothing was overwritten, no event is in two objects |
| `EbpfPipeline_proofs!NoTwins`, `Stable`, `TypeCorrect` | one edge per identity, for ever the same; tables within their limits |
| `EbpfPipeline_proofs!Accounted` | emitted events are waiting, handled or counted as dropped, ring by ring |
| `EbpfPipeline_proofs!HitsMatch` | the hits of an edge are the completed connects that name an address and resolve to it; none is without an edge unless the table is full |
| `EbpfPipeline_proofs!DrainComplete` | a drain reads exactly the spans in the ring |
| `StoreServer_proofs!ServerImplementsEventLog` | driven by routes, probes and start-up, the anonymous engine implements the refusing `EventLog` |
| `StoreServer_proofs!OnlyProbesOutrun` | of the events the rules drop only those of the probes can be in the store |
| `StoreServer_proofs!IndexCovers`, `CountsAreRight` | a trace lookup finds what a query finds; facade, engine, index and probes agree on how much there is |
| `StoreServer_proofs!TreesShowEverySpan` | a tree shows every span once, whatever its parents, except on and below a cycle |
| `ServerParts_proofs!Quota`, `RateTypeCorrect` | no client passes more than two limits of requests within a window's length |
| `ServerParts_proofs!ResultsAreTrue`, `RequestsOfASendPaced` | a result reports the whole batch or a trouble it met; requests of one send keep the gap |
| `ServerParts_proofs!NewServicesReportedOnce`, `AlertTypeCorrect` | each service is announced once, counted rule by rule, however many rules report new services |
| `ServerParts_proofs!StatusFollowsRuns`, `FiresOnlyAfterRun`, `ResolvesOnlyAfterRun` | an alert's status follows the last full run; it fires and resolves at the end of one only |
| `Views_proofs!NothingStale`, `Admitted`, `TypeCorrect` | the view a push returns holds nothing silent for longer than the limit, and the pusher's own snapshot unless flight and clock difference exceed it |
| `Views_proofs!MergesRight` | a merge keeps every source's totals, has no edge twice, no average outside its parts' |
| `Views_proofs!LabelsAreKnown` | labels are those of the last list that could be read |
| `Views_proofs!BurnsRight` | burn rates count the bad events of their window, but for a bucket at its end |

**Hypotheses.**  Three theorems assume more than the modules do, those about
runs of an alert: `SingleCount`, a rule for services that disappear fires
after one evaluation and is resolved by one.  The default rules are so
(`alerting.ts:560-564`); with two, the breaches of separate absences add up
(`alerting.ts:341`) and the property is false.

*Ring store.*  `RingHoldsNewest` is not inductive: after a wrap it says
nothing of the link between a slot and the next write.  The invariant
`IInv` adds `HeaderAgrees` and states the contents column by column
(`ColumnsHold`).  The step needs that the slots of a batch no larger than
the ring are distinct (`SlotsDistinct`), that slots of positions one ring
apart coincide (`SlotTurn`), and that a copy in two pieces is the copy of
the whole (`RingIndex_proofs`).  Refinement then follows because the scan
order lists the newest `Cap` positions (`OrderedIsNewest`) and appending
commutes with keeping the newest (`NewestAppend`).  A scan is a loop that
stops when its output is full: `GatherCorrect` says that the k-th wanted
element is in the k-th place.  The aggregates run over raw slots, and
slots are in bijection with the retained positions (`SlotsCovered`).

*Kills.*  A kill may come between the stores of an insertion and inside a
copy, so the invariant speaks of the call in progress: what is left of its
plan is a run of copies, then `head`, `count`, `len`, in that order
(`Remainder`), and until the head is written every field of the batch is in
its slot or still to be copied (`CallOK`).  A copy goes only to slots of the
batch, hence to those of the oldest `MaxBatch` events (`NewerIntact`), and
each kill leaves the count at most one batch further behind
(`CountBehind`).

*Archiver.*  `NothingPassedOver` speaks of the pointer and the file; a tick
in flight writes them later from values it read earlier, and by then the
object it stored may have been replaced.  `IInv` therefore speaks of what the
bucket ever received (`uploaded`), which only grows: every pointer, in
memory, in the file or in a tick, is past nothing but received and
overwritten events and those below `inherited` (`GoodHead`); a tick's range
misses only overwritten events and, once stored, was received (`GoodTick`).
Beside it stands that the bucket holds the end stamps of all it received,
which is where the key must name both.  A new life over an empty store makes
every pointer good by inheriting it (`NewLife`).  `NoEventTwice` rests on
alignment: while nothing was overwritten every pointer, in memory, in the file or in a tick, is a
multiple of the chunk size, and two whole chunks are one or apart.

*eBPF pipeline.*  `EventsAccounted` tells the rings apart by the kinds
consumed, so its invariant says that failures, and only failures, are in
the critical ring.  `NoTwinEdges` is inductive: an edge is appended only
after a search over all edges found none, and counting changes no edge's
identity.  `Stable` follows from the same lemma (`Grows`): a step only
appends to the table and keeps identities, so the first edge that matches
stays the first.  `HitsMatch` keeps the identities of the connects that
were counted and compares each edge's hits with how many of them it is
found for: a count adds one to both, and a new edge takes over none of the
earlier ones, which had an edge before it, since until the table is full all
of them do.  `DrainComplete` is slot arithmetic,
taken from `RingIndex_proofs` with the span ring's size for the capacity.

*Server around the store.*  Three things touch the engine: a batch it can
take, compiled rules, a restart (`EngineStep`); the invariant of the store
carries over.  `Booting` says that before the server is ready the engine
has no rules and holds events of the probes alone.  `IndexInv` compares, for
each event, how often the columns and the index hold it: the index is filled
before the engine answers, and the engine drops and refuses but does not
invent.  `Tally` says what the facade counts: of a native store the growth
of the engine's length, of a Map the places of the index.  For the tree, the
depth of a node is the number of steps by which its way up leaves the nodes;
a way of as many steps as there are nodes meets one twice (pigeonhole), so
the node is on or below a cycle; each level the code attaches is then the
set of nodes of one depth.

*Rate limiter.*  `QuotaHolds` does not say how the windows of a client lie.
`IInv` adds that windows in which requests passed begin more than a window's
length apart (`Apart`), that none passes more than the limit (`Full`), and
what an entry knows: the requests of its window are the last ones, as many
as it counts up to the limit (`Current`); without an entry all windows are
over (`Forgotten`), which is what the cleanup's condition must ensure.  Of
`2 * MAX_REQUESTS + 1` requests the first, the middle and the last then lie
in three windows.

*Forwarders.*  A result is read when its send has ended.  `ForwardInv`
follows a send from its start: after k requests of its plan, what it has
accepted is what those k cover of the batch, unless it met trouble, and
then it has rejected something (`Progress`).  `ChunksCover`: the chunks of
a plan cover the batch, the last one cut short.

*Alert engine.*  The properties compare an alert with a history (`streak`)
that the engine does not keep.  `AInv` says, rule type by rule type, what of
that history its counters carry (`Linked`): of a threshold the current run,
of a rule for services that disappear how long the service has been gone.
`AnnounceInv`: a service has been announced exactly when it has been seen.

*Node push and merge.*  `PushAdmitted` needs to know how old a request can
be when it arrives, which `TypeOK` does not say: `IInv` adds `NetOK`, the
bound `InFlight` on the age of every request in the network.  `Tick` keeps
it because a request at the bound is lost when time passes.  `MergesRight`
follows the loop of `deduplicateEdges` (`DedupInv`): after k edges the keys
are distinct, the sums over every source are those of the k edges, and every
average lies between those it was made of, rounding included
(`RoundBetween`).

*Pods and objectives.*  `PodInv`: the map is the rebuild of the last list
that could be read, or empty; that clearing it makes the rebuild depend on
nothing else is why `RebuildUncleared` is caught.  `SloInv`: the
buckets of a window that are kept count the bad events of their time, and
those it lacks are over; the total is a sum over a set that changes with
each event, by the lemmas on `SumFunction`.

**Loops.**  The code's loops are recursive functions (`Gather`, `AddAll`,
`Fill`, `DeduplicateEdges`, the levels of a tree).  The prover has no
induction over an operator, so each is proved by a least counterexample: that
the function exists (`GatherRuns`, `AddRuns`, `FillRuns`, ...), then that
what is said of it holds at every index.

*Model-checked only.*  `CatchesUp`, `LastingHealthSettles`,
`LastingBreachFires`, `ViewSettles`, `EveryBatchSettles` and
`DashboardCatchesUp`: they are liveness under fairness, which TLAPS 1.4.5
cannot prove.  Nothing is proved of what the web pages render
(`DashboardView`) beyond the labels, nor of the converters in `OtlpIngest`
beyond what `ServerAssumption` asks of their results; `CompileRules` is
proved to yield rules the engine can hold.

## Where code and text disagree

Four runs end in a violation of something the repository says;
`PROJECT.json` quotes it under "findings".  Others were met while modelling
and have no run of their own.

Engine and archiver:

- The header's comment says `count` is `min(head, capacity)`; a kill between
  the two stores of an insertion leaves it otherwise until the next one.
- `archiver.ts` says the pointer is only advanced after a successful upload;
  it is also advanced past a region that was overwritten before it was read.
- The key of an object holds only the two end stamps of its chunk
  (`archiver.ts:179`): chunks with equal ones replace one another, and the
  events of all but the last are lost.  Nothing in the repository says they
  are kept, so `Archiver_life` contains the case and `NothingPassedOver`
  names it.
- `libaacyn.c:1715` asks TypeScript to read only new spans;
  `drainTraceSpans` reads from slot 0 on every call, so copies of a span pile
  up in the trace index, and `spanCount` of a trace counts them.
- A connect to 0.0.0.0 reaches this host, but is neither counted nor
  registered as a service (`libaacyn.c:1373-1420`); what is sent on its
  socket carries the peer's real address and is counted.
- The event handler flags an error when `status >= 400`; a status is at most
  6.  `read_container_id` passes over names of 16 characters and more, which
  all full container ids are.  The probe on `tcp_recvmsg` looks at the
  caller's buffer before the kernel has filled it.  `tcp_retransmit` runs in
  whatever task the timer interrupted, so its name and pid are foreign ones.

Alerts, objectives, limits:

- `alerting.ts:562` describes the drop as one against the previous
  evaluation; after an absence the rate compared with can be any number of
  evaluations old (`Alert_drop`).  Breaches of separate absences of a service add up
  (`alerting.ts:341`), so a disappearance rule that asks for two would fire
  at the first evaluation of the second absence.
- `server.ts:296` takes the uptime in milliseconds where `dashboard.ts` takes
  seconds, so the throughput alerts see is a thousandth of the one shown.
- A burn alert's denominator is the hour before this one, 0 in the first:
  any bad event then fires.  An hour rolls only when something is recorded.
  A budget that rounds to 0 is reported as wholly left.
- `rate-limiter.ts` calls its window sliding; it is fixed, and two full
  bursts can meet around its end (`QuotaHolds` says: never a third).

Forwarders and ingest:

- `throttle` keeps requests of one send apart; sends that sleep together
  wake together (`PacedPerSend` says what does hold).
- Datadog's rejections count errors, not series, and a body that cannot be
  read rejects the whole batch, in metrics, also after chunks were accepted.
  OTLP counts a batch as one.  A shutdown flushes nothing
  (`forwarders/datadog.ts:103`).  Events that the store refused or dropped
  are forwarded all the same.
- `routes/ingest.ts:113` promises 501 without the native library;
  `lib/store.ts` answers 0 stored and the route 202.  `/v1/events` reports
  every event of its body as accepted; OTLP reports events that rules drop
  as lost to capacity.
- A native and a V8 store differ on a time that is no integer: the first
  throws in the middle of the batch, the second stores it.

Pages and discovery:

- The V8 store has neither connections nor probes, so the dashboard over it
  shows demo data however many events it holds.  `source: "none"`, which
  `TopologyGraph` handles, is never sent, and its notice about eBPF (line
  305) cannot be reached.
- The status page dates its "last successful fetch" also after a failure;
  the dashboard page says "Live" before there is any data.
- Pods that share a node's address share one label; a list stops at 500.
- The aggregator merges golden signals that no node sends.  `NodePushClient`
  computes and logs a backoff that delays nothing.  A node whose clock is
  more than a minute behind is pruned by its own push.

## Not modelled

- Reopening a file with a capacity other than its own, a file that cannot be
  sized, and allocation failure inside the filtered path.
- `aacyn_store_clear` and `NativeStore.clear`, which nothing calls.
- Loss of power: pages the kernel has not written.  Stores reach the mapping
  in program order.
- The object store's own consistency: a PUT is atomic.
- Objects of an earlier life of an anonymous store: their events no longer
  exist, and they leave the archiver's model with the restart.
- A threshold rule for services whose pattern matches none, with a metric of
  the whole process: it is evaluated under the rule's own name
  (`alerting.ts:288-290`).  No default rule has both.
- The answer of an OTLP send that cannot be encoded, 0 accepted and 0
  rejected (`otlp.ts:221-237`): nothing the server forwards fails to encode.
- Delivery of alert notifications: outputs change no state of the engine.
  The new-service rule hands them a state object that it resets in the same
  step, so an output that reads it late sees `ok`.
- The handler of a persistent store for SIGTERM, which ends the process
  before later handlers are done: the server creates an anonymous store.
- Wire formats: JSON, protobuf, FlatBuffers, TOML.  Authentication,
  validation of bodies, health, metrics and logging.
- What forwarders put into a payload, beyond how much; edges, which the
  server never forwards.
- Sparklines, percentiles, rates per second and rounding of golden signals;
  the renderer's layout; the row limits of tables.
- `K8sDiscovery.stop`, which nothing calls; credentials of the API server.
- Reuse of a pid while the container cache still holds it; bytes, latencies
  and times an edge accumulates; failures while attaching probes.
  `aacyn_auto.bpf.c` is not attached by the server.
- Everything in the inventory without a module: formatting and wiring.

## Plan

1. (done) The store against `EventLog`, kills, the archiver, the alert
   engine, the push protocol, the eBPF pipeline.
2. (done) The server around the store, the parts that live by the clock, the
   merge, and the pages that poll.
3. (done) Theorems for every safety invariant and action property that a run
   checks.
4. Theorems about parts no safety property reaches yet: that `OtlpToEvents`
   yields batches the engine can take for every request within the body
   limit, and that `CompileRules` keeps the meaning of a rule; the safety
   half of the liveness properties (a backlog never grows without an insert,
   a settled view stays settled).
5. `StoreOpen`: reopening a file with another capacity.

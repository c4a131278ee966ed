---------------------------- MODULE StoreServer ----------------------------
(***************************************************************************)
(* The store as the server uses it: the facade of lib/native-store.ts (a   *)
(* trace index in JavaScript beside the columns of RingStore) or the plain *)
(* Map of lib/store.ts that stands in when the library cannot be loaded,   *)
(* the start-up of lib/store-init.ts, and the routes that write and read.  *)
(* The server opens an anonymous store, so Persistent is FALSE here.       *)
(*                                                                         *)
(* A request that the rate limit or the API key turns away reaches no      *)
(* handler and is no step.  A handler runs without an await between its    *)
(* first and its last effect on the store, and the probes' callback runs   *)
(* inside a timer of the same thread: each is one action.                  *)
(*                                                                         *)
(* A definition marked "Mutant" is a faulty variant of the definition      *)
(* after it: nothing uses it but the test that the properties catch it.    *)
(***************************************************************************)
EXTENDS RingStore, SpanTree, RuleCompiler, OtlpIngest

CONSTANTS
  Traces,          \* trace ids
  Bodies,          \* POST /ingest/batch: sequences of [trace, whole, event]
  EventBodies,     \* POST /v1/events: the same, of which trace and time are used
  OtlpRequests,    \* POST /v1/traces
  BinaryBatches,   \* POST /ingest/binary: sequences of events, no traces
  ProbeEvents,     \* events of the probes, as columns
  KernelSpans,     \* spans of the probes: [trace, id, parent, start, is_error]
  ConfigFiles,     \* what aacyn.toml may hold
  SpanRing,        \* AACYN_TRACE_MAX_SPANS, the spans the library keeps
  MaxSpans,        \* bound: spans the probes ever report
  MaxIndexed       \* bound: entries of the trace index

(* The route keeps an event's id and time: its schema has no metric, so    *)
(* every duration is 0, and nothing is an error.                           *)
WithoutMetrics(body) ==
  [i \in DOMAIN body |-> [body[i] EXCEPT !.event.duration = 0, !.event.is_error = 0]]

(* Whatever a route hands to the store is made of the events of the model, *)
(* in batches the store can take (RingStore), and the file holds words,    *)
(* known or not.                                                           *)
Batched(events) ==
  /\ events \in Seq([trace : Traces, whole : BOOLEAN, event : Events])
  /\ Len(events) <= MaxBatch

ASSUME ServerAssumption ==
  /\ ~Persistent
  /\ \A body \in Bodies : Batched(body)
  /\ \A body \in EventBodies : Batched(WithoutMetrics(body))
  /\ \A request \in OtlpRequests :
       Parsable(request) /\ Converts(request) => Batched(OtlpToEvents(request))
  /\ BinaryBatches \subseteq Batches
  /\ ProbeEvents \subseteq Events
  /\ \A s \in KernelSpans : s.trace \in Traces /\ s.start \in Int
  /\ NoSpan \notin Nat
  /\ MaxDepth \in Nat \ {0} /\ SpanRing \in Nat \ {0}
  /\ IsFiniteSet(Traces)
  /\ MaxCompiled \in Nat
  /\ ConfigFiles \subseteq Seq([column : STRING, op : STRING, action : STRING,
                               threshold : Int])

VARIABLES
  backend,         \* "native" or "v8": the store initializeStore returned
  probes,          \* "pending", "attached" or "none"
  ready,           \* initializeStore has returned, requests are served
  traceIndex,      \* traceId -> array of spans
  facadeCount,     \* _count
  tags,            \* the tag dictionary
  spans,           \* g_trace_spans
  spanCount,       \* g_trace_span_count
  probed           \* history: events of the probes that entered the columns

engineVars == <<columns, head, count, len, rules, events_dropped, log, loaded>>
facadeVars == <<traceIndex, facadeCount>>
kernelVars == <<spans, spanCount, probed>>
bootVars == <<backend, probes, ready>>
serverVars == <<engineVars, facadeVars, kernelVars, bootVars, tags>>

(* The places of the index: a span is the i-th of its trace.               *)
PlacesOf(ix) == UNION { { <<t, i>> : i \in 1 .. Len(ix[t]) } : t \in Traces }
Places == PlacesOf(traceIndex)
EntryAt(ix, place) == ix[place[1]][place[2]]

-----------------------------------------------------------------------------
(* The trace index.  A span without an id gets a fresh one, which is its   *)
(* place in its trace here.                                                *)
AddEntry(index, t, e) ==
  LET id == IF e.id = NoSpan THEN Len(index[t]) + 1 ELSE e.id
  IN  [index EXCEPT ![t] = Append(@, [e EXCEPT !.id = id])]

EntryOf(e) == [id |-> NoSpan, parent |-> NoSpan, start |-> e.event.timestamp,
               dur |-> e.event.duration, is_error |-> e.event.is_error]

(* The loop that adds to the index.                                        *)
AddAll(index, new) ==
  LET upto[i \in 0 .. Len(new)] ==
        IF i = 0 THEN index ELSE AddEntry(upto[i - 1], new[i].trace, new[i].entry)
  IN  upto[Len(new)]

IndexEvents(index, events) ==
  AddAll(index, [i \in 1 .. Len(events) |->
                   [trace |-> events[i].trace, entry |-> EntryOf(events[i])]])

(* NativeStore.ingestBatch: the columns are filled and the events indexed  *)
(* one by one, and the engine is called when all are; a timestamp that is  *)
(* no integer makes BigInt throw, after the events before it were indexed. *)
Shreddable(events) ==
  Cardinality({ i \in 1 .. Len(events) : \A j \in 1 .. i : events[j].whole })

CountOffered(events) == facadeCount + Len(events)              \* Mutant
CountInserted(events) == facadeCount + (Len(log') - Len(log))

IngestNativeUnindexed(events) ==                               \* Mutant
  /\ BatchInsert([i \in DOMAIN events |-> events[i].event])
  /\ facadeCount' = CountInserted(events)
  /\ traceIndex' = IF Len(log') - Len(log) = Len(events)
                   THEN IndexEvents(traceIndex, events) ELSE traceIndex

IngestNative(events) ==
  /\ traceIndex' = IndexEvents(traceIndex, SubSeq(events, 1, Shreddable(events)))
  /\ IF Shreddable(events) = Len(events)
     THEN /\ BatchInsert([i \in DOMAIN events |-> events[i].event])
          /\ facadeCount' = CountInserted(events)
     ELSE UNCHANGED <<engineVars, facadeCount>>

(* EventStore.ingestBatch: the Map takes everything.                       *)
IngestMap(events) ==
  /\ traceIndex' = IndexEvents(traceIndex, events)
  /\ facadeCount' = facadeCount + Len(events)
  /\ UNCHANGED engineVars

(* An empty batch changes nothing.                                         *)
IngestBatch(events) ==
  /\ events # << >>
  /\ Cardinality(Places) + Len(events) <= MaxIndexed
  /\ IF backend = "native" THEN IngestNative(events) ELSE IngestMap(events)

-----------------------------------------------------------------------------
(* The routes that write.                                                  *)

PostIngestBatch(body) ==
  /\ ready
  /\ IngestBatch(body)
  /\ UNCHANGED <<kernelVars, bootVars, tags>>

PostEvents(body) ==
  /\ ready
  /\ IngestBatch(WithoutMetrics(body))
  /\ UNCHANGED <<kernelVars, bootVars, tags>>

(* A request that cannot be read, or holds a malformed time, changes       *)
(* nothing but the tags; one without spans is answered at once.            *)
PostTraces(request) ==
  /\ ready
  /\ Parsable(request)
  /\ tags' = TagsAfter(tags, request)
  /\ IF Converts(request) /\ OtlpToEvents(request) # << >>
     THEN IngestBatch(OtlpToEvents(request))
     ELSE UNCHANGED <<engineVars, facadeVars>>
  /\ UNCHANGED <<kernelVars, bootVars>>

(* The binary batch goes to the engine past the trace index; the Map       *)
(* stores nothing of it.                                                   *)
PostIngestBinary(batch) ==
  /\ ready
  /\ backend = "native"
  /\ BatchInsert(batch)
  /\ facadeCount' = facadeCount + (Len(log') - Len(log))
  /\ UNCHANGED <<traceIndex, kernelVars, bootVars, tags>>

-----------------------------------------------------------------------------
(* The probes.                                                             *)

(* The poll of the rings hands one event to the engine, and its span, when *)
(* it has a trace, to the library's span ring.                             *)
ProbeEvent(e, reported) ==
  /\ probes = "attached"
  /\ BatchInsert(<<e>>)
  /\ probed' = probed + (Len(log') - Len(log))
  /\ IF reported = {} THEN UNCHANGED <<spans, spanCount>>
     ELSE /\ spanCount < MaxSpans
          /\ \E s \in reported : spans' = [spans EXCEPT ![spanCount % SpanRing] = s]
          /\ spanCount' = spanCount + 1
  /\ UNCHANGED <<facadeVars, bootVars, tags>>

(* readTraceSpan.                                                          *)
SpanOf(s) ==
  [trace |-> s.trace,
   entry |-> [id |-> s.id, parent |-> s.parent, start |-> s.start, dur |-> 0,
              is_error |-> s.is_error]]

(* drainTraceSpans, every five seconds: reads as many spans as were ever   *)
(* reported, from slot 0 on, and adds each to its trace again.             *)
DrainTraceSpans ==
  /\ ready
  /\ spanCount > 0
  /\ Cardinality(Places) + spanCount <= MaxIndexed
  /\ traceIndex' = AddAll(traceIndex, [i \in 1 .. spanCount |->
                                         SpanOf(spans[(i - 1) % SpanRing])])
  /\ UNCHANGED <<engineVars, facadeCount, kernelVars, bootVars, tags>>

-----------------------------------------------------------------------------
(* initializeStore.                                                        *)

(* tryAttachEbpf is not awaited: it ends at any time.                      *)
TryAttachEbpf ==
  /\ backend = "native"
  /\ probes = "pending"
  /\ probes' \in {"attached", "none"}
  /\ UNCHANGED <<engineVars, facadeVars, kernelVars, backend, ready, tags>>

(* tryLoadRules and the return: a file that is missing, cannot be parsed   *)
(* or does not compile leaves the engine without rules.                    *)
LoadRulesInBackground ==                                       \* Mutant
  /\ backend = "native"
  /\ rules = << >>
  /\ \/ ready' = TRUE /\ UNCHANGED engineVars
     \/ /\ UNCHANGED ready
        /\ \E config \in ConfigFiles : SetRules(CompileRules(config))
  /\ UNCHANGED <<facadeVars, kernelVars, backend, probes, tags>>

LoadRules ==
  /\ ~ready
  /\ \E config \in ConfigFiles :
       IF CompileRules(config) = << >> THEN UNCHANGED engineVars
       ELSE SetRules(CompileRules(config))
  /\ ready' = TRUE
  /\ UNCHANGED <<facadeVars, kernelVars, backend, probes, tags>>

(* The process starts with an empty store; with the Map there are neither  *)
(* rules nor probes to wait for.                                           *)
ServerInit ==
  /\ Init
  /\ backend \in {"native", "v8"}
  /\ probes = IF backend = "native" THEN "pending" ELSE "none"
  /\ ready = (backend = "v8")
  /\ traceIndex = [t \in Traces |-> << >>]
  /\ facadeCount = 0
  /\ tags = << >>
  /\ spans = [i \in 0 .. SpanRing - 1 |-> NoSpan]
  /\ spanCount = 0
  /\ probed = 0

(* A restart loses everything but the file with the rules.                 *)
ServerRestart ==
  /\ Restart
  /\ UNCHANGED backend
  /\ probes' = IF backend = "native" THEN "pending" ELSE "none"
  /\ ready' = (backend = "v8")
  /\ traceIndex' = [t \in Traces |-> << >>]
  /\ facadeCount' = 0
  /\ tags' = << >>
  /\ spans' = [i \in 0 .. SpanRing - 1 |-> NoSpan]
  /\ spanCount' = 0
  /\ probed' = 0

ServerNext ==
  \/ \E body \in Bodies : PostIngestBatch(body)
  \/ \E body \in EventBodies : PostEvents(body)
  \/ \E request \in OtlpRequests : PostTraces(request)
  \/ \E batch \in BinaryBatches : PostIngestBinary(batch)
  \/ \E e \in ProbeEvents, reported \in { {} } \cup { {s} : s \in KernelSpans } :
       ProbeEvent(e, reported)
  \/ DrainTraceSpans
  \/ TryAttachEbpf
  \/ LoadRules
  \/ ServerRestart

ServerSpec == ServerInit /\ [][ServerNext]_serverVars

-----------------------------------------------------------------------------
(* The routes that read.                                                   *)

(* POST /v1/query: the engine's scan, or a walk of the Map, which returns  *)
(* [timestamp, duration, is_error] of what satisfies the same filters.     *)
DefaultLimit == 50000
NativeLimit == 100000

Columns(entry) ==
  [timestamp |-> entry.start, duration |-> entry.dur, is_error |-> entry.is_error]

(* EventStore.query: trace after trace, in some order.                     *)
QueryMap(start, end, errorOnly, limit) ==
  LET order == SetToSeq(Places)
      all   == [k \in DOMAIN order |-> Columns(EntryAt(traceIndex, order[k]))]
  IN  Gather(all, { k \in DOMAIN all : Wanted(all[k], start, end, errorOnly) }, limit)

Query(start, end, errorOnly, limit) ==
  IF backend = "native" THEN Scan(start, end, errorOnly, Min2(limit, NativeLimit))
  ELSE QueryMap(start, end, errorOnly, limit)

(* GET /query/trace/:traceId.                                              *)
TraceTree(t) == BuildSpanTree(traceIndex[t])

-----------------------------------------------------------------------------
(* Properties.                                                             *)

Copies(s, e) == Cardinality({ i \in DOMAIN s : s[i] = e })

(* What a query can find, a trace lookup can find: every event that came   *)
(* with a trace and is in the columns is in the index, as often, although  *)
(* the two are filled by different code, one before the other, and some    *)
(* batches are dropped, refused or abandoned half way.                     *)
IndexCoversStore ==
  \A e \in Events \ (ProbeEvents \cup UNION { Range(b) : b \in BinaryBatches }) :
    Copies(log, e) <= Cardinality({ k \in Places : Columns(EntryAt(traceIndex, k)) = e })

(* The facade's count, which is all that a Map store has and which the     *)
(* native store keeps beside the engine's own, is what came in through the *)
(* facade; an open query returns that and the events of the probes, up to  *)
(* its limit.                                                              *)
CountsAgree ==
  Len(Query(0, 0, FALSE, DefaultLimit)) = Min2(DefaultLimit, facadeCount + probed)

(* The tree of a trace shows every span of the trace once, also one whose  *)
(* parent never arrived, except on and below a cycle of parents; and the   *)
(* total duration spans every row that is shown.                           *)
TreeShowsEverySpan ==
  \A t \in Traces :
    LET nodes == NodeMap(traceIndex[t])
        shown == DOMAIN nodes \ Cyclic(nodes)
    IN  /\ Cardinality(Rows(TraceTree(t))) = Cardinality(shown)
        /\ { row[1] : row \in Rows(TraceTree(t)) } = shown
        /\ \A id \in shown : TotalDuration(traceIndex[t]) >= nodes[id].dur

(* Requests wait for the rules, so of the events that the rules drop only  *)
(* those of the probes can be in the store: nothing makes the probes wait. *)
OnlyProbesOutrunRules ==
  \A i \in DOMAIN log : ShouldDrop(rules, log[i]) => log[i] \in ProbeEvents
=============================================================================

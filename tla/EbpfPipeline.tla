---------------------------- MODULE EbpfPipeline ----------------------------
(***************************************************************************)
(* From kernel probes to the topology: native/aacyn_probes.bpf.c emits     *)
(* events into two ring buffers, the poll callback of native/libaacyn.c    *)
(* (ebpf_event_handler) takes them out, and the getters hand edges,        *)
(* services and trace spans to NativeStore.                                *)
(*                                                                         *)
(* Probes run on every CPU beside the consumer.  The consumer, the getters *)
(* and the span drain are called from one JavaScript thread; a poll takes  *)
(* events out of one ring until it is empty and then turns to the other.   *)
(*                                                                         *)
(* A call is one use of a socket by a thread: its process, the name of the *)
(* thread, the socket's local address, the address given to connect() and  *)
(* the address the connected socket has for its peer, which is another one *)
(* when the call named 0.0.0.0.  An address includes the port.             *)
(* Timestamps, byte counts and payloads are left out: an event counts      *)
(* once.  Every event also enters the columnar store (RingStore).          *)
(*                                                                         *)
(* A definition marked "Mutant" is a faulty variant of the definition      *)
(* after it: nothing uses it but the test that the properties catch it.    *)
(***************************************************************************)
EXTENDS Integers, Sequences, FiniteSets

CONSTANTS
  Calls,       \* set of [pid, comm, src, dst, peer]
  Unspecified, \* the destinations whose dest_ip is 0
  Container,   \* by pid, what /proc/<pid>/cgroup yields while it runs, or None
  None,
  Unbound,     \* source_ip of a socket without a local address
  StdCap,      \* events that fit into standard_events
  CritCap,     \* events that fit into critical_errors
  MaxEdges,    \* AACYN_MAX_TOPO_EDGES
  MaxServices, \* AACYN_MAX_SERVICES
  MaxSpans,    \* AACYN_TRACE_MAX_SPANS
  MaxEmitted   \* bound: events emitted in a behaviour

Pids == { c.pid : c \in Calls }
Comms == { c.comm : c \in Calls }
Sources == { c.src : c \in Calls } \cup {Unbound}
Dests == { c.dst : c \in Calls } \cup { c.peer : c \in Calls }

ASSUME EbpfAssumption ==
  /\ \A c \in Calls :
       c = [pid |-> c.pid, comm |-> c.comm, src |-> c.src, dst |-> c.dst, peer |-> c.peer]
  /\ DOMAIN Container = Pids
  /\ StdCap \in Nat \ {0} /\ CritCap \in Nat \ {0}
  /\ MaxEdges \in Nat \ {0} /\ MaxServices \in Nat \ {0} /\ MaxSpans \in Nat \ {0}
  /\ MaxEmitted \in Nat

VARIABLES
  \* the kernel
  running,   \* pids that run
  pending,   \* connect_state: calls inside connect()
  open,      \* calls whose connect() has returned
  rings,     \* by ring, the events in it
  drops,     \* drop_counters, by ring
  \* the consumer
  draining,  \* the ring a poll is emptying, or None
  cache,     \* cached_pid and cached_container, or None
  edges,     \* g_topo_edges
  services,  \* g_services, by pid
  spans,     \* g_trace_spans and g_trace_span_count: all spans appended
  \* NativeStore
  index,     \* traceIndex: the spans in it, however often
  \* history
  emitted,   \* events emitted, by ring
  consumed,  \* events consumed, by kind
  connects   \* whose the completed connects were that were consumed and name
             \* an address, in order

kernelVars == <<running, pending, open, drops, emitted>>
tableVars == <<edges, services, spans>>
vars == <<running, pending, open, rings, drops, draining, cache, edges, services,
          spans, index, emitted, consumed, connects>>

RingNames == {"standard", "critical"}
RingCap == [standard |-> StdCap, critical |-> CritCap]

(* status: connect, connected, send, failed, retransmit, HTTP.             *)
Kinds == {"connect", "connected", "send", "failed", "retransmit", "http"}
(* The kinds an edge counts.                                               *)
EdgeKinds == {"connected", "send", "failed", "retransmit"}

SpanIds == 1 .. MaxEmitted
Events == [kind : Kinds, pid : Pids, comm : Comms, src : Sources, dst : Dests,
           span : SpanIds \cup {None}]
Containers == { Container[p] : p \in Pids } \cup {None}
Identities == [comm : Comms, container : Containers, src : Sources, dst : Dests]
Edges == [comm : Comms, container : Containers, src : Sources, dst : Dests,
          count : [EdgeKinds -> Nat]]

Emitted == emitted.standard + emitted.critical

-----------------------------------------------------------------------------
(* The probes.                                                             *)

EmitUncounted(e, ring) ==                                      \* Mutant
  IF Len(rings[ring]) < RingCap[ring]
  THEN /\ rings' = [rings EXCEPT ![ring] = Append(@, e)]
       /\ emitted' = [emitted EXCEPT ![ring] = @ + 1]
       /\ UNCHANGED drops
  ELSE /\ emitted' = [emitted EXCEPT ![ring] = @ + 1]
       /\ UNCHANGED <<rings, drops>>

(* emit_event: an event that does not fit is counted and lost.             *)
Emit(e, ring) ==
  /\ emitted' = [emitted EXCEPT ![ring] = @ + 1]
  /\ IF Len(rings[ring]) < RingCap[ring]
     THEN rings' = [rings EXCEPT ![ring] = Append(@, e)] /\ UNCHANGED drops
     ELSE drops' = [drops EXCEPT ![ring] = @ + 1] /\ UNCHANGED rings

EventOf(kind, c, src, dst, span) ==
  [kind |-> kind, pid |-> c.pid, comm |-> c.comm, src |-> src, dst |-> dst, span |-> span]

(* The probe of a call that runs, while the bound lasts.                   *)
Probe(c) == Emitted < MaxEmitted /\ c.pid \in running
ConsumerUnchanged == UNCHANGED <<draining, cache, edges, services, spans, index,
                                 consumed, connects>>

(* trace_connect_enter: the address is the caller's.                       *)
ConnectEnter(c) ==
  /\ Probe(c)
  /\ c \notin pending \cup open
  /\ pending' = pending \cup {c}
  /\ Emit(EventOf("connect", c, Unbound, c.dst, None), "standard")
  /\ UNCHANGED <<running, open>>
  /\ ConsumerUnchanged

(* trace_connect_exit of a connection that is made, or is in progress.     *)
ConnectExit(c) ==
  /\ Probe(c)
  /\ c \in pending
  /\ pending' = pending \ {c}
  /\ open' = open \cup {c}
  /\ Emit(EventOf("connected", c, c.src, c.dst, None), "standard")
  /\ UNCHANGED running
  /\ ConsumerUnchanged

(* trace_connect_exit of a connection that failed: the socket may have     *)
(* lost its local address.                                                 *)
ConnectFails(c) ==
  /\ Probe(c)
  /\ c \in pending
  /\ pending' = pending \ {c}
  /\ \E src \in {c.src, Unbound} : Emit(EventOf("failed", c, src, c.dst, None), "critical")
  /\ UNCHANGED <<running, open>>
  /\ ConsumerUnchanged

(* trace_tcp_sendmsg: from here on the address is the socket's.            *)
Send(c) ==
  /\ Probe(c)
  /\ c \in open
  /\ Emit(EventOf("send", c, c.src, c.peer, None), "standard")
  /\ UNCHANGED <<running, pending, open>>
  /\ ConsumerUnchanged

(* trace_tcp_retransmit runs in whatever task the timer interrupted.       *)
Retransmit(c, current) ==
  /\ Probe(current)
  /\ c \in open
  /\ Emit([EventOf("retransmit", c, c.src, c.peer, None)
             EXCEPT !.pid = current.pid, !.comm = current.comm], "standard")
  /\ UNCHANGED <<running, pending, open>>
  /\ ConsumerUnchanged

(* trace_tcp_recvmsg, with a traceparent header or without.  The span's id *)
(* is new.                                                                 *)
Recv(c) ==
  /\ Probe(c)
  /\ c \in open
  /\ \E span \in {None, Emitted + 1} : Emit(EventOf("http", c, c.src, c.peer, span), "standard")
  /\ UNCHANGED <<running, pending, open>>
  /\ ConsumerUnchanged

(* A process ends: /proc/<pid> is gone.                                    *)
Exit(p) ==
  /\ p \in running
  /\ running' = running \ {p}
  /\ pending' = { c \in pending : c.pid # p }
  /\ open' = { c \in open : c.pid # p }
  /\ UNCHANGED <<rings, drops, emitted>>
  /\ ConsumerUnchanged

-----------------------------------------------------------------------------
(* Who an event belongs to.                                                *)

(* read_container_id.                                                      *)
ReadContainer(pid) == IF pid \in running THEN Container[pid] ELSE None

(* What an edge is found by.                                               *)
Identity(e, container) ==
  [comm |-> e.comm, container |-> container, src |-> e.src, dst |-> e.dst]

(* edge_matches: by container when both are known, by name otherwise.      *)
EdgeMatches(edge, comm, container, src, dst) ==
  /\ edge.dst = dst
  /\ edge.src = src
  /\ IF container # None /\ edge.container # None
     THEN edge.container = container
     ELSE edge.comm = comm

Matching(es, e, container) ==
  { i \in 1 .. Len(es) : EdgeMatches(es[i], e.comm, container, e.src, e.dst) }

FindLastEdge(es, e, container) ==                              \* Mutant
  LET m == Matching(es, e, container)
  IN  IF m = {} THEN 0 ELSE CHOOSE i \in m : \A j \in m : i >= j

(* find_edge: the first edge that matches, 0 if none does.                 *)
FindEdge(es, e, container) ==
  LET m == Matching(es, e, container)
  IN  IF m = {} THEN 0 ELSE CHOOSE i \in m : \A j \in m : i <= j

NewEdge(e, container) ==
  [comm |-> e.comm, container |-> container, src |-> e.src, dst |-> e.dst,
   count |-> [k \in EdgeKinds |-> 0]]

CreateEdgeByContainer(e, container) ==                         \* Mutant
  IF /\ \A i \in 1 .. Len(edges) : edges[i].container # container
     /\ Len(edges) < MaxEdges
  THEN Append(edges, NewEdge(e, container))
  ELSE edges

(* find_or_create_edge: the table once the edge is in it.                  *)
CreateEdge(e, container) ==
  IF FindEdge(edges, e, container) = 0 /\ Len(edges) < MaxEdges
  THEN Append(edges, NewEdge(e, container))
  ELSE edges

(* Count an event on the edge it belongs to, if there is one.              *)
CountOn(es, e, container) ==
  LET i == FindEdge(es, e, container)
  IN  IF i = 0 THEN es ELSE [es EXCEPT ![i].count[e.kind] = @ + 1]

(* dest_ip is not 0.                                                       *)
Addressed(e) == e.dst \notin Unspecified

CountExisting(e, container) ==                                 \* Mutant
  IF e.kind \notin EdgeKinds \/ ~Addressed(e) THEN edges
  ELSE IF e.kind = "connected" /\ FindEdge(edges, e, container) = 0
  THEN CreateEdge(e, container)
  ELSE CountOn(edges, e, container)

CountUnaddressed(e, container) ==                              \* Mutant
  IF e.kind \notin EdgeKinds THEN edges
  ELSE IF e.kind = "connected"
  THEN CountOn(CreateEdge(e, container), e, container)
  ELSE CountOn(edges, e, container)

(* The branches of the handler that touch the topology: an event without   *)
(* an address counts nowhere, and only a completed connect makes an edge.  *)
Count(e, container) ==
  IF e.kind \notin EdgeKinds \/ ~Addressed(e) THEN edges
  ELSE IF e.kind = "connected"
  THEN CountOn(CreateEdge(e, container), e, container)
  ELSE CountOn(edges, e, container)

(* aacyn_discovery_register.                                               *)
Register(e) ==
  IF e.pid \in DOMAIN services
  THEN [services EXCEPT ![e.pid] = [port |-> e.dst, comm |-> e.comm, accepts |-> @.accepts + 1]]
  ELSE IF Cardinality(DOMAIN services) < MaxServices
  THEN [p \in DOMAIN services \cup {e.pid} |->
          IF p = e.pid THEN [port |-> e.dst, comm |-> e.comm, accepts |-> 1] ELSE services[p]]
  ELSE services

-----------------------------------------------------------------------------
(* The consumer.                                                           *)

(* ebpf_event_handler for the first event of a ring.  The cache answers    *)
(* for its pid unless it is a second old.                                  *)
Handle(ring, cached) ==
  LET e         == Head(rings[ring])
      container == IF cached THEN cache.container ELSE ReadContainer(e.pid)
  IN  /\ cached => cache # None /\ cache.pid = e.pid
      /\ cache' = IF ~cached /\ container # None
                  THEN [pid |-> e.pid, container |-> container] ELSE cache
      /\ edges' = Count(e, container)
      /\ services' = IF e.kind = "connect" /\ Addressed(e) THEN Register(e) ELSE services
      /\ spans' = IF e.span # None THEN Append(spans, e.span) ELSE spans
      /\ rings' = [rings EXCEPT ![ring] = Tail(@)]
      /\ consumed' = [consumed EXCEPT ![e.kind] = @ + 1]
      /\ connects' = IF e.kind = "connected" /\ Addressed(e)
                     THEN Append(connects, Identity(e, container)) ELSE connects

(* ring_buffer__poll: one event of the ring being emptied.                 *)
Poll(ring) ==
  /\ draining \in {None, ring}
  /\ rings[ring] # << >>
  /\ \E cached \in BOOLEAN : Handle(ring, cached)
  /\ draining' = IF Len(rings[ring]) > 1 THEN ring ELSE None
  /\ UNCHANGED <<kernelVars, index>>

(* aacyn_trace_span_get(i), counting from 0: slot i of the ring holds the  *)
(* last span written to it.                                                *)
SpanInSlot(slot) ==
  spans[CHOOSE k \in 1 .. Len(spans) :
          /\ (k - 1) % MaxSpans = slot
          /\ \A j \in k + 1 .. Len(spans) : (j - 1) % MaxSpans # slot]

DrainedButLast == { SpanInSlot(i % MaxSpans) : i \in 0 .. Len(spans) - 2 } \* Mutant

(* The spans drainTraceSpans reads: it starts at slot 0 each time and goes *)
(* on to the count of spans ever appended.                                 *)
Drained == { SpanInSlot(i % MaxSpans) : i \in 0 .. Len(spans) - 1 }

(* drainTraceSpans.                                                        *)
DrainTraceSpans ==
  /\ draining = None
  /\ index' = index \cup Drained
  /\ UNCHANGED <<kernelVars, tableVars, rings, draining, cache, consumed, connects>>

-----------------------------------------------------------------------------
Init ==
  /\ running = Pids
  /\ pending = {}
  /\ open = {}
  /\ rings = [r \in RingNames |-> << >>]
  /\ drops = [r \in RingNames |-> 0]
  /\ draining = None
  /\ cache = None
  /\ edges = << >>
  /\ services = [p \in {} |-> None]
  /\ spans = << >>
  /\ index = {}
  /\ emitted = [r \in RingNames |-> 0]
  /\ consumed = [k \in Kinds |-> 0]
  /\ connects = << >>

Next ==
  \/ \E c \in Calls : ConnectEnter(c) \/ ConnectExit(c) \/ ConnectFails(c) \/ Send(c) \/ Recv(c)
  \/ \E c, current \in Calls : Retransmit(c, current)
  \/ \E p \in Pids : Exit(p)
  \/ \E r \in RingNames : Poll(r)
  \/ DrainTraceSpans

Spec == Init /\ [][Next]_vars

-----------------------------------------------------------------------------
(* Properties.                                                             *)

(* The variables keep their shape; the tables keep their limits.           *)
TypeOK ==
  /\ running \subseteq Pids
  /\ pending \subseteq Calls /\ open \subseteq Calls
  /\ \A r \in RingNames :
       /\ Len(rings[r]) <= RingCap[r]
       /\ \A i \in 1 .. Len(rings[r]) : rings[r][i] \in Events
       /\ drops[r] \in Nat /\ emitted[r] \in Nat
  /\ draining \in RingNames \cup {None}
  /\ cache # None => cache.pid \in Pids /\ cache.container \in Containers
  /\ Len(edges) <= MaxEdges
  /\ \A i \in 1 .. Len(edges) : edges[i] \in Edges
  /\ DOMAIN services \subseteq Pids /\ Cardinality(DOMAIN services) <= MaxServices
  /\ \A i \in 1 .. Len(spans) : spans[i] \in SpanIds
  /\ index \subseteq SpanIds
  /\ consumed \in [Kinds -> Nat]
  /\ \A n \in 1 .. Len(connects) : connects[n] \in Identities

(* No two edges of the topology stand for the same thing: what the later   *)
(* one was made for did not match the earlier one, although matching by    *)
(* container or name is no equivalence.                                    *)
Twins(edge, later) ==
  EdgeMatches(edge, later.comm, later.container, later.src, later.dst)
NoTwinEdges ==
  \A i, j \in 1 .. Len(edges) : i < j => ~Twins(edges[i], edges[j])

(* What an identity resolves to never changes once it resolves: later      *)
(* edges, of which some may match it too, do not take its counts away.     *)
StableResolution ==
  [][ edges' # edges =>
        \A c \in Calls, container \in Containers :
          FindEdge(edges, c, container) # 0 =>
            FindEdge(edges', c, container) = FindEdge(edges, c, container) ]_vars

(* Every event a probe emitted is in its ring, was handed to the handler,  *)
(* or is in the drop counters: none is lost unseen.                        *)
ConsumedOf(ring) ==
  IF ring = "critical" THEN consumed["failed"]
  ELSE consumed["connect"] + consumed["connected"] + consumed["send"]
         + consumed["retransmit"] + consumed["http"]
EventsAccounted ==
  \A r \in RingNames : emitted[r] = Len(rings[r]) + ConsumedOf(r) + drops[r]

(* The hits of an edge are exactly the completed connects, of those that   *)
(* name an address, which the edge is found for now; none of them is       *)
(* without an edge while the table has room, and no edge without one of    *)
(* them.  Of the other kinds the edges never count more than there were.   *)
SumOf(es, kind) ==
  LET upto[i \in 0 .. Len(es)] ==
        IF i = 0 THEN 0 ELSE upto[i - 1] + es[i].count[kind]
  IN  upto[Len(es)]
Sum(kind) == SumOf(edges, kind)
EdgeOf(es, n) == FindEdge(es, connects[n], connects[n].container)
ConnectsOf(es, i) == { n \in 1 .. Len(connects) : EdgeOf(es, n) = i }
HitsAreConnects ==
  /\ \A i \in 1 .. Len(edges) :
       /\ edges[i].count["connected"] = Cardinality(ConnectsOf(edges, i))
       /\ edges[i].count["connected"] > 0
  /\ ConnectsOf(edges, 0) # {} => Len(edges) = MaxEdges
  /\ \A k \in EdgeKinds : Sum(k) <= consumed[k]

(* A drain leaves every span of the ring in the trace index, however far   *)
(* the ring has wrapped, and the index holds no span that was not appended *)
(* to the ring at some time.                                               *)
RingSpans == { spans[k] : k \in { j \in 1 .. Len(spans) : j > Len(spans) - MaxSpans } }
DrainIndexesRing ==
  [][ DrainTraceSpans => RingSpans \subseteq index' /\ index' \ index \subseteq RingSpans ]_vars
=============================================================================

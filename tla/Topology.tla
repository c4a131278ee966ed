------------------------------ MODULE Topology ------------------------------
(***************************************************************************)
(* From the engine's topology records to what is shown: the edges a server *)
(* reads (lib/native-store.ts), the golden signals it derives from them    *)
(* (routes/dashboard.ts, routes/discovery.ts and server.ts share the       *)
(* sums), the snapshot a node pushes (server.ts) and the merge of several  *)
(* nodes' snapshots (lib/aggregator.ts).  A record has                     *)
(*   comm, container, sourceIp, destIp, destPort, hits, latency, bytes,    *)
(*   errors                                                                *)
(* with latency in microseconds, all connections taken together.           *)
(*                                                                         *)
(* A definition marked "Mutant" is a faulty variant of the definition      *)
(* after it: nothing uses it but the test that the properties catch it.    *)
(***************************************************************************)
EXTENDS Integers, SequencesExt

CONSTANTS
  NoContainer,     \* an empty container id
  ZeroIp,          \* "0.0.0.0"
  PortNames        \* port -> friendly name, of the ports that have one

Sum(s) == FoldLeft(+, 0, s)
Project(s, F(_)) == [i \in DOMAIN s |-> F(s[i])]
RoundDiv(a, b) == (2 * a + b) \div (2 * b)             \* Math.round of a / b

-----------------------------------------------------------------------------
(* One server.                                                             *)

(* readTopologyEdge.                                                       *)
ReadTopologyEdge(r) ==
  [source |-> IF r.container # NoContainer THEN r.container ELSE r.comm,
   target |-> IF r.destPort \in DOMAIN PortNames THEN PortNames[r.destPort]
              ELSE <<r.destIp, r.destPort>>,
   sourceIp |-> r.sourceIp, destIp |-> r.destIp, destPort |-> r.destPort,
   hitCount |-> r.hits,
   avgLatencyUs |-> IF r.hits > 0 THEN RoundDiv(r.latency, r.hits) ELSE 0,
   totalBytes |-> r.bytes, errorCount |-> r.errors]

(* mergeSubgraphs, and resolveIpsToServices over the edges of all nodes:   *)
(* where an address is known as a source, its last edge names the target,  *)
(* unless that name is empty.                                              *)
Resolve(edges) ==
  LET from(ip) == SelectLastInSeq(edges, LAMBDA e : e.sourceIp = ip /\ ip # ZeroIp)
  IN  [i \in DOMAIN edges |->
         LET j == from(edges[i].destIp)
         IN  IF j = 0 \/ edges[j].source = "" THEN edges[i]
             ELSE [edges[i] EXCEPT !.target = edges[j].source]]

TopologyEdges(records) == Resolve(Project(records, ReadTopologyEdge))

(* computeGoldenSignals up to the divisions by the uptime and the rounding *)
(* that differ between its three copies: the sums of each target's edges.  *)
GoldenSignals(edges) ==
  [service \in { edges[i].target : i \in DOMAIN edges } |->
     LET own == SelectSeq(edges, LAMBDA e : e.target = service)
     IN  [hits |-> Sum(Project(own, LAMBDA e : e.hitCount)),
          errors |-> Sum(Project(own, LAMBDA e : e.errorCount)),
          latencyUs |-> Sum(Project(own, LAMBDA e : e.avgLatencyUs * e.hitCount)),
          bytes |-> Sum(Project(own, LAMBDA e : e.totalBytes))]]

(* buildTopologySnapshot: no golden signals are sent.                      *)
Snapshot(records, services, drops) ==
  [edges |-> TopologyEdges(records), services |-> services, ebpfDrops |-> drops]

-----------------------------------------------------------------------------
(* The aggregator: snapshots in the order of its Map.                      *)

CollectAllNodeData(snapshots) ==
  [allEdges |-> FlattenSeq(Project(snapshots, LAMBDA s : s.edges)),
   allServices |-> FlattenSeq(Project(snapshots, LAMBDA s : s.services)),
   totalDrops |-> Sum(Project(snapshots, LAMBDA s : s.ebpfDrops))]

EdgeKey(e) == <<e.source, e.target, e.destPort>>

(* One edge into another: the average is weighted and rounded.             *)
Absorb(old, e) ==
  LET hits == old.hitCount + e.hitCount
  IN  [old EXCEPT
         !.avgLatencyUs =
           IF hits = 0 THEN @
           ELSE RoundDiv(@ * old.hitCount + e.avgLatencyUs * e.hitCount, hits),
         !.hitCount = hits, !.totalBytes = @ + e.totalBytes, !.errorCount = @ + e.errorCount]

(* An edge joins the one of its key, or is the first of it.                *)
Into(edges, e) ==
  LET at == SelectInSeq(edges, LAMBDA m : EdgeKey(m) = EdgeKey(e))
  IN  IF at = 0 THEN Append(edges, e) ELSE [edges EXCEPT ![at] = Absorb(@, e)]

DeduplicateEdges(edges) ==
  LET upto[i \in 0 .. Len(edges)] == IF i = 0 THEN << >> ELSE Into(upto[i - 1], edges[i])
  IN  upto[Len(edges)]

MergedEdgesUnresolved(edges) == Resolve(DeduplicateEdges(edges))        \* Mutant
MergedEdges(edges) == DeduplicateEdges(Resolve(edges))

Merge(snapshots) ==
  LET all == CollectAllNodeData(snapshots)
  IN  [edges |-> MergedEdges(all.allEdges), services |-> all.allServices,
       totalDrops |-> all.totalDrops, nodeCount |-> Len(snapshots)]

-----------------------------------------------------------------------------
(* What a merge may not do: the connections, bytes and errors of every     *)
(* source are those of its nodes' edges, no two edges of the result would  *)
(* be drawn as one, and an average lies between those it was made of.      *)
EdgesOf(edges, source) == { i \in DOMAIN edges : edges[i].source = source }
TotalOf(edges, source, field) ==
  SumFunctionOnSet([i \in DOMAIN edges |-> edges[i][field]], EdgesOf(edges, source))

KeepsTotals(snapshots) ==
  LET all == CollectAllNodeData(snapshots).allEdges
      out == Merge(snapshots).edges
  IN  /\ \A source \in { all[i].source : i \in DOMAIN all } :
           \A field \in {"hitCount", "totalBytes", "errorCount"} :
             TotalOf(out, source, field) = TotalOf(all, source, field)
      /\ \A i, j \in DOMAIN out : EdgeKey(out[i]) = EdgeKey(out[j]) => i = j
      /\ \A i \in DOMAIN out : out[i].hitCount > 0 =>
           LET parts == { k \in EdgesOf(all, out[i].source) : all[k].hitCount > 0 }
           IN  /\ \E k \in parts : all[k].avgLatencyUs <= out[i].avgLatencyUs
               /\ \E k \in parts : all[k].avgLatencyUs >= out[i].avgLatencyUs
=============================================================================

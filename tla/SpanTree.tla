------------------------------ MODULE SpanTree ------------------------------
(***************************************************************************)
(* The tree of a trace: routes/trace.ts turns the list of spans that the   *)
(* trace index holds for a trace into the nested nodes of the answer to    *)
(* GET /query/trace/:traceId, and packages/ui flattens them into the rows  *)
(* of the waterfall.  A span is a record with id, parent, start and dur;   *)
(* the store has given every span an id.                                   *)
(*                                                                         *)
(* A definition marked "Mutant" is a faulty variant of the definition      *)
(* after it: nothing uses it but the test that the properties catch it.    *)
(***************************************************************************)
EXTENDS Integers, Sequences, FiniteSets

CONSTANTS NoSpan,       \* no parentSpanId
          MaxDepth      \* MAX_DEPTH of trace.ts

SpanIds(spans) == { spans[i].id : i \in DOMAIN spans }

(* nodeMap: of the spans with one id the last one makes the node.          *)
NodeMap(spans) ==
  [id \in SpanIds(spans) |->
     spans[CHOOSE i \in DOMAIN spans :
             /\ spans[i].id = id
             /\ \A j \in DOMAIN spans : spans[j].id = id => j <= i]]

(* A node hangs below its parent when the trace has a node of that id.     *)
HasParent(nodes, id) == nodes[id].parent # NoSpan              \* Mutant
Attached(nodes, id) == nodes[id].parent \in DOMAIN nodes

(* buildSpanTree: the nodes that the answer nests at depth d.  A node on   *)
(* or below a cycle of parents hangs below something that no root reaches. *)
TreeLevels(nodes) ==
  LET level[d \in 0 .. Cardinality(DOMAIN nodes)] ==
        IF d = 0 THEN { id \in DOMAIN nodes : ~Attached(nodes, id) }
        ELSE { id \in DOMAIN nodes :
                 Attached(nodes, id) /\ nodes[id].parent \in level[d - 1] }
  IN  level

BuildSpanTree(spans) == LET nodes == NodeMap(spans) IN TreeLevels(nodes)

(* flattenTree of the waterfall: the rows, each with its indentation.      *)
Rows(tree) == UNION { { <<id, d>> : id \in tree[d] } : d \in DOMAIN tree }

(* computeTotalDuration: from the earliest start to the latest end of the  *)
(* nodes above the depth limit, 0 when there are none.                     *)
TotalDuration(spans) ==
  LET nodes == NodeMap(spans)
      tree  == BuildSpanTree(spans)
      seen  == UNION { tree[d] : d \in { d \in DOMAIN tree : d < MaxDepth } }
      first == CHOOSE t \in { nodes[id].start : id \in seen } :
                 \A id \in seen : t <= nodes[id].start
      last  == CHOOSE t \in { nodes[id].start + nodes[id].dur : id \in seen } :
                 \A id \in seen : t >= nodes[id].start + nodes[id].dur
  IN  IF seen = {} \/ last <= first THEN 0 ELSE last - first

-----------------------------------------------------------------------------
(* The spans that never come to a span without a known parent, however     *)
(* far their parents are followed: they are on a cycle or below one.       *)
Cyclic(nodes) ==
  LET up[k \in 0 .. Cardinality(DOMAIN nodes)] ==
        [id \in DOMAIN nodes |->
           IF k = 0 THEN id
           ELSE IF up[k - 1][id] \in DOMAIN nodes
                THEN nodes[up[k - 1][id]].parent ELSE NoSpan]
  IN  { id \in DOMAIN nodes : up[Cardinality(DOMAIN nodes)][id] \in DOMAIN nodes }
=============================================================================

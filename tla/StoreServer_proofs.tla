------------------------- MODULE StoreServer_proofs -------------------------
(***************************************************************************)
(* What the server makes of the store, for every set of requests, probes   *)
(* and configurations: the engine still implements the numbered log when   *)
(* it is driven by the routes, the probes and the start-up, none but the   *)
(* probes brings in what the rules drop, the trace index holds every       *)
(* traced event of the columns, the counts agree, and the tree of a trace  *)
(* shows all of it.                                                        *)
(*                                                                         *)
(* Of the many actions of the server three things touch the engine: an     *)
(* insertion of a batch the engine can take, the loading of compiled       *)
(* rules, and a restart (EngineStep).  The rest of the argument is that of *)
(* RingStore, whose invariant carries over, and of Booting: before the     *)
(* server is ready the engine has no rules and holds events of the probes  *)
(* alone, and afterwards nothing replaces the rules.                       *)
(*                                                                         *)
(* The index is filled before the engine answers, so what an insertion     *)
(* adds to the columns is in the index already (IndexInv); how many events *)
(* a batch adds is known only from the engine's length, which is what the  *)
(* facade's count follows (Tally).  Of a tree the depth of a node is the   *)
(* number of steps by which its way up leaves the nodes; by the pigeonhole *)
(* a way that never leaves goes round.                                     *)
(***************************************************************************)
EXTENDS StoreServer, RingStore_proofs

Booting ==
  ~ready => rules = << >> /\ \A i \in 1 .. Len(log) : log[i] \in ProbeEvents

Outrun == \A i \in 1 .. Len(log) : ShouldDrop(rules, log[i]) => log[i] \in ProbeEvents

ServerInv == IInv /\ Booting /\ Outrun /\ ready \in BOOLEAN

-----------------------------------------------------------------------------
(* The tree of a trace, for a list of spans of any shape.                  *)

LEMMA Least ==
  ASSUME NEW m \in SUBSET Nat, m # {}
  PROVE  \E i \in m : \A j \in m : i <= j
<1>1. PICK i \in m : \A j \in m : ~(<<j, i>> \in OpToRel(<, Nat))
  BY NatLessThanWellFounded, WFMin
<1>2. \A j \in m : ~(j < i)
  BY <1>1 DEF OpToRel
<1> QED
  BY <1>2

(* The function that goes on by `step' from a first value exists: what the *)
(* recursive definitions of the tree choose.                               *)
Iterated(f, S, first, step, n) ==
  f \in [0 .. n -> S] /\ f[0] = first /\ \A i \in 1 .. n : f[i] = step[f[i - 1]]

LEMMA Iterates ==
  ASSUME NEW S, NEW first, NEW step, NEW n, first \in S, step \in [S -> S], n \in Nat
  PROVE  \E f : Iterated(f, S, first, step, n)
<1> USE DEF Iterated
<1> DEFINE Runs(f, m) == Iterated(f, S, first, step, m)
           bad == { m \in Nat : ~\E f : Runs(f, m) }
<1> SUFFICES ASSUME bad # {} PROVE FALSE
  OBVIOUS
<1>1. PICK m \in bad : \A k \in bad : m <= k
  <2>1. bad \in SUBSET Nat
    OBVIOUS
  <2> HIDE DEF bad
  <2> QED
    BY <2>1, Least
<1>2. CASE m = 0
  <2> DEFINE f == [i \in 0 .. 0 |-> first]
  <2>1. Runs(f, 0)
    OBVIOUS
  <2> QED
    BY <1>2, <2>1
<1>3. CASE m # 0
  <2>1. m \in Nat /\ m - 1 \in Nat /\ ~(m <= m - 1) /\ m - 1 \in 0 .. m - 1
    BY <1>3
  <2>2. PICK f : Runs(f, m - 1)
    <3>1. m - 1 \notin bad
      BY <1>1, <2>1
    <3> QED
      BY <2>1, <3>1
  <2> DEFINE g == [i \in 0 .. m |-> IF i = m THEN step[f[m - 1]] ELSE f[i]]
  <2>3. g \in [0 .. m -> S]
    <3>1. f[m - 1] \in S /\ \A i \in 0 .. m : i # m => i \in 0 .. m - 1
      BY <2>1, <2>2
    <3> QED
      BY <2>2, <3>1
  <2>4. \A i \in 0 .. m - 1 : g[i] = f[i]
    BY <2>1
  <2>5. g[0] = first /\ g[m] = step[g[m - 1]]
    <3>1. 0 \in 0 .. m - 1 /\ m \in 0 .. m
      BY <1>3, <2>1
    <3>2. g[m - 1] = f[m - 1]
      BY <2>1, <2>4
    <3> QED
      BY <2>2, <2>4, <3>1, <3>2
  <2>6. ASSUME NEW i \in 1 .. m
        PROVE  g[i] = step[g[i - 1]]
    <3>1. CASE i = m
      BY <2>5, <3>1
    <3>2. CASE i # m
      <4>1. i \in 1 .. m - 1 /\ i \in 0 .. m - 1 /\ i - 1 \in 0 .. m - 1
        BY <2>1, <3>2
      <4> HIDE DEF g
      <4> QED
        BY <2>2, <2>4, <4>1
    <3> QED
      BY <3>1, <3>2
  <2> HIDE DEF g
  <2>7. Runs(g, m)
    BY <2>3, <2>5, <2>6
  <2> QED
    BY <2>7
<1> QED
  BY <1>2, <1>3

(* The ancestors of every node: after k steps up, the id reached, or       *)
(* something that is no node.                                              *)
Up(up, nodes) ==
  LET n == Cardinality(DOMAIN nodes)
  IN  /\ \A id \in DOMAIN nodes : up[0][id] = id
      /\ \A k \in 1 .. n, id \in DOMAIN nodes :
           up[k][id] = IF up[k - 1][id] \in DOMAIN nodes
                       THEN nodes[up[k - 1][id]].parent ELSE NoSpan

LEMMA UpExists ==
  ASSUME NEW nodes, Cardinality(DOMAIN nodes) \in Nat
  PROVE  \E up : /\ Up(up, nodes)
                 /\ Cyclic(nodes) = { id \in DOMAIN nodes :
                                        up[Cardinality(DOMAIN nodes)][id] \in DOMAIN nodes }
<1> DEFINE d == DOMAIN nodes
           n == Cardinality(d)
           V == d \cup { nodes[id].parent : id \in d } \cup {NoSpan}
           S == [d -> V]
           first == [id \in d |-> id]
           Above(s) == [id \in d |-> IF s[id] \in d THEN nodes[s[id]].parent ELSE NoSpan]
           step == [s \in S |-> Above(s)]
           Body(up) == [k \in 0 .. n |-> [id \in d |->
                          IF k = 0 THEN id
                          ELSE IF up[k - 1][id] \in d
                               THEN nodes[up[k - 1][id]].parent ELSE NoSpan]]
           up == CHOOSE up : up = Body(up)
<1>1. first \in S
  OBVIOUS
<1>2. step \in [S -> S]
  <2>1. ASSUME NEW s \in S
        PROVE  Above(s) \in S
    OBVIOUS
  <2> QED
    BY <2>1
<1>3. PICK f : Iterated(f, S, first, step, n)
  <2>1. n \in Nat
    OBVIOUS
  <2> HIDE DEF n, S, first, step
  <2> QED
    BY <1>1, <1>2, <2>1, Iterates, Zenon
<1>4. f = Body(f)
  <2>1. ASSUME NEW k \in 0 .. n
        PROVE  f[k] = [id \in d |-> IF k = 0 THEN id
                                    ELSE IF f[k - 1][id] \in d
                                         THEN nodes[f[k - 1][id]].parent ELSE NoSpan]
    <3>1. CASE k = 0
      BY <1>3, <3>1 DEF Iterated
    <3>2. CASE k # 0
      <4>1. k \in 1 .. n /\ k - 1 \in 0 .. n
        BY <3>2
      <4>2. f[k - 1] \in S /\ f[k] = step[f[k - 1]]
        <5> HIDE DEF S, step, n
        <5> QED
          BY <1>3, <4>1 DEF Iterated
      <4>3. step[f[k - 1]] = Above(f[k - 1])
        <5> HIDE DEF S
        <5> QED
          BY <4>2
      <4> QED
        BY <3>2, <4>2, <4>3
    <3> QED
      BY <3>1, <3>2
  <2>2. f = [k \in 0 .. n |-> f[k]]
    BY <1>3 DEF Iterated
  <2> HIDE DEF n, d
  <2> QED
    BY <2>1, <2>2
<1>5. up = Body(up)
  BY <1>4
<1>6. Cyclic(nodes) = { id \in d : up[n][id] \in d }
  BY DEF Cyclic
<1>7. Up(up, nodes)
  <2> HIDE DEF up
  <2>1. \A k \in 0 .. n, id \in d :
          up[k][id] = IF k = 0 THEN id
                      ELSE IF up[k - 1][id] \in d
                           THEN nodes[up[k - 1][id]].parent ELSE NoSpan
    BY <1>5
  <2>2. 0 \in 0 .. n /\ \A k \in 1 .. n : k \in 0 .. n /\ k # 0
    OBVIOUS
  <2> HIDE DEF n
  <2>3. \A id \in d : up[0][id] = id
    BY <2>1, <2>2
  <2>4. \A k \in 1 .. n, id \in d :
          up[k][id] = IF up[k - 1][id] \in d THEN nodes[up[k - 1][id]].parent ELSE NoSpan
    BY <2>1, <2>2
  <2> QED
    BY <2>3, <2>4 DEF Up, n
<1> QED
  BY <1>6, <1>7

(* The levels of the tree.                                                 *)
Levels(level, nodes) ==
  /\ level[0] = { id \in DOMAIN nodes : ~Attached(nodes, id) }
  /\ \A d \in 1 .. Cardinality(DOMAIN nodes) :
       level[d] = { id \in DOMAIN nodes :
                      Attached(nodes, id) /\ nodes[id].parent \in level[d - 1] }

LEMMA LevelsExist ==
  ASSUME NEW nodes, Cardinality(DOMAIN nodes) \in Nat
  PROVE  /\ Levels(TreeLevels(nodes), nodes)
         /\ DOMAIN TreeLevels(nodes) = 0 .. Cardinality(DOMAIN nodes)
<1> DEFINE d == DOMAIN nodes
           n == Cardinality(d)
           S == SUBSET d
           first == { id \in d : ~Attached(nodes, id) }
           Below(s) == { id \in d : Attached(nodes, id) /\ nodes[id].parent \in s }
           step == [s \in S |-> Below(s)]
           Body(f) == [k \in 0 .. n |-> IF k = 0 THEN first ELSE Below(f[k - 1])]
           level == CHOOSE f : f = Body(f)
<1>1. first \in S /\ step \in [S -> S]
  OBVIOUS
<1>2. PICK f : Iterated(f, S, first, step, n)
  <2>1. n \in Nat
    OBVIOUS
  <2> HIDE DEF n, S, first, step
  <2> QED
    BY <1>1, <2>1, Iterates, Zenon
<1>3. f = Body(f)
  <2>1. ASSUME NEW k \in 0 .. n
        PROVE  f[k] = IF k = 0 THEN first ELSE Below(f[k - 1])
    <3>1. CASE k = 0
      BY <1>2, <3>1 DEF Iterated
    <3>2. CASE k # 0
      <4>1. k \in 1 .. n /\ k - 1 \in 0 .. n
        BY <3>2
      <4>2. f[k - 1] \in S /\ f[k] = step[f[k - 1]]
        <5> HIDE DEF S, step, n
        <5> QED
          BY <1>2, <4>1 DEF Iterated
      <4>3. step[f[k - 1]] = Below(f[k - 1])
        BY <4>2
      <4> QED
        BY <3>2, <4>2, <4>3
    <3> QED
      BY <3>1, <3>2
  <2>2. f = [k \in 0 .. n |-> f[k]]
    BY <1>2 DEF Iterated
  <2> HIDE DEF n, first, Below
  <2> QED
    BY <2>1, <2>2
<1>4. level = Body(level)
  BY <1>3
<1>5. TreeLevels(nodes) = level
  BY DEF TreeLevels
<1> HIDE DEF level
<1>6. DOMAIN level = 0 .. n /\ \A k \in 0 .. n : level[k] = IF k = 0 THEN first ELSE Below(level[k - 1])
  <2> HIDE DEF first, Below, n
  <2> QED
    BY <1>4
<1>7. 0 \in 0 .. n /\ \A k \in 1 .. n : k \in 0 .. n /\ k # 0
  OBVIOUS
<1>8. level[0] = first /\ \A k \in 1 .. n : level[k] = Below(level[k - 1])
  <2> HIDE DEF first, Below, n
  <2> QED
    BY <1>6, <1>7
<1> QED
  BY <1>5, <1>6, <1>8 DEF Levels

(* The way up from a node of a finite tree.                                *)
Climbs(up, nodes) ==
  IsFiniteSet(DOMAIN nodes) /\ NoSpan \notin DOMAIN nodes /\ Up(up, nodes)

(* Once the way has left the nodes it does not come back.                  *)
LEMMA NoReturn ==
  ASSUME NEW up, NEW nodes, Climbs(up, nodes)
  PROVE  \A k \in 0 .. Cardinality(DOMAIN nodes) : \A j \in 0 .. k, id \in DOMAIN nodes :
           up[k][id] \in DOMAIN nodes => up[j][id] \in DOMAIN nodes
<1> DEFINE d == DOMAIN nodes
           n == Cardinality(d)
           Stays(k) == \A j \in 0 .. k, id \in d : up[k][id] \in d => up[j][id] \in d
           bad == { k \in 0 .. n : ~Stays(k) }
<1>1. n \in Nat /\ NoSpan \notin d
  BY FS_CardinalityType DEF Climbs
<1>2. \A k \in 1 .. n, id \in d :
        up[k][id] = IF up[k - 1][id] \in d THEN nodes[up[k - 1][id]].parent ELSE NoSpan
  BY DEF Climbs, Up
<1> HIDE DEF n, d
<1> SUFFICES ASSUME bad # {} PROVE FALSE
  BY DEF n, d
<1>3. PICK k \in bad : \A j \in bad : k <= j
  <2>1. bad \in SUBSET Nat
    OBVIOUS
  <2> HIDE DEF bad
  <2> QED
    BY <2>1, Least
<1>4. k \in 0 .. n /\ k \in Nat
  OBVIOUS
<1>5. PICK j \in 0 .. k, id \in d : up[k][id] \in d /\ up[j][id] \notin d
  OBVIOUS
<1>6. k # 0 /\ k \in 1 .. n /\ k - 1 \in 0 .. n /\ j \in 0 .. k - 1
  <2>1. j # k /\ j \in Nat /\ j <= k
    BY <1>4, <1>5
  <2> QED
    BY <1>1, <1>4, <2>1
<1>7. up[k - 1][id] \in d
  BY <1>1, <1>2, <1>5, <1>6
<1>8. k - 1 \in bad
  BY <1>5, <1>6, <1>7
<1> QED
  BY <1>3, <1>4, <1>8

(* One step first and the others then is the same way.                     *)
LEMMA ParentFirst ==
  ASSUME NEW up, NEW nodes, Climbs(up, nodes)
  PROVE  \A k \in 1 .. Cardinality(DOMAIN nodes) : \A id \in DOMAIN nodes :
           Attached(nodes, id) => up[k][id] = up[k - 1][nodes[id].parent]
<1> DEFINE d == DOMAIN nodes
           n == Cardinality(d)
           Same(k) == \A id \in d : nodes[id].parent \in d =>
                        up[k][id] = up[k - 1][nodes[id].parent]
           bad == { k \in 1 .. n : ~Same(k) }
<1>1. n \in Nat /\ NoSpan \notin d
  BY FS_CardinalityType DEF Climbs
<1>2. /\ \A id \in d : up[0][id] = id
      /\ \A k \in 1 .. n, id \in d :
           up[k][id] = IF up[k - 1][id] \in d THEN nodes[up[k - 1][id]].parent ELSE NoSpan
  BY DEF Climbs, Up
<1> HIDE DEF n, d
<1> SUFFICES ASSUME bad # {} PROVE FALSE
  BY DEF n, d, Attached
<1>3. PICK k \in bad : \A j \in bad : k <= j
  <2>1. bad \in SUBSET Nat
    OBVIOUS
  <2> HIDE DEF bad
  <2> QED
    BY <2>1, Least
<1>4. k \in 1 .. n /\ k \in Nat
  OBVIOUS
<1>5. PICK id \in d : nodes[id].parent \in d /\ up[k][id] # up[k - 1][nodes[id].parent]
  OBVIOUS
<1> DEFINE above == nodes[id].parent
<1>6. above \in d /\ up[0][id] = id /\ up[0][above] = above
  BY <1>2, <1>5
<1>7. CASE k = 1
  <2>1. 1 \in 1 .. n
    BY <1>4, <1>7
  <2>2. up[1][id] = IF up[0][id] \in d THEN nodes[up[0][id]].parent ELSE NoSpan
    BY <1>2, <2>1
  <2> QED
    BY <1>5, <1>6, <1>7, <2>2
<1>8. CASE k # 1
  <2>1. k - 1 \in 1 .. n /\ ~(k <= k - 1)
    BY <1>1, <1>4, <1>8
  <2>2. Same(k - 1)
    <3>1. k - 1 \notin bad
      BY <1>3, <2>1
    <3> QED
      BY <2>1, <3>1
  <2>3. up[k - 1][id] = up[(k - 1) - 1][above]
    BY <1>5, <2>2
  <2>4. up[k][id] = IF up[k - 1][id] \in d THEN nodes[up[k - 1][id]].parent ELSE NoSpan
    BY <1>2, <1>4
  <2>5. up[k - 1][above] = IF up[(k - 1) - 1][above] \in d
                           THEN nodes[up[(k - 1) - 1][above]].parent ELSE NoSpan
    BY <1>2, <1>6, <2>1
  <2> QED
    BY <1>5, <2>3, <2>4, <2>5
<1> QED
  BY <1>7, <1>8

(* A way that has stayed among the nodes for as many steps as there are    *)
(* nodes has met one of them twice, and goes round for ever.               *)
LEMMA GoesRound ==
  ASSUME NEW up, NEW nodes, Climbs(up, nodes), NEW id \in DOMAIN nodes,
         up[Cardinality(DOMAIN nodes)][id] \in DOMAIN nodes
  PROVE  nodes[up[Cardinality(DOMAIN nodes)][id]].parent \in DOMAIN nodes
<1> DEFINE d == DOMAIN nodes
           n == Cardinality(d)
           way == [k \in 0 .. n |-> up[k][id]]
<1>1. n \in Nat /\ IsFiniteSet(d)
  BY FS_CardinalityType DEF Climbs
<1>2. \A k \in 0 .. n : up[k][id] \in d
  <2>1. n \in 0 .. n /\ \A k \in 0 .. n : k \in 0 .. n
    BY <1>1
  <2> QED
    BY <2>1, NoReturn
<1>3. \A k \in 1 .. n : up[k][id] = nodes[up[k - 1][id]].parent
  <2>1. \A k \in 1 .. n : k - 1 \in 0 .. n
    BY <1>1
  <2> QED
    BY <1>2, <2>1 DEF Climbs, Up
<1> HIDE DEF n, d
<1>4. \E x, y \in 0 .. n : x # y /\ way[x] = way[y]
  <2>1. way \in [0 .. n -> d]
    BY <1>2
  <2>2. IsFiniteSet(0 .. n) /\ Cardinality(0 .. n) = n + 1
    BY <1>1, FS_Interval
  <2>3. Cardinality(d) < Cardinality(0 .. n)
    BY <1>1, <2>2 DEF n
  <2> HIDE DEF way
  <2> QED
    BY <1>1, <2>1, <2>2, <2>3, FS_PigeonHole
<1>5. PICK i, j \in 0 .. n : i < j /\ up[i][id] = up[j][id]
  <2>1. PICK x, y \in 0 .. n : x # y /\ way[x] = way[y]
    BY <1>4
  <2>2. up[x][id] = up[y][id] /\ (x < y \/ y < x)
    BY <2>1
  <2> QED
    BY <2>1, <2>2
<1> DEFINE bad == { m \in 0 .. n - j : up[i + m][id] # up[j + m][id] }
<1>6. bad = {}
  <2> SUFFICES ASSUME bad # {} PROVE FALSE
    OBVIOUS
  <2>1. PICK m \in bad : \A l \in bad : m <= l
    <3>1. bad \in SUBSET Nat
      OBVIOUS
    <3> HIDE DEF bad
    <3> QED
      BY <3>1, Least
  <2>2. m \in 0 .. n - j /\ up[i + m][id] # up[j + m][id]
    OBVIOUS
  <2>3. m # 0
    BY <1>5, <2>2
  <2>4. m - 1 \in 0 .. n - j /\ ~(m <= m - 1)
    BY <1>1, <2>2, <2>3
  <2>5. up[i + (m - 1)][id] = up[j + (m - 1)][id]
    BY <2>1, <2>4
  <2>6. /\ i + m \in 1 .. n /\ j + m \in 1 .. n
        /\ (i + m) - 1 = i + (m - 1) /\ (j + m) - 1 = j + (m - 1)
    BY <1>1, <1>5, <2>2, <2>3
  <2>7. /\ up[i + m][id] = nodes[up[(i + m) - 1][id]].parent
        /\ up[j + m][id] = nodes[up[(j + m) - 1][id]].parent
    BY <1>3, <2>6
  <2> QED
    BY <2>2, <2>5, <2>6, <2>7
<1> DEFINE k == i + (n - j)
<1>7. up[k][id] = up[n][id]
  <2>1. n - j \in 0 .. n - j /\ j + (n - j) = n
    BY <1>1
  <2> QED
    BY <1>6, <2>1
<1>8. k + 1 \in 1 .. n /\ k + 1 \in 0 .. n /\ (k + 1) - 1 = k
  BY <1>1, <1>5
<1>9. up[k + 1][id] = nodes[up[k][id]].parent /\ up[k + 1][id] \in d
  <2> HIDE DEF k
  <2>1. up[k + 1][id] = nodes[up[(k + 1) - 1][id]].parent
    BY <1>3, <1>8
  <2> QED
    BY <1>2, <1>8, <2>1
<1> QED
  BY <1>7, <1>9 DEF n, d

(* A node is at the depth after which the way up leaves the nodes.         *)
LEMMA DepthOfNode ==
  ASSUME NEW up, NEW nodes, Climbs(up, nodes), NEW level, Levels(level, nodes)
  PROVE  \A k \in 0 .. Cardinality(DOMAIN nodes) :
           /\ level[k] \subseteq DOMAIN nodes
           /\ \A id \in DOMAIN nodes :
                id \in level[k] <=> /\ up[k][id] \in DOMAIN nodes
                                   /\ ~Attached(nodes, up[k][id])
<1> DEFINE d == DOMAIN nodes
           n == Cardinality(d)
           Right(k) == \A id \in d : id \in level[k] <=> /\ up[k][id] \in d
                                                        /\ ~Attached(nodes, up[k][id])
           bad == { k \in 0 .. n : ~Right(k) }
<1>1. n \in Nat
  BY FS_CardinalityType DEF Climbs
<1>2. /\ level[0] = { id \in d : ~Attached(nodes, id) }
      /\ \A k \in 1 .. n :
           level[k] = { id \in d : Attached(nodes, id) /\ nodes[id].parent \in level[k - 1] }
  BY DEF Levels
<1>3. \A id \in d : up[0][id] = id
  BY DEF Climbs, Up
<1>4. \A k \in 1 .. n : \A id \in d :
        Attached(nodes, id) => up[k][id] = up[k - 1][nodes[id].parent]
  BY ParentFirst
<1>5. \A k \in 1 .. n : \A id \in d : up[k][id] \in d => Attached(nodes, id)
  <2>1. ASSUME NEW k \in 1 .. n, NEW id \in d, up[k][id] \in d
        PROVE  Attached(nodes, id)
    <3>1. 1 \in 0 .. k /\ k \in 0 .. n /\ 1 \in 1 .. n
      BY <1>1
    <3>2. up[1][id] \in d
      BY <2>1, <3>1, NoReturn
    <3>3. up[1][id] = IF up[0][id] \in d THEN nodes[up[0][id]].parent ELSE NoSpan
      <4>1. \A l \in 1 .. n : \A i \in d :
              up[l][i] = IF up[l - 1][i] \in d THEN nodes[up[l - 1][i]].parent ELSE NoSpan
        BY DEF Climbs, Up
      <4> HIDE DEF n, d
      <4> QED
        BY <3>1, <4>1
    <3> QED
      BY <1>3, <3>2, <3>3 DEF Attached
  <2> QED
    BY <2>1
<1>6. \A k \in 0 .. n : level[k] \subseteq d
  <2> HIDE DEF n
  <2>1. \A k \in 0 .. n : k = 0 \/ k \in 1 .. n
    BY <1>1
  <2> QED
    BY <1>2, <2>1
<1> HIDE DEF n, d
<1>7. bad = {}
  <2> SUFFICES ASSUME bad # {} PROVE FALSE
    OBVIOUS
  <2>1. PICK k \in bad : \A j \in bad : k <= j
    <3>1. bad \in SUBSET Nat
      OBVIOUS
    <3> HIDE DEF bad
    <3> QED
      BY <3>1, Least
  <2>2. k \in 0 .. n /\ ~Right(k)
    OBVIOUS
  <2>3. k # 0
    BY <1>2, <1>3, <2>2
  <2>4. k \in 1 .. n /\ k - 1 \in 0 .. n /\ ~(k <= k - 1)
    BY <1>1, <2>2, <2>3
  <2>5. Right(k - 1)
    <3>1. k - 1 \notin bad
      BY <2>1, <2>4
    <3> QED
      BY <2>4, <3>1
  <2>6. ASSUME NEW id \in d
        PROVE  id \in level[k] <=> up[k][id] \in d /\ ~Attached(nodes, up[k][id])
    <3>1. CASE Attached(nodes, id)
      <4>1. nodes[id].parent \in d
        BY <3>1 DEF Attached, d
      <4>2. id \in level[k] <=> nodes[id].parent \in level[k - 1]
        BY <1>2, <2>4, <3>1
      <4>3. up[k][id] = up[k - 1][nodes[id].parent]
        BY <1>4, <2>4, <3>1
      <4> QED
        BY <2>5, <4>1, <4>2, <4>3
    <3>2. CASE ~Attached(nodes, id)
      BY <1>2, <1>5, <2>4, <3>2
    <3> QED
      BY <3>1, <3>2
  <2> QED
    BY <2>2, <2>6
<1>8. \A k \in 0 .. n : Right(k)
  BY <1>7
<1> QED
  BY <1>6, <1>8 DEF n, d

(* Every node that is on no cycle and below none is at one depth.          *)
LEMMA TreeShape ==
  ASSUME NEW nodes, IsFiniteSet(DOMAIN nodes), NoSpan \notin DOMAIN nodes
  PROVE  LET tree  == TreeLevels(nodes)
             shown == DOMAIN nodes \ Cyclic(nodes)
         IN  /\ DOMAIN tree = 0 .. Cardinality(DOMAIN nodes)
             /\ \A k \in DOMAIN tree : tree[k] \subseteq shown
             /\ \A id \in shown : \E k \in DOMAIN tree : id \in tree[k]
             /\ \A id, k, l : k \in DOMAIN tree /\ l \in DOMAIN tree
                                /\ id \in tree[k] /\ id \in tree[l] => k = l
             /\ shown # {} => tree[0] # {}
             /\ \A id \in DOMAIN nodes : nodes[id].parent = NoSpan => id \in tree[0]
<1> DEFINE d == DOMAIN nodes
           n == Cardinality(d)
           tree == TreeLevels(nodes)
           Leaves(x) == x \in d /\ ~Attached(nodes, x)
<1>1. n \in Nat
  BY FS_CardinalityType
<1>2. Levels(tree, nodes) /\ DOMAIN tree = 0 .. n
  BY <1>1, LevelsExist
<1>3. PICK up : Up(up, nodes) /\ Cyclic(nodes) = { id \in d : up[n][id] \in d }
  BY <1>1, UpExists
<1>4. Climbs(up, nodes)
  BY <1>3 DEF Climbs
<1>5. \A k \in 0 .. n : /\ tree[k] \subseteq d
                        /\ \A id \in d : id \in tree[k] <=> Leaves(up[k][id])
  <2> HIDE DEF tree
  <2> QED
    BY <1>2, <1>4, DepthOfNode
<1>6. \A k \in 0 .. n : \A j \in 0 .. k, id \in d : up[k][id] \in d => up[j][id] \in d
  BY <1>4, NoReturn
<1>7. /\ \A id \in d : up[0][id] = id
      /\ \A k \in 1 .. n, id \in d :
           up[k][id] = IF up[k - 1][id] \in d THEN nodes[up[k - 1][id]].parent ELSE NoSpan
  BY <1>3 DEF Up
<1>8. \A id \in d : up[n][id] \in d => Attached(nodes, up[n][id])
  <2>1. ASSUME NEW id \in d, up[n][id] \in d
        PROVE  nodes[up[n][id]].parent \in d
    BY <1>4, <2>1, GoesRound
  <2> QED
    BY <2>1 DEF Attached
<1>9. \A x : x \in d => (Attached(nodes, x) <=> nodes[x].parent \in d)
  BY DEF Attached
<1> HIDE DEF n, d, tree
<1>10. ASSUME NEW k \in 0 .. n, NEW id \in tree[k], NEW l \in 0 .. n, k < l
       PROVE  up[l][id] \notin d
  <2>1. id \in d /\ Leaves(up[k][id])
    BY <1>5
  <2>2. k + 1 \in 1 .. n /\ k + 1 \in 0 .. l /\ (k + 1) - 1 = k
    BY <1>1, <1>10
  <2>3. up[k + 1][id] = nodes[up[k][id]].parent
    <3>1. up[k + 1][id] = IF up[(k + 1) - 1][id] \in d
                          THEN nodes[up[(k + 1) - 1][id]].parent ELSE NoSpan
      BY <1>7, <2>1, <2>2
    <3> QED
      BY <2>1, <2>2, <3>1
  <2>4. up[k + 1][id] \notin d
    BY <1>9, <2>1, <2>3
  <2> QED
    BY <1>6, <2>1, <2>2, <2>4
<1>11. \A k \in 0 .. n : tree[k] \subseteq d \ Cyclic(nodes)
  <2> SUFFICES ASSUME NEW k \in 0 .. n, NEW id \in tree[k]
               PROVE  id \in d /\ up[n][id] \notin d
    BY <1>3
  <2>1. id \in d /\ Leaves(up[k][id])
    BY <1>5
  <2>2. k = n \/ k < n
    BY <1>1
  <2>3. n \in 0 .. n
    BY <1>1
  <2> QED
    BY <1>8, <1>10, <2>1, <2>2, <2>3
<1>12. \A id \in d \ Cyclic(nodes) : \E k \in 0 .. n : id \in tree[k]
  <2> SUFFICES ASSUME NEW id \in d, up[n][id] \notin d
               PROVE  \E k \in 0 .. n : id \in tree[k]
    BY <1>3
  <2> DEFINE out == { k \in 0 .. n : up[k][id] \notin d }
  <2>1. PICK k \in out : \A j \in out : k <= j
    <3>1. out \in SUBSET Nat /\ n \in out
      BY <1>1
    <3> HIDE DEF out
    <3> QED
      BY <3>1, Least
  <2>2. k \in 0 .. n /\ up[k][id] \notin d
    OBVIOUS
  <2>3. k # 0
    BY <1>7, <2>2
  <2>4. k \in 1 .. n /\ k - 1 \in 0 .. n /\ ~(k <= k - 1)
    BY <1>1, <2>2, <2>3
  <2>5. up[k - 1][id] \in d
    BY <2>1, <2>4
  <2>6. nodes[up[k - 1][id]].parent \notin d
    BY <1>7, <2>2, <2>4, <2>5
  <2>7. id \in tree[k - 1]
    BY <1>5, <1>9, <2>4, <2>5, <2>6
  <2> QED
    BY <2>4, <2>7
<1>13. \A id, k, l : k \in 0 .. n /\ l \in 0 .. n /\ id \in tree[k] /\ id \in tree[l] => k = l
  <2> SUFFICES ASSUME NEW id, NEW k \in 0 .. n, NEW l \in 0 .. n, id \in tree[k], id \in tree[l],
                      k # l
               PROVE  FALSE
    OBVIOUS
  <2>1. id \in d /\ up[k][id] \in d /\ up[l][id] \in d
    BY <1>5
  <2>2. k < l \/ l < k
    OBVIOUS
  <2> QED
    BY <1>10, <2>1, <2>2
<1>14. d \ Cyclic(nodes) # {} => tree[0] # {}
  <2> SUFFICES ASSUME NEW id \in d \ Cyclic(nodes)
               PROVE  tree[0] # {}
    OBVIOUS
  <2>1. PICK k \in 0 .. n : id \in tree[k]
    BY <1>12
  <2>2. Leaves(up[k][id])
    BY <1>5, <2>1
  <2>3. 0 \in 0 .. n /\ up[0][up[k][id]] = up[k][id]
    BY <1>1, <1>7, <2>2
  <2>4. up[k][id] \in tree[0]
    BY <1>5, <2>2, <2>3
  <2> QED
    BY <2>4
<1>15. \A id \in d : nodes[id].parent = NoSpan => id \in tree[0]
  <2>1. 0 \in 0 .. n
    BY <1>1
  <2>2. NoSpan \notin d
    BY DEF d
  <2> QED
    BY <1>5, <1>7, <1>9, <2>1, <2>2
<1> QED
  BY <1>2, <1>11, <1>12, <1>13, <1>14, <1>15 DEF n, d, tree

(* One row for each of them.                                               *)
LEMMA RowsShown ==
  ASSUME NEW tree, NEW shown, IsFiniteSet(shown),
         \A k \in DOMAIN tree : tree[k] \subseteq shown,
         \A id \in shown : \E k \in DOMAIN tree : id \in tree[k],
         \A id, k, l : k \in DOMAIN tree /\ l \in DOMAIN tree
                         /\ id \in tree[k] /\ id \in tree[l] => k = l
  PROVE  /\ Cardinality(Rows(tree)) = Cardinality(shown)
         /\ { row[1] : row \in Rows(tree) } = shown
<1> DEFINE depth(id) == CHOOSE k \in DOMAIN tree : id \in tree[k]
           f == [id \in shown |-> <<id, depth(id)>>]
<1>1. \A id \in shown : depth(id) \in DOMAIN tree /\ id \in tree[depth(id)]
  OBVIOUS
<1>2. \A row : row \in Rows(tree) <=> \E k \in DOMAIN tree : \E id \in tree[k] : row = <<id, k>>
  BY DEF Rows
<1>3. \A id \in shown, k \in DOMAIN tree : id \in tree[k] => k = depth(id)
  BY <1>1
<1> HIDE DEF depth
<1>4. f \in [shown -> Rows(tree)]
  BY <1>1, <1>2
<1>5. \A a, b \in shown : f[a] = f[b] => a = b
  OBVIOUS
<1>6. \A row \in Rows(tree) : \E id \in shown : f[id] = row
  BY <1>2, <1>3
<1>7. f \in Bijection(shown, Rows(tree))
  <2> HIDE DEF f
  <2> QED
    BY <1>4, <1>5, <1>6 DEF Bijection, Injection, Surjection, IsInjective
<1>8. Cardinality(Rows(tree)) = Cardinality(shown)
  <2>1. ExistsBijection(shown, Rows(tree))
    BY <1>7 DEF ExistsBijection
  <2> QED
    BY <2>1, FS_Bijection
<1>9. \A row \in Rows(tree) : row[1] \in shown
  BY <1>2
<1>10. \A id \in shown : <<id, depth(id)>> \in Rows(tree) /\ <<id, depth(id)>>[1] = id
  BY <1>1, <1>2
<1>11. \A id \in shown : \E row \in Rows(tree) : row[1] = id
  BY <1>10
<1> QED
  BY <1>8, <1>9, <1>11

(* A finite set of integers has a least and a greatest element.            *)
LEMMA Extremes ==
  ASSUME NEW S, IsFiniteSet(S), S \subseteq Int, S # {}
  PROVE  \E lo, hi \in S : \A x \in S : lo <= x /\ x <= hi
<1> DEFINE n == Cardinality(S)
<1>1. n \in Nat /\ n # 0
  BY FS_CardinalityType, FS_EmptySet
<1>2. PICK f : f \in Bijection(1 .. n, S)
  BY FS_CardinalityType DEF ExistsBijection
<1>3. (\A i \in 1 .. n : f[i] \in S) /\ \A x \in S : \E i \in 1 .. n : f[i] = x
  BY <1>2 DEF Bijection, Injection, Surjection
<1> HIDE DEF n
<1> DEFINE Bounded(m) == \E lo, hi \in S : \A i \in 1 .. m : lo <= f[i] /\ f[i] <= hi
           bad == { m \in 0 .. n : ~Bounded(m) }
<1>4. bad = {}
  <2> SUFFICES ASSUME bad # {} PROVE FALSE
    OBVIOUS
  <2>1. PICK m \in bad : \A j \in bad : m <= j
    <3>1. bad \in SUBSET Nat
      OBVIOUS
    <3> HIDE DEF bad
    <3> QED
      BY <3>1, Least
  <2>2. m \in 0 .. n /\ ~Bounded(m)
    OBVIOUS
  <2>3. m # 0
    <3>1. PICK x \in S : TRUE
      OBVIOUS
    <3>2. \A i \in 1 .. 0 : x <= f[i] /\ f[i] <= x
      OBVIOUS
    <3>3. Bounded(0)
      BY <3>2
    <3> QED
      BY <2>2, <3>3
  <2>4. m - 1 \in 0 .. n /\ ~(m <= m - 1) /\ m \in 1 .. n
    BY <1>1, <2>2, <2>3
  <2>5. Bounded(m - 1)
    <3>1. m - 1 \notin bad
      BY <2>1, <2>4
    <3> QED
      BY <2>4, <3>1
  <2>6. PICK lo, hi \in S : \A i \in 1 .. m - 1 : lo <= f[i] /\ f[i] <= hi
    BY <2>5
  <2> DEFINE x == f[m]
             low == IF lo <= x THEN lo ELSE x
             high == IF hi >= x THEN hi ELSE x
  <2>7. x \in S /\ x \in Int /\ lo \in Int /\ hi \in Int
    BY <1>3, <2>4
  <2>8. ASSUME NEW i \in 1 .. m
        PROVE  low <= f[i] /\ f[i] <= high
    <3>1. CASE i = m
      BY <2>7, <3>1
    <3>2. CASE i # m
      <4>1. i \in 1 .. m - 1 /\ i \in 1 .. n
        BY <1>1, <2>4, <3>2
      <4>2. f[i] \in Int /\ lo <= f[i] /\ f[i] <= hi
        BY <1>3, <2>6, <4>1
      <4> HIDE DEF x
      <4> QED
        BY <2>7, <4>2
    <3> QED
      BY <3>1, <3>2
  <2>9. low \in S /\ high \in S
    BY <2>7
  <2> HIDE DEF low, high
  <2>10. Bounded(m)
    BY <2>8, <2>9
  <2> QED
    BY <2>2, <2>10
<1>5. Bounded(n)
  <2>1. n \in 0 .. n
    BY <1>1
  <2> HIDE DEF Bounded
  <2> QED
    BY <1>4, <2>1
<1>6. PICK lo, hi \in S : \A i \in 1 .. n : lo <= f[i] /\ f[i] <= hi
  BY <1>5
<1>7. ASSUME NEW x \in S
      PROVE  lo <= x /\ x <= hi
  <2>1. PICK i \in 1 .. n : f[i] = x
    BY <1>3
  <2> QED
    BY <1>6, <2>1
<1> QED
  BY <1>7

(* What the trace index holds: a span that lasted came in a request, and   *)
(* those come without a parent.                                            *)
Ids == (Nat \cup { s.id : s \in KernelSpans }) \ {NoSpan}
Parents == {NoSpan} \cup { s.parent : s \in KernelSpans }
Marks == {0, 1} \cup { s.is_error : s \in KernelSpans }
SpanRecords ==
  { r \in [id : Ids, parent : Parents, start : Int, dur : Int, is_error : Marks] :
      r.dur # 0 => r.parent = NoSpan }

LEMMA NodesOf ==
  ASSUME NEW list \in Seq(SpanRecords)
  PROVE  /\ IsFiniteSet(DOMAIN NodeMap(list)) /\ NoSpan \notin DOMAIN NodeMap(list)
         /\ \A id \in DOMAIN NodeMap(list) : NodeMap(list)[id] \in SpanRecords
<1> DEFINE n == Len(list)
           Final(i, id) == list[i].id = id /\ \A j \in 1 .. n : list[j].id = id => j <= i
<1>1. n \in Nat /\ DOMAIN list = 1 .. n
  BY LenProperties
<1>2. \A i \in 1 .. n : list[i] \in SpanRecords
  BY ElementOfSeq
<1>3. DOMAIN NodeMap(list) = { list[i].id : i \in 1 .. n }
  BY <1>1 DEF NodeMap, SpanIds
<1>4. \A id \in DOMAIN NodeMap(list) :
        NodeMap(list)[id] = list[CHOOSE i \in 1 .. n : Final(i, id)]
  BY <1>1 DEF NodeMap
<1> HIDE DEF n
<1>5. NoSpan \notin DOMAIN NodeMap(list)
  BY <1>2, <1>3 DEF SpanRecords, Ids
<1>6. IsFiniteSet(DOMAIN NodeMap(list))
  <2> DEFINE f == [i \in 1 .. n |-> list[i].id]
             d == DOMAIN NodeMap(list)
  <2>1. f \in [1 .. n -> d] /\ \A id \in d : \E i \in 1 .. n : f[i] = id
    BY <1>3
  <2> HIDE DEF f, d
  <2>2. f \in Surjection(1 .. n, d)
    BY <2>1 DEF Surjection
  <2>3. IsFiniteSet(1 .. n)
    BY <1>1, FS_Interval
  <2>4. IsFiniteSet(d)
    BY <2>2, <2>3, FS_Surjection
  <2> QED
    BY <2>4 DEF d
<1>7. ASSUME NEW id \in DOMAIN NodeMap(list)
      PROVE  NodeMap(list)[id] \in SpanRecords
  <2> DEFINE same == { i \in 1 .. n : list[i].id = id }
             back == { n - i : i \in same }
  <2>1. PICK l \in back : \A k \in back : l <= k
    <3>1. back \in SUBSET Nat
      BY <1>1
    <3>2. back # {}
      BY <1>3
    <3> HIDE DEF back
    <3> QED
      BY <3>1, <3>2, Least
  <2>2. PICK i \in same : l = n - i
    OBVIOUS
  <2>3. \A j \in same : n - i <= n - j
    BY <2>1, <2>2
  <2>4. i \in 1 .. n /\ Final(i, id)
    BY <1>1, <2>2, <2>3
  <2> DEFINE k == CHOOSE k \in 1 .. n : Final(k, id)
  <2>5. k \in 1 .. n
    BY <2>4
  <2> HIDE DEF Final
  <2> QED
    BY <1>2, <1>4, <2>5
<1> QED
  BY <1>5, <1>6, <1>7

(* The total duration covers every node that is shown: those above the     *)
(* depth limit because it is taken over them, and those below it because   *)
(* they have a parent, and a span with a parent lasts 0.                   *)
LEMMA DurationCovers ==
  ASSUME NEW list \in Seq(SpanRecords), NEW id \in DOMAIN NodeMap(list) \ Cyclic(NodeMap(list))
  PROVE  TotalDuration(list) >= NodeMap(list)[id].dur
<1> DEFINE nodes == NodeMap(list)
           d == DOMAIN nodes
           tree == TreeLevels(nodes)
           shown == d \ Cyclic(nodes)
           seen == UNION { tree[k] : k \in { k \in DOMAIN tree : k < MaxDepth } }
           starts == { nodes[x].start : x \in seen }
           ends == { nodes[x].start + nodes[x].dur : x \in seen }
           first == CHOOSE t \in starts : \A x \in seen : t <= nodes[x].start
           last == CHOOSE t \in ends : \A x \in seen : t >= nodes[x].start + nodes[x].dur
<1>1. IsFiniteSet(d) /\ NoSpan \notin d /\ \A x \in d : nodes[x] \in SpanRecords
  BY NodesOf
<1>2. /\ DOMAIN tree = 0 .. Cardinality(d) /\ Cardinality(d) \in Nat
      /\ \A k \in DOMAIN tree : tree[k] \subseteq shown
      /\ tree[0] # {}
      /\ \A x \in d : nodes[x].parent = NoSpan => x \in tree[0]
  <2>1. id \in shown
    OBVIOUS
  <2> HIDE DEF nodes
  <2>2. Cardinality(d) \in Nat
    BY <1>1, FS_CardinalityType
  <2> QED
    BY <1>1, <2>1, <2>2, TreeShape
<1>3. TotalDuration(list) = IF seen = {} \/ last <= first THEN 0 ELSE last - first
  BY DEF TotalDuration, BuildSpanTree
<1> HIDE DEF nodes, tree
<1>4. seen \subseteq d /\ tree[0] \subseteq seen /\ seen # {}
  <2>1. 0 \in DOMAIN tree /\ 0 < MaxDepth
    BY <1>2, ServerAssumption
  <2>2. tree[0] \subseteq seen
    BY <2>1
  <2>3. \A k \in DOMAIN tree : tree[k] \subseteq d
    BY <1>2
  <2> QED
    BY <1>2, <2>2, <2>3
<1>5. IsFiniteSet(seen)
  BY <1>1, <1>4, FS_Subset
<1>6. \A x \in d : nodes[x].start \in Int /\ nodes[x].dur \in Int
                   /\ (nodes[x].dur # 0 => nodes[x].parent = NoSpan)
  BY <1>1 DEF SpanRecords
<1> HIDE DEF seen, d
<1>7. first \in starts /\ \A x \in seen : first <= nodes[x].start
  <2>1. starts \subseteq Int /\ starts # {}
    BY <1>4, <1>6
  <2>2. IsFiniteSet(starts)
    <3> DEFINE f == [x \in seen |-> nodes[x].start]
    <3>1. f \in [seen -> starts] /\ \A t \in starts : \E x \in seen : f[x] = t
      OBVIOUS
    <3> HIDE DEF f, starts
    <3>2. f \in Surjection(seen, starts)
      BY <3>1 DEF Surjection
    <3> QED
      BY <1>5, <3>2, FS_Surjection
  <2>3. \E t \in starts : \A y \in starts : t <= y
    <3> HIDE DEF starts
    <3> QED
      BY <2>1, <2>2, Extremes
  <2>4. \E t \in starts : \A x \in seen : t <= nodes[x].start
    BY <2>3
  <2> QED
    BY <2>4
<1>8. last \in ends /\ \A x \in seen : last >= nodes[x].start + nodes[x].dur
  <2>1. ends \subseteq Int /\ ends # {}
    BY <1>4, <1>6
  <2>2. IsFiniteSet(ends)
    <3> DEFINE f == [x \in seen |-> nodes[x].start + nodes[x].dur]
    <3>1. f \in [seen -> ends] /\ \A t \in ends : \E x \in seen : f[x] = t
      OBVIOUS
    <3> HIDE DEF f, ends
    <3>2. f \in Surjection(seen, ends)
      BY <3>1 DEF Surjection
    <3> QED
      BY <1>5, <3>2, FS_Surjection
  <2>3. \E t \in ends : \A y \in ends : y <= t
    <3> HIDE DEF ends
    <3> QED
      BY <2>1, <2>2, Extremes
  <2>4. PICK t \in ends : \A y \in ends : y <= t
    BY <2>3
  <2>5. t \in Int /\ ends \subseteq Int
    BY <2>1
  <2>6. \A x \in seen : nodes[x].start + nodes[x].dur \in ends
    OBVIOUS
  <2>7. \A x \in seen : t >= nodes[x].start + nodes[x].dur
    BY <2>4, <2>5, <2>6
  <2> QED
    BY <2>7
<1> HIDE DEF first, last
<1>9. first \in Int /\ last \in Int
  BY <1>4, <1>6, <1>7, <1>8
<1>10. id \in d /\ nodes[id].start \in Int /\ nodes[id].dur \in Int
  BY <1>6 DEF d, nodes
<1>11. CASE id \in seen
  <2>1. first <= nodes[id].start /\ last >= nodes[id].start + nodes[id].dur
    BY <1>7, <1>8, <1>11
  <2> DEFINE s == nodes[id].start
             t == nodes[id].dur
  <2>2. s \in Int /\ t \in Int /\ first <= s /\ last >= s + t
    BY <1>10, <2>1
  <2>3. TotalDuration(list) >= t
    <3> HIDE DEF s, t
    <3> QED
      BY <1>3, <1>4, <1>9, <2>2
  <2> QED
    BY <2>3 DEF nodes
<1>12. CASE id \notin seen
  <2>1. nodes[id].dur = 0
    BY <1>2, <1>4, <1>6, <1>10, <1>12 DEF d
  <2>2. TotalDuration(list) >= 0
    BY <1>3, <1>9
  <2> QED
    BY <2>1, <2>2 DEF nodes
<1> QED
  BY <1>11, <1>12

(* The answer to a request for a trace shows all that the index holds.     *)
ShowsAll(list) ==
  LET nodes == NodeMap(list)
      shown == DOMAIN nodes \ Cyclic(nodes)
      rows  == Rows(BuildSpanTree(list))
  IN  /\ Cardinality(rows) = Cardinality(shown)
      /\ { row[1] : row \in rows } = shown
      /\ \A id \in shown : TotalDuration(list) >= nodes[id].dur

LEMMA TraceShown ==
  ASSUME NEW list \in Seq(SpanRecords)
  PROVE  ShowsAll(list)
<1> DEFINE nodes == NodeMap(list)
           tree == TreeLevels(nodes)
           shown == DOMAIN nodes \ Cyclic(nodes)
<1>1. IsFiniteSet(DOMAIN nodes) /\ NoSpan \notin DOMAIN nodes
  BY NodesOf
<1>2. IsFiniteSet(shown)
  BY <1>1, FS_Subset
<1>3. /\ \A k \in DOMAIN tree : tree[k] \subseteq shown
      /\ \A id \in shown : \E k \in DOMAIN tree : id \in tree[k]
      /\ \A id, k, l : k \in DOMAIN tree /\ l \in DOMAIN tree
                         /\ id \in tree[k] /\ id \in tree[l] => k = l
  <2> HIDE DEF nodes
  <2> QED
    BY <1>1, TreeShape
<1>4. Cardinality(Rows(tree)) = Cardinality(shown) /\ { row[1] : row \in Rows(tree) } = shown
  <2> HIDE DEF tree, shown
  <2> QED
    BY <1>2, <1>3, RowsShown
<1>5. \A id \in shown : TotalDuration(list) >= nodes[id].dur
  BY DurationCovers
<1> QED
  BY <1>4, <1>5 DEF ShowsAll, BuildSpanTree

-----------------------------------------------------------------------------
(* The trace index.                                                        *)

Indexes == [Traces -> Seq(SpanRecords)]
Additions ==
  [trace : Traces,
   entry : { r \in [id : Ids \cup {NoSpan}, parent : Parents, start : Int, dur : Int,
                    is_error : Marks] : r.dur # 0 => r.parent = NoSpan }]

(* How often the index holds a span with these columns.                    *)
PlacesWith(ix, e) == { k \in PlacesOf(ix) : Columns(EntryAt(ix, k)) = e }
Matches(ix, e) == Cardinality(PlacesWith(ix, e))

LEMMA PlacesFinite ==
  ASSUME NEW ix \in Indexes
  PROVE  IsFiniteSet(PlacesOf(ix))
<1> DEFINE Row(t) == { <<t, i>> : i \in 1 .. Len(ix[t]) }
           all == { Row(t) : t \in Traces }
           f == [t \in Traces |-> Row(t)]
<1>1. IsFiniteSet(Traces)
  BY ServerAssumption
<1>2. ASSUME NEW t \in Traces
      PROVE  IsFiniteSet(Row(t))
  <2> DEFINE g == [i \in 1 .. Len(ix[t]) |-> <<t, i>>]
             row == Row(t)
  <2>1. Len(ix[t]) \in Nat
    BY LenProperties DEF Indexes
  <2>2. g \in [1 .. Len(ix[t]) -> row] /\ \A k \in row : \E i \in 1 .. Len(ix[t]) : g[i] = k
    OBVIOUS
  <2> HIDE DEF g, row
  <2>3. g \in Surjection(1 .. Len(ix[t]), row)
    BY <2>2 DEF Surjection
  <2>4. IsFiniteSet(1 .. Len(ix[t]))
    BY <2>1, FS_Interval
  <2>5. IsFiniteSet(row)
    BY <2>3, <2>4, FS_Surjection
  <2> QED
    BY <2>5 DEF row
<1>3. IsFiniteSet(all)
  <2> HIDE DEF Row
  <2>1. f \in [Traces -> all] /\ \A r \in all : \E t \in Traces : f[t] = r
    OBVIOUS
  <2> HIDE DEF f, all
  <2>2. f \in Surjection(Traces, all)
    BY <2>1 DEF Surjection
  <2> QED
    BY <1>1, <2>2, FS_Surjection
<1>4. \A r \in all : IsFiniteSet(r)
  <2> HIDE DEF Row
  <2> QED
    BY <1>2
<1>5. PlacesOf(ix) = UNION all
  BY DEF PlacesOf
<1> HIDE DEF all
<1> QED
  BY <1>3, <1>4, <1>5, FS_UNION

Size(ix) == Cardinality(PlacesOf(ix))

LEMMA SizeType ==
  ASSUME NEW ix \in Indexes
  PROVE  Size(ix) \in Nat
  BY PlacesFinite, FS_CardinalityType DEF Size

LEMMA EmptySize ==
  ASSUME NEW ix, ix = [t \in Traces |-> << >>]
  PROVE  Size(ix) = 0
<1>1. PlacesOf(ix) = {}
  BY DEF PlacesOf
<1> QED
  BY <1>1, FS_EmptySet DEF Size

LEMMA MatchesType ==
  ASSUME NEW ix \in Indexes, NEW e
  PROVE  IsFiniteSet(PlacesWith(ix, e)) /\ Matches(ix, e) \in Nat
<1>1. IsFiniteSet(PlacesWith(ix, e))
  BY PlacesFinite, FS_Subset DEF PlacesWith
<1> QED
  BY <1>1, FS_CardinalityType DEF Matches

(* One span more, at a place of its own; the columns are those it came     *)
(* with, and it has an id.                                                 *)
LEMMA AddEntryAdds ==
  ASSUME NEW ix \in Indexes, NEW a \in Additions, NEW e
  PROVE  LET later == AddEntry(ix, a.trace, a.entry)
         IN  /\ later \in Indexes
             /\ Size(later) = Size(ix) + 1
             /\ Matches(later, e) = IF Columns(a.entry) = e
                                    THEN Matches(ix, e) + 1 ELSE Matches(ix, e)
<1> DEFINE t == a.trace
           n == Len(ix[t])
           id == IF a.entry.id = NoSpan THEN n + 1 ELSE a.entry.id
           new == [a.entry EXCEPT !.id = id]
           later == AddEntry(ix, a.trace, a.entry)
           more == Append(ix[t], new)
<1>1. t \in Traces /\ ix[t] \in Seq(SpanRecords) /\ n \in Nat
  BY LenProperties DEF Additions, Indexes
<1>2. id \in Ids
  <2>1. n + 1 \in Ids
    BY <1>1, ServerAssumption DEF Ids
  <2> QED
    BY <2>1 DEF Additions
<1>3. new \in SpanRecords /\ Columns(new) = Columns(a.entry)
  <2> HIDE DEF id
  <2> QED
    BY <1>2 DEF SpanRecords, Additions, Columns
<1>4. later = [ix EXCEPT ![t] = more]
  BY DEF AddEntry
<1> HIDE DEF new, later, id
<1>5. /\ more \in Seq(SpanRecords) /\ Len(more) = n + 1
      /\ \A i \in 1 .. n : more[i] = ix[t][i]
      /\ more[n + 1] = new
  BY <1>1, <1>3, AppendProperties
<1> HIDE DEF more, t
<1>6. later \in Indexes
  BY <1>1, <1>4, <1>5 DEF Indexes
<1>7. \A s \in Traces : later[s] = IF s = t THEN more ELSE ix[s]
  BY <1>4 DEF Indexes
<1>8. \A s \in Traces : Len(ix[s]) \in Nat
  BY LenProperties DEF Indexes
<1>9. \A s, i : <<s, i>> \in PlacesOf(ix) <=> s \in Traces /\ i \in 1 .. Len(ix[s])
  BY DEF PlacesOf
<1>10. \A s, i : <<s, i>> \in PlacesOf(later) <=> s \in Traces /\ i \in 1 .. Len(later[s])
  BY DEF PlacesOf
<1>11. \A k \in PlacesOf(ix) \cup PlacesOf(later) : k = <<k[1], k[2]>>
  BY DEF PlacesOf
<1>12. \A s, i : <<s, i>> \in PlacesOf(later) <=> <<s, i>> \in PlacesOf(ix) \/ (s = t /\ i = n + 1)
  <2> SUFFICES ASSUME NEW s, NEW i
               PROVE  <<s, i>> \in PlacesOf(later) <=>
                        <<s, i>> \in PlacesOf(ix) \/ (s = t /\ i = n + 1)
    OBVIOUS
  <2>1. CASE s = t
    <3>1. i \in 1 .. n + 1 <=> i \in 1 .. n \/ i = n + 1
      BY <1>1
    <3>2. Len(later[t]) = n + 1 /\ Len(ix[t]) = n
      BY <1>1, <1>5, <1>7
    <3> HIDE DEF n
    <3> QED
      BY <1>1, <1>9, <1>10, <2>1, <3>1, <3>2
  <2>2. CASE s # t
    BY <1>7, <1>9, <1>10, <2>2
  <2> QED
    BY <2>1, <2>2
<1> DEFINE place == <<t, n + 1>>
<1>13. PlacesOf(later) = PlacesOf(ix) \cup {place} /\ place \notin PlacesOf(ix)
  <2>1. place \notin PlacesOf(ix)
    BY <1>1, <1>9
  <2>2. \A k : k \in PlacesOf(later) <=> k \in PlacesOf(ix) \/ k = place
    <3> HIDE DEF n
    <3> QED
      BY <1>11, <1>12
  <2> QED
    BY <2>1, <2>2
<1>14. EntryAt(later, place) = new
  BY <1>1, <1>5, <1>7 DEF EntryAt
<1>15. \A k \in PlacesOf(ix) : EntryAt(later, k) = EntryAt(ix, k)
  <2> SUFFICES ASSUME NEW k \in PlacesOf(ix)
               PROVE  later[k[1]][k[2]] = ix[k[1]][k[2]]
    BY DEF EntryAt
  <2>1. k[1] \in Traces /\ k[2] \in 1 .. Len(ix[k[1]])
    BY <1>9, <1>11
  <2> QED
    BY <1>5, <1>7, <2>1
<1> HIDE DEF place
<1>16. PlacesWith(later, e) = IF Columns(a.entry) = e
                              THEN PlacesWith(ix, e) \cup {place} ELSE PlacesWith(ix, e)
  BY <1>3, <1>13, <1>14, <1>15 DEF PlacesWith
<1>17. place \notin PlacesWith(ix, e) /\ IsFiniteSet(PlacesWith(ix, e))
  BY <1>13, MatchesType DEF PlacesWith
<1>18. Cardinality(PlacesWith(ix, e) \cup {place}) = Cardinality(PlacesWith(ix, e)) + 1
  BY <1>17, FS_AddElement
<1>19. Matches(later, e) = IF Columns(a.entry) = e
                           THEN Matches(ix, e) + 1 ELSE Matches(ix, e)
  BY <1>16, <1>18 DEF Matches
<1>20. Size(later) = Size(ix) + 1
  <2>1. Cardinality(PlacesOf(ix) \cup {place}) = Cardinality(PlacesOf(ix)) + 1
    BY <1>13, PlacesFinite, FS_AddElement
  <2> QED
    BY <1>13, <2>1 DEF Size
<1> QED
  BY <1>6, <1>19, <1>20 DEF later

(* The equation of the function `upto' of AddAll.                          *)
AddUpTo(upto, ix, new, n) ==
  upto = [i \in 0 .. n |-> IF i = 0 THEN ix
                           ELSE AddEntry(upto[i - 1], new[i].trace, new[i].entry)]

LEMMA AddRuns ==
  ASSUME NEW ix, NEW new, NEW n \in Nat
  PROVE  \E upto : AddUpTo(upto, ix, new, n)
<1> DEFINE Solved(m) == \E upto : AddUpTo(upto, ix, new, m)
           bad == { m \in Nat : ~Solved(m) }
<1> SUFFICES ASSUME bad # {} PROVE FALSE
  OBVIOUS
<1>1. PICK m \in bad : \A k \in bad : m <= k
  <2>1. bad \in SUBSET Nat
    OBVIOUS
  <2> HIDE DEF bad
  <2> QED
    BY <2>1, Least
<1>2. CASE m = 0
  <2> DEFINE one == [i \in 0 .. 0 |-> ix]
  <2>1. AddUpTo(one, ix, new, 0)
    BY DEF AddUpTo
  <2> QED
    BY <1>2, <2>1
<1>3. CASE m # 0
  <2>1. m - 1 \in Nat /\ ~(m <= m - 1) /\ m \in Nat
    BY <1>3
  <2>2. PICK upto : AddUpTo(upto, ix, new, m - 1)
    BY <1>1, <2>1
  <2> DEFINE final == AddEntry(upto[m - 1], new[m].trace, new[m].entry)
             more == [i \in 0 .. m |-> IF i = m THEN final ELSE upto[i]]
  <2>3. \A i \in 0 .. m - 1 : more[i] = upto[i]
    BY <2>1
  <2>4. more[m] = final /\ m - 1 \in 0 .. m - 1
    BY <2>1
  <2>5. ASSUME NEW i \in 0 .. m
        PROVE  more[i] = IF i = 0 THEN ix
                         ELSE AddEntry(more[i - 1], new[i].trace, new[i].entry)
    <3>1. CASE i = m
      BY <1>3, <2>3, <2>4, <3>1
    <3>2. CASE i # m
      <4>1. i \in 0 .. m - 1 /\ (i # 0 => i - 1 \in 0 .. m - 1)
        BY <2>1, <3>2
      <4>2. upto[i] = IF i = 0 THEN ix
                      ELSE AddEntry(upto[i - 1], new[i].trace, new[i].entry)
        BY <2>2, <4>1 DEF AddUpTo
      <4> HIDE DEF more
      <4> QED
        BY <2>3, <4>1, <4>2
    <3> QED
      BY <3>1, <3>2
  <2>6. more = [i \in 0 .. m |-> more[i]]
    OBVIOUS
  <2> HIDE DEF more
  <2>7. AddUpTo(more, ix, new, m)
    BY <2>5, <2>6 DEF AddUpTo
  <2> QED
    BY <2>7
<1> QED
  BY <1>2, <1>3

(* The loop adds what it is given, no less and no more.                    *)
LEMMA AddAllAdds ==
  ASSUME NEW ix \in Indexes, NEW n \in Nat, NEW new, Len(new) = n,
         \A i \in 1 .. n : new[i] \in Additions, NEW e
  PROVE  /\ AddAll(ix, new) \in Indexes
         /\ Size(AddAll(ix, new)) = Size(ix) + n
         /\ Matches(AddAll(ix, new), e) =
              Matches(ix, e) + Cardinality({ i \in 1 .. n : Columns(new[i].entry) = e })
<1> DEFINE f == CHOOSE upto : AddUpTo(upto, ix, new, n)
           Hits(m) == { i \in 1 .. m : Columns(new[i].entry) = e }
           Right(m) == /\ f[m] \in Indexes
                       /\ Size(f[m]) = Size(ix) + m
                       /\ Matches(f[m], e) = Matches(ix, e) + Cardinality(Hits(m))
           bad == { m \in 0 .. n : ~Right(m) }
<1>1. AddUpTo(f, ix, new, n)
  BY AddRuns
<1>2. AddAll(ix, new) = f[n]
  BY DEF AddAll, AddUpTo
<1> HIDE DEF f
<1>3. \A i \in 0 .. n : f[i] = IF i = 0 THEN ix
                               ELSE AddEntry(f[i - 1], new[i].trace, new[i].entry)
  BY <1>1 DEF AddUpTo
<1>4. Matches(ix, e) \in Nat /\ Size(ix) \in Nat
  BY MatchesType, SizeType
<1>5. \A m \in 0 .. n : IsFiniteSet(Hits(m)) /\ Cardinality(Hits(m)) \in Nat
  <2> SUFFICES ASSUME NEW m \in 0 .. n
               PROVE  IsFiniteSet(Hits(m)) /\ Cardinality(Hits(m)) \in Nat
    OBVIOUS
  <2>1. IsFiniteSet(1 .. m) /\ Hits(m) \in SUBSET (1 .. m)
    BY FS_Interval
  <2> HIDE DEF Hits
  <2>2. IsFiniteSet(Hits(m))
    BY <2>1, FS_Subset
  <2> QED
    BY <2>2, FS_CardinalityType
<1>6. bad = {}
  <2> SUFFICES ASSUME bad # {} PROVE FALSE
    OBVIOUS
  <2>1. PICK m \in bad : \A j \in bad : m <= j
    <3>1. bad \in SUBSET Nat
      OBVIOUS
    <3> HIDE DEF bad
    <3> QED
      BY <3>1, Least
  <2>2. m \in 0 .. n /\ ~Right(m)
    OBVIOUS
  <2>3. CASE m = 0
    <3>1. f[0] = ix
      BY <1>3, <2>2, <2>3
    <3>2. Hits(0) = {}
      OBVIOUS
    <3>3. Cardinality(Hits(0)) = 0
      BY <3>2, FS_EmptySet
    <3> HIDE DEF Hits
    <3> QED
      BY <1>4, <2>2, <2>3, <3>1, <3>3
  <2>4. CASE m # 0
    <3>1. m \in Nat /\ m \in 1 .. n /\ m - 1 \in 0 .. n /\ ~(m <= m - 1)
      BY <2>2, <2>4
    <3>2. Right(m - 1)
      <4>1. m - 1 \notin bad
        BY <2>1, <3>1
      <4> QED
        BY <3>1, <4>1
    <3> DEFINE a == new[m]
    <3>3. f[m] = AddEntry(f[m - 1], a.trace, a.entry) /\ a \in Additions
      BY <1>3, <2>2, <2>4, <3>1
    <3>4. /\ f[m] \in Indexes
          /\ Size(f[m]) = Size(f[m - 1]) + 1
          /\ Matches(f[m], e) = IF Columns(a.entry) = e
                                THEN Matches(f[m - 1], e) + 1 ELSE Matches(f[m - 1], e)
      <4> HIDE DEF a
      <4> QED
        BY <3>2, <3>3, AddEntryAdds
    <3>5. /\ m \notin Hits(m - 1)
          /\ Hits(m) = IF Columns(a.entry) = e THEN Hits(m - 1) \cup {m} ELSE Hits(m - 1)
      <4>1. \A i : i \in 1 .. m <=> i \in 1 .. m - 1 \/ i = m
        BY <3>1
      <4>2. m \notin 1 .. m - 1
        BY <3>1
      <4> QED
        BY <4>1, <4>2
    <3> HIDE DEF Hits, a
    <3>6. IsFiniteSet(Hits(m - 1)) /\ Cardinality(Hits(m - 1)) \in Nat
      BY <1>5, <3>1
    <3>7. Cardinality(Hits(m - 1) \cup {m}) = Cardinality(Hits(m - 1)) + 1
      BY <3>5, <3>6, FS_AddElement
    <3> DEFINE x == Cardinality(Hits(m - 1))
               y == Cardinality(Hits(m))
               z == Matches(ix, e)
    <3>8. y = (IF Columns(a.entry) = e THEN x + 1 ELSE x) /\ x \in Nat /\ z \in Nat
      BY <1>4, <3>5, <3>6, <3>7
    <3>9. Matches(f[m], e) = IF Columns(a.entry) = e THEN (z + x) + 1 ELSE z + x
      BY <3>2, <3>4
    <3>10. Matches(f[m], e) = z + y
      <4> HIDE DEF x, y, z
      <4> QED
        BY <3>8, <3>9
    <3>11. Size(f[m]) = Size(ix) + m
      <4> DEFINE w == Size(ix)
      <4>1. Size(f[m]) = (w + (m - 1)) + 1 /\ w \in Nat
        BY <1>4, <3>2, <3>4
      <4> HIDE DEF w
      <4>2. Size(f[m]) = w + m
        BY <3>1, <4>1
      <4> QED
        BY <4>2 DEF w
    <3> QED
      BY <2>2, <3>4, <3>10, <3>11
  <2> QED
    BY <2>3, <2>4
<1>7. Right(n)
  <2>1. n \in 0 .. n
    OBVIOUS
  <2> HIDE DEF Right
  <2> QED
    BY <1>6, <2>1
<1> QED
  BY <1>2, <1>7

LEMMA EventAdds ==
  ASSUME NEW x \in [trace : Traces, whole : BOOLEAN, event : Events]
  PROVE  /\ [trace |-> x.trace, entry |-> EntryOf(x)] \in Additions
         /\ Columns(EntryOf(x)) = x.event
<1> DEFINE c == x.event
<1>1. c \in [ColumnNames -> Int] /\ c["is_error"] \in {0, 1}
  BY EventsAssumption
<1>2. ColumnNames = {"timestamp", "duration", "is_error"}
  BY DEF ColumnNames
<1>3. c.timestamp \in Int /\ c.duration \in Int /\ c.is_error \in {0, 1}
  BY <1>1, <1>2
<1>4. c = [timestamp |-> c.timestamp, duration |-> c.duration, is_error |-> c.is_error]
  <2> HIDE DEF c
  <2> QED
    BY <1>1, <1>2
<1>5. x.trace \in Traces
  OBVIOUS
<1> HIDE DEF c
<1>6. EntryOf(x) = [id |-> NoSpan, parent |-> NoSpan, start |-> c.timestamp,
                    dur |-> c.duration, is_error |-> c.is_error]
  BY DEF EntryOf, c
<1> QED
  BY <1>3, <1>4, <1>5, <1>6 DEF Additions, Columns, Parents, Marks, c

LEMMA IndexingAdds ==
  ASSUME NEW ix \in Indexes, NEW events, Batched(events), NEW k \in 0 .. Len(events), NEW e
  PROVE  LET later == IndexEvents(ix, SubSeq(events, 1, k))
         IN  /\ later \in Indexes
             /\ Size(later) = Size(ix) + k
             /\ Matches(later, e) =
                  Matches(ix, e) + Cardinality({ i \in 1 .. k : events[i].event = e })
<1> DEFINE R == [trace : Traces, whole : BOOLEAN, event : Events]
           part == SubSeq(events, 1, k)
           new == [i \in 1 .. Len(part) |-> [trace |-> part[i].trace, entry |-> EntryOf(part[i])]]
<1>1. events \in Seq(R) /\ Len(events) \in Nat /\ k \in Nat /\ k <= Len(events)
  BY LenProperties DEF Batched
<1>2. \A i \in 1 .. k : events[i] \in R
  <2> HIDE DEF R
  <2> QED
    BY <1>1
<1>3. Len(part) = k /\ \A i \in 1 .. k : part[i] = events[i]
  <2> HIDE DEF R
  <2>1. Len(SubSeq(events, 1, k)) = (IF 1 <= k THEN k - 1 + 1 ELSE 0)
        /\ \A i \in 1 .. k - 1 + 1 : SubSeq(events, 1, k)[i] = events[1 + i - 1]
    BY <1>1, <1>2, SubSeqProperties
  <2> QED
    BY <1>1, <2>1
<1>4. IndexEvents(ix, part) = AddAll(ix, new)
  BY DEF IndexEvents
<1> HIDE DEF part
<1>5. Len(new) = k /\ \A i \in 1 .. k :
        new[i] = [trace |-> events[i].trace, entry |-> EntryOf(events[i])]
  BY <1>1, <1>3
<1> HIDE DEF new
<1>6. \A i \in 1 .. k : new[i] \in Additions /\ Columns(new[i].entry) = events[i].event
  BY <1>2, <1>5, EventAdds
<1>7. { i \in 1 .. k : Columns(new[i].entry) = e } = { i \in 1 .. k : events[i].event = e }
  BY <1>6
<1>8. /\ AddAll(ix, new) \in Indexes
      /\ Size(AddAll(ix, new)) = Size(ix) + k
      /\ Matches(AddAll(ix, new), e) =
           Matches(ix, e) + Cardinality({ i \in 1 .. k : Columns(new[i].entry) = e })
  <2>1. k \in Nat /\ Len(new) = k /\ \A i \in 1 .. k : new[i] \in Additions
    BY <1>1, <1>5, <1>6
  <2> HIDE DEF Matches
  <2> QED
    BY <2>1, AddAllAdds
<1> QED
  BY <1>4, <1>7, <1>8 DEF part

(* An insertion stores an event at most as often as the batch has it.      *)
StoredAs(s, e) == { i \in 1 .. Len(s) : s[i] = e }

LEMMA CopiesType ==
  ASSUME NEW s, Len(s) \in Nat, NEW e
  PROVE  IsFiniteSet(StoredAs(s, e)) /\ Cardinality(StoredAs(s, e)) \in Nat
<1>1. IsFiniteSet(StoredAs(s, e))
  <2> DEFINE n == Len(s)
  <2>1. IsFiniteSet(1 .. n)
    BY FS_Interval
  <2> QED
    BY <2>1, FS_Subset DEF StoredAs
<1> QED
  BY <1>1, FS_CardinalityType

LEMMA AppendedCopies ==
  ASSUME NEW s \in Seq(Events), NEW b \in Seq(Events), NEW e
  PROVE  Cardinality(StoredAs(s \o b, e)) <=
           Cardinality(StoredAs(s, e)) + Cardinality(StoredAs(b, e))
<1> DEFINE n == Len(s)
           m == Len(b)
           old == StoredAs(s, e)
           new == StoredAs(b, e)
           moved == { n + i : i \in new }
           all == StoredAs(s \o b, e)
<1>1. n \in Nat /\ m \in Nat
  BY LenProperties
<1>2. /\ Len(s \o b) = n + m
      /\ \A i \in 1 .. n : (s \o b)[i] = s[i]
      /\ \A k \in 1 .. m : (s \o b)[n + k] = b[k]
  BY LogAppend
<1>3. IsFiniteSet(old) /\ IsFiniteSet(new) /\ Cardinality(old) \in Nat
  BY <1>1, CopiesType
<1>4. new \subseteq 1 .. m /\ old \subseteq 1 .. n
  BY DEF StoredAs
<1>5. all \subseteq old \cup moved
  <2> SUFFICES ASSUME NEW i \in all
               PROVE  i \in old \/ \E k \in new : i = n + k
    OBVIOUS
  <2>1. i \in 1 .. n + m /\ (s \o b)[i] = e
    BY <1>2 DEF StoredAs
  <2> HIDE DEF n, m
  <2>2. i \in 1 .. n \/ (i - n \in 1 .. m /\ n + (i - n) = i)
    BY <1>1, <2>1
  <2>3. CASE i \in 1 .. n
    BY <1>2, <2>1, <2>3 DEF StoredAs, n
  <2>4. CASE i - n \in 1 .. m /\ n + (i - n) = i
    <3>1. b[i - n] = e
      BY <1>2, <2>1, <2>4
    <3>2. i - n \in new
      BY <2>4, <3>1 DEF StoredAs, m
    <3> QED
      BY <2>4, <3>2
  <2> QED
    BY <2>2, <2>3, <2>4
<1> HIDE DEF n, m, old, new, all
<1>6. IsFiniteSet(moved) /\ Cardinality(moved) = Cardinality(new)
  <2> DEFINE f == [i \in new |-> n + i]
  <2>1. \A i \in new : f[i] = n + i /\ i \in Int
    BY <1>4
  <2>2. f \in [new -> moved] /\ \A x \in moved : \E i \in new : f[i] = x
    OBVIOUS
  <2>3. \A i, j \in new : f[i] = f[j] => i = j
    BY <1>1, <2>1
  <2> HIDE DEF f, moved
  <2>4. f \in Bijection(new, moved)
    BY <2>2, <2>3 DEF Bijection, Injection, Surjection, IsInjective
  <2>5. ExistsBijection(new, moved)
    BY <2>4 DEF ExistsBijection
  <2> QED
    BY <1>3, <2>5, FS_Bijection
<1> HIDE DEF moved
<1>7. /\ IsFiniteSet(old \cup moved)
      /\ Cardinality(old \cup moved) =
           Cardinality(old) + Cardinality(moved) - Cardinality(old \cap moved)
  BY <1>3, <1>6, FS_Union
<1>8. Cardinality(old \cap moved) \in Nat /\ Cardinality(moved) \in Nat
  BY <1>3, <1>6, FS_Intersection, FS_CardinalityType
<1>9. IsFiniteSet(all) /\ Cardinality(all) <= Cardinality(old \cup moved)
  BY <1>5, <1>7, FS_Subset
<1>10. Cardinality(all) \in Nat
  BY <1>9, FS_CardinalityType
<1>11. Cardinality(all) <= Cardinality(old) + Cardinality(new)
  BY <1>3, <1>6, <1>7, <1>8, <1>9, <1>10
<1> QED
  BY <1>11 DEF all, old, new

LEMMA PickedCopies ==
  ASSUME NEW batch \in Batches, NEW rs, NEW ix \in Survivors(rs, batch), NEW e
  PROVE  Cardinality(StoredAs(Pick(batch, ix), e)) <= Cardinality(StoredAs(batch, e))
<1> DEFINE kept == Pick(batch, ix)
           a == StoredAs(kept, e)
           b == StoredAs(batch, e)
           f == [k \in a |-> ix[k]]
<1>1. PICK n \in 0 .. Len(batch) : ix \in [1 .. n -> 1 .. Len(batch)]
  BY DEF Survivors
<1>2. Len(batch) \in Nat
  BY BatchType, BatchAssumption
<1>3. \A j, k \in 1 .. n : j < k => ix[j] < ix[k]
  BY <1>1 DEF Survivors
<1>4. Len(kept) = n /\ \A k \in 1 .. n : kept[k] = batch[ix[k]]
  BY <1>1, <1>2 DEF Pick
<1> HIDE DEF kept
<1>5. \A k \in a : k \in 1 .. n /\ ix[k] \in b
  BY <1>1, <1>4 DEF StoredAs
<1>6. f \in [a -> b]
  BY <1>5
<1>7. \A j, k \in a : f[j] = f[k] => j = k
  <2> SUFFICES ASSUME NEW j \in a, NEW k \in a, ix[j] = ix[k], j # k
               PROVE  FALSE
    OBVIOUS
  <2>1. j \in 1 .. n /\ k \in 1 .. n
    BY <1>5
  <2>2. ix[j] \in Int /\ ix[k] \in Int /\ (j < k \/ k < j)
    BY <1>1, <2>1
  <2> QED
    BY <1>3, <2>1, <2>2
<1> HIDE DEF f, a
<1>8. f \in Injection(a, b)
  BY <1>6, <1>7 DEF Injection, IsInjective
<1>9. IsFiniteSet(b)
  BY <1>2, CopiesType
<1> QED
  BY <1>8, <1>9, FS_Injection DEF a, kept

LEMMA InsertedCopies ==
  ASSUME IInv, NEW batch \in Batches, BatchInsert(batch), NEW e
  PROVE  /\ Cardinality(StoredAs(log', e)) \in Nat
         /\ Cardinality(StoredAs(log', e)) <=
              Cardinality(StoredAs(log, e)) + Cardinality(StoredAs(batch, e))
<1>1. PICK ix \in Survivors(rules, batch) :
        LET kept == Pick(batch, ix)
        IN  IF Len(kept) = 0
            THEN UNCHANGED <<columns, head, count, len, log>>
            ELSE InsertRing(kept) \/ InsertLinear(kept) \/ Refuse(kept)
  BY InsertionPath
<1> DEFINE kept == Pick(batch, ix)
           x == Cardinality(StoredAs(log, e))
           y == Cardinality(StoredAs(batch, e))
           z == Cardinality(StoredAs(kept, e))
<1>2. kept \in Seq(Events) /\ log \in Seq(Events)
  BY SurvivorsKept DEF IInv, TypeOK
<1>3. log' = log \/ log' = log \o kept
  BY <1>1 DEF InsertRing, InsertLinear, Refuse
<1>4. Len(log) \in Nat /\ Len(batch) \in Nat /\ Len(kept) \in Nat
  BY <1>2, LenProperties, BatchType, BatchAssumption
<1>5. x \in Nat /\ y \in Nat /\ z \in Nat
  BY <1>4, CopiesType
<1>6. z <= y
  BY PickedCopies
<1> HIDE DEF kept
<1>7. CASE log' = log
  BY <1>5, <1>7
<1>8. CASE log' = log \o kept
  <2>1. Cardinality(StoredAs(log', e)) <= x + z
    BY <1>2, <1>8, AppendedCopies
  <2>2. Cardinality(StoredAs(log', e)) \in Nat
    <3>1. Len(log \o kept) \in Nat
      BY <1>2, LogAppend, LenProperties
    <3> QED
      BY <1>8, <3>1, CopiesType
  <2> HIDE DEF x, y, z
  <2>3. Cardinality(StoredAs(log', e)) <= x + y
    BY <1>5, <1>6, <2>1, <2>2
  <2> QED
    BY <2>2, <2>3 DEF x, y
<1> QED
  BY <1>3, <1>7, <1>8

-----------------------------------------------------------------------------
(* What reaches the engine.                                                *)

TextRule == [column : STRING, op : STRING, action : STRING, threshold : Int]

LEMMA CompiledRules ==
  ASSUME NEW config \in ConfigFiles
  PROVE  CompileRules(config) \in Seq(CompiledRule)
<1> DEFINE n == IF Len(config) < MaxCompiled THEN Len(config) ELSE MaxCompiled
           rs == Considered(config)
<1>1. config \in Seq(TextRule) /\ MaxCompiled \in Nat
  BY ServerAssumption DEF TextRule
<1>2. n \in Nat /\ n <= Len(config)
  BY <1>1
<1>3. rs = SubSeq(config, 1, n)
  BY DEF Considered
<1> HIDE DEF n
<1>4. rs \in Seq(TextRule) /\ Len(rs) = n
  <2>1. \A i \in 1 .. n : config[i] \in TextRule
    BY <1>1, <1>2
  <2>2. CASE n = 0
    BY <1>1, <1>3, <2>2
  <2>3. CASE n > 0
    BY <1>1, <1>2, <1>3, <2>1, <2>3, SubSeqProperties
  <2> QED
    BY <1>2, <2>2, <2>3
<1> HIDE DEF rs
<1>5. ASSUME NEW r \in TextRule, Compilable(r)
      PROVE  CompileRule(r) \in CompiledRule
  <2>1. r.threshold \in Int
    BY DEF TextRule
  <2>2. COLUMNS[r.column] \in Nat
    BY <1>5 DEF Compilable, COLUMNS
  <2>3. RULE_ACTIONS[r.action] \in {DropAction, KeepAction}
    BY <1>5 DEF Compilable, RULE_ACTIONS
  <2> DEFINE k == CHOOSE k \in DOMAIN OPS : r.op \in OPS[k]
  <2>4. DOMAIN OPS = 1 .. 6
    BY DEF OPS
  <2>5. k \in 1 .. 6
    BY <1>5, <2>4 DEF Compilable, KnownOp
  <2> HIDE DEF k
  <2>6. k - 1 \in 0 .. 5
    BY <2>5
  <2> QED
    BY <2>1, <2>2, <2>3, <2>6 DEF CompileRule, CompiledRule, k
<1>6. CASE \A i \in DOMAIN rs : Compilable(rs[i])
  <2>1. \A i \in 1 .. n : CompileRule(rs[i]) \in CompiledRule
    BY <1>4, <1>5, <1>6
  <2>2. [i \in 1 .. n |-> CompileRule(rs[i])] \in Seq(CompiledRule)
    BY <1>2, <2>1
  <2>3. CompileRules(config) = [i \in 1 .. n |-> CompileRule(rs[i])]
    BY <1>4, <1>6 DEF CompileRules, rs
  <2> QED
    BY <2>2, <2>3
<1>7. CASE ~(\A i \in DOMAIN rs : Compilable(rs[i]))
  BY <1>7 DEF CompileRules, rs
<1> QED
  BY <1>6, <1>7

(* A batch enters the engine, or the engine stands still.                  *)
Inserts == \E batch \in Batches : BatchInsert(batch)

LEMMA BatchOfEvents ==
  ASSUME NEW events, Batched(events), IngestBatch(events)
  PROVE  [i \in DOMAIN events |-> events[i].event] \in Batches
<1> DEFINE batch == [i \in DOMAIN events |-> events[i].event]
<1>1. /\ events \in Seq([trace : Traces, whole : BOOLEAN, event : Events])
      /\ Len(events) \in 1 .. MaxBatch
  <2>1. Len(events) \in Nat /\ Len(events) # 0 /\ Len(events) <= MaxBatch
    BY EmptySeq DEF Batched, IngestBatch
  <2> QED
    BY <2>1, BatchAssumption, CapAssumption DEF Batched
<1>2. batch \in Batches
  <2>1. DOMAIN events = 1 .. Len(events) /\ \A i \in DOMAIN events : events[i].event \in Events
    <3> DEFINE R == [trace : Traces, whole : BOOLEAN, event : Events]
    <3>1. events \in Seq(R) /\ \A r \in R : r.event \in Events
      BY <1>1
    <3> HIDE DEF R
    <3> QED
      BY <3>1
  <2>2. batch \in [1 .. Len(events) -> Events]
    BY <2>1
  <2> QED
    BY <1>1, <2>2 DEF Batches
<1> QED
  BY <1>2

LEMMA IngestReaches ==
  ASSUME NEW events, Batched(events), IngestBatch(events)
  PROVE  Inserts \/ UNCHANGED engineVars
<1> DEFINE batch == [i \in DOMAIN events |-> events[i].event]
<1>1. batch \in Batches
  BY BatchOfEvents
<1>2. BatchInsert(batch) \/ UNCHANGED engineVars
  BY DEF IngestBatch, IngestNative, IngestMap
<1> QED
  BY <1>1, <1>2 DEF Inserts

(* What a step of the server can do to the engine.                         *)
Rests == UNCHANGED <<engineVars, ready>>
Serves == ready /\ ready' = ready /\ Inserts
Probes == ready' = ready /\ \E e \in ProbeEvents : BatchInsert(<<e>>)
Boots ==
  /\ ~ready /\ ready' = TRUE
  /\ UNCHANGED engineVars \/ \E config \in ConfigFiles : SetRules(CompileRules(config))
Restarts == Restart /\ ready' \in BOOLEAN

LEMMA EngineStep ==
  ASSUME [ServerNext]_serverVars
  PROVE  Rests \/ Serves \/ Probes \/ Boots \/ Restarts
<1>1. ASSUME NEW body \in Bodies, PostIngestBatch(body)
      PROVE  Rests \/ Serves
  BY <1>1, ServerAssumption, IngestReaches DEF PostIngestBatch, bootVars, Rests, Serves
<1>2. ASSUME NEW body \in EventBodies, PostEvents(body)
      PROVE  Rests \/ Serves
  <2> DEFINE events == WithoutMetrics(body)
  <2>1. Batched(events) /\ IngestBatch(events) /\ ready /\ ready' = ready
    BY <1>2, ServerAssumption DEF PostEvents, bootVars
  <2> HIDE DEF events
  <2> QED
    BY <2>1, IngestReaches DEF Rests, Serves
<1>3. ASSUME NEW request \in OtlpRequests, PostTraces(request)
      PROVE  Rests \/ Serves
  <2> DEFINE events == OtlpToEvents(request)
  <2>1. /\ ready /\ ready' = ready
        /\ (Batched(events) /\ IngestBatch(events)) \/ UNCHANGED engineVars
    BY <1>3, ServerAssumption DEF PostTraces, bootVars
  <2> HIDE DEF events
  <2> QED
    BY <2>1, IngestReaches DEF Rests, Serves
<1>4. ASSUME NEW batch \in BinaryBatches, PostIngestBinary(batch)
      PROVE  Serves
  BY <1>4, ServerAssumption DEF PostIngestBinary, bootVars, Serves, Inserts
<1>5. ASSUME NEW e \in ProbeEvents, NEW reported, ProbeEvent(e, reported)
      PROVE  Probes
  BY <1>5 DEF ProbeEvent, bootVars, Probes
<1>6. DrainTraceSpans => Rests
  BY DEF DrainTraceSpans, bootVars, Rests
<1>7. TryAttachEbpf => Rests
  BY DEF TryAttachEbpf, Rests
<1>8. LoadRules => Boots
  BY DEF LoadRules, Boots
<1>9. ServerRestart => Restarts
  BY DEF ServerRestart, Restarts
<1>10. UNCHANGED serverVars => Rests
  BY DEF serverVars, bootVars, Rests
<1> QED
  BY <1>1, <1>2, <1>3, <1>4, <1>5, <1>6, <1>7, <1>8, <1>9, <1>10 DEF ServerNext

LEMMA ProbeBatch ==
  ASSUME NEW e \in ProbeEvents
  PROVE  <<e>> \in Batches /\ Len(<<e>>) = 1 /\ <<e>>[1] = e
<1>1. e \in Events /\ 1 \in 1 .. MaxBatch
  BY ServerAssumption, BatchAssumption
<1>2. <<e>> \in [1 .. 1 -> Events]
  BY <1>1
<1> QED
  BY <1>1, <1>2 DEF Batches

(* Everything but a loading of rules is a step of the store itself.        *)
LEMMA StoreSteps ==
  ASSUME Rests \/ Serves \/ Probes \/ Restarts
  PROVE  [Next]_vars
<1>1. Probes => Next
  BY ProbeBatch DEF Probes, Next
<1>2. Serves => Next
  BY DEF Serves, Inserts, Next
<1>3. Restarts => Next
  BY DEF Restarts, Next
<1>4. Rests => UNCHANGED vars
  BY DEF Rests, engineVars, vars
<1> QED
  BY <1>1, <1>2, <1>3, <1>4

-----------------------------------------------------------------------------
(* The invariant of the store.                                             *)

LEMMA LoadingKeeps ==
  ASSUME IInv, NEW rs \in Seq(CompiledRule), SetRules(rs)
  PROVE  IInv'
<1>1. rules' \in Seq(CompiledRule)
  <2> DEFINE n == Min2(Len(rs), MaxRules)
  <2>1. Len(rs) \in Nat /\ Len(rs) # 0
    BY EmptySeq DEF SetRules
  <2>2. n \in 1 .. Len(rs)
    BY <2>1 DEF Min2, MaxRules
  <2> HIDE DEF n
  <2>3. SubSeq(rs, 1, n) \in Seq(CompiledRule)
    BY <2>1, <2>2, SubSeqProperties
  <2> QED
    BY <2>3 DEF SetRules, n
<1>2. UNCHANGED <<columns, head, count, len, log>> /\ events_dropped' = 0
  BY DEF SetRules
<1> QED
  BY <1>1, <1>2 DEF IInv, TypeOK, HeaderAgrees, ColumnsHold, StoreHead

LEMMA StoreKeeps == IInv /\ [ServerNext]_serverVars => IInv'
<1> SUFFICES ASSUME IInv, [ServerNext]_serverVars PROVE IInv'
  OBVIOUS
<1>1. CASE Rests \/ Serves \/ Probes \/ Restarts
  BY <1>1, StoreSteps, StepInvariant
<1>2. CASE Boots
  <2>1. CASE UNCHANGED engineVars
    BY <2>1, StepInvariant DEF engineVars, vars
  <2>2. ASSUME NEW config \in ConfigFiles, SetRules(CompileRules(config))
        PROVE  IInv'
    BY <2>2, CompiledRules, LoadingKeeps
  <2> QED
    BY <1>2, <2>1, <2>2 DEF Boots
<1> QED
  BY <1>1, <1>2, EngineStep

-----------------------------------------------------------------------------
(* The rules and the probes.                                               *)

(* A batch brings in only events that its rules keep.                      *)
LEMMA InsertionGrows ==
  ASSUME IInv, NEW batch \in Batches, BatchInsert(batch)
  PROVE  /\ rules' = rules
         /\ Len(log) \in Nat /\ Len(log') \in Nat /\ Len(log) <= Len(log')
         /\ \A i \in 1 .. Len(log') :
              \/ i \in 1 .. Len(log) /\ log'[i] = log[i]
              \/ /\ ~ShouldDrop(rules, log'[i])
                 /\ \E j \in 1 .. Len(batch) : log'[i] = batch[j]
<1>1. PICK ix \in Survivors(rules, batch) :
        LET kept == Pick(batch, ix)
        IN  IF Len(kept) = 0
            THEN UNCHANGED <<columns, head, count, len, log>>
            ELSE InsertRing(kept) \/ InsertLinear(kept) \/ Refuse(kept)
  BY InsertionPath
<1> DEFINE kept == Pick(batch, ix)
<1>2. kept \in Seq(Events) /\ \A k \in 1 .. Len(kept) : ~ShouldDrop(rules, kept[k])
  BY SurvivorsKept
<1>3. \A k \in 1 .. Len(kept) : \E j \in 1 .. Len(batch) : kept[k] = batch[j]
  <2>1. PICK n \in 0 .. Len(batch) : ix \in [1 .. n -> 1 .. Len(batch)]
    BY DEF Survivors
  <2>2. Len(batch) \in Nat
    BY BatchType, BatchAssumption
  <2>3. Len(kept) = n
    BY <2>1, <2>2 DEF Pick
  <2> QED
    BY <2>1, <2>3 DEF Pick
<1>4. log \in Seq(Events) /\ rules' = rules
  BY InsertionPath DEF IInv, TypeOK
<1> HIDE DEF kept
<1>5. log' = log \/ log' = log \o kept
  BY <1>1 DEF InsertRing, InsertLinear, Refuse, kept
<1>6. CASE log' = log
  BY <1>4, <1>6
<1>7. CASE log' = log \o kept
  <2>1. /\ log' \in Seq(Events) /\ Len(log') = Len(log) + Len(kept)
        /\ \A i \in 1 .. Len(log) : log'[i] = log[i]
        /\ \A i \in 1 .. Len(kept) : log'[Len(log) + i] = kept[i]
    BY <1>2, <1>4, <1>7, LogAppend
  <2> DEFINE n == Len(log)
             m == Len(kept)
  <2>2. n \in Nat /\ m \in Nat
    BY <1>2, <1>4
  <2>3. ASSUME NEW i \in 1 .. Len(log')
        PROVE  \/ i \in 1 .. Len(log) /\ log'[i] = log[i]
               \/ /\ ~ShouldDrop(rules, log'[i])
                  /\ \E j \in 1 .. Len(batch) : log'[i] = batch[j]
    <3> HIDE DEF n, m
    <3>1. i \in 1 .. n + m
      BY <2>1 DEF n, m
    <3>2. i \in 1 .. n \/ (i - n \in 1 .. m /\ n + (i - n) = i)
      BY <2>2, <3>1
    <3>3. CASE i \in 1 .. n
      BY <2>1, <3>3 DEF n
    <3>4. CASE i - n \in 1 .. m /\ n + (i - n) = i
      <4>1. log'[i] = kept[i - n]
        BY <2>1, <3>4 DEF n, m
      <4> QED
        BY <1>2, <1>3, <3>4, <4>1 DEF m
    <3> QED
      BY <3>2, <3>3, <3>4
  <2>4. Len(log) \in Nat /\ Len(log') \in Nat /\ Len(log) <= Len(log')
    BY <2>1, <2>2
  <2> HIDE DEF n, m
  <2> QED
    BY <1>4, <2>3, <2>4
<1> QED
  BY <1>5, <1>6, <1>7

LEMMA OutrunKeeps == ServerInv /\ [ServerNext]_serverVars => Booting' /\ Outrun' /\ ready' \in BOOLEAN
<1> SUFFICES ASSUME ServerInv, [ServerNext]_serverVars
             PROVE  Booting' /\ Outrun' /\ ready' \in BOOLEAN
  OBVIOUS
<1>1. CASE Rests
  BY <1>1 DEF Rests, engineVars, ServerInv, Booting, Outrun
<1>2. ASSUME NEW batch \in Batches, BatchInsert(batch), ready, ready' = ready
      PROVE  Booting' /\ Outrun' /\ ready' \in BOOLEAN
  <2>1. Outrun'
    BY <1>2, InsertionGrows DEF ServerInv, Outrun
  <2> QED
    BY <1>2, <2>1 DEF Booting, ServerInv
<1>3. CASE Probes
  <2>1. PICK e \in ProbeEvents : BatchInsert(<<e>>)
    BY <1>3 DEF Probes
  <2>2. <<e>> \in Batches /\ \A j \in 1 .. Len(<<e>>) : <<e>>[j] = e
    BY ProbeBatch
  <2>3. /\ rules' = rules
        /\ \A i \in 1 .. Len(log') :
             (i \in 1 .. Len(log) /\ log'[i] = log[i]) \/ log'[i] = e
    <3> DEFINE b == <<e>>
    <3>1. b \in Batches /\ BatchInsert(b) /\ \A j \in 1 .. Len(b) : b[j] = e
      BY <2>1, <2>2
    <3> HIDE DEF b
    <3> QED
      BY <3>1, InsertionGrows DEF ServerInv
  <2>4. Outrun'
    BY <2>3 DEF ServerInv, Outrun
  <2>5. Booting'
    BY <1>3, <2>3 DEF ServerInv, Booting, Probes
  <2> QED
    BY <1>3, <2>4, <2>5 DEF Probes, ServerInv
<1>4. CASE Boots
  <2>1. log' = log
    BY <1>4 DEF Boots, SetRules, engineVars
  <2>2. \A i \in 1 .. Len(log) : log[i] \in ProbeEvents
    BY <1>4 DEF Boots, ServerInv, Booting
  <2> QED
    BY <1>4, <2>1, <2>2 DEF Boots, Booting, Outrun
<1>5. CASE Restarts
  <2>1. log' = << >> /\ rules' = << >> /\ ready' \in BOOLEAN
    BY <1>5, ServerAssumption DEF Restarts, Restart
  <2>2. Len(log') = 0
    BY <2>1
  <2> QED
    BY <2>1, <2>2 DEF Booting, Outrun
<1> QED
  BY <1>1, <1>2, <1>3, <1>4, <1>5, EngineStep DEF Serves, Inserts

-----------------------------------------------------------------------------
(* The index beside the columns.                                           *)

(* The events that come with a trace.                                      *)
Traced == Events \ (ProbeEvents \cup UNION { Range(b) : b \in BinaryBatches })

Covered ==
  \A e \in Traced : Cardinality(StoredAs(log, e)) <= Matches(traceIndex, e)

Keeps(e) ==
  Cardinality(StoredAs(log, e)) <= Matches(traceIndex, e) =>
    Cardinality(StoredAs(log', e)) <= Matches(traceIndex', e)

SpansHeld ==
  /\ spanCount \in Nat
  /\ spans \in [0 .. SpanRing - 1 -> KernelSpans \cup {NoSpan}]
  /\ \A i \in 0 .. spanCount - 1 : spans[i % SpanRing] \in KernelSpans

IndexInv == traceIndex \in Indexes /\ SpansHeld /\ Covered

(* What a step of the server can do to the index and the columns.          *)
Stands ==
  /\ UNCHANGED <<log, facadeVars, kernelVars, backend>>
  /\ backend # "native" /\ ready => UNCHANGED <<probes, ready>>
Takes ==
  \E events : Batched(events) /\ IngestBatch(events) /\ UNCHANGED <<kernelVars, bootVars>>
TakesBinary == \E batch \in BinaryBatches : PostIngestBinary(batch)
TakesProbe ==
  \E e \in ProbeEvents, reported \in { {} } \cup { {s} : s \in KernelSpans } :
    ProbeEvent(e, reported)

LEMMA IndexStep ==
  ASSUME [ServerNext]_serverVars
  PROVE  Stands \/ Takes \/ TakesBinary \/ TakesProbe \/ DrainTraceSpans \/ ServerRestart
<1>1. ASSUME NEW body \in Bodies, PostIngestBatch(body)
      PROVE  Takes
  BY <1>1, ServerAssumption DEF PostIngestBatch, Takes
<1>2. ASSUME NEW body \in EventBodies, PostEvents(body)
      PROVE  Takes
  <2> DEFINE events == WithoutMetrics(body)
  <2>1. Batched(events) /\ IngestBatch(events) /\ UNCHANGED <<kernelVars, bootVars>>
    BY <1>2, ServerAssumption DEF PostEvents
  <2> HIDE DEF events
  <2> QED
    BY <2>1 DEF Takes
<1>3. ASSUME NEW request \in OtlpRequests, PostTraces(request)
      PROVE  Takes \/ Stands
  <2> DEFINE events == OtlpToEvents(request)
  <2>1. /\ UNCHANGED <<kernelVars, bootVars>>
        /\ (Batched(events) /\ IngestBatch(events)) \/ UNCHANGED <<engineVars, facadeVars>>
    BY <1>3, ServerAssumption DEF PostTraces
  <2> HIDE DEF events
  <2> QED
    BY <2>1 DEF Takes, Stands, engineVars, facadeVars, bootVars
<1>4. TryAttachEbpf => Stands
  BY DEF TryAttachEbpf, Stands, engineVars, facadeVars
<1>5. LoadRules => Stands
  BY DEF LoadRules, SetRules, Stands, engineVars, facadeVars
<1>6. UNCHANGED serverVars => Stands
  BY DEF serverVars, Stands, engineVars, facadeVars, bootVars
<1> QED
  BY <1>1, <1>2, <1>3, <1>4, <1>5, <1>6 DEF ServerNext, TakesBinary, TakesProbe

(* A batch of the facade: what reaches the columns was indexed before.     *)
LEMMA TakingCovers ==
  ASSUME IInv, traceIndex \in Indexes, NEW events, Batched(events), IngestBatch(events), NEW e
  PROVE  /\ traceIndex' \in Indexes
         /\ Keeps(e)
<1> DEFINE R == [trace : Traces, whole : BOOLEAN, event : Events]
           n == Len(events)
           k == Shreddable(events)
           whole == { i \in 1 .. n : \A j \in 1 .. i : events[j].whole }
           Like(m) == Cardinality({ i \in 1 .. m : events[i].event = e })
           x == Cardinality(StoredAs(log, e))
           y == Matches(traceIndex, e)
           batch == [i \in DOMAIN events |-> events[i].event]
<1> SUFFICES /\ traceIndex' \in Indexes
             /\ x <= y => Cardinality(StoredAs(log', e)) <= Matches(traceIndex', e)
  BY DEF Keeps
<1>1. events \in Seq(R) /\ n \in 1 .. MaxBatch
  <2>1. Len(events) \in Nat /\ Len(events) # 0 /\ Len(events) <= MaxBatch
    BY EmptySeq DEF Batched, IngestBatch
  <2> QED
    BY <2>1, BatchAssumption, CapAssumption DEF Batched
<1>2. n \in Nat
  BY <1>1, BatchAssumption, CapAssumption
<1>3. k \in 0 .. n
  <2>1. IsFiniteSet(1 .. n) /\ Cardinality(1 .. n) = n
    <3> HIDE DEF n
    <3>1. Cardinality(1 .. n) = (IF 1 > n THEN 0 ELSE n - 1 + 1) /\ IsFiniteSet(1 .. n)
      BY <1>2, FS_Interval
    <3> QED
      BY <1>2, <3>1
  <2>2. IsFiniteSet(whole) /\ Cardinality(whole) <= n
    BY <2>1, FS_Subset
  <2>3. Cardinality(whole) \in Nat
    BY <2>2, FS_CardinalityType
  <2>4. k = Cardinality(whole)
    BY DEF Shreddable
  <2> HIDE DEF whole, k, n
  <2> QED
    BY <1>2, <2>2, <2>3, <2>4
<1>4. ASSUME NEW m \in 0 .. n
      PROVE  Like(m) \in Nat
  <2>1. IsFiniteSet(1 .. m)
    BY <1>2, FS_Interval
  <2>2. IsFiniteSet({ i \in 1 .. m : events[i].event = e })
    BY <2>1, FS_Subset
  <2> QED
    BY <2>2, FS_CardinalityType
<1>5. x \in Nat /\ y \in Nat
  <2>1. Len(log) \in Nat
    BY LenProperties DEF IInv, TypeOK
  <2> QED
    BY <2>1, CopiesType, MatchesType
<1>6. ASSUME NEW m \in 0 .. n
      PROVE  /\ IndexEvents(traceIndex, SubSeq(events, 1, m)) \in Indexes
             /\ Matches(IndexEvents(traceIndex, SubSeq(events, 1, m)), e) = y + Like(m)
  BY IndexingAdds
<1>7. SubSeq(events, 1, n) = events
  BY <1>1, SubSeqFull
<1>8. n \in 0 .. n
  BY <1>2
<1>9. batch \in Batches /\ Cardinality(StoredAs(batch, e)) = Like(n)
  <2>1. DOMAIN events = 1 .. n /\ \A i \in 1 .. n : events[i].event \in Events
    <3>1. \A r \in R : r.event \in Events
      OBVIOUS
    <3> HIDE DEF R
    <3> QED
      BY <1>1, <3>1
  <2>2. batch = [i \in 1 .. n |-> events[i].event] /\ batch \in [1 .. n -> Events]
    BY <2>1
  <2>3. Len(batch) = n /\ \A i \in 1 .. n : batch[i] = events[i].event
    BY <1>2, <2>2
  <2> HIDE DEF n, batch
  <2>4. batch \in Batches
    BY <1>1, <2>2 DEF Batches
  <2>5. StoredAs(batch, e) = { i \in 1 .. n : events[i].event = e }
    BY <2>3 DEF StoredAs
  <2> QED
    BY <2>4, <2>5
<1> HIDE DEF batch, n, k, x, y, Like
<1>10. CASE backend = "native" /\ k = n
  <2>1. traceIndex' = IndexEvents(traceIndex, SubSeq(events, 1, k)) /\ BatchInsert(batch)
    BY <1>10 DEF IngestBatch, IngestNative, batch, k, n
  <2>2. /\ Cardinality(StoredAs(log', e)) \in Nat
        /\ Cardinality(StoredAs(log', e)) <= x + Like(n)
    BY <1>9, <2>1, InsertedCopies DEF x
  <2> QED
    BY <1>4, <1>5, <1>6, <1>8, <1>10, <2>1, <2>2
<1>11. CASE backend = "native" /\ k # n
  <2>1. traceIndex' = IndexEvents(traceIndex, SubSeq(events, 1, k)) /\ log' = log
    BY <1>11 DEF IngestBatch, IngestNative, k, n, engineVars
  <2> QED
    BY <1>3, <1>4, <1>5, <1>6, <2>1 DEF x
<1>12. CASE backend # "native"
  <2>1. traceIndex' = IndexEvents(traceIndex, SubSeq(events, 1, n)) /\ log' = log
    BY <1>7, <1>12 DEF IngestBatch, IngestMap, engineVars
  <2> QED
    BY <1>4, <1>5, <1>6, <1>8, <2>1 DEF x
<1> QED
  BY <1>10, <1>11, <1>12

(* A span of the library's ring can be added.                              *)
LEMMA SpanAdds ==
  ASSUME NEW s \in KernelSpans
  PROVE  SpanOf(s) \in Additions
  BY ServerAssumption DEF SpanOf, Additions, Ids, Parents, Marks

LEMMA DrainingCovers ==
  ASSUME traceIndex \in Indexes, SpansHeld, DrainTraceSpans, NEW e, Len(log) \in Nat
  PROVE  traceIndex' \in Indexes /\ Keeps(e)
<1> DEFINE n == spanCount
           new == [i \in 1 .. n |-> SpanOf(spans[(i - 1) % SpanRing])]
           hits == { i \in 1 .. n : Columns(new[i].entry) = e }
<1>1. n \in Nat
  BY DEF SpansHeld
<1>2. \A i \in 1 .. n : new[i] \in Additions
  <2> SUFFICES ASSUME NEW i \in 1 .. n PROVE new[i] \in Additions
    OBVIOUS
  <2>1. i - 1 \in 0 .. n - 1
    BY <1>1
  <2>2. spans[(i - 1) % SpanRing] \in KernelSpans
    BY <2>1 DEF SpansHeld
  <2> QED
    BY <2>2, SpanAdds
<1>3. Len(new) = n
  BY <1>1
<1>4. traceIndex' = AddAll(traceIndex, new) /\ log' = log
  BY DEF DrainTraceSpans, engineVars
<1>5. Cardinality(hits) \in Nat
  <2>1. IsFiniteSet(1 .. n)
    BY <1>1, FS_Interval
  <2>2. IsFiniteSet(hits)
    BY <2>1, FS_Subset
  <2> QED
    BY <2>2, FS_CardinalityType
<1>6. Cardinality(StoredAs(log, e)) \in Nat /\ Matches(traceIndex, e) \in Nat
  BY CopiesType, MatchesType
<1> HIDE DEF new, n
<1>7. /\ AddAll(traceIndex, new) \in Indexes
      /\ Size(AddAll(traceIndex, new)) = Size(traceIndex) + n
      /\ Matches(AddAll(traceIndex, new), e) = Matches(traceIndex, e) + Cardinality(hits)
  BY <1>1, <1>2, <1>3, AddAllAdds
<1> HIDE DEF hits
<1> QED
  BY <1>4, <1>5, <1>6, <1>7 DEF Keeps

(* The binary route and the probes bring in only events of their own.      *)
LEMMA OthersCover ==
  ASSUME IInv, NEW batch \in Batches, BatchInsert(batch), NEW e, e \notin Range(batch)
  PROVE  /\ Cardinality(StoredAs(log', e)) \in Nat
         /\ Cardinality(StoredAs(log', e)) <= Cardinality(StoredAs(log, e))
<1>1. StoredAs(batch, e) = {}
  <2>1. DOMAIN batch = 1 .. Len(batch)
    BY BatchType
  <2> QED
    BY <2>1 DEF StoredAs, Range
<1>2. Cardinality(StoredAs(batch, e)) = 0
  BY <1>1, FS_EmptySet
<1>3. Cardinality(StoredAs(log, e)) \in Nat
  <2>1. Len(log) \in Nat
    BY LenProperties DEF IInv, TypeOK
  <2> QED
    BY <2>1, CopiesType
<1> QED
  BY <1>2, <1>3, InsertedCopies

LEMMA EmptyCovers ==
  ASSUME NEW ix, ix = [t \in Traces |-> << >>]
  PROVE  /\ ix \in Indexes
         /\ \A e : Cardinality(StoredAs(<< >>, e)) <= Matches(ix, e)
<1>1. ix \in Indexes
  BY DEF Indexes
<1>2. ASSUME NEW e
      PROVE  Cardinality(StoredAs(<< >>, e)) <= Matches(ix, e)
  <2>1. StoredAs(<< >>, e) = {}
    BY DEF StoredAs
  <2>2. Cardinality(StoredAs(<< >>, e)) = 0
    BY <2>1, FS_EmptySet
  <2>3. Matches(ix, e) \in Nat
    BY <1>1, MatchesType
  <2> QED
    BY <2>2, <2>3
<1> QED
  BY <1>1, <1>2

LEMMA IndexKeeps == IInv /\ IndexInv /\ [ServerNext]_serverVars => IndexInv'
<1> SUFFICES ASSUME IInv, IndexInv, [ServerNext]_serverVars PROVE IndexInv'
  OBVIOUS
<1> USE DEF IndexInv
<1>1. Len(log) \in Nat
  BY LenProperties DEF IInv, TypeOK
<1>2. UNCHANGED kernelVars => SpansHeld'
  BY DEF kernelVars, SpansHeld
<1>3. CASE Stands
  BY <1>2, <1>3 DEF Stands, Covered, facadeVars
<1>4. CASE Takes
  <2>1. PICK events : Batched(events) /\ IngestBatch(events) /\ UNCHANGED kernelVars
    BY <1>4 DEF Takes
  <2>2. ASSUME NEW e
        PROVE  traceIndex' \in Indexes /\ Keeps(e)
    BY <2>1, TakingCovers
  <2> QED
    BY <1>2, <2>1, <2>2 DEF Covered, Keeps
<1>5. CASE TakesBinary
  <2>1. PICK batch \in BinaryBatches : PostIngestBinary(batch)
    BY <1>5 DEF TakesBinary
  <2>2. batch \in Batches /\ BatchInsert(batch) /\ UNCHANGED <<traceIndex, kernelVars>>
    BY <2>1, ServerAssumption DEF PostIngestBinary
  <2>3. ASSUME NEW e \in Traced
        PROVE  Cardinality(StoredAs(log', e)) <= Matches(traceIndex', e)
    <3>1. e \notin Range(batch)
      BY <2>1 DEF Traced
    <3>2. /\ Cardinality(StoredAs(log', e)) \in Nat
          /\ Cardinality(StoredAs(log', e)) <= Cardinality(StoredAs(log, e))
      BY <2>2, <3>1, OthersCover
    <3>3. Cardinality(StoredAs(log, e)) \in Nat /\ Matches(traceIndex, e) \in Nat
      BY <1>1, CopiesType, MatchesType
    <3> QED
      BY <2>2, <3>2, <3>3 DEF Covered
  <2> QED
    BY <1>2, <2>2, <2>3 DEF Covered
<1>6. CASE TakesProbe
  <2>1. PICK e \in ProbeEvents, reported \in { {} } \cup { {s} : s \in KernelSpans } :
          ProbeEvent(e, reported)
    BY <1>6 DEF TakesProbe
  <2>2. traceIndex' = traceIndex /\ BatchInsert(<<e>>)
    BY <2>1 DEF ProbeEvent, facadeVars
  <2>3. ASSUME NEW f \in Traced
        PROVE  Cardinality(StoredAs(log', f)) <= Matches(traceIndex', f)
    <3> DEFINE b == <<e>>
    <3>1. b \in Batches /\ f \notin Range(b) /\ BatchInsert(b)
      <4>1. \A i \in DOMAIN b : b[i] = e
        OBVIOUS
      <4>2. f # e /\ b \in Batches
        BY ProbeBatch DEF Traced
      <4> QED
        BY <2>2, <4>1, <4>2 DEF Range
    <3> HIDE DEF b
    <3>2. /\ Cardinality(StoredAs(log', f)) \in Nat
          /\ Cardinality(StoredAs(log', f)) <= Cardinality(StoredAs(log, f))
      BY <3>1, OthersCover
    <3>3. Cardinality(StoredAs(log, f)) \in Nat /\ Matches(traceIndex, f) \in Nat
      BY <1>1, CopiesType, MatchesType
    <3> QED
      BY <2>2, <3>2, <3>3 DEF Covered
  <2>4. SpansHeld'
    <3>1. CASE reported = {}
      BY <2>1, <3>1 DEF ProbeEvent, SpansHeld
    <3>2. CASE reported # {}
      <4>1. PICK s \in KernelSpans : reported = {s}
        BY <2>1, <3>2
      <4> DEFINE c == spanCount
                 R == SpanRing
      <4>2. c \in Nat /\ R \in Nat \ {0}
        BY ServerAssumption DEF SpansHeld
      <4>3. spans' = [spans EXCEPT ![c % R] = s] /\ spanCount' = c + 1
        BY <2>1, <3>2, <4>1 DEF ProbeEvent
      <4>4. spans \in [0 .. R - 1 -> KernelSpans \cup {NoSpan}]
            /\ \A i \in 0 .. c - 1 : spans[i % R] \in KernelSpans
        BY DEF SpansHeld
      <4> HIDE DEF c, R
      <4>5. \A i \in 0 .. c : i % R \in 0 .. R - 1
        BY <4>2
      <4>6. \A i \in 0 .. c : i = c \/ i \in 0 .. c - 1
        BY <4>2
      <4>7. \A i \in 0 .. c : spans'[i % R] \in KernelSpans
        BY <4>3, <4>4, <4>5, <4>6
      <4>8. spans' \in [0 .. R - 1 -> KernelSpans \cup {NoSpan}]
        BY <4>3, <4>4
      <4>9. c + 1 \in Nat /\ 0 .. (c + 1) - 1 = 0 .. c
        BY <4>2
      <4> QED
        BY <4>3, <4>7, <4>8, <4>9 DEF SpansHeld, R
    <3> QED
      BY <3>1, <3>2
  <2> QED
    BY <2>2, <2>3, <2>4 DEF Covered
<1>7. CASE DrainTraceSpans
  <2>1. UNCHANGED kernelVars
    BY <1>7 DEF DrainTraceSpans
  <2>2. ASSUME NEW e
        PROVE  traceIndex' \in Indexes /\ Keeps(e)
    BY <1>1, <1>7, DrainingCovers
  <2> QED
    BY <1>2, <2>1, <2>2 DEF Covered, Keeps
<1>8. CASE ServerRestart
  <2>1. log' = << >> /\ traceIndex' = [t \in Traces |-> << >>]
        /\ spans' = [i \in 0 .. SpanRing - 1 |-> NoSpan] /\ spanCount' = 0
    BY <1>8, ServerAssumption DEF ServerRestart, Restart
  <2>2. SpansHeld'
    BY <2>1 DEF SpansHeld
  <2>3. traceIndex' \in Indexes
        /\ \A e : Cardinality(StoredAs(<< >>, e)) <= Matches(traceIndex', e)
    BY <2>1, EmptyCovers
  <2>4. Covered'
    BY <2>1, <2>3 DEF Covered
  <2> QED
    BY <2>2, <2>3, <2>4
<1> QED
  BY <1>3, <1>4, <1>5, <1>6, <1>7, <1>8, IndexStep

-----------------------------------------------------------------------------
(* The three counts: the facade's, the engine's and the index's.           *)

Tally ==
  /\ backend \in {"native", "v8"}
  /\ facadeCount \in Nat /\ probed \in Nat
  /\ backend = "native" => Len(log) = facadeCount + probed
  /\ backend = "v8" =>
       /\ ready /\ probes = "none"
       /\ probed = 0 /\ spanCount = 0
       /\ facadeCount = Size(traceIndex)

(* What an insertion adds to the history is never negative.                *)
LEMMA InsertionCounts ==
  ASSUME IInv, IInv', NEW batch \in Batches, BatchInsert(batch), NEW c \in Nat, NEW d
  PROVE  /\ c + (Len(log') - Len(log)) \in Nat
         /\ Len(log) = c + d /\ d \in Nat => Len(log') = (c + (Len(log') - Len(log))) + d
<1> DEFINE x == Len(log)
           y == Len(log')
<1>1. x \in Nat /\ y \in Nat /\ x <= y
  BY InsertionGrows
<1> HIDE DEF x, y
<1>2. c + (y - x) \in Nat /\ (x = c + d /\ d \in Nat => y = (c + (y - x)) + d)
  BY <1>1
<1> QED
  BY <1>2 DEF x, y

(* A batch of the facade is counted as far as the store took it.           *)
LEMMA TakingCounts ==
  ASSUME IInv, IInv', traceIndex \in Indexes, Tally,
         NEW events, Batched(events), IngestBatch(events), UNCHANGED <<kernelVars, bootVars>>
  PROVE  Tally'
<1>1. /\ backend' = backend /\ ready' = ready /\ probes' = probes
      /\ probed' = probed /\ spanCount' = spanCount
  BY DEF kernelVars, bootVars
<1>2. CASE backend = "native"
  <2> SUFFICES facadeCount' \in Nat /\ Len(log') = facadeCount' + probed
    BY <1>1, <1>2 DEF Tally
  <2>1. CASE Shreddable(events) = Len(events)
    <3> DEFINE batch == [i \in DOMAIN events |-> events[i].event]
    <3>1. BatchInsert(batch) /\ facadeCount' = facadeCount + (Len(log') - Len(log))
      BY <1>2, <2>1 DEF IngestBatch, IngestNative, CountInserted
    <3>2. batch \in Batches
      BY BatchOfEvents
    <3> HIDE DEF batch
    <3> QED
      BY <1>2, <3>1, <3>2, InsertionCounts DEF Tally
  <2>2. CASE Shreddable(events) # Len(events)
    BY <1>2, <2>2 DEF IngestBatch, IngestNative, engineVars, Tally
  <2> QED
    BY <2>1, <2>2
<1>3. CASE backend = "v8"
  <2> DEFINE n == Len(events)
  <2>1. traceIndex' = IndexEvents(traceIndex, events) /\ facadeCount' = facadeCount + n
    BY <1>3 DEF IngestBatch, IngestMap
  <2>2. n \in Nat /\ n \in 0 .. n /\ SubSeq(events, 1, n) = events
    <3> DEFINE R == [trace : Traces, whole : BOOLEAN, event : Events]
    <3>1. events \in Seq(R)
      BY DEF Batched
    <3> HIDE DEF R
    <3> QED
      BY <3>1, SubSeqFull, LenProperties
  <2>3. Size(IndexEvents(traceIndex, SubSeq(events, 1, n))) = Size(traceIndex) + n
    <3> HIDE DEF n
    <3>1. n \in 0 .. Len(events)
      BY <2>2 DEF n
    <3> QED
      BY <3>1, IndexingAdds
  <2> DEFINE c == facadeCount
             s == Size(traceIndex)
  <2>4. c \in Nat /\ c = s /\ ready /\ probes = "none" /\ probed = 0 /\ spanCount = 0
    BY <1>3 DEF Tally
  <2>5. facadeCount' = c + n /\ Size(traceIndex') = s + n
    BY <2>1, <2>2, <2>3
  <2> HIDE DEF n, c, s
  <2>6. facadeCount' \in Nat /\ facadeCount' = Size(traceIndex')
    BY <2>2, <2>4, <2>5
  <2> QED
    BY <1>1, <1>3, <2>4, <2>6 DEF Tally
<1> QED
  BY <1>2, <1>3 DEF Tally

LEMMA TallyKeeps ==
  IInv /\ IInv' /\ IndexInv /\ Tally /\ [ServerNext]_serverVars => Tally'
<1> SUFFICES ASSUME IInv, IInv', IndexInv, Tally, [ServerNext]_serverVars PROVE Tally'
  OBVIOUS
<1>1. CASE Stands
  BY <1>1 DEF Stands, Tally, facadeVars, kernelVars
<1>2. CASE Takes
  BY <1>2, TakingCounts DEF Takes, IndexInv
<1>3. CASE TakesBinary
  <2>1. PICK batch \in BinaryBatches : PostIngestBinary(batch)
    BY <1>3 DEF TakesBinary
  <2>2. /\ batch \in Batches /\ BatchInsert(batch) /\ backend = "native"
        /\ facadeCount' = facadeCount + (Len(log') - Len(log))
        /\ probed' = probed /\ backend' = backend
    BY <2>1, ServerAssumption DEF PostIngestBinary, kernelVars, bootVars
  <2>3. facadeCount' \in Nat /\ Len(log') = facadeCount' + probed
    BY <2>2, InsertionCounts DEF Tally
  <2> QED
    BY <2>2, <2>3 DEF Tally
<1>4. CASE TakesProbe
  <2>1. PICK e \in ProbeEvents, reported \in { {} } \cup { {s} : s \in KernelSpans } :
          ProbeEvent(e, reported)
    BY <1>4 DEF TakesProbe
  <2> DEFINE b == <<e>>
  <2>2. /\ BatchInsert(b) /\ probes = "attached"
        /\ probed' = probed + (Len(log') - Len(log))
        /\ facadeCount' = facadeCount /\ backend' = backend
    BY <2>1 DEF ProbeEvent, facadeVars, bootVars
  <2>3. backend = "native" /\ b \in Batches
    BY <2>2, ProbeBatch DEF Tally
  <2> HIDE DEF b
  <2> DEFINE p == probed
             f == facadeCount
  <2>4. p \in Nat /\ f \in Nat /\ Len(log) = p + f
    BY <2>3 DEF Tally
  <2> HIDE DEF p, f
  <2>5. p + (Len(log') - Len(log)) \in Nat /\ Len(log') = (p + (Len(log') - Len(log))) + f
    BY <2>2, <2>3, <2>4, InsertionCounts
  <2>6. probed' \in Nat /\ Len(log') = probed' + f
    BY <2>2, <2>5 DEF p
  <2>7. Len(log') = facadeCount' + probed'
    BY <2>2, <2>4, <2>6 DEF f
  <2> QED
    BY <2>2, <2>3, <2>6, <2>7 DEF Tally
<1>5. CASE DrainTraceSpans
  <2>1. /\ log' = log /\ facadeCount' = facadeCount /\ probed' = probed /\ backend' = backend
        /\ backend = "native"
    BY <1>5 DEF DrainTraceSpans, engineVars, kernelVars, bootVars, Tally
  <2> QED
    BY <2>1 DEF Tally
<1>6. CASE ServerRestart
  <2>1. /\ log' = << >> /\ facadeCount' = 0 /\ probed' = 0 /\ spanCount' = 0
        /\ backend' = backend /\ (backend = "v8" => ready' /\ probes' = "none")
        /\ traceIndex' = [t \in Traces |-> << >>]
    BY <1>6, ServerAssumption DEF ServerRestart, Restart
  <2>2. Size(traceIndex') = 0
    BY <2>1, EmptySize
  <2>3. Len(log') = 0
    BY <2>1
  <2> QED
    BY <2>1, <2>2, <2>3 DEF Tally
<1> QED
  BY <1>1, <1>2, <1>3, <1>4, <1>5, <1>6, IndexStep

(* An open query meets no filter.                                          *)
LEMMA OpenGather ==
  ASSUME NEW S, NEW s \in Seq(S), NEW n \in Nat, Len(s) = n, NEW room \in Nat,
         NEW wanted, wanted = 1 .. n
  PROVE  Len(Gather(s, wanted, room)) = Min2(n, room)
<1>1. Cardinality(1 .. n) = n
  <2>1. Cardinality(1 .. n) = IF 1 > n THEN 0 ELSE n - 1 + 1
    BY FS_Interval
  <2> QED
    BY <2>1
<1>2. wanted \in SUBSET (1 .. Len(s))
  OBVIOUS
<1>3. Len(Gather(s, wanted, room)) = Min2(Cardinality(wanted), room)
  BY <1>2, GatherCorrect
<1> QED
  BY <1>1, <1>3

(* The walk of the Map visits every place once.                            *)
LEMMA WalkVisits ==
  ASSUME NEW S, IsFiniteSet(S)
  PROVE  SetToSeq(S) \in [1 .. Cardinality(S) -> S]
<1>1. PICK f : f \in [1 .. Cardinality(S) -> S] /\ IsInjective(f)
  <2> DEFINE n == Cardinality(S)
  <2>1. n \in Nat /\ ExistsBijection(1 .. n, S)
    BY FS_CardinalityType
  <2>2. PICK f : f \in Bijection(1 .. n, S)
    BY <2>1 DEF ExistsBijection
  <2>3. f \in [1 .. n -> S] /\ IsInjective(f)
    BY <2>2 DEF Bijection, Injection, IsInjective
  <2> QED
    BY <2>3
<1> QED
  BY <1>1 DEF SetToSeq

-----------------------------------------------------------------------------
(* The theorems.                                                           *)

THEOREM ServerInvariance == ServerSpec => []ServerInv
<1>1. ServerInit => ServerInv
  <2> SUFFICES ASSUME ServerInit PROVE ServerInv
    OBVIOUS
  <2>1. IInv
    BY InitInvariant DEF ServerInit
  <2>2. log = << >> /\ rules = << >> /\ ready \in BOOLEAN
    BY DEF ServerInit, Init
  <2>3. Len(log) = 0
    BY <2>2
  <2> QED
    BY <2>1, <2>2, <2>3 DEF ServerInv, Booting, Outrun
<1>2. ServerInv /\ [ServerNext]_serverVars => ServerInv'
  BY StoreKeeps, OutrunKeeps DEF ServerInv
<1> QED
  BY <1>1, <1>2, PTL DEF ServerSpec

THEOREM IndexInvariance == ServerSpec => []IndexInv
<1>1. ServerInit => IndexInv
  <2> SUFFICES ASSUME ServerInit PROVE IndexInv
    OBVIOUS
  <2>1. log = << >> /\ traceIndex = [t \in Traces |-> << >>]
        /\ spans = [i \in 0 .. SpanRing - 1 |-> NoSpan] /\ spanCount = 0
    BY DEF ServerInit, Init
  <2>2. SpansHeld
    BY <2>1 DEF SpansHeld
  <2> QED
    BY <2>1, <2>2, EmptyCovers DEF IndexInv, Covered
<1>2. IInv /\ IndexInv /\ [ServerNext]_serverVars => IndexInv'
  BY IndexKeeps
<1>3. ServerInv => IInv
  BY DEF ServerInv
<1> QED
  BY <1>1, <1>2, <1>3, ServerInvariance, PTL DEF ServerSpec

(* Of the events that the rules drop only those of the probes can be in    *)
(* the store: requests wait for the rules, and the rules in force never    *)
(* change once the server is ready.                                        *)
THEOREM OnlyProbesOutrun == ServerSpec => []OnlyProbesOutrunRules
<1>1. ServerInv => OnlyProbesOutrunRules
  BY DEF ServerInv, IInv, TypeOK, Outrun, OnlyProbesOutrunRules
<1> QED
  BY <1>1, ServerInvariance, PTL

(* The engine keeps its promise also when the routes, the probes and the   *)
(* start-up drive it.                                                      *)
THEOREM ServerImplementsEventLog == ServerSpec => ImplementsEventLog
<1>1. ServerInit => Promised!Init
  <2> SUFFICES ASSUME ServerInit PROVE Promised!Init
    OBVIOUS
  <2>1. StoreHead = 0 /\ len = 0
    BY DEF ServerInit, Init, StoreHead
  <2>2. Ordered = << >>
    BY <2>1 DEF Ordered
  <2> QED
    BY <2>1, <2>2 DEF Promised!Init
<1>2. IInv /\ IInv' /\ [ServerNext]_serverVars => [Promised!Next]_(Promised!logVars)
  <2> SUFFICES ASSUME IInv, IInv', [ServerNext]_serverVars
               PROVE  [Promised!Next]_(Promised!logVars)
    OBVIOUS
  <2>1. CASE Rests \/ Serves \/ Probes \/ Restarts
    BY <2>1, StoreSteps, StepRefines
  <2>2. CASE Boots
    <3>1. UNCHANGED <<columns, head, len>>
      BY <2>2 DEF Boots, SetRules, engineVars
    <3> QED
      BY <3>1 DEF Promised!logVars, Ordered, StoreHead, RecordAt
  <2> QED
    BY <2>1, <2>2, EngineStep
<1>3. ServerInv => IInv
  BY DEF ServerInv
<1> QED
  BY <1>1, <1>2, <1>3, ServerInvariance, PTL DEF ServerSpec, ImplementsEventLog, Promised!Spec

(* The tree of a trace that the server sends shows every span that came    *)
(* with the trace once, whatever its parents, except on and below a cycle  *)
(* of parents, and its total duration spans every row.                     *)
THEOREM TreesShowEverySpan == ServerSpec => []TreeShowsEverySpan
<1>1. IndexInv => TreeShowsEverySpan
  <2> SUFFICES ASSUME IndexInv, NEW t \in Traces PROVE ShowsAll(traceIndex[t])
    BY DEF TreeShowsEverySpan, ShowsAll, TraceTree
  <2>1. traceIndex[t] \in Seq(SpanRecords)
    BY DEF IndexInv, Indexes
  <2> QED
    BY <2>1, TraceShown
<1> QED
  BY <1>1, IndexInvariance, PTL

(* Every event that came with a trace and is in the columns can be found   *)
(* in the index of the traces as well, as often as it is stored: the index *)
(* is filled before the engine answers, and the engine drops, refuses and  *)
(* overwrites but never invents.                                           *)
THEOREM IndexCovers == ServerSpec => []IndexCoversStore
<1>1. IInv /\ IndexInv => IndexCoversStore
  <2> SUFFICES ASSUME IInv, IndexInv, NEW e \in Traced
               PROVE  Copies(log, e) <=
                        Cardinality({ k \in Places : Columns(EntryAt(traceIndex, k)) = e })
    BY DEF IndexCoversStore, Traced
  <2>1. DOMAIN log = 1 .. Len(log)
    BY DEF IInv, TypeOK
  <2>2. Copies(log, e) = Cardinality(StoredAs(log, e))
    BY <2>1 DEF Copies, StoredAs
  <2> QED
    BY <2>2 DEF IndexInv, Covered, Matches, PlacesWith, Places
<1>2. ServerInv => IInv
  BY DEF ServerInv
<1> QED
  BY <1>1, <1>2, ServerInvariance, IndexInvariance, PTL

THEOREM TallyInvariance == ServerSpec => []Tally
<1>1. ServerInit => Tally
  <2> SUFFICES ASSUME ServerInit PROVE Tally
    OBVIOUS
  <2>1. /\ log = << >> /\ facadeCount = 0 /\ probed = 0 /\ spanCount = 0
        /\ backend \in {"native", "v8"} /\ (backend = "v8" => ready /\ probes = "none")
        /\ traceIndex = [t \in Traces |-> << >>]
    BY DEF ServerInit, Init
  <2>2. Size(traceIndex) = 0
    BY <2>1, EmptySize
  <2>3. Len(log) = 0
    BY <2>1
  <2> QED
    BY <2>1, <2>2, <2>3 DEF Tally
<1>2. IInv /\ IInv' /\ IndexInv /\ Tally /\ [ServerNext]_serverVars => Tally'
  BY TallyKeeps
<1>3. ServerInv => IInv
  BY DEF ServerInv
<1> QED
  BY <1>1, <1>2, <1>3, ServerInvariance, IndexInvariance, PTL DEF ServerSpec

(* The facade's count and the events of the probes are together what an    *)
(* open query returns, up to its limit, whatever was dropped, refused or   *)
(* abandoned half way; and of a Map store the count is what is in it.      *)
THEOREM CountsAreRight == ServerSpec => []CountsAgree
<1>1. IInv /\ IndexInv /\ Tally => CountsAgree
  <2> SUFFICES ASSUME IInv, IndexInv, Tally PROVE CountsAgree
    OBVIOUS
  <2> DEFINE total == facadeCount + probed
  <2>1. total \in Nat
    BY DEF Tally
  <2>2. \A e : Wanted(e, 0, 0, FALSE)
    BY DEF Wanted
  <2>3. Min2(total, DefaultLimit) = Min2(DefaultLimit, total) /\ DefaultLimit \in Nat
    <3> HIDE DEF total
    <3> QED
      BY <2>1 DEF Min2, DefaultLimit
  <2>4. CASE backend = "native"
    <3>1. Len(log) = total /\ len = total
      BY <2>4, ServerAssumption DEF Tally, IInv, HeaderAgrees, StoreHead
    <3> HIDE DEF total
    <3> DEFINE read == { Ordered[i] : i \in 1 .. total }
    <3>2. Ordered \in Seq(read) /\ Len(Ordered) = total
      <4>1. Ordered \in [1 .. total -> read]
        BY <3>1 DEF Ordered
      <4> HIDE DEF read
      <4> QED
        BY <2>1, <4>1
    <3> HIDE DEF read
    <3>3. { i \in 1 .. len : Wanted(Ordered[i], 0, 0, FALSE) } = 1 .. total
      BY <2>2, <3>1
    <3>4. Min2(DefaultLimit, NativeLimit) = DefaultLimit
      BY DEF Min2, DefaultLimit, NativeLimit
    <3>5. Query(0, 0, FALSE, DefaultLimit) =
            Gather(Ordered, { i \in 1 .. len : Wanted(Ordered[i], 0, 0, FALSE) }, DefaultLimit)
      BY <2>4, <3>4 DEF Query, Scan
    <3> HIDE DEF DefaultLimit
    <3> DEFINE wanted == { i \in 1 .. len : Wanted(Ordered[i], 0, 0, FALSE) }
    <3>6. wanted = 1 .. total
      BY <3>3
    <3> HIDE DEF wanted
    <3>7. Len(Gather(Ordered, wanted, DefaultLimit)) = Min2(total, DefaultLimit)
      BY <2>1, <2>3, <3>2, <3>6, OpenGather
    <3>8. Len(Query(0, 0, FALSE, DefaultLimit)) = Min2(total, DefaultLimit)
      BY <3>5, <3>7 DEF wanted
    <3> QED
      BY <2>3, <3>8 DEF CountsAgree, total
  <2>5. CASE backend = "v8"
    <3> DEFINE order == SetToSeq(Places)
               all == [k \in DOMAIN order |-> Columns(EntryAt(traceIndex, order[k]))]
               wanted == { k \in DOMAIN all : Wanted(all[k], 0, 0, FALSE) }
    <3>1. IsFiniteSet(Places) /\ Cardinality(Places) = total
      BY <2>5, PlacesFinite DEF IndexInv, Tally, Places, Size
    <3> HIDE DEF total
    <3>2. DOMAIN order = 1 .. total
      BY <3>1, WalkVisits
    <3> HIDE DEF order
    <3>3. all \in [1 .. total -> { all[k] : k \in 1 .. total }]
      BY <3>2
    <3>4. wanted = 1 .. total
      BY <2>2, <3>2
    <3>5. Query(0, 0, FALSE, DefaultLimit) = Gather(all, wanted, DefaultLimit)
      BY <2>5 DEF Query, QueryMap, order
    <3> HIDE DEF all, wanted, DefaultLimit
    <3>6. all \in Seq({ all[k] : k \in 1 .. total }) /\ Len(all) = total
      BY <2>1, <3>3
    <3>7. Len(Gather(all, wanted, DefaultLimit)) = Min2(total, DefaultLimit)
      BY <2>1, <2>3, <3>4, <3>6, OpenGather
    <3>8. Len(Query(0, 0, FALSE, DefaultLimit)) = Min2(total, DefaultLimit)
      BY <3>5, <3>7
    <3> QED
      BY <2>3, <3>8 DEF CountsAgree, total
  <2> QED
    BY <2>4, <2>5 DEF Tally
<1>2. ServerInv => IInv
  BY DEF ServerInv
<1> QED
  BY <1>1, <1>2, ServerInvariance, IndexInvariance, TallyInvariance, PTL
=============================================================================

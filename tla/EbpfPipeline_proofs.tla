------------------------- MODULE EbpfPipeline_proofs -------------------------
(***************************************************************************)
(* What the topology, the drop counters and the span index keep, for every *)
(* set of calls, every size of the rings and every limit of the tables.    *)
(***************************************************************************)
EXTENDS EbpfPipeline, FiniteSetTheorems, SequenceTheorems, WellFoundedInduction, TLAPS

(* The least and the greatest element that the searches choose.            *)
LEMMA LeastExists ==
  ASSUME NEW m \in SUBSET Nat, m # {}
  PROVE  \E i \in m : \A j \in m : i <= j
<1>1. PICK i \in m : \A j \in m : ~(<<j, i>> \in OpToRel(<, Nat))
  BY NatLessThanWellFounded, WFMin
<1>2. \A j \in m : ~(j < i)
  BY <1>1 DEF OpToRel
<1> QED
  BY <1>2

LEMMA GreatestExists ==
  ASSUME NEW n \in Nat, NEW m \in SUBSET (1 .. n), m # {}
  PROVE  \E i \in m : \A j \in m : i >= j
<1> DEFINE d == { n - i : i \in m }
<1>1. d \in SUBSET Nat /\ d # {}
  <2>1. \A i \in m : n - i \in Nat
    OBVIOUS
  <2>2. d \in SUBSET Nat
    BY <2>1
  <2>3. d # {}
    OBVIOUS
  <2> QED
    BY <2>2, <2>3
<1>2. PICK k \in d : \A l \in d : k <= l
  BY <1>1, LeastExists
<1>3. PICK i \in m : k = n - i
  OBVIOUS
<1>4. \A j \in m : n - i <= n - j
  BY <1>2, <1>3
<1> QED
  BY <1>4

-----------------------------------------------------------------------------
(* The table of edges.                                                     *)

LEMMA FindEdgeFinds ==
  ASSUME NEW es, Len(es) \in Nat, NEW e, NEW container
  PROVE  LET i == FindEdge(es, e, container)
             m == Matching(es, e, container)
         IN  \/ i = 0 /\ m = {}
             \/ i \in m /\ i > 0 /\ i <= Len(es) /\ \A j \in m : i <= j
<1> DEFINE m == Matching(es, e, container)
<1>1. m \in SUBSET Nat /\ \A i \in m : i > 0 /\ i <= Len(es)
  BY DEF Matching
<1>2. CASE m = {}
  BY <1>2 DEF FindEdge
<1>3. CASE m # {}
  <2>1. \E i \in m : \A j \in m : i <= j
    BY <1>1, <1>3, LeastExists
  <2>2. FindEdge(es, e, container) = CHOOSE i \in m : \A j \in m : i <= j
    BY <1>3 DEF FindEdge
  <2> QED
    BY <1>1, <2>1, <2>2
<1> QED
  BY <1>2, <1>3

(* Who an edge stands for; the rest of an edge is counts.                  *)
SameIdentity(edge, other) ==
  /\ edge.comm = other.comm /\ edge.container = other.container
  /\ edge.src = other.src /\ edge.dst = other.dst

(* A table that a step may leave behind.                                   *)
Grows(es, later) ==
  /\ Len(es) \in Nat /\ Len(later) \in Nat /\ Len(es) <= Len(later)
  /\ \A i \in 1 .. Len(es) : SameIdentity(es[i], later[i])

LEMMA GrownMatches ==
  ASSUME NEW es, NEW later, Grows(es, later), NEW e, NEW container
  PROVE  \A i \in 1 .. Len(es) :
           i \in Matching(es, e, container) <=> i \in Matching(later, e, container)
BY DEF Grows, Matching, EdgeMatches, SameIdentity

(* An edge that is found stays the one that is found.                      *)
LEMMA GrownFinds ==
  ASSUME NEW es, NEW later, Grows(es, later), NEW e, NEW container,
         FindEdge(es, e, container) # 0
  PROVE  FindEdge(later, e, container) = FindEdge(es, e, container)
<1> DEFINE i == FindEdge(es, e, container)
           k == FindEdge(later, e, container)
           m == Matching(es, e, container)
           n == Matching(later, e, container)
<1>1. i \in m /\ i \in 1 .. Len(es) /\ \A j \in m : i <= j
  BY FindEdgeFinds DEF Grows, Matching
<1>2. i \in n
  BY <1>1, GrownMatches
<1>3. k \in n /\ k > 0 /\ k <= Len(later) /\ k \in Nat /\ k <= i
  BY <1>1, <1>2, FindEdgeFinds DEF Grows, Matching
<1>4. k \in 1 .. Len(es)
  BY <1>1, <1>3 DEF Grows
<1>5. k \in m
  BY <1>3, <1>4, GrownMatches
<1> QED
  BY <1>1, <1>3, <1>5

(* In a table that has not grown, every identity finds what it found.      *)
LEMMA SameFinds ==
  ASSUME NEW es, NEW later, Grows(es, later), Len(later) = Len(es), NEW e, NEW container
  PROVE  FindEdge(later, e, container) = FindEdge(es, e, container)
<1> DEFINE m == Matching(es, e, container)
           n == Matching(later, e, container)
<1>1. m \subseteq 1 .. Len(es) /\ n \subseteq 1 .. Len(es)
  BY DEF Matching
<1>2. \A i \in 1 .. Len(es) : i \in m <=> i \in n
  BY GrownMatches
<1>3. m = n
  <2> HIDE DEF m, n
  <2> QED
    BY <1>1, <1>2
<1> QED
  BY <1>3 DEF FindEdge

(* A table of edges within its limit.                                      *)
EdgesOK(es) == es \in Seq(Edges) /\ Len(es) <= MaxEdges

NoTwinsIn(es) == \A i, j \in 1 .. Len(es) : i < j => ~Twins(es[i], es[j])

LEMMA NewEdgeType ==
  ASSUME NEW e \in Events, NEW container \in Containers
  PROVE  NewEdge(e, container) \in Edges
BY DEF NewEdge, Edges, Events

LEMMA CreateEdgeKeeps ==
  ASSUME EdgesOK(edges), NEW e \in Events, NEW container \in Containers
  PROVE  /\ EdgesOK(CreateEdge(e, container))
         /\ Grows(edges, CreateEdge(e, container))
         /\ NoTwinsIn(edges) => NoTwinsIn(CreateEdge(e, container))
<1> DEFINE es == CreateEdge(e, container)
           new == NewEdge(e, container)
<1>1. CASE FindEdge(edges, e, container) = 0 /\ Len(edges) < MaxEdges
  <2>1. es = Append(edges, new)
    BY <1>1 DEF CreateEdge
  <2>2. new \in Edges
    BY NewEdgeType
  <2>3. /\ Len(edges) \in Nat
        /\ es \in Seq(Edges)
        /\ Len(es) = Len(edges) + 1
        /\ \A i \in 1 .. Len(edges) : es[i] = edges[i]
        /\ es[Len(edges) + 1] = new
    BY <2>1, <2>2, AppendProperties, LenProperties DEF EdgesOK
  <2>4. Matching(edges, e, container) = {}
    BY <1>1, <2>3, FindEdgeFinds
  <2>5. \A i \in 1 .. Len(edges) : ~Twins(es[i], new)
    BY <2>3, <2>4 DEF Matching, Twins, NewEdge
  <2>6. EdgesOK(es)
    BY <1>1, <2>3, EbpfAssumption DEF EdgesOK
  <2>7. Grows(edges, es)
    BY <2>3 DEF Grows, SameIdentity
  <2>8. ASSUME NoTwinsIn(edges), NEW i \in 1 .. Len(es), NEW j \in 1 .. Len(es), i < j
        PROVE  ~Twins(es[i], es[j])
    <3>1. CASE j = Len(edges) + 1
      BY <2>3, <2>5, <2>8, <3>1
    <3>2. CASE j # Len(edges) + 1
      BY <2>3, <2>8, <3>2 DEF NoTwinsIn
    <3> QED
      BY <3>1, <3>2
  <2> QED
    BY <2>6, <2>7, <2>8 DEF NoTwinsIn
<1>2. CASE ~(FindEdge(edges, e, container) = 0 /\ Len(edges) < MaxEdges)
  <2>1. es = edges
    BY <1>2 DEF CreateEdge
  <2> QED
    BY <2>1, LenProperties DEF EdgesOK, Grows, SameIdentity
<1> QED
  BY <1>1, <1>2

LEMMA CountOnKeeps ==
  ASSUME NEW es, EdgesOK(es), NEW e \in Events, e.kind \in EdgeKinds, NEW container
  PROVE  /\ EdgesOK(CountOn(es, e, container))
         /\ Grows(es, CountOn(es, e, container))
         /\ Len(CountOn(es, e, container)) = Len(es)
<1> DEFINE i == FindEdge(es, e, container)
           later == CountOn(es, e, container)
<1>0. Len(es) \in Nat
  BY LenProperties DEF EdgesOK
<1>1. CASE i = 0
  <2>1. later = es
    BY <1>1 DEF CountOn
  <2> QED
    BY <1>0, <2>1 DEF Grows, SameIdentity
<1>2. CASE i # 0
  <2> DEFINE hits == es[i].count
             counted == [es[i] EXCEPT !.count = [hits EXCEPT ![e.kind] = hits[e.kind] + 1]]
  <2>1. i \in 1 .. Len(es)
    BY <1>0, <1>2, FindEdgeFinds DEF Matching
  <2>2. later = [es EXCEPT ![i] = counted]
    BY <1>2, <2>1 DEF CountOn
  <2>3. es[i] \in Edges
    BY <2>1, ElementOfSeq DEF EdgesOK
  <2>4. counted \in Edges /\ SameIdentity(es[i], counted)
    BY <2>3 DEF Edges, SameIdentity
  <2>5. /\ later \in Seq(Edges)
        /\ Len(later) = Len(es)
        /\ \A j \in 1 .. Len(es) : later[j] = IF j = i THEN counted ELSE es[j]
    <3> HIDE DEF counted, i, later
    <3> QED
      BY <2>1, <2>2, <2>4, ExceptSeq DEF EdgesOK
  <2>6. \A j \in 1 .. Len(es) : SameIdentity(es[j], later[j])
    BY <2>4, <2>5 DEF SameIdentity
  <2> QED
    BY <1>0, <2>5, <2>6 DEF EdgesOK, Grows
<1> QED
  BY <1>1, <1>2

(* Whether two edges are twins is a matter of who they stand for.          *)
LEMMA GrownTwins ==
  ASSUME NEW es, NEW later, Grows(es, later), Len(later) = Len(es), NoTwinsIn(es)
  PROVE  NoTwinsIn(later)
BY DEF NoTwinsIn, Grows, SameIdentity, Twins, EdgeMatches

LEMMA CountKeeps ==
  ASSUME EdgesOK(edges), NEW e \in Events, NEW container \in Containers
  PROVE  /\ EdgesOK(Count(e, container))
         /\ Grows(edges, Count(e, container))
         /\ NoTwinsIn(edges) => NoTwinsIn(Count(e, container))
<1>1. CASE e.kind \notin EdgeKinds \/ ~Addressed(e)
  BY <1>1, LenProperties DEF Count, EdgesOK, Grows, SameIdentity
<1>2. CASE e.kind = "connected" /\ Addressed(e)
  <2> DEFINE es == CreateEdge(e, container)
             later == CountOn(es, e, container)
  <2>1. e.kind \in EdgeKinds /\ Count(e, container) = later
    BY <1>2 DEF Count, EdgeKinds
  <2>2. EdgesOK(es) /\ Grows(edges, es) /\ (NoTwinsIn(edges) => NoTwinsIn(es))
    BY CreateEdgeKeeps
  <2>3. EdgesOK(later) /\ Grows(es, later) /\ Len(later) = Len(es)
    BY <2>1, <2>2, CountOnKeeps
  <2>4. Grows(edges, later)
    BY <2>2, <2>3 DEF Grows, SameIdentity
  <2> QED
    BY <2>1, <2>2, <2>3, <2>4, GrownTwins
<1>3. CASE e.kind \in EdgeKinds /\ e.kind # "connected" /\ Addressed(e)
  <2>1. Count(e, container) = CountOn(edges, e, container)
    BY <1>3 DEF Count
  <2> QED
    BY <1>3, <2>1, CountOnKeeps, GrownTwins
<1> QED
  BY <1>1, <1>2, <1>3

-----------------------------------------------------------------------------
(* The sum of a count over a table.                                        *)

(* The equation of the function `upto' of SumOf.                           *)
SumUpTo(upto, es, kind, n) ==
  upto = [i \in 0 .. n |-> IF i = 0 THEN 0 ELSE upto[i - 1] + es[i].count[kind]]

LEMMA SumRuns ==
  ASSUME NEW es, NEW kind, NEW n \in Nat
  PROVE  \E upto : SumUpTo(upto, es, kind, n)
<1> DEFINE Solved(m) == \E upto : SumUpTo(upto, es, kind, m)
           bad == { m \in Nat : ~Solved(m) }
<1> SUFFICES ASSUME bad # {} PROVE FALSE
  OBVIOUS
<1>1. PICK m \in bad : \A k \in bad : m <= k
  <2>1. bad \in SUBSET Nat
    OBVIOUS
  <2> HIDE DEF bad
  <2> QED
    BY <2>1, LeastExists
<1>2. CASE m = 0
  <2> DEFINE one == [i \in 0 .. 0 |-> 0]
  <2>1. SumUpTo(one, es, kind, 0)
    BY DEF SumUpTo
  <2> QED
    BY <1>2, <2>1
<1>3. CASE m # 0
  <2>1. m - 1 \in Nat /\ ~(m <= m - 1) /\ m \in Nat
    BY <1>3
  <2>2. PICK upto : SumUpTo(upto, es, kind, m - 1)
    BY <1>1, <2>1
  <2> DEFINE last == upto[m - 1] + es[m].count[kind]
             more == [i \in 0 .. m |-> IF i = m THEN last ELSE upto[i]]
  <2>3. \A i \in 0 .. m - 1 : more[i] = upto[i]
    BY <2>1
  <2>4. more[m] = last /\ m - 1 \in 0 .. m - 1
    BY <2>1
  <2>5. ASSUME NEW i \in 0 .. m
        PROVE  more[i] = IF i = 0 THEN 0 ELSE more[i - 1] + es[i].count[kind]
    <3>1. CASE i = m
      BY <1>3, <2>3, <2>4, <3>1
    <3>2. CASE i # m
      <4>1. i \in 0 .. m - 1 /\ (i # 0 => i - 1 \in 0 .. m - 1)
        BY <2>1, <3>2
      <4>2. upto[i] = IF i = 0 THEN 0 ELSE upto[i - 1] + es[i].count[kind]
        BY <2>2, <4>1 DEF SumUpTo
      <4> HIDE DEF more
      <4> QED
        BY <2>3, <4>1, <4>2
    <3> QED
      BY <3>1, <3>2
  <2>6. more = [i \in 0 .. m |-> more[i]]
    OBVIOUS
  <2> HIDE DEF more
  <2>7. SumUpTo(more, es, kind, m)
    BY <2>5, <2>6 DEF SumUpTo
  <2> QED
    BY <2>7
<1> QED
  BY <1>2, <1>3

(* What the partial sums of a table are, one by one.                       *)
LEMMA SumSteps ==
  ASSUME NEW es, Len(es) \in Nat, NEW kind
  PROVE  \E upto : /\ SumOf(es, kind) = upto[Len(es)]
                   /\ upto[0] = 0
                   /\ \A i \in 1 .. Len(es) : upto[i] = upto[i - 1] + es[i].count[kind]
<1> DEFINE n == Len(es)
           f == CHOOSE upto : SumUpTo(upto, es, kind, n)
<1>1. n \in Nat /\ SumUpTo(f, es, kind, n)
  BY SumRuns
<1>2. SumOf(es, kind) = f[n]
  BY DEF SumOf, SumUpTo
<1> HIDE DEF f, n
<1>3. \A i \in 0 .. n : f[i] = IF i = 0 THEN 0 ELSE f[i - 1] + es[i].count[kind]
  BY <1>1 DEF SumUpTo
<1>4. 0 \in 0 .. n /\ \A i \in 1 .. n : i \in 0 .. n /\ i # 0
  BY <1>1
<1>5. f[0] = 0 /\ \A i \in 1 .. n : f[i] = f[i - 1] + es[i].count[kind]
  BY <1>3, <1>4
<1> QED
  BY <1>2, <1>5 DEF n

(* A table that counts `more' on edge j, and otherwise what it counted:    *)
(* edges it did not have count nothing.                                    *)
LEMMA SumGrows ==
  ASSUME NEW es \in Seq(Edges), NEW later \in Seq(Edges), NEW kind \in EdgeKinds,
         Len(es) <= Len(later), NEW j \in 1 .. Len(later), NEW more \in Nat,
         \A i \in 1 .. Len(later) :
           later[i].count[kind] =
             (IF i <= Len(es) THEN es[i].count[kind] ELSE 0) + (IF i = j THEN more ELSE 0)
  PROVE  SumOf(es, kind) \in Nat /\ SumOf(later, kind) = SumOf(es, kind) + more
<1> DEFINE n == Len(es)
           l == Len(later)
           c(i) == es[i].count[kind]
           d(i) == later[i].count[kind]
<1>1. n \in Nat /\ l \in Nat /\ n <= l /\ j \in Nat /\ 1 <= j /\ j <= l
  BY LenProperties
<1>2. \A i \in 1 .. n : c(i) \in Nat
  <2>1. ASSUME NEW i \in 1 .. Len(es)
        PROVE  es[i].count[kind] \in Nat
    <3>1. es[i] \in Edges
      BY ElementOfSeq
    <3> QED
      BY <3>1 DEF Edges
  <2> QED
    BY <2>1
<1>3. PICK f : /\ SumOf(es, kind) = f[n]
               /\ f[0] = 0
               /\ \A i \in 1 .. n : f[i] = f[i - 1] + c(i)
  BY <1>1, SumSteps
<1>4. PICK g : /\ SumOf(later, kind) = g[l]
               /\ g[0] = 0
               /\ \A i \in 1 .. l : g[i] = g[i - 1] + d(i)
  BY <1>1, SumSteps
<1>5. \A i \in 1 .. l : d(i) = (IF i <= n THEN c(i) ELSE 0) + (IF i = j THEN more ELSE 0)
  OBVIOUS
<1> HIDE DEF n, l, c, d
<1> DEFINE Upto(i) == IF i <= n THEN f[i] ELSE f[n]
           Right(i) == /\ Upto(i) \in Nat
                       /\ g[i] = Upto(i) + (IF j <= i THEN more ELSE 0)
           bad == { i \in 0 .. l : ~Right(i) }
<1>6. bad = {}
  <2> SUFFICES ASSUME bad # {} PROVE FALSE
    OBVIOUS
  <2>1. PICK m \in bad : \A k \in bad : m <= k
    <3>1. bad \in SUBSET Nat
      OBVIOUS
    <3> HIDE DEF bad
    <3> QED
      BY <3>1, LeastExists
  <2>2. m \in 0 .. l /\ ~Right(m) /\ \A k \in 0 .. l : k < m => Right(k)
    <3>1. m \in 0 .. l /\ ~Right(m)
      OBVIOUS
    <3>2. ASSUME NEW k \in 0 .. l, k < m, ~Right(k) PROVE FALSE
      <4>1. k \in bad
        BY <3>2
      <4>2. m <= k
        BY <2>1, <4>1
      <4> QED
        BY <3>1, <3>2, <4>2
    <3> QED
      BY <3>1, <3>2
  <2>3. CASE m = 0
    BY <1>1, <1>3, <1>4, <2>2, <2>3
  <2>4. CASE m # 0
    <3>1. m \in 1 .. l /\ m - 1 \in 0 .. l /\ m - 1 < m
      BY <1>1, <2>2, <2>4
    <3>2. Right(m - 1) /\ g[m] = g[m - 1] + d(m)
      BY <1>4, <2>2, <3>1
    <3>3. d(m) = (IF m <= n THEN c(m) ELSE 0) + (IF m = j THEN more ELSE 0)
      BY <1>5, <3>1
    <3>4. Upto(m) = Upto(m - 1) + (IF m <= n THEN c(m) ELSE 0) /\ Upto(m) \in Nat
      <4>1. CASE m <= n
        <5>1. m \in 1 .. n /\ m - 1 <= n
          BY <1>1, <3>1, <4>1
        <5>2. f[m] = f[m - 1] + c(m) /\ c(m) \in Nat
          BY <1>2, <1>3, <5>1
        <5>3. f[m - 1] \in Nat
          BY <3>2, <5>1
        <5> QED
          BY <4>1, <5>1, <5>2, <5>3
      <4>2. CASE ~(m <= n)
        <5>1. m - 1 = n \/ ~(m - 1 <= n)
          <6>1. m \in Nat /\ n \in Nat
            BY <1>1, <3>1
          <6> HIDE DEF Upto, bad
          <6> QED
            BY <4>2, <6>1
        <5>2. Upto(m) = Upto(m - 1) /\ Upto(m - 1) \in Nat
          BY <3>2, <4>2, <5>1
        <5> QED
          BY <4>2, <5>2
      <4> QED
        BY <4>1, <4>2
    <3> DEFINE u == Upto(m)  v == Upto(m - 1)  x == IF m <= n THEN c(m) ELSE 0
    <3>5. x \in Nat
      BY <1>1, <1>2, <3>1
    <3>6. v \in Nat /\ g[m - 1] = v + (IF j <= m - 1 THEN more ELSE 0)
      BY <3>2
    <3>7. u = v + x /\ u \in Nat /\ g[m] = g[m - 1] + (x + (IF m = j THEN more ELSE 0))
      BY <3>2, <3>3, <3>4
    <3>8. ~(u \in Nat /\ g[m] = u + (IF j <= m THEN more ELSE 0))
      BY <2>2
    <3> HIDE DEF u, v, x
    <3> QED
      BY <1>1, <3>1, <3>5, <3>6, <3>7, <3>8
  <2> QED
    BY <2>3, <2>4
<1>7. Right(n) /\ Right(l)
  <2>1. n \in 0 .. l /\ l \in 0 .. l
    BY <1>1
  <2> HIDE DEF Right
  <2> QED
    BY <1>6, <2>1
<1>8. Upto(n) = f[n] /\ Upto(l) = f[n]
  BY <1>1
<1> QED
  BY <1>1, <1>3, <1>4, <1>7, <1>8

LEMMA SumType ==
  ASSUME NEW es \in Seq(Edges), NEW kind \in EdgeKinds
  PROVE  SumOf(es, kind) \in Nat
<1>1. Len(es) \in Nat
  BY LenProperties
<1>2. CASE Len(es) = 0
  BY <1>1, <1>2, SumSteps
<1>3. CASE Len(es) # 0
  <2>1. 1 \in 1 .. Len(es) /\ Len(es) <= Len(es)
    BY <1>1, <1>3
  <2>2. ASSUME NEW i \in 1 .. Len(es)
        PROVE  es[i].count[kind] =
                 (IF i <= Len(es) THEN es[i].count[kind] ELSE 0) + (IF i = 1 THEN 0 ELSE 0)
    <3>1. es[i] \in Edges /\ i <= Len(es)
      BY <1>1, ElementOfSeq
    <3>2. es[i].count[kind] \in Nat
      BY <3>1 DEF Edges
    <3> QED
      BY <3>1, <3>2
  <2>3. 0 \in Nat
    OBVIOUS
  <2> QED
    BY <2>1, <2>2, <2>3, SumGrows
<1> QED
  BY <1>2, <1>3

(* An edge that is made has counted nothing yet and matches the event it   *)
(* is made for; none is made for an event that has no edge only when the   *)
(* table is full.                                                          *)
LEMMA CreatedSums ==
  ASSUME EdgesOK(edges), NEW e \in Events, NEW container \in Containers
  PROVE  LET es == CreateEdge(e, container)
             i  == FindEdge(es, e, container)
         IN  /\ \A kind \in EdgeKinds : SumOf(es, kind) = SumOf(edges, kind)
             /\ i = 0 => es = edges /\ Len(edges) = MaxEdges
             /\ Len(edges) <= Len(es)
             /\ \A j \in 1 .. Len(es) : j # i => j \in 1 .. Len(edges) /\ es[j] = edges[j]
             /\ \A j \in 1 .. Len(es) :
                  \/ j \in 1 .. Len(edges) /\ es[j] = edges[j]
                  \/ j \notin 1 .. Len(edges) /\ es[j].count["connected"] = 0
<1> DEFINE es == CreateEdge(e, container)
           i == FindEdge(es, e, container)
           new == NewEdge(e, container)
<1>0. edges \in Seq(Edges) /\ Len(edges) \in Nat /\ Len(edges) <= MaxEdges /\ MaxEdges \in Nat
  BY LenProperties, EbpfAssumption DEF EdgesOK
<1>1. CASE FindEdge(edges, e, container) = 0 /\ Len(edges) < MaxEdges
  <2>1. es = Append(edges, new) /\ new \in Edges
    BY <1>1, NewEdgeType DEF CreateEdge
  <2>2. /\ es \in Seq(Edges)
        /\ Len(es) = Len(edges) + 1
        /\ \A j \in 1 .. Len(edges) : es[j] = edges[j]
        /\ es[Len(edges) + 1] = new
    BY <1>0, <2>1, AppendProperties
  <2> HIDE DEF es, new
  <2>3. \A kind \in EdgeKinds : SumOf(es, kind) = SumOf(edges, kind)
    <3> SUFFICES ASSUME NEW kind \in EdgeKinds
                 PROVE  SumOf(es, kind) = SumOf(edges, kind)
      OBVIOUS
    <3>1. ASSUME NEW j \in 1 .. Len(es)
          PROVE  es[j].count[kind] =
                   (IF j <= Len(edges) THEN edges[j].count[kind] ELSE 0)
                     + (IF j = Len(edges) + 1 THEN 0 ELSE 0)
      <4>1. CASE j <= Len(edges)
        <5>1. j \in 1 .. Len(edges)
          BY <1>0, <2>2, <4>1
        <5>2. es[j] = edges[j] /\ edges[j] \in Edges
          BY <1>0, <2>2, <5>1, ElementOfSeq
        <5>3. edges[j].count[kind] \in Nat
          BY <5>2 DEF Edges
        <5> QED
          BY <4>1, <5>2, <5>3
      <4>2. CASE ~(j <= Len(edges))
        <5>1. j = Len(edges) + 1
          BY <1>0, <2>2, <4>2
        <5>2. es[j].count[kind] = 0
          BY <2>2, <5>1 DEF new, NewEdge
        <5> QED
          BY <4>2, <5>2
      <4> QED
        BY <4>1, <4>2
    <3>2. Len(edges) <= Len(es) /\ Len(edges) + 1 \in 1 .. Len(es) /\ 0 \in Nat
      BY <1>0, <2>2
    <3>3. SumOf(es, kind) = SumOf(edges, kind) + 0 /\ SumOf(edges, kind) \in Nat
      BY <1>0, <2>2, <3>1, <3>2, SumGrows
    <3> QED
      BY <3>3
  <2>4. Matching(edges, e, container) = {}
    BY <1>0, <1>1, FindEdgeFinds
  <2>5. Len(edges) + 1 \in Matching(es, e, container)
    <3>1. EdgeMatches(new, e.comm, container, e.src, e.dst)
      BY DEF EdgeMatches, new, NewEdge
    <3>2. Len(edges) + 1 \in 1 .. Len(es)
      BY <1>0, <2>2
    <3> QED
      BY <2>2, <3>1, <3>2 DEF Matching
  <2>6. \A j \in 1 .. Len(edges) : j \notin Matching(es, e, container)
    BY <1>0, <2>2, <2>4 DEF Matching
  <2>7. i = Len(edges) + 1
    <3>1. Len(es) \in Nat
      BY <1>0, <2>2
    <3>2. i \in Matching(es, e, container) /\ i > 0 /\ i <= Len(es)
      BY <2>5, <3>1, FindEdgeFinds
    <3>3. i \in Nat
      BY <3>1, <3>2 DEF Matching
    <3>4. i \notin 1 .. Len(edges)
      BY <2>6, <3>2
    <3> HIDE DEF i
    <3> QED
      BY <1>0, <2>2, <3>2, <3>3, <3>4
  <2>8. \A j \in 1 .. Len(es) : j # i => j \in 1 .. Len(edges) /\ es[j] = edges[j]
    <3> HIDE DEF i
    <3> QED
      BY <1>0, <2>2, <2>7
  <2>9. i # 0 /\ Len(edges) <= Len(es)
    <3> HIDE DEF i
    <3> QED
      BY <1>0, <2>2, <2>7
  <2>10. ASSUME NEW j \in 1 .. Len(es)
         PROVE  \/ j \in 1 .. Len(edges) /\ es[j] = edges[j]
                \/ j \notin 1 .. Len(edges) /\ es[j].count["connected"] = 0
    <3>1. es[Len(edges) + 1].count["connected"] = 0
      BY <2>2 DEF new, NewEdge, EdgeKinds
    <3>2. j \in 1 .. Len(edges) \/ j = Len(edges) + 1
      BY <1>0, <2>2
    <3>3. Len(edges) + 1 \notin 1 .. Len(edges)
      BY <1>0
    <3> QED
      BY <2>2, <3>1, <3>2, <3>3
  <2> QED
    BY <2>3, <2>8, <2>9, <2>10 DEF es
<1>2. CASE ~(FindEdge(edges, e, container) = 0 /\ Len(edges) < MaxEdges)
  <2>1. es = edges
    BY <1>2 DEF CreateEdge
  <2>2. i = 0 => Len(edges) = MaxEdges
    BY <1>0, <1>2, <2>1
  <2> QED
    BY <1>0, <2>1, <2>2
<1> QED
  BY <1>1, <1>2

LEMMA CountedSums ==
  ASSUME NEW es, EdgesOK(es), NEW e \in Events, e.kind \in EdgeKinds, NEW container
  PROVE  LET later == CountOn(es, e, container)
             i     == FindEdge(es, e, container)
         IN  /\ \A kind \in EdgeKinds :
                  SumOf(later, kind) =
                    IF i # 0 /\ kind = e.kind THEN SumOf(es, kind) + 1 ELSE SumOf(es, kind)
             /\ \A j \in 1 .. Len(es), kind \in EdgeKinds :
                  later[j].count[kind] =
                    IF j = i /\ kind = e.kind
                    THEN es[j].count[kind] + 1 ELSE es[j].count[kind]
<1> DEFINE i == FindEdge(es, e, container)
           later == CountOn(es, e, container)
<1>0. es \in Seq(Edges) /\ Len(es) \in Nat
  BY LenProperties DEF EdgesOK
<1>1. CASE i = 0
  <2>1. later = es
    BY <1>1 DEF CountOn
  <2>2. \A j \in 1 .. Len(es) : j # i
    BY <1>0, <1>1
  <2> QED
    BY <1>1, <2>1, <2>2
<1>2. CASE i # 0
  <2> DEFINE hits == es[i].count
             counted == [es[i] EXCEPT !.count = [hits EXCEPT ![e.kind] = hits[e.kind] + 1]]
  <2>1. i \in 1 .. Len(es)
    BY <1>0, <1>2, FindEdgeFinds DEF Matching
  <2>2. later = [es EXCEPT ![i] = counted]
    BY <1>2, <2>1 DEF CountOn
  <2>3. es[i] \in Edges
    BY <1>0, <2>1, ElementOfSeq
  <2>4. counted \in Edges
    BY <2>3 DEF Edges
  <2>5. \A kind \in EdgeKinds :
          counted.count[kind] = IF kind = e.kind THEN hits[kind] + 1 ELSE hits[kind]
    BY <2>3 DEF Edges
  <2>6. /\ later \in Seq(Edges)
        /\ Len(later) = Len(es)
        /\ \A j \in 1 .. Len(es) : later[j] = IF j = i THEN counted ELSE es[j]
    <3> HIDE DEF counted, i, later
    <3> QED
      BY <1>0, <2>1, <2>2, <2>4, ExceptSeq
  <2>7. ASSUME NEW j \in 1 .. Len(es), NEW kind \in EdgeKinds
        PROVE  later[j].count[kind] = IF j = i /\ kind = e.kind
                                      THEN es[j].count[kind] + 1 ELSE es[j].count[kind]
    <3> HIDE DEF counted, later, i
    <3> QED
      BY <2>5, <2>6
  <2>8. ASSUME NEW kind \in EdgeKinds
        PROVE  SumOf(later, kind) =
                 IF kind = e.kind THEN SumOf(es, kind) + 1 ELSE SumOf(es, kind)
    <3> DEFINE more == IF kind = e.kind THEN 1 ELSE 0
    <3>1. ASSUME NEW j \in 1 .. Len(later)
          PROVE  later[j].count[kind] =
                   (IF j <= Len(es) THEN es[j].count[kind] ELSE 0) + (IF j = i THEN more ELSE 0)
      <4>1. j \in 1 .. Len(es) /\ j <= Len(es)
        BY <1>0, <2>6
      <4>2. es[j] \in Edges
        BY <1>0, <4>1, ElementOfSeq
      <4>3. es[j].count[kind] \in Nat
        BY <4>2 DEF Edges
      <4> HIDE DEF i, later
      <4> QED
        BY <2>7, <4>1, <4>3
    <3>2. Len(es) <= Len(later) /\ i \in 1 .. Len(later) /\ more \in Nat
      BY <1>0, <2>1, <2>6
    <3>3. SumOf(later, kind) = SumOf(es, kind) + more /\ SumOf(es, kind) \in Nat
      <4>1. es \in Seq(Edges) /\ later \in Seq(Edges)
        BY <1>0, <2>6
      <4> HIDE DEF more, i, later
      <4> QED
        BY <3>1, <3>2, <4>1, SumGrows
    <3> QED
      BY <3>3
  <2> QED
    BY <1>2, <2>7, <2>8
<1> QED
  BY <1>1, <1>2

-----------------------------------------------------------------------------
(* The ring of spans: slot arithmetic as in the columnar store.            *)

Slot == INSTANCE RingIndex_proofs WITH Cap <- MaxSpans

LEMMA SpanSlots ==
  /\ \A i \in Nat : (i + MaxSpans) % MaxSpans = i % MaxSpans
  /\ \A i, j \in Nat : i < j /\ j - i < MaxSpans => i % MaxSpans # j % MaxSpans
<1>1. Slot!CapAssumption
  BY EbpfAssumption DEF Slot!CapAssumption
<1> QED
  BY <1>1, Slot!SlotTurn, Slot!SlotsDistinct DEF Slot!SlotOf

(* A slot that was written holds one of the last MaxSpans spans.           *)
LEMMA SpanInSlotIsRecent ==
  ASSUME NEW i \in 0 .. Len(spans) - 1, Len(spans) \in Nat
  PROVE  \E k \in 1 .. Len(spans) :
           /\ SpanInSlot(i % MaxSpans) = spans[k]
           /\ (k - 1) % MaxSpans = i % MaxSpans
           /\ k > Len(spans) - MaxSpans
<1> DEFINE slot == i % MaxSpans
           written == { k \in 1 .. Len(spans) : (k - 1) % MaxSpans = slot }
           Last(k) == /\ (k - 1) % MaxSpans = slot
                      /\ \A j \in k + 1 .. Len(spans) : (j - 1) % MaxSpans # slot
<1>1. i + 1 \in written
  OBVIOUS
<1>2. PICK g \in written : \A j \in written : g >= j
  <2>1. written \in SUBSET (1 .. Len(spans)) /\ written # {}
    BY <1>1
  <2> QED
    BY <2>1, GreatestExists
<1>3. g \in 1 .. Len(spans) /\ Last(g)
  BY <1>2
<1>4. PICK k \in 1 .. Len(spans) : Last(k) /\ SpanInSlot(slot) = spans[k]
  BY <1>3 DEF SpanInSlot
<1>5. MaxSpans \in Nat /\ MaxSpans > 0
  BY EbpfAssumption
<1>6. k > Len(spans) - MaxSpans
  <2>1. SUFFICES ASSUME k + MaxSpans <= Len(spans)
                 PROVE  FALSE
    BY <1>5
  <2>2. k + MaxSpans \in k + 1 .. Len(spans) /\ k - 1 \in Nat
    BY <1>5, <2>1
  <2>3. (k + MaxSpans) - 1 = (k - 1) + MaxSpans
    BY <1>5
  <2>4. ((k + MaxSpans) - 1) % MaxSpans = (k - 1) % MaxSpans
    BY <2>2, <2>3, SpanSlots
  <2>5. ((k + MaxSpans) - 1) % MaxSpans # slot
    BY <1>4, <2>2, Zenon
  <2> QED
    BY <1>4, <2>4, <2>5
<1> QED
  BY <1>4, <1>6

(* A drain reads exactly the last MaxSpans spans.                          *)
LEMMA DrainedIsRing ==
  ASSUME Len(spans) \in Nat
  PROVE  Drained = RingSpans
<1>1. ASSUME NEW i \in 0 .. Len(spans) - 1
      PROVE  SpanInSlot(i % MaxSpans) \in RingSpans
  BY SpanInSlotIsRecent DEF RingSpans
<1>2. ASSUME NEW k \in 1 .. Len(spans), k > Len(spans) - MaxSpans
      PROVE  spans[k] \in Drained
  <2>1. k - 1 \in 0 .. Len(spans) - 1
    OBVIOUS
  <2>2. PICK l \in 1 .. Len(spans) :
          /\ SpanInSlot((k - 1) % MaxSpans) = spans[l]
          /\ (l - 1) % MaxSpans = (k - 1) % MaxSpans
          /\ l > Len(spans) - MaxSpans
    BY <2>1, SpanInSlotIsRecent
  <2>3. /\ l - 1 \in Nat /\ k - 1 \in Nat
        /\ (l - 1) - (k - 1) < MaxSpans /\ (k - 1) - (l - 1) < MaxSpans
    <3>1. MaxSpans \in Nat /\ l > Len(spans) - MaxSpans /\ k > Len(spans) - MaxSpans
      BY <1>2, <2>2, EbpfAssumption
    <3> QED
      BY <3>1
  <2>4. ~(l - 1 < k - 1) /\ ~(k - 1 < l - 1)
    BY <2>2, <2>3, SpanSlots
  <2>5. l = k
    BY <2>4
  <2> QED
    BY <2>1, <2>2, <2>5 DEF Drained
<1> QED
  BY <1>1, <1>2 DEF Drained, RingSpans

-----------------------------------------------------------------------------
(* The inductive invariant.                                                *)

CallsOK == running \subseteq Pids /\ pending \subseteq Calls /\ open \subseteq Calls

(* A failure is in the critical ring and nothing else is: this is what     *)
(* lets the kinds consumed tell which ring they came from.                 *)
RingsOK ==
  /\ rings \in [RingNames -> Seq(Events)]
  /\ \A r \in RingNames : Len(rings[r]) <= RingCap[r]
  /\ \A r \in RingNames : \A i \in 1 .. Len(rings[r]) :
       rings[r][i].kind = "failed" <=> r = "critical"
  /\ drops \in [RingNames -> Nat]
  /\ emitted \in [RingNames -> Nat]
  /\ consumed \in [Kinds -> Nat]

ServicesOK ==
  /\ DOMAIN services \subseteq Pids
  /\ IsFiniteSet(DOMAIN services)
  /\ Cardinality(DOMAIN services) <= MaxServices

TablesOK ==
  /\ draining \in RingNames \cup {None}
  /\ cache # None => cache.pid \in Pids /\ cache.container \in Containers
  /\ EdgesOK(edges)
  /\ NoTwinsIn(edges)
  /\ ServicesOK
  /\ spans \in Seq(SpanIds)
  /\ index \subseteq SpanIds
  /\ connects \in Seq(Identities)

IInv == CallsOK /\ RingsOK /\ TablesOK /\ EventsAccounted

-----------------------------------------------------------------------------
LEMMA InitIInv == Init => IInv
<1> SUFFICES ASSUME Init
             PROVE  IInv
  OBVIOUS
<1> USE EbpfAssumption DEF Init
<1>1. CallsOK
  BY DEF CallsOK
<1>2. RingsOK
  BY DEF RingsOK, RingNames, RingCap, Kinds
<1>3. ServicesOK
  <2>1. DOMAIN services = {}
    OBVIOUS
  <2> QED
    BY <2>1, FS_EmptySet DEF ServicesOK
<1>4. EdgesOK(edges) /\ NoTwinsIn(edges)
  BY DEF EdgesOK, NoTwinsIn
<1>5. TablesOK
  BY <1>3, <1>4 DEF TablesOK
<1>6. EventsAccounted
  BY DEF EventsAccounted, ConsumedOf, RingNames, Kinds
<1> QED
  BY <1>1, <1>2, <1>5, <1>6 DEF IInv

(* A probe's event.                                                        *)
LEMMA EventType ==
  ASSUME NEW kind \in Kinds, NEW c \in Calls, NEW src \in {c.src, Unbound},
         NEW dst \in {c.dst, c.peer}, NEW span \in SpanIds \cup {None}
  PROVE  /\ EventOf(kind, c, src, dst, span) \in Events
         /\ EventOf(kind, c, src, dst, span).kind = kind
BY EbpfAssumption DEF EventOf, Events, Pids, Comms, Sources, Dests

LEMMA EmitKeeps ==
  ASSUME IInv, NEW e \in Events, NEW ring \in RingNames, Emit(e, ring),
         e.kind = "failed" <=> ring = "critical", UNCHANGED consumed
  PROVE  RingsOK' /\ EventsAccounted'
<1>1. /\ rings[ring] \in Seq(Events) /\ Len(rings[ring]) \in Nat
      /\ emitted[ring] \in Nat /\ drops[ring] \in Nat
  BY LenProperties DEF IInv, RingsOK
<1>2. \A r \in RingNames : ConsumedOf(r)' = ConsumedOf(r) /\ ConsumedOf(r) \in Nat
  <2>1. consumed \in [Kinds -> Nat]
    BY DEF IInv, RingsOK
  <2> QED
    BY <2>1 DEF ConsumedOf, Kinds
<1>3. emitted' = [emitted EXCEPT ![ring] = @ + 1] /\ emitted' \in [RingNames -> Nat]
  BY DEF IInv, RingsOK, Emit
<1>4. CASE Len(rings[ring]) < RingCap[ring]
  <2> DEFINE longer == Append(rings[ring], e)
  <2>1. rings' = [rings EXCEPT ![ring] = longer] /\ drops' = drops
    BY <1>4 DEF Emit
  <2>2. /\ longer \in Seq(Events) /\ Len(longer) = Len(rings[ring]) + 1
        /\ \A i \in 1 .. Len(rings[ring]) : longer[i] = rings[ring][i]
        /\ longer[Len(rings[ring]) + 1] = e
    BY <1>1, AppendProperties
  <2> HIDE DEF longer
  <2>3. \A i \in 1 .. Len(longer) : longer[i].kind = "failed" <=> ring = "critical"
    <3> SUFFICES ASSUME NEW i \in 1 .. Len(longer)
                 PROVE  longer[i].kind = "failed" <=> ring = "critical"
      OBVIOUS
    <3>1. CASE i \in 1 .. Len(rings[ring])
      <4>1. rings[ring][i].kind = "failed" <=> ring = "critical"
        BY <3>1 DEF IInv, RingsOK
      <4> QED
        BY <2>2, <3>1, <4>1
    <3>2. CASE i = Len(rings[ring]) + 1
      BY <2>2, <3>2
    <3> QED
      BY <1>1, <2>2, <3>1, <3>2
  <2>4. Len(longer) <= RingCap[ring]
    BY <1>1, <1>4, <2>2, EbpfAssumption DEF RingCap, RingNames
  <2>5. RingsOK'
    BY <1>3, <2>1, <2>2, <2>3, <2>4 DEF IInv, RingsOK
  <2>6. EventsAccounted'
    BY <1>1, <1>2, <1>3, <2>1, <2>2 DEF IInv, RingsOK, EventsAccounted
  <2> QED
    BY <2>5, <2>6
<1>5. CASE ~(Len(rings[ring]) < RingCap[ring])
  <2>1. drops' = [drops EXCEPT ![ring] = @ + 1] /\ rings' = rings
    BY <1>5 DEF Emit
  <2>2. RingsOK'
    BY <1>1, <1>3, <2>1 DEF IInv, RingsOK
  <2>3. \A r \in RingNames : Len(rings[r]) \in Nat
    BY LenProperties DEF IInv, RingsOK
  <2>4. EventsAccounted'
    <3> SUFFICES ASSUME NEW r \in RingNames
                 PROVE  emitted'[r] = Len(rings'[r]) + ConsumedOf(r)' + drops'[r]
      BY DEF EventsAccounted
    <3>1. emitted[r] = Len(rings[r]) + ConsumedOf(r) + drops[r]
      BY DEF IInv, EventsAccounted
    <3>2. emitted \in [RingNames -> Nat] /\ drops \in [RingNames -> Nat]
      BY DEF IInv, RingsOK
    <3>3. CASE r = ring
      <4>1. emitted'[r] = emitted[r] + 1 /\ drops'[r] = drops[r] + 1 /\ rings'[r] = rings[r]
        BY <1>3, <2>1, <3>2, <3>3
      <4>2. /\ emitted[r] \in Nat /\ drops[r] \in Nat /\ Len(rings[r]) \in Nat
            /\ ConsumedOf(r)' = ConsumedOf(r) /\ ConsumedOf(r) \in Nat
        BY <1>2, <2>3, <3>2
      <4> QED
        BY <3>1, <4>1, <4>2
    <3>4. CASE r # ring
      BY <1>2, <1>3, <2>1, <3>1, <3>2, <3>4
    <3> QED
      BY <3>3, <3>4
  <2> QED
    BY <2>2, <2>4
<1> QED
  BY <1>4, <1>5

(* What the probes leave alone.                                            *)
LEMMA TablesUnchanged ==
  ASSUME IInv, ConsumerUnchanged
  PROVE  TablesOK'
BY DEF IInv, ConsumerUnchanged, TablesOK, ServicesOK

LEMMA SpanIdIsNew ==
  ASSUME IInv, Emitted < MaxEmitted
  PROVE  Emitted + 1 \in SpanIds
BY EbpfAssumption DEF IInv, RingsOK, Emitted, SpanIds, RingNames

LEMMA ConnectEnterKeeps ==
  ASSUME IInv, NEW c \in Calls, ConnectEnter(c)
  PROVE  IInv'
<1> DEFINE e == EventOf("connect", c, Unbound, c.dst, None)
<1>1. e \in Events /\ e.kind = "connect"
  BY EventType DEF Kinds
<1>2. RingsOK' /\ EventsAccounted'
  <2>1. Emit(e, "standard") /\ UNCHANGED consumed
    BY DEF ConnectEnter, ConsumerUnchanged
  <2> HIDE DEF e
  <2> QED
    BY <1>1, <2>1, EmitKeeps DEF RingNames
<1>3. CallsOK'
  BY DEF IInv, CallsOK, ConnectEnter
<1> QED
  BY <1>2, <1>3, TablesUnchanged DEF IInv, ConnectEnter

LEMMA ConnectExitKeeps ==
  ASSUME IInv, NEW c \in Calls, ConnectExit(c)
  PROVE  IInv'
<1> DEFINE e == EventOf("connected", c, c.src, c.dst, None)
<1>1. e \in Events /\ e.kind = "connected"
  BY EventType DEF Kinds
<1>2. RingsOK' /\ EventsAccounted'
  <2>1. Emit(e, "standard") /\ UNCHANGED consumed
    BY DEF ConnectExit, ConsumerUnchanged
  <2> HIDE DEF e
  <2> QED
    BY <1>1, <2>1, EmitKeeps DEF RingNames
<1>3. CallsOK'
  BY DEF IInv, CallsOK, ConnectExit
<1> QED
  BY <1>2, <1>3, TablesUnchanged DEF IInv, ConnectExit

LEMMA ConnectFailsKeeps ==
  ASSUME IInv, NEW c \in Calls, ConnectFails(c)
  PROVE  IInv'
<1>1. PICK src \in {c.src, Unbound} : Emit(EventOf("failed", c, src, c.dst, None), "critical")
  BY DEF ConnectFails
<1> DEFINE e == EventOf("failed", c, src, c.dst, None)
<1>2. e \in Events /\ e.kind = "failed"
  BY EventType DEF Kinds
<1>3. RingsOK' /\ EventsAccounted'
  <2>1. Emit(e, "critical") /\ UNCHANGED consumed
    BY <1>1 DEF ConnectFails, ConsumerUnchanged
  <2> HIDE DEF e
  <2> QED
    BY <1>2, <2>1, EmitKeeps DEF RingNames
<1>4. CallsOK'
  BY DEF IInv, CallsOK, ConnectFails
<1> QED
  BY <1>3, <1>4, TablesUnchanged DEF IInv, ConnectFails

LEMMA SendKeeps ==
  ASSUME IInv, NEW c \in Calls, Send(c)
  PROVE  IInv'
<1> DEFINE e == EventOf("send", c, c.src, c.peer, None)
<1>1. e \in Events /\ e.kind = "send"
  BY EventType DEF Kinds
<1>2. RingsOK' /\ EventsAccounted'
  <2>1. Emit(e, "standard") /\ UNCHANGED consumed
    BY DEF Send, ConsumerUnchanged
  <2> HIDE DEF e
  <2> QED
    BY <1>1, <2>1, EmitKeeps DEF RingNames
<1> QED
  BY <1>2, TablesUnchanged DEF IInv, CallsOK, Send

LEMMA RetransmitKeeps ==
  ASSUME IInv, NEW c \in Calls, NEW current \in Calls, Retransmit(c, current)
  PROVE  IInv'
<1> DEFINE e == [EventOf("retransmit", c, c.src, c.peer, None)
                   EXCEPT !.pid = current.pid, !.comm = current.comm]
<1>0. EventOf("retransmit", c, c.src, c.peer, None) \in Events
  BY EventType DEF Kinds
<1>1. e \in Events /\ e.kind = "retransmit"
  BY <1>0 DEF Events, EventOf, Pids, Comms
<1>2. RingsOK' /\ EventsAccounted'
  <2>1. Emit(e, "standard") /\ UNCHANGED consumed
    BY DEF Retransmit, ConsumerUnchanged
  <2> HIDE DEF e
  <2> QED
    BY <1>1, <2>1, EmitKeeps DEF RingNames
<1> QED
  BY <1>2, TablesUnchanged DEF IInv, CallsOK, Retransmit

LEMMA RecvKeeps ==
  ASSUME IInv, NEW c \in Calls, Recv(c)
  PROVE  IInv'
<1>1. PICK span \in {None, Emitted + 1} : Emit(EventOf("http", c, c.src, c.peer, span), "standard")
  BY DEF Recv
<1> DEFINE e == EventOf("http", c, c.src, c.peer, span)
<1>2. span \in SpanIds \cup {None}
  BY SpanIdIsNew DEF Recv, Probe
<1>3. e \in Events /\ e.kind = "http"
  BY <1>2, EventType DEF Kinds
<1>4. RingsOK' /\ EventsAccounted'
  <2>1. Emit(e, "standard") /\ UNCHANGED consumed
    BY <1>1 DEF Recv, ConsumerUnchanged
  <2> HIDE DEF e
  <2> QED
    BY <1>3, <2>1, EmitKeeps DEF RingNames
<1> QED
  BY <1>4, TablesUnchanged DEF IInv, CallsOK, Recv

(* A step that leaves the rings and what was consumed alone.               *)
LEMMA RingsUnchanged ==
  ASSUME IInv, UNCHANGED <<rings, drops, emitted, consumed>>
  PROVE  RingsOK' /\ EventsAccounted'
BY DEF IInv, RingsOK, EventsAccounted, ConsumedOf

LEMMA ExitKeeps ==
  ASSUME IInv, NEW p \in Pids, Exit(p)
  PROVE  IInv'
<1>1. CallsOK'
  BY DEF IInv, CallsOK, Exit
<1>2. RingsOK' /\ EventsAccounted'
  BY RingsUnchanged DEF Exit, ConsumerUnchanged
<1> QED
  BY <1>1, <1>2, TablesUnchanged DEF IInv, Exit

LEMMA RegisterKeeps ==
  ASSUME ServicesOK, NEW e \in Events
  PROVE  /\ DOMAIN Register(e) \subseteq Pids
         /\ IsFiniteSet(DOMAIN Register(e))
         /\ Cardinality(DOMAIN Register(e)) <= MaxServices
<1>1. CASE e.pid \in DOMAIN services
  <2>1. DOMAIN Register(e) = DOMAIN services
    BY <1>1 DEF Register
  <2> QED
    BY <2>1 DEF ServicesOK
<1>2. CASE e.pid \notin DOMAIN services /\ Cardinality(DOMAIN services) < MaxServices
  <2>1. DOMAIN Register(e) = DOMAIN services \cup {e.pid}
    BY <1>2 DEF Register
  <2>2. IsFiniteSet(DOMAIN Register(e)) /\ Cardinality(DOMAIN Register(e)) = Cardinality(DOMAIN services) + 1
    BY <1>2, <2>1, FS_AddElement DEF ServicesOK
  <2>3. Cardinality(DOMAIN services) \in Nat
    BY FS_CardinalityType DEF ServicesOK
  <2>4. e.pid \in Pids
    BY DEF Events
  <2> QED
    BY <1>2, <2>1, <2>2, <2>3, <2>4, EbpfAssumption DEF ServicesOK
<1>3. CASE e.pid \notin DOMAIN services /\ ~(Cardinality(DOMAIN services) < MaxServices)
  <2>1. Register(e) = services
    BY <1>3 DEF Register
  <2> QED
    BY <2>1 DEF ServicesOK
<1> QED
  BY <1>1, <1>2, <1>3

(* The container an event is handled with.                                 *)
Handled(ring, cached) ==
  IF cached THEN cache.container ELSE ReadContainer(Head(rings[ring]).pid)

LEMMA HandledType ==
  ASSUME IInv, NEW ring \in RingNames, NEW cached \in BOOLEAN, rings[ring] # << >>,
         Handle(ring, cached)
  PROVE  /\ Head(rings[ring]) \in Events
         /\ Handled(ring, cached) \in Containers
         /\ edges' = Count(Head(rings[ring]), Handled(ring, cached))
<1>1. Head(rings[ring]) \in Events
  BY HeadTailProperties DEF IInv, RingsOK
<1>2. ReadContainer(Head(rings[ring]).pid) \in Containers
  BY <1>1 DEF ReadContainer, Containers, Events
<1>3. cached => cache.container \in Containers
  BY DEF Handle, IInv, TablesOK
<1> QED
  BY <1>1, <1>2, <1>3 DEF Handle, Handled

LEMMA TakenFromRing ==
  ASSUME IInv, NEW ring \in RingNames, rings[ring] # << >>,
         rings' = [rings EXCEPT ![ring] = Tail(@)],
         consumed' = [consumed EXCEPT ![Head(rings[ring]).kind] = @ + 1],
         UNCHANGED <<drops, emitted>>
  PROVE  RingsOK' /\ EventsAccounted'
<1> DEFINE e == Head(rings[ring])
           rest == Tail(rings[ring])
<1>1. rings[ring] \in Seq(Events) /\ Len(rings[ring]) \in Nat
  BY LenProperties DEF IInv, RingsOK
<1>2. /\ e \in Events /\ rest \in Seq(Events) /\ Len(rest) = Len(rings[ring]) - 1
      /\ \A i \in 1 .. Len(rest) : rest[i] = rings[ring][i + 1]
      /\ Len(rings[ring]) >= 1 /\ e = rings[ring][1]
  BY <1>1, HeadTailProperties, EmptySeq
<1>3. e.kind \in Kinds /\ (e.kind = "failed" <=> ring = "critical")
  <2>1. 1 \in 1 .. Len(rings[ring])
    BY <1>1, <1>2
  <2> QED
    BY <1>2, <2>1 DEF IInv, RingsOK, Events
<1>4. rings' = [rings EXCEPT ![ring] = rest] /\ consumed' = [consumed EXCEPT ![e.kind] = @ + 1]
  OBVIOUS
<1> HIDE DEF e, rest
<1>5. \A i \in 1 .. Len(rest) : rest[i].kind = "failed" <=> ring = "critical"
  <2> SUFFICES ASSUME NEW i \in 1 .. Len(rest)
               PROVE  rest[i].kind = "failed" <=> ring = "critical"
    OBVIOUS
  <2>1. i + 1 \in 1 .. Len(rings[ring])
    BY <1>1, <1>2
  <2>2. rings[ring][i + 1].kind = "failed" <=> ring = "critical"
    BY <2>1 DEF IInv, RingsOK
  <2> QED
    BY <1>2, <2>2
<1>6. Len(rest) <= RingCap[ring]
  <2>1. Len(rings[ring]) <= RingCap[ring] /\ RingCap[ring] \in Nat
    BY EbpfAssumption DEF IInv, RingsOK, RingCap, RingNames
  <2> QED
    BY <1>1, <1>2, <2>1
<1>7. RingsOK'
  BY <1>2, <1>3, <1>4, <1>5, <1>6 DEF IInv, RingsOK
<1>8. ASSUME NEW r \in RingNames
      PROVE  /\ ConsumedOf(r) \in Nat
             /\ ConsumedOf(r)' = IF r = ring THEN ConsumedOf(r) + 1 ELSE ConsumedOf(r)
  <2>1. consumed \in [Kinds -> Nat]
    BY DEF IInv, RingsOK
  <2>2. \A k \in Kinds : consumed'[k] = IF k = e.kind THEN consumed[k] + 1 ELSE consumed[k]
    BY <1>3, <1>4, <2>1
  <2>3. \A k \in Kinds : consumed[k] \in Nat
    BY <2>1
  <2>4. CASE r = "critical"
    BY <1>3, <2>2, <2>3, <2>4 DEF ConsumedOf, Kinds, RingNames
  <2>5. CASE r = "standard"
    <3>1. r # "critical"
      BY <2>5
    <3> DEFINE Others == {"connect", "connected", "send", "retransmit", "http"}
    <3>2. \A k \in Others \cup {"failed"} : k \in Kinds
      BY DEF Kinds
    <3>3. ConsumedOf(r) \in Nat
      BY <2>1, <3>1 DEF ConsumedOf, Kinds
    <3>4. consumed' \in [Kinds -> Nat]
      BY <1>7 DEF RingsOK
    <3>5. CASE ring = "standard"
      <4>1. e.kind \in Others /\ r = ring
        BY <1>3, <2>5, <3>5 DEF Kinds
      <4>2. /\ consumed'["connect"] = IF e.kind = "connect" THEN consumed["connect"] + 1 ELSE consumed["connect"]
            /\ consumed'["connected"] = IF e.kind = "connected" THEN consumed["connected"] + 1 ELSE consumed["connected"]
            /\ consumed'["send"] = IF e.kind = "send" THEN consumed["send"] + 1 ELSE consumed["send"]
            /\ consumed'["retransmit"] = IF e.kind = "retransmit" THEN consumed["retransmit"] + 1 ELSE consumed["retransmit"]
            /\ consumed'["http"] = IF e.kind = "http" THEN consumed["http"] + 1 ELSE consumed["http"]
        BY <2>2, <3>2
      <4> DEFINE a == consumed["connect"]   a1 == consumed'["connect"]
                 b == consumed["connected"] b1 == consumed'["connected"]
                 c == consumed["send"]      c1 == consumed'["send"]
                 d == consumed["retransmit"] d1 == consumed'["retransmit"]
                 h == consumed["http"]      h1 == consumed'["http"]
      <4>3. /\ a \in Nat /\ b \in Nat /\ c \in Nat /\ d \in Nat /\ h \in Nat
            /\ ConsumedOf(r) = a + b + c + d + h
            /\ ConsumedOf(r)' = a1 + b1 + c1 + d1 + h1
        BY <2>3, <3>1, <3>2 DEF ConsumedOf
      <4>4. \/ a1 = a + 1 /\ b1 = b /\ c1 = c /\ d1 = d /\ h1 = h
            \/ a1 = a /\ b1 = b + 1 /\ c1 = c /\ d1 = d /\ h1 = h
            \/ a1 = a /\ b1 = b /\ c1 = c + 1 /\ d1 = d /\ h1 = h
            \/ a1 = a /\ b1 = b /\ c1 = c /\ d1 = d + 1 /\ h1 = h
            \/ a1 = a /\ b1 = b /\ c1 = c /\ d1 = d /\ h1 = h + 1
        BY <4>1, <4>2
      <4> HIDE DEF a, a1, b, b1, c, c1, d, d1, h, h1
      <4>5. ConsumedOf(r)' = ConsumedOf(r) + 1
        BY <4>3, <4>4
      <4> QED
        BY <3>3, <4>1, <4>5
    <3>6. CASE ring = "critical"
      <4>1. e.kind = "failed" /\ r # ring
        BY <1>3, <2>5, <3>6
      <4>2. /\ consumed'["connect"] = consumed["connect"]
            /\ consumed'["connected"] = consumed["connected"]
            /\ consumed'["send"] = consumed["send"]
            /\ consumed'["retransmit"] = consumed["retransmit"]
            /\ consumed'["http"] = consumed["http"]
        BY <2>2, <3>2, <4>1
      <4>3. ConsumedOf(r)' = ConsumedOf(r)
        BY <2>1, <3>1, <3>4, <4>1, <4>2 DEF ConsumedOf, Kinds
      <4> QED
        BY <3>3, <4>1, <4>3
    <3> QED
      BY <3>5, <3>6 DEF RingNames
  <2> QED
    BY <2>4, <2>5 DEF RingNames
<1>9. EventsAccounted'
  <2> SUFFICES ASSUME NEW r \in RingNames
               PROVE  emitted'[r] = Len(rings'[r]) + ConsumedOf(r)' + drops'[r]
    BY DEF EventsAccounted
  <2>1. /\ emitted[r] = Len(rings[r]) + ConsumedOf(r) + drops[r]
        /\ emitted[r] \in Nat /\ drops[r] \in Nat /\ Len(rings[r]) \in Nat
    BY LenProperties DEF IInv, EventsAccounted, RingsOK
  <2>2. CASE r = ring
    <3>1. Len(rings'[r]) = Len(rings[r]) - 1
      BY <1>2, <1>4, <2>2 DEF IInv, RingsOK
    <3> QED
      BY <1>8, <2>1, <2>2, <3>1
  <2>3. CASE r # ring
    <3>1. rings'[r] = rings[r]
      BY <1>4, <2>3 DEF IInv, RingsOK
    <3> QED
      BY <1>8, <2>1, <2>3, <3>1
  <2> QED
    BY <2>2, <2>3
<1> QED
  BY <1>7, <1>9

LEMMA PollKeeps ==
  ASSUME IInv, NEW ring \in RingNames, Poll(ring)
  PROVE  IInv'
<1>1. PICK cached \in BOOLEAN : Handle(ring, cached)
  BY DEF Poll
<1> DEFINE e == Head(rings[ring])
           container == Handled(ring, cached)
<1>2. e \in Events /\ container \in Containers /\ edges' = Count(e, container)
  BY <1>1, HandledType DEF Poll
<1>3. RingsOK' /\ EventsAccounted'
  BY <1>1, TakenFromRing DEF Poll, Handle, kernelVars
<1>4. EdgesOK(edges)' /\ NoTwinsIn(edges)'
  BY <1>2, CountKeeps DEF IInv, TablesOK, EdgesOK, NoTwinsIn
<1>5. ServicesOK'
  <2>1. services' = Register(e) \/ services' = services
    BY <1>1 DEF Handle
  <2> QED
    BY <1>2, <2>1, RegisterKeeps DEF IInv, TablesOK, ServicesOK
<1>6. (cache # None => cache.pid \in Pids /\ cache.container \in Containers)'
  <2>1. cache' = cache \/ cache' = [pid |-> e.pid, container |-> container]
    BY <1>1 DEF Handle, Handled
  <2>2. e.pid \in Pids
    BY <1>2 DEF Events
  <2> QED
    BY <1>2, <2>1, <2>2 DEF IInv, TablesOK
<1>7. spans' \in Seq(SpanIds)
  <2>1. e.span # None => e.span \in SpanIds
    BY <1>2 DEF Events
  <2>2. spans' = IF e.span # None THEN Append(spans, e.span) ELSE spans
    BY <1>1 DEF Handle
  <2> QED
    BY <2>1, <2>2, AppendProperties DEF IInv, TablesOK
<1>8. draining' \in RingNames \cup {None} /\ index' = index
  BY DEF Poll
<1>9. connects' \in Seq(Identities)
  <2>1. Identity(e, container) \in Identities
    BY <1>2 DEF Identity, Identities, Events
  <2>2. connects' = connects \/ connects' = Append(connects, Identity(e, container))
    BY <1>1 DEF Handle, Handled
  <2> QED
    BY <2>1, <2>2, AppendProperties DEF IInv, TablesOK
<1>10. TablesOK'
  BY <1>4, <1>5, <1>6, <1>7, <1>8, <1>9 DEF IInv, TablesOK
<1>11. CallsOK'
  BY DEF IInv, CallsOK, Poll, kernelVars
<1> QED
  BY <1>3, <1>10, <1>11 DEF IInv

LEMMA SpansLength ==
  ASSUME IInv
  PROVE  Len(spans) \in Nat
BY LenProperties DEF IInv, TablesOK

LEMMA DrainKeeps ==
  ASSUME IInv, DrainTraceSpans
  PROVE  IInv'
<1>1. RingSpans \subseteq SpanIds
  <2>1. \A k \in 1 .. Len(spans) : spans[k] \in SpanIds
    BY ElementOfSeq DEF IInv, TablesOK
  <2> QED
    BY <2>1 DEF RingSpans
<1>2. index' \subseteq SpanIds
  BY <1>1, SpansLength, DrainedIsRing DEF IInv, TablesOK, DrainTraceSpans
<1>3. RingsOK' /\ EventsAccounted'
  BY RingsUnchanged DEF DrainTraceSpans, kernelVars
<1>4. CallsOK'
  BY DEF IInv, CallsOK, DrainTraceSpans, kernelVars
<1>5. TablesOK'
  BY <1>2 DEF IInv, TablesOK, ServicesOK, DrainTraceSpans, tableVars
<1> QED
  BY <1>3, <1>4, <1>5 DEF IInv

LEMMA StutterKeeps ==
  ASSUME IInv, UNCHANGED vars
  PROVE  IInv'
<1>1. RingsOK' /\ EventsAccounted'
  BY RingsUnchanged DEF vars
<1> QED
  BY <1>1 DEF IInv, CallsOK, TablesOK, ServicesOK, EdgesOK, NoTwinsIn, vars

LEMMA StepKeeps ==
  ASSUME IInv, [Next]_vars
  PROVE  IInv'
BY ConnectEnterKeeps, ConnectExitKeeps, ConnectFailsKeeps, SendKeeps, RecvKeeps,
   RetransmitKeeps, ExitKeeps, PollKeeps, DrainKeeps, StutterKeeps DEF Next

(* Every probe, poll and drain keeps the invariant.                        *)
THEOREM Invariance == Spec => []IInv
<1>1. IInv /\ [Next]_vars => IInv'
  BY StepKeeps
<1> QED
  BY <1>1, InitIInv, PTL DEF Spec

-----------------------------------------------------------------------------
(* The results.                                                            *)

(* The pipeline's variables keep their types and the tables their limits   *)
(* (ebpf_event_handler, find_or_create_edge, aacyn_discovery_register).    *)
THEOREM TypeCorrect == Spec => []TypeOK
<1>1. IInv => TypeOK
  <2> SUFFICES ASSUME IInv
               PROVE  TypeOK
    OBVIOUS
  <2>1. \A r \in RingNames :
          /\ Len(rings[r]) <= RingCap[r]
          /\ \A i \in 1 .. Len(rings[r]) : rings[r][i] \in Events
          /\ drops[r] \in Nat /\ emitted[r] \in Nat
    BY ElementOfSeq DEF IInv, RingsOK
  <2>2. Len(edges) <= MaxEdges /\ \A i \in 1 .. Len(edges) : edges[i] \in Edges
    BY ElementOfSeq DEF IInv, TablesOK, EdgesOK
  <2>3. \A i \in 1 .. Len(spans) : spans[i] \in SpanIds
    BY ElementOfSeq DEF IInv, TablesOK
  <2>4. \A n \in 1 .. Len(connects) : connects[n] \in Identities
    BY ElementOfSeq DEF IInv, TablesOK
  <2> QED
    BY <2>1, <2>2, <2>3, <2>4 DEF IInv, CallsOK, RingsOK, TablesOK, ServicesOK, TypeOK
<1> QED
  BY <1>1, Invariance, PTL

(* No two edges of the topology stand for the same thing, although         *)
(* edge_matches is no equivalence.                                         *)
THEOREM NoTwins == Spec => []NoTwinEdges
<1>1. IInv => NoTwinEdges
  BY DEF IInv, TablesOK, NoTwinsIn, NoTwinEdges
<1> QED
  BY <1>1, Invariance, PTL

(* Every event a probe emitted waits in its ring, was handled, or is in    *)
(* the drop counters (emit_event, aacyn_get_drop_counts).                  *)
THEOREM Accounted == Spec => []EventsAccounted
<1>1. IInv => EventsAccounted
  BY DEF IInv
<1> QED
  BY <1>1, Invariance, PTL

(* The edge that find_edge returns for an identity is the same for ever    *)
(* once there is one.                                                      *)
THEOREM Stable == Spec => StableResolution
<1>1. IInv /\ [Next]_vars =>
        [ edges' # edges =>
            \A c \in Calls, container \in Containers :
              FindEdge(edges, c, container) # 0 =>
                FindEdge(edges', c, container) = FindEdge(edges, c, container) ]_vars
  <2> SUFFICES ASSUME IInv, Next
               PROVE  \A c \in Calls, container \in Containers :
                        FindEdge(edges, c, container) # 0 =>
                          FindEdge(edges', c, container) = FindEdge(edges, c, container)
    OBVIOUS
  <2>1. CASE UNCHANGED edges
    BY <2>1
  <2>2. CASE \E ring \in RingNames : Poll(ring)
    <3>1. PICK ring \in RingNames, cached \in BOOLEAN : Poll(ring) /\ Handle(ring, cached)
      BY <2>2 DEF Poll
    <3>2. Grows(edges, edges')
      BY <3>1, HandledType, CountKeeps DEF Poll, IInv, TablesOK
    <3> QED
      BY <3>2, GrownFinds
  <2> QED
    BY <2>1, <2>2 DEF Next, ConnectEnter, ConnectExit, ConnectFails, Send, Recv, Retransmit,
       Exit, DrainTraceSpans, ConsumerUnchanged, tableVars
<1> QED
  BY <1>1, Invariance, PTL DEF Spec, StableResolution

(* The completed connects among `cs' for which the table finds edge i.     *)
FoundFor(es, cs, i) ==
  { n \in 1 .. Len(cs) : FindEdge(es, cs[n], cs[n].container) = i }

(* Every completed connect finds after a poll what it found before: one    *)
(* without an edge stays without it, for the table is full.                *)
LEMMA FoundStays ==
  ASSUME IInv, HitsAreConnects, NEW later, Grows(edges, later), Len(later) <= MaxEdges,
         NEW n \in 1 .. Len(connects)
  PROVE  FindEdge(later, connects[n], connects[n].container) = EdgeOf(edges, n)
<1>1. CASE EdgeOf(edges, n) # 0
  BY <1>1, GrownFinds DEF EdgeOf
<1>2. CASE EdgeOf(edges, n) = 0
  <2>1. ConnectsOf(edges, 0) # {}
    BY <1>2 DEF ConnectsOf
  <2>2. Len(edges) = MaxEdges
    BY <2>1 DEF HitsAreConnects
  <2>3. Len(later) = Len(edges)
    BY <2>2 DEF Grows
  <2> QED
    BY <2>3, SameFinds DEF EdgeOf
<1> QED
  BY <1>1, <1>2

(* An edge is found for a connect exactly when it is found for its event.  *)
LEMMA FoundByIdentity ==
  ASSUME NEW es, NEW e, NEW container
  PROVE  /\ FindEdge(es, Identity(e, container), container) = FindEdge(es, e, container)
         /\ Identity(e, container).container = container
<1>1. Matching(es, Identity(e, container), container) = Matching(es, e, container)
  BY DEF Matching, Identity
<1>2. FindEdge(es, Identity(e, container), container) = FindEdge(es, e, container)
  BY <1>1 DEF FindEdge
<1> QED
  BY <1>2 DEF Identity

(* What a poll that takes a completed connect with an address adds to the  *)
(* connects of each edge.                                                  *)
LEMMA FoundMore ==
  ASSUME IInv, HitsAreConnects, NEW later, Grows(edges, later), Len(later) <= MaxEdges,
         NEW e \in Events, NEW container \in Containers, NEW k
  PROVE  FoundFor(later, Append(connects, Identity(e, container)), k) =
           IF k = FindEdge(later, e, container)
           THEN ConnectsOf(edges, k) \cup {Len(connects) + 1} ELSE ConnectsOf(edges, k)
<1> DEFINE l == Len(connects)
           id == Identity(e, container)
           more == Append(connects, id)
           i == FindEdge(later, e, container)
           f(n) == FindEdge(later, more[n], more[n].container)
<1>1. connects \in Seq(Identities) /\ l \in Nat
  BY LenProperties DEF IInv, TablesOK
<1>2. /\ Len(more) = l + 1
      /\ \A n \in 1 .. l : more[n] = connects[n]
      /\ more[l + 1] = id
  <2>1. id \in Identities
    BY DEF Identity, Identities, Events
  <2> HIDE DEF id
  <2> QED
    BY <1>1, <2>1, AppendProperties DEF id
<1>3. \A n \in 1 .. l : f(n) = EdgeOf(edges, n)
  BY <1>2, FoundStays
<1>4. f(l + 1) = i
  BY <1>2, FoundByIdentity
<1>5. FoundFor(later, more, k) = { n \in 1 .. l + 1 : f(n) = k }
  BY <1>2 DEF FoundFor
<1>6. ConnectsOf(edges, k) = { n \in 1 .. l : EdgeOf(edges, n) = k }
  BY DEF ConnectsOf
<1> HIDE DEF f, l, i
<1>7. \A n : n \in 1 .. l + 1 <=> n \in 1 .. l \/ n = l + 1
  BY <1>1
<1>8. l + 1 \notin 1 .. l
  BY <1>1
<1>9. FoundFor(later, more, k) =
        IF k = i THEN ConnectsOf(edges, k) \cup {l + 1} ELSE ConnectsOf(edges, k)
  BY <1>3, <1>4, <1>5, <1>6, <1>7, <1>8
<1> QED
  BY <1>9 DEF l, i

LEMMA ConnectsFinite ==
  ASSUME IInv, NEW k
  PROVE  /\ IsFiniteSet(ConnectsOf(edges, k))
         /\ Cardinality(ConnectsOf(edges, k)) \in Nat
         /\ Len(connects) \in Nat /\ Len(connects) + 1 \notin ConnectsOf(edges, k)
<1>1. Len(connects) \in Nat
  BY LenProperties DEF IInv, TablesOK
<1>2. ConnectsOf(edges, k) \subseteq 1 .. Len(connects)
  BY DEF ConnectsOf
<1>3. IsFiniteSet(1 .. Len(connects))
  BY <1>1, FS_Interval
<1>4. IsFiniteSet(ConnectsOf(edges, k))
  BY <1>2, <1>3, FS_Subset
<1> QED
  BY <1>1, <1>2, <1>4, FS_CardinalityType

(* The parts of the property.                                              *)
HitsExact ==
  \A i \in 1 .. Len(edges) :
    /\ edges[i].count["connected"] = Cardinality(ConnectsOf(edges, i))
    /\ edges[i].count["connected"] > 0
NoneTurnedAway == ConnectsOf(edges, 0) # {} => Len(edges) = MaxEdges

(* What a poll does to the hits of each edge and to the sums.              *)
LEMMA PollCounts ==
  ASSUME IInv, HitsAreConnects, NEW ring \in RingNames, Poll(ring)
  PROVE  HitsAreConnects'
<1>1. PICK cached \in BOOLEAN : Handle(ring, cached)
  BY DEF Poll
<1> DEFINE e == Head(rings[ring])
           container == Handled(ring, cached)
           S(k) == SumOf(edges, k)
           T(k) == SumOf(edges', k)
<1>2. e \in Events /\ container \in Containers /\ edges' = Count(e, container)
  BY <1>1, HandledType DEF Poll
<1>3. EdgesOK(edges) /\ edges \in Seq(Edges) /\ Len(edges) \in Nat /\ Len(edges) <= MaxEdges
  BY LenProperties DEF IInv, TablesOK, EdgesOK
<1>4. MaxEdges \in Nat /\ "connected" \in EdgeKinds /\ EdgeKinds \subseteq Kinds
  BY EbpfAssumption DEF EdgeKinds, Kinds
<1>5. /\ \A k \in Kinds : consumed[k] \in Nat
      /\ \A k \in Kinds : consumed'[k] = IF k = e.kind THEN consumed[k] + 1 ELSE consumed[k]
  BY <1>1 DEF IInv, RingsOK, Handle
<1>6. \A k \in EdgeKinds : S(k) \in Nat
  BY <1>3, SumType
<1>7. HitsExact /\ NoneTurnedAway /\ \A k \in EdgeKinds : S(k) <= consumed[k]
  BY DEF HitsAreConnects, HitsExact, NoneTurnedAway, Sum
<1>8. connects' = IF e.kind = "connected" /\ Addressed(e)
                  THEN Append(connects, Identity(e, container)) ELSE connects
  BY <1>1 DEF Handle, Handled
<1>9. \A k : ConnectsOf(edges, k)' = FoundFor(edges', connects', k)
  BY DEF ConnectsOf, EdgeOf, FoundFor
<1>10. EdgesOK(edges') /\ Grows(edges, edges') /\ Len(edges') \in Nat /\ Len(edges') <= MaxEdges
  BY <1>2, <1>3, CountKeeps DEF EdgesOK, Grows
<1> SUFFICES HitsExact' /\ NoneTurnedAway' /\ \A k \in EdgeKinds : T(k) <= consumed'[k]
  BY DEF HitsAreConnects, HitsExact, NoneTurnedAway, Sum
<1> HIDE DEF e, container
<1>11. ASSUME connects' = connects, NEW k
       PROVE  ConnectsOf(edges, k)' = ConnectsOf(edges, k)
  <2>1. \A n \in 1 .. Len(connects) :
          FindEdge(edges', connects[n], connects[n].container) = EdgeOf(edges, n)
    BY <1>10, FoundStays
  <2>2. FoundFor(edges', connects, k) = ConnectsOf(edges, k)
    BY <2>1 DEF FoundFor, ConnectsOf
  <2> QED
    BY <1>9, <1>11, <2>2
<1>12. CASE e.kind \notin EdgeKinds \/ ~Addressed(e)
  <2>1. edges' = edges
    BY <1>2, <1>12 DEF Count
  <2>2. \A k \in EdgeKinds : consumed[k] <= consumed'[k] /\ consumed'[k] \in Nat
    BY <1>4, <1>5
  <2>3. connects' = connects
    BY <1>4, <1>8, <1>12
  <2>4. \A k \in EdgeKinds : T(k) <= consumed'[k]
    <3>1. \A k \in EdgeKinds : T(k) = S(k) /\ consumed[k] \in Nat
      BY <1>4, <1>5, <2>1
    <3> HIDE DEF S, T
    <3> QED
      BY <1>6, <1>7, <2>2, <3>1
  <2> QED
    BY <1>7, <1>11, <2>1, <2>3, <2>4 DEF HitsExact, NoneTurnedAway
<1>13. CASE e.kind \in EdgeKinds /\ e.kind # "connected" /\ Addressed(e)
  <2> DEFINE i == FindEdge(edges, e, container)
  <2>1. edges' = CountOn(edges, e, container)
    BY <1>2, <1>13 DEF Count
  <2>2. Len(edges') = Len(edges)
    BY <1>2, <1>3, <1>13, <2>1, CountOnKeeps
  <2>3. /\ \A k \in EdgeKinds : T(k) = IF i # 0 /\ k = e.kind THEN S(k) + 1 ELSE S(k)
        /\ \A j \in 1 .. Len(edges), k \in EdgeKinds :
             edges'[j].count[k] =
               IF j = i /\ k = e.kind THEN edges[j].count[k] + 1 ELSE edges[j].count[k]
    BY <1>2, <1>3, <1>13, <2>1, CountedSums
  <2> HIDE DEF i, S, T
  <2>4. \A k \in EdgeKinds : T(k) <= consumed'[k]
    BY <1>4, <1>5, <1>6, <1>7, <2>3
  <2>5. \A j \in 1 .. Len(edges') : edges'[j].count["connected"] = edges[j].count["connected"]
    BY <1>4, <1>13, <2>2, <2>3
  <2>6. connects' = connects
    BY <1>8, <1>13
  <2>7. HitsExact'
    BY <1>7, <1>11, <2>2, <2>5, <2>6 DEF HitsExact
  <2>8. NoneTurnedAway'
    BY <1>7, <1>11, <2>2, <2>6 DEF NoneTurnedAway
  <2> QED
    BY <2>4, <2>7, <2>8
<1>14. CASE e.kind = "connected" /\ Addressed(e)
  <2> DEFINE es == CreateEdge(e, container)
             i == FindEdge(es, e, container)
  <2>1. edges' = CountOn(es, e, container) /\ e.kind \in EdgeKinds
    BY <1>2, <1>4, <1>14 DEF Count
  <2>2. EdgesOK(es) /\ Len(es) \in Nat
    BY <1>2, <1>3, CreateEdgeKeeps, LenProperties DEF EdgesOK
  <2>3. Len(edges') = Len(es) /\ Grows(es, edges')
    BY <1>2, <2>1, <2>2, CountOnKeeps
  <2>4. /\ \A k \in EdgeKinds : SumOf(es, k) = S(k)
        /\ i = 0 => es = edges /\ Len(edges) = MaxEdges
        /\ Len(edges) <= Len(es)
        /\ \A j \in 1 .. Len(es) :
             \/ j \in 1 .. Len(edges) /\ es[j] = edges[j]
             \/ j \notin 1 .. Len(edges) /\ es[j].count["connected"] = 0
        /\ \A j \in 1 .. Len(es) : j # i => j \in 1 .. Len(edges)
    BY <1>2, <1>3, CreatedSums
  <2>5. /\ \A k \in EdgeKinds :
             T(k) = IF i # 0 /\ k = e.kind THEN SumOf(es, k) + 1 ELSE SumOf(es, k)
        /\ \A j \in 1 .. Len(es), k \in EdgeKinds :
             edges'[j].count[k] =
               IF j = i /\ k = e.kind THEN es[j].count[k] + 1 ELSE es[j].count[k]
    <3> HIDE DEF es
    <3> QED
      BY <1>2, <2>1, <2>2, CountedSums
  <2>6. i = FindEdge(edges', e, container)
    BY <2>3, SameFinds
  <2>7. \A k : ConnectsOf(edges, k)' = IF k = i THEN ConnectsOf(edges, k) \cup {Len(connects) + 1}
                                       ELSE ConnectsOf(edges, k)
    <3>1. connects' = Append(connects, Identity(e, container))
      BY <1>8, <1>14
    <3> HIDE DEF i, es
    <3> DEFINE later == edges'
    <3>2. Grows(edges, later) /\ Len(later) <= MaxEdges /\ i = FindEdge(later, e, container)
      BY <1>10, <2>6
    <3> HIDE DEF later
    <3>3. ASSUME NEW k
          PROVE  FoundFor(later, Append(connects, Identity(e, container)), k) =
                   IF k = i THEN ConnectsOf(edges, k) \cup {Len(connects) + 1}
                   ELSE ConnectsOf(edges, k)
      BY <1>2, <3>2, FoundMore
    <3> QED
      BY <1>9, <3>1, <3>3 DEF later
  <2> HIDE DEF es, i, S, T
  <2>8. \A k \in EdgeKinds : T(k) <= consumed'[k]
    <3>1. \A k \in EdgeKinds : T(k) = IF i # 0 /\ k = "connected" THEN S(k) + 1 ELSE S(k)
      BY <1>14, <2>4, <2>5
    <3> QED
      BY <1>4, <1>5, <1>6, <1>7, <1>14, <3>1
  <2>9. NoneTurnedAway'
    <3>1. CASE i = 0
      BY <2>3, <2>4, <3>1 DEF NoneTurnedAway
    <3>2. CASE i # 0
      <4>1. ConnectsOf(edges, 0)' = ConnectsOf(edges, 0)
        BY <2>7, <3>2
      <4>2. Len(edges) = MaxEdges => Len(edges') = MaxEdges
        BY <1>4, <1>10, <2>3, <2>4
      <4> QED
        BY <1>7, <4>1, <4>2 DEF NoneTurnedAway
    <3> QED
      BY <3>1, <3>2
  <2>10. ASSUME NEW j \in 1 .. Len(es)
         PROVE  es[j].count["connected"] = Cardinality(ConnectsOf(edges, j))
    <3>1. CASE j \in 1 .. Len(edges) /\ es[j] = edges[j]
      BY <1>7, <3>1 DEF HitsExact
    <3>2. CASE j \notin 1 .. Len(edges) /\ es[j].count["connected"] = 0
      <4>1. ASSUME NEW n \in 1 .. Len(connects), EdgeOf(edges, n) = j
            PROVE  FALSE
        <5>1. EdgeOf(edges, n) = 0 \/ EdgeOf(edges, n) \in 1 .. Len(edges)
          BY <1>3, FindEdgeFinds DEF EdgeOf, Matching
        <5>2. j # 0
          BY <2>2
        <5> QED
          BY <3>2, <4>1, <5>1, <5>2
      <4>2. ConnectsOf(edges, j) = {}
        BY <4>1 DEF ConnectsOf
      <4> QED
        BY <3>2, <4>2, FS_EmptySet
    <3> QED
      BY <2>4, <3>1, <3>2
  <2>11. ASSUME NEW j \in 1 .. Len(edges')
         PROVE  /\ edges'[j].count["connected"] = Cardinality(ConnectsOf(edges, j)')
                /\ edges'[j].count["connected"] > 0
    <3>0. j \in 1 .. Len(es)
      BY <2>3
    <3> DEFINE had == ConnectsOf(edges, j)
               l == Len(connects) + 1
    <3>1. IsFiniteSet(had) /\ Cardinality(had) \in Nat /\ l \notin had
      BY ConnectsFinite
    <3>2. es[j].count["connected"] = Cardinality(had)
      BY <2>10, <3>0
    <3>3. CASE j = i
      <4>1. edges'[j].count["connected"] = es[j].count["connected"] + 1
        BY <1>4, <1>14, <2>5, <3>0, <3>3
      <4>2. ConnectsOf(edges, j)' = had \cup {l}
        BY <2>7, <3>3
      <4> HIDE DEF had, l
      <4>3. Cardinality(had \cup {l}) = Cardinality(had) + 1
        BY <3>1, FS_AddElement
      <4> QED
        BY <3>1, <3>2, <4>1, <4>2, <4>3
    <3>4. CASE j # i
      <4>1. edges'[j].count["connected"] = es[j].count["connected"]
        BY <1>4, <2>5, <3>0, <3>4
      <4>2. j \in 1 .. Len(edges)
        BY <2>4, <3>0, <3>4
      <4>3. edges[j].count["connected"] = Cardinality(had) /\ edges[j].count["connected"] > 0
        BY <1>7, <4>2 DEF HitsExact
      <4>4. ConnectsOf(edges, j)' = had
        BY <2>7, <3>4
      <4> QED
        BY <3>2, <4>1, <4>3, <4>4
    <3> QED
      BY <3>3, <3>4
  <2>12. HitsExact'
    BY <2>11 DEF HitsExact
  <2> QED
    BY <2>8, <2>9, <2>12
<1> QED
  BY <1>12, <1>13, <1>14

(* The hits of an edge are exactly the completed connects that name an     *)
(* address and belong to it (ebpf_event_handler); none of them is turned   *)
(* away while the table has room, no edge is without one, and no other     *)
(* kind is counted more often than it came.                                *)
THEOREM HitsMatch == Spec => []HitsAreConnects
<1>1. Init => HitsAreConnects
  <2> SUFFICES ASSUME Init PROVE HitsAreConnects
    OBVIOUS
  <2>1. edges = << >> /\ edges \in Seq(Edges) /\ Len(edges) = 0
    BY DEF Init
  <2>2. \A k \in EdgeKinds : Sum(k) = 0
    <3>1. \A k \in EdgeKinds : SumOf(edges, k) = 0
      BY <2>1, SumSteps
    <3> QED
      BY <3>1 DEF Sum
  <2>3. \A k \in EdgeKinds : consumed[k] = 0
    BY DEF Init, EdgeKinds, Kinds
  <2>4. ConnectsOf(edges, 0) = {}
    BY DEF Init, ConnectsOf
  <2> QED
    BY <2>1, <2>2, <2>3, <2>4 DEF HitsAreConnects
<1>2. IInv /\ HitsAreConnects /\ [Next]_vars => HitsAreConnects'
  <2> SUFFICES ASSUME IInv, HitsAreConnects, [Next]_vars
               PROVE  HitsAreConnects'
    OBVIOUS
  <2>1. CASE UNCHANGED <<edges, consumed, connects>>
    BY <2>1 DEF HitsAreConnects, Sum, ConnectsOf, EdgeOf
  <2>2. CASE \E ring \in RingNames : Poll(ring)
    BY <2>2, PollCounts
  <2> QED
    BY <2>1, <2>2 DEF Next, ConnectEnter, ConnectExit, ConnectFails, Send, Recv, Retransmit,
       Exit, DrainTraceSpans, ConsumerUnchanged, tableVars, vars
<1> QED
  BY <1>1, <1>2, Invariance, PTL DEF Spec

(* drainTraceSpans reads every span that is in the ring and no other,      *)
(* however often the ring has wrapped.                                     *)
THEOREM DrainComplete == Spec => DrainIndexesRing
<1>1. IInv => [ DrainTraceSpans => /\ RingSpans \subseteq index'
                                   /\ index' \ index \subseteq RingSpans ]_vars
  BY SpansLength, DrainedIsRing DEF DrainTraceSpans
<1> QED
  BY <1>1, Invariance, PTL DEF Spec, DrainIndexesRing
=============================================================================

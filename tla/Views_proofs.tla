---------------------------- MODULE Views_proofs ----------------------------
(***************************************************************************)
(* What others are shown: the aggregator's view of the nodes that push,    *)
(* for every set of machines, timing, clock difference and report; the     *)
(* pods that connections and services are labelled with, for every         *)
(* cluster; and the burn rates, for every traffic.                         *)
(***************************************************************************)
EXTENDS NodePush, DashboardView, SloWindow, SequenceTheorems, FiniteSetTheorems,
        WellFoundedInduction, TLAPS

SnapshotsOK(snapshots) ==
  /\ DOMAIN snapshots \subseteq Ids
  /\ snapshots = [id \in DOMAIN snapshots |-> snapshots[id]]
  /\ \A id \in DOMAIN snapshots : snapshots[id] \in 0 .. MaxAge

(* TypeOK says nothing of how old a request in flight can be, which is     *)
(* what a push is admitted for.                                            *)
NetOK ==
  /\ net \subseteq Requests
  /\ \A r \in net : r.age <= InFlight

IInv ==
  /\ \A n \in Nodes : live[n] \in Lives[n] \cup {Down}
  /\ live = [n \in Nodes |-> live[n]]
  /\ due \in [Nodes -> 0 .. Interval]
  /\ NetOK
  /\ SnapshotsOK(nodes)
  /\ SnapshotsOK(merged)

-----------------------------------------------------------------------------
LEMMA OlderInRange ==
  ASSUME NEW age \in 0 .. MaxAge
  PROVE  Older(age) \in 0 .. MaxAge /\ Older(age) <= age + 1
BY NodePushAssumption DEF Older

LEMMA AgedOK ==
  ASSUME NEW s, SnapshotsOK(s)
  PROVE  SnapshotsOK(Aged(s))
BY OlderInRange DEF SnapshotsOK, Aged

LEMMA EmptyOK == SnapshotsOK(Empty)
BY DEF SnapshotsOK, Empty

LEMMA PruneOK ==
  ASSUME NEW s, SnapshotsOK(s)
  PROVE  SnapshotsOK(Prune(s))
BY DEF SnapshotsOK, Prune

LEMMA SetNodeOK ==
  ASSUME SnapshotsOK(nodes), NEW r \in Requests
  PROVE  SnapshotsOK(SetNode(r))
BY DEF SnapshotsOK, SetNode, Requests

(* A machine's nodeIds are its own.                                        *)
LEMMA IdOfMachine ==
  ASSUME NEW n \in Nodes, NEW l \in Lives[n]
  PROVE  <<n, l>> \in Ids
BY DEF Ids

-----------------------------------------------------------------------------
LEMMA InitIInv == Init => IInv
BY EmptyOK, NodePushAssumption DEF Init, IInv, NetOK

LEMMA PushOnceKeeps ==
  ASSUME IInv, NEW n \in Nodes, PushOnce(n)
  PROVE  IInv'
<1>1. <<n, live[n]>> \in Ids
  BY IdOfMachine DEF IInv, PushOnce
<1>2. NetOK'
  BY <1>1, NodePushAssumption DEF IInv, NetOK, PushOnce, Requests
<1>3. due' \in [Nodes -> 0 .. Interval]
  BY NodePushAssumption DEF IInv, PushOnce
<1> QED
  BY <1>2, <1>3 DEF IInv, PushOnce, SnapshotsOK

LEMMA StartKeeps ==
  ASSUME IInv, NEW n \in Nodes, Start(n)
  PROVE  IInv'
<1>1. PICK l \in Lives[n] : live' = [live EXCEPT ![n] = l]
  BY DEF Start
<1>2. (\A m \in Nodes : live[m] \in Lives[m] \cup {Down})' /\ live' = [m \in Nodes |-> live'[m]]
  BY <1>1 DEF IInv
<1>3. due' \in [Nodes -> 0 .. Interval]
  BY NodePushAssumption DEF IInv, Start
<1> QED
  BY <1>2, <1>3 DEF IInv, Start, SnapshotsOK, NetOK

LEMMA StopKeeps ==
  ASSUME IInv, NEW n \in Nodes, Stop(n)
  PROVE  IInv'
BY DEF IInv, Stop, SnapshotsOK, NetOK

LEMMA PushKeeps ==
  ASSUME IInv, NEW r \in net, Push(r)
  PROVE  IInv'
<1>1. SnapshotsOK(Prune(SetNode(r)))
  BY SetNodeOK, PruneOK DEF IInv, NetOK
<1>2. SnapshotsOK(nodes)' /\ SnapshotsOK(merged)'
  BY <1>1 DEF Push, SnapshotsOK
<1> QED
  BY <1>2 DEF IInv, NetOK, Push

LEMMA TickKeeps ==
  ASSUME IInv, Tick
  PROVE  IInv'
<1>1. SnapshotsOK(nodes)' /\ SnapshotsOK(merged)'
  BY AgedOK DEF IInv, Tick, SnapshotsOK
<1>2. NetOK'
  <2> SUFFICES ASSUME NEW r \in net'
               PROVE  r \in Requests /\ r.age <= InFlight
    BY DEF NetOK
  <2>1. PICK q \in net : q.age < InFlight /\ r = [q EXCEPT !.age = Older(@)]
    BY DEF Tick
  <2>2. q \in Requests
    BY DEF IInv, NetOK
  <2>3. Older(q.age) \in 0 .. MaxAge /\ Older(q.age) <= q.age + 1
    BY <2>2, OlderInRange DEF Requests
  <2> QED
    BY <2>1, <2>2, <2>3, NodePushAssumption DEF Requests
<1>3. due' \in [Nodes -> 0 .. Interval]
  BY NodePushAssumption DEF IInv, Tick
<1> QED
  BY <1>1, <1>2, <1>3 DEF IInv, Tick

LEMMA NextKeeps == IInv /\ [Next]_vars => IInv'
<1> SUFFICES ASSUME IInv, [Next]_vars
             PROVE  IInv'
  OBVIOUS
<1>1. ASSUME NEW n \in Nodes, PushOnce(n) \/ Start(n) \/ Stop(n)
      PROVE  IInv'
  BY <1>1, PushOnceKeeps, StartKeeps, StopKeeps
<1>2. ASSUME NEW r \in net, Push(r)
      PROVE  IInv'
  BY <1>2, PushKeeps
<1>3. ASSUME NEW r \in net, Lose(r)
      PROVE  IInv'
  BY <1>3 DEF IInv, NetOK, Lose, SnapshotsOK
<1>4. CASE RestartAggregator
  <2>1. SnapshotsOK(nodes)' /\ SnapshotsOK(merged)'
    BY <1>4, EmptyOK DEF RestartAggregator, SnapshotsOK
  <2> QED
    BY <1>4, <2>1 DEF IInv, NetOK, RestartAggregator
<1>5. CASE Tick
  BY <1>5, TickKeeps
<1>6. CASE UNCHANGED vars
  BY <1>6 DEF IInv, NetOK, SnapshotsOK, vars
<1> QED
  BY <1>1, <1>2, <1>3, <1>4, <1>5, <1>6 DEF Next

LEMMA Invariance == Spec => []IInv
BY InitIInv, NextKeeps, PTL DEF Spec

(* The variables keep their types, whatever is lost and restarted.         *)
THEOREM TypeCorrect == Spec => []TypeOK
<1>1. IInv => TypeOK
  BY DEF IInv, NetOK, SnapshotsOK, TypeOK
<1> QED
  BY <1>1, Invariance, PTL

-----------------------------------------------------------------------------
(* The view a push returns shows nothing that has been silent for longer   *)
(* than Stale (aggregator.ts:84-104).                                      *)
THEOREM NothingStale == Spec => NothingStaleAfterPush
<1>1. ASSUME NEW r \in net, Push(r), NEW id \in DOMAIN merged'
      PROVE  SeenAge(merged', id) <= Stale
  BY <1>1 DEF Push, Prune, SeenAge
<1>2. [Next]_vars =>
        [\A r \in net : Push(r) => \A id \in DOMAIN merged' : SeenAge(merged', id) <= Stale]_vars
  BY <1>1
<1> QED
  BY <1>2, PTL DEF Spec, NothingStaleAfterPush

(* A snapshot that travelled and lags by no more than Stale is admitted,   *)
(* also when it arrives behind newer ones.                                 *)
THEOREM Admitted == Spec => PushAdmitted
<1>1. ASSUME IInv, NEW r \in net, Push(r), InFlight + Skew[r.id[1]] <= Stale
      PROVE  r.id \in DOMAIN merged'
  <2>1. r \in Requests /\ r.age <= InFlight
    BY <1>1 DEF IInv, NetOK
  <2>2. r.id[1] \in Nodes
    BY <2>1 DEF Requests, Ids
  <2>3. SetNode(r)[r.id] = r.age /\ r.id \in DOMAIN SetNode(r)
    BY DEF SetNode
  <2>4. r.age + Skew[r.id[1]] <= Stale
    BY <1>1, <2>1, <2>2, NodePushAssumption DEF Requests
  <2>5. r.id \in DOMAIN Prune(SetNode(r))
    BY <2>3, <2>4 DEF Prune, SeenAge
  <2> QED
    BY <1>1, <2>5 DEF Push
<1>2. IInv /\ [Next]_vars =>
        [\A r \in net : Push(r) /\ InFlight + Skew[r.id[1]] <= Stale => r.id \in DOMAIN merged']_vars
  BY <1>1
<1> QED
  BY <1>2, Invariance, PTL DEF Spec, PushAdmitted
-----------------------------------------------------------------------------
(* Sums over finite sets, which both the windows and the merge are made    *)
(* of: SumFunctionOnSet takes the elements in an order of its own.         *)
-----------------------------------------------------------------------------

LEMMA Least ==
  ASSUME NEW m \in SUBSET Nat, m # {}
  PROVE  \E i \in m : \A j \in m : i <= j
<1>1. PICK i \in m : \A j \in m : ~(<<j, i>> \in OpToRel(<, Nat))
  BY NatLessThanWellFounded, WFMin
<1>2. \A j \in m : ~(j < i)
  BY <1>1 DEF OpToRel
<1> QED
  BY <1>2

Picked(s) == CHOOSE x \in s : TRUE
SumEquation(sum, f, S) ==
  sum = [s \in SUBSET S |-> IF s = {} THEN 0 ELSE f[Picked(s)] + sum[s \ {Picked(s)}]]

(* The equation up to sets of n elements.                                  *)
SumsUpTo(sum, f, S, n) ==
  /\ sum = [s \in SUBSET S |-> sum[s]]
  /\ \A s \in SUBSET S : Cardinality(s) <= n =>
       sum[s] = IF s = {} THEN 0 ELSE f[Picked(s)] + sum[s \ {Picked(s)}]

LEMMA Smaller ==
  ASSUME NEW s, IsFiniteSet(s), NEW x \in s
  PROVE  /\ IsFiniteSet(s \ {x}) /\ Cardinality(s) \in Nat \ {0}
         /\ Cardinality(s \ {x}) = Cardinality(s) - 1
<1>1. IsFiniteSet(s \ {x}) /\ Cardinality(s \ {x}) = Cardinality(s) - 1
  BY FS_RemoveElement
<1>2. Cardinality(s) \in Nat /\ Cardinality(s) # 0
  BY FS_CardinalityType, FS_EmptySet
<1> QED
  BY <1>1, <1>2

LEMMA PickedIn ==
  ASSUME NEW s, s # {}
  PROVE  Picked(s) \in s
  BY DEF Picked

LEMMA SumsExist ==
  ASSUME NEW f, NEW S, IsFiniteSet(S)
  PROVE  \E sum : SumEquation(sum, f, S)
<1> DEFINE Solved(n) == \E sum : SumsUpTo(sum, f, S, n)
           bad == { n \in Nat : ~Solved(n) }
<1>1. \A s \in SUBSET S : IsFiniteSet(s) /\ Cardinality(s) \in Nat /\ Cardinality(s) <= Cardinality(S)
  BY FS_Subset, FS_CardinalityType
<1>2. bad = {}
  <2> SUFFICES ASSUME bad # {} PROVE FALSE
    OBVIOUS
  <2>1. PICK n \in bad : \A k \in bad : n <= k
    <3>1. bad \in SUBSET Nat
      OBVIOUS
    <3> HIDE DEF bad
    <3> QED
      BY <3>1, Least
  <2>2. CASE n = 0
    <3> DEFINE zero == [s \in SUBSET S |-> 0]
    <3>1. \A s \in SUBSET S : Cardinality(s) <= 0 => s = {}
      BY <1>1, FS_EmptySet
    <3>2. SumsUpTo(zero, f, S, 0)
      BY <3>1 DEF SumsUpTo
    <3> QED
      BY <2>2, <3>2
  <2>3. CASE n # 0
    <3>1. n \in Nat /\ n - 1 \in Nat /\ ~(n <= n - 1)
      BY <2>3
    <3>2. PICK sum : SumsUpTo(sum, f, S, n - 1)
      BY <2>1, <3>1
    <3> DEFINE Further(s) == f[Picked(s)] + sum[s \ {Picked(s)}]
               more == [s \in SUBSET S |-> IF Cardinality(s) = n THEN Further(s) ELSE sum[s]]
    <3>3. ASSUME NEW s \in SUBSET S, Cardinality(s) <= n
          PROVE  more[s] = IF s = {} THEN 0 ELSE f[Picked(s)] + more[s \ {Picked(s)}]
      <4>1. CASE s = {}
        <5>1. Cardinality(s) = 0
          BY <4>1, FS_EmptySet
        <5>2. Cardinality(s) <= n - 1
          BY <3>1, <5>1
        <5>3. sum[s] = IF s = {} THEN 0 ELSE f[Picked(s)] + sum[s \ {Picked(s)}]
          BY <3>2, <5>2 DEF SumsUpTo
        <5> QED
          BY <2>3, <4>1, <5>1, <5>3
      <4>2. CASE s # {}
        <5> DEFINE rest == s \ {Picked(s)}
        <5>1. Cardinality(rest) = Cardinality(s) - 1 /\ Cardinality(s) \in Nat
          BY <1>1, <4>2, PickedIn, Smaller
        <5>2. rest \in SUBSET S /\ Cardinality(rest) # n
          BY <3>1, <3>3, <5>1
        <5>3. more[rest] = sum[rest]
          BY <5>2
        <5>4. CASE Cardinality(s) = n
          BY <4>2, <5>3, <5>4
        <5>5. CASE Cardinality(s) # n
          <6>1. Cardinality(s) <= n - 1
            BY <3>1, <3>3, <5>1, <5>5
          <6>2. sum[s] = f[Picked(s)] + sum[rest]
            BY <3>2, <4>2, <6>1 DEF SumsUpTo
          <6> QED
            BY <4>2, <5>3, <5>5, <6>2
        <5> QED
          BY <5>4, <5>5
      <4> QED
        BY <4>1, <4>2
    <3>4. more = [s \in SUBSET S |-> more[s]]
      OBVIOUS
    <3> HIDE DEF more
    <3>5. SumsUpTo(more, f, S, n)
      BY <3>3, <3>4 DEF SumsUpTo
    <3> QED
      BY <3>5
  <2> QED
    BY <2>2, <2>3
<1>3. PICK sum : SumsUpTo(sum, f, S, Cardinality(S))
  <2>1. Cardinality(S) \in Nat
    BY FS_CardinalityType
  <2> QED
    BY <1>2, <2>1
<1>4. sum = [s \in SUBSET S |-> IF s = {} THEN 0 ELSE f[Picked(s)] + sum[s \ {Picked(s)}]]
  <2>1. \A s \in SUBSET S : sum[s] = IF s = {} THEN 0 ELSE f[Picked(s)] + sum[s \ {Picked(s)}]
    BY <1>1, <1>3 DEF SumsUpTo
  <2>2. sum = [s \in SUBSET S |-> sum[s]]
    BY <1>3 DEF SumsUpTo
  <2> QED
    BY <2>1, <2>2
<1> QED
  BY <1>4 DEF SumEquation

LEMMA SumChosen ==
  ASSUME NEW f, NEW S, IsFiniteSet(S)
  PROVE  \E sum : SumEquation(sum, f, S) /\ SumFunctionOnSet(f, S) = sum[S]
<1> DEFINE sum == CHOOSE sum : SumEquation(sum, f, S)
<1>1. SumFunctionOnSet(f, S) = sum[S]
  BY DEF SumFunctionOnSet, FoldFunctionOnSet, MapThenFoldSet, SumEquation, Picked
<1>2. SumEquation(sum, f, S)
  BY SumsExist
<1> HIDE DEF sum
<1> QED
  BY <1>1, <1>2

(* Solutions for a set and for a part of it agree on the part.             *)
LEMMA SumsAgree ==
  ASSUME NEW f, NEW S, IsFiniteSet(S), NEW T \in SUBSET S, NEW a, NEW b,
         SumEquation(a, f, S), SumEquation(b, f, T)
  PROVE  \A s \in SUBSET T : a[s] = b[s]
<1> DEFINE bad == { n \in Nat : \E s \in SUBSET T : Cardinality(s) = n /\ a[s] # b[s] }
<1>1. \A s \in SUBSET T : IsFiniteSet(s) /\ Cardinality(s) \in Nat /\ s \in SUBSET S
  BY FS_Subset, FS_CardinalityType
<1>2. ASSUME bad # {} PROVE FALSE
  <2>1. PICK n \in bad : \A k \in bad : n <= k
    <3>1. bad \in SUBSET Nat
      OBVIOUS
    <3> HIDE DEF bad
    <3> QED
      BY <1>2, <3>1, Least
  <2>2. PICK s \in SUBSET T : Cardinality(s) = n /\ a[s] # b[s]
    OBVIOUS
  <2>3. CASE s = {}
    BY <1>1, <2>2, <2>3 DEF SumEquation
  <2>4. CASE s # {}
    <3> DEFINE rest == s \ {Picked(s)}
    <3>1. Cardinality(rest) = n - 1 /\ rest \in SUBSET T /\ n \in Nat \ {0}
      BY <1>1, <2>2, <2>4, PickedIn, Smaller
    <3>2. ~(n <= n - 1) /\ n - 1 \in Nat
      BY <3>1
    <3>3. a[rest] = b[rest]
      BY <2>1, <3>1, <3>2
    <3>4. a[s] = f[Picked(s)] + a[rest]
      BY <1>1, <2>4 DEF SumEquation
    <3>5. b[s] = f[Picked(s)] + b[rest]
      BY <2>4 DEF SumEquation
    <3> QED
      BY <2>2, <3>3, <3>4, <3>5
  <2> QED
    BY <2>3, <2>4
<1> QED
  BY <1>1, <1>2

LEMMA SumUnfolds ==
  ASSUME NEW f, NEW S, IsFiniteSet(S)
  PROVE  SumFunctionOnSet(f, S) =
           IF S = {} THEN 0 ELSE f[Picked(S)] + SumFunctionOnSet(f, S \ {Picked(S)})
<1>1. PICK a : SumEquation(a, f, S) /\ SumFunctionOnSet(f, S) = a[S]
  BY SumChosen
<1>2. a[S] = IF S = {} THEN 0 ELSE f[Picked(S)] + a[S \ {Picked(S)}]
  BY <1>1 DEF SumEquation
<1> DEFINE rest == S \ {Picked(S)}
<1>3. IsFiniteSet(rest) /\ rest \in SUBSET S
  BY FS_Subset
<1> HIDE DEF rest
<1>4. PICK b : SumEquation(b, f, rest) /\ SumFunctionOnSet(f, rest) = b[rest]
  BY <1>3, SumChosen
<1>5. a[rest] = b[rest]
  BY <1>1, <1>3, <1>4, SumsAgree
<1> QED
  BY <1>1, <1>2, <1>4, <1>5 DEF rest

LEMMA SumType ==
  ASSUME NEW f, NEW S, IsFiniteSet(S), \A x \in S : f[x] \in Int
  PROVE  SumFunctionOnSet(f, S) \in Int
<1> DEFINE bad == { n \in Nat : \E s \in SUBSET S : Cardinality(s) = n /\ SumFunctionOnSet(f, s) \notin Int }
<1>1. \A s \in SUBSET S : IsFiniteSet(s) /\ Cardinality(s) \in Nat
  BY FS_Subset, FS_CardinalityType
<1>2. ASSUME bad # {} PROVE FALSE
  <2>1. PICK n \in bad : \A k \in bad : n <= k
    <3>1. bad \in SUBSET Nat
      OBVIOUS
    <3> HIDE DEF bad
    <3> QED
      BY <1>2, <3>1, Least
  <2>2. PICK s \in SUBSET S : Cardinality(s) = n /\ SumFunctionOnSet(f, s) \notin Int
    OBVIOUS
  <2> DEFINE rest == s \ {Picked(s)}
  <2>3. SumFunctionOnSet(f, s) = IF s = {} THEN 0 ELSE f[Picked(s)] + SumFunctionOnSet(f, rest)
    BY <1>1, SumUnfolds
  <2>4. s # {}
    BY <2>2, <2>3
  <2>5. Cardinality(rest) = n - 1 /\ rest \in SUBSET S /\ n \in Nat \ {0}
    BY <1>1, <2>2, <2>4, PickedIn, Smaller
  <2>6. ~(n <= n - 1) /\ n - 1 \in Nat
    BY <2>5
  <2>7. SumFunctionOnSet(f, rest) \in Int
    BY <2>1, <2>5, <2>6
  <2>8. f[Picked(s)] \in Int
    BY <2>4, PickedIn
  <2> QED
    BY <2>2, <2>3, <2>4, <2>7, <2>8
<1>3. S \in SUBSET S
  OBVIOUS
<1> QED
  BY <1>1, <1>2, <1>3

(* Any element may be taken first.                                         *)
LEMMA SumStep ==
  ASSUME NEW f, NEW S, IsFiniteSet(S), \A y \in S : f[y] \in Int, NEW x \in S
  PROVE  SumFunctionOnSet(f, S) = f[x] + SumFunctionOnSet(f, S \ {x})
<1> DEFINE SumTo(s) == SumFunctionOnSet(f, s)
           Wrong(s) == \E y \in s : SumTo(s) # f[y] + SumTo(s \ {y})
           bad == { n \in Nat : \E s \in SUBSET S : Cardinality(s) = n /\ Wrong(s) }
<1>1. \A s \in SUBSET S : IsFiniteSet(s) /\ Cardinality(s) \in Nat /\ SumTo(s) \in Int
  BY FS_Subset, FS_CardinalityType, SumType
<1>2. \A s \in SUBSET S : s # {} => SumTo(s) = f[Picked(s)] + SumTo(s \ {Picked(s)})
  BY <1>1, SumUnfolds
<1> HIDE DEF SumTo
<1>3. ASSUME bad # {} PROVE FALSE
  <2>1. PICK n \in bad : \A k \in bad : n <= k
    <3>1. bad \in SUBSET Nat
      OBVIOUS
    <3> HIDE DEF bad
    <3> QED
      BY <1>3, <3>1, Least
  <2>2. PICK s \in SUBSET S : Cardinality(s) = n /\ Wrong(s)
    OBVIOUS
  <2>3. PICK y \in s : SumTo(s) # f[y] + SumTo(s \ {y})
    BY <2>2
  <2> DEFINE c == Picked(s)
             both == s \ {c, y}
  <2>4. c \in s /\ SumTo(s) = f[c] + SumTo(s \ {c})
    BY <1>2, PickedIn
  <2>5. c # y
    BY <2>3, <2>4
  <2> HIDE DEF c
  <2>6. /\ Cardinality(s \ {c}) = n - 1 /\ Cardinality(s \ {y}) = n - 1
        /\ ~(n <= n - 1) /\ n - 1 \in Nat
    BY <1>1, <2>2, <2>3, <2>4, Smaller
  <2>7. ~Wrong(s \ {c}) /\ ~Wrong(s \ {y})
    BY <2>1, <2>6
  <2>8. (s \ {c}) \ {y} = both /\ (s \ {y}) \ {c} = both
    OBVIOUS
  <2>9. SumTo(s \ {c}) = f[y] + SumTo(both)
    BY <2>3, <2>5, <2>7, <2>8
  <2>10. SumTo(s \ {y}) = f[c] + SumTo(both)
    BY <2>4, <2>5, <2>7, <2>8
  <2>11. SumTo(both) \in Int /\ f[y] \in Int /\ f[c] \in Int
    BY <1>1, <2>3, <2>4
  <2> QED
    BY <2>3, <2>4, <2>9, <2>10, <2>11
<1>4. S \in SUBSET S /\ Cardinality(S) \in Nat
  BY <1>1
<1>5. ~Wrong(S)
  <2> HIDE DEF Wrong
  <2> QED
    BY <1>3, <1>4
<1> QED
  BY <1>5 DEF SumTo

LEMMA SumOfNone ==
  ASSUME NEW f
  PROVE  SumFunctionOnSet(f, {}) = 0
<1>1. IsFiniteSet({})
  BY FS_EmptySet
<1> QED
  BY <1>1, SumUnfolds

(* A sum depends on the values over its set alone.                         *)
LEMMA SumSame ==
  ASSUME NEW f, NEW g, NEW S, IsFiniteSet(S), \A x \in S : f[x] = g[x]
  PROVE  SumFunctionOnSet(f, S) = SumFunctionOnSet(g, S)
<1> DEFINE bad == { n \in Nat : \E s \in SUBSET S :
                      Cardinality(s) = n /\ SumFunctionOnSet(f, s) # SumFunctionOnSet(g, s) }
<1>1. \A s \in SUBSET S : IsFiniteSet(s) /\ Cardinality(s) \in Nat
  BY FS_Subset, FS_CardinalityType
<1>2. ASSUME bad # {} PROVE FALSE
  <2>1. PICK n \in bad : \A k \in bad : n <= k
    <3>1. bad \in SUBSET Nat
      OBVIOUS
    <3> HIDE DEF bad
    <3> QED
      BY <1>2, <3>1, Least
  <2>2. PICK s \in SUBSET S : Cardinality(s) = n /\ SumFunctionOnSet(f, s) # SumFunctionOnSet(g, s)
    OBVIOUS
  <2> DEFINE rest == s \ {Picked(s)}
  <2>3. /\ SumFunctionOnSet(f, s) = IF s = {} THEN 0 ELSE f[Picked(s)] + SumFunctionOnSet(f, rest)
        /\ SumFunctionOnSet(g, s) = IF s = {} THEN 0 ELSE g[Picked(s)] + SumFunctionOnSet(g, rest)
    BY <1>1, SumUnfolds
  <2>4. s # {}
    BY <2>2, <2>3
  <2>5. Cardinality(rest) = n - 1 /\ rest \in SUBSET S /\ n \in Nat \ {0}
    BY <1>1, <2>2, <2>4, PickedIn, Smaller
  <2>6. ~(n <= n - 1) /\ n - 1 \in Nat
    BY <2>5
  <2>7. SumFunctionOnSet(f, rest) = SumFunctionOnSet(g, rest)
    BY <2>1, <2>5, <2>6
  <2>8. f[Picked(s)] = g[Picked(s)]
    BY <2>4, PickedIn
  <2> QED
    BY <2>2, <2>3, <2>4, <2>7, <2>8
<1>3. S \in SUBSET S
  OBVIOUS
<1> QED
  BY <1>1, <1>2, <1>3

(* Counting by classes: a sum of the sizes of classes.                     *)
LEMMA SumOfClasses ==
  ASSUME NEW f, NEW S, IsFiniteSet(S), NEW I, IsFiniteSet(I), NEW class,
         \A x \in S : f[x] = Cardinality({ i \in I : class[i] = x })
  PROVE  SumFunctionOnSet(f, S) = Cardinality({ i \in I : class[i] \in S })
<1> DEFINE Of(s) == { i \in I : class[i] \in s }
           One(x) == { i \in I : class[i] = x }
           Right(s) == SumFunctionOnSet(f, s) = Cardinality(Of(s))
           bad == { n \in Nat : \E s \in SUBSET S : Cardinality(s) = n /\ ~Right(s) }
<1>1. \A s \in SUBSET S : IsFiniteSet(s) /\ Cardinality(s) \in Nat
  BY FS_Subset, FS_CardinalityType
<1>2. ASSUME bad # {} PROVE FALSE
  <2>1. PICK n \in bad : \A k \in bad : n <= k
    <3>1. bad \in SUBSET Nat
      OBVIOUS
    <3> HIDE DEF bad
    <3> QED
      BY <1>2, <3>1, Least
  <2>2. PICK s \in SUBSET S : Cardinality(s) = n /\ ~Right(s)
    OBVIOUS
  <2>3. s # {}
    <3>1. ASSUME s = {} PROVE Right(s)
      <4>1. Of(s) = {}
        BY <3>1
      <4> QED
        BY <3>1, <4>1, SumOfNone, FS_EmptySet
    <3> QED
      BY <2>2, <3>1
  <2> DEFINE x == Picked(s)
             rest == s \ {x}
  <2>4. SumFunctionOnSet(f, s) = f[x] + SumFunctionOnSet(f, rest)
    BY <1>1, <2>3, SumUnfolds
  <2>5. x \in s
    BY <2>3, PickedIn
  <2> HIDE DEF x
  <2>6. Cardinality(rest) = n - 1 /\ rest \in SUBSET S /\ n \in Nat \ {0}
    BY <1>1, <2>2, <2>5, Smaller
  <2>7. ~(n <= n - 1) /\ n - 1 \in Nat
    BY <2>6
  <2>8. Right(rest)
    BY <2>1, <2>6, <2>7
  <2>9. Of(s) = Of(rest) \cup One(x) /\ Of(rest) \cap One(x) = {}
    BY <2>5
  <2>10. IsFiniteSet(Of(rest)) /\ IsFiniteSet(One(x))
    BY FS_Subset
  <2>11. f[x] = Cardinality(One(x))
    BY <2>5
  <2> HIDE DEF rest, Of, One
  <2>12. Cardinality(Of(s)) = Cardinality(Of(rest)) + Cardinality(One(x)) - Cardinality(Of(rest) \cap One(x))
    BY <2>9, <2>10, FS_Union
  <2>13. Cardinality(Of(rest)) \in Nat /\ Cardinality(One(x)) \in Nat
    BY <2>10, FS_CardinalityType
  <2>14. Cardinality(Of(rest) \cap One(x)) = 0
    BY <2>9, FS_EmptySet
  <2>15. Right(s)
    BY <2>4, <2>8, <2>11, <2>12, <2>13, <2>14
  <2> QED
    BY <2>2, <2>15
<1>3. S \in SUBSET S /\ Cardinality(S) \in Nat
  BY <1>1
<1>4. Right(S)
  <2> HIDE DEF Right
  <2> QED
    BY <1>2, <1>3
<1> QED
  BY <1>4

-----------------------------------------------------------------------------
(* The pods of the last list, for every cluster and whatever it answers.   *)
-----------------------------------------------------------------------------

(* The equation of the function `upto' of Fill.                            *)
FillStep(map, item) == IF item.ip = NoName THEN map ELSE SetPod(map, PodInfo(item))
FillUpTo(upto, map, items, n) ==
  upto = [i \in 0 .. n |-> IF i = 0 THEN map ELSE FillStep(upto[i - 1], items[i])]

LEMMA FillRuns ==
  ASSUME NEW map, NEW items, NEW n \in Nat
  PROVE  \E upto : FillUpTo(upto, map, items, n)
<1> DEFINE Solved(m) == \E upto : FillUpTo(upto, map, items, m)
           bad == { m \in Nat : ~Solved(m) }
<1> SUFFICES ASSUME bad # {} PROVE FALSE
  OBVIOUS
<1>1. PICK m \in bad : \A k \in bad : m <= k
  <2>1. bad \in SUBSET Nat
    OBVIOUS
  <2> HIDE DEF bad
  <2> QED
    BY <2>1, Least
<1>2. CASE m = 0
  <2> DEFINE one == [i \in 0 .. 0 |-> map]
  <2>1. FillUpTo(one, map, items, 0)
    BY DEF FillUpTo
  <2> QED
    BY <1>2, <2>1
<1>3. CASE m # 0
  <2>1. m - 1 \in Nat /\ ~(m <= m - 1) /\ m \in Nat
    BY <1>3
  <2>2. PICK upto : FillUpTo(upto, map, items, m - 1)
    BY <1>1, <2>1
  <2> DEFINE final == FillStep(upto[m - 1], items[m])
             more == [i \in 0 .. m |-> IF i = m THEN final ELSE upto[i]]
  <2>3. \A i \in 0 .. m - 1 : more[i] = upto[i]
    BY <2>1
  <2>4. more[m] = final /\ m - 1 \in 0 .. m - 1
    BY <2>1
  <2>5. ASSUME NEW i \in 0 .. m
        PROVE  more[i] = IF i = 0 THEN map ELSE FillStep(more[i - 1], items[i])
    <3>1. CASE i = m
      BY <1>3, <2>3, <2>4, <3>1
    <3>2. CASE i # m
      <4>1. i \in 0 .. m - 1 /\ (i # 0 => i - 1 \in 0 .. m - 1)
        BY <2>1, <3>2
      <4>2. upto[i] = IF i = 0 THEN map ELSE FillStep(upto[i - 1], items[i])
        BY <2>2, <4>1 DEF FillUpTo
      <4> HIDE DEF more
      <4> QED
        BY <2>3, <4>1, <4>2
    <3> QED
      BY <3>1, <3>2
  <2>6. more = [i \in 0 .. m |-> more[i]]
    OBVIOUS
  <2> HIDE DEF more
  <2>7. FillUpTo(more, map, items, m)
    BY <2>5, <2>6 DEF FillUpTo
  <2> QED
    BY <2>7
<1> QED
  BY <1>2, <1>3

(* What a map of the pods of a list looks like.                            *)
InfosOf(items) == { PodInfo(items[k]) : k \in 1 .. Len(items) }
IsPodMap(map, infos) ==
  /\ map \in Seq(infos)
  /\ \A i, j \in 1 .. Len(map) : map[i].ip = map[j].ip => i = j

LEMMA SetPodKeeps ==
  ASSUME NEW infos, NEW map, IsPodMap(map, infos), NEW info \in infos
  PROVE  IsPodMap(SetPod(map, info), infos)
<1> DEFINE n == Len(map)
           later == SetPod(map, info)
<1>1. n \in Nat /\ DOMAIN map = 1 .. n /\ map \in Seq(infos)
  BY LenProperties DEF IsPodMap
<1>2. CASE \E k \in DOMAIN map : map[k].ip = info.ip
  <2>1. later = [k \in 1 .. n |-> IF map[k].ip = info.ip THEN info ELSE map[k]]
    BY <1>1, <1>2 DEF SetPod
  <2>2. \A k \in 1 .. n : map[k] \in infos
    BY <1>1
  <2> HIDE DEF later, n
  <2>3. later \in Seq(infos) /\ Len(later) = n
    BY <1>1, <2>1, <2>2
  <2>4. \A k \in 1 .. n : later[k].ip = map[k].ip
    BY <2>1
  <2> QED
    BY <2>3, <2>4 DEF IsPodMap, n, later
<1>3. CASE ~\E k \in DOMAIN map : map[k].ip = info.ip
  <2>1. later = Append(map, info)
    BY <1>3 DEF SetPod
  <2>2. /\ later \in Seq(infos) /\ Len(later) = n + 1
        /\ \A k \in 1 .. n : later[k] = map[k]
        /\ later[n + 1] = info
    BY <1>1, <2>1, AppendProperties
  <2> HIDE DEF later, n
  <2>3. \A k \in 1 .. n + 1 : k \in 1 .. n \/ k = n + 1
    BY <1>1
  <2>4. \A k \in 1 .. n : later[k].ip = map[k].ip /\ later[k].ip # info.ip
    BY <1>1, <1>3, <2>2
  <2>5. \A i, j \in 1 .. n + 1 : later[i].ip = later[j].ip => i = j
    <3> SUFFICES ASSUME NEW i \in 1 .. n + 1, NEW j \in 1 .. n + 1, later[i].ip = later[j].ip
                 PROVE  i = j
      OBVIOUS
    <3>1. CASE i \in 1 .. n /\ j \in 1 .. n
      BY <2>4, <3>1 DEF IsPodMap, n
    <3>2. CASE ~(i \in 1 .. n /\ j \in 1 .. n)
      BY <2>2, <2>3, <2>4, <3>2
    <3> QED
      BY <3>1, <3>2
  <2> QED
    BY <2>2, <2>5 DEF IsPodMap, later
<1> QED
  BY <1>2, <1>3

LEMMA RebuildsMap ==
  ASSUME NEW items, Len(items) \in Nat
  PROVE  IsPodMap(Rebuild(items), InfosOf(items))
<1> DEFINE n == Len(items)
           infos == InfosOf(items)
           f == CHOOSE upto : FillUpTo(upto, << >>, items, n)
           bad == { m \in 0 .. n : ~IsPodMap(f[m], infos) }
<1>1. FillUpTo(f, << >>, items, n)
  BY FillRuns
<1>2. Rebuild(items) = f[n]
  BY DEF Rebuild, Fill, FillUpTo, FillStep
<1> HIDE DEF f
<1>3. bad = {}
  <2> SUFFICES ASSUME bad # {} PROVE FALSE
    OBVIOUS
  <2>1. bad \in SUBSET Nat
    OBVIOUS
  <2>2. PICK m \in bad : \A k \in bad : m <= k
    <3> HIDE DEF bad
    <3> QED
      BY <2>1, Least
  <2>3. m \in 0 .. n /\ ~IsPodMap(f[m], infos)
    OBVIOUS
  <2>4. m # 0
    <3>1. f[0] = << >>
      BY <1>1 DEF FillUpTo
    <3>2. IsPodMap(<< >>, infos)
      BY DEF IsPodMap
    <3> QED
      BY <2>3, <3>1, <3>2
  <2>5. m - 1 \in 0 .. n /\ ~(m <= m - 1) /\ m \in 1 .. n
    BY <2>3, <2>4
  <2>6. IsPodMap(f[m - 1], infos)
    BY <2>2, <2>5
  <2>7. f[m] = FillStep(f[m - 1], items[m])
    BY <1>1, <2>3, <2>4 DEF FillUpTo
  <2>8. PodInfo(items[m]) \in infos
    BY <2>5 DEF InfosOf
  <2>9. IsPodMap(f[m], infos)
    <3> HIDE DEF infos
    <3> QED
      BY <2>6, <2>7, <2>8, SetPodKeeps DEF FillStep
  <2> QED
    BY <2>3, <2>9
<1>4. n \in 0 .. n
  OBVIOUS
<1> QED
  BY <1>2, <1>3, <1>4

(* A lookup answers with a pod of the map or with none.                    *)
NameOfMap(map, pod) == pod = NoName \/ \E k \in 1 .. Len(map) : pod = map[k].name

LEMMA LeastOf ==
  ASSUME NEW n \in Nat, NEW chosen \in SUBSET (1 .. n), chosen # {}
  PROVE  Min(chosen) \in 1 .. n /\ Max(chosen) \in 1 .. n
<1>1. \E i \in chosen : \A j \in chosen : i <= j
  <2>1. chosen \in SUBSET Nat
    OBVIOUS
  <2> QED
    BY <2>1, Least
<1>2. \E i \in chosen : \A j \in chosen : i >= j
  <2> DEFINE mirror == { k \in Nat : n - k \in chosen }
  <2>1. PICK i \in chosen : TRUE
    OBVIOUS
  <2>2. n - i \in mirror
    OBVIOUS
  <2>3. mirror \in SUBSET Nat /\ mirror # {}
    BY <2>2
  <2> HIDE DEF mirror
  <2>4. PICK k \in mirror : \A l \in mirror : k <= l
    BY <2>3, Least
  <2> USE DEF mirror
  <2>5. n - k \in chosen /\ k \in Nat
    OBVIOUS
  <2>6. \A j \in chosen : n - j \in mirror
    OBVIOUS
  <2>7. \A j \in chosen : n - k >= j
    BY <2>4, <2>5, <2>6
  <2> QED
    BY <2>5, <2>7
<1> QED
  BY <1>1, <1>2 DEF Min, Max

LEMMA LookUpKnown ==
  ASSUME NEW k8s, Len(k8s.podMap) \in Nat, NEW ip
  PROVE  NameOfMap(k8s.podMap, LookUpPod(k8s, ip))
<1> DEFINE map == k8s.podMap
           hits == { i \in 1 .. Len(map) : map[i].ip = ip }
           at == IF hits # {} THEN Min(hits) ELSE 0
<1>1. LookUpPod(k8s, ip) = IF at = 0 THEN NoName ELSE map[at].name
  BY DEF LookUpPod, SelectInSeq
<1>2. at = 0 \/ at \in 1 .. Len(map)
  BY LeastOf
<1> HIDE DEF at
<1> QED
  BY <1>1, <1>2 DEF NameOfMap

LEMMA FindKnown ==
  ASSUME NEW map, Len(map) \in Nat, NEW comm
  PROVE  NameOfMap(map, FindPodByComm(map, comm))
<1> DEFINE exacts == { i \in 1 .. Len(map) : IsDeployment(map[i], comm) }
           likelies == { i \in 1 .. Len(map) : IsCandidate(map[i], comm) }
           exact == IF exacts # {} THEN Min(exacts) ELSE 0
           likely == IF likelies # {} THEN Max(likelies) ELSE 0
<1>1. FindPodByComm(map, comm) =
        IF comm = NoName \/ exact + likely = 0 THEN NoName
        ELSE map[IF exact > 0 THEN exact ELSE likely].name
  BY DEF FindPodByComm, SelectInSeq, SelectLastInSeq
<1>2. exact = 0 \/ exact \in 1 .. Len(map)
  BY LeastOf
<1>3. likely = 0 \/ likely \in 1 .. Len(map)
  BY LeastOf
<1> HIDE DEF exact, likely
<1>4. CASE comm = NoName \/ exact + likely = 0
  BY <1>1, <1>4 DEF NameOfMap
<1>5. CASE ~(comm = NoName \/ exact + likely = 0)
  <2>1. (IF exact > 0 THEN exact ELSE likely) \in 1 .. Len(map)
    BY <1>2, <1>3, <1>5
  <2> QED
    BY <1>1, <1>5, <2>1 DEF NameOfMap
<1> QED
  BY <1>4, <1>5

(* The map is that of the last list, or the one of a list that could not   *)
(* be read.                                                                *)
Listings == Clusters \cup { << >> }

PodInv ==
  /\ pods \in Listings /\ answered \in Listings
  /\ IF fetch.at = "listed" THEN fetch.items \in Listings ELSE fetch.items = << >>
  /\ podMap = Rebuild(answered) \/ podMap = << >>

LEMMA ListingLength ==
  ASSUME NEW items \in Listings
  PROVE  Len(items) \in Nat /\ DOMAIN items = 1 .. Len(items)
<1>1. << >> \in Seq({}) /\ \A list \in Clusters : list \in Seq({ list[k] : k \in DOMAIN list })
  BY PodsAssumption
<1> QED
  BY <1>1, LenProperties DEF Listings

LEMMA NothingRebuilds == Rebuild(<< >>) = << >>
<1>1. Len(<< >>) \in Nat /\ InfosOf(<< >>) = {}
  BY DEF InfosOf
<1>2. IsPodMap(Rebuild(<< >>), {})
  BY <1>1, RebuildsMap
<1>3. Rebuild(<< >>) \in Seq({})
  BY <1>2 DEF IsPodMap
<1> QED
  BY <1>3

LEMMA PodsKeep == PodInv /\ [DashboardNext]_dashboardVars => PodInv'
<1> SUFFICES ASSUME PodInv, [DashboardNext]_dashboardVars PROVE PodInv'
  OBVIOUS
<1> DEFINE Same == UNCHANGED <<pods, podMap, fetch, answered>>
<1>1. CASE Same
  BY <1>1 DEF PodInv
<1>2. CASE ListPods
  BY <1>2 DEF PodInv, ListPods, Listed, Failed, Answered
<1>3. CASE SendNoList
  BY <1>3 DEF PodInv, SendNoList, Answered
<1>4. CASE RefreshPods
  BY <1>4, NothingRebuilds DEF PodInv, RefreshPods, Ends, NoFetch
<1>5. CASE PollTimerFires
  BY <1>5 DEF PodInv, PollTimerFires, Fires, Asked
<1>6. CASE PodsChange
  BY <1>6 DEF PodInv, PodsChange, Listings
<1>7. PodMoves => ListPods \/ SendNoList \/ RefreshPods \/ PollTimerFires \/ PodsChange
  BY DEF PodMoves, PodNext
<1>8. HostChanges => Same
  BY DEF HostChanges
<1>9. Polling => Same
  BY DEF Polling, Mount, PollFires, podVars
<1>10. Answers => Same
  BY DEF Answers, AnswerPoll, podVars
<1>11. Arrives => Same
  BY DEF Arrives, Arrive, Receive, podVars
<1>12. (\E i \in DOMAIN flights : Fail(i)) => Same
  BY DEF Fail, Receive, podVars
<1>13. UNCHANGED dashboardVars => Same
  BY DEF dashboardVars, podVars
<1> HIDE DEF Same
<1> QED
  BY <1>1, <1>2, <1>3, <1>4, <1>5, <1>6, <1>7, <1>8, <1>9, <1>10, <1>11, <1>12, <1>13
     DEF DashboardNext

(* Whatever the map is, it shows pods of the last list.                    *)
LEMMA LabelsKnown == PodInv => LabelsAreOfLastList
<1> SUFFICES ASSUME PodInv PROVE LabelsAreOfLastList
  OBVIOUS
<1> DEFINE Known(pod) == pod = NoName \/ \E k \in DOMAIN answered : answered[k].name = pod
           infos == InfosOf(answered)
<1>1. Len(answered) \in Nat /\ DOMAIN answered = 1 .. Len(answered)
  BY ListingLength DEF PodInv
<1>2. IsPodMap(podMap, infos)
  <2>1. IsPodMap(Rebuild(answered), infos)
    BY <1>1, RebuildsMap
  <2>2. IsPodMap(<< >>, infos)
    BY DEF IsPodMap
  <2> QED
    BY <2>1, <2>2 DEF PodInv
<1>3. Len(podMap) \in Nat /\ DOMAIN podMap = 1 .. Len(podMap)
      /\ \A i \in 1 .. Len(podMap) : podMap[i] \in infos
  <2> HIDE DEF infos
  <2> QED
    BY <1>2, LenProperties DEF IsPodMap
<1>4. \A i \in DOMAIN podMap : \E k \in DOMAIN answered : PodInfo(answered[k]) = podMap[i]
  BY <1>1, <1>3 DEF InfosOf
<1>5. \A i, j \in DOMAIN podMap : podMap[i].ip = podMap[j].ip => i = j
  BY <1>2, <1>3 DEF IsPodMap
<1>6. ASSUME NEW pod, NameOfMap(podMap, pod)
      PROVE  Known(pod)
  <2>1. \A i \in DOMAIN podMap : \E k \in DOMAIN answered : answered[k].name = podMap[i].name
    BY <1>4 DEF PodInfo
  <2> QED
    BY <1>3, <1>6, <2>1 DEF NameOfMap
<1>7. Known(NoName)
  OBVIOUS
<1>8. Reading.k8s.podMap = podMap
  BY DEF Reading, K8sDiscovery
<1>9. ASSUME NEW e \in Range(Edges(Reading))
      PROVE  Known(e.sourcePod) /\ Known(e.targetPod)
  <2> DEFINE k8s == Reading.k8s
             edges == TopologyEdges(Reading.host.records)
  <2>1. Edges(Reading) = EnrichEdges(k8s, edges)
    BY DEF Edges
  <2> HIDE DEF k8s, edges
  <2>2. PICK i \in DOMAIN edges : e = EnrichEdges(k8s, edges)[i]
    BY <2>1 DEF Range, EnrichEdges
  <2>3. /\ e.sourcePod = IF k8s.initialized THEN LookUpPod(k8s, edges[i].sourceIp) ELSE NoName
        /\ e.targetPod = IF k8s.initialized THEN LookUpPod(k8s, edges[i].destIp) ELSE NoName
    BY <2>2 DEF EnrichEdges
  <2>4. ASSUME NEW ip
        PROVE  Known(LookUpPod(k8s, ip))
    <3>1. k8s.podMap = podMap
      BY <1>8 DEF k8s
    <3>2. NameOfMap(podMap, LookUpPod(k8s, ip))
      BY <1>3, <3>1, LookUpKnown
    <3> QED
      BY <1>6, <3>2
  <2> HIDE DEF Known
  <2> QED
    BY <1>7, <2>3, <2>4
<1>10. ASSUME NEW s \in Range(ServicesAnswer(Reading))
       PROVE  Known(s.pod)
  <2> DEFINE k8s == Reading.k8s
             comms == Reading.host.comms
  <2>1. ServicesAnswer(Reading) = EnrichServices(k8s, comms)
    BY DEF ServicesAnswer
  <2>2. k8s.podMap = podMap
    BY <1>8
  <2> HIDE DEF k8s, comms
  <2>3. PICK i \in DOMAIN comms : s = EnrichServices(k8s, comms)[i]
    BY <2>1 DEF Range, EnrichServices
  <2>4. s.pod = IF k8s.initialized THEN FindPodByComm(k8s.podMap, comms[i]) ELSE NoName
    BY <2>3 DEF EnrichServices
  <2>5. Known(FindPodByComm(podMap, comms[i]))
    BY <1>3, <1>6, FindKnown
  <2> HIDE DEF Known
  <2> QED
    BY <1>7, <2>2, <2>4, <2>5
<1> QED
  BY <1>4, <1>5, <1>9, <1>10 DEF LabelsAreOfLastList

(* A pod that is shown with a connection or a service was in the last list *)
(* that could be read, with that address and no other pod beside it: for   *)
(* every cluster, through addresses that pass from pod to pod, lists that  *)
(* fail and lists that cannot be read.                                     *)
THEOREM LabelsAreKnown == DashboardSpec => []LabelsAreOfLastList
<1>1. DashboardInit => PodInv
  BY DEF DashboardInit, PodInit, PodInv, Listings, Asked, NoFetch
<1> QED
  BY <1>1, PodsKeep, LabelsKnown, PTL DEF DashboardSpec
-----------------------------------------------------------------------------
(* The burn rates, for every window, bucket, objective and traffic.        *)
-----------------------------------------------------------------------------

(* The bucket of each bad event, by the event's place in the history.      *)
BucketsOf(w, bad) == [i \in 1 .. Len(bad) |-> Bucket(w, bad[i])]

(* A function that counts the members of its classes.                      *)
Counts(g, class, n) ==
  /\ IsFiniteSet(DOMAIN g)
  /\ \A b \in DOMAIN g : g[b] = Cardinality({ i \in 1 .. n : class[i] = b })

LEMMA TotalOfCounts ==
  ASSUME NEW g, NEW class, NEW n \in Nat, Counts(g, class, n)
  PROVE  Total(g) = Cardinality({ i \in 1 .. n : class[i] \in DOMAIN g })
<1> DEFINE I == 1 .. n
<1>1. IsFiniteSet(I)
  BY FS_Interval
<1>2. \A b \in DOMAIN g : g[b] = Cardinality({ i \in I : class[i] = b })
  BY DEF Counts
<1> HIDE DEF I
<1>3. SumFunctionOnSet(g, DOMAIN g) = Cardinality({ i \in I : class[i] \in DOMAIN g })
  BY <1>1, <1>2, SumOfClasses DEF Counts
<1> QED
  BY <1>3 DEF Total, SumFunction, I

LEMMA PartCounts ==
  ASSUME NEW g, NEW class, NEW n \in Nat, Counts(g, class, n), NEW S \in SUBSET DOMAIN g
  PROVE  /\ Counts(Restrict(g, S), class, n) /\ DOMAIN Restrict(g, S) = S
         /\ Total(Restrict(g, S)) = Cardinality({ i \in 1 .. n : class[i] \in S })
<1>1. DOMAIN Restrict(g, S) = S /\ \A b \in S : Restrict(g, S)[b] = g[b]
  BY DEF Restrict
<1>2. IsFiniteSet(S)
  BY FS_Subset DEF Counts
<1>3. Counts(Restrict(g, S), class, n)
  BY <1>1, <1>2 DEF Counts
<1> QED
  BY <1>1, <1>3, TotalOfCounts

(* A window, from the history of bad events: what it counts are the events *)
(* of its buckets, and the buckets it does not have are over.              *)
IsWindow(w) ==
  w = [buckets |-> w.buckets, bucketSizeMs |-> w.bucketSizeMs,
       windowSizeMs |-> w.windowSizeMs, totalBad |-> w.totalBad]

WindowOK(w, ms, bad, now) ==
  /\ IsWindow(w)
  /\ w.windowSizeMs = ms /\ w.bucketSizeMs \in 1 .. ms
  /\ DOMAIN w.buckets \subseteq Int
  /\ Counts(w.buckets, BucketsOf(w, bad), Len(bad))
  /\ \A i \in 1 .. Len(bad) :
       Bucket(w, bad[i]) \in DOMAIN w.buckets \/ Bucket(w, bad[i]) < now - ms
  /\ w.totalBad = Total(w.buckets)

LEMMA BucketLies ==
  ASSUME NEW w, w.bucketSizeMs \in Nat \ {0}, NEW at \in Nat
  PROVE  /\ Bucket(w, at) \in Int /\ Bucket(w, at) <= at
         /\ Bucket(w, at) > at - w.bucketSizeMs
<1> DEFINE s == w.bucketSizeMs
           q == at \div s
<1>1. s \in Nat \ {0}
  OBVIOUS
<1>2. Bucket(w, at) = q * s
  BY DEF Bucket
<1> HIDE DEF s
<1>3. q \in Int /\ q * s \in Int /\ q * s <= at /\ at < q * s + s
  <2>1. at = s * q + (at % s) /\ at % s \in 0 .. s - 1 /\ q \in Int
    BY <1>1
  <2> HIDE DEF q
  <2>2. s * q = q * s /\ q * s \in Int
    BY <1>1, <2>1
  <2> QED
    BY <1>1, <2>1, <2>2
<1> QED
  BY <1>1, <1>2, <1>3 DEF s

LEMMA SizeFits ==
  ASSUME NEW a \in Nat \ {0}, NEW b \in Nat \ {0}
  PROVE  CeilDiv(a, b) \in 1 .. a
<1> DEFINE x == a + b - 1
           q == x \div b
<1>1. x = b * q + (x % b) /\ x % b \in 0 .. b - 1 /\ q \in Int
  OBVIOUS
<1>2. x >= b
  OBVIOUS
<1>3. CeilDiv(a, b) = q
  BY DEF CeilDiv
<1> HIDE DEF q
<1>4. q >= 1
  <2> SUFFICES ASSUME q <= 0 PROVE FALSE
    BY <1>1
  <2>1. b * q <= 0
    BY <1>1
  <2> QED
    BY <1>1, <1>2, <2>1
<1>5. q <= a
  <2> SUFFICES ASSUME q >= a + 1 PROVE FALSE
    BY <1>1
  <2>1. b * q >= b * (a + 1)
    BY <1>1
  <2>2. b * (a + 1) = b * a + b
    OBVIOUS
  <2>3. b * a >= a
    OBVIOUS
  <2>4. b * q \in Int /\ b * a \in Int
    BY <1>1
  <2> QED
    BY <1>1, <2>1, <2>2, <2>3, <2>4
<1> QED
  BY <1>1, <1>3, <1>4, <1>5

LEMMA FreshWindow ==
  ASSUME NEW ms \in Nat \ {0}, NEW n \in Nat \ {0}, NEW now \in Nat
  PROVE  WindowOK(createWindow(ms, n), ms, << >>, now)
<1> DEFINE w == createWindow(ms, n)
<1>1. w = [buckets |-> << >>, bucketSizeMs |-> CeilDiv(ms, n), windowSizeMs |-> ms, totalBad |-> 0]
  BY DEF createWindow
<1>2. w.bucketSizeMs \in 1 .. ms
  BY <1>1, SizeFits
<1>3. w.buckets = << >> /\ DOMAIN w.buckets = {} /\ Len(<< >>) = 0
  BY <1>1
<1>4. Counts(w.buckets, BucketsOf(w, << >>), 0)
  BY <1>3, FS_EmptySet DEF Counts
<1>5. Total(w.buckets) = 0
  BY <1>3, SumOfNone DEF Total, SumFunction
<1> QED
  BY <1>1, <1>2, <1>3, <1>4, <1>5 DEF WindowOK, IsWindow

(* One more event that is counted in a window of its own or another.       *)
LEMMA RecordCounts ==
  ASSUME NEW w, NEW ms \in Nat \ {0}, NEW now \in Nat, NEW bad \in Seq(Nat),
         WindowOK(w, ms, bad, now)
  PROVE  WindowOK(recordBad(w, now), ms, Append(bad, now), now)
<1> DEFINE n == Len(bad)
           more == Append(bad, now)
           ts == Bucket(w, now)
           size == w.bucketSizeMs
           old == w.buckets
           class == BucketsOf(w, bad)
           later == BucketsOf(w, more)
           counted == [w EXCEPT !.buckets =
             [b \in DOMAIN @ \cup {ts} |->
               (IF b \in DOMAIN @ THEN @[b] ELSE 0) + (IF b = ts THEN 1 ELSE 0)]]
           full == [b \in DOMAIN old \cup {ts} |->
               (IF b \in DOMAIN old THEN old[b] ELSE 0) + (IF b = ts THEN 1 ELSE 0)]
           out == { b \in DOMAIN full : b < now - ms }
           kept == DOMAIN full \ out
           w2 == recordBad(w, now)
           Of(c, m, S) == { i \in 1 .. m : c[i] \in S }
<1>1. n \in Nat /\ more \in Seq(Nat) /\ Len(more) = n + 1 /\ more[n + 1] = now
      /\ \A i \in 1 .. n : more[i] = bad[i] /\ bad[i] \in Nat
  BY AppendProperties, LenProperties
<1>2. /\ IsWindow(w) /\ w.windowSizeMs = ms /\ size \in Nat \ {0} /\ size <= ms
      /\ DOMAIN old \subseteq Int /\ Counts(old, class, n) /\ w.totalBad = Total(old)
      /\ \A i \in 1 .. n : Bucket(w, bad[i]) \in DOMAIN old \/ Bucket(w, bad[i]) < now - ms
  BY DEF WindowOK
<1>3. ts \in Int /\ ts > now - size
  BY <1>2, BucketLies
<1>4. /\ \A i \in 1 .. n : class[i] = Bucket(w, bad[i]) /\ later[i] = class[i]
      /\ later[n + 1] = ts
  BY <1>1 DEF BucketsOf
<1> HIDE DEF n, more, ts, size, old, class, later
<1>5. counted = [buckets |-> full, bucketSizeMs |-> size, windowSizeMs |-> ms,
                 totalBad |-> w.totalBad]
  BY <1>2 DEF IsWindow, old, size
<1>6. \A i \in 1 .. n : class[i] = ts => ts \in DOMAIN old
  <2> SUFFICES ASSUME NEW i \in 1 .. n, class[i] = ts, ts \notin DOMAIN old PROVE FALSE
    OBVIOUS
  <2>1. ts < now - ms
    BY <1>2, <1>4
  <2> QED
    BY <1>2, <1>3, <2>1
<1>7. Counts(full, later, n + 1)
  <2>1. IsFiniteSet(DOMAIN old)
    BY <1>2 DEF Counts
  <2>2. IsFiniteSet(DOMAIN full)
    BY <2>1, FS_AddElement
  <2>3. ASSUME NEW b \in DOMAIN full
        PROVE  full[b] = Cardinality({ i \in 1 .. n + 1 : later[i] = b })
    <3> DEFINE was == { i \in 1 .. n : class[i] = b }
               is == { i \in 1 .. n + 1 : later[i] = b }
    <3>1. IsFiniteSet(was)
      <4>1. IsFiniteSet(1 .. n)
        BY <1>1, FS_Interval
      <4> QED
        BY <4>1, FS_Subset
    <3>2. \A i \in 1 .. n + 1 : i \in 1 .. n \/ i = n + 1
      BY <1>1
    <3>3. n + 1 \notin was /\ n + 1 \in 1 .. n + 1 /\ \A i \in 1 .. n : i \in 1 .. n + 1
      BY <1>1
    <3>4. Cardinality(was) = IF b \in DOMAIN old THEN old[b] ELSE 0
      <4>1. CASE b \in DOMAIN old
        BY <1>2, <4>1 DEF Counts
      <4>2. CASE b \notin DOMAIN old
        <5>1. b = ts
          BY <4>2
        <5>2. was = {}
          BY <1>6, <4>2, <5>1
        <5> QED
          BY <4>2, <5>2, FS_EmptySet
      <4> QED
        BY <4>1, <4>2
    <3>5. CASE b = ts
      <4>1. is = was \cup {n + 1}
        BY <1>4, <3>2, <3>3, <3>5
      <4>2. Cardinality(is) = Cardinality(was) + 1
        BY <3>1, <3>3, <4>1, FS_AddElement
      <4> QED
        BY <3>4, <3>5, <4>2
    <3>6. CASE b # ts
      <4>1. is = was
        BY <1>4, <3>2, <3>3, <3>6
      <4>2. Cardinality(was) \in Nat
        BY <3>1, FS_CardinalityType
      <4>3. full[b] = (IF b \in DOMAIN old THEN old[b] ELSE 0) + 0
        BY <3>6
      <4> HIDE DEF was, is, full
      <4>4. full[b] = Cardinality(was)
        BY <3>4, <4>2, <4>3
      <4> QED
        BY <4>1, <4>4 DEF is
    <3> QED
      BY <3>5, <3>6
  <2> QED
    BY <2>2, <2>3 DEF Counts
<1>8. Expired(counted, now) = out
  BY <1>5 DEF Expired
<1>9. DOMAIN Restrict(full, out) = out
  BY DEF Restrict
<1>10. w2 = [buckets |-> Restrict(full, kept), bucketSizeMs |-> size, windowSizeMs |-> ms,
             totalBad |-> w.totalBad + 1 - Total(Restrict(full, out))]
  <2>1. w2 = [counted EXCEPT !.buckets = Restrict(@, DOMAIN @ \ DOMAIN Restrict(full, out)),
                             !.totalBad = @ + 1 - Total(Restrict(full, out))]
    BY <1>5, <1>8 DEF recordBad, ts
  <2> HIDE DEF full, out, kept, counted, w2
  <2>2. w2 = [counted EXCEPT !.buckets = Restrict(@, DOMAIN @ \ out),
                             !.totalBad = @ + 1 - Total(Restrict(full, out))]
    BY <1>9, <2>1
  <2> QED
    BY <1>5, <2>2 DEF kept
<1>11. kept \in SUBSET DOMAIN full /\ out \in SUBSET DOMAIN full
  OBVIOUS
<1>12. ts \in kept
  BY <1>2, <1>3, <1>1
<1> HIDE DEF full, out, kept, counted, w2
<1>13. /\ Counts(Restrict(full, kept), later, n + 1) /\ DOMAIN Restrict(full, kept) = kept
       /\ Total(Restrict(full, kept)) = Cardinality(Of(later, n + 1, kept))
       /\ Total(Restrict(full, out)) = Cardinality(Of(later, n + 1, out))
  <2> DEFINE m == n + 1
  <2>1. m \in Nat /\ Counts(full, later, m)
    BY <1>1, <1>7
  <2> HIDE DEF m
  <2>2. /\ Counts(Restrict(full, kept), later, m) /\ DOMAIN Restrict(full, kept) = kept
        /\ Total(Restrict(full, kept)) = Cardinality(Of(later, m, kept))
    <3>1. Counts(Restrict(full, kept), later, m) /\ DOMAIN Restrict(full, kept) = kept
      BY <1>11, <2>1, PartCounts
    <3>2. Total(Restrict(full, kept)) = Cardinality(Of(later, m, kept))
      BY <1>11, <2>1, PartCounts
    <3> QED
      BY <3>1, <3>2
  <2>3. Total(Restrict(full, out)) = Cardinality(Of(later, m, out))
    BY <1>11, <2>1, PartCounts
  <2> QED
    BY <2>2, <2>3 DEF m
<1>14. Total(old) = Cardinality(Of(class, n, DOMAIN old))
  BY <1>1, <1>2, TotalOfCounts
<1>15. w.totalBad + 1 - Total(Restrict(full, out)) = Total(Restrict(full, kept))
  <2> DEFINE a == Of(class, n, DOMAIN old)
             b == Of(later, n + 1, out)
             c == Of(later, n + 1, kept)
  <2>1. IsFiniteSet(a) /\ IsFiniteSet(b) /\ IsFiniteSet(c)
    <3>1. IsFiniteSet(1 .. n) /\ IsFiniteSet(1 .. n + 1)
      BY <1>1, FS_Interval
    <3> QED
      BY <3>1, FS_Subset
  <2>2. b \cup c = a \cup {n + 1} /\ n + 1 \notin a
    <3>1. \A i \in 1 .. n + 1 : i \in 1 .. n \/ i = n + 1
      BY <1>1
    <3>2. n + 1 \in 1 .. n + 1 /\ n + 1 \notin 1 .. n /\ \A i \in 1 .. n : i \in 1 .. n + 1
      BY <1>1
    <3>3. out \cup kept = DOMAIN old \cup {ts}
      BY DEF out, kept, full
    <3>4. \A i \in 1 .. n : later[i] \in out \cup kept <=> class[i] \in DOMAIN old
      BY <1>4, <1>6, <3>3
    <3>5. later[n + 1] \in kept
      BY <1>4, <1>12
    <3> QED
      BY <3>1, <3>2, <3>4, <3>5
  <2>3. b \cap c = {}
    BY DEF kept
  <2> HIDE DEF a, b, c
  <2>4. Cardinality(b \cup c) = Cardinality(b) + Cardinality(c) - Cardinality(b \cap c)
    BY <2>1, FS_Union
  <2>5. Cardinality(a \cup {n + 1}) = Cardinality(a) + 1
    BY <2>1, <2>2, FS_AddElement
  <2>6. Cardinality(b \cap c) = 0
    BY <2>3, FS_EmptySet
  <2>7. Cardinality(a) \in Nat /\ Cardinality(b) \in Nat /\ Cardinality(c) \in Nat
    BY <2>1, FS_CardinalityType
  <2>8. Cardinality(a) + 1 - Cardinality(b) = Cardinality(c)
    <3>1. Cardinality(b \cup c) = Cardinality(a) + 1
      BY <2>2, <2>5
    <3> QED
      BY <2>4, <2>6, <2>7, <3>1
  <2> QED
    BY <1>2, <1>13, <1>14, <2>8 DEF a, b, c
<1>16. BucketsOf(w2, more) = later
  BY <1>10 DEF BucketsOf, Bucket, later, size
<1>17. \A i \in 1 .. n + 1 :
         Bucket(w2, more[i]) \in DOMAIN w2.buckets \/ Bucket(w2, more[i]) < now - ms
  <2> SUFFICES ASSUME NEW i \in 1 .. n + 1, later[i] \notin kept PROVE later[i] < now - ms
    <3>1. \A i \in 1 .. n + 1 : later[i] = Bucket(w2, more[i])
      BY <1>1, <1>16 DEF BucketsOf
    <3> QED
      BY <1>10, <1>13, <3>1
  <2>1. i \in 1 .. n
    BY <1>1, <1>4, <1>12
  <2>2. CASE later[i] \in DOMAIN full
    BY <2>2 DEF kept, out
  <2>3. CASE later[i] \notin DOMAIN full
    <3>1. class[i] \notin DOMAIN old
      BY <1>4, <2>1, <2>3 DEF full
    <3> QED
      BY <1>2, <1>4, <2>1, <3>1
  <2> QED
    BY <2>2, <2>3
<1>18. kept \subseteq Int
  BY <1>2, <1>3 DEF kept, full
<1>19. /\ IsWindow(w2) /\ w2.windowSizeMs = ms /\ w2.bucketSizeMs = size
       /\ w2.buckets = Restrict(full, kept) /\ w2.totalBad = Total(w2.buckets)
  BY <1>10, <1>15 DEF IsWindow
<1>20. size \in 1 .. ms
  BY <1>2
<1>21. Counts(w2.buckets, BucketsOf(w2, more), Len(more)) /\ DOMAIN w2.buckets \subseteq Int
  BY <1>1, <1>13, <1>16, <1>18, <1>19
<1>22. \A i \in 1 .. Len(more) :
         Bucket(w2, more[i]) \in DOMAIN w2.buckets \/ Bucket(w2, more[i]) < now - ms
  BY <1>1, <1>17
<1>23. WindowOK(w2, ms, more, now)
  BY <1>19, <1>20, <1>21, <1>22 DEF WindowOK
<1> QED
  BY <1>23 DEF more, w2

(* The state of an objective, from the history of its bad events.          *)
StateOK(s, bad, now) ==
  /\ s = [shortWindow |-> s.shortWindow, longWindow |-> s.longWindow,
          totalEvents |-> s.totalEvents, badEvents |-> s.badEvents,
          hourStart |-> s.hourStart, hourCount |-> s.hourCount,
          eventsPerHour |-> s.eventsPerHour]
  /\ s.hourCount \in Nat /\ s.eventsPerHour \in Nat
  /\ WindowOK(s.shortWindow, Hour, bad, now)
  /\ WindowOK(s.longWindow, SixHours, bad, now)

SloInv ==
  /\ time \in Nat
  /\ slos \subseteq Slos
  /\ DOMAIN perSlo = { sloKey(slo) : slo \in slos }
  /\ DOMAIN badAt = DOMAIN perSlo
  /\ \A k \in DOMAIN perSlo : badAt[k] \in Seq(Nat) /\ StateOK(perSlo[k], badAt[k], time)

LEMMA FreshOK ==
  ASSUME time \in Nat
  PROVE  << >> \in Seq(Nat) /\ StateOK(FreshState, << >>, time)
<1>1. Hour \in Nat \ {0} /\ SixHours \in Nat \ {0} /\ BucketCount \in Nat \ {0}
  BY SloAssumption
<1>2. 6 * BucketCount \in Nat \ {0}
  BY <1>1
<1>3. WindowOK(createWindow(Hour, BucketCount), Hour, << >>, time)
  BY <1>1, FreshWindow
<1>4. WindowOK(createWindow(SixHours, 6 * BucketCount), SixHours, << >>, time)
  BY <1>1, <1>2, FreshWindow
<1> QED
  BY <1>3, <1>4 DEF FreshState, StateOK

LEMMA RollOK ==
  ASSUME NEW s, NEW bad, time \in Nat, StateOK(s, bad, time)
  PROVE  StateOK([RollHour(s) EXCEPT !.totalEvents = @ + 1], bad, time)
<1>1. CASE time - s.hourStart >= Hour
  <2>1. RollHour(s) = [shortWindow |-> s.shortWindow, longWindow |-> s.longWindow,
                       totalEvents |-> s.totalEvents, badEvents |-> s.badEvents,
                       hourStart |-> time, hourCount |-> 1, eventsPerHour |-> s.hourCount]
    BY <1>1 DEF RollHour, StateOK
  <2> QED
    BY <2>1 DEF StateOK
<1>2. CASE ~(time - s.hourStart >= Hour)
  <2>1. RollHour(s) = [shortWindow |-> s.shortWindow, longWindow |-> s.longWindow,
                       totalEvents |-> s.totalEvents, badEvents |-> s.badEvents,
                       hourStart |-> s.hourStart, hourCount |-> s.hourCount + 1,
                       eventsPerHour |-> s.eventsPerHour]
    BY <1>2 DEF RollHour, StateOK
  <2> QED
    BY <2>1 DEF StateOK
<1> QED
  BY <1>1, <1>2

LEMMA ObserveOK ==
  ASSUME NEW s, NEW bad \in Seq(Nat), NEW slo, NEW value, time \in Nat, StateOK(s, bad, time)
  PROVE  LET more == IF value > slo.threshold THEN Append(bad, time) ELSE bad
         IN  more \in Seq(Nat) /\ StateOK(Observe(slo, s, value), more, time)
<1> DEFINE c == [RollHour(s) EXCEPT !.totalEvents = @ + 1]
<1>1. StateOK(c, bad, time)
  BY RollOK
<1>2. CASE value > slo.threshold
  <2>1. Observe(slo, s, value) =
          [c EXCEPT !.badEvents = @ + 1, !.shortWindow = recordBad(@, time),
                    !.longWindow = recordBad(@, time)]
    BY <1>2 DEF Observe
  <2> HIDE DEF c
  <2>2. Observe(slo, s, value) =
          [shortWindow |-> recordBad(c.shortWindow, time),
           longWindow |-> recordBad(c.longWindow, time),
           totalEvents |-> c.totalEvents, badEvents |-> c.badEvents + 1,
           hourStart |-> c.hourStart, hourCount |-> c.hourCount,
           eventsPerHour |-> c.eventsPerHour]
    BY <1>1, <2>1 DEF StateOK
  <2>3. Hour \in Nat \ {0} /\ SixHours \in Nat \ {0}
    BY SloAssumption
  <2>4. WindowOK(recordBad(c.shortWindow, time), Hour, Append(bad, time), time)
    BY <1>1, <2>3, RecordCounts DEF StateOK
  <2>5. WindowOK(recordBad(c.longWindow, time), SixHours, Append(bad, time), time)
    BY <1>1, <2>3, RecordCounts DEF StateOK
  <2>6. Append(bad, time) \in Seq(Nat)
    BY AppendProperties
  <2>7. StateOK(Observe(slo, s, value), Append(bad, time), time)
    BY <1>1, <2>2, <2>4, <2>5 DEF StateOK
  <2> QED
    BY <1>2, <2>6, <2>7
<1>3. CASE ~(value > slo.threshold)
  <2>1. Observe(slo, s, value) = c
    BY <1>3 DEF Observe
  <2> QED
    BY <1>1, <1>3, <2>1
<1> QED
  BY <1>2, <1>3

(* As time passes, what is over stays over.                                *)
LEMMA WindowAges ==
  ASSUME NEW w, NEW ms \in Nat \ {0}, NEW bad \in Seq(Nat), NEW now \in Nat,
         WindowOK(w, ms, bad, now)
  PROVE  WindowOK(w, ms, bad, now + 1)
<1>1. ASSUME NEW i \in 1 .. Len(bad), Bucket(w, bad[i]) < now - ms
      PROVE  Bucket(w, bad[i]) < now + 1 - ms
  <2>1. Bucket(w, bad[i]) \in Int
    BY BucketLies DEF WindowOK
  <2> DEFINE b == Bucket(w, bad[i])
  <2> HIDE DEF b
  <2> QED
    BY <1>1, <2>1 DEF b
<1> QED
  BY <1>1 DEF WindowOK

LEMMA SloKeeps == SloInv /\ [SloNext]_sloVars => SloInv'
<1> SUFFICES ASSUME SloInv, [SloNext]_sloVars PROVE SloInv'
  OBVIOUS
<1>1. /\ time \in Nat /\ slos \subseteq Slos
      /\ DOMAIN perSlo = { sloKey(slo) : slo \in slos } /\ DOMAIN badAt = DOMAIN perSlo
      /\ \A k \in DOMAIN perSlo : badAt[k] \in Seq(Nat) /\ StateOK(perSlo[k], badAt[k], time)
  BY DEF SloInv
<1>2. << >> \in Seq(Nat) /\ StateOK(FreshState, << >>, time)
  BY <1>1, FreshOK
<1>3. ASSUME NEW defined \in SloSets, define(defined) PROVE SloInv'
  <2> DEFINE keys == { sloKey(slo) : slo \in defined }
  <2>1. /\ slos' = defined /\ time' = time
        /\ perSlo' = [k \in keys |-> IF k \in DOMAIN perSlo THEN perSlo[k] ELSE FreshState]
        /\ badAt' = [k \in keys |-> IF k \in DOMAIN badAt THEN badAt[k] ELSE << >>]
    BY <1>3 DEF define
  <2>2. defined \subseteq Slos
    BY SloAssumption
  <2>3. \A k \in keys : badAt'[k] \in Seq(Nat) /\ StateOK(perSlo'[k], badAt'[k], time')
    BY <1>1, <1>2, <2>1
  <2> QED
    BY <1>1, <2>1, <2>2, <2>3 DEF SloInv
<1>4. ASSUME NEW sample \in Samples, RecordSloMetrics(sample) PROVE SloInv'
  <2> DEFINE keys == { sloKey(slo) : slo \in Concerned(sample) }
             value(k) == sample[SloOf(k).metric]
  <2>1. /\ slos' = slos /\ time' = time
        /\ perSlo' = [k \in DOMAIN perSlo |->
             IF k \in keys THEN Observe(SloOf(k), perSlo[k], value(k)) ELSE perSlo[k]]
        /\ badAt' = [k \in DOMAIN badAt |->
             IF k \in keys /\ value(k) > SloOf(k).threshold
             THEN Append(badAt[k], time) ELSE badAt[k]]
    BY <1>4 DEF RecordSloMetrics
  <2> HIDE DEF keys
  <2>2. ASSUME NEW k \in DOMAIN perSlo
        PROVE  badAt'[k] \in Seq(Nat) /\ StateOK(perSlo'[k], badAt'[k], time')
    <3> DEFINE more == IF value(k) > SloOf(k).threshold THEN Append(badAt[k], time) ELSE badAt[k]
    <3>1. more \in Seq(Nat) /\ StateOK(Observe(SloOf(k), perSlo[k], value(k)), more, time)
      BY <1>1, ObserveOK
    <3>2. CASE k \in keys
      <4>1. perSlo'[k] = Observe(SloOf(k), perSlo[k], value(k)) /\ badAt'[k] = more
        BY <1>1, <2>1, <3>2
      <4> QED
        BY <2>1, <3>1, <4>1
    <3>3. CASE k \notin keys
      <4>1. perSlo'[k] = perSlo[k] /\ badAt'[k] = badAt[k]
        BY <1>1, <2>1, <3>3
      <4> QED
        BY <1>1, <2>1, <4>1
    <3> QED
      BY <3>2, <3>3
  <2> QED
    BY <1>1, <2>1, <2>2 DEF SloInv
<1>5. CASE ResetSlo
  <2>1. /\ slos' = slos /\ time' = time
        /\ perSlo' = [k \in DOMAIN perSlo |-> FreshState]
        /\ badAt' = [k \in DOMAIN badAt |-> << >>]
    BY <1>5 DEF ResetSlo
  <2> QED
    BY <1>1, <1>2, <2>1 DEF SloInv
<1>6. CASE SloTick
  <2>1. time' = time + 1 /\ slos' = slos /\ perSlo' = perSlo /\ badAt' = badAt
    BY <1>6 DEF SloTick
  <2>2. Hour \in Nat \ {0} /\ SixHours \in Nat \ {0}
    BY SloAssumption
  <2>3. ASSUME NEW k \in DOMAIN perSlo PROVE StateOK(perSlo[k], badAt[k], time + 1)
    <3>1. StateOK(perSlo[k], badAt[k], time) /\ badAt[k] \in Seq(Nat)
      BY <1>1
    <3>2. WindowOK(perSlo[k].shortWindow, Hour, badAt[k], time + 1)
      BY <1>1, <2>2, <3>1, WindowAges DEF StateOK
    <3>3. WindowOK(perSlo[k].longWindow, SixHours, badAt[k], time + 1)
      BY <1>1, <2>2, <3>1, WindowAges DEF StateOK
    <3> QED
      BY <3>1, <3>2, <3>3 DEF StateOK
  <2> QED
    BY <1>1, <2>1, <2>3 DEF SloInv
<1>7. CASE UNCHANGED sloVars
  BY <1>1, <1>7 DEF sloVars, SloInv
<1> QED
  BY <1>3, <1>4, <1>5, <1>6, <1>7 DEF SloNext

LEMMA WindowFaithful ==
  ASSUME NEW k \in DOMAIN badAt, NEW w, NEW ms \in Nat \ {0},
         time \in Nat, badAt[k] \in Seq(Nat), WindowOK(w, ms, badAt[k], time)
  PROVE  /\ Faithful(k, w, ms)
         /\ badInWindow(w, ms, time) \in Nat /\ BadSince(k, time - ms) \in Nat
<1> DEFINE bad == badAt[k]
           n == Len(bad)
           class == BucketsOf(w, bad)
           recent == { ts \in DOMAIN w.buckets : ts >= time - ms }
           counted == { i \in 1 .. n : class[i] \in recent }
           since(from) == { i \in 1 .. n : bad[i] >= from }
           size == w.bucketSizeMs
<1>1. n \in Nat /\ DOMAIN bad = 1 .. n /\ \A i \in 1 .. n : bad[i] \in Nat
  BY LenProperties
<1>2. /\ size \in Nat \ {0} /\ size <= ms /\ DOMAIN w.buckets \subseteq Int
      /\ Counts(w.buckets, class, n) /\ w.totalBad = Total(w.buckets)
      /\ \A i \in 1 .. n : Bucket(w, bad[i]) \in DOMAIN w.buckets \/ Bucket(w, bad[i]) < time - ms
  BY DEF WindowOK
<1>3. \A i \in 1 .. n : class[i] = Bucket(w, bad[i])
  BY DEF BucketsOf
<1>4. \A i \in 1 .. n : class[i] \in Int /\ class[i] <= bad[i] /\ class[i] > bad[i] - size
  BY <1>1, <1>2, <1>3, BucketLies
<1>5. badInWindow(w, ms, time) = Cardinality(counted)
  <2>1. recent \in SUBSET DOMAIN w.buckets
    OBVIOUS
  <2> HIDE DEF class, n
  <2>2. Total(Restrict(w.buckets, recent)) = Cardinality({ i \in 1 .. n : class[i] \in recent })
    BY <1>1, <1>2, <2>1, PartCounts
  <2> QED
    BY <2>2 DEF badInWindow
<1>6. \A from : BadSince(k, from) = Cardinality(since(from))
  BY <1>1 DEF BadSince
<1> HIDE DEF n, class, bad, size
<1>7. IsFiniteSet(counted) /\ \A from : IsFiniteSet(since(from))
  <2>1. IsFiniteSet(1 .. n)
    BY <1>1, FS_Interval
  <2> QED
    BY <2>1, FS_Subset
<1>8. counted \subseteq since(time - ms)
  <2> SUFFICES ASSUME NEW i \in 1 .. n, class[i] \in recent PROVE bad[i] >= time - ms
    OBVIOUS
  <2> QED
    BY <1>1, <1>4
<1>9. since(time - ms + size - 1) \subseteq counted
  <2> SUFFICES ASSUME NEW i \in 1 .. n, bad[i] >= time - ms + size - 1 PROVE class[i] \in recent
    OBVIOUS
  <2>1. class[i] >= time - ms
    BY <1>1, <1>2, <1>4
  <2>2. class[i] \in DOMAIN w.buckets
    BY <1>2, <1>3, <1>4, <2>1 DEF bad
  <2> QED
    BY <2>1, <2>2
<1> HIDE DEF counted, since
<1>10. /\ Cardinality(counted) <= Cardinality(since(time - ms))
       /\ Cardinality(since(time - ms + size - 1)) <= Cardinality(counted)
  BY <1>7, <1>8, <1>9, FS_Subset
<1>11. Cardinality(counted) \in Nat /\ Cardinality(since(time - ms)) \in Nat
  BY <1>7, FS_CardinalityType
<1>12. Cardinality(since(time - ms + size - 1)) \in Nat
  BY <1>7, FS_CardinalityType
<1>13. Faithful(k, w, ms)
  BY <1>2, <1>5, <1>6, <1>10, <1>11, <1>12 DEF Faithful, size
<1> QED
  BY <1>5, <1>6, <1>11, <1>13

LEMMA AtLeastOne == ASSUME NEW n \in Nat PROVE Max({1, n}) \in Nat /\ Max({1, n}) >= 1
<1>1. CASE n >= 1
  <2>1. n \in {1, n} /\ \A y \in {1, n} : n >= y
    BY <1>1
  <2>2. \A x \in {1, n} : (\A y \in {1, n} : x >= y) => x = n
    BY <1>1
  <2> QED
    BY <1>1, <2>1, <2>2 DEF Max
<1>2. CASE ~(n >= 1)
  <2>1. 1 \in {1, n} /\ \A y \in {1, n} : 1 >= y
    BY <1>2
  <2>2. \A x \in {1, n} : (\A y \in {1, n} : x >= y) => x = 1
    BY <1>2
  <2> QED
    BY <2>1, <2>2 DEF Max
<1> QED
  BY <1>1, <1>2

(* No rate is reached by nothing.                                          *)
LEMMA ReachedBySome ==
  ASSUME NEW bad \in Nat, NEW budgeted \in Nat, NEW rate \in Nat \ {0}, AtLeast(bad, budgeted, rate)
  PROVE  bad > 0
<1>1. CASE budgeted = 0
  BY <1>1 DEF AtLeast
<1>2. CASE budgeted # 0
  <2>1. 10000 * bad >= rate * budgeted
    BY <1>2 DEF AtLeast
  <2>2. rate * budgeted > 0
    BY <1>2
  <2> QED
    BY <2>1, <2>2
<1> QED
  BY <1>1, <1>2

LEMMA BurnIsTrue == SloInv => BurnCountsRecentBad
<1> SUFFICES ASSUME SloInv PROVE BurnCountsRecentBad
  OBVIOUS
<1>1. /\ time \in Nat /\ slos \subseteq Slos
      /\ DOMAIN perSlo = { sloKey(slo) : slo \in slos } /\ DOMAIN badAt = DOMAIN perSlo
      /\ \A k \in DOMAIN perSlo : badAt[k] \in Seq(Nat) /\ StateOK(perSlo[k], badAt[k], time)
  BY DEF SloInv
<1>2. /\ Hour \in Nat \ {0} /\ SixHours \in Nat \ {0}
      /\ CriticalRate \in Nat \ {0} /\ WarningRate \in Nat \ {0}
      /\ \A slo \in Slos : slo.budget \in Nat
  BY SloAssumption
<1>3. ASSUME NEW k \in DOMAIN perSlo
      PROVE  /\ Faithful(k, perSlo[k].shortWindow, Hour)
             /\ Faithful(k, perSlo[k].longWindow, SixHours)
             /\ badInWindow(perSlo[k].shortWindow, Hour, time) \in Nat
             /\ BadSince(k, time - Hour) \in Nat
             /\ badInWindow(perSlo[k].longWindow, SixHours, time) \in Nat
             /\ BadSince(k, time - SixHours) \in Nat
  <2>1. k \in DOMAIN badAt /\ badAt[k] \in Seq(Nat) /\ StateOK(perSlo[k], badAt[k], time)
    BY <1>1
  <2>2. /\ WindowOK(perSlo[k].shortWindow, Hour, badAt[k], time)
        /\ WindowOK(perSlo[k].longWindow, SixHours, badAt[k], time)
    BY <2>1 DEF StateOK
  <2>3. /\ Faithful(k, perSlo[k].shortWindow, Hour)
        /\ badInWindow(perSlo[k].shortWindow, Hour, time) \in Nat
        /\ BadSince(k, time - Hour) \in Nat
    BY <1>1, <1>2, <2>1, <2>2, WindowFaithful
  <2>4. /\ Faithful(k, perSlo[k].longWindow, SixHours)
        /\ badInWindow(perSlo[k].longWindow, SixHours, time) \in Nat
        /\ BadSince(k, time - SixHours) \in Nat
    BY <1>1, <1>2, <2>1, <2>2, WindowFaithful
  <2> QED
    BY <2>3, <2>4
<1>4. ASSUME NEW slo \in slos
      PROVE  LET fired == SloOfService(slo.service).burnAlerts
             IN  /\ <<slo, "critical-1h">> \in fired => BadSince(sloKey(slo), time - Hour) > 0
                 /\ <<slo, "warning-6h">> \in fired => BadSince(sloKey(slo), time - SixHours) > 0
  <2> DEFINE k == sloKey(slo)
             s == status(slo)
             fired == SloOfService(slo.service).burnAlerts
             asked == { x \in slos : x.service \in {slo.service, AnyService} }
  <2>1. k \in DOMAIN perSlo /\ slo.budget \in Nat /\ perSlo[k].eventsPerHour \in Nat
    BY <1>1, <1>2 DEF StateOK
  <2>2. /\ s.budgetPerHour = Max({1, perSlo[k].eventsPerHour}) * slo.budget
        /\ s.bad1h = badInWindow(perSlo[k].shortWindow, Hour, time)
        /\ s.bad6h = badInWindow(perSlo[k].longWindow, SixHours, time)
    BY DEF status
  <2>3. s.budgetPerHour \in Nat
    <3> DEFINE m == Max({1, perSlo[k].eventsPerHour})
    <3>1. m \in Nat
      BY <2>1, AtLeastOne
    <3> HIDE DEF m
    <3>2. m * slo.budget \in Nat
      BY <2>1, <3>1
    <3> QED
      BY <2>2, <3>2 DEF m
  <2>4. s.bad1h \in Nat /\ s.bad6h \in Nat
    BY <1>3, <2>1, <2>2
  <2>5. fired = checkBurnAlerts(asked)
    BY DEF SloOfService
  <2>6. <<slo, "critical-1h">> \in fired => AtLeast(s.bad1h, s.budgetPerHour, CriticalRate)
    BY <2>5 DEF checkBurnAlerts
  <2>7. <<slo, "warning-6h">> \in fired => AtLeast(s.bad6h, 6 * s.budgetPerHour, WarningRate)
    BY <2>5 DEF checkBurnAlerts
  <2> HIDE DEF s, fired, k
  <2>8. ASSUME <<slo, "critical-1h">> \in fired PROVE BadSince(k, time - Hour) > 0
    <3>1. s.bad1h > 0
      BY <1>2, <2>3, <2>4, <2>6, <2>8, ReachedBySome
    <3>2. s.bad1h <= BadSince(k, time - Hour)
      BY <1>3, <2>1, <2>2 DEF Faithful
    <3> QED
      BY <1>3, <2>1, <2>4, <3>1, <3>2
  <2>9. ASSUME <<slo, "warning-6h">> \in fired PROVE BadSince(k, time - SixHours) > 0
    <3>1. 6 * s.budgetPerHour \in Nat
      BY <2>3
    <3>2. s.bad6h > 0
      BY <1>2, <2>4, <2>7, <2>9, <3>1, ReachedBySome
    <3>3. s.bad6h <= BadSince(k, time - SixHours)
      BY <1>3, <2>1, <2>2 DEF Faithful
    <3> QED
      BY <1>3, <2>1, <2>4, <3>2, <3>3
  <2> QED
    BY <2>8, <2>9 DEF fired, k
<1> QED
  BY <1>3, <1>4 DEF BurnCountsRecentBad

(* The burn rates count every bad event of their window but for a bucket   *)
(* at its old end, and no older one, and no alert fires on older ones      *)
(* alone: for every window and bucket size, every objective and budget,    *)
(* through redefinitions, resets and any traffic.                          *)
THEOREM BurnsRight == SloSpec => []BurnCountsRecentBad
<1>1. SloInit => SloInv
  <2> SUFFICES ASSUME SloInit PROVE SloInv
    OBVIOUS
  <2>1. time \in Nat /\ slos \subseteq Slos
    BY SloAssumption DEF SloInit
  <2>2. << >> \in Seq(Nat) /\ StateOK(FreshState, << >>, time)
    BY <2>1, FreshOK
  <2> QED
    BY <2>1, <2>2 DEF SloInit, SloInv
<1> QED
  BY <1>1, SloKeeps, BurnIsTrue, PTL DEF SloSpec
-----------------------------------------------------------------------------
(* The merge of snapshots, whatever the nodes report.                      *)
-----------------------------------------------------------------------------

LEMMA SumMore ==
  ASSUME NEW f, NEW g, NEW S, IsFiniteSet(S), NEW x, x \notin S,
         \A y \in S : f[y] \in Int /\ g[y] = f[y], g[x] \in Int
  PROVE  SumFunctionOnSet(g, S \cup {x}) = SumFunctionOnSet(f, S) + g[x]
<1> DEFINE T == S \cup {x}
<1>1. IsFiniteSet(T) /\ x \in T /\ T \ {x} = S
  BY FS_AddElement
<1>2. \A y \in T : g[y] \in Int
  OBVIOUS
<1>3. SumFunctionOnSet(g, T) = g[x] + SumFunctionOnSet(g, T \ {x})
  <2> HIDE DEF T
  <2> QED
    BY <1>1, <1>2, SumStep
<1>4. SumFunctionOnSet(f, S) = SumFunctionOnSet(g, S)
  BY SumSame
<1>5. SumFunctionOnSet(f, S) \in Int
  BY SumType
<1>6. SumFunctionOnSet(g, T) = g[x] + SumFunctionOnSet(f, S)
  BY <1>1, <1>3, <1>4
<1> HIDE DEF T
<1>7. SumFunctionOnSet(g, T) = SumFunctionOnSet(f, S) + g[x]
  BY <1>5, <1>6
<1> QED
  BY <1>7 DEF T

RaisedAt(f, g, S, x, d) ==
  /\ \A y \in S : f[y] \in Int /\ (y # x => g[y] = f[y])
  /\ g[x] = f[x] + d

LEMMA SumRaised ==
  ASSUME NEW f, NEW g, NEW S, IsFiniteSet(S), NEW x \in S, NEW d \in Int, RaisedAt(f, g, S, x, d)
  PROVE  SumFunctionOnSet(g, S) = SumFunctionOnSet(f, S) + d
<1> DEFINE R == S \ {x}
<1> USE DEF RaisedAt
<1>1. IsFiniteSet(R)
  BY FS_Subset
<1>2. \A y \in S : g[y] \in Int
  OBVIOUS
<1>3. SumFunctionOnSet(g, S) = g[x] + SumFunctionOnSet(g, R)
  BY <1>2, SumStep
<1>4. SumFunctionOnSet(f, S) = f[x] + SumFunctionOnSet(f, R)
  BY SumStep
<1>5. SumFunctionOnSet(f, R) = SumFunctionOnSet(g, R)
  <2>1. \A y \in R : f[y] = g[y]
    OBVIOUS
  <2> HIDE DEF R
  <2> QED
    BY <1>1, <2>1, SumSame
<1>6. SumFunctionOnSet(f, R) \in Int
  <2>1. \A y \in R : f[y] \in Int
    OBVIOUS
  <2> HIDE DEF R
  <2> QED
    BY <1>1, <2>1, SumType
<1>7. f[x] \in Int
  OBVIOUS
<1> HIDE DEF R
<1> QED
  BY <1>3, <1>4, <1>5, <1>6, <1>7

(* Rounding stays between integers.                                        *)
LEMMA RoundBetween ==
  ASSUME NEW x \in Nat, NEW n \in Nat \ {0}, NEW lo \in Nat, NEW hi \in Nat,
         lo * n <= x, x <= hi * n
  PROVE  RoundDiv(x, n) \in Nat /\ lo <= RoundDiv(x, n) /\ RoundDiv(x, n) <= hi
<1> DEFINE a == 2 * x + n
           b == 2 * n
           q == a \div b
<1>1. a \in Nat /\ b \in Nat \ {0}
  OBVIOUS
<1>2. RoundDiv(x, n) = q
  BY DEF RoundDiv
<1> HIDE DEF a, b
<1>3. q \in Int /\ a = b * q + (a % b) /\ a % b \in 0 .. b - 1
  BY <1>1
<1> HIDE DEF q
<1>4. b * q \in Int /\ b * q <= a /\ a < b * q + b
  BY <1>1, <1>3
<1>5. q >= lo
  <2> SUFFICES ASSUME q <= lo - 1 PROVE FALSE
    BY <1>3
  <2>1. b * q <= b * (lo - 1)
    BY <1>1, <1>3
  <2>2. b * (lo - 1) = 2 * (lo * n) - b
    BY DEF b
  <2>3. lo * n \in Int
    OBVIOUS
  <2>4. a < 2 * (lo * n)
    BY <1>1, <1>4, <2>1, <2>2, <2>3
  <2> DEFINE l == lo * n
  <2> HIDE DEF l
  <2>5. a < 2 * l /\ l <= x /\ l \in Int
    BY <2>3, <2>4 DEF l
  <2> QED
    BY <2>5 DEF a
<1>6. q <= hi
  <2> SUFFICES ASSUME q >= hi + 1 PROVE FALSE
    BY <1>3
  <2>1. b * q >= b * (hi + 1)
    BY <1>1, <1>3
  <2>2. b * (hi + 1) = 2 * (hi * n) + 2 * n
    BY DEF b
  <2>3. hi * n \in Int
    OBVIOUS
  <2>4. a >= 2 * (hi * n) + 2 * n
    BY <1>1, <1>4, <2>1, <2>2, <2>3
  <2> DEFINE l == hi * n
  <2> HIDE DEF l
  <2>5. a >= 2 * l + 2 * n /\ l >= x /\ l \in Int
    BY <2>3, <2>4 DEF l
  <2> QED
    BY <2>5 DEF a
<1> QED
  BY <1>2, <1>3, <1>5, <1>6

IsSeq(s) == \E T : s \in Seq(T)

EdgeOK(e) ==
  /\ e = [source |-> e.source, target |-> e.target, sourceIp |-> e.sourceIp,
          destIp |-> e.destIp, destPort |-> e.destPort, hitCount |-> e.hitCount,
          avgLatencyUs |-> e.avgLatencyUs, totalBytes |-> e.totalBytes,
          errorCount |-> e.errorCount]
  /\ e.hitCount \in Nat /\ e.avgLatencyUs \in Nat /\ e.totalBytes \in Nat /\ e.errorCount \in Nat

EdgesOK(s) == IsSeq(s) /\ \A i \in 1 .. Len(s) : EdgeOK(s[i])

LEMMA SeqFacts ==
  ASSUME NEW s, IsSeq(s)
  PROVE  Len(s) \in Nat /\ DOMAIN s = 1 .. Len(s)
BY LenProperties DEF IsSeq

LEMMA EdgesMade ==
  ASSUME NEW n \in Nat, NEW f, f = [i \in 1 .. n |-> f[i]], \A i \in 1 .. n : EdgeOK(f[i])
  PROVE  EdgesOK(f) /\ Len(f) = n
<1> DEFINE T == { f[i] : i \in 1 .. n }
<1>1. f \in [1 .. n -> T]
  OBVIOUS
<1>2. f \in Seq(T) /\ Len(f) = n
  <2> HIDE DEF T
  <2> QED
    BY <1>1
<1> QED
  BY <1>2 DEF EdgesOK, IsSeq

LEMMA ReadOK ==
  ASSUME NEW r, r.hits \in Nat, r.latency \in Nat, r.bytes \in Nat, r.errors \in Nat
  PROVE  EdgeOK(ReadTopologyEdge(r))
<1>1. ASSUME r.hits > 0 PROVE RoundDiv(r.latency, r.hits) \in Nat
  <2> DEFINE x == r.latency
             n == r.hits
  <2>1. x \in Nat /\ n \in Nat \ {0}
    BY <1>1
  <2> HIDE DEF x, n
  <2>2. 0 * n <= x /\ x <= x * n
    BY <2>1
  <2>3. RoundDiv(x, n) \in Nat
    BY <2>1, <2>2, RoundBetween
  <2> QED
    BY <2>3 DEF x, n
<1> QED
  BY <1>1 DEF EdgeOK, ReadTopologyEdge

(* Only the target of an edge is resolved.                                 *)
LEMMA ResolveOK ==
  ASSUME NEW s, EdgesOK(s)
  PROVE  /\ EdgesOK(Resolve(s)) /\ Len(Resolve(s)) = Len(s)
         /\ \A i \in 1 .. Len(s) :
              /\ Resolve(s)[i].source = s[i].source /\ Resolve(s)[i].hitCount = s[i].hitCount
              /\ Resolve(s)[i].avgLatencyUs = s[i].avgLatencyUs
              /\ Resolve(s)[i].totalBytes = s[i].totalBytes
              /\ Resolve(s)[i].errorCount = s[i].errorCount
<1> DEFINE n == Len(s)
           t == Resolve(s)
<1>1. n \in Nat /\ DOMAIN s = 1 .. n
  BY SeqFacts DEF EdgesOK
<1>2. t = [i \in 1 .. n |-> t[i]]
  BY <1>1 DEF Resolve
<1>3. ASSUME NEW i \in 1 .. n
      PROVE  t[i] = s[i] \/ \E x : t[i] = [s[i] EXCEPT !.target = x]
  BY <1>1 DEF Resolve
<1> HIDE DEF t
<1>4. ASSUME NEW i \in 1 .. n
      PROVE  /\ EdgeOK(t[i])
             /\ t[i].source = s[i].source /\ t[i].hitCount = s[i].hitCount
             /\ t[i].avgLatencyUs = s[i].avgLatencyUs
             /\ t[i].totalBytes = s[i].totalBytes /\ t[i].errorCount = s[i].errorCount
  <2>1. EdgeOK(s[i])
    BY DEF EdgesOK
  <2>2. CASE t[i] = s[i]
    BY <2>1, <2>2
  <2>3. CASE \E x : t[i] = [s[i] EXCEPT !.target = x]
    <3>1. PICK x : t[i] = [s[i] EXCEPT !.target = x]
      BY <2>3
    <3>2. t[i] = [source |-> s[i].source, target |-> x, sourceIp |-> s[i].sourceIp,
                  destIp |-> s[i].destIp, destPort |-> s[i].destPort,
                  hitCount |-> s[i].hitCount, avgLatencyUs |-> s[i].avgLatencyUs,
                  totalBytes |-> s[i].totalBytes, errorCount |-> s[i].errorCount]
      BY <2>1, <3>1 DEF EdgeOK
    <3> QED
      BY <2>1, <3>2 DEF EdgeOK
  <2> QED
    BY <1>3, <2>2, <2>3
<1>5. EdgesOK(t) /\ Len(t) = n
  BY <1>1, <1>2, <1>4, EdgesMade
<1> QED
  BY <1>4, <1>5 DEF t

LEMMA ConcatOK ==
  ASSUME NEW a, NEW b, EdgesOK(a), EdgesOK(b)
  PROVE  EdgesOK(a \o b)
<1>1. PICK A : a \in Seq(A)
  BY DEF EdgesOK, IsSeq
<1>2. PICK B : b \in Seq(B)
  BY DEF EdgesOK, IsSeq
<1> DEFINE T == A \cup B
           c == a \o b
<1>3. a \in Seq(T) /\ b \in Seq(T)
  <2>1. Len(a) \in Nat /\ a \in [1 .. Len(a) -> A]
    BY <1>1, LenProperties
  <2>2. Len(b) \in Nat /\ b \in [1 .. Len(b) -> B]
    BY <1>2, LenProperties
  <2> QED
    BY <2>1, <2>2
<1> HIDE DEF T
<1>4. /\ c \in Seq(T) /\ Len(c) = Len(a) + Len(b)
      /\ \A i \in 1 .. Len(a) + Len(b) : c[i] = IF i <= Len(a) THEN a[i] ELSE b[i - Len(a)]
  BY <1>3, ConcatProperties
<1>5. Len(a) \in Nat /\ Len(b) \in Nat
  BY <1>1, <1>2, LenProperties
<1> HIDE DEF c
<1>6. ASSUME NEW i \in 1 .. Len(c) PROVE EdgeOK(c[i])
  <2>1. i \in 1 .. Len(a) + Len(b)
    BY <1>4
  <2>2. CASE i <= Len(a)
    <3>1. i \in 1 .. Len(a) /\ c[i] = a[i]
      BY <1>4, <1>5, <2>1, <2>2
    <3> QED
      BY <3>1 DEF EdgesOK
  <2>3. CASE ~(i <= Len(a))
    <3> DEFINE j == i - Len(a)
    <3>1. j \in 1 .. Len(b) /\ c[i] = b[j]
      BY <1>4, <1>5, <2>1, <2>3
    <3> HIDE DEF j
    <3> QED
      BY <3>1 DEF EdgesOK
  <2> QED
    BY <2>2, <2>3
<1>7. EdgesOK(c)
  BY <1>4, <1>6 DEF EdgesOK, IsSeq
<1> QED
  BY <1>7 DEF c

LEMMA FlattenRuns ==
  ASSUME NEW seqs, NEW n \in Nat
  PROVE  \E flat : flat = [i \in 1 .. n |-> IF i = 1 THEN seqs[i] ELSE flat[i - 1] \o seqs[i]]
<1> DEFINE Eq(flat, m) == flat = [i \in 1 .. m |-> IF i = 1 THEN seqs[i] ELSE flat[i - 1] \o seqs[i]]
           Solved(m) == \E flat : Eq(flat, m)
           bad == { m \in Nat : ~Solved(m) }
<1> SUFFICES ASSUME bad # {} PROVE FALSE
  OBVIOUS
<1>1. PICK m \in bad : \A k \in bad : m <= k
  <2>1. bad \in SUBSET Nat
    OBVIOUS
  <2> HIDE DEF bad
  <2> QED
    BY <2>1, Least
<1>2. CASE m = 0
  <2> DEFINE none == [i \in 1 .. 0 |-> 0]
  <2>1. Eq(none, 0)
    OBVIOUS
  <2> QED
    BY <1>2, <2>1
<1>3. CASE m # 0
  <2>1. m - 1 \in Nat /\ ~(m <= m - 1) /\ m \in Nat
    BY <1>3
  <2>2. PICK flat : Eq(flat, m - 1)
    BY <1>1, <2>1
  <2> DEFINE final == IF m = 1 THEN seqs[m] ELSE flat[m - 1] \o seqs[m]
             more == [i \in 1 .. m |-> IF i = m THEN final ELSE flat[i]]
  <2>3. \A i \in 1 .. m - 1 : more[i] = flat[i]
    BY <2>1
  <2>4. more[m] = final /\ (m # 1 => m - 1 \in 1 .. m - 1)
    BY <1>3, <2>1
  <2>5. ASSUME NEW i \in 1 .. m
        PROVE  more[i] = IF i = 1 THEN seqs[i] ELSE more[i - 1] \o seqs[i]
    <3>1. CASE i = m
      BY <2>3, <2>4, <3>1
    <3>2. CASE i # m
      <4>1. i \in 1 .. m - 1 /\ (i # 1 => i - 1 \in 1 .. m - 1)
        BY <2>1, <3>2
      <4>2. flat[i] = IF i = 1 THEN seqs[i] ELSE flat[i - 1] \o seqs[i]
        BY <2>2, <4>1
      <4> HIDE DEF more
      <4> QED
        BY <2>3, <4>1, <4>2
    <3> QED
      BY <3>1, <3>2
  <2>6. more = [i \in 1 .. m |-> more[i]]
    OBVIOUS
  <2> HIDE DEF more
  <2>7. Eq(more, m)
    BY <2>5, <2>6
  <2> QED
    BY <2>7
<1> QED
  BY <1>2, <1>3

LEMMA FlattenOK ==
  ASSUME NEW seqs, IsSeq(seqs), \A i \in 1 .. Len(seqs) : EdgesOK(seqs[i])
  PROVE  EdgesOK(FlattenSeq(seqs))
<1> DEFINE n == Len(seqs)
           flat == CHOOSE f : f = [i \in 1 .. n |-> IF i = 1 THEN seqs[i] ELSE f[i - 1] \o seqs[i]]
           bad == { m \in 1 .. n : ~EdgesOK(flat[m]) }
<1>1. n \in Nat
  BY SeqFacts
<1>2. flat = [i \in 1 .. n |-> IF i = 1 THEN seqs[i] ELSE flat[i - 1] \o seqs[i]]
  BY <1>1, FlattenRuns
<1>3. FlattenSeq(seqs) = IF n = 0 THEN seqs ELSE flat[n]
  BY DEF FlattenSeq
<1> HIDE DEF flat
<1>4. \A i \in 1 .. n : flat[i] = IF i = 1 THEN seqs[i] ELSE flat[i - 1] \o seqs[i]
  BY <1>2
<1>5. bad = {}
  <2> SUFFICES ASSUME bad # {} PROVE FALSE
    OBVIOUS
  <2>1. bad \in SUBSET Nat
    OBVIOUS
  <2>2. PICK m \in bad : \A k \in bad : m <= k
    <3> HIDE DEF bad
    <3> QED
      BY <2>1, Least
  <2>3. m \in 1 .. n /\ ~EdgesOK(flat[m]) /\ EdgesOK(seqs[m])
    OBVIOUS
  <2>4. m # 1
    BY <1>4, <2>3
  <2>5. m - 1 \in 1 .. n /\ ~(m <= m - 1)
    BY <2>3, <2>4
  <2>6. EdgesOK(flat[m - 1])
    BY <2>2, <2>5
  <2>7. EdgesOK(flat[m])
    BY <1>4, <2>3, <2>4, <2>6, ConcatOK
  <2> QED
    BY <2>3, <2>7
<1>6. CASE n = 0
  BY <1>3, <1>6 DEF EdgesOK
<1>7. CASE n # 0
  <2>1. n \in 1 .. n
    BY <1>1, <1>7
  <2> QED
    BY <1>3, <1>5, <1>7, <2>1
<1> QED
  BY <1>6, <1>7

(* One edge into another.                                                  *)
LEMMA AbsorbOK ==
  ASSUME NEW old, NEW e, EdgeOK(old), EdgeOK(e)
  PROVE  LET one == Absorb(old, e)
         IN  /\ EdgeOK(one) /\ EdgeKey(one) = EdgeKey(old) /\ one.source = old.source
             /\ one.hitCount = old.hitCount + e.hitCount
             /\ one.totalBytes = old.totalBytes + e.totalBytes
             /\ one.errorCount = old.errorCount + e.errorCount
             /\ one.hitCount > 0 =>
                  /\ \E x \in {old, e} : x.hitCount > 0 /\ x.avgLatencyUs <= one.avgLatencyUs
                  /\ \E x \in {old, e} : x.hitCount > 0 /\ x.avgLatencyUs >= one.avgLatencyUs
<1> DEFINE one == Absorb(old, e)
           h == old.hitCount
           g == e.hitCount
           a == old.avgLatencyUs
           b == e.avgLatencyUs
           avg == IF h + g = 0 THEN a ELSE RoundDiv(a * h + b * g, h + g)
<1>1. one = [source |-> old.source, target |-> old.target, sourceIp |-> old.sourceIp,
             destIp |-> old.destIp, destPort |-> old.destPort, hitCount |-> h + g,
             avgLatencyUs |-> avg, totalBytes |-> old.totalBytes + e.totalBytes,
             errorCount |-> old.errorCount + e.errorCount]
  <2>1. one = [old EXCEPT !.avgLatencyUs = avg, !.hitCount = h + g,
                          !.totalBytes = old.totalBytes + e.totalBytes,
                          !.errorCount = old.errorCount + e.errorCount]
    BY DEF Absorb
  <2> HIDE DEF one, avg
  <2> QED
    BY <2>1 DEF EdgeOK
<1>2. h \in Nat /\ g \in Nat /\ a \in Nat /\ b \in Nat
  BY DEF EdgeOK
<1>3. avg \in Nat /\ (h + g > 0 =>
        /\ (h > 0 /\ a <= avg) \/ (g > 0 /\ b <= avg)
        /\ (h > 0 /\ a >= avg) \/ (g > 0 /\ b >= avg))
  <2> HIDE DEF h, g, a, b
  <2>1. CASE h + g = 0
    BY <1>2, <2>1
  <2>2. CASE h + g # 0
    <3> DEFINE x == a * h + b * g
               n == h + g
    <3>1. a * h \in Nat /\ b * g \in Nat /\ b * h \in Nat /\ a * g \in Nat
      BY <1>2
    <3>2. x \in Nat /\ n \in Nat \ {0}
      BY <1>2, <2>2, <3>1
    <3>3. a * n = a * h + a * g /\ b * n = b * h + b * g
      BY <1>2
    <3>4. avg = RoundDiv(x, n)
      BY <2>2
    <3> HIDE DEF x, n, avg
    <3>5. CASE h = 0
      <4>1. a * h = 0
        BY <1>2, <3>5
      <4>2. b * h = 0
        BY <1>2, <3>5
      <4>3. b * n = x
        BY <3>1, <3>3, <4>1, <4>2 DEF x
      <4>4. avg = b
        <5>1. b * n <= x /\ x <= b * n
          BY <3>2, <4>3
        <5>2. RoundDiv(x, n) \in Nat /\ b <= RoundDiv(x, n) /\ RoundDiv(x, n) <= b
          BY <1>2, <3>2, <5>1, RoundBetween
        <5> QED
          BY <1>2, <3>4, <5>2
      <4> QED
        BY <1>2, <2>2, <3>5, <4>4
    <3>6. CASE g = 0
      <4>1. a * g = 0
        BY <1>2, <3>6
      <4>2. b * g = 0
        BY <1>2, <3>6
      <4>3. a * n = x
        BY <3>1, <3>3, <4>1, <4>2 DEF x
      <4>4. avg = a
        <5>1. a * n <= x /\ x <= a * n
          BY <3>2, <4>3
        <5>2. RoundDiv(x, n) \in Nat /\ a <= RoundDiv(x, n) /\ RoundDiv(x, n) <= a
          BY <1>2, <3>2, <5>1, RoundBetween
        <5> QED
          BY <1>2, <3>4, <5>2
      <4> QED
        BY <1>2, <2>2, <3>6, <4>4
    <3>7. CASE h # 0 /\ g # 0
      <4>1. CASE a <= b
        <5>1. a * g <= b * g /\ a * h <= b * h
          BY <1>2, <4>1
        <5>2. a * n <= x /\ x <= b * n
          BY <3>1, <3>3, <5>1 DEF x
        <5>3. avg \in Nat /\ a <= avg /\ avg <= b
          BY <1>2, <3>2, <3>4, <5>2, RoundBetween
        <5> QED
          BY <1>2, <3>7, <5>3
      <4>2. CASE ~(a <= b)
        <5>1. b * h <= a * h /\ b * g <= a * g
          BY <1>2, <4>2
        <5>2. b * n <= x /\ x <= a * n
          BY <3>1, <3>3, <5>1 DEF x
        <5>3. avg \in Nat /\ b <= avg /\ avg <= a
          BY <1>2, <3>2, <3>4, <5>2, RoundBetween
        <5> QED
          BY <1>2, <3>7, <5>3
      <4> QED
        BY <4>1, <4>2
    <3> QED
      BY <3>5, <3>6, <3>7
  <2> QED
    BY <2>1, <2>2
<1> HIDE DEF one, avg
<1>4. EdgeOK(one)
  BY <1>1, <1>2, <1>3 DEF EdgeOK
<1>5. EdgeKey(one) = EdgeKey(old)
  BY <1>1 DEF EdgeKey
<1> QED
  BY <1>1, <1>3, <1>4, <1>5 DEF one

LEMMA DedupRuns ==
  ASSUME NEW edges, NEW n \in Nat
  PROVE  \E upto : upto = [i \in 0 .. n |-> IF i = 0 THEN << >> ELSE Into(upto[i - 1], edges[i])]
<1> DEFINE Eq(upto, m) == upto = [i \in 0 .. m |-> IF i = 0 THEN << >> ELSE Into(upto[i - 1], edges[i])]
           Solved(m) == \E upto : Eq(upto, m)
           bad == { m \in Nat : ~Solved(m) }
<1> SUFFICES ASSUME bad # {} PROVE FALSE
  OBVIOUS
<1>1. PICK m \in bad : \A k \in bad : m <= k
  <2>1. bad \in SUBSET Nat
    OBVIOUS
  <2> HIDE DEF bad
  <2> QED
    BY <2>1, Least
<1>2. CASE m = 0
  <2> DEFINE one == [i \in 0 .. 0 |-> << >>]
  <2>1. Eq(one, 0)
    OBVIOUS
  <2> QED
    BY <1>2, <2>1
<1>3. CASE m # 0
  <2>1. m - 1 \in Nat /\ ~(m <= m - 1) /\ m \in Nat
    BY <1>3
  <2>2. PICK upto : Eq(upto, m - 1)
    BY <1>1, <2>1
  <2> DEFINE final == Into(upto[m - 1], edges[m])
             more == [i \in 0 .. m |-> IF i = m THEN final ELSE upto[i]]
  <2>3. \A i \in 0 .. m - 1 : more[i] = upto[i]
    BY <2>1
  <2>4. more[m] = final /\ m - 1 \in 0 .. m - 1
    BY <2>1
  <2>5. ASSUME NEW i \in 0 .. m
        PROVE  more[i] = IF i = 0 THEN << >> ELSE Into(more[i - 1], edges[i])
    <3>1. CASE i = m
      BY <1>3, <2>3, <2>4, <3>1
    <3>2. CASE i # m
      <4>1. i \in 0 .. m - 1 /\ (i # 0 => i - 1 \in 0 .. m - 1)
        BY <2>1, <3>2
      <4>2. upto[i] = IF i = 0 THEN << >> ELSE Into(upto[i - 1], edges[i])
        BY <2>2, <4>1
      <4> HIDE DEF more
      <4> QED
        BY <2>3, <4>1, <4>2
    <3> QED
      BY <3>1, <3>2
  <2>6. more = [i \in 0 .. m |-> more[i]]
    OBVIOUS
  <2> HIDE DEF more
  <2>7. Eq(more, m)
    BY <2>5, <2>6
  <2> QED
    BY <2>7
<1> QED
  BY <1>2, <1>3

(* What the first m edges have become: no key twice, the sums of every     *)
(* source, and averages between those of their parts.                      *)
Values(edges, field) == [i \in DOMAIN edges |-> edges[i][field]]
UpTo(edges, m, source) == { i \in 1 .. m : edges[i].source = source }
Counters == {"hitCount", "totalBytes", "errorCount"}

DistinctKeys(out) ==
  \A i, j \in 1 .. Len(out) : EdgeKey(out[i]) = EdgeKey(out[j]) => i = j
SumsKept(out, edges, m) ==
  \A source : \A field \in Counters :
    TotalOf(out, source, field) = SumFunctionOnSet(Values(edges, field), UpTo(edges, m, source))
Between(e, edges, m) ==
  e.hitCount > 0 =>
    /\ \E k \in UpTo(edges, m, e.source) :
         edges[k].hitCount > 0 /\ edges[k].avgLatencyUs <= e.avgLatencyUs
    /\ \E k \in UpTo(edges, m, e.source) :
         edges[k].hitCount > 0 /\ edges[k].avgLatencyUs >= e.avgLatencyUs

LEMMA ValuesTyped ==
  ASSUME NEW s, EdgesOK(s), NEW field \in Counters
  PROVE  \A i \in 1 .. Len(s) : Values(s, field)[i] = s[i][field] /\ s[i][field] \in Int
<1>1. DOMAIN s = 1 .. Len(s)
  BY SeqFacts DEF EdgesOK
<1>2. ASSUME NEW i \in 1 .. Len(s) PROVE s[i][field] \in Int
  <2>1. EdgeOK(s[i])
    BY DEF EdgesOK
  <2>2. s[i].hitCount \in Int /\ s[i].totalBytes \in Int /\ s[i].errorCount \in Int
    BY <2>1 DEF EdgeOK
  <2> QED
    BY <2>2 DEF Counters
<1> QED
  BY <1>1, <1>2 DEF Values

(* The place of a key, if it has one.                                      *)
LEMMA PlaceOf ==
  ASSUME NEW n \in Nat, NEW chosen \in SUBSET (1 .. n), chosen # {}
  PROVE  Min(chosen) \in chosen
<1>1. chosen \in SUBSET Nat
  OBVIOUS
<1>2. \E i \in chosen : \A j \in chosen : i <= j
  BY <1>1, Least
<1> QED
  BY <1>2 DEF Min

Replaced(out, at, e) ==
  [i \in 1 .. Len(out) |-> IF i = at THEN Absorb(out[at], e) ELSE out[i]]

LEMMA IntoShape ==
  ASSUME NEW out, EdgesOK(out), NEW e, EdgeOK(e)
  PROVE  \/ /\ Into(out, e) = Append(out, e)
            /\ \A i \in 1 .. Len(out) : EdgeKey(out[i]) # EdgeKey(e)
         \/ \E at \in 1 .. Len(out) :
              /\ EdgeKey(out[at]) = EdgeKey(e)
              /\ Into(out, e) = Replaced(out, at, e)
<1> DEFINE n == Len(out)
           same == { i \in 1 .. n : EdgeKey(out[i]) = EdgeKey(e) }
           at == IF same # {} THEN Min(same) ELSE 0
<1>1. n \in Nat /\ DOMAIN out = 1 .. n /\ out = [i \in 1 .. n |-> out[i]]
  BY LenProperties DEF EdgesOK, IsSeq
<1>2. Into(out, e) = IF at = 0 THEN Append(out, e) ELSE [out EXCEPT ![at] = Absorb(@, e)]
  BY DEF Into, SelectInSeq
<1>3. CASE same = {}
  BY <1>2, <1>3
<1>4. CASE same # {}
  <2>1. same \in SUBSET (1 .. n)
    OBVIOUS
  <2>2. at \in same
    <3> HIDE DEF same
    <3> QED
      BY <1>1, <1>4, <2>1, PlaceOf
  <2> HIDE DEF at
  <2>3. at \in 1 .. n /\ EdgeKey(out[at]) = EdgeKey(e) /\ at # 0
    BY <1>1, <2>2
  <2>4. Into(out, e) = [out EXCEPT ![at] = Absorb(out[at], e)]
    BY <1>2, <2>3
  <2>5. Into(out, e) = Replaced(out, at, e)
    BY <1>1, <2>3, <2>4 DEF Replaced
  <2> QED
    BY <2>3, <2>5
<1> QED
  BY <1>3, <1>4

LEMMA UpToGrows ==
  ASSUME NEW edges, NEW m \in Nat \ {0}, NEW source
  PROVE  /\ UpTo(edges, m, source) =
              IF edges[m].source = source THEN UpTo(edges, m - 1, source) \cup {m}
              ELSE UpTo(edges, m - 1, source)
         /\ m \notin UpTo(edges, m - 1, source) /\ IsFiniteSet(UpTo(edges, m - 1, source))
<1>1. \A i \in 1 .. m : i = m \/ i \in 1 .. m - 1
  OBVIOUS
<1>2. m \in 1 .. m /\ m \notin 1 .. m - 1 /\ \A i \in 1 .. m - 1 : i \in 1 .. m
  OBVIOUS
<1>3. IsFiniteSet(1 .. m - 1)
  BY FS_Interval
<1>4. IsFiniteSet(UpTo(edges, m - 1, source))
  BY <1>3, FS_Subset DEF UpTo
<1> QED
  BY <1>1, <1>2, <1>4 DEF UpTo

LEMMA SumUpTo ==
  ASSUME NEW edges, EdgesOK(edges), NEW m \in 1 .. Len(edges), NEW source, NEW field \in Counters
  PROVE  SumFunctionOnSet(Values(edges, field), UpTo(edges, m, source)) =
           SumFunctionOnSet(Values(edges, field), UpTo(edges, m - 1, source))
             + (IF edges[m].source = source THEN edges[m][field] ELSE 0)
<1> DEFINE f == Values(edges, field)
           S == UpTo(edges, m - 1, source)
<1>1. Len(edges) \in Nat
  BY SeqFacts DEF EdgesOK
<1>2. m \in Nat \ {0}
  BY <1>1
<1>3. \A i \in 1 .. Len(edges) : f[i] = edges[i][field] /\ f[i] \in Int
  BY ValuesTyped
<1>4. S \subseteq 1 .. Len(edges)
  BY <1>1 DEF UpTo
<1>5. IsFiniteSet(S) /\ m \notin S
  BY <1>2, UpToGrows
<1> HIDE DEF f, S
<1>6. CASE edges[m].source = source
  <2>1. UpTo(edges, m, source) = S \cup {m}
    BY <1>2, <1>6, UpToGrows DEF S
  <2>2. (\A y \in S : f[y] \in Int /\ f[y] = f[y]) /\ f[m] \in Int
    BY <1>3, <1>4
  <2>3. SumFunctionOnSet(f, S \cup {m}) = SumFunctionOnSet(f, S) + f[m]
    BY <1>5, <2>2, SumMore
  <2> QED
    BY <1>3, <1>6, <2>1, <2>3 DEF f, S
<1>7. CASE edges[m].source # source
  <2>1. UpTo(edges, m, source) = S
    BY <1>2, <1>7, UpToGrows DEF S
  <2>2. SumFunctionOnSet(f, S) \in Int
    BY <1>3, <1>4, <1>5, SumType
  <2>3. SumFunctionOnSet(f, S) = SumFunctionOnSet(f, S) + 0
    BY <2>2
  <2> QED
    BY <1>7, <2>1, <2>3 DEF f, S
<1> QED
  BY <1>6, <1>7

LEMMA AppendShape ==
  ASSUME NEW out, EdgesOK(out), NEW e, EdgeOK(e)
  PROVE  /\ EdgesOK(Append(out, e)) /\ Len(Append(out, e)) = Len(out) + 1
         /\ \A i \in 1 .. Len(out) : Append(out, e)[i] = out[i]
         /\ Append(out, e)[Len(out) + 1] = e
<1> DEFINE n == Len(out)
           more == Append(out, e)
<1>1. n \in Nat /\ DOMAIN out = 1 .. n
  BY SeqFacts DEF EdgesOK
<1>2. PICK T : out \in Seq(T)
  BY DEF EdgesOK, IsSeq
<1>3. /\ more \in Seq(T \cup {e}) /\ Len(more) = n + 1
      /\ \A i \in 1 .. n : more[i] = out[i]
      /\ more[n + 1] = e
  <2> DEFINE U == T \cup {e}
  <2>1. out \in Seq(U) /\ e \in U
    <3>1. out \in [1 .. n -> T]
      BY <1>2, LenProperties
    <3> QED
      BY <1>1, <3>1
  <2> HIDE DEF U
  <2>2. more \in Seq(U) /\ Len(more) = n + 1 /\ (\A i \in 1 .. n : more[i] = out[i]) /\ more[n + 1] = e
    BY <2>1, AppendProperties
  <2> QED
    BY <2>2 DEF U
<1> HIDE DEF more
<1>4. \A i \in 1 .. n + 1 : EdgeOK(more[i])
  <2>1. \A i \in 1 .. n + 1 : i \in 1 .. n \/ i = n + 1
    BY <1>1
  <2> QED
    BY <1>3, <2>1 DEF EdgesOK
<1>5. EdgesOK(more)
  BY <1>3, <1>4 DEF EdgesOK, IsSeq
<1> QED
  BY <1>3, <1>5 DEF more

(* The places whose values a total is of.                                  *)
LEMMA PlacesFinite ==
  ASSUME NEW s, EdgesOK(s), NEW source
  PROVE  IsFiniteSet(EdgesOf(s, source)) /\ EdgesOf(s, source) \subseteq 1 .. Len(s)
<1>1. Len(s) \in Nat /\ DOMAIN s = 1 .. Len(s)
  BY SeqFacts DEF EdgesOK
<1>2. IsFiniteSet(1 .. Len(s))
  BY <1>1, FS_Interval
<1>3. EdgesOf(s, source) \subseteq 1 .. Len(s)
  BY <1>1 DEF EdgesOf
<1> QED
  BY <1>2, <1>3, FS_Subset

LEMMA TotalAppend ==
  ASSUME NEW out, EdgesOK(out), NEW e, EdgeOK(e), NEW source, NEW field \in Counters
  PROVE  TotalOf(Append(out, e), source, field) =
           TotalOf(out, source, field) + (IF e.source = source THEN e[field] ELSE 0)
<1> DEFINE n == Len(out)
           x == n + 1
           more == Append(out, e)
           f == Values(out, field)
           g == Values(more, field)
           S == EdgesOf(out, source)
<1>1. n \in Nat /\ DOMAIN out = 1 .. n
  BY SeqFacts DEF EdgesOK
<1>2. EdgesOK(more) /\ Len(more) = x /\ (\A i \in 1 .. n : more[i] = out[i]) /\ more[x] = e
  BY AppendShape
<1> HIDE DEF more
<1>3. DOMAIN more = 1 .. x
  BY <1>2, SeqFacts DEF EdgesOK
<1>4. \A i : i \in 1 .. x <=> i \in 1 .. n \/ i = x
  BY <1>1
<1>5. x \notin 1 .. n
  BY <1>1
<1>6. IsFiniteSet(S) /\ S \subseteq 1 .. n
  BY PlacesFinite
<1>7. /\ \A i \in 1 .. n : f[i] \in Int /\ g[i] = f[i]
      /\ g[x] = e[field] /\ g[x] \in Int
  <2>1. \A i \in 1 .. n : f[i] = out[i][field] /\ f[i] \in Int
    BY ValuesTyped
  <2>2. \A i \in 1 .. x : g[i] = more[i][field] /\ more[i][field] \in Int
    BY <1>2, ValuesTyped
  <2> HIDE DEF f, g, x
  <2> QED
    BY <1>2, <1>4, <2>1, <2>2
<1>8. TotalOf(out, source, field) = SumFunctionOnSet(f, S)
  BY DEF TotalOf, Values
<1>9. TotalOf(more, source, field) = SumFunctionOnSet(g, EdgesOf(more, source))
  BY DEF TotalOf, Values
<1> HIDE DEF n, f, g, S, x
<1>10. CASE e.source = source
  <2>1. EdgesOf(more, source) = S \cup {x}
    BY <1>1, <1>2, <1>3, <1>4, <1>10 DEF EdgesOf, S
  <2>2. \A y \in S : f[y] \in Int /\ g[y] = f[y]
    BY <1>6, <1>7
  <2>3. x \notin S
    BY <1>5, <1>6
  <2>4. IsFiniteSet(S) /\ g[x] \in Int
    BY <1>6, <1>7
  <2>5. SumFunctionOnSet(g, S \cup {x}) = SumFunctionOnSet(f, S) + g[x]
    BY <2>2, <2>3, <2>4, SumMore
  <2>6. TotalOf(more, source, field) = TotalOf(out, source, field) + e[field]
    BY <1>7, <1>8, <1>9, <2>1, <2>5
  <2> QED
    BY <1>10, <2>6 DEF more
<1>11. CASE e.source # source
  <2>1. EdgesOf(more, source) = S
    BY <1>1, <1>2, <1>3, <1>4, <1>11 DEF EdgesOf, S
  <2>2. \A y \in S : f[y] = g[y] /\ f[y] \in Int
    BY <1>6, <1>7
  <2>3. SumFunctionOnSet(f, S) = SumFunctionOnSet(g, S)
    BY <1>6, <2>2, SumSame
  <2>4. SumFunctionOnSet(f, S) \in Int
    BY <1>6, <2>2, SumType
  <2>5. TotalOf(more, source, field) = TotalOf(out, source, field) + 0
    BY <1>8, <1>9, <2>1, <2>3, <2>4
  <2> QED
    BY <1>11, <2>5 DEF more
<1> QED
  BY <1>10, <1>11

LEMMA ReplacedShape ==
  ASSUME NEW out, EdgesOK(out), NEW e, EdgeOK(e), NEW at \in 1 .. Len(out)
  PROVE  LET more == Replaced(out, at, e)
         IN  /\ EdgesOK(more) /\ Len(more) = Len(out) /\ more[at] = Absorb(out[at], e)
             /\ \A i \in 1 .. Len(out) : i # at => more[i] = out[i]
             /\ \A i \in 1 .. Len(out) : /\ more[i].source = out[i].source
                                         /\ EdgeKey(more[i]) = EdgeKey(out[i])
<1> DEFINE n == Len(out)
           more == Replaced(out, at, e)
<1>1. n \in Nat
  BY SeqFacts DEF EdgesOK
<1>2. /\ more[at] = Absorb(out[at], e)
      /\ \A i \in 1 .. n : i # at => more[i] = out[i]
      /\ more = [i \in 1 .. n |-> more[i]]
  BY DEF Replaced
<1> HIDE DEF more
<1>3. EdgeOK(out[at])
  BY DEF EdgesOK
<1>4. EdgeOK(more[at]) /\ more[at].source = out[at].source /\ EdgeKey(more[at]) = EdgeKey(out[at])
  BY <1>2, <1>3, AbsorbOK
<1>5. \A i \in 1 .. n : /\ EdgeOK(more[i]) /\ more[i].source = out[i].source
                        /\ EdgeKey(more[i]) = EdgeKey(out[i])
  BY <1>2, <1>4 DEF EdgesOK
<1>6. EdgesOK(more) /\ Len(more) = n
  BY <1>1, <1>2, <1>5, EdgesMade
<1> QED
  BY <1>2, <1>5, <1>6 DEF more

LEMMA TotalReplaced ==
  ASSUME NEW out, EdgesOK(out), NEW e, EdgeOK(e), NEW at \in 1 .. Len(out),
         EdgeKey(out[at]) = EdgeKey(e), NEW source, NEW field \in Counters
  PROVE  TotalOf(Replaced(out, at, e), source, field) =
           TotalOf(out, source, field) + (IF e.source = source THEN e[field] ELSE 0)
<1> DEFINE n == Len(out)
           more == Replaced(out, at, e)
           f == Values(out, field)
           g == Values(more, field)
           S == EdgesOf(out, source)
           d == e[field]
<1>1. n \in Nat /\ DOMAIN out = 1 .. n
  BY SeqFacts DEF EdgesOK
<1>2. /\ EdgesOK(more) /\ Len(more) = n /\ more[at] = Absorb(out[at], e)
      /\ \A i \in 1 .. n : i # at => more[i] = out[i]
      /\ \A i \in 1 .. n : more[i].source = out[i].source
  BY ReplacedShape
<1> HIDE DEF more
<1>3. DOMAIN more = 1 .. n
  BY <1>2, SeqFacts DEF EdgesOK
<1>4. more[at][field] = out[at][field] + d
  <2>1. EdgeOK(out[at])
    BY DEF EdgesOK
  <2>2. /\ more[at].hitCount = out[at].hitCount + e.hitCount
        /\ more[at].totalBytes = out[at].totalBytes + e.totalBytes
        /\ more[at].errorCount = out[at].errorCount + e.errorCount
    BY <1>2, <2>1, AbsorbOK
  <2> QED
    BY <2>2 DEF Counters
<1>5. d \in Int
  <2>1. e.hitCount \in Int /\ e.totalBytes \in Int /\ e.errorCount \in Int
    BY DEF EdgeOK
  <2> QED
    BY <2>1 DEF Counters
<1>6. EdgesOf(more, source) = S
  BY <1>1, <1>2, <1>3 DEF EdgesOf
<1>7. IsFiniteSet(S) /\ S \subseteq 1 .. n
  BY PlacesFinite
<1>8. out[at].source = e.source
  BY DEF EdgeKey
<1>9. /\ \A i \in 1 .. n : f[i] \in Int /\ (i # at => g[i] = f[i])
      /\ g[at] = f[at] + d
  <2>1. \A i \in 1 .. n : f[i] = out[i][field] /\ f[i] \in Int
    BY ValuesTyped
  <2>2. \A i \in 1 .. n : g[i] = more[i][field]
    BY <1>2, ValuesTyped
  <2> HIDE DEF f, g
  <2> QED
    BY <1>2, <1>4, <2>1, <2>2
<1>10. TotalOf(out, source, field) = SumFunctionOnSet(f, S)
  BY DEF TotalOf, Values
<1>11. TotalOf(more, source, field) = SumFunctionOnSet(g, S)
  BY <1>6 DEF TotalOf, Values
<1>12. at \in S <=> e.source = source
  BY <1>1, <1>8 DEF EdgesOf
<1> HIDE DEF n, f, g, S, d
<1>13. CASE e.source = source
  <2>1. IsFiniteSet(S) /\ at \in S
    BY <1>7, <1>12, <1>13
  <2>2. RaisedAt(f, g, S, at, d)
    BY <1>7, <1>9 DEF RaisedAt
  <2>3. SumFunctionOnSet(g, S) = SumFunctionOnSet(f, S) + d
    BY <1>5, <2>1, <2>2, SumRaised
  <2> QED
    BY <1>10, <1>11, <1>13, <2>3 DEF d, more
<1>14. CASE e.source # source
  <2>1. \A y \in S : f[y] = g[y] /\ f[y] \in Int
    BY <1>7, <1>9, <1>12, <1>14
  <2>2. SumFunctionOnSet(f, S) = SumFunctionOnSet(g, S)
    BY <1>7, <2>1, SumSame
  <2>3. SumFunctionOnSet(f, S) \in Int
    BY <1>7, <2>1, SumType
  <2>4. TotalOf(more, source, field) = TotalOf(out, source, field) + 0
    BY <1>10, <1>11, <2>2, <2>3
  <2> QED
    BY <1>14, <2>4 DEF more
<1> QED
  BY <1>13, <1>14

DedupInv(out, edges, m) ==
  /\ EdgesOK(out)
  /\ DistinctKeys(out)
  /\ SumsKept(out, edges, m)
  /\ \A i \in 1 .. Len(out) : Between(out[i], edges, m)

LEMMA IntoKeeps ==
  ASSUME NEW edges, EdgesOK(edges), NEW m \in 1 .. Len(edges), NEW out,
         DedupInv(out, edges, m - 1)
  PROVE  DedupInv(Into(out, edges[m]), edges, m)
<1> DEFINE e == edges[m]
           n == Len(out)
           more == Into(out, e)
<1>1. EdgeOK(e) /\ EdgesOK(out) /\ DistinctKeys(out) /\ SumsKept(out, edges, m - 1)
      /\ \A i \in 1 .. n : Between(out[i], edges, m - 1)
  BY DEF DedupInv, EdgesOK
<1>2. n \in Nat /\ m \in Nat \ {0}
  BY <1>1, SeqFacts DEF EdgesOK
<1>3. ASSUME \A source : \A field \in Counters :
               TotalOf(more, source, field) =
                 TotalOf(out, source, field) + (IF e.source = source THEN e[field] ELSE 0)
      PROVE  SumsKept(more, edges, m)
  <2> SUFFICES ASSUME NEW source, NEW field \in Counters
               PROVE  TotalOf(more, source, field) =
                        SumFunctionOnSet(Values(edges, field), UpTo(edges, m, source))
    BY DEF SumsKept
  <2>1. TotalOf(out, source, field) =
          SumFunctionOnSet(Values(edges, field), UpTo(edges, m - 1, source))
    BY <1>1 DEF SumsKept
  <2>2. SumFunctionOnSet(Values(edges, field), UpTo(edges, m, source)) =
          SumFunctionOnSet(Values(edges, field), UpTo(edges, m - 1, source))
            + (IF e.source = source THEN e[field] ELSE 0)
    BY SumUpTo
  <2>3. TotalOf(more, source, field) =
          TotalOf(out, source, field) + (IF e.source = source THEN e[field] ELSE 0)
    BY <1>3
  <2> HIDE DEF more, e
  <2> QED
    BY <2>1, <2>2, <2>3
<1>4. \A source : UpTo(edges, m - 1, source) \subseteq UpTo(edges, m, source)
  BY <1>2, UpToGrows
<1>5. m \in UpTo(edges, m, e.source)
  BY <1>2 DEF UpTo
<1>6. ASSUME NEW x, Between(x, edges, m - 1) PROVE Between(x, edges, m)
  BY <1>4, <1>6 DEF Between
<1>7. Between(e, edges, m)
  <2>1. e.avgLatencyUs <= e.avgLatencyUs /\ e.avgLatencyUs >= e.avgLatencyUs
    BY <1>1 DEF EdgeOK
  <2> QED
    BY <1>5, <2>1 DEF Between
<1>8. CASE more = Append(out, e) /\ \A i \in 1 .. n : EdgeKey(out[i]) # EdgeKey(e)
  <2> HIDE DEF e, more, n
  <2>1. /\ EdgesOK(more) /\ Len(more) = n + 1
        /\ \A i \in 1 .. n : more[i] = out[i]
        /\ more[n + 1] = e
    BY <1>1, <1>8, AppendShape DEF n
  <2>2. SumsKept(more, edges, m)
    BY <1>1, <1>3, <1>8, TotalAppend
  <2>3. \A i \in 1 .. n + 1 : i \in 1 .. n \/ i = n + 1
    BY <1>2
  <2>4. DistinctKeys(more)
    <3> SUFFICES ASSUME NEW i \in 1 .. n + 1, NEW j \in 1 .. n + 1,
                        EdgeKey(more[i]) = EdgeKey(more[j])
                 PROVE  i = j
      BY <2>1 DEF DistinctKeys
    <3>1. CASE i \in 1 .. n /\ j \in 1 .. n
      BY <1>1, <2>1, <3>1 DEF DistinctKeys, n
    <3>2. CASE ~(i \in 1 .. n /\ j \in 1 .. n)
      BY <1>8, <2>1, <2>3, <3>2
    <3> QED
      BY <3>1, <3>2
  <2>5. \A i \in 1 .. n + 1 : Between(more[i], edges, m)
    BY <1>1, <1>6, <1>7, <2>1, <2>3
  <2>6. DedupInv(more, edges, m)
    BY <2>1, <2>2, <2>4, <2>5 DEF DedupInv
  <2> QED
    BY <2>6 DEF more, e
<1>9. CASE \E at \in 1 .. n : EdgeKey(out[at]) = EdgeKey(e) /\ more = Replaced(out, at, e)
  <2>1. PICK at \in 1 .. n : EdgeKey(out[at]) = EdgeKey(e) /\ more = Replaced(out, at, e)
    BY <1>9
  <2> DEFINE old == out[at]
             one == Absorb(old, e)
  <2> HIDE DEF e, more
  <2>2. /\ EdgesOK(more) /\ Len(more) = n /\ more[at] = one
        /\ \A i \in 1 .. n : i # at => more[i] = out[i]
        /\ \A i \in 1 .. n : EdgeKey(more[i]) = EdgeKey(out[i])
    BY <1>1, <2>1, ReplacedShape
  <2>3. \A source : \A field \in Counters :
          TotalOf(more, source, field) =
            TotalOf(out, source, field) + (IF e.source = source THEN e[field] ELSE 0)
    BY <1>1, <2>1, TotalReplaced
  <2>4. SumsKept(more, edges, m)
    BY <1>3, <2>3
  <2>5. EdgeOK(old)
    BY <1>1 DEF EdgesOK
  <2>6. /\ EdgeKey(one) = EdgeKey(old) /\ one.source = old.source
        /\ one.hitCount > 0 =>
             /\ \E x \in {old, e} : x.hitCount > 0 /\ x.avgLatencyUs <= one.avgLatencyUs
             /\ \E x \in {old, e} : x.hitCount > 0 /\ x.avgLatencyUs >= one.avgLatencyUs
    BY <1>1, <2>5, AbsorbOK
  <2>8. DistinctKeys(more)
    BY <1>1, <2>2 DEF DistinctKeys
  <2>9. e.source = old.source
    BY <2>1 DEF EdgeKey
  <2>10. EdgeOK(one)
    BY <1>1, <2>5, AbsorbOK
  <2>11. Between(one, edges, m)
    <3> SUFFICES ASSUME one.hitCount > 0
                 PROVE  /\ \E k \in UpTo(edges, m, one.source) :
                             edges[k].hitCount > 0 /\ edges[k].avgLatencyUs <= one.avgLatencyUs
                        /\ \E k \in UpTo(edges, m, one.source) :
                             edges[k].hitCount > 0 /\ edges[k].avgLatencyUs >= one.avgLatencyUs
      BY DEF Between
    <3>1. Between(old, edges, m)
      BY <1>1, <1>6
    <3>2. \A x \in {old, e} : Between(x, edges, m) /\ x.source = one.source /\ x.avgLatencyUs \in Nat
      BY <1>1, <1>7, <2>5, <2>6, <2>9, <3>1 DEF EdgeOK
    <3>3. one.avgLatencyUs \in Nat
      BY <2>10 DEF EdgeOK
    <3>4. \A k \in UpTo(edges, m, one.source) : edges[k].avgLatencyUs \in Nat
      <4> SUFFICES ASSUME NEW k \in UpTo(edges, m, one.source) PROVE edges[k].avgLatencyUs \in Nat
        OBVIOUS
      <4>1. k \in 1 .. Len(edges)
        BY SeqFacts DEF UpTo, EdgesOK
      <4> QED
        BY <4>1 DEF EdgesOK, EdgeOK
    <3> HIDE DEF one, old
    <3>5. \E k \in UpTo(edges, m, one.source) :
            edges[k].hitCount > 0 /\ edges[k].avgLatencyUs <= one.avgLatencyUs
      <4>1. PICK x \in {old, e} : x.hitCount > 0 /\ x.avgLatencyUs <= one.avgLatencyUs
        BY <2>6
      <4>2. PICK k \in UpTo(edges, m, x.source) :
              edges[k].hitCount > 0 /\ edges[k].avgLatencyUs <= x.avgLatencyUs
        BY <3>2, <4>1 DEF Between
      <4>3. k \in UpTo(edges, m, one.source) /\ x.avgLatencyUs \in Nat
        BY <3>2, <4>2
      <4>4. edges[k].avgLatencyUs <= one.avgLatencyUs
        BY <3>3, <3>4, <4>1, <4>2, <4>3
      <4> QED
        BY <4>2, <4>3, <4>4
    <3>6. \E k \in UpTo(edges, m, one.source) :
            edges[k].hitCount > 0 /\ edges[k].avgLatencyUs >= one.avgLatencyUs
      <4>1. PICK x \in {old, e} : x.hitCount > 0 /\ x.avgLatencyUs >= one.avgLatencyUs
        BY <2>6
      <4>2. PICK k \in UpTo(edges, m, x.source) :
              edges[k].hitCount > 0 /\ edges[k].avgLatencyUs >= x.avgLatencyUs
        BY <3>2, <4>1 DEF Between
      <4>3. k \in UpTo(edges, m, one.source) /\ x.avgLatencyUs \in Nat
        BY <3>2, <4>2
      <4>4. edges[k].avgLatencyUs >= one.avgLatencyUs
        BY <3>3, <3>4, <4>1, <4>2, <4>3
      <4> QED
        BY <4>2, <4>3, <4>4
    <3> QED
      BY <3>5, <3>6
  <2>12. \A i \in 1 .. n : Between(more[i], edges, m)
    BY <1>1, <1>6, <2>2, <2>11
  <2>13. DedupInv(more, edges, m)
    BY <2>2, <2>4, <2>8, <2>12 DEF DedupInv
  <2> QED
    BY <2>13 DEF more, e
<1>10. \/ more = Append(out, e) /\ \A i \in 1 .. n : EdgeKey(out[i]) # EdgeKey(e)
       \/ \E at \in 1 .. n : EdgeKey(out[at]) = EdgeKey(e) /\ more = Replaced(out, at, e)
  <2> HIDE DEF e
  <2> QED
    BY <1>1, IntoShape
<1> QED
  BY <1>8, <1>9, <1>10

LEMMA DedupOK ==
  ASSUME NEW edges, EdgesOK(edges)
  PROVE  DedupInv(DeduplicateEdges(edges), edges, Len(edges))
<1> DEFINE n == Len(edges)
           upto == CHOOSE f : f = [i \in 0 .. n |-> IF i = 0 THEN << >> ELSE Into(f[i - 1], edges[i])]
           bad == { m \in 0 .. n : ~DedupInv(upto[m], edges, m) }
<1>1. n \in Nat
  BY SeqFacts DEF EdgesOK
<1>2. upto = [i \in 0 .. n |-> IF i = 0 THEN << >> ELSE Into(upto[i - 1], edges[i])]
  BY <1>1, DedupRuns
<1>3. DeduplicateEdges(edges) = upto[n]
  BY DEF DeduplicateEdges
<1> HIDE DEF upto
<1>4. \A i \in 0 .. n : upto[i] = IF i = 0 THEN << >> ELSE Into(upto[i - 1], edges[i])
  BY <1>2
<1>5. bad = {}
  <2> SUFFICES ASSUME bad # {} PROVE FALSE
    OBVIOUS
  <2>1. bad \in SUBSET Nat
    OBVIOUS
  <2>2. PICK m \in bad : \A k \in bad : m <= k
    <3> HIDE DEF bad
    <3> QED
      BY <2>1, Least
  <2>3. m \in 0 .. n /\ ~DedupInv(upto[m], edges, m)
    OBVIOUS
  <2>4. CASE m = 0
    <3>1. upto[0] = << >>
      BY <1>4, <2>3, <2>4
    <3>2. EdgesOK(<< >>) /\ DistinctKeys(<< >>) /\ Len(<< >>) = 0
      BY DEF EdgesOK, IsSeq, DistinctKeys
    <3>3. SumsKept(<< >>, edges, 0)
      <4> SUFFICES ASSUME NEW source, NEW field \in Counters
                   PROVE  TotalOf(<< >>, source, field) =
                            SumFunctionOnSet(Values(edges, field), UpTo(edges, 0, source))
        BY DEF SumsKept
      <4>1. EdgesOf(<< >>, source) = {} /\ UpTo(edges, 0, source) = {}
        BY DEF EdgesOf, UpTo
      <4> QED
        BY <4>1, SumOfNone DEF TotalOf
    <3>4. DedupInv(<< >>, edges, 0)
      BY <3>2, <3>3 DEF DedupInv
    <3> QED
      BY <2>3, <2>4, <3>1, <3>4
  <2>5. CASE m # 0
    <3>1. m - 1 \in 0 .. n /\ ~(m <= m - 1) /\ m \in 1 .. n
      BY <1>1, <2>3, <2>5
    <3>2. DedupInv(upto[m - 1], edges, m - 1)
      BY <2>2, <3>1
    <3>3. upto[m] = Into(upto[m - 1], edges[m])
      BY <1>4, <2>3, <2>5
    <3>4. DedupInv(upto[m], edges, m)
      BY <3>1, <3>2, <3>3, IntoKeeps
    <3> QED
      BY <2>3, <3>4
  <2> QED
    BY <2>4, <2>5
<1>6. n \in 0 .. n
  BY <1>1
<1> QED
  BY <1>3, <1>5, <1>6

(* The merge of any sequence of snapshots.                                 *)
LEMMA MergeOK ==
  ASSUME NEW snapshots, IsSeq(snapshots),
         \A i \in 1 .. Len(snapshots) : EdgesOK(snapshots[i].edges)
  PROVE  KeepsTotals(snapshots)
<1> DEFINE lists == [i \in DOMAIN snapshots |-> snapshots[i].edges]
           all == FlattenSeq(lists)
           made == Resolve(all)
           out == DeduplicateEdges(made)
           n == Len(all)
<1>1. DOMAIN snapshots = 1 .. Len(snapshots) /\ Len(snapshots) \in Nat
  BY SeqFacts
<1>2. IsSeq(lists) /\ Len(lists) = Len(snapshots)
  <2> DEFINE T == { lists[i] : i \in 1 .. Len(snapshots) }
  <2>1. lists \in [1 .. Len(snapshots) -> T]
    BY <1>1
  <2>2. lists \in Seq(T) /\ Len(lists) = Len(snapshots)
    <3> HIDE DEF T, lists
    <3> QED
      BY <1>1, <2>1
  <2> QED
    BY <2>2 DEF IsSeq
<1>3. EdgesOK(all)
  <2>1. \A i \in 1 .. Len(lists) : EdgesOK(lists[i])
    BY <1>1, <1>2
  <2> HIDE DEF lists
  <2> QED
    BY <1>2, <2>1, FlattenOK
<1>4. CollectAllNodeData(snapshots).allEdges = all /\ Merge(snapshots).edges = out
  BY DEF CollectAllNodeData, Project, Merge, MergedEdges
<1> HIDE DEF lists, all, made, out
<1>5. /\ EdgesOK(made) /\ Len(made) = n
      /\ \A i \in 1 .. n :
           /\ made[i].source = all[i].source /\ made[i].hitCount = all[i].hitCount
           /\ made[i].avgLatencyUs = all[i].avgLatencyUs
           /\ made[i].totalBytes = all[i].totalBytes /\ made[i].errorCount = all[i].errorCount
  BY <1>3, ResolveOK DEF made
<1>6. DedupInv(out, made, n)
  BY <1>5, DedupOK DEF out
<1>7. EdgesOK(out) /\ DistinctKeys(out) /\ SumsKept(out, made, n)
      /\ \A i \in 1 .. Len(out) : Between(out[i], made, n)
  BY <1>6 DEF DedupInv
<1>8. n \in Nat /\ DOMAIN all = 1 .. n /\ DOMAIN out = 1 .. Len(out)
  BY <1>3, <1>7, SeqFacts DEF EdgesOK
<1>9. \A source : UpTo(made, n, source) = EdgesOf(all, source)
  BY <1>5, <1>8 DEF UpTo, EdgesOf
<1>10. ASSUME NEW source, NEW field \in Counters
       PROVE  TotalOf(out, source, field) = TotalOf(all, source, field)
  <2> DEFINE f == Values(made, field)
             g == Values(all, field)
             S == EdgesOf(all, source)
  <2>1. TotalOf(out, source, field) = SumFunctionOnSet(f, S)
    BY <1>7, <1>9 DEF SumsKept
  <2>2. TotalOf(all, source, field) = SumFunctionOnSet(g, S)
    BY DEF TotalOf, Values
  <2>3. \A i \in 1 .. n : f[i] = made[i][field] /\ g[i] = all[i][field]
    BY <1>3, <1>5, ValuesTyped
  <2>4. \A i \in 1 .. n : made[i][field] = all[i][field]
    BY <1>5 DEF Counters
  <2>5. IsFiniteSet(S) /\ S \subseteq 1 .. n
    BY <1>3, PlacesFinite
  <2> HIDE DEF f, g, S
  <2>6. \A i \in S : f[i] = g[i]
    BY <2>3, <2>4, <2>5
  <2>7. SumFunctionOnSet(f, S) = SumFunctionOnSet(g, S)
    BY <2>5, <2>6, SumSame
  <2> QED
    BY <2>1, <2>2, <2>7
<1>11. ASSUME NEW i \in DOMAIN out, out[i].hitCount > 0
       PROVE  LET parts == { k \in EdgesOf(all, out[i].source) : all[k].hitCount > 0 }
              IN  /\ \E k \in parts : all[k].avgLatencyUs <= out[i].avgLatencyUs
                  /\ \E k \in parts : all[k].avgLatencyUs >= out[i].avgLatencyUs
  <2>1. Between(out[i], made, n)
    BY <1>7, <1>8
  <2>2. /\ \E k \in EdgesOf(all, out[i].source) :
             made[k].hitCount > 0 /\ made[k].avgLatencyUs <= out[i].avgLatencyUs
        /\ \E k \in EdgesOf(all, out[i].source) :
             made[k].hitCount > 0 /\ made[k].avgLatencyUs >= out[i].avgLatencyUs
    BY <1>9, <1>11, <2>1 DEF Between
  <2>3. \A k \in EdgesOf(all, out[i].source) :
          made[k].hitCount = all[k].hitCount /\ made[k].avgLatencyUs = all[k].avgLatencyUs
    BY <1>5, <1>8 DEF EdgesOf
  <2> QED
    BY <2>2, <2>3
<1>12. \A i, j \in DOMAIN out : EdgeKey(out[i]) = EdgeKey(out[j]) => i = j
  BY <1>7, <1>8 DEF DistinctKeys
<1> QED
  BY <1>4, <1>10, <1>11, <1>12 DEF KeepsTotals, Counters

(* What a process pushes, from what its engine counted.                    *)
LEMMA PushedOK ==
  ASSUME NEW id \in Ids
  PROVE  EdgesOK(Pushed(id).edges)
<1> DEFINE records == Reported[id].records
           n == Len(records)
           read == [i \in DOMAIN records |-> ReadTopologyEdge(records[i])]
<1>1. /\ records \in Seq(Range(records))
      /\ \A r \in Range(records) :
           r.hits \in Nat /\ r.latency \in Nat /\ r.bytes \in Nat /\ r.errors \in Nat
  BY ReportedAssumption
<1>2. n \in Nat /\ DOMAIN records = 1 .. n
  BY <1>1, LenProperties
<1>3. \A i \in 1 .. n : EdgeOK(read[i])
  BY <1>1, <1>2, ReadOK DEF Range
<1>4. read = [i \in 1 .. n |-> read[i]]
  BY <1>2
<1>5. Pushed(id).edges = Resolve(read)
  BY DEF Pushed, Snapshot, TopologyEdges, Project
<1> HIDE DEF read, n
<1>6. EdgesOK(read)
  BY <1>2, <1>3, <1>4, EdgesMade
<1> QED
  BY <1>5, <1>6, ResolveOK

(* A view is made of finitely many snapshots.                              *)
FiniteInv == IsFiniteSet(DOMAIN nodes) /\ IsFiniteSet(DOMAIN merged)

LEMMA FiniteKeeps == FiniteInv /\ [Next]_vars => FiniteInv'
<1> SUFFICES ASSUME FiniteInv, [Next]_vars PROVE FiniteInv'
  OBVIOUS
<1>1. ASSUME NEW r \in net, Push(r) PROVE FiniteInv'
  <2>1. IsFiniteSet(DOMAIN SetNode(r))
    <3>1. DOMAIN SetNode(r) = DOMAIN nodes \cup {r.id}
      BY DEF SetNode
    <3> QED
      BY <3>1, FS_AddElement DEF FiniteInv
  <2>2. DOMAIN Prune(SetNode(r)) \subseteq DOMAIN SetNode(r)
    BY DEF Prune
  <2>3. IsFiniteSet(DOMAIN Prune(SetNode(r)))
    BY <2>1, <2>2, FS_Subset
  <2> QED
    BY <1>1, <2>3 DEF Push, FiniteInv
<1>2. CASE RestartAggregator
  BY <1>2, FS_EmptySet DEF RestartAggregator, Empty, FiniteInv
<1>3. CASE Tick
  BY <1>3 DEF Tick, Aged, FiniteInv
<1>4. CASE UNCHANGED <<nodes, merged>>
  BY <1>4 DEF FiniteInv
<1> QED
  BY <1>1, <1>2, <1>3, <1>4 DEF Next, vars, PushOnce, Start, Stop, Lose

(* Whatever the nodes report, of whatever snapshots and in whatever order  *)
(* the view is made: every source's connections, bytes and errors are kept *)
(* to the last one, no two edges are alike, and no average is invented.    *)
THEOREM MergesRight == Spec => []MergeKeepsTotals
<1>1. IInv /\ FiniteInv => MergeKeepsTotals
  <2> SUFFICES ASSUME IInv, FiniteInv, NEW order \in SetToSeqs(DOMAIN merged)
               PROVE  KeepsTotals(Project(order, Pushed))
    BY DEF MergeKeepsTotals
  <2> DEFINE D == DOMAIN merged
             n == Cardinality(D)
             snapshots == [i \in DOMAIN order |-> Pushed(order[i])]
             T == { Pushed(id) : id \in D }
  <2>1. n \in Nat /\ D \subseteq Ids
    BY FS_CardinalityType DEF FiniteInv, IInv, SnapshotsOK
  <2>2. order \in [1 .. n -> D]
    BY DEF SetToSeqs
  <2>3. snapshots \in [1 .. n -> T]
    BY <2>2
  <2>4. IsSeq(snapshots) /\ Len(snapshots) = n
    <3> HIDE DEF snapshots, n, T
    <3>1. snapshots \in Seq(T) /\ Len(snapshots) = n
      BY <2>1, <2>3
    <3> QED
      BY <3>1 DEF IsSeq
  <2>5. \A i \in 1 .. n : EdgesOK(snapshots[i].edges)
    <3> SUFFICES ASSUME NEW i \in 1 .. n PROVE EdgesOK(snapshots[i].edges)
      OBVIOUS
    <3>1. snapshots[i] = Pushed(order[i]) /\ order[i] \in Ids
      BY <2>1, <2>2
    <3> QED
      BY <3>1, PushedOK
  <2>6. KeepsTotals(snapshots)
    <3> HIDE DEF snapshots
    <3> QED
      BY <2>4, <2>5, MergeOK
  <2> QED
    BY <2>6 DEF Project
<1>2. Init => FiniteInv
  BY FS_EmptySet DEF Init, Empty, FiniteInv
<1> QED
  BY <1>1, <1>2, FiniteKeeps, Invariance, PTL DEF Spec
=============================================================================

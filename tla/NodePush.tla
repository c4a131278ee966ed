------------------------------ MODULE NodePush ------------------------------
(***************************************************************************)
(* Nodes push snapshots of their topology to an aggregator                 *)
(* (ts/apps/api/src/lib/aggregator.ts; the push route of server.ts).  A    *)
(* node pushes on a timer and does not wait for the answer, so requests    *)
(* overlap and are processed in any order.  The aggregator keeps the last  *)
(* snapshot it processed of each nodeId, drops those whose stamp is more   *)
(* than a minute old, and merges the rest.                                 *)
(*                                                                         *)
(* Time is counted in ticks.  A snapshot is represented by its age, the    *)
(* ticks since its node stamped it: the smaller the newer; what it holds   *)
(* is what its process has to report, merged as in Topology.  The client's *)
(* count of failures only goes into a log line (the pause it announces is  *)
(* not kept), so an answer changes no state and is left out, and a request *)
(* that fails is one that is never processed.                              *)
(*                                                                         *)
(* A definition marked "Mutant" is a faulty variant of the definition      *)
(* after it: nothing uses it but the test that the properties catch it.    *)
(***************************************************************************)
EXTENDS Topology

CONSTANTS
  Nodes,    \* machines
  Lives,    \* by machine, the random nodeIds its processes take
  Down,
  Interval, \* intervalMs
  InFlight, \* longest time from a snapshot to its processing: the timeout of
            \* the client, and what is processed after the client gave up
  Stale,    \* 60_000
  Skew,     \* by machine, how far its clock is behind the aggregator's
  Reported, \* by nodeId, what the process has to report: the engine's
            \* topology records, the services and the count of drops
  MaxAge    \* ages are counted up to here

ASSUME NodePushAssumption ==
  /\ \A n \in Nodes : Down \notin Lives[n]
  /\ Interval \in Nat \ {0}
  /\ InFlight \in Nat
  /\ Stale \in Nat
  /\ Skew \in [Nodes -> Int]
  /\ MaxAge \in Nat
  /\ \A n \in Nodes : MaxAge + Skew[n] > Stale

Ids == UNION { {n} \X Lives[n] : n \in Nodes }

(* The engine counts in naturals.                                          *)
ASSUME ReportedAssumption ==
  \A id \in Ids :
    LET records == Reported[id].records
    IN  /\ records \in Seq(Range(records))
        /\ \A r \in Range(records) :
             r.hits \in Nat /\ r.latency \in Nat /\ r.bytes \in Nat /\ r.errors \in Nat

VARIABLES
  live,    \* the nodeId in use on each machine, or Down
  due,     \* ticks until the machine's timer fires
  net,     \* requests sent and not processed
  nodes,   \* Aggregator.nodes: the age of each snapshot, by nodeId
  merged   \* Aggregator.merged: of which snapshots the cached view is made

vars == <<live, due, net, nodes, merged>>

Requests == [id : Ids, age : 0 .. MaxAge]
Snapshots == UNION { [D -> 0 .. MaxAge] : D \in SUBSET Ids }
Empty == [id \in {} |-> 0]

Pushed(id) == Snapshot(Reported[id].records, Reported[id].services, Reported[id].drops)

Older(age) == IF age < MaxAge THEN age + 1 ELSE age

-----------------------------------------------------------------------------
(* The node.                                                               *)

(* The timer fires, or the client has just been started.                   *)
PushOnce(n) ==
  /\ live[n] # Down
  /\ due[n] = 0
  /\ net' = net \cup {[id |-> <<n, live[n]>>, age |-> 0]}
  /\ due' = [due EXCEPT ![n] = Interval]
  /\ UNCHANGED <<live, nodes, merged>>

(* A process starts under a nodeId nobody remembers.                       *)
Start(n) ==
  /\ live[n] = Down
  /\ \E l \in Lives[n] :
       /\ <<n, l>> \notin DOMAIN nodes \cup { r.id : r \in net }
       /\ live' = [live EXCEPT ![n] = l]
  /\ due' = [due EXCEPT ![n] = 0]
  /\ UNCHANGED <<net, nodes, merged>>

(* A process ends; what it sent may still be processed.                    *)
Stop(n) ==
  /\ live[n] # Down
  /\ live' = [live EXCEPT ![n] = Down]
  /\ UNCHANGED <<due, net, nodes, merged>>

-----------------------------------------------------------------------------
(* The aggregator.                                                         *)

(* now - node.timestamp, by the aggregator's clock.                        *)
SeenAge(snapshots, id) == snapshots[id] + Skew[id[1]]

PruneInSeconds(snapshots) ==                                   \* Mutant
  [id \in { i \in DOMAIN snapshots : SeenAge(snapshots, i) <= 0 } |-> snapshots[id]]

PruneNothing(snapshots) == snapshots                           \* Mutant

(* pruneStaleNodes.                                                        *)
Prune(snapshots) ==
  [id \in { i \in DOMAIN snapshots : SeenAge(snapshots, i) <= Stale } |-> snapshots[id]]

(* nodes.set.                                                              *)
SetNode(r) ==
  [id \in DOMAIN nodes \cup {r.id} |-> IF id = r.id THEN r.age ELSE nodes[id]]

PushMergingFirst(r) ==                                         \* Mutant
  /\ net' = net \ {r}
  /\ nodes' = Prune(SetNode(r))
  /\ merged' = SetNode(r)
  /\ UNCHANGED <<live, due>>

(* Aggregator.push, called by the push route.                              *)
Push(r) ==
  /\ net' = net \ {r}
  /\ nodes' = Prune(SetNode(r))
  /\ merged' = nodes'
  /\ UNCHANGED <<live, due>>

(* The process that holds the aggregator ends and another one starts.      *)
RestartAggregator ==
  /\ net' = {}
  /\ nodes' = Empty
  /\ merged' = Empty
  /\ UNCHANGED <<live, due>>

-----------------------------------------------------------------------------
(* The network and the clock.                                              *)

Lose(r) ==
  /\ net' = net \ {r}
  /\ UNCHANGED <<live, due, nodes, merged>>

Aged(snapshots) == [id \in DOMAIN snapshots |-> Older(snapshots[id])]

(* A tick; a request that is too old is given up at both ends.             *)
Tick ==
  /\ due' = [n \in Nodes |-> IF due[n] > 0 THEN due[n] - 1 ELSE 0]
  /\ net' = { [r EXCEPT !.age = Older(@)] : r \in { q \in net : q.age < InFlight } }
  /\ nodes' = Aged(nodes)
  /\ merged' = Aged(merged)
  /\ UNCHANGED live

-----------------------------------------------------------------------------
Init ==
  /\ live = [n \in Nodes |-> Down]
  /\ due = [n \in Nodes |-> 0]
  /\ net = {}
  /\ nodes = Empty
  /\ merged = Empty

Next ==
  \/ \E n \in Nodes : PushOnce(n) \/ Start(n) \/ Stop(n)
  \/ \E r \in net : Push(r) \/ Lose(r)
  \/ RestartAggregator
  \/ Tick

Spec == Init /\ [][Next]_vars

PushFrom(n) == \E r \in net : r.id = <<n, live[n]>> /\ Push(r)

(* Time passes, timers fire, and the network does not lose every push of a *)
(* machine that goes on pushing.                                           *)
Fairness ==
  /\ WF_vars(Tick)
  /\ \A n \in Nodes : WF_vars(PushOnce(n)) /\ SF_vars(PushFrom(n))

FairSpec == Spec /\ Fairness

-----------------------------------------------------------------------------
(* Properties.                                                             *)

(* The variables keep their shape.                                         *)
TypeOK ==
  /\ \A n \in Nodes : live[n] \in Lives[n] \cup {Down}
  /\ due \in [Nodes -> 0 .. Interval]
  /\ net \subseteq Requests
  /\ DOMAIN nodes \subseteq Ids /\ \A id \in DOMAIN nodes : nodes[id] \in 0 .. MaxAge
  /\ DOMAIN merged \subseteq Ids /\ \A id \in DOMAIN merged : merged[id] \in 0 .. MaxAge

(* Whatever snapshots a view is made of, in whatever order they were first *)
(* pushed, also of a machine under two of its nodeIds, the merge resolves  *)
(* addresses across machines without losing, doubling or inventing any     *)
(* connection.                                                             *)
MergeKeepsTotals ==
  \A order \in SetToSeqs(DOMAIN merged) : KeepsTotals(Project(order, Pushed))

(* Whoever pushes, the view it gets back shows no machine that has been    *)
(* silent for more than a minute: snapshots are pruned before they are     *)
(* merged, whichever of them the push replaced.                            *)
NothingStaleAfterPush ==
  [][ \A r \in net :
        Push(r) => \A id \in DOMAIN merged' : SeenAge(merged', id) <= Stale ]_vars

(* A snapshot that is processed is in the view it gets back, also one that *)
(* arrives behind newer ones, as long as the longest flight and the clock  *)
(* difference together stay below a minute.                                *)
PushAdmitted ==
  [][ \A r \in net :
        Push(r) /\ InFlight + Skew[r.id[1]] <= Stale => r.id \in DOMAIN merged' ]_vars

(* When machines stop starting and stopping, the view settles on the       *)
(* processes that run: a machine that was restarted under another nodeId,  *)
(* and one that is gone, are eventually counted no more, and every process *)
(* that runs is shown again and again.                                     *)
Configs == { c \in [Nodes -> UNION { Lives[n] : n \in Nodes } \cup {Down}] :
               /\ \A n \in Nodes : c[n] \in Lives[n] \cup {Down}
               /\ \E n \in Nodes : c[n] # Down }
Shows(config) ==
  \A n \in Nodes : config[n] # Down => []<>(<<n, config[n]>> \in DOMAIN merged)
OnlyShows(config) == \A id \in DOMAIN merged : config[id[1]] = id[2]
ViewSettles ==
  \A config \in Configs :
    <>[](live = config) => Shows(config) /\ <>[]OnlyShows(config)
=============================================================================

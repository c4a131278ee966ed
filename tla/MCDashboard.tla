---------------------------- MODULE MCDashboard ----------------------------
(***************************************************************************)
(* A small cluster for DashboardView: two addresses that pass from pod to  *)
(* pod, a host whose connections are seen before their process is, or not  *)
(* at all, and one component that polls.                                   *)
(***************************************************************************)
EXTENDS DashboardView

CONSTANTS web, WEB, webPod1, webPod2, dbPod, postgres

MCLower == [n \in {web, WEB, postgres, NoName} |-> IF n = WEB THEN web ELSE n]
MCBegins == {<<web, webPod1>>, <<web, webPod2>>}
MCPortNames == [port \in {5432} |-> postgres]

(* Pods, one by its replica set, one by a label and one that has no owner  *)
(* and does not run yet.                                                   *)
Pod(ip, name, owners, app) ==
  [ip |-> ip, name |-> name, owners |-> owners, appName |-> NoName, app |-> app, k8sApp |-> NoName]
Replica(base) == [kind |-> "ReplicaSet", base |-> base, name |-> NoName]
Stateful(name) == [kind |-> "StatefulSet", base |-> NoName, name |-> name]

MCClusters ==
  { << Pod(1, webPod1, <<Replica(WEB)>>, web), Pod(2, dbPod, <<Replica(NoName)>>, postgres) >>,
    << Pod(NoName, webPod2, << >>, web), Pod(1, dbPod, <<Replica(web), Stateful(postgres)>>, NoName),
       Pod(3, webPod1, << >>, NoName) >> }

Call(sourceIp, destIp, port, hits) ==
  [comm |-> web, container |-> NoContainer, sourceIp |-> sourceIp, destIp |-> destIp,
   destPort |-> port, hits |-> hits, latency |-> 3, bytes |-> 0, errors |-> 0]
Nothing == [records |-> << >>, comms |-> << >>, events |-> 0]
MCHosts ==
  { Nothing,
    [records |-> << Call(1, 2, 5432, 2), Call(2, 3, 80, 1) >>, comms |-> <<web, postgres>>,
     events |-> 4] }

MCDemo ==
  LET edges == TopologyEdges(<< Call(ZeroIp, 9, 5432, 1) >>)
  IN  [source |-> "demo", signals |-> GoldenSignals(edges), events |-> 9,
       edges |-> EnrichEdges([podMap |-> << >>, initialized |-> FALSE], edges)]

(* Bound: a behaviour starts on a host that has seen nothing yet.          *)
StartsEmpty == host = Nothing

(* Where a behaviour of another part stays: a card that shows this host,   *)
(* outside a cluster.                                                      *)
AtRest ==
  /\ pods = << >> /\ podMap = << >> /\ fetch = NoFetch /\ answered = << >>
  /\ initialized = FALSE /\ pollTimer = FALSE /\ changes = 0
  /\ host = Nothing /\ panel = "card" /\ flights = << >>
  /\ view = [data |-> Reading, error |-> FALSE]
  /\ mounted = TRUE /\ renderer = FALSE /\ drawn = NoData
=============================================================================

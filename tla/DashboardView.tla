--------------------------- MODULE DashboardView ---------------------------
(***************************************************************************)
(* What a browser shows of a server: GET /v1/dashboard/data                *)
(* (routes/dashboard.ts), which reads the topology, labels it with the     *)
(* pods of PodWatch and falls back to demo data, and the components of the *)
(* web application that poll it.  Each poll is a fetch of its own: nothing *)
(* cancels it and nothing orders the answers.                              *)
(*                                                                         *)
(* The components do not know each other, so a behaviour follows one,      *)
(* "panel": the topology graph, the dashboard page, the status page or the *)
(* live status card.  What the host does is external (EbpfPipeline).       *)
(*                                                                         *)
(* A definition marked "Mutant" is a faulty variant of the definition      *)
(* after it: nothing uses it but the test that the properties catch it.    *)
(***************************************************************************)
EXTENDS PodWatch, Topology, FiniteSetsExt

CONSTANTS
  Hosts,           \* what the engine may hold: [records, comms, events]
  DemoDashboard,   \* lib/demo-data.ts, in the form of DashboardData
  ServiceFilter,   \* the status page's ?service=, or NoName
  MaxFlights       \* bound: fetches of the panel under way

VARIABLES
  host,            \* external: what the engine holds
  panel,           \* the component that is watched
  flights,         \* its fetches under way: a Reading, or NoAnswer yet
  view,            \* its state
  mounted,         \* it has been rendered once
  renderer,        \* TopologyGraph: rendererRef.current is set
  drawn            \* TopologyGraph: the data last given to the renderer

viewVars == <<panel, flights, view, mounted, renderer, drawn>>
dashboardVars == <<podVars, host, viewVars>>

-----------------------------------------------------------------------------
(* The routes.  An answer follows from what its handler reads, so that is  *)
(* what an answer under way is; its sparklines are left out.               *)

Reading == [host |-> host, k8s |-> K8sDiscovery]

Edges(r) == EnrichEdges(r.k8s, TopologyEdges(r.host.records))
Signals(r) == GoldenSignals(TopologyEdges(r.host.records))

isDashboardEmpty(r) == r.host.records = << >> /\ r.host.events = 0

(* GET /v1/dashboard/data: buildDashboardResponse.                         *)
DashboardData(r) ==
  IF isDashboardEmpty(r) THEN DemoDashboard
  ELSE [source |-> "ebpf", edges |-> Edges(r), signals |-> Signals(r), events |-> r.host.events]

(* GET /v1/topology and GET /v1/services.                                  *)
TopologyAnswer(r) == [edges |-> Edges(r), signals |-> Signals(r), events |-> r.host.events]
ServicesAnswer(r) == EnrichServices(r.k8s, r.host.comms)

-----------------------------------------------------------------------------
(* The components.                                                         *)

NoData == [no |-> "data"]
NoAnswer == [no |-> "answer"]
Failure == [no |-> "usable answer"]

(* TopologyGraph, in the order of its returns.  Three failures in a row    *)
(* would tell that eBPF is unavailable, but they are errors as well.       *)
GraphShown(v) ==
  IF v.data = NoData THEN IF v.error THEN "error" ELSE "loading"
  ELSE IF DashboardData(v.data).source = "none" THEN "no services"
  ELSE IF DashboardData(v.data).edges = << >> THEN "no edges" ELSE "graph"

(* The status page's filter, by name whatever its case; the tables show    *)
(* twenty rows of what passes, which is left out.                          *)
LowerCase(name) == IF name \in DOMAIN Lower THEN Lower[name] ELSE name
Passes(name) == ServiceFilter = NoName \/ LowerCase(name) = LowerCase(ServiceFilter)
StatusShown(data) ==
  [total |-> Len(data.edges),
   edges |-> SelectSeq(data.edges, LAMBDA e : Passes(e.edge.source) \/ Passes(e.edge.target)),
   signals |-> { s \in DOMAIN data.signals : Passes(s) },
   events |-> data.events]

(* The dashboard page's badge and panels, and the card's three counts.     *)
PageShown(data) ==
  [badge |-> IF data.source = "demo" THEN "Demo" ELSE "Live",
   signals |-> data.signals, feed |-> data.edges, events |-> data.events]
CardShown(data) == <<Len(data.edges), Cardinality(DOMAIN data.signals), data.events>>

(* What a component makes of an answer: two of them tell failures, and     *)
(* every one keeps the data it has.                                        *)
Received(v, answer) ==
  IF answer = Failure THEN [v EXCEPT !.error = panel \in {"graph", "status"}]
  ELSE [data |-> answer, error |-> FALSE]

(* The effects of the first commit: the fetch, and for the graph the       *)
(* renderer, if there is a canvas in what has been rendered.  They do not  *)
(* run again.                                                              *)
Mount ==
  /\ ~mounted
  /\ mounted' = TRUE
  /\ renderer' = (panel = "graph" /\ GraphShown(view) = "graph")
  /\ flights' = <<NoAnswer>>
  /\ UNCHANGED <<podVars, host, panel, view, drawn>>

PollFires ==
  /\ mounted
  /\ Len(flights) < MaxFlights
  /\ flights' = Append(flights, NoAnswer)
  /\ UNCHANGED <<podVars, host, panel, view, mounted, renderer, drawn>>

(* The handler of GET /v1/dashboard/data.                                  *)
AnswerPoll(i) ==
  /\ flights[i] = NoAnswer
  /\ flights' = [flights EXCEPT ![i] = Reading]
  /\ UNCHANGED <<podVars, host, panel, view, mounted, renderer, drawn>>

(* An answer arrives, or a fetch fails wherever it is; useDataFeeder hands *)
(* the edges of new data to the renderer.                                  *)
TakeOnlyFirst(v, answer) ==                                    \* Mutant
  IF v.data = NoData THEN Received(v, answer) ELSE [Received(v, answer) EXCEPT !.data = v.data]
Take(v, answer) == Received(v, answer)

Receive(i, answer) ==
  /\ flights' = RemoveAt(flights, i)
  /\ view' = Take(view, answer)
  /\ drawn' = IF renderer /\ answer # Failure /\ DashboardData(answer).edges # << >>
              THEN answer ELSE drawn
  /\ UNCHANGED <<podVars, host, panel, mounted, renderer>>

Arrive(i) == flights[i] # NoAnswer /\ Receive(i, flights[i])
Fail(i) == Receive(i, Failure)

HostChanges ==
  /\ changes < MaxChanges
  /\ changes' = changes + 1
  /\ host' \in Hosts
  /\ UNCHANGED <<pods, podMap, initialized, pollTimer, fetch, answered, viewVars>>

DashboardInit ==
  /\ PodInit
  /\ host \in Hosts
  /\ panel \in {"graph", "page", "status", "card"}
  /\ flights = << >>
  /\ view = [data |-> NoData, error |-> FALSE]
  /\ mounted = FALSE /\ renderer = FALSE
  /\ drawn = NoData

Arrives == \E i \in DOMAIN flights : Arrive(i)
PodMoves == PodNext /\ UNCHANGED <<host, viewVars>>
Polling == Mount \/ PollFires
Answers == \E i \in DOMAIN flights : AnswerPoll(i)

DashboardNext ==
  \/ PodMoves
  \/ HostChanges
  \/ Polling
  \/ Answers
  \/ Arrives
  \/ \E i \in DOMAIN flights : Fail(i)

DashboardSpec == DashboardInit /\ [][DashboardNext]_dashboardVars

-----------------------------------------------------------------------------
(* Properties.                                                             *)

(* A pod that is shown with a connection or a service was in the last list *)
(* that could be read, with that address and no other pod beside it, also  *)
(* after addresses have passed from pod to pod and lists have failed.      *)
LabelsAreOfLastList ==
  LET known(pod) == pod = NoName \/ \E k \in DOMAIN answered : answered[k].name = pod
  IN  /\ \A i \in DOMAIN podMap : \E k \in DOMAIN answered : PodInfo(answered[k]) = podMap[i]
      /\ \A i, j \in DOMAIN podMap : podMap[i].ip = podMap[j].ip => i = j
      /\ \A e \in Range(Edges(Reading)) : known(e.sourcePod) /\ known(e.targetPod)
      /\ \A s \in Range(ServicesAnswer(Reading)) : known(s.pod)

(* What the component makes visible of an answer.                          *)
Rendered(r) ==
  CASE panel = "graph" -> GraphShown([data |-> r, error |-> FALSE])
    [] panel = "status" -> StatusShown(DashboardData(r))
    [] panel = "page" -> PageShown(DashboardData(r))
    [] panel = "card" -> CardShown(DashboardData(r))

(* When the surroundings have come to rest, every component shows what the *)
(* engine holds, labelled with the pods of the cluster, or demo data if it *)
(* holds nothing, and keeps showing it: answers may come late and in any   *)
(* order, fetches and lists may fail, but each of them is asked for again. *)
(* And an error that is shown passes.                                      *)
DashboardCatchesUp ==
  /\ <>[](mounted /\ view.data # NoData /\ Rendered(view.data) = Rendered(Reading))
  /\ <>[](answered = pods)
  /\ []<>(~view.error)

(* Whenever the graph is shown, its canvas shows the connections that the  *)
(* component has fetched.                                                  *)
GraphIsDrawn ==
  panel = "graph" /\ GraphShown(view) = "graph" =>
    drawn # NoData /\ DashboardData(drawn).edges = DashboardData(view.data).edges
=============================================================================

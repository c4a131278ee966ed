------------------------------ MODULE PodWatch ------------------------------
(***************************************************************************)
(* lib/k8s-discovery.ts: the server lists the pods of its cluster, at once *)
(* and then on a timer, and labels connections and services with the pods  *)
(* they belong to.  The cluster's API is external.                         *)
(*                                                                         *)
(* A fetch ends within ten seconds and the timer fires every thirty, so    *)
(* fetches do not overlap.  The server starts the watcher and never stops  *)
(* it.                                                                     *)
(*                                                                         *)
(* A definition marked "Mutant" is a faulty variant of the definition      *)
(* after it: nothing uses it but the test that the properties catch it.    *)
(***************************************************************************)
EXTENDS Integers, SequencesExt

CONSTANTS
  Clusters,        \* what the API may list: sequences of pod objects, not empty
  NoName,          \* an absent address, name or label
  Lower,           \* the lower case form of every name
  Begins,          \* pairs of names of which the first begins the second
  MaxChanges       \* bound: changes of the surroundings

(* What the API lists are sequences, of objects of any kind.               *)
ASSUME PodsAssumption ==
  \A list \in Clusters : list \in Seq({ list[k] : k \in DOMAIN list })

VARIABLES
  pods,            \* external: the pods of the cluster, none outside one
  podMap,          \* podMap in its order: PodInfos with different addresses
  initialized,     \* _initialized
  pollTimer,       \* the timer is installed
  fetch,           \* [at, items]: "none", "asked", "failed", "unreadable", or "listed"
  answered,        \* history: the last list that was taken
  changes          \* bound: changes so far

podVars == <<pods, podMap, initialized, pollTimer, fetch, answered, changes>>

-----------------------------------------------------------------------------
(* parsePodItem: the last owner that sets the deployment decides it; where *)
(* that leaves none, the first label that is there.                        *)
Names(owner) ==
  \/ owner.kind = "ReplicaSet" /\ owner.base # NoName
  \/ owner.kind \in {"DaemonSet", "StatefulSet"}

Deployment(item) ==
  LET own == SelectLastInSeq(item.owners, Names)
      owner == IF own = 0 THEN NoName
               ELSE IF item.owners[own].kind = "ReplicaSet" THEN item.owners[own].base
               ELSE item.owners[own].name
      choices == <<owner, item.appName, item.app, item.k8sApp>>
      set == SelectInSeq(choices, LAMBDA c : c # NoName)
  IN  IF set > 0 THEN choices[set] ELSE NoName

PodInfo(item) == [ip |-> item.ip, name |-> item.name, deployment |-> Deployment(item),
                  app |-> item.app, appName |-> item.appName]

(* podMap.set: a Map has its keys in the order they were first set, each   *)
(* with the value that was set last.                                       *)
SetPod(map, info) ==
  IF \E k \in DOMAIN map : map[k].ip = info.ip
  THEN [k \in DOMAIN map |-> IF map[k].ip = info.ip THEN info ELSE map[k]]
  ELSE Append(map, info)

(* The pods of a list, one after the other; those without an address are   *)
(* none yet.                                                               *)
Fill(map, items) ==
  LET upto[i \in 0 .. Len(items)] ==
        IF i = 0 THEN map
        ELSE IF items[i].ip = NoName THEN upto[i - 1]
        ELSE SetPod(upto[i - 1], PodInfo(items[i]))
  IN  upto[Len(items)]

RebuildUncleared(items) == Fill(podMap, items)                 \* Mutant
Rebuild(items) == Fill(<< >>, items)

-----------------------------------------------------------------------------
(* The labels, by what a K8sDiscovery knows: its map, and whether a first   *)
(* list has been read.                                                     *)
K8sDiscovery == [podMap |-> podMap, initialized |-> initialized]

LookUpPod(k8s, ip) ==
  LET at == SelectInSeq(k8s.podMap, LAMBDA p : p.ip = ip)
  IN  IF at = 0 THEN NoName ELSE k8s.podMap[at].name

EnrichEdges(k8s, edges) ==
  [i \in DOMAIN edges |->
     [edge |-> edges[i],
      sourcePod |-> IF k8s.initialized THEN LookUpPod(k8s, edges[i].sourceIp) ELSE NoName,
      targetPod |-> IF k8s.initialized THEN LookUpPod(k8s, edges[i].destIp) ELSE NoName]]

(* findPodByComm: the first pod of that deployment, else the last one that *)
(* has the name at its beginning or as a label.                            *)
IsDeployment(pod, comm) ==
  pod.deployment # NoName /\ (pod.deployment = comm \/ Lower[pod.deployment] = Lower[comm])
IsCandidate(pod, comm) ==
  \/ {<<comm, pod.name>>, <<Lower[comm], pod.name>>} \cap Begins # {}
  \/ comm \in {pod.app, pod.appName}

FindPodByComm(map, comm) ==
  LET exact == SelectInSeq(map, LAMBDA p : IsDeployment(p, comm))
      likely == SelectLastInSeq(map, LAMBDA p : IsCandidate(p, comm))
  IN  IF comm = NoName \/ exact + likely = 0 THEN NoName
      ELSE map[IF exact > 0 THEN exact ELSE likely].name

EnrichServices(k8s, comms) ==
  [i \in DOMAIN comms |->
     [comm |-> comms[i],
      pod |-> IF k8s.initialized THEN FindPodByComm(k8s.podMap, comms[i]) ELSE NoName]]

-----------------------------------------------------------------------------
(* The watcher.                                                            *)

NoFetch == [at |-> "none", items |-> << >>]
Asked == [at |-> "asked", items |-> << >>]

(* The API lists the pods, or there is no answer in time or an error.      *)
Answered(f) == fetch.at = "asked" /\ fetch' = f
Listed == Answered([at |-> "listed", items |-> pods])
Failed == Answered([at |-> "failed", items |-> << >>])

ListPods ==
  /\ Listed \/ Failed
  /\ UNCHANGED <<pods, podMap, initialized, pollTimer, answered, changes>>

(* An answer without a list: a change of the surroundings.                 *)
SendNoList ==
  /\ changes < MaxChanges
  /\ changes' = changes + 1
  /\ Answered([at |-> "unreadable", items |-> << >>])
  /\ UNCHANGED <<pods, podMap, initialized, pollTimer, answered>>

(* refreshPods swallows its errors.  A failed fetch leaves the pods that   *)
(* were known; an answer without a list is found out after the map has     *)
(* been cleared.  Either way start goes on to its timer.                   *)
InstallAfterSuccess == pollTimer \/ fetch.at = "listed"        \* Mutant
Install == TRUE

Ends == fetch.at \in {"listed", "failed", "unreadable"} /\ fetch' = NoFetch
RefreshPods ==
  /\ Ends
  /\ podMap' = IF fetch.at = "failed" THEN podMap ELSE Rebuild(fetch.items)
  /\ initialized' = (initialized \/ fetch.at = "listed")
  /\ answered' = IF fetch.at = "listed" THEN fetch.items ELSE answered
  /\ pollTimer' = Install
  /\ UNCHANGED <<pods, changes>>

Fires == pollTimer /\ fetch.at = "none" /\ fetch' = Asked
PollTimerFires ==
  /\ Fires
  /\ UNCHANGED <<pods, podMap, initialized, pollTimer, answered, changes>>

PodsChange ==
  /\ pods # << >>
  /\ changes < MaxChanges
  /\ changes' = changes + 1
  /\ pods' \in Clusters
  /\ UNCHANGED <<podMap, initialized, pollTimer, fetch, answered>>

(* start: outside a cluster there is no address to ask.                    *)
PodInit ==
  /\ \/ pods \in Clusters /\ fetch = Asked
     \/ pods = << >> /\ fetch = NoFetch
  /\ podMap = << >>
  /\ initialized = FALSE
  /\ pollTimer = FALSE
  /\ answered = << >>
  /\ changes = 0

PodNext == ListPods \/ SendNoList \/ RefreshPods \/ PollTimerFires \/ PodsChange
=============================================================================

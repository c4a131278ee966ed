----------------------------- MODULE MCNodePush -----------------------------
(***************************************************************************)
(* A small instance of NodePush: two machines, of which one has a clock    *)
(* that is behind by a tick; and what the snapshots of their processes     *)
(* hold, so that the merge can be checked over every set of snapshots the  *)
(* aggregator ever holds.                                                  *)
(***************************************************************************)
EXTENDS NodePush

CONSTANTS n1, n2

MCNodes == {n1, n2}
(* Only one machine is restarted before its last process is forgotten.     *)
MCLives == [n \in MCNodes |-> IF n = n1 THEN {1, 2} ELSE {1}]
MCSkew == [n \in MCNodes |-> IF n = n1 THEN 0 ELSE 1]
MCPortNames == [port \in {5432} |-> "db (postgres)"]

(* A web server that calls, from two processes of one name, an API on the  *)
(* other machine, which the other machine knows by its address, and the    *)
(* database by its port; both processes of a machine report most of it.    *)
Record(comm, container, sourceIp, destIp, destPort, hits, latency) ==
  [comm |-> comm, container |-> container, sourceIp |-> sourceIp, destIp |-> destIp,
   destPort |-> destPort, hits |-> hits, latency |-> latency, bytes |-> 2 * hits, errors |-> 1]
Records(id) ==
  IF id[1] = n1
  THEN << Record("web", NoContainer, "10.0.0.1", "10.0.0.2", 3000, id[2], 7),
          Record("web", NoContainer, "10.0.0.3", "10.0.0.2", 3000, 2, 3),
          Record("cron", "box", ZeroIp, "10.0.0.9", 5432, 0, 0) >>
  ELSE << Record("api", NoContainer, "10.0.0.2", "10.0.0.9", 5432, 3, 4),
          Record("web", NoContainer, "10.0.0.1", "10.0.0.4", 3000, 1, 9),
          Record("api", NoContainer, "10.0.0.4", "10.0.0.1", 80, 1, 1) >>
MCReported ==
  [id \in UNION { {n} \X MCLives[n] : n \in MCNodes } |->
     [records |-> Records(id), services |-> <<id[1]>>, drops |-> 1]]
=============================================================================

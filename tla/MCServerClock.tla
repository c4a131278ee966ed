--------------------------- MODULE MCServerClock ---------------------------
(***************************************************************************)
(* The parts of the server that live by the clock: the rate limiter, the   *)
(* objectives, the forwarders, and the pod watcher with the dashboards     *)
(* that poll.  They run side by side and share no variable, so whatever is *)
(* reachable in one of them is reachable while the others stand still: a   *)
(* behaviour moves the one that "part" names, and the run checks their     *)
(* union instead of their product.                                         *)
(***************************************************************************)
EXTENDS RateLimiter, SloWindow, Forwarders, MCDashboard

CONSTANTS ip1, ip2

VARIABLE part

vars == <<part, rateVars, sloVars, forwardVars, dashboardVars>>

MCInit ==
  /\ part \in {"rate", "slo", "forward", "dashboard"}
  /\ RateInit /\ SloInit /\ ForwardInit
  /\ part # "slo" => slos = {}
  /\ part # "forward" => configured = {}
  /\ IF part = "dashboard" THEN DashboardInit /\ StartsEmpty ELSE AtRest

RateMoves == part = "rate" /\ RateNext /\ UNCHANGED <<part, sloVars, forwardVars, dashboardVars>>
SloMoves == part = "slo" /\ SloNext /\ UNCHANGED <<part, rateVars, forwardVars, dashboardVars>>
ForwardMoves(A) == part = "forward" /\ A /\ UNCHANGED <<part, rateVars, sloVars, dashboardVars>>
DashboardMoves(A) == part = "dashboard" /\ A /\ UNCHANGED <<part, rateVars, sloVars, forwardVars>>

MCNext == RateMoves \/ SloMoves \/ ForwardMoves(ForwardNext) \/ DashboardMoves(DashboardNext)

MCSpec ==
  /\ MCInit
  /\ [][MCNext]_vars
  /\ \A p \in AllSends : WF_vars(ForwardMoves(Step(p)))
  /\ WF_vars(ForwardMoves(ForwardTick))
  /\ WF_vars(DashboardMoves(Polling)) /\ SF_vars(DashboardMoves(Answers))
  /\ SF_vars(DashboardMoves(Arrives))
  /\ WF_fetch(part = "dashboard" /\ (Fires \/ Listed \/ Failed \/ Ends))
  /\ SF_fetch(part = "dashboard" /\ Listed)

-----------------------------------------------------------------------------
(* Constants.                                                              *)

(* Two clients behind a proxy that sets x-real-ip, one of them also named  *)
(* by x-forwarded-for, one request without an address and one exempt.      *)
Asks(path, realIp, forwarded) == [path |-> path, realIp |-> realIp, forwarded |-> forwarded]
MCRequests ==
  { Asks("/ingest/batch", ip1, << >>), Asks("/ingest/batch", NoIp, <<ip1, ip2>>),
    Asks("/v1/query", ip2, <<ip1>>), Asks("/v1/metrics", ip2, << >>) }

Latency == [name |-> "API Latency", service |-> AnyService, metric |-> "latency",
            threshold |-> 1, budget |-> 500]
Errors == [name |-> "Error Rate", service |-> "cart", metric |-> "error_rate",
           threshold |-> 0, budget |-> 0]
MCSlos == {Latency, Errors}
MCSloSets == { {}, {Latency}, {Latency, Errors} }

Sample(service, latency, errors) ==
  [service |-> service, latency |-> latency, error_rate |-> errors, throughput |-> 0]
MCSamples == { Sample("cart", 1, 1), Sample("cart", 2, 0), Sample("shop", 2, 1) }
=============================================================================

---------------------------- MODULE RateLimiter ----------------------------
(***************************************************************************)
(* lib/rate-limiter.ts: one entry per client, a counter and the time its   *)
(* window began, and a cleanup that forgets the clients whose window is    *)
(* over.  The comment calls the window sliding; the code's is fixed: it    *)
(* opens with a request and the next one opens with the first request      *)
(* after its end.                                                          *)
(*                                                                         *)
(* A definition marked "Mutant" is a faulty variant of the definition      *)
(* after it: nothing uses it but the test that the properties catch it.    *)
(***************************************************************************)
EXTENDS Integers, Sequences, FiniteSets

CONSTANTS
  Requests,        \* [path, realIp, forwarded]: what requireRateLimit looks at
  NoIp,            \* an address that is absent or empty
  Unknown,         \* "unknown", the client of a request without any address
  ExemptPaths,     \* /health and /v1/metrics
  WINDOW_MS,
  MAX_REQUESTS,
  MaxCount,        \* bound: requests counted in one window
  RateHorizon      \* bound: the last tick of the clock

ASSUME RateAssumption ==
  /\ WINDOW_MS \in Nat
  /\ MAX_REQUESTS \in Nat \ {0}
  /\ MaxCount \in Nat
  /\ RateHorizon \in Nat

VARIABLES
  clock,           \* Date.now()
  entries,         \* ip -> [count, windowStart], for the clients tracked
  passed           \* history: ip -> its requests that passed, [at, window]

rateVars == <<clock, entries, passed>>

(* The address a request is counted under.                                 *)
ClientOf(request) ==
  IF request.realIp # NoIp THEN request.realIp
  ELSE IF request.forwarded # << >> /\ Head(request.forwarded) # NoIp
       THEN Head(request.forwarded) ELSE Unknown

Clients == { ClientOf(r) : r \in Requests }
Opens(ip) == ip \notin DOMAIN entries \/ clock - entries[ip].windowStart > WINDOW_MS

CountReset(ip) == IF ip \in DOMAIN entries THEN entries[ip].count + 1 ELSE 1   \* Mutant
Count(ip) == IF Opens(ip) THEN 1 ELSE entries[ip].count + 1

(* allow: the entry is written also for a request that is refused.         *)
Allow(ip) ==
  /\ Count(ip) <= MaxCount
  /\ entries' = [x \in DOMAIN entries \cup {ip} |->
       IF x # ip THEN entries[x]
       ELSE [count |-> Count(ip),
             windowStart |-> IF Opens(ip) THEN clock ELSE entries[ip].windowStart]]
  /\ passed' = IF Count(ip) <= MAX_REQUESTS
               THEN [passed EXCEPT ![ip] =
                       Append(@, [at |-> clock, window |-> entries'[ip].windowStart])]
               ELSE passed

(* requireRateLimit, on every request.                                     *)
Require(request) ==
  /\ IF request.path \in ExemptPaths THEN UNCHANGED <<entries, passed>>
     ELSE Allow(ClientOf(request))
  /\ UNCHANGED clock

(* cleanup, a timer of its own.                                            *)
KeptTooFew == { ip \in DOMAIN entries : entries[ip].windowStart > clock - WINDOW_MS }   \* Mutant
Kept == { ip \in DOMAIN entries : entries[ip].windowStart >= clock - WINDOW_MS }

Cleanup ==
  /\ entries' = [ip \in Kept |-> entries[ip]]
  /\ UNCHANGED <<clock, passed>>

RateTick ==
  /\ clock < RateHorizon
  /\ clock' = clock + 1
  /\ UNCHANGED <<entries, passed>>

RateInit ==
  /\ clock = 0
  /\ entries = << >>
  /\ passed = [ip \in Clients |-> << >>]

RateNext == (\E r \in Requests : Require(r)) \/ Cleanup \/ RateTick

RateSpec == RateInit /\ [][RateNext]_rateVars

-----------------------------------------------------------------------------
(* Properties.                                                             *)

(* The limit is per window, and windows are placed by the requests: two    *)
(* bursts can meet, but never three, and what was counted before does not  *)
(* come back when the entry has been cleaned up.  So of 2 * MAX_REQUESTS   *)
(* + 1 requests that passed the first and the last are more than a window  *)
(* apart, and while a window is open its client has been served in full.   *)
QuotaHolds ==
  \A ip \in Clients :
    /\ \A i \in 1 .. Len(passed[ip]) - 2 * MAX_REQUESTS :
         passed[ip][i + 2 * MAX_REQUESTS].at - passed[ip][i].at > WINDOW_MS
    /\ ip \in DOMAIN entries /\ entries[ip].count >= MAX_REQUESTS =>
         /\ Len(passed[ip]) >= MAX_REQUESTS
         /\ passed[ip][Len(passed[ip]) - MAX_REQUESTS + 1].at >= entries[ip].windowStart
=============================================================================

------------------------- MODULE ServerParts_proofs -------------------------
(***************************************************************************)
(* Proofs about the parts of the server that stand on their own: the rate  *)
(* limiter, the forwarders and the alert engine.  They share no variable;  *)
(* each has its own specification and its own inductive invariant.         *)
(*                                                                         *)
(* The rate limiter.  QuotaHolds does not say how the windows of a client  *)
(* lie.  The invariant IInv adds that two windows in which requests passed *)
(* begin more than WINDOW_MS apart (Apart), that a window passes no more   *)
(* than the limit (Full), and what an entry knows of the requests that     *)
(* passed: theirs are the last ones, as many as it counts up to the limit  *)
(* (Current).  Without an entry every window is over (Forgotten): cleanup  *)
(* removes no other.                                                       *)
(*                                                                         *)
(* The forwarders.  ResultsTell speaks of a send that has ended, and       *)
(* ForwardInv follows it from its start: after k requests of its plan the  *)
(* accepted count is what they cover of the batch (Progress), and          *)
(* ChunksCover makes that the whole batch when the plan is exhausted.      *)
(*                                                                         *)
(* The alert engine.  StatusFollowsStreak compares an alert with a history *)
(* the engine does not keep.  AInv says rule type by rule type what of     *)
(* that history the engine's counters carry (Linked), and AnnounceInv that *)
(* a service has been announced exactly when the engine has seen it.       *)
(***************************************************************************)
EXTENDS RateLimiter, Forwarders, AlertEngine, SequenceTheorems, FiniteSetTheorems,
        WellFoundedInduction, TLAPS

-----------------------------------------------------------------------------
(* The rate limiter, for every window, limit and set of requests.          *)
-----------------------------------------------------------------------------

Pass == [at : Nat, window : Nat]

RateTypeOK ==
  /\ clock \in Nat
  /\ DOMAIN entries \subseteq Clients
  /\ \A ip \in DOMAIN entries : entries[ip] \in [count : Nat \ {0}, windowStart : Nat]
  /\ passed \in [Clients -> Seq(Pass)]

(* A request passed while its window was open.                             *)
Inside(p, now) ==
  \A i \in 1 .. Len(p) :
    /\ p[i].window <= p[i].at /\ p[i].at <= p[i].window + WINDOW_MS
    /\ p[i].at <= now

Apart(p) ==
  \A i, j \in 1 .. Len(p) : i < j =>
    p[i].window = p[j].window \/ p[j].window > p[i].window + WINDOW_MS

Full(p) ==
  \A i \in 1 .. Len(p) - MAX_REQUESTS : p[i].window # p[i + MAX_REQUESTS].window

(* The requests that passed among the count of them in one window.         *)
Passing(count) == IF count <= MAX_REQUESTS THEN count ELSE MAX_REQUESTS

Current(p, entry, now) ==
  /\ entry.windowStart <= now
  /\ Passing(entry.count) <= Len(p)
  /\ \A i \in 1 .. Len(p) :
       IF i <= Len(p) - Passing(entry.count)
       THEN entry.windowStart > p[i].window + WINDOW_MS
       ELSE p[i].window = entry.windowStart

Forgotten(p, now) == \A i \in 1 .. Len(p) : now > p[i].window + WINDOW_MS

Client(ip) ==
  /\ Inside(passed[ip], clock)
  /\ Apart(passed[ip])
  /\ Full(passed[ip])
  /\ IF ip \in DOMAIN entries THEN Current(passed[ip], entries[ip], clock)
     ELSE Forgotten(passed[ip], clock)

IInv == RateTypeOK /\ \A ip \in Clients : Client(ip)

-----------------------------------------------------------------------------
LEMMA InitInv == RateInit => IInv
<1> SUFFICES ASSUME RateInit PROVE IInv
  OBVIOUS
<1> USE DEF RateInit
<1>1. RateTypeOK
  <2>1. << >> \in Seq(Pass)
    OBVIOUS
  <2> QED
    BY <2>1 DEF RateTypeOK
<1>2. ASSUME NEW ip \in Clients PROVE Client(ip)
  <2>1. passed[ip] = << >> /\ Len(passed[ip]) = 0
    OBVIOUS
  <2> QED
    BY <2>1, RateAssumption DEF Client, Inside, Apart, Full, Forgotten
<1> QED
  BY <1>1, <1>2 DEF IInv

(* Whether the request that comes now begins a window, every window so far *)
(* in which requests passed is over.                                       *)
LEMMA OpensAfter ==
  ASSUME IInv, NEW ip \in Clients, Opens(ip)
  PROVE  Forgotten(passed[ip], clock)
<1> USE RateAssumption
<1>1. CASE ip \notin DOMAIN entries
  BY <1>1 DEF IInv, Client
<1>2. CASE ip \in DOMAIN entries
  <2>1. clock - entries[ip].windowStart > WINDOW_MS
    BY <1>2 DEF Opens
  <2>2. Current(passed[ip], entries[ip], clock)
    BY <1>2 DEF IInv, Client
  <2>3. passed[ip] \in Seq(Pass) /\ clock \in Nat /\ entries[ip].windowStart \in Nat
    BY <1>2 DEF IInv, RateTypeOK
  <2>4. ASSUME NEW i \in 1 .. Len(passed[ip])
        PROVE  clock > passed[ip][i].window + WINDOW_MS
    <3>1. passed[ip][i].window \in Nat
      <4>1. passed[ip][i] \in Pass
        BY <2>3, ElementOfSeq
      <4> QED
        BY <4>1 DEF Pass
    <3>2. entries[ip].windowStart >= passed[ip][i].window
      BY <2>2, <2>3, <3>1 DEF Current
    <3> QED
      BY <2>1, <2>3, <3>1, <3>2
  <2> QED
    BY <2>4 DEF Forgotten
<1> QED
  BY <1>1, <1>2

(* What counting a request makes of an entry and of the requests that      *)
(* passed.                                                                 *)
Counted(ip) ==
  [count |-> Count(ip), windowStart |-> IF Opens(ip) THEN clock ELSE entries[ip].windowStart]

PassedWith(ip) ==
  IF Count(ip) <= MAX_REQUESTS
  THEN Append(passed[ip], [at |-> clock, window |-> Counted(ip).windowStart])
  ELSE passed[ip]

LEMMA CountedClient ==
  ASSUME IInv, NEW ip \in Clients
  PROVE  /\ Counted(ip) \in [count : Nat \ {0}, windowStart : Nat]
         /\ PassedWith(ip) \in Seq(Pass)
         /\ Inside(PassedWith(ip), clock) /\ Apart(PassedWith(ip)) /\ Full(PassedWith(ip))
         /\ Current(PassedWith(ip), Counted(ip), clock)
<1> USE RateAssumption
<1> DEFINE q == passed[ip]
           n == Len(q)
           entry == Counted(ip)
           p == PassedWith(ip)
<1>1. clock \in Nat /\ q \in Seq(Pass) /\ n \in Nat
  BY DEF IInv, RateTypeOK
<1>2. ASSUME NEW i \in 1 .. n
      PROVE  q[i] \in Pass /\ q[i].window \in Nat /\ q[i].at \in Nat
  <2>1. q[i] \in Pass
    BY <1>1, ElementOfSeq
  <2> QED
    BY <2>1 DEF Pass
<1>3. Inside(q, clock) /\ Apart(q) /\ Full(q)
  BY DEF IInv, Client
<1>4. ~Opens(ip) =>
        /\ ip \in DOMAIN entries
        /\ entries[ip].count \in Nat \ {0} /\ entries[ip].windowStart \in Nat
        /\ clock <= entries[ip].windowStart + WINDOW_MS
        /\ Current(q, entries[ip], clock)
  BY <1>1 DEF Opens, IInv, RateTypeOK, Client
<1>5. entry \in [count : Nat \ {0}, windowStart : Nat]
  BY <1>1, <1>4 DEF Count, Counted
<1> DEFINE w == entry.windowStart
           c == entry.count
<1>6. /\ w \in Nat /\ w <= clock /\ clock <= w + WINDOW_MS
      /\ c \in Nat \ {0} /\ c = Count(ip)
  BY <1>1, <1>4, <1>5 DEF Current, Counted
(* The requests before this one that its window has passed.                *)
<1> DEFINE k == IF Opens(ip) THEN 0 ELSE Passing(c - 1)
<1>7. /\ k \in 0 .. n
      /\ k = IF c - 1 <= MAX_REQUESTS THEN c - 1 ELSE MAX_REQUESTS
      /\ \A i \in 1 .. n : IF i <= n - k THEN w > q[i].window + WINDOW_MS
                                         ELSE q[i].window = w
  <2>1. CASE Opens(ip)
    <3>1. c = 1 /\ w = clock
      BY <2>1 DEF Count, Counted
    <3> QED
      BY <1>1, <2>1, <3>1, OpensAfter DEF Forgotten
  <2>2. CASE ~Opens(ip)
    <3>1. c - 1 = entries[ip].count /\ w = entries[ip].windowStart
      BY <1>4, <2>2 DEF Count, Counted
    <3> QED
      BY <1>1, <1>4, <2>2, <3>1 DEF Current, Passing
  <2> QED
    BY <2>1, <2>2
<1>8. CASE c <= MAX_REQUESTS
  <2> DEFINE new == [at |-> clock, window |-> w]
  <2>1. p = Append(q, new)
    BY <1>6, <1>8 DEF PassedWith
  <2>2. new \in Pass
    BY <1>1, <1>6 DEF Pass
  <2>3. /\ p \in Seq(Pass) /\ Len(p) = n + 1 /\ p[n + 1] = new
        /\ \A i \in 1 .. n : p[i] = q[i]
    BY <1>1, <2>1, <2>2, AppendProperties
  <2>4. k = c - 1
    BY <1>6, <1>7, <1>8
  <2>5. \A i \in 1 .. n : IF i <= n - k THEN w > p[i].window + WINDOW_MS
                                        ELSE p[i].window = w
    BY <1>7, <2>3
  <2>6. p[n + 1].window = w /\ p[n + 1].at = clock
    BY <2>3
  <2>7. Inside(p, clock)
    <3> SUFFICES ASSUME NEW i \in 1 .. n + 1
                 PROVE  /\ p[i].window <= p[i].at /\ p[i].at <= p[i].window + WINDOW_MS
                        /\ p[i].at <= clock
      BY <2>3 DEF Inside
    <3>1. CASE i = n + 1
      BY <1>1, <1>6, <2>6, <3>1
    <3>2. CASE i # n + 1
      <4>1. i \in 1 .. n
        BY <1>1, <3>2
      <4> QED
        BY <1>3, <2>3, <4>1 DEF Inside
    <3> QED
      BY <3>1, <3>2
  <2>8. Apart(p)
    <3> SUFFICES ASSUME NEW i \in 1 .. n + 1, NEW j \in 1 .. n + 1, i < j
                 PROVE  p[i].window = p[j].window \/ p[j].window > p[i].window + WINDOW_MS
      BY <2>3 DEF Apart
    <3>1. CASE j = n + 1
      <4>1. i \in 1 .. n
        BY <1>1, <3>1
      <4>2. w > p[i].window + WINDOW_MS \/ p[i].window = w
        BY <2>5, <4>1
      <4> QED
        BY <2>6, <3>1, <4>2
    <3>2. CASE j # n + 1
      <4>1. i \in 1 .. n /\ j \in 1 .. n
        BY <1>1, <3>2
      <4>2. p[i] = q[i] /\ p[j] = q[j]
        BY <2>3, <4>1
      <4> QED
        BY <1>3, <4>1, <4>2 DEF Apart
    <3> QED
      BY <3>1, <3>2
  <2>9. Full(p)
    <3> SUFFICES ASSUME NEW i \in 1 .. n + 1 - MAX_REQUESTS
                 PROVE  p[i].window # p[i + MAX_REQUESTS].window
      BY <2>3 DEF Full
    <3>1. CASE i = n + 1 - MAX_REQUESTS
      <4>1. i \in 1 .. n /\ i <= n - k /\ i + MAX_REQUESTS = n + 1
        BY <1>1, <1>6, <1>8, <2>4, <3>1
      <4>2. w > p[i].window + WINDOW_MS /\ p[i].window \in Nat
        BY <1>2, <2>3, <2>5, <4>1
      <4> QED
        BY <1>6, <2>6, <4>1, <4>2
    <3>2. CASE i # n + 1 - MAX_REQUESTS
      <4>1. i \in 1 .. n - MAX_REQUESTS /\ i \in 1 .. n /\ i + MAX_REQUESTS \in 1 .. n
        BY <1>1, <3>2
      <4> QED
        BY <1>3, <2>3, <4>1 DEF Full
    <3> QED
      BY <3>1, <3>2
  <2>10. Current(p, entry, clock)
    <3>1. Passing(c) = k + 1
      BY <1>6, <1>8, <2>4 DEF Passing
    <3>2. Len(p) - Passing(c) = n - k /\ Passing(c) <= Len(p)
      BY <1>1, <1>7, <2>3, <3>1
    <3>3. ASSUME NEW i \in 1 .. Len(p)
          PROVE  IF i <= n - k THEN w > p[i].window + WINDOW_MS ELSE p[i].window = w
      BY <1>1, <1>7, <2>3, <2>5, <2>6
    <3> QED
      BY <1>6, <3>2, <3>3 DEF Current
  <2> QED
    BY <1>5, <2>3, <2>7, <2>8, <2>9, <2>10
<1>9. CASE c > MAX_REQUESTS
  <2>1. p = q
    BY <1>6, <1>9 DEF PassedWith
  <2>2. k = MAX_REQUESTS /\ Passing(c) = MAX_REQUESTS
    BY <1>6, <1>7, <1>9 DEF Passing
  <2>3. Current(q, entry, clock)
    BY <1>6, <1>7, <2>2 DEF Current
  <2> QED
    BY <1>1, <1>3, <1>5, <2>1, <2>3
<1> QED
  BY <1>6, <1>8, <1>9

(* Each step keeps the invariant.                                          *)
LEMMA RequireInv ==
  ASSUME IInv, NEW request \in Requests, Require(request)
  PROVE  IInv'
<1>1. CASE request.path \in ExemptPaths
  BY <1>1 DEF Require, IInv, RateTypeOK, Client, Inside, Apart, Full, Current, Forgotten, Passing
<1>2. CASE request.path \notin ExemptPaths
  <2> DEFINE ip == ClientOf(request)
  <2>1. ip \in Clients
    BY DEF Clients
  <2>2. Allow(ip) /\ clock' = clock
    BY <1>2 DEF Require
  <2>3. /\ DOMAIN entries' = DOMAIN entries \cup {ip}
        /\ entries'[ip] = Counted(ip)
        /\ \A x \in DOMAIN entries \ {ip} : entries'[x] = entries[x]
    BY <2>2 DEF Allow, Counted
  <2>4. /\ passed' = [passed EXCEPT ![ip] = PassedWith(ip)]
        /\ passed \in [Clients -> Seq(Pass)]
    <3>1. passed \in [Clients -> Seq(Pass)]
      BY DEF IInv, RateTypeOK
    <3> HIDE DEF ip
    <3> QED
      BY <2>1, <2>2, <2>3, <3>1 DEF Allow, Counted, PassedWith
  <2> HIDE DEF ip
  <2> DEFINE p == PassedWith(ip)
  <2>5. /\ Counted(ip) \in [count : Nat \ {0}, windowStart : Nat]
        /\ p \in Seq(Pass)
        /\ Inside(p, clock) /\ Apart(p) /\ Full(p)
        /\ Current(p, Counted(ip), clock)
    BY <2>1, CountedClient
  <2>6. passed'[ip] = p /\ \A x \in Clients \ {ip} : passed'[x] = passed[x]
    BY <2>1, <2>4
  <2>7. RateTypeOK'
    BY <2>1, <2>2, <2>3, <2>4, <2>5 DEF IInv, RateTypeOK
  <2>8. ASSUME NEW x \in Clients PROVE Client(x)'
    <3>1. CASE x = ip
      BY <2>2, <2>3, <2>5, <2>6, <3>1 DEF Client, Inside, Apart, Full, Current, Passing
    <3>2. CASE x # ip
      <4>1. passed'[x] = passed[x] /\ (x \in DOMAIN entries' <=> x \in DOMAIN entries)
        BY <2>3, <2>6, <3>2
      <4>2. x \in DOMAIN entries => entries'[x] = entries[x]
        BY <2>3, <3>2
      <4>3. Client(x)
        BY DEF IInv
      <4> QED
        BY <2>2, <4>1, <4>2, <4>3
           DEF Client, Inside, Apart, Full, Current, Forgotten, Passing
    <3> QED
      BY <3>1, <3>2
  <2> QED
    BY <2>7, <2>8 DEF IInv
<1> QED
  BY <1>1, <1>2
LEMMA CleanupInv ==
  ASSUME IInv, Cleanup
  PROVE  IInv'
<1> USE RateAssumption
<1>1. /\ DOMAIN entries' = Kept
      /\ \A ip \in Kept : entries'[ip] = entries[ip]
      /\ clock' = clock /\ passed' = passed
      /\ Kept \subseteq DOMAIN entries
  BY DEF Cleanup, Kept
<1>2. RateTypeOK'
  BY <1>1 DEF IInv, RateTypeOK
<1>3. ASSUME NEW ip \in Clients PROVE Client(ip)'
  <2>1. Client(ip)
    BY DEF IInv
  <2>2. CASE ip \in Kept \/ ip \notin DOMAIN entries
    BY <1>1, <2>1, <2>2
       DEF Client, Inside, Apart, Full, Current, Forgotten, Passing
  <2>3. CASE ip \in DOMAIN entries \ Kept
    <3>1. Opens(ip)
      BY <2>3 DEF Kept, Opens, IInv, RateTypeOK
    <3>2. Forgotten(passed[ip], clock)
      BY <3>1, OpensAfter
    <3> QED
      BY <1>1, <2>1, <2>3, <3>2 DEF Client, Inside, Apart, Full, Forgotten
  <2> QED
    BY <2>2, <2>3
<1> QED
  BY <1>2, <1>3 DEF IInv

LEMMA TickInv ==
  ASSUME IInv, RateTick
  PROVE  IInv'
<1> USE RateAssumption
<1>1. clock \in Nat /\ clock' = clock + 1 /\ entries' = entries /\ passed' = passed
  BY DEF RateTick, IInv, RateTypeOK
<1>2. RateTypeOK'
  BY <1>1 DEF IInv, RateTypeOK
<1>3. ASSUME NEW ip \in Clients PROVE Client(ip)'
  <2>1. Client(ip) /\ passed[ip] \in Seq(Pass)
    BY DEF IInv, RateTypeOK
  <2>2. ASSUME NEW i \in 1 .. Len(passed[ip])
        PROVE  passed[ip][i].at \in Nat /\ passed[ip][i].window \in Nat
    <3>1. passed[ip][i] \in Pass
      BY <2>1, ElementOfSeq
    <3> QED
      BY <3>1 DEF Pass
  <2>3. Inside(passed[ip], clock + 1)
    BY <1>1, <2>1, <2>2 DEF Client, Inside
  <2>4. ASSUME ip \in DOMAIN entries
        PROVE  Current(passed[ip], entries[ip], clock + 1)
    <3>1. entries[ip].windowStart \in Nat
      BY <2>4 DEF IInv, RateTypeOK
    <3> QED
      BY <1>1, <2>1, <2>4, <3>1 DEF Client, Current
  <2>5. ASSUME ip \notin DOMAIN entries
        PROVE  Forgotten(passed[ip], clock + 1)
    BY <1>1, <2>1, <2>2, <2>5 DEF Client, Forgotten
  <2> QED
    BY <1>1, <2>1, <2>3, <2>4, <2>5
       DEF Client, Inside, Apart, Full, Current, Forgotten, Passing
<1> QED
  BY <1>2, <1>3 DEF IInv

LEMMA NextInv == IInv /\ [RateNext]_rateVars => IInv'
<1> SUFFICES ASSUME IInv, [RateNext]_rateVars PROVE IInv'
  OBVIOUS
<1>1. ASSUME NEW request \in Requests, Require(request) PROVE IInv'
  BY <1>1, RequireInv
<1>2. CASE Cleanup
  BY <1>2, CleanupInv
<1>3. CASE RateTick
  BY <1>3, TickInv
<1>4. CASE UNCHANGED rateVars
  BY <1>4 DEF rateVars, IInv, RateTypeOK, Client, Inside, Apart, Full, Current,
              Forgotten, Passing
<1> QED
  BY <1>1, <1>2, <1>3, <1>4 DEF RateNext

(* Of 2 * MAX_REQUESTS + 1 requests that passed, the first, the middle and *)
(* the last are in three windows, which lie apart.                         *)
LEMMA InvQuota == IInv => QuotaHolds
<1> SUFFICES ASSUME IInv, NEW ip \in Clients
             PROVE  /\ \A i \in 1 .. Len(passed[ip]) - 2 * MAX_REQUESTS :
                         passed[ip][i + 2 * MAX_REQUESTS].at - passed[ip][i].at > WINDOW_MS
                    /\ ip \in DOMAIN entries /\ entries[ip].count >= MAX_REQUESTS =>
                         /\ Len(passed[ip]) >= MAX_REQUESTS
                         /\ passed[ip][Len(passed[ip]) - MAX_REQUESTS + 1].at
                              >= entries[ip].windowStart
  BY DEF QuotaHolds
<1> USE RateAssumption
<1> DEFINE p == passed[ip]
           M == MAX_REQUESTS
<1>1. p \in Seq(Pass) /\ Len(p) \in Nat
  BY DEF IInv, RateTypeOK
<1>2. ASSUME NEW i \in 1 .. Len(p)
      PROVE  p[i].at \in Nat /\ p[i].window \in Nat
  <2>1. p[i] \in Pass
    BY <1>1, ElementOfSeq
  <2> QED
    BY <2>1 DEF Pass
<1>3. Inside(p, clock) /\ Apart(p) /\ Full(p)
  BY DEF IInv, Client
<1>4. ASSUME NEW i \in 1 .. Len(p) - 2 * M
      PROVE  p[i + 2 * M].at - p[i].at > WINDOW_MS
  <2> DEFINE j == i + M
             h == i + 2 * M
  <2>1. /\ i \in 1 .. Len(p) /\ j \in 1 .. Len(p) /\ h \in 1 .. Len(p)
        /\ i < j /\ j < h /\ h = j + M
        /\ i \in 1 .. Len(p) - M /\ j \in 1 .. Len(p) - M
    BY <1>1
  <2>2. p[i].window # p[j].window
    BY <1>3, <2>1 DEF Full
  <2>3. p[j].window # p[h].window
    BY <1>3, <2>1 DEF Full
  <2>4. p[j].window > p[i].window + WINDOW_MS
    BY <1>3, <2>1, <2>2 DEF Apart
  <2>5. p[h].window > p[j].window + WINDOW_MS
    BY <1>3, <2>1, <2>3 DEF Apart
  <2>6. p[i].at <= p[i].window + WINDOW_MS /\ p[h].at >= p[h].window
    BY <1>2, <1>3, <2>1 DEF Inside
  <2>7. /\ p[i].at \in Nat /\ p[h].at \in Nat
        /\ p[i].window \in Nat /\ p[j].window \in Nat /\ p[h].window \in Nat
    BY <1>2, <2>1
  <2>8. p[h].at - p[i].at > WINDOW_MS
    <3>1. \A a, b, x, y, z \in Nat :
            y > x + WINDOW_MS /\ z > y + WINDOW_MS /\ a <= x + WINDOW_MS /\ b >= z
              => b - a > WINDOW_MS
      OBVIOUS
    <3> HIDE DEF p, h, j
    <3> QED
      BY <2>4, <2>5, <2>6, <2>7, <3>1
  <2> QED
    BY <2>8
<1>5. ASSUME ip \in DOMAIN entries, entries[ip].count >= MAX_REQUESTS
      PROVE  Len(p) >= M /\ p[Len(p) - M + 1].at >= entries[ip].windowStart
  <2>1. Current(p, entries[ip], clock) /\ entries[ip].count \in Nat
    BY <1>5 DEF IInv, Client, RateTypeOK
  <2>2. Passing(entries[ip].count) = M
    BY <1>5, <2>1 DEF Passing
  <2>3. Len(p) >= M
    BY <1>1, <2>1, <2>2 DEF Current
  <2> DEFINE k == Len(p) - M + 1
  <2>4. k \in 1 .. Len(p) /\ ~(k <= Len(p) - M)
    BY <1>1, <2>3
  <2>5. p[k].window = entries[ip].windowStart
    BY <2>1, <2>2, <2>4 DEF Current
  <2>6. p[k].at >= p[k].window
    BY <1>2, <1>3, <2>4 DEF Inside
  <2> QED
    BY <2>3, <2>5, <2>6
<1> QED
  BY <1>4, <1>5

(* For every window, limit and set of requests: no client gets more than   *)
(* two limits of requests through within one window's length, and one that *)
(* is refused has had its limit in the open window.                        *)
THEOREM Quota == RateSpec => []QuotaHolds
<1>1. RateInit => IInv
  BY InitInv
<1>2. IInv /\ [RateNext]_rateVars => IInv'
  BY NextInv
<1>3. IInv => QuotaHolds
  BY InvQuota
<1> QED
  BY <1>1, <1>2, <1>3, PTL DEF RateSpec

(* Entries are kept only for clients, with a count of at least one.        *)
THEOREM RateTypeCorrect == RateSpec => []RateTypeOK
<1>1. RateInit => IInv
  BY InitInv
<1>2. IInv /\ [RateNext]_rateVars => IInv'
  BY NextInv
<1>3. IInv => RateTypeOK
  BY DEF IInv
<1> QED
  BY <1>1, <1>2, <1>3, PTL DEF RateSpec

-----------------------------------------------------------------------------
(* The forwarders, for every size of batch and of chunk.                   *)
-----------------------------------------------------------------------------

(* The size of the requests of each forwarder; otlp makes at most one.     *)
ChunkSize(f) ==
  CASE f = "datadog" -> DatadogChunk [] f = "splunk" -> SplunkChunk [] f = "otlp" -> 1

(* k requests of at most z cover this much of w.                           *)
Covered(k, z, w) == IF k * z <= w THEN k * z ELSE w

(* Of the requests of a batch the first k are dealt with, the rest are     *)
(* still to be sent, and the counts tell how it went so far.               *)
Progress(t, plan, w, z) ==
  \E k \in 0 .. Len(plan) :
    /\ Len(t.todo) = Len(plan) - k
    /\ \A j \in 1 .. Len(plan) - k : t.todo[j] = plan[k + j]
    /\ ~t.troubled => t.accepted = Covered(k, z, w) /\ t.rejected = 0
    /\ t.troubled => t.rejected > 0

Send == [at : {"throttle", "sleep", "fetch", "done"}, todo : Seq(Nat), accepted : Nat,
         rejected : Nat, sleep : 0 .. MinInterval, gap : 0 .. MinInterval,
         troubled : BOOLEAN]

SendOK(t, f, n) ==
  /\ t \in Send
  /\ t.at \in {"sleep", "fetch"} => t.todo # << >>
  /\ t.at = "sleep" => t.sleep + t.gap >= MinInterval
  /\ t.at = "done" => t.gap = MinInterval
  /\ t.at # "done" => Progress(t, Plan(f, n), Whole(f, n), ChunkSize(f))

Told(p) ==
  /\ p[2] \in DOMAIN results[p[1]]
  /\ IF task[p].troubled THEN results[p[1]][p[2]].rejected > 0
     ELSE results[p[1]][p[2]] = [accepted |-> Whole(p[2], batches[p[1]]), rejected |-> 0]

ForwardInv ==
  /\ configured \subseteq {"datadog", "splunk", "otlp"}
  /\ batches \in Seq(Nat)
  /\ DOMAIN task = (1 .. Len(batches)) \X configured
  /\ elapsed \in [configured -> 0 .. MinInterval]
  /\ DOMAIN results = 1 .. Len(batches)
  /\ \A p \in DOMAIN task :
       /\ SendOK(task[p], p[2], batches[p[1]])
       /\ elapsed[p[2]] <= task[p].gap
       /\ task[p].at = "done" => Told(p)

-----------------------------------------------------------------------------
(* The requests of a batch.                                                *)

(* Multiples of different numbers lie apart.                               *)
LEMMA MultiplesLieApart ==
  ASSUME NEW z \in Nat, NEW p \in Int, NEW q \in Int, p < q
  PROVE  p * z + z <= q * z
<1>1. (q - p - 1) * z >= 0
  OBVIOUS
<1>2. (q - p - 1) * z = q * z - p * z - z
  OBVIOUS
<1>3. QED
  BY <1>1, <1>2

(* What is left of w after k whole requests, if it is less than one.       *)
LEMMA LastRequest ==
  ASSUME NEW w \in Nat, NEW z \in Nat \ {0}, NEW k \in Nat, k * z <= w, w < k * z + z
  PROVE  w % z = w - k * z
<1> DEFINE p == w \div z
           r == w % z
           a == p * z
           b == k * z
<1>1. p \in Int /\ r \in 0 .. z - 1 /\ w = a + r
  OBVIOUS
<1>2. a \in Int /\ b \in Int
  BY <1>1
<1>3. p < k => a + z <= b
  BY <1>1, MultiplesLieApart
<1>4. k < p => b + z <= a
  BY <1>1, MultiplesLieApart
<1>5. b <= w /\ w < b + z
  OBVIOUS
<1>6. p = k => a = b
  OBVIOUS
<1> HIDE DEF p, r, a, b
<1>7. p = k
  BY <1>1, <1>2, <1>3, <1>4, <1>5
<1>8. r = w - b
  BY <1>1, <1>2, <1>6, <1>7
<1>9. QED
  BY <1>8 DEF r, b

(* The requests of a plan are not empty, and the first k of them cover     *)
(* what k requests can: together they are the whole batch.                 *)
PlanCovers(plan, w, z) ==
  /\ plan \in Seq(Nat)
  /\ Covered(0, z, w) = 0
  /\ Covered(Len(plan), z, w) = w
  /\ w = 0 => Len(plan) = 0
  /\ \A k \in 0 .. Len(plan) - 1 :
       /\ plan[k + 1] \in Nat \ {0}
       /\ Covered(k, z, w) + plan[k + 1] = Covered(k + 1, z, w)

(* Requests of size z, and one with the rest, are such a plan.             *)
LEMMA ChunksCover ==
  ASSUME NEW w \in Nat, NEW z \in Nat \ {0}
  PROVE  PlanCovers(Chunks(w, z), w, z)
<1> DEFINE c == Chunks(w, z)
           L == (w + z - 1) \div z
           M == L * z
<1>1. L \in Nat /\ M \in Nat /\ M <= w + z - 1 /\ w + z - 1 < M + z
  <2> DEFINE m == w + z - 1
             r == m % z
  <2>1. m \in Nat
    OBVIOUS
  <2> HIDE DEF m
  <2>2. /\ m \div z \in Nat /\ r \in 0 .. z - 1 /\ m = (m \div z) * z + r
        /\ (m \div z) * z \in Nat
    BY <2>1
  <2> DEFINE a == (m \div z) * z
  <2>3. a \in Nat /\ r \in 0 .. z - 1 /\ m = a + r
    BY <2>2
  <2> HIDE DEF r, a
  <2>4. a <= m /\ m < a + z
    BY <2>1, <2>3
  <2>5. QED
    BY <2>2, <2>4 DEF m, a
<1>2. \A i \in 1 .. L : c[i] = IF i * z <= w THEN z ELSE w % z
  BY DEF Chunks
<1>3. c = [i \in 1 .. L |-> IF i * z <= w THEN z ELSE w % z]
  BY DEF Chunks
<1>4. \A i \in 1 .. L : (IF i * z <= w THEN z ELSE w % z) \in Nat
  OBVIOUS
<1>5. c \in Seq(Nat) /\ Len(c) = L
  <2> HIDE DEF L
  <2>1. QED
    BY <1>1, <1>3, <1>4
<1> HIDE DEF c, L
<1>6. ASSUME NEW k \in 0 .. L - 1
      PROVE  /\ c[k + 1] \in Nat \ {0}
             /\ Covered(k, z, w) + c[k + 1] = Covered(k + 1, z, w)
  <2> DEFINE a == k * z
             b == (k + 1) * z
  <2>1. k \in Nat /\ k + 1 \in 1 .. L
    BY <1>1
  <2>2. a \in Nat /\ b = a + z
    BY <2>1
  <2>3. b <= M
    <3>1. CASE k + 1 = L
      BY <1>1, <3>1
    <3>2. CASE k + 1 < L
      <4>1. b + z <= M
        BY <1>1, <2>1, <3>2, MultiplesLieApart
      <4>2. QED
        BY <1>1, <2>2, <4>1
    <3>3. QED
      BY <1>1, <2>1, <3>1, <3>2
  <2> HIDE DEF M
  <2>4. a < w
    <3> HIDE DEF a, b
    <3>1. QED
      BY <1>1, <2>2, <2>3
  <2>5. c[k + 1] = IF b <= w THEN z ELSE w % z
    BY <1>2, <2>1
  <2>6. ~(b <= w) => w % z = w - a
    <3>1. ~(b <= w) => k * z <= w /\ w < k * z + z
      BY <2>2, <2>4
    <3>2. QED
      BY <2>1, <3>1, LastRequest
  <2>7. /\ Covered(k, z, w) = a
        /\ Covered(k + 1, z, w) = IF b <= w THEN b ELSE w
    BY <2>2, <2>4 DEF Covered
  <2> HIDE DEF a, b
  <2>8. QED
    BY <2>2, <2>4, <2>5, <2>6, <2>7
<1>7. Covered(0, z, w) = 0
  BY DEF Covered
<1>8. Covered(L, z, w) = w
  <2>1. w <= M
    <3>1. M \in Nat /\ w + z - 1 < M + z
      BY <1>1
    <3> HIDE DEF M
    <3>2. QED
      BY <3>1
  <2>2. Covered(L, z, w) = IF M <= w THEN M ELSE w
    BY DEF Covered
  <2> HIDE DEF M
  <2>3. QED
    BY <1>1, <2>1, <2>2
<1>9. w = 0 => L = 0
  <2>1. CASE L > 0
    <3>1. 0 < L /\ 0 * z + z <= L * z
      BY <1>1, <2>1, MultiplesLieApart
    <3> DEFINE N == M
    <3>2. N \in Nat /\ z <= N /\ N <= w + z - 1
      BY <1>1, <3>1
    <3> HIDE DEF N
    <3>3. w # 0
      BY <3>2
    <3>4. QED
      BY <3>3
  <2>2. QED
    BY <1>1, <2>1
<1>10. QED
  BY <1>5, <1>6, <1>7, <1>8, <1>9 DEF PlanCovers, c

(* So is what each forwarder makes of a batch.                             *)
LEMMA PlansCover ==
  ASSUME NEW f \in {"datadog", "splunk", "otlp"}, NEW n \in Nat
  PROVE  /\ Whole(f, n) \in Nat
         /\ PlanCovers(Plan(f, n), Whole(f, n), ChunkSize(f))
         /\ f = "datadog" /\ Whole(f, n) # 0 => n # 0
<1>1. CASE f = "datadog"
  <2>1. SeriesPerMetric * n \in Nat /\ DatadogChunk \in Nat \ {0}
        /\ SeriesPerMetric * 0 = 0
    BY ForwardAssumption
  <2>2. /\ Whole(f, n) = SeriesPerMetric * n /\ ChunkSize(f) = DatadogChunk
        /\ Plan(f, n) = Chunks(SeriesPerMetric * n, DatadogChunk)
    BY <1>1 DEF Whole, ChunkSize, Plan, DatadogPlan
  <2>3. QED
    BY <2>1, <2>2, ChunksCover
<1>2. CASE f = "splunk"
  <2>1. SplunkChunk \in Nat \ {0}
    BY ForwardAssumption
  <2>2. Whole(f, n) = n /\ ChunkSize(f) = SplunkChunk /\ Plan(f, n) = Chunks(n, SplunkChunk)
    BY <1>2 DEF Whole, ChunkSize, Plan, SplunkPlan
  <2>3. QED
    BY <1>2, <2>1, <2>2, ChunksCover
<1>3. CASE f = "otlp"
  <2>1. /\ Whole(f, n) = IF n = 0 THEN 0 ELSE 1
        /\ ChunkSize(f) = 1 /\ Plan(f, n) = IF n = 0 THEN << >> ELSE <<1>>
    BY <1>3 DEF Whole, ChunkSize, Plan, OtlpPlan
  <2>2. CASE n = 0
    <3>1. PlanCovers(<< >>, 0, 1)
      BY EmptySeq DEF PlanCovers, Covered
    <3>2. QED
      BY <1>3, <2>1, <2>2, <3>1
  <2>3. CASE n # 0
    <3> DEFINE one == <<1>>
    <3>1. one \in Seq(Nat) /\ Len(one) = 1 /\ one[1] = 1
      OBVIOUS
    <3> HIDE DEF one
    <3>2. Covered(0, 1, 1) = 0 /\ Covered(1, 1, 1) = 1
      BY DEF Covered
    <3>3. \A k \in 0 .. 1 - 1 : k = 0 /\ k + 1 = 1
      OBVIOUS
    <3>4. PlanCovers(one, 1, 1)
      BY <3>1, <3>2, <3>3 DEF PlanCovers
    <3>5. QED
      BY <1>3, <2>1, <2>3, <3>4 DEF one
  <2>4. QED
    BY <2>2, <2>3
<1>4. QED
  BY <1>1, <1>2, <1>3

-----------------------------------------------------------------------------
(* How a send proceeds.                                                    *)

(* Progress is a matter of the requests left and of the counts.            *)
LEMMA SameProgress ==
  ASSUME NEW s, NEW t, NEW plan, NEW w, NEW z, Progress(t, plan, w, z),
         s.todo = t.todo, s.accepted = t.accepted, s.rejected = t.rejected,
         s.troubled = t.troubled
  PROVE  Progress(s, plan, w, z)
  BY DEF Progress

(* A new send has everything before it.                                    *)
LEMMA NewProgress ==
  ASSUME NEW plan, NEW w, NEW z, PlanCovers(plan, w, z)
  PROVE  /\ NewSend(plan) \in Send
         /\ Progress(NewSend(plan), plan, w, z)
<1> DEFINE t == NewSend(plan)
<1>1. /\ t.at = "throttle" /\ t.todo = plan /\ t.accepted = 0 /\ t.rejected = 0
      /\ t.troubled = FALSE
  BY DEF NewSend
<1>2. plan \in Seq(Nat) /\ Len(plan) \in Nat /\ Covered(0, z, w) = 0
  BY LenProperties DEF PlanCovers
<1>3. t \in Send
  BY <1>2, ForwardAssumption DEF NewSend, Send
<1> HIDE DEF t
<1>4. 0 \in 0 .. Len(plan) /\ Len(plan) = Len(plan) - 0
      /\ \A j \in 1 .. Len(plan) - 0 : plan[j] = plan[0 + j]
  BY <1>2
<1>5. Progress(t, plan, w, z)
  BY <1>1, <1>2, <1>4 DEF Progress
<1>6. QED
  BY <1>3, <1>5 DEF t

(* One request is dealt with, well or not.                                 *)
LEMMA NextProgress ==
  ASSUME NEW plan, NEW w \in Nat, NEW z, PlanCovers(plan, w, z),
         NEW t \in Send, Progress(t, plan, w, z), t.todo # << >>
  PROVE  /\ w # 0
         /\ Head(t.todo) \in Nat \ {0}
         /\ Accept(t) \in Send /\ Progress(Accept(t), plan, w, z)
         /\ \A n \in Nat \ {0} :
              Reject(t, n) \in Send /\ Progress(Reject(t, n), plan, w, z)
<1> DEFINE L == Len(plan)
           d == t.todo
           r == Tail(d)
<1>1. /\ plan \in Seq(Nat) /\ L \in Nat /\ (w = 0 => L = 0)
      /\ \A k \in 0 .. L - 1 :
           /\ plan[k + 1] \in Nat \ {0}
           /\ Covered(k, z, w) + plan[k + 1] = Covered(k + 1, z, w)
  BY LenProperties DEF PlanCovers
<1>2. /\ t.todo \in Seq(Nat) /\ t.accepted \in Nat /\ t.rejected \in Nat /\ t.troubled \in BOOLEAN
  BY DEF Send
<1>3. /\ d \in Seq(Nat) /\ d # << >> /\ Len(d) \in Nat \ {0} /\ Head(d) = d[1]
      /\ r \in Seq(Nat) /\ Len(r) = Len(d) - 1 /\ \A j \in 1 .. Len(d) - 1 : r[j] = d[j + 1]
  <2>1. d \in Seq(Nat) /\ d # << >>
    BY <1>2
  <2> HIDE DEF d
  <2>2. /\ r \in Seq(Nat) /\ Len(r) = Len(d) - 1
        /\ \A j \in 1 .. Len(r) : r[j] = d[j + 1]
    BY <2>1, HeadTailProperties
  <2>3. Len(d) \in Nat \ {0} /\ Head(d) = d[1]
    BY <2>1, EmptySeq
  <2>4. QED
    BY <2>1, <2>2, <2>3
<1>4. PICK k \in 0 .. L :
        /\ Len(d) = L - k
        /\ \A j \in 1 .. L - k : d[j] = plan[k + j]
        /\ ~t.troubled => t.accepted = Covered(k, z, w) /\ t.rejected = 0
        /\ t.troubled => t.rejected > 0
  BY DEF Progress
<1> HIDE DEF L, d, r
<1>5. k \in 0 .. L - 1 /\ k + 1 \in 0 .. L /\ 1 \in 1 .. L - k /\ w # 0
  BY <1>1, <1>3, <1>4
<1>6. Head(d) = plan[k + 1] /\ Head(d) \in Nat \ {0}
      /\ Covered(k, z, w) + Head(d) = Covered(k + 1, z, w)
  BY <1>1, <1>3, <1>4, <1>5
<1>7. Len(r) = L - (k + 1) /\ \A j \in 1 .. L - (k + 1) : r[j] = plan[(k + 1) + j]
  <2>1. Len(r) = L - (k + 1)
    BY <1>1, <1>3, <1>4, <1>5
  <2>2. ASSUME NEW j \in 1 .. L - (k + 1) PROVE r[j] = plan[(k + 1) + j]
    <3>1. j \in 1 .. Len(d) - 1 /\ j + 1 \in 1 .. L - k /\ k + (j + 1) = (k + 1) + j
      BY <1>1, <1>4, <1>5
    <3>2. r[j] = d[j + 1] /\ d[j + 1] = plan[k + (j + 1)]
      BY <1>3, <1>4, <3>1
    <3>3. QED
      BY <3>1, <3>2
  <2>3. QED
    BY <2>1, <2>2
<1>8. Accept(t) \in Send /\ Progress(Accept(t), plan, w, z)
  <2> DEFINE a == Accept(t)
  <2>1. /\ a.todo = r /\ a.accepted = t.accepted + Head(d)
        /\ a.rejected = t.rejected /\ a.troubled = t.troubled
    BY DEF Accept, Send, r, d
  <2>2. a \in Send
    <3> DEFINE v == t.accepted + Head(d)
    <3>1. v \in Nat
      BY <1>2, <1>6
    <3>2. a = [t EXCEPT !.todo = r, !.accepted = v]
      BY DEF Accept, r, d
    <3> HIDE DEF v, a
    <3>3. QED
      BY <1>3, <3>1, <3>2 DEF Send
  <2> HIDE DEF a
  <2>3. ~a.troubled => a.accepted = Covered(k + 1, z, w) /\ a.rejected = 0
    BY <1>4, <1>6, <2>1
  <2>4. Progress(a, plan, w, z)
    BY <1>4, <1>5, <1>7, <2>1, <2>3 DEF Progress, L
  <2>5. QED
    BY <2>2, <2>4 DEF a
<1>9. ASSUME NEW n \in Nat \ {0}
      PROVE  Reject(t, n) \in Send /\ Progress(Reject(t, n), plan, w, z)
  <2> DEFINE a == Reject(t, n)
  <2>1. /\ a.todo = r /\ a.rejected = t.rejected + n /\ a.troubled = TRUE
    BY DEF Reject, Send, r, d
  <2>2. a \in Send
    <3> DEFINE v == t.rejected + n
    <3>1. v \in Nat
      BY <1>2
    <3>2. a = [t EXCEPT !.todo = r, !.rejected = v, !.troubled = TRUE]
      BY DEF Reject, r, d
    <3> HIDE DEF v, a
    <3>3. QED
      BY <1>3, <3>1, <3>2 DEF Send
  <2> HIDE DEF a
  <2>3. a.rejected > 0
    BY <1>2, <2>1
  <2>4. Progress(a, plan, w, z)
    BY <1>5, <1>7, <2>1, <2>3 DEF Progress, L
  <2>5. QED
    BY <2>2, <2>4 DEF a
<1>10. QED
  BY <1>5, <1>6, <1>8, <1>9 DEF d

(* A send with nothing left has told what became of the whole batch.       *)
LEMMA EndOfProgress ==
  ASSUME NEW plan, NEW w, NEW z, PlanCovers(plan, w, z),
         NEW t, Progress(t, plan, w, z), t.todo = << >>
  PROVE  IF t.troubled THEN t.rejected > 0 ELSE t.accepted = w /\ t.rejected = 0
<1>1. PICK k \in 0 .. Len(plan) :
        /\ Len(t.todo) = Len(plan) - k
        /\ ~t.troubled => t.accepted = Covered(k, z, w) /\ t.rejected = 0
        /\ t.troubled => t.rejected > 0
  BY DEF Progress
<1>2. Len(plan) \in Nat /\ Covered(Len(plan), z, w) = w
  BY LenProperties DEF PlanCovers
<1>3. Len(t.todo) = 0
  BY EmptySeq
<1>4. k = Len(plan)
  BY <1>1, <1>2, <1>3
<1>5. QED
  BY <1>1, <1>2, <1>4

-----------------------------------------------------------------------------
(* The sends side by side.                                                 *)

(* A send belongs to a batch and to a configured forwarder.                *)
LEMMA SendOf ==
  ASSUME ForwardInv, NEW p \in DOMAIN task
  PROVE  /\ p = <<p[1], p[2]>> /\ p[1] \in 1 .. Len(batches) /\ p[1] \in DOMAIN results
         /\ p[2] \in configured /\ p[2] \in {"datadog", "splunk", "otlp"}
         /\ batches[p[1]] \in Nat
         /\ Whole(p[2], batches[p[1]]) \in Nat
         /\ PlanCovers(Plan(p[2], batches[p[1]]), Whole(p[2], batches[p[1]]), ChunkSize(p[2]))
         /\ p[2] = "datadog" /\ Whole(p[2], batches[p[1]]) # 0 => batches[p[1]] # 0
<1>1. p \in (1 .. Len(batches)) \X configured
  BY DEF ForwardInv
<1>2. p = <<p[1], p[2]>> /\ p[1] \in 1 .. Len(batches) /\ p[2] \in configured
  BY <1>1
<1>3. p[2] \in {"datadog", "splunk", "otlp"} /\ p[1] \in DOMAIN results
  BY <1>2 DEF ForwardInv
<1>4. batches[p[1]] \in Nat
  BY <1>2, ElementOfSeq DEF ForwardInv
<1>5. QED
  BY <1>2, <1>3, <1>4, PlansCover

(* One send changes, and what it shares with others changes for none of    *)
(* them to the worse.                                                      *)
LEMMA OneSendKeeps ==
  ASSUME ForwardInv, NEW p \in DOMAIN task, NEW s,
         task' = [task EXCEPT ![p] = s], UNCHANGED <<configured, batches>>,
         SendOK(s, p[2], batches[p[1]]),
         elapsed' \in [configured -> 0 .. MinInterval],
         \A f \in configured : elapsed'[f] <= elapsed[f],
         elapsed'[p[2]] <= s.gap,
         DOMAIN results' = DOMAIN results,
         \A q \in DOMAIN task : q # p /\ task[q].at = "done" => Told(q)',
         s.at = "done" => Told(p)'
  PROVE  ForwardInv'
<1>1. /\ DOMAIN task' = DOMAIN task /\ task'[p] = s
      /\ \A q \in DOMAIN task : q # p => task'[q] = task[q]
  OBVIOUS
<1>2. ASSUME NEW q \in DOMAIN task
      PROVE  /\ SendOK(task'[q], q[2], batches[q[1]])
             /\ elapsed'[q[2]] <= task'[q].gap
             /\ task'[q].at = "done" => Told(q)'
  <2>1. CASE q = p
    BY <1>1, <2>1
  <2>2. CASE q # p
    <3>1. /\ SendOK(task[q], q[2], batches[q[1]])
          /\ elapsed[q[2]] <= task[q].gap /\ q[2] \in configured
      BY SendOf DEF ForwardInv
    <3>2. elapsed'[q[2]] <= task[q].gap
      <4> DEFINE a == elapsed'[q[2]]
                 b == elapsed[q[2]]
                 g == task[q].gap
      <4>1. a <= b /\ b <= g /\ a \in Int /\ b \in Int /\ g \in Int
        BY <3>1, ForwardAssumption DEF ForwardInv, SendOK, Send
      <4> HIDE DEF a, b, g
      <4>2. a <= g
        BY <4>1
      <4>3. QED
        BY <4>2 DEF a, g
    <3>3. QED
      BY <1>1, <2>2, <3>1, <3>2
  <2>3. QED
    BY <2>1, <2>2
<1>3. DOMAIN results' = 1 .. Len(batches')
  BY DEF ForwardInv
<1>4. QED
  BY <1>1, <1>2, <1>3 DEF ForwardInv

(* A result stands while another send goes on.                             *)
LEMMA ToldStands ==
  ASSUME ForwardInv, NEW q \in DOMAIN task, task[q].at = "done",
         task'[q] = task[q], UNCHANGED <<batches, results>>
  PROVE  Told(q)'
  BY DEF ForwardInv, Told

(* A request goes out.                                                     *)
LEMMA GoKeeps ==
  ASSUME ForwardInv, NEW p \in DOMAIN task, task[p].at \in {"throttle", "sleep"},
         task[p].todo # << >>, Go(p), UNCHANGED <<configured, batches>>
  PROVE  ForwardInv'
<1> DEFINE s == [task[p] EXCEPT !.at = "fetch", !.gap = 0]
           f == p[2]
           n == batches[p[1]]
<1>1. /\ task' = [task EXCEPT ![p] = s] /\ UNCHANGED results
      /\ elapsed' = [elapsed EXCEPT ![f] = 0]
  BY DEF Go
<1>2. /\ task[p] \in Send /\ Progress(task[p], Plan(f, n), Whole(f, n), ChunkSize(f))
      /\ f \in configured
  BY SendOf DEF ForwardInv, SendOK
<1>3. 0 \in 0 .. MinInterval /\ MinInterval \in Nat
  BY ForwardAssumption
<1>4. /\ s \in Send /\ s.at = "fetch" /\ s.gap = 0 /\ s.todo = task[p].todo
      /\ s.accepted = task[p].accepted /\ s.rejected = task[p].rejected
      /\ s.troubled = task[p].troubled
  BY <1>2, <1>3 DEF Send
<1> HIDE DEF s, f, n
<1>5. SendOK(s, f, n)
  BY <1>2, <1>4, SameProgress DEF SendOK
<1>6. elapsed \in [configured -> 0 .. MinInterval]
  BY DEF ForwardInv
<1>7. /\ elapsed' \in [configured -> 0 .. MinInterval]
      /\ \A g \in configured : elapsed'[g] <= elapsed[g]
      /\ elapsed'[f] <= s.gap
  BY <1>1, <1>2, <1>3, <1>4, <1>6
<1>8. \A q \in DOMAIN task : q # p /\ task[q].at = "done" => Told(q)'
  BY <1>1, ToldStands
<1>9. QED
  BY <1>1, <1>4, <1>5, <1>7, <1>8, OneSendKeeps DEF f, n

(* A send goes on: what it shares with others stays as it is.              *)
LEMMA GoesOnKeeps ==
  ASSUME ForwardInv, NEW p \in DOMAIN task, NEW s,
         task' = [task EXCEPT ![p] = s], UNCHANGED <<configured, batches, elapsed, results>>,
         SendOK(s, p[2], batches[p[1]]), s.at # "done", s.gap = task[p].gap
  PROVE  ForwardInv'
<1>1. /\ elapsed' \in [configured -> 0 .. MinInterval]
      /\ \A f \in configured : elapsed'[f] <= elapsed[f]
      /\ elapsed'[p[2]] <= s.gap
  BY ForwardAssumption DEF ForwardInv
<1>2. \A q \in DOMAIN task : q # p /\ task[q].at = "done" => Told(q)'
  BY ToldStands
<1>3. QED
  BY <1>1, <1>2, OneSendKeeps

(* A send returns and tells.                                               *)
LEMMA ReturnKeeps ==
  ASSUME ForwardInv, NEW p \in DOMAIN task, NEW t, Return(p, t),
         UNCHANGED <<configured, batches, elapsed>>, t.troubled \in BOOLEAN,
         IF t.troubled THEN t.rejected > 0
         ELSE t.accepted = Whole(p[2], batches[p[1]]) /\ t.rejected = 0
  PROVE  ForwardInv'
<1> DEFINE s == [NewSend(<< >>) EXCEPT !.at = "done", !.troubled = t.troubled]
           told == [accepted |-> t.accepted, rejected |-> t.rejected]
           row == [f \in DOMAIN results[p[1]] \cup {p[2]} |->
                     IF f = p[2] THEN told ELSE results[p[1]][f]]
<1>1. task' = [task EXCEPT ![p] = s] /\ results' = [results EXCEPT ![p[1]] = row]
  BY DEF Return
<1>2. p[1] \in DOMAIN results /\ p[2] \in configured /\ p = <<p[1], p[2]>>
  BY SendOf
<1>3. /\ DOMAIN results' = DOMAIN results /\ results'[p[1]] = row
      /\ \A b \in DOMAIN results : b # p[1] => results'[b] = results[b]
      /\ task'[p] = s /\ \A q \in DOMAIN task : q # p => task'[q] = task[q]
  BY <1>1, <1>2
<1>4. /\ s \in Send /\ s.at = "done" /\ s.gap = MinInterval /\ s.troubled = t.troubled
  <2> DEFINE e == << >>
             v == NewSend(e)
  <2>1. e \in Seq(Nat)
    OBVIOUS
  <2> HIDE DEF e
  <2>2. v \in Send /\ v.gap = MinInterval
    BY <2>1, ForwardAssumption DEF NewSend, Send
  <2> HIDE DEF v
  <2>3. s = [v EXCEPT !.at = "done", !.troubled = t.troubled]
    BY DEF v, e
  <2> HIDE DEF s
  <2>4. QED
    BY <2>2, <2>3 DEF Send
<1> HIDE DEF s
<1>5. SendOK(s, p[2], batches[p[1]])
  BY <1>4 DEF SendOK
<1>6. /\ elapsed' \in [configured -> 0 .. MinInterval]
      /\ \A f \in configured : elapsed'[f] <= elapsed[f]
      /\ elapsed'[p[2]] <= s.gap
  <2>1. elapsed' = elapsed /\ elapsed \in [configured -> 0 .. MinInterval]
    BY DEF ForwardInv
  <2>2. \A f \in configured : elapsed[f] <= elapsed[f] /\ elapsed[f] <= MinInterval
    BY <2>1, ForwardAssumption
  <2>3. QED
    BY <1>2, <1>4, <2>1, <2>2
<1>7. Told(p)'
  <2>1. p[2] \in DOMAIN row /\ row[p[2]] = told
    OBVIOUS
  <2>2. ~t.troubled => told = [accepted |-> Whole(p[2], batches[p[1]]), rejected |-> 0]
    OBVIOUS
  <2>3. told.rejected = t.rejected
    OBVIOUS
  <2> HIDE DEF row, told
  <2>4. QED
    BY <1>3, <1>4, <2>1, <2>2, <2>3 DEF Told
<1>8. ASSUME NEW q \in DOMAIN task, q # p, task[q].at = "done"
      PROVE  Told(q)'
  <2>1. q = <<q[1], q[2]>> /\ q[1] \in DOMAIN results
    BY SendOf
  <2>2. Told(q)
    BY <1>8 DEF ForwardInv
  <2>3. CASE q[1] # p[1]
    BY <1>3, <1>8, <2>1, <2>2, <2>3 DEF Told
  <2>4. CASE q[1] = p[1]
    <3>1. q[2] # p[2]
      BY <1>2, <1>8, <2>1, <2>4
    <3>2. q[2] \in DOMAIN row /\ row[q[2]] = results[q[1]][q[2]]
      BY <2>2, <2>4, <3>1 DEF Told
    <3> HIDE DEF row
    <3>3. QED
      BY <1>3, <1>8, <2>2, <2>4, <3>2 DEF Told
  <2>5. QED
    BY <2>3, <2>4
<1> HIDE DEF row
<1>9. QED
  BY <1>1, <1>3, <1>5, <1>6, <1>7, <1>8, OneSendKeeps

-----------------------------------------------------------------------------
(* The inductive invariant.                                                *)

(* Nothing has been posted.                                                *)
LEMMA ForwardInitInv == ForwardInit => ForwardInv
<1> SUFFICES ASSUME ForwardInit PROVE ForwardInv
  OBVIOUS
<1>1. configured \subseteq {"datadog", "splunk", "otlp"}
  BY ForwardAssumption DEF ForwardInit
<1>2. batches \in Seq(Nat) /\ 1 .. Len(batches) = {} /\ DOMAIN task = {} /\ DOMAIN results = {}
  BY EmptySeq DEF ForwardInit
<1>3. (1 .. Len(batches)) \X configured = {}
  BY <1>2
<1>4. elapsed \in [configured -> 0 .. MinInterval]
  BY ForwardAssumption DEF ForwardInit
<1>5. QED
  BY <1>1, <1>2, <1>3, <1>4 DEF ForwardInv

(* A batch is posted.                                                      *)
LEMMA PostKeeps ==
  ASSUME ForwardInv, NEW body \in Bodies, PostBatch(body)
  PROVE  ForwardInv'
<1> DEFINE m == Len(batches)
<1>1. /\ batches' = Append(batches, body) /\ results' = Append(results, << >>)
      /\ task' = [p \in DOMAIN task \cup Sends(Len(batches')) |->
                    IF p \in DOMAIN task THEN task[p] ELSE NewSend(Plan(p[2], body))]
      /\ UNCHANGED <<configured, elapsed, running>>
  BY DEF PostBatch
<1>2. /\ batches \in Seq(Nat) /\ m \in Nat /\ body \in Nat
      /\ configured \subseteq {"datadog", "splunk", "otlp"}
      /\ DOMAIN task = (1 .. m) \X configured /\ DOMAIN results = 1 .. m
      /\ elapsed \in [configured -> 0 .. MinInterval]
  BY ForwardAssumption, LenProperties DEF ForwardInv
<1>3. /\ batches' \in Seq(Nat) /\ Len(batches') = m + 1
      /\ \A b \in 1 .. m : batches'[b] = batches[b]
      /\ batches'[m + 1] = body
  BY <1>1, <1>2, AppendProperties
<1>4. Len(results) = m
  BY <1>2
<1>5. DOMAIN results' = 1 .. m + 1 /\ \A b \in 1 .. m : results'[b] = results[b]
  BY <1>1, <1>2, <1>4
<1> HIDE DEF m
<1>6. Sends(Len(batches')) = {m + 1} \X configured
  BY <1>3 DEF Sends
<1>7. DOMAIN task' = (1 .. Len(batches')) \X configured
  <2>1. 1 .. m + 1 = (1 .. m) \cup {m + 1}
    BY <1>2
  <2>2. DOMAIN task' = ((1 .. m) \X configured) \cup ({m + 1} \X configured)
    BY <1>1, <1>2, <1>6
  <2>3. QED
    BY <1>3, <2>1, <2>2
<1>8. ASSUME NEW p \in DOMAIN task'
      PROVE  /\ SendOK(task'[p], p[2], batches'[p[1]])
             /\ elapsed'[p[2]] <= task'[p].gap
             /\ task'[p].at = "done" => Told(p)'
  <2>1. CASE p \in DOMAIN task
    <3>1. task'[p] = task[p]
      BY <1>1, <2>1
    <3>2. p[1] \in 1 .. m /\ p[2] \in configured
      BY <1>2, <2>1
    <3>3. batches'[p[1]] = batches[p[1]] /\ results'[p[1]] = results[p[1]]
      BY <1>3, <1>5, <3>2
    <3>4. /\ SendOK(task[p], p[2], batches[p[1]]) /\ elapsed[p[2]] <= task[p].gap
          /\ task[p].at = "done" => Told(p)
      BY <2>1 DEF ForwardInv
    <3>5. task[p].at = "done" => Told(p)'
      BY <3>1, <3>3, <3>4 DEF Told
    <3>6. QED
      BY <1>1, <3>1, <3>3, <3>4, <3>5
  <2>2. CASE p \notin DOMAIN task
    <3>1. p \in {m + 1} \X configured
      BY <1>1, <1>6, <2>2
    <3>2. p[1] = m + 1 /\ p[2] \in configured
      BY <3>1
    <3> DEFINE plan == Plan(p[2], body)
               s == NewSend(plan)
    <3>3. task'[p] = s
      BY <1>1, <1>6, <2>2, <3>1
    <3>4. PlanCovers(plan, Whole(p[2], body), ChunkSize(p[2]))
      BY <1>2, <3>2, PlansCover
    <3>5. s \in Send /\ Progress(s, plan, Whole(p[2], body), ChunkSize(p[2]))
      BY <3>4, NewProgress
    <3>6. s.at = "throttle" /\ s.gap = MinInterval
      BY DEF NewSend
    <3> HIDE DEF s
    <3>7. SendOK(s, p[2], body)
      BY <3>5, <3>6 DEF SendOK
    <3>8. elapsed[p[2]] <= MinInterval
      <4>1. elapsed[p[2]] \in 0 .. MinInterval
        BY <1>2, <3>2
      <4>2. QED
        BY <4>1, ForwardAssumption
    <3>9. QED
      BY <1>1, <1>3, <3>2, <3>3, <3>6, <3>7, <3>8
  <2>3. QED
    BY <2>1, <2>2
<1>9. QED
  BY <1>1, <1>2, <1>3, <1>5, <1>7, <1>8 DEF ForwardInv

(* throttle: it returns, sleeps or lets the request go.                    *)
LEMMA ThrottleKeeps ==
  ASSUME ForwardInv, NEW p, Throttle(p)
  PROVE  ForwardInv'
<1> DEFINE t == task[p]
           f == p[2]
           n == batches[p[1]]
<1>1. /\ p \in DOMAIN task /\ t.at = "throttle" /\ UNCHANGED <<configured, batches>>
  BY DEF Throttle, At
<1>2. /\ t \in Send /\ Progress(t, Plan(f, n), Whole(f, n), ChunkSize(f))
      /\ elapsed[f] <= t.gap /\ elapsed[f] \in 0 .. MinInterval
      /\ PlanCovers(Plan(f, n), Whole(f, n), ChunkSize(f))
  BY <1>1, SendOf DEF ForwardInv, SendOK
<1>3. CASE t.todo = << >>
  <2>1. Return(p, t) /\ UNCHANGED elapsed
    BY <1>3 DEF Throttle
  <2>2. IF t.troubled THEN t.rejected > 0 ELSE t.accepted = Whole(f, n) /\ t.rejected = 0
    BY <1>2, <1>3, EndOfProgress
  <2>3. t.troubled \in BOOLEAN
    BY <1>2 DEF Send
  <2> HIDE DEF t
  <2>4. QED
    BY <1>1, <2>1, <2>2, <2>3, ReturnKeeps
<1>4. CASE t.todo # << >> /\ TooSoon(f)
  <2> DEFINE s == [t EXCEPT !.at = "sleep", !.sleep = MinInterval - elapsed[f]]
  <2>1. task' = [task EXCEPT ![p] = s] /\ UNCHANGED <<elapsed, results>>
    BY <1>4 DEF Throttle
  <2>2. MinInterval - elapsed[f] \in 0 .. MinInterval /\ t.gap \in 0 .. MinInterval
    <3> DEFINE waited == elapsed[f]
    <3>1. waited \in 0 .. MinInterval /\ MinInterval \in Nat
      BY <1>2, ForwardAssumption
    <3>2. t.gap \in 0 .. MinInterval
      BY <1>2 DEF Send
    <3> HIDE DEF waited
    <3>3. MinInterval - waited \in 0 .. MinInterval
      BY <3>1
    <3> QED
      BY <3>2, <3>3 DEF waited
  <2>3. /\ s \in Send /\ s.at = "sleep" /\ s.sleep = MinInterval - elapsed[f] /\ s.gap = t.gap
        /\ s.todo = t.todo /\ s.accepted = t.accepted /\ s.rejected = t.rejected
        /\ s.troubled = t.troubled
    BY <1>2, <2>2 DEF Send
  <2>4. s.sleep + s.gap >= MinInterval
    BY <1>2, <2>2, <2>3, ForwardAssumption
  <2> HIDE DEF s
  <2>5. SendOK(s, f, n)
    BY <1>2, <1>4, <2>3, <2>4, SameProgress DEF SendOK
  <2>6. QED
    BY <1>1, <2>1, <2>3, <2>5, GoesOnKeeps
<1>5. CASE t.todo # << >> /\ ~TooSoon(f)
  <2>1. Go(p)
    BY <1>5 DEF Throttle
  <2>2. QED
    BY <1>1, <1>5, <2>1, GoKeeps
<1>6. QED
  BY <1>3, <1>4, <1>5

(* The sleep is over.                                                      *)
LEMMA WakeKeeps ==
  ASSUME ForwardInv, NEW p, Wake(p)
  PROVE  ForwardInv'
<1>1. /\ p \in DOMAIN task /\ task[p].at = "sleep" /\ Go(p) /\ UNCHANGED <<configured, batches>>
  BY DEF Wake, At
<1>2. task[p].todo # << >>
  BY <1>1 DEF ForwardInv, SendOK
<1>3. QED
  BY <1>1, <1>2, GoKeeps

(* A send that has dealt with a request returns or throttles again.        *)
LEMMA ContinueKeeps ==
  ASSUME ForwardInv, NEW p \in DOMAIN task, NEW t, Continue(p, t),
         UNCHANGED <<configured, batches, elapsed>>,
         t \in Send, t.gap = task[p].gap,
         Progress(t, Plan(p[2], batches[p[1]]), Whole(p[2], batches[p[1]]), ChunkSize(p[2]))
  PROVE  ForwardInv'
<1>1. PlanCovers(Plan(p[2], batches[p[1]]), Whole(p[2], batches[p[1]]), ChunkSize(p[2]))
  BY SendOf
<1>2. CASE t.todo = << >>
  <2>1. Return(p, t)
    BY <1>2 DEF Continue
  <2>2. IF t.troubled THEN t.rejected > 0
        ELSE t.accepted = Whole(p[2], batches[p[1]]) /\ t.rejected = 0
    BY <1>1, <1>2, EndOfProgress
  <2>3. t.troubled \in BOOLEAN
    BY DEF Send
  <2>4. QED
    BY <2>1, <2>2, <2>3, ReturnKeeps
<1>3. CASE t.todo # << >>
  <2> DEFINE s == [t EXCEPT !.at = "throttle"]
  <2>1. task' = [task EXCEPT ![p] = s] /\ UNCHANGED results
    BY <1>3 DEF Continue
  <2>2. /\ s \in Send /\ s.at = "throttle" /\ s.gap = t.gap
        /\ s.todo = t.todo /\ s.accepted = t.accepted /\ s.rejected = t.rejected
        /\ s.troubled = t.troubled
    BY DEF Send
  <2> HIDE DEF s
  <2>3. SendOK(s, p[2], batches[p[1]])
    BY <2>2, SameProgress DEF SendOK
  <2>4. QED
    BY <2>1, <2>2, <2>3, GoesOnKeeps
<1>4. QED
  BY <1>2, <1>3

(* A request is answered, well, badly, with errors, or so that the send is *)
(* given up.                                                               *)
LEMMA AnswerKeeps ==
  ASSUME ForwardInv, NEW p, Answer(p)
  PROVE  ForwardInv'
<1> DEFINE t == task[p]
           n == batches[p[1]]
           w == Whole(p[2], n)
           plan == Plan(p[2], n)
           z == ChunkSize(p[2])
<1>1. /\ p \in DOMAIN task /\ t.at = "fetch" /\ UNCHANGED <<configured, batches, elapsed>>
  BY DEF Answer, At
<1>2. /\ t \in Send /\ Progress(t, plan, w, z) /\ t.todo # << >>
      /\ PlanCovers(plan, w, z) /\ w \in Nat /\ n \in Nat
      /\ p[2] = "datadog" /\ w # 0 => n # 0
  BY <1>1, SendOf DEF ForwardInv, SendOK
<1> HIDE DEF w, plan, z
<1>3. /\ w # 0 /\ Head(t.todo) \in Nat \ {0}
      /\ Accept(t) \in Send /\ Progress(Accept(t), plan, w, z)
      /\ \A k \in Nat \ {0} : Reject(t, k) \in Send /\ Progress(Reject(t, k), plan, w, z)
  BY <1>2, NextProgress
<1>4. Accept(t).gap = t.gap /\ \A k : Reject(t, k).gap = t.gap
  BY <1>2 DEF Accept, Reject, Send
<1>5. CASE AnswerGood(p)
  BY <1>1, <1>3, <1>4, <1>5, ContinueKeeps DEF AnswerGood, w, plan, z
<1>6. ASSUME NEW k \in Nat \ {0}, Continue(p, Reject(t, k))
      PROVE  ForwardInv'
  BY <1>1, <1>3, <1>4, <1>6, ContinueKeeps DEF w, plan, z
<1>7. CASE AnswerBad(p)
  BY <1>3, <1>6, <1>7 DEF AnswerBad
<1>8. CASE AnswerErrors(p)
  <2>1. PICK k \in 1 .. Head(t.todo) : Continue(p, Reject(t, k))
    BY <1>8 DEF AnswerErrors
  <2>2. k \in Nat \ {0}
    BY <1>3
  <2>3. QED
    BY <1>6, <2>1, <2>2
<1>9. CASE p[2] = "datadog" /\ Catch(p)
  <2> DEFINE s == [t EXCEPT !.accepted = 0, !.rejected = n, !.troubled = TRUE]
  <2>1. Return(p, s)
    BY <1>9 DEF Catch
  <2>2. s.troubled = TRUE /\ s.rejected = n
    BY <1>2 DEF Send
  <2>3. n > 0
    BY <1>2, <1>3, <1>9
  <2> HIDE DEF s
  <2>4. QED
    BY <1>1, <2>1, <2>2, <2>3, ReturnKeeps
<1>10. QED
  BY <1>5, <1>7, <1>8, <1>9 DEF Answer

(* The process leaves.                                                     *)
LEMMA ShutdownKeeps ==
  ASSUME ForwardInv, ShutdownAll
  PROVE  ForwardInv'
<1>1. /\ batches' = << >> /\ task' = << >> /\ results' = << >> /\ configured' = configured
      /\ elapsed' = [f \in configured |-> MinInterval]
  BY DEF ShutdownAll
<1>2. batches' \in Seq(Nat) /\ 1 .. Len(batches') = {} /\ DOMAIN task' = {} /\ DOMAIN results' = {}
  BY <1>1, EmptySeq
<1>3. (1 .. Len(batches')) \X configured' = {}
  BY <1>2
<1>4. elapsed' \in [configured' -> 0 .. MinInterval]
  BY <1>1, ForwardAssumption
<1>5. QED
  BY <1>1, <1>2, <1>3, <1>4 DEF ForwardInv

(* One tick more or less, within the bound.                                *)
LEMMA Ticks ==
  ASSUME NEW a \in 0 .. MinInterval
  PROVE  /\ Max({0, a - 1}) \in 0 .. MinInterval /\ Max({0, a - 1}) >= a - 1
         /\ Min({MinInterval, a + 1}) \in 0 .. MinInterval
         /\ Min({MinInterval, a + 1}) = IF a = MinInterval THEN MinInterval ELSE a + 1
<1>1. MinInterval \in Nat /\ a \in Nat /\ a <= MinInterval
  BY ForwardAssumption
<1>2. Max({0, a - 1}) = IF a = 0 THEN 0 ELSE a - 1
  BY <1>1 DEF Max
<1>3. Min({MinInterval, a + 1}) = IF a = MinInterval THEN MinInterval ELSE a + 1
  BY <1>1 DEF Min
<1>4. QED
  BY <1>1, <1>2, <1>3

(* Time passes for all sends alike.                                        *)
LEMMA ForwardTickKeeps ==
  ASSUME ForwardInv, ForwardTick
  PROVE  ForwardInv'
<1>1. /\ elapsed' = [f \in configured |-> Min({MinInterval, elapsed[f] + 1})]
      /\ task' = [p \in DOMAIN task |-> IF task[p].at = "done" THEN task[p] ELSE Later(task[p])]
      /\ UNCHANGED <<configured, batches, results>>
  BY DEF ForwardTick
<1>2. elapsed \in [configured -> 0 .. MinInterval] /\ MinInterval \in Nat
  BY ForwardAssumption DEF ForwardInv
<1>3. elapsed' \in [configured -> 0 .. MinInterval]
  BY <1>1, <1>2, Ticks
<1>4. ASSUME NEW p \in DOMAIN task
      PROVE  /\ SendOK(task'[p], p[2], batches[p[1]])
             /\ elapsed'[p[2]] <= task'[p].gap
             /\ task'[p].at = "done" => Told(p)'
  <2> DEFINE t == task[p]
             s == Later(t)
             f == p[2]
             a == elapsed[f]
  <2>1. /\ SendOK(t, f, batches[p[1]]) /\ a <= t.gap /\ f \in configured
        /\ t.at = "done" => Told(p)
    BY SendOf DEF ForwardInv
  <2>2. /\ t \in Send /\ a \in 0 .. MinInterval /\ t.gap \in 0 .. MinInterval
        /\ t.sleep \in 0 .. MinInterval
    BY <1>2, <2>1 DEF SendOK, Send
  <2>3. elapsed'[f] = Min({MinInterval, a + 1})
    BY <1>1, <2>1
  <2>4. CASE t.at = "done"
    <3>1. task'[p] = t
      BY <1>1, <2>4
    <3>2. t.gap \in 0 .. MinInterval /\ Told(p)'
      BY <1>1, <2>1, <2>2, <2>4, <3>1 DEF Told
    <3>3. t.gap = MinInterval
      BY <2>1, <2>4 DEF SendOK
    <3>4. elapsed'[f] <= MinInterval
      <4> HIDE DEF a
      <4>1. elapsed'[f] \in 0 .. MinInterval
        BY <2>2, <2>3, Ticks
      <4>2. QED
        BY <1>2, <4>1
    <3>5. QED
      BY <2>1, <3>1, <3>2, <3>3, <3>4
  <2>5. CASE t.at # "done"
    <3>1. task'[p] = s
      BY <1>1, <2>5
    <3>2. /\ s.at = t.at /\ s.todo = t.todo /\ s.accepted = t.accepted
          /\ s.rejected = t.rejected /\ s.troubled = t.troubled
          /\ s.sleep = Max({0, t.sleep - 1}) /\ s.gap = Min({MinInterval, t.gap + 1})
      BY <2>2 DEF Later, Send
    <3> DEFINE g == t.gap
               l == t.sleep
               lower == Max({0, l - 1})
               higher == Min({MinInterval, g + 1})
    <3>3. /\ lower \in 0 .. MinInterval /\ lower >= l - 1
          /\ higher \in 0 .. MinInterval
          /\ higher = IF g = MinInterval THEN MinInterval ELSE g + 1
          /\ elapsed'[f] = IF a = MinInterval THEN MinInterval ELSE a + 1
      BY <2>2, <2>3, Ticks
    <3>4. s \in Send
      <4>1. s = [t EXCEPT !.sleep = lower, !.gap = higher]
        BY DEF Later
      <4> HIDE DEF s, lower, higher
      <4>2. QED
        BY <2>2, <3>3, <4>1 DEF Send
    <3>5. /\ g \in 0 .. MinInterval /\ l \in 0 .. MinInterval /\ a <= g
          /\ (t.at = "sleep" => l + g >= MinInterval)
      BY <2>1, <2>2 DEF SendOK
    <3>6. s.sleep = lower /\ s.gap = higher
      BY <3>2
    <3> HIDE DEF s, lower, higher, g, l, a
    <3>7. elapsed'[f] <= higher /\ (t.at = "sleep" => lower + higher >= MinInterval)
      BY <1>2, <2>2, <3>3, <3>5
    <3>8. SendOK(s, f, batches[p[1]])
      BY <2>1, <2>5, <3>2, <3>4, <3>6, <3>7, SameProgress DEF SendOK
    <3>9. QED
      BY <2>5, <3>1, <3>2, <3>6, <3>7, <3>8
  <2>6. QED
    BY <2>4, <2>5
<1>5. DOMAIN task' = DOMAIN task
  BY <1>1
<1>6. QED
  BY <1>1, <1>3, <1>4, <1>5 DEF ForwardInv

(* Every step keeps the invariant.                                         *)
LEMMA ForwardNextInv == ForwardInv /\ [ForwardNext]_forwardVars => ForwardInv'
<1> SUFFICES ASSUME ForwardInv, [ForwardNext]_forwardVars PROVE ForwardInv'
  OBVIOUS
<1>1. ASSUME NEW body \in Bodies, PostBatch(body) PROVE ForwardInv'
  BY <1>1, PostKeeps
<1>2. ASSUME NEW p \in AllSends, Step(p) PROVE ForwardInv'
  BY <1>2, ThrottleKeeps, WakeKeeps, AnswerKeeps DEF Step
<1>3. CASE ShutdownAll
  BY <1>3, ShutdownKeeps
<1>4. CASE ForwardTick
  BY <1>4, ForwardTickKeeps
<1>5. CASE UNCHANGED forwardVars
  BY <1>5 DEF forwardVars, ForwardInv, Told
<1>6. QED
  BY <1>1, <1>2, <1>3, <1>4, <1>5 DEF ForwardNext

-----------------------------------------------------------------------------
(* What the invariant says of the forwarders.                              *)

(* However many batches are sent side by side, whatever the sizes of their *)
(* requests, and whatever the services answer: a result accepts the whole  *)
(* batch if every request was answered well, and rejects something if not. *)
THEOREM ResultsAreTrue == ForwardSpec => []ResultsTell
<1>1. ForwardInit => ForwardInv
  BY ForwardInitInv
<1>2. ForwardInv /\ [ForwardNext]_forwardVars => ForwardInv'
  BY ForwardNextInv
<1>3. ForwardInv => ResultsTell
  BY DEF ForwardInv, ResultsTell, Told
<1>4. QED
  BY <1>1, <1>2, <1>3, PTL DEF ForwardSpec

(* A step of a send changes that send alone, and a request goes out only   *)
(* when the send's last one is long enough ago.                            *)
LEMMA RequestsPaced ==
  ASSUME ForwardInv, NEW p, Step(p)
  PROVE  /\ p \in DOMAIN task /\ running' = running
         /\ \E s : /\ task' = [task EXCEPT ![p] = s]
                   /\ s.at = "fetch" => task[p].gap >= MinInterval
<1> DEFINE t == task[p]
           Paced == \E s : /\ task' = [task EXCEPT ![p] = s]
                           /\ s.at = "fetch" => t.gap >= MinInterval
<1>1. p \in DOMAIN task /\ running' = running
  BY DEF Step, Throttle, Wake, Answer, At
<1>2. /\ t \in Send /\ elapsed[p[2]] <= t.gap /\ p[2] \in configured
      /\ elapsed[p[2]] \in 0 .. MinInterval /\ t.gap \in 0 .. MinInterval
      /\ t.at = "sleep" => t.sleep + t.gap >= MinInterval
  <2>1. /\ SendOK(t, p[2], batches[p[1]]) /\ elapsed[p[2]] <= t.gap /\ p[2] \in configured
        /\ elapsed \in [configured -> 0 .. MinInterval]
    BY <1>1, SendOf DEF ForwardInv
  <2>2. QED
    BY <2>1 DEF SendOK, Send
<1> SUFFICES Paced
  BY <1>1
<1> HIDE DEF Paced
<1>3. ASSUME NEW u, Return(p, u) PROVE Paced
  <2> DEFINE s == [NewSend(<< >>) EXCEPT !.at = "done", !.troubled = u.troubled]
  <2>1. task' = [task EXCEPT ![p] = s]
    BY <1>3 DEF Return
  <2>2. s.at = "done"
    BY DEF NewSend
  <2> HIDE DEF s
  <2>3. QED
    BY <2>1, <2>2 DEF Paced
<1>4. ASSUME NEW u \in Send, Continue(p, u) PROVE Paced
  <2>1. CASE u.todo = << >>
    BY <1>3, <1>4, <2>1 DEF Continue
  <2>2. CASE u.todo # << >>
    <3> DEFINE s == [u EXCEPT !.at = "throttle"]
    <3>1. task' = [task EXCEPT ![p] = s]
      BY <1>4, <2>2 DEF Continue
    <3>2. s.at = "throttle"
      BY DEF Send
    <3> HIDE DEF s
    <3>3. QED
      BY <3>1, <3>2 DEF Paced
  <2>3. QED
    BY <2>1, <2>2
<1>5. ASSUME Go(p), t.gap >= MinInterval PROVE Paced
  BY <1>5 DEF Go, Paced
<1>6. CASE Throttle(p)
  <2>1. CASE t.todo = << >>
    BY <1>3, <1>6, <2>1 DEF Throttle
  <2>2. CASE t.todo # << >> /\ TooSoon(p[2])
    <3> DEFINE s == [t EXCEPT !.at = "sleep", !.sleep = MinInterval - elapsed[p[2]]]
    <3>1. task' = [task EXCEPT ![p] = s]
      BY <1>6, <2>2 DEF Throttle
    <3>2. s.at = "sleep"
      BY <1>2 DEF Send
    <3> HIDE DEF s
    <3>3. QED
      BY <3>1, <3>2 DEF Paced
  <2>3. CASE t.todo # << >> /\ ~TooSoon(p[2])
    <3>1. Go(p)
      BY <1>6, <2>3 DEF Throttle
    <3>2. t.gap >= MinInterval
      <4>1. ~(elapsed[p[2]] < MinInterval) /\ MinInterval \in Nat
        BY <2>3, ForwardAssumption DEF TooSoon
      <4>2. QED
        BY <1>2, <4>1
    <3>3. QED
      BY <1>5, <3>1, <3>2
  <2>4. QED
    BY <2>1, <2>2, <2>3
<1>7. CASE Wake(p)
  <2>1. t.at = "sleep" /\ t.sleep = 0 /\ Go(p)
    BY <1>7 DEF Wake, At
  <2>2. t.gap >= MinInterval
    BY <1>2, <2>1, ForwardAssumption
  <2>3. QED
    BY <1>5, <2>1, <2>2
<1>8. CASE Answer(p)
  <2> DEFINE n == batches[p[1]]
  <2>1. /\ t.at = "fetch" /\ SendOK(t, p[2], n) /\ Whole(p[2], n) \in Nat
        /\ PlanCovers(Plan(p[2], n), Whole(p[2], n), ChunkSize(p[2]))
    BY <1>1, <1>8, SendOf DEF Answer, At, ForwardInv
  <2>2. /\ Head(t.todo) \in Nat \ {0} /\ Accept(t) \in Send
        /\ \A k \in Nat \ {0} : Reject(t, k) \in Send
    <3>1. t.todo # << >> /\ Progress(t, Plan(p[2], n), Whole(p[2], n), ChunkSize(p[2]))
      BY <2>1 DEF SendOK
    <3>2. QED
      BY <1>2, <2>1, <3>1, NextProgress
  <2>3. CASE AnswerGood(p)
    BY <1>4, <2>2, <2>3 DEF AnswerGood
  <2>4. CASE AnswerBad(p)
    BY <1>4, <2>2, <2>4 DEF AnswerBad
  <2>5. CASE AnswerErrors(p)
    <3>1. PICK k \in 1 .. Head(t.todo) : Continue(p, Reject(t, k))
      BY <2>5 DEF AnswerErrors
    <3>2. k \in Nat \ {0}
      BY <2>2
    <3>3. QED
      BY <1>4, <2>2, <3>1, <3>2
  <2>6. CASE p[2] = "datadog" /\ Catch(p)
    BY <1>3, <2>6 DEF Catch
  <2>7. QED
    BY <1>8, <2>3, <2>4, <2>5, <2>6 DEF Answer
<1>9. QED
  BY <1>1, <1>6, <1>7, <1>8 DEF Step

(* Although throttle looks at a time that all sends of a forwarder share,  *)
(* the requests of one send are never closer than the interval.            *)
THEOREM RequestsOfASendPaced == ForwardSpec => PacedPerSend
<1> DEFINE Paced == \A p \in AllSends : ~At(p, "fetch") /\ At(p, "fetch")' =>
                      task[p].gap >= MinInterval
<1>1. ForwardInit => ForwardInv
  BY ForwardInitInv
<1>2. ForwardInv /\ [ForwardNext]_forwardVars => ForwardInv'
  BY ForwardNextInv
<1>3. ForwardInv /\ [ForwardNext]_forwardVars => [Paced]_forwardVars
  <2> SUFFICES ASSUME ForwardInv, ForwardNext, NEW p \in AllSends,
                      ~At(p, "fetch"), At(p, "fetch")'
               PROVE  task[p].gap >= MinInterval
    OBVIOUS
  <2>1. running' /\ p \in DOMAIN task' /\ task'[p].at = "fetch"
    BY DEF At
  <2>2. ASSUME p \in DOMAIN task, task'[p] = task[p], running' = running
        PROVE  FALSE
    BY <2>1, <2>2 DEF At
  <2>3. ASSUME NEW body \in Bodies, PostBatch(body) PROVE task[p].gap >= MinInterval
    <3>1. /\ p \notin DOMAIN task => task'[p] = NewSend(Plan(p[2], body))
          /\ p \in DOMAIN task => task'[p] = task[p]
          /\ running' = running
      BY <2>1, <2>3 DEF PostBatch
    <3>2. NewSend(Plan(p[2], body)).at = "throttle"
      BY DEF NewSend
    <3>3. QED
      BY <2>1, <2>2, <3>1, <3>2
  <2>4. ASSUME NEW q \in AllSends, Step(q) PROVE task[p].gap >= MinInterval
    <3>1. PICK s : /\ task' = [task EXCEPT ![q] = s]
                   /\ s.at = "fetch" => task[q].gap >= MinInterval
      BY <2>4, RequestsPaced
    <3>2. q \in DOMAIN task /\ running' = running /\ DOMAIN task' = DOMAIN task
      BY <2>4, <3>1, RequestsPaced
    <3>3. CASE p = q
      BY <2>1, <3>1, <3>2, <3>3
    <3>4. CASE p # q
      BY <2>1, <2>2, <3>1, <3>2, <3>4
    <3>5. QED
      BY <3>3, <3>4
  <2>5. ~ShutdownAll
    BY <2>1 DEF ShutdownAll
  <2>6. ASSUME ForwardTick PROVE FALSE
    <3>1. /\ p \in DOMAIN task /\ running' = running
          /\ task'[p] = IF task[p].at = "done" THEN task[p] ELSE Later(task[p])
      BY <2>1, <2>6 DEF ForwardTick
    <3>2. task[p] \in Send
      BY <3>1 DEF ForwardInv, SendOK
    <3>3. Later(task[p]).at = task[p].at
      BY <3>2 DEF Later, Send
    <3>4. QED
      BY <2>1, <3>1, <3>3 DEF At
  <2>7. QED
    BY <2>3, <2>4, <2>5, <2>6 DEF ForwardNext
<1>4. QED
  BY <1>1, <1>2, <1>3, PTL DEF ForwardSpec, PacedPerSend

-----------------------------------------------------------------------------
(* The alert engine, for every sequence of rules and every set of services.*)
-----------------------------------------------------------------------------

(* A rule of this kind counts one evaluation, as the default rule does.    *)
Single(r) == r.type = "service_disappeared" => r.firings = 1 /\ r.clears = 1
SingleCount == \A i \in RuleIds : Single(Rules[i])

RuleRecords == [type : RuleTypes, perService : BOOLEAN,
                firings : Nat \ {0}, clears : Nat \ {0}]
Runs(r) == [breach : 0 .. r.firings, clear : 0 .. r.clears]

Follows(st, run, r) ==
  /\ st.status = "ok" => run.breach < r.firings
  /\ st.status = "firing" => run.clear < r.clears

(* A transition from st to st2 comes at the end of its run.                *)
Ends(st, st2, run2, r) ==
  /\ st.status = "ok" /\ st2.status = "firing" => run2.breach = r.firings
  /\ st.status = "firing" /\ st2.status = "ok" => run2.clear = r.clears

(* The state of a rule that counts evaluations carries the run itself.     *)
CountsRun(st, run, r) ==
  /\ st \in AlertStates(r) /\ run \in Runs(r)
  /\ st.breaches = run.breach /\ st.clears = run.clear
  /\ Follows(st, run, r)

(* The state of a service last seen "ago" intervals before.                *)
Watched(st, run, t, ago) ==
  /\ st.status = "ok" => run.breach = 0
  /\ st.status = "firing" => run.clear = 0 /\ t \in Services /\ ago = GoneAfter

Idle(st, run) == st.status = "ok" /\ run.breach = 0

Linked(i, t, st, run, ago) ==
  /\ st \in AlertStates(Rules[i]) /\ run \in Runs(Rules[i])
  /\ Rules[i].type \in {"threshold", "rate_drop"} => CountsRun(st, run, Rules[i])
  /\ Rules[i].type = "service_disappeared" /\ Single(Rules[i]) => Watched(st, run, t, ago)
  /\ Rules[i].type = "new_service" => Idle(st, run)

StreakAfter(i, t, new) ==
  IF Evaluated(i, t, new)
  THEN Lengthen(streak[<<i, t>>], Rules[i], Breached(i, t, new))
  ELSE streak[<<i, t>>]

(* What one evaluation keeps of one rule and target.                       *)
StepKeeps(i, t, new) ==
  /\ Linked(i, t, AlertAfter(i, t, new), StreakAfter(i, t, new), lastSeen'[t])
  /\ Single(Rules[i]) =>
       Ends(alerts[<<i, t>>], AlertAfter(i, t, new), StreakAfter(i, t, new), Rules[i])

AllLinked == \A i \in RuleIds, t \in Targets :
               Linked(i, t, alerts[<<i, t>>], streak[<<i, t>>], lastSeen[t])

Shape ==
  /\ prevRates \in [Services -> Rates \cup {None}]
  /\ seen \subseteq Services
  /\ lastSeen \in [Services -> 0 .. GoneAfter \cup {None}]
  /\ snap \in Snapshots
  /\ announced \in [Services -> 0 .. 2]

AInv == Shape /\ AllLinked

-----------------------------------------------------------------------------
LEMMA RuleType ==
  ASSUME NEW i \in RuleIds
  PROVE  Rules[i] \in RuleRecords
<1>1. Rules \in Seq(RuleRecords)
  BY AlertAssumption DEF RuleRecords
<1> QED
  BY <1>1 DEF RuleIds

LEMMA Counting ==
  ASSUME NEW r \in RuleRecords, NEW st, NEW run, NEW b, CountsRun(st, run, r)
  PROVE  /\ CountsRun(EvaluateRule(st, r, b), Lengthen(run, r, b), r)
         /\ Ends(st, EvaluateRule(st, r, b), Lengthen(run, r, b), r)
<1> DEFINE f == r.firings
           c == r.clears
           m == CountBreach(st, r, b)
           run2 == Lengthen(run, r, b)
<1>1. f \in Nat \ {0} /\ c \in Nat \ {0}
  BY DEF RuleRecords
<1>2. /\ st.status \in {"ok", "firing"} /\ st.breaches \in 0 .. f /\ st.clears \in 0 .. c
      /\ st = [status |-> st.status, breaches |-> st.breaches, clears |-> st.clears]
      /\ run.breach = st.breaches /\ run.clear = st.clears
      /\ st.status = "ok" => st.breaches < f
      /\ st.status = "firing" => st.clears < c
  BY DEF CountsRun, AlertStates, Follows
<1> DEFINE B == IF b THEN UpTo(st.breaches + 1, f) ELSE 0
           C == IF b THEN 0 ELSE UpTo(st.clears + 1, c)
<1>3. m = [status |-> st.status, breaches |-> B, clears |-> C]
  <2>1. m = [[st EXCEPT !.breaches = B] EXCEPT !.clears = C]
    BY DEF CountBreach
  <2> HIDE DEF B, C, m
  <2>2. [st EXCEPT !.breaches = B] = [status |-> st.status, breaches |-> B, clears |-> st.clears]
    BY <1>2
  <2> QED
    BY <2>1, <2>2
<1>4. run2 = [breach |-> B, clear |-> C]
  BY <1>2 DEF Lengthen
<1>5. /\ B \in 0 .. f /\ C \in 0 .. c
      /\ B = f \/ B < f
      /\ st.status = "ok" /\ B < f => C <= c
      /\ B > 0 => C = 0 
      /\ C > 0 => B = 0
      /\ C >= c => C = c
      /\ B >= f => B = f
  BY <1>1, <1>2 DEF UpTo
<1> HIDE DEF B, C, f, c, m, run2
<1>6. CountsRun(Settle(m, r), run2, r) /\ Ends(st, Settle(m, r), run2, r)
  <2>1. CASE st.status = "ok" /\ B >= f
    <3>1. Settle(m, r) = [status |-> "firing", breaches |-> B, clears |-> C]
      BY <1>3, <2>1 DEF Settle, f
    <3>2. B = f /\ C = 0 /\ 0 < c
      BY <1>1, <1>5, <2>1
    <3> QED
      BY <1>1, <1>4, <1>5, <2>1, <3>1, <3>2
      DEF CountsRun, AlertStates, Runs, Follows, Ends, f, c
  <2>2. CASE st.status = "ok" /\ ~(B >= f)
    <3>1. Settle(m, r) = [status |-> "ok", breaches |-> B, clears |-> C]
      BY <1>3, <2>2 DEF Settle, f
    <3>2. B < f
      BY <1>1, <1>5, <2>2
    <3> QED
      BY <1>1, <1>4, <1>5, <2>2, <3>1, <3>2
      DEF CountsRun, AlertStates, Runs, Follows, Ends, f, c
  <2>3. CASE st.status = "firing" /\ C >= c
    <3>1. Settle(m, r) = [status |-> "ok", breaches |-> B, clears |-> C]
      BY <1>3, <2>3 DEF Settle, c
    <3>2. C = c /\ B = 0 /\ 0 < f
      BY <1>1, <1>5, <2>3
    <3> QED
      BY <1>1, <1>4, <1>5, <2>3, <3>1, <3>2
      DEF CountsRun, AlertStates, Runs, Follows, Ends, f, c
  <2>4. CASE st.status = "firing" /\ ~(C >= c)
    <3>1. Settle(m, r) = [status |-> "firing", breaches |-> B, clears |-> C]
      BY <1>3, <2>4 DEF Settle, c
    <3>2. C < c
      BY <1>1, <1>5, <2>4
    <3> QED
      BY <1>1, <1>4, <1>5, <2>4, <3>1, <3>2
      DEF CountsRun, AlertStates, Runs, Follows, Ends, f, c
  <2> QED
    BY <1>2, <2>1, <2>2, <2>3, <2>4
<1> QED
  BY <1>6 DEF EvaluateRule, m, run2

LEMMA Typed ==
  ASSUME NEW r \in RuleRecords, NEW st \in AlertStates(r), NEW run \in Runs(r), NEW b
  PROVE  EvaluateRule(st, r, b) \in AlertStates(r) /\ Lengthen(run, r, b) \in Runs(r)
<1> DEFINE f == r.firings
           c == r.clears
           B == IF b THEN UpTo(st.breaches + 1, f) ELSE 0
           C == IF b THEN 0 ELSE UpTo(st.clears + 1, c)
           m == CountBreach(st, r, b)
<1>1. f \in Nat \ {0} /\ c \in Nat \ {0}
  BY DEF RuleRecords
<1>2. /\ st.breaches \in 0 .. f /\ st.clears \in 0 .. c
      /\ run.breach \in 0 .. f /\ run.clear \in 0 .. c
  BY DEF AlertStates, Runs
<1>3. Lengthen(run, r, b) \in Runs(r)
  BY <1>1, <1>2 DEF Lengthen, Runs, UpTo
<1>4. B \in 0 .. f /\ C \in 0 .. c
  BY <1>1, <1>2 DEF UpTo
<1>5. m = [[st EXCEPT !.breaches = B] EXCEPT !.clears = C]
  BY DEF CountBreach
<1> HIDE DEF B, C, m
<1>6. m \in AlertStates(r)
  BY <1>4, <1>5 DEF AlertStates
<1>7. Settle(m, r) \in AlertStates(r)
  BY <1>6 DEF Settle, AlertStates
<1> QED
  BY <1>3, <1>7 DEF EvaluateRule, m

LEMMA Staying ==
  ASSUME NEW r \in RuleRecords, NEW st, NEW run, CountsRun(st, run, r)
  PROVE  Ends(st, st, run, r)
BY DEF Ends, CountsRun, AlertStates

-----------------------------------------------------------------------------
(* One evaluation of one rule and target, rule type by rule type.          *)

LEMMA ThresholdKeeps ==
  ASSUME AInv, NEW i \in RuleIds, NEW t \in Targets, NEW new \in Snapshots,
         Rules[i].type = "threshold"
  PROVE  StepKeeps(i, t, new)
<1> DEFINE r == Rules[i]
           st == alerts[<<i, t>>]
           run == streak[<<i, t>>]
           st2 == AlertAfter(i, t, new)
           run2 == StreakAfter(i, t, new)
<1>1. r \in RuleRecords /\ CountsRun(st, run, r)
  BY RuleType DEF AInv, AllLinked, Linked
<1>2. SUFFICES CountsRun(st2, run2, r) /\ Ends(st, st2, run2, r)
  BY DEF StepKeeps, Linked, CountsRun
<1> HIDE DEF st2, run2
<1>3. CASE Evaluated(i, t, new)
  <2>1. /\ st2 = EvaluateRule(st, r, Breached(i, t, new))
        /\ run2 = Lengthen(run, r, Breached(i, t, new))
    BY <1>3 DEF st2, run2, AlertAfter, StreakAfter, Evaluated, Breached, Threshold
  <2> QED
    BY <1>1, <2>1, Counting
<1>4. CASE ~Evaluated(i, t, new)
  <2>1. st2 = st /\ run2 = run
    BY <1>4 DEF st2, run2, AlertAfter, StreakAfter, Evaluated, Threshold
  <2> QED
    BY <1>1, <2>1, Staying
<1> QED
  BY <1>3, <1>4

LEMMA RateDropKeeps ==
  ASSUME AInv, NEW i \in RuleIds, NEW t \in Targets, NEW new \in Snapshots,
         Rules[i].type = "rate_drop"
  PROVE  StepKeeps(i, t, new)
<1> DEFINE r == Rules[i]
           st == alerts[<<i, t>>]
           run == streak[<<i, t>>]
           st2 == AlertAfter(i, t, new)
           run2 == StreakAfter(i, t, new)
<1>1. r \in RuleRecords /\ CountsRun(st, run, r)
  BY RuleType DEF AInv, AllLinked, Linked
<1>2. SUFFICES CountsRun(st2, run2, r) /\ Ends(st, st2, run2, r)
  BY DEF StepKeeps, Linked, CountsRun
<1> HIDE DEF st2, run2
<1>3. CASE Evaluated(i, t, new)
  <2>1. /\ st2 = EvaluateRule(st, r, Breached(i, t, new))
        /\ run2 = Lengthen(run, r, Breached(i, t, new))
    BY <1>3 DEF st2, run2, AlertAfter, StreakAfter, Evaluated, Breached, RateDrop
  <2> QED
    BY <1>1, <2>1, Counting
<1>4. CASE ~Evaluated(i, t, new)
  <2>1. st2 = st /\ run2 = run
    BY <1>4 DEF st2, run2, AlertAfter, StreakAfter, Evaluated, RateDrop
  <2> QED
    BY <1>1, <2>1, Staying
<1> QED
  BY <1>3, <1>4

LEMMA NewServiceKeeps ==
  ASSUME AInv, NEW i \in RuleIds, NEW t \in Targets, NEW new \in Snapshots,
         Rules[i].type = "new_service"
  PROVE  StepKeeps(i, t, new)
<1>1. Linked(i, t, alerts[<<i, t>>], streak[<<i, t>>], lastSeen[t])
  BY DEF AInv, AllLinked
<1>2. AlertAfter(i, t, new) = alerts[<<i, t>>] /\ StreakAfter(i, t, new) = streak[<<i, t>>]
  BY DEF AlertAfter, StreakAfter, Evaluated
<1> QED
  BY <1>1, <1>2 DEF StepKeeps, Linked, Idle, Ends

LEMMA DisappearedTyped ==
  ASSUME AInv, NEW i \in RuleIds, NEW t \in Targets, NEW new \in Snapshots,
         Rules[i].type = "service_disappeared"
  PROVE  AlertAfter(i, t, new) \in AlertStates(Rules[i]) /\ StreakAfter(i, t, new) \in Runs(Rules[i])
<1> DEFINE r == Rules[i]
           st == alerts[<<i, t>>]
           run == streak[<<i, t>>]
<1>1. r \in RuleRecords /\ st \in AlertStates(r) /\ run \in Runs(r)
  BY RuleType DEF AInv, AllLinked, Linked
<1>2. StreakAfter(i, t, new) \in Runs(r)
  BY <1>1, Typed DEF StreakAfter
<1>3. AlertAfter(i, t, new) \in {st, [st EXCEPT !.status = "ok"], EvaluateRule(st, r, TRUE)}
  BY DEF AlertAfter, ServiceDisappeared, EvaluateRule
<1>4. [st EXCEPT !.status = "ok"] \in AlertStates(r)
  BY <1>1 DEF AlertStates
<1>5. EvaluateRule(st, r, TRUE) \in AlertStates(r)
  BY <1>1, Typed
<1> HIDE DEF st, r
<1> QED
  BY <1>1, <1>2, <1>3, <1>4, <1>5 DEF r

LEMMA DisappearedKeeps ==
  ASSUME AInv, NEW i \in RuleIds, NEW t \in Targets, NEW new \in Snapshots,
         Single(Rules[i]), TrackServices(new), Rules[i].type = "service_disappeared"
  PROVE  StepKeeps(i, t, new)
<1> DEFINE r == Rules[i]
           st == alerts[<<i, t>>]
           run == streak[<<i, t>>]
           st2 == AlertAfter(i, t, new)
           run2 == StreakAfter(i, t, new)
           gone == GoneLong(t, new)
<1>1. r \in RuleRecords /\ r.firings = 1 /\ r.clears = 1
  BY RuleType DEF Single
<1>2. st \in AlertStates(r) /\ run \in Runs(r) /\ Watched(st, run, t, lastSeen[t])
  BY DEF AInv, AllLinked, Linked
<1>3. /\ st = [status |-> st.status, breaches |-> st.breaches, clears |-> st.clears]
      /\ st.status \in {"ok", "firing"} /\ st.breaches \in 0 .. 1 /\ st.clears \in 0 .. 1
      /\ run.breach \in 0 .. 1 /\ run.clear \in 0 .. 1
  BY <1>1, <1>2 DEF Watched, AlertStates, Runs
<1>4. SUFFICES Watched(st2, run2, t, lastSeen'[t]) /\ Ends(st, st2, run2, r)
  BY DisappearedTyped DEF StepKeeps, Linked
<1>5. st2 = ServiceDisappeared(i, t, new)
  BY DEF AlertAfter
<1>6. /\ Evaluated(i, t, new) <=> (t # Global /\ lastSeen[t] # None)
      /\ Breached(i, t, new) = gone
  BY DEF Evaluated, Breached
<1> HIDE DEF st2, run2, gone
<1>7. CASE t = Global \/ lastSeen[t] = None
  <2>1. st2 = st /\ run2 = run
    BY <1>5, <1>6, <1>7 DEF run2, ServiceDisappeared, StreakAfter
  <2>2. st.status = "ok"
    BY <1>2, <1>3, <1>7, AlertAssumption DEF Watched
  <2> QED
    BY <1>1, <1>2, <2>1, <2>2 DEF Watched, Ends
<1>8. CASE t # Global /\ lastSeen[t] # None
  <2>1. run2 = Lengthen(run, r, gone)
    BY <1>6, <1>8 DEF run2, StreakAfter
  <2>2. t \in Services /\ lastSeen[t] \in 0 .. GoneAfter
    BY <1>8 DEF Targets, AInv, Shape
  <2>3. Elapsed(t) \in 0 .. GoneAfter /\ (Elapsed(t) >= GoneAfter => Elapsed(t) = GoneAfter)
        /\ (lastSeen[t] = GoneAfter => Elapsed(t) = GoneAfter)
    <3> DEFINE l == lastSeen[t]
    <3> HIDE DEF l
    <3>1. l \in 0 .. GoneAfter
      BY <2>2 DEF l
    <3>2. Elapsed(t) = UpTo(l + 1, GoneAfter)
      BY DEF Elapsed, l
    <3> QED
      BY <3>1, <3>2, AlertAssumption DEF UpTo, l
  <2>4. CASE t \in DOMAIN new
    <3>1. ~gone
      BY <2>4 DEF gone, GoneLong
    <3>2. run2 = [breach |-> 0, clear |-> 1]
      BY <1>1, <1>3, <2>1, <3>1 DEF Lengthen, UpTo
    <3>3. st2 = [status |-> "ok", breaches |-> st.breaches, clears |-> st.clears]
      BY <1>3, <1>5, <1>8, <2>4 DEF ServiceDisappeared
    <3> QED
      BY <1>1, <1>3, <3>2, <3>3 DEF Watched, Ends, AlertStates, Runs
  <2>5. CASE t \notin DOMAIN new /\ gone
    <3>1. lastSeen'[t] = Elapsed(t) /\ Elapsed(t) >= GoneAfter
      BY <1>8, <2>2, <2>5 DEF TrackServices, GoneLong, gone
    <3>2. lastSeen'[t] = GoneAfter
      BY <2>3, <3>1
    <3>3. run2 = [breach |-> 1, clear |-> 0]
      BY <1>1, <1>3, <2>1, <2>5 DEF Lengthen, UpTo
    <3>4. CASE st.status = "firing"
      <4>1. st2 = st
        BY <1>5, <1>8, <2>5, <3>4 DEF ServiceDisappeared
      <4> QED
        BY <1>1, <1>2, <2>2, <3>2, <3>3, <3>4, <4>1 DEF Watched, Ends, Runs
    <3>5. CASE st.status = "ok"
      <4> DEFINE m == CountBreach(st, r, TRUE)
      <4>1. m = [status |-> "ok", breaches |-> 1, clears |-> 0]
        <5> DEFINE B == UpTo(st.breaches + 1, r.firings)
        <5>1. B = 1
          BY <1>1, <1>3 DEF UpTo
        <5>2. m = [[st EXCEPT !.breaches = B] EXCEPT !.clears = 0]
          BY DEF CountBreach
        <5> HIDE DEF B, m
        <5>3. [st EXCEPT !.breaches = B] = [status |-> st.status, breaches |-> B, clears |-> st.clears]
          BY <1>3
        <5> QED
          BY <3>5, <5>1, <5>2, <5>3
      <4>2. st2 = Settle(m, r)
        BY <1>5, <1>8, <2>5, <3>5 DEF ServiceDisappeared, gone
      <4>3. st2 = [status |-> "firing", breaches |-> 1, clears |-> 0]
        <5> HIDE DEF m
        <5> QED
          BY <1>1, <4>1, <4>2 DEF Settle
      <4> QED
        BY <1>1, <2>2, <3>2, <3>3, <3>5, <4>3 DEF Watched, Ends, AlertStates, Runs
    <3> QED
      BY <1>3, <3>4, <3>5
  <2>6. CASE t \notin DOMAIN new /\ ~gone
    <3>1. ~(Elapsed(t) >= GoneAfter)
      BY <1>8, <2>6 DEF gone, GoneLong
    <3>2. st.status = "ok"
      BY <1>2, <1>3, <2>3, <3>1, AlertAssumption DEF Watched
    <3>3. run2 = [breach |-> 0, clear |-> 1]
      BY <1>1, <1>3, <2>1, <2>6 DEF Lengthen, UpTo
    <3>4. st2 = st
      BY <1>5, <1>8, <2>6, <3>2 DEF ServiceDisappeared, gone
    <3> QED
      BY <1>1, <1>2, <3>2, <3>3, <3>4 DEF Watched, Ends, Runs
  <2> QED
    BY <2>4, <2>5, <2>6
<1> QED
  BY <1>7, <1>8

LEMMA EveryRuleKeeps ==
  ASSUME AInv, NEW i \in RuleIds, NEW t \in Targets, NEW new \in Snapshots,
         TrackServices(new)
  PROVE  StepKeeps(i, t, new)
<1>1. Rules[i].type \in RuleTypes
  BY RuleType DEF RuleRecords
<1>2. CASE Rules[i].type = "service_disappeared" /\ ~Single(Rules[i])
  BY <1>2, DisappearedTyped DEF StepKeeps, Linked
<1> QED
  BY <1>1, <1>2, ThresholdKeeps, RateDropKeeps, NewServiceKeeps, DisappearedKeeps DEF RuleTypes

-----------------------------------------------------------------------------
(* The invariant and what it means.                                        *)

LEMMA AInitInv == Init => AInv
<1> SUFFICES ASSUME Init PROVE AInv
  OBVIOUS
<1>1. snap \in Snapshots
  <2>1. << >> \in [{} -> Signals]
    OBVIOUS
  <2> QED
    BY <2>1 DEF Init, Snapshots
<1>2. Shape
  BY <1>1 DEF Init, Shape
<1>3. ASSUME NEW i \in RuleIds, NEW t \in Targets
      PROVE  Linked(i, t, alerts[<<i, t>>], streak[<<i, t>>], lastSeen[t])
  <2> DEFINE r == Rules[i]
             zero == [breach |-> 0, clear |-> 0]
  <2>1. alerts[<<i, t>>] = Ok /\ streak[<<i, t>>] = zero
    BY DEF Init
  <2>2. r \in RuleRecords
    BY RuleType
  <2>3. r.firings \in Nat \ {0} /\ r.clears \in Nat \ {0}
    BY <2>2 DEF RuleRecords
  <2>4. 0 \in 0 .. r.firings /\ 0 \in 0 .. r.clears /\ 0 < r.firings /\ 0 < r.clears
    BY <2>3
  <2> HIDE DEF r
  <2>5. Ok \in AlertStates(r) /\ zero \in Runs(r) /\ Follows(Ok, zero, r)
    BY <2>4 DEF Ok, AlertStates, Runs, Follows
  <2>6. CountsRun(Ok, zero, r) /\ Watched(Ok, zero, t, lastSeen[t]) /\ Idle(Ok, zero)
    BY <2>5 DEF CountsRun, Watched, Idle, Ok
  <2> QED
    BY <2>1, <2>5, <2>6 DEF Linked, r
<1> QED
  BY <1>2, <1>3 DEF AInv, AllLinked

LEMMA ElapsedType ==
  ASSUME NEW s \in Services, lastSeen[s] \in 0 .. GoneAfter
  PROVE  Elapsed(s) \in 0 .. GoneAfter /\ (lastSeen[s] = GoneAfter => Elapsed(s) = GoneAfter)
<1> DEFINE l == lastSeen[s]
<1> HIDE DEF l
<1>1. l \in 0 .. GoneAfter /\ Elapsed(s) = UpTo(l + 1, GoneAfter)
  BY DEF Elapsed, l
<1> QED
  BY <1>1, AlertAssumption DEF UpTo, l

LEMMA AnnouncingFinite ==
  ASSUME NEW s, NEW new
  PROVE  Cardinality(Announcing(s, new)) \in Nat
<1>1. Len(Rules) \in Nat
  BY AlertAssumption
<1>2. IsFiniteSet(RuleIds)
  BY <1>1, FS_Interval DEF RuleIds
<1>3. Announcing(s, new) \subseteq RuleIds
  BY DEF Announcing
<1> QED
  BY <1>2, <1>3, FS_Subset, FS_CardinalityType

LEMMA EvaluateShape ==
  ASSUME Shape, NEW new \in Snapshots, Evaluate(new)
  PROVE  Shape'
<1>1. PICK S \in SUBSET Services : new \in [S -> Signals]
  BY DEF Snapshots
<1>2. DOMAIN new = S /\ \A s \in S : new[s].rate \in Rates
  BY <1>1 DEF Signals
<1>3. seen' \subseteq Services
  BY <1>2 DEF Evaluate, TrackServices, Shape
<1>4. prevRates' \in [Services -> Rates \cup {None}]
  BY <1>2 DEF Evaluate, TrackServices, Shape
<1>5. lastSeen' \in [Services -> 0 .. GoneAfter \cup {None}]
  <2>1. ASSUME NEW s \in Services
        PROVE  (IF s \in DOMAIN new THEN 0
                ELSE IF lastSeen[s] = None THEN None ELSE Elapsed(s)) \in 0 .. GoneAfter \cup {None}
    BY ElapsedType, AlertAssumption DEF Shape
  <2> QED
    BY <2>1 DEF Evaluate, TrackServices
<1>6. announced' \in [Services -> 0 .. 2]
  <2>1. ASSUME NEW n \in 0 .. 2, NEW k \in Nat
        PROVE  UpTo(n + k, 2) \in 0 .. 2
    BY DEF UpTo
  <2>2. \A s \in Services : announced[s] \in 0 .. 2
    BY DEF Shape
  <2> DEFINE more(s) == Cardinality(Announcing(s, new))
  <2>3. announced' = [s \in Services |-> UpTo(announced[s] + more(s), 2)]
    BY DEF Evaluate
  <2>4. \A s \in Services : more(s) \in Nat
    BY AnnouncingFinite
  <2> HIDE DEF more
  <2>5. \A s \in Services : UpTo(announced[s] + more(s), 2) \in 0 .. 2
    BY <2>1, <2>2, <2>4
  <2> QED
    BY <2>3, <2>5
<1>7. snap' \in Snapshots
  BY DEF Evaluate
<1> QED
  BY <1>3, <1>4, <1>5, <1>6, <1>7 DEF Shape

LEMMA AfterEvaluate ==
  ASSUME NEW new, Evaluate(new), NEW i \in RuleIds, NEW t \in Targets
  PROVE  alerts'[<<i, t>>] = AlertAfter(i, t, new) /\ streak'[<<i, t>>] = StreakAfter(i, t, new)
<1> DEFINE k == <<i, t>>
<1>1. k \in RuleIds \X Targets /\ k[1] = i /\ k[2] = t
  OBVIOUS
<1>2. alerts'[k] = AlertAfter(k[1], k[2], new)
  BY <1>1 DEF Evaluate
<1>3. streak'[k] = IF Evaluated(k[1], k[2], new)
                   THEN Lengthen(streak[k], Rules[k[1]], Breached(k[1], k[2], new))
                   ELSE streak[k]
  BY <1>1 DEF Evaluate
<1> QED
  BY <1>1, <1>2, <1>3 DEF StreakAfter

LEMMA EvaluateKeeps ==
  ASSUME AInv, NEW new \in Snapshots, Evaluate(new)
  PROVE  AInv'
<1>1. Shape'
  BY EvaluateShape DEF AInv
<1>2. ASSUME NEW i \in RuleIds, NEW t \in Targets
      PROVE  Linked(i, t, alerts'[<<i, t>>], streak'[<<i, t>>], lastSeen'[t])
  <2>1. StepKeeps(i, t, new)
    BY EveryRuleKeeps DEF Evaluate
  <2> QED
    BY <2>1, AfterEvaluate DEF StepKeeps
<1>3. AllLinked'
  BY <1>2 DEF AllLinked, RuleIds, Targets, Linked, CountsRun, Single, Watched, Idle, Follows, AlertStates, Runs
<1> QED
  BY <1>1, <1>3 DEF AInv

LEMMA NoSnapshotKeeps ==
  ASSUME AInv, NoSnapshot
  PROVE  AInv'
<1>1. Shape'
  <2>1. \A s \in Services : (IF lastSeen[s] = None THEN None ELSE Elapsed(s)) \in 0 .. GoneAfter \cup {None}
    BY ElapsedType DEF AInv, Shape
  <2> QED
    BY <2>1 DEF AInv, Shape, NoSnapshot
<1>2. ASSUME NEW i \in RuleIds, NEW t \in Targets
      PROVE  Linked(i, t, alerts'[<<i, t>>], streak'[<<i, t>>], lastSeen'[t])
  <2>1. Linked(i, t, alerts[<<i, t>>], streak[<<i, t>>], lastSeen[t])
    BY DEF AInv, AllLinked
  <2>2. t \in Services /\ lastSeen[t] = GoneAfter => lastSeen'[t] = GoneAfter
    BY ElapsedType, AlertAssumption DEF NoSnapshot
  <2> QED
    BY <2>1, <2>2 DEF NoSnapshot, Linked, Watched
<1>3. AllLinked'
  BY <1>2 DEF AllLinked, RuleIds, Targets, Linked, CountsRun, Single, Watched, Idle, Follows, AlertStates, Runs
<1> QED
  BY <1>1, <1>3 DEF AInv

LEMMA StutterKeeps == AInv /\ UNCHANGED vars => AInv'
BY DEF AInv, Shape, AllLinked, Linked, CountsRun, Single, Watched, Idle, Follows, AlertStates, Runs,
       RuleIds, Targets, Signals, Snapshots, vars

LEMMA ANextInv == AInv /\ [Next]_vars => AInv'
<1> SUFFICES ASSUME AInv, [Next]_vars PROVE AInv'
  OBVIOUS
<1>1. ASSUME NEW new \in Snapshots, Evaluate(new) PROVE AInv'
  BY <1>1, EvaluateKeeps
<1>2. CASE NoSnapshot
  BY <1>2, NoSnapshotKeeps
<1>3. CASE UNCHANGED vars
  BY <1>3, StutterKeeps
<1> QED
  BY <1>1, <1>2, <1>3 DEF Next

-----------------------------------------------------------------------------
(* A service is announced when it enters the set of services seen.         *)

AnnounceInv ==
  (\E i \in RuleIds : Rules[i].type = "new_service") =>
    /\ \A s \in Services : announced[s] = IF s \in seen THEN 1 ELSE 0
    /\ DOMAIN snap \subseteq seen

LEMMA LeastRule ==
  ASSUME NEW m \in SUBSET Nat, m # {}
  PROVE  \E i \in m : \A j \in m : i <= j
<1>1. PICK i \in m : \A j \in m : ~(<<j, i>> \in OpToRel(<, Nat))
  BY NatLessThanWellFounded, WFMin
<1>2. \A j \in m : ~(j < i)
  BY <1>1 DEF OpToRel
<1> QED
  BY <1>2

(* Of several rules that report new services the first one notifies of     *)
(* every service not yet seen, and no other notifies of any.               *)
LEMMA AnnouncedByTheFirst ==
  ASSUME \E i \in RuleIds : Rules[i].type = "new_service", NEW s, NEW new
  PROVE  Cardinality(Announcing(s, new)) = IF s \in DOMAIN new \ seen THEN 1 ELSE 0
<1> DEFINE m == { i \in RuleIds : Rules[i].type = "new_service" }
<1>1. RuleIds \subseteq Nat /\ \A i \in RuleIds : 1 .. i - 1 \subseteq RuleIds
  <2>1. Len(Rules) \in Nat
    BY AlertAssumption
  <2> QED
    BY <2>1 DEF RuleIds
<1>2. PICK i \in m : \A j \in m : i <= j
  BY <1>1, LeastRule
<1>3. ~EarlierRule(i, "new_service")
  BY <1>1, <1>2 DEF EarlierRule
<1>4. Announces(i, s, new) <=> s \in DOMAIN new \ seen
  BY <1>2, <1>3 DEF Announces, SeenServices
<1>5. ASSUME NEW j \in RuleIds, Announces(j, s, new)
      PROVE  j = i
  <2>1. j \in m
    BY <1>5 DEF Announces
  <2>2. i <= j /\ i \in Nat /\ j \in Nat /\ i >= 1
    BY <1>1, <1>2, <2>1 DEF RuleIds
  <2>3. SUFFICES ASSUME i < j PROVE FALSE
    BY <2>2
  <2>4. i \in 1 .. j - 1
    BY <2>2, <2>3
  <2>5. EarlierRule(j, "new_service")
    BY <1>2, <2>4 DEF EarlierRule
  <2> QED
    BY <1>5, <2>5 DEF Announces, SeenServices
<1>6. CASE s \in DOMAIN new \ seen
  <2>1. Announcing(s, new) = {i}
    BY <1>2, <1>4, <1>5, <1>6 DEF Announcing
  <2> QED
    BY <1>6, <2>1, FS_Singleton
<1>7. CASE ~(s \in DOMAIN new \ seen)
  <2>1. Announcing(s, new) = {}
    BY <1>4, <1>5, <1>7 DEF Announcing
  <2> QED
    BY <1>7, <2>1, FS_EmptySet
<1> QED
  BY <1>6, <1>7

LEMMA EvaluateAnnounces ==
  ASSUME Shape, AnnounceInv, NEW new \in Snapshots, Evaluate(new)
  PROVE  AnnounceInv'
<1> SUFFICES ASSUME \E i \in RuleIds : Rules[i].type = "new_service"
             PROVE  /\ \A s \in Services : announced'[s] = IF s \in seen' THEN 1 ELSE 0
                    /\ DOMAIN snap' \subseteq seen'
  BY DEF AnnounceInv, RuleIds
<1>1. seen' = seen \cup DOMAIN new /\ snap' = new
  BY DEF Evaluate, TrackServices
<1>2. ASSUME NEW s \in Services
      PROVE  announced'[s] = IF s \in seen' THEN 1 ELSE 0
  <2> DEFINE more == Cardinality(Announcing(s, new))
  <2>1. announced'[s] = UpTo(announced[s] + more, 2)
    BY DEF Evaluate
  <2>2. announced[s] = IF s \in seen THEN 1 ELSE 0
    BY DEF AnnounceInv
  <2>3. more = IF s \in DOMAIN new \ seen THEN 1 ELSE 0
    BY AnnouncedByTheFirst
  <2> HIDE DEF more
  <2> QED
    BY <1>1, <2>1, <2>2, <2>3 DEF UpTo
<1> QED
  BY <1>1, <1>2

LEMMA AnnounceNext == AInv /\ AnnounceInv /\ [Next]_vars => AnnounceInv'
<1> SUFFICES ASSUME AInv, AnnounceInv, [Next]_vars PROVE AnnounceInv'
  OBVIOUS
<1>1. ASSUME NEW new \in Snapshots, Evaluate(new) PROVE AnnounceInv'
  BY <1>1, EvaluateAnnounces DEF AInv
<1>2. CASE NoSnapshot
  BY <1>2 DEF NoSnapshot, AnnounceInv, RuleIds
<1>3. CASE UNCHANGED vars
  BY <1>3 DEF vars, AnnounceInv, RuleIds
<1> QED
  BY <1>1, <1>2, <1>3 DEF Next

-----------------------------------------------------------------------------
(* The theorems.                                                           *)

(* The engine's inductive invariant.                                       *)
THEOREM AlertInvariance == Spec => [](AInv /\ AnnounceInv)
<1>1. Init => AInv /\ AnnounceInv
  BY AInitInv DEF Init, AnnounceInv
<1>2. AInv /\ AnnounceInv /\ [Next]_vars => (AInv /\ AnnounceInv)'
  BY ANextInv, AnnounceNext
<1> QED
  BY <1>1, <1>2, PTL DEF Spec

(* The variables keep their shape, whatever the rules.                     *)
THEOREM AlertTypeCorrect == Spec => []TypeOK
<1>1. AInv => TypeOK
  BY DEF AInv, Shape, AllLinked, Linked, Runs, TypeOK
<1> QED
  BY <1>1, AlertInvariance, PTL

(* Each service is reported as new once, in the first snapshot that shows  *)
(* it, however many rules report new services and wherever they stand.     *)
THEOREM NewServicesReportedOnce == Spec => []NewServiceOnce
<1>1. AInv /\ AnnounceInv => NewServiceOnce
  <2> SUFFICES ASSUME AnnounceInv, \E i \in RuleIds : Rules[i].type = "new_service",
                      NEW s \in Services
               PROVE  announced[s] <= 1 /\ (s \in DOMAIN snap => announced[s] = 1)
    BY DEF NewServiceOnce
  <2> QED
    BY DEF AnnounceInv
<1> QED
  BY <1>1, AlertInvariance, PTL

(* No alert is ok behind a full run of breaches, none fires behind a full  *)
(* run of clears.                                                          *)
THEOREM StatusFollowsRuns ==
  ASSUME SingleCount
  PROVE  Spec => []StatusFollowsStreak
<1>1. AInv => StatusFollowsStreak
  <2> SUFFICES ASSUME AInv, NEW i \in RuleIds, NEW t \in Targets
               PROVE  Follows(alerts[<<i, t>>], streak[<<i, t>>], Rules[i])
    BY DEF StatusFollowsStreak, Follows
  <2>1. Linked(i, t, alerts[<<i, t>>], streak[<<i, t>>], lastSeen[t])
    BY DEF AInv, AllLinked
  <2>2. Rules[i].type \in RuleTypes /\ Rules[i].firings > 0 /\ Rules[i].clears > 0
    BY RuleType DEF RuleRecords
  <2> QED
    BY <2>1, <2>2 DEF Linked, CountsRun, Watched, Idle, Follows, SingleCount, RuleTypes
<1> QED
  BY <1>1, AlertInvariance, PTL

LEMMA StepEnds ==
  ASSUME SingleCount, AInv, [Next]_vars, NEW i \in RuleIds, NEW t \in Targets
  PROVE  Ends(alerts[<<i, t>>], alerts'[<<i, t>>], streak'[<<i, t>>], Rules[i])
<1>1. ASSUME NEW new \in Snapshots, Evaluate(new)
      PROVE  Ends(alerts[<<i, t>>], alerts'[<<i, t>>], streak'[<<i, t>>], Rules[i])
  <2>1. StepKeeps(i, t, new)
    BY <1>1, EveryRuleKeeps DEF Evaluate
  <2> QED
    BY <1>1, <2>1, AfterEvaluate DEF StepKeeps, SingleCount
<1>2. CASE UNCHANGED alerts
  BY <1>2 DEF Ends
<1> QED
  BY <1>1, <1>2 DEF Next, NoSnapshot, vars

(* An alert fires only at the end of a full run of breaches.               *)
THEOREM FiresOnlyAfterRun ==
  ASSUME SingleCount
  PROVE  Spec => FiresAfterStreak
<1>1. AInv /\ [Next]_vars =>
        [\A i \in RuleIds, t \in Targets :
           Fires(i, t) => streak'[<<i, t>>].breach = Rules[i].firings]_vars
  BY StepEnds DEF Ends, Fires
<1> QED
  BY <1>1, AlertInvariance, PTL DEF Spec, FiresAfterStreak

(* An alert is resolved only at the end of a full run of clears.           *)
THEOREM ResolvesOnlyAfterRun ==
  ASSUME SingleCount
  PROVE  Spec => ResolvesAfterStreak
<1>1. AInv /\ [Next]_vars =>
        [\A i \in RuleIds, t \in Targets :
           Resolves(i, t) => streak'[<<i, t>>].clear = Rules[i].clears]_vars
  BY StepEnds DEF Ends, Resolves
<1> QED
  BY <1>1, AlertInvariance, PTL DEF Spec, ResolvesAfterStreak
=============================================================================

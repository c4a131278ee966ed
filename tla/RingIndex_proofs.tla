-------------------------- MODULE RingIndex_proofs --------------------------
(***************************************************************************)
(* The arithmetic of slots, for every capacity.                            *)
(***************************************************************************)
EXTENDS RingIndex, TLAPS

(* Multiplication by the capacity keeps distinct multiples Cap apart.      *)
LEMMA MultiplesApart ==
  ASSUME NEW p \in Int, NEW q \in Int, p < q
  PROVE  Cap * p + Cap <= Cap * q
<1>1. Cap * (q - p - 1) >= 0
  BY CapAssumption
<1>2. Cap * (q - p - 1) = Cap * q - Cap * p - Cap
  BY CapAssumption
<1>3. QED
  BY <1>1, <1>2, CapAssumption

(* An index is its slot plus a multiple of the capacity.                   *)
LEMMA SlotDecomposes ==
  ASSUME NEW h \in Nat
  PROVE  /\ SlotOf(h) \in Slots
         /\ h \div Cap \in Int
         /\ h = Cap * (h \div Cap) + SlotOf(h)
  BY CapAssumption DEF SlotOf, Slots

COROLLARY SlotType ==
  ASSUME NEW h \in Nat
  PROVE  SlotOf(h) \in Slots /\ SlotOf(h) \in 0 .. Cap - 1
  BY SlotDecomposes DEF Slots

(* The decomposition is unique.                                            *)
LEMMA SlotUnique ==
  ASSUME NEW h \in Nat, NEW s \in Slots, NEW q \in Int, h = Cap * q + s
  PROVE  SlotOf(h) = s
<1> DEFINE p == h \div Cap
<1>1. p \in Int /\ SlotOf(h) \in Slots /\ h = Cap * p + SlotOf(h)
  BY SlotDecomposes
<1>2. CASE p < q
  <2>1. Cap * p + Cap <= Cap * q
    BY <1>1, <1>2, MultiplesApart
  <2>2. QED
    BY <1>1, <2>1, CapAssumption DEF Slots
<1>3. CASE q < p
  <2>1. Cap * q + Cap <= Cap * p
    BY <1>1, <1>3, MultiplesApart
  <2>2. QED
    BY <1>1, <2>1, CapAssumption DEF Slots
<1>4. CASE p = q
  <2>1. Cap * p = Cap * q
    BY <1>4
  <2>2. Cap * q \in Int /\ s \in Int /\ SlotOf(h) \in Int
    BY <1>1, CapAssumption DEF Slots
  <2>3. Cap * q + SlotOf(h) = Cap * q + s
    BY <1>1, <2>1
  <2>4. QED
    BY <2>2, <2>3
<1>5. QED
  BY <1>1, <1>2, <1>3, <1>4

(* The slot k events further on, up to one turn of the ring: the wrap that *)
(* splits a copy in two.                                                   *)
LEMMA SlotShift ==
  ASSUME NEW h \in Nat, NEW k \in 0 .. Cap
  PROVE  SlotOf(h + k) = IF SlotOf(h) + k < Cap THEN SlotOf(h) + k
                                                ELSE SlotOf(h) + k - Cap
<1> DEFINE q == h \div Cap
           r == SlotOf(h)
<1>1. q \in Int /\ r \in Slots /\ h = Cap * q + r
  BY SlotDecomposes
<1>2. h + k \in Nat
  BY CapAssumption
<1>3. CASE r + k < Cap
  <2>1. r + k \in Slots /\ h + k = Cap * q + (r + k)
    BY <1>1, <1>3, CapAssumption DEF Slots
  <2>2. SlotOf(h + k) = r + k
    BY <1>1, <1>2, <2>1, SlotUnique
  <2>3. QED
    BY <1>3, <2>2
<1>4. CASE ~(r + k < Cap)
  <2>1. r + k - Cap \in Slots
    BY <1>1, <1>4, CapAssumption DEF Slots
  <2>2. Cap * (q + 1) = Cap * q + Cap
    BY <1>1, CapAssumption
  <2>3. h + k = Cap * (q + 1) + (r + k - Cap)
    BY <1>1, <2>2, CapAssumption DEF Slots
  <2>4. SlotOf(h + k) = r + k - Cap
    BY <1>1, <1>2, <2>1, <2>3, SlotUnique
  <2>5. QED
    BY <1>4, <2>4
<1>5. QED
  BY <1>3, <1>4

(* Before the first wrap an event is in the slot of its own number.        *)
LEMMA SlotIdentity ==
  ASSUME NEW h \in Slots
  PROVE  h \in Nat /\ SlotOf(h) = h
<1>1. h \in Nat /\ 0 \in Int /\ h = Cap * 0 + h
  BY CapAssumption DEF Slots
<1>2. QED
  BY <1>1, SlotUnique

(* A full turn leads back to the same slot.                                *)
LEMMA SlotTurn ==
  ASSUME NEW h \in Nat
  PROVE  SlotOf(h + Cap) = SlotOf(h)
<1>1. SlotOf(h) \in 0 .. Cap - 1 /\ Cap \in 0 .. Cap
  BY SlotType, CapAssumption
<1>2. SlotOf(h + Cap) = IF SlotOf(h) + Cap < Cap THEN SlotOf(h) + Cap
                                                 ELSE SlotOf(h) + Cap - Cap
  BY <1>1, SlotShift
<1>3. QED
  BY <1>1, <1>2, CapAssumption

(* Two events less than a turn apart never share a slot.                   *)
LEMMA SlotsDistinct ==
  ASSUME NEW g \in Nat, NEW h \in Nat, g < h, h - g < Cap
  PROVE  SlotOf(g) # SlotOf(h)
<1>1. h - g \in 0 .. Cap /\ g + (h - g) = h
  BY CapAssumption
<1>2. SlotOf(g) \in Slots
  BY SlotDecomposes
<1>3. SlotOf(g + (h - g)) = IF SlotOf(g) + (h - g) < Cap
                            THEN SlotOf(g) + (h - g)
                            ELSE SlotOf(g) + (h - g) - Cap
  BY <1>1, SlotShift
<1>4. QED
  BY <1>1, <1>2, <1>3, CapAssumption DEF Slots

(* The retained events take the slots 0 .. len - 1, one each, whether or   *)
(* not the ring has wrapped.                                               *)
LEMMA SlotsCovered ==
  ASSUME NEW h \in Nat
  PROVE  LET live == Oldest(h) .. h - 1
             used == 0 .. Min2(h, Cap) - 1
         IN  /\ live \subseteq Nat
             /\ \A g \in live : SlotOf(g) \in used
             /\ \A f, g \in live : SlotOf(f) = SlotOf(g) => f = g
             /\ \A s \in used : \E g \in live : SlotOf(g) = s
<1> DEFINE live == Oldest(h) .. h - 1
           used == 0 .. Min2(h, Cap) - 1
<1>1. /\ Cap \in Nat \ {0} /\ Oldest(h) \in Nat
      /\ \A g \in live : g \in Nat /\ g < h /\ h - g <= Cap
  BY CapAssumption DEF Oldest
<1>2. ASSUME NEW f \in live, NEW g \in live, SlotOf(f) = SlotOf(g) PROVE f = g
  <2>1. f \in Nat /\ g \in Nat /\ f - g < Cap /\ g - f < Cap
    BY <1>1 DEF Oldest
  <2>2. ~(f < g) /\ ~(g < f)
    BY <1>2, <2>1, SlotsDistinct
  <2>3. QED
    BY <2>1, <2>2
<1>3. CASE h <= Cap
  <2>1. Oldest(h) = 0 /\ Min2(h, Cap) = h
    BY <1>1, <1>3 DEF Oldest, Min2
  <2>2. used = live /\ \A g \in live : g \in Slots
    BY <1>1, <1>3, <2>1 DEF Slots
  <2>3. \A g \in live : SlotOf(g) = g
    BY <2>2, SlotIdentity
  <2>4. QED
    BY <1>1, <1>2, <2>2, <2>3
<1>4. CASE h > Cap
  <2> DEFINE o == Oldest(h)
             z == SlotOf(o)
  <2>1. /\ o = h - Cap /\ o \in Nat /\ live = o .. o + Cap - 1
        /\ z \in 0 .. Cap - 1 /\ used = Slots /\ Slots = 0 .. Cap - 1
    BY <1>1, <1>4, SlotType DEF Oldest, Min2, Slots
  <2>2. \A g \in live : SlotOf(g) \in used
    BY <1>1, <2>1, SlotType
  <2> HIDE DEF o, z
  <2>3. ASSUME NEW s \in used PROVE \E g \in live : SlotOf(g) = s
    <3> DEFINE k == IF s >= z THEN s - z ELSE s - z + Cap
    <3>0. s \in Int /\ 0 <= s /\ s < Cap /\ z \in Int /\ 0 <= z /\ z < Cap /\ Cap \in Int
      <4>1. s \in 0 .. Cap - 1
        BY <2>1
      <4>2. z \in 0 .. Cap - 1 /\ Cap \in Nat
        BY <1>1, <2>1
      <4> HIDE DEF used
      <4>3. QED
        BY <4>1, <4>2
    <3>1. /\ k \in 0 .. Cap /\ k < Cap
          /\ s = IF z + k < Cap THEN z + k ELSE z + k - Cap
      <4>1. CASE s >= z
        BY <3>0, <4>1
      <4>2. CASE s < z
        BY <3>0, <4>2
      <4>3. QED
        BY <3>0, <4>1, <4>2
    <3> HIDE DEF k
    <3>2. SlotOf(o + k) = IF z + k < Cap THEN z + k ELSE z + k - Cap
      BY <2>1, <3>1, SlotShift DEF z
    <3>3. o + k \in live
      BY <1>1, <2>1, <3>1
    <3>4. SlotOf(o + k) = s
      BY <3>1, <3>2
    <3>5. QED
      BY <3>3, <3>4
  <2>4. QED
    BY <1>1, <1>2, <2>2, <2>3
<1>5. QED
  BY <1>1, <1>3, <1>4

(* What has been overwritten stays overwritten.                            *)
LEMMA OldestMonotone ==
  ASSUME NEW g \in Nat, NEW h \in Nat, g <= h
  PROVE  /\ Oldest(g) \in Nat /\ Oldest(h) \in Nat
         /\ Oldest(g) <= Oldest(h)
         /\ Oldest(h) <= h
  BY CapAssumption DEF Oldest

(* The two clamps of an extraction leave exactly the part of the request   *)
(* that has been written and not overwritten.                              *)
LEMMA ExtractRangeCorrect ==
  ASSUME NEW h \in Nat, NEW from \in 0 .. h, NEW n \in Nat \ {0}
  PROVE  LET lo == IF from < Oldest(h) THEN Oldest(h) ELSE from
             hi == Min2(from + n, h)
             r  == ExtractRange(h, from, n)
         IN  /\ hi <= lo => r.n = 0
             /\ lo < hi => r.from = lo /\ r.n = hi - lo
<1> DEFINE lo == IF from < Oldest(h) THEN Oldest(h) ELSE from
           hi == Min2(from + n, h)
           m == ClampToHead(h, from, n)
           skip == Oldest(h) - from
           r == ExtractRange(h, from, n)
<1>1. Cap \in Nat \ {0} /\ Oldest(h) \in 0 .. h
  BY CapAssumption DEF Oldest
<1>2. m \in Nat /\ hi = from + m
  BY DEF ClampToHead, Min2
<1>3. skip \in Int /\ lo = (IF skip > 0 THEN from + skip ELSE from)
  BY <1>1
<1> HIDE DEF m, hi
<1>4. CASE m = 0 \/ skip >= m
  <2>1. ~(m > 0 /\ skip <= 0) /\ ~(skip > 0 /\ skip < m)
    BY <1>2, <1>3, <1>4
  <2>2. r = [from |-> from, n |-> 0]
    BY <1>4, <2>1 DEF ExtractRange, m
  <2>3. QED
    BY <1>1, <1>2, <1>3, <1>4, <2>2 DEF hi
<1>5. CASE m > 0 /\ skip <= 0
  <2>1. ~(m = 0 \/ skip >= m)
    BY <1>2, <1>3, <1>5
  <2>2. r = [from |-> from, n |-> m]
    BY <1>2, <1>3, <1>5, <2>1 DEF ExtractRange, m
  <2>3. QED
    BY <1>1, <1>2, <1>3, <1>5, <2>2 DEF hi
<1>6. CASE skip > 0 /\ skip < m
  <2>1. ~(m = 0 \/ skip >= m) /\ ~(m > 0 /\ skip <= 0)
    BY <1>2, <1>3, <1>6
  <2>2. r = [from |-> Oldest(h), n |-> m - skip]
    BY <1>2, <1>3, <1>6, <2>1 DEF ExtractRange, m
  <2>3. QED
    BY <1>1, <1>2, <1>3, <1>6, <2>2 DEF hi
<1>7. QED
  BY <1>2, <1>3, <1>4, <1>5, <1>6
=============================================================================

------------------------ MODULE RingRecovery_proofs ------------------------
(***************************************************************************)
(* Proofs about RingRecovery for every capacity, set of events, size of    *)
(* batches and number of kills: what a kill damages, how far the stored    *)
(* count falls behind, and that the next insertion repairs it.             *)
(***************************************************************************)
EXTENDS RingRecovery, RingIndex_proofs, SequenceTheorems

(* The writes a call is made of.                                           *)
Writes == [what : {"copy", "head", "count", "len"}, col : ColumnNames \cup {""},
           at : Nat, from : Nat, n : Nat]

(* Copy w of batch b lies within the column, and puts event h + i - 1 of   *)
(* the history, for each i that it copies, into that event's slot.         *)
Copies(w, i) == i \in w.from .. w.from + w.n - 1
GoodCopy(w, h, b) ==
  /\ w.what = "copy"
  /\ w.col \in ColumnNames
  /\ w.at + w.n <= Cap
  /\ w.from >= 1 /\ w.from + w.n - 1 <= Len(b)
  /\ \A i \in 1 .. Len(b) : Copies(w, i) => SlotOf(h + i - 1) = w.at + (i - w.from)

(* What is left of a call: copies, then head, count and len in this order. *)
Remainder(plan, h, b) ==
  LET L == Len(plan)
  IN  /\ L >= 1 => plan[L].what = "len"
      /\ L >= 2 => plan[L - 1].what = "count"
      /\ L >= 3 => plan[L - 2].what = "head"
      /\ \A j \in 1 .. L - 3 : GoodCopy(plan[j], h, b)

(* Column c of the i-th event of the batch is still to be copied.          *)
Pending(plan, c, i) ==
  \E j \in 1 .. Len(plan) - 3 : plan[j].col = c /\ Copies(plan[j], i)

(* The call in progress: until the head is written, every field of the     *)
(* batch is in its slot or pending.                                        *)
CallOK ==
  /\ todo \in Seq(Writes)
  /\ todo = << >> <=> batch = << >>
  /\ todo # << >> => up
  /\ Remainder(todo, head, batch)
  /\ Len(todo) >= 3 =>
       \A c \in ColumnNames, i \in 1 .. Len(batch) :
         columns[c][SlotOf(head + i - 1)] = batch[i][c] \/ Pending(todo, c, i)

(* DamageConfined, column by column.                                       *)
NewerIntact ==
  \A h \in Oldest(head) .. head - 1 :
    h >= head + MaxBatch - Cap =>
      \A c \in ColumnNames : columns[c][SlotOf(h)] = log[h + 1][c]

(* How far the count is behind: a batch for each kill, one more between    *)
(* the writes of head and count, and nothing after both.                   *)
Behind == Min2(head, Cap) - count
CountBehind ==
  /\ count <= Min2(head, Cap)
  /\ Len(todo) \notin {1, 2} => Behind <= MaxBatch * kills
  /\ Len(todo) = 2 => Behind <= MaxBatch * kills + MaxBatch
  /\ Len(todo) = 1 => Behind = 0

(* The inductive invariant.                                                *)
IInv ==
  /\ TypeOK
  /\ Len(log) = head
  /\ CallOK
  /\ NewerIntact
  /\ CountBehind

-----------------------------------------------------------------------------
(* Facts about the operators.                                              *)

(* A batch is a sequence of 1 to MaxBatch events.                          *)
LEMMA BatchType ==
  ASSUME NEW b \in Batches
  PROVE  b \in Seq(Events) /\ Len(b) \in 1 .. MaxBatch /\ MaxBatch \in 1 .. Cap /\ b # << >>
  BY RecoveryAssumption, CapAssumption DEF Batches

(* A column value of an event is a value.                                  *)
LEMMA EventFields ==
  ASSUME NEW e \in Events, NEW c \in ColumnNames
  PROVE  e[c] \in Values
  BY DEF Values

(* One more batch is one more term.                                        *)
LEMMA OneMoreKill ==
  ASSUME NEW k \in Nat
  PROVE  /\ MaxBatch * k \in Nat
         /\ MaxBatch * (k + 1) = MaxBatch * k + MaxBatch
  BY RecoveryAssumption, CapAssumption

(* r is s, of length m, followed by t, of length n.                        *)
Joins(r, s, m, t, n) ==
  /\ r \in Seq(Writes) /\ Len(r) = m + n
  /\ \A i \in 1 .. m : r[i] = s[i]
  /\ \A i \in 1 .. n : r[m + i] = t[i]

(* A concatenation joins its parts.                                        *)
LEMMA Concatenation ==
  ASSUME NEW s \in Seq(Writes), NEW t \in Seq(Writes), NEW m, NEW n, Len(s) = m, Len(t) = n
  PROVE  Joins(s \o t, s, m, t, n)
<1> DEFINE r == s \o t
<1>0. m \in Nat /\ n \in Nat
  BY LenProperties
<1>1. /\ r \in Seq(Writes) /\ Len(r) = m + n
      /\ \A i \in 1 .. m + n : r[i] = IF i <= m THEN s[i] ELSE t[i - m]
  BY ConcatProperties
<1> HIDE DEF r
<1>2. ASSUME NEW i \in 1 .. n PROVE r[m + i] = t[i]
  <2>1. m + i \in 1 .. m + n /\ ~(m + i <= m) /\ (m + i) - m = i
    BY <1>0
  <2>2. QED
    BY <1>1, <2>1
<1>3. \A i \in 1 .. m : i \in 1 .. m + n /\ i <= m
  BY <1>0
<1>4. QED
  BY <1>1, <1>2, <1>3 DEF Joins, r

(* k good copies that between them copy events first to last of a batch.   *)
CopiesPart(cs, k, h, b, first, last) ==
  /\ cs \in Seq(Writes) /\ Len(cs) = k
  /\ \A j \in 1 .. k : GoodCopy(cs[j], h, b)
  /\ \A c \in ColumnNames, i \in first .. last :
       \E j \in 1 .. k : cs[j].col = c /\ Copies(cs[j], i)

(* All the writes that store a batch at h.                                 *)
WholeCall(plan, h, b) ==
  /\ plan \in Seq(Writes) /\ Len(plan) >= 3
  /\ Remainder(plan, h, b)
  /\ \A c \in ColumnNames, i \in 1 .. Len(b) : Pending(plan, c, i)

(* A piece of a batch whose events lie in consecutive slots is copied by   *)
(* one copy for each column.                                               *)
LEMMA OnePiece ==
  ASSUME NEW h \in Nat, NEW b, NEW at \in Nat, NEW from \in Nat, NEW n \in Nat,
         NEW last \in Int, last = from + n - 1,
         Len(b) \in Nat, at + n <= Cap, from >= 1, last <= Len(b),
         \A i \in from .. last : SlotOf(h + i - 1) = at + (i - from)
  PROVE  CopiesPart(CopyAll(at, from, n), 3, h, b, from, last)
<1> DEFINE w(c) == Copy(c, at, from, n)
           p == << w("timestamp"), w("duration"), w("is_error") >>
<1>1. ASSUME NEW c \in ColumnNames
      PROVE  /\ w(c) \in Writes /\ w(c).col = c
             /\ GoodCopy(w(c), h, b)
             /\ \A i \in from .. last : Copies(w(c), i)
  <2>1. w(c) \in Writes
    BY DEF Copy, Writes
  <2>2. w(c).what = "copy" /\ w(c).col = c /\ w(c).at = at /\ w(c).from = from /\ w(c).n = n
    BY DEF Copy
  <2> HIDE DEF w
  <2>3. QED
    BY <2>1, <2>2 DEF GoodCopy, Copies
<1>2. {"timestamp", "duration", "is_error"} = ColumnNames
  BY DEF ColumnNames
<1> HIDE DEF w
<1>3. p \in Seq(Writes) /\ Len(p) = 3
  BY <1>1, <1>2
<1>4. p[1] = w("timestamp") /\ p[2] = w("duration") /\ p[3] = w("is_error")
  OBVIOUS
<1>5. CopyAll(at, from, n) = p
  BY DEF CopyAll, w
<1> HIDE DEF p
<1>6. \A j \in 1 .. 3 : GoodCopy(p[j], h, b)
  BY <1>1, <1>2, <1>4
<1>7. \A c \in ColumnNames, i \in from .. last :
        \E j \in 1 .. 3 : p[j].col = c /\ Copies(p[j], i)
  BY <1>1, <1>2, <1>4
<1>8. QED
  BY <1>3, <1>5, <1>6, <1>7 DEF CopiesPart

(* Two pieces that adjoin make one.                                        *)
LEMMA TwoPieces ==
  ASSUME NEW h, NEW b, NEW c1, NEW c2, NEW mid \in Int, NEW last \in Int,
         CopiesPart(c1, 3, h, b, 1, mid), CopiesPart(c2, 3, h, b, mid + 1, last)
  PROVE  CopiesPart(c1 \o c2, 6, h, b, 1, last)
<1> DEFINE cs == c1 \o c2
<1>1. /\ c1 \in Seq(Writes) /\ Len(c1) = 3 /\ c2 \in Seq(Writes) /\ Len(c2) = 3
  BY DEF CopiesPart
<1>a. 3 + 3 = 6
  OBVIOUS
<1>b. Joins(cs, c1, 3, c2, 3)
  BY <1>1, Concatenation
<1> HIDE DEF cs
<1>2. /\ cs \in Seq(Writes) /\ Len(cs) = 3 + 3
      /\ \A j \in 1 .. 3 : cs[j] = c1[j] /\ cs[3 + j] = c2[j]
  BY <1>b DEF Joins
<1>3. ASSUME NEW j \in 1 .. 6 PROVE GoodCopy(cs[j], h, b)
  <2>1. j \in 1 .. 3 \/ (j - 3 \in 1 .. 3 /\ j = 3 + (j - 3))
    OBVIOUS
  <2>2. QED
    BY <1>2, <2>1 DEF CopiesPart
<1>4. ASSUME NEW c \in ColumnNames, NEW i \in 1 .. last
      PROVE  \E j \in 1 .. 6 : cs[j].col = c /\ Copies(cs[j], i)
  <2>1. CASE i \in 1 .. mid
    <3>1. PICK j \in 1 .. 3 : c1[j].col = c /\ Copies(c1[j], i)
      BY <2>1 DEF CopiesPart
    <3>2. j \in 1 .. 6 /\ cs[j] = c1[j]
      BY <1>2
    <3>3. QED
      BY <3>1, <3>2
  <2>2. CASE i \in mid + 1 .. last
    <3>1. PICK j \in 1 .. 3 : c2[j].col = c /\ Copies(c2[j], i)
      BY <2>2 DEF CopiesPart
    <3>2. 3 + j \in 1 .. 6 /\ cs[3 + j] = c2[j]
      BY <1>2
    <3>3. QED
      BY <3>1, <3>2
  <2>3. QED
    BY <2>1, <2>2
<1>5. QED
  BY <1>a, <1>2, <1>3, <1>4 DEF CopiesPart, cs

(* Copies of the whole batch, and then the three writes of the header, are *)
(* a whole call.                                                           *)
LEMMA HeaderLast ==
  ASSUME NEW h, NEW b, NEW cs, NEW k \in Nat, CopiesPart(cs, k, h, b, 1, Len(b))
  PROVE  WholeCall(cs \o << HeaderWrite("head"), HeaderWrite("count"), HeaderWrite("len") >>,
                   h, b)
<1> DEFINE hd == << HeaderWrite("head"), HeaderWrite("count"), HeaderWrite("len") >>
           p == cs \o hd
<1>1. /\ HeaderWrite("head") \in Writes /\ HeaderWrite("head").what = "head"
      /\ HeaderWrite("count") \in Writes /\ HeaderWrite("count").what = "count"
      /\ HeaderWrite("len") \in Writes /\ HeaderWrite("len").what = "len"
  BY DEF HeaderWrite, Writes
<1>2. hd \in Seq(Writes) /\ Len(hd) = 3
  BY <1>1
<1>3. hd[1].what = "head" /\ hd[2].what = "count" /\ hd[3].what = "len"
  BY <1>1
<1> HIDE DEF hd
<1>4. /\ cs \in Seq(Writes) /\ Len(cs) = k
      /\ \A j \in 1 .. k : GoodCopy(cs[j], h, b)
      /\ \A c \in ColumnNames, i \in 1 .. Len(b) :
           \E j \in 1 .. k : cs[j].col = c /\ Copies(cs[j], i)
  BY DEF CopiesPart
<1>a. Joins(p, cs, k, hd, 3)
  BY <1>2, <1>4, Concatenation
<1> HIDE DEF p
<1>5. /\ p \in Seq(Writes) /\ Len(p) = k + 3
      /\ \A j \in 1 .. k : p[j] = cs[j]
      /\ \A j \in 1 .. 3 : p[k + j] = hd[j]
  BY <1>a DEF Joins
<1>6. p[k + 1] = hd[1] /\ p[k + 2] = hd[2] /\ p[k + 3] = hd[3]
  BY <1>5
<1>7. Len(p) - 1 = k + 2 /\ Len(p) - 2 = k + 1 /\ Len(p) - 3 = k /\ Len(p) >= 3
  BY <1>5
<1>8. Remainder(p, h, b)
  BY <1>3, <1>4, <1>5, <1>6, <1>7 DEF Remainder
<1>9. ASSUME NEW c \in ColumnNames, NEW i \in 1 .. Len(b) PROVE Pending(p, c, i)
  <2>1. PICK j \in 1 .. k : cs[j].col = c /\ Copies(cs[j], i)
    BY <1>4
  <2>2. j \in 1 .. Len(p) - 3 /\ p[j] = cs[j]
    BY <1>5, <1>7
  <2>3. QED
    BY <2>1, <2>2 DEF Pending
<1>10. WholeCall(p, h, b)
  BY <1>5, <1>7, <1>8, <1>9 DEF WholeCall
<1>11. QED
  BY <1>10 DEF p, hd

(* The plan of a call is a whole call, also when the batch straddles the   *)
(* end of the columns.                                                     *)
LEMMA PlanGood ==
  ASSUME NEW h \in Nat, NEW b \in Batches
  PROVE  WholeCall(Plan(h, Len(b)), h, b)
<1> DEFINE n == Len(b)
           slot == SlotOf(h)
           tail == Cap - slot
           hd == << HeaderWrite("head"), HeaderWrite("count"), HeaderWrite("len") >>
<1>1. n \in 1 .. MaxBatch /\ MaxBatch \in 1 .. Cap /\ slot \in 0 .. Cap - 1
  BY BatchType, SlotType
<1>2. \A k \in 0 .. Cap : SlotOf(h + k) = IF slot + k < Cap THEN slot + k ELSE slot + k - Cap
  BY SlotShift
<1>3. Plan(h, n) = (IF n <= tail THEN CopyAll(slot, 1, n)
                    ELSE CopyAll(slot, 1, tail) \o CopyAll(0, tail + 1, n - tail)) \o hd
  BY DEF Plan
<1>4. Len(b) = n
  OBVIOUS
<1> HIDE DEF n, slot
<1>5. n \in Nat /\ n >= 1 /\ n <= Cap /\ slot \in Nat /\ slot < Cap /\ Cap \in Nat
  BY <1>1, CapAssumption
<1>6. tail \in Nat /\ tail + 1 \in Nat /\ slot + tail = Cap
  BY <1>5
<1>7. \A i \in 1 .. n : SlotOf(h + i - 1) = IF i <= tail THEN slot + (i - 1) ELSE i - (tail + 1)
  <2> TAKE i \in 1 .. n
  <2>1. i - 1 \in 0 .. Cap /\ h + (i - 1) = h + i - 1
    BY <1>5
  <2>2. QED
    BY <1>2, <1>5, <2>1
<1> HIDE DEF tail, hd
<1>8. CASE n <= tail
  <2>1. \A i \in 1 .. n : SlotOf(h + i - 1) = slot + (i - 1)
    BY <1>5, <1>6, <1>7, <1>8
  <2>2. n = 1 + n - 1 /\ n \in Int /\ slot + n <= Cap /\ 1 \in Nat /\ 1 >= 1 /\ n <= n
    BY <1>5, <1>6, <1>8
  <2>3. CopiesPart(CopyAll(slot, 1, n), 3, h, b, 1, n)
    BY <1>4, <1>5, <2>1, <2>2, OnePiece
  <2>4. QED
    BY <1>3, <1>4, <1>8, <2>3, HeaderLast DEF hd
<1>9. CASE n > tail
  <2>1. ~(n <= tail) /\ n - tail \in Nat
    BY <1>5, <1>6, <1>9
  <2>2. \A i \in 1 .. tail : SlotOf(h + i - 1) = slot + (i - 1)
    BY <1>5, <1>6, <1>7, <1>9
  <2>3. \A i \in tail + 1 .. n : SlotOf(h + i - 1) = 0 + (i - (tail + 1))
    BY <1>5, <1>6, <1>7, <1>9
  <2>4. /\ tail = 1 + tail - 1 /\ slot + tail <= Cap /\ 1 \in Nat /\ 1 >= 1 /\ tail <= n
        /\ tail \in Int
    BY <1>5, <1>6, <1>9
  <2>5. /\ n = (tail + 1) + (n - tail) - 1 /\ 0 + (n - tail) <= Cap /\ 0 \in Nat
        /\ tail + 1 >= 1 /\ n <= n /\ n \in Int
    BY <1>5, <1>6, <1>9
  <2>6. CopiesPart(CopyAll(slot, 1, tail), 3, h, b, 1, tail)
    BY <1>4, <1>5, <1>6, <2>2, <2>4, OnePiece
  <2>7. CopiesPart(CopyAll(0, tail + 1, n - tail), 3, h, b, tail + 1, n)
    BY <1>4, <1>5, <1>6, <2>1, <2>3, <2>5, OnePiece
  <2>8. CopiesPart(CopyAll(slot, 1, tail) \o CopyAll(0, tail + 1, n - tail), 6, h, b, 1, n)
    BY <2>4, <2>5, <2>6, <2>7, TwoPieces
  <2>9. QED
    BY <1>3, <1>4, <2>1, <2>8, HeaderLast DEF hd
<1>10. QED
  BY <1>4, <1>5, <1>6, <1>8, <1>9

(* What is left after a write is the remainder of a call again.            *)
LEMMA TailRemains ==
  ASSUME NEW plan \in Seq(Writes), plan # << >>, NEW h, NEW b, Remainder(plan, h, b)
  PROVE  /\ Tail(plan) \in Seq(Writes)
         /\ Len(Tail(plan)) = Len(plan) - 1
         /\ Remainder(Tail(plan), h, b)
         /\ Tail(plan) = << >> <=> Len(plan) = 1
<1>1. /\ Len(plan) \in Nat \ {0} /\ Tail(plan) \in Seq(Writes)
      /\ Len(Tail(plan)) = Len(plan) - 1
  BY EmptySeq
<1>2. \A j \in 1 .. Len(plan) - 1 : Tail(plan)[j] = plan[j + 1]
  BY <1>1
<1>3. Tail(plan) = << >> <=> Len(Tail(plan)) = 0
  BY <1>1, EmptySeq
<1> DEFINE L == Len(plan)
           t == Tail(plan)
<1>4. Remainder(t, h, b)
  <2>1. /\ L \in Nat \ {0} /\ Len(t) = L - 1 /\ \A j \in 1 .. L - 1 : t[j] = plan[j + 1]
        /\ L >= 1 => plan[L].what = "len"
        /\ L >= 2 => plan[L - 1].what = "count"
        /\ L >= 3 => plan[L - 2].what = "head"
        /\ \A j \in 1 .. L - 3 : GoodCopy(plan[j], h, b)
    BY <1>1, <1>2 DEF Remainder
  <2> HIDE DEF L, t
  <2>2. ASSUME NEW j \in 1 .. (L - 1) - 3 PROVE GoodCopy(t[j], h, b)
    <3>1. t[j] = plan[j + 1] /\ j + 1 \in 1 .. L - 3
      BY <2>1
    <3>2. QED
      BY <2>1, <3>1
  <2>3. /\ L - 1 >= 1 => t[L - 1].what = "len"
        /\ L - 1 >= 2 => t[L - 2].what = "count"
        /\ L - 1 >= 3 => t[L - 3].what = "head"
    BY <2>1
  <2>4. QED
    BY <2>1, <2>2, <2>3 DEF Remainder
<1>5. QED
  BY <1>1, <1>3, <1>4

(* The kind of the next write tells how much is left.                      *)
LEMMA NextWrite ==
  ASSUME NEW plan \in Seq(Writes), plan # << >>, NEW h, NEW b, Remainder(plan, h, b)
  PROVE  /\ Head(plan) = plan[1] /\ Len(plan) \in Nat \ {0}
         /\ Head(plan).what = "copy" <=> Len(plan) >= 4
         /\ Head(plan).what = "head" <=> Len(plan) = 3
         /\ Head(plan).what = "count" <=> Len(plan) = 2
         /\ Head(plan).what = "len" <=> Len(plan) = 1
         /\ Len(plan) >= 4 => GoodCopy(Head(plan), h, b)
<1>1. Head(plan) = plan[1] /\ Len(plan) \in Nat \ {0}
  BY EmptySeq
<1> DEFINE L == Len(plan)
<1>2. /\ L >= 1 => plan[L].what = "len"
      /\ L >= 2 => plan[L - 1].what = "count"
      /\ L >= 3 => plan[L - 2].what = "head"
      /\ \A j \in 1 .. L - 3 : GoodCopy(plan[j], h, b)
  BY DEF Remainder
<1>3. L \in Nat \ {0}
  BY <1>1
<1> HIDE DEF L
<1>4. L >= 4 \/ L = 3 \/ L = 2 \/ L = 1
  BY <1>3
<1>5. /\ L >= 4 => GoodCopy(plan[1], h, b) /\ plan[1].what = "copy"
      /\ L = 3 => plan[1].what = "head"
      /\ L = 2 => plan[1].what = "count"
      /\ L = 1 => plan[1].what = "len"
  BY <1>2, <1>3 DEF GoodCopy
<1>6. /\ plan[1].what = "copy" <=> L >= 4
      /\ plan[1].what = "head" <=> L = 3
      /\ plan[1].what = "count" <=> L = 2
      /\ plan[1].what = "len" <=> L = 1
      /\ L >= 4 => GoodCopy(plan[1], h, b)
  BY <1>4, <1>5
<1>7. QED
  BY <1>1, <1>6 DEF L

-----------------------------------------------------------------------------
(* One lemma per kind of step.                                             *)

(* While a call is in progress its batch is there and its writes are those *)
(* NextWrite and TailRemains speak of.                                     *)
LEMMA InCall ==
  ASSUME IInv, todo # << >>
  PROVE  /\ up /\ todo \in Seq(Writes) /\ Remainder(todo, head, batch)
         /\ batch # << >> /\ batch \in Seq(Events) /\ Len(batch) \in 1 .. MaxBatch
         /\ MaxBatch \in 1 .. Cap /\ Cap \in Nat \ {0}
<1>1. /\ up /\ todo \in Seq(Writes) /\ Remainder(todo, head, batch)
      /\ batch # << >> /\ batch \in Seq(Events) /\ Len(batch) <= MaxBatch
  BY DEF IInv, CallOK, TypeOK
<1>2. Len(batch) \in Nat \ {0}
  BY <1>1, EmptySeq
<1>3. QED
  BY <1>1, <1>2, RecoveryAssumption, CapAssumption

(* The events of a batch have slots of their own, and none of the slots of *)
(* the events that count as newer.                                         *)
LEMMA BatchSlots ==
  ASSUME IInv, todo # << >>, NEW i \in 1 .. Len(batch)
  PROVE  /\ SlotOf(head + i - 1) \in Slots
         /\ \A k \in 1 .. Len(batch) : SlotOf(head + k - 1) = SlotOf(head + i - 1) => k = i
         /\ \A h \in Nat : h < head /\ h >= head + MaxBatch - Cap =>
              SlotOf(h) \in Slots /\ SlotOf(h) # SlotOf(head + i - 1)
<1> DEFINE n == Len(batch)
<1>1. n \in 1 .. MaxBatch /\ MaxBatch \in 1 .. Cap /\ Cap \in Nat \ {0} /\ head \in Nat
  BY InCall DEF IInv, TypeOK
<1>2. i \in 1 .. n
  OBVIOUS
<1> HIDE DEF n
<1>3. head + i - 1 \in Nat
  BY <1>1, <1>2
<1>4. ASSUME NEW k \in 1 .. n, SlotOf(head + k - 1) = SlotOf(head + i - 1)
      PROVE  k = i
  <2> DEFINE f == head + k - 1
             g == head + i - 1
  <2>1. f \in Nat /\ g \in Nat /\ (k < i => f < g /\ g - f < Cap)
        /\ (i < k => g < f /\ f - g < Cap)
    BY <1>1, <1>2
  <2>2. SlotOf(f) = SlotOf(g)
    BY <1>4
  <2> HIDE DEF f, g
  <2>3. ~(k < i) /\ ~(i < k)
    BY <2>1, <2>2, SlotsDistinct
  <2>4. QED
    BY <1>1, <1>2, <2>3
<1>5. ASSUME NEW h \in Nat, h < head, h >= head + MaxBatch - Cap
      PROVE  SlotOf(h) # SlotOf(head + i - 1)
  <2> DEFINE g == head + i - 1
  <2>1. g \in Nat
    BY <1>3
  <2>2. h < g /\ g - h < Cap
    BY <1>1, <1>2, <1>5
  <2> HIDE DEF g
  <2>3. SlotOf(h) # SlotOf(g)
    BY <2>1, <2>2, SlotsDistinct
  <2>4. QED
    BY <2>3 DEF g
<1>6. QED
  BY <1>3, <1>4, <1>5, SlotType DEF n

(* Only the slots of the batch change, and what they change to is the      *)
(* field of the event that belongs there.                                  *)
OnlyBatchSlots ==
  \A c \in ColumnNames, s \in Slots :
    \/ columns'[c][s] = columns[c][s]
    \/ \E i \in 1 .. Len(batch) :
         s = SlotOf(head + i - 1) /\ columns'[c][s] = batch[i][c]

(* A memcpy of which the elements in done have been copied.                *)
PartOfCopy(w, done) ==
  columns' = [columns EXCEPT ![w.col] =
    [s \in Slots |-> IF s - w.at \in done
                     THEN Field(batch, w.col)[w.from + (s - w.at)]
                     ELSE columns[w.col][s]]]

(* Such a memcpy keeps the columns' type, touches only the batch's slots,  *)
(* and puts in place each field it has copied.                             *)
LEMMA CopyStep ==
  ASSUME IInv, todo # << >>, NEW w \in Writes, GoodCopy(w, head, batch),
         NEW done \in SUBSET (0 .. w.n - 1), PartOfCopy(w, done)
  PROVE  /\ columns' \in [ColumnNames -> [Slots -> Values]]
         /\ OnlyBatchSlots
         /\ \A i \in 1 .. Len(batch) : Copies(w, i) /\ i - w.from \in done =>
              columns'[w.col][SlotOf(head + i - 1)] = batch[i][w.col]
<1> DEFINE n == Len(batch)
           src == Field(batch, w.col)
           new == [s \in Slots |-> IF s - w.at \in done THEN src[w.from + (s - w.at)]
                                                        ELSE columns[w.col][s]]
<1>1. /\ n \in Nat /\ batch \in Seq(Events)
      /\ columns \in [ColumnNames -> [Slots -> Values]]
  BY InCall DEF IInv, TypeOK
<1>2. /\ w.at \in Nat /\ w.from \in Nat /\ w.n \in Nat
      /\ w.col \in ColumnNames /\ w.from >= 1 /\ w.from + w.n - 1 <= n
      /\ \A i \in 1 .. n : Copies(w, i) => SlotOf(head + i - 1) = w.at + (i - w.from)
  BY DEF GoodCopy, Writes
<1>3. \A i \in 1 .. n : src[i] = batch[i][w.col] /\ batch[i] \in Events
                        /\ batch[i][w.col] \in Values
  BY <1>1, <1>2, EventFields DEF Field
<1>4. columns' = [columns EXCEPT ![w.col] = new]
  BY DEF PartOfCopy
<1> HIDE DEF n, src
<1>5. ASSUME NEW s \in Slots, s - w.at \in done
      PROVE  \E i \in 1 .. n : s = SlotOf(head + i - 1) /\ new[s] = batch[i][w.col]
                               /\ new[s] \in Values
  <2> DEFINE i == w.from + (s - w.at)
  <2>1. s \in Nat /\ s - w.at \in 0 .. w.n - 1
    <3>1. s \in Nat
      BY CapAssumption DEF Slots
    <3>2. done \subseteq 0 .. w.n - 1
      OBVIOUS
    <3>3. QED
      BY <1>5, <3>1, <3>2
  <2> HIDE DEF new
  <2>2. i \in w.from .. w.from + w.n - 1 /\ i \in 1 .. n /\ w.at + (i - w.from) = s
    <3> DEFINE d == s - w.at
               from == w.from
               m == w.n
    <3>1. d \in 0 .. m - 1 /\ d \in Int /\ from \in Nat /\ m \in Nat /\ from >= 1
          /\ from + m - 1 <= n /\ i = from + d
      BY <1>1, <1>2, <2>1
    <3>2. w.at + d = s
      BY <1>2, <2>1
    <3> HIDE DEF d, from, m, i
    <3>3. i \in from .. from + m - 1 /\ i \in 1 .. n /\ i - from = d
      BY <1>1, <3>1
    <3>4. QED
      BY <3>2, <3>3 DEF from, m
  <2>3. new[s] = src[i]
    BY <1>5 DEF new
  <2> HIDE DEF i
  <2>4. s = SlotOf(head + i - 1)
    BY <1>2, <2>2 DEF Copies
  <2>5. QED
    BY <1>3, <2>2, <2>3, <2>4
<1>6. ASSUME NEW s \in Slots, s - w.at \notin done
      PROVE  new[s] = columns[w.col][s]
  BY <1>6
<1>7. new \in [Slots -> Values]
  <2>1. \A s \in Slots : new[s] \in Values
    BY <1>1, <1>2, <1>5, <1>6
  <2>2. QED
    BY <2>1
<1>8. ASSUME NEW i \in 1 .. n, Copies(w, i), i - w.from \in done
      PROVE  new[SlotOf(head + i - 1)] = batch[i][w.col]
  <2> DEFINE s == SlotOf(head + i - 1)
  <2>1. s = w.at + (i - w.from) /\ s \in Slots
    BY <1>1, <1>2, <1>8, BatchSlots DEF n
  <2> HIDE DEF s
  <2>2. s - w.at = i - w.from /\ w.from + (i - w.from) = i
    BY <1>1, <1>2, <2>1
  <2>3. new[s] = src[w.from + (s - w.at)]
    BY <1>8, <2>1, <2>2
  <2> HIDE DEF new
  <2>4. new[s] = batch[i][w.col]
    BY <1>3, <2>2, <2>3
  <2>5. QED
    BY <2>4 DEF s
<1> HIDE DEF new
<1>9. /\ columns'[w.col] = new
      /\ \A c \in ColumnNames : c # w.col => columns'[c] = columns[c]
      /\ columns' \in [ColumnNames -> [Slots -> Values]]
  BY <1>1, <1>2, <1>4, <1>7
<1>10. OnlyBatchSlots
  <2> SUFFICES ASSUME NEW c \in ColumnNames, NEW s \in Slots
               PROVE  \/ columns'[c][s] = columns[c][s]
                      \/ \E i \in 1 .. n :
                           s = SlotOf(head + i - 1) /\ columns'[c][s] = batch[i][c]
    BY DEF OnlyBatchSlots, n
  <2>1. CASE c # w.col
    BY <1>9, <2>1
  <2>2. CASE c = w.col /\ s - w.at \notin done
    BY <1>6, <1>9, <2>2
  <2>3. CASE c = w.col /\ s - w.at \in done
    BY <1>5, <1>9, <2>3
  <2>4. QED
    BY <2>1, <2>2, <2>3
<1>11. QED
  BY <1>8, <1>9, <1>10 DEF n

(* Writes to the slots of the batch leave the newer events intact, and the *)
(* fields of the batch that are already in place.                          *)
LEMMA BatchSlotsOnly ==
  ASSUME IInv, todo # << >>, OnlyBatchSlots, head' = head, log' = log
  PROVE  /\ NewerIntact'
         /\ \A c \in ColumnNames, i \in 1 .. Len(batch) :
              columns[c][SlotOf(head + i - 1)] = batch[i][c] =>
                columns'[c][SlotOf(head + i - 1)] = batch[i][c]
<1>1. ASSUME NEW h \in Oldest(head) .. head - 1, h >= head + MaxBatch - Cap,
             NEW c \in ColumnNames
      PROVE  columns'[c][SlotOf(h)] = log[h + 1][c]
  <2>1. h \in Nat /\ h < head /\ SlotOf(h) \in Slots
    <3>1. head \in Nat
      BY DEF IInv, TypeOK
    <3>2. h \in Nat /\ h < head
      BY <3>1, CapAssumption DEF Oldest
    <3>3. QED
      BY <3>2, SlotType
  <2>2. columns[c][SlotOf(h)] = log[h + 1][c]
    BY <1>1 DEF IInv, NewerIntact
  <2>3. \A i \in 1 .. Len(batch) : SlotOf(h) # SlotOf(head + i - 1)
    BY <1>1, <2>1, BatchSlots
  <2>4. QED
    BY <2>1, <2>2, <2>3 DEF OnlyBatchSlots
<1>2. ASSUME NEW c \in ColumnNames, NEW i \in 1 .. Len(batch),
             columns[c][SlotOf(head + i - 1)] = batch[i][c]
      PROVE  columns'[c][SlotOf(head + i - 1)] = batch[i][c]
  <2>1. /\ SlotOf(head + i - 1) \in Slots
        /\ \A k \in 1 .. Len(batch) : SlotOf(head + k - 1) = SlotOf(head + i - 1) => k = i
    BY BatchSlots
  <2> DEFINE s == SlotOf(head + i - 1)
  <2>2. \/ columns'[c][s] = columns[c][s]
        \/ \E k \in 1 .. Len(batch) :
             s = SlotOf(head + k - 1) /\ columns'[c][s] = batch[k][c]
    BY <2>1 DEF OnlyBatchSlots
  <2>3. QED
    BY <1>2, <2>1, <2>2
<1>3. NewerIntact'
  BY <1>1 DEF NewerIntact
<1>4. QED
  BY <1>2, <1>3

(* A batch is handed over.                                                 *)
LEMMA CallKeeps ==
  ASSUME IInv, NEW b \in Batches, Call(b)
  PROVE  IInv'
<1>1. /\ up /\ todo = << >> /\ batch' = b /\ todo' = Plan(head, Len(b))
      /\ UNCHANGED <<columns, head, count, len, up, log, kills>>
  BY DEF Call
<1>2. b \in Seq(Events) /\ Len(b) \in 1 .. MaxBatch /\ b # << >> /\ MaxBatch \in 1 .. Cap
  BY BatchType
<1>3. head \in Nat /\ Len(log) = head
  BY DEF IInv, TypeOK
<1>4. WholeCall(todo', head, b)
  BY <1>1, <1>3, PlanGood
<1>5. /\ todo' \in Seq(Writes) /\ Len(todo') >= 3 /\ Len(todo') \in Nat
      /\ Remainder(todo', head, b)
      /\ \A c \in ColumnNames, i \in 1 .. Len(b) : Pending(todo', c, i)
  BY <1>4 DEF WholeCall
<1>6. todo' # << >>
  BY <1>5, EmptySeq
<1>7. TypeOK'
  BY <1>1, <1>2 DEF IInv, TypeOK
<1>8. CallOK'
  BY <1>1, <1>2, <1>5, <1>6 DEF CallOK
<1>9. NewerIntact'
  BY <1>1 DEF IInv, NewerIntact
<1>10. CountBehind'
  <2>1. Len(todo) = 0
    BY <1>1, EmptySeq
  <2>2. count <= Min2(head, Cap) /\ Behind <= MaxBatch * kills
    BY <2>1 DEF IInv, CountBehind
  <2>3. Len(todo') \notin {1, 2}
    <3> DEFINE L == Len(todo')
    <3>1. L \in Nat /\ L >= 3
      BY <1>5
    <3> HIDE DEF L
    <3>2. L \notin {1, 2}
      BY <3>1
    <3>3. QED
      BY <3>2 DEF L
  <2>4. QED
    BY <1>1, <2>2, <2>3 DEF CountBehind, Behind
<1>11. QED
  BY <1>1, <1>3, <1>7, <1>8, <1>9, <1>10 DEF IInv

(* A memcpy completes.                                                     *)
LEMMA WriteColumnKeeps ==
  ASSUME IInv, WriteColumn
  PROVE  IInv'
<1> DEFINE w == Head(todo)
           n == Len(batch)
<1>1. /\ todo # << >> /\ w.what = "copy" /\ todo' = Tail(todo)
      /\ columns' = [columns EXCEPT ![w.col] =
                       CopyIn(columns[w.col], w.at, Field(batch, w.col), w.from, w.n)]
      /\ UNCHANGED <<head, count, len, up, batch, log, kills>>
  BY DEF WriteColumn
<1>2. /\ up /\ todo \in Seq(Writes) /\ Remainder(todo, head, batch) /\ batch # << >>
      /\ MaxBatch \in 1 .. Cap /\ Cap \in Nat \ {0}
  BY <1>1, InCall
<1>3. /\ w = todo[1] /\ Len(todo) \in Nat \ {0} /\ Len(todo) >= 4
      /\ GoodCopy(w, head, batch) /\ w \in Writes
  BY <1>1, <1>2, NextWrite, HeadTailProperties
<1>4. /\ todo' \in Seq(Writes) /\ Len(todo') = Len(todo) - 1
      /\ Remainder(todo', head, batch) /\ todo' # << >>
  BY <1>1, <1>2, <1>3, TailRemains
<1>5. \A j \in 1 .. Len(todo) - 1 : todo'[j] = todo[j + 1]
  BY <1>1, <1>2, <1>4, HeadTailProperties
<1> HIDE DEF w
<1>6. PartOfCopy(w, 0 .. w.n - 1)
  <2>1. \A s \in Slots : s \in w.at .. w.at + w.n - 1 <=> s - w.at \in 0 .. w.n - 1
    <3>1. w.at \in Nat /\ w.n \in Nat
      BY <1>3 DEF Writes
    <3>2. QED
      BY <3>1, CapAssumption DEF Slots
  <2>2. CopyIn(columns[w.col], w.at, Field(batch, w.col), w.from, w.n)
        = [s \in Slots |-> IF s - w.at \in 0 .. w.n - 1
                           THEN Field(batch, w.col)[w.from + (s - w.at)]
                           ELSE columns[w.col][s]]
    BY <2>1 DEF CopyIn
  <2>3. QED
    BY <1>1, <2>2 DEF PartOfCopy
<1>7. /\ columns' \in [ColumnNames -> [Slots -> Values]]
      /\ OnlyBatchSlots
      /\ \A i \in 1 .. n : Copies(w, i) /\ i - w.from \in 0 .. w.n - 1 =>
           columns'[w.col][SlotOf(head + i - 1)] = batch[i][w.col]
  BY <1>1, <1>3, <1>6, CopyStep
<1>8. /\ NewerIntact'
      /\ \A c \in ColumnNames, i \in 1 .. n :
           columns[c][SlotOf(head + i - 1)] = batch[i][c] =>
             columns'[c][SlotOf(head + i - 1)] = batch[i][c]
  BY <1>1, <1>7, BatchSlotsOnly
<1>9. ASSUME NEW c \in ColumnNames, NEW i \in 1 .. n
      PROVE  columns'[c][SlotOf(head + i - 1)] = batch[i][c] \/ Pending(todo', c, i)
  <2>1. columns[c][SlotOf(head + i - 1)] = batch[i][c] \/ Pending(todo, c, i)
    BY <1>3 DEF IInv, CallOK
  <2>2. CASE Pending(todo, c, i)
    <3>1. PICK j \in 1 .. Len(todo) - 3 : todo[j].col = c /\ Copies(todo[j], i)
      BY <2>2 DEF Pending
    <3>2. CASE j = 1
      <4>1. w.col = c /\ Copies(w, i)
        BY <1>3, <3>1, <3>2
      <4>2. i - w.from \in 0 .. w.n - 1
        <5> DEFINE from == w.from
                   m == w.n
        <5>1. from \in Nat /\ m \in Nat /\ i \in from .. from + m - 1
          BY <1>3, <4>1 DEF Copies, Writes
        <5> HIDE DEF from, m
        <5>2. i - from \in 0 .. m - 1
          BY <5>1
        <5>3. QED
          BY <5>2 DEF from, m
      <4>3. QED
        BY <1>7, <4>1, <4>2
    <3>3. CASE j # 1
      <4>1. j - 1 \in 1 .. Len(todo) - 1 /\ j - 1 \in 1 .. Len(todo') - 3 /\ (j - 1) + 1 = j
        BY <1>3, <1>4, <3>3
      <4>2. todo'[j - 1] = todo[j]
        BY <1>5, <4>1
      <4>3. QED
        BY <3>1, <4>1, <4>2 DEF Pending
    <3>4. QED
      BY <3>2, <3>3
  <2>3. QED
    BY <1>8, <2>1, <2>2
<1>10. TypeOK'
  BY <1>1, <1>7 DEF IInv, TypeOK
<1>11. CallOK'
  BY <1>1, <1>2, <1>4, <1>9 DEF CallOK
<1>12. CountBehind'
  <2>1. Len(todo) \notin {1, 2} /\ Len(todo') \notin {1, 2}
    BY <1>3, <1>4
  <2>2. QED
    BY <1>1, <2>1 DEF IInv, CountBehind, Behind
<1>13. QED
  BY <1>1, <1>8, <1>10, <1>11, <1>12 DEF IInv

(* header->head is written: the batch is part of the history.              *)
LEMMA WriteHeadKeeps ==
  ASSUME IInv, WriteHead
  PROVE  IInv'
<1> DEFINE n == Len(batch)
<1>1. /\ todo # << >> /\ Head(todo).what = "head" /\ todo' = Tail(todo)
      /\ head' = head + n /\ log' = log \o batch
      /\ UNCHANGED <<columns, count, len, up, batch, kills>>
  BY DEF WriteHead
<1>2. /\ up /\ todo \in Seq(Writes) /\ Remainder(todo, head, batch) /\ batch # << >>
      /\ batch \in Seq(Events) /\ n \in 1 .. MaxBatch
      /\ MaxBatch \in 1 .. Cap /\ Cap \in Nat \ {0}
  BY <1>1, InCall
<1>3. Len(todo) = 3
  BY <1>1, <1>2, NextWrite
<1>4. /\ todo' \in Seq(Writes) /\ Len(todo') = 2 /\ ~(Len(todo') >= 3)
      /\ Remainder(todo', head, batch) /\ todo' # << >>
  <2>1. /\ todo' \in Seq(Writes) /\ Len(todo') = Len(todo) - 1
        /\ Remainder(todo', head, batch)
    BY <1>1, <1>2, TailRemains
  <2>2. Len(todo') = 2
    BY <1>3, <2>1
  <2>3. todo' # << >>
    BY <2>2, EmptySeq
  <2>4. ~(2 >= 3)
    OBVIOUS
  <2>5. QED
    BY <2>1, <2>2, <2>3, <2>4
<1>5. head \in Nat /\ Len(log) = head /\ log \in Seq(Events) /\ kills \in Nat /\ count \in Nat
  BY <1>2 DEF IInv, TypeOK
<1>6. /\ log' \in Seq(Events) /\ Len(log') = head' /\ head' \in Nat
      /\ \A i \in 1 .. head : log'[i] = log[i]
      /\ \A k \in 1 .. n : log'[head + k] = batch[k]
  BY <1>1, <1>2, <1>5
<1> HIDE DEF n
<1>7. TypeOK'
  BY <1>1, <1>6 DEF IInv, TypeOK
<1>8. CallOK'
  <2>1. Remainder(todo', head', batch)
    BY <1>4 DEF Remainder
  <2>2. QED
    BY <1>1, <1>2, <1>4, <2>1 DEF CallOK
<1>9. ASSUME NEW h \in Oldest(head') .. head' - 1, h >= head' + MaxBatch - Cap,
             NEW c \in ColumnNames
      PROVE  columns'[c][SlotOf(h)] = log'[h + 1][c]
  <2>1. h \in Nat /\ h < head + n
    BY <1>1, <1>2, <1>5, <1>9 DEF Oldest
  <2>2. CASE h >= head
    <3> DEFINE i == h - head + 1
    <3>1. i \in 1 .. n /\ head + i - 1 = h /\ head + i = h + 1
      BY <1>2, <1>5, <2>1, <2>2
    <3> HIDE DEF i
    <3>2. ~Pending(todo, c, i)
      BY <1>3 DEF Pending
    <3>3. columns[c][SlotOf(head + i - 1)] = batch[i][c]
      BY <1>3, <3>1, <3>2 DEF IInv, CallOK, n
    <3>4. log'[h + 1] = batch[i]
      BY <1>6, <3>1
    <3>5. QED
      BY <1>1, <3>1, <3>3, <3>4
  <2>3. CASE h < head
    <3>1. h \in Oldest(head) .. head - 1 /\ h >= head + MaxBatch - Cap /\ h + 1 \in 1 .. head
      BY <1>1, <1>2, <1>5, <1>9, <2>1, <2>3 DEF Oldest
    <3>2. columns[c][SlotOf(h)] = log[h + 1][c]
      BY <3>1 DEF IInv, NewerIntact
    <3>3. log'[h + 1] = log[h + 1]
      BY <1>6, <3>1
    <3>4. QED
      BY <1>1, <3>2, <3>3
  <2>4. QED
    BY <1>5, <2>1, <2>2, <2>3
<1>10. NewerIntact'
  BY <1>9 DEF NewerIntact
<1>11. CountBehind'
  <2>1. count <= Min2(head, Cap) /\ Min2(head, Cap) - count <= MaxBatch * kills
    BY <1>3 DEF IInv, CountBehind, Behind
  <2>2. MaxBatch * kills \in Nat
    BY <1>5, OneMoreKill
  <2> DEFINE m == MaxBatch * kills
  <2> HIDE DEF m
  <2>3. /\ count <= Min2(head + n, Cap)
        /\ Min2(head + n, Cap) - count <= m + MaxBatch
    BY <1>2, <1>5, <2>1, <2>2 DEF Min2, m
  <2>4. QED
    <3>1. count' <= Min2(head', Cap) /\ Behind' <= MaxBatch * kills' + MaxBatch
      BY <1>1, <2>3 DEF Behind, m
    <3>2. Len(todo') \in {1, 2} /\ Len(todo') # 1
      BY <1>4
    <3>3. QED
      BY <3>1, <3>2 DEF CountBehind
<1>12. QED
  BY <1>6, <1>7, <1>8, <1>10, <1>11 DEF IInv

(* header->count is written.                                               *)
LEMMA WriteCountKeeps ==
  ASSUME IInv, WriteCount
  PROVE  IInv'
<1>1. /\ todo # << >> /\ Head(todo).what = "count" /\ todo' = Tail(todo)
      /\ count' = Min2(head, Cap)
      /\ UNCHANGED <<columns, head, len, up, batch, log, kills>>
  BY DEF WriteCount, NewCount
<1>2. /\ up /\ todo \in Seq(Writes) /\ Remainder(todo, head, batch) /\ batch # << >>
  BY <1>1, InCall
<1>3. Len(todo) = 2
  BY <1>1, <1>2, NextWrite
<1>4. /\ todo' \in Seq(Writes) /\ Len(todo') = 1 /\ ~(Len(todo') >= 3)
      /\ Remainder(todo', head, batch) /\ todo' # << >>
  <2>1. /\ todo' \in Seq(Writes) /\ Len(todo') = Len(todo) - 1
        /\ Remainder(todo', head, batch)
    BY <1>1, <1>2, TailRemains
  <2>2. Len(todo') = 1
    BY <1>3, <2>1
  <2>3. todo' # << >>
    BY <2>2, EmptySeq
  <2>4. ~(1 >= 3)
    OBVIOUS
  <2>5. QED
    BY <2>1, <2>2, <2>3, <2>4
<1>5. head \in Nat /\ Len(log) = head
  BY DEF IInv, TypeOK
<1>6. Min2(head, Cap) \in 0 .. Cap
  BY <1>5, CapAssumption DEF Min2
<1>7. TypeOK'
  BY <1>1, <1>6 DEF IInv, TypeOK
<1>8. CallOK'
  BY <1>1, <1>2, <1>4 DEF CallOK
<1>9. NewerIntact'
  BY <1>1 DEF IInv, NewerIntact
<1>10. CountBehind'
  <2> DEFINE m == Min2(head, Cap)
  <2>1. count' = m /\ m \in Int /\ m <= m /\ m - m = 0
    BY <1>1, <1>6, CapAssumption
  <2>2. QED
    BY <1>1, <1>4, <2>1 DEF CountBehind, Behind
<1>11. QED
  BY <1>1, <1>5, <1>7, <1>8, <1>9, <1>10 DEF IInv

(* store->len is written and the call returns.                             *)
LEMMA WriteLenKeeps ==
  ASSUME IInv, WriteLen
  PROVE  /\ IInv'
         /\ count' = Min2(head', Cap) /\ len' = count'
<1>1. /\ todo # << >> /\ Head(todo).what = "len" /\ todo' = << >> /\ batch' = << >>
      /\ len' = Min2(head, Cap)
      /\ UNCHANGED <<columns, head, count, up, log, kills>>
  BY DEF WriteLen, NewCount
<1>2. todo \in Seq(Writes) /\ Remainder(todo, head, batch)
  BY <1>1, InCall
<1>3. Len(todo) = 1
  BY <1>1, <1>2, NextWrite
<1>4. head \in Nat /\ Len(log) = head /\ kills \in Nat /\ count \in Nat
  BY CapAssumption DEF IInv, TypeOK
<1>5. Min2(head, Cap) \in 0 .. Cap
  BY <1>4, CapAssumption DEF Min2
<1>6. count = Min2(head, Cap)
  <2>1. count <= Min2(head, Cap) /\ Min2(head, Cap) - count = 0
    BY <1>3 DEF IInv, CountBehind, Behind
  <2> DEFINE m == Min2(head, Cap)
  <2>2. m \in 0 .. Cap /\ m - count = 0
    BY <1>5, <2>1
  <2> HIDE DEF m
  <2>3. count = m
    BY <1>4, <2>2, CapAssumption
  <2>4. QED
    BY <2>3 DEF m
<1>7. todo' \in Seq(Writes) /\ batch' \in Seq(Events) /\ Len(todo') = 0 /\ Len(batch') = 0
  BY <1>1, EmptySeq
<1>8. TypeOK'
  <2>1. Len(batch') <= MaxBatch
    BY <1>7, RecoveryAssumption, CapAssumption
  <2>2. QED
    BY <1>1, <1>5, <1>7, <2>1 DEF IInv, TypeOK
<1>9. CallOK'
  <2>1. ~(0 >= 1) /\ ~(0 >= 2) /\ ~(0 >= 3) /\ 1 .. 0 - 3 = {}
    OBVIOUS
  <2>2. Remainder(todo', head', batch')
    BY <1>7, <2>1 DEF Remainder
  <2>3. QED
    BY <1>1, <1>7, <2>1, <2>2 DEF CallOK
<1>10. NewerIntact'
  BY <1>1 DEF IInv, NewerIntact
<1>11. CountBehind'
  <2> DEFINE m == Min2(head, Cap)
             d == MaxBatch * kills
  <2>1. d \in Nat /\ m \in 0 .. Cap
    BY <1>4, <1>5, OneMoreKill
  <2> HIDE DEF m, d
  <2>2. m <= m /\ m - m <= d /\ 0 \notin {1, 2} /\ 0 # 2 /\ 0 # 1
    BY <2>1, CapAssumption
  <2>3. count' = m /\ Min2(head', Cap) = m /\ MaxBatch * kills' = d
    BY <1>1, <1>6 DEF m, d
  <2>4. QED
    BY <1>7, <2>2, <2>3 DEF CountBehind, Behind
<1>12. IInv'
  BY <1>1, <1>4, <1>8, <1>9, <1>10, <1>11 DEF IInv
<1>13. QED
  BY <1>1, <1>6, <1>12

(* The process is killed, also in the middle of a memcpy.                  *)
LEMMA KillKeeps ==
  ASSUME IInv, Kill
  PROVE  IInv'
<1>1. /\ kills' = kills + 1 /\ up' = FALSE /\ todo' = << >> /\ batch' = << >> /\ len' = 0
      /\ UNCHANGED <<head, count, log>>
  BY DEF Kill
<1>2. head \in Nat /\ Len(log) = head /\ kills \in Nat /\ count \in 0 .. Cap
  BY DEF IInv, TypeOK
<1>3. columns' \in [ColumnNames -> [Slots -> Values]] /\ NewerIntact'
  <2>1. CASE todo # << >> /\ Head(todo).what = "copy"
    <3> DEFINE w == Head(todo)
    <3>1. todo \in Seq(Writes) /\ Remainder(todo, head, batch)
      BY <2>1, InCall
    <3>2. GoodCopy(w, head, batch) /\ w \in Writes
      BY <2>1, <3>1, NextWrite, HeadTailProperties
    <3>3. PICK done \in SUBSET (0 .. w.n - 1) : PartOfCopy(w, done)
      BY <2>1 DEF Kill, PartOfCopy
    <3> HIDE DEF w
    <3>4. columns' \in [ColumnNames -> [Slots -> Values]] /\ OnlyBatchSlots
      BY <2>1, <3>2, <3>3, CopyStep
    <3>5. NewerIntact'
      BY <1>1, <2>1, <3>4, BatchSlotsOnly
    <3>6. QED
      BY <3>4, <3>5
  <2>2. CASE ~(todo # << >> /\ Head(todo).what = "copy")
    <3>1. columns' = columns
      BY <2>2 DEF Kill
    <3>2. QED
      BY <1>1, <3>1 DEF IInv, TypeOK, NewerIntact
  <2>3. QED
    BY <2>1, <2>2
<1>4. todo' \in Seq(Writes) /\ batch' \in Seq(Events) /\ Len(todo') = 0 /\ Len(batch') = 0
  BY <1>1, EmptySeq
<1>5. TypeOK'
  <2>1. Len(batch') <= MaxBatch /\ 0 \in 0 .. Cap /\ kills + 1 \in Nat
    BY <1>2, <1>4, RecoveryAssumption, CapAssumption
  <2>2. QED
    BY <1>1, <1>3, <1>4, <2>1 DEF IInv, TypeOK
<1>6. CallOK'
  <2>1. ~(0 >= 1) /\ ~(0 >= 2) /\ ~(0 >= 3) /\ 1 .. 0 - 3 = {}
    OBVIOUS
  <2>2. Remainder(todo', head', batch')
    BY <1>4, <2>1 DEF Remainder
  <2>3. QED
    BY <1>1, <1>4, <2>1, <2>2 DEF CallOK
<1>7. CountBehind'
  <2> DEFINE m == Min2(head, Cap)
             d == MaxBatch * kills
             L == Len(todo)
  <2>1. d \in Nat /\ MaxBatch * (kills + 1) = d + MaxBatch
    BY <1>2, OneMoreKill
  <2>2. m \in Nat /\ count \in Nat /\ MaxBatch \in Nat
    BY <1>2, RecoveryAssumption, CapAssumption DEF Min2
  <2>3. /\ count <= m
        /\ L \notin {1, 2} => m - count <= d
        /\ L = 2 => m - count <= d + MaxBatch
        /\ L = 1 => m - count = 0
    BY DEF IInv, CountBehind, Behind
  <2> HIDE DEF m, d, L
  <2>4. m - count <= d + MaxBatch
    <3>1. L \notin {1, 2} \/ L = 1 \/ L = 2
      OBVIOUS
    <3>2. CASE m - count <= d
      BY <2>1, <2>2, <3>2
    <3>3. CASE m - count = 0
      BY <2>1, <2>2, <3>3
    <3>4. QED
      BY <2>3, <3>1, <3>2, <3>3
  <2>5. 0 \notin {1, 2} /\ 0 # 2 /\ 0 # 1
    OBVIOUS
  <2>6. count' = count /\ Min2(head', Cap) = m /\ MaxBatch * kills' = d + MaxBatch
    BY <1>1, <2>1 DEF m
  <2>7. QED
    BY <1>4, <2>3, <2>4, <2>5, <2>6 DEF CountBehind, Behind
<1>8. QED
  BY <1>1, <1>2, <1>3, <1>5, <1>6, <1>7 DEF IInv

(* The file is opened again.                                               *)
LEMMA ReopenKeeps ==
  ASSUME IInv, Reopen
  PROVE  IInv'
<1>1. /\ up' = TRUE /\ len' = count
      /\ UNCHANGED <<columns, head, count, batch, todo, log, kills>>
  BY DEF Reopen
<1>2. TypeOK'
  BY <1>1 DEF IInv, TypeOK
<1>3. CallOK'
  BY <1>1 DEF IInv, CallOK
<1>4. NewerIntact' /\ CountBehind'
  BY <1>1 DEF IInv, NewerIntact, CountBehind, Behind
<1>5. QED
  BY <1>1, <1>2, <1>3, <1>4 DEF IInv

-----------------------------------------------------------------------------
(* The inductive invariant.                                                *)

(* An empty store without a call satisfies the invariant.                  *)
LEMMA InitInvariant == Init => IInv
<1> SUFFICES ASSUME Init PROVE IInv
  OBVIOUS
<1>1. /\ Len(log) = 0 /\ log \in Seq(Events) /\ Len(todo) = 0 /\ todo \in Seq(Writes)
      /\ Len(batch) = 0 /\ batch \in Seq(Events)
  BY EmptySeq DEF Init
<1>2. TypeOK
  BY <1>1, CapAssumption, RecoveryAssumption DEF Init, TypeOK, Values
<1>3. CallOK
  <2>1. ~(0 >= 1) /\ ~(0 >= 2) /\ ~(0 >= 3) /\ 1 .. 0 - 3 = {}
    OBVIOUS
  <2>2. Remainder(todo, head, batch)
    BY <1>1, <2>1 DEF Remainder
  <2>3. QED
    BY <1>1, <2>1, <2>2 DEF CallOK, Init
<1>4. NewerIntact
  BY CapAssumption DEF Init, NewerIntact, Oldest
<1>5. CountBehind
  <2>1. MaxBatch * 0 = 0 /\ Min2(0, Cap) = 0
    BY CapAssumption, RecoveryAssumption DEF Min2
  <2>2. QED
    BY <1>1, <2>1 DEF Init, CountBehind, Behind
<1>6. QED
  BY <1>1, <1>2, <1>3, <1>4, <1>5 DEF IInv, Init

(* Every write, every kill and every reopening preserves it.               *)
LEMMA StepInvariant == IInv /\ [Next]_vars => IInv'
<1> SUFFICES ASSUME IInv, [Next]_vars PROVE IInv'
  OBVIOUS
<1>1. ASSUME NEW b \in Batches, Call(b) PROVE IInv'
  BY <1>1, CallKeeps
<1>2. CASE WriteColumn
  BY <1>2, WriteColumnKeeps
<1>3. CASE WriteHead
  BY <1>3, WriteHeadKeeps
<1>4. CASE WriteCount
  BY <1>4, WriteCountKeeps
<1>5. CASE WriteLen
  BY <1>5, WriteLenKeeps
<1>6. CASE Kill
  BY <1>6, KillKeeps
<1>7. CASE Reopen
  BY <1>7, ReopenKeeps
<1>8. CASE UNCHANGED vars
  BY <1>8 DEF vars, IInv, TypeOK, CallOK, NewerIntact, CountBehind, Behind
<1>9. QED
  BY <1>1, <1>2, <1>3, <1>4, <1>5, <1>6, <1>7, <1>8 DEF Next

(* Hence it holds in every reachable state.                                *)
THEOREM Invariance == Spec => []IInv
<1>1. Init => IInv
  BY InitInvariant
<1>2. IInv /\ [Next]_vars => IInv'
  BY StepInvariant
<1>3. QED
  BY <1>1, <1>2, PTL DEF Spec

-----------------------------------------------------------------------------
(* What the invariant says of a store that is killed.                      *)

(* The mapped header and columns keep their types through every kill, in   *)
(* particular count stays within the capacity and a torn copy leaves only  *)
(* values that some event has.                                             *)
THEOREM TypeCorrect == Spec => []TypeOK
BY Invariance, PTL DEF IInv

(* Fields that agree make records that agree.                              *)
LEMMA InvariantConfines == IInv => DamageConfined
<1> SUFFICES ASSUME IInv, NEW h \in Oldest(head) .. head - 1, h >= head + MaxBatch - Cap
             PROVE  RecordAt(SlotOf(h)) = log[h + 1]
  BY DEF DamageConfined
<1>1. head \in Nat /\ Len(log) = head /\ log \in Seq(Events)
  BY DEF IInv, TypeOK
<1>2. h + 1 \in 1 .. head
  BY <1>1, CapAssumption DEF Oldest
<1>3. log[h + 1] \in [ColumnNames -> Int]
  BY <1>1, <1>2, RecoveryAssumption
<1>4. \A c \in ColumnNames : columns[c][SlotOf(h)] = log[h + 1][c]
  BY DEF IInv, NewerIntact
<1>5. QED
  BY <1>3, <1>4 DEF RecordAt

(* However often the process is killed, and wherever in an insertion, only *)
(* the MaxBatch oldest retained events can be damaged.                     *)
THEOREM KillsDamageOnlyOldest == Spec => []DamageConfined
BY InvariantConfines, Invariance, PTL

(* An idle store has no write between those of head and count.             *)
LEMMA InvariantCounts == IInv => CountNeverAhead
<1> SUFFICES ASSUME IInv PROVE CountNeverAhead
  OBVIOUS
<1>1. count <= Min2(head, Cap)
  BY DEF IInv, CountBehind
<1>2. ASSUME todo = << >> PROVE Min2(head, Cap) - count <= MaxBatch * kills
  <2>1. Len(todo) = 0 /\ 0 \notin {1, 2}
    BY <1>2, EmptySeq
  <2>2. QED
    BY <2>1 DEF IInv, CountBehind, Behind
<1>3. QED
  BY <1>1, <1>2 DEF CountNeverAhead

(* The stored count never claims an event that was not written, and an     *)
(* idle store under-reports by at most a batch for each kill.              *)
THEOREM CountFallsBehindByKills == Spec => []CountNeverAhead
BY InvariantCounts, Invariance, PTL

(* An insertion that returns leaves head, count and len in agreement,      *)
(* whatever earlier kills had left.                                        *)
THEOREM ReturnHeals == Spec => InsertionHealsHeader
<1> DEFINE Healed == up' /\ todo # << >> /\ todo' = << >> =>
                       count' = Min2(head', Cap) /\ len' = count'
<1>1. IInv /\ [Next]_vars => [Healed]_vars
  <2> SUFFICES ASSUME IInv, Next, up', todo # << >>, todo' = << >>
               PROVE  count' = Min2(head', Cap) /\ len' = count'
    OBVIOUS
  <2>1. todo \in Seq(Writes) /\ Remainder(todo, head, batch) /\ up
    BY InCall
  <2>2. \A b \in Batches : ~Call(b)
    BY DEF Call
  <2>3. todo' = Tail(todo) => Len(todo) = 1
    BY <2>1, TailRemains
  <2>4. ~WriteColumn
    BY <2>1, <2>3, NextWrite DEF WriteColumn
  <2>5. ~WriteHead
    BY <2>1, <2>3, NextWrite DEF WriteHead
  <2>6. ~WriteCount
    BY <2>1, <2>3, NextWrite DEF WriteCount
  <2>7. ~Kill /\ ~Reopen
    BY <2>1 DEF Kill, Reopen
  <2>8. WriteLen
    BY <2>2, <2>4, <2>5, <2>6, <2>7 DEF Next
  <2>9. QED
    BY <2>8, WriteLenKeeps
<1>2. QED
  BY <1>1, Invariance, PTL DEF Spec, InsertionHealsHeader
=============================================================================

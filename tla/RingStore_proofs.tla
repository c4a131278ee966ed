-------------------------- MODULE RingStore_proofs --------------------------
(***************************************************************************)
(* Proofs about RingStore for every capacity, event set, rule list and     *)
(* bound: its type invariant, the agreement of the header with the         *)
(* history, that the slots hold the newest events whole, that the store    *)
(* implements the numbered log it promises, and that its extraction serves *)
(* exactly what it can.                                                    *)
(***************************************************************************)
EXTENDS RingStore, RingIndex_proofs, SequenceTheorems, FiniteSetTheorems,
        WellFoundedInduction

(* RingHoldsNewest, column by column: what the copies establish directly.  *)
ColumnsHold ==
  \A h \in Oldest(StoreHead) .. StoreHead - 1 :
    \A c \in ColumnNames : columns[c][SlotOf(h)] = log[h + 1][c]

(* The inductive invariant.                                                *)
IInv == TypeOK /\ HeaderAgrees /\ ColumnsHold

-----------------------------------------------------------------------------
(* Facts about the operators.                                              *)

(* A column value is a value of some event.                                *)
LEMMA EventFields ==
  ASSUME NEW e \in Events, NEW c \in ColumnNames
  PROVE  e[c] \in Values
  BY DEF Values

(* A batch is a sequence of at most Cap events.                            *)
LEMMA BatchType ==
  ASSUME NEW batch \in Batches
  PROVE  batch \in Seq(Events) /\ Len(batch) \in 1 .. MaxBatch /\ Len(batch) <= Cap
  BY BatchAssumption, CapAssumption DEF Batches

(* The survivors of a batch are a part of it, and none of them is dropped. *)
LEMMA SurvivorsKept ==
  ASSUME NEW rs, NEW batch \in Batches, NEW ix \in Survivors(rs, batch)
  PROVE  /\ Pick(batch, ix) \in Seq(Events)
         /\ Len(Pick(batch, ix)) \in 0 .. Len(batch)
         /\ \A k \in 1 .. Len(Pick(batch, ix)) : ~ShouldDrop(rs, Pick(batch, ix)[k])
<1>1. PICK n \in 0 .. Len(batch) : ix \in [1 .. n -> 1 .. Len(batch)]
  BY DEF Survivors
<1>2. batch \in Seq(Events) /\ Len(batch) \in Nat
  BY BatchType, BatchAssumption
<1>3. \A k \in 1 .. n : ix[k] \in 1 .. Len(batch) /\ batch[ix[k]] \in Events
  BY <1>1, <1>2
<1>4. Pick(batch, ix) \in [1 .. n -> Events]
  BY <1>1, <1>3 DEF Pick
<1>5. Pick(batch, ix) \in Seq(Events) /\ Len(Pick(batch, ix)) = n
  BY <1>1, <1>2, <1>4
<1>6. \A k \in 1 .. n : ~ShouldDrop(rs, batch[ix[k]])
  BY <1>1, <1>3 DEF Survivors
<1>7. QED
  BY <1>1, <1>2, <1>5, <1>6 DEF Pick

(* The column of a batch has one value for each of its events.             *)
LEMMA FieldType ==
  ASSUME NEW b \in Seq(Events), NEW c \in ColumnNames
  PROVE  /\ Field(b, c) \in Seq(Values)
         /\ Len(Field(b, c)) = Len(b)
         /\ \A i \in 1 .. Len(b) : Field(b, c)[i] = b[i][c]
<1>1. \A i \in 1 .. Len(b) : b[i][c] \in Values
  BY EventFields
<1>2. QED
  BY <1>1 DEF Field

(* One memcpy of part of a batch keeps the column a column.                *)
LEMMA CopyInType ==
  ASSUME NEW col \in [Slots -> Values], NEW at \in Slots, NEW src \in Seq(Values),
         NEW from \in 1 .. Len(src), NEW n \in Nat, from + n - 1 <= Len(src)
  PROVE  CopyIn(col, at, src, from, n) \in [Slots -> Values]
<1>1. \A s \in Slots : s \in at .. at + n - 1 => src[from + (s - at)] \in Values
  BY CapAssumption DEF Slots
<1>2. QED
  BY <1>1 DEF CopyIn

(* Both cases of a ring write: event h + k of the batch is in its slot,    *)
(* and the events that are still among the newest Cap are untouched.       *)
LEMMA RingWriteCorrect ==
  ASSUME NEW col \in [Slots -> Values], NEW h \in Nat, NEW src \in Seq(Values),
         Len(src) \in 1 .. Cap
  PROVE  /\ RingWrite(col, h, src) \in [Slots -> Values]
         /\ \A k \in 0 .. Len(src) - 1 :
              RingWrite(col, h, src)[SlotOf(h + k)] = src[k + 1]
         /\ \A g \in Nat : h + Len(src) - Cap <= g /\ g < h =>
              RingWrite(col, h, src)[SlotOf(g)] = col[SlotOf(g)]
<1> DEFINE slot == SlotOf(h)
           tail == Cap - slot
           n == Len(src)
           new == RingWrite(col, h, src)
<1>0. slot \in Slots /\ slot \in 0 .. Cap - 1 /\ Cap \in Nat \ {0}
  BY SlotType, CapAssumption
<1>t. tail \in 1 .. Cap /\ n \in 1 .. Cap /\ slot + tail = Cap
  BY <1>0
<1>1. ASSUME NEW k \in 0 .. n - 1
      PROVE  /\ SlotOf(h + k) \in Slots
             /\ SlotOf(h + k) = IF slot + k < Cap THEN slot + k ELSE slot + k - Cap
  <2>1. k \in 0 .. Cap /\ h + k \in Nat
    BY <1>0
  <2>2. QED
    BY <2>1, SlotShift, SlotType
<1>2. ASSUME NEW g \in Nat, h + n - Cap <= g, g < h
      PROVE  /\ SlotOf(g) \in Slots
             /\ SlotOf(g) \in 0 .. Cap - 1
             /\ slot = IF SlotOf(g) + (h - g) < Cap THEN SlotOf(g) + (h - g)
                                                   ELSE SlotOf(g) + (h - g) - Cap
             /\ h - g \in 1 .. Cap - n
  <2>1. h - g \in 0 .. Cap /\ g + (h - g) = h /\ h - g \in 1 .. Cap - n
    BY <1>0, <1>2
  <2>2. QED
    BY <2>1, SlotShift, SlotType
<1> HIDE DEF slot, new
<1>3. CASE n <= tail
  <2>1. new = CopyIn(col, slot, src, 1, n)
    BY <1>3 DEF RingWrite, slot, new
  <2>2. new \in [Slots -> Values]
    BY <1>0, <1>t, <2>1, CopyInType
  <2>3. \A s \in Slots : new[s] = IF s \in slot .. slot + n - 1 THEN src[1 + (s - slot)] ELSE col[s]
    BY <2>1 DEF CopyIn
  <2>4. ASSUME NEW k \in 0 .. n - 1
        PROVE  new[SlotOf(h + k)] = src[k + 1]
    <3>1. SlotOf(h + k) = slot + k /\ slot + k \in Slots
      BY <1>0, <1>t, <1>1, <1>3
    <3>2. slot + k \in slot .. slot + n - 1 /\ 1 + ((slot + k) - slot) = k + 1
      BY <1>0, <1>t
    <3>3. QED
      BY <2>3, <3>1, <3>2
  <2>5. ASSUME NEW g \in Nat, h + n - Cap <= g, g < h
        PROVE  new[SlotOf(g)] = col[SlotOf(g)]
    <3>1. SlotOf(g) \in Slots /\ SlotOf(g) \notin slot .. slot + n - 1
      BY <1>0, <1>t, <1>2, <1>3, <2>5
    <3>2. QED
      BY <2>3, <3>1
  <2>6. QED
    BY <2>2, <2>4, <2>5 DEF slot, new
<1>4. CASE ~(n <= tail)
  <2> DEFINE first == CopyIn(col, slot, src, 1, tail)
  <2>1. new = CopyIn(first, 0, src, tail + 1, n - tail)
    BY <1>4 DEF RingWrite, slot, new
  <2>2. first \in [Slots -> Values]
    BY <1>0, <1>t, <1>4, CopyInType
  <2> HIDE DEF first
  <2>3. new \in [Slots -> Values]
    <3>1. 0 \in Slots /\ tail + 1 \in 1 .. Len(src) /\ n - tail \in Nat
          /\ tail + 1 + (n - tail) - 1 <= Len(src)
      BY <1>0, <1>t, <1>4 DEF Slots
    <3>2. QED
      BY <2>1, <2>2, <3>1, CopyInType
  <2>4. \A s \in Slots : new[s] = IF s \in 0 .. 0 + (n - tail) - 1
                                  THEN src[tail + 1 + (s - 0)] ELSE first[s]
    BY <2>1 DEF CopyIn
  <2>5. \A s \in Slots : first[s] = IF s \in slot .. slot + tail - 1
                                    THEN src[1 + (s - slot)] ELSE col[s]
    BY DEF CopyIn, first
  <2>6. ASSUME NEW k \in 0 .. n - 1
        PROVE  new[SlotOf(h + k)] = src[k + 1]
    <3>1. CASE slot + k < Cap
      <4>1. SlotOf(h + k) = slot + k /\ slot + k \in Slots
        BY <1>1, <3>1
      <4>2. /\ slot + k \notin 0 .. 0 + (n - tail) - 1
            /\ slot + k \in slot .. slot + tail - 1
            /\ 1 + ((slot + k) - slot) = k + 1
        BY <1>0, <1>t, <3>1
      <4>3. QED
        BY <2>4, <2>5, <4>1, <4>2
    <3>2. CASE ~(slot + k < Cap)
      <4>1. SlotOf(h + k) = slot + k - Cap /\ slot + k - Cap \in Slots
        BY <1>1, <3>2
      <4>2. /\ slot + k - Cap \in 0 .. 0 + (n - tail) - 1
            /\ tail + 1 + ((slot + k - Cap) - 0) = k + 1
        BY <1>0, <1>t, <3>2
      <4>3. QED
        BY <2>4, <4>1, <4>2
    <3>3. QED
      BY <3>1, <3>2
  <2>7. ASSUME NEW g \in Nat, h + n - Cap <= g, g < h
        PROVE  new[SlotOf(g)] = col[SlotOf(g)]
    <3>1. /\ SlotOf(g) \in Slots
          /\ SlotOf(g) \notin 0 .. 0 + (n - tail) - 1
          /\ SlotOf(g) \notin slot .. slot + tail - 1
      BY <1>0, <1>t, <1>2, <1>4, <2>7
    <3>2. QED
      BY <2>4, <2>5, <3>1
  <2>8. QED
    BY <2>3, <2>6, <2>7 DEF slot, new
<1>5. QED
  BY <1>3, <1>4
-----------------------------------------------------------------------------
(* One lemma per way the store changes.                                    *)

(* Appending a batch to the history.                                       *)
LEMMA LogAppend ==
  ASSUME NEW s \in Seq(Events), NEW b \in Seq(Events)
  PROVE  /\ s \o b \in Seq(Events)
         /\ Len(s \o b) = Len(s) + Len(b)
         /\ \A i \in 1 .. Len(s) : (s \o b)[i] = s[i]
         /\ \A k \in 1 .. Len(b) : (s \o b)[Len(s) + k] = b[k]
  OBVIOUS

(* A ring write of a non-empty batch keeps the store's part of the         *)
(* invariant: new events are where their index says, older ones stay.      *)
LEMMA InsertRingKeeps ==
  ASSUME IInv, NEW b \in Seq(Events), Len(b) \in 1 .. Cap, InsertRing(b),
         rules' \in Seq(CompiledRule), events_dropped' \in Nat
  PROVE  IInv'
<1> DEFINE n == Len(b)
<1>1. Cap \in Nat \ {0} /\ n \in 1 .. Cap /\ Persistent
  BY CapAssumption DEF InsertRing
<1>2. /\ head \in Nat /\ log \in Seq(Events) /\ head = Len(log)
      /\ columns \in [ColumnNames -> [Slots -> Values]]
  BY <1>1 DEF IInv, TypeOK, HeaderAgrees, StoreHead
<1>3. /\ head' = head + n /\ head' \in Nat
      /\ count' = Min2(head', Cap) /\ len' = count' /\ count' \in 0 .. Cap
  BY <1>1, <1>2 DEF InsertRing, NewCount, Min2
<1>4. /\ log' \in Seq(Events) /\ Len(log') = head'
      /\ \A i \in 1 .. head : log'[i] = log[i]
      /\ \A k \in 1 .. n : log'[head + k] = b[k]
  BY <1>2, <1>3, LogAppend DEF InsertRing
<1>5. ASSUME NEW c \in ColumnNames
      PROVE  /\ columns'[c] \in [Slots -> Values]
             /\ \A k \in 0 .. n - 1 : columns'[c][SlotOf(head + k)] = b[k + 1][c]
             /\ \A g \in Nat : head + n - Cap <= g /\ g < head =>
                  columns'[c][SlotOf(g)] = columns[c][SlotOf(g)]
  <2> DEFINE src == Field(b, c)
             new == RingWrite(columns[c], head, src)
  <2>1. columns'[c] = new
    BY DEF InsertRing
  <2>2. src \in Seq(Values) /\ Len(src) = n /\ \A i \in 1 .. n : src[i] = b[i][c]
    BY FieldType
  <2>3. columns[c] \in [Slots -> Values]
    BY <1>2
  <2> HIDE DEF src
  <2>4. Len(src) \in 1 .. Cap
    BY <1>1, <2>2
  <2>5. /\ new \in [Slots -> Values]
        /\ \A k \in 0 .. Len(src) - 1 : new[SlotOf(head + k)] = src[k + 1]
        /\ \A g \in Nat : head + Len(src) - Cap <= g /\ g < head =>
             new[SlotOf(g)] = columns[c][SlotOf(g)]
    BY <1>2, <2>2, <2>3, <2>4, RingWriteCorrect
  <2> HIDE DEF new
  <2>6. \A k \in 0 .. n - 1 : k + 1 \in 1 .. n
    BY <1>1
  <2>7. QED
    BY <2>1, <2>2, <2>5, <2>6
<1>6. columns' \in [ColumnNames -> [Slots -> Values]]
  BY <1>5 DEF InsertRing
<1>7. TypeOK'
  BY <1>3, <1>4, <1>6 DEF TypeOK
<1>8. HeaderAgrees'
  BY <1>1, <1>3, <1>4 DEF HeaderAgrees, StoreHead, NewCount
<1>9. ColumnsHold'
  <2> SUFFICES ASSUME NEW h \in Oldest(head') .. head' - 1, NEW c \in ColumnNames
               PROVE  columns'[c][SlotOf(h)] = log'[h + 1][c]
    BY <1>1 DEF ColumnsHold, StoreHead
  <2>1. h \in Nat /\ h < head + n /\ head + n - Cap <= h
    BY <1>1, <1>2, <1>3 DEF Oldest
  <2>2. CASE h >= head
    <3> DEFINE k == h - head
    <3>1. k \in 0 .. n - 1 /\ head + k = h /\ k + 1 \in 1 .. n
          /\ head + (k + 1) = h + 1
      BY <1>1, <1>2, <2>1, <2>2
    <3> HIDE DEF k
    <3>2. columns'[c][SlotOf(h)] = b[k + 1][c]
      BY <1>5, <3>1
    <3>3. log'[h + 1] = b[k + 1]
      BY <1>4, <3>1
    <3>4. QED
      BY <3>2, <3>3
  <2>3. CASE h < head
    <3>1. h \in Oldest(head) .. head - 1 /\ h + 1 \in 1 .. head
      BY <1>1, <1>2, <2>1, <2>3 DEF Oldest
    <3>2. columns'[c][SlotOf(h)] = columns[c][SlotOf(h)]
      BY <1>5, <2>1, <2>3
    <3>3. columns[c][SlotOf(h)] = log[h + 1][c]
      BY <1>1, <3>1 DEF IInv, ColumnsHold, StoreHead
    <3>4. log'[h + 1] = log[h + 1]
      BY <1>4, <3>1
    <3>5. QED
      BY <3>2, <3>3, <3>4
  <2>4. QED
    BY <1>2, <2>1, <2>2, <2>3
<1>10. QED
  BY <1>7, <1>8, <1>9 DEF IInv

(* The same for a batch that fits behind the contents of an anonymous      *)
(* store.                                                                  *)
LEMMA InsertLinearKeeps ==
  ASSUME IInv, NEW b \in Seq(Events), Len(b) \in 1 .. Cap, InsertLinear(b),
         rules' \in Seq(CompiledRule), events_dropped' \in Nat
  PROVE  IInv'
<1> DEFINE n == Len(b)
<1>1. Cap \in Nat \ {0} /\ n \in 1 .. Cap /\ ~Persistent
  BY CapAssumption DEF InsertLinear
<1>2. /\ len \in 0 .. Cap /\ log \in Seq(Events) /\ len = Len(log)
      /\ columns \in [ColumnNames -> [Slots -> Values]]
  BY <1>1 DEF IInv, TypeOK, HeaderAgrees, StoreHead
<1>3. /\ len' = len + n /\ len' \in 0 .. Cap /\ len + n <= Cap
      /\ UNCHANGED <<head, count>>
  BY <1>1, <1>2 DEF InsertLinear, Fits
<1>4. /\ log' \in Seq(Events) /\ Len(log') = len'
      /\ \A i \in 1 .. len : log'[i] = log[i]
      /\ \A k \in 1 .. n : log'[len + k] = b[k]
  BY <1>2, <1>3, LogAppend DEF InsertLinear
<1>5. ASSUME NEW c \in ColumnNames
      PROVE  /\ columns'[c] \in [Slots -> Values]
             /\ \A s \in Slots : columns'[c][s] = IF s \in len .. len + n - 1
                                                  THEN b[s - len + 1][c]
                                                  ELSE columns[c][s]
  <2> DEFINE src == Field(b, c)
  <2>1. columns'[c] = CopyIn(columns[c], len, src, 1, n)
    BY DEF InsertLinear
  <2>2. src \in Seq(Values) /\ Len(src) = n /\ \A i \in 1 .. n : src[i] = b[i][c]
    BY FieldType
  <2>3. columns[c] \in [Slots -> Values] /\ len \in Slots
    BY <1>1, <1>2, <1>3 DEF Slots
  <2> HIDE DEF src
  <2>4. 1 \in 1 .. Len(src) /\ n \in Nat /\ 1 + n - 1 <= Len(src)
    BY <1>1, <2>2
  <2>5. columns'[c] \in [Slots -> Values]
    BY <2>1, <2>2, <2>3, <2>4, CopyInType
  <2>6. ASSUME NEW s \in Slots
        PROVE  columns'[c][s] = IF s \in len .. len + n - 1 THEN b[s - len + 1][c]
                                                            ELSE columns[c][s]
    <3>1. columns'[c][s] = IF s \in len .. len + n - 1 THEN src[1 + (s - len)]
                                                       ELSE columns[c][s]
      BY <2>1 DEF CopyIn
    <3>2. s \in len .. len + n - 1 => /\ 1 + (s - len) = s - len + 1
                                      /\ s - len + 1 \in 1 .. n
      BY <1>1, <1>2 DEF Slots
    <3>3. QED
      BY <2>2, <3>1, <3>2
  <2>7. QED
    BY <2>5, <2>6
<1>6. columns' \in [ColumnNames -> [Slots -> Values]]
  BY <1>5 DEF InsertLinear
<1>7. TypeOK'
  BY <1>3, <1>4, <1>6 DEF TypeOK, IInv
<1>8. HeaderAgrees'
  BY <1>1, <1>3, <1>4 DEF HeaderAgrees, StoreHead, Min2
<1>9. ColumnsHold'
  <2> SUFFICES ASSUME NEW h \in Oldest(len') .. len' - 1, NEW c \in ColumnNames
               PROVE  columns'[c][SlotOf(h)] = log'[h + 1][c]
    BY <1>1 DEF ColumnsHold, StoreHead
  <2>1. h \in 0 .. len + n - 1 /\ h \in Slots
    BY <1>1, <1>2, <1>3 DEF Oldest, Slots
  <2>2. SlotOf(h) = h
    BY <2>1, SlotIdentity
  <2>3. CASE h >= len
    <3> DEFINE k == h - len + 1
    <3>1. k \in 1 .. n /\ len + k = h + 1 /\ h \in len .. len + n - 1
      BY <1>1, <1>2, <2>1, <2>3
    <3>2. columns'[c][h] = b[k][c]
      BY <1>5, <2>1, <3>1
    <3> HIDE DEF k
    <3>3. log'[h + 1] = b[k]
      BY <1>4, <3>1
    <3>4. QED
      BY <2>2, <3>2, <3>3
  <2>4. CASE h < len
    <3>1. h \in Oldest(len) .. len - 1 /\ h + 1 \in 1 .. len
          /\ h \notin len .. len + n - 1
      BY <1>1, <1>2, <2>1, <2>4 DEF Oldest
    <3>2. columns'[c][h] = columns[c][h]
      BY <1>5, <2>1, <3>1
    <3>3. columns[c][SlotOf(h)] = log[h + 1][c]
      BY <1>1, <3>1 DEF IInv, ColumnsHold, StoreHead
    <3>4. log'[h + 1] = log[h + 1]
      BY <1>4, <3>1
    <3>5. QED
      BY <2>2, <3>2, <3>3, <3>4
  <2>5. QED
    BY <1>2, <2>1, <2>3, <2>4
<1>10. QED
  BY <1>7, <1>8, <1>9 DEF IInv

(* Nothing is stored: the store's part of the invariant is untouched.      *)
LEMMA StoreUntouched ==
  ASSUME IInv, UNCHANGED <<columns, head, count, len, log>>,
         rules' \in Seq(CompiledRule), events_dropped' \in Nat
  PROVE  IInv'
BY DEF IInv, TypeOK, HeaderAgrees, ColumnsHold, StoreHead, RecordAt

-----------------------------------------------------------------------------
(* The inductive invariant.                                                *)

(* An empty store satisfies the invariant.                                 *)
LEMMA InitInvariant == Init => IInv
<1> SUFFICES ASSUME Init PROVE IInv
  OBVIOUS
<1>1. Len(log) = 0 /\ log \in Seq(Events) /\ rules \in Seq(CompiledRule)
  BY DEF Init
<1>2. TypeOK
  BY <1>1, CapAssumption DEF Init, TypeOK, Values
<1>3. HeaderAgrees
  BY <1>1, CapAssumption DEF Init, HeaderAgrees, StoreHead, Min2
<1>4. ColumnsHold
  BY CapAssumption DEF Init, ColumnsHold, StoreHead, Oldest
<1>5. QED
  BY <1>2, <1>3, <1>4 DEF IInv

(* What an insertion comes to: the survivors take the fast path, and the   *)
(* rules that were cleared for it are in force again.                      *)
LEMMA InsertionPath ==
  ASSUME NEW batch, BatchInsert(batch)
  PROVE  /\ rules' = rules /\ loaded' = loaded
         /\ \E ix \in Survivors(rules, batch) :
              LET kept == Pick(batch, ix)
              IN  /\ events_dropped' = events_dropped + (Len(batch) - Len(kept))
                  /\ IF Len(kept) = 0
                     THEN UNCHANGED <<columns, head, count, len, log>>
                     ELSE InsertRing(kept) \/ InsertLinear(kept) \/ Refuse(kept)
BY DEF BatchInsert, FastPath, PutBack

(* Every call of the store preserves it.                                   *)
LEMMA StepInvariant == IInv /\ [Next]_vars => IInv'
<1> SUFFICES ASSUME IInv, [Next]_vars PROVE IInv'
  OBVIOUS
<1>1. ASSUME NEW batch \in Batches, BatchInsert(batch) PROVE IInv'
  <2>1. rules' \in Seq(CompiledRule) /\ events_dropped \in Nat
    BY <1>1, InsertionPath DEF IInv, TypeOK
  <2>2. PICK ix \in Survivors(rules, batch) :
          LET kept == Pick(batch, ix)
          IN  /\ events_dropped' = events_dropped + (Len(batch) - Len(kept))
              /\ IF Len(kept) = 0
                 THEN UNCHANGED <<columns, head, count, len, log>>
                 ELSE \/ InsertRing(kept)
                      \/ InsertLinear(kept)
                      \/ Refuse(kept)
    BY <1>1, InsertionPath
  <2> DEFINE kept == Pick(batch, ix)
  <2>3. /\ kept \in Seq(Events) /\ Len(kept) \in 0 .. Len(batch)
        /\ Len(batch) \in Nat /\ Len(batch) <= Cap
    BY SurvivorsKept, BatchType, BatchAssumption
  <2> HIDE DEF kept
  <2>4. events_dropped' \in Nat
    BY <2>1, <2>2, <2>3 DEF kept
  <2>5. Len(kept) # 0 => Len(kept) \in 1 .. Cap
    BY <2>3, CapAssumption
  <2>6. CASE UNCHANGED <<columns, head, count, len, log>>
    BY <2>1, <2>4, <2>6, StoreUntouched
  <2>7. CASE Len(kept) # 0 /\ InsertRing(kept)
    BY <2>1, <2>3, <2>4, <2>5, <2>7, InsertRingKeeps
  <2>8. CASE Len(kept) # 0 /\ InsertLinear(kept)
    BY <2>1, <2>3, <2>4, <2>5, <2>8, InsertLinearKeeps
  <2>9. Refuse(kept) => UNCHANGED <<columns, head, count, len, log>>
    BY DEF Refuse
  <2>10. QED
    BY <2>2, <2>6, <2>7, <2>8, <2>9 DEF kept
<1>2. ASSUME NEW rs \in RuleLists, SetRules(rs) PROVE IInv'
  <2>1. rs \in Seq(CompiledRule) /\ Min2(Len(rs), MaxRules) \in 0 .. Len(rs)
    BY ConstantsAssumption DEF Min2, MaxRules
  <2>2. SubSeq(rs, 1, Min2(Len(rs), MaxRules)) \in Seq(CompiledRule)
    BY <2>1
  <2>3. rules' \in Seq(CompiledRule) /\ events_dropped' \in Nat
    BY <1>2, <2>2 DEF SetRules
  <2>4. QED
    BY <1>2, <2>3, StoreUntouched DEF SetRules
<1>3. ASSUME Restart PROVE IInv'
  <2>1. rules' \in Seq(CompiledRule) /\ events_dropped' \in Nat
    BY <1>3 DEF Restart
  <2>2. CASE Persistent
    <3>1. count = len
      BY <2>2 DEF IInv, HeaderAgrees
    <3>2. UNCHANGED <<columns, head, count, len, log>>
      BY <1>3, <2>2, <3>1 DEF Restart
    <3>3. QED
      BY <2>1, <3>2, StoreUntouched
  <2>3. CASE ~Persistent
    <3>1. /\ columns' = [c \in ColumnNames |-> [s \in Slots |-> 0]]
          /\ len' = 0 /\ log' = << >> /\ UNCHANGED <<head, count>>
      BY <1>3, <2>3 DEF Restart
    <3>2. log' \in Seq(Events) /\ Len(log') = 0
      BY <3>1
    <3>3. TypeOK'
      BY <2>1, <3>1, <3>2, CapAssumption DEF TypeOK, IInv, Values
    <3>4. HeaderAgrees'
      BY <2>3, <3>1, <3>2, CapAssumption DEF HeaderAgrees, StoreHead, Min2
    <3>5. ColumnsHold'
      BY <2>3, <3>1, CapAssumption DEF ColumnsHold, StoreHead, Oldest
    <3>6. QED
      BY <3>3, <3>4, <3>5 DEF IInv
  <2>4. QED
    BY <2>2, <2>3
<1>4. CASE UNCHANGED vars
  BY <1>4, StoreUntouched DEF vars, IInv, TypeOK
<1>5. QED
  BY <1>1, <1>2, <1>3, <1>4 DEF Next

(* Hence it holds in every reachable state.                                *)
THEOREM Invariance == Spec => []IInv
<1>1. Init => IInv
  BY InitInvariant
<1>2. IInv /\ [Next]_vars => IInv'
  BY StepInvariant
<1>3. QED
  BY <1>1, <1>2, PTL DEF Spec

-----------------------------------------------------------------------------
(* What the invariant says of the store.                                   *)

(* The variables of the store always have their types, in particular the   *)
(* live length never exceeds the capacity and no column holds a value that *)
(* no event had.                                                           *)
THEOREM TypeCorrect == Spec => []TypeOK
BY Invariance, PTL DEF IInv

(* head, count and len describe the same window of the history after every *)
(* call of the store and after every restart.                              *)
THEOREM HeaderAgreement == Spec => []HeaderAgrees
BY Invariance, PTL DEF IInv

(* Events that agree column by column are equal: the columns put together  *)
(* are the newest events.                                                  *)
LEMMA InvariantRetains == IInv => RingHoldsNewest
<1> SUFFICES ASSUME IInv, NEW h \in Oldest(StoreHead) .. StoreHead - 1
             PROVE  RecordAt(SlotOf(h)) = log[h + 1]
  BY DEF RingHoldsNewest
<1>1. StoreHead \in Nat /\ StoreHead = Len(log) /\ log \in Seq(Events)
  BY DEF IInv, TypeOK, HeaderAgrees, StoreHead
<1>2. h + 1 \in 1 .. Len(log)
  BY <1>1, CapAssumption DEF Oldest
<1>3. log[h + 1] \in [ColumnNames -> Int]
  BY <1>1, <1>2, EventsAssumption
<1>4. \A c \in ColumnNames : columns[c][SlotOf(h)] = log[h + 1][c]
  BY DEF IInv, ColumnsHold
<1>5. QED
  BY <1>3, <1>4 DEF RecordAt

(* Each of the newest Cap events stays whole in its slot, whatever the     *)
(* capacity and however the batches straddle the end of the columns.       *)
THEOREM NewestRetained == Spec => []RingHoldsNewest
BY InvariantRetains, Invariance, PTL

(* The rules in force are the rules last loaded: every insertion puts back *)
(* what it cleared.                                                        *)
LEMMA InForce == Spec => [](rules = loaded)
<1>1. Init => rules = loaded
  BY DEF Init
<1>2. rules = loaded /\ [Next]_vars => (rules = loaded)'
  <2> SUFFICES ASSUME rules = loaded, [Next]_vars PROVE rules' = loaded'
    OBVIOUS
  <2>1. ASSUME NEW batch \in Batches, BatchInsert(batch) PROVE rules' = loaded'
    BY <2>1, InsertionPath
  <2>2. ASSUME NEW rs \in RuleLists, SetRules(rs) PROVE rules' = loaded'
    BY <2>2 DEF SetRules
  <2>3. QED
    BY <2>1, <2>2 DEF Next, Restart, vars
<1>3. QED
  BY <1>1, <1>2, PTL DEF Spec

(* An event that the rules last loaded drop never enters the store,        *)
(* however many insertions lie between: the survivors that are inserted    *)
(* are exactly events no rule drops, and what an insertion clears it puts  *)
(* back.                                                                   *)
THEOREM DroppedNeverEnters == Spec => LoadedRulesHold
<1> DEFINE Held == \A i \in Len(log) + 1 .. Len(log') : ~ShouldDrop(loaded, log'[i])
<1>1. IInv /\ rules = loaded /\ [Next]_vars => [Held]_vars
  <2> SUFFICES ASSUME IInv, rules = loaded, Next PROVE Held
    OBVIOUS
  <2>1. log \in Seq(Events) /\ Len(log) \in Nat
    BY DEF IInv, TypeOK
  <2>2. ASSUME NEW batch \in Batches, BatchInsert(batch) PROVE Held
    <3>1. PICK ix \in Survivors(rules, batch) :
            LET kept == Pick(batch, ix)
            IN  log' = log \/ (Len(kept) # 0 /\ log' = log \o kept)
      BY <2>2, InsertionPath DEF InsertRing, InsertLinear, Refuse
    <3> DEFINE kept == Pick(batch, ix)
    <3>2. /\ kept \in Seq(Events)
          /\ \A k \in 1 .. Len(kept) : ~ShouldDrop(rules, kept[k])
      BY SurvivorsKept
    <3>4. log' = log \/ log' = log \o kept
      BY <3>1
    <3> HIDE DEF kept
    <3>5. CASE log' = log
      BY <2>1, <3>5
    <3>6. CASE log' = log \o kept
      <4> SUFFICES ASSUME NEW i \in Len(log) + 1 .. Len(log')
                   PROVE  ~ShouldDrop(loaded, log'[i])
        OBVIOUS
      <4>1. /\ Len(log') = Len(log) + Len(kept) /\ Len(kept) \in Nat
            /\ \A k \in 1 .. Len(kept) : log'[Len(log) + k] = kept[k]
        BY <2>1, <3>2, <3>6, LogAppend
      <4>2. i - Len(log) \in 1 .. Len(kept) /\ Len(log) + (i - Len(log)) = i
        BY <2>1, <4>1
      <4>3. log'[i] = kept[i - Len(log)]
        BY <4>1, <4>2
      <4>4. QED
        BY <3>2, <4>2, <4>3
    <3>7. QED
      BY <3>4, <3>5, <3>6
  <2>3. ASSUME NEW rs \in RuleLists, SetRules(rs) PROVE Held
    BY <2>1, <2>3 DEF SetRules
  <2>4. ASSUME Restart PROVE Held
    BY <2>1, <2>4 DEF Restart
  <2>5. QED
    BY <2>2, <2>3, <2>4 DEF Next
<1>2. QED
  BY <1>1, Invariance, InForce, PTL DEF Spec, LoadedRulesHold

-----------------------------------------------------------------------------
(* Facts about keeping the newest part of a sequence.                      *)

(* The newest part: its length and its elements.                           *)
LEMMA NewestElements ==
  ASSUME NEW s \in Seq(Events)
  PROVE  /\ Promised!Newest(s) \in Seq(Events)
         /\ Len(Promised!Newest(s)) = Min2(Len(s), Cap)
         /\ \A i \in 1 .. Len(Promised!Newest(s)) :
              Promised!Newest(s)[i] = s[Oldest(Len(s)) + i]
<1>1. Len(s) \in Nat /\ Cap \in Nat \ {0}
  BY CapAssumption
<1>2. CASE Len(s) > Cap
  <2> DEFINE m == Len(s) - Cap + 1
  <2>1. Promised!Newest(s) = SubSeq(s, m, Len(s))
    BY <1>2 DEF Promised!Newest
  <2>2. m \in 1 .. Len(s) /\ Len(s) \in 1 .. Len(s) /\ m <= Len(s)
    BY <1>1, <1>2
  <2>3. /\ SubSeq(s, m, Len(s)) \in Seq(Events)
        /\ Len(SubSeq(s, m, Len(s))) = Len(s) - m + 1
        /\ \A i \in 1 .. Len(s) - m + 1 : SubSeq(s, m, Len(s))[i] = s[m + i - 1]
    BY <1>1, <2>2, SubSeqProperties
  <2>4. Len(s) - m + 1 = Cap /\ Min2(Len(s), Cap) = Cap /\ Oldest(Len(s)) = m - 1
    BY <1>1, <1>2 DEF Min2, Oldest
  <2>5. \A i \in 1 .. Cap : m + i - 1 = Oldest(Len(s)) + i
    BY <1>1, <2>2, <2>4
  <2>6. QED
    BY <2>1, <2>3, <2>4, <2>5
<1>3. CASE ~(Len(s) > Cap)
  BY <1>1, <1>3 DEF Promised!Newest, Min2, Oldest
<1>4. QED
  BY <1>2, <1>3

(* Forgetting early makes no difference: appending to the newest part of a *)
(* history keeps the same events as appending to the whole of it.          *)
LEMMA NewestAppend ==
  ASSUME NEW s \in Seq(Events), NEW b \in Seq(Events)
  PROVE  Promised!Newest(Promised!Newest(s) \o b) = Promised!Newest(s \o b)
<1> DEFINE w == Promised!Newest(s)
           wb == w \o b
           sb == s \o b
           x == Promised!Newest(wb)
           y == Promised!Newest(sb)
           n == Len(s)
           k == Len(b)
           m == Min2(n, Cap)
<1>1. n \in Nat /\ k \in Nat /\ Cap \in Nat \ {0} /\ m \in 0 .. Cap
  BY CapAssumption DEF Min2
<1>2. /\ w \in Seq(Events) /\ Len(w) = m
      /\ \A i \in 1 .. m : w[i] = s[Oldest(n) + i]
  BY NewestElements
<1> HIDE DEF w
<1>3. /\ sb \in Seq(Events) /\ Len(sb) = n + k
      /\ \A i \in 1 .. n : sb[i] = s[i]
      /\ \A i \in 1 .. k : sb[n + i] = b[i]
  BY LogAppend
<1> HIDE DEF m
<1>4. /\ wb \in Seq(Events) /\ Len(wb) = m + k
      /\ \A i \in 1 .. m : wb[i] = w[i]
      /\ \A i \in 1 .. k : wb[m + i] = b[i]
  <2>1. /\ wb \in Seq(Events) /\ Len(wb) = Len(w) + k
        /\ \A i \in 1 .. Len(w) : wb[i] = w[i]
        /\ \A i \in 1 .. k : wb[Len(w) + i] = b[i]
    BY <1>2, LogAppend
  <2>2. QED
    BY <1>2, <2>1
<1> HIDE DEF wb, sb, n, k
<1>5. /\ x \in Seq(Events) /\ Len(x) = Min2(m + k, Cap)
      /\ \A i \in 1 .. Len(x) : x[i] = wb[Oldest(m + k) + i]
  <2>1. /\ x \in Seq(Events) /\ Len(x) = Min2(Len(wb), Cap)
        /\ \A i \in 1 .. Len(x) : x[i] = wb[Oldest(Len(wb)) + i]
    BY <1>4, NewestElements
  <2>2. QED
    BY <1>4, <2>1
<1>6. /\ y \in Seq(Events) /\ Len(y) = Min2(n + k, Cap)
      /\ \A i \in 1 .. Len(y) : y[i] = sb[Oldest(n + k) + i]
  <2>1. /\ y \in Seq(Events) /\ Len(y) = Min2(Len(sb), Cap)
        /\ \A i \in 1 .. Len(y) : y[i] = sb[Oldest(Len(sb)) + i]
    BY <1>3, NewestElements
  <2>2. QED
    BY <1>3, <2>1
<1> HIDE DEF x, y
<1>7. Min2(m + k, Cap) = Min2(n + k, Cap)
  BY <1>1 DEF Min2, m
<1>8. ASSUME NEW i \in 1 .. Len(x) PROVE x[i] = y[i]
  <2>1. Len(x) = Len(y) /\ Len(x) = Min2(m + k, Cap)
    BY <1>5, <1>6, <1>7
  <2>2. i \in Nat /\ 1 <= i /\ i <= m + k /\ i <= Cap
    BY <1>1, <2>1 DEF Min2
  <2> DEFINE p == Oldest(m + k) + i
             q == Oldest(n + k) + i
  <2>3. x[i] = wb[p] /\ y[i] = sb[q]
    BY <1>5, <1>6, <2>1
  <2>4. CASE p <= m
    <3>1. p \in 1 .. m /\ q \in 1 .. n /\ Oldest(n) + p = q
      BY <1>1, <2>2, <2>4 DEF Oldest, Min2, m
    <3> HIDE DEF p, q
    <3>2. sb[q] = s[q] /\ wb[p] = w[p] /\ w[p] = s[q]
      BY <1>2, <1>3, <1>4, <3>1
    <3>3. QED
      BY <2>3, <3>2
  <2>5. CASE p > m
    <3> DEFINE j == p - m
    <3>1. m + k \in Nat /\ i <= Min2(m + k, Cap) /\ p <= m + k
      BY <1>1, <2>1, <2>2 DEF Oldest, Min2
    <3>2. q - n = p - m
      BY <1>1, <2>2, <2>5 DEF Oldest, Min2, m
    <3>3. p \in Int /\ q \in Int
      BY <1>1, <2>2 DEF Oldest
    <3> HIDE DEF p, q
    <3>4. j \in 1 .. k /\ m + j = p /\ n + j = q
      BY <1>1, <2>5, <3>1, <3>2, <3>3
    <3> HIDE DEF j
    <3>5. QED
      BY <1>3, <1>4, <2>3, <3>4
  <2>6. p \in Int
    BY <1>1, <2>2 DEF Oldest
  <2> HIDE DEF p
  <2>7. QED
    BY <1>1, <2>4, <2>5, <2>6
<1>9. x = y
  <2>1. Len(x) = Len(y)
    BY <1>5, <1>6, <1>7
  <2>2. QED
    BY <1>5, <1>6, <1>8, <2>1
<1>10. QED
  BY <1>9 DEF x, y, wb, sb, w

-----------------------------------------------------------------------------
(* Reading the slots in scan order.                                        *)

(* The i-th slot a scan visits is the slot of the i-th retained event,     *)
(* before the ring wraps and after it.                                     *)
LEMMA ScanVisits ==
  ASSUME NEW h \in Nat, NEW i \in 1 .. Min2(h, Cap)
  PROVE  /\ Oldest(h) + i - 1 \in Nat
         /\ (ScanStart(h) + (i - 1)) % Cap = SlotOf(Oldest(h) + i - 1)
<1>0. Cap \in Nat \ {0} /\ i \in Nat /\ 1 <= i /\ i <= Cap /\ i - 1 \in 0 .. Cap
  BY CapAssumption DEF Min2
<1>1. CASE h <= Cap
  BY <1>0, <1>1 DEF ScanStart, Oldest, SlotOf
<1>2. CASE h > Cap
  <2> DEFINE j == i - 1
             g == h - Cap
             t == SlotOf(h)
  <2>1. g \in Nat /\ g + Cap = h /\ Oldest(h) + i - 1 = g + j /\ j \in 0 .. Cap
        /\ g + j \in Nat
    BY <1>0, <1>2 DEF Oldest
  <2>2. SlotOf(g) = t
    BY <2>1, SlotTurn
  <2>3. t \in Slots /\ SlotOf(t) = t /\ t \in Nat
    BY SlotType, SlotIdentity
  <2> HIDE DEF g, j, t
  <2>4. SlotOf(g + j) = SlotOf(t + j)
    BY <2>1, <2>2, <2>3, SlotShift
  <2>5. (ScanStart(h) + (i - 1)) % Cap = SlotOf(t + j)
    BY <1>0, <1>2 DEF ScanStart, SlotOf, t, j
  <2>6. QED
    BY <2>1, <2>4, <2>5
<1>3. QED
  BY <1>0, <1>1, <1>2

(* Scan order reads the newest part of the history.                        *)
LEMMA OrderedIsNewest == IInv => Ordered = Promised!Newest(log)
<1> SUFFICES ASSUME IInv PROVE Ordered = Promised!Newest(log)
  OBVIOUS
<1> DEFINE h == StoreHead
           w == Promised!Newest(log)
<1>1. /\ h \in Nat /\ h = Len(log) /\ log \in Seq(Events) /\ len = Min2(h, Cap)
      /\ Cap \in Nat \ {0} /\ len \in 0 .. Cap
  BY CapAssumption DEF IInv, TypeOK, HeaderAgrees, StoreHead
<1>2. /\ w \in Seq(Events) /\ Len(w) = len
      /\ \A i \in 1 .. len : w[i] = log[Oldest(h) + i]
  BY <1>1, NewestElements
<1>3. RingHoldsNewest
  BY InvariantRetains
<1> HIDE DEF h, w
<1>4. ASSUME NEW i \in 1 .. len
      PROVE  RecordAt((ScanStart(h) + (i - 1)) % Cap) = w[i]
  <2> DEFINE g == Oldest(h) + i - 1
  <2>1. g \in Nat /\ (ScanStart(h) + (i - 1)) % Cap = SlotOf(g)
    BY <1>1, ScanVisits
  <2>2. g \in Oldest(h) .. h - 1 /\ g + 1 = Oldest(h) + i
    BY <1>1 DEF Oldest, Min2
  <2> HIDE DEF g
  <2>3. RecordAt(SlotOf(g)) = log[g + 1]
    BY <1>3, <2>2 DEF RingHoldsNewest, h
  <2>4. QED
    BY <1>2, <2>1, <2>2, <2>3
<1>5. Ordered = [i \in 1 .. len |-> w[i]]
  BY <1>4 DEF Ordered, h
<1>6. w = [i \in 1 .. len |-> w[i]]
  BY <1>1, <1>2
<1>7. QED
  BY <1>5, <1>6 DEF w

-----------------------------------------------------------------------------
(* Refinement.                                                             *)

(* A batch that enters the store enters the log.                           *)
LEMMA AppendAccepts ==
  ASSUME IInv, IInv', NEW b \in Seq(Events), Len(b) \in 1 .. Cap, log' = log \o b,
         Persistent \/ StoreHead + Len(b) <= Cap
  PROVE  Promised!Next
<1>1. Ordered = Promised!Newest(log)
  BY OrderedIsNewest
<1>2. (IInv => Ordered = Promised!Newest(log))'
  BY OrderedIsNewest, PTL
<1>3. Ordered' = Promised!Newest(log')
  BY <1>2 DEF Promised!Newest
<1>4. log \in Seq(Events) /\ StoreHead = Len(log) /\ StoreHead' = Len(log')
  BY DEF IInv, TypeOK, HeaderAgrees
<1>5. StoreHead' = StoreHead + Len(b)
  BY <1>4, LogAppend
<1>6. Ordered' = Promised!Newest(Ordered \o b)
  BY <1>1, <1>3, <1>4, NewestAppend
<1>7. Promised!Accept(b)
  BY <1>5, <1>6 DEF Promised!Accept
<1>8. b \in [1 .. Len(b) -> Events]
  OBVIOUS
<1>9. QED
  BY <1>7, <1>8 DEF Promised!Next

(* Every call of the store is a step of the log or leaves it unchanged.    *)
LEMMA StepRefines ==
  ASSUME IInv, IInv', [Next]_vars
  PROVE  [Promised!Next]_(Promised!logVars)
<1>0. UNCHANGED <<columns, head, len>> => UNCHANGED Promised!logVars
  BY DEF Promised!logVars, Ordered, StoreHead, RecordAt
<1>1. ASSUME NEW batch \in Batches, BatchInsert(batch)
      PROVE  Promised!Next \/ UNCHANGED <<columns, head, len>>
  <2>1. PICK ix \in Survivors(rules, batch) :
          LET kept == Pick(batch, ix)
          IN  IF Len(kept) = 0
              THEN UNCHANGED <<columns, head, count, len, log>>
              ELSE InsertRing(kept) \/ InsertLinear(kept) \/ Refuse(kept)
    BY <1>1, InsertionPath
  <2> DEFINE kept == Pick(batch, ix)
  <2>2. /\ kept \in Seq(Events) /\ Len(kept) \in 0 .. Len(batch)
        /\ Len(batch) \in Nat /\ Len(batch) <= Cap
    BY SurvivorsKept, BatchType, BatchAssumption
  <2> HIDE DEF kept
  <2>3. Len(kept) # 0 => Len(kept) \in 1 .. Cap
    BY <2>2, CapAssumption
  <2>4. CASE Len(kept) # 0 /\ InsertRing(kept)
    <3>1. Persistent /\ log' = log \o kept
      BY <2>4 DEF InsertRing
    <3>2. QED
      BY <2>2, <2>3, <2>4, <3>1, AppendAccepts
  <2>5. CASE Len(kept) # 0 /\ InsertLinear(kept)
    <3>1. StoreHead + Len(kept) <= Cap /\ log' = log \o kept
      BY <2>5 DEF InsertLinear, Fits, StoreHead
    <3>2. QED
      BY <2>2, <2>3, <2>5, <3>1, AppendAccepts
  <2>6. Refuse(kept) => UNCHANGED <<columns, head, len>>
    BY DEF Refuse
  <2>7. QED
    BY <2>1, <2>4, <2>5, <2>6 DEF kept
<1>2. ASSUME NEW rs \in RuleLists, SetRules(rs)
      PROVE  UNCHANGED <<columns, head, len>>
  BY <1>2 DEF SetRules
<1>3. ASSUME Restart
      PROVE  Promised!Next \/ UNCHANGED <<columns, head, len>>
  <2>1. CASE Persistent
    BY <1>3, <2>1 DEF Restart, IInv, HeaderAgrees
  <2>2. CASE ~Persistent
    <3>1. len' = 0
      BY <1>3, <2>2 DEF Restart
    <3>2. StoreHead' = 0
      BY <2>2, <3>1 DEF StoreHead
    <3>3. Ordered' = << >>
      BY <3>1 DEF Ordered
    <3>4. Promised!Restart
      BY <2>2, <3>2, <3>3 DEF Promised!Restart
    <3>5. QED
      BY <3>4 DEF Promised!Next
  <2>3. QED
    BY <2>1, <2>2
<1>4. CASE UNCHANGED vars
  BY <1>0, <1>4 DEF vars
<1>5. QED
  BY <1>0, <1>1, <1>2, <1>3, <1>4 DEF Next

(* The store implements the numbered log: what the scan order reads is     *)
(* always the newest Cap accepted events, batches enter whole and in       *)
(* order, and only a restart of an anonymous store forgets anything.       *)
THEOREM Implementation == Spec => ImplementsEventLog
<1>1. Init => Promised!Init
  <2> SUFFICES ASSUME Init PROVE Promised!Init
    OBVIOUS
  <2>1. StoreHead = 0 /\ len = 0
    BY DEF Init, StoreHead
  <2>2. Ordered = << >>
    BY <2>1 DEF Ordered
  <2>3. QED
    BY <2>1, <2>2 DEF Promised!Init
<1>2. IInv /\ IInv' /\ [Next]_vars => [Promised!Next]_(Promised!logVars)
  BY StepRefines
<1>3. QED
  BY <1>1, <1>2, Invariance, PTL DEF Spec, ImplementsEventLog, Promised!Spec

-----------------------------------------------------------------------------
(* Extraction.                                                             *)

(* Whatever range the archiver asks for, it is served exactly the part of  *)
(* it that is still retained, whole and in order, also when that part      *)
(* straddles the end of the columns.                                       *)
THEOREM ExtractionFaithful == Spec => []ExtractFaithful
<1>1. IInv => ExtractFaithful
  <2> SUFFICES ASSUME IInv, NEW from \in 0 .. StoreHead, NEW n \in 1 .. MaxHead
               PROVE  ExtractRaw(from, n) =
                        SubSeq(log, (IF from < Oldest(StoreHead)
                                     THEN Oldest(StoreHead) ELSE from) + 1,
                                    Min2(from + n, StoreHead))
    BY DEF ExtractFaithful
  <2> DEFINE h == StoreHead
             lo == IF from < Oldest(h) THEN Oldest(h) ELSE from
             hi == Min2(from + n, h)
             r == ExtractRange(h, from, n)
             served == ExtractRaw(from, n)
             wanted == SubSeq(log, lo + 1, hi)
  <2>1. /\ h \in Nat /\ h = Len(log) /\ log \in Seq(Events)
        /\ Cap \in Nat \ {0} /\ n \in Nat \ {0} /\ RingHoldsNewest
    BY CapAssumption, ConstantsAssumption, InvariantRetains
       DEF IInv, TypeOK, HeaderAgrees, StoreHead
  <2>2. lo \in 0 .. h /\ hi \in 0 .. h /\ hi - lo <= Cap /\ Oldest(h) <= lo
    BY <2>1 DEF Oldest, Min2
  <2>3. /\ hi <= lo => r.n = 0
        /\ lo < hi => r.from = lo /\ r.n = hi - lo
    BY <2>1, ExtractRangeCorrect
  <2>4. served = [i \in 1 .. r.n |->
                    RecordAt(IF i <= Cap - SlotOf(r.from)
                             THEN SlotOf(r.from) + i - 1
                             ELSE i - (Cap - SlotOf(r.from)) - 1)]
    BY DEF ExtractRaw
  <2> HIDE DEF h, lo, hi, r, served, wanted
  <2>5. CASE hi <= lo
    <3>1. wanted = << >>
      BY <2>2, <2>5, SubSeqEmpty DEF wanted
    <3>2. served = << >>
      BY <2>3, <2>4, <2>5
    <3>3. QED
      BY <3>1, <3>2 DEF served, wanted, lo, hi, h
  <2>6. CASE lo < hi
    <3> DEFINE slot == SlotOf(lo)
               m == hi - lo
    <3>1. lo \in Nat /\ slot \in 0 .. Cap - 1 /\ m \in 1 .. Cap
      BY <2>1, <2>2, <2>6, SlotType
    <3>2. /\ wanted \in Seq(Events) /\ Len(wanted) = m
          /\ \A i \in 1 .. m : wanted[i] = log[lo + i]
      <4>1. lo + 1 \in Int /\ hi \in Int /\ lo + 1 <= hi
        BY <2>1, <2>2, <2>6
      <4>2. \A i \in lo + 1 .. hi : log[i] \in Events
        BY <2>1, <2>2
      <4>3. /\ wanted \in Seq(Events) /\ Len(wanted) = hi - (lo + 1) + 1
            /\ \A i \in 1 .. hi - (lo + 1) + 1 : wanted[i] = log[lo + 1 + i - 1]
        BY <4>1, <4>2, SubSeqProperties DEF wanted
      <4>4. hi - (lo + 1) + 1 = m /\ \A i \in 1 .. m : lo + 1 + i - 1 = lo + i
        BY <2>1, <2>2
      <4>5. QED
        BY <4>3, <4>4
    <3>3. served = [i \in 1 .. m |-> RecordAt(IF i <= Cap - slot
                                              THEN slot + i - 1
                                              ELSE i - (Cap - slot) - 1)]
      BY <2>3, <2>4, <2>6
    <3> HIDE DEF m
    <3>4. ASSUME NEW i \in 1 .. m
          PROVE  RecordAt(IF i <= Cap - slot THEN slot + i - 1
                                             ELSE i - (Cap - slot) - 1) = wanted[i]
      <4> DEFINE g == lo + (i - 1)
      <4>1. i - 1 \in 0 .. Cap
        BY <2>1, <3>1
      <4>2. SlotOf(g) = IF slot + (i - 1) < Cap THEN slot + (i - 1)
                                                ELSE slot + (i - 1) - Cap
        BY <3>1, <4>1, SlotShift
      <4> HIDE DEF slot
      <4>3. (IF i <= Cap - slot THEN slot + i - 1 ELSE i - (Cap - slot) - 1)
              = IF slot + (i - 1) < Cap THEN slot + (i - 1) ELSE slot + (i - 1) - Cap
        BY <2>1, <3>1
      <4>4. g \in Oldest(h) .. h - 1 /\ g + 1 = lo + i
        BY <2>1, <2>2, <2>6, <3>1 DEF Oldest, m
      <4> HIDE DEF g
      <4>5. RecordAt(SlotOf(g)) = log[g + 1]
        BY <2>1, <4>4 DEF RingHoldsNewest, h
      <4>6. QED
        BY <3>2, <4>2, <4>3, <4>4, <4>5
    <3>5. wanted = [i \in 1 .. m |-> wanted[i]]
      BY <3>1, <3>2
    <3>6. served = wanted
      BY <3>3, <3>4, <3>5
    <3>7. QED
      BY <3>6 DEF served, wanted, lo, hi, h
  <2>7. QED
    BY <2>1, <2>2, <2>5, <2>6
<1>2. QED
  BY <1>1, Invariance, PTL

-----------------------------------------------------------------------------
(* Aggregates.                                                             *)

(* The same value is counted as often in the history as in the slots.      *)
LEMMA CountedOnce ==
  ASSUME IInv,
         NEW a \in SUBSET (Oldest(StoreHead) .. StoreHead - 1),
         NEW b \in SUBSET Live,
         \A h \in Oldest(StoreHead) .. StoreHead - 1 : h \in a <=> SlotOf(h) \in b
  PROVE  Cardinality(b) = Cardinality(a)
<1> DEFINE live == Oldest(StoreHead) .. StoreHead - 1
           f == [h \in a |-> SlotOf(h)]
<1>1. StoreHead \in Nat /\ Live = 0 .. Min2(StoreHead, Cap) - 1
  BY DEF IInv, TypeOK, HeaderAgrees, StoreHead, Live
<1>2. /\ \A g, h \in live : SlotOf(g) = SlotOf(h) => g = h
      /\ \A s \in Live : \E h \in live : SlotOf(h) = s
  BY <1>1, SlotsCovered
<1>3. f \in [a -> b] /\ \A h \in a : f[h] = SlotOf(h)
  OBVIOUS
<1>4. \A g, h \in a : f[g] = f[h] => g = h
  BY <1>2, <1>3
<1>5. \A s \in b : \E h \in a : f[h] = s
  BY <1>2, <1>3
<1> HIDE DEF f
<1>6. f \in Bijection(a, b)
  BY <1>3, <1>4, <1>5 DEF Bijection, Injection, Surjection, IsInjective
<1>7. IsFiniteSet(a)
  <2>1. Oldest(StoreHead) \in Int /\ StoreHead - 1 \in Int
    BY <1>1, OldestMonotone
  <2>2. QED
    BY <2>1, FS_Interval, FS_Subset
<1>8. QED
  BY <1>6, <1>7, FS_Bijection DEF ExistsBijection

(* Finitely many values have a greatest one.                               *)
LEMMA GreatestValue ==
  ASSUME NEW f, NEW n \in Nat \ {0}, \A i \in 0 .. n - 1 : f[i] \in Int
  PROVE  \E i \in 0 .. n - 1 : \A j \in 0 .. n - 1 : f[j] <= f[i]
<1> DEFINE Top(m) == \E i \in 0 .. m - 1 : \A j \in 0 .. m - 1 : f[j] <= f[i]
           bad == { m \in 1 .. n : ~Top(m) }
<1> SUFFICES ASSUME bad # {} PROVE FALSE
  <2>1. n \in bad \/ Top(n)
    OBVIOUS
  <2>2. QED
    BY <2>1
<1>1. PICK m \in bad : \A k \in bad : ~(<<k, m>> \in OpToRel(<, Nat))
  <2>1. bad \subseteq Nat
    OBVIOUS
  <2>2. QED
    BY <2>1, NatLessThanWellFounded, WFMin
<1>2. \A k \in bad : ~(k < m)
  <2>1. m \in Nat /\ \A k \in bad : k \in Nat
    OBVIOUS
  <2>2. QED
    BY <1>1, <2>1 DEF OpToRel
<1>3. m # 1
  <2>1. 0 .. 1 - 1 = {0} /\ f[0] \in Int
    OBVIOUS
  <2>2. Top(1)
    BY <2>1
  <2>3. QED
    BY <2>2
<1>4. m - 1 \in 1 .. n /\ m - 1 < m
  BY <1>3
<1>5. Top(m - 1)
  BY <1>2, <1>4
<1>6. PICK i \in 0 .. m - 2 : \A j \in 0 .. m - 2 : f[j] <= f[i]
  BY <1>4, <1>5
<1>7. m - 1 \in 0 .. n - 1 /\ i \in 0 .. n - 1 /\ f[i] \in Int /\ f[m - 1] \in Int
  BY <1>4, <1>6
<1>8. \A j \in 0 .. m - 1 : j \in 0 .. m - 2 \/ j = m - 1
  BY <1>4
<1>9. Top(m)
  <2>1. CASE f[m - 1] <= f[i]
    BY <1>4, <1>6, <1>8, <2>1
  <2>2. CASE f[i] < f[m - 1]
    <3>1. \A j \in 0 .. m - 1 : f[j] \in Int
      BY <1>4
    <3>2. ASSUME NEW j \in 0 .. m - 1 PROVE f[j] <= f[m - 1]
      <4>1. CASE j = m - 1
        BY <1>7, <4>1
      <4>2. CASE j \in 0 .. m - 2
        <5>1. f[j] <= f[i] /\ f[j] \in Int
          BY <1>6, <3>1, <4>2
        <5>2. QED
          BY <1>7, <2>2, <5>1
      <4>3. QED
        BY <1>8, <4>1, <4>2
    <3>3. QED
      BY <1>4, <3>2
  <2>3. QED
    BY <1>7, <2>1, <2>2
<1>10. QED
  BY <1>9

(* The aggregates, which run over the slots without regard to their order, *)
(* speak of the retained events: errors and slow requests are counted once *)
(* each, and the longest duration is that of a retained event.             *)
THEOREM AggregatesRight == Spec => []AggregatesFaithful
<1>1. IInv => AggregatesFaithful
  <2> SUFFICES ASSUME IInv PROVE AggregatesFaithful
    OBVIOUS
  <2> DEFINE live == Oldest(StoreHead) .. StoreHead - 1
  <2>1. /\ StoreHead \in Nat /\ Live = 0 .. Min2(StoreHead, Cap) - 1
        /\ len = Min2(StoreHead, Cap) /\ len \in 0 .. Cap /\ Cap \in Nat
    BY CapAssumption DEF IInv, TypeOK, HeaderAgrees, StoreHead, Live
  <2>2. /\ \A h \in live : SlotOf(h) \in Live
        /\ \A s \in Live : \E h \in live : SlotOf(h) = s
    BY <2>1, SlotsCovered
  <2>3. \A h \in live : /\ columns["is_error"][SlotOf(h)] = log[h + 1].is_error
                        /\ columns["duration"][SlotOf(h)] = log[h + 1].duration
    BY DEF IInv, ColumnsHold, ColumnNames
  <2>4. ScanErrorCount = Cardinality({ h \in live : log[h + 1].is_error # 0 })
    <3> DEFINE a == { h \in live : log[h + 1].is_error # 0 }
               b == { s \in Live : columns["is_error"][s] # 0 }
    <3>1. a \subseteq live /\ b \subseteq Live
          /\ \A h \in live : h \in a <=> SlotOf(h) \in b
      BY <2>2, <2>3
    <3> HIDE DEF a, b
    <3>2. Cardinality(b) = Cardinality(a)
      BY <3>1, CountedOnce
    <3>3. QED
      BY <3>2 DEF ScanErrorCount, a, b
  <2>5. ASSUME NEW ms \in Values
        PROVE  ScanDurationFilter(ms) =
                 Cardinality({ h \in live : log[h + 1].duration > ms })
    <3> DEFINE a == { h \in live : log[h + 1].duration > ms }
               b == { s \in Live : columns["duration"][s] > ms }
    <3>1. a \subseteq live /\ b \subseteq Live
          /\ \A h \in live : h \in a <=> SlotOf(h) \in b
      BY <2>2, <2>3
    <3> HIDE DEF a, b
    <3>2. Cardinality(b) = Cardinality(a)
      BY <3>1, CountedOnce
    <3>3. QED
      BY <3>2 DEF ScanDurationFilter, a, b
  <2>6. ASSUME live # {}
        PROVE  /\ \E h \in live : log[h + 1].duration = ScanDurationMax
               /\ \A h \in live : log[h + 1].duration <= ScanDurationMax
    <3> DEFINE col == columns["duration"]
    <3>1. len # 0 /\ Live = 0 .. len - 1 /\ len \in Nat \ {0}
      BY <2>1, <2>2, <2>6
    <3>2. \A s \in Live : col[s] \in Int
      <4>1. \A h \in live : log[h + 1] \in Events
        BY <2>1, OldestMonotone DEF IInv, TypeOK, HeaderAgrees
      <4>2. \A h \in live : log[h + 1].duration \in Int
        BY <4>1, EventsAssumption DEF ColumnNames
      <4>3. QED
        BY <2>2, <2>3, <4>2
    <3>3. PICK s \in Live : \A r \in Live : col[r] <= col[s]
      BY <3>1, <3>2, GreatestValue
    <3>4. /\ ScanDurationMax \in { col[r] : r \in Live }
          /\ \A r \in Live : col[r] <= ScanDurationMax
      BY <3>1, <3>3 DEF ScanDurationMax
    <3>5. PICK r \in Live : ScanDurationMax = col[r]
      BY <3>4
    <3>6. QED
      BY <2>2, <2>3, <3>4, <3>5
  <2>7. QED
    BY <2>4, <2>5, <2>6 DEF AggregatesFaithful
<1>2. QED
  BY <1>1, Invariance, PTL

-----------------------------------------------------------------------------
(* Scans.                                                                  *)

(* What the loop of a scan has put out after i positions, as an equation   *)
(* for the function `out' of Gather.                                       *)
GatherUpTo(out, s, wanted, room, n) ==
  [i \in 0 .. n |->
     IF i = 0 THEN << >>
     ELSE IF i \in wanted /\ Len(out[i - 1]) < room
          THEN Append(out[i - 1], s[i])
          ELSE out[i - 1]]

(* The loop runs to the end of any sequence: the equation has a solution.  *)
LEMMA GatherRuns ==
  ASSUME NEW s, NEW wanted, NEW room, NEW n \in Nat
  PROVE  \E out : out = GatherUpTo(out, s, wanted, room, n)
<1> DEFINE Solved(m) == \E out : out = GatherUpTo(out, s, wanted, room, m)
           bad == { m \in Nat : ~Solved(m) }
<1> SUFFICES ASSUME bad # {} PROVE FALSE
  OBVIOUS
<1>1. PICK m \in bad : \A k \in bad : ~(<<k, m>> \in OpToRel(<, Nat))
  BY NatLessThanWellFounded, WFMin
<1>2. \A k \in bad : ~(k < m)
  BY <1>1 DEF OpToRel
<1>3. CASE m = 0
  <2> DEFINE one == [i \in 0 .. 0 |-> << >>]
  <2>1. one = GatherUpTo(one, s, wanted, room, 0)
    BY DEF GatherUpTo
  <2>2. QED
    BY <1>3, <2>1
<1>4. CASE m # 0
  <2>1. m - 1 \in Nat /\ m - 1 < m /\ m \in Nat
    BY <1>4
  <2>2. Solved(m - 1)
    BY <1>2, <2>1
  <2>3. PICK out : out = GatherUpTo(out, s, wanted, room, m - 1)
    BY <2>2
  <2> DEFINE last == IF m \in wanted /\ Len(out[m - 1]) < room
                     THEN Append(out[m - 1], s[m])
                     ELSE out[m - 1]
             more == [i \in 0 .. m |-> IF i = m THEN last ELSE out[i]]
  <2>4. \A i \in 0 .. m - 1 : more[i] = out[i]
    BY <2>1
  <2>5. more[m] = last /\ m - 1 \in 0 .. m - 1
    BY <2>1
  <2>6. ASSUME NEW i \in 0 .. m
        PROVE  more[i] = IF i = 0 THEN << >>
                         ELSE IF i \in wanted /\ Len(more[i - 1]) < room
                              THEN Append(more[i - 1], s[i])
                              ELSE more[i - 1]
    <3>1. CASE i = m
      BY <1>4, <2>4, <2>5, <3>1
    <3>2. CASE i # m
      <4>1. i \in 0 .. m - 1 /\ (i # 0 => i - 1 \in 0 .. m - 1)
        BY <2>1, <3>2
      <4>2. out[i] = IF i = 0 THEN << >>
                     ELSE IF i \in wanted /\ Len(out[i - 1]) < room
                          THEN Append(out[i - 1], s[i])
                          ELSE out[i - 1]
        BY <2>3, <4>1 DEF GatherUpTo
      <4> HIDE DEF more
      <4>3. QED
        BY <2>4, <4>1, <4>2
    <3>3. QED
      BY <3>1, <3>2
  <2>7. more = [i \in 0 .. m |-> more[i]]
    OBVIOUS
  <2> HIDE DEF more
  <2>8. more = GatherUpTo(more, s, wanted, room, m)
    BY <2>6, <2>7 DEF GatherUpTo
  <2>9. QED
    BY <2>8
<1>5. QED
  BY <1>3, <1>4

(* The loop puts out the wanted elements in order, the k-th wanted one in  *)
(* the k-th place, until the output is full.                               *)
LEMMA GatherCorrect ==
  ASSUME NEW S, NEW s \in Seq(S), NEW wanted \in SUBSET (1 .. Len(s)), NEW room \in Nat
  PROVE  LET out == Gather(s, wanted, room)
         IN  /\ Len(out) = Min2(Cardinality(wanted), room)
             /\ \A i \in wanted :
                  LET k == Cardinality({ j \in wanted : j <= i })
                  IN  k <= room => out[k] = s[i]
<1> DEFINE n == Len(s)
           f == CHOOSE out : out = GatherUpTo(out, s, wanted, room, n)
           Upto(i) == { j \in wanted : j <= i }
           Rank(i) == Cardinality(Upto(i))
           Good(i) == /\ f[i] \in Seq(S)
                      /\ Len(f[i]) = Min2(Rank(i), room)
                      /\ \A j \in Upto(i) : Rank(j) <= room => f[i][Rank(j)] = s[j]
           bad == { i \in 0 .. n : ~Good(i) }
<1>1. n \in Nat /\ f = GatherUpTo(f, s, wanted, room, n)
  BY GatherRuns
<1>2. Gather(s, wanted, room) = f[n]
  BY DEF Gather, GatherUpTo
<1> HIDE DEF f, n
<1>3. /\ f[0] = << >>
      /\ \A i \in 1 .. n : f[i] = IF i \in wanted /\ Len(f[i - 1]) < room
                                  THEN Append(f[i - 1], s[i]) ELSE f[i - 1]
  <2>1. \A i \in 0 .. n : f[i] = IF i = 0 THEN << >>
                                ELSE IF i \in wanted /\ Len(f[i - 1]) < room
                                     THEN Append(f[i - 1], s[i])
                                     ELSE f[i - 1]
    BY <1>1 DEF GatherUpTo
  <2>2. 0 \in 0 .. n /\ \A i \in 1 .. n : i \in 0 .. n /\ i # 0
    BY <1>1
  <2>3. QED
    BY <2>1, <2>2
<1>4. /\ IsFiniteSet(wanted)
      /\ \A j \in wanted : j \in Int /\ 1 <= j /\ j <= n /\ s[j] \in S
  <2>1. IsFiniteSet(1 .. n) /\ wanted \in SUBSET (1 .. n)
    BY <1>1, FS_Interval DEF n
  <2>2. IsFiniteSet(wanted)
    BY <2>1, FS_Subset
  <2>3. \A j \in wanted : j \in 1 .. n /\ s[j] \in S
    BY <2>1 DEF n
  <2>4. QED
    BY <1>1, <2>2, <2>3
<1>5. \A i : Upto(i) \subseteq wanted /\ IsFiniteSet(Upto(i)) /\ Rank(i) \in Nat
  BY <1>4, FS_Subset, FS_CardinalityType
<1>6. \A i \in Int, j \in Int : j <= i => Rank(j) <= Rank(i)
  <2> SUFFICES ASSUME NEW i \in Int, NEW j \in Int, j <= i
               PROVE  Rank(j) <= Rank(i)
    OBVIOUS
  <2>1. \A k \in wanted : k <= j => k <= i
    BY <1>4
  <2>2. Upto(j) \subseteq Upto(i)
    BY <2>1
  <2>3. Upto(j) \in SUBSET Upto(i) /\ IsFiniteSet(Upto(i))
    BY <1>5, <2>2
  <2> HIDE DEF Upto
  <2>4. QED
    BY <2>3, FS_Subset
<1>7. Good(0)
  <2>0. \A j \in wanted : ~(j <= 0)
    BY <1>4
  <2>1. Upto(0) = {}
    BY <2>0
  <2>2. Rank(0) = 0
    BY <2>1, FS_EmptySet
  <2>3. << >> \in Seq(S) /\ Len(<< >>) = 0 /\ Min2(0, room) = 0
    BY DEF Min2
  <2>4. QED
    BY <1>3, <2>1, <2>2, <2>3
<1>8. ASSUME NEW i \in 1 .. n, Good(i - 1) PROVE Good(i)
  <2>1. i \in Nat /\ i - 1 \in Nat /\ i \in Int /\ i - 1 \in Int
    BY <1>1
  <2>2. CASE i \notin wanted
    <3>0. \A j \in wanted : j <= i <=> j <= i - 1
      BY <1>4, <2>1, <2>2
    <3>1. Upto(i) = Upto(i - 1)
      BY <3>0
    <3>2. f[i] = f[i - 1]
      BY <1>3, <2>2
    <3>3. QED
      BY <1>8, <3>1, <3>2
  <2>3. CASE i \in wanted
    <3>0. /\ \A j \in wanted : j <= i <=> j <= i - 1 \/ j = i
          /\ i <= i /\ ~(i <= i - 1)
      BY <1>4, <2>1, <2>3
    <3>1. Upto(i) = Upto(i - 1) \cup {i} /\ i \notin Upto(i - 1)
      BY <2>3, <3>0
    <3>2. Rank(i) = Rank(i - 1) + 1
      <4>1. IsFiniteSet(Upto(i - 1))
        BY <1>5
      <4> HIDE DEF Upto
      <4>2. QED
        BY <3>1, <4>1, FS_AddElement
    <3>3. \A j \in Upto(i - 1) : Rank(j) <= Rank(i - 1) /\ Rank(j) >= 1
      <4> SUFFICES ASSUME NEW j \in Upto(i - 1)
                   PROVE  Rank(j) <= Rank(i - 1) /\ Rank(j) >= 1
        OBVIOUS
      <4>1. j \in Int /\ j <= i - 1 /\ j \in Upto(j)
        BY <1>4
      <4>2. Rank(j) # 0
        BY <1>5, <4>1, FS_EmptySet
      <4> HIDE DEF Rank, Upto
      <4>3. QED
        BY <1>5, <1>6, <2>1, <4>1, <4>2
    <3> HIDE DEF Rank, Upto
    <3>4. CASE Len(f[i - 1]) < room
      <4> DEFINE out == f[i - 1]
                 l == Len(out)
      <4>1. out \in Seq(S) /\ l \in Nat /\ l = Rank(i - 1) /\ l < room
        BY <1>5, <1>8, <3>4 DEF Min2
      <4>2. f[i] = Append(out, s[i]) /\ s[i] \in S
        BY <1>3, <1>4, <2>3, <3>4
      <4>3. /\ f[i] \in Seq(S) /\ Len(f[i]) = l + 1 /\ f[i][l + 1] = s[i]
            /\ \A k \in 1 .. l : f[i][k] = out[k]
        BY <4>1, <4>2, AppendProperties
      <4>4. ASSUME NEW j \in Upto(i), Rank(j) <= room PROVE f[i][Rank(j)] = s[j]
        <5>1. CASE j = i
          BY <3>2, <4>1, <4>3, <5>1
        <5>2. CASE j # i
          <6>1. j \in Upto(i - 1)
            BY <3>1, <5>2
          <6>2. Rank(j) \in 1 .. l /\ out[Rank(j)] = s[j]
            BY <1>5, <1>8, <3>3, <4>1, <4>4, <6>1
          <6>3. QED
            BY <4>3, <6>2
        <5>3. QED
          BY <5>1, <5>2
      <4>5. Len(f[i]) = Min2(Rank(i), room)
        <5> HIDE DEF l
        <5>1. QED
          BY <3>2, <4>1, <4>3 DEF Min2
      <4>6. QED
        BY <4>3, <4>4, <4>5
    <3>5. CASE ~(Len(f[i - 1]) < room)
      <4> DEFINE l == Len(f[i - 1])
      <4>1. l \in Nat /\ l = Min2(Rank(i - 1), room) /\ ~(l < room) /\ Rank(i - 1) \in Nat
        BY <1>5, <1>8, <3>5
      <4> HIDE DEF l
      <4>2. l = room /\ Rank(i - 1) >= room
        BY <4>1 DEF Min2
      <4>3. Min2(Rank(i), room) = room /\ Rank(i) > room
        BY <3>2, <4>1, <4>2 DEF Min2
      <4>4. f[i] = f[i - 1]
        BY <1>3, <3>5
      <4>5. ASSUME NEW j \in Upto(i), Rank(j) <= room PROVE f[i][Rank(j)] = s[j]
        <5>1. j # i
          BY <4>1, <4>3, <4>5, <1>5
        <5>2. j \in Upto(i - 1)
          BY <3>1, <5>1
        <5>3. QED
          BY <1>8, <4>4, <4>5, <5>2
      <4>6. QED
        BY <1>8, <4>2, <4>3, <4>4, <4>5 DEF l
    <3>6. QED
      BY <3>4, <3>5
  <2>4. QED
    BY <2>2, <2>3
<1> HIDE DEF Good, Rank, Upto
<1>9. Good(n)
  <2> SUFFICES ASSUME bad # {} PROVE FALSE
    BY <1>1
  <2>1. PICK i \in bad : \A k \in bad : ~(<<k, i>> \in OpToRel(<, Nat))
    <3>1. bad \subseteq Nat
      BY <1>1
    <3>2. QED
      BY <3>1, NatLessThanWellFounded, WFMin
  <2>2. \A k \in bad : ~(k < i)
    <3>1. i \in Nat /\ \A k \in bad : k \in Nat
      BY <1>1
    <3>2. QED
      BY <2>1, <3>1 DEF OpToRel
  <2>3. i # 0 /\ i \in 0 .. n
    BY <1>7
  <2>4. i \in 1 .. n /\ i - 1 \in 0 .. n /\ i - 1 < i
    BY <1>1, <2>3
  <2>5. Good(i - 1)
    BY <2>2, <2>4
  <2>6. QED
    BY <1>8, <2>4, <2>5
<1>10. Upto(n) = wanted /\ Rank(n) = Cardinality(wanted)
  BY <1>1, <1>4 DEF Upto, Rank
<1>11. QED
  BY <1>2, <1>9, <1>10 DEF Good, Rank, Upto

(* Counting positions or counting events comes to the same.                *)
LEMMA ShiftedCount ==
  ASSUME NEW d \in Int, NEW a \in SUBSET Int, NEW b \in SUBSET Int, IsFiniteSet(a),
         \A i \in Int : i \in a <=> i + d \in b
  PROVE  Cardinality(b) = Cardinality(a)
<1> DEFINE f == [i \in a |-> i + d]
<1>1. f \in [a -> b] /\ \A i \in a : f[i] = i + d
  OBVIOUS
<1>2. \A i, j \in a : f[i] = f[j] => i = j
  BY <1>1
<1>3. ASSUME NEW h \in b PROVE \E i \in a : f[i] = h
  <2>1. h - d \in Int /\ (h - d) + d = h
    OBVIOUS
  <2>2. h - d \in a
    BY <2>1
  <2>3. QED
    BY <1>1, <2>1, <2>2
<1> HIDE DEF f
<1>4. f \in Bijection(a, b)
  BY <1>1, <1>2, <1>3 DEF Bijection, Injection, Surjection, IsInjective
<1>5. QED
  BY <1>4, FS_Bijection DEF ExistsBijection

(* A scan returns the retained events that satisfy its filters, oldest     *)
(* first and each in the place its rank gives it, and with a full output   *)
(* buffer the oldest of them, whatever the capacity, the contents and the  *)
(* wrap of the ring.                                                       *)
THEOREM ScansRight == Spec => []ScanFaithful
<1>1. IInv => ScanFaithful
  <2> SUFFICES ASSUME IInv, NEW start_ns \in Values, NEW end_ns \in Values,
                      NEW error_only \in BOOLEAN, NEW out_cap \in 1 .. Cap
               PROVE  LET out  == Scan(start_ns, end_ns, error_only, out_cap)
                          hits == { h \in Oldest(StoreHead) .. StoreHead - 1 :
                                      Wanted(log[h + 1], start_ns, end_ns, error_only) }
                      IN  /\ Len(out) = Min2(Cardinality(hits), out_cap)
                          /\ \A h \in hits :
                               LET k == Cardinality({ g \in hits : g <= h })
                               IN  k <= out_cap => out[k] = log[h + 1]
    BY DEF ScanFaithful
  <2> DEFINE W(e) == Wanted(e, start_ns, end_ns, error_only)
             live == Oldest(StoreHead) .. StoreHead - 1
             hits == { h \in live : W(log[h + 1]) }
             wanted == { i \in 1 .. len : W(Ordered[i]) }
             out == Scan(start_ns, end_ns, error_only, out_cap)
             d == Oldest(StoreHead) - 1
  <2>1. /\ StoreHead \in Nat /\ StoreHead = Len(log) /\ log \in Seq(Events)
        /\ len = Min2(StoreHead, Cap) /\ len \in 0 .. Cap
        /\ Cap \in Nat \ {0} /\ out_cap \in Nat
    BY CapAssumption DEF IInv, TypeOK, HeaderAgrees, StoreHead
  <2>2. /\ Ordered \in Seq(Events) /\ Len(Ordered) = len
        /\ \A i \in 1 .. len : Ordered[i] = log[Oldest(StoreHead) + i]
    BY <2>1, NewestElements, OrderedIsNewest
  <2>3. /\ d \in Int /\ Oldest(StoreHead) = d + 1
        /\ \A i \in Int : i \in 1 .. len <=> i + d \in live
    BY <2>1 DEF Oldest, Min2
  <2>4. \A i \in Int : i \in wanted <=> i + d \in hits
    <3> SUFFICES ASSUME NEW i \in Int PROVE i \in wanted <=> i + d \in hits
      OBVIOUS
    <3>1. i \in 1 .. len <=> i + d \in live
      BY <2>3
    <3>2. i \in 1 .. len => Ordered[i] = log[(i + d) + 1]
      BY <2>2, <2>3
    <3> HIDE DEF W, live
    <3>3. QED
      BY <3>1, <3>2
  <2>5. /\ wanted \in SUBSET (1 .. Len(Ordered)) /\ wanted \in SUBSET Int
        /\ hits \in SUBSET Int /\ IsFiniteSet(wanted)
    <3>1. wanted \in SUBSET (1 .. len) /\ hits \in SUBSET live
      OBVIOUS
    <3>2. IsFiniteSet(1 .. len)
      BY <2>1, FS_Interval
    <3> HIDE DEF wanted, hits
    <3>3. IsFiniteSet(wanted)
      BY <3>1, <3>2, FS_Subset
    <3>4. QED
      BY <2>2, <3>1, <3>3
  <2>6. out = Gather(Ordered, wanted, out_cap)
    BY DEF Scan
  <2> HIDE DEF wanted, hits, out, d
  <2>7. Cardinality(hits) = Cardinality(wanted)
    BY <2>3, <2>4, <2>5, ShiftedCount
  <2>8. /\ Len(out) = Min2(Cardinality(wanted), out_cap)
        /\ \A i \in wanted : Cardinality({ j \in wanted : j <= i }) <= out_cap =>
             out[Cardinality({ j \in wanted : j <= i })] = Ordered[i]
    BY <2>1, <2>2, <2>5, <2>6, GatherCorrect
  <2>9. ASSUME NEW h \in hits, Cardinality({ g \in hits : g <= h }) <= out_cap
        PROVE  out[Cardinality({ g \in hits : g <= h })] = log[h + 1]
    <3> DEFINE i == h - d
               a == { j \in wanted : j <= i }
               b == { g \in hits : g <= h }
    <3>1. h \in Int /\ i \in Int /\ i + d = h
      BY <2>3, <2>5
    <3>2. i \in wanted
      BY <2>4, <3>1
    <3>3. a \in SUBSET Int /\ b \in SUBSET Int /\ IsFiniteSet(a)
      BY <2>5, FS_Subset
    <3>4. \A j \in Int : j <= i <=> j + d <= h
      BY <2>3, <3>1
    <3>5. \A j \in Int : j \in a <=> j + d \in b
      BY <2>4, <3>4
    <3> HIDE DEF a, b
    <3>6. Cardinality(b) = Cardinality(a)
      BY <2>3, <3>3, <3>5, ShiftedCount
    <3>7. out[Cardinality(a)] = Ordered[i]
      BY <2>8, <2>9, <3>2, <3>6 DEF a, b
    <3>8. Ordered[i] = log[h + 1]
      <4>1. i \in 1 .. len
        BY <3>2 DEF wanted
      <4>2. Oldest(StoreHead) + i = h + 1
        BY <2>3, <3>1
      <4>3. QED
        BY <2>2, <4>1, <4>2
    <3>9. QED
      BY <3>6, <3>7, <3>8 DEF b
  <2>10. QED
    BY <2>7, <2>8, <2>9 DEF hits, out
<1>2. QED
  BY <1>1, Invariance, PTL
=============================================================================

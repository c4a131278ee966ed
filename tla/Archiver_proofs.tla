--------------------------- MODULE Archiver_proofs ---------------------------
(***************************************************************************)
(* Over either kind of store and with any timestamps, the archiver passes  *)
(* over no event from the head on that it inherited: for every capacity,   *)
(* chunk size, number of overlapping ticks and number of restarts.         *)
(***************************************************************************)
EXTENDS Archiver, RingIndex_proofs

(* The events the bucket ever received.                                    *)
Uploaded == UNION { RangeOf(o) : o \in uploaded }

(* Event h was received, or was overwritten first.                         *)
Safe(h) == h \in Uploaded \/ h < Oldest(head)

(* A head that the in-memory state or the state file may hold: every event *)
(* of this store's life below it is safe.                                  *)
GoodHead(x) ==
  /\ x \in Nat
  /\ x <= head \/ x <= inherited
  /\ \A h \in inherited .. head - 1 : h < x => Safe(h)

(* What a tick in flight carries: a good starting point, and a range that  *)
(* misses only overwritten events; once stored, the bucket has received    *)
(* the range.                                                              *)
GoodTick(w) ==
  /\ GoodHead(w.from)
  /\ w.n >= 1
  /\ w.from <= w.at
  /\ w.at + w.n <= head
  /\ w.from = w.at \/ w.at <= Oldest(head)
  /\ w.phase = "stored" => RangeOf(w) \subseteq Uploaded

(* The inductive invariant.                                                *)
IInv ==
  /\ TypeOK
  /\ \A o \in uploaded : NameHeld(o)
  /\ GoodHead(lastArchivedHead)
  /\ saved # Corrupt => GoodHead(saved)
  /\ \A t \in Ticks : tick[t].phase # "idle" => up /\ GoodTick(tick[t])

-----------------------------------------------------------------------------
(* Facts about single values.                                              *)

(* What an extraction returns lies in the store, and misses only events    *)
(* that were overwritten.                                                  *)
LEMMA ExtractGood ==
  ASSUME NEW h \in Nat, NEW from \in 0 .. h, NEW n \in Nat \ {0}
  PROVE  LET r == ExtractRange(h, from, n)
         IN  r.n # 0 => /\ r.n \in Nat /\ r.n >= 1
                        /\ r.from \in Nat /\ from <= r.from
                        /\ r.from + r.n <= h
                        /\ from = r.from \/ r.from <= Oldest(h)
<1> DEFINE r  == ExtractRange(h, from, n)
           lo == IF from < Oldest(h) THEN Oldest(h) ELSE from
           hi == Min2(from + n, h)
<1>1. /\ hi <= lo => r.n = 0
      /\ lo < hi => r.from = lo /\ r.n = hi - lo
  BY ExtractRangeCorrect
<1>2. Oldest(h) \in Nat /\ lo \in Nat /\ hi \in Nat /\ hi <= h
  BY CapAssumption DEF Oldest, Min2
<1>3. from <= lo /\ (from = lo \/ lo <= Oldest(h))
  BY <1>2
<1> HIDE DEF r, lo, hi
<1>4. r.n # 0 => /\ r.n \in Nat /\ r.n >= 1
                 /\ r.from \in Nat /\ from <= r.from
                 /\ r.from + r.n <= h
                 /\ from = r.from \/ r.from <= Oldest(h)
  BY <1>1, <1>2, <1>3
<1>5. QED
  BY <1>4 DEF r

(* While the store and the bucket only grow, what was safe stays so.       *)
LEMMA GoodHeadStable ==
  ASSUME TypeOK, head' \in Nat, head <= head', Uploaded \subseteq Uploaded',
         inherited' = inherited,
         NEW CONSTANT x, GoodHead(x)
  PROVE  GoodHead(x)'
<1>1. /\ head \in Nat /\ inherited \in Nat /\ x \in Nat
      /\ x <= head \/ x <= inherited
      /\ \A h \in inherited .. head - 1 : h < x => Safe(h)
  BY DEF GoodHead, TypeOK
<1>2. x <= head' \/ x <= inherited
  BY <1>1
<1>3. ASSUME NEW h \in inherited .. head' - 1, h < x
      PROVE  h \in Uploaded' \/ h < Oldest(head')
  <2>1. h \in inherited .. head - 1
    BY <1>1, <1>3
  <2>2. h \in Uploaded \/ h < Oldest(head)
    BY <1>1, <1>3, <2>1 DEF Safe
  <2>3. Oldest(head) <= Oldest(head') /\ Oldest(head) \in Int /\ Oldest(head') \in Int
    BY <1>1, OldestMonotone
  <2>4. h \in Int
    BY <1>1, <2>1
  <2>5. QED
    BY <2>2, <2>3, <2>4
<1>4. QED
  BY <1>1, <1>2, <1>3 DEF GoodHead, Safe

(* The same for what a tick carries.                                       *)
LEMMA GoodTickStable ==
  ASSUME TypeOK, head' \in Nat, head <= head', Uploaded \subseteq Uploaded',
         inherited' = inherited,
         NEW CONSTANT w \in [phase : {"idle", "sent", "stored"},
                             from : Nat, at : Nat, n : Nat],
         GoodTick(w)
  PROVE  GoodTick(w)'
<1>1. GoodHead(w.from)'
  BY GoodHeadStable DEF GoodTick
<1>2. head \in Nat /\ w.at \in Nat /\ w.n \in Nat
  BY DEF TypeOK
<1>3. Oldest(head) <= Oldest(head') /\ Oldest(head) \in Int /\ Oldest(head') \in Int
  BY <1>2, OldestMonotone
<1>4. /\ w.n >= 1
      /\ w.from <= w.at
      /\ w.at + w.n <= head'
      /\ w.from = w.at \/ w.at <= Oldest(head')
      /\ w.phase = "stored" => RangeOf(w) \subseteq Uploaded'
  BY <1>2, <1>3 DEF GoodTick
<1>5. QED
  BY <1>1, <1>4 DEF GoodTick, RangeOf

-----------------------------------------------------------------------------
(* One lemma per way the state changes.                                    *)

TickRecord == [phase : {"idle", "sent", "stored"}, from : Nat, at : Nat, n : Nat]

(* Only what is named here matters to the goodness of heads and ticks.     *)
LEMMA GoodSame ==
  ASSUME head' = head, uploaded' = uploaded, inherited' = inherited
  PROVE  /\ \A x : GoodHead(x)' <=> GoodHead(x)
         /\ \A w : GoodTick(w)' <=> GoodTick(w)
<1>1. Uploaded' = Uploaded
  BY DEF Uploaded
<1>2. \A x : GoodHead(x)' <=> GoodHead(x)
  BY <1>1 DEF GoodHead, Safe
<1>3. QED
  BY <1>1, <1>2 DEF GoodTick, GoodHead, Safe

(* From a good head on, archiving the next chunk leaves a good state.      *)
LEMMA ArchiveChunkKeeps ==
  ASSUME IInv, up, NEW t \in Ticks, NEW CONSTANT last, NEW CONSTANT file,
         GoodHead(last), file \in Nat \cup {Corrupt},
         file # Corrupt => GoodHead(file),
         ArchiveChunk(t, last, file),
         UNCHANGED <<head, up, objects, restarts, history>>
  PROVE  IInv'
<1> DEFINE r == ExtractRange(head, last, Chunk)
<1>1. /\ TypeOK /\ head \in Nat /\ head' = head /\ head \in 0 .. MaxHead
      /\ uploaded' = uploaded /\ inherited' = inherited /\ objects' = objects
      /\ up' = up /\ restarts' = restarts
      /\ last \in Nat /\ inherited \in Nat
  BY DEF IInv, TypeOK, GoodHead, history
<1>2. /\ \A x : GoodHead(x)' <=> GoodHead(x)
      /\ \A w : GoodTick(w)' <=> GoodTick(w)
  BY <1>1, GoodSame
<1>4. GoodHead(Oldest(head)) /\ Oldest(head) \in Nat
  <2>1. Oldest(head) \in 0 .. head
    BY <1>1, OldestMonotone
  <2>2. QED
    BY <1>1, <2>1 DEF GoodHead, Safe
<1>5. Idle \in TickRecord /\ Idle.phase = "idle"
  BY DEF Idle, TickRecord
<1>6. ASSUME Due(last), r.n > 0
      PROVE  LET w == InFlight("sent", last, r)
             IN  w \in TickRecord /\ GoodTick(w)
  <2>0. last \in 0 .. head
    BY <1>1, <1>6, ArchiverAssumption DEF Due
  <2>1. /\ r.n \in Nat /\ r.n >= 1 /\ r.from \in Nat /\ last <= r.from
        /\ r.from + r.n <= head
        /\ last = r.from \/ r.from <= Oldest(head)
    BY <1>1, <1>6, <2>0, ExtractGood, ArchiverAssumption
  <2> HIDE DEF r
  <2> DEFINE w == InFlight("sent", last, r)
  <2>2. w = [phase |-> "sent", from |-> last, at |-> r.from, n |-> r.n]
    BY DEF InFlight
  <2>3. w \in TickRecord
    BY <1>1, <2>1, <2>2 DEF TickRecord
  <2>4. GoodTick(w)
    BY <2>1, <2>2 DEF GoodTick
  <2>5. QED
    BY <2>3, <2>4
<1>7. PICK w \in TickRecord :
        /\ tick' = [tick EXCEPT ![t] = w]
        /\ w.phase # "idle" => GoodTick(w)
  <2>1. CASE tick' = [tick EXCEPT ![t] = Idle]
    BY <1>5, <2>1
  <2>2. CASE Due(last) /\ r.n > 0 /\ tick' = [tick EXCEPT ![t] = InFlight("sent", last, r)]
    BY <1>6, <2>2
  <2>3. QED
    BY <2>1, <2>2 DEF ArchiveChunk
<1>8. \/ lastArchivedHead' = last /\ saved' = file
      \/ lastArchivedHead' = Oldest(head) /\ saved' \in {file, Oldest(head)}
  BY DEF ArchiveChunk, SaveState, PastOverwritten
<1>9. /\ lastArchivedHead' \in Nat /\ GoodHead(lastArchivedHead')
      /\ saved' \in Nat \cup {Corrupt}
      /\ saved' # Corrupt => GoodHead(saved')
  BY <1>1, <1>4, <1>8
<1>10. tick \in [Ticks -> TickRecord]
  BY DEF IInv, TypeOK, TickRecord
<1>11. tick' \in [Ticks -> TickRecord]
  BY <1>7, <1>10
<1>12. TypeOK'
  BY <1>1, <1>9, <1>11 DEF TypeOK, TickRecord
<1>13. \A s \in Ticks : tick'[s].phase # "idle" => up /\ GoodTick(tick'[s])
  BY <1>7, <1>10 DEF IInv
<1>14. /\ GoodHead(lastArchivedHead)'
       /\ (saved # Corrupt => GoodHead(saved))'
       /\ (\A s \in Ticks : tick[s].phase # "idle" => up /\ GoodTick(tick[s]))'
  <2>1. GoodHead(lastArchivedHead)'
    BY <1>1, <1>2, <1>9 DEF GoodHead, Safe, Uploaded
  <2>2. (saved # Corrupt => GoodHead(saved))'
    BY <1>1, <1>2, <1>9 DEF GoodHead, Safe, Uploaded
  <2>3. \A s \in Ticks : GoodTick(tick[s])' <=> GoodTick(tick'[s])
    BY <1>1 DEF GoodTick, GoodHead, Safe, Uploaded
  <2>4. QED
    BY <1>1, <1>13, <2>1, <2>2, <2>3
<1>15. (\A o \in uploaded : NameHeld(o))'
  BY <1>1 DEF IInv, NameHeld
<1>16. QED
  BY <1>12, <1>14, <1>15 DEF IInv

(* Everything but the ticks is kept while the store and the bucket grow.   *)
LEMMA GrowthKeeps ==
  ASSUME IInv, TypeOK', head <= head', Uploaded \subseteq Uploaded',
         inherited' = inherited, up' = up,
         (\A o \in uploaded : NameHeld(o))',
         lastArchivedHead' = lastArchivedHead, saved' = saved,
         \A t \in Ticks : tick'[t].phase # "idle" =>
           up /\ (GoodTick(tick'[t]) \/ GoodTick(tick[t])')
  PROVE  IInv'
<1>1. TypeOK /\ head' \in Nat /\ GoodHead(lastArchivedHead)
      /\ (saved # Corrupt => GoodHead(saved))
  BY DEF IInv, TypeOK
<1>2. \A x : GoodHead(x) => GoodHead(x)'
  BY <1>1, GoodHeadStable
<1>3. \A w \in TickRecord : GoodTick(w) => GoodTick(w)'
  BY <1>1, GoodTickStable DEF TickRecord
<1>4. \A t \in Ticks : tick'[t] \in TickRecord
  BY DEF TypeOK, TickRecord
<1>5. \A t \in Ticks : tick'[t].phase # "idle" => up' /\ GoodTick(tick[t])'
  <2>1. \A t \in Ticks : GoodTick(tick'[t]) => GoodTick(tick[t])'
    BY <1>3, <1>4 DEF GoodTick, GoodHead, Safe, Uploaded
  <2>2. QED
    BY <2>1
<1>6. GoodHead(lastArchivedHead)' /\ (saved # Corrupt => GoodHead(saved))'
  BY <1>1, <1>2 DEF GoodHead, Safe, Uploaded
<1>7. QED
  BY <1>5, <1>6 DEF IInv

(* An upload that arrives adds to what the bucket received, and leaves an  *)
(* object under every name it held.                                        *)
LEMMA StorePutKeeps ==
  ASSUME IInv, NEW t \in Ticks, StorePut(t)
  PROVE  IInv'
<1>0. PICK w \in TickRecord : w = tick[t]
  BY DEF IInv, TypeOK, TickRecord
<1> DEFINE o == [at |-> w.at, n |-> w.n]
<1>1. /\ TypeOK /\ w \in TickRecord /\ w.phase = "sent" /\ up /\ GoodTick(w)
      /\ tick \in [Ticks -> TickRecord]
      /\ objects' = { p \in objects : Key(p) # Key(o) } \cup {o}
      /\ uploaded' = uploaded \cup {o}
      /\ tick' = [tick EXCEPT ![t].phase = "stored"]
      /\ UNCHANGED <<head, up, lastArchivedHead, saved, restarts, inherited>>
  BY <1>0 DEF IInv, TypeOK, TickRecord, StorePut
<1>2. w.at \in Nat /\ w.n \in Nat \ {0} /\ head \in Nat
  BY <1>1, ArchiverAssumption DEF GoodTick, TickRecord, TypeOK
<1>3. (\A q \in uploaded : NameHeld(q))'
  <2>1. \A p, q : Key(p) = Key(q) <=>
          /\ Stamp[p.at] = Stamp[q.at]
          /\ Stamp[p.at + p.n - 1] = Stamp[q.at + q.n - 1]
    BY DEF Key
  <2>2. \A q \in uploaded : \E p \in objects : Key(p) = Key(q)
    BY <2>1 DEF IInv, NameHeld
  <2>3. \A q \in uploaded' : \E p \in objects' : Key(p) = Key(q)
    BY <1>1, <2>2
  <2>4. QED
    BY <2>1, <2>3 DEF NameHeld
<1>5. Uploaded \subseteq Uploaded' /\ RangeOf(o) \subseteq Uploaded'
  BY <1>1 DEF Uploaded
<1>6. /\ objects' \subseteq [at : Nat, n : Nat \ {0}]
      /\ uploaded' \subseteq [at : Nat, n : Nat \ {0}]
  BY <1>1, <1>2 DEF TypeOK
<1>8. tick'[t] = [w EXCEPT !.phase = "stored"]
  BY <1>0, <1>1
<1>9. /\ tick'[t] \in TickRecord
      /\ tick'[t].from = w.from /\ tick'[t].at = w.at /\ tick'[t].n = w.n
  BY <1>1, <1>8 DEF TickRecord
<1>10. tick' \in [Ticks -> TickRecord]
  BY <1>1, <1>9
<1>11. TypeOK'
  BY <1>1, <1>6, <1>10 DEF TypeOK, TickRecord
<1>12. GoodTick(tick[t])'
  <2>1. GoodHead(w.from)'
    BY <1>1, <1>2, <1>5, GoodHeadStable DEF GoodTick
  <2>2. GoodHead(tick[t].from)'
    BY <1>9, <2>1 DEF GoodHead, Safe, Uploaded
  <2>3. RangeOf(tick'[t]) = RangeOf(o)
    BY <1>9 DEF RangeOf
  <2>4. head' = head /\ tick'[t].n >= 1 /\ tick'[t].from <= tick'[t].at
        /\ tick'[t].at + tick'[t].n <= head'
        /\ (tick'[t].from = tick'[t].at \/ tick'[t].at <= Oldest(head'))
    BY <1>1, <1>9 DEF GoodTick
  <2>5. QED
    BY <1>5, <2>2, <2>3, <2>4 DEF GoodTick, GoodHead, Safe, Uploaded, RangeOf
<1>13. \A s \in Ticks : s # t => tick'[s] = tick[s]
  BY <1>1
<1>14. \A s \in Ticks : tick'[s].phase # "idle" =>
         up /\ (GoodTick(tick'[s]) \/ GoodTick(tick[s])')
  BY <1>1, <1>12, <1>13 DEF IInv
<1>15. head <= head'
  BY <1>1, <1>2
<1>16. QED
  BY <1>1, <1>3, <1>5, <1>11, <1>14, <1>15, GrowthKeeps

(* The end of a stored chunk is a good head.                               *)
LEMMA StoredHeadGood ==
  ASSUME TypeOK, NEW w \in TickRecord, GoodTick(w), w.phase = "stored"
  PROVE  GoodHead(w.from + w.n)
<1>1. /\ head \in Nat /\ w.from \in Nat /\ w.at \in Nat /\ w.n \in Nat
      /\ inherited \in Nat
      /\ w.from <= w.at /\ w.at + w.n <= head
      /\ w.from = w.at \/ w.at <= Oldest(head)
      /\ RangeOf(w) \subseteq Uploaded
      /\ Oldest(head) \in Nat
      /\ \A h \in inherited .. head - 1 : h < w.from => Safe(h)
  BY OldestMonotone DEF TypeOK, TickRecord, GoodTick, GoodHead
<1>2. w.from + w.n \in 0 .. head
  BY <1>1
<1>3. ASSUME NEW h \in inherited .. head - 1, h < w.from + w.n PROVE Safe(h)
  <2>1. CASE h < w.from
    BY <1>1, <2>1
  <2>2. CASE w.from <= h /\ h < w.at
    BY <1>1, <2>2 DEF Safe
  <2>3. CASE w.at <= h
    <3>1. h \in RangeOf(w)
      BY <1>1, <1>3, <2>3 DEF RangeOf
    <3>2. QED
      BY <1>1, <3>1 DEF Safe
  <2>4. QED
    BY <1>1, <2>1, <2>2, <2>3
<1>4. QED
  BY <1>1, <1>2, <1>3 DEF GoodHead

-----------------------------------------------------------------------------
(* The inductive invariant.                                                *)

(* It holds when the server first starts.                                  *)
LEMMA InitInvariant == Init => IInv
<1> SUFFICES ASSUME Init PROVE IInv
  OBVIOUS
<1>1. Idle \in TickRecord /\ Idle.phase = "idle"
  BY DEF Idle, TickRecord
<1>2. TypeOK
  BY <1>1, ArchiverAssumption DEF Init, TypeOK, TickRecord
<1>3. GoodHead(0)
  BY DEF Init, GoodHead
<1>4. QED
  BY <1>1, <1>2, <1>3 DEF Init, IInv

(* A store that begins anew is safe from the head on that it inherits.     *)
LEMMA NewLife ==
  ASSUME TypeOK', (\A t \in Ticks : tick[t].phase = "idle")',
         head' = 0, uploaded' = {}, inherited' = lastArchivedHead',
         saved' # Corrupt => saved' = lastArchivedHead'
  PROVE  IInv'
<1>1. lastArchivedHead' \in Nat
  BY DEF TypeOK
<1>2. \A h \in inherited' .. head' - 1 : FALSE
  BY <1>1
<1>3. \A x \in Nat : x <= inherited' => GoodHead(x)'
  BY <1>2 DEF GoodHead
<1>4. GoodHead(lastArchivedHead)' /\ (saved # Corrupt => GoodHead(saved))'
  BY <1>1, <1>2 DEF GoodHead
<1>5. QED
  BY <1>4 DEF IInv

(* Every step preserves it, over either kind of store.                     *)
LEMMA StepInvariant == IInv /\ [Next]_vars => IInv'
<1> SUFFICES ASSUME IInv, [Next]_vars PROVE IInv'
  OBVIOUS
<1>1. /\ TypeOK /\ head \in Nat /\ MaxHead \in Nat
      /\ tick \in [Ticks -> TickRecord]
  BY ArchiverAssumption DEF IInv, TypeOK, TickRecord
<1>2. Idle \in TickRecord /\ Idle.phase = "idle"
  BY DEF Idle, TickRecord
<1>3. ASSUME NEW n \in 1 .. Cap, Insert(n) PROVE IInv'
  <2>1. head' \in 0 .. MaxHead /\ head <= head'
    BY <1>1, <1>3, CapAssumption DEF Insert
  <2>2. UNCHANGED <<up, lastArchivedHead, saved, tick, objects, restarts,
                    uploaded, inherited>>
    BY <1>3 DEF Insert, history
  <2>3. TypeOK'
    BY <1>1, <2>1, <2>2 DEF TypeOK
  <2>4. Uploaded \subseteq Uploaded'
    BY <2>2 DEF Uploaded
  <2>5. (\A o \in uploaded : NameHeld(o))'
    BY <2>2 DEF IInv, NameHeld
  <2>6. \A t \in Ticks : tick'[t].phase # "idle" => up /\ GoodTick(tick'[t])
    BY <2>2 DEF IInv
  <2>7. QED
    BY <2>1, <2>2, <2>3, <2>4, <2>5, <2>6, GrowthKeeps
<1>4. ASSUME NEW t \in Ticks, TickStart(t) PROVE IInv'
  <2>1. /\ GoodHead(lastArchivedHead) /\ saved \in Nat \cup {Corrupt}
        /\ saved # Corrupt => GoodHead(saved)
    BY DEF IInv, TypeOK
  <2>2. /\ up
        /\ ArchiveChunk(t, lastArchivedHead, saved)
        /\ UNCHANGED <<head, up, objects, restarts, history>>
    BY <1>4 DEF TickStart
  <2>3. QED
    BY <2>1, <2>2, ArchiveChunkKeeps
<1>5. ASSUME NEW t \in Ticks, StorePut(t) PROVE IInv'
  BY <1>5, StorePutKeeps
<1>6. ASSUME NEW t \in Ticks, Ack(t) PROVE IInv'
  <2> DEFINE last == tick[t].from + tick[t].n
  <2>1. /\ tick[t] \in TickRecord /\ tick[t].phase = "stored"
        /\ up /\ GoodTick(tick[t]) /\ saved \in Nat \cup {Corrupt}
        /\ saved # Corrupt => GoodHead(saved)
    BY <1>1, <1>6 DEF Ack, IInv, TypeOK
  <2>2. GoodHead(last)
    BY <1>1, <2>1, StoredHeadGood
  <2>3. PICK file \in {saved, last} : ArchiveChunk(t, last, file)
    BY <1>6 DEF Ack
  <2>4. UNCHANGED <<head, up, objects, restarts, history>>
    BY <1>6 DEF Ack
  <2>5. last \in Nat
    BY <2>1 DEF TickRecord
  <2> HIDE DEF last
  <2>6. file \in Nat \cup {Corrupt} /\ (file # Corrupt => GoodHead(file))
    BY <2>1, <2>2, <2>3, <2>5
  <2>7. QED
    BY <2>1, <2>2, <2>3, <2>4, <2>6, ArchiveChunkKeeps
<1>7. ASSUME NEW t \in Ticks, UploadFails(t) PROVE IInv'
  <2>1. /\ tick' = [tick EXCEPT ![t] = Idle]
        /\ UNCHANGED <<head, up, lastArchivedHead, saved, objects, restarts,
                       uploaded, inherited>>
    BY <1>7 DEF UploadFails, history
  <2>2. tick' \in [Ticks -> TickRecord]
    BY <1>1, <1>2, <2>1
  <2>3. TypeOK'
    BY <1>1, <2>1, <2>2 DEF TypeOK, TickRecord
  <2>4. \A s \in Ticks : tick'[s].phase # "idle" => up /\ GoodTick(tick'[s])
    BY <1>1, <1>2, <2>1 DEF IInv
  <2>5. Uploaded \subseteq Uploaded' /\ head <= head'
    BY <1>1, <2>1 DEF Uploaded
  <2>6. (\A o \in uploaded : NameHeld(o))'
    BY <2>1 DEF IInv, NameHeld
  <2>7. QED
    BY <2>1, <2>3, <2>4, <2>5, <2>6, GrowthKeeps
<1>8. ASSUME Stop PROVE IInv'
  <2>1. PICK file \in {saved, lastArchivedHead, Corrupt} : Down(file)
    BY <1>8 DEF Stop
  <2>1a. file \in Nat \cup {Corrupt} /\ restarts + 1 \in Nat
    BY <1>1 DEF TypeOK
  <2>2. /\ saved' = file /\ restarts' = restarts + 1 /\ up' = FALSE
        /\ tick' = [t \in Ticks |-> Idle]
        /\ UNCHANGED <<head, lastArchivedHead, objects, uploaded, inherited>>
    BY <2>1 DEF Down, history
  <2>3. TypeOK'
    BY <1>1, <1>2, <2>1a, <2>2 DEF TypeOK, TickRecord
  <2>4. \A x : GoodHead(x) => GoodHead(x)'
    BY <2>2, GoodSame
  <2>5. GoodHead(lastArchivedHead) /\ (file # Corrupt => GoodHead(file))
    BY <2>1 DEF IInv
  <2>6. GoodHead(lastArchivedHead)' /\ (saved # Corrupt => GoodHead(saved))'
    BY <2>2, <2>4, <2>5 DEF GoodHead, Safe, Uploaded
  <2>7. (\A o \in uploaded : NameHeld(o))'
    BY <2>2 DEF IInv, NameHeld
  <2>8. \A t \in Ticks : tick'[t].phase = "idle"
    BY <1>2, <2>2
  <2>9. QED
    BY <2>3, <2>6, <2>7, <2>8 DEF IInv
<1>9. ASSUME Start PROVE IInv'
  <2>1. /\ lastArchivedHead' = IF saved = Corrupt THEN 0 ELSE saved
        /\ UNCHANGED <<saved, tick, restarts>> /\ up' = TRUE /\ ~up
    BY <1>9 DEF Start
  <2>2. \A t \in Ticks : tick'[t].phase = "idle"
    BY <2>1 DEF IInv
  <2>3. lastArchivedHead' \in Nat
    BY <1>1, <2>1 DEF TypeOK
  <2>4. CASE Persistent
    <3>1. UNCHANGED <<head, objects, uploaded, inherited>>
      BY <1>9, <2>4 DEF Start, history
    <3>2. GoodHead(0)
      BY <1>1 DEF GoodHead, TypeOK
    <3>3. GoodHead(lastArchivedHead')
      BY <2>1, <3>2 DEF IInv
    <3>4. TypeOK'
      BY <1>1, <2>1, <2>3, <3>1 DEF TypeOK
    <3>5. \A x : GoodHead(x) => GoodHead(x)'
      BY <3>1, GoodSame
    <3>6. GoodHead(lastArchivedHead)' /\ (saved # Corrupt => GoodHead(saved))'
      BY <2>1, <3>3, <3>5 DEF IInv, GoodHead, Safe, Uploaded
    <3>7. (\A o \in uploaded : NameHeld(o))'
      BY <3>1 DEF IInv, NameHeld
    <3>8. QED
      BY <2>2, <3>4, <3>6, <3>7 DEF IInv
  <2>5. CASE ~Persistent
    <3>1. /\ head' = 0 /\ objects' = {} /\ uploaded' = {}
          /\ inherited' = lastArchivedHead'
      BY <1>9, <2>5 DEF Start
    <3>2. TypeOK'
      BY <1>1, <2>1, <2>3, <3>1 DEF TypeOK
    <3>3. saved' # Corrupt => saved' = lastArchivedHead'
      BY <2>1
    <3>4. QED
      BY <2>2, <3>1, <3>2, <3>3, NewLife
  <2>6. QED
    BY <2>4, <2>5
<1>10. CASE UNCHANGED vars
  <2>1. UNCHANGED <<head, up, lastArchivedHead, saved, tick, objects, restarts,
                    uploaded, inherited>>
    BY <1>10 DEF vars, history
  <2>2. QED
    BY <2>1 DEF IInv, TypeOK, GoodHead, Safe, Uploaded, GoodTick, NameHeld
<1>11. QED
  BY <1>3, <1>4, <1>5, <1>6, <1>7, <1>8, <1>9, <1>10 DEF Next, TickStep

(* What a good head has passed was received by the bucket in an object     *)
(* whose end stamps it still holds, or overwritten.                        *)
LEMMA PassedSafely == IInv => NothingPassedOver
<1> SUFFICES ASSUME IInv, NEW h \in inherited .. head - 1, Passed(h)
             PROVE  Received(h) \/ h < Oldest(head)
  BY DEF NothingPassedOver
<1>1. h \in Uploaded \/ h < Oldest(head)
  BY DEF IInv, GoodHead, Safe, Passed
<1>2. QED
  BY <1>1 DEF Uploaded, IInv, Received

(* Over either kind of store and whatever timestamps the senders choose,   *)
(* no event from the inherited head on is passed over: whatever the        *)
(* archiver's head, in memory or in the file, has passed was received by   *)
(* the bucket, and lost there only to an object with the same end stamps,  *)
(* or was overwritten first; however many ticks overlap, whatever uploads  *)
(* and saves fail, and wherever the process was killed.                    *)
THEOREM NonePassedOver == Spec => []NothingPassedOver
<1>1. Init => IInv
  BY InitInvariant
<1>2. IInv /\ [Next]_vars => IInv'
  BY StepInvariant
<1>3. IInv => NothingPassedOver
  BY PassedSafely
<1>4. QED
  BY <1>1, <1>2, <1>3, PTL DEF Spec

(* The variables keep their types: the bucket never holds an empty object, *)
(* and the state file holds a number or does not parse.                    *)
THEOREM TypeCorrect == Spec => []TypeOK
<1>1. Init => IInv
  BY InitInvariant
<1>2. IInv /\ [Next]_vars => IInv'
  BY StepInvariant
<1>3. IInv => TypeOK
  BY DEF IInv
<1>4. QED
  BY <1>1, <1>2, <1>3, PTL DEF Spec

-----------------------------------------------------------------------------
(* Uploads repeated.  Nothing here depends on the kind of store or on the  *)
(* timestamps.                                                             *)

(* A multiple of the chunk size.                                           *)
Aligned(x) == \E k \in Nat : x = Chunk * k

(* A range, of an object or of a tick in flight, that is one whole chunk.  *)
WholeChunk(o) == Aligned(o.at) /\ o.n = Chunk

(* While nothing has been overwritten every head is a multiple of the      *)
(* chunk size, so every tick sends, and every object is, a whole chunk.    *)
AlignedInv ==
  /\ head \in Nat
  /\ tick \in [Ticks -> TickRecord]
  /\ lastArchivedHead \in Nat
  /\ saved # Corrupt => saved \in Nat
  /\ objects \subseteq [at : Nat, n : Nat]
  /\ ~Persistent => head <= Cap
  /\ head <= Cap =>
       /\ Aligned(lastArchivedHead)
       /\ saved # Corrupt => Aligned(saved)
       /\ \A t \in Ticks : tick[t].phase # "idle" =>
            WholeChunk(tick[t]) /\ tick[t].from = tick[t].at
       /\ \A o \in objects : WholeChunk(o)

(* A multiple of the chunk size is a number, zero is one, and the next     *)
(* chunk ends at one.                                                      *)
LEMMA AlignedFacts ==
  /\ Aligned(0)
  /\ \A x : Aligned(x) => x \in Nat /\ Aligned(x + Chunk)
<1>1. Chunk \in Nat
  BY ArchiverAssumption
<1>2. 0 \in Nat /\ 0 = Chunk * 0
  BY <1>1
<1>3. ASSUME NEW k \in Nat
      PROVE  /\ Chunk * k \in Nat /\ k + 1 \in Nat
             /\ Chunk * k + Chunk = Chunk * (k + 1)
  BY <1>1
<1>4. QED
  BY <1>2, <1>3 DEF Aligned

(* Two whole chunks are the same chunk or have no event in common.         *)
LEMMA ChunksApart ==
  ASSUME NEW x, NEW y, Aligned(x), Aligned(y), x < y
  PROVE  x + Chunk <= y
<1>1. PICK p \in Nat : x = Chunk * p
  BY DEF Aligned
<1>2. PICK q \in Nat : y = Chunk * q
  BY DEF Aligned
<1>3. Chunk \in Nat \ {0}
  BY ArchiverAssumption
<1>4. p < q
  <2>1. SUFFICES ASSUME q <= p PROVE FALSE
    OBVIOUS
  <2>2. Chunk * (p - q) >= 0 /\ Chunk * (p - q) = Chunk * p - Chunk * q
    BY <1>3, <2>1
  <2>3. Chunk * p \in Int /\ Chunk * q \in Int /\ Chunk * p < Chunk * q
    BY <1>1, <1>2, <1>3
  <2>4. QED
    BY <2>2, <2>3
<1>5. Chunk * (q - p - 1) >= 0
  BY <1>3, <1>4
<1>6. Chunk * (q - p - 1) = Chunk * q - Chunk * p - Chunk
  BY <1>3
<1>7. Chunk * p \in Int /\ Chunk * q \in Int
  BY <1>3
<1>8. QED
  BY <1>1, <1>2, <1>3, <1>5, <1>6, <1>7

(* Before anything is overwritten an extraction that is due returns the    *)
(* whole chunk it asked for.                                               *)
LEMMA WholeExtracted ==
  ASSUME head \in Nat, head <= Cap, NEW last \in Nat, Due(last)
  PROVE  ExtractRange(head, last, Chunk) = [from |-> last, n |-> Chunk]
<1>1. Chunk \in Nat /\ Chunk > 0 /\ head - last >= Chunk
  BY ArchiverAssumption DEF Due
<1>2. Oldest(head) = 0
  BY CapAssumption DEF Oldest
<1>3. ClampToHead(head, last, Chunk) = Chunk
  BY <1>1 DEF ClampToHead
<1>4. ~(Chunk = 0 \/ 0 - last >= Chunk) /\ Chunk > 0 /\ 0 - last <= 0
      /\ ~(0 - last > 0)
  BY <1>1
<1>5. QED
  BY <1>2, <1>3, <1>4 DEF ExtractRange

(* Archiving on from a multiple of the chunk size keeps the alignment.     *)
LEMMA ArchiveChunkAligns ==
  ASSUME AlignedInv, NEW t \in Ticks, NEW CONSTANT last, NEW CONSTANT file,
         head <= Cap => Aligned(last) /\ (file # Corrupt => Aligned(file)),
         last \in Nat, file # Corrupt => file \in Nat,
         ArchiveChunk(t, last, file), UNCHANGED <<head, up, objects, restarts, history>>
  PROVE  AlignedInv'
<1> DEFINE r == ExtractRange(head, last, Chunk)
<1>1. /\ head \in Nat /\ head' = head /\ objects' = objects
      /\ tick \in [Ticks -> TickRecord]
  BY DEF AlignedInv
<1>2. Idle \in TickRecord /\ Idle.phase = "idle"
  BY DEF Idle, TickRecord
<1>3. Chunk \in Nat \ {0}
  BY ArchiverAssumption
<1>4. ASSUME Due(last), r.n > 0
      PROVE  /\ InFlight("sent", last, r) \in TickRecord
             /\ head <= Cap => r.from = last /\ r.n = Chunk
  <2>1. last \in 0 .. head
    BY <1>1, <1>3, <1>4 DEF Due
  <2>2. r.n \in Nat /\ r.from \in Nat
    BY <1>1, <1>3, <1>4, <2>1, ExtractGood
  <2>3. head <= Cap => r = [from |-> last, n |-> Chunk]
    BY <1>1, <1>4, WholeExtracted
  <2> HIDE DEF r
  <2>4. InFlight("sent", last, r) \in TickRecord
    BY <2>2 DEF InFlight, TickRecord
  <2>5. head <= Cap => r.from = last /\ r.n = Chunk
    BY <2>3
  <2>6. QED
    BY <2>4, <2>5
<1>5. ASSUME Due(last), r.n = 0
      PROVE  ~(head <= Cap)
  <2>1. head <= Cap => r = [from |-> last, n |-> Chunk]
    BY <1>1, <1>5, WholeExtracted
  <2> HIDE DEF r
  <2>2. QED
    BY <1>3, <1>5, <2>1
<1> HIDE DEF r
<1>6. PICK w \in TickRecord :
        /\ tick' = [tick EXCEPT ![t] = w]
        /\ w.phase # "idle" /\ head <= Cap => WholeChunk(w) /\ w.from = w.at
  <2>1. CASE tick' = [tick EXCEPT ![t] = Idle]
    BY <1>2, <2>1
  <2>2. CASE /\ Due(last) /\ r.n > 0
             /\ tick' = [tick EXCEPT ![t] = InFlight("sent", last, r)]
    <3> DEFINE w == InFlight("sent", last, r)
    <3>1. w.from = last /\ w.at = r.from /\ w.n = r.n
      BY DEF InFlight
    <3>2. head <= Cap => WholeChunk(w) /\ w.from = w.at
      BY <1>4, <2>2, <3>1 DEF WholeChunk
    <3>3. QED
      BY <1>4, <2>2, <3>2
  <2>3. QED
    BY <2>1, <2>2 DEF ArchiveChunk, r
<1>7. head <= Cap => /\ lastArchivedHead' = last
                     /\ saved' = file
  BY <1>5 DEF ArchiveChunk, r
<1>8. tick' \in [Ticks -> TickRecord]
  BY <1>1, <1>6
<1>9. head <= Cap => \A s \in Ticks : tick'[s].phase # "idle" =>
         WholeChunk(tick'[s]) /\ tick'[s].from = tick'[s].at
  BY <1>1, <1>6 DEF AlignedInv
<1>10. lastArchivedHead' \in Nat /\ (saved' # Corrupt => saved' \in Nat)
  <2>1. Oldest(head) \in Nat
    BY <1>1, OldestMonotone
  <2>2. QED
    BY <2>1 DEF ArchiveChunk, SaveState, PastOverwritten
<1>11. QED
  BY <1>1, <1>7, <1>8, <1>9, <1>10 DEF AlignedInv, WholeChunk, Aligned

(* Whatever happens, heads and chunks stay aligned until events are lost.  *)
LEMMA AlignedStep == AlignedInv /\ [Next]_vars => AlignedInv'
<1> SUFFICES ASSUME AlignedInv, [Next]_vars PROVE AlignedInv'
  OBVIOUS
<1>1. /\ head \in Nat /\ tick \in [Ticks -> TickRecord]
      /\ Idle \in TickRecord /\ Idle.phase = "idle"
  BY DEF AlignedInv, Idle, TickRecord
<1>2. CASE \E n \in 1 .. Cap : Insert(n)
  <2>1. PICK n \in 1 .. Cap : Insert(n)
    BY <1>2
  <2>2. n \in Nat /\ head' = head + n /\ (~Persistent => head' <= Cap)
        /\ UNCHANGED <<lastArchivedHead, saved, tick, objects>>
    BY <2>1, CapAssumption DEF Insert
  <2>3. head' \in Nat /\ (head' <= Cap => head <= Cap)
    BY <1>1, <2>2, CapAssumption
  <2>4. QED
    BY <2>2, <2>3 DEF AlignedInv, WholeChunk, Aligned
<1>3. ASSUME NEW t \in Ticks, TickStart(t) PROVE AlignedInv'
  <2>1. ArchiveChunk(t, lastArchivedHead, saved)
        /\ UNCHANGED <<head, up, objects, restarts, history>>
    BY <1>3 DEF TickStart
  <2>2. /\ lastArchivedHead \in Nat /\ (saved # Corrupt => saved \in Nat)
        /\ head <= Cap => Aligned(lastArchivedHead) /\ (saved # Corrupt => Aligned(saved))
    BY DEF AlignedInv
  <2>3. QED
    BY <2>1, <2>2, ArchiveChunkAligns
<1>4. ASSUME NEW t \in Ticks, StorePut(t) PROVE AlignedInv'
  <2> DEFINE o == [at |-> tick[t].at, n |-> tick[t].n]
  <2>1. /\ tick[t].phase = "sent"
        /\ objects' \subseteq objects \cup {o}
        /\ tick' = [tick EXCEPT ![t].phase = "stored"]
        /\ UNCHANGED <<head, lastArchivedHead, saved>>
    BY <1>4 DEF StorePut
  <2>2. tick'[t] = [tick[t] EXCEPT !.phase = "stored"] /\ tick[t] \in TickRecord
    BY <1>1, <2>1
  <2>3. /\ tick'[t] \in TickRecord
        /\ tick'[t].from = tick[t].from /\ tick'[t].at = tick[t].at
        /\ tick'[t].n = tick[t].n
        /\ o \in [at : Nat, n : Nat]
    BY <2>2 DEF TickRecord
  <2>4. tick' \in [Ticks -> TickRecord]
    BY <1>1, <2>1, <2>3
  <2>5. head <= Cap => \A s \in Ticks : tick'[s].phase # "idle" =>
           WholeChunk(tick'[s]) /\ tick'[s].from = tick'[s].at
    BY <1>1, <2>1, <2>3 DEF AlignedInv, WholeChunk
  <2>6. head <= Cap => \A p \in objects' : WholeChunk(p)
    BY <2>1 DEF AlignedInv, WholeChunk
  <2>7. QED
    BY <2>1, <2>3, <2>4, <2>5, <2>6 DEF AlignedInv, WholeChunk, Aligned
<1>5. ASSUME NEW t \in Ticks, Ack(t) PROVE AlignedInv'
  <2> DEFINE last == tick[t].from + tick[t].n
  <2>1. PICK file \in {saved, last} : ArchiveChunk(t, last, file)
    BY <1>5 DEF Ack
  <2>2. UNCHANGED <<head, up, objects, restarts, history>> /\ tick[t].phase # "idle"
    BY <1>5 DEF Ack
  <2>3. last \in Nat
    BY <1>1 DEF TickRecord
  <2>4. head <= Cap => Aligned(last)
    BY <2>2, AlignedFacts DEF AlignedInv, WholeChunk
  <2> HIDE DEF last
  <2>5. /\ file # Corrupt => file \in Nat
        /\ head <= Cap => (file # Corrupt => Aligned(file))
    BY <2>1, <2>3, <2>4 DEF AlignedInv
  <2>6. QED
    BY <2>1, <2>2, <2>3, <2>4, <2>5, ArchiveChunkAligns
<1>6. ASSUME NEW t \in Ticks, UploadFails(t) PROVE AlignedInv'
  <2>1. /\ tick' = [tick EXCEPT ![t] = Idle]
        /\ UNCHANGED <<head, lastArchivedHead, saved, objects>>
    BY <1>6 DEF UploadFails
  <2>2. tick' \in [Ticks -> TickRecord]
        /\ \A s \in Ticks : tick'[s] = tick[s] \/ tick'[s].phase = "idle"
    BY <1>1, <2>1
  <2>3. QED
    BY <2>1, <2>2 DEF AlignedInv, WholeChunk, Aligned
<1>7. CASE Stop
  <2>1. PICK file \in {saved, lastArchivedHead, Corrupt} : Down(file)
    BY <1>7 DEF Stop
  <2>2. /\ saved' = file /\ tick' = [t \in Ticks |-> Idle]
        /\ UNCHANGED <<head, lastArchivedHead, objects>>
    BY <2>1 DEF Down
  <2>3. tick' \in [Ticks -> TickRecord] /\ \A t \in Ticks : tick'[t].phase = "idle"
    BY <1>1, <2>2
  <2>4. /\ file # Corrupt => file \in Nat
        /\ head <= Cap => (file # Corrupt => Aligned(file))
    BY <2>1 DEF AlignedInv
  <2>5. QED
    BY <2>2, <2>3, <2>4 DEF AlignedInv, WholeChunk, Aligned
<1>8. CASE Start
  <2>1. /\ lastArchivedHead' = IF saved = Corrupt THEN 0 ELSE saved
        /\ saved' = saved /\ tick' = tick
        /\ \/ Persistent /\ head' = head /\ objects' = objects
           \/ ~Persistent /\ head' = 0 /\ objects' = {}
    BY <1>8 DEF Start
  <2>2. head' \in Nat /\ (~Persistent => head' <= Cap) /\ (head' <= Cap => head <= Cap)
    BY <2>1, CapAssumption DEF AlignedInv
  <2>3. lastArchivedHead' \in Nat /\ (head <= Cap => Aligned(lastArchivedHead'))
    BY <2>1, AlignedFacts DEF AlignedInv
  <2>4. \A o \in objects' : o \in objects
    BY <2>1
  <2>5. QED
    BY <2>1, <2>2, <2>3, <2>4 DEF AlignedInv, WholeChunk, Aligned
<1>9. CASE UNCHANGED vars
  BY <1>9 DEF vars, AlignedInv, WholeChunk, Aligned
<1>10. QED
  BY <1>2, <1>3, <1>4, <1>5, <1>6, <1>7, <1>8, <1>9 DEF Next, TickStep

(* While nothing has been overwritten, no event is archived in two         *)
(* objects, in either kind of store, however often a chunk is uploaded     *)
(* again by an overlapping tick, a retry or a restart, even when events    *)
(* share timestamps.                                                       *)
THEOREM NoEventTwice == Spec => []ReuploadsCoincide
<1>1. Init => AlignedInv
  <2> SUFFICES ASSUME Init PROVE AlignedInv
    OBVIOUS
  <2>1. Idle \in TickRecord /\ Idle.phase = "idle"
    BY DEF Idle, TickRecord
  <2>2. QED
    BY <2>1, AlignedFacts, CapAssumption DEF Init, AlignedInv
<1>2. AlignedInv /\ [Next]_vars => AlignedInv'
  BY AlignedStep
<1>3. AlignedInv => ReuploadsCoincide
  <2> SUFFICES ASSUME AlignedInv, head <= Cap,
                      NEW o \in objects, NEW p \in objects, o # p
               PROVE  RangeOf(o) \cap RangeOf(p) = {}
    BY DEF ReuploadsCoincide
  <2>1. /\ Aligned(o.at) /\ Aligned(p.at) /\ o.n = Chunk /\ p.n = Chunk
        /\ o \in [at : Nat, n : Nat] /\ p \in [at : Nat, n : Nat]
    BY DEF AlignedInv, WholeChunk
  <2>2. o.at \in Nat /\ p.at \in Nat /\ Chunk \in Nat /\ o.at # p.at
    BY <2>1, ArchiverAssumption
  <2>3. o.at + Chunk <= p.at \/ p.at + Chunk <= o.at
    BY <2>1, <2>2, ChunksApart
  <2>4. QED
    BY <2>1, <2>2, <2>3 DEF RangeOf
<1>4. QED
  BY <1>1, <1>2, <1>3, PTL DEF Spec
=============================================================================

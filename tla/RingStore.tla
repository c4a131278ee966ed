----------------------------- MODULE RingStore -----------------------------
(***************************************************************************)
(* The columnar event store of native/libaacyn.c: three parallel columns   *)
(* (timestamps, durations, is_errors) written by aacyn_store_batch_insert  *)
(* and read by the scans and by aacyn_store_extract_raw.                   *)
(*                                                                         *)
(* The store is called from one JavaScript thread, so every call is one    *)
(* action.  A file-backed store (aacyn_store_open) is a ring that          *)
(* overwrites its oldest events; an anonymous one (aacyn_store_create)     *)
(* refuses a batch that does not fit.  RingRecovery models the inside of   *)
(* an insertion, which only a crash can make visible.                      *)
(*                                                                         *)
(* log is a history variable: the events that entered the store since it   *)
(* was created, so that log[h + 1] is the event with head index h.  loaded *)
(* is another: the rules that were last loaded.                            *)
(*                                                                         *)
(* A definition marked "Mutant" is a faulty variant of the definition      *)
(* after it: nothing uses it but the test that the properties catch it.    *)
(***************************************************************************)
EXTENDS FilterRules, RingIndex, FiniteSets

CONSTANTS
  Events,       \* the events that may be offered
  RuleLists,    \* the compiled rule lists a configuration may hold
  Persistent,   \* TRUE: file-backed ring; FALSE: anonymous memory
  MaxBatch,     \* bound: events in one batch
  MaxHead,      \* bound: events that ever enter the store
  MaxDropped    \* bound: events the rules drop

ASSUME EventsAssumption ==
  Events \subseteq { e \in [ColumnNames -> Int] : e["is_error"] \in {0, 1} }

(* A request body is at most 10 MB (server.ts), which holds fewer events   *)
(* than the 16M slots of the store: no batch is larger than the ring.      *)
ASSUME BatchAssumption == MaxBatch \in 1 .. Cap

ASSUME ConstantsAssumption ==
  /\ MaxHead \in Nat
  /\ MaxDropped \in Nat
  /\ Persistent \in BOOLEAN
  /\ RuleLists \subseteq Seq(CompiledRule)

VARIABLES
  columns,        \* the three columns
  head,           \* header->head (0 for ever in an anonymous store)
  count,          \* header->count
  len,            \* store->len
  rules,          \* store->rules[0 .. num_rules - 1]
  events_dropped, \* store->events_dropped
  log,            \* history of the events that entered
  loaded          \* history: the rules loaded since the process started

vars == <<columns, head, count, len, rules, events_dropped, log, loaded>>

MaxRules == 64    \* AACYN_MAX_RULES

Batches == UNION { [1 .. n -> Events] : n \in 1 .. MaxBatch }

(* aacyn_store_head: the monotonic write index.                            *)
StoreHead == IF Persistent THEN head ELSE len

-----------------------------------------------------------------------------
(* Writing.                                                                *)

(* Two copies when the batch straddles the end of the column.              *)
RingWrite(col, h, src) ==
  LET slot == SlotOf(h)
      tail == Cap - slot
  IN  IF Len(src) <= tail
      THEN CopyIn(col, slot, src, 1, Len(src))
      ELSE CopyIn(CopyIn(col, slot, src, 1, tail),
                  0, src, tail + 1, Len(src) - tail)

(* The fast path for a file-backed store.                                  *)
InsertRing(batch) ==
  /\ Persistent
  /\ columns' = [c \in ColumnNames |-> RingWrite(columns[c], head, Field(batch, c))]
  /\ head' = head + Len(batch)
  /\ count' = NewCount(head')
  /\ len' = count'
  /\ log' = log \o batch

(* The fast path for an anonymous store, which has no header and refuses   *)
(* what does not fit.                                                      *)
Fits(batch) == len + Len(batch) <= Cap

InsertLinear(batch) ==
  /\ ~Persistent
  /\ Fits(batch)
  /\ columns' = [c \in ColumnNames |->
                   CopyIn(columns[c], len, Field(batch, c), 1, Len(batch))]
  /\ len' = len + Len(batch)
  /\ log' = log \o batch
  /\ UNCHANGED <<head, count>>

(* The anonymous store is full: the whole batch is refused.                *)
RefuseByReset(batch) ==                                        \* Mutant
  /\ ~Persistent
  /\ ~Fits(batch)
  /\ columns' = [c \in ColumnNames |->
                   CopyIn(columns[c], 0, Field(batch, c), 1, Len(batch))]
  /\ len' = Len(batch)
  /\ log' = batch
  /\ UNCHANGED <<head, count>>

Refuse(batch) ==
  /\ ~Persistent
  /\ ~Fits(batch)
  /\ UNCHANGED <<columns, head, count, len, log>>

(* With no rules in force a batch is stored, or refused, as a whole.       *)
FastPath(in_force, batch) ==
  /\ in_force = << >>
  /\ InsertRing(batch) \/ InsertLinear(batch) \/ Refuse(batch)

(* num_rules = 0, and num_rules = saved_rules after the recursive call.    *)
Cleared == << >>
LeaveCleared(saved) == Cleared                                 \* Mutant
PutBack(saved) == saved

(* aacyn_store_batch_insert: the survivors of the filter, if any, are      *)
(* inserted by a call to itself with the rules cleared, which are then put *)
(* back; a dropped event is counted even when the survivors are refused.   *)
(* Without rules the batch is its own survivors.                           *)
BatchInsert(batch) ==
  /\ Len(log) + Len(batch) <= MaxHead
  /\ \E ix \in Survivors(rules, batch) :
       LET kept == Pick(batch, ix)
       IN  /\ events_dropped' = events_dropped + (Len(batch) - Len(kept))
           /\ events_dropped' <= MaxDropped
           /\ IF Len(kept) = 0
              THEN UNCHANGED <<columns, head, count, len, rules, log>>
              ELSE /\ FastPath(Cleared, kept)
                   /\ rules' = PutBack(rules)
  /\ UNCHANGED loaded

(* aacyn_store_set_rules: replaces the rules and restarts the counter; an  *)
(* empty list is ignored, so rules are never unloaded.                     *)
SetRules(rs) ==
  /\ rs # << >>
  /\ rules' = SubSeq(rs, 1, Min2(Len(rs), MaxRules))
  /\ loaded' = rules'
  /\ events_dropped' = 0
  /\ UNCHANGED <<columns, head, count, len, log>>

(* The process ends between two calls and starts again.  The mapped file   *)
(* keeps header and columns and aacyn_store_open takes the length from the *)
(* header; anonymous memory is gone.  Rules are not stored.                *)
RestartLosingFile ==                                           \* Mutant
  /\ rules' = << >>
  /\ loaded' = << >>
  /\ events_dropped' = 0
  /\ columns' = [c \in ColumnNames |-> [s \in Slots |-> 0]]
  /\ head' = 0
  /\ count' = 0
  /\ len' = 0
  /\ log' = << >>

Restart ==
  /\ rules' = << >>
  /\ loaded' = << >>
  /\ events_dropped' = 0
  /\ IF Persistent
     THEN /\ len' = count
          /\ UNCHANGED <<columns, head, count, log>>
     ELSE /\ columns' = [c \in ColumnNames |-> [s \in Slots |-> 0]]
          /\ len' = 0
          /\ log' = << >>
          /\ UNCHANGED <<head, count>>

-----------------------------------------------------------------------------
(* Reading.                                                                *)

RecordAt(s) == [c \in ColumnNames |-> columns[c][s]]

(* The order in which aacyn_store_scan visits the store.                   *)
Ordered == [i \in 1 .. len |-> RecordAt((ScanStart(StoreHead) + (i - 1)) % Cap)]

(* aacyn_store_scan(start_ns, end_ns, error_only, out_cap): 0 leaves a     *)
(* bound open; the scan stops when the output is full.                     *)
Wanted(e, start_ns, end_ns, error_only) ==
  /\ start_ns > 0 => e.timestamp >= start_ns
  /\ end_ns > 0 => e.timestamp <= end_ns
  /\ error_only => e.is_error # 0

ScanFirstVisited(start_ns, end_ns, error_only, out_cap) ==     \* Mutant
  SelectSeq(SubSeq(Ordered, 1, Min2(len, out_cap)),
            LAMBDA e : Wanted(e, start_ns, end_ns, error_only))

(* The loop of the scan: what is at the wanted positions, one after the    *)
(* other, as long as the output has room.                                  *)
Gather(s, wanted, room) ==
  LET out[i \in 0 .. Len(s)] ==
        IF i = 0 THEN << >>
        ELSE IF i \in wanted /\ Len(out[i - 1]) < room
             THEN Append(out[i - 1], s[i])
             ELSE out[i - 1]
  IN  out[Len(s)]

Scan(start_ns, end_ns, error_only, out_cap) ==
  Gather(Ordered,
         { i \in 1 .. len : Wanted(Ordered[i], start_ns, end_ns, error_only) },
         out_cap)

(* aacyn_store_extract_raw: the range it can still serve, copied out in    *)
(* two pieces when it straddles the end of the columns.                    *)
ExtractRaw(from, n) ==
  LET r    == ExtractRange(StoreHead, from, n)
      slot == SlotOf(r.from)
      tail == Cap - slot
  IN  [i \in 1 .. r.n |-> RecordAt(IF i <= tail THEN slot + i - 1 ELSE i - tail - 1)]

(* The vectorised aggregates run over slots 0 .. len - 1.                  *)
Live == 0 .. len - 1

ScanErrorCount == Cardinality({ s \in Live : columns["is_error"][s] # 0 })
ScanDurationAtLeast(ms) ==                                     \* Mutant
  Cardinality({ s \in Live : columns["duration"][s] >= ms })

ScanDurationFilter(ms) == Cardinality({ s \in Live : columns["duration"][s] > ms })
ScanDurationMax ==
  IF len = 0 THEN 0
  ELSE CHOOSE d \in { columns["duration"][s] : s \in Live } :
         \A s \in Live : columns["duration"][s] <= d

-----------------------------------------------------------------------------
Init ==
  /\ columns = [c \in ColumnNames |-> [s \in Slots |-> 0]]
  /\ head = 0
  /\ count = 0
  /\ len = 0
  /\ rules = << >>
  /\ events_dropped = 0
  /\ log = << >>
  /\ loaded = << >>

Next ==
  \/ \E batch \in Batches : BatchInsert(batch)
  \/ \E rs \in RuleLists : SetRules(rs)
  \/ Restart

Spec == Init /\ [][Next]_vars

-----------------------------------------------------------------------------
(* Properties.                                                             *)

Values == {0} \cup UNION { { e[c] : c \in ColumnNames } : e \in Events }

(* The variables keep their shape, and the counters their bounds.          *)
TypeOK ==
  /\ columns \in [ColumnNames -> [Slots -> Values]]
  /\ head \in Nat
  /\ count \in 0 .. Cap
  /\ len \in 0 .. Cap
  /\ rules \in Seq(CompiledRule)
  /\ events_dropped \in Nat
  /\ log \in Seq(Events)

(* header->head, header->count and store->len, which are written one after *)
(* the other and re-read on reopening, always describe the same window of  *)
(* the same history (libaacyn.c:509-513, 349).                         *)
HeaderAgrees ==
  /\ StoreHead = Len(log)
  /\ len = Min2(StoreHead, Cap)
  /\ Persistent => count = len

(* Every retained event is whole and in its slot: the three columns of     *)
(* slot h % Cap hold event h, for each of the newest Cap events, however   *)
(* the batches straddled the end of the columns.                           *)
RingHoldsNewest ==
  \A h \in Oldest(StoreHead) .. StoreHead - 1 : RecordAt(SlotOf(h)) = log[h + 1]

Window == SubSeq(log, Oldest(StoreHead) + 1, StoreHead)

(* A scan returns exactly the retained events that satisfy its filters,    *)
(* oldest first, and with a full output buffer the oldest of them: the     *)
(* k-th result is the k-th matching position of the history.               *)
ScanFaithful ==
  \A start_ns, end_ns \in Values, error_only \in BOOLEAN, out_cap \in 1 .. Cap :
    LET out  == Scan(start_ns, end_ns, error_only, out_cap)
        hits == { h \in Oldest(StoreHead) .. StoreHead - 1 :
                    Wanted(log[h + 1], start_ns, end_ns, error_only) }
    IN  /\ Len(out) = Min2(Cardinality(hits), out_cap)
        /\ \A h \in hits :
             LET k == Cardinality({ g \in hits : g <= h })
             IN  k <= out_cap => out[k] = log[h + 1]

(* Extraction returns exactly the part of the requested range of the       *)
(* history that is still in the store, for every request the archiver can  *)
(* make, also one that was partly or wholly overwritten.                   *)
ExtractFaithful ==
  \A from \in 0 .. StoreHead, n \in 1 .. MaxHead :
    ExtractRaw(from, n) =
      SubSeq(log, (IF from < Oldest(StoreHead) THEN Oldest(StoreHead) ELSE from) + 1,
                  Min2(from + n, StoreHead))

(* The aggregates run over raw slots, not over the history: they still     *)
(* count each retained event once, and nothing that was overwritten.       *)
AggregatesFaithful ==
  LET live == Oldest(StoreHead) .. StoreHead - 1
  IN  /\ ScanErrorCount = Cardinality({ h \in live : log[h + 1].is_error # 0 })
      /\ \A ms \in Values : ScanDurationFilter(ms) =
            Cardinality({ h \in live : log[h + 1].duration > ms })
      /\ live # {} => /\ \E h \in live : log[h + 1].duration = ScanDurationMax
                      /\ \A h \in live : log[h + 1].duration <= ScanDurationMax

(* No event that the rules last loaded drop ever enters the store, however *)
(* many insertions cleared num_rules and put it back since: insertions     *)
(* that kept all, some or none of their events, or were refused.           *)
LoadedRulesHold ==
  [][ \A i \in Len(log) + 1 .. Len(log') : ~ShouldDrop(loaded, log'[i]) ]_vars

(* The store implements the log it promises: read back through the scan    *)
(* order, its contents are the newest Cap accepted events, each batch      *)
(* enters whole, and only an anonymous store ever forgets on restart.      *)
Promised == INSTANCE EventLog WITH
              total <- StoreHead, retained <- Ordered,
              Event <- Events, Overwrites <- Persistent
ImplementsEventLog == Promised!Spec
=============================================================================

---------------------------- MODULE RingRecovery ----------------------------
(***************************************************************************)
(* What a killed process leaves in the file of a file-backed store.        *)
(*                                                                         *)
(* aacyn_store_batch_insert (native/libaacyn.c) writes the mapping in      *)
(* order: timestamps, durations, error flags (twice when the batch         *)
(* straddles the end of the columns), then header->head, header->count and *)
(* store->len.  Each write is a step here, and the process may be killed   *)
(* between any two of them or inside a memcpy.  The mapping is MAP_SHARED: *)
(* what was written before the kill is what the next aacyn_store_open      *)
(* finds.  Nothing else runs in the process during the call, so RingStore  *)
(* treats the whole call as one step; only a kill can tell the difference. *)
(*                                                                         *)
(* No rules are loaded (the filtered path hands its survivors to the path  *)
(* modelled here).  Writes reach the mapping in program order; loss of     *)
(* power, which also loses pages the kernel has not written, is not        *)
(* modelled.                                                               *)
(*                                                                         *)
(* A definition marked "Mutant" is a faulty variant of the definition      *)
(* after it: nothing uses it but the test that the properties catch it.    *)
(***************************************************************************)
EXTENDS RingIndex

CONSTANTS
  Events,       \* records with a field per column
  MaxBatch,     \* bound: events in one batch
  MaxHead,      \* bound: events that ever enter the store
  MaxKills      \* bound: kills

ASSUME RecoveryAssumption ==
  /\ Events \subseteq [ColumnNames -> Int]
  /\ MaxBatch \in 1 .. Cap
  /\ MaxHead \in Nat
  /\ MaxKills \in Nat

VARIABLES
  columns,   \* the mapped columns
  head,      \* header->head, mapped
  count,     \* header->count, mapped
  len,       \* store->len, private to the process
  up,        \* a process has the store open
  batch,     \* the batch of the call in progress
  todo,      \* the writes that call has still to make
  log,       \* history: the events whose head has been written
  kills

vars == <<columns, head, count, len, up, batch, todo, log, kills>>

Batches == UNION { [1 .. n -> Events] : n \in 1 .. MaxBatch }

-----------------------------------------------------------------------------
(* The writes of one call.                                                 *)

Copy(c, at, from, n) == [what |-> "copy", col |-> c, at |-> at, from |-> from, n |-> n]
HeaderWrite(field) == [what |-> field, col |-> "", at |-> 0, from |-> 0, n |-> 0]

CopyAll(at, from, n) ==
  << Copy("timestamp", at, from, n), Copy("duration", at, from, n),
     Copy("is_error", at, from, n) >>

PlanHeadFirst(h, n) ==                                         \* Mutant
  LET slot == SlotOf(h)
      tail == Cap - slot
  IN  << HeaderWrite("head"), HeaderWrite("count") >>
      \o (IF n <= tail THEN CopyAll(slot, 1, n)
                       ELSE CopyAll(slot, 1, tail) \o CopyAll(0, tail + 1, n - tail))
      \o << HeaderWrite("len") >>

Plan(h, n) ==
  LET slot == SlotOf(h)
      tail == Cap - slot
  IN  (IF n <= tail THEN CopyAll(slot, 1, n)
                    ELSE CopyAll(slot, 1, tail) \o CopyAll(0, tail + 1, n - tail))
      \o << HeaderWrite("head"), HeaderWrite("count"), HeaderWrite("len") >>

(* The caller hands over a batch.                                          *)
Call(b) ==
  /\ up
  /\ todo = << >>
  /\ head + Len(b) <= MaxHead
  /\ batch' = b
  /\ todo' = Plan(head, Len(b))
  /\ UNCHANGED <<columns, head, count, len, up, log, kills>>

WriteColumn ==
  /\ up
  /\ todo # << >>
  /\ LET w == Head(todo)
     IN  /\ w.what = "copy"
         /\ columns' = [columns EXCEPT ![w.col] =
                          CopyIn(@, w.at, Field(batch, w.col), w.from, w.n)]
  /\ todo' = Tail(todo)
  /\ UNCHANGED <<head, count, len, up, batch, log, kills>>

(* store->header->head = head + count                                      *)
WriteHead ==
  /\ up
  /\ todo # << >>
  /\ Head(todo).what = "head"
  /\ head' = head + Len(batch)
  /\ log' = log \o batch
  /\ todo' = Tail(todo)
  /\ UNCHANGED <<columns, count, len, up, batch, kills>>

(* store->header->count = min(head, cap)                                   *)
WriteCountIncrementally ==                                     \* Mutant
  /\ up
  /\ todo # << >>
  /\ Head(todo).what = "count"
  /\ count' = Min2(count + Len(batch), Cap)
  /\ todo' = Tail(todo)
  /\ UNCHANGED <<columns, head, len, up, batch, log, kills>>

WriteCount ==
  /\ up
  /\ todo # << >>
  /\ Head(todo).what = "count"
  /\ count' = NewCount(head)
  /\ todo' = Tail(todo)
  /\ UNCHANGED <<columns, head, len, up, batch, log, kills>>

(* store->len = new_count, and the call returns.                           *)
WriteLen ==
  /\ up
  /\ todo # << >>
  /\ Head(todo).what = "len"
  /\ len' = NewCount(head)
  /\ todo' = << >>
  /\ batch' = << >>
  /\ UNCHANGED <<columns, head, count, up, log, kills>>

(* The process is killed.  If a memcpy was under way, some of its elements *)
(* have been copied: memcpy promises no order among them.                  *)
Kill ==
  /\ up
  /\ kills < MaxKills
  /\ kills' = kills + 1
  /\ up' = FALSE
  /\ todo' = << >>
  /\ batch' = << >>
  /\ len' = 0
  /\ IF todo # << >> /\ Head(todo).what = "copy"
     THEN LET w == Head(todo)
          IN \E done \in SUBSET (0 .. w.n - 1) :
               columns' = [columns EXCEPT ![w.col] =
                 [s \in Slots |-> IF s - w.at \in done
                                  THEN Field(batch, w.col)[w.from + (s - w.at)]
                                  ELSE @[s]]]
     ELSE UNCHANGED columns
  /\ UNCHANGED <<head, count, log>>

(* aacyn_store_open on the existing file.                                  *)
Reopen ==
  /\ ~up
  /\ up' = TRUE
  /\ len' = count
  /\ UNCHANGED <<columns, head, count, batch, todo, log, kills>>

Init ==
  /\ columns = [c \in ColumnNames |-> [s \in Slots |-> 0]]
  /\ head = 0
  /\ count = 0
  /\ len = 0
  /\ up = TRUE
  /\ batch = << >>
  /\ todo = << >>
  /\ log = << >>
  /\ kills = 0

Next ==
  \/ \E b \in Batches : Call(b)
  \/ WriteColumn \/ WriteHead \/ WriteCount \/ WriteLen
  \/ Kill \/ Reopen

Spec == Init /\ [][Next]_vars

-----------------------------------------------------------------------------
(* Properties.                                                             *)

Values == {0} \cup UNION { { e[c] : c \in ColumnNames } : e \in Events }

(* The variables keep their shape.                                         *)
TypeOK ==
  /\ columns \in [ColumnNames -> [Slots -> Values]]
  /\ head \in Nat
  /\ count \in 0 .. Cap
  /\ len \in 0 .. Cap
  /\ up \in BOOLEAN
  /\ batch \in Seq(Events)
  /\ Len(batch) <= MaxBatch
  /\ log \in Seq(Events)
  /\ kills \in Nat

RecordAt(s) == [c \in ColumnNames |-> columns[c][s]]

(* A kill at any point, any number of times, damages at most the MaxBatch  *)
(* oldest retained events, those the interrupted batch was going to        *)
(* overwrite: every newer event is whole and in its slot, also while an    *)
(* insertion is under way.                                                 *)
DamageConfined ==
  \A h \in Oldest(head) .. head - 1 :
    h >= head + MaxBatch - Cap => RecordAt(SlotOf(h)) = log[h + 1]

(* The stored count never claims more events than were written, and what   *)
(* an idle store under-reports is at most one batch for each kill: kills   *)
(* between head and count add up until an insertion returns.               *)
CountNeverAhead ==
  /\ count <= Min2(head, Cap)
  /\ up /\ todo = << >> => Min2(head, Cap) - count <= MaxBatch * kills

(* The next insertion that returns repairs whatever an earlier kill left   *)
(* between head and count.                                                 *)
InsertionHealsHeader ==
  [][ up' /\ todo # << >> /\ todo' = << >> =>
        count' = Min2(head', Cap) /\ len' = count' ]_vars

(* docs/adr/002-mmap-vs-malloc.md:83-84 of a restart after a crash:        *)
(* "Events written before the crash but not yet `msync`'d may be           *)
(* lost, but the store is never corrupted".  Every record a scan of an     *)
(* open, idle store returns is an event somebody inserted.                 *)
NeverCorrupted ==
  up /\ todo = << >> =>
    \A i \in 0 .. len - 1 :
      \E k \in 1 .. Len(log) : RecordAt((ScanStart(head) + i) % Cap) = log[k]
=============================================================================

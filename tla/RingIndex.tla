----------------------------- MODULE RingIndex -----------------------------
(***************************************************************************)
(* Layout and index arithmetic of the columnar store.  Events are numbered *)
(* by the monotonic head: event h lives in slot h % capacity until event   *)
(* h + capacity overwrites it.                                             *)
(*                                                                         *)
(* A definition marked "Mutant" is a faulty variant of the definition      *)
(* after it: nothing uses it but the test that the properties catch it.    *)
(***************************************************************************)
EXTENDS Integers, Sequences

CONSTANT Cap            \* store->capacity, the number of slots

ASSUME CapAssumption == Cap \in Nat \ {0}

Slots == 0 .. Cap - 1

Min2(a, b) == IF a < b THEN a ELSE b

(* The columns of the store: timestamps, durations, is_errors.             *)
ColumnNames == {"duration", "is_error", "timestamp"}

(* One field of every event of a batch: the array passed for a column.     *)
Field(batch, c) == [i \in 1 .. Len(batch) |-> batch[i][c]]

(* The slot of event h.                                                    *)
SlotOf(h) == h % Cap

(* header->count after the head has moved to h.                            *)
CountFullRing(h) == IF h >= Cap THEN Cap - 1 ELSE h            \* Mutant
CountOfNext(h) == Min2(h + 1, Cap)                             \* Mutant
NewCount(h) == Min2(h, Cap)

(* memcpy(col + at, src + from, n), src counted from 1.                    *)
CopyAllButLast(col, at, src, from, n) ==                       \* Mutant
  [s \in Slots |-> IF s \in at .. at + n - 2 THEN src[from + (s - at)] ELSE col[s]]

CopyIn(col, at, src, from, n) ==
  [s \in Slots |-> IF s \in at .. at + n - 1 THEN src[from + (s - at)] ELSE col[s]]

(* The oldest event still in the store.                                    *)
Oldest(head) == IF head > Cap THEN head - Cap ELSE 0

(* The slot at which aacyn_store_scan starts: the oldest event's.          *)
ScanStart(head) == IF head <= Cap THEN 0 ELSE head % Cap

(* aacyn_store_extract_raw(from, count): the event it really starts at and *)
(* the number it returns.  The request is first clamped to what has been   *)
(* written, then to what has not been overwritten; the caller is told only *)
(* the number.                                                             *)
ClampBelowHead(head, from, count) ==                           \* Mutant
  IF count > head \/ from > head - count
  THEN IF head > from THEN head - from - 1 ELSE 0
  ELSE count

ClampToHead(head, from, count) ==
  IF count > head \/ from > head - count
  THEN IF head > from THEN head - from ELSE 0
  ELSE count

ExtractRange(head, from, count) ==
  LET n    == ClampToHead(head, from, count)
      skip == Oldest(head) - from
  IN  CASE n = 0 \/ skip >= n   -> [from |-> from, n |-> 0]
        [] n > 0 /\ skip <= 0   -> [from |-> from, n |-> n]
        [] skip > 0 /\ skip < n -> [from |-> Oldest(head), n |-> n - skip]
=============================================================================

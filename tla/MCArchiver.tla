----------------------------- MODULE MCArchiver -----------------------------
(***************************************************************************)
(* Small instances of Archiver.                                            *)
(***************************************************************************)
EXTENDS Archiver

(* Distinct timestamps in arrival order.                                   *)
IncreasingStamp == [h \in 0 .. MaxHead |-> h + 1]

(* Chunks of two events begin with the same timestamp.  The second chunk   *)
(* also ends with that of the first, as a batch does that its sender sends *)
(* again; the third ends with another.                                     *)
RepeatedStamp == [h \in 0 .. MaxHead |-> IF h % 2 = 0 THEN 1 ELSE IF h < 4 THEN 2 ELSE 3]
=============================================================================

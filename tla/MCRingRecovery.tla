--------------------------- MODULE MCRingRecovery ---------------------------
(***************************************************************************)
(* Small instances of RingRecovery.                                        *)
(***************************************************************************)
EXTENDS RingRecovery

MCEvents == { [timestamp |-> 1, duration |-> 1, is_error |-> 0],
              [timestamp |-> 2, duration |-> 3, is_error |-> 1] }
=============================================================================

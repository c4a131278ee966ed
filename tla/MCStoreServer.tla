--------------------------- MODULE MCStoreServer ---------------------------
(***************************************************************************)
(* A small server: every route has a request that differs from the others  *)
(* in the columns it leaves behind, and one that goes wrong.               *)
(***************************************************************************)
EXTENDS StoreServer

CONSTANTS t1, t2, k1, k2

Cols(timestamp, duration, is_error) ==
  [timestamp |-> timestamp, duration |-> duration, is_error |-> is_error]
Event(t, whole, cols) == [trace |-> t, whole |-> whole, event |-> cols]

(* The second body has a fast event, which the rules drop, before a slow   *)
(* one; the third breaks off at a time that is no integer.                 *)
Slow == Event(t1, TRUE, Cols(3, 4, 1))
Fast == Event(t2, TRUE, Cols(2, 1, 0))
MCBodies == { <<Slow>>, <<Fast, Slow>>, <<Fast, Event(t1, FALSE, Cols(4, 4, 0))>> }
MCEventBodies == { <<Event(t1, TRUE, Cols(5, 0, 0))>> }
MCBinaryBatches == { <<Cols(6, 4, 0), Cols(6, 1, 0)>> }
MCProbeEvents == { Cols(9, 1, 0) }

Span(t, start, end, error, wellFormed) ==
  [trace |-> t, start |-> start, end |-> end, error |-> error, wellFormed |-> wellFormed]
Request(resources) ==
  [contentType |-> "json", decodes |-> TRUE, hasResourceSpans |-> TRUE,
   resources |-> resources]

(* A request with a named and an unnamed service, one whose second span is *)
(* malformed, and one that is empty.                                       *)
MCOtlpRequests ==
  { Request(<< [resource |-> [service |-> "cart"], spans |-> <<Span(t1, 7, 11, TRUE, TRUE)>>],
               [resource |-> << >>, spans |-> <<Span(t2, 7, 11, FALSE, TRUE)>>] >>),
    Request(<< [resource |-> [service |-> "shop"],
                spans |-> <<Span(t1, 8, 9, FALSE, TRUE), Span(t1, 8, 9, FALSE, FALSE)>>] >>),
    Request(<< >>) }

MCEvents ==
  { Cols(3, 4, 1), Cols(2, 1, 0), Cols(5, 0, 0), Cols(6, 4, 0), Cols(6, 1, 0),
    Cols(9, 1, 0), Cols(7, 4, 1), Cols(7, 4, 0), Cols(4, 4, 0) }

(* A child before its parent, a span that is its own parent, a child of a  *)
(* span that is never reported, and a span without an id.                  *)
Kernel(id, parent, start) ==
  [trace |-> t1, id |-> id, parent |-> parent, start |-> start, is_error |-> 0]
MCKernelSpans == { Kernel(k1, k2, 20), Kernel(k2, NoSpan, 21), Kernel(k2, k1, 22),
                   Kernel(NoSpan, k2, 23) }

Text(column, op, action, threshold) ==
  [column |-> column, op |-> op, action |-> action, threshold |-> threshold]
DropFast == Text("duration", "lt", "drop", 2)

(* No file; the rule of the repository's own; that rule past two others,   *)
(* of which the limit keeps it out; and one with a word nobody knows.      *)
MCConfigFiles ==
  { << >>, <<DropFast>>, <<Text("is_error", "==", "keep", 0), DropFast, Text("x", "?", "drop", 0)>>,
    <<DropFast, Text("service", "lt", "drop", 2)>> }
=============================================================================

------------------------------ MODULE EventLog ------------------------------
(***************************************************************************)
(* What the columnar store promises its callers, with no slots, heads or   *)
(* wrap-around: a numbered log of events that keeps the newest Cap of      *)
(* them.                                                                   *)
(*                                                                         *)
(* An overwriting log (the file-backed store) accepts every batch and      *)
(* forgets the oldest events; a refusing log (the anonymous store) never   *)
(* forgets while the process lives, accepts a batch only as a whole, and   *)
(* starts again from nothing when the process does.                        *)
(***************************************************************************)
EXTENDS Integers, Sequences

CONSTANTS Cap,          \* how many events are retained
          Event,        \* the events that may be logged
          Overwrites    \* TRUE: overwriting log; FALSE: refusing log

VARIABLES total,        \* number of events ever accepted
          retained      \* the newest of them, oldest first

logVars == <<total, retained>>

Newest(s) == IF Len(s) > Cap THEN SubSeq(s, Len(s) - Cap + 1, Len(s)) ELSE s

Init == total = 0 /\ retained = << >>

(* A batch enters as a whole, in its order, after everything before it.    *)
Accept(batch) ==
  /\ Overwrites \/ total + Len(batch) <= Cap
  /\ total' = total + Len(batch)
  /\ retained' = Newest(retained \o batch)

(* Only the refusing log loses its contents.                               *)
Restart ==
  /\ ~Overwrites
  /\ total' = 0
  /\ retained' = << >>

Next ==
  \/ \E n \in 1 .. Cap : \E batch \in [1 .. n -> Event] : Accept(batch)
  \/ Restart

Spec == Init /\ [][Next]_logVars
=============================================================================

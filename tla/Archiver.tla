------------------------------ MODULE Archiver ------------------------------
(***************************************************************************)
(* The cold-storage archiver (ts/apps/api/src/archiver.ts) beside the      *)
(* store it reads and the object store it writes.                          *)
(*                                                                         *)
(* setInterval starts a tick every minute whether or not the last one has  *)
(* finished: a tick awaits its uploads, so several ticks may be in flight, *)
(* all sharing one in-memory state object.  Each answer is handled in one  *)
(* turn of the event loop, from the commit to the extraction of the next   *)
(* chunk; inserts, other ticks and kills happen while a tick waits.        *)
(*                                                                         *)
(* The store is reduced to its head: events are their head indices, slots  *)
(* and contents being RingStore's subject.  Stamp gives the timestamp an   *)
(* event carries, which names the object it is archived in.                *)
(*                                                                         *)
(* A definition marked "Mutant" is a faulty variant of the definition      *)
(* after it: nothing uses it but the test that the properties catch it.    *)
(***************************************************************************)
EXTENDS RingIndex

CONSTANTS
  Chunk,        \* CHUNK_SIZE
  Ticks,        \* identities of ticks in flight at the same time
  Persistent,   \* TRUE: file-backed store; FALSE: anonymous memory
  Stamp,        \* timestamp of the event with a given head index
  Corrupt,      \* a state file that does not parse
  MaxHead,      \* bound: events that ever enter the store
  MaxRestarts   \* bound: stops of the process

ASSUME ArchiverAssumption ==
  /\ Chunk \in Nat \ {0}
  /\ Persistent \in BOOLEAN
  /\ MaxHead \in Nat
  /\ MaxRestarts \in Nat
  /\ Corrupt \notin Nat
  /\ Stamp \in [0 .. MaxHead -> Nat]

VARIABLES
  head,              \* aacyn_store_head
  up,                \* the process is running
  lastArchivedHead,  \* state.lastArchivedHead, shared by all ticks
  saved,             \* lastArchivedHead in the state file, or Corrupt
  tick,              \* what each tick is waiting for
  objects,           \* the objects in the bucket, as event ranges
  restarts,
  uploaded,          \* history: every object the bucket ever received
  inherited          \* history: the head loaded over a store that began anew

history == <<uploaded, inherited>>
vars == <<head, up, lastArchivedHead, saved, tick, objects, restarts, history>>

(* A tick is idle, or waits for an upload: it read its chunk when the      *)
(* in-memory head was at `from' and got the n events starting at `at'.     *)
Idle == [phase |-> "idle", from |-> 0, at |-> 0, n |-> 0]
InFlight(phase, from, r) ==
  [phase |-> phase, from |-> from, at |-> r.from, n |-> r.n]

RangeOf(o) == o.at .. o.at + o.n - 1

(* The events in cold storage.                                             *)
Archived == UNION { RangeOf(o) : o \in objects }

(* aacyn_archive_${firstTs}_to_${lastTs}: an object is named by the        *)
(* timestamps of its first and last event.                                 *)
KeyOfFirst(o) == Stamp[o.at]                                   \* Mutant
Key(o) == <<Stamp[o.at], Stamp[o.at + o.n - 1]>>

-----------------------------------------------------------------------------
(* The store under the archiver.                                           *)

(* Events enter; an anonymous store refuses a batch that does not fit.     *)
Insert(n) ==
  /\ up
  /\ head + n <= MaxHead
  /\ Persistent \/ head + n <= Cap
  /\ head' = head + n
  /\ UNCHANGED <<up, lastArchivedHead, saved, tick, objects, restarts, history>>

-----------------------------------------------------------------------------
(* saveState catches write errors, so the file may keep its old contents.  *)
SaveState(old, new) == saved' \in {old, new}

(* Enough events have accumulated for a chunk.                             *)
DueEarly(last) == head > last                                  \* Mutant
Due(last) == head - last >= Chunk

(* Where the state moves when its whole chunk was overwritten.             *)
StayPut == lastArchivedHead                                    \* Mutant
PastOverwritten == Oldest(head)

(* archiveChunk from its entry to its upload, with the in-memory head at   *)
(* `last' and the state file at `file'.                                    *)
ArchiveChunk(t, last, file) ==
  LET r == ExtractRange(head, last, Chunk)
  IN  \/ \* not enough new events: the tick ends
         /\ ~Due(last)
         /\ tick' = [tick EXCEPT ![t] = Idle]
         /\ lastArchivedHead' = last
         /\ saved' = file
      \/ \* the whole chunk was overwritten: move to the oldest event, end
         /\ Due(last)
         /\ r.n = 0
         /\ tick' = [tick EXCEPT ![t] = Idle]
         /\ lastArchivedHead' = PastOverwritten
         /\ SaveState(file, PastOverwritten)
      \/ \* send what is left of the chunk
         /\ Due(last)
         /\ r.n > 0
         /\ tick' = [tick EXCEPT ![t] = InFlight("sent", last, r)]
         /\ lastArchivedHead' = last
         /\ saved' = file

(* The interval fires.                                                     *)
TickStart(t) ==
  /\ up
  /\ tick[t] = Idle
  /\ ArchiveChunk(t, lastArchivedHead, saved)
  /\ UNCHANGED <<head, up, objects, restarts, history>>

(* The object store receives the PUT; an object of the same name is        *)
(* replaced.                                                               *)
StorePut(t) ==
  /\ tick[t].phase = "sent"
  /\ LET o == [at |-> tick[t].at, n |-> tick[t].n]
     IN  /\ objects' = { p \in objects : Key(p) # Key(o) } \cup {o}
         /\ uploaded' = uploaded \cup {o}
  /\ tick' = [tick EXCEPT ![t].phase = "stored"]
  /\ UNCHANGED <<head, up, lastArchivedHead, saved, restarts, inherited>>

(* The answer arrives: commitArchiveState, then the loop archives the next *)
(* chunk from the new state.                                               *)
AckAddsToShared(t) ==                                          \* Mutant
  /\ tick[t].phase = "stored"
  /\ LET last == lastArchivedHead + tick[t].n
     IN  \E file \in {saved, last} : ArchiveChunk(t, last, file)
  /\ UNCHANGED <<head, up, objects, restarts, history>>

Ack(t) ==
  /\ tick[t].phase = "stored"
  /\ LET last == tick[t].from + tick[t].n
     IN  \E file \in {saved, last} : ArchiveChunk(t, last, file)
  /\ UNCHANGED <<head, up, objects, restarts, history>>

(* The upload fails, or succeeds and the answer is lost: no state change,  *)
(* and the tick ends.                                                      *)
UploadFails(t) ==
  /\ tick[t] # Idle
  /\ tick' = [tick EXCEPT ![t] = Idle]
  /\ UNCHANGED <<head, up, lastArchivedHead, saved, objects, restarts, history>>

-----------------------------------------------------------------------------
Down(file) ==
  /\ up
  /\ restarts < MaxRestarts
  /\ restarts' = restarts + 1
  /\ up' = FALSE
  /\ saved' = file
  /\ tick' = [t \in Ticks |-> Idle]
  /\ UNCHANGED <<head, lastArchivedHead, objects, history>>

(* The process is killed, or stopped by SIGTERM.  The handler saves the    *)
(* state unless another handler has already called process.exit; a kill    *)
(* inside the writeFileSync of a save leaves a file that does not parse.   *)
Stop == \E file \in {saved, lastArchivedHead, Corrupt} : Down(file)

(* startArchiver: the state file is read, or starts from zero when it does *)
(* not parse.  An anonymous store starts empty; the objects of its earlier *)
(* life are no longer events of the store and leave the model.             *)
Start ==
  /\ ~up
  /\ up' = TRUE
  /\ lastArchivedHead' = IF saved = Corrupt THEN 0 ELSE saved
  /\ IF Persistent
     THEN UNCHANGED <<head, objects, history>>
     ELSE /\ head' = 0
          /\ objects' = {}
          /\ uploaded' = {}
          /\ inherited' = lastArchivedHead'
  /\ UNCHANGED <<saved, tick, restarts>>

-----------------------------------------------------------------------------
Init ==
  /\ head = 0
  /\ up = TRUE
  /\ lastArchivedHead = 0
  /\ saved = 0
  /\ tick = [t \in Ticks |-> Idle]
  /\ objects = {}
  /\ restarts = 0
  /\ uploaded = {}
  /\ inherited = 0

TickStep(t) == TickStart(t) \/ StorePut(t) \/ Ack(t) \/ UploadFails(t)

Next ==
  \/ \E n \in 1 .. Cap : Insert(n)
  \/ \E t \in Ticks : TickStep(t)
  \/ Stop
  \/ Start

Spec == Init /\ [][Next]_vars

(* The interval keeps firing, a stopped process is started again, and the  *)
(* object store does not fail for ever: an upload that is tried again and  *)
(* again is at last stored and answered.                                   *)
Fairness ==
  /\ WF_vars(Start)
  /\ \A t \in Ticks : /\ WF_vars(TickStart(t))
                      /\ SF_vars(StorePut(t))
                      /\ SF_vars(Ack(t))

FairSpec == Spec /\ Fairness

-----------------------------------------------------------------------------
(* Properties.                                                             *)

(* The variables keep their shape.                                         *)
TypeOK ==
  /\ head \in 0 .. MaxHead
  /\ up \in BOOLEAN
  /\ lastArchivedHead \in Nat
  /\ saved \in Nat \cup {Corrupt}
  /\ tick \in [Ticks -> [phase : {"idle", "sent", "stored"},
                         from : Nat, at : Nat, n : Nat]]
  /\ objects \subseteq [at : Nat, n : Nat \ {0}]
  /\ restarts \in Nat
  /\ uploaded \subseteq [at : Nat, n : Nat \ {0}]
  /\ inherited \in Nat

(* The state says that event h is archived: the state in memory, or the    *)
(* one in the file, which a restart would load.                            *)
Passed(h) == h < lastArchivedHead \/ (saved # Corrupt /\ h < saved)

(* Event h is in cold storage, or the ring has overwritten it.             *)
Settled(h) == h \in Archived \/ h < Oldest(head)

(* No event is skipped: every event of the store that the in-memory state, *)
(* or the state file a restart would load, says is archived is in cold     *)
(* storage or had already been overwritten, with ticks overlapping,        *)
(* uploads failing or losing their answers, and kills between the upload   *)
(* and the save.                                                           *)
NothingSkipped == \A h \in 0 .. head - 1 : Passed(h) => Settled(h)

(* The bucket holds o, or an object that begins and ends with the          *)
(* timestamps that o begins and ends with.                                 *)
NameHeld(o) ==
  \E p \in objects : /\ Stamp[p.at] = Stamp[o.at]
                      /\ Stamp[p.at + p.n - 1] = Stamp[o.at + o.n - 1]

(* The bucket received event h in an object whose end stamps it still      *)
(* holds.                                                                  *)
Received(h) == \E o \in uploaded : h \in RangeOf(o) /\ NameHeld(o)

(* Whatever the kind of store and whatever timestamps the senders choose,  *)
(* nothing from the head on that a new store inherited is passed over:     *)
(* every such event that the state says is archived was received by the    *)
(* bucket, and lost from it only to an object with the same end stamps, or *)
(* had already been overwritten, with ticks overlapping, uploads failing   *)
(* or losing their answers, and kills between the upload and the save      *)
(* (archiveChunk, commitArchiveState).  A store that continues inherits    *)
(* nothing; an anonymous one inherits the head of the state file, below    *)
(* which its events are never archived.                                    *)
NothingPassedOver ==
  \A h \in inherited .. head - 1 :
    Passed(h) => Received(h) \/ h < Oldest(head)

(* While nothing has been overwritten, every object is one aligned chunk:  *)
(* a chunk that two ticks, a retry or a restart upload again is the same   *)
(* object again, so no event is archived under two names.                  *)
ReuploadsCoincide ==
  head <= Cap =>
    \A o, p \in objects : o # p => RangeOf(o) \cap RangeOf(p) = {}

(* Once inserts and restarts cease, the archiver catches up: at most an    *)
(* incomplete chunk stays unarchived, although a slow tick may set the     *)
(* shared head back to where it started.                                   *)
CatchesUp == <>[](head - lastArchivedHead < Chunk)
=============================================================================

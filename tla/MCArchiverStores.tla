-------------------------- MODULE MCArchiverStores --------------------------
(***************************************************************************)
(* The archiver over either kind of store, one in each behaviour.  The     *)
(* constants are those of the anonymous store the server creates; File is  *)
(* the archiver over a file-backed ring, which wraps.                      *)
(***************************************************************************)
EXTENDS MCArchiver

VARIABLE store

File == INSTANCE Archiver WITH Persistent <- TRUE

allVars == <<vars, store>>

Anonymously(A) == store = "anonymous" /\ A /\ UNCHANGED store
InFile(A) == store = "file" /\ A /\ UNCHANGED store

MCInit == store \in {"anonymous", "file"} /\ Init
MCNext == Anonymously(Next) \/ InFile(File!Next)

(* The archiver's fairness, in either store.                               *)
MCSpec ==
  /\ MCInit
  /\ [][MCNext]_allVars
  /\ WF_allVars(Anonymously(Start) \/ InFile(File!Start))
  /\ \A t \in Ticks :
       /\ WF_allVars(Anonymously(TickStart(t)) \/ InFile(File!TickStart(t)))
       /\ SF_allVars(Anonymously(StorePut(t)) \/ InFile(File!StorePut(t)))
       /\ SF_allVars(Anonymously(Ack(t)) \/ InFile(File!Ack(t)))
=============================================================================

--------------------------- MODULE MCEbpfPipeline ---------------------------
(***************************************************************************)
(* A small instance of EbpfPipeline: two processes of the same name in two *)
(* containers that share an address, as with the host's network, one of    *)
(* them with a thread of another name, the other with a second socket that *)
(* it connects to 0.0.0.0, by which it reaches the same peer.              *)
(***************************************************************************)
EXTENDS EbpfPipeline

Call(pid, comm, dst) ==
  [pid |-> pid, comm |-> comm, src |-> "host", dst |-> dst, peer |-> "db"]
MCCalls == { Call(1, "web", "db"), Call(1, "web", "any"), Call(2, "web", "db"),
             Call(2, "job", "db") }
MCUnspecified == {"any"}
MCContainer == [p \in {1, 2} |-> IF p = 1 THEN "a" ELSE "b"]
=============================================================================

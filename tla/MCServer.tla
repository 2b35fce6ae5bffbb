------------------------------ MODULE MCServer ------------------------------
(***************************************************************************)
(* Small instances of Server.  A run chooses the requests the peers may    *)
(* send, so that each explores one part of the handlers to a useful depth. *)
(***************************************************************************)
EXTENDS Server, TLC

\* Connections and names are interchangeable: only equality is asked of them.
ConnsAndNames == Permutations(Conns) \cup Permutations(Names)
=============================================================================

----------------------------- MODULE MCSendBuf -----------------------------
(***************************************************************************)
(* Small instances of SendBuf: a ring of a few cells, packets of a few     *)
(* lengths, and enough accepted bytes for the positions to wrap several    *)
(* times and for tail to land on the end of the array.                     *)
(***************************************************************************)
EXTENDS SendBuf
=============================================================================

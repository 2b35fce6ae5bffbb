---------------------------- MODULE MCClientApp ----------------------------
(***************************************************************************)
(* ClientApp for TLC.  The constants are numbers, given in the .cfg files. *)
(***************************************************************************)
EXTENDS ClientApp
=============================================================================

----------------------------- MODULE MCDatabase -----------------------------
(***************************************************************************)
(* Database for TLC.                                                       *)
(***************************************************************************)
EXTENDS Database

CONSTANTS p1, p2, ann, bob

MCProcs == {p1, p2}
MCNames == {ann, bob}
MCOneName == {ann}
\* At and above the end of the clamp; and below its beginning.
MCLimits == {0, 3}
MCNoLimits == {}
=============================================================================

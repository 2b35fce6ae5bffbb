----------------------------- MODULE SendQueue -----------------------------
(***************************************************************************)
(* What the per-client send buffer of server/server.c promises its caller: *)
(* the bytes the caller puts in come out once each, in order, and nothing  *)
(* else comes out.  A byte is named by its position in the stream of bytes *)
(* accepted on the connection: the first one is 1.                         *)
(***************************************************************************)
EXTENDS Naturals, Sequences

VARIABLES
    accepted,   \* number of bytes the queue has taken on this connection
    wire        \* the bytes handed to the kernel, in order

Init ==
    /\ accepted = 0
    /\ wire = <<>>

\* The caller's next n bytes are taken, all of them.
Put ==
    /\ accepted' > accepted
    /\ UNCHANGED wire

\* The oldest waiting bytes, k of them, are handed over.
Get ==
    \E k \in 1..(accepted - Len(wire)) :
        /\ wire' = [b \in 1..(Len(wire) + k) |-> b]
        /\ UNCHANGED accepted

\* The connection ends and the queue starts again, empty, for another one.
Reset ==
    /\ accepted' = 0
    /\ wire' = <<>>

Next == Put \/ Get \/ Reset

Spec == Init /\ [][Next]_<<accepted, wire>>
=============================================================================

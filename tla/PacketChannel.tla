--------------------------- MODULE PacketChannel ---------------------------
(***************************************************************************)
(* What the packet layer of comm/comm.c is for: packets handed to          *)
(* ns_send_packet come out of ns_recv_packet whole, once each and in       *)
(* order, until the receiver is told that the connection has ended.        *)
(* Packets are numbered 1, 2, ... in the order they are handed over.       *)
(***************************************************************************)
EXTENDS Naturals, Sequences

VARIABLES
    given,      \* number of packets handed over
    delivered,  \* the packets received, in order
    over        \* the receiver has been told that no more will come

Init ==
    /\ given = 0
    /\ delivered = <<>>
    /\ over = FALSE

Give ==
    /\ given' = given + 1
    /\ UNCHANGED <<delivered, over>>

Deliver ==
    /\ ~over
    /\ Len(delivered) < given
    /\ delivered' = Append(delivered, Len(delivered) + 1)
    /\ UNCHANGED <<given, over>>

End ==
    /\ ~over
    /\ over' = TRUE
    /\ UNCHANGED <<given, delivered>>

Next == Give \/ Deliver \/ End

Spec == Init /\ [][Next]_<<given, delivered, over>>
=============================================================================

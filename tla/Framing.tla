------------------------------ MODULE Framing ------------------------------
(***************************************************************************)
(* Packets on a TCP connection, comm/comm.c: ns_packet_set and             *)
(* ns_send_packet write a header and then a body with ns_send_all, and     *)
(* ns_recv_packet reads a header and then a body with ns_recv_all.  The    *)
(* kernel moves any number of bytes per call, so both loops are modelled   *)
(* one byte at a time.  A byte on the way is named by its packet and its   *)
(* place in it; what the bytes of a header say is WireFormat's.            *)
(*                                                                         *)
(* blocking is TRUE for the client's socket, where recv() waits, and FALSE *)
(* for a socket of the server, where it returns EAGAIN and the partial     *)
(* buffer, a local of ns_recv_packet, is gone.  The caller is the client's *)
(* receive loop or the server's POLLIN case: both go on after a packet and *)
(* give the connection up on CLOSED or an error, EAGAIN excepted.          *)
(***************************************************************************)
EXTENDS WireFormat

CONSTANTS
    NS_PACKET_HEADER_SIZE,  \* 14 in the code; TLC moves a header in fewer pieces
    Headers,                \* headers that are sent: some that are not Legal come
                            \* from a peer that is not this program
    MaxPackets,             \* bound on the packets sent
    WireCap                 \* bytes the kernel holds for the connection

ASSUME FramingAssumption ==
    /\ NS_PACKET_HEADER_SIZE \in Nat \ {0}
    /\ Headers \subseteq Fields
    /\ MaxPackets \in Nat
    /\ WireCap \in Nat \ {0}

VARIABLES
    packets,    \* the headers of the packets sent, in order
    written,    \* bytes of the last one that were written
    sending,    \* ns_send_packet is running
    eof,        \* the sender closed its end
    blocking,   \* the receiver's socket
    reset,      \* the connection was reset
    wire,       \* bytes in flight
    reading,    \* "call", "header" or "body": where ns_recv_packet is; or "over"
    got,        \* the bytes of the buffer being filled
    header,     \* the bytes of the header, while the body is read
    packet,     \* the fields filled in from them
    status,     \* what ns_recv_packet last returned
    delivered,  \* numbers of the packets it returned, 0 for a garbled one
    cut         \* it has thrown away part of a packet

sender == <<packets, written, sending, eof>>
conn == <<blocking, reset>>
receiver == <<reading, got, header, packet, status, delivered, cut>>
vars == <<sender, conn, wire, receiver>>

Bytes == [pkt : Nat, pos : Nat]

HeaderOf(k) == [i \in 1..NS_PACKET_HEADER_SIZE |-> [pkt |-> k, pos |-> i]]
BodyOf(k) ==
    [i \in 1..packets[k].body_len |-> [pkt |-> k, pos |-> NS_PACKET_HEADER_SIZE + i]]

Init ==
    /\ packets = <<>> /\ written = 0 /\ sending = FALSE
    /\ eof = FALSE /\ blocking \in BOOLEAN /\ reset = FALSE /\ wire = <<>>
    /\ reading = "call" /\ got = <<>> /\ header = <<>> /\ packet = Zeroed
    /\ status = "none" /\ delivered = <<>> /\ cut = FALSE

-----------------------------------------------------------------------------
\* The sender.

\* ns_packet_set and the head of ns_send_packet; a text that is too long is
\* refused by the one or the other and nothing is written.  Only a peer that
\* is not this program sends a header that will be rejected.
SendPacket ==
    /\ ~sending /\ ~eof /\ Len(packets) < MaxPackets
    /\ \E h \in Headers : packets' = Append(packets, h)
    /\ written' = 0
    /\ sending' = TRUE
    /\ UNCHANGED <<eof, conn, wire, receiver>>

\* A mistake to be caught: the body is left out of the count.
SizeOfBodiless(p) == NS_PACKET_HEADER_SIZE + (IF p.body_len = 0 THEN 0 ELSE p.body_len - 1)

\* A mistake to be caught: the terminating NUL is sent as well.
SizeOfWithNul(p) == NS_PACKET_HEADER_SIZE + p.body_len + 1

\* Bytes the two calls of ns_send_all write for a packet.
SizeOf(p) == NS_PACKET_HEADER_SIZE + p.body_len

\* A mistake to be caught: the body is never written.
SendByteHeaderOnly ==
    /\ sending /\ ~reset
    /\ Len(wire) < WireCap
    /\ wire' = Append(wire, [pkt |-> Len(packets), pos |-> written + 1])
    /\ written' = written + 1
    /\ sending' = (written + 1 < NS_PACKET_HEADER_SIZE)
    /\ UNCHANGED <<packets, eof, conn, receiver>>

\* ns_send_all: the next byte is taken by the kernel.
SendByte ==
    /\ sending /\ ~reset
    /\ Len(wire) < WireCap
    /\ wire' = Append(wire, [pkt |-> Len(packets), pos |-> written + 1])
    /\ written' = written + 1
    /\ sending' = (written + 1 < SizeOf(packets[Len(packets)]))
    /\ UNCHANGED <<packets, eof, conn, receiver>>

\* send() fails; what was written stays written.
SendFails ==
    /\ sending /\ reset
    /\ sending' = FALSE
    /\ UNCHANGED <<packets, written, eof, conn, wire, receiver>>

\* The sender closes, or its process ends in the middle of a packet.
SenderCloses ==
    /\ ~eof
    /\ eof' = TRUE
    /\ sending' = FALSE
    /\ UNCHANGED <<packets, written, conn, wire, receiver>>

\* The kernel gives the connection up and drops what is in flight.
Reset ==
    /\ ~reset
    /\ reset' = TRUE
    /\ wire' = <<>>
    /\ UNCHANGED <<sender, blocking, receiver>>

-----------------------------------------------------------------------------
\* The receiver.

\* ns_recv_packet returns without a packet; its caller stops or calls again.
Return(result) ==
    /\ status' = result
    /\ got' = <<>> /\ header' = <<>> /\ packet' = Zeroed
    /\ reading' = IF result = "EAGAIN" THEN "call" ELSE "over"

\* ns_recv_packet returns a packet: these fields and this body.
ReturnPacket(head, fields, body) ==
    /\ status' = "OK"
    /\ got' = <<>> /\ header' = <<>> /\ packet' = Zeroed
    /\ reading' = "call"
    /\ delivered' = Append(delivered,
          LET k == head[1].pkt
          IN  IF head = HeaderOf(k) /\ fields = packets[k] /\ body = BodyOf(k) THEN k ELSE 0)

\* The server calls on POLLIN only: something is there to read.
CallRecv ==
    /\ reading = "call"
    /\ blocking \/ wire # <<>> \/ eof \/ reset
    /\ reading' = "header"
    /\ got' = <<>>
    /\ UNCHANGED <<sender, conn, wire, header, packet, status, delivered, cut>>

\* ns_recv_all: recv() delivers a byte, not the last one asked for.
RecvByte ==
    /\ reading \in {"header", "body"}
    /\ wire # <<>>
    /\ Len(got) + 1 < (IF reading = "header" THEN NS_PACKET_HEADER_SIZE ELSE packet.body_len)
    /\ got' = Append(got, Head(wire))
    /\ wire' = Tail(wire)
    /\ UNCHANGED <<sender, conn, reading, header, packet, status, delivered, cut>>

\* What the bytes of a header are: of one that is a packet's own, what was
\* serialized; of bytes out of step, anything.
Contents(head) ==
    {Serialize(h) : h \in IF head = HeaderOf(head[1].pkt) THEN {packets[head[1].pkt]} ELSE Headers}

\* The last byte of the header: version, type and length are checked, and a
\* packet without a body is complete.
RecvHeader ==
    /\ reading = "header" /\ wire # <<>>
    /\ Len(got) + 1 = NS_PACKET_HEADER_SIZE
    /\ wire' = Tail(wire)
    /\ LET head == Append(got, Head(wire))
       IN \E b \in Contents(head) :
             \/ /\ ~Accepts(b)
                /\ Return("ERROR")
                /\ UNCHANGED delivered
             \/ /\ Accepts(b) /\ Parse(b).body_len = 0
                /\ ReturnPacket(head, Parse(b), <<>>)
             \/ /\ Accepts(b) /\ Parse(b).body_len # 0
                /\ header' = head /\ packet' = Parse(b) /\ got' = <<>> /\ reading' = "body"
                /\ UNCHANGED <<status, delivered>>
    /\ UNCHANGED <<sender, conn, cut>>

\* The last byte of the body.
RecvBody ==
    /\ reading = "body" /\ wire # <<>>
    /\ Len(got) + 1 = packet.body_len
    /\ wire' = Tail(wire)
    /\ ReturnPacket(header, packet, Append(got, Head(wire)))
    /\ UNCHANGED <<sender, conn, cut>>

\* A mistake to be caught: an end of the stream in the middle of a header or of
\* a body is taken for a clean one.
RecvEofClosed ==
    /\ reading \in {"header", "body"}
    /\ wire = <<>> /\ eof /\ ~reset
    /\ Return("CLOSED")
    /\ UNCHANGED <<sender, conn, wire, delivered, cut>>

\* recv() returns 0: CLOSED if this ns_recv_all had read nothing.
RecvEof ==
    /\ reading \in {"header", "body"}
    /\ wire = <<>> /\ eof /\ ~reset
    /\ Return(IF got = <<>> THEN "CLOSED" ELSE "ERROR")
    /\ UNCHANGED <<sender, conn, wire, delivered, cut>>

\* recv() returns -1.
RecvReset ==
    /\ reading \in {"header", "body"}
    /\ reset
    /\ Return("ERROR")
    /\ UNCHANGED <<sender, conn, wire, delivered, cut>>

\* recv() returns -1 with EAGAIN: what was read so far is discarded.
RecvAgain ==
    /\ ~blocking
    /\ reading \in {"header", "body"}
    /\ wire = <<>> /\ ~eof /\ ~reset
    /\ Return("EAGAIN")
    /\ cut' = (cut \/ reading = "body" \/ got # <<>>)
    /\ UNCHANGED <<sender, conn, wire, delivered>>

-----------------------------------------------------------------------------
SenderStep == SendByte \/ SendFails
ReceiverStep ==
    CallRecv \/ RecvByte \/ RecvHeader \/ RecvBody \/ RecvEof \/ RecvReset \/ RecvAgain
Environment == SendPacket \/ SenderCloses \/ Reset

\* The receiver has given the connection up; or waits and nothing more comes.
Ended == (reading = "over" \/ (wire = <<>> /\ ~sending)) /\ UNCHANGED vars

Next == SenderStep \/ ReceiverStep \/ Environment \/ Ended

Spec == Init /\ [][Next]_vars

\* Both loops go on while the kernel lets them.
FairSpec == Spec /\ WF_vars(SenderStep) /\ WF_vars(ReceiverStep)

-----------------------------------------------------------------------------
TypeOK ==
    /\ packets \in Seq(Headers)
    /\ written \in Nat
    /\ sending \in BOOLEAN /\ eof \in BOOLEAN
    /\ blocking \in BOOLEAN /\ reset \in BOOLEAN
    /\ wire \in Seq(Bytes)
    /\ reading \in {"call", "header", "body", "over"}
    /\ got \in Seq(Bytes)
    /\ header \in Seq(Bytes)
    /\ packet \in Fields
    /\ status \in {"none", "OK", "CLOSED", "ERROR", "EAGAIN"}
    /\ delivered \in Seq(Nat)
    /\ cut \in BOOLEAN

\* Short reads and writes, in any combination, never lose, repeat, reorder or
\* garble a packet or a field of it: ns_recv_all "Loops over recv() until the
\* full byte count arrives" (comm.c:77).
DeliveredInOrder == \A i \in DOMAIN delivered : delivered[i] = i

\* The same until a piece of a packet is discarded with EAGAIN (comm.c:102),
\* which takes a socket of the server: nothing else puts the reader out of step.
InOrderUnlessCut ==
    /\ ~cut => DeliveredInOrder
    /\ cut => ~blocking

\* The buffers are never overrun: ns_recv_all is asked for no more than the
\* header or body array holds, whatever lengths arrive, in step or not.
WithinBuffers ==
    /\ reading = "header" => Len(got) < NS_PACKET_HEADER_SIZE
    /\ reading = "body" => packet.body_len \in 1..NS_PACKET_BODY_MAX /\ Len(got) < packet.body_len

\* A connection between two copies of this program ends in an error only
\* when it was reset, or its sender stopped in the middle of a packet, or a
\* piece was discarded.
ErrorHasCause ==
    status = "ERROR" =>
        \/ reset \/ cut
        \/ \E k \in DOMAIN packets : ~Legal(packets[k])
        \/ eof /\ packets # <<>> /\ written < SizeOf(packets[Len(packets)])

\* An end of the stream that was reported as closed had a sender that stopped
\* between two packets, or right behind a header: the second recv loop of
\* ns_recv_packet does not know that a header went before (comm.c:648-651).
ClosedHasCause ==
    status = "CLOSED" =>
        \/ cut
        \/ /\ eof
           /\ packets # <<>> =>
                 written \in {0, NS_PACKET_HEADER_SIZE, SizeOf(packets[Len(packets)])}

\* How ns_recv_packet reports the end of a connection tells its caller what
\* happened to it: no error without a cause, and a stream that was cut inside a
\* header or inside a body is not taken for one that was closed unless a piece
\* was discarded before ("NS_RECV_CLOSED (0) on clean EOF before the header",
\* comm.c:600-601, which the code also returns for one right behind it).
EndHasCause == ErrorHasCause /\ ClosedHasCause

\* Every packet sent whole is received, unless the connection is given up or
\* a piece was discarded.
WholeIsDelivered ==
    \A k \in 1..MaxPackets :
        (Len(packets) >= k /\ (Len(packets) = k => ~sending)) ~>
            (Len(delivered) >= k \/ reading = "over" \/ cut)

Channel == INSTANCE PacketChannel WITH
    given <- Len(packets),
    delivered <- delivered,
    over <- (reading = "over")

\* The packet layer implements PacketChannel, for as long as no piece is
\* discarded: for ever on the client's sockets.
ChannelSpec == Channel!Init /\ [][cut' \/ Channel!Next]_<<Len(packets), delivered, reading = "over">>
=============================================================================

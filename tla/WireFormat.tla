----------------------------- MODULE WireFormat -----------------------------
(***************************************************************************)
(* The header of a packet as comm/comm.c puts it on the wire and takes it  *)
(* off again: ns_store_u32, ns_load_u32, the header part of ns_send_packet *)
(* and the checks of ns_recv_packet.  A uint32_t is four bytes, most       *)
(* significant first; Base is the number of values of a byte, 256 in the   *)
(* code and less for TLC.                                                  *)
(***************************************************************************)
EXTENDS Integers, Sequences

CONSTANTS
    Base,
    NS_PROTOCOL_VERSION,
    Types,                  \* the values of NsPacketType
    NS_PACKET_BODY_MAX

ASSUME WireAssumption ==
    /\ Base \in Nat /\ Base > 1
    /\ NS_PROTOCOL_VERSION \in 0..(Base - 1)
    /\ Types \subseteq 0..(Base - 1)
    /\ NS_PACKET_BODY_MAX \in 0..(Base * Base * Base * Base - 1)

Byte == 0..(Base - 1)
U32 == 0..(Base * Base * Base * Base - 1)

\* NsPacketHeader
Fields == [version : Byte, type : Byte, sender_id : U32, timestamp : U32, body_len : U32]

\* memset(packet, 0, sizeof(*packet))
Zeroed == [version |-> 0, type |-> 0, sender_id |-> 0, timestamp |-> 0, body_len |-> 0]

\* What ns_packet_set fills in and ns_send_packet agrees to send.
Legal(h) ==
    h.version = NS_PROTOCOL_VERSION /\ h.type \in Types /\ h.body_len <= NS_PACKET_BODY_MAX

\* A mistake to be caught: the host's order, where it is little-endian.
StoreU32Host(v) ==
    <<v % Base, (v \div Base) % Base,
      (v \div (Base * Base)) % Base, v \div (Base * Base * Base)>>

\* ns_store_u32
StoreU32(v) ==
    <<v \div (Base * Base * Base), (v \div (Base * Base)) % Base,
      (v \div Base) % Base, v % Base>>

\* A mistake to be caught: the first byte is taken to be signed.
LoadU32Signed(b, n) ==
    (IF 2 * b[n + 1] > Base THEN b[n + 1] - Base ELSE b[n + 1]) * (Base * Base * Base)
    + b[n + 2] * (Base * Base) + b[n + 3] * Base + b[n + 4]

\* ns_load_u32, of the four bytes of b that follow the first n
LoadU32(b, n) ==
    b[n + 1] * (Base * Base * Base) + b[n + 2] * (Base * Base) + b[n + 3] * Base + b[n + 4]

\* ns_send_packet, the header
Serialize(h) ==
    <<h.version, h.type>> \o StoreU32(h.sender_id) \o StoreU32(h.timestamp) \o StoreU32(h.body_len)

\* A mistake to be caught: the length is not compared with the body array.
AcceptsAnyLength(b) == b[1] = NS_PROTOCOL_VERSION /\ b[2] \in Types

\* The checks of ns_recv_packet
Accepts(b) ==
    /\ b[1] = NS_PROTOCOL_VERSION
    /\ b[2] \in Types
    /\ LoadU32(b, 10) <= NS_PACKET_BODY_MAX

\* The fields ns_recv_packet fills in
Parse(b) ==
    [version |-> b[1], type |-> b[2], sender_id |-> LoadU32(b, 2),
     timestamp |-> LoadU32(b, 6), body_len |-> LoadU32(b, 10)]
=============================================================================

--------------------------- MODULE FramingProofs ---------------------------
(***************************************************************************)
(* Theorems about Framing for every size of a byte, every header length,   *)
(* every packet and every way the kernel cuts the stream into pieces.      *)
(***************************************************************************)
EXTENDS Framing, WireFormatProofs

\* The length of a header, as the provers need it.
LEMMA SizeIsNat == NS_PACKET_HEADER_SIZE \in Nat /\ NS_PACKET_HEADER_SIZE > 0
  BY FramingAssumption

-----------------------------------------------------------------------------
(* Sequences.                                                               *)

\* What appending does to a sequence.
LEMMA Appended ==
  ASSUME NEW S, NEW s \in Seq(S), NEW e \in S
  PROVE  /\ Append(s, e) \in Seq(S) /\ Append(s, e) # <<>>
         /\ Len(s) \in Nat /\ Len(Append(s, e)) = Len(s) + 1
         /\ DOMAIN s = 1..Len(s) /\ DOMAIN Append(s, e) = 1..(Len(s) + 1)
         /\ \A i \in 1..Len(s) : Append(s, e)[i] = s[i]
         /\ Append(s, e)[Len(s) + 1] = e
  BY AppendProperties, LenProperties

\* What taking the first element does to a sequence.
LEMMA Taken ==
  ASSUME NEW S, NEW s \in Seq(S), s # <<>>
  PROVE  /\ Head(s) \in S /\ Head(s) = s[1]
         /\ Tail(s) \in Seq(S)
         /\ Len(s) \in Nat /\ Len(s) > 0 /\ Len(Tail(s)) = Len(s) - 1
         /\ DOMAIN s = 1..Len(s) /\ DOMAIN Tail(s) = 1..(Len(s) - 1)
         /\ \A i \in 1..(Len(s) - 1) : Tail(s)[i] = s[i + 1]
<1>1. Len(s) \in Nat /\ DOMAIN s = 1..Len(s)
  BY LenProperties
<1>2. Len(s) > 0
  BY <1>1, EmptySeq
<1>3. /\ Head(s) \in S /\ Head(s) = s[1]
      /\ Tail(s) \in Seq(S) /\ Len(Tail(s)) = Len(s) - 1
      /\ \A i \in 1..(Len(s) - 1) : Tail(s)[i] = s[i + 1]
  BY <1>1, <1>2, HeadTailProperties
<1> QED BY <1>1, <1>2, <1>3, LenProperties

-----------------------------------------------------------------------------
(***************************************************************************)
(* The inductive invariant.  A byte is named by its packet and its place,  *)
(* so the stream is a chain: each byte in flight is the one after the byte *)
(* before it, the first one is the next the reader needs, and after the    *)
(* last one comes the next the writer writes.                              *)
(***************************************************************************)

\* Every byte is of a packet that was sent.
BytesOK ==
    /\ \A i \in DOMAIN wire : wire[i].pkt \in DOMAIN packets
    /\ \A i \in DOMAIN got : got[i].pkt \in DOMAIN packets
    /\ \A i \in DOMAIN header : header[i].pkt \in DOMAIN packets

\* Where ns_recv_packet is and what its buffers hold.
ReaderOK ==
    /\ reading \in {"call", "over"} => got = <<>>
    /\ reading # "body" => header = <<>>
    /\ reading = "body" => Len(header) = NS_PACKET_HEADER_SIZE
    /\ cut => ~blocking

\* Where ns_send_packet is.  Only a close or a reset leaves a packet unfinished.
SenderOK ==
    /\ packets # <<>> => written <= SizeOf(packets[Len(packets)])
    /\ sending => ~eof /\ packets # <<>> /\ written < SizeOf(packets[Len(packets)])
    /\ ~sending /\ ~eof /\ ~reset /\ packets # <<>> => written = SizeOf(packets[Len(packets)])
    /\ reset => wire = <<>>

\* The byte after b.
NextByte(b) ==
    IF b.pos < SizeOf(packets[b.pkt])
    THEN [pkt |-> b.pkt, pos |-> b.pos + 1]
    ELSE [pkt |-> b.pkt + 1, pos |-> 1]

\* The packet being received, and its first byte that was not read yet.
Current == Len(delivered) + 1
Reader == [pkt |-> Current, pos |-> Len(header) + Len(got) + 1]

\* The first byte that was not written yet.
Unfinished == packets # <<>> /\ written < SizeOf(packets[Len(packets)])
Writer ==
    IF Unfinished THEN [pkt |-> Len(packets), pos |-> written + 1]
    ELSE [pkt |-> Len(packets) + 1, pos |-> 1]

\* The bytes of w lead from r to the writer.
Chain(w, r) ==
    /\ w = <<>> => r = Writer
    /\ w # <<>> => w[1] = r /\ NextByte(w[Len(w)]) = Writer
    /\ \A i \in 1..(Len(w) - 1) : w[i + 1] = NextByte(w[i])

\* A reader that never lost a piece is in step.
InStep ==
    ~cut =>
        /\ DeliveredInOrder
        /\ \A i \in DOMAIN got : got[i] = [pkt |-> Current, pos |-> Len(header) + i]
        /\ reading = "body" =>
              /\ Current \in DOMAIN packets
              /\ header = HeaderOf(Current) /\ packet = packets[Current]
        /\ reading # "over" /\ ~reset => Chain(wire, Reader)

Sound == TypeOK /\ WithinBuffers /\ BytesOK /\ ReaderOK /\ SenderOK /\ InStep /\ EndHasCause

-----------------------------------------------------------------------------
(* What the header bytes say.                                               *)

\* A packet that was sent has the fields of a header.
LEMMA SentFields ==
  ASSUME TypeOK, NEW k \in DOMAIN packets
  PROVE  packets[k] \in Fields /\ packets[k].body_len \in Nat /\ SizeOf(packets[k]) \in Nat
<1>1. packets[k] \in Headers
  BY LenProperties DEF TypeOK
<1>2. packets[k] \in Fields
  BY <1>1, FramingAssumption
<1>3. packets[k].body_len \in Nat
  BY <1>2 DEF Fields, U32
<1> QED BY <1>2, <1>3, SizeIsNat DEF SizeOf

\* The last byte of a header, in any state.
LEMMA HeaderRead ==
  ASSUME TypeOK, BytesOK, ReaderOK, RecvHeader
  PROVE  LET head == Append(got, Head(wire))
         IN  /\ head \in Seq(Bytes) /\ Len(head) = NS_PACKET_HEADER_SIZE
             /\ head[1] \in Bytes /\ \A i \in DOMAIN head : head[i].pkt \in DOMAIN packets
             /\ Contents(head) \subseteq {Serialize(h) : h \in Fields}
<1> DEFINE head == Append(got, Head(wire))
<1>1. wire \in Seq(Bytes) /\ wire # <<>> /\ got \in Seq(Bytes)
      /\ Len(got) + 1 = NS_PACKET_HEADER_SIZE
  BY DEF RecvHeader, TypeOK
<1>2. Head(wire) \in Bytes /\ Head(wire) = wire[1] /\ 1 \in DOMAIN wire
  BY <1>1, Taken
<1>3. /\ head \in Seq(Bytes) /\ Len(head) = NS_PACKET_HEADER_SIZE
      /\ DOMAIN head = 1..(Len(got) + 1) /\ DOMAIN got = 1..Len(got) /\ Len(got) \in Nat
      /\ \A i \in 1..Len(got) : head[i] = got[i]
      /\ head[Len(got) + 1] = Head(wire)
  BY <1>1, <1>2, Appended
<1> HIDE DEF head
<1>4. \A i \in DOMAIN head : head[i].pkt \in DOMAIN packets
  <2> SUFFICES ASSUME NEW i \in DOMAIN head PROVE head[i].pkt \in DOMAIN packets
    OBVIOUS
  <2>1. CASE i \in 1..Len(got)
    BY <1>3, <2>1 DEF BytesOK
  <2>2. CASE i = Len(got) + 1
    BY <1>2, <1>3, <2>2 DEF BytesOK
  <2> QED BY <1>3, <2>1, <2>2
<1>5. 1 \in DOMAIN head
  BY <1>3
<1>6. head[1] \in Bytes
  BY <1>3, <1>5, LenProperties
<1>7. packets[head[1].pkt] \in Fields
  BY <1>4, <1>5, SentFields
<1>8. Contents(head) \subseteq {Serialize(h) : h \in Fields}
  BY <1>7, FramingAssumption DEF Contents
<1> QED BY <1>3, <1>4, <1>6, <1>8 DEF head

\* A packet is returned with its number, or 0.
LEMMA Returned ==
  ASSUME TypeOK, NEW head, head[1] \in Bytes, NEW fields, NEW body,
         ReturnPacket(head, fields, body)
  PROVE  /\ delivered' \in Seq(Nat) /\ status' = "OK" /\ reading' = "call"
         /\ got' = <<>> /\ header' = <<>> /\ packet' = Zeroed
         /\ \E k \in Nat : delivered' = Append(delivered, k)
<1> DEFINE k == IF head = HeaderOf(head[1].pkt) /\ fields = packets[head[1].pkt]
                   /\ body = BodyOf(head[1].pkt)
                THEN head[1].pkt ELSE 0
<1>1. k \in Nat
  BY DEF Bytes
<1>2. delivered' = Append(delivered, k)
  BY DEF ReturnPacket
<1> HIDE DEF k
<1>3. delivered' \in Seq(Nat)
  BY <1>1, <1>2, Appended DEF TypeOK
<1> QED BY <1>1, <1>2, <1>3 DEF ReturnPacket

\* The header memset to zero is a header.
LEMMA ZeroedIsFields == Zeroed \in Fields
<1>1. 0 \in Byte
  BY BaseIsNat, WireAssumption DEF Byte
<1>2. 0 \in U32
  BY WireAssumption DEF U32
<1> QED BY <1>1, <1>2 DEF Zeroed, Fields

-----------------------------------------------------------------------------
(* Types.                                                                   *)

\* The sender's steps and the environment's.
LEMMA SenderTyped ==
  ASSUME TypeOK, SenderStep \/ Environment
  PROVE  TypeOK'
<1>1. CASE SendPacket
  <2>1. PICK h \in Headers : packets' = Append(packets, h)
    BY <1>1 DEF SendPacket
  <2>2. packets' \in Seq(Headers)
    BY <2>1, Appended DEF TypeOK
  <2> QED BY <1>1, <2>2 DEF SendPacket, conn, receiver, TypeOK
<1>2. CASE SendByte
  <2>1. Len(packets) \in Nat
    BY LenProperties DEF TypeOK
  <2>2. [pkt |-> Len(packets), pos |-> written + 1] \in Bytes
    BY <2>1 DEF TypeOK, Bytes
  <2>3. wire' \in Seq(Bytes)
    BY <1>2, <2>2, Appended DEF SendByte, TypeOK
  <2>4. written' \in Nat /\ sending' \in BOOLEAN
    BY <1>2 DEF SendByte, TypeOK
  <2> QED BY <1>2, <2>3, <2>4 DEF SendByte, conn, receiver, TypeOK
<1>3. CASE SendFails
  BY <1>3 DEF SendFails, conn, receiver, TypeOK
<1>4. CASE SenderCloses
  BY <1>4 DEF SenderCloses, conn, receiver, TypeOK
<1>5. CASE Reset
  BY <1>5, EmptySeq DEF Reset, sender, receiver, TypeOK
<1> QED BY <1>1, <1>2, <1>3, <1>4, <1>5 DEF SenderStep, Environment

\* The receiver's.
LEMMA ReceiverTyped ==
  ASSUME TypeOK, BytesOK, ReaderOK, ReceiverStep
  PROVE  TypeOK'
<1>0. <<>> \in Seq(Bytes)
  BY EmptySeq
<1>1. CASE CallRecv
  BY <1>0, <1>1 DEF CallRecv, sender, conn, TypeOK
<1>2. CASE RecvByte
  <2>1. wire' \in Seq(Bytes) /\ Head(wire) \in Bytes
    BY <1>2, Taken DEF RecvByte, TypeOK
  <2>2. got' \in Seq(Bytes)
    BY <1>2, <2>1, Appended DEF RecvByte, TypeOK
  <2> QED BY <1>2, <2>1, <2>2 DEF RecvByte, sender, conn, TypeOK
<1>3. CASE RecvHeader
  <2> DEFINE head == Append(got, Head(wire))
  <2>1. /\ head \in Seq(Bytes) /\ head[1] \in Bytes
        /\ Contents(head) \subseteq {Serialize(h) : h \in Fields}
    BY <1>3, HeaderRead
  <2>2. wire' \in Seq(Bytes)
    BY <1>3, Taken DEF RecvHeader, TypeOK
  <2>3. UNCHANGED <<packets, written, sending, eof, blocking, reset, cut>>
    BY <1>3 DEF RecvHeader, sender, conn
  <2>4. PICK b \in Contents(head) :
             \/ /\ Return("ERROR") /\ UNCHANGED delivered
             \/ ReturnPacket(head, Parse(b), <<>>)
             \/ /\ header' = head /\ packet' = Parse(b) /\ got' = <<>> /\ reading' = "body"
                /\ UNCHANGED <<status, delivered>>
    BY <1>3 DEF RecvHeader
  <2>5. Parse(b) \in Fields
    BY <2>1, RoundTrip
  <2> HIDE DEF head
  <2>6. CASE Return("ERROR") /\ UNCHANGED delivered
    BY <1>0, <2>2, <2>3, <2>6, ZeroedIsFields DEF Return, TypeOK
  <2>7. CASE ReturnPacket(head, Parse(b), <<>>)
    <3>1. /\ delivered' \in Seq(Nat) /\ status' = "OK" /\ reading' = "call"
          /\ got' = <<>> /\ header' = <<>> /\ packet' = Zeroed
      BY <2>1, <2>7, Returned
    <3> QED BY <1>0, <2>2, <2>3, <3>1, ZeroedIsFields DEF TypeOK
  <2>8. CASE /\ header' = head /\ packet' = Parse(b) /\ got' = <<>> /\ reading' = "body"
             /\ UNCHANGED <<status, delivered>>
    BY <1>0, <2>1, <2>2, <2>3, <2>5, <2>8 DEF TypeOK
  <2> QED BY <2>4, <2>6, <2>7, <2>8
<1>4. CASE RecvBody
  <2>1. header[1] \in Bytes
    BY <1>4, SizeIsNat, LenProperties DEF RecvBody, ReaderOK, TypeOK
  <2>2. wire' \in Seq(Bytes)
    BY <1>4, Taken DEF RecvBody, TypeOK
  <2>3. UNCHANGED <<packets, written, sending, eof, blocking, reset, cut>>
    BY <1>4 DEF RecvBody, sender, conn
  <2>4. /\ delivered' \in Seq(Nat) /\ status' = "OK" /\ reading' = "call"
        /\ got' = <<>> /\ header' = <<>> /\ packet' = Zeroed
    BY <1>4, <2>1, Returned DEF RecvBody
  <2> QED BY <1>0, <2>2, <2>3, <2>4, ZeroedIsFields DEF TypeOK
<1>5. CASE RecvEof
  BY <1>0, <1>5, ZeroedIsFields DEF RecvEof, Return, sender, conn, TypeOK
<1>6. CASE RecvReset
  BY <1>0, <1>6, ZeroedIsFields DEF RecvReset, Return, sender, conn, TypeOK
<1>7. CASE RecvAgain
  BY <1>0, <1>7, ZeroedIsFields DEF RecvAgain, Return, sender, conn, TypeOK
<1> QED BY <1>1, <1>2, <1>3, <1>4, <1>5, <1>6, <1>7 DEF ReceiverStep

-----------------------------------------------------------------------------
(* Buffers, bytes and places.                                               *)

\* The buffers are big enough: a body is read only into an array it fits.
LEMMA BuffersKept ==
  ASSUME TypeOK, BytesOK, ReaderOK, WithinBuffers, Next
  PROVE  WithinBuffers'
<1>1. CASE SenderStep \/ Environment \/ Ended
  <2>1. UNCHANGED <<reading, got, packet>>
    BY <1>1 DEF SenderStep, Environment, SendByte, SendFails, SendPacket, SenderCloses, Reset,
       Ended, receiver, vars
  <2> QED BY <2>1 DEF WithinBuffers
<1>2. CASE CallRecv
  BY <1>2, SizeIsNat DEF CallRecv, WithinBuffers
<1>3. CASE RecvByte
  <2>1. got' = Append(got, Head(wire)) /\ UNCHANGED <<reading, packet>>
    BY <1>3 DEF RecvByte
  <2>2. Head(wire) \in Bytes
    BY <1>3, Taken DEF RecvByte, TypeOK
  <2>3. Len(got') = Len(got) + 1
    BY <2>1, <2>2, Appended DEF TypeOK
  <2> QED BY <1>3, <2>1, <2>3 DEF RecvByte, WithinBuffers
<1>4. CASE RecvHeader
  <2> DEFINE head == Append(got, Head(wire))
  <2>1. Contents(head) \subseteq {Serialize(h) : h \in Fields}
    BY <1>4, HeaderRead
  <2>2. PICK b \in Contents(head) :
             \/ Return("ERROR")
             \/ ReturnPacket(head, Parse(b), <<>>)
             \/ /\ Accepts(b) /\ Parse(b).body_len # 0
                /\ packet' = Parse(b) /\ got' = <<>> /\ reading' = "body"
    BY <1>4 DEF RecvHeader
  <2>3. CASE Return("ERROR") \/ ReturnPacket(head, Parse(b), <<>>)
    BY <2>3 DEF Return, ReturnPacket, WithinBuffers
  <2>4. CASE /\ Accepts(b) /\ Parse(b).body_len # 0
             /\ packet' = Parse(b) /\ got' = <<>> /\ reading' = "body"
    <3>1. PICK h \in Fields : b = Serialize(h)
      BY <2>1
    <3>2. Parse(b) = h /\ Legal(h)
      BY <2>4, <3>1, RoundTrip
    <3>3. h.body_len \in Nat
      BY DEF Fields, U32
    <3>4. NS_PACKET_BODY_MAX \in Int
      BY WireAssumption
    <3>5. h.body_len \in 1..NS_PACKET_BODY_MAX
      BY <2>4, <3>2, <3>3, <3>4 DEF Legal
    <3> QED BY <2>4, <3>2, <3>5 DEF WithinBuffers
  <2> QED BY <2>2, <2>3, <2>4
<1>5. CASE RecvBody \/ RecvEof \/ RecvReset \/ RecvAgain
  BY <1>5 DEF RecvBody, RecvEof, RecvReset, RecvAgain, Return, ReturnPacket, WithinBuffers
<1> QED BY <1>1, <1>2, <1>3, <1>4, <1>5 DEF Next, ReceiverStep

\* Bytes stay those of packets that were sent.
LEMMA BytesKept ==
  ASSUME TypeOK, BytesOK, ReaderOK, SenderOK, Next
  PROVE  BytesOK'
<1>0. Len(packets) \in Nat /\ DOMAIN packets = 1..Len(packets)
  BY LenProperties DEF TypeOK
<1>1. CASE SendPacket
  <2>1. PICK h \in Headers : packets' = Append(packets, h)
    BY <1>1 DEF SendPacket
  <2>2. DOMAIN packets \subseteq DOMAIN packets'
    BY <2>1, Appended DEF TypeOK
  <2> QED BY <1>1, <2>2 DEF SendPacket, receiver, BytesOK
<1>2. CASE SendByte
  <2> DEFINE e == [pkt |-> Len(packets), pos |-> written + 1]
  <2>1. e \in Bytes /\ e.pkt \in DOMAIN packets
    <3>1. packets # <<>>
      BY <1>2 DEF SendByte, SenderOK
    <3>2. Len(packets) > 0
      BY <1>0, <3>1, EmptySeq DEF TypeOK
    <3> QED BY <1>0, <3>2 DEF TypeOK, Bytes
  <2>2. wire' = Append(wire, e) /\ UNCHANGED <<packets, got, header>>
    BY <1>2 DEF SendByte, receiver
  <2> HIDE DEF e
  <2>3. /\ Len(wire) \in Nat /\ DOMAIN wire = 1..Len(wire)
        /\ DOMAIN wire' = 1..(Len(wire) + 1)
        /\ \A i \in 1..Len(wire) : wire'[i] = wire[i]
        /\ wire'[Len(wire) + 1] = e
    BY <2>1, <2>2, Appended DEF TypeOK
  <2>4. \A i \in DOMAIN wire' : wire'[i].pkt \in DOMAIN packets
    <3> SUFFICES ASSUME NEW i \in DOMAIN wire' PROVE wire'[i].pkt \in DOMAIN packets
      OBVIOUS
    <3>1. CASE i \in 1..Len(wire)
      BY <2>3, <3>1 DEF BytesOK
    <3>2. CASE i = Len(wire) + 1
      BY <2>1, <2>3, <3>2
    <3> QED BY <2>3, <3>1, <3>2
  <2> QED BY <2>2, <2>4 DEF BytesOK
<1>3. CASE SendFails \/ SenderCloses \/ Ended
  BY <1>3 DEF SendFails, SenderCloses, Ended, receiver, sender, vars, BytesOK
<1>4. CASE Reset
  BY <1>4 DEF Reset, sender, receiver, BytesOK
<1>5. CASE CallRecv
  BY <1>5 DEF CallRecv, sender, BytesOK
<1>6. CASE RecvByte \/ RecvHeader \/ RecvBody
  <2>1. wire \in Seq(Bytes) /\ wire # <<>> /\ wire' = Tail(wire) /\ packets' = packets
    BY <1>6 DEF RecvByte, RecvHeader, RecvBody, sender, TypeOK
  <2>2. /\ Head(wire) \in Bytes /\ Head(wire) = wire[1]
        /\ Len(wire) \in Nat /\ Len(wire) > 0 /\ DOMAIN wire = 1..Len(wire)
        /\ DOMAIN wire' = 1..(Len(wire) - 1)
        /\ \A i \in 1..(Len(wire) - 1) : wire'[i] = wire[i + 1]
    BY <2>1, Taken
  <2>3. \A i \in DOMAIN wire' : wire'[i].pkt \in DOMAIN packets
    BY <2>2, SMTT(40) DEF BytesOK
  <2>4. CASE RecvByte
    <3>1. got' = Append(got, Head(wire)) /\ header' = header
      BY <2>4 DEF RecvByte
    <3>2. /\ Len(got) \in Nat /\ DOMAIN got = 1..Len(got) /\ DOMAIN got' = 1..(Len(got) + 1)
          /\ \A i \in 1..Len(got) : got'[i] = got[i]
          /\ got'[Len(got) + 1] = Head(wire)
      BY <2>2, <3>1, Appended DEF TypeOK
    <3>3. Head(wire).pkt \in DOMAIN packets
      BY <2>2 DEF BytesOK
    <3>4. \A i \in DOMAIN got' : got'[i].pkt \in DOMAIN packets
      <4> SUFFICES ASSUME NEW i \in DOMAIN got' PROVE got'[i].pkt \in DOMAIN packets
        OBVIOUS
      <4>1. CASE i \in 1..Len(got)
        BY <3>2, <4>1 DEF BytesOK
      <4>2. CASE i = Len(got) + 1
        BY <3>2, <3>3, <4>2
      <4> QED BY <3>2, <4>1, <4>2
    <3> QED BY <2>1, <2>3, <3>1, <3>4 DEF BytesOK
  <2>5. CASE RecvHeader
    <3>1. header' \in {<<>>, Append(got, Head(wire))} /\ got' = <<>>
      BY <2>5 DEF RecvHeader, Return, ReturnPacket
    <3>2. \A i \in DOMAIN header' : header'[i].pkt \in DOMAIN packets
      BY <2>5, <3>1, HeaderRead
    <3> QED BY <2>1, <2>3, <3>1, <3>2 DEF BytesOK
  <2>6. CASE RecvBody
    BY <2>1, <2>3, <2>6 DEF RecvBody, ReturnPacket, BytesOK
  <2> QED BY <1>6, <2>4, <2>5, <2>6
<1>7. CASE RecvEof \/ RecvReset \/ RecvAgain
  BY <1>7 DEF RecvEof, RecvReset, RecvAgain, Return, sender, BytesOK
<1> QED BY <1>1, <1>2, <1>3, <1>4, <1>5, <1>6, <1>7 DEF Next, SenderStep, ReceiverStep, Environment

\* The buffers are empty outside the loops that fill them.
LEMMA ReaderKept ==
  ASSUME TypeOK, BytesOK, ReaderOK, Next
  PROVE  ReaderOK'
<1>1. CASE SenderStep \/ Environment \/ Ended
  BY <1>1 DEF SenderStep, Environment, SendByte, SendFails, SendPacket, SenderCloses, Reset,
     Ended, receiver, conn, vars, ReaderOK
<1>2. CASE CallRecv \/ RecvByte
  BY <1>2 DEF CallRecv, RecvByte, conn, ReaderOK
<1>3. CASE RecvHeader
  <2>1. Len(Append(got, Head(wire))) = NS_PACKET_HEADER_SIZE
    BY <1>3, HeaderRead
  <2>2. cut' = cut /\ blocking' = blocking
    BY <1>3 DEF RecvHeader, conn
  <2>3. \/ reading' \in {"call", "over"} /\ got' = <<>> /\ header' = <<>>
        \/ reading' = "body" /\ header' = Append(got, Head(wire))
    BY <1>3 DEF RecvHeader, Return, ReturnPacket
  <2> QED BY <2>1, <2>2, <2>3 DEF ReaderOK
<1>4. CASE RecvBody
  BY <1>4 DEF RecvBody, ReturnPacket, conn, ReaderOK
<1>5. CASE RecvEof \/ RecvReset \/ RecvAgain
  BY <1>5 DEF RecvEof, RecvReset, RecvAgain, Return, conn, ReaderOK
<1> QED BY <1>1, <1>2, <1>3, <1>4, <1>5 DEF Next, ReceiverStep

\* A packet is unfinished only while it is being sent, or for good.
LEMMA SenderKept ==
  ASSUME TypeOK, SenderOK, Next
  PROVE  SenderOK'
<1>1. CASE SendPacket
  <2>1. PICK h \in Headers : packets' = Append(packets, h)
    BY <1>1 DEF SendPacket
  <2>2. Len(packets') = Len(packets) + 1 /\ packets' # <<>> /\ packets'[Len(packets')] = h
    BY <2>1, Appended DEF TypeOK
  <2>3. SizeOf(h) \in Nat /\ SizeOf(h) > 0
    <3>1. h \in Fields
      BY FramingAssumption
    <3> QED BY <3>1, SizeIsNat DEF SizeOf, Fields, U32
  <2> QED BY <1>1, <2>2, <2>3 DEF SendPacket, conn, SenderOK
<1>2. CASE SendByte
  <2>1. packets # <<>> /\ Len(packets) \in DOMAIN packets
    BY <1>2, LenProperties, EmptySeq DEF SendByte, SenderOK, TypeOK
  <2>2. SizeOf(packets[Len(packets)]) \in Nat
    BY <2>1, SentFields
  <2>3. written \in Nat
    BY DEF TypeOK
  <2>4. /\ sending /\ ~eof /\ ~reset /\ written < SizeOf(packets[Len(packets)])
        /\ packets' = packets /\ written' = written + 1 /\ eof' = eof /\ reset' = reset
        /\ sending' = (written + 1 < SizeOf(packets[Len(packets)]))
    BY <1>2 DEF SendByte, SenderOK, conn
  <2>5. SizeOf(packets'[Len(packets')]) = SizeOf(packets[Len(packets)])
    BY <2>4
  <2>6. written' <= SizeOf(packets'[Len(packets')])
    BY <2>2, <2>3, <2>4, <2>5
  <2>7. sending' => ~eof' /\ written' < SizeOf(packets'[Len(packets')])
    BY <2>4, <2>5
  <2>8. ASSUME ~sending' PROVE written' = SizeOf(packets'[Len(packets')])
    <3>1. ~(written + 1 < SizeOf(packets[Len(packets)]))
      BY <2>4, <2>8, Zenon
    <3> QED BY <2>2, <2>3, <2>4, <2>5, <3>1
  <2> QED BY <2>1, <2>4, <2>6, <2>7, <2>8 DEF SenderOK
<1>3. CASE SendFails \/ SenderCloses \/ Reset \/ Ended
  BY <1>3 DEF SendFails, SenderCloses, Reset, Ended, sender, conn, vars, SenderOK
<1>4. CASE ReceiverStep
  <2>1. UNCHANGED <<packets, written, sending, eof, reset>> /\ (wire = <<>> => wire' = <<>>)
    BY <1>4 DEF ReceiverStep, CallRecv, RecvByte, RecvHeader, RecvBody, RecvEof, RecvReset,
       RecvAgain, sender, conn
  <2> QED BY <2>1 DEF SenderOK
<1> QED BY <1>1, <1>2, <1>3, <1>4 DEF Next, SenderStep, Environment

-----------------------------------------------------------------------------
(* The chain.                                                               *)

\* Taking the first byte of a chain.
LEMMA ChainTaken ==
  ASSUME TypeOK, BytesOK, wire # <<>>, NEW r, Chain(wire, r)
  PROVE  /\ Head(wire) = r /\ r \in Bytes /\ r.pkt \in DOMAIN packets
         /\ Chain(Tail(wire), NextByte(r))
<1>1. /\ Head(wire) \in Bytes /\ Head(wire) = wire[1]
      /\ Tail(wire) \in Seq(Bytes)
      /\ Len(wire) \in Nat /\ Len(wire) > 0 /\ Len(Tail(wire)) = Len(wire) - 1
      /\ DOMAIN wire = 1..Len(wire)
      /\ \A i \in 1..(Len(wire) - 1) : Tail(wire)[i] = wire[i + 1]
  BY Taken DEF TypeOK
<1>2. wire[1] = r /\ NextByte(wire[Len(wire)]) = Writer
      /\ \A i \in 1..(Len(wire) - 1) : wire[i + 1] = NextByte(wire[i])
  BY DEF Chain
<1>3. Head(wire) = r /\ r \in Bytes /\ r.pkt \in DOMAIN packets
  BY <1>1, <1>2 DEF BytesOK
<1> DEFINE t == Tail(wire)
<1>4. /\ t \in Seq(Bytes) /\ Len(t) = Len(wire) - 1
      /\ \A i \in 1..(Len(wire) - 1) : t[i] = wire[i + 1]
  BY <1>1
<1> HIDE DEF t
<1>5. CASE t = <<>>
  <2>1. Len(t) = 0
    BY <1>5, EmptySeq
  <2>2. Len(wire) = 1
    <3>1. Len(wire) \in Nat
      BY <1>1
    <3>2. Len(t) = Len(wire) - 1
      BY <1>4
    <3> QED BY <2>1, <3>1, <3>2
  <2>3. NextByte(r) = Writer
    BY <1>2, <2>2
  <2>4. \A i \in 1..(Len(t) - 1) : FALSE
    BY <2>1
  <2> QED BY <1>3, <1>5, <2>3, <2>4 DEF Chain, t
<1>6. CASE t # <<>>
  <2>1. Len(t) \in Nat /\ Len(t) > 0
    BY <1>4, <1>6, EmptySeq
  <2>2. t[1] = NextByte(r)
    <3>1. 1 \in 1..(Len(wire) - 1)
      BY <1>1, <1>4, <2>1
    <3>2. t[1] = wire[1 + 1]
      BY <1>4, <3>1
    <3> QED BY <1>2, <3>1, <3>2
  <2>3. NextByte(t[Len(t)]) = Writer
    <3>1. Len(t) \in 1..(Len(wire) - 1) /\ Len(t) + 1 = Len(wire)
      BY <1>1, <1>4, <2>1
    <3> QED BY <1>2, <1>4, <3>1
  <2>4. ASSUME NEW i \in 1..(Len(t) - 1) PROVE t[i + 1] = NextByte(t[i])
    <3>1. i \in 1..(Len(wire) - 1) /\ i + 1 \in 1..(Len(wire) - 1)
      BY <1>1, <1>4
    <3>2. t[i] = wire[i + 1] /\ t[i + 1] = wire[(i + 1) + 1]
      BY <1>4, <3>1
    <3> QED BY <1>2, <3>1, <3>2
  <2> QED BY <1>3, <1>6, <2>2, <2>3, <2>4 DEF Chain, t
<1> QED BY <1>5, <1>6

\* What the reader takes next, in step.
LEMMA ReadInStep ==
  ASSUME TypeOK, BytesOK, SenderOK, InStep, ~cut, wire # <<>>, reading # "over"
  PROVE  /\ ~reset /\ Head(wire) = Reader /\ Reader \in Bytes /\ Current \in DOMAIN packets
         /\ Chain(Tail(wire), NextByte(Reader))
<1>1. ~reset
  BY DEF SenderOK, TypeOK
<1>2. Chain(wire, Reader)
  BY <1>1 DEF InStep
<1>3. Head(wire) = Reader /\ Reader \in Bytes /\ Reader.pkt \in DOMAIN packets
      /\ Chain(Tail(wire), NextByte(Reader))
  BY <1>2, ChainTaken
<1> QED BY <1>1, <1>3 DEF Reader

\* The numbers in Reader.
LEMMA Counts ==
  ASSUME TypeOK
  PROVE  /\ Len(delivered) \in Nat /\ Len(got) \in Nat /\ Len(header) \in Nat
         /\ Len(packets) \in Nat /\ DOMAIN packets = 1..Len(packets)
         /\ Current \in Nat
  BY LenProperties DEF TypeOK, Current

\* While the packets and the bytes written stay, so do the order of bytes and
\* the writer.
LEMMA ChainFrame ==
  ASSUME UNCHANGED <<packets, written>>, Chain(wire', Reader')
  PROVE  Chain(wire, Reader)'
  BY DEF Chain, NextByte, Writer, Unfinished, SizeOf

\* The packet being received is complete.
LEMMA DeliverInStep ==
  ASSUME TypeOK, InStep, ~cut, UNCHANGED <<packets, written, cut>>,
         delivered' = Append(delivered, Current), got' = <<>>, header' = <<>>,
         wire' = Tail(wire), reading' = "call",
         Chain(Tail(wire), [pkt |-> Current + 1, pos |-> 1])
  PROVE  InStep'
<1>0. Current \in Nat /\ Len(delivered) \in Nat
  BY Counts
<1>1. /\ Len(delivered') = Len(delivered) + 1
      /\ DOMAIN delivered = 1..Len(delivered) /\ DOMAIN delivered' = 1..(Len(delivered) + 1)
      /\ \A i \in 1..Len(delivered) : delivered'[i] = delivered[i]
      /\ delivered'[Len(delivered) + 1] = Current
  BY <1>0, Appended DEF TypeOK
<1>2. DeliveredInOrder'
  BY <1>0, <1>1 DEF InStep, DeliveredInOrder, Current
<1>3. Len(got') = 0 /\ Len(header') = 0 /\ DOMAIN got' = {}
  OBVIOUS
<1>4. Reader' = [pkt |-> Current + 1, pos |-> 1]
  BY <1>0, <1>1, <1>3 DEF Reader, Current
<1>5. Chain(wire, Reader)'
  BY <1>4, ChainFrame
<1> QED BY <1>2, <1>3, <1>5 DEF InStep

\* A byte that is not the last one.
LEMMA RecvByteInStep ==
  ASSUME TypeOK, BytesOK, ReaderOK, SenderOK, InStep, ~cut, RecvByte
  PROVE  InStep'
<1>1. /\ reading \in {"header", "body"} /\ wire # <<>>
      /\ got' = Append(got, Head(wire)) /\ wire' = Tail(wire)
      /\ UNCHANGED <<packets, written, reset, reading, header, packet, delivered, cut>>
  BY DEF RecvByte, sender, conn
<1>2. /\ ~reset /\ Head(wire) = Reader /\ Reader \in Bytes /\ Current \in DOMAIN packets
      /\ Chain(Tail(wire), NextByte(Reader))
  BY <1>1, ReadInStep
<1>3. /\ Len(got') = Len(got) + 1 /\ DOMAIN got = 1..Len(got) /\ DOMAIN got' = 1..(Len(got) + 1)
      /\ \A i \in 1..Len(got) : got'[i] = got[i]
      /\ got'[Len(got) + 1] = Reader
  BY <1>1, <1>2, Appended DEF TypeOK
<1>4. Len(got) \in Nat /\ Len(header) \in Nat /\ Current \in Nat /\ Current' = Current
  BY <1>1, Counts DEF Current
<1>5. Len(header) + Len(got) + 1 < SizeOf(packets[Current])
  <2>1. packets[Current].body_len \in Nat
    BY <1>2, SentFields
  <2>2. CASE reading = "header"
    <3>1. Len(header) = 0 /\ Len(got) + 1 < NS_PACKET_HEADER_SIZE
      BY <2>2 DEF ReaderOK, RecvByte
    <3> QED BY <1>4, <2>1, <3>1, SizeIsNat DEF SizeOf
  <2>3. CASE reading = "body"
    <3>1. Len(header) = NS_PACKET_HEADER_SIZE /\ Len(got) + 1 < packets[Current].body_len
      BY <2>3 DEF ReaderOK, RecvByte, InStep
    <3> QED BY <1>4, <2>1, <3>1, SizeIsNat DEF SizeOf
  <2> QED BY <1>1, <2>2, <2>3
<1>6. Reader' = NextByte(Reader)
  <2>1. Reader' = [pkt |-> Current, pos |-> (Len(header) + Len(got) + 1) + 1]
    BY <1>1, <1>3, <1>4 DEF Reader
  <2> QED BY <1>5, <2>1 DEF Reader, NextByte
<1>7. Chain(wire, Reader)'
  BY <1>1, <1>2, <1>6, ChainFrame
<1>8. \A i \in DOMAIN got' : got'[i] = [pkt |-> Current, pos |-> Len(header) + i]
  <2> SUFFICES ASSUME NEW i \in DOMAIN got'
               PROVE  got'[i] = [pkt |-> Current, pos |-> Len(header) + i]
    OBVIOUS
  <2>1. CASE i \in 1..Len(got)
    BY <1>3, <2>1 DEF InStep
  <2>2. CASE i = Len(got) + 1
    BY <1>3, <1>4, <2>2 DEF Reader
  <2> QED BY <1>3, <2>1, <2>2
<1>9. DeliveredInOrder' /\ (HeaderOf(Current) = HeaderOf(Current)')
  BY <1>1, <1>4 DEF InStep, DeliveredInOrder, HeaderOf
<1> QED BY <1>1, <1>2, <1>4, <1>7, <1>8, <1>9 DEF InStep

\* A header read in step is that of the packet being received.
LEMMA HeadInStep ==
  ASSUME TypeOK, BytesOK, ReaderOK, SenderOK, InStep, ~cut, RecvHeader
  PROVE  /\ Append(got, Head(wire)) = HeaderOf(Current)
         /\ Append(got, Head(wire))[1].pkt = Current
         /\ Contents(Append(got, Head(wire))) = {Serialize(packets[Current])}
<1> DEFINE head == Append(got, Head(wire))
<1>1. reading = "header" /\ wire # <<>> /\ Len(got) + 1 = NS_PACKET_HEADER_SIZE
  BY DEF RecvHeader
<1>2. Head(wire) = Reader /\ Reader \in Bytes /\ Current \in DOMAIN packets
  BY <1>1, ReadInStep
<1>3. /\ head \in Seq(Bytes)
      /\ Len(got) \in Nat /\ DOMAIN got = 1..Len(got) /\ DOMAIN head = 1..(Len(got) + 1)
      /\ \A i \in 1..Len(got) : head[i] = got[i]
      /\ head[Len(got) + 1] = Reader
  BY <1>2, Appended DEF TypeOK
<1> HIDE DEF head
<1>4. Len(header) = 0
  BY <1>1 DEF ReaderOK
<1>5. \A i \in 1..NS_PACKET_HEADER_SIZE : head[i] = [pkt |-> Current, pos |-> i]
  <2> SUFFICES ASSUME NEW i \in 1..NS_PACKET_HEADER_SIZE
               PROVE  head[i] = [pkt |-> Current, pos |-> i]
    OBVIOUS
  <2>1. CASE i \in 1..Len(got)
    BY <1>3, <1>4, <2>1 DEF InStep
  <2>2. CASE i = Len(got) + 1
    BY <1>3, <1>4, <2>2 DEF Reader
  <2> QED BY <1>1, <1>3, <2>1, <2>2
<1>6. head = HeaderOf(Current)
  <2>1. head = [i \in 1..NS_PACKET_HEADER_SIZE |-> head[i]]
    BY <1>1, <1>3, LenProperties
  <2> QED BY <1>5, <2>1 DEF HeaderOf
<1>7. head[1].pkt = Current
  <2>1. 1 \in 1..NS_PACKET_HEADER_SIZE
    BY SizeIsNat
  <2>2. head[1] = [pkt |-> Current, pos |-> 1]
    BY <1>5, <2>1, Zenon
  <2> QED BY <2>2
<1>8. Contents(head) = {Serialize(packets[Current])}
  BY <1>6, <1>7 DEF Contents
<1> QED BY <1>6, <1>7, <1>8 DEF head

\* The last byte of a header.
LEMMA RecvHeaderInStep ==
  ASSUME TypeOK, BytesOK, ReaderOK, SenderOK, InStep, ~cut, RecvHeader
  PROVE  InStep'
<1> DEFINE head == Append(got, Head(wire))
           b == Serialize(packets[Current])
<1>1. /\ reading = "header" /\ wire # <<>> /\ wire' = Tail(wire)
      /\ Len(got) + 1 = NS_PACKET_HEADER_SIZE
      /\ UNCHANGED <<packets, written, reset, cut>>
  BY DEF RecvHeader, sender, conn
<1>2. /\ ~reset /\ Current \in DOMAIN packets /\ Chain(Tail(wire), NextByte(Reader))
  BY <1>1, ReadInStep
<1>3. head = HeaderOf(Current) /\ head[1].pkt = Current /\ Contents(head) = {b}
  BY HeadInStep
<1>4. packets[Current] \in Fields /\ packets[Current].body_len \in Nat
  BY <1>2, SentFields
<1>5. Parse(b) = packets[Current]
  BY <1>4, RoundTrip
<1>6. \/ Return("ERROR") /\ UNCHANGED delivered
      \/ Parse(b).body_len = 0 /\ ReturnPacket(head, Parse(b), <<>>)
      \/ /\ Parse(b).body_len # 0
         /\ header' = head /\ packet' = Parse(b) /\ got' = <<>> /\ reading' = "body"
         /\ UNCHANGED delivered
  BY <1>3 DEF RecvHeader
<1>7. /\ Len(header) = 0 /\ Len(got) \in Nat /\ Current \in Nat
      /\ Reader = [pkt |-> Current, pos |-> NS_PACKET_HEADER_SIZE]
  BY <1>1, Counts DEF ReaderOK, Reader
<1>8. Len(head) = NS_PACKET_HEADER_SIZE
  BY HeaderRead
<1> HIDE DEF head, b
<1>9. CASE Return("ERROR") /\ UNCHANGED delivered
  <2>1. reading' = "over" /\ got' = <<>> /\ delivered' = delivered
    BY <1>9 DEF Return
  <2> QED BY <1>1, <2>1 DEF InStep, DeliveredInOrder
<1>10. CASE Parse(b).body_len = 0 /\ ReturnPacket(head, Parse(b), <<>>)
  <2>1. BodyOf(Current) = <<>>
    BY <1>5, <1>10 DEF BodyOf
  <2>2. /\ delivered' = Append(delivered, Current)
        /\ got' = <<>> /\ header' = <<>> /\ reading' = "call"
    BY <1>3, <1>5, <1>10, <2>1 DEF ReturnPacket
  <2>3. NextByte(Reader) = [pkt |-> Current + 1, pos |-> 1]
    <3>1. SizeOf(packets[Current]) = NS_PACKET_HEADER_SIZE
      BY <1>5, <1>10, SizeIsNat DEF SizeOf
    <3> QED BY <1>7, <3>1, SizeIsNat DEF NextByte
  <2> QED BY <1>1, <1>2, <2>2, <2>3, DeliverInStep
<1>11. CASE /\ Parse(b).body_len # 0
            /\ header' = head /\ packet' = Parse(b) /\ got' = <<>> /\ reading' = "body"
            /\ UNCHANGED delivered
  <2>1. Current' = Current /\ DOMAIN got' = {} /\ Len(got') = 0
    BY <1>11 DEF Current
  <2>2. Reader' = [pkt |-> Current, pos |-> NS_PACKET_HEADER_SIZE + 1]
    BY <1>8, <1>11, <2>1, SizeIsNat DEF Reader
  <2>3. NextByte(Reader) = [pkt |-> Current, pos |-> NS_PACKET_HEADER_SIZE + 1]
    <3>1. NS_PACKET_HEADER_SIZE < SizeOf(packets[Current])
      BY <1>4, <1>5, <1>11, SizeIsNat DEF SizeOf
    <3> QED BY <1>7, <3>1 DEF NextByte
  <2>4. Chain(wire, Reader)'
    BY <1>1, <1>2, <2>2, <2>3, ChainFrame
  <2>5. header' = HeaderOf(Current)' /\ packet' = packets'[Current']
        /\ Current' \in DOMAIN packets'
    BY <1>1, <1>2, <1>3, <1>5, <1>11, <2>1 DEF HeaderOf
  <2>6. DeliveredInOrder'
    BY <1>11 DEF InStep, DeliveredInOrder
  <2> QED BY <2>1, <2>4, <2>5, <2>6 DEF InStep
<1> QED BY <1>6, <1>9, <1>10, <1>11

\* The last byte of a body.
LEMMA RecvBodyInStep ==
  ASSUME TypeOK, BytesOK, ReaderOK, SenderOK, InStep, ~cut, RecvBody
  PROVE  InStep'
<1> DEFINE body == Append(got, Head(wire))
<1>1. /\ reading = "body" /\ wire # <<>> /\ wire' = Tail(wire)
      /\ Len(got) + 1 = packet.body_len
      /\ ReturnPacket(header, packet, body)
      /\ UNCHANGED <<packets, written, reset, cut>>
  BY DEF RecvBody, sender, conn
<1>2. /\ Head(wire) = Reader /\ Reader \in Bytes /\ Current \in DOMAIN packets
      /\ Chain(Tail(wire), NextByte(Reader))
  BY <1>1, ReadInStep
<1>3. header = HeaderOf(Current) /\ packet = packets[Current]
  BY <1>1 DEF InStep
<1>4. Len(header) = NS_PACKET_HEADER_SIZE /\ Current \in Nat
  BY <1>1, Counts DEF ReaderOK
<1>5. /\ body \in Seq(Bytes)
      /\ Len(got) \in Nat /\ DOMAIN got = 1..Len(got) /\ DOMAIN body = 1..(Len(got) + 1)
      /\ \A i \in 1..Len(got) : body[i] = got[i]
      /\ body[Len(got) + 1] = Reader
  BY <1>2, Appended DEF TypeOK
<1> HIDE DEF body
<1>6. \A i \in 1..packet.body_len : body[i] = [pkt |-> Current, pos |-> NS_PACKET_HEADER_SIZE + i]
  <2> SUFFICES ASSUME NEW i \in 1..packet.body_len
               PROVE  body[i] = [pkt |-> Current, pos |-> NS_PACKET_HEADER_SIZE + i]
    OBVIOUS
  <2>1. CASE i \in 1..Len(got)
    BY <1>4, <1>5, <2>1 DEF InStep
  <2>2. CASE i = Len(got) + 1
    BY <1>4, <1>5, <2>2, SizeIsNat DEF Reader
  <2> QED BY <1>1, <1>5, <2>1, <2>2
<1>7. body = BodyOf(Current)
  <2>1. body = [i \in 1..packet.body_len |-> body[i]]
    BY <1>1, <1>5, LenProperties
  <2> QED BY <1>3, <1>6, <2>1 DEF BodyOf
<1>8. header[1].pkt = Current
  BY <1>3, SizeIsNat DEF HeaderOf
<1>9. /\ delivered' = Append(delivered, Current)
      /\ got' = <<>> /\ header' = <<>> /\ reading' = "call"
  BY <1>1, <1>3, <1>7, <1>8 DEF ReturnPacket
<1>10. NextByte(Reader) = [pkt |-> Current + 1, pos |-> 1]
  <2>1. SizeOf(packets[Current]) = NS_PACKET_HEADER_SIZE + Len(got) + 1
    BY <1>1, <1>3, <1>5, SizeIsNat, SMTT(40) DEF SizeOf
  <2>2. Reader.pos = NS_PACKET_HEADER_SIZE + Len(got) + 1 /\ Reader.pkt = Current
    BY <1>4 DEF Reader
  <2> QED BY <1>5, <2>1, <2>2, SizeIsNat DEF NextByte
<1> QED BY <1>1, <1>2, <1>9, <1>10, DeliverInStep

\* The writer writes the byte that is next.
LEMMA SendByteInStep ==
  ASSUME TypeOK, BytesOK, SenderOK, InStep, ~cut, SendByte
  PROVE  InStep'
<1>1. /\ wire' = Append(wire, [pkt |-> Len(packets), pos |-> written + 1])
      /\ written' = written + 1 /\ sending
      /\ UNCHANGED <<packets, reset, reading, got, header, packet, delivered, cut>>
  BY DEF SendByte, conn, receiver
<1>2. /\ Current' = Current /\ Reader' = Reader
      /\ DeliveredInOrder' /\ HeaderOf(Current)' = HeaderOf(Current)
  BY <1>1 DEF Current, Reader, InStep, DeliveredInOrder, HeaderOf
<1>3. ASSUME reading # "over", ~reset PROVE Chain(wire, Reader)'
  <2>0. Chain(wire, Reader)
    BY <1>3 DEF InStep
  <2>1. packets # <<>> /\ written < SizeOf(packets[Len(packets)])
    BY <1>1 DEF SenderOK
  <2>2. Writer = [pkt |-> Len(packets), pos |-> written + 1]
    BY <2>1 DEF Writer, Unfinished
  <2>3. Len(packets) \in DOMAIN packets /\ Len(packets) \in Nat /\ written \in Nat
    BY <2>1, LenProperties, EmptySeq DEF TypeOK
  <2>4. SizeOf(packets[Len(packets)]) \in Nat
    BY <2>3, SentFields
  <2>5. Writer' = NextByte(Writer)
    <3>1. Unfinished' <=> written + 1 < SizeOf(packets[Len(packets)])
      BY <1>1, <2>1 DEF Unfinished, SizeOf
    <3> QED BY <1>1, <2>2, <3>1 DEF Writer, NextByte
  <2>6. Writer \in Bytes
    BY <2>2, <2>3 DEF Bytes
  <2>7. wire' = Append(wire, Writer)
    BY <1>1, <2>2
  <2>8. /\ Len(wire) \in Nat /\ Len(wire') = Len(wire) + 1 /\ wire' # <<>>
        /\ \A i \in 1..Len(wire) : wire'[i] = wire[i]
        /\ wire'[Len(wire) + 1] = Writer
    <3>1. wire \in Seq(Bytes)
      BY DEF TypeOK
    <3>2. /\ Len(wire) \in Nat /\ Len(Append(wire, Writer)) = Len(wire) + 1
          /\ Append(wire, Writer) # <<>>
          /\ \A i \in 1..Len(wire) : Append(wire, Writer)[i] = wire[i]
          /\ Append(wire, Writer)[Len(wire) + 1] = Writer
      BY <2>6, <3>1, Appended
    <3> QED BY <2>7, <3>2, Zenon
  <2>9. wire'[1] = Reader
    <3>1. CASE wire = <<>>
      <4>1. Len(wire) = 0
        BY <3>1
      <4>2. Reader = Writer
        BY <2>0, <3>1 DEF Chain
      <4> QED BY <2>8, <4>1, <4>2
    <3>2. CASE wire # <<>>
      <4>1. 1 \in 1..Len(wire)
        BY <2>8, <3>2, EmptySeq DEF TypeOK
      <4>2. wire[1] = Reader
        BY <2>0, <3>2 DEF Chain
      <4> QED BY <2>8, <4>1, <4>2
    <3> QED BY <3>1, <3>2
  <2>10. ASSUME NEW i \in 1..Len(wire) PROVE wire'[i + 1] = NextByte(wire'[i])
    <3>1. CASE i < Len(wire)
      <4>1. i \in 1..(Len(wire) - 1) /\ i + 1 \in 1..Len(wire)
        BY <2>8, <3>1
      <4>2. wire[i + 1] = NextByte(wire[i])
        BY <2>0, <4>1 DEF Chain
      <4>3. wire'[i] = wire[i] /\ wire'[i + 1] = wire[i + 1]
        BY <2>8, <4>1
      <4> QED BY <4>2, <4>3
    <3>2. CASE i = Len(wire)
      <4>1. wire # <<>>
        BY <3>2, EmptySeq
      <4>2. NextByte(wire[Len(wire)]) = Writer
        BY <2>0, <4>1 DEF Chain
      <4> QED BY <2>8, <3>2, <4>2
    <3> QED BY <2>8, <3>1, <3>2
  <2>11. /\ wire'[1] = Reader' /\ NextByte(wire'[Len(wire')]) = Writer'
         /\ \A i \in 1..(Len(wire') - 1) : wire'[i + 1] = NextByte(wire'[i])
    BY <1>2, <2>5, <2>8, <2>9, <2>10
  <2> HIDE DEF Reader, Writer
  <2>12. packets' = packets
    BY <1>1
  <2> QED BY <2>8, <2>11, <2>12 DEF Chain, NextByte, SizeOf
<1> QED BY <1>1, <1>2, <1>3 DEF InStep

\* A new packet follows the one before it, which is complete.
LEMMA SendPacketInStep ==
  ASSUME TypeOK, BytesOK, SenderOK, InStep, ~cut, SendPacket
  PROVE  InStep'
<1>1. PICK h \in Headers : packets' = Append(packets, h)
  BY DEF SendPacket
<1>2. /\ ~sending /\ ~eof /\ written' = 0
      /\ UNCHANGED <<reset, wire, reading, got, header, packet, delivered, cut>>
  BY DEF SendPacket, conn, receiver
<1>3. /\ Len(packets) \in Nat /\ Len(packets') = Len(packets) + 1 /\ packets' # <<>>
      /\ DOMAIN packets = 1..Len(packets) /\ DOMAIN packets' = 1..(Len(packets) + 1)
      /\ \A k \in 1..Len(packets) : packets'[k] = packets[k]
      /\ packets'[Len(packets) + 1] = h
  BY <1>1, Appended DEF TypeOK
<1>4. /\ Current' = Current /\ Reader' = Reader
      /\ DeliveredInOrder' /\ HeaderOf(Current)' = HeaderOf(Current)
  BY <1>2 DEF Current, Reader, InStep, DeliveredInOrder, HeaderOf
<1>5. ASSUME reading # "over", ~reset PROVE Chain(wire, Reader)'
  <2>0. Chain(wire, Reader)
    BY <1>5 DEF InStep
  <2>1. ~Unfinished
    <3>1. packets # <<>> => SizeOf(packets[Len(packets)]) \in Nat
      BY LenProperties, EmptySeq, SentFields DEF TypeOK
    <3> QED BY <1>2, <1>5, <3>1 DEF Unfinished, SenderOK
  <2>2. SizeOf(h) \in Nat /\ SizeOf(h) > 0
    <3>1. h \in Fields
      BY FramingAssumption
    <3> QED BY <3>1, SizeIsNat DEF SizeOf, Fields, U32
  <2>3. Unfinished'
    BY <1>2, <1>3, <2>2 DEF Unfinished, SizeOf
  <2>4. Writer' = Writer
    BY <1>2, <1>3, <2>1, <2>3 DEF Writer
  <2>5. \A i \in 1..Len(wire) : NextByte(wire[i])' = NextByte(wire[i])
    <3> SUFFICES ASSUME NEW i \in 1..Len(wire) PROVE NextByte(wire[i])' = NextByte(wire[i])
      OBVIOUS
    <3>1. wire[i].pkt \in 1..Len(packets)
      BY <1>3, LenProperties DEF BytesOK, TypeOK
    <3> QED BY <1>2, <1>3, <3>1 DEF NextByte, SizeOf
  <2>6. Len(wire) \in Nat /\ (wire # <<>> => Len(wire) > 0)
    BY LenProperties, EmptySeq DEF TypeOK
  <2>7. wire' = wire
    BY <1>2
  <2> HIDE DEF Reader, Writer, NextByte
  <2> QED BY <1>4, <2>0, <2>4, <2>5, <2>6, <2>7 DEF Chain
<1>6. Current \in DOMAIN packets =>
         Current \in DOMAIN packets' /\ packets'[Current] = packets[Current]
  BY <1>3
<1> QED BY <1>2, <1>4, <1>5, <1>6 DEF InStep

\* Whatever the kernel and the two programs do, the reader is in step until a
\* piece is thrown away.
LEMMA InStepKept ==
  ASSUME TypeOK, BytesOK, ReaderOK, SenderOK, InStep, Next
  PROVE  InStep'
<1> SUFFICES ASSUME ~cut' PROVE InStep'
  BY DEF InStep
<1>0. ~cut
  BY DEF Next, SenderStep, ReceiverStep, Environment, Ended, SendByte, SendFails, SendPacket,
     SenderCloses, Reset, CallRecv, RecvByte, RecvHeader, RecvBody, RecvEof, RecvReset,
     RecvAgain, receiver, vars
<1>1. CASE SendByte
  BY <1>0, <1>1, SendByteInStep
<1>2. CASE SendPacket
  BY <1>0, <1>2, SendPacketInStep
<1>3. CASE RecvByte
  BY <1>0, <1>3, RecvByteInStep
<1>4. CASE RecvHeader
  BY <1>0, <1>4, RecvHeaderInStep
<1>5. CASE RecvBody
  BY <1>0, <1>5, RecvBodyInStep
<1>6. CASE SendFails \/ SenderCloses \/ Ended
  <2>1. UNCHANGED <<packets, written, reset, wire, reading, got, header, packet, delivered, cut>>
    BY <1>6 DEF SendFails, SenderCloses, Ended, conn, receiver, sender, vars
  <2>2. Current' = Current /\ Reader' = Reader /\ HeaderOf(Current)' = HeaderOf(Current)
    BY <2>1 DEF Current, Reader, HeaderOf
  <2>3. Chain(wire, Reader) => Chain(wire, Reader)'
    BY <2>1, <2>2, ChainFrame
  <2> QED BY <2>1, <2>2, <2>3 DEF InStep, DeliveredInOrder
<1>7. CASE Reset
  <2>1. reset' /\ UNCHANGED <<packets, got, reading, header, packet, delivered, cut>>
    BY <1>7 DEF Reset, receiver, sender
  <2>2. Current' = Current /\ HeaderOf(Current)' = HeaderOf(Current)
    BY <2>1 DEF Current, HeaderOf
  <2> QED BY <2>1, <2>2 DEF InStep, DeliveredInOrder
<1>8. CASE CallRecv
  <2>1. /\ UNCHANGED <<packets, written, reset, wire, header, packet, delivered, cut>>
        /\ reading = "call" /\ reading' = "header" /\ got' = <<>>
    BY <1>8 DEF CallRecv, sender, conn
  <2>2. got = <<>>
    BY <2>1 DEF ReaderOK
  <2>3. Reader' = Reader /\ Current' = Current
    BY <2>1, <2>2 DEF Reader, Current
  <2>4. Chain(wire, Reader) => Chain(wire, Reader)'
    BY <2>1, <2>3, ChainFrame
  <2> QED BY <2>1, <2>3, <2>4 DEF InStep, DeliveredInOrder
<1>9. CASE RecvEof \/ RecvReset
  <2>1. reading' = "over" /\ got' = <<>> /\ UNCHANGED <<delivered>>
    BY <1>9 DEF RecvEof, RecvReset, Return
  <2> QED BY <1>0, <2>1 DEF InStep, DeliveredInOrder
<1>10. CASE RecvAgain
  <2>1. reading = "header" /\ got = <<>>
    BY <1>10 DEF RecvAgain
  <2>2. /\ UNCHANGED <<packets, written, reset, wire, delivered, cut>>
        /\ reading' = "call" /\ got' = <<>> /\ header' = <<>>
    BY <1>0, <1>10 DEF RecvAgain, Return, sender, conn, TypeOK
  <2>3. header = <<>>
    BY <2>1 DEF ReaderOK
  <2>4. Reader' = Reader /\ Current' = Current
    BY <2>1, <2>2, <2>3 DEF Reader, Current
  <2>5. Chain(wire, Reader) => Chain(wire, Reader)'
    BY <2>2, <2>4, ChainFrame
  <2> QED BY <2>1, <2>2, <2>4, <2>5 DEF InStep, DeliveredInOrder
<1> QED BY <1>1, <1>2, <1>3, <1>4, <1>5, <1>6, <1>7, <1>8, <1>9, <1>10
        DEF Next, SenderStep, ReceiverStep, Environment

-----------------------------------------------------------------------------
(* Errors, and the invariant.                                               *)

\* A receiver in step whose stream ended inside a packet has a sender that
\* stopped inside it.
LEMMA EndedInside ==
  ASSUME TypeOK, BytesOK, SenderOK, InStep, ~cut, RecvEof, got # <<>>
  PROVE  packets # <<>> /\ written < SizeOf(packets[Len(packets)])
<1>1. wire = <<>> /\ ~reset /\ reading # "over"
  BY DEF RecvEof
<1>2. Reader = Writer
  BY <1>1 DEF InStep, Chain
<1>3. Len(got) \in Nat /\ Len(got) > 0 /\ Len(header) \in Nat
  BY Counts, EmptySeq DEF TypeOK
<1>4. Reader.pos > 1
  BY <1>3 DEF Reader
<1>5. Unfinished
  BY <1>2, <1>4 DEF Writer
<1> QED BY <1>5 DEF Unfinished

\* A receiver in step whose stream ended before a header or before a body has a
\* sender that stopped there.
LEMMA EndedOutside ==
  ASSUME TypeOK, BytesOK, ReaderOK, SenderOK, InStep, ~cut, RecvEof, got = <<>>, packets # <<>>
  PROVE  written \in {0, NS_PACKET_HEADER_SIZE, SizeOf(packets[Len(packets)])}
<1>1. wire = <<>> /\ ~reset /\ reading \in {"header", "body"}
  BY DEF RecvEof
<1>2. Reader = Writer
  BY <1>1 DEF InStep, Chain
<1>3. Len(got) = 0 /\ written \in Nat /\ Len(packets) \in DOMAIN packets
  BY Counts, EmptySeq DEF TypeOK
<1>4. SizeOf(packets[Len(packets)]) \in Nat
  BY <1>3, SentFields
<1>5. CASE ~Unfinished
  BY <1>3, <1>4, <1>5 DEF Unfinished, SenderOK
<1>6. CASE Unfinished
  <2>1. written + 1 = Len(header) + 1
    BY <1>2, <1>3, <1>6, Counts DEF Reader, Writer
  <2>2. Len(header) \in {0, NS_PACKET_HEADER_SIZE}
    BY <1>1 DEF ReaderOK
  <2> QED BY <1>3, <2>1, <2>2, Counts
<1> QED BY <1>5, <1>6

\* What the end of the stream is taken for has a cause that stays.
LEMMA ClosedKept ==
  ASSUME TypeOK, BytesOK, ReaderOK, SenderOK, InStep, ClosedHasCause, Next
  PROVE  ClosedHasCause'
<1>1. CASE RecvHeader \/ RecvBody \/ RecvReset \/ RecvAgain
  <2>1. UNCHANGED <<packets, written, eof>> /\ (cut => cut')
    <3>1. CASE RecvHeader \/ RecvBody \/ RecvReset
      BY <3>1 DEF RecvHeader, RecvBody, RecvReset, sender
    <3>2. CASE RecvAgain
      BY <3>2 DEF RecvAgain, sender
    <3> QED BY <1>1, <3>1, <3>2
  <2>2. status' # "CLOSED" \/ UNCHANGED status
    BY <1>1 DEF RecvHeader, RecvBody, RecvReset, RecvAgain, Return, ReturnPacket
  <2> QED BY <2>1, <2>2 DEF ClosedHasCause, SizeOf
<1>2. CASE RecvEof
  <2>1. UNCHANGED <<packets, written, eof, cut>> /\ eof
    BY <1>2 DEF RecvEof, sender
  <2>2. CASE got = <<>>
    BY <1>2, <2>1, <2>2, EndedOutside DEF ClosedHasCause, SizeOf
  <2>3. CASE got # <<>>
    BY <1>2, <2>3 DEF RecvEof, Return, ClosedHasCause
  <2> QED BY <2>2, <2>3
<1>3. CASE SendPacket \/ SendByte
  <2>1. ~eof /\ UNCHANGED <<status, cut>>
    BY <1>3 DEF SendPacket, SendByte, SenderOK, receiver
  <2>2. status = "CLOSED" => cut
    BY <2>1 DEF ClosedHasCause
  <2> QED BY <2>1, <2>2 DEF ClosedHasCause
<1>4. CASE SendFails \/ SenderCloses \/ Reset \/ CallRecv \/ RecvByte \/ Ended
  <2>1. UNCHANGED <<packets, written, status, cut>> /\ (eof => eof')
    BY <1>4 DEF SendFails, SenderCloses, Reset, CallRecv, RecvByte, Ended, sender, receiver, vars
  <2> QED BY <2>1 DEF ClosedHasCause, SizeOf
<1> QED BY <1>1, <1>2, <1>3, <1>4 DEF Next, SenderStep, ReceiverStep, Environment

\* An error has a cause that stays.
LEMMA ErrorsKept ==
  ASSUME TypeOK, BytesOK, ReaderOK, SenderOK, InStep, ErrorHasCause, Next
  PROVE  ErrorHasCause'
<1> DEFINE Illegal == \E k \in DOMAIN packets : ~Legal(packets[k])
           Stopped == eof /\ packets # <<>> /\ written < SizeOf(packets[Len(packets)])
<1>1. CASE RecvHeader
  <2>1. UNCHANGED <<packets, written, eof, reset, cut>>
    BY <1>1 DEF RecvHeader, sender, conn
  <2>2. CASE cut
    BY <2>1, <2>2 DEF ErrorHasCause
  <2>3. CASE ~cut
    <3> DEFINE head == Append(got, Head(wire))
    <3>1. Current \in DOMAIN packets
      BY <1>1, <2>3, ReadInStep DEF RecvHeader
    <3>2. Contents(head) = {Serialize(packets[Current])}
      BY <1>1, <2>3, HeadInStep
    <3>3. Accepts(Serialize(packets[Current])) <=> Legal(packets[Current])
      BY <3>1, SentFields, RoundTrip
    <3>4. status' # "ERROR" \/ ~Accepts(Serialize(packets[Current])) \/ UNCHANGED status
      BY <1>1, <3>2 DEF RecvHeader, ReturnPacket
    <3> QED BY <2>1, <3>1, <3>3, <3>4 DEF ErrorHasCause, Legal, SizeOf
  <2> QED BY <2>2, <2>3
<1>2. CASE RecvBody
  BY <1>2 DEF RecvBody, ReturnPacket, ErrorHasCause
<1>3. CASE RecvEof
  <2>1. UNCHANGED <<packets, written, eof, reset, cut>> /\ eof
    BY <1>3 DEF RecvEof, sender, conn
  <2>2. CASE got = <<>>
    BY <1>3, <2>2 DEF RecvEof, Return, ErrorHasCause
  <2>3. CASE got # <<>> /\ ~cut
    BY <1>3, <2>1, <2>3, EndedInside DEF ErrorHasCause, SizeOf
  <2>4. CASE cut
    BY <2>1, <2>4 DEF ErrorHasCause
  <2> QED BY <2>2, <2>3, <2>4
<1>4. CASE RecvReset
  BY <1>4 DEF RecvReset, conn, ErrorHasCause
<1>5. CASE RecvAgain
  BY <1>5 DEF RecvAgain, Return, ErrorHasCause
<1>6. CASE SendPacket
  <2>1. PICK h \in Headers : packets' = Append(packets, h)
    BY <1>6 DEF SendPacket
  <2>2. ~eof /\ UNCHANGED <<status, reset, cut>>
    BY <1>6 DEF SendPacket, conn, receiver
  <2>3. \A k \in DOMAIN packets : k \in DOMAIN packets' /\ packets'[k] = packets[k]
    BY <2>1, Appended DEF TypeOK
  <2>4. Illegal => Illegal'
    BY <2>3 DEF Legal
  <2> HIDE DEF Illegal
  <2> QED BY <2>2, <2>4 DEF ErrorHasCause, Illegal
<1>7. CASE SendByte
  <2>1. ~eof /\ UNCHANGED <<packets, status, reset, cut>>
    BY <1>7 DEF SendByte, SenderOK, conn, receiver
  <2> QED BY <2>1 DEF ErrorHasCause, Legal
<1>8. CASE SendFails \/ SenderCloses \/ CallRecv \/ RecvByte \/ Ended
  <2>1. UNCHANGED <<packets, written, status, reset, cut>> /\ (eof => eof')
    BY <1>8 DEF SendFails, SenderCloses, CallRecv, RecvByte, Ended, sender, conn, receiver, vars
  <2> QED BY <2>1 DEF ErrorHasCause, Legal, SizeOf
<1>9. CASE Reset
  BY <1>9 DEF Reset, ErrorHasCause
<1> QED BY <1>1, <1>2, <1>3, <1>4, <1>5, <1>6, <1>7, <1>8, <1>9
        DEF Next, SenderStep, ReceiverStep, Environment

\* The invariant holds at first.
LEMMA InitSound == Init => Sound
<1> SUFFICES ASSUME Init PROVE Sound
  OBVIOUS
<1> USE DEF Init
<1>1. TypeOK
  BY ZeroedIsFields, EmptySeq DEF TypeOK
<1>2. WithinBuffers /\ BytesOK /\ ReaderOK /\ SenderOK
  BY DEF WithinBuffers, BytesOK, ReaderOK, SenderOK
<1>3. InStep
  <2>1. Len(delivered) = 0 /\ Len(header) = 0 /\ Len(got) = 0 /\ Len(packets) = 0 /\ Len(wire) = 0
    OBVIOUS
  <2>2. Reader = [pkt |-> 1, pos |-> 1] /\ Writer = [pkt |-> 1, pos |-> 1]
    BY <2>1 DEF Reader, Current, Writer, Unfinished
  <2>3. Chain(wire, Reader)
    BY <2>1, <2>2 DEF Chain
  <2> QED BY <2>3 DEF InStep, DeliveredInOrder
<1>4. EndHasCause
  BY DEF EndHasCause, ErrorHasCause, ClosedHasCause
<1> QED BY <1>1, <1>2, <1>3, <1>4 DEF Sound

\* Every step keeps it.
LEMMA StepSound == Sound /\ [Next]_vars => Sound'
<1> SUFFICES ASSUME Sound, [Next]_vars PROVE Sound'
  OBVIOUS
<1>1. CASE Next
  <2>1. TypeOK'
    BY <1>1, SenderTyped, ReceiverTyped DEF Sound, Next, Ended, TypeOK, vars, sender, conn, receiver
  <2>2. WithinBuffers' /\ BytesOK' /\ ReaderOK'
    BY <1>1, BuffersKept, BytesKept, ReaderKept DEF Sound
  <2>3. SenderOK' /\ InStep' /\ EndHasCause'
    BY <1>1, SenderKept, InStepKept, ErrorsKept, ClosedKept DEF Sound, EndHasCause
  <2> QED BY <2>1, <2>2, <2>3 DEF Sound
<1>2. CASE UNCHANGED vars
  <2>1. Ended \/ UNCHANGED vars
    BY <1>2
  <2>2. UNCHANGED <<packets, written, sending, eof, blocking, reset, wire>>
        /\ UNCHANGED <<reading, got, header, packet, status, delivered, cut>>
    BY <1>2 DEF vars, sender, conn, receiver
  <2>3. TypeOK' /\ WithinBuffers' /\ BytesOK' /\ ReaderOK' /\ SenderOK'
    BY <2>2 DEF Sound, TypeOK, WithinBuffers, BytesOK, ReaderOK, SenderOK, SizeOf
  <2>4. EndHasCause'
    BY <2>2 DEF Sound, EndHasCause, ErrorHasCause, ClosedHasCause, Legal, SizeOf
  <2>5. Current' = Current /\ Reader' = Reader /\ HeaderOf(Current)' = HeaderOf(Current)
    BY <2>2 DEF Current, Reader, HeaderOf
  <2>6. Chain(wire, Reader) => Chain(wire, Reader)'
    BY <2>2, <2>5, ChainFrame
  <2>7. InStep'
    BY <2>2, <2>5, <2>6 DEF Sound, InStep, DeliveredInOrder
  <2> QED BY <2>3, <2>4, <2>7 DEF Sound
<1> QED BY <1>1, <1>2

\* So it always holds.
LEMMA Soundness == Spec => []Sound
  BY InitSound, StepSound, PTL DEF Spec

-----------------------------------------------------------------------------
(* The theorems.                                                            *)

\* Every variable keeps its type: what is taken from the stream is bytes, and
\* the fields of a packet are those of a header, in step or not.
THEOREM TypeCorrect == Spec => []TypeOK
<1>1. Sound => TypeOK
  BY DEF Sound
<1> QED BY <1>1, Soundness, PTL

\* ns_recv_all is never asked for more than the header or the body array of
\* ns_recv_packet holds, whatever lengths a peer sends.
THEOREM BuffersNeverOverrun == Spec => []WithinBuffers
<1>1. Sound => WithinBuffers
  BY DEF Sound
<1> QED BY <1>1, Soundness, PTL

\* Packets come out of ns_recv_packet whole, once each and in order, however
\* the kernel cuts the stream into pieces, until a piece is thrown away with
\* EAGAIN, which happens on a socket of the server only.
THEOREM InOrder == Spec => []InOrderUnlessCut
<1>1. Sound => InOrderUnlessCut
  BY DEF Sound, InStep, ReaderOK, InOrderUnlessCut
<1> QED BY <1>1, Soundness, PTL

\* ns_recv_packet returns an error only when the connection was reset, a
\* piece was thrown away, an illegal header was sent, or the sender stopped
\* inside a packet; and unless a piece was thrown away it does not take the end of
\* a stream that was cut inside a header or inside a body for a closed connection.
THEOREM EndsHaveCauses == Spec => []EndHasCause
<1>1. Sound => EndHasCause
  BY DEF Sound
<1> QED BY <1>1, Soundness, PTL

-----------------------------------------------------------------------------
(* The packet layer implements PacketChannel.                               *)

\* A packet that is returned is the next one, and was sent.
LEMMA DeliversNext ==
  ASSUME Sound, ~cut, RecvHeader \/ RecvBody, delivered' # delivered
  PROVE  /\ delivered' = Append(delivered, Current) /\ Current <= Len(packets)
         /\ reading # "over" /\ reading' # "over" /\ packets' = packets
<1>1. InStep'
  BY RecvHeaderInStep, RecvBodyInStep DEF Sound
<1>2. ~cut' /\ packets' = packets /\ wire # <<>> /\ reading \in {"header", "body"}
  BY DEF RecvHeader, RecvBody, conn, sender
<1>3. Current \in DOMAIN packets
  BY <1>2, ReadInStep DEF Sound
<1>4. Current <= Len(packets)
  BY <1>3, Counts DEF Sound
<1>5. reading' = "call" /\ \E k \in Nat : delivered' = Append(delivered, k)
  <2>1. CASE RecvHeader
    <3>1. PICK b : ReturnPacket(Append(got, Head(wire)), Parse(b), <<>>)
      BY <2>1 DEF RecvHeader
    <3>2. Append(got, Head(wire))[1] \in Bytes
      BY <2>1, HeaderRead DEF Sound
    <3> QED BY <3>1, <3>2, Returned DEF Sound
  <2>2. CASE RecvBody
    <3>1. ReturnPacket(header, packet, Append(got, Head(wire)))
      BY <2>2 DEF RecvBody
    <3>2. header[1] \in Bytes
      BY <2>2, SizeIsNat, LenProperties DEF RecvBody, Sound, ReaderOK, TypeOK
    <3> QED BY <3>1, <3>2, Returned DEF Sound
  <2> QED BY <2>1, <2>2
<1>6. PICK k \in Nat : delivered' = Append(delivered, k)
  BY <1>5
<1>7. /\ Len(delivered) \in Nat /\ DOMAIN delivered' = 1..(Len(delivered) + 1)
      /\ delivered'[Len(delivered) + 1] = k
  BY <1>6, Appended DEF Sound, TypeOK
<1>8. delivered'[Len(delivered) + 1] = Len(delivered) + 1
  BY <1>1, <1>2, <1>7 DEF InStep, DeliveredInOrder
<1>9. k = Current
  BY <1>7, <1>8 DEF Current
<1> QED BY <1>2, <1>4, <1>5, <1>6, <1>9

\* Every step that loses no piece is a step of the channel.
LEMMA ChannelStep ==
  ASSUME Sound, [Next]_vars
  PROVE  [cut' \/ Channel!Next]_<<Len(packets), delivered, reading = "over">>
<1> SUFFICES ASSUME Next, ~cut'
             PROVE  Channel!Next \/ UNCHANGED <<Len(packets), delivered, reading = "over">>
  BY DEF vars, sender, receiver
<1>0. ~cut
  BY DEF Next, SenderStep, ReceiverStep, Environment, Ended, SendByte, SendFails, SendPacket,
     SenderCloses, Reset, CallRecv, RecvByte, RecvHeader, RecvBody, RecvEof, RecvReset,
     RecvAgain, receiver, vars
<1>1. CASE SendPacket
  <2>1. PICK h \in Headers : packets' = Append(packets, h)
    BY <1>1 DEF SendPacket
  <2>2. Len(packets') = Len(packets) + 1
    BY <2>1, Appended DEF Sound, TypeOK
  <2>3. UNCHANGED <<delivered, reading>>
    BY <1>1 DEF SendPacket, receiver
  <2> QED BY <2>2, <2>3 DEF Channel!Next, Channel!Give
<1>2. CASE (RecvHeader \/ RecvBody) /\ delivered' # delivered
  <2>1. /\ delivered' = Append(delivered, Len(delivered) + 1) /\ Len(delivered) + 1 <= Len(packets)
        /\ reading # "over" /\ reading' # "over" /\ packets' = packets
    BY <1>0, <1>2, DeliversNext DEF Current
  <2>2. Len(delivered) < Len(packets)
    BY <2>1, Counts DEF Sound
  <2> QED BY <2>1, <2>2 DEF Channel!Next, Channel!Deliver
<1>3. CASE ReceiverStep /\ delivered' = delivered
  <2>1. packets' = packets /\ reading # "over"
    BY <1>3 DEF ReceiverStep, CallRecv, RecvByte, RecvHeader, RecvBody, RecvEof, RecvReset,
       RecvAgain, sender
  <2>2. CASE reading' = "over"
    BY <1>3, <2>1, <2>2 DEF Channel!Next, Channel!End
  <2>3. CASE reading' # "over"
    BY <1>3, <2>1, <2>3
  <2> QED BY <2>2, <2>3
<1>4. CASE SenderStep \/ SenderCloses \/ Reset \/ Ended
  <2>1. UNCHANGED <<packets, delivered, reading>>
    BY <1>4 DEF SenderStep, SendByte, SendFails, SenderCloses, Reset, Ended, sender, receiver, vars
  <2> QED BY <2>1
<1>5. ReceiverStep /\ delivered' # delivered => RecvHeader \/ RecvBody
  BY DEF ReceiverStep, CallRecv, RecvByte, RecvEof, RecvReset, RecvAgain
<1> QED BY <1>1, <1>2, <1>3, <1>4, <1>5 DEF Next, Environment

\* The packet layer of comm.c implements PacketChannel for as long as no piece
\* is thrown away: for ever on a client's socket.
THEOREM ImplementsChannel == Spec => ChannelSpec
<1>1. Init => Channel!Init
  BY DEF Init, Channel!Init
<1> QED BY <1>1, ChannelStep, Soundness, PTL DEF Spec, ChannelSpec
=============================================================================

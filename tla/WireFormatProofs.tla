-------------------------- MODULE WireFormatProofs --------------------------
(***************************************************************************)
(* What ns_recv_packet makes of a header that ns_send_packet wrote, for    *)
(* every size of a byte and every value of the fields.                     *)
(***************************************************************************)
EXTENDS WireFormat, SequenceTheorems, TLAPS

\* A byte has at least one value.
LEMMA BaseIsNat == Base \in Nat /\ Base \in Nat \ {0}
  BY WireAssumption

-----------------------------------------------------------------------------
(* Division.                                                                *)

\* What a shift drops and a mask keeps make the number up.
LEMMA DivMod ==
  ASSUME NEW v \in Nat, NEW d \in Nat \ {0}
  PROVE  /\ v \div d \in Nat /\ v % d \in Nat
         /\ v = d * (v \div d) + (v % d)
         /\ v % d < d
<1>1. v \div d \in Int /\ v \div d >= 0
  BY SMTT(20)
<1>2. v % d \in Nat /\ v % d < d
  BY SMTT(20)
<1>3. v = d * (v \div d) + (v % d)
  BY SMTT(20)
<1> QED BY <1>1, <1>2, <1>3

\* Quotient and remainder are determined by the number.
LEMMA Quotient ==
  ASSUME NEW d \in Nat \ {0}, NEW p \in Nat, NEW q \in Nat, NEW r \in Nat, NEW s \in Nat,
         r < d, s < d, d * p + r = d * q + s
  PROVE  p = q
<1>1. ASSUME p < q PROVE FALSE
  <2>1. q >= p + 1
    BY <1>1
  <2>2. d * q >= d * (p + 1)
    BY <2>1, SMTT(20)
  <2>3. d * (p + 1) = d * p + d
    BY SMTT(20)
  <2> DEFINE x == d * p  y == d * q
  <2>4. x \in Int /\ y \in Int /\ x + r = y + s /\ y >= x + d
    BY <2>2, <2>3
  <2> HIDE DEF x, y
  <2> QED BY <2>4
<1>2. ASSUME q < p PROVE FALSE
  <2>1. p >= q + 1
    BY <1>2
  <2>2. d * p >= d * (q + 1)
    BY <2>1, SMTT(20)
  <2>3. d * (q + 1) = d * q + d
    BY SMTT(20)
  <2> DEFINE x == d * p  y == d * q
  <2>4. x \in Int /\ y \in Int /\ x + r = y + s /\ x >= y + d
    BY <2>2, <2>3
  <2> HIDE DEF x, y
  <2> QED BY <2>4
<1> QED BY <1>1, <1>2

\* Shifting twice is shifting by the product.
LEMMA DivDiv ==
  ASSUME NEW v \in Nat, NEW d \in Nat \ {0}, NEW e \in Nat \ {0}
  PROVE  v \div (d * e) = (v \div d) \div e
<1> DEFINE x == v \div d
           y == x \div e
           r == v % d
           s == x % e
           t == d * s + r
           q == v \div (d * e)
           u == v % (d * e)
<1>1. x \in Nat /\ r \in Nat /\ v = d * x + r /\ r < d
  BY DivMod
<1>2. y \in Nat /\ s \in Nat /\ x = e * y + s /\ s < e
  BY <1>1, DivMod
<1>3. d * e \in Nat \ {0}
  BY SMTT(20)
<1>4. q \in Nat /\ u \in Nat /\ v = (d * e) * q + u /\ u < d * e
  BY <1>3, DivMod
<1> HIDE DEF x, y, r, s, q, u
<1>5. v = (d * e) * y + t /\ t \in Nat
  BY <1>1, <1>2, SMTT(20)
<1>6. t < d * e
  <2>1. d * s <= d * (e - 1)
    BY <1>2, SMTT(20)
  <2>2. d * (e - 1) = d * e - d
    BY SMTT(20)
  <2> QED BY <1>1, <1>2, <2>1, <2>2, SMTT(20)
<1> HIDE DEF t
<1> DEFINE de == d * e
<1>7. de \in Nat \ {0} /\ t < de /\ u < de /\ de * y + t = de * q + u
  BY <1>3, <1>4, <1>5, <1>6
<1> HIDE DEF de
<1>8. y = q
  BY <1>2, <1>4, <1>5, <1>7, Quotient
<1> QED BY <1>8 DEF x, y, q

\* htonl and ntohl: the four bytes of a 32-bit number give it back.
LEMMA FourDigits ==
  ASSUME NEW B \in Nat, NEW v \in Nat, NEW x \in Nat, NEW y \in Nat, NEW z \in Nat,
         NEW a \in Nat, NEW b \in Nat, NEW c \in Nat,
         v = B * x + a, x = B * y + b, y = B * z + c
  PROVE  z * (B * B * B) + c * (B * B) + b * B + a = v
  BY Z3T(20)

-----------------------------------------------------------------------------
(* Numbers as four bytes.                                                   *)

\* ns_store_u32 is the four digits.
LEMMA StoreDigits ==
  ASSUME NEW v \in Nat
  PROVE  \E z, c, b, a \in Nat :
            /\ StoreU32(v) = <<z, c, b, a>>
            /\ z * (Base * Base * Base) + c * (Base * Base) + b * Base + a = v
<1> DEFINE x == v \div Base
           y == x \div Base
           z == y \div Base
           a == v % Base
           b == x % Base
           c == y % Base
<1>1. x \in Nat /\ a \in Nat /\ v = Base * x + a
  BY DivMod, BaseIsNat
<1> HIDE DEF a
<1>2. y \in Nat /\ b \in Nat /\ x = Base * y + b
  <2> HIDE DEF x
  <2> QED BY <1>1, DivMod, BaseIsNat
<1> HIDE DEF b
<1>3. z \in Nat /\ c \in Nat /\ y = Base * z + c
  <2> HIDE DEF y
  <2> QED BY <1>2, DivMod, BaseIsNat
<1> HIDE DEF c
<1>4. v \div (Base * Base) = y
  BY DivDiv, BaseIsNat
<1>5. Base * Base \in Nat \ {0}
  BY BaseIsNat, SMTT(20)
<1>6. v \div ((Base * Base) * Base) = z
  <2>1. v \div ((Base * Base) * Base) = (v \div (Base * Base)) \div Base
    BY <1>5, DivDiv, BaseIsNat
  <2> QED BY <1>4, <2>1
<1>7. StoreU32(v) = <<z, c, b, a>>
  BY <1>4, <1>6 DEF StoreU32, a, b, c
<1> HIDE DEF x, y, z
<1>8. z * (Base * Base * Base) + c * (Base * Base) + b * Base + a = v
  BY <1>1, <1>2, <1>3, BaseIsNat, FourDigits
<1> QED BY <1>1, <1>2, <1>3, <1>7, <1>8

\* ns_load_u32 undoes ns_store_u32, wherever in the header the bytes are.
LEMMA LoadStored ==
  ASSUME NEW v \in U32, NEW buf, NEW n \in Nat,
         \A i \in 1..4 : buf[n + i] = StoreU32(v)[i]
  PROVE  LoadU32(buf, n) = v
<1>1. v \in Nat
  BY DEF U32
<1>2. PICK z, c, b, a \in Nat :
         /\ StoreU32(v) = <<z, c, b, a>>
         /\ z * (Base * Base * Base) + c * (Base * Base) + b * Base + a = v
  BY <1>1, StoreDigits
<1>3. buf[n + 1] = z /\ buf[n + 2] = c /\ buf[n + 3] = b /\ buf[n + 4] = a
  BY <1>2
<1> QED BY <1>2, <1>3 DEF LoadU32

\* A 32-bit field is four bytes on the wire.
LEMMA StoredLength ==
  ASSUME NEW v \in Nat
  PROVE  StoreU32(v) \in Seq(Nat) /\ Len(StoreU32(v)) = 4
<1>1. PICK z, c, b, a \in Nat : StoreU32(v) = <<z, c, b, a>>
  BY StoreDigits
<1> QED BY <1>1

\* A byte of the joined string is a byte of the part it falls in.
LEMMA Joined ==
  ASSUME NEW s \in Seq(Nat), NEW t \in Seq(Nat)
  PROVE  /\ s \o t \in Seq(Nat) /\ Len(s \o t) = Len(s) + Len(t)
         /\ \A i \in 1..Len(s) : (s \o t)[i] = s[i]
         /\ \A i \in 1..Len(t) : (s \o t)[Len(s) + i] = t[i]
  BY ConcatProperties, LenProperties

\* Where the fields are in a header.
LEMMA SerializedFields ==
  ASSUME NEW h \in Fields
  PROVE  /\ Serialize(h)[1] = h.version /\ Serialize(h)[2] = h.type
         /\ \A i \in 1..4 : /\ Serialize(h)[2 + i] = StoreU32(h.sender_id)[i]
                            /\ Serialize(h)[6 + i] = StoreU32(h.timestamp)[i]
                            /\ Serialize(h)[10 + i] = StoreU32(h.body_len)[i]
<1> DEFINE head == <<h.version, h.type>>
           s == StoreU32(h.sender_id)
           t == StoreU32(h.timestamp)
           l == StoreU32(h.body_len)
<1>1. h.version \in Nat /\ h.type \in Nat
  BY DEF Fields, Byte
<1>2. h.sender_id \in Nat /\ h.timestamp \in Nat /\ h.body_len \in Nat
  BY DEF Fields, U32
<1>3. /\ head \in Seq(Nat) /\ Len(head) = 2 /\ head[1] = h.version /\ head[2] = h.type
      /\ s \in Seq(Nat) /\ Len(s) = 4
      /\ t \in Seq(Nat) /\ Len(t) = 4
      /\ l \in Seq(Nat) /\ Len(l) = 4
  BY <1>1, <1>2, StoredLength
<1>4. Serialize(h) = ((head \o s) \o t) \o l
  BY DEF Serialize
<1> HIDE DEF head, s, t, l
<1> DEFINE hs == head \o s
           hst == hs \o t
           all == hst \o l
<1> HIDE DEF hs, hst, all
<1>5. /\ hs \in Seq(Nat) /\ Len(hs) = 6
      /\ \A i \in 1..2 : hs[i] = head[i]
      /\ \A i \in 1..4 : hs[2 + i] = s[i]
  <2>1. head \in Seq(Nat) /\ s \in Seq(Nat) /\ Len(head) = 2 /\ Len(s) = 4
    BY <1>3
  <2>2. /\ hs \in Seq(Nat) /\ Len(hs) = Len(head) + Len(s)
        /\ \A i \in 1..Len(head) : hs[i] = head[i]
        /\ \A i \in 1..Len(s) : hs[Len(head) + i] = s[i]
    BY <2>1, Joined, Zenon DEF hs
  <2> QED BY <2>1, <2>2
<1>6. /\ hst \in Seq(Nat) /\ Len(hst) = 10
      /\ \A i \in 1..6 : hst[i] = hs[i]
      /\ \A i \in 1..4 : hst[6 + i] = t[i]
  <2>1. hs \in Seq(Nat) /\ t \in Seq(Nat) /\ Len(hs) = 6 /\ Len(t) = 4
    BY <1>3, <1>5
  <2>2. /\ hst \in Seq(Nat) /\ Len(hst) = Len(hs) + Len(t)
        /\ \A i \in 1..Len(hs) : hst[i] = hs[i]
        /\ \A i \in 1..Len(t) : hst[Len(hs) + i] = t[i]
    BY <2>1, Joined, Zenon DEF hst
  <2> QED BY <2>1, <2>2
<1>7. /\ all \in Seq(Nat) /\ Len(all) = 14
      /\ \A i \in 1..10 : all[i] = hst[i]
      /\ \A i \in 1..4 : all[10 + i] = l[i]
  <2>1. hst \in Seq(Nat) /\ l \in Seq(Nat) /\ Len(hst) = 10 /\ Len(l) = 4
    BY <1>3, <1>6
  <2>2. /\ all \in Seq(Nat) /\ Len(all) = Len(hst) + Len(l)
        /\ \A i \in 1..Len(hst) : all[i] = hst[i]
        /\ \A i \in 1..Len(l) : all[Len(hst) + i] = l[i]
    BY <2>1, Joined, Zenon DEF all
  <2> QED BY <2>1, <2>2
<1>8. Serialize(h) = all
  BY <1>4 DEF hs, hst, all
<1>9. all[1] = h.version /\ all[2] = h.type
  BY <1>3, <1>5, <1>6, <1>7
<1>10. ASSUME NEW i \in 1..4
       PROVE  all[2 + i] = s[i] /\ all[6 + i] = t[i] /\ all[10 + i] = l[i]
  <2>1. 2 + i \in 1..6 /\ 2 + i \in 1..10 /\ 6 + i \in 1..10
    OBVIOUS
  <2> QED BY <1>5, <1>6, <1>7, <2>1
<1> QED BY <1>8, <1>9, <1>10 DEF s, t, l

\* Every field of a header comes out as it went in, whatever its value, and a
\* header is accepted exactly if it is one this program may send.
THEOREM RoundTrip ==
  \A h \in Fields : Parse(Serialize(h)) = h /\ (Accepts(Serialize(h)) <=> Legal(h))
<1> SUFFICES ASSUME NEW h \in Fields
             PROVE  Parse(Serialize(h)) = h /\ (Accepts(Serialize(h)) <=> Legal(h))
  OBVIOUS
<1>1. h.sender_id \in U32 /\ h.timestamp \in U32 /\ h.body_len \in U32
  BY DEF Fields
<1>2. /\ LoadU32(Serialize(h), 2) = h.sender_id
      /\ LoadU32(Serialize(h), 6) = h.timestamp
      /\ LoadU32(Serialize(h), 10) = h.body_len
  BY <1>1, SerializedFields, LoadStored
<1>3. h = [version |-> h.version, type |-> h.type, sender_id |-> h.sender_id,
           timestamp |-> h.timestamp, body_len |-> h.body_len]
  BY DEF Fields
<1> QED BY <1>2, <1>3, SerializedFields DEF Parse, Accepts, Legal
=============================================================================

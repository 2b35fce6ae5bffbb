--------------------------- MODULE SendBufProofs ---------------------------
(***************************************************************************)
(* Theorems about SendBuf for every size of the ring, every set of packet  *)
(* lengths and every bound on the bytes of a connection.                   *)
(***************************************************************************)
EXTENDS SendBuf, SequenceTheorems, TLAPS

USE SendBufAssumption

\* head + n, taken modulo the size, is a position of the array.
LEMMA WrapOK == ASSUME NEW x \in Nat PROVE x % NS_SEND_BUF_SIZE \in Cells
  BY DEF Cells

\* memset leaves bytes that belong to no packet.
LEMMA ClearedOK == Cleared \in [Cells -> 0..MaxAccepted]
<1>1. 0 \in 0..MaxAccepted
  OBVIOUS
<1> QED BY <1>1 DEF Cleared

\* ns_server_reset_client.
LEMMA ResetOK == ASSUME ResetClient PROVE TypeOK'
<1>1. 0 \in Cells /\ 0 \in 0..NS_SEND_BUF_SIZE /\ 0 \in 0..MaxAccepted
  BY DEF Cells
<1> QED BY <1>1, ClearedOK DEF ResetClient, TypeOK

\* ns_client_enqueue_send: tail stays within one past the end, and every byte
\* copied is one of the connection's.
LEMMA EnqueueOK ==
  ASSUME TypeOK, NEW len \in PacketLens, EnqueueSend(len) PROVE TypeOK'
<1> DEFINE K == 0..(len - 1)
           Hit(x) == \E k \in K : CellOf(k) = x
           Byte(x) == accepted + 1 + (CHOOSE k \in K : CellOf(k) = x)
<1>1. len \in 1..(NS_SEND_BUF_SIZE - 1) /\ accepted + len <= MaxAccepted /\ accepted \in Nat
  BY DEF EnqueueSend, TypeOK
<1>2. ASSUME NEW x, Hit(x) PROVE Byte(x) \in 0..MaxAccepted
  <2>1. (CHOOSE k \in K : CellOf(k) = x) \in K
    BY <1>2
  <2> HIDE DEF Hit
  <2> QED BY <1>1, <2>1
<1>3. data' = [x \in Cells |-> IF Hit(x) THEN Byte(x) ELSE data[x]]
  BY DEF EnqueueSend
<1> HIDE DEF Hit, Byte
<1>4. data' \in [Cells -> 0..MaxAccepted]
  BY <1>2, <1>3 DEF TypeOK
<1>5. tail' \in 0..NS_SEND_BUF_SIZE
  BY <1>1 DEF EnqueueSend, TypeOK
<1>6. accepted' \in 0..MaxAccepted
  BY <1>1 DEF EnqueueSend
<1> QED BY <1>4, <1>5, <1>6 DEF EnqueueSend, TypeOK

\* One send(): it takes bytes that are in the array.
LEMMA DrainSendOK == ASSUME TypeOK, DrainSend PROVE TypeOK'
<1>1. PICK n \in 1..RunLength :
        /\ head' = (head + n) % NS_SEND_BUF_SIZE
        /\ wire' = IF Len(wire) > accepted
                   THEN wire
                   ELSE wire \o [k \in 1..n |-> data[head + k - 1]]
        /\ reread' = (reread \/ (tail = NS_SEND_BUF_SIZE /\ head + n = NS_SEND_BUF_SIZE))
  BY DEF DrainSend
<1>2. n \in Nat /\ head \in Nat /\ head + n <= NS_SEND_BUF_SIZE
  BY DEF TypeOK, Cells, RunLength
<1>3. head' \in Cells
  <2>1. head + n \in Nat
    BY <1>2
  <2>2. (head + n) % NS_SEND_BUF_SIZE \in Cells
    BY <2>1, WrapOK
  <2>3. head' = (head + n) % NS_SEND_BUF_SIZE
    BY <1>1
  <2> QED BY <2>2, <2>3
<1>4. wire' \in Seq(0..MaxAccepted)
  <2> DEFINE sent == [k \in 1..n |-> data[head + k - 1]]
  <2>1. \A k \in 1..n : data[head + k - 1] \in 0..MaxAccepted
    BY <1>2 DEF TypeOK, Cells
  <2>2. sent \in Seq(0..MaxAccepted)
    BY <1>2, <2>1
  <2>3. wire \in Seq(0..MaxAccepted)
    BY DEF TypeOK
  <2> HIDE DEF sent
  <2>4. wire \o sent \in Seq(0..MaxAccepted)
    BY <2>2, <2>3
  <2> QED BY <1>1, <2>3, <2>4 DEF sent
<1>5. reread' \in BOOLEAN
  BY <1>1
<1> QED BY <1>3, <1>4, <1>5 DEF DrainSend, TypeOK

\* ns_server_init clears the slot.
LEMMA InitTyped == Init => TypeOK
<1>1. 0 \in Cells /\ 0 \in 0..NS_SEND_BUF_SIZE /\ 0 \in 0..MaxAccepted
  BY DEF Cells
<1> QED BY <1>1, ClearedOK DEF Init, TypeOK

\* Every step keeps every variable in its type.
LEMMA StepTyped == TypeOK /\ [Next]_vars => TypeOK'
<1> SUFFICES ASSUME TypeOK, [Next]_vars PROVE TypeOK'
  OBVIOUS
<1>1. CASE \E len \in PacketLens : EnqueueSend(len)
  BY <1>1, EnqueueOK
<1>2. CASE Disconnect \/ \E len \in PacketLens : EnqueueRefused(len)
  BY <1>2, ResetOK DEF Disconnect, EnqueueRefused
<1>3. CASE DrainSend
  BY <1>3, DrainSendOK
<1>4. CASE DrainStart \/ DrainAgain \/ DrainDone
  BY <1>4 DEF DrainStart, DrainAgain, DrainDone, ring, TypeOK
<1>5. CASE UNCHANGED vars
  BY <1>5 DEF vars, TypeOK
<1> QED BY <1>1, <1>2, <1>3, <1>4, <1>5 DEF Next, Drain

\* head is always a position of the array and tail at most one past its end,
\* so no copy and no send() of server.c:113-214 leaves data[].
THEOREM RingTyped == Spec => []TypeOK
  BY InitTyped, StepTyped, PTL DEF Spec
-----------------------------------------------------------------------------
(* The ring until the drain has passed a tail of NS_SEND_BUF_SIZE.          *)

Unsent == accepted - Len(wire)

\* x, one lap back if it is past the end of the array.
Lap(x) == IF x < NS_SEND_BUF_SIZE THEN x ELSE x - NS_SEND_BUF_SIZE

Lossless ==
    /\ Unsent \in 0..(NS_SEND_BUF_SIZE - 1)
    /\ \A b \in 1..Len(wire) : wire[b] = b
    /\ tail = IF head + Unsent <= NS_SEND_BUF_SIZE
              THEN head + Unsent ELSE head + Unsent - NS_SEND_BUF_SIZE
    /\ \A k \in 1..Unsent : data[Lap(head + k - 1)] = Len(wire) + k

RingInv == TypeOK /\ (~reread => Lossless)

\* A difference of two positions, modulo the size.
LEMMA ModOK ==
  ASSUME NEW N \in Nat \ {0}, NEW r \in 0..(N - 1)
  PROVE  r % N = r /\ (r - N) % N = r
<1>1. r % N = r
  BY SMTT(20)
<1>2. (r - N) % N = r
  BY SMTT(20)
<1> QED BY <1>1, <1>2

\* A position past the end, modulo the size.
LEMMA LapOK ==
  ASSUME NEW N \in Nat \ {0}, NEW x \in N..(2 * N - 1) PROVE x % N = x - N
  BY SMTT(20)

\* The size_t subtraction of the space test does not wrap.
LEMMA RefusesExactly ==
  ASSUME TypeOK, Lossless, NEW len \in PacketLens
  PROVE  Refuses(len) <=> Unsent + len > NS_SEND_BUF_SIZE - 1
<1>1. Unsent \in 0..(NS_SEND_BUF_SIZE - 1) /\ head \in Cells /\ tail \in 0..NS_SEND_BUF_SIZE
  BY DEF TypeOK, Lossless
<1>2. tail = IF head + Unsent <= NS_SEND_BUF_SIZE
             THEN head + Unsent ELSE head + Unsent - NS_SEND_BUF_SIZE
  BY DEF Lossless
<1> HIDE DEF Unsent
<1>3. Available = NS_SEND_BUF_SIZE - Unsent
  BY <1>1, <1>2 DEF Available, Cells
<1>4. Available - 1 \in 0..(SIZE_T - 1)
  BY <1>1, <1>3
<1>5. (Available - 1) % SIZE_T = Available - 1
  BY <1>4, ModOK
<1> QED BY <1>1, <1>3, <1>5 DEF Refuses

\* ns_client_enqueue_send puts the packet behind what is unsent, over nothing.
LEMMA EnqueueLossless ==
  ASSUME TypeOK, Lossless, NEW len \in PacketLens, EnqueueSend(len)
  PROVE  Lossless'
<1> DEFINE K == 0..(len - 1)
           u == Unsent
<1>1. /\ len \in 1..(NS_SEND_BUF_SIZE - 1) /\ head \in Cells
      /\ accepted \in Nat /\ Len(wire) \in Nat
      /\ u \in 0..(NS_SEND_BUF_SIZE - 1) /\ tail \in 0..NS_SEND_BUF_SIZE
  BY DEF TypeOK, Lossless
<1>2. u + len <= NS_SEND_BUF_SIZE - 1
  BY <1>1, RefusesExactly DEF EnqueueSend
<1>3. tail = IF head + u <= NS_SEND_BUF_SIZE THEN head + u ELSE head + u - NS_SEND_BUF_SIZE
  BY DEF Lossless
<1>4. /\ data' = [x \in Cells |->
                    IF \E k \in K : CellOf(k) = x
                    THEN accepted + 1 + (CHOOSE k \in K : CellOf(k) = x)
                    ELSE data[x]]
      /\ tail' = IF tail + len <= NS_SEND_BUF_SIZE
                 THEN tail + len ELSE len - (NS_SEND_BUF_SIZE - tail)
      /\ accepted' = accepted + len /\ head' = head /\ wire' = wire
  BY DEF EnqueueSend
<1>5. Unsent' = u + len /\ accepted = Len(wire) + u
  BY <1>1, <1>4 DEF Unsent
<1> HIDE DEF u
<1>6. ASSUME NEW k \in K PROVE CellOf(k) = Lap(head + u + k)
  BY <1>1, <1>2, <1>3 DEF CellOf, Lap, Cells
<1>7. ASSUME NEW a \in 0..(NS_SEND_BUF_SIZE - 1), NEW b \in 0..(NS_SEND_BUF_SIZE - 1),
             Lap(head + a) = Lap(head + b)
      PROVE  a = b
  BY <1>1, <1>7 DEF Lap, Cells
<1>8. ASSUME NEW a \in 0..(NS_SEND_BUF_SIZE - 1) PROVE Lap(head + a) \in Cells
  BY <1>1 DEF Lap, Cells
<1>9. ASSUME NEW k \in 1..(u + len) PROVE data'[Lap(head + k - 1)] = Len(wire) + k
  <2> DEFINE x == Lap(head + k - 1)
  <2>1. k - 1 \in 0..(NS_SEND_BUF_SIZE - 1) /\ head + k - 1 = head + (k - 1)
    BY <1>1, <1>2
  <2>2. x \in Cells
    BY <1>8, <2>1
  <2>3. CASE k <= u
    <3>1. ASSUME NEW j \in K, CellOf(j) = x PROVE FALSE
      <4>1. u + j \in 0..(NS_SEND_BUF_SIZE - 1) /\ head + u + j = head + (u + j)
        BY <1>1, <1>2 DEF Cells
      <4>2. Lap(head + (u + j)) = Lap(head + (k - 1))
        BY <1>6, <2>1, <3>1, <4>1
      <4>3. u + j = k - 1
        BY <1>7, <2>1, <4>1, <4>2
      <4> QED BY <1>1, <2>3, <4>3
    <3>2. data'[x] = data[x]
      BY <1>4, <2>2, <3>1
    <3>3. data[x] = Len(wire) + k
      BY <1>1, <2>3 DEF Lossless, u
    <3> QED BY <3>2, <3>3
  <2>4. CASE k > u
    <3> DEFINE j == k - 1 - u
    <3>1. j \in K /\ head + u + j = head + (k - 1)
      BY <1>1, <2>4 DEF Cells
    <3>2. CellOf(j) = x
      BY <1>6, <2>1, <3>1
    <3>3. ASSUME NEW l \in K, CellOf(l) = x PROVE l = j
      <4>1. u + l \in 0..(NS_SEND_BUF_SIZE - 1) /\ head + u + l = head + (u + l)
        BY <1>1, <1>2 DEF Cells
      <4>2. Lap(head + (u + l)) = Lap(head + (k - 1))
        BY <1>6, <2>1, <3>3, <4>1
      <4>3. u + l = k - 1
        BY <1>7, <2>1, <4>1, <4>2
      <4> QED BY <1>1, <4>3
    <3> HIDE DEF j, x
    <3>4. (CHOOSE l \in K : CellOf(l) = x) = j
      BY <3>1, <3>2, <3>3
    <3>5. data'[x] = accepted + 1 + j
      BY <1>4, <2>2, <3>1, <3>2, <3>4
    <3> QED BY <1>1, <1>5, <3>5 DEF j, x
  <2> QED BY <1>1, <2>3, <2>4
<1>10. tail' = IF head + (u + len) <= NS_SEND_BUF_SIZE
               THEN head + (u + len) ELSE head + (u + len) - NS_SEND_BUF_SIZE
  BY <1>1, <1>2, <1>3, <1>4 DEF Cells
<1>11. u + len \in 0..(NS_SEND_BUF_SIZE - 1)
  BY <1>1, <1>2
<1>12. \A b \in 1..Len(wire) : wire[b] = b
  BY DEF Lossless
<1> QED BY <1>4, <1>5, <1>9, <1>10, <1>11, <1>12 DEF Lossless, Lap

\* One send() takes the oldest unsent bytes, until it passes a tail of
\* NS_SEND_BUF_SIZE.
LEMMA DrainSendLossless ==
  ASSUME TypeOK, Lossless, DrainSend, ~reread'
  PROVE  /\ Lossless'
         /\ \E n \in 1..Unsent : /\ Len(wire') = Len(wire) + n
                                 /\ \A b \in 1..Len(wire') : wire'[b] = b
<1> DEFINE u == Unsent
<1>1. PICK n \in 1..RunLength :
        /\ head' = (head + n) % NS_SEND_BUF_SIZE
        /\ wire' = IF Len(wire) > accepted
                   THEN wire
                   ELSE wire \o [k \in 1..n |-> data[head + k - 1]]
        /\ reread' = (reread \/ (tail = NS_SEND_BUF_SIZE /\ head + n = NS_SEND_BUF_SIZE))
  BY DEF DrainSend
<1>2. /\ head \in Cells /\ tail \in 0..NS_SEND_BUF_SIZE
      /\ accepted \in Nat /\ Len(wire) \in Nat
      /\ u \in 0..(NS_SEND_BUF_SIZE - 1) /\ n \in Nat \ {0}
      /\ wire \in Seq(0..MaxAccepted) /\ accepted = Len(wire) + u
  BY DEF TypeOK, Lossless, RunLength, Cells, Unsent
<1>3. tail = IF head + u <= NS_SEND_BUF_SIZE THEN head + u ELSE head + u - NS_SEND_BUF_SIZE
  BY DEF Lossless
<1>4. /\ tail' = tail /\ data' = data /\ accepted' = accepted /\ head # tail
      /\ ~(tail = NS_SEND_BUF_SIZE /\ head + n = NS_SEND_BUF_SIZE)
  <2>1. tail' = tail /\ data' = data /\ accepted' = accepted /\ head # tail
    BY DEF DrainSend, Pending
  <2> QED BY <1>1, <2>1
<1>5. \A k \in 1..u : data[Lap(head + k - 1)] = Len(wire) + k
  BY DEF Lossless
<1>6. \A b \in 1..Len(wire) : wire[b] = b
  BY DEF Lossless
<1>7. Unsent' = accepted' - Len(wire')
  BY DEF Unsent
<1> HIDE DEF u
<1>8. n <= u /\ head + n <= NS_SEND_BUF_SIZE
  BY <1>2, <1>3, <1>4 DEF RunLength, Cells
<1>9. head' = Lap(head + n)
  <2>1. CASE head + n < NS_SEND_BUF_SIZE
    <3>1. head + n \in 0..(NS_SEND_BUF_SIZE - 1)
      BY <1>2, <2>1 DEF Cells
    <3> QED BY <1>1, <2>1, <3>1, ModOK DEF Lap
  <2>2. CASE head + n = NS_SEND_BUF_SIZE
    <3>1. NS_SEND_BUF_SIZE % NS_SEND_BUF_SIZE = 0
      BY SMTT(20)
    <3> QED BY <1>1, <2>2, <3>1 DEF Lap
  <2> QED BY <1>2, <1>8, <2>1, <2>2 DEF Cells
<1> DEFINE sent == [k \in 1..n |-> data[head + k - 1]]
<1>10. ASSUME NEW k \in 1..n PROVE sent[k] = Len(wire) + k
  <2>1. k \in 1..u
    BY <1>2, <1>8
  <2>2. Lap(head + k - 1) = head + k - 1
    BY <1>2, <1>8 DEF Lap, Cells
  <2>3. data[Lap(head + k - 1)] = Len(wire) + k
    BY <1>5, <2>1
  <2> QED BY <2>2, <2>3
<1>11. wire' = wire \o sent
  BY <1>1, <1>2
<1>12. sent \in Seq(Nat) /\ Len(sent) = n
  BY <1>2, <1>10
<1> HIDE DEF sent
<1>13. /\ Len(wire') = Len(wire) + n
       /\ \A b \in 1..(Len(wire) + n) :
            wire'[b] = IF b <= Len(wire) THEN wire[b] ELSE sent[b - Len(wire)]
  <2>1. wire \in Seq(Nat)
    BY <1>2, SeqMonotonic
  <2> QED BY <1>11, <1>12, <2>1, ConcatProperties
<1>14. ASSUME NEW b \in 1..Len(wire') PROVE wire'[b] = b
  <2>1. CASE b <= Len(wire)
    BY <1>2, <1>6, <1>13, <2>1
  <2>2. CASE b > Len(wire)
    <3>1. b - Len(wire) \in 1..n
      BY <1>2, <1>13, <2>2
    <3>2. wire'[b] = sent[b - Len(wire)]
      BY <1>2, <1>13, <2>2
    <3> QED BY <1>2, <1>10, <3>1, <3>2
  <2> QED BY <1>2, <1>13, <2>1, <2>2
<1>15. Unsent' = u - n
  BY <1>2, <1>4, <1>7, <1>13
<1>16. tail' = IF head' + (u - n) <= NS_SEND_BUF_SIZE
               THEN head' + (u - n) ELSE head' + (u - n) - NS_SEND_BUF_SIZE
  BY <1>2, <1>3, <1>4, <1>8, <1>9 DEF Lap, Cells
<1>17. ASSUME NEW k \in 1..(u - n) PROVE data'[Lap(head' + k - 1)] = Len(wire') + k
  <2>1. n + k \in 1..u
    BY <1>2, <1>8
  <2>2. Lap(head' + k - 1) = Lap(head + (n + k) - 1)
    BY <1>2, <1>8, <1>9 DEF Lap, Cells
  <2>3. data[Lap(head + (n + k) - 1)] = Len(wire) + (n + k)
    BY <1>5, <2>1
  <2> QED BY <1>2, <1>4, <1>13, <2>2, <2>3
<1>18. u - n \in 0..(NS_SEND_BUF_SIZE - 1)
  BY <1>2, <1>8
<1>19. Lossless'
  BY <1>14, <1>15, <1>16, <1>17, <1>18 DEF Lossless, Lap
<1>20. n \in 1..u
  BY <1>2, <1>8
<1> QED BY <1>13, <1>14, <1>19, <1>20 DEF u

\* An empty ring is lossless.
LEMMA EmptyLossless ==
  ASSUME head = 0, tail = 0, accepted = 0, wire = <<>> PROVE Lossless
<1>1. Len(wire) = 0
  BY EmptySeq
<1>2. Unsent = 0
  <2>1. 0 - 0 = 0
    OBVIOUS
  <2> QED BY <1>1, <2>1, Zenon DEF Unsent
<1>3. 0 \in 0..(NS_SEND_BUF_SIZE - 1) /\ 1..0 = {}
  OBVIOUS
<1> QED BY <1>1, <1>2, <1>3 DEF Lossless

\* So is the ring that ns_server_reset_client leaves.
LEMMA ResetLossless == ASSUME ResetClient PROVE Lossless'
<1>1. head' = 0 /\ tail' = 0 /\ accepted' = 0 /\ wire' = <<>>
  BY DEF ResetClient
<1>2. Len(wire') = 0
  BY <1>1, EmptySeq
<1>3. Unsent' = 0
  <2>1. 0 - 0 = 0
    OBVIOUS
  <2> QED BY <1>1, <1>2, <2>1, Zenon DEF Unsent
<1>4. 0 \in 0..(NS_SEND_BUF_SIZE - 1) /\ 1..0 = {}
  OBVIOUS
<1> QED BY <1>1, <1>2, <1>3, <1>4 DEF Lossless

\* RingInv is inductive.
LEMMA RingInductive == Spec => []RingInv
<1>1. Init => RingInv
  BY InitTyped, EmptyLossless DEF Init, RingInv
<1>2. RingInv /\ [Next]_vars => RingInv'
  <2> SUFFICES ASSUME RingInv, [Next]_vars PROVE RingInv'
    OBVIOUS
  <2>1. TypeOK'
    BY StepTyped DEF RingInv
  <2> SUFFICES ASSUME ~reread' PROVE Lossless'
    BY <2>1 DEF RingInv
  <2>2. CASE \E len \in PacketLens : EnqueueSend(len)
    BY <2>2, EnqueueLossless DEF RingInv, EnqueueSend
  <2>3. CASE Disconnect \/ \E len \in PacketLens : EnqueueRefused(len)
    BY <2>3, ResetLossless DEF Disconnect, EnqueueRefused
  <2>4. CASE DrainSend
    <3>1. ~reread
      BY <2>4 DEF DrainSend, RingInv, TypeOK
    <3> QED BY <2>4, <3>1, DrainSendLossless DEF RingInv
  <2>5. CASE UNCHANGED <<ring, accepted, wire, reread>>
    BY <2>5 DEF RingInv, Lossless, Unsent, Lap, ring
  <2>6. DrainStart \/ DrainAgain \/ DrainDone \/ UNCHANGED vars
          => UNCHANGED <<ring, accepted, wire, reread>>
    BY DEF DrainStart, DrainAgain, DrainDone, vars, ring
  <2> QED BY <2>2, <2>3, <2>4, <2>5, <2>6 DEF Next, Drain
<1> QED BY <1>1, <1>2, PTL DEF Spec

\* What was sent, followed by what the ring holds, is what was accepted.
LEMMA LosslessContents ==
  ASSUME TypeOK, Lossless PROVE wire \o Contents = [b \in 1..accepted |-> b]
<1> DEFINE u == Unsent
<1>1. /\ head \in Cells /\ tail \in 0..NS_SEND_BUF_SIZE
      /\ accepted \in Nat /\ Len(wire) \in Nat
      /\ u \in 0..(NS_SEND_BUF_SIZE - 1)
      /\ wire \in Seq(0..MaxAccepted) /\ accepted = Len(wire) + u
  BY DEF TypeOK, Lossless, Cells, Unsent
<1>2. /\ tail = IF head + u <= NS_SEND_BUF_SIZE
                THEN head + u ELSE head + u - NS_SEND_BUF_SIZE
      /\ \A k \in 1..u : data[Lap(head + k - 1)] = Len(wire) + k
      /\ \A b \in 1..Len(wire) : wire[b] = b
  BY DEF Lossless
<1> HIDE DEF u
<1>3. (tail - head) % NS_SEND_BUF_SIZE = u
  <2>1. tail - head = u \/ tail - head = u - NS_SEND_BUF_SIZE
    BY <1>1, <1>2 DEF Cells
  <2> QED BY <1>1, <2>1, ModOK
<1>4. ASSUME NEW k \in 1..u PROVE (head + k - 1) % NS_SEND_BUF_SIZE = Lap(head + k - 1)
  <2> DEFINE x == head + k - 1
  <2>1. x \in Nat /\ x < 2 * NS_SEND_BUF_SIZE
    BY <1>1 DEF Cells
  <2> HIDE DEF x
  <2>2. ASSUME x < NS_SEND_BUF_SIZE PROVE x % NS_SEND_BUF_SIZE = Lap(x)
    <3>1. x \in 0..(NS_SEND_BUF_SIZE - 1)
      BY <2>1, <2>2
    <3>2. x % NS_SEND_BUF_SIZE = x
      BY <3>1, ModOK
    <3> QED BY <2>2, <3>2 DEF Lap
  <2>3. ASSUME x >= NS_SEND_BUF_SIZE PROVE x % NS_SEND_BUF_SIZE = Lap(x)
    <3>1. x \in NS_SEND_BUF_SIZE..(2 * NS_SEND_BUF_SIZE - 1)
      BY <2>1, <2>3
    <3>2. x % NS_SEND_BUF_SIZE = x - NS_SEND_BUF_SIZE
      BY <3>1, LapOK
    <3> QED BY <2>1, <2>3, <3>2 DEF Lap
  <2> QED BY <2>1, <2>2, <2>3 DEF x
<1>5. Contents = [k \in 1..u |-> Len(wire) + k]
  BY <1>2, <1>3, <1>4 DEF Contents
<1> DEFINE c == [k \in 1..u |-> Len(wire) + k]
<1>6. c \in Seq(Nat) /\ Len(c) = u
  BY <1>1
<1>7. \A k \in 1..u : c[k] = Len(wire) + k
  OBVIOUS
<1> HIDE DEF c
<1>8. /\ wire \o c \in Seq(Nat) /\ Len(wire \o c) = accepted
      /\ \A b \in 1..accepted :
           (wire \o c)[b] = IF b <= Len(wire) THEN wire[b] ELSE c[b - Len(wire)]
  <2>1. wire \in Seq(Nat)
    BY <1>1, SeqMonotonic
  <2> QED BY <1>1, <1>6, <2>1, ConcatProperties
<1>9. ASSUME NEW b \in 1..accepted PROVE (wire \o c)[b] = b
  <2>1. CASE b <= Len(wire)
    BY <1>1, <1>2, <1>8, <2>1
  <2>2. CASE b > Len(wire)
    <3>1. b - Len(wire) \in 1..u
      BY <1>1, <2>2
    <3>2. (wire \o c)[b] = c[b - Len(wire)]
      BY <1>1, <1>8, <2>2
    <3>3. c[b - Len(wire)] = Len(wire) + (b - Len(wire))
      BY <1>7, <3>1
    <3> QED BY <1>1, <3>2, <3>3
  <2>3. b <= Len(wire) \/ b > Len(wire)
    BY <1>1
  <2> QED BY <2>1, <2>2, <2>3
<1> DEFINE w == wire \o c
<1>10. w = [b \in 1..accepted |-> w[b]]
  <2>1. w \in Seq(Nat) /\ Len(w) = accepted
    BY <1>8
  <2> HIDE DEF w
  <2>2. w \in [1..accepted -> Nat]
    BY <2>1, LenProperties
  <2> QED BY <2>2
<1> QED BY <1>5, <1>9, <1>10 DEF c

\* Until the drain has run past a tail of NS_SEND_BUF_SIZE, wrapping loses,
\* repeats and reorders nothing, for every size and every packet length
\* (server.c:132-139, 182-210).
THEOREM RingLossless == Spec => []NothingLostOrRepeated
<1>1. RingInv => NothingLostOrRepeated
  BY LosslessContents DEF RingInv, NothingLostOrRepeated
<1> QED BY <1>1, RingInductive, PTL

\* Until then, the space test refuses a packet exactly when it does not fit
\* (server.c:122-130).
THEOREM RingRefusals == Spec => []RefusedOnlyForSpace
<1>1. RingInv => RefusedOnlyForSpace
  BY RefusesExactly DEF RingInv, RefusedOnlyForSpace, Unsent
<1> QED BY <1>1, RingInductive, PTL

\* Until then, every step of the ring is a step of the queue SendQueue, or
\* leaves it alone (server.c:113-214, 287-298).
THEOREM RingIsQueue == Spec => StepsOfAQueue
<1>1. Init => Queue!Init
  BY DEF Init, Queue!Init
<1>2. RingInv /\ [Next]_vars => [reread' \/ Queue!Next]_<<accepted, wire>>
  <2> SUFFICES ASSUME RingInv, [Next]_vars, ~reread'
               PROVE  Queue!Next \/ UNCHANGED <<accepted, wire>>
    OBVIOUS
  <2>1. CASE \E len \in PacketLens : EnqueueSend(len)
    <3>1. accepted' > accepted /\ wire' = wire
      BY <2>1 DEF EnqueueSend, RingInv, TypeOK
    <3> QED BY <3>1 DEF Queue!Next, Queue!Put
  <2>2. CASE Disconnect \/ \E len \in PacketLens : EnqueueRefused(len)
    BY <2>2 DEF Disconnect, EnqueueRefused, ResetClient, Queue!Next, Queue!Reset
  <2>3. CASE DrainSend
    <3>1. ~reread /\ TypeOK /\ Lossless
      BY <2>3 DEF DrainSend, RingInv, TypeOK
    <3>2. PICK n \in 1..Unsent : /\ Len(wire') = Len(wire) + n
                                 /\ \A b \in 1..Len(wire') : wire'[b] = b
      BY <2>3, <3>1, DrainSendLossless
    <3>3. wire' \in Seq(0..MaxAccepted)
      BY <2>3, <3>1, DrainSendOK DEF TypeOK
    <3>4. wire' = [b \in 1..(Len(wire) + n) |-> b]
      BY <3>2, <3>3
    <3>5. accepted' = accepted
      BY <2>3 DEF DrainSend
    <3> QED BY <3>2, <3>4, <3>5 DEF Unsent, Queue!Next, Queue!Get
  <2>4. DrainStart \/ DrainAgain \/ DrainDone \/ UNCHANGED vars
          => UNCHANGED <<accepted, wire>>
    BY DEF DrainStart, DrainAgain, DrainDone, vars
  <2> QED BY <2>1, <2>2, <2>3, <2>4 DEF Next, Drain
<1> QED BY <1>1, <1>2, RingInductive, PTL DEF Spec, StepsOfAQueue
=============================================================================

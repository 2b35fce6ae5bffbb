------------------------------ MODULE SendBuf ------------------------------
(***************************************************************************)
(* The outbound ring buffer of one client slot (NsSendBuf), byte by byte:  *)
(* ns_client_enqueue_send appends a packet, ns_client_drain_send hands     *)
(* contiguous runs of bytes to send() until the ring is empty or send()    *)
(* would block, ns_server_reset_client clears the slot.  The positions and *)
(* the space test are computed exactly as the C code computes them, the    *)
(* unsigned subtraction included.                                          *)
(*                                                                         *)
(* head, tail and data are the fields of the struct.  A byte is named by   *)
(* its position in the stream of bytes accepted on the connection; 0 is a  *)
(* byte that memset cleared.  accepted, wire and reread are history: the   *)
(* number of bytes taken, the bytes send() took, and whether the drain has *)
(* left head at 0 behind a tail of NS_SEND_BUF_SIZE.                       *)
(***************************************************************************)
EXTENDS Integers, Sequences

CONSTANTS
    NS_SEND_BUF_SIZE,   \* size of the ring
    SIZE_T,             \* size_t arithmetic is modulo this
    PacketLens,         \* lengths of the serialized packets
    MaxAccepted         \* bound on the bytes accepted on one connection

ASSUME SendBufAssumption ==
    /\ NS_SEND_BUF_SIZE \in Nat \ {0}
    \* a length never reaches the modulus, so only a negative difference wraps
    /\ SIZE_T \in Nat /\ SIZE_T > 2 * NS_SEND_BUF_SIZE
    \* a packet is shorter than the ring: 14 + 512 bytes against 2048
    /\ PacketLens \subseteq 1..(NS_SEND_BUF_SIZE - 1)
    /\ MaxAccepted \in Nat

VARIABLES head, tail, data, draining, accepted, wire, reread

ring == <<head, tail, data>>
vars == <<head, tail, data, draining, accepted, wire, reread>>

Cells == 0..(NS_SEND_BUF_SIZE - 1)
Cleared == [x \in Cells |-> 0]

\* ns_client_send_buf_pending
Pending == head # tail

\* The free space as the code computes it, the cell kept empty included.
Available ==
    IF tail >= head THEN NS_SEND_BUF_SIZE - (tail - head) ELSE head - tail

\* A mistake to be caught: no cell is kept empty.
RefusesNone(len) == len > Available

\* len > available - 1U, in size_t arithmetic
Refuses(len) == len > (Available - 1) % SIZE_T

\* A mistake to be caught: the second copy starts at cell 1.
CellOfShifted(k) ==
    IF tail + k < NS_SEND_BUF_SIZE THEN tail + k
    ELSE (tail + k + 1) % NS_SEND_BUF_SIZE

\* The cell that byte k (from 0) of the appended packet is copied to: from
\* tail to the end of the array, then from its beginning.
CellOf(k) ==
    IF tail + k < NS_SEND_BUF_SIZE THEN tail + k ELSE tail + k - NS_SEND_BUF_SIZE

\* A mistake to be caught: the run does not stop at tail.
RunLengthToEnd == NS_SEND_BUF_SIZE - head

\* The run drain_send offers to send(): up to tail or to the end of the array.
RunLength == IF tail > head THEN tail - head ELSE NS_SEND_BUF_SIZE - head

\* The bytes from head to tail, in the order they would be sent.
Contents ==
    [k \in 1..((tail - head) % NS_SEND_BUF_SIZE) |->
        data[(head + k - 1) % NS_SEND_BUF_SIZE]]
-----------------------------------------------------------------------------
Init ==
    /\ head = 0
    /\ tail = 0
    /\ data = Cleared
    /\ draining = FALSE
    /\ accepted = 0
    /\ wire = <<>>
    /\ reread = FALSE

\* ns_client_enqueue_send returning 0.
EnqueueSend(len) ==
    /\ ~draining
    /\ accepted + len <= MaxAccepted
    /\ ~Refuses(len)
    /\ data' = [x \in Cells |->
                  IF \E k \in 0..(len - 1) : CellOf(k) = x
                  THEN accepted + 1 + (CHOOSE k \in 0..(len - 1) : CellOf(k) = x)
                  ELSE data[x]]
    /\ tail' = IF tail + len <= NS_SEND_BUF_SIZE
               THEN tail + len
               ELSE len - (NS_SEND_BUF_SIZE - tail)
    /\ accepted' = accepted + len
    /\ UNCHANGED <<head, draining, wire, reread>>

\* ns_server_reset_client: the slot is cleared for its next connection.
ResetClient ==
    /\ head' = 0
    /\ tail' = 0
    /\ data' = Cleared
    /\ draining' = FALSE
    /\ accepted' = 0
    /\ wire' = <<>>
    /\ reread' = FALSE

\* ns_client_enqueue_send returning -1: every caller that queues a broadcast
\* or an ACK disconnects the client.
EnqueueRefused(len) ==
    /\ ~draining
    /\ Refuses(len)
    /\ ResetClient

\* ns_client_drain_send entered: POLLOUT was armed, so the ring is not empty.
DrainStart ==
    /\ ~draining
    /\ Pending
    /\ draining' = TRUE
    /\ UNCHANGED <<ring, accepted, wire, reread>>

\* A mistake to be caught: head is not taken modulo the size of the ring.
DrainSendUnwrapped ==
    /\ draining
    /\ Pending
    /\ \E n \in 1..RunLength :
         /\ head' = head + n
         /\ wire' = IF Len(wire) > accepted
                    THEN wire
                    ELSE wire \o [k \in 1..n |-> data[head + k - 1]]
         /\ reread' = (reread \/ (tail = NS_SEND_BUF_SIZE /\ head + n = NS_SEND_BUF_SIZE))
    /\ UNCHANGED <<tail, data, draining, accepted>>

\* One send() of the loop takes n bytes of the run.  The history of the wire
\* stops once it is longer than what was accepted.
DrainSend ==
    /\ draining
    /\ Pending
    /\ \E n \in 1..RunLength :
         /\ head' = (head + n) % NS_SEND_BUF_SIZE
         /\ wire' = IF Len(wire) > accepted
                    THEN wire
                    ELSE wire \o [k \in 1..n |-> data[head + k - 1]]
         /\ reread' = (reread \/ (tail = NS_SEND_BUF_SIZE /\ head + n = NS_SEND_BUF_SIZE))
    /\ UNCHANGED <<tail, data, draining, accepted>>

\* send() would block: the rest waits for the next POLLOUT.
DrainAgain ==
    /\ draining
    /\ Pending
    /\ draining' = FALSE
    /\ UNCHANGED <<ring, accepted, wire, reread>>

\* The loop condition fails: everything was sent.
DrainDone ==
    /\ draining
    /\ ~Pending
    /\ draining' = FALSE
    /\ UNCHANGED <<ring, accepted, wire, reread>>

\* The connection ends outside the drain, or send() reports a broken socket.
Disconnect == accepted > 0 /\ ResetClient

Drain == DrainSend \/ DrainAgain \/ DrainDone

Next ==
    \/ \E len \in PacketLens : EnqueueSend(len) \/ EnqueueRefused(len)
    \/ DrainStart
    \/ Drain
    \/ Disconnect

Spec == Init /\ [][Next]_vars

\* The loop of drain_send runs on: nothing but its own exits stops it.
FairSpec == Spec /\ WF_vars(Drain)
-----------------------------------------------------------------------------
\* head is always a position of the array; tail may be one past its end.
TypeOK ==
    /\ head \in Cells
    /\ tail \in 0..NS_SEND_BUF_SIZE
    /\ data \in [Cells -> 0..MaxAccepted]
    /\ draining \in BOOLEAN
    /\ accepted \in 0..MaxAccepted
    /\ wire \in Seq(0..MaxAccepted)
    /\ reread \in BOOLEAN

\* Until the drain has run past a tail of NS_SEND_BUF_SIZE, what was sent
\* followed by what the ring holds is the stream of accepted bytes: wrapping
\* loses, repeats and reorders nothing (server.c:132-139, 182-210).
NothingLostOrRepeated ==
    ~reread => wire \o Contents = [b \in 1..accepted |-> b]

\* Until then, a packet is refused exactly when the accepted bytes not yet
\* sent leave less than its length of the ring's size minus one: the space
\* test neither overruns unsent bytes nor refuses early (server.c:122-130).
RefusedOnlyForSpace ==
    ~reread => \A len \in PacketLens :
                 Refuses(len) <=> accepted - Len(wire) + len > NS_SEND_BUF_SIZE - 1

Queue == INSTANCE SendQueue

\* Until then, every step of the ring is a step of the queue it stands for.
StepsOfAQueue == Queue!Init /\ [][reread' \/ Queue!Next]_<<accepted, wire>>

\* Until then, a drain that was entered returns (server.c:169-214).
DrainReturnsBeforeReread == draining ~> (~draining \/ reread)

\* "so the call never stalls the event loop" (server.c:152-153).
DrainReturns == draining ~> ~draining
=============================================================================

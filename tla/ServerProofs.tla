---------------------------- MODULE ServerProofs ----------------------------
(***************************************************************************)
(* Theorems about Server for every number of slots, connections, names and *)
(* every bound.                                                            *)
(***************************************************************************)
EXTENDS Server, FiniteSetTheorems, TLAPS

USE ServerAssumption

(***************************************************************************)
(* The inductive invariant speaks of one slot at a time: what every        *)
(* operation on the slot table preserves for the slots it touches.         *)
(***************************************************************************)
SlotOK(c) ==
    /\ c \in Client
    /\ c.active => c.socket_fd \in Conns
    /\ "OUT" \in c.events <=> c.active /\ Pending(c)

TableOK(cs) ==
    /\ cs = [i \in Slots |-> cs[i]]
    /\ \A i \in Slots : SlotOK(cs[i])

\* ns_server_reset_client leaves a sound slot: empty ring, POLLOUT not armed.
LEMMA FreeOK == SlotOK(Free)
  BY DEF SlotOK, Free, Client, Pending, Packet

\* ns_server_accept_client fills in a sound slot.
LEMMA AcceptedOK == ASSUME NEW c \in Conns PROVE SlotOK(Accepted(c))
<1> DEFINE d == Accepted(c)
<1>1. d \in Client
  <2>1. Free \in Client
    BY FreeOK DEF SlotOK
  <2>2. [Free EXCEPT !.active = TRUE] \in Client
    BY <2>1 DEF Client
  <2> QED BY <2>2 DEF Accepted, Client
<1>2. d.active /\ d.socket_fd = c /\ d.events = {"IN"}
  BY DEF Accepted, Free
<1>3. d.ring = "sound" /\ d.sent = 0 /\ d.stream = <<>>
  BY DEF Accepted, Free
<1>4. ~Pending(d)
  BY <1>3 DEF Pending
<1> QED BY <1>1, <1>2, <1>4 DEF SlotOK

\* Arming POLLOUT from the ring makes a slot sound.
LEMMA UpdateOK ==
  ASSUME NEW c \in Client, c.active, c.socket_fd \in Conns
  PROVE  SlotOK(UpdatePollEvents(c))
  BY DEF SlotOK, UpdatePollEvents, Client, Pending

\* ns_server_enqueue_packet on an open slot arms POLLOUT for what it put there.
LEMMA EnqueueOK ==
  ASSUME NEW c \in Client, c.active, c.socket_fd \in Conns, NEW p \in Packet
  PROVE  SlotOK(Enqueue(c, p))
<1> DEFINE d == [c EXCEPT !.stream = Append(c.stream, p),
                          !.ring = IF c.ring = "sound" THEN "sound" ELSE "stale"]
<1> DEFINE r == IF c.ring = "sound" THEN "sound" ELSE "stale"
<1>1. Append(c.stream, p) \in Seq(Packet)
  BY DEF Client
<1>2. [c EXCEPT !.stream = Append(c.stream, p)] \in Client
  BY <1>1 DEF Client
<1>3. r \in {"sound", "stale", "garbled"}
  OBVIOUS
<1>4. d \in Client /\ d.active /\ d.socket_fd \in Conns
  <2> HIDE DEF r
  <2> QED BY <1>2, <1>3 DEF Client
<1> QED BY <1>4, UpdateOK DEF Enqueue

\* Output changes nobody's identity.
LEMMA EnqueueSame ==
  ASSUME NEW c \in Client, NEW p
  PROVE  /\ Enqueue(c, p).active = c.active
         /\ Enqueue(c, p).joined = c.joined
         /\ Enqueue(c, p).username = c.username
  BY DEF Enqueue, UpdatePollEvents, Client

\* Fields that say nothing about the ring, the socket or POLLOUT may change.
LEMMA SlotOKKept ==
  ASSUME NEW c, NEW d, SlotOK(c), d \in Client,
         d.active = c.active, d.socket_fd = c.socket_fd, d.events = c.events,
         d.stream = c.stream, d.sent = c.sent, d.ring = c.ring
  PROVE  SlotOK(d)
  BY DEF SlotOK, Pending

\* ns_server_broadcast keeps the table sound, whoever is evicted.
LEMMA BroadcastOK ==
  ASSUME NEW cs, TableOK(cs), NEW p \in Packet, NEW F,
         NEW A, \A i \in A \cap Slots : cs[i].active
  PROVE  TableOK(Broadcast(cs, p, A, F))
<1> DEFINE bs == Broadcast(cs, p, A, F)
<1>1. bs = [i \in Slots |-> bs[i]]
  BY DEF Broadcast
<1>2. ASSUME NEW i \in Slots PROVE SlotOK(bs[i])
  <2>1. CASE i \in F
    BY <2>1, FreeOK DEF Broadcast
  <2>2. CASE i \notin F /\ i \in A
    <3>1. cs[i] \in Client /\ cs[i].active /\ cs[i].socket_fd \in Conns
      BY <2>2 DEF TableOK, SlotOK
    <3>2. bs[i] = Enqueue(cs[i], p)
      BY <2>2 DEF Broadcast
    <3> QED BY <3>1, <3>2, EnqueueOK
  <2>3. CASE i \notin F /\ i \notin A
    <3>1. bs[i] = cs[i]
      BY <2>3 DEF Broadcast
    <3> QED BY <3>1 DEF TableOK
  <2> QED BY <2>1, <2>2, <2>3
<1> HIDE DEF bs
<1> QED BY <1>1, <1>2 DEF TableOK, bs

\* One slot of a sound table replaced by a sound slot.
LEMMA ReplaceOK ==
  ASSUME NEW cs, TableOK(cs), NEW i \in Slots, NEW c, SlotOK(c)
  PROVE  TableOK([cs EXCEPT ![i] = c])
  BY DEF TableOK

\* ns_server_send_error keeps the table sound, whether or not the ERROR fits.
LEMMA SendErrorOK ==
  ASSUME NEW cs, TableOK(cs), NEW i \in Slots, cs[i].active, NEW fits
  PROVE  TableOK(SendError(cs, i, fits))
<1>1. ErrorPacket \in Packet
  BY DEF ErrorPacket, Packet
<1>2. SlotOK(Enqueue(cs[i], ErrorPacket))
  BY <1>1, EnqueueOK DEF TableOK, SlotOK
<1> QED BY <1>2, ReplaceOK DEF SendError

\* ns_server_disconnect_client keeps it sound, with the evictions of its notice.
LEMMA DisconnectOK ==
  ASSUME NEW cs, TableOK(cs), NEW i \in Slots, NEW announce, NEW F
  PROVE  TableOK(Disconnect(cs, i, announce, F))
<1>1. LeaveNotice(cs[i]) \in Packet
  BY DEF LeaveNotice, Packet, TableOK, SlotOK, Client
<1>2. \A j \in LeaveAudience(cs, i, announce) \cap Slots : cs[j].active
  BY DEF LeaveAudience, Audience
<1>3. TableOK(Broadcast(cs, LeaveNotice(cs[i]), LeaveAudience(cs, i, announce), F))
  BY <1>1, <1>2, BroadcastOK
<1> QED BY <1>3, FreeOK, ReplaceOK DEF Disconnect
-----------------------------------------------------------------------------
(* What a step does to the variables, given a sound table.                  *)

SoundState == TypeOK /\ TableOK(clients)

\* The type invariant in four parts.
LoopType ==
    /\ pc \in {"top", "poll", "reap", "accept", "scan", "done"}
    /\ exit_code \in {"none", "success", "failure", "sigpipe"}
    /\ shutdown \in BOOLEAN
    /\ errno \in {"EAGAIN", "other"}
    /\ listen_revents \in BOOLEAN
    /\ budget \in 0..MaxRequests

SlotType == clients \in [Slots -> Client] /\ client_count \in Nat

DbType == users \in Seq(Names) /\ messages \in Seq(Nat)

NetType ==
    /\ sock \in [Conns -> {"none", "backlog", "held", "closed"}]
    /\ peer \in [Conns -> {"up", "fin", "rst", "dead"}]
    /\ inbox \in [Conns -> Seq(Request)]

\* The parts make up the whole.
LEMMA TypeParts == TypeOK <=> LoopType /\ SlotType /\ DbType /\ NetType
  BY DEF TypeOK, LoopType, SlotType, DbType, NetType

\* The same after a step.
LEMMA SoundNext ==
  ASSUME TableOK(clients'), LoopType', SlotType', DbType', NetType'
  PROVE  SoundState'
<1>1. TypeOK'
  BY DEF TypeOK, LoopType, SlotType, DbType, NetType
<1> QED BY <1>1 DEF SoundState, TableOK, SlotOK, Pending, Client, Packet, Request

\* clients[NS_MAX_CLIENTS] has finitely many slots.
LEMMA SlotsFinite == IsFiniteSet(Slots) /\ Cardinality(Slots) = NS_MAX_CLIENTS
<1>1. NS_MAX_CLIENTS - 1 \in Int /\ 0 \in Int
  OBVIOUS
<1> QED BY <1>1, FS_Interval DEF Slots

\* A table is sound exactly if it is a function into sound slots.
LEMMA TableType ==
  ASSUME NEW cs, TableOK(cs) PROVE cs \in [Slots -> Client]
  BY DEF TableOK, SlotOK

\* Closing the sockets of the slots given up keeps every variable in its type.
LEMMA SettleOK ==
  ASSUME TypeOK, NEW cs, TableOK(cs), NEW ib \in [Conns -> Seq(Request)], Settle(cs, ib)
  PROVE  /\ clients' = cs
         /\ SlotType' /\ NetType'
<1> DEFINE gone == {i \in Slots : clients[i].active /\ ~cs[i].active}
           lost == Cardinality(gone)
           Closed(c) == \E i \in gone : clients[i].socket_fd = c
<1>1. lost \in Nat
  BY SlotsFinite, FS_Subset, FS_CardinalityType
<1>2. clients' = cs /\ client_count' = IF lost > client_count THEN 0 ELSE client_count - lost
  BY DEF Settle
<1>3. client_count' \in Nat
  <2> HIDE DEF lost
  <2> QED BY <1>1, <1>2 DEF TypeOK
<1>4. /\ sock'  = [c \in Conns |-> IF Closed(c) THEN "closed" ELSE sock[c]]
      /\ inbox' = [c \in Conns |-> IF Closed(c) THEN <<>> ELSE ib[c]]
      /\ peer'  = [c \in Conns |-> IF Closed(c) THEN "up" ELSE peer[c]]
  BY DEF Settle
<1> HIDE DEF Closed
<1>5. sock' \in [Conns -> {"none", "backlog", "held", "closed"}]
  BY <1>4 DEF TypeOK
<1>6. peer' \in [Conns -> {"up", "fin", "rst", "dead"}]
  BY <1>4 DEF TypeOK
<1>7. inbox' \in [Conns -> Seq(Request)]
  BY <1>4
<1> QED BY <1>2, <1>3, <1>5, <1>6, <1>7, TableType DEF SlotType, NetType

\* The same for ns_server_disconnect_client as a step.
LEMMA DropOK ==
  ASSUME TypeOK, NEW cs, TableOK(cs), NEW i \in Slots, NEW announce, Drop(cs, i, announce)
  PROVE  /\ TableOK(clients')
         /\ SlotType' /\ NetType'
<1>1. PICK F : Settle(Disconnect(cs, i, announce, F), inbox)
  BY DEF Drop
<1>2. TableOK(Disconnect(cs, i, announce, F))
  BY DisconnectOK
<1>3. inbox \in [Conns -> Seq(Request)]
  BY DEF TypeOK
<1> HIDE DEF TableOK
<1> QED BY <1>1, <1>2, <1>3, SettleOK

\* The same for an ERROR followed by a disconnection.
LEMMA RefuseOK ==
  ASSUME SoundState, NEW i \in Slots, clients[i].active, Refuse(i)
  PROVE  /\ TableOK(clients')
         /\ SlotType' /\ NetType'
<1>1. PICK fits : Drop(SendError(clients, i, fits), i, FALSE)
  BY DEF Refuse
<1>2. TableOK(SendError(clients, i, fits))
  BY SendErrorOK DEF SoundState
<1> QED BY <1>1, <1>2, DropOK DEF SoundState

\* Serving a readiness bit of a slot changes nothing else of it.
LEMMA ServedOK ==
  ASSUME SoundState, NEW i \in Slots, NEW b
  PROVE  /\ TableOK(Served(i, b))
         /\ Served(i, b)[i].active = clients[i].active
         /\ Served(i, b)[i].socket_fd = clients[i].socket_fd
<1> DEFINE c == clients[i]
           d == [c EXCEPT !.revents = c.revents \ {b}]
<1>1. c \in Client /\ SlotOK(c)
  BY DEF SoundState, TableOK, SlotOK
<1>2. c.revents \ {b} \in SUBSET {"IN", "OUT", "ERR"}
  BY <1>1 DEF Client
<1>3. d \in Client
  BY <1>1, <1>2 DEF Client
<1>4. /\ d.active = c.active /\ d.socket_fd = c.socket_fd /\ d.events = c.events
      /\ d.stream = c.stream /\ d.sent = c.sent /\ d.ring = c.ring
  BY <1>1 DEF Client
<1>5. SlotOK(d)
  <2> HIDE DEF c, d
  <2> QED BY <1>1, <1>3, <1>4, SlotOKKept
<1>6. Served(i, b) = [clients EXCEPT ![i] = d]
  BY DEF Served
<1>7. TableOK([clients EXCEPT ![i] = d])
  <2> HIDE DEF d
  <2> QED BY <1>5, ReplaceOK DEF SoundState
<1>8. Served(i, b)[i] = d
  <2> HIDE DEF d
  <2> QED BY <1>6 DEF SoundState, TypeOK
<1> QED BY <1>4, <1>6, <1>7, <1>8

\* What was read is a request, and what is left is a sequence of them.
LEMMA ReadingOK ==
  ASSUME SoundState, NEW i \in Slots, NEW types, Reading(i, types)
  PROVE  /\ clients[i].active
         /\ ReadRequest(i) \in Request
         /\ Unread(i) \in [Conns -> Seq(Request)]
<1> DEFINE fd == clients[i].socket_fd
<1>1. clients[i].active /\ inbox[fd] # <<>>
  BY DEF Reading, Turn, Waiting
<1>2. fd \in Conns /\ inbox \in [Conns -> Seq(Request)]
  BY <1>1 DEF SoundState, TableOK, SlotOK, TypeOK
<1>3. Head(inbox[fd]) \in Request /\ Tail(inbox[fd]) \in Seq(Request)
  <2> HIDE DEF fd
  <2>1. inbox[fd] \in Seq(Request)
    BY <1>2
  <2> QED BY <1>1, <2>1
<1> QED BY <1>1, <1>2, <1>3 DEF ReadRequest, Unread
-----------------------------------------------------------------------------
(* Each action keeps the state sound.                                       *)

\* ns_server_init leaves every slot free.
LEMMA InitSound == Init => SoundState
<1> SUFFICES ASSUME Init PROVE SoundState
  OBVIOUS
<1>1. TableOK(clients)
  BY FreeOK DEF Init, TableOK
<1>2. MaxRequests \in 0..MaxRequests
  OBVIOUS
<1>3. LoopType
  BY <1>2 DEF Init, LoopType
<1>4. DbType
  BY DEF Init, DbType
<1>5. SlotType
  BY <1>1, TableType DEF Init, SlotType
<1>6. NetType
  BY DEF Init, NetType
<1> QED BY <1>1, <1>3, <1>4, <1>5, <1>6, TypeParts DEF SoundState

\* The end of the process, however it comes.
LEMMA ExitSound ==
  ASSUME SoundState, NEW code \in {"success", "failure", "sigpipe"}, Exit(code)
  PROVE  SoundState'
<1>1. TableOK(clients')
  BY FreeOK DEF Exit, TableOK
<1>2. LoopType'
  BY TypeParts DEF Exit, SoundState, LoopType
<1>3. DbType'
  BY TypeParts DEF Exit, SoundState, DbType, dbVars
<1>4. SlotType'
  BY <1>1, TableType DEF Exit, SlotType
<1>5. NetType'
  BY TypeParts DEF Exit, NetType, SoundState
<1> QED BY <1>1, <1>2, <1>3, <1>4, <1>5, SoundNext

\* The shutdown check of ns_server_run.
LEMMA CheckShutdownSound == ASSUME SoundState, CheckShutdown PROVE SoundState'
<1>1. CASE shutdown
  BY <1>1, ExitSound DEF CheckShutdown
<1>2. CASE ~shutdown
  BY <1>2 DEF CheckShutdown, SoundState, TypeOK, serverVars, dbVars, netVars
<1> QED BY <1>1, <1>2

\* poll() returning -1.
LEMMA PollFailsSound == ASSUME SoundState, PollFails PROVE SoundState'
  BY ExitSound DEF PollFails

\* poll() returning: only revents change.
LEMMA PollSound == ASSUME SoundState, Poll PROVE SoundState'
<1>1. PICK W \in SUBSET {i \in Slots : "OUT" \in clients[i].events} :
        clients' = [i \in Slots |->
                      [clients[i] EXCEPT !.revents = Readiness(clients[i], i \in W)]]
  BY DEF Poll
<1>2. ASSUME NEW i \in Slots PROVE SlotOK(clients'[i])
  <2> DEFINE r == Readiness(clients[i], i \in W)
  <2>1. r \in SUBSET {"IN", "OUT", "ERR"}
    BY DEF Readiness
  <2>2. SlotOK(clients[i]) /\ clients[i] \in Client
    BY DEF SoundState, TableOK, SlotOK
  <2> HIDE DEF r
  <2>3. [clients[i] EXCEPT !.revents = r] \in Client
    BY <2>1, <2>2 DEF Client
  <2>4. SlotOK([clients[i] EXCEPT !.revents = r])
    BY <2>2, <2>3, SlotOKKept DEF Client
  <2> QED BY <1>1, <2>4 DEF r
<1>3. TableOK(clients')
  BY <1>1, <1>2 DEF TableOK
<1>4. LoopType' /\ DbType' /\ NetType'
  BY TypeParts DEF Poll, SoundState, LoopType, DbType, NetType, dbVars, netVars
<1>5. SlotType'
  BY <1>3, TableType, TypeParts DEF Poll, SoundState, SlotType
<1> QED BY <1>3, <1>4, <1>5, SoundNext

\* ns_server_reap_auth_timeouts.
LEMMA ReapSound == ASSUME SoundState, ReapAuthTimeouts PROVE SoundState'
<1> DEFINE cs == [i \in Slots |-> IF Expired(clients[i]) THEN Free ELSE clients[i]]
<1>1. TableOK(cs)
  BY FreeOK DEF SoundState, TableOK
<1>2. Settle(cs, inbox)
  BY DEF ReapAuthTimeouts
<1>3. inbox \in [Conns -> Seq(Request)] /\ TypeOK
  BY DEF SoundState, TypeOK
<1> HIDE DEF cs
<1>4. clients' = cs /\ SlotType' /\ NetType'
  BY <1>1, <1>2, <1>3, SettleOK
<1>5. LoopType' /\ DbType'
  BY TypeParts DEF ReapAuthTimeouts, SoundState, LoopType, DbType, dbVars
<1> QED BY <1>1, <1>4, <1>5, SoundNext

\* ns_server_accept_client with a free slot.
LEMMA AcceptClientSound == ASSUME SoundState, AcceptClient PROVE SoundState'
<1>1. PICK c \in Conns, i \in Slots :
        /\ clients' = [clients EXCEPT ![i] = Accepted(c)]
        /\ sock' = [sock EXCEPT ![c] = "held"]
  BY DEF AcceptClient
<1>2. TableOK(clients')
  BY <1>1, AcceptedOK, ReplaceOK DEF SoundState
<1>3. SlotType'
  BY <1>2, TableType, TypeParts DEF AcceptClient, SoundState, SlotType
<1>4. NetType'
  BY <1>1, TypeParts DEF AcceptClient, SoundState, NetType
<1>5. LoopType' /\ DbType'
  BY TypeParts DEF AcceptClient, SoundState, LoopType, DbType, dbVars
<1> QED BY <1>2, <1>3, <1>4, <1>5, SoundNext

\* ns_server_accept_client when accept() fails.
LEMMA AcceptFailsSound == ASSUME SoundState, AcceptFails PROVE SoundState'
  BY TypeParts DEF AcceptFails, SoundState, TypeOK, LoopType, SlotType, DbType, NetType,
                   serverVars, dbVars, netVars

\* ns_server_accept_client without one.
LEMMA AcceptFullSound == ASSUME SoundState, AcceptFull PROVE SoundState'
<1>1. PICK c \in Conns :
        IF peer[c] = "dead"
        THEN Exit("sigpipe")
        ELSE /\ pc' = "scan"
             /\ listen_revents' = FALSE
             /\ sock' = [sock EXCEPT ![c] = "closed"]
             /\ inbox' = [inbox EXCEPT ![c] = <<>>]
             /\ peer' = [peer EXCEPT ![c] = "up"]
             /\ errno' = IF peer[c] = "rst" THEN "other" ELSE errno
             /\ UNCHANGED <<exit_code, shutdown, serverVars, dbVars, budget>>
  BY DEF AcceptFull
<1>2. CASE peer[c] = "dead"
  BY <1>1, <1>2, ExitSound
<1>3. CASE peer[c] # "dead"
  <2>1. sock' \in [Conns -> {"none", "backlog", "held", "closed"}]
    BY <1>1, <1>3 DEF SoundState, TypeOK
  <2>2. peer' \in [Conns -> {"up", "fin", "rst", "dead"}]
    BY <1>1, <1>3 DEF SoundState, TypeOK
  <2>3. inbox' \in [Conns -> Seq(Request)]
    <3>1. <<>> \in Seq(Request) /\ inbox \in [Conns -> Seq(Request)]
      BY DEF SoundState, TypeOK
    <3>2. inbox' = [inbox EXCEPT ![c] = <<>>]
      BY <1>1, <1>3
    <3> QED BY <3>1, <3>2
  <2>4. LoopType' /\ DbType'
    BY <1>1, <1>3, TypeParts DEF SoundState, LoopType, DbType, dbVars
  <2>5. SlotType' /\ clients' = clients
    BY <1>1, <1>3, TypeParts DEF SoundState, SlotType, serverVars
  <2>6. TableOK(clients')
    BY <2>5 DEF SoundState
  <2> QED BY <2>1, <2>2, <2>3, <2>4, <2>5, <2>6, SoundNext DEF NetType
<1> QED BY <1>2, <1>3

\* The end of the scan.
LEMMA ScanDoneSound == ASSUME SoundState, ScanDone PROVE SoundState'
  BY DEF ScanDone, SoundState, TypeOK, serverVars, dbVars, netVars
-----------------------------------------------------------------------------
(* The service of one bit of one slot.                                      *)

\* A step of the scan that leaves the table, the tables of the database and
\* errno sound leaves the state sound: the rest does not move.
LEMMA ServeOK ==
  ASSUME SoundState, UNCHANGED scanFrame, errno' \in {"EAGAIN", "other"},
         TableOK(clients'), SlotType', NetType', DbType'
  PROVE  SoundState'
<1>1. LoopType'
  BY TypeParts DEF SoundState, LoopType, scanFrame
<1> QED BY <1>1, SoundNext

\* What the database keeps when no handler wrote to it.
LEMMA SameDb == ASSUME SoundState, UNCHANGED dbVars PROVE DbType'
  BY TypeParts DEF SoundState, DbType, dbVars

\* errno stays one of its two values.
LEMMA ErrnoOK ==
  ASSUME SoundState, errno' \in {errno, "other", "EAGAIN"}
  PROVE  errno' \in {"EAGAIN", "other"}
  BY DEF SoundState, TypeOK

\* A handler that returns with the connection kept.
LEMMA KeepOK ==
  ASSUME SoundState, NEW i \in Slots, NEW cs, TableOK(cs),
         Unread(i) \in [Conns -> Seq(Request)], Keep(cs, i)
  PROVE  TableOK(clients') /\ SlotType' /\ NetType'
<1>1. TableOK(clients')
  BY DEF Keep
<1>2. SlotType'
  BY <1>1, TableType, TypeParts DEF Keep, SoundState, SlotType
<1>3. NetType'
  BY TypeParts DEF Keep, SoundState, NetType
<1> QED BY <1>1, <1>2, <1>3

\* ns_client_drain_send keeps a slot a slot of the same connection.
LEMMA DrainedOK ==
  ASSUME NEW c \in Client, NEW d \in Drained(c)
  PROVE  /\ d \in Client /\ d.active = c.active /\ d.socket_fd = c.socket_fd
         /\ d.joined = c.joined /\ d.username = c.username
<1>1. CASE \E n \in c.sent..Len(c.stream) : d = [c EXCEPT !.sent = n]
  <2>1. PICK n \in c.sent..Len(c.stream) : d = [c EXCEPT !.sent = n]
    BY <1>1
  <2>2. n \in Nat
    BY DEF Client
  <2> QED BY <2>1, <2>2 DEF Client
<1>2. CASE d = [c EXCEPT !.sent = Len(c.stream), !.ring = "stale"]
  <2>1. Len(c.stream) \in Nat
    BY DEF Client
  <2> DEFINE e == [c EXCEPT !.sent = Len(c.stream)]
  <2>2. /\ e \in Client /\ e.active = c.active /\ e.socket_fd = c.socket_fd
        /\ e.joined = c.joined /\ e.username = c.username
    BY <2>1 DEF Client
  <2>3. d = [e EXCEPT !.ring = "stale"]
    BY <1>2, Zenon
  <2> HIDE DEF e
  <2> QED BY <2>2, <2>3 DEF Client
<1>3. CASE \E r \in {"stale", "garbled"} : d = [c EXCEPT !.ring = r]
  BY <1>3 DEF Client
<1> QED BY <1>1, <1>2, <1>3 DEF Drained

\* POLLOUT served while send() works.
LEMMA DrainSendSound == ASSUME SoundState, NEW i \in Slots, DrainSend(i) PROVE SoundState'
<1>1. PICK c \in Drained(Served(i, "OUT")[i]) :
        /\ clients' = [clients EXCEPT ![i] = UpdatePollEvents(c)]
        /\ errno' = IF Pending(c) THEN "EAGAIN" ELSE errno
  BY DEF DrainSend
<1>2. /\ Served(i, "OUT")[i] \in Client
      /\ Served(i, "OUT")[i].active
      /\ Served(i, "OUT")[i].socket_fd \in Conns
  BY ServedOK DEF TableOK, SlotOK, DrainSend, Turn, Waiting
<1>3. SlotOK(UpdatePollEvents(c))
  BY <1>2, DrainedOK, UpdateOK
<1>4. TableOK(clients')
  BY <1>1, <1>3, ReplaceOK DEF SoundState
<1>5. SlotType' /\ NetType' /\ DbType'
  BY <1>4, TableType, TypeParts, SameDb DEF DrainSend, SoundState, SlotType, NetType
<1>6. errno' \in {"EAGAIN", "other"}
  BY <1>1, ErrnoOK
<1> QED BY <1>4, <1>5, <1>6, ServeOK DEF DrainSend

\* POLLOUT served when send() fails.
LEMMA DrainBrokenSound == ASSUME SoundState, NEW i \in Slots, DrainBroken(i) PROVE SoundState'
<1>1. CASE Exit("sigpipe")
  BY <1>1, ExitSound
<1>2. CASE /\ Drop(clients, i, clients[i].joined)
           /\ errno' = "other"
           /\ UNCHANGED <<scanFrame, dbVars>>
  BY <1>2, DropOK, SameDb, ServeOK DEF SoundState
<1> QED BY <1>1, <1>2 DEF DrainBroken

\* POLLIN served with nothing to read.
LEMMA ReadClosedSound == ASSUME SoundState, NEW i \in Slots, ReadClosed(i) PROVE SoundState'
<1>1. errno' \in {"EAGAIN", "other"}
  BY ErrnoOK DEF ReadClosed
<1>2. DbType'
  BY SameDb DEF ReadClosed
<1>3. TableOK(clients') /\ SlotType' /\ NetType'
  BY DropOK DEF ReadClosed, SoundState
<1> QED BY <1>1, <1>2, <1>3, ServeOK DEF ReadClosed

\* POLLIN served with a frame that ns_recv_packet does not accept.
LEMMA ReadErrorSound == ASSUME SoundState, NEW i \in Slots, ReadError(i) PROVE SoundState'
<1>1. errno' \in {"EAGAIN", "other"}
  BY ErrnoOK DEF ReadError
<1>2. DbType' /\ UNCHANGED scanFrame
  BY SameDb DEF ReadError, Reading
<1>3. CASE Keep(Served(i, "IN"), i)
  <2>1. Unread(i) \in [Conns -> Seq(Request)]
    BY ReadingOK DEF ReadError
  <2>2. TableOK(Served(i, "IN"))
    BY ServedOK
  <2> QED BY <1>1, <1>2, <1>3, <2>1, <2>2, KeepOK, ServeOK
<1>4. CASE Drop(clients, i, clients[i].joined)
  BY <1>1, <1>2, <1>4, DropOK, ServeOK DEF SoundState
<1> QED BY <1>3, <1>4 DEF ReadError

\* A request answered by an ERROR and a disconnection, the database untouched.
LEMMA RefusalSound ==
  ASSUME SoundState, NEW i \in Slots, NEW types, Reading(i, types), Refuse(i), DbType',
         errno' \in {errno, "other"}
  PROVE  SoundState'
<1>1. errno' \in {"EAGAIN", "other"}
  BY ErrnoOK
<1>2. clients[i].active
  BY ReadingOK
<1>3. TableOK(clients') /\ SlotType' /\ NetType'
  BY <1>2, RefuseOK
<1> QED BY <1>1, <1>3, ServeOK DEF Reading

\* ns_server_join_validate failing.
LEMMA JoinRejectedSound == ASSUME SoundState, NEW i \in Slots, JoinRejected(i) PROVE SoundState'
  BY SameDb, RefusalSound DEF JoinRejected

\* The users table gains a row or not, and the name has an id.
LEMMA WithUserOK ==
  ASSUME users \in Seq(Names), NEW name \in Names
  PROVE  /\ WithUser(name) \in Seq(Names)
         /\ UserId(WithUser(name), name) \in DOMAIN WithUser(name)
         /\ WithUser(name)[UserId(WithUser(name), name)] = name
<1> DEFINE us == WithUser(name)
<1>1. CASE \E k \in DOMAIN users : users[k] = name
  BY <1>1 DEF WithUser, UserId
<1>2. CASE ~\E k \in DOMAIN users : users[k] = name
  <2>1. us = Append(users, name)
    BY <1>2 DEF WithUser
  <2>2. us \in Seq(Names) /\ Len(users) + 1 \in DOMAIN us /\ us[Len(users) + 1] = name
    BY <2>1
  <2> HIDE DEF us
  <2>3. UserId(us, name) \in DOMAIN us /\ us[UserId(us, name)] = name
    BY <2>2 DEF UserId
  <2> QED BY <2>2, <2>3 DEF us
<1> QED BY <1>1, <1>2

\* ns_db_get_or_create_user failing.
LEMMA JoinFailsSound == ASSUME SoundState, NEW i \in Slots, JoinFails(i) PROVE SoundState'
<1>1. ReadRequest(i) \in Request /\ ReadRequest(i).type = "JOIN"
  BY ReadingOK DEF JoinFails, Reading, ReadRequest
<1>2. ReadRequest(i).name \in Names
  BY <1>1 DEF Request
<1>3. users' \in Seq(Names) /\ messages' \in Seq(Nat)
  BY <1>2, WithUserOK DEF JoinFails, SoundState, TypeOK
<1> QED BY <1>3, RefusalSound DEF JoinFails, ErrnoAfterDatabase, DbType

\* The slot that joins is sound, with its name and its ACK waiting.
LEMMA JoinedAsOK ==
  ASSUME messages \in Seq(Nat), NEW c \in Client, c.active, c.socket_fd \in Conns,
         NEW id \in Nat, NEW name \in Names
  PROVE  SlotOK(JoinedAs(c, id, name)) /\ JoinedAs(c, id, name).username = name
<1> DEFINE c1 == [c EXCEPT !.joined = TRUE]
           c2 == [c1 EXCEPT !.user_id = id]
           c3 == [c2 EXCEPT !.username = name]
           c4 == [c3 EXCEPT !.age = 0]
           c5 == [c4 EXCEPT !.since = Len(messages)]
<1>1. [c EXCEPT !.joined = TRUE, !.user_id = id, !.username = name,
                !.age = 0, !.since = Len(messages)] = c5
  BY Zenon
<1>2. c1 \in Client /\ c1.active /\ c1.socket_fd \in Conns
  BY DEF Client
<1> HIDE DEF c1
<1>3. c2 \in Client /\ c2.active /\ c2.socket_fd \in Conns
  BY <1>2 DEF Client
<1> HIDE DEF c2
<1>4. c3 \in Client /\ c3.active /\ c3.socket_fd \in Conns /\ c3.username = name
  BY <1>3 DEF Client
<1> HIDE DEF c3
<1>5. c4 \in Client /\ c4.active /\ c4.socket_fd \in Conns /\ c4.username = name
  <2>1. 0 \in 0..NS_AUTH_TIMEOUT_SECS
    OBVIOUS
  <2> QED BY <1>4, <2>1 DEF Client
<1> HIDE DEF c4
<1>6. c5 \in Client /\ c5.active /\ c5.socket_fd \in Conns /\ c5.username = name
  <2>1. Len(messages) \in Nat
    OBVIOUS
  <2> QED BY <1>5, <2>1 DEF Client
<1>7. [type |-> "ACK", sender |-> id, row |-> 0] \in Packet
  BY DEF Packet
<1> HIDE DEF c5
<1> QED BY <1>1, <1>6, <1>7, EnqueueOK, EnqueueSame DEF JoinedAs

\* A broadcast to everyone in the room, as a step.
LEMMA BroadcastSettled ==
  ASSUME SoundState, NEW i \in Slots, NEW cs, TableOK(cs), NEW p \in Packet, NEW except, NEW F,
         Unread(i) \in [Conns -> Seq(Request)],
         Settle(Broadcast(cs, p, Audience(cs, except), F), Unread(i))
  PROVE  TableOK(clients') /\ SlotType' /\ NetType'
<1> DEFINE bs == Broadcast(cs, p, Audience(cs, except), F)
<1>1. TableOK(bs)
  BY BroadcastOK DEF Audience
<1> HIDE DEF bs
<1>2. Settle(bs, Unread(i)) /\ TypeOK
  BY DEF SoundState, bs
<1> QED BY <1>1, <1>2, SettleOK

\* ns_server_join_finalize.
LEMMA JoinAcceptedSound == ASSUME SoundState, NEW i \in Slots, JoinAccepted(i) PROVE SoundState'
<1> DEFINE name == ReadRequest(i).name
           us   == WithUser(name)
           id   == UserId(us, name)
           p    == [type |-> "JOIN", sender |-> id, row |-> 0]
           sl   == Served(i, "IN")
           cs   == [sl EXCEPT ![i] = JoinedAs(sl[i], id, name)]
<1>1. ReadRequest(i) \in Request /\ ReadRequest(i).type = "JOIN"
      /\ clients[i].active /\ Unread(i) \in [Conns -> Seq(Request)]
  BY ReadingOK DEF JoinAccepted, Reading, ReadRequest
<1>2. name \in Names
  BY <1>1 DEF Request
<1>3. users \in Seq(Names) /\ messages \in Seq(Nat)
  BY DEF SoundState, TypeOK
<1>4. us \in Seq(Names) /\ id \in Nat
  <2>1. us \in Seq(Names) /\ id \in DOMAIN us
    BY <1>2, <1>3, WithUserOK
  <2> HIDE DEF us, id
  <2> QED BY <2>1
<1>5. TableOK(sl) /\ sl[i] \in Client /\ sl[i].active /\ sl[i].socket_fd \in Conns
  BY <1>1, ServedOK DEF TableOK, SlotOK
<1>6. /\ users' = us /\ messages' = messages
      /\ errno' \in {errno, "other"}
      /\ UNCHANGED scanFrame
      /\ \E F \in Refusals(cs, Audience(cs, -1)) :
            Settle(Broadcast(cs, p, Audience(cs, -1), F), Unread(i))
  BY DEF JoinAccepted, ErrnoAfterDatabase, Reading
<1> HIDE DEF name, us, id, sl
<1>7. TableOK(cs)
  BY <1>2, <1>3, <1>4, <1>5, JoinedAsOK, ReplaceOK
<1>8. p \in Packet
  BY <1>4 DEF Packet
<1> HIDE DEF cs, p
<1>9. TableOK(clients') /\ SlotType' /\ NetType'
  BY <1>1, <1>6, <1>7, <1>8, BroadcastSettled
<1>10. DbType' /\ errno' \in {"EAGAIN", "other"}
  BY <1>3, <1>4, <1>6, ErrnoOK DEF DbType
<1> QED BY <1>6, <1>9, <1>10, ServeOK

\* A TEXT before a JOIN.
LEMMA TextUnjoinedSound == ASSUME SoundState, NEW i \in Slots, TextUnjoined(i) PROVE SoundState'
  BY SameDb, RefusalSound DEF TextUnjoined

\* A TEXT that is empty or too long.
LEMMA TextRefusedSound == ASSUME SoundState, NEW i \in Slots, TextRefused(i) PROVE SoundState'
<1>1. PICK fits : Keep(SendError(Served(i, "IN"), i, fits), i)
  BY DEF TextRefused
<1>2. clients[i].active /\ Unread(i) \in [Conns -> Seq(Request)]
  BY ReadingOK DEF TextRefused
<1>3. TableOK(SendError(Served(i, "IN"), i, fits))
  BY <1>2, ServedOK, SendErrorOK
<1>4. errno' \in {"EAGAIN", "other"} /\ DbType' /\ UNCHANGED scanFrame
  BY ErrnoOK, SameDb DEF TextRefused, Reading
<1>5. TableOK(clients') /\ SlotType' /\ NetType'
  BY <1>1, <1>2, <1>3, KeepOK
<1> QED BY <1>4, <1>5, ServeOK

\* ns_db_insert_message failing.
LEMMA TextFailsSound == ASSUME SoundState, NEW i \in Slots, TextFails(i) PROVE SoundState'
  BY SameDb, RefusalSound DEF TextFails, ErrnoAfterDatabase

\* ns_server_handle_text.
LEMMA TextAcceptedSound == ASSUME SoundState, NEW i \in Slots, TextAccepted(i) PROVE SoundState'
<1> DEFINE p == [type |-> "TEXT", sender |-> clients[i].user_id, row |-> Len(messages) + 1]
           cs == Served(i, "IN")
<1>1. Unread(i) \in [Conns -> Seq(Request)]
  BY ReadingOK DEF TextAccepted
<1>2. messages \in Seq(Nat) /\ users \in Seq(Names) /\ clients[i].user_id \in Nat
  BY DEF SoundState, TypeOK, Client
<1>3. p \in Packet
  BY <1>2 DEF Packet
<1>4. TableOK(cs)
  BY ServedOK
<1>5. /\ users' = users /\ messages' = Append(messages, clients[i].user_id)
      /\ errno' \in {errno, "other"}
      /\ UNCHANGED scanFrame
      /\ \E F \in Refusals(cs, Audience(cs, -1)) :
            Settle(Broadcast(cs, p, Audience(cs, -1), F), Unread(i))
  BY DEF TextAccepted, ErrnoAfterDatabase, Reading
<1> HIDE DEF p, cs
<1>6. TableOK(clients') /\ SlotType' /\ NetType'
  BY <1>1, <1>3, <1>4, <1>5, BroadcastSettled
<1>7. DbType' /\ errno' \in {"EAGAIN", "other"}
  BY <1>2, <1>5, ErrnoOK DEF DbType
<1> QED BY <1>5, <1>6, <1>7, ServeOK

\* LEAVE.
LEMMA LeaveSound == ASSUME SoundState, NEW i \in Slots, Leave(i) PROVE SoundState'
<1>1. errno' \in {"EAGAIN", "other"} /\ DbType' /\ UNCHANGED scanFrame
  BY ErrnoOK, SameDb DEF Leave, Reading
<1>2. TableOK(clients') /\ SlotType' /\ NetType'
  BY DropOK DEF Leave, SoundState
<1> QED BY <1>1, <1>2, ServeOK

\* An ACK or an ERROR from a client.
LEMMA UnsupportedSound == ASSUME SoundState, NEW i \in Slots, Unsupported(i) PROVE SoundState'
  BY SameDb, RefusalSound DEF Unsupported

\* POLLERR or POLLHUP.
LEMMA HangUpSound == ASSUME SoundState, NEW i \in Slots, HangUp(i) PROVE SoundState'
<1>1. errno' \in {"EAGAIN", "other"} /\ DbType' /\ UNCHANGED scanFrame
  BY ErrnoOK, SameDb DEF HangUp
<1>2. TableOK(clients') /\ SlotType' /\ NetType'
  BY DropOK DEF HangUp, SoundState
<1> QED BY <1>1, <1>2, ServeOK

\* The service of a slot, whichever bit and request.
LEMMA ServeSlotSound == ASSUME SoundState, NEW i \in Slots, ServeSlot(i) PROVE SoundState'
  BY DrainSendSound, DrainBrokenSound, ReadClosedSound, ReadErrorSound,
     JoinRejectedSound, JoinFailsSound, JoinAcceptedSound,
     TextUnjoinedSound, TextRefusedSound, TextFailsSound, TextAcceptedSound,
     LeaveSound, UnsupportedSound, HangUpSound
  DEF ServeSlot
-----------------------------------------------------------------------------
(* The environment.                                                         *)

\* A step of the environment that leaves the table alone.
LEMMA EnvOK ==
  ASSUME SoundState, UNCHANGED envFrame, clients' = clients, NetType',
         shutdown' \in BOOLEAN, budget' \in 0..MaxRequests
  PROVE  SoundState'
<1>1. LoopType' /\ DbType'
  BY TypeParts DEF SoundState, LoopType, DbType, envFrame, dbVars
<1>2. TableOK(clients')
  BY DEF SoundState
<1>3. SlotType'
  BY TypeParts DEF SoundState, SlotType, envFrame
<1> QED BY <1>1, <1>2, <1>3, SoundNext

\* A connection attempt reaches the backlog.
LEMMA ConnectSound == ASSUME SoundState, NEW c \in Conns, Connect(c) PROVE SoundState'
<1>1. NetType'
  BY TypeParts DEF Connect, SoundState, NetType
<1> QED BY <1>1, EnvOK DEF Connect, SoundState, TypeOK

\* Bytes arrive.
LEMMA SendRequestSound == ASSUME SoundState, NEW c \in Conns, SendRequest(c) PROVE SoundState'
<1>1. PICK r \in Request : inbox' = [inbox EXCEPT ![c] = Append(@, r)]
  BY DEF SendRequest
<1>2. inbox' \in [Conns -> Seq(Request)]
  BY <1>1 DEF SoundState, TypeOK
<1>3. NetType'
  BY <1>2, TypeParts DEF SendRequest, SoundState, NetType
<1>4. budget' \in 0..MaxRequests /\ shutdown' \in BOOLEAN
  BY DEF SendRequest, SoundState, TypeOK
<1> QED BY <1>3, <1>4, EnvOK DEF SendRequest

\* The peer closes.
LEMMA PeerClosesSound == ASSUME SoundState, NEW c \in Conns, PeerCloses(c) PROVE SoundState'
<1>1. NetType'
  BY TypeParts DEF PeerCloses, SoundState, NetType
<1> QED BY <1>1, EnvOK DEF PeerCloses, SoundState, TypeOK

\* The peer resets the connection.
LEMMA PeerResetsSound == ASSUME SoundState, NEW c \in Conns, PeerResets(c) PROVE SoundState'
<1>1. <<>> \in Seq(Request) /\ inbox \in [Conns -> Seq(Request)]
  BY DEF SoundState, TypeOK
<1>2. inbox' \in [Conns -> Seq(Request)]
  BY <1>1 DEF PeerResets
<1>3. NetType'
  BY <1>2, TypeParts DEF PeerResets, SoundState, NetType
<1> QED BY <1>3, EnvOK DEF PeerResets, SoundState, TypeOK

\* A second passes.
LEMMA TickSound == ASSUME SoundState, Tick PROVE SoundState'
<1> DEFINE Older(c) == IF c.active /\ ~c.joined /\ c.age < NS_AUTH_TIMEOUT_SECS
                       THEN [c EXCEPT !.age = c.age + 1] ELSE c
<1>1. clients' = [i \in Slots |-> Older(clients[i])]
  BY DEF Tick
<1>2. ASSUME NEW i \in Slots PROVE SlotOK(Older(clients[i]))
  <2> DEFINE c == clients[i]
  <2>1. SlotOK(c) /\ c \in Client
    BY DEF SoundState, TableOK, SlotOK
  <2> HIDE DEF c
  <2>2. CASE c.active /\ ~c.joined /\ c.age < NS_AUTH_TIMEOUT_SECS
    <3>1. c.age + 1 \in 0..NS_AUTH_TIMEOUT_SECS
      BY <2>1, <2>2 DEF Client
    <3>2. [c EXCEPT !.age = c.age + 1] \in Client
      BY <2>1, <3>1 DEF Client
    <3>3. SlotOK([c EXCEPT !.age = c.age + 1])
      BY <2>1, <3>2, SlotOKKept DEF Client
    <3> QED BY <2>2, <3>3 DEF c
  <2> QED BY <2>1, <2>2 DEF c
<1> HIDE DEF Older
<1>3. TableOK(clients')
  BY <1>1, <1>2 DEF TableOK
<1>4. LoopType' /\ DbType' /\ NetType'
  BY TypeParts DEF Tick, SoundState, LoopType, DbType, NetType, envFrame, dbVars
<1>5. SlotType'
  BY <1>3, TableType, TypeParts DEF Tick, SoundState, SlotType, envFrame
<1> QED BY <1>3, <1>4, <1>5, SoundNext

\* SIGINT or SIGTERM.
LEMMA SignalSound == ASSUME SoundState, Signal PROVE SoundState'
<1>1. NetType'
  BY TypeParts DEF Signal, SoundState, NetType
<1> QED BY <1>1, EnvOK DEF Signal, SoundState, TypeOK
-----------------------------------------------------------------------------
(* The theorems.                                                            *)

\* SoundState is inductive.
LEMMA StepSound == SoundState /\ [Next]_vars => SoundState'
<1> SUFFICES ASSUME SoundState, [Next]_vars PROVE SoundState'
  OBVIOUS
<1>1. CASE ServerStep
  BY <1>1, CheckShutdownSound, PollFailsSound, PollSound, ReapSound,
     AcceptClientSound, AcceptFailsSound, AcceptFullSound, ScanDoneSound, ServeSlotSound
  DEF ServerStep
<1>2. CASE Environment
  BY <1>2, ConnectSound, SendRequestSound, PeerClosesSound, PeerResetsSound,
     TickSound, SignalSound
  DEF Environment
<1>3. CASE UNCHANGED vars
  BY <1>3 DEF SoundState, TypeOK, TableOK, vars, serverVars, dbVars, netVars
<1> QED BY <1>1, <1>2, <1>3 DEF Next, Ended

\* The invariant that the two theorems below are read from.
LEMMA Soundness == Spec => []SoundState
  BY InitSound, StepSound, PTL DEF Spec

\* Every variable keeps its type, in particular every packet queued to a client
\* has a sender and a row that the wire format can carry, and client_count
\* never goes below zero (server.c:71-95, 463-503).
THEOREM TypeCorrect == Spec => []TypeOK
<1>1. SoundState => TypeOK
  BY DEF SoundState
<1> QED BY <1>1, Soundness, PTL

\* POLLOUT is armed for exactly the active slots whose ring has bytes pending,
\* after every enqueue, drain, eviction, timeout and reuse of a slot, for any
\* number of slots and any behaviour of the peers (server.c:226-232).
THEOREM PollOutArmed == Spec => []PollOutIffPending
<1>1. SoundState => PollOutIffPending
  BY DEF SoundState, TableOK, SlotOK, PollOutIffPending
<1> QED BY <1>1, Soundness, PTL
-----------------------------------------------------------------------------
(* Who is in the room.                                                      *)

\* Each slot that is in the room in ds is there in cs under the same name.
SameOrGone(cs, ds) ==
    \A i \in Slots : ds[i].active /\ ds[i].joined =>
        cs[i].active /\ cs[i].joined /\ ds[i].username = cs[i].username

\* UniqueNames, of any table.
NamesOK(cs) ==
    \A i, j \in Slots : /\ cs[i].active /\ cs[i].joined
                        /\ cs[j].active /\ cs[j].joined
                        /\ cs[i].username = cs[j].username
                        => i = j

\* Departures keep names unique.
LEMMA NamesKept ==
  ASSUME NEW cs, NEW ds, NamesOK(cs), SameOrGone(cs, ds) PROVE NamesOK(ds)
  BY DEF NamesOK, SameOrGone

\* ns_server_broadcast admits and renames nobody.
LEMMA BroadcastSame ==
  ASSUME NEW cs, TableOK(cs), NEW p, NEW A, NEW F
  PROVE  SameOrGone(cs, Broadcast(cs, p, A, F))
<1> SUFFICES ASSUME NEW i \in Slots,
                    Broadcast(cs, p, A, F)[i].active, Broadcast(cs, p, A, F)[i].joined
             PROVE  /\ cs[i].active /\ cs[i].joined
                    /\ Broadcast(cs, p, A, F)[i].username = cs[i].username
  BY DEF SameOrGone
<1>1. cs[i] \in Client
  BY DEF TableOK, SlotOK
<1>2. CASE i \in F
  BY <1>2 DEF Broadcast, Free
<1>3. CASE i \notin F /\ i \in A
  <2>1. Broadcast(cs, p, A, F)[i] = Enqueue(cs[i], p)
    BY <1>3 DEF Broadcast
  <2> QED BY <1>1, <2>1, EnqueueSame
<1>4. CASE i \notin F /\ i \notin A
  BY <1>4 DEF Broadcast
<1> QED BY <1>2, <1>3, <1>4

\* Nor does ns_server_send_error.
LEMMA SendErrorSame ==
  ASSUME NEW cs, TableOK(cs), NEW i \in Slots, NEW fits
  PROVE  SameOrGone(cs, SendError(cs, i, fits))
<1>1. cs[i] \in Client
  BY DEF TableOK, SlotOK
<1>2. \A j \in Slots : [cs EXCEPT ![i] = Enqueue(cs[i], ErrorPacket)][j]
                         = IF j = i THEN Enqueue(cs[i], ErrorPacket) ELSE cs[j]
  BY DEF TableOK
<1> QED BY <1>1, <1>2, EnqueueSame DEF SameOrGone, SendError

\* Nor does ns_server_disconnect_client.
LEMMA DisconnectSame ==
  ASSUME NEW cs, TableOK(cs), NEW i \in Slots, NEW announce, NEW F
  PROVE  SameOrGone(cs, Disconnect(cs, i, announce, F))
<1> DEFINE bs == Broadcast(cs, LeaveNotice(cs[i]), LeaveAudience(cs, i, announce), F)
<1>1. SameOrGone(cs, bs)
  BY BroadcastSame
<1>2. bs = [j \in Slots |-> bs[j]]
  BY DEF Broadcast
<1> HIDE DEF bs
<1>3. \A j \in Slots : [bs EXCEPT ![i] = Free][j] = IF j = i THEN Free ELSE bs[j]
  BY <1>2
<1>4. ~Free.active
  BY DEF Free
<1> QED BY <1>1, <1>3, <1>4 DEF SameOrGone, Disconnect, bs

\* Nor the service of a readiness bit.
LEMMA ServedSame ==
  ASSUME SoundState, NEW i \in Slots, NEW b
  PROVE  SameOrGone(clients, Served(i, b))
<1>1. clients[i] \in Client /\ clients \in [Slots -> Client]
  BY DEF SoundState, TypeOK
<1> DEFINE d == [clients[i] EXCEPT !.revents = @ \ {b}]
<1>2. d.active = clients[i].active /\ d.joined = clients[i].joined
      /\ d.username = clients[i].username
  BY <1>1 DEF Client
<1>3. Served(i, b) = [clients EXCEPT ![i] = d]
  BY DEF Served
<1> HIDE DEF d
<1>4. \A j \in Slots : Served(i, b)[j] = IF j = i THEN d ELSE clients[j]
  BY <1>1, <1>3
<1> QED BY <1>2, <1>4 DEF SameOrGone

\* A disconnection as a step.
LEMMA DropSame ==
  ASSUME NEW cs, TableOK(cs), NEW i \in Slots, NEW announce, Drop(cs, i, announce)
  PROVE  SameOrGone(cs, clients')
  BY DisconnectSame DEF Drop, Settle

\* An ERROR and a disconnection.
LEMMA RefuseSame ==
  ASSUME SoundState, NEW i \in Slots, NEW types, Reading(i, types), Refuse(i)
  PROVE  SameOrGone(clients, clients')
<1>1. PICK fits : Drop(SendError(clients, i, fits), i, FALSE)
  BY DEF Refuse
<1>2. TableOK(SendError(clients, i, fits)) /\ SameOrGone(clients, SendError(clients, i, fits))
  BY ReadingOK, SendErrorOK, SendErrorSame DEF SoundState
<1>3. SameOrGone(SendError(clients, i, fits), clients')
  BY <1>1, <1>2, DropSame
<1> QED BY <1>2, <1>3 DEF SameOrGone

\* The loop up to the scan admits nobody.
LEMMA LoopSame ==
  ASSUME SoundState,
         \/ CheckShutdown \/ PollFails \/ Poll \/ ReapAuthTimeouts
         \/ AcceptClient \/ AcceptFails \/ AcceptFull \/ ScanDone
  PROVE  SameOrGone(clients, clients')
<1>1. clients \in [Slots -> Client]
  BY DEF SoundState, TypeOK
<1>2. ASSUME NEW code, Exit(code) PROVE SameOrGone(clients, clients')
  BY <1>2 DEF Exit, SameOrGone, Free
<1>3. ASSUME clients' = clients PROVE SameOrGone(clients, clients')
  BY <1>3 DEF SameOrGone
<1>4. CASE CheckShutdown
  BY <1>2, <1>3, <1>4 DEF CheckShutdown, serverVars
<1>5. CASE PollFails
  BY <1>2, <1>5 DEF PollFails
<1>6. CASE Poll
  <2>1. \A i \in Slots : \E r : clients'[i] = [clients[i] EXCEPT !.revents = r]
    BY <1>6 DEF Poll
  <2>2. ASSUME NEW c \in Client, NEW r
        PROVE  /\ [c EXCEPT !.revents = r].active = c.active
               /\ [c EXCEPT !.revents = r].joined = c.joined
               /\ [c EXCEPT !.revents = r].username = c.username
    BY DEF Client
  <2>3. ASSUME NEW i \in Slots
        PROVE  /\ clients'[i].active = clients[i].active
               /\ clients'[i].joined = clients[i].joined
               /\ clients'[i].username = clients[i].username
    <3>1. PICK r : clients'[i] = [clients[i] EXCEPT !.revents = r]
      BY <2>1
    <3>2. clients[i] \in Client
      BY <1>1
    <3> QED BY <3>1, <3>2, <2>2
  <2> QED BY <2>3 DEF SameOrGone
<1>7. CASE ReapAuthTimeouts
  BY <1>7 DEF ReapAuthTimeouts, Settle, SameOrGone, Free
<1>8. CASE AcceptClient
  <2>1. PICK c \in Conns, i \in Slots : clients' = [clients EXCEPT ![i] = Accepted(c)]
    BY <1>8 DEF AcceptClient
  <2>2. ~Accepted(c).joined
    BY DEF Accepted, Free
  <2> QED BY <1>1, <2>1, <2>2 DEF SameOrGone
<1>9. CASE AcceptFull
  BY <1>2, <1>3, <1>9 DEF AcceptFull, serverVars
<1>10. CASE AcceptFails \/ ScanDone
  BY <1>3, <1>10 DEF AcceptFails, ScanDone, serverVars
<1> QED BY <1>4, <1>5, <1>6, <1>7, <1>8, <1>9, <1>10

\* Draining a ring keeps the identity of its slot.
LEMMA DrainSendSame ==
  ASSUME SoundState, NEW i \in Slots, DrainSend(i) PROVE SameOrGone(clients, clients')
<1> DEFINE c == Served(i, "OUT")[i]
<1>1. c \in Client
  BY ServedOK DEF TableOK, SlotOK
<1>2. SameOrGone(clients, Served(i, "OUT"))
  BY ServedSame
<1> HIDE DEF c
<1>3. PICK d \in Drained(c) : clients' = [clients EXCEPT ![i] = UpdatePollEvents(d)]
  BY DEF DrainSend, c
<1>4. d \in Client /\ d.active = c.active
  BY <1>1, DrainedOK
<1>5. d.joined = c.joined /\ d.username = c.username
  BY <1>1, DrainedOK
<1> DEFINE e == UpdatePollEvents(d)
<1>6. e.active = d.active /\ e.joined = d.joined /\ e.username = d.username
  BY <1>4 DEF UpdatePollEvents, Client
<1> HIDE DEF e
<1>7. \A j \in Slots : clients'[j] = IF j = i THEN e ELSE clients[j]
  BY <1>3 DEF e, SoundState, TypeOK
<1> QED BY <1>2, <1>4, <1>5, <1>6, <1>7 DEF SameOrGone, c

\* The time a slot has been open is not part of its identity.
LEMMA TickSame == ASSUME SoundState, Tick PROVE SameOrGone(clients, clients')
<1>1. ASSUME NEW i \in Slots
      PROVE  [clients[i] EXCEPT !.age = clients[i].age + 1].joined = clients[i].joined
  BY DEF SoundState, TypeOK, Client
<1> QED BY <1>1 DEF Tick, SameOrGone

\* The service of a slot admits nobody, but for a JOIN that is accepted.
LEMMA ServeSame ==
  ASSUME SoundState, NEW i \in Slots, ServeSlot(i), ~JoinAccepted(i)
  PROVE  SameOrGone(clients, clients')
<1> USE DEF SoundState
<1>1. CASE DrainSend(i)
  BY <1>1, DrainSendSame
<1>2. CASE DrainBroken(i)
  BY <1>2, DropSame DEF DrainBroken, Exit, Free, SameOrGone
<1>3. CASE ReadClosed(i) \/ Leave(i) \/ HangUp(i)
  BY <1>3, DropSame DEF ReadClosed, Leave, HangUp
<1>4. CASE ReadError(i)
  BY <1>4, DropSame, ServedSame DEF ReadError, Keep
<1>5. CASE JoinRejected(i) \/ JoinFails(i) \/ TextUnjoined(i) \/ TextFails(i) \/ Unsupported(i)
  BY <1>5, RefuseSame DEF JoinRejected, JoinFails, TextUnjoined, TextFails, Unsupported
<1>6. CASE TextRefused(i)
  <2>1. PICK fits : clients' = SendError(Served(i, "IN"), i, fits)
    BY <1>6 DEF TextRefused, Keep
  <2>2. SameOrGone(clients, Served(i, "IN")) /\ SameOrGone(Served(i, "IN"), clients')
    BY <2>1, ServedOK, ServedSame, SendErrorSame
  <2> QED BY <2>2 DEF SameOrGone
<1>7. CASE TextAccepted(i)
  <2>1. SameOrGone(Served(i, "IN"), clients')
    BY <1>7, ServedOK, BroadcastSame DEF TextAccepted, Settle
  <2>2. SameOrGone(clients, Served(i, "IN"))
    BY ServedSame
  <2> QED BY <2>1, <2>2 DEF SameOrGone
<1> QED BY <1>1, <1>2, <1>3, <1>4, <1>5, <1>6, <1>7 DEF ServeSlot

\* A JOIN is accepted only under a name that nobody else in the room has.
LEMMA JoinKeepsNames ==
  ASSUME SoundState, NamesOK(clients), NEW i \in Slots, JoinAccepted(i)
  PROVE  NamesOK(clients')
<1> DEFINE name == ReadRequest(i).name
           us   == WithUser(name)
           id   == UserId(us, name)
           sl   == Served(i, "IN")
           j    == JoinedAs(sl[i], id, name)
           cs   == [sl EXCEPT ![i] = j]
<1>1. \E p, A, F : clients' = Broadcast(cs, p, A, F)
  BY DEF JoinAccepted, Settle
<1>2. TableOK(sl) /\ sl[i] \in Client /\ SameOrGone(clients, sl)
      /\ sl[i].active /\ sl[i].socket_fd \in Conns
  BY ServedOK, ServedSame, ReadingOK DEF TableOK, SlotOK, JoinAccepted
<1>3. /\ ReadRequest(i) \in Request /\ ReadRequest(i).type = "JOIN"
      /\ ~UsernameInUse(clients, name, i)
  BY ReadingOK DEF JoinAccepted, Reading, ReadRequest, JoinInvalid
<1>4. name \in Names /\ users \in Seq(Names) /\ messages \in Seq(Nat)
  BY <1>3 DEF Request, SoundState, TypeOK
<1>5. id \in Nat
  <2>1. us \in Seq(Names) /\ id \in DOMAIN us
    BY <1>4, WithUserOK
  <2> HIDE DEF us, id
  <2> QED BY <2>1
<1> HIDE DEF us, id, sl
<1>6. j.username = name
  BY <1>2, <1>4, <1>5, JoinedAsOK
<1>7. TableOK(cs)
  BY <1>2, <1>4, <1>5, JoinedAsOK, ReplaceOK
<1> HIDE DEF j
<1>8. \A k \in Slots : cs[k] = IF k = i THEN j ELSE sl[k]
  BY <1>2 DEF TableOK
<1> HIDE DEF cs, name
<1>9. NamesOK(cs)
  BY <1>2, <1>3, <1>6, <1>8 DEF NamesOK, SameOrGone, UsernameInUse
<1>10. SameOrGone(cs, clients')
  BY <1>1, <1>7, BroadcastSame
<1> QED BY <1>9, <1>10, NamesKept

\* No two connections are joined under one name at the same time, for any
\* number of slots and names and any order of joins, departures, evictions and
\* reuse of slots (server.c:352-366, 531).
THEOREM NamesUnique == Spec => []UniqueNames
<1>1. Init => NamesOK(clients)
  BY DEF Init, NamesOK, Free
<1>2. SoundState /\ NamesOK(clients) /\ [Next]_vars => NamesOK(clients)'
  <2> SUFFICES ASSUME SoundState, NamesOK(clients), [Next]_vars PROVE NamesOK(clients')
    BY DEF NamesOK
  <2>1. CASE \E i \in Slots : JoinAccepted(i)
    BY <2>1, JoinKeepsNames
  <2>2. CASE ServerStep /\ ~\E i \in Slots : JoinAccepted(i)
    BY <2>2, LoopSame, ServeSame, NamesKept DEF ServerStep
  <2>3. CASE Tick
    BY <2>3, TickSame, NamesKept
  <2>4. CASE clients' = clients
    BY <2>4
  <2>5. Environment => Tick \/ clients' = clients
    BY DEF Environment, Connect, SendRequest, PeerCloses, PeerResets, Signal
  <2>6. UNCHANGED vars => clients' = clients
    BY DEF vars, serverVars
  <2> QED BY <2>1, <2>2, <2>3, <2>4, <2>5, <2>6 DEF Next, Ended
<1>3. NamesOK(clients) => UniqueNames
  BY DEF NamesOK, UniqueNames, Joined
<1> QED BY <1>1, <1>2, <1>3, Soundness, PTL DEF Spec
=============================================================================

------------------------- MODULE ServerSessionProofs -------------------------
(***************************************************************************)
(* Theorems about the sessions of Server: what each client in the room is  *)
(* sent, under which identity and in which order, for every number of      *)
(* slots, connections, names and every bound.                              *)
(*                                                                         *)
(* Every step of Server is shown to have one of five shapes, of which a    *)
(* client can tell only that it was sent one packet, or was disconnected,  *)
(* or neither.  The invariants are then proved shape by shape.             *)
(***************************************************************************)
EXTENDS ServerProofs, SequenceTheorems

USE ServerAssumption

(***************************************************************************)
(* What a step may do to one slot.                                         *)
(***************************************************************************)
Room(cs) == {i \in Slots : cs[i].active /\ cs[i].joined}

\* Slot d is the session of slot c, carried on.
Continues(c, d) ==
    /\ c.active /\ d.active
    /\ d.socket_fd = c.socket_fd /\ d.joined = c.joined
    /\ d.user_id = c.user_id /\ d.username = c.username /\ d.since = c.since
    /\ d.sent >= c.sent
    /\ c.sent <= Len(c.stream) => d.sent <= Len(d.stream)
    /\ c.stream = <<>> /\ c.ring = "sound" => d.ring = "sound"

\* Slot d is free, or the session of c carried on, with p sent to it if told.
Hears(c, d, p, told) ==
    \/ d = Free
    \/ Continues(c, d) /\ d.stream = IF told THEN Append(c.stream, p) ELSE c.stream

\* From table cs to table ds, p was sent to the slots A.
Told(cs, ds, p, A) == \A i \in Slots : Hears(cs[i], ds[i], p, i \in A)

\* A slot that is not in use is in the state ns_server_reset_client leaves.
Tidy(cs) == \A i \in Slots : ~cs[i].active => cs[i] = Free

(***************************************************************************)
(* The five shapes of a step.                                              *)
(***************************************************************************)
Ack(id) == [type |-> "ACK", sender |-> id, row |-> 0]
JoinNotice(id) == [type |-> "JOIN", sender |-> id, row |-> 0]
TextOf(i) == [type |-> "TEXT", sender |-> clients[i].user_id, row |-> Len(messages) + 1]

\* Nothing is sent, or an ERROR to some; anyone may be disconnected.
Private ==
    /\ messages' = messages
    /\ \E A \in SUBSET Room(clients) : Told(clients, clients', ErrorPacket, A)

\* The departure of i is announced to everyone left in the room.
Departure ==
    /\ messages' = messages
    /\ \E i \in Room(clients) :
         /\ clients'[i] = Free
         /\ Told(clients, clients', LeaveNotice(clients[i]), Room(clients))

\* A message of i is stored and sent to everyone in the room.
Said ==
    \E i \in Room(clients) :
        /\ messages' = Append(messages, clients[i].user_id)
        /\ Told(clients, clients', TextOf(i), Room(clients))

\* A connection is accepted.
Arrived ==
    /\ messages' = messages
    /\ \E i \in Slots, c \in Conns :
         /\ ~clients[i].active
         /\ sock[c] = "backlog"
         /\ clients' = [clients EXCEPT ![i] = Accepted(c)]

\* Slot d is slot c, its connection joined as user id.
Enters(c, d, id, name) ==
    /\ c.active /\ ~c.joined
    /\ d.active /\ d.joined /\ d.socket_fd = c.socket_fd
    /\ d.user_id = id /\ d.username = name /\ d.since = Len(messages)
    /\ d.sent = c.sent
    /\ d.stream = <<Ack(id), JoinNotice(id)>>

\* Slot i joins as user id: it is sent its ACK, everyone the notice.
EnteredAs(i, id, name) ==
    /\ ~UsernameInUse(clients, name, i)
    /\ Enters(clients[i], clients'[i], id, name)
    /\ \A j \in Slots \ {i} :
         Hears(clients[j], clients'[j], JoinNotice(id), j \in Room(clients))

Entered ==
    /\ messages' = messages
    /\ \E i \in Slots, name \in Names :
         /\ users' = WithUser(name)
         /\ EnteredAs(i, UserId(users', name), name)

\* The shapes that open no connection.
Quiet == Private \/ Departure \/ Said \/ Entered

Shape == Quiet \/ Arrived

(***************************************************************************)
(* The inductive invariant beside SoundState: unused slots are reset, and  *)
(* every session began as SessionStartsClean says.  That the ring of a     *)
(* connection that has not joined is sound and empty is what makes room    *)
(* for its ACK and its own JOIN notice.                                    *)
(***************************************************************************)
CleanSlot(c, us) ==
    c.active =>
        /\ c.sent <= Len(c.stream)
        /\ IF c.joined
           THEN /\ c.user_id \in DOMAIN us /\ us[c.user_id] = c.username
                /\ Len(c.stream) >= 2
                /\ c.stream[1] = Ack(c.user_id)
                /\ c.stream[2] = JoinNotice(c.user_id)
           ELSE c.stream = <<>> /\ c.ring = "sound"

SessionInv ==
    /\ SoundState
    /\ Tidy(clients)
    /\ \A i \in Slots : CleanSlot(clients[i], users)
-----------------------------------------------------------------------------
(* What the operations on the table do, told so.                            *)

\* A free slot is nobody's.
LEMMA FreeFields ==
    /\ ~Free.active /\ ~Free.joined /\ Free.socket_fd = NoConn
    /\ Free.stream = <<>> /\ Free.sent = 0 /\ Free.ring = "sound"
  BY DEF Free

\* ns_server_enqueue_packet adds one packet to a session.
LEMMA EnqueueHeard ==
  ASSUME NEW c \in Client, c.active, NEW p
  PROVE  Continues(c, Enqueue(c, p)) /\ Enqueue(c, p).stream = Append(c.stream, p)
  BY DEF Enqueue, UpdatePollEvents, Client, Continues

\* A session that nothing happens to carries on.
LEMMA ContinuesSelf ==
  ASSUME NEW c \in Client, c.active PROVE Continues(c, c)
  BY DEF Client, Continues

\* Nothing sent in a first step and p in a second is p sent in both.
LEMMA HearsLater ==
  ASSUME NEW c \in Client, NEW d \in Client, NEW e \in Client, NEW p, NEW q,
         NEW i, NEW A, Hears(c, d, p, i \in {}), Hears(d, e, q, i \in A)
  PROVE  Hears(c, e, q, i \in A)
<1>1. CASE e = Free
  BY <1>1 DEF Hears
<1>2. CASE e # Free
  <2>1. d.active
    BY <1>2 DEF Hears, Continues
  <2>2. d # Free
    BY <2>1, FreeFields
  <2>3. Continues(c, d) /\ d.stream = c.stream
    BY <2>2 DEF Hears
  <2>4. Continues(d, e) /\ e.stream = IF i \in A THEN Append(d.stream, q) ELSE d.stream
    BY <1>2 DEF Hears
  <2>5. Continues(c, e)
    BY <2>3, <2>4 DEF Continues, Client
  <2> QED BY <2>3, <2>4, <2>5 DEF Hears
<1> QED BY <1>1, <1>2

\* The same for tables, where B says of the first table whom A names in the second.
LEMMA ToldLater ==
  ASSUME NEW cs, NEW ds, NEW es, TableOK(cs), TableOK(ds), TableOK(es),
         NEW p, NEW q, NEW A, NEW B,
         \A i \in Slots : ds[i].active => (i \in A <=> i \in B),
         Told(cs, ds, p, {}), Told(ds, es, q, A)
  PROVE  Told(cs, es, q, B)
<1> SUFFICES ASSUME NEW i \in Slots PROVE Hears(cs[i], es[i], q, i \in B)
  BY DEF Told
<1>1. cs[i] \in Client /\ ds[i] \in Client /\ es[i] \in Client
  BY DEF TableOK, SlotOK
<1>2. Hears(cs[i], ds[i], p, i \in {}) /\ Hears(ds[i], es[i], q, i \in A)
  BY DEF Told
<1>3. Hears(cs[i], es[i], q, i \in A)
  BY <1>1, <1>2, HearsLater
<1>4. CASE es[i] = Free
  BY <1>4 DEF Hears
<1>5. CASE es[i] # Free
  <2>1. ds[i].active
    BY <1>2, <1>5 DEF Hears, Continues
  <2> QED BY <1>3, <2>1 DEF Hears
<1> QED BY <1>4, <1>5

\* ns_server_broadcast sends p to all it serves but those it disconnects.
LEMMA BroadcastTold ==
  ASSUME NEW cs, TableOK(cs), Tidy(cs), NEW p, NEW F,
         NEW A, \A i \in A \cap Slots : cs[i].active
  PROVE  Told(cs, Broadcast(cs, p, A, F), p, A)
<1> SUFFICES ASSUME NEW i \in Slots PROVE Hears(cs[i], Broadcast(cs, p, A, F)[i], p, i \in A)
  BY DEF Told
<1>1. cs[i] \in Client
  BY DEF TableOK, SlotOK
<1>2. CASE i \in F
  BY <1>2 DEF Broadcast, Hears
<1>3. CASE i \notin F /\ i \in A
  <2>1. Broadcast(cs, p, A, F)[i] = Enqueue(cs[i], p)
    BY <1>3 DEF Broadcast
  <2> QED BY <1>1, <1>3, <2>1, EnqueueHeard DEF Hears
<1>4. CASE i \notin F /\ i \notin A
  <2>1. Broadcast(cs, p, A, F)[i] = cs[i]
    BY <1>4 DEF Broadcast
  <2>2. CASE cs[i].active
    BY <1>1, <1>4, <2>1, <2>2, ContinuesSelf DEF Hears
  <2>3. CASE ~cs[i].active
    BY <2>1, <2>3 DEF Tidy, Hears
  <2> QED BY <2>2, <2>3
<1> QED BY <1>2, <1>3, <1>4

\* ns_server_send_error answers one client, or no one when its ring is full.
LEMMA SendErrorTold ==
  ASSUME NEW cs, TableOK(cs), Tidy(cs), NEW i \in Slots, cs[i].active, NEW fits
  PROVE  \E A \in SUBSET {i} : Told(cs, SendError(cs, i, fits), ErrorPacket, A)
<1>1. \A j \in Slots : cs[j] \in Client
  BY DEF TableOK, SlotOK
<1>2. ASSUME NEW j \in Slots PROVE Hears(cs[j], cs[j], ErrorPacket, j \in {})
  BY <1>1, ContinuesSelf DEF Hears, Tidy
<1>3. CASE fits
  <2>1. \A j \in Slots : SendError(cs, i, fits)[j]
                           = IF j = i THEN Enqueue(cs[i], ErrorPacket) ELSE cs[j]
    BY <1>3 DEF SendError, TableOK
  <2>2. Hears(cs[i], Enqueue(cs[i], ErrorPacket), ErrorPacket, TRUE)
    BY <1>1, EnqueueHeard DEF Hears
  <2>3. ASSUME NEW j \in Slots, j # i
        PROVE  Hears(cs[j], SendError(cs, i, fits)[j], ErrorPacket, j \in {i})
    BY <1>2, <2>1, <2>3 DEF Hears
  <2>4. Hears(cs[i], SendError(cs, i, fits)[i], ErrorPacket, i \in {i})
    BY <2>1, <2>2 DEF Hears
  <2>5. Told(cs, SendError(cs, i, fits), ErrorPacket, {i})
    BY <2>3, <2>4 DEF Told
  <2> QED BY <2>5
<1>4. CASE ~fits
  <2>1. Told(cs, SendError(cs, i, fits), ErrorPacket, {})
    BY <1>2, <1>4 DEF Told, SendError
  <2> QED BY <2>1
<1> QED BY <1>3, <1>4

\* ns_server_disconnect_client frees the slot, and tells the room if asked to.
LEMMA DisconnectTold ==
  ASSUME NEW cs, TableOK(cs), Tidy(cs), NEW i \in Slots, NEW announce \in BOOLEAN, NEW F
  PROVE  LET ds == Disconnect(cs, i, announce, F)
         IN  /\ ds[i] = Free
             /\ announce /\ cs[i].joined => Told(cs, ds, LeaveNotice(cs[i]), Room(cs))
             /\ ~(announce /\ cs[i].joined) => Told(cs, ds, ErrorPacket, {})
<1> DEFINE p  == LeaveNotice(cs[i])
           A  == LeaveAudience(cs, i, announce)
           bs == Broadcast(cs, p, A, F)
           ds == Disconnect(cs, i, announce, F)
<1>1. \A j \in A \cap Slots : cs[j].active
  BY DEF LeaveAudience, Audience
<1>2. Told(cs, bs, p, A)
  BY <1>1, BroadcastTold
<1>3. \A j \in Slots : ds[j] = IF j = i THEN Free ELSE bs[j]
  BY DEF Disconnect, Broadcast
<1>4. ASSUME announce, cs[i].joined PROVE \A j \in Slots \ {i} : j \in A <=> j \in Room(cs)
  BY <1>4 DEF LeaveAudience, Audience, Room
<1>5. ASSUME ~(announce /\ cs[i].joined) PROVE A = {}
  BY <1>5 DEF LeaveAudience
<1> HIDE DEF A, bs, ds
<1>6. ASSUME announce, cs[i].joined PROVE Told(cs, ds, p, Room(cs))
  <2> SUFFICES ASSUME NEW j \in Slots PROVE Hears(cs[j], ds[j], p, j \in Room(cs))
    BY DEF Told
  <2>1. CASE j = i
    BY <1>3, <2>1 DEF Hears
  <2>2. CASE j # i
    <3>1. Hears(cs[j], ds[j], p, j \in A)
      BY <1>2, <1>3, <2>2 DEF Told
    <3> QED BY <1>4, <1>6, <2>2, <3>1 DEF Hears
  <2> QED BY <2>1, <2>2
<1>7. ASSUME ~(announce /\ cs[i].joined) PROVE Told(cs, ds, ErrorPacket, {})
  <2> SUFFICES ASSUME NEW j \in Slots PROVE Hears(cs[j], ds[j], ErrorPacket, j \in {})
    BY DEF Told
  <2>1. CASE j = i
    BY <1>3, <2>1 DEF Hears
  <2>2. CASE j # i
    <3>1. Hears(cs[j], ds[j], p, j \in {})
      BY <1>2, <1>3, <1>5, <1>7, <2>2 DEF Told
    <3> QED BY <3>1 DEF Hears
  <2> QED BY <2>1, <2>2
<1> QED BY <1>3, <1>6, <1>7 DEF ds
-----------------------------------------------------------------------------
(* Every step has a shape.                                                  *)

\* A step that leaves a slot alone.
LEMMA SameSlot ==
  ASSUME SessionInv, NEW i \in Slots, NEW p PROVE Hears(clients[i], clients[i], p, i \in {})
  BY ContinuesSelf DEF SessionInv, SoundState, TableOK, SlotOK, Tidy, Hears

\* A table that nobody was sent anything from.
LEMMA QuietShape ==
  ASSUME NEW p, Told(clients, clients', p, {}), messages' = messages PROVE Private
<1>1. Told(clients, clients', ErrorPacket, {})
  BY DEF Told, Hears
<1> QED BY <1>1 DEF Private

\* The end of the process.
LEMMA ExitShape == ASSUME NEW code, Exit(code) PROVE Private
<1>1. Told(clients, clients', ErrorPacket, {})
  BY DEF Exit, Told, Hears
<1> QED BY <1>1, QuietShape DEF Exit, dbVars

\* A step that leaves the table alone.
LEMMA IdleShape ==
  ASSUME SessionInv, clients' = clients, messages' = messages PROVE Private
<1>1. Told(clients, clients', ErrorPacket, {})
  BY SameSlot DEF Told
<1> QED BY <1>1, QuietShape

\* The service of a readiness bit sends nothing.
LEMMA ServedTold ==
  ASSUME SessionInv, NEW i \in Slots, clients[i].active, NEW b, NEW p
  PROVE  Told(clients, Served(i, b), p, {})
<1>1. clients[i] \in Client /\ clients \in [Slots -> Client]
  BY DEF SessionInv, SoundState, TypeOK
<1> DEFINE d == [clients[i] EXCEPT !.revents = @ \ {b}]
<1>2. Continues(clients[i], d) /\ d.stream = clients[i].stream
  BY <1>1 DEF Client, Continues
<1>3. Served(i, b) = [clients EXCEPT ![i] = d]
  BY DEF Served
<1> HIDE DEF d
<1>4. \A j \in Slots : Served(i, b)[j] = IF j = i THEN d ELSE clients[j]
  BY <1>1, <1>3
<1> SUFFICES ASSUME NEW j \in Slots PROVE Hears(clients[j], Served(i, b)[j], p, j \in {})
  BY DEF Told
<1>5. CASE j = i
  BY <1>2, <1>4, <1>5 DEF Hears
<1>6. CASE j # i
  BY <1>4, <1>6, SameSlot
<1> QED BY <1>5, <1>6

\* A table that was told of something is tidy.
LEMMA TidyKept ==
  ASSUME NEW cs, NEW ds, NEW p, NEW A, Told(cs, ds, p, A) PROVE Tidy(ds)
  BY DEF Told, Hears, Continues, Tidy

\* poll() returning changes no session.
LEMMA PollShape == ASSUME SessionInv, Poll PROVE Private
<1>1. PICK W \in SUBSET {i \in Slots : "OUT" \in clients[i].events} :
        clients' = [i \in Slots |->
                      [clients[i] EXCEPT !.revents = Readiness(clients[i], i \in W)]]
  BY DEF Poll
<1>2. ASSUME NEW i \in Slots PROVE Hears(clients[i], clients'[i], ErrorPacket, i \in {})
  <2> DEFINE r == Readiness(clients[i], i \in W)
  <2>1. clients'[i] = [clients[i] EXCEPT !.revents = r]
    BY <1>1
  <2>2. clients[i] \in Client
    BY DEF SessionInv, SoundState, TypeOK
  <2>3. ~clients[i].active => r = {} /\ clients[i] = Free
    BY DEF Readiness, SessionInv, Tidy
  <2> HIDE DEF r
  <2>4. CASE clients[i].active
    BY <2>1, <2>2, <2>4 DEF Hears, Continues, Client
  <2>5. CASE ~clients[i].active
    <3>1. clients[i].revents = {}
      BY <2>3, <2>5 DEF Free
    <3>2. [clients[i] EXCEPT !.revents = {}] = clients[i]
      BY <2>2, <3>1 DEF Client
    <3> QED BY <2>1, <2>3, <2>5, <3>2 DEF Hears
  <2> QED BY <2>4, <2>5
<1>3. Told(clients, clients', ErrorPacket, {})
  BY <1>2 DEF Told
<1> QED BY <1>3, QuietShape DEF Poll, dbVars

\* ns_server_reap_auth_timeouts frees slots and sends nothing.
LEMMA ReapShape == ASSUME SessionInv, ReapAuthTimeouts PROVE Private
<1>1. clients' = [i \in Slots |-> IF Expired(clients[i]) THEN Free ELSE clients[i]]
  BY DEF ReapAuthTimeouts, Settle
<1>2. \A i \in Slots : clients'[i] = Free \/ clients'[i] = clients[i]
  BY <1>1
<1>3. Told(clients, clients', ErrorPacket, {})
  <2> SUFFICES ASSUME NEW i \in Slots
               PROVE  Hears(clients[i], clients'[i], ErrorPacket, i \in {})
    BY DEF Told
  <2>1. CASE clients'[i] = Free
    BY <2>1 DEF Hears
  <2>2. CASE clients'[i] = clients[i]
    BY <2>2, SameSlot
  <2> QED BY <1>2, <2>1, <2>2
<1> QED BY <1>3, QuietShape DEF ReapAuthTimeouts, dbVars

\* A second that passes changes no session.
LEMMA TickShape == ASSUME SessionInv, Tick PROVE Private
<1>1. ASSUME NEW i \in Slots PROVE Hears(clients[i], clients'[i], ErrorPacket, i \in {})
  <2>1. clients[i] \in Client
    BY DEF SessionInv, SoundState, TypeOK
  <2>2. CASE clients'[i] = clients[i]
    BY <2>2, SameSlot
  <2>3. CASE clients[i].active /\ clients'[i] = [clients[i] EXCEPT !.age = clients[i].age + 1]
    BY <2>1, <2>3 DEF Hears, Continues, Client
  <2> QED BY <2>2, <2>3 DEF Tick
<1>2. Told(clients, clients', ErrorPacket, {})
  BY <1>1 DEF Told
<1> QED BY <1>2, QuietShape DEF Tick, envFrame, dbVars

\* The loop up to the scan.
LEMMA LoopShape ==
  ASSUME SessionInv,
         \/ CheckShutdown \/ PollFails \/ Poll \/ ReapAuthTimeouts
         \/ AcceptClient \/ AcceptFails \/ AcceptFull \/ ScanDone
  PROVE  Private \/ Arrived
<1>1. CASE CheckShutdown
  BY <1>1, ExitShape, IdleShape DEF CheckShutdown, serverVars, dbVars
<1>2. CASE PollFails
  BY <1>2, ExitShape DEF PollFails
<1>3. CASE Poll
  BY <1>3, PollShape
<1>4. CASE ReapAuthTimeouts
  BY <1>4, ReapShape
<1>5. CASE AcceptClient
  BY <1>5 DEF AcceptClient, Arrived, IsFreeSlot, dbVars
<1>6. CASE AcceptFull
  BY <1>6, ExitShape, IdleShape DEF AcceptFull, serverVars, dbVars
<1>7. CASE AcceptFails \/ ScanDone
  BY <1>7, IdleShape DEF AcceptFails, ScanDone, serverVars, dbVars
<1> QED BY <1>1, <1>2, <1>3, <1>4, <1>5, <1>6, <1>7

\* A disconnection is announced to the room, or goes unnoticed.
LEMMA DropShape ==
  ASSUME SessionInv, NEW i \in Slots, clients[i].active, NEW announce \in BOOLEAN,
         Drop(clients, i, announce), messages' = messages
  PROVE  Private \/ Departure
<1>1. PICK F : clients' = Disconnect(clients, i, announce, F)
  BY DEF Drop, Settle
<1>2. TableOK(clients) /\ Tidy(clients)
  BY DEF SessionInv, SoundState
<1>3. CASE announce /\ clients[i].joined
  <2>1. clients'[i] = Free /\ Told(clients, clients', LeaveNotice(clients[i]), Room(clients))
    BY <1>1, <1>2, <1>3, DisconnectTold
  <2>2. i \in Room(clients)
    BY <1>3 DEF Room
  <2> QED BY <2>1, <2>2 DEF Departure
<1>4. CASE ~(announce /\ clients[i].joined)
  <2>1. Told(clients, clients', ErrorPacket, {})
    BY <1>1, <1>2, <1>4, DisconnectTold
  <2> QED BY <2>1, QuietShape
<1> QED BY <1>3, <1>4

\* An ERROR followed by a disconnection reaches nobody: the ring is cleared.
LEMMA RefuseShape ==
  ASSUME SessionInv, NEW i \in Slots, NEW types, Reading(i, types), Refuse(i),
         messages' = messages
  PROVE  Private
<1>1. PICK fits, F : clients' = Disconnect(SendError(clients, i, fits), i, FALSE, F)
                     /\ F \in Refusals(SendError(clients, i, fits), {})
  BY DEF Refuse, Drop, Settle, LeaveAudience
<1>2. F = {}
  BY <1>1 DEF Refusals
<1>3. ASSUME NEW j \in Slots PROVE clients'[j] = IF j = i THEN Free ELSE clients[j]
  <2>1. SendError(clients, i, fits)[j] = clients[j] \/ j = i
    BY DEF SendError, SessionInv, SoundState, TypeOK
  <2>2. clients'[j] = IF j = i THEN Free ELSE SendError(clients, i, fits)[j]
    BY <1>1, <1>2 DEF Disconnect, Broadcast, LeaveAudience
  <2> QED BY <2>1, <2>2
<1>4. Told(clients, clients', ErrorPacket, {})
  <2> SUFFICES ASSUME NEW j \in Slots
               PROVE  Hears(clients[j], clients'[j], ErrorPacket, j \in {})
    BY DEF Told
  <2>1. CASE j = i
    BY <1>3, <2>1 DEF Hears
  <2>2. CASE j # i
    BY <1>3, <2>2, SameSlot
  <2> QED BY <2>1, <2>2
<1> QED BY <1>4, QuietShape

\* What ns_client_drain_send leaves is the session it found.
LEMMA DrainedContinues ==
  ASSUME NEW c \in Client, c.active, c.sent <= Len(c.stream), NEW d \in Drained(c)
  PROVE  Continues(c, d) /\ d.stream = c.stream
<1>1. CASE \E n \in c.sent..Len(c.stream) : d = [c EXCEPT !.sent = n]
  <2>1. PICK n \in c.sent..Len(c.stream) : d = [c EXCEPT !.sent = n]
    BY <1>1
  <2>2. n \in Nat /\ n >= c.sent
    BY DEF Client
  <2> QED BY <2>1, <2>2 DEF Client, Continues
<1>2. CASE /\ c.ring = "sound" /\ Len(c.stream) > 1
           /\ d = [c EXCEPT !.sent = Len(c.stream), !.ring = "stale"]
  <2> DEFINE e == [c EXCEPT !.sent = Len(c.stream)]
  <2>1. Len(c.stream) \in Nat /\ c.sent \in Nat
    BY DEF Client
  <2>2. c.stream # <<>>
    BY <1>2
  <2>3. e \in Client /\ Continues(c, e) /\ e.stream = c.stream
    <3>1. e \in Client
      BY <2>1 DEF Client
    <3>2. /\ e.active = c.active /\ e.socket_fd = c.socket_fd /\ e.joined = c.joined
          /\ e.user_id = c.user_id /\ e.username = c.username /\ e.since = c.since
          /\ e.stream = c.stream /\ e.ring = c.ring /\ e.sent = Len(c.stream)
      BY DEF Client
    <3> HIDE DEF e
    <3> QED BY <2>1, <3>1, <3>2 DEF Continues
  <2>4. d = [e EXCEPT !.ring = "stale"]
    BY <1>2, Zenon
  <2> HIDE DEF e
  <2>5. /\ d.active = e.active /\ d.socket_fd = e.socket_fd /\ d.joined = e.joined
        /\ d.user_id = e.user_id /\ d.username = e.username /\ d.since = e.since
        /\ d.sent = e.sent /\ d.stream = e.stream
    BY <2>3, <2>4 DEF Client
  <2> QED BY <2>2, <2>3, <2>5 DEF Continues
<1>3. CASE c.ring # "sound" /\ \E r \in {"stale", "garbled"} : d = [c EXCEPT !.ring = r]
  BY <1>3 DEF Client, Continues
<1> QED BY <1>1, <1>2, <1>3 DEF Drained

\* A session that is carried on keeps carrying on.
LEMMA ContinuesAfter ==
  ASSUME NEW c \in Client, NEW d \in Client, NEW e \in Client,
         Continues(c, d), d.stream = c.stream, Continues(d, e), e.stream = d.stream
  PROVE  Continues(c, e)
  BY DEF Client, Continues

\* POLLOUT served while send() works.
LEMMA DrainSendShape ==
  ASSUME SessionInv, NEW i \in Slots, DrainSend(i) PROVE Private
<1> DEFINE b == Served(i, "OUT")[i]
<1>1. clients[i].active /\ clients[i] \in Client
  BY DEF DrainSend, Turn, Waiting, SessionInv, SoundState, TypeOK
<1>2. b \in Client /\ b.active
  BY <1>1, ServedOK DEF TableOK, SlotOK, SessionInv
<1>3. Continues(clients[i], b) /\ b.stream = clients[i].stream
  <2>1. Told(clients, Served(i, "OUT"), ErrorPacket, {})
    BY <1>1, ServedTold
  <2>2. b # Free
    BY <1>2, FreeFields
  <2> QED BY <2>1, <2>2 DEF Told, Hears
<1>4. b.sent <= Len(b.stream)
  BY <1>1, <1>3 DEF SessionInv, CleanSlot, Continues
<1> HIDE DEF b
<1>5. PICK d \in Drained(b) : clients' = [clients EXCEPT ![i] = UpdatePollEvents(d)]
  BY DEF DrainSend, b
<1>6. d \in Client /\ Continues(b, d) /\ d.stream = b.stream
  BY <1>2, <1>4, DrainedOK, DrainedContinues
<1> DEFINE e == UpdatePollEvents(d)
<1>7. e \in Client /\ Continues(d, e) /\ e.stream = d.stream
  <2> DEFINE v == IF Pending(d) THEN {"IN", "OUT"} ELSE {"IN"}
  <2>1. e = [d EXCEPT !.events = v] /\ v \in SUBSET {"IN", "OUT"}
    BY DEF UpdatePollEvents
  <2> HIDE DEF e, v
  <2>2. e \in Client /\ e.stream = d.stream
    BY <1>6, <2>1 DEF Client
  <2>3. e.sent = d.sent /\ e.sent \in Nat /\ d.active
    BY <1>6, <2>1 DEF Client, Continues
  <2>4. /\ e.active = d.active /\ e.socket_fd = d.socket_fd /\ e.joined = d.joined
        /\ e.user_id = d.user_id /\ e.username = d.username /\ e.since = d.since
        /\ e.ring = d.ring
    BY <1>6, <2>1 DEF Client
  <2> QED BY <2>2, <2>3, <2>4 DEF Continues
<1> HIDE DEF e
<1>8. Continues(clients[i], e) /\ e.stream = clients[i].stream
  BY <1>1, <1>2, <1>3, <1>6, <1>7, ContinuesAfter
<1>9. \A j \in Slots : clients'[j] = IF j = i THEN e ELSE clients[j]
  BY <1>5 DEF e, SessionInv, SoundState, TypeOK
<1>10. Told(clients, clients', ErrorPacket, {})
  <2> SUFFICES ASSUME NEW j \in Slots
               PROVE  Hears(clients[j], clients'[j], ErrorPacket, j \in {})
    BY DEF Told
  <2>1. CASE j = i
    BY <1>8, <1>9, <2>1 DEF Hears
  <2>2. CASE j # i
    BY <1>9, <2>2, SameSlot
  <2> QED BY <2>1, <2>2
<1> QED BY <1>10, QuietShape DEF DrainSend, dbVars

\* An empty or too long TEXT is answered, and changes nothing else.
LEMMA TextRefusedShape ==
  ASSUME SessionInv, NEW i \in Slots, TextRefused(i) PROVE Private
<1> DEFINE sl == Served(i, "IN")
<1>1. clients[i].active /\ clients[i].joined /\ SoundState
  BY DEF TextRefused, Reading, Turn, Waiting, SessionInv
<1>2. PICK fits : clients' = SendError(sl, i, fits)
  BY DEF TextRefused, Keep
<1>3. Told(clients, sl, ErrorPacket, {}) /\ TableOK(sl) /\ sl[i].active /\ TableOK(clients)
  BY <1>1, ServedTold, ServedOK DEF SoundState
<1> HIDE DEF sl
<1>4. Tidy(sl)
  BY <1>3, TidyKept
<1>5. PICK A \in SUBSET {i} : Told(sl, clients', ErrorPacket, A)
  BY <1>2, <1>3, <1>4, SendErrorTold
<1>6. TableOK(clients')
  BY <1>2, <1>3, SendErrorOK
<1>7. Told(clients, clients', ErrorPacket, A)
  BY <1>3, <1>5, <1>6, ToldLater
<1>8. A \in SUBSET Room(clients)
  BY <1>1, <1>5 DEF Room
<1> QED BY <1>7, <1>8 DEF Private, TextRefused, dbVars

\* A TEXT that is stored is sent to everyone in the room.
LEMMA TextAcceptedShape ==
  ASSUME SessionInv, NEW i \in Slots, TextAccepted(i) PROVE Said
<1> DEFINE sl == Served(i, "IN")
           A  == Audience(sl, -1)
<1>1. clients[i].active /\ clients[i].joined /\ SoundState
  BY DEF TextAccepted, Reading, Turn, Waiting, SessionInv
<1>2. PICK F : clients' = Broadcast(sl, TextOf(i), A, F)
  BY DEF TextAccepted, Settle, TextOf
<1>3. Told(clients, sl, TextOf(i), {}) /\ TableOK(sl) /\ TableOK(clients)
  BY <1>1, ServedTold, ServedOK DEF SoundState
<1>4. TextOf(i) \in Packet
  BY <1>1 DEF TextOf, Packet, SoundState, TypeOK, Client
<1>5. \A j \in A \cap Slots : sl[j].active
  BY DEF Audience
<1>6. \A j \in Slots : sl[j].active => (j \in A <=> j \in Room(clients))
  <2> SUFFICES ASSUME NEW j \in Slots, sl[j].active PROVE j \in A <=> j \in Room(clients)
    OBVIOUS
  <2>1. Continues(clients[j], sl[j])
    BY <1>3, FreeFields DEF Told, Hears
  <2>2. j # -1
    BY DEF Slots
  <2> QED BY <2>1, <2>2 DEF Continues, Audience, Room
<1> HIDE DEF sl, A
<1>7. Tidy(sl)
  BY <1>3, TidyKept
<1>8. Told(sl, clients', TextOf(i), A) /\ TableOK(clients')
  BY <1>2, <1>3, <1>4, <1>5, <1>7, BroadcastTold, BroadcastOK
<1>9. Told(clients, clients', TextOf(i), Room(clients))
  BY <1>3, <1>6, <1>8, ToldLater
<1>10. i \in Room(clients) /\ messages' = Append(messages, clients[i].user_id)
  BY <1>1 DEF Room, TextAccepted
<1> QED BY <1>9, <1>10 DEF Said

\* The slot that joins: who it is, and its ACK the only packet in its ring.
LEMMA JoinedAsHeard ==
  ASSUME messages \in Seq(Nat), NEW c \in Client, c.active, c.socket_fd \in Conns,
         c.stream = <<>>, c.ring = "sound", NEW id \in Nat, NEW name \in Names
  PROVE  LET d == JoinedAs(c, id, name)
         IN  /\ d \in Client /\ d.active /\ d.joined /\ d.socket_fd = c.socket_fd
             /\ d.user_id = id /\ d.username = name /\ d.since = Len(messages)
             /\ d.sent = c.sent /\ d.stream = <<Ack(id)>> /\ d.ring = "sound"
<1> DEFINE c1 == [c EXCEPT !.joined = TRUE]
           c2 == [c1 EXCEPT !.user_id = id]
           c3 == [c2 EXCEPT !.username = name]
           c4 == [c3 EXCEPT !.age = 0]
           c5 == [c4 EXCEPT !.since = Len(messages)]
           Kept(d) == /\ d \in Client /\ d.active /\ d.joined
                      /\ d.socket_fd = c.socket_fd /\ d.sent = c.sent
                      /\ d.stream = <<>> /\ d.ring = "sound"
<1>1. [c EXCEPT !.joined = TRUE, !.user_id = id, !.username = name,
                !.age = 0, !.since = Len(messages)] = c5
  BY Zenon
<1>2. Kept(c1)
  BY DEF Client
<1> HIDE DEF c1
<1>3. Kept(c2) /\ c2.user_id = id
  BY <1>2 DEF Client
<1> HIDE DEF c2
<1>4. Kept(c3) /\ c3.user_id = id /\ c3.username = name
  BY <1>3 DEF Client
<1> HIDE DEF c3
<1>5. Kept(c4) /\ c4.user_id = id /\ c4.username = name
  <2>1. 0 \in 0..NS_AUTH_TIMEOUT_SECS
    OBVIOUS
  <2> QED BY <1>4, <2>1 DEF Client
<1> HIDE DEF c4
<1>6. Kept(c5) /\ c5.user_id = id /\ c5.username = name /\ c5.since = Len(messages)
  <2>1. Len(messages) \in Nat
    OBVIOUS
  <2> QED BY <1>5, <2>1 DEF Client
<1> HIDE DEF c5
<1>7. JoinedAs(c, id, name) = Enqueue(c5, Ack(id))
  BY <1>1 DEF JoinedAs, Ack
<1>8. Continues(c5, Enqueue(c5, Ack(id))) /\ Enqueue(c5, Ack(id)).stream = <<Ack(id)>>
  <2>1. Append(<<>>, Ack(id)) = <<Ack(id)>>
    OBVIOUS
  <2> QED BY <1>6, <2>1, EnqueueHeard
<1>9. Enqueue(c5, Ack(id)).sent = c5.sent
  BY <1>6 DEF Enqueue, UpdatePollEvents, Client
<1>10. Enqueue(c5, Ack(id)) \in Client
  <2>1. Ack(id) \in Packet
    BY DEF Ack, Packet
  <2> QED BY <1>6, <2>1, EnqueueOK DEF SlotOK
<1> QED BY <1>6, <1>7, <1>8, <1>9, <1>10 DEF Continues

\* The second of two packets.
LEMMA Pair ==
  ASSUME NEW a \in Packet, NEW b \in Packet PROVE Append(<<a>>, b) = <<a, b>>
<1> DEFINE s == Append(<<a>>, b)
           t == <<a, b>>
<1>1. s \in Seq(Packet) /\ t \in Seq(Packet)
  OBVIOUS
<1>2. Len(s) = 2 /\ s[1] = a /\ s[2] = b
  OBVIOUS
<1>3. Len(t) = 2 /\ t[1] = a /\ t[2] = b
  OBVIOUS
<1> HIDE DEF s, t
<1>4. Len(s) = Len(t)
  BY <1>2, <1>3
<1>5. \A k \in 1..Len(s) : s[k] = t[k]
  BY <1>2, <1>3
<1>6. s = t
  BY <1>1, <1>4, <1>5, SeqEqual
<1> QED BY <1>6 DEF s, t

\* A JOIN that is accepted: the ring of the joiner has room for its ACK and its
\* own notice, so that it enters with both and is not among the evicted.
LEMMA JoinAcceptedShape ==
  ASSUME SessionInv, NEW i \in Slots, JoinAccepted(i) PROVE Entered
<1> DEFINE name == ReadRequest(i).name
           us   == WithUser(name)
           id   == UserId(us, name)
           p    == JoinNotice(id)
           sl   == Served(i, "IN")
           d    == JoinedAs(sl[i], id, name)
           cs   == [sl EXCEPT ![i] = d]
           A    == Audience(cs, -1)
<1>1. /\ ReadRequest(i) \in Request /\ ReadRequest(i).type = "JOIN"
      /\ SoundState /\ clients[i].active
  BY ReadingOK DEF JoinAccepted, Reading, ReadRequest, SessionInv
<1>2. ~clients[i].joined /\ ~UsernameInUse(clients, name, i)
  BY DEF JoinAccepted, JoinInvalid
<1>3. name \in Names /\ users \in Seq(Names) /\ messages \in Seq(Nat)
  BY <1>1 DEF Request, SoundState, TypeOK
<1>4. id \in Nat
  <2>1. us \in Seq(Names) /\ id \in DOMAIN us
    BY <1>3, WithUserOK
  <2> HIDE DEF us, id
  <2> QED BY <2>1
<1>5. users' = us /\ messages' = messages
  BY DEF JoinAccepted
<1>6. PICK F \in Refusals(cs, A) : clients' = Broadcast(cs, p, A, F)
  BY DEF JoinAccepted, Settle, JoinNotice
<1>7. /\ Told(clients, sl, p, {}) /\ TableOK(sl) /\ TableOK(clients)
      /\ sl[i] \in Client /\ sl[i].active /\ sl[i].socket_fd \in Conns
  BY <1>1, ServedTold, ServedOK DEF SoundState, TableOK, SlotOK
<1> HIDE DEF us, id, sl
<1>8. Continues(clients[i], sl[i]) /\ sl[i].stream = clients[i].stream
  BY <1>7, FreeFields DEF Told, Hears
<1>9. sl[i].stream = <<>> /\ sl[i].ring = "sound" /\ sl[i].sent = 0
      /\ clients[i].sent = 0 /\ sl[i].socket_fd = clients[i].socket_fd
  <2>1. clients[i].stream = <<>> /\ clients[i].ring = "sound" /\ clients[i].sent <= 0
    BY <1>1, <1>2 DEF SessionInv, CleanSlot
  <2>2. clients[i].sent \in Nat /\ sl[i].sent \in Nat
    BY <1>7 DEF TableOK, SlotOK, Client
  <2> QED BY <1>8, <2>1, <2>2 DEF Continues
<1>10. /\ d \in Client /\ d.active /\ d.joined /\ d.socket_fd = clients[i].socket_fd
       /\ d.user_id = id /\ d.username = name /\ d.since = Len(messages)
       /\ d.sent = 0 /\ d.stream = <<Ack(id)>> /\ d.ring = "sound"
  BY <1>3, <1>4, <1>7, <1>9, JoinedAsHeard
<1>11. TableOK(cs)
  BY <1>3, <1>4, <1>7, JoinedAsOK, ReplaceOK
<1> HIDE DEF d, name
<1>12. \A k \in Slots : cs[k] = IF k = i THEN d ELSE sl[k]
  BY <1>7 DEF TableOK
<1> HIDE DEF cs
<1>13. i \in A /\ i \notin F
  <2>1. i # -1
    BY DEF Slots
  <2>2. i \in A
    BY <1>10, <1>12, <2>1 DEF Audience
  <2>3. SurelyFits(cs[i])
    <3>1. Len(d.stream) = 1
      BY <1>10
    <3>2. cs[i].ring = "sound" /\ cs[i].sent = 0 /\ Len(cs[i].stream) = 1
      BY <1>10, <1>12, <3>1
    <3>3. Len(cs[i].stream) - cs[i].sent < SureFit
      BY <3>2
    <3> QED BY <3>2, <3>3 DEF SurelyFits
  <2> QED BY <1>6, <2>2, <2>3 DEF Refusals
<1>14. Enters(clients[i], clients'[i], id, name)
  <2>1. clients'[i] = Enqueue(d, p)
    BY <1>6, <1>12, <1>13 DEF Broadcast
  <2>2. Continues(d, clients'[i]) /\ clients'[i].stream = Append(d.stream, p)
    BY <1>10, <2>1, EnqueueHeard
  <2>3. clients'[i].sent = 0
    BY <1>10, <2>1 DEF Enqueue, UpdatePollEvents, Client
  <2>4. clients'[i].stream = <<Ack(id), p>>
    <3>1. Append(<<Ack(id)>>, p) = <<Ack(id), p>>
      BY <1>4, Pair DEF Ack, JoinNotice, Packet
    <3> QED BY <1>10, <2>2, <3>1
  <2> QED BY <1>1, <1>2, <1>9, <1>10, <2>2, <2>3, <2>4 DEF Enters, Continues
<1>15. ASSUME NEW k \in Slots \ {i}
       PROVE  Hears(clients[k], clients'[k], p, k \in Room(clients))
  <2>1. Tidy(cs)
    <3>1. Tidy(sl)
      BY <1>7, TidyKept
    <3> QED BY <1>10, <1>12, <3>1 DEF Tidy
  <2>2. \A l \in A \cap Slots : cs[l].active
    BY DEF Audience
  <2> HIDE DEF A
  <2>3. Told(cs, clients', p, A)
    BY <1>6, <1>11, <2>1, <2>2, BroadcastTold
  <2>4. Hears(clients[k], sl[k], p, k \in {}) /\ Hears(sl[k], clients'[k], p, k \in A)
    BY <1>7, <1>12, <2>3 DEF Told
  <2>5. clients[k] \in Client /\ sl[k] \in Client /\ clients'[k] \in Client
    <3>1. p \in Packet
      BY <1>4 DEF JoinNotice, Packet
    <3>2. TableOK(clients')
      BY <1>6, <1>11, <2>2, <3>1, BroadcastOK
    <3> QED BY <1>7, <3>2 DEF TableOK, SlotOK
  <2>6. Hears(clients[k], clients'[k], p, k \in A)
    BY <2>4, <2>5, HearsLater
  <2>7. CASE clients'[k] = Free
    BY <2>7 DEF Hears
  <2>8. CASE clients'[k] # Free
    <3>1. sl[k].active
      BY <2>4, <2>8 DEF Hears, Continues
    <3>2. Continues(clients[k], sl[k])
      BY <2>4, <3>1, FreeFields DEF Hears
    <3>3. k # -1
      BY DEF Slots
    <3>4. k \in A <=> k \in Room(clients)
      BY <1>12, <3>1, <3>2, <3>3 DEF Continues, Audience, Room, A
    <3> QED BY <2>6, <3>4 DEF Hears
  <2> QED BY <2>7, <2>8
<1>16. EnteredAs(i, id, name)
  BY <1>2, <1>14, <1>15 DEF EnteredAs
<1>17. users' = WithUser(name) /\ EnteredAs(i, UserId(users', name), name)
  BY <1>5, <1>16 DEF us, id
<1> QED BY <1>3, <1>5, <1>17 DEF Entered

\* The service of a slot.
LEMMA ServeShape ==
  ASSUME SessionInv, NEW i \in Slots, ServeSlot(i) PROVE Quiet
<1> DEFINE Same == messages' = messages
<1>1. ASSUME NEW b, Turn(i, b) PROVE clients[i].active /\ clients[i].joined \in BOOLEAN
  BY <1>1 DEF Turn, Waiting, SessionInv, SoundState, TypeOK, Client
<1>2. CASE DrainSend(i)
  BY <1>2, DrainSendShape DEF Quiet
<1>3. CASE DrainBroken(i)
  BY <1>1, <1>3, ExitShape, DropShape DEF DrainBroken, dbVars, Quiet
<1>4. CASE ReadClosed(i) \/ Leave(i) \/ HangUp(i)
  BY <1>1, <1>4, DropShape DEF ReadClosed, Leave, HangUp, Reading, dbVars, Quiet
<1>5. CASE ReadError(i)
  <2>1. clients[i].active /\ clients[i].joined \in BOOLEAN /\ Same
    BY <1>1, <1>5 DEF ReadError, Reading, dbVars
  <2>2. CASE Keep(Served(i, "IN"), i)
    <3>1. Told(clients, clients', ErrorPacket, {})
      BY <2>1, <2>2, ServedTold DEF Keep
    <3> QED BY <2>1, <3>1, QuietShape DEF Quiet
  <2>3. CASE Drop(clients, i, clients[i].joined)
    BY <2>1, <2>3, DropShape DEF Quiet
  <2> QED BY <1>5, <2>2, <2>3 DEF ReadError
<1>6. CASE JoinRejected(i) \/ JoinFails(i) \/ TextUnjoined(i) \/ TextFails(i) \/ Unsupported(i)
  BY <1>6, RefuseShape
  DEF JoinRejected, JoinFails, TextUnjoined, TextFails, Unsupported, dbVars, Quiet
<1>7. CASE JoinAccepted(i)
  BY <1>7, JoinAcceptedShape DEF Quiet
<1>8. CASE TextRefused(i)
  BY <1>8, TextRefusedShape DEF Quiet
<1>9. CASE TextAccepted(i)
  BY <1>9, TextAcceptedShape DEF Quiet
<1> QED BY <1>2, <1>3, <1>4, <1>5, <1>6, <1>7, <1>8, <1>9 DEF ServeSlot

\* Any step.
LEMMA StepShape == ASSUME SessionInv, [Next]_vars PROVE Shape
<1>1. CASE \E i \in Slots : ServeSlot(i)
  BY <1>1, ServeShape DEF Shape
<1>2. CASE ServerStep /\ ~\E i \in Slots : ServeSlot(i)
  BY <1>2, LoopShape DEF ServerStep, Shape, Quiet
<1>3. CASE Tick
  BY <1>3, TickShape DEF Shape, Quiet
<1>4. CASE clients' = clients /\ messages' = messages
  BY <1>4, IdleShape DEF Shape, Quiet
<1>5. Environment => Tick \/ (clients' = clients /\ messages' = messages)
  BY DEF Environment, Connect, SendRequest, PeerCloses, PeerResets, Signal,
         envFrame, dbVars
<1>6. UNCHANGED vars => clients' = clients /\ messages' = messages
  BY DEF vars, serverVars, dbVars
<1> QED BY <1>1, <1>2, <1>3, <1>4, <1>5, <1>6 DEF Next, Ended

\* Ids are handed out once: a row of users is never changed or removed.
UsersKept == \A k \in DOMAIN users : k \in DOMAIN users' /\ users'[k] = users[k]

LEMMA StepKeepsUsers == ASSUME SoundState, [Next]_vars PROVE UsersKept
<1>1. users \in Seq(Names)
  BY DEF SoundState, TypeOK
<1>2. ASSUME users' = users PROVE UsersKept
  BY <1>2 DEF UsersKept
<1>3. ASSUME NEW i \in Slots, JoinFails(i) \/ JoinAccepted(i) PROVE UsersKept
  <2> DEFINE name == ReadRequest(i).name
  <2>1. name \in Names
    BY <1>3, ReadingOK DEF JoinFails, JoinAccepted, Reading, ReadRequest, Request
  <2>2. users' = users \/ users' = Append(users, name)
    BY <1>3 DEF JoinFails, JoinAccepted, WithUser
  <2> HIDE DEF name
  <2>3. CASE users' = Append(users, name)
    <3>1. \A k \in 1..Len(users) : k \in 1..Len(users') /\ users'[k] = users[k]
      BY <1>1, <2>1, <2>3
    <3>2. DOMAIN users = 1..Len(users) /\ DOMAIN users' = 1..Len(users')
      BY <1>1, <2>1, <2>3
    <3> QED BY <3>1, <3>2 DEF UsersKept
  <2> QED BY <1>2, <2>2, <2>3
<1>4. ASSUME NEW i \in Slots, ServeSlot(i), ~JoinFails(i), ~JoinAccepted(i)
      PROVE  users' = users
  BY <1>4
  DEF ServeSlot, DrainSend, DrainBroken, ReadClosed, ReadError, JoinRejected,
      TextUnjoined, TextRefused, TextFails, TextAccepted, Leave, Unsupported,
      HangUp, Exit, dbVars
<1>5. ASSUME \/ CheckShutdown \/ PollFails \/ Poll \/ ReapAuthTimeouts
             \/ AcceptClient \/ AcceptFails \/ AcceptFull \/ ScanDone
      PROVE  users' = users
  BY <1>5
  DEF CheckShutdown, PollFails, Poll, ReapAuthTimeouts, AcceptClient, AcceptFails,
      AcceptFull, ScanDone, Exit, dbVars
<1>6. Environment => users' = users
  BY DEF Environment, Connect, SendRequest, PeerCloses, PeerResets, Tick, Signal,
         envFrame, dbVars
<1>7. UNCHANGED vars => users' = users
  BY DEF vars, dbVars
<1> QED BY <1>2, <1>3, <1>4, <1>5, <1>6, <1>7 DEF Next, Ended, ServerStep
-----------------------------------------------------------------------------
(* Sessions.                                                                *)

\* What a step does to slot i: its session hears of p or not, or ends; it
\* joins; or a connection is given the slot.
SlotStep(i) ==
    \/ \E p \in Packet, A \in SUBSET Room(clients) :
          Hears(clients[i], clients'[i], p, i \in A)
    \/ \E name \in Names :
          /\ users' = WithUser(name)
          /\ Enters(clients[i], clients'[i], UserId(users', name), name)
    \/ /\ ~clients[i].active
       /\ \E c \in Conns : clients'[i] = Accepted(c)

\* The packets of the shapes are packets.
LEMMA ShapePackets ==
  ASSUME SoundState
  PROVE  /\ ErrorPacket \in Packet
         /\ \A i \in Slots : LeaveNotice(clients[i]) \in Packet /\ TextOf(i) \in Packet
         /\ \A id \in Nat : JoinNotice(id) \in Packet
  BY DEF ErrorPacket, LeaveNotice, TextOf, JoinNotice, Packet, SoundState, TypeOK, Client

\* The id that a JOIN is accepted under.
LEMMA JoinId ==
  ASSUME SoundState, NEW name \in Names, users' = WithUser(name)
  PROVE  /\ UserId(users', name) \in Nat
         /\ UserId(users', name) \in DOMAIN users'
         /\ users'[UserId(users', name)] = name
<1>1. users' \in Seq(Names) /\ UserId(users', name) \in DOMAIN users'
      /\ users'[UserId(users', name)] = name
  BY WithUserOK DEF SoundState, TypeOK
<1> QED BY <1>1

\* Each shape, slot by slot.
LEMMA ShapeSlot ==
  ASSUME SessionInv, Shape, NEW i \in Slots PROVE SlotStep(i)
<1> USE DEF SessionInv
<1>1. CASE Private
  BY <1>1, ShapePackets DEF Private, Told, SlotStep
<1>2. CASE Departure
  <2>1. PICK j \in Slots : Told(clients, clients', LeaveNotice(clients[j]), Room(clients))
    BY <1>2 DEF Departure, Room
  <2>2. Hears(clients[i], clients'[i], LeaveNotice(clients[j]), i \in Room(clients))
    BY <2>1 DEF Told
  <2> QED BY <2>2, ShapePackets DEF SlotStep
<1>3. CASE Said
  <2>1. PICK j \in Slots : Told(clients, clients', TextOf(j), Room(clients))
    BY <1>3 DEF Said, Room
  <2>2. Hears(clients[i], clients'[i], TextOf(j), i \in Room(clients))
    BY <2>1 DEF Told
  <2> QED BY <2>2, ShapePackets DEF SlotStep
<1>4. CASE Arrived
  <2>1. PICK j \in Slots, c \in Conns :
          ~clients[j].active /\ clients' = [clients EXCEPT ![j] = Accepted(c)]
    BY <1>4 DEF Arrived
  <2>2. CASE i = j
    <3>1. clients'[i] = Accepted(c)
      BY <2>1, <2>2 DEF SoundState, TypeOK
    <3> QED BY <2>1, <2>2, <3>1 DEF SlotStep
  <2>3. CASE i # j
    <3>1. Hears(clients[i], clients'[i], ErrorPacket, i \in {})
      BY <2>1, <2>3, SameSlot
    <3> QED BY <3>1, ShapePackets DEF SlotStep
  <2> QED BY <2>2, <2>3
<1>5. CASE Entered
  <2>1. PICK j \in Slots, name \in Names :
          users' = WithUser(name) /\ EnteredAs(j, UserId(users', name), name)
    BY <1>5 DEF Entered
  <2>2. CASE i = j
    BY <2>1, <2>2 DEF EnteredAs, SlotStep
  <2>3. CASE i # j
    <3>1. Hears(clients[i], clients'[i], JoinNotice(UserId(users', name)), i \in Room(clients))
      BY <2>1, <2>3 DEF EnteredAs
    <3>2. JoinNotice(UserId(users', name)) \in Packet
      BY <2>1, JoinId, ShapePackets
    <3> QED BY <3>1, <3>2 DEF SlotStep
  <2> QED BY <2>2, <2>3
<1> QED BY <1>1, <1>2, <1>3, <1>4, <1>5 DEF Shape, Quiet

\* What a session was sent is only added to.
LEMMA HeardGrows ==
  ASSUME NEW c \in Client, NEW d \in Client, NEW p \in Packet, NEW i, NEW A,
         Hears(c, d, p, i \in A), d # Free
  PROVE  /\ Continues(c, d)
         /\ Len(d.stream) >= Len(c.stream)
         /\ \A k \in 1..Len(c.stream) : d.stream[k] = c.stream[k]
<1>1. c.stream \in Seq(Packet)
  BY DEF Client
<1>2. CASE i \in A
  <2>1. Continues(c, d) /\ d.stream = Append(c.stream, p)
    BY <1>2 DEF Hears
  <2> QED BY <1>1, <2>1
<1>3. CASE i \notin A
  BY <1>1, <1>3 DEF Hears
<1> QED BY <1>2, <1>3

\* A session that began clean stays so.
LEMMA HeardClean ==
  ASSUME NEW c \in Client, NEW d \in Client, NEW p \in Packet, NEW i, NEW A,
         Hears(c, d, p, i \in A), i \in A => c.joined, CleanSlot(c, users), UsersKept
  PROVE  CleanSlot(d, users')
<1>1. CASE d = Free
  BY <1>1, FreeFields DEF CleanSlot
<1>2. CASE d # Free
  <2>1. Continues(c, d) /\ Len(d.stream) >= Len(c.stream)
        /\ \A k \in 1..Len(c.stream) : d.stream[k] = c.stream[k]
    BY <1>2, HeardGrows
  <2>2. Len(c.stream) \in Nat /\ Len(d.stream) \in Nat /\ c.sent \in Nat /\ d.sent \in Nat
    BY DEF Client
  <2>3. d.sent <= Len(d.stream)
    BY <2>1 DEF CleanSlot, Continues
  <2>4. CASE c.joined
    <3>1. /\ c.user_id \in DOMAIN users /\ users[c.user_id] = c.username
          /\ Len(c.stream) >= 2
          /\ c.stream[1] = Ack(c.user_id) /\ c.stream[2] = JoinNotice(c.user_id)
      BY <2>1, <2>4 DEF CleanSlot, Continues
    <3>2. 1 \in 1..Len(c.stream) /\ 2 \in 1..Len(c.stream) /\ Len(d.stream) >= 2
      BY <2>1, <2>2, <3>1
    <3> QED BY <2>1, <2>3, <2>4, <3>1, <3>2 DEF CleanSlot, Continues, UsersKept
  <2>5. CASE ~c.joined
    <3>1. c.stream = <<>> /\ c.ring = "sound" /\ d.stream = c.stream
      BY <1>2, <2>1, <2>5 DEF CleanSlot, Continues, Hears
    <3> QED BY <2>1, <2>3, <2>5, <3>1 DEF CleanSlot, Continues
  <2> QED BY <2>4, <2>5
<1> QED BY <1>1, <1>2

\* SessionInv is inductive.
LEMMA StepSession == SessionInv /\ [Next]_vars => SessionInv'
<1> SUFFICES ASSUME SessionInv, [Next]_vars PROVE SessionInv'
  OBVIOUS
<1>1. SoundState /\ SoundState' /\ Shape /\ UsersKept
  BY StepSound, StepShape, StepKeepsUsers DEF SessionInv
<1>2. ASSUME NEW i \in Slots
      PROVE  /\ ~clients'[i].active => clients'[i] = Free
             /\ CleanSlot(clients'[i], users')
  <2>1. clients[i] \in Client /\ clients'[i] \in Client /\ CleanSlot(clients[i], users)
    BY <1>1 DEF SoundState, TypeOK, SessionInv
  <2>2. SlotStep(i)
    BY <1>1, ShapeSlot
  <2>3. CASE \E p \in Packet, A \in SUBSET Room(clients) :
               Hears(clients[i], clients'[i], p, i \in A)
    <3>1. PICK p \in Packet, A \in SUBSET Room(clients) :
            Hears(clients[i], clients'[i], p, i \in A)
      BY <2>3
    <3>2. i \in A => clients[i].joined
      BY DEF Room
    <3>3. CleanSlot(clients'[i], users')
      BY <1>1, <2>1, <3>1, <3>2, HeardClean
    <3> QED BY <3>1, <3>3 DEF Hears, Continues
  <2>4. CASE \E name \in Names :
               /\ users' = WithUser(name)
               /\ Enters(clients[i], clients'[i], UserId(users', name), name)
    <3>1. PICK name \in Names :
            /\ users' = WithUser(name)
            /\ Enters(clients[i], clients'[i], UserId(users', name), name)
      BY <2>4
    <3> DEFINE id == UserId(users', name)
    <3>2. id \in Nat /\ id \in DOMAIN users' /\ users'[id] = name
      BY <1>1, <3>1, JoinId
    <3> HIDE DEF id
    <3>3. Enters(clients[i], clients'[i], id, name)
      BY <3>1 DEF id
    <3>4. LET s == clients'[i].stream
          IN Len(s) = 2 /\ s[1] = Ack(id) /\ s[2] = JoinNotice(id)
      BY <3>3 DEF Enters
    <3>5. clients'[i].sent <= 2
      BY <2>1, <3>3 DEF Enters, CleanSlot, Client
    <3> QED BY <3>2, <3>3, <3>4, <3>5 DEF Enters, CleanSlot
  <2>5. CASE ~clients[i].active /\ \E c \in Conns : clients'[i] = Accepted(c)
    <3>1. PICK c \in Conns : clients'[i] = Accepted(c)
      BY <2>5
    <3>2. /\ Accepted(c).active /\ ~Accepted(c).joined /\ Accepted(c).stream = <<>>
          /\ Accepted(c).ring = "sound" /\ Accepted(c).sent = 0
      BY DEF Accepted, Free
    <3> QED BY <3>1, <3>2 DEF CleanSlot
  <2> QED BY <2>2, <2>3, <2>4, <2>5 DEF SlotStep
<1> QED BY <1>1, <1>2 DEF SessionInv, Tidy

\* ns_server_init leaves every slot reset.
LEMMA InitSession == Init => SessionInv
<1> SUFFICES ASSUME Init PROVE SessionInv
  OBVIOUS
<1>1. SoundState
  BY InitSound
<1>2. \A i \in Slots : clients[i] = Free
  BY DEF Init
<1>3. CleanSlot(Free, users)
  BY FreeFields DEF CleanSlot
<1> QED BY <1>1, <1>2, <1>3 DEF SessionInv, Tidy

\* The invariant that the theorems below are read from.
LEMMA Sessions == Spec => []SessionInv
  BY InitSession, StepSession, PTL DEF Spec

\* The first packets of a joined client are its ACK and its own JOIN notice, with
\* the id of its name in the database, and a connection that has not joined has
\* been sent nothing: for any number of slots, nothing meant for an earlier
\* occupant of a slot reaches the next (server.c:288-298, 556-591).
THEOREM CleanStart == Spec => []SessionStartsClean
<1>1. SessionInv => SessionStartsClean
  BY DEF SessionInv, CleanSlot, SessionStartsClean, Ack, JoinNotice
<1> QED BY <1>1, Sessions, PTL

\* A sequence that another extends is its beginning.
LEMMA Beginning ==
  ASSUME NEW S, NEW s \in Seq(S), NEW t \in Seq(S), Len(t) >= Len(s),
         \A k \in 1..Len(s) : t[k] = s[k]
  PROVE  SubSeq(t, 1, Len(s)) = s
<1> DEFINE u == SubSeq(t, 1, Len(s))
<1>1. u \in Seq(S) /\ Len(u) = Len(s)
  OBVIOUS
<1>2. \A k \in 1..Len(u) : u[k] = s[k]
  OBVIOUS
<1> HIDE DEF u
<1>3. u = s
  BY <1>1, <1>2, SeqEqual
<1> QED BY <1>3 DEF u

\* What SessionIsStable allows slot d to be after slot c.
StableSlot(c, d) ==
    /\ c.joined => d.joined /\ d.user_id = c.user_id /\ d.username = c.username
    /\ Len(d.stream) >= Len(c.stream)
    /\ SubSeq(d.stream, 1, Len(c.stream)) = c.stream
    /\ d.sent >= c.sent

\* No step undoes a login or takes back what was sent.
LEMMA StepStable ==
  ASSUME SessionInv, [Next]_vars, NEW i \in Slots, clients[i].active,
         clients'[i].socket_fd = clients[i].socket_fd
  PROVE  StableSlot(clients[i], clients'[i])
<1> DEFINE c == clients[i]
           d == clients'[i]
<1>1. SoundState /\ SoundState' /\ SlotStep(i)
  BY StepSound, StepShape, ShapeSlot DEF SessionInv
<1>2. c \in Client /\ d \in Client /\ c.socket_fd \in Conns /\ d.socket_fd = c.socket_fd
      /\ CleanSlot(c, users) /\ c.active
  BY <1>1 DEF SoundState, TableOK, SlotOK, SessionInv
<1> HIDE DEF c, d
<1>3. d # Free
  BY <1>2, FreeFields
<1>4. c.stream \in Seq(Packet) /\ d.stream \in Seq(Packet)
      /\ c.sent \in Nat /\ Len(c.stream) \in Nat
  BY <1>2 DEF Client
<1>5. CASE \E p \in Packet, A \in SUBSET Room(clients) : Hears(c, d, p, i \in A)
  <2>1. PICK p \in Packet, A \in SUBSET Room(clients) : Hears(c, d, p, i \in A)
    BY <1>5
  <2>2. /\ Continues(c, d) /\ Len(d.stream) >= Len(c.stream)
        /\ \A k \in 1..Len(c.stream) : d.stream[k] = c.stream[k]
    BY <1>2, <1>3, <2>1, HeardGrows
  <2>3. SubSeq(d.stream, 1, Len(c.stream)) = c.stream
    BY <1>4, <2>2, Beginning
  <2> QED BY <2>2, <2>3 DEF StableSlot, Continues, c, d
<1>6. CASE \E name : Enters(c, d, UserId(users', name), name)
  <2>1. ~c.joined /\ c.stream = <<>> /\ d.sent = c.sent
    BY <1>2, <1>6 DEF Enters, CleanSlot
  <2>2. Len(d.stream) >= Len(c.stream) /\ \A k \in 1..Len(c.stream) : d.stream[k] = c.stream[k]
    BY <1>4, <2>1
  <2>3. SubSeq(d.stream, 1, Len(c.stream)) = c.stream
    BY <1>4, <2>2, Beginning
  <2> QED BY <1>4, <2>1, <2>2, <2>3 DEF StableSlot, c, d
<1>7. ~(~c.active /\ \E k \in Conns : d = Accepted(k))
  BY <1>2
<1> QED BY <1>1, <1>5, <1>6, <1>7 DEF SlotStep, c, d

\* While a connection keeps its slot, its login is never undone or changed and
\* what was sent on it is only added to, by any step: a slot that is given to
\* another connection has another socket (server.c:521-591).
THEOREM SessionStable == Spec => SessionIsStable
<1>1. ASSUME SessionInv, [Next]_vars
      PROVE  [\A i \in Slots :
                clients[i].active /\ clients'[i].socket_fd = clients[i].socket_fd =>
                   /\ clients[i].joined => /\ clients'[i].joined
                                           /\ clients'[i].user_id = clients[i].user_id
                                           /\ clients'[i].username = clients[i].username
                   /\ Len(clients'[i].stream) >= Len(clients[i].stream)
                   /\ SubSeq(clients'[i].stream, 1, Len(clients[i].stream)) = clients[i].stream
                   /\ clients'[i].sent >= clients[i].sent]_vars
  BY <1>1, StepStable DEF StableSlot
<1> QED BY <1>1, Sessions, PTL DEF Spec, SessionIsStable
-----------------------------------------------------------------------------
(* Sockets and slots.                                                       *)

Active(cs) == {i \in Slots : cs[i].active}

(***************************************************************************)
(* The inductive invariant behind NoSocketLeak: no two slots have the same *)
(* socket, which is why closing those of the slots given up closes nobody  *)
(* else's.                                                                 *)
(***************************************************************************)
SocketsOK ==
    /\ \A i, j \in Active(clients) : clients[i].socket_fd = clients[j].socket_fd => i = j
    /\ \A c \in Conns :
          sock[c] = "held" <=> \E i \in Active(clients) : clients[i].socket_fd = c
    /\ client_count = Cardinality(Active(clients))

\* The slots in use are finitely many.
LEMMA ActiveFinite ==
  ASSUME NEW cs
  PROVE  IsFiniteSet(Active(cs)) /\ Cardinality(Active(cs)) \in Nat
<1>1. Active(cs) \subseteq Slots
  BY DEF Active
<1> QED BY <1>1, SlotsFinite, FS_Subset, FS_CardinalityType

\* The slots of ds in use were in use in cs, by the same connection.
NoNewSockets(cs, ds) ==
    \A i \in Slots : ds[i].active => cs[i].active /\ ds[i].socket_fd = cs[i].socket_fd

\* ns_server_disconnect_client, as often as a step calls it.
LEMMA SettleSockets ==
  ASSUME SoundState, SocketsOK, NEW cs, NEW ib, Settle(cs, ib), NoNewSockets(clients, cs)
  PROVE  SocketsOK'
<1> DEFINE gone == {i \in Slots : clients[i].active /\ ~cs[i].active}
           lost == Cardinality(gone)
           Closed(c) == \E i \in gone : clients[i].socket_fd = c
<1>1. /\ clients' = cs
      /\ client_count' = IF lost > client_count THEN 0 ELSE client_count - lost
      /\ \A c \in Conns : sock'[c] = IF Closed(c) THEN "closed" ELSE sock[c]
  BY DEF Settle
<1>2. gone \subseteq Active(clients) /\ Active(cs) = Active(clients) \ gone
  BY DEF Active, NoNewSockets
<1>3. \A i \in Active(cs) : i \in Active(clients) /\ cs[i].socket_fd = clients[i].socket_fd
  BY DEF Active, NoNewSockets
<1> HIDE DEF gone
<1>4. client_count' = Cardinality(Active(cs))
  <2> DEFINE A == Active(clients)
  <2>1. IsFiniteSet(A) /\ Cardinality(A) \in Nat /\ client_count = Cardinality(A)
    BY ActiveFinite DEF SocketsOK
  <2> HIDE DEF A
  <2>2. gone \subseteq A /\ A \cap gone = gone
    BY <1>2 DEF A
  <2>3. IsFiniteSet(gone) /\ lost <= Cardinality(A) /\ lost \in Nat
    BY <2>1, <2>2, FS_Subset, FS_CardinalityType
  <2>4. Cardinality(A \ gone) = Cardinality(A) - Cardinality(A \cap gone)
    BY <2>1, FS_Difference
  <2>5. Cardinality(A \ gone) = Cardinality(A) - lost
    BY <2>2, <2>4
  <2> HIDE DEF lost
  <2>6. client_count' = Cardinality(A) - lost
    BY <1>1, <2>1, <2>3
  <2> QED BY <1>2, <2>5, <2>6 DEF A
<1>5. \A i, j \in Active(cs) : cs[i].socket_fd = cs[j].socket_fd => i = j
  BY <1>3 DEF SocketsOK
<1>6. ASSUME NEW c \in Conns
      PROVE  sock'[c] = "held" <=> \E i \in Active(cs) : cs[i].socket_fd = c
  <2>1. ASSUME sock'[c] = "held" PROVE \E i \in Active(cs) : cs[i].socket_fd = c
    <3>1. ~Closed(c) /\ sock[c] = "held"
      BY <1>1, <2>1
    <3>2. PICK i \in Active(clients) : clients[i].socket_fd = c
      BY <3>1 DEF SocketsOK
    <3>3. i \in Active(cs)
      BY <1>2, <3>1, <3>2
    <3> QED BY <1>3, <3>2, <3>3
  <2>2. ASSUME NEW i \in Active(cs), cs[i].socket_fd = c PROVE sock'[c] = "held"
    <3>1. i \in Active(clients) /\ clients[i].socket_fd = c /\ sock[c] = "held"
      BY <1>3, <2>2 DEF SocketsOK
    <3>2. ~Closed(c)
      BY <1>2, <2>2, <3>1 DEF SocketsOK
    <3> QED BY <1>1, <3>1, <3>2
  <2> QED BY <2>1, <2>2
<1> QED BY <1>1, <1>4, <1>5, <1>6 DEF SocketsOK

\* A step that gives up no slot and opens none.
LEMMA KeepSockets ==
  ASSUME SocketsOK, UNCHANGED <<client_count, sock>>,
         NoNewSockets(clients, clients'), \A i \in Slots : clients[i].active => clients'[i].active
  PROVE  SocketsOK'
<1>1. Active(clients') = Active(clients)
  BY DEF Active, NoNewSockets
<1>2. \A i \in Active(clients) : clients'[i].socket_fd = clients[i].socket_fd
  BY <1>1 DEF Active, NoNewSockets
<1> QED BY <1>1, <1>2 DEF SocketsOK

\* The end of the process closes everything.
LEMMA ExitSockets == ASSUME NEW code, Exit(code) PROVE SocketsOK'
<1>1. Active(clients') = {}
  BY FreeFields DEF Exit, Active
<1>2. client_count' = 0 /\ \A c \in Conns : sock'[c] # "held"
  BY DEF Exit
<1> QED BY <1>1, <1>2, FS_EmptySet DEF SocketsOK

\* accept(): the connection comes from the backlog, so that no slot has it yet.
LEMMA AcceptSockets == ASSUME SoundState, SocketsOK, AcceptClient PROVE SocketsOK'
<1>1. PICK c \in Conns, i \in Slots :
        /\ sock[c] = "backlog" /\ ~clients[i].active
        /\ clients' = [clients EXCEPT ![i] = Accepted(c)]
        /\ sock' = [sock EXCEPT ![c] = "held"]
  BY DEF AcceptClient, IsFreeSlot
<1>2. Accepted(c).active /\ Accepted(c).socket_fd = c
  BY DEF Accepted, Free
<1>3. \A j \in Slots : clients'[j] = IF j = i THEN Accepted(c) ELSE clients[j]
  BY <1>1 DEF SoundState, TypeOK
<1>4. \A d \in Conns : sock'[d] = IF d = c THEN "held" ELSE sock[d]
  BY <1>1 DEF SoundState, TypeOK
<1>5. Active(clients') = Active(clients) \cup {i} /\ i \notin Active(clients)
  BY <1>1, <1>2, <1>3 DEF Active
<1>6. client_count' = Cardinality(Active(clients'))
  <2> DEFINE A == Active(clients)
  <2>1. IsFiniteSet(A) /\ client_count = Cardinality(A) /\ client_count' = client_count + 1
    BY ActiveFinite DEF SocketsOK, AcceptClient
  <2>2. Active(clients') = A \cup {i} /\ i \notin A
    BY <1>5
  <2> HIDE DEF A
  <2>3. Cardinality(A \cup {i}) = Cardinality(A) + 1
    BY <2>1, <2>2, FS_AddElement
  <2> QED BY <2>1, <2>2, <2>3
<1>7. \A j \in Active(clients) : clients[j].socket_fd # c /\ clients'[j].socket_fd = clients[j].socket_fd
  BY <1>1, <1>3, <1>5 DEF SocketsOK, Active
<1>8. clients'[i].socket_fd = c
  BY <1>2, <1>3
<1>9. \A j, k \in Active(clients') : clients'[j].socket_fd = clients'[k].socket_fd => j = k
  BY <1>5, <1>7, <1>8 DEF SocketsOK
<1>10. \A d \in Conns :
          sock'[d] = "held" <=> \E j \in Active(clients') : clients'[j].socket_fd = d
  BY <1>4, <1>5, <1>7, <1>8 DEF SocketsOK
<1> QED BY <1>6, <1>9, <1>10 DEF SocketsOK

\* A connection changes hands between the kernel and nobody.
LEMMA KernelSockets ==
  ASSUME SoundState, SocketsOK, UNCHANGED <<clients, client_count>>,
         NEW c \in Conns, sock[c] # "held", NEW s, s # "held",
         sock' = [sock EXCEPT ![c] = s]
  PROVE  SocketsOK'
<1>1. \A d \in Conns : sock'[d] = IF d = c THEN s ELSE sock[d]
  BY DEF SoundState, TypeOK
<1>2. \A d \in Conns : sock'[d] = "held" <=> sock[d] = "held"
  BY <1>1
<1> QED BY <1>2 DEF SocketsOK

\* No slot is taken in a step of a shape that opens no connection.
LEMMA ShapeSockets ==
  ASSUME SessionInv, Quiet PROVE NoNewSockets(clients, clients')
<1> SUFFICES ASSUME NEW i \in Slots, clients'[i].active
             PROVE  clients[i].active /\ clients'[i].socket_fd = clients[i].socket_fd
  BY DEF NoNewSockets
<1>1. ASSUME NEW p, NEW A, Hears(clients[i], clients'[i], p, i \in A)
      PROVE  clients[i].active /\ clients'[i].socket_fd = clients[i].socket_fd
  BY <1>1, FreeFields DEF Hears, Continues
<1>2. CASE Entered
  <2>1. PICK j \in Slots, name \in Names : EnteredAs(j, UserId(users', name), name)
    BY <1>2 DEF Entered
  <2>2. CASE i = j
    BY <2>1, <2>2 DEF EnteredAs, Enters
  <2>3. CASE i # j
    BY <1>1, <2>1, <2>3 DEF EnteredAs
  <2> QED BY <2>2, <2>3
<1>3. CASE Private \/ Departure \/ Said
  BY <1>1, <1>3 DEF Private, Departure, Said, Told
<1> QED BY <1>2, <1>3 DEF Quiet

\* A disconnection, of slot i in the table ds that its caller prepared.
LEMMA DropSockets ==
  ASSUME SessionInv, SocketsOK, Quiet, NEW ds, NEW i, NEW announce, Drop(ds, i, announce)
  PROVE  SocketsOK'
<1>1. PICK F : Settle(Disconnect(ds, i, announce, F), inbox)
  BY DEF Drop
<1> DEFINE cs == Disconnect(ds, i, announce, F)
<1>2. clients' = cs
  BY <1>1 DEF Settle
<1> HIDE DEF cs
<1>3. NoNewSockets(clients, cs)
  BY <1>2, ShapeSockets
<1> QED BY <1>1, <1>3, SettleSockets DEF SessionInv, cs

\* A broadcast of p to A, the packet that asked for it being read.
LEMMA BroadcastSockets ==
  ASSUME SessionInv, SocketsOK, Quiet, NEW ds, NEW p, NEW A, NEW F, NEW ib,
         Settle(Broadcast(ds, p, A, F), ib)
  PROVE  SocketsOK'
<1> DEFINE cs == Broadcast(ds, p, A, F)
<1>1. clients' = cs
  BY DEF Settle
<1> HIDE DEF cs
<1>2. NoNewSockets(clients, cs)
  BY <1>1, ShapeSockets
<1> QED BY <1>2, SettleSockets DEF SessionInv, cs

\* The steps of a slot's service that leave its connection where it is.
LEMMA StaySockets ==
  ASSUME SessionInv, SocketsOK, Quiet, NEW i \in Slots,
         clients[i].active, clients'[i].active,
         \A j \in Slots \ {i} : clients'[j] = clients[j],
         UNCHANGED <<client_count, sock>>
  PROVE  SocketsOK'
<1>1. \A j \in Slots : clients[j].active => clients'[j].active
  OBVIOUS
<1> QED BY <1>1, ShapeSockets, KeepSockets

\* The service of a slot.
LEMMA ServeSockets ==
  ASSUME SessionInv, SocketsOK, NEW i \in Slots, ServeSlot(i)
  PROVE  SocketsOK'
<1>1. Quiet
  BY ServeShape
<1>2. /\ \A j \in Slots : clients[j] \in Client
      /\ clients \in [Slots -> Client]
  BY DEF SessionInv, SoundState, TypeOK
<1>3. ASSUME NEW b, Turn(i, b)
      PROVE  /\ clients[i].active /\ Served(i, b)[i].active /\ Served(i, b)[i] \in Client
             /\ \A j \in Slots \ {i} : Served(i, b)[j] = clients[j]
  <2>1. clients[i].active
    BY <1>3 DEF Turn, Waiting
  <2>2. Served(i, b)[i].active /\ Served(i, b)[i] \in Client
    BY <2>1, ServedOK DEF SessionInv, TableOK, SlotOK
  <2>3. \A j \in Slots \ {i} : Served(i, b)[j] = clients[j]
    BY <1>2 DEF Served
  <2> QED BY <2>1, <2>2, <2>3
<1>4. CASE DrainSend(i)
  <2>1. PICK c \in Drained(Served(i, "OUT")[i]) :
          clients' = [clients EXCEPT ![i] = UpdatePollEvents(c)]
    BY <1>4 DEF DrainSend
  <2>2. Turn(i, "OUT") /\ UNCHANGED <<client_count, sock>>
    BY <1>4 DEF DrainSend
  <2>3. c.active
    <3> DEFINE e == Served(i, "OUT")[i]
    <3>1. e.active /\ e \in Client
      BY <1>3, <2>2
    <3>2. c \in Drained(e)
      BY <2>1
    <3> HIDE DEF e
    <3>3. \/ \E n : c = [e EXCEPT !.sent = n]
          \/ c = [e EXCEPT !.sent = Len(e.stream), !.ring = "stale"]
          \/ \E r : c = [e EXCEPT !.ring = r]
      BY <3>2 DEF Drained
    <3> QED BY <3>1, <3>3 DEF Client
  <2>4. clients'[i] = UpdatePollEvents(c) /\ \A j \in Slots \ {i} : clients'[j] = clients[j]
    BY <1>2, <2>1
  <2>5. clients'[i].active
    BY <2>3, <2>4 DEF UpdatePollEvents
  <2> QED BY <1>1, <1>3, <2>2, <2>4, <2>5, StaySockets
<1>5. CASE DrainBroken(i)
  BY <1>1, <1>5, DropSockets, ExitSockets DEF DrainBroken
<1>6. CASE ReadClosed(i) \/ Leave(i) \/ HangUp(i)
  BY <1>1, <1>6, DropSockets DEF ReadClosed, Leave, HangUp
<1>7. CASE ReadError(i)
  <2>1. CASE Keep(Served(i, "IN"), i)
    <3>1. Turn(i, "IN")
      BY <1>7 DEF ReadError, Reading
    <3>2. clients' = Served(i, "IN") /\ UNCHANGED <<client_count, sock>>
      BY <2>1 DEF Keep
    <3> QED BY <1>1, <1>3, <3>1, <3>2, StaySockets
  <2>2. CASE Drop(clients, i, clients[i].joined)
    BY <1>1, <2>2, DropSockets
  <2> QED BY <1>7, <2>1, <2>2 DEF ReadError
<1>8. CASE JoinRejected(i) \/ JoinFails(i) \/ TextUnjoined(i) \/ TextFails(i) \/ Unsupported(i)
  <2>1. PICK fits : Drop(SendError(clients, i, fits), i, FALSE)
    BY <1>8 DEF JoinRejected, JoinFails, TextUnjoined, TextFails, Unsupported, Refuse
  <2> QED BY <1>1, <2>1, DropSockets
<1>9. CASE JoinAccepted(i)
  BY <1>1, <1>9, BroadcastSockets DEF JoinAccepted
<1>10. CASE TextAccepted(i)
  BY <1>1, <1>10, BroadcastSockets DEF TextAccepted
<1>11. CASE TextRefused(i)
  <2> DEFINE sl == Served(i, "IN")
  <2>1. PICK fits : clients' = SendError(sl, i, fits)
    BY <1>11 DEF TextRefused, Keep
  <2>2. Turn(i, "IN") /\ UNCHANGED <<client_count, sock>>
    BY <1>11 DEF TextRefused, Keep, Reading
  <2>3. /\ clients[i].active /\ sl[i].active /\ sl[i] \in Client
        /\ \A j \in Slots \ {i} : sl[j] = clients[j]
    BY <1>3, <2>2
  <2>4. DOMAIN sl = Slots
    BY <1>2 DEF Served
  <2> HIDE DEF sl
  <2>5. Enqueue(sl[i], ErrorPacket).active
    BY <2>3 DEF Enqueue, UpdatePollEvents, Client
  <2>6. clients'[i].active /\ \A j \in Slots \ {i} : clients'[j] = sl[j]
    BY <2>1, <2>3, <2>4, <2>5 DEF SendError
  <2> QED BY <1>1, <2>2, <2>3, <2>6, StaySockets
<1> QED BY <1>4, <1>5, <1>6, <1>7, <1>8, <1>9, <1>10, <1>11 DEF ServeSlot

\* A step that moves no connection.
LEMMA IdleSockets ==
  ASSUME SocketsOK, UNCHANGED <<clients, client_count, sock>> PROVE SocketsOK'
  BY DEF SocketsOK

\* poll(), the sweep, and the rest of the loop up to the scan.
LEMMA LoopSockets ==
  ASSUME SessionInv, SocketsOK,
         \/ CheckShutdown \/ PollFails \/ Poll \/ ReapAuthTimeouts
         \/ AcceptClient \/ AcceptFails \/ AcceptFull \/ ScanDone
  PROVE  SocketsOK'
<1> USE DEF SessionInv
<1>1. CASE CheckShutdown
  BY <1>1, ExitSockets, IdleSockets DEF CheckShutdown, serverVars, netVars
<1>2. CASE PollFails
  BY <1>2, ExitSockets DEF PollFails
<1>3. CASE Poll
  <2>1. Quiet /\ UNCHANGED <<client_count, sock>>
    BY <1>3, PollShape DEF Quiet, Poll, netVars
  <2>2. PICK W : clients' = [i \in Slots |->
                   [clients[i] EXCEPT !.revents = Readiness(clients[i], i \in W)]]
    BY <1>3 DEF Poll
  <2>3. ASSUME NEW i \in Slots, clients[i].active PROVE clients'[i].active
    <3> DEFINE r == Readiness(clients[i], i \in W)
    <3>1. clients'[i] = [clients[i] EXCEPT !.revents = r]
      BY <2>2
    <3> HIDE DEF r
    <3>2. clients[i] \in Client
      BY DEF SoundState, TypeOK
    <3> QED BY <2>3, <3>1, <3>2 DEF Client
  <2> QED BY <2>1, <2>3, ShapeSockets, KeepSockets
<1>4. CASE ReapAuthTimeouts
  <2> DEFINE cs == [i \in Slots |-> IF Expired(clients[i]) THEN Free ELSE clients[i]]
  <2>1. Settle(cs, inbox) /\ Quiet
    BY <1>4, ReapShape DEF ReapAuthTimeouts, Quiet
  <2> HIDE DEF cs
  <2>2. clients' = cs
    BY <2>1 DEF Settle
  <2>3. NoNewSockets(clients, cs)
    BY <2>1, <2>2, ShapeSockets
  <2> QED BY <2>1, <2>3, SettleSockets
<1>5. CASE AcceptClient
  BY <1>5, AcceptSockets
<1>6. CASE AcceptFull
  <2>1. PICK c \in Conns :
          /\ sock[c] = "backlog"
          /\ \/ Exit("sigpipe")
             \/ /\ UNCHANGED <<clients, client_count>>
                /\ sock' = [sock EXCEPT ![c] = "closed"]
    BY <1>6 DEF AcceptFull, serverVars
  <2>2. CASE Exit("sigpipe")
    BY <2>2, ExitSockets
  <2>3. CASE UNCHANGED <<clients, client_count>> /\ sock' = [sock EXCEPT ![c] = "closed"]
    BY <2>1, <2>3, KernelSockets
  <2> QED BY <2>1, <2>2, <2>3
<1>7. CASE AcceptFails \/ ScanDone
  BY <1>7, IdleSockets DEF AcceptFails, ScanDone, serverVars, netVars
<1> QED BY <1>1, <1>2, <1>3, <1>4, <1>5, <1>6, <1>7

\* The clock.
LEMMA TickSockets == ASSUME SessionInv, SocketsOK, Tick PROVE SocketsOK'
<1>1. Quiet /\ UNCHANGED <<client_count, sock>>
  BY TickShape DEF Quiet, Tick, envFrame
<1>2. ASSUME NEW i \in Slots, clients[i].active PROVE clients'[i].active
  <2>1. clients[i] \in Client
    BY DEF SessionInv, SoundState, TypeOK
  <2>2. \/ clients'[i] = clients[i]
        \/ clients'[i] = [clients[i] EXCEPT !.age = clients[i].age + 1]
    BY DEF Tick
  <2> QED BY <1>2, <2>1, <2>2 DEF Client
<1> QED BY <1>1, <1>2, ShapeSockets, KeepSockets

\* Any step keeps sockets and slots together.
LEMMA StepSockets == SessionInv /\ SocketsOK /\ [Next]_vars => SocketsOK'
<1> SUFFICES ASSUME SessionInv, SocketsOK, [Next]_vars PROVE SocketsOK'
  OBVIOUS
<1>1. CASE \E i \in Slots : ServeSlot(i)
  BY <1>1, ServeSockets
<1>2. CASE ServerStep /\ ~\E i \in Slots : ServeSlot(i)
  BY <1>2, LoopSockets DEF ServerStep
<1>3. CASE \E c \in Conns : Connect(c)
  <2>1. PICK c \in Conns : Connect(c)
    BY <1>3
  <2> QED BY <2>1, KernelSockets DEF Connect, envFrame, SessionInv
<1>4. CASE Tick
  BY <1>4, TickSockets
<1>5. CASE UNCHANGED <<clients, client_count, sock>>
  BY <1>5, IdleSockets
<1>6. Environment => \/ \E c \in Conns : Connect(c)
                     \/ Tick
                     \/ UNCHANGED <<clients, client_count, sock>>
  BY DEF Environment, SendRequest, PeerCloses, PeerResets, Signal, envFrame
<1>7. UNCHANGED vars => UNCHANGED <<clients, client_count, sock>>
  BY DEF vars, serverVars, netVars
<1> QED BY <1>1, <1>2, <1>3, <1>4, <1>5, <1>6, <1>7 DEF Next, Ended

\* Nothing is connected at the start.
LEMMA InitSockets == Init => SocketsOK
<1> SUFFICES ASSUME Init PROVE SocketsOK
  OBVIOUS
<1>1. Active(clients) = {} /\ client_count = 0 /\ \A c \in Conns : sock[c] # "held"
  BY FreeFields DEF Init, Active
<1> QED BY <1>1, FS_EmptySet DEF SocketsOK

\* Counting the slots of a socket: none when it is not held, else one.
LEMMA SocketsCounted == SocketsOK => NoSocketLeak
<1> SUFFICES ASSUME SocketsOK PROVE NoSocketLeak
  OBVIOUS
<1>1. ASSUME NEW c \in Conns
      PROVE  Cardinality({i \in Slots : clients[i].active /\ clients[i].socket_fd = c})
                = IF sock[c] = "held" THEN 1 ELSE 0
  <2> DEFINE H == {i \in Slots : clients[i].active /\ clients[i].socket_fd = c}
  <2>1. CASE sock[c] = "held"
    <3>1. PICK i \in Active(clients) : clients[i].socket_fd = c
      BY <2>1 DEF SocketsOK
    <3>2. H = {i}
      BY <3>1 DEF SocketsOK, Active
    <3> HIDE DEF H
    <3>3. Cardinality(H) = 1
      BY <3>2, FS_Singleton
    <3> QED BY <2>1, <3>3 DEF H
  <2>2. CASE sock[c] # "held"
    <3>1. H = {}
      BY <2>2 DEF SocketsOK, Active
    <3> HIDE DEF H
    <3>2. Cardinality(H) = 0
      BY <3>1, FS_EmptySet
    <3> QED BY <2>2, <3>2 DEF H
  <2> QED BY <2>1, <2>2
<1> QED BY <1>1 DEF NoSocketLeak, SocketsOK, Active

\* An accepted connection that is not closed belongs to exactly one active
\* slot, a closed one to none, and client_count is the number of active slots:
\* through evictions, refusals, time-outs, resets and the end of the process,
\* no socket is left open with nobody to serve it, and none is closed that a
\* slot still uses (server.c:463-503, 720-754).
THEOREM SocketsAccounted == Spec => []NoSocketLeak
<1>1. Init => SocketsOK
  BY InitSockets
<1>2. SessionInv /\ SocketsOK /\ [Next]_vars => SocketsOK'
  BY StepSockets
<1>3. SocketsOK => NoSocketLeak
  BY SocketsCounted
<1> QED BY <1>1, <1>2, <1>3, Sessions, PTL DEF Spec
=============================================================================

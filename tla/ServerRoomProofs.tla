-------------------------- MODULE ServerRoomProofs --------------------------
(***************************************************************************)
(* Theorems about the room of Server: which messages and notices everyone  *)
(* in it is sent, and in which order, for every number of slots,           *)
(* connections, names and every bound.  Each is proved for the five shapes *)
(* of a step that ServerSessionProofs shows to be all there are.           *)
(***************************************************************************)
EXTENDS ServerSessionProofs

USE ServerAssumption

\* ns_client_enqueue_send adds a packet behind those sent before.
LEMMA Longer ==
  ASSUME NEW s \in Seq(Packet), NEW p \in Packet
  PROVE  LET t == Append(s, p)
         IN  /\ t \in Seq(Packet) /\ Len(s) \in Nat /\ Len(t) = Len(s) + 1
             /\ DOMAIN s = 1..Len(s) /\ DOMAIN t = 1..(Len(s) + 1)
             /\ \A k \in 1..Len(s) : t[k] = s[k]
             /\ t[Len(s) + 1] = p
  OBVIOUS

\* Whoever is in the room after a step heard what the step sent there, unless
\* the step is that by which it entered.
LEMMA InRoom ==
  ASSUME NEW i \in Slots, NEW p, NEW A, Hears(clients[i], clients'[i], p, i \in A),
         clients'[i].active, clients'[i].joined
  PROVE  /\ i \in Room(clients)
         /\ clients'[i].user_id = clients[i].user_id
         /\ clients'[i].since = clients[i].since
         /\ clients'[i].stream = IF i \in A THEN Append(clients[i].stream, p)
                                 ELSE clients[i].stream
  BY FreeFields DEF Hears, Continues, Room

\* A connection just accepted is not in the room.
LEMMA AcceptedOut ==
  ASSUME SessionInv, Arrived, NEW i \in Slots, clients'[i].active, clients'[i].joined
  PROVE  i \in Room(clients) /\ clients'[i] = clients[i]
<1>1. PICK j \in Slots, c \in Conns : clients' = [clients EXCEPT ![j] = Accepted(c)]
  BY DEF Arrived
<1>2. ~Accepted(c).joined
  BY DEF Accepted, Free
<1>3. clients'[i] = IF i = j THEN Accepted(c) ELSE clients[i]
  BY <1>1 DEF SessionInv, SoundState, TypeOK
<1> QED BY <1>2, <1>3 DEF Room

\* The types of what the proofs below speak of.
LEMMA RoomTypes ==
  ASSUME SessionInv
  PROVE  /\ messages \in Seq(Nat) /\ Len(messages) \in Nat
         /\ \A i \in Slots : /\ clients[i] \in Client
                             /\ clients[i].stream \in Seq(Packet)
                             /\ clients[i].user_id \in Nat /\ clients[i].since \in Nat
<1>1. messages \in Seq(Nat) /\ \A i \in Slots : clients[i] \in Client
  BY DEF SessionInv, SoundState, TypeOK
<1> QED BY <1>1 DEF Client
-----------------------------------------------------------------------------
(* Messages.                                                                *)

TextsOf(s) == {k \in DOMAIN s : s[k].type = "TEXT"}

\* The messages ms from row n on are what the stream s holds, in this order.
Holds(s, n, ms) ==
    /\ n <= Len(ms)
    /\ \A k, l \in TextsOf(s) : k < l => s[k].row < s[l].row
    /\ \A k \in TextsOf(s) : /\ s[k].row \in (n + 1)..Len(ms)
                             /\ s[k].sender = ms[s[k].row]
    /\ \A m \in (n + 1)..Len(ms) : \E k \in TextsOf(s) : s[k].row = m

\* A packet that is no TEXT changes nothing.
LEMMA HoldsOther ==
  ASSUME NEW s \in Seq(Packet), NEW p \in Packet, p.type # "TEXT", NEW n, NEW ms, Holds(s, n, ms)
  PROVE  Holds(Append(s, p), n, ms)
<1> DEFINE t == Append(s, p)
<1>1. /\ DOMAIN s = 1..Len(s) /\ DOMAIN t = 1..(Len(s) + 1) /\ Len(s) \in Nat
      /\ \A k \in 1..Len(s) : t[k] = s[k]
      /\ t[Len(s) + 1] = p
  BY Longer
<1> HIDE DEF t
<1>2. TextsOf(t) = TextsOf(s)
  BY <1>1 DEF TextsOf
<1>3. \A k \in TextsOf(s) : t[k] = s[k]
  BY <1>1 DEF TextsOf
<1> QED BY <1>2, <1>3 DEF Holds, t

\* A TEXT of the row that is stored with it extends the sequence by that row.
LEMMA HoldsText ==
  ASSUME NEW s \in Seq(Packet), NEW ms \in Seq(Nat), NEW u \in Nat, NEW n \in Nat,
         Holds(s, n, ms)
  PROVE  Holds(Append(s, [type |-> "TEXT", sender |-> u, row |-> Len(ms) + 1]), n, Append(ms, u))
<1> DEFINE p  == [type |-> "TEXT", sender |-> u, row |-> Len(ms) + 1]
           t  == Append(s, p)
           ns == Append(ms, u)
           e  == Len(s) + 1
<1>1. p \in Packet /\ p.type = "TEXT" /\ p.sender = u /\ p.row = Len(ms) + 1
  BY DEF Packet
<1> HIDE DEF p
<1>2. /\ DOMAIN s = 1..Len(s) /\ DOMAIN t = 1..e /\ Len(s) \in Nat
      /\ \A k \in 1..Len(s) : t[k] = s[k]
      /\ t[e] = p
  BY <1>1, Longer
<1>3. /\ Len(ms) \in Nat /\ Len(ns) = Len(ms) + 1
      /\ \A m \in 1..Len(ms) : ns[m] = ms[m]
      /\ ns[Len(ms) + 1] = u
  OBVIOUS
<1> HIDE DEF t, ns
<1>4. TextsOf(t) = TextsOf(s) \cup {e}
  BY <1>1, <1>2 DEF TextsOf
<1>5. \A k \in TextsOf(s) : k \in Nat /\ k < e /\ t[k] = s[k]
  BY <1>2 DEF TextsOf
<1>6. /\ n <= Len(ms)
      /\ \A k \in TextsOf(s) : /\ s[k].row \in (n + 1)..Len(ms)
                               /\ s[k].sender = ms[s[k].row]
  BY DEF Holds
<1>7. \A k, l \in TextsOf(t) : k < l => t[k].row < t[l].row
  <2> SUFFICES ASSUME NEW k \in TextsOf(t), NEW l \in TextsOf(t), k < l
               PROVE  t[k].row < t[l].row
    OBVIOUS
  <2>1. k \in TextsOf(s)
    BY <1>2, <1>4, <1>5 DEF TextsOf
  <2>2. CASE l = e
    <3>1. s[k].row <= Len(ms) /\ s[k].row \in Int /\ t[k] = s[k]
      BY <1>3, <1>5, <1>6, <2>1
    <3>2. t[l].row = Len(ms) + 1
      BY <1>1, <1>2, <2>2
    <3> QED BY <1>3, <3>1, <3>2
  <2>3. CASE l \in TextsOf(s)
    BY <1>5, <2>1, <2>3 DEF Holds
  <2> QED BY <1>4, <2>2, <2>3
<1>8. \A k \in TextsOf(t) : t[k].row \in (n + 1)..Len(ns) /\ t[k].sender = ns[t[k].row]
  <2> SUFFICES ASSUME NEW k \in TextsOf(t)
               PROVE  t[k].row \in (n + 1)..Len(ns) /\ t[k].sender = ns[t[k].row]
    OBVIOUS
  <2>1. CASE k = e
    BY <1>1, <1>2, <1>3, <1>6, <2>1
  <2>2. CASE k \in TextsOf(s)
    <3> DEFINE m == s[k].row
    <3>1. t[k] = s[k] /\ m \in (n + 1)..Len(ms) /\ s[k].sender = ms[m]
      BY <1>5, <1>6, <2>2
    <3> HIDE DEF m
    <3>2. m \in 1..Len(ms) /\ m \in (n + 1)..Len(ns)
      BY <1>3, <3>1
    <3>3. ns[m] = ms[m]
      BY <1>3, <3>2
    <3> QED BY <3>1, <3>2, <3>3 DEF m
  <2> QED BY <1>4, <2>1, <2>2
<1>9. \A m \in (n + 1)..Len(ns) : \E k \in TextsOf(t) : t[k].row = m
  <2> SUFFICES ASSUME NEW m \in (n + 1)..Len(ns) PROVE \E k \in TextsOf(t) : t[k].row = m
    OBVIOUS
  <2>1. CASE m = Len(ms) + 1
    BY <1>1, <1>2, <1>4, <2>1
  <2>2. CASE m # Len(ms) + 1
    <3>1. m \in (n + 1)..Len(ms)
      BY <1>3, <2>2
    <3>2. PICK k \in TextsOf(s) : s[k].row = m
      BY <3>1 DEF Holds
    <3> QED BY <1>4, <1>5, <3>2
  <2> QED BY <2>1, <2>2
<1>10. n <= Len(ns)
  BY <1>3, <1>6
<1> QED BY <1>7, <1>8, <1>9, <1>10 DEF Holds, t, ns, p

\* What everyone in the room was sent of the messages table.
AllHold == \A i \in Slots : Joined(i) => Holds(clients[i].stream, clients[i].since, messages)

\* No step makes a hole, repeats a row or reorders two.
LEMMA StepHolds == SessionInv /\ AllHold /\ [Next]_vars => AllHold'
<1> SUFFICES ASSUME SessionInv, AllHold, [Next]_vars,
                    NEW i \in Slots, clients'[i].active, clients'[i].joined
             PROVE  Holds(clients'[i].stream, clients'[i].since, messages')
  BY DEF AllHold, Joined
<1> DEFINE c == clients[i]
           d == clients'[i]
<1>1. SoundState /\ Shape
  BY StepShape DEF SessionInv
<1>2. i \in Room(clients) => Holds(c.stream, c.since, messages)
  BY DEF AllHold, Joined, Room
<1>3. c.stream \in Seq(Packet) /\ c.since \in Nat /\ messages \in Seq(Nat) /\ Len(messages) \in Nat
  BY RoomTypes
<1>4. ASSUME NEW p \in Packet, NEW A, p.type # "TEXT", messages' = messages,
             Hears(c, d, p, i \in A)
      PROVE  Holds(d.stream, d.since, messages')
  <2>1. /\ i \in Room(clients) /\ d.since = c.since
        /\ d.stream = IF i \in A THEN Append(c.stream, p) ELSE c.stream
    BY <1>4, InRoom
  <2>2. Holds(Append(c.stream, p), c.since, messages)
    BY <1>2, <1>3, <1>4, <2>1, HoldsOther
  <2> QED BY <1>2, <1>4, <2>1, <2>2
<1>5. CASE Private
  <2>1. PICK A : Hears(c, d, ErrorPacket, i \in A)
    BY <1>5 DEF Private, Told
  <2>2. ErrorPacket.type # "TEXT" /\ ErrorPacket \in Packet
    BY <1>1, ShapePackets DEF ErrorPacket
  <2> QED BY <1>4, <1>5, <2>1, <2>2 DEF Private
<1>6. CASE Departure
  <2>1. PICK j \in Slots : Hears(c, d, LeaveNotice(clients[j]), i \in Room(clients))
    BY <1>6 DEF Departure, Room, Told
  <2>2. LeaveNotice(clients[j]).type # "TEXT" /\ LeaveNotice(clients[j]) \in Packet
    BY <1>1, ShapePackets DEF LeaveNotice
  <2> QED BY <1>4, <1>6, <2>1, <2>2 DEF Departure
<1>7. CASE Said
  <2>1. PICK j \in Slots : /\ messages' = Append(messages, clients[j].user_id)
                           /\ Hears(c, d, TextOf(j), i \in Room(clients))
    BY <1>7 DEF Said, Room, Told
  <2>2. i \in Room(clients) /\ d.since = c.since /\ d.stream = Append(c.stream, TextOf(j))
    BY <2>1, FreeFields DEF Hears, Continues, Room
  <2>3. clients[j].user_id \in Nat
    BY RoomTypes
  <2>4. Holds(Append(c.stream, TextOf(j)), c.since, Append(messages, clients[j].user_id))
    BY <1>2, <1>3, <2>2, <2>3, HoldsText DEF TextOf
  <2> QED BY <2>1, <2>2, <2>4
<1>8. CASE Arrived
  BY <1>2, <1>8, AcceptedOut DEF Arrived
<1>9. CASE Entered
  <2>1. PICK j \in Slots, name \in Names :
          users' = WithUser(name) /\ EnteredAs(j, UserId(users', name), name)
    BY <1>9 DEF Entered
  <2> DEFINE id == UserId(users', name)
  <2>2. id \in Nat /\ JoinNotice(id) \in Packet /\ JoinNotice(id).type # "TEXT"
    BY <1>1, <2>1, JoinId, ShapePackets DEF JoinNotice
  <2> HIDE DEF id
  <2>3. EnteredAs(j, id, name)
    BY <2>1 DEF id
  <2>4. CASE i = j
    <3>1. d.since = Len(messages) /\ d.stream = <<Ack(id), JoinNotice(id)>>
      BY <2>3, <2>4 DEF EnteredAs, Enters
    <3>2. TextsOf(d.stream) = {}
      <4> DEFINE s == <<Ack(id), JoinNotice(id)>>
      <4>1. DOMAIN s = 1..2 /\ s[1].type = "ACK" /\ s[2].type = "JOIN"
        BY DEF Ack, JoinNotice
      <4> HIDE DEF s
      <4>2. TextsOf(s) = {}
        BY <4>1 DEF TextsOf
      <4> QED BY <3>1, <4>2 DEF s
    <3>3. messages' = messages
      BY <1>9 DEF Entered
    <3>4. ~\E m \in (Len(messages) + 1)..Len(messages) : TRUE
      BY <1>3
    <3>5. Holds(d.stream, Len(messages), messages)
      BY <1>3, <3>2, <3>4 DEF Holds
    <3> QED BY <3>1, <3>3, <3>5
  <2>5. CASE i # j
    <3>1. Hears(c, d, JoinNotice(id), i \in Room(clients))
      BY <2>3, <2>5 DEF EnteredAs
    <3> QED BY <1>4, <1>9, <2>2, <3>1 DEF Entered
  <2> QED BY <2>4, <2>5
<1> QED BY <1>1, <1>5, <1>6, <1>7, <1>8, <1>9 DEF Shape, Quiet

\* A joined client is sent every message stored since it joined, each once, in
\* the order of the rows and under the id that wrote it, for any number of
\* clients, messages and evictions (server.c:410-446, 647-685).
THEOREM MessagesComplete == Spec => []NoMessageMissed
<1>1. Init => AllHold
  BY FreeFields DEF Init, AllHold, Joined
<1>2. AllHold => NoMessageMissed
  BY DEF AllHold, Holds, NoMessageMissed, Texts, TextsOf
<1> QED BY <1>1, <1>2, StepHolds, Sessions, PTL DEF Spec
-----------------------------------------------------------------------------
(* The order of the broadcasts.                                             *)

PublicOf(s) == {k \in DOMAIN s : s[k].type \notin {"ACK", "ERROR"}}

Public(p) == p.type \notin {"ACK", "ERROR"}

\* FromEnd, of any stream.
RankOf(s, k) == Cardinality({l \in PublicOf(s) : l >= k})

\* The broadcasts in two streams agree from the last one back.
Agree(s, t) ==
    \A k \in PublicOf(s), l \in PublicOf(t) : RankOf(s, k) = RankOf(t, l) => s[k] = t[l]

\* There are finitely many broadcasts, each of which counts itself.
LEMMA RankType ==
  ASSUME NEW s \in Seq(Packet), NEW k \in PublicOf(s)
  PROVE  /\ IsFiniteSet({l \in PublicOf(s) : l >= k})
         /\ RankOf(s, k) \in Nat /\ RankOf(s, k) # 0
<1> DEFINE R == {l \in PublicOf(s) : l >= k}
<1>1. k \in R /\ R \subseteq 1..Len(s) /\ Len(s) \in Nat
  BY DEF PublicOf
<1>2. IsFiniteSet(1..Len(s))
  BY <1>1, FS_Interval
<1> HIDE DEF R
<1>3. IsFiniteSet(R)
  BY <1>1, <1>2, FS_Subset
<1>4. Cardinality(R) \in Nat /\ Cardinality(R) # 0
  BY <1>1, <1>3, FS_CardinalityType, FS_EmptySet
<1> QED BY <1>3, <1>4 DEF R, RankOf

\* A packet that is no broadcast changes neither positions nor ranks.
LEMMA RankOther ==
  ASSUME NEW s \in Seq(Packet), NEW p \in Packet, ~Public(p)
  PROVE  LET t == Append(s, p)
         IN  /\ PublicOf(t) = PublicOf(s)
             /\ \A k \in PublicOf(s) : t[k] = s[k] /\ RankOf(t, k) = RankOf(s, k)
<1> DEFINE t == Append(s, p)
<1>1. /\ DOMAIN s = 1..Len(s) /\ DOMAIN t = 1..(Len(s) + 1) /\ Len(s) \in Nat
      /\ \A k \in 1..Len(s) : t[k] = s[k]
      /\ t[Len(s) + 1] = p
  BY Longer
<1> HIDE DEF t
<1>2. PublicOf(t) = PublicOf(s)
  BY <1>1 DEF PublicOf, Public
<1>3. \A k \in PublicOf(s) : t[k] = s[k]
  BY <1>1 DEF PublicOf
<1> QED BY <1>2, <1>3 DEF RankOf, t

\* A broadcast is the last, and every one before it moves up by one.
LEMMA RankPublic ==
  ASSUME NEW s \in Seq(Packet), NEW p \in Packet, Public(p)
  PROVE  LET t == Append(s, p)
             e == Len(s) + 1
         IN  /\ PublicOf(t) = PublicOf(s) \cup {e}
             /\ t[e] = p /\ RankOf(t, e) = 1
             /\ \A k \in PublicOf(s) : t[k] = s[k] /\ RankOf(t, k) = RankOf(s, k) + 1
<1> DEFINE t == Append(s, p)
           e == Len(s) + 1
<1>1. /\ DOMAIN s = 1..Len(s) /\ DOMAIN t = 1..e /\ Len(s) \in Nat /\ e \in Nat
      /\ \A k \in 1..Len(s) : t[k] = s[k] /\ k < e /\ k \in Int
      /\ t[e] = p
  BY Longer
<1> HIDE DEF t, e
<1>2. e \in 1..e /\ \A k \in 1..e : k \in 1..Len(s) \/ k = e
  BY <1>1 DEF e
<1>3. PublicOf(s) \subseteq 1..Len(s) /\ 1..Len(s) \subseteq 1..e
  BY <1>1 DEF PublicOf
<1>4. PublicOf(t) = PublicOf(s) \cup {e}
  BY <1>1, <1>2, <1>3 DEF PublicOf, Public
<1>5. RankOf(t, e) = 1
  <2>1. {l \in PublicOf(t) : l >= e} = {e}
    BY <1>1, <1>3, <1>4
  <2> QED BY <2>1, FS_Singleton DEF RankOf
<1>6. ASSUME NEW k \in PublicOf(s) PROVE t[k] = s[k] /\ RankOf(t, k) = RankOf(s, k) + 1
  <2> DEFINE R == {l \in PublicOf(s) : l >= k}
  <2>1. k \in 1..Len(s) /\ t[k] = s[k] /\ e >= k
    BY <1>1, <1>3
  <2>2. {l \in PublicOf(t) : l >= k} = R \cup {e}
    BY <1>4, <2>1
  <2>3. e \notin R
    BY <1>1, <1>3
  <2>4. IsFiniteSet(R)
    BY RankType
  <2> HIDE DEF R
  <2>5. Cardinality(R \cup {e}) = Cardinality(R) + 1
    BY <2>3, <2>4, FS_AddElement
  <2> QED BY <2>1, <2>2, <2>5 DEF RankOf, R
<1> QED BY <1>1, <1>4, <1>5, <1>6 DEF t, e

\* Streams that agree do so after a packet to one of them that is no broadcast,
LEMMA AgreeOther ==
  ASSUME NEW s \in Seq(Packet), NEW t \in Seq(Packet), NEW p \in Packet, ~Public(p), Agree(s, t)
  PROVE  Agree(Append(s, p), t)
<1> DEFINE u == Append(s, p)
<1>1. /\ PublicOf(u) = PublicOf(s)
      /\ \A k \in PublicOf(s) : u[k] = s[k] /\ RankOf(u, k) = RankOf(s, k)
  BY RankOther
<1> HIDE DEF u
<1>2. Agree(u, t)
  BY <1>1 DEF Agree
<1> QED BY <1>2 DEF u

\* and after a broadcast to both.
LEMMA AgreePublic ==
  ASSUME NEW s \in Seq(Packet), NEW t \in Seq(Packet), NEW p \in Packet, Public(p), Agree(s, t)
  PROVE  Agree(Append(s, p), Append(t, p))
<1> DEFINE u == Append(s, p)
           v == Append(t, p)
           d == Len(s) + 1
           e == Len(t) + 1
<1>1. /\ PublicOf(u) = PublicOf(s) \cup {d}
      /\ u[d] = p /\ RankOf(u, d) = 1
      /\ \A k \in PublicOf(s) : u[k] = s[k] /\ RankOf(u, k) = RankOf(s, k) + 1
  BY RankPublic
<1>2. /\ PublicOf(v) = PublicOf(t) \cup {e}
      /\ v[e] = p /\ RankOf(v, e) = 1
      /\ \A k \in PublicOf(t) : v[k] = t[k] /\ RankOf(v, k) = RankOf(t, k) + 1
  BY RankPublic
<1>3. /\ \A k \in PublicOf(s) : RankOf(s, k) \in Nat /\ RankOf(s, k) # 0
      /\ \A k \in PublicOf(t) : RankOf(t, k) \in Nat /\ RankOf(t, k) # 0
  BY RankType
<1> HIDE DEF u, v, d, e
<1> SUFFICES ASSUME NEW k \in PublicOf(u), NEW l \in PublicOf(v), RankOf(u, k) = RankOf(v, l)
             PROVE  u[k] = v[l]
  BY DEF Agree, u, v
<1>4. CASE k = d /\ l = e
  BY <1>1, <1>2, <1>4
<1>5. CASE k = d /\ l \in PublicOf(t)
  <2>1. RankOf(v, l) = RankOf(t, l) + 1 /\ RankOf(t, l) \in Nat /\ RankOf(t, l) # 0
    BY <1>2, <1>3, <1>5
  <2> QED BY <1>1, <1>5, <2>1
<1>6. CASE k \in PublicOf(s) /\ l = e
  BY <1>1, <1>2, <1>3, <1>6
<1>7. CASE k \in PublicOf(s) /\ l \in PublicOf(t)
  <2>1. RankOf(s, k) = RankOf(t, l)
    BY <1>1, <1>2, <1>3, <1>7
  <2> QED BY <1>1, <1>2, <1>7, <2>1 DEF Agree
<1> QED BY <1>1, <1>2, <1>4, <1>5, <1>6, <1>7

\* The rank is counted the same from either side.
LEMMA AgreeSwap ==
  ASSUME NEW s, NEW t, Agree(s, t) PROVE Agree(t, s)
  BY DEF Agree

\* Everyone in the room agrees with everyone.
AllAgree ==
    \A i, j \in Slots : Joined(i) /\ Joined(j) => Agree(clients[i].stream, clients[j].stream)

\* A step that sends some slots an ERROR, and some nothing.
LEMMA PrivateAgree ==
  ASSUME SessionInv, AllAgree, Private, NEW i \in Slots, NEW j \in Slots, Joined(i)', Joined(j)'
  PROVE  Agree(clients'[i].stream, clients'[j].stream)
<1>1. PICK A : /\ Hears(clients[i], clients'[i], ErrorPacket, i \in A)
               /\ Hears(clients[j], clients'[j], ErrorPacket, j \in A)
  BY DEF Private, Told
<1> DEFINE s == clients[i].stream
           t == clients[j].stream
<1>2. s \in Seq(Packet) /\ t \in Seq(Packet)
  BY RoomTypes
<1>3. ErrorPacket \in Packet /\ ~Public(ErrorPacket)
  BY ShapePackets DEF SessionInv, ErrorPacket, Public
<1>4. /\ i \in Room(clients) /\ clients'[i].stream \in {s, Append(s, ErrorPacket)}
      /\ j \in Room(clients) /\ clients'[j].stream \in {t, Append(t, ErrorPacket)}
  BY <1>1, InRoom DEF Joined
<1>5. Agree(s, t)
  BY <1>4 DEF AllAgree, Joined, Room
<1> HIDE DEF s, t
<1>6. Append(t, ErrorPacket) \in Seq(Packet)
  BY <1>2, <1>3
<1>7. Agree(s, Append(t, ErrorPacket))
  BY <1>2, <1>3, <1>5, AgreeSwap, AgreeOther
<1>8. Agree(Append(s, ErrorPacket), t) /\ Agree(Append(s, ErrorPacket), Append(t, ErrorPacket))
  BY <1>2, <1>3, <1>5, <1>6, <1>7, AgreeOther
<1> QED BY <1>4, <1>5, <1>7, <1>8

\* A step that sends p to the whole room.
LEMMA PublicAgree ==
  ASSUME SessionInv, AllAgree, NEW p \in Packet, Public(p),
         NEW i \in Slots, NEW j \in Slots, Joined(i)', Joined(j)',
         Hears(clients[i], clients'[i], p, i \in Room(clients)),
         Hears(clients[j], clients'[j], p, j \in Room(clients))
  PROVE  Agree(clients'[i].stream, clients'[j].stream)
<1> DEFINE s == clients[i].stream
           t == clients[j].stream
<1>1. s \in Seq(Packet) /\ t \in Seq(Packet)
  BY RoomTypes
<1>2. /\ i \in Room(clients) /\ clients'[i].stream = Append(s, p)
      /\ j \in Room(clients) /\ clients'[j].stream = Append(t, p)
  <2>1. /\ clients'[i].active /\ clients'[i].joined
        /\ clients'[j].active /\ clients'[j].joined
    BY DEF Joined
  <2>2. i \in Room(clients) /\ clients'[i].stream = Append(s, p)
    BY <2>1, FreeFields DEF Hears, Continues, Room
  <2>3. j \in Room(clients) /\ clients'[j].stream = Append(t, p)
    BY <2>1, FreeFields DEF Hears, Continues, Room
  <2> QED BY <2>2, <2>3
<1>3. Agree(s, t)
  BY <1>2 DEF AllAgree, Joined, Room
<1> HIDE DEF s, t
<1>4. Agree(Append(s, p), Append(t, p))
  BY <1>1, <1>3, AgreePublic
<1> QED BY <1>2, <1>4

\* Whoever enters has seen the one broadcast that everyone saw last.
LEMMA NewcomerAgrees ==
  ASSUME NEW id \in Nat, NEW s \in Seq(Packet)
  PROVE  /\ Agree(<<Ack(id), JoinNotice(id)>>, Append(s, JoinNotice(id)))
         /\ Agree(<<Ack(id), JoinNotice(id)>>, <<Ack(id), JoinNotice(id)>>)
<1> DEFINE a == <<Ack(id)>>
           p == JoinNotice(id)
<1>1. Ack(id) \in Packet /\ p \in Packet /\ Public(p) /\ ~Public(Ack(id))
  BY DEF Ack, JoinNotice, Packet, Public
<1>2. a \in Seq(Packet)
  BY <1>1
<1>3. PublicOf(a) = {}
  <2>1. DOMAIN a = 1..1 /\ a[1] = Ack(id)
    OBVIOUS
  <2> HIDE DEF a
  <2> QED BY <1>1, <2>1 DEF PublicOf, Public
<1>4. Append(a, p) = <<Ack(id), p>>
  BY <1>1, Pair
<1> HIDE DEF a, p
<1>5. Agree(a, s) /\ Agree(a, a)
  BY <1>3 DEF Agree
<1>6. Agree(Append(a, p), Append(s, p)) /\ Agree(Append(a, p), Append(a, p))
  BY <1>1, <1>2, <1>5, AgreePublic
<1> QED BY <1>4, <1>6 DEF p

\* A JOIN that is accepted.
LEMMA EnteredAgree ==
  ASSUME SessionInv, AllAgree, Entered, NEW i \in Slots, NEW j \in Slots, Joined(i)', Joined(j)'
  PROVE  Agree(clients'[i].stream, clients'[j].stream)
<1>1. PICK e \in Slots, name \in Names :
        users' = WithUser(name) /\ EnteredAs(e, UserId(users', name), name)
  BY DEF Entered
<1> DEFINE id == UserId(users', name)
<1>2. id \in Nat /\ JoinNotice(id) \in Packet /\ Public(JoinNotice(id))
  BY <1>1, JoinId, ShapePackets DEF JoinNotice, SessionInv, Public
<1> HIDE DEF id
<1>3. EnteredAs(e, id, name)
  BY <1>1 DEF id
<1>4. clients'[e].stream = <<Ack(id), JoinNotice(id)>>
  BY <1>3 DEF EnteredAs, Enters
<1>5. ASSUME NEW k \in Slots \ {e}, Joined(k)'
      PROVE  /\ Hears(clients[k], clients'[k], JoinNotice(id), k \in Room(clients))
             /\ clients[k].stream \in Seq(Packet)
             /\ clients'[k].stream = Append(clients[k].stream, JoinNotice(id))
  <2>1. Hears(clients[k], clients'[k], JoinNotice(id), k \in Room(clients))
    BY <1>3 DEF EnteredAs
  <2>2. clients'[k].active /\ clients'[k].joined
    BY <1>5 DEF Joined
  <2>3. /\ k \in Room(clients)
        /\ clients'[k].stream = Append(clients[k].stream, JoinNotice(id))
    BY <2>1, <2>2, InRoom
  <2> QED BY <2>1, <2>3, RoomTypes
<1>6. CASE i = e /\ j = e
  BY <1>2, <1>4, <1>6, RoomTypes, NewcomerAgrees
<1>7. CASE i = e /\ j # e
  BY <1>2, <1>4, <1>5, <1>7, NewcomerAgrees
<1>8. CASE i # e /\ j = e
  BY <1>2, <1>4, <1>5, <1>8, NewcomerAgrees, AgreeSwap
<1>9. CASE i # e /\ j # e
  BY <1>2, <1>5, <1>9, PublicAgree
<1> QED BY <1>6, <1>7, <1>8, <1>9

\* No step lets two clients in the room disagree.
LEMMA StepAgree == SessionInv /\ AllAgree /\ [Next]_vars => AllAgree'
<1> SUFFICES ASSUME SessionInv, AllAgree, [Next]_vars,
                    NEW i \in Slots, NEW j \in Slots, Joined(i)', Joined(j)'
             PROVE  Agree(clients'[i].stream, clients'[j].stream)
  BY DEF AllAgree
<1>1. Shape /\ SoundState
  BY StepShape DEF SessionInv
<1>2. CASE Private
  BY <1>2, PrivateAgree
<1>3. CASE Departure
  <2>1. PICK g \in Slots : Told(clients, clients', LeaveNotice(clients[g]), Room(clients))
    BY <1>3 DEF Departure, Room
  <2>2. LeaveNotice(clients[g]) \in Packet /\ Public(LeaveNotice(clients[g]))
    BY <1>1, ShapePackets DEF LeaveNotice, Public
  <2> QED BY <2>1, <2>2, PublicAgree DEF Told
<1>4. CASE Said
  <2>1. PICK g \in Slots : Told(clients, clients', TextOf(g), Room(clients))
    BY <1>4 DEF Said, Room
  <2>2. TextOf(g) \in Packet /\ Public(TextOf(g))
    BY <1>1, ShapePackets DEF TextOf, Public
  <2> QED BY <2>1, <2>2, PublicAgree DEF Told
<1>5. CASE Arrived
  BY <1>5, AcceptedOut DEF AllAgree, Joined, Room
<1>6. CASE Entered
  BY <1>6, EnteredAgree
<1> QED BY <1>1, <1>2, <1>3, <1>4, <1>5, <1>6 DEF Shape, Quiet

\* Everyone in the room sees the same sequence of messages and notices, for any
\* number of clients and any evictions, departures and joins among them
\* (server.c:410-446, 463-503).
THEOREM OrderShared == Spec => []SameOrderForAll
<1>1. Init => AllAgree
  BY FreeFields DEF Init, AllAgree, Joined
<1>2. AllAgree => SameOrderForAll
  BY DEF AllAgree, Agree, SameOrderForAll, FromEnd, Broadcasts, PublicOf, RankOf
<1> QED BY <1>1, <1>2, StepAgree, Sessions, PTL DEF Spec
-----------------------------------------------------------------------------
(* Departures.                                                              *)

NoticesOf(s, id) == {k \in DOMAIN s : s[k].type \in {"JOIN", "LEAVE"} /\ s[k].sender = id}

\* Packet p is a notice about user id.
About(p, id) == p.type \in {"JOIN", "LEAVE"} /\ p.sender = id

\* The last notice about user id in the stream s is not a LEAVE.
Present(s, id) ==
    \A k \in NoticesOf(s, id) :
        (\A l \in NoticesOf(s, id) : l <= k) => s[k].type = "JOIN"

\* A packet that is no notice about the user changes nothing,
LEMMA PresentOther ==
  ASSUME NEW s \in Seq(Packet), NEW p \in Packet, NEW id, ~About(p, id), Present(s, id)
  PROVE  Present(Append(s, p), id)
<1> DEFINE t == Append(s, p)
<1>1. /\ DOMAIN s = 1..Len(s) /\ DOMAIN t = 1..(Len(s) + 1) /\ Len(s) \in Nat
      /\ \A k \in 1..Len(s) : t[k] = s[k]
      /\ t[Len(s) + 1] = p
  BY Longer
<1> HIDE DEF t
<1>2. NoticesOf(t, id) = NoticesOf(s, id)
  BY <1>1 DEF NoticesOf, About
<1>3. \A k \in NoticesOf(s, id) : t[k] = s[k]
  BY <1>1 DEF NoticesOf
<1> QED BY <1>2, <1>3 DEF Present, t

\* and a JOIN notice about it is the last.
LEMMA PresentJoin ==
  ASSUME NEW s \in Seq(Packet), NEW id \in Nat
  PROVE  Present(Append(s, JoinNotice(id)), id)
<1> DEFINE p == JoinNotice(id)
           t == Append(s, p)
           e == Len(s) + 1
<1>1. p \in Packet /\ About(p, id) /\ p.type = "JOIN"
  BY DEF JoinNotice, Packet, About
<1> HIDE DEF p
<1>2. DOMAIN t = 1..e /\ Len(s) \in Nat /\ t[e] = p
  BY <1>1, Longer
<1> HIDE DEF t
<1>3. e \in NoticesOf(t, id)
  BY <1>1, <1>2 DEF NoticesOf, About
<1>4. \A k \in NoticesOf(t, id) : k \in 1..e
  BY <1>2 DEF NoticesOf
<1>5. ASSUME NEW k \in NoticesOf(t, id), \A l \in NoticesOf(t, id) : l <= k
      PROVE  t[k].type = "JOIN"
  <2>1. k = e
    BY <1>2, <1>3, <1>4, <1>5
  <2> QED BY <1>1, <1>2, <2>1
<1>6. Present(t, id)
  BY <1>5 DEF Present
<1> QED BY <1>6 DEF t, p

\* Nobody in the room has been announced to anybody in it as gone.
AllPresent ==
    \A i, j \in Slots : Joined(i) /\ Joined(j) =>
        Present(clients[i].stream, clients[j].user_id)

\* Two clients in the room have two ids, for their names differ and every id is
\* the row of one name.
LEMMA IdsApart ==
  ASSUME SessionInv, UniqueNames, NEW i \in Slots, NEW j \in Slots, Joined(i), Joined(j), i # j
  PROVE  clients[i].user_id # clients[j].user_id
<1>1. /\ users[clients[i].user_id] = clients[i].username
      /\ users[clients[j].user_id] = clients[j].username
  BY DEF SessionInv, CleanSlot, Joined
<1>2. clients[i].username # clients[j].username
  BY DEF UniqueNames
<1> QED BY <1>1, <1>2

\* A step that sends the slots of A a packet that is no notice about anyone left.
LEMMA OtherPresent ==
  ASSUME SessionInv, AllPresent, NEW p \in Packet, NEW A,
         NEW i \in Slots, NEW j \in Slots, NEW B, Joined(i)', Joined(j)',
         Hears(clients[i], clients'[i], p, i \in A),
         Hears(clients[j], clients'[j], p, j \in B),
         ~About(p, clients[j].user_id)
  PROVE  Present(clients'[i].stream, clients'[j].user_id)
<1> DEFINE s == clients[i].stream
           u == clients[j].user_id
<1>1. clients'[i].active /\ clients'[i].joined /\ clients'[j].active /\ clients'[j].joined
  BY DEF Joined
<1>2. i \in Room(clients) /\ clients'[i].stream = IF i \in A THEN Append(s, p) ELSE s
  BY <1>1, InRoom
<1>3. j \in Room(clients) /\ clients'[j].user_id = u
  BY <1>1, InRoom
<1>4. Present(s, u)
  BY <1>2, <1>3 DEF AllPresent, Joined, Room
<1>5. s \in Seq(Packet)
  BY RoomTypes
<1> HIDE DEF s, u
<1>6. Present(Append(s, p), u)
  BY <1>4, <1>5, PresentOther DEF u
<1> QED BY <1>2, <1>3, <1>4, <1>6

\* The departure of a client is announced under its own id, and to nobody who
\* then still has that id.
LEMMA DeparturePresent ==
  ASSUME SessionInv, UniqueNames, AllPresent, Departure,
         NEW i \in Slots, NEW j \in Slots, Joined(i)', Joined(j)'
  PROVE  Present(clients'[i].stream, clients'[j].user_id)
<1>1. PICK g \in Room(clients) :
        clients'[g] = Free /\ Told(clients, clients', LeaveNotice(clients[g]), Room(clients))
  BY DEF Departure
<1>2. g \in Slots /\ Joined(g)
  BY DEF Room, Joined
<1>3. /\ Hears(clients[i], clients'[i], LeaveNotice(clients[g]), i \in Room(clients))
      /\ Hears(clients[j], clients'[j], LeaveNotice(clients[g]), j \in Room(clients))
  BY <1>1 DEF Told
<1>4. j # g
  BY <1>1, FreeFields DEF Joined
<1>5. Joined(j)
  BY <1>3, InRoom DEF Joined, Room
<1>6. clients[j].user_id # clients[g].user_id
  BY <1>2, <1>4, <1>5, IdsApart
<1>7. ~About(LeaveNotice(clients[g]), clients[j].user_id)
  BY <1>6 DEF About, LeaveNotice
<1>8. LeaveNotice(clients[g]) \in Packet
  BY <1>2, ShapePackets DEF SessionInv
<1> QED BY <1>3, <1>7, <1>8, OtherPresent

\* A JOIN is announced to everyone in the room, and last.
LEMMA EnteredPresent ==
  ASSUME SessionInv, AllPresent, UsersKept, Entered,
         NEW i \in Slots, NEW j \in Slots, Joined(i)', Joined(j)'
  PROVE  Present(clients'[i].stream, clients'[j].user_id)
<1>1. PICK e \in Slots, name \in Names :
        users' = WithUser(name) /\ EnteredAs(e, UserId(users', name), name)
  BY DEF Entered
<1> DEFINE id == UserId(users', name)
           p  == JoinNotice(id)
<1>2. id \in Nat /\ users'[id] = name /\ p \in Packet
  BY <1>1, JoinId, ShapePackets DEF SessionInv
<1>3. EnteredAs(e, id, name)
  BY <1>1
<1> HIDE DEF id, p
<1>4. /\ clients'[e].stream = <<Ack(id), JoinNotice(id)>> /\ clients'[e].user_id = id
      /\ \A k \in Slots \ {e} : Hears(clients[k], clients'[k], p, k \in Room(clients))
      /\ ~UsernameInUse(clients, name, e)
  BY <1>3 DEF EnteredAs, Enters, p
<1>5. ASSUME NEW k \in Slots \ {e}, Joined(k)'
      PROVE  /\ k \in Room(clients)
             /\ clients'[k].stream = Append(clients[k].stream, p)
             /\ clients'[k].user_id = clients[k].user_id
             /\ clients[k].user_id # id
  <2>1. Hears(clients[k], clients'[k], p, k \in Room(clients))
    BY <1>4
  <2>2. clients'[k].active /\ clients'[k].joined
    BY <1>5 DEF Joined
  <2>3. /\ k \in Room(clients) /\ clients'[k].user_id = clients[k].user_id
        /\ clients'[k].stream = Append(clients[k].stream, p)
    BY <2>1, <2>2, InRoom
  <2>4. clients[k].username # name
    BY <1>4, <2>3 DEF UsernameInUse, Room
  <2>5. users'[clients[k].user_id] = clients[k].username
    BY <2>3 DEF SessionInv, CleanSlot, Room, UsersKept
  <2> QED BY <1>2, <2>3, <2>4, <2>5
<1>6. clients'[e].stream = Append(<<Ack(id)>>, p) /\ <<Ack(id)>> \in Seq(Packet)
  <2>1. Ack(id) \in Packet
    BY <1>2 DEF Ack, Packet
  <2> QED BY <1>2, <1>4, <2>1, Pair DEF p
<1>7. CASE j = e
  <2>1. CASE i = e
    BY <1>2, <1>4, <1>6, <1>7, <2>1, PresentJoin DEF p
  <2>2. CASE i # e
    <3>1. i \in Room(clients) /\ clients'[i].stream = Append(clients[i].stream, p)
      BY <1>5, <2>2
    <3>2. clients[i].stream \in Seq(Packet)
      BY <3>1, RoomTypes
    <3>3. Present(Append(clients[i].stream, p), id)
      BY <1>2, <3>2, PresentJoin DEF p
    <3> QED BY <1>4, <1>7, <3>1, <3>3
  <2> QED BY <2>1, <2>2
<1>8. CASE j # e
  <2> DEFINE u == clients[j].user_id
  <2>1. j \in Room(clients) /\ clients'[j].user_id = u /\ u # id
    BY <1>5, <1>8
  <2>2. ~About(p, u)
    BY <2>1 DEF About, JoinNotice, p
  <2>3. CASE i = e
    <3>1. Present(<<Ack(id)>>, u)
      <4> DEFINE a == <<Ack(id)>>
      <4>1. DOMAIN a = 1..1 /\ a[1].type = "ACK"
        BY DEF Ack
      <4> HIDE DEF a
      <4>2. NoticesOf(a, u) = {}
        BY <4>1 DEF NoticesOf
      <4> QED BY <4>2 DEF Present, a
    <3> HIDE DEF u
    <3> QED BY <1>2, <1>6, <2>1, <2>2, <2>3, <3>1, PresentOther
  <2>4. CASE i # e
    <3>1. /\ Hears(clients[i], clients'[i], p, i \in Room(clients))
          /\ Hears(clients[j], clients'[j], p, j \in Room(clients))
      BY <1>4, <1>8, <2>4
    <3> QED BY <1>2, <2>2, <3>1, OtherPresent
  <2> QED BY <2>3, <2>4
<1> QED BY <1>7, <1>8

\* No step announces the departure of somebody who is in the room.
LEMMA StepPresent == SessionInv /\ UniqueNames /\ AllPresent /\ [Next]_vars => AllPresent'
<1> SUFFICES ASSUME SessionInv, UniqueNames, AllPresent, [Next]_vars,
                    NEW i \in Slots, NEW j \in Slots, Joined(i)', Joined(j)'
             PROVE  Present(clients'[i].stream, clients'[j].user_id)
  BY DEF AllPresent
<1>1. Shape /\ UsersKept /\ SoundState
  BY StepShape, StepKeepsUsers DEF SessionInv
<1>2. CASE Private
  <2>1. PICK A : Told(clients, clients', ErrorPacket, A)
    BY <1>2 DEF Private
  <2>2. ErrorPacket \in Packet /\ ~About(ErrorPacket, clients[j].user_id)
    BY <1>1, ShapePackets DEF ErrorPacket, About
  <2> QED BY <2>1, <2>2, OtherPresent DEF Told
<1>3. CASE Departure
  BY <1>3, DeparturePresent
<1>4. CASE Said
  <2>1. PICK g \in Slots : Told(clients, clients', TextOf(g), Room(clients))
    BY <1>4 DEF Said, Room
  <2>2. TextOf(g) \in Packet /\ ~About(TextOf(g), clients[j].user_id)
    BY <1>1, ShapePackets DEF TextOf, About
  <2> QED BY <2>1, <2>2, OtherPresent DEF Told
<1>5. CASE Arrived
  BY <1>5, AcceptedOut DEF AllPresent, Joined, Room
<1>6. CASE Entered
  BY <1>1, <1>6, EnteredPresent
<1> QED BY <1>1, <1>2, <1>3, <1>4, <1>5, <1>6 DEF Shape, Quiet

\* The last notice about a user in the room that another in it was sent is not a
\* LEAVE, through any evictions, silent departures and returns under the same
\* name (server.c:474-486, 584-587).
THEOREM NobodyFalselyGone == Spec => []NoFalseDeparture
<1>1. Init => AllPresent
  BY FreeFields DEF Init, AllPresent, Joined
<1>2. AllPresent => NoFalseDeparture
  BY DEF AllPresent, Present, NoFalseDeparture, Notices, NoticesOf
<1> QED BY <1>1, <1>2, StepPresent, Sessions, NamesUnique, PTL DEF Spec
-----------------------------------------------------------------------------
(* The room without its slots: Server implements ChatRoom.                  *)

\* A connection as a member of the room.
Member(c) == [id |-> c.user_id, name |-> c.username, heard |-> c.stream]

\* Members and slots in the room correspond,
LEMMA Seats ==
  ASSUME SocketsOK
  PROVE  /\ DOMAIN RoomView = Seated
         /\ \A i \in Room(clients) : /\ clients[i].socket_fd \in Seated
                                     /\ RoomView[clients[i].socket_fd] = Member(clients[i])
         /\ \A c \in Seated : \E i \in Room(clients) : clients[i].socket_fd = c
<1>1. Seated = {clients[i].socket_fd : i \in Room(clients)}
  BY DEF Seated, Room, Joined
<1>2. \A i \in Room(clients) : SeatOf(clients[i].socket_fd) = i
  BY DEF SeatOf, Room, Joined, SocketsOK, Active
<1> QED BY <1>1, <1>2 DEF RoomView, Member

\* before and after a step.
LEMMA SeatsAfter ==
  ASSUME SocketsOK'
  PROVE  /\ DOMAIN RoomView' = Seated'
         /\ \A i \in Room(clients') : /\ clients'[i].socket_fd \in Seated'
                                      /\ RoomView'[clients'[i].socket_fd] = Member(clients'[i])
         /\ \A c \in Seated' : \E i \in Room(clients') : clients'[i].socket_fd = c
<1>1. Seated' = {clients'[i].socket_fd : i \in Room(clients')}
  BY DEF Seated, Room, Joined
<1>2. \A i \in Room(clients') : \A c : clients'[i].socket_fd = c => SeatOf(c)' = i
  BY DEF SeatOf, Room, Joined, SocketsOK, Active
<1> QED BY <1>1, <1>2 DEF RoomView, Member

\* The connections of the slots A.
SocketsOf(A) == {clients[i].socket_fd : i \in A}

\* Slot i is in the room after a step as it was before, having heard p if in A.
Remains(i, p, A) ==
    /\ i \in Room(clients)
    /\ clients'[i].socket_fd = clients[i].socket_fd
    /\ clients'[i].user_id = clients[i].user_id /\ clients'[i].username = clients[i].username
    /\ clients'[i].stream = IF i \in A THEN Append(clients[i].stream, p)
                            ELSE clients[i].stream

LEMMA HearsRemains ==
  ASSUME NEW i \in Room(clients'), NEW p, NEW A, Hears(clients[i], clients'[i], p, i \in A)
  PROVE  Remains(i, p, A)
<1>1. Continues(clients[i], clients'[i])
      /\ clients'[i].stream = IF i \in A THEN Append(clients[i].stream, p)
                              ELSE clients[i].stream
  BY FreeFields DEF Hears, Room
<1> QED BY <1>1 DEF Continues, Remains, Room

\* A step in which nobody enters is one of the room's.
LEMMA RoomTold ==
  ASSUME SocketsOK, SocketsOK', NEW p, NEW A \in SUBSET Room(clients),
         \A i \in Room(clients') : Remains(i, p, A)
  PROVE  /\ Chat!Members' \subseteq Chat!Members
         /\ RoomView' = Chat!Told(SocketsOf(A), p)
<1>1. Chat!Members = Seated /\ Chat!Members' = Seated'
  BY Seats, SeatsAfter DEF Chat!Members
<1>2. ASSUME NEW c \in Seated'
      PROVE  /\ c \in Seated
             /\ RoomView'[c] = IF c \in SocketsOf(A) THEN Chat!Hears(c, p) ELSE RoomView[c]
  <2>1. PICK i \in Room(clients') : clients'[i].socket_fd = c
    BY SeatsAfter
  <2>2. Remains(i, p, A) /\ i \in Room(clients) /\ clients[i].socket_fd = c
    BY <2>1 DEF Remains
  <2>3. /\ c \in Seated /\ RoomView[c] = Member(clients[i])
        /\ RoomView'[c] = Member(clients'[i])
    BY <2>1, <2>2, Seats, SeatsAfter
  <2>4. c \in SocketsOf(A) <=> i \in A
    BY <2>2 DEF SocketsOf, SocketsOK, Active, Room
  <2>5. Chat!Hears(c, p) = [Member(clients[i]) EXCEPT !.heard = Append(@, p)]
    BY <2>3 DEF Chat!Hears
  <2> QED BY <2>2, <2>3, <2>4, <2>5 DEF Remains, Member
<1>3. RoomView' = [c \in Seated' |-> RoomView'[c]]
  BY DEF RoomView
<1> QED BY <1>1, <1>2, <1>3 DEF Chat!Told

\* All of the room's members are the connections of all of its slots.
LEMMA AllSeated == ASSUME SocketsOK PROVE SocketsOf(Room(clients)) = Chat!Members
  BY Seats DEF SocketsOf, Chat!Members

\* The shapes in which nobody enters.
LEMMA PrivateRoom ==
  ASSUME SocketsOK, SocketsOK', Private PROVE Chat!Complain
<1>1. PICK A \in SUBSET Room(clients) : Told(clients, clients', ErrorPacket, A)
  BY DEF Private
<1>2. \A i \in Room(clients') : Remains(i, ErrorPacket, A)
  BY <1>1, HearsRemains DEF Told, Room
<1>3. Chat!Packet("ERROR", 0, 0) = ErrorPacket
  BY DEF Chat!Packet, ErrorPacket
<1>4. SocketsOf(A) \in SUBSET Chat!Members
  BY <1>1, AllSeated DEF SocketsOf
<1>5. /\ Chat!Members' \subseteq Chat!Members
      /\ RoomView' = Chat!Told(SocketsOf(A), ErrorPacket)
  BY <1>2, RoomTold
<1> QED BY <1>3, <1>4, <1>5 DEF Chat!Complain, Private

LEMMA SaidRoom ==
  ASSUME SessionInv, SocketsOK, SocketsOK', Said PROVE Chat!Say
<1>1. PICK g \in Room(clients) : /\ messages' = Append(messages, clients[g].user_id)
                                 /\ Told(clients, clients', TextOf(g), Room(clients))
  BY DEF Said
<1>2. \A i \in Room(clients') : Remains(i, TextOf(g), Room(clients))
  BY <1>1, HearsRemains DEF Told, Room
<1> DEFINE c == clients[g].socket_fd
<1>3. c \in Chat!Members /\ RoomView[c].id = clients[g].user_id
  <2>1. c \in Seated /\ RoomView[c] = Member(clients[g])
    BY <1>1, Seats
  <2> QED BY <2>1, Seats DEF Member, Chat!Members
<1>4. Len(messages') = Len(messages) + 1
  BY <1>1, RoomTypes DEF Room
<1>5. Chat!Packet("TEXT", RoomView[c].id, Len(messages')) = TextOf(g)
  BY <1>3, <1>4 DEF Chat!Packet, TextOf
<1>6. /\ Chat!Members' \subseteq Chat!Members
      /\ RoomView' = Chat!Told(Chat!Members, TextOf(g))
  BY <1>2, AllSeated, RoomTold
<1> HIDE DEF c
<1> QED BY <1>1, <1>3, <1>5, <1>6 DEF Chat!Say

LEMMA DepartureRoom ==
  ASSUME SocketsOK, SocketsOK', Departure PROVE Chat!Leave
<1>1. PICK g \in Room(clients) :
        /\ clients'[g] = Free
        /\ Told(clients, clients', LeaveNotice(clients[g]), Room(clients))
  BY DEF Departure
<1> DEFINE c == clients[g].socket_fd
           p == LeaveNotice(clients[g])
<1>2. \A i \in Room(clients') : Remains(i, p, Room(clients))
  BY <1>1, HearsRemains DEF Told, Room
<1>3. c \in Chat!Members /\ RoomView[c].id = clients[g].user_id
  <2>1. c \in Seated /\ RoomView[c] = Member(clients[g])
    BY <1>1, Seats
  <2> QED BY <2>1, Seats DEF Member, Chat!Members
<1>4. Chat!Packet("LEAVE", RoomView[c].id, 0) = p
  BY <1>3 DEF Chat!Packet, LeaveNotice
<1>5. c \notin Chat!Members'
  <2> SUFFICES ASSUME c \in Seated' PROVE FALSE
    BY SeatsAfter DEF Chat!Members
  <2>1. PICK i \in Room(clients') : clients'[i].socket_fd = c
    BY SeatsAfter
  <2>2. i \in Room(clients) /\ clients[i].socket_fd = c
    BY <1>2, <2>1 DEF Remains
  <2>3. i = g
    BY <2>2 DEF SocketsOK, Active, Room
  <2> QED BY <1>1, <2>1, <2>3, FreeFields DEF Room
<1> HIDE DEF c, p
<1>6. Chat!Members' \subseteq Chat!Members /\ RoomView' = Chat!Told(Chat!Members, p)
  BY <1>2, AllSeated, RoomTold
<1> QED BY <1>3, <1>4, <1>5, <1>6 DEF Chat!Leave, Departure

LEMMA ArrivedRoom ==
  ASSUME SessionInv, SocketsOK, SocketsOK', Arrived PROVE Chat!Complain
<1>1. \A i \in Room(clients') : i \in Room(clients) /\ clients'[i] = clients[i]
  BY AcceptedOut DEF Room
<1>2. \A i \in Room(clients') : Remains(i, ErrorPacket, {})
  BY <1>1 DEF Remains, Member
<1>3. /\ Chat!Members' \subseteq Chat!Members
      /\ RoomView' = Chat!Told({}, ErrorPacket)
  <2>1. SocketsOf({}) = {}
    BY DEF SocketsOf
  <2> QED BY <1>2, <2>1, RoomTold
<1>4. Chat!Packet("ERROR", 0, 0) = ErrorPacket
  BY DEF Chat!Packet, ErrorPacket
<1> QED BY <1>3, <1>4 DEF Chat!Complain, Arrived

\* Slot e, which joins as user id, is on a connection that was in the room on no
\* slot, and everyone else in the room has another name and another id.
LEMMA Newcomer ==
  ASSUME SessionInv, SocketsOK, UsersKept, NEW e \in Slots, NEW name \in Names, NEW id,
         users'[id] = name, EnteredAs(e, id, name)
  PROVE  /\ clients[e].socket_fd \in Conns /\ sock[clients[e].socket_fd] = "held"
         /\ clients[e].socket_fd \notin Seated
         /\ \A i \in Room(clients) : clients[i].username # name /\ clients[i].user_id # id
<1>1. clients[e].active /\ ~clients[e].joined
  BY DEF EnteredAs, Enters
<1>2. clients[e].socket_fd \in Conns
  BY <1>1 DEF SessionInv, SoundState, TableOK, SlotOK
<1>3. sock[clients[e].socket_fd] = "held"
  BY <1>1, <1>2 DEF SocketsOK, Active
<1>4. clients[e].socket_fd \notin Seated
  <2>1. \A i \in Room(clients) : clients[i].socket_fd # clients[e].socket_fd
    BY <1>1 DEF SocketsOK, Active, Room
  <2> QED BY <2>1, Seats
<1>5. ASSUME NEW i \in Room(clients) PROVE clients[i].username # name /\ clients[i].user_id # id
  <2>1. i # e /\ clients[i].username # name
    BY <1>1 DEF Room, EnteredAs, UsernameInUse
  <2>2. users'[clients[i].user_id] = clients[i].username
    BY DEF SessionInv, CleanSlot, Room, UsersKept
  <2> QED BY <2>1, <2>2
<1> QED BY <1>2, <1>3, <1>4, <1>5

LEMMA EnteredRoom ==
  ASSUME SessionInv, UsersKept, SocketsOK, SocketsOK', Entered PROVE Chat!Enter
<1>1. PICK e \in Slots, name \in Names :
        users' = WithUser(name) /\ EnteredAs(e, UserId(users', name), name)
  BY DEF Entered
<1> DEFINE id == UserId(users', name)
           c  == clients[e].socket_fd
           p  == JoinNotice(id)
<1>2. users'[id] = name
  BY <1>1, JoinId DEF SessionInv
<1>3. EnteredAs(e, id, name)
  BY <1>1
<1> HIDE DEF id
<1>4. /\ c \in Conns /\ sock[c] = "held" /\ c \notin Seated
      /\ \A i \in Room(clients) : clients[i].username # name /\ clients[i].user_id # id
  BY <1>2, <1>3, Newcomer
<1>5. /\ e \in Room(clients') /\ clients'[e].socket_fd = c
      /\ Member(clients'[e]) = [id |-> id, name |-> name, heard |-> <<Ack(id), p>>]
  BY <1>3 DEF EnteredAs, Enters, Room, Member
<1>6. ASSUME NEW i \in Room(clients'), i # e PROVE Remains(i, p, Room(clients))
  <2>1. Hears(clients[i], clients'[i], p, i \in Room(clients))
    BY <1>3, <1>6 DEF EnteredAs, Room
  <2> QED BY <2>1, HearsRemains
<1> HIDE DEF c
<1>7. c \in Seated' /\ RoomView'[c] = [id |-> id, name |-> name, heard |-> <<Ack(id), p>>]
  BY <1>5, SeatsAfter
<1> HIDE DEF p
<1>8. ASSUME NEW d \in Seated', d # c
      PROVE  d \in Seated /\ RoomView'[d] = Chat!Hears(d, p)
  <2>1. PICK i \in Room(clients') : clients'[i].socket_fd = d
    BY SeatsAfter
  <2>2. Remains(i, p, Room(clients)) /\ i \in Room(clients) /\ clients[i].socket_fd = d
    BY <1>5, <1>6, <1>8, <2>1 DEF Remains
  <2>3. /\ d \in Seated /\ RoomView[d] = Member(clients[i])
        /\ RoomView'[d] = Member(clients'[i])
    BY <2>1, <2>2, Seats, SeatsAfter
  <2>4. Chat!Hears(d, p) = [Member(clients[i]) EXCEPT !.heard = Append(@, p)]
    BY <2>3 DEF Chat!Hears
  <2> QED BY <2>2, <2>3, <2>4 DEF Remains, Member
<1>9. ASSUME NEW d \in Seated PROVE RoomView[d].name # name /\ RoomView[d].id # id
  <2>1. PICK i \in Room(clients) : RoomView[d] = Member(clients[i])
    BY Seats
  <2> QED BY <1>4, <2>1 DEF Member
<1>10. Chat!Members = Seated /\ Chat!Members' = Seated'
  BY Seats, SeatsAfter DEF Chat!Members
<1>11. p = Chat!Packet("JOIN", id, 0) /\ Ack(id) = Chat!Packet("ACK", id, 0)
  BY DEF p, JoinNotice, Ack, Chat!Packet
<1>12. RoomView' = [d \in Seated' |->
                      IF d = c THEN [id |-> id, name |-> name, heard |-> <<Ack(id), p>>]
                      ELSE Chat!Hears(d, p)]
  <2>1. RoomView' = [d \in Seated' |-> RoomView'[d]]
    BY DEF RoomView
  <2> QED BY <1>7, <1>8, <2>1
<1>13. RoomView'[c].id = id /\ RoomView'[c].name = name
  BY <1>7
<1>14. c \notin {d \in Conns : sock[d] = "closed"}
  BY <1>4
<1> QED
  BY <1>4, <1>7, <1>8, <1>9, <1>10, <1>11, <1>12, <1>13, <1>14 DEF Chat!Enter, Entered

\* A socket that was closed is closed for good, and one that is held stays held
\* or is closed.
SocketsAge ==
    \A c \in Conns : /\ sock[c] = "closed" => sock'[c] = "closed"
                     /\ sock[c] = "held" => sock'[c] \in {"held", "closed"}

LEMMA SettleAges == ASSUME NEW cs, NEW ib, Settle(cs, ib) PROVE SocketsAge
<1>1. \A c \in Conns : sock'[c] \in {sock[c], "closed"}
  BY DEF Settle
<1> QED BY <1>1 DEF SocketsAge

LEMMA ExitAges == ASSUME NEW code, Exit(code) PROVE SocketsAge
  BY DEF Exit, SocketsAge

LEMMA IdleAges == ASSUME sock' = sock PROVE SocketsAge
  BY DEF SocketsAge

LEMMA KernelAges ==
  ASSUME SoundState, NEW c \in Conns, sock[c] \in {"none", "backlog"}, NEW s,
         sock' = [sock EXCEPT ![c] = s]
  PROVE  SocketsAge
<1>1. \A d \in Conns : sock'[d] = IF d = c THEN s ELSE sock[d]
  BY DEF SoundState, TypeOK
<1> QED BY <1>1 DEF SocketsAge

LEMMA ServeAges == ASSUME NEW i \in Slots, ServeSlot(i) PROVE SocketsAge
<1>1. ASSUME NEW cs, NEW announce, Drop(cs, i, announce) PROVE SocketsAge
  BY <1>1, SettleAges DEF Drop
<1>2. ASSUME Refuse(i) PROVE SocketsAge
  BY <1>1, <1>2 DEF Refuse
<1>3. ASSUME NEW cs, Keep(cs, i) PROVE SocketsAge
  BY <1>3, IdleAges DEF Keep
<1>4. CASE DrainSend(i)
  BY <1>4, IdleAges DEF DrainSend
<1>5. CASE DrainBroken(i)
  BY <1>1, <1>5, ExitAges DEF DrainBroken
<1>6. CASE ReadClosed(i)
  BY <1>1, <1>6 DEF ReadClosed
<1>7. CASE ReadError(i)
  BY <1>1, <1>3, <1>7 DEF ReadError
<1>8. CASE JoinRejected(i) \/ JoinFails(i) \/ TextUnjoined(i) \/ TextFails(i) \/ Unsupported(i)
  BY <1>2, <1>8 DEF JoinRejected, JoinFails, TextUnjoined, TextFails, Unsupported
<1>9. CASE JoinAccepted(i)
  BY <1>9, SettleAges DEF JoinAccepted
<1>10. CASE TextRefused(i)
  BY <1>3, <1>10 DEF TextRefused
<1>11. CASE TextAccepted(i)
  BY <1>11, SettleAges DEF TextAccepted
<1>12. CASE Leave(i)
  BY <1>1, <1>12 DEF Leave
<1>13. CASE HangUp(i)
  BY <1>1, <1>13 DEF HangUp
<1> QED
  BY <1>4, <1>5, <1>6, <1>7, <1>8, <1>9, <1>10, <1>11, <1>12, <1>13 DEF ServeSlot

LEMMA StepAges == ASSUME SoundState, [Next]_vars PROVE SocketsAge
<1>1. CASE \E i \in Slots : ServeSlot(i)
  BY <1>1, ServeAges
<1>2. CASE CheckShutdown \/ PollFails \/ Poll \/ AcceptFails \/ ScanDone
  BY <1>2, ExitAges, IdleAges
  DEF CheckShutdown, PollFails, Poll, AcceptFails, ScanDone, netVars
<1>3. CASE ReapAuthTimeouts
  BY <1>3, SettleAges DEF ReapAuthTimeouts
<1>4. CASE AcceptClient
  BY <1>4, KernelAges DEF AcceptClient
<1>5. CASE AcceptFull
  BY <1>5, KernelAges, ExitAges DEF AcceptFull
<1>6. CASE Environment
  BY <1>6, KernelAges, IdleAges
  DEF Environment, Connect, SendRequest, PeerCloses, PeerResets, Tick, Signal
<1>7. CASE UNCHANGED vars
  BY <1>7, IdleAges DEF vars, netVars
<1> QED
  BY <1>1, <1>2, <1>3, <1>4, <1>5, <1>6, <1>7 DEF Next, ServerStep, Ended

\* Whoever is not in the room any more is on a closed connection.
LEMMA StepNoReturn ==
  ASSUME SessionInv, SocketsOK, SocketsOK', [Next]_vars PROVE Chat!NoReturn
<1>1. SocketsAge /\ Shape
  BY StepAges, StepShape DEF SessionInv
<1>2. ASSUME NEW c \in Seated, c \notin Seated' PROVE c \in Conns /\ sock'[c] = "closed"
  <2>1. PICK i \in Room(clients) : clients[i].socket_fd = c
    BY Seats
  <2>2. c \in Conns /\ sock[c] = "held"
    BY <2>1 DEF Room, SessionInv, SoundState, TableOK, SlotOK, SocketsOK, Active
  <2>3. SUFFICES ASSUME sock'[c] = "held" PROVE FALSE
    BY <1>1, <2>2 DEF SocketsAge
  <2>4. PICK j \in Slots : clients'[j].active /\ clients'[j].socket_fd = c
    BY <2>2, <2>3 DEF SocketsOK, Active
  <2>5. clients[j].active /\ clients[j].socket_fd = c
    <3>1. CASE Quiet
      BY <2>4, <3>1, ShapeSockets DEF NoNewSockets
    <3>2. CASE Arrived
      <4>1. PICK k \in Slots, d \in Conns :
              sock[d] = "backlog" /\ clients' = [clients EXCEPT ![k] = Accepted(d)]
        BY <3>2 DEF Arrived
      <4>2. clients'[j] = IF j = k THEN Accepted(d) ELSE clients[j]
        BY <4>1 DEF SessionInv, SoundState, TypeOK
      <4>3. Accepted(d).socket_fd = d
        BY DEF Accepted, Free
      <4> QED BY <2>2, <2>4, <4>1, <4>2, <4>3
    <3> QED BY <1>1, <3>1, <3>2 DEF Shape
  <2>6. j = i
    BY <2>1, <2>5 DEF SocketsOK, Active, Room
  <2>7. clients'[i].joined
    BY <2>1, <2>4, <2>5, <2>6, StepStable DEF StableSlot, Room
  <2> QED BY <1>2, <2>4, <2>6, <2>7, SeatsAfter DEF Room
<1>3. \A c \in Conns : sock[c] = "closed" => sock'[c] = "closed"
  BY <1>1 DEF SocketsAge
<1>4. Chat!Members = Seated /\ Chat!Members' = Seated'
  BY Seats, SeatsAfter DEF Chat!Members
<1> QED BY <1>2, <1>3, <1>4 DEF Chat!NoReturn

\* Every step of the server is one of the room.
LEMMA StepChat ==
  SessionInv /\ SocketsOK /\ SocketsOK' /\ [Next]_vars
    => [Chat!Next]_<<RoomView, messages, {c \in Conns : sock[c] = "closed"}>>
<1> SUFFICES ASSUME SessionInv, SocketsOK, SocketsOK', [Next]_vars PROVE Chat!Next
  OBVIOUS
<1>1. Shape /\ UsersKept
  BY StepShape, StepKeepsUsers DEF SessionInv
<1>2. Chat!Complain \/ Chat!Say \/ Chat!Leave \/ Chat!Enter
  BY <1>1, PrivateRoom, SaidRoom, DepartureRoom, ArrivedRoom, EnteredRoom DEF Shape, Quiet
<1> QED BY <1>2, StepNoReturn DEF Chat!Next

\* An empty table is an empty room.
LEMMA InitChat == Init => Chat!Init
<1> SUFFICES ASSUME Init PROVE Chat!Init
  OBVIOUS
<1>1. Seated = {}
  BY FreeFields DEF Init, Seated, Joined
<1>2. RoomView = <<>>
  BY <1>1 DEF RoomView
<1>3. {c \in Conns : sock[c] = "closed"} = {}
  BY DEF Init
<1> QED BY <1>2, <1>3 DEF Init, Chat!Init

\* The server is a ChatRoom, whichever slots, sockets and rings it uses: what it
\* sends a client is what happened in the room while the client was in it, and
\* a connection enters once, as somebody nobody else there is
\* (server.c:410-446, 463-503, 521-591, 647-685).
THEOREM ImplementsChatRoom == Spec => ChatSpec
<1>1. Spec => []SocketsOK
  BY InitSockets, StepSockets, Sessions, PTL DEF Spec
<1> QED
  BY <1>1, InitChat, StepChat, Sessions, PTL DEF Spec, ChatSpec, Chat!Spec
=============================================================================

------------------------------- MODULE Server -------------------------------
(***************************************************************************)
(* The NodeSignal server process (server/server.c): one thread around      *)
(* poll(), a table of client slots with an outbound ring buffer each, the  *)
(* packet handlers, and the two database calls they make.                  *)
(*                                                                         *)
(* One action is one step of the loop that other actors cannot split: the  *)
(* shutdown check, the poll() call, the sweep of unauthenticated clients,  *)
(* one accept(), and the service of one readiness bit of one slot.         *)
(* Between any two of them the peers connect, send, close or reset, the    *)
(* clock advances and a signal may arrive.                                 *)
(*                                                                         *)
(* Packets are whole here; the bytes of the ring are the subject of        *)
(* SendBuf, whose defect (a ring that keeps re-sending once tail landed on *)
(* the end of the array) appears here as the states "stale" and "garbled"  *)
(* of a slot's ring.                                                       *)
(***************************************************************************)
EXTENDS Integers, Sequences, FiniteSets

CONSTANTS
    NS_MAX_CLIENTS,         \* client slots (1024)
    NS_AUTH_TIMEOUT_SECS,   \* clock ticks an unjoined connection may last (10)
    NOFILE,                 \* the values RLIMIT_NOFILE may have during the run
    SureFit,                \* a packet always fits behind fewer than these (3)
    MaxFit,                 \* no packet fits behind these (146)
    RingMayLap,             \* whether tail may land on NS_SEND_BUF_SIZE
    Conns,                  \* connection attempts, each used once
    Names,                  \* usernames of legal length
    NoName,                 \* the username of a slot that has none
    NoConn,                 \* NS_INVALID_SOCKET
    RequestTypes,           \* what the peers of this instance send
    Faults,                 \* what may go wrong in this instance
    InboxCap,               \* bound on the unread requests of a connection
    MaxRequests             \* bound on the requests sent by all peers

AllRequestTypes ==
    {"JOIN", "JOIN_BAD", "TEXT", "TEXT_EMPTY", "TEXT_LONG", "LEAVE", "OTHER",
     "BAD", "PART"}

AllFaults == {"close", "reset", "silence", "signal", "database", "accept"}

ASSUME ServerAssumption ==
    /\ NS_MAX_CLIENTS \in Nat \ {0}
    /\ NS_AUTH_TIMEOUT_SECS \in Nat \ {0}
    /\ NOFILE \subseteq Nat
    \* an ACK and the JOIN notice behind it fit an empty ring: 2 * 526 < 2048
    /\ SureFit \in Nat /\ SureFit >= 2
    /\ MaxFit \in Nat /\ MaxFit >= SureFit
    /\ RingMayLap \in BOOLEAN
    /\ NoConn \notin Conns
    /\ NoName \notin Names
    /\ RequestTypes \subseteq AllRequestTypes
    /\ Faults \subseteq AllFaults
    /\ InboxCap \in Nat /\ MaxRequests \in Nat

VARIABLES
    pc,             \* where the loop of ns_server_run is
    exit_code,      \* how the process ended
    shutdown,       \* ns_server_shutdown_requested
    errno,          \* "EAGAIN" or any other value
    clients,        \* slot -> NsClient with its entry of poll_fds
    client_count,
    listen_revents, \* POLLIN reported for the listen socket
    users,          \* rows of the users table: the name with id k
    messages,       \* rows of the messages table: the sender's id
    sock,           \* connection -> none, backlog, held, closed
    peer,           \* connection -> up, fin, rst, dead (fin, then rst)
    inbox,          \* connection -> requests received and not yet read
    budget          \* requests the peers may still send

serverVars == <<clients, client_count>>
dbVars == <<users, messages>>
netVars == <<sock, peer, inbox, budget>>
vars == <<pc, exit_code, shutdown, errno, serverVars, listen_revents, dbVars, netVars>>

Slots == 0..(NS_MAX_CLIENTS - 1)

Request ==
    [type : {"JOIN"} \cap RequestTypes, name : Names]
    \cup [type : RequestTypes \ {"JOIN"}, name : {NoName}]

\* What the server sends: sender is a user id (0 for none), row the row of
\* messages that a TEXT shows (0 for none).
Packet == [type : {"ACK", "ERROR", "JOIN", "LEAVE", "TEXT"}, sender : Nat, row : Nat]

(***************************************************************************)
(* A slot: the fields of NsClient, the entry of poll_fds that mirrors it,  *)
(* and the ring as the packets enqueued on the connection with how many of *)
(* them send() took.  since is history: the rows of messages when the      *)
(* client joined.                                                          *)
(***************************************************************************)
Client ==
    [active : BOOLEAN, joined : BOOLEAN, socket_fd : Conns \cup {NoConn},
     user_id : Nat, username : Names \cup {NoName},
     age : 0..NS_AUTH_TIMEOUT_SECS,
     stream : Seq(Packet), sent : Nat, ring : {"sound", "stale", "garbled"},
     since : Nat,
     events : SUBSET {"IN", "OUT"}, revents : SUBSET {"IN", "OUT", "ERR"}]

\* ns_server_reset_client, with the poll_fds entry cleared.
Free ==
    [active |-> FALSE, joined |-> FALSE, socket_fd |-> NoConn,
     user_id |-> 0, username |-> NoName, age |-> 0,
     stream |-> <<>>, sent |-> 0, ring |-> "sound", since |-> 0,
     events |-> {}, revents |-> {}]

\* The slot that ns_server_accept_client fills in.
Accepted(c) ==
    [Free EXCEPT !.active = TRUE, !.socket_fd = c, !.events = {"IN"}]
-----------------------------------------------------------------------------
(* The ring buffer, packet by packet.                                       *)

\* ns_client_send_buf_pending
Pending(c) == IF c.ring = "sound" THEN c.sent < Len(c.stream) ELSE c.ring = "stale"

\* ns_server_update_poll_events
UpdatePollEvents(c) ==
    [c EXCEPT !.events = IF Pending(c) THEN {"IN", "OUT"} ELSE {"IN"}]

\* A mistake to be caught: POLLOUT is not armed after enqueuing.
EnqueueUnarmed(c, p) ==
    [c EXCEPT !.stream = Append(c.stream, p),
              !.ring = IF c.ring = "sound" THEN "sound" ELSE "stale"]

\* ns_client_enqueue_send on a packet that fits, with the call of
\* ns_server_update_poll_events that follows it.
Enqueue(c, p) ==
    UpdatePollEvents(
        [c EXCEPT !.stream = Append(c.stream, p),
                  !.ring = IF c.ring = "sound" THEN "sound" ELSE "stale"])

\* How many packets wait decides the space test only at its extremes: packets
\* differ in length, and a garbled ring's positions say nothing.
SurelyFits(c) == c.ring = "sound" /\ Len(c.stream) - c.sent < SureFit
NeverFits(c) == c.ring = "sound" /\ Len(c.stream) - c.sent >= MaxFit

\* The sets of slots of A whose ring may refuse a packet offered to all of A.
Refusals(cs, A) ==
    {F \in SUBSET A : \A i \in A : /\ SurelyFits(cs[i]) => i \notin F
                                   /\ NeverFits(cs[i]) => i \in F}
-----------------------------------------------------------------------------
(* The helpers on the slot table.                                           *)

\* A mistake to be caught: the scan for the name stops at the slot to skip.
UsernameInUseBelow(cs, name, skip) ==
    \E i \in Slots : /\ cs[i].active /\ cs[i].joined /\ i < skip
                     /\ cs[i].username = name

\* ns_server_username_in_use
UsernameInUse(cs, name, skip) ==
    \E i \in Slots : /\ cs[i].active /\ cs[i].joined /\ i # skip
                     /\ cs[i].username = name

\* ns_server_find_free_slot
IsFreeSlot(i) == ~clients[i].active /\ \A j \in Slots : j < i => clients[j].active

\* A mistake to be caught: clients that have not joined are served too.
AudienceUnjoined(cs, except) == {i \in Slots : cs[i].active /\ i # except}

\* The slots that ns_server_broadcast serves; -1 excludes none.
Audience(cs, except) == {i \in Slots : cs[i].active /\ cs[i].joined /\ i # except}

\* A mistake to be caught: a full ring ends the loop (return for continue).
BroadcastStops(cs, p, A, F) ==
    [i \in Slots |-> IF i \in F THEN Free
                     ELSE IF i \in A /\ \A j \in F : i < j THEN Enqueue(cs[i], p)
                     ELSE cs[i]]

\* ns_server_broadcast of p to the slots A: those of F, whose ring is full,
\* are disconnected without a notice, the others have p enqueued.
Broadcast(cs, p, A, F) ==
    [i \in Slots |-> IF i \in F THEN Free
                     ELSE IF i \in A THEN Enqueue(cs[i], p)
                     ELSE cs[i]]

\* The slots that hear of the departure of slot i.
LeaveAudience(cs, i, announce) ==
    IF announce /\ cs[i].joined THEN Audience(cs, i) ELSE {}

LeaveNotice(c) == [type |-> "LEAVE", sender |-> c.user_id, row |-> 0]

\* ns_server_disconnect_client, F being the refusals of its broadcast.
Disconnect(cs, i, announce, F) ==
    [Broadcast(cs, LeaveNotice(cs[i]), LeaveAudience(cs, i, announce), F)
        EXCEPT ![i] = Free]

\* A mistake to be caught: no sender is written as -1.
ErrorPacketSigned == [type |-> "ERROR", sender |-> -1, row |-> 0]

ErrorPacket == [type |-> "ERROR", sender |-> 0, row |-> 0]

\* ns_server_send_error: a packet that does not fit is dropped silently.
SendError(cs, i, fits) ==
    IF fits THEN [cs EXCEPT ![i] = Enqueue(cs[i], ErrorPacket)] ELSE cs

\* Whether the ERROR of ns_server_send_error may find room, or no room.
ErrorFits(c) == {b \in BOOLEAN : (SurelyFits(c) => b) /\ (NeverFits(c) => ~b)}

\* cs becomes the slot table and ib the unread input: every slot given up
\* decremented client_count, which is clamped at 0, and closed its socket,
\* with which the kernel forgets the connection.
Settle(cs, ib) ==
    LET gone == {i \in Slots : clients[i].active /\ ~cs[i].active}
        lost == Cardinality(gone)
        Closed(c) == \E i \in gone : clients[i].socket_fd = c
    IN  /\ clients' = cs
        /\ client_count' = IF lost > client_count THEN 0 ELSE client_count - lost
        /\ sock'  = [c \in Conns |-> IF Closed(c) THEN "closed" ELSE sock[c]]
        /\ inbox' = [c \in Conns |-> IF Closed(c) THEN <<>> ELSE ib[c]]
        /\ peer'  = [c \in Conns |-> IF Closed(c) THEN "up" ELSE peer[c]]

\* ns_server_disconnect_client of slot i in cs, as a step.
Drop(cs, i, announce) ==
    \E F \in Refusals(cs, LeaveAudience(cs, i, announce)) :
        Settle(Disconnect(cs, i, announce, F), inbox)
-----------------------------------------------------------------------------
(* The loop of ns_server_run up to the scan of the slots.                   *)

Init ==
    /\ pc = "top" /\ exit_code = "none" /\ shutdown = FALSE /\ errno = "other"
    /\ clients = [i \in Slots |-> Free] /\ client_count = 0
    /\ listen_revents = FALSE
    /\ users = <<>> /\ messages = <<>>
    /\ sock = [c \in Conns |-> "none"]
    /\ peer = [c \in Conns |-> "up"]
    /\ inbox = [c \in Conns |-> <<>>]
    /\ budget = MaxRequests

\* The process ends: the state is freed and the kernel closes every socket.
Exit(code) ==
    /\ pc' = "done"
    /\ exit_code' = code
    /\ clients' = [i \in Slots |-> Free] /\ client_count' = 0
    /\ listen_revents' = FALSE
    /\ sock' = [c \in Conns |-> IF sock[c] = "none" THEN "none" ELSE "closed"]
    /\ inbox' = [c \in Conns |-> <<>>]
    /\ peer' = [c \in Conns |-> "up"]
    /\ UNCHANGED <<shutdown, errno, dbVars, budget>>

\* A mistake to be caught: the request is looked at only when poll() fails.
CheckShutdownLate ==
    /\ pc = "top"
    /\ pc' = "poll"
    /\ UNCHANGED <<exit_code, shutdown, errno, serverVars, listen_revents,
                   dbVars, netVars>>

CheckShutdown ==
    /\ pc = "top"
    /\ IF shutdown
       THEN Exit("success")
       ELSE /\ pc' = "poll"
            /\ UNCHANGED <<exit_code, shutdown, errno, serverVars, listen_revents,
                           dbVars, netVars>>

\* poll() refuses more entries than the process may have descriptors, and the
\* loop ends; a signal that arrives during the call ends it too.
PollFails ==
    /\ pc = "poll"
    /\ \/ (\E limit \in NOFILE : 1 + NS_MAX_CLIENTS > limit) /\ Exit("failure")
       \/ shutdown /\ Exit("success")

Reset(c) == peer[c] \in {"rst", "dead"}

\* What poll() reports of a slot whose socket can be written to if w.
Readiness(c, w) ==
    IF ~c.active THEN {}
    ELSE (IF inbox[c.socket_fd] # <<>> \/ peer[c.socket_fd] # "up" THEN {"IN"} ELSE {})
         \cup (IF "OUT" \in c.events /\ (w \/ Reset(c.socket_fd)) THEN {"OUT"} ELSE {})
         \cup (IF Reset(c.socket_fd) THEN {"ERR"} ELSE {})

\* poll() returns, after at most a second, with the readiness of every socket.
\* Whether the kernel has room for a slot's output is its own affair.
Poll ==
    /\ pc = "poll"
    /\ \E limit \in NOFILE : 1 + NS_MAX_CLIENTS <= limit
    /\ pc' = "reap"
    /\ listen_revents' = (\E c \in Conns : sock[c] = "backlog")
    /\ \E W \in SUBSET {i \in Slots : "OUT" \in clients[i].events} :
         clients' = [i \in Slots |->
                       [clients[i] EXCEPT !.revents = Readiness(clients[i], i \in W)]]
    /\ UNCHANGED <<exit_code, shutdown, errno, client_count, dbVars, netVars>>

\* A mistake to be caught: the sweep skips the clients that have not joined.
ExpiredJoined(c) == c.active /\ c.joined /\ c.age >= NS_AUTH_TIMEOUT_SECS

Expired(c) == c.active /\ ~c.joined /\ c.age >= NS_AUTH_TIMEOUT_SECS

\* ns_server_reap_auth_timeouts: each expired client has an ERROR enqueued and
\* is disconnected, which clears the ring.  Then the loop goes on if poll()
\* reported anything.
ReapAuthTimeouts ==
    /\ pc = "reap"
    /\ Settle([i \in Slots |-> IF Expired(clients[i]) THEN Free ELSE clients[i]], inbox)
    /\ pc' = IF listen_revents THEN "accept"
             ELSE IF \E i \in Slots : clients[i].revents # {} THEN "scan"
             ELSE "top"
    /\ UNCHANGED <<exit_code, shutdown, errno, listen_revents, dbVars, budget>>

\* ns_server_accept_client with a free slot.
AcceptClient ==
    /\ pc = "accept"
    /\ pc' = "scan"
    /\ listen_revents' = FALSE
    /\ \E c \in Conns, i \in Slots :
         /\ sock[c] = "backlog"
         /\ IsFreeSlot(i)
         /\ clients' = [clients EXCEPT ![i] = Accepted(c)]
         /\ sock' = [sock EXCEPT ![c] = "held"]
    /\ client_count' = client_count + 1
    /\ UNCHANGED <<exit_code, shutdown, errno, dbVars, peer, inbox, budget>>

\* accept() fails, as it does when the process has no descriptor left: the
\* connection stays where it is and poll() reports it again.
AcceptFails ==
    /\ "accept" \in Faults
    /\ pc = "accept"
    /\ pc' = "scan"
    /\ listen_revents' = FALSE
    /\ errno' = "other"
    /\ UNCHANGED <<exit_code, shutdown, serverVars, dbVars, netVars>>

\* A mistake to be caught: the refused socket is not closed.
AcceptFullLeaks ==
    /\ pc = "accept"
    /\ \A i \in Slots : clients[i].active
    /\ \E c \in Conns : sock[c] = "backlog" /\ sock' = [sock EXCEPT ![c] = "held"]
    /\ pc' = "scan"
    /\ listen_revents' = FALSE
    /\ UNCHANGED <<exit_code, shutdown, errno, serverVars, dbVars, peer, inbox, budget>>

\* ns_server_accept_client with none: an ERROR is sent at once, and the socket
\* closed.  Sending to a peer that closed and then reset raises SIGPIPE.
AcceptFull ==
    /\ pc = "accept"
    /\ \A i \in Slots : clients[i].active
    /\ \E c \in Conns :
         /\ sock[c] = "backlog"
         /\ IF peer[c] = "dead"
            THEN Exit("sigpipe")
            ELSE /\ pc' = "scan"
                 /\ listen_revents' = FALSE
                 /\ sock' = [sock EXCEPT ![c] = "closed"]
                 /\ inbox' = [inbox EXCEPT ![c] = <<>>]
                 /\ peer' = [peer EXCEPT ![c] = "up"]
                 /\ errno' = IF peer[c] = "rst" THEN "other" ELSE errno
                 /\ UNCHANGED <<exit_code, shutdown, serverVars, dbVars, budget>>
-----------------------------------------------------------------------------
(* The scan of the slots: each has its readiness bits served in the order   *)
(* POLLOUT, POLLIN, then POLLERR and POLLHUP; a bit is used up by serving   *)
(* it, and a slot that is disconnected loses all of its bits.               *)

Waiting(i) == clients[i].active /\ clients[i].revents # {}

\* It is the turn of slot i, and of its bit b.
Turn(i, b) ==
    /\ pc = "scan"
    /\ Waiting(i)
    /\ \A j \in Slots : j < i => ~Waiting(j)
    /\ b \in clients[i].revents
    /\ b # "OUT" => "OUT" \notin clients[i].revents
    /\ b = "ERR" => "IN" \notin clients[i].revents

\* The slot table with that bit served.
Served(i, b) == [clients EXCEPT ![i].revents = @ \ {b}]

scanFrame == <<pc, exit_code, shutdown, listen_revents, budget>>

\* What ns_client_drain_send may leave: n packets sent in all, and a ring that
\* is empty, holds the rest, or, when it was emptied with tail on the end of
\* the array, is about to send its bytes again.
Drained(c) ==
    IF c.ring = "sound"
    THEN {[c EXCEPT !.sent = n] : n \in c.sent..Len(c.stream)} \cup
         (IF RingMayLap /\ Len(c.stream) > 1
          THEN {[c EXCEPT !.sent = Len(c.stream), !.ring = "stale"]} ELSE {})
    ELSE {[c EXCEPT !.ring = r] : r \in {"stale", "garbled"}}

\* POLLOUT: ns_client_drain_send, then ns_server_update_poll_events.
DrainSend(i) ==
    /\ Turn(i, "OUT")
    /\ ~Reset(clients[i].socket_fd)
    /\ \E c \in Drained(Served(i, "OUT")[i]) :
         /\ clients' = [clients EXCEPT ![i] = UpdatePollEvents(c)]
         /\ errno' = IF Pending(c) THEN "EAGAIN" ELSE errno
    /\ UNCHANGED <<scanFrame, client_count, dbVars, sock, peer, inbox>>

\* send() fails: the client is disconnected.  When the peer had closed before
\* it reset, send() raises SIGPIPE instead, which nothing ignores.
DrainBroken(i) ==
    /\ Turn(i, "OUT")
    /\ \/ /\ peer[clients[i].socket_fd] = "rst"
          /\ Drop(clients, i, clients[i].joined)
          /\ errno' = "other"
          /\ UNCHANGED <<scanFrame, dbVars>>
       \/ /\ peer[clients[i].socket_fd] = "dead"
          /\ Exit("sigpipe")

\* POLLIN: ns_recv_packet takes what the connection received first.
Reading(i, types) ==
    /\ Turn(i, "IN")
    /\ inbox[clients[i].socket_fd] # <<>>
    /\ Head(inbox[clients[i].socket_fd]).type \in types
    /\ UNCHANGED scanFrame

ReadRequest(i) == Head(inbox[clients[i].socket_fd])

\* The input left unread.
Unread(i) == [inbox EXCEPT ![clients[i].socket_fd] = Tail(@)]

\* The handler returns with the connection kept, the slots being cs.
Keep(cs, i) ==
    /\ clients' = cs
    /\ inbox' = Unread(i)
    /\ UNCHANGED <<client_count, sock, peer>>

\* ns_server_send_error, then ns_server_disconnect_client without a notice.
Refuse(i) ==
    \E fits \in ErrorFits(clients[i]) :
        Drop(SendError(clients, i, fits), i, FALSE)

\* A mistake to be caught: an end of file is left for the next wakeup.
ReadClosedKept(i) ==
    /\ Turn(i, "IN")
    /\ inbox[clients[i].socket_fd] = <<>>
    /\ peer[clients[i].socket_fd] # "up"
    /\ clients' = Served(i, "IN")
    /\ UNCHANGED <<scanFrame, client_count, sock, peer, inbox, errno, dbVars>>

\* Nothing left to read: the peer closed (recv returns 0) or reset (-1).
ReadClosed(i) ==
    /\ Turn(i, "IN")
    /\ inbox[clients[i].socket_fd] = <<>>
    /\ peer[clients[i].socket_fd] # "up"
    /\ Drop(clients, i, clients[i].joined)
    /\ errno' = IF peer[clients[i].socket_fd] = "rst" THEN "other" ELSE errno
    /\ UNCHANGED <<scanFrame, dbVars>>

\* NS_RECV_ERROR.  A frame that violates the protocol (BAD) and an end of file
\* inside a frame leave errno as it was; a frame of which only a part came
\* (PART) has that part discarded, with errno EAGAIN while the peer is up.
\* errno alone then decides between keeping and disconnecting, except that an
\* end of file between header and body counts as closed.
ReadError(i) ==
    /\ Reading(i, {"BAD", "PART"})
    /\ UNCHANGED dbVars
    /\ LET part == ReadRequest(i).type = "PART"
           link == peer[clients[i].socket_fd]
       IN  /\ errno' = IF part /\ link = "up" THEN "EAGAIN"
                       ELSE IF part /\ link = "rst" THEN "other"
                       ELSE errno
           /\ \/ errno' = "EAGAIN" /\ Keep(Served(i, "IN"), i)
              \/ /\ errno' = "other" \/ (part /\ link \in {"fin", "dead"})
                 /\ Drop(clients, i, clients[i].joined)

\* A mistake to be caught: a connection may join again.
JoinInvalidTwice(i) ==
    \/ ReadRequest(i).type = "JOIN_BAD"
    \/ UsernameInUse(clients, ReadRequest(i).name, i)

\* ns_server_join_validate: the reasons to refuse a JOIN.
JoinInvalid(i) ==
    \/ clients[i].joined
    \/ ReadRequest(i).type = "JOIN_BAD"
    \/ UsernameInUse(clients, ReadRequest(i).name, i)

JoinRejected(i) ==
    /\ Reading(i, {"JOIN", "JOIN_BAD"})
    /\ JoinInvalid(i)
    /\ Refuse(i)
    /\ UNCHANGED <<errno, dbVars>>

\* The users table once name has a row, and the id of that row.
WithUser(name) ==
    IF \E k \in DOMAIN users : users[k] = name THEN users ELSE Append(users, name)
UserId(us, name) == CHOOSE k \in DOMAIN us : us[k] = name

\* Calls into SQLite may leave errno at anything but EAGAIN.
ErrnoAfterDatabase == errno' \in {errno, "other"}

\* ns_db_get_or_create_user fails, before or after its transaction committed.
JoinFails(i) ==
    /\ "database" \in Faults
    /\ Reading(i, {"JOIN"})
    /\ ~JoinInvalid(i)
    /\ users' \in {users, WithUser(ReadRequest(i).name)}
    /\ Refuse(i)
    /\ ErrnoAfterDatabase
    /\ UNCHANGED messages

\* The slot that joins: named, and with its ACK enqueued (its ring is empty).
JoinedAs(c, id, name) ==
    Enqueue([c EXCEPT !.joined = TRUE, !.user_id = id, !.username = name,
                      !.age = 0, !.since = Len(messages)],
            [type |-> "ACK", sender |-> id, row |-> 0])

\* ns_server_join_finalize: ACK to the joiner, JOIN notice to everyone.
JoinAccepted(i) ==
    /\ Reading(i, {"JOIN"})
    /\ ~JoinInvalid(i)
    /\ LET name == ReadRequest(i).name
           us   == WithUser(name)
           id   == UserId(us, name)
           cs   == [Served(i, "IN") EXCEPT ![i] = JoinedAs(Served(i, "IN")[i], id, name)]
           all  == Audience(cs, -1)
       IN  /\ users' = us
           /\ \E F \in Refusals(cs, all) :
                Settle(Broadcast(cs, [type |-> "JOIN", sender |-> id, row |-> 0], all, F),
                       Unread(i))
    /\ ErrnoAfterDatabase
    /\ UNCHANGED messages

TextTypes == {"TEXT", "TEXT_EMPTY", "TEXT_LONG"}

TextUnjoined(i) ==
    /\ Reading(i, TextTypes)
    /\ ~clients[i].joined
    /\ Refuse(i)
    /\ UNCHANGED <<errno, dbVars>>

\* An empty text, or one too long with the name in front: ERROR, and go on.
TextRefused(i) ==
    /\ Reading(i, {"TEXT_EMPTY", "TEXT_LONG"})
    /\ clients[i].joined
    /\ \E fits \in ErrorFits(clients[i]) : Keep(SendError(Served(i, "IN"), i, fits), i)
    /\ UNCHANGED <<errno, dbVars>>

\* ns_db_insert_message fails: the statement changed nothing.
TextFails(i) ==
    /\ "database" \in Faults
    /\ Reading(i, {"TEXT"})
    /\ clients[i].joined
    /\ Refuse(i)
    /\ ErrnoAfterDatabase
    /\ UNCHANGED dbVars

\* A mistake to be caught: the sender is left out of the broadcast.
TextNotEchoed(i) ==
    /\ Reading(i, {"TEXT"})
    /\ clients[i].joined
    /\ messages' = Append(messages, clients[i].user_id)
    /\ LET cs  == Served(i, "IN")
           all == Audience(cs, i)
           p   == [type |-> "TEXT", sender |-> clients[i].user_id, row |-> Len(messages) + 1]
       IN  \E F \in Refusals(cs, all) : Settle(Broadcast(cs, p, all, F), Unread(i))
    /\ ErrnoAfterDatabase
    /\ UNCHANGED users

\* ns_server_handle_text: the message is stored, then broadcast to everyone.
TextAccepted(i) ==
    /\ Reading(i, {"TEXT"})
    /\ clients[i].joined
    /\ messages' = Append(messages, clients[i].user_id)
    /\ LET cs  == Served(i, "IN")
           all == Audience(cs, -1)
           p   == [type |-> "TEXT", sender |-> clients[i].user_id, row |-> Len(messages) + 1]
       IN  \E F \in Refusals(cs, all) : Settle(Broadcast(cs, p, all, F), Unread(i))
    /\ ErrnoAfterDatabase
    /\ UNCHANGED users

Leave(i) ==
    /\ Reading(i, {"LEAVE"})
    /\ Drop(clients, i, TRUE)
    /\ UNCHANGED <<errno, dbVars>>

\* An ACK or an ERROR from a client.
Unsupported(i) ==
    /\ Reading(i, {"OTHER"})
    /\ Refuse(i)
    /\ UNCHANGED <<errno, dbVars>>

\* POLLERR or POLLHUP, with the connection still there after POLLIN was served.
HangUp(i) ==
    /\ Turn(i, "ERR")
    /\ Drop(clients, i, clients[i].joined)
    /\ UNCHANGED <<scanFrame, errno, dbVars>>

ScanDone ==
    /\ pc = "scan"
    /\ \A i \in Slots : ~Waiting(i)
    /\ pc' = "top"
    /\ UNCHANGED <<exit_code, shutdown, errno, serverVars, listen_revents, dbVars, netVars>>

ServeSlot(i) ==
    \/ DrainSend(i) \/ DrainBroken(i)
    \/ ReadClosed(i) \/ ReadError(i)
    \/ JoinRejected(i) \/ JoinFails(i) \/ JoinAccepted(i)
    \/ TextUnjoined(i) \/ TextRefused(i) \/ TextFails(i) \/ TextAccepted(i)
    \/ Leave(i) \/ Unsupported(i)
    \/ HangUp(i)

ServerStep ==
    \/ CheckShutdown \/ PollFails \/ Poll
    \/ ReapAuthTimeouts \/ AcceptClient \/ AcceptFails \/ AcceptFull
    \/ ScanDone
    \/ \E i \in Slots : ServeSlot(i)
-----------------------------------------------------------------------------
(* The peers, the clock and the signals.                                    *)

envFrame == <<pc, exit_code, errno, client_count, listen_revents, dbVars>>

Open(c) == sock[c] \in {"backlog", "held"}

Connect(c) ==
    /\ pc # "done"
    /\ sock[c] = "none"
    /\ sock' = [sock EXCEPT ![c] = "backlog"]
    /\ UNCHANGED <<envFrame, shutdown, clients, peer, inbox, budget>>

\* Bytes reach the server's socket: a whole frame, or (PART) the first part of
\* one, after which the peer's next bytes are read as a frame of their own.
SendRequest(c) ==
    /\ Open(c) /\ peer[c] = "up"
    /\ budget > 0 /\ Len(inbox[c]) < InboxCap
    /\ \A k \in DOMAIN inbox[c] : inbox[c][k].type # "PART"
    /\ \E r \in Request : inbox' = [inbox EXCEPT ![c] = Append(@, r)]
    /\ budget' = budget - 1
    /\ UNCHANGED <<envFrame, shutdown, clients, sock, peer>>

PeerCloses(c) ==
    /\ "close" \in Faults
    /\ Open(c) /\ peer[c] = "up"
    /\ peer' = [peer EXCEPT ![c] = "fin"]
    /\ UNCHANGED <<envFrame, shutdown, clients, sock, inbox, budget>>

\* Some kernels keep the received bytes readable after a reset, some do not.
PeerResets(c) ==
    /\ "reset" \in Faults
    /\ Open(c) /\ peer[c] \in {"up", "fin"}
    /\ peer' = [peer EXCEPT ![c] = IF peer[c] = "up" THEN "rst" ELSE "dead"]
    /\ inbox' \in {inbox, [inbox EXCEPT ![c] = <<>>]}
    /\ UNCHANGED <<envFrame, shutdown, clients, sock, budget>>

\* A second passes, while a connection that was accepted has not joined.
Tick ==
    /\ "silence" \in Faults
    /\ \E i \in Slots : clients[i].active /\ ~clients[i].joined
                        /\ clients[i].age < NS_AUTH_TIMEOUT_SECS
    /\ clients' = [i \in Slots |->
          IF clients[i].active /\ ~clients[i].joined /\ clients[i].age < NS_AUTH_TIMEOUT_SECS
          THEN [clients[i] EXCEPT !.age = clients[i].age + 1] ELSE clients[i]]
    /\ UNCHANGED <<envFrame, shutdown, sock, peer, inbox, budget>>

\* SIGINT or SIGTERM.
Signal ==
    /\ "signal" \in Faults
    /\ pc # "done"
    /\ ~shutdown
    /\ shutdown' = TRUE
    /\ UNCHANGED <<envFrame, clients, sock, peer, inbox, budget>>

Environment ==
    \/ \E c \in Conns : Connect(c) \/ SendRequest(c) \/ PeerCloses(c) \/ PeerResets(c)
    \/ Tick
    \/ Signal

\* The process is gone.
Ended == pc = "done" /\ UNCHANGED vars

Next == ServerStep \/ Environment \/ Ended

Spec == Init /\ [][Next]_vars

\* The server's thread runs whenever it can, and time passes; peers and
\* signals owe nothing.
FairSpec == Spec /\ WF_vars(ServerStep) /\ WF_vars(Tick)
-----------------------------------------------------------------------------
(* Properties.                                                              *)

Joined(i) == clients[i].active /\ clients[i].joined

TypeOK ==
    /\ pc \in {"top", "poll", "reap", "accept", "scan", "done"}
    /\ exit_code \in {"none", "success", "failure", "sigpipe"}
    /\ shutdown \in BOOLEAN
    /\ errno \in {"EAGAIN", "other"}
    /\ clients \in [Slots -> Client]
    /\ client_count \in Nat
    /\ listen_revents \in BOOLEAN
    /\ users \in Seq(Names)
    /\ messages \in Seq(Nat)
    /\ sock \in [Conns -> {"none", "backlog", "held", "closed"}]
    /\ peer \in [Conns -> {"up", "fin", "rst", "dead"}]
    /\ inbox \in [Conns -> Seq(Request)]
    /\ budget \in 0..MaxRequests

\* No two connections are joined under one name at the same time, whatever
\* the order of joins, departures and reuse of slots (server.c:352-366, 531).
UniqueNames ==
    \A i, j \in Slots : Joined(i) /\ Joined(j) /\ clients[i].username = clients[j].username
                        => i = j

\* Sockets and slots correspond: an accepted connection that is not closed
\* belongs to exactly one active slot, a closed one to none, and client_count
\* is the number of active slots (server.c:463-503, 720-754).
NoSocketLeak ==
    /\ \A c \in Conns :
         Cardinality({i \in Slots : clients[i].active /\ clients[i].socket_fd = c})
            = IF sock[c] = "held" THEN 1 ELSE 0
    /\ client_count = Cardinality({i \in Slots : clients[i].active})

\* POLLOUT is armed for exactly the active slots whose ring has bytes pending:
\* no output waits for an event nobody asked for (server.c:226-232).
PollOutIffPending ==
    \A i \in Slots : "OUT" \in clients[i].events <=> clients[i].active /\ Pending(clients[i])

\* The positions of TEXT packets in what was sent to slot i.
Texts(i) == {k \in DOMAIN clients[i].stream : clients[i].stream[k].type = "TEXT"}

\* A joined client is sent every message stored since it joined, each once,
\* in the order of the rows, and under the id that wrote it: a slow, leaving
\* or refused neighbour never makes a hole (server.c:410-446, 647-685).
NoMessageMissed ==
    \A i \in Slots : Joined(i) =>
        LET s == clients[i].stream IN
        /\ \A k, l \in Texts(i) : k < l => s[k].row < s[l].row
        /\ \A k \in Texts(i) : /\ s[k].row \in (clients[i].since + 1)..Len(messages)
                               /\ s[k].sender = messages[s[k].row]
        /\ \A m \in (clients[i].since + 1)..Len(messages) :
              \E k \in Texts(i) : s[k].row = m

\* The first packets of a joined client are its ACK and its own JOIN notice,
\* with the id of its name in the database; one that has not joined has been
\* sent nothing, so no broadcast or answer of an earlier occupant of the slot
\* reaches it (server.c:288-298, 556-591).
SessionStartsClean ==
    \A i \in Slots : clients[i].active =>
        IF clients[i].joined
        THEN LET id == clients[i].user_id IN
             /\ id \in DOMAIN users /\ users[id] = clients[i].username
             /\ Len(clients[i].stream) >= 2
             /\ clients[i].stream[1] = [type |-> "ACK", sender |-> id, row |-> 0]
             /\ clients[i].stream[2] = [type |-> "JOIN", sender |-> id, row |-> 0]
        ELSE clients[i].stream = <<>>

\* The positions of the broadcasts in what was sent to slot i.
Broadcasts(i) ==
    {k \in DOMAIN clients[i].stream : clients[i].stream[k].type \notin {"ACK", "ERROR"}}

\* How many broadcasts slot i was sent from position k on.
FromEnd(i, k) == Cardinality({l \in Broadcasts(i) : l >= k})

\* Everyone in the room sees the same sequence of messages and notices: counted
\* from the last, the broadcasts that two joined clients were sent are the same,
\* for as long as both have been in the room (server.c:410-446, 463-503).
SameOrderForAll ==
    \A i, j \in Slots : Joined(i) /\ Joined(j) =>
        \A k \in Broadcasts(i), l \in Broadcasts(j) :
            FromEnd(i, k) = FromEnd(j, l) => clients[i].stream[k] = clients[j].stream[l]

\* The notices about user id among what slot i was sent.
Notices(i, id) ==
    {k \in DOMAIN clients[i].stream : /\ clients[i].stream[k].type \in {"JOIN", "LEAVE"}
                                     /\ clients[i].stream[k].sender = id}

\* Nobody who is in the room has been announced as gone: the last notice about
\* a joined user that another joined client was sent is not a LEAVE, through
\* evictions, silent departures and returns under the same name
\* (server.c:474-486, 584-587).
NoFalseDeparture ==
    \A i, j \in Slots : Joined(i) /\ Joined(j) =>
        \A k \in Notices(i, clients[j].user_id) :
            (\A l \in Notices(i, clients[j].user_id) : l <= k)
                => clients[i].stream[k].type = "JOIN"

\* While a connection keeps its slot, its login is never undone or changed and
\* what was sent on it is only added to (server.c:521-591).
SessionIsStable ==
    [][\A i \in Slots :
         clients[i].active /\ clients'[i].socket_fd = clients[i].socket_fd =>
            /\ clients[i].joined => /\ clients'[i].joined
                                    /\ clients'[i].user_id = clients[i].user_id
                                    /\ clients'[i].username = clients[i].username
            /\ Len(clients'[i].stream) >= Len(clients[i].stream)
            /\ SubSeq(clients'[i].stream, 1, Len(clients[i].stream)) = clients[i].stream
            /\ clients'[i].sent >= clients[i].sent]_vars

\* The slot of connection c, which is in the room.
SeatOf(c) == CHOOSE i \in Slots : Joined(i) /\ clients[i].socket_fd = c

\* The room without its slots: who is in it, on which connection, and what
\* each was sent.
Seated == {clients[i].socket_fd : i \in {j \in Slots : Joined(j)}}
RoomView ==
    [c \in Seated |->
        LET s == clients[SeatOf(c)]
        IN  [id |-> s.user_id, name |-> s.username, heard |-> s.stream]]

\* The server implements ChatRoom, whichever slots and sockets it uses: what it
\* sends a client is what happened in the room while the client was in it, and
\* a connection enters once, as somebody nobody else there is
\* (server.c:410-446, 463-503, 521-591, 647-685).
Chat == INSTANCE ChatRoom WITH room <- RoomView,
                               gone <- {c \in Conns : sock[c] = "closed"}

ChatSpec == Chat!Spec

\* A shutdown request ends the process (server.c:925-941).
ShutdownEnds == shutdown ~> pc = "done"

\* A connection that was accepted joins in time or is closed: it cannot stay
\* unjoined (server.c:828-843).
JoinsOrGoes ==
    \A c \in Conns :
        sock[c] = "held" ~> \/ sock[c] = "closed"
                           \/ \E i \in Slots : Joined(i) /\ clients[i].socket_fd = c

\* A connection whose peer closed or reset is closed (server.c:775-791, 973).
PeerGoneIsNoticed ==
    \A c \in Conns : sock[c] = "held" /\ peer[c] # "up" ~> sock[c] = "closed"

\* A broken socket is reported to the caller "so the caller can disconnect the
\* client" (server.c:160): the process survives it.
BrokenSocketSurvived == exit_code # "sigpipe"

=============================================================================

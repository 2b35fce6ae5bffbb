# NodeSignal Messenger in TLA+

NodeSignal is a chat program in C: one server process around `poll()`, a SQLite
database behind it, and GTK clients with a receiver thread each. These modules
model the server and its output buffers, the packet layer, the database and the
client as the code runs them, check them with TLC on small instances and prove
most of what is checked with TLAPS for every value of the constants. Line
numbers below are those of `src/`.

## 1. The system

### Components

| Component | State it keeps | Operations | Here |
|---|---|---|---|
| Server loop, `server/server.c` | `NsServerState`: `clients[]`, `client_count`, listen socket, database handle; `poll_fds[]`; `ns_server_shutdown_requested`; the process's `errno` | shutdown check, `poll()`, `ns_server_reap_auth_timeouts`, `ns_server_accept_client`, scan of the slots, teardown | `Server` |
| Handlers and slot table, `server/server.c` | one `NsClient` per slot: `active`, `joined`, `socket_fd`, `user_id`, `username`, `connected_at`, send ring | JOIN, TEXT, LEAVE, other types, disconnect, broadcast, send error | `Server`, which implements `ChatRoom` |
| Send ring, `server/server.c` | `NsSendBuf`: `head`, `tail`, `data[2048]` | enqueue, drain, reset | `SendBuf`, which implements `SendQueue` |
| Packet layer, `comm/comm.c`, `comm/comm.h` | none of its own; bytes in the kernel, the buffers of a call, `errno` | `ns_packet_set`, `ns_send_packet`, `ns_recv_packet`, `ns_store_u32`, `ns_load_u32` | `WireFormat`, `Framing`, which implements `PacketChannel` |
| Socket setup, paths, error strings, `comm/comm.c` | none | connect, listen, resolve, format | not modelled |
| Database, `database/db.c` | SQLite file: `users`, `messages`, the AUTOINCREMENT sequence; the write lock; per connection the prepared statements and the read transaction one of them holds | open, init schema, get-or-create user, insert message, recent messages, close | `Database`, which implements `UserDirectory`; two calls also in `Server` |
| Client, `client/client.c` | `NsClientApp`: `socket_fd`, `joined`, `receiver_thread`, `receiver_active` under `connection_lock`; widgets; the GLib idle queue | connect, send, receive loop, disconnect, dispatch of UI events, close, shutdown | `ClientApp` |
| UI assets, build files, tests | - | - | read as documentation |

### How they interact

A client's JOIN, TEXT or LEAVE is a packet on a TCP connection. The server reads
at most one packet per POLLIN, calls the database for JOIN and TEXT, and
answers by appending to the send rings of one client or of everyone in the room.
A ring that is full gets its owner disconnected in the middle of that broadcast.
Rings are emptied on POLLOUT, which is requested only while a ring has bytes.
The server is a single thread, so its interleavings are with the peers, the
kernel's buffers, the clock and the signal handler. The client's main thread
runs GTK callbacks one at a time; the receiver thread of a connection reads
packets, sets `joined`, and tells the main thread what happened through idle
callbacks. Either thread may take the socket to close it. Several processes may
open one database file.

### What is hard

- A slot can be freed, by another slot's broadcast, while its `revents` are
  still to be served; the next connection takes the same slot.
- `errno` is read after calls that did not set it.
- Output and input of one connection are served in a fixed order, whatever
  order the peer's close, reset and packets came in.
- The ring's positions wrap, and a packet can end exactly on the end of the array.
- A shutdown request can land between the check and `poll()`.
- Connections that never join must go; peers that vanish must be noticed.
- `send()` and `recv()` cut packets anywhere, also between header and body.
- The client's main thread sends on a blocking socket, also before it shuts the
  socket down, and may wait there for the server.
- The client's two threads race for the socket when the connection ends;
  descriptor numbers come back at once, also in other threads; events of an old
  receiver are dispatched after a reconnect.
- A process may fail or crash at any step of a transaction another one waits for.

### What makes each component correct

- Ring: what goes in comes out once, in order; a packet is refused only for
  lack of space; a drain returns.
- Slot table: sockets and slots correspond one to one; a new occupant sees
  nothing of the previous one; POLLOUT is armed exactly while there is output.
- Handlers: no name is used twice at a time; every member of the room gets
  every message stored since it joined, in one common order; nobody present is
  shown as gone; a login is not changed by later requests.
- Loop: a signal ends the process; silent connections are dropped; closed peers
  are noticed.
- Packet layer: packets come out whole, once and in order; no buffer is
  overrun; an error has a cause, and a cut stream is not taken for a closed one.
- Database: a name has one id for ever and an id one name; messages keep their
  author; history is in order; no failure leaves the lock held; calls return.
- Client: one receiver at a time, which the main thread can join; a connection
  is closed once, by who took it; no receiver reads a wrong connection;
  the widgets agree with the connection; nothing uses `app` once it is freed.

## 2. Modules

### `SendQueue`

What the ring promises: `Put`, `Get` and `Reset` on a stream of numbered bytes.

### `SendBuf` (server.c:68-232, 287-298)

`head`, `tail`, `data` are the fields of `NsSendBuf`; a byte is named by its
position in the stream of the connection, so that loss, repetition and
reordering show. `EnqueueSend` and `EnqueueRefused` are the two returns of
`ns_client_enqueue_send`, `Refuses` its space test in `size_t` arithmetic
(modulo `SIZE_T`). The drain is a loop of its own: `DrainStart`, one `DrainSend`
per `send()` that takes any part of a run, `DrainAgain` for EAGAIN, `DrainDone`.
`ResetClient` is `ns_server_reset_client`. History variables: `accepted`,
`wire` (what `send()` took), and `reread`, set when the drain passes a `tail`
that stands on `NS_SEND_BUF_SIZE`. The code has a defect there (section 5);
the positive properties are stated up to that moment.

### `Server` (server.c, with the two database calls it makes)

One action is one step that no other actor can split:

| Code | Action |
|---|---|
| `ns_server_run`: loop condition | `CheckShutdown` |
| `poll()` returning, or failing | `Poll`, `PollFails` |
| `ns_server_reap_auth_timeouts` | `ReapAuthTimeouts` |
| `ns_server_accept_client` | `AcceptClient`, `AcceptFull`, `AcceptFails` |
| POLLOUT: `ns_client_drain_send` | `DrainSend`, `DrainBroken` |
| POLLIN: `ns_recv_packet` closed or in error | `ReadClosed`, `ReadError` |
| JOIN: validate, finalize | `JoinRejected`, `JoinFails`, `JoinAccepted` |
| TEXT | `TextUnjoined`, `TextRefused`, `TextFails`, `TextAccepted` |
| LEAVE, other packet types | `Leave`, `Unsupported` |
| POLLERR, POLLHUP | `HangUp` |
| end of the scan | `ScanDone` |

The environment is `Connect`, `SendRequest`, `PeerCloses`, `PeerResets`, `Tick`
and `Signal`. `clients` holds an `NsClient` per slot with the entry of
`poll_fds` that mirrors it. Packets are whole: `stream` is everything enqueued on
the connection and `sent` how many packets `send()` took, so a property can
speak of the whole session; `ring` says whether the positions of the ring are
"sound", or, after the defect of section 5, "stale" or "garbled". A handler's
action includes every call it makes: the evictions of its broadcast, the notice
of its disconnection, the decrement of `client_count` with its clamp (`Settle`).

Abstractions, with their reasons:

- The ring's space test depends on packet lengths. A packet certainly fits
  behind fewer than `SureFit` packets (3 of at most 526 bytes in 2047) and
  certainly does not behind `MaxFit` (146 of at least 14); in between both
  happen (`Refusals`, `ErrorFits`).
- `RingMayLap` says whether packet lengths of the instance may make `tail` land
  on the end of the array.
- An accepted connection that was closed is forgotten by the kernel: its inbox
  is empty and its peer's later acts do not matter.
- `PeerResets` either keeps or drops what was received: kernels differ.
- A packet (`BAD`) that breaks the protocol is one request; `PART` is the first
  piece of a packet, which the non-blocking read discards. `Framing` has the
  pieces.
- The clock counts only while some accepted connection has not joined, up to
  the timeout: nothing else reads it.
- A database call works or fails as a whole; `Database` has its steps.
- The POSIX build is modelled: `recv`/`send` with `errno`, SIGPIPE with its
  default action, since nothing in `src/` changes it.
- Start-up (arguments, opening the database, listening) is the initial state.

### `ChatRoom`

What the server promises, seen by connection, without slots, sockets, rings or
events: `Enter` under a name and an id nobody there has, `Say`, `Leave`,
`Complain` (an ERROR to some, or nothing at all); each is heard alike by all who
stay. In every step members may fall out silently, which is what the server does
to slow clients, to connections it refuses and when it ends; `NoReturn`: none of
them comes back on its connection. `RoomView` in `Server` is the mapping.

### `WireFormat` (comm.h:99-113, comm.c:501-648)

The header as bytes: `StoreU32` and `LoadU32` are the byte shifts of
`ns_store_u32` and `ns_load_u32`, `Serialize` the header of `ns_send_packet`,
`Parse` and `Accepts` what `ns_recv_packet` reads from it and checks. `Base` is
the number of values of a byte.

### `PacketChannel`

What the packet layer promises: `Give`, `Deliver`, `End` on numbered packets.

### `Framing` (comm.c: `ns_send_all`, `ns_recv_all`, `ns_send_packet`, `ns_recv_packet`)

A sender and a receiver on one connection, a byte per step, which covers every
way the kernel may cut the calls. `SendPacket`, `SendByte`, `SendFails` are the
sender; `CallRecv` is the call of `ns_recv_packet`, `RecvByte` a `recv()` in the
middle of header or body, `RecvHeader` and `RecvBody` the last byte of either
with the checks behind it, `RecvEof`, `RecvReset`, `RecvAgain` the returns
without a packet. `blocking` tells the client's sockets from the server's, where
EAGAIN ends the call and its buffer is gone; `cut` records that a piece went
with it. What a reader out of step finds in a header is the header of any
packet (`Contents`). A packet whose header, fields and body are not those of one
packet that was sent is delivered as number 0.

### `Database` (db.c; the SQLite library is external) and `UserDirectory`

Each process makes one call at a time; a step is one SQL statement.
`GetOrCreateUser` is followed by `Begin`, `InsertUser`, `Commit`, `FindUser`, or
by `BeginRefused`, `StatementFails` and `Rollback`, `FindUserFails`.
`InsertMessage` is followed by `StoreMessage` or `MessageRefused`.
`RecentMessages` is the history query in one step: it reads one snapshot. `Open`,
`CreateTable`, `Opened`, `SchemaReady`, `OpenFails`, `Close` are the connection's
life and `Crash` is the end of the process anywhere.

Of SQLite the model uses: in WAL mode, one writer at a time; a SELECT that was
stepped to a row and not reset keeps a read transaction open; a write from a
snapshot that others have overtaken is refused at once; a write that finds the
file locked waits for `busy_timeout`, unless a read of the same connection is
open; AUTOINCREMENT spends an id on an ignored insert too; uncommitted work is
undone after a crash. The refusals were observed on the library. WAL mode is
assumed in force, though db.c:95 ignores the result of the PRAGMA.

`UserDirectory` is what the users table promises: `Register` a new name under a
new number, `Grant` a registered pair to who asks.

### `ClientApp` (client.c)

The main thread's place in a callback is `mainPc`, the callback `mainThen`:

| Code | Action |
|---|---|
| `ns_client_on_connect_clicked` | `ConnectClicked`, then `JoinSent` or `JoinNotSent` |
| `ns_client_on_send_clicked` | `SendClicked`, then `TextSent` or `TextNotSent` |
| `ns_client_disconnect`, `ns_client_send_leave_if_needed`, `ns_client_close_socket` | `TakeByMain`, `LeaveSent`, `ShutByMain`, `CloseByMain` |
| `ns_client_join_receiver_thread` | `JoinReceiver`, `ReceiverJoined` |
| the callback's lines after these | `AfterJoinFailed`, `BackToLogin`, `AfterCloseRequest`, `AfterShutdown` |
| `ns_client_on_close_request`, `ns_client_on_shutdown`, end of `ns_client_run` | `CloseRequest`, `OnShutdown`, `RunReturns`, `FreeApp` |
| `ns_client_dispatch_ui_event` | `DispatchText`, `DispatchStatus`, `DispatchConnected`, `DispatchDisconnected` |
| `ns_client_scroll_to_bottom`, queued by `ns_client_append_line` (`AppendLine`) | `Scroll` |
| `ns_client_receive_loop` | `CopySocket`, `CallRecv`, `ReceiveEnds`, `TakeByReceiver`, `ShutByReceiver`, `CloseByReceiver`, `QueueDisconnected` |
| `ns_client_handle_packet` | `Receive`, `QueueConnected` |

The environment is the user (`ConnectClicked`, `SendClicked`, `CloseRequest`
begin when the main thread is idle), servers that send, close, stop reading and
read again (`ServerSends`, `ServerCloses`, `ServerStalls`, `ServerReads`), and
`ForeignOpen`: another thread of the process opens a descriptor. On a connection
in `stalled` a `send()` of a TEXT or of the LEAVE waits; whether the server reads
matters only then, so it is decided then. The queue holds every idle callback
that has `app`: the events of the receiver, and the scrolling that each appended
line queues. `fdTable` says what a descriptor number names; `socket()`
gives out the lowest free one. A `recv()` looks its descriptor up when it is
called (`ron`) and a later `close()` does not wake it; `shutdown()` does.

External assumptions: GLib runs idle callbacks in the order they were queued and
may run a click before them; `g_application_run` still runs callbacks that wait
when the shutdown signal has been handled; GLib's networking has SIGPIPE ignored
in the client, so a failed `send()` returns. Left out: what the user types, the
texts shown, lines without text (a server of this repository sends none),
`transport_connected` (written and never read), `user_id` (copied into packets
only).

### `MCSendBuf`, `MCServer`, `MCFraming`, `MCDatabase`, `MCClientApp`

The instances for TLC. `ConnsAndNames` is the symmetry of connections and
names of `Server`, which are only ever compared for equality; it is used in
runs without liveness.

### `SendBufProofs`, `ServerProofs`, `ServerSessionProofs`, `ServerRoomProofs`, `WireFormatProofs`, `FramingProofs`, `DatabaseProofs`, `ClientAppProofs`

Theorems about the module each is named for (section 4). The three about
`Server` build on each other: a slot by itself, then a session over time with
its socket, then the sessions of a room together.

Operators whose comment starts "A mistake to be caught" are altered forms of
the definition after them: each breaks a property of a run, which shows
that the property looks at the code.

## 3. Runs

| Run | Instance | Shows |
|---|---|---|
| `send_buf_ring` | ring of 5, packets of 2 and 3 bytes, 14 bytes per connection | `TypeOK`, `NothingLostOrRepeated`, `RefusedOnlyForSpace`; the ring implements `SendQueue` (`StepsOfAQueue`); a drain returns (`DrainReturnsBeforeReread`) |
| `server_chat` | 3 slots, connections and names; 4 requests of JOIN, TEXT, LEAVE; a database that fails | `UniqueNames`, `NoMessageMissed`, `SameOrderForAll`, `NoFalseDeparture`, with slots reused and slow clients evicted; the server implements `ChatRoom` (`ChatSpec`) |
| `server_faults` | 2 slots, 3 connections, 2 names; 2 requests of eight types; peers that close and reset, a failing database, a failing `accept()`, a `poll()` that may be refused, rings that lap | `TypeOK`, `PollOutIffPending`, `SessionStartsClean`, `NoSocketLeak` |
| `server_live` | 1 slot, 2 connections; 2 requests of JOIN, BAD and PART, close, reset, silence, signal, a failing `accept()` | `ShutdownEnds`, `JoinsOrGoes`, and `PeerGoneIsNoticed` whatever `errno` an earlier call left |
| `framing_stream` | 3 values of a byte, headers of 3 pieces, bodies of 0 to 3, 3 packets, 3 bytes in flight, both kinds of socket | `TypeOK`, `InOrderUnlessCut`, `WithinBuffers`, `EndHasCause`; the packet layer implements `PacketChannel` (`ChannelSpec`); whole packets arrive (`WholeIsDelivered`) |
| `client_chat` | 2 connections, 2 packets on each, 2 descriptors, 1 foreign descriptor, servers that stop reading | `TypeOK`, `NoStrayReceiver`, `ClosesItsOwn`, `NoCrossTalk`, `JoinedOnSocket`, `NoLostSocket`, `LoginOnlyWhenFree`, `ViewFollowsConnection`, `FreedAlone`; a disconnect returns if the servers read or close in the end (`DisconnectReturns`) |
| `database_shared` | 2 processes, 2 names, 3 ids, 2 messages, failures and crashes at every step | `TypeOK`, `NoTransactionLeftOpen`, `OneIdPerName`, `RightAuthor`, `HistoryInOrder`; the users table implements `UserDirectory` (`DirectorySpec`); calls return (`CallsReturn`) |
| `send_buf_stall`, `server_sigpipe`, `framing_pieces`, `client_stale`, `database_reads` | small | the disagreements of section 5 |

Why the bounds are enough:

- `SendBuf`: `MaxAccepted` is near three times the ring, with packet lengths
  that are coprime, so the positions wrap in every alignment, including the
  packet that ends on the end of the array; more bytes repeat the same positions.
- `server_chat`: three slots are the least where a departure's notice evicts
  one client and reaches another. Four requests let two join, one talk, and one
  leave or be refused and return. `SureFit = 2` and `MaxFit = 3` bring evictions
  within reach: the values of the code (3, 146) only postpone them.
- `server_faults`: three connections on two slots are the least with a reused
  slot beside a live one, and with a full server that refuses. Its `NOFILE` of
  `{2, 3}` makes `poll()` fail or work at any call. Two requests put every type
  on a fresh and on a joined connection.
- `server_live` is small because fairness and the graph of a temporal check
  multiply the states. Two requests are a packet that leaves an `errno` and one
  that is judged by it; with one slot the second connection finds the server
  full, or takes the slot with the `errno` of the first; a broken or a cut frame
  may stand before the close, the reset or the silence.
- `Framing`: the body limit is 2, so bodies of none, all and one too many are
  there; three packets are the least with one before and one after a packet
  that is lost. Three bytes in flight split a packet at any place.
  `WireCap` and the header's length only scale the loops.
- `ClientApp`: two connections are the least where an old receiver meets a new
  connection; two descriptors let the number be given to the new connection or
  to somebody else. Only the newest connection can have anything alive, which
  is proved for every number.
- `Database`: two processes are the least that wait for each other; two ids
  make an id be told, spent on a repeated name, and overtaken. The width of an
  id is beyond reach (`UINT32 = 9`, three ids); what happens where ids
  outgrow it is excluded by name in the properties, and no run goes there.
  Two messages are the least with an order; that the clamp also cuts above is not
  reached with two, and rests on `HistoryOrdered`, for every `HISTORY_MAX`.
- `InboxCap`, `MaxRequests`, `MaxConns`, `MaxPackets`, `MaxForeign`,
  `MaxAccepted`, `MaxSequence`, `MaxMessages` bound what the environment does;
  the theorems hold for all of their values.

Deadlock is checked in every run. Where a process may stop for good, `Ended`
stutters: in `Server` when `pc = "done"`; in `Framing` when the receiver has given
the connection up or waits and nothing more comes; in `ClientApp` when `app` is
freed or a thread sends or receives on a descriptor of somebody else's.

### Fairness

- `Server`: weak fairness of `ServerStep`: the one thread runs when the operating
  system lets it, `poll()` has a timeout of a second (server.c:931), the clients'
  sockets are non-blocking, and `accept()` is called when `poll()` has reported a
  connection, which on Linux stays in the backlog, so each step of the server
  ends. Also of `Tick`: time passes. Nothing
  is assumed of peers, signals or the room in the kernel's buffers, and no
  fairness of single slots: the scan takes them in order.
- `SendBuf`: weak fairness of the drain loop, which nothing but its own exits
  stops.
- `Framing`: weak fairness of `SenderStep` and of `ReceiverStep`: both loops go on
  while the kernel takes and gives bytes. Nothing is assumed of when packets
  are sent, of closes and of resets.
- `Database`: weak fairness of `CallStep(p)` of each process: it runs, and five
  seconds pass (`BusyTimeout`). Weak fairness does not give a process the lock;
  the timeout is what ends its wait. Faults and new calls owe nothing.
- `ClientApp`: weak fairness of `MainStep` and of `ReceiverStep(c)`: both threads
  run and the main loop reaches its idle callbacks. The client's sockets are
  blocking: a `send()` on a connection in `stalled` is not enabled, and one on a
  descriptor of somebody else's owes nothing (`MainOnForeign`). Nothing is asked
  of the user. Of the servers, `DisconnectReturns` and `DisconnectRestoresLogin`
  ask, as a premise, that from some time on they read what they are sent or
  close (`ServersRead`): without it neither holds, since the LEAVE of
  `ns_client_disconnect` is sent before the socket is shut down.

## 4. Proofs

All theorems hold for every value of the constants that the named assumption of
the module allows.

### `SendBufProofs` (from `SendBufAssumption`)

- `RingTyped`: the copies and the `send()` calls stay inside `data[]`, even after
  the defect of section 5.
- `RingLossless`, `RingRefusals`: `NothingLostOrRepeated`, `RefusedOnlyForSpace`.
- `RingIsQueue`: each step of the ring is one of `SendQueue` or leaves it alone.

The last three hold up to the moment the drain passes a `tail` of
`NS_SEND_BUF_SIZE` (`reread`), as stated in the properties. The inductive
invariant `RingInv` is `TypeOK` and, until that moment, `Lossless`: what was
sent is 1, 2, ... in order, at most `NS_SEND_BUF_SIZE - 1` bytes are unsent,
`tail` is `head` plus that many (one lap back if past the end, but not when it
stands exactly on the end, which is what the code does), and cell by cell the
unsent bytes follow on. `NothingLostOrRepeated` alone is not inductive: an
enqueue needs to know that its copy, in two pieces, covers no unsent byte, and
that is the bound on the unsent bytes together with the place of `tail`.
`RefusesExactly` shows that the subtraction in `size_t` does not wrap while
`Lossless` holds; the defect makes `Available` 0 and it does.

### `ServerProofs` (from `ServerAssumption`)

- `TypeCorrect`, `PollOutArmed` (`PollOutIffPending`), `NamesUnique`
  (`UniqueNames`).

The inductive invariant `SoundState` is `TypeOK` with `TableOK(clients)`, which
says of each slot by itself (`SlotOK`) that it has its type, that an active one
has a connection, and that POLLOUT agrees with the ring. `PollOutIffPending`
alone is not inductive: a drain or an enqueue needs the slot's types, and a
read needs the connection of an active slot to find its inbox. The operations on
the table (`Enqueue`, `Broadcast`, `Disconnect`, `SendError`) each have a lemma
that they keep a table sound, whoever is evicted; `SettleOK` and `DropOK` carry
that to the step with the sockets and `client_count`; one lemma per action
follows, and `StepSound` collects them. `NamesUnique` rests on `SoundState` and
on one idea: every operation but `JoinedAs` leaves each slot either with its
identity or not joined (`SameOrGone`), so uniqueness of names can only be lost by
a login, which `JoinInvalid` refuses when the name is in use.

### `ServerSessionProofs` (from `ServerAssumption`)

- `CleanStart` (`SessionStartsClean`), `SocketsAccounted` (`NoSocketLeak`), and
  `SessionStable` (`SessionIsStable`, an action property that no run repeats: of
  those in the room `ChatSpec` says more).

The actions of `Server` are many and long, and what they may do to a session is
little. `StepShape` shows once that every step has one of five shapes: `Private`
(nothing is sent, or an ERROR), `Departure` (a LEAVE to the whole room), `Said`
(a TEXT to the whole room and a new row), `Arrived` (a slot is taken) and
`Entered` (an ACK and a notice to one, the notice to the others); in each, any
slot may be freed besides. Everything after that is argued by shape. The lemmas
`...Told` say what the table operations do to a stream, evictions included.

The inductive invariant `SessionInv` is `SoundState`, with `Tidy` (an unused slot
is in the state `ns_server_reset_client` leaves) and `CleanSlot` (a session
started with its ACK and notice; before the login nothing was sent and the ring
is sound). `SessionStartsClean` alone is not inductive: that both packets of a
login find room depends on the ring being sound and empty until then
(`SureFit >= 2`), and that an accepted connection starts with nothing depends on
`Tidy`. A ring that holds more than was accepted is excluded by
`sent <= Len(stream)`.

`SocketsOK` is what `NoSocketLeak` needs: no two slots have one socket, the held
sockets are those of the active slots, and the count is right. Closing the
sockets of the slots given up then closes no other slot's (`SettleSockets`), a
connection from the backlog is no slot's yet (`AcceptSockets`), and the clamp of
`client_count` at 0 never acts.

### `ServerRoomProofs` (from `ServerAssumption`)

- `MessagesComplete` (`NoMessageMissed`), `OrderShared` (`SameOrderForAll`),
  `NobodyFalselyGone` (`NoFalseDeparture`), and `ImplementsChatRoom` (`ChatSpec`), a
  refinement.

Each of the first three is an invariant about streams, carried over the five shapes beside
`SessionInv`. `AllHold`: the TEXT packets of a stream are exactly the rows after
`since`, in order; it says so of every active slot, not only of those that have
joined. `AllAgree`: two streams agree on every broadcast that has the same number
of broadcasts after it (`RankOf`), so an append of the same packet to both keeps
the agreement and a newcomer agrees with everyone on the one notice it has.
`AllPresent`: in every stream the last notice about a member is its JOIN. That a
LEAVE about one member is not about another rests on different members having
different ids (`IdsApart`), which follows from `UniqueNames` and from the row of
an id never changing (`StepKeepsUsers`).

The refinement maps a connection to the slot that has it (`SeatOf`), which is one
slot by `SocketsOK`. `Seats` says that members and slots in the room correspond,
before and after a step; `RoomTold` turns the shape of a step in which nobody
enters into a step of `ChatRoom`, and `EnteredRoom` does so for a login, with
`Newcomer` for the name and the id that nobody has. `StepNoReturn` follows the
sockets: one that is closed stays closed (`SocketsAge`), and one that is still
held keeps its slot and its login (`StepStable`).

`SameOrderForAll` counts positions from the end instead of comparing filtered
subsequences: what a recursive filter returns cannot be proved by induction here.

### `WireFormatProofs` (from `WireAssumption`)

- `RoundTrip`: for every header, `Parse(Serialize(h)) = h` and `Serialize(h)` is
  accepted exactly if `h` is legal. The arithmetic is that of quotients and
  remainders: shifting twice is shifting by the product (`DivDiv`), and four
  digits in base `Base` give the number back (`FourDigits`).

### `FramingProofs` (from `WireAssumption`, `FramingAssumption`)

- `TypeCorrect`, `BuffersNeverOverrun` (`WithinBuffers`), `InOrder`
  (`InOrderUnlessCut`), `EndsHaveCauses` (`EndHasCause`), and `ImplementsChannel`
  (`ChannelSpec`), a refinement.

A byte is named by its packet and its place, so the stream is a chain: each byte
in flight is the successor of the one before it, the first is the next one the
reader needs, and the writer's next byte follows the last (`Chain` in
`InStep`). `InOrderUnlessCut` alone is not inductive, since nothing in it says
what is in flight. `RoundTrip` gives the fields once the header's bytes are
known to be one packet's; `SenderOK` says when a packet may be left unfinished,
which `EndHasCause` needs at the end of the stream.

### `DatabaseProofs` (from `DatabaseAssumption`, `NoneAssumption`)

- `TypeCorrect`, `LockReleased` (`NoTransactionLeftOpen`), `IdsUnique`
  (`OneIdPerName`), `AuthorsRight` (`RightAuthor`), `HistoryOrdered`
  (`HistoryInOrder`), and `DirectoryImplemented`: while ids fit
  (`[](sequence < UINT32)`), `Spec` implements `UserDirectory`.

The invariant `Sound` adds to these: the uncommitted row is new in name and id
(`RowsOK`, which holds because only the owner of the lock has one), what a
process was told is a row (`GrantsOK`), a message's sender is a row with its
author's name (`MessagesOK`), and a snapshot contains its own process's messages
(`SnapshotsOK`). Frame lemmas say once which actions touch which variables, so
each part is argued only for the few actions that can disturb it.

### `ClientAppProofs` (from `ClientAssumption`)

- `TypeCorrect`, `OneReceiver` (`NoStrayReceiver`), `OwnerCloses` (`ClosesItsOwn`),
  `OwnPacketsOnly` (`NoCrossTalk`), `JoinedHasSocket` (`JoinedOnSocket`), `SocketsKept`
  (`NoLostSocket`), `LoginFree` (`LoginOnlyWhenFree`), `FreedLast` (`FreedAlone`),
  `ViewFaithful` (`ViewFollowsConnection`).

None of these is inductive; together with who owns what (`Sound`) all but the
last are. `ThreadsOK`:
only the newest connection, `made`, has a receiver, and the handle is in
`receiverThread` or, while it is being joined, in `mainThread`. `SocketOK` and
`FdsOK`: an open descriptor is in `socketFd` or with the one thread between
taking and closing it, and as long as neither thread has taken it, it is in
`socketFd`. `RestOK`: the login form is enabled, a callback finishes and the
application ends only when nothing of a connection is left (`AllGone`), which is
what a new connection then relies on. `FreedLast` needs it too: that nothing waits
is why `g_application_run` returns, but that nothing can be queued behind it, and
that no handle is left, is that `ns_client_disconnect` has joined the receiver
(`AllGone` from "leaving" on).

`ViewFollowsConnection` speaks of the states where no event waits, and says
nothing of how they were reached; the queue may hold events of several
connections, ended ones among them. `Faithful` therefore speaks of every state:
the page that will be shown when the events that wait have been dispatched
(`ChatAhead`: a CONNECTED is last, or the page is the chat and no DISCONNECTED
waits) is the chat page exactly if the receiver of the newest connection has
queued its CONNECTED and not its DISCONNECTED (`InChat`). An event that is queued
changes both sides, one that is dispatched neither. `MailOK` and `MembershipOK`
tie `joined` and CONNECTED to the one ACK of a connection, which a server sends
once.

### Only model-checked

Liveness and everything that speaks of ENABLED, which the proof system does
not handle (`DrainReturnsBeforeReread`, `ShutdownEnds`, `JoinsOrGoes`,
`PeerGoneIsNoticed`, `WholeIsDelivered`, `CallsReturn`, `DisconnectReturns`). Every
invariant, every action property and every refinement that a run checks is also
a theorem. What a recursive definition computes for every input is out of the
provers' reach; nothing proved here has a RECURSIVE operator.

## 5. Disagreements between the code and what is said of it

With a run that shows them:

1. From a `tail` of `NS_SEND_BUF_SIZE`, which a packet that ends exactly on the
   end of the ring leaves (server.c:132), the drain sends the array again and
   again for as long as the peer reads (`send_buf_stall`; server.c:152 "never
   stalls the event loop").
2. A send to a peer that closed and then reset ends the server with SIGPIPE
   (`server_sigpipe`; server.c:160 "returns -1 so the caller can disconnect the
   client").
3. On the server's non-blocking sockets a packet that arrives in pieces loses
   its first piece and puts the reader out of step for good (`framing_pieces`;
   comm.c:77 "Loops over recv() until the full byte count arrives").
   `ns_send_packet` writes header and body with two calls, so this needs no
   unusual network.
4. A NS_UI_DISCONNECTED still queued when the user reconnects makes the main
   thread join the new receiver: the window hangs for as long as the new server
   stays (`client_stale`; client.c:511 "queues NS_UI_DISCONNECTED to restore the
   login UI").
5. `ns_db_find_user_id` leaves its SELECT on the row; once another process has
   written, this one's writes are refused with nobody writing
   (`database_reads`; README.md:445 "concurrent reads do not block writes").

Met while modelling, contained in the models, without a run of their own:

- After an EAGAIN of an earlier call, a packet of the wrong version keeps its
  connection: `ns_recv_packet` reports it without setting `errno` (server.c:787,
  README.md:130 "a mismatch causes the receiver to close the connection
  immediately"). `ReadError` has it.
- A connection that closes between the header and the body of a packet is
  reported as CLOSED and not as an error, since the body's first `recv()`
  returns 0 (comm.c:648, comm.c:600 "NS_RECV_CLOSED (0) on clean EOF before the
  header"). `EndHasCause` allows that place and no other.
- The socket that a text is sent on is read under the lock and used after it: the
  receiver may have closed it and its number may name something else in the
  process (client.c:599, client.c:265 "so the caller gets exclusive ownership of
  the socket before performing shutdown/close operations"). `JoinedOnSocket`
  says until when it is the connection's.
- A step of the history query that fails is taken for its end, and the call
  reports success with rows missing (db.c:364, db.c:329 "0 on success, -1 on
  invalid arguments or statement failure"). `RecentMessages` has it;
  `HistoryInOrder` says what the rows that are delivered look like.
- The same `tail` makes the ring look full although everything was sent
  (server.c:69 "One slot is kept empty").
- A rejected JOIN has its ERROR put in a ring that is cleared before it can be
  sent (server.c:511 "Sends an ERROR packet for every rejection").
- `poll()` is called with 1025 entries; Linux refuses more than RLIMIT_NOFILE,
  1024 by default, and the server exits (server.c:931).
- A receiver that has copied the descriptor and not yet called `recv()` when the
  main thread closes it may wait on a descriptor of another thread; the main
  thread then waits for it in `g_thread_join` (`OnForeign`).
- A server that stops reading freezes the client's window, when a text is sent
  and also when the user closes it: the LEAVE goes out on a blocking socket
  before the shutdown (client.c:403, 436).
- Idle callbacks that touch widgets, events and scrolling, may run after the
  window was destroyed (client.c:780): "draining" still dispatches them.
- A write that finds the file locked while the SELECT is open is refused without
  the five seconds of `busy_timeout`.
- `ns_db_get_or_create_user` may report failure with the user committed: the
  SELECT comes after the COMMIT (db.c:247).
- Ids are 64 bits in the file and 32 in the program (db.c:64); past 2^32 two
  users would share one.

Statements of the repository that its code has outgrown:

- README.md:505 and README.md:569 say that there is no graceful shutdown and "no
  signal handler that closes client connections cleanly before exit"; server.c:40-65
  and 920-929 have one (`ShutdownEnds`).
- README.md:192 and README.md:256 have the receiver read `socket_fd` under the lock
  at the start of each loop iteration; it copies the descriptor once, before
  the loop (client.c:530), which is what `CopySocket` does.
- README.md:254 starts the receiver thread "After a successful join"; the code
  starts it once the JOIN is sent (client.c:756-760), before any ACK.

What no property covers is said at the hazard it belongs to in PROJECT.json: ids past
32 bits, a user committed by a call that reports failure, history rows that are
missing, readiness bits that two places clear, widgets after their window.

## 6. Not modelled, and the plan

Not modelled for good: socket setup, paths, error strings (straight-line calls,
no state); UI layout; the Windows build; the locking of SQLite's rollback mode.

Done: `SendBuf`, `SendQueue`, `Server`, `ChatRoom`, `WireFormat`, `Framing`, `PacketChannel`,
`Database`, `UserDirectory`, `ClientApp`, with their runs and the theorems above.

Left: `System`, a server with clients of `ClientApp` over connections of
`PacketChannel`. `Server` and `ClientApp` each have the other side as an
environment that may do more than the real one; the composition would add
nothing to their safety properties, and its state space is large.

----------------------------- MODULE ClientApp -----------------------------
(***************************************************************************)
(* The GTK client, client/client.c: the main thread, which runs one GTK    *)
(* callback or one idle callback at a time, and the receiver thread of     *)
(* each connection.  They share socket_fd, joined and the thread handle    *)
(* under connection_lock, and the receiver tells the main thread what      *)
(* happened through the idle queue.                                        *)
(*                                                                         *)
(* Connections are numbered in the order ns_connect_tcp makes them, and    *)
(* the receiver thread started for connection c is c.  Descriptors are     *)
(* numbers the kernel gives out again after close(): fdTable says what     *)
(* each one names.  A step is one lock section, one system call or a       *)
(* stretch of a callback that only its own thread's state depends on.      *)
(* Texts, the status label, the sidebar, transport_connected (never read)  *)
(* and user_id (only copied into packets) are left out.                    *)
(***************************************************************************)
EXTENDS Integers, Sequences, FiniteSets

CONSTANTS
    MaxConns,     \* bound on the connections the user makes
    MaxPackets,   \* bound on the packets a server sends on one connection
    NumFds,       \* size of the descriptor table
    MaxForeign    \* bound on descriptors opened by other threads of the process

ASSUME ClientAssumption ==
    /\ MaxConns \in Nat \ {0}
    /\ MaxPackets \in Nat
    /\ NumFds \in Nat \ {0}
    /\ MaxForeign \in Nat

Conns == 1..MaxConns
Fds == 1..NumFds
Invalid == 0       \* NS_INVALID_SOCKET
Free == 0          \* a descriptor that names nothing
Foreign == -1      \* a descriptor another thread of the process opened
NoThread == 0      \* receiver_thread is NULL

VARIABLES
    \* under connection_lock
    socketFd, joined, receiverThread, receiverActive,
    \* the main thread: where it stands, in which callback, its locals
    mainPc, mainThen, mainFd, mainThread,
    \* the widgets
    page, loginOn, sendOn, phase,
    events,       \* the GLib idle queue
    \* receiver threads: where they stand, their descriptor, what recv() waits on
    rpc, rfd, ron,
    \* the kernel and the servers
    fdTable, inbox, sends, acked, closedByPeer, shut, made,
    stalled       \* connections on which send() waits for the server to read

shared == <<socketFd, joined, receiverThread, receiverActive>>
mainVars == <<mainPc, mainThen, mainFd, mainThread>>
widgets == <<page, loginOn, sendOn, phase>>
recvVars == <<rpc, rfd, ron>>
peerVars == <<inbox, sends, acked, closedByPeer, stalled>>
kernel == <<fdTable, shut, made, peerVars>>
vars == <<shared, mainVars, widgets, events, recvVars, kernel>>

\* What the server sends; LINE stands for JOIN, TEXT and LEAVE.
Packets == {"ACK", "LINE", "ERROR"}
\* The NsUiEvent types, and SCROLL for the idle callback of an appended line.
EventTypes == {"APPEND_LINE", "CONNECTED", "DISCONNECTED", "STATUS", "SCROLL"}
MainPcs ==
    {"idle", "join_send", "send", "take", "leave", "shut", "close", "join", "wait", "after"}
Callbacks == {"none", "join_failed", "send_failed", "disconnected", "close_request", "shutdown"}
Notifying == {"close_request", "shutdown"}   \* notify_server is TRUE
RecvPcs == {"none", "start", "call", "wait", "acked", "take", "shut", "close", "queue", "done"}

MainIdle == mainPc = "idle"
Alive(c) == rpc[c] \notin {"none", "done"}

\* ns_client_run and ns_client_load_ui up to the first turn of the main loop.
Init ==
    /\ socketFd = Invalid /\ joined = FALSE
    /\ receiverThread = NoThread /\ receiverActive = FALSE
    /\ mainPc = "idle" /\ mainThen = "none" /\ mainFd = Invalid /\ mainThread = NoThread
    /\ page = "login" /\ loginOn = TRUE /\ sendOn = FALSE /\ phase = "open"
    /\ events = <<>>
    /\ rpc = [c \in Conns |-> "none"]
    /\ rfd = [c \in Conns |-> Invalid]
    /\ ron = [c \in Conns |-> Free]
    /\ fdTable = [f \in Fds |-> Free]
    /\ inbox = [c \in Conns |-> <<>>] /\ sends = [c \in Conns |-> 0]
    /\ acked = {} /\ closedByPeer = {} /\ shut = {} /\ stalled = {} /\ made = 0

-----------------------------------------------------------------------------
\* Shared pieces.

\* socket() gives out the lowest free descriptor.
LowestFree(f) == fdTable[f] = Free /\ \A g \in Fds : fdTable[g] = Free => f <= g

\* A mistake to be caught: joined survives the socket.
TakeSocketKeepingJoined == socketFd' = Invalid /\ UNCHANGED joined

\* A mistake to be caught: the taker does not clear socket_fd.
TakeSocketLeavingIt == joined' = FALSE /\ UNCHANGED socketFd

\* ns_client_take_socket, but for the copy the caller keeps.
TakeSocket == socketFd' = Invalid /\ joined' = FALSE

\* shutdown() of whatever the descriptor names now.
ShutdownFd(fd) == shut' = shut \cup ({fdTable[fd]} \cap Conns)

CloseFd(fd) == fdTable' = [fdTable EXCEPT ![fd] = Free]

\* ns_client_queue_ui_event, once for each event of the sequence
Queue(evs) == events' = events \o evs

-----------------------------------------------------------------------------
\* The main thread: connecting.

\* ns_client_on_connect_clicked up to the JOIN.  A refused form and a failed
\* ns_connect_tcp only set the status label.
ConnectClicked ==
    /\ MainIdle /\ phase = "open" /\ page = "login" /\ loginOn
    /\ made < MaxConns
    /\ \E f \in Fds :
          /\ LowestFree(f)
          /\ fdTable' = [fdTable EXCEPT ![f] = made + 1]
          /\ socketFd' = f
          /\ mainFd' = f
    /\ made' = made + 1
    /\ joined' = FALSE
    /\ loginOn' = FALSE /\ sendOn' = FALSE
    /\ mainPc' = "join_send"
    /\ UNCHANGED <<receiverThread, receiverActive, mainThen, mainThread, page, phase,
                   events, recvVars, shut, peerVars>>

\* The JOIN went out, as the first packet of a connection does without
\* waiting: the receiver thread is created under the lock.
JoinSent ==
    /\ mainPc = "join_send"
    /\ receiverThread' = made
    /\ receiverActive' = TRUE
    /\ rpc' = [rpc EXCEPT ![made] = "start"]
    /\ mainPc' = "idle"
    /\ UNCHANGED <<socketFd, joined, mainThen, mainFd, mainThread, widgets, events, rfd, ron,
                   kernel>>

\* ns_client_disconnect is called from a callback.
Disconnect(callback) == mainPc' = "take" /\ mainThen' = callback

JoinNotSent ==
    /\ mainPc = "join_send"
    /\ made \in closedByPeer
    /\ Disconnect("join_failed")
    /\ UNCHANGED <<shared, mainFd, mainThread, widgets, events, recvVars, kernel>>

-----------------------------------------------------------------------------
\* The main thread: sending.

\* ns_client_on_send_clicked up to ns_send_packet, from the button or from
\* Enter in the message entry.  An empty or too long text, or no joined
\* connection, changes at most the status label.
SendClicked ==
    /\ MainIdle /\ phase = "open" /\ page = "chat"
    /\ socketFd # Invalid /\ joined
    /\ mainFd' = socketFd
    /\ mainPc' = "send"
    /\ UNCHANGED <<shared, mainThen, mainThread, widgets, events, recvVars, kernel>>

\* send() by descriptor number: whatever it names by now takes the bytes, if
\* it has room for them.
TextSent ==
    /\ mainPc = "send"
    /\ fdTable[mainFd] \notin shut \cup stalled \cup {Free}
    /\ mainPc' = "idle"
    /\ UNCHANGED <<shared, mainThen, mainFd, mainThread, widgets, events, recvVars, kernel>>

TextNotSent ==
    /\ mainPc = "send"
    /\ fdTable[mainFd] \in shut \cup closedByPeer \cup {Free, Foreign}
    /\ Disconnect("send_failed")
    /\ UNCHANGED <<shared, mainFd, mainThread, widgets, events, recvVars, kernel>>

-----------------------------------------------------------------------------
\* The main thread: ns_client_disconnect and ns_client_join_receiver_thread.

TakeByMain ==
    /\ mainPc = "take"
    /\ mainFd' = socketFd
    /\ TakeSocket
    /\ mainPc' = CASE socketFd = Invalid -> "join"
                   [] socketFd # Invalid /\ joined /\ mainThen \in Notifying -> "leave"
                   [] OTHER -> "shut"
    /\ UNCHANGED <<receiverThread, receiverActive, mainThen, mainThread, widgets, events,
                   recvVars, kernel>>

\* ns_client_send_leave_if_needed: send() returns once there is room for the
\* LEAVE, or with an error, which is ignored.
LeaveSent ==
    /\ mainPc = "leave"
    /\ fdTable[mainFd] \notin stalled
    /\ mainPc' = "shut"
    /\ UNCHANGED <<shared, mainThen, mainFd, mainThread, widgets, events, recvVars, kernel>>

\* A mistake to be caught: close() alone does not wake a recv() in progress.
ShutByMainSkipped ==
    /\ mainPc = "shut"
    /\ mainPc' = "close"
    /\ UNCHANGED <<shared, mainThen, mainFd, mainThread, widgets, events, recvVars, kernel>>

ShutByMain ==
    /\ mainPc = "shut"
    /\ ShutdownFd(mainFd)
    /\ mainPc' = "close"
    /\ UNCHANGED <<shared, mainThen, mainFd, mainThread, widgets, events, recvVars,
                   fdTable, made, peerVars>>

CloseByMain ==
    /\ mainPc = "close"
    /\ CloseFd(mainFd)
    /\ mainPc' = "join"
    /\ UNCHANGED <<shared, mainThen, mainFd, mainThread, widgets, events, recvVars,
                   shut, made, peerVars>>

\* A mistake to be caught: the handle is dropped without g_thread_join.
JoinReceiverDetached ==
    /\ mainPc = "join"
    /\ receiverThread' = NoThread
    /\ receiverActive' = FALSE
    /\ mainPc' = "after"
    /\ UNCHANGED <<socketFd, joined, mainThen, mainFd, mainThread, widgets, events, recvVars,
                   kernel>>

\* ns_client_join_receiver_thread, its lock section
JoinReceiver ==
    /\ mainPc = "join"
    /\ IF receiverActive
       THEN /\ mainThread' = receiverThread
            /\ receiverThread' = NoThread
            /\ receiverActive' = FALSE
            /\ mainPc' = "wait"
       ELSE /\ mainPc' = "after"
            /\ UNCHANGED <<mainThread, receiverThread, receiverActive>>
    /\ UNCHANGED <<socketFd, joined, mainThen, mainFd, widgets, events, recvVars, kernel>>

\* g_thread_join returns.
ReceiverJoined ==
    /\ mainPc = "wait"
    /\ rpc[mainThread] = "done"
    /\ mainThread' = NoThread
    /\ mainPc' = "after"
    /\ UNCHANGED <<shared, mainThen, mainFd, widgets, events, recvVars, kernel>>

\* The callback has its disconnect behind it and finishes.
Return == mainPc' = "idle" /\ mainThen' = "none"

\* ns_client_on_connect_clicked, the JOIN could not be sent
AfterJoinFailed ==
    /\ mainPc = "after" /\ mainThen = "join_failed"
    /\ loginOn' = TRUE
    /\ Return
    /\ UNCHANGED <<shared, mainFd, mainThread, page, sendOn, phase, events, recvVars, kernel>>

\* ns_client_on_send_clicked, the text could not be sent, and the rest of
\* NS_UI_DISCONNECTED in ns_client_dispatch_ui_event
BackToLogin ==
    /\ mainPc = "after" /\ mainThen \in {"send_failed", "disconnected"}
    /\ sendOn' = FALSE /\ loginOn' = TRUE /\ page' = "login"
    /\ Return
    /\ UNCHANGED <<shared, mainFd, mainThread, phase, events, recvVars, kernel>>

\* ns_client_on_close_request returns FALSE: GTK destroys the window with its
\* widgets, the application has no window left and its main loop ends.
AfterCloseRequest ==
    /\ mainPc = "after" /\ mainThen = "close_request"
    /\ phase' = "leaving"
    /\ Return
    /\ UNCHANGED <<shared, mainFd, mainThread, page, loginOn, sendOn, events, recvVars, kernel>>

\* After the shutdown signal g_application_run still runs the callbacks that
\* are waiting.
AfterShutdown ==
    /\ mainPc = "after" /\ mainThen = "shutdown"
    /\ phase' = "draining"
    /\ Return
    /\ UNCHANGED <<shared, mainFd, mainThread, page, loginOn, sendOn, events, recvVars, kernel>>

-----------------------------------------------------------------------------
\* The main thread: leaving.

\* ns_client_on_close_request
CloseRequest ==
    /\ MainIdle /\ phase = "open"
    /\ Disconnect("close_request")
    /\ UNCHANGED <<shared, mainFd, mainThread, widgets, events, recvVars, kernel>>

\* ns_client_on_shutdown
OnShutdown ==
    /\ MainIdle /\ phase = "leaving"
    /\ Disconnect("shutdown")
    /\ UNCHANGED <<shared, mainFd, mainThread, widgets, events, recvVars, kernel>>

\* Nothing waits in the main context any more: g_application_run returns.
RunReturns ==
    /\ MainIdle /\ phase = "draining" /\ events = <<>>
    /\ phase' = "returned"
    /\ UNCHANGED <<shared, mainVars, page, loginOn, sendOn, events, recvVars, kernel>>

\* ns_client_run after g_application_run: the mutex and app are freed,
\* whatever was queued in between.
FreeApp ==
    /\ phase = "returned"
    /\ phase' = "freed"
    /\ UNCHANGED <<shared, mainVars, page, loginOn, sendOn, events, recvVars, kernel>>

-----------------------------------------------------------------------------
\* The main thread: ns_client_dispatch_ui_event, with the oldest event.

CanDispatch(type) ==
    /\ MainIdle /\ phase \in {"open", "draining"}
    /\ events # <<>> /\ Head(events) = type

Dequeue == events' = Tail(events)

\* ns_client_append_line, of a line that is not empty: the text goes to the
\* transcript, and ns_client_scroll_to_bottom to the end of the idle queue,
\* with app.
AppendLine == events' = Append(Tail(events), "SCROLL")

DispatchText ==
    /\ CanDispatch("APPEND_LINE")
    /\ AppendLine
    /\ UNCHANGED <<shared, mainVars, widgets, recvVars, kernel>>

DispatchStatus ==
    /\ CanDispatch("STATUS")
    /\ Dequeue
    /\ UNCHANGED <<shared, mainVars, widgets, recvVars, kernel>>

\* ns_client_scroll_to_bottom
Scroll ==
    /\ CanDispatch("SCROLL")
    /\ Dequeue
    /\ UNCHANGED <<shared, mainVars, widgets, recvVars, kernel>>

\* A mistake to be caught: the login form stays enabled on the chat page.
DispatchConnectedKeepingLogin ==
    /\ CanDispatch("CONNECTED")
    /\ AppendLine
    /\ page' = "chat" /\ sendOn' = TRUE /\ loginOn' = TRUE
    /\ UNCHANGED <<shared, mainVars, phase, recvVars, kernel>>

DispatchConnected ==
    /\ CanDispatch("CONNECTED")
    /\ AppendLine
    /\ page' = "chat" /\ sendOn' = TRUE /\ loginOn' = FALSE
    /\ UNCHANGED <<shared, mainVars, phase, recvVars, kernel>>

DispatchDisconnected ==
    /\ CanDispatch("DISCONNECTED")
    /\ Dequeue
    /\ mainPc' = "join" /\ mainThen' = "disconnected"
    /\ UNCHANGED <<shared, mainFd, mainThread, widgets, recvVars, kernel>>

-----------------------------------------------------------------------------
\* The receiver thread of connection c: ns_client_receive_loop.

Goto(c, pc) == rpc' = [rpc EXCEPT ![c] = pc]

\* ns_client_get_socket_copy, once, before the loop
CopySocket(c) ==
    /\ rpc[c] = "start"
    /\ rfd' = [rfd EXCEPT ![c] = socketFd]
    /\ Goto(c, IF socketFd # Invalid THEN "call" ELSE "take")
    /\ UNCHANGED <<shared, mainVars, widgets, events, ron, kernel>>

\* recv() looks the descriptor up: a connection, nothing (EBADF), or what
\* another thread opened there, which fails or is waited for.
CallRecv(c) ==
    /\ rpc[c] = "call"
    /\ \/ /\ fdTable[rfd[c]] \in Conns \cup {Foreign}
          /\ ron' = [ron EXCEPT ![c] = fdTable[rfd[c]]]
          /\ Goto(c, "wait")
       \/ /\ fdTable[rfd[c]] \in {Free, Foreign}
          /\ Goto(c, "take")
          /\ UNCHANGED ron
    /\ UNCHANGED <<shared, mainVars, widgets, events, rfd, kernel>>

\* ns_client_handle_packet; of an ACK, the part under the lock
Receive(c) ==
    /\ rpc[c] = "wait" /\ ron[c] \in Conns
    /\ inbox[ron[c]] # <<>>
    /\ inbox' = [inbox EXCEPT ![ron[c]] = Tail(@)]
    /\ \/ /\ Head(inbox[ron[c]]) = "ACK"
          /\ joined' = TRUE
          /\ Goto(c, "acked")
          /\ UNCHANGED events
       \/ /\ Head(inbox[ron[c]]) = "LINE"
          /\ Queue(<<"APPEND_LINE">>)
          /\ Goto(c, "call")
          /\ UNCHANGED joined
       \/ /\ Head(inbox[ron[c]]) = "ERROR"
          /\ Queue(<<"APPEND_LINE", "STATUS">>)
          /\ Goto(c, "call")
          /\ UNCHANGED joined
    /\ UNCHANGED <<socketFd, receiverThread, receiverActive, mainVars, widgets, rfd, ron,
                   fdTable, shut, made, sends, acked, closedByPeer, stalled>>

\* A mistake to be caught: the packet's type where the event's belongs.
QueueConnectedMistyped(c) ==
    /\ rpc[c] = "acked"
    /\ Queue(<<"ACK">>)
    /\ Goto(c, "call")
    /\ UNCHANGED <<shared, mainVars, widgets, rfd, ron, kernel>>

QueueConnected(c) ==
    /\ rpc[c] = "acked"
    /\ Queue(<<"CONNECTED">>)
    /\ Goto(c, "call")
    /\ UNCHANGED <<shared, mainVars, widgets, rfd, ron, kernel>>

\* ns_recv_packet returns 0 or -1: end of the stream, or a reset by the peer.
ReceiveEnds(c) ==
    /\ rpc[c] = "wait" /\ ron[c] \in Conns
    /\ \/ inbox[ron[c]] = <<>> /\ ron[c] \in shut
       \/ ron[c] \in closedByPeer
    /\ Goto(c, "take")
    /\ UNCHANGED <<shared, mainVars, widgets, events, rfd, ron, kernel>>

\* A mistake to be caught: the socket is taken and not closed.
TakeByReceiverLeaking(c) ==
    /\ rpc[c] = "take"
    /\ rfd' = [rfd EXCEPT ![c] = socketFd]
    /\ TakeSocket
    /\ Goto(c, "queue")
    /\ UNCHANGED <<receiverThread, receiverActive, mainVars, widgets, events, ron, kernel>>

TakeByReceiver(c) ==
    /\ rpc[c] = "take"
    /\ rfd' = [rfd EXCEPT ![c] = socketFd]
    /\ TakeSocket
    /\ Goto(c, IF socketFd # Invalid THEN "shut" ELSE "queue")
    /\ UNCHANGED <<receiverThread, receiverActive, mainVars, widgets, events, ron, kernel>>

ShutByReceiver(c) ==
    /\ rpc[c] = "shut"
    /\ ShutdownFd(rfd[c])
    /\ Goto(c, "close")
    /\ UNCHANGED <<shared, mainVars, widgets, events, rfd, ron, fdTable, made, peerVars>>

CloseByReceiver(c) ==
    /\ rpc[c] = "close"
    /\ CloseFd(rfd[c])
    /\ Goto(c, "queue")
    /\ UNCHANGED <<shared, mainVars, widgets, events, rfd, ron, shut, made, peerVars>>

\* A mistake to be caught: the thread ends without telling the main thread.
QueueDisconnectedSkipped(c) ==
    /\ rpc[c] = "queue"
    /\ Goto(c, "done")
    /\ UNCHANGED <<shared, mainVars, widgets, events, rfd, ron, kernel>>

\* The last event, and the thread ends.
QueueDisconnected(c) ==
    /\ rpc[c] = "queue"
    /\ Queue(<<"DISCONNECTED">>)
    /\ Goto(c, "done")
    /\ UNCHANGED <<shared, mainVars, widgets, rfd, ron, kernel>>

-----------------------------------------------------------------------------
\* The servers, and the other threads of the process (GLib, GDK).

\* A server answers a JOIN once with ACK, relays lines to a member, and
\* reports errors.
ServerSends(c) ==
    /\ rpc[c] # "none" /\ c \notin closedByPeer \cup shut
    /\ sends[c] < MaxPackets
    /\ \E p \in Packets :
          /\ p = "ACK" => c \notin acked
          /\ p = "LINE" => c \in acked
          /\ inbox' = [inbox EXCEPT ![c] = Append(@, p)]
          /\ acked' = IF p = "ACK" THEN acked \cup {c} ELSE acked
    /\ sends' = [sends EXCEPT ![c] = @ + 1]
    /\ UNCHANGED <<shared, mainVars, widgets, events, recvVars, fdTable, shut, made,
                   closedByPeer, stalled>>

\* A send() that waits is woken.
ServerCloses(c) ==
    /\ c <= made /\ c \notin closedByPeer
    /\ closedByPeer' = closedByPeer \cup {c}
    /\ stalled' = stalled \ {c}
    /\ UNCHANGED <<shared, mainVars, widgets, events, recvVars, fdTable, shut, made, inbox,
                   sends, acked>>

\* A server has stopped reading and the texts of a joined client fill the
\* buffers.  Nobody notices before the main thread sends, so it is not
\* decided earlier.
ServerStalls(c) ==
    /\ mainPc \in {"send", "leave"} /\ fdTable[mainFd] = c
    /\ c \notin stalled \cup closedByPeer \cup shut
    /\ stalled' = stalled \cup {c}
    /\ UNCHANGED <<shared, mainVars, widgets, events, recvVars, fdTable, shut, made, inbox,
                   sends, acked, closedByPeer>>

\* It reads again.
ServerReads(c) ==
    /\ c \in stalled
    /\ stalled' = stalled \ {c}
    /\ UNCHANGED <<shared, mainVars, widgets, events, recvVars, fdTable, shut, made, inbox,
                   sends, acked, closedByPeer>>

ForeignOpen ==
    /\ Cardinality({f \in Fds : fdTable[f] = Foreign}) < MaxForeign
    /\ phase # "freed"
    /\ \E f \in Fds : LowestFree(f) /\ fdTable' = [fdTable EXCEPT ![f] = Foreign]
    /\ UNCHANGED <<shared, mainVars, widgets, events, recvVars, shut, made, peerVars>>

-----------------------------------------------------------------------------
\* What the main thread does by itself, once a callback has begun or is waiting.
MainStep ==
    \/ JoinSent \/ JoinNotSent \/ TextSent \/ TextNotSent
    \/ TakeByMain \/ LeaveSent \/ ShutByMain \/ CloseByMain \/ JoinReceiver \/ ReceiverJoined
    \/ AfterJoinFailed \/ BackToLogin \/ AfterCloseRequest \/ AfterShutdown
    \/ OnShutdown \/ RunReturns \/ FreeApp
    \/ DispatchText \/ DispatchStatus \/ Scroll \/ DispatchConnected \/ DispatchDisconnected

ReceiverStep(c) ==
    \/ CopySocket(c) \/ CallRecv(c) \/ Receive(c) \/ QueueConnected(c) \/ ReceiveEnds(c)
    \/ TakeByReceiver(c) \/ ShutByReceiver(c) \/ CloseByReceiver(c) \/ QueueDisconnected(c)

UserStep == ConnectClicked \/ SendClicked \/ CloseRequest

Environment ==
    \/ \E c \in Conns : ServerSends(c) \/ ServerCloses(c) \/ ServerStalls(c) \/ ServerReads(c)
    \/ ForeignOpen

\* The main thread, a receiver: in send() or recv() on a descriptor that
\* another thread of the process opened where the connection was.
MainOnForeign == mainPc = "send" /\ fdTable[mainFd] = Foreign
OnForeign == MainOnForeign \/ \E c \in Conns : rpc[c] = "wait" /\ ron[c] = Foreign

\* The process has ended, or may wait for ever.
Ended == (phase = "freed" \/ OnForeign) /\ UNCHANGED vars

Next == MainStep \/ (\E c \in Conns : ReceiverStep(c)) \/ UserStep \/ Environment \/ Ended

Spec == Init /\ [][Next]_vars

\* The operating system runs both threads, and the main loop reaches its
\* idle callbacks.  Nothing is asked of the user or of the servers: a send()
\* on a stalled connection, and one on a foreign descriptor, may never return.
FairSpec ==
    /\ Spec
    /\ WF_vars(~MainOnForeign /\ MainStep)
    /\ \A c \in Conns : WF_vars(ReceiverStep(c))

-----------------------------------------------------------------------------
TypeOK ==
    /\ socketFd \in Fds \cup {Invalid} /\ joined \in BOOLEAN
    /\ receiverThread \in Conns \cup {NoThread} /\ receiverActive \in BOOLEAN
    /\ mainPc \in MainPcs /\ mainThen \in Callbacks
    /\ mainFd \in Fds \cup {Invalid} /\ mainThread \in Conns \cup {NoThread}
    /\ page \in {"login", "chat"} /\ loginOn \in BOOLEAN /\ sendOn \in BOOLEAN
    /\ phase \in {"open", "leaving", "draining", "returned", "freed"}
    /\ events \in Seq(EventTypes)
    /\ rpc \in [Conns -> RecvPcs]
    /\ rfd \in [Conns -> Fds \cup {Invalid}]
    /\ ron \in [Conns -> Conns \cup {Free, Foreign}]
    /\ fdTable \in [Fds -> Conns \cup {Free, Foreign}]
    /\ inbox \in [Conns -> Seq(Packets)] /\ sends \in [Conns -> 0..MaxPackets]
    /\ acked \subseteq Conns /\ closedByPeer \subseteq Conns /\ shut \subseteq Conns
    /\ stalled \subseteq Conns
    /\ made \in 0..MaxConns

\* At most one receiver thread runs, it is that of the newest connection, and
\* the main thread has its handle: ns_client_on_connect_clicked overwrites
\* receiver_thread without looking, so a thread still running there would
\* never be joined.
NoStrayReceiver ==
    \A c \in Conns : Alive(c) =>
        /\ c = made
        /\ \/ receiverActive /\ receiverThread = c
           \/ mainPc = "wait" /\ mainThread = c

\* A thread that took a socket tells the server, shuts down and closes that
\* connection and nothing else: no double close, no close of a descriptor given out again
\* (ns_client_take_socket, ns_client_close_socket).
ClosesItsOwn ==
    /\ mainPc \in {"leave", "shut", "close"} => fdTable[mainFd] = made
    /\ \A c \in Conns : rpc[c] \in {"shut", "close"} => fdTable[rfd[c]] = c

\* A receiver never reads the packets of a later connection, although it
\* keeps using a descriptor number that may have been closed
\* (ns_client_receive_loop).
NoCrossTalk == \A c \in Conns : rpc[c] = "wait" => ron[c] \in {c, Foreign}

\* Between callbacks, joined is set only with the socket of the newest
\* connection in place: an ACK that the receiver handles after the main
\* thread took the socket (ns_client_handle_packet) does not outlive the
\* callback, so the next one is not told that a lost client is a member.
\* ns_client_on_send_clicked sends on a descriptor that it copied before it
\* released the lock.  For as long as joined stays set that is still the
\* connection's.  Once the receiver has taken the socket it may be closed, or
\* somebody else's in this process; it is never a later connection.
JoinedOnSocket ==
    /\ mainPc \in {"idle", "send"} /\ joined =>
          socketFd # Invalid /\ fdTable[socketFd] = made
    /\ mainPc = "send" =>
          fdTable[mainFd] \in {made} \cup (IF joined THEN {} ELSE {Free, Foreign})

\* Between callbacks, every open connection is the one in socket_fd or is
\* being closed by the receiver: none is lost.
NoLostSocket ==
    MainIdle => \A f \in Fds : fdTable[f] \in Conns =>
        \/ f = socketFd
        \/ \E c \in Conns : rpc[c] \in {"shut", "close"} /\ rfd[c] = f

\* The user can press Connect only with no connection and no receiver left,
\* "so the user cannot change fields while a connection attempt is in
\* progress" (ns_client_set_login_sensitive).
LoginOnlyWhenFree ==
    MainIdle /\ phase = "open" /\ loginOn =>
        socketFd = Invalid /\ \A c \in Conns : ~Alive(c)

\* Once the idle queue is empty the widgets show the truth: the chat page
\* exactly with a joined connection, and the login form whenever no receiver
\* is left, whatever order failures, events and new connections came in.
ViewFollowsConnection ==
    MainIdle /\ phase = "open" /\ events = <<>> =>
        /\ (\A c \in Conns : rpc[c] \in {"none", "start", "call", "wait", "done"}) =>
              /\ page = "chat" <=> joined
              /\ sendOn <=> joined
        /\ (\A c \in Conns : ~Alive(c)) => loginOn /\ page = "login"

\* From the moment g_application_run has returned, ns_client_run frees the
\* mutex and app without looking: no receiver thread can still use them, none
\* is left unjoined, no callback that holds app, neither an event nor the
\* scrolling of a line, is or can still be queued, and no connection is open.
FreedAlone ==
    phase \in {"returned", "freed"} =>
        /\ \A c \in Conns : ~Alive(c)
        /\ ~receiverActive /\ mainThread = NoThread
        /\ events = <<>>
        /\ socketFd = Invalid
        /\ \A f \in Fds : fdTable[f] \notin Conns

\* From some time on, the servers read what they are sent or close.
ServersRead == <>[](stalled = {})

\* ns_client_disconnect returns, if the servers read what they are sent: its
\* shutdown() wakes the receiver it then joins, whatever a server sends or
\* does not send, unless recv() was called on a descriptor that had become
\* somebody else's.  The LEAVE goes out before it, on a blocking socket, so a
\* server that never reads again holds the window for ever (client.c:436).
DisconnectReturns ==
    ServersRead => ((mainPc = "take") ~> (MainIdle \/ OnForeign))

\* client.c:512 "queues NS_UI_DISCONNECTED to restore the login UI": while the
\* event waits, the login form is on its way.
DisconnectRestoresLogin ==
    ServersRead =>
        ((\E i \in DOMAIN events : events[i] = "DISCONNECTED")
            ~> (phase # "open" \/ (loginOn /\ page = "login")))

=============================================================================

-------------------------- MODULE ClientAppProofs --------------------------
(***************************************************************************)
(* Theorems about ClientApp for every number of connections, packets and   *)
(* descriptors.                                                            *)
(***************************************************************************)
EXTENDS ClientApp, SequenceTheorems, TLAPS

(***************************************************************************)
(* The inductive invariant.  Only the newest connection, made, can have a  *)
(* receiver or a descriptor; who of the two threads owns the descriptor is *)
(* read off the places where they stand.                                   *)
(***************************************************************************)

NoneAlive == \A c \in Conns : ~Alive(c)

\* The receiver has not taken the socket.
BeforeTake == {"start", "call", "wait", "acked", "take"}

\* Where a thread stands that took a socket and has not closed it.  Only the
\* main thread sends a LEAVE.
Closing == {"leave", "shut", "close"}

\* The main thread has called ns_client_take_socket in this callback.
MainTook ==
    \/ mainPc \in Closing
    \/ mainPc \in {"join", "wait", "after"} /\ mainThen # "disconnected"

\* The receiver thread is that of made, and the main thread knows its handle.
ThreadsOK ==
    /\ \A c \in Conns : c > made => rpc[c] = "none"
    /\ NoStrayReceiver
    /\ receiverActive => made \in Conns /\ receiverThread = made /\ mainPc # "wait"
    /\ mainPc = "wait" => made \in Conns /\ mainThread = made
    /\ mainPc # "wait" => mainThread = NoThread
    /\ mainPc = "join_send" => made \in Conns /\ rpc[made] = "none" /\ ~receiverActive
    /\ mainPc \in {"take"} \cup Closing => mainThen # "disconnected"

\* socket_fd holds the descriptor of made until one thread takes it.
SocketOK ==
    /\ socketFd # Invalid =>
          /\ made \in Conns /\ fdTable[socketFd] = made
          /\ mainPc \notin Closing
          /\ \/ mainPc = "join_send"
             \/ mainPc = "take" /\ mainThen = "join_failed"
             \/ receiverActive
             \/ mainPc = "wait"
          /\ rpc[made] \in BeforeTake \cup {"none"}
    /\ mainPc = "join_send" => socketFd # Invalid
    /\ joined => made \in Conns /\ rpc[made] \in {"call", "wait", "acked", "take"}
    /\ made \in Conns /\ rpc[made] \in BeforeTake /\ ~MainTook => socketFd # Invalid

\* An open connection is in socket_fd or with the one thread closing it.
FdsOK ==
    /\ mainPc \in {"send"} \cup Closing => mainFd \in Fds
    /\ mainPc = "send" => socketFd \in {Invalid, mainFd}
    /\ mainPc \in Closing =>
          made \in Conns /\ fdTable[mainFd] = made /\ rpc[made] \notin Closing
    /\ \A c \in Conns : rpc[c] \in {"call", "wait", "acked"} \cup Closing => rfd[c] \in Fds
    /\ \A c \in Conns : rpc[c] \in Closing => fdTable[rfd[c]] = c
    /\ \A f \in Fds : fdTable[f] \in Conns =>
          /\ fdTable[f] = made
          /\ \/ f = socketFd
             \/ mainPc \in Closing /\ f = mainFd
             \/ rpc[made] \in Closing /\ f = rfd[made]

\* Nothing is left of a connection.
AllGone == socketFd = Invalid /\ ~receiverActive /\ NoneAlive

\* Where the callbacks rely on that.
RestOK ==
    /\ loginOn => AllGone /\ mainPc \notin {"wait", "join_send"} \cup Closing
    /\ mainPc = "after" => AllGone
    /\ phase # "open" => AllGone /\ mainPc \in {"idle", "take", "join", "after"}
    /\ phase \in {"returned", "freed"} => events = <<>> /\ mainPc = "idle"

Sound == TypeOK /\ ThreadsOK /\ SocketOK /\ FdsOK /\ NoCrossTalk /\ RestOK

-----------------------------------------------------------------------------
\* Connections and descriptors are positive numbers.
LEMMA Numbers ==
    /\ \A c \in Conns : c \in Nat /\ c > 0
    /\ \A f \in Fds : f \in Nat /\ f > 0
    /\ Invalid \notin Fds /\ Free \notin Conns /\ Foreign \notin Conns /\ NoThread \notin Conns
  BY ClientAssumption DEF Conns, Fds, Invalid, Free, Foreign, NoThread

\* TypeOK in parts: the lock's variables, the main thread and the widgets.
MainTypes ==
    /\ socketFd \in Fds \cup {Invalid} /\ joined \in BOOLEAN
    /\ receiverThread \in Conns \cup {NoThread} /\ receiverActive \in BOOLEAN
    /\ mainPc \in MainPcs /\ mainThen \in Callbacks
    /\ mainFd \in Fds \cup {Invalid} /\ mainThread \in Conns \cup {NoThread}
    /\ page \in {"login", "chat"} /\ loginOn \in BOOLEAN /\ sendOn \in BOOLEAN
    /\ phase \in {"open", "leaving", "draining", "returned", "freed"}
    /\ made \in 0..MaxConns

\* The receiver threads' part.
ThreadTypes ==
    /\ rpc \in [Conns -> RecvPcs]
    /\ rfd \in [Conns -> Fds \cup {Invalid}]
    /\ ron \in [Conns -> Conns \cup {Free, Foreign}]

\* The part of the kernel and the servers.
KernelTypes ==
    /\ fdTable \in [Fds -> Conns \cup {Free, Foreign}]
    /\ inbox \in [Conns -> Seq(Packets)] /\ sends \in [Conns -> 0..MaxPackets]
    /\ acked \subseteq Conns /\ closedByPeer \subseteq Conns /\ shut \subseteq Conns
    /\ stalled \subseteq Conns

\* The parts make TypeOK up.
LEMMA Types == TypeOK <=> MainTypes /\ ThreadTypes /\ KernelTypes /\ events \in Seq(EventTypes)
  BY Zenon DEF TypeOK, MainTypes, ThreadTypes, KernelTypes

\* The same of the next state.
LEMMA TypesNext ==
  TypeOK' <=> MainTypes' /\ ThreadTypes' /\ KernelTypes' /\ events' \in Seq(EventTypes)
  BY Zenon DEF TypeOK, MainTypes, ThreadTypes, KernelTypes

-----------------------------------------------------------------------------
\* One lemma for each action.

\* ConnectClicked: a new connection: no receiver runs and no descriptor is open before it.
LEMMA ConnectClickedSound ==
  ASSUME Sound, ConnectClicked
  PROVE  Sound'
<1> USE Numbers DEF ConnectClicked, MainIdle, LowestFree, shared, mainVars, widgets, recvVars,
        kernel, peerVars, Closing, BeforeTake, Alive
<1>a. PICK g \in Fds : /\ fdTable' = [fdTable EXCEPT ![g] = made + 1]
                       /\ socketFd' = g /\ mainFd' = g
  OBVIOUS
<1>b. made + 1 \in Conns /\ made + 1 \in 0..MaxConns /\ made \in Nat
  BY ClientAssumption DEF Sound, TypeOK, Conns
<1>c. ~receiverActive /\ socketFd = Invalid /\ \A c \in Conns : rpc[c] \in {"none", "done"}
  BY DEF Sound, RestOK, AllGone, NoneAlive
<1>d. \A f \in Fds : fdTable[f] \notin Conns
  BY <1>c DEF Sound, FdsOK
<1>e. rpc[made + 1] = "none"
  BY <1>b DEF Sound, ThreadsOK
<1>f. fdTable'[g] = made + 1 /\ \A f \in Fds : fdTable'[f] \in Conns => f = g
  BY <1>a, <1>d DEF Sound, TypeOK
<1>1. TypeOK'
  <2>1. MainTypes'
    BY <1>a, <1>b, Types DEF Sound, MainTypes, MainPcs
  <2>2. ThreadTypes'
    BY Types DEF Sound, ThreadTypes
  <2>3. KernelTypes'
    BY <1>a, <1>b, Types DEF Sound, KernelTypes
  <2>4. events' \in Seq(EventTypes)
    BY Types DEF Sound
  <2> QED BY <2>1, <2>2, <2>3, <2>4, TypesNext
<1>2. ThreadsOK'
  BY <1>b, <1>c DEF Sound, TypeOK, ThreadsOK, NoStrayReceiver
<1>3. SocketOK'
  BY <1>a, <1>b, <1>e, <1>f DEF SocketOK, MainTook
<1>4. FdsOK'
  BY <1>a, <1>c, <1>f DEF FdsOK
<1>5. NoCrossTalk'
  BY DEF Sound, NoCrossTalk
<1>6. RestOK'
  BY DEF Sound, RestOK, AllGone, NoneAlive
<1> QED BY <1>1, <1>2, <1>3, <1>4, <1>5, <1>6 DEF Sound

\* JoinSent: the receiver thread of the new connection starts with the socket in place.
LEMMA JoinSentSound ==
  ASSUME Sound, JoinSent
  PROVE  Sound'
<1> USE Numbers DEF JoinSent, shared, mainVars, widgets, recvVars, kernel, peerVars, Closing,
        BeforeTake, Alive
<1>1. TypeOK'
  <2>1. MainTypes'
    BY Types, ClientAssumption DEF Sound, MainTypes, MainPcs, Callbacks, ThreadsOK,
        NoStrayReceiver
  <2>2. ThreadTypes'
    BY Types DEF Sound, ThreadTypes, RecvPcs
  <2>3. KernelTypes'
    BY Types DEF Sound, KernelTypes
  <2>4. events' \in Seq(EventTypes)
    BY Types DEF Sound
  <2> QED BY <2>1, <2>2, <2>3, <2>4, TypesNext
<1>2. ThreadsOK'
  BY DEF Sound, ThreadsOK, NoStrayReceiver
<1>3. SocketOK'
  BY DEF Sound, SocketOK, MainTook, ThreadsOK, NoStrayReceiver
<1>4. FdsOK'
  BY DEF Sound, TypeOK, SocketOK, FdsOK
<1>5. NoCrossTalk'
  BY DEF Sound, NoCrossTalk
<1>6. RestOK'
  BY DEF Sound, RestOK, AllGone, NoneAlive
<1> QED BY <1>1, <1>2, <1>3, <1>4, <1>5, <1>6 DEF Sound

\* JoinNotSent: no thread of this connection exists yet.
LEMMA JoinNotSentSound ==
  ASSUME Sound, JoinNotSent
  PROVE  Sound'
<1> USE Numbers DEF JoinNotSent, Disconnect, shared, mainVars, widgets, recvVars, kernel,
        peerVars, Closing, BeforeTake, Alive
<1>1. TypeOK'
  <2>1. MainTypes'
    BY Types DEF Sound, MainTypes, MainPcs, Callbacks
  <2>2. ThreadTypes'
    BY Types DEF Sound, ThreadTypes
  <2>3. KernelTypes'
    BY Types DEF Sound, KernelTypes
  <2>4. events' \in Seq(EventTypes)
    BY Types DEF Sound
  <2> QED BY <2>1, <2>2, <2>3, <2>4, TypesNext
<1>2. ThreadsOK'
  BY DEF Sound, ThreadsOK, NoStrayReceiver
<1>3. SocketOK'
  BY DEF Sound, SocketOK, MainTook
<1>4. FdsOK'
  BY DEF Sound, FdsOK
<1>5. NoCrossTalk'
  BY DEF Sound, NoCrossTalk
<1>6. RestOK'
  BY DEF Sound, RestOK, AllGone, NoneAlive
<1> QED BY <1>1, <1>2, <1>3, <1>4, <1>5, <1>6 DEF Sound

\* SendClicked keeps the invariant.
LEMMA SendClickedSound ==
  ASSUME Sound, SendClicked
  PROVE  Sound'
<1> USE Numbers DEF SendClicked, MainIdle, shared, mainVars, widgets, recvVars, kernel,
        peerVars, Closing, BeforeTake, Alive
<1>1. TypeOK'
  <2>1. MainTypes'
    BY Types DEF Sound, MainTypes, MainPcs, Callbacks
  <2>2. ThreadTypes'
    BY Types DEF Sound, ThreadTypes
  <2>3. KernelTypes'
    BY Types DEF Sound, KernelTypes
  <2>4. events' \in Seq(EventTypes)
    BY Types DEF Sound
  <2> QED BY <2>1, <2>2, <2>3, <2>4, TypesNext
<1>2. ThreadsOK'
  BY DEF Sound, ThreadsOK, NoStrayReceiver
<1>3. SocketOK'
  BY DEF Sound, SocketOK, MainTook
<1>4. FdsOK'
  BY DEF Sound, TypeOK, FdsOK
<1>5. NoCrossTalk'
  BY DEF Sound, NoCrossTalk
<1>6. RestOK'
  BY DEF Sound, RestOK, AllGone, NoneAlive
<1> QED BY <1>1, <1>2, <1>3, <1>4, <1>5, <1>6 DEF Sound

\* TextSent keeps the invariant.
LEMMA TextSentSound ==
  ASSUME Sound, TextSent
  PROVE  Sound'
<1> USE Numbers DEF TextSent, shared, mainVars, widgets, recvVars, kernel, peerVars, Closing,
        BeforeTake, Alive
<1>1. TypeOK'
  <2>1. MainTypes'
    BY Types DEF Sound, MainTypes, MainPcs, Callbacks
  <2>2. ThreadTypes'
    BY Types DEF Sound, ThreadTypes
  <2>3. KernelTypes'
    BY Types DEF Sound, KernelTypes
  <2>4. events' \in Seq(EventTypes)
    BY Types DEF Sound
  <2> QED BY <2>1, <2>2, <2>3, <2>4, TypesNext
<1>2. ThreadsOK'
  BY DEF Sound, ThreadsOK, NoStrayReceiver
<1>3. SocketOK'
  BY DEF Sound, SocketOK, MainTook
<1>4. FdsOK'
  BY DEF Sound, FdsOK
<1>5. NoCrossTalk'
  BY DEF Sound, NoCrossTalk
<1>6. RestOK'
  BY DEF Sound, RestOK, AllGone, NoneAlive
<1> QED BY <1>1, <1>2, <1>3, <1>4, <1>5, <1>6 DEF Sound

\* TextNotSent keeps the invariant.
LEMMA TextNotSentSound ==
  ASSUME Sound, TextNotSent
  PROVE  Sound'
<1> USE Numbers DEF TextNotSent, Disconnect, shared, mainVars, widgets, recvVars, kernel,
        peerVars, Closing, BeforeTake, Alive
<1>1. TypeOK'
  <2>1. MainTypes'
    BY Types DEF Sound, MainTypes, MainPcs, Callbacks
  <2>2. ThreadTypes'
    BY Types DEF Sound, ThreadTypes
  <2>3. KernelTypes'
    BY Types DEF Sound, KernelTypes
  <2>4. events' \in Seq(EventTypes)
    BY Types DEF Sound
  <2> QED BY <2>1, <2>2, <2>3, <2>4, TypesNext
<1>2. ThreadsOK'
  BY DEF Sound, ThreadsOK, NoStrayReceiver
<1>3. SocketOK'
  BY DEF Sound, SocketOK, MainTook
<1>4. FdsOK'
  BY DEF Sound, FdsOK
<1>5. NoCrossTalk'
  BY DEF Sound, NoCrossTalk
<1>6. RestOK'
  BY DEF Sound, RestOK, AllGone, NoneAlive
<1> QED BY <1>1, <1>2, <1>3, <1>4, <1>5, <1>6 DEF Sound

\* TakeByMain: the main thread becomes the owner of the descriptor it takes.
LEMMA TakeByMainSound ==
  ASSUME Sound, TakeByMain
  PROVE  Sound'
<1> USE Numbers DEF TakeByMain, TakeSocket, shared, mainVars, widgets, recvVars, kernel,
        peerVars, Closing, BeforeTake, Alive
<1>1. TypeOK'
  <2>1. MainTypes'
    BY Types, ZenonT(40) DEF Sound, MainTypes, MainPcs, Callbacks
  <2>2. ThreadTypes'
    BY Types DEF Sound, ThreadTypes
  <2>3. KernelTypes'
    BY Types DEF Sound, KernelTypes
  <2>4. events' \in Seq(EventTypes)
    BY Types DEF Sound
  <2> QED BY <2>1, <2>2, <2>3, <2>4, TypesNext
<1>2. ThreadsOK'
  BY DEF Sound, ThreadsOK, NoStrayReceiver
<1>3. SocketOK'
  BY DEF Sound, SocketOK, MainTook
<1>4. FdsOK'
  BY DEF Sound, TypeOK, SocketOK, FdsOK
<1>5. NoCrossTalk'
  BY DEF Sound, NoCrossTalk
<1>6. RestOK'
  BY DEF Sound, RestOK, AllGone, NoneAlive
<1> QED BY <1>1, <1>2, <1>3, <1>4, <1>5, <1>6 DEF Sound

\* LeaveSent: the main thread still owns the descriptor.
LEMMA LeaveSentSound ==
  ASSUME Sound, LeaveSent
  PROVE  Sound'
<1> USE Numbers DEF LeaveSent, shared, mainVars, widgets, recvVars, kernel, peerVars, Closing,
        BeforeTake, Alive
<1>1. TypeOK'
  <2>1. MainTypes'
    BY Types DEF Sound, MainTypes, MainPcs, Callbacks
  <2>2. ThreadTypes'
    BY Types DEF Sound, ThreadTypes
  <2>3. KernelTypes'
    BY Types DEF Sound, KernelTypes
  <2>4. events' \in Seq(EventTypes)
    BY Types DEF Sound
  <2> QED BY <2>1, <2>2, <2>3, <2>4, TypesNext
<1>2. ThreadsOK'
  BY DEF Sound, ThreadsOK, NoStrayReceiver
<1>3. SocketOK'
  BY DEF Sound, SocketOK, MainTook
<1>4. FdsOK'
  BY DEF Sound, FdsOK
<1>5. NoCrossTalk'
  BY DEF Sound, NoCrossTalk
<1>6. RestOK'
  BY DEF Sound, RestOK, AllGone, NoneAlive
<1> QED BY <1>1, <1>2, <1>3, <1>4, <1>5, <1>6 DEF Sound

\* ShutByMain keeps the invariant.
LEMMA ShutByMainSound ==
  ASSUME Sound, ShutByMain
  PROVE  Sound'
<1> USE Numbers DEF ShutByMain, shared, mainVars, widgets, recvVars, kernel, peerVars, Closing,
        BeforeTake, Alive
<1>1. TypeOK'
  <2>1. MainTypes'
    BY Types DEF Sound, MainTypes, MainPcs, Callbacks
  <2>2. ThreadTypes'
    BY Types DEF Sound, ThreadTypes
  <2>3. KernelTypes'
    BY Types DEF Sound, KernelTypes, ShutdownFd
  <2>4. events' \in Seq(EventTypes)
    BY Types DEF Sound
  <2> QED BY <2>1, <2>2, <2>3, <2>4, TypesNext
<1>2. ThreadsOK'
  BY DEF Sound, ThreadsOK, NoStrayReceiver
<1>3. SocketOK'
  BY DEF Sound, SocketOK, MainTook
<1>4. FdsOK'
  BY DEF Sound, FdsOK
<1>5. NoCrossTalk'
  BY DEF Sound, NoCrossTalk
<1>6. RestOK'
  BY DEF Sound, RestOK, AllGone, NoneAlive
<1> QED BY <1>1, <1>2, <1>3, <1>4, <1>5, <1>6 DEF Sound

\* CloseByMain: the owner closes what it owns.
LEMMA CloseByMainSound ==
  ASSUME Sound, CloseByMain
  PROVE  Sound'
<1> USE Numbers DEF CloseByMain, CloseFd, shared, mainVars, widgets, recvVars, kernel, peerVars,
        Closing, BeforeTake, Alive
<1>1. TypeOK'
  <2>1. MainTypes'
    BY Types DEF Sound, MainTypes, MainPcs, Callbacks
  <2>2. ThreadTypes'
    BY Types DEF Sound, ThreadTypes
  <2>3. KernelTypes'
    BY Types DEF Sound, KernelTypes
  <2>4. events' \in Seq(EventTypes)
    BY Types DEF Sound
  <2> QED BY <2>1, <2>2, <2>3, <2>4, TypesNext
<1>2. ThreadsOK'
  BY DEF Sound, ThreadsOK, NoStrayReceiver
<1>3. SocketOK'
  BY DEF Sound, SocketOK, MainTook, ThreadsOK, NoStrayReceiver
<1>4. FdsOK'
  BY DEF Sound, TypeOK, FdsOK
<1>5. NoCrossTalk'
  BY DEF Sound, NoCrossTalk
<1>6. RestOK'
  BY DEF Sound, RestOK, AllGone, NoneAlive
<1> QED BY <1>1, <1>2, <1>3, <1>4, <1>5, <1>6 DEF Sound

\* JoinReceiver: from here mainThread, no longer receiver_thread, is the receiver's handle.
LEMMA JoinReceiverSound ==
  ASSUME Sound, JoinReceiver
  PROVE  Sound'
<1> USE Numbers DEF JoinReceiver, shared, mainVars, widgets, recvVars, kernel, peerVars,
        Closing, BeforeTake, Alive
<1>1. TypeOK'
  <2>1. MainTypes'
    BY Types, ZenonT(40) DEF Sound, MainTypes, MainPcs, Callbacks
  <2>2. ThreadTypes'
    BY Types DEF Sound, ThreadTypes
  <2>3. KernelTypes'
    BY Types DEF Sound, KernelTypes
  <2>4. events' \in Seq(EventTypes)
    BY Types DEF Sound
  <2> QED BY <2>1, <2>2, <2>3, <2>4, TypesNext
<1>2. ThreadsOK'
  BY DEF Sound, ThreadsOK, NoStrayReceiver
<1>3. SocketOK'
  BY DEF Sound, SocketOK, MainTook
<1>4. FdsOK'
  BY DEF Sound, FdsOK
<1>5. NoCrossTalk'
  BY DEF Sound, NoCrossTalk
<1>6. RestOK'
  BY DEF Sound, TypeOK, ThreadsOK, NoStrayReceiver, SocketOK, RestOK, AllGone, NoneAlive
<1> QED BY <1>1, <1>2, <1>3, <1>4, <1>5, <1>6 DEF Sound

\* ReceiverJoined: the thread joined was the only one alive.
LEMMA ReceiverJoinedSound ==
  ASSUME Sound, ReceiverJoined
  PROVE  Sound'
<1> USE Numbers DEF ReceiverJoined, shared, mainVars, widgets, recvVars, kernel, peerVars,
        Closing, BeforeTake, Alive
<1>1. TypeOK'
  <2>1. MainTypes'
    BY Types DEF Sound, MainTypes, MainPcs, Callbacks
  <2>2. ThreadTypes'
    BY Types DEF Sound, ThreadTypes
  <2>3. KernelTypes'
    BY Types DEF Sound, KernelTypes
  <2>4. events' \in Seq(EventTypes)
    BY Types DEF Sound
  <2> QED BY <2>1, <2>2, <2>3, <2>4, TypesNext
<1>2. ThreadsOK'
  BY DEF Sound, ThreadsOK, NoStrayReceiver
<1>3. SocketOK'
  BY DEF Sound, SocketOK, MainTook, ThreadsOK, NoStrayReceiver
<1>4. FdsOK'
  BY DEF Sound, FdsOK
<1>5. NoCrossTalk'
  BY DEF Sound, NoCrossTalk
<1>6. RestOK'
  BY DEF Sound, TypeOK, ThreadsOK, NoStrayReceiver, SocketOK, RestOK, AllGone, NoneAlive
<1> QED BY <1>1, <1>2, <1>3, <1>4, <1>5, <1>6 DEF Sound

\* AfterJoinFailed keeps the invariant.
LEMMA AfterJoinFailedSound ==
  ASSUME Sound, AfterJoinFailed
  PROVE  Sound'
<1> USE Numbers DEF AfterJoinFailed, Return, shared, mainVars, widgets, recvVars, kernel,
        peerVars, Closing, BeforeTake, Alive
<1>1. TypeOK'
  <2>1. MainTypes'
    BY Types DEF Sound, MainTypes, MainPcs, Callbacks
  <2>2. ThreadTypes'
    BY Types DEF Sound, ThreadTypes
  <2>3. KernelTypes'
    BY Types DEF Sound, KernelTypes
  <2>4. events' \in Seq(EventTypes)
    BY Types DEF Sound
  <2> QED BY <2>1, <2>2, <2>3, <2>4, TypesNext
<1>2. ThreadsOK'
  BY DEF Sound, ThreadsOK, NoStrayReceiver
<1>3. SocketOK'
  BY DEF Sound, TypeOK, ThreadsOK, NoStrayReceiver, SocketOK, FdsOK, RestOK, AllGone, NoneAlive,
      MainTook
<1>4. FdsOK'
  BY DEF Sound, FdsOK
<1>5. NoCrossTalk'
  BY DEF Sound, NoCrossTalk
<1>6. RestOK'
  BY DEF Sound, RestOK, AllGone, NoneAlive
<1> QED BY <1>1, <1>2, <1>3, <1>4, <1>5, <1>6 DEF Sound

\* BackToLogin keeps the invariant.
LEMMA BackToLoginSound ==
  ASSUME Sound, BackToLogin
  PROVE  Sound'
<1> USE Numbers DEF BackToLogin, Return, shared, mainVars, widgets, recvVars, kernel, peerVars,
        Closing, BeforeTake, Alive
<1>1. TypeOK'
  <2>1. MainTypes'
    BY Types DEF Sound, MainTypes, MainPcs, Callbacks
  <2>2. ThreadTypes'
    BY Types DEF Sound, ThreadTypes
  <2>3. KernelTypes'
    BY Types DEF Sound, KernelTypes
  <2>4. events' \in Seq(EventTypes)
    BY Types DEF Sound
  <2> QED BY <2>1, <2>2, <2>3, <2>4, TypesNext
<1>2. ThreadsOK'
  BY DEF Sound, ThreadsOK, NoStrayReceiver
<1>3. SocketOK'
  BY DEF Sound, TypeOK, ThreadsOK, NoStrayReceiver, SocketOK, FdsOK, RestOK, AllGone, NoneAlive,
      MainTook
<1>4. FdsOK'
  BY DEF Sound, FdsOK
<1>5. NoCrossTalk'
  BY DEF Sound, NoCrossTalk
<1>6. RestOK'
  BY DEF Sound, RestOK, AllGone, NoneAlive
<1> QED BY <1>1, <1>2, <1>3, <1>4, <1>5, <1>6 DEF Sound

\* AfterCloseRequest keeps the invariant.
LEMMA AfterCloseRequestSound ==
  ASSUME Sound, AfterCloseRequest
  PROVE  Sound'
<1> USE Numbers DEF AfterCloseRequest, Return, shared, mainVars, widgets, recvVars, kernel,
        peerVars, Closing, BeforeTake, Alive
<1>1. TypeOK'
  <2>1. MainTypes'
    BY Types DEF Sound, MainTypes, MainPcs, Callbacks
  <2>2. ThreadTypes'
    BY Types DEF Sound, ThreadTypes
  <2>3. KernelTypes'
    BY Types DEF Sound, KernelTypes
  <2>4. events' \in Seq(EventTypes)
    BY Types DEF Sound
  <2> QED BY <2>1, <2>2, <2>3, <2>4, TypesNext
<1>2. ThreadsOK'
  BY DEF Sound, ThreadsOK, NoStrayReceiver
<1>3. SocketOK'
  BY DEF Sound, TypeOK, ThreadsOK, NoStrayReceiver, SocketOK, FdsOK, RestOK, AllGone, NoneAlive,
      MainTook
<1>4. FdsOK'
  BY DEF Sound, FdsOK
<1>5. NoCrossTalk'
  BY DEF Sound, NoCrossTalk
<1>6. RestOK'
  BY DEF Sound, RestOK, AllGone, NoneAlive
<1> QED BY <1>1, <1>2, <1>3, <1>4, <1>5, <1>6 DEF Sound

\* AfterShutdown keeps the invariant.
LEMMA AfterShutdownSound ==
  ASSUME Sound, AfterShutdown
  PROVE  Sound'
<1> USE Numbers DEF AfterShutdown, Return, shared, mainVars, widgets, recvVars, kernel,
        peerVars, Closing, BeforeTake, Alive
<1>1. TypeOK'
  <2>1. MainTypes'
    BY Types DEF Sound, MainTypes, MainPcs, Callbacks
  <2>2. ThreadTypes'
    BY Types DEF Sound, ThreadTypes
  <2>3. KernelTypes'
    BY Types DEF Sound, KernelTypes
  <2>4. events' \in Seq(EventTypes)
    BY Types DEF Sound
  <2> QED BY <2>1, <2>2, <2>3, <2>4, TypesNext
<1>2. ThreadsOK'
  BY DEF Sound, ThreadsOK, NoStrayReceiver
<1>3. SocketOK'
  BY DEF Sound, TypeOK, ThreadsOK, NoStrayReceiver, SocketOK, FdsOK, RestOK, AllGone, NoneAlive,
      MainTook
<1>4. FdsOK'
  BY DEF Sound, FdsOK
<1>5. NoCrossTalk'
  BY DEF Sound, NoCrossTalk
<1>6. RestOK'
  BY DEF Sound, RestOK, AllGone, NoneAlive
<1> QED BY <1>1, <1>2, <1>3, <1>4, <1>5, <1>6 DEF Sound

\* CloseRequest keeps the invariant.
LEMMA CloseRequestSound ==
  ASSUME Sound, CloseRequest
  PROVE  Sound'
<1> USE Numbers DEF CloseRequest, MainIdle, Disconnect, shared, mainVars, widgets, recvVars,
        kernel, peerVars, Closing, BeforeTake, Alive
<1>1. TypeOK'
  <2>1. MainTypes'
    BY Types DEF Sound, MainTypes, MainPcs, Callbacks
  <2>2. ThreadTypes'
    BY Types DEF Sound, ThreadTypes
  <2>3. KernelTypes'
    BY Types DEF Sound, KernelTypes
  <2>4. events' \in Seq(EventTypes)
    BY Types DEF Sound
  <2> QED BY <2>1, <2>2, <2>3, <2>4, TypesNext
<1>2. ThreadsOK'
  BY DEF Sound, ThreadsOK, NoStrayReceiver
<1>3. SocketOK'
  BY DEF Sound, SocketOK, MainTook
<1>4. FdsOK'
  BY DEF Sound, FdsOK
<1>5. NoCrossTalk'
  BY DEF Sound, NoCrossTalk
<1>6. RestOK'
  BY DEF Sound, RestOK, AllGone, NoneAlive
<1> QED BY <1>1, <1>2, <1>3, <1>4, <1>5, <1>6 DEF Sound

\* OnShutdown keeps the invariant.
LEMMA OnShutdownSound ==
  ASSUME Sound, OnShutdown
  PROVE  Sound'
<1> USE Numbers DEF OnShutdown, MainIdle, Disconnect, shared, mainVars, widgets, recvVars,
        kernel, peerVars, Closing, BeforeTake, Alive
<1>1. TypeOK'
  <2>1. MainTypes'
    BY Types DEF Sound, MainTypes, MainPcs, Callbacks
  <2>2. ThreadTypes'
    BY Types DEF Sound, ThreadTypes
  <2>3. KernelTypes'
    BY Types DEF Sound, KernelTypes
  <2>4. events' \in Seq(EventTypes)
    BY Types DEF Sound
  <2> QED BY <2>1, <2>2, <2>3, <2>4, TypesNext
<1>2. ThreadsOK'
  BY DEF Sound, ThreadsOK, NoStrayReceiver
<1>3. SocketOK'
  BY DEF Sound, SocketOK, MainTook
<1>4. FdsOK'
  BY DEF Sound, FdsOK
<1>5. NoCrossTalk'
  BY DEF Sound, NoCrossTalk
<1>6. RestOK'
  BY DEF Sound, RestOK, AllGone, NoneAlive
<1> QED BY <1>1, <1>2, <1>3, <1>4, <1>5, <1>6 DEF Sound

\* RunReturns, FreeApp: from here on nobody is left to queue anything.
LEMMA LeavingSound ==
  ASSUME Sound, RunReturns \/ FreeApp
  PROVE  Sound'
<1> USE Numbers DEF RunReturns, FreeApp, MainIdle, shared, mainVars, widgets, recvVars, kernel,
        peerVars, Closing, BeforeTake, Alive
<1>1. TypeOK'
  <2>1. MainTypes'
    BY Types DEF Sound, MainTypes
  <2>2. ThreadTypes'
    BY Types DEF Sound, ThreadTypes
  <2>3. KernelTypes'
    BY Types DEF Sound, KernelTypes
  <2>4. events' \in Seq(EventTypes)
    BY Types DEF Sound
  <2> QED BY <2>1, <2>2, <2>3, <2>4, TypesNext
<1>2. ThreadsOK'
  BY DEF Sound, ThreadsOK, NoStrayReceiver
<1>3. SocketOK'
  BY DEF Sound, SocketOK, MainTook
<1>4. FdsOK'
  BY DEF Sound, FdsOK
<1>5. NoCrossTalk'
  BY DEF Sound, NoCrossTalk
<1>6. RestOK'
  BY DEF Sound, RestOK, AllGone, NoneAlive
<1> QED BY <1>1, <1>2, <1>3, <1>4, <1>5, <1>6 DEF Sound

\* What waits is still of events after the oldest was dispatched, and after a
\* scrolling was queued behind it.
LEMMA QueueTyped ==
  ASSUME Sound, events # <<>>
  PROVE  /\ Tail(events) \in Seq(EventTypes)
         /\ Append(Tail(events), "SCROLL") \in Seq(EventTypes)
<1>1. Tail(events) \in Seq(EventTypes)
  BY Types DEF Sound
<1> QED BY <1>1, AppendProperties DEF EventTypes

\* DispatchText, DispatchStatus and Scroll keep the invariant.
LEMMA DispatchTextSound ==
  ASSUME Sound, DispatchText \/ DispatchStatus \/ Scroll
  PROVE  Sound'
<1> USE Numbers DEF DispatchText, DispatchStatus, Scroll, CanDispatch, MainIdle, shared,
        mainVars, widgets, recvVars, kernel, peerVars, Closing, BeforeTake, Alive
<1>1. TypeOK'
  <2>1. MainTypes'
    BY Types DEF Sound, MainTypes
  <2>2. ThreadTypes'
    BY Types DEF Sound, ThreadTypes
  <2>3. KernelTypes'
    BY Types DEF Sound, KernelTypes
  <2>4. events' \in Seq(EventTypes)
    BY QueueTyped DEF Dequeue, AppendLine
  <2> QED BY <2>1, <2>2, <2>3, <2>4, TypesNext
<1>2. ThreadsOK'
  BY DEF Sound, ThreadsOK, NoStrayReceiver
<1>3. SocketOK'
  BY DEF Sound, SocketOK, MainTook
<1>4. FdsOK'
  BY DEF Sound, FdsOK
<1>5. NoCrossTalk'
  BY DEF Sound, NoCrossTalk
<1>6. RestOK'
  BY DEF Sound, RestOK, AllGone, NoneAlive
<1> QED BY <1>1, <1>2, <1>3, <1>4, <1>5, <1>6 DEF Sound

\* DispatchConnected keeps the invariant.
LEMMA DispatchConnectedSound ==
  ASSUME Sound, DispatchConnected
  PROVE  Sound'
<1> USE Numbers DEF DispatchConnected, CanDispatch, MainIdle, shared, mainVars, widgets,
        recvVars, kernel, peerVars, Closing, BeforeTake, Alive
<1>1. TypeOK'
  <2>1. MainTypes'
    BY Types DEF Sound, MainTypes
  <2>2. ThreadTypes'
    BY Types DEF Sound, ThreadTypes
  <2>3. KernelTypes'
    BY Types DEF Sound, KernelTypes
  <2>4. events' \in Seq(EventTypes)
    BY QueueTyped DEF Dequeue, AppendLine
  <2> QED BY <2>1, <2>2, <2>3, <2>4, TypesNext
<1>2. ThreadsOK'
  BY DEF Sound, ThreadsOK, NoStrayReceiver
<1>3. SocketOK'
  BY DEF Sound, SocketOK, MainTook
<1>4. FdsOK'
  BY DEF Sound, FdsOK
<1>5. NoCrossTalk'
  BY DEF Sound, NoCrossTalk
<1>6. RestOK'
  BY DEF Sound, RestOK, AllGone, NoneAlive
<1> QED BY <1>1, <1>2, <1>3, <1>4, <1>5, <1>6 DEF Sound

\* DispatchDisconnected keeps the invariant.
LEMMA DispatchDisconnectedSound ==
  ASSUME Sound, DispatchDisconnected
  PROVE  Sound'
<1> USE Numbers DEF DispatchDisconnected, CanDispatch, MainIdle, shared, mainVars, widgets,
        recvVars, kernel, peerVars, Closing, BeforeTake, Alive
<1>1. TypeOK'
  <2>1. MainTypes'
    BY Types DEF Sound, MainTypes, MainPcs, Callbacks
  <2>2. ThreadTypes'
    BY Types DEF Sound, ThreadTypes
  <2>3. KernelTypes'
    BY Types DEF Sound, KernelTypes
  <2>4. events' \in Seq(EventTypes)
    BY QueueTyped DEF Dequeue, AppendLine
  <2> QED BY <2>1, <2>2, <2>3, <2>4, TypesNext
<1>2. ThreadsOK'
  BY DEF Sound, ThreadsOK, NoStrayReceiver
<1>3. SocketOK'
  BY DEF Sound, SocketOK, MainTook
<1>4. FdsOK'
  BY DEF Sound, FdsOK
<1>5. NoCrossTalk'
  BY DEF Sound, NoCrossTalk
<1>6. RestOK'
  BY DEF Sound, RestOK, AllGone, NoneAlive
<1> QED BY <1>1, <1>2, <1>3, <1>4, <1>5, <1>6 DEF Sound

\* CopySocket: a socket still in place is the receiver's own.
LEMMA CopySocketSound ==
  ASSUME Sound, NEW c \in Conns, CopySocket(c)
  PROVE  Sound'
<1> USE Numbers DEF CopySocket, Goto, shared, mainVars, widgets, recvVars, kernel, peerVars,
        Closing, BeforeTake, Alive
<1>1. TypeOK'
  <2>1. MainTypes'
    BY Types DEF Sound, MainTypes
  <2>2. ThreadTypes'
    BY Types DEF Sound, MainTypes, ThreadTypes, KernelTypes, RecvPcs
  <2>3. KernelTypes'
    BY Types DEF Sound, KernelTypes
  <2>4. events' \in Seq(EventTypes)
    BY Types DEF Sound
  <2> QED BY <2>1, <2>2, <2>3, <2>4, TypesNext
<1>2. ThreadsOK'
  BY DEF Sound, ThreadsOK, NoStrayReceiver
<1>3. SocketOK'
  BY DEF Sound, SocketOK, MainTook
<1>4. FdsOK'
  BY DEF Sound, TypeOK, FdsOK
<1>5. NoCrossTalk'
  BY DEF Sound, NoCrossTalk
<1>6. RestOK'
  BY DEF Sound, RestOK, AllGone, NoneAlive
<1> QED BY <1>1, <1>2, <1>3, <1>4, <1>5, <1>6 DEF Sound

\* CallRecv: the descriptor names the receiver's own connection, or nothing, or a stranger.
LEMMA CallRecvSound ==
  ASSUME Sound, NEW c \in Conns, CallRecv(c)
  PROVE  Sound'
<1> USE Numbers DEF CallRecv, Goto, shared, mainVars, widgets, recvVars, kernel, peerVars,
        Closing, BeforeTake, Alive
<1>a. c = made /\ rfd[c] \in Fds
  BY DEF Sound, ThreadsOK, NoStrayReceiver, FdsOK
<1>b. fdTable[rfd[c]] \in Conns => fdTable[rfd[c]] = c
  BY <1>a DEF Sound, FdsOK
<1>1. TypeOK'
  <2>1. MainTypes'
    BY Types DEF Sound, MainTypes
  <2>2. ThreadTypes'
    BY Types DEF Sound, ThreadTypes, RecvPcs
  <2>3. KernelTypes'
    BY Types DEF Sound, KernelTypes
  <2>4. events' \in Seq(EventTypes)
    BY Types DEF Sound
  <2> QED BY <2>1, <2>2, <2>3, <2>4, TypesNext
<1>2. ThreadsOK'
  <2>1. rpc[c] = "call" /\ \E pc \in {"wait", "take"} : rpc' = [rpc EXCEPT ![c] = pc]
    OBVIOUS
  <2>2. \A d \in Conns : rpc'[d] = "none" <=> rpc[d] = "none"
    BY <2>1 DEF Sound, TypeOK
  <2>3. \A d \in Conns : (rpc'[d] \in {"none", "done"}) <=> (rpc[d] \in {"none", "done"})
    BY <2>1 DEF Sound, TypeOK
  <2>4. UNCHANGED <<made, receiverActive, receiverThread, mainPc, mainThen, mainThread>>
    OBVIOUS
  <2> HIDE DEF CallRecv
  <2>5. NoStrayReceiver'
    BY <2>3, <2>4 DEF Sound, ThreadsOK, NoStrayReceiver
  <2> QED BY <2>2, <2>4, <2>5 DEF Sound, ThreadsOK
<1>3. SocketOK'
  BY DEF Sound, TypeOK, SocketOK, MainTook
<1>4. FdsOK'
  BY SMTT(40) DEF Sound, TypeOK, FdsOK
<1>5. NoCrossTalk'
  BY <1>b DEF Sound, TypeOK, NoCrossTalk
<1>6. RestOK'
  BY DEF Sound, RestOK, AllGone, NoneAlive
<1> QED BY <1>1, <1>2, <1>3, <1>4, <1>5, <1>6 DEF Sound

\* Receive keeps the invariant.
LEMMA ReceiveSound ==
  ASSUME Sound, NEW c \in Conns, Receive(c)
  PROVE  Sound'
<1> USE Numbers DEF Receive, Goto, Queue, shared, mainVars, widgets, recvVars, kernel, peerVars,
        Closing, BeforeTake, Alive
<1>a. rpc[c] = "wait" /\ \E pc \in {"acked", "call"} : rpc' = [rpc EXCEPT ![c] = pc]
  OBVIOUS
<1>b. \A d \in Conns : rpc'[d] = rpc[d] \/ (d = c /\ rpc'[d] \in {"acked", "call"})
  BY <1>a DEF Sound, TypeOK
<1>c. rfd[c] \in Fds
  BY <1>a DEF Sound, FdsOK
<1>d. rpc[made] \in Closing => rpc'[made] = rpc[made]
  BY <1>a DEF Sound, TypeOK
<1>e. <<"APPEND_LINE">> \in Seq(EventTypes) /\ <<"APPEND_LINE", "STATUS">> \in Seq(EventTypes)
  BY DEF EventTypes
<1>f. events \in Seq(EventTypes)
  BY Types DEF Sound
<1>g. \/ events' = events
      \/ events' = events \o <<"APPEND_LINE">>
      \/ events' = events \o <<"APPEND_LINE", "STATUS">>
  OBVIOUS
<1>h. /\ events \o <<"APPEND_LINE">> \in Seq(EventTypes)
      /\ events \o <<"APPEND_LINE", "STATUS">> \in Seq(EventTypes)
  BY <1>e, <1>f, ConcatProperties, Zenon
<1>1. TypeOK'
  <2>1. MainTypes'
    BY Types, ZenonT(40) DEF Sound, MainTypes
  <2>2. ThreadTypes'
    BY Types DEF Sound, ThreadTypes, RecvPcs
  <2>3. KernelTypes'
    BY Types DEF Sound, KernelTypes
  <2>4. events' \in Seq(EventTypes)
    BY <1>f, <1>g, <1>h, Zenon
  <2> QED BY <2>1, <2>2, <2>3, <2>4, TypesNext
<1>2. ThreadsOK'
  BY DEF Sound, TypeOK, ThreadsOK, NoStrayReceiver
<1>3. SocketOK'
  BY DEF Sound, TypeOK, ThreadsOK, NoStrayReceiver, SocketOK, MainTook
<1>4. FdsOK'
  BY <1>a, <1>b, <1>c, <1>d DEF Sound, FdsOK
<1>5. NoCrossTalk'
  BY DEF Sound, TypeOK, NoCrossTalk
<1>6. RestOK'
  BY DEF Sound, RestOK, AllGone, NoneAlive
<1> QED BY <1>1, <1>2, <1>3, <1>4, <1>5, <1>6 DEF Sound

\* QueueConnected keeps the invariant.
LEMMA QueueConnectedSound ==
  ASSUME Sound, NEW c \in Conns, QueueConnected(c)
  PROVE  Sound'
<1> USE Numbers DEF QueueConnected, Goto, Queue, shared, mainVars, widgets, recvVars, kernel,
        peerVars, Closing, BeforeTake, Alive
<1>1. TypeOK'
  <2>1. MainTypes'
    BY Types DEF Sound, MainTypes
  <2>2. ThreadTypes'
    BY Types DEF Sound, ThreadTypes, RecvPcs
  <2>3. KernelTypes'
    BY Types DEF Sound, KernelTypes
  <2>4. events' \in Seq(EventTypes)
    BY Types DEF Sound, EventTypes
  <2> QED BY <2>1, <2>2, <2>3, <2>4, TypesNext
<1>2. ThreadsOK'
  BY DEF Sound, ThreadsOK, NoStrayReceiver
<1>3. SocketOK'
  BY DEF Sound, SocketOK, MainTook
<1>4. FdsOK'
  BY DEF Sound, FdsOK
<1>5. NoCrossTalk'
  BY DEF Sound, NoCrossTalk
<1>6. RestOK'
  BY DEF Sound, RestOK, AllGone, NoneAlive
<1> QED BY <1>1, <1>2, <1>3, <1>4, <1>5, <1>6 DEF Sound

\* ReceiveEnds keeps the invariant.
LEMMA ReceiveEndsSound ==
  ASSUME Sound, NEW c \in Conns, ReceiveEnds(c)
  PROVE  Sound'
<1> USE Numbers DEF ReceiveEnds, Goto, shared, mainVars, widgets, recvVars, kernel, peerVars,
        Closing, BeforeTake, Alive
<1>1. TypeOK'
  <2>1. MainTypes'
    BY Types DEF Sound, MainTypes
  <2>2. ThreadTypes'
    BY Types DEF Sound, ThreadTypes, RecvPcs
  <2>3. KernelTypes'
    BY Types DEF Sound, KernelTypes
  <2>4. events' \in Seq(EventTypes)
    BY Types DEF Sound
  <2> QED BY <2>1, <2>2, <2>3, <2>4, TypesNext
<1>2. ThreadsOK'
  BY DEF Sound, ThreadsOK, NoStrayReceiver
<1>3. SocketOK'
  BY DEF Sound, SocketOK, MainTook
<1>4. FdsOK'
  BY DEF Sound, FdsOK
<1>5. NoCrossTalk'
  BY DEF Sound, NoCrossTalk
<1>6. RestOK'
  BY DEF Sound, RestOK, AllGone, NoneAlive
<1> QED BY <1>1, <1>2, <1>3, <1>4, <1>5, <1>6 DEF Sound

\* TakeByReceiver: the receiver becomes the owner of the descriptor it takes.
LEMMA TakeByReceiverSound ==
  ASSUME Sound, NEW c \in Conns, TakeByReceiver(c)
  PROVE  Sound'
<1> USE Numbers DEF TakeByReceiver, Goto, TakeSocket, shared, mainVars, widgets, recvVars,
        kernel, peerVars, Closing, BeforeTake, Alive
<1>1. TypeOK'
  <2>1. MainTypes'
    BY Types DEF Sound, MainTypes
  <2>2. ThreadTypes'
    BY Types DEF Sound, MainTypes, ThreadTypes, KernelTypes, RecvPcs
  <2>3. KernelTypes'
    BY Types DEF Sound, KernelTypes
  <2>4. events' \in Seq(EventTypes)
    BY Types DEF Sound
  <2> QED BY <2>1, <2>2, <2>3, <2>4, TypesNext
<1>2. ThreadsOK'
  BY DEF Sound, ThreadsOK, NoStrayReceiver
<1>3. SocketOK'
  BY DEF Sound, TypeOK, ThreadsOK, NoStrayReceiver, SocketOK, MainTook
<1>4. FdsOK'
  BY SMTT(40) DEF Sound, TypeOK, ThreadsOK, NoStrayReceiver, SocketOK, FdsOK
<1>5. NoCrossTalk'
  BY DEF Sound, NoCrossTalk
<1>6. RestOK'
  BY DEF Sound, RestOK, AllGone, NoneAlive
<1> QED BY <1>1, <1>2, <1>3, <1>4, <1>5, <1>6 DEF Sound

\* ShutByReceiver keeps the invariant.
LEMMA ShutByReceiverSound ==
  ASSUME Sound, NEW c \in Conns, ShutByReceiver(c)
  PROVE  Sound'
<1> USE Numbers DEF ShutByReceiver, Goto, shared, mainVars, widgets, recvVars, kernel, peerVars,
        Closing, BeforeTake, Alive
<1>1. TypeOK'
  <2>1. MainTypes'
    BY Types DEF Sound, MainTypes
  <2>2. ThreadTypes'
    BY Types DEF Sound, ThreadTypes, RecvPcs
  <2>3. KernelTypes'
    BY Types DEF Sound, KernelTypes, ShutdownFd
  <2>4. events' \in Seq(EventTypes)
    BY Types DEF Sound
  <2> QED BY <2>1, <2>2, <2>3, <2>4, TypesNext
<1>2. ThreadsOK'
  BY DEF Sound, ThreadsOK, NoStrayReceiver
<1>3. SocketOK'
  BY DEF Sound, SocketOK, MainTook
<1>4. FdsOK'
  BY DEF Sound, FdsOK
<1>5. NoCrossTalk'
  BY DEF Sound, NoCrossTalk
<1>6. RestOK'
  BY DEF Sound, RestOK, AllGone, NoneAlive
<1> QED BY <1>1, <1>2, <1>3, <1>4, <1>5, <1>6 DEF Sound

\* CloseByReceiver: the owner closes what it owns.
LEMMA CloseByReceiverSound ==
  ASSUME Sound, NEW c \in Conns, CloseByReceiver(c)
  PROVE  Sound'
<1> USE Numbers DEF CloseByReceiver, Goto, CloseFd, shared, mainVars, widgets, recvVars, kernel,
        peerVars, Closing, BeforeTake, Alive
<1>1. TypeOK'
  <2>1. MainTypes'
    BY Types DEF Sound, MainTypes
  <2>2. ThreadTypes'
    BY Types DEF Sound, ThreadTypes, RecvPcs
  <2>3. KernelTypes'
    BY Types DEF Sound, KernelTypes
  <2>4. events' \in Seq(EventTypes)
    BY Types DEF Sound
  <2> QED BY <2>1, <2>2, <2>3, <2>4, TypesNext
<1>2. ThreadsOK'
  BY DEF Sound, ThreadsOK, NoStrayReceiver
<1>3. SocketOK'
  BY DEF Sound, SocketOK, MainTook, ThreadsOK, NoStrayReceiver
<1>4. FdsOK'
  BY SMTT(40) DEF Sound, TypeOK, FdsOK
<1>5. NoCrossTalk'
  BY DEF Sound, NoCrossTalk
<1>6. RestOK'
  BY DEF Sound, RestOK, AllGone, NoneAlive
<1> QED BY <1>1, <1>2, <1>3, <1>4, <1>5, <1>6 DEF Sound

\* QueueDisconnected keeps the invariant.
LEMMA QueueDisconnectedSound ==
  ASSUME Sound, NEW c \in Conns, QueueDisconnected(c)
  PROVE  Sound'
<1> USE Numbers DEF QueueDisconnected, Goto, Queue, shared, mainVars, widgets, recvVars, kernel,
        peerVars, Closing, BeforeTake, Alive
<1>1. TypeOK'
  <2>1. MainTypes'
    BY Types DEF Sound, MainTypes
  <2>2. ThreadTypes'
    BY Types DEF Sound, ThreadTypes, RecvPcs
  <2>3. KernelTypes'
    BY Types DEF Sound, KernelTypes
  <2>4. events' \in Seq(EventTypes)
    BY Types DEF Sound, EventTypes
  <2> QED BY <2>1, <2>2, <2>3, <2>4, TypesNext
<1>2. ThreadsOK'
  BY DEF Sound, ThreadsOK, NoStrayReceiver
<1>3. SocketOK'
  BY DEF Sound, SocketOK, MainTook
<1>4. FdsOK'
  BY DEF Sound, FdsOK
<1>5. NoCrossTalk'
  BY DEF Sound, NoCrossTalk
<1>6. RestOK'
  BY DEF Sound, RestOK, AllGone, NoneAlive
<1> QED BY <1>1, <1>2, <1>3, <1>4, <1>5, <1>6 DEF Sound

\* ServerSends keeps the invariant.
LEMMA ServerSendsSound ==
  ASSUME Sound, NEW c \in Conns, ServerSends(c)
  PROVE  Sound'
<1> USE Numbers DEF ServerSends, shared, mainVars, widgets, recvVars, kernel, peerVars, Closing,
        BeforeTake, Alive
<1>1. TypeOK'
  <2>1. MainTypes'
    BY Types DEF Sound, MainTypes
  <2>2. ThreadTypes'
    BY Types DEF Sound, ThreadTypes
  <2>3. KernelTypes'
    <3>1. PICK p \in Packets : /\ inbox' = [inbox EXCEPT ![c] = Append(@, p)]
                              /\ acked' = IF p = "ACK" THEN acked \cup {c} ELSE acked
      OBVIOUS
    <3>2. KernelTypes
      BY Types DEF Sound
    <3>3. Append(inbox[c], p) \in Seq(Packets)
      BY <3>2, AppendProperties DEF KernelTypes
    <3>4. inbox' \in [Conns -> Seq(Packets)]
      BY <3>1, <3>2, <3>3, Zenon DEF KernelTypes
    <3>5. sends[c] + 1 \in 0..MaxPackets
      BY <3>2, ClientAssumption DEF KernelTypes
    <3>6. sends' \in [Conns -> 0..MaxPackets]
      BY <3>2, <3>5 DEF KernelTypes
    <3>7. acked' \subseteq Conns
      BY <3>1, <3>2 DEF KernelTypes
    <3> QED BY <3>2, <3>4, <3>6, <3>7 DEF KernelTypes
  <2>4. events' \in Seq(EventTypes)
    BY Types DEF Sound
  <2> QED BY <2>1, <2>2, <2>3, <2>4, TypesNext
<1>2. ThreadsOK'
  BY DEF Sound, ThreadsOK, NoStrayReceiver
<1>3. SocketOK'
  BY DEF Sound, SocketOK, MainTook
<1>4. FdsOK'
  BY DEF Sound, FdsOK
<1>5. NoCrossTalk'
  BY DEF Sound, NoCrossTalk
<1>6. RestOK'
  BY DEF Sound, RestOK, AllGone, NoneAlive
<1> QED BY <1>1, <1>2, <1>3, <1>4, <1>5, <1>6 DEF Sound

\* ServerCloses keeps the invariant.
LEMMA ServerClosesSound ==
  ASSUME Sound, NEW c \in Conns, ServerCloses(c)
  PROVE  Sound'
<1> USE Numbers DEF ServerCloses, shared, mainVars, widgets, recvVars, kernel, peerVars,
        Closing, BeforeTake, Alive
<1>1. TypeOK'
  <2>1. MainTypes'
    BY Types DEF Sound, MainTypes
  <2>2. ThreadTypes'
    BY Types DEF Sound, ThreadTypes
  <2>3. KernelTypes'
    BY Types DEF Sound, KernelTypes
  <2>4. events' \in Seq(EventTypes)
    BY Types DEF Sound
  <2> QED BY <2>1, <2>2, <2>3, <2>4, TypesNext
<1>2. ThreadsOK'
  BY DEF Sound, ThreadsOK, NoStrayReceiver
<1>3. SocketOK'
  BY DEF Sound, SocketOK, MainTook
<1>4. FdsOK'
  BY DEF Sound, FdsOK
<1>5. NoCrossTalk'
  BY DEF Sound, NoCrossTalk
<1>6. RestOK'
  BY DEF Sound, RestOK, AllGone, NoneAlive
<1> QED BY <1>1, <1>2, <1>3, <1>4, <1>5, <1>6 DEF Sound

\* ServerStalls and ServerReads keep the invariant.
LEMMA StalledSound ==
  ASSUME Sound, NEW c \in Conns, ServerStalls(c) \/ ServerReads(c)
  PROVE  Sound'
<1> USE Numbers DEF ServerStalls, ServerReads, shared, mainVars, widgets, recvVars, kernel,
        peerVars, Closing, BeforeTake, Alive
<1>1. TypeOK'
  <2>1. MainTypes'
    BY Types DEF Sound, MainTypes
  <2>2. ThreadTypes'
    BY Types DEF Sound, ThreadTypes
  <2>3. KernelTypes'
    BY Types DEF Sound, KernelTypes
  <2>4. events' \in Seq(EventTypes)
    BY Types DEF Sound
  <2> QED BY <2>1, <2>2, <2>3, <2>4, TypesNext
<1>2. ThreadsOK'
  BY DEF Sound, ThreadsOK, NoStrayReceiver
<1>3. SocketOK'
  BY DEF Sound, SocketOK, MainTook
<1>4. FdsOK'
  BY DEF Sound, FdsOK
<1>5. NoCrossTalk'
  BY DEF Sound, NoCrossTalk
<1>6. RestOK'
  BY DEF Sound, RestOK, AllGone, NoneAlive
<1> QED BY <1>1, <1>2, <1>3, <1>4, <1>5, <1>6 DEF Sound

\* ForeignOpen: a free descriptor belongs to no connection.
LEMMA ForeignOpenSound ==
  ASSUME Sound, ForeignOpen
  PROVE  Sound'
<1> USE Numbers DEF ForeignOpen, LowestFree, shared, mainVars, widgets, recvVars, kernel,
        peerVars, Closing, BeforeTake, Alive
<1>1. TypeOK'
  <2>1. MainTypes'
    BY Types DEF Sound, MainTypes
  <2>2. ThreadTypes'
    BY Types DEF Sound, ThreadTypes
  <2>3. KernelTypes'
    BY Types DEF Sound, KernelTypes
  <2>4. events' \in Seq(EventTypes)
    BY Types DEF Sound
  <2> QED BY <2>1, <2>2, <2>3, <2>4, TypesNext
<1>2. ThreadsOK'
  BY DEF Sound, ThreadsOK, NoStrayReceiver
<1>3. SocketOK'
  BY DEF Sound, SocketOK, MainTook
<1>4. FdsOK'
  BY DEF Sound, FdsOK
<1>5. NoCrossTalk'
  BY DEF Sound, NoCrossTalk
<1>6. RestOK'
  BY DEF Sound, RestOK, AllGone, NoneAlive
<1> QED BY <1>1, <1>2, <1>3, <1>4, <1>5, <1>6 DEF Sound

-----------------------------------------------------------------------------
\* The state ns_client_run starts the main loop in satisfies the invariant.
LEMMA InitSound == Init => Sound
<1> SUFFICES ASSUME Init PROVE Sound
  OBVIOUS
<1> USE Numbers, ClientAssumption DEF Init
<1>1. TypeOK
  <2>1. MainTypes
    <3>1. made \in 0..MaxConns
      OBVIOUS
    <3>2. /\ joined \in BOOLEAN /\ receiverActive \in BOOLEAN
          /\ loginOn \in BOOLEAN /\ sendOn \in BOOLEAN
      BY Zenon
    <3> QED BY <3>1, <3>2 DEF MainTypes, MainPcs, Callbacks, Invalid, NoThread
  <2>2. ThreadTypes
    BY DEF ThreadTypes, RecvPcs
  <2>3. KernelTypes
    BY DEF KernelTypes
  <2>4. events \in Seq(EventTypes)
    OBVIOUS
  <2> QED BY <2>1, <2>2, <2>3, <2>4, Types
<1>2. ThreadsOK /\ NoCrossTalk
  BY DEF ThreadsOK, NoStrayReceiver, NoCrossTalk, Alive, Closing
<1>3. SocketOK /\ FdsOK
  BY DEF SocketOK, FdsOK, Closing
<1>4. RestOK
  BY DEF RestOK, AllGone, NoneAlive, Alive, Closing
<1> QED BY <1>1, <1>2, <1>3, <1>4 DEF Sound

\* Every step, of whatever thread, keeps the invariant.
LEMMA StepSound == Sound /\ [Next]_vars => Sound'
<1> SUFFICES ASSUME Sound, [Next]_vars PROVE Sound'
  OBVIOUS
<1>1. CASE MainStep
  BY <1>1, JoinSentSound, JoinNotSentSound, TextSentSound, TextNotSentSound,
     TakeByMainSound, LeaveSentSound, ShutByMainSound, CloseByMainSound,
     JoinReceiverSound, ReceiverJoinedSound, AfterJoinFailedSound, BackToLoginSound,
     AfterCloseRequestSound, AfterShutdownSound, OnShutdownSound, LeavingSound,
     DispatchTextSound, DispatchConnectedSound, DispatchDisconnectedSound, Zenon
  DEF MainStep
<1>2. CASE \E c \in Conns : ReceiverStep(c)
  BY <1>2, CopySocketSound, CallRecvSound, ReceiveSound, QueueConnectedSound,
     ReceiveEndsSound, TakeByReceiverSound, ShutByReceiverSound, CloseByReceiverSound,
     QueueDisconnectedSound, Zenon
  DEF ReceiverStep
<1>3. CASE UserStep
  BY <1>3, ConnectClickedSound, SendClickedSound, CloseRequestSound DEF UserStep
<1>4. CASE Environment
  BY <1>4, ServerSendsSound, ServerClosesSound, StalledSound, ForeignOpenSound DEF Environment
<1>5. CASE UNCHANGED vars
  <2>1. TypeOK'
    BY <1>5, ZenonT(40)
    DEF vars, shared, mainVars, widgets, recvVars, kernel, peerVars, Sound, TypeOK
  <2>2. ThreadsOK' /\ NoCrossTalk'
    BY <1>5
    DEF vars, shared, mainVars, widgets, recvVars, kernel, peerVars, Sound, ThreadsOK,
        NoStrayReceiver, Alive, NoCrossTalk
  <2>3. SocketOK' /\ FdsOK'
    BY <1>5
    DEF vars, shared, mainVars, widgets, recvVars, kernel, peerVars, Sound, SocketOK,
        FdsOK, MainTook
  <2>4. RestOK'
    BY <1>5
    DEF vars, shared, mainVars, widgets, recvVars, kernel, peerVars, Sound, RestOK,
        AllGone, NoneAlive, Alive
  <2> QED BY <2>1, <2>2, <2>3, <2>4 DEF Sound
<1> QED BY <1>1, <1>2, <1>3, <1>4, <1>5 DEF Next, Ended

\* Every reachable state satisfies the invariant.
LEMMA Soundness == Spec => []Sound
<1>1. Init => Sound
  BY InitSound
<1>2. Sound /\ [Next]_vars => Sound'
  BY StepSound
<1> QED BY <1>1, <1>2, PTL DEF Spec

-----------------------------------------------------------------------------
\* The variables keep their types: the events a receiver thread queues are
\* those ns_client_dispatch_ui_event knows, and no counter leaves its bound.
THEOREM TypeCorrect == Spec => []TypeOK
<1>1. Sound => TypeOK
  BY Numbers DEF Sound, TypeOK
<1> QED BY <1>1, Soundness, PTL

\* No receiver thread is lost: ns_client_on_connect_clicked overwrites
\* receiver_thread only when the thread it named has ended and been joined.
THEOREM OneReceiver == Spec => []NoStrayReceiver
<1>1. Sound => NoStrayReceiver
  BY Numbers DEF Sound, ThreadsOK, NoStrayReceiver
<1> QED BY <1>1, Soundness, PTL

\* No double close and no close of a reused descriptor: the thread that took
\* the socket with ns_client_take_socket closes the connection it took.
THEOREM OwnerCloses == Spec => []ClosesItsOwn
<1>1. Sound => ClosesItsOwn
  BY Numbers DEF Sound, SocketOK, FdsOK, Closing, ClosesItsOwn
<1> QED BY <1>1, Soundness, PTL

\* A receiver thread never reads from a later connection, though
\* ns_client_receive_loop uses a descriptor number that may be closed by then.
THEOREM OwnPacketsOnly == Spec => []NoCrossTalk
<1>1. Sound => NoCrossTalk
  BY Numbers DEF Sound, NoCrossTalk
<1> QED BY <1>1, Soundness, PTL

\* Between callbacks, and while a text is sent, a joined client has the socket
\* of its newest connection, whatever ns_client_handle_packet makes of an ACK
\* that comes late; and the descriptor that the text is sent on is that socket
\* until the receiver has taken it.
THEOREM JoinedHasSocket == Spec => []JoinedOnSocket
<1>1. Sound => JoinedOnSocket
  <2>1. ASSUME Sound, mainPc \in {"idle", "send"}, joined
        PROVE  socketFd # Invalid /\ fdTable[socketFd] = made
    BY <2>1, Numbers DEF Sound, ThreadsOK, SocketOK, MainTook, BeforeTake, Closing
  <2>2. ASSUME Sound, mainPc = "send", joined PROVE fdTable[mainFd] = made
    BY <2>1, <2>2 DEF Sound, FdsOK
  <2>3. ASSUME Sound, mainPc = "send" PROVE fdTable[mainFd] \in {made, Free, Foreign}
    BY <2>3 DEF Sound, TypeOK, FdsOK
  <2> QED BY <2>1, <2>2, <2>3 DEF Sound, TypeOK, JoinedOnSocket
<1> QED BY <1>1, Soundness, PTL

\* Between callbacks no open connection is forgotten: it is in socket_fd, or
\* its receiver thread is closing it.
THEOREM SocketsKept == Spec => []NoLostSocket
<1>1. Sound => NoLostSocket
  <2>1. ASSUME Sound PROVE \A c \in Conns : rpc[c] \in Closing => rpc[c] \in {"shut", "close"}
    BY <2>1 DEF Sound, TypeOK, RecvPcs, Closing
  <2>2. mainPc = "idle" => mainPc \notin Closing
    BY DEF Closing
  <2> QED BY <2>1, <2>2 DEF Sound, FdsOK, MainIdle, NoLostSocket
<1> QED BY <1>1, Soundness, PTL

\* The Connect button is live only when nothing is left of the connection
\* before, which is why overwriting socket_fd there loses nothing.
THEOREM LoginFree == Spec => []LoginOnlyWhenFree
<1>1. Sound => LoginOnlyWhenFree
  BY Numbers DEF Sound, RestOK, AllGone, NoneAlive, LoginOnlyWhenFree
<1> QED BY <1>1, Soundness, PTL

\* Once g_application_run has returned to ns_client_run, no thread is left that
\* uses app or could queue a callback with it, none waits, not even a
\* scrolling, and no socket is open.
THEOREM FreedLast == Spec => []FreedAlone
<1>1. Sound => FreedAlone
  BY Numbers DEF Sound, RestOK, ThreadsOK, FdsOK, AllGone, NoneAlive, Alive, Closing, FreedAlone
<1> QED BY <1>1, Soundness, PTL
-----------------------------------------------------------------------------
(* The view and the connection.                                             *)

\* A DISCONNECTED, or a CONNECTED with none behind it, is waiting in evs.
Closes(evs) == \E k \in DOMAIN evs : evs[k] = "DISCONNECTED"
OpensLast(evs) ==
    \E k \in DOMAIN evs : /\ evs[k] = "CONNECTED"
                          /\ \A l \in DOMAIN evs : l > k => evs[l] # "DISCONNECTED"

\* The chat page is shown once the events that wait have been dispatched.
ChatAhead ==
    \/ OpensLast(events)
    \/ ~Closes(events) /\ page = "chat" /\ mainThen # "disconnected"

\* The ACK of connection c was sent and has been read.
AckRead(c) == c \in acked /\ \A k \in DOMAIN inbox[c] : inbox[c][k] # "ACK"

\* The receiver has queued its CONNECTED and not yet its DISCONNECTED.
Chatting == {"call", "wait", "take", "queue"} \cup Closing
InChat == made \in Conns /\ rpc[made] \in Chatting /\ AckRead(made)

(***************************************************************************)
(* The inductive invariant behind ViewFollowsConnection, beside Sound.     *)
(* The queue may hold the events of several connections, those of one that *)
(* is gone among them, so what the widgets show says little; what they     *)
(* will show once the queue is empty is ChatAhead, and that is right in    *)
(* every state.  It rests on each server acknowledging a JOIN once.        *)
(***************************************************************************)
MailOK ==
    /\ \A c \in Conns : \A k, l \in DOMAIN inbox[c] :
          inbox[c][k] = "ACK" /\ inbox[c][l] = "ACK" => k = l
    /\ \A c \in Conns \ acked : \A k \in DOMAIN inbox[c] : inbox[c][k] # "ACK"
    /\ \A c \in Conns : rpc[c] \in {"none", "start"} => ~AckRead(c)
    /\ \A c \in Conns : rpc[c] = "acked" => AckRead(c)

\* joined is set from the ACK until a thread takes the socket.
MembershipOK ==
    /\ joined => AckRead(made)
    /\ made \in Conns /\ rpc[made] \in {"call", "wait", "acked"} /\ AckRead(made) /\ ~MainTook
          => joined

ViewOK ==
    /\ sendOn <=> page = "chat"
    /\ mainPc \in {"idle", "send", "join_send"} => mainThen = "none"
    /\ ChatAhead <=> InChat
    /\ \/ loginOn \/ phase # "open" \/ mainPc = "join_send" \/ mainThen # "none"
       \/ ~NoneAlive
       \/ Closes(events)

Faithful == MailOK /\ MembershipOK /\ ViewOK

\* What a position of evs \o t holds.
LEMMA Places ==
  ASSUME NEW evs \in Seq(EventTypes), NEW t \in Seq(EventTypes)
  PROVE  /\ \A k \in DOMAIN evs : k \in DOMAIN (evs \o t) /\ (evs \o t)[k] = evs[k]
         /\ \A k \in DOMAIN t : /\ Len(evs) + k \in DOMAIN (evs \o t)
                                /\ (evs \o t)[Len(evs) + k] = t[k]
         /\ \A k \in DOMAIN (evs \o t) :
               k \in DOMAIN evs \/ (k - Len(evs) \in DOMAIN t /\ (evs \o t)[k] = t[k -
               Len(evs)])
<1>1. DOMAIN evs = 1..Len(evs) /\ Len(evs) \in Nat /\ DOMAIN t = 1..Len(t) /\ Len(t) \in Nat
  OBVIOUS
<1>2. DOMAIN (evs \o t) = 1..(Len(evs) + Len(t))
  OBVIOUS
<1>3. \A k \in 1..(Len(evs) + Len(t)) :
         (evs \o t)[k] = IF k <= Len(evs) THEN evs[k] ELSE t[k - Len(evs)]
  BY ConcatProperties
<1> DEFINE s == evs \o t
<1> HIDE DEF s
<1> QED BY <1>1, <1>2, <1>3

TextEvents == {"APPEND_LINE", "STATUS", "SCROLL"}

\* Lines, status texts and scrollings queued change neither.
LEMMA TextQueued ==
  ASSUME NEW evs \in Seq(EventTypes), NEW t \in Seq(TextEvents)
  PROVE  /\ Closes(evs \o t) <=> Closes(evs)
         /\ OpensLast(evs \o t) <=> OpensLast(evs)
<1>1. t \in Seq(EventTypes) /\ \A k \in DOMAIN t : t[k] \in TextEvents
  BY DEF EventTypes, TextEvents
<1> DEFINE s == evs \o t
<1>2. /\ \A k \in DOMAIN evs : k \in DOMAIN s /\ s[k] = evs[k]
      /\ \A k \in DOMAIN s : k \in DOMAIN evs \/ s[k] \in TextEvents
  BY <1>1, Places
<1> HIDE DEF s
<1>3. Closes(s) <=> Closes(evs)
  BY <1>2 DEF Closes, TextEvents
<1>4. OpensLast(s) <=> OpensLast(evs)
  BY <1>2 DEF OpensLast, TextEvents
<1> QED BY <1>3, <1>4 DEF s

\* A CONNECTED queued opens the chat page.
LEMMA ConnectedQueued ==
  ASSUME NEW evs \in Seq(EventTypes)
  PROVE  /\ Closes(evs \o <<"CONNECTED">>) <=> Closes(evs)
         /\ OpensLast(evs \o <<"CONNECTED">>)
<1> DEFINE t == <<"CONNECTED">>
           s == evs \o t
           n == Len(evs) + 1
<1>1. t \in Seq(EventTypes) /\ DOMAIN t = {1} /\ t[1] = "CONNECTED"
  BY DEF EventTypes
<1> HIDE DEF t
<1>2. /\ \A k \in DOMAIN evs : k \in DOMAIN s /\ s[k] = evs[k]
      /\ n \in DOMAIN s /\ s[n] = "CONNECTED"
      /\ \A k \in DOMAIN s : k \in DOMAIN evs \/ k - Len(evs) = 1
  BY <1>1, Places
<1>3. \A k \in DOMAIN s : k \in Int
  BY <1>1
<1> HIDE DEF s
<1>4. \A k \in DOMAIN s : k \in DOMAIN evs \/ k = n
  BY <1>2, <1>3
<1>5. \A k \in DOMAIN evs : k < n
  OBVIOUS
<1> HIDE DEF n
<1>6. Closes(s) <=> Closes(evs)
  BY <1>2, <1>4 DEF Closes
<1>7. OpensLast(s)
  BY <1>2, <1>3, <1>4, <1>5 DEF OpensLast
<1> QED BY <1>6, <1>7 DEF s, t

\* A DISCONNECTED queued closes it.
LEMMA DisconnectedQueued ==
  ASSUME NEW evs \in Seq(EventTypes)
  PROVE  Closes(evs \o <<"DISCONNECTED">>) /\ ~OpensLast(evs \o <<"DISCONNECTED">>)
<1> DEFINE t == <<"DISCONNECTED">>
           s == evs \o t
           n == Len(evs) + 1
<1>1. t \in Seq(EventTypes) /\ DOMAIN t = {1} /\ t[1] = "DISCONNECTED"
  BY DEF EventTypes
<1> HIDE DEF t
<1>2. /\ n \in DOMAIN s /\ s[n] = "DISCONNECTED"
      /\ \A k \in DOMAIN s : k \in DOMAIN evs \/ k - Len(evs) = 1
  BY <1>1, Places
<1>3. \A k \in DOMAIN s : k \in Int
  BY <1>1
<1> HIDE DEF s
<1>4. \A k \in DOMAIN s : k \in DOMAIN evs \/ k = n
  BY <1>2, <1>3
<1>5. \A k \in DOMAIN evs : k < n
  OBVIOUS
<1> HIDE DEF n
<1>6. Closes(s)
  BY <1>2 DEF Closes
<1>7. ~OpensLast(s)
  BY <1>2, <1>4, <1>5 DEF OpensLast
<1> QED BY <1>6, <1>7 DEF s, t

\* The oldest event is dispatched.
LEMMA Dispatched ==
  ASSUME NEW evs \in Seq(EventTypes), evs # <<>>
  PROVE  /\ Closes(evs) <=> Head(evs) = "DISCONNECTED" \/ Closes(Tail(evs))
         /\ OpensLast(evs) <=> \/ OpensLast(Tail(evs))
                               \/ Head(evs) = "CONNECTED" /\ ~Closes(Tail(evs))
<1> DEFINE t == Tail(evs)
           h == Head(evs)
<1>1. Len(evs) \in Nat /\ Len(evs) > 0 /\ DOMAIN evs = 1..Len(evs)
  BY EmptySeq
<1>2. h = evs[1] /\ Len(t) = Len(evs) - 1 /\ DOMAIN t = 1..Len(t)
      /\ \A k \in 1..Len(t) : t[k] = evs[k + 1]
  BY <1>1
<1> HIDE DEF t, h
<1>3. 1 \in DOMAIN evs /\ \A k \in DOMAIN t : k + 1 \in DOMAIN evs /\ evs[k + 1] = t[k] /\ k \in Nat
  BY <1>1, <1>2
<1>4. \A k \in DOMAIN evs : k = 1 \/ (k - 1 \in DOMAIN t /\ evs[k] = t[k - 1] /\ k > 1 /\ k \in Nat)
  BY <1>1, <1>2
<1>5. Closes(evs) <=> h = "DISCONNECTED" \/ Closes(t)
  BY <1>2, <1>3, <1>4 DEF Closes
<1>6. ASSUME OpensLast(t) PROVE OpensLast(evs)
  <2>1. PICK k \in DOMAIN t :
          t[k] = "CONNECTED" /\ \A l \in DOMAIN t : l > k => t[l] # "DISCONNECTED"
    BY <1>6 DEF OpensLast
  <2>2. ASSUME NEW l \in DOMAIN evs, l > k + 1 PROVE evs[l] # "DISCONNECTED"
    <3>1. l - 1 \in DOMAIN t /\ evs[l] = t[l - 1] /\ l \in Nat /\ k \in Nat
      BY <1>3, <1>4, <2>2
    <3> QED BY <2>1, <2>2, <3>1
  <2> QED BY <1>3, <2>1, <2>2 DEF OpensLast
<1>7. ASSUME h = "CONNECTED", ~Closes(t) PROVE OpensLast(evs)
  <2>1. \A l \in DOMAIN evs : l > 1 => evs[l] # "DISCONNECTED"
    BY <1>4, <1>7 DEF Closes
  <2> QED BY <1>2, <1>3, <1>7, <2>1 DEF OpensLast
<1>8. ASSUME OpensLast(evs) PROVE OpensLast(t) \/ (h = "CONNECTED" /\ ~Closes(t))
  <2>1. PICK k \in DOMAIN evs :
          evs[k] = "CONNECTED" /\ \A l \in DOMAIN evs : l > k => evs[l] # "DISCONNECTED"
    BY <1>8 DEF OpensLast
  <2>2. CASE k = 1
    BY <1>2, <1>3, <2>1, <2>2 DEF Closes
  <2>3. CASE k # 1
    <3>1. k - 1 \in DOMAIN t /\ t[k - 1] = "CONNECTED" /\ k \in Nat
      BY <1>4, <2>1, <2>3
    <3>2. ASSUME NEW l \in DOMAIN t, l > k - 1 PROVE t[l] # "DISCONNECTED"
      BY <1>3, <2>1, <3>1, <3>2
    <3> QED BY <3>1, <3>2 DEF OpensLast
  <2> QED BY <2>2, <2>3
<1> QED BY <1>5, <1>6, <1>7, <1>8 DEF t, h

\* A step that none of this depends on.
LEMMA ViewElsewhere ==
  ASSUME Sound, Faithful,
         UNCHANGED <<events, page, loginOn, sendOn, phase, mainThen, mainPc, joined, made,
                     rpc, acked, inbox>>
  PROVE  Faithful'
<1>1. MailOK'
  BY DEF Faithful, MailOK, AckRead
<1>2. MembershipOK'
  BY DEF Faithful, MembershipOK, AckRead, MainTook
<1>3. ChatAhead' <=> ChatAhead
  BY DEF ChatAhead
<1>4. InChat' <=> InChat
  BY DEF InChat, AckRead
<1>5. ViewOK'
  BY <1>3, <1>4 DEF Faithful, ViewOK, NoneAlive, Alive
<1> QED BY <1>1, <1>2, <1>5 DEF Faithful

\* The steps of the main thread that touch neither the queue nor the page:
\* whoever takes the socket out of socket_fd stays in its callback until the
\* receiver has ended.
MainApart ==
    \/ JoinNotSent \/ SendClicked \/ TextSent \/ TextNotSent
    \/ TakeByMain \/ LeaveSent \/ ShutByMain \/ CloseByMain \/ JoinReceiver \/ ReceiverJoined
    \/ AfterCloseRequest \/ AfterShutdown \/ CloseRequest \/ OnShutdown
    \/ RunReturns \/ FreeApp

LEMMA MainApartView == ASSUME Sound, Faithful, MainApart PROVE Faithful'
<1>1. UNCHANGED <<events, page, loginOn, sendOn, made, rpc, acked, inbox>>
  BY DEF MainApart, JoinNotSent, SendClicked, TextSent, TextNotSent, TakeByMain, LeaveSent,
         ShutByMain, CloseByMain, JoinReceiver, ReceiverJoined, AfterCloseRequest,
         AfterShutdown, CloseRequest, OnShutdown, RunReturns, FreeApp, widgets, recvVars,
         kernel, peerVars
<1>2. mainThen' = "disconnected" <=> mainThen = "disconnected"
  BY DEF MainApart, JoinNotSent, SendClicked, TextSent, TextNotSent, TakeByMain, LeaveSent,
         ShutByMain, CloseByMain, JoinReceiver, ReceiverJoined, AfterCloseRequest,
         AfterShutdown, CloseRequest, OnShutdown, RunReturns, FreeApp, Disconnect, Return,
         mainVars, Faithful, ViewOK, MainIdle
<1>3. joined' => joined
  BY DEF MainApart, JoinNotSent, SendClicked, TextSent, TextNotSent, TakeByMain, LeaveSent,
         ShutByMain, CloseByMain, JoinReceiver, ReceiverJoined, AfterCloseRequest,
         AfterShutdown, CloseRequest, OnShutdown, RunReturns, FreeApp, TakeSocket, shared
<1>4. ASSUME ~NoneAlive PROVE (joined' = joined /\ ~MainTook) \/ MainTook'
  <2>1. mainPc # "after"
    BY <1>4 DEF Sound, RestOK, AllGone
  <2>2. mainPc \in {"take"} \cup Closing => mainThen # "disconnected"
    BY DEF Sound, ThreadsOK
  <2> QED
    BY <2>1, <2>2
    DEF MainApart, JoinNotSent, SendClicked, TextSent, TextNotSent, TakeByMain, LeaveSent,
        ShutByMain, CloseByMain, JoinReceiver, ReceiverJoined, AfterCloseRequest,
        AfterShutdown, CloseRequest, OnShutdown, RunReturns, FreeApp, Disconnect, shared,
        mainVars, MainTook, Closing, MainIdle
<1>5. MailOK'
  BY <1>1 DEF Faithful, MailOK, AckRead
<1>6. MembershipOK'
  <2>1. AckRead(made)' <=> AckRead(made)
    BY <1>1 DEF AckRead
  <2>2. joined' => AckRead(made)'
    BY <1>3, <2>1 DEF Faithful, MembershipOK
  <2>3. ASSUME made \in Conns, rpc[made] \in {"call", "wait", "acked"}, AckRead(made), ~MainTook'
        PROVE  joined'
    BY <1>4, <2>3 DEF NoneAlive, Alive, Faithful, MembershipOK
  <2> QED BY <1>1, <2>1, <2>2, <2>3 DEF MembershipOK
<1>7. ChatAhead' <=> ChatAhead
  BY <1>1, <1>2 DEF ChatAhead
<1>8. InChat' <=> InChat
  BY <1>1 DEF InChat, AckRead
<1>9. mainPc' \in {"idle", "send", "join_send"} => mainThen' = "none"
  BY DEF MainApart, JoinNotSent, SendClicked, TextSent, TextNotSent, TakeByMain, LeaveSent,
         ShutByMain, CloseByMain, JoinReceiver, ReceiverJoined, AfterCloseRequest,
         AfterShutdown, CloseRequest, OnShutdown, RunReturns, FreeApp, Disconnect, Return,
         mainVars, Faithful, ViewOK, MainIdle
<1>10. loginOn' \/ phase' # "open" \/ mainPc' = "join_send" \/ mainThen' # "none"
       \/ ~NoneAlive' \/ Closes(events')
  <2>1. NoneAlive' <=> NoneAlive
    BY <1>1 DEF NoneAlive, Alive
  <2>2. \/ phase' # "open"
        \/ mainThen' # "none"
        \/ mainThen = "none" /\ mainPc # "join_send" /\ phase' = phase
    BY DEF MainApart, JoinNotSent, SendClicked, TextSent, TextNotSent, TakeByMain, LeaveSent,
           ShutByMain, CloseByMain, JoinReceiver, ReceiverJoined, AfterCloseRequest,
           AfterShutdown, CloseRequest, OnShutdown, RunReturns, FreeApp, Disconnect, Return,
           mainVars, widgets, MainIdle
  <2> QED BY <1>1, <2>1, <2>2 DEF Faithful, ViewOK
<1> QED BY <1>1, <1>5, <1>6, <1>7, <1>8, <1>9, <1>10 DEF Faithful, ViewOK

\* The steps of a receiver that queue nothing and read nothing.
ReceiverApart(c) ==
    \/ CopySocket(c) \/ CallRecv(c) \/ ReceiveEnds(c)
    \/ TakeByReceiver(c) \/ ShutByReceiver(c) \/ CloseByReceiver(c)

LEMMA ReceiverApartView ==
  ASSUME Sound, Faithful, NEW c \in Conns, ReceiverApart(c) PROVE Faithful'
<1>1. UNCHANGED <<events, page, loginOn, sendOn, phase, mainPc, mainThen, made, acked, inbox>>
  BY DEF ReceiverApart, CopySocket, CallRecv, ReceiveEnds, TakeByReceiver, ShutByReceiver,
         CloseByReceiver, widgets, mainVars, kernel, peerVars
<1>2. PICK pc \in {"call", "wait", "take", "shut", "close", "queue"} :
        rpc' = [rpc EXCEPT ![c] = pc] /\ (rpc[c] = "start" \/ rpc[c] \in Chatting)
        /\ (pc \in {"call", "wait"} => rpc[c] \in {"start", "call"} /\ joined' = joined)
        /\ (joined' = joined \/ (~joined' /\ rpc[c] = "take"))
  BY DEF ReceiverApart, CopySocket, CallRecv, ReceiveEnds, TakeByReceiver, ShutByReceiver,
         CloseByReceiver, Goto, shared, TakeSocket, Chatting, Closing
<1>3. /\ \A d \in Conns : rpc'[d] = IF d = c THEN pc ELSE rpc[d]
      /\ \A d \in Conns : AckRead(d)' <=> AckRead(d)
  BY <1>1, <1>2 DEF Sound, TypeOK, AckRead
<1>4. AckRead(c) => rpc[c] \in Chatting
  BY <1>2 DEF Faithful, MailOK
<1>5. c = made /\ Alive(c)
  BY <1>2 DEF Sound, ThreadsOK, NoStrayReceiver, Alive, Chatting, Closing
<1>6. ~NoneAlive'
  BY <1>2, <1>3 DEF NoneAlive, Alive
<1>7. MailOK'
  BY <1>1, <1>2, <1>3 DEF Faithful, MailOK, AckRead
<1>8. MembershipOK'
  <2>1. joined' => AckRead(made)'
    BY <1>1, <1>2, <1>3, <1>5 DEF Faithful, MembershipOK
  <2>2. ASSUME rpc'[made] \in {"call", "wait", "acked"}, AckRead(made), ~MainTook'
        PROVE  joined'
    BY <1>1, <1>2, <1>3, <1>4, <1>5, <2>2 DEF Faithful, MembershipOK, MainTook, Chatting,
       Closing
  <2> QED BY <1>1, <1>3, <1>5, <2>1, <2>2 DEF MembershipOK
<1>9. ChatAhead' <=> ChatAhead
  BY <1>1 DEF ChatAhead
<1>10. InChat' <=> InChat
  BY <1>1, <1>2, <1>3, <1>4, <1>5 DEF InChat, Chatting, Closing
<1> QED BY <1>1, <1>6, <1>7, <1>8, <1>9, <1>10 DEF Faithful, ViewOK

\* A new connection starts from the login page with nothing left of the last
\* one, but perhaps with its events.
LEMMA ConnectClickedView == ASSUME Sound, Faithful, ConnectClicked PROVE Faithful'
<1>1. UNCHANGED <<events, page, mainThen, rpc, acked, inbox>> /\ made' = made + 1 /\ ~joined'
      /\ page = "login" /\ ~sendOn' /\ mainPc' = "join_send" /\ mainThen = "none" /\ loginOn
  BY DEF ConnectClicked, recvVars, peerVars, Faithful, ViewOK, MainIdle
<1>2. made + 1 \in Conns => rpc[made + 1] = "none"
  BY DEF Sound, TypeOK, ThreadsOK
<1>3. ~InChat
  BY <1>1 DEF Sound, RestOK, AllGone, NoneAlive, Alive, InChat, Chatting, Closing
<1>4. ~InChat'
  BY <1>1, <1>2 DEF InChat, Chatting, Closing
<1>5. ChatAhead' <=> ChatAhead
  BY <1>1 DEF ChatAhead
<1>6. MailOK'
  BY <1>1 DEF Faithful, MailOK, AckRead
<1>7. MembershipOK'
  BY <1>1, <1>2 DEF MembershipOK
<1> QED BY <1>1, <1>3, <1>4, <1>5, <1>6, <1>7 DEF Faithful, ViewOK

\* The receiver of the new connection has read nothing yet.
LEMMA JoinSentView == ASSUME Sound, Faithful, JoinSent PROVE Faithful'
<1>1. UNCHANGED <<events, page, sendOn, mainThen, made, joined, acked, inbox>>
      /\ rpc' = [rpc EXCEPT ![made] = "start"] /\ mainPc' = "idle" /\ mainPc = "join_send"
  BY DEF JoinSent, widgets, kernel, peerVars
<1>2. made \in Conns /\ rpc[made] = "none"
  BY <1>1 DEF Sound, ThreadsOK
<1>3. /\ \A d \in Conns : rpc'[d] = IF d = made THEN "start" ELSE rpc[d]
      /\ \A d \in Conns : AckRead(d)' <=> AckRead(d)
  BY <1>1 DEF Sound, TypeOK, AckRead
<1>4. MailOK'
  BY <1>1, <1>2, <1>3 DEF Faithful, MailOK
<1>5. MembershipOK'
  BY <1>1, <1>2, <1>3 DEF Faithful, MembershipOK
<1>6. ~InChat /\ ~InChat'
  BY <1>1, <1>2, <1>3 DEF InChat, Chatting, Closing
<1>7. ChatAhead' <=> ChatAhead
  BY <1>1 DEF ChatAhead
<1>8. ~NoneAlive'
  BY <1>2, <1>3 DEF NoneAlive, Alive
<1> QED BY <1>1, <1>4, <1>5, <1>6, <1>7, <1>8 DEF Faithful, ViewOK

\* The two callbacks that put the login page back themselves: no receiver is
\* left, and what waits in the queue ends with its DISCONNECTED.
LEMMA LoginAgainView == ASSUME Sound, Faithful, AfterJoinFailed \/ BackToLogin PROVE Faithful'
<1>1. UNCHANGED <<events, made, joined, rpc, acked, inbox>> /\ loginOn' /\ mainPc = "after"
      /\ mainPc' = "idle" /\ mainThen' = "none"
  BY DEF AfterJoinFailed, BackToLogin, Return, shared, recvVars, kernel, peerVars
<1>2. \/ page' = page /\ sendOn' = sendOn /\ mainThen = "join_failed"
      \/ page' = "login" /\ ~sendOn'
  BY DEF AfterJoinFailed, BackToLogin
<1>3. NoneAlive
  BY <1>1 DEF Sound, RestOK, AllGone
<1>4. ~InChat /\ ~InChat'
  BY <1>1, <1>3 DEF NoneAlive, Alive, InChat, Chatting, Closing
<1>5. ~ChatAhead'
  BY <1>1, <1>2, <1>4 DEF Faithful, ViewOK, ChatAhead
<1>6. MailOK'
  BY <1>1 DEF Faithful, MailOK, AckRead
<1>7. MembershipOK'
  BY <1>1, <1>3 DEF Faithful, MembershipOK, AckRead, NoneAlive, Alive
<1> QED BY <1>1, <1>2, <1>4, <1>5, <1>6, <1>7 DEF Faithful, ViewOK

\* ns_client_dispatch_ui_event takes the oldest event: the page it shows is
\* what that event stood for.
LEMMA DispatchView ==
  ASSUME Sound, Faithful,
         \/ DispatchText \/ DispatchStatus \/ Scroll \/ DispatchConnected
         \/ DispatchDisconnected
  PROVE  Faithful'
<1> DEFINE h == Head(events)
           t == Tail(events)
<1>1. /\ UNCHANGED <<made, joined, rpc, acked, inbox, phase>>
      /\ mainPc = "idle" /\ events # <<>>
      /\ events' = t \/ events' = Append(t, "SCROLL")
  BY DEF DispatchText, DispatchStatus, Scroll, DispatchConnected, DispatchDisconnected, Dequeue,
         AppendLine, CanDispatch, MainIdle, shared, widgets, recvVars, kernel, peerVars
<1>2. \/ h \in TextEvents /\ UNCHANGED <<page, sendOn, loginOn, mainPc, mainThen>>
      \/ /\ h = "CONNECTED" /\ page' = "chat" /\ sendOn'
         /\ UNCHANGED <<mainPc, mainThen>>
      \/ /\ h = "DISCONNECTED" /\ mainPc' = "join" /\ mainThen' = "disconnected"
         /\ UNCHANGED <<page, sendOn, loginOn>>
  BY DEF DispatchText, DispatchStatus, Scroll, DispatchConnected, DispatchDisconnected,
         CanDispatch, mainVars, widgets, TextEvents
<1>3. mainThen = "none"
  BY <1>1 DEF Faithful, ViewOK
<1>4. /\ Closes(events) <=> h = "DISCONNECTED" \/ Closes(events')
      /\ OpensLast(events) <=> OpensLast(events') \/ (h = "CONNECTED" /\ ~Closes(events'))
  <2>1. /\ Closes(events) <=> h = "DISCONNECTED" \/ Closes(t)
        /\ OpensLast(events) <=> OpensLast(t) \/ (h = "CONNECTED" /\ ~Closes(t))
    BY <1>1, Dispatched DEF Sound, TypeOK
  <2>2. t \in Seq(EventTypes) /\ <<"SCROLL">> \in Seq(TextEvents)
    BY <1>1, QueueTyped DEF TextEvents
  <2>3. Append(t, "SCROLL") = t \o <<"SCROLL">>
    BY <2>2, AppendIsConcat DEF EventTypes
  <2> HIDE DEF h, t
  <2>4. (Closes(events') <=> Closes(t)) /\ (OpensLast(events') <=> OpensLast(t))
    BY <1>1, <2>2, <2>3, TextQueued
  <2> QED BY <2>1, <2>4
<1> HIDE DEF h, t
<1>5. ChatAhead' <=> ChatAhead
  BY <1>2, <1>3, <1>4 DEF ChatAhead, TextEvents
<1>6. InChat' <=> InChat
  BY <1>1 DEF InChat, AckRead
<1>7. MailOK'
  BY <1>1 DEF Faithful, MailOK, AckRead
<1>8. MembershipOK'
  <2>1. ~MainTook
    BY <1>1 DEF MainTook, Closing
  <2> QED BY <1>1, <2>1 DEF Faithful, MembershipOK, AckRead
<1>9. InChat => ~NoneAlive
  BY DEF InChat, NoneAlive, Alive, Chatting, Closing
<1>10. \/ loginOn' \/ phase' # "open" \/ mainPc' = "join_send" \/ mainThen' # "none"
       \/ ~NoneAlive' \/ Closes(events')
  <2>1. NoneAlive' <=> NoneAlive
    BY <1>1 DEF NoneAlive, Alive
  <2>2. CASE h = "CONNECTED"
    <3>1. Closes(events') \/ ChatAhead'
      BY <1>2, <1>3, <1>4, <2>2 DEF ChatAhead, TextEvents
    <3> QED BY <1>5, <1>9, <2>1, <3>1 DEF Faithful, ViewOK
  <2>3. CASE h # "CONNECTED"
    BY <1>1, <1>2, <1>3, <1>4, <2>1, <2>3 DEF Faithful, ViewOK, TextEvents
  <2> QED BY <2>2, <2>3
<1>11. sendOn' <=> page' = "chat"
  BY <1>2 DEF Faithful, ViewOK
<1>12. mainPc' \in {"idle", "send", "join_send"} => mainThen' = "none"
  BY <1>2, <1>3
<1> QED BY <1>5, <1>6, <1>7, <1>8, <1>10, <1>11, <1>12 DEF Faithful, ViewOK

\* The ACK is read at most once, and then its CONNECTED is still to be queued.
LEMMA ReceiveView ==
  ASSUME Sound, Faithful, NEW c \in Conns, Receive(c) PROVE Faithful'
<1>1. /\ UNCHANGED <<page, loginOn, sendOn, phase, mainPc, mainThen, made, acked>>
      /\ rpc[c] = "wait" /\ ron[c] \in Conns
  BY DEF Receive, widgets, mainVars
<1>2. c = made /\ ron[c] = c
  BY <1>1, Numbers DEF Sound, ThreadsOK, NoStrayReceiver, Alive, NoCrossTalk
<1>3. inbox[c] \in Seq(Packets) /\ inbox[c] # <<>> /\ inbox' = [inbox EXCEPT ![c] = Tail(inbox[c])]
  BY <1>2 DEF Receive, Sound, TypeOK
<1> DEFINE s == inbox[c]
           t == Tail(s)
<1>4. /\ 1 \in DOMAIN s /\ s[1] = Head(s)
      /\ \A k \in DOMAIN t : k + 1 \in DOMAIN s /\ t[k] = s[k + 1] /\ k + 1 # 1
      /\ \A k \in DOMAIN s : k = 1 \/ (k - 1 \in DOMAIN t /\ t[k - 1] = s[k])
      /\ \A k, l \in DOMAIN t : k + 1 = l + 1 => k = l
  <2>1. Len(s) \in Nat /\ Len(s) > 0 /\ DOMAIN s = 1..Len(s) /\ s[1] = Head(s)
    BY <1>3, EmptySeq
  <2>2. Len(t) = Len(s) - 1 /\ DOMAIN t = 1..Len(t) /\ \A k \in 1..Len(t) : t[k] = s[k + 1]
    BY <1>3, <2>1
  <2> HIDE DEF s, t
  <2> QED BY <2>1, <2>2
<1>5. \A d \in Conns : inbox'[d] = IF d = c THEN t ELSE inbox[d]
  BY <1>3 DEF Sound, TypeOK
<1>6. /\ \A k, l \in DOMAIN s : s[k] = "ACK" /\ s[l] = "ACK" => k = l
      /\ c \notin acked => \A k \in DOMAIN s : s[k] # "ACK"
  BY DEF Faithful, MailOK
<1>7. AckRead(c) <=> c \in acked /\ \A k \in DOMAIN s : s[k] # "ACK"
  BY DEF AckRead
<1>8. AckRead(c)' <=> c \in acked /\ \A k \in DOMAIN t : t[k] # "ACK"
  BY <1>1, <1>5 DEF AckRead
<1>9. \A d \in Conns \ {c} : AckRead(d)' <=> AckRead(d)
  BY <1>1, <1>5 DEF AckRead
<1>10. \A k, l \in DOMAIN t : t[k] = "ACK" /\ t[l] = "ACK" => k = l
  BY <1>4, <1>6
<1>11. c \notin acked => \A k \in DOMAIN t : t[k] # "ACK"
  BY <1>4, <1>6
<1>12. CASE Head(s) = "ACK"
  <2>1. joined' /\ events' = events /\ rpc' = [rpc EXCEPT ![c] = "acked"]
    BY <1>2, <1>12 DEF Receive, Goto
  <2>2. \A d \in Conns : rpc'[d] = IF d = c THEN "acked" ELSE rpc[d]
    BY <2>1 DEF Sound, TypeOK
  <2> HIDE DEF s, t
  <2>3. ~AckRead(c) /\ AckRead(c)'
    BY <1>4, <1>6, <1>7, <1>8, <1>12
  <2>4. MailOK'
    BY <1>1, <1>5, <1>9, <1>10, <1>11, <2>2, <2>3 DEF Faithful, MailOK
  <2>5. MembershipOK'
    BY <1>1, <1>2, <2>1, <2>3 DEF MembershipOK
  <2>6. (ChatAhead' <=> ChatAhead) /\ ~InChat /\ ~InChat'
    BY <1>1, <1>2, <2>1, <2>2, <2>3 DEF ChatAhead, InChat, Chatting, Closing
  <2>7. ~NoneAlive'
    BY <2>2 DEF NoneAlive, Alive
  <2> QED BY <1>1, <2>4, <2>5, <2>6, <2>7 DEF Faithful, ViewOK
<1>13. CASE Head(s) # "ACK"
  <2>1. PICK q \in {<<"APPEND_LINE">>, <<"APPEND_LINE", "STATUS">>} :
          /\ events' = events \o q
          /\ rpc' = [rpc EXCEPT ![c] = "call"] /\ joined' = joined
    BY <1>2, <1>13 DEF Receive, Goto, Queue
  <2>2. \A d \in Conns : rpc'[d] = IF d = c THEN "call" ELSE rpc[d]
    BY <2>1 DEF Sound, TypeOK
  <2>3. q \in Seq(TextEvents) /\ events \in Seq(EventTypes)
    <3>1. /\ <<"APPEND_LINE">> \in Seq(TextEvents)
          /\ <<"APPEND_LINE", "STATUS">> \in Seq(TextEvents)
      BY DEF TextEvents
    <3> QED BY <2>1, <3>1 DEF Sound, TypeOK
  <2>4. (Closes(events') <=> Closes(events)) /\ (OpensLast(events') <=> OpensLast(events))
    BY <2>1, <2>3, TextQueued
  <2> HIDE DEF s, t
  <2>5. AckRead(c)' <=> AckRead(c)
    BY <1>4, <1>7, <1>8, <1>13
  <2>6. MailOK'
    BY <1>1, <1>5, <1>9, <1>10, <1>11, <2>2, <2>5 DEF Faithful, MailOK
  <2>7. MembershipOK'
    BY <1>1, <1>2, <2>1, <2>5 DEF Faithful, MembershipOK, MainTook
  <2>8. (ChatAhead' <=> ChatAhead) /\ (InChat' <=> InChat)
    BY <1>1, <1>2, <2>2, <2>4, <2>5 DEF ChatAhead, InChat, Chatting, Closing
  <2>9. ~NoneAlive'
    BY <2>2 DEF NoneAlive, Alive
  <2> QED BY <1>1, <2>6, <2>7, <2>8, <2>9 DEF Faithful, ViewOK
<1> QED BY <1>12, <1>13

\* From here the chat page is due.
LEMMA QueueConnectedView ==
  ASSUME Sound, Faithful, NEW c \in Conns, QueueConnected(c) PROVE Faithful'
<1>1. /\ UNCHANGED <<page, loginOn, sendOn, phase, mainPc, mainThen, made, acked, inbox, joined>>
      /\ rpc[c] = "acked" /\ rpc' = [rpc EXCEPT ![c] = "call"]
      /\ events' = events \o <<"CONNECTED">>
  BY DEF QueueConnected, Goto, Queue, widgets, mainVars, shared, kernel, peerVars
<1>2. c = made
  BY <1>1 DEF Sound, ThreadsOK, NoStrayReceiver, Alive
<1>3. OpensLast(events')
  BY <1>1, ConnectedQueued DEF Sound, TypeOK
<1>4. /\ \A d \in Conns : rpc'[d] = IF d = c THEN "call" ELSE rpc[d]
      /\ \A d \in Conns : AckRead(d)' <=> AckRead(d)
  BY <1>1 DEF Sound, TypeOK, AckRead
<1>5. ChatAhead' /\ InChat' /\ ~NoneAlive'
  <2>1. AckRead(c)
    BY <1>1 DEF Faithful, MailOK
  <2> QED
    BY <1>1, <1>2, <1>3, <1>4, <2>1 DEF ChatAhead, InChat, Chatting, NoneAlive, Alive
<1>6. MailOK'
  BY <1>1, <1>4 DEF Faithful, MailOK
<1>7. MembershipOK'
  BY <1>1, <1>2, <1>4 DEF Faithful, MembershipOK, MainTook
<1> QED BY <1>1, <1>5, <1>6, <1>7 DEF Faithful, ViewOK

\* From here the login page is.
LEMMA QueueDisconnectedView ==
  ASSUME Sound, Faithful, NEW c \in Conns, QueueDisconnected(c) PROVE Faithful'
<1>1. /\ UNCHANGED <<page, loginOn, sendOn, phase, mainPc, mainThen, made, acked, inbox, joined>>
      /\ rpc[c] = "queue" /\ rpc' = [rpc EXCEPT ![c] = "done"]
      /\ events' = events \o <<"DISCONNECTED">>
  BY DEF QueueDisconnected, Goto, Queue, widgets, mainVars, shared, kernel, peerVars
<1>2. c = made
  BY <1>1 DEF Sound, ThreadsOK, NoStrayReceiver, Alive
<1>3. Closes(events') /\ ~OpensLast(events')
  BY <1>1, DisconnectedQueued DEF Sound, TypeOK
<1>4. /\ \A d \in Conns : rpc'[d] = IF d = c THEN "done" ELSE rpc[d]
      /\ \A d \in Conns : AckRead(d)' <=> AckRead(d)
  BY <1>1 DEF Sound, TypeOK, AckRead
<1>5. ~ChatAhead' /\ ~InChat'
  BY <1>1, <1>2, <1>3, <1>4 DEF ChatAhead, InChat, Chatting, Closing
<1>6. MailOK'
  BY <1>1, <1>4 DEF Faithful, MailOK
<1>7. MembershipOK'
  BY <1>1, <1>2, <1>4 DEF Faithful, MembershipOK
<1> QED BY <1>1, <1>3, <1>5, <1>6, <1>7 DEF Faithful, ViewOK

\* A server acknowledges a JOIN once.
LEMMA ServerSendsView ==
  ASSUME Sound, Faithful, NEW c \in Conns, ServerSends(c) PROVE Faithful'
<1>1. /\ UNCHANGED <<events, page, loginOn, sendOn, phase, mainPc, mainThen, made, joined, rpc>>
      /\ rpc[c] # "none"
  BY DEF ServerSends, widgets, mainVars, shared, recvVars
<1>2. PICK p \in Packets :
        /\ p = "ACK" => c \notin acked
        /\ p = "LINE" => c \in acked
        /\ inbox' = [inbox EXCEPT ![c] = Append(inbox[c], p)]
        /\ acked' = IF p = "ACK" THEN acked \cup {c} ELSE acked
  BY DEF ServerSends
<1> DEFINE s == inbox[c]
           t == Append(s, p)
           n == Len(s) + 1
<1>3. /\ n \in DOMAIN t /\ t[n] = p
      /\ \A k \in DOMAIN s : k \in DOMAIN t /\ t[k] = s[k]
      /\ \A k \in DOMAIN t : k = n \/ (k \in DOMAIN s /\ t[k] = s[k])
  <2>1. s \in Seq(Packets) /\ Len(s) \in Nat /\ DOMAIN s = 1..Len(s)
    BY DEF Sound, TypeOK
  <2>2. DOMAIN t = 1..n /\ \A k \in 1..n : t[k] = IF k = n THEN p ELSE s[k]
    BY <2>1, AppendProperties
  <2> HIDE DEF s, t
  <2> QED BY <2>1, <2>2
<1>4. \A d \in Conns : inbox'[d] = IF d = c THEN t ELSE inbox[d]
  BY <1>2 DEF Sound, TypeOK
<1>5. /\ \A k, l \in DOMAIN s : s[k] = "ACK" /\ s[l] = "ACK" => k = l
      /\ c \notin acked => \A k \in DOMAIN s : s[k] # "ACK"
  BY DEF Faithful, MailOK
<1>6. AckRead(c) <=> c \in acked /\ \A k \in DOMAIN s : s[k] # "ACK"
  BY DEF AckRead
<1>7. AckRead(c)' <=> c \in acked' /\ \A k \in DOMAIN t : t[k] # "ACK"
  BY <1>4 DEF AckRead
<1>8. \A d \in Conns \ {c} : (AckRead(d)' <=> AckRead(d)) /\ (d \in acked' <=> d \in acked)
  BY <1>2, <1>4 DEF AckRead
<1> HIDE DEF s, t, n
<1>9. AckRead(c)' <=> AckRead(c)
  BY <1>2, <1>3, <1>6, <1>7
<1>10. \A k, l \in DOMAIN t : t[k] = "ACK" /\ t[l] = "ACK" => k = l
  BY <1>2, <1>3, <1>5
<1>11. c \notin acked' => \A k \in DOMAIN t : t[k] # "ACK"
  BY <1>2, <1>3, <1>5
<1>12. \A d \in Conns : AckRead(d)' <=> AckRead(d)
  BY <1>8, <1>9
<1>13. MailOK'
  BY <1>1, <1>4, <1>8, <1>10, <1>11, <1>12 DEF Faithful, MailOK
<1>14. joined => made \in Conns
  BY DEF Sound, SocketOK
<1>15. MembershipOK'
  BY <1>1, <1>12, <1>14 DEF Faithful, MembershipOK, MainTook
<1>16. (ChatAhead' <=> ChatAhead) /\ (InChat' <=> InChat)
  BY <1>1, <1>12 DEF ChatAhead, InChat
<1> QED BY <1>1, <1>13, <1>15, <1>16 DEF Faithful, ViewOK, NoneAlive, Alive

\* The main loop starts at the login page with nothing queued.
LEMMA InitView == Init => Faithful
  BY Numbers DEF Init, Faithful, MailOK, MembershipOK, ViewOK, ChatAhead, InChat, Closes,
     OpensLast, AckRead, Chatting, Closing

\* Every step, of whatever thread, keeps what the view will be right.
LEMMA StepView == Sound /\ Faithful /\ [Next]_vars => Faithful'
<1> SUFFICES ASSUME Sound, Faithful, [Next]_vars PROVE Faithful'
  OBVIOUS
<1>1. CASE MainStep
  BY <1>1, MainApartView, JoinSentView, LoginAgainView, DispatchView DEF MainStep, MainApart
<1>2. CASE \E c \in Conns : ReceiverStep(c)
  BY <1>2, ReceiverApartView, ReceiveView, QueueConnectedView, QueueDisconnectedView
  DEF ReceiverStep, ReceiverApart
<1>3. CASE UserStep
  BY <1>3, ConnectClickedView, MainApartView DEF UserStep, MainApart
<1>4. CASE Environment
  <2>1. ASSUME NEW c \in Conns, ServerCloses(c) \/ ServerStalls(c) \/ ServerReads(c)
        PROVE  Faithful'
    BY <2>1, ViewElsewhere
    DEF ServerCloses, ServerStalls, ServerReads, shared, mainVars, widgets, recvVars
  <2>2. CASE ForeignOpen
    BY <2>2, ViewElsewhere
    DEF ForeignOpen, shared, mainVars, widgets, recvVars, peerVars
  <2> QED BY <1>4, <2>1, <2>2, ServerSendsView DEF Environment
<1>5. CASE UNCHANGED vars
  BY <1>5, ViewElsewhere DEF vars, shared, mainVars, widgets, recvVars, kernel, peerVars
<1> QED BY <1>1, <1>2, <1>3, <1>4, <1>5 DEF Next, Ended

\* Once the idle queue is empty the widgets show the truth: the chat page
\* exactly with a joined connection, the login form whenever no receiver is
\* left, although ns_client_dispatch_ui_event cannot tell the events of one
\* connection from those of the next (client.c:321-360).
THEOREM ViewFaithful == Spec => []ViewFollowsConnection
<1>1. ASSUME Sound, Faithful, MainIdle, phase = "open", events = <<>> PROVE ViewFollowsConnection
  <2>1. ~Closes(events) /\ ~OpensLast(events) /\ mainThen = "none" /\ mainPc = "idle"
    BY <1>1 DEF Closes, OpensLast, MainIdle, Faithful, ViewOK
  <2>2. page = "chat" <=> InChat
    BY <1>1, <2>1 DEF Faithful, ViewOK, ChatAhead
  <2>3. sendOn <=> page = "chat"
    BY <1>1 DEF Faithful, ViewOK
  <2>4. ASSUME \A c \in Conns : rpc[c] \in {"none", "start", "call", "wait", "done"}
        PROVE  InChat <=> joined
    <3>1. ~MainTook
      BY <2>1 DEF MainTook, Closing
    <3>2. joined => made \in Conns /\ rpc[made] \in {"call", "wait", "acked", "take"}
      BY <1>1 DEF Sound, SocketOK
    <3> QED
      BY <1>1, <2>4, <3>1, <3>2 DEF Faithful, MembershipOK, InChat, Chatting, Closing
  <2>5. ASSUME NoneAlive PROVE loginOn /\ ~InChat
    BY <1>1, <2>1, <2>5 DEF Faithful, ViewOK, InChat, NoneAlive, Alive, Chatting, Closing
  <2>6. page \in {"login", "chat"}
    BY <1>1 DEF Sound, TypeOK
  <2> QED BY <2>2, <2>3, <2>4, <2>5, <2>6 DEF ViewFollowsConnection, NoneAlive
<1>2. Sound /\ Faithful => ViewFollowsConnection
  BY <1>1 DEF ViewFollowsConnection
<1>3. Init => Faithful
  BY InitView
<1>4. Sound /\ Faithful /\ [Next]_vars => Faithful'
  BY StepView
<1> QED BY <1>2, <1>3, <1>4, Soundness, PTL DEF Spec
=============================================================================

--------------------------- MODULE DatabaseProofs ---------------------------
(***************************************************************************)
(* Theorems about Database for every number of processes, names and every  *)
(* bound.                                                                  *)
(***************************************************************************)
EXTENDS Database, SequenceTheorems, TLAPS

USE DatabaseAssumption, NoneAssumption

(***************************************************************************)
(* The inductive invariant.  Each part speaks of few variables, and few    *)
(* actions can disturb it.                                                 *)
(***************************************************************************)

\* A call knows whom it is for.
AskedOK ==
    \A p \in Procs : pc[p] \notin {"closed", "open", "schema", "idle"} => asked[p] \in Names

\* A row that is waiting to be committed is new in name and id.
RowsOK ==
    /\ \A row \in users : row.id <= sequence
    /\ \A a, b \in users : a.name = b.name <=> a.id = b.id
    /\ \A row \in pending : row.id = sequence + 1 /\ \A other \in users : other.name # row.name
    /\ \A a, b \in pending : a = b

\* What a process was told was told once, and is a row.
GrantsOK ==
    /\ \A p \in Procs : held[p] \subseteq granted
    /\ sequence < UINT32 => granted \subseteq users

\* A message names a user that is there, and the one who sent it.
MessagesOK ==
    /\ \A i \in DOMAIN messages : \E row \in users : row.id = messages[i].sender
    /\ \A p \in Procs :
          pc[p] = "message" => [name |-> asked[p], id |-> sender[p]] \in granted
    /\ sequence < UINT32 =>
          \A i \in DOMAIN messages :
              [name |-> messages[i].author, id |-> messages[i].sender] \in users

\* A snapshot is of the past and contains the process's own messages.
SnapshotsOK ==
    \A p \in Procs :
        /\ seen[p] <= Len(messages)
        /\ read[p] # "none" =>
              \A m \in DOMAIN messages : messages[m].by = p => m <= seen[p]

Sound == TypeOK /\ AskedOK /\ NoTransactionLeftOpen /\ RowsOK /\ GrantsOK /\ MessagesOK
         /\ SnapshotsOK

\* A step of one process.
Step(p) == CallStep(p) \/ CallerStep(p) \/ Fault(p)

-----------------------------------------------------------------------------
\* Only Commit adds rows or spends ids.
LEMMA DirectoryFrame ==
  ASSUME NEW p \in Procs, Step(p), ~Commit(p)
  PROVE  UNCHANGED <<users, sequence>>
  BY DEF Step, CallStep, CallerStep, Fault, CallFails, Crash, Open, CreateTable, Opened, SchemaReady,
         OpenFails, Close, GetOrCreateUser, Begin, BeginRefused, BusyTimeout, InsertUser, StatementFails,
         Rollback, FindUser, FindUserFails, InsertMessage, StoreMessage, MessageRefused,
         RecentMessages, file

\* Only a message that is stored changes the messages.
LEMMA MessagesFrame ==
  ASSUME NEW p \in Procs, Step(p), ~StoreMessage(p)
  PROVE  UNCHANGED messages
  BY DEF Step, CallStep, CallerStep, Fault, CallFails, Crash, Open, CreateTable, Opened, SchemaReady,
         OpenFails, Close, GetOrCreateUser, Begin, BeginRefused, BusyTimeout, InsertUser, StatementFails,
         Rollback, FindUser, FindUserFails, InsertMessage, Commit, MessageRefused,
         RecentMessages, file

\* Who owns the lock, and what is not committed yet, changes in five places.
LEMMA WriterFrame ==
  ASSUME NEW p \in Procs, Step(p),
         ~Begin(p), ~InsertUser(p), ~Commit(p), ~Rollback(p), ~Crash(p)
  PROVE  UNCHANGED <<writer, pending>>
  BY DEF Step, CallStep, CallerStep, Fault, CallFails, Open, CreateTable, Opened, SchemaReady,
         OpenFails, Close, GetOrCreateUser, BeginRefused, BusyTimeout, StatementFails,
         FindUser, FindUserFails, InsertMessage, StoreMessage, MessageRefused,
         RecentMessages, file

\* Ids are given out by FindUser only, and given up when the connection goes.
LEMMA GrantsFrame ==
  ASSUME NEW p \in Procs, Step(p), ~FindUser(p), ~Close(p), ~Crash(p)
  PROVE  UNCHANGED <<held, granted>>
  BY DEF Step, CallStep, CallerStep, Fault, CallFails, Open, CreateTable, Opened, SchemaReady,
         OpenFails, GetOrCreateUser, Begin, BeginRefused, BusyTimeout, InsertUser, StatementFails,
         Rollback, Commit, FindUserFails, InsertMessage, StoreMessage, MessageRefused,
         RecentMessages, ghosts

\* The snapshots move with commits and with the SELECT of find_user.
LEMMA SnapshotFrame ==
  ASSUME NEW p \in Procs, Step(p),
         ~FindUser(p), ~FindUserFails(p), ~Commit(p), ~StoreMessage(p), ~Close(p), ~Crash(p)
  PROVE  UNCHANGED <<read, seen>>
  BY DEF Step, CallStep, CallerStep, Fault, CallFails, Open, CreateTable, Opened, SchemaReady,
         OpenFails, GetOrCreateUser, Begin, BeginRefused, BusyTimeout, InsertUser, StatementFails,
         Rollback, InsertMessage, MessageRefused, RecentMessages, snapshot

\* The arguments of a call are set when it is made.
LEMMA ArgsFrame ==
  ASSUME NEW p \in Procs, Step(p), ~GetOrCreateUser(p), ~InsertMessage(p)
  PROVE  UNCHANGED <<asked, sender>>
  BY DEF Step, CallStep, CallerStep, Fault, CallFails, Crash, Open, CreateTable, Opened, SchemaReady,
         OpenFails, Close, Begin, BeginRefused, BusyTimeout, InsertUser, StatementFails,
         Rollback, Commit, FindUser, FindUserFails, StoreMessage, MessageRefused,
         RecentMessages, args

\* A step of p moves p only, and along its call.
LEMMA PcFrame ==
  ASSUME TypeOK, NEW p \in Procs, Step(p)
  PROVE  /\ pc' \in [Procs -> Pcs]
         /\ \A q \in Procs : q # p => pc'[q] = pc[q]
         /\ pc'[p] \notin {"closed", "open", "schema", "idle"} =>
               \/ GetOrCreateUser(p) \/ InsertMessage(p)
               \/ pc[p] \notin {"closed", "open", "schema", "idle"}
  BY DEF TypeOK, Pcs, Goto, Return,
         Step, CallStep, CallerStep, Fault, CallFails, Crash, Open, CreateTable, Opened, SchemaReady,
         OpenFails, Close, GetOrCreateUser, Begin, BeginRefused, BusyTimeout, InsertUser, StatementFails,
         Rollback, Commit, FindUser, FindUserFails, InsertMessage, StoreMessage,
         MessageRefused, RecentMessages

\* Only ns_db_recent_messages delivers a history.
LEMMA ShownFrame ==
  ASSUME NEW p \in Procs, Step(p), ~RecentMessages(p)
  PROVE  shown' = shown
  BY DEF Step, CallStep, CallerStep, Fault, CallFails, Crash, Open, CreateTable, Opened,
         SchemaReady, OpenFails, Close, GetOrCreateUser, Begin, BeginRefused, BusyTimeout,
         InsertUser, StatementFails, Rollback, Commit, FindUser, FindUserFails, InsertMessage,
         StoreMessage, MessageRefused, ghosts

-----------------------------------------------------------------------------
(* Each part of the invariant.                                              *)

\* A call keeps its name until it is over.
LEMMA AskedKept ==
  ASSUME TypeOK, AskedOK, NEW p \in Procs, Step(p)
  PROVE  AskedOK'
<1> SUFFICES ASSUME NEW q \in Procs, pc'[q] \notin {"closed", "open", "schema", "idle"}
             PROVE  asked'[q] \in Names
  BY DEF AskedOK
<1>1. CASE GetOrCreateUser(p)
  BY <1>1 DEF GetOrCreateUser, Goto, TypeOK, AskedOK
<1>2. CASE InsertMessage(p)
  BY <1>2 DEF InsertMessage, Goto, TypeOK, AskedOK, Rows
<1>3. CASE ~GetOrCreateUser(p) /\ ~InsertMessage(p)
  <2>1. asked' = asked
    BY <1>3, ArgsFrame
  <2>2. pc[q] \notin {"closed", "open", "schema", "idle"}
    BY <1>3, PcFrame
  <2> QED BY <2>1, <2>2 DEF AskedOK
<1> QED BY <1>1, <1>2, <1>3

\* The lock is held by the process that is in a transaction, and given back
\* on each of its ways out.
LEMMA LockKept ==
  ASSUME TypeOK, NoTransactionLeftOpen, NEW p \in Procs, Step(p)
  PROVE  NoTransactionLeftOpen'
<1>1. CASE Begin(p) \/ InsertUser(p) \/ Commit(p) \/ Rollback(p) \/ Crash(p)
  <2>1. \A q \in Procs : q # p => pc'[q] = pc[q]
    BY PcFrame
  <2>2. CASE Begin(p)
    <3>1. pc'[p] = "insert" /\ writer = None /\ writer' = p /\ pending' = pending
      BY <2>2 DEF Begin, MayWrite, Goto, TypeOK
    <3> QED BY <2>1, <3>1 DEF InTransaction, NoTransactionLeftOpen
  <2>3. CASE InsertUser(p)
    <3>1. pc[p] = "insert" /\ pc'[p] = "commit" /\ writer' = writer
      BY <2>3 DEF InsertUser, Goto, TypeOK
    <3> QED BY <2>1, <3>1 DEF InTransaction, NoTransactionLeftOpen
  <2>4. CASE Commit(p)
    <3>1. pc[p] = "commit" /\ pc'[p] = "find" /\ writer' = None /\ pending' = {}
      BY <2>4 DEF Commit, Goto, TypeOK
    <3> QED BY <2>1, <3>1 DEF InTransaction, NoTransactionLeftOpen
  <2>5. CASE Rollback(p)
    <3>1. pc[p] = "rollback" /\ pc'[p] = "idle" /\ writer' = None /\ pending' = {}
      BY <2>5 DEF Rollback, Return, Goto, TypeOK
    <3> QED BY <2>1, <3>1 DEF InTransaction, NoTransactionLeftOpen
  <2>6. CASE Crash(p)
    <3>1. pc'[p] = "closed"
      BY <2>6 DEF Crash, Goto, TypeOK
    <3>2. /\ writer' = IF writer = p THEN None ELSE writer
          /\ pending' = IF writer = p THEN {} ELSE pending
      BY <2>6 DEF Crash
    <3> QED BY <2>1, <3>1, <3>2 DEF InTransaction, NoTransactionLeftOpen
  <2> QED BY <1>1, <2>2, <2>3, <2>4, <2>5, <2>6
<1>2. CASE ~(Begin(p) \/ InsertUser(p) \/ Commit(p) \/ Rollback(p) \/ Crash(p))
  <2>1. UNCHANGED <<writer, pending>>
    BY <1>2, WriterFrame
  <2>2. pc'[p] \in InTransaction <=> pc[p] \in InTransaction
    BY <1>2 DEF TypeOK, InTransaction, Goto, Return, Step, CallStep, CallerStep, Fault,
       CallFails, Open, CreateTable, Opened, SchemaReady, OpenFails, Close, GetOrCreateUser,
       BeginRefused, BusyTimeout, StatementFails, FindUser, FindUserFails, InsertMessage,
       StoreMessage, MessageRefused, RecentMessages
  <2>3. \A q \in Procs : pc'[q] \in InTransaction <=> pc[q] \in InTransaction
    BY <2>2, PcFrame
  <2> QED BY <2>1, <2>3 DEF NoTransactionLeftOpen
<1> QED BY <1>1, <1>2

\* Rows stay unique: what Commit adds is new.
LEMMA RowsKept ==
  ASSUME TypeOK, RowsOK, NEW p \in Procs, Step(p)
  PROVE  RowsOK'
<1>1. CASE InsertUser(p)
  BY <1>1 DEF InsertUser, RowsOK, TypeOK, Rows
<1>2. CASE Commit(p)
  <2>1. users' = users \cup pending /\ sequence' = sequence + 1 /\ pending' = {}
    BY <1>2 DEF Commit
  <2>2. \A row \in users' : row.id <= sequence'
    BY <2>1 DEF RowsOK, TypeOK, Rows
  <2>3. \A a, b \in users' : a.name = b.name <=> a.id = b.id
    BY <2>1 DEF RowsOK, TypeOK, Rows
  <2> QED BY <2>1, <2>2, <2>3 DEF RowsOK
<1>3. CASE ~InsertUser(p) /\ ~Commit(p)
  <2>1. UNCHANGED <<users, sequence>>
    BY <1>3, DirectoryFrame
  <2>2. pending' = pending \/ pending' = {}
    <3>1. CASE Begin(p) \/ Rollback(p) \/ Crash(p)
      BY <3>1 DEF Begin, Rollback, Crash
    <3>2. CASE ~(Begin(p) \/ Rollback(p) \/ Crash(p))
      BY <1>3, <3>2, WriterFrame
    <3> QED BY <3>1, <3>2
  <2> QED BY <2>1, <2>2 DEF RowsOK
<1> QED BY <1>1, <1>2, <1>3

\* An id that fits is told as it is.
LEMMA SmallId == ASSUME NEW n \in Nat, n < UINT32 PROVE n % UINT32 = n
  BY SMTT(20)

\* The cast to uint32_t gives a natural number.
LEMMA Truncated == ASSUME NEW n \in Nat PROVE n % UINT32 \in Nat
  BY SMTT(20)

\* Ids that fit are those of rows.
LEMMA GrantsKept ==
  ASSUME TypeOK, RowsOK, GrantsOK, NEW p \in Procs, Step(p)
  PROVE  GrantsOK'
<1>1. CASE FindUser(p)
  <2>1. PICK row \in users :
           /\ row.name = asked[p]
           /\ held' = [held EXCEPT ![p] = @ \cup {[name |-> row.name, id |-> row.id % UINT32]}]
           /\ granted' = granted \cup {[name |-> row.name, id |-> row.id % UINT32]}
    BY <1>1 DEF FindUser
  <2>2. UNCHANGED <<users, sequence>>
    BY <1>1 DEF FindUser, file
  <2>3. \A q \in Procs : held'[q] \subseteq granted'
    BY <2>1 DEF GrantsOK, TypeOK
  <2>4. ASSUME sequence < UINT32 PROVE granted' \subseteq users
    <3>1. row.id \in Nat /\ row.id <= sequence
      BY DEF TypeOK, Rows, RowsOK
    <3>2. row.id < UINT32
      BY <3>1, <2>4 DEF TypeOK
    <3>3. row.id % UINT32 = row.id
      BY <3>1, <3>2, SmallId
    <3>4. [name |-> row.name, id |-> row.id % UINT32] = row
      BY <3>3 DEF TypeOK, Rows
    <3> QED BY <2>1, <2>4, <3>4 DEF GrantsOK
  <2> QED BY <2>2, <2>3, <2>4 DEF GrantsOK
<1>2. CASE Close(p) \/ Crash(p)
  <2>1. granted' = granted /\ held' = [held EXCEPT ![p] = {}]
    BY <1>2 DEF Close, Crash, Fresh, ghosts
  <2>2. UNCHANGED <<users, sequence>>
    BY <1>2 DEF Close, Crash, file
  <2> QED BY <2>1, <2>2 DEF GrantsOK, TypeOK
<1>3. CASE ~FindUser(p) /\ ~Close(p) /\ ~Crash(p)
  <2>1. UNCHANGED <<held, granted>>
    BY <1>3, GrantsFrame
  <2>2. CASE Commit(p)
    BY <2>1, <2>2 DEF Commit, GrantsOK, TypeOK
  <2>3. CASE ~Commit(p)
    BY <2>1, <2>3, DirectoryFrame DEF GrantsOK
  <2> QED BY <2>2, <2>3
<1> QED BY <1>1, <1>2, <1>3

\* What appending does to a sequence.
LEMMA Appended ==
  ASSUME NEW S, NEW s \in Seq(S), NEW e \in S, NEW t, t = Append(s, e)
  PROVE  /\ t \in Seq(S) /\ Len(t) = Len(s) + 1 /\ Len(s) \in Nat
         /\ DOMAIN s = 1..Len(s) /\ DOMAIN t = 1..(Len(s) + 1)
         /\ \A i \in DOMAIN s : t[i] = s[i]
         /\ t[Len(s) + 1] = e
  BY AppendProperties, LenProperties

\* A message is stored under the row of the id its process was given.
LEMMA MessagesKept ==
  ASSUME TypeOK, AskedOK, RowsOK, GrantsOK, MessagesOK, NEW p \in Procs, Step(p)
  PROVE  MessagesOK'
<1>1. users \subseteq users' /\ (sequence' < UINT32 => sequence < UINT32)
  <2>1. CASE Commit(p)
    BY <2>1 DEF Commit, TypeOK
  <2>2. CASE ~Commit(p)
    BY <2>2, DirectoryFrame
  <2> QED BY <2>1, <2>2
<1>2. granted \subseteq granted'
  <2>1. CASE FindUser(p)
    BY <2>1 DEF FindUser
  <2>2. CASE Close(p) \/ Crash(p)
    BY <2>2 DEF Close, Crash, ghosts
  <2>3. CASE ~FindUser(p) /\ ~Close(p) /\ ~Crash(p)
    BY <2>3, GrantsFrame
  <2> QED BY <2>1, <2>2, <2>3
<1>3. ASSUME NEW q \in Procs, pc'[q] = "message"
      PROVE  [name |-> asked'[q], id |-> sender'[q]] \in granted'
  <2>1. CASE InsertMessage(p) /\ q = p
    <3>1. PICK given \in held[p] :
             asked' = [asked EXCEPT ![p] = given.name] /\ sender' = [sender EXCEPT ![p] = given.id]
      BY <2>1 DEF InsertMessage
    <3>2. given \in granted /\ given \in Rows
      BY DEF GrantsOK, TypeOK
    <3>3. given = [name |-> given.name, id |-> given.id]
      BY <3>2 DEF Rows
    <3>4. asked'[q] = given.name /\ sender'[q] = given.id
      BY <2>1, <3>1 DEF TypeOK
    <3> QED BY <1>2, <3>2, <3>3, <3>4
  <2>2. CASE ~(InsertMessage(p) /\ q = p)
    <3>1. pc[q] = "message" /\ asked'[q] = asked[q] /\ sender'[q] = sender[q]
      <4>1. CASE q = p
        BY <1>3, <2>2, <4>1 DEF TypeOK, Goto, Return, Step, CallStep, CallerStep, Fault,
           CallFails, Crash, Open, CreateTable, Opened, SchemaReady, OpenFails, Close,
           GetOrCreateUser, Begin, BeginRefused, BusyTimeout, InsertUser, StatementFails,
           Rollback, Commit, FindUser, FindUserFails, StoreMessage, MessageRefused,
           RecentMessages, args
      <4>2. CASE q # p
        <5>1. pc[q] = "message"
          BY <1>3, <4>2, PcFrame
        <5>2. CASE InsertMessage(p) \/ GetOrCreateUser(p)
          BY <4>2, <5>1, <5>2 DEF InsertMessage, GetOrCreateUser, TypeOK
        <5>3. CASE ~(InsertMessage(p) \/ GetOrCreateUser(p))
          BY <5>1, <5>3, ArgsFrame
        <5> QED BY <5>2, <5>3
      <4> QED BY <4>1, <4>2
    <3> QED BY <1>2, <3>1 DEF MessagesOK
  <2> QED BY <2>1, <2>2
<1>4. CASE StoreMessage(p)
  <2> DEFINE m == [sender |-> sender[p], author |-> asked[p], by |-> p]
  <2>1. messages' = Append(messages, m) /\ pc[p] = "message"
    BY <1>4 DEF StoreMessage
  <2>2. PICK row \in users : row.id = sender[p]
    BY <1>4 DEF StoreMessage
  <2>3. [name |-> m.author, id |-> m.sender] \in granted
    BY <2>1 DEF MessagesOK
  <2>4. sequence < UINT32 => [name |-> m.author, id |-> m.sender] \in users
    BY <2>3 DEF GrantsOK
  <2>5. m.sender = row.id
    BY <2>2
  <2>9. m \in [sender : Nat, author : Names, by : Procs]
    BY <2>1 DEF TypeOK, AskedOK
  <2> HIDE DEF m
  <2>6. \A i \in DOMAIN messages' :
           messages'[i] = m \/ (i \in DOMAIN messages /\ messages'[i] = messages[i])
    <3>1. messages \in Seq([sender : Nat, author : Names, by : Procs])
      BY DEF TypeOK
    <3>2. /\ Len(messages) \in Nat /\ DOMAIN messages = 1..Len(messages)
          /\ DOMAIN messages' = 1..(Len(messages) + 1)
          /\ \A i \in DOMAIN messages : messages'[i] = messages[i]
          /\ messages'[Len(messages) + 1] = m
      BY <2>1, <2>9, <3>1, Appended
    <3> QED BY <3>2
  <2>7. \A i \in DOMAIN messages' : \E r \in users' : r.id = messages'[i].sender
    BY <1>1, <2>5, <2>6 DEF MessagesOK
  <2>8. sequence' < UINT32 => \A i \in DOMAIN messages' :
           [name |-> messages'[i].author, id |-> messages'[i].sender] \in users'
    BY <1>1, <2>4, <2>6 DEF MessagesOK
  <2> QED BY <1>3, <2>7, <2>8 DEF MessagesOK
<1>5. CASE ~StoreMessage(p)
  <2>1. messages' = messages
    BY <1>5, MessagesFrame
  <2>2. \A i \in DOMAIN messages' : \E r \in users' : r.id = messages'[i].sender
    BY <1>1, <2>1 DEF MessagesOK
  <2>3. sequence' < UINT32 => \A i \in DOMAIN messages' :
           [name |-> messages'[i].author, id |-> messages'[i].sender] \in users'
    BY <1>1, <2>1 DEF MessagesOK
  <2> QED BY <1>3, <2>2, <2>3 DEF MessagesOK
<1> QED BY <1>4, <1>5

\* A snapshot moves on with the process's own commits.
LEMMA SnapshotsKept ==
  ASSUME TypeOK, AskedOK, SnapshotsOK, NEW p \in Procs, Step(p)
  PROVE  SnapshotsOK'
<1>1. CASE FindUser(p)
  BY <1>1, SMTT(40) DEF FindUser, SnapshotsOK, TypeOK, file
<1>2. CASE FindUserFails(p)
  BY <1>2 DEF FindUserFails, SnapshotsOK, TypeOK, file
<1>3. CASE Close(p) \/ Crash(p)
  <2>1. messages' = messages
    BY <1>3 DEF Close, Crash, file
  <2>2. read' = [read EXCEPT ![p] = "none"] /\ seen' = [seen EXCEPT ![p] = 0]
    BY <1>3 DEF Close, Crash, Fresh
  <2>3. Len(messages) \in Nat
    BY LenProperties DEF TypeOK
  <2> QED BY <2>1, <2>2, <2>3 DEF SnapshotsOK, TypeOK
<1>4. CASE Commit(p)
  BY <1>4 DEF Commit, MoveSnapshots, SnapshotsOK, TypeOK
<1>5. CASE StoreMessage(p)
  <2>1. /\ messages' = Append(messages, [sender |-> sender[p], author |-> asked[p], by |-> p])
        /\ read' = [q \in Procs |-> IF read[q] = "none" THEN "none"
                                    ELSE IF q = p THEN "fresh" ELSE "stale"]
        /\ seen' = IF read[p] = "none" THEN seen ELSE [seen EXCEPT ![p] = Len(messages) + 1]
    BY <1>5 DEF StoreMessage, MoveSnapshots
  <2> DEFINE m == [sender |-> sender[p], author |-> asked[p], by |-> p]
  <2>5. m \in [sender : Nat, author : Names, by : Procs] /\ m.by = p
    BY <1>5 DEF StoreMessage, TypeOK, AskedOK
  <2>6. messages' = Append(messages, m)
    BY <2>1
  <2> HIDE DEF m
  <2>2. /\ Len(messages) \in Nat /\ Len(messages') = Len(messages) + 1
        /\ DOMAIN messages = 1..Len(messages) /\ DOMAIN messages' = 1..(Len(messages) + 1)
        /\ \A i \in DOMAIN messages : messages'[i] = messages[i]
        /\ messages'[Len(messages) + 1] = m
    <3>1. messages \in Seq([sender : Nat, author : Names, by : Procs])
      BY DEF TypeOK
    <3> QED BY <2>5, <2>6, <3>1, Appended
  <2>3. \A q \in Procs : seen'[q] <= Len(messages')
    BY <2>1, <2>2 DEF TypeOK, SnapshotsOK
  <2>4. ASSUME NEW q \in Procs, read'[q] # "none", NEW i \in DOMAIN messages',
               messages'[i].by = q
        PROVE  i <= seen'[q]
    <3>1. i \in 1..(Len(messages) + 1)
      BY <2>2
    <3>2. read[q] # "none"
      BY <2>1, <2>4
    <3>3. CASE q = p
      <4>1. seen'[q] = Len(messages) + 1
        BY <2>1, <3>2, <3>3 DEF TypeOK
      <4> QED BY <2>2, <3>1, <4>1
    <3>4. CASE q # p
      <4>1. seen'[q] = seen[q]
        BY <2>1, <3>4 DEF TypeOK
      <4>2. i # Len(messages) + 1
        BY <2>2, <2>4, <2>5, <3>4
      <4>3. i \in DOMAIN messages /\ messages'[i] = messages[i]
        BY <2>2, <3>1, <4>2
      <4> QED BY <2>4, <3>2, <4>1, <4>3 DEF SnapshotsOK
    <3> QED BY <3>3, <3>4
  <2> QED BY <2>3, <2>4 DEF SnapshotsOK
<1>6. CASE ~FindUser(p) /\ ~FindUserFails(p) /\ ~Commit(p) /\ ~StoreMessage(p) /\ ~Close(p)
           /\ ~Crash(p)
  <2>1. UNCHANGED <<read, seen>>
    BY <1>6, SnapshotFrame
  <2>2. messages' = messages
    BY <1>6, MessagesFrame
  <2> QED BY <2>1, <2>2 DEF SnapshotsOK
<1> QED BY <1>1, <1>2, <1>3, <1>4, <1>5, <1>6

-----------------------------------------------------------------------------
(* Types.                                                                   *)

\* The rows and who may write.
LEMMA FileTyped ==
  ASSUME TypeOK, AskedOK, NEW p \in Procs, Step(p)
  PROVE  /\ users' \subseteq Rows /\ sequence' \in Nat /\ pending' \subseteq Rows
         /\ writer' \in Procs \cup {None}
<1>1. CASE InsertUser(p)
  <2>1. [name |-> asked[p], id |-> sequence + 1] \in Rows
    <3>1. pc[p] = "insert"
      BY <1>1 DEF InsertUser
    <3>2. asked[p] \in Names
      BY <3>1 DEF AskedOK
    <3> QED BY <3>2 DEF TypeOK, Rows
  <2>2. pending' = {} \/ pending' = {[name |-> asked[p], id |-> sequence + 1]}
    BY <1>1 DEF InsertUser
  <2>3. UNCHANGED <<users, sequence, writer>>
    BY <1>1 DEF InsertUser
  <2> QED BY <2>1, <2>2, <2>3 DEF TypeOK
<1>2. CASE Commit(p)
  BY <1>2 DEF Commit, TypeOK
<1>3. CASE ~InsertUser(p) /\ ~Commit(p)
  <2>1. UNCHANGED <<users, sequence>>
    BY <1>3, DirectoryFrame
  <2>2. CASE Begin(p) \/ Rollback(p) \/ Crash(p)
    BY <2>1, <2>2 DEF Begin, Rollback, Crash, TypeOK
  <2>3. CASE ~(Begin(p) \/ Rollback(p) \/ Crash(p))
    BY <1>3, <2>1, <2>3, WriterFrame DEF TypeOK
  <2> QED BY <2>2, <2>3
<1> QED BY <1>1, <1>2, <1>3

\* The three statements of the schema are run once.
LEMMA SchemaTyped ==
  ASSUME TypeOK, NEW p \in Procs, Step(p)
  PROVE  schema' \in 0..3
<1>1. CASE CreateTable(p)
  BY <1>1 DEF CreateTable, TypeOK
<1>2. CASE ~CreateTable(p)
  <2>1. schema' = schema
    BY <1>2 DEF Step, CallStep, CallerStep, Fault, CallFails, Crash, Open, Opened, SchemaReady,
       OpenFails, Close, GetOrCreateUser, Begin, BeginRefused, BusyTimeout, InsertUser,
       StatementFails, Rollback, Commit, FindUser, FindUserFails, InsertMessage, StoreMessage,
       MessageRefused, RecentMessages, file
  <2> QED BY <2>1 DEF TypeOK
<1> QED BY <1>1, <1>2

\* The messages: StoreMessage appends a message of the right type.
LEMMA MessagesTyped ==
  ASSUME TypeOK, AskedOK, NEW p \in Procs, Step(p)
  PROVE  messages' \in Seq([sender : Nat, author : Names, by : Procs])
<1>1. CASE StoreMessage(p)
  <2>1. pc[p] = "message"
        /\ messages' = Append(messages, [sender |-> sender[p], author |-> asked[p], by |-> p])
    BY <1>1 DEF StoreMessage
  <2>2. [sender |-> sender[p], author |-> asked[p], by |-> p]
            \in [sender : Nat, author : Names, by : Procs]
    BY <2>1 DEF TypeOK, AskedOK
  <2>3. messages \in Seq([sender : Nat, author : Names, by : Procs])
    BY DEF TypeOK
  <2> QED BY <2>1, <2>2, <2>3, Appended
<1>2. CASE ~StoreMessage(p)
  BY <1>2, MessagesFrame DEF TypeOK
<1> QED BY <1>1, <1>2

\* The arguments of the calls.
LEMMA ArgsTyped ==
  ASSUME TypeOK, NEW p \in Procs, Step(p)
  PROVE  asked' \in [Procs -> Names \cup {None}] /\ sender' \in [Procs -> Nat]
<1>1. CASE GetOrCreateUser(p)
  BY <1>1 DEF GetOrCreateUser, TypeOK
<1>2. CASE InsertMessage(p)
  <2>1. PICK given \in held[p] :
           asked' = [asked EXCEPT ![p] = given.name] /\ sender' = [sender EXCEPT ![p] = given.id]
    BY <1>2 DEF InsertMessage
  <2>2. given.name \in Names /\ given.id \in Nat
    BY DEF TypeOK, Rows
  <2> QED BY <2>1, <2>2 DEF TypeOK
<1>3. CASE ~GetOrCreateUser(p) /\ ~InsertMessage(p)
  BY <1>3, ArgsFrame DEF TypeOK
<1> QED BY <1>1, <1>2, <1>3

\* The wait of the busy handler is on or off.
LEMMA WaitedTyped ==
  ASSUME TypeOK, NEW p \in Procs, Step(p)
  PROVE  waited' \in [Procs -> BOOLEAN]
<1>1. waited' = waited \/ waited' = [waited EXCEPT ![p] = FALSE]
      \/ waited' = [waited EXCEPT ![p] = TRUE]
  BY DEF Step, CallStep, CallerStep, Fault, CallFails, Crash, Open, CreateTable, Opened,
     SchemaReady, OpenFails, Close, GetOrCreateUser, Begin, BeginRefused, BusyTimeout, InsertUser,
     StatementFails, Rollback, Commit, FindUser, FindUserFails, InsertMessage, StoreMessage,
     MessageRefused, RecentMessages, Fresh, Return
<1> QED BY <1>1 DEF TypeOK

\* The read transactions.
LEMMA SnapshotTyped ==
  ASSUME TypeOK, NEW p \in Procs, Step(p)
  PROVE  read' \in [Procs -> {"none", "fresh", "stale"}] /\ seen' \in [Procs -> Nat]
<1>0. Len(messages) \in Nat
  BY LenProperties DEF TypeOK
<1>1. CASE FindUser(p)
  BY <1>0, <1>1 DEF FindUser, TypeOK
<1>2. CASE FindUserFails(p)
  BY <1>2 DEF FindUserFails, TypeOK
<1>3. CASE Close(p) \/ Crash(p)
  <2>1. read' = [read EXCEPT ![p] = "none"] /\ seen' = [seen EXCEPT ![p] = 0]
    BY <1>3 DEF Close, Crash, Fresh
  <2> QED BY <2>1 DEF TypeOK
<1>4. CASE Commit(p) \/ StoreMessage(p)
  <2>1. /\ read' = [q \in Procs |-> IF read[q] = "none" THEN "none"
                                    ELSE IF q = p THEN "fresh" ELSE "stale"]
        /\ \E n \in Nat : seen' = IF read[p] = "none" THEN seen ELSE [seen EXCEPT ![p] = n]
    <3>1. CASE Commit(p)
      BY <1>0, <3>1 DEF Commit, MoveSnapshots
    <3>2. CASE StoreMessage(p)
      <4>1. Len(messages) + 1 \in Nat
        BY <1>0
      <4> QED BY <3>2, <4>1 DEF StoreMessage, MoveSnapshots
    <3> QED BY <1>4, <3>1, <3>2
  <2> QED BY <2>1 DEF TypeOK
<1>5. CASE ~FindUser(p) /\ ~FindUserFails(p) /\ ~Commit(p) /\ ~StoreMessage(p) /\ ~Close(p)
           /\ ~Crash(p)
  BY <1>5, SnapshotFrame DEF TypeOK
<1> QED BY <1>1, <1>2, <1>3, <1>4, <1>5

\* What processes were told.
LEMMA GrantsTyped ==
  ASSUME TypeOK, NEW p \in Procs, Step(p)
  PROVE  held' \in [Procs -> SUBSET Rows] /\ granted' \subseteq Rows
<1>1. CASE FindUser(p)
  <2>1. PICK row \in users :
           /\ held' = [held EXCEPT ![p] = @ \cup {[name |-> row.name, id |-> row.id % UINT32]}]
           /\ granted' = granted \cup {[name |-> row.name, id |-> row.id % UINT32]}
    BY <1>1 DEF FindUser
  <2>2. row.name \in Names /\ row.id \in Nat
    BY DEF TypeOK, Rows
  <2>3. row.id % UINT32 \in Nat
    BY <2>2, Truncated
  <2>4. [name |-> row.name, id |-> row.id % UINT32] \in Rows
    BY <2>2, <2>3 DEF Rows
  <2> QED BY <2>1, <2>4 DEF TypeOK
<1>2. CASE Close(p) \/ Crash(p)
  BY <1>2 DEF Close, Crash, Fresh, ghosts, TypeOK
<1>3. CASE ~FindUser(p) /\ ~Close(p) /\ ~Crash(p)
  BY <1>3, GrantsFrame DEF TypeOK
<1> QED BY <1>1, <1>2, <1>3

-----------------------------------------------------------------------------
(* Histories.                                                               *)

\* What ns_db_recent_messages can see is a beginning of the table.
LEMMA VisibleBounds ==
  ASSUME TypeOK, SnapshotsOK, NEW p \in Procs
  PROVE  Visible(p) \in Nat /\ Visible(p) <= Len(messages)
  BY LenProperties DEF Visible, TypeOK, SnapshotsOK

\* What it delivers: count rows, at most the limit, up to the newest visible.
LEMMA RecentDelivers ==
  ASSUME TypeOK, SnapshotsOK, NEW p \in Procs, RecentMessages(p)
  PROVE  \E limit \in Limits, count \in Nat :
            /\ count <= Visible(p) /\ count <= Clamp(limit)
            /\ shown' = [by |-> p, limit |-> limit, rows |-> Deliver(Visible(p), count), rc |-> 0]
<1>1. PICK limit \in Limits, count \in 0..MaxMessages :
         LET due == IF Clamp(limit) < Visible(p) THEN Clamp(limit) ELSE Visible(p)
         IN  /\ count = due \/ (Faulty /\ count < due)
             /\ shown' = [by |-> p, limit |-> limit, rows |-> Deliver(Visible(p), count), rc |-> 0]
  BY DEF RecentMessages
<1>2. Clamp(limit) \in Nat
  BY DEF Clamp
<1>3. Visible(p) \in Nat
  BY VisibleBounds
<1>4. count \in Nat /\ count <= Visible(p) /\ count <= Clamp(limit)
  BY <1>1, <1>2, <1>3
<1> QED BY <1>1, <1>4

\* A sender's row has a name.
LEMMA NameTyped ==
  ASSUME TypeOK, MessagesOK, NEW i \in DOMAIN messages
  PROVE  NameOf(messages[i].sender) \in Names
<1>1. \E row \in users : row.id = messages[i].sender
  BY DEF MessagesOK
<1>2. \A row \in users : row.name \in Names
  BY DEF TypeOK, Rows
<1> QED BY <1>1, <1>2 DEF NameOf

\* The rows delivered are numbered and named.
LEMMA DeliverTyped ==
  ASSUME TypeOK, MessagesOK, SnapshotsOK, NEW p \in Procs, NEW count \in Nat, count <= Visible(p)
  PROVE  Deliver(Visible(p), count) \in Seq([id : Nat, username : Names])
<1>1. Visible(p) \in Nat /\ Visible(p) <= Len(messages)
  BY VisibleBounds
<1>2. ASSUME NEW i \in 1..count
      PROVE  Row(Visible(p) - count + i) \in [id : Nat, username : Names]
  <2>1. Len(messages) \in Nat /\ DOMAIN messages = 1..Len(messages)
    BY LenProperties DEF TypeOK
  <2>2. Visible(p) - count + i \in DOMAIN messages /\ Visible(p) - count + i \in Nat
    BY <1>1, <2>1
  <2>3. NameOf(messages[Visible(p) - count + i].sender) \in Names
    BY <2>2, NameTyped
  <2> QED BY <2>2, <2>3 DEF Row
<1> DEFINE rows == [i \in 1..count |-> Row(Visible(p) - count + i)]
<1>3. rows \in [1..count -> [id : Nat, username : Names]]
  BY <1>2
<1> QED BY <1>3 DEF Deliver

\* Only ns_db_recent_messages delivers.
LEMMA ShownTyped ==
  ASSUME TypeOK, MessagesOK, SnapshotsOK, NEW p \in Procs, Step(p)
  PROVE  /\ shown'.by \in Procs \cup {None} /\ shown'.limit \in Int /\ shown'.rc \in {-1, 0}
         /\ shown'.rows \in Seq([id : Nat, username : Names])
<1>1. CASE RecentMessages(p)
  <2>1. PICK limit \in Limits, count \in Nat :
            /\ count <= Visible(p)
            /\ shown' = [by |-> p, limit |-> limit, rows |-> Deliver(Visible(p), count), rc |-> 0]
    BY <1>1, RecentDelivers
  <2>2. shown'.by = p /\ shown'.limit = limit /\ shown'.rc = 0
        /\ shown'.rows = Deliver(Visible(p), count)
    BY <2>1
  <2> QED BY <2>1, <2>2, DeliverTyped
<1>2. CASE ~RecentMessages(p)
  BY <1>2, ShownFrame DEF TypeOK
<1> QED BY <1>1, <1>2

\* Every step keeps the types.
LEMMA TypeKept ==
  ASSUME TypeOK, AskedOK, MessagesOK, SnapshotsOK, NEW p \in Procs, Step(p)
  PROVE  TypeOK'
<1>1. pc' \in [Procs -> Pcs]
  BY PcFrame
<1> QED BY <1>1, FileTyped, SchemaTyped, MessagesTyped, ArgsTyped, WaitedTyped, SnapshotTyped,
           GrantsTyped, ShownTyped DEF TypeOK

-----------------------------------------------------------------------------
(* The invariant.                                                           *)

\* Before either process opens the file the invariant holds.
LEMMA InitSound == Init => Sound
<1> SUFFICES ASSUME Init PROVE Sound
  OBVIOUS
<1> USE DEF Init
<1>1. messages = <<>> /\ Len(messages) = 0 /\ DOMAIN messages = {}
  OBVIOUS
<1>2. TypeOK
  BY <1>1 DEF TypeOK, Pcs
<1>3. AskedOK /\ NoTransactionLeftOpen
  BY DEF AskedOK, NoTransactionLeftOpen, InTransaction
<1>4. RowsOK /\ GrantsOK
  BY DEF RowsOK, GrantsOK
<1>5. MessagesOK /\ SnapshotsOK
  BY <1>1 DEF MessagesOK, SnapshotsOK
<1> QED BY <1>2, <1>3, <1>4, <1>5 DEF Sound

\* Every step, fault or crash keeps the invariant.
LEMMA StepSound == Sound /\ [Next]_vars => Sound'
<1> SUFFICES ASSUME Sound, [Next]_vars PROVE Sound'
  OBVIOUS
<1>1. CASE Next
  <2>1. PICK p \in Procs : Step(p)
    BY <1>1 DEF Next, Step
  <2>2. TypeOK' /\ AskedOK' /\ NoTransactionLeftOpen'
    BY <2>1, TypeKept, AskedKept, LockKept DEF Sound
  <2>3. RowsOK' /\ GrantsOK'
    BY <2>1, RowsKept, GrantsKept DEF Sound
  <2>4. MessagesOK' /\ SnapshotsOK'
    BY <2>1, MessagesKept, SnapshotsKept DEF Sound
  <2> QED BY <2>2, <2>3, <2>4 DEF Sound
<1>2. CASE UNCHANGED vars
  <2>1. /\ UNCHANGED <<schema, users, sequence, messages, writer, pending>>
        /\ UNCHANGED <<pc, asked, sender, waited, read, seen, held, granted, shown>>
    BY <1>2 DEF vars, file, args, snapshot, ghosts
  <2>2. TypeOK' /\ AskedOK' /\ NoTransactionLeftOpen'
    BY <2>1 DEF Sound, TypeOK, AskedOK, NoTransactionLeftOpen
  <2>3. RowsOK' /\ GrantsOK'
    BY <2>1 DEF Sound, RowsOK, GrantsOK
  <2>4. MessagesOK' /\ SnapshotsOK'
    BY <2>1 DEF Sound, MessagesOK, SnapshotsOK
  <2> QED BY <2>2, <2>3, <2>4 DEF Sound
<1> QED BY <1>1, <1>2

\* Every reachable state satisfies the invariant.
LEMMA Soundness == Spec => []Sound
  BY InitSound, StepSound, PTL DEF Spec

-----------------------------------------------------------------------------
(* The theorems.                                                            *)

\* Every variable keeps its type, whatever processes do, fail or crash: the
\* rows a history delivers have a number and a name of somebody.
THEOREM TypeCorrect == Spec => []TypeOK
<1>1. Sound => TypeOK
  BY DEF Sound
<1> QED BY <1>1, Soundness, PTL

\* Every way out of ns_db_get_or_create_user ends its transaction, so a process
\* between calls never keeps the file locked for the others.
THEOREM LockReleased == Spec => []NoTransactionLeftOpen
<1>1. Sound => NoTransactionLeftOpen
  BY DEF Sound
<1> QED BY <1>1, Soundness, PTL

\* ns_db_get_or_create_user tells any number of processes one id for one name,
\* and never one id for two names, for as long as ids fit in 32 bits.
THEOREM IdsUnique == Spec => []OneIdPerName
<1>1. Sound => OneIdPerName
  BY DEF Sound, OneIdPerName, GrantsOK, RowsOK
<1> QED BY <1>1, Soundness, PTL

\* ns_db_insert_message stores a message under the user who sent it: the row
\* its id refers to has the name the id was given for.
THEOREM AuthorsRight == Spec => []RightAuthor
<1>1. ASSUME Sound PROVE RightAuthor
  <2> SUFFICES ASSUME sequence < UINT32, NEW i \in DOMAIN messages
               PROVE  NameOf(messages[i].sender) = messages[i].author
    BY DEF RightAuthor
  <2>1. [name |-> messages[i].author, id |-> messages[i].sender] \in users
    BY <1>1 DEF Sound, MessagesOK
  <2>2. \A a, b \in users : a.name = b.name <=> a.id = b.id
    BY <1>1 DEF Sound, RowsOK
  <2>3. \A row \in users : row.id = messages[i].sender => row.name = messages[i].author
    BY <2>1, <2>2
  <2>4. \E row \in users : row.id = messages[i].sender
    BY <2>1
  <2> QED BY <2>3, <2>4 DEF NameOf
<1> QED BY <1>1, Soundness, PTL

\* A step delivers what HistoryInOrder says.
LEMMA HistoryStep ==
  ASSUME Sound, Next, shown' # shown
  PROVE  LET rows == shown'.rows
         IN  /\ Len(rows) <= Clamp(shown'.limit)
             /\ \A i \in DOMAIN rows : rows[i].id = rows[1].id + i - 1
             /\ rows # <<>> =>
                   \A m \in DOMAIN messages :
                       messages[m].by = shown'.by => m <= rows[Len(rows)].id
<1>1. PICK p \in Procs : Step(p)
  BY DEF Next, Step
<1>2. RecentMessages(p)
  BY <1>1, ShownFrame
<1>3. PICK limit \in Limits, count \in Nat :
         /\ count <= Visible(p) /\ count <= Clamp(limit)
         /\ shown' = [by |-> p, limit |-> limit, rows |-> Deliver(Visible(p), count), rc |-> 0]
  BY <1>2, RecentDelivers DEF Sound
<1> DEFINE last == Visible(p)
           rows == Deliver(last, count)
<1>4. last \in Nat /\ last <= Len(messages)
  BY VisibleBounds DEF Sound
<1>5. shown'.by = p /\ shown'.limit = limit /\ shown'.rows = rows
  BY <1>3
<1>6. Len(rows) = count /\ DOMAIN rows = 1..count
  BY DEF Deliver
<1>7. \A i \in 1..count : rows[i].id = last - count + i
  BY DEF Deliver, Row
<1> HIDE DEF rows
<1>8. \A i \in DOMAIN rows : rows[i].id = rows[1].id + i - 1
  <2> SUFFICES ASSUME NEW i \in 1..count PROVE rows[i].id = rows[1].id + i - 1
    BY <1>6
  <2>1. 1 \in 1..count
    OBVIOUS
  <2> QED BY <1>4, <1>7, <2>1
<1>9. ASSUME rows # <<>>, NEW m \in DOMAIN messages, messages[m].by = p
      PROVE  m <= rows[Len(rows)].id
  <2>1. count # 0
    BY <1>6, <1>9 DEF Deliver, rows
  <2>2. rows[Len(rows)].id = last
    BY <1>4, <1>6, <1>7, <2>1
  <2>3. m \in 1..Len(messages)
    BY LenProperties DEF Sound, TypeOK
  <2>4. m <= last
    BY <1>9, <2>3 DEF Visible, Sound, SnapshotsOK
  <2> QED BY <2>2, <2>4
<1>10. Len(rows) <= Clamp(shown'.limit)
  BY <1>3, <1>5, <1>6
<1> QED BY <1>5, <1>8, <1>9, <1>10

\* ns_db_recent_messages delivers a gapless run of rows, oldest first, within
\* the clamped limit, with the caller's own messages in it although its
\* read transaction of an earlier call may still be open.
THEOREM HistoryOrdered == Spec => HistoryInOrder
<1>1. ASSUME Sound, [Next]_vars
      PROVE  [shown' # shown =>
                LET rows == shown'.rows
                IN  /\ Len(rows) <= Clamp(shown'.limit)
                    /\ \A i \in DOMAIN rows : rows[i].id = rows[1].id + i - 1
                    /\ rows # <<>> =>
                          \A m \in DOMAIN messages :
                              messages[m].by = shown'.by => m <= rows[Len(rows)].id]_vars
  BY <1>1, HistoryStep DEF vars, ghosts
<1> QED BY <1>1, Soundness, PTL DEF Spec, HistoryInOrder

-----------------------------------------------------------------------------
(* The users table implements UserDirectory while ids fit.                  *)

\* An empty users table is an empty directory.
LEMMA DirectoryInit == Init => Directory!Init
  BY DEF Init, Directory!Init

\* A step enters one new name in the directory, or leaves it alone, as long
\* as the ids fit in 32 bits.
LEMMA DirectoryStep ==
  ASSUME Sound, sequence < UINT32, [Next]_vars
  PROVE  [Directory!Next]_<<users, granted>>
<1>1. CASE UNCHANGED vars
  BY <1>1 DEF vars, file, ghosts
<1>2. CASE Next
  <2>1. PICK p \in Procs : Step(p)
    BY <1>2 DEF Next, Step
  <2>2. CASE Commit(p)
    <3>1. users' = users \cup pending /\ granted' = granted
      BY <2>2 DEF Commit, ghosts
    <3>2. CASE pending \subseteq users
      BY <3>1, <3>2
    <3>3. CASE ~(pending \subseteq users)
      <4>1. PICK row \in pending : row \notin users
        BY <3>3
      <4>2. users' = users \cup {row}
        BY <3>1, <4>1 DEF Sound, RowsOK
      <4>3. row.name \in Names /\ row.id \in Nat
        BY <4>1 DEF Sound, TypeOK, Rows
      <4>4. \A other \in users : other.name # row.name /\ other.id # row.id
        BY <4>1 DEF Sound, RowsOK, TypeOK, Rows
      <4>5. row \in users' \ users
        BY <4>1, <4>2
      <4> QED BY <3>1, <4>2, <4>3, <4>4, <4>5 DEF Directory!Next, Directory!Register
    <3> QED BY <3>2, <3>3
  <2>3. CASE FindUser(p)
    <3>1. users' = users
      BY <2>3 DEF FindUser, file
    <3>2. PICK row \in users :
             granted' = granted \cup {[name |-> row.name, id |-> row.id % UINT32]}
      BY <2>3 DEF FindUser
    <3>3. row.id \in Nat /\ row.id < UINT32
      BY DEF Sound, TypeOK, RowsOK, Rows
    <3>4. [name |-> row.name, id |-> row.id % UINT32] = row
      BY <3>3, SmallId DEF Sound, TypeOK, Rows
    <3> QED BY <3>1, <3>2, <3>4 DEF Directory!Next, Directory!Grant
  <2>4. CASE ~Commit(p) /\ ~FindUser(p)
    <3>1. users' = users
      BY <2>1, <2>4, DirectoryFrame
    <3>2. granted' = granted
      <4>1. CASE Close(p) \/ Crash(p)
        BY <4>1 DEF Close, Crash, ghosts
      <4>2. CASE ~Close(p) /\ ~Crash(p)
        BY <2>1, <2>4, <4>2, GrantsFrame
      <4> QED BY <4>1, <4>2
    <3> QED BY <3>1, <3>2
  <2> QED BY <2>2, <2>3, <2>4
<1> QED BY <1>1, <1>2

\* The users table is a UserDirectory: names get numbers once, nobody shares
\* one, and only what is in the table is ever told, as long as ids fit in the
\* 32 bits that db.c returns.
THEOREM DirectoryImplemented == Spec /\ [](sequence < UINT32) => DirectorySpec
  BY DirectoryInit, DirectoryStep, Soundness, PTL DEF Spec, DirectorySpec, Directory!Spec
=============================================================================

------------------------------ MODULE Database ------------------------------
(***************************************************************************)
(* The persistence layer, database/db.c: processes that each hold one      *)
(* connection to the same SQLite file.  A process is a server, or anything *)
(* else that links db.c; it makes one call at a time.                      *)
(*                                                                         *)
(* SQLite itself is outside src/.  What is used of it, in WAL mode:        *)
(*   - one write transaction at a time; writer is who has it;              *)
(*   - stmt_find_user, left on its row, keeps a read transaction open from *)
(*     one call to the next.  Its snapshot moves on with the connection's  *)
(*     own commits and turns stale with those of others;                   *)
(*   - a write by a connection with a stale snapshot is refused at once, a *)
(*     write that finds the file locked is refused at once if a read is    *)
(*     open and after busy_timeout otherwise;                              *)
(*   - AUTOINCREMENT counts an INSERT OR IGNORE that was ignored as well;  *)
(*   - what is not committed is gone after a crash.                        *)
(*                                                                         *)
(* NULL arguments, which return -1 before anything is done, and the times  *)
(* in the rows are left out.                                               *)
(***************************************************************************)
EXTENDS Integers, Sequences, FiniteSets

CONSTANTS
    Procs,          \* processes with a connection
    Names,          \* usernames
    Limits,         \* values of limit in calls of ns_db_recent_messages
    HISTORY_MAX,    \* 500 in the code
    UINT32,         \* 2^32 in the code: what the cast of a row's id keeps
    MaxSequence,    \* bound on the ids given out
    MaxMessages,    \* bound on the messages stored
    Faulty          \* whether a statement may fail: disk full, I/O error, no memory

ASSUME DatabaseAssumption ==
    /\ Limits \subseteq Int
    /\ HISTORY_MAX \in Nat \ {0}
    /\ UINT32 \in Nat \ {0}
    /\ MaxSequence \in Nat
    /\ MaxMessages \in Nat
    /\ Faulty \in BOOLEAN

None == "none"
ASSUME NoneAssumption == None \notin Procs

VARIABLES
    \* the file
    schema,     \* how many of the three statements of NS_SCHEMA_SQL have been committed
    users,      \* rows of users
    sequence,   \* the largest id AUTOINCREMENT has given out
    messages,   \* rows of messages; the id is the position
    writer,     \* who is in a write transaction
    pending,    \* the users it has inserted and not committed
    \* each process
    pc,         \* where it is in a call; "idle" between calls
    asked,      \* the name it was called with
    sender,     \* the id it was called with, in ns_db_insert_message
    waited,     \* busy_timeout has passed in this statement
    read,       \* the read transaction of stmt_find_user: "none", "fresh", "stale"
    seen,       \* messages in its snapshot
    held,       \* the ids it was given, with the names it gave
    \* for the properties
    granted,    \* all ids ever given, with their names
    shown       \* the last history delivered

file == <<schema, users, sequence, messages, writer, pending>>
snapshot == <<read, seen>>
args == <<asked, sender>>
ghosts == <<granted, shown>>
vars == <<file, pc, args, waited, snapshot, held, ghosts>>

Rows == [name : Names, id : Nat]

\* An opened connection, or one that is gone.
Fresh(p) ==
    /\ waited' = [waited EXCEPT ![p] = FALSE]
    /\ read' = [read EXCEPT ![p] = "none"]
    /\ seen' = [seen EXCEPT ![p] = 0]
    /\ held' = [held EXCEPT ![p] = {}]

Init ==
    /\ schema = 0 /\ users = {} /\ sequence = 0 /\ messages = <<>>
    /\ writer = None /\ pending = {}
    /\ pc = [p \in Procs |-> "closed"]
    /\ asked = [p \in Procs |-> None]
    /\ sender = [p \in Procs |-> 0]
    /\ waited = [p \in Procs |-> FALSE]
    /\ read = [p \in Procs |-> "none"]
    /\ seen = [p \in Procs |-> 0]
    /\ held = [p \in Procs |-> {}]
    /\ granted = {}
    /\ shown = [by |-> None, limit |-> 0, rows |-> <<>>, rc |-> 0]

-----------------------------------------------------------------------------
\* SQLite.

Goto(p, where) == pc' = [pc EXCEPT ![p] = where]

\* A call ends; so does the waiting of its statements.
Return(p) == Goto(p, "idle") /\ waited' = [waited EXCEPT ![p] = FALSE]

\* A write statement of p may start.
MayWrite(p) == writer = None /\ read[p] # "stale"

\* The read transactions after a commit of p that leaves n messages.
MoveSnapshots(p, n) ==
    /\ read' = [q \in Procs |-> IF read[q] = "none" THEN "none"
                                ELSE IF q = p THEN "fresh" ELSE "stale"]
    /\ seen' = IF read[p] = "none" THEN seen ELSE [seen EXCEPT ![p] = n]

\* A write statement of p is refused: SQLITE_BUSY_SNAPSHOT, or SQLITE_BUSY with
\* or without the wait.
Busy(p) ==
    \/ read[p] = "stale"
    \/ writer # None /\ (read[p] # "none" \/ waited[p])

\* A mistake to be caught: a busy handler that never gives up.
BusyTimeoutNever(p) == FALSE /\ UNCHANGED vars

\* sqlite3_busy_timeout(handle, 5000): the busy handler gives up.
BusyTimeout(p) ==
    /\ pc[p] \in {"begin", "message"}
    /\ writer # None /\ read[p] = "none" /\ ~waited[p]
    /\ waited' = [waited EXCEPT ![p] = TRUE]
    /\ UNCHANGED <<file, pc, args, snapshot, held, ghosts>>

-----------------------------------------------------------------------------
\* Opening and closing.

\* ns_db_open up to the DDL
Open(p) ==
    /\ pc[p] = "closed"
    /\ Goto(p, "open")
    /\ UNCHANGED <<file, args, waited, snapshot, held, ghosts>>

\* A mistake to be caught: a table that is there already is an error.
CreateTableExisting(p) ==
    /\ pc[p] \in {"open", "schema"}
    /\ schema' = schema + 1
    /\ UNCHANGED <<users, sequence, messages, writer, pending, pc, args, waited, snapshot,
                   held, ghosts>>

\* A statement of NS_SCHEMA_SQL that finds its table missing
CreateTable(p) ==
    /\ pc[p] \in {"open", "schema"}
    /\ schema < 3
    /\ schema' = schema + 1
    /\ UNCHANGED <<users, sequence, messages, writer, pending, pc, args, waited, snapshot,
                   held, ghosts>>

\* All of it has been run and the four statements compile: ns_db_open returns
\* 0, and ns_server_run calls ns_db_init_schema.
Opened(p) ==
    /\ pc[p] = "open" /\ schema = 3
    /\ Goto(p, "schema")
    /\ UNCHANGED <<file, args, waited, snapshot, held, ghosts>>

\* ns_db_init_schema returns 0.
SchemaReady(p) ==
    /\ pc[p] = "schema" /\ schema = 3
    /\ Goto(p, "idle")
    /\ UNCHANGED <<file, args, waited, snapshot, held, ghosts>>

\* Either of them fails, and ns_db_close is called.
OpenFails(p) ==
    /\ pc[p] \in {"open", "schema"} /\ Faulty
    /\ Goto(p, "closed")
    /\ UNCHANGED <<file, args, waited, snapshot, held, ghosts>>

\* ns_db_close
Close(p) ==
    /\ pc[p] = "idle"
    /\ Goto(p, "closed")
    /\ Fresh(p)
    /\ UNCHANGED <<file, args, ghosts>>

\* The process ends anywhere: SQLite drops what was not committed.
Crash(p) ==
    /\ pc[p] # "closed"
    /\ Goto(p, "closed")
    /\ Fresh(p)
    /\ writer' = IF writer = p THEN None ELSE writer
    /\ pending' = IF writer = p THEN {} ELSE pending
    /\ UNCHANGED <<schema, users, sequence, messages, args, ghosts>>

-----------------------------------------------------------------------------
\* ns_db_get_or_create_user

GetOrCreateUser(p) ==
    /\ pc[p] = "idle" /\ sequence < MaxSequence
    /\ \E name \in Names : asked' = [asked EXCEPT ![p] = name]
    /\ Goto(p, "begin")
    /\ UNCHANGED <<file, sender, waited, snapshot, held, ghosts>>

\* BEGIN IMMEDIATE
Begin(p) ==
    /\ pc[p] = "begin" /\ MayWrite(p)
    /\ writer' = p
    /\ Goto(p, "insert")
    /\ waited' = [waited EXCEPT ![p] = FALSE]
    /\ UNCHANGED <<schema, users, sequence, messages, pending, args, snapshot, held, ghosts>>

BeginRefused(p) ==
    /\ pc[p] = "begin"
    /\ Busy(p)
    /\ Return(p)
    /\ UNCHANGED <<file, args, snapshot, held, ghosts>>

\* A mistake to be caught: INSERT OR REPLACE.
InsertUserReplacing(p) ==
    /\ pc[p] = "insert"
    /\ pending' = {[name |-> asked[p], id |-> sequence + 1]}
    /\ Goto(p, "commit")
    /\ UNCHANGED <<schema, users, sequence, messages, writer, args, waited, snapshot, held,
                   ghosts>>

\* INSERT OR IGNORE
InsertUser(p) ==
    /\ pc[p] = "insert"
    /\ pending' = IF \E row \in users : row.name = asked[p] THEN {}
                  ELSE {[name |-> asked[p], id |-> sequence + 1]}
    /\ Goto(p, "commit")
    /\ UNCHANGED <<schema, users, sequence, messages, writer, args, waited, snapshot, held,
                   ghosts>>

\* The INSERT of a user or the COMMIT fails.
StatementFails(p) ==
    /\ pc[p] \in {"insert", "commit"} /\ Faulty
    /\ Goto(p, "rollback")
    /\ UNCHANGED <<file, args, waited, snapshot, held, ghosts>>

\* A mistake to be caught: the failure is returned without a ROLLBACK.
RollbackForgotten(p) ==
    /\ pc[p] = "rollback"
    /\ Return(p)
    /\ UNCHANGED <<file, args, snapshot, held, ghosts>>

\* ROLLBACK, and -1
Rollback(p) ==
    /\ pc[p] = "rollback"
    /\ writer' = None /\ pending' = {}
    /\ Return(p)
    /\ UNCHANGED <<schema, users, sequence, messages, args, snapshot, held, ghosts>>

\* COMMIT; the id that was taken for the row is spent, row or no row.
Commit(p) ==
    /\ pc[p] = "commit"
    /\ users' = users \cup pending
    /\ sequence' = sequence + 1
    /\ writer' = None /\ pending' = {}
    /\ MoveSnapshots(p, Len(messages))
    /\ Goto(p, "find")
    /\ UNCHANGED <<schema, messages, args, waited, held, ghosts>>

\* A mistake to be caught: the id of the last user inserted.
FindUserLastInserted(p) ==
    /\ pc[p] = "find"
    /\ \E row \in users :
          /\ \A other \in users : other.id <= row.id
          /\ LET given == [name |-> asked[p], id |-> row.id % UINT32]
             IN  /\ held' = [held EXCEPT ![p] = @ \cup {given}]
                 /\ granted' = granted \cup {given}
    /\ read' = [read EXCEPT ![p] = "fresh"]
    /\ seen' = [seen EXCEPT ![p] = Len(messages)]
    /\ Return(p)
    /\ UNCHANGED <<file, args, shown>>

\* ns_db_find_user_id: the reset ends the old read transaction, the step to the
\* row opens one that stays.
FindUser(p) ==
    /\ pc[p] = "find"
    /\ \E row \in users :
          /\ row.name = asked[p]
          /\ LET given == [name |-> row.name, id |-> row.id % UINT32]
             IN  /\ held' = [held EXCEPT ![p] = @ \cup {given}]
                 /\ granted' = granted \cup {given}
    /\ read' = [read EXCEPT ![p] = "fresh"]
    /\ seen' = [seen EXCEPT ![p] = Len(messages)]
    /\ Return(p)
    /\ UNCHANGED <<file, args, shown>>

\* The SELECT fails: -1, with the user committed.
FindUserFails(p) ==
    /\ pc[p] = "find" /\ Faulty
    /\ read' = [read EXCEPT ![p] = "none"]
    /\ seen' = [seen EXCEPT ![p] = 0]
    /\ Return(p)
    /\ UNCHANGED <<file, args, held, ghosts>>

-----------------------------------------------------------------------------
\* ns_db_insert_message, with an id the process was given

InsertMessage(p) ==
    /\ pc[p] = "idle" /\ Len(messages) < MaxMessages
    /\ \E given \in held[p] :
          /\ asked' = [asked EXCEPT ![p] = given.name]
          /\ sender' = [sender EXCEPT ![p] = given.id]
    /\ Goto(p, "message")
    /\ UNCHANGED <<file, waited, snapshot, held, ghosts>>

\* The INSERT, a transaction of its own; author and by say who meant what.
StoreMessage(p) ==
    /\ pc[p] = "message" /\ MayWrite(p)
    /\ \E row \in users : row.id = sender[p]
    /\ messages' = Append(messages, [sender |-> sender[p], author |-> asked[p], by |-> p])
    /\ MoveSnapshots(p, Len(messages) + 1)
    /\ Return(p)
    /\ UNCHANGED <<schema, users, sequence, writer, pending, args, held, ghosts>>

\* Busy, or no user with that id (REFERENCES users(id)).
MessageRefused(p) ==
    /\ pc[p] = "message"
    /\ \/ Busy(p)
       \/ MayWrite(p) /\ \A row \in users : row.id # sender[p]
    /\ Return(p)
    /\ UNCHANGED <<file, args, snapshot, held, ghosts>>

\* A BEGIN or the INSERT of a message fails, whoever has the lock.
CallFails(p) ==
    /\ pc[p] \in {"begin", "message"} /\ Faulty
    /\ Return(p)
    /\ UNCHANGED <<file, args, snapshot, held, ghosts>>

-----------------------------------------------------------------------------
\* ns_db_recent_messages

Clamp(limit) == IF limit < 1 THEN 1 ELSE IF limit > HISTORY_MAX THEN HISTORY_MAX ELSE limit

\* The messages p's SELECT can see: those of the open read transaction, if any.
Visible(p) == IF read[p] = "none" THEN Len(messages) ELSE seen[p]

\* JOIN users u ON u.id = m.sender_id
NameOf(id) == (CHOOSE row \in users : row.id = id).name

Row(i) == [id |-> i, username |-> NameOf(messages[i].sender)]

\* A mistake to be caught: the rows are delivered as the SELECT returns them.
DeliverNewestFirst(last, count) == [i \in 1..count |-> Row(last - i + 1)]

\* The rows fetched newest first, count of them, delivered from the other end
Deliver(last, count) == [i \in 1..count |-> Row(last - count + i)]

\* A step that fails ends the loop like the last row does.
RecentMessages(p) ==
    /\ pc[p] = "idle"
    /\ \E limit \in Limits, count \in 0..MaxMessages :
          LET due == IF Clamp(limit) < Visible(p) THEN Clamp(limit) ELSE Visible(p)
          IN  /\ count = due \/ (Faulty /\ count < due)
              /\ shown' = [by |-> p, limit |-> limit, rows |-> Deliver(Visible(p), count),
                           rc |-> 0]
    /\ UNCHANGED <<file, pc, args, waited, snapshot, held, granted>>

-----------------------------------------------------------------------------
\* What a call does by itself once it has been made.
CallStep(p) ==
    \/ CreateTable(p) \/ Opened(p) \/ SchemaReady(p)
    \/ BusyTimeout(p) \/ Begin(p) \/ BeginRefused(p)
    \/ InsertUser(p) \/ Rollback(p) \/ Commit(p) \/ FindUser(p)
    \/ StoreMessage(p) \/ MessageRefused(p)

\* What may go wrong instead.
Fault(p) ==
    \/ OpenFails(p) \/ StatementFails(p) \/ FindUserFails(p) \/ CallFails(p)
    \/ Crash(p)

CallerStep(p) ==
    \/ Open(p) \/ Close(p) \/ GetOrCreateUser(p) \/ InsertMessage(p) \/ RecentMessages(p)

Next == \E p \in Procs : CallStep(p) \/ CallerStep(p) \/ Fault(p)

Spec == Init /\ [][Next]_vars

\* The operating system runs every process, and five seconds pass.  Nothing
\* has to fail.
FairSpec == Spec /\ \A p \in Procs : WF_vars(CallStep(p))

-----------------------------------------------------------------------------
Pcs == {"closed", "open", "schema", "idle", "begin", "insert", "commit", "rollback", "find",
        "message"}
InTransaction == {"insert", "commit", "rollback"}

TypeOK ==
    /\ schema \in 0..3
    /\ users \subseteq Rows
    /\ sequence \in Nat
    /\ messages \in Seq([sender : Nat, author : Names, by : Procs])
    /\ writer \in Procs \cup {None}
    /\ pending \subseteq Rows
    /\ pc \in [Procs -> Pcs]
    /\ asked \in [Procs -> Names \cup {None}]
    /\ sender \in [Procs -> Nat]
    /\ waited \in [Procs -> BOOLEAN]
    /\ read \in [Procs -> {"none", "fresh", "stale"}]
    /\ seen \in [Procs -> Nat]
    /\ held \in [Procs -> SUBSET Rows]
    /\ granted \subseteq Rows
    /\ shown.by \in Procs \cup {None} /\ shown.limit \in Int /\ shown.rc \in {-1, 0}
    /\ shown.rows \in Seq([id : Nat, username : Names])

\* Whatever fails, a process between calls does not keep the file locked for
\* the others: every way out of ns_db_get_or_create_user ends its transaction.
NoTransactionLeftOpen ==
    /\ \A p \in Procs : pc[p] \in InTransaction <=> writer = p
    /\ writer = None => pending = {}

\* Two processes that ask for one name, at the same time or years and crashes
\* apart, are told one id, and two names never share one: for as long as the
\* ids fit in the uint32_t they are returned in.
OneIdPerName ==
    sequence < UINT32 =>
        \A a, b \in granted : a.name = b.name <=> a.id = b.id

\* A message is stored under the user who sent it: the id a server keeps in
\* user_id for a whole session still means the same name, whatever happened
\* to the file since (as long as ids fit).
RightAuthor ==
    sequence < UINT32 =>
        \A i \in DOMAIN messages : NameOf(messages[i].sender) = messages[i].author

\* ns_db_recent_messages delivers the newest messages of its snapshot and no
\* others, oldest first, without a gap; those stored by the same process are
\* among them, although a read transaction of an earlier call may be open.
HistoryInOrder ==
    [][shown' # shown =>
        LET rows == shown'.rows
        IN  /\ Len(rows) <= Clamp(shown'.limit)
            /\ \A i \in DOMAIN rows : rows[i].id = rows[1].id + i - 1
            /\ rows # <<>> =>
                  \A m \in DOMAIN messages :
                      messages[m].by = shown'.by => m <= rows[Len(rows)].id]_vars

\* Every call returns: nobody waits for ever for the lock, whoever crashes
\* while holding it and however often others take it.
CallsReturn ==
    \A p \in Procs : (pc[p] \notin {"idle", "closed"}) ~> (pc[p] \in {"idle", "closed"})

\* The users table implements UserDirectory; the ids have to fit.
Directory == INSTANCE UserDirectory WITH directory <- users

DirectorySpec == Directory!Spec

-----------------------------------------------------------------------------
\* README.md:445 "concurrent reads do not block writes": where no statement
\* fails, a write is refused only because of another write.
ReadsDoNotBlockWrites == [][\A p \in Procs : BeginRefused(p) => writer # None]_vars

=============================================================================

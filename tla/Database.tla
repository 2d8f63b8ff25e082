------------------------------ MODULE Database ------------------------------
(***************************************************************************)
(* DatabaseManager: one SQLite connection per thread, a writer lock shared *)
(* by the threads of a process, and three attempts at a statement that     *)
(* finds the database locked.  SQLite below it (WAL, sqlite3's implicit    *)
(* BEGIN before a writing statement) is modelled as the manager meets it.  *)
(***************************************************************************)
EXTENDS Integers, Sequences, SequencesExt, FiniteSets

CONSTANTS
    Threads,     \* each has its own connection
    Processes, ProcessOf,
    Writes,      \* the calls that will be made, each at most once
    Rows, RowsOf,\* the rows a call writes, in order
    Unfit,       \* rows the schema refuses: a null where NOT NULL stands
    Nobody

ASSUME DatabaseAssumption ==
    /\ ProcessOf \in [Threads -> Processes]
    /\ RowsOf \in [Writes -> Seq(Rows) \ {<<>>}]
    \* A row is one row of one call.
    /\ \A w, v \in Writes : \A i \in DOMAIN RowsOf[w], j \in DOMAIN RowsOf[v] :
        RowsOf[w][i] = RowsOf[v][j] => w = v /\ i = j
    /\ Unfit \subseteq Rows
    /\ Nobody \notin Threads

VARIABLES
    stored,      \* the committed copies of each row
    version,     \* how many commits the file has seen
    writer,      \* the connection that holds SQLite's write lock
    link,        \* each connection: [open, seen, pending] of its transaction
    request,     \* where each thread is in a call
    mutex,       \* _write_lock of each process
    answer       \* what the caller of a write was told

databaseVars == <<stored, version, writer, link, request, mutex, answer>>

LockAttempts == 3
Unread == -1     \* a transaction that has not looked at the file yet
Fresh == [open |-> FALSE, seen |-> Unread, pending |-> <<>>]
Away == [at |-> "away", write |-> Nobody, attempt |-> 0, explicit |-> FALSE]

DatabaseInit ==
    /\ stored = [r \in Rows |-> 0] /\ version = 0 /\ writer = Nobody
    /\ link = [t \in Threads |-> Fresh]
    /\ request = [t \in Threads |-> Away]
    /\ mutex = [p \in Processes |-> Nobody]
    /\ answer = [w \in Writes |-> "none"]

InCall(t) == request[t].at # "away"

\* execute() and executemany() reach _locked(); transaction() takes the lock itself.
Write(t, w, explicit) ==
    /\ ~InCall(t) /\ answer[w] = "none"
    /\ request' = [request EXCEPT ![t] = [at |-> "queueing", write |-> w, attempt |-> 1, explicit |-> explicit]]
    /\ answer' = [answer EXCEPT ![w] = "asked"]
    /\ UNCHANGED <<stored, version, writer, link, mutex>>

TakeMutex(t) ==
    /\ request[t].at = "queueing" /\ mutex[ProcessOf[t]] = Nobody
    /\ mutex' = [mutex EXCEPT ![ProcessOf[t]] = t]
    /\ request' = [request EXCEPT ![t].at = "trying"]
    /\ UNCHANGED <<stored, version, writer, link, answer>>

Told(t, what) ==
    /\ answer' = [answer EXCEPT ![request[t].write] = what]
    /\ request' = [request EXCEPT ![t] = Away]
    /\ mutex' = [mutex EXCEPT ![ProcessOf[t]] = Nobody]

\* SQLITE_BUSY after the busy timeout while another connection writes, and at once for a
\* transaction that reads an older file than the one it would write.
Stale(t) == link[t].seen # Unread /\ link[t].seen # version
Locked(t) == writer \notin {t, Nobody} \/ Stale(t)

RollBack(t) ==
    /\ link' = [link EXCEPT ![t] = Fresh]
    /\ writer' = IF writer = t THEN Nobody ELSE writer

RetryUncounted(t) ==
    /\ request[t].at = "trying" /\ ~request[t].explicit /\ Locked(t)
    /\ request' = [request EXCEPT ![t].at = "queueing"]
    /\ mutex' = [mutex EXCEPT ![ProcessOf[t]] = Nobody]
    /\ link' = [link EXCEPT ![t].open = TRUE]
    /\ UNCHANGED <<stored, version, writer, answer>>

\* One attempt of _locked() that found the database locked.  The implicit BEGIN stays; the
\* writer lock is given back and asked for again.
Retry(t) ==
    /\ request[t].at = "trying" /\ ~request[t].explicit /\ Locked(t) /\ request[t].attempt < LockAttempts
    /\ request' = [request EXCEPT ![t].at = "queueing", ![t].attempt = @ + 1]
    /\ mutex' = [mutex EXCEPT ![ProcessOf[t]] = Nobody]
    /\ link' = [link EXCEPT ![t].open = TRUE]
    /\ UNCHANGED <<stored, version, writer, answer>>

\* The last one: DatabaseError, and no rollback.
GiveUp(t) ==
    /\ request[t].at = "trying" /\ ~request[t].explicit /\ Locked(t) /\ request[t].attempt >= LockAttempts
    /\ link' = [link EXCEPT ![t].open = TRUE]
    /\ Told(t, "failed")
    /\ UNCHANGED <<stored, version, writer>>

\* The rows of a statement up to the one the schema refuses.
Taken(w) ==
    LET refusedAt == SelectInSeq(RowsOf[w], LAMBDA r : r \in Unfit)
    IN IF refusedAt = 0 THEN RowsOf[w] ELSE SubSeq(RowsOf[w], 1, refusedAt - 1)

Whole(w) == Taken(w) = RowsOf[w]

\* conn.execute() / conn.executemany() on a connection that may write.
Begun(t) ==
    /\ writer' = t
    /\ link' = [link EXCEPT ![t] = [open |-> TRUE, seen |-> version,
                                    pending |-> @.pending \o Taken(request[t].write)]]

Apply(t) ==
    /\ request[t].at = "trying" /\ ~Locked(t) /\ (request[t].explicit => ~link[t].open)
    /\ Whole(request[t].write)
    /\ Begun(t)
    /\ request' = [request EXCEPT ![t].at = "applied"]
    /\ UNCHANGED <<stored, version, mutex, answer>>

\* sqlite3.IntegrityError under _locked(): DatabaseError, and no rollback.
Refuse(t) ==
    /\ request[t].at = "trying" /\ ~Locked(t) /\ ~request[t].explicit
    /\ ~Whole(request[t].write)
    /\ Begun(t) /\ Told(t, "failed")
    /\ UNCHANGED <<stored, version>>

\* transaction(): whatever goes wrong, also a BEGIN IMMEDIATE inside an open
\* transaction, is rolled back and raised.
Abort(t) ==
    /\ request[t].at = "trying" /\ request[t].explicit
    /\ Locked(t) \/ link[t].open \/ ~Whole(request[t].write)
    /\ RollBack(t) /\ Told(t, "failed")
    /\ UNCHANGED <<stored, version>>

CommitForgotten(t) ==
    /\ Told(t, "done")
    /\ UNCHANGED <<stored, version, writer, link>>

\* The copies of a row that a connection has written since its last commit.
Copies(t, r) == Cardinality({i \in DOMAIN link[t].pending : link[t].pending[i] = r})

\* conn.commit(): everything the connection has written since its last commit.
Commit(t) ==
    /\ stored' = [r \in Rows |-> stored[r] + Copies(t, r)]
    /\ version' = version + 1
    /\ RollBack(t) /\ Told(t, "done")

Finish(t) == request[t].at = "applied" /\ Commit(t)

\* query(): a SELECT takes no lock; inside an open transaction it pins what it reads.
Read(t) ==
    /\ ~InCall(t) /\ link[t].open /\ link[t].seen = Unread
    /\ link' = [link EXCEPT ![t].seen = version]
    /\ UNCHANGED <<stored, version, writer, request, mutex, answer>>

\* close(): the thread's next call opens a connection of its own again.
Close(t) ==
    /\ ~InCall(t) /\ RollBack(t)
    /\ UNCHANGED <<stored, version, request, mutex, answer>>

\* The process dies: its connections go and their transactions are rolled back.
Die(p) ==
    LET gone == {t \in Threads : ProcessOf[t] = p}
    IN /\ link' = [t \in Threads |-> IF t \in gone THEN Fresh ELSE link[t]]
       /\ request' = [t \in Threads |-> IF t \in gone THEN Away ELSE request[t]]
       /\ writer' = IF writer \in gone THEN Nobody ELSE writer
       /\ mutex' = [mutex EXCEPT ![p] = Nobody]
       /\ UNCHANGED <<stored, version, answer>>

Carry(t) ==
    TakeMutex(t) \/ Retry(t) \/ GiveUp(t) \/ Apply(t) \/ Refuse(t) \/ Abort(t) \/ Finish(t)

DatabaseNext ==
    \/ \E t \in Threads : Carry(t) \/ Read(t) \/ Close(t)
    \/ \E t \in Threads, w \in Writes, explicit \in BOOLEAN : Write(t, w, explicit)
    \/ \E p \in Processes : Die(p)

DatabaseSpec == DatabaseInit /\ [][DatabaseNext]_databaseVars
-----------------------------------------------------------------------------
(* Properties.                                                             *)

DatabaseTypeOK ==
    /\ stored \in [Rows -> Nat] /\ version \in Nat /\ writer \in Threads \cup {Nobody}
    /\ link \in [Threads -> [open : BOOLEAN, seen : Nat \cup {Unread}, pending : Seq(Rows)]]
    /\ mutex \in [Processes -> Threads \cup {Nobody}]
    /\ answer \in [Writes -> {"none", "asked", "done", "failed"}]

\* _locked() repeats a statement, a failed one leaves rows behind that a later commit
\* carries, connections are closed and processes die: still no row is written twice, and
\* what a caller was told is done is in the file for good.
WrittenOnce ==
    \A w \in Writes : \A r \in ToSet(RowsOf[w]) :
        stored[r] <= 1 /\ (answer[w] = "done" => stored[r] = 1)

\* "with self._write_lock": the statements of one process reach SQLite one at a time, and
\* through give-ups, refusals and dying processes never have two connections rows that are
\* not committed.
Writing(t) == request[t].at \in {"trying", "applied"}
WritersApart ==
    \A t, u \in Threads :
        /\ Writing(t) /\ Writing(u) /\ ProcessOf[t] = ProcessOf[u] => t = u
        /\ link[t].pending # <<>> /\ link[u].pending # <<>> => t = u

\* A thread that waits for SQLite holds the writer lock of its process, which the thread
\* that could free SQLite may need: three attempts are the way out, also for threads that
\* take the lock from each other between them.
WritesAreAnswered == \A t \in Threads : InCall(t) ~> ~InCall(t)

\* "safe for the scheduler threads and the watchdog running side-by-side": a write fails
\* as locked only beside another write that is under way.
LockedOnlyByAWrite ==
    [][\A t \in Threads : GiveUp(t) => \E other \in Threads \ {t} : InCall(other)]_databaseVars
=============================================================================

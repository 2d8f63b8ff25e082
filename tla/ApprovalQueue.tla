---------------------------- MODULE ApprovalQueue ----------------------------
(***************************************************************************)
(* automation.approval_queue: signals waiting for a human decision, held   *)
(* by every instance in memory and written as one whole snapshot to a row  *)
(* of system_state that a new instance loads.  The trading loop is one     *)
(* instance; the dashboard's build_control may start another.  A decision  *)
(* is made in memory, then written to the row, then logged: the last two   *)
(* are commits of their own, and a crash may come before either.           *)
(***************************************************************************)
EXTENDS Clock, FiniteSets, Functions

CONSTANTS
    Signals,      \* signal ids callers use
    Instances,    \* processes that may hold a queue
    Loop,         \* the instance that runs from the start
    Ttl,          \* ttl_seconds, in ticks
    SaveResults,  \* what a commit may do: succeed, fail, or either
    MaxEnqueued   \* bound of the calls of enqueue()

ASSUME QueueAssumption ==
    /\ Loop \in Instances /\ Ttl \in Nat \ {0}
    /\ SaveResults \subseteq BOOLEAN /\ MaxEnqueued \in Nat

VARIABLES
    running,    \* the instances that have been started
    signals,    \* _signals of each instance
    saved,      \* the row "approval_queue" of system_state
    audit,      \* automation_log: the last status it has of each entry
    enqueued,   \* number of calls of enqueue(); the n-th makes entry n
    approved,   \* entries an operator has approved
    executing,  \* per instance, the id whose order its caller has sent
    unsaved,    \* per instance, the ids its call under way has still to write
    logging,    \* per instance, the id it has written and not logged yet
    closed      \* entries whose end has reached the row at some time

commitVars == <<unsaved, logging, closed>>
queueVars == <<running, signals, saved, audit, enqueued, approved, executing, commitVars>>

Allowed ==
    [PENDING   |-> {"APPROVED", "REJECTED", "EXPIRED", "CANCELLED"},
     APPROVED  |-> {"EXECUTED", "CANCELLED"},
     REJECTED  |-> {}, EXPIRED |-> {}, EXECUTED |-> {}, CANCELLED |-> {}]

Entries == 1..MaxEnqueued
QueuedSignal ==
    [entry : Entries, status : DOMAIN Allowed, expires : Nat]

NoId == "none"
Unlogged == "unlogged"

QueueInit ==
    /\ running = {Loop} /\ signals = [p \in Instances |-> <<>>]
    /\ saved = <<>>
    /\ audit = [n \in Entries |-> Unlogged]
    /\ enqueued = 0 /\ approved = {}
    /\ executing = [p \in Instances |-> NoId]
    /\ unsaved = [p \in Instances |-> {}]
    /\ logging = [p \in Instances |-> NoId]
    /\ closed = {}
-----------------------------------------------------------------------------
\* A call of p is over: nothing of it is left to write or to log.
Free(p) == p \in running /\ unsaved[p] = {} /\ logging[p] = NoId

\* A call changes the queue in memory and then calls _persist() once for each of ids.
Persist(p, queue, ids) ==
    /\ signals' = [signals EXCEPT ![p] = queue]
    /\ unsaved' = [unsaved EXCEPT ![p] = ids]
    /\ UNCHANGED <<saved, audit, logging, closed>>

Ended(queue) == {queue[s].entry : s \in {t \in DOMAIN queue : Allowed[queue[t].status] = {}}}

\* Mutant of WriteRow: the entry just changed is written as it was.
WriteRowStale(p) ==
    /\ logging[p] = NoId
    /\ \E s \in unsaved[p], done \in SaveResults :
        /\ unsaved' = [unsaved EXCEPT ![p] = @ \ {s}]
        /\ logging' = [logging EXCEPT ![p] = IF done THEN s ELSE NoId]
        /\ saved' = IF ~done THEN saved
                    ELSE IF s \in DOMAIN saved THEN [signals[p] EXCEPT ![s] = saved[s]] ELSE signals[p]
        /\ closed' = IF done THEN closed \cup Ended(signals[p]) ELSE closed
    /\ UNCHANGED <<running, signals, audit, enqueued, approved, executing>>

\* The first commit of _persist() is the whole queue.  If it fails, the error is swallowed
\* and the second is never tried.
WriteRow(p) ==
    /\ logging[p] = NoId
    /\ \E s \in unsaved[p], done \in SaveResults :
        /\ unsaved' = [unsaved EXCEPT ![p] = @ \ {s}]
        /\ logging' = [logging EXCEPT ![p] = IF done THEN s ELSE NoId]
        /\ saved' = IF done THEN signals[p] ELSE saved
        /\ closed' = IF done THEN closed \cup Ended(signals[p]) ELSE closed
    /\ UNCHANGED <<running, signals, audit, enqueued, approved, executing>>

\* The second commit is the row of automation_log, an error of which is swallowed too.
LogDecision(p) ==
    /\ logging[p] # NoId
    /\ logging' = [logging EXCEPT ![p] = NoId]
    /\ LET signal == signals[p][logging[p]]
       IN \E done \in SaveResults :
            audit' = IF done THEN [audit EXCEPT ![signal.entry] = signal.status] ELSE audit
    /\ UNCHANGED <<running, signals, saved, enqueued, approved, executing, unsaved, closed>>

\* Mutant of Put: an id that is known keeps the decision it has.
PutKeepingStatus(queue, s, signal) ==
    [t \in DOMAIN queue \cup {s} |->
        IF t # s THEN queue[t]
        ELSE IF s \in DOMAIN queue /\ signal.status = "PENDING"
        THEN [signal EXCEPT !.status = queue[s].status]
        ELSE signal]

Put(queue, s, signal) ==
    [t \in DOMAIN queue \cup {s} |-> IF t = s THEN signal ELSE queue[t]]

\* An id enqueued again replaces the entry it had, whatever became of that one.
\* (The second conjunct keeps the expiry within the bounded clock.)
Enqueue(p, s) ==
    /\ Free(p)
    /\ enqueued < MaxEnqueued /\ now + Ttl <= Horizon
    /\ enqueued' = enqueued + 1
    /\ Persist(p, Put(signals[p], s, [entry |-> enqueued + 1, status |-> "PENDING",
                                      expires |-> now + Ttl]), {s})
    /\ UNCHANGED <<running, approved, executing>>

\* A transition of the table; any other raises ApprovalError.
MayBecome(p, s, target) ==
    s \in DOMAIN signals[p] /\ target \in Allowed[signals[p][s].status]

Moved(p, s, target) == Put(signals[p], s, [signals[p][s] EXCEPT !.status = target])

\* approve(), reject() and cancel(): expires_at is not looked at.
Decide(p, s, target) ==
    /\ Free(p) /\ MayBecome(p, s, target)
    /\ Persist(p, Moved(p, s, target), {s})
    /\ approved' = IF target = "APPROVED" THEN approved \cup {signals[p][s].entry}
                   ELSE approved
    /\ UNCHANGED <<running, enqueued, executing>>

\* Mutant of Due: at the very end of its life an entry is not due yet.
DueLate(signal) == signal.status = "PENDING" /\ now > signal.expires

Due(signal) == signal.status = "PENDING" /\ now >= signal.expires

\* expire_due() changes every overdue entry, then writes once for each.
ExpireDue(p) ==
    /\ Free(p)
    /\ LET due == {s \in DOMAIN signals[p] : Due(signals[p][s])}
       IN /\ due # {}
          /\ Persist(p, [s \in DOMAIN signals[p] |->
                            IF s \in due
                            THEN [signals[p][s] EXCEPT !.status = "EXPIRED"]
                            ELSE signals[p][s]], due)
    /\ UNCHANGED <<running, enqueued, approved, executing>>

\* The caller takes next_approved() and sends its order.  Which of the approved entries is
\* taken (the one decided first) no property tells apart, so decided_at is left out ...
Send(p, s) ==
    /\ Free(p) /\ executing[p] = NoId
    /\ s \in DOMAIN signals[p] /\ signals[p][s].status = "APPROVED"
    /\ executing' = [executing EXCEPT ![p] = s]
    /\ UNCHANGED <<running, signals, saved, audit, enqueued, approved, commitVars>>

\* ... and then calls mark_executed(), which raises if the id has moved on.
MarkExecuted(p, s) ==
    /\ Free(p) /\ executing[p] = s
    /\ executing' = [executing EXCEPT ![p] = NoId]
    /\ IF MayBecome(p, s, "EXECUTED")
       THEN Persist(p, Moved(p, s, "EXECUTED"), {s})
       ELSE UNCHANGED <<signals, saved, audit, commitVars>>
    /\ UNCHANGED <<running, enqueued, approved>>

\* The constructor loads every entry of the row, decided ones too; if the row cannot be
\* read, it starts with no entry.  It restarts an instance, wherever that was, or starts
\* the other one.
Load(p) ==
    /\ \E row \in {saved, <<>>} : signals' = [signals EXCEPT ![p] = row]
    /\ running' = running \cup {p}
    /\ executing' = [executing EXCEPT ![p] = NoId]
    /\ unsaved' = [unsaved EXCEPT ![p] = {}]
    /\ logging' = [logging EXCEPT ![p] = NoId]
    /\ UNCHANGED <<saved, audit, enqueued, approved, closed>>

\* The dashboard only approves and rejects (dashboard.actions).
QueueNext ==
    \/ ExpireDue(Loop)
    \/ \E s \in Signals : Enqueue(Loop, s) \/ Send(Loop, s) \/ MarkExecuted(Loop, s) \/ Decide(Loop, s, "CANCELLED")
    \/ \E p \in Instances : Load(p) \/ WriteRow(p) \/ LogDecision(p) \/ \E s \in Signals, target \in {"APPROVED", "REJECTED"} : Decide(p, s, target)

QueueSpec ==
    /\ QueueInit /\ now = 0
    /\ [][(QueueNext /\ UNCHANGED now) \/ (Tick /\ UNCHANGED queueVars)]_<<queueVars, now>>
-----------------------------------------------------------------------------
(* Properties.                                                             *)

QueueTypeOK ==
    /\ running \subseteq Instances
    /\ \A p \in Instances :
        DOMAIN signals[p] \subseteq Signals /\ Range(signals[p]) \subseteq QueuedSignal
    /\ DOMAIN saved \subseteq Signals /\ Range(saved) \subseteq QueuedSignal
    /\ audit \in [Entries -> DOMAIN Allowed \cup {Unlogged}]
    /\ enqueued \in 0..MaxEnqueued /\ approved \subseteq 1..enqueued
    /\ executing \in [Instances -> Signals \cup {NoId}]
    /\ unsaved \in [Instances -> SUBSET Signals] /\ logging \in [Instances -> Signals \cup {NoId}]
    /\ closed \subseteq 1..enqueued

\* Whatever two instances, failed writes and reused ids do to each other, nothing is
\* executed that an operator has not approved: an approval of one entry never
\* passes to the entry that replaces it under the same id.
OnlyApprovedRuns ==
    \A queue \in {signals[p] : p \in running} \cup {saved} :
        \A s \in DOMAIN queue :
            queue[s].status \in {"APPROVED", "EXECUTED"} => queue[s].entry \in approved

\* The loop is the only instance there has been.
Sole == Cardinality(running) = 1

\* What may come after a status, at once or later.
Later ==
    [PENDING   |-> {"APPROVED", "REJECTED", "EXPIRED", "CANCELLED", "EXECUTED"},
     APPROVED  |-> {"EXECUTED", "CANCELLED"},
     REJECTED  |-> {}, EXPIRED |-> {}, EXECUTED |-> {}, CANCELLED |-> {}]

\* With one instance the audit trail only ever goes forward along the table, whatever
\* commits fail and wherever the program dies: it may miss a step (the log is a commit of
\* its own) but never shows an entry alive again that it has shown decided.
AuditObeysTable ==
    [][Sole' => \A n \in Entries :
        audit'[n] = audit[n] \/ audit[n] = Unlogged \/ audit'[n] \in Later[audit[n]]]_<<queueVars, now>>

\* With one instance, once the end of an entry (executed, rejected, expired, cancelled) has
\* been on the row, no order is sent for it any more, whatever commits fail, wherever the
\* program dies, and whatever is enqueued again under its id.  Before that commit a crash
\* does send an order twice: see the README.
NothingSentOnceClosed ==
    [][\A p \in Instances :
        executing'[p] \notin {executing[p], NoId} /\ Sole =>
            signals[p][executing'[p]].entry \notin closed]_<<queueVars, now>>

\* "unactioned entries expire": under a loop that calls expire_due(), no entry of it
\* waits for ever.
Waiting(n) ==
    \E s \in DOMAIN signals[Loop] : signals[Loop][s].entry = n /\ signals[Loop][s].status = "PENDING"
NoSignalWaitsForever == \A n \in Entries : Waiting(n) ~> ~Waiting(n)
=============================================================================

-------------------------- MODULE Automation_proofs --------------------------
(***************************************************************************)
(* Theorems about what the automation does by itself: the approval queue,  *)
(* the recovery ramp and the scheduler, for any number of instances, signals *)
(* and calls, any tiers and cooling-off, any calendar, session and job table. *)
(***************************************************************************)
EXTENDS ApprovalQueue, RecoveryRamp, Scheduler, FiniteSetTheorems, TLAPS

-----------------------------------------------------------------------------
(* The approval queue, with commits that may fail.                         *)

\* A queue of well-formed entries that have all been enqueued.
WellFormed(queue, count) ==
    /\ DOMAIN queue \subseteq Signals
    /\ \A s \in DOMAIN queue : queue[s] \in QueuedSignal /\ queue[s].entry <= count

\* No approval in a queue is without an operator's.
Backed(queue, known) ==
    \A s \in DOMAIN queue : queue[s].status \in {"APPROVED", "EXECUTED"} => queue[s].entry \in known

\* What carries both properties from step to step.  It also speaks of the instances that
\* have not been started, and of entries no operator has seen: an instance comes to life
\* with whatever the row holds.
QueueTypeInv ==
    /\ running \subseteq Instances
    /\ DOMAIN signals = Instances
    /\ \A p \in Instances : WellFormed(signals[p], enqueued)
    /\ WellFormed(saved, enqueued)
    /\ audit \in [Entries -> DOMAIN Allowed \cup {Unlogged}]
    /\ enqueued \in 0..MaxEnqueued /\ approved \subseteq 1..enqueued
    /\ executing \in [Instances -> Signals \cup {NoId}]
    /\ unsaved \in [Instances -> SUBSET Signals] /\ logging \in [Instances -> Signals \cup {NoId}]
    /\ \A p \in Instances :
        unsaved[p] \subseteq DOMAIN signals[p] /\ (logging[p] # NoId => logging[p] \in DOMAIN signals[p])
    /\ closed \subseteq 1..enqueued
    /\ now \in 0..Horizon

BackedInv == (\A p \in Instances : Backed(signals[p], approved)) /\ Backed(saved, approved)

QueueStep == (QueueNext /\ UNCHANGED now) \/ (Tick /\ UNCHANGED queueVars)

\* Put() keeps a queue well-formed and backed if the new entry is.
LEMMA QueuePutFacts ==
    ASSUME NEW queue, NEW s \in Signals, NEW signal \in QueuedSignal, NEW count \in Nat, NEW known,
           WellFormed(queue, count), signal.entry <= count
    PROVE  /\ WellFormed(Put(queue, s, signal), count)
           /\ Backed(queue, known) /\ (signal.status \in {"APPROVED", "EXECUTED"} => signal.entry \in known)
                => Backed(Put(queue, s, signal), known)
  BY DEF WellFormed, Backed, Put

\* A queue stays well-formed and backed when more entries or more approvals are known.
LEMMA Grows ==
    ASSUME NEW queue, NEW count \in Nat, NEW more \in Nat, count <= more, WellFormed(queue, count)
    PROVE  WellFormed(queue, more)
<1> SUFFICES ASSUME NEW s \in DOMAIN queue PROVE queue[s].entry <= more
  BY DEF WellFormed
<1>1. queue[s].entry \in Nat /\ queue[s].entry <= count
  BY DEF WellFormed, QueuedSignal, Entries
<1> QED BY <1>1

LEMMA MoreKnown ==
    ASSUME NEW queue, NEW known, NEW more, known \subseteq more, Backed(queue, known)
    PROVE  Backed(queue, more)
  BY DEF Backed

\* An entry that moves along the table stays well-formed.
LEMMA MovedFacts ==
    ASSUME QueueTypeInv, NEW p \in Instances, NEW s \in Signals, NEW target, MayBecome(p, s, target)
    PROVE  /\ s \in DOMAIN signals[p] /\ signals[p][s] \in QueuedSignal
           /\ signals[p][s].entry \in 1..enqueued
           /\ {s} \subseteq DOMAIN Moved(p, s, target)
           /\ \E moved \in QueuedSignal :
                /\ Moved(p, s, target) = Put(signals[p], s, moved)
                /\ moved.entry = signals[p][s].entry /\ moved.status = target
<1> DEFINE moved == [signals[p][s] EXCEPT !.status = target]
<1>1. s \in DOMAIN signals[p] /\ signals[p][s] \in QueuedSignal /\ signals[p][s].entry <= enqueued
  BY DEF MayBecome, QueueTypeInv, WellFormed
<1>2. target \in DOMAIN Allowed
  BY <1>1 DEF MayBecome, QueuedSignal, Allowed
<1>3. signals[p][s].entry \in 1..enqueued
  BY <1>1 DEF QueuedSignal, Entries, QueueTypeInv
<1>4. moved \in QueuedSignal /\ moved.entry = signals[p][s].entry /\ moved.status = target
  BY <1>1, <1>2 DEF QueuedSignal
<1>5. Moved(p, s, target) = Put(signals[p], s, moved)
  BY DEF Moved
<1>6. {s} \subseteq DOMAIN Moved(p, s, target)
  BY DEF Moved, Put
<1> HIDE DEF moved
<1> QED BY <1>1, <1>3, <1>4, <1>5, <1>6

LEMMA QueueInitFacts == ASSUME QueueInit, now = 0 PROVE QueueTypeInv /\ BackedInv
<1> USE QueueAssumption, HorizonAssumption DEF QueueAssumption, HorizonAssumption, QueueInit
<1>1. WellFormed(<<>>, 0) /\ Backed(<<>>, {})
  BY DEF WellFormed, Backed
<1>2. /\ audit \in [Entries -> DOMAIN Allowed \cup {Unlogged}] /\ executing \in [Instances -> Signals \cup {NoId}]
      /\ now \in 0..Horizon /\ enqueued \in 0..MaxEnqueued /\ approved \subseteq 1..enqueued
      /\ unsaved \in [Instances -> SUBSET Signals] /\ logging \in [Instances -> Signals \cup {NoId}]
      /\ \A p \in Instances : unsaved[p] = {} /\ logging[p] = NoId
      /\ closed \subseteq 1..enqueued
  OBVIOUS
<1>3. QueueTypeInv
  BY <1>1, <1>2 DEF QueueTypeInv
<1>4. BackedInv
  BY <1>1 DEF BackedInv
<1> QED BY <1>3, <1>4

\* What every call leaves of both invariants: the new queue has to be well-formed and
\* backed, nothing else can break.
LEMMA PersistKeeps ==
    ASSUME QueueTypeInv, NEW p \in Instances, NEW queue, NEW ids, ids \subseteq DOMAIN queue,
           Free(p), Persist(p, queue, ids), WellFormed(queue, enqueued'),
           enqueued' \in enqueued..MaxEnqueued, approved \subseteq approved', approved' \subseteq 1..enqueued',
           running' = running, executing' \in [Instances -> Signals \cup {NoId}], now' = now
    PROVE  QueueTypeInv' /\ (BackedInv /\ Backed(queue, approved') => BackedInv')
<1>1. /\ DOMAIN signals' = Instances
      /\ \A q \in Instances : signals'[q] = IF q = p THEN queue ELSE signals[q]
      /\ UNCHANGED <<saved, audit, logging, closed>>
  BY DEF QueueTypeInv, Persist
<1>2. enqueued \in Nat /\ enqueued' \in Nat /\ enqueued <= enqueued' /\ enqueued' \in 0..MaxEnqueued
  BY QueueAssumption DEF QueueTypeInv, QueueAssumption
<1>3. ASSUME NEW q \in Instances PROVE WellFormed(signals'[q], enqueued')
  BY <1>1, <1>2, Grows DEF QueueTypeInv
<1>4. WellFormed(saved', enqueued')
  BY <1>1, <1>2, Grows DEF QueueTypeInv
<1>5. ids \subseteq Signals
  BY DEF WellFormed
<1>6. /\ unsaved' \in [Instances -> SUBSET Signals]
      /\ \A q \in Instances : unsaved'[q] = IF q = p THEN ids ELSE unsaved[q]
  BY <1>5 DEF QueueTypeInv, Persist
<1>7. ASSUME NEW q \in Instances
      PROVE  unsaved'[q] \subseteq DOMAIN signals'[q] /\ (logging'[q] # NoId => logging'[q] \in DOMAIN signals'[q])
  BY <1>1, <1>6 DEF QueueTypeInv, Free
<1>8. closed' \subseteq 1..enqueued'
  BY <1>1, <1>2 DEF QueueTypeInv
<1>9. QueueTypeInv'
  BY <1>1, <1>2, <1>3, <1>4, <1>6, <1>7, <1>8 DEF QueueTypeInv
<1>10. ASSUME BackedInv, Backed(queue, approved') PROVE BackedInv'
  <2>1. ASSUME NEW q \in Instances PROVE Backed(signals'[q], approved')
    BY <1>1, <1>10, MoreKnown DEF BackedInv
  <2>2. Backed(saved', approved')
    BY <1>1, <1>10, MoreKnown DEF BackedInv
  <2> QED BY <2>1, <2>2 DEF BackedInv
<1> QED BY <1>9, <1>10

\* The entries whose end a row shows are among those enqueued.
LEMMA EndedFacts ==
    ASSUME NEW queue, NEW count \in Nat, WellFormed(queue, count)
    PROVE  Ended(queue) \subseteq 1..count
  BY DEF Ended, WellFormed, QueuedSignal, Entries

\* The two commits of a call.
LEMMA CommitKeeps ==
    ASSUME QueueTypeInv, NEW p \in Instances, WriteRow(p) \/ LogDecision(p), now' = now
    PROVE  QueueTypeInv' /\ (BackedInv => BackedInv')
<1>1. UNCHANGED <<running, signals, enqueued, approved, executing>>
  BY DEF WriteRow, LogDecision
<1>2. CASE WriteRow(p)
  <2> PICK s \in unsaved[p], done \in SaveResults :
        /\ unsaved' = [unsaved EXCEPT ![p] = @ \ {s}]
        /\ logging' = [logging EXCEPT ![p] = IF done THEN s ELSE NoId]
        /\ saved' = IF done THEN signals[p] ELSE saved
        /\ closed' = IF done THEN closed \cup Ended(signals[p]) ELSE closed
    BY <1>2 DEF WriteRow
  <2>1. saved' \in {signals[p], saved} /\ audit' = audit
    BY <1>2 DEF WriteRow
  <2>2. enqueued \in Nat /\ closed' \subseteq 1..enqueued
    <3>1. enqueued \in Nat /\ WellFormed(signals[p], enqueued) /\ closed \subseteq 1..enqueued
      BY DEF QueueTypeInv
    <3>2. Ended(signals[p]) \subseteq 1..enqueued
      BY <3>1, EndedFacts
    <3> QED BY <3>1, <3>2
  <2>3. s \in Signals /\ s \in DOMAIN signals[p]
    BY DEF QueueTypeInv
  <2>4. /\ unsaved' \in [Instances -> SUBSET Signals] /\ logging' \in [Instances -> Signals \cup {NoId}]
        /\ \A q \in Instances : unsaved'[q] \subseteq unsaved[q] /\ logging'[q] \in {logging[q], s, NoId}
        /\ \A q \in Instances : q # p => logging'[q] = logging[q]
    BY <2>3 DEF QueueTypeInv
  <2>5. ASSUME NEW q \in Instances
        PROVE  unsaved'[q] \subseteq DOMAIN signals'[q] /\ (logging'[q] # NoId => logging'[q] \in DOMAIN signals'[q])
    BY <1>1, <2>3, <2>4 DEF QueueTypeInv
  <2>6. QueueTypeInv'
    BY <1>1, <2>1, <2>2, <2>4, <2>5 DEF QueueTypeInv
  <2>7. BackedInv => BackedInv'
    BY <1>1, <2>1 DEF BackedInv
  <2> QED BY <2>6, <2>7
<1>3. CASE LogDecision(p)
  <2> DEFINE signal == signals[p][logging[p]]
  <2>1. /\ logging[p] # NoId /\ logging' = [logging EXCEPT ![p] = NoId]
        /\ audit' \in {audit, [audit EXCEPT ![signal.entry] = signal.status]}
        /\ UNCHANGED <<saved, unsaved, closed>>
    BY <1>3 DEF LogDecision
  <2>2. signal.status \in DOMAIN Allowed
    BY <2>1 DEF QueueTypeInv, WellFormed, QueuedSignal
  <2> HIDE DEF signal
  <2>3. audit' \in [Entries -> DOMAIN Allowed \cup {Unlogged}]
    BY <2>1, <2>2 DEF QueueTypeInv
  <2>4. /\ logging' \in [Instances -> Signals \cup {NoId}]
        /\ \A q \in Instances : logging'[q] \in {logging[q], NoId}
    BY <2>1 DEF QueueTypeInv
  <2>5. QueueTypeInv'
    BY <1>1, <2>1, <2>3, <2>4 DEF QueueTypeInv
  <2>6. BackedInv => BackedInv'
    BY <1>1, <2>1 DEF BackedInv
  <2> QED BY <2>5, <2>6
<1> QED BY <1>2, <1>3

\* Both invariants survive every step of the queue.
LEMMA QueueStepFacts == ASSUME QueueTypeInv, [QueueStep]_<<queueVars, now>> PROVE QueueTypeInv' /\ (BackedInv => BackedInv')
<1> USE QueueAssumption, HorizonAssumption DEF QueueAssumption, HorizonAssumption
<1>1. ASSUME NEW s \in Signals, Enqueue(Loop, s), now' = now PROVE QueueTypeInv' /\ (BackedInv => BackedInv')
  <2> DEFINE new == [entry |-> enqueued + 1, status |-> "PENDING", expires |-> now + Ttl]
             queue == Put(signals[Loop], s, new)
  <2>1. new \in QueuedSignal /\ new.entry = enqueued' /\ new.status = "PENDING"
    BY <1>1 DEF Enqueue, QueuedSignal, Entries, Allowed, QueueTypeInv
  <2>2. WellFormed(signals[Loop], enqueued') /\ enqueued' \in enqueued..MaxEnqueued /\ enqueued' \in Nat
    BY <1>1, Grows DEF Enqueue, QueueTypeInv
  <2>4. {s} \subseteq DOMAIN queue
    BY DEF Put
  <2>3. WellFormed(queue, enqueued') /\ (Backed(signals[Loop], approved') => Backed(queue, approved'))
    <3>1. /\ new \in QueuedSignal /\ new.entry <= enqueued' /\ ~(new.status \in {"APPROVED", "EXECUTED"})
          /\ WellFormed(signals[Loop], enqueued') /\ enqueued' \in Nat /\ s \in Signals
      BY <2>1, <2>2
    <3> HIDE DEF new
    <3> QED BY <3>1, QueuePutFacts
  <2>5. Free(Loop) /\ Persist(Loop, queue, {s}) /\ approved' = approved /\ running' = running /\ executing' = executing
    BY <1>1 DEF Enqueue
  <2>6. approved' \subseteq 1..enqueued' /\ executing' \in [Instances -> Signals \cup {NoId}]
    BY <2>2, <2>5 DEF QueueTypeInv
  <2> HIDE DEF queue
  <2>7. QueueTypeInv' /\ (BackedInv /\ Backed(queue, approved') => BackedInv')
    BY <1>1, <2>2, <2>3, <2>4, <2>5, <2>6, PersistKeeps
  <2> QED BY <2>3, <2>5, <2>7 DEF BackedInv
<1>2. ASSUME NEW p \in Instances, NEW s \in Signals, NEW target \in {"APPROVED", "REJECTED", "CANCELLED"},
             Decide(p, s, target), now' = now
      PROVE  QueueTypeInv' /\ (BackedInv => BackedInv')
  <2> DEFINE queue == Moved(p, s, target)
  <2>1. /\ signals[p][s].entry \in 1..enqueued /\ {s} \subseteq DOMAIN queue
        /\ \E moved \in QueuedSignal :
             queue = Put(signals[p], s, moved) /\ moved.entry = signals[p][s].entry /\ moved.status = target
    BY <1>2, MovedFacts DEF Decide
  <2>2. /\ approved' = IF target = "APPROVED" THEN approved \cup {signals[p][s].entry} ELSE approved
        /\ Free(p) /\ Persist(p, queue, {s}) /\ running' = running /\ enqueued' = enqueued /\ executing' = executing
    BY <1>2 DEF Decide
  <2> HIDE DEF queue
  <2> PICK moved \in QueuedSignal :
             queue = Put(signals[p], s, moved) /\ moved.entry = signals[p][s].entry /\ moved.status = target
    BY <2>1
  <2>3. WellFormed(signals[p], enqueued) /\ moved.entry <= enqueued /\ enqueued \in Nat
    BY <2>1 DEF QueueTypeInv
  <2>4. moved.status \in {"APPROVED", "EXECUTED"} => moved.entry \in approved'
    BY <2>1, <2>2
  <2>5. /\ WellFormed(Put(signals[p], s, moved), enqueued)
        /\ Backed(signals[p], approved') /\ (moved.status \in {"APPROVED", "EXECUTED"} => moved.entry \in approved')
             => Backed(Put(signals[p], s, moved), approved')
    BY <2>1, <2>3, QueuePutFacts
  <2>6. WellFormed(queue, enqueued') /\ (BackedInv => Backed(queue, approved'))
    BY <2>1, <2>2, <2>4, <2>5, MoreKnown DEF BackedInv
  <2>7. /\ approved \subseteq approved' /\ approved' \subseteq 1..enqueued' /\ enqueued' \in enqueued..MaxEnqueued
        /\ executing' \in [Instances -> Signals \cup {NoId}]
    <3>1. enqueued \in Nat /\ enqueued \in 0..MaxEnqueued /\ approved \subseteq 1..enqueued
          /\ executing \in [Instances -> Signals \cup {NoId}]
      BY DEF QueueTypeInv
    <3>2. approved \subseteq approved' /\ approved' \subseteq 1..enqueued
      BY <2>1, <2>2, <3>1
    <3> QED BY <2>2, <3>1, <3>2
  <2>8. QueueTypeInv' /\ (BackedInv /\ Backed(queue, approved') => BackedInv')
    BY <1>2, <2>1, <2>2, <2>6, <2>7, PersistKeeps
  <2> QED BY <2>6, <2>8
<1>3. ASSUME ExpireDue(Loop), now' = now PROVE QueueTypeInv' /\ (BackedInv => BackedInv')
  <2> DEFINE due == {s \in DOMAIN signals[Loop] : Due(signals[Loop][s])}
             queue == [s \in DOMAIN signals[Loop] |->
                         IF s \in due THEN [signals[Loop][s] EXCEPT !.status = "EXPIRED"]
                         ELSE signals[Loop][s]]
  <2>1. Free(Loop) /\ Persist(Loop, queue, due) /\ UNCHANGED <<running, enqueued, approved, executing>>
    BY <1>3 DEF ExpireDue
  <2>2. DOMAIN signals[Loop] \subseteq Signals /\ DOMAIN queue = DOMAIN signals[Loop] /\ due \subseteq DOMAIN queue
    BY DEF QueueTypeInv, WellFormed
  <2>3. ASSUME NEW s \in DOMAIN queue
        PROVE  /\ queue[s] \in QueuedSignal /\ queue[s].entry = signals[Loop][s].entry
               /\ queue[s].entry <= enqueued
               /\ queue[s].status \in {signals[Loop][s].status, "EXPIRED"}
    <3>1. signals[Loop][s] \in QueuedSignal /\ signals[Loop][s].entry <= enqueued
      BY <2>2 DEF QueueTypeInv, WellFormed
    <3> QED BY <3>1 DEF QueuedSignal, Allowed
  <2> HIDE DEF queue, due
  <2>4. WellFormed(queue, enqueued')
    BY <2>1, <2>2, <2>3 DEF WellFormed
  <2>7. ASSUME BackedInv PROVE Backed(queue, approved')
    BY <2>1, <2>2, <2>3, <2>7 DEF Backed, BackedInv
  <2>8. enqueued \in Nat /\ enqueued \in 0..MaxEnqueued /\ approved \subseteq 1..enqueued
    BY DEF QueueTypeInv
  <2>5. /\ approved \subseteq approved' /\ approved' \subseteq 1..enqueued' /\ enqueued' \in enqueued..MaxEnqueued
        /\ executing' \in [Instances -> Signals \cup {NoId}]
    BY <2>1, <2>8 DEF QueueTypeInv
  <2>6. QueueTypeInv' /\ (BackedInv /\ Backed(queue, approved') => BackedInv')
    BY <1>3, <2>1, <2>2, <2>4, <2>5, PersistKeeps
  <2> QED BY <2>6, <2>7
<1>4. ASSUME NEW s \in Signals, Send(Loop, s), now' = now PROVE QueueTypeInv' /\ (BackedInv => BackedInv')
  BY <1>4 DEF Send, QueueTypeInv, BackedInv, commitVars
<1>5. ASSUME NEW s \in Signals, MarkExecuted(Loop, s), now' = now PROVE QueueTypeInv' /\ (BackedInv => BackedInv')
  <2>1. /\ executing' \in [Instances -> Signals \cup {NoId}]
        /\ running' = running /\ enqueued' = enqueued /\ approved' = approved /\ Free(Loop)
    BY <1>5 DEF MarkExecuted, QueueTypeInv
  <2>2. CASE ~MayBecome(Loop, s, "EXECUTED")
    BY <1>5, <2>1, <2>2 DEF MarkExecuted, QueueTypeInv, BackedInv, commitVars
  <2>3. CASE MayBecome(Loop, s, "EXECUTED")
    <3> DEFINE queue == Moved(Loop, s, "EXECUTED")
    <3>1. /\ signals[Loop][s].entry \in 1..enqueued /\ {s} \subseteq DOMAIN queue
          /\ s \in DOMAIN signals[Loop] /\ signals[Loop][s] \in QueuedSignal
          /\ \E moved \in QueuedSignal :
               queue = Put(signals[Loop], s, moved) /\ moved.entry = signals[Loop][s].entry
      BY <2>3, MovedFacts
    <3>2. Persist(Loop, queue, {s})
      BY <1>5, <2>3 DEF MarkExecuted
    <3> HIDE DEF queue
    <3> PICK moved \in QueuedSignal :
               queue = Put(signals[Loop], s, moved) /\ moved.entry = signals[Loop][s].entry
      BY <3>1
    <3>3. WellFormed(signals[Loop], enqueued) /\ moved.entry <= enqueued /\ enqueued \in Nat
      BY <3>1 DEF QueueTypeInv
    <3>4. signals[Loop][s].status = "APPROVED"
      BY <2>3, <3>1 DEF MayBecome, Allowed, QueuedSignal
    <3>5. BackedInv => Backed(signals[Loop], approved') /\ moved.entry \in approved'
      BY <2>1, <3>1, <3>4 DEF BackedInv, Backed
    <3>6. /\ WellFormed(Put(signals[Loop], s, moved), enqueued)
          /\ Backed(signals[Loop], approved') /\ (moved.status \in {"APPROVED", "EXECUTED"} => moved.entry \in approved')
               => Backed(Put(signals[Loop], s, moved), approved')
      BY <3>1, <3>3, QueuePutFacts
    <3>7. WellFormed(queue, enqueued') /\ (BackedInv => Backed(queue, approved'))
      BY <2>1, <3>1, <3>5, <3>6
    <3>8. approved \subseteq approved' /\ approved' \subseteq 1..enqueued' /\ enqueued' \in enqueued..MaxEnqueued
      BY <2>1 DEF QueueTypeInv
    <3>9. QueueTypeInv' /\ (BackedInv /\ Backed(queue, approved') => BackedInv')
      BY <1>5, <2>1, <3>1, <3>2, <3>7, <3>8, PersistKeeps
    <3> QED BY <3>7, <3>9
  <2> QED BY <2>2, <2>3
<1>6. ASSUME NEW p \in Instances, Load(p), now' = now PROVE QueueTypeInv' /\ (BackedInv => BackedInv')
  <2> PICK row \in {saved, <<>>} : signals' = [signals EXCEPT ![p] = row]
    BY <1>6 DEF Load
  <2>1. /\ DOMAIN signals' = Instances
        /\ \A q \in Instances : signals'[q] = IF q = p THEN row ELSE signals[q]
        /\ executing' \in [Instances -> Signals \cup {NoId}]
        /\ running' \subseteq Instances
        /\ UNCHANGED <<saved, audit, enqueued, approved, closed>>
    BY <1>6 DEF Load, QueueTypeInv
  <2>2. /\ unsaved' \in [Instances -> SUBSET Signals] /\ logging' \in [Instances -> Signals \cup {NoId}]
        /\ \A q \in Instances : unsaved'[q] = IF q = p THEN {} ELSE unsaved[q]
        /\ \A q \in Instances : logging'[q] = IF q = p THEN NoId ELSE logging[q]
    BY <1>6 DEF Load, QueueTypeInv
  <2>3. WellFormed(row, enqueued) /\ (BackedInv => Backed(row, approved))
    BY DEF WellFormed, Backed, QueueTypeInv, BackedInv
  <2>4. \A q \in Instances :
          unsaved'[q] \subseteq DOMAIN signals'[q] /\ (logging'[q] # NoId => logging'[q] \in DOMAIN signals'[q])
    BY <2>1, <2>2 DEF QueueTypeInv
  <2>5. QueueTypeInv'
    BY <1>6, <2>1, <2>2, <2>3, <2>4 DEF QueueTypeInv
  <2>6. BackedInv => BackedInv'
    BY <2>1, <2>3 DEF BackedInv
  <2> QED BY <2>5, <2>6
<1>7. ASSUME Tick, UNCHANGED queueVars PROVE QueueTypeInv' /\ (BackedInv => BackedInv')
  BY <1>7 DEF Tick, queueVars, commitVars, QueueTypeInv, BackedInv
<1>8. ASSUME UNCHANGED <<queueVars, now>> PROVE QueueTypeInv' /\ (BackedInv => BackedInv')
  BY <1>8 DEF queueVars, commitVars, QueueTypeInv, BackedInv
<1>9. ASSUME QueueNext, now' = now PROVE QueueTypeInv' /\ (BackedInv => BackedInv')
  BY <1>1, <1>2, <1>3, <1>4, <1>5, <1>6, <1>9, CommitKeeps DEF QueueNext
<1> QED BY <1>7, <1>8, <1>9 DEF QueueStep

\* Every reachable state of the queue is well typed, whatever the number of instances,
\* signals and calls.
THEOREM QueueTypeCorrect == QueueSpec => []QueueTypeOK
<1>1. ASSUME QueueTypeInv PROVE QueueTypeOK
  BY <1>1 DEF QueueTypeInv, QueueTypeOK, WellFormed, Range
<1>2. QueueInit /\ now = 0 => QueueTypeInv
  BY QueueInitFacts
<1>3. QueueTypeInv /\ [QueueStep]_<<queueVars, now>> => QueueTypeInv'
  BY QueueStepFacts
<1> QED BY <1>1, <1>2, <1>3, PTL DEF QueueSpec, QueueStep

\* Nothing runs that an operator has not approved, however many instances write over
\* each other, whatever commits fail and ids are reused.
THEOREM OnlyApprovedAlwaysRuns == QueueSpec => []OnlyApprovedRuns
<1>1. ASSUME QueueTypeInv, BackedInv PROVE OnlyApprovedRuns
  BY <1>1 DEF QueueTypeInv, BackedInv, Backed, OnlyApprovedRuns
<1>2. QueueInit /\ now = 0 => QueueTypeInv /\ BackedInv
  BY QueueInitFacts
<1>3. QueueTypeInv /\ BackedInv /\ [QueueStep]_<<queueVars, now>> => QueueTypeInv' /\ BackedInv'
  BY QueueStepFacts
<1> QED BY <1>1, <1>2, <1>3, PTL DEF QueueSpec, QueueStep

-----------------------------------------------------------------------------
(* The life of an entry under one instance, whatever commits fail and      *)
(* wherever it dies.                                                       *)

\* One status is the other's, or a later one.
Follows(old, new) == new = old \/ old = Unlogged \/ new \in Later[old]

\* Every entry of a queue is under one id only, no further back than the audit trail has
\* it, and at its end if that has been on the row.
Sound(queue, trail, ends) ==
    /\ \A s, t \in DOMAIN queue : queue[s].entry = queue[t].entry => s = t
    /\ \A s \in DOMAIN queue :
        /\ Follows(trail[queue[s].entry], queue[s].status)
        /\ queue[s].entry \in ends => Allowed[queue[s].status] = {}

\* With one instance both the queue in memory and the row are sound, and they are the same
\* between the two commits of a call; an instance not yet started has no call under way.
SoleInv ==
    /\ Loop \in running /\ IsFiniteSet(running)
    /\ \A p \in Instances \ running : unsaved[p] = {} /\ logging[p] = NoId
    /\ running = {Loop} =>
         /\ Sound(signals[Loop], audit, closed) /\ Sound(saved, audit, closed)
         /\ logging[Loop] # NoId => saved = signals[Loop]
         /\ \A n \in Entries : n > enqueued => audit[n] = Unlogged

TrailObeys == running' = {Loop} => \A n \in Entries : Follows(audit[n], audit'[n])

LEMMA SoleFacts == ASSUME SoleInv, Cardinality(running) = 1 PROVE running = {Loop}
<1>1. \E p : running = {p}
  BY FS_Singleton DEF SoleInv
<1> QED BY <1>1 DEF SoleInv

\* A status the table allows after another follows whatever that one follows.
LEMMA FollowsOn ==
    ASSUME NEW old \in DOMAIN Allowed \cup {Unlogged}, NEW status \in DOMAIN Allowed,
           NEW target \in Allowed[status], Follows(old, status)
    PROVE  Follows(old, target) /\ target \in DOMAIN Allowed /\ Allowed[status] # {}
<1>1. CASE old = Unlogged
  BY <1>1 DEF Follows, Allowed
<1>2. CASE old \in DOMAIN Allowed
  BY <1>2 DEF Follows, Later, Allowed, Unlogged
<1> QED BY <1>1, <1>2

\* A call that changes a sound queue entry by entry, each of them along the table or to a
\* new one, leaves a sound queue.
LEMMA SoundCall ==
    ASSUME QueueTypeInv, NEW old, NEW queue, WellFormed(old, enqueued), Sound(old, audit, closed),
           \A n \in Entries : n > enqueued => audit[n] = Unlogged,
           \A s \in DOMAIN queue :
               \/ s \in DOMAIN old /\ queue[s] = old[s]
               \/ /\ s \in DOMAIN old /\ queue[s].entry = old[s].entry
                  /\ queue[s].status \in Allowed[old[s].status]
               \/ /\ queue[s].entry = enqueued + 1 /\ queue[s].entry \in Entries
                  /\ \A t \in DOMAIN queue \ {s} : t \in DOMAIN old /\ queue[t] = old[t]
    PROVE  Sound(queue, audit, closed)
<1>0. enqueued \in Nat /\ closed \subseteq 1..enqueued
  BY DEF QueueTypeInv
<1>1. \A s \in DOMAIN old : /\ old[s].entry \in 1..enqueued /\ old[s].entry \in Entries
                            /\ old[s].status \in DOMAIN Allowed
  BY <1>0 DEF WellFormed, QueuedSignal, Entries
<1>2. ASSUME NEW s \in DOMAIN queue, NEW t \in DOMAIN queue, queue[s].entry = queue[t].entry PROVE s = t
  BY <1>0, <1>1, <1>2 DEF Sound
<1>3. ASSUME NEW s \in DOMAIN queue
      PROVE  /\ Follows(audit[queue[s].entry], queue[s].status)
             /\ queue[s].entry \in closed => Allowed[queue[s].status] = {}
  <2>1. CASE s \in DOMAIN old /\ queue[s] = old[s]
    BY <2>1 DEF Sound
  <2>2. CASE /\ s \in DOMAIN old /\ queue[s].entry = old[s].entry
             /\ queue[s].status \in Allowed[old[s].status]
    <3>1. /\ audit[old[s].entry] \in DOMAIN Allowed \cup {Unlogged} /\ old[s].status \in DOMAIN Allowed
          /\ Follows(audit[old[s].entry], old[s].status)
          /\ old[s].entry \in closed => Allowed[old[s].status] = {}
      BY <1>1, <2>2 DEF Sound, QueueTypeInv
    <3>2. Follows(audit[old[s].entry], queue[s].status) /\ Allowed[old[s].status] # {}
      BY <2>2, <3>1, FollowsOn
    <3> QED BY <2>2, <3>1, <3>2
  <2>3. CASE queue[s].entry = enqueued + 1 /\ queue[s].entry \in Entries
    BY <1>0, <2>3 DEF Follows
  <2> QED BY <1>3, <2>1, <2>2, <2>3
<1> QED BY <1>2, <1>3 DEF Sound

\* What every call of the loop leaves of the invariant.
LEMMA CallSound ==
    ASSUME QueueTypeInv, SoleInv, NEW p \in Instances, NEW queue, NEW ids, Persist(p, queue, ids), Free(p),
           running' = running, enqueued' \in Nat, enqueued <= enqueued',
           p = Loop /\ running = {Loop} => Sound(queue, audit, closed)
    PROVE  SoleInv' /\ TrailObeys
<1>1. /\ UNCHANGED <<saved, audit, logging, closed>> /\ p \in running
      /\ \A q \in Instances : signals'[q] = IF q = p THEN queue ELSE signals[q]
      /\ \A q \in Instances : unsaved'[q] = IF q = p THEN ids ELSE unsaved[q]
  BY DEF Persist, Free, QueueTypeInv
<1>2. logging[p] = NoId /\ Loop \in Instances /\ enqueued \in Nat
  BY QueueAssumption DEF Free, QueueAssumption, QueueTypeInv
<1>3. \A q \in Instances \ running' : unsaved'[q] = {} /\ logging'[q] = NoId
  BY <1>1 DEF SoleInv
<1>4. ASSUME running = {Loop}
      PROVE  /\ Sound(signals'[Loop], audit', closed') /\ Sound(saved', audit', closed')
             /\ logging'[Loop] # NoId => saved' = signals'[Loop]
             /\ \A n \in Entries : n > enqueued' => audit'[n] = Unlogged
  <2>1. p = Loop
    BY <1>1, <1>4
  <2>2. \A n \in Entries : n > enqueued' => n > enqueued
    BY <1>2 DEF Entries
  <2> QED BY <1>1, <1>2, <1>4, <2>1, <2>2 DEF SoleInv
<1>5. SoleInv'
  BY <1>3, <1>4 DEF SoleInv
<1>6. TrailObeys
  BY <1>1 DEF TrailObeys, Follows
<1> QED BY <1>5, <1>6

\* A transition of the table: the calls that decide one id.
LEMMA MoveSound ==
    ASSUME QueueTypeInv, SoleInv, NEW p \in Instances, NEW s \in Signals, NEW target, MayBecome(p, s, target), Free(p),
           Persist(p, Moved(p, s, target), {s}), running' = running, enqueued' = enqueued
    PROVE  SoleInv' /\ TrailObeys
<1> DEFINE queue == Moved(p, s, target)
<1>1. /\ s \in DOMAIN signals[p]
      /\ \E moved \in QueuedSignal :
           queue = Put(signals[p], s, moved) /\ moved.entry = signals[p][s].entry /\ moved.status = target
  BY MovedFacts
<1>2. Persist(p, queue, {s})
  OBVIOUS
<1> HIDE DEF queue
<1> PICK moved \in QueuedSignal :
           queue = Put(signals[p], s, moved) /\ moved.entry = signals[p][s].entry /\ moved.status = target
  BY <1>1
<1>3. /\ DOMAIN queue = DOMAIN signals[p] /\ queue[s] = moved
      /\ \A t \in DOMAIN queue : t # s => queue[t] = signals[p][t]
  BY <1>1 DEF Put
<1>4. moved.status \in Allowed[signals[p][s].status]
  BY DEF MayBecome
<1>5. \A t \in DOMAIN queue :
        \/ t \in DOMAIN signals[p] /\ queue[t] = signals[p][t]
        \/ /\ t \in DOMAIN signals[p] /\ queue[t].entry = signals[p][t].entry
           /\ queue[t].status \in Allowed[signals[p][t].status]
  BY <1>1, <1>3, <1>4
<1>6. ASSUME p = Loop, running = {Loop} PROVE Sound(queue, audit, closed)
  <2>1. /\ WellFormed(signals[p], enqueued) /\ Sound(signals[p], audit, closed)
        /\ \A n \in Entries : n > enqueued => audit[n] = Unlogged
    BY <1>6 DEF SoleInv, QueueTypeInv
  <2> QED BY <1>5, <2>1, SoundCall
<1>7. enqueued' \in Nat /\ enqueued <= enqueued'
  BY DEF QueueTypeInv
<1> QED BY <1>2, <1>6, <1>7, CallSound

LEMMA SoleInitFacts == ASSUME QueueInit PROVE SoleInv
<1>1. IsFiniteSet({Loop})
  BY FS_Singleton
<1>2. signals[Loop] = <<>> /\ saved = <<>> /\ DOMAIN saved = {} /\ running = {Loop}
  BY QueueAssumption DEF QueueInit, QueueAssumption
<1>3. Sound(<<>>, audit, closed)
  BY DEF Sound
<1>4. \A p \in Instances : unsaved[p] = {} /\ logging[p] = NoId
  BY DEF QueueInit
<1>5. logging[Loop] = NoId
  BY <1>4, QueueAssumption DEF QueueAssumption
<1> QED BY <1>1, <1>2, <1>3, <1>4, <1>5 DEF QueueInit, SoleInv

\* The first commit: the row becomes the queue, and what it shows ended is at its end there
\* as well, for no entry is under two ids.
LEMMA WriteSound == ASSUME QueueTypeInv, SoleInv, NEW p \in Instances, WriteRow(p) PROVE SoleInv' /\ TrailObeys
<1> PICK s \in unsaved[p], done \in SaveResults :
      /\ unsaved' = [unsaved EXCEPT ![p] = @ \ {s}]
      /\ logging' = [logging EXCEPT ![p] = IF done THEN s ELSE NoId]
      /\ saved' = IF done THEN signals[p] ELSE saved
      /\ closed' = IF done THEN closed \cup Ended(signals[p]) ELSE closed
  BY DEF WriteRow
<1>1. UNCHANGED <<running, signals, audit, enqueued>> /\ p \in running /\ logging[p] = NoId /\ Loop \in Instances
  BY QueueAssumption DEF WriteRow, SoleInv, QueueAssumption
<1>2. \A q \in Instances \ running' : unsaved'[q] = {} /\ logging'[q] = NoId
  BY <1>1 DEF SoleInv, QueueTypeInv
<1>3. ASSUME running = {Loop}
      PROVE  /\ Sound(signals[Loop], audit, closed') /\ Sound(saved', audit, closed')
             /\ logging'[Loop] # NoId => saved' = signals[Loop]
  <2>1. p = Loop /\ Sound(signals[Loop], audit, closed) /\ Sound(saved, audit, closed)
    BY <1>1, <1>3 DEF SoleInv
  <2>2. CASE ~done
    BY <1>1, <2>1, <2>2 DEF QueueTypeInv
  <2>3. CASE done
    <3>1. closed' = closed \cup Ended(signals[Loop]) /\ saved' = signals[Loop]
      BY <2>1, <2>3
    <3>2. ASSUME NEW t \in DOMAIN signals[Loop], signals[Loop][t].entry \in Ended(signals[Loop])
          PROVE  Allowed[signals[Loop][t].status] = {}
      <4>1. PICK u \in DOMAIN signals[Loop] :
              Allowed[signals[Loop][u].status] = {} /\ signals[Loop][u].entry = signals[Loop][t].entry
        BY <3>2 DEF Ended
      <4> QED BY <2>1, <4>1 DEF Sound
    <3>3. Sound(signals[Loop], audit, closed')
      BY <2>1, <3>1, <3>2 DEF Sound
    <3> QED BY <3>1, <3>3
  <2> QED BY <2>2, <2>3
<1>4. SoleInv'
  BY <1>1, <1>2, <1>3 DEF SoleInv
<1>5. TrailObeys
  BY <1>1 DEF TrailObeys, Follows
<1> QED BY <1>4, <1>5

\* The second: the trail catches up with the queue, which is the row as well.
LEMMA LogSound == ASSUME QueueTypeInv, SoleInv, NEW p \in Instances, LogDecision(p) PROVE SoleInv' /\ TrailObeys
<1> DEFINE signal == signals[p][logging[p]]
<1>1. /\ UNCHANGED <<running, signals, saved, enqueued, unsaved, closed>> /\ p \in running /\ logging[p] # NoId
      /\ logging' = [logging EXCEPT ![p] = NoId] /\ Loop \in Instances
      /\ audit' \in {audit, [audit EXCEPT ![signal.entry] = signal.status]}
  BY QueueAssumption DEF LogDecision, SoleInv, QueueAssumption
<1>2. logging[p] \in DOMAIN signals[p] /\ signal.entry \in 1..enqueued /\ signal.entry \in Entries
  BY <1>1 DEF QueueTypeInv, WellFormed, QueuedSignal, Entries
<1>3. \A q \in Instances \ running' : unsaved'[q] = {} /\ logging'[q] = NoId
  BY <1>1 DEF SoleInv, QueueTypeInv
<1>4. logging'[p] = NoId /\ DOMAIN audit = Entries /\ enqueued \in Nat
  BY <1>1 DEF QueueTypeInv
<1>5. ASSUME running = {Loop}
      PROVE  /\ Sound(signals[Loop], audit', closed) /\ saved = signals[Loop] /\ p = Loop
             /\ \A n \in Entries : n > enqueued => audit'[n] = Unlogged
             /\ \A n \in Entries : Follows(audit[n], audit'[n])
  <2>1. /\ p = Loop /\ Sound(signals[Loop], audit, closed) /\ saved = signals[Loop]
        /\ \A n \in Entries : n > enqueued => audit[n] = Unlogged
    BY <1>1, <1>5 DEF SoleInv
  <2>2. CASE audit' = audit
    BY <2>1, <2>2 DEF Follows
  <2>3. CASE audit' = [audit EXCEPT ![signal.entry] = signal.status]
    <3>1. Follows(audit[signal.entry], signal.status)
      BY <1>2, <2>1 DEF Sound
    <3>2. ASSUME NEW n \in Entries PROVE audit'[n] = IF n = signal.entry THEN signal.status ELSE audit[n]
      BY <1>4, <2>3
    <3>3. ASSUME NEW t \in DOMAIN signals[Loop]
          PROVE  Follows(audit'[signals[Loop][t].entry], signals[Loop][t].status)
      <4>1. signals[Loop][t].entry \in Entries
        BY <1>1 DEF QueueTypeInv, WellFormed, QueuedSignal
      <4>2. CASE signals[Loop][t].entry = signal.entry
        <5>1. t = logging[p]
          BY <1>2, <2>1, <4>2 DEF Sound
        <5> QED BY <2>1, <3>2, <4>1, <4>2, <5>1 DEF Follows
      <4>3. CASE signals[Loop][t].entry # signal.entry
        BY <2>1, <3>2, <4>1, <4>3 DEF Sound
      <4> QED BY <4>2, <4>3
    <3>4. \A n \in Entries : n > enqueued => n # signal.entry
      BY <1>2, <1>4 DEF Entries
    <3> HIDE DEF signal
    <3>5. Sound(signals[Loop], audit', closed)
      BY <2>1, <3>3 DEF Sound
    <3>6. \A n \in Entries : Follows(audit[n], audit'[n])
      BY <3>1, <3>2 DEF Follows
    <3> QED BY <2>1, <3>2, <3>4, <3>5, <3>6
  <2> QED BY <1>1, <2>2, <2>3
<1> HIDE DEF signal
<1>6. SoleInv'
  BY <1>1, <1>3, <1>4, <1>5 DEF SoleInv
<1>7. TrailObeys
  BY <1>1, <1>5 DEF TrailObeys
<1> QED BY <1>6, <1>7

\* An order goes out for an entry that has not come to its end on the row.
SentOpen ==
    running = {Loop} =>
        \A p \in Instances :
            executing'[p] \notin {executing[p], NoId} => signals[p][executing'[p]].entry \notin closed

LEMMA SoleStepFacts ==
    ASSUME QueueTypeInv, QueueTypeInv', SoleInv, [QueueStep]_<<queueVars, now>>
    PROVE  SoleInv' /\ TrailObeys /\ SentOpen
<1> USE QueueAssumption DEF QueueAssumption
<1>0. Loop \in Instances /\ enqueued \in Nat /\ enqueued' \in Nat
  BY DEF QueueTypeInv
<1>1. ASSUME running' = running, UNCHANGED <<signals, saved, audit, enqueued, commitVars>>
      PROVE  SoleInv' /\ TrailObeys
  BY <1>1 DEF SoleInv, TrailObeys, Follows, commitVars
<1>2. ASSUME executing' = executing PROVE SentOpen
  BY <1>2 DEF SentOpen
<1>3. ASSUME NEW s \in Signals, Enqueue(Loop, s) PROVE SoleInv' /\ TrailObeys /\ SentOpen
  <2> DEFINE new == [entry |-> enqueued + 1, status |-> "PENDING", expires |-> now + Ttl]
             queue == Put(signals[Loop], s, new)
  <2>1. /\ Persist(Loop, queue, {s}) /\ Free(Loop) /\ running' = running /\ executing' = executing
        /\ enqueued' = enqueued + 1 /\ enqueued + 1 \in Entries
    BY <1>0, <1>3 DEF Enqueue, Entries
  <2>2. new.entry = enqueued + 1
    OBVIOUS
  <2> HIDE DEF new
  <2>3. /\ s \in DOMAIN queue /\ queue[s] = new
        /\ \A t \in DOMAIN queue \ {s} : t \in DOMAIN signals[Loop] /\ queue[t] = signals[Loop][t]
    BY DEF Put
  <2> HIDE DEF queue
  <2>4. ASSUME running = {Loop} PROVE Sound(queue, audit, closed)
    <3>1. /\ WellFormed(signals[Loop], enqueued) /\ Sound(signals[Loop], audit, closed)
          /\ \A n \in Entries : n > enqueued => audit[n] = Unlogged
      BY <1>0, <2>4 DEF SoleInv, QueueTypeInv
    <3>2. queue[s].entry = enqueued + 1 /\ queue[s].entry \in Entries
      BY <2>1, <2>2, <2>3
    <3>3. \A t \in DOMAIN queue :
               \/ t \in DOMAIN signals[Loop] /\ queue[t] = signals[Loop][t]
               \/ /\ queue[t].entry = enqueued + 1 /\ queue[t].entry \in Entries
                  /\ \A u \in DOMAIN queue \ {t} : u \in DOMAIN signals[Loop] /\ queue[u] = signals[Loop][u]
      BY <2>3, <3>2
    <3> QED BY <3>1, <3>3, SoundCall
  <2>5. enqueued <= enqueued'
    BY <1>0, <2>1
  <2> QED BY <1>0, <1>2, <2>1, <2>4, <2>5, CallSound
<1>4. ASSUME NEW p \in Instances, NEW s \in Signals, NEW target \in {"APPROVED", "REJECTED", "CANCELLED"},
             Decide(p, s, target)
      PROVE  SoleInv' /\ TrailObeys /\ SentOpen
  BY <1>2, <1>4, MoveSound DEF Decide
<1>5. ASSUME ExpireDue(Loop) PROVE SoleInv' /\ TrailObeys /\ SentOpen
  <2> DEFINE due == {s \in DOMAIN signals[Loop] : Due(signals[Loop][s])}
             queue == [s \in DOMAIN signals[Loop] |->
                         IF s \in due THEN [signals[Loop][s] EXCEPT !.status = "EXPIRED"]
                         ELSE signals[Loop][s]]
  <2>1. /\ Free(Loop) /\ Persist(Loop, queue, due) /\ running' = running /\ enqueued' = enqueued
        /\ executing' = executing
    BY <1>5 DEF ExpireDue
  <2>2. ASSUME NEW s \in DOMAIN queue
        PROVE  \/ s \in DOMAIN signals[Loop] /\ queue[s] = signals[Loop][s]
               \/ /\ s \in DOMAIN signals[Loop] /\ queue[s].entry = signals[Loop][s].entry
                  /\ queue[s].status \in Allowed[signals[Loop][s].status]
    <3>1. s \in DOMAIN signals[Loop] /\ signals[Loop][s] \in QueuedSignal
      BY <1>0 DEF QueueTypeInv, WellFormed
    <3>2. CASE s \notin due
      BY <3>1, <3>2
    <3>3. CASE s \in due
      <4>1. signals[Loop][s].status = "PENDING"
        BY <3>3 DEF Due
      <4>2. queue[s] = [signals[Loop][s] EXCEPT !.status = "EXPIRED"]
        BY <3>1, <3>3
      <4>3. queue[s].entry = signals[Loop][s].entry /\ queue[s].status = "EXPIRED"
        BY <3>1, <4>2 DEF QueuedSignal
      <4> QED BY <3>1, <4>1, <4>3 DEF Allowed
    <3> QED BY <3>2, <3>3
  <2> HIDE DEF queue, due
  <2>3. ASSUME running = {Loop} PROVE Sound(queue, audit, closed)
    <3>1. /\ WellFormed(signals[Loop], enqueued) /\ Sound(signals[Loop], audit, closed)
          /\ \A n \in Entries : n > enqueued => audit[n] = Unlogged
      BY <1>0, <2>3 DEF SoleInv, QueueTypeInv
    <3> QED BY <2>2, <3>1, SoundCall
  <2>4. enqueued <= enqueued'
    BY <1>0, <2>1
  <2> QED BY <1>0, <1>2, <2>1, <2>3, <2>4, CallSound
<1>6. ASSUME NEW s \in Signals, Send(Loop, s) PROVE SoleInv' /\ TrailObeys /\ SentOpen
  <2>1. /\ UNCHANGED <<running, signals, saved, audit, enqueued, approved, commitVars>>
        /\ executing' = [executing EXCEPT ![Loop] = s]
        /\ s \in DOMAIN signals[Loop] /\ signals[Loop][s].status = "APPROVED"
    BY <1>6 DEF Send
  <2>2. running = {Loop} => signals[Loop][s].entry \notin closed
    <3>1. Allowed["APPROVED"] # {}
      BY DEF Allowed
    <3> QED BY <2>1, <3>1 DEF SoleInv, Sound
  <2>3. \A p \in Instances : executing'[p] = IF p = Loop THEN s ELSE executing[p]
    BY <1>0, <2>1 DEF QueueTypeInv
  <2>4. SentOpen
    BY <2>2, <2>3 DEF SentOpen
  <2> QED BY <1>1, <2>1, <2>4
<1>7. ASSUME NEW s \in Signals, MarkExecuted(Loop, s) PROVE SoleInv' /\ TrailObeys /\ SentOpen
  <2>1. /\ running' = running /\ enqueued' = enqueued /\ Free(Loop)
        /\ \A p \in Instances : executing'[p] \in {executing[p], NoId}
    BY <1>7 DEF MarkExecuted, QueueTypeInv
  <2>2. SentOpen
    BY <2>1 DEF SentOpen
  <2>3. CASE ~MayBecome(Loop, s, "EXECUTED")
    BY <1>1, <1>7, <2>1, <2>2, <2>3 DEF MarkExecuted
  <2>4. CASE MayBecome(Loop, s, "EXECUTED")
    <3>1. Persist(Loop, Moved(Loop, s, "EXECUTED"), {s})
      BY <1>7, <2>4 DEF MarkExecuted
    <3> QED BY <1>0, <2>1, <2>2, <2>4, <3>1, MoveSound
  <2> QED BY <2>3, <2>4
<1>8. ASSUME NEW p \in Instances, Load(p) PROVE SoleInv' /\ TrailObeys /\ SentOpen
  <2> PICK row \in {saved, <<>>} : signals' = [signals EXCEPT ![p] = row]
    BY <1>8 DEF Load
  <2>1. /\ running' = running \cup {p} /\ UNCHANGED <<saved, audit, enqueued, approved, closed>>
        /\ \A q \in Instances : signals'[q] = IF q = p THEN row ELSE signals[q]
        /\ \A q \in Instances : unsaved'[q] = IF q = p THEN {} ELSE unsaved[q]
        /\ \A q \in Instances : logging'[q] = IF q = p THEN NoId ELSE logging[q]
        /\ \A q \in Instances : executing'[q] \in {executing[q], NoId}
    BY <1>8 DEF Load, QueueTypeInv
  <2>2. IsFiniteSet(running') /\ Loop \in running'
    BY <2>1, FS_AddElement DEF SoleInv
  <2>3. ASSUME running' = {Loop} PROVE running = {Loop} /\ p = Loop
    BY <2>1, <2>3 DEF SoleInv
  <2>4. Sound(<<>>, audit, closed)
    BY DEF Sound
  <2>5. SoleInv'
    BY <1>0, <2>1, <2>2, <2>3, <2>4 DEF SoleInv
  <2> QED BY <2>1, <2>5 DEF TrailObeys, Follows, SentOpen
<1>9. ASSUME NEW p \in Instances, WriteRow(p) \/ LogDecision(p) PROVE SoleInv' /\ TrailObeys /\ SentOpen
  BY <1>2, <1>9, WriteSound, LogSound DEF WriteRow, LogDecision
<1>10. ASSUME UNCHANGED queueVars PROVE SoleInv' /\ TrailObeys /\ SentOpen
  BY <1>1, <1>2, <1>10 DEF queueVars
<1> QED BY <1>3, <1>4, <1>5, <1>6, <1>7, <1>8, <1>9, <1>10 DEF QueueStep, QueueNext

LEMMA SoleHolds == QueueSpec => [](QueueTypeInv /\ SoleInv)
<1>1. QueueInit /\ now = 0 => QueueTypeInv /\ SoleInv
  BY QueueInitFacts, SoleInitFacts
<1>2. QueueTypeInv /\ SoleInv /\ [QueueStep]_<<queueVars, now>> => (QueueTypeInv /\ SoleInv)'
  BY QueueStepFacts, SoleStepFacts
<1> QED BY <1>1, <1>2, PTL DEF QueueSpec, QueueStep

\* With one instance the audit trail only goes forward along the table, whatever commits
\* fail and wherever the instance dies.
THEOREM AuditAlwaysObeysTable == QueueSpec => AuditObeysTable
<1>1. QueueTypeInv /\ SoleInv /\ (QueueTypeInv /\ SoleInv)' /\ [QueueStep]_<<queueVars, now>> =>
        [Sole' => \A n \in Entries :
            audit'[n] = audit[n] \/ audit[n] = Unlogged \/ audit'[n] \in Later[audit[n]]]_<<queueVars, now>>
  <2> SUFFICES ASSUME QueueTypeInv, SoleInv, QueueTypeInv', SoleInv', [QueueStep]_<<queueVars, now>>, Sole'
               PROVE  \A n \in Entries :
                        audit'[n] = audit[n] \/ audit[n] = Unlogged \/ audit'[n] \in Later[audit[n]]
    OBVIOUS
  <2>1. running' = {Loop}
    <3>1. Loop \in running' /\ IsFiniteSet(running') /\ Cardinality(running') = 1
      BY DEF SoleInv, Sole
    <3>2. \E p : running' = {p}
      BY <3>1, FS_Singleton
    <3> QED BY <3>1, <3>2
  <2>2. TrailObeys
    BY SoleStepFacts
  <2> QED BY <2>1, <2>2 DEF TrailObeys, Follows
<1> QED BY <1>1, SoleHolds, PTL DEF QueueSpec, QueueStep, AuditObeysTable

\* With one instance, once the end of an entry has been on the row no order is sent for it.
THEOREM NothingEverSentOnceClosed == QueueSpec => NothingSentOnceClosed
<1>1. QueueTypeInv /\ SoleInv /\ (QueueTypeInv /\ SoleInv)' /\ [QueueStep]_<<queueVars, now>> =>
        [\A p \in Instances :
            executing'[p] \notin {executing[p], NoId} /\ Sole =>
                signals[p][executing'[p]].entry \notin closed]_<<queueVars, now>>
  BY SoleStepFacts, SoleFacts DEF Sole, SentOpen
<1> QED BY <1>1, SoleHolds, PTL DEF QueueSpec, QueueStep, NothingSentOnceClosed

-----------------------------------------------------------------------------
(* The recovery ramp, beside any breaker that keeps what HaltLatch promises. *)

\* The ramp in memory is the row's; what a size depends on dates from the last
\* resume(); the end of a cooling-off is held until a resume() that came after it.
RampInv ==
    /\ now \in Nat
    /\ ramp \in RampFields /\ rampRow = ramp
    /\ resumed \in Nat \cup {Never} /\ served \in Nat \cup {Never}
    /\ ~ramp.frozen => ramp.start = resumed /\ resumed # Never /\ ~ramp.halted
    /\ IF ramp.coolingOffUntil = Never THEN served <= now ELSE served = ramp.coolingOffUntil

RampOrTick == (RampNext /\ UNCHANGED now) \/ (Tick /\ UNCHANGED rampVars)

LEMMA RampInitFacts == ASSUME RampInit, now = 0 PROVE RampInv
<1>1. Fresh \in RampFields /\ Fresh.frozen = TRUE /\ Fresh.coolingOffUntil = Never
  BY DEF RampFields, Fresh
<1>2. ramp = Fresh /\ rampRow = Fresh /\ resumed = Never /\ served = Never /\ now = 0
  BY DEF RampInit
<1>3. served <= now
  BY <1>2 DEF Never
<1> QED BY <1>1, <1>2, <1>3 DEF RampInv

\* What the two actions that write the ramp write.
LEMMA HaltKeeps ==
    ASSUME RampInv, NEW coolingOff \in BOOLEAN, MarkHalted(coolingOff), now' = now
    PROVE  RampInv'
<1> DEFINE until == IF coolingOff THEN now + CoolingOff ELSE ramp.coolingOffUntil
           fields == [frozen |-> TRUE, halted |-> TRUE, start |-> ramp.start,
                      coolingOffUntil |-> until, anchor |-> ramp.anchor]
<1>1. until \in Nat \cup {Never}
  BY TiersAssumption DEF TiersAssumption, RampInv, RampFields
<1>2. Halted(coolingOff) = fields
  <2> HIDE DEF until
  <2>1. Halted(coolingOff) = [ramp EXCEPT !.halted = TRUE, !.frozen = TRUE, !.coolingOffUntil = until]
    BY DEF Halted, until
  <2>2. ramp \in RampFields
    BY DEF RampInv
  <2> QED BY <2>1, <2>2 DEF RampFields
<1>3. fields \in RampFields
  BY <1>1 DEF RampInv, RampFields
<1>4. ramp' = fields /\ rampRow' = fields /\ resumed' = resumed
      /\ served' = IF coolingOff THEN now + CoolingOff ELSE served
  BY <1>2 DEF MarkHalted, Keep
<1>5. served' \in Nat \cup {Never}
      /\ IF until = Never THEN served' <= now ELSE served' = until
  BY <1>4, TiersAssumption DEF TiersAssumption, RampInv, Never
<1>6. ramp'.frozen = TRUE /\ ramp'.coolingOffUntil = until
  BY <1>4
<1> HIDE DEF until, fields
<1> QED BY <1>3, <1>4, <1>5, <1>6 DEF RampInv

LEMMA ResumeKeeps ==
    ASSUME RampInv, NEW equity \in Equity \cup {Never}, ResumeRamp(equity), now' = now
    PROVE  RampInv'
<1> DEFINE fields == [frozen |-> FALSE, halted |-> FALSE, start |-> now,
                      coolingOffUntil |-> Never, anchor |-> equity]
<1>1. fields \in RampFields
  BY DEF RampInv, RampFields
<1>2. ramp' = fields /\ rampRow' = fields /\ resumed' = now /\ served' = served
  BY DEF ResumeRamp, Keep
<1>3. served <= now /\ now # Never
  BY DEF ResumeRamp, InCoolingOff, RampInv, RampFields, Never
<1> QED BY <1>1, <1>2, <1>3 DEF RampInv

\* The invariant survives every step of the ramp, of the breaker and of the clock.
LEMMA RampStepFacts == ASSUME RampInv, [RampOrTick]_<<rampVars, now>> PROVE RampInv'
<1>1. ASSUME RampNext, now' = now PROVE RampInv'
  <2>1. CASE ObserveBreaker
    BY <1>1, <2>1, HaltKeeps DEF ObserveBreaker
  <2>2. CASE MarkHalted(TRUE)
    BY <1>1, <2>2, HaltKeeps
  <2>3. CASE Reload
    BY <1>1, <2>3 DEF Reload, RampInv
  <2>4. CASE BreakerStep
    BY <1>1, <2>4 DEF BreakerStep, RampInv
  <2>5. ASSUME NEW equity \in Equity \cup {Never}, ResumeRamp(equity) PROVE RampInv'
    BY <1>1, <2>5, ResumeKeeps
  <2> QED BY <1>1, <2>1, <2>2, <2>3, <2>4, <2>5 DEF RampNext
<1>2. ASSUME Tick, UNCHANGED rampVars PROVE RampInv'
  <2>1. now' \in Nat /\ now <= now'
    BY <1>2 DEF Tick, RampInv
  <2>2. ramp' = ramp /\ rampRow' = rampRow /\ resumed' = resumed /\ served' = served
    BY <1>2 DEF rampVars
  <2>3. IF ramp.coolingOffUntil = Never THEN served <= now' ELSE served = ramp.coolingOffUntil
    <3>1. now \in Int /\ now' \in Int /\ served \in Int
      BY <2>1 DEF RampInv, Never
    <3> QED BY <2>1, <3>1 DEF RampInv
  <2> QED BY <2>1, <2>2, <2>3 DEF RampInv
<1>3. ASSUME UNCHANGED <<rampVars, now>> PROVE RampInv'
  BY <1>3 DEF rampVars, RampInv
<1> QED BY <1>1, <1>2, <1>3 DEF RampOrTick

\* A tier is a percentage, and the third is at most any that the fourth is at most.
LEMMA TierFacts ==
    ASSUME NEW elapsed \in Int
    PROVE  TierOf(elapsed) \in 1..100 /\ (TierOf(elapsed) >= Tiers[4] => Tiers[3] <= TierOf(elapsed))
<1>1. Tiers[1] \in 1..100 /\ Tiers[2] \in 1..100 /\ Tiers[3] \in 1..100 /\ Tiers[4] \in 1..100 /\ Tiers[3] <= Tiers[4]
  BY TiersAssumption DEF TiersAssumption
<1>2. TierOf(elapsed) \in {Tiers[1], Tiers[2], Tiers[3], Tiers[4]}
  BY DEF TierOf
<1>3. Tiers[1] \in Int /\ Tiers[2] \in Int /\ Tiers[3] \in Int /\ Tiers[4] \in Int
  BY <1>1
<1>4. TierOf(elapsed) \in 1..100
  BY <1>1, <1>2
<1>5. TierOf(elapsed) >= Tiers[4] => Tiers[3] <= TierOf(elapsed)
  BY <1>1, <1>3, <1>4
<1> QED BY <1>4, <1>5

\* What gives an order a size.
LEMMA SizeFacts ==
    ASSUME RampInv, NEW equity \in Equity \cup {Never}, SizeOrder(100, equity) > 0
    PROVE  /\ ~ramp.frozen /\ ramp.start # Never /\ ~InCoolingOff
           /\ SizeOrder(100, equity) <= TierOf(now - ramp.start)
<1> DEFINE tier == TierOf(now - ramp.start)
<1>1. now - ramp.start \in Int
  BY DEF RampInv, RampFields, Never
<1>2. tier \in 1..100 /\ (tier >= Tiers[4] => Tiers[3] <= tier)
  BY <1>1, TierFacts
<1>3. Tiers[3] \in 1..100
  BY TiersAssumption DEF TiersAssumption
<1>4. Multiplier(equity) \in {0, tier} \/ (Multiplier(equity) = Tiers[3] /\ tier >= Tiers[4])
  BY DEF Multiplier
<1> HIDE DEF tier
<1>5. Multiplier(equity) \in 0..100 /\ Multiplier(equity) <= tier
  BY <1>2, <1>3, <1>4
<1>6. SizeOrder(100, equity) = Multiplier(equity)
  BY <1>5 DEF SizeOrder
<1>7. Multiplier(equity) # 0
  BY <1>5, <1>6
<1>8. ~ramp.frozen /\ ramp.start # Never /\ ~InCoolingOff
  BY <1>7 DEF Multiplier
<1> QED BY <1>5, <1>6, <1>8 DEF tier

\* Size is given back by a resume and by time alone, and never inside the cooling-off,
\* whatever halts, resumes, restarts and steps of the breaker come in between.
THEOREM SizeIsAlwaysEarned == RampSpec => []SizeIsEarned
<1>1. ASSUME RampInv PROVE SizeIsEarned
  <2> SUFFICES ASSUME NEW equity \in Equity \cup {Never}, SizeOrder(100, equity) > 0
               PROVE  /\ resumed # Never /\ SizeOrder(100, equity) <= TierOf(now - resumed)
                      /\ ~ramp.halted /\ now >= served
    BY DEF SizeIsEarned
  <2>1. /\ ~ramp.frozen /\ ramp.start # Never /\ ~InCoolingOff
        /\ SizeOrder(100, equity) <= TierOf(now - ramp.start)
    BY <1>1, SizeFacts
  <2>2. ramp.start = resumed /\ resumed # Never /\ ~ramp.halted
    BY <1>1, <2>1 DEF RampInv
  <2>3. now >= served
    BY <1>1, <2>1 DEF RampInv, RampFields, InCoolingOff, Never
  <2> QED BY <2>1, <2>2, <2>3
<1>2. RampInit /\ now = 0 => RampInv
  BY RampInitFacts
<1>3. RampInv /\ [RampOrTick]_<<rampVars, now>> => RampInv'
  BY RampStepFacts
<1> QED BY <1>1, <1>2, <1>3, PTL DEF RampSpec, RampOrTick

\* Ramp and row hold fields of the ramp at all times, beside a breaker whose seal is never
\* on an open latch.
THEOREM RampTypeCorrect == RampSpec => []RampTypeOK
<1>1. RampInit /\ now = 0 => RampInv /\ LatchTypeOK
  BY RampInitFacts DEF RampInit, LatchInit, LatchTypeOK, Modes
<1>2. RampInv /\ LatchTypeOK /\ [RampOrTick]_<<rampVars, now>> => (RampInv /\ LatchTypeOK)'
  <2> SUFFICES ASSUME RampInv, LatchTypeOK, [RampOrTick]_<<rampVars, now>> PROVE LatchTypeOK'
    BY RampStepFacts
  <2>1. CASE LatchNext
    <3>1. CASE Trip
      BY <3>1 DEF Trip, LatchTypeOK, Modes
    <3>2. CASE Clear
      BY <3>2 DEF Clear, LatchTypeOK, Modes
    <3>3. CASE Release
      <4>1. PICK g \in granted : granted' = granted \ {g}
        BY <3>3 DEF Release
      <4> QED BY <3>3, <4>1 DEF Release, LatchTypeOK, Modes
    <3>4. CASE Unseal
      BY <3>4 DEF Unseal, LatchTypeOK
    <3>5. CASE Regrant
      BY <3>5 DEF Regrant, LatchTypeOK
    <3>6. CASE Recover
      BY <3>6 DEF Recover, LatchTypeOK, Modes, Rank
    <3> QED BY <2>1, <3>1, <3>2, <3>3, <3>4, <3>5, <3>6 DEF LatchNext
  <2>2. CASE UNCHANGED latchVars
    BY <2>2 DEF latchVars, LatchTypeOK
  <2>3. LatchNext \/ UNCHANGED latchVars
    BY DEF RampOrTick, RampNext, ObserveBreaker, MarkHalted, Reload, BreakerStep, ResumeRamp, rampVars, latchVars
  <2> QED BY <2>1, <2>2, <2>3
<1>3. RampInv /\ LatchTypeOK => RampTypeOK
  BY DEF RampInv, RampTypeOK
<1> QED BY <1>1, <1>2, <1>3, PTL DEF RampSpec, RampOrTick

-----------------------------------------------------------------------------
(* The scheduler.                                                          *)

\* JobDue() of a job with a given stamp.
DueWith(stamp, name, t) ==
    /\ SessionPhase(t) \in JobTable[name].phases
    /\ \/ JobTable[name].interval <= 0 \/ stamp = NeverRan
       \/ t - stamp >= JobTable[name].interval

\* The list of a cycle holds each job once; a job on it that is still registered is due,
\* and stamps are as old as the runs they stand for.
SchedInv ==
    /\ now \in Nat
    /\ DOMAIN jobs \subseteq Names /\ IsFiniteSet(DOMAIN jobs)
    /\ DOMAIN ran = Names
    /\ \A n \in Names : ran[n] \in Int /\ NeverRan <= ran[n] /\ ran[n] <= now
    /\ \A n \in DOMAIN jobs : jobs[n] = ran[n]
    /\ cycleAt # Idle => cycleAt \in Nat /\ cycleAt <= now /\ \A n \in Names : ran[n] <= cycleAt
    /\ todo \in Seq(Names) /\ (cycleAt = Idle => todo = <<>>)
    /\ \A i, j \in 1..Len(todo) : todo[i] = todo[j] => i = j
    /\ \A i \in 1..Len(todo) : /\ SessionPhase(cycleAt) \in JobTable[todo[i]].phases
                               /\ todo[i] \in DOMAIN jobs => DueWith(jobs[todo[i]], todo[i], cycleAt)
    /\ cycleAt # Idle => listedAt = cycleAt /\ \A n \in owed : \E i \in 1..Len(todo) : todo[i] = n
    /\ \A n \in owed : /\ n \in DOMAIN jobs /\ SessionPhase(listedAt) \in JobTable[n].phases
                       /\ DueWith(jobs[n], n, listedAt)

SchedOrTick == (SchedNext /\ UNCHANGED now) \/ (Tick /\ UNCHANGED schedVars)

LEMMA SchedInitFacts == ASSUME SchedInit, now = 0 PROVE SchedInv
<1>1. jobs = <<>> /\ cycleAt = Idle /\ todo = <<>> /\ ran = [name \in Names |-> NeverRan] /\ owed = {}
  BY DEF SchedInit
<1>2. DOMAIN jobs = {} /\ IsFiniteSet({})
  BY <1>1, FS_EmptySet
<1>3. todo \in Seq(Names) /\ Len(todo) = 0
  BY <1>1
<1>4. DOMAIN ran = Names /\ \A n \in Names : ran[n] = -1
  BY <1>1 DEF NeverRan
<1> QED BY <1>1, <1>2, <1>3, <1>4 DEF SchedInv, NeverRan

\* A job on the rest of the list is not the one that was called, and was on the list.
LEMMA RestFacts ==
    ASSUME todo \in Seq(Names), todo # <<>>, \A i, j \in 1..Len(todo) : todo[i] = todo[j] => i = j
    PROVE  /\ Tail(todo) \in Seq(Names) /\ Called \in Names /\ Called = todo[1] /\ 1 \in 1..Len(todo)
           /\ \A i \in 1..Len(Tail(todo)) :
                i + 1 \in 1..Len(todo) /\ Tail(todo)[i] = todo[i + 1] /\ Tail(todo)[i] # Called
           /\ \A i, j \in 1..Len(Tail(todo)) : Tail(todo)[i] = Tail(todo)[j] => i = j
           /\ \A i \in 1..Len(todo) : todo[i] # Called => \E j \in 1..Len(Tail(todo)) : Tail(todo)[j] = todo[i]
<1>1. /\ Tail(todo) \in Seq(Names) /\ Len(todo) \in Nat /\ Len(todo) > 0 /\ Len(Tail(todo)) = Len(todo) - 1
      /\ \A i \in 1..Len(Tail(todo)) : Tail(todo)[i] = todo[i + 1]
      /\ Called = todo[1] /\ Called \in Names
  BY DEF Called
<1>2. \A i \in 1..Len(Tail(todo)) : i + 1 \in 1..Len(todo) /\ i + 1 # 1 /\ 1 \in 1..Len(todo)
  BY <1>1
<1>3. \A i \in 1..Len(Tail(todo)) : Tail(todo)[i] # Called
  BY <1>1, <1>2
<1>4. \A i, j \in 1..Len(Tail(todo)) : Tail(todo)[i] = Tail(todo)[j] => i = j
  BY <1>1, <1>2
<1>5. ASSUME NEW i \in 1..Len(todo), todo[i] # Called
      PROVE  \E j \in 1..Len(Tail(todo)) : Tail(todo)[j] = todo[i]
  <2>1. i - 1 \in 1..Len(Tail(todo)) /\ (i - 1) + 1 = i
    BY <1>1, <1>5
  <2>2. Tail(todo)[i - 1] = todo[i]
    BY <1>1, <2>1
  <2> QED BY <2>1, <2>2
<1>6. 1 \in 1..Len(todo)
  BY <1>1
<1> QED BY <1>1, <1>2, <1>3, <1>4, <1>5, <1>6

LEMMA BeginKeeps == ASSUME SchedInv, BeginCycle, now' = now PROVE SchedInv'
<1> DEFINE due == {name \in DOMAIN jobs : JobDue(name, now)}
<1>1. /\ cycleAt = Idle /\ cycleAt' = now /\ todo' \in SetToSeqs(due)
      /\ owed' = Range(todo') /\ jobs' = jobs /\ ran' = ran /\ listedAt' = now
  BY DEF BeginCycle
<1>2. due \subseteq Names /\ Cardinality(due) \in Nat
  <2>1. due \in SUBSET DOMAIN jobs
    OBVIOUS
  <2>2. IsFiniteSet(due)
    BY <2>1, FS_Subset DEF SchedInv
  <2> QED BY <2>1, <2>2, FS_CardinalityType DEF SchedInv
<1>3. /\ todo' \in [1..Cardinality(due) -> due]
      /\ \A i, j \in 1..Cardinality(due) : i # j => todo'[i] # todo'[j]
  BY <1>1 DEF SetToSeqs
<1> HIDE DEF due
<1>4. todo' \in Seq(Names) /\ Len(todo') = Cardinality(due) /\ DOMAIN todo' = 1..Len(todo')
  BY <1>2, <1>3
<1>5. \A i, j \in 1..Len(todo') : todo'[i] = todo'[j] => i = j
  BY <1>3, <1>4
<1>6. \A i \in 1..Len(todo') : todo'[i] \in DOMAIN jobs /\ JobDue(todo'[i], now)
  BY <1>3, <1>4 DEF due
<1>7. \A i \in 1..Len(todo') : /\ todo'[i] \in DOMAIN jobs' /\ SessionPhase(cycleAt') \in JobTable[todo'[i]].phases
                               /\ DueWith(jobs'[todo'[i]], todo'[i], cycleAt')
  BY <1>1, <1>6 DEF JobDue, DueWith
<1>8. \A n \in owed' : \E i \in 1..Len(todo') : todo'[i] = n
  BY <1>1, <1>4 DEF Range
<1>10. \A n \in owed' : /\ n \in DOMAIN jobs' /\ SessionPhase(listedAt') \in JobTable[n].phases
                        /\ DueWith(jobs'[n], n, listedAt')
  BY <1>1, <1>7, <1>8
<1>9. now \in Nat /\ now # Idle /\ \A n \in Names : ran[n] <= now
  BY DEF SchedInv, Idle
<1> QED BY <1>1, <1>4, <1>5, <1>7, <1>8, <1>9, <1>10 DEF SchedInv

LEMMA AddKeeps == ASSUME SchedInv, NEW name \in Names, Add(name), now' = now PROVE SchedInv'
<1>1. /\ cycleAt = Idle /\ cycleAt' = Idle /\ todo' = todo /\ owed' = owed /\ listedAt' = listedAt
      /\ jobs' = [n \in DOMAIN jobs \cup {name} |-> IF n = name THEN NeverRan ELSE jobs[n]]
      /\ ran' = [ran EXCEPT ![name] = NeverRan]
  BY DEF Add
<1>2. todo = <<>> /\ Len(todo') = 0
  BY <1>1 DEF SchedInv
<1>3. IsFiniteSet(DOMAIN jobs') /\ DOMAIN jobs' \subseteq Names
  BY <1>1, FS_AddElement DEF SchedInv
<1>4. DOMAIN ran' = Names /\ \A n \in Names : ran'[n] = IF n = name THEN NeverRan ELSE ran[n]
  BY <1>1 DEF SchedInv
<1>5. \A n \in Names : ran'[n] \in Int /\ NeverRan <= ran'[n] /\ ran'[n] <= now
  BY <1>4 DEF SchedInv, NeverRan
<1>6. \A n \in DOMAIN jobs' : jobs'[n] = ran'[n]
  BY <1>1, <1>4 DEF SchedInv
<1>7. ASSUME NEW n \in owed'
      PROVE  /\ n \in DOMAIN jobs' /\ SessionPhase(listedAt') \in JobTable[n].phases
             /\ DueWith(jobs'[n], n, listedAt')
  <2>1. n \in DOMAIN jobs /\ SessionPhase(listedAt) \in JobTable[n].phases /\ DueWith(jobs[n], n, listedAt)
    BY <1>1 DEF SchedInv
  <2>2. n \in DOMAIN jobs' /\ jobs'[n] \in {jobs[n], NeverRan}
    BY <1>1, <2>1
  <2> QED BY <1>1, <2>1, <2>2 DEF DueWith
<1>8. todo' \in Seq(Names) /\ now' \in Nat /\ cycleAt' = Idle
  BY <1>1 DEF SchedInv
<1>9. \A i \in 1..Len(todo') : FALSE
  BY <1>2
<1> QED BY <1>2, <1>3, <1>4, <1>5, <1>6, <1>7, <1>8, <1>9 DEF SchedInv

\* Every job on the list is due, if it is still registered.
LEMMA TodoFacts ==
    ASSUME SchedInv, NEW i \in 1..Len(todo)
    PROVE  /\ SessionPhase(cycleAt) \in JobTable[todo[i]].phases
           /\ todo[i] \in DOMAIN jobs => DueWith(jobs[todo[i]], todo[i], cycleAt)
  BY DEF SchedInv

\* A callback that returned was of a job that was due, by a stamp that was its last run.
LEMMA ReturnFacts ==
    ASSUME SchedInv, NEW removed, NEW added \in SUBSET Names, JobReturns(removed, added)
    PROVE  /\ cycleAt # Idle /\ cycleAt \in Nat /\ cycleAt <= now /\ Called \in DOMAIN jobs /\ Called \in Names
           /\ DueWith(jobs[Called], Called, cycleAt) /\ jobs[Called] = ran[Called] /\ ran[Called] <= cycleAt
           /\ \A n \in Names : ran'[n] = IF n \in added THEN NeverRan ELSE IF n = Called THEN cycleAt ELSE ran[n]
           /\ DOMAIN ran' = Names
<1>1. todo # <<>> /\ Called \in DOMAIN jobs /\ ran' = Changed([ran EXCEPT ![Called] = cycleAt], {}, added)
  BY DEF JobReturns
<1>2. Called = todo[1] /\ 1 \in 1..Len(todo) /\ Called \in Names
  BY <1>1, RestFacts DEF SchedInv
<1>3. /\ \A n \in Names : ran'[n] = IF n \in added THEN NeverRan ELSE IF n = Called THEN cycleAt ELSE ran[n]
      /\ DOMAIN ran' = Names
  BY <1>1, <1>2 DEF SchedInv, Changed
<1>4. cycleAt # Idle
  BY <1>1 DEF SchedInv
<1>5. SessionPhase(cycleAt) \in JobTable[Called].phases /\ DueWith(jobs[Called], Called, cycleAt)
  <2>1. todo[1] \in DOMAIN jobs => DueWith(jobs[todo[1]], todo[1], cycleAt)
    BY <1>2, TodoFacts
  <2>2. SessionPhase(cycleAt) \in JobTable[todo[1]].phases
    BY <1>2, TodoFacts
  <2> QED BY <1>1, <1>2, <2>1, <2>2
<1>6. jobs[Called] = ran[Called] /\ ran[Called] <= cycleAt /\ cycleAt \in Nat /\ cycleAt <= now
  BY <1>1, <1>2, <1>4 DEF SchedInv
<1> QED BY <1>1, <1>2, <1>3, <1>4, <1>5, <1>6

LEMMA RaiseFacts ==
    ASSUME SchedInv, NEW removed, NEW added \in SUBSET Names, JobRaises(removed, added)
    PROVE  (\A n \in Names : ran'[n] = IF n \in added THEN NeverRan ELSE ran[n]) /\ DOMAIN ran' = Names
  BY DEF SchedInv, JobRaises, Changed

\* The end of a callback, whichever: the jobs it leaves are stamped as their last runs, and
\* none of them is ahead of the cycle.
LEMMA CalledKeeps ==
    ASSUME SchedInv, NEW removed, NEW added \in SUBSET Names, IsFiniteSet(Names),
           todo # <<>>, NEW before, DOMAIN before = DOMAIN jobs, jobs' = Changed(before, removed, added),
           \A n \in DOMAIN jobs : n # Called => before[n] = jobs[n],
           DOMAIN ran' = Names, \A n \in DOMAIN jobs' : jobs'[n] = ran'[n],
           \A n \in Names : ran'[n] \in {NeverRan, ran[n], cycleAt},
           todo' = Tail(todo), owed' = owed \ (removed \cup {Called}), cycleAt' = cycleAt, listedAt' = listedAt,
           now' = now
    PROVE  SchedInv'
<1>1. /\ cycleAt # Idle /\ cycleAt \in Nat /\ cycleAt <= now
      /\ \A n \in Names : ran[n] \in Int /\ NeverRan <= ran[n] /\ ran[n] <= now /\ ran[n] <= cycleAt
  BY DEF SchedInv
<1>2. /\ DOMAIN jobs' = (DOMAIN jobs \ removed) \cup added
      /\ DOMAIN jobs' \subseteq Names /\ IsFiniteSet(DOMAIN jobs')
      /\ \A n \in (DOMAIN jobs \ removed) \cup added : jobs'[n] = IF n \in added THEN NeverRan ELSE before[n]
  <2>1. DOMAIN jobs' = (DOMAIN jobs \ removed) \cup added /\ DOMAIN jobs' \in SUBSET Names
    BY DEF Changed, SchedInv
  <2>2. IsFiniteSet(DOMAIN jobs')
    BY <2>1, FS_Subset
  <2> QED BY <2>1, <2>2 DEF Changed
<1>3. /\ Tail(todo) \in Seq(Names)
      /\ \A i \in 1..Len(Tail(todo)) :
            i + 1 \in 1..Len(todo) /\ Tail(todo)[i] = todo[i + 1] /\ Tail(todo)[i] # Called
      /\ \A i, j \in 1..Len(Tail(todo)) : Tail(todo)[i] = Tail(todo)[j] => i = j
      /\ \A i \in 1..Len(todo) : todo[i] # Called => \E j \in 1..Len(Tail(todo)) : Tail(todo)[j] = todo[i]
  BY RestFacts DEF SchedInv
<1>4. \A n \in Names : ran'[n] \in Int /\ NeverRan <= ran'[n] /\ ran'[n] <= now /\ ran'[n] <= cycleAt
  <2> TAKE n \in Names
  <2>1. cycleAt \in Int /\ now \in Int /\ ran[n] \in Int /\ NeverRan = -1
    BY <1>1 DEF NeverRan, SchedInv
  <2>2. cycleAt >= 0 /\ cycleAt <= now /\ NeverRan <= ran[n] /\ ran[n] <= now /\ ran[n] <= cycleAt
    BY <1>1
  <2> QED BY <2>1, <2>2
<1>5. ASSUME NEW n \in Names, n # Called, n \in DOMAIN jobs', NEW t, SessionPhase(t) \in JobTable[n].phases,
             n \in DOMAIN jobs => DueWith(jobs[n], n, t)
      PROVE  DueWith(jobs'[n], n, t)
  <2>1. jobs'[n] = NeverRan \/ (n \in DOMAIN jobs /\ jobs'[n] = jobs[n])
    BY <1>2, <1>5
  <2> QED BY <1>5, <2>1 DEF DueWith
<1>6. ASSUME NEW i \in 1..Len(todo')
      PROVE  /\ SessionPhase(cycleAt') \in JobTable[todo'[i]].phases
             /\ todo'[i] \in DOMAIN jobs' => DueWith(jobs'[todo'[i]], todo'[i], cycleAt')
  <2>1. i + 1 \in 1..Len(todo) /\ todo'[i] = todo[i + 1] /\ todo'[i] # Called /\ todo'[i] \in Names
    BY <1>3
  <2>2. /\ SessionPhase(cycleAt) \in JobTable[todo'[i]].phases
        /\ todo'[i] \in DOMAIN jobs => DueWith(jobs[todo'[i]], todo'[i], cycleAt)
    <3>1. \A j \in 1..Len(todo) : /\ SessionPhase(cycleAt) \in JobTable[todo[j]].phases
                                  /\ todo[j] \in DOMAIN jobs => DueWith(jobs[todo[j]], todo[j], cycleAt)
      BY TodoFacts
    <3> QED BY <2>1, <3>1
  <2> QED BY <1>5, <2>1, <2>2
<1>7. ASSUME NEW n \in owed'
      PROVE  /\ \E i \in 1..Len(todo') : todo'[i] = n
             /\ n \in DOMAIN jobs' /\ SessionPhase(listedAt') \in JobTable[n].phases
             /\ DueWith(jobs'[n], n, listedAt')
  <2>1. /\ n \in owed /\ n # Called /\ n \notin removed /\ n \in DOMAIN jobs /\ n \in Names
        /\ SessionPhase(listedAt) \in JobTable[n].phases /\ DueWith(jobs[n], n, listedAt)
    BY DEF SchedInv
  <2>2. PICK i \in 1..Len(todo) : todo[i] = n
    BY <1>1, <2>1 DEF SchedInv
  <2>3. \E j \in 1..Len(todo') : todo'[j] = n
    BY <1>3, <2>1, <2>2
  <2>4. n \in DOMAIN jobs'
    BY <1>2, <2>1
  <2>5. DueWith(jobs'[n], n, listedAt)
    BY <1>5, <2>1, <2>4
  <2> QED BY <2>1, <2>3, <2>4, <2>5
<1>8. listedAt' = cycleAt'
  BY <1>1 DEF SchedInv
<1> QED BY <1>1, <1>2, <1>3, <1>4, <1>6, <1>7, <1>8 DEF SchedInv

LEMMA ReturnKeeps ==
    ASSUME SchedInv, NEW removed, NEW added \in SUBSET Names, IsFiniteSet(Names), JobReturns(removed, added), now' = now
    PROVE  SchedInv'
<1> DEFINE before == [jobs EXCEPT ![Called] = cycleAt]
<1>1. /\ todo # <<>> /\ Called \in DOMAIN jobs /\ jobs' = Changed(before, removed, added)
      /\ todo' = Tail(todo) /\ owed' = owed \ (removed \cup {Called}) /\ cycleAt' = cycleAt /\ listedAt' = listedAt
  BY DEF JobReturns
<1>2. /\ DOMAIN before = DOMAIN jobs /\ before[Called] = cycleAt
      /\ \A n \in DOMAIN jobs : n # Called => before[n] = jobs[n]
  BY <1>1
<1> HIDE DEF before
<1>3. /\ \A n \in Names : ran'[n] = IF n \in added THEN NeverRan ELSE IF n = Called THEN cycleAt ELSE ran[n]
      /\ DOMAIN ran' = Names
  BY ReturnFacts
<1>4. \A n \in DOMAIN jobs' : jobs'[n] = ran'[n]
  BY <1>1, <1>2, <1>3 DEF SchedInv, Changed
<1>5. \A n \in Names : ran'[n] \in {NeverRan, ran[n], cycleAt}
  BY <1>3
<1> QED BY <1>1, <1>2, <1>3, <1>4, <1>5, CalledKeeps

LEMMA RaiseKeeps ==
    ASSUME SchedInv, NEW removed, NEW added \in SUBSET Names, IsFiniteSet(Names), JobRaises(removed, added), now' = now
    PROVE  SchedInv'
<1>1. /\ todo # <<>> /\ jobs' = Changed(jobs, removed, added)
      /\ todo' = Tail(todo) /\ owed' = owed \ (removed \cup {Called}) /\ cycleAt' = cycleAt /\ listedAt' = listedAt
  BY DEF JobRaises
<1>2. (\A n \in Names : ran'[n] = IF n \in added THEN NeverRan ELSE ran[n]) /\ DOMAIN ran' = Names
  BY RaiseFacts
<1>3. \A n \in DOMAIN jobs' : jobs'[n] = ran'[n]
  BY <1>1, <1>2 DEF SchedInv, Changed
<1>4. \A n \in Names : ran'[n] \in {NeverRan, ran[n], cycleAt}
  BY <1>2
<1> QED BY <1>1, <1>2, <1>3, <1>4, CalledKeeps

\* Leaving a cycle, forgetting everything, and the clock.
LEMMA RestKeeps ==
    ASSUME SchedInv,
           \/ (JobIsGone \/ EndCycle \/ SchedRestart) /\ now' = now
           \/ Tick /\ UNCHANGED schedVars
           \/ UNCHANGED <<schedVars, now>>
    PROVE  SchedInv'
<1>1. ASSUME JobIsGone \/ EndCycle, now' = now PROVE SchedInv'
  <2>1. cycleAt' = Idle /\ todo' = <<>> /\ jobs' = jobs /\ ran' = ran
    BY <1>1 DEF JobIsGone, EndCycle
  <2>2. todo' \in Seq(Names) /\ Len(todo') = 0
    BY <2>1
  <2>3. owed' = owed /\ listedAt' = listedAt
    BY <1>1 DEF JobIsGone, EndCycle
  <2> QED BY <1>1, <2>1, <2>2, <2>3 DEF SchedInv
<1>2. ASSUME SchedRestart, now' = now PROVE SchedInv'
  <2>1. /\ DOMAIN jobs' = {} /\ cycleAt' = Idle /\ todo' = <<>> /\ owed' = {}
        /\ ran' = [name \in Names |-> NeverRan]
    BY <1>2 DEF SchedRestart, LoadLastRuns
  <2>2. todo' \in Seq(Names) /\ Len(todo') = 0 /\ IsFiniteSet({})
    BY <2>1, FS_EmptySet
  <2>3. DOMAIN ran' = Names /\ \A n \in Names : ran'[n] = -1
    BY <2>1 DEF NeverRan
  <2>4. now \in Nat
    BY DEF SchedInv
  <2> QED BY <1>2, <2>1, <2>2, <2>3, <2>4 DEF SchedInv, NeverRan
<1>3. ASSUME UNCHANGED schedVars, now' \in Nat, now <= now' PROVE SchedInv'
  <2>1. UNCHANGED <<jobs, cycleAt, todo, lastRow, ran, owed, listedAt>>
    BY <1>3 DEF schedVars
  <2>2. \A n \in Names : ran[n] \in Int /\ NeverRan <= ran[n] /\ ran[n] <= now'
    BY <1>3 DEF SchedInv, NeverRan
  <2>3. cycleAt # Idle => cycleAt <= now'
    BY <1>3 DEF SchedInv
  <2> QED BY <1>3, <2>1, <2>2, <2>3 DEF SchedInv
<1>4. now \in Nat
  BY DEF SchedInv
<1> QED BY <1>1, <1>2, <1>3, <1>4 DEF Tick, schedVars

LEMMA SchedStepFacts == ASSUME SchedInv, [SchedOrTick]_<<schedVars, now>> PROVE SchedInv'
<1>0. IsFiniteSet(Names)
  BY ScheduleAssumption DEF ScheduleAssumption, Names
<1>1. ASSUME SchedNext, now' = now PROVE SchedInv'
  BY <1>0, <1>1, BeginKeeps, AddKeeps, ReturnKeeps, RaiseKeeps, RestKeeps DEF SchedNext
<1> QED BY <1>1, RestKeeps DEF SchedOrTick

\* A job that was due when a cycle began has been called in it, unless a callback removed it,
\* or is registered and still as due as it was: also when a KeyError cuts the cycle short.
THEOREM JobsAreOnlyPutOff == SchedSpec => []OnlyPutOff
<1>1. SchedInv => OnlyPutOff
  <2> SUFFICES ASSUME SchedInv PROVE OnlyPutOff
    OBVIOUS
  <2>1. ASSUME NEW n \in owed PROVE n \in DOMAIN jobs /\ JobDue(n, listedAt)
    BY DEF SchedInv, DueWith, JobDue
  <2>2. cycleAt # Idle /\ todo = <<>> => owed = {}
    BY DEF SchedInv
  <2> QED BY <2>1, <2>2 DEF OnlyPutOff
<1>2. SchedInit /\ now = 0 => SchedInv
  BY SchedInitFacts
<1>3. SchedInv /\ [SchedOrTick]_<<schedVars, now>> => SchedInv'
  BY SchedStepFacts
<1> QED BY <1>1, <1>2, <1>3, PTL DEF SchedSpec, SchedOrTick

\* Two good runs of a job in one life of it are an interval apart.
LEMMA SpacedStep ==
    ASSUME SchedInv, [SchedOrTick]_<<schedVars, now>>, NEW n \in Names,
           ran'[n] # ran[n], NeverRan \notin {ran[n], ran'[n]}
    PROVE  ran'[n] - ran[n] >= JobTable[n].interval
<1>1. ASSUME NEW removed, NEW added \in SUBSET Names, JobReturns(removed, added)
      PROVE  ran'[n] - ran[n] >= JobTable[n].interval
  <2>1. /\ cycleAt \in Nat /\ DueWith(jobs[Called], Called, cycleAt) /\ jobs[Called] = ran[Called] /\ ran[Called] <= cycleAt
        /\ n = Called /\ ran'[n] = cycleAt
    BY <1>1, ReturnFacts DEF NeverRan
  <2>2. ran[n] \in Int /\ JobTable[n].interval \in Int
    BY ScheduleAssumption DEF SchedInv, ScheduleAssumption, Names
  <2>3. JobTable[n].interval <= 0 \/ cycleAt - ran[n] >= JobTable[n].interval
    BY <2>1 DEF DueWith
  <2> QED BY <2>1, <2>2, <2>3
<1>2. ASSUME NEW name \in Names, Add(name) PROVE FALSE
  <2>1. ran' = [ran EXCEPT ![name] = NeverRan] /\ DOMAIN ran = Names
    BY <1>2 DEF Add, SchedInv
  <2> QED BY <2>1
<1>3. ASSUME SchedRestart PROVE FALSE
  BY <1>3 DEF SchedRestart
<1>4. ASSUME BeginCycle \/ JobIsGone \/ EndCycle \/ UNCHANGED schedVars PROVE FALSE
  BY <1>4 DEF BeginCycle, JobIsGone, EndCycle, schedVars
<1>5. ASSUME NEW removed, NEW added \in SUBSET Names, JobRaises(removed, added) PROVE FALSE
  BY <1>5, RaiseFacts
<1> QED BY <1>1, <1>2, <1>3, <1>4, <1>5 DEF SchedOrTick, SchedNext, schedVars

\* "interval_seconds throttles repeats", also for jobs that are removed and added, raise,
\* or run late in a long cycle.
THEOREM JobsAlwaysSpaced == SchedSpec => JobsSpaced
<1>1. SchedInit /\ now = 0 => SchedInv
  BY SchedInitFacts
<1>2. SchedInv /\ [SchedOrTick]_<<schedVars, now>> => SchedInv'
  BY SchedStepFacts
<1>3. SchedInv /\ [SchedOrTick]_<<schedVars, now>> =>
        [\A n \in Names :
           ran'[n] # ran[n] /\ NeverRan \notin {ran[n], ran'[n]} =>
              ran'[n] - ran[n] >= JobTable[n].interval]_<<schedVars, now>>
  BY SpacedStep
<1> QED BY <1>1, <1>2, <1>3, PTL DEF SchedSpec, SchedOrTick, JobsSpaced

\* The rest of what the scheduler holds: the row and the jobs still owed are of registered
\* names, and no stamp is ahead of the horizon.
SchedRest ==
    /\ now <= Horizon /\ DOMAIN lastRow \subseteq Names /\ owed \subseteq Names
    /\ ran \in [Names -> Int] /\ listedAt \in 0..Horizon

LEMMA SchedRestStep ==
    ASSUME SchedInv, SchedInv', SchedRest, [SchedOrTick]_<<schedVars, now>>
    PROVE  SchedRest'
<1>1. now' <= Horizon
  BY HorizonAssumption DEF SchedOrTick, Tick, SchedInv, SchedRest
<1>2. DOMAIN lastRow' \subseteq Names
  BY DEF SchedOrTick, SchedNext, BeginCycle, JobRaises, JobIsGone, EndCycle, SchedRestart, Add, JobReturns,
         schedVars, SchedInv, SchedRest
<1>3. owed' \subseteq Names
  BY DEF SchedInv
<1>4. ran' \in [Names -> Int]
  <2>1. CASE SchedRestart
    BY <2>1 DEF SchedRestart, NeverRan
  <2>2. ASSUME NEW name \in Names, Add(name) PROVE ran' \in [Names -> Int]
    <3>1. ran' = [ran EXCEPT ![name] = NeverRan] /\ NeverRan \in Int
      BY <2>2 DEF Add, NeverRan
    <3> QED BY <3>1 DEF SchedRest
  <2>3. ASSUME NEW removed \in SUBSET Names, NEW added \in SUBSET Names, JobReturns(removed, added) \/ JobRaises(removed, added)
        PROVE  ran' \in [Names -> Int]
    <3>1. ran' = Changed([ran EXCEPT ![Called] = cycleAt], {}, added) \/ ran' = Changed(ran, {}, added)
      BY <2>3 DEF JobReturns, JobRaises
    <3>2. cycleAt \in Int /\ NeverRan \in Int
      BY DEF SchedInv, Idle, NeverRan
    <3>3. [ran EXCEPT ![Called] = cycleAt] \in [Names -> Int]
      BY <3>2 DEF SchedRest
    <3> QED BY <3>1, <3>2, <3>3 DEF SchedRest, Changed
  <2>4. CASE BeginCycle \/ JobIsGone \/ EndCycle \/ UNCHANGED schedVars
    BY <2>4 DEF BeginCycle, JobIsGone, EndCycle, schedVars, SchedRest
  <2> QED BY <2>1, <2>3, <2>4, <2>2 DEF SchedOrTick, SchedNext, schedVars
<1>5. listedAt' \in 0..Horizon
  <2>1. listedAt' \in {listedAt, now}
    BY DEF SchedOrTick, SchedNext, BeginCycle, JobRaises, JobIsGone, EndCycle, SchedRestart, Add, JobReturns, schedVars
  <2> QED BY <2>1, HorizonAssumption DEF SchedRest, SchedInv
<1> QED BY <1>1, <1>2, <1>3, <1>4, <1>5 DEF SchedRest

\* Stamps lie between "never" and the present, and a cycle has only registered names to work
\* off, whatever its callbacks remove and whenever the program restarts.
THEOREM SchedTypeCorrect == SchedSpec => []SchedTypeOK
<1>1. SchedInit /\ now = 0 => SchedInv /\ SchedRest
  <2> SUFFICES ASSUME SchedInit, now = 0 PROVE SchedRest
    BY SchedInitFacts
  <2>1. now <= Horizon
    BY HorizonAssumption
  <2>2. lastRow = <<>> /\ owed = {} /\ ran = [name \in Names |-> NeverRan] /\ NeverRan \in Int
    BY DEF SchedInit, NeverRan
  <2>3. DOMAIN lastRow = {} /\ ran \in [Names -> Int] /\ listedAt \in 0..Horizon
    BY <2>2, HorizonAssumption DEF SchedInit
  <2> QED BY <2>1, <2>2, <2>3 DEF SchedRest
<1>2. SchedInv /\ SchedRest /\ [SchedOrTick]_<<schedVars, now>> => (SchedInv /\ SchedRest)'
  BY SchedStepFacts, SchedRestStep
<1>3. SchedInv /\ SchedRest => SchedTypeOK
  <2> SUFFICES ASSUME SchedInv, SchedRest PROVE SchedTypeOK
    OBVIOUS
  <2>1. now \in Nat /\ now <= Horizon /\ Horizon \in Nat
    BY HorizonAssumption DEF SchedInv, SchedRest
  <2>2. \A n \in Names : ran[n] \in -1..Horizon
    BY <2>1 DEF SchedInv, NeverRan
  <2>3. \A n \in DOMAIN jobs : jobs[n] \in -1..Horizon
    BY <2>2 DEF SchedInv
  <2>4. cycleAt \in -1..Horizon
    BY <2>1 DEF SchedInv, Idle
  <2>5. Range(todo) \subseteq Names
    <3>1. todo \in Seq(Names)
      BY DEF SchedInv
    <3> QED BY <3>1 DEF Range
  <2>6. ran \in [Names -> -1..Horizon]
    BY <2>2 DEF SchedRest
  <2> QED BY <2>3, <2>4, <2>5, <2>6 DEF SchedInv, SchedRest, SchedTypeOK
<1> QED BY <1>1, <1>2, <1>3, PTL DEF SchedSpec, SchedOrTick
=============================================================================

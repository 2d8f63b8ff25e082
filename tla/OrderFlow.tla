------------------------------ MODULE OrderFlow ------------------------------
(***************************************************************************)
(* The order-flow gate of the circuit breaker: can_submit_order judges     *)
(* what register_order_submission has recorded, and nothing ties the two   *)
(* calls together: every strategy asks, and registers later.               *)
(***************************************************************************)
EXTENDS Clock, Sequences, FiniteSets, SequencesExt

CONSTANTS
    Strategies,       \* threads that ask and register
    Fingerprints,     \* (quantity) of the orders for one symbol and side
    RateWindow,       \* the 60 seconds of the rate cap and of the flow pause
    MaxPerMinute,     \* technical.max_orders_per_minute
    DuplicateWindow,  \* technical.duplicate_order_window_seconds
    AttemptWindow,    \* the 1800 seconds of the attempt ceiling
    MaxAttempts       \* technical.max_order_attempts

ASSUME FlowAssumption ==
    /\ {RateWindow, DuplicateWindow, AttemptWindow} \subseteq Nat
    /\ {MaxPerMinute, MaxAttempts} \subseteq Nat \ {0}
    /\ IsFiniteSet(Strategies) /\ Strategies # {}

VARIABLES
    submissions,     \* what was registered, oldest first: instant, fingerprint
    flowPauseUntil,  \* no order before this instant
    attempts,        \* attempt counter of the symbol and side, and since when
    granted,         \* per strategy, the fingerprint it may register, or none
    sent             \* the submissions since the last reset of the attempts

flowVars == <<submissions, flowPauseUntil, attempts, granted, sent>>

NoOrder == "none"

FlowInit ==
    /\ submissions = <<>> /\ flowPauseUntil = 0
    /\ attempts = [count |-> 0, since |-> 0]
    /\ granted = [s \in Strategies |-> NoOrder] /\ sent = <<>>

RecentMinute ==
    Cardinality({i \in DOMAIN submissions : submissions[i].at >= now - RateWindow})

Duplicate(fingerprint) ==
    \E i \in DOMAIN submissions :
        submissions[i].at >= now - DuplicateWindow /\ submissions[i].print = fingerprint

\* Mutant of AttemptCount: the count starts again one instant early.
AttemptCountEarly == IF now - attempts.since >= AttemptWindow THEN 0 ELSE attempts.count

\* The count starts again when more than AttemptWindow has passed since it began.
AttemptCount == IF now - attempts.since > AttemptWindow THEN 0 ELSE attempts.count

Passes(fingerprint) ==
    /\ now >= flowPauseUntil
    /\ RecentMinute < MaxPerMinute /\ ~Duplicate(fingerprint) /\ AttemptCount < MaxAttempts

\* can_submit_order(): a full minute starts the pause again at every call.
CanSubmitOrder(s, fingerprint) ==
    /\ granted[s] = NoOrder
    /\ flowPauseUntil' = IF RecentMinute >= MaxPerMinute THEN now + RateWindow ELSE flowPauseUntil
    /\ granted' = IF Passes(fingerprint) THEN [granted EXCEPT ![s] = fingerprint] ELSE granted
    /\ UNCHANGED <<submissions, attempts, sent>>

RegisterOrderSubmission(s) ==
    /\ granted[s] # NoOrder
    /\ LET submission == [at |-> now, print |-> granted[s]]
       IN submissions' = Append(submissions, submission) /\ sent' = Append(sent, submission)
    /\ attempts' = IF attempts.count = 0 \/ now - attempts.since > AttemptWindow
                   THEN [count |-> 1, since |-> now]
                   ELSE [attempts EXCEPT !.count = @ + 1]
    /\ granted' = [granted EXCEPT ![s] = NoOrder]
    /\ UNCHANGED flowPauseUntil

\* reset_order_attempts(), after a fill.
ResetOrderAttempts ==
    /\ attempts' = [count |-> 0, since |-> 0] /\ sent' = <<>>
    /\ UNCHANGED <<submissions, flowPauseUntil, granted>>

\* All of it is in memory only.
FlowRestart ==
    /\ submissions' = <<>> /\ flowPauseUntil' = 0 /\ attempts' = [count |-> 0, since |-> 0]
    /\ granted' = [s \in Strategies |-> NoOrder] /\ sent' = <<>>

FlowNext ==
    \/ \E s \in Strategies :
        RegisterOrderSubmission(s) \/ \E fingerprint \in Fingerprints : CanSubmitOrder(s, fingerprint)
    \/ ResetOrderAttempts \/ FlowRestart

\* The gate on its own clock.
GateNext == (FlowNext /\ UNCHANGED now) \/ (Tick /\ UNCHANGED flowVars)

GateSpec == FlowInit /\ now = 0 /\ [][GateNext]_<<flowVars, now>>
-----------------------------------------------------------------------------
(* Properties.                                                             *)

FlowTypeOK ==
    /\ Range(submissions) \subseteq [at : 0..Horizon, print : Fingerprints]
    /\ flowPauseUntil \in Nat /\ attempts \in [count : Nat, since : 0..Horizon]
    /\ granted \in [Strategies -> Fingerprints \cup {NoOrder}]
    /\ Range(sent) \subseteq Range(submissions)

Within(orders, from, length) ==
    Cardinality({i \in DOMAIN orders : orders[i].at \in from..(from + length)})

\* The caps hold for what is sent, not only for what each caller saw: in no minute
\* since the start does a process send more than the cap and one order for every
\* other strategy caught between its question and its registration; and between
\* resets no AttemptWindow sees more than two ceilings' worth of attempts (one at
\* the end of a count, one at the start of the next) with the stragglers of each,
\* less the order that began the first count: it is out of the window by then.
OrderFlowCapped ==
    LET stragglers == Cardinality(Strategies) - 1
    IN \A from \in 0..now :
        /\ Within(submissions, from, RateWindow) <= MaxPerMinute + stragglers
        /\ Within(sent, from, AttemptWindow) <= 2 * (MaxAttempts + stragglers) - 1
=============================================================================

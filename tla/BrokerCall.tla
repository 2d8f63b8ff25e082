----------------------------- MODULE BrokerCall -----------------------------
(***************************************************************************)
(* trading.broker_base.with_retry and _call_with_timeout: a call to the    *)
(* broker is tried again after retryable errors and after a timeout.  The  *)
(* timeout does not stop the worker thread: leaving the executor waits for *)
(* it, so the next attempt starts only when the late one has had its       *)
(* effect, and the answer of a late one is thrown away.                    *)
(***************************************************************************)
EXTENDS Integers

CONSTANTS
    Callers,    \* threads that call the adapter
    Attempts    \* broker.alpaca.max_retries

ASSUME AttemptsAssumption == Attempts \in Nat \ {0}

VARIABLE call   \* per caller, the adapter call it is in

Ops == {"submit", "cancel", "cancel_all", "flatten", "close"}
NoCall == [op |-> "none"]
Calls(args) ==
    [op : Ops, arg : args, attempt : 1..Attempts, late : BOOLEAN, paused : BOOLEAN, sent : BOOLEAN]

\* How func() ends, as _classify() sees it.
Outcomes == {"ok", "retryable", "terminal"}

\* sent: an attempt has already had its effect at the exchange.
Starting(op, arg) ==
    [op |-> op, arg |-> arg, attempt |-> 1, late |-> FALSE, paused |-> FALSE, sent |-> FALSE]

Working(c) == call[c] # NoCall /\ ~call[c].paused

\* future.result(timeout) gives up.
TimesOut(c) ==
    /\ Working(c) /\ ~call[c].late
    /\ call' = [call EXCEPT ![c].late = TRUE]

\* What the caller of an attempt gets once the worker is done.
Answer(c, outcome) == IF call[c].late THEN "retryable" ELSE outcome

Retries(c, outcome) == Answer(c, outcome) = "retryable" /\ call[c].attempt < Attempts

Raises(c, outcome) == Answer(c, outcome) # "ok" /\ ~Retries(c, outcome)

Pausing(c, effect) == [call[c] EXCEPT !.paused = TRUE, !.sent = @ \/ effect]

\* Mutant of Wakes: the attempts are not counted.
WakesUncounted(c) ==
    /\ call[c] # NoCall /\ call[c].paused
    /\ call' = [call EXCEPT ![c].paused = FALSE, ![c].late = FALSE]

\* The back-off is over.
Wakes(c) ==
    /\ call[c] # NoCall /\ call[c].paused
    /\ call' = [call EXCEPT ![c].paused = FALSE, ![c].late = FALSE,
                            ![c].attempt = @ + 1]
=============================================================================

---------------------------- MODULE MCExecution ----------------------------
(* The broker adapter under its trader and its operator.                       *)
EXTENDS AlpacaAdapter, TLC

CONSTANTS r1, r2, A   \* two orders for one stock

\* Every attempt of the kill switch's calls ends, and so does every back-off.
Spec ==
    /\ AlpacaSpec
    /\ WF_alpacaVars(OperatorWorks) /\ WF_alpacaVars(CallWakes(Operator))

\* The trader's waits end by the clock, and nothing is known of the client's.
TraderSpec ==
    /\ AlpacaSpec
    /\ WF_alpacaVars(CallTimesOut(Trader)) /\ WF_alpacaVars(CallWakes(Trader))

MCRequest == (r1 :> [symbol |-> A, side |-> 1, type |-> "market", clientId |-> TRUE])
          @@ (r2 :> [symbol |-> A, side |-> 1, type |-> "limit", clientId |-> FALSE])
MCVenues == {[closeAll |-> TRUE, refusesKnownId |-> TRUE],
             [closeAll |-> FALSE, refusesKnownId |-> FALSE]}
=============================================================================

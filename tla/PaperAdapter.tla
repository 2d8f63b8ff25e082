---------------------------- MODULE PaperAdapter ----------------------------
(***************************************************************************)
(* The adapter of trading/paper_adapter.py around the paper broker: cancel *)
(* and replace by client id, and the kill switch of broker_base.py, which  *)
(* cancels every resting order and then closes the position with a market  *)
(* order.  That order goes to the broker whether or not the gateway lets   *)
(* it pass; the broker's own idempotency rules still apply to it.          *)
(***************************************************************************)
EXTENDS PaperBroker

CONSTANT
    Amendments      \* [qty, limit, stop] of replace(); 0 where nothing changes

ASSUME AmendmentsAssumption == Amendments \subseteq [qty : Nat, limit : Nat, stop : Nat]

\* cancel() and replace() act on the first order of the ledger with the id.
FirstWith(id) ==
    CHOOSE i \in DOMAIN orders :
        /\ orders[i].id = id
        /\ \A j \in 1..(i - 1) : orders[j].id # id

KnownIds == {orders[i].id : i \in DOMAIN orders}

Cancelled(order) ==
    IF IsTerminal(order) THEN order ELSE [order EXCEPT !.state = "CANCELLED"]

CancelOrder(id) ==
    /\ Idle
    /\ orders' = [orders EXCEPT ![FirstWith(id)] = Cancelled(@)]
    /\ UNCHANGED <<books, pending, guards, call, mark, now>>

Amended(order, a) ==
    [order EXCEPT !.qty = IF a.qty = 0 THEN @ ELSE a.qty,
                  !.limit = IF a.limit = 0 THEN @ ELSE a.limit,
                  !.stop = IF a.stop = 0 THEN @ ELSE a.stop]

\* A terminal order is refused; a live one is not evaluated before the next mark.
ReplaceOrder(id, a) ==
    /\ Idle
    /\ ~IsTerminal(orders[FirstWith(id)])
    /\ orders' = [orders EXCEPT ![FirstWith(id)] = Amended(@, a)]
    /\ UNCHANGED <<books, pending, guards, call, mark, now>>

FlattenRequest ==
    [type |-> "market", side |-> IF position > 0 THEN "sell" ELSE "buy",
     qty |-> IF position > 0 THEN position ELSE -position,
     limit |-> 0, stop |-> 0, trail |-> 0, id |-> FreshId, parent |-> 0,
     group |-> 0, price |-> mark]

\* engage_kill_switch: cancel_all, then flatten.
EngageKillSwitch ==
    /\ Idle
    /\ Room(IF position = 0 THEN 0 ELSE 1)
    /\ orders' = [i \in DOMAIN orders |-> Cancelled(orders[i])]
    /\ call' = IF position = 0 THEN <<>>
               ELSE <<[task |-> "protect", req |-> FlattenRequest]>>
    /\ UNCHANGED <<books, pending, guards, mark, now>>

\* gateway.transmit or, when it refuses, the protective submit.
ProtectiveSubmit ==
    /\ Upcoming("protect")
    /\ Submit(Head(call).req, Tail(call))
    /\ UNCHANGED <<mark, now>>

AdapterNext ==
    \/ Next
    \/ \E id \in KnownIds :
        CancelOrder(id) \/ \E a \in Amendments : ReplaceOrder(id, a)
    \/ EngageKillSwitch
    \/ ProtectiveSubmit

AdapterSpec == Init /\ [][AdapterNext]_vars

\* flatten() promises to "market-close every open position", and its comment
\* that a kill switch "must still reduce risk" even when the gateway refuses:
\* its order, once handled, leaves no position.
KillSwitchFlattens == [][ProtectiveSubmit => position' = 0]_vars
=============================================================================

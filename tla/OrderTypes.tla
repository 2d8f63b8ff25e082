----------------------------- MODULE OrderTypes -----------------------------
(***************************************************************************)
(* The order lifecycle and the trigger evaluator of trading/order_types.py *)
(* as pure operators.  A price is a natural number; a bar carries the      *)
(* intrabar range and the close, the open being the close because          *)
(* PaperBroker._evaluate_order_fill passes the mark for both.  Sides       *)
(* "sell_short" and "cover" behave as "sell" and "buy" everywhere in the   *)
(* file, so they are not kept apart.  The distance of a trailing stop is   *)
(* an absolute amount where the source has a percentage of the anchor:     *)
(* both are increasing in the anchor, which is all the evaluator uses.     *)
(***************************************************************************)
EXTENDS Integers

OrderStates == {"PENDING_NEW", "SUBMITTED", "TRIGGERED", "WORKING",
                "FILLED", "CANCELLED", "REJECTED", "EXPIRED"}

TerminalStates == {"FILLED", "CANCELLED", "REJECTED", "EXPIRED"}

StateMachine ==
    [s \in OrderStates |->
        CASE s = "PENDING_NEW" -> {"SUBMITTED", "REJECTED", "CANCELLED"}
          [] s = "SUBMITTED"   -> {"TRIGGERED", "WORKING", "FILLED",
                                   "CANCELLED", "REJECTED", "EXPIRED"}
          [] s = "TRIGGERED"   -> {"WORKING", "FILLED", "CANCELLED", "EXPIRED"}
          [] s = "WORKING"     -> {"FILLED", "CANCELLED", "EXPIRED"}
          [] OTHER             -> {}]

IsTerminal(order) == order.state \in TerminalStates

OrderKinds == {"market", "limit", "stop", "stop_limit", "trailing_stop"}

Sells(order) == order.side = "sell"

Direction(side) == IF side = "buy" THEN 1 ELSE -1

ExitSide(side) == IF side = "sell" THEN "buy" ELSE "sell"

-----------------------------------------------------------------------------

\* An anchor of 0 is the source's None: the first bar sets it.
RatchetTrailing(order, bar) ==
    LET best == IF Sells(order) THEN bar.high ELSE bar.low
        beats == IF Sells(order) THEN best > order.anchor ELSE best < order.anchor
    IN  IF order.anchor = 0 \/ beats THEN best ELSE order.anchor

TrailingLevel(order, anchor) ==
    IF Sells(order) THEN anchor - order.trail ELSE anchor + order.trail

LimitCrossed(order, bar) ==
    IF Sells(order) THEN bar.high >= order.limit ELSE bar.low <= order.limit

\* A sell stop is below the market and is crossed downwards.
LevelCrossed(order, level, bar) ==
    IF Sells(order) THEN bar.low <= level ELSE bar.high >= level

\* Gap-through: the bar opened past the level, so execution is at the open.
StopPrice(order, level, bar) ==
    IF LevelCrossed(order, level, [high |-> bar.close, low |-> bar.close])
    THEN bar.close ELSE level

Rest(state) == [fill |-> FALSE, state |-> state, price |-> 0]

Elect(price) == [fill |-> TRUE, state |-> "FILLED", price |-> price]

\* Has the stop of a stop-limit order been elected by an earlier bar?
Elected(order) == order.state \in {"TRIGGERED", "WORKING"}

EvaluateTrigger(order, bar) ==
    LET level == IF order.type = "trailing_stop"
                 THEN TrailingLevel(order, RatchetTrailing(order, bar))
                 ELSE order.stop
        elected == Elected(order)
    IN  CASE order.type = "market" -> Elect(bar.close)
          [] order.type = "limit" ->
                IF LimitCrossed(order, bar) THEN Elect(order.limit)
                                            ELSE Rest("SUBMITTED")
          [] order.type \in {"stop", "trailing_stop"} ->
                IF LevelCrossed(order, level, bar)
                THEN Elect(StopPrice(order, level, bar))
                ELSE Rest("SUBMITTED")
          [] order.type = "stop_limit" ->
                CASE ~elected /\ ~LevelCrossed(order, level, bar) -> Rest("SUBMITTED")
                  [] (elected \/ LevelCrossed(order, level, bar))
                        /\ LimitCrossed(order, bar) -> Elect(order.limit)
                  [] elected /\ ~LimitCrossed(order, bar) -> Rest("WORKING")
                  [] OTHER -> Rest("TRIGGERED")

-----------------------------------------------------------------------------
(* Group rules: what a fill does to the other orders of the ledger.  The    *)
(* filled order is terminal already, so it never cancels itself.           *)

Cancel(orders, Doomed(_)) ==
    [j \in DOMAIN orders |->
        IF Doomed(orders[j]) /\ ~IsTerminal(orders[j])
        THEN [orders[j] EXCEPT !.state = "CANCELLED"]
        ELSE orders[j]]

\* Mutant: the legs are looked up by their parent link.
CancelOcoByParent(orders, leg) ==
    Cancel(orders, LAMBDA o : leg.group # 0 /\ o.parent = leg.group)

CancelOcoSiblings(orders, leg) ==
    Cancel(orders, LAMBDA o : leg.group # 0 /\ o.group = leg.group)

\* Mutant: the twin is looked up under the child's own id.
CancelTwinByOwnId(orders, child) ==
    Cancel(orders, LAMBDA o : child.parent # 0 /\ o.parent = child.id)

CancelBracketTwin(orders, child) ==
    Cancel(orders, LAMBDA o : child.parent # 0 /\ o.parent = child.parent)
=============================================================================

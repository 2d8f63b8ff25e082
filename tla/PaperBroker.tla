----------------------------- MODULE PaperBroker -----------------------------
(***************************************************************************)
(* The paper broker of trading/paper_broker.py for one symbol: placement   *)
(* through the risk gateway, one-cancels-other groups, brackets whose      *)
(* children wait for the entry, the idempotency window, the rate cap, the  *)
(* market mark that evaluates every resting order, and the FIFO lots with  *)
(* realised profit.                                                        *)
(*                                                                         *)
(* The broker runs one public call at a time.  What is left of the call in *)
(* progress is kept in "call", a stack of tasks: an order to transmit, a   *)
(* resting order to look at, a bracket whose children come next.  A fill   *)
(* pushes the children it releases, as the nested call in _fill_order      *)
(* does.  The gateway (risk/position_limits.py) appears by what it does to *)
(* a transmission: it submits it, or it raises PermissionError, which      *)
(* unwinds the whole call and leaves everything done so far in place.      *)
(*                                                                         *)
(* Client ids are numbers: 0 is the source's empty string, 1..Callers are  *)
(* ids a caller chose, the larger ones stand for uuid4().  An order has    *)
(* one field the source does not have, for the properties: "beside", how   *)
(* many orders the ledger held when it filled.                             *)
(***************************************************************************)
EXTENDS OrderTypes, Sequences, SequencesExt, FiniteSetsExt

CONSTANTS
    Prices,         \* the prices of the symbol, positive naturals
    Bars,           \* the marks of the market: high, low and close
    Singles,        \* templates of orders placed alone
    OcoGroups,      \* sequences of templates placed as one OCO group
    Brackets,       \* [entry, takeProfit, stopLoss] placed as a bracket
    Callers,        \* how many client ids callers use
    UnitCost,       \* fee plus slippage of one unit
    Window,         \* duplicate_order_window_seconds
    RateWindow,     \* the minute of max_orders_per_minute
    MaxRate,        \* max_orders_per_minute
    PartialFills,   \* is partial_fill_prob positive?
    MaxOrders,      \* bound: orders in the ledger
    MaxTime         \* bound: the clock

Templates == [type : OrderKinds, side : {"buy", "sell"}, qty : Nat \ {0},
             limit : Nat, stop : Nat, trail : Nat]

BracketTemplates == [entry : Templates, takeProfit : Nat, stopLoss : Nat]

ASSUME PaperBrokerConstants ==
    /\ Prices \subseteq Nat \ {0}
    /\ Bars \subseteq [high : Prices, low : Prices, close : Prices]
    /\ \A bar \in Bars : bar.low <= bar.close /\ bar.close <= bar.high
    /\ Singles \subseteq Templates /\ OcoGroups \subseteq Seq(Templates)
    /\ Brackets \subseteq BracketTemplates
    /\ {Callers, UnitCost} \subseteq Nat
    /\ {Window, RateWindow, MaxRate} \subseteq Nat \ {0}
    /\ PartialFills \in BOOLEAN

ASSUME MaxTimeAssumption == MaxTime \in Nat

VARIABLES
    orders,     \* the ledger, in submission order
    position,   \* signed quantity held
    lots,       \* open_trades, oldest first
    cash,       \* change of cash since the start
    realised,   \* realized_pnl
    pending,    \* _pending_children: entry id -> child requests
    recent,     \* _submission_times
    seen,       \* _duplicate_map, fingerprint -> time
    seenIds,    \* _duplicate_map, client id -> time
    call,       \* what is left of the public call in progress
    mark,       \* last_prices
    now         \* the injected clock

books == <<position, lots, cash, realised>>

guards == <<recent, seen, seenIds>>

vars == <<orders, books, pending, guards, call, mark, now>>

\* A dictionary after one assignment.
Put(map, key, value) ==
    [k \in DOMAIN map \union {key} |-> IF k = key THEN value ELSE map[k]]

FlatBar(price) == [high |-> price, low |-> price, close |-> price]

-----------------------------------------------------------------------------
(* Lots and realised profit.                                               *)

OpenLot(open, side, qty, ref) ==
    Append(open, [side |-> side, remaining |-> qty, ref |-> ref, cost |-> UnitCost * qty])

\* Mutant: entry costs are left out of the realised profit.
CloseProfitGross(lot, close, share, ref) ==
    Direction(lot.side) * (ref - lot.ref) * close - UnitCost * close

\* Profit of closing part of a lot at ref; share is its part of the entry cost.
CloseProfit(lot, close, share, ref) ==
    Direction(lot.side) * (ref - lot.ref) * close - share - UnitCost * close

\* A lot closed in full leaves the queue.
RemainingLots(closed, rest) ==
    IF rest.remaining = 0 THEN closed ELSE Append(closed, rest)

\* One turn of the FIFO loop: close what the oldest lot still covers.
CloseLot(acc, lot, ref) ==
    LET close == IF acc.left < lot.remaining THEN acc.left ELSE lot.remaining
        share == (lot.cost * close) \div lot.remaining
        rest == [lot EXCEPT !.remaining = @ - close, !.cost = @ - share]
    IN  [left |-> acc.left - close,
         realised |-> acc.realised + CloseProfit(lot, close, share, ref),
         lots |-> RemainingLots(acc.lots, rest)]

\* Mutant: what exceeds the closed lots opens nothing.
DropExcess(open, side, qty, ref) == open

\* Closing more than is held opens the excess the other way.
OpenExcess(open, side, qty, ref) ==
    IF qty = 0 THEN open ELSE OpenLot(open, side, qty, ref)

ApplyPosition(side, qty, ref) ==
    LET delta == Direction(side) * qty
        closed == FoldLeft(LAMBDA acc, lot : CloseLot(acc, lot, ref),
                           [left |-> qty, realised |-> realised, lots |-> <<>>], lots)
    IN  /\ position' = position + delta
        /\ IF position * delta >= 0
           THEN /\ lots' = OpenLot(lots, side, qty, ref)
                /\ UNCHANGED realised
           ELSE /\ lots' = OpenExcess(closed.lots, side, closed.left, ref)
                /\ realised' = closed.realised

-----------------------------------------------------------------------------
(* Evaluation and fills.                                                   *)

Send(req) == [task |-> "send", req |-> req]

Look(i, bar) == [task |-> "look", order |-> i, bar |-> bar]

\* price_fill takes the whole quantity, or a part of it.
FillQuantities(order) ==
    IF PartialFills THEN 1..order.qty ELSE {order.qty}

\* _fill_order on a ledger whose order i has just been evaluated: book the
\* fill, cancel siblings and twin, push the children that waited for it.
FillOrder(ledger, i, ref, rest) ==
    \E qty \in FillQuantities(ledger[i]) :
        LET order == ledger[i]
            filled == [ledger EXCEPT ![i].state = "FILLED", ![i].filled = qty,
                                     ![i].beside = Len(ledger)]
            waiting == IF order.id \in DOMAIN pending THEN pending[order.id] ELSE <<>>
        IN  /\ orders' = CancelBracketTwin(CancelOcoSiblings(filled, order), order)
            /\ cash' = cash - Direction(order.side) * ref * qty - UnitCost * qty
            /\ ApplyPosition(order.side, qty, ref)
            /\ pending' = [id \in DOMAIN pending \ {order.id} |-> pending[id]]
            /\ call' = [k \in DOMAIN waiting |-> Send(waiting[k])] \o rest

\* _evaluate_order_fill: the trailing anchor moves whether or not it fills.
EvaluateOrderFill(ledger, i, bar, rest) ==
    LET order == ledger[i]
        decision == EvaluateTrigger(order, bar)
        anchor == IF order.type = "trailing_stop"
                  THEN RatchetTrailing(order, bar) ELSE order.anchor
        ratcheted == [ledger EXCEPT ![i].anchor = anchor]
    IN  IF decision.fill
        THEN FillOrder(ratcheted, i, decision.price, rest)
        ELSE /\ orders' = [ratcheted EXCEPT ![i].state = decision.state]
             /\ call' = rest
             /\ UNCHANGED <<books, pending>>

-----------------------------------------------------------------------------
(* Submission.                                                             *)

Fingerprint(req) == [req EXCEPT !.trail = 0, !.parent = 0]

\* Mutant: the window ends one instant early.
WithinShort(map, key) == key \in DOMAIN map /\ now - map[key] < Window - 1

Within(map, key) == key \in DOMAIN map /\ now - map[key] < Window

\* _idempotency_check prunes the minute's submissions before its refusals.
Pruned ==
    FoldLeft(LAMBDA kept, t : IF now - t < RateWindow THEN Append(kept, t) ELSE kept, <<>>, recent)

IdempotencyRefuses(req) ==
    \/ Len(Pruned) >= MaxRate
    \/ Within(seen, Fingerprint(req))
    \/ req.id # 0 /\ Within(seenIds, req.id)

\* uuid4(): an id that no order and no waiting child carries.
FreshId ==
    Max({Callers} \union {orders[i].id : i \in DOMAIN orders}
          \union UNION {{pending[k][n].id : n \in DOMAIN pending[k]} :
                            k \in DOMAIN pending}) + 1

FreshGroup == Max({0} \union {orders[i].group : i \in DOMAIN orders}) + 1

IdOf(id) == IF id = 0 THEN FreshId ELSE id

NewOrder(req, parent, group, state, at) ==
    [type |-> req.type, side |-> req.side, qty |-> req.qty, limit |-> req.limit,
     stop |-> req.stop, trail |-> req.trail, anchor |-> 0, id |-> IdOf(req.id),
     parent |-> parent, group |-> group, state |-> state, filled |-> 0, at |-> at,
     beside |-> 0]

\* A refused request stays in the ledger without its parent and group.
Reject(req, rest) ==
    /\ orders' = Append(orders, NewOrder(req, 0, 0, "REJECTED", -1))
    /\ call' = rest
    /\ UNCHANGED <<books, pending, seen, seenIds>>

\* submit: an accepted order is evaluated at once against its own price.
Submit(req, rest) ==
    LET order == NewOrder(req, req.parent, req.group, "SUBMITTED", now)
        accepted == Append(orders, order)
    IN  IF IdempotencyRefuses(req)
        THEN Reject(req, rest) /\ recent' = Pruned
        ELSE /\ recent' = Append(Pruned, now)
             /\ seen' = Put(seen, Fingerprint(req), now)
             /\ seenIds' = IF req.id = 0 THEN seenIds ELSE Put(seenIds, req.id, now)
             /\ EvaluateOrderFill(accepted, Len(accepted), FlatBar(req.price), rest)

-----------------------------------------------------------------------------
(* The steps of a call.                                                    *)

Upcoming(task) == call # <<>> /\ Head(call).task = task

Transmit ==
    /\ Upcoming("send")
    /\ Submit(Head(call).req, Tail(call))
    /\ UNCHANGED <<mark, now>>

\* PermissionError leaves the call there and then.
Refuse ==
    /\ Upcoming("send")
    /\ call' = <<>>
    /\ UNCHANGED <<orders, books, pending, guards, mark, now>>

\* One turn of the loop of mark_price; a terminal order is skipped, also one
\* that a fill of this same call has cancelled.
LookAt ==
    /\ Upcoming("look")
    /\ LET i == Head(call).order
       IN  IF IsTerminal(orders[i])
           THEN call' = Tail(call) /\ UNCHANGED <<orders, books, pending>>
           ELSE EvaluateOrderFill(orders, i, Head(call).bar, Tail(call))
    /\ UNCHANGED <<guards, mark, now>>

\* Mutant: children go out unless the entry was refused.
ReadyUnlessRejected(entry) == entry.state # "REJECTED"

ReadyForChildren(entry) == entry.state = "FILLED"

\* The children of a bracket rest at their levels, referenced to the mark.
BracketChild(b, kind, id, parent) ==
    [type |-> kind, side |-> ExitSide(b.entry.side), qty |-> b.entry.qty,
     limit |-> IF kind = "limit" THEN b.takeProfit ELSE 0,
     stop |-> IF kind = "stop" THEN b.stopLoss ELSE 0,
     trail |-> 0, id |-> id, parent |-> parent, group |-> 0, price |-> mark]

\* The end of place_bracket: children are sent at once if the entry filled,
\* and wait otherwise, also under the id of an entry that was rejected.
FollowEntry ==
    /\ Upcoming("follow")
    /\ LET entry == orders[Head(call).entry]
           b == Head(call).bracket
           takeProfit == BracketChild(b, "limit", FreshId, entry.id)
           stopLoss == BracketChild(b, "stop", FreshId + 1, entry.id)
           queue == IF entry.id \in DOMAIN pending THEN pending[entry.id] ELSE <<>>
       IN  IF ReadyForChildren(entry)
           THEN /\ call' = <<Send(takeProfit), Send(stopLoss)>>
                /\ UNCHANGED pending
           ELSE /\ call' = <<>>
                /\ pending' = Put(pending, entry.id, queue \o <<takeProfit, stopLoss>>)
    /\ UNCHANGED <<orders, books, guards, mark, now>>

-----------------------------------------------------------------------------
(* The public calls.                                                       *)

Idle == call = <<>>

WaitingChildren ==
    FoldSet(LAMBDA id, n : n + Len(pending[id]), 0, DOMAIN pending)

Room(n) == Len(orders) + WaitingChildren + n <= MaxOrders

Request(template, id, group) ==
    [type |-> template.type, side |-> template.side, qty |-> template.qty,
     limit |-> template.limit, stop |-> template.stop, trail |-> template.trail,
     id |-> id, parent |-> 0, group |-> group, price |-> mark]

Begin(tasks) ==
    /\ Idle
    /\ call' = tasks
    /\ UNCHANGED <<orders, books, pending, guards, now>>

PlaceOrder ==
    /\ Room(1)
    /\ \E template \in Singles, id \in 0..Callers :
        Begin(<<Send(Request(template, id, 0))>>)
    /\ UNCHANGED mark

\* The legs go through the gateway in turn, under one fresh group id.
PlaceOco ==
    /\ \E legs \in OcoGroups :
        /\ Room(Len(legs))
        /\ Begin([k \in DOMAIN legs |-> Send(Request(legs[k], 0, FreshGroup))])
    /\ UNCHANGED mark

PlaceBracket ==
    /\ Room(3)
    /\ \E b \in Brackets, id \in 0..Callers :
        Begin(<<Send(Request(b.entry, IdOf(id), 0)),
                [task |-> "follow", entry |-> Len(orders) + 1, bracket |-> b]>>)
    /\ UNCHANGED mark

\* Every order that is in the ledger when the call begins is looked at once,
\* in the order of submission.
MarkPrice ==
    \E bar \in Bars :
        /\ Begin([i \in DOMAIN orders |-> Look(i, bar)])
        /\ mark' = bar.close

Tick ==
    /\ Idle
    /\ now < MaxTime
    /\ now' = now + 1
    /\ UNCHANGED <<orders, books, pending, guards, call, mark>>

Init ==
    /\ orders = <<>> /\ lots = <<>> /\ recent = <<>> /\ call = <<>>
    /\ position = 0 /\ cash = 0 /\ realised = 0 /\ now = 0
    /\ pending = <<>> /\ seen = <<>> /\ seenIds = <<>>
    /\ mark \in Prices

Next ==
    \/ PlaceOrder \/ PlaceOco \/ PlaceBracket \/ MarkPrice \/ Tick
    \/ Transmit \/ Refuse \/ LookAt \/ FollowEntry

Spec == Init /\ [][Next]_vars

-----------------------------------------------------------------------------
(* Properties.                                                             *)

Accepted == {i \in DOMAIN orders : orders[i].at >= 0}

Live(i) == ~IsTerminal(orders[i])

Filled(i) == orders[i].state = "FILLED"

\* Every variable holds values of the shapes the broker keeps.
TypeOK ==
    /\ \A i \in DOMAIN orders :
        /\ orders[i].type \in OrderKinds /\ orders[i].side \in {"buy", "sell"}
        /\ orders[i].state \in OrderStates \ {"PENDING_NEW", "EXPIRED"}
        /\ orders[i].filled \in 0..orders[i].qty
        /\ orders[i].at \in -1..now /\ orders[i].beside \in Nat
    /\ \A k \in DOMAIN lots : lots[k].remaining \in Nat \ {0} /\ lots[k].cost \in Nat
    /\ {position, cash, realised} \subseteq Int
    /\ DOMAIN pending \subseteq {orders[i].id : i \in DOMAIN orders}
    /\ mark \in Prices /\ now \in 0..MaxTime

\* The position is the signed sum of the open lots, and all open lots are on
\* one side: the two books _apply_position keeps never drift apart, whatever
\* sequence of partial closes, flips and fills led there.
LotsMatchPosition ==
    /\ position = FoldLeft(LAMBDA n, lot : n + Direction(lot.side) * lot.remaining,
                           0, lots)
    /\ \A j, k \in DOMAIN lots : lots[j].side = lots[k].side

\* Cash, realised profit and open lots balance: what has been paid is what
\* was lost for good plus what the open lots cost, entry costs counted once
\* (_close_lot and _realized_formula against the cash line of _fill_order).
BooksBalance ==
    cash = FoldLeft(LAMBDA n, lot :
                        n - Direction(lot.side) * lot.ref * lot.remaining - lot.cost,
                    realised, lots)

\* The fill of an OCO leg ends every leg that is in the ledger by then,
\* placed before or after the one that filled (cancel_oco_siblings): what
\* may still be live beside it was placed after the fill, by the rest of the
\* loop of place_oco.
OcoSettled ==
    \A i, j \in DOMAIN orders :
        Filled(i) /\ Live(j) /\ orders[i].group # 0 /\ orders[j].group = orders[i].group
            => j > orders[i].beside

\* The same of the children of one entry (cancel_bracket_twin): no child that
\* was in the ledger when another filled is live, whatever marks, refusals
\* and ids used twice came between; one sent after that fill may be.
TwinSettled ==
    \A i, j \in DOMAIN orders :
        Filled(i) /\ Live(j) /\ orders[i].parent # 0 /\ orders[j].parent = orders[i].parent
            => j > orders[i].beside

\* No protective child reaches the market before its entry has filled, even
\* across rejected entries and ids used twice (_pending_children).
ChildrenFollowEntry ==
    \A j \in DOMAIN orders : orders[j].parent # 0 =>
        \E i \in 1..(j - 1) : orders[i].id = orders[j].parent /\ Filled(i)

\* A client id is accepted at most once within the duplicate window.
IdsAcceptedOnce ==
    \A i, j \in Accepted :
        i < j /\ orders[i].id = orders[j].id => orders[j].at - orders[i].at >= Window

\* No minute sees more accepted orders than max_orders_per_minute, children
\* and OCO legs included.
RateCapped ==
    \A i \in Accepted :
        Cardinality({j \in Accepted : orders[j].at - orders[i].at \in 0..(RateWindow - 1)})
            <= MaxRate

\* The evaluator never decides a state the transition table refuses: no mark
\* of any live order can raise InvalidTransitionError.
EvaluatorObeysTable ==
    \A i \in DOMAIN orders :
        Live(i) => \A bar \in [high : Prices, low : Prices, close : Prices] :
            LET next == EvaluateTrigger(orders[i], bar).state
            IN  next = orders[i].state \/ next \in StateMachine[orders[i].state]

\* A step never alters an order in a terminal state and never drops one, every
\* change of state is one of the transition table, and a trailing anchor never
\* moves against its ratchet.
LedgerOnlyGrows ==
    [][\A i \in DOMAIN orders :
        /\ i \in DOMAIN orders'
        /\ ~Live(i) => orders'[i] = orders[i]
        /\ orders'[i].state = orders[i].state \/ orders'[i].state \in StateMachine[orders[i].state]
        /\ orders[i].anchor # 0 =>
            IF Sells(orders[i]) THEN orders'[i].anchor >= orders[i].anchor
                                ELSE orders'[i].anchor <= orders[i].anchor]_vars

\* What the docstring of place_oco says: the first leg that fills cancels
\* the other legs, so at most one leg of a group ever fills.
OneLegFills ==
    \A i, j \in DOMAIN orders :
        Filled(i) /\ Filled(j) /\ orders[i].group # 0 /\ orders[j].group = orders[i].group
            => i = j
=============================================================================

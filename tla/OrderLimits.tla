----------------------------- MODULE OrderLimits -----------------------------
(***************************************************************************)
(* risk.position_limits: the gateway every order passes.  It judges an     *)
(* order against the portfolio snapshot its caller took some time before   *)
(* and sends it; all orders of one call (the legs of place_oco, the parts  *)
(* of place_bracket) are judged on the one snapshot the call was given.    *)
(* An order it lets pass rests at the broker, where no snapshot counts it, *)
(* until it is filled or cancelled.  Orders fill as a whole; quantities    *)
(* are in shares of price 1, so a share is a unit of value, too, and the   *)
(* equity stays what it is.                                                *)
(***************************************************************************)
EXTENDS Integers, FiniteSets, FiniteSetsExt

CONSTANTS
    Tickets,     \* orders that can be under way at a time, of all callers together
    Stocks,
    SectorOf,    \* of each stock
    StrategyOf,  \* the strategy that trades it
    Quantities,  \* order quantities
    Equity0,     \* equity of the account
    BreakerStates,  \* states of the breaker a snapshot may show
    Limits       \* the thresholds of config.order_limits and config.risk

ASSUME LimitsAssumption ==
    /\ Equity0 \in Nat \ {0} /\ Quantities \subseteq Nat \ {0} /\ Tickets # {}
    /\ IsFiniteSet(Tickets) /\ IsFiniteSet(Stocks) /\ Limits.minCash <= Equity0
    /\ {Limits.minOrder, Limits.maxOrder, Limits.maxPosition, Limits.maxStrategy, Limits.maxSector,
        Limits.maxOpen, Limits.maxGross, Limits.maxShort, Limits.minCash} \subseteq Nat

VARIABLES
    holding,   \* stock -> signed position
    cash,
    snapshot,  \* per ticket, the snapshot its order is judged on, or none: the ticket is free
    working    \* per ticket, the order that rests at the broker, or none yet

limitsVars == <<holding, cash, snapshot, working>>

Untaken == [taken |-> FALSE]
NotPlaced == [placed |-> FALSE]
Blocking == {"RESTRICTED", "HALTED", "DEFENSIVE", "EMERGENCY", "SUSPENDED"}
Safeties == [state : BreakerStates, breached : BOOLEAN]
Sides == {"buy", "sell", "sell_short", "short", "cover"}

LimitsInit ==
    /\ holding = [s \in Stocks |-> 0] /\ cash = Equity0
    /\ snapshot = [t \in Tickets |-> Untaken] /\ working = [t \in Tickets |-> NotPlaced]

Abs(n) == IF n < 0 THEN -n ELSE n
Signed(side, quantity) == IF side \in {"buy", "cover"} THEN quantity ELSE -quantity
Gross(positions, stocks) == MapThenSumSet(LAMBDA s : Abs(positions[s]), stocks)
Net(positions) == MapThenSumSet(LAMBDA s : positions[s], Stocks)

Projected(order, snap) ==
    [snap.holding EXCEPT ![order.stock] = @ + Signed(order.side, order.quantity)]

CheckOrder(order) == order.quantity \in Limits.minOrder..Limits.maxOrder

CheckAsset(order, snap) == Abs(Projected(order, snap)[order.stock]) <= Limits.maxPosition

CheckStrategy(order, snap) ==
    Gross(Projected(order, snap), {s \in Stocks : StrategyOf[s] = StrategyOf[order.stock]})
        <= Limits.maxStrategy

\* The order counts twice: in the projection and on top of it.
CheckSector(order, snap) ==
    Gross(Projected(order, snap), {s \in Stocks : SectorOf[s] = SectorOf[order.stock]})
        + order.quantity <= Limits.maxSector

\* Mutant of CheckPortfolio: what is held is looked at, not what will be.
CheckPortfolioHeld(order, snap) ==
    /\ Gross(snap.holding, Stocks) <= Limits.maxGross
    /\ Net(snap.holding) >= -Limits.maxShort
    /\ order.side \in {"buy", "cover"} => snap.cash - order.quantity >= Limits.minCash

CheckPortfolio(order, snap) ==
    LET positions == Projected(order, snap)
    IN /\ Cardinality({s \in Stocks : positions[s] # 0}) <= Limits.maxOpen
       /\ Gross(positions, Stocks) <= Limits.maxGross
       /\ Net(positions) >= -Limits.maxShort
       /\ order.side \in {"buy", "cover"} => snap.cash - order.quantity >= Limits.minCash

\* A breached loss limit denies every order, the breaker's state only buys and
\* declared shorts.
CheckSafety(order, snap) ==
    /\ ~snap.safety.breached
    /\ ~(snap.safety.state \in Blocking /\ order.side \in {"buy", "sell_short", "short"})

EvaluateOrder(order, snap) ==
    /\ CheckOrder(order) /\ CheckAsset(order, snap) /\ CheckStrategy(order, snap)
    /\ CheckSector(order, snap) /\ CheckPortfolio(order, snap) /\ CheckSafety(order, snap)
-----------------------------------------------------------------------------
\* A call notes the positions, the breaker's state and the losses of this moment for
\* all the orders it is about to place.
TakeSnapshot(call, safety) ==
    /\ call # {} /\ \A t \in call : ~snapshot[t].taken
    /\ snapshot' = [t \in Tickets |->
        IF t \in call THEN [taken |-> TRUE, holding |-> holding, cash |-> cash, safety |-> safety]
        ELSE snapshot[t]]
    /\ UNCHANGED <<holding, cash, working>>

\* transmit(): an order that passes rests at the broker.  A denial raises
\* PermissionError and changes nothing else.
Transmit(t, order) ==
    /\ snapshot[t].taken /\ ~working[t].placed
    /\ IF EvaluateOrder(order, snapshot[t])
       THEN /\ working' = [working EXCEPT ![t] = [placed |-> TRUE, order |-> order]]
            /\ UNCHANGED snapshot
       ELSE /\ snapshot' = [snapshot EXCEPT ![t] = Untaken]
            /\ UNCHANGED working
    /\ UNCHANGED <<holding, cash>>

Over(t) ==
    /\ snapshot' = [snapshot EXCEPT ![t] = Untaken]
    /\ working' = [working EXCEPT ![t] = NotPlaced]

Fill(t) ==
    /\ working[t].placed
    /\ LET order == working[t].order
       IN /\ holding' = [holding EXCEPT ![order.stock] = @ + Signed(order.side, order.quantity)]
          /\ cash' = cash - Signed(order.side, order.quantity)
    /\ Over(t)

Cancel(t) == working[t].placed /\ Over(t) /\ UNCHANGED <<holding, cash>>

Orders == [stock : Stocks, side : Sides, quantity : Quantities]

LimitsNext ==
    \/ \E call \in SUBSET Tickets, safety \in Safeties : TakeSnapshot(call, safety)
    \/ \E t \in Tickets, order \in Orders : Transmit(t, order)
    \/ \E t \in Tickets : Fill(t) \/ Cancel(t)

LimitsSpec == LimitsInit /\ [][LimitsNext]_limitsVars
-----------------------------------------------------------------------------
(* Properties.                                                             *)

LimitsTypeOK ==
    /\ holding \in [Stocks -> Int] /\ cash \in Int
    /\ \A t \in Tickets : snapshot[t] # Untaken =>
        snapshot[t].holding \in [Stocks -> Int] /\ snapshot[t].safety \in Safeties
    /\ working \in [Tickets -> [placed : {TRUE}, order : Orders] \cup {NotPlaced}]

\* The limits bound the account and not only each snapshot: however the calls
\* interleave, share a snapshot or leave their orders resting, exposure passes a limit
\* by no more than one largest order for every other order that can be under way, and
\* cash falls below the reserve by no more than that.
ExposureBounded ==
    LET overshoot == (Cardinality(Tickets) - 1) * Limits.maxOrder
    IN /\ Gross(holding, Stocks) <= Limits.maxGross + overshoot
       /\ \A s \in Stocks : Abs(holding[s]) <= Limits.maxPosition + overshoot
       /\ Net(holding) >= -Limits.maxShort - overshoot
       /\ cash >= Limits.minCash - overshoot
=============================================================================

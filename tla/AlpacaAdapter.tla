---------------------------- MODULE AlpacaAdapter ----------------------------
(***************************************************************************)
(* trading.alpaca_adapter: one trader that places and cancels orders and   *)
(* one operator that pulls the kill switch (dashboard.actions), each in    *)
(* its own thread, over an exchange that fills resting orders when it      *)
(* likes and whose answers may be late or lost.  Shares come in lots of    *)
(* one.  The exchange is MockAlpacaClient, or one that refuses an order id *)
(* it has seen; a client may lack close_all_positions().                   *)
(***************************************************************************)
EXTENDS BrokerCall, FiniteSets, Functions

CONSTANTS
    Trader, Operator,  \* the two callers
    Symbols,
    Requests,          \* the orders the trader may place
    Request,           \* of each: symbol, side (1 buys, -1 sells), type, whether it has a client_id
    Venues,            \* the kinds of exchange and client
    MaxPlaced          \* bound of the placements of one request

ASSUME TraderAssumption ==
    /\ Callers = {Trader, Operator} /\ Trader # Operator /\ MaxPlaced \in Nat
    /\ Request \in [Requests -> [symbol : Symbols, side : {1, -1}, type : {"market", "limit"},
                                clientId : BOOLEAN]]
    /\ Venues \subseteq [closeAll : BOOLEAN, refusesKnownId : BOOLEAN]

VARIABLES
    venue,      \* what the exchange and its client can do, one of Venues
    resting,    \* request -> its orders that are open at the exchange
    net,        \* symbol -> signed position at the exchange
    accepted,   \* request -> orders the exchange has taken
    placed,     \* request -> calls of place_order()
    reported,   \* request -> those that returned a result
    kill,       \* how far the kill switch has come
    outer,      \* the fallback of flatten(): its own attempt, and closes still to submit
    overlap,    \* a placement was under way while the kill switch was
    doubled     \* an order that closes a position was taken and its answer lost

alpacaVars == <<call, venue, resting, net, accepted, placed, reported, kill, outer,
                overlap, doubled>>

KillStages == {"ready", "cancelling", "flattening", "flat", "latched", "failed"}
NoOuter == [attempt |-> 0, late |-> FALSE, read |-> FALSE, todo |-> {}]

AlpacaInit ==
    /\ call = [c \in Callers |-> NoCall]
    /\ venue \in Venues
    /\ resting = [r \in Requests |-> 0] /\ net = [s \in Symbols |-> 0]
    /\ accepted = [r \in Requests |-> 0] /\ placed = [r \in Requests |-> 0]
    /\ reported = [r \in Requests |-> 0]
    /\ kill = "ready" /\ outer = NoOuter /\ overlap = FALSE /\ doubled = FALSE
-----------------------------------------------------------------------------
(* Placing an order.                                                       *)

\* place_order() of an order the gateway lets pass.
PlaceOrder(r) ==
    /\ call[Trader] = NoCall /\ placed[r] < MaxPlaced
    /\ placed' = [placed EXCEPT ![r] = @ + 1]
    /\ call' = [call EXCEPT ![Trader] = Starting("submit", r)]
    /\ overlap' = (overlap \/ kill \notin {"ready", "failed"})
    /\ UNCHANGED <<venue, resting, net, accepted, reported, kill, outer, doubled>>

\* Mutant of Refused: the retry makes a new id.
RefusedNever(r) == FALSE

\* A request with a client_id repeats it on every attempt; without one each attempt
\* makes an id of its own.
Refused(r) == venue.refusesKnownId /\ Request[r].clientId /\ accepted[r] > 0

Filled(positions, symbol, side) == [positions EXCEPT ![symbol] = @ + side]

\* submit_order() at the exchange: a market order is filled at once.  A known id
\* that is not refused replaces the order that has it, and fills again.
Accept(r) ==
    /\ accepted' = [accepted EXCEPT ![r] = @ + 1]
    /\ IF Request[r].type = "market"
       THEN net' = Filled(net, Request[r].symbol, Request[r].side) /\ UNCHANGED resting
       ELSE /\ resting' = [resting EXCEPT ![r] = IF Request[r].clientId THEN 1 ELSE @ + 1]
            /\ UNCHANGED net

\* The caller of an attempt that is over: on to the next, or out of the call.
After(c, outcome, effect) ==
    call' = [call EXCEPT ![c] = IF Retries(c, outcome) THEN Pausing(c, effect) ELSE NoCall]

SubmitWorks ==
    /\ Working(Trader) /\ call[Trader].op = "submit"
    /\ LET r == call[Trader].arg
       IN \/ \E outcome \in {"ok", "retryable"} :    \* retryable: the answer is lost
                /\ ~Refused(r) /\ Accept(r) /\ After(Trader, outcome, TRUE)
                /\ reported' = IF Answer(Trader, outcome) = "ok" THEN [reported EXCEPT ![r] = @ + 1] ELSE reported
          \/ \E outcome \in {"retryable", "terminal"} :  \* no connection, or turned down
                /\ After(Trader, outcome, FALSE)
                /\ UNCHANGED <<resting, net, accepted, reported>>
    /\ UNCHANGED <<venue, placed, kill, outer, overlap, doubled>>

\* cancel(): of the order whose result came back.
Cancel(r) ==
    /\ call[Trader] = NoCall /\ reported[r] > 0 /\ resting[r] > 0
    /\ call' = [call EXCEPT ![Trader] = Starting("cancel", r)]
    /\ UNCHANGED <<venue, resting, net, accepted, placed, reported, kill, outer, overlap, doubled>>

CancelWorks ==
    /\ Working(Trader) /\ call[Trader].op = "cancel"
    /\ \E outcome \in Outcomes, effect \in BOOLEAN :
        /\ effect => resting[call[Trader].arg] > 0 /\ ~call[Trader].sent
        /\ outcome = "terminal" => ~effect    \* filled or unknown
        /\ resting' = IF effect THEN [resting EXCEPT ![call[Trader].arg] = @ - 1] ELSE resting
        /\ After(Trader, outcome, effect)
    /\ UNCHANGED <<venue, net, accepted, placed, reported, kill, outer, overlap, doubled>>

\* A resting order is hit at the exchange.
ExchangeFills(r) ==
    /\ resting[r] > 0 /\ resting' = [resting EXCEPT ![r] = @ - 1]
    /\ net' = Filled(net, Request[r].symbol, Request[r].side)
    /\ UNCHANGED <<call, venue, accepted, placed, reported, kill, outer, overlap, doubled>>
-----------------------------------------------------------------------------
(* The kill switch: cancel_all, then flatten, then the breaker's latch.    *)

EngageKillSwitch ==
    /\ kill \in {"ready", "failed"} /\ call[Operator] = NoCall
    /\ kill' = "cancelling" /\ overlap' = (call[Trader].op = "submit") /\ doubled' = FALSE
    /\ call' = [call EXCEPT ![Operator] = Starting("cancel_all", <<>>)]
    /\ UNCHANGED <<venue, resting, net, accepted, placed, reported, outer>>

NothingRests == [r \in Requests |-> 0]
NoPosition == [s \in Symbols |-> 0]
Open == {s \in Symbols : net[s] # 0}

\* flatten() begins: one call of the client, or its fallback.
Flattening ==
    IF venue.closeAll THEN Starting("flatten", <<>>) ELSE NoCall

\* The requests with an order at the exchange.
AtExchange == {r \in Requests : resting[r] > 0}

Without(cancelled) == [r \in Requests |-> IF r \in cancelled THEN 0 ELSE resting[r]]

\* Mutant of CancelAllWorks: the switch goes on although cancel_all() failed.
CancelAllWorksAnyhow ==
    /\ Working(Operator) /\ call[Operator].op = "cancel_all"
    /\ \E outcome \in Outcomes, cancelled \in SUBSET AtExchange :
        /\ outcome = "ok" => cancelled = AtExchange
        /\ resting' = Without(cancelled)
        /\ IF Retries(Operator, outcome)
           THEN call' = [call EXCEPT ![Operator] = Pausing(Operator, cancelled # {})] /\ UNCHANGED <<kill, outer>>
           ELSE /\ kill' = "flattening"
                /\ call' = [call EXCEPT ![Operator] = Flattening]
                /\ outer' = IF venue.closeAll THEN NoOuter ELSE [NoOuter EXCEPT !.attempt = 1]
    /\ UNCHANGED <<venue, net, accepted, placed, reported, overlap, doubled>>

\* A client that has cancel_orders() cancels in one call; with another one the adapter
\* lists the open orders and cancels them in turn, and may break off in between.
CancelAllWorks ==
    /\ Working(Operator) /\ call[Operator].op = "cancel_all"
    /\ \E outcome \in Outcomes, cancelled \in SUBSET AtExchange :
        /\ outcome = "ok" => cancelled = AtExchange
        /\ resting' = Without(cancelled)
        /\ IF Retries(Operator, outcome)
           THEN call' = [call EXCEPT ![Operator] = Pausing(Operator, cancelled # {})] /\ UNCHANGED <<kill, outer>>
           ELSE IF Raises(Operator, outcome)
           THEN kill' = "failed" /\ call' = [call EXCEPT ![Operator] = NoCall] /\ UNCHANGED outer
           ELSE /\ kill' = "flattening"
                /\ call' = [call EXCEPT ![Operator] = Flattening]
                /\ outer' = IF venue.closeAll THEN NoOuter ELSE [NoOuter EXCEPT !.attempt = 1]
    /\ UNCHANGED <<venue, net, accepted, placed, reported, overlap, doubled>>

\* close_all_positions(cancel_orders=True): it cancels, then closes one position
\* after another, and may break off in between.
FlattenWorks ==
    /\ Working(Operator) /\ call[Operator].op = "flatten"
    /\ \E outcome \in Outcomes, closed \in SUBSET Open, cancelled \in BOOLEAN :
        /\ outcome = "ok" => closed = Open
        /\ closed # {} \/ outcome = "ok" => cancelled
        /\ resting' = IF cancelled THEN NothingRests ELSE resting
        /\ net' = [s \in Symbols |-> IF s \in closed THEN 0 ELSE net[s]]
        /\ After(Operator, outcome, cancelled)
        /\ kill' = IF Retries(Operator, outcome) THEN kill
                   ELSE IF Raises(Operator, outcome) THEN "failed" ELSE "flat"
    /\ UNCHANGED <<venue, accepted, placed, reported, outer, overlap, doubled>>

\* The fallback reads the positions and submits one closing order after another,
\* each with attempts of its own inside an attempt of flatten().
InFallback == kill = "flattening" /\ ~venue.closeAll /\ call[Operator] = NoCall

FallbackReads ==
    /\ InFallback /\ ~outer.read
    /\ outer' = [outer EXCEPT !.todo = {<<s, net[s]>> : s \in Open}, !.read = TRUE]
    /\ UNCHANGED <<call, venue, resting, net, accepted, placed, reported, kill, overlap, doubled>>

FallbackCloses ==
    /\ InFallback
    /\ \E close \in outer.todo :
        /\ call' = [call EXCEPT ![Operator] = Starting("close", close)]
        /\ outer' = [outer EXCEPT !.todo = @ \ {close}]
    /\ UNCHANGED <<venue, resting, net, accepted, placed, reported, kill, overlap, doubled>>

\* flatten() as a whole times out while its worker is still closing.
FallbackTimesOut ==
    /\ kill = "flattening" /\ outer.attempt > 0 /\ ~outer.late
    /\ outer' = [outer EXCEPT !.late = TRUE]
    /\ UNCHANGED <<call, venue, resting, net, accepted, placed, reported, kill, overlap, doubled>>

\* An attempt of the fallback is over; the next one reads the positions again.
FallbackEnds(outcome) ==
    IF outcome = "ok" /\ ~outer.late
    THEN kill' = "flat" /\ outer' = NoOuter
    ELSE IF (outer.late \/ outcome = "retryable") /\ outer.attempt < Attempts
    THEN outer' = [NoOuter EXCEPT !.attempt = outer.attempt + 1] /\ UNCHANGED kill
    ELSE kill' = "failed" /\ outer' = NoOuter

\* positions() has raised.
FallbackReadFails ==
    /\ InFallback /\ ~outer.read
    /\ \E outcome \in {"retryable", "terminal"} : FallbackEnds(outcome)
    /\ UNCHANGED <<call, venue, resting, net, accepted, placed, reported, overlap, doubled>>

FallbackDone ==
    /\ InFallback /\ outer.read /\ outer.todo = {}
    /\ FallbackEnds("ok")
    /\ UNCHANGED <<call, venue, resting, net, accepted, placed, reported, overlap, doubled>>

\* The closing order keeps its id from attempt to attempt.
CloseWorks ==
    /\ Working(Operator) /\ call[Operator].op = "close"
    /\ \E outcome \in Outcomes, effect \in BOOLEAN :
        /\ outcome = "ok" => effect
        /\ outcome = "terminal" => ~effect
        /\ effect => ~(venue.refusesKnownId /\ call[Operator].sent)
        /\ net' = IF effect THEN [net EXCEPT ![call[Operator].arg[1]] = @ - call[Operator].arg[2]] ELSE net
        /\ doubled' = (doubled \/ (effect /\ Answer(Operator, outcome) # "ok"))
        /\ After(Operator, outcome, effect)
        /\ IF Raises(Operator, outcome)
           THEN FallbackEnds(Answer(Operator, outcome))
           ELSE UNCHANGED <<outer, kill>>
    /\ UNCHANGED <<venue, resting, accepted, placed, reported, overlap>>

\* dashboard.actions latches the breaker only after the adapter has returned.
LatchBreaker ==
    /\ kill = "flat" /\ kill' = "latched"
    /\ UNCHANGED <<call, venue, resting, net, accepted, placed, reported, outer, overlap, doubled>>

OperatorWorks ==
    \/ CancelAllWorks \/ FlattenWorks \/ FallbackReads \/ FallbackReadFails
    \/ FallbackCloses \/ FallbackDone \/ CloseWorks
Rest == <<venue, resting, net, accepted, placed, reported, kill, outer, overlap, doubled>>
CallTimesOut(c) == TimesOut(c) /\ UNCHANGED Rest
CallWakes(c) == Wakes(c) /\ UNCHANGED Rest

AlpacaNext ==
    \/ \E r \in Requests : PlaceOrder(r) \/ Cancel(r) \/ ExchangeFills(r)
    \/ SubmitWorks \/ CancelWorks
    \/ EngageKillSwitch \/ OperatorWorks \/ FallbackTimesOut \/ LatchBreaker
    \/ \E c \in Callers : CallTimesOut(c) \/ CallWakes(c)

AlpacaSpec == AlpacaInit /\ [][AlpacaNext]_alpacaVars
-----------------------------------------------------------------------------
(* Properties.                                                             *)

AlpacaTypeOK ==
    /\ call \in [Callers -> Calls(Requests \cup {<<>>} \cup (Symbols \X Int)) \cup {NoCall}]
    /\ \A f \in {resting, accepted, placed, reported} : f \in [Requests -> Nat]
    /\ net \in [Symbols -> Int] /\ kill \in KillStages
    /\ outer.attempt \in 0..Attempts /\ overlap \in BOOLEAN /\ doubled \in BOOLEAN

\* "cancel-all + flatten": when the kill switch of the adapter has returned, and no
\* placement ran beside it, no order rests and no position is open, whatever was
\* late, lost or broken off on the way.  (The fallback of flatten() needs an exchange that
\* refuses a known id: a closing order it repeats after a lost answer is filled
\* twice elsewhere and opens the opposite position.)
KillLeavesNothing ==
    kill \in {"flat", "latched"} /\ ~overlap =>
        /\ resting = NothingRests
        /\ venue.closeAll \/ venue.refusesKnownId \/ ~doubled => net = NoPosition

\* One placement makes at most one order per attempt at the exchange, however answers
\* are lost and late; with a client_id at most one of them rests, and an exchange that
\* refuses an id it knows takes one order in all.
RepeatsAreBounded ==
    \A r \in Requests :
        /\ accepted[r] <= Attempts * placed[r]
        /\ Request[r].clientId => resting[r] <= 1
        /\ venue.refusesKnownId /\ Request[r].clientId => accepted[r] <= 1

\* with_retry(): as long as every attempt ends, the kill switch ends too, in a flat
\* book or in an error the operator sees.
KillSwitchAnswers == kill \in {"cancelling", "flattening"} ~> kill \in {"flat", "latched", "failed"}

\* _call_with_timeout(): "a hung vendor SDK cannot block the trading loop forever".
TraderIsNotBlocked == call[Trader] # NoCall ~> call[Trader] = NoCall
=============================================================================

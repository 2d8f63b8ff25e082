---------------------------- MODULE MCMonitoring ----------------------------
(* What watches the orders and what the system records: ticks and feeds, the   *)
(* order-flow gate, the limits, the bars, the universe, the ledger.  The parts *)
(* meet in no variable but the clock, so a behaviour runs one of them, chosen  *)
(* at its start, and leaves the others where they begin.                       *)
EXTENDS MarketWatch, OrderFlow, OrderLimits, DataSync, Ledger, TLC

CONSTANTS A, B   \* two stocks

VARIABLE part

monitoringVars ==
    <<flashVars, feedVars, flowVars, limitsVars, syncVars, universeVars, ledgerVars, now, part>>

\* The parts, each with the last instant of its clock.
LastInstant ==
    [flash |-> 5, feed |-> 5, flow |-> 4, limits |-> 0, bars |-> Horizon, universe |-> 5, ledger |-> 0]

Init ==
    /\ now = 0 /\ part \in DOMAIN LastInstant
    /\ WatchInit /\ FlowInit /\ LimitsInit /\ SyncInit /\ LedgerInit

FlashStep ==
    /\ part = "flash" /\ FlashNext
    /\ UNCHANGED <<feedVars, flowVars, limitsVars, syncVars, universeVars, ledgerVars, now, part>>
FeedStep ==
    /\ part = "feed" /\ FeedNext
    /\ UNCHANGED <<flashVars, flowVars, limitsVars, syncVars, universeVars, ledgerVars, now, part>>
FlowStep ==
    /\ part = "flow" /\ FlowNext
    /\ UNCHANGED <<flashVars, feedVars, limitsVars, syncVars, universeVars, ledgerVars, now, part>>
LimitsStep ==
    /\ part = "limits" /\ LimitsNext
    /\ UNCHANGED <<flashVars, feedVars, flowVars, syncVars, universeVars, ledgerVars, now, part>>
BarsStep ==
    /\ part = "bars" /\ SyncNext
    /\ UNCHANGED <<flashVars, feedVars, flowVars, limitsVars, universeVars, ledgerVars, now, part>>
UniverseStep ==
    /\ part = "universe" /\ UniverseNext
    /\ UNCHANGED <<flashVars, feedVars, flowVars, limitsVars, syncVars, ledgerVars, now, part>>
LedgerStep ==
    /\ part = "ledger" /\ LedgerNext
    /\ UNCHANGED <<flashVars, feedVars, flowVars, limitsVars, syncVars, universeVars, now, part>>
TimePasses ==
    /\ now < LastInstant[part] /\ Tick
    /\ UNCHANGED <<flashVars, feedVars, flowVars, limitsVars, syncVars, universeVars, ledgerVars, part>>

Next ==
    \/ FlashStep \/ FeedStep \/ FlowStep \/ LimitsStep \/ BarsStep \/ UniverseStep \/ LedgerStep
    \/ TimePasses

Spec == Init /\ [][Next]_monitoringVars

MonitoringTypeOK == WatchTypeOK /\ FlowTypeOK /\ LimitsTypeOK /\ SyncTypeOK /\ LedgerTypeOK

MCSector == (A :> "tech") @@ (B :> "tech")
MCLimits ==
    [minOrder |-> 1, maxOrder |-> 2, maxPosition |-> 2, maxStrategy |-> 5, maxSector |-> 6,
     maxOpen |-> 2, maxGross |-> 3, maxShort |-> 0, minCash |-> 1]
=============================================================================

---------------------------- MODULE TradingPolicy ----------------------------
(***************************************************************************)
(* The permission slip evaluate() hands out: what every trigger directs,   *)
(* how the directives of all active triggers are merged, the sector blocks *)
(* that outlive their crash, and the view the dashboard derives from the   *)
(* persisted row.  Which state the breaker is in is CircuitBreaker's       *)
(* concern; here it is any state the active triggers allow.                *)
(***************************************************************************)
EXTENDS Clock, BreakerLevels, FiniteSets, FiniteSetsExt

CONSTANTS
    Positions,   \* what can be held: records with a stock, a sector, a side and a profit
    Kinds,       \* the triggers that occur, among those of Directives
    Levels,      \* the states the breaker is in, among States
    BlockDays    \* market_crash.sector_block_days

VARIABLES
    book,        \* the open positions
    latched,     \* _sticky, by kind
    killSwitch,  \* _killed
    enabled,     \* circuit_breakers.enabled of this process's configuration
    blocks,      \* _sector_blocks
    saved,       \* what the row and breaker:sector_blocks hold
    policy,      \* the last TradingPolicy
    lastCrash,   \* per sector, when a crash was last seen, as far as this process can know
    recorded     \* lastCrash at the last save that was completed

policyVars == <<book, latched, killSwitch, enabled, blocks, saved, policy, lastCrash, recorded>>

Sectors == {p.sector : p \in Positions}
Unseen == -1

Plain == [alert |-> YELLOW, latch |-> FALSE, act |-> "none", size |-> 100, boost |-> 0,
          floor |-> 0, open |-> 10, bars |-> {}, tighten |-> FALSE]
Yellow(size, boost) == [Plain EXCEPT !.size = size, !.boost = boost]
Orange(size, floor, bars) ==
    [Plain EXCEPT !.alert = ORANGE, !.size = size, !.floor = floor, !.bars = bars]
Doing(alert, act) == [Plain EXCEPT !.alert = alert, !.act = act]
Latching(alert, act) == [Doing(alert, act) EXCEPT !.latch = TRUE]

\* The metadata of every trigger, sizes and confidences in percent.
Directives ==
    [daily_1 |-> Plain,
     daily_2 |-> [Doing(ORANGE, "block_entries_reduce") EXCEPT !.size = 75, !.tighten = TRUE],
     daily_3 |-> Latching(RED, "close_worst_half"),
     daily_4 |-> Latching(EMERGENCY_ALERT, "flatten_all"),
     weekly_1 |-> Yellow(75, 10), weekly_2 |-> Orange(50, 80, {"shorts"}),
     weekly_3 |-> Latching(RED, "flatten_all"),
     monthly_1 |-> Yellow(75, 0), monthly_2 |-> Orange(50, 0, {}),
     monthly_3 |-> Latching(RED, "flatten_all"),
     drawdown_1 |-> [Yellow(80, 0) EXCEPT !.tighten = TRUE],
     drawdown_2 |-> Orange(60, 75, {"shorts"}),
     drawdown_3 |-> [Plain EXCEPT !.alert = RED, !.size = 50, !.floor = 85, !.open = 3],
     drawdown_4 |-> Latching(EMERGENCY_ALERT, "flatten_all"),
     vix_1 |-> Yellow(75, 0), vix_2 |-> Orange(50, 0, {"longs"}),
     vix_3 |-> [Plain EXCEPT !.alert = RED, !.size = 25],
     vix_4 |-> [Doing(EMERGENCY_ALERT, "flatten_all") EXCEPT !.size = 0],
     vix_spike |-> Doing(ORANGE, "immediate_review"),
     crash_1 |-> Plain, crash_2 |-> Orange(50, 0, {"longs"}),
     crash_3 |-> Doing(RED, "exit_longs"),
     feed_1 |-> Doing(RED, "block_entries"),
     feed_2 |-> Doing(EMERGENCY_ALERT, "flatten_all"),
     api_1 |-> Doing(ORANGE, "none"), api_2 |-> Doing(EMERGENCY_ALERT, "flatten_all"),
     model |-> Doing(ORANGE, "technical_only"),
     mismatch |-> Latching(RED, "none"), runaway |-> Doing(RED, "none")]

ASSUME PolicyAssumption ==
    Kinds \subseteq DOMAIN Directives /\ Levels \subseteq States /\ BlockDays \in Nat \ {0}

Shut == [size |-> 0, boost |-> 100, open |-> 0, may |-> {}]

Default ==
    [NORMAL |-> [size |-> 100, boost |-> 0, open |-> 10, may |-> {"entries", "longs", "shorts"}],
     CAUTION |-> [size |-> 85, boost |-> 5, open |-> 8, may |-> {"entries", "longs", "shorts"}],
     RESTRICTED |-> [size |-> 50, boost |-> 10, open |-> 5, may |-> {"entries", "longs"}],
     DEFENSIVE |-> [size |-> 25, boost |-> 25, open |-> 3, may |-> {}],
     HALTED |-> Shut, EMERGENCY |-> Shut, SUSPENDED |-> Shut]

NormalConfidence == 65   \* trading.min_confidence_normal
-----------------------------------------------------------------------------
(* The merge of the directives.                                            *)

Doers(triggers, acts) == {t \in triggers : Directives[t].act \in acts}

\* Half of the positions, rounded up, the largest losses first.
WorstHalf(held) ==
    LET sizeOf == (Cardinality(held) + 1) \div 2
    IN {p \in held : Cardinality({q \in held : q.profit < p.profit}) < sizeOf}

\* The positions some directive closes, short of flatten_all.
Exits(triggers, crashed, held) ==
    {p \in held :
        \/ Doers(triggers, {"close_worst_half"}) # {} /\ p \in WorstHalf(held)
        \/ Doers(triggers, {"exit_longs"}) # {} /\ p.side = "long"
        \/ p.sector \in crashed}

\* flatten_all closes the whole book when nothing else closes a part of it.
Closings(triggers, crashed, held, flatten) ==
    IF flatten /\ Exits(triggers, crashed, held) = {} THEN held ELSE Exits(triggers, crashed, held)

Permissions(level, triggers, kill) ==
    LET flatten == kill \/ Doers(triggers, {"flatten_all"}) # {}
        barred ==
            (UNION {Directives[t].bars : t \in triggers})
            \cup (IF Doers(triggers, {"exit_longs"}) # {} THEN {"longs"} ELSE {})
            \cup (IF flatten \/ Doers(triggers, {"block_entries", "block_entries_reduce", "close_worst_half"}) # {}
                  THEN {"entries"} ELSE {})
        may == Default[level].may \ barred
    IN IF "entries" \in may THEN may ELSE {}

\* Mutant of SizeUnder: the triggers' multiplier replaces the one of the state.
SizeOfTriggers(level, triggers) ==
    IF triggers = {} THEN Default[level].size ELSE Min({Directives[t].size : t \in triggers})

SizeUnder(level, triggers) == Min({Default[level].size} \cup {Directives[t].size : t \in triggers})

\* the aggregation at the end of evaluate()
Merged(level, triggers, kill, crashed, held) ==
    LET flatten == kill \/ Doers(triggers, {"flatten_all"}) # {}
    IN [given |-> TRUE, level |-> level,
        size |-> SizeUnder(level, triggers),
        boost |-> Max({Default[level].boost} \cup {Directives[t].boost : t \in triggers}
                      \cup {Directives[t].floor - NormalConfidence : t \in triggers}),
        open |-> Min({Default[level].open} \cup {Directives[t].open : t \in triggers}),
        may |-> Permissions(level, triggers, kill),
        ml |-> Doers(triggers, {"technical_only"}) = {},
        flatten |-> flatten,
        cancel |-> flatten \/ Doers(triggers, {"block_entries_reduce", "close_worst_half"}) # {},
        tighten |-> \/ \E t \in triggers : Directives[t].tighten
                    \/ Doers(triggers, {"block_entries_reduce", "close_worst_half"}) # {},
        close |-> Closings(triggers, crashed, held, flatten), sectors |-> crashed]

NoSlip ==
    [given |-> FALSE, level |-> "NORMAL", size |-> 0, boost |-> 0, open |-> 0, may |-> {},
     ml |-> FALSE, flatten |-> FALSE, cancel |-> FALSE, tighten |-> FALSE, close |-> {}, sectors |-> {}]

\* With the breakers disabled: the permissions of NORMAL in whatever state, and no blocked sectors.
SlipWhenDisabled(level) ==
    [NoSlip EXCEPT !.given = TRUE, !.level = level, !.size = Default["NORMAL"].size,
                   !.open = Default["NORMAL"].open, !.may = Default["NORMAL"].may, !.ml = TRUE]

Forced(triggers, crashed, kill) ==
    LET alerts == {Directives[t].alert : t \in triggers}
                  \cup (IF crashed # {} THEN {ORANGE} ELSE {}) \cup (IF kill THEN {EMERGENCY_ALERT} ELSE {})
    IN IF alerts = {} THEN "NORMAL" ELSE SeverityState(Max(alerts))
-----------------------------------------------------------------------------
PolicyInit ==
    /\ book \in SUBSET Positions /\ latched = {} /\ killSwitch = FALSE /\ blocks = <<>>
    /\ saved = [level |-> "NORMAL", latched |-> {}, killSwitch |-> FALSE, blocks |-> <<>>]
    /\ enabled \in BOOLEAN /\ policy = NoSlip
    /\ lastCrash = [s \in Sectors |-> Unseen] /\ recorded = lastCrash

\* _check_sectors() renews the block of a crashed sector; the merge drops the ones that have run out.
BlocksAfter(crashed) ==
    LET until(s) == IF s \in crashed THEN now + BlockDays ELSE blocks[s]
    IN [s \in {s \in crashed \cup DOMAIN blocks : until(s) > now} |-> until(s)]

\* _persist(): the row, then the sector blocks, two commits under one except.  The first
\* may fail, or the second, or the process dies between them.
Persist(row) ==
    /\ saved' \in {saved, [row EXCEPT !.blocks = saved.blocks], row}
    /\ recorded' = IF saved' = row THEN lastCrash' ELSE recorded

\* evaluate(), in a state no milder than the triggers force.
EvaluatePolicy(fresh, crashed, level) ==
    LET triggers == latched \cup fresh
    IN /\ enabled /\ Severity[level] >= Severity[Forced(triggers, crashed, killSwitch)]
       /\ UNCHANGED <<book, killSwitch, enabled>>
       /\ latched' = latched \cup {t \in fresh : Directives[t].latch}
       /\ blocks' = BlocksAfter(crashed)
       /\ lastCrash' = [s \in Sectors |-> IF s \in crashed THEN now ELSE lastCrash[s]]
       /\ policy' = [Merged(level, triggers, killSwitch, crashed, book) EXCEPT !.sectors = DOMAIN blocks']
       /\ Persist([level |-> level, latched |-> latched', killSwitch |-> killSwitch, blocks |-> blocks'])

\* evaluate() with the breakers disabled: no trigger is looked at and no block dropped.
EvaluateDisabled(level) ==
    /\ ~enabled /\ Severity[level] >= Severity[Forced(latched, {}, killSwitch)]
    /\ policy' = SlipWhenDisabled(level)
    /\ UNCHANGED <<book, latched, killSwitch, enabled, blocks, lastCrash>>
    /\ Persist([level |-> level, latched |-> latched, killSwitch |-> killSwitch, blocks |-> blocks])

\* The caller carries out the closings of the slip it was given.
Enforce ==
    /\ policy.close \cap book # {}
    /\ book' = book \ policy.close
    /\ UNCHANGED <<latched, killSwitch, enabled, blocks, saved, policy, lastCrash, recorded>>

\* The caller opens a position the slip admits.
Enter(p) ==
    /\ p \notin book /\ Cardinality(book) < policy.open
    /\ (IF p.side = "long" THEN "longs" ELSE "shorts") \in policy.may
    /\ p.sector \notin policy.sectors
    /\ book' = book \cup {p}
    /\ UNCHANGED <<latched, killSwitch, enabled, blocks, saved, policy, lastCrash, recorded>>

\* activate_kill_switch(); the next evaluate() says what it means for the book.
Kill ==
    /\ killSwitch' = TRUE
    /\ UNCHANGED <<book, latched, enabled, blocks, policy, lastCrash>>
    /\ Persist([level |-> "EMERGENCY", latched |-> latched, killSwitch |-> TRUE, blocks |-> blocks])

\* resume(), as far as the latches go; the sector blocks stay.
ReleaseLatches ==
    /\ latched' = {} /\ killSwitch' = FALSE
    /\ UNCHANGED <<book, enabled, blocks, policy, lastCrash>>
    /\ Persist([level |-> "RESTRICTED", latched |-> {}, killSwitch |-> FALSE, blocks |-> blocks])

\* Mutant of ReloadPolicy: breaker:sector_blocks is not read back.
ReloadWithoutBlocks ==
    /\ latched' = saved.latched /\ killSwitch' = saved.killSwitch /\ blocks' = <<>>
    /\ policy' = NoSlip /\ enabled' \in BOOLEAN /\ lastCrash' = recorded
    /\ UNCHANGED <<book, saved, recorded>>

\* A new process, perhaps with another configuration; it knows of the crashes that were recorded.
ReloadPolicy ==
    /\ latched' = saved.latched /\ killSwitch' = saved.killSwitch /\ blocks' = saved.blocks
    /\ policy' = NoSlip /\ enabled' \in BOOLEAN /\ lastCrash' = recorded
    /\ UNCHANGED <<book, saved, recorded>>

EvaluateSome ==
    \E fresh \in SUBSET Kinds, crashed \in SUBSET Sectors, level \in Levels :
        EvaluatePolicy(fresh, crashed, level)

PolicyNext ==
    \/ EvaluateSome \/ (\E level \in Levels : EvaluateDisabled(level))
    \/ Enforce \/ Kill \/ ReleaseLatches \/ ReloadPolicy
    \/ \E p \in Positions : Enter(p)

PolicyOrTick == (PolicyNext /\ UNCHANGED now) \/ (Tick /\ UNCHANGED policyVars)

PolicySpec == now = 0 /\ PolicyInit /\ [][PolicyOrTick]_<<policyVars, now>>
-----------------------------------------------------------------------------
(* The dashboard's reconstruction from the row.                            *)

\* _derive_trading_policy(): without the merge's close_worst_half, exit_longs and confidence floors.
Derived(row) ==
    LET flatten == row.killSwitch \/ Doers(row.latched, {"flatten_all"}) # {}
        barred == UNION {Directives[t].bars : t \in row.latched}
        stopped == flatten \/ Doers(row.latched, {"block_entries", "block_entries_reduce"}) # {}
        may == Default[row.level].may \ barred
    IN [size |-> IF row.killSwitch THEN 0
                 ELSE SizeUnder(row.level, row.latched),
        open |-> Min({Default[row.level].open} \cup {Directives[t].open : t \in row.latched}),
        may |-> IF stopped \/ "entries" \notin may THEN {} ELSE may,
        flatten |-> flatten]
-----------------------------------------------------------------------------
(* Properties.                                                             *)

PolicyTypeOK ==
    /\ book \subseteq Positions /\ latched \subseteq Kinds /\ {killSwitch, enabled} \subseteq BOOLEAN
    /\ DOMAIN blocks \subseteq Sectors /\ policy.close \subseteq Positions
    /\ policy.size \in 0..100 /\ policy.boost \in 0..100 /\ policy.open \in 0..10

\* "sector -5% -> exit sector + block 3d": under the slips of enabled breakers nothing is
\* opened in a sector within BlockDays of its last crash, across slips, failed saves,
\* resumes, restarts and spells with the breakers disabled.  A restart knows of the
\* crashes some completed save came after: one save is enough, whatever fails later.
SectorBlockServed ==
    [][\A p \in book' \ book :
        enabled /\ lastCrash[p.sector] # Unseen => now >= lastCrash[p.sector] + BlockDays]_<<policyVars, now>>

\* "most-conservative-wins": beside whatever triggers, one more never loosens what the
\* merged slip permits, nor its sizes, caps and the order to flatten.
NothingLoosened ==
    policy.given => \A fresh \in SUBSET Kinds : \A kind \in Kinds \ (latched \cup fresh), level \in Levels :
        LET before == Merged(level, latched \cup fresh, killSwitch, {}, book)
            after == Merged(level, latched \cup fresh \cup {kind}, killSwitch, {}, book)
        IN /\ after.may \subseteq before.may /\ after.ml => before.ml
           /\ after.size <= before.size /\ after.open <= before.open /\ after.boost >= before.boost
           /\ (before.flatten => after.flatten) /\ (before.cancel => after.cancel)

\* An order to flatten never stalls: while a slip that says so stands, either the book is
\* empty or there is something to close, whatever narrower closings stand beside it, and
\* nothing is opened meanwhile.
FlattenNeverStalls ==
    [][policy.given /\ policy.flatten =>
        /\ policy.close # {} \/ book = {}
        /\ book' \subseteq book]_<<policyVars, now>>

\* The rule of docs/ARCHITECTURE.md 4.2 for the closings: one more trigger never
\* spares a position.  (exit_longs beside flatten_all does.)
NothingSpared ==
    \A kind \in Kinds :
        Merged("EMERGENCY", latched, killSwitch, {}, book).close
            \subseteq Merged("EMERGENCY", latched \cup {kind}, killSwitch, {}, book).close

\* docs of _derive_trading_policy: it "mirrors the circuit-breaker manager's merge".
PanelMatchesPolicy ==
    policy.given /\ saved.killSwitch = killSwitch /\ saved.latched = latched =>
        Derived(saved).may = policy.may
=============================================================================

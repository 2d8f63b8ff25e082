--------------------------- MODULE CircuitBreaker ---------------------------
(***************************************************************************)
(* CircuitBreakerManager: the trading-state machine, its latched triggers, *)
(* lock window, kill switch, override tokens, recovery throttle, and the   *)
(* row of table breaker_state they are persisted to.  One process; every   *)
(* public method is one action, except resume(), whose walk down the state *)
(* machine is one action per turn of its loop.  A crash may come between   *)
(* any two actions.                                                        *)
(***************************************************************************)
EXTENDS BreakerLevels, FiniteSets

CONSTANTS
    Equities,        \* equity figures a portfolio snapshot may carry
    VixLevels,       \* levels of VIX trigger the market may give, 0 when calm
    Threshold,       \* loss thresholds by ladder, in basis points (negative)
    DayTicks,        \* clock readings per calendar day
    OpenTick,        \* the reading within a day at which the session opens
    WeekDays,        \* calendar days per week
    TradingDays,     \* trading days per week, at its beginning
    MonthDays,       \* calendar days per month
    CoolingOffDays,  \* recovery.cooling_off_days
    RampDays,        \* day boundaries of the recovery tiers
    RampSize,        \* recovery tiers, in percent
    Tokens,          \* override tokens that can be minted
    Enabling,        \* values of circuit_breakers.enabled a start may read
    DbMayFail,       \* whether a write to the database may fail
    DirectResume,    \* whether resume() is also called without confirm_override()
    MaxTick          \* bound of the clock

ASSUME EquitiesAssumption == Equities \subseteq Nat \ {0} /\ Equities # {}
ASSUME VixAssumption == VixLevels \subseteq 0..4 /\ 0 \in VixLevels
ASSUME ThresholdAssumption ==
    /\ DOMAIN Threshold = Ladders
    /\ \A c \in Ladders :
        Threshold[c] \in [LevelOf[c] -> Int]
ASSUME CalendarAssumption ==
    /\ DayTicks \in Nat \ {0} /\ OpenTick \in 0..(DayTicks - 1)
    /\ WeekDays \in Nat \ {0} /\ TradingDays \in 1..WeekDays
    /\ MonthDays \in Nat \ {0} /\ CoolingOffDays \in Nat
ASSUME RampAssumption ==
    RampDays \in [1..3 -> Nat] /\ RampSize \in [1..4 -> 0..100]
ASSUME FlagsAssumption ==
    /\ Enabling \subseteq BOOLEAN /\ DbMayFail \in BOOLEAN /\ DirectResume \in BOOLEAN
    /\ MaxTick \in Nat

VARIABLES
    now,          \* the clock
    enabled,      \* circuit_breakers.enabled, as read at the start
    equity,       \* equity of the next portfolio snapshot
    vix,          \* level of VIX trigger the market gives, 0 when calm
    state,        \* _state
    sticky,       \* _sticky
    killed,       \* _killed
    lockedUntil,  \* _locked_until, 0 for None
    anchor,       \* anchors and their period keys; DRAWDOWN holds the peak
    recovery,     \* _recovery_start and _recovery_anchor
    mismatch,     \* _position_mismatches is not empty
    tokens,       \* _pending_override
    walking,      \* resume() is inside its walk
    policy,       \* the last TradingPolicy returned
    row           \* the row of breaker_state

market == <<equity, vix>>
latch == <<state, sticky, killed, lockedUntil>>
vars == <<now, enabled, market, latch, anchor, recovery, mismatch, tokens, walking,
          policy, row>>

None == -1

PolicyType ==
    [entries : BOOLEAN, flatten : BOOLEAN, recovery : 0..100]

NoPolicy == [entries |-> FALSE, flatten |-> FALSE, recovery |-> 0]

NoAnchor == [key |-> None, base |-> 0]
AnchorType == [Ladders -> [key : Nat, base : Nat \ {0}] \cup {NoAnchor}]
RecoveryType == [start : Nat \cup {None}, base : Nat]

TypeOK ==
    /\ now \in Nat /\ enabled \in Enabling /\ equity \in Equities /\ vix \in VixLevels
    /\ state \in States /\ sticky \subseteq TriggerType
    /\ killed \in BOOLEAN /\ lockedUntil \in Nat
    /\ anchor \in AnchorType /\ recovery \in RecoveryType
    /\ mismatch \in BOOLEAN /\ walking \in BOOLEAN
    /\ tokens \in [Tokens -> {"none", "live", "expired"}]
    /\ policy \in PolicyType
    /\ row \in [state : States, sticky : SUBSET TriggerType, lockedUntil : Nat,
                anchor : AnchorType, recovery : RecoveryType]

-----------------------------------------------------------------------------
(* The calendar: day and period keys, and the open of a later session.     *)

Day == now \div DayTicks

PeriodKey(c) ==
    CASE c = "DAILY_LOSS"   -> Day
      [] c = "WEEKLY_LOSS"  -> Day \div WeekDays
      [] c = "MONTHLY_LOSS" -> Day \div MonthDays
      [] c = "DRAWDOWN"     -> 0     \* the peak is never rolled

NextTradingDay(d) ==
    IF (d + 1) % WeekDays < TradingDays
      THEN d + 1
      ELSE ((d + 1) \div WeekDays + 1) * WeekDays

OpenOf(d) == d * DayTicks + OpenTick

\* lock_sessions is 1 or 2.
SessionOpenAfter(sessions) ==
    OpenOf(IF sessions = 1 THEN NextTradingDay(Day)
                           ELSE NextTradingDay(NextTradingDay(Day)))

LockActive(until) == now < until

-----------------------------------------------------------------------------
(* The checks of one evaluation.                                           *)

\* Mutant of RollAnchors: every anchor ratchets up like the peak.
RollAnchorsUp ==
    [c \in Ladders |->
        IF anchor[c].key # PeriodKey(c) \/ equity > anchor[c].base
          THEN [key |-> PeriodKey(c), base |-> equity]
          ELSE anchor[c]]

RollAnchors ==
    [c \in Ladders |->
        IF \/ anchor[c].key # PeriodKey(c)
           \/ c = "DRAWDOWN" /\ equity > anchor[c].base
          THEN [key |-> PeriodKey(c), base |-> equity]
          ELSE anchor[c]]

\* The loss printed in a trigger's description, rounded to a basis point.
LossFigure(base) == (20000 * equity + base) \div (2 * base) - 10000

Breached(c, l, base) == equity * 10000 <= base * (10000 + Threshold[c][l])

WorstBreach(c, l, base) ==
    /\ Breached(c, l, base)
    /\ \A k \in LevelOf[c] : k > l => ~Breached(c, k, base)

\* The worst breached level of each ladder, against the rolled anchors.
LossTriggers(anchors) ==
    UNION {{[category |-> c, level |-> l, value |-> LossFigure(anchors[c].base)] :
                l \in {m \in LevelOf[c] : WorstBreach(c, m, anchors[c].base)}} :
           c \in Ladders}

\* vix is the worse of the level of the index and, on a day it has jumped by
\* intraday_spike_pct, level 2: the spike is a trigger like that of the level.
VixTriggers ==
    {t \in {[category |-> "VIX", level |-> l, value |-> l] : l \in 1..4} :
        t.level = vix}

MismatchTrigger == [category |-> "POSITION_MISMATCH", level |-> 1, value |-> 0]
KillTrigger == [category |-> "KILL_SWITCH", level |-> 1, value |-> 0]
SuspendTrigger == [category |-> "MANUAL", level |-> 1, value |-> 0]

FreshTriggers(anchors) ==
    LossTriggers(anchors) \cup VixTriggers
        \cup (IF mismatch THEN {MismatchTrigger} ELSE {})

\* _apply_lock over the newly latched triggers, in the order of the checks: the
\* daily ladder locks to a session open, then drawdown level 4 to the end of the
\* cooling-off period; each overwrites whatever lock there was.
Relocked(new) ==
    IF \E t \in new : t.category = "DRAWDOWN"
      THEN now + CoolingOffDays * DayTicks
      ELSE IF \E t \in new : t.category = "DAILY_LOSS" /\ t.level = 4
        THEN SessionOpenAfter(2)
        ELSE IF \E t \in new : t.category = "DAILY_LOSS"
          THEN SessionOpenAfter(1)
          ELSE lockedUntil

\* The minimum state the triggers, an active lock and the kill switch force.
ForcedState(triggers, until) ==
    LET worst == WorstForcedState(triggers)
    IN  IF killed THEN "EMERGENCY"
        ELSE IF LockActive(until) /\ Severity[worst] < Severity["HALTED"]
          THEN "HALTED"
          ELSE worst

\* Mutants of MayDeescalate: EMERGENCY clears like HALTED; HALTED never clears.
MayDeescalateFromEmergency(triggers, stuck, until) ==
    \/ state \notin LockedStates
    \/ /\ state \in {"HALTED", "EMERGENCY"}
       /\ stuck = {} /\ ~killed /\ ~LockActive(until)
       /\ \A t \in triggers : Alert(t) < RED
MayDeescalateOnlyFree(triggers, stuck, until) == state \notin LockedStates

\* Free states de-escalate by themselves; HALTED only when nothing latched it.
MayDeescalate(triggers, stuck, until) ==
    \/ state \notin LockedStates
    \/ /\ state = "HALTED"
       /\ stuck = {} /\ ~killed /\ ~LockActive(until)
       /\ \A t \in triggers : Alert(t) < RED

ResolvedState(triggers, stuck, until) ==
    LET forced == ForcedState(triggers, until)
    IN  IF Severity[forced] > Severity[state]
          THEN forced
          ELSE IF Severity[forced] < Severity[state]
                  /\ MayDeescalate(triggers, stuck, until)
            THEN StepDown(state)
            ELSE state

-----------------------------------------------------------------------------
(* The recovery throttle.                                                  *)

RampTier(elapsed) ==
    IF elapsed < RampDays[1] * DayTicks THEN RampSize[1]
    ELSE IF elapsed < RampDays[2] * DayTicks THEN RampSize[2]
    ELSE IF elapsed < RampDays[3] * DayTicks THEN RampSize[3]
    ELSE RampSize[4]

\* Full size is withheld while equity is below its figure at the resume.
RecoveryHeld ==
    /\ RampTier(now - recovery.start) >= RampSize[4]
    /\ recovery.base # 0 /\ equity < recovery.base

RecoveryMultiplier ==
    IF recovery.start = None THEN 100
    ELSE IF RecoveryHeld THEN RampSize[3]
    ELSE RampTier(now - recovery.start)

NoRecovery == [start |-> None, base |-> 0]

\* Computing the multiplier ends the recovery once it reaches full size.
RecoveryAfter ==
    IF recovery.start # None /\ ~RecoveryHeld /\ RecoveryMultiplier = 100
      THEN NoRecovery
      ELSE recovery

-----------------------------------------------------------------------------
(* Persistence.  A failed write is logged and swallowed.                   *)

\* Mutant of Persist: the state is written as it was before the call.
PersistStaleState(rec) ==
    \/ row' = [state |-> state, sticky |-> sticky', lockedUntil |-> lockedUntil',
               anchor |-> anchor', recovery |-> rec]
    \/ DbMayFail /\ row' = row

Persist(rec) ==
    \/ row' = [state |-> state', sticky |-> sticky', lockedUntil |-> lockedUntil',
               anchor |-> anchor', recovery |-> rec]
    \/ DbMayFail /\ row' = row

FreshAnchor == [c \in Ladders |-> NoAnchor]

Init ==
    /\ now = 0 /\ enabled \in Enabling /\ equity \in Equities /\ vix = 0
    /\ state = "NORMAL" /\ sticky = {} /\ killed = FALSE /\ lockedUntil = 0
    /\ anchor = FreshAnchor /\ recovery = NoRecovery
    /\ mismatch = FALSE /\ walking = FALSE
    /\ tokens = [t \in Tokens |-> "none"]
    /\ policy = NoPolicy
    /\ row = [state |-> "NORMAL", sticky |-> {}, lockedUntil |-> 0,
              anchor |-> FreshAnchor, recovery |-> NoRecovery]

-----------------------------------------------------------------------------
(* The environment: time passes and the market moves.                      *)

Tick ==
    /\ now < MaxTick
    /\ now' = now + 1
    /\ UNCHANGED <<enabled, market, latch, anchor, recovery, mismatch, tokens, walking,
                   policy, row>>

MarketMoves ==
    /\ equity' \in Equities /\ vix' \in VixLevels
    /\ UNCHANGED <<now, enabled, latch, anchor, recovery, mismatch, tokens, walking,
                   policy, row>>

-----------------------------------------------------------------------------
(* evaluate()                                                              *)

\* Mutant of PolicyFor: the permissions of the state before the transition.
PolicyForOldState(s, triggers, until) ==
    [entries  |-> /\ state \in EntryStates
                  /\ \A t \in triggers : ~BlocksEntries(t)
                  /\ ~killed /\ ~LockActive(until),
     flatten  |-> killed \/ \E t \in triggers : Flattens(t),
     recovery |-> RecoveryMultiplier]

PolicyFor(s, triggers, until) ==
    [entries  |-> /\ s \in EntryStates
                  /\ \A t \in triggers : ~BlocksEntries(t)
                  /\ ~killed /\ ~LockActive(until),
     flatten  |-> killed \/ \E t \in triggers : Flattens(t),
     recovery |-> RecoveryMultiplier]

Evaluate ==
    LET anchors == RollAnchors
        fresh   == FreshTriggers(anchors)
        stuck   == sticky \cup {t \in fresh : Sticky(t)}
        until   == Relocked(stuck \ sticky)
        all     == fresh \cup stuck
        next    == ResolvedState(all, stuck, until)
    IN  /\ enabled /\ ~walking
        /\ anchor' = anchors
        /\ sticky' = stuck
        /\ lockedUntil' = until
        /\ state' = next
        /\ policy' = PolicyFor(next, all, until)
        /\ recovery' = RecoveryAfter
        /\ Persist(recovery')
        /\ UNCHANGED <<now, enabled, market, killed, mismatch, tokens, walking>>

\* evaluate() with circuit_breakers.enabled false: the permissions of NORMAL,
\* whatever the state.  The row is written before the multiplier is computed.
EvaluateDisabled ==
    /\ ~enabled /\ ~walking
    /\ anchor' = RollAnchors
    /\ policy' = [entries |-> TRUE, flatten |-> FALSE,
                  recovery |-> RecoveryMultiplier]
    /\ recovery' = RecoveryAfter
    /\ UNCHANGED latch
    /\ Persist(recovery)
    /\ UNCHANGED <<now, enabled, market, mismatch, tokens, walking>>

-----------------------------------------------------------------------------
(* Position mismatches, reported by the reconciler.                        *)

ReportPositionMismatch ==
    /\ ~walking
    /\ mismatch' \in BOOLEAN
    /\ UNCHANGED <<now, enabled, market, latch, anchor, recovery, tokens, walking,
                   policy, row>>

ClearPositionMismatch ==
    /\ ~walking
    /\ mismatch' = FALSE
    /\ sticky' = {t \in sticky : t.category # "POSITION_MISMATCH"}
    /\ UNCHANGED <<now, enabled, market, state, killed, lockedUntil, anchor, recovery,
                   tokens, walking, policy, row>>

-----------------------------------------------------------------------------
(* Kill switch and suspension.                                             *)

\* From SUSPENDED the transition to EMERGENCY is illegal: the exception leaves the
\* latch in memory and skips the write.
ActivateKillSwitch ==
    /\ ~walking
    /\ killed' = TRUE
    /\ sticky' = sticky \cup {KillTrigger}
    /\ UNCHANGED <<now, enabled, market, lockedUntil, anchor, recovery, mismatch, tokens,
                   walking, policy>>
    /\ IF state = "SUSPENDED"
         THEN UNCHANGED <<state, row>>
         ELSE state' = "EMERGENCY" /\ Persist(recovery')

Suspend ==
    /\ ~walking
    /\ sticky' = sticky \cup {SuspendTrigger}
    /\ state' = "SUSPENDED"
    /\ UNCHANGED <<now, enabled, market, killed, lockedUntil, anchor, recovery, mismatch,
                   tokens, walking, policy>>
    /\ Persist(recovery')

-----------------------------------------------------------------------------
(* Override tokens and resume().                                           *)

RequestOverride(t) ==
    /\ ~walking /\ tokens[t] = "none"
    /\ tokens' = [tokens EXCEPT ![t] = "live"]
    /\ UNCHANGED <<now, enabled, market, latch, anchor, recovery, mismatch, walking,
                   policy, row>>

\* The token's time to live runs out (on the monotonic clock, not on now).
OutliveToken(t) ==
    /\ tokens[t] = "live"
    /\ tokens' = [tokens EXCEPT ![t] = "expired"]
    /\ UNCHANGED <<now, enabled, market, latch, anchor, recovery, mismatch, walking,
                   policy, row>>

\* confirm_override() changes nothing when the token is valid, and drops an
\* expired one.
ConfirmOverride(t) ==
    /\ ~walking /\ tokens[t] = "expired"
    /\ tokens' = [tokens EXCEPT ![t] = "none"]
    /\ UNCHANGED <<now, enabled, market, latch, anchor, recovery, mismatch, walking,
                   policy, row>>

\* Mutant of StartWalk: the latched triggers survive the resume.
StartWalkLatched ==
    /\ walking' = TRUE /\ killed' = FALSE /\ lockedUntil' = 0
    /\ \E base \in {equity, anchor["DAILY_LOSS"].base} :
        recovery' = [start |-> now, base |-> base]
    /\ UNCHANGED <<now, enabled, market, state, sticky, anchor, mismatch, policy, row>>

\* The latches and the lock are cleared before the walk begins.  The equity the
\* caller may pass becomes the recovery's base, else the day's anchor does.
StartWalk ==
    /\ walking' = TRUE
    /\ sticky' = {} /\ killed' = FALSE /\ lockedUntil' = 0
    /\ \E base \in {equity, anchor["DAILY_LOSS"].base} :
        recovery' = [start |-> now, base |-> base]
    /\ UNCHANGED <<now, enabled, market, state, anchor, mismatch, policy, row>>

\* The token is spent even when the lock then refuses the resume.
Resume(t) ==
    /\ ~walking /\ state \in LockedStates
    /\ tokens[t] = "live" \/ (DirectResume /\ tokens[t] = "expired")
    /\ tokens' = [tokens EXCEPT ![t] = "none"]
    /\ \/ ~LockActive(lockedUntil) /\ StartWalk
       \/ /\ LockActive(lockedUntil)
          /\ UNCHANGED <<now, enabled, market, latch, anchor, recovery, mismatch, walking,
                         policy, row>>

\* Outside the locked states no token is asked for.
ResumeUnlocked ==
    /\ ~walking /\ state \notin LockedStates
    /\ ~LockActive(lockedUntil)
    /\ StartWalk
    /\ UNCHANGED tokens

WalkStep ==
    /\ walking /\ state # "RESTRICTED"
    /\ state' = LowestTransition(state)
    /\ UNCHANGED <<now, enabled, market, sticky, killed, lockedUntil, anchor, recovery,
                   mismatch, tokens, walking, policy, row>>

\* Mutant of FinishResume: the row is not written.
FinishResumeUnsaved ==
    /\ walking /\ state = "RESTRICTED"
    /\ walking' = FALSE
    /\ UNCHANGED <<now, enabled, market, latch, anchor, recovery, mismatch, tokens, policy,
                   row>>

FinishResume ==
    /\ walking /\ state = "RESTRICTED"
    /\ walking' = FALSE
    /\ UNCHANGED <<now, enabled, market, latch, anchor, recovery, mismatch, tokens, policy>>
    /\ Persist(recovery')

-----------------------------------------------------------------------------
(* A crash at any point, and the restart that loads the row.               *)

\* What of the row is loaded as it is, and the memory that is lost.
RestoreRest ==
    /\ sticky' = row.sticky
    /\ lockedUntil' = row.lockedUntil
    /\ anchor' = row.anchor
    /\ mismatch' = FALSE
    /\ tokens' = [t \in Tokens |-> "none"]
    /\ walking' = FALSE
    /\ policy' = NoPolicy
    /\ enabled' \in Enabling
    /\ UNCHANGED <<now, market, row>>

\* The kill flag is recomputed from the latched triggers.
KillRestored == killed' = (\E t \in row.sticky : t.category = "KILL_SWITCH")

\* Mutant of Restart: the recovery is not restored.
RestartFullSize ==
    state' = row.state /\ KillRestored /\ recovery' = NoRecovery /\ RestoreRest

Restart ==
    state' = row.state /\ KillRestored /\ recovery' = row.recovery /\ RestoreRest

-----------------------------------------------------------------------------
Next ==
    \/ Tick \/ MarketMoves
    \/ Evaluate \/ EvaluateDisabled
    \/ ReportPositionMismatch \/ ClearPositionMismatch
    \/ ActivateKillSwitch \/ Suspend
    \/ \E t \in Tokens : \/ RequestOverride(t) \/ OutliveToken(t)
                         \/ ConfirmOverride(t) \/ Resume(t)
    \/ ResumeUnlocked \/ WalkStep \/ FinishResume
    \/ Restart

Spec == Init /\ [][Next]_vars

\* The loop that drives the breaker evaluates every cycle, and resume()'s walk is
\* straight-line code that keeps running once entered.
FairSpec ==
    /\ Spec
    /\ WF_vars(Evaluate \/ EvaluateDisabled)
    /\ WF_vars(WalkStep \/ FinishResume)
-----------------------------------------------------------------------------
(* Properties.                                                             *)

\* Trading is never unlocked while a lock window runs: whatever evaluate(), a
\* restart or a failed write does, an active lock comes with a locked state.
LockHeld == LockActive(lockedUntil) => state \in LockedStates /\ ~walking

\* A latched trigger keeps the state at least as severe as it forces, until
\* resume() clears the latches: across de-escalation, kill switch, suspension,
\* cleared mismatches and restarts.
StickyHeld ==
    ~walking => \A t \in sticky :
        Severity[SeverityState(Alert(t))] <= Severity[state]

\* The kill flag and the latched kill trigger never part: a restart recomputes
\* the one from the other.
KillLatched == killed <=> KillTrigger \in sticky

\* When writes do not fail, the row always holds the state and the lock the manager
\* is in, so a crash between two calls forgets no halt.
HaltIsDurable ==
    ~walking => row.state = state /\ row.lockedUntil = lockedUntil

\* evaluate() never hands out a policy that admits entries while a trigger is
\* latched, a mismatch is outstanding, a lock runs or the kill switch is on.
EntriesOnlyWhenClear ==
    [][Evaluate /\ policy'.entries =>
        sticky' = {} /\ ~killed /\ ~mismatch /\ ~LockActive(lockedUntil')]_vars

\* evaluate() never lowers the state by more than one step, nor below what a
\* condition it has just seen forces.
DeescalationIsOrderly ==
    [][Evaluate =>
        /\ Severity[state'] >= Severity[state] - 1
        /\ \A t \in FreshTriggers(anchor') :
            Severity[SeverityState(Alert(t))] <= Severity[state']]_vars

\* Within its period an anchor does not move (the peak only rises): no restart,
\* resume or halt lets the losses of the day, week or month start afresh.
AnchorStable ==
    [][\A c \in Ladders :
        anchor[c].key = PeriodKey(c)' =>
            /\ anchor'[c].key = anchor[c].key
            /\ \/ anchor'[c].base = anchor[c].base
               \/ c = "DRAWDOWN" /\ anchor'[c].base > anchor[c].base]_vars

\* The recovery throttle is lifted only by the last tier's day, or restarted by a
\* resume: a restart of the program does not lift it.
RecoveryOutlastsRestart ==
    [][recovery.start # None /\ recovery' # recovery =>
        \/ walking \/ walking'
        \/ now - recovery.start >= RampDays[3] * DayTicks]_vars

\* The breaker is a halt latch: a halt of EMERGENCY or SUSPENDED ends only by a
\* resume() that spends an override token, and none while the lock runs.
Latch == INSTANCE HaltLatch WITH
    Grants <- Tokens,
    granted <- {t \in Tokens : tokens[t] # "none"},
    sealed <- LockActive(lockedUntil),
    mode <- IF walking \/ state \notin LockedStates THEN "open"
            ELSE IF state = "HALTED" THEN "halted"
            ELSE "human"

LatchedHalt == Latch!LatchSpec

\* Once the market is calm, no loss is breached, nothing is latched and no lock
\* runs, the breaker finds its way back to NORMAL unless a human has to release it.
Calm ==
    /\ vix = 0 /\ LossTriggers(RollAnchors) = {}
    /\ sticky = {} /\ ~killed /\ ~mismatch /\ ~LockActive(lockedUntil)
    /\ ~walking /\ state \notin {"EMERGENCY", "SUSPENDED"}

AutoRecovery == <>[]Calm => <>[](state = "NORMAL")

\* The states the loop of resume() never leaves: NORMAL and CAUTION are the
\* lowest successors of one another.
Mild == {"NORMAL", "CAUTION"}

\* resume() returns from every other state, the loop taking the lowest legal
\* step each time, and entered in NORMAL or CAUTION it goes round between the
\* two for as long as the process lives.
ResumeReturns ==
    /\ walking /\ state \notin Mild ~> ~walking
    /\ [][walking /\ state \in Mild => Restart \/ (walking' /\ state' \in Mild)]_vars

-----------------------------------------------------------------------------
(* Statements of the repository that the code does not keep.               *)

\* config.yaml, recovery.cooling_off_days: "mandatory pause after drawdown level
\* 4".  While that drawdown is latched its lock is not cut short.
MandatoryCoolingOff ==
    [][(\E t \in sticky : t.category = "DRAWDOWN") /\ LockActive(lockedUntil)'
        => lockedUntil' >= lockedUntil]_vars

\* resume(): locked states "need a confirm token from request_override +
\* confirm_override", and confirm_override refuses an expired one.
OnlyValidTokenResumes ==
    [][~walking /\ walking' /\ state \in LockedStates =>
        (\E t \in Tokens : tokens[t] = "live" /\ tokens'[t] = "none")]_vars

\* resume(): "walk down one legal step at a time" ends, whatever the state.
EveryResumeReturns == walking ~> ~walking

\* The kill switch is "sticky, manual reset": a restart does not release it.
RestartKeepsKill ==
    [][Restart /\ killed /\ ~walking => killed']_vars
=============================================================================

---------------------------- MODULE RecoveryRamp ----------------------------
(***************************************************************************)
(* automation.recovery: the graduated return to full order size after a    *)
(* halt, beside the breaker it observes.  Of the breaker only what         *)
(* HaltLatch promises is used (CircuitBreaker is shown to implement it),   *)
(* so a run here covers every breaker that keeps that promise.             *)
(***************************************************************************)
EXTENDS Clock, HaltLatch

CONSTANTS
    TierStarts,   \* clock readings after a resume at which tiers 2, 3 and 4 begin
    Tiers,        \* recovery.day1_3_size_pct .. week3_plus_size_pct, in percent
    CoolingOff,   \* recovery.cooling_off_days, in clock readings
    Equity        \* equity figures a caller passes

ASSUME TiersAssumption ==
    /\ TierStarts \in [1..3 -> Nat] /\ TierStarts[1] <= TierStarts[2] /\ TierStarts[2] <= TierStarts[3]
    /\ Tiers \in [1..4 -> 1..100] /\ \A i \in 1..3 : Tiers[i] <= Tiers[i + 1]
    /\ CoolingOff \in Nat /\ Equity \subseteq Nat

VARIABLES
    ramp,      \* the fields of RecoveryRamp
    rampRow,   \* the row "recovery_ramp" of system_state
    resumed,   \* when resume() last returned, Never before the first time
    served     \* the latest end of a cooling-off that mark_halted() has announced

rampVars == <<ramp, rampRow, resumed, served, mode, sealed, granted>>

Never == -1
RampFields ==
    [frozen : BOOLEAN, halted : BOOLEAN, start : Nat \cup {Never},
     coolingOffUntil : Nat \cup {Never}, anchor : Equity \cup {Never}]
Fresh ==
    [frozen |-> TRUE, halted |-> FALSE, start |-> Never,
     coolingOffUntil |-> Never, anchor |-> Never]

RampInit ==
    LatchInit /\ ramp = Fresh /\ rampRow = Fresh /\ resumed = Never /\ served = Never

\* Every change is written to the row at once.
Keep(fields) == ramp' = fields /\ rampRow' = fields

Halted(coolingOff) ==
    [ramp EXCEPT !.halted = TRUE, !.frozen = TRUE,
                 !.coolingOffUntil = IF coolingOff THEN now + CoolingOff ELSE @]

MarkHalted(coolingOff) ==
    /\ Keep(Halted(coolingOff))
    /\ served' = IF coolingOff THEN now + CoolingOff ELSE served
    /\ UNCHANGED <<resumed, latchVars>>

\* Mutant of ObserveBreaker: only HALTED counts as a halt.
ObserveHalted == mode = "halted" /\ ~ramp.halted /\ MarkHalted(FALSE)

\* observe_breaker(): latches a halt that it sees and has not latched before.
ObserveBreaker == mode # "open" /\ ~ramp.halted /\ MarkHalted(FALSE)

InCoolingOff == ramp.coolingOffUntil # Never /\ now < ramp.coolingOffUntil

\* resume() raises inside the cooling-off; the breaker is not asked.
ResumeRamp(equity) ==
    /\ ~InCoolingOff
    /\ Keep([frozen |-> FALSE, halted |-> FALSE, start |-> now,
             coolingOffUntil |-> Never, anchor |-> equity])
    /\ resumed' = now
    /\ UNCHANGED <<served, latchVars>>

\* Mutant of Reload: the end of the cooling-off is not restored.
ReloadWithoutCoolingOff ==
    ramp' = [rampRow EXCEPT !.coolingOffUntil = Never] /\ UNCHANGED <<rampRow, resumed, served, latchVars>>

Reload == ramp' = rampRow /\ UNCHANGED <<rampRow, resumed, served, latchVars>>

BreakerStep == LatchNext /\ UNCHANGED <<ramp, rampRow, resumed, served>>

TierOf(elapsed) ==
    IF elapsed < TierStarts[1] THEN Tiers[1]
    ELSE IF elapsed < TierStarts[2] THEN Tiers[2]
    ELSE IF elapsed < TierStarts[3] THEN Tiers[3]
    ELSE Tiers[4]

\* The last tier is withheld until equity is back at the anchor the resume recorded.  Equity is Never when the caller passes none.
Multiplier(equity) ==
    LET tier == TierOf(now - ramp.start)
    IN IF ramp.frozen \/ ramp.start = Never \/ InCoolingOff THEN 0
       ELSE IF tier >= Tiers[4] /\ equity # Never /\ ramp.anchor # Never /\ equity < ramp.anchor
       THEN Tiers[3]
       ELSE tier

SizeOrder(quantity, equity) ==
    IF quantity <= 0 THEN 0 ELSE (quantity * Multiplier(equity)) \div 100

RampNext ==
    \/ ObserveBreaker \/ MarkHalted(TRUE) \/ Reload \/ BreakerStep
    \/ \E equity \in Equity \cup {Never} : ResumeRamp(equity)

RampSpec ==
    /\ RampInit /\ now = 0
    /\ [][(RampNext /\ UNCHANGED now) \/ (Tick /\ UNCHANGED rampVars)]_<<rampVars, now>>
-----------------------------------------------------------------------------
(* Properties.                                                             *)

RampTypeOK ==
    /\ LatchTypeOK /\ ramp \in RampFields /\ rampRow \in RampFields
    /\ resumed \in Nat \cup {Never} /\ served \in Nat \cup {Never}

\* Size is given back by a resume and by time alone: an order is never larger than
\* the tier that the time since the last resume() has earned; after a halt was
\* latched it has no size at all until the next resume(), nor before the end of the
\* "mandatory cooling_off_days pause" that mark_halted() announced, whatever halts,
\* resumes and restarts come in between.
SizeIsEarned ==
    \A equity \in Equity \cup {Never} :
        SizeOrder(100, equity) > 0 =>
            /\ resumed # Never /\ SizeOrder(100, equity) <= TierOf(now - resumed)
            /\ ~ramp.halted /\ now >= served

\* A halt of the breaker that lasts reaches the sizes: with observe_breaker() called
\* every cycle the ramp gives no order a size, also after a resume() that came too
\* early and after a restart of either side.
Heeded == mode = "open" \/ \A equity \in Equity : SizeOrder(100, equity) = 0
HaltReachesSizes == (mode # "open") ~> Heeded
=============================================================================

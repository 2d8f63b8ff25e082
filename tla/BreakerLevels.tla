--------------------------- MODULE BreakerLevels ---------------------------
(***************************************************************************)
(* The tables of the circuit breaker: trading states and their severity,   *)
(* the legal transitions, and what each trigger (category, level) forces,  *)
(* latches, blocks and locks.  No state of its own.                        *)
(***************************************************************************)
EXTENDS Integers, Sequences

States == {"NORMAL", "CAUTION", "RESTRICTED", "DEFENSIVE", "HALTED",
           "EMERGENCY", "SUSPENDED"}

Severity == [NORMAL |-> 0, CAUTION |-> 1, RESTRICTED |-> 2, DEFENSIVE |-> 3,
             HALTED |-> 4, EMERGENCY |-> 5, SUSPENDED |-> 6]

\* Everything but NORMAL is reachable from NORMAL; below it, one step down or
\* any worse state.
ValidTransitions ==
    [NORMAL     |-> States \ {"NORMAL"},
     CAUTION    |-> States \ {"CAUTION"},
     RESTRICTED |-> {"CAUTION", "DEFENSIVE", "HALTED", "EMERGENCY", "SUSPENDED"},
     DEFENSIVE  |-> {"RESTRICTED", "HALTED", "EMERGENCY", "SUSPENDED"},
     HALTED     |-> {"DEFENSIVE", "EMERGENCY", "SUSPENDED"},
     EMERGENCY  |-> {"HALTED", "SUSPENDED"},
     SUSPENDED  |-> {"HALTED"}]

LockedStates == {"HALTED", "EMERGENCY", "SUSPENDED"}

\* The states whose default policy admits new entries.
EntryStates == {"NORMAL", "CAUTION", "RESTRICTED"}

\* Mutant of StepDown: everything is forgiven at once.
StepDownToNormal(s) == "NORMAL"

\* The one lower state a state can step down to (the candidates of the
\* automatic de-escalation hold exactly one); NORMAL has none.
StepDown(s) ==
    CHOOSE t \in ValidTransitions[s] : Severity[t] < Severity[s]

\* Mutant of LowestTransition: the candidates are sorted the other way round.
WorstTransition(s) ==
    CHOOSE t \in ValidTransitions[s] :
        \A u \in ValidTransitions[s] : Severity[t] >= Severity[u]

\* The legal transition of least severity: what one turn of resume()'s walk takes.
LowestTransition(s) ==
    CHOOSE t \in ValidTransitions[s] :
        \A u \in ValidTransitions[s] : Severity[t] <= Severity[u]

-----------------------------------------------------------------------------
(* Triggers.  A trigger is what the latch deduplicates on: its category, its *)
(* level and the figure its description prints.                              *)

Ladders == {"DAILY_LOSS", "WEEKLY_LOSS", "MONTHLY_LOSS", "DRAWDOWN"}

Categories == Ladders \cup {"VIX", "POSITION_MISMATCH", "KILL_SWITCH", "MANUAL"}

YELLOW == 2
ORANGE == 3
RED == 4
EMERGENCY_ALERT == 5

\* Alert severity of level l of a category, at index l.
LadderAlert ==
    [DAILY_LOSS        |-> <<YELLOW, ORANGE, RED, EMERGENCY_ALERT>>,
     WEEKLY_LOSS       |-> <<YELLOW, ORANGE, RED>>,
     MONTHLY_LOSS      |-> <<YELLOW, ORANGE, RED>>,
     DRAWDOWN          |-> <<YELLOW, ORANGE, RED, EMERGENCY_ALERT>>,
     VIX               |-> <<YELLOW, ORANGE, RED, EMERGENCY_ALERT>>,
     POSITION_MISMATCH |-> <<RED>>,
     KILL_SWITCH       |-> <<EMERGENCY_ALERT>>,
     MANUAL            |-> <<RED>>]

LevelOf == [c \in Categories |-> DOMAIN LadderAlert[c]]

TriggerType ==
    {t \in [category : Categories, level : 1..4, value : Int] :
        t.level \in LevelOf[t.category]}

Alert(t) == LadderAlert[t.category][t.level]

SeverityState(alert) ==
    CASE alert = EMERGENCY_ALERT -> "EMERGENCY"
      [] alert = RED             -> "HALTED"
      [] alert = ORANGE          -> "RESTRICTED"
      [] alert = YELLOW          -> "CAUTION"
      [] OTHER                   -> "NORMAL"

Sticky(t) ==
    \/ t.category \in {"DAILY_LOSS", "WEEKLY_LOSS", "MONTHLY_LOSS"} /\ t.level >= 3
    \/ t.category = "DRAWDOWN" /\ t.level = 4
    \/ t.category \in {"POSITION_MISMATCH", "KILL_SWITCH", "MANUAL"}

\* metadata action "flatten_all".
Flattens(t) ==
    \/ t.category \in {"DAILY_LOSS", "DRAWDOWN", "VIX"} /\ t.level = 4
    \/ t.category \in {"WEEKLY_LOSS", "MONTHLY_LOSS"} /\ t.level = 3

\* metadata actions "block_entries_reduce", "close_worst_half" and "flatten_all".
BlocksEntries(t) ==
    \/ t.category = "DAILY_LOSS" /\ t.level >= 2
    \/ Flattens(t)

\* The state the worst of a set of triggers forces: NORMAL when there is none.
WorstForcedState(triggers) ==
    CHOOSE s \in States :
        /\ s = "NORMAL" \/ \E t \in triggers : s = SeverityState(Alert(t))
        /\ \A t \in triggers : Severity[SeverityState(Alert(t))] <= Severity[s]
=============================================================================

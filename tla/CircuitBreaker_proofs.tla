----------------------- MODULE CircuitBreaker_proofs -----------------------
(***************************************************************************)
(* Proofs about the circuit breaker, for every value of its constants.     *)
(***************************************************************************)
EXTENDS CircuitBreaker, TLAPS

(***************************************************************************)
(* The tables.                                                             *)
(***************************************************************************)

\* Every trigger has an alert level between YELLOW and EMERGENCY.
LEMMA AlertRange ==
    ASSUME NEW t \in TriggerType
    PROVE  Alert(t) \in {YELLOW, ORANGE, RED, EMERGENCY_ALERT}
<1> USE DEF TriggerType, Alert, LevelOf, LadderAlert, Categories, Ladders,
            YELLOW, ORANGE, RED, EMERGENCY_ALERT
<1>1. CASE t.category = "DAILY_LOSS"
  BY <1>1
<1>2. CASE t.category = "WEEKLY_LOSS"
  BY <1>2
<1>3. CASE t.category = "MONTHLY_LOSS"
  BY <1>3
<1>4. CASE t.category = "DRAWDOWN"
  BY <1>4
<1>5. CASE t.category = "VIX"
  BY <1>5
<1>6. CASE t.category \in {"POSITION_MISMATCH", "KILL_SWITCH", "MANUAL"}
  BY <1>6
<1> QED BY <1>1, <1>2, <1>3, <1>4, <1>5, <1>6

\* A latched kind of trigger is at least RED.
LEMMA StickyIsRed ==
    ASSUME NEW t \in TriggerType, Sticky(t)
    PROVE  Alert(t) >= RED
<1> USE DEF TriggerType, Alert, LevelOf, LadderAlert, Categories, Ladders, Sticky,
            YELLOW, ORANGE, RED, EMERGENCY_ALERT
<1>1. CASE t.category = "DAILY_LOSS"
  BY <1>1
<1>2. CASE t.category = "WEEKLY_LOSS"
  BY <1>2
<1>3. CASE t.category = "MONTHLY_LOSS"
  BY <1>3
<1>4. CASE t.category = "DRAWDOWN"
  BY <1>4
<1>5. CASE t.category \in {"POSITION_MISMATCH", "KILL_SWITCH", "MANUAL"}
  BY <1>5
<1> QED BY <1>1, <1>2, <1>3, <1>4, <1>5

\* The state an alert forces, and its severity.
LEMMA SeverityStateType ==
    ASSUME NEW t \in TriggerType
    PROVE  /\ SeverityState(Alert(t)) \in {"CAUTION", "RESTRICTED", "HALTED", "EMERGENCY"}
           /\ Alert(t) >= RED <=> Severity[SeverityState(Alert(t))] >= Severity["HALTED"]
<1>1. Alert(t) \in {YELLOW, ORANGE, RED, EMERGENCY_ALERT}
  BY AlertRange
<1> QED BY <1>1 DEF SeverityState, Severity, YELLOW, ORANGE, RED, EMERGENCY_ALERT

\* Between NORMAL and SUSPENDED the state to step down to is the next less severe.
LEMMA StepDownFact ==
    ASSUME NEW s \in States, s \notin {"NORMAL", "SUSPENDED"}
    PROVE  /\ StepDown(s) \in States
           /\ Severity[StepDown(s)] = Severity[s] - 1
           /\ s \notin LockedStates => StepDown(s) \notin LockedStates
<1>1. \E u \in ValidTransitions[s] : Severity[u] < Severity[s]
  BY DEF States, ValidTransitions, Severity
<1>2. StepDown(s) \in ValidTransitions[s] /\ Severity[StepDown(s)] < Severity[s]
  BY <1>1 DEF StepDown
<1> USE <1>2 DEF States, ValidTransitions, Severity, LockedStates
<1>3. CASE s = "CAUTION"
  BY <1>3
<1>4. CASE s = "RESTRICTED"
  BY <1>4
<1>5. CASE s = "DEFENSIVE"
  BY <1>5
<1>6. CASE s = "HALTED"
  BY <1>6
<1>7. CASE s = "EMERGENCY"
  BY <1>7
<1> QED BY <1>3, <1>4, <1>5, <1>6, <1>7

\* One turn of resume()'s walk goes to a legal state.
LEMMA LowestTransitionFact ==
    ASSUME NEW s \in States
    PROVE  LowestTransition(s) \in States
<1>1. \E u \in ValidTransitions[s] :
        \A v \in ValidTransitions[s] : Severity[u] <= Severity[v]
  <2>1. CASE s = "NORMAL"
    <3>1. "CAUTION" \in ValidTransitions[s]
      BY <2>1 DEF States, ValidTransitions
    <3>2. \A v \in ValidTransitions[s] : Severity["CAUTION"] <= Severity[v]
      BY <2>1 DEF States, ValidTransitions, Severity
    <3> QED BY <3>1, <3>2
  <2>2. CASE s = "CAUTION"
    <3>1. "NORMAL" \in ValidTransitions[s]
      BY <2>2 DEF States, ValidTransitions
    <3>2. \A v \in ValidTransitions[s] : Severity["NORMAL"] <= Severity[v]
      BY <2>2 DEF States, ValidTransitions, Severity
    <3> QED BY <3>1, <3>2
  <2>3. CASE s = "RESTRICTED"
    <3>1. "CAUTION" \in ValidTransitions[s]
      BY <2>3 DEF States, ValidTransitions
    <3>2. \A v \in ValidTransitions[s] : Severity["CAUTION"] <= Severity[v]
      BY <2>3 DEF States, ValidTransitions, Severity
    <3> QED BY <3>1, <3>2
  <2>4. CASE s = "DEFENSIVE"
    <3>1. "RESTRICTED" \in ValidTransitions[s]
      BY <2>4 DEF States, ValidTransitions
    <3>2. \A v \in ValidTransitions[s] : Severity["RESTRICTED"] <= Severity[v]
      BY <2>4 DEF States, ValidTransitions, Severity
    <3> QED BY <3>1, <3>2
  <2>5. CASE s = "HALTED"
    <3>1. "DEFENSIVE" \in ValidTransitions[s]
      BY <2>5 DEF States, ValidTransitions
    <3>2. \A v \in ValidTransitions[s] : Severity["DEFENSIVE"] <= Severity[v]
      BY <2>5 DEF States, ValidTransitions, Severity
    <3> QED BY <3>1, <3>2
  <2>6. CASE s \in {"EMERGENCY", "SUSPENDED"}
    <3>1. "HALTED" \in ValidTransitions[s]
      BY <2>6 DEF States, ValidTransitions
    <3>2. \A v \in ValidTransitions[s] : Severity["HALTED"] <= Severity[v]
      BY <2>6 DEF States, ValidTransitions, Severity
    <3> QED BY <3>1, <3>2
  <2> QED BY <2>1, <2>2, <2>3, <2>4, <2>5, <2>6 DEF States
<1>2. LowestTransition(s) \in ValidTransitions[s]
  BY <1>1 DEF LowestTransition
<1> QED BY <1>2 DEF States, ValidTransitions

\* The forced state dominates every trigger and is forced by one of them.
LEMMA WorstForcedStateFact ==
    ASSUME NEW T, T \subseteq TriggerType
    PROVE  /\ WorstForcedState(T) \in States
           /\ \A t \in T : Severity[SeverityState(Alert(t))] <= Severity[WorstForcedState(T)]
<1> DEFINE Worst(s) ==
      /\ s = "NORMAL" \/ \E t \in T : s = SeverityState(Alert(t))
      /\ \A t \in T : Severity[SeverityState(Alert(t))] <= Severity[s]
<1> HIDE DEF Worst
<1>1. \A t \in T : SeverityState(Alert(t)) \in {"CAUTION", "RESTRICTED", "HALTED", "EMERGENCY"}
  BY SeverityStateType
<1>2. \E s \in States : Worst(s)
  <2>1. CASE \E t \in T : SeverityState(Alert(t)) = "EMERGENCY"
    <3>1. Worst("EMERGENCY")
      BY <2>1, <1>1 DEF Worst, Severity
    <3> QED BY <3>1 DEF States
  <2>2. CASE /\ \E t \in T : SeverityState(Alert(t)) = "HALTED"
             /\ ~\E t \in T : SeverityState(Alert(t)) = "EMERGENCY"
    <3>1. Worst("HALTED")
      BY <2>2, <1>1 DEF Worst, Severity
    <3> QED BY <3>1 DEF States
  <2>3. CASE /\ \E t \in T : SeverityState(Alert(t)) = "RESTRICTED"
             /\ ~\E t \in T : SeverityState(Alert(t)) \in {"EMERGENCY", "HALTED"}
    <3>1. Worst("RESTRICTED")
      BY <2>3, <1>1 DEF Worst, Severity
    <3> QED BY <3>1 DEF States
  <2>4. CASE /\ \E t \in T : SeverityState(Alert(t)) = "CAUTION"
             /\ ~\E t \in T : SeverityState(Alert(t)) \in {"EMERGENCY", "HALTED", "RESTRICTED"}
    <3>1. Worst("CAUTION")
      BY <2>4, <1>1 DEF Worst, Severity
    <3> QED BY <3>1 DEF States
  <2>5. CASE T = {}
    <3>1. Worst("NORMAL")
      BY <2>5 DEF Worst
    <3> QED BY <3>1 DEF States
  <2> QED BY <1>1, <2>1, <2>2, <2>3, <2>4, <2>5
<1>3. WorstForcedState(T) \in States /\ Worst(WorstForcedState(T))
  BY <1>2 DEF WorstForcedState, Worst
<1> QED BY <1>3 DEF Worst

(***************************************************************************)
(* What the parts of an evaluation return.                                 *)
(***************************************************************************)

LEMMA PeriodKeyType ==
    ASSUME now \in Nat, NEW c \in Ladders
    PROVE  PeriodKey(c) \in Nat
<1>1. Day \in Nat
  BY CalendarAssumption DEF Day
<1>2. Day \div WeekDays \in Nat /\ Day \div MonthDays \in Nat
  BY <1>1, CalendarAssumption
<1> QED BY <1>1, <1>2 DEF PeriodKey, Ladders

\* After the roll every anchor stands, at a positive equity.
LEMMA RollAnchorsType ==
    ASSUME TypeOK
    PROVE  RollAnchors \in [Ladders -> [key : Nat, base : Nat \ {0}]]
<1>1. ASSUME NEW c \in Ladders
      PROVE  RollAnchors[c] \in [key : Nat, base : Nat \ {0}]
  <2>1. PeriodKey(c) \in Nat
    BY PeriodKeyType DEF TypeOK
  <2>2. equity \in Nat \ {0}
    BY EquitiesAssumption DEF TypeOK
  <2>3. CASE anchor[c].key # PeriodKey(c) \/ (c = "DRAWDOWN" /\ equity > anchor[c].base)
    BY <2>1, <2>2, <2>3 DEF RollAnchors
  <2>4. CASE ~(anchor[c].key # PeriodKey(c) \/ (c = "DRAWDOWN" /\ equity > anchor[c].base))
    <3>1. anchor[c] # NoAnchor
      BY <2>1, <2>4 DEF NoAnchor, None
    <3>2. anchor[c] \in [key : Nat, base : Nat \ {0}]
      BY <3>1 DEF TypeOK, AnchorType
    <3> QED BY <2>4, <3>2 DEF RollAnchors
  <2> QED BY <2>3, <2>4
<1> QED BY <1>1 DEF RollAnchors

LEMMA LossFigureType ==
    ASSUME TypeOK, NEW base \in Nat \ {0}
    PROVE  LossFigure(base) \in Int
<1>1. equity \in Nat
  BY EquitiesAssumption DEF TypeOK
<1>2. 20000 * equity + base \in Int /\ 2 * base \in Nat \ {0}
  BY <1>1
<1> DEFINE n == 20000 * equity + base
           d == 2 * base
<1>3. n \in Int /\ d \in Nat \ {0}
  BY <1>2
<1> HIDE DEF n, d
<1>4. n \div d \in Int
  BY <1>3
<1> QED BY <1>4 DEF LossFigure, n, d

LEMMA LossTriggersType ==
    ASSUME TypeOK, NEW A \in [Ladders -> [key : Nat, base : Nat \ {0}]]
    PROVE  \A t \in LossTriggers(A) : t \in TriggerType /\ t.category \in Ladders
<1> SUFFICES ASSUME NEW c \in Ladders, NEW l \in LevelOf[c]
             PROVE  [category |-> c, level |-> l, value |-> LossFigure(A[c].base)]
                      \in TriggerType
  BY DEF LossTriggers
<1>1. LossFigure(A[c].base) \in Int
  BY LossFigureType
<1>2. c \in Categories /\ l \in 1..4
  BY DEF Categories, Ladders, LevelOf, LadderAlert
<1> QED BY <1>1, <1>2 DEF TriggerType

LEMMA FreshTriggersType ==
    ASSUME TypeOK, NEW A \in [Ladders -> [key : Nat, base : Nat \ {0}]]
    PROVE  \A t \in FreshTriggers(A) :
             t \in TriggerType /\ t.category \notin {"KILL_SWITCH", "MANUAL"}
<1>1. \A t \in LossTriggers(A) :
        t \in TriggerType /\ t.category \notin {"KILL_SWITCH", "MANUAL"}
  BY LossTriggersType DEF Ladders
<1>2. \A t \in VixTriggers :
        t \in TriggerType /\ t.category \notin {"KILL_SWITCH", "MANUAL"}
  BY DEF VixTriggers, TriggerType, Categories, LevelOf, LadderAlert
<1>3. MismatchTrigger \in TriggerType
       /\ MismatchTrigger.category \notin {"KILL_SWITCH", "MANUAL"}
  BY DEF MismatchTrigger, TriggerType, Categories, LevelOf, LadderAlert
<1> QED BY <1>1, <1>2, <1>3 DEF FreshTriggers

LEMMA ManualTriggersType ==
    /\ KillTrigger \in TriggerType /\ Sticky(KillTrigger)
    /\ KillTrigger.category = "KILL_SWITCH"
    /\ SeverityState(Alert(KillTrigger)) = "EMERGENCY"
    /\ SuspendTrigger \in TriggerType /\ Sticky(SuspendTrigger)
    /\ SuspendTrigger.category = "MANUAL"
    /\ SeverityState(Alert(SuspendTrigger)) = "HALTED"
<1>1. KillTrigger.category = "KILL_SWITCH" /\ SuspendTrigger.category = "MANUAL"
  BY DEF KillTrigger, SuspendTrigger
<1>2. Sticky(KillTrigger) /\ Sticky(SuspendTrigger)
  BY <1>1 DEF Sticky
<1>3. KillTrigger \in TriggerType /\ SuspendTrigger \in TriggerType
  BY DEF KillTrigger, SuspendTrigger, TriggerType, Categories, LevelOf, LadderAlert
<1>4. Alert(KillTrigger) = EMERGENCY_ALERT /\ Alert(SuspendTrigger) = RED
  BY DEF KillTrigger, SuspendTrigger, Alert, LadderAlert
<1>5. SeverityState(EMERGENCY_ALERT) = "EMERGENCY" /\ SeverityState(RED) = "HALTED"
  BY DEF SeverityState, YELLOW, ORANGE, RED, EMERGENCY_ALERT
<1> QED BY <1>1, <1>2, <1>3, <1>4, <1>5

LEMMA NextTradingDayType ==
    ASSUME NEW d \in Nat
    PROVE  NextTradingDay(d) \in Nat
<1>1. (d + 1) \div WeekDays \in Nat
  BY CalendarAssumption
<1>2. ((d + 1) \div WeekDays + 1) * WeekDays \in Nat
  BY <1>1, CalendarAssumption
<1> QED BY <1>2 DEF NextTradingDay

LEMMA RelockedType ==
    ASSUME TypeOK, NEW T
    PROVE  Relocked(T) \in Nat
<1>1. Day \in Nat
  BY CalendarAssumption DEF Day, TypeOK
<1>2. NextTradingDay(Day) \in Nat /\ NextTradingDay(NextTradingDay(Day)) \in Nat
  BY <1>1, NextTradingDayType
<1>3. ASSUME NEW d \in Nat PROVE OpenOf(d) \in Nat
  BY CalendarAssumption DEF OpenOf
<1>4. SessionOpenAfter(1) \in Nat /\ SessionOpenAfter(2) \in Nat
  BY <1>2, <1>3 DEF SessionOpenAfter
<1>5. now + CoolingOffDays * DayTicks \in Nat
  BY CalendarAssumption DEF TypeOK
<1> QED BY <1>4, <1>5 DEF Relocked, TypeOK

LEMMA ForcedStateFact ==
    ASSUME NEW T, T \subseteq TriggerType, NEW until \in Nat
    PROVE  /\ ForcedState(T, until) \in States
           /\ \A t \in T : Severity[SeverityState(Alert(t))] <= Severity[ForcedState(T, until)]
           /\ LockActive(until) => Severity["HALTED"] <= Severity[ForcedState(T, until)]
<1>1. /\ WorstForcedState(T) \in States
      /\ \A t \in T : Severity[SeverityState(Alert(t))] <= Severity[WorstForcedState(T)]
  BY WorstForcedStateFact
<1>2. \A t \in T : SeverityState(Alert(t)) \in {"CAUTION", "RESTRICTED", "HALTED", "EMERGENCY"}
  BY SeverityStateType
<1>3. CASE killed
  BY <1>2, <1>3 DEF ForcedState, States, Severity
<1>4. CASE ~killed
  <2>1. CASE LockActive(until) /\ Severity[WorstForcedState(T)] < Severity["HALTED"]
    BY <1>1, <1>2, <1>4, <2>1 DEF ForcedState, States, Severity
  <2>2. CASE ~(LockActive(until) /\ Severity[WorstForcedState(T)] < Severity["HALTED"])
    BY <1>1, <1>4, <2>2 DEF ForcedState, States, Severity
  <2> QED BY <2>1, <2>2
<1> QED BY <1>3, <1>4

\* The state an evaluation resolves to is at least as severe as every trigger and
\* an active lock force, and at most one step below the state before.
LEMMA ResolvedStateFact ==
    ASSUME TypeOK, NEW T, T \subseteq TriggerType, NEW S, NEW until \in Nat
    PROVE  /\ ResolvedState(T, S, until) \in States
           /\ \A t \in T :
                Severity[SeverityState(Alert(t))] <= Severity[ResolvedState(T, S, until)]
           /\ LockActive(until) => ResolvedState(T, S, until) \in LockedStates
           /\ Severity[ResolvedState(T, S, until)] >= Severity[state] - 1
<1> DEFINE f == ForcedState(T, until)
           r == ResolvedState(T, S, until)
<1>1. /\ f \in States
      /\ \A t \in T : Severity[SeverityState(Alert(t))] <= Severity[f]
      /\ LockActive(until) => Severity["HALTED"] <= Severity[f]
  BY ForcedStateFact
<1>2. \A t \in T : SeverityState(Alert(t)) \in {"CAUTION", "RESTRICTED", "HALTED", "EMERGENCY"}
  BY SeverityStateType
<1>3. state \in States
  BY DEF TypeOK
<1> HIDE DEF f
<1>4. r \in States /\ Severity[f] <= Severity[r] /\ Severity[r] >= Severity[state] - 1
  <2>1. CASE Severity[f] > Severity[state]
    BY <1>1, <1>3, <2>1 DEF ResolvedState, f, States, Severity
  <2>2. CASE Severity[f] < Severity[state] /\ MayDeescalate(T, S, until)
    <3>1. state \notin {"NORMAL", "SUSPENDED"}
      BY <1>1, <1>3, <2>2 DEF MayDeescalate, LockedStates, States, Severity
    <3>2. StepDown(state) \in States /\ Severity[StepDown(state)] = Severity[state] - 1
      BY <1>3, <3>1, StepDownFact
    <3>3. r = StepDown(state)
      BY <1>1, <1>3, <2>2 DEF ResolvedState, f, States, Severity
    <3> QED BY <1>1, <1>3, <2>2, <3>2, <3>3 DEF States, Severity
  <2>3. CASE ~(Severity[f] > Severity[state])
             /\ ~(Severity[f] < Severity[state] /\ MayDeescalate(T, S, until))
    BY <1>1, <1>3, <2>3 DEF ResolvedState, f, States, Severity
  <2> QED BY <2>1, <2>2, <2>3
<1> HIDE DEF r
<1>5. LockActive(until) => r \in LockedStates
  BY <1>1, <1>4 DEF States, Severity, LockedStates
<1>6. \A t \in T : Severity[SeverityState(Alert(t))] <= Severity[r]
  BY <1>1, <1>2, <1>4 DEF States, Severity
<1> QED BY <1>4, <1>5, <1>6 DEF r

LEMMA RecoveryFact ==
    ASSUME TypeOK
    PROVE  RecoveryMultiplier \in 0..100 /\ RecoveryAfter \in RecoveryType
<1>1. \A e : RampTier(e) \in 0..100
  BY RampAssumption DEF RampTier
<1>2. RecoveryMultiplier \in 0..100
  BY <1>1, RampAssumption DEF RecoveryMultiplier
<1>3. RecoveryAfter \in RecoveryType
  BY DEF RecoveryAfter, NoRecovery, RecoveryType, TypeOK
<1> QED BY <1>2, <1>3

(***************************************************************************)
(* Type correctness.                                                       *)
(***************************************************************************)

RowType ==
    [state : States, sticky : SUBSET TriggerType, lockedUntil : Nat,
     anchor : AnchorType, recovery : RecoveryType]

\* What an evaluation adds to the latched triggers, and what it forces from.
LEMMA EvaluateFact ==
    ASSUME TypeOK, Evaluate
    PROVE  \E S, T :
             /\ S = sticky \cup {t \in FreshTriggers(RollAnchors) : Sticky(t)}
             /\ T = FreshTriggers(RollAnchors) \cup S
             /\ T \subseteq TriggerType
             /\ sticky' = S /\ anchor' = RollAnchors
             /\ lockedUntil' = Relocked(S \ sticky) /\ lockedUntil' \in Nat
             /\ state' = ResolvedState(T, S, lockedUntil')
             /\ policy' = PolicyFor(state', T, lockedUntil')
<1> DEFINE A == RollAnchors
           S == sticky \cup {t \in FreshTriggers(A) : Sticky(t)}
           T == FreshTriggers(A) \cup S
<1>1. A \in [Ladders -> [key : Nat, base : Nat \ {0}]]
  BY RollAnchorsType
<1>2. \A t \in FreshTriggers(A) : t \in TriggerType
  BY <1>1, FreshTriggersType
<1>3. sticky \subseteq TriggerType
  BY DEF TypeOK
<1>4. T \subseteq TriggerType
  BY <1>2, <1>3
<1>5. Relocked(S \ sticky) \in Nat
  BY RelockedType
<1>6. /\ sticky' = S /\ anchor' = A
      /\ lockedUntil' = Relocked(S \ sticky)
      /\ state' = ResolvedState(T, S, Relocked(S \ sticky))
      /\ policy' = PolicyFor(ResolvedState(T, S, Relocked(S \ sticky)), T, Relocked(S \ sticky))
  BY DEF Evaluate
<1> QED BY <1>4, <1>5, <1>6

LEMMA PersistType ==
    ASSUME TypeOK, NEW rec \in RecoveryType, Persist(rec),
           state' \in States, sticky' \subseteq TriggerType, lockedUntil' \in Nat,
           anchor' \in AnchorType
    PROVE  row' \in RowType
BY DEF Persist, RowType, TypeOK

LEMMA PolicyForType ==
    ASSUME TypeOK, NEW s, NEW T, NEW until
    PROVE  PolicyFor(s, T, until) \in PolicyType
BY RecoveryFact DEF PolicyFor, PolicyType

\* The type invariant: state, latches, anchors, recovery, tokens, policy and the
\* persisted row stay in their types, whatever the calendar and the thresholds.
THEOREM TypeCorrect == Spec => []TypeOK
<1>1. Init => TypeOK
  <2> SUFFICES ASSUME Init PROVE TypeOK
    OBVIOUS
  <2>1. FreshAnchor \in AnchorType
    BY DEF FreshAnchor, AnchorType
  <2>2. NoRecovery \in RecoveryType
    BY DEF NoRecovery, RecoveryType
  <2>3. NoPolicy \in PolicyType
    BY DEF NoPolicy, PolicyType
  <2> QED BY <2>1, <2>2, <2>3, VixAssumption DEF Init, TypeOK, States
<1>2. TypeOK /\ [Next]_vars => TypeOK'
  <2> SUFFICES ASSUME TypeOK, [Next]_vars PROVE TypeOK'
    OBVIOUS
  <2> USE DEF market, latch
  <2>1. CASE Tick
    BY <2>1 DEF Tick, TypeOK
  <2>2. CASE MarketMoves
    BY <2>2 DEF MarketMoves, TypeOK
  <2>3. CASE Evaluate
    <3>1. PICK S, T : /\ T \subseteq TriggerType /\ S \subseteq T
                      /\ sticky' = S /\ anchor' = RollAnchors
                      /\ lockedUntil' \in Nat
                      /\ state' = ResolvedState(T, S, lockedUntil')
                      /\ policy' = PolicyFor(state', T, lockedUntil')
      BY <2>3, EvaluateFact
    <3>2. state' \in States
      BY <3>1, ResolvedStateFact
    <3>3. anchor' \in AnchorType
      BY <3>1, RollAnchorsType DEF AnchorType
    <3>4. policy' \in PolicyType
      BY <3>1, PolicyForType
    <3>5. recovery' \in RecoveryType /\ Persist(recovery')
      BY <2>3, RecoveryFact DEF Evaluate
    <3>6. row' \in RowType
      BY <3>1, <3>2, <3>3, <3>5, PersistType
    <3>7. UNCHANGED <<now, enabled, market, killed, mismatch, tokens, walking>>
      BY <2>3 DEF Evaluate
    <3> QED BY <3>1, <3>2, <3>3, <3>4, <3>5, <3>6, <3>7 DEF TypeOK, RowType
  <2>4. CASE EvaluateDisabled
    <3>1. anchor' \in AnchorType
      BY <2>4, RollAnchorsType DEF AnchorType, EvaluateDisabled
    <3>2. policy' \in PolicyType
      BY <2>4, RecoveryFact DEF EvaluateDisabled, PolicyType
    <3>3. recovery' \in RecoveryType /\ Persist(recovery) /\ recovery \in RecoveryType
      BY <2>4, RecoveryFact DEF EvaluateDisabled, TypeOK
    <3>4. UNCHANGED <<latch, now, enabled, market, mismatch, tokens, walking>>
      BY <2>4 DEF EvaluateDisabled
    <3>5. state' \in States /\ sticky' \subseteq TriggerType /\ lockedUntil' \in Nat
      BY <3>4 DEF TypeOK
    <3>6. row' \in RowType
      BY <3>1, <3>3, <3>5, PersistType
    <3> QED BY <3>1, <3>2, <3>3, <3>4, <3>6 DEF TypeOK, RowType
  <2>5. CASE ReportPositionMismatch
    BY <2>5 DEF ReportPositionMismatch, TypeOK
  <2>6. CASE ClearPositionMismatch
    BY <2>6 DEF ClearPositionMismatch, TypeOK
  <2>7. CASE ActivateKillSwitch
    <3>1. sticky' \subseteq TriggerType /\ state' \in States
      BY <2>7, ManualTriggersType DEF ActivateKillSwitch, TypeOK, States
    <3>2. UNCHANGED <<now, enabled, market, lockedUntil, anchor, recovery, mismatch, tokens,
                      walking, policy>> /\ killed' \in BOOLEAN
      BY <2>7 DEF ActivateKillSwitch
    <3>3. row' \in RowType
      <4>1. CASE state = "SUSPENDED"
        BY <2>7, <4>1 DEF ActivateKillSwitch, TypeOK, RowType
      <4>2. CASE state # "SUSPENDED"
        BY <2>7, <3>1, <3>2, <4>2, PersistType DEF ActivateKillSwitch, TypeOK
      <4> QED BY <4>1, <4>2
    <3> QED BY <3>1, <3>2, <3>3 DEF TypeOK, RowType
  <2>8. CASE Suspend
    <3>1. sticky' \subseteq TriggerType /\ state' \in States
      BY <2>8, ManualTriggersType DEF Suspend, TypeOK, States
    <3>2. UNCHANGED <<now, enabled, market, killed, lockedUntil, anchor, recovery, mismatch,
                      tokens, walking, policy>>
      BY <2>8 DEF Suspend
    <3>3. row' \in RowType
      BY <2>8, <3>1, <3>2, PersistType DEF Suspend, TypeOK
    <3> QED BY <3>1, <3>2, <3>3 DEF TypeOK, RowType
  <2>9. ASSUME NEW t \in Tokens, RequestOverride(t) \/ OutliveToken(t) \/ ConfirmOverride(t)
        PROVE  TypeOK'
    BY <2>9 DEF RequestOverride, OutliveToken, ConfirmOverride, TypeOK
  <2>10. ASSUME StartWalk, tokens' \in [Tokens -> {"none", "live", "expired"}]
         PROVE  TypeOK'
    <3>1. equity \in Nat /\ anchor["DAILY_LOSS"].base \in Nat
      BY EquitiesAssumption DEF TypeOK, AnchorType, NoAnchor, Ladders
    <3>2. recovery' \in RecoveryType
      BY <2>10, <3>1 DEF StartWalk, RecoveryType, TypeOK
    <3>3. /\ UNCHANGED <<now, enabled, market, state, anchor, mismatch, policy, row>>
          /\ walking' \in BOOLEAN /\ killed' \in BOOLEAN
          /\ sticky' \subseteq TriggerType /\ lockedUntil' \in Nat
      BY <2>10 DEF StartWalk
    <3> QED BY <2>10, <3>2, <3>3 DEF TypeOK
  <2>11. ASSUME NEW t \in Tokens, Resume(t)
         PROVE  TypeOK'
    <3>1. tokens' \in [Tokens -> {"none", "live", "expired"}]
      BY <2>11 DEF Resume, TypeOK
    <3>2. CASE StartWalk
      BY <2>10, <3>1, <3>2
    <3>3. CASE UNCHANGED <<now, enabled, market, latch, anchor, recovery, mismatch, walking,
                           policy, row>>
      BY <3>1, <3>3 DEF TypeOK
    <3> QED BY <2>11, <3>2, <3>3 DEF Resume
  <2>12. CASE ResumeUnlocked
    BY <2>10, <2>12 DEF ResumeUnlocked, TypeOK
  <2>13. CASE WalkStep
    <3>1. state' \in States
      BY <2>13, LowestTransitionFact DEF WalkStep, TypeOK
    <3> QED BY <2>13, <3>1 DEF WalkStep, TypeOK
  <2>14. CASE FinishResume
    <3>1. UNCHANGED <<now, enabled, market, latch, anchor, recovery, mismatch, tokens, policy>>
           /\ walking' \in BOOLEAN
      BY <2>14 DEF FinishResume
    <3>2. row' \in RowType
      BY <2>14, <3>1, PersistType DEF FinishResume, TypeOK
    <3> QED BY <3>1, <3>2 DEF TypeOK, RowType
  <2>15. CASE Restart
    <3>1. NoPolicy \in PolicyType
      BY DEF NoPolicy, PolicyType
    <3> QED BY <2>15, <3>1 DEF Restart, RestoreRest, KillRestored, TypeOK
  <2>16. CASE UNCHANGED vars
    BY <2>16 DEF vars, TypeOK
  <2> QED BY <2>1, <2>2, <2>3, <2>4, <2>5, <2>6, <2>7, <2>8, <2>9, <2>11, <2>12,
             <2>13, <2>14, <2>15, <2>16 DEF Next
<1> QED BY <1>1, <1>2, PTL DEF Spec

(***************************************************************************)
(* The safety of the halt.  LockHeld and StickyHeld are not inductive: a   *)
(* restart brings back the row, so the row must be coherent on its own;    *)
(* resume() ends with a write of what the walk left, so during the walk    *)
(* nothing may be latched; and the kill flag is recomputed from the        *)
(* category of a latched trigger, so only one trigger may have it.         *)
(***************************************************************************)

\* State s is as severe as the latched triggers and the lock require.
Coherent(s, triggers, until) ==
    /\ LockActive(until) => s \in LockedStates
    /\ \A t \in triggers : Severity[SeverityState(Alert(t))] <= Severity[s]

OnlyLatching(triggers) ==
    \A t \in triggers : Sticky(t) /\ (t.category = "KILL_SWITCH" => t = KillTrigger)

MemorySound ==
    /\ walking => sticky = {} /\ lockedUntil = 0
    /\ ~walking => Coherent(state, sticky, lockedUntil)
    /\ OnlyLatching(sticky)

RowSound ==
    /\ Coherent(row.state, row.sticky, row.lockedUntil)
    /\ OnlyLatching(row.sticky)

HaltInv == MemorySound /\ RowSound /\ KillLatched

\* What a call that leaves the clock alone writes is sound when what it leaves in
\* memory is; so is the row when the write fails or none is made.
LEMMA PersistSound ==
    ASSUME NEW rec, RowSound, now' = now,
           \/ Persist(rec) /\ Coherent(state', sticky', lockedUntil') /\ OnlyLatching(sticky')
           \/ UNCHANGED row
    PROVE  RowSound'
<1>1. CASE row' = row
  BY <1>1 DEF RowSound, Coherent, OnlyLatching, LockActive
<1>2. CASE Persist(rec) /\ Coherent(state', sticky', lockedUntil') /\ OnlyLatching(sticky')
           /\ row' # row
  <2>1. row'.state = state' /\ row'.sticky = sticky' /\ row'.lockedUntil = lockedUntil'
    BY <1>2 DEF Persist
  <2> QED BY <1>2, <2>1 DEF RowSound, Coherent, OnlyLatching, LockActive
<1> QED BY <1>1, <1>2

\* The coherence of a halt survives the passing of time.
LEMMA CoherentLater ==
    ASSUME NEW s, NEW T, NEW until \in Nat, Coherent(s, T, until),
           now \in Nat, now' \in Nat, now' >= now
    PROVE  /\ now' < until => s \in LockedStates
           /\ \A t \in T : Severity[SeverityState(Alert(t))] <= Severity[s]
BY DEF Coherent, LockActive

LEMMA HaltInvInductive == TypeOK /\ HaltInv /\ [Next]_vars => HaltInv'
<1> SUFFICES ASSUME TypeOK, HaltInv, [Next]_vars PROVE HaltInv'
  OBVIOUS
<1> USE DEF HaltInv, market, latch
\* Actions that leave the halt, the row and the clock alone.
<1>1. ASSUME UNCHANGED <<now, state, sticky, killed, lockedUntil, walking, row>>
      PROVE  HaltInv'
  BY <1>1 DEF MemorySound, RowSound, Coherent, OnlyLatching, LockActive, KillLatched
<1>2. CASE Tick
  <2>1. now' >= now /\ now \in Nat /\ now' \in Nat /\ lockedUntil \in Nat
        /\ row.lockedUntil \in Nat
    BY <1>2 DEF Tick, TypeOK
  <2>2. UNCHANGED <<state, sticky, killed, lockedUntil, walking, row>>
    BY <1>2 DEF Tick
  <2>3. RowSound'
    BY <2>1, <2>2 DEF RowSound, Coherent, OnlyLatching, LockActive
  <2>4. MemorySound'
    BY <2>1, <2>2 DEF MemorySound, Coherent, OnlyLatching, LockActive
  <2> QED BY <2>2, <2>3, <2>4 DEF KillLatched
<1>3. CASE MarketMoves
  BY <1>1, <1>3 DEF MarketMoves
<1>4. CASE Evaluate
  <2>1. PICK S, T : /\ S = sticky \cup {t \in FreshTriggers(RollAnchors) : Sticky(t)}
                    /\ T = FreshTriggers(RollAnchors) \cup S
                    /\ T \subseteq TriggerType
                    /\ sticky' = S /\ lockedUntil' \in Nat
                    /\ state' = ResolvedState(T, S, lockedUntil')
    BY <1>4, EvaluateFact
  <2>2. UNCHANGED <<now, killed, walking>> /\ ~walking /\ Persist(recovery')
    BY <1>4 DEF Evaluate
  <2>3. \A t \in FreshTriggers(RollAnchors) : t.category # "KILL_SWITCH"
    BY RollAnchorsType, FreshTriggersType
  <2>4. Coherent(state', sticky', lockedUntil')
    BY <2>1, ResolvedStateFact DEF Coherent
  <2>5. OnlyLatching(sticky')
    BY <2>1, <2>3 DEF OnlyLatching, MemorySound
  <2>6. RowSound'
    BY <2>2, <2>4, <2>5, PersistSound
  <2>7. MemorySound'
    BY <2>2, <2>4, <2>5 DEF MemorySound, Coherent, OnlyLatching, LockActive
  <2>8. KillLatched'
    BY <2>1, <2>2, <2>3, ManualTriggersType DEF KillLatched, KillTrigger
  <2> QED BY <2>6, <2>7, <2>8
<1>5. CASE EvaluateDisabled
  <2>1. UNCHANGED <<now, state, sticky, killed, lockedUntil, walking>> /\ ~walking
        /\ Persist(recovery)
    BY <1>5 DEF EvaluateDisabled
  <2>2. Coherent(state', sticky', lockedUntil') /\ OnlyLatching(sticky')
    BY <2>1 DEF MemorySound
  <2>3. RowSound'
    BY <2>1, <2>2, PersistSound
  <2>4. MemorySound'
    BY <2>1 DEF MemorySound, Coherent, OnlyLatching, LockActive
  <2> QED BY <2>1, <2>3, <2>4 DEF KillLatched
<1>6. CASE ReportPositionMismatch
  BY <1>1, <1>6 DEF ReportPositionMismatch
<1>7. CASE ClearPositionMismatch
  <2>1. UNCHANGED <<now, state, killed, lockedUntil, walking, row>> /\ ~walking
        /\ sticky' = {t \in sticky : t.category # "POSITION_MISMATCH"}
    BY <1>7 DEF ClearPositionMismatch
  <2>2. RowSound'
    BY <2>1, PersistSound
  <2>3. MemorySound'
    BY <2>1 DEF MemorySound, Coherent, OnlyLatching, LockActive
  <2>4. KillLatched'
    BY <2>1, ManualTriggersType DEF KillLatched
  <2> QED BY <2>2, <2>3, <2>4
<1>8. CASE ActivateKillSwitch
  <2>1. UNCHANGED <<now, lockedUntil, walking>> /\ ~walking
        /\ killed' = TRUE /\ sticky' = sticky \cup {KillTrigger}
        /\ (state = "SUSPENDED" => state' = state /\ row' = row)
        /\ (state # "SUSPENDED" => state' = "EMERGENCY" /\ Persist(recovery'))
    BY <1>8 DEF ActivateKillSwitch
  <2>2. sticky \subseteq TriggerType /\ state \in States
    BY DEF TypeOK
  <2>3. \A t \in sticky' :
          SeverityState(Alert(t)) \in {"CAUTION", "RESTRICTED", "HALTED", "EMERGENCY"}
    BY <2>1, <2>2, ManualTriggersType, SeverityStateType
  <2>4. state' \in {"EMERGENCY", "SUSPENDED"}
    BY <2>1
  <2>5. Coherent(state', sticky', lockedUntil')
    BY <2>3, <2>4 DEF Coherent, Severity, LockedStates
  <2>6. OnlyLatching(sticky')
    BY <2>1, ManualTriggersType DEF OnlyLatching, MemorySound
  <2>7. RowSound'
    BY <2>1, <2>5, <2>6, PersistSound
  <2>8. MemorySound'
    BY <2>1, <2>5, <2>6 DEF MemorySound, Coherent, OnlyLatching, LockActive
  <2> QED BY <2>1, <2>7, <2>8 DEF KillLatched
<1>9. CASE Suspend
  <2>1. UNCHANGED <<now, lockedUntil, walking, killed>> /\ ~walking
        /\ sticky' = sticky \cup {SuspendTrigger}
        /\ state' = "SUSPENDED" /\ Persist(recovery')
    BY <1>9 DEF Suspend
  <2>2. sticky \subseteq TriggerType
    BY DEF TypeOK
  <2>3. \A t \in sticky' :
          SeverityState(Alert(t)) \in {"CAUTION", "RESTRICTED", "HALTED", "EMERGENCY"}
    BY <2>1, <2>2, ManualTriggersType, SeverityStateType
  <2>4. Coherent(state', sticky', lockedUntil')
    BY <2>1, <2>3 DEF Coherent, Severity, LockedStates
  <2>5. OnlyLatching(sticky')
    BY <2>1, ManualTriggersType DEF OnlyLatching, MemorySound
  <2>6. RowSound'
    BY <2>1, <2>4, <2>5, PersistSound
  <2>7. MemorySound'
    BY <2>1, <2>4, <2>5 DEF MemorySound, Coherent, OnlyLatching, LockActive
  <2>8. KillLatched'
    BY <2>1, ManualTriggersType DEF KillLatched
  <2> QED BY <2>6, <2>7, <2>8
<1>10. ASSUME NEW t \in Tokens, RequestOverride(t) \/ OutliveToken(t) \/ ConfirmOverride(t)
       PROVE  HaltInv'
  BY <1>1, <1>10 DEF RequestOverride, OutliveToken, ConfirmOverride
<1>11. ASSUME StartWalk PROVE HaltInv'
  <2>1. walking' /\ sticky' = {} /\ ~killed' /\ lockedUntil' = 0 /\ UNCHANGED <<now, row>>
    BY <1>11 DEF StartWalk
  <2>2. RowSound'
    BY <2>1, PersistSound
  <2> QED BY <2>1, <2>2 DEF MemorySound, OnlyLatching, KillLatched
<1>12. ASSUME NEW t \in Tokens, Resume(t) PROVE HaltInv'
  BY <1>1, <1>11, <1>12 DEF Resume
<1>13. CASE ResumeUnlocked
  BY <1>11, <1>13 DEF ResumeUnlocked
<1>14. CASE WalkStep
  <2>1. UNCHANGED <<now, sticky, killed, lockedUntil, walking, row>> /\ walking
    BY <1>14 DEF WalkStep
  <2>2. RowSound'
    BY <2>1, PersistSound
  <2> QED BY <2>1, <2>2 DEF MemorySound, OnlyLatching, KillLatched
<1>15. CASE FinishResume
  <2>1. UNCHANGED <<now, state, sticky, killed, lockedUntil>> /\ walking /\ ~walking'
        /\ Persist(recovery')
    BY <1>15 DEF FinishResume
  <2>2. sticky' = {} /\ lockedUntil' = 0 /\ now \in Nat
    BY <2>1 DEF MemorySound, TypeOK
  <2>3. Coherent(state', sticky', lockedUntil') /\ OnlyLatching(sticky')
    BY <2>2 DEF Coherent, LockActive, OnlyLatching
  <2>4. RowSound'
    BY <2>1, <2>3, PersistSound
  <2>5. MemorySound'
    BY <2>1, <2>3 DEF MemorySound, Coherent, OnlyLatching, LockActive
  <2> QED BY <2>1, <2>4, <2>5 DEF KillLatched
<1>16. CASE Restart
  <2>1. /\ state' = row.state /\ sticky' = row.sticky /\ lockedUntil' = row.lockedUntil
        /\ walking' = FALSE /\ UNCHANGED <<now, row>>
        /\ killed' = (\E t \in row.sticky : t.category = "KILL_SWITCH")
    BY <1>16 DEF Restart, RestoreRest, KillRestored
  <2>2. RowSound'
    BY <2>1, PersistSound
  <2>3. MemorySound'
    BY <2>1 DEF MemorySound, RowSound, Coherent, OnlyLatching, LockActive
  <2>4. KillLatched'
    BY <2>1, ManualTriggersType DEF KillLatched, RowSound, OnlyLatching
  <2> QED BY <2>2, <2>3, <2>4
<1>17. CASE UNCHANGED vars
  BY <1>1, <1>17 DEF vars
<1> QED BY <1>2, <1>3, <1>4, <1>5, <1>6, <1>7, <1>8, <1>9, <1>10, <1>12, <1>13,
           <1>14, <1>15, <1>16, <1>17 DEF Next

LEMMA HaltInvAlways == Spec => []HaltInv
<1>1. Init => HaltInv
  BY DEF Init, HaltInv, MemorySound, RowSound, Coherent, OnlyLatching, LockActive,
         KillLatched
<1> QED BY <1>1, HaltInvInductive, TypeCorrect, PTL DEF Spec

\* An active lock always comes with a locked state: no evaluation, restart or
\* failed write opens trading inside a lock window.
THEOREM LockAlwaysHeld == Spec => []LockHeld
<1>1. TypeOK /\ HaltInv => LockHeld
  BY DEF HaltInv, MemorySound, Coherent, LockHeld, LockActive, TypeOK
<1> QED BY <1>1, TypeCorrect, HaltInvAlways, PTL

\* The state never falls below what a latched trigger forces, except by resume().
THEOREM StickyAlwaysHeld == Spec => []StickyHeld
<1>1. HaltInv => StickyHeld
  BY DEF HaltInv, MemorySound, Coherent, StickyHeld
<1> QED BY <1>1, HaltInvAlways, PTL

\* The kill flag and the latched kill trigger agree, before and after a restart.
THEOREM KillAlwaysLatched == Spec => []KillLatched
BY HaltInvAlways, PTL DEF HaltInv

\* evaluate() admits entries only when nothing is latched or reported, no lock runs
\* and the kill switch is off: the states that admit entries are too mild for a
\* latch, and a reported mismatch is latched by the same evaluation.
THEOREM EntriesAlwaysClear == Spec => EntriesOnlyWhenClear
<1>1. TypeOK /\ HaltInv /\ [Next]_vars =>
        (Evaluate /\ policy'.entries =>
           sticky' = {} /\ ~killed /\ ~mismatch /\ ~LockActive(lockedUntil'))
  <2> SUFFICES ASSUME TypeOK, HaltInv, Evaluate, policy'.entries
               PROVE  sticky' = {} /\ ~killed /\ ~mismatch /\ ~LockActive(lockedUntil')
    OBVIOUS
  <2>1. PICK S, T : /\ S = sticky \cup {t \in FreshTriggers(RollAnchors) : Sticky(t)}
                    /\ T = FreshTriggers(RollAnchors) \cup S
                    /\ T \subseteq TriggerType
                    /\ sticky' = S /\ lockedUntil' \in Nat
                    /\ state' = ResolvedState(T, S, lockedUntil')
                    /\ policy' = PolicyFor(state', T, lockedUntil')
    BY EvaluateFact
  <2>2. state' \in EntryStates /\ ~killed /\ ~LockActive(lockedUntil')
    BY <2>1 DEF PolicyFor
  <2>3. \A t \in S : Sticky(t)
    BY <2>1 DEF HaltInv, MemorySound, OnlyLatching
  <2>4. \A t \in S : Severity[SeverityState(Alert(t))] <= Severity[state']
    BY <2>1, ResolvedStateFact
  <2>5. \A t \in S : FALSE
    <3> SUFFICES ASSUME NEW t \in S PROVE FALSE
      OBVIOUS
    <3>1. Alert(t) >= RED /\ Severity[SeverityState(Alert(t))] >= Severity["HALTED"]
      BY <2>1, <2>3, StickyIsRed, SeverityStateType
    <3>2. SeverityState(Alert(t)) \in {"CAUTION", "RESTRICTED", "HALTED", "EMERGENCY"}
      BY <2>1, SeverityStateType
    <3> QED BY <2>2, <2>4, <3>1, <3>2 DEF EntryStates, Severity
  <2>6. ~mismatch
    <3>1. mismatch => MismatchTrigger \in FreshTriggers(RollAnchors)
      BY DEF FreshTriggers
    <3>2. Sticky(MismatchTrigger)
      BY DEF Sticky, MismatchTrigger
    <3> QED BY <2>1, <2>5, <3>1, <3>2
  <2> QED BY <2>1, <2>2, <2>5, <2>6
<1> QED BY <1>1, TypeCorrect, HaltInvAlways, PTL DEF Spec, EntriesOnlyWhenClear

\* evaluate() steps down at most once, and never below a condition it has just seen.
THEOREM DeescalationAlwaysOrderly == Spec => DeescalationIsOrderly
<1>1. TypeOK /\ [Next]_vars =>
        (Evaluate =>
          /\ Severity[state'] >= Severity[state] - 1
          /\ \A t \in FreshTriggers(anchor') :
               Severity[SeverityState(Alert(t))] <= Severity[state'])
  <2> SUFFICES ASSUME TypeOK, Evaluate
               PROVE  /\ Severity[state'] >= Severity[state] - 1
                      /\ \A t \in FreshTriggers(anchor') :
                           Severity[SeverityState(Alert(t))] <= Severity[state']
    OBVIOUS
  <2>1. PICK S, T : /\ T = FreshTriggers(RollAnchors) \cup S
                    /\ T \subseteq TriggerType
                    /\ anchor' = RollAnchors /\ lockedUntil' \in Nat
                    /\ state' = ResolvedState(T, S, lockedUntil')
    BY EvaluateFact
  <2> QED BY <2>1, ResolvedStateFact
<1> QED BY <1>1, TypeCorrect, PTL DEF Spec, DeescalationIsOrderly

(***************************************************************************)
(* The row: what a crash between two calls forgets, when writes do not     *)
(* fail, and the halt latch the breaker then implements.                   *)
(***************************************************************************)

\* While resume() walks, the row still holds the halt being left, whose lock has
\* already run out.
WalkingRowUnlocked == walking => ~LockActive(row.lockedUntil)

LEMMA PersistDurable ==
    ASSUME NEW rec, ~DbMayFail, Persist(rec)
    PROVE  row'.state = state' /\ row'.lockedUntil = lockedUntil'
BY DEF Persist

LEMMA DurableInductive ==
    ASSUME ~DbMayFail, TypeOK, HaltIsDurable, WalkingRowUnlocked, [Next]_vars
    PROVE  HaltIsDurable' /\ WalkingRowUnlocked'
<1> USE DEF market, latch
<1>1. ASSUME UNCHANGED <<state, lockedUntil, walking, row>>,
             now' \in Nat, now' >= now
      PROVE  HaltIsDurable' /\ WalkingRowUnlocked'
  BY <1>1 DEF HaltIsDurable, WalkingRowUnlocked, LockActive, TypeOK
<1>2. now' \in Nat /\ now' >= now
  BY DEF TypeOK, Next, vars, Tick, MarketMoves, Evaluate, EvaluateDisabled,
         ReportPositionMismatch, ClearPositionMismatch, ActivateKillSwitch, Suspend,
         RequestOverride, OutliveToken, ConfirmOverride, Resume, ResumeUnlocked,
         StartWalk, WalkStep, FinishResume, Restart, RestoreRest
<1>3. CASE Tick \/ MarketMoves \/ ReportPositionMismatch \/ ClearPositionMismatch
  BY <1>1, <1>2, <1>3 DEF Tick, MarketMoves, ReportPositionMismatch,
                          ClearPositionMismatch
<1>4. CASE Evaluate
  BY <1>4, PersistDurable DEF Evaluate, HaltIsDurable, WalkingRowUnlocked
<1>5. CASE EvaluateDisabled
  BY <1>5, PersistDurable DEF EvaluateDisabled, HaltIsDurable, WalkingRowUnlocked
<1>6. CASE ActivateKillSwitch
  <2>1. CASE state = "SUSPENDED"
    BY <1>1, <1>2, <1>6, <2>1 DEF ActivateKillSwitch
  <2>2. CASE state # "SUSPENDED"
    BY <1>6, <2>2, PersistDurable DEF ActivateKillSwitch, HaltIsDurable,
                                      WalkingRowUnlocked
  <2> QED BY <2>1, <2>2
<1>7. CASE Suspend
  BY <1>7, PersistDurable DEF Suspend, HaltIsDurable, WalkingRowUnlocked
<1>8. ASSUME NEW t \in Tokens, RequestOverride(t) \/ OutliveToken(t) \/ ConfirmOverride(t)
      PROVE  HaltIsDurable' /\ WalkingRowUnlocked'
  BY <1>1, <1>2, <1>8 DEF RequestOverride, OutliveToken, ConfirmOverride
<1>9. ASSUME StartWalk, ~walking, ~LockActive(lockedUntil)
      PROVE  HaltIsDurable' /\ WalkingRowUnlocked'
  BY <1>9 DEF StartWalk, HaltIsDurable, WalkingRowUnlocked, LockActive
<1>10. ASSUME NEW t \in Tokens, Resume(t)
       PROVE  HaltIsDurable' /\ WalkingRowUnlocked'
  BY <1>1, <1>2, <1>9, <1>10 DEF Resume
<1>11. CASE ResumeUnlocked
  BY <1>9, <1>11 DEF ResumeUnlocked
<1>12. CASE WalkStep
  BY <1>12 DEF WalkStep, HaltIsDurable, WalkingRowUnlocked, LockActive
<1>13. CASE FinishResume
  BY <1>13, PersistDurable DEF FinishResume, HaltIsDurable, WalkingRowUnlocked
<1>14. CASE Restart
  BY <1>14 DEF Restart, RestoreRest, HaltIsDurable, WalkingRowUnlocked
<1>15. CASE UNCHANGED vars
  BY <1>1, <1>2, <1>15 DEF vars
<1> QED BY <1>3, <1>4, <1>5, <1>6, <1>7, <1>8, <1>10, <1>11, <1>12, <1>13, <1>14,
           <1>15 DEF Next

\* Between two calls the row holds the state and the lock the manager is in.
THEOREM HaltAlwaysDurable ==
    ASSUME ~DbMayFail
    PROVE  Spec => [](HaltIsDurable /\ WalkingRowUnlocked)
<1>1. Init => HaltIsDurable /\ WalkingRowUnlocked
  BY DEF Init, HaltIsDurable, WalkingRowUnlocked
<1>2. TypeOK /\ (HaltIsDurable /\ WalkingRowUnlocked) /\ [Next]_vars
        => (HaltIsDurable /\ WalkingRowUnlocked)'
  BY DurableInductive
<1> QED BY <1>1, <1>2, TypeCorrect, PTL DEF Spec

(***************************************************************************)
(* The refinement mapping, by name.                                        *)
(***************************************************************************)

Mode ==
    IF walking \/ state \notin LockedStates THEN "open"
    ELSE IF state = "HALTED" THEN "halted"
    ELSE "human"
Sealed == LockActive(lockedUntil)
Granted == {t \in Tokens : tokens[t] # "none"}

\* In a halt only a human releases, an evaluation changes nothing of the halt but
\* the lock; it leaves HALTED downwards only when nothing is latched or locked.
LEMMA EvaluateHalt ==
    ASSUME TypeOK, HaltInv, Evaluate
    PROVE  /\ state' \in States
           /\ LockActive(lockedUntil') => state' \in LockedStates
           /\ state \in {"EMERGENCY", "SUSPENDED"} =>
                state' \in {"EMERGENCY", "SUSPENDED"}
           /\ state = "HALTED" /\ state' \notin LockedStates =>
                ~LockActive(lockedUntil) /\ ~LockActive(lockedUntil')
<1>1. PICK S, T : /\ S = sticky \cup {t \in FreshTriggers(RollAnchors) : Sticky(t)}
                  /\ T \subseteq TriggerType
                  /\ lockedUntil' = Relocked(S \ sticky) /\ lockedUntil' \in Nat
                  /\ state' = ResolvedState(T, S, lockedUntil')
  BY EvaluateFact
<1>2. state' \in States /\ (LockActive(lockedUntil') => state' \in LockedStates)
  BY <1>1, ResolvedStateFact
<1>3. state \in States /\ ForcedState(T, lockedUntil') \in States
  BY <1>1, ForcedStateFact DEF TypeOK
<1>4. ASSUME state \in {"EMERGENCY", "SUSPENDED"}
      PROVE  state' \in {"EMERGENCY", "SUSPENDED"}
  <2>1. ~MayDeescalate(T, S, lockedUntil')
    BY <1>4 DEF MayDeescalate, LockedStates
  <2>2. Severity[state'] >= Severity[state]
    BY <1>1, <1>3, <2>1 DEF ResolvedState, States, Severity
  <2> QED BY <1>2, <1>4, <2>2 DEF States, Severity
<1>5. ASSUME state = "HALTED", state' \notin LockedStates
      PROVE  ~LockActive(lockedUntil) /\ ~LockActive(lockedUntil')
  <2>1. MayDeescalate(T, S, lockedUntil')
    BY <1>1, <1>3, <1>5 DEF ResolvedState, States, Severity, LockedStates
  <2>2. S = {} /\ ~LockActive(lockedUntil')
    BY <1>5, <2>1 DEF MayDeescalate, LockedStates
  <2>3. lockedUntil' = lockedUntil
    BY <1>1, <2>2 DEF Relocked
  <2> QED BY <2>2, <2>3
<1> QED BY <1>2, <1>4, <1>5

(***************************************************************************)
(* The abstract actions, in terms of the mapping.                          *)
(***************************************************************************)

LEMMA TripMaps ==
    ASSUME Mode' \in {"halted", "human"}, Mode = "human" => Mode' = "human",
           Granted' = Granted
    PROVE  Latch!Trip
<1>1. Mode \in {"open", "halted", "human"} /\ Sealed' \in BOOLEAN
  BY DEF Mode, Sealed, LockActive
<1> QED BY <1>1 DEF Latch!Trip, Latch!Rank, Latch!Modes, Mode, Sealed, Granted

LEMMA ClearMaps ==
    ASSUME Mode = "halted", Mode' = "open", ~Sealed, ~Sealed', Granted' = Granted
    PROVE  Latch!Clear
BY DEF Latch!Clear, Mode, Sealed, Granted, LockActive

LEMMA ReleaseMaps ==
    ASSUME Mode # "open", Mode' = "open", ~Sealed, ~Sealed',
           NEW g \in Granted, Granted' = Granted \ {g}
    PROVE  Latch!Release
BY DEF Latch!Release, Mode, Sealed, Granted, LockActive

LEMMA UnsealMaps ==
    ASSUME Sealed, ~Sealed', Mode' = Mode, Granted' = Granted
    PROVE  Latch!Unseal
BY DEF Latch!Unseal, Mode, Sealed, Granted, LockActive

LEMMA RegrantMaps ==
    ASSUME Mode' = Mode, Sealed' = Sealed
    PROVE  Latch!Regrant
BY DEF Latch!Regrant, Mode, Sealed, Granted

LEMMA RecoverMaps ==
    ASSUME Mode = "open" \/ Mode' = Mode, Sealed' = Sealed, Granted' = {}
    PROVE  Latch!Recover
BY DEF Latch!Recover, Latch!Rank, Latch!Modes, Mode, Sealed, Granted

LEMMA StutterMaps ==
    ASSUME Mode' = Mode, Sealed' = Sealed, Granted' = Granted
    PROVE  UNCHANGED Latch!latchVars
BY DEF Latch!latchVars, Mode, Sealed, Granted

LEMMA LatchInitHolds == Init => Latch!LatchInit
BY DEF Init, Latch!LatchInit, LockActive, LockedStates

\* Every step of the breaker is a step of the latch or leaves it alone.
LEMMA LatchStep ==
    ASSUME ~DbMayFail, TypeOK, HaltInv, HaltIsDurable, WalkingRowUnlocked, [Next]_vars
    PROVE  [Latch!LatchNext]_Latch!latchVars
<1> USE DEF market, latch
<1>1. Sealed => ~walking /\ state \in LockedStates
  BY DEF Sealed, HaltInv, MemorySound, Coherent, LockActive, TypeOK
<1>2. ASSUME UNCHANGED <<now, state, lockedUntil, walking>>
      PROVE  Latch!Regrant
  BY <1>2, RegrantMaps DEF Mode, Sealed, LockActive
<1>3. CASE Tick
  <2>1. Mode' = Mode /\ Granted' = Granted /\ (Sealed' => Sealed)
    BY <1>3 DEF Tick, Mode, Granted, Sealed, LockActive, TypeOK
  <2>2. Sealed \in BOOLEAN /\ Sealed' \in BOOLEAN
    BY DEF Sealed, LockActive
  <2> QED BY <2>1, <2>2, UnsealMaps, StutterMaps DEF Latch!LatchNext
<1>4. CASE MarketMoves \/ ReportPositionMismatch \/ ClearPositionMismatch
           \/ EvaluateDisabled
  BY <1>2, <1>4 DEF MarketMoves, ReportPositionMismatch, ClearPositionMismatch,
                    EvaluateDisabled, Latch!LatchNext
<1>5. CASE Evaluate
  <2>1. UNCHANGED <<now, tokens, walking>> /\ ~walking
    BY <1>5 DEF Evaluate
  <2>2. Granted' = Granted
    BY <2>1 DEF Granted
  <2>3. Sealed' = LockActive(lockedUntil')
    BY <2>1 DEF Sealed, LockActive
  <2>4. CASE state' \in LockedStates
    <3>1. Mode' \in {"halted", "human"} /\ (Mode = "human" => Mode' = "human")
      BY <1>5, <2>1, <2>4, EvaluateHalt DEF Mode, LockedStates
    <3> QED BY <2>2, <3>1, TripMaps DEF Latch!LatchNext
  <2>5. CASE state' \notin LockedStates /\ state \in LockedStates
    <3>1. Mode = "halted" /\ Mode' = "open" /\ ~Sealed /\ ~Sealed'
      BY <1>5, <2>1, <2>3, <2>5, EvaluateHalt DEF Mode, LockedStates, Sealed
    <3> QED BY <2>2, <3>1, ClearMaps DEF Latch!LatchNext
  <2>6. CASE state' \notin LockedStates /\ state \notin LockedStates
    <3>1. Mode' = Mode /\ ~Sealed /\ ~Sealed'
      BY <1>1, <1>5, <2>1, <2>3, <2>6, EvaluateHalt DEF Mode
    <3>2. Sealed' = Sealed
      BY <3>1 DEF Sealed, LockActive
    <3> QED BY <2>2, <3>1, <3>2, StutterMaps
  <2> QED BY <2>4, <2>5, <2>6
<1>6. CASE ActivateKillSwitch \/ Suspend
  <2>1. UNCHANGED <<tokens, walking>> /\ ~walking
        /\ state' \in {"EMERGENCY", "SUSPENDED"}
    BY <1>6 DEF ActivateKillSwitch, Suspend
  <2>2. Mode' = "human" /\ Granted' = Granted
    BY <2>1 DEF Mode, Granted, LockedStates
  <2> QED BY <2>2, TripMaps DEF Latch!LatchNext
<1>7. ASSUME NEW t \in Tokens, RequestOverride(t) \/ OutliveToken(t) \/ ConfirmOverride(t)
      PROVE  Latch!LatchNext
  BY <1>2, <1>7 DEF RequestOverride, OutliveToken, ConfirmOverride, Latch!LatchNext
<1>8. ASSUME NEW t \in Tokens, Resume(t)
      PROVE  Latch!LatchNext
  <2>1. CASE UNCHANGED <<now, enabled, market, latch, anchor, recovery, mismatch, walking,
                         policy, row>>
    BY <1>2, <2>1 DEF Latch!LatchNext
  <2>2. CASE ~LockActive(lockedUntil) /\ StartWalk
    <3>1. /\ ~walking /\ state \in LockedStates
          /\ tokens' = [tokens EXCEPT ![t] = "none"] /\ tokens[t] \in {"live", "expired"}
      BY <1>8 DEF Resume
    <3>2. walking' /\ lockedUntil' = 0 /\ now' = now /\ now \in Nat
      BY <2>2 DEF StartWalk, TypeOK
    <3>3. Mode # "open" /\ Mode' = "open" /\ ~Sealed /\ ~Sealed'
      BY <2>2, <3>1, <3>2 DEF Mode, Sealed, LockActive
    <3>4. t \in Granted /\ Granted' = Granted \ {t}
      BY <3>1 DEF Granted, TypeOK
    <3> QED BY <3>3, <3>4, ReleaseMaps DEF Latch!LatchNext
  <2> QED BY <1>8, <2>1, <2>2 DEF Resume
<1>9. CASE ResumeUnlocked
  <2>1. ~walking /\ walking' /\ state \notin LockedStates /\ UNCHANGED <<now, tokens>>
        /\ lockedUntil' = 0 /\ now \in Nat
    BY <1>9 DEF ResumeUnlocked, StartWalk, TypeOK
  <2>2. Mode' = Mode /\ Granted' = Granted
    BY <2>1 DEF Mode, Granted
  <2>3. Sealed' = Sealed
    BY <1>1, <2>1 DEF Sealed, LockActive
  <2> QED BY <2>2, <2>3, StutterMaps
<1>10. CASE WalkStep \/ FinishResume
  <2>1. UNCHANGED <<now, tokens, lockedUntil>> /\ walking
    BY <1>10 DEF WalkStep, FinishResume
  <2>2. walking' \/ state' \notin LockedStates
    BY <1>10 DEF WalkStep, FinishResume, LockedStates
  <2>3. Mode' = Mode /\ Granted' = Granted /\ Sealed' = Sealed
    BY <2>1, <2>2 DEF Mode, Granted, Sealed, LockActive
  <2> QED BY <2>3, StutterMaps
<1>11. CASE Restart
  <2>1. /\ state' = row.state /\ lockedUntil' = row.lockedUntil /\ walking' = FALSE
        /\ now' = now /\ tokens' = [t \in Tokens |-> "none"]
    BY <1>11 DEF Restart, RestoreRest
  <2>2. Granted' = {}
    BY <2>1 DEF Granted
  <2>3. Mode = "open" \/ Mode' = Mode
    BY <2>1 DEF HaltIsDurable, Mode
  <2>4. Sealed' = Sealed
    BY <1>1, <2>1 DEF HaltIsDurable, WalkingRowUnlocked, Sealed, LockActive
  <2> QED BY <2>2, <2>3, <2>4, RecoverMaps DEF Latch!LatchNext
<1>12. CASE UNCHANGED vars
  BY <1>2, <1>12 DEF vars, Latch!LatchNext
<1> QED BY <1>3, <1>4, <1>5, <1>6, <1>7, <1>8, <1>9, <1>10, <1>11, <1>12 DEF Next

\* The breaker implements the halt latch: a halt of EMERGENCY or SUSPENDED ends only
\* by a resume() that spends a token, no halt ends inside its lock window, and a
\* restart releases none.
THEOREM ImplementsHaltLatch ==
    ASSUME ~DbMayFail
    PROVE  Spec => LatchedHalt
<1>1. TypeOK /\ HaltInv /\ (HaltIsDurable /\ WalkingRowUnlocked) /\ [Next]_vars
        => [Latch!LatchNext]_Latch!latchVars
  BY LatchStep
<1> QED BY <1>1, LatchInitHolds, TypeCorrect, HaltInvAlways, HaltAlwaysDurable,
           PTL DEF Spec, LatchedHalt, Latch!LatchSpec

(***************************************************************************)
(* Losses and the recovery throttle across restarts.                       *)
(***************************************************************************)

\* The row holds the anchors, and the recovery unless the last evaluation ended it or
\* resume() is still to write it.
RowInv ==
    /\ row.anchor = anchor
    /\ ~walking => row.recovery = recovery \/ recovery = NoRecovery

LEMMA PersistRow ==
    ASSUME NEW rec, ~DbMayFail, Persist(rec)
    PROVE  row'.anchor = anchor' /\ row'.recovery = rec
BY DEF Persist

LEMMA RowInductive ==
    ASSUME ~DbMayFail, RowInv, [Next]_vars
    PROVE  RowInv'
<1>1. ASSUME UNCHANGED <<anchor, row>>, UNCHANGED <<recovery, walking>> \/ walking'
      PROVE  RowInv'
  BY <1>1 DEF RowInv
<1>2. CASE Tick \/ MarketMoves \/ ReportPositionMismatch \/ ClearPositionMismatch
  BY <1>1, <1>2 DEF Tick, MarketMoves, ReportPositionMismatch, ClearPositionMismatch
<1>3. CASE Evaluate
  BY <1>3, PersistRow DEF Evaluate, RowInv
<1>4. CASE EvaluateDisabled
  <2>1. row'.anchor = anchor' /\ row'.recovery = recovery /\ recovery' \in {recovery, NoRecovery}
    BY <1>4, PersistRow DEF EvaluateDisabled, RecoveryAfter
  <2> QED BY <2>1 DEF RowInv
<1>5. CASE ActivateKillSwitch
  BY <1>1, <1>5, PersistRow DEF ActivateKillSwitch, RowInv
<1>6. CASE Suspend \/ FinishResume
  BY <1>6, PersistRow DEF Suspend, FinishResume, RowInv
<1>7. ASSUME NEW t \in Tokens, RequestOverride(t) \/ OutliveToken(t) \/ ConfirmOverride(t) \/ Resume(t)
      PROVE  RowInv'
  BY <1>1, <1>7 DEF RequestOverride, OutliveToken, ConfirmOverride, Resume, StartWalk
<1>8. CASE ResumeUnlocked \/ WalkStep
  BY <1>1, <1>8 DEF ResumeUnlocked, StartWalk, WalkStep
<1>9. CASE Restart
  BY <1>9 DEF Restart, RestoreRest, RowInv
<1>10. CASE UNCHANGED vars
  BY <1>1, <1>10 DEF vars
<1> QED BY <1>2, <1>3, <1>4, <1>5, <1>6, <1>7, <1>8, <1>9, <1>10 DEF Next

LEMMA RowAlways == ASSUME ~DbMayFail PROVE Spec => []RowInv
<1>1. Init => RowInv
  BY DEF Init, RowInv
<1>2. RowInv /\ [Next]_vars => RowInv'
  BY RowInductive
<1> QED BY <1>1, <1>2, PTL DEF Spec

\* Only an evaluation moves an anchor.
LEMMA AnchorMoves ==
    ASSUME ~DbMayFail, RowInv, [Next]_vars
    PROVE  anchor' = anchor \/ (anchor' = RollAnchors /\ now' = now)
<1> USE DEF market, latch
<1>1. CASE Evaluate \/ EvaluateDisabled
  BY <1>1 DEF Evaluate, EvaluateDisabled
<1>2. CASE Restart
  BY <1>2 DEF Restart, RestoreRest, RowInv
<1>3. ASSUME NEW t \in Tokens, RequestOverride(t) \/ OutliveToken(t) \/ ConfirmOverride(t) \/ Resume(t)
      PROVE  anchor' = anchor
  BY <1>3 DEF RequestOverride, OutliveToken, ConfirmOverride, Resume, StartWalk
<1> QED BY <1>1, <1>2, <1>3 DEF Next, vars, Tick, MarketMoves, ReportPositionMismatch, ClearPositionMismatch,
                                ActivateKillSwitch, Suspend, ResumeUnlocked, StartWalk, WalkStep, FinishResume

\* The losses of a day, a week or a month are measured from one anchor to its end: no
\* restart, resume or halt lets them start afresh, and the peak only rises.
THEOREM AnchorsAlwaysStable ==
    ASSUME ~DbMayFail
    PROVE  Spec => AnchorStable
<1>1. TypeOK /\ RowInv /\ [Next]_vars =>
        [\A c \in Ladders :
            anchor[c].key = PeriodKey(c)' =>
                /\ anchor'[c].key = anchor[c].key
                /\ \/ anchor'[c].base = anchor[c].base
                   \/ c = "DRAWDOWN" /\ anchor'[c].base > anchor[c].base]_vars
  <2> SUFFICES ASSUME RowInv, [Next]_vars, NEW c \in Ladders, anchor[c].key = PeriodKey(c)'
               PROVE  /\ anchor'[c].key = anchor[c].key
                      /\ \/ anchor'[c].base = anchor[c].base
                         \/ c = "DRAWDOWN" /\ anchor'[c].base > anchor[c].base
    OBVIOUS
  <2>1. CASE anchor' = anchor
    BY <2>1
  <2>2. CASE anchor' = RollAnchors /\ now' = now
    <3>1. PeriodKey(c)' = PeriodKey(c)
      BY <2>2 DEF PeriodKey, Day
    <3> QED BY <2>2, <3>1 DEF RollAnchors
  <2> QED BY <2>1, <2>2, AnchorMoves
<1> QED BY <1>1, TypeCorrect, RowAlways, PTL DEF Spec, AnchorStable

\* The recovery throttle ends by the day of its last tier or by another resume(): no crash
\* and no restart lifts it.  (The earlier tiers are less than full size.)
THEOREM RecoveryAlwaysOutlastsRestart ==
    ASSUME ~DbMayFail, \A i \in 1..3 : RampSize[i] # 100
    PROVE  Spec => RecoveryOutlastsRestart
<1> DEFINE Earned == now - recovery.start >= RampDays[3] * DayTicks
<1>1. TypeOK /\ RowInv /\ [Next]_vars =>
        [recovery.start # None /\ recovery' # recovery => walking \/ walking' \/ Earned]_vars
  <2> SUFFICES ASSUME TypeOK, RowInv, [Next]_vars, recovery.start # None, recovery' # recovery, ~walking, ~walking'
               PROVE  Earned
    OBVIOUS
  <2>1. CASE recovery' = RecoveryAfter
    <3>1. ~RecoveryHeld /\ RampTier(now - recovery.start) = 100
      BY <2>1 DEF RecoveryAfter, RecoveryMultiplier
    <3>2. now - recovery.start \in Int /\ RampDays[3] * DayTicks \in Nat
      BY RampAssumption, CalendarAssumption DEF TypeOK, RecoveryType, None
    <3> QED BY <3>1, <3>2 DEF RampTier
  <2>2. CASE Restart
    BY <2>2 DEF Restart, RowInv, NoRecovery
  <2>3. recovery' = RecoveryAfter \/ Restart
    <3>1. ASSUME NEW t \in Tokens, RequestOverride(t) \/ OutliveToken(t) \/ ConfirmOverride(t) \/ Resume(t)
          PROVE  recovery' = recovery \/ walking'
      BY <3>1 DEF RequestOverride, OutliveToken, ConfirmOverride, Resume, StartWalk
    <3> QED BY <3>1 DEF Next, vars, Tick, MarketMoves, Evaluate, EvaluateDisabled, ReportPositionMismatch,
                        ClearPositionMismatch, ActivateKillSwitch, Suspend, ResumeUnlocked, StartWalk,
                        WalkStep, FinishResume
  <2> QED BY <2>1, <2>2, <2>3
<1> QED BY <1>1, TypeCorrect, RowAlways, PTL DEF Spec, RecoveryOutlastsRestart
=============================================================================

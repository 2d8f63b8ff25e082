-------------------------- MODULE MCCircuitBreaker --------------------------
(* Instances of CircuitBreaker for TLC: small calendars and equity sets.     *)
EXTENDS CircuitBreaker

\* Thresholds of config.yaml, in basis points.
ConfigThreshold ==
    [DAILY_LOSS   |-> <<-100, -150, -200, -300>>,
     WEEKLY_LOSS  |-> <<-300, -500, -700>>,
     MONTHLY_LOSS |-> <<-500, -800, -1200>>,
     DRAWDOWN     |-> <<-500, -800, -1200, -1500>>]

MCRampDays == <<1, 1, 2>>
MCRampSize == <<25, 50, 75, 100>>
\* No graduated recovery: every tier is full size.
FlatRamp == <<100, 100, 100, 100>>
=============================================================================

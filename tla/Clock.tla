-------------------------------- MODULE Clock --------------------------------
\* The injected clock (now_fn) that the automation, the adapters and the data
\* agent read, in ticks.
EXTENDS Integers

CONSTANT Horizon   \* bound of the clock

ASSUME HorizonAssumption == Horizon \in Nat

VARIABLE now

Tick == now < Horizon /\ now' = now + 1
=============================================================================

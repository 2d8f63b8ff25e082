------------------------------ MODULE HaltLatch ------------------------------
(***************************************************************************)
(* What the circuit breaker promises about stopping, without how it does   *)
(* it.  Trading is open, halted, or in a halt only a human can release.    *)
(* A human release spends one outstanding grant, and nothing at all        *)
(* releases a halt that is sealed.                                         *)
(***************************************************************************)
CONSTANT Grants

VARIABLES mode, sealed, granted

latchVars == <<mode, sealed, granted>>

Modes == {"open", "halted", "human"}
Rank == [m \in Modes |-> CASE m = "open" -> {} [] m = "halted" -> {1}
                           [] m = "human" -> {1, 2}]

LatchTypeOK ==
    /\ mode \in Modes /\ sealed \in BOOLEAN /\ granted \subseteq Grants
    /\ sealed => mode # "open"

LatchInit == mode = "open" /\ sealed = FALSE /\ granted = {}

\* A halt is entered, made worse, or sealed.
Trip ==
    /\ mode' \in {"halted", "human"} /\ Rank[mode] \subseteq Rank[mode']
    /\ sealed' \in BOOLEAN
    /\ UNCHANGED granted

\* A halt nobody latched clears by itself.
Clear ==
    /\ mode = "halted" /\ ~sealed
    /\ mode' = "open" /\ sealed' = FALSE
    /\ UNCHANGED granted

\* A human releases a halt, spending a grant.
Release ==
    /\ mode # "open" /\ ~sealed
    /\ \E g \in granted : granted' = granted \ {g}
    /\ mode' = "open" /\ sealed' = FALSE

Unseal ==
    /\ sealed /\ sealed' = FALSE
    /\ UNCHANGED <<mode, granted>>

Regrant ==
    /\ granted' \in SUBSET Grants
    /\ UNCHANGED <<mode, sealed>>

\* A restart drops every grant and never releases a halt.
Recover ==
    /\ granted' = {}
    /\ mode' \in Modes /\ Rank[mode] \subseteq Rank[mode']
    /\ sealed' = sealed

LatchNext == Trip \/ Clear \/ Release \/ Unseal \/ Regrant \/ Recover

LatchSpec == LatchInit /\ [][LatchNext]_latchVars
=============================================================================

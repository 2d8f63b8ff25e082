-------------------------------- MODULE Desk --------------------------------
(***************************************************************************)
(* The dashboard's kill switch.  Streamlit runs the page from its first    *)
(* line on every click, and every run builds its own breaker manager from  *)
(* the breaker_state row; the override tokens a manager has minted are in  *)
(* its memory only.  The page keeps the token it has asked for in its      *)
(* session state and does not display it: what an operator enters is taken *)
(* from there, at best.                                                    *)
(***************************************************************************)
EXTENDS Clock, TLC

CONSTANTS
    Tokens,      \* the tokens secrets.token_hex() draws
    Ttl,         \* _OVERRIDE_TOKEN_TTL_SECONDS
    NoToken      \* the empty text field

VARIABLES
    control,     \* the manager of the current run: [pending, killed]
    row,         \* the kill switch in the breaker_state row
    session,     \* ks_pending_token of the session state and when it was minted
    outcome      \* what the page last answered

deskVars == <<control, row, session, outcome>>

\* build_control(): a manager restored from the row, and nothing of the run before.
BuildControl == [pending |-> <<>>, killed |-> row]

DeskInit ==
    /\ row = FALSE /\ control = BuildControl
    /\ session = [token |-> NoToken, minted |-> 0] /\ outcome = "none"

\* A run of the page with no button pressed: the refresh timer or a link.
Rerun == control' = BuildControl /\ outcome' = "none" /\ UNCHANGED <<row, session>>

\* "1. Request override token": the run that handles the click mints into its own manager.
RequestKillToken(token) ==
    /\ control' = [BuildControl EXCEPT !.pending = token :> now]
    /\ session' = [token |-> token, minted |-> now]
    /\ outcome' = "minted"
    /\ UNCHANGED row

ConfirmOverride(manager, token) == token \in DOMAIN manager.pending /\ now - manager.pending[token] <= Ttl

\* "2. Engage kill switch", with the token pasted or the field left empty: on a manager
\* that does not know the token nothing happens, otherwise the halt is latched and saved.
EngageKillSwitch(entered) ==
    LET manager == BuildControl
        confirmed == entered # NoToken /\ ConfirmOverride(manager, entered)
    IN /\ control' = [manager EXCEPT !.killed = @ \/ confirmed]
       /\ row' = (row \/ confirmed)
       /\ outcome' = IF confirmed THEN "engaged" ELSE "rejected"
       /\ UNCHANGED session

DeskNext ==
    \/ Rerun
    \/ \E token \in Tokens \ {session.token} : RequestKillToken(token)
    \/ \E entered \in {session.token, NoToken} : EngageKillSwitch(entered)

DeskSpec == now = 0 /\ DeskInit /\ [][(DeskNext /\ UNCHANGED now) \/ (Tick /\ UNCHANGED deskVars)]_<<deskVars, now>>
-----------------------------------------------------------------------------
(* Properties.                                                             *)

\* "Token minted (valid 120s). Re-enter it below to engage.": an attempt with the token
\* that was minted, while it is valid, is not rejected.
TokenEngages ==
    [][EngageKillSwitch(session.token) /\ session.token # NoToken /\ now - session.minted <= Ttl
        => outcome' = "engaged"]_<<deskVars, now>>
=============================================================================

-------------------------------- MODULE Ledger --------------------------------
(***************************************************************************)
(* The paper_trades ledger of data.database, as PaperBroker._apply_position *)
(* writes it for one symbol, and automation.reconcile, which compares it    *)
(* with the positions the broker reports (PaperBrokerAdapter.positions()).  *)
(* These are in the broker's memory and written last; the ledger's          *)
(* statements before that each commit by themselves, and the process may    *)
(* die, or a statement fail, between any two of them.                       *)
(***************************************************************************)
EXTENDS Integers, Sequences, SequencesExt, FiniteSetsExt

CONSTANTS
    Lots,        \* quantities of the fills
    MaxRows,     \* bound of the rows of paper_trades
    MaxShares,   \* bound of the position, either way
    MaxTroubles  \* bound of crashes and failed statements

ASSUME LedgerAssumption ==
    Lots \subseteq Nat \ {0} /\ {MaxRows, MaxShares, MaxTroubles} \subseteq Nat

VARIABLES
    rows,      \* paper_trades: direction (1 BUY, -1 SELL), quantity, open or not
    position,  \* PaperBroker.positions: what the broker holds and reports, signed
    trades,    \* PaperBroker.open_trades, oldest first: row, direction, remaining
    fill,      \* what is left of _apply_position() of the fill in progress
    mismatch,  \* whether the breaker holds a reported position mismatch
    excused,   \* since the last reconciliation: a crash, a failed write or a waiver
    hurt,      \* this process has seen a failed write
    troubles   \* crashes and failed writes so far

ledgerVars == <<rows, position, trades, fill, mismatch, excused, hurt, troubles>>

NoFill == [step |-> "none"]

LedgerInit ==
    /\ rows = <<>> /\ position = 0 /\ trades = <<>> /\ fill = NoFill
    /\ mismatch = FALSE /\ excused = FALSE /\ hurt = FALSE /\ troubles = 0

LedgerIdle == fill = NoFill

\* _fill_order(): an order of a direction and a quantity is filled.
FillArrives(direction, quantity) ==
    /\ LedgerIdle /\ Len(rows) + 2 <= MaxRows
    /\ position + direction * quantity \in -MaxShares..MaxShares
    /\ fill' = [step |-> IF direction * position >= 0 THEN "open" ELSE "close",
                direction |-> direction, quantity |-> quantity, left |-> quantity]
    /\ UNCHANGED <<rows, position, trades, mismatch, excused, hurt, troubles>>

\* insert_paper_trade(), by _open_lot() of a fill to the same side, before the position
\* is written, or of what a fill leaves after its closings, after that.
OpenLot ==
    /\ fill.step \in {"open", "excess"}
    /\ rows' = Append(rows, [direction |-> fill.direction, quantity |-> fill.left, open |-> TRUE])
    /\ trades' = Append(trades, [row |-> Len(rows) + 1, direction |-> fill.direction, remaining |-> fill.left])
    /\ position' = IF fill.step = "open" THEN position + fill.direction * fill.quantity ELSE position
    /\ fill' = NoFill
    /\ UNCHANGED <<mismatch, excused, hurt, troubles>>

\* The quantity of the oldest lot that this fill closes.
ClosingQuantity == Min({fill.left, Head(trades).remaining})

\* Mutant of SplitShrinks: the slice is inserted, the original row keeps its quantity.
SplitKeepsQuantity ==
    /\ fill.step = "close" /\ trades # <<>> /\ ClosingQuantity < Head(trades).remaining
    /\ rows[Head(trades).row].open /\ ClosingQuantity < rows[Head(trades).row].quantity
    /\ fill' = [fill EXCEPT !.step = "slice"]
    /\ UNCHANGED <<rows, position, trades, mismatch, excused, hurt, troubles>>

\* split_paper_trade(), first statement: the original row shrinks.
SplitShrinks ==
    /\ fill.step = "close" /\ trades # <<>> /\ ClosingQuantity < Head(trades).remaining
    /\ LET row == Head(trades).row
       IN /\ rows[row].open /\ ClosingQuantity < rows[row].quantity
          /\ rows' = [rows EXCEPT ![row].quantity = @ - ClosingQuantity]
    /\ fill' = [fill EXCEPT !.step = "slice"]
    /\ UNCHANGED <<position, trades, mismatch, excused, hurt, troubles>>

\* The second: the slice becomes an open row of its own.
SplitInserts ==
    /\ fill.step = "slice"
    /\ rows' = Append(rows, [direction |-> Head(trades).direction, quantity |-> ClosingQuantity, open |-> TRUE])
    /\ fill' = [fill EXCEPT !.step = "close_slice"]
    /\ UNCHANGED <<position, trades, mismatch, excused, hurt, troubles>>

\* What follows the closing of a quantity: more lots, the excess, or the end.
AfterClosing(left, rest) ==
    IF left > 0 /\ rest # <<>>
    THEN fill' = [fill EXCEPT !.step = "close", !.left = left] /\ UNCHANGED position
    ELSE /\ position' = position + fill.direction * fill.quantity
         /\ fill' = IF left > 0 THEN [fill EXCEPT !.step = "excess", !.left = left] ELSE NoFill

\* The lots in memory after a closing: an emptied one is popped.
LotsAfterClosing ==
    IF ClosingQuantity = Head(trades).remaining THEN Tail(trades)
    ELSE [trades EXCEPT ![1].remaining = @ - ClosingQuantity]

\* close_paper_trade() of the slice, or of a whole row, and the lot in memory.
CloseLot ==
    /\ \/ fill.step = "close_slice"
       \/ /\ fill.step = "close" /\ trades # <<>> /\ ClosingQuantity = Head(trades).remaining
          /\ rows[Head(trades).row].open
    /\ LET row == IF fill.step = "close_slice" THEN Len(rows) ELSE Head(trades).row
       IN /\ rows' = [rows EXCEPT ![row].open = FALSE]
          /\ trades' = LotsAfterClosing
          /\ AfterClosing(fill.left - ClosingQuantity, LotsAfterClosing)
    /\ UNCHANGED <<mismatch, excused, hurt, troubles>>

\* No lot to close although the position is opposite (a failed write before).
NoLotToClose ==
    /\ fill.step = "close" /\ trades = <<>>
    /\ AfterClosing(fill.left, trades)
    /\ UNCHANGED <<rows, trades, mismatch, excused, hurt, troubles>>

\* A statement fails (DatabaseError), and so does a split or a close of a row that an
\* earlier failure has shortened (RuntimeError): the fill is abandoned half recorded.
WriteFails ==
    /\ fill # NoFill /\ troubles < MaxTroubles
    /\ fill' = NoFill /\ excused' = TRUE /\ hurt' = TRUE /\ troubles' = troubles + 1
    /\ UNCHANGED <<rows, position, trades, mismatch>>

RowRefuses ==
    /\ fill.step = "close" /\ trades # <<>>
    /\ LET row == rows[Head(trades).row]
       IN ~row.open \/ (ClosingQuantity < Head(trades).remaining /\ ClosingQuantity >= row.quantity)
    /\ fill' = NoFill /\ excused' = TRUE /\ hurt' = TRUE
    /\ UNCHANGED <<rows, position, trades, mismatch, troubles>>

\* The process dies and starts again: lots, position and reported mismatches were in
\* memory, only the rows stay.
LedgerRestart ==
    /\ troubles < MaxTroubles
    /\ position' = 0 /\ trades' = <<>> /\ fill' = NoFill /\ mismatch' = FALSE
    /\ excused' = TRUE /\ hurt' = FALSE /\ troubles' = troubles + 1
    /\ UNCHANGED rows

DbPositions ==
    FoldLeft(LAMBDA net, row : IF row.open THEN net + row.direction * row.quantity ELSE net, 0, rows)

\* reconcile_positions(): a match leaves an earlier report in place.
ReconcilePositions ==
    /\ LedgerIdle
    /\ mismatch' = (mismatch \/ DbPositions # position) /\ excused' = FALSE
    /\ UNCHANGED <<rows, position, trades, fill, hurt, troubles>>

\* clear_position_mismatch(): it asks for no new comparison.
ClearPositionMismatch ==
    /\ mismatch /\ mismatch' = FALSE /\ excused' = TRUE
    /\ UNCHANGED <<rows, position, trades, fill, hurt, troubles>>

LedgerNext ==
    \/ \E direction \in {1, -1}, quantity \in Lots : FillArrives(direction, quantity)
    \/ OpenLot \/ SplitShrinks \/ SplitInserts \/ CloseLot \/ NoLotToClose
    \/ WriteFails \/ RowRefuses \/ LedgerRestart \/ ReconcilePositions \/ ClearPositionMismatch

LedgerSpec == LedgerInit /\ [][LedgerNext]_ledgerVars
-----------------------------------------------------------------------------
(* Properties.                                                             *)

LedgerTypeOK ==
    /\ \A i \in DOMAIN rows : rows[i] \in [direction : {1, -1}, quantity : Nat, open : BOOLEAN]
    /\ position \in Int /\ troubles \in 0..MaxTroubles
    /\ \A i \in DOMAIN trades : trades[i].row \in DOMAIN rows /\ trades[i].remaining > 0
    /\ {mismatch, excused, hurt} \subseteq BOOLEAN

\* "any divergence ... halts new entries until a human clears the mismatch": shares that
\* the ledger shows and the broker does not hold, or the other way round, because the
\* process died between two statements of a fill or with positions only it knew of, are
\* never forgotten.  Between fills the ledger shows the broker's position, or the
\* difference is reported, or there was a restart (or a waiver) that the next
\* reconciliation will look at.  A process that lives on after a failed write is not
\* covered: its lots are no longer its rows, and a ledger that has matched may stop
\* to match at any later fill.
DriftIsReported == LedgerIdle /\ ~hurt /\ DbPositions # position => mismatch \/ excused

\* As long as no write has failed, what the broker holds in memory and what the ledger
\* will close for it are the same rows with the same quantities, through every split.
LotsFollowRows ==
    LedgerIdle /\ ~hurt =>
        \A i \in DOMAIN trades :
            /\ rows[trades[i].row].open /\ rows[trades[i].row].quantity = trades[i].remaining
            /\ trades[i].direction * position > 0
=============================================================================

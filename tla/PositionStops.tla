---------------------------- MODULE PositionStops ----------------------------
(***************************************************************************)
(* Layer 1 of the breakers, evaluate_position(): what is asked for one     *)
(* open position, review after review, when every answer is carried out    *)
(* before the market moves again.  Prices are in hundredths of the entry.  *)
(***************************************************************************)
EXTENDS Integers

CONSTANTS
    HardStop, AtrMultiple, MaxLoss, TimeStop,   \* the risk section of the configuration
    Equity,         \* of the portfolio
    OpenSizes,      \* what a position is opened with
    Atrs,           \* the average true range when the position is opened, 0 when unknown
    MaxMove,        \* BOUND on how far the market moves between two reviews
    Span,           \* BOUND on how far it ever gets from the entry
    MaxDays         \* BOUND on how long a position is held

ASSUME StopsAssumption ==
    /\ {HardStop, AtrMultiple, MaxLoss, TimeStop, Equity, MaxMove} \subseteq Nat \ {0} /\ MaxDays \in Nat
    /\ OpenSizes \subseteq Nat /\ Atrs \subseteq Nat /\ Span \in 1..99

VARIABLES
    position,   \* side, size, price and days_open
    atr,
    judged,     \* the last review had a price
    reviewed    \* there was a review since the market last moved

stopVars == <<position, atr, judged, reviewed>>

Entry == 100
SideSign(p) == IF p.side = "long" THEN 1 ELSE -1
\* In hundredths of the entry for each share, and for the whole position.
LossPerShare(p) == SideSign(p) * (Entry - p.price)
UnrealizedLoss(p) == p.size * LossPerShare(p)

StopsInit ==
    /\ position \in [side : {"long", "short"}, size : OpenSizes, price : {Entry}, days : {0}]
    /\ atr \in Atrs
    /\ judged = TRUE /\ reviewed = TRUE

\* Mutant of HardBreached: the comparison of a long position, used for both sides.
HardBreachedFromAbove(p) == Entry - p.price >= HardStop

HardBreached(p) == LossPerShare(p) >= HardStop

AtrBreached(p) == atr > 0 /\ LossPerShare(p) >= AtrMultiple * atr
LossCapped(p) == 100 * UnrealizedLoss(p) >= MaxLoss * Equity
OverTime(p) == p.days >= TimeStop

Stopped(p) == HardBreached(p) \/ AtrBreached(p)
Count(due) == IF due THEN 1 ELSE 0

\* What the review asks for.  A full exit by a stop is the whole answer; the other
\* checks add up, and none of them asks what the position has earned.
Protection(p, spike) ==
    IF p.price <= 0 THEN [closes |-> 0, halves |-> 0]
    ELSE IF Stopped(p) THEN [closes |-> 1, halves |-> 0]
    ELSE [closes |-> Count(LossCapped(p)) + Count(OverTime(p)), halves |-> Count(spike)]

\* What the answers leave of a position, each a fraction of what the review saw.
Left(size, asked) == size - asked.closes * size - asked.halves * (size - size \div 2)

\* The loop asks with the last price, or with none, and carries the answers out;
\* a reduction finds nothing left to reduce once the position is closed.
Review ==
    /\ position.size > 0
    /\ \E quoted, spike \in BOOLEAN :
         LET seen == IF quoted THEN position ELSE [position EXCEPT !.price = 0]
             rest == Left(position.size, Protection(seen, spike))
         IN  /\ position' = [position EXCEPT !.size = IF rest > 0 THEN rest ELSE 0]
             /\ judged' = quoted
    /\ reviewed' = TRUE /\ UNCHANGED atr

MarketMoves ==
    /\ reviewed /\ position.size > 0
    /\ \E price \in Entry - Span .. Entry + Span :
         /\ price - position.price \in -MaxMove..MaxMove
         /\ position' = [position EXCEPT !.price = price]
    /\ reviewed' = FALSE /\ UNCHANGED <<atr, judged>>

DayPasses ==
    /\ position.size > 0 /\ position.days < MaxDays
    /\ position' = [position EXCEPT !.days = @ + 1]
    /\ UNCHANGED <<atr, judged, reviewed>>

StopsNext == Review \/ MarketMoves \/ DayPasses

StopsSpec == StopsInit /\ [][StopsNext]_stopVars
-----------------------------------------------------------------------------
(* Properties.                                                             *)

Room == IF reviewed THEN 0 ELSE MaxMove

\* evaluate_position(): while the feed has a price, a position that is kept, long or
\* short, reduced or whole, is under water by less than its hard stop, its ATR stop
\* and the cap on the loss of a trade, and by at most one move more between two
\* reviews, whatever the days and the volatility asked for beside them.
LossIsCut ==
    position.size > 0 /\ judged =>
        /\ LossPerShare(position) < HardStop + Room
        /\ atr > 0 => LossPerShare(position) < AtrMultiple * atr + Room
        /\ 100 * UnrealizedLoss(position) < MaxLoss * Equity + 100 * position.size * Room

\* "time stop: no progress after N days" (circuit_breakers.py, the comment of check 5):
\* a position that has earned something is not closed for its age.
TimeStopSparesWinners ==
    [][LossPerShare(position) < 0 => position'.size # 0]_stopVars

\* The answers to one review never ask for more than there is: a loss cap, a spike and
\* a time stop can be due at once.
NeverMoreThanHeld ==
    [][position.size > 0 =>
        \A spike \in BOOLEAN : Left(position.size, Protection(position, spike)) >= 0]_stopVars
=============================================================================

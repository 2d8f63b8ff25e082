-------------------------- MODULE Decisions_proofs --------------------------
(***************************************************************************)
(* Theorems about what decides before the loop acts and what keeps it: the *)
(* stops of one position, the configuration and its live gate, the walk-   *)
(* forward folds, the permission slip, the database and the calendar, for  *)
(* any market, any files and environment, any observations, folds and      *)
(* models, any book and triggers, any threads, processes and writes, any   *)
(* years.                                                                  *)
(***************************************************************************)
EXTENDS PositionStops, Configuration, WalkForward, TradingPolicy, Database, Calendar, Lemmas,
        FiniteSetTheorems, TLAPS

-----------------------------------------------------------------------------
(* The protection of one position.                                         *)

PositionType ==
    [side : {"long", "short"}, size : Nat, price : 1..199, days : Nat]

StopsInv ==
    /\ position \in PositionType /\ atr \in Nat
    /\ judged \in BOOLEAN /\ reviewed \in BOOLEAN
    /\ LossIsCut

\* The two products the cap on a loss and the ATR stop compare with.
LEMMA Positive == ASSUME NEW m \in Nat, NEW n \in Nat, m > 0, n > 0 PROVE m * n \in Nat /\ m * n > 0
  OBVIOUS

\* A smaller position in the same place loses no more than a cap that the larger one kept.
LEMMA SmallerLosesLess ==
    ASSUME NEW small \in Nat, NEW large \in Nat, small <= large, NEW loss \in Int,
           NEW cap \in Nat, cap > 0, 100 * (large * loss) < cap
    PROVE  100 * (small * loss) < cap
<1>1. CASE loss <= 0
  <2>1. small * loss <= 0
    BY <1>1
  <2>2. small * loss \in Int
    OBVIOUS
  <2> QED BY <2>1, <2>2
<1>2. CASE loss > 0
  <2>1. small * loss <= large * loss /\ small * loss \in Int /\ large * loss \in Int
    BY <1>2
  <2> QED BY <2>1
<1> QED BY <1>1, <1>2

\* A move of the market adds at most that much for every share.
LEMMA MoveAdds ==
    ASSUME NEW size \in Nat, NEW loss \in Int, NEW more \in Int, NEW move \in Nat, more <= loss + move,
           NEW cap \in Nat, 100 * (size * loss) < cap
    PROVE  100 * (size * more) < cap + 100 * size * move
<1>1. size * more <= size * (loss + move) /\ size * more \in Int
  OBVIOUS
<1>2. size * (loss + move) = size * loss + size * move /\ size * loss \in Int /\ size * move \in Int
  OBVIOUS
<1>3. 100 * size * move = 100 * (size * move)
  OBVIOUS
<1> QED BY <1>1, <1>2, <1>3

LEMMA LossType ==
    ASSUME NEW p \in PositionType
    PROVE  LossPerShare(p) \in Int /\ UnrealizedLoss(p) = p.size * LossPerShare(p) /\ p.size \in Nat
           /\ UnrealizedLoss(p) \in Int
  BY DEF PositionType, LossPerShare, UnrealizedLoss, SideSign, Entry

LEMMA Caps == HardStop \in Nat /\ AtrMultiple \in Nat /\ MaxMove \in Nat /\ HardStop > 0 /\ AtrMultiple > 0
              /\ MaxLoss * Equity \in Nat /\ MaxLoss * Equity > 0
<1>1. {HardStop, AtrMultiple, MaxLoss, TimeStop, Equity, MaxMove} \subseteq Nat \ {0}
  BY StopsAssumption DEF StopsAssumption
<1>2. MaxLoss \in Nat /\ Equity \in Nat /\ MaxLoss > 0 /\ Equity > 0
  BY <1>1
<1> QED BY <1>1, <1>2, Positive

LEMMA StopsInitFacts == ASSUME StopsInit PROVE StopsInv
<1> USE Caps
<1>1. position \in PositionType /\ position.price = Entry /\ atr \in Nat /\ judged = TRUE /\ reviewed = TRUE
  <2>1. OpenSizes \subseteq Nat /\ Atrs \subseteq Nat
    BY StopsAssumption DEF StopsAssumption
  <2>2. position \in [side : {"long", "short"}, size : OpenSizes, price : {Entry}, days : {0}] /\ atr \in Atrs
        /\ judged = TRUE /\ reviewed = TRUE
    BY DEF StopsInit
  <2>4. position.side \in {"long", "short"} /\ position.size \in Nat /\ position.price = 100 /\ position.days = 0
    BY <2>1, <2>2 DEF Entry
  <2>5. position = [side |-> position.side, size |-> position.size, price |-> position.price, days |-> position.days]
    BY <2>2
  <2>6. position \in PositionType
    BY <2>4, <2>5 DEF PositionType
  <2>3. position \in PositionType /\ position.price = Entry
    BY <2>4, <2>6 DEF Entry
  <2> QED BY <2>1, <2>2, <2>3
<1>2. LossPerShare(position) = 0
  BY <1>1 DEF LossPerShare, SideSign, Entry
<1>3. position.size \in Nat /\ UnrealizedLoss(position) = 0
  BY <1>1, <1>2 DEF UnrealizedLoss, PositionType
<1>4. Room = 0
  BY <1>1 DEF Room
<1>5. atr > 0 => AtrMultiple * atr \in Nat /\ AtrMultiple * atr > 0
  BY <1>1, Positive
<1>6. 100 * position.size * Room = 0
  BY <1>3, <1>4
<1>7. 100 * UnrealizedLoss(position) = 0
  BY <1>3
<1>8. LossIsCut
  BY <1>2, <1>4, <1>5, <1>6, <1>7 DEF LossIsCut
<1> QED BY <1>1, <1>8 DEF StopsInv

\* What a review with a price leaves is less than nothing, or kept by every check that
\* would have closed it.
LEMMA KeptFacts ==
    ASSUME NEW p \in PositionType, atr \in Nat, NEW spike \in BOOLEAN, Left(p.size, Protection(p, spike)) > 0
    PROVE  /\ ~HardBreached(p) /\ ~AtrBreached(p) /\ ~LossCapped(p)
           /\ Left(p.size, Protection(p, spike)) \in Nat
           /\ Left(p.size, Protection(p, spike)) <= p.size
<1>1. ~(p.price <= 0) /\ p.size \in Nat
  BY DEF PositionType
<1>2. p.size \div 2 \in Nat /\ p.size \div 2 <= p.size
  BY <1>1
<1>3. ~Stopped(p)
  <2> SUFFICES ASSUME Stopped(p) PROVE FALSE
    OBVIOUS
  <2>1. Protection(p, spike) = [closes |-> 1, halves |-> 0]
    BY <1>1, Zenon DEF Protection
  <2> QED BY <1>1, <1>2, <2>1 DEF Left
<1>4. Protection(p, spike) = [closes |-> Count(LossCapped(p)) + Count(OverTime(p)), halves |-> Count(spike)]
  BY <1>1, <1>3, Zenon DEF Protection
<1>5. Count(LossCapped(p)) \in {0, 1} /\ Count(OverTime(p)) \in {0, 1} /\ Count(spike) \in {0, 1}
  BY DEF Count
<1> DEFINE closes == Count(LossCapped(p)) + Count(OverTime(p))
           halves == Count(spike)
<1>6. Left(p.size, Protection(p, spike)) = p.size - closes * p.size - halves * (p.size - p.size \div 2)
  BY <1>4 DEF Left
<1>7. closes \in {0, 1, 2} /\ halves \in {0, 1}
  BY <1>5
<1> HIDE DEF closes, halves
<1>8. closes = 0
  <2>1. CASE closes = 1
    BY <1>1, <1>2, <1>6, <1>7, <2>1
  <2>2. CASE closes = 2
    BY <1>1, <1>2, <1>6, <1>7, <2>2
  <2> QED BY <1>7, <2>1, <2>2
<1>9. ~LossCapped(p)
  BY <1>5, <1>8 DEF closes, Count
<1>10. Left(p.size, Protection(p, spike)) \in Nat /\ Left(p.size, Protection(p, spike)) <= p.size
  BY <1>1, <1>2, <1>6, <1>7, <1>8
<1> QED BY <1>3, <1>9, <1>10 DEF Stopped

LEMMA ReviewKeeps == ASSUME StopsInv, Review PROVE StopsInv'
<1> USE Caps
<1>1. PICK quoted \in BOOLEAN, spike \in BOOLEAN :
        LET seen == IF quoted THEN position ELSE [position EXCEPT !.price = 0]
            rest == Left(position.size, Protection(seen, spike))
        IN  position' = [position EXCEPT !.size = IF rest > 0 THEN rest ELSE 0] /\ judged' = quoted
  BY DEF Review
<1>2. position \in PositionType /\ atr \in Nat /\ atr' = atr /\ reviewed' = TRUE /\ judged' = quoted
  BY <1>1 DEF StopsInv, Review
<1>3. CASE ~quoted
  <2> DEFINE seen == [position EXCEPT !.price = 0]
  <2>1. seen.price <= 0
    BY <1>2 DEF PositionType
  <2>2. Protection(seen, spike) = [closes |-> 0, halves |-> 0]
    BY <2>1 DEF Protection
  <2>3. position.size \in Nat /\ Left(position.size, Protection(seen, spike)) = position.size
    BY <1>2, <2>2 DEF Left, PositionType
  <2>4. position' = [position EXCEPT !.size = IF position.size > 0 THEN position.size ELSE 0]
    BY <1>1, <1>3, <2>3
  <2>5. position' \in PositionType
    BY <1>2, <2>3, <2>4 DEF PositionType
  <2>6. LossIsCut'
    BY <1>2, <1>3 DEF LossIsCut
  <2> QED BY <1>2, <2>5, <2>6 DEF StopsInv
<1>4. CASE quoted
  <2> DEFINE rest == Left(position.size, Protection(position, spike))
             size == IF rest > 0 THEN rest ELSE 0
  <2>1. position' = [position EXCEPT !.size = size]
    BY <1>1, <1>4
  <2>2. size # 0 => /\ ~HardBreached(position) /\ ~AtrBreached(position) /\ ~LossCapped(position)
                    /\ size \in Nat /\ size <= position.size
    BY <1>2, KeptFacts
  <2> HIDE DEF size
  <2>3. size \in Nat
    BY <2>2
  <2>4. position' \in PositionType /\ position'.size = size
        /\ LossPerShare(position') = LossPerShare(position)
    BY <1>2, <2>1, <2>3 DEF PositionType, LossPerShare, SideSign, Entry
  <2>5. Room' = 0
    BY <1>2 DEF Room
  <2>6. ASSUME size > 0 PROVE LossIsCut'
    <3>1. ~HardBreached(position) /\ ~AtrBreached(position) /\ ~LossCapped(position) /\ size <= position.size
      BY <2>2, <2>6
    <3>2. LossPerShare(position) \in Int /\ position.size \in Nat
          /\ UnrealizedLoss(position) = position.size * LossPerShare(position) /\ UnrealizedLoss(position) \in Int
      BY <1>2, LossType
    <3>3. LossPerShare(position') < HardStop + Room'
      BY <2>4, <2>5, <3>1, <3>2 DEF HardBreached
    <3>4. AtrMultiple * atr \in Nat
      BY <1>2
    <3>5. atr > 0 => LossPerShare(position') < AtrMultiple * atr + Room'
      BY <2>4, <2>5, <3>1, <3>2, <3>4 DEF AtrBreached
    <3>6. 100 * (position.size * LossPerShare(position)) < MaxLoss * Equity
      BY <3>1, <3>2 DEF LossCapped
    <3>7. 100 * (size * LossPerShare(position)) < MaxLoss * Equity
      BY <2>3, <3>1, <3>2, <3>6, SmallerLosesLess
    <3>8. UnrealizedLoss(position') = size * LossPerShare(position)
      BY <2>4 DEF UnrealizedLoss
    <3>9. 100 * size * Room' = 0
      BY <2>3, <2>5
    <3>10. 100 * UnrealizedLoss(position') < MaxLoss * Equity + 100 * position'.size * Room'
      BY <2>4, <3>7, <3>8, <3>9
    <3> QED BY <1>2, <3>3, <3>5, <3>10 DEF LossIsCut
  <2>7. ASSUME ~(size > 0) PROVE LossIsCut'
    <3>1. ~(position.size > 0 /\ judged)'
      BY <2>4, <2>7
    <3> QED BY <3>1, Zenon DEF LossIsCut
  <2> QED BY <1>2, <2>4, <2>6, <2>7 DEF StopsInv
<1> QED BY <1>3, <1>4

LEMMA MoveKeeps == ASSUME StopsInv, MarketMoves PROVE StopsInv'
<1> USE Caps
<1>1. PICK price \in Entry - Span .. Entry + Span :
        price - position.price \in -MaxMove..MaxMove /\ position' = [position EXCEPT !.price = price]
  BY DEF MarketMoves
<1>2. /\ position \in PositionType /\ atr \in Nat /\ position.size > 0 /\ reviewed = TRUE
      /\ atr' = atr /\ judged' = judged /\ reviewed' = FALSE /\ judged \in BOOLEAN
  BY DEF StopsInv, MarketMoves
<1>3. price \in 1..199
  <2>1. Span \in 1..99
    BY StopsAssumption DEF StopsAssumption
  <2> QED BY <1>1, <2>1 DEF Entry
<1>4. /\ position' \in PositionType /\ position'.size = position.size
      /\ LossPerShare(position') <= LossPerShare(position) + MaxMove
  BY <1>1, <1>2, <1>3 DEF PositionType, LossPerShare, SideSign, Entry
<1>5. Room = 0 /\ Room' = MaxMove
  BY <1>2 DEF Room
<1>6. LossPerShare(position) \in Int /\ LossPerShare(position') \in Int /\ position.size \in Nat
      /\ UnrealizedLoss(position) = position.size * LossPerShare(position)
      /\ UnrealizedLoss(position') = position.size * LossPerShare(position')
  BY <1>2, <1>4, LossType
<1>7. ASSUME judged PROVE LossIsCut'
  <2>1. /\ LossPerShare(position) < HardStop
        /\ atr > 0 => LossPerShare(position) < AtrMultiple * atr
        /\ 100 * UnrealizedLoss(position) < MaxLoss * Equity
    <3>1. 100 * position.size * Room = 0 /\ AtrMultiple * atr \in Nat
      BY <1>2, <1>5, <1>6
    <3>2. /\ LossPerShare(position) < HardStop + Room
          /\ atr > 0 => LossPerShare(position) < AtrMultiple * atr + Room
          /\ 100 * UnrealizedLoss(position) < MaxLoss * Equity + 100 * position.size * Room
      BY <1>2, <1>7 DEF StopsInv, LossIsCut
    <3> QED BY <1>5, <3>1, <3>2
  <2>2. AtrMultiple * atr \in Nat
    BY <1>2
  <2>3. LossPerShare(position') < HardStop + MaxMove
        /\ (atr > 0 => LossPerShare(position') < AtrMultiple * atr + MaxMove)
    BY <1>4, <1>6, <2>1, <2>2
  <2>4. 100 * (position.size * LossPerShare(position')) < MaxLoss * Equity + 100 * position.size * MaxMove
    BY <1>4, <1>6, <2>1, MoveAdds
  <2>5. 100 * UnrealizedLoss(position') < MaxLoss * Equity + 100 * position'.size * MaxMove
    BY <1>4, <1>6, <2>4
  <2> QED BY <1>2, <1>5, <2>3, <2>5 DEF LossIsCut
<1>8. ASSUME ~judged PROVE LossIsCut'
  <2>1. ~judged'
    BY <1>2, <1>8, Zenon
  <2> QED BY <2>1, Zenon DEF LossIsCut
<1>9. LossIsCut'
  BY <1>7, <1>8, Zenon
<1> QED BY <1>2, <1>4, <1>9 DEF StopsInv

LEMMA DayKeeps == ASSUME StopsInv, DayPasses PROVE StopsInv'
<1>1. /\ position \in PositionType /\ position' = [position EXCEPT !.days = @ + 1]
      /\ atr' = atr /\ judged' = judged /\ reviewed' = reviewed
  BY DEF StopsInv, DayPasses
<1>2. position' \in PositionType /\ position'.size = position.size
      /\ LossPerShare(position') = LossPerShare(position)
  BY <1>1 DEF PositionType, LossPerShare, SideSign
<1>3. UnrealizedLoss(position') = UnrealizedLoss(position)
  BY <1>2 DEF UnrealizedLoss
<1>4. Room' = Room
  BY <1>1 DEF Room
<1>5. LossIsCut'
  BY <1>1, <1>2, <1>3, <1>4 DEF StopsInv, LossIsCut
<1> QED BY <1>1, <1>2, <1>5 DEF StopsInv

\* A position that is kept has lost less than its stops and its cap allow, and one move of
\* the market more between two reviews: for every side, size, age, volatility and price.
THEOREM LossIsAlwaysCut == StopsSpec => []LossIsCut
<1>1. StopsInit => StopsInv
  BY StopsInitFacts
<1>2. StopsInv /\ [StopsNext]_stopVars => StopsInv'
  <2> SUFFICES ASSUME StopsInv, [StopsNext]_stopVars PROVE StopsInv'
    OBVIOUS
  <2>1. CASE UNCHANGED stopVars
    BY <2>1 DEF stopVars, StopsInv, LossIsCut, Room
  <2> QED BY <2>1, ReviewKeeps, MoveKeeps, DayKeeps DEF StopsNext
<1>3. StopsInv => LossIsCut
  BY DEF StopsInv
<1> QED BY <1>1, <1>2, <1>3, PTL DEF StopsSpec

-----------------------------------------------------------------------------
(* The configuration and its live gate.                                    *)

\* The ladders with their levels, one of the breakers at a time.
Rungs == [daily_loss |-> 4, weekly_loss |-> 3, monthly_loss |-> 3, drawdown |-> 4, market_crash |-> 3]
Laddered(cfg) == \A ladder \in LossLadders : DOMAIN cfg[ladder] = 1 .. Rungs[ladder]
InUse(cfg) == BreakersValid(cfg) /\ RecoveryValid(cfg) /\ Laddered(cfg)

\* What is in use has been validated, against the environment of its process.
ConfigInv == cached # NoConfig => InUse(cached)

LEMMA RungFacts ==
    /\ Rungs["daily_loss"] = 4 /\ Rungs["weekly_loss"] = 3 /\ Rungs["monthly_loss"] = 3
    /\ Rungs["drawdown"] = 4 /\ Rungs["market_crash"] = 3
BY DEF Rungs

\* A section has the keys of its defaults, whatever stands in the file.
LEMMA BuiltLadders == ASSUME NEW given PROVE Laddered(BuildRoot(given))
<1>1. ASSUME NEW ladder \in LossLadders PROVE /\ ladder \in DOMAIN Defaults /\ ladder # "alpaca"
                                              /\ DOMAIN Defaults[ladder] = 1 .. Rungs[ladder]
  <2>1. /\ {"daily_loss", "weekly_loss", "monthly_loss", "drawdown", "market_crash"} \subseteq DOMAIN Defaults
        /\ "alpaca" \notin LossLadders
    BY DEF Defaults, LossLadders
  <2>2. /\ DOMAIN Defaults["daily_loss"] = 1 .. 4 /\ DOMAIN Defaults["weekly_loss"] = 1 .. 3
        /\ DOMAIN Defaults["monthly_loss"] = 1 .. 3
    BY DEF Defaults
  <2>3. DOMAIN Defaults["drawdown"] = 1 .. 4 /\ DOMAIN Defaults["market_crash"] = 1 .. 3
    BY DEF Defaults
  <2> QED BY <2>1, <2>2, <2>3, RungFacts DEF LossLadders
<1>2. ASSUME NEW ladder \in LossLadders PROVE DOMAIN Section(ladder, given) = DOMAIN Defaults[ladder]
  <2>1. Section(ladder, given) = Defaults[ladder]
        \/ Section(ladder, given) = [k \in DOMAIN Defaults[ladder] |->
             IF k \in DOMAIN given[ladder] THEN Substituted(given[ladder][k]) ELSE Defaults[ladder][k]]
    BY DEF Section
  <2> QED BY <2>1
<1>3. ASSUME NEW ladder \in LossLadders PROVE BuildRoot(given)[ladder] = Section(ladder, given)
  BY <1>1 DEF BuildRoot
<1> QED BY <1>1, <1>2, <1>3 DEF Laddered

LEMMA LoadedInUse == Loads => InUse(Loaded)
BY BuiltLadders DEF Loads, Loaded, Validate, InUse

LEMMA ConfigStepFacts == ASSUME ConfigInv, [ConfigNext]_configVars PROVE ConfigInv'
<1>1. ASSUME cached' = cached \/ cached' = NoConfig PROVE ConfigInv'
  BY <1>1 DEF ConfigInv
<1>2. ASSUME NEW reload \in BOOLEAN, GetConfig(reload) PROVE ConfigInv'
  <2>1. cached' = Loaded /\ Loads
    BY <1>2 DEF GetConfig
  <2> QED BY <2>1, LoadedInUse DEF ConfigInv
<1>3. CASE EditFile \/ NewProcess \/ UNCHANGED configVars
  BY <1>1, <1>3 DEF EditFile, NewProcess, configVars
<1>4. ASSUME NEW cfg, NEW endpoint, NEW evidence, ConstructAdapter(cfg, endpoint, evidence) PROVE ConfigInv'
  BY <1>1, <1>4 DEF ConstructAdapter
<1>5. ASSUME NEW cfg, NEW evidence, BuildBroker(cfg, evidence) PROVE ConfigInv'
  BY <1>4, <1>5 DEF BuildBroker
<1> QED BY <1>2, <1>3, <1>4, <1>5 DEF ConfigNext

LEMMA ConfigAlways == ConfigSpec => []ConfigInv
<1>1. ConfigInit => ConfigInv
  BY DEF ConfigInit, ConfigInv
<1>2. ConfigInv /\ [ConfigNext]_configVars => ConfigInv'
  BY ConfigStepFacts
<1> QED BY <1>1, <1>2, PTL DEF ConfigSpec

\* Levels that fall from each to the next fall from each to every later one.
LEMMA LevelsFall ==
    ASSUME NEW n \in Nat, NEW levels, DOMAIN levels = 1 .. n, Descending(levels)
    PROVE  /\ \A i \in 1 .. n : levels[i] \in Int
           /\ \A i, j \in 1 .. n : i < j => levels[j] < levels[i]
<1>1. /\ \A i \in 1 .. n : levels[i] \in Int
      /\ \A i \in 1 .. n : i + 1 \in 1 .. n => levels[i + 1] < levels[i]
  <2>1. \A i \in DOMAIN levels : levels[i] \in -999 .. -1
    BY Zenon DEF Descending
  <2>2. \A i \in DOMAIN levels : i + 1 \in DOMAIN levels => levels[i] > levels[i + 1]
    BY Zenon DEF Descending
  <2>3. \A x \in -999 .. -1 : x \in Int
    OBVIOUS
  <2>4. ASSUME NEW i \in 1 .. n PROVE levels[i] \in Int
    <3>1. i \in DOMAIN levels
      OBVIOUS
    <3>2. levels[i] \in -999 .. -1
      BY <2>1, <3>1, Zenon
    <3> QED BY <2>3, <3>2, Zenon
  <2>5. \A i \in 1 .. n : i + 1 \in 1 .. n => levels[i] > levels[i + 1]
    BY <2>2, Zenon
  <2> QED BY <2>4, <2>5
<1>2. ASSUME NEW i \in 1 .. n, NEW j \in 1 .. n, i < j, ~(levels[j] < levels[i]) PROVE FALSE
  <2> DEFINE wrong == {k \in 1 .. n : i < k /\ ~(levels[k] < levels[i])}
  <2>1. wrong \in SUBSET Nat /\ wrong # {}
    BY <1>2
  <2> HIDE DEF wrong
  <2>2. PICK k \in wrong : \A m \in wrong : k <= m
    BY <2>1, LeastElement
  <2>3. k \in 1 .. n /\ i < k /\ ~(levels[k] < levels[i])
    BY DEF wrong
  <2>4. k - 1 \in 1 .. n /\ (k - 1) + 1 = k
    BY <2>3
  <2>5. k - 1 = i \/ levels[k - 1] < levels[i]
    <3>1. k - 1 \notin wrong
      BY <2>2, <2>3
    <3> QED BY <2>3, <2>4, <3>1 DEF wrong
  <2>6. levels[k] < levels[k - 1]
    BY <1>1, <2>3, <2>4
  <2>7. levels[k] \in Int /\ levels[k - 1] \in Int /\ levels[i] \in Int
    BY <1>1, <2>3, <2>4
  <2> QED BY <2>3, <2>5, <2>6, <2>7
<1> QED BY <1>1, <1>2

\* The loss that just reaches a level is that level's.
LEMMA OwnLevel ==
    ASSUME NEW n \in Nat, NEW levels, DOMAIN levels = 1 .. n, Descending(levels), NEW i \in 1 .. n
    PROVE  LevelFor(levels[i], levels) = i
<1>1. /\ \A j \in 1 .. n : levels[j] \in Int
      /\ \A j, k \in 1 .. n : j < k => levels[k] < levels[j]
  BY LevelsFall
<1> DEFINE Deepest(k) == levels[i] <= levels[k] /\ \A j \in 1 .. n : levels[i] <= levels[j] => j <= k
<1>2. Deepest(i)
  BY <1>1
<1>3. ASSUME NEW k \in 1 .. n, Deepest(k) PROVE k = i
  <2>1. i <= k
    BY <1>1, <1>3
  <2>2. ~(i < k)
    BY <1>1, <1>3
  <2> QED BY <2>1, <2>2
<1>4. LevelFor(levels[i], levels) = CHOOSE k \in 1 .. n : Deepest(k)
  BY <1>1 DEF LevelFor
<1> HIDE DEF Deepest
<1> QED BY <1>2, <1>3, <1>4

\* "misconfiguration fails at startup, not mid-trading": whatever config.yaml holds, and
\* also after a reload that failed, in the configuration the process goes by every level
\* of every loss ladder is the level of some loss, and the recovery takes back no size.
THEOREM NeverADeadRung == ConfigSpec => []NoDeadRung
<1>1. ASSUME ConfigInv PROVE NoDeadRung
  <2> SUFFICES ASSUME cached # NoConfig
               PROVE  /\ \A ladder \in LossLadders : \A i \in DOMAIN cached[ladder] :
                           \E j \in DOMAIN cached[ladder] : LevelFor(cached[ladder][j], cached[ladder]) = i
                      /\ \A i, j \in 1 .. 4 : i < j => cached["recovery"][i] <= cached["recovery"][j]
    BY DEF NoDeadRung
  <2>1. InUse(cached)
    BY <1>1 DEF ConfigInv
  <2>2. ASSUME NEW ladder \in LossLadders, NEW i \in DOMAIN cached[ladder]
        PROVE  LevelFor(cached[ladder][i], cached[ladder]) = i
    <3>1. /\ Descending(cached[ladder]) /\ DOMAIN cached[ladder] = 1 .. Rungs[ladder]
          /\ Rungs[ladder] \in Nat
      <4>1. Rungs[ladder] \in Nat
        BY RungFacts DEF LossLadders
      <4> QED BY <2>1, <4>1 DEF InUse, BreakersValid, Laddered
    <3> QED BY <3>1, OwnLevel
  <2>3. \A i, j \in 1 .. 4 : i < j => cached["recovery"][i] <= cached["recovery"][j]
    <3> DEFINE sizes == cached["recovery"]
    <3>1. /\ \A i \in 1 .. 4 : sizes[i] \in Int
          /\ sizes[1] <= sizes[2] /\ sizes[2] <= sizes[3] /\ sizes[3] <= sizes[4]
      BY <2>1 DEF InUse, RecoveryValid
    <3> HIDE DEF sizes
    <3>2. \A i, j \in 1 .. 4 : i < j => sizes[i] <= sizes[j]
      BY <3>1
    <3> QED BY <3>2 DEF sizes
  <2> QED BY <2>2, <2>3
<1> QED BY <1>1, ConfigAlways, PTL

-----------------------------------------------------------------------------
(* The walk-forward folds.                                                 *)

SetupOK ==
    /\ setup.n \in Nat /\ setup.folds \in Nat /\ setup.folds >= 2
    /\ setup.embargo \in Nat /\ setup.embargo >= 1

\* What learns, learns from the training rows of a fold: the meta-features of the fold in
\* work, and the search, which fills one fold after the other.
WalkInv ==
    /\ SetupOK
    /\ DOMAIN meta = Bases /\ DOMAIN tuned = AllFolds
    /\ \A b \in Bases \ failed, i \in Observations : Before(meta[b][i], i)
    /\ \A i \in AllFolds : tuned[i] \subseteq TrainOf(i)
    /\ \A i, j \in AllFolds : i <= j /\ tuned[j] # {} => tuned[i] # {}
-----------------------------------------------------------------------------
(* The windows.                                                            *)

LEMMA DivFacts ==
    ASSUME NEW a \in Nat, NEW f \in Nat, f > 0
    PROVE  a \div f \in Nat /\ f * (a \div f) <= a /\ a < f * (a \div f) + f
  OBVIOUS

LEMMA DivMonotone ==
    ASSUME NEW a \in Nat, NEW b \in Nat, a <= b, NEW f \in Nat, f > 0
    PROVE  a \div f <= b \div f
  OBVIOUS

LEMMA EdgeType == ASSUME SetupOK, NEW i \in Nat PROVE Edge(i) \in Nat
<1>1. setup.n * i \in Nat
  BY DEF SetupOK
<1> QED BY <1>1, DivFacts DEF Edge, SetupOK

LEMMA EdgesMonotone == ASSUME SetupOK, NEW i \in Nat, NEW j \in Nat, i <= j PROVE Edge(i) <= Edge(j)
<1>1. setup.n * i \in Nat /\ setup.n * j \in Nat /\ setup.n * i <= setup.n * j
  BY DEF SetupOK
<1> QED BY <1>1, DivMonotone DEF Edge, SetupOK

\* With as many observations as folds no window is empty.
LEMMA EdgesGrow ==
    ASSUME SetupOK, NEW i \in Nat, setup.n >= setup.folds
    PROVE  Edge(i) < Edge(i + 1)
<1> DEFINE n == setup.n
           f == setup.folds
           a == n * i
           b == n * (i + 1)
<1>1. n \in Nat /\ f \in Nat /\ f > 0 /\ n >= f
  BY DEF SetupOK
<1>2. a \in Nat /\ b \in Nat /\ b = a + n
  BY <1>1
<1>3. Edge(i) = a \div f /\ Edge(i + 1) = b \div f
  BY DEF Edge
<1> HIDE DEF n, f, a, b
<1>4. a \div f \in Nat /\ f * (a \div f) <= a /\ b \div f \in Nat /\ b < f * (b \div f) + f
  BY <1>1, <1>2, DivFacts
<1>5. SUFFICES ASSUME b \div f <= a \div f PROVE FALSE
  BY <1>3, <1>4
<1>6. f * (b \div f) <= f * (a \div f)
  BY <1>1, <1>4, <1>5
<1> QED BY <1>1, <1>2, <1>4, <1>6

\* The training rows end the embargo before the test window begins.
LEMMA TrainFacts ==
    ASSUME SetupOK, NEW i \in AllFolds
    PROVE  /\ i \in Nat /\ Edge(i) \in Nat /\ TestOf(i) = Edge(i)..(Edge(i + 1) - 1) /\ Edge(i + 1) \in Nat
           /\ TrainOf(i) = IF Edge(i) > setup.embargo THEN 0..(Edge(i) - setup.embargo - 1) ELSE {}
<1>1. i \in Nat
  BY DEF AllFolds
<1>2. Edge(i) \in Nat /\ Edge(i + 1) \in Nat
  BY <1>1, EdgeType
<1>3. setup.embargo \in Nat
  BY DEF SetupOK
<1> DEFINE d == Edge(i) - setup.embargo
<1>4. d \in Int
  BY <1>2, <1>3
<1>5. Max({0, d}) = IF d > 0 THEN d ELSE 0
  <2> HIDE DEF d
  <2> QED BY <1>4 DEF Max
<1>6. TrainOf(i) = 0..(Max({0, d}) - 1)
  BY DEF TrainOf
<1>7. CASE d > 0
  <2>1. Edge(i) > setup.embargo /\ TrainOf(i) = 0..(d - 1)
    BY <1>2, <1>3, <1>5, <1>6, <1>7
  <2> QED BY <1>1, <1>2, <2>1 DEF TestOf
<1>8. CASE ~(d > 0)
  <2>1. ~(Edge(i) > setup.embargo) /\ TrainOf(i) = 0..(0 - 1)
    BY <1>2, <1>3, <1>5, <1>6, <1>8
  <2>2. 0..(0 - 1) = {}
    OBVIOUS
  <2> QED BY <1>1, <1>2, <2>1, <2>2 DEF TestOf
<1> QED BY <1>7, <1>8

LEMMA TrainBeforeTest ==
    ASSUME SetupOK, NEW i \in AllFolds, NEW t \in TestOf(i)
    PROVE  Before(TrainOf(i), t) /\ t \in Int
<1>1. /\ Edge(i) \in Nat /\ Edge(i + 1) \in Nat /\ TestOf(i) = Edge(i)..(Edge(i + 1) - 1)
      /\ TrainOf(i) = IF Edge(i) > setup.embargo THEN 0..(Edge(i) - setup.embargo - 1) ELSE {}
  BY TrainFacts
<1>2. t \in Int /\ Edge(i) <= t /\ setup.embargo \in Nat
  BY <1>1 DEF SetupOK
<1>3. ASSUME NEW j \in TrainOf(i) PROVE j + setup.embargo <= t
  <2>1. j \in 0..(Edge(i) - setup.embargo - 1)
    BY <1>1
  <2> QED BY <1>1, <1>2, <2>1
<1> QED BY <1>2, <1>3 DEF Before

LEMMA WindowsDisjoint ==
    ASSUME SetupOK, NEW i \in AllFolds, NEW j \in AllFolds, i # j
    PROVE  TestOf(i) \cap TestOf(j) = {}
<1>1. ASSUME NEW k \in AllFolds, NEW l \in AllFolds, k < l PROVE TestOf(k) \cap TestOf(l) = {}
  <2>1. k \in Nat /\ l \in Nat /\ k + 1 \in Nat /\ k + 1 <= l
    BY <1>1 DEF AllFolds
  <2>2. Edge(k + 1) <= Edge(l)
    BY <2>1, EdgesMonotone
  <2>3. Edge(k) \in Nat /\ Edge(k + 1) \in Nat /\ Edge(l) \in Nat /\ Edge(l + 1) \in Nat
    BY TrainFacts
  <2> QED BY <2>2, <2>3 DEF TestOf
<1>2. i \in Int /\ j \in Int
  BY DEF AllFolds
<1>3. CASE i < j
  BY <1>1, <1>3
<1>4. CASE j < i
  BY <1>1, <1>4
<1> QED BY <1>2, <1>3, <1>4

LEMMA IntervalEnds ==
    ASSUME NEW a \in Int, NEW b \in Int, a <= b PROVE Max(a..b) = b /\ Min(a..b) = a
  BY DEF Max, Min

\* A search that has something to learn from in its first fold satisfies the assertion.
LEMMA ProofHolds ==
    ASSUME SetupOK, \A i \in AllFolds : tuned[i] # {} /\ tuned[i] \subseteq TrainOf(i)
    PROVE  LeakageProof
<1>1. setup.n \in Nat /\ setup.folds \in Nat /\ setup.folds >= 2 /\ setup.embargo \in Nat /\ setup.embargo >= 1
  BY DEF SetupOK
<1>2. 1 \in AllFolds
  BY <1>1 DEF AllFolds
<1>3. TrainOf(1) # {}
  BY <1>2
<1>4. Edge(1) > setup.embargo /\ Edge(1) \in Nat
  BY <1>2, <1>3, TrainFacts
<1>5. setup.n >= setup.folds
  <2>1. Edge(1) = setup.n \div setup.folds
    BY <1>1 DEF Edge
  <2>2. setup.folds * Edge(1) <= setup.n
    BY <1>1, <2>1, DivFacts
  <2>3. setup.folds * Edge(1) >= setup.folds
    BY <1>1, <1>4
  <2> QED BY <1>1, <1>4, <2>2, <2>3
<1>6. ASSUME NEW i \in AllFolds
      PROVE  LET lastTrained == IF TrainOf(i) = {} THEN 0 ELSE Max(TrainOf(i))
             IN /\ TestOf(i) # {} /\ TrainOf(i) \cap TestOf(i) = {}
                /\ Min(TestOf(i)) - lastTrained >= setup.embargo
                /\ tuned[i] # {}
  <2>1. /\ i \in Nat /\ Edge(i) \in Nat /\ TestOf(i) = Edge(i)..(Edge(i + 1) - 1) /\ Edge(i + 1) \in Nat
        /\ TrainOf(i) = IF Edge(i) > setup.embargo THEN 0..(Edge(i) - setup.embargo - 1) ELSE {}
    BY TrainFacts
  <2>2. TrainOf(i) # {}
    OBVIOUS
  <2>3. Edge(i) > setup.embargo /\ TrainOf(i) = 0..(Edge(i) - setup.embargo - 1)
    BY <2>1, <2>2
  <2>4. Edge(i) < Edge(i + 1)
    BY <1>5, <2>1, EdgesGrow
  <2>5. Min(TestOf(i)) = Edge(i) /\ TestOf(i) # {}
    <3>1. Edge(i) \in Int /\ Edge(i + 1) - 1 \in Int /\ Edge(i) <= Edge(i + 1) - 1
      BY <2>1, <2>4
    <3> QED BY <2>1, <3>1, IntervalEnds
  <2>6. Max(TrainOf(i)) = Edge(i) - setup.embargo - 1
    <3>1. 0 \in Int /\ Edge(i) - setup.embargo - 1 \in Int /\ 0 <= Edge(i) - setup.embargo - 1
      BY <1>1, <2>1, <2>3
    <3> QED BY <2>3, <3>1, IntervalEnds
  <2>7. TrainOf(i) \cap TestOf(i) = {}
    BY <1>1, <2>1, <2>3
  <2>8. Edge(i) - (Edge(i) - setup.embargo - 1) >= setup.embargo
    BY <1>1, <2>1
  <2> QED BY <2>2, <2>5, <2>6, <2>7, <2>8
<1> QED BY <1>6 DEF LeakageProof
-----------------------------------------------------------------------------
(* The steps.                                                              *)

LEMMA WalkInitFacts == ASSUME WalkInit PROVE WalkInv
<1>1. Sizes \subseteq Nat /\ FoldCounts \subseteq Nat \ {0, 1} /\ Embargoes \subseteq Nat \ {0}
  BY WalkForwardAssumption DEF WalkForwardAssumption
<1>2. setup.n \in Sizes /\ setup.folds \in FoldCounts /\ setup.embargo \in Embargoes
  <2>1. setup \in [n : Sizes, folds : FoldCounts, embargo : Embargoes, stack : Stacks]
    BY DEF WalkInit
  <2> QED BY <2>1
<1>3. SetupOK
  <2>1. setup.n \in Nat /\ setup.embargo \in Nat /\ setup.embargo # 0
    BY <1>1, <1>2
  <2>2. setup.folds \in Nat /\ setup.folds # 0 /\ setup.folds # 1
    BY <1>1, <1>2
  <2>3. setup.embargo >= 1 /\ setup.folds >= 2
    BY <2>1, <2>2
  <2> QED BY <2>1, <2>2, <2>3 DEF SetupOK
<1>4. meta = [b \in Bases |-> [i \in Observations |-> {}]] /\ tuned = [i \in AllFolds |-> {}]
  BY DEF WalkInit
<1>5. \A b \in Bases \ failed, i \in Observations : Before(meta[b][i], i)
  BY <1>4 DEF Before
<1>6. DOMAIN meta = Bases /\ DOMAIN tuned = AllFolds /\ \A i \in AllFolds : tuned[i] = {}
  BY <1>4
<1> QED BY <1>3, <1>5, <1>6 DEF WalkInv

LEMMA FitKeeps == ASSUME WalkInv, FitBase PROVE WalkInv'
<1> DEFINE f == place.fold
<1>1. f \in AllFolds /\ UNCHANGED <<setup, failed, tuned>>
  BY DEF FitBase, Working
<1>2. meta' = [meta EXCEPT ![place.base] =
                  [i \in Observations |-> IF i \notin TestOf(f) THEN meta[place.base][i]
                                          ELSE IF Kind = "net" THEN {} ELSE TrainOf(f)]]
  BY DEF FitBase
<1>3. /\ SetupOK' /\ Bases' = Bases /\ Observations' = Observations /\ AllFolds' = AllFolds
      /\ \A i \in AllFolds : TrainOf(i)' = TrainOf(i)
      /\ \A rows, i : Before(rows, i)' = Before(rows, i)
  BY <1>1 DEF WalkInv, SetupOK, Bases, Observations, AllFolds, TrainOf, Edge, Before
<1>4. ASSUME NEW b \in Bases \ failed, NEW i \in Observations PROVE Before(meta'[b][i], i)
  <2>1. b \in DOMAIN meta /\ Before(meta[b][i], i) /\ SetupOK
    BY DEF WalkInv
  <2>2. CASE b = place.base /\ i \in TestOf(f)
    <3>1. meta'[b][i] \in {{}, TrainOf(f)}
      BY <1>2, <2>1, <2>2
    <3>2. Before(TrainOf(f), i)
      BY <1>1, <2>1, <2>2, TrainBeforeTest
    <3>3. Before({}, i)
      BY DEF Before
    <3> QED BY <3>1, <3>2, <3>3
  <2>3. CASE ~(b = place.base /\ i \in TestOf(f))
    BY <1>2, <2>1, <2>3
  <2> QED BY <2>2, <2>3
<1>5. DOMAIN meta' = Bases
  BY <1>2 DEF WalkInv
<1> QED BY <1>1, <1>3, <1>4, <1>5 DEF WalkInv

LEMMA SearchKeeps == ASSUME WalkInv, SearchFold PROVE WalkInv'
<1> DEFINE f == place.fold
<1>1. /\ f \in AllFolds /\ UNCHANGED <<setup, meta, failed>>
      /\ tuned' = [tuned EXCEPT ![f] = InnerTrainOf(f)]
      /\ \A i \in AllFolds : tuned[i] = {} <=> i >= f
  BY DEF SearchFold, Working
<1>2. /\ SetupOK' /\ Bases' = Bases /\ Observations' = Observations /\ AllFolds' = AllFolds
      /\ \A i \in AllFolds : TrainOf(i)' = TrainOf(i)
      /\ \A rows, i : Before(rows, i)' = Before(rows, i)
  BY <1>1 DEF WalkInv, SetupOK, Bases, Observations, AllFolds, TrainOf, Edge, Before
<1>3. DOMAIN tuned = AllFolds /\ DOMAIN tuned' = AllFolds
  BY <1>1 DEF WalkInv
<1>4. InnerTrainOf(f) \subseteq TrainOf(f)
  BY DEF InnerTrainOf
<1>5. ASSUME NEW i \in AllFolds PROVE tuned'[i] \subseteq TrainOf(i)
  BY <1>1, <1>3, <1>4 DEF WalkInv
<1>6. ASSUME NEW i \in AllFolds, NEW j \in AllFolds, i <= j, tuned'[j] # {} PROVE tuned'[i] # {}
  <2>1. i \in Int /\ j \in Int /\ f \in Int
    BY <1>1 DEF AllFolds
  <2>2. CASE i = j
    BY <1>6, <2>2
  <2>3. CASE i # j
    <3>1. j <= f
      BY <1>1, <1>3, <1>6, <2>1
    <3>2. i < f
      BY <1>6, <2>1, <2>3, <3>1
    <3> QED BY <1>1, <1>3, <2>1, <3>2
  <2> QED BY <2>2, <2>3
<1> QED BY <1>1, <1>2, <1>3, <1>5, <1>6 DEF WalkInv

LEMMA RestKeeps == ASSUME WalkInv, SkipFold \/ FitMeta \/ UNCHANGED walkVars PROVE WalkInv'
<1>1. UNCHANGED <<setup, meta, failed, tuned>>
  BY DEF SkipFold, FitMeta, walkVars
<1> QED BY <1>1 DEF WalkInv, SetupOK, Bases, Observations, AllFolds, TrainOf, Edge, Before

LEMMA FailKeeps == ASSUME WalkInv, BaseFails PROVE WalkInv'
<1>1. /\ UNCHANGED <<setup, tuned>> /\ failed' = failed \cup {place.base}
      /\ meta' = [meta EXCEPT ![place.base] =
                    [i \in Observations |-> UNION {meta[place.base][j] : j \in Observations}]]
  BY DEF BaseFails
<1>2. /\ SetupOK' /\ Bases' = Bases /\ Observations' = Observations /\ AllFolds' = AllFolds
      /\ \A i \in AllFolds : TrainOf(i)' = TrainOf(i)
      /\ \A rows, i : Before(rows, i)' = Before(rows, i)
  BY <1>1 DEF WalkInv, SetupOK, Bases, Observations, AllFolds, TrainOf, Edge, Before
<1>3. DOMAIN meta' = Bases
  BY <1>1 DEF WalkInv
<1>4. ASSUME NEW b \in Bases \ failed', NEW i \in Observations PROVE Before(meta'[b][i], i)
  <2>1. b \in Bases \ failed /\ b # place.base
    BY <1>1
  <2> QED BY <1>1, <2>1 DEF WalkInv
<1> QED BY <1>1, <1>2, <1>3, <1>4 DEF WalkInv

\* The embargo separates what is learnt from what it is judged on, no observation is judged
\* twice, and the assertion kept for it accepts every complete search: whatever the number
\* of observations, also when it is no multiple of the folds or smaller than the embargo.
THEOREM AlwaysOutOfFold == WalkSpec => []OutOfFold
<1>1. ASSUME WalkInv PROVE OutOfFold
  <2>1. SetupOK /\ setup.folds - 1 \in AllFolds
    BY <1>1 DEF WalkInv, SetupOK, AllFolds
  <2>2. \A i, j \in AllFolds : i # j => TestOf(i) \cap TestOf(j) = {}
    BY <2>1, WindowsDisjoint
  <2>3. \A i \in AllFolds, t \in Observations : t \in TestOf(i) => Before(tuned[i], t)
    BY <1>1, <2>1, TrainBeforeTest DEF WalkInv, Before
  <2>4. ASSUME tuned[setup.folds - 1] # {} PROVE LeakageProof
    <3>1. ASSUME NEW i \in AllFolds PROVE tuned[i] # {} /\ tuned[i] \subseteq TrainOf(i)
      <4>1. i <= setup.folds - 1
        BY <2>1 DEF AllFolds, SetupOK
      <4> QED BY <1>1, <2>1, <2>4, <4>1 DEF WalkInv
    <3> QED BY <2>1, <3>1, ProofHolds
  <2> QED BY <1>1, <2>2, <2>3, <2>4 DEF OutOfFold, WalkInv
<1>2. WalkInit => WalkInv
  BY WalkInitFacts
<1>3. WalkInv /\ [WalkNext]_walkVars => WalkInv'
  BY FitKeeps, SearchKeeps, RestKeeps, FailKeeps DEF WalkNext
<1> QED BY <1>1, <1>2, <1>3, PTL DEF WalkSpec

-----------------------------------------------------------------------------
(* The permission slip.                                                    *)

InRange(directive) ==
    /\ directive.size \in 0..100 /\ directive.boost \in 0..100 /\ directive.floor \in 0..100
    /\ directive.open \in 0..10

LEMMA PlainFact == InRange(Plain)
BY DEF Plain, InRange

LEMMA OrangeFact == \A size, floor \in 0..100 : \A bars : InRange(Orange(size, floor, bars))
BY DEF Orange, Plain, InRange

LEMMA DoingFact == \A alert, act : InRange(Doing(alert, act)) /\ InRange(Latching(alert, act))
BY DEF Doing, Latching, Plain, InRange

\* What every trigger directs is in range.
LEMMA DirectiveFacts == \A t \in DOMAIN Directives : InRange(Directives[t])
<1>1. /\ InRange(Directives["daily_1"]) /\ InRange(Directives["daily_3"])
      /\ InRange(Directives["daily_4"])
  BY PlainFact, DoingFact DEF Directives
<1>2. InRange(Directives["daily_2"])
  <2>1. Directives["daily_2"] = [Doing(ORANGE, "block_entries_reduce") EXCEPT !.size = 75, !.tighten = TRUE]
    BY DEF Directives
  <2> QED BY <2>1 DEF Doing, Plain, InRange
<1>3. /\ InRange(Directives["weekly_1"]) /\ InRange(Directives["weekly_2"])
      /\ InRange(Directives["weekly_3"])
  <2>1. /\ Directives["weekly_1"] = Yellow(75, 10)
        /\ Directives["weekly_2"] = Orange(50, 80, {"shorts"})
        /\ Directives["weekly_3"] = Latching(RED, "flatten_all")
    BY DEF Directives
  <2> QED BY <2>1 DEF Yellow, Orange, Doing, Latching, Plain, InRange
<1>4. /\ InRange(Directives["monthly_1"]) /\ InRange(Directives["monthly_2"])
      /\ InRange(Directives["monthly_3"])
  <2>1. /\ Directives["monthly_1"] = Yellow(75, 0)
        /\ Directives["monthly_2"] = Orange(50, 0, {})
        /\ Directives["monthly_3"] = Latching(RED, "flatten_all")
    BY DEF Directives
  <2> QED BY <2>1 DEF Yellow, Orange, Doing, Latching, Plain, InRange
<1>5. InRange(Directives["drawdown_2"]) /\ InRange(Directives["drawdown_4"])
  <2>1. /\ Directives["drawdown_2"] = Orange(60, 75, {"shorts"})
        /\ Directives["drawdown_4"] = Latching(EMERGENCY_ALERT, "flatten_all")
    BY DEF Directives
  <2> QED BY <2>1 DEF Yellow, Orange, Doing, Latching, Plain, InRange
<1>6. InRange(Directives["drawdown_1"]) /\ InRange(Directives["drawdown_3"])
  <2>1. /\ Directives["drawdown_1"] = [Yellow(80, 0) EXCEPT !.tighten = TRUE]
        /\ Directives["drawdown_3"] = [Plain EXCEPT !.alert = RED, !.size = 50, !.floor = 85, !.open = 3]
    BY DEF Directives
  <2> QED BY <2>1 DEF Yellow, Plain, InRange
<1>7. InRange(Directives["vix_1"]) /\ InRange(Directives["vix_2"]) /\ InRange(Directives["vix_spike"])
  <2>1. /\ Directives["vix_1"] = Yellow(75, 0)
        /\ Directives["vix_2"] = Orange(50, 0, {"longs"})
        /\ Directives["vix_spike"] = Doing(ORANGE, "immediate_review")
    BY DEF Directives
  <2> QED BY <2>1 DEF Yellow, Orange, Doing, Latching, Plain, InRange
<1>8. InRange(Directives["vix_3"]) /\ InRange(Directives["vix_4"])
  <2>1. /\ Directives["vix_3"] = [Plain EXCEPT !.alert = RED, !.size = 25]
        /\ Directives["vix_4"] = [Doing(EMERGENCY_ALERT, "flatten_all") EXCEPT !.size = 0]
    BY DEF Directives
  <2> QED BY <2>1 DEF Doing, Plain, InRange
<1>9. /\ InRange(Directives["crash_1"]) /\ InRange(Directives["crash_2"])
      /\ InRange(Directives["crash_3"])
  BY PlainFact, OrangeFact, DoingFact DEF Directives
<1>10. /\ InRange(Directives["feed_1"]) /\ InRange(Directives["feed_2"])
       /\ InRange(Directives["api_1"]) /\ InRange(Directives["api_2"])
  BY DoingFact DEF Directives
<1>11. /\ InRange(Directives["model"]) /\ InRange(Directives["mismatch"])
       /\ InRange(Directives["runaway"])
  BY DoingFact DEF Directives
<1>12. DOMAIN Directives =
         {"daily_1", "daily_2", "daily_3", "daily_4", "weekly_1", "weekly_2", "weekly_3", "monthly_1", "monthly_2",
          "monthly_3", "drawdown_1", "drawdown_2", "drawdown_3", "drawdown_4", "vix_1", "vix_2", "vix_3", "vix_4",
          "vix_spike", "crash_1", "crash_2", "crash_3", "feed_1", "feed_2", "api_1", "api_2", "model", "mismatch",
          "runaway"}
  BY DEF Directives
<1> QED BY <1>1, <1>2, <1>3, <1>4, <1>5, <1>6, <1>7, <1>8, <1>9, <1>10, <1>11, <1>12

LEMMA DefaultFacts ==
    \A level \in States : /\ Default[level].size \in 0..100 /\ Default[level].boost \in 0..100
                          /\ Default[level].open \in 0..10
BY DEF States, Default, Shut

LEMMA DoersGrow == \A few, more, acts : few \subseteq more => Doers(few, acts) \subseteq Doers(more, acts)
BY DEF Doers

\* What is admitted under more triggers is admitted under fewer.
LEMMA PermissionsShrink ==
    ASSUME NEW few, NEW more, few \subseteq more, NEW level, NEW kill
    PROVE  Permissions(level, more, kill) \subseteq Permissions(level, few, kill)
<1> DEFINE flatten(triggers) == kill \/ Doers(triggers, {"flatten_all"}) # {}
           stopping(triggers) == Doers(triggers, {"block_entries", "block_entries_reduce", "close_worst_half"}) # {}
           leaving(triggers) == Doers(triggers, {"exit_longs"}) # {}
           barred(triggers) ==
             (UNION {Directives[t].bars : t \in triggers})
             \cup (IF leaving(triggers) THEN {"longs"} ELSE {})
             \cup (IF flatten(triggers) \/ stopping(triggers) THEN {"entries"} ELSE {})
<1>1. /\ flatten(few) => flatten(more)
      /\ stopping(few) => stopping(more)
      /\ leaving(few) => leaving(more)
  BY DoersGrow
<1>2. (UNION {Directives[t].bars : t \in few}) \subseteq (UNION {Directives[t].bars : t \in more})
  OBVIOUS
<1>3. barred(few) \subseteq barred(more)
  <2> HIDE DEF flatten, stopping, leaving
  <2> QED BY <1>1, <1>2
<1>4. \A triggers : Permissions(level, triggers, kill) =
         IF "entries" \in Default[level].may \ barred(triggers) THEN Default[level].may \ barred(triggers) ELSE {}
  BY DEF Permissions
<1> HIDE DEF barred
<1> QED BY <1>3, <1>4

\* One more trigger, by the parts of the slip.
LEMMA MergeTightens ==
    ASSUME NEW few \in SUBSET DOMAIN Directives, NEW kind \in DOMAIN Directives, NEW level \in States,
           NEW kill \in BOOLEAN, NEW held
    PROVE  LET before == Merged(level, few, kill, {}, held)
               after == Merged(level, few \cup {kind}, kill, {}, held)
           IN /\ after.may \subseteq before.may /\ after.ml => before.ml
              /\ after.size <= before.size /\ after.open <= before.open /\ after.boost >= before.boost
              /\ (before.flatten => after.flatten) /\ (before.cancel => after.cancel)
<1> DEFINE more == few \cup {kind}
           sizes(triggers) == {Default[level].size} \cup {Directives[t].size : t \in triggers}
           opens(triggers) == {Default[level].open} \cup {Directives[t].open : t \in triggers}
           boosts(triggers) ==
             {Default[level].boost} \cup {Directives[t].boost : t \in triggers}
             \cup {Directives[t].floor - NormalConfidence : t \in triggers}
           flatten(triggers) == kill \/ Doers(triggers, {"flatten_all"}) # {}
           cutting(triggers) == Doers(triggers, {"block_entries_reduce", "close_worst_half"}) # {}
<1>1. /\ few \subseteq more /\ more \subseteq DOMAIN Directives
      /\ \A t \in more : InRange(Directives[t])
  BY DirectiveFacts
<1>2. Min(sizes(more)) <= Min(sizes(few))
  <2>1. sizes(few) \in SUBSET Nat /\ sizes(more) \in SUBSET Nat
    BY <1>1, DefaultFacts DEF InRange
  <2>2. sizes(few) \subseteq sizes(more) /\ sizes(few) # {}
    BY <1>1
  <2> HIDE DEF sizes
  <2> QED BY <2>1, <2>2, MinFalls
<1>3. Min(opens(more)) <= Min(opens(few))
  <2>1. opens(few) \in SUBSET Nat /\ opens(more) \in SUBSET Nat
    BY <1>1, DefaultFacts DEF InRange
  <2>2. opens(few) \subseteq opens(more) /\ opens(few) # {}
    BY <1>1
  <2> HIDE DEF opens
  <2> QED BY <2>1, <2>2, MinFalls
<1>4. Max(boosts(few)) <= Max(boosts(more))
  <2>1. ASSUME NEW x \in boosts(more) PROVE x \in Int /\ x <= 100
    <3>1. CASE x = Default[level].boost
      BY <3>1, DefaultFacts
    <3>2. CASE \E t \in more : x = Directives[t].boost
      BY <1>1, <3>2 DEF InRange
    <3>3. CASE \E t \in more : x = Directives[t].floor - NormalConfidence
      BY <1>1, <3>3 DEF InRange, NormalConfidence
    <3> QED BY <2>1, <3>1, <3>2, <3>3
  <2>2. boosts(few) \subseteq boosts(more) /\ boosts(few) # {}
    BY <1>1
  <2> HIDE DEF boosts
  <2> QED BY <2>1, <2>2, MaxRises
<1>5. Permissions(level, more, kill) \subseteq Permissions(level, few, kill)
  BY <1>1, PermissionsShrink
<1>6. /\ flatten(few) => flatten(more)
      /\ cutting(few) => cutting(more)
      /\ Doers(more, {"technical_only"}) = {} => Doers(few, {"technical_only"}) = {}
  BY <1>1, DoersGrow
<1>7. \A triggers :
         LET slip == Merged(level, triggers, kill, {}, held)
         IN /\ slip.may = Permissions(level, triggers, kill)
            /\ slip.ml = (Doers(triggers, {"technical_only"}) = {})
            /\ slip.size = Min(sizes(triggers)) /\ slip.open = Min(opens(triggers))
            /\ slip.boost = Max(boosts(triggers))
            /\ slip.flatten = flatten(triggers) /\ slip.cancel = (flatten(triggers) \/ cutting(triggers))
  BY DEF Merged, SizeUnder
<1> DEFINE before == Merged(level, few, kill, {}, held)
           after == Merged(level, more, kill, {}, held)
<1>8. after.may \subseteq before.may /\ (after.ml => before.ml)
  BY <1>5, <1>6, <1>7
<1>9. after.size <= before.size /\ after.open <= before.open /\ after.boost >= before.boost
  BY <1>2, <1>3, <1>4, <1>7
<1>10. (before.flatten => after.flatten) /\ (before.cancel => after.cancel)
  BY <1>6, <1>7
<1> QED BY <1>8, <1>9, <1>10

\* A sector within BlockDays of its last crash.
Fallen(s) == lastCrash[s] # Unseen /\ now < lastCrash[s] + BlockDays

\* And one a completed save has recorded.
Recorded(s) == recorded[s] # Unseen /\ now < recorded[s] + BlockDays

BlocksInv ==
    /\ lastCrash \in [Sectors -> Int]
    /\ \A s \in Sectors : Fallen(s) => s \in DOMAIN blocks /\ blocks[s] = lastCrash[s] + BlockDays

SavedInv ==
    /\ recorded \in [Sectors -> Int]
    /\ DOMAIN saved = {"level", "latched", "killSwitch", "blocks"}
    /\ saved.latched \subseteq Kinds /\ saved.killSwitch \in BOOLEAN
    /\ \A s \in Sectors : Recorded(s) => s \in DOMAIN saved.blocks /\ saved.blocks[s] = recorded[s] + BlockDays

SlipInv ==
    /\ ~policy.given => policy.may = {}
    /\ \A s \in Sectors : Fallen(s) /\ enabled /\ policy.given => s \in policy.sectors

PolicyInv ==
    /\ now \in Nat /\ latched \subseteq Kinds /\ killSwitch \in BOOLEAN
    /\ BlocksInv /\ SavedInv /\ SlipInv

LEMMA PolicyStart == now = 0 /\ PolicyInit => PolicyInv
<1> SUFFICES ASSUME now = 0, PolicyInit PROVE PolicyInv
  OBVIOUS
<1>1. /\ latched = {} /\ killSwitch = FALSE /\ blocks = <<>>
      /\ saved = [level |-> "NORMAL", latched |-> {}, killSwitch |-> FALSE, blocks |-> <<>>]
      /\ policy.given = FALSE /\ policy.may = {} /\ lastCrash = [s \in Sectors |-> Unseen] /\ recorded = lastCrash
  BY DEF PolicyInit, NoSlip
<1>2. /\ DOMAIN saved = {"level", "latched", "killSwitch", "blocks"}
      /\ saved.latched = {} /\ saved.killSwitch = FALSE
  BY <1>1
<1>3. lastCrash \in [Sectors -> Int] /\ \A s \in Sectors : ~Fallen(s) /\ ~Recorded(s)
  BY <1>1 DEF Fallen, Recorded, Unseen
<1> QED BY <1>1, <1>2, <1>3 DEF PolicyInv, BlocksInv, SavedInv, SlipInv

\* A save, completed or not, of blocks that cover the crashes known.
LEMMA SaveKeeps ==
    ASSUME SavedInv, BlocksInv', now' = now, NEW row, DOMAIN row = {"level", "latched", "killSwitch", "blocks"},
           row.latched \subseteq Kinds, row.killSwitch \in BOOLEAN, row.blocks = blocks', Persist(row)
    PROVE  SavedInv'
<1>1. CASE saved' = row
  <2>1. recorded' = lastCrash'
    BY <1>1 DEF Persist
  <2>2. \A s \in Sectors : Recorded(s)' => Fallen(s)'
    BY <2>1 DEF Recorded, Fallen
  <2> QED BY <1>1, <2>1, <2>2 DEF SavedInv, BlocksInv
<1>2. CASE saved' # row /\ saved' = saved
  BY <1>2 DEF Persist, SavedInv, Recorded
<1>3. CASE saved' # row /\ saved' = [row EXCEPT !.blocks = saved.blocks]
  <2>1. recorded' = recorded
    BY <1>3 DEF Persist
  <2>2. /\ DOMAIN saved' = DOMAIN row /\ saved'.latched = row.latched /\ saved'.killSwitch = row.killSwitch
        /\ saved'.blocks = saved.blocks
    BY <1>3
  <2> QED BY <2>1, <2>2 DEF SavedInv, Recorded
<1> QED BY <1>1, <1>2, <1>3 DEF Persist

LEMMA EvaluateKeeps ==
    ASSUME PolicyInv, NEW fresh \in SUBSET Kinds, NEW crashed \in SUBSET Sectors, NEW level \in Levels,
           EvaluatePolicy(fresh, crashed, level), now' = now
    PROVE  PolicyInv'
<1> DEFINE row == [level |-> level, latched |-> latched', killSwitch |-> killSwitch, blocks |-> blocks']
<1>1. /\ latched' = latched \cup {t \in fresh : Directives[t].latch} /\ killSwitch' = killSwitch
      /\ blocks' = BlocksAfter(crashed) /\ Persist(row)
      /\ lastCrash' = [s \in Sectors |-> IF s \in crashed THEN now ELSE lastCrash[s]]
      /\ policy' = [Merged(level, latched \cup fresh, killSwitch, crashed, book) EXCEPT !.sectors = DOMAIN blocks']
  BY DEF EvaluatePolicy
<1>2. policy'.given /\ policy'.sectors = DOMAIN blocks'
  BY <1>1 DEF Merged
<1>3. latched' \subseteq Kinds /\ killSwitch' \in BOOLEAN /\ now' \in Nat
  BY <1>1 DEF PolicyInv
<1> DEFINE until(s) == IF s \in crashed THEN now + BlockDays ELSE blocks[s]
<1>4. /\ lastCrash' \in [Sectors -> Int] /\ now \in Nat /\ BlockDays \in Nat /\ BlockDays > 0
      /\ \A s \in Sectors : lastCrash'[s] = IF s \in crashed THEN now ELSE lastCrash[s]
  BY <1>1, PolicyAssumption DEF PolicyInv, BlocksInv, PolicyAssumption
<1>5. ASSUME NEW s \in Sectors, Fallen(s)' PROVE s \in DOMAIN blocks' /\ blocks'[s] = lastCrash'[s] + BlockDays
  <2>1. s \in crashed \cup DOMAIN blocks /\ until(s) = lastCrash'[s] + BlockDays /\ until(s) > now
    <3>1. CASE s \in crashed
      BY <1>4, <3>1
    <3>2. CASE s \notin crashed
      <4>1. lastCrash'[s] = lastCrash[s] /\ Fallen(s)
        BY <1>4, <1>5, <3>2 DEF Fallen
      <4>2. s \in DOMAIN blocks /\ blocks[s] = lastCrash[s] + BlockDays
        BY <4>1 DEF PolicyInv, BlocksInv
      <4>3. lastCrash[s] \in Int /\ now < lastCrash[s] + BlockDays
        BY <4>1 DEF PolicyInv, BlocksInv, Fallen
      <4> QED BY <1>4, <3>2, <4>1, <4>2, <4>3
    <3> QED BY <3>1, <3>2
  <2>2. blocks' = [x \in {x \in crashed \cup DOMAIN blocks : until(x) > now} |-> until(x)]
    BY <1>1 DEF BlocksAfter
  <2> HIDE DEF until
  <2>3. s \in {x \in crashed \cup DOMAIN blocks : until(x) > now}
    BY <2>1
  <2> QED BY <2>1, <2>2, <2>3
<1>6. BlocksInv' /\ SlipInv'
  BY <1>2, <1>4, <1>5 DEF BlocksInv, SlipInv
<1>7. SavedInv'
  <2>1. /\ DOMAIN row = {"level", "latched", "killSwitch", "blocks"} /\ row.latched = latched'
        /\ row.killSwitch = killSwitch /\ row.blocks = blocks'
    OBVIOUS
  <2> HIDE DEF row
  <2> QED BY <1>1, <1>3, <1>6, <2>1, SaveKeeps DEF PolicyInv
<1> QED BY <1>3, <1>6, <1>7 DEF PolicyInv

\* While time passes and the crashes stand, the blocks go on covering them.
LEMMA BlocksStand ==
    ASSUME PolicyInv, now' \in Nat, now' >= now, lastCrash' = lastCrash, blocks' = blocks
    PROVE  BlocksInv' /\ \A s \in Sectors : Fallen(s)' => Fallen(s)
<1>1. lastCrash \in [Sectors -> Int] /\ BlockDays \in Nat /\ now \in Nat
  BY PolicyAssumption DEF PolicyAssumption, PolicyInv, BlocksInv
<1>2. ASSUME NEW s \in Sectors, Fallen(s)' PROVE Fallen(s)
  <2>1. lastCrash[s] \in Int
    BY <1>1
  <2> QED BY <1>1, <1>2, <2>1 DEF Fallen
<1> QED BY <1>1, <1>2 DEF PolicyInv, BlocksInv

\* What saves a row and touches no block: kill switch, resume, the disabled evaluation.
LEMMA SaversKeep ==
    ASSUME PolicyInv, now' = now, NEW level, latched' \subseteq Kinds, killSwitch' \in BOOLEAN,
           UNCHANGED <<enabled, blocks, lastCrash>>, policy' = policy \/ (~enabled /\ policy'.given),
           Persist([level |-> level, latched |-> latched', killSwitch |-> killSwitch', blocks |-> blocks])
    PROVE  PolicyInv'
<1> DEFINE row == [level |-> level, latched |-> latched', killSwitch |-> killSwitch', blocks |-> blocks]
<1>1. now' \in Nat /\ now' >= now /\ lastCrash' = lastCrash /\ blocks' = blocks
  BY DEF PolicyInv
<1>2. BlocksInv' /\ \A s \in Sectors : Fallen(s)' => Fallen(s)
  BY <1>1, BlocksStand
<1>3. /\ DOMAIN row = {"level", "latched", "killSwitch", "blocks"} /\ row.latched \subseteq Kinds
      /\ row.killSwitch \in BOOLEAN /\ row.blocks = blocks'
  OBVIOUS
<1> HIDE DEF row
<1>4. SavedInv'
  BY <1>2, <1>3, SaveKeeps DEF PolicyInv, row
<1>5. SlipInv'
  BY <1>2 DEF PolicyInv, SlipInv
<1> QED BY <1>1, <1>2, <1>4, <1>5 DEF PolicyInv

LEMMA PolicyStep == PolicyInv /\ [PolicyOrTick]_<<policyVars, now>> => PolicyInv'
<1> SUFFICES ASSUME PolicyInv, [PolicyOrTick]_<<policyVars, now>> PROVE PolicyInv'
  OBVIOUS
<1>1. now \in Nat /\ latched \subseteq Kinds /\ killSwitch \in BOOLEAN /\ BlocksInv /\ SavedInv /\ SlipInv
  BY DEF PolicyInv
<1>2. ASSUME EvaluateSome, now' = now PROVE PolicyInv'
  BY <1>2, EvaluateKeeps DEF EvaluateSome
<1>3. ASSUME UNCHANGED <<latched, killSwitch, enabled, blocks, saved, policy, lastCrash, recorded>>,
             now' = now \/ now' = now + 1
      PROVE  PolicyInv'
  <2>1. now' \in Nat /\ now' >= now
    BY <1>1, <1>3
  <2>2. BlocksInv' /\ \A s \in Sectors : Fallen(s)' => Fallen(s)
    BY <1>3, <2>1, BlocksStand
  <2>3. ASSUME NEW s \in Sectors, Recorded(s)' PROVE Recorded(s)
    <3>1. recorded[s] \in Int /\ BlockDays \in Nat /\ recorded' = recorded
      BY <1>1, <1>3, PolicyAssumption DEF SavedInv, PolicyAssumption
    <3> QED BY <1>1, <2>1, <2>3, <3>1 DEF Recorded
  <2>4. SavedInv'
    BY <1>1, <1>3, <2>3 DEF SavedInv
  <2>5. SlipInv'
    BY <1>1, <1>3, <2>2 DEF SlipInv
  <2> QED BY <1>1, <1>3, <2>1, <2>2, <2>4, <2>5 DEF PolicyInv
<1>4. ASSUME NEW level \in Levels, EvaluateDisabled(level), now' = now PROVE PolicyInv'
  <2>1. /\ ~enabled /\ UNCHANGED <<latched, killSwitch, enabled, blocks, lastCrash>>
        /\ policy' = SlipWhenDisabled(level)
        /\ Persist([level |-> level, latched |-> latched, killSwitch |-> killSwitch, blocks |-> blocks])
    BY <1>4 DEF EvaluateDisabled
  <2>2. policy'.given
    BY <2>1 DEF SlipWhenDisabled, NoSlip
  <2>3. Persist([level |-> level, latched |-> latched', killSwitch |-> killSwitch', blocks |-> blocks])
    BY <2>1
  <2> QED BY <1>1, <1>4, <2>1, <2>2, <2>3, SaversKeep
<1>5. ASSUME Kill, now' = now PROVE PolicyInv'
  <2>1. /\ killSwitch' = TRUE /\ UNCHANGED <<latched, enabled, blocks, policy, lastCrash>>
        /\ Persist([level |-> "EMERGENCY", latched |-> latched', killSwitch |-> killSwitch', blocks |-> blocks])
    BY <1>5 DEF Kill
  <2>2. latched' \subseteq Kinds /\ killSwitch' \in BOOLEAN /\ policy' = policy /\ UNCHANGED <<enabled, blocks, lastCrash>>
    BY <1>1, <2>1
  <2> QED BY <1>5, <2>1, <2>2, SaversKeep
<1>6. ASSUME ReleaseLatches, now' = now PROVE PolicyInv'
  <2>1. /\ latched' = {} /\ killSwitch' = FALSE /\ UNCHANGED <<enabled, blocks, policy, lastCrash>>
        /\ Persist([level |-> "RESTRICTED", latched |-> latched', killSwitch |-> killSwitch', blocks |-> blocks])
    BY <1>6 DEF ReleaseLatches
  <2>2. latched' \subseteq Kinds /\ killSwitch' \in BOOLEAN /\ policy' = policy /\ UNCHANGED <<enabled, blocks, lastCrash>>
    BY <2>1
  <2> QED BY <1>6, <2>1, <2>2, SaversKeep
<1>7. ASSUME ReloadPolicy, now' = now PROVE PolicyInv'
  <2>1. /\ latched' = saved.latched /\ killSwitch' = saved.killSwitch /\ blocks' = saved.blocks
        /\ lastCrash' = recorded /\ UNCHANGED <<saved, recorded>> /\ ~policy'.given /\ policy'.may = {}
    BY <1>7 DEF ReloadPolicy, NoSlip
  <2>2. SavedInv'
    BY <1>1, <1>7, <2>1 DEF SavedInv, Recorded
  <2>3. BlocksInv'
    <3>1. \A s \in Sectors : Fallen(s)' => Recorded(s)
      BY <1>7, <2>1 DEF Fallen, Recorded
    <3> QED BY <1>1, <2>1, <3>1 DEF SavedInv, BlocksInv
  <2>4. SlipInv'
    BY <2>1 DEF SlipInv
  <2> QED BY <1>1, <1>7, <2>1, <2>2, <2>3, <2>4 DEF PolicyInv, SavedInv
<1>8. ASSUME Enforce \/ (\E p \in Positions : Enter(p)), now' = now PROVE PolicyInv'
  BY <1>3, <1>8 DEF Enforce, Enter
<1>9. CASE Tick /\ UNCHANGED policyVars
  BY <1>3, <1>9 DEF Tick, policyVars
<1>10. CASE UNCHANGED <<policyVars, now>>
  BY <1>3, <1>10 DEF policyVars
<1> QED BY <1>2, <1>4, <1>5, <1>6, <1>7, <1>8, <1>9, <1>10 DEF PolicyOrTick, PolicyNext

LEMMA PolicyAlways == PolicySpec => []PolicyInv
BY PolicyStart, PolicyStep, PTL DEF PolicySpec

\* "most-conservative-wins": whatever the book and whatever triggers are active, in
\* every state of the breaker one more trigger of evaluate()'s admits nothing, and
\* loosens no size, cap, confidence nor order to flatten or to cancel.
THEOREM NothingEverLoosened == PolicySpec => []NothingLoosened
<1>1. ASSUME PolicyInv, NEW fresh \in SUBSET Kinds, NEW kind \in Kinds, NEW level \in Levels
      PROVE  LET before == Merged(level, latched \cup fresh, killSwitch, {}, book)
                 after == Merged(level, latched \cup fresh \cup {kind}, killSwitch, {}, book)
             IN /\ after.may \subseteq before.may /\ after.ml => before.ml
                /\ after.size <= before.size /\ after.open <= before.open /\ after.boost >= before.boost
                /\ (before.flatten => after.flatten) /\ (before.cancel => after.cancel)
  <2> DEFINE active == latched \cup fresh
  <2>1. /\ active \in SUBSET DOMAIN Directives /\ kind \in DOMAIN Directives /\ level \in States
        /\ killSwitch \in BOOLEAN
    BY <1>1, PolicyAssumption DEF PolicyAssumption, PolicyInv
  <2> HIDE DEF active
  <2>2. LET before == Merged(level, active, killSwitch, {}, book)
            after == Merged(level, active \cup {kind}, killSwitch, {}, book)
        IN /\ after.may \subseteq before.may /\ after.ml => before.ml
           /\ after.size <= before.size /\ after.open <= before.open /\ after.boost >= before.boost
           /\ (before.flatten => after.flatten) /\ (before.cancel => after.cancel)
    BY <2>1, MergeTightens
  <2> QED BY <2>2 DEF active
<1>2. PolicyInv => NothingLoosened
  BY <1>1 DEF NothingLoosened
<1> QED BY <1>2, PolicyAlways, PTL

\* "sector -5% -> exit sector + block 3d": for any book, sectors and number of days,
\* under the slips of enabled breakers nothing is opened in a sector within that many days
\* of its last crash that one completed save came after, or that this process has seen,
\* across failed saves, slips, kill switches, resumes and restarts.
THEOREM SectorBlockAlwaysServed == PolicySpec => SectorBlockServed
<1>1. ASSUME PolicyInv, [PolicyOrTick]_<<policyVars, now>>, NEW p \in book' \ book, enabled
      PROVE  lastCrash[p.sector] # Unseen => now >= lastCrash[p.sector] + BlockDays
  <2>1. PICK q \in Positions : Enter(q)
    BY <1>1 DEF PolicyOrTick, PolicyNext, policyVars, EvaluateSome, EvaluatePolicy, EvaluateDisabled, Enforce, Kill,
                ReleaseLatches, ReloadPolicy
  <2>2. p = q /\ p.sector \in Sectors /\ p.sector \notin policy.sectors /\ policy.may # {}
    BY <1>1, <2>1 DEF Enter, Sectors
  <2>3. ~Fallen(p.sector)
    BY <1>1, <2>2 DEF PolicyInv, SlipInv
  <2>4. lastCrash[p.sector] \in Int /\ now \in Nat /\ BlockDays \in Nat
    BY <1>1, <2>2, PolicyAssumption DEF PolicyInv, BlocksInv, PolicyAssumption
  <2> QED BY <2>3, <2>4 DEF Fallen
<1>2. PolicyInv /\ [PolicyOrTick]_<<policyVars, now>> =>
        [\A p \in book' \ book :
           enabled /\ lastCrash[p.sector] # Unseen => now >= lastCrash[p.sector] + BlockDays]_<<policyVars, now>>
  BY <1>1
<1> QED BY <1>2, PolicyAlways, PTL DEF PolicySpec, SectorBlockServed

\* What an order to flatten stands for: nothing may be opened, and there is something to
\* close while the book is not empty.
FlattenInv ==
    /\ ~policy.given => policy.may = {}
    /\ policy.given /\ policy.flatten => policy.may = {} /\ (policy.close # {} \/ book = {})

LEMMA MergedFlattens ==
    \A level, triggers, kill, crashed, held :
        LET slip == Merged(level, triggers, kill, crashed, held)
        IN slip.flatten => slip.may = {} /\ (slip.close # {} \/ held = {})
<1> SUFFICES ASSUME NEW level, NEW triggers, NEW kill, NEW crashed, NEW held
             PROVE  LET slip == Merged(level, triggers, kill, crashed, held)
                    IN slip.flatten => slip.may = {} /\ (slip.close # {} \/ held = {})
  OBVIOUS
<1> DEFINE slip == Merged(level, triggers, kill, crashed, held)
           flatten == kill \/ Doers(triggers, {"flatten_all"}) # {}
<1>1. /\ slip.flatten = flatten /\ slip.may = Permissions(level, triggers, kill)
      /\ slip.close = Closings(triggers, crashed, held, flatten)
  BY DEF Merged
<1>2. ASSUME flatten PROVE Permissions(level, triggers, kill) = {}
  <2> DEFINE stopping == Doers(triggers, {"block_entries", "block_entries_reduce", "close_worst_half"}) # {}
             others ==
               (UNION {Directives[t].bars : t \in triggers})
               \cup (IF Doers(triggers, {"exit_longs"}) # {} THEN {"longs"} ELSE {})
             barred == others \cup (IF flatten \/ stopping THEN {"entries"} ELSE {})
  <2>1. Permissions(level, triggers, kill) =
          IF "entries" \in Default[level].may \ barred THEN Default[level].may \ barred ELSE {}
    BY DEF Permissions
  <2>2. "entries" \in barred
    <3> HIDE DEF others, stopping
    <3> QED BY <1>2
  <2> HIDE DEF barred
  <2> QED BY <2>1, <2>2
<1>3. ASSUME flatten PROVE Closings(triggers, crashed, held, flatten) # {} \/ held = {}
  BY <1>3 DEF Closings
<1> QED BY <1>1, <1>2, <1>3

LEMMA FlattenStep == FlattenInv /\ [PolicyOrTick]_<<policyVars, now>> => FlattenInv'
<1> SUFFICES ASSUME FlattenInv, [PolicyOrTick]_<<policyVars, now>> PROVE FlattenInv'
  OBVIOUS
<1>1. ASSUME EvaluateSome PROVE FlattenInv'
  <2>1. PICK fresh \in SUBSET Kinds, crashed \in SUBSET Sectors, level \in Levels :
          EvaluatePolicy(fresh, crashed, level)
    BY <1>1 DEF EvaluateSome
  <2> DEFINE slip == Merged(level, latched \cup fresh, killSwitch, crashed, book)
  <2>2. policy' = [slip EXCEPT !.sectors = DOMAIN blocks'] /\ book' = book
    BY <2>1 DEF EvaluatePolicy
  <2>3. /\ policy'.given /\ policy'.flatten = slip.flatten /\ policy'.may = slip.may
        /\ policy'.close = slip.close
    BY <2>2 DEF Merged
  <2>4. slip.flatten => slip.may = {} /\ (slip.close # {} \/ book = {})
    BY MergedFlattens
  <2> HIDE DEF slip
  <2> QED BY <2>2, <2>3, <2>4 DEF FlattenInv
<1>2. ASSUME policy' = policy, book' \subseteq book PROVE FlattenInv'
  BY <1>2 DEF FlattenInv
<1>3. ASSUME Enforce PROVE FlattenInv'
  BY <1>2, <1>3 DEF Enforce
<1>4. ASSUME NEW p \in Positions, Enter(p) PROVE FlattenInv'
  <2>1. policy' = policy /\ policy.may # {}
    BY <1>4 DEF Enter
  <2> QED BY <2>1 DEF FlattenInv
<1>5. ASSUME Kill \/ ReleaseLatches PROVE FlattenInv'
  BY <1>2, <1>5 DEF Kill, ReleaseLatches
<1>6. ASSUME ReloadPolicy PROVE FlattenInv'
  BY <1>6 DEF ReloadPolicy, NoSlip, FlattenInv
<1>7. CASE UNCHANGED policyVars
  BY <1>2, <1>7 DEF policyVars
<1>8. ASSUME NEW level \in Levels, EvaluateDisabled(level) PROVE FlattenInv'
  BY <1>8 DEF EvaluateDisabled, SlipWhenDisabled, NoSlip, FlattenInv
<1> QED BY <1>1, <1>3, <1>4, <1>5, <1>6, <1>7, <1>8 DEF PolicyOrTick, PolicyNext, policyVars

\* An order to flatten never stalls: while a slip that says so stands, either the book is
\* empty or the slip closes something, whatever narrower closings stand beside it, and
\* nothing is opened meanwhile.
THEOREM FlattenNeverStalled == PolicySpec => FlattenNeverStalls
<1>1. now = 0 /\ PolicyInit => FlattenInv
  BY DEF PolicyInit, NoSlip, FlattenInv
<1>2. FlattenInv /\ [PolicyOrTick]_<<policyVars, now>> =>
        [policy.given /\ policy.flatten =>
           /\ policy.close # {} \/ book = {}
           /\ book' \subseteq book]_<<policyVars, now>>
  <2> SUFFICES ASSUME FlattenInv, PolicyOrTick, policy.given, policy.flatten
               PROVE  (policy.close # {} \/ book = {}) /\ book' \subseteq book
    OBVIOUS
  <2>1. policy.may = {} /\ (policy.close # {} \/ book = {})
    BY DEF FlattenInv
  <2>2. \A p \in Positions : ~Enter(p)
    BY <2>1 DEF Enter
  <2>3. book' \subseteq book
    BY <2>2 DEF PolicyOrTick, PolicyNext, policyVars, EvaluateSome, EvaluatePolicy, EvaluateDisabled, Enforce, Kill,
                ReleaseLatches, ReloadPolicy
  <2> QED BY <2>1, <2>3
<1> QED BY <1>1, <1>2, FlattenStep, PTL DEF PolicySpec, FlattenNeverStalls

\* The numbers of a slip stay in range, and it closes only what is held.
LEMMA SlipFact ==
    ASSUME NEW triggers \in SUBSET DOMAIN Directives, NEW level \in States, NEW kill, NEW crashed, NEW held
    PROVE  LET slip == Merged(level, triggers, kill, crashed, held)
           IN /\ slip.size \in 0..100 /\ slip.boost \in 0..100 /\ slip.open \in 0..10
              /\ slip.close \subseteq held
<1> DEFINE sizes == {Default[level].size} \cup {Directives[t].size : t \in triggers}
           opens == {Default[level].open} \cup {Directives[t].open : t \in triggers}
           boosts ==
             {Default[level].boost} \cup {Directives[t].boost : t \in triggers}
             \cup {Directives[t].floor - NormalConfidence : t \in triggers}
           flatten == kill \/ Doers(triggers, {"flatten_all"}) # {}
           slip == Merged(level, triggers, kill, crashed, held)
<1>1. \A t \in triggers : InRange(Directives[t])
  BY DirectiveFacts
<1>2. ASSUME NEW S \in SUBSET Nat, S # {} PROVE Min(S) \in S
  <2>1. \E x \in S : \A y \in S : x <= y
    BY <1>2, LeastElement
  <2> QED BY <2>1 DEF Min
<1>3. Min(sizes) \in 0..100
  <2>1. sizes \in SUBSET Nat /\ sizes \subseteq 0..100 /\ sizes # {}
    BY <1>1, DefaultFacts DEF InRange
  <2> HIDE DEF sizes
  <2>2. Min(sizes) \in sizes
    BY <1>2, <2>1
  <2> QED BY <2>1, <2>2
<1>4. Min(opens) \in 0..10
  <2>1. opens \in SUBSET Nat /\ opens \subseteq 0..10 /\ opens # {}
    BY <1>1, DefaultFacts DEF InRange
  <2> HIDE DEF opens
  <2>2. Min(opens) \in opens
    BY <1>2, <2>1
  <2> QED BY <2>1, <2>2
<1>5. Max(boosts) \in 0..100
  <2>1. ASSUME NEW x \in boosts PROVE x \in Int /\ x <= 100
    <3>1. CASE x = Default[level].boost
      BY <3>1, DefaultFacts
    <3>2. CASE \E t \in triggers : x = Directives[t].boost
      BY <1>1, <3>2 DEF InRange
    <3>3. CASE \E t \in triggers : x = Directives[t].floor - NormalConfidence
      BY <1>1, <3>3 DEF InRange, NormalConfidence
    <3> QED BY <2>1, <3>1, <3>2, <3>3
  <2>2. Default[level].boost \in boosts /\ Default[level].boost \in 0..100
    BY DefaultFacts
  <2> HIDE DEF boosts
  <2>3. Max(boosts) \in boosts /\ \A x \in boosts : x <= Max(boosts)
    <3>1. boosts \in SUBSET Int /\ boosts # {} /\ 100 \in Int
      BY <2>1, <2>2
    <3> QED BY <2>1, <3>1, MaxOfIntegers
  <2>4. Max(boosts) \in Int /\ Max(boosts) <= 100
    BY <2>1, <2>3
  <2>5. 0 <= Max(boosts)
    BY <2>2, <2>3, <2>4
  <2> QED BY <2>4, <2>5
<1>6. Closings(triggers, crashed, held, flatten) \subseteq held
  BY DEF Closings, Exits
<1>7. /\ slip.size = Min(sizes) /\ slip.boost = Max(boosts) /\ slip.open = Min(opens)
      /\ slip.close = Closings(triggers, crashed, held, flatten)
  BY DEF Merged, SizeUnder
<1> QED BY <1>3, <1>4, <1>5, <1>6, <1>7

\* What PolicyInv leaves open of the types.
PolicyRest ==
    /\ DOMAIN saved.blocks \subseteq Sectors /\ enabled \in BOOLEAN
    /\ book \subseteq Positions /\ DOMAIN blocks \subseteq Sectors /\ policy.close \subseteq Positions
    /\ policy.size \in 0..100 /\ policy.boost \in 0..100 /\ policy.open \in 0..10

LEMMA PolicyRestStep ==
    ASSUME PolicyInv, PolicyRest, [PolicyOrTick]_<<policyVars, now>>
    PROVE  PolicyRest'
<1>1. /\ book \subseteq Positions /\ DOMAIN blocks \subseteq Sectors /\ policy.close \subseteq Positions
      /\ policy.size \in 0..100 /\ policy.boost \in 0..100 /\ policy.open \in 0..10
      /\ DOMAIN saved.blocks \subseteq Sectors /\ enabled \in BOOLEAN
  BY DEF PolicyRest
<1>2. ASSUME book' \subseteq Positions, UNCHANGED <<blocks, policy, enabled, saved>> PROVE PolicyRest'
  BY <1>1, <1>2 DEF PolicyRest
<1>9. ASSUME NEW row, Persist(row), row.blocks = blocks', DOMAIN blocks' \subseteq Sectors,
             DOMAIN row = {"level", "latched", "killSwitch", "blocks"}
      PROVE  DOMAIN saved'.blocks \subseteq Sectors
  BY <1>1, <1>9 DEF Persist
<1>3. ASSUME EvaluateSome PROVE PolicyRest'
  <2>1. PICK fresh \in SUBSET Kinds, crashed \in SUBSET Sectors, level \in Levels :
          EvaluatePolicy(fresh, crashed, level)
    BY <1>3 DEF EvaluateSome
  <2> DEFINE triggers == latched \cup fresh
             slip == Merged(level, triggers, killSwitch, crashed, book)
  <2>2. /\ policy' = [slip EXCEPT !.sectors = DOMAIN blocks'] /\ book' = book
        /\ blocks' = BlocksAfter(crashed) /\ enabled' = enabled
        /\ Persist([level |-> level, latched |-> latched', killSwitch |-> killSwitch, blocks |-> blocks'])
    BY <2>1 DEF EvaluatePolicy
  <2>3. triggers \in SUBSET DOMAIN Directives /\ level \in States
    BY PolicyAssumption DEF PolicyInv, PolicyAssumption
  <2>4. DOMAIN blocks' \subseteq Sectors
    BY <1>1, <2>2 DEF BlocksAfter
  <2>5. /\ policy'.size = slip.size /\ policy'.boost = slip.boost /\ policy'.open = slip.open
        /\ policy'.close = slip.close
    BY <2>2 DEF Merged
  <2>7. DOMAIN saved'.blocks \subseteq Sectors
    BY <1>9, <2>2, <2>4
  <2> HIDE DEF triggers
  <2>6. /\ slip.size \in 0..100 /\ slip.boost \in 0..100 /\ slip.open \in 0..10
        /\ slip.close \subseteq book
    BY <2>3, SlipFact
  <2> HIDE DEF slip
  <2> QED BY <1>1, <2>2, <2>4, <2>5, <2>6, <2>7 DEF PolicyRest
<1>4. ASSUME Enforce PROVE PolicyRest'
  BY <1>1, <1>2, <1>4 DEF Enforce
<1>5. ASSUME NEW p \in Positions, Enter(p) PROVE PolicyRest'
  BY <1>1, <1>2, <1>5 DEF Enter
<1>6. ASSUME Kill \/ ReleaseLatches PROVE PolicyRest'
  <2>1. /\ UNCHANGED <<book, enabled, blocks, policy>>
        /\ \E level, stuck, kill : Persist([level |-> level, latched |-> stuck, killSwitch |-> kill, blocks |-> blocks'])
    BY <1>6 DEF Kill, ReleaseLatches
  <2>2. DOMAIN saved'.blocks \subseteq Sectors
    BY <1>1, <1>9, <2>1
  <2> QED BY <1>1, <2>1, <2>2 DEF PolicyRest
<1>7. ASSUME ReloadPolicy PROVE PolicyRest'
  <2>1. book' = book /\ blocks' = saved.blocks /\ saved' = saved /\ policy' = NoSlip /\ enabled' \in BOOLEAN
    BY <1>7 DEF ReloadPolicy
  <2> QED BY <1>1, <2>1 DEF NoSlip, PolicyRest
<1>8. CASE UNCHANGED policyVars
  BY <1>1, <1>2, <1>8 DEF policyVars
<1>10. ASSUME NEW level \in Levels, EvaluateDisabled(level) PROVE PolicyRest'
  <2>1. /\ UNCHANGED <<book, enabled, blocks>> /\ policy' = SlipWhenDisabled(level)
        /\ Persist([level |-> level, latched |-> latched, killSwitch |-> killSwitch, blocks |-> blocks'])
    BY <1>10 DEF EvaluateDisabled
  <2>2. DOMAIN saved'.blocks \subseteq Sectors
    BY <1>1, <1>9, <2>1
  <2>3. policy'.size = 100 /\ policy'.boost = 0 /\ policy'.open = 10 /\ policy'.close = {}
    BY <2>1 DEF SlipWhenDisabled, NoSlip, Default
  <2> QED BY <1>1, <2>1, <2>2, <2>3 DEF PolicyRest
<1> QED BY <1>3, <1>4, <1>5, <1>6, <1>7, <1>8, <1>10 DEF PolicyOrTick, PolicyNext, policyVars

\* Type correctness of the slip and what it is made from: sizes, boosts and counts in
\* range, and nothing closed that is not a position.
THEOREM PolicyTypeCorrect == PolicySpec => []PolicyTypeOK
<1>1. now = 0 /\ PolicyInit => PolicyRest
  <2> SUFFICES ASSUME PolicyInit PROVE PolicyRest
    OBVIOUS
  <2>1. saved.blocks = <<>> /\ blocks = <<>> /\ DOMAIN <<>> = {}
    BY DEF PolicyInit
  <2> QED BY <2>1 DEF PolicyInit, NoSlip, PolicyRest
<1>2. PolicyInv /\ PolicyRest /\ [PolicyOrTick]_<<policyVars, now>> => PolicyRest'
  BY PolicyRestStep
<1>3. PolicyInv /\ PolicyRest => PolicyTypeOK
  BY DEF PolicyInv, PolicyRest, PolicyTypeOK
<1> QED BY <1>1, <1>2, <1>3, PolicyAlways, PTL DEF PolicySpec

-----------------------------------------------------------------------------
(* The database under its threads.                                         *)

RowsIn(t) == {link[t].pending[i] : i \in 1..Len(link[t].pending)}
OwnRows(w) == {RowsOf[w][i] : i \in 1..Len(RowsOf[w])}
Nowhere(r) == stored[r] = 0 /\ \A t \in Threads : r \notin RowsIn(t)

\* The write a thread has not put into its transaction yet.
Untouched(w) == answer[w] = "none" \/ \E t \in Threads : request[t].at \in {"queueing", "trying"} /\ request[t].write = w

Link == [open : BOOLEAN, seen : Nat \cup {Unread}, pending : Seq(Rows)]
Request == [at : {"away", "queueing", "trying", "applied"}, write : Writes \cup {Nobody}, attempt : Nat, explicit : BOOLEAN]

DatabaseTyped ==
    /\ stored \in [Rows -> Nat] /\ link \in [Threads -> Link] /\ request \in [Threads -> Request]
    /\ version \in Nat /\ answer \in [Writes -> {"none", "asked", "done", "failed"}]

\* One thread carries a call.
OneCaller ==
    /\ \A t \in Threads : InCall(t) => request[t].write \in Writes /\ answer[request[t].write] = "asked"
    /\ \A t, u \in Threads : InCall(t) /\ InCall(u) /\ request[t].write = request[u].write => t = u

\* No row has a second copy anywhere.
RowsApart ==
    /\ \A t \in Threads : \A i, j \in 1..Len(link[t].pending) : link[t].pending[i] = link[t].pending[j] => i = j
    /\ \A t, u \in Threads : \A r \in RowsIn(t) : r \in RowsIn(u) => t = u
    /\ \A t \in Threads : \A r \in RowsIn(t) : stored[r] = 0
    /\ \A r \in Rows : stored[r] <= 1

Placed ==
    /\ \A w \in Writes : Untouched(w) => \A r \in OwnRows(w) : Nowhere(r)
    /\ \A t \in Threads : request[t].at = "applied" => OwnRows(request[t].write) \subseteq RowsIn(t)
    /\ \A w \in Writes : answer[w] = "done" => \A r \in OwnRows(w) : stored[r] = 1

DatabaseInv == DatabaseTyped /\ OneCaller /\ RowsApart /\ Placed

LEMMA RowsFact ==
    \A w \in Writes : /\ RowsOf[w] \in Seq(Rows) /\ DOMAIN RowsOf[w] = 1..Len(RowsOf[w]) /\ Len(RowsOf[w]) \in Nat
                       /\ \A i \in 1..Len(RowsOf[w]) : RowsOf[w][i] \in Rows /\ RowsOf[w][i] \in OwnRows(w)
                       /\ OwnRows(w) \subseteq Rows /\ ToSet(RowsOf[w]) = OwnRows(w)
<1> SUFFICES ASSUME NEW w \in Writes
             PROVE  /\ RowsOf[w] \in Seq(Rows) /\ DOMAIN RowsOf[w] = 1..Len(RowsOf[w]) /\ Len(RowsOf[w]) \in Nat
                    /\ \A i \in 1..Len(RowsOf[w]) : RowsOf[w][i] \in Rows /\ RowsOf[w][i] \in OwnRows(w)
                    /\ OwnRows(w) \subseteq Rows /\ ToSet(RowsOf[w]) = OwnRows(w)
  OBVIOUS
<1>1. RowsOf[w] \in Seq(Rows)
  BY DatabaseAssumption DEF DatabaseAssumption
<1>2. /\ DOMAIN RowsOf[w] = 1..Len(RowsOf[w]) /\ Len(RowsOf[w]) \in Nat
      /\ \A i \in 1..Len(RowsOf[w]) : RowsOf[w][i] \in Rows
  BY <1>1
<1> QED BY <1>1, <1>2 DEF OwnRows, ToSet

LEMMA OwnRowsFact == \A w \in Writes : \A r \in OwnRows(w) : r \in Rows
<1> SUFFICES ASSUME NEW w \in Writes, NEW i \in 1..Len(RowsOf[w]) PROVE RowsOf[w][i] \in Rows
  BY DEF OwnRows
<1> QED BY DatabaseAssumption DEF DatabaseAssumption

LEMMA OwnRowsApart ==
    ASSUME NEW w \in Writes, NEW v \in Writes, NEW r \in OwnRows(w), r \in OwnRows(v)
    PROVE  w = v
<1>1. PICK i \in 1..Len(RowsOf[w]) : r = RowsOf[w][i]
  BY DEF OwnRows
<1>2. PICK j \in 1..Len(RowsOf[v]) : r = RowsOf[v][j]
  BY DEF OwnRows
<1>3. i \in DOMAIN RowsOf[w] /\ j \in DOMAIN RowsOf[v] /\ RowsOf[w][i] = RowsOf[v][j]
  BY <1>1, <1>2, RowsFact
<1> QED BY <1>3, DatabaseAssumption DEF DatabaseAssumption

\* A statement puts a beginning of its rows into the transaction.
LEMMA TakenFact ==
    ASSUME NEW w \in Writes
    PROVE  /\ Taken(w) \in Seq(Rows) /\ Len(Taken(w)) \in Nat
           /\ \A i \in 1..Len(Taken(w)) : Taken(w)[i] \in OwnRows(w)
           /\ \A i, j \in 1..Len(Taken(w)) : Taken(w)[i] = Taken(w)[j] => i = j
<1>1. /\ RowsOf[w] \in Seq(Rows) /\ Len(RowsOf[w]) \in Nat /\ DOMAIN RowsOf[w] = 1..Len(RowsOf[w])
      /\ \A i \in 1..Len(RowsOf[w]) : RowsOf[w][i] \in Rows /\ RowsOf[w][i] \in OwnRows(w)
  BY RowsFact
<1>2. \A i, j \in 1..Len(RowsOf[w]) : RowsOf[w][i] = RowsOf[w][j] => i = j
  BY <1>1, DatabaseAssumption DEF DatabaseAssumption
<1> DEFINE refused == {i \in 1..Len(RowsOf[w]) : RowsOf[w][i] \in Unfit}
<1>3. Taken(w) = RowsOf[w] \/ \E n \in 1..Len(RowsOf[w]) : Taken(w) = SubSeq(RowsOf[w], 1, n - 1)
  <2>1. SelectInSeq(RowsOf[w], LAMBDA r : r \in Unfit) = IF refused # {} THEN Min(refused) ELSE 0
    BY DEF SelectInSeq
  <2>2. CASE refused = {}
    BY <2>1, <2>2 DEF Taken
  <2>3. CASE refused # {}
    <3>1. refused \in SUBSET Nat
      OBVIOUS
    <3>2. PICK n \in refused : \A m \in refused : n <= m
      <4> HIDE DEF refused
      <4> QED BY <2>3, <3>1, LeastElement
    <3>3. Min(refused) \in refused
      <4> HIDE DEF refused
      <4> QED BY <3>2 DEF Min
    <3> QED BY <2>1, <2>3, <3>3 DEF Taken
  <2> QED BY <2>2, <2>3
<1>4. CASE Taken(w) = RowsOf[w]
  BY <1>1, <1>2, <1>4
<1>5. ASSUME NEW n \in 1..Len(RowsOf[w]), Taken(w) = SubSeq(RowsOf[w], 1, n - 1)
      PROVE  /\ Taken(w) \in Seq(Rows) /\ Len(Taken(w)) \in Nat
             /\ \A i \in 1..Len(Taken(w)) : i \in 1..Len(RowsOf[w]) /\ Taken(w)[i] = RowsOf[w][i]
  BY <1>1, <1>5
<1> QED BY <1>1, <1>2, <1>3, <1>4, <1>5

\* What a connection holds, by its rows.
LEMMA PendingFact ==
    ASSUME DatabaseTyped, NEW t \in Threads
    PROVE  /\ link[t] \in Link /\ link[t].pending \in Seq(Rows) /\ Len(link[t].pending) \in Nat
           /\ DOMAIN link[t].pending = 1..Len(link[t].pending) /\ RowsIn(t) \subseteq Rows
<1>1. link[t] \in Link /\ link[t].pending \in Seq(Rows)
  BY DEF DatabaseTyped, Link
<1> QED BY <1>1 DEF RowsIn

LEMMA FreshFact == Fresh \in Link /\ Fresh.pending = <<>> /\ Len(Fresh.pending) = 0 /\ ~Fresh.open
BY DEF Fresh, Link, Unread

LEMMA AwayFact == Away \in Request /\ Away.at = "away"
BY DEF Away, Request

LEMMA DatabaseStart == DatabaseInit => DatabaseInv
<1> SUFFICES ASSUME DatabaseInit PROVE DatabaseInv
  OBVIOUS
<1>1. /\ stored = [r \in Rows |-> 0] /\ version = 0 /\ link = [t \in Threads |-> Fresh]
      /\ request = [t \in Threads |-> Away] /\ answer = [w \in Writes |-> "none"]
  BY DEF DatabaseInit
<1>2. DatabaseTyped
  BY <1>1, FreshFact, AwayFact DEF DatabaseTyped
<1>3. /\ \A t \in Threads : RowsIn(t) = {} /\ ~InCall(t) /\ request[t].at = "away" /\ link[t].pending = <<>>
      /\ \A r \in Rows : stored[r] = 0
  BY <1>1, FreshFact, AwayFact DEF RowsIn, InCall
<1>4. OneCaller /\ RowsApart
  BY <1>3 DEF OneCaller, RowsApart
<1>5. Placed
  <2>1. ASSUME NEW w \in Writes, NEW r \in OwnRows(w) PROVE Nowhere(r)
    <3>1. r \in Rows
      BY OwnRowsFact
    <3> QED BY <1>3, <3>1 DEF Nowhere
  <2>2. \A w \in Writes : answer[w] # "done"
    BY <1>1
  <2> QED BY <1>3, <2>1, <2>2 DEF Placed
<1> QED BY <1>2, <1>4, <1>5 DEF DatabaseInv

\* Where nothing is added to a transaction and nothing committed, no row comes.
LEMMA RowsStay ==
    ASSUME DatabaseInv, stored' = stored, \A t \in Threads : link'[t].pending = link[t].pending \/ link'[t].pending = <<>>
    PROVE  /\ RowsApart' /\ \A r : Nowhere(r) => Nowhere(r)'
           /\ \A t \in Threads : link'[t].pending = link[t].pending => RowsIn(t)' = RowsIn(t)
<1>1. \A t \in Threads : link'[t].pending = link[t].pending => RowsIn(t)' = RowsIn(t)
  BY DEF RowsIn
<1>2. \A t \in Threads : link'[t].pending = <<>> => RowsIn(t)' = {} /\ Len(link'[t].pending) = 0
  BY DEF RowsIn
<1>3. \A t \in Threads : RowsIn(t)' \subseteq RowsIn(t)
  BY <1>1, <1>2
<1>4. RowsApart'
  <2>1. ASSUME NEW t \in Threads, NEW i \in 1..Len(link'[t].pending), NEW j \in 1..Len(link'[t].pending),
               link'[t].pending[i] = link'[t].pending[j]
        PROVE  i = j
    BY <1>2, <2>1 DEF DatabaseInv, RowsApart
  <2>2. /\ \A t, u \in Threads : \A r \in RowsIn(t)' : r \in RowsIn(u)' => t = u
        /\ \A t \in Threads : \A r \in RowsIn(t)' : stored'[r] = 0
        /\ \A r \in Rows : stored'[r] <= 1
    BY <1>3 DEF DatabaseInv, RowsApart
  <2> QED BY <2>1, <2>2 DEF RowsApart
<1>5. \A r : Nowhere(r) => Nowhere(r)'
  BY <1>3 DEF Nowhere
<1> QED BY <1>1, <1>4, <1>5

\* A call that begins.
LEMMA WriteKeeps ==
    ASSUME DatabaseInv, NEW t \in Threads, NEW w \in Writes, NEW explicit \in BOOLEAN, Write(t, w, explicit)
    PROVE  DatabaseInv'
<1> DEFINE asked == [at |-> "queueing", write |-> w, attempt |-> 1, explicit |-> explicit]
<1>1. /\ request' = [request EXCEPT ![t] = asked] /\ answer' = [answer EXCEPT ![w] = "asked"]
      /\ stored' = stored /\ version' = version /\ link' = link /\ answer[w] = "none" /\ ~InCall(t)
  BY DEF Write
<1>2. asked \in Request /\ asked.at = "queueing" /\ asked.write = w
  BY DEF Request
<1> HIDE DEF asked
<1>3. /\ DatabaseTyped' /\ request'[t] = asked /\ answer'[w] = "asked"
      /\ \A u \in Threads : u # t => request'[u] = request[u]
      /\ \A v \in Writes : v # w => answer'[v] = answer[v]
  BY <1>1, <1>2 DEF DatabaseInv, DatabaseTyped
<1>4. /\ RowsApart' /\ \A r : Nowhere(r) => Nowhere(r)'
      /\ \A u \in Threads : RowsIn(u)' = RowsIn(u)
  BY <1>1, RowsStay
<1>5. \A u \in Threads : InCall(u) => request[u].write # w
  BY <1>1 DEF DatabaseInv, OneCaller
<1>6. OneCaller'
  BY <1>1, <1>2, <1>3, <1>5 DEF DatabaseInv, OneCaller, InCall
<1>7. \A v \in Writes : Untouched(v)' => Untouched(v)
  BY <1>1, <1>2, <1>3 DEF Untouched
<1>8. Placed'
  <2>1. \A v \in Writes : Untouched(v)' => \A r \in OwnRows(v) : Nowhere(r)'
    BY <1>4, <1>7 DEF DatabaseInv, Placed
  <2>2. ASSUME NEW u \in Threads, request'[u].at = "applied" PROVE OwnRows(request'[u].write) \subseteq RowsIn(u)'
    <3>1. u # t
      BY <1>2, <1>3, <2>2
    <3> QED BY <1>3, <1>4, <2>2, <3>1 DEF DatabaseInv, Placed
  <2>3. \A v \in Writes : answer'[v] = "done" => \A r \in OwnRows(v) : stored'[r] = 1
    BY <1>1, <1>3 DEF DatabaseInv, Placed
  <2> QED BY <2>1, <2>2, <2>3 DEF Placed
<1> QED BY <1>3, <1>4, <1>6, <1>8 DEF DatabaseInv

\* A call goes on, or its caller is answered, or its process dies, and at most what its
\* connection held is dropped: the call does not get further than it was.
LEMMA CallsGoOn ==
    ASSUME DatabaseInv, DatabaseTyped', stored' = stored,
           \A t \in Threads : link'[t].pending = link[t].pending \/ link'[t].pending = <<>>,
           \A t \in Threads :
             \/ request'[t].at = "away"
             \/ /\ request'[t].write = request[t].write /\ link'[t].pending = link[t].pending
                /\ request[t].at \in {"queueing", "trying"} /\ request'[t].at \in {"queueing", "trying"}
             \/ request'[t] = request[t] /\ link'[t].pending = link[t].pending,
           \A w \in Writes :
             \/ answer'[w] = answer[w]
             \/ answer'[w] = "failed" /\ \A t \in Threads : InCall(t)' => request'[t].write # w
    PROVE  DatabaseInv'
<1>1. /\ RowsApart' /\ \A r : Nowhere(r) => Nowhere(r)'
      /\ \A t \in Threads : link'[t].pending = link[t].pending => RowsIn(t)' = RowsIn(t)
  BY RowsStay
<1>2. \A t \in Threads : InCall(t)' => InCall(t) /\ request'[t].write = request[t].write
  BY DEF InCall
<1>3. OneCaller'
  BY <1>2 DEF DatabaseInv, OneCaller
<1>4. ASSUME NEW w \in Writes, Untouched(w)' PROVE Untouched(w)
  <2>1. CASE answer'[w] = "none"
    BY <2>1 DEF Untouched
  <2>2. CASE \E t \in Threads : request'[t].at \in {"queueing", "trying"} /\ request'[t].write = w
    BY <2>2 DEF Untouched
  <2> QED BY <1>4, <2>1, <2>2 DEF Untouched
<1>5. \A w \in Writes : Untouched(w)' => \A r \in OwnRows(w) : Nowhere(r)'
  BY <1>1, <1>4 DEF DatabaseInv, Placed
<1>6. ASSUME NEW t \in Threads, request'[t].at = "applied" PROVE OwnRows(request'[t].write) \subseteq RowsIn(t)'
  <2>1. request'[t] = request[t] /\ link'[t].pending = link[t].pending
    BY <1>6
  <2> QED BY <1>1, <1>6, <2>1 DEF DatabaseInv, Placed
<1>7. \A w \in Writes : answer'[w] = "done" => \A r \in OwnRows(w) : stored'[r] = 1
  BY DEF DatabaseInv, Placed
<1>8. Placed'
  BY <1>5, <1>6, <1>7 DEF Placed
<1> QED BY <1>1, <1>3, <1>8 DEF DatabaseInv

LEMMA TakeMutexKeeps == ASSUME DatabaseInv, NEW t \in Threads, TakeMutex(t) PROVE DatabaseInv'
<1>1. /\ request[t].at = "queueing" /\ request' = [request EXCEPT ![t].at = "trying"]
      /\ stored' = stored /\ version' = version /\ link' = link /\ answer' = answer
  BY DEF TakeMutex
<1>2. PICK q \in Request : q = request[t]
  BY DEF DatabaseInv, DatabaseTyped
<1> DEFINE next == [q EXCEPT !.at = "trying"]
<1>3. next \in Request /\ next.at = "trying" /\ next.write = q.write
  BY DEF Request
<1>4. request' = [request EXCEPT ![t] = next]
  BY <1>1, <1>2
<1> HIDE DEF next
<1>5. /\ DatabaseTyped' /\ request'[t] = next /\ \A u \in Threads : u # t => request'[u] = request[u]
  BY <1>1, <1>3, <1>4 DEF DatabaseInv, DatabaseTyped
<1>6. \A u \in Threads :
         \/ /\ request'[u].write = request[u].write /\ link'[u].pending = link[u].pending
            /\ request[u].at \in {"queueing", "trying"} /\ request'[u].at \in {"queueing", "trying"}
         \/ request'[u] = request[u] /\ link'[u].pending = link[u].pending
  BY <1>1, <1>2, <1>3, <1>5
<1> QED BY <1>1, <1>5, <1>6, CallsGoOn

LEMMA RetryKeeps == ASSUME DatabaseInv, NEW t \in Threads, Retry(t) PROVE DatabaseInv'
<1>1. /\ request[t].at = "trying" /\ request' = [request EXCEPT ![t].at = "queueing", ![t].attempt = @ + 1]
      /\ link' = [link EXCEPT ![t].open = TRUE]
      /\ stored' = stored /\ version' = version /\ answer' = answer
  BY DEF Retry
<1>2. PICK q \in Request, l \in Link : q = request[t] /\ l = link[t]
  BY DEF DatabaseInv, DatabaseTyped
<1> DEFINE next == [q EXCEPT !.at = "queueing", !.attempt = @ + 1]
           begun == [l EXCEPT !.open = TRUE]
<1>3. next \in Request /\ next.at = "queueing" /\ next.write = q.write /\ begun \in Link /\ begun.pending = l.pending
  <2>1. q.attempt + 1 \in Nat
    BY DEF Request
  <2>2. next \in Request /\ next.at = "queueing" /\ next.write = q.write
    BY <2>1 DEF Request
  <2>3. begun \in Link /\ begun.pending = l.pending
    BY DEF Link
  <2> QED BY <2>2, <2>3
<1>4. request' = [request EXCEPT ![t] = next] /\ link' = [link EXCEPT ![t] = begun]
  BY <1>1, <1>2
<1> HIDE DEF next, begun
<1>5. /\ DatabaseTyped' /\ request'[t] = next /\ \A u \in Threads : u # t => request'[u] = request[u]
      /\ link'[t] = begun /\ \A u \in Threads : u # t => link'[u] = link[u]
  <2>1. request \in [Threads -> Request] /\ link \in [Threads -> Link]
    BY DEF DatabaseInv, DatabaseTyped
  <2>2. request'[t] = next /\ \A u \in Threads : u # t => request'[u] = request[u]
    BY <1>4, <2>1
  <2>3. link'[t] = begun /\ \A u \in Threads : u # t => link'[u] = link[u]
    BY <1>4, <2>1
  <2>4. request' \in [Threads -> Request] /\ link' \in [Threads -> Link]
    BY <1>3, <1>4, <2>1
  <2> QED BY <1>1, <2>2, <2>3, <2>4 DEF DatabaseInv, DatabaseTyped
<1>6. \A u \in Threads :
         \/ /\ request'[u].write = request[u].write /\ link'[u].pending = link[u].pending
            /\ request[u].at \in {"queueing", "trying"} /\ request'[u].at \in {"queueing", "trying"}
         \/ request'[u] = request[u] /\ link'[u].pending = link[u].pending
  BY <1>1, <1>2, <1>3, <1>5
<1> QED BY <1>1, <1>5, <1>6, CallsGoOn

\* The caller is answered, and the thread is free again.
LEMMA ToldFact ==
    ASSUME DatabaseInv, NEW t \in Threads, request[t].at # "away", NEW what \in {"done", "failed"}, Told(t, what)
    PROVE  /\ request' \in [Threads -> Request] /\ answer' \in [Writes -> {"none", "asked", "done", "failed"}]
           /\ request[t].write \in Writes /\ request'[t].at = "away" /\ answer'[request[t].write] = what
           /\ \A u \in Threads : u # t => request'[u] = request[u] /\ (InCall(u) => request[u].write # request[t].write)
           /\ \A w \in Writes : w # request[t].write => answer'[w] = answer[w]
<1>1. InCall(t) /\ request[t].write \in Writes
  BY DEF InCall, DatabaseInv, OneCaller
<1>2. /\ request' = [request EXCEPT ![t] = Away] /\ answer' = [answer EXCEPT ![request[t].write] = what]
      /\ request \in [Threads -> Request] /\ answer \in [Writes -> {"none", "asked", "done", "failed"}]
  BY DEF Told, DatabaseInv, DatabaseTyped
<1>3. \A u \in Threads : u # t /\ InCall(u) => request[u].write # request[t].write
  BY <1>1 DEF DatabaseInv, OneCaller
<1> QED BY <1>1, <1>2, <1>3, AwayFact

LEMMA GiveUpKeeps == ASSUME DatabaseInv, NEW t \in Threads, GiveUp(t) PROVE DatabaseInv'
<1>1. /\ request[t].at = "trying" /\ link' = [link EXCEPT ![t].open = TRUE] /\ Told(t, "failed")
      /\ stored' = stored /\ version' = version
  BY DEF GiveUp
<1>2. PICK l \in Link : l = link[t]
  BY DEF DatabaseInv, DatabaseTyped
<1> DEFINE begun == [l EXCEPT !.open = TRUE]
<1>3. begun \in Link /\ begun.pending = l.pending
  BY DEF Link
<1>4. link' = [link EXCEPT ![t] = begun]
  BY <1>1, <1>2
<1> HIDE DEF begun
<1>5. link' \in [Threads -> Link] /\ \A u \in Threads : link'[u].pending = link[u].pending
  BY <1>2, <1>3, <1>4 DEF DatabaseInv, DatabaseTyped
<1>6. /\ request' \in [Threads -> Request] /\ answer' \in [Writes -> {"none", "asked", "done", "failed"}]
      /\ request'[t].at = "away" /\ answer'[request[t].write] = "failed"
      /\ \A u \in Threads : u # t => request'[u] = request[u] /\ (InCall(u) => request[u].write # request[t].write)
      /\ \A w \in Writes : w # request[t].write => answer'[w] = answer[w]
  BY <1>1, ToldFact
<1>7. DatabaseTyped'
  BY <1>1, <1>5, <1>6 DEF DatabaseInv, DatabaseTyped
<1>8. \A u \in Threads : InCall(u)' => request'[u].write # request[t].write
  BY <1>6 DEF InCall
<1>9. \A u \in Threads : request'[u].at = "away" \/ (request'[u] = request[u] /\ link'[u].pending = link[u].pending)
  BY <1>5, <1>6
<1>10. \A w \in Writes :
         \/ answer'[w] = answer[w]
         \/ answer'[w] = "failed" /\ \A u \in Threads : InCall(u)' => request'[u].write # w
  BY <1>6, <1>8
<1> QED BY <1>1, <1>5, <1>7, <1>9, <1>10, CallsGoOn

LEMMA AbortKeeps == ASSUME DatabaseInv, NEW t \in Threads, Abort(t) PROVE DatabaseInv'
<1>1. /\ request[t].at = "trying" /\ link' = [link EXCEPT ![t] = Fresh] /\ Told(t, "failed")
      /\ stored' = stored /\ version' = version
  BY DEF Abort, RollBack
<1>5. /\ link' \in [Threads -> Link] /\ link'[t].pending = <<>>
      /\ \A u \in Threads : u # t => link'[u].pending = link[u].pending
  BY <1>1, FreshFact DEF DatabaseInv, DatabaseTyped
<1>6. /\ request' \in [Threads -> Request] /\ answer' \in [Writes -> {"none", "asked", "done", "failed"}]
      /\ request'[t].at = "away" /\ answer'[request[t].write] = "failed"
      /\ \A u \in Threads : u # t => request'[u] = request[u] /\ (InCall(u) => request[u].write # request[t].write)
      /\ \A w \in Writes : w # request[t].write => answer'[w] = answer[w]
  BY <1>1, ToldFact
<1>7. DatabaseTyped'
  BY <1>1, <1>5, <1>6 DEF DatabaseInv, DatabaseTyped
<1>8. \A u \in Threads : InCall(u)' => request'[u].write # request[t].write
  BY <1>6 DEF InCall
<1>9. \A u \in Threads : request'[u].at = "away" \/ (request'[u] = request[u] /\ link'[u].pending = link[u].pending)
  BY <1>5, <1>6
<1>10. \A w \in Writes :
         \/ answer'[w] = answer[w]
         \/ answer'[w] = "failed" /\ \A u \in Threads : InCall(u)' => request'[u].write # w
  BY <1>6, <1>8
<1>11. \A u \in Threads : link'[u].pending = link[u].pending \/ link'[u].pending = <<>>
  BY <1>5
<1> QED BY <1>1, <1>7, <1>9, <1>10, <1>11, CallsGoOn

LEMMA ReadKeeps == ASSUME DatabaseInv, NEW t \in Threads, Read(t) PROVE DatabaseInv'
<1>1. /\ link' = [link EXCEPT ![t].seen = version] /\ request' = request
      /\ stored' = stored /\ version' = version /\ answer' = answer
  BY DEF Read
<1>2. PICK l \in Link : l = link[t]
  BY DEF DatabaseInv, DatabaseTyped
<1> DEFINE begun == [l EXCEPT !.seen = version]
<1>3. begun \in Link /\ begun.pending = l.pending
  BY DEF Link, DatabaseInv, DatabaseTyped
<1>4. link' = [link EXCEPT ![t] = begun]
  BY <1>1, <1>2
<1> HIDE DEF begun
<1>5. link' \in [Threads -> Link] /\ \A u \in Threads : link'[u].pending = link[u].pending
  BY <1>2, <1>3, <1>4 DEF DatabaseInv, DatabaseTyped
<1>6. DatabaseTyped'
  BY <1>1, <1>5 DEF DatabaseInv, DatabaseTyped
<1> QED BY <1>1, <1>5, <1>6, CallsGoOn

LEMMA CloseKeeps == ASSUME DatabaseInv, NEW t \in Threads, Close(t) PROVE DatabaseInv'
<1>1. /\ link' = [link EXCEPT ![t] = Fresh] /\ request' = request /\ request[t].at = "away"
      /\ stored' = stored /\ version' = version /\ answer' = answer
  BY DEF Close, RollBack, InCall
<1>2. /\ link' \in [Threads -> Link] /\ link'[t].pending = <<>>
      /\ \A u \in Threads : u # t => link'[u].pending = link[u].pending
  BY <1>1, FreshFact DEF DatabaseInv, DatabaseTyped
<1>3. DatabaseTyped'
  BY <1>1, <1>2 DEF DatabaseInv, DatabaseTyped
<1>4. \A u \in Threads : request'[u].at = "away" \/ (request'[u] = request[u] /\ link'[u].pending = link[u].pending)
  BY <1>1, <1>2
<1>5. \A u \in Threads : link'[u].pending = link[u].pending \/ link'[u].pending = <<>>
  BY <1>2
<1> QED BY <1>1, <1>3, <1>4, <1>5, CallsGoOn

LEMMA DieKeeps == ASSUME DatabaseInv, NEW p \in Processes, Die(p) PROVE DatabaseInv'
<1> DEFINE gone == {t \in Threads : ProcessOf[t] = p}
<1>1. /\ link' = [t \in Threads |-> IF t \in gone THEN Fresh ELSE link[t]]
      /\ request' = [t \in Threads |-> IF t \in gone THEN Away ELSE request[t]]
      /\ stored' = stored /\ version' = version /\ answer' = answer
  BY DEF Die
<1> HIDE DEF gone
<1>2. /\ link' \in [Threads -> Link] /\ request' \in [Threads -> Request]
      /\ \A t \in Threads : \/ link'[t].pending = <<>> /\ request'[t].at = "away"
                            \/ link'[t] = link[t] /\ request'[t] = request[t]
  BY <1>1, FreshFact, AwayFact DEF DatabaseInv, DatabaseTyped
<1>3. DatabaseTyped'
  BY <1>1, <1>2 DEF DatabaseInv, DatabaseTyped
<1>4. \A u \in Threads : request'[u].at = "away" \/ (request'[u] = request[u] /\ link'[u].pending = link[u].pending)
  BY <1>2
<1>5. \A u \in Threads : link'[u].pending = link[u].pending \/ link'[u].pending = <<>>
  BY <1>2
<1> QED BY <1>1, <1>3, <1>4, <1>5, CallsGoOn

LEMMA JoinFact ==
    ASSUME NEW a \in Seq(Rows), NEW b \in Seq(Rows)
    PROVE  /\ a \o b \in Seq(Rows) /\ Len(a) \in Nat /\ Len(b) \in Nat /\ Len(a \o b) = Len(a) + Len(b)
           /\ \A i \in 1..Len(a) : (a \o b)[i] = a[i] /\ i \in 1..Len(a \o b)
           /\ \A i \in 1..Len(b) : (a \o b)[Len(a) + i] = b[i] /\ Len(a) + i \in 1..Len(a \o b)
           /\ \A k \in 1..Len(a \o b) : k \in 1..Len(a) \/ \E i \in 1..Len(b) : k = Len(a) + i
<1>1. a \o b \in Seq(Rows) /\ Len(a) \in Nat /\ Len(b) \in Nat /\ Len(a \o b) = Len(a) + Len(b)
  OBVIOUS
<1>2. \A i \in 1..Len(a) : (a \o b)[i] = a[i] /\ i \in 1..Len(a \o b)
  BY <1>1
<1>3. \A i \in 1..Len(b) : (a \o b)[Len(a) + i] = b[i] /\ Len(a) + i \in 1..Len(a \o b)
  OBVIOUS
<1>4. ASSUME NEW k \in 1..Len(a \o b), k \notin 1..Len(a) PROVE \E i \in 1..Len(b) : k = Len(a) + i
  <2>1. k - Len(a) \in 1..Len(b) /\ k = Len(a) + (k - Len(a))
    BY <1>1, <1>4
  <2> QED BY <2>1
<1> QED BY <1>1, <1>2, <1>3, <1>4

\* A statement goes into the transaction of its connection.
LEMMA RowsJoin ==
    ASSUME DatabaseInv, NEW t \in Threads, request[t].at = "trying", Begun(t), stored' = stored
    PROVE  /\ RowsApart' /\ link' \in [Threads -> Link] /\ request[t].write \in Writes
           /\ \A u \in Threads : u # t => RowsIn(u)' = RowsIn(u)
           /\ Whole(request[t].write) => OwnRows(request[t].write) \subseteq RowsIn(t)'
           /\ \A r : r \notin OwnRows(request[t].write) /\ Nowhere(r) => Nowhere(r)'
<1>1. InCall(t) /\ request[t].write \in Writes
  BY DEF InCall, DatabaseInv, OneCaller
<1>2. PICK w \in Writes : w = request[t].write
  BY <1>1
<1> DEFINE old == link[t].pending
           new == old \o Taken(w)
<1>3. \A r \in OwnRows(w) : Nowhere(r)
  <2>1. Untouched(w)
    BY <1>2 DEF Untouched
  <2> QED BY <2>1 DEF DatabaseInv, Placed
<1>4. /\ old \in Seq(Rows) /\ RowsIn(t) = {old[i] : i \in 1..Len(old)}
      /\ \A i, j \in 1..Len(old) : old[i] = old[j] => i = j
  BY PendingFact DEF DatabaseInv, RowsApart, RowsIn
<1>5. /\ Taken(w) \in Seq(Rows) /\ Len(Taken(w)) \in Nat
      /\ \A i \in 1..Len(Taken(w)) : Taken(w)[i] \in OwnRows(w)
      /\ \A i, j \in 1..Len(Taken(w)) : Taken(w)[i] = Taken(w)[j] => i = j
  BY TakenFact
<1>6. PICK taken \in Seq(Rows) : taken = Taken(w)
  BY <1>5
<1>7. link' = [link EXCEPT ![t] = [open |-> TRUE, seen |-> version, pending |-> new]]
  BY <1>2 DEF Begun
<1> HIDE DEF old
<1>8. /\ new \in Seq(Rows) /\ Len(old) \in Nat /\ Len(taken) \in Nat
      /\ \A i \in 1..Len(old) : new[i] = old[i] /\ i \in 1..Len(new)
      /\ \A i \in 1..Len(taken) : new[Len(old) + i] = taken[i] /\ Len(old) + i \in 1..Len(new)
      /\ \A k \in 1..Len(new) : k \in 1..Len(old) \/ \E i \in 1..Len(taken) : k = Len(old) + i
  <2>1. new = old \o taken
    BY <1>6
  <2> HIDE DEF new
  <2>2. PICK before \in Seq(Rows) : before = old
    BY <1>4
  <2>3. new = before \o taken
    BY <2>1, <2>2
  <2> QED BY <2>2, <2>3, JoinFact
<1> HIDE DEF new
<1>9. /\ link' \in [Threads -> Link] /\ link'[t].pending = new
      /\ \A u \in Threads : u # t => link'[u] = link[u]
  <2>1. [open |-> TRUE, seen |-> version, pending |-> new] \in Link
    BY <1>8 DEF Link, DatabaseInv, DatabaseTyped
  <2> QED BY <1>7, <2>1 DEF DatabaseInv, DatabaseTyped
<1>10. \A u \in Threads : u # t => RowsIn(u)' = RowsIn(u)
  BY <1>9 DEF RowsIn
<1>11. RowsIn(t)' = {new[i] : i \in 1..Len(new)}
  BY <1>9 DEF RowsIn
<1>12. \A r \in RowsIn(t)' : r \in RowsIn(t) \/ r \in OwnRows(w)
  <2> SUFFICES ASSUME NEW k \in 1..Len(new) PROVE new[k] \in RowsIn(t) \/ new[k] \in OwnRows(w)
    BY <1>11
  <2>1. CASE k \in 1..Len(old)
    BY <1>4, <1>8, <2>1
  <2>2. CASE \E i \in 1..Len(taken) : k = Len(old) + i
    BY <1>5, <1>6, <1>8, <2>2
  <2> QED BY <1>8, <2>1, <2>2
<1>13. ASSUME NEW k \in 1..Len(new), NEW m \in 1..Len(new), new[k] = new[m] PROVE k = m
  <2>1. \A i \in 1..Len(old), j \in 1..Len(taken) : old[i] # taken[j]
    <3> SUFFICES ASSUME NEW i \in 1..Len(old), NEW j \in 1..Len(taken), old[i] = taken[j] PROVE FALSE
      OBVIOUS
    <3>1. taken[j] \in OwnRows(w) /\ old[i] \in RowsIn(t)
      BY <1>4, <1>5, <1>6
    <3> QED BY <1>3, <3>1 DEF Nowhere
  <2>2. CASE k \in 1..Len(old) /\ m \in 1..Len(old)
    BY <1>4, <1>8, <1>13, <2>2
  <2>3. CASE k \in 1..Len(old) /\ \E i \in 1..Len(taken) : m = Len(old) + i
    BY <1>8, <1>13, <2>1, <2>3
  <2>4. CASE m \in 1..Len(old) /\ \E i \in 1..Len(taken) : k = Len(old) + i
    BY <1>8, <1>13, <2>1, <2>4
  <2>5. CASE (\E i \in 1..Len(taken) : m = Len(old) + i) /\ \E i \in 1..Len(taken) : k = Len(old) + i
    <3>1. PICK i \in 1..Len(taken), j \in 1..Len(taken) : m = Len(old) + i /\ k = Len(old) + j
      BY <2>5
    <3>2. taken[i] = taken[j]
      BY <1>8, <1>13, <3>1
    <3>3. i = j
      BY <1>5, <1>6, <3>2
    <3> QED BY <3>1, <3>3
  <2> QED BY <1>8, <2>2, <2>3, <2>4, <2>5
<1>14. RowsApart'
  <2>1. \A u \in Threads : \A i, j \in 1..Len(link'[u].pending) : link'[u].pending[i] = link'[u].pending[j] => i = j
    <3> SUFFICES ASSUME NEW u \in Threads
                 PROVE  \A i, j \in 1..Len(link'[u].pending) : link'[u].pending[i] = link'[u].pending[j] => i = j
      OBVIOUS
    <3>1. CASE u = t
      BY <1>9, <1>13, <3>1
    <3>2. CASE u # t
      BY <1>9, <3>2 DEF DatabaseInv, RowsApart
    <3> QED BY <3>1, <3>2
  <2>2. ASSUME NEW u \in Threads, NEW v \in Threads, NEW r \in RowsIn(u)', r \in RowsIn(v)' PROVE u = v
    <3>1. \A x \in Threads : r \in RowsIn(x)' => r \in RowsIn(x) \/ (x = t /\ r \in OwnRows(w))
      BY <1>10, <1>12
    <3>2. \A x \in Threads : r \in OwnRows(w) => r \notin RowsIn(x)
      BY <1>3 DEF Nowhere
    <3> QED BY <2>2, <3>1, <3>2 DEF DatabaseInv, RowsApart
  <2>3. ASSUME NEW u \in Threads, NEW r \in RowsIn(u)' PROVE stored'[r] = 0
    <3>1. r \in RowsIn(u) \/ r \in OwnRows(w)
      BY <1>10, <1>12
    <3> QED BY <1>3, <3>1 DEF DatabaseInv, RowsApart, Nowhere
  <2>4. \A r \in Rows : stored'[r] <= 1
    BY DEF DatabaseInv, RowsApart
  <2> QED BY <2>1, <2>2, <2>3, <2>4 DEF RowsApart
<1>15. Whole(w) => OwnRows(w) \subseteq RowsIn(t)'
  <2> SUFFICES ASSUME Whole(w), NEW i \in 1..Len(RowsOf[w]) PROVE RowsOf[w][i] \in RowsIn(t)'
    BY DEF OwnRows
  <2>1. taken = RowsOf[w]
    BY <1>6 DEF Whole
  <2> QED BY <1>8, <1>11, <2>1
<1>16. \A r : r \notin OwnRows(w) /\ Nowhere(r) => Nowhere(r)'
  BY <1>10, <1>12 DEF Nowhere
<1> QED BY <1>2, <1>9, <1>10, <1>14, <1>15, <1>16

LEMMA ApplyKeeps == ASSUME DatabaseInv, NEW t \in Threads, Apply(t) PROVE DatabaseInv'
<1>1. /\ request[t].at = "trying" /\ Whole(request[t].write) /\ Begun(t)
      /\ request' = [request EXCEPT ![t].at = "applied"]
      /\ stored' = stored /\ version' = version /\ answer' = answer
  BY DEF Apply
<1>2. /\ RowsApart' /\ link' \in [Threads -> Link] /\ request[t].write \in Writes
      /\ \A u \in Threads : u # t => RowsIn(u)' = RowsIn(u)
      /\ OwnRows(request[t].write) \subseteq RowsIn(t)'
      /\ \A r : r \notin OwnRows(request[t].write) /\ Nowhere(r) => Nowhere(r)'
  BY <1>1, RowsJoin
<1>3. PICK q \in Request : q = request[t]
  BY DEF DatabaseInv, DatabaseTyped
<1> DEFINE next == [q EXCEPT !.at = "applied"]
<1>4. next \in Request /\ next.at = "applied" /\ next.write = q.write
  BY DEF Request
<1>5. request' = [request EXCEPT ![t] = next]
  BY <1>1, <1>3
<1> HIDE DEF next
<1>6. /\ DatabaseTyped' /\ request'[t] = next /\ \A u \in Threads : u # t => request'[u] = request[u]
  BY <1>1, <1>2, <1>4, <1>5 DEF DatabaseInv, DatabaseTyped
<1>7. OneCaller'
  <2>1. \A u \in Threads : InCall(u)' => InCall(u) /\ request'[u].write = request[u].write
    BY <1>1, <1>3, <1>4, <1>6 DEF InCall
  <2> QED BY <1>1, <2>1 DEF DatabaseInv, OneCaller
<1>8. ASSUME NEW v \in Writes, Untouched(v)', NEW r \in OwnRows(v) PROVE Nowhere(r)'
  <2>1. InCall(t)
    BY <1>1 DEF InCall
  <2>2. Untouched(v) /\ v # request[t].write
    <3>1. CASE answer'[v] = "none"
      BY <1>1, <2>1, <3>1 DEF Untouched, DatabaseInv, OneCaller
    <3>2. CASE \E u \in Threads : request'[u].at \in {"queueing", "trying"} /\ request'[u].write = v
      <4>1. PICK u \in Threads : request'[u].at \in {"queueing", "trying"} /\ request'[u].write = v
        BY <3>2
      <4>2. u # t /\ request'[u] = request[u]
        BY <1>4, <1>6, <4>1
      <4>3. InCall(u) /\ request[u].write = v /\ request[u].at \in {"queueing", "trying"}
        BY <4>1, <4>2 DEF InCall
      <4> QED BY <2>1, <4>2, <4>3 DEF Untouched, DatabaseInv, OneCaller
    <3> QED BY <1>8, <3>1, <3>2 DEF Untouched
  <2>3. r \notin OwnRows(request[t].write)
    BY <1>2, <2>2, OwnRowsApart
  <2> QED BY <1>2, <2>2, <2>3 DEF DatabaseInv, Placed
<1>9. ASSUME NEW u \in Threads, request'[u].at = "applied" PROVE OwnRows(request'[u].write) \subseteq RowsIn(u)'
  <2>1. CASE u = t
    BY <1>2, <1>3, <1>4, <1>6, <2>1
  <2>2. CASE u # t
    BY <1>2, <1>6, <1>9, <2>2 DEF DatabaseInv, Placed
  <2> QED BY <2>1, <2>2
<1>10. \A v \in Writes : answer'[v] = "done" => \A r \in OwnRows(v) : stored'[r] = 1
  BY <1>1 DEF DatabaseInv, Placed
<1>11. Placed'
  BY <1>8, <1>9, <1>10 DEF Placed
<1> QED BY <1>2, <1>6, <1>7, <1>11 DEF DatabaseInv

LEMMA RefuseKeeps == ASSUME DatabaseInv, NEW t \in Threads, Refuse(t) PROVE DatabaseInv'
<1>1. request[t].at = "trying" /\ Begun(t) /\ Told(t, "failed") /\ stored' = stored /\ version' = version
  BY DEF Refuse
<1>2. /\ RowsApart' /\ link' \in [Threads -> Link] /\ request[t].write \in Writes
      /\ \A u \in Threads : u # t => RowsIn(u)' = RowsIn(u)
      /\ \A r : r \notin OwnRows(request[t].write) /\ Nowhere(r) => Nowhere(r)'
  BY <1>1, RowsJoin
<1>3. /\ request' \in [Threads -> Request] /\ answer' \in [Writes -> {"none", "asked", "done", "failed"}]
      /\ request'[t].at = "away" /\ answer'[request[t].write] = "failed"
      /\ \A u \in Threads : u # t => request'[u] = request[u] /\ (InCall(u) => request[u].write # request[t].write)
      /\ \A w \in Writes : w # request[t].write => answer'[w] = answer[w]
  BY <1>1, ToldFact
<1>4. DatabaseTyped'
  BY <1>1, <1>2, <1>3 DEF DatabaseInv, DatabaseTyped
<1>5. \A u \in Threads : InCall(u)' => u # t /\ request'[u] = request[u] /\ InCall(u)
  BY <1>3 DEF InCall
<1>6. OneCaller'
  BY <1>3, <1>5 DEF DatabaseInv, OneCaller
<1>7. ASSUME NEW v \in Writes, Untouched(v)', NEW r \in OwnRows(v) PROVE Nowhere(r)'
  <2>1. Untouched(v) /\ v # request[t].write
    <3>1. CASE answer'[v] = "none"
      BY <1>3, <3>1 DEF Untouched
    <3>2. CASE \E u \in Threads : request'[u].at \in {"queueing", "trying"} /\ request'[u].write = v
      <4>1. PICK u \in Threads : request'[u].at \in {"queueing", "trying"} /\ request'[u].write = v
        BY <3>2
      <4>2. u # t /\ request'[u] = request[u] /\ InCall(u)
        BY <1>5, <4>1 DEF InCall
      <4> QED BY <1>3, <4>1, <4>2 DEF Untouched
    <3> QED BY <1>7, <3>1, <3>2 DEF Untouched
  <2>2. r \notin OwnRows(request[t].write)
    BY <1>2, <2>1, OwnRowsApart
  <2> QED BY <1>2, <2>1, <2>2 DEF DatabaseInv, Placed
<1>8. ASSUME NEW u \in Threads, request'[u].at = "applied" PROVE OwnRows(request'[u].write) \subseteq RowsIn(u)'
  <2>1. u # t
    BY <1>3, <1>8
  <2> QED BY <1>2, <1>3, <1>8, <2>1 DEF DatabaseInv, Placed
<1>9. \A v \in Writes : answer'[v] = "done" => \A r \in OwnRows(v) : stored'[r] = 1
  BY <1>1, <1>3 DEF DatabaseInv, Placed
<1>10. Placed'
  BY <1>7, <1>8, <1>9 DEF Placed
<1> QED BY <1>2, <1>4, <1>6, <1>10 DEF DatabaseInv

\* A row that a connection holds is held once.
LEMMA CopiesFact ==
    ASSUME DatabaseTyped, RowsApart, NEW t \in Threads, NEW r
    PROVE  Copies(t, r) = IF r \in RowsIn(t) THEN 1 ELSE 0
<1> DEFINE places == {i \in DOMAIN link[t].pending : link[t].pending[i] = r}
<1>1. DOMAIN link[t].pending = 1..Len(link[t].pending)
  BY PendingFact
<1>2. \A i, j \in 1..Len(link[t].pending) : link[t].pending[i] = link[t].pending[j] => i = j
  BY DEF RowsApart
<1>3. CASE r \notin RowsIn(t)
  <2>1. places = {}
    BY <1>1, <1>3 DEF RowsIn
  <2> QED BY <1>3, <2>1, FS_EmptySet DEF Copies
<1>4. CASE r \in RowsIn(t)
  <2>1. PICK i \in 1..Len(link[t].pending) : link[t].pending[i] = r
    BY <1>4 DEF RowsIn
  <2>2. places = {i}
    BY <1>1, <1>2, <2>1
  <2> QED BY <1>4, <2>2, FS_Singleton DEF Copies
<1> QED BY <1>3, <1>4

LEMMA FinishKeeps == ASSUME DatabaseInv, NEW t \in Threads, Finish(t) PROVE DatabaseInv'
<1>1. /\ request[t].at = "applied" /\ Told(t, "done") /\ link' = [link EXCEPT ![t] = Fresh]
      /\ stored' = [r \in Rows |-> stored[r] + Copies(t, r)] /\ version' = version + 1
  BY DEF Finish, Commit, RollBack
<1>2. /\ link' \in [Threads -> Link] /\ link'[t].pending = <<>>
      /\ \A u \in Threads : u # t => link'[u] = link[u]
  BY <1>1, FreshFact DEF DatabaseInv, DatabaseTyped
<1>3. RowsIn(t)' = {} /\ \A u \in Threads : u # t => RowsIn(u)' = RowsIn(u)
  BY <1>2 DEF RowsIn
<1>4. \A r \in Rows : stored'[r] = stored[r] + (IF r \in RowsIn(t) THEN 1 ELSE 0)
  BY <1>1, CopiesFact DEF DatabaseInv
<1>5. \A r \in RowsIn(t) : r \in Rows /\ stored[r] = 0
  BY PendingFact DEF DatabaseInv, RowsApart
<1>6. \A r \in Rows : stored[r] \in Nat /\ stored[r] <= 1
  BY DEF DatabaseInv, DatabaseTyped, RowsApart
<1>7. /\ \A r \in RowsIn(t) : stored'[r] = 1
      /\ \A r \in Rows : r \notin RowsIn(t) => stored'[r] = stored[r]
  BY <1>4, <1>5, <1>6
<1>8. /\ request' \in [Threads -> Request] /\ answer' \in [Writes -> {"none", "asked", "done", "failed"}]
      /\ request[t].write \in Writes /\ request'[t].at = "away" /\ answer'[request[t].write] = "done"
      /\ \A u \in Threads : u # t => request'[u] = request[u] /\ (InCall(u) => request[u].write # request[t].write)
      /\ \A w \in Writes : w # request[t].write => answer'[w] = answer[w]
  BY <1>1, ToldFact
<1>9. DatabaseTyped'
  <2>1. stored' \in [Rows -> Nat]
    <3>1. \A r \in Rows : stored'[r] \in Nat
      BY <1>6, <1>7
    <3> QED BY <1>1, <3>1
  <2> QED BY <1>1, <1>2, <1>8, <2>1 DEF DatabaseInv, DatabaseTyped
<1>10. \A u \in Threads : InCall(u)' => u # t /\ request'[u] = request[u] /\ InCall(u)
  BY <1>8 DEF InCall
<1>11. OneCaller'
  BY <1>8, <1>10 DEF DatabaseInv, OneCaller
<1>12. RowsApart'
  <2>1. \A u \in Threads : \A i, j \in 1..Len(link'[u].pending) : link'[u].pending[i] = link'[u].pending[j] => i = j
    <3>1. Len(link'[t].pending) = 0
      BY <1>2
    <3> QED BY <1>2, <3>1 DEF DatabaseInv, RowsApart
  <2>2. \A u, v \in Threads : \A r \in RowsIn(u)' : r \in RowsIn(v)' => u = v
    BY <1>3 DEF DatabaseInv, RowsApart
  <2>3. ASSUME NEW u \in Threads, NEW r \in RowsIn(u)' PROVE stored'[r] = 0
    <3>1. u # t /\ r \in RowsIn(u)
      BY <1>3, <2>3
    <3>2. r \notin RowsIn(t) /\ r \in Rows /\ stored[r] = 0
      BY <3>1, PendingFact DEF DatabaseInv, RowsApart
    <3> QED BY <1>7, <3>2
  <2>4. \A r \in Rows : stored'[r] <= 1
    BY <1>6, <1>7
  <2> QED BY <2>1, <2>2, <2>3, <2>4 DEF RowsApart
<1>13. OwnRows(request[t].write) \subseteq RowsIn(t)
  BY <1>1 DEF DatabaseInv, Placed
<1>14. ASSUME NEW v \in Writes, Untouched(v)', NEW r \in OwnRows(v) PROVE Nowhere(r)'
  <2>1. Untouched(v)
    <3>1. CASE answer'[v] = "none"
      BY <1>8, <3>1 DEF Untouched
    <3>2. CASE \E u \in Threads : request'[u].at \in {"queueing", "trying"} /\ request'[u].write = v
      BY <1>10, <3>2 DEF Untouched, InCall
    <3> QED BY <1>14, <3>1, <3>2 DEF Untouched
  <2>2. r \in Rows /\ Nowhere(r)
    BY <2>1, OwnRowsFact DEF DatabaseInv, Placed
  <2>3. stored'[r] = 0
    BY <1>7, <2>2 DEF Nowhere
  <2> QED BY <1>3, <2>2, <2>3 DEF Nowhere
<1>15. ASSUME NEW u \in Threads, request'[u].at = "applied" PROVE OwnRows(request'[u].write) \subseteq RowsIn(u)'
  <2>1. u # t
    BY <1>8, <1>15
  <2> QED BY <1>3, <1>8, <1>15, <2>1 DEF DatabaseInv, Placed
<1>16. ASSUME NEW v \in Writes, answer'[v] = "done", NEW r \in OwnRows(v) PROVE stored'[r] = 1
  <2>1. CASE v = request[t].write
    BY <1>7, <1>13, <2>1
  <2>2. CASE v # request[t].write
    <3>1. stored[r] = 1 /\ r \in Rows
      BY <1>8, <1>16, <2>2, OwnRowsFact DEF DatabaseInv, Placed
    <3>2. r \notin RowsIn(t)
      BY <1>5, <3>1
    <3> QED BY <1>7, <3>1, <3>2
  <2> QED BY <2>1, <2>2
<1>17. Placed'
  BY <1>14, <1>15, <1>16 DEF Placed
<1> QED BY <1>9, <1>11, <1>12, <1>17 DEF DatabaseInv

LEMMA DatabaseStep == DatabaseInv /\ [DatabaseNext]_databaseVars => DatabaseInv'
<1> SUFFICES ASSUME DatabaseInv, [DatabaseNext]_databaseVars PROVE DatabaseInv'
  OBVIOUS
<1>1. ASSUME NEW t \in Threads, Carry(t) PROVE DatabaseInv'
  BY <1>1, TakeMutexKeeps, RetryKeeps, GiveUpKeeps, ApplyKeeps, RefuseKeeps, AbortKeeps, FinishKeeps DEF Carry
<1>2. ASSUME NEW t \in Threads, Read(t) \/ Close(t) PROVE DatabaseInv'
  BY <1>2, ReadKeeps, CloseKeeps
<1>3. ASSUME NEW t \in Threads, NEW w \in Writes, NEW explicit \in BOOLEAN, Write(t, w, explicit) PROVE DatabaseInv'
  BY <1>3, WriteKeeps
<1>4. ASSUME NEW p \in Processes, Die(p) PROVE DatabaseInv'
  BY <1>4, DieKeeps
<1>5. CASE UNCHANGED databaseVars
  <2>1. /\ stored' = stored /\ version' = version /\ link' = link /\ request' = request /\ answer' = answer
    BY <1>5 DEF databaseVars
  <2>2. DatabaseTyped'
    BY <2>1 DEF DatabaseInv, DatabaseTyped
  <2> QED BY <2>1, <2>2, CallsGoOn
<1> QED BY <1>1, <1>2, <1>3, <1>4, <1>5 DEF DatabaseNext

LEMMA PlacedOnce == DatabaseInv => WrittenOnce
<1> SUFFICES ASSUME DatabaseInv, NEW w \in Writes, NEW r \in ToSet(RowsOf[w])
             PROVE  stored[r] <= 1 /\ (answer[w] = "done" => stored[r] = 1)
  BY DEF WrittenOnce
<1>1. DOMAIN RowsOf[w] = 1..Len(RowsOf[w])
  BY RowsFact
<1>2. r \in OwnRows(w)
  BY <1>1 DEF ToSet, OwnRows
<1>3. r \in Rows
  BY <1>2, OwnRowsFact
<1> QED BY <1>2, <1>3 DEF DatabaseInv, RowsApart, Placed

\* _locked() repeats a locked statement, a refused one leaves its first rows in the
\* thread's open transaction for a later commit to carry, transaction() rolls back,
\* connections are closed and processes die in the middle of a call: for every number of
\* threads, processes and writes no row is written twice, and what execute(),
\* executemany() or transaction() returned from is in the file once and for good.
THEOREM AlwaysWrittenOnce == DatabaseSpec => []WrittenOnce
<1>1. DatabaseSpec => []DatabaseInv
  BY DatabaseStart, DatabaseStep, PTL DEF DatabaseSpec
<1> QED BY <1>1, PlacedOnce, PTL

\* Who is at SQLite holds the lock of its process, and who has rows not yet committed is
\* SQLite's writer.
LocksFit ==
    /\ writer \in Threads \cup {Nobody} /\ mutex \in [Processes -> Threads \cup {Nobody}]
    /\ \A t \in Threads : Writing(t) => mutex[ProcessOf[t]] = t
    /\ \A t \in Threads : link[t].pending # <<>> => writer = t

LEMMA ToldKeepsLocks ==
    ASSUME DatabaseTyped, LocksFit, NEW t \in Threads, NEW what, Writing(t), Told(t, what)
    PROVE  /\ mutex' \in [Processes -> Threads \cup {Nobody}]
           /\ \A u \in Threads : Writing(u)' => mutex'[ProcessOf[u]] = u
<1>1. ProcessOf \in [Threads -> Processes]
  BY DatabaseAssumption
<1>2. mutex' = [mutex EXCEPT ![ProcessOf[t]] = Nobody] /\ request' = [request EXCEPT ![t] = Away]
  BY DEF Told
<1>3. mutex' \in [Processes -> Threads \cup {Nobody}]
  BY <1>1, <1>2 DEF LocksFit
<1>4. ASSUME NEW u \in Threads, Writing(u)' PROVE mutex'[ProcessOf[u]] = u
  <2>1. u # t /\ request'[u] = request[u]
    <3>1. request'[t] = Away /\ \A v \in Threads : v # t => request'[v] = request[v]
      BY <1>2 DEF DatabaseTyped
    <3> QED BY <1>4, <3>1, AwayFact DEF Writing
  <2>2. Writing(u)
    BY <1>4, <2>1 DEF Writing
  <2>3. mutex[ProcessOf[u]] = u /\ mutex[ProcessOf[t]] = t
    BY <2>2 DEF LocksFit
  <2>4. ProcessOf[u] # ProcessOf[t] /\ ProcessOf[u] \in Processes
    BY <1>1, <2>1, <2>3
  <2> QED BY <1>2, <2>3, <2>4 DEF LocksFit
<1> QED BY <1>3, <1>4

LEMMA BegunKeepsLocks ==
    ASSUME DatabaseTyped, LocksFit, NEW t \in Threads, ~Locked(t), Begun(t)
    PROVE  /\ writer' \in Threads \cup {Nobody}
           /\ \A u \in Threads : link'[u].pending # <<>> => writer' = u
<1>1. writer' = t /\ writer \in {t, Nobody}
  BY DEF Begun, Locked
<1>2. \A u \in Threads : u # t => link'[u] = link[u]
  BY DEF Begun, DatabaseTyped
<1>3. \A u \in Threads : u # t => link[u].pending = <<>>
  BY <1>1, DatabaseAssumption DEF LocksFit
<1> QED BY <1>1, <1>2, <1>3

LEMMA RollBackKeepsLocks ==
    ASSUME DatabaseTyped, LocksFit, NEW t \in Threads, RollBack(t)
    PROVE  /\ writer' \in Threads \cup {Nobody}
           /\ \A u \in Threads : link'[u].pending # <<>> => writer' = u
<1>1. link' = [link EXCEPT ![t] = Fresh] /\ writer' = IF writer = t THEN Nobody ELSE writer
  BY DEF RollBack
<1>2. link'[t].pending = <<>> /\ \A u \in Threads : u # t => link'[u] = link[u]
  BY <1>1, FreshFact DEF DatabaseTyped
<1> QED BY <1>1, <1>2 DEF LocksFit

LEMMA LocksStep == DatabaseInv /\ LocksFit /\ [DatabaseNext]_databaseVars => LocksFit'
<1> SUFFICES ASSUME DatabaseInv, LocksFit, [DatabaseNext]_databaseVars PROVE LocksFit'
  OBVIOUS
<1>1. DatabaseTyped /\ ProcessOf \in [Threads -> Processes] /\ Nobody \notin Threads
  BY DatabaseAssumption DEF DatabaseInv
\* Opening a transaction or pinning what it reads leaves its rows alone.
<1>3. ASSUME NEW t \in Threads, link' = [link EXCEPT ![t].open = TRUE] \/ link' = [link EXCEPT ![t].seen = version]
      PROVE  \A u \in Threads : link'[u].pending = link[u].pending
  <2>1. link \in [Threads -> Link]
    BY <1>1 DEF DatabaseTyped
  <2>2. CASE link' = [link EXCEPT ![t].open = TRUE]
    BY <2>1, <2>2 DEF Link
  <2>3. CASE link' = [link EXCEPT ![t].seen = version]
    BY <2>1, <2>3 DEF Link
  <2> QED BY <1>3, <2>2, <2>3
<1>4. ASSUME NEW t \in Threads, TakeMutex(t) PROVE LocksFit'
  <2>1. /\ mutex[ProcessOf[t]] = Nobody /\ mutex' = [mutex EXCEPT ![ProcessOf[t]] = t]
        /\ request' = [request EXCEPT ![t].at = "trying"] /\ UNCHANGED <<link, writer>>
    BY <1>4 DEF TakeMutex
  <2>2. mutex' \in [Processes -> Threads \cup {Nobody}] /\ mutex'[ProcessOf[t]] = t
    BY <1>1, <2>1 DEF LocksFit
  <2>3. ASSUME NEW u \in Threads, Writing(u)' PROVE mutex'[ProcessOf[u]] = u
    <3>1. CASE u = t
      BY <2>2, <3>1
    <3>2. CASE u # t
      <4>1. request'[u] = request[u]
        BY <1>1, <2>1, <3>2 DEF DatabaseTyped
      <4>2. mutex[ProcessOf[u]] = u
        BY <2>3, <4>1 DEF Writing, LocksFit
      <4>3. ProcessOf[u] # ProcessOf[t] /\ ProcessOf[u] \in Processes
        BY <1>1, <2>1, <4>2
      <4> QED BY <2>1, <4>2, <4>3 DEF LocksFit
    <3> QED BY <3>1, <3>2
  <2> QED BY <2>1, <2>2, <2>3 DEF LocksFit
<1>5. ASSUME NEW t \in Threads, Retry(t) PROVE LocksFit'
  <2>1. /\ request' = [request EXCEPT ![t].at = "queueing", ![t].attempt = @ + 1]
        /\ mutex' = [mutex EXCEPT ![ProcessOf[t]] = Nobody]
        /\ link' = [link EXCEPT ![t].open = TRUE] /\ writer' = writer /\ Writing(t)
    BY <1>5 DEF Retry, Writing
  <2>2. ~Writing(t)' /\ \A u \in Threads : u # t => request'[u] = request[u]
    <3>1. request \in [Threads -> Request]
      BY <1>1 DEF DatabaseTyped
    <3>2. request'[t].at = "queueing"
      BY <2>1, <3>1 DEF Request
    <3> QED BY <2>1, <3>1, <3>2 DEF Writing
  <2>3. mutex' \in [Processes -> Threads \cup {Nobody}]
    BY <1>1, <2>1 DEF LocksFit
  <2>4. ASSUME NEW u \in Threads, Writing(u)' PROVE mutex'[ProcessOf[u]] = u
    <3>1. u # t /\ mutex[ProcessOf[u]] = u /\ mutex[ProcessOf[t]] = t
      BY <2>1, <2>2, <2>4 DEF Writing, LocksFit
    <3>2. ProcessOf[u] # ProcessOf[t] /\ ProcessOf[u] \in Processes
      BY <1>1, <3>1
    <3> QED BY <2>1, <3>1, <3>2 DEF LocksFit
  <2> QED BY <1>3, <2>1, <2>3, <2>4 DEF LocksFit
<1>6. ASSUME NEW t \in Threads, GiveUp(t) PROVE LocksFit'
  <2>1. Writing(t) /\ link' = [link EXCEPT ![t].open = TRUE] /\ Told(t, "failed") /\ writer' = writer
    BY <1>6 DEF GiveUp, Writing
  <2> QED BY <1>1, <1>3, <2>1, ToldKeepsLocks DEF LocksFit
<1>7. ASSUME NEW t \in Threads, Apply(t) PROVE LocksFit'
  <2>1. /\ Writing(t) /\ ~Locked(t) /\ Begun(t) /\ mutex' = mutex
        /\ request' = [request EXCEPT ![t].at = "applied"]
    BY <1>7 DEF Apply, Writing
  <2>2. \A u \in Threads : Writing(u)' => Writing(u)
    BY <1>1, <2>1 DEF DatabaseTyped, Writing
  <2> QED BY <1>1, <2>1, <2>2, BegunKeepsLocks DEF LocksFit
<1>8. ASSUME NEW t \in Threads, Refuse(t) PROVE LocksFit'
  <2>1. Writing(t) /\ ~Locked(t) /\ Begun(t) /\ Told(t, "failed")
    BY <1>8 DEF Refuse, Writing
  <2> QED BY <1>1, <2>1, BegunKeepsLocks, ToldKeepsLocks DEF LocksFit
<1>9. ASSUME NEW t \in Threads, Abort(t) PROVE LocksFit'
  <2>1. Writing(t) /\ RollBack(t) /\ Told(t, "failed")
    BY <1>9 DEF Abort, Writing
  <2> QED BY <1>1, <2>1, RollBackKeepsLocks, ToldKeepsLocks DEF LocksFit
<1>10. ASSUME NEW t \in Threads, Finish(t) PROVE LocksFit'
  <2>1. Writing(t) /\ RollBack(t) /\ Told(t, "done")
    BY <1>10 DEF Finish, Commit, Writing
  <2> QED BY <1>1, <2>1, RollBackKeepsLocks, ToldKeepsLocks DEF LocksFit
<1>11. ASSUME NEW t \in Threads, Read(t) PROVE LocksFit'
  <2>1. link' = [link EXCEPT ![t].seen = version] /\ UNCHANGED <<writer, mutex, request>>
    BY <1>11 DEF Read
  <2> QED BY <1>3, <2>1 DEF LocksFit, Writing
<1>12. ASSUME NEW t \in Threads, Close(t) PROVE LocksFit'
  <2>1. RollBack(t) /\ UNCHANGED <<mutex, request>>
    BY <1>12 DEF Close
  <2> QED BY <1>1, <2>1, RollBackKeepsLocks DEF LocksFit, Writing
<1>13. ASSUME NEW t \in Threads, NEW w \in Writes, NEW explicit \in BOOLEAN, Write(t, w, explicit) PROVE LocksFit'
  <2>1. /\ UNCHANGED <<writer, link, mutex>>
        /\ request' = [request EXCEPT ![t] = [at |-> "queueing", write |-> w, attempt |-> 1, explicit |-> explicit]]
    BY <1>13 DEF Write
  <2>2. \A u \in Threads : Writing(u)' => Writing(u)
    BY <1>1, <2>1 DEF DatabaseTyped, Writing
  <2> QED BY <2>1, <2>2 DEF LocksFit
<1>14. ASSUME NEW p \in Processes, Die(p) PROVE LocksFit'
  <2> DEFINE gone == {t \in Threads : ProcessOf[t] = p}
  <2>1. /\ link' = [t \in Threads |-> IF t \in gone THEN Fresh ELSE link[t]]
        /\ request' = [t \in Threads |-> IF t \in gone THEN Away ELSE request[t]]
        /\ writer' = (IF writer \in gone THEN Nobody ELSE writer)
        /\ mutex' = [mutex EXCEPT ![p] = Nobody]
    BY <1>14 DEF Die
  <2>2. writer' \in Threads \cup {Nobody} /\ mutex' \in [Processes -> Threads \cup {Nobody}]
    BY <2>1 DEF LocksFit
  <2>3. ASSUME NEW u \in Threads, Writing(u)' PROVE mutex'[ProcessOf[u]] = u
    <3>1. u \notin gone /\ request'[u] = request[u]
      BY <2>1, <2>3, AwayFact DEF Writing
    <3>2. mutex[ProcessOf[u]] = u /\ ProcessOf[u] # p /\ ProcessOf[u] \in Processes
      BY <1>1, <2>3, <3>1 DEF Writing, LocksFit
    <3> QED BY <2>1, <3>2 DEF LocksFit
  <2>4. ASSUME NEW u \in Threads, link'[u].pending # <<>> PROVE writer' = u
    <3>1. u \notin gone /\ link'[u] = link[u]
      BY <2>1, <2>4, FreshFact
    <3>2. writer = u
      BY <2>4, <3>1 DEF LocksFit
    <3> QED BY <2>1, <3>1, <3>2
  <2> QED BY <2>2, <2>3, <2>4 DEF LocksFit
<1>15. CASE UNCHANGED databaseVars
  BY <1>15 DEF databaseVars, LocksFit, Writing
<1> QED BY <1>4, <1>5, <1>6, <1>7, <1>8, <1>9, <1>10, <1>11, <1>12, <1>13, <1>14, <1>15 DEF DatabaseNext, Carry

LEMMA LocksAlways == DatabaseSpec => [](DatabaseInv /\ LocksFit)
<1>1. DatabaseInit => LocksFit
  <2> SUFFICES ASSUME DatabaseInit PROVE LocksFit
    OBVIOUS
  <2>1. \A t \in Threads : ~Writing(t) /\ link[t].pending = <<>>
    BY FreshFact, AwayFact DEF DatabaseInit, Writing
  <2> QED BY <2>1 DEF DatabaseInit, LocksFit
<1> QED BY <1>1, DatabaseStart, DatabaseStep, LocksStep, PTL DEF DatabaseSpec

\* Connections, locks and answers are what they should be, whatever the threads do.
THEOREM DatabaseTypeCorrect == DatabaseSpec => []DatabaseTypeOK
<1>1. DatabaseInv /\ LocksFit => DatabaseTypeOK
  BY DEF DatabaseInv, DatabaseTyped, LocksFit, Link, DatabaseTypeOK
<1> QED BY <1>1, LocksAlways, PTL

\* Writes of one process go one after another, and two connections never have rows that are
\* not committed at a time: for any threads and processes, whoever gives up, is refused,
\* closes its connection or dies.
THEOREM WritersAlwaysApart == DatabaseSpec => []WritersApart
<1>1. DatabaseInv /\ LocksFit => WritersApart
  BY DEF LocksFit, WritersApart
<1> QED BY <1>1, LocksAlways, PTL

-----------------------------------------------------------------------------
(* The exchange calendar, for every year from 1951 on.                     *)

\* The names of the source for the steps of easter_sunday().
Golden(y) == y % 19
Century(y) == y \div 100
Moon(y) ==
    (19 * Golden(y) + Century(y) - (Century(y) \div 4)
        - ((Century(y) - ((Century(y) + 8) \div 25) + 1) \div 3) + 15) % 30
Wait(y) == (32 + 2 * (Century(y) % 4) + 2 * ((y % 100) \div 4) - Moon(y) - ((y % 100) % 4)) % 7
Late(y) == (Golden(y) + 11 * Moon(y) + 22 * Wait(y)) \div 451

\* The remainders the arithmetic of dates takes.
LEMMA Remainders ==
    \A n \in Int : /\ n % 19 \in 0..18 /\ n % 30 \in 0..29 /\ n % 7 \in 0..6
BY Z3

\* The ranges of the parts, and the two cases in which Easter is put a week earlier.
LEMMA EasterParts ==
    ASSUME NEW y \in Int
    PROVE  /\ Golden(y) \in 0..18 /\ Moon(y) \in 0..29 /\ Wait(y) \in 0..6 /\ Late(y) \in {0, 1}
           /\ Late(y) = 1 <=> Wait(y) = 6 /\ (Moon(y) = 29 \/ (Moon(y) = 28 /\ Golden(y) > 10))
<1>1. Golden(y) \in 0..18
  BY Remainders DEF Golden
<1>2. Moon(y) \in 0..29
  <2> DEFINE n == 19 * Golden(y) + Century(y) - (Century(y) \div 4)
                     - ((Century(y) - ((Century(y) + 8) \div 25) + 1) \div 3) + 15
  <2>1. n \in Int
    BY <1>1 DEF Century
  <2> HIDE DEF n
  <2>2. n % 30 \in 0..29
    BY <2>1, Remainders
  <2> QED BY <2>2 DEF Moon, n
<1>3. Wait(y) \in 0..6
  BY <1>2, Remainders DEF Wait, Century
<1>4. Late(y) \in {0, 1}
  BY <1>1, <1>2, <1>3 DEF Late
<1>5. Late(y) = 1 <=> Golden(y) + 11 * Moon(y) + 22 * Wait(y) >= 451
  BY <1>1, <1>2, <1>3 DEF Late
<1> QED BY <1>1, <1>2, <1>3, <1>4, <1>5

\* The month and day easter_sunday() ends with, counted from the first of March.
LEMMA MarchDays ==
    ASSUME NEW y \in Int, NEW n \in 114..148
    PROVE  Date(y, n \div 31, (n % 31) + 1) = Date(y, 3, 1) + (n - 93)
<1>1. CASE n < 124
  <2>1. n \div 31 = 3 /\ n % 31 = n - 93
    BY <1>1
  <2> QED BY <2>1 DEF Date, DaysBeforeMonth
<1>2. CASE n >= 124
  <2>1. n \div 31 = 4 /\ n % 31 = n - 124
    BY <1>2
  <2> QED BY <2>1 DEF Date, DaysBeforeMonth
<1> QED BY <1>1, <1>2

\* Easter, counted from the first of March.
LEMMA EasterDay ==
    ASSUME NEW y \in Int
    PROVE  EasterSunday(y) = Date(y, 3, 1) + 21 + Moon(y) + Wait(y) - 7 * Late(y)
<1> DEFINE n == Moon(y) + Wait(y) - (7 * Late(y)) + 114
<1>1. n \in 114..148
  BY EasterParts
<1>2. EasterSunday(y) = Date(y, n \div 31, (n % 31) + 1)
  BY DEF EasterSunday, Moon, Wait, Late, Golden, Century
<1>3. EasterSunday(y) = Date(y, 3, 1) + (n - 93)
  <2> HIDE DEF n
  <2> QED BY <1>1, <1>2, MarchDays
<1>4. Date(y, 3, 1) \in Int
  BY DEF Date, DaysBeforeMonth
<1> QED BY <1>3, <1>4, EasterParts

\* The corrections of the tables for the leap days and for the moon, as the source has them.
LEMMA Corrections ==
    \A c \in Int : /\ (3 * (c + 1)) \div 4 = c - (c \div 4)
                   /\ (8 * (c + 1) + 5) \div 25 = (c - ((c + 8) \div 25) + 1) \div 3
BY Z3

\* The epact of the tables before its two exceptions.
RawEpact(y) ==
    (11 * (Golden(y) + 1) + 20 + (((8 * (Century(y) + 1) + 5) \div 25) - 5)
        - (((3 * (Century(y) + 1)) \div 4) - 12)) % 30

\* The source's moon and the epact of the tables determine each other.
LEMMA MoonEpact ==
    ASSUME NEW y \in Int
    PROVE  RawEpact(y) \in 0..29 /\ Moon(y) = IF RawEpact(y) <= 23 THEN 23 - RawEpact(y) ELSE 53 - RawEpact(y)
<1> DEFINE c == Century(y)
           s == c - (c \div 4)
           m == (c - ((c + 8) \div 25) + 1) \div 3
           a == Golden(y)
<1>1. c \in Int /\ s \in Int /\ m \in Int /\ a \in Int
  BY EasterParts DEF Century
<1>2. Moon(y) = (19 * a + s - m + 15) % 30
  BY <1>1 DEF Moon
<1>3. RawEpact(y) = (11 * (a + 1) + 20 + (m - 5) - (s - 12)) % 30
  BY <1>1, Corrections DEF RawEpact
<1> HIDE DEF c, s, m, a
<1> QED BY <1>1, <1>2, <1>3, Z3

\* What easter_sunday() waits for is a Sunday.
LEMMA EasterIsSunday ==
    ASSUME NEW y \in Int
    PROVE  (Date(y, 3, 1) + 21 + Moon(y) + Wait(y)) % 7 = 0
<1>0. Date(y, 3, 1) = 365 * y + (y \div 4) - (y \div 100) + (y \div 400) - 305
  BY Z3 DEF Date, IsLeap, DaysBeforeMonth
<1> DEFINE p == y \div 400
           q == Century(y) % 4
           i == (y % 100) \div 4
           j == (y % 100) % 4
<1>1. /\ p \in Int /\ q \in Int /\ i \in Int /\ j \in Int /\ Century(y) = 4 * p + q
      /\ y = 400 * p + 100 * q + 4 * i + j
  BY Z3 DEF Century
<1>2. Date(y, 3, 1) = 365 * y + (100 * p + 25 * q + i) - (4 * p + q) + p - 305
  <2>1. y \div 4 = 100 * p + 25 * q + i /\ y \div 100 = 4 * p + q
    BY Z3 DEF Century
  <2>2. y \div 400 = p
    OBVIOUS
  <2> HIDE DEF p, q, i, j
  <2> QED BY <1>0, <1>1, <2>1, <2>2
<1>3. Wait(y) = (32 + 2 * q + 2 * i - Moon(y) - j) % 7 /\ Moon(y) \in Int
  BY EasterParts DEF Wait
<1> HIDE DEF p, q, i, j
<1>4. PICK k \in Int : 32 + 2 * q + 2 * i - Moon(y) - j = 7 * k + Wait(y)
  <2> DEFINE n == 32 + 2 * q + 2 * i - Moon(y) - j
  <2>1. n \in Int
    BY <1>1, <1>3
  <2> HIDE DEF n
  <2>2. n = 7 * (n \div 7) + (n % 7) /\ n \div 7 \in Int
    BY <2>1
  <2> QED BY <1>3, <2>2 DEF n
<1>5. Date(y, 3, 1) + 21 + Moon(y) + Wait(y)
        = 7 * (20871 * p + 5218 * q + 209 * i + 52 * j - 36 - k)
  BY <1>1, <1>2, <1>3, <1>4, EasterParts
<1> QED BY <1>1, <1>4, <1>5

\* easter_sunday() returns the Sunday of the tables.
LEMMA EasterAgrees == ASSUME NEW y \in Int PROVE EasterSunday(y) = PaschalEaster(y)
<1> DEFINE raw == RawEpact(y)
           epact == IF raw = 24 \/ (raw = 25 /\ Golden(y) + 1 > 11) THEN raw + 1 ELSE raw
           full == Date(y, 3, 1) + (IF 44 - epact < 21 THEN 74 - epact ELSE 44 - epact) - 1
           d == Date(y, 3, 1)
<1>1. PaschalEaster(y) = full + 7 - ((Weekday(full) + 1) % 7)
  BY DEF PaschalEaster, RawEpact, Golden, Century
<1>2. d \in Int
  BY DEF Date, DaysBeforeMonth
<1>3. full = d + 20 + Moon(y) - (IF Moon(y) = 29 \/ (Moon(y) = 28 /\ Golden(y) > 10) THEN 1 ELSE 0)
  BY <1>2, MoonEpact, EasterParts
<1>4. full \in Int
  BY <1>2, <1>3, EasterParts
<1>5. (d + 21 + Moon(y) + Wait(y)) % 7 = 0
  BY EasterIsSunday
<1>6. EasterSunday(y) = d + 21 + Moon(y) + Wait(y) - 7 * Late(y)
  BY EasterDay
<1> HIDE DEF d, full
<1>7. Weekday(full) = (full + 6) % 7
  BY DEF Weekday
<1>8. (Weekday(full) + 1) % 7 = full % 7
  BY <1>4, <1>7, Z3
<1>9. CASE Late(y) = 1
  <2>1. full = d + 19 + Moon(y) /\ Wait(y) = 6
    BY <1>2, <1>3, <1>9, EasterParts
  <2> QED BY <1>1, <1>2, <1>5, <1>6, <1>8, <1>9, <2>1, EasterParts
<1>10. CASE Late(y) = 0
  <2>1. EasterSunday(y) = d + 21 + Moon(y) + Wait(y)
    BY <1>2, <1>6, <1>10, EasterParts
  <2>2. EasterSunday(y) \in full + 1 .. full + 7
    <3>1. CASE Moon(y) = 29 \/ (Moon(y) = 28 /\ Golden(y) > 10)
      <4>1. full = d + 19 + Moon(y) /\ Wait(y) # 6
        BY <1>2, <1>3, <1>10, <3>1, EasterParts
      <4> QED BY <1>2, <2>1, <4>1, EasterParts
    <3>2. CASE ~(Moon(y) = 29 \/ (Moon(y) = 28 /\ Golden(y) > 10))
      <4>1. full = d + 20 + Moon(y)
        BY <1>2, <1>3, <3>2, EasterParts
      <4> QED BY <1>2, <2>1, <4>1, EasterParts
    <3> QED BY <3>1, <3>2
  <2>3. EasterSunday(y) % 7 = 0
    BY <1>5, <2>1
  <2> QED BY <1>1, <1>4, <1>8, <2>2, <2>3, Z3
<1> QED BY <1>9, <1>10, EasterParts

(* Months, weekdays and where the holidays of a year lie.                  *)

\* The 29th of February, as a number of days.
Leap(y) == IF IsLeap(y) THEN 1 ELSE 0

\* The months of a year, counted from its first day.
LEMMA YearMonths ==
    ASSUME NEW y \in Int
    PROVE  /\ Date(y, 1, 1) \in Int /\ Leap(y) \in {0, 1}
           /\ Date(y, 2, 1) = Date(y, 1, 1) + 31
           /\ Date(y, 3, 1) = Date(y, 1, 1) + 59 + Leap(y)
           /\ Date(y, 6, 1) = Date(y, 1, 1) + 151 + Leap(y)
           /\ Date(y, 6, 19) = Date(y, 1, 1) + 169 + Leap(y)
           /\ Date(y, 7, 4) = Date(y, 1, 1) + 184 + Leap(y)
           /\ Date(y, 9, 1) = Date(y, 1, 1) + 243 + Leap(y)
           /\ Date(y, 11, 1) = Date(y, 1, 1) + 304 + Leap(y)
           /\ Date(y, 12, 25) = Date(y, 1, 1) + 358 + Leap(y)
<1> DEFINE q == 365 * (y - 1) + ((y - 1) \div 4) - ((y - 1) \div 100) + ((y - 1) \div 400)
<1>1. q \in Int
  OBVIOUS
<1>2. \A m \in 1..12, d \in Int :
        Date(y, m, d) = q + DaysBeforeMonth[m] + (IF m > 2 /\ IsLeap(y) THEN 1 ELSE 0) + d
  BY DEF Date
<1> HIDE DEF q
<1>3. Leap(y) \in {0, 1}
  BY DEF Leap
<1>4. Date(y, 1, 1) = q + 1 /\ Date(y, 2, 1) = q + 32
  BY <1>1, <1>2 DEF DaysBeforeMonth
<1>5. Date(y, 3, 1) = q + 60 + Leap(y) /\ Date(y, 6, 1) = q + 152 + Leap(y) /\ Date(y, 6, 19) = q + 170 + Leap(y)
  BY <1>1, <1>2 DEF DaysBeforeMonth, Leap
<1>6. Date(y, 7, 4) = q + 185 + Leap(y) /\ Date(y, 9, 1) = q + 244 + Leap(y)
  BY <1>1, <1>2 DEF DaysBeforeMonth, Leap
<1>7. Date(y, 11, 1) = q + 305 + Leap(y) /\ Date(y, 12, 25) = q + 359 + Leap(y)
  BY <1>1, <1>2 DEF DaysBeforeMonth, Leap
<1> QED BY <1>1, <1>3, <1>4, <1>5, <1>6, <1>7

\* From one new year to the next.
LEMMA YearLength ==
    ASSUME NEW y \in Int
    PROVE  Date(y + 1, 1, 1) = Date(y, 1, 1) + 365 + Leap(y)
BY Z3 DEF Date, Leap, IsLeap, DaysBeforeMonth

\* Two years are a year apart at least.
LEMMA YearOrder ==
    ASSUME NEW y \in Int, NEW z \in Int, y < z
    PROVE  Date(y, 1, 1) + 365 <= Date(z, 1, 1)
BY Z3 DEF Date, DaysBeforeMonth

\* The days of the week follow one another.
LEMMA Weekdays ==
    ASSUME NEW d \in Int
    PROVE  /\ Weekday(d) \in 0..6
           /\ Weekday(d + 1) = IF Weekday(d) = 6 THEN 0 ELSE Weekday(d) + 1
BY Z3 DEF Weekday

\* A fixed holiday is observed on its day or a day beside it.
LEMMA ObservedNear ==
    ASSUME NEW d \in Int
    PROVE  /\ Observed(d) \in Int /\ d - 1 <= Observed(d) /\ Observed(d) <= d + 1
           /\ Weekday(d) = 5 => Observed(d) = d - 1
           /\ Weekday(d) = 6 => Observed(d) = d + 1
           /\ Weekday(d) < 5 => Observed(d) = d
<1>1. Weekday(d) \in 0..6
  BY Weekdays
<1>2. CASE Weekday(d) = 5
  BY <1>2 DEF Observed, Saturday, Sunday
<1>3. CASE Weekday(d) = 6
  BY <1>3 DEF Observed, Saturday, Sunday
<1>4. CASE Weekday(d) < 5
  BY <1>1, <1>4 DEF Observed, Saturday, Sunday
<1> QED BY <1>1, <1>2, <1>3, <1>4

\* The n-th weekday of a month lies in its n-th week.
LEMMA NthNear ==
    ASSUME NEW y \in Int, NEW m, NEW w \in 0..6, Date(y, m, 1) \in Int
    PROVE  /\ NthWeekday(y, m, w, 1) \in Int /\ Date(y, m, 1) <= NthWeekday(y, m, w, 1)
           /\ NthWeekday(y, m, w, 1) <= Date(y, m, 1) + 6
           /\ NthWeekday(y, m, w, 3) \in Int /\ Date(y, m, 1) + 14 <= NthWeekday(y, m, w, 3)
           /\ NthWeekday(y, m, w, 3) <= Date(y, m, 1) + 20
           /\ NthWeekday(y, m, w, 4) \in Int /\ Date(y, m, 1) + 21 <= NthWeekday(y, m, w, 4)
           /\ NthWeekday(y, m, w, 4) <= Date(y, m, 1) + 27
<1>1. Weekday(Date(y, m, 1)) \in 0..6
  BY Weekdays
<1>2. (w - Weekday(Date(y, m, 1))) % 7 \in 0..6
  BY <1>1
<1>3. /\ NthWeekday(y, m, w, 1) = Date(y, m, 1) + ((w - Weekday(Date(y, m, 1))) % 7) + 7 * (1 - 1)
      /\ NthWeekday(y, m, w, 3) = Date(y, m, 1) + ((w - Weekday(Date(y, m, 1))) % 7) + 7 * (3 - 1)
      /\ NthWeekday(y, m, w, 4) = Date(y, m, 1) + ((w - Weekday(Date(y, m, 1))) % 7) + 7 * (4 - 1)
  BY DEF NthWeekday
<1> QED BY <1>2, <1>3

\* Memorial Day lies in the last week of May.
LEMMA LastOfMay ==
    ASSUME NEW y \in Int
    PROVE  /\ LastWeekday(y, 5, Monday) \in Int
           /\ Date(y, 6, 1) - 7 <= LastWeekday(y, 5, Monday)
           /\ LastWeekday(y, 5, Monday) <= Date(y, 6, 1) - 1
<1> DEFINE last == Date(y, 6, 1) - 1
<1>1. Date(y, 6, 1) \in Int
  BY YearMonths
<1>2. Weekday(last) \in 0..6
  BY <1>1, Weekdays
<1>3. (Weekday(last) - Monday) % 7 \in 0..6
  BY <1>2 DEF Monday
<1>4. LastWeekday(y, 5, Monday) = last - ((Weekday(last) - Monday) % 7)
  BY DEF LastWeekday
<1> QED BY <1>1, <1>3, <1>4

\* The day h has the place of the k-th holiday of year y: no year has two in one place.
InPlace(h, y, k) ==
    LET j == Date(y, 1, 1)
        l == Leap(y)
    IN \/ k = 0 /\ h = Observed(j) /\ j <= h /\ h <= j + 1
       \/ k = 1 /\ h = NthWeekday(y, 1, Monday, 3) /\ j + 14 <= h /\ h <= j + 20
       \/ k = 2 /\ h = NthWeekday(y, 2, Monday, 3) /\ j + 45 <= h /\ h <= j + 51
       \/ k = 3 /\ h = EasterSunday(y) - 2 /\ j + 78 + l <= h /\ h <= j + 112 + l
       \/ k = 4 /\ h = LastWeekday(y, 5, Monday) /\ j + 144 + l <= h /\ h <= j + 150 + l
       \/ k = 5 /\ h = Observed(Date(y, 6, 19)) /\ j + 168 + l <= h /\ h <= j + 170 + l
       \/ k = 6 /\ h = Observed(Date(y, 7, 4)) /\ j + 183 + l <= h /\ h <= j + 185 + l
       \/ k = 7 /\ h = NthWeekday(y, 9, Monday, 1) /\ j + 243 + l <= h /\ h <= j + 249 + l
       \/ k = 8 /\ h = NthWeekday(y, 11, Thursday, 4) /\ j + 325 + l <= h /\ h <= j + 331 + l
       \/ k = 9 /\ h = Observed(Date(y, 12, 25)) /\ j + 357 + l <= h /\ h <= j + 359 + l
       \/ k = 10 /\ h = Observed(Date(y + 1, 1, 1)) /\ h = j + 364 + l

\* Every holiday of a year has one of its eleven places.
LEMMA Places ==
    ASSUME NEW y \in Int, NEW h \in MarketHolidays(y)
    PROVE  \E k \in 0..10 : InPlace(h, y, k)
<1> DEFINE j == Date(y, 1, 1)
           l == Leap(y)
<1>1. /\ j \in Int /\ l \in {0, 1} /\ Date(y, 2, 1) = j + 31 /\ Date(y, 3, 1) = j + 59 + l
      /\ Date(y, 6, 1) = j + 151 + l /\ Date(y, 6, 19) = j + 169 + l /\ Date(y, 7, 4) = j + 184 + l
      /\ Date(y, 9, 1) = j + 243 + l /\ Date(y, 11, 1) = j + 304 + l /\ Date(y, 12, 25) = j + 358 + l
  BY YearMonths
<1>2. Date(y + 1, 1, 1) = j + 365 + l
  BY YearLength
<1>3. /\ j <= h /\ h < j + 365 + l
      /\ \/ h \in {Observed(g) : g \in FixedHolidays(y) \cup {Date(y + 1, 1, 1)}}
         \/ h \in MovingHolidays(y)
  BY <1>2 DEF MarketHolidays
<1>4. Monday \in 0..6 /\ Thursday \in 0..6
  BY DEF Monday, Thursday
<1>5. CASE h \in {Observed(g) : g \in FixedHolidays(y) \cup {Date(y + 1, 1, 1)}}
  <2>1. PICK g \in FixedHolidays(y) \cup {Date(y + 1, 1, 1)} : h = Observed(g)
    BY <1>5
  <2>2. \/ g = Date(y, 1, 1) \/ g = Date(y, 7, 4) \/ g = Date(y, 12, 25) \/ g = Date(y, 6, 19)
        \/ g = Date(y + 1, 1, 1)
    BY DEF FixedHolidays
  <2>3. g \in Int
    BY <1>1, <1>2, <2>2
  <2>4. h \in Int /\ g - 1 <= h /\ h <= g + 1
    BY <2>1, <2>3, ObservedNear
  <2>5. CASE g = Date(y, 1, 1)
    <3>1. InPlace(h, y, 0)
      BY <1>1, <1>3, <2>1, <2>4, <2>5 DEF InPlace
    <3> QED BY <3>1
  <2>6. CASE g = Date(y, 7, 4)
    <3>1. InPlace(h, y, 6)
      BY <1>1, <1>3, <2>1, <2>4, <2>6 DEF InPlace
    <3> QED BY <3>1
  <2>7. CASE g = Date(y, 12, 25)
    <3>1. InPlace(h, y, 9)
      BY <1>1, <1>3, <2>1, <2>4, <2>7 DEF InPlace
    <3> QED BY <3>1
  <2>8. CASE g = Date(y, 6, 19)
    <3>1. InPlace(h, y, 5)
      BY <1>1, <1>3, <2>1, <2>4, <2>8 DEF InPlace
    <3> QED BY <3>1
  <2>9. CASE g = Date(y + 1, 1, 1)
    <3>1. InPlace(h, y, 10)
      BY <1>1, <1>2, <1>3, <2>1, <2>4, <2>9 DEF InPlace
    <3> QED BY <3>1
  <2> QED BY <2>2, <2>5, <2>6, <2>7, <2>8, <2>9
<1>6. CASE h \in MovingHolidays(y)
  <2>1. CASE h = NthWeekday(y, 1, Monday, 3)
    <3>1. h \in Int /\ j + 14 <= h /\ h <= j + 20
      BY <1>1, <1>4, <2>1, NthNear
    <3>2. InPlace(h, y, 1)
      BY <2>1, <3>1 DEF InPlace
    <3> QED BY <3>2
  <2>2. CASE h = NthWeekday(y, 2, Monday, 3)
    <3>1. h \in Int /\ j + 45 <= h /\ h <= j + 51
      BY <1>1, <1>4, <2>2, NthNear
    <3>2. InPlace(h, y, 2)
      BY <2>2, <3>1 DEF InPlace
    <3> QED BY <3>2
  <2>3. CASE h = EasterSunday(y) - 2
    <3>1. h \in Int /\ j + 78 + l <= h /\ h <= j + 112 + l
      BY <1>1, <2>3, EasterDay, EasterParts
    <3>2. InPlace(h, y, 3)
      BY <2>3, <3>1 DEF InPlace
    <3> QED BY <3>2
  <2>4. CASE h = LastWeekday(y, 5, Monday)
    <3>1. h \in Int /\ j + 144 + l <= h /\ h <= j + 150 + l
      BY <1>1, <2>4, LastOfMay
    <3>2. InPlace(h, y, 4)
      BY <2>4, <3>1 DEF InPlace
    <3> QED BY <3>2
  <2>5. CASE h = NthWeekday(y, 9, Monday, 1)
    <3>1. h \in Int /\ j + 243 + l <= h /\ h <= j + 249 + l
      BY <1>1, <1>4, <2>5, NthNear
    <3>2. InPlace(h, y, 7)
      BY <2>5, <3>1 DEF InPlace
    <3> QED BY <3>2
  <2>6. CASE h = NthWeekday(y, 11, Thursday, 4)
    <3>1. h \in Int /\ j + 325 + l <= h /\ h <= j + 331 + l
      BY <1>1, <1>4, <2>6, NthNear
    <3>2. InPlace(h, y, 8)
      BY <2>6, <3>1 DEF InPlace
    <3> QED BY <3>2
  <2> QED BY <1>6, <2>1, <2>2, <2>3, <2>4, <2>5, <2>6 DEF MovingHolidays
<1> QED BY <1>3, <1>5, <1>6

\* What a holiday's place says of it, without the values.
LEMMA PlaceRange ==
    ASSUME NEW y \in Int, NEW h \in MarketHolidays(y)
    PROVE  h \in Int /\ Date(y, 1, 1) <= h /\ h < Date(y + 1, 1, 1)
<1>1. Date(y, 1, 1) \in Int /\ Date(y + 1, 1, 1) \in Int
  BY YearMonths
<1>2. PICK k \in 0..10 : InPlace(h, y, k)
  BY Places
<1>3. h \in Int
  <2>1. CASE h \in MarketHolidays(y) /\ k \in {0, 5, 6, 9, 10}
    <3>1. h = Observed(Date(y, 1, 1)) \/ h = Observed(Date(y, 6, 19)) \/ h = Observed(Date(y, 7, 4))
            \/ h = Observed(Date(y, 12, 25)) \/ h = Observed(Date(y + 1, 1, 1))
      BY <1>2, <2>1 DEF InPlace
    <3>2. /\ Date(y, 6, 19) \in Int /\ Date(y, 7, 4) \in Int /\ Date(y, 12, 25) \in Int
      BY YearMonths
    <3> QED BY <1>1, <3>1, <3>2, ObservedNear
  <2>2. CASE k \in {1, 2, 3, 4, 7, 8}
    <3>1. /\ Date(y, 2, 1) \in Int /\ Date(y, 9, 1) \in Int /\ Date(y, 11, 1) \in Int
          /\ Date(y, 3, 1) \in Int /\ Monday \in 0..6 /\ Thursday \in 0..6
      BY YearMonths DEF Monday, Thursday
    <3>2. \/ h = NthWeekday(y, 1, Monday, 3) \/ h = NthWeekday(y, 2, Monday, 3)
          \/ h = EasterSunday(y) - 2 \/ h = LastWeekday(y, 5, Monday)
          \/ h = NthWeekday(y, 9, Monday, 1) \/ h = NthWeekday(y, 11, Thursday, 4)
      BY <1>2, <2>2 DEF InPlace
    <3>3. /\ NthWeekday(y, 1, Monday, 3) \in Int /\ NthWeekday(y, 2, Monday, 3) \in Int
          /\ NthWeekday(y, 9, Monday, 1) \in Int /\ NthWeekday(y, 11, Thursday, 4) \in Int
      BY <1>1, <3>1, NthNear
    <3>4. EasterSunday(y) - 2 \in Int /\ LastWeekday(y, 5, Monday) \in Int
      <4>1. Moon(y) \in Int /\ Wait(y) \in Int /\ Late(y) \in Int
        BY EasterParts
      <4>2. EasterSunday(y) \in Int
        BY <3>1, <4>1, EasterDay
      <4> QED BY <4>2, LastOfMay
    <3> QED BY <3>2, <3>3, <3>4
  <2> QED BY <2>1, <2>2
<1> QED BY <1>3 DEF MarketHolidays

\* Two holidays on which the exchange is shut are five days apart at least.
LEMMA Apart ==
    ASSUME NEW y \in Int, NEW z \in Int, NEW g \in MarketHolidays(y), NEW h \in MarketHolidays(z), g < h
    PROVE  g + 5 <= h
<1>1. g \in Int /\ h \in Int /\ Date(y, 1, 1) <= g /\ g < Date(y + 1, 1, 1) /\ Date(z, 1, 1) <= h
        /\ h < Date(z + 1, 1, 1)
  BY PlaceRange
<1>2. /\ Date(y, 1, 1) \in Int /\ Date(z, 1, 1) \in Int /\ Leap(y) \in {0, 1} /\ Leap(z) \in {0, 1}
      /\ Date(y + 1, 1, 1) = Date(y, 1, 1) + 365 + Leap(y)
      /\ Date(z + 1, 1, 1) = Date(z, 1, 1) + 365 + Leap(z)
  BY YearMonths, YearLength
<1>3. PICK k \in 0..10 : InPlace(g, y, k)
  BY Places
<1>4. PICK m \in 0..10 : InPlace(h, z, m)
  BY Places
<1>5. CASE z = y
  BY <1>1, <1>2, <1>3, <1>4, <1>5 DEF InPlace
<1>6. CASE z = y + 1
  <2>1. CASE k = 10 /\ m = 0
    <3>1. g = Observed(Date(y + 1, 1, 1)) /\ h = Observed(Date(z, 1, 1))
      BY <1>3, <1>4, <2>1 DEF InPlace
    <3> QED BY <1>1, <1>6, <3>1
  <2>2. CASE k # 10
    <3>1. g <= Date(y, 1, 1) + 359 + Leap(y)
      BY <1>1, <1>2, <1>3, <2>2 DEF InPlace
    <3> QED BY <1>1, <1>2, <1>6, <3>1
  <2>3. CASE m # 0
    <3>1. Date(z, 1, 1) + 14 <= h
      BY <1>1, <1>2, <1>4, <2>3 DEF InPlace
    <3> QED BY <1>1, <1>2, <1>6, <3>1
  <2> QED BY <2>1, <2>2, <2>3
<1>7. CASE z > y + 1
  <2>1. Date(y + 1, 1, 1) + 365 <= Date(z, 1, 1)
    <3> DEFINE x == y + 1
    <3>1. x \in Int /\ x < z
      BY <1>7
    <3> HIDE DEF x
    <3>2. Date(x, 1, 1) + 365 <= Date(z, 1, 1)
      BY <3>1, YearOrder
    <3> QED BY <3>2 DEF x
  <2> QED BY <1>1, <1>2, <2>1
<1>8. CASE z < y
  <2>1. Date(z + 1, 1, 1) <= Date(y, 1, 1)
    <3>1. CASE y = z + 1
      BY <1>2, <3>1
    <3>2. CASE y > z + 1
      <4> DEFINE x == z + 1
      <4>1. x \in Int /\ x < y
        BY <3>2
      <4> HIDE DEF x
      <4>2. Date(x, 1, 1) + 365 <= Date(y, 1, 1) /\ Date(x, 1, 1) \in Int
        BY <4>1, YearOrder, YearMonths
      <4> QED BY <1>2, <4>2 DEF x
    <3> QED BY <1>8, <3>1, <3>2
  <2> QED BY <1>1, <1>2, <2>1
<1> QED BY <1>5, <1>6, <1>7, <1>8

(* Sessions.                                                               *)

\* The years whose holidays are known.
Years == FirstYear - 1 .. LastYear + 1

\* The days of those years.
Days == Date(FirstYear - 1, 1, 1) .. Date(LastYear + 2, 1, 1) - 1

\* The day lies in the year.
InYear(d, y) == Date(y, 1, 1) <= d /\ d < Date(y + 1, 1, 1)

\* The years are one after the other.
LEMMA YearsInOrder ==
    ASSUME NEW y \in Int, NEW z \in Int, y <= z
    PROVE  Date(y, 1, 1) <= Date(z, 1, 1)
<1>1. Date(y, 1, 1) \in Int /\ Date(z, 1, 1) \in Int
  BY YearMonths
<1>2. CASE y = z
  BY <1>1, <1>2
<1>3. CASE y < z
  BY <1>1, <1>3, YearOrder
<1> QED BY <1>2, <1>3

\* An earlier day lies in no later year.
LEMMA EarlierDay ==
    ASSUME NEW y \in Int, NEW z \in Int, NEW d \in Int, NEW e \in Int, InYear(d, y), InYear(e, z), d <= e
    PROVE  y <= z
<1> SUFFICES ASSUME z < y PROVE FALSE
  OBVIOUS
<1> DEFINE x == z + 1
<1>1. x \in Int /\ x <= y
  OBVIOUS
<1>2. Date(x, 1, 1) <= Date(y, 1, 1) /\ Date(x, 1, 1) \in Int /\ Date(y, 1, 1) \in Int
  <2> HIDE DEF x
  <2> QED BY <1>1, YearsInOrder, YearMonths
<1>3. e < Date(x, 1, 1) /\ Date(y, 1, 1) <= d
  BY DEF InYear
<1> HIDE DEF x
<1> QED BY <1>2, <1>3

\* Year() is the year of the day.
LEMMA YearOf ==
    ASSUME NEW y \in Years, NEW d \in Int, InYear(d, y)
    PROVE  Year(d) = y
<1>1. \A z \in Years : z \in Int
  BY CalendarAssumption DEF Years
<1>2. \A z \in Years : InYear(d, z) => z = y
  <2> SUFFICES ASSUME NEW z \in Years, InYear(d, z) PROVE z = y
    OBVIOUS
  <2>1. z \in Int /\ y \in Int /\ y <= z /\ z <= y
    BY <1>1, EarlierDay
  <2> QED BY <2>1
<1>3. Year(d) = CHOOSE z \in Years : InYear(d, z)
  BY DEF Year, InYear, Years
<1> QED BY <1>2, <1>3

\* Every day lies in a year.
LEMMA DayInYear ==
    ASSUME NEW d \in Days
    PROVE  d \in Int /\ \E y \in Years : InYear(d, y)
<1> DEFINE T == {y \in FirstYear - 1 .. LastYear + 2 : d < Date(y, 1, 1)}
           last == LastYear + 2
<1>1. Date(FirstYear - 1, 1, 1) \in Int /\ Date(last, 1, 1) \in Int
  <2>1. FirstYear - 1 \in Int /\ last \in Int
    BY CalendarAssumption
  <2> QED BY <2>1, YearMonths
<1>2. d \in Int /\ Date(FirstYear - 1, 1, 1) <= d /\ d < Date(last, 1, 1)
  BY <1>1 DEF Days
<1>3. T \in SUBSET Nat /\ last \in T
  BY <1>2, CalendarAssumption
<1>4. PICK z \in T : \A x \in T : z <= x
  <2> HIDE DEF T
  <2> QED BY <1>3, LeastElement
<1>5. z \in Int /\ FirstYear - 1 <= z /\ z <= LastYear + 2 /\ d < Date(z, 1, 1) /\ FirstYear \in Int /\ LastYear \in Int
  BY CalendarAssumption
<1>6. z # FirstYear - 1
  BY <1>1, <1>2, <1>5
<1> DEFINE y == z - 1
<1>7. y \in Years /\ y + 1 = z /\ y \in Int /\ y \in FirstYear - 1 .. LastYear + 2 /\ ~(z <= y)
  BY <1>5, <1>6, CalendarAssumption DEF Years
<1>8. y \notin T
  <2> HIDE DEF T, y
  <2> QED BY <1>4, <1>7
<1>9. Date(y, 1, 1) \in Int
  <2> HIDE DEF y
  <2> QED BY <1>7, YearMonths
<1>10. ~(d < Date(y, 1, 1))
  BY <1>7, <1>8
<1>11. InYear(d, y)
  BY <1>2, <1>5, <1>7, <1>9, <1>10 DEF InYear
<1> QED BY <1>2, <1>7, <1>11

\* A day is a session unless it is at the weekend or a holiday of its year.
LEMMA Session ==
    ASSUME NEW d \in Int, NEW y \in Years, InYear(d, y)
    PROVE  IsTradingDay(d) <=> Weekday(d) < 5 /\ d \notin MarketHolidays(y)
<1>1. Year(d) = y
  BY YearOf
<1>2. Holidays[y] = MarketHolidays(y)
  BY DEF Holidays, Years
<1> QED BY <1>1, <1>2 DEF IsTradingDay

\* Of two weekdays less than five days apart one is a session.
LEMMA OneOfTwo ==
    ASSUME NEW a \in Days, NEW b \in Days, a < b, b < a + 5, Weekday(a) < 5, Weekday(b) < 5
    PROVE  IsTradingDay(a) \/ IsTradingDay(b)
<1>1. PICK y \in Years : InYear(a, y)
  BY DayInYear
<1>2. PICK z \in Years : InYear(b, z)
  BY DayInYear
<1>3. a \in Int /\ b \in Int /\ y \in Int /\ z \in Int
  BY DayInYear, CalendarAssumption DEF Years
<1> SUFFICES ASSUME ~IsTradingDay(a), ~IsTradingDay(b) PROVE FALSE
  OBVIOUS
<1>4. a \in MarketHolidays(y) /\ b \in MarketHolidays(z)
  BY <1>1, <1>2, <1>3, Session
<1>5. a + 5 <= b
  BY <1>3, <1>4, Apart
<1> QED BY <1>3, <1>5

\* Five days in a row hold a session.
LEMMA FiveDays ==
    ASSUME NEW d \in Int, \A e \in d .. d + 4 : e \in Days
    PROVE  \E s \in d .. d + 4 : IsTradingDay(s)
<1> DEFINE d1 == d + 1 
           d2 == d + 2
           d3 == d + 3
<1>1. d \in Days /\ d1 \in Days /\ d2 \in Days /\ d3 \in Days
  OBVIOUS
<1>2. d1 \in Int /\ d2 \in Int /\ d3 \in Int /\ d1 = d + 1 /\ d2 = d + 2 /\ d3 = d + 3 /\ d2 = d1 + 1 /\ d3 = d2 + 1
  OBVIOUS
<1> HIDE DEF d1, d2, d3
<1>3. Weekday(d) \in 0..6 /\ Weekday(d1) = (IF Weekday(d) = 6 THEN 0 ELSE Weekday(d) + 1)
  BY <1>2, Weekdays
<1>4. Weekday(d2) = (IF Weekday(d1) = 6 THEN 0 ELSE Weekday(d1) + 1)
  BY <1>2, Weekdays
<1>5. Weekday(d3) = (IF Weekday(d2) = 6 THEN 0 ELSE Weekday(d2) + 1)
  BY <1>2, Weekdays
<1>6. CASE Weekday(d) <= 3
  <2>1. Weekday(d) < 5 /\ Weekday(d1) < 5
    BY <1>3, <1>6
  <2>2. IsTradingDay(d) \/ IsTradingDay(d1)
    BY <1>1, <1>2, <2>1, OneOfTwo
  <2> QED BY <1>2, <2>2
<1>7. CASE Weekday(d) = 4
  <2>1. Weekday(d) < 5 /\ Weekday(d3) < 5
    BY <1>3, <1>4, <1>5, <1>7
  <2>2. IsTradingDay(d) \/ IsTradingDay(d3)
    BY <1>1, <1>2, <2>1, OneOfTwo
  <2> QED BY <1>2, <2>2
<1>8. CASE Weekday(d) = 5
  <2>1. Weekday(d2) < 5 /\ Weekday(d3) < 5
    BY <1>3, <1>4, <1>5, <1>8
  <2>2. IsTradingDay(d2) \/ IsTradingDay(d3)
    BY <1>1, <1>2, <2>1, OneOfTwo
  <2> QED BY <1>2, <2>2
<1>9. CASE Weekday(d) = 6
  <2>1. Weekday(d1) < 5 /\ Weekday(d2) < 5
    BY <1>3, <1>4, <1>9
  <2>2. IsTradingDay(d1) \/ IsTradingDay(d2)
    BY <1>1, <1>2, <2>1, OneOfTwo
  <2> QED BY <1>2, <2>2
<1> QED BY <1>3, <1>6, <1>7, <1>8, <1>9

\* s is the session that follows d; no session lies between them.
Follows(s, d) == d < s /\ IsTradingDay(s) /\ \A e \in d + 1 .. s - 1 : ~IsTradingDay(e)

\* d is the session before s.
Leads(d, s) == d < s /\ IsTradingDay(d) /\ \A e \in d + 1 .. s - 1 : ~IsTradingDay(e)

\* next_trading_day() returns the session that follows, within five days.
LEMMA NextSession ==
    ASSUME NEW d \in Int, \A e \in d + 1 .. d + 5 : e \in Days
    PROVE  /\ NextTradingDay(d, FALSE) \in d + 1 .. d + 5
           /\ Follows(NextTradingDay(d, FALSE), d)
<1> DEFINE T == {k \in 0..4 : IsTradingDay(d + 1 + k)}
           from == d + 1
           Fits(s) == IsTradingDay(s) /\ \A e \in from .. s - 1 : ~IsTradingDay(e)
<1>1. from \in Int /\ \A e \in from .. from + 4 : e \in Days
  OBVIOUS
<1>2. PICK t \in from .. from + 4 : IsTradingDay(t)
  <2> HIDE DEF from
  <2> QED BY <1>1, FiveDays
<1>3. t - from \in T
  BY <1>2
<1>4. PICK k \in T : \A m \in T : k <= m
  <2>1. T \in SUBSET Nat /\ T # {}
    BY <1>3
  <2> HIDE DEF T
  <2> QED BY <2>1, LeastElement
<1>5. from + k \in from .. from + LongestClosure /\ Fits(from + k)
  <2>1. k \in 0..4 /\ IsTradingDay(from + k)
    BY <1>4
  <2>2. \A e \in from .. (from + k) - 1 : ~IsTradingDay(e)
    <3> SUFFICES ASSUME NEW e \in from .. (from + k) - 1, IsTradingDay(e) PROVE FALSE
      OBVIOUS
    <3>1. e - from \in 0..4 /\ from + (e - from) = e /\ ~(k <= e - from)
      BY <2>1
    <3>2. e - from \in T
      BY <3>1
    <3> QED BY <1>4, <3>1, <3>2
  <2> QED BY <2>1, <2>2 DEF LongestClosure
<1>6. NextTradingDay(d, FALSE) = CHOOSE s \in from .. from + LongestClosure : Fits(s)
  BY DEF NextTradingDay
<1> DEFINE s == NextTradingDay(d, FALSE)
<1>7. s \in from .. from + LongestClosure /\ Fits(s)
  <2> HIDE DEF from, Fits
  <2> QED BY <1>5, <1>6
<1> HIDE DEF s
<1>8. s \in Int /\ from <= s /\ \A e \in from .. s - 1 : ~IsTradingDay(e)
  BY <1>7 DEF LongestClosure
<1>9. s <= from + 4
  <2> SUFFICES ASSUME from + 4 < s PROVE FALSE
    BY <1>8
  <2>1. t \in from .. s - 1
    BY <1>2, <1>8
  <2> QED BY <1>2, <1>8, <2>1
<1>10. s \in d + 1 .. d + 5 /\ Follows(s, d)
  BY <1>7, <1>8, <1>9 DEF Follows
<1> QED BY <1>10 DEF s

\* previous_trading_day() returns the session before, within five days.
LEMMA PreviousSession ==
    ASSUME NEW d \in Int, \A e \in d - 5 .. d - 1 : e \in Days
    PROVE  /\ PreviousTradingDay(d, FALSE) \in d - 5 .. d - 1
           /\ Leads(PreviousTradingDay(d, FALSE), d)
<1> DEFINE T == {k \in 0..4 : IsTradingDay((d - 1) - k)}
           upTo == d - 1
           from == d - 5
           Fits(s) == IsTradingDay(s) /\ \A e \in s + 1 .. upTo : ~IsTradingDay(e)
<1>1. from \in Int /\ \A e \in from .. from + 4 : e \in Days
  OBVIOUS
<1>2. PICK t \in from .. from + 4 : IsTradingDay(t)
  <2> HIDE DEF from
  <2> QED BY <1>1, FiveDays
<1>3. upTo - t \in T
  BY <1>2
<1>4. PICK k \in T : \A m \in T : k <= m
  <2>1. T \in SUBSET Nat /\ T # {}
    BY <1>3
  <2> HIDE DEF T
  <2> QED BY <2>1, LeastElement
<1>5. upTo - k \in upTo - LongestClosure .. upTo /\ Fits(upTo - k)
  <2>1. k \in 0..4 /\ IsTradingDay(upTo - k)
    BY <1>4
  <2>2. \A e \in (upTo - k) + 1 .. upTo : ~IsTradingDay(e)
    <3> SUFFICES ASSUME NEW e \in (upTo - k) + 1 .. upTo, IsTradingDay(e) PROVE FALSE
      OBVIOUS
    <3>1. upTo - e \in 0..4 /\ upTo - (upTo - e) = e /\ ~(k <= upTo - e)
      BY <2>1
    <3>2. upTo - e \in T
      BY <3>1
    <3> QED BY <1>4, <3>1, <3>2
  <2> QED BY <2>1, <2>2 DEF LongestClosure
<1>6. PreviousTradingDay(d, FALSE) = CHOOSE s \in upTo - LongestClosure .. upTo : Fits(s)
  BY DEF PreviousTradingDay
<1> DEFINE s == PreviousTradingDay(d, FALSE)
<1>7. s \in upTo - LongestClosure .. upTo /\ Fits(s)
  <2> HIDE DEF upTo, Fits
  <2> QED BY <1>5, <1>6
<1> HIDE DEF s
<1>8. s \in Int /\ s <= upTo /\ \A e \in s + 1 .. upTo : ~IsTradingDay(e)
  BY <1>7 DEF LongestClosure
<1>9. from <= s
  <2> SUFFICES ASSUME s < from PROVE FALSE
    BY <1>8
  <2>1. t \in s + 1 .. upTo
    BY <1>2, <1>8
  <2> QED BY <1>2, <1>8, <2>1
<1>10. s \in d - 5 .. d - 1 /\ Leads(s, d)
  BY <1>7, <1>8, <1>9 DEF Leads
<1> QED BY <1>10 DEF s

\* A session is the one before the next, and the one after the one before.
LEMMA ThereAndBack ==
    ASSUME NEW d \in Int, IsTradingDay(d), \A e \in d - 10 .. d + 10 : e \in Days
    PROVE  /\ PreviousTradingDay(NextTradingDay(d, FALSE), FALSE) = d
           /\ NextTradingDay(PreviousTradingDay(d, FALSE), FALSE) = d
<1> DEFINE n == NextTradingDay(d, FALSE)
           p == PreviousTradingDay(d, FALSE)
           back == PreviousTradingDay(n, FALSE)
           forth == NextTradingDay(p, FALSE)
<1>0. /\ \A e \in d + 1 .. d + 5 : e \in Days
      /\ \A e \in d - 5 .. d - 1 : e \in Days
  OBVIOUS
<1>1. n \in d + 1 .. d + 5 /\ Follows(n, d)
  BY <1>0, NextSession
<1>2. p \in d - 5 .. d - 1 /\ Leads(p, d)
  BY <1>0, PreviousSession
<1> HIDE DEF n, p
<1>3. n \in Int /\ p \in Int /\ \A e \in n - 5 .. n - 1 : e \in Days
  BY <1>1, <1>2
<1>4. \A e \in p + 1 .. p + 5 : e \in Days
  BY <1>2
<1>5. back \in n - 5 .. n - 1 /\ Leads(back, n)
  BY <1>3, PreviousSession
<1>6. forth \in p + 1 .. p + 5 /\ Follows(forth, p)
  BY <1>3, <1>4, NextSession
<1> HIDE DEF back, forth
<1>7. back = d
  <2>1. back \in Int
    BY <1>3, <1>5
  <2>2. ~(d < back)
    BY <1>1, <1>3, <1>5, <2>1 DEF Follows, Leads
  <2>3. ~(back < d)
    BY <1>1, <1>3, <1>5, <2>1 DEF Follows, Leads
  <2> QED BY <2>1, <2>2, <2>3
<1>8. forth = d
  <2>1. forth \in Int
    BY <1>3, <1>6
  <2>2. ~(d < forth)
    BY <1>2, <1>3, <1>6, <2>1 DEF Follows, Leads
  <2>3. ~(forth < d)
    BY <1>2, <1>3, <1>6, <2>1 DEF Follows, Leads
  <2> QED BY <2>1, <2>2, <2>3
<1> QED BY <1>7, <1>8 DEF n, p, back, forth

(* Counting in sessions.                                                   *)

\* One move of add_trading_days().
Moved(d, n) == IF n > 0 THEN NextTradingDay(d, FALSE) ELSE PreviousTradingDay(d, FALSE)

\* f holds the first m moves.
Moves(f, m, d, n) == f[0] = d /\ \A k \in 1..m : f[k] = Moved(f[k - 1], n)

\* Any number of moves can be made.
LEMMA MovesExist ==
    ASSUME NEW d, NEW n, NEW m \in Nat
    PROVE  \E f : Moves(f, m, d, n)
<1> DEFINE Missing == {k \in Nat : ~\E f : Moves(f, k, d, n)}
<1>1. SUFFICES ASSUME Missing # {} PROVE FALSE
  OBVIOUS
<1>2. PICK k \in Missing : \A i \in Missing : k <= i
  <2>1. Missing \in SUBSET Nat
    OBVIOUS
  <2> HIDE DEF Missing
  <2> QED BY <1>1, <2>1, LeastElement
<1>3. CASE k = 0
  <2> DEFINE f == [i \in {0} |-> d]
  <2>1. Moves(f, 0, d, n)
    BY DEF Moves
  <2> HIDE DEF f
  <2> QED BY <1>2, <1>3, <2>1
<1>4. CASE k # 0
  <2>1. k \in Nat /\ k - 1 \in Nat /\ ~(k <= k - 1) /\ ~\E f : Moves(f, k, d, n)
    BY <1>2, <1>4
  <2>2. k - 1 \notin Missing
    <3> HIDE DEF Missing
    <3> QED BY <1>2, <2>1
  <2>3. PICK f : Moves(f, k - 1, d, n)
    BY <2>1, <2>2
  <2> DEFINE g == [i \in 0..k |-> IF i = k THEN Moved(f[k - 1], n) ELSE f[i]]
  <2>4. g[0] = d
    BY <1>4, <2>1, <2>3 DEF Moves
  <2>5. ASSUME NEW i \in 1..k PROVE g[i] = Moved(g[i - 1], n)
    <3>1. CASE i = k
      BY <2>1, <3>1
    <3>2. CASE i # k
      <4>1. i \in 1..(k - 1) /\ i - 1 \in 0..k /\ i - 1 # k
        BY <2>1, <3>2
      <4>2. f[i] = Moved(f[i - 1], n)
        BY <2>3, <4>1 DEF Moves
      <4> QED BY <2>1, <3>2, <4>1, <4>2
    <3> QED BY <3>1, <3>2
  <2> HIDE DEF g
  <2>6. Moves(g, k, d, n)
    BY <2>4, <2>5 DEF Moves
  <2> QED BY <2>1, <2>6
<1> QED BY <1>3, <1>4

\* The moves are the same, however far they are followed.
LEMMA MovesAgree ==
    ASSUME NEW d, NEW n, NEW m \in Nat, NEW f, Moves(f, m + 1, d, n), NEW g, Moves(g, m, d, n)
    PROVE  f[m] = g[m]
<1> DEFINE Wrong == {k \in 0..m : f[k] # g[k]}
<1>1. SUFFICES ASSUME Wrong # {} PROVE FALSE
  BY <1>1
<1>2. PICK k \in Wrong : \A i \in Wrong : k <= i
  <2>1. Wrong \in SUBSET Nat
    OBVIOUS
  <2> HIDE DEF Wrong
  <2> QED BY <1>1, <2>1, LeastElement
<1>3. k # 0
  BY <1>2 DEF Moves
<1>4. k \in 1..m /\ k - 1 \in 0..m /\ ~(k <= k - 1) /\ k \in 1..(m + 1)
  BY <1>2, <1>3
<1>5. k - 1 \notin Wrong
  <2> HIDE DEF Wrong
  <2> QED BY <1>2, <1>4
<1>6. f[k - 1] = g[k - 1]
  BY <1>4, <1>5
<1>7. f[k] = Moved(f[k - 1], n) /\ g[k] = Moved(g[k - 1], n)
  BY <1>4 DEF Moves
<1> QED BY <1>2, <1>6, <1>7

\* add_trading_days() makes its moves one after the other.
LEMMA AddMoves ==
    ASSUME NEW d, NEW n \in Int
    PROVE  \E f : /\ f[0] = d /\ \A k \in Nat : k # 0 => f[k] = Moved(f[k - 1], n)
                  /\ AddTradingDays(d, n) = f[IF n < 0 THEN -n ELSE n]
<1> DEFINE F(k) == CHOOSE f : Moves(f, k, d, n)
           G == [k \in Nat |-> F(k)[k]]
           H(h) == [k \in Nat |-> IF k = 0 THEN d
                                  ELSE IF n > 0 THEN NextTradingDay(h[k - 1], FALSE)
                                  ELSE PreviousTradingDay(h[k - 1], FALSE)]
           moved == CHOOSE h : h = H(h)
<1>1. ASSUME NEW k \in Nat PROVE Moves(F(k), k, d, n)
  BY MovesExist
<1> HIDE DEF F
<1>2. G[0] = d
  BY <1>1 DEF Moves
<1>3. ASSUME NEW k \in Nat, k # 0 PROVE G[k] = Moved(G[k - 1], n)
  <2> DEFINE i == k - 1
  <2>1. i \in Nat /\ k = i + 1 /\ k \in 1..k
    BY <1>3
  <2>2. Moves(F(k), i + 1, d, n) /\ Moves(F(i), i, d, n)
    BY <1>1, <2>1
  <2>3. F(k)[i] = F(i)[i]
    <3> HIDE DEF i
    <3> QED BY <2>1, <2>2, MovesAgree
  <2>4. F(k)[k] = Moved(F(k)[i], n)
    BY <1>1, <2>1 DEF Moves
  <2> QED BY <2>1, <2>3, <2>4
<1>4. G = H(G)
  <2>1. ASSUME NEW k \in Nat PROVE G[k] = H(G)[k]
    <3>1. CASE k = 0
      BY <1>2, <3>1
    <3>2. CASE k # 0
      <4>1. G[k] = Moved(G[k - 1], n)
        BY <1>3, <3>2
      <4> HIDE DEF G
      <4> QED BY <3>2, <4>1 DEF Moved
    <3> QED BY <3>1, <3>2
  <2>2. DOMAIN G = Nat /\ DOMAIN H(G) = Nat
    OBVIOUS
  <2> QED BY <2>1
<1>5. moved = H(moved)
  <2> HIDE DEF G, H
  <2> QED BY <1>4
<1>6. AddTradingDays(d, n) = moved[IF n < 0 THEN -n ELSE n]
  BY DEF AddTradingDays
<1> HIDE DEF moved
<1>7. moved[0] = d
  BY <1>5
<1>8. \A k \in Nat : k # 0 => moved[k] = Moved(moved[k - 1], n)
  BY <1>5 DEF Moved
<1> QED BY <1>6, <1>7, <1>8

\* Up to three sessions forwards or backwards.
LEMMA FewMoves ==
    ASSUME NEW d
    PROVE  /\ AddTradingDays(d, 0) = d
           /\ AddTradingDays(d, 1) = NextTradingDay(d, FALSE)
           /\ AddTradingDays(d, 2) = NextTradingDay(NextTradingDay(d, FALSE), FALSE)
           /\ AddTradingDays(d, 3) = NextTradingDay(NextTradingDay(NextTradingDay(d, FALSE), FALSE), FALSE)
           /\ AddTradingDays(d, -1) = PreviousTradingDay(d, FALSE)
           /\ AddTradingDays(d, -2) = PreviousTradingDay(PreviousTradingDay(d, FALSE), FALSE)
           /\ AddTradingDays(d, -3) =
                  PreviousTradingDay(PreviousTradingDay(PreviousTradingDay(d, FALSE), FALSE), FALSE)
<1>1. ASSUME NEW n \in Int, n > 0
      PROVE  \E f : /\ f[0] = d /\ f[1] = NextTradingDay(f[0], FALSE)
                    /\ f[2] = NextTradingDay(f[1], FALSE) /\ f[3] = NextTradingDay(f[2], FALSE)
                    /\ AddTradingDays(d, n) = f[n]
  <2>1. PICK f : /\ f[0] = d /\ \A k \in Nat : k # 0 => f[k] = Moved(f[k - 1], n)
                 /\ AddTradingDays(d, n) = f[IF n < 0 THEN -n ELSE n]
    BY AddMoves
  <2>2. f[1] = Moved(f[0], n) /\ f[2] = Moved(f[1], n) /\ f[3] = Moved(f[2], n)
    BY <2>1
  <2>3. AddTradingDays(d, n) = f[n]
    BY <1>1, <2>1
  <2> QED BY <1>1, <2>1, <2>2, <2>3 DEF Moved
<1>2. ASSUME NEW m \in Int, m > 0
      PROVE  \E f : /\ f[0] = d /\ f[1] = PreviousTradingDay(f[0], FALSE)
                    /\ f[2] = PreviousTradingDay(f[1], FALSE) /\ f[3] = PreviousTradingDay(f[2], FALSE)
                    /\ AddTradingDays(d, -m) = f[m]
  <2> DEFINE n == -m
  <2>1. n \in Int /\ n < 0 /\ -n = m /\ ~(n > 0)
    BY <1>2
  <2> HIDE DEF n
  <2>2. PICK f : /\ f[0] = d /\ \A k \in Nat : k # 0 => f[k] = Moved(f[k - 1], n)
                 /\ AddTradingDays(d, n) = f[IF n < 0 THEN -n ELSE n]
    BY <2>1, AddMoves
  <2>3. f[1] = Moved(f[0], n) /\ f[2] = Moved(f[1], n) /\ f[3] = Moved(f[2], n)
    BY <2>2
  <2>4. AddTradingDays(d, n) = f[m]
    BY <2>1, <2>2
  <2>5. /\ f[0] = d /\ f[1] = PreviousTradingDay(f[0], FALSE)
        /\ f[2] = PreviousTradingDay(f[1], FALSE) /\ f[3] = PreviousTradingDay(f[2], FALSE)
    BY <2>1, <2>2, <2>3 DEF Moved
  <2> QED BY <2>4, <2>5 DEF n
<1>3. AddTradingDays(d, 0) = d
  BY AddMoves
<1>4. AddTradingDays(d, 1) = NextTradingDay(d, FALSE)
  <2> DEFINE k == 1
  <2>1. k \in Int /\ k > 0
    OBVIOUS
  <2> HIDE DEF k
  <2>2. PICK f : /\ f[0] = d /\ f[1] = NextTradingDay(f[0], FALSE)
                 /\ f[2] = NextTradingDay(f[1], FALSE) /\ f[3] = NextTradingDay(f[2], FALSE)
                 /\ AddTradingDays(d, k) = f[k]
    BY <1>1, <2>1
  <2> QED BY <2>2 DEF k
<1>5. AddTradingDays(d, 2) = NextTradingDay(NextTradingDay(d, FALSE), FALSE)
  <2> DEFINE k == 2
  <2>1. k \in Int /\ k > 0
    OBVIOUS
  <2> HIDE DEF k
  <2>2. PICK f : /\ f[0] = d /\ f[1] = NextTradingDay(f[0], FALSE)
                 /\ f[2] = NextTradingDay(f[1], FALSE) /\ f[3] = NextTradingDay(f[2], FALSE)
                 /\ AddTradingDays(d, k) = f[k]
    BY <1>1, <2>1
  <2> QED BY <2>2 DEF k
<1>6. AddTradingDays(d, 3) = NextTradingDay(NextTradingDay(NextTradingDay(d, FALSE), FALSE), FALSE)
  <2> DEFINE k == 3
  <2>1. k \in Int /\ k > 0
    OBVIOUS
  <2> HIDE DEF k
  <2>2. PICK f : /\ f[0] = d /\ f[1] = NextTradingDay(f[0], FALSE)
                 /\ f[2] = NextTradingDay(f[1], FALSE) /\ f[3] = NextTradingDay(f[2], FALSE)
                 /\ AddTradingDays(d, k) = f[k]
    BY <1>1, <2>1
  <2> QED BY <2>2 DEF k
<1>7. AddTradingDays(d, -1) = PreviousTradingDay(d, FALSE)
  <2> DEFINE k == 1
  <2>1. k \in Int /\ k > 0
    OBVIOUS
  <2> HIDE DEF k
  <2>2. PICK f : /\ f[0] = d /\ f[1] = PreviousTradingDay(f[0], FALSE)
                 /\ f[2] = PreviousTradingDay(f[1], FALSE) /\ f[3] = PreviousTradingDay(f[2], FALSE)
                 /\ AddTradingDays(d, -k) = f[k]
    BY <1>2, <2>1
  <2> QED BY <2>2 DEF k
<1>8. AddTradingDays(d, -2) = PreviousTradingDay(PreviousTradingDay(d, FALSE), FALSE)
  <2> DEFINE k == 2
  <2>1. k \in Int /\ k > 0
    OBVIOUS
  <2> HIDE DEF k
  <2>2. PICK f : /\ f[0] = d /\ f[1] = PreviousTradingDay(f[0], FALSE)
                 /\ f[2] = PreviousTradingDay(f[1], FALSE) /\ f[3] = PreviousTradingDay(f[2], FALSE)
                 /\ AddTradingDays(d, -k) = f[k]
    BY <1>2, <2>1
  <2> QED BY <2>2 DEF k
<1>9. AddTradingDays(d, -3) = PreviousTradingDay(PreviousTradingDay(PreviousTradingDay(d, FALSE), FALSE), FALSE)
  <2> DEFINE k == 3
  <2>1. k \in Int /\ k > 0
    OBVIOUS
  <2> HIDE DEF k
  <2>2. PICK f : /\ f[0] = d /\ f[1] = PreviousTradingDay(f[0], FALSE)
                 /\ f[2] = PreviousTradingDay(f[1], FALSE) /\ f[3] = PreviousTradingDay(f[2], FALSE)
                 /\ AddTradingDays(d, -k) = f[k]
    BY <1>2, <2>1
  <2> QED BY <2>2 DEF k
<1> QED BY <1>3, <1>4, <1>5, <1>6, <1>7, <1>8, <1>9

(* The calendar's invariant.                                               *)

\* The day is one of a year that is looked at.
CalendarInv == today \in Int /\ \E y \in FirstYear .. LastYear : InYear(today, y)

\* Some weeks around the day lie within the years whose holidays are known.
LEMMA WeeksAround ==
    ASSUME CalendarInv
    PROVE  \A e \in today - 20 .. today + 20 : e \in Days
<1>1. PICK y \in FirstYear .. LastYear : InYear(today, y)
  BY DEF CalendarInv
<1> DEFINE f == FirstYear - 1
           g == FirstYear
           x == y + 1
           l == LastYear + 1
           m == LastYear + 2
<1>2. f \in Int /\ g \in Int /\ y \in Int /\ x \in Int /\ l \in Int /\ m \in Int /\ f < g /\ g <= y /\ x <= l /\ l < m
  BY CalendarAssumption
<1> HIDE DEF f, g, x, l, m
<1>3. Date(f, 1, 1) + 365 <= Date(g, 1, 1) /\ Date(l, 1, 1) + 365 <= Date(m, 1, 1)
  BY <1>2, YearOrder
<1>4. Date(g, 1, 1) <= Date(y, 1, 1) /\ Date(x, 1, 1) <= Date(l, 1, 1)
  BY <1>2, YearsInOrder
<1>5. /\ Date(f, 1, 1) \in Int /\ Date(g, 1, 1) \in Int /\ Date(y, 1, 1) \in Int
      /\ Date(x, 1, 1) \in Int /\ Date(l, 1, 1) \in Int /\ Date(m, 1, 1) \in Int
  BY <1>2, YearMonths
<1>6. Date(y, 1, 1) <= today /\ today < Date(x, 1, 1) /\ today \in Int
  BY <1>1 DEF InYear, CalendarInv, x
<1>7. Days = Date(f, 1, 1) .. Date(m, 1, 1) - 1
  BY DEF Days, f, m
<1> QED BY <1>3, <1>4, <1>5, <1>6, <1>7

\* The next session is one more to count.
LEMMA OneMore ==
    ASSUME NEW a \in Int, NEW s \in Int, a <= s, NEW x \in Int, Follows(x, s)
    PROVE  TradingDaysBetween(a, x) = TradingDaysBetween(a, s) + 1
<1> DEFINE S == {d \in a .. s : IsTradingDay(d)}
           X == {d \in a .. x : IsTradingDay(d)}
<1>1. IsFiniteSet(S)
  <2>1. IsFiniteSet(a .. s)
    BY FS_Interval
  <2> QED BY <2>1, FS_Subset
<1>2. x \notin S
  BY DEF Follows
<1>3. X = S \cup {x}
  <2>1. ASSUME NEW d \in X PROVE d \in S \cup {x}
    BY <2>1 DEF Follows
  <2>2. ASSUME NEW d \in S \cup {x} PROVE d \in X
    BY DEF Follows
  <2> QED BY <2>1, <2>2
<1>4. Cardinality(S \cup {x}) = Cardinality(S) + 1
  <2> HIDE DEF S
  <2> QED BY <1>1, <1>2, FS_AddElement
<1> QED BY <1>3, <1>4 DEF TradingDaysBetween

\* A session is one to count.
LEMMA OneSession ==
    ASSUME NEW a \in Int, IsTradingDay(a)
    PROVE  TradingDaysBetween(a, a) = 1
<1>1. {d \in a .. a : IsTradingDay(d)} = {a}
  OBVIOUS
<1> QED BY <1>1, FS_Singleton DEF TradingDaysBetween

\* Counting forth and back, and counting the days.
LEMMA CountingSound ==
    ASSUME NEW d \in Int, IsTradingDay(d), \A e \in d - 20 .. d + 20 : e \in Days
    PROVE  \A n \in -2 .. 3 :
             /\ AddTradingDays(AddTradingDays(d, n), -n) = d
             /\ n >= 0 => TradingDaysBetween(d, AddTradingDays(d, n)) = n + 1
<1> DEFINE n1 == NextTradingDay(d, FALSE)
           n2 == NextTradingDay(n1, FALSE)
           n3 == NextTradingDay(n2, FALSE)
           p1 == PreviousTradingDay(d, FALSE)
           p2 == PreviousTradingDay(p1, FALSE)
<1>1. /\ \A e \in d + 1 .. d + 5 : e \in Days
      /\ \A e \in d - 5 .. d - 1 : e \in Days
      /\ \A e \in d - 10 .. d + 10 : e \in Days
  OBVIOUS
<1>2. n1 \in d + 1 .. d + 5 /\ Follows(n1, d) /\ PreviousTradingDay(n1, FALSE) = d
  BY <1>1, NextSession, ThereAndBack
<1>3. p1 \in d - 5 .. d - 1 /\ Leads(p1, d) /\ NextTradingDay(p1, FALSE) = d
  BY <1>1, PreviousSession, ThereAndBack
<1> HIDE DEF n1, p1
<1>4. /\ n1 \in Int /\ p1 \in Int /\ IsTradingDay(n1) /\ IsTradingDay(p1)
      /\ \A e \in n1 + 1 .. n1 + 5 : e \in Days
      /\ \A e \in n1 - 10 .. n1 + 10 : e \in Days
      /\ \A e \in p1 - 5 .. p1 - 1 : e \in Days
      /\ \A e \in p1 - 10 .. p1 + 10 : e \in Days
  BY <1>2, <1>3 DEF Follows, Leads
<1>5. n2 \in n1 + 1 .. n1 + 5 /\ Follows(n2, n1) /\ PreviousTradingDay(n2, FALSE) = n1
  BY <1>4, NextSession, ThereAndBack
<1>6. p2 \in p1 - 5 .. p1 - 1 /\ Leads(p2, p1) /\ NextTradingDay(p2, FALSE) = p1
  BY <1>4, PreviousSession, ThereAndBack
<1> HIDE DEF n2, p2
<1>7. /\ n2 \in Int /\ IsTradingDay(n2)
      /\ \A e \in n2 + 1 .. n2 + 5 : e \in Days
      /\ \A e \in n2 - 10 .. n2 + 10 : e \in Days
  BY <1>2, <1>5 DEF Follows
<1>8. n3 \in n2 + 1 .. n2 + 5 /\ Follows(n3, n2) /\ PreviousTradingDay(n3, FALSE) = n2
  BY <1>7, NextSession, ThereAndBack
<1> HIDE DEF n3
<1>9. /\ AddTradingDays(d, 0) = d /\ AddTradingDays(d, 1) = n1 /\ AddTradingDays(d, 2) = n2
      /\ AddTradingDays(d, 3) = n3 /\ AddTradingDays(d, -1) = p1 /\ AddTradingDays(d, -2) = p2
  BY FewMoves DEF n1, n2, n3, p1, p2
<1>10. /\ AddTradingDays(n1, -1) = d /\ AddTradingDays(p1, 1) = d
       /\ AddTradingDays(n2, -2) = d /\ AddTradingDays(p2, 2) = d
       /\ AddTradingDays(n3, -3) = d
  <2>1. AddTradingDays(n1, -1) = d /\ AddTradingDays(p1, 1) = d
    BY <1>2, <1>3, FewMoves
  <2>2. AddTradingDays(n2, -2) = d
    <3>1. AddTradingDays(n2, -2) = PreviousTradingDay(PreviousTradingDay(n2, FALSE), FALSE)
      BY FewMoves
    <3> QED BY <1>2, <1>5, <3>1
  <2>3. AddTradingDays(p2, 2) = d
    <3>1. AddTradingDays(p2, 2) = NextTradingDay(NextTradingDay(p2, FALSE), FALSE)
      BY FewMoves
    <3> QED BY <1>3, <1>6, <3>1
  <2>4. AddTradingDays(n3, -3) = d
    <3>1. AddTradingDays(n3, -3) =
            PreviousTradingDay(PreviousTradingDay(PreviousTradingDay(n3, FALSE), FALSE), FALSE)
      BY FewMoves
    <3> QED BY <1>2, <1>5, <1>8, <3>1
  <2> QED BY <2>1, <2>2, <2>3, <2>4
<1>11. n3 \in Int /\ d <= n1 /\ d <= n2
  BY <1>2, <1>5, <1>7, <1>8
<1>12. /\ TradingDaysBetween(d, d) = 1 /\ TradingDaysBetween(d, n1) = 2
       /\ TradingDaysBetween(d, n2) = 3 /\ TradingDaysBetween(d, n3) = 4
  <2>1. TradingDaysBetween(d, d) = 1
    BY OneSession
  <2>2. TradingDaysBetween(d, n1) = 2
    BY <1>2, <1>4, <2>1, OneMore
  <2>3. TradingDaysBetween(d, n2) = 3
    BY <1>4, <1>5, <1>7, <1>11, <2>2, OneMore
  <2>4. TradingDaysBetween(d, n3) = 4
    BY <1>7, <1>8, <1>11, <2>3, OneMore
  <2> QED BY <2>1, <2>2, <2>3, <2>4
<1>13. SUFFICES ASSUME NEW n \in -2 .. 3
       PROVE  /\ AddTradingDays(AddTradingDays(d, n), -n) = d
              /\ n >= 0 => TradingDaysBetween(d, AddTradingDays(d, n)) = n + 1
  OBVIOUS
<1>14. n = -2 \/ n = -1 \/ n = 0 \/ n = 1 \/ n = 2 \/ n = 3
  OBVIOUS
<1>15. /\ n = -2 => -n = 2
       /\ n = -1 => -n = 1
       /\ n = 0 => -n = 0
  OBVIOUS
<1>16. CASE n = -2
  BY <1>9, <1>10, <1>15, <1>16
<1>17. CASE n = -1
  BY <1>9, <1>10, <1>15, <1>17
<1>18. CASE n = 0
  BY <1>9, <1>12, <1>15, <1>18
<1>19. CASE n = 1
  BY <1>9, <1>10, <1>12, <1>19
<1>20. CASE n = 2
  BY <1>9, <1>10, <1>12, <1>20
<1>21. CASE n = 3
  BY <1>9, <1>10, <1>12, <1>21
<1> QED BY <1>14, <1>16, <1>17, <1>18, <1>19, <1>20, <1>21

\* On the weekday a fixed holiday is observed on there is no session.
LEMMA ShutWhenObserved ==
    ASSUME CalendarInv, today \in FixedHolidays(Year(today))
    PROVE  ~IsTradingDay(Observed(today))
<1>1. PICK y \in FirstYear .. LastYear : InYear(today, y)
  BY DEF CalendarInv
<1>2. y \in Years /\ y \in Int /\ today \in Int /\ FirstYear \in Int /\ LastYear \in Int
  BY CalendarAssumption DEF Years, CalendarInv
<1>3. Year(today) = y
  BY <1>1, <1>2, YearOf
<1> DEFINE o == Observed(today)
           j == Date(y, 1, 1)
           l == Leap(y)
<1>4. /\ j \in Int /\ l \in {0, 1} /\ Date(y, 6, 19) = j + 169 + l /\ Date(y, 7, 4) = j + 184 + l
      /\ Date(y, 12, 25) = j + 358 + l /\ Date(y + 1, 1, 1) = j + 365 + l
  BY <1>2, YearMonths, YearLength
<1>5. o \in Int /\ today - 1 <= o /\ o <= today + 1
  BY <1>2, ObservedNear
<1>6. CASE InYear(o, y)
  <2>1. o \in MarketHolidays(y)
    BY <1>3, <1>6 DEF MarketHolidays, InYear
  <2> QED BY <1>2, <1>5, <1>6, <2>1, Session
<1>7. CASE ~InYear(o, y)
  <2> DEFINE x == y - 1
  <2>1. x \in Years /\ x \in Int /\ x + 1 = y /\ Leap(x) \in {0, 1} /\ Date(x, 1, 1) \in Int
    <3>1. x \in Years /\ x \in Int /\ x + 1 = y
      BY <1>2 DEF Years
    <3> HIDE DEF x
    <3> QED BY <3>1, YearMonths
  <2> HIDE DEF x
  <2>2. today = j \/ today = Date(y, 6, 19) \/ today = Date(y, 7, 4) \/ today = Date(y, 12, 25)
    BY <1>3 DEF FixedHolidays
  <2> HIDE DEF o, j, l
  <2>3. ~(j <= o /\ o < j + 365 + l)
    BY <1>4, <1>7 DEF InYear, j
  <2>4. today = j /\ o = j - 1
    BY <1>2, <1>4, <1>5, <2>2, <2>3
  <2>5. j = Date(x, 1, 1) + 365 + Leap(x)
    BY <2>1, YearLength DEF j
  <2>6. InYear(o, x)
    BY <1>4, <2>1, <2>4, <2>5 DEF InYear, j
  <2>7. o \in MarketHolidays(x)
    <3>1. o = Observed(Date(x + 1, 1, 1))
      BY <2>1, <2>4 DEF o, j
    <3> QED BY <2>6, <3>1 DEF MarketHolidays, InYear
  <2> QED BY <1>5, <2>1, <2>6, <2>7, Session DEF o
<1> QED BY <1>6, <1>7

\* On every day of the years looked at the calendar is sound.
LEMMA CalendarSound == CalendarInv => CalendarIsSound
<1> SUFFICES ASSUME CalendarInv PROVE CalendarIsSound
  OBVIOUS
<1>1. today \in Int /\ \A e \in today - 20 .. today + 20 : e \in Days
  BY WeeksAround DEF CalendarInv
<1>2. \E s \in today + 1 .. today + 5 : IsTradingDay(s)
  <2>1. \A e \in today + 1 .. today + 5 : e \in Days
    BY <1>1
  <2> QED BY <1>1, <2>1, NextSession DEF Follows
<1>3. IsTradingDay(today) => \A n \in -2 .. 3 :
        /\ AddTradingDays(AddTradingDays(today, n), -n) = today
        /\ n >= 0 => TradingDaysBetween(today, AddTradingDays(today, n)) = n + 1
  BY <1>1, CountingSound
<1>4. \A h \in FixedHolidays(Year(today)) : h = today => ~IsTradingDay(Observed(today))
  BY ShutWhenObserved
<1>5. \A y \in Year(today) .. Year(today) + 99 : EasterSunday(y) = PaschalEaster(y)
  <2>1. PICK y \in FirstYear .. LastYear : InYear(today, y)
    BY DEF CalendarInv
  <2>2. Year(today) = y /\ y \in Int
    BY <1>1, <2>1, YearOf, CalendarAssumption DEF Years
  <2> QED BY <2>2, EasterAgrees
<1> QED BY <1>2, <1>3, <1>4, <1>5 DEF CalendarIsSound

\* The day stays within the years looked at.
LEMMA CalendarKept ==
    /\ CalendarInit => CalendarInv
    /\ CalendarInv /\ [DayTurns]_calendarVars => CalendarInv'
<1>1. ASSUME CalendarInit PROVE CalendarInv
  <2>1. PICK y \in FirstYear .. LastYear : today = Date(y, 1, 1)
    BY <1>1 DEF CalendarInit
  <2>2. y \in Int
    BY CalendarAssumption
  <2>3. Date(y, 1, 1) \in Int /\ Leap(y) \in {0, 1} /\ Date(y + 1, 1, 1) = Date(y, 1, 1) + 365 + Leap(y)
    BY <2>2, YearMonths, YearLength
  <2>4. InYear(today, y)
    BY <2>1, <2>3 DEF InYear
  <2> QED BY <2>1, <2>3, <2>4 DEF CalendarInv
<1>2. ASSUME CalendarInv, DayTurns PROVE CalendarInv'
  <2>1. PICK y \in FirstYear .. LastYear : InYear(today, y)
    BY <1>2 DEF CalendarInv
  <2>2. y \in Years /\ y \in Int /\ today \in Int
    BY <1>2, CalendarAssumption DEF Years, CalendarInv
  <2>3. Year(today) = y
    BY <2>1, <2>2, YearOf
  <2> DEFINE t == today + 1
  <2>4. t \in Int /\ t \in Days
    BY <1>2, <2>2, WeeksAround
  <2>5. PICK z \in Years : InYear(t, z)
    <3> HIDE DEF t
    <3> QED BY <2>4, DayInYear
  <2>6. Year(t) = z
    <3> HIDE DEF t
    <3> QED BY <2>4, <2>5, YearOf
  <2>7. z = y /\ today' = t
    BY <1>2, <2>3, <2>6 DEF DayTurns
  <2>8. InYear(today', y)
    BY <2>5, <2>7
  <2> QED BY <2>4, <2>7, <2>8 DEF CalendarInv, InYear
<1>3. ASSUME CalendarInv, UNCHANGED calendarVars PROVE CalendarInv'
  BY <1>3 DEF CalendarInv, InYear, calendarVars
<1> QED BY <1>1, <1>2, <1>3

\* THEOREM.  Whatever years are walked, from any day of them the next session is five days
\* away at most, counting in sessions is undone by counting back and agrees with counting
\* the days, the exchange is shut where a fixed holiday is observed, and easter_sunday()
\* agrees with the tables.
THEOREM CalendarAlwaysSound == CalendarSpec => []CalendarIsSound
<1>1. CalendarInit => CalendarInv
  BY CalendarKept
<1>2. CalendarInv /\ [DayTurns]_calendarVars => CalendarInv'
  BY CalendarKept
<1>3. CalendarInv => CalendarIsSound
  BY CalendarSound
<1> QED BY <1>1, <1>2, <1>3, PTL DEF CalendarSpec
=============================================================================

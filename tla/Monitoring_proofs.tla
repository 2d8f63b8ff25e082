-------------------------- MODULE Monitoring_proofs --------------------------
(***************************************************************************)
(* Theorems about what watches the market, the orders and the books.       *)
(***************************************************************************)
EXTENDS MarketWatch, OrderFlow, OrderLimits, DataSync, Ledger, Lemmas, TLAPS

-----------------------------------------------------------------------------
(* The watch over the feeds.                                               *)

\* The least of a nonempty set of naturals.
LEMMA LowestFact ==
    ASSUME NEW S \in SUBSET Nat, S # {}
    PROVE  Lowest(S) \in S /\ \A y \in S : Lowest(S) <= y
<1>1. \E x \in S : \A y \in S : x <= y
  BY LeastElement
<1> QED BY <1>1 DEF Lowest

\* The stamps are instants gone by.
BeatsInv ==
    /\ beats = [s \in DOMAIN beats |-> beats[s]]
    /\ \A s \in DOMAIN beats : beats[s] \in Nat
    /\ now \in Nat /\ FeedTimeout \in Nat

FeedInv == BeatsInv /\ OutageIsReal

LEMMA SilentFact == ASSUME BeatsInv, FeedSilent PROVE ~Healthy(beats)
<1>1. DOMAIN beats # {}
  <2> SUFFICES ASSUME DOMAIN beats = {} PROVE FALSE
    OBVIOUS
  <2>1. beats = <<>>
    BY DEF BeatsInv
  <2> QED BY <2>1 DEF FeedSilent
<1>2. Lowest({beats[s] : s \in DOMAIN beats}) \in {beats[s] : s \in DOMAIN beats}
  <2> DEFINE S == {beats[s] : s \in DOMAIN beats}
  <2>1. S \in SUBSET Nat /\ S # {}
    BY <1>1 DEF BeatsInv
  <2> HIDE DEF S
  <2>2. Lowest(S) \in S
    BY <2>1, LowestFact
  <2> QED BY <2>2 DEF S
<1>3. PICK s \in DOMAIN beats : beats[s] = Lowest({beats[t] : t \in DOMAIN beats})
  BY <1>2
<1>4. now - beats[s] > FeedTimeout
  BY <1>3 DEF FeedSilent, Silence
<1> QED BY <1>3, <1>4 DEF Healthy, BeatsInv

LEMMA FeedStep == ASSUME FeedInv, [WatchNext]_<<flashVars, feedVars, now>> PROVE FeedInv'
<1>1. ASSUME UNCHANGED <<beats, feedDown>>, now' = now \/ now' = now + 1 PROVE FeedInv'
  <2>1. BeatsInv'
    BY <1>1 DEF FeedInv, BeatsInv
  <2>2. ASSUME feedDown # None PROVE ~Healthy(beats)'
    <3>1. PICK s \in DOMAIN beats : now - beats[s] > FeedTimeout
      BY <2>2 DEF FeedInv, OutageIsReal, Healthy, BeatsInv
    <3>2. now' - beats'[s] > FeedTimeout /\ s \in DOMAIN beats'
      BY <1>1, <3>1 DEF FeedInv, BeatsInv
    <3> QED BY <2>1, <3>2 DEF Healthy, BeatsInv
  <2> QED BY <1>1, <2>1, <2>2 DEF FeedInv, OutageIsReal
<1>2. ASSUME NEW source \in Sources, RecordDataHeartbeat(source), now' = now PROVE FeedInv'
  <2>1. BeatsInv'
    BY <1>2 DEF RecordDataHeartbeat, FeedInv, BeatsInv
  <2>2. OutageIsReal'
    BY <1>2 DEF RecordDataHeartbeat, OutageIsReal, Healthy, None
  <2> QED BY <2>1, <2>2 DEF FeedInv
<1>3. ASSUME CheckTechnical, now' = now PROVE FeedInv'
  <2>1. BeatsInv'
    BY <1>3 DEF CheckTechnical, FeedInv, BeatsInv
  <2>2. feedDown' # None => ~Healthy(beats)
    BY <1>3, SilentFact DEF CheckTechnical, FeedInv, OutageIsReal
  <2> QED BY <1>3, <2>1, <2>2 DEF CheckTechnical, FeedInv, OutageIsReal, Healthy
<1>4. CASE FeedNext /\ UNCHANGED <<flashVars, now>>
  BY <1>1, <1>2, <1>3, <1>4 DEF FeedNext, RecordApiFailure, RecordApiSuccess
<1>5. CASE FlashNext /\ UNCHANGED <<feedVars, now>>
  BY <1>1, <1>5 DEF feedVars
<1>6. CASE Tick /\ UNCHANGED <<flashVars, feedVars>>
  BY <1>1, <1>6 DEF feedVars, Tick
<1>7. CASE UNCHANGED <<flashVars, feedVars, now>>
  BY <1>1, <1>7 DEF feedVars
<1> QED BY <1>4, <1>5, <1>6, <1>7 DEF WatchNext

\* While an outage is timed some feed is silent, for any feeds, timeout and order of
\* beats and checks: silences of several feeds never add up to an emergency.
THEOREM OutageAlwaysReal == WatchSpec => []OutageIsReal
<1>1. WatchInit /\ now = 0 => FeedInv
  BY WatchAssumption DEF WatchInit, FeedInv, BeatsInv, OutageIsReal, WatchAssumption
<1>2. FeedInv /\ [WatchNext]_<<flashVars, feedVars, now>> => FeedInv'
  BY FeedStep
<1>3. FeedInv => OutageIsReal
  BY DEF FeedInv
<1> QED BY <1>1, <1>2, <1>3, PTL DEF WatchSpec

-----------------------------------------------------------------------------
(* The flash-crash pause.                                                  *)

Quotes == [at : 0..Horizon, price : Prices]

\* A pause comes from a crash, whose low is kept.
WatchRest ==
    /\ WatchTypeOK /\ now \in 0..Horizon /\ indexPrices \in Seq(Quotes)
    /\ flash.pauseUntil # None => crashLow # None

\* The prices of the window, when there has been a crash in it.
LEMMA RecentPrices == ASSUME WatchRest, Crashed PROVE Recent \subseteq Prices /\ Recent # {}
<1>1. Recent \subseteq Prices
  <2>1. Range(indexPrices) \subseteq Quotes /\ \A q \in Quotes : q.price \in Prices
    BY DEF WatchRest, WatchTypeOK, Quotes
  <2> QED BY <2>1 DEF Recent
<1>2. PICK i \in DOMAIN indexPrices : now - indexPrices[i].at <= CrashWindow
  <2> SUFFICES ASSUME {i \in DOMAIN indexPrices : now - indexPrices[i].at <= CrashWindow} = {} PROVE FALSE
    OBVIOUS
  <2> QED BY FS_EmptySet DEF Crashed
<1>3. Recent # {}
  BY <1>2 DEF Recent, Range
<1> QED BY <1>1, <1>3

LEMMA LowestPrice == ASSUME NEW S \in SUBSET Prices, S # {} PROVE Lowest(S) \in S
<1>1. S \in SUBSET Nat
  BY WatchAssumption DEF WatchAssumption
<1> QED BY <1>1, LowestFact

LEMMA HighestPrice == ASSUME WatchRest, Crashed PROVE Highest(Recent) \in Recent
<1>1. Recent \subseteq Nat /\ Recent # {}
  BY RecentPrices, WatchAssumption DEF WatchAssumption
<1>2. Recent \subseteq {t.price : t \in Range(indexPrices)}
  BY DEF Recent
<1>3. IsFiniteSet(Recent)
  <2> DEFINE n == Len(indexPrices)
             at == [i \in 1..n |-> indexPrices[i].price]
  <2>1. n \in Nat /\ DOMAIN indexPrices = 1..n
    BY DEF WatchRest
  <2>2. IsFiniteSet(1..n) /\ DOMAIN at = 1..n
    BY <2>1, FS_Interval
  <2>3. Recent \subseteq {at[i] : i \in 1..n}
    BY <1>2, <2>1 DEF Range
  <2> HIDE DEF at, n
  <2>4. IsFiniteSet({at[i] : i \in 1..n})
    BY <2>2, FiniteRange
  <2> QED BY <2>3, <2>4, FS_Subset
<1>4. PICK n \in Nat : \A x \in Recent : x <= n
  BY <1>1, <1>3, FiniteIsBounded
<1>5. PICK m \in Recent : \A y \in Recent : m >= y
  <2>1. Max(Recent) \in Recent /\ \A y \in Recent : y <= Max(Recent)
    BY <1>1, <1>4, MaxOfBounded
  <2>2. \A y \in Recent : Max(Recent) >= y
    BY <1>1, <2>1
  <2> QED BY <2>1, <2>2
<1> QED BY <1>5 DEF Highest

LEMMA FlashTyped == ASSUME WatchRest, CheckFlashCrash
                    PROVE  /\ flash'.pauseUntil \in Nat \cup {None} /\ {flash'.origin, flash'.low} \subseteq Prices \cup {None}
                           /\ crashLow' \in Prices \cup {None}
                           /\ flash'.pauseUntil # None => crashLow' # None
<1>1. None \notin Prices /\ now \in Nat /\ PauseLength \in Nat
  BY WatchAssumption DEF WatchRest, WatchAssumption, None
<1>2. /\ flash.pauseUntil \in Nat \cup {None} /\ flash.origin \in Prices \cup {None} /\ flash.low \in Prices \cup {None}
      /\ crashLow \in Prices \cup {None} /\ (flash.pauseUntil # None => crashLow # None)
  BY DEF WatchRest, WatchTypeOK
<1>3. flash' = NoCrash \/ flash' = AfterFall
  BY DEF CheckFlashCrash
<1>4. CASE ~Crashed
  <2>1. crashLow' = crashLow /\ AfterFall = flash
    BY <1>4 DEF CheckFlashCrash, AfterFall
  <2> QED BY <1>2, <1>3, <2>1 DEF NoCrash
<1>5. CASE Crashed
  <2> DEFINE new == Lowest(Recent)
             top == Highest(Recent)
  <2>1. new \in Prices /\ top \in Prices
    <3>1. Recent \in SUBSET Prices /\ Recent # {}
      BY <1>5, RecentPrices
    <3>2. new \in Recent /\ top \in Recent
      BY <1>5, <3>1, LowestPrice, HighestPrice
    <3> QED BY <3>1, <3>2
  <2> HIDE DEF new, top
  <2>2. \A p \in Prices : Lowest({new, p}) \in Prices
    <3> SUFFICES ASSUME NEW p \in Prices PROVE Lowest({new, p}) \in Prices
      OBVIOUS
    <3>1. {new, p} \in SUBSET Prices /\ {new, p} # {}
      BY <2>1
    <3>2. Lowest({new, p}) \in {new, p}
      BY <3>1, LowestPrice
    <3> QED BY <3>1, <3>2
  <2>3. AfterFall = [pauseUntil |-> now + PauseLength, origin |-> top,
                     low |-> IF flash.low = None THEN new ELSE Lowest({new, flash.low})]
    BY <1>5 DEF AfterFall, new, top
  <2>4. AfterFall.pauseUntil \in Nat /\ AfterFall.origin \in Prices /\ AfterFall.low \in Prices
    <3>1. AfterFall.pauseUntil = now + PauseLength /\ AfterFall.origin = top
      BY <2>3
    <3>2. AfterFall.low = new \/ (flash.low \in Prices /\ AfterFall.low = Lowest({new, flash.low}))
      BY <1>2, <2>3
    <3> QED BY <1>1, <2>1, <2>2, <3>1, <3>2
  <2>5. /\ flash'.pauseUntil \in Nat \cup {None} /\ flash'.origin \in Prices \cup {None}
        /\ flash'.low \in Prices \cup {None}
    BY <1>3, <2>4 DEF NoCrash
  <2>6. CASE Paused(flash)
    <3>1. crashLow' = Lowest({new, crashLow})
      BY <1>5, <2>6 DEF CheckFlashCrash, new
    <3>2. crashLow \in Prices
      BY <1>2, <2>6 DEF Paused
    <3>3. Lowest({new, crashLow}) \in Prices
      BY <2>2, <3>2
    <3>4. crashLow' \in Prices
      BY <1>2, <3>1, <3>3
    <3> QED BY <1>1, <2>5, <3>4
  <2>7. CASE ~Paused(flash)
    <3>1. crashLow' = new
      BY <1>5, <2>7 DEF CheckFlashCrash, new
    <3>2. crashLow' \in Prices
      BY <2>1, <3>1
    <3> QED BY <1>1, <2>5, <3>2
  <2> QED BY <2>6, <2>7
<1> QED BY <1>4, <1>5

LEMMA WatchRestStep == ASSUME WatchRest, [WatchNext]_<<flashVars, feedVars, now>> PROVE WatchRest'
<1> DEFINE FlashPart ==
             /\ Range(indexPrices) \subseteq Quotes /\ indexPrices \in Seq(Quotes)
             /\ flash.pauseUntil \in Nat \cup {None} /\ {flash.origin, flash.low} \subseteq Prices \cup {None}
             /\ crashLow \in Prices \cup {None}
             /\ flash.pauseUntil # None => crashLow # None
           FeedPart ==
             /\ DOMAIN beats \subseteq Sources /\ Range(beats) \subseteq 0..Horizon
             /\ feedDown \in -1..Horizon /\ apiFailures \in [count : 0..ApiRetries, first : -1..Horizon]
             /\ alarm \in [feed : {"quiet", "blocked", "flatten"}, api : {"quiet", "warned", "flatten"}]
<1>1. WatchRest <=> FlashPart /\ FeedPart /\ now \in 0..Horizon
  BY DEF WatchRest, WatchTypeOK, Quotes
<1>2. FlashPart /\ FeedPart /\ now \in 0..Horizon /\ Horizon \in Nat
  BY <1>1, HorizonAssumption DEF HorizonAssumption
<1>3. (FlashPart /\ FeedPart /\ now \in 0..Horizon)' => WatchRest'
  BY DEF WatchRest, WatchTypeOK, Quotes
<1>4. ASSUME UNCHANGED flashVars PROVE FlashPart'
  BY <1>2, <1>4 DEF flashVars
<1>5. ASSUME UNCHANGED feedVars PROVE FeedPart'
  BY <1>2, <1>5 DEF feedVars
<1>6. ASSUME FlashNext PROVE FlashPart'
  <2>1. ASSUME NEW price \in Prices, RecordIndexPrice(price) PROVE FlashPart'
    <3> DEFINE quote == [at |-> now, price |-> price]
    <3>1. indexPrices' = Append(indexPrices, quote) /\ UNCHANGED <<flash, crashLow>>
      BY <2>1 DEF RecordIndexPrice
    <3>2. quote \in Quotes
      BY <1>2 DEF Quotes
    <3> HIDE DEF quote
    <3>3. indexPrices \in Seq(Quotes)
      BY <1>2
    <3>4. indexPrices' \in Seq(Quotes)
      BY <3>1, <3>2, <3>3
    <3>5. Range(indexPrices') \subseteq Quotes
      BY <3>4 DEF Range
    <3> QED BY <1>2, <3>1, <3>4, <3>5
  <2>2. CASE CheckFlashCrash
    <3>1. indexPrices' = indexPrices
      BY <2>2 DEF CheckFlashCrash
    <3> QED BY <1>2, <2>2, <3>1, FlashTyped
  <2> QED BY <1>6, <2>1, <2>2 DEF FlashNext
<1>7. ASSUME FeedNext PROVE FeedPart'
  <2>1. ASSUME NEW source \in Sources, RecordDataHeartbeat(source) PROVE FeedPart'
    <3>1. /\ beats' = [s \in DOMAIN beats \cup {source} |-> IF s = source THEN now ELSE beats[s]]
          /\ feedDown' \in {feedDown, None} /\ UNCHANGED <<apiFailures, alarm>>
      BY <2>1 DEF RecordDataHeartbeat
    <3>2. \A s \in DOMAIN beats : beats[s] \in 0..Horizon
      BY <1>2 DEF Range
    <3>3. DOMAIN beats' \subseteq Sources /\ Range(beats') \subseteq 0..Horizon
      BY <1>2, <3>1, <3>2 DEF Range
    <3>4. feedDown' \in -1..Horizon
      BY <1>2, <3>1 DEF None
    <3> QED BY <1>2, <3>1, <3>3, <3>4
  <2>2. CASE RecordApiFailure
    <3>1. /\ apiFailures.count < ApiRetries /\ UNCHANGED <<beats, feedDown, alarm>>
          /\ apiFailures' = [count |-> apiFailures.count + 1,
                             first |-> IF apiFailures.first = None THEN now ELSE apiFailures.first]
      BY <2>2 DEF RecordApiFailure
    <3>2. apiFailures' \in [count : 0..ApiRetries, first : -1..Horizon]
      BY <1>2, <3>1, WatchAssumption DEF WatchAssumption
    <3> QED BY <1>2, <3>1, <3>2
  <2>3. CASE RecordApiSuccess
    <3>1. apiFailures' = [count |-> 0, first |-> -1] /\ UNCHANGED <<beats, feedDown, alarm>>
      BY <2>3 DEF RecordApiSuccess, NoFailures, None
    <3>2. apiFailures' \in [count : 0..ApiRetries, first : -1..Horizon]
      BY <1>2, <3>1, WatchAssumption DEF WatchAssumption
    <3> QED BY <1>2, <3>1, <3>2
  <2>4. CASE CheckTechnical
    <3>1. UNCHANGED <<beats, apiFailures>> /\ feedDown' \in {now, feedDown}
      BY <2>4 DEF CheckTechnical
    <3>2. alarm' \in [feed : {"quiet", "blocked", "flatten"}, api : {"quiet", "warned", "flatten"}]
      BY <2>4 DEF CheckTechnical
    <3>3. feedDown' \in -1..Horizon
      BY <1>2, <3>1
    <3> QED BY <1>2, <3>1, <3>2, <3>3
  <2> QED BY <1>7, <2>1, <2>2, <2>3, <2>4 DEF FeedNext
<1> HIDE DEF FlashPart, FeedPart
<1>8. CASE FlashNext /\ UNCHANGED <<feedVars, now>>
  BY <1>2, <1>3, <1>5, <1>6, <1>8
<1>9. CASE FeedNext /\ UNCHANGED <<flashVars, now>>
  BY <1>2, <1>3, <1>4, <1>7, <1>9
<1>10. CASE Tick /\ UNCHANGED <<flashVars, feedVars>>
  <2>1. now' \in 0..Horizon
    BY <1>2, <1>10 DEF Tick
  <2> QED BY <1>3, <1>4, <1>5, <1>10, <2>1
<1>11. CASE UNCHANGED <<flashVars, feedVars, now>>
  BY <1>2, <1>3, <1>4, <1>5, <1>11
<1> QED BY <1>8, <1>9, <1>10, <1>11 DEF WatchNext

LEMMA WatchRestInit == WatchInit /\ now = 0 => WatchRest
<1> SUFFICES ASSUME WatchInit, now = 0 PROVE WatchRest
  OBVIOUS
<1>1. /\ indexPrices = <<>> /\ beats = <<>> /\ flash = [pauseUntil |-> -1, origin |-> -1, low |-> -1]
      /\ crashLow = -1 /\ feedDown = -1 /\ apiFailures = [count |-> 0, first |-> -1]
      /\ alarm = [feed |-> "quiet", api |-> "quiet"]
  BY DEF WatchInit, NoCrash, NoFailures, None
<1>2. DOMAIN beats = {} /\ DOMAIN indexPrices = {} /\ indexPrices \in Seq(Quotes)
  BY <1>1
<1>3. Range(beats) = {} /\ Range(indexPrices) = {}
  BY <1>2 DEF Range
<1>4. Horizon \in Nat /\ ApiRetries \in Nat
  BY HorizonAssumption, WatchAssumption DEF HorizonAssumption, WatchAssumption
<1>5. /\ feedDown \in -1..Horizon /\ now \in 0..Horizon
      /\ apiFailures \in [count : 0..ApiRetries, first : -1..Horizon]
  BY <1>1, <1>4
<1> QED BY <1>1, <1>2, <1>3, <1>5 DEF WatchRest, WatchTypeOK, None

\* Type correctness of the two detectors.
THEOREM WatchTypeCorrect == WatchSpec => []WatchTypeOK
<1>1. WatchInit /\ now = 0 => WatchRest
  BY WatchRestInit
<1>2. WatchRest /\ [WatchNext]_<<flashVars, feedVars, now>> => WatchRest'
  BY WatchRestStep
<1>3. WatchRest => WatchTypeOK
  BY DEF WatchRest
<1> QED BY <1>1, <1>2, <1>3, PTL DEF WatchSpec

\* The pause runs from a check that saw a fall, and the ticks of that fall are kept.
PauseInv ==
    /\ \A i \in DOMAIN indexPrices : indexPrices[i].at <= now
    /\ flash.pauseUntil # None =>
          \E check \in 0..now : flash.pauseUntil = check + PauseLength /\ FallBetween(check - CrashWindow, check)

\* A crash is a fall between two ticks of the window.
LEMMA CrashIsFall == ASSUME WatchRest, PauseInv, Crashed PROVE FallBetween(now - CrashWindow, now)
<1>1. Recent \in SUBSET Prices /\ Recent # {}
  BY RecentPrices
<1>2. Lowest(Recent) \in Recent /\ Highest(Recent) \in Recent
  BY <1>1, LowestPrice, HighestPrice
<1>3. ASSUME NEW price \in Recent
      PROVE  \E i \in DOMAIN indexPrices : indexPrices[i].price = price /\ indexPrices[i].at \in (now - CrashWindow)..now
  <2>1. PICK i \in DOMAIN indexPrices : now - indexPrices[i].at <= CrashWindow /\ indexPrices[i].price = price
    BY <1>3 DEF Recent, Range
  <2>2. indexPrices[i] \in Quotes
    BY DEF WatchRest
  <2>3. indexPrices[i].at \in Int /\ now \in Int /\ CrashWindow \in Int /\ indexPrices[i].at <= now
    BY <2>2, WatchAssumption DEF Quotes, WatchRest, WatchAssumption, PauseInv
  <2>4. indexPrices[i].at \in (now - CrashWindow)..now
    BY <2>1, <2>3
  <2> QED BY <2>1, <2>4
<1>4. PICK i \in DOMAIN indexPrices :
        indexPrices[i].price = Lowest(Recent) /\ indexPrices[i].at \in (now - CrashWindow)..now
  BY <1>2, <1>3
<1>5. PICK j \in DOMAIN indexPrices :
        indexPrices[j].price = Highest(Recent) /\ indexPrices[j].at \in (now - CrashWindow)..now
  BY <1>2, <1>3
<1>6. 100 * indexPrices[i].price <= (100 - CrashPct) * indexPrices[j].price
  BY <1>4, <1>5 DEF Crashed
<1> QED BY <1>4, <1>5, <1>6 DEF FallBetween

LEMMA PauseStep == ASSUME WatchRest, PauseInv, [WatchNext]_<<flashVars, feedVars, now>> PROVE PauseInv'
<1>1. now \in 0..Horizon /\ Horizon \in Nat /\ indexPrices \in Seq(Quotes) /\ CrashWindow \in Nat /\ PauseLength \in Nat
  BY HorizonAssumption, WatchAssumption DEF WatchRest, HorizonAssumption, WatchAssumption
<1>2. \A i \in DOMAIN indexPrices : indexPrices[i].at \in Int
  <2>1. \A quote \in Quotes : quote.at \in Int
    BY <1>1 DEF Quotes
  <2>2. \A i \in DOMAIN indexPrices : indexPrices[i] \in Quotes
    BY <1>1
  <2> QED BY <2>1, <2>2
<1>3. ASSUME UNCHANGED <<indexPrices, flash>>, now' \in {now, now + 1} PROVE PauseInv'
  <2>1. \A i \in DOMAIN indexPrices' : indexPrices'[i].at <= now'
    BY <1>1, <1>2, <1>3 DEF PauseInv
  <2>2. \A check \in 0..now : check \in 0..now' /\ FallBetween(check - CrashWindow, check)' = FallBetween(check - CrashWindow, check)
    BY <1>1, <1>3 DEF FallBetween
  <2> QED BY <1>3, <2>1, <2>2 DEF PauseInv
<1>4. ASSUME NEW price \in Prices, RecordIndexPrice(price), now' = now PROVE PauseInv'
  <2> DEFINE quote == [at |-> now, price |-> price]
  <2>1. indexPrices' = Append(indexPrices, quote) /\ UNCHANGED flash /\ quote \in Quotes /\ quote.at = now
    BY <1>1, <1>4 DEF RecordIndexPrice, Quotes
  <2> HIDE DEF quote
  <2>2. \A i \in DOMAIN indexPrices : i \in DOMAIN indexPrices' /\ indexPrices'[i] = indexPrices[i]
    BY <1>1, <2>1
  <2>3. \A i \in DOMAIN indexPrices' : i \in DOMAIN indexPrices \/ indexPrices'[i] = quote
    BY <1>1, <2>1
  <2>4. \A i \in DOMAIN indexPrices' : indexPrices'[i].at <= now'
    BY <1>1, <1>4, <2>1, <2>2, <2>3 DEF PauseInv
  <2>5. ASSUME NEW check \in 0..now, FallBetween(check - CrashWindow, check) PROVE FallBetween(check - CrashWindow, check)'
    <3>1. PICK i \in DOMAIN indexPrices, j \in DOMAIN indexPrices :
            /\ {indexPrices[i].at, indexPrices[j].at} \subseteq (check - CrashWindow)..check
            /\ 100 * indexPrices[i].price <= (100 - CrashPct) * indexPrices[j].price
      BY <2>5 DEF FallBetween
    <3> QED BY <2>2, <3>1 DEF FallBetween
  <2> QED BY <1>4, <2>1, <2>4, <2>5 DEF PauseInv
<1>5. ASSUME CheckFlashCrash, now' = now PROVE PauseInv'
  <2>1. UNCHANGED indexPrices /\ flash' \in {NoCrash, AfterFall}
    BY <1>5 DEF CheckFlashCrash
  <2>2. \A check \in 0..now : FallBetween(check - CrashWindow, check)' = FallBetween(check - CrashWindow, check)
    BY <2>1 DEF FallBetween
  <2>3. \A i \in DOMAIN indexPrices' : indexPrices'[i].at <= now'
    BY <1>5, <2>1 DEF PauseInv
  <2>4. CASE flash' = NoCrash
    BY <2>3, <2>4 DEF PauseInv, NoCrash
  <2>5. CASE flash' = AfterFall /\ ~Crashed
    BY <1>5, <2>2, <2>3, <2>5 DEF PauseInv, AfterFall
  <2>6. CASE flash' = AfterFall /\ Crashed
    <3>1. flash'.pauseUntil = now + PauseLength
      BY <2>6 DEF AfterFall
    <3>2. FallBetween(now - CrashWindow, now)' /\ now \in 0..now
      BY <1>1, <1>5, <2>1, <2>6, CrashIsFall DEF FallBetween
    <3>3. \E check \in 0..now' : flash'.pauseUntil = check + PauseLength /\ FallBetween(check - CrashWindow, check)'
      BY <1>5, <3>1, <3>2
    <3> QED BY <2>3, <3>3 DEF PauseInv
  <2> QED BY <2>1, <2>4, <2>5, <2>6
<1>6. CASE FlashNext /\ UNCHANGED <<feedVars, now>>
  BY <1>4, <1>5, <1>6 DEF FlashNext
<1>7. CASE UNCHANGED flashVars /\ now' \in {now, now + 1}
  BY <1>3, <1>7 DEF flashVars
<1> QED BY <1>6, <1>7 DEF WatchNext, Tick

\* While the flash-crash detector pauses, a check within the last PauseLength saw a fall
\* inside its window, for any prices, thresholds, windows and order of ticks and checks.
THEOREM PauseAlwaysAnswersToFall == WatchSpec => []PauseAnswersToFall
<1>1. WatchInit /\ now = 0 => WatchRest /\ PauseInv
  BY WatchRestInit DEF WatchInit, PauseInv, NoCrash
<1>2. WatchRest /\ PauseInv /\ [WatchNext]_<<flashVars, feedVars, now>> => (WatchRest /\ PauseInv)'
  BY WatchRestStep, PauseStep
<1>3. WatchRest /\ PauseInv => PauseAnswersToFall
  <2> SUFFICES ASSUME WatchRest, PauseInv, Paused(flash) PROVE PauseAnswersToFall
    BY DEF PauseAnswersToFall
  <2>1. PICK check \in 0..now : flash.pauseUntil = check + PauseLength /\ FallBetween(check - CrashWindow, check)
    BY DEF PauseInv, Paused
  <2> QED BY <2>1 DEF PauseAnswersToFall, Paused
<1> QED BY <1>1, <1>2, <1>3, PTL DEF WatchSpec

-----------------------------------------------------------------------------
(* The order-flow gate.                                                    *)

FlowStragglers == Cardinality(Strategies) - 1
Outstanding == {s \in Strategies : granted[s] # NoOrder}
RecentOnes == {i \in DOMAIN submissions : submissions[i].at >= now - RateWindow}

Stamped == [at : Int, print : Fingerprints \cup {NoOrder}]

\* The orders before the last count ones, and those of them a window that reaches one of
\* these can still see.
LateEarlier(orders, count, since) ==
    {i \in 1..(Len(orders) - count) : orders[i].at >= since - AttemptWindow}

\* The current count holds the last orders sent, the first of them at its start, and a
\* permission out is a place taken in it; a window that sees one of these has room for
\* all but one of an earlier count.
CountSound(orders, count, since, out, time, bound) ==
    /\ count <= bound /\ count <= Len(orders)
    /\ time - since <= AttemptWindow => count + out <= bound
    /\ count = 0 => Len(orders) = 0
    /\ since <= time
    /\ \A i \in 1..Len(orders) : orders[i].at <= time
    /\ \A i \in 1..(Len(orders) - count) : orders[i].at <= since
    /\ count > 0 => orders[Len(orders) - count + 1].at = since
    /\ Cardinality(LateEarlier(orders, count, since)) <= bound - 1
    /\ \A from \in Int : Within(orders, from, AttemptWindow) <= 2 * bound - 1

PermitsInv ==
    /\ granted \in [Strategies -> Fingerprints \cup {NoOrder}] /\ now \in Nat
    /\ submissions \in Seq(Stamped) /\ sent \in Seq(Stamped)
    /\ attempts \in [count : Nat, since : Int]

\* A permission out is a place taken in the minute and in the count.
MinuteInv ==
    /\ Cardinality(RecentOnes) + Cardinality(Outstanding) <= MaxPerMinute + FlowStragglers
    /\ \A from \in Int : Within(submissions, from, RateWindow) <= MaxPerMinute + FlowStragglers

CountInv ==
    CountSound(sent, attempts.count, attempts.since, Cardinality(Outstanding), now,
               MaxAttempts + FlowStragglers)

FlowInv == PermitsInv /\ MinuteInv /\ CountInv

\* What Append makes of a sequence of stamped orders.
LEMMA AppendFact ==
    ASSUME NEW orders \in Seq(Stamped), NEW order \in Stamped
    PROVE  /\ Append(orders, order) \in Seq(Stamped)
           /\ Len(orders) \in Nat /\ Len(Append(orders, order)) = Len(orders) + 1
           /\ DOMAIN orders = 1..Len(orders) /\ DOMAIN Append(orders, order) = 1..(Len(orders) + 1)
           /\ \A i \in 1..Len(orders) : Append(orders, order)[i] = orders[i] /\ orders[i].at \in Int
           /\ Append(orders, order)[Len(orders) + 1] = order
<1>1. \A r \in Stamped : r.at \in Int
  BY DEF Stamped
<1>2. orders \in Seq(Stamped) /\ order \in Stamped
  OBVIOUS
<1>3. Append(orders, order) \in Seq(Stamped) /\ Len(orders) \in Nat
  BY <1>2
<1>4. Len(Append(orders, order)) = Len(orders) + 1
  BY <1>2
<1>5. DOMAIN orders = 1..Len(orders) /\ DOMAIN Append(orders, order) = 1..(Len(orders) + 1)
  BY <1>2
<1>6. \A i \in 1..Len(orders) : Append(orders, order)[i] = orders[i] /\ orders[i].at \in Int
  BY <1>1, <1>2
<1>7. Append(orders, order)[Len(orders) + 1] = order
  BY <1>2
<1> QED BY <1>3, <1>4, <1>5, <1>6, <1>7

\* A sequence's window is a finite set of its positions.
LEMMA WindowCount ==
    ASSUME NEW orders \in Seq(Stamped), NEW S, IsFiniteSet(S),
           NEW from \in Int, NEW length \in Nat,
           \A i \in 1..Len(orders) : orders[i].at \in from..(from + length) => i \in S
    PROVE  Within(orders, from, length) <= Cardinality(S)
<1>1. {i \in DOMAIN orders : orders[i].at \in from..(from + length)} \in SUBSET S
  BY DOMAIN orders = 1..Len(orders)
<1> QED BY <1>1, FS_Subset DEF Within

LEMMA OutstandingFact ==
    PermitsInv => /\ IsFiniteSet(Outstanding) /\ Cardinality(Outstanding) \in Nat
                  /\ Cardinality(Outstanding) <= FlowStragglers + 1 /\ FlowStragglers + 1 \in Nat
                  /\ FlowStragglers \in Nat
<1>1. IsFiniteSet(Strategies) /\ Strategies # {} /\ Outstanding \in SUBSET Strategies
  BY FlowAssumption DEF FlowAssumption, Outstanding
<1>2. Cardinality(Strategies) \in Nat /\ Cardinality(Strategies) # 0
  BY <1>1, FS_CardinalityType, FS_EmptySet
<1>3. IsFiniteSet(Outstanding) /\ Cardinality(Outstanding) <= Cardinality(Strategies)
  BY <1>1, FS_Subset
<1>4. Cardinality(Outstanding) \in Nat
  BY <1>3, FS_CardinalityType
<1> QED BY <1>2, <1>3, <1>4 DEF FlowStragglers

LEMMA FiniteOnes ==
    ASSUME PermitsInv
    PROVE  IsFiniteSet(RecentOnes) /\ Cardinality(RecentOnes) \in Nat
<1>1. Len(submissions) \in Nat /\ DOMAIN submissions = 1..Len(submissions)
  BY DEF PermitsInv
<1>2. IsFiniteSet(1..Len(submissions))
  BY <1>1, FS_Interval
<1>3. RecentOnes \in SUBSET (1..Len(submissions))
  BY <1>1 DEF RecentOnes
<1>4. IsFiniteSet(RecentOnes)
  BY <1>2, <1>3, FS_Subset
<1> QED BY <1>4, FS_CardinalityType

\* The permissions out after a question and after a registration.
LEMMA GrantFact ==
    ASSUME PermitsInv, NEW s \in Strategies
    PROVE  /\ granted' = [granted EXCEPT ![s] = NoOrder] /\ granted[s] # NoOrder =>
                /\ Cardinality(Outstanding') = Cardinality(Outstanding) - 1
                /\ Cardinality(Outstanding') <= FlowStragglers
<1> SUFFICES ASSUME granted' = [granted EXCEPT ![s] = NoOrder], granted[s] # NoOrder
             PROVE  /\ Cardinality(Outstanding') = Cardinality(Outstanding) - 1
                    /\ Cardinality(Outstanding') <= FlowStragglers
  OBVIOUS
<1>1. Outstanding' = Outstanding \ {s} /\ s \in Outstanding
  BY DEF PermitsInv, Outstanding
<1>2. IsFiniteSet(Outstanding) /\ Cardinality(Outstanding) <= FlowStragglers + 1 /\ Cardinality(Outstanding) \in Nat
      /\ FlowStragglers \in Int
  BY OutstandingFact
<1>3. Cardinality(Outstanding \ {s}) = Cardinality(Outstanding) - 1
  BY <1>1, <1>2, FS_RemoveElement
<1> QED BY <1>1, <1>2, <1>3

LEMMA AskKeeps ==
    ASSUME FlowInv, NEW s \in Strategies, NEW fingerprint \in Fingerprints,
           CanSubmitOrder(s, fingerprint), now' = now
    PROVE  FlowInv'
<1>1. UNCHANGED <<submissions, attempts, sent, now>>
  BY DEF CanSubmitOrder
<1>2. CASE granted' = granted
  BY <1>1, <1>2 DEF FlowInv, PermitsInv, MinuteInv, CountInv, RecentOnes, Outstanding, FlowStragglers
<1>3. CASE Passes(fingerprint) /\ granted' = [granted EXCEPT ![s] = fingerprint]
  <2>1. PermitsInv'
    BY <1>1, <1>3 DEF FlowInv, PermitsInv
  <2>2. Outstanding' \in SUBSET Strategies
    BY DEF Outstanding
  <2>3. /\ Cardinality(Outstanding') \in Nat /\ Cardinality(Outstanding') <= FlowStragglers + 1
        /\ FlowStragglers \in Int
    <3>1. IsFiniteSet(Strategies)
      BY FlowAssumption DEF FlowAssumption
    <3>2. IsFiniteSet(Outstanding') /\ Cardinality(Outstanding') <= Cardinality(Strategies)
      BY <2>2, <3>1, FS_Subset
    <3>3. Cardinality(Outstanding') \in Nat /\ Cardinality(Strategies) \in Nat
      BY <3>1, <3>2, FS_CardinalityType
    <3> QED BY <3>2, <3>3 DEF FlowStragglers
  <2>4. Cardinality(RecentOnes) < MaxPerMinute /\ RecentOnes' = RecentOnes
    BY <1>1, <1>3 DEF Passes, RecentMinute, RecentOnes
  <2>5. Cardinality(RecentOnes) \in Nat /\ MaxPerMinute \in Nat /\ MaxAttempts \in Nat /\ attempts.count \in Nat
    BY FiniteOnes, FlowAssumption DEF FlowInv, FlowAssumption, PermitsInv
  <2>6. MinuteInv'
    BY <1>1, <2>3, <2>4, <2>5 DEF FlowInv, MinuteInv, FlowStragglers
  <2>7. now - attempts.since <= AttemptWindow => attempts.count < MaxAttempts
    BY <1>3, FlowAssumption DEF Passes, AttemptCount, FlowAssumption, FlowInv, PermitsInv
  <2>8. CountInv'
    <3>1. now' - attempts'.since <= AttemptWindow =>
            attempts'.count + Cardinality(Outstanding') <= MaxAttempts + FlowStragglers
      BY <1>1, <2>3, <2>5, <2>7
    <3> QED BY <1>1, <3>1 DEF FlowInv, CountInv, CountSound, FlowStragglers
  <2> QED BY <2>1, <2>6, <2>8 DEF FlowInv
<1> QED BY <1>2, <1>3 DEF CanSubmitOrder

LEMMA MinuteKeeps ==
    ASSUME FlowInv, NEW s \in Strategies, RegisterOrderSubmission(s), now' = now
    PROVE  PermitsInv' /\ MinuteInv'
<1> DEFINE order == [at |-> now, print |-> granted[s]]
<1>1. /\ submissions \in Seq(Stamped) /\ sent \in Seq(Stamped) /\ order \in Stamped /\ now \in Int
      /\ submissions' = Append(submissions, order) /\ sent' = Append(sent, order)
      /\ granted' = [granted EXCEPT ![s] = NoOrder] /\ granted[s] # NoOrder
  BY DEF FlowInv, PermitsInv, RegisterOrderSubmission, Stamped
<1>2. /\ submissions' \in Seq(Stamped)
      /\ Len(submissions) \in Nat /\ Len(submissions') = Len(submissions) + 1
      /\ DOMAIN submissions = 1..Len(submissions) /\ DOMAIN submissions' = 1..(Len(submissions) + 1)
      /\ \A i \in 1..Len(submissions) : submissions'[i] = submissions[i] /\ submissions[i].at \in Int
      /\ submissions'[Len(submissions) + 1] = order
  <2> HIDE DEF order
  <2> QED BY <1>1, AppendFact
<1>3. sent' \in Seq(Stamped)
  <2> HIDE DEF order
  <2> QED BY <1>1, AppendFact
<1>4. PermitsInv'
  <2>1. attempts' \in [count : Nat, since : Int]
    <3>1. attempts \in [count : Nat, since : Int] /\ now \in Int
      BY DEF FlowInv, PermitsInv
    <3>2. attempts' = [count |-> 1, since |-> now] \/ attempts' = [attempts EXCEPT !.count = @ + 1]
      BY DEF RegisterOrderSubmission
    <3> QED BY <3>1, <3>2
  <2>2. granted' \in [Strategies -> Fingerprints \cup {NoOrder}]
    BY <1>1 DEF FlowInv, PermitsInv
  <2>3. now' \in Nat
    BY DEF FlowInv, PermitsInv
  <2> QED BY <1>1, <1>2, <1>3, <2>1, <2>2, <2>3 DEF PermitsInv
<1>5. RecentOnes' = RecentOnes \cup {Len(submissions) + 1}
  <2>1. order.at >= now - RateWindow
    BY <1>1, FlowAssumption DEF FlowAssumption
  <2> HIDE DEF order
  <2> QED BY <1>2, <2>1 DEF RecentOnes
<1>6. Cardinality(RecentOnes') = Cardinality(RecentOnes) + 1 /\ IsFiniteSet(RecentOnes') /\ Cardinality(RecentOnes) \in Nat
  <2>1. IsFiniteSet(RecentOnes) /\ Cardinality(RecentOnes) \in Nat
    BY FiniteOnes DEF FlowInv
  <2>2. Len(submissions) + 1 \notin RecentOnes
    BY <1>2 DEF RecentOnes
  <2> QED BY <1>5, <2>1, <2>2, FS_AddElement
<1>7. /\ Cardinality(Outstanding') = Cardinality(Outstanding) - 1 /\ Cardinality(Outstanding) \in Nat
      /\ FlowStragglers \in Int /\ MaxPerMinute \in Nat /\ Cardinality(Outstanding') \in Int
      /\ FlowStragglers' = FlowStragglers /\ Cardinality(Outstanding) >= 1
  <2>1. Cardinality(Outstanding') = Cardinality(Outstanding) - 1 /\ Cardinality(Outstanding) \in Nat /\ FlowStragglers \in Int
    <3>1. PermitsInv
      BY DEF FlowInv
    <3>2. Cardinality(Outstanding') = Cardinality(Outstanding) - 1
      BY <1>1, <3>1, GrantFact
    <3> QED BY <3>1, <3>2, OutstandingFact
  <2>2. Cardinality(Outstanding) # 0
    <3>1. s \in Outstanding /\ IsFiniteSet(Outstanding)
      BY <1>1, OutstandingFact DEF Outstanding, FlowInv
    <3> QED BY <3>1, FS_EmptySet
  <2> QED BY <2>1, <2>2, FlowAssumption DEF FlowAssumption, FlowStragglers
<1>8. Cardinality(RecentOnes') + Cardinality(Outstanding') <= MaxPerMinute + FlowStragglers
  BY <1>6, <1>7 DEF FlowInv, MinuteInv
<1>9. Cardinality(RecentOnes') <= MaxPerMinute + FlowStragglers
  BY <1>6, <1>7, <1>8
<1>10. ASSUME NEW from \in Int PROVE Within(submissions', from, RateWindow) <= MaxPerMinute + FlowStragglers
  <2> RateWindow \in Nat
    BY FlowAssumption DEF FlowAssumption
  <2>1. CASE now \in from..(from + RateWindow)
    <3>1. \A i \in 1..Len(submissions') : submissions'[i].at \in from..(from + RateWindow) => i \in RecentOnes'
      <4> SUFFICES ASSUME NEW i \in 1..Len(submissions'), submissions'[i].at \in from..(from + RateWindow)
                   PROVE  i \in RecentOnes'
        OBVIOUS
      <4>1. submissions'[i].at >= now - RateWindow /\ i \in DOMAIN submissions'
        BY <1>1, <1>2, <2>1
      <4> QED BY <4>1 DEF RecentOnes
    <3>2. Within(submissions', from, RateWindow) <= Cardinality(RecentOnes')
      BY <1>2, <1>6, <3>1, WindowCount 
    <3>3. Within(submissions', from, RateWindow) \in Int
      <4>1. IsFiniteSet({i \in DOMAIN submissions' : submissions'[i].at \in from..(from + RateWindow)})
        <5>1. IsFiniteSet(DOMAIN submissions')
          BY <1>2, FS_Interval
        <5> QED BY <5>1, FS_Subset
      <4> QED BY <4>1, FS_CardinalityType DEF Within
    <3> QED BY <1>6, <1>7, <1>9, <3>2, <3>3
  <2>2. CASE now \notin from..(from + RateWindow)
    <3>1. {i \in DOMAIN submissions' : submissions'[i].at \in from..(from + RateWindow)}
            = {i \in DOMAIN submissions : submissions[i].at \in from..(from + RateWindow)}
      <4>1. submissions'[Len(submissions) + 1].at = now
        BY <1>2
      <4> HIDE DEF order
      <4> QED BY <1>2, <2>2, <4>1
    <3>2. Within(submissions', from, RateWindow) = Within(submissions, from, RateWindow)
      BY <3>1 DEF Within
    <3> QED BY <3>2 DEF FlowInv, MinuteInv
  <2> QED BY <2>1, <2>2
<1> QED BY <1>4, <1>7, <1>8, <1>10 DEF MinuteInv

FreshCount(count, since, time) == count = 0 \/ time - since > AttemptWindow

\* The next order of a count, or the first of the next one.
LEMMA CountGrows ==
    ASSUME NEW orders \in Seq(Stamped), NEW order \in Stamped, NEW c \in Nat, NEW z \in Int, NEW t \in Int,
           NEW o \in Nat, NEW B \in Nat \ {0}, o <= B - MaxAttempts, order.at = t,
           CountSound(orders, c, z, o + 1, t, B), NEW c2 \in Nat, NEW z2 \in Int,
           FreshCount(c, z, t) => c2 = 1 /\ z2 = t,
           ~FreshCount(c, z, t) => c2 = c + 1 /\ z2 = z
    PROVE  CountSound(Append(orders, order), c2, z2, o, t, B)
<1>1. PICK more \in Seq(Stamped), n \in Nat : more = Append(orders, order) /\ n = Len(orders)
  BY AppendFact
<1>2. /\ more \in Seq(Stamped) /\ n \in Nat /\ Len(more) = n + 1
      /\ DOMAIN orders = 1..n /\ DOMAIN more = 1..(n + 1)
      /\ \A i \in 1..n : more[i] = orders[i] /\ orders[i].at \in Int
      /\ more[n + 1].at = t
  BY <1>1, AppendFact
<1>3. AttemptWindow \in Nat /\ MaxAttempts \in Nat \ {0}
  BY FlowAssumption DEF FlowAssumption
<1>4. /\ c <= B /\ c <= n
      /\ t - z <= AttemptWindow => c + o + 1 <= B
      /\ c = 0 => n = 0
      /\ z <= t /\ \A i \in 1..n : orders[i].at <= t
      /\ \A i \in 1..(n - c) : orders[i].at <= z
      /\ c > 0 => orders[n - c + 1].at = z
      /\ Cardinality(LateEarlier(orders, c, z)) <= B - 1
      /\ \A from \in Int : Within(orders, from, AttemptWindow) <= 2 * B - 1
  BY <1>1 DEF CountSound
<1>5. PICK e \in Int : e = n + 1 - c2
  OBVIOUS
<1>6. /\ FreshCount(c, z, t) => c2 = 1 /\ z2 = t /\ e = n /\ (c > 0 => t - z > AttemptWindow)
      /\ ~FreshCount(c, z, t) => c2 = c + 1 /\ z2 = z /\ e = n - c /\ c > 0 /\ t - z <= AttemptWindow
  <2>1. CASE FreshCount(c, z, t)
    BY <1>2, <1>5, <2>1 DEF FreshCount
  <2>2. CASE ~FreshCount(c, z, t)
    BY <1>2, <1>3, <1>5, <2>2 DEF FreshCount
  <2> QED BY <2>1, <2>2
<1>7. c2 + o <= B /\ c2 <= B /\ c2 <= n + 1 /\ c2 >= 1 /\ z2 <= t
  <2>1. CASE FreshCount(c, z, t)
    BY <1>2, <1>3, <1>6, <2>1
  <2>2. CASE ~FreshCount(c, z, t)
    BY <1>2, <1>3, <1>4, <1>6, <2>2
  <2> QED BY <2>1, <2>2
<1>8. \A i \in 1..(n + 1) : more[i].at <= t
  <2> SUFFICES ASSUME NEW i \in 1..(n + 1) PROVE more[i].at <= t
    OBVIOUS
  <2>1. CASE i \in 1..n
    BY <1>2, <1>4, <2>1
  <2>2. CASE i = n + 1
    BY <1>2, <2>2
  <2> QED BY <2>1, <2>2
<1>9. e <= n /\ \A i \in 1..e : more[i].at <= z2
  <2>1. CASE FreshCount(c, z, t)
    BY <1>2, <1>4, <1>6, <2>1
  <2>2. CASE ~FreshCount(c, z, t)
    BY <1>2, <1>4, <1>6, <2>2
  <2> QED BY <2>1, <2>2
<1>10. more[e + 1].at = z2
  <2>1. CASE FreshCount(c, z, t)
    BY <1>2, <1>6, <2>1
  <2>2. CASE ~FreshCount(c, z, t)
    <3>1. e + 1 \in 1..n /\ e + 1 = n - c + 1
      BY <1>2, <1>4, <1>6, <2>2
    <3>2. more[e + 1] = orders[e + 1]
      BY <1>2, <3>1
    <3> QED BY <1>4, <1>6, <2>2, <3>1, <3>2
  <2> QED BY <2>1, <2>2
<1> DEFINE late == {i \in 1..e : more[i].at >= z2 - AttemptWindow}
<1>11. late = LateEarlier(more, c2, z2)
  <2>1. e = Len(more) - c2
    BY <1>2, <1>5
  <2> QED BY <2>1 DEF LateEarlier
<1>12. IsFiniteSet(late) /\ Cardinality(late) \in Nat
  <2>1. IsFiniteSet(1..e) /\ late \in SUBSET (1..e)
    <3>1. 1 \in Int /\ e \in Int /\ late \in SUBSET (1..e)
      OBVIOUS
    <3> QED BY <3>1, FS_Interval
  <2> HIDE DEF late
  <2>2. IsFiniteSet(late)
    BY <2>1, FS_Subset
  <2> QED BY <2>2, FS_CardinalityType
<1>13. Cardinality(late) <= B - 1
  <2>1. CASE FreshCount(c, z, t) /\ c = 0
    <3>1. late = {}
      BY <1>4, <1>6, <2>1
    <3>2. Cardinality(late) = 0
      BY <3>1, FS_EmptySet
    <3> QED BY <3>2
  <2>2. CASE FreshCount(c, z, t) /\ c # 0
    <3>1. t - z > AttemptWindow /\ e = n /\ z2 = t /\ c > 0
      BY <1>6, <2>2
    <3>2. late \in SUBSET ((n - c + 2)..n)
      <4> SUFFICES ASSUME NEW i \in late PROVE i \in (n - c + 2)..n
        OBVIOUS
      <4>1. i \in 1..n /\ orders[i].at >= t - AttemptWindow /\ orders[i].at \in Int
        BY <1>2, <3>1
      <4>2. orders[i].at > z
        BY <1>3, <3>1, <4>1
      <4>3. i \notin 1..(n - c)
        <5>1. \A k \in 1..(n - c) : orders[k].at <= z
          BY <1>4
        <5> QED BY <4>1, <4>2, <5>1
      <4>4. i # n - c + 1
        BY <1>4, <3>1, <4>1, <4>2
      <4> QED BY <1>2, <4>1, <4>3, <4>4
    <3>3. IsFiniteSet((n - c + 2)..n) /\ Cardinality((n - c + 2)..n) = c - 1
      <4>1. n - c + 2 \in Int /\ n \in Int /\ (n - c + 2 > n => c = 1) /\ n - (n - c + 2) + 1 = c - 1
        BY <3>1
      <4> DEFINE a == n - c + 2
      <4>2. a \in Int /\ n \in Int /\ (a > n => c = 1) /\ n - a + 1 = c - 1
        BY <4>1
      <4> HIDE DEF a
      <4>3. IsFiniteSet(a..n) /\ Cardinality(a..n) = IF a > n THEN 0 ELSE n - a + 1
        BY <4>2, FS_Interval
      <4> QED BY <4>2, <4>3 DEF a
    <3> HIDE DEF late
    <3>4. Cardinality(late) <= c - 1
      BY <3>2, <3>3, FS_Subset
    <3> QED BY <1>4, <1>12, <3>4
  <2>3. CASE ~FreshCount(c, z, t)
    <3>1. e = n - c /\ z2 = z
      BY <1>6, <2>3
    <3>2. late = LateEarlier(orders, c, z)
      BY <1>1, <1>2, <3>1, <1>9 DEF LateEarlier
    <3> QED BY <1>4, <3>2
  <2> QED BY <2>1, <2>2, <2>3
<1> HIDE DEF late
<1>14. ASSUME NEW from \in Int PROVE Within(more, from, AttemptWindow) <= 2 * B - 1
  <2>1. CASE t \in from..(from + AttemptWindow)
    <3> DEFINE current == (e + 1)..(n + 1)
    <3>1. IsFiniteSet(current) /\ Cardinality(current) = c2
      <4>1. e + 1 \in Int /\ n + 1 \in Int /\ ~(e + 1 > n + 1) /\ (n + 1) - (e + 1) + 1 = c2
        BY <1>5, <1>7
      <4> QED BY <4>1, FS_Interval
    <3>2. \A i \in 1..Len(more) : more[i].at \in from..(from + AttemptWindow) => i \in late \cup current
      <4> SUFFICES ASSUME NEW i \in 1..(n + 1), more[i].at \in from..(from + AttemptWindow), i \notin current
                   PROVE  i \in late
        BY <1>2
      <4>1. i \in 1..e
        BY <1>9
      <4>2. more[i].at >= z2 - AttemptWindow
        BY <1>3, <1>7, <2>1
      <4> QED BY <4>1, <4>2 DEF late
    <3> HIDE DEF current
    <3>3. IsFiniteSet(late \cup current) /\ Cardinality(late \cup current) <= B - 1 + B
      <4>1. /\ IsFiniteSet(late \cup current)
            /\ Cardinality(late \cup current)
                = Cardinality(late) + Cardinality(current) - Cardinality(late \cap current)
        BY <1>12, <3>1, FS_Union
      <4>2. Cardinality(late \cap current) \in Nat
        BY <1>12, FS_Intersection, FS_CardinalityType
      <4> QED BY <1>7, <1>12, <1>13, <3>1, <4>1, <4>2
    <3>4. Within(more, from, AttemptWindow) <= Cardinality(late \cup current)
      BY <1>2, <1>3, <3>2, <3>3, WindowCount
    <3>5. Within(more, from, AttemptWindow) \in Int /\ Cardinality(late \cup current) \in Int
      <4>1. IsFiniteSet({i \in DOMAIN more : more[i].at \in from..(from + AttemptWindow)})
        <5>1. IsFiniteSet(DOMAIN more)
          BY <1>2, FS_Interval
        <5> QED BY <5>1, FS_Subset
      <4> QED BY <3>3, <4>1, FS_CardinalityType DEF Within
    <3> QED BY <3>3, <3>4, <3>5
  <2>2. CASE t \notin from..(from + AttemptWindow)
    <3>1. {i \in DOMAIN more : more[i].at \in from..(from + AttemptWindow)}
            = {i \in DOMAIN orders : orders[i].at \in from..(from + AttemptWindow)}
      BY <1>2, <2>2
    <3>2. Within(more, from, AttemptWindow) = Within(orders, from, AttemptWindow)
      BY <3>1 DEF Within
    <3> QED BY <1>4, <3>2
  <2> QED BY <2>1, <2>2
<1>15. c2 # 0 /\ e = Len(more) - c2 /\ c2 <= Len(more) /\ Len(more) # 0
  BY <1>2, <1>5, <1>7
<1>16. CountSound(more, c2, z2, o, t, B)
  BY <1>2, <1>7, <1>8, <1>9, <1>10, <1>11, <1>13, <1>14, <1>15 DEF CountSound
<1> QED BY <1>1, <1>16

LEMMA CountKeeps ==
    ASSUME FlowInv, NEW s \in Strategies, RegisterOrderSubmission(s), now' = now
    PROVE  CountInv'
<1> DEFINE order == [at |-> now, print |-> granted[s]]
           B == MaxAttempts + FlowStragglers
           c == attempts.count
           z == attempts.since
           o == Cardinality(Outstanding) - 1
           c2 == attempts'.count
           z2 == attempts'.since
<1>1. /\ sent \in Seq(Stamped) /\ order \in Stamped /\ now \in Int /\ order.at = now
      /\ sent' = Append(sent, order) /\ granted' = [granted EXCEPT ![s] = NoOrder] /\ granted[s] # NoOrder
      /\ attempts \in [count : Nat, since : Int]
  BY DEF FlowInv, PermitsInv, RegisterOrderSubmission, Stamped
<1>2. /\ Cardinality(Outstanding) \in Nat /\ Cardinality(Outstanding') = o /\ o <= FlowStragglers
      /\ FlowStragglers \in Nat /\ FlowStragglers' = FlowStragglers
  BY <1>1, GrantFact, OutstandingFact DEF FlowInv, FlowStragglers
<1>3. o \in Nat
  <2>1. s \in Outstanding /\ IsFiniteSet(Outstanding)
    BY <1>1, OutstandingFact DEF Outstanding, FlowInv
  <2>2. Cardinality(Outstanding) # 0
    BY <2>1, FS_EmptySet
  <2> QED BY <1>2, <2>2
<1>4. B \in Nat \ {0} /\ o <= B - MaxAttempts
  BY <1>2, <1>3, FlowAssumption DEF FlowAssumption
<1>5. attempts' = IF FreshCount(c, z, now) THEN [count |-> 1, since |-> now] ELSE [attempts EXCEPT !.count = @ + 1]
  BY DEF RegisterOrderSubmission, FreshCount
<1>6. /\ FreshCount(c, z, now) => c2 = 1 /\ z2 = now
      /\ ~FreshCount(c, z, now) => c2 = c + 1 /\ z2 = z
  BY <1>1, <1>5
<1>7. c \in Nat /\ z \in Int /\ c2 \in Nat /\ z2 \in Int
  BY <1>1, <1>6
<1>8. CountSound(sent, c, z, o + 1, now, B)
  <2>1. o + 1 = Cardinality(Outstanding)
    BY <1>2
  <2> QED BY <2>1 DEF FlowInv, CountInv
<1> HIDE DEF order, B, c, z, o, c2, z2
<1>9. CountSound(Append(sent, order), c2, z2, o, now, B)
  BY <1>1, <1>3, <1>4, <1>6, <1>7, <1>8, CountGrows
<1> QED BY <1>1, <1>2, <1>9 DEF CountInv, B, c2, z2

EmptyCount == attempts = [count |-> 0, since |-> 0] /\ sent = <<>> /\ now \in Nat
EmptyFlow ==
    /\ submissions = <<>> /\ EmptyCount /\ granted = [s \in Strategies |-> NoOrder]

LEMMA NothingWithin == \A from, length : Within(<<>>, from, length) = 0
<1> SUFFICES ASSUME NEW from, NEW length PROVE Within(<<>>, from, length) = 0
  OBVIOUS
<1>1. {i \in DOMAIN <<>> : <<>>[i].at \in from..(from + length)} = {}
  OBVIOUS
<1> QED BY <1>1, FS_EmptySet DEF Within

LEMMA EmptyCountFact == PermitsInv /\ EmptyCount => CountInv
<1> SUFFICES ASSUME PermitsInv, EmptyCount PROVE CountInv
  OBVIOUS
<1>1. /\ FlowStragglers \in Nat /\ MaxAttempts \in Nat \ {0}
      /\ Cardinality(Outstanding) \in Nat /\ Cardinality(Outstanding) <= FlowStragglers + 1
  BY OutstandingFact, FlowAssumption DEF FlowAssumption
<1>2. sent = <<>> /\ Len(sent) = 0 /\ attempts.count = 0 /\ attempts.since = 0 /\ now \in Nat
  BY DEF EmptyCount
<1>3. LateEarlier(sent, 0, 0) = {}
  BY <1>2 DEF LateEarlier
<1>4. Cardinality(LateEarlier(sent, 0, 0)) = 0
  BY <1>3, FS_EmptySet
<1>5. PICK B \in Nat \ {0} : B = MaxAttempts + FlowStragglers
  BY <1>1
<1>6. 0 + Cardinality(Outstanding) <= B /\ 0 <= B - 1 /\ 0 <= 2 * B - 1
  BY <1>1, <1>5
<1>7. \A from \in Int : Within(sent, from, AttemptWindow) <= 2 * B - 1
  BY <1>2, <1>6, NothingWithin
<1>8. CountSound(sent, 0, 0, Cardinality(Outstanding), now, B)
  BY <1>2, <1>4, <1>6, <1>7 DEF CountSound
<1> QED BY <1>2, <1>5, <1>8 DEF CountInv

LEMMA EmptyFlowFact == EmptyFlow => FlowInv
<1> SUFFICES ASSUME EmptyFlow PROVE FlowInv
  OBVIOUS
<1>1. PermitsInv
  BY DEF PermitsInv, EmptyFlow, EmptyCount
<1>2. RecentOnes = {} /\ Outstanding = {}
  BY DEF RecentOnes, Outstanding, EmptyFlow
<1>3. Cardinality(RecentOnes) = 0 /\ Cardinality(Outstanding) = 0
  BY <1>2, FS_EmptySet
<1>4. FlowStragglers + 1 \in Nat /\ FlowStragglers \in Int /\ MaxPerMinute \in Nat \ {0}
  BY <1>1, OutstandingFact, FlowAssumption DEF FlowAssumption
<1>5. MinuteInv
  BY <1>3, <1>4, NothingWithin DEF MinuteInv, EmptyFlow
<1> QED BY <1>1, <1>5, EmptyCountFact DEF FlowInv, EmptyFlow

LEMMA EmptyCountNext == (PermitsInv /\ EmptyCount => CountInv)'
BY EmptyCountFact, PTL

LEMMA EmptyFlowNext == (EmptyFlow => FlowInv)'
BY EmptyFlowFact, PTL

LEMMA FlowStep == ASSUME FlowInv, [GateNext]_<<flowVars, now>> PROVE FlowInv'
<1>1. ASSUME UNCHANGED flowVars, now' = now \/ now' = now + 1 PROVE FlowInv'
  <2>1. UNCHANGED <<submissions, attempts, granted, sent>> /\ now \in Nat /\ now' \in Nat /\ now <= now'
    BY <1>1 DEF flowVars, FlowInv, PermitsInv
  <2>2. PermitsInv'
    BY <2>1 DEF FlowInv, PermitsInv
  <2>3. UNCHANGED <<Outstanding, FlowStragglers>>
    BY <2>1 DEF Outstanding, FlowStragglers
  <2>4. Cardinality(RecentOnes') <= Cardinality(RecentOnes) /\ Cardinality(RecentOnes') \in Nat
    <3>1. RecentOnes' \in SUBSET RecentOnes
      <4> SUFFICES ASSUME NEW i \in RecentOnes' PROVE i \in RecentOnes
        OBVIOUS
      <4>1. i \in DOMAIN submissions /\ submissions[i].at >= now' - RateWindow
        BY <2>1 DEF RecentOnes
      <4>2. submissions[i].at \in Int /\ RateWindow \in Nat
        <5>1. submissions \in Seq(Stamped) /\ DOMAIN submissions = 1..Len(submissions) /\ \A r \in Stamped : r.at \in Int
          BY DEF FlowInv, PermitsInv, Stamped
        <5>2. submissions[i] \in Stamped
          BY <4>1, <5>1
        <5> QED BY <5>1, <5>2, FlowAssumption DEF FlowAssumption
      <4>3. submissions[i].at >= now - RateWindow
        BY <2>1, <4>1, <4>2
      <4> QED BY <4>1, <4>3 DEF RecentOnes
    <3>2. IsFiniteSet(RecentOnes)
      BY FiniteOnes DEF FlowInv
    <3> QED BY <3>1, <3>2, FS_Subset, FS_CardinalityType
  <2>5. Cardinality(RecentOnes) \in Nat /\ Cardinality(Outstanding) \in Nat /\ FlowStragglers \in Int /\ MaxPerMinute \in Nat
    BY FiniteOnes, OutstandingFact, FlowAssumption DEF FlowInv, FlowAssumption
  <2>6. MinuteInv'
    BY <2>1, <2>3, <2>4, <2>5 DEF FlowInv, MinuteInv
  <2>7. CountInv'
    <3>1. attempts.since \in Int /\ AttemptWindow \in Nat
      BY FlowAssumption DEF FlowInv, PermitsInv, FlowAssumption
    <3>2. now' - attempts.since <= AttemptWindow => now - attempts.since <= AttemptWindow
      BY <2>1, <3>1
    <3>3. attempts.since <= now'
      BY <2>1, <3>1 DEF FlowInv, CountInv, CountSound
    <3>4. \A i \in 1..Len(sent) : sent[i].at <= now'
      <4> SUFFICES ASSUME NEW i \in 1..Len(sent) PROVE sent[i].at <= now'
        OBVIOUS
      <4>1. sent \in Seq(Stamped) /\ DOMAIN sent = 1..Len(sent) /\ \A r \in Stamped : r.at \in Int
        BY DEF FlowInv, PermitsInv, Stamped
      <4>2. sent[i] \in Stamped
        BY <4>1
      <4>3. sent[i].at \in Int /\ sent[i].at <= now
        BY <4>1, <4>2 DEF FlowInv, CountInv, CountSound
      <4> QED BY <2>1, <4>3
    <3> QED BY <2>1, <2>3, <3>2, <3>3, <3>4 DEF FlowInv, CountInv, CountSound
  <2> QED BY <2>2, <2>6, <2>7 DEF FlowInv
<1>2. ASSUME FlowNext, now' = now PROVE FlowInv'
  <2>1. ASSUME NEW s \in Strategies, RegisterOrderSubmission(s) PROVE FlowInv'
    BY <1>2, <2>1, MinuteKeeps, CountKeeps DEF FlowInv
  <2>2. ASSUME NEW s \in Strategies, NEW fingerprint \in Fingerprints, CanSubmitOrder(s, fingerprint) PROVE FlowInv'
    BY <1>2, <2>2, AskKeeps
  <2>3. CASE FlowRestart
    <3>1. EmptyFlow'
      BY <1>2, <2>3 DEF FlowRestart, EmptyFlow, EmptyCount, FlowInv, PermitsInv
    <3> QED BY <3>1, EmptyFlowNext
  <2>4. CASE ResetOrderAttempts
    <3>1. PermitsInv' /\ EmptyCount' /\ MinuteInv'
      BY <1>2, <2>4 DEF ResetOrderAttempts, FlowInv, PermitsInv, MinuteInv, EmptyCount, RecentOnes, Outstanding, FlowStragglers
    <3>2. CountInv'
      BY <3>1, EmptyCountNext
    <3> QED BY <3>1, <3>2 DEF FlowInv
  <2> QED BY <1>2, <2>1, <2>2, <2>3, <2>4 DEF FlowNext
<1> QED BY <1>1, <1>2 DEF GateNext, Tick

\* What is sent keeps to the caps, for any strategies, caps and windows, however
\* questions, registrations, fills and restarts fall.
THEOREM FlowAlwaysCapped == GateSpec => []OrderFlowCapped
<1>1. FlowInit /\ now = 0 => FlowInv
  BY EmptyFlowFact DEF FlowInit, EmptyFlow, EmptyCount
<1>2. FlowInv /\ [GateNext]_<<flowVars, now>> => FlowInv'
  BY FlowStep
<1>3. FlowInv => OrderFlowCapped
  BY DEF FlowInv, MinuteInv, CountInv, CountSound, OrderFlowCapped, FlowStragglers
<1> QED BY <1>1, <1>2, <1>3, PTL DEF GateSpec

FlowOrders == [at : 0..Horizon, print : Fingerprints]

FlowRest ==
    /\ FlowTypeOK /\ now \in 0..Horizon
    /\ submissions \in Seq(FlowOrders) /\ sent \in Seq(FlowOrders)

LEMMA RangeGrows ==
    ASSUME NEW S, NEW orders \in Seq(S), NEW order \in S
    PROVE  Append(orders, order) \in Seq(S) /\ Range(Append(orders, order)) = Range(orders) \cup {order}
<1>1. /\ Append(orders, order) \in Seq(S) /\ DOMAIN orders = 1..Len(orders) /\ Len(orders) \in Nat
      /\ DOMAIN Append(orders, order) = 1..(Len(orders) + 1)
      /\ \A i \in 1..Len(orders) : Append(orders, order)[i] = orders[i]
      /\ Append(orders, order)[Len(orders) + 1] = order
  OBVIOUS
<1>2. 1..(Len(orders) + 1) = (1..Len(orders)) \cup {Len(orders) + 1}
  BY <1>1
<1> QED BY <1>1, <1>2 DEF Range

LEMMA FlowRestStep == ASSUME FlowRest, [GateNext]_<<flowVars, now>> PROVE FlowRest'
<1>1. /\ Range(submissions) \subseteq FlowOrders /\ Range(sent) \subseteq Range(submissions)
      /\ flowPauseUntil \in Nat /\ attempts \in [count : Nat, since : 0..Horizon]
      /\ granted \in [Strategies -> Fingerprints \cup {NoOrder}]
      /\ now \in 0..Horizon /\ submissions \in Seq(FlowOrders) /\ sent \in Seq(FlowOrders) /\ Horizon \in Nat
  BY HorizonAssumption DEF FlowRest, FlowTypeOK, FlowOrders, HorizonAssumption
<1>2. ASSUME UNCHANGED flowVars, now' \in 0..Horizon PROVE FlowRest'
  BY <1>1, <1>2 DEF flowVars, FlowRest, FlowTypeOK, FlowOrders
<1>3. ASSUME NEW s \in Strategies, NEW fingerprint \in Fingerprints, CanSubmitOrder(s, fingerprint), now' = now
      PROVE  FlowRest'
  <2>1. /\ flowPauseUntil' \in {now + RateWindow, flowPauseUntil} /\ UNCHANGED <<submissions, attempts, sent>>
        /\ granted' \in {granted, [granted EXCEPT ![s] = fingerprint]}
    BY <1>3 DEF CanSubmitOrder
  <2>2. flowPauseUntil' \in Nat /\ granted' \in [Strategies -> Fingerprints \cup {NoOrder}]
    BY <1>1, <2>1, FlowAssumption DEF FlowAssumption
  <2> QED BY <1>1, <1>3, <2>1, <2>2 DEF FlowRest, FlowTypeOK, FlowOrders
<1>4. ASSUME NEW s \in Strategies, RegisterOrderSubmission(s), now' = now PROVE FlowRest'
  <2> DEFINE order == [at |-> now, print |-> granted[s]]
  <2>1. /\ granted[s] # NoOrder /\ submissions' = Append(submissions, order) /\ sent' = Append(sent, order)
        /\ attempts' = IF attempts.count = 0 \/ now - attempts.since > AttemptWindow
                       THEN [count |-> 1, since |-> now] ELSE [attempts EXCEPT !.count = @ + 1]
        /\ granted' = [granted EXCEPT ![s] = NoOrder] /\ flowPauseUntil' = flowPauseUntil
    BY <1>4 DEF RegisterOrderSubmission
  <2>2. order \in FlowOrders
    BY <1>1, <2>1 DEF FlowOrders
  <2> HIDE DEF order
  <2>3. /\ submissions' \in Seq(FlowOrders) /\ Range(submissions') = Range(submissions) \cup {order}
        /\ sent' \in Seq(FlowOrders) /\ Range(sent') = Range(sent) \cup {order}
    BY <1>1, <2>1, <2>2, RangeGrows
  <2>4. Range(submissions') \subseteq FlowOrders /\ Range(sent') \subseteq Range(submissions')
    BY <1>1, <2>2, <2>3
  <2>5. attempts' \in [count : Nat, since : 0..Horizon]
    <3>1. CASE attempts' = [count |-> 1, since |-> now]
      BY <1>1, <3>1
    <3>2. CASE attempts' = [attempts EXCEPT !.count = @ + 1]
      BY <1>1, <3>2
    <3> QED BY <2>1, <3>1, <3>2
  <2>6. granted' \in [Strategies -> Fingerprints \cup {NoOrder}]
    BY <1>1, <2>1
  <2> QED BY <1>1, <1>4, <2>1, <2>3, <2>4, <2>5, <2>6 DEF FlowRest, FlowTypeOK, FlowOrders
<1>5. <<>> \in Seq(FlowOrders) /\ Range(<<>>) = {} /\ [count |-> 0, since |-> 0] \in [count : Nat, since : 0..Horizon]
  BY <1>1 DEF Range
<1>6. ASSUME ResetOrderAttempts, now' = now PROVE FlowRest'
  <2>1. sent' = <<>> /\ attempts' = [count |-> 0, since |-> 0] /\ UNCHANGED <<submissions, flowPauseUntil, granted>>
    BY <1>6 DEF ResetOrderAttempts
  <2> QED BY <1>1, <1>5, <1>6, <2>1 DEF FlowRest, FlowTypeOK, FlowOrders
<1>7. ASSUME FlowRestart, now' = now PROVE FlowRest'
  <2>1. /\ submissions' = <<>> /\ sent' = <<>> /\ flowPauseUntil' = 0 /\ attempts' = [count |-> 0, since |-> 0]
        /\ granted' = [s \in Strategies |-> NoOrder]
    BY <1>7 DEF FlowRestart
  <2>2. granted' \in [Strategies -> Fingerprints \cup {NoOrder}]
    BY <2>1
  <2> QED BY <1>1, <1>5, <1>7, <2>1, <2>2 DEF FlowRest, FlowTypeOK, FlowOrders
<1>8. CASE FlowNext /\ UNCHANGED now
  BY <1>3, <1>4, <1>6, <1>7, <1>8 DEF FlowNext
<1>9. CASE Tick /\ UNCHANGED flowVars
  BY <1>1, <1>2, <1>9 DEF Tick
<1>10. CASE UNCHANGED <<flowVars, now>>
  BY <1>1, <1>2, <1>10
<1> QED BY <1>8, <1>9, <1>10 DEF GateNext

\* Type correctness of the order-flow gate; what the attempts are counted from is what
\* was registered.
THEOREM FlowTypeCorrect == GateSpec => []FlowTypeOK
<1>1. FlowInit /\ now = 0 => FlowRest
  <2> SUFFICES ASSUME FlowInit, now = 0 PROVE FlowRest
    OBVIOUS
  <2>1. Horizon \in Nat /\ <<>> \in Seq(FlowOrders) /\ Range(<<>>) = {}
    BY HorizonAssumption DEF HorizonAssumption, Range
  <2>2. attempts \in [count : Nat, since : 0..Horizon] /\ granted \in [Strategies -> Fingerprints \cup {NoOrder}]
    BY <2>1 DEF FlowInit
  <2> QED BY <2>1, <2>2 DEF FlowInit, FlowRest, FlowTypeOK, FlowOrders
<1>2. FlowRest /\ [GateNext]_<<flowVars, now>> => FlowRest'
  BY FlowRestStep
<1>3. FlowRest => FlowTypeOK
  BY DEF FlowRest
<1> QED BY <1>1, <1>2, <1>3, PTL DEF GateSpec

-----------------------------------------------------------------------------
(* The order limits.                                                       *)

Books == [Stocks -> Int]

\* What an order makes of the positions.
Placed(positions, order) ==
    [positions EXCEPT ![order.stock] = @ + Signed(order.side, order.quantity)]

LEMMA OrderFact ==
    \A order \in Orders : /\ order.stock \in Stocks /\ order.side \in Sides
                          /\ order.quantity \in Nat /\ order.quantity # 0
                          /\ Signed(order.side, order.quantity) \in {order.quantity, -order.quantity}
                          /\ Signed(order.side, order.quantity) \in Int
<1> SUFFICES ASSUME NEW order \in Orders
             PROVE  /\ order.stock \in Stocks /\ order.side \in Sides
                    /\ order.quantity \in Nat /\ order.quantity # 0
                    /\ Signed(order.side, order.quantity) \in {order.quantity, -order.quantity}
                    /\ Signed(order.side, order.quantity) \in Int
  OBVIOUS
<1>1. order.stock \in Stocks /\ order.side \in Sides /\ order.quantity \in Quantities
  BY DEF Orders
<1>2. order.quantity \in Nat /\ order.quantity # 0
  BY <1>1, LimitsAssumption DEF LimitsAssumption
<1> QED BY <1>1, <1>2 DEF Signed

LEMMA PlacedFact ==
    \A positions \in Books, order \in Orders :
        /\ Placed(positions, order) \in Books
        /\ Placed(positions, order)[order.stock] = positions[order.stock] + Signed(order.side, order.quantity)
        /\ \A s \in Stocks : s # order.stock => Placed(positions, order)[s] = positions[s]
BY OrderFact DEF Placed, Books

\* The sums of a book are sums over its stocks.
LEMMA NetSums ==
    ASSUME NEW positions \in Books
    PROVE  \E h : SetSums(h, Stocks, positions) /\ Net(positions) = h[Stocks]
<1> DEFINE Rec(h) == h = [t \in SUBSET Stocks |->
              IF t = {} THEN 0 ELSE positions[CHOOSE x \in t : TRUE] + h[t \ {CHOOSE x \in t : TRUE}]]
<1>1. Net(positions) = (CHOOSE h : Rec(h))[Stocks]
  BY DEF Net, MapThenSumSet, MapThenFoldSet
<1>2. \A h : Rec(h) <=> SetSums(h, Stocks, positions)
  BY DEF SetSums, PickOf
<1>3. \E h : SetSums(h, Stocks, positions)
  BY LimitsAssumption, SetSumsExist DEF LimitsAssumption, Books
<1> DEFINE h == CHOOSE h : Rec(h)
<1>4. Rec(h)
  <2> HIDE DEF Rec
  <2> QED BY <1>2, <1>3
<1> HIDE DEF Rec, h
<1>5. SetSums(h, Stocks, positions)
  BY <1>2, <1>4
<1> QED BY <1>1, <1>5 DEF h

Sizes(positions) == [s \in Stocks |-> Abs(positions[s])]

LEMMA SizesFact ==
    \A positions \in Books : /\ Sizes(positions) \in [Stocks -> Int]
                             /\ \A s \in Stocks : Sizes(positions)[s] = Abs(positions[s])
BY DEF Sizes, Books, Abs

LEMMA GrossSums ==
    ASSUME NEW positions \in Books
    PROVE  \E h : SetSums(h, Stocks, Sizes(positions)) /\ Gross(positions, Stocks) = h[Stocks]
<1> DEFINE Rec(h) == h = [t \in SUBSET Stocks |->
              IF t = {} THEN 0 ELSE Abs(positions[CHOOSE x \in t : TRUE]) + h[t \ {CHOOSE x \in t : TRUE}]]
<1>1. Gross(positions, Stocks) = (CHOOSE h : Rec(h))[Stocks]
  BY DEF Gross, MapThenSumSet, MapThenFoldSet
<1>2. ASSUME NEW h PROVE Rec(h) <=> SetSums(h, Stocks, Sizes(positions))
  <2>1. \A t \in SUBSET Stocks : t # {} => Sizes(positions)[PickOf(t)] = Abs(positions[PickOf(t)])
    <3> SUFFICES ASSUME NEW t \in SUBSET Stocks, t # {}
                 PROVE  Sizes(positions)[PickOf(t)] = Abs(positions[PickOf(t)])
      OBVIOUS
    <3>1. PickOf(t) \in Stocks
      BY PickFact
    <3> QED BY <3>1, SizesFact
  <2>2. [t \in SUBSET Stocks |-> IF t = {} THEN 0 ELSE Abs(positions[PickOf(t)]) + h[t \ {PickOf(t)}]]
         = [t \in SUBSET Stocks |-> IF t = {} THEN 0 ELSE Sizes(positions)[PickOf(t)] + h[t \ {PickOf(t)}]]
    BY <2>1
  <2> QED BY <2>2 DEF SetSums, PickOf
<1>3. \E h : SetSums(h, Stocks, Sizes(positions))
  BY LimitsAssumption, SetSumsExist, SizesFact DEF LimitsAssumption
<1> DEFINE h == CHOOSE h : Rec(h)
<1>4. Rec(h)
  <2> HIDE DEF Rec
  <2> QED BY <1>2, <1>3
<1> HIDE DEF Rec, h
<1>5. SetSums(h, Stocks, Sizes(positions))
  BY <1>2, <1>4
<1> QED BY <1>1, <1>5 DEF h

\* An order moves the net exposure by its signed quantity, and the gross by no more.
LEMMA NetMoves ==
    ASSUME NEW positions \in Books, NEW order \in Orders
    PROVE  /\ Net(positions) \in Int
           /\ Net(Placed(positions, order)) = Net(positions) + Signed(order.side, order.quantity)
<1> DEFINE more == Placed(positions, order)
<1>1. /\ more \in Books /\ order.stock \in Stocks
      /\ more[order.stock] = positions[order.stock] + Signed(order.side, order.quantity)
      /\ \A s \in Stocks : s # order.stock => more[s] = positions[s]
      /\ Signed(order.side, order.quantity) \in Int /\ positions[order.stock] \in Int
  BY PlacedFact, OrderFact DEF Books
<1> HIDE DEF more
<1>2. PICK h : SetSums(h, Stocks, positions) /\ Net(positions) = h[Stocks]
  BY NetSums
<1>3. PICK g : SetSums(g, Stocks, more) /\ Net(more) = g[Stocks]
  BY <1>1, NetSums
<1>4. IsFiniteSet(Stocks) /\ positions \in [Stocks -> Int] /\ more \in [Stocks -> Int]
  BY <1>1, LimitsAssumption DEF LimitsAssumption, Books
<1>5. h \in [SUBSET Stocks -> Int]
  BY <1>2, <1>4, SetSumsType
<1>6. h[Stocks] \in Int
  <2>1. Stocks \in SUBSET Stocks
    OBVIOUS
  <2> QED BY <1>5, <2>1
<1>7. \A t \in SUBSET Stocks :
        g[t] = IF order.stock \in t THEN h[t] + (more[order.stock] - positions[order.stock]) ELSE h[t]
  BY <1>1, <1>2, <1>3, <1>4, SetSumsMove
<1>8. g[Stocks] = h[Stocks] + (more[order.stock] - positions[order.stock])
  BY <1>1, <1>7
<1>9. Net(more) = Net(positions) + Signed(order.side, order.quantity)
  BY <1>1, <1>2, <1>3, <1>6, <1>8
<1> QED BY <1>2, <1>6, <1>9 DEF more

LEMMA GrossMoves ==
    ASSUME NEW positions \in Books, NEW order \in Orders
    PROVE  /\ Gross(positions, Stocks) \in Int
           /\ Gross(Placed(positions, order), Stocks) \in Int
           /\ Gross(Placed(positions, order), Stocks) <= Gross(positions, Stocks) + order.quantity
<1> DEFINE more == Placed(positions, order)
           w == Sizes(positions)
           v == Sizes(more)
<1>1. /\ more \in Books /\ order.stock \in Stocks
      /\ more[order.stock] = positions[order.stock] + Signed(order.side, order.quantity)
      /\ \A s \in Stocks : s # order.stock => more[s] = positions[s]
      /\ Signed(order.side, order.quantity) \in {order.quantity, -order.quantity} /\ positions[order.stock] \in Int
      /\ order.quantity \in Nat
  BY PlacedFact, OrderFact DEF Books
<1> HIDE DEF more
<1>2. PICK h : SetSums(h, Stocks, w) /\ Gross(positions, Stocks) = h[Stocks]
  BY GrossSums
<1>3. PICK g : SetSums(g, Stocks, v) /\ Gross(more, Stocks) = g[Stocks]
  BY <1>1, GrossSums
<1>4. /\ IsFiniteSet(Stocks) /\ w \in [Stocks -> Int] /\ v \in [Stocks -> Int]
      /\ \A s \in Stocks : w[s] = Abs(positions[s]) /\ v[s] = Abs(more[s])
  BY <1>1, SizesFact, LimitsAssumption DEF LimitsAssumption
<1> HIDE DEF w, v
<1>5. h \in [SUBSET Stocks -> Int] /\ g \in [SUBSET Stocks -> Int]
  BY <1>2, <1>3, <1>4, SetSumsType
<1>6. h[Stocks] \in Int /\ g[Stocks] \in Int
  <2>1. Stocks \in SUBSET Stocks
    OBVIOUS
  <2> QED BY <1>5, <2>1
<1>7. \A s \in Stocks : s # order.stock => v[s] = w[s]
  BY <1>1, <1>4
<1>8. \A t \in SUBSET Stocks :
        g[t] = IF order.stock \in t THEN h[t] + (v[order.stock] - w[order.stock]) ELSE h[t]
  BY <1>2, <1>3, <1>4, <1>7, SetSumsMove
<1>9. g[Stocks] = h[Stocks] + (v[order.stock] - w[order.stock])
  BY <1>1, <1>8
<1>10. v[order.stock] - w[order.stock] <= order.quantity /\ v[order.stock] \in Int /\ w[order.stock] \in Int
  BY <1>1, <1>4 DEF Abs
<1>11. g[Stocks] <= h[Stocks] + order.quantity
  BY <1>1, <1>6, <1>9, <1>10
<1> QED BY <1>2, <1>3, <1>6, <1>11 DEF more

\* Nothing held is no exposure.
LEMMA EmptyBook ==
    LET none == [s \in Stocks |-> 0]
    IN  none \in Books /\ Net(none) = 0 /\ Gross(none, Stocks) = 0
<1> DEFINE none == [s \in Stocks |-> 0]
<1>1. none \in Books /\ \A s \in Stocks : none[s] = 0 /\ Sizes(none)[s] = 0
  BY DEF Books, Sizes, Abs
<1>2. IsFiniteSet(Stocks)
  BY LimitsAssumption DEF LimitsAssumption
<1> HIDE DEF none
<1>3. Net(none) = 0
  <2>1. PICK h : SetSums(h, Stocks, none) /\ Net(none) = h[Stocks]
    BY <1>1, NetSums
  <2> QED BY <1>1, <1>2, <2>1, SetSumsZero
<1>4. Gross(none, Stocks) = 0
  <2>1. PICK h : SetSums(h, Stocks, Sizes(none)) /\ Gross(none, Stocks) = h[Stocks]
    BY <1>1, GrossSums
  <2> QED BY <1>1, <1>2, <2>1, SetSumsZero
<1> QED BY <1>1, <1>3, <1>4 DEF none

\* A snapshot shows a book and the cash that goes with it.
Snapshots ==
    {snap \in [taken : {TRUE}, holding : Books, cash : Int, safety : Safeties] :
        snap.cash = Equity0 - Net(snap.holding)}

Placements == [placed : {TRUE}, order : Orders]

Pending(snaps) == {d \in Tickets : snaps[d] \in Snapshots}

TicketsInv ==
    /\ holding \in Books /\ cash = Equity0 - Net(holding)
    /\ snapshot \in [Tickets -> Snapshots \cup {Untaken}]
    /\ working \in [Tickets -> Placements \cup {NotPlaced}]
    /\ \A t \in Tickets : working[t] # NotPlaced =>
        snapshot[t] \in Snapshots /\ EvaluateOrder(working[t].order, snapshot[t])

\* A measure of the books that one order moves by its quantity at most, and by which
\* the gateway keeps what an order makes of its snapshot within L, unless the order
\* only lowers it.
Gentle(F) ==
    /\ F \in [Books -> Int]
    /\ \A positions \in Books, order \in Orders : F[Placed(positions, order)] <= F[positions] + order.quantity

Relieves(F, order) == \A positions \in Books : F[Placed(positions, order)] <= F[positions]

Judged(F, L) ==
    \A order \in Orders :
        \/ Relieves(F, order)
        \/ \A snap \in Snapshots : EvaluateOrder(order, snap) => F[Placed(snap.holding, order)] <= L

\* The snapshots still to be used that are older than an instant.
Behind(snaps, at, t) == {d \in Pending(snaps) : at[d] < t}

\* What the tickets that do not hold one of k older snapshots may have added.
Room(k) == Limits.maxOrder * (Cardinality(Tickets) - 1 - k)

\* at ranks the tickets' snapshots by age, base is the rank of the snapshot that the
\* newest judgement went by: whoever acts on an older one acts on it once.
Aged(F, L, positions, snaps, at, base, top) ==
    /\ base <= top /\ \A d \in Tickets : at[d] < top
    /\ \A d, e \in Pending(snaps) : d # e => at[d] # at[e]
    /\ F[positions] <= L + Room(Cardinality(Behind(snaps, at, base)))
    /\ \A d \in Pending(snaps), order \in Orders : at[d] >= base =>
        F[Placed(positions, order)]
            <= F[Placed(snaps[d].holding, order)] + Room(Cardinality(Behind(snaps, at, at[d])))

Bounded(F, L, positions, snaps) ==
    \E at \in [Tickets -> Nat], base \in Nat, top \in Nat : Aged(F, L, positions, snaps, at, base, top)

LEMMA CountFact ==
    ASSUME NEW snaps, NEW at, NEW t
    PROVE  /\ IsFiniteSet(Behind(snaps, at, t)) /\ Cardinality(Behind(snaps, at, t)) \in Nat
           /\ Cardinality(Behind(snaps, at, t)) <= Cardinality(Tickets) /\ Cardinality(Tickets) \in Nat
           /\ Behind(snaps, at, t) \in SUBSET Tickets
<1>1. IsFiniteSet(Tickets) /\ Behind(snaps, at, t) \in SUBSET Tickets
  BY LimitsAssumption DEF LimitsAssumption, Behind, Pending
<1>2. IsFiniteSet(Behind(snaps, at, t)) /\ Cardinality(Behind(snaps, at, t)) <= Cardinality(Tickets)
  BY <1>1, FS_Subset
<1> QED BY <1>1, <1>2, FS_CardinalityType

\* Fewer old snapshots leave more room, and one fewer leaves room for an order.
LEMMA RoomFact ==
    \A j, k \in Nat : j <= k => /\ Room(k) <= Room(j) /\ Room(j) \in Int /\ Room(k) \in Int
                                /\ j < k => Room(k) + Limits.maxOrder <= Room(j)
                                /\ j <= Cardinality(Tickets) - 1 => Room(j) >= 0
<1> DEFINE M == Limits.maxOrder
           n == Cardinality(Tickets)
<1>1. M \in Nat /\ n \in Nat
  BY LimitsAssumption, FS_CardinalityType DEF LimitsAssumption
<1> SUFFICES ASSUME NEW j \in Nat, NEW k \in Nat, j <= k
             PROVE  /\ Room(k) <= Room(j) /\ Room(j) \in Int /\ Room(k) \in Int
                    /\ j < k => Room(k) + M <= Room(j)
                    /\ j <= n - 1 => Room(j) >= 0
  OBVIOUS
<1>2. Room(j) = M * (n - 1 - j) /\ Room(k) = M * (n - 1 - k)
  BY DEF Room
<1> HIDE DEF M, n
<1>3. Room(j) \in Int /\ Room(k) \in Int
  BY <1>1, <1>2
<1>4. Room(j) = Room(k) + M * (k - j)
  BY <1>1, <1>2
<1>5. M * (k - j) >= 0 /\ (j < k => M * (k - j) >= M) /\ M * (k - j) \in Int
  BY <1>1
<1>6. j <= n - 1 => Room(j) >= 0
  BY <1>1, <1>2
<1> QED BY <1>1, <1>3, <1>4, <1>5, <1>6

\* Fewer or as many snapshots behind.
LEMMA BehindFact ==
    ASSUME NEW S, IsFiniteSet(S), NEW T \in SUBSET S
    PROVE  /\ Cardinality(T) \in Nat /\ Cardinality(S) \in Nat /\ Cardinality(T) <= Cardinality(S)
           /\ Room(Cardinality(S)) <= Room(Cardinality(T))
           /\ Room(Cardinality(S)) \in Int /\ Room(Cardinality(T)) \in Int
           /\ T # S => Room(Cardinality(S)) + Limits.maxOrder <= Room(Cardinality(T))
<1>1. IsFiniteSet(T) /\ Cardinality(T) <= Cardinality(S) /\ (Cardinality(S) = Cardinality(T) => S = T)
  BY FS_Subset
<1>2. Cardinality(T) \in Nat /\ Cardinality(S) \in Nat
  BY <1>1, FS_CardinalityType
<1> QED BY <1>1, <1>2, RoomFact

\* Orders commute.
LEMMA OrdersCommute ==
    ASSUME NEW positions \in Books, NEW order \in Orders, NEW other \in Orders
    PROVE  Placed(Placed(positions, order), other) = Placed(Placed(positions, other), order)
<1> DEFINE a == Placed(positions, order)
           b == Placed(positions, other)
           l == Placed(a, other)
           r == Placed(b, order)
<1>1. a \in Books /\ b \in Books
  BY PlacedFact
<1>2. l \in Books /\ r \in Books
  <2> HIDE DEF a, b
  <2> QED BY <1>1, PlacedFact
<1>3. ASSUME NEW s \in Stocks PROVE l[s] = r[s]
  <2> DEFINE x == IF s = order.stock THEN Signed(order.side, order.quantity) ELSE 0
             y == IF s = other.stock THEN Signed(other.side, other.quantity) ELSE 0
  <2>1. a[s] = positions[s] + x /\ b[s] = positions[s] + y /\ positions[s] \in Int /\ x \in Int /\ y \in Int
    BY PlacedFact, OrderFact DEF Books
  <2>2. l[s] = a[s] + y /\ r[s] = b[s] + x
    <3> HIDE DEF a, b
    <3>1. a[s] \in Int /\ b[s] \in Int
      BY <1>1 DEF Books
    <3> QED BY <1>1, <3>1, PlacedFact
  <2> HIDE DEF l, r, x, y, a, b
  <2> QED BY <2>1, <2>2
<1> HIDE DEF l, r
<1>4. l = r
  BY <1>2, <1>3 DEF Books
<1> QED BY <1>4 DEF l, r

\* The snapshots a call takes are newer than all, and the ranks of its orders differ.
LEMMA TakeKeeps ==
    ASSUME NEW F, NEW L \in Int, Gentle(F), NEW positions \in Books, NEW snaps \in [Tickets -> Snapshots \cup {Untaken}],
           Bounded(F, L, positions, snaps), NEW call \in SUBSET Tickets, NEW snap \in Snapshots, snap.holding = positions,
           NEW more, more = [d \in Tickets |-> IF d \in call THEN snap ELSE snaps[d]]
    PROVE  Bounded(F, L, positions, more)
<1>1. PICK at \in [Tickets -> Nat], base \in Nat, top \in Nat : Aged(F, L, positions, snaps, at, base, top)
  BY DEF Bounded
<1>0. PICK n \in Nat : \E f \in [1..n -> call] : \A d \in call : \E k \in 1..n : f[k] = d
  <2>1. IsFiniteSet(call)
    BY LimitsAssumption, FS_Subset DEF LimitsAssumption
  <2>2. PICK n \in Nat : \E f : f \in Bijection(1..n, call)
    BY <2>1, FS_NatBijection DEF ExistsBijection
  <2>3. PICK f : f \in Bijection(1..n, call)
    BY <2>2
  <2>4. f \in [1..n -> call] /\ \A d \in call : \E k \in 1..n : f[k] = d
    BY <2>3 DEF Bijection, Injection, Surjection
  <2> QED BY <2>4
<1>14. PICK rank \in [1..n -> call] : \A d \in call : \E k \in 1..n : rank[k] = d
  BY <1>0
<1> DEFINE place == [d \in call |-> CHOOSE k \in 1..n : rank[k] = d]
<1>12. \A d \in call : place[d] \in 1..n /\ rank[place[d]] = d
  <2> SUFFICES ASSUME NEW d \in call PROVE place[d] \in 1..n /\ rank[place[d]] = d
    OBVIOUS
  <2>1. \E k \in 1..n : rank[k] = d
    BY <1>14
  <2>2. place[d] = CHOOSE k \in 1..n : rank[k] = d
    OBVIOUS
  <2> HIDE DEF place
  <2> QED BY <2>1, <2>2
<1> HIDE DEF place
<1>2. PICK later \in [Tickets -> Nat] : later = [d \in Tickets |-> IF d \in call THEN top + place[d] ELSE at[d]]
  <2> DEFINE fresh == [d \in Tickets |-> IF d \in call THEN top + place[d] ELSE at[d]]
  <2>1. ASSUME NEW d \in Tickets PROVE fresh[d] \in Nat
    <3>1. d \in call => place[d] \in Nat
      BY <1>12
    <3> QED BY <3>1
  <2> QED BY <2>1
<1>3. /\ \A d \in Tickets : at[d] < top /\ at[d] \in Nat
      /\ base <= top
      /\ \A d, e \in Pending(snaps) : d # e => at[d] # at[e]
      /\ F[positions] <= L + Room(Cardinality(Behind(snaps, at, base)))
      /\ \A d \in Pending(snaps), order \in Orders : at[d] >= base =>
           F[Placed(positions, order)]
             <= F[Placed(snaps[d].holding, order)] + Room(Cardinality(Behind(snaps, at, at[d])))
  BY <1>1 DEF Aged
<1>4. /\ \A d \in call : later[d] = top + place[d] /\ later[d] > top /\ later[d] \in Nat /\ more[d] = snap
      /\ \A d \in Tickets : d \notin call => later[d] = at[d] /\ more[d] = snaps[d]
      /\ call \subseteq Pending(more) /\ \A d \in Tickets : d \notin call => (d \in Pending(more) <=> d \in Pending(snaps))
      /\ Pending(more) \subseteq Tickets /\ Pending(snaps) \subseteq Tickets
  <2>1. \A d \in call : d \in Tickets /\ later[d] = top + place[d] /\ more[d] = snap
    BY <1>2
  <2>2. ASSUME NEW d \in call PROVE later[d] > top /\ later[d] \in Nat
    <3>1. later[d] = top + place[d] /\ place[d] \in 1..n
      BY <1>12, <2>1
    <3>2. \A k \in 1..n : top + k > top /\ top + k \in Nat
      OBVIOUS
    <3> QED BY <3>1, <3>2
  <2>3. \A d \in Tickets : d \notin call => later[d] = at[d] /\ more[d] = snaps[d]
    BY <1>2
  <2> QED BY <2>1, <2>2, <2>3 DEF Pending
<1>5. ASSUME NEW t \in Nat, t <= top
      PROVE  /\ Room(Cardinality(Behind(snaps, at, t))) <= Room(Cardinality(Behind(more, later, t)))
             /\ Room(Cardinality(Behind(snaps, at, t))) \in Int /\ Room(Cardinality(Behind(more, later, t))) \in Int
  <2>1. ASSUME NEW d \in Behind(more, later, t) PROVE d \in Behind(snaps, at, t)
    <3>1. d \in Pending(more) /\ later[d] < t /\ d \in Tickets
      BY <1>4, <2>1 DEF Behind
    <3>2. d \notin call
      <4> SUFFICES ASSUME d \in call PROVE FALSE
        OBVIOUS
      <4>1. later[d] > top /\ later[d] \in Nat
        BY <1>4
      <4> QED BY <1>5, <3>1, <4>1
    <3> QED BY <1>4, <3>1, <3>2 DEF Behind
  <2>2. Behind(more, later, t) \in SUBSET Behind(snaps, at, t)
    BY <2>1
  <2>3. IsFiniteSet(Behind(snaps, at, t))
    BY CountFact
  <2> QED BY <2>2, <2>3, BehindFact
\* A ticket is not behind itself, so there is room for all the others.
<1>13. ASSUME NEW d \in call
       PROVE  /\ Room(Cardinality(Behind(more, later, later[d]))) >= 0
              /\ Room(Cardinality(Behind(more, later, later[d]))) \in Int
  <2>1. d \in Tickets /\ later[d] \in Nat
    BY <1>4
  <2>2. Behind(more, later, later[d]) \in SUBSET (Tickets \ {d})
    BY <1>4, <2>1 DEF Behind
  <2>3. IsFiniteSet(Tickets)
    BY LimitsAssumption DEF LimitsAssumption
  <2>4. IsFiniteSet(Tickets \ {d}) /\ Cardinality(Tickets \ {d}) = Cardinality(Tickets) - 1
    BY <2>1, <2>3, FS_RemoveElement
  <2>5. Cardinality(Behind(more, later, later[d])) <= Cardinality(Tickets) - 1
    BY <2>2, <2>4, FS_Subset
  <2>6. Cardinality(Behind(more, later, later[d])) \in Nat
    BY CountFact
  <2> QED BY <2>5, <2>6, RoomFact
<1>6. F \in [Books -> Int] /\ F[positions] \in Int
  BY DEF Gentle
<1>7. F[positions] <= L + Room(Cardinality(Behind(more, later, base)))
  <2>1. /\ Room(Cardinality(Behind(snaps, at, base))) <= Room(Cardinality(Behind(more, later, base)))
        /\ Room(Cardinality(Behind(snaps, at, base))) \in Int /\ Room(Cardinality(Behind(more, later, base))) \in Int
    BY <1>3, <1>5
  <2>2. F[positions] <= L + Room(Cardinality(Behind(snaps, at, base)))
    BY <1>3
  <2> QED BY <1>6, <2>1, <2>2
<1>8. ASSUME NEW d \in Pending(more), NEW order \in Orders, later[d] >= base
      PROVE  F[Placed(positions, order)]
               <= F[Placed(more[d].holding, order)] + Room(Cardinality(Behind(more, later, later[d])))
  <2>1. F[Placed(positions, order)] \in Int
    BY <1>6, PlacedFact
  <2>2. CASE d \in call
    <3>1. Room(Cardinality(Behind(more, later, later[d]))) >= 0 /\ Room(Cardinality(Behind(more, later, later[d]))) \in Int
      BY <1>13, <2>2
    <3>2. more[d].holding = positions
      BY <1>4, <2>2
    <3> QED BY <2>1, <3>1, <3>2
  <2>3. CASE d \notin call
    <3>0. d \in Tickets
      BY <1>4
    <3>1. d \in Pending(snaps) /\ more[d] = snaps[d] /\ later[d] = at[d] /\ at[d] \in Nat /\ at[d] <= top /\ d \in Tickets
      <4>1. at[d] < top /\ at[d] \in Nat /\ top \in Nat
        BY <1>3, <3>0
      <4>2. at[d] <= top
        BY <4>1
      <4> QED BY <1>4, <2>3, <3>0, <4>1, <4>2
    <3>2. F[Placed(positions, order)]
            <= F[Placed(snaps[d].holding, order)] + Room(Cardinality(Behind(snaps, at, at[d])))
      BY <1>3, <1>8, <3>1
    <3>3. F[Placed(snaps[d].holding, order)] \in Int
      <4>1. snaps[d].holding \in Books
        BY <3>1 DEF Pending, Snapshots
      <4> QED BY <1>6, <4>1, PlacedFact
    <3>4. /\ Room(Cardinality(Behind(snaps, at, at[d]))) <= Room(Cardinality(Behind(more, later, at[d])))
          /\ Room(Cardinality(Behind(snaps, at, at[d]))) \in Int /\ Room(Cardinality(Behind(more, later, at[d]))) \in Int
      BY <1>5, <3>1
    <3> QED BY <2>1, <3>1, <3>2, <3>3, <3>4
  <2> QED BY <2>2, <2>3
<1>9. ASSUME NEW d \in Pending(more), NEW e \in Pending(more), d # e PROVE later[d] # later[e]
  <2>1. d \in Tickets /\ e \in Tickets /\ at[d] < top /\ at[e] < top /\ at[d] \in Nat /\ at[e] \in Nat
    BY <1>3, <1>4
  <2>2. CASE d \notin call /\ e \notin call
    <3>1. d \in Pending(snaps) /\ e \in Pending(snaps)
      BY <1>4, <2>1, <2>2
    <3> QED BY <1>3, <1>4, <1>9, <2>1, <2>2, <3>1
  <2>3. CASE d \in call /\ e \in call
    <3>1. place[d] # place[e]
      BY <1>9, <1>12, <2>3
    <3>2. later[d] = top + place[d] /\ later[e] = top + place[e] /\ place[d] \in 1..n /\ place[e] \in 1..n
      BY <1>4, <1>12, <2>3
    <3> QED BY <3>1, <3>2
  <2>4. CASE d \in call /\ e \notin call
    <3>1. later[d] > top /\ later[d] \in Nat /\ later[e] = at[e]
      BY <1>4, <2>1, <2>4
    <3> QED BY <2>1, <3>1
  <2>5. CASE d \notin call /\ e \in call
    <3>1. later[e] > top /\ later[e] \in Nat /\ later[d] = at[d]
      BY <1>4, <2>1, <2>5
    <3> QED BY <2>1, <3>1
  <2> QED BY <2>2, <2>3, <2>4, <2>5
<1>10. base <= top + n + 1 /\ top + n + 1 \in Nat /\ \A d \in Tickets : later[d] < top + n + 1
  <2>1. ASSUME NEW d \in Tickets PROVE later[d] < top + n + 1
    <3>1. d \in call => later[d] = top + place[d] /\ place[d] \in 1..n
      BY <1>4, <1>12
    <3>2. d \notin call => later[d] = at[d] /\ at[d] < top /\ at[d] \in Nat
      BY <1>3, <1>4
    <3> QED BY <3>1, <3>2
  <2> QED BY <1>3, <2>1
<1>11. Aged(F, L, positions, more, later, base, top + n + 1)
  BY <1>7, <1>8, <1>9, <1>10 DEF Aged
<1> QED BY <1>10, <1>11 DEF Bounded

\* A denied or cancelled order leaves its ticket without a snapshot.
LEMMA DropKeeps ==
    ASSUME NEW F, NEW L \in Int, Gentle(F), NEW positions \in Books, NEW snaps \in [Tickets -> Snapshots \cup {Untaken}],
           Bounded(F, L, positions, snaps), NEW x \in Tickets, NEW more, more = [snaps EXCEPT ![x] = Untaken]
    PROVE  Bounded(F, L, positions, more)
<1>1. PICK at \in [Tickets -> Nat], base \in Nat, top \in Nat : Aged(F, L, positions, snaps, at, base, top)
  BY DEF Bounded
<1>2. /\ \A d \in Tickets : at[d] < top /\ at[d] \in Nat
      /\ base <= top
      /\ \A d, e \in Pending(snaps) : d # e => at[d] # at[e]
      /\ F[positions] <= L + Room(Cardinality(Behind(snaps, at, base)))
      /\ \A d \in Pending(snaps), order \in Orders : at[d] >= base =>
           F[Placed(positions, order)]
             <= F[Placed(snaps[d].holding, order)] + Room(Cardinality(Behind(snaps, at, at[d])))
  BY <1>1 DEF Aged
<1>3. /\ Pending(more) \subseteq Pending(snaps) /\ Pending(snaps) \subseteq Tickets
      /\ \A d \in Pending(more) : more[d] = snaps[d]
  <2>1. Untaken \notin Snapshots
    BY DEF Untaken, Snapshots
  <2> QED BY <2>1 DEF Pending
<1>4. ASSUME NEW t \in Nat
      PROVE  /\ Room(Cardinality(Behind(snaps, at, t))) <= Room(Cardinality(Behind(more, at, t)))
             /\ Room(Cardinality(Behind(snaps, at, t))) \in Int /\ Room(Cardinality(Behind(more, at, t))) \in Int
  <2>1. Behind(more, at, t) \in SUBSET Behind(snaps, at, t)
    BY <1>3 DEF Behind
  <2> QED BY <2>1, CountFact, BehindFact
<1>5. F \in [Books -> Int] /\ F[positions] \in Int
  BY DEF Gentle
<1>6. F[positions] <= L + Room(Cardinality(Behind(more, at, base)))
  <2>1. /\ Room(Cardinality(Behind(snaps, at, base))) <= Room(Cardinality(Behind(more, at, base)))
        /\ Room(Cardinality(Behind(snaps, at, base))) \in Int /\ Room(Cardinality(Behind(more, at, base))) \in Int
    BY <1>4
  <2>2. F[positions] <= L + Room(Cardinality(Behind(snaps, at, base)))
    BY <1>2
  <2> QED BY <1>5, <2>1, <2>2
<1>7. ASSUME NEW d \in Pending(more), NEW order \in Orders, at[d] >= base
      PROVE  F[Placed(positions, order)]
               <= F[Placed(more[d].holding, order)] + Room(Cardinality(Behind(more, at, at[d])))
  <2>1. d \in Pending(snaps) /\ more[d] = snaps[d] /\ at[d] \in Nat /\ d \in Tickets
    BY <1>2, <1>3
  <2>2. F[Placed(positions, order)]
          <= F[Placed(snaps[d].holding, order)] + Room(Cardinality(Behind(snaps, at, at[d])))
    BY <1>2, <1>7, <2>1
  <2>3. F[Placed(snaps[d].holding, order)] \in Int /\ F[Placed(positions, order)] \in Int
    <3>1. snaps[d].holding \in Books
      BY <2>1 DEF Pending, Snapshots
    <3> QED BY <1>5, <3>1, PlacedFact
  <2>4. /\ Room(Cardinality(Behind(snaps, at, at[d]))) <= Room(Cardinality(Behind(more, at, at[d])))
        /\ Room(Cardinality(Behind(snaps, at, at[d]))) \in Int /\ Room(Cardinality(Behind(more, at, at[d]))) \in Int
    BY <1>4, <2>1
  <2> QED BY <2>1, <2>2, <2>3, <2>4
<1>8. Aged(F, L, positions, more, at, base, top)
  BY <1>2, <1>3, <1>6, <1>7 DEF Aged
<1> QED BY <1>8 DEF Bounded

\* The fill of an order that the gateway let pass.
LEMMA ActKeeps ==
    ASSUME NEW F, NEW L \in Int, Gentle(F), Judged(F, L),
           NEW positions \in Books, NEW snaps \in [Tickets -> Snapshots \cup {Untaken}],
           Bounded(F, L, positions, snaps), NEW x \in Tickets, snaps[x] \in Snapshots,
           NEW order \in Orders, EvaluateOrder(order, snaps[x]),
           NEW more, more = [snaps EXCEPT ![x] = Untaken]
    PROVE  Bounded(F, L, Placed(positions, order), more)
<1>1. PICK at \in [Tickets -> Nat], base \in Nat, top \in Nat : Aged(F, L, positions, snaps, at, base, top)
  BY DEF Bounded
<1>2. /\ \A d \in Tickets : at[d] < top /\ at[d] \in Nat
      /\ base <= top
      /\ \A d, e \in Pending(snaps) : d # e => at[d] # at[e]
      /\ F[positions] <= L + Room(Cardinality(Behind(snaps, at, base)))
      /\ \A d \in Pending(snaps), other \in Orders : at[d] >= base =>
           F[Placed(positions, other)]
             <= F[Placed(snaps[d].holding, other)] + Room(Cardinality(Behind(snaps, at, at[d])))
  BY <1>1 DEF Aged
<1>3. /\ Pending(more) \subseteq Pending(snaps) /\ Pending(snaps) \subseteq Tickets
      /\ x \in Pending(snaps) /\ x \notin Pending(more)
      /\ \A d \in Pending(more) : more[d] = snaps[d]
  <2>1. Untaken \notin Snapshots
    BY DEF Untaken, Snapshots
  <2> QED BY <2>1 DEF Pending
<1>4. ASSUME NEW t \in Nat
      PROVE  /\ Room(Cardinality(Behind(snaps, at, t))) <= Room(Cardinality(Behind(more, at, t)))
             /\ Room(Cardinality(Behind(snaps, at, t))) \in Int /\ Room(Cardinality(Behind(more, at, t))) \in Int
             /\ at[x] < t => Room(Cardinality(Behind(snaps, at, t))) + Limits.maxOrder <= Room(Cardinality(Behind(more, at, t)))
  <2>1. Behind(more, at, t) \in SUBSET Behind(snaps, at, t)
    BY <1>3 DEF Behind
  <2>2. at[x] < t => Behind(more, at, t) # Behind(snaps, at, t)
    BY <1>3 DEF Behind
  <2>3. IsFiniteSet(Behind(snaps, at, t))
    BY CountFact
  <2> QED BY <2>1, <2>2, <2>3, BehindFact
<1> DEFINE after == Placed(positions, order)
<1>5. /\ F \in [Books -> Int] /\ F[positions] \in Int /\ after \in Books /\ F[after] \in Int
      /\ order.quantity \in Nat /\ order.quantity <= Limits.maxOrder /\ Limits.maxOrder \in Nat
      /\ at[x] \in Nat /\ F[after] <= F[positions] + order.quantity
  <2>1. order.quantity \in Nat /\ Limits.maxOrder \in Nat
    BY OrderFact, LimitsAssumption DEF LimitsAssumption
  <2>2. order.quantity \in Limits.minOrder..Limits.maxOrder
    BY DEF EvaluateOrder, CheckOrder
  <2>3. F \in [Books -> Int] /\ after \in Books /\ F[after] <= F[positions] + order.quantity
    BY PlacedFact DEF Gentle
  <2>4. F[positions] \in Int /\ F[after] \in Int
    <3> HIDE DEF after
    <3> QED BY <2>3
  <2>5. at[x] \in Nat
    BY <1>2
  <2>6. order.quantity <= Limits.maxOrder
    <3>1. Limits.minOrder \in Nat
      BY LimitsAssumption DEF LimitsAssumption
    <3> QED BY <2>1, <2>2, <3>1
  <2> QED BY <2>1, <2>3, <2>4, <2>5, <2>6
\* Every other snapshot of after at[x] is as far from the books as before and the order.
<1>6. ASSUME NEW other \in Orders
      PROVE  /\ F[Placed(after, other)] <= F[Placed(positions, other)] + order.quantity
             /\ Relieves(F, order) => F[Placed(after, other)] <= F[Placed(positions, other)]
             /\ F[Placed(after, other)] \in Int /\ F[Placed(positions, other)] \in Int
  <2>1. Placed(after, other) = Placed(Placed(positions, other), order)
    BY OrdersCommute
  <2>2. Placed(positions, other) \in Books /\ Placed(after, other) \in Books
    <3> HIDE DEF after
    <3> QED BY <1>5, PlacedFact
  <2> HIDE DEF after
  <2> QED BY <1>5, <2>1, <2>2 DEF Gentle, Relieves
<1>7. ASSUME NEW d \in Pending(more), NEW other \in Orders, at[d] >= base, at[d] > at[x] \/ Relieves(F, order)
      PROVE  F[Placed(after, other)]
               <= F[Placed(more[d].holding, other)] + Room(Cardinality(Behind(more, at, at[d])))
  <2>1. d \in Pending(snaps) /\ more[d] = snaps[d] /\ at[d] \in Nat /\ d \in Tickets
    BY <1>2, <1>3
  <2>2. F[Placed(positions, other)]
          <= F[Placed(snaps[d].holding, other)] + Room(Cardinality(Behind(snaps, at, at[d])))
    BY <1>2, <1>7, <2>1
  <2>3. F[Placed(snaps[d].holding, other)] \in Int
    <3>1. snaps[d].holding \in Books
      BY <2>1 DEF Pending, Snapshots
    <3> QED BY <1>5, <3>1, PlacedFact
  <2> HIDE DEF after
  <2>4. CASE at[d] > at[x]
    <3>1. /\ Room(Cardinality(Behind(snaps, at, at[d]))) \in Int /\ Room(Cardinality(Behind(more, at, at[d]))) \in Int
          /\ Room(Cardinality(Behind(snaps, at, at[d]))) + Limits.maxOrder <= Room(Cardinality(Behind(more, at, at[d])))
      BY <1>4, <1>5, <2>1, <2>4
    <3>2. /\ F[Placed(after, other)] <= F[Placed(positions, other)] + order.quantity
          /\ F[Placed(after, other)] \in Int /\ F[Placed(positions, other)] \in Int
      BY <1>6
    <3>3. F[Placed(more[d].holding, other)] = F[Placed(snaps[d].holding, other)]
      BY <2>1
    <3> QED BY <1>5, <2>2, <2>3, <3>1, <3>2, <3>3
  <2>5. CASE Relieves(F, order)
    <3>1. /\ Room(Cardinality(Behind(snaps, at, at[d]))) \in Int /\ Room(Cardinality(Behind(more, at, at[d]))) \in Int
          /\ Room(Cardinality(Behind(snaps, at, at[d]))) <= Room(Cardinality(Behind(more, at, at[d])))
      BY <1>4, <2>1
    <3>2. /\ F[Placed(after, other)] <= F[Placed(positions, other)]
          /\ F[Placed(after, other)] \in Int /\ F[Placed(positions, other)] \in Int
      BY <1>6, <2>5
    <3>3. F[Placed(more[d].holding, other)] = F[Placed(snaps[d].holding, other)]
      BY <2>1
    <3> QED BY <2>2, <2>3, <3>1, <3>2, <3>3
  <2> QED BY <1>7, <2>4, <2>5
<1> HIDE DEF after
<1>8. CASE at[x] < base
  <2>1. F[after] <= L + Room(Cardinality(Behind(more, at, base)))
    <3>1. /\ Room(Cardinality(Behind(snaps, at, base))) \in Int /\ Room(Cardinality(Behind(more, at, base))) \in Int
          /\ Room(Cardinality(Behind(snaps, at, base))) + Limits.maxOrder <= Room(Cardinality(Behind(more, at, base)))
      BY <1>4, <1>8
    <3>2. F[positions] <= L + Room(Cardinality(Behind(snaps, at, base)))
      BY <1>2
    <3> QED BY <1>5, <3>1, <3>2
  <2>2. \A d \in Tickets : at[d] >= base => at[d] > at[x]
    BY <1>2, <1>5, <1>8
  <2>3. Aged(F, L, after, more, at, base, top)
    BY <1>2, <1>3, <1>7, <2>1, <2>2 DEF Aged
  <2> QED BY <2>3 DEF Bounded, after
<1>9. CASE at[x] >= base /\ Relieves(F, order)
  <2>1. F[after] <= F[positions]
    BY <1>9 DEF Relieves, after
  <2>2. F[after] <= L + Room(Cardinality(Behind(more, at, base)))
    <3>1. /\ Room(Cardinality(Behind(snaps, at, base))) \in Int /\ Room(Cardinality(Behind(more, at, base))) \in Int
          /\ Room(Cardinality(Behind(snaps, at, base))) <= Room(Cardinality(Behind(more, at, base)))
      BY <1>4
    <3>2. F[positions] <= L + Room(Cardinality(Behind(snaps, at, base)))
      BY <1>2
    <3> QED BY <1>5, <2>1, <3>1, <3>2
  <2>3. Aged(F, L, after, more, at, base, top)
    BY <1>2, <1>3, <1>7, <1>9, <2>2 DEF Aged
  <2> QED BY <2>3 DEF Bounded, after
<1>10. CASE at[x] >= base /\ ~Relieves(F, order)
  <2>1. F[Placed(snaps[x].holding, order)] <= L
    BY <1>10 DEF Judged
  <2>2. F[after] <= F[Placed(snaps[x].holding, order)] + Room(Cardinality(Behind(snaps, at, at[x])))
    BY <1>2, <1>3, <1>10 DEF after
  <2>3. F[Placed(snaps[x].holding, order)] \in Int
    <3>1. snaps[x].holding \in Books
      BY DEF Snapshots
    <3> QED BY <1>5, <3>1, PlacedFact
  <2>4. F[after] <= L + Room(Cardinality(Behind(more, at, at[x])))
    <3>1. /\ Room(Cardinality(Behind(snaps, at, at[x]))) \in Int /\ Room(Cardinality(Behind(more, at, at[x]))) \in Int
          /\ Room(Cardinality(Behind(snaps, at, at[x]))) <= Room(Cardinality(Behind(more, at, at[x])))
      BY <1>4, <1>5
    <3> QED BY <1>5, <2>1, <2>2, <2>3, <3>1
  <2>5. ASSUME NEW d \in Pending(more), at[d] >= at[x] PROVE at[d] > at[x] /\ at[d] >= base
    <3>1. d \in Pending(snaps) /\ d # x /\ at[d] \in Nat
      BY <1>2, <1>3
    <3>2. at[d] # at[x]
      BY <1>2, <1>3, <3>1
    <3> QED BY <1>5, <1>10, <2>5, <3>1, <3>2
  <2>6. Aged(F, L, after, more, at, at[x], top)
    <3>1. at[x] <= top /\ at[x] \in Nat /\ top \in Nat
      BY <1>2, <1>5
    <3>2. ASSUME NEW d \in Pending(more), NEW other \in Orders, at[d] >= at[x]
          PROVE  F[Placed(after, other)]
                   <= F[Placed(more[d].holding, other)] + Room(Cardinality(Behind(more, at, at[d])))
      BY <1>7, <2>5, <3>2
    <3>3. \A d, e \in Pending(more) : d # e => at[d] # at[e]
      BY <1>2, <1>3
    <3> QED BY <1>2, <2>4, <3>1, <3>2, <3>3 DEF Aged
  <2> QED BY <1>5, <2>6 DEF Bounded, after
<1> QED BY <1>2, <1>5, <1>8, <1>9, <1>10

\* The measures the limits are about.
GrossOf == [positions \in Books |-> Gross(positions, Stocks)]
SizeOf(s) == [positions \in Books |-> Abs(positions[s])]
ShortOf == [positions \in Books |-> -Net(positions)]
SpentOf == [positions \in Books |-> Net(positions)]

LimitsInv ==
    /\ TicketsInv
    /\ Bounded(GrossOf, Limits.maxGross, holding, snapshot)
    /\ \A s \in Stocks : Bounded(SizeOf(s), Limits.maxPosition, holding, snapshot)
    /\ Bounded(ShortOf, Limits.maxShort, holding, snapshot)
    /\ Bounded(SpentOf, Equity0 - Limits.minCash, holding, snapshot)

LEMMA GrossMeasure == Gentle(GrossOf) /\ Judged(GrossOf, Limits.maxGross)
<1>1. \A positions \in Books : GrossOf[positions] = Gross(positions, Stocks)
  BY DEF GrossOf
<1>2. Orders # {} => GrossOf \in [Books -> Int]
  BY GrossMoves DEF GrossOf
<1>3. GrossOf \in [Books -> Int]
  <2> SUFFICES ASSUME NEW positions \in Books PROVE Gross(positions, Stocks) \in Int
    BY DEF GrossOf
  <2>1. PICK h : SetSums(h, Stocks, Sizes(positions)) /\ Gross(positions, Stocks) = h[Stocks]
    BY GrossSums
  <2>2. h \in [SUBSET Stocks -> Int] /\ Stocks \in SUBSET Stocks
    BY <2>1, SizesFact, SetSumsType, LimitsAssumption DEF LimitsAssumption
  <2> QED BY <2>1, <2>2
<1>4. ASSUME NEW positions \in Books, NEW order \in Orders
      PROVE  GrossOf[Placed(positions, order)] <= GrossOf[positions] + order.quantity
  BY <1>1, PlacedFact, GrossMoves
<1>5. ASSUME NEW order \in Orders, NEW snap \in Snapshots, EvaluateOrder(order, snap)
      PROVE  GrossOf[Placed(snap.holding, order)] <= Limits.maxGross
  <2>1. Placed(snap.holding, order) \in Books
    BY PlacedFact DEF Snapshots
  <2>2. Gross(Placed(snap.holding, order), Stocks) <= Limits.maxGross
    BY <1>5 DEF EvaluateOrder, CheckPortfolio, Projected, Placed
  <2> QED BY <1>1, <2>1, <2>2
<1> QED BY <1>3, <1>4, <1>5 DEF Gentle, Judged

LEMMA SizeMeasure == \A s \in Stocks : Gentle(SizeOf(s)) /\ Judged(SizeOf(s), Limits.maxPosition)
<1> SUFFICES ASSUME NEW s \in Stocks PROVE Gentle(SizeOf(s)) /\ Judged(SizeOf(s), Limits.maxPosition)
  OBVIOUS
<1>1. \A positions \in Books : SizeOf(s)[positions] = Abs(positions[s]) /\ positions[s] \in Int /\ Abs(positions[s]) \in Int
  BY DEF SizeOf, Books, Abs
<1>2. SizeOf(s) \in [Books -> Int]
  BY <1>1 DEF SizeOf
<1>3. ASSUME NEW positions \in Books, NEW order \in Orders
      PROVE  /\ SizeOf(s)[Placed(positions, order)] <= SizeOf(s)[positions] + order.quantity
             /\ s # order.stock => SizeOf(s)[Placed(positions, order)] <= SizeOf(s)[positions]
  <2> DEFINE more == Placed(positions, order)
  <2>1. more \in Books /\ positions[s] \in Int /\ order.quantity \in Nat
    BY <1>1, PlacedFact, OrderFact
  <2>2. CASE s = order.stock
    <3>1. more[s] = positions[s] + order.quantity \/ more[s] = positions[s] - order.quantity
      BY <2>1, <2>2, PlacedFact, OrderFact
    <3> HIDE DEF more
    <3>2. Abs(more[s]) <= Abs(positions[s]) + order.quantity
      BY <2>1, <3>1 DEF Abs
    <3> QED BY <1>1, <2>1, <2>2, <3>2 DEF more
  <2>3. CASE s # order.stock
    <3>1. more[s] = positions[s]
      BY <2>3, PlacedFact
    <3> HIDE DEF more
    <3>2. Abs(more[s]) <= Abs(positions[s]) + order.quantity /\ Abs(more[s]) <= Abs(positions[s])
      BY <2>1, <3>1 DEF Abs
    <3> QED BY <1>1, <2>1, <3>2 DEF more
  <2> QED BY <2>2, <2>3
<1>4. ASSUME NEW order \in Orders, s = order.stock, NEW snap \in Snapshots, EvaluateOrder(order, snap)
      PROVE  SizeOf(s)[Placed(snap.holding, order)] <= Limits.maxPosition
  <2>1. Placed(snap.holding, order) \in Books
    BY PlacedFact DEF Snapshots
  <2>2. Abs(Placed(snap.holding, order)[order.stock]) <= Limits.maxPosition
    BY <1>4 DEF EvaluateOrder, CheckAsset, Projected, Placed
  <2> QED BY <1>1, <1>4, <2>1, <2>2
<1>5. ASSUME NEW order \in Orders, s # order.stock PROVE Relieves(SizeOf(s), order)
  BY <1>3, <1>5 DEF Relieves
<1> QED BY <1>2, <1>3, <1>4, <1>5 DEF Gentle, Judged

LEMMA NetType == \A positions \in Books : Net(positions) \in Int
<1> SUFFICES ASSUME NEW positions \in Books PROVE Net(positions) \in Int
  OBVIOUS
<1>1. PICK h : SetSums(h, Stocks, positions) /\ Net(positions) = h[Stocks]
  BY NetSums
<1>2. h \in [SUBSET Stocks -> Int] /\ Stocks \in SUBSET Stocks
  BY <1>1, SetSumsType, LimitsAssumption DEF LimitsAssumption, Books
<1> QED BY <1>1, <1>2

LEMMA ShortMeasure == Gentle(ShortOf) /\ Judged(ShortOf, Limits.maxShort)
<1>1. \A positions \in Books : ShortOf[positions] = -Net(positions) /\ Net(positions) \in Int
  BY NetType DEF ShortOf
<1>2. ShortOf \in [Books -> Int]
  BY <1>1 DEF ShortOf
<1>3. ASSUME NEW positions \in Books, NEW order \in Orders
      PROVE  ShortOf[Placed(positions, order)] <= ShortOf[positions] + order.quantity
  <2>1. Net(Placed(positions, order)) = Net(positions) + Signed(order.side, order.quantity)
    BY NetMoves
  <2>2. Placed(positions, order) \in Books
    BY PlacedFact
  <2> QED BY <1>1, <2>1, <2>2, OrderFact
<1>4. ASSUME NEW order \in Orders, NEW snap \in Snapshots, EvaluateOrder(order, snap)
      PROVE  ShortOf[Placed(snap.holding, order)] <= Limits.maxShort
  <2>1. Placed(snap.holding, order) \in Books
    BY PlacedFact DEF Snapshots
  <2>2. Net(Placed(snap.holding, order)) >= -Limits.maxShort
    BY <1>4 DEF EvaluateOrder, CheckPortfolio, Projected, Placed
  <2>3. Limits.maxShort \in Nat
    BY LimitsAssumption DEF LimitsAssumption
  <2> QED BY <1>1, <2>1, <2>2, <2>3
<1> QED BY <1>2, <1>3, <1>4 DEF Gentle, Judged

LEMMA SpentMeasure == Gentle(SpentOf) /\ Judged(SpentOf, Equity0 - Limits.minCash)
<1>1. \A positions \in Books : SpentOf[positions] = Net(positions) /\ Net(positions) \in Int
  BY NetType DEF SpentOf
<1>2. SpentOf \in [Books -> Int]
  BY <1>1 DEF SpentOf
<1>3. ASSUME NEW positions \in Books, NEW order \in Orders
      PROVE  SpentOf[Placed(positions, order)] = SpentOf[positions] + Signed(order.side, order.quantity)
  <2>1. Net(Placed(positions, order)) = Net(positions) + Signed(order.side, order.quantity)
    BY NetMoves
  <2>2. Placed(positions, order) \in Books
    BY PlacedFact
  <2> QED BY <1>1, <2>1, <2>2
<1>4. ASSUME NEW positions \in Books, NEW order \in Orders
      PROVE  SpentOf[Placed(positions, order)] <= SpentOf[positions] + order.quantity
  <2>1. SpentOf[positions] \in Int
    BY <1>1
  <2> QED BY <1>3, <2>1, OrderFact
<1>5. ASSUME NEW order \in Orders, order.side \notin {"buy", "cover"} PROVE Relieves(SpentOf, order)
  <2> SUFFICES ASSUME NEW positions \in Books PROVE SpentOf[Placed(positions, order)] <= SpentOf[positions]
    BY DEF Relieves
  <2>1. SpentOf[positions] \in Int /\ order.quantity \in Nat
    BY <1>1, OrderFact
  <2>2. Signed(order.side, order.quantity) = -order.quantity
    BY <1>5 DEF Signed
  <2> QED BY <1>3, <2>1, <2>2
<1>6. ASSUME NEW order \in Orders, order.side \in {"buy", "cover"}, NEW snap \in Snapshots, EvaluateOrder(order, snap)
      PROVE  SpentOf[Placed(snap.holding, order)] <= Equity0 - Limits.minCash
  <2>1. snap.holding \in Books /\ snap.cash = Equity0 - Net(snap.holding)
    BY DEF Snapshots
  <2>2. snap.cash - order.quantity >= Limits.minCash
    BY <1>6 DEF EvaluateOrder, CheckPortfolio
  <2>3. SpentOf[Placed(snap.holding, order)] = Net(snap.holding) + order.quantity
    BY <1>1, <1>3, <1>6, <2>1 DEF Signed
  <2>4. Net(snap.holding) \in Int /\ order.quantity \in Nat /\ Equity0 \in Nat /\ Limits.minCash \in Nat
    BY <1>1, <2>1, OrderFact, LimitsAssumption DEF LimitsAssumption
  <2> QED BY <2>1, <2>2, <2>3, <2>4
<1>7. ASSUME NEW order \in Orders
      PROVE  \/ Relieves(SpentOf, order)
             \/ \A snap \in Snapshots : EvaluateOrder(order, snap) => SpentOf[Placed(snap.holding, order)] <= Equity0 - Limits.minCash
  BY <1>5, <1>6
<1> QED BY <1>2, <1>4, <1>7 DEF Gentle, Judged

\* No snapshot is out at the start.
LEMMA StartBounded ==
    ASSUME NEW F, NEW L \in Int, Gentle(F), NEW positions \in Books, F[positions] <= L,
           NEW snaps, snaps = [d \in Tickets |-> Untaken]
    PROVE  Bounded(F, L, positions, snaps)
<1> DEFINE at == [d \in Tickets |-> 0]
<1>1. at \in [Tickets -> Nat] /\ \A d \in Tickets : at[d] < 1
  OBVIOUS
<1>2. Pending(snaps) = {}
  <2>1. Untaken \notin Snapshots
    BY DEF Untaken, Snapshots
  <2> QED BY <2>1 DEF Pending
<1> HIDE DEF at
<1>3. Cardinality(Behind(snaps, at, 0)) = 0
  <2>1. Behind(snaps, at, 0) = {}
    BY <1>2 DEF Behind
  <2> QED BY <2>1, FS_EmptySet
<1>4. Room(0) >= 0 /\ Room(0) \in Int
  <2>1. Cardinality(Tickets) \in Nat /\ Cardinality(Tickets) # 0
    BY LimitsAssumption, FS_CardinalityType, FS_EmptySet DEF LimitsAssumption
  <2> QED BY <2>1, RoomFact
<1>5. F[positions] \in Int
  BY DEF Gentle
<1>6. F[positions] <= L + Room(Cardinality(Behind(snaps, at, 0)))
  BY <1>3, <1>4, <1>5
<1>7. Aged(F, L, positions, snaps, at, 0, 1)
  BY <1>1, <1>2, <1>6 DEF Aged
<1>8. 0 \in Nat /\ 1 \in Nat
  OBVIOUS
<1> QED BY <1>1, <1>7, <1>8 DEF Bounded

\* What the invariant says of a measure.
LEMMA BoundedFact ==
    ASSUME NEW F, NEW L \in Int, Gentle(F), NEW positions \in Books, NEW snaps, Bounded(F, L, positions, snaps)
    PROVE  F[positions] <= L + (Cardinality(Tickets) - 1) * Limits.maxOrder
<1>1. PICK at \in [Tickets -> Nat], base \in Nat, top \in Nat : Aged(F, L, positions, snaps, at, base, top)
  BY DEF Bounded
<1>2. F[positions] <= L + Room(Cardinality(Behind(snaps, at, base))) /\ F[positions] \in Int
  BY <1>1 DEF Aged, Gentle
<1>3. Cardinality(Behind(snaps, at, base)) \in Nat
  BY CountFact
<1>4. /\ Room(Cardinality(Behind(snaps, at, base))) <= Room(0)
      /\ Room(0) \in Int /\ Room(Cardinality(Behind(snaps, at, base))) \in Int
  BY <1>3, RoomFact
<1>5. Room(0) = (Cardinality(Tickets) - 1) * Limits.maxOrder
  <2>1. Cardinality(Tickets) \in Nat /\ Limits.maxOrder \in Nat
    BY LimitsAssumption, FS_CardinalityType DEF LimitsAssumption
  <2> QED BY <2>1 DEF Room
<1> QED BY <1>2, <1>4, <1>5

LEMMA Thresholds ==
    /\ Limits.maxGross \in Nat /\ Limits.maxPosition \in Nat /\ Limits.maxShort \in Nat
    /\ Equity0 - Limits.minCash \in Nat /\ Equity0 \in Nat /\ Limits.minCash \in Nat /\ Limits.maxOrder \in Nat
BY LimitsAssumption DEF LimitsAssumption

LEMMA LimitsStart == LimitsInit => LimitsInv
<1> SUFFICES ASSUME LimitsInit PROVE LimitsInv
  OBVIOUS
<1>1. snapshot = [d \in Tickets |-> Untaken] /\ holding = [s \in Stocks |-> 0] /\ cash = Equity0
  BY DEF LimitsInit
<1>2. holding \in Books /\ Net(holding) = 0 /\ Gross(holding, Stocks) = 0
  BY <1>1, EmptyBook
<1>3. TicketsInv
  BY <1>1, <1>2, Thresholds DEF TicketsInv, LimitsInit
<1>4. GrossOf[holding] = 0 /\ ShortOf[holding] <= 0 /\ SpentOf[holding] = 0
  <2>1. GrossOf[holding] = Gross(holding, Stocks) /\ ShortOf[holding] = -Net(holding) /\ SpentOf[holding] = Net(holding)
    BY <1>2 DEF GrossOf, ShortOf, SpentOf
  <2>2. \A n \in Int : n >= 0 => -n <= 0
    OBVIOUS
  <2>3. ShortOf[holding] <= 0
    <3>1. Net(holding) \in Int /\ Net(holding) >= 0
      BY <1>2
    <3> QED BY <2>1, <2>2, <3>1
  <2> QED BY <1>2, <2>1, <2>3
<1>5. \A s \in Stocks : SizeOf(s)[holding] = 0
  BY <1>1, <1>2 DEF SizeOf, Abs
<1>6. Bounded(GrossOf, Limits.maxGross, holding, snapshot)
  BY <1>1, <1>2, <1>4, Thresholds, GrossMeasure, StartBounded
<1>7. Bounded(ShortOf, Limits.maxShort, holding, snapshot)
  <2>1. ShortOf[holding] \in Int /\ Gentle(ShortOf) /\ Limits.maxShort \in Int
    BY <1>2, Thresholds, ShortMeasure DEF Gentle
  <2>2. ShortOf[holding] <= Limits.maxShort
    BY <1>4, <2>1, Thresholds
  <2> QED BY <1>1, <1>2, <2>1, <2>2, StartBounded
<1>8. Bounded(SpentOf, Equity0 - Limits.minCash, holding, snapshot)
  BY <1>1, <1>2, <1>4, Thresholds, SpentMeasure, StartBounded
<1>9. ASSUME NEW s \in Stocks PROVE Bounded(SizeOf(s), Limits.maxPosition, holding, snapshot)
  <2>1. SizeOf(s)[holding] <= Limits.maxPosition /\ Limits.maxPosition \in Int /\ Gentle(SizeOf(s))
    BY <1>5, Thresholds, SizeMeasure
  <2> QED BY <1>1, <1>2, <2>1, StartBounded
<1> QED BY <1>3, <1>6, <1>7, <1>8, <1>9 DEF LimitsInv

\* What a step makes of the books and the snapshots it makes of every measure.
Served(positions, snaps, later, more) ==
    \A F, L : L \in Int /\ Gentle(F) /\ Judged(F, L) /\ Bounded(F, L, positions, snaps) => Bounded(F, L, later, more)

LEMMA ServedFact ==
    ASSUME NEW positions, NEW snaps, NEW later, NEW more, Served(positions, snaps, later, more)
    PROVE  /\ Bounded(GrossOf, Limits.maxGross, positions, snaps) => Bounded(GrossOf, Limits.maxGross, later, more)
           /\ \A s \in Stocks : Bounded(SizeOf(s), Limits.maxPosition, positions, snaps)
                => Bounded(SizeOf(s), Limits.maxPosition, later, more)
           /\ Bounded(ShortOf, Limits.maxShort, positions, snaps) => Bounded(ShortOf, Limits.maxShort, later, more)
           /\ Bounded(SpentOf, Equity0 - Limits.minCash, positions, snaps)
                => Bounded(SpentOf, Equity0 - Limits.minCash, later, more)
<1>1. /\ Limits.maxGross \in Int /\ Limits.maxPosition \in Int /\ Limits.maxShort \in Int
      /\ Equity0 - Limits.minCash \in Int
  BY Thresholds
<1>2. Bounded(GrossOf, Limits.maxGross, positions, snaps) => Bounded(GrossOf, Limits.maxGross, later, more)
  BY <1>1, GrossMeasure DEF Served
<1>3. \A s \in Stocks : Bounded(SizeOf(s), Limits.maxPosition, positions, snaps)
        => Bounded(SizeOf(s), Limits.maxPosition, later, more)
  BY <1>1, SizeMeasure DEF Served
<1>4. Bounded(ShortOf, Limits.maxShort, positions, snaps) => Bounded(ShortOf, Limits.maxShort, later, more)
  BY <1>1, ShortMeasure DEF Served
<1>5. Bounded(SpentOf, Equity0 - Limits.minCash, positions, snaps)
        => Bounded(SpentOf, Equity0 - Limits.minCash, later, more)
  BY <1>1, SpentMeasure DEF Served
<1> QED BY <1>2, <1>3, <1>4, <1>5

LEMMA LimitsStep == LimitsInv /\ [LimitsNext]_limitsVars => LimitsInv'
<1> SUFFICES ASSUME LimitsInv, [LimitsNext]_limitsVars PROVE LimitsInv'
  OBVIOUS
<1> USE DEF LimitsInv
<1>1. holding \in Books /\ cash = Equity0 - Net(holding) /\ snapshot \in [Tickets -> Snapshots \cup {Untaken}] /\ cash \in Int
  BY NetType, Thresholds DEF TicketsInv
<1>2. TicketsInv' /\ Served(holding, snapshot, holding', snapshot') => LimitsInv'
  <2>1. SUFFICES ASSUME TicketsInv', Served(holding, snapshot, holding', snapshot') PROVE LimitsInv'
    OBVIOUS
  <2>2. /\ Bounded(GrossOf, Limits.maxGross, holding', snapshot')
        /\ \A s \in Stocks : Bounded(SizeOf(s), Limits.maxPosition, holding', snapshot')
        /\ Bounded(ShortOf, Limits.maxShort, holding', snapshot')
        /\ Bounded(SpentOf, Equity0 - Limits.minCash, holding', snapshot')
    BY <2>1, ServedFact
  <2>3. /\ Bounded(GrossOf, Limits.maxGross, holding, snapshot)'
        /\ (\A s \in Stocks : Bounded(SizeOf(s), Limits.maxPosition, holding, snapshot))'
        /\ Bounded(ShortOf, Limits.maxShort, holding, snapshot)'
        /\ Bounded(SpentOf, Equity0 - Limits.minCash, holding, snapshot)'
    BY <2>2
  <2> QED BY <2>1, <2>3
<1>3. ASSUME NEW call \in SUBSET Tickets, NEW safety \in Safeties, TakeSnapshot(call, safety) PROVE LimitsInv'
  <2> DEFINE snap == [taken |-> TRUE, holding |-> holding, cash |-> cash, safety |-> safety]
  <2>1. snap \in Snapshots /\ snap.holding = holding
    BY <1>1 DEF Snapshots
  <2>2. /\ snapshot' = [d \in Tickets |-> IF d \in call THEN snap ELSE snapshot[d]]
        /\ holding' = holding /\ cash' = cash /\ working' = working
        /\ \A t \in call : ~snapshot[t].taken
    BY <1>3 DEF TakeSnapshot
  <2> HIDE DEF snap
  <2>3. TicketsInv'
    <3>1. snapshot' \in [Tickets -> Snapshots \cup {Untaken}]
      BY <1>1, <2>1, <2>2
    <3>2. ASSUME NEW t \in Tickets, working[t] # NotPlaced
          PROVE  snapshot'[t] \in Snapshots /\ EvaluateOrder(working[t].order, snapshot'[t])
      <4>1. snapshot[t] \in Snapshots /\ EvaluateOrder(working[t].order, snapshot[t])
        BY <3>2 DEF TicketsInv
      <4>2. t \notin call
        BY <2>2, <4>1 DEF Snapshots
      <4> QED BY <2>2, <4>1, <4>2
    <3>3. working \in [Tickets -> Placements \cup {NotPlaced}]
      BY DEF TicketsInv
    <3> QED BY <1>1, <2>2, <3>1, <3>2, <3>3 DEF TicketsInv
  <2>4. Served(holding, snapshot, holding', snapshot')
    <3> SUFFICES ASSUME NEW F, NEW L, L \in Int, Gentle(F), Bounded(F, L, holding, snapshot)
                 PROVE  Bounded(F, L, holding', snapshot')
      BY DEF Served
    <3>1. Bounded(F, L, holding, snapshot')
      BY <1>1, <2>1, <2>2, TakeKeeps
    <3> QED BY <2>2, <3>1
  <2> QED BY <1>2, <2>3, <2>4
\* An order that is denied or cancelled changes no book.
<1>4. ASSUME NEW t \in Tickets, snapshot' = [snapshot EXCEPT ![t] = Untaken], working'[t] = NotPlaced,
             working' \in [Tickets -> Placements \cup {NotPlaced}],
             \A u \in Tickets : u # t => working'[u] = working[u], UNCHANGED <<holding, cash>>
      PROVE  LimitsInv'
  <2>1. TicketsInv'
    BY <1>1, <1>4 DEF TicketsInv
  <2>2. Served(holding, snapshot, holding', snapshot')
    <3> SUFFICES ASSUME NEW F, NEW L, L \in Int, Gentle(F), Bounded(F, L, holding, snapshot)
                 PROVE  Bounded(F, L, holding', snapshot')
      BY DEF Served
    <3>1. Bounded(F, L, holding, snapshot')
      BY <1>1, <1>4, DropKeeps
    <3> QED BY <1>4, <3>1
  <2> QED BY <1>2, <2>1, <2>2
<1>5. ASSUME NEW t \in Tickets, NEW order \in Orders, Transmit(t, order) PROVE LimitsInv'
  <2>1. working \in [Tickets -> Placements \cup {NotPlaced}] /\ ~working[t].placed
    BY <1>5 DEF TicketsInv, Transmit
  <2>2. snapshot[t] \in Snapshots /\ UNCHANGED <<holding, cash>> /\ working[t] = NotPlaced
    <3>1. snapshot[t].taken /\ UNCHANGED <<holding, cash>>
      BY <1>5 DEF Transmit
    <3>2. snapshot[t] \in Snapshots \cup {Untaken} /\ ~Untaken.taken
      BY <1>1 DEF Untaken
    <3>3. working[t] \in Placements \cup {NotPlaced} /\ \A p \in Placements : p.placed
      BY <2>1 DEF Placements
    <3>4. snapshot[t] \in Snapshots
      BY <3>1, <3>2
    <3> QED BY <2>1, <3>1, <3>3, <3>4
  <2>3. CASE EvaluateOrder(order, snapshot[t])
    <3>1. working' = [working EXCEPT ![t] = [placed |-> TRUE, order |-> order]] /\ snapshot' = snapshot
      BY <1>5, <2>3 DEF Transmit
    <3>2. TicketsInv'
      BY <1>1, <2>1, <2>2, <2>3, <3>1 DEF TicketsInv, Placements
    <3>3. Served(holding, snapshot, holding', snapshot')
      BY <2>2, <3>1 DEF Served
    <3> QED BY <1>2, <3>2, <3>3
  <2>4. CASE ~EvaluateOrder(order, snapshot[t])
    <3>1. snapshot' = [snapshot EXCEPT ![t] = Untaken] /\ working' = working
      BY <1>5, <2>4 DEF Transmit
    <3> QED BY <1>4, <2>1, <2>2, <3>1
  <2> QED BY <2>3, <2>4
<1>6. ASSUME NEW t \in Tickets, Fill(t) PROVE LimitsInv'
  <2> DEFINE order == working[t].order
  <2>1. working \in [Tickets -> Placements \cup {NotPlaced}] /\ working[t] # NotPlaced
    BY <1>6 DEF TicketsInv, Fill, NotPlaced
  <2>2. order \in Orders /\ snapshot[t] \in Snapshots /\ EvaluateOrder(order, snapshot[t])
    BY <2>1 DEF TicketsInv, Placements
  <2>3. /\ snapshot' = [snapshot EXCEPT ![t] = Untaken] /\ working' = [working EXCEPT ![t] = NotPlaced]
        /\ holding' = Placed(holding, order) /\ cash' = cash - Signed(order.side, order.quantity)
    BY <1>6 DEF Fill, Over, Placed
  <2> HIDE DEF order
  <2>4. Placed(holding, order) \in Books
    BY <1>1, <2>2, PlacedFact
  <2>5. /\ Net(Placed(holding, order)) = Net(holding) + Signed(order.side, order.quantity)
        /\ Net(holding) \in Int /\ Signed(order.side, order.quantity) \in Int
    BY <1>1, <2>2, NetMoves, OrderFact
  <2>6. cash - Signed(order.side, order.quantity) = Equity0 - Net(Placed(holding, order))
    BY <1>1, <2>5, Thresholds
  <2>7. TicketsInv'
    <3>1. cash' = Equity0 - Net(holding')
      BY <2>3, <2>6
    <3>2. working' \in [Tickets -> Placements \cup {NotPlaced}] /\ snapshot' \in [Tickets -> Snapshots \cup {Untaken}]
      BY <1>1, <2>1, <2>3
    <3>3. ASSUME NEW u \in Tickets, working'[u] # NotPlaced
          PROVE  snapshot'[u] \in Snapshots /\ EvaluateOrder(working'[u].order, snapshot'[u])
      <4>1. u # t /\ working'[u] = working[u] /\ snapshot'[u] = snapshot[u]
        BY <1>1, <2>1, <2>3, <3>3
      <4> QED BY <3>3, <4>1 DEF TicketsInv
    <3> QED BY <2>3, <2>4, <3>1, <3>2, <3>3 DEF TicketsInv
  <2>8. Served(holding, snapshot, holding', snapshot')
    <3> SUFFICES ASSUME NEW F, NEW L, L \in Int, Gentle(F), Judged(F, L), Bounded(F, L, holding, snapshot)
                 PROVE  Bounded(F, L, holding', snapshot')
      BY DEF Served
    <3>1. Bounded(F, L, Placed(holding, order), snapshot')
      BY <1>1, <2>2, <2>3, ActKeeps
    <3> QED BY <2>3, <3>1
  <2> QED BY <1>2, <2>7, <2>8
<1>7. ASSUME NEW t \in Tickets, Cancel(t) PROVE LimitsInv'
  <2>1. working \in [Tickets -> Placements \cup {NotPlaced}]
    BY DEF TicketsInv
  <2>2. /\ snapshot' = [snapshot EXCEPT ![t] = Untaken] /\ working' = [working EXCEPT ![t] = NotPlaced]
        /\ UNCHANGED <<holding, cash>>
    BY <1>7 DEF Cancel, Over
  <2> QED BY <1>4, <2>1, <2>2
<1>8. CASE UNCHANGED limitsVars
  BY <1>8 DEF limitsVars, TicketsInv
<1> QED BY <1>3, <1>5, <1>6, <1>7, <1>8 DEF LimitsNext

LEMMA LimitsHold == LimitsInv => ExposureBounded
<1> SUFFICES ASSUME LimitsInv PROVE ExposureBounded
  OBVIOUS
<1> DEFINE overshoot == (Cardinality(Tickets) - 1) * Limits.maxOrder
<1>1. holding \in Books /\ cash = Equity0 - Net(holding) /\ Net(holding) \in Int
  BY NetType DEF LimitsInv, TicketsInv
<1>2. overshoot \in Int
  BY Thresholds, FS_CardinalityType, LimitsAssumption DEF LimitsAssumption
<1>3. GrossOf[holding] <= Limits.maxGross + overshoot
  <2>1. Limits.maxGross \in Int /\ Gentle(GrossOf) /\ Bounded(GrossOf, Limits.maxGross, holding, snapshot)
    BY Thresholds, GrossMeasure DEF LimitsInv
  <2> QED BY <1>1, <2>1, BoundedFact
<1>4. ASSUME NEW s \in Stocks PROVE SizeOf(s)[holding] <= Limits.maxPosition + overshoot
  <2>1. Limits.maxPosition \in Int /\ Gentle(SizeOf(s)) /\ Bounded(SizeOf(s), Limits.maxPosition, holding, snapshot)
    BY Thresholds, SizeMeasure DEF LimitsInv
  <2> QED BY <1>1, <2>1, BoundedFact
<1>5. ShortOf[holding] <= Limits.maxShort + overshoot
  <2>1. Limits.maxShort \in Int /\ Gentle(ShortOf) /\ Bounded(ShortOf, Limits.maxShort, holding, snapshot)
    BY Thresholds, ShortMeasure DEF LimitsInv
  <2> QED BY <1>1, <2>1, BoundedFact
<1>6. SpentOf[holding] <= Equity0 - Limits.minCash + overshoot
  <2>1. /\ Equity0 - Limits.minCash \in Int /\ Gentle(SpentOf)
        /\ Bounded(SpentOf, Equity0 - Limits.minCash, holding, snapshot)
    BY Thresholds, SpentMeasure DEF LimitsInv
  <2> QED BY <1>1, <2>1, BoundedFact
<1> HIDE DEF overshoot
<1>7. /\ GrossOf[holding] = Gross(holding, Stocks) /\ ShortOf[holding] = -Net(holding) /\ SpentOf[holding] = Net(holding)
      /\ \A s \in Stocks : SizeOf(s)[holding] = Abs(holding[s])
  BY <1>1 DEF GrossOf, ShortOf, SpentOf, SizeOf
<1>8. Net(holding) >= -Limits.maxShort - overshoot /\ cash >= Limits.minCash - overshoot
  BY <1>1, <1>2, <1>5, <1>6, <1>7, Thresholds
<1> QED BY <1>3, <1>4, <1>7, <1>8 DEF ExposureBounded, overshoot

\* However old the snapshots are that orders are judged by (position_limits.transmit),
\* however many orders of a call share one and however long they rest before they are
\* filled, the account's gross, net and per-stock exposure passes a limit by at most one
\* largest order for every other order that can be under way, and so does the cash the
\* reserve.
THEOREM ExposureAlwaysBounded == LimitsSpec => []ExposureBounded
<1>1. LimitsSpec => []LimitsInv
  BY LimitsStart, LimitsStep, PTL DEF LimitsSpec
<1> QED BY <1>1, LimitsHold, PTL

\* Positions and cash are whole numbers, and a snapshot shows such positions.
THEOREM LimitsTypeCorrect == LimitsSpec => []LimitsTypeOK
<1>1. LimitsInv => LimitsTypeOK
  <2> SUFFICES ASSUME LimitsInv PROVE LimitsTypeOK
    OBVIOUS
  <2>1. holding \in [Stocks -> Int] /\ cash \in Int
    BY NetType, Thresholds DEF LimitsInv, TicketsInv, Books
  <2>2. \A d \in Tickets : snapshot[d] # Untaken => snapshot[d] \in Snapshots
    BY DEF LimitsInv, TicketsInv
  <2>3. working \in [Tickets -> [placed : {TRUE}, order : Orders] \cup {NotPlaced}]
    BY DEF LimitsInv, TicketsInv, Placements
  <2> QED BY <2>1, <2>2, <2>3 DEF LimitsTypeOK, Snapshots, Books
<1> QED BY <1>1, LimitsStart, LimitsStep, PTL DEF LimitsSpec

-----------------------------------------------------------------------------
(* The stored bars.                                                        *)

\* No hole and no unfinished bar between two stored ones, but where an outage outlasted
\* the look-back.  The first stored bar is never inside the window again, so no sync
\* begins a history before it.
SyncInv ==
    /\ now \in 0..Horizon /\ bars \in [Instants -> {"none", "partial", "final"}]
    /\ \A t \in StoredBars : t <= now
    /\ StoredBars # {} => \E t \in StoredBars : t <= WindowStart
    /\ \A t \in Instants \ missed :
        (\E a \in StoredBars : a <= t) /\ (\E b \in StoredBars : t < b) => bars[t] = "final"
    /\ \A k \in Instants : coarse[k] = "final" =>
        /\ {2 * k, 2 * k + 1} \subseteq Instants
        /\ bars[2 * k] = "final" /\ bars[2 * k + 1] = "final"

LEMMA MaxOfTwo ==
    ASSUME NEW a \in Int, NEW b \in Int
    PROVE  Max({a, b}) = IF a >= b THEN a ELSE b
<1>1. CASE a >= b
  <2>1. \E x \in {a, b} : \A y \in {a, b} : x >= y
    BY <1>1
  <2>2. Max({a, b}) \in {a, b} /\ \A y \in {a, b} : Max({a, b}) >= y
    BY <2>1 DEF Max
  <2> QED BY <1>1, <2>2
<1>2. CASE ~(a >= b)
  <2>1. \E x \in {a, b} : \A y \in {a, b} : x >= y
    BY <1>2
  <2>2. Max({a, b}) \in {a, b} /\ \A y \in {a, b} : Max({a, b}) >= y
    BY <2>1 DEF Max
  <2> QED BY <1>2, <2>2
<1> QED BY <1>1, <1>2

LEMMA WindowFact ==
    ASSUME now \in 0..Horizon
    PROVE  WindowStart \in 0..now /\ WindowStart = IF now >= Lookback THEN now - Lookback ELSE 0
<1>1. 0 \in Int /\ now - Lookback \in Int /\ Lookback \in Nat /\ now \in Nat
  BY SyncAssumption, HorizonAssumption DEF SyncAssumption, HorizonAssumption
<1>2. WindowStart = IF 0 >= now - Lookback THEN 0 ELSE now - Lookback
  BY <1>1, MaxOfTwo DEF WindowStart
<1> QED BY <1>1, <1>2

LEMMA LastBarFact ==
    ASSUME SyncInv, StoredBars # {}
    PROVE  LastBar \in StoredBars /\ LastBar \in 0..now /\ \A t \in StoredBars : t <= LastBar
<1>1. now \in Nat /\ \A t \in StoredBars : t \in Nat /\ t <= now
  BY HorizonAssumption DEF SyncInv, HorizonAssumption, StoredBars, Instants
<1>2. LastBar \in StoredBars /\ \A t \in StoredBars : t <= LastBar
  <2> DEFINE S == StoredBars
  <2>1. S \in SUBSET Nat /\ S # {} /\ \A t \in S : t <= now
    BY <1>1
  <2> HIDE DEF S
  <2>2. Max(S) \in S /\ \A t \in S : t <= Max(S)
    BY <1>1, <2>1, MaxOfBounded
  <2> QED BY <2>2 DEF S, LastBar
<1> QED BY <1>1, <1>2

LEMMA SyncKeeps == ASSUME SyncInv, SyncTimeframe, now' = now PROVE SyncInv'
<1> PICK end \in FetchStart..now, last \in {"partial", "final"} :
        /\ end = now => last = "partial"
        /\ bars[end] = "final" => last = "final"
        /\ bars' = [t \in Instants |-> IF t \in FetchStart..end
                                       THEN IF t = end THEN last ELSE "final" ELSE bars[t]]
  BY DEF SyncTimeframe
<1>0. /\ now \in 0..Horizon /\ now \in Nat /\ bars \in [Instants -> {"none", "partial", "final"}]
      /\ \A t \in Instants : t \in Nat
      /\ WindowStart \in 0..now /\ WindowStart' = WindowStart /\ coarse' = coarse
      /\ missed' = IF StoredBars = {} THEN missed ELSE missed \cup (LastBar..(WindowStart - 1))
  BY HorizonAssumption, WindowFact DEF SyncInv, HorizonAssumption, SyncTimeframe, WindowStart, Instants
<1>1. /\ FetchStart \in 0..now /\ WindowStart <= FetchStart
      /\ StoredBars = {} => FetchStart = WindowStart
      /\ StoredBars # {} => FetchStart = IF LastBar - 1 >= WindowStart THEN LastBar - 1 ELSE WindowStart
  <2>1. CASE StoredBars = {}
    BY <1>0, <2>1 DEF FetchStart
  <2>2. CASE StoredBars # {}
    <3>1. LastBar \in 0..now
      BY <2>2, LastBarFact
    <3>2. LastBar - 1 \in Int /\ WindowStart \in Int
      BY <1>0, <3>1
    <3>3. FetchStart = IF LastBar - 1 >= WindowStart THEN LastBar - 1 ELSE WindowStart
      BY <2>2, <3>2, MaxOfTwo DEF FetchStart
    <3> QED BY <1>0, <2>2, <3>1, <3>3
  <2> QED BY <2>1, <2>2
<1> DEFINE f == FetchStart
<1>2. end \in f..now /\ end \in Nat /\ f \in Nat /\ end \in Instants
  BY <1>0, <1>1, HorizonAssumption DEF Instants, HorizonAssumption
<1>3. \A t \in Instants : bars'[t] = IF t \in f..end THEN IF t = end THEN last ELSE "final" ELSE bars[t]
  OBVIOUS
<1>4. /\ bars' \in [Instants -> {"none", "partial", "final"}]
      /\ \A t \in Instants : t \in StoredBars' <=> t \in f..end \/ t \in StoredBars
      /\ f \in StoredBars' /\ StoredBars \subseteq Instants /\ StoredBars' \subseteq Instants
  <2>1. f \in Instants /\ f \in f..end
    BY <1>0, <1>2, HorizonAssumption DEF Instants, HorizonAssumption
  <2>2. bars' \in [Instants -> {"none", "partial", "final"}]
    BY <1>0, <1>3
  <2>3. ASSUME NEW t \in Instants PROVE t \in StoredBars' <=> t \in f..end \/ t \in StoredBars
    BY <1>3, <2>3 DEF StoredBars
  <2> QED BY <2>1, <2>2, <2>3 DEF StoredBars
<1> HIDE DEF f
<1>5. \A t \in StoredBars' : t <= now
  BY <1>0, <1>2, <1>4 DEF SyncInv
<1>6. \E t \in StoredBars' : t <= WindowStart
  <2>1. CASE StoredBars = {}
    BY <1>0, <1>1, <1>4, <2>1 DEF f
  <2>2. CASE StoredBars # {}
    BY <1>4, <2>2 DEF SyncInv
  <2> QED BY <2>1, <2>2
<1>7. ASSUME NEW t \in Instants \ missed', NEW a \in StoredBars', a <= t, NEW b \in StoredBars', t < b
      PROVE  bars'[t] = "final"
  <2>1. t \in Nat /\ a \in Nat /\ b \in Nat /\ t \in Instants \ missed
    BY <1>0, <1>4
  <2>2. CASE t \in f..end /\ t # end
    BY <1>3, <2>2
  <2>3. CASE StoredBars = {}
    BY <1>2, <1>3, <1>4, <1>7, <2>1, <2>3
  <2>4. CASE StoredBars # {} /\ t = end
    <3>1. b \in StoredBars
      BY <1>2, <1>4, <1>7, <2>1, <2>4
    <3>2. PICK c \in StoredBars : c <= WindowStart
      BY <2>4 DEF SyncInv
    <3>3. c <= t
      BY <1>0, <1>1, <1>2, <1>4, <2>4, <3>2 DEF f
    <3>4. bars[t] = "final"
      BY <1>7, <2>1, <3>1, <3>3 DEF SyncInv
    <3> QED BY <1>2, <1>3, <2>4, <3>4
  <2>5. CASE StoredBars # {} /\ t \notin f..end
    <3>1. LastBar \in StoredBars /\ LastBar \in Nat /\ \A s \in StoredBars : s <= LastBar
      BY <1>0, <2>5, LastBarFact
    <3>2. f = (IF LastBar - 1 >= WindowStart THEN LastBar - 1 ELSE WindowStart) /\ t \notin LastBar..(WindowStart - 1)
      BY <1>0, <1>1, <2>5 DEF f
    <3>3. t < f
      <4> SUFFICES ASSUME t > end PROVE FALSE
        BY <1>2, <2>1, <2>5
      <4>1. b \in StoredBars /\ b <= LastBar
        BY <1>2, <1>4, <1>7, <2>1, <3>1
      <4> QED BY <1>0, <1>2, <1>7, <2>1, <3>1, <3>2, <4>1
    <3>4. t < LastBar
      BY <1>0, <2>1, <3>1, <3>2, <3>3
    <3>5. a \in StoredBars
      BY <1>2, <1>4, <1>7, <2>1, <3>3
    <3>6. bars[t] = "final"
      BY <1>7, <2>1, <3>1, <3>4, <3>5 DEF SyncInv
    <3> QED BY <1>3, <2>5, <3>6
  <2> QED BY <2>2, <2>3, <2>4, <2>5
<1>8. ASSUME NEW t \in Instants, bars[t] = "final" PROVE bars'[t] = "final"
  BY <1>3, <1>8
<1> QED BY <1>0, <1>4, <1>5, <1>6, <1>7, <1>8 DEF SyncInv

LEMMA ResampleKeeps == ASSUME SyncInv, ResampleTimeframe, now' = now PROVE SyncInv'
<1>1. UNCHANGED <<bars, missed>> /\ StoredBars' = StoredBars /\ WindowStart' = WindowStart
  BY DEF ResampleTimeframe, StoredBars, WindowStart
<1>2. ASSUME NEW k \in Instants, coarse'[k] = "final"
      PROVE  /\ {2 * k, 2 * k + 1} \subseteq Instants
             /\ bars[2 * k] = "final" /\ bars[2 * k + 1] = "final"
  <2>1. k \in Nat /\ Horizon \in Nat
    BY HorizonAssumption DEF Instants, HorizonAssumption
  <2>2. Resampled(k) = "final"
    BY <1>2 DEF ResampleTimeframe
  <2>3. /\ {bars[t] : t \in {2 * k, 2 * k + 1} \cap Instants} = {"final"} /\ 2 * k + 1 <= Horizon
    BY <2>2 DEF Resampled
  <2>4. 2 * k \in Instants /\ 2 * k + 1 \in Instants
    BY <2>1, <2>3 DEF Instants
  <2>5. bars[2 * k] \in {"final"} /\ bars[2 * k + 1] \in {"final"}
    BY <2>3, <2>4
  <2> QED BY <2>4, <2>5
<1> QED BY <1>1, <1>2 DEF SyncInv

LEMMA DataStep == ASSUME SyncInv, [DataNext]_<<syncVars, universeVars, now>> PROVE SyncInv'
<1>1. CASE SyncNext /\ UNCHANGED <<universeVars, now>>
  BY <1>1, SyncKeeps, ResampleKeeps DEF SyncNext
<1>2. CASE UNCHANGED <<syncVars, now>>
  BY <1>2 DEF syncVars, SyncInv, StoredBars, WindowStart
<1>3. CASE Tick /\ UNCHANGED <<syncVars, universeVars>>
  <2>1. now' = now + 1 /\ now \in 0..Horizon /\ now' \in 0..Horizon /\ now \in Nat
    BY <1>3, HorizonAssumption DEF Tick, SyncInv, HorizonAssumption
  <2>2. bars' = bars /\ coarse' = coarse /\ missed' = missed /\ StoredBars' = StoredBars
    BY <1>3 DEF syncVars, StoredBars
  <2>3. WindowStart \in Nat /\ WindowStart' \in Nat /\ WindowStart <= WindowStart'
    <3>1. WindowStart \in 0..now /\ WindowStart = IF now >= Lookback THEN now - Lookback ELSE 0
      BY <2>1, WindowFact
    <3>2. PICK n \in Nat : n = now'
      BY <2>1
    <3>3. WindowStart' = Max({0, n - Lookback})
      BY <3>2 DEF WindowStart
    <3>4. 0 \in Int /\ n - Lookback \in Int /\ Lookback \in Nat
      BY SyncAssumption DEF SyncAssumption
    <3>5. Max({0, n - Lookback}) = IF 0 >= n - Lookback THEN 0 ELSE n - Lookback
      BY <3>4, MaxOfTwo
    <3>6. WindowStart' = IF n >= Lookback THEN n - Lookback ELSE 0
      BY <3>3, <3>4, <3>5
    <3> QED BY <2>1, <3>1, <3>2, <3>4, <3>6
  <2>4. \A t \in StoredBars : t \in Nat
    BY DEF StoredBars, Instants
  <2>5. \A t \in StoredBars' : t <= now'
    BY <2>1, <2>2, <2>4 DEF SyncInv
  <2>6. StoredBars' # {} => \E t \in StoredBars' : t <= WindowStart'
    BY <2>2, <2>3, <2>4 DEF SyncInv
  <2> QED BY <2>1, <2>2, <2>5, <2>6 DEF SyncInv
<1> QED BY <1>1, <1>2, <1>3 DEF DataNext

LEMMA SyncAlways == DataSpec => []SyncInv
<1>1. SyncInit /\ now = 0 => SyncInv
  BY HorizonAssumption DEF SyncInit, SyncInv, StoredBars, HorizonAssumption
<1>2. SyncInv /\ [DataNext]_<<syncVars, universeVars, now>> => SyncInv'
  BY DataStep
<1> QED BY <1>1, <1>2, PTL DEF DataSpec

\* The stored history has no hole and no unfinished bar but its newest, and the coarse bars
\* are finished only when their parts are: for any look-back, however long the horizon,
\* however the syncs fall on the clock and whatever part of a batch is lost.
THEOREM HistoryAlwaysHeals == DataSpec => []HistoryHeals
<1>1. SyncInv => HistoryHeals
  <2> SUFFICES ASSUME SyncInv PROVE HistoryHeals
    OBVIOUS
  <2>1. ASSUME NEW t \in Instants \ missed, StoredBars # {}, Min(StoredBars) <= t, t < LastBar
        PROVE  bars[t] = "final"
    <3>1. LastBar \in StoredBars
      BY <2>1, LastBarFact
    <3>2. Min(StoredBars) \in StoredBars
      <4> DEFINE S == StoredBars
      <4>1. S \in SUBSET Nat /\ S # {}
        BY <2>1 DEF StoredBars, Instants
      <4> HIDE DEF S
      <4>2. \E x \in S : \A y \in S : x <= y
        BY <4>1, LeastElement
      <4>3. Min(S) \in S
        BY <4>2 DEF Min
      <4> QED BY <4>3 DEF S
    <3> QED BY <2>1, <3>1, <3>2 DEF SyncInv
  <2> QED BY <2>1 DEF HistoryHeals, SyncInv
<1> QED BY <1>1, SyncAlways, PTL

-----------------------------------------------------------------------------
(* The caches of the universe.                                             *)

\* No revision is newer than the page; the file, if there is one, is no older than what was
\* served, since a row is written only after its file; and what waits for its row is in the file.
UniverseInv ==
    /\ {page, file, writing, servedUpTo, row.revision} \subseteq Nat
    /\ row.revision = servedUpTo
    /\ servedUpTo <= page /\ file <= page
    /\ file > 0 => servedUpTo <= file
    /\ writing > 0 => writing = file

LEMMA UniverseStep ==
    ASSUME UniverseInv, UniverseNext
    PROVE  UniverseInv'
<1> USE DEF UniverseInv
<1>1. CASE PageChanges
  BY <1>1 DEF PageChanges
<1>2. CASE FetchPage
  BY <1>2 DEF FetchPage, Caches
<1>3. CASE FetchFails
  <2>1. CASE file > 0 /\ Caches(file)
    BY <2>1 DEF Caches
  <2>2. CASE file = 0 /\ row.revision > 0 /\ Caches(row.revision)
    BY <2>2 DEF Caches
  <2> QED BY <1>3, <2>1, <2>2 DEF FetchFails
<1>4. CASE WriteRow
  BY <1>4 DEF WriteRow, Larger
<1>5. CASE WriteBreaksOff
  BY <1>5 DEF WriteBreaksOff
<1>6. CASE FileLost
  BY <1>6 DEF FileLost
<1> QED BY <1>1, <1>2, <1>3, <1>4, <1>5, <1>6 DEF UniverseNext

LEMMA UniverseAlways == DataSpec => []UniverseInv
<1>1. SyncInit /\ now = 0 => UniverseInv
  BY DEF SyncInit, NoRow, UniverseInv
<1>2. UniverseInv /\ [DataNext]_<<syncVars, universeVars, now>> => UniverseInv'
  <2> SUFFICES ASSUME UniverseInv, [DataNext]_<<syncVars, universeVars, now>> PROVE UniverseInv'
    OBVIOUS
  <2>1. UNCHANGED universeVars => UniverseInv'
    BY DEF UniverseInv, universeVars
  <2> QED BY <2>1, UniverseStep DEF DataNext
<1> QED BY <1>1, <1>2, PTL DEF DataSpec

\* A universe the agent has worked with is never replaced by an older one, however many
\* revisions the page goes through: not by a fetch that fails, a row that expires, a file that
\* is lost, nor by an end of the process between the file and its row.
THEOREM UniverseNeverFallsBack == DataSpec => []UniverseNeverGoesBack
<1>1. UniverseInv => UniverseNeverGoesBack
  BY DEF UniverseInv, UniverseNeverGoesBack
<1> QED BY <1>1, UniverseAlways, PTL

\* The look-back holes and the coarse bars lie within the horizon, the caches within the page.
SyncRest ==
    /\ coarse \in [Instants -> {"none", "partial", "final"}] /\ missed \subseteq Instants
    /\ page <= Versions

LEMMA SyncRestStep ==
    ASSUME SyncInv, UniverseInv, SyncRest, [DataNext]_<<syncVars, universeVars, now>>
    PROVE  SyncRest'
<1>1. CASE SyncTimeframe /\ UNCHANGED universeVars
  <2>1. coarse' = coarse /\ page' = page
    BY <1>1 DEF SyncTimeframe, universeVars
  <2>2. missed' = IF StoredBars = {} THEN missed ELSE missed \cup (LastBar..(WindowStart - 1))
    BY <1>1 DEF SyncTimeframe
  <2>3. ASSUME StoredBars # {} PROVE LastBar..(WindowStart - 1) \subseteq Instants
    <3>1. LastBar \in Instants
      BY <2>3, LastBarFact DEF StoredBars
    <3>2. WindowStart \in Int /\ WindowStart <= Horizon
      BY SyncAssumption, HorizonAssumption, MaxOfTwo DEF WindowStart, SyncInv
    <3> QED BY <3>1, <3>2, HorizonAssumption DEF Instants
  <2> QED BY <2>1, <2>2, <2>3 DEF SyncRest
<1>2. CASE ResampleTimeframe /\ UNCHANGED universeVars
  <2>1. \A k : Resampled(k) \in {"none", "partial", "final"}
    BY DEF Resampled
  <2>2. coarse' = [k \in Instants |-> IF 2 * k > Horizon THEN "none" ELSE Resampled(k)]
        /\ missed' = missed /\ page' = page
    BY <1>2 DEF ResampleTimeframe, universeVars
  <2> QED BY <2>1, <2>2 DEF SyncRest
<1>3. CASE UniverseNext /\ UNCHANGED syncVars
  <2>1. page' = page \/ (page < Versions /\ page' = page + 1)
    BY <1>3 DEF UniverseNext, PageChanges, FetchPage, FetchFails, Caches, WriteRow, WriteBreaksOff, FileLost
  <2>2. page \in Nat /\ Versions \in Nat
    BY SyncAssumption DEF UniverseInv
  <2> QED BY <1>3, <2>1, <2>2 DEF SyncRest, syncVars
<1>4. CASE UNCHANGED <<syncVars, universeVars>>
  BY <1>4 DEF syncVars, universeVars, SyncRest
<1> QED BY <1>1, <1>2, <1>3, <1>4 DEF DataNext, SyncNext

\* Bars and caches hold what they should, for any look-back and any number of revisions.
THEOREM SyncTypeCorrect == DataSpec => []SyncTypeOK
<1>1. SyncInit /\ now = 0 => SyncRest
  BY SyncAssumption DEF SyncInit, SyncRest
<1>2. SyncInv /\ UniverseInv /\ SyncRest /\ [DataNext]_<<syncVars, universeVars, now>> => SyncRest'
  BY SyncRestStep
<1>3. SyncInv /\ UniverseInv /\ SyncRest => SyncTypeOK
  <2> SUFFICES ASSUME SyncInv, UniverseInv, SyncRest PROVE SyncTypeOK
    OBVIOUS
  <2>1. {page, file, writing, servedUpTo, row.revision} \subseteq 0..Versions
    BY SyncAssumption DEF UniverseInv, SyncRest
  <2> QED BY <2>1 DEF SyncInv, SyncRest, SyncTypeOK
<1> QED BY <1>1, <1>2, <1>3, SyncAlways, UniverseAlways, PTL DEF DataSpec

-----------------------------------------------------------------------------
(* The trade ledger.                                                       *)

TradeRow == [direction : {1, -1}, quantity : Nat, open : BOOLEAN]
OpenTrade == [row : Nat, direction : {1, -1}, remaining : Nat \ {0}]
FillRest ==
    [step : {"open", "excess", "close", "slice", "close_slice"}, direction : {1, -1}, quantity : Nat \ {0}, left : Nat \ {0}]

Toward(direction, n) == IF direction = 1 THEN n ELSE -n

\* What a row adds to the ledger's position, and the rows together.
Shown(entry) == IF entry.open THEN Toward(entry.direction, entry.quantity) ELSE 0
NetOf(table) ==
    FoldLeft(LAMBDA net, entry : IF entry.open THEN net + entry.direction * entry.quantity ELSE net, 0, table)

LEMMA ShownFact ==
    \A entry \in TradeRow : /\ Shown(entry) \in Int
                          /\ \A net \in Int :
                               (IF entry.open THEN net + entry.direction * entry.quantity ELSE net) = net + Shown(entry)
<1> SUFFICES ASSUME NEW entry \in TradeRow, NEW net \in Int
             PROVE  /\ Shown(entry) \in Int
                    /\ (IF entry.open THEN net + entry.direction * entry.quantity ELSE net) = net + Shown(entry)
  OBVIOUS
<1>1. entry.direction \in {1, -1} /\ entry.quantity \in Nat /\ entry.open \in BOOLEAN
  BY DEF TradeRow
<1>2. entry.direction * entry.quantity = Toward(entry.direction, entry.quantity) /\ Toward(entry.direction, entry.quantity) \in Int
  <2>1. CASE entry.direction = 1
    BY <1>1, <2>1 DEF Toward
  <2>2. CASE entry.direction = -1
    BY <1>1, <2>2 DEF Toward
  <2> QED BY <1>1, <2>1, <2>2
<1> QED BY <1>1, <1>2 DEF Shown

\* The running totals of the rows.
LEMMA NetTotals ==
    ASSUME NEW s \in Seq(TradeRow)
    PROVE  \E T \in [0..Len(s) -> Int] :
              /\ T[0] = 0 /\ T[Len(s)] = NetOf(s)
              /\ \A k \in 1..Len(s) : T[k] = T[k - 1] + Shown(s[k])
<1> DEFINE n == Len(s)
           w == [k \in 1..n |-> Shown(s[k])]
           More(net, entry) == IF entry.open THEN net + entry.direction * entry.quantity ELSE net
           Rec(h) == h = [t \in SUBSET DOMAIN s |->
              IF t = {} THEN 0 ELSE More(h[t \ {Max(t)}], s[Max(t)])]
<1>1. NetOf(s) = (CHOOSE h : Rec(h))[DOMAIN s]
  BY DEF NetOf, FoldLeft, MapThenFoldSet
<1>2. DOMAIN s = 1..n /\ n \in Nat /\ \A k \in 1..n : s[k] \in TradeRow
  OBVIOUS
<1>3. w \in [1..n -> Int] /\ 0 \in Int
  BY <1>2, ShownFact
<1>4. ASSUME NEW t \in SUBSET (1..n), t # {}, NEW h, h[t \ {Max(t)}] \in Int
      PROVE  More(h[t \ {Max(t)}], s[Max(t)]) = h[t \ {Max(t)}] + w[Max(t)]
  <2>1. t \in SUBSET Nat /\ \A x \in t : x <= n
    BY <1>2
  <2>2. Max(t) \in 1..n
    BY <1>2, <1>4, <2>1, MaxOfBounded
  <2>3. s[Max(t)] \in TradeRow /\ w[Max(t)] = Shown(s[Max(t)])
    BY <1>2, <2>2
  <2> HIDE DEF w
  <2> QED BY <1>4, <2>3, ShownFact
<1> HIDE DEF More
<1>5. PICK g \in [SUBSET (1..n) -> Int] : SumsThrough(g, n, w, 0)
  <2> HIDE DEF w, n
  <2> QED BY <1>2, <1>3, SumExists
<1>6. \A t \in SUBSET (1..n) : t # {} => g[t \ {Max(t)}] \in Int
  OBVIOUS
<1>7. Rec(g)
  <2>1. ASSUME NEW t \in SUBSET (1..n), t # {} PROVE g[t] = More(g[t \ {Max(t)}], s[Max(t)])
    <3>1. g[t \ {Max(t)}] \in Int
      BY <1>6, <2>1
    <3>2. g[t] = g[t \ {Max(t)}] + w[Max(t)]
      BY <1>5, <2>1, <3>1 DEF SumsThrough
    <3>3. More(g[t \ {Max(t)}], s[Max(t)]) = g[t \ {Max(t)}] + w[Max(t)]
      BY <1>4, <2>1, <3>1
    <3> QED BY <3>2, <3>3
  <2>2. g[{}] = 0
    BY <1>5 DEF SumsThrough
  <2>3. g = [t \in SUBSET (1..n) |-> g[t]]
    OBVIOUS
  <2> HIDE DEF w, n
  <2> QED BY <1>2, <2>1, <2>2, <2>3
<1> DEFINE h == CHOOSE h : Rec(h)
<1>8. Rec(h)
  <2> HIDE DEF Rec
  <2> QED BY <1>7
<1> HIDE DEF h
<1>9. SumsThrough(h, n, w, 0)
  <2>1. h[{}] = 0
    BY <1>2, <1>8
  <2>2. ASSUME NEW t \in SUBSET (1..n), t # {}, h[t \ {Max(t)}] \in Int
        PROVE  h[t] = h[t \ {Max(t)}] + w[Max(t)]
    <3>1. h[t] = More(h[t \ {Max(t)}], s[Max(t)])
      BY <1>2, <1>8, <2>2
    <3>2. More(h[t \ {Max(t)}], s[Max(t)]) = h[t \ {Max(t)}] + w[Max(t)]
      BY <1>4, <2>2
    <3> HIDE DEF Rec, w
    <3> QED BY <3>1, <3>2
  <2> HIDE DEF Rec, w, n
  <2> QED BY <2>1, <2>2 DEF SumsThrough
<1>10. PICK T : Running(T, n, w, 0) /\ T[n] = h[1..n]
  <2> HIDE DEF w, n, Rec
  <2>1. n \in Nat /\ w \in [1..n -> Int] /\ 0 \in Int
    BY <1>2, <1>3
  <2>2. \E T : Running(T, n, w, 0) /\ T[n] = h[1..n]
    BY <1>9, <2>1, SumTotals
  <2> QED BY <2>2
<1>11. NetOf(s) = T[n]
  BY <1>1, <1>2, <1>10 DEF h, More
<1> HIDE DEF Rec
<1> QED BY <1>2, <1>10, <1>11 DEF Running

LEMMA EmptyTable == NetOf(<<>>) = 0
<1>1. <<>> \in Seq(TradeRow) /\ Len(<<>>) = 0
  OBVIOUS
<1> QED BY <1>1, NetTotals

LEMMA TableFacts ==
    ASSUME NEW s \in Seq(TradeRow), NEW entry \in TradeRow
    PROVE  /\ Append(s, entry) \in Seq(TradeRow) /\ Len(s) \in Nat /\ Len(Append(s, entry)) = Len(s) + 1
           /\ DOMAIN s = 1..Len(s) /\ \A k \in 1..Len(s) : Append(s, entry)[k] = s[k] /\ s[k] \in TradeRow
           /\ Append(s, entry)[Len(s) + 1] = entry
OBVIOUS

\* A row more, and a row changed.
LEMMA NetAppend ==
    ASSUME NEW s \in Seq(TradeRow), NEW entry \in TradeRow
    PROVE  NetOf(s) \in Int /\ NetOf(Append(s, entry)) = NetOf(s) + Shown(entry)
<1> DEFINE n == Len(s)
           more == Append(s, entry)
<1>1. /\ more \in Seq(TradeRow) /\ n \in Nat /\ Len(more) = n + 1 /\ more[n + 1] = entry
      /\ \A k \in 1..n : more[k] = s[k] /\ s[k] \in TradeRow
  BY TableFacts
<1>2. PICK T \in [0..n -> Int] :
         T[0] = 0 /\ T[n] = NetOf(s) /\ \A k \in 1..n : T[k] = T[k - 1] + Shown(s[k])
  BY NetTotals
<1> HIDE DEF n, more
<1>3. PICK U \in [0..(n + 1) -> Int] :
         U[0] = 0 /\ U[n + 1] = NetOf(more) /\ \A k \in 1..(n + 1) : U[k] = U[k - 1] + Shown(more[k])
  <2>1. \E U \in [0..Len(more) -> Int] :
           U[0] = 0 /\ U[Len(more)] = NetOf(more) /\ \A k \in 1..Len(more) : U[k] = U[k - 1] + Shown(more[k])
    BY <1>1, NetTotals
  <2> QED BY <1>1, <2>1
<1>4. \A k \in 0..n : T[k] \in Int /\ U[k] \in Int
  BY <1>1
<1>5. ASSUME NEW k \in 1..n PROVE T[k] - T[k - 1] = U[k] - U[k - 1]
  <2>0. s[k] \in TradeRow /\ more[k] = s[k]
    BY <1>1
  <2>1. k - 1 \in 0..n /\ k \in 1..(n + 1) /\ Shown(s[k]) \in Int /\ more[k] = s[k]
    BY <1>1, <2>0, ShownFact
  <2>2. T[k - 1] \in Int /\ U[k - 1] \in Int
    BY <1>4, <2>1
  <2>3. T[k] = T[k - 1] + Shown(s[k]) /\ U[k] = U[k - 1] + Shown(s[k])
    BY <1>2, <1>3, <2>1
  <2> QED BY <2>1, <2>2, <2>3
<1>6. T[n] - T[0] = U[n] - U[0]
  BY <1>1, <1>4, <1>5, TotalsAgree
<1>7. T[n] \in Int /\ U[n] \in Int /\ U[n + 1] = U[n] + Shown(entry)
  BY <1>1, <1>3, <1>4
<1> QED BY <1>2, <1>3, <1>6, <1>7 DEF more

LEMMA NetChange ==
    ASSUME NEW s \in Seq(TradeRow), NEW j \in 1..Len(s), NEW more \in Seq(TradeRow), Len(more) = Len(s),
           \A k \in 1..Len(s) : k # j => more[k] = s[k]
    PROVE  NetOf(s) \in Int /\ NetOf(more) = NetOf(s) + (Shown(more[j]) - Shown(s[j]))
<1> DEFINE n == Len(s)
           entry == more[j]
           moved == Shown(entry) - Shown(s[j])
<1>1. /\ n \in Nat /\ Len(more) = n /\ more[j] = entry /\ entry \in TradeRow
      /\ \A k \in 1..n : s[k] \in TradeRow /\ (k # j => more[k] = s[k])
  OBVIOUS
<1> HIDE DEF entry
<1>2. PICK T \in [0..n -> Int] :
         T[0] = 0 /\ T[n] = NetOf(s) /\ \A k \in 1..n : T[k] = T[k - 1] + Shown(s[k])
  BY NetTotals
<1>3. PICK U \in [0..n -> Int] :
         U[0] = 0 /\ U[n] = NetOf(more) /\ \A k \in 1..n : U[k] = U[k - 1] + Shown(more[k])
  <2>1. \E U \in [0..Len(more) -> Int] :
           U[0] = 0 /\ U[Len(more)] = NetOf(more) /\ \A k \in 1..Len(more) : U[k] = U[k - 1] + Shown(more[k])
    BY <1>1, NetTotals
  <2> QED BY <1>1, <2>1
<1>4. j \in 1..n /\ moved \in Int /\ Shown(s[j]) \in Int /\ Shown(entry) \in Int
  <2>1. j \in 1..n /\ s[j] \in TradeRow
    OBVIOUS
  <2>2. Shown(s[j]) \in Int /\ Shown(entry) \in Int
    BY <1>1, <2>1, ShownFact
  <2> QED BY <2>1, <2>2
<1>5. Shown(more[j]) = Shown(s[j]) + moved
  BY <1>1, <1>4
<1> HIDE DEF n, moved
<1> DEFINE V == [k \in 0..n |-> IF k < j THEN T[k] ELSE T[k] + moved]
<1>6. \A k \in 0..n : V[k] \in Int /\ U[k] \in Int /\ T[k] \in Int
  BY <1>1, <1>4
<1>7. ASSUME NEW k \in 1..n PROVE V[k] - V[k - 1] = U[k] - U[k - 1]
  <2>0. s[k] \in TradeRow
    BY <1>1
  <2>a. Shown(s[k]) \in Int
    BY <2>0, ShownFact
  <2>b. k - 1 \in 0..n /\ k \in 0..n
    BY <1>1
  <2>1. k - 1 \in 0..n /\ k \in 0..n /\ Shown(s[k]) \in Int
    BY <2>a, <2>b
  <2>2. T[k - 1] \in Int /\ U[k - 1] \in Int /\ T[k] \in Int
    BY <1>6, <2>1
  <2>3. T[k] = T[k - 1] + Shown(s[k]) /\ U[k] = U[k - 1] + Shown(more[k])
    BY <1>2, <1>3
  <2>4. CASE k = j
    <3>1. V[k] = T[k] + moved /\ V[k - 1] = T[k - 1]
      BY <1>4, <2>1, <2>4
    <3> HIDE DEF V
    <3> QED BY <1>4, <1>5, <2>1, <2>2, <2>3, <2>4, <3>1
  <2>5. CASE k # j
    <3>1. V[k] - V[k - 1] = T[k] - T[k - 1]
      <4>1. (k < j /\ k - 1 < j) \/ (~(k < j) /\ ~(k - 1 < j))
        BY <1>4, <2>5
      <4>2. V[k] = (IF k < j THEN T[k] ELSE T[k] + moved) /\ V[k - 1] = (IF k - 1 < j THEN T[k - 1] ELSE T[k - 1] + moved)
        BY <2>1
      <4> HIDE DEF V
      <4> QED BY <1>4, <2>2, <4>1, <4>2
    <3>2. more[k] = s[k]
      BY <1>1, <2>5
    <3> HIDE DEF V
    <3> QED BY <2>1, <2>2, <2>3, <3>1, <3>2
  <2> QED BY <2>4, <2>5
<1>8. V[n] = T[n] + moved /\ V[0] = T[0] /\ T[n] \in Int /\ U[n] \in Int
  <2>1. n \in 0..n /\ 0 \in 0..n /\ ~(n < j) /\ 0 < j
    BY <1>1, <1>4
  <2> QED BY <1>6, <2>1
<1> HIDE DEF V
<1>9. V[n] - V[0] = U[n] - U[0]
  BY <1>1, <1>6, <1>7, TotalsAgree
<1>10. NetOf(more) = NetOf(s) + moved
  BY <1>2, <1>3, <1>4, <1>8, <1>9
<1> QED BY <1>2, <1>8, <1>10 DEF moved, entry

\* The lots hold n shares in all.
Stacked(lots, n) ==
    \E T \in [0..Len(lots) -> Int] :
        /\ T[0] = 0 /\ T[Len(lots)] = n
        /\ \A k \in 1..Len(lots) : T[k] = T[k - 1] + lots[k].remaining

LEMMA NothingStacked == Stacked(<<>>, 0) /\ \A n : Stacked(<<>>, n) => n = 0
<1>1. Len(<<>>) = 0 /\ 1..0 = {} /\ 0 \in 0..0
  OBVIOUS
<1>2. \A n : Stacked(<<>>, n) => n = 0
  BY <1>1 DEF Stacked
<1>3. Stacked(<<>>, 0)
  <2> DEFINE T == [k \in 0..0 |-> 0]
  <2>1. T \in [0..0 -> Int] /\ T[0] = 0
    OBVIOUS
  <2> HIDE DEF T
  <2> QED BY <1>1, <2>1 DEF Stacked
<1> QED BY <1>2, <1>3

LEMMA LotFact ==
    \A lots \in Seq(OpenTrade) :
        /\ Len(lots) \in Nat /\ DOMAIN lots = 1..Len(lots)
        /\ \A k \in 1..Len(lots) : lots[k].remaining \in Nat /\ lots[k].remaining # 0 /\ lots[k].direction \in {1, -1}
                                    /\ lots[k].row \in Nat /\ lots[k] \in OpenTrade
<1>1. \A lots \in Seq(OpenTrade) :
        Len(lots) \in Nat /\ DOMAIN lots = 1..Len(lots) /\ \A k \in 1..Len(lots) : lots[k] \in OpenTrade
  OBVIOUS
<1>2. \A lot \in OpenTrade : /\ lot.remaining \in Nat /\ lot.remaining # 0 /\ lot.direction \in {1, -1} /\ lot.row \in Nat
  BY DEF OpenTrade
<1> QED BY <1>1, <1>2

LEMMA StackedAppend ==
    ASSUME NEW lots \in Seq(OpenTrade), NEW lot \in OpenTrade, NEW n \in Int, Stacked(lots, n)
    PROVE  Stacked(Append(lots, lot), n + lot.remaining)
<1> DEFINE m == Len(lots)
           more == Append(lots, lot)
<1>1. PICK T \in [0..m -> Int] :
         T[0] = 0 /\ T[m] = n /\ \A k \in 1..m : T[k] = T[k - 1] + lots[k].remaining
  BY DEF Stacked
<1>2. /\ m \in Nat /\ Len(more) = m + 1 /\ more[m + 1] = lot
      /\ \A k \in 1..m : more[k] = lots[k] /\ lots[k].remaining \in Nat
  BY LotFact
<1>3. lot.remaining \in Nat
  BY DEF OpenTrade
<1> HIDE DEF m, more
<1> DEFINE U == [k \in 0..(m + 1) |-> IF k = m + 1 THEN n + lot.remaining ELSE T[k]]
<1>4. U \in [0..(m + 1) -> Int]
  BY <1>2, <1>3
<1>5. U[0] = 0 /\ U[m + 1] = n + lot.remaining
  BY <1>1, <1>2
<1>6. ASSUME NEW k \in 1..(m + 1) PROVE U[k] = U[k - 1] + more[k].remaining
  <2>1. k - 1 \in 0..(m + 1) /\ k \in 0..(m + 1) /\ k - 1 # m + 1
    BY <1>2
  <2>2. U[k - 1] = T[k - 1]
    BY <2>1
  <2>3. CASE k = m + 1
    <3>1. U[k] = n + lot.remaining /\ k - 1 = m
      BY <1>2, <2>1, <2>3
    <3> HIDE DEF U
    <3> QED BY <1>1, <1>2, <2>2, <2>3, <3>1
  <2>4. CASE k # m + 1
    <3>1. U[k] = T[k] /\ k \in 1..m
      BY <1>2, <2>1, <2>4
    <3> HIDE DEF U
    <3> QED BY <1>1, <1>2, <2>2, <3>1
  <2> QED BY <2>3, <2>4
<1> HIDE DEF U
<1> QED BY <1>2, <1>4, <1>5, <1>6 DEF Stacked, more

\* The first lot shrinks by c shares, or is popped with all of its own.
Shrunk(lots, fewer, c) ==
    /\ fewer \in Seq(OpenTrade) /\ fewer # <<>> /\ Len(fewer) = Len(lots)
    /\ \A i \in 1..Len(lots) :
        /\ fewer[i].row = lots[i].row /\ fewer[i].direction = lots[i].direction
        /\ fewer[i].remaining = lots[i].remaining - (IF i = 1 THEN c ELSE 0)

LEMMA StackedLess ==
    ASSUME NEW lots \in Seq(OpenTrade), lots # <<>>, NEW n \in Int, Stacked(lots, n), NEW c \in Nat,
           NEW more, Shrunk(lots, more, c)
    PROVE  Stacked(more, n - c)
<1> DEFINE m == Len(lots)
<1>1. PICK T \in [0..m -> Int] :
         T[0] = 0 /\ T[m] = n /\ \A k \in 1..m : T[k] = T[k - 1] + lots[k].remaining
  BY DEF Stacked
<1>2. m \in Nat /\ m # 0 /\ Len(more) = m /\ \A k \in 1..m : lots[k].remaining \in Nat
  BY LotFact DEF Shrunk
<1>3. ASSUME NEW k \in 1..m PROVE more[k].remaining = IF k = 1 THEN lots[k].remaining - c ELSE lots[k].remaining
  <2>1. more[k].remaining = lots[k].remaining - (IF k = 1 THEN c ELSE 0) /\ lots[k].remaining \in Nat
    BY <1>2 DEF Shrunk
  <2> QED BY <2>1
<1> HIDE DEF m
<1> DEFINE U == [k \in 0..m |-> IF k = 0 THEN 0 ELSE T[k] - c]
<1>4. U \in [0..m -> Int] /\ U[0] = 0 /\ U[m] = n - c
  BY <1>1, <1>2
<1>5. ASSUME NEW k \in 1..m PROVE U[k] = U[k - 1] + more[k].remaining
  <2>1. k - 1 \in 0..m /\ k \in 0..m /\ k # 0 /\ lots[k].remaining \in Nat
    BY <1>2
  <2>2. U[k] = T[k] - c /\ T[k] = T[k - 1] + lots[k].remaining /\ T[k - 1] \in Int
    BY <1>1, <2>1
  <2>3. CASE k = 1
    <3>1. U[k - 1] = 0 /\ T[k - 1] = 0 /\ more[k].remaining = lots[k].remaining - c
      BY <1>1, <1>3, <2>1, <2>3
    <3> HIDE DEF U
    <3> QED BY <2>1, <2>2, <3>1
  <2>4. CASE k # 1
    <3>1. U[k - 1] = T[k - 1] - c /\ more[k].remaining = lots[k].remaining
      BY <1>3, <2>1, <2>4
    <3> HIDE DEF U
    <3> QED BY <2>1, <2>2, <3>1
  <2> QED BY <2>3, <2>4
<1> HIDE DEF U
<1> QED BY <1>2, <1>4, <1>5 DEF Stacked

LEMMA StackedTail ==
    ASSUME NEW lots \in Seq(OpenTrade), lots # <<>>, NEW n \in Int, Stacked(lots, n)
    PROVE  Stacked(Tail(lots), n - lots[1].remaining)
<1> DEFINE m == Len(lots) - 1
           less == Tail(lots)
<1>1. PICK T \in [0..(m + 1) -> Int] :
         T[0] = 0 /\ T[m + 1] = n /\ \A k \in 1..(m + 1) : T[k] = T[k - 1] + lots[k].remaining
  <2>1. m + 1 = Len(lots)
    OBVIOUS
  <2> HIDE DEF m
  <2> QED BY <2>1 DEF Stacked
<1>2. m \in Nat /\ Len(less) = m /\ \A k \in 1..m : less[k] = lots[k + 1]
  OBVIOUS
<1>3. \A k \in 1..(m + 1) : lots[k].remaining \in Nat
  BY LotFact
<1> HIDE DEF m, less
<1> DEFINE c == lots[1].remaining
           U == [k \in 0..m |-> T[k + 1] - c]
<1>4. c \in Nat /\ T[1] = c
  <2>1. 1 \in 1..(m + 1) /\ 1 - 1 = 0
    BY <1>2
  <2> QED BY <1>1, <1>3, <2>1
<1> HIDE DEF c
<1>5. U \in [0..m -> Int]
  BY <1>2, <1>4
<1>6. U[0] = 0 /\ U[m] = n - c
  BY <1>1, <1>2, <1>4
<1>7. ASSUME NEW k \in 1..m PROVE U[k] = U[k - 1] + less[k].remaining
  <2>1. k - 1 \in 0..m /\ k \in 0..m /\ k + 1 \in 1..(m + 1) /\ (k - 1) + 1 = k /\ (k + 1) - 1 = k /\ k \in 0..(m + 1)
    BY <1>2
  <2>2. U[k] = T[k + 1] - c /\ U[k - 1] = T[k] - c
    BY <2>1
  <2>3. T[k + 1] = T[k] + lots[k + 1].remaining /\ lots[k + 1].remaining \in Nat /\ T[k] \in Int
    BY <1>1, <1>3, <2>1
  <2>4. less[k].remaining = lots[k + 1].remaining
    BY <1>2
  <2> HIDE DEF U
  <2> QED BY <1>4, <2>2, <2>3, <2>4
<1> HIDE DEF U
<1> QED BY <1>2, <1>5, <1>6, <1>7 DEF Stacked, c, less

\* Every lot holds a share at least.
LEMMA StackedEnough ==
    ASSUME NEW lots \in Seq(OpenTrade), NEW n, Stacked(lots, n)
    PROVE  n \in Int /\ n >= Len(lots)
<1> DEFINE m == Len(lots)
<1>1. PICK T \in [0..m -> Int] :
         T[0] = 0 /\ T[m] = n /\ \A k \in 1..m : T[k] = T[k - 1] + lots[k].remaining
  BY DEF Stacked
<1>2. m \in Nat /\ \A k \in 1..m : lots[k].remaining \in Nat /\ lots[k].remaining # 0
  BY LotFact
<1> DEFINE Low == {k \in 0..m : ~(T[k] >= k)}
<1> HIDE DEF m
<1>3. Low = {}
  <2>1. SUFFICES ASSUME Low # {} PROVE FALSE
    OBVIOUS
  <2>2. PICK k \in Low : \A j \in Low : k <= j
    <3>1. Low \in SUBSET Nat
      BY <1>2
    <3> HIDE DEF Low
    <3> QED BY <2>1, <3>1, LeastElement
  <2>3. k \in 0..m /\ ~(T[k] >= k)
    OBVIOUS
  <2>4. k # 0
    BY <1>1, <2>3
  <2>5. k - 1 \in 0..m /\ k \in 1..m /\ ~(k <= k - 1)
    BY <1>2, <2>3, <2>4
  <2>6. T[k - 1] >= k - 1 /\ T[k - 1] \in Int
    BY <2>2, <2>5
  <2>7. T[k] = T[k - 1] + lots[k].remaining /\ lots[k].remaining \in Nat /\ lots[k].remaining # 0
    BY <1>1, <1>2, <2>5
  <2> QED BY <2>3, <2>5, <2>6, <2>7
<1>4. m \in 0..m
  BY <1>2
<1>5. T[m] >= m
  BY <1>3, <1>4
<1> QED BY <1>1, <1>4, <1>5 DEF m

\* The lots are open rows of one direction, oldest first, each with what the lot has
\* left; cut is what a split has already taken from the row of the first one.
Queue(table, lots, direction, cut) ==
    /\ \A i \in 1..Len(lots) :
        /\ lots[i].direction = direction /\ lots[i].row \in 1..Len(table)
        /\ table[lots[i].row]
             = [direction |-> direction, quantity |-> lots[i].remaining - (IF i = 1 THEN cut ELSE 0), open |-> TRUE]
    /\ \A i, j \in 1..Len(lots) : i < j => lots[i].row < lots[j].row

\* The quantity of the first lot that a fill closes.
Cut(rest, lots) == Min({rest.left, lots[1].remaining})

\* Between fills.
AtRest(table, lots, held) ==
    \E direction \in {1, -1}, n \in Nat :
        Queue(table, lots, direction, 0) /\ Stacked(lots, n) /\ held = Toward(direction, n)

\* Before a lot is opened: by a fill to the same side, or by what closed all lots.
Opening(table, lots, held, rest) ==
    /\ rest.left = rest.quantity
    /\ \E n \in Nat : Queue(table, lots, rest.direction, 0) /\ Stacked(lots, n) /\ held = Toward(rest.direction, n)

Exceeding(lots, held, rest) == lots = <<>> /\ held = Toward(rest.direction, rest.left)

\* While a fill closes lots: the position moves at the end.
Consuming(table, lots, held, rest, cut) ==
    /\ lots # <<>> /\ Queue(table, lots, -rest.direction, cut)
    /\ \E n \in Nat : Stacked(lots, n) /\ held = Toward(-rest.direction, n + (rest.quantity - rest.left))

Orderly(table, lots, held, rest) ==
    /\ rest = NoFill => AtRest(table, lots, held)
    /\ rest.step = "open" => Opening(table, lots, held, rest)
    /\ rest.step = "excess" => Exceeding(lots, held, rest)
    /\ rest.step = "close" => Consuming(table, lots, held, rest, 0)
    /\ rest.step \in {"slice", "close_slice"} =>
        Consuming(table, lots, held, rest, Cut(rest, lots)) /\ Cut(rest, lots) < lots[1].remaining
    /\ rest.step = "close_slice" =>
        /\ table[Len(table)] = [direction |-> -rest.direction, quantity |-> Cut(rest, lots), open |-> TRUE]
        /\ \A i \in 1..Len(lots) : lots[i].row < Len(table)

\* What a fill has still to add to the ledger.
Due(lots, rest) ==
    IF rest = NoFill THEN 0
    ELSE Toward(rest.direction, IF rest.step = "slice" THEN rest.left - Cut(rest, lots) ELSE rest.left)

\* The position once the fill in progress is through.
Promised == position + (IF fill = NoFill \/ fill.step = "excess" THEN 0 ELSE Toward(fill.direction, fill.quantity))

LedgerTyped ==
    /\ rows \in Seq(TradeRow) /\ trades \in Seq(OpenTrade) /\ position \in Int
    /\ \A i \in 1..Len(trades) : trades[i].row \in 1..Len(rows)
    /\ fill \in FillRest \cup {NoFill}
    /\ fill \in FillRest => fill.left <= fill.quantity
    /\ fill.step \in {"slice", "close_slice"} => trades # <<>>
    /\ fill.step = "close_slice" => rows # <<>>

LedgerClean ==
    ~hurt => /\ Orderly(rows, trades, position, fill)
             /\ ~mismatch /\ ~excused => Promised = NetOf(rows) + Due(trades, fill)

LedgerInv == LedgerTyped /\ LedgerClean

LEMMA TowardFact ==
    \A direction \in {1, -1}, n \in Int :
        /\ -direction \in {1, -1} /\ direction * n = Toward(direction, n) /\ Toward(direction, n) \in Int
        /\ Toward(-direction, n) = -Toward(direction, n) /\ Toward(direction, n) \in {n, -n}
BY DEF Toward

LEMMA TowardSplits ==
    \A direction \in {1, -1}, l, c \in Nat :
        c <= l => /\ Toward(direction, l) = Toward(direction, l - c) - Toward(-direction, c)
                  /\ Toward(direction, l - c) \in Int /\ Toward(-direction, c) \in Int
<1> SUFFICES ASSUME NEW direction \in {1, -1}, NEW l \in Nat, NEW c \in Nat, c <= l
             PROVE  /\ Toward(direction, l) = Toward(direction, l - c) - Toward(-direction, c)
                    /\ Toward(direction, l - c) \in Int /\ Toward(-direction, c) \in Int
  OBVIOUS
<1>1. l \in Int /\ c \in Int /\ l - c \in Int
  OBVIOUS
<1>2. Toward(-direction, c) = -Toward(direction, c)
  BY <1>1, TowardFact
<1>3. \/ Toward(direction, l) = l /\ Toward(direction, l - c) = l - c /\ Toward(direction, c) = c
      \/ Toward(direction, l) = -l /\ Toward(direction, l - c) = -(l - c) /\ Toward(direction, c) = -c
  BY DEF Toward
<1> QED BY <1>1, <1>2, <1>3

\* The smaller of two naturals.
LEMMA LesserFact ==
    \A a, b \in Nat : Min({a, b}) \in {a, b} /\ Min({a, b}) <= a /\ Min({a, b}) <= b
<1> SUFFICES ASSUME NEW a \in Nat, NEW b \in Nat
             PROVE  Min({a, b}) \in {a, b} /\ Min({a, b}) <= a /\ Min({a, b}) <= b
  OBVIOUS
<1>1. \E x \in {a, b} : \A y \in {a, b} : x <= y
  <2>1. CASE a <= b
    BY <2>1
  <2>2. CASE b <= a
    BY <2>2
  <2> QED BY <2>1, <2>2
<1> QED BY <1>1 DEF Min

LEMMA RestFact ==
    \A rest \in FillRest : /\ rest.left \in Nat /\ rest.left # 0 /\ rest.quantity \in Nat /\ rest.quantity # 0
                           /\ rest.direction \in {1, -1} /\ rest # NoFill
                           /\ rest.step \in {"open", "excess", "close", "slice", "close_slice"}
BY DEF FillRest, NoFill

LEMMA CutFact ==
    ASSUME NEW rest \in FillRest, NEW lots \in Seq(OpenTrade), lots # <<>>
    PROVE  /\ Cut(rest, lots) \in Nat /\ Cut(rest, lots) # 0
           /\ Cut(rest, lots) <= rest.left /\ Cut(rest, lots) <= lots[1].remaining
           /\ lots[1].remaining \in Nat /\ 1 \in 1..Len(lots) /\ Head(lots) = lots[1]
<1>1. 1 \in 1..Len(lots) /\ Head(lots) = lots[1]
  OBVIOUS
<1>2. lots[1].remaining \in Nat /\ lots[1].remaining # 0
  BY <1>1, LotFact
<1>3. rest.left \in Nat /\ rest.left # 0
  BY RestFact
<1> QED BY <1>1, <1>2, <1>3, LesserFact DEF Cut

LEMMA EmptyQueue == \A table, direction, cut : Queue(table, <<>>, direction, cut)
BY DEF Queue

LEMMA EmptyRest == \A table : AtRest(table, <<>>, 0)
<1>1. Toward(1, 0) = 0 /\ 0 \in Nat /\ 1 \in {1, -1}
  BY DEF Toward
<1> QED BY <1>1, EmptyQueue, NothingStacked DEF AtRest

\* A row more, a lot of its own or not.
LEMMA QueueMore ==
    ASSUME NEW table \in Seq(TradeRow), NEW entry \in TradeRow, NEW lots \in Seq(OpenTrade), NEW direction, NEW cut,
           Queue(table, lots, direction, cut)
    PROVE  /\ Queue(Append(table, entry), lots, direction, cut)
           /\ \A i \in 1..Len(lots) : lots[i].row < Len(Append(table, entry))
<1> DEFINE more == Append(table, entry)
<1>1. Len(more) = Len(table) + 1 /\ Len(table) \in Nat /\ \A k \in 1..Len(table) : more[k] = table[k]
  BY TableFacts
<1> HIDE DEF more
<1>2. ASSUME NEW i \in 1..Len(lots)
      PROVE  lots[i].row \in 1..Len(table) /\ lots[i].row \in 1..Len(more) /\ lots[i].row < Len(more)
  <2>1. lots[i].row \in 1..Len(table)
    BY DEF Queue
  <2> QED BY <1>1, <2>1
<1>3. \A i \in 1..Len(lots) : more[lots[i].row] = table[lots[i].row]
  BY <1>1, <1>2
<1>4. Queue(more, lots, direction, cut)
  BY <1>2, <1>3 DEF Queue
<1> QED BY <1>2, <1>4 DEF more

LEMMA QueueAppend ==
    ASSUME NEW table \in Seq(TradeRow), NEW lots \in Seq(OpenTrade), NEW direction \in {1, -1}, NEW n \in Nat \ {0},
           Queue(table, lots, direction, 0),
           NEW entry, entry = [direction |-> direction, quantity |-> n, open |-> TRUE],
           NEW lot, lot = [row |-> Len(table) + 1, direction |-> direction, remaining |-> n]
    PROVE  /\ entry \in TradeRow /\ lot \in OpenTrade
           /\ Queue(Append(table, entry), Append(lots, lot), direction, 0)
<1>1. entry \in TradeRow /\ lot \in OpenTrade
  BY DEF TradeRow, OpenTrade
<1> DEFINE more == Append(table, entry)
           longer == Append(lots, lot)
           m == Len(lots)
<1>2. /\ Len(more) = Len(table) + 1 /\ Len(table) \in Nat /\ more[Len(table) + 1] = entry
      /\ m \in Nat /\ Len(longer) = m + 1 /\ longer[m + 1] = lot
      /\ \A i \in 1..m : longer[i] = lots[i]
  BY <1>1, TableFacts
<1>3. Queue(more, lots, direction, 0) /\ \A i \in 1..m : lots[i].row < Len(more)
  BY <1>1, QueueMore
<1>4. lot.row = Len(table) + 1 /\ lot.direction = direction /\ lot.remaining = n
  OBVIOUS
<1> HIDE DEF more, longer, m
<1>5. ASSUME NEW i \in 1..(m + 1)
      PROVE  /\ longer[i].direction = direction /\ longer[i].row \in 1..Len(more)
             /\ more[longer[i].row] = [direction |-> direction,
                  quantity |-> longer[i].remaining - (IF i = 1 THEN 0 ELSE 0), open |-> TRUE]
  <2>1. CASE i = m + 1
    <3>1. longer[i] = lot /\ more[longer[i].row] = entry
      BY <1>2, <1>4, <2>1
    <3>2. n - (IF i = 1 THEN 0 ELSE 0) = n
      OBVIOUS
    <3>3. Len(table) + 1 \in 1..Len(more)
      BY <1>2
    <3> QED BY <1>4, <3>1, <3>2, <3>3
  <2>2. CASE i # m + 1
    <3>1. i \in 1..m /\ longer[i] = lots[i]
      BY <1>2, <2>2
    <3> QED BY <1>3, <3>1 DEF Queue, m
  <2> QED BY <2>1, <2>2
<1>6. ASSUME NEW i \in 1..(m + 1), NEW j \in 1..(m + 1), i < j PROVE longer[i].row < longer[j].row
  <2>1. i \in 1..m /\ longer[i] = lots[i]
    BY <1>2, <1>6
  <2>2. CASE j = m + 1
    BY <1>2, <1>3, <1>4, <2>1, <2>2
  <2>3. CASE j # m + 1
    <3>1. j \in 1..m /\ longer[j] = lots[j]
      BY <1>2, <2>3
    <3> QED BY <1>3, <1>6, <2>1, <3>1 DEF Queue, m
  <2> QED BY <2>2, <2>3
<1>7. Queue(more, longer, direction, 0)
  BY <1>2, <1>5, <1>6 DEF Queue
<1> QED BY <1>1, <1>7 DEF more, longer

\* A row is closed.
LEMMA NetCloses ==
    ASSUME NEW table \in Seq(TradeRow), NEW j \in 1..Len(table), NEW direction \in {1, -1}, NEW c \in Nat,
           table[j].direction = direction, table[j].quantity = c, table[j].open,
           NEW less \in Seq(TradeRow), Len(less) = Len(table), ~less[j].open,
           \A k \in 1..Len(table) : k # j => less[k] = table[k]
    PROVE  NetOf(table) \in Int /\ NetOf(less) = NetOf(table) - Toward(direction, c)
<1>1. Shown(less[j]) = 0 /\ Shown(table[j]) = Toward(direction, c) /\ Toward(direction, c) \in Int
  BY DEF Shown, Toward
<1>2. NetOf(table) \in Int /\ NetOf(less) = NetOf(table) + (Shown(less[j]) - Shown(table[j]))
  BY NetChange
<1> QED BY <1>1, <1>2

\* The row of the first lot gives up c shares of what it shows.
LEMMA QueueSplits ==
    ASSUME NEW table \in Seq(TradeRow), NEW lots \in Seq(OpenTrade), lots # <<>>, NEW direction \in {1, -1},
           Queue(table, lots, direction, 0), NEW c \in Nat, c < lots[1].remaining,
           NEW less \in Seq(TradeRow), Len(less) = Len(table),
           less[lots[1].row] = [direction |-> direction, quantity |-> lots[1].remaining - c, open |-> TRUE],
           \A k \in 1..Len(table) : k # lots[1].row => less[k] = table[k]
    PROVE  /\ Queue(less, lots, direction, c)
           /\ NetOf(table) \in Int /\ NetOf(less) = NetOf(table) - Toward(direction, c)
<1>3. 1 \in 1..Len(lots) /\ lots[1].remaining \in Nat
  <2>1. 1 \in 1..Len(lots)
    OBVIOUS
  <2> QED BY <2>1, LotFact
<1>4. /\ lots[1].row \in 1..Len(table)
      /\ table[lots[1].row] = [direction |-> direction, quantity |-> lots[1].remaining, open |-> TRUE]
  <2>1. lots[1].remaining - (IF 1 = 1 THEN 0 ELSE 0) = lots[1].remaining
    BY <1>3
  <2> QED BY <1>3, <2>1 DEF Queue
<1>5. c <= lots[1].remaining
  BY <1>3
<1>6. NetOf(table) \in Int /\ NetOf(less) = NetOf(table) - Toward(direction, c)
  <2>1. NetOf(table) \in Int /\ NetOf(less) = NetOf(table) + (Shown(less[lots[1].row]) - Shown(table[lots[1].row]))
    BY <1>4, NetChange
  <2>2. Shown(less[lots[1].row]) = Toward(direction, lots[1].remaining - c)
    BY DEF Shown
  <2>3. Shown(table[lots[1].row]) = Toward(direction, lots[1].remaining)
    BY <1>4 DEF Shown
  <2>4. /\ Toward(direction, lots[1].remaining - c) - Toward(direction, lots[1].remaining) = -Toward(direction, c)
        /\ Toward(direction, c) \in Int
    BY <1>3 DEF Toward
  <2> QED BY <2>1, <2>2, <2>3, <2>4
<1>7. ASSUME NEW i \in 1..Len(lots)
      PROVE  /\ lots[i].direction = direction /\ lots[i].row \in 1..Len(less)
             /\ less[lots[i].row] = [direction |-> direction,
                  quantity |-> lots[i].remaining - (IF i = 1 THEN c ELSE 0), open |-> TRUE]
  <2>1. /\ lots[i].direction = direction /\ lots[i].row \in 1..Len(table)
        /\ table[lots[i].row] = [direction |-> direction,
             quantity |-> lots[i].remaining - (IF i = 1 THEN 0 ELSE 0), open |-> TRUE]
    BY DEF Queue
  <2>2. CASE i = 1
    BY <2>1, <2>2
  <2>3. CASE i # 1
    <3>1. 1 < i /\ Len(table) \in Nat
      BY <2>3, LotFact, TableFacts, <1>3
    <3>2. lots[1].row < lots[i].row
      BY <1>3, <3>1 DEF Queue
    <3>3. lots[i].row # lots[1].row
      BY <1>4, <2>1, <3>1, <3>2
    <3>4. less[lots[i].row] = table[lots[i].row]
      BY <2>1, <3>3
    <3> QED BY <2>1, <2>3, <3>4
  <2> QED BY <2>2, <2>3
<1>8. \A i, k \in 1..Len(lots) : i < k => lots[i].row < lots[k].row
  BY DEF Queue
<1>9. Queue(less, lots, direction, c)
  BY <1>7, <1>8 DEF Queue
<1> QED BY <1>6, <1>9

LEMMA FirstShrinks ==
    ASSUME NEW lots \in Seq(OpenTrade), lots # <<>>, NEW c \in Nat, c < lots[1].remaining
    PROVE  Shrunk(lots, [lots EXCEPT ![1].remaining = @ - c], c)
<1> DEFINE fewer == [lots EXCEPT ![1].remaining = @ - c]
<1>1. PICK old \in OpenTrade : old = lots[1]
  OBVIOUS
<1>2. old.remaining - c \in Nat \ {0} /\ old.remaining \in Nat
  BY <1>1 DEF OpenTrade
<1>3. PICK lot \in OpenTrade : /\ lot = [old EXCEPT !.remaining = @ - c] /\ lot.row = old.row
                               /\ lot.direction = old.direction /\ lot.remaining = old.remaining - c
  <2> DEFINE changed == [old EXCEPT !.remaining = @ - c]
  <2>1. /\ changed \in OpenTrade /\ changed.row = old.row
        /\ changed.direction = old.direction /\ changed.remaining = old.remaining - c
    BY <1>2 DEF OpenTrade
  <2> QED BY <2>1
<1>4. fewer = [lots EXCEPT ![1] = [lots[1] EXCEPT !.remaining = @ - c]]
  OBVIOUS
<1>5. fewer = [lots EXCEPT ![1] = lot]
  BY <1>1, <1>3, <1>4
<1> HIDE DEF fewer
<1>6. /\ fewer \in Seq(OpenTrade) /\ fewer # <<>> /\ Len(fewer) = Len(lots) /\ fewer[1] = lot
      /\ \A i \in 1..Len(lots) : i # 1 => fewer[i] = lots[i]
  BY <1>5
<1>7. ASSUME NEW i \in 1..Len(lots)
      PROVE  /\ fewer[i].row = lots[i].row /\ fewer[i].direction = lots[i].direction
             /\ fewer[i].remaining = lots[i].remaining - (IF i = 1 THEN c ELSE 0)
  <2>1. CASE i = 1
    BY <1>1, <1>3, <1>6, <2>1
  <2>2. CASE i # 1
    <3>1. lots[i].remaining \in Nat
      BY LotFact
    <3> QED BY <1>6, <2>2, <3>1
  <2> QED BY <2>1, <2>2
<1>8. Shrunk(lots, fewer, c)
  BY <1>6, <1>7 DEF Shrunk
<1> QED BY <1>8 DEF fewer

\* The slice of the first lot is closed, and the lot shrinks.
LEMMA QueueShrinks ==
    ASSUME NEW table \in Seq(TradeRow), NEW lots \in Seq(OpenTrade), NEW direction \in {1, -1},
           NEW c \in Nat, Queue(table, lots, direction, c),
           NEW j, \A i \in 1..Len(lots) : lots[i].row # j,
           NEW less \in Seq(TradeRow), Len(less) = Len(table), \A k \in 1..Len(table) : k # j => less[k] = table[k],
           NEW fewer, Shrunk(lots, fewer, c)
    PROVE  Queue(less, fewer, direction, 0)
<1>1. /\ fewer \in Seq(OpenTrade) /\ Len(fewer) = Len(lots)
      /\ \A i \in 1..Len(lots) : /\ fewer[i].row = lots[i].row /\ fewer[i].direction = lots[i].direction
                                   /\ fewer[i].remaining = lots[i].remaining - (IF i = 1 THEN c ELSE 0)
  BY DEF Shrunk
<1>2. \A i \in 1..Len(lots) : fewer[i].remaining - (IF i = 1 THEN 0 ELSE 0) = lots[i].remaining - (IF i = 1 THEN c ELSE 0)
  <2> SUFFICES ASSUME NEW i \in 1..Len(lots)
               PROVE  fewer[i].remaining - (IF i = 1 THEN 0 ELSE 0) = lots[i].remaining - (IF i = 1 THEN c ELSE 0)
    OBVIOUS
  <2>1. fewer[i].remaining \in Nat
    BY <1>1, LotFact
  <2>2. fewer[i].remaining = lots[i].remaining - (IF i = 1 THEN c ELSE 0)
    BY <1>1
  <2>3. \A n \in Nat : n - (IF i = 1 THEN 0 ELSE 0) = n
    OBVIOUS
  <2> QED BY <2>1, <2>2, <2>3
<1>3. ASSUME NEW i \in 1..Len(lots)
      PROVE  /\ lots[i].direction = direction /\ lots[i].row \in 1..Len(less)
             /\ less[lots[i].row] = [direction |-> direction,
                  quantity |-> lots[i].remaining - (IF i = 1 THEN c ELSE 0), open |-> TRUE]
  BY DEF Queue
<1>4. ASSUME NEW i \in 1..Len(fewer)
      PROVE  /\ fewer[i].direction = direction /\ fewer[i].row \in 1..Len(less)
             /\ less[fewer[i].row] = [direction |-> direction,
                  quantity |-> fewer[i].remaining - (IF i = 1 THEN 0 ELSE 0), open |-> TRUE]
  BY <1>1, <1>2, <1>3
<1>5. \A i, k \in 1..Len(fewer) : i < k => fewer[i].row < fewer[k].row
  BY <1>1 DEF Queue
<1> QED BY <1>4, <1>5 DEF Queue

\* The first lot is closed with its row.
LEMMA QueuePops ==
    ASSUME NEW table \in Seq(TradeRow), NEW lots \in Seq(OpenTrade), lots # <<>>, NEW direction \in {1, -1},
           Queue(table, lots, direction, 0),
           NEW less \in Seq(TradeRow), Len(less) = Len(table),
           \A k \in 1..Len(table) : k # lots[1].row => less[k] = table[k]
    PROVE  Tail(lots) \in Seq(OpenTrade) /\ Queue(less, Tail(lots), direction, 0)
<1> DEFINE fewer == Tail(lots)
           m == Len(lots) - 1
<1>1. /\ fewer \in Seq(OpenTrade) /\ m \in Nat /\ Len(fewer) = m /\ Len(lots) = m + 1
      /\ \A i \in 1..m : fewer[i] = lots[i + 1]
  OBVIOUS
<1> HIDE DEF fewer, m
<1>2. ASSUME NEW i \in 1..m
      PROVE  /\ fewer[i].direction = direction /\ fewer[i].row \in 1..Len(less)
             /\ less[fewer[i].row] = [direction |-> direction,
                  quantity |-> fewer[i].remaining - (IF i = 1 THEN 0 ELSE 0), open |-> TRUE]
  <2>1. i + 1 \in 1..Len(lots) /\ 1 \in 1..Len(lots) /\ 1 < i + 1 /\ fewer[i] = lots[i + 1]
    BY <1>1
  <2>2. /\ fewer[i].direction = direction /\ fewer[i].row \in 1..Len(table) /\ lots[1].row \in 1..Len(table)
        /\ table[fewer[i].row] = [direction |-> direction,
             quantity |-> fewer[i].remaining - (IF i + 1 = 1 THEN 0 ELSE 0), open |-> TRUE]
        /\ lots[1].row < fewer[i].row
    BY <2>1 DEF Queue
  <2>3. less[fewer[i].row] = table[fewer[i].row]
    <3>1. \A j, k \in 1..Len(table) : j < k => k # j
      OBVIOUS
    <3>2. fewer[i].row \in 1..Len(table) /\ fewer[i].row # lots[1].row
      BY <2>2, <3>1
    <3> QED BY <3>2
  <2>4. fewer[i].remaining - (IF i + 1 = 1 THEN 0 ELSE 0) = fewer[i].remaining - (IF i = 1 THEN 0 ELSE 0)
    OBVIOUS
  <2> QED BY <2>2, <2>3, <2>4
<1>3. ASSUME NEW i \in 1..m, NEW k \in 1..m, i < k PROVE fewer[i].row < fewer[k].row
  <2>1. i + 1 \in 1..Len(lots) /\ k + 1 \in 1..Len(lots) /\ i + 1 < k + 1 /\ fewer[i] = lots[i + 1] /\ fewer[k] = lots[k + 1]
    BY <1>1, <1>3
  <2> QED BY <2>1 DEF Queue
<1>4. Queue(less, fewer, direction, 0)
  BY <1>1, <1>2, <1>3 DEF Queue
<1> QED BY <1>1, <1>4 DEF fewer

LEMMA RestMoves ==
    ASSUME NEW rest \in FillRest, NEW left \in Nat, NEW step \in {"excess", "close"}
    PROVE  [rest EXCEPT !.step = step, !.left = left]
             = [step |-> step, direction |-> rest.direction, quantity |-> rest.quantity, left |-> left]
<1> DEFINE a == [rest EXCEPT !.step = step, !.left = left]
<1>1. a.direction = rest.direction /\ a.quantity = rest.quantity /\ a.step = step /\ a.left = left
  BY DEF FillRest
<1>2. a \in [step : {"excess", "close"}, direction : {1, -1}, quantity : Nat, left : Nat]
  BY DEF FillRest
<1> HIDE DEF a
<1>3. a = [step |-> a.step, direction |-> a.direction, quantity |-> a.quantity, left |-> a.left]
  BY <1>2
<1> QED BY <1>1, <1>3 DEF a

\* What is left of a fill after a closing, and the position then held: more lots to
\* close, the excess to open, or nothing.
RestOf(rest, step, left) == [step |-> step, direction |-> rest.direction, quantity |-> rest.quantity, left |-> left]

GoesOn(rest, lots, held, left, heldNext, restNext) ==
    \/ left > 0 /\ lots # <<>> /\ restNext = RestOf(rest, "close", left) /\ heldNext = held
    \/ /\ left > 0 /\ lots = <<>> /\ restNext = RestOf(rest, "excess", left)
       /\ heldNext = held + rest.direction * rest.quantity
    \/ left = 0 /\ restNext = NoFill /\ heldNext = held + rest.direction * rest.quantity

LEMMA AfterGoesOn ==
    ASSUME fill \in FillRest, NEW left \in Nat, NEW lots, AfterClosing(left, lots)
    PROVE  GoesOn(fill, lots, position, left, position', fill')
<1>1. /\ [fill EXCEPT !.step = "close", !.left = left] = RestOf(fill, "close", left)
      /\ [fill EXCEPT !.step = "excess", !.left = left] = RestOf(fill, "excess", left)
  BY RestMoves DEF RestOf
<1>2. CASE left > 0 /\ lots # <<>>
  BY <1>1, <1>2 DEF AfterClosing, GoesOn
<1>3. CASE left > 0 /\ lots = <<>>
  BY <1>1, <1>3 DEF AfterClosing, GoesOn
<1>4. CASE left = 0
  BY <1>4 DEF AfterClosing, GoesOn
<1> QED BY <1>2, <1>3, <1>4

LEMMA GoesOnTyped ==
    ASSUME NEW rest \in FillRest, NEW held \in Int, NEW left \in Nat, left <= rest.quantity, NEW lots,
           NEW heldNext, NEW restNext, GoesOn(rest, lots, held, left, heldNext, restNext)
    PROVE  /\ heldNext \in Int /\ restNext \in FillRest \cup {NoFill}
           /\ restNext \in FillRest => restNext.left <= restNext.quantity
           /\ restNext.step \notin {"slice", "close_slice"}
<1> DEFINE d == rest.direction
           q == rest.quantity
<1>1. d \in {1, -1} /\ q \in Nat /\ q # 0 /\ d * q = Toward(d, q) /\ Toward(d, q) \in Int
  BY RestFact, TowardFact
<1>2. heldNext \in Int
  <2>1. heldNext = held \/ heldNext = held + Toward(d, q)
    BY <1>1 DEF GoesOn
  <2> HIDE DEF d, q
  <2> QED BY <1>1, <2>1
<1>3. NoFill.step = "none" /\ NoFill \notin FillRest
  BY RestFact DEF NoFill
<1>4. CASE restNext = NoFill
  BY <1>2, <1>3, <1>4
<1>5. CASE left > 0 /\ \E step \in {"excess", "close"} : restNext = RestOf(rest, step, left)
  <2>1. PICK step \in {"excess", "close"} : restNext = [step |-> step, direction |-> d, quantity |-> q, left |-> left]
    BY <1>5 DEF RestOf
  <2>2. restNext \in FillRest
    BY <1>1, <1>5, <2>1 DEF FillRest
  <2> QED BY <1>2, <2>1, <2>2
<1> QED BY <1>4, <1>5 DEF GoesOn

\* Lots of n shares are left, and the position has not moved yet.
Closed(table, lots, rest, held, left, n) ==
    /\ Queue(table, lots, -rest.direction, 0) /\ Stacked(lots, n)
    /\ held = Toward(-rest.direction, n + (rest.quantity - left))

\* What follows a closing keeps the books in order.
LEMMA ClosingGoesOn ==
    ASSUME NEW table, NEW lots \in Seq(OpenTrade), NEW rest \in FillRest, NEW held, NEW m \in Int, NEW left \in Nat,
           left < rest.quantity, Closed(table, lots, rest, held, left, m),
           NEW heldNext, NEW restNext, GoesOn(rest, lots, held, left, heldNext, restNext)
    PROVE  Orderly(table, lots, heldNext, restNext) /\ Due(lots, restNext) = Toward(rest.direction, left)
<1> DEFINE d == rest.direction
           q == rest.quantity
<1>1. d \in {1, -1} /\ -d \in {1, -1} /\ q \in Nat /\ q # 0 /\ d * q = Toward(d, q)
  BY RestFact, TowardFact
<1>2. m \in Nat /\ m >= Len(lots)
  <2>1. m >= Len(lots) /\ Len(lots) \in Nat
    BY StackedEnough, LotFact DEF Closed
  <2> QED BY <2>1
<1>3. /\ RestOf(rest, "close", left) = [step |-> "close", direction |-> d, quantity |-> q, left |-> left]
      /\ RestOf(rest, "excess", left) = [step |-> "excess", direction |-> d, quantity |-> q, left |-> left]
  BY DEF RestOf
<1>4. NoFill.step = "none" /\ NoFill \notin FillRest
  BY RestFact DEF NoFill
<1>5. held = Toward(-d, m + (q - left)) /\ Queue(table, lots, -d, 0) /\ Stacked(lots, m)
  BY DEF Closed
<1> HIDE DEF d, q
<1>6. held \in Int /\ Toward(d, left) \in Int
  BY <1>1, <1>2, <1>5 DEF Toward
<1>7. CASE left > 0 /\ lots # <<>>
  <2>1. restNext = [step |-> "close", direction |-> d, quantity |-> q, left |-> left] /\ heldNext = held
    BY <1>3, <1>7 DEF GoesOn
  <2>2. restNext \in FillRest /\ restNext # NoFill /\ restNext.step = "close" /\ restNext.left <= restNext.quantity
    BY <1>1, <1>4, <1>7, <2>1 DEF FillRest, q
  <2>3. Consuming(table, lots, heldNext, restNext, 0)
    BY <1>2, <1>5, <1>7, <2>1 DEF Consuming, d
  <2>4. Orderly(table, lots, heldNext, restNext)
    BY <2>2, <2>3 DEF Orderly
  <2>5. Due(lots, restNext) = Toward(d, left)
    BY <2>1, <2>2 DEF Due
  <2> QED BY <1>6, <2>1, <2>2, <2>4, <2>5 DEF d
<1>8. CASE left > 0 /\ lots = <<>>
  <2>1. restNext = [step |-> "excess", direction |-> d, quantity |-> q, left |-> left] /\ heldNext = held + Toward(d, q)
    BY <1>1, <1>3, <1>8 DEF GoesOn, d, q
  <2>2. restNext \in FillRest /\ restNext # NoFill /\ restNext.step = "excess" /\ restNext.left <= restNext.quantity
    BY <1>1, <1>4, <1>8, <2>1 DEF FillRest, q
  <2>3. m = 0
    BY <1>5, <1>8, NothingStacked
  <2>4. heldNext = Toward(d, left)
    BY <1>1, <1>5, <2>1, <2>3 DEF Toward
  <2>6. Exceeding(lots, heldNext, restNext)
    BY <1>8, <2>1, <2>4 DEF Exceeding
  <2>7. Orderly(table, lots, heldNext, restNext)
    BY <2>2, <2>6 DEF Orderly
  <2>8. Due(lots, restNext) = Toward(d, left)
    BY <2>1, <2>2 DEF Due
  <2> QED BY <1>6, <2>2, <2>4, <2>7, <2>8 DEF d
<1>9. CASE ~(left > 0)
  <2>0. left = 0
    BY <1>9
  <2>1. restNext = NoFill /\ heldNext = held + Toward(d, q)
    BY <1>1, <1>9 DEF GoesOn, d, q
  <2>2. heldNext = Toward(-d, m) /\ heldNext \in Int
    BY <1>1, <1>2, <1>5, <2>0, <2>1 DEF Toward
  <2>3. AtRest(table, lots, heldNext)
    BY <1>1, <1>2, <1>5, <2>2 DEF AtRest, d
  <2>4. Orderly(table, lots, heldNext, restNext)
    BY <1>4, <2>1, <2>3 DEF Orderly
  <2>5. Due(lots, restNext) = 0 /\ Toward(d, left) = 0
    <3>1. Toward(d, left) = 0
      <4>1. \A n \in Nat : n <= 0 => -n >= 0 /\ -n <= 0 /\ -n \in Int
        OBVIOUS
      <4>2. Toward(d, left) = left \/ Toward(d, left) = -left
        BY DEF Toward
      <4> QED BY <1>6, <2>0, <4>1, <4>2
    <3> QED BY <2>1, <3>1 DEF Due
  <2> QED BY <1>4, <2>1, <2>2, <2>4, <2>5 DEF d
<1> QED BY <1>7, <1>8, <1>9

\* What a closing promises, the steps after it keep.
LEMMA PromiseGoesOn ==
    ASSUME fill \in FillRest, fill.step \in {"close", "slice", "close_slice"}, position \in Int, NEW left, NEW lots,
           GoesOn(fill, lots, position, left, position', fill')
    PROVE  Promised' = Promised
<1> DEFINE d == fill.direction
           q == fill.quantity
<1>1. d \in {1, -1} /\ d * q = Toward(d, q) /\ Toward(d, q) \in Int /\ fill # NoFill
  BY RestFact, TowardFact
<1>2. Promised = position + Toward(d, q)
  BY <1>1 DEF Promised
<1>3. CASE fill' = RestOf(fill, "close", left) /\ position' = position
  <2>1. fill'.step = "close" /\ fill'.direction = d /\ fill'.quantity = q
    BY <1>3 DEF RestOf
  <2>2. fill' # NoFill
    BY <2>1 DEF NoFill
  <2> QED BY <1>2, <1>3, <2>1, <2>2 DEF Promised
<1>4. CASE fill' = RestOf(fill, "excess", left) \/ fill' = NoFill
  <2>1. fill'.step = "excess" \/ fill' = NoFill
    BY <1>4 DEF RestOf
  <2>2. CASE position' = position + d * q
    <3>1. Promised' = position' + 0
      BY <2>1 DEF Promised
    <3>2. Promised' = position + Toward(d, q)
      BY <1>1, <2>2, <3>1
    <3> QED BY <1>2, <3>2
  <2>3. CASE position' = position /\ fill' = RestOf(fill, "close", left)
    BY <1>3, <2>3
  <2> QED BY <2>2, <2>3 DEF GoesOn
<1> QED BY <1>3, <1>4 DEF GoesOn

LEMMA LedgerStart == LedgerInit => LedgerInv
<1> SUFFICES ASSUME LedgerInit PROVE LedgerInv
  OBVIOUS
<1>1. rows = <<>> /\ position = 0 /\ trades = <<>> /\ fill = NoFill
  BY DEF LedgerInit
<1>2. NoFill.step = "none" /\ NoFill \notin FillRest
  BY RestFact DEF NoFill
<1>3. LedgerTyped
  BY <1>1, <1>2 DEF LedgerTyped
<1>4. Orderly(rows, trades, position, fill)
  BY <1>1, <1>2, EmptyRest DEF Orderly
<1>5. Promised = NetOf(rows) + Due(trades, fill)
  BY <1>1, EmptyTable DEF Due, Promised
<1> QED BY <1>3, <1>4, <1>5 DEF LedgerInv, LedgerClean

LEMMA NoneFact == NoFill.step = "none" /\ NoFill \notin FillRest
BY RestFact DEF NoFill

LEMMA ArriveKeeps ==
    ASSUME LedgerInv, NEW d \in {1, -1}, NEW q \in Lots, FillArrives(d, q)
    PROVE  LedgerInv'
<1>1. q \in Nat /\ q # 0 /\ d * q = Toward(d, q) /\ Toward(d, q) \in Int
  BY LedgerAssumption, TowardFact DEF LedgerAssumption
<1>2. /\ rows' = rows /\ trades' = trades /\ position' = position
      /\ mismatch' = mismatch /\ excused' = excused /\ hurt' = hurt /\ fill = NoFill
  BY <1>1 DEF FillArrives, LedgerIdle
<1>3. PICK step \in {"open", "close"} :
        /\ fill' = [step |-> step, direction |-> d, quantity |-> q, left |-> q]
        /\ step = IF d * position >= 0 THEN "open" ELSE "close"
  BY DEF FillArrives
<1>4. fill' \in FillRest /\ fill' # NoFill /\ fill'.step = step /\ fill'.left = q /\ fill'.quantity = q /\ fill'.direction = d
  <2>1. fill' \in FillRest
    BY <1>1, <1>3 DEF FillRest
  <2> QED BY <1>3, <2>1, NoneFact
<1>5. LedgerTyped'
  BY <1>1, <1>2, <1>3, <1>4 DEF LedgerInv, LedgerTyped
<1>6. ASSUME ~hurt PROVE Orderly(rows, trades, position, fill)'
  <2>1. PICK e \in {1, -1}, n \in Nat : Queue(rows, trades, e, 0) /\ Stacked(trades, n) /\ position = Toward(e, n)
    BY <1>2, <1>6 DEF LedgerInv, LedgerClean, Orderly, AtRest
  <2>2. n >= Len(trades) /\ Len(trades) \in Nat /\ trades \in Seq(OpenTrade)
    BY StackedEnough, LotFact, <2>1 DEF LedgerInv, LedgerTyped
  <2>3. CASE step = "open"
    <3>1. Opening(rows, trades, position, fill')
      <4>1. CASE e = d
        BY <1>4, <2>1, <4>1 DEF Opening
      <4>2. CASE e # d
        <5>1. n = 0 /\ Toward(d, 0) = position
          BY <1>3, <2>1, <2>3, <4>2 DEF Toward
        <5>2. trades = <<>>
          BY <2>2, <5>1
        <5>3. Queue(rows, trades, d, 0) /\ Stacked(trades, 0) /\ 0 \in Nat
          BY <5>2, EmptyQueue, NothingStacked
        <5> QED BY <1>4, <5>1, <5>3 DEF Opening
      <4> QED BY <4>1, <4>2
    <3> QED BY <1>2, <1>4, <2>3, <3>1 DEF Orderly
  <2>4. CASE step = "close"
    <3>1. e = -d /\ n # 0
      BY <1>3, <2>1, <2>4 DEF Toward
    <3>2. trades # <<>>
      BY <2>1, <3>1, NothingStacked
    <3>3. n + (q - q) = n
      BY <1>1
    <3>4. Consuming(rows, trades, position, fill', 0)
      BY <1>4, <2>1, <3>1, <3>2, <3>3 DEF Consuming
    <3> QED BY <1>2, <1>4, <2>4, <3>4 DEF Orderly
  <2> QED BY <2>3, <2>4
<1>10. Promised' = position + Toward(d, q) /\ Promised = position
  <2>1. position \in Int
    BY DEF LedgerInv, LedgerTyped
  <2>2. Promised' = position + Toward(d, q)
    BY <1>2, <1>3, <1>4 DEF Promised
  <2> QED BY <1>2, <2>1, <2>2 DEF Promised
<1>7. Due(trades, fill)' = Toward(d, q) /\ Due(trades, fill) = 0
  <2>1. fill'.step # "slice"
    BY <1>4
  <2> QED BY <1>2, <1>4, <2>1 DEF Due
<1>8. NetOf(rows) \in Int
  BY NetTotals DEF LedgerInv, LedgerTyped
<1>9. ASSUME ~hurt', ~mismatch', ~excused' PROVE (Promised = NetOf(rows) + Due(trades, fill))'
  <2>1. Promised = NetOf(rows) + 0
    BY <1>2, <1>7, <1>9 DEF LedgerInv, LedgerClean
  <2> QED BY <1>1, <1>2, <1>7, <1>8, <1>10, <2>1
<1> QED BY <1>2, <1>5, <1>6, <1>9 DEF LedgerInv, LedgerClean

LEMMA OpenKeeps == ASSUME LedgerInv, OpenLot PROVE LedgerInv'
<1>1. fill \in FillRest /\ fill # NoFill /\ fill.step \in {"open", "excess"}
  BY NoneFact DEF LedgerInv, LedgerTyped, OpenLot
<1> DEFINE d == fill.direction
           l == fill.left
           entry == [direction |-> d, quantity |-> l, open |-> TRUE]
           lot == [row |-> Len(rows) + 1, direction |-> d, remaining |-> l]
<1>2. /\ d \in {1, -1} /\ l \in Nat \ {0} /\ fill.quantity \in Nat /\ fill.quantity # 0
      /\ rows \in Seq(TradeRow) /\ trades \in Seq(OpenTrade) /\ position \in Int /\ Len(rows) \in Nat
  BY <1>1, RestFact, TableFacts DEF LedgerInv, LedgerTyped
<1>3. /\ rows' = Append(rows, entry) /\ trades' = Append(trades, lot) /\ fill' = NoFill
      /\ mismatch' = mismatch /\ excused' = excused /\ hurt' = hurt
      /\ position' = IF fill.step = "open" THEN position + d * fill.quantity ELSE position
  BY DEF OpenLot
<1>4. entry \in TradeRow /\ lot \in OpenTrade /\ lot.row = Len(rows) + 1 /\ lot.remaining = l
  BY <1>2 DEF TradeRow, OpenTrade
<1>5. d * fill.quantity = Toward(d, fill.quantity) /\ Toward(d, fill.quantity) \in Int /\ Toward(d, l) \in Int
  BY <1>2, TowardFact
<1>6. Shown(entry) = Toward(d, l)
  BY DEF Shown
<1> HIDE DEF entry, lot
<1>7. /\ rows' \in Seq(TradeRow) /\ trades' \in Seq(OpenTrade) /\ Len(rows') = Len(rows) + 1
      /\ Len(trades') = Len(trades) + 1 /\ Len(trades) \in Nat /\ trades'[Len(trades) + 1] = lot
      /\ \A i \in 1..Len(trades) : trades'[i] = trades[i]
  BY <1>2, <1>3, <1>4, TableFacts
<1>8. LedgerTyped'
  <2>1. ASSUME NEW i \in 1..Len(trades') PROVE trades'[i].row \in 1..Len(rows')
    <3>1. CASE i = Len(trades) + 1
      BY <1>2, <1>4, <1>7, <3>1
    <3>2. CASE i # Len(trades) + 1
      <4>1. i \in 1..Len(trades)
        BY <1>7, <3>2
      <4>2. trades[i].row \in 1..Len(rows)
        BY <4>1 DEF LedgerInv, LedgerTyped
      <4> QED BY <1>2, <1>7, <4>1, <4>2
    <3> QED BY <3>1, <3>2
  <2>2. position' \in Int
    BY <1>2, <1>3, <1>5
  <2> QED BY <1>2, <1>3, <1>7, <2>1, <2>2, NoneFact DEF LedgerTyped
<1>9. ASSUME ~hurt PROVE AtRest(rows', trades', position')
  <2>1. Orderly(rows, trades, position, fill)
    BY <1>9 DEF LedgerInv, LedgerClean
  <2>2. CASE fill.step = "open"
    <3>1. PICK n \in Nat : Queue(rows, trades, d, 0) /\ Stacked(trades, n) /\ position = Toward(d, n)
      BY <2>1, <2>2 DEF Orderly, Opening
    <3>2. l = fill.quantity
      BY <2>1, <2>2 DEF Orderly, Opening
    <3>3. position' = Toward(d, n + l)
      BY <1>2, <1>3, <1>5, <2>2, <3>1, <3>2 DEF Toward
    <3>4. Queue(rows', trades', d, 0)
      BY <1>2, <1>3, <3>1, QueueAppend DEF entry, lot
    <3>5. Stacked(trades', n + l)
      BY <1>2, <1>3, <1>4, <3>1, StackedAppend
    <3>6. n + l \in Nat
      BY <1>2
    <3> QED BY <1>2, <3>3, <3>4, <3>5, <3>6 DEF AtRest
  <2>3. CASE fill.step = "excess"
    <3>1. trades = <<>> /\ position = Toward(d, l)
      BY <2>1, <2>3 DEF Orderly, Exceeding
    <3>2. Queue(rows, trades, d, 0) /\ Stacked(trades, 0)
      BY <3>1, EmptyQueue, NothingStacked
    <3>3. Queue(rows', trades', d, 0)
      BY <1>2, <1>3, <3>2, QueueAppend DEF entry, lot
    <3>4. Stacked(trades', 0 + lot.remaining)
      <4>1. 0 \in Int
        OBVIOUS
      <4> QED BY <1>2, <1>3, <1>4, <3>2, <4>1, StackedAppend
    <3>5. Stacked(trades', l)
      <4>1. 0 + l = l
        BY <1>2
      <4> QED BY <1>4, <3>4, <4>1
    <3>6. position' = Toward(d, l)
      BY <1>3, <2>3, <3>1
    <3> QED BY <1>2, <3>3, <3>5, <3>6 DEF AtRest
  <2> QED BY <1>1, <2>2, <2>3
<1>10. Orderly(rows, trades, position, fill)' <=> AtRest(rows', trades', position')
  BY <1>3, NoneFact DEF Orderly
<1>11. Due(trades, fill)' = 0 /\ Due(trades, fill) = Toward(d, l)
  BY <1>1, <1>3 DEF Due
<1>12. NetOf(rows) \in Int /\ NetOf(rows') = NetOf(rows) + Toward(d, l)
  BY <1>2, <1>3, <1>4, <1>6, NetAppend
<1>14. Promised' = Promised
  <2>1. Promised' = position'
    BY <1>2, <1>3, <1>5 DEF Promised
  <2>2. CASE fill.step = "open"
    BY <1>1, <1>3, <1>5, <2>1, <2>2 DEF Promised
  <2>3. CASE fill.step = "excess"
    <3>1. Promised = position + 0 /\ position' = position
      BY <1>3, <2>3 DEF Promised
    <3> QED BY <1>2, <2>1, <3>1
  <2> QED BY <1>1, <2>2, <2>3
<1>13. ASSUME ~hurt', ~mismatch', ~excused' PROVE (Promised = NetOf(rows) + Due(trades, fill))'
  <2>1. Promised = NetOf(rows) + Toward(d, l)
    BY <1>3, <1>11, <1>13 DEF LedgerInv, LedgerClean
  <2> QED BY <1>3, <1>5, <1>11, <1>12, <1>14, <2>1
<1> QED BY <1>3, <1>8, <1>9, <1>10, <1>13 DEF LedgerInv, LedgerClean

\* The state while a fill closes lots.
LEMMA ClosingFact ==
    ASSUME LedgerInv, fill.step \in {"close", "slice", "close_slice"}, trades # <<>>
    PROVE  /\ fill \in FillRest /\ fill # NoFill /\ fill.direction \in {1, -1} /\ -fill.direction \in {1, -1}
           /\ fill.left \in Nat /\ fill.left # 0 /\ fill.quantity \in Nat /\ fill.left <= fill.quantity
           /\ rows \in Seq(TradeRow) /\ trades \in Seq(OpenTrade) /\ position \in Int
           /\ ClosingQuantity = Cut(fill, trades) /\ Head(trades) = trades[1]
           /\ Cut(fill, trades) \in Nat /\ Cut(fill, trades) # 0 /\ Cut(fill, trades) <= fill.left
           /\ Cut(fill, trades) <= trades[1].remaining /\ trades[1].remaining \in Nat
           /\ trades[1].row \in 1..Len(rows) /\ 1 \in 1..Len(trades) /\ trades[1].direction \in {1, -1}
           /\ NetOf(rows) \in Int
<1>1. fill \in FillRest /\ fill # NoFill
  BY NoneFact DEF LedgerInv, LedgerTyped
<1>2. rows \in Seq(TradeRow) /\ trades \in Seq(OpenTrade) /\ position \in Int /\ fill.left <= fill.quantity
  BY <1>1 DEF LedgerInv, LedgerTyped
<1>3. /\ Cut(fill, trades) \in Nat /\ Cut(fill, trades) # 0
      /\ Cut(fill, trades) <= fill.left /\ Cut(fill, trades) <= trades[1].remaining
      /\ trades[1].remaining \in Nat /\ 1 \in 1..Len(trades) /\ Head(trades) = trades[1]
  BY <1>1, <1>2, CutFact
<1>4. ClosingQuantity = Cut(fill, trades)
  BY <1>3 DEF ClosingQuantity, Cut
<1>5. trades[1].row \in 1..Len(rows)
  BY <1>3 DEF LedgerInv, LedgerTyped
<1>6. trades[1].direction \in {1, -1}
  BY <1>2, <1>3, LotFact
<1>7. NetOf(rows) \in Int
  BY <1>2, NetTotals
<1>8. /\ fill.direction \in {1, -1} /\ -fill.direction \in {1, -1}
      /\ fill.left \in Nat /\ fill.left # 0 /\ fill.quantity \in Nat
  <2>1. fill.direction \in {1, -1} /\ fill.left \in Nat /\ fill.left # 0 /\ fill.quantity \in Nat
    BY <1>1, RestFact
  <2>2. 0 \in Int
    OBVIOUS
  <2> QED BY <2>1, <2>2, TowardFact
<1> QED BY <1>1, <1>2, <1>3, <1>4, <1>5, <1>6, <1>7, <1>8

LEMMA StepMoves ==
    ASSUME NEW rest \in FillRest, NEW step \in {"slice", "close_slice"}
    PROVE  [rest EXCEPT !.step = step]
             = [step |-> step, direction |-> rest.direction, quantity |-> rest.quantity, left |-> rest.left]
<1> DEFINE a == [rest EXCEPT !.step = step]
<1>1. a.direction = rest.direction /\ a.quantity = rest.quantity /\ a.step = step /\ a.left = rest.left
  BY DEF FillRest
<1>2. a \in FillRest
  BY DEF FillRest
<1> HIDE DEF a
<1>3. a = [step |-> a.step, direction |-> a.direction, quantity |-> a.quantity, left |-> a.left]
  BY <1>2 DEF FillRest
<1> QED BY <1>1, <1>3 DEF a

LEMMA ShrinkKeeps == ASSUME LedgerInv, SplitShrinks PROVE LedgerInv'
<1> DEFINE c == Cut(fill, trades)
           j == trades[1].row
           d == fill.direction
<1>1. /\ fill \in FillRest /\ fill # NoFill /\ d \in {1, -1} /\ -d \in {1, -1} /\ fill.step = "close"
      /\ fill.left \in Nat /\ fill.left # 0 /\ fill.quantity \in Nat /\ fill.left <= fill.quantity
      /\ rows \in Seq(TradeRow) /\ trades \in Seq(OpenTrade) /\ position \in Int
      /\ ClosingQuantity = c /\ Head(trades) = trades[1] /\ trades # <<>>
      /\ c \in Nat /\ c # 0 /\ c <= fill.left /\ trades[1].remaining \in Nat /\ j \in 1..Len(rows)
      /\ NetOf(rows) \in Int
  BY ClosingFact DEF SplitShrinks
<1>2. c < trades[1].remaining /\ c < rows[j].quantity
  BY <1>1 DEF SplitShrinks
<1>3. /\ trades' = trades /\ position' = position
      /\ mismatch' = mismatch /\ excused' = excused /\ hurt' = hurt
      /\ fill' = [fill EXCEPT !.step = "slice"]
      /\ rows' = [rows EXCEPT ![j].quantity = @ - c]
  BY <1>1 DEF SplitShrinks
<1>4. fill' = [step |-> "slice", direction |-> d, quantity |-> fill.quantity, left |-> fill.left]
  BY <1>1, <1>3, StepMoves
<1>5. fill' \in FillRest /\ fill' # NoFill
  <2>1. fill' \in FillRest
    BY <1>1, <1>4 DEF FillRest
  <2> QED BY <2>1, NoneFact
<1>16. Promised' = Promised
  <2>1. fill'.step \in {"slice", "close_slice"} /\ fill'.direction = d /\ fill'.quantity = fill.quantity
    BY <1>4
  <2> QED BY <1>1, <1>3, <1>5, <2>1 DEF Promised
<1>6. Cut(fill', trades') = c
  BY <1>3, <1>4 DEF Cut
<1> HIDE DEF c, j, d
<1>7. PICK r \in TradeRow : r = rows[j]
  BY <1>1
<1> DEFINE entry == [r EXCEPT !.quantity = @ - c]
<1>8. r.quantity - c \in Nat
  BY <1>1, <1>2, <1>7 DEF TradeRow
<1>9. entry \in TradeRow /\ entry.direction = r.direction /\ entry.quantity = r.quantity - c /\ entry.open = r.open
  BY <1>8 DEF TradeRow
<1>10. rows' = [rows EXCEPT ![j] = entry]
  <2>1. [rows EXCEPT ![j].quantity = @ - c] = [rows EXCEPT ![j] = [rows[j] EXCEPT !.quantity = @ - c]]
    BY <1>1
  <2> QED BY <1>3, <1>7, <2>1
<1> HIDE DEF entry
<1>11. rows' \in Seq(TradeRow) /\ Len(rows') = Len(rows)
  BY <1>1, <1>9, <1>10
<1>12. LedgerTyped'
  <2>1. \A i \in 1..Len(trades') : trades'[i].row \in 1..Len(rows')
    BY <1>3, <1>11 DEF LedgerInv, LedgerTyped
  <2> QED BY <1>1, <1>3, <1>4, <1>5, <1>11, <2>1 DEF LedgerTyped
<1>13. ASSUME ~hurt
       PROVE  Orderly(rows', trades', position', fill') /\ NetOf(rows') = NetOf(rows) - Toward(-d, c)
  <2>1. Consuming(rows, trades, position, fill, 0)
    BY <1>1, <1>13 DEF LedgerInv, LedgerClean, Orderly
  <2>2. Queue(rows, trades, -d, 0)
    BY <2>1 DEF Consuming, d
  <2>3. r = [direction |-> -d, quantity |-> trades[1].remaining, open |-> TRUE]
    <3>1. trades[1].remaining - (IF 1 = 1 THEN 0 ELSE 0) = trades[1].remaining /\ 1 \in 1..Len(trades)
      BY <1>1
    <3> QED BY <1>7, <2>2, <3>1 DEF Queue, j
  <2>4. entry.direction = -d /\ entry.quantity = trades[1].remaining - c /\ entry.open
    <3>1. r.direction = -d /\ r.quantity = trades[1].remaining /\ r.open = TRUE
      BY <2>3
    <3> QED BY <1>9, <3>1
  <2>5. Queue(rows', trades, -d, c) /\ NetOf(rows') = NetOf(rows) - Toward(-d, c)
    <3>1. \A k \in 1..Len(rows) : k # trades[1].row => rows'[k] = rows[k]
      BY <1>1, <1>10 DEF j
    <3>2. rows'[trades[1].row] = [direction |-> -d, quantity |-> trades[1].remaining - c, open |-> TRUE]
      <4>1. rows'[trades[1].row] = entry
        BY <1>1, <1>9, <1>10 DEF j
      <4>2. entry = [direction |-> entry.direction, quantity |-> entry.quantity, open |-> entry.open] /\ entry.open = TRUE
        BY <1>9, <2>4 DEF TradeRow
      <4> QED BY <2>4, <4>1, <4>2
    <3> QED BY <1>1, <1>2, <1>11, <2>2, <3>1, <3>2, QueueSplits
  <2>6. Consuming(rows', trades', position', fill', c)
    BY <1>3, <1>4, <2>1, <2>5 DEF Consuming, d
  <2> QED BY <1>2, <1>3, <1>4, <1>5, <1>6, <2>5, <2>6 DEF Orderly
<1>14. Due(trades, fill) = Toward(d, fill.left) /\ Due(trades', fill') = Toward(d, fill.left - c)
  BY <1>1, <1>4, <1>5, <1>6 DEF Due, d
<1>15. ASSUME ~hurt', ~mismatch', ~excused' PROVE Promised' = NetOf(rows') + Due(trades', fill')
  <2>1. Promised = NetOf(rows) + Toward(d, fill.left)
    BY <1>3, <1>14, <1>15 DEF LedgerInv, LedgerClean
  <2>2. NetOf(rows') = NetOf(rows) - Toward(-d, c)
    BY <1>3, <1>13, <1>15
  <2>3. Toward(d, fill.left) = Toward(d, fill.left - c) - Toward(-d, c)
        /\ Toward(d, fill.left - c) \in Int /\ Toward(-d, c) \in Int
    BY <1>1, TowardSplits
  <2> QED BY <1>1, <1>14, <1>16, <2>1, <2>2, <2>3
<1> QED BY <1>3, <1>12, <1>13, <1>15 DEF LedgerInv, LedgerClean

LEMMA InsertKeeps == ASSUME LedgerInv, SplitInserts PROVE LedgerInv'
<1> DEFINE c == Cut(fill, trades)
           d == fill.direction
           entry == [direction |-> trades[1].direction, quantity |-> c, open |-> TRUE]
<1>0. fill.step = "slice" /\ trades # <<>>
  BY DEF SplitInserts, LedgerInv, LedgerTyped
<1>1. /\ fill \in FillRest /\ fill # NoFill /\ d \in {1, -1} /\ -d \in {1, -1}
      /\ fill.left \in Nat /\ fill.left # 0 /\ fill.quantity \in Nat /\ fill.left <= fill.quantity
      /\ rows \in Seq(TradeRow) /\ trades \in Seq(OpenTrade) /\ position \in Int
      /\ ClosingQuantity = c /\ Head(trades) = trades[1]
      /\ c \in Nat /\ c # 0 /\ c <= fill.left /\ trades[1].remaining \in Nat /\ trades[1].direction \in {1, -1}
      /\ NetOf(rows) \in Int /\ 1 \in 1..Len(trades)
  BY <1>0, ClosingFact
<1>3. /\ trades' = trades /\ position' = position
      /\ mismatch' = mismatch /\ excused' = excused /\ hurt' = hurt
      /\ fill' = [fill EXCEPT !.step = "close_slice"]
      /\ rows' = Append(rows, entry)
  BY <1>1 DEF SplitInserts
<1>4. fill' = [step |-> "close_slice", direction |-> d, quantity |-> fill.quantity, left |-> fill.left]
  BY <1>1, <1>3, StepMoves
<1>5. fill' \in FillRest /\ fill' # NoFill
  <2>1. fill' \in FillRest
    BY <1>1, <1>4 DEF FillRest
  <2> QED BY <2>1, NoneFact
<1>16. Promised' = Promised
  <2>1. fill'.step \in {"slice", "close_slice"} /\ fill'.direction = d /\ fill'.quantity = fill.quantity
    BY <1>4
  <2> QED BY <1>0, <1>1, <1>3, <1>5, <2>1 DEF Promised
<1>6. Cut(fill', trades') = c
  BY <1>3, <1>4 DEF Cut
<1> HIDE DEF c, d
<1>7. entry \in TradeRow /\ entry.direction = trades[1].direction /\ entry.quantity = c /\ entry.open = TRUE
  BY <1>1 DEF TradeRow
<1>8. Shown(entry) = Toward(trades[1].direction, c)
  BY DEF Shown
<1>9. entry = [direction |-> trades[1].direction, quantity |-> c, open |-> TRUE]
  OBVIOUS
<1> HIDE DEF entry
<1>10. rows' \in Seq(TradeRow) /\ Len(rows') = Len(rows) + 1 /\ Len(rows) \in Nat /\ rows'[Len(rows')] = entry
  BY <1>1, <1>3, <1>7, TableFacts
<1>11. LedgerTyped'
  <2>1. ASSUME NEW i \in 1..Len(trades') PROVE trades'[i].row \in 1..Len(rows')
    <3>1. trades[i].row \in 1..Len(rows) /\ trades'[i] = trades[i]
      BY <1>3 DEF LedgerInv, LedgerTyped
    <3> QED BY <1>10, <3>1
  <2>2. rows' # <<>>
    BY <1>10
  <2> QED BY <1>0, <1>1, <1>3, <1>4, <1>5, <1>10, <2>1, <2>2 DEF LedgerTyped
<1>12. ASSUME ~hurt
       PROVE  Orderly(rows', trades', position', fill') /\ trades[1].direction = -d
  <2>1. Consuming(rows, trades, position, fill, c) /\ c < trades[1].remaining
    BY <1>0, <1>12 DEF LedgerInv, LedgerClean, Orderly, c
  <2>2. Queue(rows, trades, -d, c)
    BY <2>1 DEF Consuming, d
  <2>3. trades[1].direction = -d
    BY <1>1, <2>2 DEF Queue
  <2>4. Queue(rows', trades, -d, c) /\ \A i \in 1..Len(trades) : trades[i].row < Len(rows')
    BY <1>1, <1>3, <1>7, <2>2, QueueMore
  <2>5. Consuming(rows', trades', position', fill', c)
    BY <1>3, <1>4, <2>1, <2>4 DEF Consuming, d
  <2>6. rows'[Len(rows')] = [direction |-> -fill'.direction, quantity |-> Cut(fill', trades'), open |-> TRUE]
    BY <1>4, <1>6, <1>9, <1>10, <2>3
  <2> QED BY <1>3, <1>4, <1>5, <1>6, <2>1, <2>3, <2>4, <2>5, <2>6 DEF Orderly
<1>13. Due(trades, fill) = Toward(d, fill.left - c) /\ Due(trades', fill') = Toward(d, fill.left)
  BY <1>0, <1>1, <1>4, <1>5 DEF Due, d, c
<1>14. ASSUME ~hurt', ~mismatch', ~excused' PROVE Promised' = NetOf(rows') + Due(trades', fill')
  <2>1. Promised = NetOf(rows) + Toward(d, fill.left - c)
    BY <1>3, <1>13, <1>14 DEF LedgerInv, LedgerClean
  <2>2. NetOf(rows') = NetOf(rows) + Toward(-d, c)
    <3>1. NetOf(rows') = NetOf(rows) + Shown(entry)
      BY <1>1, <1>3, <1>7, NetAppend
    <3> QED BY <1>3, <1>8, <1>12, <1>14, <3>1
  <2>3. Toward(d, fill.left) = Toward(d, fill.left - c) - Toward(-d, c)
        /\ Toward(d, fill.left - c) \in Int /\ Toward(-d, c) \in Int
    BY <1>1, TowardSplits
  <2> QED BY <1>1, <1>13, <1>16, <2>1, <2>2, <2>3
<1> QED BY <1>3, <1>11, <1>12, <1>14 DEF LedgerInv, LedgerClean

LEMMA CloseKeeps == ASSUME LedgerInv, CloseLot PROVE LedgerInv'
<1> DEFINE c == Cut(fill, trades)
           d == fill.direction
           j == IF fill.step = "close_slice" THEN Len(rows) ELSE trades[1].row
           popped == c = trades[1].remaining
<1>0. fill.step \in {"close", "close_slice"} /\ trades # <<>> /\ (fill.step = "close_slice" => rows # <<>>)
  BY DEF CloseLot, LedgerInv, LedgerTyped
<1>1. /\ fill \in FillRest /\ fill # NoFill /\ d \in {1, -1} /\ -d \in {1, -1}
      /\ fill.left \in Nat /\ fill.left # 0 /\ fill.quantity \in Nat /\ fill.left <= fill.quantity
      /\ rows \in Seq(TradeRow) /\ trades \in Seq(OpenTrade) /\ position \in Int
      /\ ClosingQuantity = c /\ Head(trades) = trades[1]
      /\ c \in Nat /\ c # 0 /\ c <= fill.left /\ c <= trades[1].remaining /\ trades[1].remaining \in Nat
      /\ trades[1].row \in 1..Len(rows) /\ NetOf(rows) \in Int /\ 1 \in 1..Len(trades)
  BY <1>0, ClosingFact
<1>2. j \in 1..Len(rows)
  BY <1>0, <1>1
<1>3. /\ mismatch' = mismatch /\ excused' = excused /\ hurt' = hurt
      /\ rows' = [rows EXCEPT ![j].open = FALSE]
      /\ trades' = IF popped THEN Tail(trades) ELSE [trades EXCEPT ![1].remaining = @ - c]
  BY <1>1 DEF CloseLot, LotsAfterClosing
<1>4. fill.step = "close" => popped
  BY <1>1 DEF CloseLot
<1>5. PICK left \in Nat : left = fill.left - c /\ left < fill.quantity /\ left <= fill.quantity
  <2> HIDE DEF c
  <2>1. fill.left - c \in Nat /\ fill.left - c < fill.quantity /\ fill.left - c <= fill.quantity
    BY <1>1
  <2> QED BY <2>1
<1>6. GoesOn(fill, trades', position, left, position', fill')
  <2>1. PICK lots : lots = LotsAfterClosing
    OBVIOUS
  <2>2. trades' = lots /\ AfterClosing(left, lots)
    BY <1>1, <1>5, <2>1 DEF CloseLot
  <2>3. GoesOn(fill, lots, position, left, position', fill')
    BY <1>1, <2>2, AfterGoesOn
  <2> QED BY <2>2, <2>3
<1>13. Promised' = Promised
  BY <1>0, <1>1, <1>6, PromiseGoesOn
<1> HIDE DEF c, j
<1>7. /\ rows' \in Seq(TradeRow) /\ Len(rows') = Len(rows) /\ ~rows'[j].open
      /\ \A k \in 1..Len(rows) : k # j => rows'[k] = rows[k]
  <2>1. PICK r \in TradeRow : r = rows[j]
    BY <1>1, <1>2
  <2>2. PICK s \in TradeRow : s = [r EXCEPT !.open = FALSE] /\ ~s.open
    <3> DEFINE closed == [r EXCEPT !.open = FALSE]
    <3>1. closed \in TradeRow /\ ~closed.open
      BY DEF TradeRow
    <3> QED BY <3>1
  <2>3. rows' = [rows EXCEPT ![j] = [rows[j] EXCEPT !.open = FALSE]]
    BY <1>1, <1>2, <1>3
  <2>4. rows' = [rows EXCEPT ![j] = s]
    BY <2>1, <2>2, <2>3
  <2> QED BY <1>1, <1>2, <2>2, <2>4
<1>8. \/ popped /\ trades' = Tail(trades)
      \/ c < trades[1].remaining /\ Shrunk(trades, trades', c) /\ fill.step = "close_slice"
  <2>1. CASE popped
    BY <1>3, <2>1
  <2>2. CASE ~popped
    <3>1. c < trades[1].remaining
      BY <1>1, <2>2
    <3>2. Shrunk(trades, [trades EXCEPT ![1].remaining = @ - c], c)
      BY <1>0, <1>1, <3>1, FirstShrinks
    <3> QED BY <1>0, <1>3, <1>4, <2>2, <3>1, <3>2
  <2> QED BY <2>1, <2>2
<1> HIDE DEF popped
<1>9. LedgerTyped'
  <2>1. trades' \in Seq(OpenTrade) /\ \A i \in 1..Len(trades') : \E k \in 1..Len(trades) : trades'[i].row = trades[k].row
    <3>1. CASE trades' = Tail(trades)
      <4>1. /\ trades' \in Seq(OpenTrade) /\ Len(trades) \in Nat /\ Len(trades') = Len(trades) - 1
            /\ \A i \in 1..Len(trades') : trades'[i] = trades[i + 1]
        BY <1>0, <1>1, <3>1
      <4>2. \A i \in 1..Len(trades') : i + 1 \in 1..Len(trades)
        BY <4>1
      <4> QED BY <4>1, <4>2
    <3>2. CASE Shrunk(trades, trades', c)
      BY <3>2 DEF Shrunk
    <3> QED BY <1>8, <3>1, <3>2
  <2>2. \A i \in 1..Len(trades') : trades'[i].row \in 1..Len(rows')
    BY <1>7, <2>1 DEF LedgerInv, LedgerTyped
  <2>3. /\ position' \in Int /\ fill' \in FillRest \cup {NoFill}
        /\ fill' \in FillRest => fill'.left <= fill'.quantity
        /\ fill'.step \notin {"slice", "close_slice"}
    BY <1>1, <1>5, <1>6, GoesOnTyped
  <2> QED BY <1>1, <1>3, <1>7, <2>1, <2>2, <2>3 DEF LedgerTyped
<1>10. ASSUME ~hurt
       PROVE  /\ Orderly(rows', trades', position', fill') /\ Due(trades', fill') = Toward(d, left)
              /\ NetOf(rows') = NetOf(rows) - Toward(-d, c)
  <2> DEFINE cut == IF fill.step = "close" THEN 0 ELSE c
  <2>1. /\ Consuming(rows, trades, position, fill, cut)
        /\ fill.step = "close_slice" =>
             /\ c < trades[1].remaining
             /\ rows[Len(rows)] = [direction |-> -d, quantity |-> c, open |-> TRUE]
             /\ \A i \in 1..Len(trades) : trades[i].row < Len(rows)
    BY <1>0, <1>10 DEF LedgerInv, LedgerClean, Orderly, c, d
  <2>2. PICK n \in Nat : Stacked(trades, n) /\ position = Toward(-d, n + (fill.quantity - fill.left))
    BY <2>1 DEF Consuming
  <2>3. Queue(rows, trades, -d, cut)
    BY <2>1 DEF Consuming
  <2>4. rows[j] = [direction |-> -d, quantity |-> c, open |-> TRUE]
    <3>1. CASE fill.step = "close_slice"
      BY <2>1, <3>1 DEF j
    <3>2. CASE fill.step = "close"
      <4>1. trades[1].remaining - (IF 1 = 1 THEN cut ELSE 0) = c /\ j = trades[1].row
        BY <1>1, <1>4, <3>2 DEF j, popped
      <4> QED BY <1>1, <2>3, <4>1 DEF Queue
    <3> QED BY <1>0, <3>1, <3>2
  <2> HIDE DEF d
  <2>5. NetOf(rows') = NetOf(rows) - Toward(-d, c)
    <3>1. -d \in {1, -1} /\ c \in Nat /\ rows \in Seq(TradeRow) /\ j \in 1..Len(rows)
      BY <1>1, <1>2
    <3>2. rows' \in Seq(TradeRow) /\ Len(rows') = Len(rows) /\ ~rows'[j].open
          /\ \A k \in 1..Len(rows) : k # j => rows'[k] = rows[k]
      BY <1>7
    <3>3. PICK away \in {1, -1} : away = -d
      BY <3>1
    <3>4. rows[j].direction = away /\ rows[j].quantity = c /\ rows[j].open
      BY <2>4, <3>3
    <3>5. NetOf(rows') = NetOf(rows) - Toward(away, c)
      BY <3>1, <3>2, <3>4, NetCloses
    <3> QED BY <3>3, <3>5
  <2>6. Queue(rows', trades', -d, 0) /\ Stacked(trades', n - c)
    <3>1. CASE fill.step = "close"
      <4>1. trades' = Tail(trades) /\ j = trades[1].row /\ cut = 0 /\ c = trades[1].remaining
        BY <1>4, <1>8, <3>1 DEF j, popped
      <4>2. Queue(rows, trades, -d, 0) /\ \A k \in 1..Len(rows) : k # trades[1].row => rows'[k] = rows[k]
        BY <1>7, <2>3, <4>1
      <4>3. Queue(rows', Tail(trades), -d, 0)
        BY <1>0, <1>1, <1>7, <4>2, QueuePops
      <4>4. Stacked(Tail(trades), n - trades[1].remaining)
        BY <1>0, <1>1, <2>2, StackedTail
      <4> QED BY <4>1, <4>3, <4>4
    <3>2. CASE fill.step = "close_slice"
      <4>1. /\ Shrunk(trades, trades', c) /\ c < trades[1].remaining
            /\ j = Len(rows) /\ cut = c /\ Len(rows) \in Nat
        BY <1>1, <1>8, <2>1, <3>2, TableFacts DEF j, popped
      <4>2. \A i \in 1..Len(trades) : trades[i].row # j
        <5>1. ASSUME NEW i \in 1..Len(trades) PROVE trades[i].row # j
          <6>1. trades[i].row \in Nat /\ trades[i].row < Len(rows)
            BY <1>1, <2>1, <3>2, LotFact
          <6> QED BY <4>1, <6>1
        <5> QED BY <5>1
      <4>3. Queue(rows, trades, -d, c)
        BY <2>3, <4>1
      <4>4. Queue(rows', trades', -d, 0)
        <5>1. -d \in {1, -1} /\ c \in Nat /\ rows \in Seq(TradeRow) /\ trades \in Seq(OpenTrade)
          BY <1>1
        <5>2. rows' \in Seq(TradeRow) /\ Len(rows') = Len(rows) /\ \A k \in 1..Len(rows) : k # j => rows'[k] = rows[k]
          BY <1>7
        <5> QED BY <4>1, <4>2, <4>3, <5>1, <5>2, QueueShrinks
      <4>5. Stacked(trades', n - c)
        BY <1>0, <1>1, <2>2, <4>1, StackedLess
      <4> QED BY <4>4, <4>5
    <3> QED BY <1>0, <3>1, <3>2
  <2>7. PICK m \in Int : m = n - c
    BY <1>1
  <2>8. position = Toward(-fill.direction, m + (fill.quantity - left))
    <3>1. m + (fill.quantity - left) = n + (fill.quantity - fill.left)
      <4>1. \A q, l \in Nat : (n - c) + (q - (l - c)) = n + (q - l)
        BY <1>1
      <4> QED BY <1>1, <1>5, <2>7, <4>1
    <3> QED BY <2>2, <3>1 DEF d
  <2>9. Queue(rows', trades', -fill.direction, 0) /\ Stacked(trades', m) /\ trades' \in Seq(OpenTrade)
    BY <1>9, <2>6, <2>7 DEF d, LedgerTyped
  <2>10. Orderly(rows', trades', position', fill') /\ Due(trades', fill') = Toward(fill.direction, left)
    <3>1. fill \in FillRest /\ left < fill.quantity
      BY <1>1, <1>5
    <3>2. trades' \in Seq(OpenTrade)
      BY <2>9
    <3>3. Closed(rows', trades', fill, position, left, m)
      BY <2>8, <2>9 DEF Closed
    <3> QED BY <1>6, <3>1, <3>2, <3>3, ClosingGoesOn
  <2> QED BY <2>5, <2>10 DEF d
<1>11. Due(trades, fill) = Toward(d, fill.left)
  BY <1>0, <1>1 DEF Due
<1>12. ASSUME ~hurt', ~mismatch', ~excused' PROVE Promised' = NetOf(rows') + Due(trades', fill')
  <2> HIDE DEF d
  <2>1. Promised = NetOf(rows) + Toward(d, fill.left)
    BY <1>3, <1>11, <1>12 DEF LedgerInv, LedgerClean
  <2>2. NetOf(rows') = NetOf(rows) - Toward(-d, c) /\ Due(trades', fill') = Toward(d, left)
    BY <1>3, <1>10, <1>12
  <2>3. Toward(d, fill.left) = Toward(d, left) - Toward(-d, c)
        /\ Toward(d, left) \in Int /\ Toward(-d, c) \in Int
    BY <1>1, <1>5, TowardSplits
  <2> QED BY <1>1, <1>13, <2>1, <2>2, <2>3
<1> QED BY <1>3, <1>9, <1>10, <1>12 DEF LedgerInv, LedgerClean

\* Without a failed write, what closes has a lot to close.
LEMMA NoLotKeeps == ASSUME LedgerInv, NoLotToClose PROVE LedgerInv'
<1>1. /\ fill \in FillRest /\ fill.step = "close" /\ trades = <<>> /\ hurt' = hurt
      /\ rows' = rows /\ trades' = trades /\ position \in Int /\ fill.left <= fill.quantity
  BY NoneFact DEF LedgerInv, LedgerTyped, NoLotToClose
<1>2. PICK left \in Nat : left = fill.left
  BY <1>1, RestFact
<1>3. GoesOn(fill, trades, position, left, position', fill')
  <2>1. AfterClosing(left, trades)
    BY <1>2 DEF NoLotToClose
  <2> QED BY <1>1, <2>1, AfterGoesOn
<1>4. /\ position' \in Int /\ fill' \in FillRest \cup {NoFill}
      /\ fill' \in FillRest => fill'.left <= fill'.quantity
      /\ fill'.step \notin {"slice", "close_slice"}
  <2>1. left <= fill.quantity
    BY <1>1, <1>2
  <2> QED BY <1>1, <1>3, <2>1, GoesOnTyped
<1>5. LedgerTyped'
  BY <1>1, <1>4 DEF LedgerInv, LedgerTyped
<1>6. hurt
  BY <1>1 DEF LedgerInv, LedgerClean, Orderly, Consuming
<1> QED BY <1>1, <1>5, <1>6 DEF LedgerInv, LedgerClean

\* A fill that is abandoned: from here on the process answers for nothing.
LEMMA AbandonKeeps == ASSUME LedgerInv, WriteFails \/ RowRefuses PROVE LedgerInv'
<1>1. fill' = NoFill /\ hurt' /\ UNCHANGED <<rows, position, trades>>
  BY DEF WriteFails, RowRefuses
<1>2. LedgerTyped'
  BY <1>1, NoneFact DEF LedgerInv, LedgerTyped
<1> QED BY <1>1, <1>2 DEF LedgerInv, LedgerClean

LEMMA RestartKeeps == ASSUME LedgerInv, LedgerRestart PROVE LedgerInv'
<1>1. /\ position' = 0 /\ trades' = <<>> /\ fill' = NoFill /\ excused' /\ rows' = rows
  BY DEF LedgerRestart
<1>2. LedgerTyped'
  BY <1>1, NoneFact DEF LedgerInv, LedgerTyped
<1>3. Orderly(rows', trades', position', fill')
  BY <1>1, NoneFact, EmptyRest DEF Orderly
<1> QED BY <1>1, <1>2, <1>3 DEF LedgerInv, LedgerClean

\* Only the comparison itself ends an excuse, and it reports what differs.
LEMMA ReconcileKeeps == ASSUME LedgerInv, ReconcilePositions PROVE LedgerInv'
<1>1. /\ fill = NoFill /\ UNCHANGED <<rows, position, trades, fill, hurt>>
      /\ mismatch' = (mismatch \/ NetOf(rows) # position)
  BY DEF ReconcilePositions, LedgerIdle, DbPositions, NetOf
<1>2. LedgerTyped'
  BY <1>1 DEF LedgerInv, LedgerTyped
<1>3. NetOf(rows) \in Int
  <2>1. rows \in Seq(TradeRow) /\ Len(rows) \in Nat
    BY DEF LedgerInv, LedgerTyped
  <2>2. \E T \in [0..Len(rows) -> Int] : T[Len(rows)] = NetOf(rows)
    BY <2>1, NetTotals
  <2>3. Len(rows) \in 0..Len(rows)
    BY <2>1
  <2> QED BY <2>2, <2>3
<1>4. Due(trades', fill') = 0
  BY <1>1 DEF Due
<1>5. ASSUME ~mismatch' PROVE Promised' = NetOf(rows') + Due(trades', fill')
  <2>1. position = NetOf(rows) /\ NetOf(rows') = NetOf(rows) /\ Promised' = position + 0
    BY <1>1, <1>5 DEF Promised
  <2> QED BY <1>3, <1>4, <2>1
<1> QED BY <1>1, <1>2, <1>5 DEF LedgerInv, LedgerClean

LEMMA WaiverKeeps == ASSUME LedgerInv, ClearPositionMismatch PROVE LedgerInv'
<1>1. excused' /\ UNCHANGED <<rows, position, trades, fill, hurt>>
  BY DEF ClearPositionMismatch
<1>2. LedgerTyped'
  BY <1>1 DEF LedgerInv, LedgerTyped
<1> QED BY <1>1, <1>2 DEF LedgerInv, LedgerClean

LEMMA LedgerStep == LedgerInv /\ [LedgerNext]_ledgerVars => LedgerInv'
<1> SUFFICES ASSUME LedgerInv, [LedgerNext]_ledgerVars PROVE LedgerInv'
  OBVIOUS
<1>1. ASSUME NEW direction \in {1, -1}, NEW quantity \in Lots, FillArrives(direction, quantity) PROVE LedgerInv'
  BY <1>1, ArriveKeeps
<1>2. CASE OpenLot
  BY <1>2, OpenKeeps
<1>3. CASE SplitShrinks
  BY <1>3, ShrinkKeeps
<1>4. CASE SplitInserts
  BY <1>4, InsertKeeps
<1>5. CASE CloseLot
  BY <1>5, CloseKeeps
<1>6. CASE NoLotToClose
  BY <1>6, NoLotKeeps
<1>7. CASE WriteFails \/ RowRefuses
  BY <1>7, AbandonKeeps
<1>8. CASE LedgerRestart
  BY <1>8, RestartKeeps
<1>9. CASE ReconcilePositions
  BY <1>9, ReconcileKeeps
<1>10. CASE ClearPositionMismatch
  BY <1>10, WaiverKeeps
<1>11. CASE UNCHANGED ledgerVars
  BY <1>11 DEF ledgerVars, LedgerInv, LedgerTyped, LedgerClean, Promised
<1> QED BY <1>1, <1>2, <1>3, <1>4, <1>5, <1>6, <1>7, <1>8, <1>9, <1>10, <1>11 DEF LedgerNext

LEMMA LedgerAlways == LedgerSpec => []LedgerInv
<1> QED BY LedgerStart, LedgerStep, PTL DEF LedgerSpec

\* For any fills, any splits, any crash between two statements and any failed write: as
\* long as this process has not abandoned a fill, a ledger that differs from the broker's
\* position between two fills has been reported, or a restart or a waiver has happened
\* that the next reconcile_positions() will look at (src/automation/reconcile.py, PaperBroker._apply_position).
THEOREM DriftAlwaysReported == LedgerSpec => []DriftIsReported
<1>1. LedgerInv => DriftIsReported
  <2> SUFFICES ASSUME LedgerInv, LedgerIdle, ~hurt, DbPositions # position, ~mismatch, ~excused PROVE FALSE
    BY DEF DriftIsReported
  <2>1. /\ Promised = NetOf(rows) + Due(trades, fill) /\ Due(trades, fill) = 0
        /\ Promised = position + 0 /\ position \in Int
    BY DEF LedgerInv, LedgerClean, LedgerTyped, Due, LedgerIdle, Promised
  <2>2. DbPositions = NetOf(rows)
    BY DEF DbPositions, NetOf
  <2>3. NetOf(rows) \in Int
    BY NetTotals DEF LedgerInv, LedgerTyped
  <2> QED BY <2>1, <2>2, <2>3
<1> QED BY <1>1, LedgerAlways, PTL

\* For any fills and any crash: between fills, every lot a process holds in memory is an
\* open row with the quantity the lot has left, on the side of the position it holds; a
\* split never leaves the two apart (split_paper_trade(), PaperBroker._open_trades).
THEOREM LotsAlwaysFollowRows == LedgerSpec => []LotsFollowRows
<1>1. LedgerInv => LotsFollowRows
  <2> SUFFICES ASSUME LedgerInv, LedgerIdle, ~hurt, NEW i \in DOMAIN trades
               PROVE  /\ rows[trades[i].row].open /\ rows[trades[i].row].quantity = trades[i].remaining
                      /\ trades[i].direction * position > 0
    BY DEF LotsFollowRows
  <2>1. PICK direction \in {1, -1}, n \in Nat :
          Queue(rows, trades, direction, 0) /\ Stacked(trades, n) /\ position = Toward(direction, n)
    BY DEF LedgerInv, LedgerClean, Orderly, LedgerIdle, AtRest
  <2>2. /\ trades \in Seq(OpenTrade) /\ Len(trades) \in Nat /\ i \in 1..Len(trades)
        /\ trades[i].remaining \in Nat /\ n >= Len(trades)
    BY <2>1, LotFact, StackedEnough DEF LedgerInv, LedgerTyped
  <2>3. trades[i].remaining - (IF i = 1 THEN 0 ELSE 0) = trades[i].remaining
    BY <2>2
  <2>4. /\ trades[i].direction = direction
        /\ rows[trades[i].row] = [direction |-> direction, quantity |-> trades[i].remaining, open |-> TRUE]
    BY <2>1, <2>2, <2>3 DEF Queue
  <2>5. n > 0
    BY <2>2
  <2>6. direction * position > 0
    BY <2>1, <2>5 DEF Toward
  <2> QED BY <2>4, <2>6
<1> QED BY <1>1, LedgerAlways, PTL

\* What is left of the ledger's types: the troubles are counted, and flags are flags.
FlagsTyped == troubles \in 0..MaxTroubles /\ mismatch \in BOOLEAN /\ excused \in BOOLEAN /\ hurt \in BOOLEAN

LEMMA FlagsStep ==
    ASSUME FlagsTyped, [LedgerNext]_ledgerVars
    PROVE  FlagsTyped'
<1>1. CASE WriteFails \/ LedgerRestart
  <2>1. troubles \in Int /\ MaxTroubles \in Int /\ 0 <= troubles /\ troubles < MaxTroubles /\ troubles' = troubles + 1
    BY <1>1, LedgerAssumption DEF WriteFails, LedgerRestart, FlagsTyped
  <2>2. troubles' \in 0..MaxTroubles
    BY <2>1
  <2>3. mismatch' \in BOOLEAN /\ excused' \in BOOLEAN /\ hurt' \in BOOLEAN
    BY <1>1 DEF WriteFails, LedgerRestart, FlagsTyped
  <2> QED BY <2>2, <2>3 DEF FlagsTyped
<1>2. CASE ReconcilePositions
  <2>1. mismatch' \in BOOLEAN
    BY <1>2 DEF ReconcilePositions
  <2> QED BY <1>2, <2>1 DEF ReconcilePositions, FlagsTyped
<1>3. CASE RowRefuses \/ ClearPositionMismatch
  BY <1>3 DEF RowRefuses, ClearPositionMismatch, FlagsTyped
<1>4. CASE \/ \E direction \in {1, -1}, quantity \in Lots : FillArrives(direction, quantity)
           \/ OpenLot \/ SplitShrinks \/ SplitInserts \/ CloseLot \/ NoLotToClose
           \/ UNCHANGED ledgerVars
  BY <1>4 DEF FillArrives, OpenLot, SplitShrinks, SplitInserts, CloseLot, NoLotToClose, ledgerVars, FlagsTyped
<1> QED BY <1>1, <1>2, <1>3, <1>4 DEF LedgerNext

\* Every lot in memory has its row and something left, whatever writes fail and whenever the
\* process dies.
THEOREM LedgerTypeCorrect == LedgerSpec => []LedgerTypeOK
<1>1. LedgerInit => FlagsTyped
  <2> SUFFICES ASSUME LedgerInit PROVE FlagsTyped
    OBVIOUS
  <2>1. MaxTroubles \in Nat
    BY LedgerAssumption
  <2>2. 0 \in 0..MaxTroubles
    BY <2>1
  <2> QED BY <2>2 DEF LedgerInit, FlagsTyped
<1>2. FlagsTyped /\ [LedgerNext]_ledgerVars => FlagsTyped'
  BY FlagsStep
<1>3. LedgerInv /\ FlagsTyped => LedgerTypeOK
  <2> SUFFICES ASSUME LedgerInv, FlagsTyped PROVE LedgerTypeOK
    OBVIOUS
  <2>1. /\ rows \in Seq(TradeRow) /\ DOMAIN rows = 1..Len(rows)
        /\ trades \in Seq(OpenTrade) /\ DOMAIN trades = 1..Len(trades)
        /\ position \in Int /\ \A i \in 1..Len(trades) : trades[i].row \in 1..Len(rows)
    BY DEF LedgerInv, LedgerTyped
  <2>2. \A i \in DOMAIN rows : rows[i] \in [direction : {1, -1}, quantity : Nat, open : BOOLEAN]
    <3>1. \A i \in DOMAIN rows : rows[i] \in TradeRow
      BY <2>1
    <3> QED BY <3>1 DEF TradeRow
  <2>3. \A i \in DOMAIN trades : trades[i].row \in DOMAIN rows /\ trades[i].remaining > 0
    <3>1. \A i \in DOMAIN trades : trades[i] \in OpenTrade
      BY <2>1
    <3>2. \A lot \in OpenTrade : lot.remaining > 0
      BY DEF OpenTrade
    <3> QED BY <2>1, <3>1, <3>2
  <2> QED BY <2>1, <2>2, <2>3 DEF FlagsTyped, LedgerTypeOK
<1> QED BY <1>1, <1>2, <1>3, LedgerAlways, PTL DEF LedgerSpec
=============================================================================

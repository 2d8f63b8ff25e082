----------------------------- MODULE MarketWatch -----------------------------
(***************************************************************************)
(* Two detectors of the circuit breaker that remember what they are fed:   *)
(* the flash-crash pause over the index ticks, and the watch over the data *)
(* feeds and the broker API.  They live in memory; a restart forgets both. *)
(***************************************************************************)
EXTENDS Clock, Sequences, FiniteSets, SequencesExt

CONSTANTS
    Prices,        \* index prices
    CrashPct,      \* flash_crash.threshold_pct: the fall that counts, in percent
    CrashWindow,   \* flash_crash.timeframe_minutes
    PauseLength,   \* flash_crash.pause_minutes
    RecoveryPct,   \* flash_crash.resume_recovery_pct, in percent
    MaxTicks,      \* bound of the index ticks in one life
    Sources,       \* data feeds
    FeedTimeout,   \* technical.data_feed_timeout_seconds
    FeedEmergency, \* technical.data_feed_emergency_seconds
    ApiRetries,    \* technical.api_retry_attempts; the bound of the failures, too
    ApiEscalation  \* technical.api_failure_escalation_seconds

ASSUME WatchAssumption ==
    /\ Prices \subseteq Nat \ {0} /\ CrashPct \in 1..99 /\ RecoveryPct \in 1..100
    /\ {CrashWindow, PauseLength, MaxTicks, ApiRetries, ApiEscalation} \subseteq Nat
    /\ FeedTimeout \in Nat /\ FeedEmergency \in Nat /\ FeedTimeout < FeedEmergency

VARIABLES
    indexPrices,  \* _index_prices
    flash,        \* _flash_pause_until, _flash_drop_origin and _flash_drop_low
    crashLow,     \* the low of the crash behind the pause, by itself (not in the code, for FlashPauseIsEarned)
    beats,        \* _feed_heartbeats
    feedDown,     \* _feed_down_since
    apiFailures,  \* _api_failures and _api_first_failure
    alarm         \* what the last _check_technical() said of feeds and API

flashVars == <<indexPrices, flash, crashLow>>
feedVars == <<beats, feedDown, apiFailures, alarm>>

None == -1
NoCrash == [pauseUntil |-> None, origin |-> None, low |-> None]
NoFailures == [count |-> 0, first |-> None]

WatchInit ==
    /\ indexPrices = <<>> /\ flash = NoCrash /\ crashLow = None
    /\ beats = <<>> /\ feedDown = None /\ apiFailures = NoFailures
    /\ alarm = [feed |-> "quiet", api |-> "quiet"]

Lowest(set) == CHOOSE x \in set : \A y \in set : x <= y
Highest(set) == CHOOSE x \in set : \A y \in set : x >= y
-----------------------------------------------------------------------------
(* The flash-crash pause.                                                  *)

RecordIndexPrice(price) ==
    /\ Len(indexPrices) < MaxTicks
    /\ indexPrices' = Append(indexPrices, [at |-> now, price |-> price])
    /\ UNCHANGED <<flash, crashLow>>

Recent == {tick.price : tick \in {t \in Range(indexPrices) : now - t.at <= CrashWindow}}

\* Mutant of Crashed: the extremes are taken over all the ticks kept.
CrashedEver ==
    LET kept == {tick.price : tick \in Range(indexPrices)}
    IN  /\ Cardinality({i \in DOMAIN indexPrices : now - indexPrices[i].at <= CrashWindow}) >= 2
        /\ 100 * Lowest(kept) <= (100 - CrashPct) * Highest(kept)

\* The lowest price of the window is set against the highest, whichever came first.
Crashed ==
    /\ Cardinality({i \in DOMAIN indexPrices : now - indexPrices[i].at <= CrashWindow}) >= 2
    /\ 100 * Lowest(Recent) <= (100 - CrashPct) * Highest(Recent)

Paused(f) == f.pauseUntil # None /\ now < f.pauseUntil

\* The low of an earlier crash stays in force when its pause has run out.
AfterFall ==
    IF Crashed
    THEN [pauseUntil |-> now + PauseLength, origin |-> Highest(Recent),
          low |-> IF flash.low = None THEN Lowest(Recent) ELSE Lowest({Lowest(Recent), flash.low})]
    ELSE flash

Recovered(f) ==
    /\ Paused(f) /\ indexPrices # <<>> /\ f.origin > f.low
    /\ 100 * (Last(indexPrices).price - f.low) >= RecoveryPct * (f.origin - f.low)

\* _check_flash_crash(), once per evaluate().
CheckFlashCrash ==
    /\ flash' = IF Recovered(AfterFall) THEN NoCrash ELSE AfterFall
    /\ crashLow' = IF ~Crashed THEN crashLow
                   ELSE IF Paused(flash) THEN Lowest({Lowest(Recent), crashLow}) ELSE Lowest(Recent)
    /\ UNCHANGED indexPrices

FlashNext == CheckFlashCrash \/ \E price \in Prices : RecordIndexPrice(price)
-----------------------------------------------------------------------------
(* The watch over feeds and API.                                           *)

Healthy(stamps) == \A s \in DOMAIN stamps : now - stamps[s] <= FeedTimeout

\* Mutant of RecordDataHeartbeat: the beat itself is not counted yet.
RecordDataHeartbeatLate(source) ==
    /\ beats' = [s \in DOMAIN beats \cup {source} |-> IF s = source THEN now ELSE beats[s]]
    /\ feedDown' = IF feedDown # None /\ Healthy(beats) THEN None ELSE feedDown
    /\ UNCHANGED <<apiFailures, alarm>>

RecordDataHeartbeat(source) ==
    /\ beats' = [s \in DOMAIN beats \cup {source} |-> IF s = source THEN now ELSE beats[s]]
    /\ feedDown' = IF feedDown # None /\ Healthy(beats') THEN None ELSE feedDown
    /\ UNCHANGED <<apiFailures, alarm>>

RecordApiFailure ==
    /\ apiFailures.count < ApiRetries
    /\ apiFailures' = [count |-> apiFailures.count + 1,
                       first |-> IF apiFailures.first = None THEN now ELSE apiFailures.first]
    /\ UNCHANGED <<beats, feedDown, alarm>>

RecordApiSuccess == apiFailures' = NoFailures /\ UNCHANGED <<beats, feedDown, alarm>>

Silence == now - Lowest({beats[s] : s \in DOMAIN beats})
FeedSilent == beats # <<>> /\ Silence > FeedTimeout

\* _check_technical(): the oldest beat counts.
CheckTechnical ==
    /\ feedDown' = IF FeedSilent /\ feedDown = None THEN now ELSE feedDown
    /\ alarm' = [feed |-> IF ~FeedSilent THEN "quiet"
                          ELSE IF Silence > FeedEmergency \/ now - feedDown' > FeedEmergency
                          THEN "flatten" ELSE "blocked",
                 api |-> IF apiFailures.count < ApiRetries THEN "quiet"
                         ELSE IF now - apiFailures.first > ApiEscalation THEN "flatten" ELSE "warned"]
    /\ UNCHANGED <<beats, apiFailures>>

FeedNext ==
    \/ \E source \in Sources : RecordDataHeartbeat(source)
    \/ RecordApiFailure \/ RecordApiSuccess \/ CheckTechnical

\* The two detectors share the clock and nothing else.
WatchNext ==
    \/ FlashNext /\ UNCHANGED <<feedVars, now>>
    \/ FeedNext /\ UNCHANGED <<flashVars, now>>
    \/ Tick /\ UNCHANGED <<flashVars, feedVars>>

WatchSpec == WatchInit /\ now = 0 /\ [][WatchNext]_<<flashVars, feedVars, now>>
-----------------------------------------------------------------------------
(* Properties.                                                             *)

WatchTypeOK ==
    /\ Range(indexPrices) \subseteq [at : 0..Horizon, price : Prices]
    /\ flash.pauseUntil \in Nat \cup {None} /\ {flash.origin, flash.low} \subseteq Prices \cup {None}
    /\ crashLow \in Prices \cup {None}
    /\ DOMAIN beats \subseteq Sources /\ Range(beats) \subseteq 0..Horizon
    /\ feedDown \in -1..Horizon /\ apiFailures \in [count : 0..ApiRetries, first : -1..Horizon]
    /\ alarm \in [feed : {"quiet", "blocked", "flatten"}, api : {"quiet", "warned", "flatten"}]

\* (Only a check leaves both the clock and the ticks alone.)
LiftedEarly == UNCHANGED <<indexPrices, now>> /\ Paused(AfterFall) /\ flash' = NoCrash
WonBack ==
    100 * (Last(indexPrices).price - crashLow') >= RecoveryPct * (AfterFall.origin - crashLow')

\* "partial 30% recovery still paused": a flash-crash pause that ends before its time
\* ends because the index has won back RecoveryPct of the fall of that crash.  The low
\* of an earlier crash stays in force when its pause has run out, so this does not hold.
FlashPauseIsEarned == [][LiftedEarly => WonBack]_<<flashVars, now>>

\* Two ticks from first to last, the one CrashPct below the other.
FallBetween(first, last) ==
    \E i, j \in DOMAIN indexPrices :
        /\ {indexPrices[i].at, indexPrices[j].at} \subseteq first..last
        /\ 100 * indexPrices[i].price <= (100 - CrashPct) * indexPrices[j].price

\* "pausing orders": while the detector pauses, a check within the last PauseLength saw
\* a fall of CrashPct inside its CrashWindow.  Falls, rebounds, checks and quiet ticks
\* come in any order, and checks may be far apart: neither ticks that have left the
\* window nor checks during the pause prolong it.
PauseAnswersToFall ==
    Paused(flash) => \E check \in 0..now : check + PauseLength > now /\ FallBetween(check - CrashWindow, check)

\* "a fresh heartbeat auto-clears feed breakers": while the watch times an outage some
\* feed is silent at that very moment, so the emergency exit an outage ends in is never
\* counted over silences of several feeds that had all been over in between.
OutageIsReal == feedDown # None => ~Healthy(beats)
=============================================================================

------------------------------- MODULE DataSync -------------------------------
(***************************************************************************)
(* agents.data_agent for one symbol: the incremental download of the bars  *)
(* of one timeframe, the coarser timeframe resampled from it, the readers  *)
(* of the stored bars, and the UniverseManager's two caches.  A bar covers *)
(* one tick of the clock; the coarse bars cover two.                       *)
(***************************************************************************)
EXTENDS Clock, FiniteSetsExt

CONSTANTS
    Lookback,   \* _lookback_days() in bars, clamped to the provider's cap
    CacheTtl,   \* data.universe_cache_hours
    Versions    \* bound of the revisions of the constituents' page

ASSUME SyncAssumption == {Lookback, CacheTtl, Versions} \subseteq Nat \ {0}

VARIABLES
    bars,       \* price_data of the timeframe: instant -> none, partial or final
    coarse,     \* price_data of the resampled timeframe
    missed,     \* instants that had left the look-back window before they were asked for
    page,       \* revision of the page now
    file,       \* revision in the cache file, 0 if there is none
    row,        \* the cache row: revision and fetched_at
    writing,    \* revision in the file whose row is not written yet, or 0
    servedUpTo  \* newest revision resolve() has worked with

syncVars == <<bars, coarse, missed>>
universeVars == <<page, file, row, writing, servedUpTo>>

Instants == 0..Horizon
NoRow == [revision |-> 0, at |-> 0]

SyncInit ==
    /\ bars = [t \in Instants |-> "none"] /\ coarse = bars /\ missed = {}
    /\ page = 1 /\ file = 0 /\ row = NoRow /\ writing = 0 /\ servedUpTo = 0
-----------------------------------------------------------------------------
(* sync_timeframe().                                                       *)

StoredBars == {t \in Instants : bars[t] # "none"}
LastBar == Max(StoredBars)
WindowStart == Max({0, now - Lookback})

\* Mutant of FetchStart: the boundary bar is not asked for again.
FetchStartAfterLast == IF StoredBars = {} THEN WindowStart ELSE Max({LastBar + 1, WindowStart})

\* Re-fetch the boundary bar, and the one before it, to heal partial data.
FetchStart == IF StoredBars = {} THEN WindowStart ELSE Max({LastBar - 1, WindowStart})

Fresh == StoredBars # {} /\ now - LastBar < 1

\* upsert_price_bars() of what came back: all, or the first part of it (the provider
\* lags, or the batch failed half-way).  The last bar may be unfinished, the one of
\* this instant is, one that was finished before is not.  An error or an empty reply
\* stores nothing.
SyncTimeframe ==
    /\ ~Fresh
    /\ \E end \in FetchStart..now, last \in {"partial", "final"} :
        /\ end = now => last = "partial"
        /\ bars[end] = "final" => last = "final"
        /\ bars' = [t \in Instants |-> IF t \in FetchStart..end
                                       THEN IF t = end THEN last ELSE "final" ELSE bars[t]]
    /\ missed' = IF StoredBars = {} THEN missed ELSE missed \cup (LastBar..(WindowStart - 1))
    /\ UNCHANGED coarse

\* The branch of the coarse timeframe: from the stored bars, never downloaded.
Resampled(k) ==
    LET parts == {bars[t] : t \in {2 * k, 2 * k + 1} \cap Instants}
    IN IF parts = {"none"} THEN "none"
       ELSE IF parts = {"final"} /\ 2 * k + 1 <= Horizon THEN "final" ELSE "partial"

ResampleTimeframe ==
    /\ StoredBars # {}
    /\ coarse' = [k \in Instants |-> IF 2 * k > Horizon THEN "none" ELSE Resampled(k)]
    /\ UNCHANGED <<bars, missed>>

\* fetch_price_bars(limit = n): ascending, so the limit keeps the oldest.
FetchPriceBars(n) == {t \in StoredBars : Cardinality({u \in StoredBars : u <= t}) <= n}

\* The bars latest_close() and benchmark_change_pct() work with.
LatestClose == Max(FetchPriceBars(1))
BenchmarkBars == FetchPriceBars(2)
-----------------------------------------------------------------------------
(* UniverseManager._cached_or_fetch().                                     *)

PageChanges == page < Versions /\ page' = page + 1 /\ UNCHANGED <<file, row, writing, servedUpTo>>

RowFresh == row.revision > 0 /\ now - row.at < CacheTtl

Larger(a, b) == IF a > b THEN a ELSE b

\* Rows are written to the file first, to the database after.
Caches(revision) ==
    /\ file' = revision /\ writing' = revision
    /\ UNCHANGED <<page, row, servedUpTo>>

FetchPage == writing = 0 /\ ~RowFresh /\ Caches(page)

\* The fetch fails: the file, else the stale row, is taken as if it had come new.
FetchFails ==
    /\ writing = 0 /\ ~RowFresh
    /\ \/ file > 0 /\ Caches(file)
       \/ file = 0 /\ row.revision > 0 /\ Caches(row.revision)

WriteRow ==
    /\ writing > 0
    /\ row' = [revision |-> writing, at |-> now] /\ writing' = 0
    /\ servedUpTo' = Larger(servedUpTo, writing)
    /\ UNCHANGED <<page, file>>

\* The process ends, or kv_set() fails, between the two writes.
WriteBreaksOff ==
    /\ writing > 0 /\ writing' = 0 /\ UNCHANGED <<page, file, row, servedUpTo>>

\* The file is deleted or unreadable from now on.
FileLost == writing = 0 /\ file > 0 /\ file' = 0 /\ UNCHANGED <<page, row, writing, servedUpTo>>

SyncNext == SyncTimeframe \/ ResampleTimeframe
UniverseNext == PageChanges \/ FetchPage \/ FetchFails \/ WriteRow \/ WriteBreaksOff \/ FileLost

\* The bars and the universe share the clock and nothing else.
DataNext ==
    \/ SyncNext /\ UNCHANGED <<universeVars, now>>
    \/ UniverseNext /\ UNCHANGED <<syncVars, now>>
    \/ Tick /\ UNCHANGED <<syncVars, universeVars>>

DataSpec == SyncInit /\ now = 0 /\ [][DataNext]_<<syncVars, universeVars, now>>
-----------------------------------------------------------------------------
(* Properties.                                                             *)

SyncTypeOK ==
    /\ bars \in [Instants -> {"none", "partial", "final"}]
    /\ coarse \in [Instants -> {"none", "partial", "final"}] /\ missed \subseteq Instants
    /\ {page, file, writing, servedUpTo, row.revision} \subseteq 0..Versions

\* "Re-fetch the boundary bar to heal partial/corrected data": however the syncs fall on
\* the clock and whatever they lose, the history has no hole and no unfinished bar but
\* its newest, except where an outage outlasted the look-back; and a coarse bar counts
\* as finished only when its parts are.
HistoryHeals ==
    /\ \A t \in Instants \ missed :
        StoredBars # {} /\ Min(StoredBars) <= t /\ t < LastBar => bars[t] = "final"
    /\ \A k \in Instants : coarse[k] = "final" =>
        bars[2 * k] = "final" /\ bars[2 * k + 1] = "final"

\* A universe the agent has worked with is not replaced by an older one: through failed
\* fetches, expired rows and a stop between the two writes of the caches, the row never
\* falls behind what was served.
UniverseNeverGoesBack == row.revision = servedUpTo

\* latest_close(): "Most recent stored daily close".
LatestCloseIsLatest == StoredBars # {} => LatestClose = LastBar

\* benchmark_change_pct(): "Last daily % change of the crash-detector benchmark".
BenchmarkIsRecent == Cardinality(StoredBars) >= 2 => LastBar \in BenchmarkBars
=============================================================================

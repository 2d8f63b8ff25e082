------------------------------ MODULE Scheduler ------------------------------
(***************************************************************************)
(* automation.scheduler: jobs run by session phase and interval.  run_due  *)
(* reads the clock and lists the due jobs once, then calls them one after  *)
(* the other: time passes, callbacks fail, and a callback may remove and   *)
(* add jobs, itself included, while the list is being worked off.          *)
(***************************************************************************)
EXTENDS Clock, Sequences, FiniteSets, FiniteSetsExt, SequencesExt

CONSTANTS
    DayLength,    \* clock readings per calendar day
    ClosedDays,   \* weekend days and NYSE holidays
    Schedule,     \* pre_market_start .. post_market_end, as readings of a day
    JobTable      \* what the program registers: name -> interval and phases

ASSUME ScheduleAssumption ==
    /\ DayLength \in Nat \ {0} /\ ClosedDays \subseteq Nat
    /\ Schedule.preMarketStart < Schedule.marketOpen
    /\ Schedule.marketOpen < Schedule.marketClose
    /\ Schedule.marketClose < Schedule.postMarketEnd
    /\ Schedule.postMarketEnd <= DayLength
    /\ IsFiniteSet(DOMAIN JobTable) /\ \A name \in DOMAIN JobTable : JobTable[name].interval \in Int

VARIABLES
    jobs,      \* self.jobs: name -> lastRun
    cycleAt,   \* the instant run_due() was called, Idle between calls
    todo,      \* due jobs it has still to call
    lastRow,   \* the row "scheduler:last_runs"
    ran,       \* the instant of the last good run of a job in this life of it
    owed,      \* jobs due at the start of the last cycle, not yet called nor removed
    listedAt   \* the instant of that start

schedVars == <<jobs, cycleAt, todo, lastRow, ran, owed, listedAt>>

Idle == -1
NeverRan == -1
Names == DOMAIN JobTable

SessionPhase(t) ==
    LET reading == t % DayLength
    IN CASE t \div DayLength \in ClosedDays -> "closed"
         [] reading < Schedule.preMarketStart \/ reading >= Schedule.postMarketEnd -> "closed"
         [] reading < Schedule.marketOpen -> "pre_market"
         [] reading < Schedule.marketClose -> "regular"
         [] OTHER -> "post_market"

SchedInit ==
    /\ jobs = <<>> /\ cycleAt = Idle /\ todo = <<>>
    /\ lastRow = <<>> /\ ran = [name \in Names |-> NeverRan] /\ owed = {} /\ listedAt = 0

\* add() registers a job that has never run, also in place of one that has.
Add(name) ==
    /\ cycleAt = Idle
    /\ jobs' = [n \in DOMAIN jobs \cup {name} |-> IF n = name THEN NeverRan ELSE jobs[n]]
    /\ ran' = [ran EXCEPT ![name] = NeverRan]
    /\ UNCHANGED <<cycleAt, todo, lastRow, owed, listedAt>>

JobDue(name, t) ==
    /\ SessionPhase(t) \in JobTable[name].phases
    /\ \/ JobTable[name].interval <= 0 \/ jobs[name] = NeverRan
       \/ t - jobs[name] >= JobTable[name].interval

\* Mutant of BeginCycle: the due jobs are stamped when they are listed.
BeginCycleStamping ==
    /\ cycleAt = Idle /\ cycleAt' = now
    /\ todo' \in SetToSeqs({name \in DOMAIN jobs : JobDue(name, now)})
    /\ jobs' = [n \in DOMAIN jobs |-> IF JobDue(n, now) THEN now ELSE jobs[n]]
    /\ owed' = Range(todo') /\ listedAt' = now
    /\ UNCHANGED <<lastRow, ran>>

\* run_due() lists the due jobs (in the order of registration; any order here).
BeginCycle ==
    /\ cycleAt = Idle /\ cycleAt' = now
    /\ todo' \in SetToSeqs({name \in DOMAIN jobs : JobDue(name, now)})
    /\ owed' = Range(todo') /\ listedAt' = now
    /\ UNCHANGED <<jobs, lastRow, ran>>

Called == Head(todo)

\* What a callback leaves of a function of the jobs: those it removes are gone, those it
\* adds (in place of one of that name, or of one it has removed) have never run.
Changed(f, removed, added) ==
    [n \in (DOMAIN f \ removed) \cup added |-> IF n \in added THEN NeverRan ELSE f[n]]

\* Mutant of JobReturns: the job is not stamped.
JobReturnsUnstamped(removed, added) ==
    /\ todo # <<>> /\ Called \in DOMAIN jobs
    /\ jobs' = Changed(jobs, removed, added)
    /\ ran' = Changed([ran EXCEPT ![Called] = cycleAt], {}, added)
    /\ todo' = Tail(todo) /\ owed' = owed \ (removed \cup {Called})
    /\ UNCHANGED <<cycleAt, lastRow, listedAt>>

\* A callback returns; the job it was called for is stamped with the instant of the cycle,
\* a stamp that is lost with a job that has removed or replaced itself.
JobReturns(removed, added) ==
    /\ todo # <<>> /\ Called \in DOMAIN jobs
    /\ jobs' = Changed([jobs EXCEPT ![Called] = cycleAt], removed, added)
    /\ ran' = Changed([ran EXCEPT ![Called] = cycleAt], {}, added)
    /\ todo' = Tail(todo) /\ owed' = owed \ (removed \cup {Called})
    /\ UNCHANGED <<cycleAt, lastRow, listedAt>>

\* A callback raises, after what it has removed and added: the error is logged and the job
\* keeps its stamp.
JobRaises(removed, added) ==
    /\ todo # <<>> /\ Called \in DOMAIN jobs
    /\ jobs' = Changed(jobs, removed, added) /\ ran' = Changed(ran, {}, added)
    /\ todo' = Tail(todo) /\ owed' = owed \ (removed \cup {Called})
    /\ UNCHANGED <<cycleAt, lastRow, listedAt>>

\* self.jobs[name] of a job a callback has removed: KeyError leaves run_due(), and the rest
\* of the list is not called.
JobIsGone ==
    /\ todo # <<>> /\ Called \notin DOMAIN jobs
    /\ cycleAt' = Idle /\ todo' = <<>>
    /\ UNCHANGED <<jobs, lastRow, ran, owed, listedAt>>

EndCycle ==
    /\ cycleAt # Idle /\ todo = <<>>
    /\ lastRow' = jobs /\ cycleAt' = Idle
    /\ UNCHANGED <<jobs, todo, ran, owed, listedAt>>

\* The constructor loads the row into jobs that are registered already: into none,
\* since it has just made an empty registry.
LoadLastRuns(registry) ==
    [n \in DOMAIN registry |-> IF n \in DOMAIN lastRow THEN lastRow[n] ELSE registry[n]]

SchedRestart ==
    /\ jobs' = LoadLastRuns(<<>>) /\ cycleAt' = Idle /\ todo' = <<>>
    /\ ran' = [name \in Names |-> NeverRan] /\ owed' = {}
    /\ UNCHANGED <<lastRow, listedAt>>

SchedNext ==
    \/ BeginCycle \/ JobIsGone \/ EndCycle \/ SchedRestart
    \/ \E name \in Names : Add(name)
    \/ \E removed, added \in SUBSET Names : JobReturns(removed, added) \/ JobRaises(removed, added)

SchedSpec ==
    /\ SchedInit /\ now = 0
    /\ [][(SchedNext /\ UNCHANGED now) \/ (Tick /\ UNCHANGED schedVars)]_<<schedVars, now>>
-----------------------------------------------------------------------------
(* Properties.                                                             *)

SchedTypeOK ==
    /\ DOMAIN jobs \subseteq Names /\ \A n \in DOMAIN jobs : jobs[n] \in -1..Horizon
    /\ cycleAt \in -1..Horizon /\ Range(todo) \subseteq Names
    /\ DOMAIN lastRow \subseteq Names /\ ran \in [Names -> -1..Horizon] /\ owed \subseteq Names
    /\ listedAt \in 0..Horizon

\* "interval_seconds throttles repeats": between cycles that ran it well a job rests
\* for its interval, whatever other jobs raised, took or removed in between.  (The
\* intervals are those between cycles: a job called late in a long cycle may be
\* called early in the next.)
JobsSpaced ==
    [][\A n \in Names :
        ran'[n] # ran[n] /\ NeverRan \notin {ran[n], ran'[n]} =>
            ran'[n] - ran[n] >= JobTable[n].interval]_<<schedVars, now>>

\* "one bad callback cannot take the schedule down": a job that was due when a cycle began
\* has been called in it, unless a callback removed it, or is registered and as due as it
\* was.  That includes the cycles a KeyError cuts short: they put jobs off, and lose none.
OnlyPutOff ==
    /\ cycleAt # Idle /\ todo = <<>> => owed = {}
    /\ \A n \in owed : n \in DOMAIN jobs /\ JobDue(n, listedAt)

\* MarketScheduler: "last_run timestamps persist in system_state so the schedule
\* survives a restart".
LastRunsSurviveRestart ==
    [][\A n \in (DOMAIN jobs' \ DOMAIN jobs) \cap DOMAIN lastRow :
        jobs'[n] = lastRow[n]]_<<schedVars, now>>
=============================================================================

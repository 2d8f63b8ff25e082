---------------------------- MODULE MCAutomation ----------------------------
(* The three parts of the automation layer on one clock.  They share nothing  *)
(* else, so a behaviour runs one of them, chosen at its start, and leaves the *)
(* other two where they begin.                                                *)
EXTENDS ApprovalQueue, RecoveryRamp, Scheduler

VARIABLE part

automationVars == <<queueVars, rampVars, schedVars, now, part>>

Init ==
    /\ part \in {"queue", "ramp", "scheduler"}
    /\ now = IF part = "queue" THEN 1 ELSE 0
    /\ QueueInit /\ RampInit /\ SchedInit

QueueStep == part = "queue" /\ QueueNext /\ UNCHANGED <<rampVars, schedVars, now, part>>
RampStep == part = "ramp" /\ RampNext /\ UNCHANGED <<queueVars, schedVars, now, part>>
SchedStep == part = "scheduler" /\ SchedNext /\ UNCHANGED <<queueVars, rampVars, now, part>>
TimePasses == Tick /\ UNCHANGED <<queueVars, rampVars, schedVars, part>>

Next == QueueStep \/ RampStep \/ SchedStep \/ TimePasses

\* What its part of the program gets on with: the loop's call under way writes what it has
\* to, the observation of the breaker comes round.
Proceeds ==
    \/ (WriteRow(Loop) \/ LogDecision(Loop)) /\ UNCHANGED <<rampVars, schedVars, now, part>>
    \/ part = "ramp" /\ ObserveBreaker /\ UNCHANGED <<queueVars, schedVars, now, part>>

\* Time passes, and between its other calls the loop gets to expire_due() again and again.
Spec ==
    /\ Init /\ [][Next]_automationVars
    /\ WF_automationVars(TimePasses)
    /\ WF_automationVars(Proceeds)
    /\ SF_automationVars(ExpireDue(Loop) /\ UNCHANGED <<rampVars, schedVars, now, part>>)

AutomationTypeOK == QueueTypeOK /\ RampTypeOK /\ SchedTypeOK

MCTierStarts == <<1, 2, 3>>
MCTiers == <<25, 50, 75, 100>>
\* Three readings a day: before the session, in it, after it.
MCSchedule == [preMarketStart |-> 0, marketOpen |-> 1, marketClose |-> 2, postMarketEnd |-> 3]
MCJobs == ("scan" :> [interval |-> 0, phases |-> {"regular", "post_market"}])
       @@ ("sync" :> [interval |-> 2, phases |-> {"pre_market", "regular"}])
=============================================================================

---------------------------- MODULE MCDecisions ----------------------------
(* What decides before the loop acts, and what keeps it: the merged          *)
(* permission slip, the exchange calendar, the configuration with its live   *)
(* gate, the database file under its threads, the walk-forward folds the     *)
(* models are judged on, and the stops of one position.  They share no       *)
(* state, so a behaviour runs one of them and leaves the others.             *)
EXTENDS TradingPolicy, Calendar, Configuration, Database, WalkForward, PositionStops

CONSTANTS
    loop, watchdog, page,       \* threads: two of the trader's process, one of the dashboard's
    trading, dashboard,
    bars, trade, halt           \* writes: a batch with a row the schema refuses, and two good ones

VARIABLE part

decisionVars == <<policyVars, calendarVars, configVars, databaseVars, walkVars, stopVars, now, part>>

File(sections) == [readable |-> TRUE, sections |-> sections]

Unopened == [side |-> "long", size |-> CHOOSE size \in OpenSizes : TRUE, price |-> Entry, days |-> 0]

\* Where a part that is not run stands.
Init ==
    /\ now = 0 /\ part \in {"policy", "calendar", "configuration", "database", "folds", "stops"}
    /\ PolicyInit /\ (part # "policy" => book = {} /\ enabled)
    /\ CalendarInit /\ (part # "calendar" => today = Date(FirstYear, 1, 1))
    /\ WalkInit
    /\ part # "folds" => setup = CHOOSE s \in [n : Sizes, folds : FoldCounts, embargo : Embargoes, stack : Stacks] : TRUE
    /\ StopsInit /\ (part # "stops" => position = Unopened /\ atr = 0)
    /\ ConfigInit /\ (part # "configuration" => file = File(<<>>) /\ url = "" /\ ~authorized)
    /\ DatabaseInit

PolicyStep ==
    /\ part = "policy" /\ PolicyNext
    /\ UNCHANGED <<calendarVars, configVars, databaseVars, walkVars, stopVars, now, part>>

CalendarStep ==
    /\ part = "calendar" /\ DayTurns
    /\ UNCHANGED <<policyVars, configVars, databaseVars, walkVars, stopVars, now, part>>

ConfigStep ==
    /\ part = "configuration" /\ ConfigNext
    /\ UNCHANGED <<policyVars, calendarVars, databaseVars, walkVars, stopVars, now, part>>

TimePasses ==
    /\ part = "policy" /\ Tick
    /\ UNCHANGED <<policyVars, calendarVars, configVars, databaseVars, walkVars, stopVars, part>>

DatabaseDoes(Action) ==
    /\ part = "database" /\ Action
    /\ UNCHANGED <<policyVars, calendarVars, configVars, walkVars, stopVars, now, part>>

DatabaseStep == DatabaseDoes(DatabaseNext)

FoldStep ==
    /\ part = "folds" /\ WalkNext
    /\ UNCHANGED <<policyVars, calendarVars, configVars, databaseVars, stopVars, now, part>>

StopsStep ==
    /\ part = "stops" /\ StopsNext
    /\ UNCHANGED <<policyVars, calendarVars, configVars, databaseVars, walkVars, now, part>>

Next == PolicyStep \/ CalendarStep \/ ConfigStep \/ TimePasses \/ DatabaseStep \/ FoldStep \/ StopsStep

\* Every step of a thread that is inside a database call comes.
Spec == Init /\ [][Next]_decisionVars /\ \A t \in Threads : WF_decisionVars(DatabaseDoes(Carry(t)))

\* The database alone, with nothing assumed of its threads.
DatabaseOnlySpec == part = "database" /\ Init /\ [][Next]_decisionVars

MCProcessOf == (loop :> trading) @@ (watchdog :> trading) @@ (page :> dashboard)
MCRowsOf == (bars :> <<1, 2>>) @@ (trade :> <<3>>) @@ (halt :> <<4>>)

\* A position on each side, in one sector: what a crash does to a sector regards no other.
MCPositions ==
    {[stock |-> "AAPL", sector |-> "tech", side |-> "long", profit |-> -2],
     [stock |-> "INTC", sector |-> "tech", side |-> "short", profit |-> 1]}

LiveUrl == "https://api.alpaca.markets"

\* Flat and nested broker sections, the nested one missing, malformed, empty or partial;
\* live mode with and without a broker for it; ladders in and out of order.
MCFiles ==
    {[readable |-> FALSE, sections |-> <<>>], File(<<>>)}
    \cup {File("broker" :> [name |-> "alpaca", paper_trading |-> flag, alpaca_base_url |-> endpoint]) :
            flag \in BOOLEAN, endpoint \in {PaperUrl, LiveUrl}}
    \cup {File("broker" :> [name |-> "alpaca", paper_trading |-> FALSE] @@ "alpaca" :> nested) :
            nested \in {Malformed, <<>>, [base_url |-> FromEnv], [base_url |-> LiveUrl], [mode |-> "live"]}}
    \cup {File("trading" :> [mode |-> "live"] @@ "broker" :> broker) : broker \in {[name |-> "ibkr"], Malformed}}
    \cup {File("daily_loss" :> levels) :
            levels \in {<<-5, -10, -20, -30>>, <<-10, -20, -20, -30>>, <<-10, -15, -30, -20>>}}
    \cup {File("recovery" :> <<25, 75, 50, 100>>), File("vix" :> <<20, 20, 30, 40>>)}

MCStacks == {<<"net", "trees">>, <<"custom">>}

MCEvidence == {{}, Criteria \ {"human_authorization"}, Criteria}
=============================================================================

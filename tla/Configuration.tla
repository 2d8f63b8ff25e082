---------------------------- MODULE Configuration ----------------------------
(***************************************************************************)
(* config.yaml from the file to the broker it selects: sections filled up  *)
(* with defaults, values taken from the environment, validation, the       *)
(* process-wide cache, and the live gate every Alpaca client passes.       *)
(***************************************************************************)
EXTENDS Integers, Sequences, TLC

CONSTANTS
    Files,       \* what config.yaml may hold: [readable, sections]
    Evidence,    \* what an operator may bring: subsets of Criteria
    Malformed,   \* a section that is not a mapping
    FromEnv,     \* a value written ${ALPACA_URL}
    NoConfig, NoClient

VARIABLES
    file,        \* config.yaml
    url,         \* ALPACA_URL in the process environment, "" when unset
    authorized,  \* FIN_TRADE_LIVE_AUTHORIZATION holds the phrase
    cached,      \* _CONFIG_CACHE
    client       \* the trading client built last

configVars == <<file, url, authorized, cached, client>>

Criteria == {"paper_days", "sharpe", "max_drawdown", "win_rate", "breakers_tested", "human_authorization"}
PaperUrl == "https://paper-api.alpaca.markets"
-----------------------------------------------------------------------------
(* Loading.                                                                *)

LossLadders == {"daily_loss", "weekly_loss", "monthly_loss", "drawdown", "market_crash"}

\* The dataclass defaults; losses in per mille, sizes in percent, times in minutes.
Defaults ==
    [trading |-> [mode |-> "paper", require_live_authorization_env |-> TRUE],
     broker |-> [name |-> "paper_only", paper_trading |-> TRUE, alpaca_base_url |-> PaperUrl],
     alpaca |-> [mode |-> "paper", base_url |-> PaperUrl],
     daily_loss |-> <<-10, -15, -20, -30>>, weekly_loss |-> <<-30, -50, -70>>,
     monthly_loss |-> <<-50, -80, -120>>, drawdown |-> <<-50, -80, -120, -150>>,
     market_crash |-> <<-20, -30, -50>>, vix |-> <<20, 25, 30, 40>>,
     recovery |-> <<25, 50, 75, 100>>,
     automation |-> [pre_market_start |-> 360, market_open |-> 570, stop_new_entries |-> 945,
                     market_close |-> 960, post_market_end |-> 1080]]

\* _substitute_env(): an unset variable becomes the empty string.
Substituted(value) == IF value = FromEnv THEN url ELSE value

\* _section(): the keys that are there and known, defaults for the others.
Section(name, given) ==
    IF name \notin DOMAIN given \/ given[name] = Malformed THEN Defaults[name]
    ELSE [k \in DOMAIN Defaults[name] |->
            IF k \in DOMAIN given[name] THEN Substituted(given[name][k]) ELSE Defaults[name][k]]

\* broker.alpaca, here "alpaca", derived from the flat fields of its parent when it is not a mapping;
\* it goes with a malformed parent.
AlpacaSection(given) ==
    LET broker == Section("broker", given)
        flat == [mode |-> IF broker.paper_trading THEN "paper" ELSE "live", base_url |-> broker.alpaca_base_url]
    IN IF "broker" \in DOMAIN given /\ given["broker"] = Malformed THEN Defaults["alpaca"]
       ELSE IF "alpaca" \notin DOMAIN given \/ given["alpaca"] = Malformed THEN flat
       ELSE Section("alpaca", given)

\* _build_root()
BuildRoot(given) ==
    [name \in DOMAIN Defaults |->
        IF name = "alpaca" THEN AlpacaSection(given) ELSE Section(name, given)]

\* Mutant of Descending: two levels may share a threshold.
DescendingWeakly(levels) ==
    /\ \A i \in DOMAIN levels : levels[i] \in -999 .. -1
    /\ \A i \in DOMAIN levels : i + 1 \in DOMAIN levels => levels[i] >= levels[i + 1]

\* A level that is no number does not load either: the comparison raises.
Descending(levels) ==
    /\ \A i \in DOMAIN levels : levels[i] \in -999 .. -1
    /\ \A i \in DOMAIN levels : i + 1 \in DOMAIN levels => levels[i] > levels[i + 1]

LiveModeAllowed(cfg) ==
    cfg["trading"].mode = "live" =>
        /\ cfg["broker"].name \in {"alpaca", "ibkr"}
        /\ cfg["trading"].require_live_authorization_env => authorized

BreakersValid(cfg) ==
    /\ \A ladder \in LossLadders : Descending(cfg[ladder])
    /\ LET vix == cfg["vix"] IN 0 < vix[1] /\ \A i \in 1 .. 3 : vix[i] < vix[i + 1]

RecoveryValid(cfg) ==
    LET sizes == cfg["recovery"]
    IN (\A i \in 1 .. 4 : sizes[i] \in 1 .. 100) /\ \A i \in 1 .. 3 : sizes[i] <= sizes[i + 1]

ScheduleValid(cfg) ==
    LET auto == cfg["automation"]
    IN /\ auto.pre_market_start < auto.market_open /\ auto.market_open <= auto.stop_new_entries
       /\ auto.stop_new_entries < auto.market_close /\ auto.market_close < auto.post_market_end

BrokerValid(cfg) ==
    /\ cfg["broker"].name \in {"alpaca", "ibkr", "paper_only"}
    /\ cfg["alpaca"].base_url # "" /\ cfg["alpaca"].mode \in {"paper", "live"}

Validate(cfg) ==
    LiveModeAllowed(cfg) /\ BreakersValid(cfg) /\ RecoveryValid(cfg) /\ ScheduleValid(cfg) /\ BrokerValid(cfg)

\* load_config() returns, and what.
Loads == file.readable /\ Validate(BuildRoot(file.sections))
Loaded == BuildRoot(file.sections)
-----------------------------------------------------------------------------
(* The live gate.                                                          *)

EvaluateLiveGate(name, evidence) == name \in {"alpaca", "ibkr"} /\ evidence = Criteria

RequiresLiveGate(mode, endpoint) == mode = "live" \/ endpoint # PaperUrl
-----------------------------------------------------------------------------
ConfigInit ==
    /\ file \in Files /\ url \in {"", PaperUrl} /\ authorized \in BOOLEAN
    /\ cached = NoConfig /\ client = NoClient

EditFile == \E f \in Files : file' = f /\ UNCHANGED <<url, authorized, cached, client>>

NewProcess ==
    /\ url' \in {"", PaperUrl} /\ authorized' \in BOOLEAN
    /\ cached' = NoConfig /\ client' = NoClient
    /\ UNCHANGED file

\* get_config(): a file that does not load raises and leaves the cache as it was.
GetConfig(reload) ==
    /\ reload \/ cached = NoConfig
    /\ Loads
    /\ cached' = Loaded
    /\ UNCHANGED <<file, url, authorized, client>>

\* AlpacaBrokerAdapter(): the gate once more, on the endpoint in use; a refusal raises.
ConstructAdapter(cfg, endpoint, evidence) ==
    LET mode == cfg["alpaca"].mode
    IN /\ RequiresLiveGate(mode, endpoint) => EvaluateLiveGate("alpaca", evidence)
       /\ client' = [mode |-> mode, url |-> endpoint, trading |-> cfg["trading"].mode]
       /\ UNCHANGED <<file, url, authorized, cached>>

\* build_broker(), on the configuration it is given or loads itself.
BuildBroker(cfg, evidence) ==
    LET alpaca == cfg["alpaca"]
    IN /\ cfg["broker"].name = "alpaca"
       /\ RequiresLiveGate(alpaca.mode, alpaca.base_url) => EvaluateLiveGate("alpaca", evidence)
       /\ ConstructAdapter(cfg, alpaca.base_url, evidence)

Configs == (IF cached = NoConfig THEN {} ELSE {cached}) \cup (IF Loads THEN {Loaded} ELSE {})

ConfigNext ==
    \/ EditFile \/ NewProcess
    \/ \E reload \in BOOLEAN : GetConfig(reload)
    \/ \E cfg \in Configs, evidence \in Evidence :
        \/ BuildBroker(cfg, evidence)
        \* The sandbox script builds the adapter itself, on an endpoint of its caller's.
        \/ \E endpoint \in {PaperUrl, "https://api.alpaca.markets"} : ConstructAdapter(cfg, endpoint, evidence)

ConfigSpec == ConfigInit /\ [][ConfigNext]_configVars
-----------------------------------------------------------------------------
(* Properties.                                                             *)

\* The level _check_losses() finds for a loss: the deepest threshold it has reached.
LevelFor(loss, levels) ==
    IF \A i \in DOMAIN levels : loss > levels[i] THEN 0
    ELSE CHOOSE i \in DOMAIN levels :
        loss <= levels[i] /\ \A j \in DOMAIN levels : loss <= levels[j] => j <= i

\* "misconfiguration fails at startup, not mid-trading": in the configuration in use, also
\* after a reload that failed, every level of every ladder is the level of some loss, and
\* the recovery never takes back a size.
NoDeadRung ==
    cached # NoConfig =>
        /\ \A ladder \in LossLadders : \A i \in DOMAIN cached[ladder] :
            \E j \in DOMAIN cached[ladder] : LevelFor(cached[ladder][j], cached[ladder]) = i
        /\ \A i, j \in 1 .. 4 : i < j => cached["recovery"][i] <= cached["recovery"][j]

\* "trading.mode: paper -> no real money at risk".
PaperModeIsPaper ==
    client # NoClient /\ client.trading = "paper" => client.mode = "paper" /\ client.url = PaperUrl
=============================================================================

# fin-trade: TLA+ models and proofs

fin-trade is a local-first paper-trading system in Python. Nothing in it may lose a halt, duplicate an order or
let its books drift, and those are the parts that restarts, retries and long sequences of calls can break where a
unit test rarely looks. This directory holds models of those parts in TLA+, the TLC runs that check them on small
instances, and theorems about them checked by TLAPS for every value of the constants.

Contents: [inventory](#1-inventory) · [what is modelled](#2-modules-and-the-code-they-model) ·
[runs](#3-runs-and-bounds) · [fairness](#4-fairness) · [proofs](#5-proofs) ·
[divergences](#6-where-the-code-and-its-texts-disagree) · [not modelled](#7-what-is-not-modelled) ·
[plan](#8-plan)

Paths are relative to the repository.

## 1. Inventory

| Component | State it keeps | Operations | Talks to | Hard behaviours | What makes it correct |
|---|---|---|---|---|---|
| **Circuit breaker core** `risk/circuit_breakers.py` `CircuitBreakerManager` | trading state, latched ("sticky") triggers, kill flag, lock window, period anchors and peak, recovery throttle, pending override tokens; one row of `breaker_state` | `evaluate`, `activate_kill_switch`, `suspend`, `report/clear_position_mismatch(es)`, `request/confirm_override`, `resume`, restore at construction | database row; its state reaches the gateway in the caller's snapshot; driven by dashboard and reconciler | crash between two calls or inside `resume`; writes that fail silently; several triggers latching and overwriting one lock; de-escalation every cycle; token expiry | a halt outlives restarts; a latch or a lock is never undercut; only a human releases EMERGENCY; a condition-driven halt ends by itself; loss figures are never re-based |
| **Permission slip** (same file, end of `evaluate`) | sector block map | merging of the directives of all active triggers into one `TradingPolicy` | breaker core, dashboard's `_derive_trading_policy` | directives of many triggers meeting; a block that outlives its crash and a restart, saved by a commit of its own | one more trigger never loosens; a block is served in full |
| **Market detectors** (same file) | index ticks, flash-crash pause, heartbeats, API failure count | run inside `evaluate`, `record_*` | kv store | pauses kept only in memory; a window of ticks shared by two crashes | a pause ends by its time or a recovery; an outage is one outage |
| **Order-flow gate** (same file) | submission times per minute and second, attempts per fingerprint | `can_submit_order`, `register_order_submission`, `reset_order_attempts` | adapters | check and registration are two calls of several strategies | the caps hold for what is sent |
| **Position-level breakers** (same file) | none | `evaluate_position` | execution layer | boundaries of the ladders; several answers to one review | a loss is cut |
| **Risk gateway** `risk/position_limits.py` | none of its own | `evaluate_order`, `transmit`: limits and the snapshot's breaker state, then the broker's `submit` | broker | portfolio figures and breaker state older than the order; orders that share a snapshot or rest | limits bound the account, not each snapshot |
| **Order lifecycle** `trading/order_types.py` | transition table; trailing anchor, OCO and bracket links of an order | `transition`, `evaluate_trigger`, `ratchet_trailing`, `cancel_oco_siblings`, `cancel_bracket_twin` | paper broker | trigger that is already through its limit; anchor and stop on one bar | the evaluator never leaves the table; anchors ratchet; siblings cancel |
| **Paper broker** `trading/paper_broker.py` | ledger of orders, FIFO lots, cash, position, realised profit, waiting bracket children, duplicate map, submissions of the last minute; rows of `paper_trades` | `place_order`, `place_oco`, `place_bracket`, `submit`, `mark_price` | gateway, order lifecycle, fill engine, database | fills inside the loop that places or marks; nested placement out of a fill; a gateway refusal that unwinds it; a crash between two statements of one fill | position = lots = rows; cash and profit balance; one exit per entry; ids and rate stay inside their windows |
| **Broker adapters** `trading/broker_base.py`, `paper_adapter.py`, `alpaca_adapter.py` | adapter lifecycle, retry budget, live gate | `submit`, `cancel`, `cancel_all`, `replace`, `flatten`, `engage_kill_switch`, `with_retry` | paper broker or Alpaca | a timed-out call that did arrive; a retry of what was done; a kill switch beside a trader | a kill switch leaves no position; one intent makes a bounded number of orders; no live client without evidence |
| **Approval queue** `automation/approval_queue.py` | queued signals with a state and a time to live, one kv row, an audit table | `enqueue`, `approve`, `reject`, `expire_due`, `next_approved`, `mark_executed`, restore | dashboard, automation, kv row | two instances each writing the whole queue; row and log as two commits; reused ids; approval after the time to live | nothing runs that nobody approved, nor once its end is on the row; nothing waits for ever |
| **Recovery ramp** `automation/recovery.py` | halted, frozen, start, cooling-off, equity at resume; one kv row | `mark_halted`, `resume`, `observe_breaker`, `reload`, `size_order` | breaker | a resume that comes before the cooling-off ends; two throttles advanced separately | size is earned by a resume and by time |
| **Reconciler** `automation/reconcile.py` | none | compare database, account and breaker; waive | all three | a mismatch appearing while another is cleared | a divergence blocks entries until a human clears it |
| **Scheduler** `automation/scheduler.py` | job table, last run of each job, one kv row | `add`, `remove`, `run_due`, `execution_allowed` | clock, calendar | callbacks that raise, take long, add jobs or remove some of the list being worked off | jobs keep their distance; a due job is put off at most |
| **Calendar** `utils/helpers.py` | none | holidays, sessions, counting in sessions | scheduler, locks, digest | turns of the year, observed holidays, moving feasts | counting can be undone; a session is never far |
| **Configuration** `utils/config.py` | the process-wide cached configuration | `load`, defaults, environment, `validate`, `get_config`, reload | everything; the live gate | flat and nested broker sections; a reload that fails | what is in use was validated; ladders are sane |
| **Database** `data/database.py` | SQLite tables, kv store, one connection per thread, a writer lock | statements, batches, transactions, `split/close_paper_trade`, sync | everything | threads of two processes on one file; a refused statement; process death; retries | told done = in the file; nothing written twice; every write is answered |
| **Data agent** `agents/data_agent.py` | stored bars, universe and constituents caches | `sync_timeframe`, resampling, readers, `UniverseManager` | providers, database | partial bars, outages longer than the look-back | no hole and no unfinished bar in the history |
| **Dashboard** `dashboard/app.py`, `actions.py`, `_ui.py`, `data.py` | per run of the page: a breaker manager, a queue, a broker | kill switch, resume, approve, reject | everything | a second writer of every row; a page that is rebuilt on every click | what the operator is told happens |
| **Validation and ensemble** `models/optimization.py`, `ensemble.py` | folds, studies, out-of-fold predictions | walk-forward split, nested search, stacked `fit` | models | embargo, failing base models, folds without rows | nothing is judged on what it was learnt from |
| **Models and features, backtest statistics, digest, notify, logging, scripts** | caches, reports | numerics, formatting, delivery | providers | floating point, I/O | see [section 7](#7-what-is-not-modelled) |

The flow of one decision: a signal waits in the approval queue; the automation layer sizes it with the recovery ramp
and hands it to the risk gateway; the gateway applies its limits and the breaker state the caller put into the portfolio
snapshot, and calls the broker's `submit`; the broker fills it against its order lifecycle and books lots, cash and rows; equity goes
back to the breaker in the next portfolio snapshot. The operator reaches in from the side: kill switch, suspension, override
tokens, approvals. Every arrow of this flow is a synchronous call; what makes the system hard is that each component
restores itself from its own row, that exceptions leave calls half done, that any call may follow any other, and that the
dashboard is a second process with its own instances over the same rows.

PROJECT.json lists the hazards of this code one by one, at the line where each bites, with the properties that
cover it or the reason none does.

## 2. Modules and the code they model

| Module | Models |
|---|---|
| `BreakerLevels` | the tables of the breaker: alert level, stickiness and forced state of each trigger category and level, the severity order, legal transitions and step-down |
| `CircuitBreaker` | `CircuitBreakerManager`: one action per public method, persistence, crash and restart |
| `HaltLatch` | the abstract promise: a halt only a human with a grant can release, and nobody while it is sealed |
| `TradingPolicy` | the permission slip: directives of every trigger, their merge, sector blocks, and the dashboard's derivation of the same |
| `MarketWatch` | flash-crash pause; feed heartbeats and broker API failures |
| `OrderFlow` | rate cap, duplicate window and attempt ceiling under several strategies |
| `PositionStops` | `evaluate_position`, review after review |
| `OrderLimits` | the gateway, with shared and old snapshots and orders that rest at the broker |
| `OrderTypes` | the order lifecycle as operators: transition table, trigger evaluation, ratchet, OCO and twin cancellation |
| `PaperBroker`, `PaperAdapter` | the paper broker for one symbol; cancel, replace and the kill switch of its adapter |
| `Ledger` | rows of `paper_trades` behind the fills, and reconciliation |
| `BrokerCall` | `with_retry` and `_call_with_timeout` around any vendor call |
| `AlpacaAdapter` | extends it: placements, cancellations, flatten and the kill switch against an exchange |
| `Clock` | the injected clock the modules below share |
| `ApprovalQueue` | every instance of the queue, its kv row and its audit table, commit by commit |
| `RecoveryRamp` | the ramp, over the abstract breaker of `HaltLatch` |
| `Scheduler` | phases, intervals and the cycle of `run_due` |
| `DataSync` | incremental sync, resampling and caches for one symbol |
| `Calendar` | the exchange calendar, arithmetic and all |
| `Configuration` | from `config.yaml` to the client it selects |
| `Database` | connections, writer lock, retries and transactions of `DatabaseManager` |
| `WalkForward` | folds, nested search, stacking |
| `Desk` | the dashboard's kill switch across runs of the page |
| `MCCircuitBreaker`, `MCPaperBroker`, `MCAutomation`, `MCExecution`, `MCMonitoring`, `MCDecisions` | instances for TLC |
| `Lemmas` | facts about naturals, maxima and folds that several proofs need |
| `CircuitBreaker_proofs` | theorems about `CircuitBreaker` and its refinement of `HaltLatch` |
| `PaperBroker_proofs`, `PaperBooks_proofs` | about `PaperBroker` under its adapter: orders and ids; lots and cash |
| `Automation_proofs` | about `ApprovalQueue`, `RecoveryRamp` and `Scheduler` |
| `Execution_proofs` | about `AlpacaAdapter` |
| `Monitoring_proofs` | about `MarketWatch`, `OrderFlow`, `OrderLimits`, `DataSync` and `Ledger` |
| `Decisions_proofs` | about `PositionStops`, `Configuration`, `WalkForward`, `TradingPolicy`, `Database` and `Calendar` ([section 5](#5-proofs)) |

Composition. `RecoveryRamp` runs over `HaltLatch`, which `CircuitBreaker` is shown to implement; `PaperAdapter` extends `PaperBroker`,
which uses `OrderTypes`; `AlpacaAdapter` extends `BrokerCall`; `TradingPolicy` and `CircuitBreaker` share `BreakerLevels`. Components that share
nothing but the clock are checked side by side: `MCAutomation`, `MCMonitoring` and `MCDecisions` each have a variable `part` that
chooses, at the start of a behaviour, which of their components runs; the others stay where they begin. A run of such a module is
the union of the runs of its parts, never their product, and a property of one part says nothing of another.

### 2.1 The circuit breaker

`state`, `sticky`, `killed`, `lockedUntil`, `anchor`, `recovery`, `mismatch` and `tokens` are the manager's fields;
`row` is what `_persist` wrote last and `_restore` reads; `policy` is the last `TradingPolicy` handed out, cut to the
fields the properties speak of. `equity` and `vix` are the environment: any snapshot may follow any other.

* `Evaluate` is all of `_evaluate_inner`: roll the anchors, collect the triggers of the loss ladders, the VIX ladder and
  the mismatch report, latch the sticky ones, apply their locks, move the state (up at once, down one step, and out
  of HALTED only when nothing latched it), build the policy, advance the throttle, write the row.
* `resume()` is three actions, because its walk is a loop that can run for ever and because a crash may come inside
  it: `StartWalk` clears latches, kill flag and lock; `WalkStep` is one turn of the loop; `FinishResume` writes. It may be
  called in every state, those included in which its walk never ends.
* `Restart` is a crash at any point followed by construction: fields are taken from `row`, the kill flag is
  recomputed from the latched triggers, tokens and mismatch reports are lost.
* `Persist` may silently fail when `DbMayFail` is set, as the swallowed exception in `_persist` allows.
* A trigger carries its category, its level and the loss figure it prints: the code deduplicates latches on the printed
  description, so the same breach latches again, and re-arms its lock, when equity moves.
* Equity is an integer and a threshold a number of basis points; the comparison is the source's ratio multiplied out.
  The clock ticks `DayTicks` times a day and the session opens at `OpenTick`; weeks, trading days and months are
  constants so that an instance can put a weekend within three ticks. Token expiry uses the monotonic clock in the
  source and is therefore an action of its own, unrelated to `now`.

### 2.2 The paper broker

The broker runs one public call at a time, but a call places several orders, fills place more, and an exception can
leave it anywhere. `call` is the rest of the call in progress, a stack of tasks: send a request, look at a resting
order, follow an entry with its bracket children, send the protective order. `Transmit` is `gateway.transmit` plus all
of `submit`: idempotency check, ledger entry, immediate evaluation and, if it fills, `_fill_order` with the
cancellation of siblings, the lots, the cash and the release of waiting children, which are pushed on top of the stack.
`Refuse` is the gateway raising `PermissionError`, which unwinds the call and leaves everything done so far.
`MarkPrice` pushes one look per order live at the start, because the code walks a copy of the ledger, and `LookAt`
skips those a fill has cancelled in the meantime. `beside` of a filled order is history: how many orders were in the ledger when it filled.

What is abstracted: one symbol; buying and selling cover `sell_short` and `cover`; callers pass the mark as the
request's price; commissions and slippage are `UnitCost` per unit; the trailing distance is absolute; client ids are
numbers, with the ones above `Callers` standing for `uuid4()`; the rows of `paper_trades` are `Ledger`'s concern (the broker runs without a database, as it may: `db` defaults to None); the gateway either lets a request pass or raises. A partial
fill takes any part of the quantity, where the code draws one fraction.

### 2.3 Automation: queue, ramp, scheduler

* `ApprovalQueue`. `signals[p]` is the whole dictionary of instance `p`, `saved` the row, `audit` the table. Each operation is `Put` or
  `Moved` on the instance's own copy; then, for each entry it has changed, `WriteRow` writes that copy over the row and `LogDecision` adds the audit entry, two
  commits either of which may fail (the second is not tried after a failure of the first). Any instance, the same one included, may die before either: `Load` forgets what was left to write.
  An entry has a number of its own, so that a signal id used twice is two entries. The dashboard is an instance that starts at any
  time, from whatever the row then holds. `closed` is history: the entries whose end has been on the row.
* `RecoveryRamp`. `ramp` is the object, `rampRow` the row; `observe_breaker` reads the mode of a `HaltLatch`, which moves by itself.
  Writes of this row are taken to succeed, so what is said of a restart is said of one that finds what was written. `resumed` and
  `served` are history: when the last resume was and until when the announced pause lasts.
* `Scheduler`. `BeginCycle` reads the clock once and lists the due jobs; `JobReturns`, `JobRaises` and `JobIsGone` take one off the list each, the last of them the rest
  with it, and time may pass between them; a callback may remove and add any jobs, itself included, whether it then returns or raises. `lastRow` is the kv row a restart reads; `ran`, `owed` and
  `listedAt` are history.

### 2.4 Execution

`BrokerCall` is one call to the vendor: attempts, back-off, and a timeout that gives up on the answer and not on the worker (leaving the
executor waits for it). `AlpacaAdapter` has two threads over it. Each attempt (`SubmitWorks`, `CancelWorks`, `CancelAllWorks`, `FlattenWorks`,
`CloseWorks`) chooses whether it has its effect at the exchange and how it ends, one without the other if it likes, and `Answer` is what the
caller gets of that; `CancelAllWorks` may break off with some orders cancelled, as the fallback does that cancels them in turn. `ExchangeFills` may come at any time. An exchange may know client ids or not, and its client offers
`close_all_positions` or not (`Venues`). The kill switch is `cancel_all`, then `flatten`, with the fallback that reads the positions and closes
them one by one inside a retry of its own (`outer`), then the breaker's latch, as `engage_kill_switch` and `dashboard/actions.py`
call them. `overlap` remembers a placement that ran beside the switch, `doubled` a closing order that was executed twice.

### 2.5 Monitoring

* `MarketWatch`: ticks arrive at any time, `Recent` is the window of them, `CheckFlashCrash` decides on it; heartbeats, API failures and
  `CheckTechnical` the same for the feeds. All of it lives in memory and is forgotten by a restart.
* `OrderFlow`: `CanSubmitOrder` and `RegisterOrderSubmission` are two actions, and any strategy may come in between. `sent` is history.
* `OrderLimits`: a call takes one snapshot for all of its orders (`Tickets`), the way `place_oco` and `place_bracket` do; each is judged on it at some later time and then rests until it is
  filled or cancelled, in no snapshot meanwhile. Orders fill as a whole and the price is 1; how many orders can be under way at a time is a constant.
* `DataSync`: a sync covers from the newest stored bar to now, clamped to the look-back, and may fail; a bar is whole when its time is over.
  The constituents' page changes at any time; a failed fetch falls back to the older cache.
* `Ledger`: one fill is a list of statements, each of which commits by itself, and a move of the position the broker holds in memory, which comes after the closings; a crash loses
  the rest of the list, and the position, a failed statement leaves the process running with lots that are no longer its rows (`hurt`).
  `ReconcilePositions` compares that position with the open rows and reports; `ClearPositionMismatch` is the operator's waiver.

### 2.6 Decisions, and what keeps them

* `TradingPolicy`: `book` is any set of the positions, the active triggers any set of `Kinds`; `Merged` is the
  aggregation at the end of `evaluate`, `SlipWhenDisabled` the slip of disabled breakers, `Derived` the dashboard's own reading of the persisted row. `Persist` is two commits, the
  row and the sector blocks: both may come, the first alone, or none, by a failure or by the process's end. `lastCrash` and `recorded` are history: when a sector last crashed, as far as
  the process can know after its last restart, and what of that a completed save came after.
* `Calendar`: dates are ordinals, and the month, weekday, Easter and holiday arithmetic is the source's. One action turns the day.
* `Configuration`: a file is a set of sections; loading fills in defaults, `${...}` and environment overrides, then
  validates or raises; `ConstructAdapter` is `build_broker` with the criteria of the live gate.
* `Database`: `Carry(t)` is the rest of the call thread `t` is in: taking the writer lock, the statement (or its failure, or SQLite's
  "locked"), commit, release; after a "locked" the lock is given back and, up to three times, asked for again. The implicit transaction of sqlite3 belongs to the connection and outlives the call. Killing a process
  rolls back what its connections held.
* `WalkForward`: what a model learnt is the set of rows whose labels it saw: `tuned[i]` for the search of fold `i`, `meta[b][i]` for the
  meta-feature of row `i`. `BaseFails` is the exception handler, which fills the whole column with the mean of what stands in it.
* `PositionStops`: `Review` carries out every answer of `evaluate_position`; then the market moves, by at most `MaxMove`, and days pass.
* `Desk`: each click is a new run of the page and a new manager restored from the row; minted tokens are in the manager, and the page keeps the last one in its session state without displaying it.

### 2.7 Mutants beside the definitions

A definition under the comment "Mutant" (or "Mutants of ...") is not part of the model: nothing refers to it. It is the
way that definition could plausibly be wrong, and PROJECT.json pairs it with the property that then fails, so each
property is known to depend on the code it is about.

## 3. Runs and bounds

| Run | Shows | Instance | States |
|---|---|---|---|
| `breaker_operator` | kill switch, suspension, mismatches, VIX halts, tokens (expired ones too) and `resume` interleaved with crashes and restarts, with the breakers enabled or disabled: latches, durable row, no entry while anything is latched, and the refinement of `HaltLatch` | 1 equity, VIX levels 0, 3, 4, 1 token, clock 0..2 | 111 948 |
| `breaker_losses` | equity through the loss ladders over days and a weekend with restarts and resumes: locks expire only with their session, anchors never move inside a period, the throttle survives restarts | 2 equities 2.2 % apart, 3 days, week of 2 days | 454 276 |
| `breaker_liveness` | a calm breaker returns to NORMAL; `resume` returns from every state but NORMAL and CAUTION, where it goes round | VIX levels 0, 2, 3, fixed clock, FairSpec | 3 210 |
| `paper_ledger` | every kind of order, partial fills, an OCO pair, a bracket, cancel, replace, kill switch, refusals anywhere: books balance, a fill ends the siblings there are | 3 price levels, 3 bars, 3 orders | 553 241 |
| `paper_brackets` | brackets under one caller id, retried in and out of the window as time passes: children follow their entry, a fill ends the twins there are, ids stay in their window | 2 bars, up to 6 orders, clock 0..2 | 1 590 000 |
| `automation` | two queues over one row with crashes and failures between decision, row and log, and a reused id; the ramp over the halt latch; a scheduler whose callbacks fail, take time, remove and add jobs | 1 signal id, 2 entries, 2 instances; 4 tiers; 2 jobs; clock 0..3 | 427 509 |
| `execution` | placements and cancellations beside the kill switch, answers late or lost, fills at any time, with and without `close_all_positions` and known ids | 2 orders in one stock, 2 attempts | 275 837 |
| `monitoring` | the flash-crash pause and the feed watch; the order-flow gate; the limits under shared and old snapshots and resting orders; incremental sync with outages; the trade ledger with crashes and failed writes | 4 ticks of 3 prices; 2 strategies, 3 orders a minute; 2 stocks in one sector, 2 orders under way; look-back of 2 bars; 5 rows, 2 troubles | 675 984 |
| `decisions` | the merged slip under every set of triggers, with failures and deaths between the commits of a save; five years of the calendar; every file of a set, and reloads that fail; three threads of two processes on one database; folds, search and stacking; the stops of one position | 2 positions in a sector, 2 triggers, 3 states; 2020..2024; 23 files; 3 writes; 2, 8 and 9 rows in 2 and 4 folds; moves of up to 3 within 9 of the entry | 38 623 |
| `dashboard_kill`, `database_stuck`, `broker_hung_call` | each finds the counterexample of one divergence of [section 6](#6-where-the-code-and-its-texts-disagree) | as small as the counterexample allows | - |

Why these bounds are enough to be worth something:

* The breaker's behaviour depends on equity only through which level of which ladder is breached. A fall of 2.2 %
  is a level-3 daily loss (it locks to the next open) and no breach of the other ladders; 16 % and 12 % (in
  `BreakerCoolingOff.cfg`) reach drawdown level 4. Three days cover an anchor roll of the day and of the week, and, in a week
  of two days with one trading day, a lock across the weekend. The month never rolls inside the bound; `PeriodKey`
  treats it as it treats the week, and the theorems hold for any calendar.
* One token suffices to spend, expire, refuse and mint again; two tokens only permute.
* Every public method is enabled in `breaker_operator` after every other, with a restart between any two, so the bound is
  the clock alone. In that run the equity is fixed, because the loss ladders reach the same states with other triggers.
* Three price levels give each trigger a side below, at and above; the bars contain one that touches everything at once,
  which is the case where the order of evaluation matters. Three orders hold a group with its anchor order, or
  an entry with both children; six hold two brackets under one id. `MaxOrders` counts waiting children, so a bracket is
  never cut off half way.
* `Window` 1 and `RateWindow` 2 with a clock of 0..2 let an id be repeated inside the window, at its edge and after it,
  and let a minute roll.
* One signal id with two entries is the reuse that matters: the second entry replaces the first in one instance while the other still
  holds it. Two instances are all there are (loop and page). `Ttl` 1 on a clock of 0..3 lets both entries expire. The tiers are one reading long each, the
  cooling-off two, so an early resume and a late one both occur.
* Two attempts are the least that make a retry after an effect; the lines are the same for any number. Two orders, one with a client id and one
  without, are the two cases of `RepeatsAreBounded`.
* In `monitoring` windows are as long as makes a boundary reachable on both sides: a crash window of 1 and a pause of 2 within 5 instants hold two
  crashes with overlapping windows; limits are reached by two orders of the largest size, which may share a snapshot, act on two, or rest side by side; a look-back of 2 in 6 instants
  leaves room for outages shorter and longer than it. Five rows hold a fill that closes one lot, splits the next and opens the excess.
* In `decisions` the two triggers are one that latches and one that does not, of different sizes, caps and barred sides, on a position of either side; both are in one sector, since
  what a crash does to one regards no other (the theorem holds for any number). The block of two readings on a clock of 0..2 can be renewed, outlive a restart and end; `RESTRICTED` is the state in which only the
  block keeps a long out. The calendar's years contain two leap years, the year Juneteenth begins, a Saturday and a Sunday for each fixed holiday (Juneteenth falls on
  a Saturday only before it is one), and the turn of a year on a Saturday. The three writes are a batch the schema refuses in its middle
  and two good ones, under every interleaving of three threads, two of which share a writer lock. Nine rows in four folds are the
  uneven split, two rows in four folds the one with empty windows.

`paper_ledger` fixes the clock (`MaxTime = 0`): its properties do not read it and the duplicate window then refuses as
much as it ever does. `breaker_liveness` fixes it because calmness is required from some point on and a lock that never
expires is excluded by its premise. All runs but those of the breaker and the paper broker say `CHECK_DEADLOCK FALSE`: their behaviours end where the clock,
the rows, the calls or the calendar do, which is the bound's doing and not the code's. What must not get stuck there is stated as
liveness (`KillSwitchAnswers`, `WritesAreAnswered`, `NoSignalWaitsForever`). The breaker and paper-broker runs check for deadlock: the market may always move
or be marked.

### 3.1 Configurations kept beside the listed runs

These are run by hand, with `tlc -config <file> <module>`.

| Configuration | Module | Outcome |
|---|---|---|
| `BreakerDbFail.cfg` | `MCCircuitBreaker` | passes: when any write may fail, what a restart brings back is older, but lock, latches and state agree, and de-escalation stays orderly |
| `BreakerCoolingOff.cfg`, `BreakerExpiredToken.cfg` (also with `RestartKeepsKill` as its property), `BreakerResumeLoop.cfg` (`EveryResumeReturns`) | `MCCircuitBreaker` | violations described in section 6 |
| `PaperOcoLegs.cfg`, `PaperKillSwitch.cfg` | `MCPaperBroker` | violations described in section 6 |
| `DataBenchmark.cfg` (also with `LatestCloseIsLatest` as its invariant), `FlashPause.cfg` | `MCMonitoring` | violations described in section 6 |

With the constants of `Decisions.cfg`: `NothingSpared`, `PanelMatchesPolicy`, `PaperModeIsPaper`, `MetaRowsAreOutOfFold`, `EveryBasePredicts`,
`ScoredOnValidation`, `TimeStopSparesWinners` and `NeverMoreThanHeld` are violated (section 6), and `FlattenNeverStalls` and `WritersApart` hold; so do `LotsFollowRows`
and `UniverseNeverGoesBack` with those of `Monitoring.cfg`, `AuditObeysTable` with those of `Automation.cfg`, and `EvaluatorObeysTable`,
`LedgerOnlyGrows` and `RateCapped` with those of `PaperLedger.cfg` and `PaperBrackets.cfg` (specification `AdapterSpec`). The type invariants
`TypeOK`, `AutomationTypeOK`, `AlpacaTypeOK`, `MonitoringTypeOK` and those of the parts hold in the configuration of their run.

## 4. Fairness

`CircuitBreaker!FairSpec` assumes weak fairness of two things. `Evaluate \/ EvaluateDisabled`: the breaker is built to be evaluated every
cycle (`risk/circuit_breakers.py:110`, 1146, 1190), and evaluation has no precondition but that no other method is running.
`WalkStep \/ FinishResume`: once entered, `resume` is straight-line code that keeps executing. Neither the operator nor the
market, the passing of time, token expiry, or a restart is assumed to happen, or not to happen. `AutoRecovery` therefore
has its condition as a premise (`<>[]Calm`). `ResumeReturns` has none: `resume` is called in every state, and the property says of each whether the walk ends.
The repository's modules contain no trading loop of their own that calls `evaluate`; for a deployment without one
`AutoRecovery` does not apply.

`MCAutomation!Spec`: time passes, and the loop calls `observe_breaker()` ("called by the orchestrator each cycle", `automation/recovery.py:169`)
and `expire_due()` ("unactioned entries expire", `automation/approval_queue.py:6`) again and again. Weak fairness suffices, because what enables them stays until
they come. Nothing is assumed of operators, of the dashboard's instance or of the breaker. As with `evaluate`, the orchestrator itself is not in the
repository; without one neither liveness property applies.

`MCExecution!Spec`: the attempts of the kill switch's calls end, and so do their back-offs. That an attempt ends is the one thing the
code does not ensure; `broker_hung_call` runs the same module under `TraderSpec`, where only the clock is fair (timeouts fire, back-offs
end), and finds the caller blocked for ever.

`MCDecisions!Spec`: every step of a thread inside a database call comes. `threading.RLock` promises no order among its waiters, but each write is
made once and each call takes three attempts at most, so a waiter can be overtaken only finitely often and weak fairness is enough for `WritesAreAnswered`.

All other properties are safety properties and assume no fairness. The violation runs of action properties use `FairSpec` too: the
counterexamples are finite and continue fairly.

## 5. Proofs

Each theorem holds for every value of the constants that satisfies the ASSUMEs of its component: any number of equities, tokens,
signals, instances, orders, threads, tickets, folds, jobs, any clock bound, and so on. TLC evaluates the assumptions in the runs of section 3.
A theorem speaks of the component's own specification without fairness (`AlpacaSpec`, `LedgerSpec`, `PolicySpec`, `DatabaseSpec`, ...); where
the run's module puts several components side by side or adds fairness, its specification allows no more to the component than that one.

| Theorem | Module | States |
|---|---|---|
| `TypeCorrect` | `CircuitBreaker_proofs` | `Spec => []TypeOK` |
| `LockAlwaysHeld` | | an active lock always comes with a locked state |
| `StickyAlwaysHeld` | | the state is never milder than a latched trigger forces |
| `KillAlwaysLatched` | | kill flag and latched kill trigger agree |
| `EntriesAlwaysClear` | | no policy admits entries with a latch, a mismatch, a lock or the kill switch |
| `DeescalationAlwaysOrderly` | | one step down at most, never below a condition just seen |
| `HaltAlwaysDurable` | | if writes do not fail, the row holds state and lock between any two calls |
| `ImplementsHaltLatch` | | if writes do not fail, `Spec => Latch!LatchSpec` |
| `AnchorsAlwaysStable` | | if writes do not fail, no anchor moves within its period |
| `RecoveryAlwaysOutlastsRestart` | | if writes do not fail, the throttle ends by its last tier's day or another `resume()` only |
| `OcoAlwaysSettled`, `TwinAlwaysSettled` | `PaperBroker_proofs` | no leg of a group, or exit of a bracket, is live that was in the ledger when another filled |
| `ChildrenAlwaysFollowEntry` | | no exit is in the ledger before an entry of its id has filled |
| `IdsAlwaysAcceptedOnce` | | two accepted orders of one id are a duplicate window apart |
| `EvaluatorAlwaysObeysTable` | | whatever the bar, the evaluator decides nothing the transition table refuses |
| `LedgerAlwaysGrows` | | no order is dropped, altered once terminal, moved against the table, or its trailing anchor against the ratchet |
| `RateAlwaysCapped` | | no minute has more accepted orders than the cap, children and OCO legs included |
| `LotsAlwaysMatchPosition` | `PaperBooks_proofs` | the open lots sum up to the position and are on its side |
| `BooksAlwaysBalance` | | cash, realised profit and the cost of the open lots account for each other |
| `QueueTypeCorrect` | `Automation_proofs` | `QueueSpec => []QueueTypeOK` |
| `OnlyApprovedAlwaysRuns` | | nothing is executed that an operator has not approved, with any number of instances and writes that may fail |
| `AuditAlwaysObeysTable` | | with one instance the audit trail of an entry misses steps at most and never goes back, whatever commits fail |
| `NothingEverSentOnceClosed` | | with one instance no order goes out for an entry whose end has been on the row |
| `SizeIsAlwaysEarned` | | no order is larger than the tier the time since the last resume has earned, nor has any size before the announced pause is over |
| `JobsAreOnlyPutOff` | | a job that was due has been called, removed, or is as due as it was, also when a KeyError cuts the cycle short |
| `JobsAlwaysSpaced` | | two good runs of a job are an interval apart |
| `KillSwitchLeavesNothing` | `Execution_proofs` | a kill switch that has returned, with no placement beside it, has left no order and (but for a repeated closing order) no position |
| `RepeatsAlwaysBounded` | | one intent makes at most one order per attempt, one in all with an id the exchange knows |
| `OutageAlwaysReal` | `Monitoring_proofs` | while an outage is timed, some feed is silent |
| `PauseAlwaysAnswersToFall` | | a pause answers to a fall inside one window that a check saw less than a pause ago |
| `FlowAlwaysCapped` | | the minute's cap and the ceiling on attempts, with one straggler for every other strategy |
| `ExposureAlwaysBounded` | | the limits bound the account up to one largest order for every other order under way |
| `HistoryAlwaysHeals` | | no hole and no unfinished bar but the newest, except where an outage outlasted the look-back |
| `DriftAlwaysReported` | | a difference between ledger and account is reported, or will be looked at |
| `LotsAlwaysFollowRows` | | lots in memory and open rows are the same |
| `UniverseNeverFallsBack` | | the cached universe is never older than one the agent has worked with |
| `LossIsAlwaysCut` | `Decisions_proofs` | a kept position has lost less than its stops and its cap allow, and one move more between reviews |
| `NeverADeadRung` | | every level of a ladder in use is the level of some loss, and the recovery takes no size back |
| `AlwaysOutOfFold` | | folds, search and meta-features keep the embargo, no row is judged twice, and the leakage assertion accepts every complete search |
| `NothingEverLoosened` | | one more trigger never makes the merged slip milder |
| `SectorBlockAlwaysServed` | | nothing is opened in a sector within the block after its crash, whatever comes between; a restart knows of the crashes a completed save came after |
| `FlattenNeverStalled` | | an order to flatten always has something to close while the book is not empty |
| `AlwaysWrittenOnce` | | no row is written twice, and what a caller was told is done is in the file |
| `WritersAlwaysApart` | | in a process one thread at a time is at SQLite, and in all one connection has uncommitted rows |
| `CalendarAlwaysSound` | | from any day of any years after 1950: Easter is where its tables put it, the next session is five days away at most, counting in sessions can be undone and agrees with counting the days |
| `BrokerTypeCorrect` | `PaperBooks_proofs` | the type invariants of the other components, each under its own specification |
| `AlpacaTypeCorrect` | `Execution_proofs` | |
| `RampTypeCorrect`, `SchedTypeCorrect` | `Automation_proofs` | |
| `WatchTypeCorrect`, `FlowTypeCorrect`, `LimitsTypeCorrect`, `SyncTypeCorrect`, `LedgerTypeCorrect` | `Monitoring_proofs` | |
| `PolicyTypeCorrect`, `DatabaseTypeCorrect` | `Decisions_proofs` | |

The type theorems and `AuditAlwaysObeysTable`, `LotsAlwaysFollowRows`, `UniverseNeverFallsBack`, `FlattenNeverStalled`, `WritersAlwaysApart`,
`EvaluatorAlwaysObeysTable`, `LedgerAlwaysGrows` and `RateAlwaysCapped` state what no listed run checks; TLC finds those formulas to hold in the configuration of their component's run.

### 5.1 Sums, counts and recursion

The library's induction theorems take an operator as a parameter and cannot be instantiated here. `Lemmas` derives what the proofs need from the
well-foundedness of finite sets: every nonempty set of naturals has a least element, so an induction on `n` becomes an argument about the least
counterexample and one over a finite set an argument about a least subset. Folds are reasoned about through their running totals: a function
`T` on `0..Len(s)` with `T[0]` the base and `T[k]` one turn of the fold after `T[k - 1]`, shown to exist and to end in the fold's value. Facts about
maxima and minima (`MaxOfIntegers`, `MinFalls`, `MaxRises`), sums over a sequence or a set that change in one place, and bounded counts follow the same way. This is how
sums over lots, rows, positions and triggers come into theorems at all. A recursive definition itself has to be a fold or a recursive function for that;
no module with a theorem has a RECURSIVE operator in its reach. The one recursive function, of `add_trading_days`, is a CHOOSE to the provers: that such a function exists is shown by gluing
finite sequences of moves together (`MovesExist`), and that any two agree by the least place where they would not (`MovesAgree`).

### 5.2 The arguments

**Breaker.** `LockHeld` and `StickyHeld` are not inductive: a restart brings back whatever the row holds, and `resume`
ends with a write of what its walk left. `HaltInv` strengthens them: `MemorySound` (memory is coherent outside the walk, and nothing is
latched or locked during it), `RowSound` (the row is coherent on its own, not relative to memory, which is why failing
writes do no harm) and `KillLatched`. The kill flag is recomputed from a trigger's category after a restart, so `OnlyLatching` adds that
only one trigger may have that category. Coherence is monotone in time: a lock can only run out. The two lemmas that carry the weight are
`ResolvedStateFact` (the state `evaluate` chooses is as severe as anything it saw, or as the state was) and
`PersistSound` (a write preserves the row's coherence if memory is coherent).

The refinement maps a walk to "open", HALTED to "halted", EMERGENCY and SUSPENDED to "human", an active lock to "sealed"
and the pending tokens to grants. It needs `~DbMayFail`: with failing writes a restart may release a halt, and the
abstract latch forbids exactly that. So do the anchors and the throttle, whose invariant `RowInv` says that the row holds them; the throttle's theorem
assumes moreover that the first three tiers are below full size (the shipped ones are 25, 50 and 75 %), since a full size ends it.

**Paper broker.** `FamilyInv`: the tasks of the call in progress refer to orders in the ledger, a child waits under the id of its entry and is sent
only when an entry of that id has filled, and the ledger is settled (`SettledIn`): what is live beside a filled leg came into the ledger after that
fill, which `beside` dates by the length the ledger then had. Every way an order comes in or is looked at either
leaves it resting or fills it and cancels the live siblings (`Rests`, `Fills`, `OthersSettle`); that ledgers only grow (`Grows`) keeps what tasks
say of them true. An amendment changes quantities and prices only (zero for "leave it", as `None` in the code). `IdsInv`: of every id the newest stamp is remembered as long as it can still matter, although the
map forgets old ones.

`LifeInv` follows single orders: only a stop-limit order is ever elected (TRIGGERED or WORKING), a fill is at
most the quantity and belongs to a FILLED order. Without it the table would not bind the evaluator: a resting state of another type could decide
a state the table does not lead to. Every way a ledger changes is then a step in the life of each of its orders (`Proceeds`), nested placements
and unwound calls included. `RateInv`: the broker keeps the stamps of the last minute only, and prunes them at each
submission. `RateFits` relates them to the whole ledger: for every moment less than a minute ago, no more orders were accepted since
than stamps were kept. Pruning loses none of those (`PrunedFacts`), so the count that the broker compares with the cap is never too small.

**Books.** `BooksFit`: lots on one side, position and cash the folds over them. One fill is the FIFO loop; `Turns` follows its accumulator
lot by lot, and the loop keeps quantity and money at each turn, the share of the entry cost of a lot closed in part included.

**Approval queue.** What an instance may execute is in its own memory, which it once copied from the row, which any instance may have
written. So the invariant `BackedInv` must speak of all of them: in every instance, those not started included, and in the row, an entry that is
APPROVED or EXECUTED is one an operator has approved. `QueueTypeInv` carries with it that entry numbers are below the next one, so that
the approval of an entry cannot be mistaken for that of its replacement. `SoleInv` is for a single instance, whatever commits fail
and wherever it dies: the queue in memory and the row are each `Sound`, which says that an entry's status is the one in the trail or a later one, and that an entry
whose end has been on the row (`closed`) is at its end there too. Between the two commits of a call memory and row are equal, so a death there goes back
behind nothing the row has shown; a death before the first commit takes the decision back, and with it what the trail never saw.

**Ramp.** `RampInv`: the row is the ramp; an unfrozen ramp starts at the last resume and is not halted; and the pause that still stands
is the one that was announced last. `SizeFacts` concludes that a positive size means a start, no freeze and a cooling-off that is over. The theorem is about
the ramp over `HaltLatch`, and `ImplementsHaltLatch` connects that latch to the breaker.

**Scheduler.** `SchedInv`: the list of a cycle names each job once; each, unless removed, was due at the cycle's reading of the clock with the last run it still
has; registered jobs carry the stamp of their last good run; whoever is owed a call (due at the start of the last cycle, neither called nor removed since) is on the
list while the cycle lasts, and after a cycle cut short still registered and as due as it was then (`listedAt`). `OnlyPutOff` is read off that: a
`KeyError` ends a cycle, but skips nobody for good.

**Kill switch.** `KillInv`: what the operator's thread is in tells how far the switch has come (`StageFits`); without an overlapping placement the trader is not
placing; from the end of `cancel_all` on nothing rests; and in the fallback, what is still to be closed, as it was read, is what is open (`FallbackFits`). The
last one needs that no closing order was executed twice, which is the premise of the theorem. For repeats the trader's unspent attempts are counted in: orders made
and attempts left never exceed `Attempts` per placement.

**Watches.** `PauseInv`: the end of a pause is `PauseLength` after a check in whose window the highest and the lowest tick were a crash apart, and both
ticks are kept. A check extends or begins a pause by such a pair only (`CrashIsFall`), and a tick only adds to the ticks there are. `OutageIsReal` is
inductive with the types of the stamps.

**Order flow.** A permission that is out is a place taken: the minute's orders and the outstanding permissions together stay within the cap and its stragglers
(`MinuteInv`). For the ceiling, `CountSound` says which orders the current count stands for (the last ones, the first of them at its start) and
that a window which sees one of them has room for all but one of the count before. So two counts in one window make `2 * (MaxAttempts + stragglers) - 1`. An earlier, tighter form of `OrderFlowCapped` held in the
run with two strategies and is false for three, as its proof showed.

**Order limits.** The gateway bounds what the order makes of the snapshot it sees, not of the account. A ticket is an order under way: its snapshot may be
one another ticket acts on too, and once accepted it may rest for any time before it fills. The proof orders the snapshots by age: `base` is the age of the newest one a
filled order was judged on, and a ticket that still holds an older one fills on it once; tickets that share a snapshot are ranked among themselves. For each measure (gross, size per stock, short side, cash spent) the excess
is at most one largest order for every other ticket that is not behind that age (`Room`, `Bounded`). It holds for any measure that an order moves by its size at most and that the gateway
judges (`Gentle`, `Judged`). Assumed: finitely many tickets and stocks, and a reserve of cash that is not above the starting capital.

**History.** `SyncInv` adds that some stored bar is never newer than the look-back's window, so no sync begins a history before the first one, and that every bar with a stored one on both sides is final
unless missed.

The cached universe: `UniverseInv` adds that the file, if there is one, is no older than what was served, because a row is written only after its file, and that what
waits for its row is in the file. So neither a failed fetch nor a stop between the two writes falls back behind the row.

**Ledger.** `LedgerClean`, as long as no fill was abandoned: the lots in memory are a queue of open rows with the row under the fill's knife in front (`Orderly`, one shape for each
statement a fill may have reached), and, while nothing is reported or excused, what the rows show plus what the fill in progress still owes them (`Due`) is the position the broker holds once that fill is through (`Promised`). Each statement of a fill moves quantity from
one to the other. A crash makes the lots anew from the rows and is remembered in `excused` until the next reconciliation. A failed write is outside (`hurt`): the premise of both theorems.

**Stops.** `LossIsCut` is inductive with the types. The work is in the products of size and loss: `SmallerLosesLess` (half of a position
loses no more than the whole) and `MoveAdds` (a move adds its size times the position).

**Configuration.** `ConfigInv`: whatever is in the cache passed validation (`InUse`), also when it is older than the file. `LevelsFall` and `OwnLevel` conclude from the neighbour-wise comparison of validation that a ladder falls as a whole and that the depth of each rung is a loss of just that level.

**Folds.** `WalkInv` says that every meta-feature of a base that has not failed keeps its distance to its own row, and that searches were made
in order. `DivFacts` and `EdgesMonotone` make the windows disjoint and ordered from integer division.

**Permission slip.** `MergeTightens` shows each part of the merge monotone in the set of triggers: permissions shrink, minima fall and maxima rise, and the directives of one more trigger are those of a larger set.
Sector blocks: memory and store are separate. A sector within `BlockDays` of the crash memory goes by (`lastCrash`) has just that date in `blocks` and an
enabled slip handed out names it (`BlocksInv`, `SlipInv`); one within `BlockDays` of what the last completed save recorded has that date in the store
(`SavedInv`), which is what a restart gives memory back. Only the second commit of a save moves the store's blocks; time only ends blocks. Flattening: an order to flatten admits nothing, and whatever narrower
directive comes beside it, there is something to close or nothing left (`FlattenInv`).

**Database.** `DatabaseInv`: one thread carries a call; no row has a second copy among the file and all open transactions together (`RowsApart`), which is what a retry after "locked" and a commit that carries a refused
batch's first rows along must preserve; the rows of a call nobody has applied are nowhere; those of an applied one are in its
thread's transaction; those of a call told done are in the file (`Placed`). Rows are identified by the call they come from (`DatabaseAssumption`): two calls that write equal values write two rows.
`LocksFit` is about the locks alone: whoever is at SQLite holds the lock of its process, and whoever has uncommitted rows is SQLite's writer. A refused write
keeps SQLite's lock but gives its process's lock back, and so does an attempt that will be repeated.

**Calendar.** `CalendarInv`: the day lies in a year looked at. The rest is arithmetic for every year. Easter: the source's formula is the 21st of March, plus the wait for the moon, plus the wait for a Sunday
(`EasterDay`); its moon and the epact of the tables determine each other in every case, the two exceptions of the tables included (`MoonEpact`, `Corrections`), and the day waited for is a Sunday (`EasterIsSunday`).
Sessions: the holidays of a year lie in eleven places (`Places`) that are five days apart or more (`Apart`), so of five days in a row one is a session (`FiveDays`), although new year's eve may be shut and the first open.
Next and previous session then exist and undo each other, n moves forth and n back by the existence of the recursive function, and between them lie no other sessions (`OneMore`).

**Types.** The type invariant of a component follows from its safety invariant and a small rest of its own where that invariant leaves something open: `SchedRest` (row and
stamps), `SyncRest` (look-back and caches), `FlagsTyped` (the ledger's flags), `WatchRest` (ticks are stamped prices, and a pause has the low of a crash beside it), `FlowRest` (what attempts are counted
from is part of what was registered), `PolicyRest` (a slip's numbers are in range by `SlipFact`, whatever triggers are merged).

### 5.3 Only model-checked

Liveness (`AutoRecovery`, `ResumeReturns`, `NoSignalWaitsForever`, `HaltReachesSizes`, `KillSwitchAnswers`, `WritesAreAnswered`) is beyond the prover, as is ENABLED. Every
safety invariant and action property of the passing runs is a theorem, and so is every component's type invariant that no run's list names.

## 6. Where the code and its texts disagree

With a listed run that shows it:

* **Dashboard kill switch** (`dashboard_kill`). The page mints a token in a manager that lives for one run of the page
  (`dashboard/app.py:46-58`, `actions.py:174-190`); the run that handles the button has another manager and rejects it, against `_ui.py:93`, "Re-enter it
  below to engage".
* **Write lock kept by a refused statement** (`database_stuck`). `_locked` raises without a rollback (`data/database.py:376-381`), so the implicit
  transaction keeps SQLite's write lock after the call, against "safe for the scheduler threads and the watchdog running side-by-side" (8-9).
* **Hung vendor call** (`broker_hung_call`). Leaving the executor waits for the worker the timeout has given up on (`trading/broker_base.py:376-384` against
  370-371).

With a configuration of section 3.1:

* **Cooling-off cut short** (`BreakerCoolingOff.cfg`). `config.yaml:196` calls the pause after drawdown level 4 mandatory;
  `_apply_lock` (`risk/circuit_breakers.py:1402`) overwrites it with the next session open when a daily loss latches.
* **Expired token accepted** (`BreakerExpiredToken.cfg`). `resume` (1040) looks a token up and never at its age, which only
  `confirm_override` checks.
* **Kill switch while SUSPENDED** (`RestartKeepsKill` with that configuration). The transition is illegal and raises (1014) between the latch
  and the write: a restart forgets the kill. SUSPENDED itself stays.
* **`resume` from NORMAL or CAUTION** (`BreakerResumeLoop.cfg`). The walk "down one legal step at a time" alternates between
  the two for ever (1056), since each is the other's lowest successor: `EveryResumeReturns` fails. `ResumeReturns` states both halves of what does hold: from every
  other state the walk ends, and from these two it never leaves them while the process lives.
* **OCO legs** (`PaperOcoLegs.cfg`). A leg that fills as it is placed finds no siblings to cancel; the legs placed after it rest
  and fill too (`trading/paper_broker.py:162` against its docstring 156-157; likewise the children of an entry, 197-199). What does hold is that a fill ends
  every leg that is in the ledger by then, wherever in it (`OcoSettled`, `TwinSettled`): only legs sent after the fill survive it.
* **Kill switch and the rate cap** (`PaperKillSwitch.cfg`). The closing order is subject to the broker's own per-minute cap;
  refused, it leaves the position open (`trading/paper_adapter.py:233` against 216 and 230-231).
* **Oldest bar for the latest** (`DataBenchmark.cfg`). Bars are fetched in ascending order with a limit, so `latest_close` returns the oldest bar there
  is and the benchmark's window is the oldest one.
* **Flash-crash pause lifted by an older crash's low** (`FlashPause.cfg`). A crash within the window of an earlier one inherits its low, and a recovery from that low lifts
  the pause (`risk/circuit_breakers.py:743` against `docs/BUILD_PLAN.md:211`). `FlashPauseIsEarned` is the claim that fails; what holds
  is that every pause answers to a fall seen within its length (`PauseAnswersToFall`).
* **Narrower closings spare positions** (`NothingSpared`). `flatten_all` beside another closing directive closes only that part
  (1355-1359); the half that `close_worst_half` names is named again every cycle, so it converges (`FlattenNeverStalls`).
* **The dashboard's slip is not the manager's** (`PanelMatchesPolicy`). It ignores triggers that do not latch and still blocks on expired locks.
* **`trading.mode: paper` is not consulted** (`PaperModeIsPaper`). `build_broker` (`trading/broker_base.py:509-529`) reads the broker section only; what keeps real
  money safe is the live gate (`config.yaml:10`).
* **Ensemble** (`MetaRowsAreOutOfFold`, `EveryBasePredicts`, `ScoredOnValidation`). A failing base fills rows with the mean of a column built from their own labels
  (`models/ensemble.py:80-88` against 31-32); only clones of the bases are fitted, so a base that must be fitted never predicts; the objective is given
  the inner training rows (`models/optimization.py:3-4`).
* **Time stop closes winners** (`TimeStopSparesWinners`): `risk/circuit_breakers.py:1509` tests age only, against its comment (1505) and `config.yaml:100`.
* **More than there is** (`NeverMoreThanHeld`): answers to one review may add up to more than the position.

Met while modelling, without a configuration of their own:

* `utils/constants.py:86-87` says SUSPENDED suppresses the emergency flatten; the policy of a suspended manager still says
  flatten when the kill switch or a flattening trigger is latched (`risk/circuit_breakers.py:1286`).
* "persistence problems must NEVER break safety" (405): a failed write (430) followed by a restart reopens trading; hence the
  premise `~DbMayFail` above.
* `docs/AUDIT_PROMPT.md:273` says config cannot disable breakers or kill switch; with `circuit_breakers.enabled` false
  `evaluate` (1156) hands out the permissions of NORMAL whatever the state. `EvaluateDisabled` models it, and
  `EntriesOnlyWhenClear` speaks of enabled evaluations only.
* The comment at 292 says locked states never de-escalate without `resume`; HALTED does when nothing latched it
  (1216-1223). The refinement maps HALTED to a mode of its own for that reason.
* Gateway: in RESTRICTED, HALTED, DEFENSIVE, EMERGENCY and SUSPENDED it blocks "buy", "sell_short" and "short", so a plain "sell" of more than is held opens a
  short in any of them (`risk/position_limits.py:130-131`); loss limits refuse protective exits; resting orders count toward no limit; `check_sector` counts the order twice.
* A sector block is durable only after the second of two commits: when `save_breaker_state` (`risk/circuit_breakers.py:413`) is done and the write of
  `breaker:sector_blocks` (428) fails or the process dies first, the error is swallowed (430) and a restart admits entries in the sector. `SectorBlockServed` therefore
  speaks of memory between restarts and of completed saves across them.
* Approval queue: the row and the log are two commits (`automation/approval_queue.py:330`, 336), so the log may miss a step. Between sending an order and the row
  write of `mark_executed` a crash or a failed write leaves the entry APPROVED, and the order is sent again; `NothingSentOnceClosed` states the guarantee
  from that write on. With two instances, one writes its whole queue over the other's decision; `OnlyApprovedRuns` is what survives that.
* "Failures are captured per-job (logged, never raised)" (`automation/scheduler.py:274-275`): when a callback removes a job that is due in the same cycle, the lookup
  at 280 raises `KeyError` outside the `try`, and the rest of the cycle is not called. The jobs it drops are due again at the next one (`OnlyPutOff`).
* The kill switch of the dashboard: when `cancel_all` exhausts its retries, `flatten` never runs and the breaker is not latched (`dashboard/actions.py:129-131`). `KillSwitchAnswers`
  calls that an answer, because the operator sees the error.
* Alpaca: `flatten`'s fallback repeats a closing order whose answer was lost and may open the opposite position (the premise `~doubled` of `KillLeavesNothing`);
  `place_order` without a portfolio judges an empty one in state NORMAL. `broker.max_retries: 0` passes validation and raises at the first call.
* The ceiling on order attempts counts in tumbling windows, so a window across two of them sees two ceilings' worth less one (with the stragglers of each); `OrderFlowCapped` says so.
* A fill abandoned by a failed write leaves lots in memory that are no longer the rows (`hurt` in `Ledger`); later fills may drift even after the ledger has matched.
* `portfolio_snapshot` values shorts as if they were long (`trading/paper_broker.py:123`).
* The scheduler's docstring says its last runs survive a restart (`automation/scheduler.py:161-163`); the constructor loads them into a registry that is still empty
  (`LastRunsSurviveRestart` in the module).
* `sync(full=True)` is still incremental; a stale list of the universe is stamped fresh after a failed fetch; `position_mismatch_check_seconds` has no reader.
* `broker.alpaca: {}` makes a flat `paper_trading: false` have no effect; `validate` does not order `close_day_positions`; a failed reload keeps the
  old configuration where `get_config` says the entry is dropped.
* The calendar closes 31 December when New Year is a Saturday; the exchange does not.
* Rows of a refused batch stay in the open transaction and are committed by the thread's next write (`WrittenOnce` holds all the same: no caller was told otherwise).
* `approve()` does not look at `expires_at`: between the time to live and the next `expire_due` an overdue signal can be approved.
* The embargo of the folds is a setting of its own, not tied to the prediction horizon; `anti_leak_check` with its default `spike_index` checks nothing.
* With the default configuration (hard stop 2 %, cap 2 % of equity, no leverage) the cap on a trade's loss can only bite on positions larger than the equity.

## 7. What is not modelled

* **Floating point and money formats**: ratios are multiplied out over integers, prices are small naturals.
* **Models, features, metrics, backtest statistics**: numerical code over floats, no protocol. Of the backtest only the fill engine, as the
  paper broker uses it.
* **Provider access, fundamentals, options, news, notifications, digest texts, dashboard pages, logging, scripts**: input and output whose
  result nothing reads back.
* **Threads inside the breaker, the paper broker and the gateway**: they start none and take no locks; one caller calls one method at a time. Threads are modelled
  where the code has them: `BrokerCall`, `AlpacaAdapter`, `Database`, and the strategies of `OrderFlow` and the orders under way of `OrderLimits`.
* **Partial fills and moving prices in `OrderLimits`**: an order fills whole, and a price stays what it was; the broker's own partial fills are
  `PaperBroker`'s.
* **Failing writes of the ramp** (`risk/recovery.py:296`): `RecoveryRamp` takes them to succeed.
* **Daylight saving**: the clock is the local one; `ContinuousRunner`'s sleep loop is the scheduler's cycle at any time.
* **The breaker's liquidity lists, the benchmark and sector crash arithmetic**: they appear as triggers in `TradingPolicy`.
* **The exception guard around `evaluate`** (1146), which answers a crash of the evaluation itself with a blocking policy: no step of
  the model raises there.
* **Tables without a protocol**: signals, fundamentals, sentiment, metrics, the registry of models; and the other numeric ranges `validate` checks.
* **`replace` at Alpaca and `resume` through an adapter**, thin calls without a state of their own.
* **Two breaker managers evaluating on one row** (`dashboard/actions.py:174`): the page's manager is only ever asked for its state and its tokens, and engages
  through a token it cannot have (`dashboard_kill`), so no write of it is reachable today.

## 8. Plan

1. `RecoveryRamp` with writes that fail, and the composition of the ramp with `CircuitBreaker` itself instead of `HaltLatch`.
2. Several symbols and netting in the paper broker; `Ledger` under `PaperBroker` as one specification.
3. The replay loop of the backtest over `PaperBroker`.

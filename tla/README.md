# SignalArk: a TLA+ model of the paper trader

SignalArk turns closed market bars into orders of a paper-trading account.  This
directory models the parts of it whose correctness depends on the order of
events, and the sums that have to come out right whatever that order is:
several traders that compete for one account, one trader that crashes, fails and
is interrupted by an operator, the collector that feeds it bars, the database
rows through which they meet, the alerts that tell an operator of all this, and
the replay of recorded bars through the same strategies, sizing and ledger, with
the figures it reports.  The modules are checked by TLC on small
instances; the theorems are proved by TLAPS for every value of the constants.

Contents: 1 inventory, 2 plan, 3 modules, 4 runs, 5 bounds, 6 fairness,
7 proofs, 8 what the checks found, 9 stronger statements that do not hold,
10 what is only model-checked, 11 what is left out and what is assumed.

## 1. Inventory

| Part | State it keeps | Operations | Meets | Correct when |
| --- | --- | --- | --- | --- |
| Control plane store (`apps/trader/control_plane.py`) | one row per account: switches, lease, runtime status | acquire, heartbeat, release, validate lease; set switches; save status | every trader process, the API | one holder at a time; tokens fence off the deposed |
| Control runtime (same file) | cached control row and lease, readiness | start, refresh (per bar, per heartbeat), guard, stop | store, trader service | what it believes is true of the row; lost stays lost |
| Trader service (`apps/trader/service.py`, `runtime.py`) | lifecycle, tasks, readiness, bar trigger gate | start, run, stop, handle a bar | event bus, strategy, OMS | a stop drains, ends, and releases the lease last; no bar is traded twice |
| Event bus (`src/infra/messaging/bus.py`) | queue, dispatcher task | publish, start, stop with drain | trader service | its counter is exact; nothing is left behind |
| Collector (`apps/collector`) | checkpoint file, final-bar gate | bootstrap, stream, recovery backfill | market gateway, event bus | each final bar once, in order, none missing |
| Market state (`src/domain/market/state.py`, `src/domain/events/bar.py`) | none | price limits, trading phase, validity of a bar | collector, gate, venue | limits are whole ticks around the previous close |
| Strategies (`src/domain/strategy`) | position the strategy believes in, windows of bars | on_bar | market bars, a language model and its fallback | its position follows its own signals; its stop holds; a model that fails is replaced, not obeyed |
| Sizing and risk gate (`src/domain/execution/oms.py`, `src/domain/risk/pretrade.py`) | none | plan an order, decide | OMS | the largest order the rules allow; limits and T+1 hold |
| OMS (`apps/trader/oms.py`) | intents, orders, fills in the database | submit a signal, cancel all, recover | venue, ledger, control store | write-ahead; no execution lost or applied twice |
| Paper venue (`src/infra/exchanges/paper.py`) | none | report on an order | OMS | reports follow the order state machine |
| Ledger (`src/domain/portfolio/ledger.py`) | positions, balance snapshots | apply a fill, release T+1 | OMS, reconciliation | the rows are what the fills make of the initial cash |
| Reconciliation (`apps/trader/reconciliation.py`, `src/domain/reconciliation`) | its loop | recover, check, engage protection mode | OMS, ledger, control store | drift alarms, and nothing else does |
| Operator API (`apps/api/control_plane.py`) | none | pause, kill switch, cancel-all; readiness and diagnosis | control store, OMS | a switch takes effect on the next submission; who is called ready is |
| Alerts and logs (`src/infra/observability`, the callers in `apps/trader`) | last alert of each key, times of refusals, what was said of an outage | dispatch, count an occurrence, track readiness | control runtime, OMS, reconciliation | an outage, a protection mode, a repeated refusal reaches the operator once it should, and not before |
| Backtest (`src/services/backtest`) | positions, cash, keys seen, equity curve | run over recorded bars, summarise | strategies, sizing, venue, ledger | T+1 and fair prices in the replay; exits reach the position; the figures add up |
| Research (`apps/research`) | none | sweep parameters, walk forward, cut into segments, rank | backtest | windows and segments cover the sample; the best is well defined |
| Web console, MCP server, configuration, migrations | files, views | read | API | not modelled, section 11 |

Within the trader everything runs on one asyncio loop: the source task publishes
bars on the bus, the dispatcher hands each to the trader service, which refreshes
the control runtime (control row, lease), passes the trigger gate, awaits the
strategy and hands its signal, with a guard that carries the fencing token, to
the OMS; a heartbeat task and the reconciliation loop run between two awaits.
The OMS sizes the order, asks the risk gate, saves intent and order, calls the
venue and applies its report through the ledger.  The operator's API process
shares nothing with it but the database; the collector shares nothing but the
checkpoint file.

What is hard here: processes that share rows without locks or transactions
spanning more than one save; checks made once and used later (lease, control
state, the row a cancellation read); crashes and failed writes between the
saves of one fill; retries of a signal; loops that must survive an exception;
an event bus that must drain; T+1 quantities that are released in two places;
decimals that are rounded in one copy of the books and not in the other;
strategies that remember what they asked for and not what they got; alerts that
are held back, lost by a sink, or said of the outage before; profits that are
booked fill by fill and reported as sums, averages and falls.
`PROJECT.json` lists each such place with its line under `hazards`.

## 2. Plan

| Order | Module | Composes | Status |
| --- | --- | --- | --- |
| A | `TraderLease`, `TraderLeaseProofs` | store and runtimes of several traders | checked and proved |
| B | `OrderLifecycle` (abstract), `OmsOrders`, `OmsOrdersProofs` | OMS, venue, reconciliation, operator | checked; safety and refinement proved |
| C | `TraderService`, `TraderServiceProofs` | service, bus, heartbeat, stop | checked; safety proved |
| D | `Collector`, `EdgeProofs` | gateway, gate, checkpoint, two collectors | checked; safety proved while the gate has room |
| E | `Sizing`, `RiskGate`, `RulesProofs` | pure operators, against a reference definition | checked in F; proved |
| F | `Ledger`, `PaperAccount`, `PaperAccountProofs` | sizing, gate, ledger, replay over trading days | checked; safety proved, with the limits and the replay |
| G | `MarketState`, `Strategies`, `Backtest`, `BacktestProofs` | strategies, sizing, venue rules and ledger over recorded bars | checked; safety proved |
| H | `StatusView`, `StatusViewProofs` | runtime-status row of several traders, the API's readiness and diagnosis | checked; safety proved |
| I | `Refusals`, `Alerts`, `EdgeProofs` | router with cool-down and failing sinks, readiness, protection and refusal alerts | checked; safety proved |
| J | `Strategies` (the AI judge), `Ratios`, `Performance` | the model's answers in G; equity curve and summary of its replays | checked; T+1, types and exits proved for all three strategies, and the three properties of the figures |
| K | `Research` | windows, segments and ranking of the experiments | proved in `RulesProofs` |
| L | `TriggerReplay` | the API's replay of events | planned |

New runs replace those of the findings that are settled; each run keeps one
question.

## 3. Modules

A comment above each definition names what it translates; `PROJECT.json` gives
its lines under `map`.  A definition `XyzSomething` with a comment "Mutant:"
stands before the definition it spoils, and is used by no run.

**`TraderLease`: who may trade.**  The row of `trader_account_leases` is
`lease`; each process has its cached copy (`cached`), its readiness, the status
of its lease and the guard of the bar it handles.  `acquire_lease` is two steps
(`AcquireRead`, `AcquireWrite`), because its transaction reads the row and
writes it back by primary key.  Heartbeat, refresh and validation each sample
the clock in one step and run their transaction in another, so that time and
other processes come in between.  `RowLocked` chooses the isolation: `FALSE` is
the code under PostgreSQL's READ COMMITTED, `TRUE` is the code with its
acquiring transactions serialised.  The pid probe of a dead holder on the same
host may be wrong (a reused pid), hence nondeterministic.

**`StatusView`: what the operator is told.**  Traders write one shared row
(`row`) at the end of every refresh (`Save`); the API reads lease and row one
after the other (`ViewReadsLease`, `ViewAnswers`) with a clock it sampled before.
A refresh is two steps, `Heartbeat` or `BarObserved` and then `Save`: other
processes and time come in between.  `SaveFails` is what each caller makes of a
report that cannot be written; `StartRejected` and `StartAborted` are the starts
that fail, and their last report still says running.  Lease and clock are those
of `TraderLease` with each operation in one step; `lastReady`, `unheard` and
`since` are history.

**`OmsOrders`: one account's orders.**  Every call of the persistence that
changes a row, and every read that is used later, is one step of the trader
(`pc`) or of a canceller (`phase`); any step may raise (`faults`), and the
trader may die before any (`crashes`).  `submit_signal` is
`BarTaken` ... `GatePasses`, `SaveIntent`, `SaveOrder`, `VenueReports`,
`MarkSubmitted`, `ApplyUpdate`, `SaveFill`, `SavePosition`, `SaveBalance`,
`Submitted`; what may overtake it are the operator's kill switch and
`cancel_all`.  Reconciliation is `CheckPasses`/`CheckAlarms`, `Engage`,
a cancel-all by the trader, `Engaged`; `Aborts` and `EngageFails` are its
exceptions, and `recon = "dead"` a loop that ended.  The amounts are counted in
lots, and the drift of order, fills and ledger is computed from the same rows
as `reconcile_paper_state` does.

**`OrderLifecycle`: the abstract book.**  What the OMS promises of each signal,
without steps, processes or failures: its order advances along the state
machine of `ORDER_STATUS_TRANSITIONS`, and fills are recorded, then posted to
the position, then paid from the balance, each once and in order.  `OmsOrders`
implements it with `status` taken from its order rows (`ImplementsBook`).

**`TraderService`: one process.**  The tasks are `source`, `dispatcher`, the
heartbeat and `phase`, the task that runs and stops the service.  A step is
what a task does between two awaits that can give way.  `stop()` is `StopBus`,
the `join` of the queue, the sentinel, the await of the dispatcher, the close
and the release of the lease; an interrupt may come while the service runs or
while it stops, a kill at any time.  The gate of triggered bars is a sequence
with the eviction of its oldest key.

**`Collector`: one collector.**  Bars close in steps of their own; a request is
answered, fails, or comes back empty (`BackfillSymbol`, one request per symbol
after an outage, and `LivePoll`); the bars of the answer lie in `polled` and go
one by one through the gate and the checkpoint (`BarEmitted`, `BarIgnored`,
`BarNotRecorded`), and what is emitted waits in `batch` until the caller takes it
(`Yield`).  `Restart` begins a process that knows only the checkpoint file;
`OtherRecords` is another collector on that file.

**`Sizing`, `RiskGate`, `Ledger`: the rules.**  Pure operators: the plan of an
order, the rules of the gate in the order of the code, fills to positions and
cash, the T+1 release, the replay as a fold over the fills.  `Sizing` also
states a reference definition (`LargestTradable`) that has neither rounding
nor cases: the largest quantity on the grid between the bounds.  An average
price is an exact fraction in memory and a rounded one in a row, as in the code.

**`PaperAccount`: the account over days.**  The rules composed: a signal
(symbol, target, price, age and quality of the bar) is one step that ends
without an order, with a fill, or with a fill the ledger refuses, which ends
the process.  `Start`, `Reconcile`, `Exit`, `SwitchKill` and `NextDay` come in
any order in between.  `OmsOrders` breaks the same submission into its steps;
the two modules share no state and are not composed: amounts times
interleavings is out of TLC's reach, and no property here needs both.

**`MarketState`: what a bar says of its market.**  Price limits (rounded half
up to the tick), the continuous auction, and which previous closes make a valid
snapshot.  Prices are whole ticks and percentages whole basis points.

**`Strategies`: the three strategies.**  `BaselineOnBar`, `BandOnBar` and
`AiOnBar` are `on_bar` as functions of what is remembered and the bar: they
return the memory and the signal.  For the third the bar brings the answer of
the model (`Answers`): an action with a target and a confidence above or below
the minimum, or `"failed"`, which stands for every error of the request and of
the parsing; then `Heuristic` decides from the prices, as
`FallbackAiDecisionProvider` does.  Audits and reasons are left out.  The warm-up is the
length of the window; the trailing stop and the peak are compared without
division.

**`Alerts`: what an operator is told at once.**  `Refreshed` is `refresh` of the
control runtime with `_track_runtime_safety`: the cause of not being ready, for
how long (`memory.outage`), whether it was said.  It runs per bar
(`ObserveBar`), per turn of the heartbeat loop (`Heartbeat`, `HeartbeatFails`,
`ReportFails`) and at the end of `ProtectionEngaged`.  `lost` is the set of
alerts whose sinks fail; `HeldBack` is the router's cool-down.  The refusals of
the gate are a fold over their history (`Refused`, in `Refusals`, which knows
nothing of the rest).  Times are ages that stop
counting when they no longer matter, so that the state space is finite without
a bound on time and liveness is checked on all of it.  `heard`, `muted` and
`told` are history: what the operator knows.

**`Backtest`: the replay.**  A step is one bar of the loop of
`BacktestService.run`: release, mark, decide, plan, execute, apply, mark again
(`BarSkipped`, `BarNotTraded`, `BarTraded`), or one of the two ways in which it
raises (`LedgerRaises`, `OutOfOrder`).  The venue's contract is `VenueTakes`,
its price `Slipped`; sizing and ledger are the modules the account uses.
`today`, `excused` and `high` are history: what was held when the day of the
last bar began and sold since, whether the last exit had a reason to fail, and
the highest close since the strategy came to believe in a position.

**`Performance`: what a replay reports.**  The equity curve, the outcomes of the
trades and the summary, as folds over the bars of a replay and their fills.  It
extends `Backtest` for its release, mark and ledger, takes the fills as given,
whatever order they came from, and is evaluated in the initial states over the
set `Replay`.  Ratios are pairs of integers and are not rounded (`Ratios`).

**`Research`: how a sample is cut.**  Walk-forward windows, segments, and which
result is called the best: pure operators on the positions of the bars.

## 4. Runs

| Run | Specification | Shows |
| --- | --- | --- |
| `lease` | two traders, row locked | one trader at a time believes it holds the lease, and it is true of the row; a token names one instance; orders are admitted in the order of the tokens; lost stays lost |
| `lease_read_committed` | the same, without the lock, other hosts | fails: two traders hold the lease at once |
| `lease_lost` | the same, locked | fails: a trader that knows it lost its lease sends an order |
| `oms_orders` | an opening and a reducing order of two lots, one failure or crash, an operator | write-ahead, the protective sweep, executions accounted for, refinement of the abstract book |
| `oms_drift` | one order, two failures or crashes, fair | drift ends in protection mode or ceases, unless a database call raises |
| `service` | three bars, a gate of two, four yields, one failure, interrupts and kills, fair | exact bus counter, drains, spacing of triggers, no trigger while stopping, no order after the release, stops and deaths end |
| `collector` | two symbols, five bars, one trouble of any kind, fair | each bar once, no gap, true checkpoint, gaps filled in the end |
| `status` | two traders, one failing call, an API that reads in steps | who is called ready was so less than two lease terms ago, owns the lease unless it moved since the request began, and is diagnosed as live |
| `alerts` | one trader whose lease, bars and control row change, failing sinks and calls, fair; every history of up to five refusals | an outage that lasts is heard of unless cool-down or sink swallowed it, protection mode is announced unless inherited, refusals are announced when they repeat |
| `paper` | two symbols, two prices, three days, four fills | T+1, limits, replay equals rows, plans are largest and settle |
| `paper_midnight` | one symbol, one price | fails: a check after midnight takes T+1 for drift |
| `backtest` | any of the three strategies, one symbol, two days of bars in any order, unfinished, seen, without market state, suspended or off session; six answers of the model; 19984 replays of four bars for the figures | T+1, the trailing stop, exits that reach the position; equity is explained by the profits, the drawdown is the worst fall, the holding time is that of the single shares |

The failing runs are the findings of section 8.  Deadlock is checked in every
run but `backtest`, where a replay ends with its last bar or its first error: a
stopped process stutters in an action of its own (`Terminated`), starts
again, or time and operator go on.

Each property of a passing run has a mutant in `PROJECT.json`: a plausible bug
in one mapped definition under which TLC finds the property violated.

## 5. Bounds

| Module | Bounds | Why enough |
| --- | --- | --- |
| `TraderLease` | 2 instances, `TTL` 2, `MaxClock` 3, `MaxToken` 3 | an expiry during an operation, a takeover, the return of the first holder and a second takeover fit; all races are between two processes; the theorems have no bounds on instances or time |
| `StatusView` | 2 instances, `TTL` 2, `Stale` 3, `MaxClock` 3, `MaxToken` 2, 1 fault, a fresh and a stale bar | a lease is renewed, outlives its owner and is taken over once; data turns stale; no bound in the theorems |
| `OmsOrders` | 2 signals (1 for liveness), 2 lots, 1 or 2 troubles | a partial fill needs two lots; a sweep needs an order it keeps and one it cancels; two troubles are a crash and a crash of the restart |
| `TraderService` | 3 bars, `Capacity` 2, 4 yields, 1 fault | the gate forgets and a bar comes back; the queue holds two while a third is handled |
| `Collector` | 2 symbols, `PollBars` 2, `SeedBars` 3, `Capacity` 7, 5 bars, `Slack` 1, 1 trouble | an outage longer than a poll reaches back, one neighbour, a gate that has to evict some of ten keys; the code's 4096 keys, 8 and 200 bars and configured symbols are scaled by the same relation |
| `PaperAccount` | steps of 2, lots of 4, targets and prices of `MCPaperAccount`, 3 days, 4 fills, limits 24 and 38 | odd lots and steps below a lot occur, each limit binds, cash runs out, a position is bought, released and sold on different days |
| `Alerts` | `Grace` 2, `Cooldown` 3, `Window` 2, three control states; 5 refusals within `MaxTime` 5, handled at once or one instant late | an outage outlasts the grace, ends and comes again within and after the cool-down; the third refusal in a window, a window that slides, a second alert after the cool-down; the code's 30 s, 300 s and 300 s keep the order grace < cool-down; time itself has no bound |
| `Backtest` | targets 10 and 6, steps of 2, lots of 4, windows of 2, closes 97, 100, 104 around a previous close of 100, two minutes of each of 2 days | a reduced and a full target, a trend up and down, a stop, a band on both sides, two orders on one day; cash for one position and not for every price of it; a model that fails with and without a rise, asks for more than the target, for 0, for an exit, and for one that it is not sure of |
| `Performance` | four bars on four days, closes 97 and 104, purchases and sales of 4 or 6 shares one tick from the close, made at once or a minute later | a gain and a loss, a sale over two purchases, a part of one, two sales, a fall from the initial cash and from a later peak: 3652 of the replays are completed, 496 of them with two sales |

Names (`FirstInstant` only keeps times of stale bars positive): `MaxClock`,
`MaxToken`, `MaxTroubles`, `MaxYields`, `MaxFaults`, `MaxBars`, `MaxDay`,
`MaxFills` appear only in the guards of the actions that would count on for
ever; `MaxRefusals`, `MaxTime` and `Replay` bound inputs; `Lots`, `Capacity`,
`PollBars` and `SeedBars` are parameters of the code.

## 6. Fairness

- `OmsOrders`: weak fairness of start-up (docker-compose restarts the trader:
  `restart: unless-stopped`), of the reconciliation once it runs, of a
  submission, its routing, the stop, and each cancel-all: all are straight-line
  code of a process that is alive.  Strong fairness of `ReconcileDue`: the timer
  fires whenever it is due, but the loop of the trader may be busy with a bar at
  any given moment; asyncio serves a due timer when the running task ends.
  Nothing is assumed of the operator, of bars, failures or crashes.
- `TraderService`: weak fairness of the dispatcher, the awaited strategy (which
  has a timeout or raises) and the stopping task.  The source and the heartbeat
  owe nothing.
- `Alerts`: weak fairness of `Beat`, a turn of the heartbeat loop whatever comes
  of it (it sleeps for the heartbeat interval and catches what a refresh
  raises), and of `Tick`.  Nothing is owed by bars, sinks, lease or operator.
- `Collector`: weak fairness of its own requests, bars and yields (`Collect`); that
  faults are bounded says that the venue answers again in the end.

## 7. Proofs

All modules `*Proofs` extend the module they are about (`EdgeProofs`: what the
trader takes in and what it gives out, `Collector` and `Alerts`); each theorem is
for every value of the constants under the assumptions the module names.

The library states its induction rules for an operator, which the provers
cannot instantiate.  Here an induction is about a set of numbers instead: `N` is
the set of those for which the fact holds, and it is `Nat` because what it leaves
out has no least element (`SetInduction` in `RulesProofs`, from the library's
`WFMin`).  Likewise for finite sets (`SubsetInduction`) and for what a recursive
function of the library computes (`SetRecursion`), and with these for sums over
finite sets (of integers and of ratios) and folds over sequences.  All that is proved about any
number of fills, symbols, refusals or bars rests on them.

- **`TraderLeaseProofs`** (when `RowLocked`).  `SingleActive` says nothing of
  the row or of the transaction that is about to write it, so it is not
  inductive.  `LeaseInv` adds: what a locking transaction has read is the row,
  and only one such exists (`LockInv`); a planned takeover finds nobody who can
  rely on the lease (`PlanInv`, `Vacant`); a running owner has the row's token
  (`TokenInv`); a lease held in memory expires no later than the row's
  (`TruthInv`); admissions are no newer than the row (`AdmitInv`); whoever
  lost the lease and still owns the row finds it expired (`LostInv`).  From it
  follow `SingleActive`, `CachedLeaseTruthful`, `TokenNamesOneInstance`,
  `AdmissionOrder` and `LostStaysLost`.
- **`StatusViewProofs`**.  `ReadyIsRecent` relates the answer to an instant that
  no row holds.  `StatusInv` says how far a lease may outlive it: one term after
  a report, and a second one only while a renewal is still to be reported, or
  when the heartbeat loop has ended (`LeaseInv`, `RenewalDue`); what the API has
  read of the lease obeys the same bound (`ViewInv`).  `ReadyNamesHolder` follows
  from `TakeoverInv`, `ReadyDiagnosedNormal` from the two definitions.
- **`OmsOrdersProofs`**.  `OmsInv` has three parts: how the records of a signal
  relate at any time (`RecordsInv`), where they stand at each step of the
  submission (`SubmissionInv`: at `"position"` one fill is recorded more than
  posted, and so on), and what a cancel-all has still to do (`CancelInv`).
  `WriteAhead` and `ProtectionSweeps` follow; `BookImplemented` maps initial
  states to initial states (`BookInit`) and every step to a step of the abstract
  book or a stutter (`BookNext`), using the invariant for the order of fills.
  `ExecutionsAccounted` says nothing of the report in the submission's hand;
  `AccountInv` does, while protection mode is off: what the venue has executed is
  what the report says, and afterwards what was paid, unless the ledger refused.
- **`TraderServiceProofs`**.  `ServiceInv`: the counter of the bus is exact,
  where the sentinel may be (`QueueInv`), what the gate remembers (`GateInv`)
  and the distance of triggers, for any number of bars and any capacity.
  `UnfinishedExact`, `StopDrains`, `RetriggerDistance` follow.
  `HeldInv` is inductive given it, and gives `NoOrderAfterRelease`.
- **`PaperAccountProofs`**.  `AccountInv`: per symbol, quantities on the grid,
  what is left to sell at most what was held overnight and not sold, an
  untouched position equal to the overnight one, the value at the last fill
  within the symbol's limit, and the sum of these within the total.  `TPlusOne`
  and `LimitsHold` follow; a fill changes one summand (`Symbol` is finite).
  `ReplayInv` compares the rows with the replay of the fills (`Played`) at every
  instant: while the ledger has refused none, cash agrees, and each row `Agrees`
  with its replayed position up to what a release has added to it since the last
  fill.  The replay of one fill more is one step more of the fold
  (`PlayedAppend`), and `ReplayAgrees` is the case of a whole replay.
    `PlanIsLargest` and `PlanSettles` rest on lemmas about rounding down
  to a step, for all rules with a step that divides the lot and the minimum.
- **`RulesProofs`**: lemmas about the operators of `Sizing` and `Ledger` that
  the account and the replay share: rounding down to a step, what a plan asks
  for, fees that are no more than half a unit from exact, sales that pay.  And
  about those of `Research`: `WindowsCover`, that walk-forward windows leave out
  only the newest bars, fewer than a step, by finding for each bar the window
  whose number its distance from the end of the first gives; `DefaultWindows`;
  `SegmentsShare`, from the ends of the segments.  Besides, the inductions above,
  and `HistoriesAreTold` (`Refusals`): after `k` refusals the window is a stretch
  of them that ends with the last one and leaves out only what is too old
  (`Spans`), and the last one sent is that of the router.
- **`EdgeProofs`**, of `Collector`.  No process knows what was delivered; gate,
  checkpoint and answers stand for it, and `CollectorInv` relates them.
  `ClosedInv`: nothing is ahead of the venue.  `RememberedInv`: the gate knows what
  was delivered or waits, and nothing of it twice.  And while only fetches have
  failed (`FlowInv`): what waits continues what was delivered, up to the
  checkpoint (`StreamInv`); the gate knows the bars up to the checkpoint that a live
  poll can return (`GateInv`, which needs `Slack < PollBars < SeedBars`); the last
  answer was at most `Slack` bars ago and is emitted or in `polled` (`AnswerInv`);
  `polled` continues the checkpoint, without a hole (`PolledInv`).  All of this is
  so while the gate has `Room` for one more key, since a gate that forgets lets
  bars through again (section 9); `EmittedOnce`, `NoGap` and `CheckpointTruthful`
  are proved under `Room`, and `RoomLasts` says how long that is: while fewer
  bars have closed, over all symbols, than the gate has places, 4096 in the code.
  The run checks the three without that condition, past the first evictions.
- **`EdgeProofs`**, of `Alerts`.  `OutageToldHolds`: a refresh that marks the outage as
  spoken of either delivers or swallows, in this very outage, because a refresh
  that finds the trader ready forgets mark and history together.
  `ProtectionToldHolds` follows the one place where the memory of the control
  row changes.  `RefusalsToldHolds` is `HistoriesAreTold`.
- **`BacktestProofs`**.  `GridInv`: positions in whole steps.  `DayInv`
  (for bars ingested on the day they close, `IngestedAtOnce`): after the release
  what may be sold plus what was sold is what was held when the day began;
  neither the property nor the types say so, and the mark of the next bar moves
  the very date the release looks at.  `SameDayKept` follows, and so does
  `ExitsReach`, when `MinQty = LotSize`: otherwise a remainder between them can
  never be sold.  `StopInv`: the remembered peak is the highest close since
  entry, and the window is full.  `FillsAreFair` is about every bar the venue
  takes, without a state.

  The figures are folds over the bars.  `ReplayKeeps`: a set of accounts that
  contains the opening one and is closed under releasing and marking a position,
  booking a fill the ledger accepts, and adding a point contains the account of
  every replay.  `DrawdownIsWorst` takes the accounts whose peak is the highest
  of the initial cash and the equity so far, at every point of the curve
  (`PeakedAccount`); then the worst of the drawdowns is the worst of all falls,
  since a fall from below the peak is less.  `FiguresAddUp` takes those in which
  cash spent and realized profit explain the cost of the positions, and realized
  profit with the fees of the purchases the outcomes (`ExplainedAccount`); it
  needs sums of ratios, of which `Same` is an equivalence that `Plus` respects,
  and that gains and losses are all outcomes but those of 0 (`SumSplits`).

  `HoldingIsFifo` compares the lots that the summary keeps with single shares,
  the n-th share of a symbol being bought at a bar and sold at a later one.  After
  any number of fills the lots of a symbol are its shares that were bought and not
  sold, in their order, each lot with the bar of its shares (`Fits`); a sale
  that takes a lot, a part of one or several adds up what the shares it takes were
  held (`SoldFacts`), whatever the lots.  This is an induction over the
  lots of a sale, over the fills and over the bars (`CountedTo`).  Each fill counts
  at its own bar only if that is what its time says (`BarIndexIs`): the theorem
  assumes `PromptReplay`, that bars have different times, as those of one
  symbol have, and that each fill is made before the next bar closes.  TLC
  evaluates that for the replays of the run, and section 9 says what comes out
  without it.

Types are proved for each of the eight specifications (`TypeCorrect`,
`CollectorTypes`), and so are the inductive invariants (`LeaseInv`, `OmsInv`,
`ServiceInv`, `AccountInv`, `ReplayInv`, `StatusInv`, `CollectorInv`,
`ReplayInvariant`), which the runs therefore do not repeat; only `collector` checks
its `CollectorTypeOK`.

## 8. What the checks found

1. `lease_read_committed` (`apps/trader/control_plane.py:489`): `acquire_lease`
   reads without a row lock; two traders that read the same expired row both
   become its owner in their own memory.  `README.md:25` promises the opposite.
   With the row locked, everything the `lease` run lists is proved.
2. `lease_lost` (`apps/trader/oms.py:524`): a trader whose heartbeat lost the
   lease while the strategy ran gets no guard, and no guard skips validation.
3. `paper_midnight` (`apps/trader/reconciliation.py:262`): the scheduled check
   after midnight compares a replay that has released T+1 shares with rows that
   have not been, and engages protection mode, which nothing clears.

## 9. Stronger statements that do not hold

These are stated in the modules and checked by no run.  Each fails under the
constants given here; the properties of the runs exempt exactly these cases.

| Statement | Module, constants | Why (source) |
| --- | --- | --- |
| `ExecutionsNeverLost` | `OmsOrders`, one signal, `Lots` 1, `MaxTroubles` 1 | the trader dies or a write fails after the venue executed: the report is lost and nothing differs (`apps/trader/oms.py:786`) |
| `GateHonoursControlRow` | `OmsOrders`, as `oms_orders` | the row read by `submit_signal` yields to the state in memory (`apps/trader/oms.py:523`); `apps/api/control_plane.py:1307` tells the operator "Kill switch enabled; only reducing or flattening actions remain allowed." |
| `DriftAlwaysProtected` | `OmsOrders`, as `oms_drift`, `MaxTroubles` 1 | one failing call while protection mode is being engaged ends the reconciliation loop, which catches nothing (`apps/trader/reconciliation.py:296`), although `README.md:26` says that it checks periodically |
| `StopAlwaysEnds` | `TraderService`, two bars, `MaxYields` 3, `MaxFaults` 1 | a handler that raises during the drain leaves `stop()` waiting in `join` for ever, with the lease renewed (`src/infra/messaging/bus.py:127`), although `src/infra/messaging/bus.py:116` says "Drain queued work, stop the dispatcher, and await its completion." |
| `LeaseCoversSignals` | `TraderService`, two bars, `MaxYields` 3, `MaxFaults` 0 | an interrupt during the stop starts a second one that skips the drain (`apps/trader/service.py:312`, `320`) |
| `UniqueAcrossRuns` | `Collector`, one symbol, no faults, one crash | the live poll ignores the checkpoint (`src/infra/exchanges/eastmoney.py:350`) |
| `NoGapEver` with `FaultKinds <- MCFetch` | `Collector`, `Capacity` 8, `MaxTroubles` 2 | bars of the symbols that were answered are dropped when a later symbol's request raises, but gate and checkpoint have moved on (`apps/collector/service.py:158`); `README.md:12` promises to fill gaps (缺口回补) |
| `NoGapEver` with `FaultKinds = {"empty"}` | `Collector` | an answer without data counts as success (`src/infra/exchanges/eastmoney.py:395`) |
| `ReadyAlwaysRecent` | `StatusView`, as `status` | a container that restarts in a loop renews the lease under its old id before it reports (`apps/trader/control_plane.py:508`), so that the report of a dead process stands |
| `NormalMeansHeld` | `StatusView`, as `status` | the diagnosis compares owners and ignores the expiry (`apps/api/control_plane.py:1575`): a dead trader is LIVE_DATA_READY, in the words of `apps/api/control_plane.py:1635`, while its last bar is fresh |
| `EmittedOnce` | `Collector`, `Capacity` 4 with `MaxBars` 4, or 7 with `MaxBars` 5 and `MaxTroubles` 2 | one bounded gate for all symbols (`src/domain/market/bars.py:228`): from about 4096 keys per window on, duplicates come back |
| `NoFalseAlarm` with two prices, one day | `PaperAccount`, one symbol, `Price <- MCPrices`, `MaxDay` 1 | the average price is rounded in the row and exact in the replay (`src/infra/db/models.py:188`) |
| `LedgerTakesEveryFill` | `PaperAccount`, as `paper` | no rule of the gate looks at the cash (`src/domain/portfolio/ledger.py:251`) |
| `ExitAdmitted` | `PaperAccount`, as `paper` | the minimum notional and the limits reject reductions too (`src/domain/risk/pretrade.py:245`) |
| `SameDayKept` with fetched bars | `Backtest`, as `backtest` with `FetchDay` 2, `MaxDay` 1, `Minutes <- MCMorning` | fills are dated by the later of close and ingestion (`src/services/backtest/service.py:605`), and the gateway dates history by the request (`src/infra/exchanges/eastmoney.py:187`): a second buy of a day releases the first (`src/domain/portfolio/ledger.py:81`).  `apps/research/README.md:12` says that T+1 is that of the trader |
| `OutageAlwaysHeard` | `Alerts`, as `alerts` | the outage is marked as announced although the cool-down held the alert back or no sink took it (`apps/trader/control_plane.py:1397`): the second outage of one cause within five minutes is never announced, however long it lasts |
| `TargetKept` | `Backtest`, as `backtest` with `InitialCash` 2000 | the model's target is taken as it is (`src/domain/strategy/ai.py:694`): the configured target position is no bound |
| `HoldingIsFifo` with fills made later | `Performance`, `Replay` with fills two days late | a fill without a bar of its time counts at the last bar before it (`src/services/backtest/service.py:924`); fetched history dates every fill after the last bar, and `avg_holding_bars` is 0 |
| `FlatHoldsNothing` | `Backtest`, as `backtest` | an exit is signalled once; shares bought that day, a suspension, a bar off session or without market state keep it from selling (`src/domain/strategy/baseline.py:633`, `src/domain/strategy/rule_based.py:172`) |

Some facts need no run.

- Replays: a bar of a whole day closes at 15:00, when the phase is already
  CLOSED (`src/domain/market/state.py:60`), so that the venue rejects every
  order on it although `apps/research/README.md:238` recommends that frame; and
  a buy that the cash does not cover ends the replay with an exception instead
  of a rejection (`src/services/backtest/service.py:258`).
  Win rate, profit factor and average outcomes leave the fees of the purchases
  out (`src/services/backtest/service.py:268`, `FiguresAddUp` says where they
  are).  A rebalance of the model to a target of 0 takes the full target, not
  none (`src/domain/strategy/ai.py:694`).
- Research: walk-forward windows leave out the newest bars, not the oldest,
  when the step does not divide what is left (`WindowsCover`); a step longer
  than the window, which `run_walk_forward_evaluation` accepts, leaves gaps.  A
  ratio that cannot be computed ranks below every loss
  (`apps/research/experiments.py:311`).
- Alerts: a trader that starts under protection mode does not say so
  (`apps/trader/control_plane.py:1161`).  The third refusal in 300 seconds is
  the first to be sent, by the time of the bars: a symbol's bars of 15
  minutes never bring three into one window.
- Market data: `make collector` and `make trader` write the same checkpoint
  file without a lock (`apps/collector/checkpoints.py:63`).
- Submission: the lease is checked once per signal; the writes and the venue
  call that follow are fenced by nothing (`apps/trader/oms.py:546`).  The code
  promises the check, and `AdmissionOrder` is about that.

## 10. Only model-checked

Liveness (`DriftProtected`, `StopEnds`, `DeathEnds`, `GapFilled`,
`OutageHeard`): the prover has no rules for fairness and ENABLED.
The three properties of the collector once its gate forgets keys (section 7).

## 11. Left out, and assumed

- Signal, event-log and alert records, except that an event-log write that
  raises is one of the failing calls of `OmsOrders`; profits, except in
  `Performance`; audit fields.
- The graceful stop is in `TraderService`, not in `OmsOrders`, whose `Stop` is
  the end of the process.  A `stop()` called from outside `run()` occurs in
  tests only.
- In `StatusView`: fields no answer depends on, alerts, the pid probe and the
  reads inside a start; bars that overtake a reconciliation that fails to start.
- The pause (strategy disabled) is one more reason to ignore a bar; market
  freshness and strategy status are free choices of a refresh.
- In the collector: suspended symbols; the two file accesses of one checkpoint
  write are one step, so that two collectors move, but do not tear, each
  other's checkpoint.  Requests are prompt (`Slack`) except in an outage.
- In the account: the duplicate-window rule (its effect on resubmission is in
  `OmsOrders`), venue rejections, limit orders beyond one flag of the bar,
  changes of settings between runs.  The venue's default scenario is one full
  fill.  `PaperAccount` assumes a minimum notional of at least 2 and fees of at
  most a tenth of the notional (the code's: 1000, and less than one per cent).
- Settings come validated; the schema is the migrated one; PostgreSQL and
  SQLite commit or raise.
- In the strategies: the prompt, the HTTP call and the parsing of its answer
  (one choice of the environment: an answer, or a failure), audits and
  wording.  A moving average is compared exactly, where the code rounds it to 28
  digits.
- In the alerts: critical alerts of failing writes, which are always sent; log
  lines; that sends are synchronous and hold up the event loop.
- In the figures and experiments: the Sharpe ratio and its ratios, rounding to
  the reported digits, breakdowns of costs and trades, payloads of snapshots and
  comparisons.
- In the backtest: audit records and the manifest; slippage of more than 2000
  basis points; symbols without a rule, which are never traded.
- Not modelled: the API's views of equity and balances, its replay of events
  (planned), web console, MCP server, configuration parsing, migrations (views,
  I/O, generated).

To run: `tlc -config MCPaperAccount.cfg MCPaperAccount`, `tlapm
PaperAccountProofs.tla`, and likewise for the others; each run takes seconds to
a few minutes.

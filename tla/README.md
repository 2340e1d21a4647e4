# A verification development for the quantitative trading platform

TLA+ models of the platform, the TLC runs that check them on small instances, and
TLAPS proofs of what matters most for every instance. Paths below are relative to
`src/backend/src/` unless they start with `src/`.

- [Inventory](#inventory)
- [Modules](#modules)
- [How state and actions correspond to the code](#how-state-and-actions-correspond-to-the-code)
- [Runs](#runs)
- [What was found](#what-was-found)
- [Proofs](#proofs)
- [What is abstracted](#what-is-abstracted)
- [Not modelled](#not-modelled)
- [Plan](#plan)

## Inventory

The platform runs one pipeline, *bar → features → provider signals → decision →
execution → account state → events*, in two settings: a validation harness that
replays historical bars, and a live manager that runs the pipeline from scheduled
jobs. Around it are a job service for long validation and optimization runs, a
governance workflow for strategy candidates, a page that follows a job, and a
separate basis-carry runner.

| component | state it keeps | operations | interacts with | hard behaviours |
|---|---|---|---|---|
| state store (`state/store.py`) | portfolio (cash, equity, realized pnl, open positions), risk counters | `apply_transition`: open, close, mark to market, risk update; `snapshot` | called by the runtime only | figures that must stay consistent across four kinds of transition |
| simulated execution (`execution/`) | its own books: pending entries, bars held, order of each position | `evaluate_bar`, `execute`, `liquidate_open_positions` | reads snapshots, returns transitions the runtime applies | two sets of books; orders that wait for the next bar; stop, target and timeout on one bar |
| platform runtime (`runtime/platform_runtime.py`, `validation/harness.py`, `runtime/clocks.py`) | the day of the signal count, the clock | `run_cycle`: a fixed sequence of ten steps | everything in the pipeline | order of reset, revaluation, decision and fill; a cycle that raises half way |
| features (`features/`) | none | an indicator per entry of `features.yaml`, market context, lookback | the CSV, the runtime, replay | warm-up, windows, values that look ahead |
| providers, decision engine (`providers/`, `engine/`) | none | `analyze` of nine providers; `process`: filter, aggregate, risk checks, final signal | reads the snapshot | defaults for missing indicators; ties, quorums, weights of zero |
| events (`events/`, `api/websocket/`) | handler list, sockets | publish, dispatch | database, Redis, Telegram, browsers | a handler that raises half way through a batch |
| replay (`replay/`, `db/repositories/decision.py`) | the event log | re-execute a cycle, rebuild features, timeline, graph, monitor | database | rows in any order, batches that broke off, another configuration |
| market data (`data/`) | the shared CSV | latest bars; download, merge, replace | exchange, harness | forming bars, gaps, writers that overlap |
| live manager (`runtime/live_manager.py`) | status, mode, stack, scheduler, two locks | `start`, `stop`, `set_mode`, `run_cycle` | scheduler callbacks, API | a cycle in flight across stop and start; failures while a stack is rebuilt |
| job queue (`api/services/job_persistence.py`, `src/backend/scripts/run_validation_worker.py`) | Redis: records, active set, queue, processing list, leases | `save`, `load`, `has_active`, `enqueue`, `blocking_dequeue`, `ack`, `requeue_stale` | API process and worker processes | several commands per operation, crashes, expiring leases |
| job services (`api/services/validation_service.py`, `validation/*job_executor.py`) | a record per job, local copies | submit, cancel, execute, report progress, finish | job queue, progress hub | stale copies saved over newer records |
| job progress and the page that watches (`api/services/job_progress*.py`, `src/frontend/hooks/useJobEventSource.ts`) | subscriber queues of length one; the page's stream and timers | publish, subscribe, stream, reconnect, poll | API, Redis channel, browser | late subscribers, coalescing, a bridge that dies |
| optimizer and walk forward (`validation/optimiz*.py`, `walk_forward.py`) | a sweep's record | train, refine, test, choose, check on the holdout, cancel | harness, job record | parallel trials, an error in one of them, windows that overlap |
| metrics (`validation/metrics.py`, `trades.py`) | none | ledger, curves, breakdowns | the event log | positions that overlap, a trade told by its exit |
| governance (`governance/`, `api/v1/experiments.py`, `candidates.py`) | experiments, runs, candidates, evaluations | create, run, evaluate, promote, delete, gate | database sessions, live manager | sessions that cross |
| configuration (`api/services/config_service.py`, `governance/revision_store.py`, `validation/job_runner.py`) | YAML files, per-process caches, revisions | patch, apply a sweep's result, build a stack, name the revision | API and worker processes | a cache that is stale, a run filed under what it did not use |
| carry runner (`carry/`, `src/backend/scripts/run_carry_live.py`) | position file, exchange account | two-legged rebalance, unwind, save, load | exchange | partial fills, timeouts, crash between order and save |
| signal research (`research/`) | none | direction signals, ensembles, magnitude filters, gate, stability over sub-windows, threshold sweep | the CSV, the indicators of the feature store | signals that look ahead, a holdout that is not held out, labels that differ from the cycle's |
| analytics, database tables, REST routing, pages | none or rows | | | see [Not modelled](#not-modelled) |

What makes each component correct, in a line:

- *store and execution*: the two sets of books agree; cash is accounted for; a
  symbol is on one side; limits hold; figures the risk manager reads are current;
- *runtime*: a decision never sees the bar its order fills on; what is published
  is what happened; a lockout lasts;
- *features*: no value looks ahead; up and down are treated alike; a rebuild that
  reports no drift would decide the same;
- *research*: a bar's signal knows what its cycle knew, and a threshold is chosen
  without its holdout;
- *providers and engine*: the majority decides, no side is favoured, nobody but
  Bollinger reversion has an opinion without data, and every order is bracketed;
- *events and replay*: what is told of a cycle is on record, and executed again it
  decides the same;
- *market data*: a backtest has every bar of its range, and a live cycle only
  closed ones;
- *jobs*: a job is in one place, is lost by no kill but two kinds that are named, ends
  once, and the page hears of it;
- *live manager*: one cycle at a time, a session that is whole, requests that return;
- *sweeps*: what is set aside stays unseen, and what is offered was earned;
- *metrics*: every cut accounts for every trade, and the curve is the account;
- *governance*: one champion who earned it, and no live session that was not once let
  through;
- *configuration*: what a process remembers is what the files hold;
- *carry*: the two legs match, and the file matches the exchange.

`PROJECT.json` lists the hazards, at their lines, with the properties that would
catch them.

## Modules

| module | models | is used by |
|---|---|---|
| `StateStore` | the store: `cash`, `equity`, `realizedPnl`, `positions`, `risk`; one operator per transition | `SimulatedExecution` |
| `SimulatedExecution` | pure functions of the engine: fill price, fee, size, gate, exits, risk checks | `TradingRuntime` |
| `TradingRuntime` | `run_cycle`, harness, live scheduling; the engine's books; the specification and its properties | `MCTrading`, `TradingRuntimeProofs` |
| `JobPersistence` | Redis as one namespace sees it: one operator per command or pipeline | `JobQueue` |
| `JobQueue` | workers, their reapers, the API process, kills and expiring leases | `MCJobQueue`, `JobQueueProofs` |
| `JobBoard` | what the service promises of a job's status: the abstract specification | `JobQueue` (refinement) |
| `JobProgress` | the job's runner, the Redis channel and its bridge, the hub, the stream, the page | `MCJobProgress` |
| `CarryPosition` | `CarryPositionManager`: target, plan, fill, funding, as functions | `CarryRunner` |
| `CarryRunner` | the live cycle, its orders and their faults, the state file, kills | `MCCarry`, `CarryRunnerProofs` |
| `LiveManager` | requests, schedulers, cycles, and the two locks between them | `MCLiveManager`, `CycleProofs` |
| `Governance` | experiments, runs, candidates, promotions, the live gate, as database sessions | `MCGovernance`, `GovernanceProofs` |
| `Configuration` | files, caches, edits, revisions, and the jobs that use them | `MCConfiguration`, `OptimizationProofs` |
| `Providers` | the nine `analyze` functions | `DecisionEngine` |
| `DecisionEngine` | asking the panel, filter, aggregator, signal builder, risk manager | `Replay` |
| `Replay` | the cycle's events on their way through the bus, the log, and everything read back from it | `MCDecisions`, `CycleProofs` |
| `Indicators` | the indicators as functions of a window of bars | `Features` |
| `Features` | the builder over a growing history, the lookback, the rebuild and its drift | `Research` |
| `Research` | the research's signals, filters, gate and sweep as functions of the same bars | `MCFeatures` |
| `Market` | the shared CSV, concurrent downloads, the live provider, the exchange | `MCMarket`, `MarketProofs` |
| `SweepWindows`, `SweepScoring` | folds and holdout; composite score, eligibility, Pareto front, fallback | `Sweep` |
| `Sweep` | one optimization sweep with its parallel trials | `MCSweep`, `OptimizationProofs` |
| `Metrics` | the logs a run can leave, and all that is computed from them | `MCMetrics` |
| `FiniteSums` | lemmas: sums over finite sets, in whatever order a fold takes them | `TradingRuntimeProofs`, `GovernanceProofs`, `OptimizationProofs`, `CycleProofs` |
| `*Proofs` | inductive invariants and theorems | |
| `MC*` | values of the constants for TLC | the runs |

Operators introduced as a *variant* stand before the definition they vary and
are used nowhere in the specifications: each is the definition with one plausible
mistake, and the property it is listed with fails when it takes the definition's
place. They show that the properties can fail.

*Composition.* `Replay` extends `DecisionEngine`, which extends `Providers`: one
specification follows a bar from the providers to the log and back. `Research`
extends `Features`, which extends `Indicators`: what the cycles saw and what the
research makes of the same bars are compared in one state. `Sweep` extends its windows
and scoring, `TradingRuntime` execution and store, `CarryRunner` the position manager, `JobQueue` the persistence.
Between those groups a module gives its neighbour a free choice that covers what
the neighbour can do: `TradingRuntime` takes any decision, `DecisionEngine` any
reading and snapshot of the instance, `Metrics` any legal sequence of openings and
closings, `LiveManager` any cycle, `JobProgress` any single job of `JobQueue`.

## How state and actions correspond to the code

**TradingRuntime.** `phase` is the position in `run_cycle`. One cycle is
`PrepareBar` (choice of bar and symbol), `PreDecisionEvaluate` (fills of waiting
orders, exits), one `ApplyOpening`/`ApplyClosing` per transition,
`BuildFeatures` (or its failure), `MaybeResetDailyRisk`, `MarkPosition` per
position and `MarkToMarket`, `Approve` or `Reject`, `SignalExit`, one of
`ExecuteNothing`/`ExecuteQueued`/`ExecuteFilled`, and `Publish` (or its failure);
the harness ends with `Liquidate` and `FinishRun`. The code awaits nothing
between a snapshot and the transitions computed from it, and the live manager's
cycle lock keeps cycles apart (`CyclesApart`), so a cycle's steps need not be
interleaved with those of another; they are separate so that the properties hold
at every point inside a cycle, and so that a failure can strike between them.
`held` is `_position_bars`, `pending` is `_pending_entries`, `opening` and
`closing` are the transitions an engine call has returned and the runtime has not
yet applied. `market` is chosen at the start: a validation, one whose signals carry the
size multiplier of a volatility target, or a live stack whose clock is a `WallClock`. `published`, `lost` and `entryFees` are history.

**JobQueue.** A step is what one process does up to and including one Redis
command, because nothing else is shared and nothing else is atomic. A worker's
`pc` runs loop → (reap) → poll → lease → fetch → begin → start → run ⇄ report →
finish → ack. `copy` is the `ValidationJob` the worker loaded: every save writes
the whole copy. The API has one handler at a time (its handlers contain no
await), but each handler's Redis commands interleave with the workers'. `has_active`
is a read of the set (`Request`), one read per member (`CheckMember`) and the
removal of stale members (`Forget`). `setting` is the deployment. A worker may be killed
before any of its steps. Two of them are history: `cut` has the workers at a job that
another has acknowledged, so that its entry is gone from under them, and `lost` the active
jobs that a kill has left in no list, or will when the other worker acknowledges; `Loses`
names those kills. The same worker
script and persistence serve optimization sweeps.

**JobProgress.** `queued` says whether a worker runs the job. `record` is the saved
job, `runner` and `canceller` hold the copies they loaded, `channel` is what has been
published to Redis and not bridged, `stream` is the generator with its queue of one
payload (`Published` replaces what is in it), `page` is the hook: the job it shows,
its attempts, whether it streams or has given up. The API may stop (with its hub,
its stream and, without Redis, the job) and start again, the bridge may fail, and a
stream may break.

**LiveManager.** A step is what one task does between two awaits. `lock` and
`cycleLock` are queues of tasks: the head holds the lock, as `asyncio.Lock` hands it
over in order. `call[c].pc` walks a request through locking, building, connecting
and launching; `cycle[t]` an instance of a scheduled job through queueing for the
cycle lock, its look at the status, its body, and recording. Stacks and schedulers
are numbered in the order they are built; `built` holds the mode each was built for.
`firing`, `asked` and the history `stray` follow schedulers after they are replaced. A start
names its jobs or none; in the latter case the default jobs are read, after the status has
been set, and `LaunchFails` is that reading raising. The history `half` says that the
session is one that such a start has left.

**Governance.** A request is a session under READ COMMITTED with one step per
statement that reads or commits. `req[s].pc` is between two of them. `stale` holds
the sessions whose reads somebody has since overwritten, `dirty` becomes true when
such a session writes: the code has no lock there, and the properties speak of
histories without it. `set_mode` of a running manager is a request of its own that asks no
gate: `BeginSwitch` stops the session, `FinishSwitch` starts it again on what it had, and
`FailSwitch` is a stack that cannot be built; it holds the manager's lock, so no start or
stop comes between (`Switching`). The history `passed` has the revisions the gate has let
a session start on.

**Configuration.** `files` are the YAML files, `cache` what each process's
`lru_cache`s hold, `applying` the files a sweep's result has still to be written to,
`runs` the finished runs with what each used and what it was filed under.

**Providers, DecisionEngine, Replay.** A reading (indicators and flags) is chosen
per provider from a set with one member for each case the provider distinguishes.
`AskProvider` appends one opinion, `Decide` is `DecisionEngine.process` up to its
result. `Publish` sends the cycle's events: all of them, or a batch that ends where
Redis refuses an event (before its handlers) or the database handler raises (after
the websocket's, before Telegram's). `ReExecute` reads the opinions back in any
order, under the same or another configuration.

**Indicators, Features.** A series is a function on the bars it has a value at, so
NaN is a bar outside its domain. `config` is what `features.yaml` says and `used` what the
cycles build with: the same, or what a preset or a trial gives the run. `Cycle` adds a bar,
computes every indicator of `used` on the last `Limit` bars and logs the result; `Review` then lets one bar be downloaded anew
and the configuration be edited; `Rebuild` is
`rebuild_indicators` with `compare_features`.

**Research.** No state of its own: each function of `research/` is an operator on the
bars. `DirectionSignal` and `MagnitudeFilter` are the candidates by name, `BaseSignal`
an ensemble (or a single candidate, a majority of one), `FwdRet` the targets,
`TradePnls` and `WinRate` the statistics the verdicts read, `Results` a candidate on
every sub-window, `SweepThresholds` the choice and what is said of it in the holdout.
A study is a candidate with its thresholds, horizon and number of windows.

**Market.** A bar is the time it opens at, and a read bar maps to whether it was
closed when read. `download_csv` is `Request`, `ReadExisting`, a `FetchPage` per page
of each gap, `WriteTmp`, `Replace` and `Load`; `get_latest` is `Ask`, `Reply`,
`Check`. `rough` records what has happened that a property excludes.

**Sweep.** `task` is the state of each trial's coroutine, `StartTrial`, `FinishTrial`
and `RaiseIn` are what they do, `Rank`, `RefineOne`, `TestOne`, `Choose` and
`CheckHoldout` the stages after them. `sweep` is the record, `measured` the history
of all backtests.

**Metrics.** `Cycle` writes the events of one bar in the order the runtime publishes
them, `Liquidate` those of the end. The history `entered` holds for each position the
context its order was decided in and that of the cycle that filled it. Everything in `metrics.py` and `trades.py` is an
operator on that log.

**CarryRunner.** One process, one cycle at a time, and a step for every command that
something outside the process can see: recording the baseline, the snapshot, each of
the two orders and the unwinding order, and the two halves of `write_text` (it
empties the file, then writes it); booking the fill and the funding stand between.
`account` is what the runner's own orders have left at the exchange, so the spot
balance is `account.spot + OwnCoins`; `file` is what `load_position` makes of the
state file, so an absent file and a broken one are the same value. `Faults` says
which of the three orders may be refused, filled in part, or filled while the answer
is lost. A cycle that raises and a process that is killed both end with nothing in
memory. `strayed` is history: it becomes true where the code can no longer know what
the exchange holds (a lost answer, an unwinding order that fails, a kill between an
order and the end of the save) and when a dry run writes its paper position into the
file.

## Runs

Twelve runs, each for one component or one composition.

| run | instance | shows | distinct states |
|---|---|---|---|
| `trading` | validation: 1 symbol, 4 bar shapes; with a volatility target: 2 bar shapes, orders of half or one and a half size; live: 2 symbols on one account, 2 bar shapes, wall clock, cycles that raise; 3 fill models, long_only or not, 4 cycles, 2 days | `BooksAgree`, `OneSided`, `CashLedger`, `NoOverstay`, `AuditTrail`, `LockoutIsPermanent`, `FillsNextBar` | 686,768 |
| `jobs` | `TwoReapers`: 2 workers, 1 job, 1 cancel, 1 kill anywhere; `OneWorkerKilled`: 1 worker, 2 jobs, 2 kills anywhere, with and without a cancel | `OneTicket`, `OneActiveJob`, the refinement `BoardSpec`, `Finishes` | 153,485 |
| `progress` | 1 job with 2 reports, with and without Redis, 1 cancel, 2 faults, 3 reconnects | `SubscribedIsTold`, `BlindPagesPoll` | 325,844 |
| `live` | 2 open requests, 2 jobs, 2 sessions, stacks and default jobs that may fail | `CyclesApart`, `SessionIsWhole`, `CallsReturn` | 139,670 |
| `governance` | 2 candidates, 1 experiment, 1 revision, 2 database sessions; promotions to challenger, champion, archived | `OneEarnedChampion`, `StartsAreGoverned`, `ActiveIsKept` | 3,161,633 |
| `configuration` | 3 edits, 2 jobs, 2 values and a content that does not load | `ApiIsCurrent` | 223,112 |
| `decisions` | 9 providers in 3 panels, 4 pairs of method and quorum, 7 contexts, 8 snapshots, batches that break off | `SidesAlike`, `HeadsDecide`, `Bracketed`, `LogIsFaithful` | 1,465,624 |
| `features` | every run of 7 bars of 3 shapes, window of 6, 3 configurations to build with, 3 studies | `NothingLooksAhead`, `StopTrails`, `SeenAlike`, `FairlyJudged`, `UpsideDown` | 71,076 |
| `market` | 2 clients, 3 requests, 3 bars that close, pages of 2 | `OnlyTheNewestIsUnfinished`, `BacktestHasItsBars`, `LiveSeesTheNewestClosed` | 654,952 |
| `sweep` | 8 sweeps: grid and Optuna, 1 or 2 at a time, 1 or 2 folds, fixed or anchored, with and without refinement and holdout, periods too short at each stage | `SegmentsApart`, `ChoiceIsEarned`, `EndedIsQuiet` | 30,440 |
| `metrics` | 4 bars over 3 days and 2 months, 2 positions at a time, longs and shorts, both fill models, full and bare logs | `CurveIsTheAccount`, `EveryTradeCounts` | 101,700 |
| `carry` | 3 markets, 3 cycles, live and dry, every fault on every order, 1 kill anywhere | `Reconciles`, `HedgeKept`, `FillNeutral` | 705,296 |

*Bounds.*
- *trading.* Four cycles let an order wait, fill, be held, time out after two bars
  and be followed by another decision, and with two bars to a day they cross a
  day's end with a position open. Two open positions are the smallest cap at which
  holding one and queueing another differ. Slippage of 10 % and fees of 5 % make
  every rounding and every sign visible in whole units. Sizes of half and
  one and a half scale an order down and up before its caps apply.
- *jobs.* Two workers are what a reaper needs to take a job from a live process,
  and a kill is what it takes for both to find the same job; one job is enough for
  that because nothing but the API's check relates two jobs, and the other
  deployment has two for that check. Two kills allow a job's second run to be
  killed too. One kill among two workers is enough for both kinds that lose a job.
- *progress.* Two reports are what it takes for one to replace another in the queue
  before the outcome replaces both. One fault may stop the API and another end the
  stream or the bridge while the page reconnects.
- *live.* Two sessions are one that ends and one that replaces it while a cycle of the
  first is in flight; two requests and two jobs contend for either lock. One of the two
  jobs is the default.
- *governance.* Two candidates are what two champions need, and two sessions what it
  takes to cross. The results are one that passes every gate with nothing to spare
  and one without folds.
- *configuration.* Three edits let the files change before, between and after two
  jobs.
- *decisions.* A panel of three is the smallest in which a majority can be opposed.
  The price of 60000 is divisible by every percentage and average, so that nothing
  rounds. Batches break off around the event that carries the decision.
- *features.* Seven bars with a window of six make the window move once; the
  periods, one to three, are the shortest at which each indicator still differs
  from its input. The preset has an average over seven bars and the trial a MACD of eight,
  both longer than what the disk looks back on. Bars come with and without a range and a volume, which is where
  indicators divide by zero. The studies are a single candidate that always has a side,
  one that holds over, and an ensemble of three that must agree by two, over two and
  three windows of two to four bars, so that a window has a handful of trades and some
  threshold leaves none.
- *market.* Three bars make a gap before, a gap after and an island; a page of two
  makes a range take two calls.
- *sweep.* Every branch of the runner has a request that takes it; periods of 6, 7 and
  19 bars are too short for the holdout, the folds and the lookback.
- *metrics.* Four bars of half a day with months of two days let two overlapping
  trades open and close on different days and in different months.
- *carry.* Three cycles open a pair (perhaps in part), hedge, resize or close it in
  another market, and do so once more after a fault; lots of two and four units
  make rounding, and amounts below a lot, matter.

*Deadlock* is checked in `trading`, `jobs`, `carry`, `live`, `governance` and
`decisions`. `features`, `market`, `sweep`, `metrics`, `configuration` and
`progress` end when their bound is reached or the page knows the outcome, and the
system may stop there. `Over` in `TradingRuntime` is the idling of a run that has ended.

*Fairness.*
- `JobQueue`: a worker's loop goes on (weak); each worker reaps and polls again and
  again (strong: it must also win against other workers now and then); a
  computation ends even if it reports progress any number of times before (strong);
  a lease runs out (weak: Redis expires keys); a handler that has begun is completed
  (weak). Requests, cancellations and kills are never owed, and the number of kills
  is finite.
- `LiveManager`: a request that can go on does, and so does a cycle that is given a
  lock (weak: the event loop runs every ready task). The end of a cycle's body is
  not owed, nor is its firing: `CallsReturn` holds although a cycle hangs.
- `JobProgress`: the runner goes on; a cancel handler that has loaded the record
  saves it; the bridge forwards; the API is restarted (`restart: unless-stopped` in
  the compose file); the page connects or fails to, subscribes, is sent what its
  queue holds, refetches and polls (weak, all of them: event loops and timers).
  Faults, reports and cancel requests are not owed.
- The other modules state no liveness property and assume nothing: a bar arrives
  when the market produces one.

*Conditions built into properties.*
- `Finishes` speaks of jobs nobody asked to cancel, because a cancel request can
  bring a finished job back, and leaves out a job that a kill has left in no list and in
  nobody's hands (`Forsaken`). Such a kill comes between the two commands of the reaper,
  or at a job that two workers were at, of whom the other has acknowledged it or is about
  to (`Loses`); every other kill, in any number, is recovered from. `JobBoard` is refined, and `OneActiveJob` holds, for one
  worker: with two, a finished job can be running again. `BoardSpec` is also without
  cancel requests.
- `AuditTrail` promises completeness only while no cycle has raised. `FillsNextBar`
  is about validations, whose clock moves.
- `SessionIsWhole` excepts the session a start has left whose default jobs could not be
  read (`half`), and says what it is: running, with a stack, without jobs or scheduler.
- The three properties of `Governance` speak of histories in which no session wrote
  over what had changed since it read (`~dirty`). `StartsAreGoverned` holds a start to the
  gate, and the start `set_mode` makes to a revision that passed the gate before;
  whether it still would is `RestartsAreGoverned`, which the code does not keep.
  `ActiveIsKept` is about sessions that run, which one is not while `set_mode` restarts it
  (`SwitchKeepsExperiment`).
- `OnlyTheNewestIsUnfinished` is without forced downloads and without a writer that
  replaced bars it had not seen, `BacktestHasItsBars` without overlapping requests
  and without the island a forced one leaves, `LiveSeesTheNewestClosed` about answers
  that come before the next bar opens.
- `UpsideDown` names the three places where an indicator takes sides: RSI
  (without a loss there is none, without a gain it is 0), a SuperTrend whose first
  close lies outside its bands, and a bar that breaks both the last high and the
  last low. `SidesAlike` leaves out `core_long`, which only buys, and Bollinger
  bands of no width or missing, which are an opinion to buy. The run gives Bollinger
  reversion the least confidence its solo tuning tries (0.55), at which that opinion
  passes.
- `WarmUpSuffices`, a part of `SeenAlike`, is about whatever the cycles build with, and says
  that past the skipped bars only indicators that need more bars than the configuration on
  disk looks back on are missing for want of bars: none where the run is built with that
  configuration. `NothingLooksAhead`, `FairlyJudged` and `ResearchSeesCycle` compare the
  research with cycles under it, for the research reads no other.
- `EveryTradeCounts` tells a trade by the cycle that published its opening: the one that
  decided it where orders fill at the close, and the one after it where they fill at the
  next open (`CountedAtDecision`).
- `StopTrails` says of every close that it is on the line's side only where the period is
  at most twice the multiplier, as in the run (2 and 1). With the repository's own values
  (10 and 3.0, `features.yaml:51`) a bar much wider than those before it can turn the
  direction while its close is beyond the new line, and the line gives way at the next
  bar; for such values the property speaks of the bars after the one that turns.
- `FairlyJudged` lets the choice depend on the first `horizon` bars of the holdout,
  which the targets of the bars before reach into. `ResearchSeesCycle`, a part of
  `SeenAlike`, is about bars that no cycle's window has left behind yet: the
  research's averages begin at the first bar of the frame, a cycle's at the first of
  its window.
- `DecidesAgain`, a part of `LogIsFaithful`, leaves out the decisions the reward
  decides: the levels are not in an opinion's event.
- `Bracketed` keeps stop and target apart from the price only where the configuration asks
  for a reward (`min_risk_reward` may be 0.0, as in `validation/strategy_presets.py:72`):
  without it, levels that are the price itself are approved. The model rounds the ratio
  down to hundredths where the code rounds it to four decimals.
- `SubscribedIsTold` is about streams subscribed before the job ends, with Redis as
  long as the bridge forwards and nobody cancels.
- `Reconciles` is about runs that have not strayed, see `CarryRunner` above.

## What was found

Each is in `PROJECT.json` under `findings`, with the line it contradicts. They came
up while the properties were being stated; where a short property states what the
code was meant to do it is kept in the module, with the remark that the code does not
keep it, so that a later version can be checked against it: `EquityAtDecision`
(`TradingRuntime`), `NoneLost` (`JobQueue`), `PartialMeansUnwound`
(`CarryRunner`), `OnlyExitsPassTheCap` (`DecisionEngine`), `BreakdownIsByReason`
(`Replay`), `BacktestSeesClosedBars` (`Market`), `RunsMatchTheirRevision`
(`Configuration`), `HoldoutUntouched` and `WindowsLabelledAlike` (`Research`),
`RestartsAreGoverned` and `SwitchKeepsExperiment` (`Governance`), `SkippedForUsed`
(`Features`), `CountedAtDecision` (`Metrics`).

1. Unrealized gains count a second time when the position closes
   (`state/store.py:146`), and the next revaluation is skipped if nothing else is
   open. The ending equity of a validation has the same error (`validation/harness.py:177`).
2. A `WallClock` answers its first bar's time for ever (`runtime/clocks.py:13` with
   `platform_runtime.py:161-167`): live cycles see one bar again and again, and a
   `next_open` order fills on the bar it was decided on.
3. `requeue_stale` removes and pushes in two commands: a reaper killed between them
   loses the job (`job_persistence.py:206`). So does a kill of the worker that took a job
   over from a slow one, once the slow one has acknowledged, or if it does so later: `ack`
   removes every entry of the job (`:188`). The reaper also deletes leases that are still held (`job_persistence.py:203`).
4. `request_cancel` saves a stale record over a finished one, after which every later
   request is refused (`validation_service.py:121`).
5. A perp order whose answer is lost is taken for one that was not filled
   (`carry/live_executor.py:240`).
6. A position of any symbol lets an entry pass the limits (`engine/risk_manager.py:48`).
7. A download has the bar that is still forming and serves it later
   (`data/live_provider.py:119`, `:171`); a live answer that is on its way while a bar
   closes is kept half formed (`:180`).
8. A run can be filed under a revision it did not use: a preset, an older revision
   asked for, an edit between building and naming, or a worker whose caches are
   never cleared (`validation/job_runner.py:247`).
9. A sweep's progress can pass or miss its announced total
   (`optimization_runner.py:220`), a refined trial can repeat a trained one
   (`optimization_space.py:500`), and a composite score of zero loses to a negative
   one (`optimization_scoring.py:139`).
10. No trade is ever in a confidence band (`metrics.py:408`).
11. An outcome published between the route's read and the subscription is never shown
    (`api/services/job_progress.py:70`).
12. The rejection breakdown files risk rejections under the first check, passed or
    failed (`db/repositories/decision.py:206`).
13. The targets of the last trained bars are closes of the holdout, so that the choice
    of a threshold depends on it (`research/stability_phase.py:168`), and a sub-window's
    bars are labelled as if none came before (`:112`).
14. `round_qty` answers the smaller of two roundings for "a step both venues accept"
    (`carry/live_executor.py:147`, `:158`), and that is one only where one lot size is a
    multiple of the other. With lots of 2 and 3 an order for 5 is rounded to 3, of which
    the spot leg buys 2 and the perp leg shorts 3. The lots of the run are nested; the
   proof of `HedgeKept` assumes it of the perp's, and with 2 and 3 TLC finds it
    violated.
15. A start without jobs sets the status to running before it reads the default jobs
    (`runtime/live_manager.py:135`, `:137`); where that raises, the manager reports a running
    session that has no scheduler and no jobs, until the next request.
16. `set_mode` starts a session on the remembered revision and asks no gate
    (`runtime/live_manager.py:192`): the champion may have been archived since. And while it
    builds the new stack, the session's experiment may be deleted under it
    (`api/v1/experiments.py:41`).
17. Bollinger reversion takes the price for a missing band and then buys, with a confidence
    of 0.55 (`providers/bollinger_reversion.py:30`), which one of the sweep's spaces accepts.
18. A validation skips the bars the configuration on disk looks back on, whatever it builds
    with (`validation/lookback.py:8`): under the presets of the long core the first
    cycles lack the long averages.
19. With fills at the next open a trade counts under the market context of the bar after its
    decision, whose close comes after the entry (`validation/metrics.py:378`).

Met on the way and outside the properties: the API killed between creating and
enqueueing a job leaves it pending for ever (`api/v1/validation_routes/jobs.py:61`);
a sweep is saved as running before its try block parses what may not parse
(`optimization_job_executor.py:40`), and a worker can save over a cancel request
(`job_executor.py:49`); a refused configuration patch stays on disk
(`config_service.py:24`); orders of two symbols that wait together fill above the cap
(`simulated.py:260`); an order that is answered before it is matched is read as filled
(`live_executor.py:173`); a dry run writes its paper position into the live file
(`run_carry_live.py:89`); the outcome of an old session's cycle is entered in the new
session's status (`live_manager.py:241`); when Redis refuses an event its local
handlers and all later events are dropped (`redis_bus.py:52`); events of one family
share both their times, so the timeline may list an outcome before its decision
(`replay/timeline.py:58`). `plan` looks at the hedge only while there is a spot leg, so
a short that a partly filled close leaves behind stays alone when funding comes back.

## Proofs

`TradingRuntimeProofs` proves, for every set of symbols, bars and markets and every
value of the limits that satisfies `StoreAssumption`, `ExecutionAssumption` and
`RuntimeAssumption`:

- `TypeCorrect`, `BooksAlwaysAgree`, `NeverOverstays`, `DrawdownStaysCurrent`,
  `AlwaysOneSided`, `AuditTrailHolds`, `CashIsAccounted` (invariants),
- `LockedOutForever` and `NoLookAhead` (action properties).

None of these is inductive alone. What an exit may close is known only from what the
engine still holds, so the types need `BooksAgree`, and `BooksAgree` needs to know
what may be in `opening` and `closing` in each phase (nothing once the cycle has gone
past `features`, only closes after `SignalExit`, at most one new id after
`ExecuteFilled`). `IInv` is the conjunction of `TypeOK`, `BooksAgree` and `StepInv`,
the latter saying phase by phase what the transitions in flight can be. The proof
that a step preserves `IInv` has one lemma per group of actions; `Invariance`
combines them. `NeverOverstays` adds that a position of the cycle's symbol that
survives `PreDecisionEvaluate` was below the limit, and `AlwaysOneSided` that after
`SignalExit` nothing held or waiting opposes the decision. `DrawdownStaysCurrent`
needs that an equity only moves together with the drawdown. `LockedOutForever` and
`NoLookAhead` are read off each action under the invariant. `AuditTrailHolds` needs to
know which transitions are in flight while the events of a cycle are collected, which
is `StepInv` again. `CashIsAccounted` is about a sum over the open positions, which the
specification writes as a fold: `FiniteSums` shows, by induction over the size of the
set, that such a sum may be begun with any of its elements, so that an opened position
adds its notional to it and a closed one takes it away.

`CarryRunnerProofs` proves, for every market, lot size, fee, set of faults and place
where a kill may hit (`PositionAssumption`, `RunnerAssumption`): `CarryTypes`,
`CarryInSync` and `AlwaysReconciles`. `Reconciles` speaks of the moments between
cycles and is not inductive. `InSync` says what holds inside a cycle: until the file
is emptied, file and account differ by exactly what the report says was filled;
memory is the file's position before the fill is booked and the account's afterwards;
once the baseline is known it is the user's own coins; and the account is never short
(`PlanBounds`, `RoundQtyBounds` and `TakesBounds`: a plan sells at most the spot
leg, rounding never enlarges it, and a venue fills no more than the order). Unwinding
restores the account because it reverses the report and nothing else. `FillsAreNeutral`
adds that nothing is sold that is not held (`NothingOversold`); what is left is
arithmetic, the rounding of the average entry included. `HedgeStays` is `HedgeKept` under
`NestedLots`: every lot of the perp is whole lots of spot, without which it is false (see
[what was found](#what-was-found), 14). It follows a cycle from the plan through both roundings to
the fills, and bounds the delta after each of the four kinds of plan.

`JobQueueProofs` proves, for any number of jobs and workers and every setting: `QueueTyped`
and `NeverTwice`; `OneAtATime` and `OutcomesStay`, which by their own words are about one
worker process; and `NeverLostByKills`, which is `NeverLost` for any number of workers that
may be killed anywhere: a job that is pending or running and not cancelled is
queued, listed, with a worker or about to be queued, unless it is in `lost`, that is, a kill came
where `Loses` says. `OneTicket` is inductive once it is known who has a job in hand and that a job
without a record was never handed to anybody (`UnknownInv`). For one worker, `RunsActiveInv` and `CheckInv` say that
whom the worker runs is active and that what `has_active` still has to check includes
every active job, while the API looks at one after the other; `UncancelledInv` that
without cancel requests a record stays as the worker left it, so that the worker's stale
copy is not stale, and every save is a step of `JobBoard`. For any number of workers,
`KnownInv` says that a job somebody is at has a record, `PlacedInv` that a worker at a job
has it listed, queued, in a reaper's hands, or is in `cut`, `AckedInv` that who is about to acknowledge
has seen the job end, unless another worker is at it and will end it, and `WaitsInv` that an active
job nobody is at waits in some list or is in `lost`.

`GovernanceProofs` proves `RowsTyped`, `ChampionsAreEarned`, `GateHolds` and `LiveIsKept`
for any number of candidates, experiments, revisions and concurrent requests. A request
reads in some transactions and writes in a later one, and the history variable `stale`
holds the requests that were overtaken. The invariant says what every other
request has read is still true (`PromoteHolds`, `StartHolds`, `DeleteHolds`): each write
either leaves what a request has read as it is, or makes the request stale. `PassedInv` says
that in production the session that is live, or that `set_mode` has stopped to start it again,
is on a revision in `passed`, which is what `GateHolds` needs of the start without a gate. That a result which passes the evaluator's gates
has two regimes with trades is a lemma about the number of regimes its fold counts.

`MarketProofs` proves `LiveIsClosed`, `UnfinishedIsNewest` and `BacktestIsComplete` for any
page size, limit, clients, clock and requests. `Inv` says for each step of a download what
its bars are: the pages so far join without a gap and are finished bars (`Paged`), the
older range is fetched before the newer (`OlderFirst`, `ThenNewer`), and what is to be
written has the bars of the ranges missing (`Writing`). `LiveIsClosed` needs only that the
answer is of some moment since the request (`Answer`). `CalmInv` adds that until a range
is fetched anew by force, or bars are dropped, what a request merges into holds every bar the
request knew of, so that an unfinished bar it brings is the newest of the merged ones (`Fresh`). `SmoothInv` is about requests
that do not overlap: the file has no gap, one request at most is under way, and what it
knows is the file.

`CycleProofs` looks at a cycle from three sides. Of the manager that runs it, it proves
`CyclesNeverMeet` and `RunningMeansWhole` for any number of requests, jobs and sessions. That two cycles are never in their body follows from who
stands at the head of `cycleLock`, but a task is at the head of a queue only because of
how it joined and left it, so `HolderInv` says for each step of a request and of a
cycle which lock it holds and that it stands in a queue once. `RebuildInv` says what a
session looks like while the request that rebuilds it holds the lock (a stack of a stopped or
a half started session, an old scheduler in the request's hands), `RequestInv` and
`NumbersInv` that what a request remembers was built. `ManagerInv` is their conjunction with
`TypeOK` and `SessionIsWhole`.

Of the engine that decides in a cycle, it proves `HeadsAlwaysDecide` and `AlwaysBracketed`
for every configuration, panel, context and reading that satisfies `EngineAssumption` and
`ProvidersAssumption`, with any number of providers. The invariant (`DecisionInv`) says that
the signals are, in the panel's order, opinions of its providers (`OpinionsInOrder`): each of
the nine `analyze` functions gives a side together with the confidence it asks for and with a
stop and a target on either side of the price (`AnalyzeIsOpinion`). The aggregator's answer is
that of the side that carries, or none does (`CombineDecided`). A mean that is rounded down still
respects an integer bound all its values respect (`MeanWithin`, `WeightedMeanWithin`), so
that the merged levels bracket the price, whatever the weights (zero included), and the
confidence is no more than that of the surest winner. The winners' names give back the winners
because no provider is heard twice (`LevelledWon`). That the order is irrelevant is proved
of any permutation (`ProcessShuffled`), the reverse order of `HeadsDecide` being one: sums are
indexed by the places of the signals, and `SumReindexed` moves them.

Of what is kept of a cycle, it proves `RecordAlwaysFaithful` (`LogIsFaithful`), also for any
number of opinions and wherever a batch may break off (`BreaksAssumption`: after a natural
number of events, none included). `RecordInv` adds to `DecisionInv` that nothing is recorded
before the cycle is published, that a batch the database ended is not complete, and that an
answer of the replay engine is what `process` makes of the logged opinions in some order.
The rest is the place of each event in the batch (`EventsPlaced`): DecisionMade is behind
every opinion, so that a log that holds it holds them all (`AllLogged`); whoever is handed an
event before the database is handed one more at most, so that what a page is told of stands
behind DecisionMade in the log (`TellsOnRecord`); and cause and family of an event are read
off its place (`EventStands`). Executed again, the opinions have lost their order and their
levels: the first a permutation, for a function onto a finite set is one to one
(`OrdersShuffle`), the second nothing the aggregator reads (`BareCombine`), so that only the
reward can come out otherwise (`SameConsensus`). The run tries the rows of a page in two
orders; `RowsAreOf` and `RowsAreJoined` are about every order, and the timeline is a stable
sort whatever its rows are (`AheadIsBefore`, `EveryPlaceTaken`).

What is assumed there of the constants the code checks on loading, where it says so: weights
and the reward asked for are not negative, and at least one provider must agree
(`engine/config.py:12-25`, `providers/base.py:18`); a provider is enabled once, by the file of
its name. A provider's own `params` are a free dictionary (`providers/base.py:19`): that its
ATR multiples and its minimum of confidence are not negative holds of every file in the
repository and is checked by nothing.

`OptimizationProofs` proves `EndedIsQuiet`, `SegmentsApart` and `ChoiceIsEarned` for every
request the API accepts, every set of parameters and every outcome a backtest can have.
None of the three is inductive. That an ended sweep leaves no task behind needs what each
phase allows of a task (`TasksInv`): `refine` begins when the last trial is done, and a sweep
that fails or is cancelled ends when the last one is. That a choice was earned needs that
every figure a result carries is that of backtests in `measured` (`ResultsInv`,
`FinalistsInv`, `VerdictInv`), and that of a set of parameters either all periods of a
segment were measured or none, with one outcome for each (`MeasuredInv`): otherwise the
figures the verdict compares could be taken over other periods than those the property
sums. `SegmentsApart` is arithmetic on the windows under `WindowsAssumption`: the windows follow one
another however their edges are rounded, two neighbours share at most the midnight between
them, and the later one only warms up on it, because `Skip` is the longest period and one
bar more (`compute_min_lookback_bars`) and so never 0. The figures are sums over
the indices of an outcome list, which `SumReindexed` compares with the sums over the measured
set. `SweepInv` is the conjunction of the five parts.

It also proves `ApiAlwaysCurrent` for any files, edits and jobs: `ConfigInv` is `TypeOK` and
`ApiIsCurrent`; each write clears the loader of the file it writes, and a loader remembers
only what it has just read.

The proofs assume only the named assumptions on the constants (`StoreAssumption`,
`ExecutionAssumption`, `RuntimeAssumption`, `PositionAssumption`, `RunnerAssumption`,
`ManagerAssumption`, `ConfigurationAssumption`, `QueueAssumption`, `GovernanceAssumption`,
`MarketAssumption`, `SweepAssumption`, `ScoringAssumption`, `WindowsAssumption`,
`ProvidersAssumption`, `EngineAssumption`, `BreaksAssumption`), which TLC evaluates for the values of the runs,
and `NestedLots` where it is written.

*Induction.* The library's induction theorems take an operator as a parameter and cannot
be used. What is proved by induction here (the sums) takes the naturals' well-foundedness
instead, which speaks of sets, and recursive functions over subsets of a finite set. What
a fold over a sequence returns for every input is not proved.

*Only model-checked.* Of `DecisionEngine`: `SidesAlike`, which is true of the runs' values
and not of all integers: means of mirrored levels that have to be rounded down are not each
other's mirror. Of
`Features`: `StopTrails`, `UpsideDown`; of `Research`: `SeenAlike`, `FairlyJudged`; of
`Metrics`: `CurveIsTheAccount`, `EveryTradeCounts`: these compare what folds over sequences
and rounded divisions return for related inputs. And all liveness (`Finishes`, `CallsReturn`, `SubscribedIsTold`,
`BlindPagesPoll`), which is out of the provers' reach.

## What is abstracted

- Prices, quantities and money are small integers, divisions round down, and
  percentages are whole percents; the code uses floats. No property here
  depends on a fraction, but a drawdown just below a limit may round to it.
- `TradingRuntime`: any bar may bring about a BUY, a SELL or a rejection before the
  account checks. Stop and target are at fixed distances. One timeframe per symbol.
  Transitions carry no versions or timestamps.
- `JobQueue`: a job's record is its status and its cancel flag. Records do not expire.
  Results and messages are left out. The order in which the reaper visits the
  processing list is arbitrary. Liveness does not assume that anybody submits a job.
- `JobProgress`: one job and one page. The hub of a worker has no subscribers and is
  left out, the bridge of a running API never reconnects, and the page polls and
  refetches in one step. A task of the API process has started before a cancel
  request can reach it.
- `LiveManager`: what a cycle does to the runtime is `TradingRuntime`'s; connectivity
  flags, last run and last error are reported and never read back.
- `Governance`: an evaluation's result is a choice among a few; at most one run row
  and one job per experiment matter to its status.
- `Configuration`: a file is one value. `settings.yaml` is not part of a revision's
  hash, as in the code.
- `Providers`, `DecisionEngine`: rationales, ids and times are left out.
- `Replay`: events of earlier orders' fills travel on the same bus and are not part of a
  decision's record. Live cycles keep no snapshot and cannot be executed again.
- `Market`: requests end at the present or before it. The write is one replace; a
  `.tmp` file or a CSV that a kill leaves half written is not modelled.
- `Sweep`: two switches and one refined value stand for the parameters; a sampler
  is any sequence of proposals. A backtest's outcome is one of a few and the same for
  the same parameters and period.
- `Research`: win rates are multiples of a twelfth of a point, returns hundredths of a
  percent cut towards zero, filters whole percents. A window is never empty.
- `Metrics`: Sharpe, Sortino and composite scores are left out; no property speaks
  of a square root.
- `CarryRunner`: orders fill at the snapshot's prices. The counter of flips, the mark in
  the state file and the log are left out. A kill while the file is being written leaves
  no valid JSON. What ccxt and the exchange do with an amount, a balance and reduceOnly
  is external and modelled from how the code uses them. The threshold on trailing
  funding is a constant that some snapshots miss, so that closing is checked; the
  runner script passes -1.0 (`run_carry_live.py:75`), under which it holds for ever.

## Not modelled

- *Analytics* (`analytics/`, the research scripts) and of `research/` the correlations,
  deciles, run lengths, fees, threshold band, volatility overlay and reports: statistics
  of one list or views of stored rows, without state between calls.
- *Database tables and row mapping* (`db/`): where a transaction matters, the module
  of that part has it.
- *REST routing and authentication*: each request ends in an operation that is modelled
  where it belongs.
- *Pages*: views of what they fetch; the one hook with a protocol is in `JobProgress`.
- *Hypotheses* (`governance/hypothesis_store.py`): rows that are written and listed.
- *Provider metadata* (`providers/metadata.py`) and rationale texts.
- *Bus selection at start* and the log handler.

## Plan

The model is complete up to the list above. What a next step would be:

1. `Metrics`: `EveryTradeCounts`, as sums over a partition, with `FiniteSums`.
2. The partly modelled parts of the list of components, where a protocol appears in them.

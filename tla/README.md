# hftbacktest-slim: verification project

TLA+ models, TLC configurations and TLAPS proofs for hftbacktest-slim and the
future/spot arbitrage backtests built on it.  Paths below are relative to
`src/`.

## The system

The repository backtests, paper-trades and trades an arbitrage between a stock and
its future.  A backtest replays the top-of-book rows of the two assets against the
strategy; the live router sends the same pair orders to a broker.

| Component | Source | State | Operations |
|---|---|---|---|
| Price ladder | `hftbacktest_slim/native/src/book.rs` | two maps tick → quantity, cached best ticks, far ends | apply one snapshot row |
| Replay engine | `native/src/engine.rs`, `scheduler.rs`, `matcher.rs` | four ladders, two cursors per asset, orders, requests and responses in flight, one clock | submit, elapse, wait for a response, advance to the next feed row |
| Native interface, Python facade | `native/src/ffi.rs`, `hftbacktest_slim/src/hftbacktest_slim/engine/` | a handle, open or closed | find the library, read files, create, call, close |
| Compact cache | `.../cache/` | a directory tree of published dates, temporaries and superseded dates | build and publish a date, validate, read a symbol |
| Market data | `.../market_data/`, `.../cache/builder.py`, `scripts/tw_stock_data_to_npz.py`, `scripts/compact_hbt_adapter.py` | none | convert raw rows to events, normalise and order them, write, scan and compare one symbol's file |
| Event data | `future_spot/arbitrage/full_market_runner.py` | split CSVs and archives on disk, shared by all runs | split, convert, audit |
| Pair execution and sessions | `hbt_backtest.py`, `slim_execution.py`, ... | open position, execution table, time of the last action | send the two legs, recheck, flatten |
| Strategy and compiled kernel | `strategy.py`, `hbt_numba.py` | position of the pair | price, signal, risk check; the fixed-step replay, twice |
| Groups and workers | `full_market_runner.py` | shards, one heap of next events per spot, one engine per pair | deal pairs out, drive sessions together, gather results |
| Position carry, multi-day runner, result store | `position_carry.py`, `full_market_runner.py`, `scripts/daily_result_store.py` | positions handed from day to day; published days, tables, manifest | restore, expire, run a day, publish it, resume |
| Capital and reports | `capital.py`, `full_market_runner.py`, `backtest_report.py`, `test/report_tables.py` | open lots, capital in use | replay fills under a limit; cash, return and failure tables |
| Paper trading | `providers.py`, `strategy.py` | feed thread's queue and quotes, position | replay recorded quotes, decide, execute on paper |
| Live router | `providers.py` | position, pending pair order, entry blocks, shared by three threads | place two legs, take reports, time out, flatten |
| Live configuration | `future_spot/scripts/build_arbitrage_config_from_date.py` | none | choose targets, load the account's positions, check them |
| Scripts, CLI, notebooks, notifications | `scripts/`, `cli/`, `notebooks/`, `daily_lark.py` | none | output and conversion |

How they interact: the cache builder (or the event converter) turns raw rows into one
file per symbol and date; the facade hands two of them to the native engine; a session
drives the engine, one blocking call at a time; sessions that share a spot are driven
from one heap; fills go to the capital replay and the reports, open positions to the next
day, each day's results to the store.  In live trading the strategy loop and the
broker's two callback threads share one pending pair order.

What makes it hard is, first, *simulated* concurrency: rows travelling to the strategy,
rows taking effect at the exchange, requests and responses are four streams per order
that meet on the same nanoseconds, and a clock that jumps wherever the caller asks.
Second, real concurrency: the live router's threads, paper trading's feed thread, and
builders and readers of the file stores with nothing but renames between them.  Third,
failure: pair orders of which one leg fills, sessions that raise in a group, workers and
runs that die.  Fourth, everything that exists twice: two feed converters, two order
paths, two replay loops, two lists of failure statuses, reports that add up the same
fills by different keys.

What makes each component correct:

* **Ladder.** Locked, crossed, one-sided and halted rows leave levels in the maps
  that are not shown.  They must never make the shown book crossed, come back as
  a best price, or survive a halt; a proper row must be exactly what is shown.
* **Engine.** Nothing is processed late or skipped, whatever the mix of calls; an
  order is decided once, on the exchange book of the instant it arrives, and
  answered once, at the configured latency; a wait tells the truth about its
  deadline; every call returns.
* **Cache and market data.** A published date is complete and valid; a reader never sees
  a half-built one; a crash loses nothing that was published.  A feed shows each clock
  every event once, in its own order; the facts in a manifest are those of the rows.
* **Pair execution.** Both legs end up filled, or neither, or the first is flattened, or
  the exposed leg is in the report; no execution goes unrecorded.
* **Groups, runs, carry.** The entry interval holds between any two pairs of a spot; no
  pair and no engine is lost; a resumed run reports what a fresh one would; no position is
  dropped or counted twice between days.
* **Capital and reports.** Capital in use is that of the open lots and within its limits;
  tables made of the same fills agree.
* **Paper and live trading.** Decisions use the quotes of their own time; orders follow the
  plan of their pair order, a naked leg is never forgotten, a pending order settles, and
  the next day starts with exactly what is held.

## Modules

| Module | What it is |
|---|---|
| `DepthState` | The methods of `DepthState` in `book.rs` as functions from ladder to ladder |
| `SlimBook` | One ladder as a state machine: any row may come next |
| `SlimEngine` | The engine: two assets, orders, schedule, clock, and the caller's API calls |
| `OrderTimeline` | Abstract specification: what the engine promises about time, with no rows, books or schedule |
| `SlimEngineTimeline` | The refinement mapping from `SlimEngine` to `OrderTimeline`, and the replay reading of a match |
| `CachePublication` | One date of the compact cache: builders, readers, raw files that change, crashes |
| `FeedEvents` | The raw rows of a symbol, the two converters, the compact table's order and the events rebuilt from it |
| `CompactSchema`, `CompactTable` | File fields and metadata; batches, parts, consolidation, validating scan, manifest and engine reader of one symbol |
| `EngineHandle` | The life of a native engine behind the facade, as operators on a record |
| `EventData` | Preparation of a date's event files, over several runs |
| `DateBacktests` | The backtests of a date: extends `EventData` and `EngineHandle`, deals pairs to workers, drives sessions through `PairSession`, engines through `EngineHandle` |
| `PairSession` | Abstract specification of one pair's session: one event at a time, one step per pair order |
| `PairExecution` | The same session order by order on the engine, shown to implement `PairSession` |
| `Sums` | Sums over a sequence as a recursive function, which the proofs can unfold (`Sums_proofs`) |
| `ExecutionReport` | Summary row and failure tables of an execution table |
| `Fractions`, `PairStrategy` | Exact fractions; pricing, tick sizes, signal, risk check and profit |
| `StepReplay` | The fixed-step replay loop in Python and the loop around the compiled scan |
| `PaperReplay` | Paper trading on recorded quotes: feed thread, driver, paper execution |
| `LivePairOrders` | The live router: strategy loop, two callback threads, broker |
| `LiveConfig` | Targets, initial positions and the start-up check of a live day |
| `PositionCarry`, `CapitalReplay`, `Portfolio` | Carried positions day by day; the capital replay as operators; both over the same fills |
| `Reports` | Cash and return tables, reports over intervals, tables read in chunks, on top of `Portfolio` |
| `DailyRuns` | Runs over one output directory: reuse, publication, tables, manifest, kills |
| `MC...` | Instances for TLC, with the properties that need two components at once |
| `..._proofs` | Lemmas, theorems and their proofs |

Definitions called *mutated form* or *mutant* are plausible mistakes in the definition
that follows them.  The specification does not use them; they show that each
property fails when the code is wrong in the way the property is about.

### Ladder

`ClearBid`, `UpdateBid` and their ask twins follow the code's methods one by one,
with the gap of one tick in the search after a clear and the far ends that are
reset only when a side runs empty.  A map is a function on ticks with 0 for a key
that is absent.  Prices are integers in parts of a tick, so `PriceTick` really
rounds, half away from zero.  The two branches of `update_bid` and `update_ask`
for a quantity that is not positive are modelled, but rows that passed the
partition validation (`market_data/validation.py`) quote a side with a positive
price and quantity or not at all, and that is `RowsAssumption`: with a priced row
of zero quantity the view could be valid and crossed.

### Engine

| Model | Code |
|---|---|
| `localTodo[a]`, `exchTodo[a]` | the rows of `local_order` and `exch_order` at or past their cursors; a row is named by its `source_seq`, which validation makes strictly increasing |
| `NextEvents` | `next_event`: the least key over the two cursors per asset and all of `pending` |
| `Key`, `Priority` | `data_key`, `pending_key` and the priorities of `scheduler.rs`, in both modes |
| `call` | the loop in progress: `elapse`, `wait` (`process_through` with a response to stop at), `drain` (the second `process_through` of a wait in hbt mode), `feed` |
| `LocalData`, `ExchData`, `Request`, `Response` | `process_event`, one branch each, `Request` with `process_order_request` and the match |
| `ReachTarget` | the end of `process_through`: the clock is set to the target |
| `Submit`, `SubmitDuplicate`, `Elapse`, `Wait`, `NextFeed` | the entry of each API call up to its loop, with its early returns and return codes |
| `trail` | history only: the rows the strategy had seen and the exchange had applied at submission, and the rows applied at the match |

A call holds the thread until it returns, so no call opens while another is in
progress.  An order that has no entry in the map has status `"none"`.  Left out,
because nothing in the engine depends on it: quantities and time in force (the
matcher fills everything or nothing and ignores both), volume and last price, the
order and row fields that are only copied through, and the argument checks of
`submit` and of the facade (side, time in force and asset number are always legal
here; durations and timeouts are not negative).  The stored views are the view of
the stored ladder, which each row recomputes.  The end of the clock is `MaxTs`;
additions saturate there, as the code's do at the end of `i64`.  Saturation at the
other end cannot occur with timestamps that are not negative.

### Abstract timeline

`OrderTimeline` has a clock, and per order a phase, the instant it is owed its
next step, and a verdict.  `Pass` moves the clock anywhere that is not past such
an instant; `Send`, `Decide` and `Answer` happen at exactly theirs.
`ImplementsTimeline` maps the engine onto it: the clock is `current_ts`, the phase
comes from the order's status and visibility, the instant from the latencies.

### Compact cache

| Model | Code |
|---|---|
| `place[i]` | the name under which partition `i` stands: `.tmp-<date>-*`, `date=<date>`, `.superseded-*`, or gone |
| `part[i]` | its content: the identity in its manifest (`claims`, `request`), the version each batch was read from, its size, whether the date manifest is written |
| `Start` ... `Decide`, `MakeTemp`, `WriteManifest`, `Verify` | `build_date`, one step per look at the file system |
| `Preflight`, `Scan`, `Consolidate` | `preflight_space`; the loop of `build_source`, each round with its `runtime_budget_check` |
| `Stage`, `LookAgain`, `MoveAside`, `MoveIn`, `Restore` | `publish_date_atomically`, one step per operation; each rename may fail, the one that undoes the first included |
| `BuildFails`, `Clean` | an exception in the build, and the clean-up it leads to |
| `ReadManifest`, `ReadFiles`, `Open` | `_validate_path` in two steps, then `read_symbol` resolving the path again |
| `Crash` | the process dies, or is interrupted by something that is not an `Exception`: no clean-up runs |

Builders and readers are separate processes that share nothing but the directory
tree; the code takes no lock, so any of their steps may interleave.  A source
manifest holds the time its build took, so a validation that began on one partition
and finds another under the same name at its second step fails.  The size of a batch
is its estimate: the code's estimate ignores compression and row selection and is an
upper bound.  The free-space reserve depends on everything else on the disk, so any
check of it may fail.  The other dates of the root, which only add to its size, are
left out, as are the contents of rows.

### Feed and compact table

A row has two stamps, levels of both sides, a last price, a running volume and a trial-match
flag.  `ColumnarEvents` and `LegacyEvents` are the two converters of `tw_stock_data_to_npz.py`
(`ColumnarStep`, `LegacyStep`: one row each, with the book cleared up to the worst new price,
the trade and its inferred side, the lock price of a trial match).  The columnar one gets the
rows sorted and cut to the columns of the selected levels (`Frame`, `Selected`); the row-by-row
one, whose source is a CSV, gets them in file order with all their levels; the compact table
sees all levels.  `Corrected` and `EventOrder` are `correct_local_timestamp` and
`correct_event_order` with its merge.  `Compact` is the table `compact_batch` makes of the same
rows, with `timestamp_ordering_facts`; `Rebuilt` is what `compact_hbt_adapter.py` makes of that
table.  Everything is a function of the rows; the one step is that the source holds one row
more.

`CompactTable` adds how the table is written and trusted: rows come in batches under raw
names (`ReadBatch`, `PartsOf`), parts are consolidated (`FileOf`, with the fields and
metadata of `CompactSchema`), `Scanned` is one batch of `_validate_compact` with the few
values it carries over, `SymbolOk` and `SourceOk` compare a file with its manifest entry
and the entries with their totals, `ReadRows` is `arrow_reader.read_rows`.  A checksum is
the content it is taken of.  `Kind` is the kind of the source: only those of `StatusKinds` take
their trial rows from a status.  A metadata value is text: a numeral in strict or loose form,
or a word.

### Event data, groups and engines

| Model | Code |
|---|---|
| `archives`, `splits` | what is under the name of each archive and split CSV: nothing, all rows, a part of them, something that broke off, or an archive of older semantics |
| `SplitSpots`, `PrepareFutures`, `NextRecord`, `AuditReady`, `BuildCompact` | the stages of `build_event_data`; in each the run may be killed or raise |
| `Rerun` | the user starts the runner again over the same files |
| `shards`, `NextGroup` | `balanced_backtest_shards` (`Shards`), and the shard's loop over its groups |
| `heap`, `Open`, `ResolveNext`, `AdvanceIt`, `CloseNext` | `_run_shared_spot_cooldown_group` |
| `Raise`, `Drop`, `WorkerDies` | an exception on any call, the aborts and `__del__` it leads to, a worker that dies |
| `engines[k]` | allocations and releases of the native engine of pair `k`, and whether the facade still holds the handle (`EngineHandle`) |

Run keys are numbered in the order of the records (`KeysAssumption`), so the least run key is
the first record.  The loop that deals the groups, and the one that leaves empty shards out,
are recursive functions (`Dealt`, `NonEmpty`).  Workers share nothing, so their shards are run
one after another.  A pair without a shared interval is replayed in one step, since only how it
ends matters here.

### Pair session

`PairSession` gives a driver one event at a time and takes its answer; a pair order is one step
of it.  `PairExecution` has one step per engine call of `_execute_signal`: `FirstLeg`, `Delay`,
`Wait` (each round of `_wait_post_first_feed`), `ProfitCheck`, `SecondLeg`, `FlattenFirstLeg`.
The engine is taken by its contract: rows still to come, answers still to come, a clock, and an
order that reaches the exchange after its entry latency or not; `Reaches` lets a wait time out
on an order that was executed.  `abs` is the refinement mapping.  The clock takes values of
`Times`, a range for TLC and all naturals in the proofs.  `Executed`, `Audited` and `Naked` add
up the table's fill columns.  The execution table, `log`, is what `ExecutionReport` turns into
summary, failure tables and windows.  A row's fills stand in the order of its columns; the
flatten after a failed profit check is handed over as the second fill
(`hbt_backtest.py:637-649`), so it is the second entry of its row.  Prices are not modelled
here: an order fills or not, a profit check holds or not.

### Strategy, step replay and paper trading

`PairStrategy` computes with exact fractions what `PairPricer`, `StopLossAwareSignalEngine`
and `RiskManager` compute with floats, over whole prices.  `StepReplay` runs the Python
loop and the loop around the compiled `scan_until_wakeup` over one sequence of markets.
`PaperReplay` has the feed thread (`UpdateTimestampGroup` under the lock, `PutUpdate` after
it, `FeedEnds`) and the driver (`IsFinished` and `IsFinishedQueue`, the two reads of
`is_finished`; `WaitForUpdate`, `EvaluatePair`); `PaperMarketAfterLatency` prices the two
legs at up to four instants after the trigger, and ends in a fill, a skip or a flatten.

### Live router and its configuration

| Model | Code |
|---|---|
| `thread["main"]` | the strategy loop inside `place_pair_orders` or `_check_pending_order_timeouts` |
| `thread[leg]` | the callback thread of the broker's connection for that market |
| `pending` | the entry of `_pending_orders`: targets, legs sent, whether its failure was handled |
| `Route`, `Store`, `PlaceFirst`, `MarkSent` | `place_pair_orders`, at each lock and each SDK call |
| `Fill`, `Defer`, `PlaceSecond` | a fill: position, release, then the deferred second leg |
| `Report`, `PartialReport`, `CancelRest` | a killed, refused or partly filled order |
| `SecondFails`, `PlaceFlatten` | `_handle_second_leg_fok_failure` and the flatten order |
| `Overdue`, `Expire` | the timeout scan, which hands over to the failure path or disables entries |
| `blocks` | `cooling`, `locked`, `disabled`: the reasons of `_entry_block_reason` |

Quantities are parts of a pair.  Time is abstracted: a pending order may be overdue, a
cooldown over, at any moment.  Two pair orders may overlap (a fill that follows a release
meets the next one); `clean` says that none has, and the safety properties are about
clean histories, since the code takes a report for the pending pair order whichever order
it is of.  `LiveConfig` builds a day's configuration from target rows and the account's
rows (`BuildTargets`, `FilterFrontMonthTargets`, `BuildInitialPositionsFromLive`), and
checks it as `verify_startup_positions` does (`Startup`); `MCLive` starts it from the
account of every state the router reaches.  `MayBeTarget` are the symbol filters of
`build_targets`; without a target left the script stops and there is no configuration
(`NoConfig`), which `MCLive` does not start.

### Carry, capital, reports, runs

`PositionCarry` has one step per trade date: the universe joined by the pairs held, runs that
complete or fail, snapshots, expiry (a contract names its month by a letter and its year by one
digit).  `Portfolio` replays the fills of all dates under the capital limit with
`CapitalReplay`, whose operators are `capital.py`'s functions.  `Reports` are the tables built
of the same fills; a run's summary row adds up the realized amounts of all rows of its
execution table, those of failed pair orders whose first leg was flattened (`FlattenGain`, an
amount of its own for each run) included.  `Chunks` is the streamed reading of the saved ones.
`DailyRuns` has a step per date reused or executed, per rename of a publication and per table
opened or closed; `Crash` ends a run at any of them and `Damage` spoils a published date.
`opened` says whether the store's directory exists, which is what a resuming run asks
(`full_market_runner.py:927-930`); `InOrder` is the order of dates `CarryIn` reads back.  A
date's result is represented by what it depends on: arguments, date, and positions carried in.

## Runs

| Run | Shows |
|---|---|
| `slim_book` | The ladder under every sequence of rows over five prices, half-tick prices included |
| `engine_hbt` | The engine in hbt mode: 2 rows of one asset, 1 of the other, one order per asset |
| `engine_sequence` | Sequence mode with two orders of one asset, sent, waited for and timed out in any order; every call returns |
| `cache_build` | One builder on two requests beside a reader, or two builders of one date, interleaved at every file operation |
| `feed` | Three rows in any order on either clock, through both converters and the compact table |
| `compact_table` | Three rows of a symbol under two raw names, in any batches, written, scanned, damaged and read back |
| `pair_execution` | One session under eight configurations, every wait, timeout and failure |
| `spot_group` | The backtests of a date from their event data on: two pairs of one spot and one of another, one or two workers, two runs |
| `daily_runs` | Three runs over three dates with four sets of arguments, killed anywhere, one partition damaged |
| `portfolio` | Three dates and two contracts at the end of a decade, every universe and outcome |
| `paper_replay` | A day of three rows per leg, with and without latency, the feed thread any distance ahead |
| `live_router` | Two pair orders of one pair, every interleaving of three threads and the broker, and a start from each account left behind |

**Bounds and why they are enough.**  *Ladder*: ticks 0 to 4 leave room for a best, a hidden
level, the one-tick search gap and a far end on one side at once; prices on ticks 1 and 3 and
half-tick prices that round to 2 and 4, and an absent price; any row may follow any row
forever.  *Engine*: timestamps 1 to 5, latencies and lags 0 or 1, so that all four kinds of
events can coincide, precede and follow each other, and saturation at `MaxTs` is reached by
ordinary latencies.  The second row moves the book up, halts it, or loses its ask.  One
limit price suffices: it is crossed by the first book and not by the second for a buy, and
the other way round for a sell.  `engine_sequence` has one asset, since ties and mixed-up
answers need orders of the same asset; what is proved holds in both modes.  *Cache*: three
builds, the least with a predecessor and two builders that race to replace it; one batch,
and one change of the raw files; a budget of five batches, of which a build needs its own
twice, so that leaked temporaries and superseded partitions use it up.
*Feed*: rows that are plain, lower with a repeated and an unpriced level, one-sided, trial
matches with and without a valid first level, and silent; latencies of both signs.
*Table*: five deliveries, batches of at most two of three rows, so that a batch boundary
falls at every place, and a session that cuts one stamp off; the source is of kind `stock`
and `Levels` is 2, so the kinds without a status are in the module and not run, and no BBO
file (`Levels` = 1, whose rows another branch writes, `builder.py:221`) is built.  *Pair*: data of a few rows
within `Times` 0 to 16 and seven steps, enough for an entry, a failed entry and an exit.
*Group*: `Interval` 2 with sessions that act at times 0 to 4, so entries can be too close, just
apart and well apart.  *Runs*: three, the least for one to be killed, one to disturb and one
to resume.  *Portfolio*: one contract expires on the second date, after a holiday, the other
belongs to the next decade; the capital admits
two lots of the first contract or one of the second, and not one of each.
*Paper*: latencies of 0 and 1 against rows 1 to 4 apart, quotes that go stale.  *Live*: `Lot` 2,
so that a fill may come in two parts, and one pair, so that a second entry must be refused.

**Deadlock** is checked in `slim_book`, the engine runs, `pair_execution` and `spot_group`,
where the end of a session is an explicit step.  The others really stop, at a bound or at
the end of their data: numbers of builds (`cache_build`), of rows (`feed`, `compact_table`), of
runs (`daily_runs`), of dates (`portfolio`), of recorded rows (`paper_replay`) and of pair orders
(`live_router`).

**Fairness** is assumed in two runs.  `engine_sequence`: `WF_vars(Step)`; a call is a plain
loop in the caller's thread, with no lock, no wait and no other thread, so an open call that
can take its next step takes it; nothing is assumed of the strategy.  `live_router`: weak
fairness of each thread's own steps, which only take a lock that is held briefly; strong
fairness of `Overdue`, since every pass of the strategy loop scans the pending orders, though
one found overdue may be gone again.  Nothing is assumed of the broker: `PendingSettles`
holds if no report ever arrives.

**What the properties say.**

* `NeverCrossed`, `ViewShowsProperRow`, `HaltHoldsUntilRequoted`: the ladder, as above.
* `TypeOK` of each proved module, `SilentSideNeverImproves`, `ClockNeverGoesBack`,
  `OneEventPerOpenOrder`, `LatenciesExact`, `DecisionIsFinal`, `OwnTempOnly`: proved (next section)
  and not run.
* `NothingOverdue`: the schedule is never behind the clock.  `ImplementsTimeline`: each order
  goes through its one timeline.
* `MatchedOnArrivalBook`: the rows applied at a match are exactly those due by then
  (`RowsDue` says which, in each mode, without reference to the schedule).
  `DecisionMatchesReplay`: rebuilding the exchange ladder from those rows alone gives the
  same decision, so it does not depend on how the clock was advanced.
* `WaitTellsTheTruth`, `CallsReturn`: the calls.
* `PublishedIsWhole`: what stands under the date's name, or did, has all its batches, all read
  from the version its manifest claims.  `PublishedIsKept`: nothing published is deleted,
  and a date that was published stands under its own name again when the second rename
  fails, unless a builder is between its renames, died there, or could not undo the first.
  `BudgetHeldAlone`, `AnswersAreCurrentAlone`: with one builder at a time the limit holds,
  and a caller gets the date asked for, a reader one no older than its question.
* `EachClockSeesItsOwnOrder`, `BookIsTheLatestRow`, `PathsAgree`: each clock gets each event
  once and in order, the played book shows the latest row, and the four paths agree under the
  stated conditions: the selected raw levels of a row hold its best ones, its first is the best
  for the row-by-row path, and a CSV is in the order the frame would be sorted to.
* `ScanIsExact`: the batchwise scan finds the facts of the whole table and refuses each
  damaged one.  `BuiltIsAccepted`: what the builder writes validates, is read as the best
  levels of the source, and is refused with any one value of manifest or metadata changed
  that a consumer reads.
* `AuditAddsUp`, `PositionIsHedged`, `FailuresAreReported`, `ImplementsSession`: executed
  units, position, table and reports of a session agree.  `FailuresAreReported` asks of the
  whole row whether a failure's first leg was taken back, since the flatten columns alone do
  not tell.
* `GroupEntriesApart`, `NothingIsLost`: the shared interval; sound data, each engine given back
  once, each pair reported.
* `ResumedReportIsOwn`, `TrustedPrefixIsReused`: a resumed run reports what an empty directory
  would have given it, and does not redo what the store trusts.
* `HeldUntilClosed`, `ExpiryIsReported`: a position is carried until it is closed or expires, and
  expiry falls on the right date.  `CapitalAccounts`, `OpenLotsBracketHeld`, `TotalsReconcile`,
  `StreamedTablesAreWhole`: capital in use is that of the open lots; the report's open
  lots bracket what is held; tables add up to each other, the realized total of the summaries
  being that of the returns, the exits of runs without an entry and the flattened failures;
  chunked reading gives the tables
  of a whole reading.
* `EveryChangeIsEvaluated`, `FillsAreInForce`, `CashIsAccounted`, `DecisionPathsAgree`: paper
  trading decides each change once on its own quotes, fills at prices in force, keeps the
  money accounted for, and kernel and strategy decide alike.
* `OrdersFollowThePlan`, `NakedLegIsHeld`, `PendingSettles`, `FreshConfigStarts`: the live router
  and the next day's start: a configuration starts with what is held, does not pass its startup
  check, or was never written.

## Where the code and its documentation differ

Met while modelling; the models follow the code, and the properties are stated so as to
hold of it.

* *Cache.*  `docs/SLIM_ENGINE.md:145-146` speaks of one atomic rename;
  `publish_date_atomically` needs two when a date is already published
  (`cache/publication.py:145`), so a valid date vanishes in between, and a crash there leaves
  it missing, though complete under its `.superseded` name.  The error of `cache/store.py:86`
  says that a date of another identity needs `rebuild`; the check precedes the scan, so a
  date that another builder publishes meanwhile is replaced without it.  Two builders of one
  date can likewise exceed the budget for a while, and hand a caller the other's partition.
* *Feed.*  `tests/test_compact_topn_phase4_adapter.py:85` expects rebuilt events to equal the
  direct ones: not on a trial-match row whose first ask is not valid
  (`tw_stock_data_to_npz.py:1180`).  The row builder keeps the raw first level as the previous
  quote (1647), the columnar one the best valid one (1352): the side inferred for the next
  trade differs.  `market_data/ordering.py:25` derives "the legacy correction", but over all
  rows, not only those that emit an event, and breaks ties of the exchange stamp by sequence
  where the converter takes the local stamp first, and the other way round.  It reads every
  level of the source, the converter only the first `args.levels` (925): a better level behind
  them is in the one feed and not in the other.
* *Compact table.*  `non_tradable_rows` of the metadata is compared with nothing.  A BBO file
  whose adjustment is a loose numeral is accepted, and the engine reads a missing adjustment
  as 0 (`engine/arrow_reader.py:98`).
* *Event data.*  A split CSV that a killed run left short is reused by later runs until
  `--rebuild-event-data` (`full_market_runner.py:1896`).  A futures archive cut off while
  it was written is reused because it exists, and then the audit raises whatever
  `--continue-on-error` says.
* *Groups.*  `full_market_runner.py:2524` calls a pair an independent unit; with
  `--continue-on-error` the exception of one pair makes every pair of its spot group an error,
  those already finished included (2425-2430).  A worker that dies breaks the pool for the
  shards not yet collected.
* *Pair execution.*  `README.md:127-129` promises the flatten action if execution fails after
  the first leg; when the data end during the second leg's delay the first leg stays
  (`hbt_backtest.py:567-581`), and its status is in neither list of failures.  The entry/exit
  table labels skipped signals (`RISK_SKIP`) as executions too (`full_market_runner.py:3245`).
  The flatten of a failed profit check stands in the second leg's columns, as
  `tests/test_slim_pair_behavior.py:275` expects of it, so the report's `flatten_count` leaves
  it out.  A failure's window is centred on the first row of its time, which may be another
  pair order's.  `quote_from_depth` (`hbt_helpers.py`) rejects a locked or crossed book where
  the kernel does not; no ladder shows one.
* *Live router.*  `providers.py:1070` logs a release after the first leg's flatten; the
  condition compares both legs with zero, not with what they were, so with a pair held the
  flattened second entry or exit is never released and every later order of the pair is skipped
  (1390).  With `FlattenTif = "FOK"`, which the configuration key
  `flatten_first_leg_time_in_force` admits (`config.py:268`), a flatten order that is killed
  reports like a first leg without a fill, and the pair order is released with its leg exposed
  and only a cooldown left (`_handle_first_leg_stock_report_locked`, 707).
* *Live start.*  The startup check looks only at configured pairs and at one side of each
  leg: a naked leg of an untargeted contract, or oversold legs, pass it.  The
  `initial_position` of the configuration template is copied to each new pair.
* *Result store.*  `future_spot/README.md:97` says reuse is protected by the manifest; the
  tables are rewritten in place before it (`full_market_runner.py:543-557`), so a run
  with other arguments killed in between leaves tables that the old arguments take for
  their own.  A date whose partition does not validate cannot be published even with the
  rebuild option (`daily_result_store.py:110-112`).
* *Reports.*  Exits of positions carried in have no entry in their own run: they are missing
  from the return report, the open lots of several dates are overstated; and as SHORT
  entries are not counted but their exits are, `open_pairs` may be negative.  The headline's
  realized total includes the flattened failures, the return report does not.
* *Paper trading.*  A pair whose second leg fills up to three latencies later is booked at
  once, so its position counts before it could exist.

## Proofs

The theorems hold for every value of the constants that satisfies the named assumptions: any
number of rows and orders, any timestamps, latencies and tick size, both modes.  The
assumptions are `RowsAssumption` (validated rows), `ScenariosAssumption` (timestamps within the
clock's range, latencies not negative, as `AssetConfig` and the partition validation require),
`ConfigsAssumption` (the same for a pair's session, and an interval that is not negative, as
the configuration is parsed), `CarryAssumption` (dates in order), `CapitalAssumption` (pairs
numbered in the order of their run keys, finitely many exclusions, capital, rates and amounts
not negative), those of a date's pairs (`KeysAssumption`: finitely many, numbered in their
order; numbers of event rows, requests and options of their types; times and an interval that
are not negative), `TablesAssumption` (recorded quotes in time order, as `_load_events` sorts
them), a finite number of builders and the types of the other constants.  Three theorems
(`NakedLegStaysHeld`, `SessionIsImplemented`, `ExpiryReported`) have hypotheses of their own,
given with them below.

* **Ladder** (first part of `SlimEngine_proofs`, which begins with the functions of `DepthState`).
  `NeverCrossed` is not inductive: pushing the opposite best away searches the
  levels up to the far end, so one needs to know that a best lies within its far
  end and names a level (`BestIsLive`), and that this holds between the two halves
  of a row, when the bid has been applied and the ask not.  `BookInv` joins them;
  the lemmas say what each clear and update does to it.  `ViewShowsProperRow` and
  `HaltHoldsUntilRequoted` add what the last row left behind.
* **Clock and schedule** (`SlimEngine_proofs`).  `NothingOverdue` needs the target of
  an open call to be ahead of the clock (`TargetAhead`), or the step that ends the
  call could move the clock back; and it needs the least key to be the least
  timestamp, which is why the timestamp is the first word of the key.
  `ClockNeverGoesBack` follows.
* **Orders** (`SlimEngine_proofs`).  `OneEventPerOpenOrder` is carried together with the
  times of the decision: a request in flight is due at the arrival of its order, so
  the decision is taken then.  The truth of a wait adds that a drain happens at the
  instant of the response it follows (`CallInv`), and that a response still in flight
  cannot be earlier than the clock (`NothingOverdue`).
* **Matching** (`SlimEngine_proofs`).  `MatchedOnArrivalBook` is about the past of a decided
  order, so `ArrivalInv` adds the present: no applied row is stamped ahead of the clock
  (`AppliedInPast`), and a request still in flight keeps the rows it was anchored to
  (`OnItsWay`), which is what sequence mode compares with.  At the decision the schedule
  gives the other half: what is due and not applied would have come first.
* **Replay** (`SlimEngine_proofs`).  `DecisionMatchesReplay` compares a decision with a ladder
  built from nothing.  `ReplayInv` keeps the exchange ladder equal to the replay of the rows
  applied (`LadderIsReplay`), which needs every row left to come after every row applied
  (`InOrderSoFar`, from the key again, both words of it that name the row); a decided order
  keeps the decision of the replay of the rows it met, and those are the rows due by
  `MatchIsOnArrival`. The replay is a function by recursion on how many rows are played
  (`Play`), over rows picked by how many others they follow (`InOrder`); `ReplayOneMore` is the
  lemma that lets the last row be taken off.
* **Refinement** (`SlimEngine_proofs`).  Each action of the engine is a step of the
  timeline or a stutter: `Submit` is `Send`, `Request` is `Decide`, `Response` is
  `Answer`, and everything else is `Pass` or leaves the mapped state alone.

* **Cache** (`CachePublication_proofs`, for any number of builders, readers, batches and
  builds, any budget, and crashes anywhere).  `PublishedIsWhole` is not inductive: that
  a partition is of one version follows at the last validation only because its
  batches were read no earlier than the version it claims and no later than now
  (`InTime`), all of them (`Progress`), by a builder that shares the directory with
  nobody (`Owned`, `Apart`).  That `PublishedIsKept` deletes nothing, and `OwnTempOnly`, follow from the list of
  renames (`Renames`), each of which touches a builder's own temporary or a partition
  that was published (`AsidePublished`).  That the date stands is inductive (`StandsStep`): the
  rename that takes it away puts it into a builder's hand, which no other process touches
  (`HandsOff`).
* **One builder alone** (same module, of `MCSpec` in `MCCache`, any number of readers).
  `BudgetHeldAlone` becomes inductive with what the builder still owes: from the preflight on,
  the bytes stored and twice the estimate less the batches written fit the limit, the
  consolidation uses exactly the second half, and what a crash leaves is owed by nobody
  (`Budgeted`).  `AnswersAreCurrentAlone` needs that the published date is unique, never newer
  than the builder's identity, and equal to it once renamed in (`Dated`); and of a reader
  between its validation and its opening that the date it saw, the one the builder holds
  aside and the identity it builds for are all no older than the reader's call (`Shown`),
  for any of them may be under the name when the path is resolved again.  With two
  builders both are false, as the run's instance shows when `Alone` is left out.

* **Pair execution** (`PairExecution_proofs`, for any data, latencies, timeouts and number of
  events).  `AuditAddsUp` and `PositionIsHedged` relate three counts that no place of the
  code compares.  `Booked` follows the exchange's count through a pair order: it is the
  table's sum, and the first leg while that is filled and not yet in a row.  `Covered`: the
  table's sum is the position and the first legs left.  `Hedged`, with `SignalFacts`, says
  that an exit takes off what an entry put on.  `RowIsAdded` is the one lemma about the sums;
  they are functions defined by recursion (`Sums`), for which `SumToIsSum` (`Sums_proofs`) proves existence
  by induction on a set, and so are within the prover's reach where a fold is not.
* **Pair session refinement** (`SessionIsImplemented`, same module, with `Times = Nat`: the
  bound on the clock is TLC's).  `Advance` is the session's `Advance`; a decision that is
  not traded is its `Resolve` (`SessionSkips`); inside a pair order nothing shows (`Unseen`);
  the call that ends it is `Resolve`, and `NakedMoves` with `Covered` tells which of its
  three outcomes (`SessionEnds`); an exception is its failure (`SessionRaises`).
* **Reports of a session** (`ReportsTellFailures`, same module).  `ReportInv` says what a table of
  executions is: the status of a row tells whether its first leg is left (`Told`, with
  `FailureIsTold` for what a flatten does), the rows end in time, and never three of them at one
  time (`FewAtATime`), which is what lets the window of one row on either side of
  `matching_position` hold the failure.  The last needs the engine (`Slack`): at an
  instant at most two executions can still end, for the event under way has taken the row of
  one leg, and the clock passes every row it waits beyond.  The counts of the tables
  follow from `CountVisited`, the sums from `SumVisited`: what an arrangement of some places
  counts or adds up, in whatever order it leaves rows of one time, is that of the places.
* **Live router** (`LivePairOrders_proofs`, for any lot, directions and number of pair orders).
  Both theorems need to know which thread may still act for which pair order: everything
  live belongs to the pair order last started (`Current`) and has its sign, size and first
  leg (`OnePlan`).  `OrdersFollowThePlan` follows from what a flag, a job and an accepted
  order each imply (`Flags`, `SecondJobs`, `FlattenJobs`, `Amounts`); `NakedLegIsHeld` from the
  targets being the same number of units on both legs unless entries are locked
  (`Unlocked`).  Its theorem assumes `FlattenTif = "IOC"`, the value of
  `config.py:268-269`; with the other value it is false (see above).
* **Daily runs** (`DailyRuns_proofs`, for any arguments, dates and number of runs, kills and
  damaged dates).  `ResumedReportIsOwn`: a partition holds a whole result (`Stored`), the dates
  done are in order and in the store (`Progress`, `Published`), and a manifest that a
  date-wise run could mistake for its own exists only if the store's directory does
  (`Opened`).  `TrustedPrefixIsReused`: a date trusted at the start is still there, with the
  carry of the date before, when the run comes to it (`Trusted`).
* **Position carry** (`PositionCarry`, in the second part of `DailyRuns_proofs`, for any pairs,
  contracts, calendar, exclusions and outcomes).  `HeldUntilClosed` needs that the snapshot of
  a pair is what the last result row left open (`Remembers`), which the failed runs, the expiry
  and the exclusions each keep for a different reason (`DateKeeps`).  `ExpiryIsReported` rests
  on `MonthIsRead`: of all the months with the letter and the digit, the one nearest to the
  date is the contract's own if that is at most twelve months ago and less than sixty ahead
  (`Near`; the candidates lie 120 apart).  That this holds of a carried contract is the
  invariant `CarriedIsNear`; for the first run of a pair it is a hypothesis, as are dates at
  most twelve months apart (`NoLongGap`) and a trading day in every contract's delivery month
  (`TradedInDelivery`).  The exchange lists single-stock futures no further ahead than a year,
  and the dates of the run come from a directory of days in sequence; all three hold of the
  instance in `MCPortfolio`.
* **Capital replay** (`Portfolio`, in the third part of `DailyRuns_proofs`, for any pairs, fills, exclusions,
  rates and amounts).  `CapitalAccounts` is about the last book of every date; the proof
  shows the same of the book after every entry, exit and lot given up (`BookOK`, `GoodBooks`), where the
  capital in use is a sum over pairs of sums over lots (`OpenMoves`, `SumOfTail`), so that
  the floor at zero of a release never acts.  That the replay is defined at all needs a first
  row among those left of a date (`ForemostExists`: the order by time, missing times last, key and place is
  total) and a first date; `StepsExist` and `StepsStay` (`Sums_proofs`) are the recursions.
* **Open lots** (`Reports`, in the last part of `DailyRuns_proofs`, for any pairs, dates,
  exclusions and outcomes). `OpenLotsBracketHeld`: the rows of a run are together in the file
  (`RunAt`), and every row, of this run or another, keeps its lots, its position, and the
  number of its entries and exits together (`LotsOK`, `LotsKeep`): an exit of a carried
  position may find no lot, which is why the lots of one date are a lower bound and those of
  all dates an upper one.  For the sum, `ClosingInv` keeps that each run starts from what the
  date before left (`HeldFollows`), however it was left: by a run, by a run that failed, by an
  exclusion or at expiry.
* **Backtests of a date** (`DateBacktests_proofs`, for any pairs and spots, event rows, options,
  requests and number of runs; sessions of any length).  `ShardsAreOK` is about the greedy loop alone:
  after each turn every group is dealt once or still left (`DealingOK`), where the group picked is
  some group and the shard picked some shard, and leaving the empty shards out keeps the others
  whole (`KeepingOK`).  `GroupEntriesApart` then needs the sessions' clocks: no pending event is
  earlier than the last entry (`ClockOK`), for the heap gives the earliest one (`Earliest`), a
  session is busy at least till the event it was handed, and its next event is no earlier
  (`AdvancedFacts`, `ResolvedFacts`); that the time on the heap is the session's own, and that a
  session is on the heap at most once, is `HeldOK`.
* **What is given back** (same module).  `EnginesAreFreed`: a handle is held exactly by the sessions opened
  (`EnginesOK`), so none before a group, and none after it, since the group's end and every exception drop
  what was held (`RaiseReturns`).  `NothingIsLost`: the groups behind the shard's place have their outcomes
  in its results and the shards behind it in the date's (`ToldOK`); the group that is run has them
  as soon as nothing of it is left to do, by its end or its failure.
* **Event data** (same module).  That a first or rebuilding run reads whole archives needs the files of
  every stage (`SplitsOK`, `ArchivesOK`) and that a leg in `found` was looked at in this run
  (`FoundOK`); futures are never a part of the rows, for they are converted from the futures' own file.
* **Paper trading** (`PaperReplay_proofs`, for any tables, latencies and configuration of a pair).
  `FillsAreInForce`: what bisection finds is the row in force, since loading keeps the rows in time
  order (`RowsOK`, `UpToFacts`); and a snapshot shows the books at the stamp of the quote that
  triggered it, in the feed's hands, in the queue and under evaluation (`Snapshots`), since the books
  are those of the last stamp fed (`Placed`).  `EveryChangeIsEvaluated`: what was evaluated, what is
  queued and what the feed has still to queue are together the changes up to the last stamp fed
  (`HistoryInv`); at a stamp the feed makes what changes there, and between two stamps nothing does
  (`FeedMakesChanges`, `NothingUntil`).  That the driver does not leave early needs the order in
  which it reads the flag and the queue: once the flag is up nothing is left to be queued.

Only model-checked: the other properties of the runs.  Out of the prover's reach are
`CallsReturn` and `PendingSettles` (liveness under fairness), and what a fold or another
recursion over data computes for every input: `FreshConfigStarts`, the totals and the chunked
tables of `Reports`, the two feed converters, the compact scan, and of `PaperReplay`
the sums of cash, which are fractions in lowest terms (`CashIsAccounted`), and the agreement of two
replays (`DecisionPathsAgree`).

## Plan

1. `DepthState`, `SlimBook`, `SlimEngine`, `OrderTimeline`, `CachePublication` with the proofs above:
   done.
2. The other components of the table of modules, with their runs: done.
3. Theorems for the remaining safety properties.  Done: the engine's matching and its replay, the live
   router's plan and naked leg, resumed runs, the pair session's audit, hedge and
   refinement, the budget and the answers of the cache, carried positions and their expiry.  Since then
   the backtests of a date (`GroupEntriesApart`, `NothingIsLost`) and paper trading (`FillsAreInForce`,
   `EveryChangeIsEvaluated`), the capital replay (`CapitalAccounts`), the failure reports
   (`FailuresAreReported`) and the open lots (`OpenLotsBracketHeld`).
4. An abstract specification of the cache (a register of published dates) and of the live
   router (`PairSession` with the broker's failures), and the refinements.

## Not modelled

`PROJECT.json` lists every component with its status.  What is left out of each, and why:

* *Scripts, command line, notebooks, plots, notifications*: sequential input and output
  around the components above; `scripts/tw_stock_strategies.py` holds strategies of its own
  on the reference engine, which is not in the repository.
* *C interface and facade*: conversion of arguments; what they refuse is the assumption of
  `SlimEngine`.
* *Pair execution*: the reference engine behind the same port, and prices, which
  `PairStrategy` has.
* *Live router*: more than one pair; order rows that the SDK returns from the placing call;
  the check and the decision of a timeout are one step; a crash of the process, after which
  nothing but the account is left, which is where `FreshConfigStarts` begins; order keys, the
  quote queue, connecting.
* *Feed*: parsing of times, the options that drop depth, trades or sides, volume scales
  other than 1.  A side that empties emits nothing, as in the code.
* *Compact table*: encodings of the files, and the last price.
* *Event data*: the rows themselves are all or a part; a data API is a CSV that is there.
* *Paper trading*: the loop that drives the provider is outside the repository; one pair; the
  columns of the recorded files and the cache of loaded events.
* *Reports*: figures, the report artifact, windows of market ticks, several output roots.
* *Configuration*: loaders that copy and range-check fields.

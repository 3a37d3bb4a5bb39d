# ayn-ml: formal models and proofs

TLA+ modules, TLC configurations and TLAPS proofs about
[ayn-ml](../src/README.md), a Python library that computes monitoring metrics
over data frames, evaluates alert rules, and stores and dispatches the reports.

Contents: [the system](#the-system) · [modules](#modules) ·
[runs](#runs) · [divergences](#divergences-found) · [proofs](#proofs) ·
[assumptions about SQLite](#assumptions-about-sqlite) ·
[not modelled](#not-modelled) · [plan](#plan)

## The system

| Component | State it keeps | Operations | Interacts with |
|---|---|---|---|
| `Runner` (`runner.py`) | `n_jobs`, `strict`; one `run()` has local data, pairs, results, errors, fired alerts | `run()`: prepare, metric loop, alerts, profile, dispatch | sources, registry, metrics (calls, maybe in a thread pool), policies, store, sinks, channels |
| `SqliteStore` (`stores/sqlite.py`) | a connection, a `threading.Lock`, a file with four tables | `write`, `get_report`, `read_history`, `close` | callers' threads; other stores on the same file, through SQLite's file locks |
| `InMemoryStore` (`stores/memory.py`) | a bounded deque, a lock | `write`, `get_report`, `read_history` | callers' threads |
| Alerting (`core/alert.py`, `metrics/base.py`) | none | `compute_status`, `ThresholdPolicy.evaluate` | Runner |
| Data windows (`data/`, `core/data_selection.py`) | none | `load`, `sample`, `partition` | Runner, the caller |
| Registry, extensions (`metrics/registry.py`, `__init__.py`) | name → class dictionary, filled at import | `register_metric`, `get_metric`, `_load_extensions` | metrics, Runner |
| Metrics (`metrics/`) | none | `compute`; `profile_columns`; `interactions_from_matrix` | Runner |
| Advisor (`advisor/`) | none | `suggest` | registry, the caller |
| Sinks (`sinks/`) | connection parameters | `write` | Runner; SMTP and HTTP servers |
| Renderers (`renderers/`) | none | `render`, `render_history` | reports |

Everything but the stores, the runner and the registry is a pure function of a data
frame. The behaviour that is hard to test is in four places:

* **`SqliteStore`**: threads that share one connection, and so one transaction;
  several stores (in one process or many) on one file; exceptions between the
  first `INSERT` and the `commit()`; a process that dies there; a caller that
  retries. What makes it correct: reports stored whole, once, and for good; an
  acknowledged `write()` durable; reads that belong to one state of the file;
  no lock left behind; every call ends.
* **`Runner.run()`**: metrics that complete in any order and may each fail;
  user-defined policies that raise; a store, sinks and channels that fail one
  by one during the dispatch; a process that dies in the middle. What makes it
  correct: every metric reported once, as a result or as an error; exactly the
  alerts that the results call for; effects only after everything that can
  raise, and in the order store, sinks, channels; the report returned whatever
  the dispatch meets.
* **The library in use**: a process that imports extensions that may fail half-way,
  partitions a table that grows, calls `run()` for one period after another, dies
  and is restarted, and a caller that repeats what has not returned. What makes it
  correct: a report speaks of the rows it should; periods neither overlap nor leave
  rows out; nothing stored or told is lost without a trace.
* **The metrics**: some eighty of them compute along several paths (numpy, scipy,
  scikit-learn, Polars or pandas) what must agree; each has guards on types, missing
  values and small windows that the runner's routing and the advisor must respect.

The `hazards` list of `PROJECT.json` gives each of these at its source line,
with the properties that cover it, or the reason why none does.

## Modules

| Module | Role |
|---|---|
| `SqliteStore` | the store, one step per SQL statement; its properties; the inductive invariant `IInv` |
| `ReportLog` | the abstract promise of a `ResultStore`: a log of whole reports |
| `MCSqliteStore` | small instances of `SqliteStore` for TLC |
| `SqliteStoreProofs` | theorems about `SqliteStore` |
| `SqliteDurability` | theorems about `SqliteStore` when no statement fails, and its refinement of `ReportLog` |
| `Alerts` | `compute_status()` and `ThresholdPolicy.evaluate()` |
| `Runner` | one call of `Runner.run()`, with its thread pool and its dispatch |
| `RunContract` | the abstract promise of a run: outcomes, a report that is a function of them, then the store, then whoever is told |
| `History` | what `InMemoryStore` and `SqliteStore` hold and what their reads return; the series of `render_history()` |
| `MCHistory` | five reports and the queries made of them, for TLC |
| `MCRunner` | a plan, rules and values for TLC |
| `RunnerProofs` | theorems about `Runner` (the pool, the report, its alerts and channels; its refinement of `RunContract`) and `Alerts` |
| `Lists` | how often a value is in a sequence, and the elements at some of its positions |
| `ListTheorems` | lemmas about these and about joined sequences (where each element is, and in which order), and an induction over 0..n |
| `HistoryProofs` | theorems about `History` |
| `DataWindow` | from a source to the rows the metrics see, as operators |
| `Channels` | what a write to a mail or webhook channel may come to |
| `Monitoring` | the library in use: import, periods, `run()` from end to end, deaths and repeated calls |
| `MCMonitoring` | plans, extensions and a channel for TLC |
| `MonitoringProofs` | theorems about `Monitoring`: extensions, calls and what they leave behind |
| `MonitoringRows` | theorems about `Monitoring`: periods, and the rows that a report is of |
| `Frames` | exact fractions, quantiles, columns, the extraction helpers and their guards, column types |
| `Statistics`, `Drift`, `Scores`, `Ranking` | the metrics: of one window and the profile; drift and two-sample tests; performance, fairness and CBPE; recommenders |
| `Routing` | the registry's contents, and what `Runner._run_one()` checks before a metric |
| `Advisor` | `MetricAdvisor.suggest()` |
| `MetricCalls` | calls of all of these on one input, and what they say of each other |
| `MCMetrics` | the inputs, for TLC |
| `MetricProofs` | theorems about `MetricCalls`: guards, routing and advised plans; the profile; tables made of matrices |

`Monitoring` extends `DataWindow` and `Channels`; `MetricCalls` extends `Advisor`,
which extends `Routing` and with it the metric modules, and instantiates `Ranking`.

### SqliteStore

A report is the bag of rows that it inserts into `monitoring_runs`,
`metric_results`, `metric_errors` and `fired_alerts`; a row is abstracted to its
`run_id`, so the content of a table is a count per run: `disk[r]` for committed
rows, `pend[s][r]` for those of the open transaction of store `s`. Counts are
enough for torn, lost and duplicated reports; they are not enough for the
contents of what a read returns, which `History` has.

| Code | Actions |
|---|---|
| `write()`: rows built before the lock, `json.dumps(plan)` among them | `Write`, `WriteUnserialisable` |
| `with self._lock` | `Acquire`; released by `Leave` (return) or `Raise` (any exception) |
| pre-flight `SELECT 1 ...` and early return | `Preflight`, `PreflightBusy` |
| the four `INSERT` statements, row by row, in order | `InsertRow`, `InsertConflict` (primary key), `InsertBusy` (write lock elsewhere), `InsertRejected` (a value that cannot be bound), `StorageError` (disk full, I/O) |
| `commit()` | `Commit`, `CommitBusy` (another store reads), `CommitRejected` (another program does) |
| `get_report()`: four `SELECT`s under one hold of the lock | `GetReport`, `SelectTable`, `SelectBusy` |
| `read_history()`: one `SELECT` | `ReadHistory` |
| `close()`, `__exit__`; calls on a closed store | `Close`, `UseAfterClose` |
| `SqliteStore(path)` on an existing file | `Open` |
| process death | `Crash` |

There is no `rollback()` anywhere in the source: `Raise` releases the Python lock
and leaves `pend`, `inTxn` and `fileLock` as they are. Steps in which several
rows go into one table are one step per row, because `executemany()` can fail at
any of them; no other thread of the same store can see the intermediate states,
but a failure leaves them behind.

### Runner

The specs of a plan are the numbers `1..Len(Plan)`. A metric's outcome (a value
or an exception) is chosen when it is computed; an unregistered metric, a missing
reference and a column of the wrong kind can only give an error. With `nJobs = 1`,
`RunSequential` computes the specs in plan order; otherwise `Submit`, `Start`,
`Finish` and `Collect` are the submission loop, the workers and `as_completed()`.
`n_jobs=-1` (as many workers as the interpreter picks) is some larger `nJobs`.
Steps 1 to 6 of `run()` are one action, `Prepare`, that succeeds or raises (each of
them is a step of `Monitoring`).
`AllCollected` ends the loop, and `Split` puts one pair after another into the
results or the errors. `EvaluateRule`, `AfterAlerts`, `Profile`, `StoreWrite`, `SinkWrite` and
`ChannelWrite` are the remaining steps in the code's order. `told` records the
writes to sinks (rule 0) and channels; `failures` counts those that raised, and
the store's. `Die` ends the process at any point.

A policy is `ThresholdPolicy`; `rejects` lets a rule carry a policy of the user's
that raises on some kinds of values, which `run()` does not catch.

`RunContract` has none of these steps: a run settles its specs in any order
(`Settle`), concludes (`Conclude`: the report and its alerts, all at once, from the
outcomes), stores (`Store`), tells (`Tell`, only whom it may) and returns once
whoever is owed the report has been told (`Return`), or loses it (`Lose`). `Runner`
maps to it through `Contract`: the outcome of a spec is that of its finished
future or collected pair (`OutcomeOf`), the stage follows from the
program counter (`Stage`), and `fired` and `told` become sets. A metric is settled
when its future is finished; the contract does not show whether it was collected.

### History

`SqliteStore` counts rows; `History` has their contents. A `write()` is one step,
which is what `SqliteStore` shows it to be under its lock while no statement
fails. `reports` is the deque of `InMemoryStore`; `tables` the four tables of the
file, in which a row's id is its position. `ReportToRows`, `ToRow`,
`ProfileToRows` and `ExtractPlanMeta` are the helpers of the same names;
`MemoryHistory`, `SqliteHistories` and `GetReport` the reads. `SqliteHistories` is
a set of answers, because `ORDER BY period_start` leaves the order within a period
to the library (which indeed varies it with the index it uses). `Numeric` is what
a column of `NUMERIC` affinity does to a value: NaN is read back as `None`, and text
that reads as a number as that number. A timestamp is its ISO text, local time and
offset. Filters are written with `Picked` of `Lists`, the elements at the positions
where a condition holds, rather than with `SelectSeq`: an operator that takes an
operator cannot be reasoned about by the provers. `RenderHistory` is
the grouping of `render_history()`; it is here since the reports it is given are those
the stores return, in an order the caller chooses. A threshold is `<<>>`, `<<t>>` or
`<<low, high>>`, as in `Alerts`; a chart draws the second kind only (`Scalar`), and
that of the earliest report that has the metric.

### Monitoring, DataWindow, Channels

| Code | Actions |
|---|---|
| `import ayn_ml`: the library's metrics, then `_load_extensions()` | `Import`, `Register` (one `register_metric()`; a name that is taken raises, what was registered stays), `ExtensionLoaded`, `ExtensionRaises`, `Imported` |
| the table that the caller monitors | `Arrive` (external) |
| `TimeBasedPartitioner.partition()` and a call of `run()` | `Call`, or `Skip` when the partition raises |
| `run()` 1: `_resolve_source()` | `Resolve`: loading errors, projection to `required_columns()` |
| 2: `_apply_window()` | `Window` |
| 3: `_apply_sample()` | `Sample` |
| 4: `_filter_by_model()`, both sides | `Filter` |
| 5: strict validation | `Validate` |
| 6 to 9: context, metrics, alerts | `Evaluate` |
| 10: the store | `StoreWrite`; raises before or after its commit, as `SqliteStore` shows |
| 11: the channel | `Tell`, with the outcomes of `Channels` |
| 12: the report | `Return` |
| an exception of steps 1 to 5 | `RunRaises` |
| process death | `Crash` |

A row is an id, an instant, a model and a version; a metric is a name and the class
that computes it, and the one alert rule is on the number of rows: what the metrics
compute, and how several rules are dispatched, is the business of `MetricCalls` and
`Runner`. The caller is external: it goes through the periods in order, repeats a
period whose call the process did not survive, and repeats or gives up one whose
call raised. Rows arrive between calls; a row that arrives during a call cannot be
told from one that arrives before the next.

### The metrics

A metric module has one operator per metric: its guards, joined in the code's order
(`When(condition, exception)` is empty when the condition does not hold, and the
first that is left is what `compute()` raises), and its value. Values are exact fractions. What
the code computes with roots or logarithms is modelled by what a property can tell
apart: standard deviation, energy distance, Cramér's V and Cohen's d by their
(signed) squares, skewness by its sign, sums of logarithms (PSI, Jensen-Shannon,
log loss, ...) by whether they are zero, `1/log2(i+1)` by a decreasing table
(`Discount`); a p-value is opaque. What scikit-learn, scipy and numpy return is
modelled by their definitions. The order of rows with equal scores is a
nondeterministic choice where the sort is unstable (`Rankings`, the AUC of CBPE).
Rounding and floating-point error are left out, and so is everything
that follows from them.

`MetricCalls` has an input (a window, a reference, a schema, parameters) and one
action per family that calls every metric of the family: `Predict`, `Estimate`,
`Measure` (any column, through `RunOne`, with the profile), `Advise` and `RunAdvised`
(a plan is made on a training window and run on a later one), `Recommend`, and
`Convert` (`interactions_from_matrix()`).

## Runs

| Run | Instance | Shows |
|---|---|---|
| `sqlite_crash` | 1 store, 2 threads, 3 runs (one not serialisable), 4 calls, 1 crash, no failing statement | `AckedIsDurable`, `IdleStoreHoldsNoLock`; `ImplementsLog`: the store refines `ReportLog` |
| `sqlite_faults` | 2 stores, 2 threads, 2 runs, 4 calls, 1 fault, 1 crash | what survives left-open transactions: `NoDuplicateRows`, `TornReportsArePrefixes`, `ReadsOneSnapshot`, `OnePendingWriter`, `FrozenOnceCommitted`, `EveryCallEnds` |
| `sqlite_shared` | 2 stores, 2 threads, 2 runs, 4 calls, 1 crash, no failing statement | `WholeReports` across stores |
| `sqlite_atomic` | 1 store, 1 thread, 1 fault | violation of `WholeReports` |
| `sqlite_retry` | 1 store, 1 thread, 1 fault | violation of `AckedIsDurable` |
| `runner` | 4 specs, 4 rules, 1 or 2 workers, with and without reference | what is reported (`EachSpecOnce`, `NoSpecLost`), alerted (`AlertsExact`, `AlertsFollowStatus`), told (`FiredRulesNotify`); `RunEnds`, `ReportIsReturned`; `ImplementsContract`: a run refines `RunContract` |
| `runner_channels` | the same | violation of `ChannelsOnlyOfFiredRules` |
| `history` | 5 reports, `maxlen=2`, 6 writes | `ReportsComeBack`, `StoresAgree`, `LimitsAgree`, `PageIsOrderFree`, `ChartsMatchTable` |
| `history_twice`, `history_order` | the same, 5 writes | violations of `RunsAreHeldOnce` and `MemoryIsNewestFirst` |
| `monitoring` | 2 rows, 2 periods, 5 plans, 2 extensions, 2 calls, 1 death, a mail channel with 2 recipients | `EvaluatedRowsExact`, `PeriodsTile`, `ExtensionsOwnTheirs`, `RerunsExplainDuplicates`, `NothingLostSilently` |
| `metrics` | all windows of up to 3 rows over 2 or 3 values, with a reference of the same dtype or of the other kind of numbers; 3 grades of relevance, 2 thresholds | `ScoresAgree`, `EstimatesCalibrated`, `RoutedMetricsRun`, `ProfileAgrees`, `ProfileOrdered`, `DistancesAgree`, `AdvisedPlanRuns`, `InteractionsExact`, `RankingRelations` |

**Bounds.** `MaxCalls = 4` lets one run be written, retried, and read or
followed by another run's write while a second thread does the same; the
interesting sequences (fault, retry, other write, read) need at most four calls.
`r1` has rows in three tables, two of them in one table, so that a report can be
torn between tables and within one; `r2` is a run whose metrics all failed.
`MaxFaults = 1` is a failure of the model's environment at every statement; the
conflicts between the two stores are further failures, without a bound.
`MaxCrashes = 1` is a death at every point of a call. Two stores are enough for
every conflict, since SQLite's locks relate pairs of connections. In `runner`
the plan has the same metric on two features (so a rule can fire twice, and
rules share a metric name), a range threshold, a metric that needs no reference
and a name that is not registered; values lie on the thresholds and beyond them, or
are NaN. In `history` six writes are three reports in the file and three in a deque
of two, so that one is evicted, or the same reports repeated and out of order; the
reports have a profile, an empty profile and none, NaN and text that reads as a
number, no period, a naive one, two specs of one key, and a plan the file rejects;
the queries are every combination of the filters with limits from -1 to 3.

In `monitoring` two rows are enough for a row on either side of a cutoff, for a
window that drops one, and for one of each model; instants are before, at and after
the cutoffs, which are one reference window apart. Two calls are two periods, or one
that is repeated. The plans are: both model columns and strict; the last row only,
filtered by version; the last two rows with a sample of one; a time window with a
fractional sample; and a strict plan with a column that is absent. The second
extension repeats a metric of the first, so the order of loading and the failure of
the first decide who owns it. The recipients are symmetric: nothing distinguishes
them.

In `metrics` a window is a multiset of at most three rows (no tabular metric depends
on their order; a training window has up to four). Integer columns take three
values, columns of floats and texts three and a missing one; probabilities are 0, 1/2
and 1. Of the two windows one may hold as floats what the other holds as integers, and
of the later windows of an advised plan, either; they may have missing values.
A table of recommendations is a sequence, for the last row of a repeated item counts:
relevance has three grades with a threshold of 0 or 1, in every table of up to two rows,
in every order of three rows of one user and two items, and in three rows of one user
and three items in one order; two users have three rows with a relevance of 0 or 1. The minimum numbers of rows and the advisor's thresholds are constants,
scaled down so that windows on both sides of each of them are small: 2 rows instead
of 10 for a drift test and 2 instead of the code's minimum for CBPE, 2 instead of 8
for a normality test, 3 instead of 30 and of 50000 for the advisor's small and large
windows (so 3 rows is the size at which hypothesis tests are suggested), class
imbalance above 1 and 2 instead of 5 and 10. What is lost is windows in which two of these
thresholds are far apart; the thresholds are compared one at a time in the code.

`CHECK_DEADLOCK FALSE`: calls are bounded, and a run ends, so every behaviour
stops; that nobody is stuck is what `EveryCallEnds` and `RunEnds` say.

**Fairness.** `SqliteStore!FairSpec`: a thread inside a call keeps running
(`WF_vars(Step(t))`); its own lock is only held for finitely many statements, and
waiting for SQLite's locks ends in an exception (the busy timeout), so weak
fairness is enough. New calls, faults and crashes are never owed.
`Runner!FairSpec`: the main thread and the pool's workers keep running, as
operating-system threads do; a metric's `compute()` is assumed to end.

Each checked property has a *mutant* beside the definition it changes: the same
definition with a plausible bug (no lock, no primary key, a forgotten or an early
`commit()`, an uncaught exception, channels in a dictionary by metric name), under
which TLC finds the property violated.

## Divergences found

1. **A failed `write()` is stored in part** (`sqlite_atomic`). `write()` documents
   "All inserts are wrapped in a single transaction". An exception after the first
   `INSERT` leaves that transaction open, and the next `write()` on the same store
   commits its rows along with its own.
2. **A retry is acknowledged and stores nothing** (`sqlite_retry`). After such a
   failure the pre-flight `SELECT` of a retry sees the run row of its own open
   transaction, takes it for a duplicate and returns normally; `docs/stores.md`
   offers the idempotence for "pipelines with retry logic".
3. **Channels of rules that did not fire** (`runner_channels`). The dispatch picks
   rules by metric name, so of two rules on one metric both notify when one fires,
   against `AlertRule`'s docstring and `docs/architecture.md`.

4. **`InMemoryStore` holds a run twice** (`history_twice`) when it is written twice;
   the section of `docs/stores.md` on both stores says that has no effect.
5. **`InMemoryStore` reads in the order of writing** (`history_order`), where the
   protocol (`stores/base.py`) says descending `period_start`: a backfilled period
   comes first.

The first two disappear when no statement fails (`sqlite_crash`, `sqlite_shared`), and would with
`with self._conn:` or a `rollback()` on the way out.

Met while modelling, with no run of their own (the models have what the code does,
and the properties name the exceptions):

* *Stores and pages.* `limit=0` limits nothing in `InMemoryStore` (the number of rows is
  compared with it after each append) and everything in `SqliteStore`; `SqliteStore`
  orders periods as text, so with different UTC offsets (11:00+02:00 and 10:00+00:00)
  a limit may leave out the newest. Specs of one name and feature that differ in threshold or
  parameters are restored as the last of them. After a change of threshold a chart of
  `render_history()` draws that of the oldest report while its table shows that of
  the latest (as `ChartsMatchTable` says). Two stores on one file can keep each other
  from ever committing: one whose commit was refused keeps a pending lock, the other,
  whose insert was refused, the shared lock of its next `SELECT`; no later `write()`
  of either is committed until one of them is closed (`IdleStoreHoldsNoLock` fails with two stores, and
  is claimed of one). A plan with a time window is never stored: `json.dumps()`
  rejects its bounds, and `run()` only logs it.
* *Windows.* `last_n` is taken before the rows of other models are filtered out, so
  fewer than n rows may be left. Adjacent time windows both have the row at their
  common bound. Sources are projected to the plan's columns, so `duplicate_rows` and
  `column_count` measure the projected frame.
* *Channels.* The mail channel always speaks plain SMTP, although its documentation
  suggests `use_tls=False` for port 465; recipients that the server refuses one by one
  are not noticed as long as one is accepted, and the mail is logged as sent (so
  `NothingLostSilently` promises an alert to one recipient, not to each). After a death between the store's
  write and the channel's, nothing tells the stored alert.
* *Missing values.* A missing label or a missing value is an error for some metrics
  (`psi`, `target_drift`, `hellinger`, ...), NaN for others (`mean`, ...), and a value
  for a few: `fisher_exact` counts it as a positive, `ztest_proportions` as a negative.
* *Constant columns.* `epps_singleton` divides by the interquartile range of both windows:
  on values whose middle half is one value scipy raises a `LinAlgError`, an error of the
  metric although the column has changed in nothing. `anderson_darling` raises on one
  value.
* *Types.* `chisquare` and `gtest` accept a binary column of floats and then refuse it.
  A column of integers 0 and 1 is binary when it is classified, but is inferred as
  numeric by `TabularSchema.from_dataframe()`, so that the tests of proportions refuse
  it. An extraction of texts declared numeric raises out of `profile_columns()` and so
  of `run()`.
* *Advice.* The advisor suggests `chisquare` for floats that are declared categorical,
  which never runs; drift metrics on windows too small for them; metrics of a
  probability column that the schema lacks; and treats protected columns as features.
* *Estimation.* The sort of the CBPE curve's points is unstable, so with calibrated
  probabilities of exactly one the estimated AUC depends on numpy.
* *Ranking.* `interactions_from_matrix()` compares user labels with pandas only, although
  its docstring promises a `SchemaError`: with Polars, matrices of different users are
  joined row by row, by place (`InteractionsExact` says so). With repeated pairs of user
  and item, MAP and NDCG exceed 1; NDCG ignores the relevance threshold, so it can be
  positive without a hit, and recommending a relevant item higher can lower it when a
  more relevant one is overtaken (`RankingRelations` claims it of the most relevant item).

## Proofs

`SqliteStoreProofs` proves, for every set of stores, threads and runs, every
report and any number of calls, faults and crashes (assumption
`SqliteAssumption`: each report has exactly one run row, and `None` is no thread
and no job):

* `Invariance`: `Spec => []IInv`;
* `TypeCorrect`, `NoDuplicates`, `ChildRowsHaveTheirRun`, `OneWriter`: `TypeOK`,
  `NoDuplicateRows`, `RowsHaveTheirRun`, `OnePendingWriter` (the runs check the stronger
  `TornReportsArePrefixes` in place of the third);
* `TornAtTheEnd` (`TornReportsArePrefixes`): whatever statements fail, a report that is
  seen in part is seen up to a row and not beyond it, in the order of the inserts;
* `CommittedIsFrozen`: the action property `FrozenOnceCommitted`.

`NoDuplicateRows` is not inductive: why a row is not inserted twice depends on
what an inserting thread has inserted so far (`InsertInv`: exactly the run's
uncommitted rows), which depends on its being alone on the connection
(`LockInv`); that a commit adds a whole new run to the file, never rows to a run
already there, needs `PendInv` (uncommitted rows are of runs of which the file
has nothing), which a concurrent commit of another store preserves because only
one store has the write lock (`WriteLockInv`). `IInv` is the conjunction. Each
part has a step lemma (`TypeStep`, `CallStep`, `LockStep`, `WriteLockStep`,
`InsertStep`, `PendStep`, `DiskStep`) by cases on the actions.

`SqliteDurability` proves what holds when no statement fails in itself
(`MaxFaults = 0`; process deaths remain):

* `WholeWithoutFaults`: `WholeReports`, for any number of stores on the file.
  `WholeInv` adds to `IInv` that a run's uncommitted rows are those of a thread
  that is still inserting, or all of its report's rows: the exceptions that are
  left (a key conflict on the run row, a busy file) come before the first row
  (`EndsWhole`).
* `LoneStoreIsDurable`, `LoneStoreLetsGo`, `LoneStoreImplementsLog`:
  `AckedIsDurable`, `IdleStoreHoldsNoLock` and `ImplementsLog` for one store
  (`LoneStore`). `TidyInv` says that a transaction and a file lock belong to the
  thread inside a call, so nothing is uncommitted when a call begins and the
  pre-flight sees the file itself (`PreflightSeesDisk`); `ReturnInv` that a thread
  inserts only a run the file lacks and leaves a `write()` only with its report in
  the file. In the refinement a commit is `Persist`, the return of a `write()` is
  `Acknowledge`, and every other step stutters.

Both assumptions are needed: the two divergences above are `AckedIsDurable` and
`WholeReports` failing once a statement fails.

A read has a theorem of its own, `OneSnapshot` (`ReadsOneSnapshot`), from `ReadInv`:
the tables that a `get_report()` has read so far are those of what its connection
sees now, because its first `SELECT` is on `monitoring_runs`, and once the run's row
is seen no step of any store changes what the connection sees of that run
(`ViewStands`).

`RunnerProofs` proves, for every plan, rules, sinks, number of workers and outcome of
every metric, sink and channel:

* `RunnerTypes` (`TypeOK`); `RaisedIsSilent` and `StoreGoesFirst`
  (`RaisedTellsNobody`, `StoredBeforeTold`), from `EffectInv`. They are proved and not
  among the runs' properties: the first is the guard of `RunContract`'s `Raise`.
* `PoolLosesNoSpec` (`NoSpecLost`), from `PoolInv`: while the pool works, each spec is
  in exactly one of the queue, the workers, the finished futures and the collected
  pairs, counted with multiplicity.
* `EverySpecReported` (`EachSpecOnce`), from `SplitInv`: the pairs that were split are
  exactly the results and errors so far. That the pairs at the end are all specs is a
  pigeonhole (`CountAll`): as many pairs as specs, and none of them twice.
* `AlertsAreExact` (`AlertsExact`), from `AlertInv`: the alerts fired so far are, for each
  rule and result already passed, one if the policy holds and none otherwise. It needs
  `SplitInv`, for a rule fires once per result and the results have no spec twice.
* `FiredRulesAreNotified` (`FiredRulesNotify`), from `ChannelInv`: what was told so far is,
  for each rule to be notified, its channels if the loop has passed it, those before
  the current one if it is there, and none otherwise; the dispatch before it only
  wrote to sinks.
* `StatusesRuleAlerts` (`AlertsFollowStatus`): the alerts of a policy that follows the
  metric's status are the metrics that failed, from `AlertInv` and `OriginInv`.
* `RunImplementsContract` (`ImplementsContract`): a run refines `RunContract`, step by
  step, under `RunInvariance`: the conjunction of the invariants above, with
  `OriginInv` (a result is that of a pair that succeeded, its status
  `compute_status()` of its value, so that the report says what the outcomes were), `DrainInv`
  (no finished future is left over when the report is made) and `SinkInv` (past the
  sinks, each of them was told). A step that finishes a metric is `Settle`, the end of
  the alerts is `Conclude`, a store's write that does not raise is `Store`, a write to a
  sink or a channel (raise or not) is `Tell`, and what only moves a pair from hand to
  hand stutters. That a returned run has told whoever it owes is where `ChannelInv`
  enters.
* About `Alerts`: `PoliciesAgreeOnNumbers` (a policy that repeats the spec's threshold
  fires exactly when the status is a failure) and `NaNFailsSilently` (on NaN the status
  is a failure under every threshold, so the delegating policy fires, while a policy
  with its own threshold never does).

`MonitoringProofs` proves, for every plan, table, extensions, periods and channel
and any number of calls and deaths (assumption `MonitoringAssumption`: what the
constructors of windows, samplings, partitioner and channel validate, and lists of
names for the extensions):

* `LoadedExtensionsOwn` (`ExtensionsOwnTheirs`), from `RegistryInv`: the metrics
  that the extension being loaded has registered so far are its own, which only a
  name that is free can extend (`BoundKeeps`).
* `ReportsLeaveATrace` (`NothingLostSilently`), from `CallsInv`: only the last call
  may be running; `Progress` says how far it has got at each step of `run()`, and
  `Explained` what is true of every call, over or not. A step changes its own call
  only (`OwnCallChanges`), a write stores or raises (`StoreSpeaks`), and a channel
  raises or reaches somebody (`ChannelSpeaks`).
* `DuplicatesHaveACrash` (`RerunsExplainDuplicates`), from `PeriodInv`: the caller
  leaves a period when a call of it has returned, so of all its calls at most one
  neither died nor raised.

`MonitoringRows` proves, under the same assumption:

* `PeriodsTileTheTable` (`PeriodsTile`), from `TableInv` (a row's id is its position in
  the table) and `SidesInv` (a call has the two sides that the
  partition gives for its period of the table as it was, which later arrivals only
  extend). A reference window is the current window of the period before, because
  both are cut at the same instants and the width of one is the distance of the others.
* `ReportsAreExact` (`EvaluatedRowsExact`), from `WorkInv` and `ReportInv`: at each step of
  `run()` the rows at hand are those of its side after the window, the sample and the
  filter that were already applied, in the order of the code (`WindowHolds`,
  `SampleHolds`, `FilterHolds`, one lemma each); the order matters, since the last
  n rows of a model are not the model's rows among the last n.

`HistoryProofs` proves, for any reports, queries and bounds (assumption
`HistoryAssumption`: reports as `run()` makes them, so that a result's spec is one of
the plan's and no metric has the type `"profile"`; a run's id, a fresh UUID, is that
of one report; a limit is an integer or `None`):

* `TypeInvariance` (`TypeOK`), with the bound of the deque; `FileInvariance`: `FileInv` says
  that the rows of the file that have a run's id are exactly the rows of its report, in
  order, and that no row is of anything else. It is preserved because a write appends
  the rows of one report that the file does not have (`FileWritten`).
* `StoredReportsComeBack` (`ReportsComeBack`): splitting the rows of a run by kind gives
  back its results, errors, alerts and profile (`RestoredIs`).
* `StoresHoldTheSame` (`StoresAgree`): from `SameRows`, which says that filtering the rows
  of a report and making rows of its filtered results is the same.
* `LimitsTakeTheSame` (`LimitsAgree`): whichever rows of one period SQLite takes first,
  a prefix of either answer has as many rows of each report (`Cut`), and the deque's
  answer, a concatenation of the rows of its reports, counts the same.
* `PagesAreOrderFree` (`PageIsOrderFree`): the reports of a page are ordered by their rank
  among the periods, which does not depend on how they came.
* `ChartsTellTheTable` (`ChartsMatchTable`): sorting puts the reports in the order of
  their periods (`SortedReports`), so their results, report after report, are in order
  of time (`MeasuredInOrder`, from `JoinedPlaces`), and so are those of one metric,
  whose last one is the table's line, whose last number the end of the chart and whose
  first one gives the chart its threshold (`PickedEnds`, `EntryEnds`).

`MetricProofs` proves, for any windows, references, declarations and parameters
(assumption `MetricCallsAssumption`: a window has its columns, of one of the four
dtypes and of its length, with no missing value among integers and truth values;
declared types are those of `TabularSchema`; one reference window; bounds of a range
are integers; a matrix has one row of cells per user, with one cell per item):

* `RoutedSpecsRun` (`RoutedMetricsRun`): a metric that does not accept the column's type is
  refused with a `SchemaError` before it computes, and one that does raises nothing on
  enough rows without missing values, but for the four exceptions the property names.
  The argument is metric by metric: no guard of its `compute()` holds
  (`DriftOfValuesRuns`, `DriftOfFloatsRuns`, `CountsRun`, `NumbersRun`,
  `TargetDriftRuns`), because a column that is not of categories is one of numbers or
  declared so (`TypeOfColumn`).
* `AdvisedPlansRun` (`AdvisedPlanRuns`): what is suggested depends on the type of the column
  in the training window (`DriftSpecsByType`), which a later window of the same dtype,
  or of integers turned to floats, shares as far as categories go (`TypesAgree`,
  `AlikeColumns`); texts declared numeric make the advisor raise
  (`NoTextsDeclaredNumeric`). Of what is suggested, the tests of numbers run with
  missing values too (`NumericTestsRun`); psi and chisquare need the windows to be whole,
  and chisquare refuses floats declared categorical: the two exceptions.

* `ProfilesAgree` (`ProfileAgrees`): the values in range, out of range and missing
  partition the positions of the column (`RangesCount`); rows that are not duplicates
  are as many as values when a value determines its row (`UniqueRows`); and without
  missing values the profile extracts what the statistics do (`ColumnIsExtracted`,
  `ProfileOfFull`).
* `InteractionsAreExact` (`InteractionsExact`): melting a matrix puts the cell of each
  user and item at one place of the table (`MeltedCells`), and merging the two tables
  finds for each row its one partner and keeps the order (`PickedOne`, `JoinedCells`).
  Polars gives the second matrix the users of the first (`Relabelled`), pandas lets
  only equal users through (`AcceptedMatrices`).

All rest on the lemma `CallInvariance`: what is in `out` is of the one input, and of the
plan that was advised for it. The first two speak of windows of one dtype, or of
integers and floats: the routing looks at the current window only
(`classify_columns()` says so), and against a reference of texts the metrics fail.

`ListTheorems` has what these proofs share. Its induction, `Upwards`, is over a set of
numbers instead of a predicate, which the provers cannot instantiate; with it a
recursive function such as a concatenation is unfolded from 0 to n (`JoinedIs`).
`JoinedPlaces` says where the elements of a concatenation are: each in one of the
sequences, at one position of it, and in the order of the sequences.

Model-checked only:

* liveness: `EveryCallEnds`, `RunEnds`, `ReportIsReturned` (the prover does not reason
  about fairness or ENABLED);
* `ScoresAgree`, `EstimatesCalibrated`, `DistancesAgree`, `RankingRelations` and
  `ProfileOrdered`: they relate the values of metrics, which are folds over the rows or
  quantiles of their sort, and need an induction over the data for every such fold.

## Assumptions about SQLite

External behaviour, as the source uses it (default `sqlite3` transaction control,
rollback journal, 5 s busy timeout) and as observed with the library:

* the first `INSERT` opens a transaction, `commit()` ends it, an exception in a
  statement undoes that statement only; an I/O error or a full disk rolls back;
* a `SELECT` outside a transaction holds no lock when it is over; inside one it
  keeps a shared lock; the first `INSERT` takes the write lock (reserved), of
  which there is one per file;
* `commit()` needs every other connection to hold no lock; if it is refused the
  connection keeps a pending lock that also shuts out new readers;
* a dying process loses its transaction and its locks, and nothing committed.

Foreign keys are declared and not enforced (no `PRAGMA foreign_keys`), so the
model has no such constraint.

## Not modelled

* The layout, charts and wording of the HTML page, and the texts of mails and
  webhooks: formatting without control state. `render_history()`'s series are in
  `History`, a channel's outcomes in `Channels`.
* The parsing of CSV and Excel files, which is the data frame library's; what is
  raised before it is in `LoadError`.
* `to_dict()` and `to_dataframe()` of a report, and pydantic's validation of field
  types: conversions without a decision. The validation of windows, samplings and
  channels is in the assumptions of `Monitoring`.
* p-values, the normality tests of the advisor (their verdict is a free choice) and
  floating-point error: outside of what TLC's integers can express.
* Empty stub modules.

The creation of the tables on a new file: two stores that create one file at the
same time run `CREATE ... IF NOT EXISTS` statements only.

## Plan

What is left:

1. The metric relations that rest on folds (`ScoresAgree` and the others above), by
   proving each fold equal to a count of positions, as `RangesCount` does.
2. A finer import: two threads that import the library are kept apart by Python's
   import lock, which the model takes for granted.
3. Changes to the code that would close a divergence (a `rollback()` in `write()`,
   dispatch by fired rule, an idempotent `InMemoryStore`) belong in the definitions
   first: the violation run then has to pass, and `WholeWithoutFaults` and the theorems
   on a lone store should lose their assumption `MaxFaults = 0`.

# Vendi core: specifications

Vendi core is a FastAPI service for retail data. A user uploads a CSV of
transactions; the service validates and stores it; the user then runs one of
three modules (forecast, basket, customer) on it. A run is a row of the `jobs`
table, executed by an arq worker (or, under `SYNC_JOBS`, by the API process).
State lives in Supabase (two Postgres tables and one bucket) and in Redis (the
queue). These modules model what happens to that state when requests, workers
and failures are interleaved, and the algorithms whose result depends on the
order of their input.

## The system

| Part | State | Operations | Talks to | What makes it correct |
|---|---|---|---|---|
| datasets API `app/routers/datasets.py` | locals of a request | upload, delete, rows (and list, get, download: one read each) | database, bucket | rows and objects stay in step; an upload ends |
| run API `app/run_helpers.py`, `app/routers/{forecast,basket,customer}.py` | locals of a request | run: check, look up, insert, enqueue or process | database, queue, job runner | idempotent re-run; no job without somebody to run it |
| job runner `app/worker.py: process_job` | locals of a call | fetch, mark running, load, compute, upload, mark | database, bucket, `ml/` | settled rows are right and stay |
| queue and workers `app/jobs.py`, `WorkerSettings`, arq | queue, in-progress keys, retry counters | enqueue, claim, start, finish, redeliver, give up | job runner | one worker at a time; nothing is lost |
| database and bucket `app/db.py`, `app/storage.py`, `migrations/` | `datasets`, `jobs`, objects | insert, update, cascade delete, upsert, remove | | every row and object belongs to one organization |
| validation `ml/validation.py` | locals | map columns, filter rows, deduplicate, report | | the report adds up; the first column wins |
| basket `ml/basket/rules.py` | locals | slice, deduplicate mirror images, sort, cut | | the better direction survives; the cut hides nothing stronger |
| forecasting `ml/forecasting/`, `ml/features.py` | locals | daily view, features, recursion, fallback, backtest | | what a model is asked is what it was trained on; series are aligned |
| customer `ml/customer/` | locals | fit, segment, flag, summarize | lifetimes | bands follow value, whatever the ties |
| access `app/deps.py`, `app/security.py`, policies in `migrations/` | `memberships` | resolve user and organization; check the policies at every call | database | a request stays in its organization; rows change only for members |
| dashboard `app/routers/dashboard.py` | locals | two reads, one answer | database | the two moments fit together |
| other read endpoints `app/routers/{jobs,me}.py` | | one read | database, bucket | what a row points at is there |
| serialization, schemas of results `app/serialization.py`, `ml/contracts.py` | | values that are not numbers become null | | what a worker stores can be read |
| uploads, parquet, config, logging, errors | | pure functions, wording | | not modelled |

What is hard about it: no call is transactional with another, so every handler
is a sequence of calls between which anything may happen; the handlers catch
nothing; the foreign key does not compare organizations; arq delivers a task
again when its worker died or computed longer than the in-progress key lives,
and `process_job` does not look at the status of the job it is given; a call
may take effect and its answer be lost; and a membership is looked up once for
a request but by the policies at each of its calls.

## Modules

| Module | Models |
|---|---|
| `Store` | the tables, the bucket, and one operator per helper of `app/db.py` and `app/storage.py` that writes or decides |
| `Faults` | budgets of faults, and history variables (`casualties`, `succeededOnce`) the properties need |
| `JobRunner` | `process_job`: one action per call, with `CallFails` (the call raises) and `AnswerLost` (it took effect and raises) for each |
| `ArqQueue` | enqueue, and arq: claim, start, discard after `max_tries`, finish, lease expiry, crash |
| `DatasetsApi` | upload, delete and rows, one action per call; a specification of its own (`DatasetsSpec`) and a part of the service |
| `Access` | `get_current_user`, the memberships and the row level security policies in front of `DatasetsApi`; refines `DatasetsSpec` |
| `RunApi` | `start_module_job`, with the queue and with `SYNC_JOBS` |
| `Vendi` | the composition: `Spec`, `FairSpec`, and the properties of the service |
| `JobLifecycle` | the abstract specification: what a client that polls a job may see, and which jobs may be `lost` to it |
| `Dashboard` | the two reads of the dashboard, with the whole service going on between them |
| `VendiInv` | the invariants the proofs need |
| `Ordering` | what `sorted()` and `order by` make of a finite set, in a form that can be proved about |
| `Columns` | `normalize_columns`, header by header |
| `Validation` | `validate_transactions`: `Columns`, then the rows filter by filter |
| `BasketRules` | `_dedupe_symmetric_pairs` rule by rule, and the rest of `analyze_baskets`, slice by slice |
| `ForecastSeries` | `_recursive_forecast_series` day by day, against the features of `ml/features.py` |
| `ForecastRun` | `forecast`: the daily view of the sales, the loop over the series, the fallback for those listed too recently, the order quantity |
| `Customers` | `model_customers` around the fitted models: the estimate used, bands, flags, summary, and what the worker can store of the result |
| `Backtest` | which days `run_backtest` holds out, and how many windows it says they are |
| `DatasetsProofs` | theorems about `DatasetsApi`, on its own and beside whatever leaves datasets alone |
| `AccessProofs` | theorems about `Access`; extends `DatasetsProofs` |
| `VendiProofs` <- `VendiJobProofs` | theorems about the service: what it stores, and the datasets endpoints in it (extends `DatasetsProofs`); who has a job, its life, the dashboard |
| `ValidationProofs`, `ForecastProofs`, `AnalysisProofs` | theorems about `Columns` and `Validation`; `ForecastSeries` and `ForecastRun`; `BasketRules`, `Customers` and `Backtest` |
| `CountingProofs` | facts about finite sets that the proofs about algorithms share: induction, places in an order, sums |
| `MC*` | constants of the runs |

`Store`, `Faults` <- `JobRunner` <- `ArqQueue`; `Store`, `Faults` <-
`DatasetsApi` <- `Access`; both <- `RunApi` <- `Vendi` <- `VendiInv` <- the
proofs, and `Vendi` <- `Dashboard`. The algorithm modules stand alone
(`Columns` <- `Validation`, `ForecastSeries` <- `ForecastRun`): validation runs
inside one call of a request and a module inside `Compute`, so nothing
interleaves with them.

### How state corresponds

- `datasets` and `jobs` are functions from ids to rows, `objects` one from
  paths to contents. Ids count up and are never reused (they are uuids), so
  "order by created_at desc" is descending order of ids. Names, timestamps and
  counts are left out. The error column keeps what `_sanitize_error`
  distinguishes: none, actionable, generic.
- A content is the upload it comes from; a result is the record of the upload,
  module and params it was computed from. So "the right result" is an equation.
- `runs[r]` and `req[h]` are the local variables of a call of `process_job` and
  of a request; `pc` names the call about to be made. One action is one call
  to Supabase or Redis and the code up to the next one. Local code that changes
  nothing (checks, 404, 409, 413) is a guard.
- The caller's organization is chosen when the request begins, as
  `get_current_user` returns it. `Access` says which it may be: `who[h]` is the
  CurrentUser the request goes by from then on, while `Admits` is what the
  policies find in `memberships` at each of its calls. The bucket is reached
  with the service key and has no policy.
- `JobLifecycle!lost` is `casualties`: the jobs whose request or worker died
  where nobody else will settle them. The refinement maps them, so that an
  implementation that loses a job without such a death does not implement it.
- A call of a worker and a call of `process_job` inside a request are the same
  actions; `Runners` is the set of processes that may make them.
- `Outcome` says what a module does with a dataset: rejects it (`ValueError`),
  returns a summary, or a summary and an artifact.

### Algorithm modules

- `Columns`: a header is a model value and `Meaning` is what
  `normalize_header` and `COLUMN_ALIASES` make of it. A header spelled exactly
  like a canonical column is that column, which is what `df.rename` and the
  last filter see.
- `Validation`: a row is its content after conversion, `Defects` the filters
  that would drop it. `out` is a set of indices, as the dataframe's index is.
  `ColumnOf` is the column each filter converts: if two columns have that name
  (`Doubled`), the conversion raises (`Raise`). `upload_dataset` validates
  before its first call and catches nothing of it, so such an upload is a 500
  that has changed nothing: in `DatasetsApi`, a request that was never sent.
- `BasketRules`: the order of mlxtend's rules is arbitrary; in one slice every
  rule occurs once and has the lift of its mirror image. In another slice the
  same items may have other numbers.
- `Customers`: whatever the models predict is any value, or not a number
  (`NaN`); infinite values are left out. The quantiles of `qcut` are computed
  exactly, without rounding. A repeat customer may have spent nothing, since a
  price of zero is valid, and then does not count for the monetary model
  (`Eligible`). An average is a fraction, 0/1 for a band nobody is in, as the
  code shows 0.0. Of the floats the schema asks for, the correlation and the
  values are modelled; whether all others are numbers is an arbitrary choice
  of `Store`.
- `ForecastSeries`: a mean or deviation is represented by the values it is
  taken of; predictions are arbitrary; a promotion is a price below 95% of the
  trailing median, in integers.
- `ForecastRun`: the sales of a series and a day are already summed (`sold`);
  a mean is rounded down, a deviation is any number that is 0 exactly for equal
  values.
- `Backtest`: the days that have all lags are numbered; every series covers
  every day (`build_forecast_view` reindexes them).

## Runs

Every run checks a question of its own.

| Run | Bounds | Shows |
|---|---|---|
| `datasets` | `AccessSpec`: 3 requests in flight, 1 user of 2 organizations, 2 datasets, 2 deaths, memberships revoked at any moment | ready datasets have both objects or are half deleted; rows are served unless deleted; objects without a row come from deletes that found no path; no dataset is forgotten; rows change only for members; requests stay in their organization |
| `delivery` | 2 requests, 2 workers, 2 jobs, 2 tries, 1 crash, 1 lease overrun | types; settled rows change only on redelivery; rows are consistent; re-runs find the first job |
| `calls` | 2 requests, 1 worker, 2 jobs, 1 crash, 1 failing call | artifacts and results are there and are the right ones; no job is forgotten; the service implements `JobLifecycle` with reruns |
| `sync` | `SYNC_JOBS`: 2 requests, 2 organizations, 2 datasets, 1 job, 1 death, 1 failing call | a run that returns has settled its job; jobs and objects stay with their organization |
| `live` | 1 request at a time, 1 worker, 2 crashes against 2 tries, 1 death | the service implements `JobLifecycle` with its fairness: every job settles, is deleted or is lost to a death; the queue drains; every upload ends |
| `dashboard` | `SYNC_JOBS`: 2 organizations, 2 datasets, 3 jobs, 2 of them listed as recent | the jobs a dashboard shows belong to datasets it lists, or to newer ones; no recent success is newer than the latest result |
| `validation` | up to 4 headers (limit 3), up to 4 rows (limit 3), 7 kinds of rows | the first header that means a column gives its data; two columns share a name only if one of them was spelled so in the file, after an alias of it; every dropped row is counted once, under the first filter against it; what is left is one copy of every clean row; there is a report unless two columns share a name, and only then an exception |
| `basket` | 2 slices of up to 4 of 7 rules, one pair with other numbers in another slice, cut at 2 | the more certain direction survives; slices do not disturb each other; the summary has the highest lifts |
| `forecast` | up to 2 series, 5 days, 3 days with sales, 2 days ahead, a week of 3 days, 1 quantile model | lags, windows and the calendar feature are those of training, and the price features while the price is steady; all series are forecast for the same days; intervals hold the forecast and orders cover it; the fallback continues a weekly pattern |
| `customers` | up to 4 customers, with or without spend, 2 or 3 bands, values -1 and 2 and not a number | bands are monotonic and even under ties; those flagged are the most valuable; the summary accounts for everybody and averages never fall between bands that are not empty; a stored result has no hole |
| `backtest` | horizons to 9, histories to 40 | a backtest is made exactly if two days have all lags; its windows are counted right |
| `idempotent_rerun` | 1 request, 1 worker, 2 jobs, 1 crash | (violation) the README says a re-run returns the existing succeeded job; a redelivered task sets a succeeded job back to running, and a re-run meanwhile creates another |

Two jobs on one dataset (`delivery`, `calls`) are the smallest case of an idempotency race; two
workers and one lease that runs out are the smallest case of a task run twice;
`max_tries` is 2 so that the budget of crashes can use it up; two requests meet
in every pair of handlers, and a third only adds another such pair (`datasets`
has three because an upload, a delete and a read can meet, each for the one
organization or the other). A week of three days and a longest lag of three
keep in `forecast` what the code's 7 and 28 have: the lag is not shorter than the
week, and the fallback's history may be shorter than both. Faults are budgeted
and may happen at every call. Symmetry is used over handlers, workers and
organizations, in safety runs only. Deadlock is not checked: the bounds on
ids, and for the algorithms the end of the input, are where a behaviour stops;
that nothing hangs before is what the liveness runs check.

More places where the code and its words differ, met while modelling. The
properties are stated for what the code does:

- `ml/validation.py:56-57` says later columns with the same meaning are
  dropped. A header spelled like the canonical name is kept beside the renamed
  alias (`Qty,quantity` gives two columns `quantity`); `ClashesComeFromLiterals`
  says that this is the only way. pandas then returns a DataFrame for the one
  name, and the first conversion of it raises; `CleanRowsAreKept` says that
  every such file that is not rejected ends so, without a report.
- `ml/features.py:3-6` says feature definitions can never drift. The price
  features of forecast days are those of the last day of the history, without
  its discount; `SteadyPricesMatchTraining` says when that makes no difference.
- `ml/features.py:110-112` speaks of the distance to the 1st; on the 1st the
  code has 1 (and `model.py:255` the same).
- `evaluate.py:63-65` says the holdout is capped to the available history; a
  history a little too short for all windows is tested on a single horizon.
- `ml/contracts.py:146-147` speaks of a category-level model for short series;
  there is only the mean of the weekday.
- `ml/customer/clv.py:51-53` floors the expected purchases so that no value is
  missing; `customer_lifetime_value` asks the purchase model again, unfloored.
- `tests/ml/test_customer.py:39` asserts that the averages of the bands are
  sorted. They are for its data; where customers without a value leave an inner
  band empty, that band shows 0.0 between averages that may lie on one side of
  it (`clv.py:144`). `SummaryAddsUp` compares the bands that are not empty, and
  all of them if everybody has a value.
- `app/worker.py:120-122` says that only the messages of `ml/` reach the row; a
  result its schema rejects raises pydantic's ValidationError, which is a
  ValueError too.

And parts that disagree: `ml/validation.py:150` drops the time of day of
every date, so the baskets dimension `time_of_day`, which the API offers, finds
every hour 0 and is ignored (`ml/basket/rules.py:37-42`). With the granularity
`product_store`, sales without a store belong to no series; if all are such,
`build_forecast_view` has nothing to join and raises, which `ForecastRun` has as
a failed job. The last resort of the fallback, a weekday no day of the history
has, is out of reach as long as the longest lag is not shorter than a week.

### Fairness

`FairSpec` has weak fairness of a handler's and a runner's next call and of
arq's finishing a task: a process that is alive continues, and one that is not
is a fault. A lease nobody holds expires (a Redis TTL). Claiming is strongly
fair per job, for some worker: a worker polls whenever its event loop runs, but
`process_job` blocks the loop, so claiming is enabled again and again and not
continuously. Starting a claimed task is strongly fair because asyncio runs
ready tasks in order while other tasks of the worker come between. Requests of
users and faults are never forced.

## Theorems

Proved with TLAPS for all values of the constants that satisfy the modules'
assumptions (finite bounds are natural numbers, null is no path or content,
workers are runners, `Outcome` as the three modules have it).

- `VendiProofs!TypeCorrect`: `Spec => []TypeOK`. `TypeOK` is not inductive:
  that `Compute` yields a result needs that the object under a parquet path is
  an upload, that the path read from a row is a parquet path, and that a
  handler at a given `pc` has the locals that call needs. `TypeInv` (in
  `VendiInv`) adds those; there is one lemma per action.
- `VendiProofs!IdentitiesStable`: ids are not given out twice and the
  identifying columns of a row never change. `TableSteps` reduces every step of
  the service to one of five changes of the tables or none.
- `VendiProofs!JobsBelong`, `ObjectsBelong`: the tenancy properties. A
  job is inserted, and an object written, from locals that were read several
  calls ago. So the invariant has to say that what a request or a run holds
  still agrees with the rows it was read from *if they still exist*, that all
  ids in hand and in paths have been given out (or else a later row with such
  an id could belong to somebody else), and that the foreign key and the
  cascade leave no job without its dataset. `TenancyInvariant` is that
  conjunction.
- `VendiProofs!ArtifactsServed`, `ResultsRight`: where results come from.
  That the content a run downloaded is what the dataset's report describes
  depends on who may write a parquet object: only the one upload that has the
  dataset in hand, and no longer once the row names the object. `TraceInv` says
  this of rows, of requests (an upload is alone with its dataset and its row
  has no path yet), of runs (what they computed is what their dataset reports,
  if it is still there) and of artifacts (each is the result of the job its path
  names). `ReportsStay` is the heart: once a row names a parquet object, its
  report is final. A second run of the same job then overwrites an artifact
  with the same result. No request removes an artifact, so the object a job
  points at is there as long as the job.
- `VendiJobProofs!NoJobForgotten`: a job that is not settled is in
  somebody's hands or known to be lost. Hands change at every enqueue, claim,
  redelivery and return, so `CustodyInv` says who may have a job: a job one
  request has created and not yet enqueued is nobody else's (`CreatorsAgree`);
  queue, leases and workers only hold ids that have been given out
  (`TasksHaveIds`); as long as no lease has run out under a worker, a task is
  held by one worker, which has its lease, and stays in the queue until it is
  finished (`HoldersAgree`), and a run that has ended leaves a job that is
  settled or known to be lost (`EndsAreKnown`).
- `VendiJobProofs!RowsConsistent`, `SettledJobsRemain`, `RerunsFind`: what
  only a second run or a lost answer can disturb. None is inductive: that a row
  is settled by its first run and stays so needs that as long as `tries` is at
  most 1 one process runs the job (`RunsAreCounted`), that the row says how far
  it has come, and that a job which ever succeeded still says so
  (`FirstRunsAgree`). That is `FirstRunInv`.
- `VendiJobProofs!SyncRunsReturnSettled`: a request that ran its job itself
  returns a settled job, whatever failed. The invariant is `DoneIsSettled`;
  that it lasts needs that nobody else has the job (`CustodyInv`).
- `VendiJobProofs!LifecycleImplemented`: the service implements
  `JobLifecycle` without its fairness, for all constants: every step maps to one
  of its actions or to a stutter. Where the budgets allow no crash, no overrun
  and no failing call, reruns are not allowed by the abstraction either, so
  the proof needs that then every run is the first one and no lease is
  left without its worker (`RunOnceInv`).
- `DatasetsProofs!DatasetsInvariant`, `DatasetsKeepTheirPromises`: rows and objects
  stay in step. None of the four promises is inductive: they speak of a row and
  its objects, and what may happen to these depends on how far an upload and
  how many deletes have come. `DatasetsInv` says at which of its three stages a
  row is (`RowAgrees`), which objects an upload has stored at each call and who
  else may be at its dataset (`UploadAgrees`: only deletes that read no path),
  that a delete knows of all objects or of none (`DeleteAgrees`), what a read
  may find (`ReadAgrees`), and that objects without a row have a blind delete to
  explain them (`ObjectsAgree`, `OrphansAgree`).
- `VendiProofs!ServiceKeepsDatasetsInStep`, `ServiceKeepsThePromises`: the same in
  the whole service, where run requests hold on to datasets, jobs add artifacts
  to the bucket under a dataset's prefix, a delete cascades to jobs, and one
  handler serves both kinds of request in turn. The objects the invariant counts
  (`ObjectsOf`) are therefore those of uploads, not artifacts. `Beside` says what
  a step must leave alone, `BesideKeeps` that this is enough, and one lemma each
  for run requests, runs and arq that their steps do (`RunRequestsAreBeside`,
  `RunsAreBeside`, `ArqIsBeside`).
- `AccessProofs!AccessImplementsDatasets`: every step under memberships and
  policies is a step of `DatasetsSpec` or none; so the four promises carry over
  to `AccessSpec`, the specification of the run `datasets`
  (`ReadyDatasetsAreWhole`, `RowsAreServed`, `OrphansAreExplained`,
  `UploadsAreAttended`). A refused request is
  one never sent, an update the policies hide is a request that died.
- `AccessProofs!OrgsAreKeptApart`, `MembersChangeRows`: from `AccessInv`, which
  adds that a request under way is for the organization its caller was let in
  for (`IsServed`). `MembersChangeRows` needs the check of `Admits` at the very
  step; `OrgsAreKeptApart` holds also for the bucket, which has no policy,
  because paths are only taken from rows of that organization (`RowAgrees`).
- `VendiProofs!ReadinessInvariant`: a dataset is ready exactly if its row names
  a parquet object, only the upload that created it settles it, and every job
  and every run request past its check is about a ready one: the check is two
  calls old when the job is inserted, but nothing takes a settled row back.
- `VendiJobProofs!DashboardsExplained`: what a dashboard composes of two moments
  fits together. `DashInv` is what the list that was read first is still good
  for: a dataset that exists now is in it, and was rejected then only if it is
  now, or is newer than the whole list. `ReadinessInvariant` says that the jobs
  read later are of datasets that are not rejected now.
- `ValidationProofs!HeadersAreResolved`, `ClashesAreExplained`,
  `OffencesAreCountedOnce`, `CleanRowsKept`: for every alias table, file, and
  table of defects. The first two need that `seen` holds exactly the columns the
  headers read so far mean (`ColumnsInv`), the third that what is left after a
  filter is what passed all filters so far (`FiltersAgree`), the last that the
  reasons, the duplicates and what is left add up to the rows of the file after
  every filter, that of equal rows exactly the first is no duplicate
  (`ReportAgrees`), and that a filter that has run found its column once
  (`NamesAgree`): at the end every column has been converted, so none is doubled.
- `AnalysisProofs!BestDirectionKept`, `SlicesApart`, `StrongestFirst`: for any
  rules, slices and limits. A slice is a loop over its rules with a dictionary
  and a set beside it; `BasketInv` says of every row that has been read which
  entry speaks for it, that an entry's row is kept and its rivals are not, and
  that no finished slice holds a mirror image.
  Sorting is a permutation by lift (`InOrderFacts`), so what holds of the
  collected rules holds of the sorted ones.
- `AnalysisProofs!BandsMonotonicAndEven`, `AtRiskMostValuable`, `SummariesAddUp`,
  `StoredWhole`: for any number of customers and bands, any values, ties and
  missing values. The ranks of the customers who have a value are 1..n_ranks,
  each once (`Ranks`); a band is the ranks between two edges, so its
  size is the distance of the edges, which differ from band to band by one at
  most. That fewer are worth more than the top band is wide is stated as the
  code cuts: a part of the ranks from 1 to n_ranks, of which there are
  n_ranks - 1 steps (`LessThanTop`). Sums over customers are sums over bands of
  sums (`SumOfParts`); that averages rise from one inhabited band to a higher
  one compares every member of the lower with every member of the higher
  (`AveragesRise`).
- `ForecastProofs!FeaturesAsTrained`, `PricesAsTrained`: for any lags, windows,
  models and sales, what a model is asked is what it would have been trained
  on. `LoopInv` says that the list the recursion keeps is the sales of its series
  and what was forecast so far, `RowInv` what the last row of features is, given
  that the list has grown by that row's own forecast since.
- `ForecastProofs!SeriesAligned`, `OrdersCover`, `WeeksContinue`: for any number of
  series. A mean of equal values is that value (`ExactQuotient`), an order
  quantity is a sum of terms each at least the forecast (`SumMonotonic`), and
  stepping through a week from the last day of the history meets each weekday
  where the history has it.
- `AnalysisProofs!BacktestWhenPossible`, `BacktestCountsWindows`: for every
  horizon, number of windows and history.

### Counting and induction

The library's induction theorems take a predicate as a parameter, which the
provers cannot instantiate. `CountingProofs` states induction over *sets*
instead: the strict subset ordering of finite sets is well-founded
(`FS_StrictSubsetOrderingWellFounded`), so every set of natural numbers has a
least one (`LeastNat`); a set of natural numbers that holds 0 and with each
number the next holds them all (`NatsByStep`); and a set of subsets that holds
the empty one and with each another with one member more holds all finite ones
(`SetsByElement`). Sums are the library's folds (`SumFunctionOnSet`), of which
only the choice of the next member is used, and that they do not depend on it
is `SumsAgree`. The sorts of the models are `InOrder` of `Ordering`: a member's
place is the number of those before it, and `Places` shows that a strict order
of a finite set gives every place to one member.

Only model-checked: what needs fairness, which is out of the prover's reach
(`ImplementsFairLifecycle`, `QueueDrains`, `EveryUploadEnds`), and the violation
run. Every invariant and every action property of the other runs is a theorem.

## Not modelled, and why

JWT verification, HTTP, pydantic schemas other than those of customer results,
content sniffing, CSV and parquet: calls of libraries, or pure functions of one
request whose outcome is a guard of the models. The statistics of mlxtend,
LightGBM and lifetimes: whatever they return is an arbitrary value here. The
iso-value grid and the error metrics of the backtest: real-valued formulas with
no decision in them. Summary statistics, warnings and wording, logging,
configuration. The datasets endpoints are under `Access`, the run endpoints are not: they
reach their tables through the same helpers, with the same policies.
Start-up is left out: without Redis the run endpoints answer 503 before they
change anything.

## Plan

What is left: memberships and policies under the run endpoints, as `Access` has
them under the datasets endpoints.

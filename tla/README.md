# Verification of `samvad-news-harvester` in TLA+

This directory models the Go service under `src/` in TLA+, checks the models
with TLC on small instances and proves the main results with TLAPS for every
value of the constants. The models are written from the code; documentation is
quoted only where the code does something else (section 6).

## 1. Inventory

The service fetches news links from sitemaps, scrapes each link for a title, a
description and an image, publishes one event for each new article to all
configured sinks, and remembers published ids in a bbolt file.

```
main ── NewHarvester ── provider registry, publisher registry, sinks, store
          │
          └─ Harvester.Run ── every interval ── Service.Run (one crawl)
                                                  │  ≤ 10 workers, cfgCh, errCh
                                                  └─ ProviderProcessor.Process (per provider)
                                                       ├─ FetcherFor, Fetch ── sitemap indexes
                                                       ├─ SeenArticle (per article) ──┐
                                                       ├─ Scraper.Enrich              │ shared store
                                                       │    ≤ 10 workers, jobCh, ticker
                                                       └─ Fanout.Publish, MarkArticle ┘ shared sinks
```

| Component | State | Operations | Hard behaviour | Correct when |
|---|---|---|---|---|
| `crawler.Scraper` | `out`, `jobCh`, limiter, goroutines of a call | `Enrich`, `articleWorker` | unbuffered send without a `select`, unlocked slice, cancellation | no two writers of a slot, complete unless cancelled, always returns |
| `crawler.Service` | `cfgCh`, `errCh`, goroutines of a crawl | `Run`, `runAll`, `worker` | the same send; errors are read after everybody has left | every failure reported, no worker blocks on `errCh`, always returns |
| `crawler.ProviderProcessor`, `publishers.Fanout` | none across calls; store and sinks are shared | `Process`, `filterNewArticles`, `publishArticles`, `Publish` | check-then-act between lookup and mark, partial fan-out, lost answers, crash before the mark | nothing marked that never left, nothing lost, duplicates only where they cannot be avoided |
| `storage.boltStore` | the bucket, `lastCleanup`, `cleanupMu` | `openBolt`, `SeenArticle`, `MarkArticle`, `maybeCleanupExpired`, `Close` | double-checked cleanup, two clocks in one call, whole seconds, reopening | a mark lives its time, one cleanup per interval, bounded file, calls return |
| `providers.googleNewsFetcher` | the `visited` set of a fetch | `Fetch`, `fetchGoogleNewsURLs` | cyclic and shared indexes, an error in the middle | ends, one request per location, all or nothing |
| `app.NewHarvester`, registries, builders, `NewStore` | the registries being built | `LoadRegistry` (twice), `Enabled`, `BuildAll`, `NewStore` | order of validation and selection, agreement of validation and builders | what starts is what the file says |
| `app.Harvester`, `main` | context, ticker, the open store | `Run`, `runOnce`, `closeStore`, signals | `select` with two ready cases, the file lock of a second process, a crawl under a cancelled context | every signal ends it or finds it stuck, no goroutine of a crawl outlives it or the store, crawls recur and serve every provider |
| `config.Load` and the durations made of it | the configuration | `Load`, `normalizeOptions`, `RequestDelay` | seconds are checked, then multiplied into an `int64` of nanoseconds | what is waited for and what is kept is as long as set, unless the setting is too large for an `int64` |
| sinks (`queue`, `http`, `awssqs`, `awssns`, `gcppubsub`) | a client | `Publish`, `Send` | an answer lost in a timeout | the three outcomes of `PublishTo` in `Processor` |
| fetcher registry | two maps, fixed once built | `registerTypeFetcher`, `FetcherFor`, the check in `Fetch` | three places clean a type in three ways | the type in the file decides who is served |
| logger, `httpclient`, `util`, `scheduler`, `domain` | - | - | - | not modelled beyond the timeout of a client: no decision of the program depends on them, or they are stubs |

`PROJECT.json` lists every hazard at its line and the properties that cover it.

## 2. Modules and the code they model

| Module | Models | State and actions |
|---|---|---|
| `JobPool` | what a pool promises: jobs in order, each to one worker, dropped only after a cancellation | `Take`, `Handle`, `Drop`, `Cancel`, `End` |
| `Enrich` | `Scraper.Enrich` and `articleWorker` | `main` is where the dispatcher is, `wpc` where each worker is, `job` the index it holds, `out` the slice. `CheckCtx`, `Handoff`, `CloseJobs`, `Return` are the dispatcher; `WorkerCheck`, `TakeTick`, `AbandonInLimiter`, `Scrape`, `Drained` a worker; `Tick` the ticker |
| `RunAll` | `Service.Run`, `runAll`, `worker` | the same with `errCh`: `ProcessOK`, `ProcessFails`, `Report`, `Collect`. `Process` is one step |
| `ArticleCache` | what a store promises: a map from ids to expiries that deletes nothing | `Begin`, `Lookup`, `Mark`, `Fail`, `Restart` |
| `BoltStore` | `bolt_store.go` | `db`, `lastCleanup`, `locked`, and for each goroutine its place and its call. `Gate`, `Lock`, `Recheck`, `Sweep`, `SweepFails`, `Stamp` are `maybeCleanupExpired`; `Lookup`, `Mark`, `TxFails` the transactions |
| `Processor` | `Process`, `filterNewArticles`, `publishArticles`, `Fanout.Publish` of concurrent providers, over crawls and crashes | `marked` is the store, `delivered` counts what each sink got; `Filter` is one lookup, `PublishTo` one call of one sink, `FanoutReturns` and `Mark` the decision to mark and the mark |
| `SitemapFetch` | `fetchGoogleNewsURLs` | `todo` is the recursion's stack of lists, flattened; `ReadIndex`, `ReadArticles`, `Abort`, `Skip`, `Finish` |
| `Pipeline` | `Process` on the store with its clock: `SeenArticle` and `MarkArticle` as calls that start, take effect and return | instances of `Processor` and `ArticleCache`; `BeginLookup`/`Lookup`, `BeginMark`/`Mark`, their failures, `Crash` and `Tick` join their actions |
| `Settings` | the checks of `config.Load`, `normalizeOptions`, `RequestDelay`, the HTTP timeout, the end of a mark | operators only; `Wrapped` is the arithmetic of an `int64`, `MarkEnd` the seconds that `MarkArticle` stores |
| `Fetchers` | `registerTypeFetcher`, `FetcherFor`, the first check of `Fetch` | operators only |
| `Startup` | `config.Load`, `NewHarvester`, both `LoadRegistry`, `Enabled`, `BuildAll`, `NewStore`, the ticker of `Run` | `loaded` is the registry being loaded, `providers` and `clients` what came of it, `opts` the options of the store; one action per loop iteration or stage, the loop of `Enabled` included (`Enable`) |
| `Harvester` | `main`, `Harvester.Run`, the file lock of bbolt | `pc` of each process, `holder` of the file; `Fire`/`TakeTick` are the ticker, `Signal`/`TakeDone` the shutdown |
| `Service` | a process with its crawl inside | instances of `Harvester` and of `RunAll` under the context of the process that has the file; `FirstCrawl`/`Recrawl` start the pool, `Return` is its return, `Hang` a call of `Enrich` that never returns, `Stop` a crawl no goroutine of which can move |

`MCx` instantiates module `x` for TLC; `xProofs` holds its theorems, those of
`Harvester` in `ServiceProofs`.

How they fit together:

```
JobPool  <= Enrich, RunAll        ArticleCache <= BoltStore
Processor <= Pipeline = Processor + ArticleCache
Harvester <= Service  = Harvester + RunAll
Startup  = Settings + Fetchers + the files
```

`<=` is an implementation shown by a refinement mapping (`PoolSpec`,
`CacheSpec`, `ProcessorSpec`, `HarvesterSpec`). So each module may use another
as one step, or as its promise: `Processor` sees the store as a set of marks
that may run out at any moment, which `Pipeline` justifies for a store that
behaves as `ArticleCache`, and `BoltStore` behaves so. `Harvester` sees a crawl
as one that returns or, once cancelled, gets stuck, which `Service` justifies,
liveness included, from the goroutines of `RunAll`. In `RunAll` a call of
`Process` is one step, and in `Service` it may hang after a cancellation, which
is what `Enrich` shows of it.

### Abstractions

* An article is its id. Titles, images, keywords and dates never decide
  anything and are left out, and so are log lines and error texts.
* A `db.Update` of bbolt is one atomic step that may fail and then changes
  nothing. bbolt has one writer at a time.
* The clock of `BoltStore` counts instants, `Sub` to a second, and never goes
  back: the code's `now.Sub(last)` compares with `time.Unix` values, so a wall
  clock that is set back is outside the model.
* `Startup` takes the words of a publisher's entry up to spaces and case, and
  ids up to spaces, which the sanitize functions remove. A provider's type is a
  word with or without spaces and capitals, as only some of the code's places
  remove them. A text in a publisher file is given, empty, or a variable; the
  variables are all set or all unset.
* A duration is an integer that wraps around at `MaxInt64`, a parameter, so
  that TLC can use 8 bits. `Second` and `Millisecond` keep their order and
  nothing else. viper's own conversion of a setting is "a number or an error".
* `Limited` says whether a call of `Enrich` has a rate limiter; it has none
  when `RequestDelay` wrapped to a value that is not positive. The branches for
  nil dedupers, scrapers, publishers and processors do not run in this program,
  and `Harvester` has no idle loop for an empty provider list, as `LoadRegistry`
  refuses such a file.
* `Harvester` takes it that the crawl interval is a positive duration. `Startup`
  has the panic of `NewTicker` for the one that is not.
* `Harvester` has the lock of the bbolt file. The noop store has neither a file
  nor a lock, and its processes do not meet.
* A sink that errs may have accepted the event all the same (`"ambiguous"`):
  HTTP and Pub/Sub both report an error when the answer is lost.

## 3. Runs

| Run | Instance | Shows | Why the bounds are enough |
|---|---|---|---|
| `EnrichPool` | 4 articles, 2 workers, fair | `TypeOK`, `SlotOwnership`, `PartialOnlyIfCancelled`, `StrandedOnlyByCancel`, `PoolSpec`, `ReturnsOrStranded` | workers take a second job, both can meet on a slot, and the send can wait while both are busy |
| `EnrichCancel` | the same, without a rate limiter | violation of `CancelReturns` | - |
| `RunAllPool` | 4 providers, 2 workers | `TypeOK`, `ErrChHasRoom`, `EveryFailureReported`, `StrandedOnlyByCancel`, `PoolSpec` | more errors than workers, every subset of failures |
| `BoltStoreShared` | 2 goroutines, 1 id, TTL 2 s, cleanup 1 s, 6 instants, 1 restart, fair | `TypeOK`, `CleanupNotOverdue`, `MarkKept`, `CleanupCadence`, `CacheSpec`, `CallsReturn` | entries never affect each other; two goroutines can overlap at every step and wait for one another; two cleanups fit, and a failed or interrupted one before them |
| `ProcessorFaults` | 2 providers with the same 2 stories, 2 sinks, every fault, 1 crash, fair | `TypeOK`, `MarkedWasDelivered`, `NilMeansDelivered`, `Retried` | every order of two pipelines on two articles; two sinks can disagree; failures may waste any finite number of crawls |
| `PipelineClock` | 2 providers with one story, which one lists twice, 2 sinks, TTL 2 s, 5 instants, 1 crash or failed call | `OncePerTTL`, `ProcessorSpec` | a mark can wait past another mark and past its own end; a crawl falls before and after the end of a mark; the fault can fall between each delivery and its mark; `MaxCount` is above what the property allows |
| `ProcessorTwice` | a shared story, no fault at all | violation of `NeverTwice` | - |
| `SitemapAll` | every site of 3 pages | `TypeOK`, `FetchedOnce`, `WholeSite`, `FetchReturns` | all cycles, self-loops, diamonds and dead ends of three pages, blank locations, failing requests |
| `StartupFiles` | 8-bit durations; every combination of the settings, of the fields of a provider and of a publisher; pairs of providers; files of two and three mixed publishers | `TypeOK`, `ReadyServesFile`, `ValidCanBeBuilt`, `StoreTimesAsSet`, `ServedByType`, `WaitsUnlessTooLong` | a setting can be negative, 0, small in two ways, and wrap to a negative duration, to one below a second and to none; 8 bits hold ten seconds of 12 instants; order, duplicates and switches need two entries, a gap in the middle three |
| `StartupDisabled` | the same | violation of `DisabledIgnored` | - |
| `ServiceShared` | 2 processes on one file, each crawl 3 providers on 2 workers, calls of `Enrich` that may hang, fair | `TypeOK`, `StoreHeld`, `WorkInsideCrawl`, `ProvidersServed`, `HarvesterSpec`, `SignalEnds`, `CrawlsAgain` | one process holds the file while the other waits for it, comes later or dies; more providers than workers, so that the pool can strand |
| `ServiceStop` | 1 process, 3 providers, 2 workers, fair | violation of `SignalStops` | - |

Deadlock is checked except in the three runs of `Enrich` and `RunAll`, where the
code itself can stop for ever (findings 1 and 2). `StrandedOnlyByCancel` says
exactly when; that a call returns otherwise is `ReturnsOrStranded` for `Enrich`
and part of `HarvesterSpec` for `RunAll`.

The bounds are constants: `MaxTime` and `MaxRestarts` in `BoltStore`,
`MaxCrashes` and `MaxCount` (deliveries counted up to it) in `Processor`,
`MaxTime`, `MaxFaults` and `MaxCount` in `Pipeline`, and `Inputs` in `Startup`.
`MaxArticleWorkers` and `MaxProviderWorkers` are 10 in the code and 2 here;
only their order with the number of jobs matters.

`OncePerTTL` is about sinks that accept what they report accepted. A sink whose
answers are lost (`"ambiguous"`) may be sent an article in every crawl, and no
bound on it exists.

### Properties with a history

`markedAt` (`BoltStore`), `processed` and `failed` (`RunAll`), `delivered`
(`Processor`) and `gets` (`SitemapFetch`) only record; no guard reads them.

## 4. Fairness

* `Enrich`: weak fairness of the dispatcher, of each worker and of the ticker.
  The Go scheduler runs every runnable goroutine, and the HTTP client has a
  timeout of 15 s (`pkg/providers/fetcher.go:99`). The cancellation is never
  forced.
* `BoltStore`: weak fairness of each goroutine's call; strong fairness of
  `Lock`, because `sync.Mutex` hands itself to a goroutine that has waited for a
  millisecond.
* `Processor`: weak fairness of every call and of the next crawl (the ticker).
  Strong fairness of `Fetch` and of an `"ok"` from a sink is an assumption on the
  environment, a provider and a sink that do not fail for ever; `Retried` claims
  nothing without it.
* `SitemapFetch`: the walk is one goroutine.
* `Service`: weak fairness of each goroutine of a crawl, of a process and of its
  ticker; strong fairness of `TakeDone`, because `select` picks among ready cases
  at random. Starts, signals, kills and calls that hang are never forced. The
  fairness of `Harvester` also says that a crawl ends; `HarvesterSpec` derives
  that from the goroutines.

## 5. Proofs

`tlapm` proves, for every value of the constants under the assumptions that each
module names (`ConstantsAssumption`, `SitemapAssumption`, `HarvesterAssumption`,
`ServiceAssumption`, `PipelineAssumption`, `SettingsAssumption`, `StartupAssumption` and so on):

* **`EnrichProofs`, `RunAllProofs`.** Types; `SlotOwnership`,
  `PartialOnlyIfCancelled`, `EveryFailureReported`, `ErrChHasRoom`,
  `StrandedOnlyByCancel`; the refinement of `JobPool`, with and without a rate
  limiter. `SlotOwnership` is not
  inductive: it needs that every index a worker holds is below `next`, that no
  slot from `next` on was written, and that a worker leaves only after the
  channel is closed or the context is done. `ErrChHasRoom` needs a counting
  argument: the errors in the channel and those about to be sent are named by
  different providers, so there are at most `NProviders` of them.
* **`BoltStoreProofs`.** Types, `CleanupExclusive`, `CleanupCadence`, `MarkKept`,
  `CleanupNotOverdue` and the refinement of `ArticleCache`. The invariant behind
  `MarkKept` and the refinement says
  that an entry is either the mark made last or absent, and absent only if that
  mark has run out by the present clock. That is why deletions by an older clock
  reading are harmless: the clock never goes back.
* **`ProcessorProofs`.** Types, `MarkedWasDelivered`, `NilMeansDelivered`. The
  invariant states for each provider what its place in the pipeline implies: in
  the filter, the articles looked at are kept or have reached a sink; in the
  publishing loop, without an error so far every sink has the articles before
  `pos`, and a positive count of successes means the current one has reached a
  sink.
* **`SitemapFetchProofs`.** Types, `FetchedOnce`, and `WholeSite`: the pages
  visited are exactly those reachable from the root, for any site. The invariant
  keeps what the visited pages lead on to inside the visited and the waiting
  ones, and everything waiting inside every closed set.
* **`PipelineProofs`.** `ImplementsProcessor` is the refinement `ProcessorSpec`:
  a lookup or a mark takes effect in one step of `Processor`, the calls before
  and after it are stutters, and a tick is the end of some marks. The mapping
  needs that an open call is about the article its process is at. With it,
  `MarkedWasDelivered` and `NilMeansDelivered` hold on the timed store too. For
  `OncePerTTL` the invariant `PeriodInv` puts each article, at any time, in a
  period `m` of `(TTL - 1) * Sub + 1` instants in one of three states: `Guarded`, no process
  holds the article and its mark lasts into the next period; `Owed`, the current
  crawl may deliver it and the bound still has room for a whole crawl; `Used`, the
  crawl has delivered some of it, and a mark is there or a process is about to
  write it. A lookup that keeps a guarded article finds its mark ended, so the
  period is over; a crash and a failed call lose the mark and add one to the
  bound; a crawl that ends leaves no mark to be written. `Ahead` counts the
  places of the current crawl that may still deliver the article, and each
  delivery takes one of them away. The hypotheses are those of the property and
  of the program: sinks are not `"ambiguous"`, and an article is listed at
  finitely many places (`Bounded`), as feeds and providers are finite. `MaxTime`,
  `MaxFaults` and `MaxCount` are any numbers, so no bound of the model limits
  what is proved.
* **`ServiceProofs`.** Types and `StoreHeld` of `Harvester` for any number of
  processes; that a process with its crawl inside takes steps of `Harvester` and
  no others (`ImplementsHarvester`, the safety half of `HarvesterSpec`), so the
  invariants carry over. `WorkInsideCrawl` needs that the workers are gone
  whenever `runAll` has returned, and that `runAll` is only called by the process
  that has the file, in its crawl. `ProvidersServed` takes the invariant of
  `RunAllProofs` along: it holds of the crawl of whoever has the file, from the
  state in which the crawl starts, and with it an uncancelled return means that
  every provider was processed.
* **`StartupProofs`.** `StoreTimesAsSet` for every width of the integers: an open
  store has the options of settings that were accepted (`StoreInv`); a product
  that fits is not wrapped (`FitsIsKept`), the fraction of a second that
  `MarkArticle` cuts off is no more than the one it was called at
  (`CutToSecond`), and with a TTL of a second or more that is never the whole of
  it (`OverAtOnce`). It takes it that the defaults of the store are a second at
  least (`SettingsAssumption`). `ServedByType` for every file: the invariant relates the entries
  loaded so far to the entries of the file before `idx`. For `ReadyServesFile`,
  `Picked` says the same of the loop of `Enabled`: it has found entries of the
  registry only, all that are on, in their order; that each has its own id makes
  their clients as many as their ids. `ValidCanBeBuilt` follows since what was
  picked is valid. `WaitsUnlessTooLong` needs that the settings accepted, and the
  delays and timeouts sanitized, are positive before they are multiplied.

Only model-checked: every liveness property (`ReturnsOrStranded`, `CallsReturn`,
`Retried`, `FetchReturns`, `SignalEnds`, `CrawlsAgain`), as liveness and `ENABLED`
are out of the prover's reach, and so the fairness in `HarvesterSpec`. Every
other property of a passing run is a theorem. `CleanupExclusive` (`BoltStore`),
that the mutex is held just when one goroutine is inside the cleanup, and the
two properties of `Processor` on the timed store are proved and in no run.

## 6. Findings

1. `Enrich` may hang after a cancellation (`EnrichCancel`): the send on `jobCh`
   (`scraper.go:74`) does not watch the context, and the workers leave.
2. `runAll` may hang in the same way (`crawler.go:80`), and a signal then does not
   bring the process down (`ServiceStop`): with more providers than workers, the
   crawl never returns and the loop never gets to `ctx.Done()`. The process is
   `"stuck"` in `Harvester`: it ignores further signals, since
   `signal.NotifyContext` keeps swallowing them, keeps the database file locked,
   and has to be killed.
3. A story that two providers carry at the same time is published twice
   although the dedupe layer is on (`ProcessorTwice`). A story that one feed lists
   twice is treated alike; `OncePerTTL` is the bound that does hold.
4. A disabled publisher entry that does not validate keeps the service from
   starting (`StartupDisabled`), where the README says it is ignored.

Limits that the properties state as they are:

* An expiry is cut to whole seconds, so a mark is only sure to last `TTL - 1`
  seconds (`MarkKept`, `OncePerTTL`).
* Each opening of the store counts as a cleanup, so a process that restarts more
  often than the cleanup interval never cleans up (`CleanupNotOverdue` counts
  from the opening).
* A crawl interval, a request delay or a timeout that is too large for an `int64`
  of nanoseconds may end the process, drop the rate limit or wait for ever
  (`WaitsUnlessTooLong`). A TTL that is too large becomes the default, or a
  remainder; a remainder below a second may end a mark at the instant it is made
  (`StoreTimesAsSet`), which dedupes nothing.
* A provider of an unknown type passes the load and fails every crawl
  (`ServedByType`).

## 7. Not modelled

HTML parsing and URL resolution (pure text, one of two results of `Scrape`), the
decoders of YAML, JSON and XML beyond whether they succeed, viper and godotenv,
the logger, the SDKs of the sinks with their own retries and batching, and
bbolt's own file format. The stubs in `internal/scheduler` and `internal/util`
are called by nothing. A sitemap server that makes up a new index in each answer
keeps the walk going; `SitemapFetch` has a finite set of locations and does not
show it. The wall clock never goes back.

## 8. Plan

Done, from the most concurrent to the least: pools, store, pipeline, fetcher,
lifecycle, startup; then the compositions `Pipeline` and `Service`, and the
settings and the choice of a fetcher in `Startup`.

Every safety property that a run checks is proved. Proving more:

1. What `JobPool` promises by itself: a job is taken once, and dropped only after
   a cancellation; then it follows for `Enrich` and `RunAll` from `PoolSpec`.
2. The results about `RunAll` that `Service` does not state yet, in particular
   that a crawl inside a harvester reports every failure.
3. `Processor` without faults: how often a sink gets an article that several
   providers list at the same time (`NeverTwice` is too much, finding 3).

Extending the model:

4. Cancellation inside `Process`: lookups and marks go on after it, and every
   sink is still called once for each article; how long a shutdown takes.
5. A bound on the expired entries in the bucket, with the time of each write in
   the model.

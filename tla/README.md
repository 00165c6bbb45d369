# TLA+ verification of LOB Arena

LOB Arena simulates an exchange with a limit order book, lets agents trade and abuse scenarios
disturb it, scores detectors on the resulting event stream, and asks a cloud service to explain,
investigate and evaluate what was detected. This directory holds TLA+ modules of its parts, the TLC
configurations that check them on small instances, and proofs of their central properties for all
instances.

Paths are relative to the repository. `kernel/` stands for
`java/simulation-kernel/src/main/java/ai/lobarena/kernel/`, `controlplane/` for
`java/control-plane/src/main/java/ai/lobarena/controlplane/`.

## Inventory

| Component | State it keeps | Operations | What makes it hard | What makes it correct | Modules |
| --- | --- | --- | --- | --- | --- |
| Order book and matching engine, `kernel/book`, `backend/app/exchange` | a FIFO queue per side and price; an index from order id to order | add, cancel, modify, match, level operations, submit | two structures updated by separate statements in each operation; a command can fail after part of its effects | queues and index agree; price-time priority; lots conserved | `BookOps`, `OrderBook`, `MatchLoop` |
| Event stream, `IntegerMatchingEngine`, `event_log.py` | an append-only log | record, read by cursor | some changes of a book leave no event | events tell the book | `EventFeed` |
| Simulation kernel, `kernel/simulation`, `backend/app/agents`, `scenarios` | clock, book, stage of the scenario | agents, scenario, repair, snapshot per tick | decisions from a snapshot that is stale when they are applied; repair that hides a scenario | bids below asks; ladder restored; no abuse order left | `KernelRun` |
| Metrics and hashing, `kernel/determinism`, `kernel/hashing` | none | arithmetic, SHA-256 | numeric parity | equal inputs, equal bytes | – |
| Live arena, `controlplane/LiveArenaService` | market, tick, scenario, incidents, source | start, pause, reset, launch, load, tick, comparison | requests, scheduler and comparison in any order; failures in the middle | source, scenario and incidents belong together | `LiveArena` |
| Data sources, `controlplane/*MarketDataSource` | records, position | load, batch, advance, reset | read-ahead, end of file | every record once, in order | `ReplaySources` |
| Agent orchestration, `controlplane/AgentOrchestrator` | calls under way | collect | deadlines, late answers | intents of one tick only | – |
| WebSocket; gRPC boundary and telemetry | sessions; counters | broadcast; run | sessions that close | – | – |
| Python reference arena, `backend/app/arena` | as the live arena, and append-only files | start, pause, reset, scenario, step, loop | a tick awaits agents with the book half changed; appends that fail | whole ticks published; files complete | `ReferenceArena` |
| Detector tournament, `backend/app/nebius/detector_tournament.py` | one file per tournament, metrics in memory | queue, complete, refresh | threads around one file without a lock; observations out of order; restart | the gauge counts what is in flight; local runs end | `Tournament`, `TournamentMetrics`, `TournamentTally` |
| Nebius jobs and experiments, `backend/app/experiments` | manifest, rows of `jobs.jsonl`, directories | submit, refresh, collect, mark, local batch, normalize, delete | every request saves the old copy it read; commands and batches that take minutes before their row is appended; results of other runs | rows listed once, as appended; completion has a ground | `ExperimentJobs` |
| Local batch, `serverless/jobs` | output directory, its copy | plan, play, write, copy | a pool of threads; batches that overlap or die in one directory | files hold whole runs in order | `BatchJob` |
| Detectors and evaluation, `backend/app/detectors`, `evaluation` | orders and depth of earlier ticks | features, scores, ground truth, rates | thresholds, half-open windows, rounding | no alarm without its evidence; scores agree | `Detectors`, `BatchEvaluation` |
| Nebius client, `backend/app/nebius/client.py` | none | one call per route | errors that lead to another route, or that nobody catches | an answer tells who wrote it; every call ends | `NebiusCalls`, `AbuseScenario` |
| Serverless endpoint, `serverless/endpoint` | none | one handler per route | a model that answers in another shape, or leaves strings empty | as above; ground truth never from the model | `SurveillanceEndpoint`, `EndpointAnswers` |
| Evidence archive, `backend/app/nebius/evidence_archive.py` | directories, bucket, index | record, register, sync | recording and synchronizations at the same time; uploads that fail or hang | one row per record | `EvidenceArchive` |
| Data ingestion, `backend/app/data_ingestion` | raw folders, dataset directories, jobs in memory | discover, validate, convert, register | candidates listed outside the lock; files replaced between the three readings of an import; tasks that wait, fail or die | datasets have rows of their window, and all of them when their files stayed; one task per candidate | `LobsterPairs`, `DataIngestion` |
| API, settings, reports; frontend; scripts and deployments | – | routing, rendering, build | – | – | – |

How they interact. The kernel and both arenas each own one matching engine and its book. Agents'
orders go through `submit`; quotes, scenario orders and repair call level operations on the book, and
every mutation is appended to the log. A tick is always: agents, scenario, repair, one snapshot. The
arenas play data sets that the ingestion registered. The backend runs experiments: a local batch
plays the reference arena without its loop, evaluates the detectors and leaves files; a cloud batch
does the same at a provider and is asked about by commands. The client asks the endpoint about
incidents and scenarios and puts every call into the evidence archive. Within the live arena all is
under one monitor, within a kernel run on one thread, and the reference arena has one `asyncio` lock;
experiments, tournaments, batches and ingestion share files without one.

## Modules

    BookOps              operations of the book, as operators from a book to a book
      OrderBook          the book driven by commands and level operations
        EventFeed        the book composed with a reader of its events
      MatchLoop          the loops of match, one iteration a step
      KernelRun          a simulation run
    OrderBookInvariants  inductive invariants of the four above, for OrderBookProofs
    ReplaySources        the two data sources of the live arena
      LiveArena          requests, scheduler and comparisons on one running market
    ReferenceArena       the Python arena: its lock, its loop and its files
    TournamentTally      what the tournament metrics promise
    TournamentMetrics    the metrics of tournaments
      Tournament         request threads around one file per tournament; implements TournamentTally
    ExperimentJobs       manifest and job rows under concurrent requests
    Detectors, BatchEvaluation
      BatchJob           local batches of an experiment, planned, played, written and copied
    AbuseScenario        scenarios that a generator may only describe
      SurveillanceEndpoint
        EndpointAnswers  the routes of the endpoint
    EvidenceArchive
      NebiusCalls        callers of the client, composed with the endpoint and the archive
    LobsterPairs         checks and conversion of a pair of files
      DataIngestion      requests and background tasks
    <Component>Proofs    theorems; MC<module> and its .cfg files are instances for TLC

An operator named `...` with a comment `mutant:` before a definition is a plausible mistake in that
definition; no specification uses it.

**BookOps** (`IntegerOrderBook`, `BookMutation`; `order_book.py` and `matching_engine.py` have the same
rules, and the map names the one the definition was read from). A book is a record of `levels` (per
side, a function from prices to sequences of orders) and `orders` (the index). `<Operation>Events` is
what an operation reports to its listener. Left out of an order: owner and scenario lineage, which no
operation branches on. Kept: the timestamp, because level updates compare whole orders to decide
whether to report. The one difference between Java and Python is in `updateAgentLevel`: Java looks up the
order it replaces in the index (`UpdateAgentLevel`), Python only on the level it writes to
(`UpdateAgentLevelHere`); `NoForgottenOrder` says that in a run this never makes a difference. `Match` is written without recursion, by what an aggressor has met before a position
(`PositionsAhead`, `Traded`), so that it can be proved about; **MatchLoop** has the two nested loops of
the code, one iteration a step over the prices not looked at yet (`unlooked`, the best of them next) and over the queue of
one level (`walked`, `updatedQueue`), and is checked and proved to compute exactly it from every book the operations leave (`StartAssumption`). Level ids contain the price as text: `PricesAssumption`
says that this text tells the prices apart, which holds for ticks of at least ten nano units;
`IdsAssumption` says no client chooses an id of the form `l2-side-price`.

**OrderBook**. `SubmitLimit`, `SubmitMarket`, `SubmitCancel`, `SubmitModify` are the branches of
`submit`, with the rejection of a resting id after its executions were recorded; the other actions are
the direct calls. **EventFeed** adds a reader who keeps a book from events alone; no line of the
repository is this reader, so its definitions are external.

**KernelRun** (`JavaSimulationKernel`, `NormalAgentPhase`, `ScenarioProgram`, and the agents and scenarios
of the backend). `phase` is the position in the loop and `pending` the operations it still has to
perform, decided from the book the phase started with. Numbered agents are one noise trader with the
code's schedule and one taker that may act in any tick, which covers every schedule of takers.

**ReplaySources** and **LiveArena** (`LiveArenaService`). A batch of CSV records is chosen in the order in which the service sorts it. Its methods are synchronized, so each request and each scheduled
tick is one action; a comparison holds the monitor for many ticks, and `script` is what is left of its
calls. The book is reduced to `resting`, the abuse orders in it, which trades may take away, and
`applied`, the records written to it. Which detectors fire is free. Loads may throw where they read
files, and with `JournalMayFail` so may launches and ticks; `torn` is a history variable that remembers a
request which threw half-way, such as the launch in a hybrid run whose data set is gone (`DanglingLaunch`), which counts the scenario first.

**ReferenceArena** (`arena/engine.py`, `scenarios/controller.py`). `loop` is where the loop task is:
between ticks (`asleep`), waiting for the lock (`queued`), or awaiting the agents with the lock held
(`deciding`). `waiting` is the fair queue of `asyncio.Lock`. `Build` is `_build_state`, which most requests end
with; it persists the label and the incidents, and an append may fail at each of them (`cut`).
`StreamFails` and `TickFails` are the places in a tick where an append may fail. `stop` cancels the task
wherever it awaits.

**Tournament** (`detector_tournament.py`). A write of `tournament.json` is two steps, since the file is
truncated before it is filled. `at` is a thread's place in `queue_tournament`, `complete_queued_tournament`
or `refresh_tournament`. **TournamentMetrics** is the class of metrics, one action per call under its lock,
with a bounded memory of ended tournaments. **TournamentTally** is the abstract specification: a tournament
is in flight or counted and never both, and not counted again while it is remembered.

**ExperimentJobs** (`nebius_orchestrator.py`, `manager.py`, `repository.py`). No request holds a lock:
`worker[w].copy` is the manifest a request read and will save, `rows` the job rows a refresh read and will
write back. A submission and a batch stamp their job when they begin (`RowFor`), then run a command or write files for minutes, and only then append
the row (`AppendRow`) and save; other requests go on in between. `remote` is the provider, external. The history variables say what the properties are
about: `appended`, `nth` and `behind` when a row was appended and which rows were there when its job began, the others what confirmed a
completion and whether requests met.

**BatchJob** (`run_batch_experiments.py`, `smart_batch_runner.py`, `manager.py`, `artifact_normalizer.py`,
`aggregator.py`). A process takes runs into its pool, writes its five files one after another, each emptied
before it is filled, and is copied if it ended well. A directory is a function from the names of the files it has. What a run gives depends on the run alone.
**BatchEvaluation** has the plans (`run_planning.py`), the evaluation against ground truth and the rates;
**Detectors** the features and scores, over ten-thousandths, the precision the code rounds to.

**AbuseScenario**, **SurveillanceEndpoint**, **EndpointAnswers** (`scenario_generator.py`, `surveillance.py`,
`endpoint/app.py`). Answers are records; `content` says whether the model, a template or both wrote the texts, which
no field of the program says: it is what the reported `model` and `reason` are checked against. A valid answer of the model may leave strings
empty, and the merges put the template's text there (`FromModel`): an answer reported as the model's may have texts of both, or of the template alone.
The events of a scenario carry their prices, which the endpoint's template and the backend's generator compute differently.
**EvidenceArchive** and **NebiusCalls** (`client.py`) are composed: a call posts, writes its record, uploads
it, registers it under the lock of the archive, and goes on to the next route, the mock or the error. Synchronizations upload and download
one at a time under that lock, release it, list the records again and register them while the next one may begin.

**LobsterPairs**, **DataIngestion** (`lobster.py`, `service.py`). `Validated` reads a pair row by row as
`validate_pair` does, `Converted` as the conversion does, from the rows it can convert (`Convertible`); both are recursive functions of the row. A request lists candidates (`Ask`), is
accepted under the job lock (`Accept`) and its task reads the files three times, to check them (`Start`), for the digests that name the dataset
(`Identify`) and to convert them (`Convert`), before `WriteManifest`, `Rename`, `Finish`. `Deliver` replaces the pair of a folder at any moment, also
between two of these readings.

## What TLC checks

| Run | Question | Properties | Distinct states |
| --- | --- | --- | --- |
| `order_stream` | submitted orders with modification, two timestamps, and a reader of their events | `FeedKnowsQueues`, `OrdersDoNotCross`, `NoTradeThrough` | 32 793 |
| `all_operations` | every operation in any order, with a reader | `IndexMatchesQueues`, `FeedKnowsOrders`, `TradesConserveLots` | 43 967 |
| `match_loop` | the loops of match on every small book | `LoopsComputeMatch` | 27 805 |
| `kernel_run` | whole runs, normal and under each scenario | `ReferenceSeparates`, `LadderRestored`, `NoAbuseLeftBehind`, `NoForgottenOrder` | 113 966 |
| `live_arena` | requests, ticks and comparisons in any order, with failures | `RecordsAppliedOnce`, `ControlRunsClean`, `IncidentsTellScenariosApart`, `ReplayEnds` | 602 651 |
| `scenario_windows` | all four scenarios for the length of their windows | `ActiveScenarioCleansUp` | 3 523 378 |
| `reference_arena` | requests in the middle of a tick, appends that fail half way | `PublishedWhole`, `OneLateTick`, `StreamFileComplete`, `ScenarioRowsOnce` | 625 602 |
| `tournament` | two threads, two tournaments, requests that throw, a restart | `GaugeCountsInFlight`, `LocalEnds`, `KeepsTally` | 666 365 |
| `experiment_jobs` | two requests at a time on one experiment | `RowsInOrder`, `StatusTellsBatch`, `CompletionConfirmed`, `OutcomeKeptAlone` | 8 615 086 |
| `local_batches` | two batches, or a batch and a copy, in one directory | `FilesTellTheRuns`, `CompletedAloneIsWhole`, `MixExact`, `ScoresAgree`, `AlertsNeedEvidence` | 1 186 128 |
| `nebius_calls` | a caller over every route, failing posts and uploads, two synchronizations | `HonestProvenance`, `SameTruthEverywhere`, `RegisteredOnce`, `CallsEnd` | 709 525 |
| `data_ingestion` | two imports, files replaced between readings, a failed write or a restart | `DatasetsAreWhole`, `GenuineIsAccepted`, `ImportingHasTask`, `ImportsEnd` | 600 020 |

`KeepsTally` is a refinement: `Tournament` implements `TournamentTally` with `inFlight` the tournaments that have
an active mode and `counted` those that the metrics remember.

**What the properties leave out, on purpose.** Several hold only under a condition that the code does not
establish, and the condition is part of the property: `OutcomeKeptAlone` and `CompletedAloneIsWhole` speak
of requests that met no other, because two refreshes, or two batches in one directory, do lose rows and mix files;
`ControlRunsClean`, `ActiveScenarioCleansUp` and `IncidentsTellScenariosApart` exclude the states left by a request that threw half-way
(`torn`), `RecordsAppliedOnce` only a replay whose file can no longer be read; `LocalEnds` allows a fault, after which nobody picks up a running tournament; `GenuineIsAccepted` is about pairs whose orders do
not change while they are out of sight. `RowsInOrder` is the order of the appends; it is the order in which jobs were started only for jobs
that did not overlap, since a submission that is stamped first may be appended last. `DatasetsAreWhole` always excludes rows of another window, of
another place or twice; that all rows are there, as many as counted, and that the audit passes them, it says when the files were the same at the three readings (`Steady`),
because a dataset whose files were replaced during its import has the rows of one delivery under the name and the count of another.
`HonestProvenance` names three exceptions: the two direct routes also report a model that answered in another shape; the alert route passes no
reason on; and an answer of the model that leaves every string empty is reported as the model's over texts of the template.
`SameTruthEverywhere` says the events agree but for their prices, in which the two copies of the template differ, and compares the risk of an incident only where the model did
not judge it and where it lies within the limits of the local team.

**Bounds.** *Book*: `MaxOrders` caps the resting orders (constraint `BookBound`): three make a queue with a middle, two
levels with one longer, or both sides occupied; two prices a side suffice for better, equal, worse and for a
crossed book; quantities 1 and 2 give fills that are exact, partial on either side and spread over two orders; two
timestamps let a modification change an order only in its time. `match_loop` starts from every book with up to two orders
of 1 or 2 lots at each of two prices, crossed ones included, with aggressors of 1 to 5 lots, so that a side is
used up to the last lot and beyond. *Kernel*: ten ticks reach every stage; a ladder of two levels is consumed
in part by a taker of three lots and in whole by one of seven, together with wall and layers. *Live arena*: seven CSV records, some of
which share a batch and some a time, and three LOBSTER rows, so that the last batch is short; two launches let a
scenario replace another and a comparison renumber them; `MaxTick` bounds the synthetic market only. `scenario_windows` has records
one at a time for the longest window and neither detectors nor failures. *Reference arena*: two ticks, a reset and two
scenarios show rows of two streams and of two scenarios; one waiting call suffices to be served between flag and
lock; two stages, a tick apart, change the label in each tick; one append fails. *Tournament*: two tournaments with a memory
of one (`DedupLimit`), so that the memory forgets; two refreshes race each other; one fault. *Experiments*: four requests
of two threads, two jobs: enough for two submissions that are appended against their order, or for a submission, a refresh and a mark that overlap with
a collection after them. *Batches*: three runs in pools of two threads, two requests, one process that dies; the readings lie at both
sides of every threshold and cut-off; three runs and weights 0, 2, 1, 1 have a tie of remainders. *Calls*: three errors reach
the last of the three routes and its failure; one caller, since calls share nothing but the archive (the theorems are about any number); two
synchronizations overlap each other and the call; a model fills all, some or none of the strings; durations lie where the windows of truth change shape; prompts of 50, 80 and 200 characters with a limit of 100 fit, are trimmed and
do not fit. *Ingestion*: the recorded pairs reduce, trade, delete, push out of sight and
bring back; the three windows are the whole session, a part of it, and one that goes beyond it and is refused; two deliveries put a pair there and replace it at any moment.

Constants named `Max...` are bounds of the model, except `MaxTicks` and `MaxAgentQuoteLots` of the kernel's configuration, `MaxWorkers` (threads of a
batch) and `MaxUserPromptChars`.

**Fairness.** `LiveArena` assumes weak fairness of `ScheduledTick`, which the scheduler calls with a fixed delay as long as the service
lives, and of the thread inside a comparison; no request is ever owed. `Tournament` assumes that a thread which began goes on (its
runner and its commands have timeouts); neither requests nor the provider are owed anything. `NebiusCalls` assumes the same of callers
and of each synchronization that began, whose commands have timeouts too. `DataIngestion` assumes that a task goes on, and strong fairness of
getting the import lock: a `threading.Lock` is not fair by contract, but tasks that compete for it are as few as the candidates, and
each holds it for one import. The other specifications state no fairness. Deadlock is checked in the two runs of the book and the two of
the live arena; elsewhere it is off, because the bounded system stops when its requests are used up.

## What TLAPS proves

For every value of the constants that satisfies the named assumptions, unless said otherwise:

| Theorem | Property | Assumptions |
| --- | --- | --- |
| `OrderBookProofs!TypeCorrect`, `IndexCorrect` | `TypeOK`, `IndexMatchesQueues` | `PricesAssumption`, `IdsAssumption`, `InputsAssumption` |
| `OrderBookProofs!NeverCrossed`, `OrdersNeverCross` | `NotCrossed` of plain orders; `OrdersDoNotCross` of every book | the same |
| `OrderBookProofs!TradesInOrder`, `LotsAreConserved` | `NoTradeThrough`, `TradesConserveLots` | the same |
| `OrderBookProofs!EventsTellOrders`, `EventsTellQueues` | `FeedKnowsOrders` of all operations, `FeedKnowsQueues` of submitted orders | the same |
| `OrderBookProofs!MatchIsComputed` | `LoopsComputeMatch` | the first two, `StartAssumption`, `CallAssumption` |
| `OrderBookProofs!ReferencePriceSeparates`, `TicksRestoreLadder`, `AbuseIsRemoved`, `ReferenceDoesAsPort` | `ReferenceSeparates`, `LadderRestored`, `NoAbuseLeftBehind`, `NoForgottenOrder` of every kernel run | the first two, `LadderAssumption`, `ReachAssumption`, `ParticipantsAssumption` |
| `TournamentProofs!GaugeTellsTruth` | `GaugeCountsInFlight` | `MetricsAssumption`, `TournamentAssumption` |
| `TournamentProofs!RunnerIsExclusive` | one thread in the local runner | the same |
| `TournamentProofs!MetricsKeepTheirPromise` | `KeepsTally`, the refinement | the same |
| `ExperimentProofs!RowsKeepTheirOrder`, `StaleCopiesAgree`, `CompletionIsEarned`, `OutcomesStayAlone` | `RowsInOrder`, `StatusTellsBatch`, `CompletionConfirmed`, `OutcomeKeptAlone` | `JobsAssumption` |
| `BatchProofs!PlansAreExact` | `MixExact` | `TotalPositive`, `WeightsCount` |
| `BatchProofs!AlarmsShowTheirReason` | `AlertsNeedEvidence` | `SessionsMeasured` |
| `BatchProofs!FilesTellEveryRun` | `FilesTellTheRuns` | `TotalPositive` |
| `BatchProofs!LoneBatchesAreWhole` | `CompletedAloneIsWhole` | `TotalPositive`, `SessionsMeasured` |
| `BatchProofs!ScoresAlwaysAgree` | `ScoresAgree` | `SessionsMeasured`, `NoneIsNoRate` |
| `IngestionProofs!OneTaskImports`, `RegistryIsWhole` | `ImportingHasTask`, `DatasetsAreWhole` | `IngestionAssumption` |
| `ArenaProofs!AtMostOneLateTick`, `StatesShowWholeTicks`, `StreamFileTellsTheStreams`, `RowsTellScenariosOnce` | `OneLateTick`, `PublishedWhole`, `StreamFileComplete`, `ScenarioRowsOnce` | `ReferenceArenaAssumption` |
| `CallsProofs!RecordsRegisteredOnce`, `AnswersTellTheirAuthor`, `TruthIsTheSameEverywhere` | `RegisteredOnce`, `HonestProvenance`, `SameTruthEverywhere` | `NebiusCallsAssumption` |
| `LiveArenaProofs!RecordsOnceInOrder`, `ControlsStayClean`, `ScenariosCleanUp`, `IncidentsStayApart` | `RecordsAppliedOnce`, `ControlRunsClean`, `ActiveScenarioCleansUp`, `IncidentsTellScenariosApart` | `SourcesAssumption`, `ArenaAssumption` |

What the assumptions ask for is what the code gets from elsewhere: prices are positive and finitely many, timestamps of a data set never go back
(its validation), the rows of a delivered pair have the types its parser produces, stages are listed from the first tick on, weights are not all
zero, requests to the client have the shape its callers give them, features lie in the ranges in which the arena measures them.

**The book.** The inductive invariant says the book is `Good`: typed, every queued order indexed and every indexed order queued, each
id queued once, no level empty, and an order with a level's id on that level. None of its parts is inductive
alone: removing an order by id from one queue is right only because the id is in no other; a level update puts its id into the index
without a check only because that id can be nowhere else; types of queues after matching need the index. Operations are built from four
queue changes with a lemma each (`AppendedGood`, `RemovedGood`, `ReplacedGood`, `RemoveLevelGood`). Matching (`MatchGood`) counts lots by
cardinality: `QuantityGrows` shows that what lies ahead grows along a queue, `UsedUpFromTheHead` that only orders behind used up ones are used
up, `QueueAfterFacts` that what is left is the tail of the queue. `CrossedAreUsedUp` then shows that an order of which something is left
has used up every opposite order within its limit, so the level it rests on crosses nobody. Price-time priority (`TradesInOrder`): positions are
ordered by what lies ahead of them (`AheadIsAnOrder`), the i-th execution is of the position of rank i (`ReachedFacts`), and what lies ahead of a traded
position is used up (`AheadIsUsedUp`) and leaves the index; that no other operation reports an execution is the other half (`ExecutingSteps`). Conservation
(`LotsAreConserved`): the lots of a side are counted by the ids of the index (`QuantityById`), matching leaves a subset of them (`MatchLots`), and the lots
the executions report are in bijection with those that are gone (`ExecutedLotsLeave`) and, when something is left to rest, with all that the order
crosses (`ExecutedIsFilled`). Of the order itself the property says that what it traded and what rests are together a quantity an order may have.

**The loops of match.** `Match` says in one expression what the two loops of the code compute, and the theorems above reason with the expression, so
they say something of the code only as far as the two agree. `LoopInv` determines everything the loops have done from the positions they have
met (`Met`): the queues of levels that are done are those of `Match` and the others untouched (`HalfMatched`), the index is that of the positions met, the
executions are the first of `MatchEvents`, and what remains is the quantity less what was met. In the middle of a level the index is ahead of the
queue; `KeptUpTo` is the queue as rebuilt so far. Since prices come best first and queues from their head, what is met before a position is just what
is ahead of it, so each fill has the size of `Traded` and comes in the place of its rank (`NextEvent`). At the end everything not met is beyond the limit or behind a position
that left nothing of the aggressor (`AllMet`, `HalfMatchedEnd`).

**Readers of the events.** `Reading` is a recursive function of the events already read; `ReadingFacts` shows by counting up that it exists, `ReadBooks` and
`ReadIndex` that it follows any series of books, or of indexes, of which each event takes one to the next. For the executions of a match that series is
the book after the first fills (`FilledBook`, `FilledIndex`). What is reached before a traded position is exactly what is ahead of it, and used up
(`ReachedBefore`), so its order is at the head of its queue when its execution is read, and is taken off or reduced there (`FillRead`); after the
last fill the series ends in `Match` (`AllFilled`). With the index alone the argument needs no places in queues, which is why `EventsTellOrders` also covers the level
operations, whose reports claim places that are not so.

**Kernel runs.** None of the four invariants is inductive: what a tick does was decided from an older book. `RunInv` says of the book, of the
operations still to come and of the stage what makes any interleaving of them harmless. Every id has one home, a side and a price that depend
only on the plan of the run (`HomeOf`, `OneHome`): levels and ladder have their own, walls and layers the one the scenario gave them, a maker's or
a noise trader's id contains its price. Hence an order is never moved by an update, which is `ReferenceDoesAsPort`, and every order rests where its side
may stand (`Allowed`), which is `ReferencePriceSeparates`. The exception are the bursts of quote stuffing, levels beyond the ladder that the
same tick drops; `OrderFits` allows such an order only while its drop is still pending (`DropComes`). `PerformedAdds` shows, operation by operation, that only fitting orders
are added. `StagesFit` ties the abuse orders in the book to the stage and to the cancellations that are still pending, and `RepairComes` the levels of
the ladder to the top-ups still pending; a top-up of one level never takes from another (`TicksRestoreLadder`). Prices of the ladder, and how far walls, layers and quotes may
reach from it, are bounded by `ReachAssumption`, which asks that the price grid contains them.

**Live arena.** Every step, from whatever request, tick or element of a comparison it comes, is of one of six kinds (`StepKinds`): it renews the
runtime, polls, ticks, launches, zeroes the counters or breaks, which leaves a torn arena (a load, tick or launch that throws, the launch without a data set included); each invariant is then shown kind by kind. All rest on `Shape`: a CSV and a
LOBSTER source are never loaded together, and a replayed file stands where its batches left it. *Records* (`AppliedInv`): what was applied is a run
of the records handed out, in an order that never goes back in time nor within a participant; a batch extends it (`Extended`), because records of
an earlier batch are never later than those of the next. That a batch of records sharing times and participants has an order at all (`BatchExists`) is an
insertion, record by record. *Control runs and windows* (`CleanInv`): the control part needs that no launch reaches a historical source, the
clean-up that the id of a scenario's order is the same when it is cancelled as when it was placed, although a replay and the synthetic
market number them differently. *Incidents* (`NumberInv`): a comparison zeroes the counters while old incidents still stand, so the numbers are right
or a load comes next, which forgets the incidents (`IsScript`, `LoadHappens`).

**Reference arena.** `LateInv` shows why only one tick can be late: the flag is tested between the ticks and again under the lock. `PublishInv` says
that the log is in the order of its ticks and that the published state counts a front of it that ends between two ticks. `FileInv` follows
the file row by row: either everything up to `persisted` is written, or one row more, and each such row was paid for with a failed append. `RowsInv`
ties label rows and incident rows to the scenario in memory, whose id the counter never gives out again.

**Tournaments.** The gauge is right because a counted tournament is never active (`CountedAreOut`) and because an
observation writes the gauge of the mode a tournament leaves as well as of the one it enters; both need the types of what threads carry.
For the lock: whoever is in the runner or about to leave it holds the lock (`HoldersHold`). The refinement maps `Observe` to entering, counting or nothing, and every other
step to a stutter.

**Experiments.** A request may save any copy it once read, so an invariant about the manifest alone is not inductive. `IInv` says of every
copy in flight what it says of the files: its rows are in order and its status has a ground. A row that is still to be appended has a number
no row has (`nth` is zero); an append gives it the largest so far, and whoever began earlier had fewer rows behind it, so neither can contradict the rows that are there. That stays true because what it
rests on only grows (`Grows`): jobs that started stay started, jobs that are lost stay lost, what confirmed a completion stays. As long as no
two requests met (`AloneInv`), at most one is at work, and what it carries knows every job that was settled.

**Batches.** `CountsExact` is the method of largest remainders: remainders add up to the runs that are left (`RemaindersAddUp`), fewer
than four; as many difficulties rank among the first as runs are left (`RankedLeft`), and one without remainder is not among
them (`NoneForNothing`). For the detectors, each of four lemmas bounds the score without its evidence below the alarm. That features have the ranges
of `IsMeasured` is an assumption about the sessions, which TLC evaluates for the ones of the run: they are folds over a book and over events.
`FilesInv` says of each process how far it is with its five files: it has emptied those up to its place, so a manifest beside a missing file
cannot come from any interleaving. What a lone batch finds may be torn, so `AloneInv` says of a request that met no other only what it has passed (`OnItsWay`):
the files it has filled are whole while it writes, all of them and the copies it has made while it is copied. No step of another can
disturb this, since whoever begins while it is under way has met it (`OneSteps`). The counts of the summary are read off the whole files; `JoinedRows` counts up
the recursion of `FlattenSeq`. `ScoresAlwaysAgree` is about a pure function: the four rates of a confusion matrix and the two ways to tell that an
alarm was in time, for every label with its open ends.

**Calls.** `RegisteredOnce` needs nothing but the lock of the archive around the test and the append, for any number of synchronizations. For the answers, `IsCall` describes what a
call holds at each of its steps; what each route of the endpoint, the direct ones too, the templates and the mocks answer is a lemma per route
(the texts of a merge are those of `FromModel`, whatever strings are empty; events are compared without prices, `Unpriced`), and the fallback
from one route to the next keeps the request, so the truth of the mock is that of the route that failed.

**Ingestion.** `Accept` decides under the job lock from the job, not from the status that was listed; that is the step `OneTaskImports` rests on.
`WholeInv` says of a request in hand, and of every dataset, what each reading found by itself: the files of the first passed the checks and had as many rows as
it counted (`WasChecked`), and what is written comes from the files of the last (`WasConverted`), whatever was delivered between. Only where `Steady` says that these
files are the same are the readings related: `CheckedIsWhole` is an induction over the rows. Both are recursive functions of the row, `Kept` relates
them at each row, and the least row at which they would differ does not exist.

Induction over data is thus possible where it is needed, from the least element of a set of numbers (`LeastOf` and `UpTo` in `LiveArenaProofs`, and the same
in `IngestionProofs`); it is long, since the library's induction schemes cannot be instantiated. Out of the prover's reach are liveness under fairness
(`ReplayEnds`, `LocalEnds`, `CallsEnd`, `ImportsEnd`).

Only model-checked, besides these: that genuine pairs are accepted
(`GenuineIsAccepted`), a statement about every pair a venue can produce, for which the run has the recorded ones.

## Where the code and its documents disagree

- `IntegerOrderBook.java:263` reports that a level update kept the priority of an order it has moved to the back of its queue
  (`:257`), and reports nothing when the order is otherwise unchanged; `docs/determinism-contract-v1.md:48` and `docs/java-order-book.md:8` promise that
  it stays. Hence `FeedKnowsOrders` for all operations, but `FeedKnowsQueues` for submitted orders only.
- Liquidity evaporation says "spread widened after depth collapse" in the tick in which the repair, which runs before the snapshot, closes the spread again;
  `ARD-0016:203` lists the widening as what the scenario does. `LadderRestored` is the repair.
- `LiveArenaService.java:303`: a refused load has changed the kind of source before it fails, so a control run may have a
  scenario; `ARD-0023:187` says it has no ground truth. `ControlRunsClean` holds without a refused load.
- `README.md:227-228`: records of a batch are applied by time and participant (`LiveArenaService.java:479`), in source order only per participant.
- `docs/architecture.md:171`: the gauge of tournaments in flight "show[s] queued or running work"; after a restart it shows none, whatever the
  files say.
- `docs/CHANGELOG.md:198`: jobs are not marked completed "until status plus artifact collection confirms completion"; collecting marks the latest open
  cloud job, and the artifacts may be those of a local batch or of an older job. `CompletionConfirmed` says what is left of the promise.
- `nebius_orchestrator.py:655` takes the first directory that holds any expected file. If a synchronization left a part in `cloud-batch`, it is
  looked at from then on, and never synchronized again.
- `docs/calculations-explanations.md:939`: a rate with denominator zero is zero; `ground_truth.py:8-17` gives `None`. The batch gives a
  normal market with false alarms no precision, where the confusion matrix gives zero.
- `README.md:463` asks for an "explicitly labeled" fallback; `endpoint/app.py:383-435` names the model and no fallback
  reason over a deterministic text when the model answered in another shape. `HonestProvenance` states this exception for these two routes; no client of the backend uses them.
- Where the model leaves a string empty the endpoint's merges keep the template's (`endpoint/app.py:1003-1006`, `:1127-1135`, `:1374-1385`) and still report `local_vllm`
  without a reason; an answer whose strings are all empty is the template under the model's name. `HonestProvenance` states the exception.
- The endpoint prices the events of a scenario by their number (`endpoint/app.py:1451`), the backend by number and side
  (`scenario_generator.py:286`, `:301`): one request gets other prices from a template of the endpoint than from the local mock.
- Jobs that overlap are listed in the order in which their commands or batches ended (`nebius_orchestrator.py:89-112`, `manager.py:118-169`), so
  the last row need not be the job started last. `RowsInOrder` says what holds.
- `lobster.py:246`, `:376` and `:395` read the files of an import three times, with nothing that keeps them from being replaced in between: the manifest may
  count and name one delivery over rows of another.
- `docs/architecture/README.md:32`: a dataset is "atomically" registered; its temporary directory is listed from the moment it has a manifest, with a path that
  vanishes on the rename. What is listed is whole (`DatasetsAreWhole`).
- The import accepts a locked book with a warning that the later audit rejects. An order reduced while it is out of
  sight makes a genuine pair refused. A request for another window of a candidate that is being imported is answered as if accepted, and dropped. Files that
  are delivered again with the same names and sizes count as imported.
- `evidence_archive.py:226` writes "uploaded" before the upload begins; after a crash no synchronization uploads the record.

## Not modelled

Whole components: metrics, determinism and hashes of the kernel (arithmetic on reals and bytes; the parity corpus covers them); the orchestrator of
agent runners (it drops answers that come late or for another tick; the models let agents answer or not); the WebSocket handler and the gRPC
boundary (no state beyond sessions and counters); settings, routing, reports and queries; the frontend, which renders; scripts and deployments.

Inside the modelled ones: overflow checks of lot sums, owner and lineage of orders, event metadata; cursors of readers of the live event log;
numbers a comparison reports; the numbers of quotes and the random streams of agents; scores in incidents; durations and scenario counts
of tournaments; texts, prompts' wording, costs and redaction; reports of batches and uploads of their directories; statistics of the hybrid comparison;
Parquet, hashes, file names; a crash of the backend while it records evidence or serves an experiment. Parsing of data sets is a
load that succeeds or throws.

## Plan

1. `ArenaReader` on `LiveArena`: cursor readers across resets, refining an abstract gap-free stream.
2. A crash between the writes of the evidence archive, and resumed uploads.
3. Orchestration of agent runners with deadlines.
4. Proofs: `GenuineIsAccepted` from what a venue can produce instead of recorded pairs.

## Running

    tlc -workers 2 -config MCKernelRun.cfg MCKernelRun
    tlapm OrderBookProofs.tla

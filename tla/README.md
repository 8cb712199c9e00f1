# Mac Power Lab: TLA+ models and proofs

Models of the Go engine of Mac Power Lab (`internal/`) and of the Python programs it grew out of (`legacy/`), the TLC runs that check them on small instances, and TLAPS proofs that hold for every value of the constants. Every definition is translated from the source at the lines `PROJECT.json` names under `map`; the documentation of the repository is only quoted where it disagrees with the code ("Findings" below).

Check a model with `tlc -config <run>.cfg <Module>`, a proof with `tlapm <Module>.tla`.

| File | Contents |
| --- | --- |
| `SessionStore.tla` | the files of one monitoring session: `internal/store/store.go` |
| `SessionLog.tla` | abstract specification of its sample stream |
| `MonitorManager.tla`, `MCMonitorManager.tla` | the life cycle of one collector manager: `internal/collector/manager.go` |
| `MonitorLife.tla` | abstract life of a monitor: what the manager implements and the engine relies on |
| `Engine.tla`, `MCEngine.tla` | the operations behind the local API: `internal/server/server.go` |
| `Values.tla` | the values of the Python programs: dictionaries, `None`, what `float()` rejects |
| `PowerReading.tla` | one reading of the legacy monitor, as pure operators: `legacy/mac_power_watch.py` |
| `PowerWatch.tla`, `MCPowerWatch.tla` | its loop, trackers, event detector and log |
| `AppActivity.tla` | the applications' share of a row's power, as pure operators: `legacy/app_power_attribution.py` |
| `AppPower.tla`, `MCAppPower.tla` | its sampling thread, history and session log |
| `TestRunner.tla`, `MCTestRunner.tla` | the runners of the stress tests: `legacy/friendly_test_ui.py` |
| `Scorecard.tla` | summary of a test and card of a benchmark, as pure operators: `legacy/generate_test_run_summary.py`, `generate_battery_scorecard.py` |
| `BenchmarkRecords.tla`, `MCBenchmarkRecords.tla` | how monitors, tests, summaries, the history of scores and its repair share their files |
| `SessionStoreProofs.tla`, `MonitorManagerProofs.tla`, `EngineProofs.tla`, `TestRunnerProofs.tla`, `PowerWatchProofs.tla`, `AppPowerProofs.tla`, `BenchmarkRecordsProofs.tla` | proofs about the seven; the first also shows that the store implements `SessionLog` |
| `SequenceFacts.tla` | lemmas the proofs share: sequences, induction, sums over sequences and finite sets |
| `*.cfg` | one TLC run each |
| `PROJECT.json` | components, runs, mutants, map to the source, findings, hazards, theorems |

Definitions commented `Faulty:` are not part of any model. Each is a plausible bug in the definition below it; every property of every passing run is violated when one of them takes its place, which shows that the property says something about the code.

## The system and its components

One Go process (`cmd/macpowerlab`) is a command-line tool, a terminal UI or the backend of a SwiftUI application. It samples the battery and `powermetrics`, attributes power to applications, records sessions, runs benchmarks, and writes reports.

| Component | State it keeps | Operations | What makes it correct |
| --- | --- | --- | --- |
| **Session store** `internal/store` | four JSONL writers with buffers and sticky errors, an optional SQLite mirror, the pending sample, the timestamp gate, `session.json` | `OfferSample`, `WriteSample`, `FlushPendingSample`, `WriteEvent`, `WriteTestRun`, `Flush`, `Snapshot`, `SnapshotDir`, `Close` | no duplicate or reordered sample after a partial failure; the newest sample survives every failure; a snapshot is a consistent cut; a `Close` that loses records has said so |
| **Monitor manager** `internal/collector/manager.go` | cancel function, termination flag, run goroutine, flusher, process collections, two public channels | `Start`, `Stop`, the sampling loop, shutdown | one session per manager; nothing sent on a closed channel; store and channels closed last; `Stop` waits for everyone who uses them; the newest sample wins |
| **Sampling** `manager.go`, `cadence.go` | deadlines for live, log, attribution and battery samples, freshness of each source | compose, persist, status differences | no burst after sleep, no sample composed from a stale source without saying so |
| **Powermetrics supervisor** `internal/collector/powermetrics.go` | child process, back-off, candidate arguments | start, read frames, restart | restarts are bounded in rate; cancellation ends the child; an oversized frame does not stop sampling for good |
| **Battery sampler**, **process collection** | latest reading; one collection at a time | sample on demand | freshness; no overlap |
| **Engine** `internal/server` | configuration, published manager, benchmark run, last session, life-cycle mutex | `StartMonitor`, `StopMonitor`, `startPlan`, `StopBenchmark`, `ApplyRuntimeSettings`, `GenerateReport` | one monitor at a time; settings, document, priority and monitor agree after every failure; a benchmark is not disturbed; no request blocks the others for ever |
| **Runtime settings** `internal/config` | the JSON document and its profiles | validate, reconcile, load, save atomically | a failed save has no effect; intervals stay consistent |
| **Benchmark controller** `internal/benchmark` | run lock, phase, progress, child commands | `Run`, phases, workload groups, clean-up | one benchmark per machine; no workload outlives its phase; every phase is recorded |
| **Process priority** `internal/priority` | the process's nice value | `Set`, `StartNormalized` | the backend's own priority is restored, or the child is not left behind; modelled in `Engine` as far as the settings go |
| **Attribution** `internal/attribution` | energy per application, baseline | add a sample, expire | bounded table; energy conserved over gaps and expiry |
| **Report, archive** | staged directories, `latest.json` | publish, pack | a reader never sees half a report |
| **Command execution** `internal/execx` | process groups | `Run`, `Start`, `StopGroup` | bounded output, whole group killed |
| **SwiftUI application** `swiftui/` | backend process, refresh loop | launch, poll, stop | one backend, no stale response shown |
| **Legacy power monitor** `legacy/mac_power_watch.py` | trackers of the session, phase and health, the detector's last source, adapter and load, timers of the warnings; two worker threads; a CSV file, an event file, raw snapshots | one iteration: read, enrich, detect, attribute, draw, write; workers publish answers | the events tell what the rows show, whatever failed in between |
| **Legacy application power** `legacy/app_power_attribution.py` | the sampling thread's snapshot, a cache of names, quiet rows for each source, totals, a log and two summaries | sample, merge, attribute, log, summarize | the shares are the measured power; every sample counted once; the summaries are those of the log |
| **Legacy test runner** `legacy/friendly_test_ui.py` | lock file, phase file, record of the test, list of tests, workload | take the lock, mark, run, record, list, give back | one stress test at a time; a test is listed once and truly |
| **Legacy summaries and scores** `generate_test_run_summary.py`, `generate_battery_scorecard.py`, `repair_battery_score_history.py` | summaries, history of cards, comparison | summarize, score, compare, repair | energy and time counted once; a score of the parts that are there; no card lost |
| **Command line, terminal UI, plist and parity, data model, stressors, scripts, other legacy programs** | little or none | | see "Not modelled" |

How they interact: HTTP handlers call the engine; the engine creates managers and stops them, and runs a benchmark in a goroutine that calls back into the manager (`SetPhase`, `WriteEvent`, `WriteTestRun`) and the process's priority; the manager owns the store and calls it from the run goroutine, from the flusher and, through the engine, from report requests (`Snapshot`); reports read the files of the store up to the snapshot's limits. Everything hard is on these edges: which mutex is held during which call, what was read before it was released, which of several steps failed, and in which order goroutines end.

The legacy programs are processes of their own that meet only in `logs/`: the monitor writes rows, events and the application summary; a test runner marks its phase in a file the monitor reads, and looks for the monitor's log that was written last; the summary tool reads the list of tests and those logs; the score tool reads the latest summary and keeps the history; the repair rewrites it. No program locks what another one reads, except for the runner's lock.

## Modules and how they correspond to the code

**SessionStore.** Every public method holds `s.mu` for its whole body, so a method is one action; `Close` is two (`CloseSession`, `CloseFiles`), since `session.json` is replaced before the streams are flushed and the process can die in between. A later `Close` finds the store closed and returns nil whatever the first one lost (`CloseAgain`); `answers` is the set of what calls of `Close` on a store that is now closed have returned. A record is abstracted to its timestamp and takes two units of a file, so an odd length is a file that ends inside a record. `Put` and `Flushed` model `bufio.Writer` and `json.Encoder`: a write may leave any part of the buffer in the file, an error sticks, and everything after it is refused. `WriteSampleLocked` keeps the order of the code: sample row, gate, application rows, mirror. `PendingAfter` clears the pending sample by the gate and not by the error. The mirror is only "on" or "off", because the code drops it at its first error and goes on. `newest`, `clock` and `answers` are history variables: the newest sample the store accepted, what the collector composed, and what `Close` told. `SnapshotDir` is what another process does (the `report` command): it reads file sizes and holds no mutex.

**SessionLog** says what a session promises of its samples: an append-only log with increasing timestamps, a durable prefix that only grows, readers that see a prefix. `SessionStore` implements it (`ImplementsSessionLog`) under the mapping at the end of the module.

**MonitorManager.** The state of each goroutine is a variable: `call` for the callers of `Start` and `Stop`, `runPc` for the run goroutine, `flusher`, `collector`, and `sampler` for the powermetrics supervisor and the battery sampler. The samplers run under the session's context and write to channels of their own, which the loop reads (`ReportSamplerError`); they are in no WaitGroup, so a retired manager may still have them running. `Stop` holds `lifecycleMu` while it waits, with a time-out. The deferred shutdown of `run` is three actions because others can act between them: `Retire` (wait for the flusher and the collections, clear `cancel`, set `terminated`), `BeginCloseStore`, `FinishClose`. `publishLatestSample` is `TrySend`, `DropUnread` and `Resend`, with a reader in between. A send on a closed channel sets `panicked`.

**MonitorLife** is the life of one monitor from outside: idle, live, cancelled, retired, closed. It is the contract between the two larger models: `MonitorManager` implements it for `Seen` (`ImplementsMonitorLife`), and each `life[m]` of `Engine` follows it (`MonitorsLive`, proved as `EngineGivesMonitorsTheirLife`). In this way `Engine` composes any number of managers without their inner goroutines.

**Engine.** `lifecycleMu` serializes the operations that start or stop something; `pc` says where its holder is and `goal` for which operation. An operation that blocks or that others can observe half-way is several actions (`BeginStop`, `RunStopped`, `FlushAndCancel`, `AwaitMonitor`, `MonitorStopped`; `ApplyRunning`, `Restart`, `Adopt`, `PublishRestarted`, `Rollback`), the others are one. Every step that can fail has its failure: priority, save before and after the rename, flush, wait, start, restore. `want` and `told` exist for the properties: what a settings change is for, and what its caller was told. `GenerateReport` takes another mutex and reads under `e.mu`, then works without it: `BeginReport` and `CaptureReport`. `RootEnds` is the end of the serve context, which cancels monitors and benchmarks at any moment. A benchmark is its goroutine's life: running, cancelled or failed, done, gone; and what its children do to the process's priority. `StartNormalized` lowers the nice value of the whole process to 0, starts the child and puts the configured value back: `Normalize` and `RestorePriority`, with a failure of each of the three. `priority` remembers whether the nice value is the one that was asked for ("kept"), lowered for a child, or was lost on the way.

**PowerReading and PowerWatch.** A record of the program (`row`, the dictionaries of ioreg, pmset and system_profiler) is a record with the same keys; a key that is missing, a value that is `None` and one that `float()` rejects are different things, as in the code (`Get`, `GetNum`, `Float` in `Values`). `Update` is Python's `update`, `Merged` a dictionary put together of several that share no key; `Filter` is a list comprehension with a condition. `PowerReading` follows `collect_reading` and its helpers in their order; floats are integers in the units named at its head. In `PowerWatch` an iteration of the loop is one action, `Iterate`: the state of the trackers after a row is a function of the row, and `kind` chooses what raises: the reading, the n-th event of the detector (whose state has changed by then), the attribution, the drawing, the CSV line, the raw snapshot. The handler of the loop writes an event about it (`Handle`), which may raise itself, before the event or with the event in the buffer; that ends the loop. The machine may change between two commands of one reading (`seen`, `after`). The two threads that run `powermetrics` and `system_profiler` are `PmSample` and `SpSample`; they publish the name of an answer.

**AppActivity and AppPower.** `AppActivity` holds parsing, classification, the merge, the baseline and the shares. Sorting and selecting are stated by places in a list (`At`, `Descending`, `NthLeast` in `Values`), which the prover can unfold; the cache after each activity is a function of their number (`Caches`). A share is a part of a power rounded down (`Part`). In `AppPower` the sampling thread begins and ends a sample in two actions, between which the monitor may write any number of rows; `Row` attributes with what is published and writes the sample if it is new. A write has steps (`Complete` counts them: the line in the buffer, its flush, the two summary files); it may stop after each with an error, or with the end of the process. `close` has such steps too: what it could not flush is gone when the process ends.

**TestRunner.** One process per element of `Runners`, one action per system call that another process or a signal can fall between: `Check`, `Unlink`, `Open`, `Fill` of the lock; `WritePhase`, `WriteRecord`, `Spawn`, `Polled`, `Waited`, `Finish`, `List`; `ReadLock`, `RemoveLock`. `Interrupt` is Ctrl-C, `Raise` an exception, `TearRecord` a write that ends half-way, `Kill` the end of a runner without clean-up, whose workload goes on. The look at the lock and its creation are two steps, so two runners may both pass; the history variable `raced` remembers that a runner has passed while another one was between the two, or between its last look at its own lock and the removal of the file.

**Scorecard and BenchmarkRecords.** `Scorecard` translates the two reducing programs; weights, targets and thresholds are those of the code, in tenths of a percent. The programs filter lists and then count, add, average and compare what is left; a list is a function of its places here and a filter restricts it (`Clean`, `Valid`, `IntervalRows`), so that every reduction is one over a finite set of places (`Avg`, `Maxv`, `Med`), whatever their order. What a summary holds only to be displayed is left out. `BenchmarkRecords` is the order of the writes: which file was modified last (`modified`) is all `find_nearest_power_log` and `latest_csv` go by, and the application summary a monitor leaves at its end is such a file. A line of the history is a sequence of cards and pieces of text, so that a card appended to a line without an end, or a repair that joins its cards by a backslash and an n, is seen for what it is.

## Runs

| Run | Question | Distinct states |
| --- | --- | --- |
| `store` | Does any order of samples, rows, flushes, snapshots, failures, closes and crash duplicate, reorder or drop a sample, give an inconsistent snapshot or lose a record without a word, and does the store implement the abstract log, for readers in other processes too? | 1,418,232 |
| `store_live` | Does every record of every stream reach its file? | 356,024 |
| `manager` | Do concurrent `Start` and `Stop` calls, samplers, collections, the flusher and the run goroutine keep one session, and close store and channels last? | 2,182,986 |
| `manager_live` | Does every shutdown complete, and every call return? | 285,762 |
| `engine` | Do requests with every step of them failing keep one monitor that matches settings, document and priority, leave a benchmark alone, give the mutex back, and make room for the next benchmark? | 319,162 |
| `power_watch` | Whatever of a reading is missing or wrong and whichever write fails, do the monitor's events tell what its rows show? | 443,722 |
| `app_power` | Does the attribution hand out the measured power and no more, count every sample once, and keep its summaries in step with its log? | 163,867 |
| `test_runner` | Do runners that are interrupted, fail or are killed at any step keep one test at a time as long as no two of them race for the lock, and true records at any time? | 3,110,717 |
| `scores` | Whatever is missing or torn between the rows and a card, are energy and time counted once, and the parts weighed that are there? | 744,111 |
| `manager_stop`, `test_runner_race`, `score_repair` | One statement of a comment or document each, which the code does not keep: see "Findings". | small |

**Bounds.** All are CONSTANTS of the modules.
- `MaxTime = 2`, `MaxApps = 1`, `MaxAux = 1`, `MaxFaults = 1` (both store runs; `MaxAux` bounds the records of the event and the test-run stream together, so either has one; `store_live` has no reader in another process, which changes nothing of the store): duplicates, reordering and loss need two samples; a partial failure needs a sample row and one application row; one failing stream at any write, with the others healthy, distinguishes all the error paths (the errors of different streams do not interact). The safety properties are proved without these bounds where the table of theorems says so.
- `Callers` = 2, `Collectors` = 2, `MaxSeq = 2`: a caller that waits with the mutex and one that waits for it; two timers that overlap; a sample that replaces an unread one; and `Samplers` = 2. Callers, collectors and samplers are symmetric in `manager`, which has only safety properties. `manager_live` has no symmetry, both callers and samples, one collector, and no sampler, because no shutdown waits for one.
- `Settings` are two that differ in both fields: nice 0 without a log, nice 5 with one, which is the one a benchmark lowers the priority from. `MaxMonitors = 2`: the old monitor and its replacement; `MaxRuns = 2`: a benchmark that ends late and the next one. `EngineProofs` removes all of them.
- Power watch: four states of one machine (charging with no source for the load, draining on AC under stress, heavy load on battery, full with a silent pmset), two answers of `powermetrics`, one report of `system_profiler`, four iterations of 4 or 11 seconds (below and above the eight seconds of the discharge warning), and two upsets, an upset being a change of the machine, an answer or an exception. Two rows with a lost row between them and a change there and back need just these.
- Application power: five answers of the commands (coalitions twice in one answer, tasks with a responsible one, the `ps` fallback, nothing, an answer that ends the thread), three rows (quiet, busy, without a total), three samples, three rows, two faults: one may fall into a row and one into `close`, two into `close`, or two into rows, after which nothing more is explored (`FaultsLeft`; `SummariesMatchLog` is proved for every number of faults); `QuietSize = MinQuiet = 2` and `FlushEvery = 2` so that a baseline is learned, a history is full and a summary is late within three rows. The scores of the instance divide the power, so that its shares are whole; what rounding takes from arbitrary ones is bounded by `EnvelopeFills`.
- Test runner: three runners, one with `--force-lock`, two alike (symmetric; only safety), one fault. A third runner is what finds the lock of a killed one and meets another one's. What follows a race is only looked at where the forced runner has not begun (`FewAfterTheRace`): `TestsDoNotOverlap` says nothing of it, and `FinishedTestsAreListed` is proved for it. The theorems hold for every number of runners and faults. `test_runner_race` needs two of them and no fault.
- Benchmark records: `Suite` has a CPU test and the extreme test, in this order; `MaxRows = 3`, two monitors, two seconds (`MaxNow = 1`), one summary, two cards, one torn write. Three rows are a test with two rows and one with a row in the second they share; two monitors a replacement within a test. Nothing is recorded behind the first summary (`Recording`), which would not show it.

**Deadlock.** Checked in the manager and engine runs. The other runs turn it off because a session whose process died, a monitor that was closed, runners that have all ended, and records nobody adds to really stop.

**Fairness**, stated in each module as `Fairness`:
- `SessionStore`: the two-second flusher flushes, or the session is closed, and a `Close` that began goes on. Nothing makes a sample arrive.
- `MonitorManager`: a goroutine that can go on does (weak fairness). Two strong conditions: the run goroutine's `select` chooses the ended context although a timer is ready again and again (Go chooses at random among ready cases), and `lifecycleMu` is eventually given to every waiter (Go's mutex hands itself over after a millisecond of starvation). The flusher's `select` is of the first kind.
- `Engine`: the holder of the mutex goes on; monitors shut down, which is `ShutdownCompletes` of `MonitorManager`; the restoration of the priority ends (it has fifteen seconds); a plan that was *cancelled* or whose child could not be started returns (its phases are bounded by their time limit and ten seconds of clean-up); its goroutine goes on. An uncancelled plan need not end, and no time-out is assumed to fire.
- The legacy models state none: their code promises nothing that must eventually happen, and a thread or process of theirs may end at any moment.

## Properties

Besides one `TypeOK` per state machine, which in the legacy models also holds the bounds of caches, histories and buffers:

*Store.* `NoDuplicateSamples`: whatever fails after the row was written, a retry does not write it again. `NewestRetained`: the newest accepted sample is the last row or still pending. `SnapshotConsistent`: limits at record boundaries inside the file, no application row without its sample. `LossIsReported`: when no `Close` has returned an error, everything accepted is on disk, nothing is pending and the end of the session is recorded; it says so of the first `Close`, since a later one always returns nil. `RecordsReachDisk`: no record stays in a buffer for good. `LiveOnlyKeepsNothing` is proved only.

*Manager.* `NoSendOnClosedChannel`: a late flush or collection error does not meet a closed channel. `OneSession`: no interleaving of calls creates two sessions, nor runs a goroutine over a closed store. `LatestSampleWins`: drop-oldest with one sender and one reader never reorders and never loses the newest. `StopThatCancelsWaits`: a `Stop` that cancelled returns nil only after the store and the channels are closed and everyone who uses them has ended; the samplers are cancelled and may still run. `ShutdownCompletes`, `CallsReturn`.

*Engine.* `OneMonitorCollects`; `MonitorMatchesSettings`: with the mutex free, the published monitor was made with the settings in force, and the process has their priority unless a child of a benchmark lowered it to 0 and it was not, or not yet, put back; `DocumentMatchesSettings`: a change that reported success, or a complete undo, left the right document; `BenchmarkIsPublished` and `BenchmarkUndisturbed`: a benchmark cannot be forgotten while it runs, and nothing but the end of the process stops its monitor or changes its settings; `LiveReportIsHistorical`: the flag and the monitor a report reads belong together; `RequestsReturn`, `ReturnedRunIsForgotten`.

*Power watch.* `TypeOK` also counts: as many events as were attempted, no energy below zero, the window, the stable samples and the raw snapshots within their bounds. `TransitionsAreLogged`: between two rows with different sources there is an event of the change, also when the row of that iteration was lost. `LoadEventsAlternate`: starts and stops of a load take turns, although an event may fail to be written after the detector has moved on. `DischargeWarningIsSustained`: the warning of a battery that drains on AC covers rows that all show it.

*Application power.* `EnvelopeIsFilled`: baseline and pools are the total, whatever the components are, also ones above it; the shares are never more than the pools, and never less by more than what rounding down takes from each (four parts of each application); the rest is unattributed. `ScoresAreConserved`: no record is lost, and none counted twice, by merging, responsible processes and aggregates. `SampleLoggedOnce`, `SummaryMatchesLog`: at every moment and after every failed step each summary is that of a beginning of the lines written, and of the lines on disk unless the process ended inside `close` after a fault, where the buffer may be lost that the summaries have counted: its time, errors and energy, and the energy of each application, of which none is missing and none too many. `ConfidenceIsEarned`: high confidence has coalitions, a trusted total and a baseline behind it that the monitor measured or the quiet rows of this run established.

*Test runner.* `TestsDoNotOverlap`: the race for the lock is the only way around it. As long as none has happened and nobody forces the lock, whoever is interrupted, breaks or is killed where, no two runners hold it, and the phase the monitor reads is that of the running test. `OneTestAtATime` is the same without the exception, and is violated. `FinishedTestsAreListed`: the list, the records and the processes agree.

*Scores.* `OverallWithinParts`: with any of the four scores missing, the overall score lies between the least and the greatest of the others. `EnergyCountedOnce`: the tests of a card took no longer than there was and used no more than the monitors counted, across replaced monitors, logs without rows and partial readings.

## Proofs

Every invariant and action property that a passing run checks is a theorem for all values of the constants.

The assumptions are the types of the constants, and that `None` and `Junk` are two values and no integers (`DistinctMarks`). For the engine and the runner these are `StoreAssumption`, `ManagerAssumption`, `EngineAssumption`, `RunnersAssumption` and `MarksAssumption`. The constants of the other legacy models are what commands and files say; their assumptions hold in every instance of the runs and are those of a program that gets its data through `json`, `plistlib`, `csv` and `float`:

- `WatchAssumption`, `SaysAssumption`: voltage and currents of the battery are numbers wherever `float()` takes them. Nothing is assumed of the other keys of `ioreg`, or of `pmset`, `system_profiler`, `powermetrics` and `ps`.
- `ActivityAssumption`, `AppPowerAssumption`: bounds and periods are positive, and a learned baseline needs no more quiet rows than are kept. `RowsAssumption`: a row has the power columns the attribution reads (the monitor always writes them), each a number, unreadable or missing. `OutcomesAssumption`: what reaches the parser as a list is one, and a metric in it is a number, unreadable or missing. Names, identifiers and text are arbitrary.
- `ReadingsAssumption`: a row's counters are naturals, as the code starts them at 0 and only adds to them, and every other column of a summary is a number, missing or unreadable.

| Module | Theorems | For every |
| --- | --- | --- |
| `SessionStoreProofs` | `TypeCorrect`, `CanonicalStreamInOrder`, `NewestSampleRetained`, `LiveOnlyHolds`, `CloseIsDurable`, `SnapshotsAreCuts`, `StoreImplementsLog` | number of samples, application rows, events, failing streams |
| `MonitorManagerProofs` | `TypeCorrect`, `NobodySendsLate`, `OneSessionOnly`, `StopWaits`, `NewestSampleWins`, `ManagerLivesOnce` | number of callers, collections, samples |
| `EngineProofs` | `TypeCorrect`, `NoTwoMonitorsCollect`, `MonitorAgreesWithSettings`, `DocumentAgreesWithSettings`, `RunningBenchmarkIsPublished`, `LiveReportLogs`, `NothingDisturbsBenchmark`, `EngineGivesMonitorsTheirLife` | set of priorities, number of monitors and benchmarks |
| `TestRunnerProofs` | `TypeCorrect`, `TestsExclude`, `ListIsTrue` | set of runners, forced and marked ones, and faults |
| `PowerWatchProofs` | `TypesAndBounds`, `SourceChangesLogged`, `LoadsAlternate`, `DischargeWarned` | machine, reading, threads' answers, number of rows and exceptions |
| `AppPowerProofs` | `TypesAndBounds`, `SamplesLoggedOnce`, `SummariesMatchLog`, `ScoresConserved`, `ConfidenceEarned`, `EnvelopeFills` | answer of the commands, row, number of samples, rows and failed writes |
| `BenchmarkRecordsProofs` | `OverallIsWithinParts`, `EnergyIsCountedOnce` | reading, suite of tests, titles, number of rows, monitors, seconds, summaries and cards |

*Store.* That the stream increases is not inductive: a row may be appended whose time is below the last one unless the gate is known to be at least every row's time. `IInv` adds `InOrder` (the rows increase and none is beyond the gate), `Retained` (how `pending`, `gate` and `newest` relate, whatever is logged) `ClosingFlushed` (what `Close` has established between its two halves), `CloseOkMeansDurable` (the `Close` that succeeds has everything on disk) and `ErrorAnswered` (the one that fails has said so, whatever later ones answer). The lemmas follow the code's layers: a writer (`PutOne`, `PutType`), the helpers under the mutex, then one lemma for each method.

*Snapshots and the abstract log.* Other processes only read sizes, so `SnapshotConsistent` has to survive everything the store does after them. The second half of `SessionStoreProofs` first shows, method by method, that streams only grow (`Grown`: longer files, the same rows before the new ones). A snapshot of an open store flushes under the mutex and so is a cut between records (`Cut`), with an application row's sample among the rows before it because the sample's row is written first (`Sound`); a cut stays one while streams grow (`CutStays`). `StoreImplementsLog` goes on from the same facts: under the mapping at the end of `SessionStore` each step appends one sample to the abstract log, makes more of it durable, lets a reader see a prefix, or changes nothing of it (`StepOfLog`).

*Monitor manager.* None of the properties is inductive: that no error is sent late, for example, needs to know that the flusher and the collections have ended before the manager retires, and that is known from the place of the run goroutine. `LifeInv` says for each of its places what else of the session there is: nothing before a session (`Unstarted`), its cancel function, open store and flusher while it samples (`Sampling`), nobody else once it has retired (`RetiredAlone`), the store and the channels closed in their order (`ClosedInOrder`), and that nothing of this happens while the context lasts (`EndedByContext`). It gives four of the theorems. `NewestSampleWins` adds `SlotInv`, where a published sample is at each step of `publishLatestSample`. For `ManagerLivesOnce`, `SeenFollows` derives what is seen of the manager from the place of the run goroutine, in one state and in the next; each action is then a step of `MonitorLife` or none. With `EngineGivesMonitorsTheirLife` this connects the two models for any number of managers.

*Engine.* The properties speak of moments when the mutex is free; `IInv` says what its holder knows at every step (`HolderKnows`): a run that is waited for is the published one or none is; past that wait no benchmark is published; between two monitors none is, and the new one was made with the wanted settings and priority. `PublishedMatches` and `ChangeIsSaved` hold at every step and give the two properties about settings. `StartedInOrder` makes the next monitor a new one; `ReportedLogs` adds that a report's monitor was started, so that no later start changes its settings; `RunsMonitored` that a running benchmark has a monitor, so that no start can replace it. There is one lemma for each action, and one step in it for each conjunct the action can disturb. The two action properties use the same invariant.

*Test runner.* `Exclusion` is the invariant of `TestsExclude`: at most one runner is busy with the lock, the runner that holds the lock is named in the file unless it is about to fill it, nobody else's file is there while a test runs, and the phase is the holder's. It only holds until somebody forces the lock (`Unforced`) or two runners race for it; `StaysForced` and `StaysRaced` show that neither can be undone, and a step without a race is one of a runner that is alone at the lock (`StepExclusion`). `ListIsTrue` holds after a race too: a runner only writes its own record and line, and `WorkloadIsKnown` says what its exit code can be at each of its steps.

*Power watch.* `IInv` relates the lines of the two files, buffered ones included, to what the detector remembers. `Dated`: nothing written is later than the loop's clock, so that later lines fall behind all intervals looked at so far. `Alternates`: the written load events take turns, and the last of them agrees with `load_started`. `Announced`: a change between two rows has its event, and so has one between the last row and the source the detector remembers, which may come from an iteration that left no row. `Sustained`: every row since the detector began to wait shows a battery that drains, and so do the rows of the eight seconds before a warning. The hard case is an exception between two events of one iteration, after the detector has moved on. `Mid` says what holds of the detector in the middle of a row, with one lemma for each of its groups of events (`SourceStage`, `AdapterStage`, `LoadStage`, `DischargeStage`, `ThrottleStage`), and `Chunk` what the events of an iteration are when the loop writes them, with a row behind them or none. The types and bounds have an invariant of their own, `BoundInv`, on top of `IInv`: the counters agree with the lines (`Fit`), and each tracker is what its code builds (`BaselineOK`, `TrackerOK`, `HealthOK`). That the energy counters are numbers needs that `net_battery_watts` is one in every row, which `ReadingCarries` follows from the two readings of `ioreg` through every `update` of `collect_reading`: none of the later dictionaries has that key.

*Application power.* `IInv` puts the samples in order: the ids of the lines rise up to `last_id`, which is at most the published one, which is below the one being taken; that gives `SamplesLoggedOnce` at every place a write can fail. `SumInv` adds that the totals are the sums over all lines, buffered ones included (`SumGood`), that each file has the totals of a beginning, that no file is ahead of the log on disk unless a fault is followed by an end inside `close` (`InStep`: a summary is only written after a flush that succeeded), and that the JSON file lags by the remainder of the count by `FlushEvery` at most (`Prompt`). An application's aggregate exists from its first line on; that it is the sum over *all* lines needs that an application in none of the lines has no energy (`StrangersUseNothing`).

The other four theorems are about what a line says, and so about the parser and the engine. `WorkInv` is the published sample's: its activities have distinct keys, their number and the cache keep their bounds, and an "ok" sample's scores are those of the records of one answer (`ScoredBy`, which `Sampled` shows of every sample, through selecting, grouping, merging, sorting, cutting and naming). The argument is one of sums: grouping adds up classes of places (`SumOfClasses`), a part of a list has a part of its sum, and all of it if nothing was cut (`SumOfTaken`). `EarnedInv` is the history's: a learned baseline stays learned, because a history only gets longer up to its size (`Keeps`), and an established one of `_baseline` is the monitor's or of a long enough history (`EarnedLine`). `EnvelopeInv` needs both, since a line is attributed with the published sample and the learned baseline: the baseline lies between 0 and the total, the pools above it fill the rest (`PoolsFill`), and parts of a whole, each rounded down, miss less than one unit each (`SharesFill`). `BoundInv` has the clock, the rows and the faults; together the four give `TypesAndBounds`.

*Benchmark records.* A card is computed from a summary and a summary from the rows, so both properties are about what the records imply. `IInv` has three parts. `LogsOK`: in each monitor's log neither time nor the counter of the energy falls, and no row is later than the clock. `TestsOK`: a test begins after the one before it has ended, and its nearest log is that of a monitor. `HistoryOK`: every summary that is not torn is the one the present records make (`Made`), and every card the card of it, whoever wrote it, `Score` or `Repair`, and however lines were torn and glued. This last part needs the model's bound `Recording`, that nothing is recorded behind the first summary; the two theorems are of a benchmark that is summarized when it has ended, which is what the scripts do. `OverallIsWithinParts` then follows the code from the columns up: medians, peaks and averages are within what they are taken of (`MedType`, `MaxvType`, `AvgType`), each score is within 0 and 100 % or missing (`ShareType`, `TemperatureType`, `CellDeltaType`), and an average by positive weights lies between the least and the greatest (`WeightedAverage`). For `EnergyIsCountedOnce`, `CountAt` is what a monitor's counter showed at a second and `CountedIn` what it added within it: a test uses no more than what all monitors together gained from its first second to its last, with the first of these counted in (`Taken`, `TestTakes`). Test by test these gains are added up in the order of the seconds (`TestAdds`, `SumOfSteps`), where the one second that two tests share is counted twice, which is the border in the property.

*Sums and induction.* `Total` folds over a sequence, and the theorems on induction of the library cannot be instantiated here. `SequenceFacts` states induction with a set instead of a predicate (`Induction`: a set with 0 that is closed under the successor has all of `Nat`) and derives it from the pigeonhole principle for finite sets, which is a theorem without operator parameters. With it the function a fold is defined by is shown to exist, and unfolds by one element (`TotalAppend`, `TotalOneMore`, `TotalOfZeros`). The sums of the community modules (`SumFunction`) choose an element of a finite set and go on with the rest. `PartInduction` is induction over the subsets of a finite set in the same form, `SumOfParts` shows that any element may be taken first, and from it follow what the proofs need of sums: they are monotone, distribute over sums and multiples, telescope (`SumMonotone`, `SumOfSums`, `SumOfMultiples`, `SumOfSteps`), a quotient of two of them is an average (`WeightedAverage`), and rounded parts of a whole fill it but for one unit each (`SharesFill`). Lists put in another order, or of which some elements are taken, are described by the place each element came from (`TakenAt`): `AtPlaces` and `DescendingOrder` show that the operators of `Values` have these places, each once, and the sum of what was taken is the sum over these places.

Only model-checked, because the prover cannot express it:
- Liveness and everything with fairness: `RecordsReachDisk`, `ShutdownCompletes`, `CallsReturn`, `RequestsReturn`, `ReturnedRunIsForgotten`.
- That every action of a model can happen, which its run shows: `ENABLED` is out of the prover's reach.
- What a definition computes, where no property is about it: categories of applications, the documents a reading is put together from. They are stages of the values the theorems are about, and part of the actions the runs fire.

## Findings

Three runs must end in a violation, because the code does not do what its own text says.

1. `manager_stop`: the shutdown clears `m.cancel` before it closes the store (`manager.go:168-175`), and `Stop` returns nil when it is nil; `manager.go:685` says `Stop` waits for all writers. The engine cancels before it calls `Stop` (`server.go:246-249`), so it can start the next monitor while the old one still writes. In `Engine` this is the case `life[manager] = "retired"` of `MonitorStopped`; collection has ended by then, so `OneMonitorCollects` holds all the same.
2. `score_repair`: `repair_battery_score_history.py:52` joins the cards by a backslash and the letter n. The history becomes one line that no reader accepts, and has no end: the next card is appended to it and lost as well, and there is nothing to compare until two cards have followed that one. Lines 8 and 55 say that it rebuilds the history and that later cards are appended.
3. `test_runner_race`: the lock of the test runner is looked for (`friendly_test_ui.py:104-118`) and then written (`write_text`, line 128), so two runners that look before either writes both hold it and run their tests together; `CHANGELOG_LEGACY.txt:315` says the lock "prevents accidentally running two stress tests at the same time", and line 10 of the program that it is there "to prevent overlapping stress tests". `TestsDoNotOverlap` is what remains true. A runner that gives the lock back can remove another one's in the same way.

The models show more disagreements, which are not runs of their own:

- `SnapshotDir` (`store.go:408`) of a session that another process is writing, or left after a crash, can end inside a record (an odd limit in `SessionStore` with `ExternalReader = TRUE`); `store.go:545` says a limit is at a flushed record boundary.
- A save that fails after the rename leaves the new document on disk with the old settings in force (`SaveFails` in `Engine`); `server.go:353` calls a failure side-effect free. The undo of a failed restart saves the effective settings, command-line overrides included, and not the previous document (`RestoreDocument`; `server.go:282`, `RUNTIME_SETTINGS.md:75`). A report of a live-only session is refused only while its monitor is published (`BeginReport`; `server.go:79-81`).
- The phase file of an interrupted test is never cleared, and a workload outlives its killed runner, whose lock is then taken for stale.
- `RUNTIME_SETTINGS.md:100` says that the configured priority is restored immediately after a benchmark's child was started. When that fails (`priority.go:105-124`) the plan fails and the process keeps nice 0, while the API goes on to show the configured value; applying the same settings again only saves the document (`server.go:308-313`). In `Engine` this is `priority = "lost"`, the exception in `MonitorMatchesSettings`.
- A `Close` after one that lost records returns nil (`store.go:468-470`, `CloseAgain`); the manager closes its store once and reports what that returns. `Stop` does not wait for the powermetrics supervisor and the battery sampler (`manager.go:195-196`), so a `powermetrics` child can outlive a session that was reported as stopped.
- `find_nearest_power_log`, `latest_csv` and `pack_logs` take `mac_power_*.csv`, which an application summary is too. A monitor writes it at its end, after its last row, so a test that ends after its monitor is given a log without time stamps, and has no samples.
- `find_test` takes the first test of a kind, and the list of tests only grows: the scores of a directory stay those of its first benchmark.
- Tests that meet within one second share the rows of that second. A torn line of the history hides the card behind it, and an older pair is compared. A torn newest summary blocks scoring and, as long as it is there, the repair.
- `APP_POWER_ATTRIBUTION.md:104-105` says the sampling worker falls back to `ps`; an exception outside its guarded calls (`app_power_attribution.py:970`) ends the thread, and the monitor goes on with the last sample (`EndSample` with "uncaught"). The placeholder before the first sample is logged as a sample.
- The legacy reading: the encoding of a battery temperature is guessed by which value is nearer to 35 °C (`mac_power_watch.py:490-493`), so that 3000 in tenths of a Kelvin, 26.85 °C, becomes 30 °C; a battery that charges with no source for the load shows the adapter's whole contract as load; the thermal summary is made before the thermal state; `possible_throttle` looks at the automatic phase, which is set after it; the interval of a row is cut at a minute; a baseline can lock without a row; a raw snapshot whose write fails empties the file; the handler of the loop may raise and end it.

Noticed in the engine and not modelled: an error of the optional mirror makes `FlushPendingSample` fail and with it a stop or a settings change (`store.go:81-93` calls the mirror best-effort); after a wait that timed out the engine keeps the dead manager published, and `StartMonitor` takes it for a running one; after an oversized frame the powermetrics supervisor waits for a child that is blocked on the pipe nobody reads; a workload can outlive the ten seconds of clean-up.

## Not modelled, and why

- **Content**: report rendering, plist and `ps` parsing, JSON schemas, terminal and SwiftUI views, floating-point shares of the Go attribution, the displayed columns and documents of the legacy tools. These are data or layout; tests over examples reach them.
- **Engine**: `Status`, the error list, HTTP handlers and token files read or wrap what is modelled. **Store**: the content of the mirror, `ReadJSONL`, and the clean-up of a session whose creation failed.
- **Legacy**: the report, comparison, listing and packing programs read the logs once; the probes collect documents; the menu and the shell scripts start the programs modelled here; `mac_power_watch_v0.12.0.py` is a copy of the monitor.
- **Command line, stressors, scripts, parity, data model**: no state shared between steps.
- Planned, see below: the benchmark controller, the commands behind the priority, powermetrics, the sample schedule, settings validation, report publication and archive, attribution's table, the backend client.

## Plan

Done, in this order because a wrong step there loses data or leaves two monitors behind: `SessionStore` with `SessionLog`, `MonitorManager` with `MonitorLife`, `Engine`. Then the legacy programs, which hold most of the estimation logic: `PowerWatch`, `AppPower`, `TestRunner`, `BenchmarkRecords`. Proofs about all of them, and that `SessionStore` implements `SessionLog`.

Next modules, most important first:
1. `Benchmark`: `Controller.Run`, the run lock between processes, phases with time limit and clean-up, groups of commands of which one fails, the record of each phase. Abstract specification: a phase is started, ends once, is recorded once, and nothing of it runs when the next starts. It implements the run life of `Engine`.
2. `NormalizedStart`: the commands behind the priority transition that `Engine` models by its results, and the killing of a child whose restoration failed; composed with `Benchmark`.
3. `SampleSchedule`: `nextSampleDeadline`, `advanceDeadline`, `emitSample`, the battery channel, freshness in `compose`; the deadline arithmetic against a reference definition over bounded inputs.
4. `Powermetrics`: back-off, candidate rotation, frame limit, end of the child; liveness: a sampler that can work is found again.
5. `RuntimeSettings`: profiles, validation and reconciliation of intervals; load and save with a crash between the steps; refines the save of `Engine`.
6. `ReportPublication`: staging, rename, `latest.json`, archive, with crashes and two writers.
7. `Attribution`: the energy table's bound and expiry, gaps, the baseline window, over integers.
8. `BackendClient`: the launcher and the refresh loop of the SwiftUI application against a backend that dies or answers late.

Proofs planned: type correctness and the main invariant of `Benchmark`, `NormalizedStart` and `Powermetrics`. None of these modules will use RECURSIVE operators.

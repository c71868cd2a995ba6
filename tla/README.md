# SmokeSig in TLA+

SmokeSig (`smokesig`) reads a `.smokesig.yaml`, runs the smoke tests it lists, and reports
the outcome. This directory holds TLA+ specifications of the parts of it in which several
steps or several actors have to agree, the configurations with which TLC checks them on small
instances, and proofs for all instances that the TLA+ proof system checks. Every definition is
translated from the Go source; the lines it stands for are in `PROJECT.json` under `map`.

    tlc -config MCSuite.cfg MCSuite.tla      check a run
    tlapm SuiteProofs.tla                    check the proofs of a module

Contents: 1 inventory, 2 modules, 3 runs, 4 fairness, 5 proofs, 6 findings, 7 what is left out,
8 plan.

## 1. Inventory

All paths are below `src/`.

### Parts whose difficulty is concurrency, order or failure

**Runner core** (`internal/runner/runner.go`). `Runner.Run` goes through setup sections
(before_all hooks, prerequisites, auth, plugins), filters the tests, runs them one after the
other or each in a goroutine, counts, publishes a summary, and releases what it holds by
`defer`. State: `Vars`, `lifecycleEnv` under a mutex, the results, the counters. Hard: every
section may fail with a different set of calls deferred; parallel tests share `Vars` and
`lifecycleEnv`; retries, fail-fast and failing hooks all lead to a result by paths of their
own. Correct when: each selected test is counted once with the result it was reported with;
fail-fast stops; no test outlives what it uses; everything acquired is released on every path.

**Variable store and chains** (`internal/runner/varstore.go`). Which tests extract variables
that others read; `Run` gives up parallelism if there is such a chain. Correct when: an
extractor and its consumer never overlap.

**Lifecycle hooks** (`internal/runner/lifecycle.go`). Runs the hooks of a list in order, in the
foreground or background, each under a timeout; waits for ports; hands on KEY=VALUE lines;
keeps a process-wide registry of background processes. Hard: processes that end, hang or are
killed at any moment, `always_run` after failures. Correct when: the skip rule holds, the first
error is the one returned, no process escapes the registry.

**Stress tester** (`internal/runner/stress.go`, `cmd/stress.go`). Runs one test many times
through a semaphore with a WaitGroup, atomic counters and mutex-protected slices. Correct when:
the bound of workers holds, the result accounts for every launched run, fail-fast starts at
most one more run, exit code 0 means that all passed.

**Run command and watch loop** (`cmd/run.go`). Builds reporters and the runner, chooses exit
codes; in watch mode a loop over file events, a debounce timer and signals triggers runs in
goroutines. Hard: runs overlap and share the credential cache and the environment. Correct
when: no change is lost, credentials never outlive the runs that use them.

**Authentication** (`internal/auth`). Exchanges identities for credentials of AWS, GCP and
Azure, caches them for watch mode, refreshes them when they are about to expire, overwrites
them and removes keyfiles afterwards. Hard: contexts are shared between runs through the cache;
a signal handler competes with the end of the program. Correct when: nobody is given expired or
released credentials, and nothing stays behind.

**Dashboard and serve command** (`internal/dashboard`, `cmd/serve.go`,
`internal/reporter/push.go`). Clients push their summary; the server stores it in SQLite and
prunes old runs per project; `/healthz` runs the suite. Hard: overlapping requests, failing
statements, clients that time out, shutdown. Correct when: history is bounded, only old runs
are pruned, what was acknowledged is stored.

**Assertions** (`internal/runner/assertion*.go`). Some forty kinds. Each makes an observation (a
command's output, a file, a tool, the dialogue with a server) and concludes results from it. Hard:
peers that answer in pieces, early, late, wrongly or not at all; tools that leave children behind;
many return paths. Correct when: a pass is earned, a failure deserved, the probe returns and
nothing stays open.

**One attempt of a test** (`runTestOnce`). Puts the credentials of the test's profile into the
environment of the process, resolves template variables, runs the command, evaluates every
assertion, extracts values, and leaves through two deferred calls. Hard: parallel attempts share
the environment and the variables; there are six ways out. Correct when: a pass means that
everything asserted was observed, each way out cleans up once and in order, and only a passing
test hands values on.

**Reporters, exit codes and baseline** (`internal/reporter`, `cmd/exitcodes.go`,
`internal/baseline`). A composite of terminal, JSON, JUnit, TAP, Prometheus, GitHub, Backstage,
OpenTelemetry, webhook and push reporters gets the events of one run, of all suites of a monorepo,
or of a run of the watch loop; a file of timings is loaded, compared, updated and written. Hard:
parallel tests append to slices without a lock; one reporter collects several suites; a webhook
sends on change only; two processes write one baseline. Correct when: document, counts and exit
code tell the same story, whatever is retried, a failure raises an incident, no timing is lost.

**Remote configuration and includes** (`internal/schema`). A configuration is put together from
nested includes, a remote document with a cache that all processes share, the file of an
environment and flags, and validated. Hard: cycles, the depth limit, a server that publishes,
refuses or fails while a cache is written, truncated or killed. Correct when: nothing declared is
lost, the limit is exact, what is used was published.

**Authoring** (`internal/detector`, `internal/audit`, `internal/migrate`, `internal/observer`,
`internal/mcp`, `cmd/init_cmd.go`, `cmd/audit.go`, `cmd/migrate.go`). Commands and tools of the MCP
server that generate or extend `.smokesig.yaml`, and others that read it. Hard: nothing keeps two
of them apart; thirty project types have tests of their own, forty checks advice of their own.
Correct when: what is generated is valid and survives loading, a fix settles, a half-written file
is not taken for a configuration.

**Plugins** (`internal/plugin`). WASM modules with a sandbox, an ABI and host functions,
instantiated per evaluation. Correct when: limits hold and closing waits for evaluations.

**Trace context and trace health** (`internal/runner/trace*.go`). A window of recent trace
checks from which a degradation is reported once.

**Terminal interface** (`internal/tui`). A model and an update function for keys and events. It
is in no build: without the tag `tui` the command has a stub that panics and no flag to reach it,
and with the tag the package declares `keyMap` twice (keys.go:7, keymap.go:7), refers to types
that it does not have (views.go:38) and does not compile.

### Parts with little state

**Prerequisites** (`internal/runner/prereq.go`): commands with a timeout. **Monorepo discovery**
(`internal/monorepo`): a directory walk. The **other commands**: flags and output.

### How they interact

    run / watch / serve / stress / mcp commands
          |  call                     credentials: os.Setenv, cache in internal/auth
          v                                      ^
    Runner.Run / RunMonorepo / StressTest -------+
      |        |          |           \
      |        |          |            hooks -> processes, registry, lifecycleEnv, Vars
      |        |          test goroutines -> attempts -> assertions -> probes, tools, plugins
      |        reporters: events from every goroutine; push -> HTTP -> dashboard -> SQLite
      prerequisites          exit code <- failures, baseline

    loader: file + includes + remote (HTTP, cache on disk) + environment file + flags -> validate
      ^ reads .smokesig.yaml          init / audit --fix / migrate / observe / MCP tools write it

Calls are synchronous except for test goroutines, stress goroutines, triggered runs, HTTP
requests, and the waiters of `os/exec`. Shared state: `Runner.Vars`, `Runner.lifecycleEnv`,
`backgroundProcesses`, `cachedCtx`, the environment of the process, the tables of SQLite, and on
disk `.smokesig.yaml`, the cache of remote documents and the baseline.

## 2. Modules

| module | models | source |
|---|---|---|
| `SuiteLedger` | abstract: what a run promises to whoever reads its summary | – |
| `Chains` | `detectChains` | varstore.go |
| `Suite` | one call of `Runner.Run` | runner.go |
| `Stress` | the stress command | stress.go, cmd/stress.go |
| `Lifecycle` | before_all hooks, their processes, the cleanup | lifecycle.go |
| `Watch` | the watch loop, its overlapping runs, credentials | cmd/run.go, auth, runner.go |
| `Dashboard` | pushes, storage, pruning, shutdown | push.go, dashboard, cmd/serve.go |
| `Verdicts` | what each assertion concludes from its observation | assertion*.go, runner.go |
| `Probes` | the dialogue of each assertion that talks to a server or a tool | assertion*.go |
| `Attempt` | `runTestOnce` for several tests in one process | runner.go |
| `Report` | the run command from its arguments to its exit code: suites, reporters, notifications, baseline | cmd/run.go, reporter, baseline, runner.go |
| `Config` | how a configuration is put together and validated | schema |
| `Kinds` | the assertions of the schema, for `Config` and `Detector` | schema.go |
| `Detector` | project types and the tests generated for them | detector |
| `Authoring` | the commands and tools that write the configuration | cmd, audit, migrate, observe, mcp |
| `MC...` | constants for TLC | – |
| `...Proofs` | theorems about the module of that name; `StressProofs` also about `Lifecycle`, `ProbeProofs` about `Probes` | – |

Definitions whose comment begins with *Fault:* are variants with a plausible bug. They are not
part of any specification. Each property of a passing run has one that violates it when put in
the place of the definition it varies (`PROJECT.json`, `mutants`); this shows that the property
depends on that code.

**Suite.** `pc` is the section `Run` is in, and `MainStep` its steps; `phase[t]` is where
`runTestWithHooks`, `runTest` and `runTestOnce` are for test `t`, and `TestStep(t)` their steps.
`runSequential` and `runParallel` are the two cases of `MayStart` (which test may begin) and
`Count` (when results are counted): a sequential run gets to a test when all earlier ones are
counted, a parallel one starts them all and counts after `wg.Wait`. `defers` is the stack of
deferred calls. An attempt is `StartCommand` and `EndCommand`, or `EndWithoutCommand` when
skip_if, the recursion guard or a dry run keep the command from being run; what the command and
the assertions yield is any outcome the code can produce. The hook environment is one variable
whose value names the hook that printed it: `env[t]` is the local copy, `lifecycleEnv` the
shared one, `hookVar` the entry in `Vars`, and `seen[t]` what the command was resolved with.
`ImplementsLedger` states that `Suite` implements `SuiteLedger` under the substitution of
selection, verdicts and summary: a verdict is given once and never revised, after a failure
under fail-fast all verdicts are *skipped*, and the summary is the tally of all of them.

**Chains.** `Deps` is the map `deps` of `detectChains`, with its choice of the last extractor
of a variable. The connected components it computes are only asked for being none or some.

**Stress.** `pc` follows the loop of `StressTest` with the check (`Admit`), the blocking send
(`Launch`) and the exit from the loop as separate steps, since other goroutines count failures
in between; `run[r]` follows a goroutine through counting, the two appends, the release of the
semaphore and `wg.Done`. `Report` is the exit code of the command.

**Lifecycle.** `place` is where the caller is, `i` the hook being executed, `proc` the state of the process of each hook,
`ctx` its timeout context, `registry` the global slice. Processes start to listen, end, time
out and are killed by their context at any time, also after the hooks have returned. The caller
is `Run` or `StressTest` (`stress`); only the latter ignores the error and cleans up.

**Watch.** `loop` follows `runSmoke` and `runWatch`, `events` is the channel of the watcher,
`timer` the debounce timer, `stage[r]` where run `r` is between loading the configuration and
the last deferred call of its auth section. `cached`, `zeroed`, `keyfiles` and `handlers`
belong to the contexts that runs create; `token` and `keypath` are the environment. What the
tests do meanwhile is `Suite`; the two meet in `Acquire` and `Unwind` there, `Inject` to
`ZeroAll` here.

**Verdicts.** One operator for each `Check` function: from a check (the fields the author set) and
an observation (any that the world can offer) to the set of results. A text is the set of the
fragments it contains, a pattern the fragment it matches or one that does not compile. There is no
state; `Attempt` evaluates the operators.

**Probes.** One behaviour is one call of one `Check` function. Each is a script of steps (dial, arm
the deadline, send, read once or until whole, read frames, run a tool) and the peer is an actor of
its own that refuses, answers well or badly, in one piece or several, too early, with empty
frames, or never, and may hang up; a tool may fork and leave a child with its output pipe.
`Expire` is the deadline and is only enabled when one is armed, `Kill` the end of a tool whose
context has a timeout. Three kinds go on to another address or ask again (`Retrying`).

**Attempt.** `pc[t]` follows `runTestOnce`: skip_if, save and swap of the environment, the command,
the assertions, the extracts, then the deferred calls (restore, cleanup). `env` is one variable of
the process, `stored` the one variable tests hand on; in a parallel suite all attempts interleave
at every step. Which results the assertions give is `Verdicts`, applied to any observation. Its
reports are the events of `Suite` and `Report`.

**Report.** A process is one call of the command: one suite, the suites of a monorepo with one
reporter, or the runs of a watch loop, each with a new reporter. Its tests are the attempts at them,
since `runTestOnce` reports each: an attempt that is not `final` is followed by another at the same
test (`InTurn`), is shown like any other and counts for nothing (`Counted`). `collected` is the slice
that reporters append to, and different tests append side by side, the attempts at one test in turn
(`EarlierAttempts`); in a parallel run `AppendReads` and `AppendWrites` are separate. `Summary`
and `RunMonorepo` hand the counts to every reporter (`Write`, `Notify`). The baseline is loaded,
truncated and written in separate steps, at any of which the process may be killed (`Kill`) or
overtaken by another. `incident` is what the receiver of the notifications shows; `kept` and
`disturbed` are only read by properties.

**Config.** `stack` holds the files that are being loaded, since the code recurses: a frame is a
path, what has been merged so far, and the next include. `Open`, `Include`, `Return`, the request
(`Answer`, `NotModified`, or `NoAnswer`, which falls back to the cache), the truncation and
the writing of the cache entry, and `Merge` are steps; `Publish` is the server's. `Finish` applies
flags and, unless the suite is one of a monorepo, validates.

**Detector, Authoring.** `Detector` has the marks of each of the project types and the tests
generated for them, in the order of the code. `Authoring` runs a few processes over one directory
and one file; each reads, decides, composes a text, truncates and writes. Audit, fix, the
translation of each Goss resource and the snippets are operators on documents. Loading executes a
file as a template (`processTemplate`), which is what becomes of braces in a generated command.

**Dashboard.** `push[p]` follows a pushed run from the client through its handler; `rows`, `at`,
`stored` and `unpruned` are the table, its timestamps and what has happened to it. Insertion
and pruning are separate statements, between which other handlers run; either may fail. When
rows have the same timestamp, `Prune` may keep any of them, as SQLite may. `server` follows
`runServe`: `Terminate`, `CloseStore` (the deferred call) and `ProcessEnds` happen while
handlers are at any point.

## 3. Runs

| run | instance | states | shows |
|---|---|---|---|
| `suite` | 4 tests, 7 combinations of options | 300,891 | reporting, release, refinement of the ledger, termination of `Run` |
| `stress` | 4 runs, 2 workers, 2 messages | 382,197 | result, late starts and termination of the stress command |
| `lifecycle` | 34 lists of up to 3 hooks | 126,016 | processes of hooks, termination |
| `watch` | 2 edits (3 runs), 1 chmod, both fallbacks | 424,045 | credentials, release of contexts, changes picked up |
| `dashboard` | 5 pushes, limit 1, 2 s, 1 restart | 675,818 | history and acknowledgements |
| `probes` | 21 assertions, 2 tries, 1 empty frame | 1,187 | dialogues with any peer, return of each probe |
| `attempt` | 2 tests, in order and side by side; each assertion | 211,594 | what a pass means, ways out, credentials |
| `report` | 72 calls, some of them in pairs | 14,532 | documents, exit codes, incidents, baseline |
| `config` | 2 loads of 19, 13 files, 3 published versions, depth 2 | 50,679 | what a configuration is made of, the cache |
| `authoring` | up to 3 jobs, 7 files, all project types, each snippet | 421,534 | what is generated, fixed and read |
| `snapshot`, `services` | as `suite`, `lifecycle` | | findings, section 6 |

The bounds, and why they suffice:

- *suite*: four tests are an extractor, a bystander, a consumer and one more, so that
  a test can be before, between and after the chained ones. Retry counts are 0, 1, 2 and 3: none,
  the boundary at which there is no loop, one and two repetitions. The seven option records
  give each of: sequential with every section; fail-fast overriding parallel; a chain
  overriding parallel; a dry run; and parallel runs selected by tag, by exclusion and by name,
  with three, two and three tests at once.
- *stress*: with two workers and four runs the semaphore fills, is refilled while runs are in
  every stage, and runs are left to start when the first failure is counted. Two messages are
  needed for groups that are not all of one kind.
- *lifecycle*: of any two hooks of the five kinds that differ in control each may fail before
  the other; three lists add a third hook after a failure.
- *watch*: three runs are the initial one and two that overlap. Edits and chmod-only events
  can come in any order with the timer.
- *dashboard*: with a limit of one, three runs of a project need two prunes, in either order
  and with ties of timestamps; another project's run shows what a prune must leave alone.
  The three alike pushes are permuted by symmetry, which is sound as no property is temporal.
- *probes*: all scripts, complete. A reply of two parts is the smallest that can be cut, two tries
  (`MaxTries`) the smallest number of which one is not the last, and one empty frame (`MaxIdle`) shows
  that the reader goes on to the next.
- *attempt*: the interaction of tests is by pairs (the environment and one variable), so two tests
  with one variable, of which the first takes each way out. The
  assertions do not interact; each is tried alone with every field at the values it tells apart.
- *report*: up to three suites or runs, so that one is neither first nor last; three tests of
  different outcomes, one that passes on its second attempt and one that still fails on its third, with a
  skipped attempt in between; two processes where the baseline is at stake, whose tests differ in part.
- *config*: `MaxDepth` is 2 for the code's 10, so that a chain of exactly that depth, one longer and a
  circle exist; two loads share one cache entry while the server goes through three versions, the
  last of them broken.
- *authoring*: one directory for each mark of each type and eighteen for the rules that look at
  several marks; two writers and a reader over each of six files; each kind of snippet and all that can be
  observed in a file that names a collector and in one that does not.

Where a run checks for deadlock, the specification has explicit steps for the states in which
the program is at an end (`Done`, `Exited`, `Finished`, `Resting`). `dashboard`, `probes`, `attempt`,
`report`, `config` and `authoring` end when all their calls have returned and are checked without;
that a call returns is `ProbeReturns` and `EveryAttemptEnds`.

Configurations that are no runs reproduce what section 6 tells: `MCShadow` (with `MCSuite`),
`MCOneWorker` (`MCStress`), `MCZeroed` and `MCKeyfile` (`MCWatch`), `MCShutdown` (`MCDashboard`),
`MCOverride` (`MCAttempt`), `MCIncidents`, `MCRetried` and `MCArguments` (`MCReport`), `MCOverlay`
(`MCConfig`), `MCGenerated` and `MCFix` (`MCAuthoring`). TLC finds a violation with each; with `-continue`,
of each of the four invariants of `MCGenerated`.

## 4. Fairness

Liveness is claimed for `Suite`, `Stress` (`Termination`), `Lifecycle` (`HooksEnd`), `Watch`
(`ChangesPickedUp`), `Probes` (`ProbeReturns`) and `Attempt` (`EveryAttemptEnds`). Weak fairness is
assumed of each goroutine and of the main thread of
control, and of nothing else: Go schedules every runnable goroutine. What could block one is
cut off in the code: prerequisites, commands and hooks run under `context.WithTimeout`,
`wait_for_port` under its `startup_timeout`, plugins are compiled from local files, back-offs are
finite sleeps. One assumption goes beyond the code: that a command returns once its shell is
killed. No `WaitDelay` is set, so a grandchild that survives with the output pipe open keeps
`cmd.Run` waiting past the timeout; in `Suite`, `Attempt` and `Lifecycle` processes are shells without
such children. `Probes` has them: there the claim is that a probe returns *or* is stuck
for one of the two reasons the code leaves open, such a grandchild or an exec credential, which has no
timeout at all. Its fairness is of the probe's own goroutine (`Own`) and of time (`Time`:
deadlines pass, contexts kill); the peer need never answer.

In
`Lifecycle`, processes are not fair: they may hang forever, and termination rests on the
timeouts (`Expire`) and on `os/exec` killing the process of a context that is done
(`KilledByContext`). In `Watch`, users, editors and signals need never act; credentials need
never expire. `Dashboard`, `Report`, `Config` and `Authoring` assume no fairness and claim no liveness.

## 5. Proofs

TLAPS checks the following for every value of the constants that satisfies the assumption of
the module (`SuiteAssumption`, `StressAssumption`, `LifecycleAssumption`,
`WatchAssumption`, `DashboardAssumption`, `ReportAssumption`, `AttemptAssumption`, `ConfigAssumption`, and
`KindsAssumption` with `BoundsAssumption` of `Probes`). They give types, with at least one worker, one
try, and a positive limit of runs, which `NewStore` enforces; and `ReportAssumption` says that a call is of
one of the three modes of cmd/run.go, of which `run` without `--monorepo` or `--watch` has one suite.
`ConfigAssumption` says that files and published documents have the parts of the schema, that `Files` tells of
every path that comes up whether it is there, and that no path is empty or a URL. In
parentheses the property; those in italics are stated by no run, since the proof says more than a run would.

**SuiteProofs.** `TypeCorrect` (*TypeOK*), `Complete` (*SummaryComplete*), `Reported`
(`ReportedAsCounted`), `Stops` (*FailFastStops*), `Inside` (*TestsInsideRun*), `Released`
(`TornDown`), `Current` (`NoStalePublish`), `ChainsKept` (`ChainsRespected`). The inductive
invariant is a conjunction of
`PlaceInv` (no test is in progress outside the section *tests*), `ProgressInv` (what a test in
each phase has been through), `CountInv` (counters are cardinalities of sets of tests), `OrderInv`
(a sequential run gets to a test after all earlier ones are counted), `StopInv` (a counted
failure has stopped a fail-fast run, and nothing after it has begun), `EnvInv` (nobody
publishes between the copy and the publication in a sequential run) and `DeferInv` (what is
held is what is deferred, each once). None of the properties is inductive: `TornDown` for
instance speaks of the end only and needs the correspondence of `held` and `defers` on the way.
Each conjunct has a lemma with one step per action.

Two more rest on it. `NotRepeated` (`SettledNotRepeated`, an action property) needs `UnsettledInv`: a test
that waits for its next attempt, or is in one that is not the first, has not passed, nor has its trace
check where that is enough. `KeepsLedger` (`ImplementsLedger`) is the refinement of `SuiteLedger`: initial
states map to initial states, and each action to one that decides verdicts, to the publication of the
summary, or to a stutter. The publication is the hard one. `TallyInv` says that each counter is the number
of tests that were counted with its result, so that what is published is the tally of all the verdicts;
that a counted test keeps its result comes from `ProgressInv`, and that after a failure under fail-fast
only *skipped* is given from `StopInv`.

**StressProofs.** `TypeCorrect` (*TypeOK*), `Bounded` (*WorkerBound*), `Complete` (`ResultComplete`),
`ExitSound` (`ExitMeansAllPassed`), `OneLate` (`AtMostOneLate`), `TornDownLast`
(*TeardownAfterRuns*). `CountersMatch` relates semaphore, WaitGroup and counters to the numbers
of goroutines in the stages they count; `LoopBound` says which have been launched,
`ResultMatches` why the loop was left and what the result was built from, `LateInv` that a late
launch needs a check made before the first failure.

The same module has the theorems about `Lifecycle`, whose definitions begin with *Hooks* where a name would
clash: `HooksTypeCorrect` (*HooksTypeOK*), `HooksSkipped` (*SkipRule*), `FailedHooks`
(`FailedHookLeavesNothing`), `Tracked` (*NoUntrackedProcess*), `StressClean`
(`StressLeavesNoProcess`). `LoopInv` says that hooks beyond `i` are untouched and what is known
of the one in progress; `CleanupInv` that the registry is empty in the end.

**DashboardProofs.** `TypeCorrect` (*TypeOK*), `Bounded` (`HistoryBounded`), `Kept` (`NewestKept`),
`Acknowledged` (`AcceptedStored`). `StoredInv` relates the place of a push to whether its run
has been stored, so that a run is inserted once. The heart is `PruneStep`: if a prune keeps a
row older than a run pruned before, it keeps all rows that run had given way to. `LatestShown`
(*LatestSecondShown*) follows: a run that was pruned has given way to one of its second or later.

**ReportProofs.** `ExitSound` (`ExitTellsOutcome`), `BaselineSound` (`BaselineKept`),
`RegressionsSound` (`RegressionsReported`), for any number of processes, calls and suites. For the
exit code, which for each of 0 to 3 says what must have happened, `Progress` says that a process at suite
*n* has run the earlier ones and that a total of no failures means that none of them had any (`Ran`); a watch
loop is exempt, as it goes on after a suite that could not run. `BaselineInv` says that while nothing is disturbed at most one
process is between load and end of its save, and that what it has loaded is what was kept: from
this, a merge of the loaded timings with the new ones is the merge of the kept ones.
`IncidentSound` (`FailureRaisesIncident`) needs that a reporter that has not yet been given a summary
remembers none, outside of a monorepo (`Fresh`), since *on: change* is silent about a failure that follows
a remembered one; this is where the single suite of a plain run and the new reporter of each run of a watch
loop matter. `TypeCorrect` (*TypeOK*) has the types, and that appends overlap for different tests only.
`DocumentsSound` (`DocumentsAgree`) says which attempts a list shows by a function from its entries to the places
of the suite: one-to-one if none is shown twice, increasing and onto if all are shown in order. `Reporting`
keeps such a function for what a reporter has collected: while the tests of a suite run, for the attempts whose
event has arrived (`Arrived`), after those of the earlier suites of a monorepo; in parallel runs also for every
list that an append has read and is about to write back (`Telling`), which is why a lost attempt is never one
that is shown twice. Marks and counts follow, since the function that shows all attempts is a bijection
between those of the list that failed and those of the suite that did (`SameBlame`), and the failures that a
suite counts are those, less the ones that were retried, with those that made no event (`FailuresSplit`).

**AttemptProofs.** `TypeCorrect` (*TypeOK*), `LeftInOrder` (`LeavesInOrder`), `HandedOn`
(`OnlyPassingTestsHandOn`), `KeptApart` (`CredentialsKeptApart`) and `PassWarranted`
(`PassIsWarranted`), for any tests and suites. `OrderInv` gives for each phase how often an attempt
was reported and cleaned up; `EnvInv` says that of sequential attempts at most one is under way and
that what it has put aside is "no credential". `VerdictInv` says that what was observed is an
observation of a configured check, and that after a pass nothing is observed any more. That results
which all passed are enough for what the check claims is lemma `Verdict`, one case for each of the 29 kinds.
`AttemptAssumption` gives the types of the test records and of the fields of observations that are
calculated with (`WellFormed`).

**ProbeProofs.** `ProbesTyped` (*TypeOK*), `PassEarned` (`PassIsEarned`), `FailureDeserved`
(`FailureIsDeserved`) and `AllClosed` (`NothingLeftOpen`), for any of the assertions and any numbers of tries
and empty frames. The first part shows, script by script, that a script fits its dialogue (`Fits`): a read
expects the reply that is next, of its size, and not before enough was sent to get it. The rest only uses
`Fits`, so that a new assertion needs a lemma about its script and nothing else. `ProbeInv` (theorem
`ProbesSound`) consists of `ConnInv` (a connection is open from its only dial to the verdict), `ToolInv` (a
killed tool has said nothing good), `HeardInv` (before step *i* the replies that were read were good, what is
on the wire is the next one, and the peer has not run ahead, unless its message went in with the upgrade or
is one that is drained) and `WireInv` (what is wrong with what the peer says is recorded). Neither property
is inductive: a pass at the last step is earned because of what was heard on the way, and a timeout is
only the peer's fault if all that was sent by then is accounted for.
`AlwaysArmed` (*WaitsAreBounded*) is the safe half of `ProbeReturns`: no read, on any try, is without a
deadline, and no tool that is given a context runs without it. What keeps a probe for ever is therefore never
a peer that does not answer. `ArmedInv` says that past the step of its script that sets the deadline a probe
has one, which a new try takes away together with its place in the script.

**WatchProofs.** `WatchTyped` (*TypeOK*), `NoneAtRest` (`NoCredentialsAtRest`) and `AllReleased`
(`ContextsReleased`), for any number of edits and of overlapping runs. What a run is handed may already be
zeroed (`MCZeroed`, section 6): the theorems are about what is left behind, not about what is received. `WatchInv` (theorem `WatchSound`) has `ContextInv` (a run gets its context from an
exchange that succeeded, has none before, and only credentials grow old), `EnvInv` (what is in the
environment has a run that will take it out) and `ReleaseInv` (a run that is done has overwritten the
credentials and removed the keyfile of its context, whichever run that context came from). In `EnvInv` the run
need not be the one that put it there: any of the runs that overlap unsets the same variables.

**ConfigProofs.** `DepthExact` (`DepthIsExact`), `RemotePublished` (`RemoteIsPublished`), `NoneLost`
(`NothingLost`) and `CirclesRefused` (*CirclesFail*), for any files, circular includes too, any documents on
the server, any limit and any number of processes. The properties speak of results, so none is inductive; what
a result will be has to be read off the files a process has open. `ConfigInv` (theorem `ConfigSound`) has

- `StackInv`: the open files are a chain of includes from the root, each at its level and with the includes and
  the extended document it was read with; only the innermost may be unread, or not there, or one too deep;
- `DepthInv`: no include that lies behind leads deeper than the limit allows below its file, so that a file
  that returns is not too deep; one that is opened beyond the limit is a member of the level that is one too many;
- `NothingInvented` and `NothingMissed`: what the documents of all open files hold together is of files and
  documents that are reached, and whatever lies behind, with all that it includes and extends, is in it;
- `OwnLast`: the root's own tests are the last of its document, since everything is merged in front;
- `CacheInv` and `FetchInv`: the cache and what was read of it are published versions or the empty entry, and
  what is being written or merged was noted as used;
- `VersionInv` and `HasVersion`: a root that extends the empty entry has no version until it ends, and fails
  the validation then.

`Level`, the files at each distance from a path, is a recursive function; that every path through the includes
of an included file is one through those of the file, one level further, is an induction over numbers. The
lemma for it, `NatSetInduction`, is about a set and comes from the well-foundedness of the order. `NothingMissed`
is where merges matter: the lemmas about `MergeConfigs`, `MergeEnv` and `Override` say what each keeps of its
two documents. `CirclesRefused` follows from `DepthExact`: a path into a circle has files on every level.

Model-checked only:

- All liveness, which is beyond TLAPS: `Termination`, `HooksEnd`, `ChangesPickedUp`, `ProbeReturns`,
  `EveryAttemptEnds`.
- `FixSettles`, `GeneratedIsValid` and `ValidMeansWhole` in `Authoring`: what is said of each type of project
  and each resource are evaluations of constants, which TLC does completely, over lists that are composed by
  folds.
- `ErrorsGrouped` in `Stress`, a sum over a set by a fold, which is stated and holds on small instances.

Induction is only at hand over numbers and for a given set: that a fold or a recursive definition over data
computes what it should for every input is not proved.

## 6. Findings

Runs that are expected to end with a violation. Each checks one statement of the repository's
documents against what the code does; `PROJECT.json` quotes the statement.

- `snapshot`: in parallel runs a command may see the variables of another test's hooks, since
  the hooks' environment is stored in `Vars`, which all tests share
  (docs/LIFECYCLE.md:248 promises a snapshot). In sequential runs it cannot.
- `services`: background processes are killed when `RunLifecycleHooks` returns, before the
  first test, since the context of each is cancelled by a `defer` there (docs/LIFECYCLE.md:115).

Reproduced by a configuration that is no run:

- `MCShadow`, `ConsumerNeverOverlaps`: a test that both reads and extracts a variable hides the earlier
  extractor from `detectChains`; extractor and consumer run in parallel (runner.go:250).
- `MCOneWorker`, `StopsOnFirstFailure`: `--fail-fast` starts one more run after a failure, also with one
  worker, since the check is made before the wait for the semaphore. `OneLate` proves that it is one at most.
- `MCZeroed`, `CachedCredentialsLive`: in watch mode the second run gets the credentials that the first has
  overwritten (auth/exchange.go:67).
- `MCKeyfile`, `KeyfilesGoneOnExit`: on a signal in watch mode the program may end before the handler that
  removes the keyfile has run (auth/provider_gcp.go:124).
- `MCShutdown`, `GracefulShutdown`: the server does not wait for the graceful shutdown it starts: it closes
  the store and ends while handlers are at work, before the deadline (docs/DASHBOARD.md:272).
- `MCOverride`, `OverrideIsUndone`: parallel tests with profiles save and restore one environment; when they
  overlap, a credential stays in it (runner.go:511; docs/brainstorming/2026-05-29-oidc-cloud-integration.md:371
  says that the override is undone). `CredentialsKeptApart` shows that sequential ones do not.
- `MCIncidents`, `RecoveredMeansResolved`: an incident stays open when a run recovers (webhook.go:115,
  SPEC.md:244), since every run builds a reporter that remembers no failure; with `on: always` a passing
  run even triggers one (webhook.go:285).
- `MCRetried`, `EachTestBecomesASpan`: a test that is retried is reported once per attempt
  (runner.go:405, 1035), so that it has several spans, testcases and entries, failed ones too when it passes in
  the end and the counts say that nothing failed (SPEC.md:1452). `DocumentsAgree` counts them exactly.
- `MCArguments`, `BadArgumentsExitWith2`: an invalid `--timeout` or `--format` ends with 1, like a failed test
  (README.md:457 says 2 for invalid arguments). `ExitTellsOutcome` allows either.
- `MCOverlay`, `LocalOverlaysRemote`: auth, lifecycle and notifications of a remote document win over the
  local ones (remote.go:194, SPEC.md:34).
- `MCGenerated`, `MigratedIsValid`: what `migrate goss` writes has neither version nor project, and `run`
  refuses it (README.md:37). `ObservedIsValid`: `observe` writes assertions on what was printed or created as
  tests of their own without a command, and `run` refuses the file (README.md:29, observer/generator.go:62).
  `SnippetIsValid`: the snippet of `otel_trace` has no `jaeger_url`, and validation refuses the file that it is
  added to unless that names a collector (mcp/server.go:197 promises valid YAML, mcp/handlers.go:359,
  schema/validate.go:125). `ContainerAsked`: the first test of `init --from-running` asks
  docker with `{{.State.Running}}`, which loading expands to `<no value>`, so that it can never pass
  (README.md:324, detector/container.go:76). `GeneratedIsValid` says that there is no other case.
- `MCFix`, `FixAppends`: `audit --fix` writes the merged configuration back, so that what the file includes
  or extends is in it twice or frozen (cmd/audit.go:80).

Met while modelling, and part of the models where these reach:

- Assertions: a service that `docker compose` does not list is not missed (assertion_docker.go:104);
  types are not looked for in a GraphQL reply without data (assertion_graphql.go:118); a plugin that refuses
  and gives passing details is not heard (runner.go:1000); the body of a broker's metadata may be missing
  (assertion_kafka.go:109); a websocket check that sends and expects nothing always fails
  (assertion_ws.go:247). `PassIsWarranted` and `FailureIsDeserved` name these as their only exceptions.
  The template in an http URL is not resolved, against docs/LIFECYCLE.md:218.
- Hooks: docs/LIFECYCLE.md:142 speaks of automatic cleanup of background processes, which only `StressTest`
  performs; the order of prerequisites and before_all in docs/LIFECYCLE.md:13 is the reverse of the code's.
- Credentials: a registered keyfile handler takes the default action of the signal away, so that Ctrl-C does
  not end the initial run; with the fallback `env` an exchange that failed is cached for good.
- Reports: the GitHub, Backstage and Prometheus formats present skipped tests as failures; with `on: change`
  a second failing project of a monorepo raises nothing; a watch with an unknown format keeps watching; a save of the baseline that is
  cut short forgets all of it; docs/DASHBOARD.md:162 derives the status from the most recent run, which the
  store only knows up to the second.
- Configuration: suites of a monorepo are not validated; tests that name a profile pass validation when there
  are no profiles; the empty cache entry left by a process that is killed before it writes it (remote.go:174) is
  refused by validation when the suite itself refers to it, and goes unnoticed when an included or an
  environment file does, which `RemoteIsPublished` tells apart; `extends` and `includes` of a remote document
  are ignored; the walk that discovers suites skips everything when its root is named build or dist, and its
  exclusions do not match relative paths (SPEC.md:1480).
- Chains: loading expands all braces with nothing but `.Env` at hand (schema.go:505), so that a reference
  `{{ .Vars.token }}` written as README.md:31 shows it is `<no value>` before a run begins; it survives
  only if the file escapes it (`{{ "{{ .Vars.token }}" }}`). `Suite`, `Chains` and `Attempt` begin with the
  suite as it was loaded.
- Authoring: `smoke_run` runs without validation (mcp/handlers.go:20); `observe` overwrites without looking;
  `migrate goss` silently
  drops resources that must not exist, gossfiles and http headers also under `--strict` (cmd/migrate.go:48);
  snippets of unknown kinds are comments, although all 40 are promised (mcp/server.go:197).

## 7. What is left out

`PROJECT.json` lists every component with its status and, under `hazards`, what each of them is
exposed to, with a note where no property covers it. The parts that no module models:

- *Terminal interface*: in no build (section 1).
- *Trace context and trace health*: random identifiers and a window of booleans under one mutex.
- *Monorepo discovery*: a directory walk; its result is an input of `Report`.
- *Prerequisites*: one command each; that one may fail is a step of `Suite` and `Report`.
- *MCP protocol, OpenTelemetry export, layout of documents*: formatting and transport.

Inside the modelled parts:

- Data: durations, texts and the fields of summaries beyond the counters. A data race on the interior
  of a map is not modelled (`Vars` and
  `backgroundProcesses` have mutexes; the write of `lifecycleEnv` outside its lock is one word); that on
  the slices of reporters is (`AppendReads`, `AppendWrites`).
- `Suite`: `RunSingle`, the components that `detectChains` returns.
- `Stress`: zero or negative workers. A channel without room would block the loop for ever; the
  command's default is used as the assumption that there is at least one.
- `Lifecycle`: the tests' own hooks have the same function as their body but a different
  caller, in `Suite`. A process is the shell; grandchildren are only followed in `Probes`.
- `Watch`: one profile with one keyfile; one signal; `Setenv` of token and path as one step; the
  shared variable `cfg` between load and use; the age of the cached configuration. `RefreshAll`
  has no caller in the repository.
- `Dashboard`: the clock never goes backwards; SQLite is external and each statement atomic;
  the history query and the page; `GET` requests change nothing.
- `Probes`: the bytes of a protocol; a reply is the expected one or not. Servers are external. That
  net/smtp asks with HELO when EHLO is refused; the one reply stands for what it settles on.
- `Report`: the push of a summary over the network is `Dashboard`; a notification arrives or is lost.
- `Config`: of the limits on single fields those that loading can change.
- `Authoring`: what a directory or an observed program looks like is input; the text of generated
  commands and messages is left out, but for braces; snippets have their default values. Plugins: their host functions are compiled and never
  instantiated (plugin/host.go:55), so that no plugin can call them.

## 8. Plan

Done in this order: the runner core with its ledger and chains, the stress tester, hooks, the watch loop
with credentials, the dashboard; the attempt with verdicts and probes; reports, exit codes and baseline;
configuration; authoring. Proofs of all safety properties that a run checks, but for those of `Authoring`, and the
refinement of the ledger. Next:

1. Prerequisites with their timeouts, trace health and monorepo discovery as operators of `Suite`
   and `Report`.
2. `ValidMeansWhole` of `Authoring` for any number of jobs, with what its operators on documents yield as
   assumptions that TLC evaluates.

Abstract specifications worth stating: a credential lease for `Watch` (issued, used, released
once) and a bounded log for `Dashboard`.

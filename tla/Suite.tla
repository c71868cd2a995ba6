-------------------------------- MODULE Suite -------------------------------
(***************************************************************************)
(* One call of Runner.Run (internal/runner/runner.go): the setup sections, *)
(* the tests with their hooks, attempts and retries, run one after the     *)
(* other or each in a goroutine of its own, the summary, and the deferred  *)
(* teardown.                                                               *)
(*                                                                         *)
(* Data is reduced to what the properties tell apart: a test is its index  *)
(* in the configuration, an attempt has an outcome, and of all variables   *)
(* that hooks capture with env_pass there is one, whose value names the    *)
(* hook that printed it: 2 * N + 1 for before_all, t for before_each of    *)
(* test t, N + t for after_each of test t, and 0 as long as none has.      *)
(*                                                                         *)
(* Some definitions precede the one they vary and carry a plausible fault; *)
(* their comments begin with "Fault:".  They take no part in Spec; put in  *)
(* the place of the definition, each must break a property.                *)
(***************************************************************************)
EXTENDS Chains, Sequences

CONSTANTS
  RetryCount,    \* retry.count of each test, 0 without a retry policy
  TraceOnly,     \* retry.retry_on_trace_only of each test
  AllowFailure,  \* allow_failure of each test
  Tags,          \* tags of each test
  Options        \* the option and section combinations a run is started with

Outcomes == {"passed", "failed", "skipped", "allowed"}
Sections == {"before_all", "after_all", "prereqs", "auth", "plugins",
             "before_each", "after_each"}
Deferrable == {"after_all", "auth", "plugins"}
HookValue == 0..(2 * N + 1)
NoSummary == [total |-> -1]
Counters == [total : Nat, passed : Nat, failed : Nat, skipped : Nat, allowed : Nat]

\* Settings, flags, and the sections of the configuration that are not empty.
RunOptions ==
  [parallel : BOOLEAN, failFast : BOOLEAN, dryRun : BOOLEAN,
   include : SUBSET UNION {Tags[t] : t \in Tests},
   exclude : SUBSET UNION {Tags[t] : t \in Tests},
   names : SUBSET Tests, has : SUBSET Sections]

ASSUME SuiteAssumption ==
  /\ N \in Nat
  /\ RetryCount \in [Tests -> Nat]
  /\ TraceOnly \in [Tests -> BOOLEAN]
  /\ AllowFailure \in [Tests -> BOOLEAN]
  /\ Options \subseteq RunOptions

VARIABLES
  opts,          \* options of this run
  pc,            \* where Run is
  err,           \* the section whose error Run returns, "none" without one
  defers,        \* deferred calls, the last one runs first
  held,          \* credentials and plugin manager while Run holds them
  afterAll,      \* how often the after_all hooks have run
  selected,      \* tests left after filtering
  phase,         \* where runTestWithHooks is, for each test
  attempt,       \* attempts started, for each test
  shown,         \* the last event the reporter got for a test
  confirmed,     \* whether the last attempt's otel_trace assertion passed
  result,        \* the TestResult of a test
  counts,        \* the counters of the SuiteResult
  stopped,       \* runSequential has seen a failure under fail-fast
  summary,       \* what Reporter.Summary was called with
  env,           \* the local env of runTestWithHooks
  lifecycleEnv,  \* Runner.lifecycleEnv
  hookVar,       \* the hook variable in Runner.Vars
  seen           \* the value a test's command was resolved with

mainVars == <<opts, pc, err, defers, held, afterAll, selected, counts, stopped, summary>>
envVars == <<env, lifecycleEnv, hookVar, seen>>
testVars == <<phase, attempt, shown, confirmed, result>>
vars == <<mainVars, testVars, envVars>>

Init ==
  /\ opts \in Options
  /\ pc = "before_all"
  /\ err = "none"
  /\ defers = <<>>
  /\ held = {}
  /\ afterAll = 0
  /\ selected = {}
  /\ phase = [t \in Tests |-> "idle"]
  /\ attempt = [t \in Tests |-> 0]
  /\ shown = [t \in Tests |-> "none"]
  /\ confirmed = [t \in Tests |-> FALSE]
  /\ result = [t \in Tests |-> "none"]
  /\ counts = [total |-> 0, passed |-> 0, failed |-> 0, skipped |-> 0, allowed |-> 0]
  /\ stopped = FALSE
  /\ summary = NoSummary
  /\ env = [t \in Tests |-> 0]
  /\ lifecycleEnv = 0
  /\ hookVar = 0
  /\ seen = [t \in Tests |-> 0]
-----------------------------------------------------------------------------
(***************************************************************************)
(* Setup.  Each section may fail if the configuration has it; the error    *)
(* makes Run return, through the calls deferred so far.                    *)
(***************************************************************************)
Configured(section) == section \in opts.has

Fail(section) ==
  /\ Configured(section)
  /\ err' = section
  /\ pc' = "unwind"

\* before_all failing returns before after_all is deferred.
BeforeAll ==
  /\ pc = "before_all"
  /\ \/ /\ Fail("before_all")
        /\ UNCHANGED defers
     \/ /\ pc' = "prereqs"
        /\ defers' = IF Configured("after_all") THEN <<"after_all">> ELSE <<>>
        /\ UNCHANGED err
  /\ lifecycleEnv' = IF Configured("before_all") THEN 2 * N + 1 ELSE lifecycleEnv
  /\ UNCHANGED <<opts, held, afterAll, selected, counts, stopped, summary, testVars,
                 env, hookVar, seen>>

\* All prerequisites are checked and reported before the first failure returns.
Prereqs ==
  /\ pc = "prereqs"
  /\ \/ Fail("prereqs")
     \/ /\ pc' = "auth"
        /\ UNCHANGED err
  /\ UNCHANGED <<opts, defers, held, afterAll, selected, counts, stopped, summary,
                 testVars, envVars>>

Acquire(resource) ==
  /\ defers' = Append(defers, resource)
  /\ held' = held \cup {resource}

AuthExchange ==
  /\ pc = "auth"
  /\ \/ /\ Fail("auth")
        /\ UNCHANGED <<defers, held>>
     \/ /\ pc' = "plugins"
        /\ IF Configured("auth") THEN Acquire("auth") ELSE UNCHANGED <<defers, held>>
        /\ UNCHANGED err
  /\ UNCHANGED <<opts, afterAll, selected, counts, stopped, summary, testVars, envVars>>

\* Fault: the Close is deferred after the loads, so a failing load leaks the manager.
LoadPluginsDeferLate ==
  /\ pc = "plugins"
  /\ Fail("plugins")
  /\ held' = held \cup {"plugins"}
  /\ UNCHANGED <<opts, defers, afterAll, selected, counts, stopped, summary,
                 testVars, envVars>>

\* The manager is closed on every path once it exists, also if a load fails.
LoadPlugins ==
  /\ pc = "plugins"
  /\ \/ /\ Fail("plugins")
        /\ UNCHANGED <<defers, held>>
     \/ /\ Fail("plugins")
        /\ Acquire("plugins")
     \/ /\ pc' = "select"
        /\ IF Configured("plugins") THEN Acquire("plugins") ELSE UNCHANGED <<defers, held>>
        /\ UNCHANGED err
  /\ UNCHANGED <<opts, afterAll, selected, counts, stopped, summary, testVars, envVars>>

\* filterTests and filterByName: an empty list selects everything.
Selected(o) ==
  {t \in Tests :
     /\ o.include = {} \/ Tags[t] \cap o.include # {}
     /\ Tags[t] \cap o.exclude = {}
     /\ o.names = {} \/ t \in o.names}

Select ==
  /\ pc = "select"
  /\ selected' = Selected(opts)
  /\ counts' = [counts EXCEPT !.total = Cardinality(selected')]
  /\ pc' = "tests"
  /\ UNCHANGED <<opts, err, defers, held, afterAll, stopped, summary, testVars, envVars>>

\* Fault: chains are not looked for.
ParallelUnchained == opts.parallel /\ ~opts.failFast

\* Fail-fast and chains force runSequential.
Parallel == opts.parallel /\ ~opts.failFast /\ ~HasChain(selected)
-----------------------------------------------------------------------------
(***************************************************************************)
(* One test: runTestWithHooks, runTest and runTestOnce.                    *)
(***************************************************************************)
Earlier(t) == {u \in selected : u < t}
Counted(S) == \A u \in S : phase[u] = "counted"
Returned(S) == \A u \in S : phase[u] \in {"returned", "counted"}

\* Fault: runSequential does not wait for the test it started.
MayStartUnawaited(t) == Parallel \/ ~stopped

\* runParallel starts a goroutine per test; runSequential gets to t in its turn.
MayStart(t) == Parallel \/ (Counted(Earlier(t)) /\ ~stopped)

Goto(t, p) == phase' = [phase EXCEPT ![t] = p]

\* The private copy of lifecycleEnv, taken under the read lock.
Snapshot(t) ==
  /\ pc = "tests"
  /\ t \in selected
  /\ phase[t] = "idle"
  /\ MayStart(t)
  /\ env' = [env EXCEPT ![t] = lifecycleEnv]
  /\ Goto(t, "before_each")
  /\ UNCHANGED <<mainVars, attempt, shown, confirmed, result,
                 lifecycleEnv, hookVar, seen>>

\* The hooks extend the copy, whose entries are then stored in the shared Vars.
BeforeEach(t) ==
  /\ phase[t] = "before_each"
  /\ env' = [env EXCEPT ![t] = IF Configured("before_each") THEN t ELSE @]
  /\ hookVar' = IF env'[t] = 0 THEN hookVar ELSE env'[t]
  /\ Goto(t, "publish")
  /\ UNCHANGED <<mainVars, attempt, shown, confirmed, result,
                 lifecycleEnv, seen>>

\* A failing hook is the test's result: no event, no after_each, no allow_failure.
BeforeEachFails(t) ==
  /\ phase[t] = "before_each"
  /\ Configured("before_each")
  /\ result' = [result EXCEPT ![t] = "failed"]
  /\ Goto(t, "returned")
  /\ UNCHANGED <<mainVars, attempt, shown, confirmed, envVars>>

PublishEnv(t) ==
  /\ phase[t] = "publish"
  /\ lifecycleEnv' = env[t]
  /\ Goto(t, "attempt")
  /\ UNCHANGED <<mainVars, attempt, shown, confirmed, result,
                 env, hookVar, seen>>

\* Fault: retry_on_trace_only is ignored.
SettlesUntraced(t, o, c) ==
  RetryCount[t] <= 1 \/ o = "passed" \/ attempt'[t] >= RetryCount[t]

\* What runTest does with the outcome o of an attempt and its trace check c.
Settles(t, o, c) ==
  \/ RetryCount[t] <= 1
  \/ o = "passed"
  \/ TraceOnly[t] /\ c
  \/ attempt'[t] >= RetryCount[t]

\* Fault: the last result is shadowed in the loop, so runTest returns an empty one.
EndAttemptShadowed(t, o, c) ==
  /\ shown' = [shown EXCEPT ![t] = o]
  /\ confirmed' = [confirmed EXCEPT ![t] = c]
  /\ IF Settles(t, o, c)
     THEN /\ Goto(t, "after_each")
          /\ result' = [result EXCEPT ![t] =
                          IF RetryCount[t] <= 1 \/ o = "passed" THEN o ELSE "failed"]
     ELSE Goto(t, "backoff") /\ UNCHANGED result

EndAttempt(t, o, c) ==
  /\ shown' = [shown EXCEPT ![t] = o]
  /\ confirmed' = [confirmed EXCEPT ![t] = c]
  /\ IF Settles(t, o, c)
     THEN Goto(t, "after_each") /\ result' = [result EXCEPT ![t] = o]
     ELSE Goto(t, "backoff") /\ UNCHANGED result

\* skip_if holds, the recursion guard triggers, or the run is a dry run.
EndWithoutCommand(t) ==
  /\ phase[t] = "attempt"
  /\ attempt' = [attempt EXCEPT ![t] = @ + 1]
  /\ \/ EndAttempt(t, "skipped", FALSE)
     \/ opts.dryRun /\ EndAttempt(t, "passed", FALSE)
  /\ UNCHANGED <<mainVars, envVars>>

\* TestStart; the command's template is resolved from Vars and it is started.
StartCommand(t) ==
  /\ phase[t] = "attempt"
  /\ ~opts.dryRun
  /\ attempt' = [attempt EXCEPT ![t] = @ + 1]
  /\ shown' = [shown EXCEPT ![t] = "running"]
  /\ seen' = [seen EXCEPT ![t] = hookVar]
  /\ Goto(t, "running")
  /\ UNCHANGED <<mainVars, confirmed, result, env, lifecycleEnv, hookVar>>

\* The command ended or was killed; its assertions decide the attempt.
EndCommand(t) ==
  /\ phase[t] = "running"
  /\ \E o \in {"passed", IF AllowFailure[t] THEN "allowed" ELSE "failed"},
       c \in BOOLEAN :
          /\ UNCHANGED attempt
          /\ EndAttempt(t, o, c)
  /\ UNCHANGED <<mainVars, envVars>>

\* Fault: the attempt counter is a new one after each back-off.
BackoffForgets(t) ==
  /\ phase[t] = "backoff"
  /\ attempt' = [attempt EXCEPT ![t] = 0]
  /\ Goto(t, "attempt")
  /\ UNCHANGED <<mainVars, shown, confirmed, result, envVars>>

Backoff(t) ==
  /\ phase[t] = "backoff"
  /\ Goto(t, "attempt")
  /\ UNCHANGED <<mainVars, attempt, shown, confirmed, result, envVars>>

\* The env is published without the lock; the pointer store itself is one word.
AfterEach(t) ==
  /\ phase[t] = "after_each"
  /\ IF Configured("after_each")
     THEN /\ env' = [env EXCEPT ![t] = N + t]
          /\ lifecycleEnv' = N + t
     ELSE UNCHANGED <<env, lifecycleEnv>>
  /\ Goto(t, "returned")
  /\ UNCHANGED <<mainVars, attempt, shown, confirmed, result, hookVar, seen>>

TestStep(t) ==
  \/ Snapshot(t) \/ BeforeEach(t) \/ BeforeEachFails(t) \/ PublishEnv(t)
  \/ EndWithoutCommand(t) \/ StartCommand(t) \/ EndCommand(t)
  \/ Backoff(t) \/ AfterEach(t)
-----------------------------------------------------------------------------
(***************************************************************************)
(* The rest of Run: counting, the summary and the deferred calls.          *)
(***************************************************************************)
\* runSequential counts as it goes, runParallel after wg.Wait; both in order.
Count(t) ==
  /\ pc = "tests"
  /\ t \in selected
  /\ phase[t] = "returned"
  /\ Counted(Earlier(t))
  /\ Parallel => Returned(selected)
  /\ counts' = [counts EXCEPT ![result[t]] = @ + 1]
  /\ stopped' = (stopped \/ (opts.failFast /\ result[t] = "failed"))
  /\ Goto(t, "counted")
  /\ UNCHANGED <<opts, pc, err, defers, held, afterAll, selected, summary,
                 attempt, shown, confirmed, result, envVars>>

\* Fault: what fail-fast leaves out is counted as an allowed failure.
SkipRestAsAllowed(t) ==
  /\ pc = "tests"
  /\ t \in selected
  /\ phase[t] = "idle"
  /\ stopped
  /\ Counted(Earlier(t))
  /\ result' = [result EXCEPT ![t] = "skipped"]
  /\ shown' = [shown EXCEPT ![t] = "skipped"]
  /\ counts' = [counts EXCEPT !.allowed = @ + 1]
  /\ Goto(t, "counted")
  /\ UNCHANGED <<opts, pc, err, defers, held, afterAll, selected, stopped, summary,
                 attempt, confirmed, envVars>>

\* After a failure under fail-fast the remaining tests are reported as skipped.
SkipRest(t) ==
  /\ pc = "tests"
  /\ t \in selected
  /\ phase[t] = "idle"
  /\ stopped
  /\ Counted(Earlier(t))
  /\ result' = [result EXCEPT ![t] = "skipped"]
  /\ shown' = [shown EXCEPT ![t] = "skipped"]
  /\ counts' = [counts EXCEPT !.skipped = @ + 1]
  /\ Goto(t, "counted")
  /\ UNCHANGED <<opts, pc, err, defers, held, afterAll, selected, stopped, summary,
                 attempt, confirmed, envVars>>

Summarise ==
  /\ pc = "tests"
  /\ Counted(selected)
  /\ summary' = counts
  /\ pc' = "unwind"
  /\ UNCHANGED <<opts, err, defers, held, afterAll, selected, counts, stopped,
                 testVars, envVars>>

\* after_all hooks run, credentials are unset and zeroed, or plugins are closed.
Unwind ==
  /\ pc = "unwind"
  /\ defers # <<>>
  /\ LET last == defers[Len(defers)]
     IN  /\ held' = held \ {last}
         /\ afterAll' = IF last = "after_all" THEN afterAll + 1 ELSE afterAll
  /\ defers' = SubSeq(defers, 1, Len(defers) - 1)
  /\ UNCHANGED <<opts, pc, err, selected, counts, stopped, summary, testVars, envVars>>

Return ==
  /\ pc = "unwind"
  /\ defers = <<>>
  /\ pc' = "returned"
  /\ UNCHANGED <<opts, err, defers, held, afterAll, selected, counts, stopped, summary,
                 testVars, envVars>>

MainStep ==
  \/ BeforeAll \/ Prereqs \/ AuthExchange \/ LoadPlugins \/ Select
  \/ (\E t \in Tests : Count(t) \/ SkipRest(t))
  \/ Summarise \/ Unwind \/ Return

\* Run has returned; its caller owns what happens next.
Done == pc = "returned" /\ UNCHANGED vars

Next == MainStep \/ (\E t \in Tests : TestStep(t)) \/ Done

(***************************************************************************)
(* Every goroutine makes progress: prerequisites, hooks and commands run   *)
(* under a timeout, plugins are compiled from local files, and back-offs   *)
(* are finite.  A killed command is taken to let go of its pipes.          *)
(***************************************************************************)
Fairness ==
  /\ WF_vars(MainStep)
  /\ \A t \in Tests : WF_vars(TestStep(t))

Spec == Init /\ [][Next]_vars /\ Fairness
-----------------------------------------------------------------------------
(***************************************************************************)
(* Properties.                                                             *)
(***************************************************************************)
Active == {t \in Tests : phase[t] \notin {"idle", "returned", "counted"}}
MaxAttempts(t) == IF RetryCount[t] <= 1 THEN 1 ELSE RetryCount[t]

Phases == {"idle", "before_each", "publish", "attempt", "running", "backoff",
           "after_each", "returned", "counted"}
Places == {"before_all", "prereqs", "auth", "plugins", "select", "tests",
           "unwind", "returned"}

(***************************************************************************)
(* Every variable has its type; no test is attempted more often than its   *)
(* retry policy allows (the loop bound of runTest).                        *)
(***************************************************************************)
TypeOK ==
  /\ opts \in Options
  /\ pc \in Places
  /\ err \in Sections \cup {"none"}
  /\ defers \in Seq(Deferrable)
  /\ held \in SUBSET {"auth", "plugins"}
  /\ afterAll \in Nat
  /\ selected \in SUBSET Tests
  /\ phase \in [Tests -> Phases]
  /\ attempt \in [Tests -> Nat]
  /\ \A t \in Tests : attempt[t] <= MaxAttempts(t)
  /\ shown \in [Tests -> Outcomes \cup {"none", "running"}]
  /\ confirmed \in [Tests -> BOOLEAN]
  /\ result \in [Tests -> Outcomes \cup {"none"}]
  /\ counts \in Counters
  /\ stopped \in BOOLEAN
  /\ summary \in Counters \cup {NoSummary}
  /\ env \in [Tests -> HookValue]
  /\ lifecycleEnv \in HookValue
  /\ hookVar \in HookValue
  /\ seen \in [Tests -> HookValue]

(***************************************************************************)
(* The published counters account for every selected test exactly once:    *)
(* nothing a goroutine returned is dropped, and nothing is counted twice   *)
(* (runSequential, runParallel and the Summary call of Run).               *)
(***************************************************************************)
SummaryComplete ==
  summary # NoSummary =>
    /\ summary.total = Cardinality(selected)
    /\ summary.total = summary.passed + summary.failed + summary.skipped + summary.allowed

(***************************************************************************)
(* The result a test is counted with is the one its last attempt was       *)
(* reported with; the one exception is a test whose before_each hooks      *)
(* failed, which is counted as failed and never reported (runTest,         *)
(* runTestWithHooks).                                                      *)
(***************************************************************************)
ReportedAsCounted ==
  \A t \in Tests : phase[t] = "counted" =>
    \/ shown[t] = result[t]
    \/ shown[t] = "none" /\ attempt[t] = 0 /\ result[t] = "failed"

(***************************************************************************)
(* Under fail-fast, once a test has failed no later test runs a hook or a  *)
(* command: it is idle or already skipped (runSequential).                 *)
(***************************************************************************)
FailFastStops ==
  opts.failFast =>
    \A t, u \in selected : result[t] = "failed" /\ t < u =>
      phase[u] = "idle" \/ (result[u] = "skipped" /\ attempt[u] = 0)

(***************************************************************************)
(* No test outlives the part of Run it belongs to: while a hook or a       *)
(* command is running, the credentials and the plugin manager are held     *)
(* and after_all has not run (wg.Wait, and the order of the defers).       *)
(***************************************************************************)
TestsInsideRun ==
  Active # {} =>
    /\ pc = "tests"
    /\ Configured("auth") => "auth" \in held
    /\ Configured("plugins") => "plugins" \in held
    /\ afterAll = 0

(***************************************************************************)
(* Whatever path Run leaves by, credentials and plugin manager are         *)
(* released, and after_all has run once if before_all succeeded and never  *)
(* otherwise (the defers of Run).                                          *)
(***************************************************************************)
TornDown ==
  pc = "returned" =>
    /\ held = {}
    /\ afterAll = IF Configured("after_all") /\ err # "before_all" THEN 1 ELSE 0

(***************************************************************************)
(* An attempt that passed, or whose trace check passed under               *)
(* retry_on_trace_only, is never repeated (runTest).                       *)
(***************************************************************************)
SettledNotRepeated ==
  [][\A t \in Tests : attempt'[t] # attempt[t] /\ attempt[t] > 0 =>
        /\ shown[t] # "passed"
        /\ ~(TraceOnly[t] /\ confirmed[t])]_vars

(***************************************************************************)
(* When tests run one after the other, what a test publishes as the hook   *)
(* environment never undoes what another test's hooks published since the  *)
(* copy was taken (runTestWithHooks: copy, hooks, publish).                *)
(***************************************************************************)
NoStalePublish ==
  ~Parallel => \A t \in Tests : phase[t] = "publish" => env[t] \in {t, lifecycleEnv}

(***************************************************************************)
(* A test that reads a variable and the test that detectChains takes for   *)
(* its extractor are never in progress at the same time, whatever mode the *)
(* run was asked for (detectChains, and the choice Run makes of it).       *)
(***************************************************************************)
ChainsRespected ==
  \A t \in Active : Deps(selected, t) \cap Active = {}

\* The run as seen through its verdicts and its summary.
Ledger == INSTANCE SuiteLedger WITH
  plan <- selected, failFast <- opts.failFast, verdict <- result,
  report <- summary, NoReport <- NoSummary

(***************************************************************************)
(* Run implements the ledger: verdicts are final, fail-fast skips, and the *)
(* summary is the tally of all verdicts.                                   *)
(***************************************************************************)
ImplementsLedger == Ledger!LedgerSpec

(***************************************************************************)
(* Run returns: neither a retry loop, nor the wait for the goroutines, nor *)
(* a stopped sequential run keeps it from ending.                          *)
(***************************************************************************)
Termination == <>(pc = "returned")

(***************************************************************************)
(* docs/LIFECYCLE.md:248 says that in parallel mode each test gets a       *)
(* snapshot of the environment at the time its before_each hooks run.  The *)
(* command is resolved from the Vars all tests share.                      *)
(***************************************************************************)
CommandSeesSnapshot ==
  Parallel => \A t \in Tests : phase[t] = "running" => seen[t] = env[t]

(***************************************************************************)
(* internal/runner/runner.go:250 says that chained tests (extract -> vars  *)
(* dependencies) force sequential execution.  A test that reads a variable *)
(* and extracts it anew hides the earlier extractor, and both run at once. *)
(***************************************************************************)
ConsumerNeverOverlaps ==
  \A t, u \in Active : t # u => Refs[t] \cap Extracts[u] = {}
=============================================================================

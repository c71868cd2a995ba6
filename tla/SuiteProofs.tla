---------------------------- MODULE SuiteProofs -----------------------------
(***************************************************************************)
(* Theorems about Runner.Run, for any number of tests, any retry policies, *)
(* tags, chains and run options.                                           *)
(*                                                                         *)
(* The inductive invariant has one part for each thing that Run keeps      *)
(* consistent: where tests may be while Run is at a place, what a test has *)
(* to show for its phase, the counters, the order of a sequential run, the *)
(* environment of its hooks, and the deferred calls.                       *)
(***************************************************************************)
EXTENDS Suite, TLAPS, FiniteSetTheorems, SequenceTheorems

Setup == {"before_all", "prereqs", "auth", "plugins", "select"}

\* Where tests are while Run is at pc.
PlaceInv ==
  /\ \A t \in Tests : phase[t] # "idle" => t \in selected
  /\ pc # "tests" => \A t \in Tests : phase[t] \in {"idle", "counted"}
  /\ pc \in Setup => selected = {}
  /\ summary # NoSummary =>
       pc \in {"unwind", "returned"} /\ Counted(selected) /\ summary = counts

\* What a test has been through when it is in a phase.
Progress(t) ==
  /\ attempt[t] <= MaxAttempts(t)
  /\ phase[t] \in {"idle", "before_each", "publish"} => attempt[t] = 0 /\ shown[t] = "none"
  /\ phase[t] \in {"attempt", "backoff"} => attempt[t] < MaxAttempts(t)
  /\ phase[t] \notin {"after_each", "returned", "counted"} => result[t] = "none"
  /\ phase[t] \in {"after_each", "returned", "counted"} =>
       /\ result[t] \in Outcomes
       /\ \/ shown[t] = result[t]
          \/ shown[t] = "none" /\ attempt[t] = 0 /\ result[t] = "failed"

ProgressInv == \A t \in Tests : Progress(t)

\* The counters are the numbers of tests they stand for.
Tallied == {t \in Tests : phase[t] = "counted"}

CountInv ==
  /\ counts.total = Cardinality(selected)
  /\ counts.passed + counts.failed + counts.skipped + counts.allowed = Cardinality(Tallied)

\* A sequential run gets to a test when all earlier ones are counted.
OrderInv ==
  ~Parallel => \A u \in Tests : phase[u] # "idle" => Counted(Earlier(u))

\* Fail-fast: a counted failure stops the run.
StopInv ==
  /\ stopped => opts.failFast
  /\ opts.failFast =>
       \A t \in Tests : phase[t] = "counted" /\ result[t] = "failed" => stopped
  /\ opts.failFast =>
       \A t, u \in Tests : result[t] = "failed" /\ t < u =>
         \/ phase[u] = "idle"
         \/ phase[u] = "counted" /\ result[u] = "skipped" /\ attempt[u] = 0

\* In a sequential run nobody publishes between the copy and the publication.
EnvInv ==
  ~Parallel => \A t \in Tests :
    /\ phase[t] = "before_each" => env[t] = lifecycleEnv
    /\ phase[t] = "publish" => env[t] \in {t, lifecycleEnv}

\* The deferred calls are those of what Run holds, each deferred once.
Deferred == {defers[k] : k \in DOMAIN defers}

DeferInv ==
  /\ \A j, k \in DOMAIN defers : defers[j] = defers[k] => j = k
  /\ held = Deferred \ {"after_all"}
  /\ afterAll = 0 <=> \/ "after_all" \in Deferred
                      \/ ~Configured("after_all")
                      \/ err = "before_all" \/ pc = "before_all"
  /\ afterAll <= 1
  /\ "after_all" \in Deferred => Configured("after_all") /\ err # "before_all"
  /\ pc = "before_all" => Deferred = {} /\ err = "none"
  /\ pc \in Setup \cup {"tests"} => afterAll = 0 /\ err = "none"
  /\ pc \in {"prereqs", "auth"} => "auth" \notin Deferred
  /\ pc \in {"prereqs", "auth", "plugins"} => "plugins" \notin Deferred
  /\ pc \in {"plugins", "select", "tests"} /\ Configured("auth") => "auth" \in Deferred
  /\ pc \in {"select", "tests"} /\ Configured("plugins") => "plugins" \in Deferred
  /\ pc = "returned" => Deferred = {}

Inv ==
  /\ TypeOK /\ PlaceInv /\ ProgressInv /\ CountInv /\ OrderInv /\ StopInv
  /\ EnvInv /\ DeferInv

\* The steps of Run that concern no single test.
RunStep ==
  \/ BeforeAll \/ Prereqs \/ AuthExchange \/ LoadPlugins \/ Select
  \/ Summarise \/ Unwind \/ Return
-----------------------------------------------------------------------------
(***************************************************************************)
(* Lemmas.                                                                 *)
(***************************************************************************)
\* Every set of tests is finite.
LEMMA TestsFinite ==
  ASSUME NEW S \in SUBSET Tests
  PROVE  IsFiniteSet(S) /\ Cardinality(S) \in Nat
<1>1. IsFiniteSet(Tests)
  BY FS_Interval, SuiteAssumption DEF Tests
<1> QED
  BY <1>1, FS_Subset, FS_CardinalityType

\* Next, one alternative per kind of step.
LEMMA NextCases ==
  ASSUME [Next]_vars
  PROVE  \/ RunStep
         \/ \E t \in Tests : Count(t)
         \/ \E t \in Tests : SkipRest(t)
         \/ \E t \in Tests : TestStep(t)
         \/ UNCHANGED vars
  BY DEF Next, MainStep, Done, RunStep

\* A step of a test: it is selected, not through, and only its own phase moves.
LEMMA TestShape ==
  ASSUME TypeOK, PlaceInv, NEW t \in Tests, TestStep(t)
  PROVE  /\ pc = "tests" /\ t \in selected
         /\ UNCHANGED mainVars
         /\ phase[t] \notin {"returned", "counted"}
         /\ phase[t] = "idle" => MayStart(t)
         /\ \E p \in Phases \ {"idle", "counted"} : phase' = [phase EXCEPT ![t] = p]
<1>1. CASE Snapshot(t)
  BY <1>1 DEF Snapshot, Goto, Phases
<1>2. CASE BeforeEach(t) \/ BeforeEachFails(t) \/ PublishEnv(t)
  BY <1>2 DEF BeforeEach, BeforeEachFails, PublishEnv, Goto, Phases, PlaceInv
<1>3. CASE StartCommand(t) \/ Backoff(t) \/ AfterEach(t)
  BY <1>3 DEF StartCommand, Backoff, AfterEach, Goto, Phases, PlaceInv
<1>4. ASSUME NEW o, NEW c, EndAttempt(t, o, c)
      PROVE  \E p \in Phases \ {"idle", "counted"} : phase' = [phase EXCEPT ![t] = p]
  BY <1>4 DEF EndAttempt, Goto, Phases
<1>5. CASE EndWithoutCommand(t)
  BY <1>4, <1>5 DEF EndWithoutCommand, PlaceInv
<1>6. CASE EndCommand(t)
  BY <1>4, <1>6 DEF EndCommand, PlaceInv
<1> QED
  BY <1>1, <1>2, <1>3, <1>5, <1>6 DEF TestStep

\* A step of a test leaves what is recorded of the others alone.
LEMMA TestFrame ==
  ASSUME TypeOK, NEW t \in Tests, TestStep(t), NEW u \in Tests, u # t
  PROVE  /\ phase'[u] = phase[u] /\ attempt'[u] = attempt[u] /\ shown'[u] = shown[u]
         /\ result'[u] = result[u] /\ env'[u] = env[u]
<1>1. /\ phase \in [Tests -> Phases] /\ attempt \in [Tests -> Nat]
      /\ shown \in [Tests -> Outcomes \cup {"none", "running"}]
      /\ result \in [Tests -> Outcomes \cup {"none"}] /\ env \in [Tests -> HookValue]
  BY DEF TypeOK
<1>2. CASE Snapshot(t) \/ BeforeEach(t) \/ BeforeEachFails(t) \/ PublishEnv(t)
  BY <1>1, <1>2 DEF Snapshot, BeforeEach, BeforeEachFails, PublishEnv, Goto, envVars
<1>3. CASE StartCommand(t) \/ Backoff(t) \/ AfterEach(t)
  BY <1>1, <1>3 DEF StartCommand, Backoff, AfterEach, Goto, envVars
<1>4. ASSUME NEW o, NEW c, EndAttempt(t, o, c)
      PROVE  phase'[u] = phase[u] /\ shown'[u] = shown[u] /\ result'[u] = result[u]
  BY <1>1, <1>4 DEF EndAttempt, Goto
<1>5. CASE EndWithoutCommand(t)
  BY <1>1, <1>4, <1>5 DEF EndWithoutCommand, envVars
<1>6. CASE EndCommand(t)
  BY <1>1, <1>4, <1>6 DEF EndCommand, envVars
<1> QED
  BY <1>2, <1>3, <1>5, <1>6 DEF TestStep

\* Count and SkipRest take a selected test from the tests phase to its end.
LEMMA CountShape ==
  ASSUME TypeOK, NEW t \in Tests, Count(t) \/ SkipRest(t)
  PROVE  /\ pc = "tests" /\ t \in selected
         /\ UNCHANGED <<opts, pc, err, defers, held, afterAll, selected, summary, envVars>>
         /\ phase[t] \in {"idle", "returned"}
         /\ Counted(Earlier(t))
         /\ phase' = [phase EXCEPT ![t] = "counted"]
         /\ UNCHANGED <<attempt, confirmed>>
  BY DEF Count, SkipRest, Goto

\* The other steps of Run leave the tests alone.
LEMMA RunShape ==
  ASSUME RunStep
  PROVE  UNCHANGED <<opts, testVars, env, hookVar, seen, stopped>>
  BY DEF RunStep, BeforeAll, Prereqs, AuthExchange, LoadPlugins, Select, Summarise,
         Unwind, Return, testVars, envVars
-----------------------------------------------------------------------------
(***************************************************************************)
(* The parts of the invariant, one after the other.                        *)
(***************************************************************************)
LEMMA InitInv == Init => Inv
<1> SUFFICES ASSUME Init PROVE Inv
  OBVIOUS
<1>1. TypeOK
  <2>1. \A t \in Tests : MaxAttempts(t) \in Nat
    BY SuiteAssumption DEF MaxAttempts
  <2>2. attempt \in [Tests -> Nat] /\ \A t \in Tests : attempt[t] <= MaxAttempts(t)
    BY <2>1 DEF Init
  <2>3. counts \in Counters
    BY DEF Init, Counters
  <2>4. /\ phase \in [Tests -> Phases]
        /\ shown \in [Tests -> Outcomes \cup {"none", "running"}]
        /\ confirmed \in [Tests -> BOOLEAN]
        /\ result \in [Tests -> Outcomes \cup {"none"}]
    BY DEF Init, Phases
  <2>5. 0 \in HookValue
    BY SuiteAssumption DEF HookValue
  <2>6. defers \in Seq(Deferrable)
    BY DEF Init
  <2>7. pc \in Places /\ err \in Sections \cup {"none"}
    BY DEF Init, Places
  <2> QED
    BY <2>2, <2>3, <2>4, <2>5, <2>6, <2>7 DEF Init, TypeOK
<1>2. PlaceInv
  BY DEF Init, PlaceInv, Setup
<1>3. ProgressInv
  <2> SUFFICES ASSUME NEW t \in Tests PROVE Progress(t)
    BY DEF ProgressInv
  <2>1. RetryCount[t] \in Nat
    BY SuiteAssumption
  <2> QED
    BY <2>1 DEF Init, Progress, MaxAttempts
<1>4. CountInv
  <2>1. Tallied = {} /\ selected = {}
    BY DEF Init, Tallied
  <2> QED
    BY <2>1, FS_EmptySet DEF Init, CountInv
<1>5. OrderInv /\ StopInv /\ EnvInv
  BY DEF Init, OrderInv, StopInv, EnvInv
<1>6. DeferInv
  <2>1. DOMAIN defers = {} /\ Deferred = {}
    BY DEF Init, Deferred
  <2> QED
    BY <2>1 DEF Init, DeferInv, Setup, Configured
<1> QED
  BY <1>1, <1>2, <1>3, <1>4, <1>5, <1>6 DEF Inv

\* Tests run only while Run is at "tests" (the loop, and wg.Wait).
LEMMA PlaceStep == Inv /\ [Next]_vars => PlaceInv'
<1> SUFFICES ASSUME Inv, [Next]_vars PROVE PlaceInv'
  OBVIOUS
<1>1. TypeOK /\ PlaceInv /\ phase \in [Tests -> Phases]
  BY DEF Inv, TypeOK
<1>2. CASE RunStep
  <2>1. UNCHANGED phase
    BY <1>2, RunShape DEF testVars
  <2>2. CASE Select
    BY <1>1, <2>1, <2>2 DEF Select, PlaceInv, Setup
  <2>3. CASE Summarise
    BY <1>1, <2>1, <2>3 DEF Summarise, PlaceInv, Setup, Counted
  <2>4. CASE BeforeAll \/ Prereqs \/ AuthExchange \/ LoadPlugins \/ Unwind \/ Return
    <3>1. UNCHANGED <<selected, counts, summary>>
      BY <2>4 DEF BeforeAll, Prereqs, AuthExchange, LoadPlugins, Unwind, Return
    <3>2. \/ pc \in Setup /\ pc' \in Setup \cup {"unwind"}
          \/ pc = "unwind" /\ pc' \in {"unwind", "returned"}
      BY <2>4 DEF BeforeAll, Prereqs, AuthExchange, LoadPlugins, Unwind, Return, Setup, Fail
    <3> QED
      BY <1>1, <2>1, <3>1, <3>2 DEF PlaceInv, Setup, Counted
  <2> QED
    BY <1>2, <2>2, <2>3, <2>4 DEF RunStep
<1>3. ASSUME NEW t \in Tests, Count(t) \/ SkipRest(t) PROVE PlaceInv'
  BY <1>1, <1>3, CountShape DEF PlaceInv, Setup
<1>4. ASSUME NEW t \in Tests, TestStep(t) PROVE PlaceInv'
  BY <1>1, <1>4, TestShape DEF PlaceInv, Setup, mainVars
<1>5. CASE UNCHANGED vars
  BY <1>1, <1>5 DEF vars, mainVars, testVars, PlaceInv, Counted
<1> QED
  BY <1>2, <1>3, <1>4, <1>5, NextCases

\* A sequential run is in order (the for loop of runSequential).
LEMMA OrderStep == Inv /\ [Next]_vars => OrderInv'
<1> SUFFICES ASSUME Inv, [Next]_vars PROVE OrderInv'
  OBVIOUS
<1>1. TypeOK /\ PlaceInv /\ OrderInv /\ phase \in [Tests -> Phases]
  BY DEF Inv, TypeOK
<1>2. CASE RunStep
  <2>1. UNCHANGED <<opts, phase>>
    BY <1>2, RunShape DEF testVars
  <2>2. CASE Select
    BY <1>1, <2>1, <2>2 DEF Select, PlaceInv, Setup, OrderInv
  <2>3. UNCHANGED selected \/ Select
    BY <1>2 DEF RunStep, BeforeAll, Prereqs, AuthExchange, LoadPlugins, Summarise,
                Unwind, Return
  <2> QED
    BY <1>1, <2>1, <2>2, <2>3 DEF OrderInv, Parallel, Counted, Earlier
<1>3. ASSUME NEW t \in Tests, Count(t) \/ SkipRest(t) PROVE OrderInv'
  <2>1. UNCHANGED <<opts, selected>> /\ Counted(Earlier(t))
        /\ phase' = [phase EXCEPT ![t] = "counted"]
    BY <1>1, <1>3, CountShape
  <2> QED
    BY <1>1, <2>1 DEF OrderInv, Parallel, Counted, Earlier
<1>4. ASSUME NEW t \in Tests, TestStep(t) PROVE OrderInv'
  <2>1. /\ UNCHANGED <<opts, selected>>
        /\ phase[t] # "counted"
        /\ phase[t] = "idle" => MayStart(t)
        /\ \E p : phase' = [phase EXCEPT ![t] = p]
    BY <1>1, <1>4, TestShape DEF mainVars
  <2>2. ~Parallel => Counted(Earlier(t))
    BY <1>1, <2>1 DEF MayStart, OrderInv
  <2>3. Parallel' = Parallel
    BY <2>1 DEF Parallel
  <2> QED
    BY <1>1, <2>1, <2>2, <2>3 DEF OrderInv, Counted, Earlier
<1>5. CASE UNCHANGED vars
  BY <1>1, <1>5 DEF vars, mainVars, testVars, OrderInv, Parallel, Counted, Earlier
<1> QED
  BY <1>2, <1>3, <1>4, <1>5, NextCases

\* After a failure nothing later runs (the flag stopped of runSequential).
LEMMA StopStep == Inv /\ [Next]_vars => StopInv'
<1> SUFFICES ASSUME Inv, [Next]_vars PROVE StopInv'
  OBVIOUS
<1>1. /\ TypeOK /\ PlaceInv /\ StopInv /\ ProgressInv /\ OrderInv
      /\ phase \in [Tests -> Phases] /\ result \in [Tests -> Outcomes \cup {"none"}]
  BY DEF Inv, TypeOK
<1>2. CASE RunStep
  BY <1>1, <1>2, RunShape DEF StopInv, testVars
<1>3. ASSUME NEW t \in Tests, Count(t) PROVE StopInv'
  <2>1. /\ UNCHANGED <<opts, result, attempt>> /\ phase' = [phase EXCEPT ![t] = "counted"]
        /\ phase[t] = "returned"
        /\ stopped' = (stopped \/ (opts.failFast /\ result[t] = "failed"))
    BY <1>3 DEF Count, Goto
  <2> QED
    BY <1>1, <2>1 DEF StopInv
<1>4. ASSUME NEW t \in Tests, SkipRest(t) PROVE StopInv'
  <2>1. /\ UNCHANGED <<opts, stopped, attempt>> /\ phase' = [phase EXCEPT ![t] = "counted"]
        /\ result' = [result EXCEPT ![t] = "skipped"] /\ phase[t] = "idle"
    BY <1>4 DEF SkipRest, Goto
  <2>2. attempt[t] = 0 /\ result[t] = "none"
    BY <1>1, <2>1 DEF ProgressInv, Progress
  <2> QED
    BY <1>1, <2>1, <2>2 DEF StopInv
<1>5. ASSUME NEW t \in Tests, TestStep(t) PROVE StopInv'
  <2>1. /\ UNCHANGED <<opts, selected, stopped>>
        /\ phase[t] \notin {"returned", "counted"} /\ phase'[t] # "counted"
        /\ phase[t] = "idle" => MayStart(t)
        /\ t \in selected
    BY <1>1, <1>5, TestShape DEF mainVars
  <2>2. \A u \in Tests : u # t => /\ phase'[u] = phase[u] /\ result'[u] = result[u]
                                  /\ attempt'[u] = attempt[u]
    BY <1>1, <1>5, TestFrame
  <2>3. SUFFICES ASSUME opts.failFast, NEW a \in Tests, NEW b \in Tests,
                        result'[a] = "failed", a < b
                 PROVE  \/ phase'[b] = "idle"
                        \/ phase'[b] = "counted" /\ result'[b] = "skipped" /\ attempt'[b] = 0
    BY <1>1, <2>1, <2>2 DEF StopInv
  <2>4. ~Parallel
    BY <2>3 DEF Parallel
  <2>5. \A c \in Tests : a < c /\ phase[c] # "idle" /\ a \in selected => phase[a] = "counted"
    BY <1>1, <2>3, <2>4 DEF OrderInv, Counted, Earlier
  <2>6. CASE a = t
    <3>1. phase[b] = "idle"
      BY <2>1, <2>3, <2>5, <2>6
    <3>2. b # t
      BY <2>3, <2>6 DEF Tests
    <3> QED
      BY <2>2, <3>1, <3>2
  <2>7. CASE a # t /\ b # t
    BY <1>1, <2>2, <2>3, <2>7 DEF StopInv
  <2>8. CASE a # t /\ b = t
    <3>1. result[a] = "failed"
      BY <2>2, <2>3, <2>8
    <3>2. phase[t] = "idle"
      BY <1>1, <2>1, <2>3, <2>8, <3>1 DEF StopInv
    <3>3. Counted(Earlier(t)) /\ ~stopped
      BY <2>1, <2>4, <3>2 DEF MayStart
    <3>4. phase[a] # "idle" /\ a \in selected
      BY <1>1, <3>1 DEF ProgressInv, Progress, PlaceInv
    <3>5. phase[a] = "counted"
      BY <2>3, <2>8, <3>3, <3>4 DEF Counted, Earlier
    <3> QED
      BY <1>1, <2>3, <3>1, <3>3, <3>5 DEF StopInv
  <2> QED
    BY <2>6, <2>7, <2>8
<1>6. CASE UNCHANGED vars
  BY <1>1, <1>6 DEF vars, mainVars, testVars, StopInv
<1> QED
  BY <1>2, <1>3, <1>4, <1>5, <1>6, NextCases

\* In a sequential run at most one test is in progress.
LEMMA OneActive ==
  ASSUME TypeOK, PlaceInv, OrderInv, ~Parallel, NEW t \in Active, NEW u \in Active
  PROVE  t = u
<1>1. t \in selected /\ u \in selected /\ t \in Int /\ u \in Int
  BY DEF Active, PlaceInv, Tests
<1>2. phase[t] \notin {"idle", "counted"} /\ phase[u] \notin {"idle", "counted"}
  BY DEF Active
<1>3. ~(t < u) /\ ~(u < t)
  BY <1>1, <1>2 DEF OrderInv, Counted, Earlier, Active
<1> QED
  BY <1>1, <1>3

\* The copy of the hook environment stays current (lifecycleMu, and the order).
LEMMA EnvStep == Inv /\ [Next]_vars => EnvInv'
<1> SUFFICES ASSUME Inv, [Next]_vars PROVE EnvInv'
  OBVIOUS
<1>1. /\ TypeOK /\ PlaceInv /\ OrderInv /\ EnvInv
      /\ phase \in [Tests -> Phases] /\ env \in [Tests -> HookValue]
  BY DEF Inv, TypeOK
<1>2. CASE RunStep
  <2>1. UNCHANGED <<opts, phase, env>>
    BY <1>2, RunShape DEF testVars
  <2>2. CASE pc = "tests"
    <3>1. UNCHANGED <<lifecycleEnv, selected>>
      BY <1>2, <2>2 DEF RunStep, BeforeAll, Prereqs, AuthExchange, LoadPlugins, Select,
                        Summarise, Unwind, Return, envVars
    <3> QED
      BY <1>1, <2>1, <3>1 DEF EnvInv, Parallel
  <2>3. CASE pc # "tests"
    BY <1>1, <2>1, <2>3 DEF EnvInv, PlaceInv
  <2> QED
    BY <2>2, <2>3
<1>3. ASSUME NEW t \in Tests, Count(t) \/ SkipRest(t) PROVE EnvInv'
  <2>1. /\ UNCHANGED <<opts, selected, env, lifecycleEnv>>
        /\ phase' = [phase EXCEPT ![t] = "counted"]
    BY <1>1, <1>3, CountShape DEF envVars
  <2> QED
    BY <1>1, <2>1 DEF EnvInv, Parallel
<1>4. ASSUME NEW t \in Tests, TestStep(t) PROVE EnvInv'
  <2>1. /\ UNCHANGED <<opts, selected>> /\ t \in selected
        /\ phase[t] \notin {"returned", "counted"}
    BY <1>1, <1>4, TestShape DEF mainVars
  <2>2. Parallel' = Parallel
    BY <2>1 DEF Parallel
  <2>3. SUFFICES ASSUME ~Parallel, NEW u \in Tests
                 PROVE  /\ phase'[u] = "before_each" => env'[u] = lifecycleEnv'
                        /\ phase'[u] = "publish" => env'[u] \in {u, lifecycleEnv'}
    BY <2>2 DEF EnvInv
  <2>4. CASE u = t
    <3>1. CASE Snapshot(t)
      BY <1>1, <2>4, <3>1 DEF Snapshot, Goto
    <3>2. CASE BeforeEach(t)
      BY <1>1, <2>3, <2>4, <3>2 DEF BeforeEach, Goto, EnvInv
    <3>3. CASE BeforeEachFails(t) \/ PublishEnv(t) \/ StartCommand(t) \/ Backoff(t) \/ AfterEach(t)
      BY <1>1, <2>4, <3>3 DEF BeforeEachFails, PublishEnv, StartCommand, Backoff, AfterEach, Goto
    <3>4. ASSUME NEW o, NEW c, EndAttempt(t, o, c)
          PROVE  phase'[t] \in {"after_each", "backoff"}
      BY <1>1, <3>4 DEF EndAttempt, Goto
    <3>5. CASE EndWithoutCommand(t) \/ EndCommand(t)
      BY <2>4, <3>4, <3>5 DEF EndWithoutCommand, EndCommand
    <3> QED
      BY <1>4, <3>1, <3>2, <3>3, <3>5 DEF TestStep
  <2>5. CASE u # t
    <3>1. phase'[u] = phase[u] /\ env'[u] = env[u]
      BY <1>1, <1>4, <2>5, TestFrame
    <3>2. CASE UNCHANGED lifecycleEnv
      BY <1>1, <2>3, <3>1, <3>2 DEF EnvInv
    <3>3. CASE phase[t] # "idle" /\ phase[u] \in {"before_each", "publish"}
      BY <1>1, <2>1, <2>3, <2>5, <3>3, OneActive DEF Active
    <3>4. UNCHANGED lifecycleEnv \/ phase[t] # "idle"
      BY <1>4 DEF TestStep, Snapshot, BeforeEach, BeforeEachFails, PublishEnv,
                  EndWithoutCommand, StartCommand, EndCommand, Backoff, AfterEach, envVars
    <3> QED
      BY <3>1, <3>2, <3>3, <3>4
  <2> QED
    BY <2>4, <2>5
<1>5. CASE UNCHANGED vars
  BY <1>1, <1>5 DEF vars, mainVars, testVars, envVars, EnvInv, Parallel
<1> QED
  BY <1>2, <1>3, <1>4, <1>5, NextCases

\* What an attempt may end with, and how often it may be repeated (runTest).
LEMMA AttemptEnds ==
  ASSUME TypeOK, NEW t \in Tests, NEW o \in Outcomes, NEW c \in BOOLEAN,
         EndAttempt(t, o, c), attempt' \in [Tests -> Nat], attempt'[t] <= MaxAttempts(t)
  PROVE  /\ phase' = [phase EXCEPT ![t] = phase'[t]]
         /\ phase'[t] \in {"after_each", "backoff"}
         /\ result' \in [Tests -> Outcomes \cup {"none"}]
         /\ shown' = [shown EXCEPT ![t] = o] /\ confirmed' \in [Tests -> BOOLEAN]
         /\ phase'[t] = "after_each" => result'[t] = o
         /\ phase'[t] = "backoff" => /\ attempt'[t] < MaxAttempts(t)
                                     /\ result' = result
<1>1. /\ phase \in [Tests -> Phases] /\ confirmed \in [Tests -> BOOLEAN]
      /\ result \in [Tests -> Outcomes \cup {"none"}]
      /\ RetryCount[t] \in Nat
  BY SuiteAssumption DEF TypeOK
<1>2. CASE Settles(t, o, c)
  BY <1>1, <1>2 DEF EndAttempt, Goto
<1>3. CASE ~Settles(t, o, c)
  BY <1>1, <1>3 DEF EndAttempt, Goto, Settles, MaxAttempts
<1> QED
  BY <1>2, <1>3

\* The number of attempts and the result fit the phase of the test.
LEMMA ProgressStep == Inv /\ [Next]_vars => ProgressInv'
<1> SUFFICES ASSUME Inv, [Next]_vars PROVE ProgressInv'
  OBVIOUS
<1>1. /\ TypeOK /\ PlaceInv /\ ProgressInv
      /\ phase \in [Tests -> Phases] /\ attempt \in [Tests -> Nat]
      /\ shown \in [Tests -> Outcomes \cup {"none", "running"}]
      /\ result \in [Tests -> Outcomes \cup {"none"}]
      /\ \A t \in Tests : MaxAttempts(t) \in Nat \ {0}
  <2>1. \A t \in Tests : MaxAttempts(t) \in Nat \ {0}
    BY SuiteAssumption DEF MaxAttempts
  <2> QED
    BY <2>1 DEF Inv, TypeOK
<1>2. CASE RunStep
  BY <1>1, <1>2, RunShape DEF ProgressInv, Progress, testVars
<1>3. ASSUME NEW t \in Tests, Count(t) PROVE ProgressInv'
  <2>1. /\ UNCHANGED <<attempt, shown, result>> /\ phase' = [phase EXCEPT ![t] = "counted"]
        /\ phase[t] = "returned"
    BY <1>3 DEF Count, Goto
  <2> QED
    BY <1>1, <2>1 DEF ProgressInv, Progress
<1>4. ASSUME NEW t \in Tests, SkipRest(t) PROVE ProgressInv'
  <2>1. /\ UNCHANGED attempt /\ phase' = [phase EXCEPT ![t] = "counted"] /\ phase[t] = "idle"
        /\ shown' = [shown EXCEPT ![t] = "skipped"] /\ result' = [result EXCEPT ![t] = "skipped"]
    BY <1>4 DEF SkipRest, Goto
  <2> SUFFICES ASSUME NEW u \in Tests PROVE Progress(u)'
    BY DEF ProgressInv
  <2>2. CASE u = t
    BY <1>1, <2>1, <2>2 DEF ProgressInv, Progress, Outcomes
  <2>3. CASE u # t
    BY <1>1, <2>1, <2>3 DEF ProgressInv, Progress
  <2> QED
    BY <2>2, <2>3
<1>5. ASSUME NEW t \in Tests, TestStep(t) PROVE ProgressInv'
  <2>1. ASSUME NEW u \in Tests, u # t PROVE Progress(u)'
    <3>1. /\ phase'[u] = phase[u] /\ attempt'[u] = attempt[u] /\ shown'[u] = shown[u]
          /\ result'[u] = result[u]
      BY <1>1, <1>5, <2>1, TestFrame
    <3> QED
      BY <1>1, <3>1 DEF ProgressInv, Progress, MaxAttempts
  <2> SUFFICES Progress(t)'
    BY <2>1 DEF ProgressInv
  <2>2. Progress(t)
    BY <1>1 DEF ProgressInv
  <2>3. CASE Snapshot(t) \/ BeforeEach(t) \/ PublishEnv(t)
    BY <1>1, <2>2, <2>3 DEF Snapshot, BeforeEach, PublishEnv, Goto, Progress
  <2>4. CASE BeforeEachFails(t)
    BY <1>1, <2>2, <2>4 DEF BeforeEachFails, Goto, Progress, Outcomes
  <2>5. CASE StartCommand(t)
    <3>1. /\ phase[t] = "attempt" /\ phase' = [phase EXCEPT ![t] = "running"]
          /\ attempt' = [attempt EXCEPT ![t] = @ + 1] /\ result' = result
      BY <2>5 DEF StartCommand, Goto
    <3>2. attempt[t] < MaxAttempts(t) /\ result[t] = "none"
      BY <2>2, <3>1 DEF Progress
    <3> QED
      BY <1>1, <3>1, <3>2 DEF Progress, MaxAttempts
  <2>6. CASE Backoff(t)
    BY <1>1, <2>2, <2>6 DEF Backoff, Goto, Progress, MaxAttempts
  <2>7. CASE AfterEach(t)
    BY <1>1, <2>2, <2>7 DEF AfterEach, Goto, Progress, MaxAttempts
  <2>8. ASSUME NEW o \in Outcomes, NEW c \in BOOLEAN, EndAttempt(t, o, c),
               attempt' \in [Tests -> Nat], attempt'[t] <= MaxAttempts(t), result[t] = "none"
        PROVE  Progress(t)'
    <3>1. /\ phase'[t] \in {"after_each", "backoff"} /\ shown' = [shown EXCEPT ![t] = o]
          /\ phase'[t] = "after_each" => result'[t] = o
          /\ phase'[t] = "backoff" => attempt'[t] < MaxAttempts(t) /\ result' = result
      BY <1>1, <2>8, AttemptEnds
    <3> QED
      BY <1>1, <2>8, <3>1 DEF Progress, MaxAttempts
  <2>9. CASE EndWithoutCommand(t)
    <3>1. /\ attempt[t] < MaxAttempts(t) /\ result[t] = "none"
          /\ attempt' = [attempt EXCEPT ![t] = @ + 1]
          /\ \E o \in {"skipped", "passed"} : EndAttempt(t, o, FALSE)
      BY <2>2, <2>9 DEF EndWithoutCommand, Progress
    <3>2. attempt' \in [Tests -> Nat] /\ attempt'[t] <= MaxAttempts(t)
      BY <1>1, <3>1
    <3> QED
      BY <2>8, <3>1, <3>2 DEF Outcomes
  <2>10. CASE EndCommand(t)
    <3>1. /\ attempt[t] <= MaxAttempts(t) /\ result[t] = "none" /\ attempt' = attempt
          /\ \E o \in {"passed", "allowed", "failed"}, c \in BOOLEAN : EndAttempt(t, o, c)
      BY <2>2, <2>10 DEF EndCommand, Progress
    <3> QED
      BY <1>1, <2>8, <3>1 DEF Outcomes
  <2> QED
    BY <1>5, <2>3, <2>4, <2>5, <2>6, <2>7, <2>9, <2>10 DEF TestStep
<1>6. CASE UNCHANGED vars
  BY <1>1, <1>6 DEF vars, testVars, ProgressInv, Progress
<1> QED
  BY <1>2, <1>3, <1>4, <1>5, <1>6, NextCases

\* Each test is counted when it is through, in one counter, once.
LEMMA CountStep == Inv /\ [Next]_vars => CountInv'
<1> SUFFICES ASSUME Inv, [Next]_vars PROVE CountInv'
  OBVIOUS
<1>1. /\ TypeOK /\ PlaceInv /\ ProgressInv /\ CountInv
      /\ phase \in [Tests -> Phases] /\ counts \in Counters
  BY DEF Inv, TypeOK
<1>2. IsFiniteSet(Tallied) /\ Cardinality(Tallied) \in Nat
  <2>1. Tallied \in SUBSET Tests
    BY DEF Tallied
  <2> QED
    BY <2>1, TestsFinite
<1>3. ASSUME NEW t \in Tests, phase[t] # "counted", phase' = [phase EXCEPT ![t] = "counted"]
      PROVE  Cardinality(Tallied') = Cardinality(Tallied) + 1
  <2>1. Tallied' = Tallied \cup {t} /\ t \notin Tallied
    BY <1>1, <1>3 DEF Tallied
  <2> QED
    BY <1>2, <2>1, FS_AddElement
<1>4. CASE RunStep
  <2>1. Tallied' = Tallied
    BY <1>4, RunShape DEF testVars, Tallied
  <2>2. CASE Select
    <3>1. counts' = [counts EXCEPT !.total = Cardinality(selected')]
      BY <2>2 DEF Select
    <3>2. selected' \in SUBSET Tests
      BY <2>2 DEF Select, Selected
    <3> QED
      BY <1>1, <2>1, <3>1, <3>2, TestsFinite DEF CountInv, Counters
  <2>3. CASE UNCHANGED <<counts, selected>>
    BY <1>1, <2>1, <2>3 DEF CountInv
  <2> QED
    BY <1>4, <2>2, <2>3 DEF RunStep, BeforeAll, Prereqs, AuthExchange, LoadPlugins,
                            Summarise, Unwind, Return
<1>5. ASSUME NEW t \in Tests, Count(t) PROVE CountInv'
  <2>1. /\ counts' = [counts EXCEPT ![result[t]] = @ + 1] /\ UNCHANGED selected
        /\ phase[t] = "returned" /\ phase' = [phase EXCEPT ![t] = "counted"]
    BY <1>5 DEF Count, Goto
  <2>2. result[t] \in {"passed", "failed", "skipped", "allowed"}
    BY <1>1, <2>1 DEF ProgressInv, Progress, Outcomes
  <2>3. /\ counts'.total = counts.total
        /\ counts'.passed + counts'.failed + counts'.skipped + counts'.allowed =
             counts.passed + counts.failed + counts.skipped + counts.allowed + 1
    BY <1>1, <2>1, <2>2 DEF Counters
  <2> QED
    BY <1>1, <1>2, <1>3, <2>1, <2>3 DEF CountInv
<1>6. ASSUME NEW t \in Tests, SkipRest(t) PROVE CountInv'
  <2>1. /\ counts' = [counts EXCEPT !.skipped = @ + 1] /\ UNCHANGED selected
        /\ phase[t] = "idle" /\ phase' = [phase EXCEPT ![t] = "counted"]
    BY <1>6 DEF SkipRest, Goto
  <2>2. /\ counts'.total = counts.total
        /\ counts'.passed + counts'.failed + counts'.skipped + counts'.allowed =
             counts.passed + counts.failed + counts.skipped + counts.allowed + 1
    BY <1>1, <2>1 DEF Counters
  <2> QED
    BY <1>1, <1>2, <1>3, <2>1, <2>2 DEF CountInv
<1>7. ASSUME NEW t \in Tests, TestStep(t) PROVE CountInv'
  <2>1. /\ UNCHANGED <<counts, selected>> /\ phase[t] # "counted"
        /\ \E p \in Phases \ {"idle", "counted"} : phase' = [phase EXCEPT ![t] = p]
    BY <1>1, <1>7, TestShape DEF mainVars
  <2>2. Tallied' = Tallied
    BY <1>1, <2>1 DEF Tallied
  <2> QED
    BY <1>1, <2>1, <2>2 DEF CountInv
<1>8. CASE UNCHANGED vars
  BY <1>1, <1>8 DEF vars, mainVars, testVars, CountInv, Tallied
<1> QED
  BY <1>4, <1>5, <1>6, <1>7, <1>8, NextCases

\* Append and the removal of the last element, as the defers use them.
LEMMA AppendDeferred ==
  ASSUME NEW s \in Seq(Deferrable), NEW x \in Deferrable, NEW r, r = Append(s, x)
  PROVE  /\ r \in Seq(Deferrable)
         /\ {r[k] : k \in DOMAIN r} = {s[k] : k \in DOMAIN s} \cup {x}
         /\ /\ x \notin {s[k] : k \in DOMAIN s}
            /\ \A j, k \in DOMAIN s : s[j] = s[k] => j = k
            => \A j, k \in DOMAIN r : r[j] = r[k] => j = k
<1>1. /\ r \in Seq(Deferrable) /\ Len(r) = Len(s) + 1 /\ Len(s) \in Nat
      /\ r[Len(s) + 1] = x /\ \A k \in 1..Len(s) : r[k] = s[k]
  OBVIOUS
<1>2. DOMAIN r = 1..(Len(s) + 1) /\ DOMAIN s = 1..Len(s)
  BY <1>1
<1>3. {r[k] : k \in DOMAIN r} = {s[k] : k \in DOMAIN s} \cup {x}
  BY <1>1, <1>2
<1> QED
  BY <1>1, <1>2, <1>3

LEMMA DropLast ==
  ASSUME defers \in Seq(Deferrable), defers # <<>>,
         defers' = SubSeq(defers, 1, Len(defers) - 1),
         \A j, k \in DOMAIN defers : defers[j] = defers[k] => j = k
  PROVE  /\ defers[Len(defers)] \in Deferred
         /\ Deferred' = Deferred \ {defers[Len(defers)]}
         /\ \A j, k \in DOMAIN defers' : defers'[j] = defers'[k] => j = k
<1> DEFINE n == Len(defers)
<1>1. n \in Nat \ {0} /\ DOMAIN defers = 1..n
  OBVIOUS
<1>2. Len(defers') = n - 1 /\ \A k \in 1..(n - 1) : defers'[k] = defers[k]
  BY <1>1, SubSeqProperties
<1>3. DOMAIN defers' = 1..(n - 1)
  BY <1>1
<1> HIDE DEF n
<1>4. Deferred' = {defers[k] : k \in 1..(n - 1)}
  BY <1>2, <1>3 DEF Deferred
<1>5. 1..n = (1..(n - 1)) \cup {n} /\ n \notin 1..(n - 1)
  BY <1>1
<1>6. {defers[k] : k \in 1..(n - 1)} = Deferred \ {defers[n]}
  BY <1>1, <1>5 DEF Deferred
<1>7. defers[n] \in Deferred
  BY <1>1, <1>5 DEF Deferred
<1>8. \A j, k \in DOMAIN defers' : defers'[j] = defers'[k] => j = k
  BY <1>1, <1>2, <1>3, <1>5
<1> QED
  BY <1>4, <1>6, <1>7, <1>8 DEF n

\* What is acquired is deferred, and what is deferred is released once.
LEMMA DeferStep == Inv /\ [Next]_vars => DeferInv'
<1> SUFFICES ASSUME Inv, [Next]_vars PROVE DeferInv'
  OBVIOUS
<1>1. /\ TypeOK /\ PlaceInv /\ DeferInv
      /\ defers \in Seq(Deferrable) /\ afterAll \in Nat /\ held \in SUBSET {"auth", "plugins"}
  BY DEF Inv, TypeOK
<1>2. CASE UNCHANGED <<opts, pc, err, defers, held, afterAll>>
  BY <1>1, <1>2 DEF DeferInv, Deferred, Configured
<1>3. CASE RunStep
  <2>1. UNCHANGED opts
    BY <1>3, RunShape
  <2>2. \A d : Configured(d)' = Configured(d)
    BY <2>1 DEF Configured
  <2>3. CASE BeforeAll
    <3>1. /\ pc = "before_all" /\ UNCHANGED <<held, afterAll>>
          /\ \/ pc' = "unwind" /\ err' = "before_all" /\ defers' = defers
             \/ /\ pc' = "prereqs" /\ err' = err
                /\ defers' = IF Configured("after_all") THEN <<"after_all">> ELSE <<>>
      BY <2>3 DEF BeforeAll, Fail
    <3>2. CASE pc' = "unwind"
      BY <1>1, <2>2, <3>1, <3>2 DEF DeferInv, Deferred, Setup
    <3>3. CASE pc' = "prereqs" /\ Configured("after_all")
      <4>1. defers' = <<"after_all">> /\ DOMAIN defers' = {1} /\ Deferred' = {"after_all"}
        BY <3>1, <3>3 DEF Deferred
      <4>2. held = {}
        BY <1>1, <3>1 DEF DeferInv
      <4> QED
        BY <1>1, <2>2, <3>1, <3>3, <4>1, <4>2 DEF DeferInv, Setup
    <3>4. CASE pc' = "prereqs" /\ ~Configured("after_all")
      <4>1. defers' = <<>> /\ DOMAIN defers' = {} /\ Deferred' = {}
        BY <3>1, <3>4 DEF Deferred
      <4>2. held = {}
        BY <1>1, <3>1 DEF DeferInv
      <4> QED
        BY <1>1, <2>2, <3>1, <3>4, <4>1, <4>2 DEF DeferInv, Setup
    <3> QED
      BY <3>1, <3>2, <3>3, <3>4
  <2>4. CASE Prereqs
    <3>1. /\ pc = "prereqs" /\ UNCHANGED <<defers, held, afterAll>>
          /\ \/ pc' = "unwind" /\ err' = "prereqs"
             \/ pc' = "auth" /\ err' = err
      BY <2>4 DEF Prereqs, Fail
    <3>2. Deferred' = Deferred
      BY <3>1 DEF Deferred
    <3> QED
      BY <1>1, <2>2, <3>1, <3>2 DEF DeferInv, Setup
  <2>5. ASSUME NEW d \in {"auth", "plugins"}, Acquire(d), d \notin Deferred, UNCHANGED afterAll
        PROVE  /\ Deferred' = Deferred \cup {d}
               /\ held' = Deferred' \ {"after_all"}
               /\ \A j, k \in DOMAIN defers' : defers'[j] = defers'[k] => j = k
    <3>1. d \in Deferrable /\ defers' = Append(defers, d) /\ held' = held \cup {d}
      BY <2>5 DEF Acquire, Deferrable
    <3>2. Deferred' = Deferred \cup {d}
      BY <1>1, <3>1, AppendDeferred DEF Deferred
    <3>3. \A j, k \in DOMAIN defers' : defers'[j] = defers'[k] => j = k
      BY <1>1, <2>5, <3>1, AppendDeferred DEF Deferred, DeferInv
    <3> QED
      BY <1>1, <3>1, <3>2, <3>3 DEF DeferInv
  <2>6. CASE AuthExchange
    <3>1. /\ pc = "auth" /\ UNCHANGED afterAll
          /\ \/ pc' = "unwind" /\ err' = "auth" /\ UNCHANGED <<defers, held>>
             \/ /\ pc' = "plugins" /\ err' = err /\ ~Configured("auth")
                /\ UNCHANGED <<defers, held>>
             \/ pc' = "plugins" /\ err' = err /\ Acquire("auth")
      BY <2>6 DEF AuthExchange, Fail
    <3>2. CASE UNCHANGED <<defers, held>>
      <4>1. Deferred' = Deferred
        BY <3>2 DEF Deferred
      <4>2. \/ pc' = "unwind" /\ err' = "auth"
            \/ pc' = "plugins" /\ err' = err /\ ~Configured("auth")
        <5>1. CASE Acquire("auth")
          <6>1. "auth" \in held' /\ "auth" \notin held
            BY <1>1, <3>1, <5>1 DEF Acquire, DeferInv
          <6> QED
            BY <3>2, <6>1
        <5> QED
          BY <3>1, <5>1
      <4> QED
        BY <1>1, <2>2, <3>1, <3>2, <4>1, <4>2 DEF DeferInv, Setup
    <3>3. CASE pc' = "plugins" /\ err' = err /\ Acquire("auth")
      <4>1. "auth" \notin Deferred
        BY <1>1, <3>1 DEF DeferInv
      <4>2. /\ Deferred' = Deferred \cup {"auth"} /\ held' = Deferred' \ {"after_all"}
            /\ \A j, k \in DOMAIN defers' : defers'[j] = defers'[k] => j = k
        BY <2>5, <3>1, <3>3, <4>1
      <4> QED
        BY <1>1, <2>2, <3>1, <3>3, <4>2 DEF DeferInv, Setup
    <3> QED
      BY <3>1, <3>2, <3>3
  <2>7. CASE LoadPlugins
    <3>1. /\ pc = "plugins" /\ UNCHANGED afterAll
          /\ \/ pc' = "unwind" /\ err' = "plugins" /\ UNCHANGED <<defers, held>>
             \/ pc' = "unwind" /\ err' = "plugins" /\ Acquire("plugins")
             \/ /\ pc' = "select" /\ err' = err /\ ~Configured("plugins")
                /\ UNCHANGED <<defers, held>>
             \/ pc' = "select" /\ err' = err /\ Acquire("plugins")
      BY <2>7 DEF LoadPlugins, Fail
    <3>2. CASE UNCHANGED <<defers, held>>
      <4>1. Deferred' = Deferred
        BY <3>2 DEF Deferred
      <4>2. ~Acquire("plugins")
        BY <1>1, <3>1, <3>2 DEF Acquire, DeferInv
      <4> QED
        BY <1>1, <2>2, <3>1, <3>2, <4>1, <4>2 DEF DeferInv, Setup
    <3>3. CASE Acquire("plugins")
      <4>1. "plugins" \notin Deferred
        BY <1>1, <3>1 DEF DeferInv
      <4>2. /\ Deferred' = Deferred \cup {"plugins"} /\ held' = Deferred' \ {"after_all"}
            /\ \A j, k \in DOMAIN defers' : defers'[j] = defers'[k] => j = k
        BY <2>5, <3>1, <3>3, <4>1
      <4> QED
        BY <1>1, <2>2, <3>1, <3>3, <4>2 DEF DeferInv, Setup
    <3> QED
      BY <3>1, <3>2, <3>3
  <2>8. CASE Select \/ Summarise
    <3>1. /\ UNCHANGED <<defers, held, afterAll, err>>
          /\ \/ pc = "select" /\ pc' = "tests"
             \/ pc = "tests" /\ pc' = "unwind"
      BY <2>8 DEF Select, Summarise
    <3>2. Deferred' = Deferred
      BY <3>1 DEF Deferred
    <3> QED
      BY <1>1, <2>2, <3>1, <3>2 DEF DeferInv, Setup
  <2>9. CASE Unwind
    <3> DEFINE last == defers[Len(defers)]
    <3>1. /\ pc = "unwind" /\ pc' = "unwind" /\ err' = err /\ defers # <<>>
          /\ held' = held \ {last} /\ defers' = SubSeq(defers, 1, Len(defers) - 1)
          /\ afterAll' = IF last = "after_all" THEN afterAll + 1 ELSE afterAll
      BY <2>9 DEF Unwind
    <3>2. \A j, k \in DOMAIN defers : defers[j] = defers[k] => j = k
      BY <1>1 DEF DeferInv
    <3>3. /\ last \in Deferred /\ Deferred' = Deferred \ {last}
          /\ \A j, k \in DOMAIN defers' : defers'[j] = defers'[k] => j = k
      BY <1>1, <3>1, <3>2, DropLast
    <3> HIDE DEF last
    <3>4. held' = Deferred' \ {"after_all"}
      BY <1>1, <3>1, <3>3 DEF DeferInv
    <3>5. /\ afterAll' <= 1
          /\ afterAll' = 0 <=> \/ "after_all" \in Deferred' \/ ~Configured("after_all")
                              \/ err = "before_all"
      <4>1. /\ afterAll = 0 <=> \/ "after_all" \in Deferred
                                \/ ~Configured("after_all") \/ err = "before_all"
            /\ afterAll <= 1
        BY <1>1, <3>1 DEF DeferInv
      <4>2. CASE last = "after_all"
        <5>1. Configured("after_all") /\ err # "before_all"
          BY <1>1, <3>1, <3>3, <4>2 DEF DeferInv
        <5> QED
          BY <1>1, <3>1, <3>3, <4>1, <4>2, <5>1
      <4>3. CASE last # "after_all"
        BY <1>1, <3>1, <3>3, <4>1, <4>3
      <4> QED
        BY <4>2, <4>3
    <3> QED
      BY <1>1, <2>2, <3>1, <3>3, <3>4, <3>5 DEF DeferInv, Setup
  <2>10. CASE Return
    <3>1. /\ pc = "unwind" /\ pc' = "returned" /\ defers = <<>>
          /\ UNCHANGED <<err, defers, held, afterAll>>
      BY <2>10 DEF Return
    <3>2. Deferred = {} /\ Deferred' = {}
      BY <3>1 DEF Deferred
    <3> QED
      BY <1>1, <2>2, <3>1, <3>2 DEF DeferInv, Setup
  <2> QED
    BY <1>3, <2>3, <2>4, <2>6, <2>7, <2>8, <2>9, <2>10 DEF RunStep
<1>4. ASSUME NEW t \in Tests, Count(t) \/ SkipRest(t) PROVE DeferInv'
  BY <1>1, <1>2, <1>4, CountShape
<1>5. ASSUME NEW t \in Tests, TestStep(t) PROVE DeferInv'
  BY <1>1, <1>2, <1>5, TestShape DEF mainVars
<1>6. CASE UNCHANGED vars
  BY <1>2, <1>6 DEF vars, mainVars
<1> QED
  BY <1>3, <1>4, <1>5, <1>6, NextCases
\* Counting up leaves a record of counters.
LEMMA CountUp ==
  ASSUME NEW r \in Counters, NEW f \in Outcomes
  PROVE  [r EXCEPT ![f] = @ + 1] \in Counters
<1>1. /\ r = [total |-> r.total, passed |-> r.passed, failed |-> r.failed,
              skipped |-> r.skipped, allowed |-> r.allowed]
      /\ r.total \in Nat /\ r.passed \in Nat /\ r.failed \in Nat
      /\ r.skipped \in Nat /\ r.allowed \in Nat
  BY DEF Counters
<1>2. CASE f = "passed"
  BY <1>1, <1>2 DEF Counters
<1>3. CASE f = "failed"
  BY <1>1, <1>3 DEF Counters
<1>4. CASE f = "skipped"
  BY <1>1, <1>4 DEF Counters
<1>5. CASE f = "allowed"
  BY <1>1, <1>5 DEF Counters
<1> QED
  BY <1>2, <1>3, <1>4, <1>5 DEF Outcomes

\* Every variable keeps its type.
LEMMA TypeStep == Inv /\ [Next]_vars => TypeOK'
<1> SUFFICES ASSUME Inv, [Next]_vars PROVE TypeOK'
  OBVIOUS
<1> DEFINE MainType == /\ opts \in Options /\ pc \in Places /\ err \in Sections \cup {"none"}
                       /\ defers \in Seq(Deferrable)
                       /\ held \in SUBSET {"auth", "plugins"} /\ afterAll \in Nat
                       /\ selected \in SUBSET Tests /\ counts \in Counters
                       /\ stopped \in BOOLEAN /\ summary \in Counters \cup {NoSummary}
           TestType == /\ phase \in [Tests -> Phases] /\ attempt \in [Tests -> Nat]
                       /\ shown \in [Tests -> Outcomes \cup {"none", "running"}]
                       /\ confirmed \in [Tests -> BOOLEAN]
                       /\ result \in [Tests -> Outcomes \cup {"none"}]
           EnvType == /\ env \in [Tests -> HookValue] /\ lifecycleEnv \in HookValue
                      /\ hookVar \in HookValue /\ seen \in [Tests -> HookValue]
<1>1. /\ MainType /\ TestType /\ EnvType
      /\ PlaceInv /\ ProgressInv /\ TypeOK
  BY DEF Inv, TypeOK
<1> SUFFICES MainType' /\ TestType' /\ EnvType'
  <2>1. \A t \in Tests : attempt'[t] <= MaxAttempts(t)
    BY ProgressStep DEF ProgressInv, Progress, MaxAttempts
  <2> QED
    BY <2>1 DEF TypeOK, MaxAttempts
<1>2. \A t \in Tests : {0, t, N + t, 2 * N + 1} \subseteq HookValue
  BY SuiteAssumption DEF Tests, HookValue
<1>3. 2 * N + 1 \in HookValue
  BY SuiteAssumption DEF HookValue
<1>4. CASE RunStep
  <2>1. TestType' /\ UNCHANGED <<env, hookVar, seen, opts, stopped>>
    BY <1>1, <1>4, RunShape DEF testVars
  <2>2. lifecycleEnv' \in {lifecycleEnv, 2 * N + 1}
    BY <1>4 DEF RunStep, BeforeAll, Prereqs, AuthExchange, LoadPlugins, Select, Summarise,
                Unwind, Return, envVars
  <2>3. EnvType'
    BY <1>1, <1>3, <2>1, <2>2
  <2>4. pc' \in Places /\ err' \in Sections \cup {"none"}
    BY <1>1, <1>4 DEF RunStep, BeforeAll, Prereqs, AuthExchange, LoadPlugins, Select,
                      Summarise, Unwind, Return, Fail, Places, Sections
  <2>5. counts' \in Counters /\ selected' \in SUBSET Tests /\ summary' \in Counters \cup {NoSummary}
    <3>1. CASE Select
      <4>1. selected' \in SUBSET Tests /\ UNCHANGED summary
        BY <3>1 DEF Select, Selected
      <4>2. Cardinality(selected') \in Nat
        BY <4>1, TestsFinite
      <4> QED
        BY <1>1, <3>1, <4>1, <4>2 DEF Select, Counters
    <3>2. CASE ~Select
      BY <1>1, <1>4, <3>2 DEF RunStep, BeforeAll, Prereqs, AuthExchange, LoadPlugins,
                              Summarise, Unwind, Return
    <3> QED
      BY <3>1, <3>2
  <2>6. /\ defers' \in Seq(Deferrable) /\ held' \in SUBSET {"auth", "plugins"}
        /\ afterAll' \in Nat
    <3>1. CASE BeforeAll
      <4>1. <<>> \in Seq(Deferrable) /\ <<"after_all">> \in Seq(Deferrable)
        BY DEF Deferrable
      <4> QED
        BY <1>1, <3>1, <4>1 DEF BeforeAll
    <3>2. ASSUME NEW d \in {"auth", "plugins"}, Acquire(d)
          PROVE  defers' \in Seq(Deferrable) /\ held' \in SUBSET {"auth", "plugins"}
      <4>1. d \in Deferrable
        BY DEF Deferrable
      <4> QED
        BY <1>1, <3>2, <4>1, AppendProperties DEF Acquire
    <3>3. CASE AuthExchange
      <4>1. UNCHANGED afterAll /\ (UNCHANGED <<defers, held>> \/ Acquire("auth"))
        BY <3>3 DEF AuthExchange
      <4> QED
        BY <1>1, <3>2, <4>1
    <3>4. CASE LoadPlugins
      <4>1. UNCHANGED afterAll /\ (UNCHANGED <<defers, held>> \/ Acquire("plugins"))
        BY <3>4 DEF LoadPlugins
      <4> QED
        BY <1>1, <3>2, <4>1
    <3>5. CASE Unwind
      <4>1. /\ defers # <<>> /\ defers' = SubSeq(defers, 1, Len(defers) - 1)
            /\ held' \subseteq held /\ afterAll' \in {afterAll, afterAll + 1}
        BY <3>5 DEF Unwind
      <4>2. Len(defers) \in Nat \ {0}
        BY <1>1, <4>1
      <4>3. \A i \in 1..(Len(defers) - 1) : defers[i] \in Deferrable
        BY <1>1, <4>2
      <4>4. defers' \in Seq(Deferrable)
        BY <1>1, <4>1, <4>2, <4>3, SubSeqProperties
      <4> QED
        BY <1>1, <4>1, <4>4
    <3>6. CASE Prereqs \/ Select \/ Summarise \/ Return
      BY <1>1, <3>6 DEF Prereqs, Select, Summarise, Return
    <3> QED
      BY <1>4, <3>1, <3>3, <3>4, <3>5, <3>6 DEF RunStep
  <2> QED
    BY <1>1, <2>1, <2>3, <2>4, <2>5, <2>6
<1>5. ASSUME NEW t \in Tests, Count(t) \/ SkipRest(t)
      PROVE  MainType' /\ TestType' /\ EnvType'
  <2>1. /\ UNCHANGED <<opts, pc, err, defers, held, afterAll, selected, summary>>
        /\ UNCHANGED <<env, lifecycleEnv, hookVar, seen, attempt, confirmed>>
        /\ phase' = [phase EXCEPT ![t] = "counted"]
    BY <1>1, <1>5, CountShape DEF envVars
  <2>2. phase' \in [Tests -> Phases]
    BY <1>1, <2>1 DEF Phases
  <2>3. CASE Count(t)
    <3>1. /\ counts' = [counts EXCEPT ![result[t]] = @ + 1] /\ phase[t] = "returned"
          /\ stopped' = (stopped \/ (opts.failFast /\ result[t] = "failed"))
          /\ UNCHANGED <<shown, result>>
      BY <2>3 DEF Count
    <3>2. result[t] \in Outcomes
      BY <1>1, <3>1 DEF ProgressInv, Progress
    <3>3. counts' \in Counters
      BY <1>1, <3>1, <3>2, CountUp
    <3>4. stopped' \in BOOLEAN
      BY <3>1
    <3> QED
      BY <1>1, <2>1, <2>2, <3>1, <3>3, <3>4
  <2>4. CASE SkipRest(t)
    <3>1. /\ counts' = [counts EXCEPT !.skipped = @ + 1] /\ UNCHANGED stopped
          /\ result' = [result EXCEPT ![t] = "skipped"]
          /\ shown' = [shown EXCEPT ![t] = "skipped"]
      BY <2>4 DEF SkipRest
    <3>2. counts' \in Counters
      BY <1>1, <3>1, CountUp DEF Outcomes
    <3>3. /\ shown' \in [Tests -> Outcomes \cup {"none", "running"}]
          /\ result' \in [Tests -> Outcomes \cup {"none"}]
      BY <1>1, <3>1 DEF Outcomes
    <3> QED
      BY <1>1, <2>1, <2>2, <3>1, <3>2, <3>3
  <2> QED
    BY <1>5, <2>3, <2>4
<1>6. ASSUME NEW t \in Tests, TestStep(t)
      PROVE  MainType' /\ TestType' /\ EnvType'
  <2>1. MainType'
    BY <1>1, <1>6, TestShape DEF mainVars
  <2>2. CASE Snapshot(t) \/ PublishEnv(t) \/ Backoff(t)
    <3>1. CASE Snapshot(t)
      BY <1>1, <2>1, <3>1 DEF Snapshot, Goto, Phases
    <3>2. CASE PublishEnv(t)
      BY <1>1, <2>1, <3>2 DEF PublishEnv, Goto, Phases
    <3>3. CASE Backoff(t)
      BY <1>1, <2>1, <3>3 DEF Backoff, Goto, envVars, Phases
    <3> QED
      BY <2>2, <3>1, <3>2, <3>3
  <2>3. CASE BeforeEach(t)
    <3>1. /\ env' = [env EXCEPT ![t] = IF Configured("before_each") THEN t ELSE @]
          /\ hookVar' \in {hookVar, env'[t]} /\ phase' = [phase EXCEPT ![t] = "publish"]
          /\ UNCHANGED <<attempt, shown, confirmed, result, lifecycleEnv, seen>>
      BY <2>3 DEF BeforeEach, Goto
    <3>2. env' \in [Tests -> HookValue] /\ phase' \in [Tests -> Phases]
      BY <1>1, <1>2, <3>1 DEF Phases
    <3> QED
      BY <1>1, <2>1, <3>1, <3>2
  <2>7. CASE BeforeEachFails(t) \/ StartCommand(t) \/ AfterEach(t)
    <3>1. CASE BeforeEachFails(t)
      BY <1>1, <2>1, <3>1 DEF BeforeEachFails, Goto, envVars, Phases, Outcomes
    <3>2. CASE StartCommand(t)
      <4>1. /\ attempt' = [attempt EXCEPT ![t] = @ + 1] /\ phase' = [phase EXCEPT ![t] = "running"]
            /\ shown' = [shown EXCEPT ![t] = "running"] /\ seen' = [seen EXCEPT ![t] = hookVar]
            /\ UNCHANGED <<confirmed, result, env, lifecycleEnv, hookVar>>
        BY <3>2 DEF StartCommand, Goto
      <4>2. attempt' \in [Tests -> Nat]
        BY <1>1, <4>1
      <4>3. TestType' /\ EnvType'
        BY <1>1, <4>1, <4>2 DEF Phases
      <4> QED
        BY <2>1, <4>3
    <3>3. CASE AfterEach(t)
      <4>1. /\ phase' = [phase EXCEPT ![t] = "returned"]
            /\ UNCHANGED <<attempt, shown, confirmed, result, hookVar, seen>>
            /\ \/ UNCHANGED <<env, lifecycleEnv>>
               \/ env' = [env EXCEPT ![t] = N + t] /\ lifecycleEnv' = N + t
        BY <3>3 DEF AfterEach, Goto
      <4>2. N + t \in HookValue
        BY <1>2
      <4>3. EnvType'
        BY <1>1, <4>1, <4>2
      <4> QED
        BY <1>1, <2>1, <4>1, <4>3 DEF Phases
    <3> QED
      BY <2>7, <3>1, <3>2, <3>3
  <2>4. ASSUME NEW o \in Outcomes, NEW c \in BOOLEAN, EndAttempt(t, o, c)
        PROVE  /\ phase' \in [Tests -> Phases]
               /\ shown' \in [Tests -> Outcomes \cup {"none", "running"}]
               /\ confirmed' \in [Tests -> BOOLEAN]
               /\ result' \in [Tests -> Outcomes \cup {"none"}]
    <3>1. CASE Settles(t, o, c)
      BY <1>1, <2>4, <3>1 DEF EndAttempt, Goto, Phases
    <3>2. CASE ~Settles(t, o, c)
      BY <1>1, <2>4, <3>2 DEF EndAttempt, Goto, Phases
    <3> QED
      BY <3>1, <3>2
  <2>5. CASE EndWithoutCommand(t)
    <3>1. /\ UNCHANGED envVars /\ attempt' = [attempt EXCEPT ![t] = @ + 1]
          /\ \E o \in Outcomes : EndAttempt(t, o, FALSE)
      BY <2>5 DEF EndWithoutCommand, Outcomes
    <3>2. attempt' \in [Tests -> Nat]
      BY <1>1, <3>1
    <3> QED
      BY <1>1, <2>1, <2>4, <3>1, <3>2 DEF envVars
  <2>6. CASE EndCommand(t)
    <3>1. /\ UNCHANGED envVars /\ UNCHANGED attempt
          /\ \E o \in Outcomes, c \in BOOLEAN : EndAttempt(t, o, c)
      BY <2>6 DEF EndCommand, Outcomes
    <3> QED
      BY <1>1, <2>1, <2>4, <3>1 DEF envVars
  <2> QED
    BY <1>6, <2>2, <2>3, <2>5, <2>6, <2>7 DEF TestStep
<1>7. CASE UNCHANGED vars
  BY <1>1, <1>7 DEF vars, mainVars, testVars, envVars
<1> QED
  BY <1>4, <1>5, <1>6, <1>7, NextCases

LEMMA InductiveInv == Spec => []Inv
<1>1. Inv /\ [Next]_vars => Inv'
  BY TypeStep, PlaceStep, ProgressStep, CountStep, OrderStep, StopStep, EnvStep, DeferStep
     DEF Inv
<1> QED
  BY InitInv, <1>1, PTL DEF Spec
-----------------------------------------------------------------------------
(***************************************************************************)
(* The theorems.                                                           *)
(***************************************************************************)
\* Type correctness, and no test exceeds the attempts of its retry policy.
THEOREM TypeCorrect == Spec => []TypeOK
  BY InductiveInv, PTL DEF Inv

\* The published counters account for every selected test exactly once.
THEOREM Complete == Spec => []SummaryComplete
<1>1. Inv => SummaryComplete
  <2> SUFFICES ASSUME Inv, summary # NoSummary
               PROVE  /\ summary.total = Cardinality(selected)
                      /\ summary.total = summary.passed + summary.failed
                                         + summary.skipped + summary.allowed
    BY DEF SummaryComplete
  <2>1. summary = counts /\ Counted(selected)
    BY DEF Inv, PlaceInv
  <2>2. Tallied = selected
    BY <2>1 DEF Inv, TypeOK, PlaceInv, Counted, Tallied
  <2> QED
    BY <2>1, <2>2 DEF Inv, CountInv
<1> QED
  BY InductiveInv, <1>1, PTL

\* A test is counted with the result of its last reported attempt.
THEOREM Reported == Spec => []ReportedAsCounted
<1>1. Inv => ReportedAsCounted
  BY DEF Inv, ProgressInv, Progress, ReportedAsCounted
<1> QED
  BY InductiveInv, <1>1, PTL

\* Fail-fast: after a failure no later test runs a hook or a command.
THEOREM Stops == Spec => []FailFastStops
<1>1. Inv => FailFastStops
  BY DEF Inv, TypeOK, StopInv, FailFastStops
<1> QED
  BY InductiveInv, <1>1, PTL

\* Tests run only while what they need is held and after_all has not run.
THEOREM Inside == Spec => []TestsInsideRun
<1>1. Inv => TestsInsideRun
  <2> SUFFICES ASSUME Inv, NEW t \in Active
               PROVE  /\ pc = "tests"
                      /\ Configured("auth") => "auth" \in held
                      /\ Configured("plugins") => "plugins" \in held
                      /\ afterAll = 0
    BY DEF TestsInsideRun
  <2>1. pc = "tests"
    BY DEF Active, Inv, PlaceInv
  <2> QED
    BY <2>1 DEF Inv, DeferInv
<1> QED
  BY InductiveInv, <1>1, PTL

\* Whatever path Run leaves by, what it held is released and after_all has run
\* exactly if it was due.
THEOREM Released == Spec => []TornDown
<1>1. Inv => TornDown
  <2> SUFFICES ASSUME Inv, pc = "returned"
               PROVE  /\ held = {}
                      /\ afterAll = IF Configured("after_all") /\ err # "before_all"
                                    THEN 1 ELSE 0
    BY DEF TornDown
  <2>1. /\ Deferred = {} /\ held = {} /\ afterAll \in Nat /\ afterAll <= 1
        /\ afterAll = 0 <=> ~Configured("after_all") \/ err = "before_all"
    BY DEF Inv, DeferInv, TypeOK
  <2> QED
    BY <2>1
<1> QED
  BY InductiveInv, <1>1, PTL

\* Sequential runs lose no update of the hook environment.
THEOREM Current == Spec => []NoStalePublish
<1>1. Inv => NoStalePublish
  BY DEF Inv, EnvInv, NoStalePublish
<1> QED
  BY InductiveInv, <1>1, PTL

\* An extractor and the test that depends on it never overlap.
THEOREM ChainsKept == Spec => []ChainsRespected
<1>1. Inv => ChainsRespected
  <2> SUFFICES ASSUME Inv, NEW t \in Active, NEW u \in Deps(selected, t), u \in Active
               PROVE  FALSE
    BY DEF ChainsRespected
  <2>1. t \in selected /\ u \in selected /\ u # t
    BY DEF Active, Inv, PlaceInv, Deps
  <2>2. ~Parallel
    BY <2>1 DEF Parallel, HasChain
  <2> QED
    BY <2>1, <2>2, OneActive DEF Inv
<1> QED
  BY InductiveInv, <1>1, PTL
-----------------------------------------------------------------------------
(***************************************************************************)
(* Retries, and the ledger: SettledNotRepeated, and ImplementsLedger.      *)
(***************************************************************************)
\* An attempt that is to be repeated has not passed, nor its trace check if
\* that is enough.
Unsettled(t) ==
  /\ phase[t] = "backoff" => shown[t] # "passed" /\ ~(TraceOnly[t] /\ confirmed[t])
  /\ phase[t] = "attempt" /\ attempt[t] > 0 =>
       shown[t] # "passed" /\ ~(TraceOnly[t] /\ confirmed[t])
UnsettledInv == \A t \in Tests : Unsettled(t)

\* Each counter is the number of tests that are counted with its result.
CountedAs(v) == {t \in Tests : phase[t] = "counted" /\ result[t] = v}
TallyInv == \A v \in Outcomes : counts[v] = Cardinality(CountedAs(v))

\* What the last attempt showed of a test, and when another one follows.
LEMMA UnsettledStep == Inv /\ UnsettledInv /\ [Next]_vars => UnsettledInv'
<1> SUFFICES ASSUME Inv, UnsettledInv, [Next]_vars PROVE UnsettledInv'
  OBVIOUS
<1>1. /\ TypeOK /\ PlaceInv /\ ProgressInv
      /\ phase \in [Tests -> Phases] /\ attempt \in [Tests -> Nat]
      /\ shown \in [Tests -> Outcomes \cup {"none", "running"}]
      /\ confirmed \in [Tests -> BOOLEAN]
  BY DEF Inv, TypeOK
<1>2. CASE RunStep
  BY <1>2, RunShape DEF UnsettledInv, Unsettled, testVars
<1>3. ASSUME NEW t \in Tests, Count(t) \/ SkipRest(t) PROVE UnsettledInv'
  <2>1. /\ phase' = [phase EXCEPT ![t] = "counted"] /\ UNCHANGED <<attempt, confirmed>>
        /\ \A u \in Tests \ {t} : shown'[u] = shown[u]
    BY <1>1, <1>3 DEF Count, SkipRest, Goto
  <2> QED
    BY <1>1, <2>1 DEF UnsettledInv, Unsettled
<1>4. ASSUME NEW t \in Tests, TestStep(t) PROVE UnsettledInv'
  <2>1. ASSUME NEW u \in Tests, u # t PROVE Unsettled(u)'
    <3>1. /\ phase'[u] = phase[u] /\ attempt'[u] = attempt[u] /\ shown'[u] = shown[u]
      BY <1>1, <1>4, <2>1, TestFrame
    <3>2. confirmed'[u] = confirmed[u]
      BY <1>1, <1>4, <2>1 DEF TestStep, Snapshot, BeforeEach, BeforeEachFails, PublishEnv,
         EndWithoutCommand, StartCommand, EndCommand, Backoff, AfterEach, EndAttempt
    <3> QED
      BY <3>1, <3>2 DEF UnsettledInv, Unsettled
  <2> SUFFICES Unsettled(t)'
    BY <2>1 DEF UnsettledInv
  <2>2. Unsettled(t) /\ Progress(t)
    BY <1>1 DEF UnsettledInv, ProgressInv
  <2>3. CASE Snapshot(t) \/ BeforeEach(t) \/ BeforeEachFails(t) \/ StartCommand(t) \/ AfterEach(t)
    <3>1. phase'[t] \notin {"attempt", "backoff"}
      BY <1>1, <2>3 DEF Snapshot, BeforeEach, BeforeEachFails, StartCommand, AfterEach, Goto
    <3> QED
      BY <3>1 DEF Unsettled
  <2>4. CASE PublishEnv(t)
    <3>1. phase'[t] = "attempt" /\ attempt'[t] = 0
      BY <1>1, <2>2, <2>4 DEF PublishEnv, Goto, Progress
    <3> QED
      BY <3>1 DEF Unsettled
  <2>5. CASE Backoff(t)
    <3>1. phase[t] = "backoff" /\ phase'[t] = "attempt" /\ shown' = shown /\ confirmed' = confirmed
      BY <1>1, <2>5 DEF Backoff, Goto
    <3> QED
      BY <2>2, <3>1 DEF Unsettled
  <2>6. ASSUME NEW o, NEW c, EndAttempt(t, o, c) PROVE Unsettled(t)'
    <3>1. shown'[t] = o /\ confirmed'[t] = c /\ phase'[t] \in {"after_each", "backoff"}
      BY <1>1, <2>6 DEF EndAttempt, Goto
    <3>2. phase'[t] = "backoff" => ~Settles(t, o, c)
      BY <1>1, <2>6 DEF EndAttempt, Goto
    <3>3. ~Settles(t, o, c) => o # "passed" /\ ~(TraceOnly[t] /\ c)
      BY DEF Settles
    <3>4. CASE phase'[t] = "after_each"
      BY <3>4 DEF Unsettled
    <3>5. CASE phase'[t] = "backoff"
      BY <3>1, <3>2, <3>3, <3>5 DEF Unsettled
    <3> QED
      BY <3>1, <3>4, <3>5
  <2>7. CASE EndWithoutCommand(t) \/ EndCommand(t)
    BY <2>6, <2>7 DEF EndWithoutCommand, EndCommand
  <2> QED
    BY <1>4, <2>3, <2>4, <2>5, <2>7 DEF TestStep
<1>5. CASE UNCHANGED vars
  BY <1>5 DEF vars, testVars, UnsettledInv, Unsettled
<1> QED
  BY <1>2, <1>3, <1>4, <1>5, NextCases

\* No attempt is repeated that passed, or whose trace check passed where that
\* is enough.
THEOREM NotRepeated == Spec => SettledNotRepeated
<1>1. Init => UnsettledInv
  BY DEF Init, UnsettledInv, Unsettled
<1>2. ASSUME Inv, UnsettledInv, [Next]_vars, NEW t \in Tests, attempt'[t] # attempt[t], attempt[t] > 0
      PROVE  shown[t] # "passed" /\ ~(TraceOnly[t] /\ confirmed[t])
  <2>1. phase[t] = "attempt"
    <3>1. attempt \in [Tests -> Nat]
      BY <1>2 DEF Inv, TypeOK
    <3>2. PICK u \in Tests : TestStep(u)
      BY <1>2, NextCases, RunShape, CountShape DEF testVars, vars, Inv
    <3>3. u = t
      BY <1>2, <3>2, TestFrame DEF Inv
    <3> QED
      BY <1>2, <3>1, <3>2, <3>3 DEF TestStep, Snapshot, BeforeEach, BeforeEachFails, PublishEnv,
         EndWithoutCommand, StartCommand, EndCommand, Backoff, AfterEach
  <2> QED
    BY <1>2, <2>1 DEF UnsettledInv, Unsettled
<1>3. Inv /\ UnsettledInv /\ [Next]_vars =>
        [\A t \in Tests : attempt'[t] # attempt[t] /\ attempt[t] > 0 =>
           /\ shown[t] # "passed"
           /\ ~(TraceOnly[t] /\ confirmed[t])]_vars
  BY <1>2
<1> QED
  BY <1>1, <1>3, UnsettledStep, InductiveInv, PTL DEF Spec, SettledNotRepeated

\* Each of the counters counts the tests with one result.
LEMMA TallyStep == Inv /\ TallyInv /\ [Next]_vars => TallyInv'
<1> SUFFICES ASSUME Inv, TallyInv, [Next]_vars PROVE TallyInv'
  OBVIOUS
<1>1. /\ TypeOK /\ PlaceInv /\ ProgressInv
      /\ phase \in [Tests -> Phases] /\ counts \in Counters
      /\ result \in [Tests -> Outcomes \cup {"none"}]
  BY DEF Inv, TypeOK
<1>2. \A v \in Outcomes : IsFiniteSet(CountedAs(v)) /\ Cardinality(CountedAs(v)) \in Nat
  <2>1. \A v \in Outcomes : CountedAs(v) \in SUBSET Tests
    BY DEF CountedAs
  <2> QED
    BY <2>1, TestsFinite
<1>3. ASSUME NEW t \in Tests, NEW w \in Outcomes, phase[t] # "counted",
             phase' = [phase EXCEPT ![t] = "counted"], result' = [result EXCEPT ![t] = w],
             counts' = [counts EXCEPT ![w] = @ + 1]
      PROVE  TallyInv'
  <2> SUFFICES ASSUME NEW v \in Outcomes PROVE counts'[v] = Cardinality(CountedAs(v)')
    BY DEF TallyInv
  <2>1. CASE v = w
    <3>1. CountedAs(v)' = CountedAs(v) \cup {t} /\ t \notin CountedAs(v)
      BY <1>1, <1>3, <2>1 DEF CountedAs
    <3>2. counts'[v] = counts[v] + 1
      BY <1>1, <1>3, <2>1 DEF Counters, Outcomes
    <3> QED
      BY <1>2, <3>1, <3>2, FS_AddElement DEF TallyInv
  <2>2. CASE v # w
    <3>1. CountedAs(v)' = CountedAs(v)
      BY <1>1, <1>3, <2>2 DEF CountedAs
    <3>2. counts'[v] = counts[v]
      BY <1>1, <1>3, <2>2 DEF Counters, Outcomes
    <3> QED
      BY <3>1, <3>2 DEF TallyInv
  <2> QED
    BY <2>1, <2>2
<1>4. CASE RunStep
  <2>1. \A v \in Outcomes : CountedAs(v)' = CountedAs(v)
    BY <1>4, RunShape DEF testVars, CountedAs
  <2>2. \A v \in Outcomes : counts'[v] = counts[v]
    BY <1>1, <1>4 DEF RunStep, BeforeAll, Prereqs, AuthExchange, LoadPlugins, Select, Summarise,
       Unwind, Return, Counters, Outcomes
  <2> QED
    BY <2>1, <2>2 DEF TallyInv
<1>5. ASSUME NEW t \in Tests, Count(t) PROVE TallyInv'
  <2>1. /\ counts' = [counts EXCEPT ![result[t]] = @ + 1] /\ UNCHANGED result
        /\ phase[t] = "returned" /\ phase' = [phase EXCEPT ![t] = "counted"]
    BY <1>5 DEF Count, Goto
  <2>2. result[t] \in Outcomes /\ result' = [result EXCEPT ![t] = result[t]]
    BY <1>1, <2>1 DEF ProgressInv, Progress
  <2> QED
    BY <1>3, <2>1, <2>2
<1>6. ASSUME NEW t \in Tests, SkipRest(t) PROVE TallyInv'
  <2>1. /\ counts' = [counts EXCEPT !["skipped"] = @ + 1]
        /\ phase[t] = "idle" /\ phase' = [phase EXCEPT ![t] = "counted"]
        /\ result' = [result EXCEPT ![t] = "skipped"]
    BY <1>6 DEF SkipRest, Goto
  <2> QED
    BY <1>3, <2>1 DEF Outcomes
<1>7. ASSUME NEW t \in Tests, TestStep(t) PROVE TallyInv'
  <2>1. /\ UNCHANGED counts /\ phase[t] # "counted"
        /\ \E p \in Phases \ {"idle", "counted"} : phase' = [phase EXCEPT ![t] = p]
    BY <1>1, <1>7, TestShape DEF mainVars
  <2>2. \A u \in Tests : u # t => result'[u] = result[u]
    BY <1>1, <1>7, TestFrame
  <2>3. \A v \in Outcomes : CountedAs(v)' = CountedAs(v)
    BY <1>1, <2>1, <2>2 DEF CountedAs
  <2> QED
    BY <2>1, <2>3 DEF TallyInv
<1>8. CASE UNCHANGED vars
  BY <1>8 DEF vars, mainVars, testVars, TallyInv, CountedAs
<1> QED
  BY <1>4, <1>5, <1>6, <1>7, <1>8, NextCases

\* A step of a test leaves its result open or decides it.
LEMMA TestDecides ==
  ASSUME Inv, NEW t \in Tests, TestStep(t)
  PROVE  \/ UNCHANGED result
         \/ \E v \in Outcomes : result' = [result EXCEPT ![t] = v]
<1>1. CASE Snapshot(t) \/ BeforeEach(t) \/ PublishEnv(t) \/ StartCommand(t) \/ Backoff(t) \/ AfterEach(t)
  BY <1>1 DEF Snapshot, BeforeEach, PublishEnv, StartCommand, Backoff, AfterEach
<1>2. CASE BeforeEachFails(t)
  BY <1>2 DEF BeforeEachFails, Outcomes
<1>3. ASSUME NEW o \in Outcomes, NEW c, EndAttempt(t, o, c)
      PROVE  \/ UNCHANGED result
             \/ \E v \in Outcomes : result' = [result EXCEPT ![t] = v]
  BY <1>3 DEF EndAttempt
<1>4. CASE EndWithoutCommand(t)
  BY <1>3, <1>4 DEF EndWithoutCommand, Outcomes
<1>5. CASE EndCommand(t)
  BY <1>3, <1>5 DEF EndCommand, Outcomes
<1> QED
  BY <1>1, <1>2, <1>3, <1>4, <1>5 DEF TestStep

\* While a test is under way under fail-fast, no test has failed.
LEMMA NoFailureYet ==
  ASSUME Inv, opts.failFast, NEW t \in Tests, pc = "tests", t \in selected,
         phase[t] # "idle", phase[t] \notin {"returned", "counted"}, result[t] = "none"
  PROVE  Ledger!With("failed") = {}
<1> SUFFICES ASSUME NEW u \in Tests, result[u] = "failed" PROVE FALSE
  BY DEF Ledger!With, Inv, TypeOK
<1>1. u # t
  OBVIOUS
<1>2. u \in Nat /\ t \in Nat
  BY SuiteAssumption DEF Tests
<1>3. CASE u < t
  BY <1>3 DEF Inv, StopInv
<1>4. CASE t < u
  <2>1. phase[u] # "idle"
    BY DEF Inv, ProgressInv, Progress
  <2>2. t \in Earlier(u) /\ ~Parallel
    BY <1>4 DEF Earlier, Parallel
  <2> QED
    BY <2>1, <2>2 DEF Inv, OrderInv, Counted
<1> QED
  BY <1>1, <1>2, <1>3, <1>4

\* A step of a test is a step of the ledger, which decides that test, or none.
LEMMA TestRefines ==
  ASSUME Inv, NEW t \in Tests, TestStep(t)
  PROVE  [Ledger!LedgerNext]_Ledger!ledgerVars
<1>1. /\ pc = "tests" /\ t \in selected /\ UNCHANGED mainVars
      /\ phase[t] \notin {"returned", "counted"}
  BY TestShape DEF Inv
<1>2. summary = NoSummary
  BY <1>1 DEF Inv, PlaceInv
<1>3. CASE UNCHANGED result
  BY <1>1, <1>3 DEF Ledger!ledgerVars, mainVars
<1>4. ASSUME NEW v \in Outcomes, result' = [result EXCEPT ![t] = v], ~UNCHANGED result
      PROVE  Ledger!Decide(t, v)
  <2>1. phase[t] # "idle"
    BY <1>4 DEF TestStep, Snapshot, BeforeEach, BeforeEachFails, PublishEnv, EndWithoutCommand,
       StartCommand, EndCommand, Backoff, AfterEach
  <2>2. phase[t] # "after_each"
    BY <1>4 DEF TestStep, Snapshot, BeforeEach, BeforeEachFails, PublishEnv, EndWithoutCommand,
       StartCommand, EndCommand, Backoff, AfterEach
  <2>3. result[t] = "none"
    BY <1>1, <2>2 DEF Inv, TypeOK, Phases, ProgressInv, Progress
  <2>4. opts.failFast => Ledger!With("failed") = {}
    BY <1>1, <2>1, <2>3, NoFailureYet
  <2> QED
    BY <1>1, <1>2, <1>4, <2>3, <2>4 DEF Ledger!Decide, mainVars
<1> QED
  BY <1>3, <1>4, TestDecides DEF Ledger!LedgerNext, Ledger!Verdicts, Outcomes

\* What fail-fast leaves out is decided as skipped.
LEMMA SkipRefines ==
  ASSUME Inv, NEW t \in Tests, SkipRest(t)
  PROVE  Ledger!LedgerNext
<1>1. Ledger!Decide(t, "skipped")
  <2>1. summary = NoSummary
    BY DEF SkipRest, Inv, PlaceInv
  <2>2. result[t] = "none"
    BY DEF SkipRest, Inv, ProgressInv, Progress
  <2> QED
    BY <2>1, <2>2 DEF SkipRest, Ledger!Decide
<1> QED
  BY <1>1 DEF Ledger!LedgerNext, Ledger!Verdicts

\* The ledger counts as the runner's module does.
LEMMA SameCardinality == ASSUME NEW S PROVE Ledger!Cardinality(S) = Cardinality(S)
  BY DEF Ledger!Cardinality, Cardinality

\* The counters that are published are the tally of the verdicts.
LEMMA SummaryRefines ==
  ASSUME Inv, TallyInv, Summarise
  PROVE  Ledger!Publish
<1>1. summary = NoSummary
  BY DEF Summarise, Inv, PlaceInv
<1>2. selected \in SUBSET Tests /\ counts \in Counters
  BY DEF Inv, TypeOK
<1>3. \A t \in Tests : phase[t] = "counted" <=> t \in selected
  BY <1>2 DEF Summarise, Counted, Inv, PlaceInv
<1>4. \A t \in selected : result[t] # "none"
  BY <1>2, <1>3 DEF Inv, ProgressInv, Progress, Outcomes
<1>5. \A v \in Outcomes : Ledger!With(v) = CountedAs(v)
  BY <1>2, <1>3 DEF Ledger!With, CountedAs
<1>6. counts = [total |-> Cardinality(selected),
                passed |-> Cardinality(Ledger!With("passed")),
                failed |-> Cardinality(Ledger!With("failed")),
                skipped |-> Cardinality(Ledger!With("skipped")),
                allowed |-> Cardinality(Ledger!With("allowed"))]
  <2>1. \A v \in Outcomes : counts[v] = Cardinality(Ledger!With(v))
    BY <1>5 DEF TallyInv
  <2>2. counts.total = Cardinality(selected)
    BY DEF Inv, CountInv
  <2> HIDE DEF Ledger!With
  <2> QED
    BY <1>2, <2>1, <2>2 DEF Counters, Outcomes
<1>7. summary' = [total |-> Ledger!Cardinality(selected),
                 passed |-> Ledger!Cardinality(Ledger!With("passed")),
                 failed |-> Ledger!Cardinality(Ledger!With("failed")),
                 skipped |-> Ledger!Cardinality(Ledger!With("skipped")),
                 allowed |-> Ledger!Cardinality(Ledger!With("allowed"))]
  BY <1>6, SameCardinality DEF Summarise
<1>8. UNCHANGED <<selected, opts, result>>
  BY DEF Summarise, testVars
<1> QED
  BY <1>1, <1>4, <1>7, <1>8 DEF Ledger!Publish

\* Run keeps the ledger: verdicts are final, fail-fast skips what is left, and
\* the summary is the tally of the verdicts.
THEOREM KeepsLedger == Spec => ImplementsLedger
<1>1. Init => TallyInv
  <2> SUFFICES ASSUME Init, NEW v \in Outcomes PROVE counts[v] = Cardinality(CountedAs(v))
    BY DEF TallyInv
  <2>1. CountedAs(v) = {}
    BY DEF Init, CountedAs
  <2> QED
    BY <2>1, FS_EmptySet DEF Init, Outcomes
<1>2. Init => Ledger!LedgerInit
  BY SuiteAssumption DEF Init, Ledger!LedgerInit, RunOptions
<1>3. ASSUME Inv, TallyInv, [Next]_vars PROVE [Ledger!LedgerNext]_Ledger!ledgerVars
  <2>1. CASE RunStep
    <3>1. UNCHANGED <<opts, result>>
      BY <2>1, RunShape DEF testVars
    <3>2. CASE Select
      <4>1. pc = "select" /\ selected' = Selected(opts) /\ UNCHANGED summary
        BY <3>2 DEF Select
      <4>2. selected = {}
        BY <1>3, <4>1 DEF Inv, PlaceInv, Setup
      <4>3. selected' \in SUBSET Tests
        BY <4>1 DEF Selected
      <4>4. Ledger!Plan
        BY <3>1, <4>1, <4>2, <4>3 DEF Ledger!Plan
      <4> QED
        BY <4>4 DEF Ledger!LedgerNext
    <3>3. CASE Summarise
      BY <1>3, <3>3, SummaryRefines DEF Ledger!LedgerNext
    <3>4. CASE BeforeAll \/ Prereqs \/ AuthExchange \/ LoadPlugins \/ Unwind \/ Return
      BY <3>1, <3>4 DEF BeforeAll, Prereqs, AuthExchange, LoadPlugins, Unwind, Return,
         Ledger!ledgerVars
    <3> QED
      BY <2>1, <3>2, <3>3, <3>4 DEF RunStep
  <2>2. ASSUME NEW t \in Tests, Count(t) PROVE UNCHANGED Ledger!ledgerVars
    BY <2>2 DEF Count, Ledger!ledgerVars
  <2>3. ASSUME NEW t \in Tests, SkipRest(t) PROVE Ledger!LedgerNext
    BY <1>3, <2>3, SkipRefines
  <2>4. ASSUME NEW t \in Tests, TestStep(t) PROVE [Ledger!LedgerNext]_Ledger!ledgerVars
    BY <1>3, <2>4, TestRefines
  <2>5. CASE UNCHANGED vars
    BY <2>5 DEF vars, mainVars, testVars, Ledger!ledgerVars
  <2> QED
    BY <1>3, <2>1, <2>2, <2>3, <2>4, <2>5, NextCases
<1> QED
  BY <1>1, <1>2, <1>3, TallyStep, InductiveInv, PTL DEF Spec, ImplementsLedger, Ledger!LedgerSpec
=============================================================================

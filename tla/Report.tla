------------------------------- MODULE Report -------------------------------
(***************************************************************************)
(* What becomes of the results of a suite: the reporters that collect the  *)
(* events of its tests and turn them into documents and notifications, the *)
(* baseline of timings, the exit code.  A process is one call of the run   *)
(* command, for one suite, for the suites of a monorepo, or for the runs   *)
(* of a watch loop.  How a suite runs is module Suite, when the watch loop *)
(* starts a run is module Watch.                                           *)
(***************************************************************************)
EXTENDS Integers, Sequences, FiniteSets

CONSTANTS Procs,       \* the processes, which share the baseline file
          Calls,       \* the ways the command may be called, one for each process
          Root,        \* the project of the monorepo's root
          Threshold,   \* --baseline-threshold, in percent
          Unset

(* A call: mode, "run", "monorepo" or "watch"; config, whether the         *)
(* configuration is valid; timeout, whether --timeout is; format, the list *)
(* of --format; on, the condition of a PagerDuty notification; baseline;   *)
(* parallel; suites, the suites it runs one after another, a single one    *)
(* with mode "run": project, loads (its configuration can be read), ready  *)
(* (its prerequisites pass) and tests, the attempts at its tests in order. *)
(* An attempt has the name of the test, an outcome, a duration ms, and     *)
(* final, whether it is the last one of its test, whose result counts.     *)
(* "unreported" is a failure of before_each: it counts, makes no event and *)
(* is not retried; an attempt that passed is not followed by another.      *)

Outcomes  == {"passed", "failed", "skipped", "allowed", "unreported"}
TestType  == {t \in [name : STRING, outcome : Outcomes, ms : Nat, final : BOOLEAN] :
                t.outcome \in {"passed", "unreported"} => t.final}
SuiteType == [project : STRING, loads : BOOLEAN, ready : BOOLEAN, tests : Seq(TestType)]
(* The attempt that follows one that is not final is at the same test.     *)
InTurn(tests) == \A i \in DOMAIN tests : ~tests[i].final =>
  /\ i + 1 \in DOMAIN tests
  /\ tests[i + 1].name = tests[i].name /\ tests[i + 1].outcome # "unreported"
ASSUME ReportAssumption ==
  /\ Unset \notin {0, 1, 2, 3, 137}
  /\ \A c \in Calls : \A p \in Procs :
       /\ c[p].suites \in Seq(SuiteType)
       /\ \A i \in DOMAIN c[p].suites : InTurn(c[p].suites[i].tests)
       /\ c[p].mode = "run" => Len(c[p].suites) = 1
       /\ c[p].mode \in {"run", "monorepo", "watch"}

VARIABLES
  call,       \* the call of each process
  pc,         \* where it is
  at,         \* the suite it is at
  running,    \* attempts of that suite without an event yet
  held,       \* in parallel runs: what the append of an event has read
  collected,  \* attempts the reporter has collected
  lastFailed, \* what the webhook reporter remembers of its last summary
  total,      \* the counts of the suites of a monorepo so far
  docs,       \* the documents written or pushed, in order
  incident,   \* the projects with an open incident
  lost,       \* whether a notification was lost
  status,     \* the failures in the last summary of each project
  exit,       \* exit codes
  file,       \* the baseline file: durations by name
  view,       \* what a process has loaded of it
  flagged,    \* the regressions a process has reported
  kept,       \* the timings of the runs whose save has ended, by name
  disturbed   \* whether a save was overlapped by another process or killed

reporting == <<running, held, collected, lastFailed, total, docs, incident, lost, status>>
baseline  == <<file, view, flagged, kept, disturbed>>
vars == <<call, pc, at, reporting, exit, baseline>>

Suite(p) == call[p].suites[at[p]]
Tests(p) == Suite(p).tests
Count(tests, outcomes) == Cardinality({i \in DOMAIN tests : tests[i].outcome \in outcomes})
(* A suite counts the result of the last attempt at each test.             *)
Counted(t) == t.final /\ t.outcome \in {"failed", "unreported"}
Failures(tests) == Cardinality({i \in DOMAIN tests : Counted(tests[i])})
NoTotal == [failed |-> 0, tests |-> << >>]

Init ==
  /\ call \in Calls
  /\ pc = [p \in Procs |-> "start"] /\ at = [p \in Procs |-> 1]
  /\ running = [p \in Procs |-> {}] /\ held = [p \in Procs |-> << >>]
  /\ collected = [p \in Procs |-> << >>]
  /\ lastFailed = [p \in Procs |-> Unset]
  /\ total = [p \in Procs |-> NoTotal]
  /\ docs = [p \in Procs |-> << >>]
  /\ incident = {} /\ lost = FALSE /\ status = << >>
  /\ exit = [p \in Procs |-> Unset]
  /\ file = << >> /\ view = [p \in Procs |-> << >>] /\ flagged = [p \in Procs |-> {}]
  /\ kept = << >> /\ disturbed = FALSE

Go(p, from, to) == pc[p] = from /\ pc' = [pc EXCEPT ![p] = to]
ExitWith(p, from, code) == Go(p, from, "done") /\ exit' = [exit EXCEPT ![p] = code]

-----------------------------------------------------------------------------
(* The command and its errors.                                             *)

ExitCodeForError(error) ==
  CASE error = "none"   -> 0
    [] error = "config" -> 2
    [] error = "prereq" -> 3
    [] OTHER            -> 1

formats == {"terminal", "json", "junit", "tap", "prometheus", "gha", "backstage"}
parseFormats(list) == {list[i] : i \in DOMAIN list}
ChainFails(p) == parseFormats(call[p].format) = {} \/ ~parseFormats(call[p].format) \subseteq formats

(* loadConfig reads, overrides and validates.  The flags are looked at     *)
(* later, and their errors are not of the kind that has a code of its own. *)
ConfigFails(p) ==
  /\ ~call[p].config
  /\ ExitWith(p, "start", ExitCodeForError("config"))
  /\ UNCHANGED <<call, at, reporting, baseline>>
ArgumentsFail(p) ==
  /\ call[p].config
  /\ \/ ~call[p].timeout
     \/ call[p].mode = "monorepo" /\ call[p].suites = << >>
     \/ call[p].mode \in {"run", "monorepo"} /\ ChainFails(p)
  /\ ExitWith(p, "start", ExitCodeForError("other"))
  /\ UNCHANGED <<call, at, reporting, baseline>>

(* buildReporter: one for the whole call, in watch mode one for each run   *)
(* (fault: the one of the run before).                                     *)
(* If it cannot be built a run of the watch loop fails and the loop goes on.*)
Fault_buildReporter(p) == UNCHANGED <<collected, lastFailed>>
buildReporter(p) ==
  /\ collected' = [collected EXCEPT ![p] = << >>]
  /\ lastFailed' = [lastFailed EXCEPT ![p] = Unset]
Build(p) ==
  /\ call[p].config /\ call[p].timeout /\ call[p].suites # << >>
  /\ \/ ~ChainFails(p) /\ Go(p, "start", "suite")
     \/ ChainFails(p) /\ call[p].mode = "watch" /\ Go(p, "start", "stopped")
  /\ buildReporter(p)
  /\ UNCHANGED <<call, at, running, held, total, docs, incident, lost, status, exit, baseline>>

(* A suite of a monorepo that cannot be loaded, and prerequisites that     *)
(* fail, end the whole call; a watch loop goes on with its next run.       *)
SuiteFails(p) ==
  /\ pc[p] = "suite"
  /\ ~Suite(p).loads \/ ~Suite(p).ready
  /\ IF call[p].mode = "watch"
       THEN Go(p, "suite", "next") /\ UNCHANGED exit
       ELSE ExitWith(p, "suite", ExitCodeForError(IF Suite(p).loads THEN "prereq" ELSE "other"))
  /\ UNCHANGED <<call, at, reporting, baseline>>

StartSuite(p) ==
  /\ Go(p, "suite", "tests")
  /\ Suite(p).loads /\ Suite(p).ready
  /\ running' = [running EXCEPT ![p] = {i \in DOMAIN Tests(p) : Tests(p)[i].outcome # "unreported"}]
  /\ UNCHANGED <<call, at, held, collected, lastFailed, total, docs, incident, lost, status,
                 exit, baseline>>

-----------------------------------------------------------------------------
(* Events.  Each attempt at a test makes one, also those that are retried. *)
(* Every reporter appends what it is told to a slice of its own, without a *)
(* lock: in a parallel run the slice may change between the read and the   *)
(* write of an append.  The attempts at one test come one after another    *)
(* there too.                                                              *)

TestResult(p) ==
  /\ pc[p] = "tests" /\ ~call[p].parallel
  /\ \E i \in running[p] :
       /\ \A j \in running[p] : i <= j
       /\ collected' = [collected EXCEPT ![p] = Append(@, Tests(p)[i])]
       /\ running' = [running EXCEPT ![p] = @ \ {i}]
  /\ UNCHANGED <<call, pc, at, held, lastFailed, total, docs, incident, lost, status, exit, baseline>>

EarlierAttempts(p, i) == {j \in {i - 1} \cap DOMAIN Tests(p) : ~Tests(p)[j].final}
AppendReads(p) ==
  /\ pc[p] = "tests" /\ call[p].parallel
  /\ \E i \in running[p] \ DOMAIN held[p] :
     /\ EarlierAttempts(p, i) \cap running[p] = {}
     /\ held' = [held EXCEPT ![p] =
                  [j \in DOMAIN @ \cup {i} |-> IF j = i THEN collected[p] ELSE @[j]]]
  /\ UNCHANGED <<call, pc, at, running, collected, lastFailed, total, docs, incident, lost, status,
                 exit, baseline>>
AppendWrites(p) ==
  /\ pc[p] = "tests"
  /\ \E i \in running[p] \cap DOMAIN held[p] :
       /\ collected' = [collected EXCEPT ![p] = Append(held[p][i], Tests(p)[i])]
       /\ running' = [running EXCEPT ![p] = @ \ {i}]
       /\ held' = [held EXCEPT ![p] = [j \in DOMAIN @ \ {i} |-> @[j]]]
  /\ UNCHANGED <<call, pc, at, lastFailed, total, docs, incident, lost, status, exit, baseline>>

-----------------------------------------------------------------------------
(* Summaries.  A webhook sends on failure, always, or when the outcome     *)
(* differs from the last one it remembers.                                 *)

shouldSend(on, last, hasFailed) ==
  CASE on = "always" -> TRUE
    [] on = "change" -> last = Unset \/ last # hasFailed
    [] OTHER         -> hasFailed

(* A PagerDuty event resolves the project's incident if nothing failed and *)
(* the last summary had failures, and triggers one in every other case.    *)
(* Fault: by whether the last summary and this one differ.                 *)
Fault_Resolves(last, hasFailed) == last # Unset /\ last # hasFailed
Resolves(last, hasFailed) == ~hasFailed /\ last = TRUE
buildPagerDutyPayload(project, last, hasFailed) ==
  incident' = IF Resolves(last, hasFailed) THEN incident \ {project} ELSE incident \cup {project}

(* The request may fail, which is a warning and nothing else.              *)
Notify(p, project, failed) ==
  LET hasFailed == failed > 0
  IN  /\ IF shouldSend(call[p].on, lastFailed[p], hasFailed)
           THEN \/ buildPagerDutyPayload(project, lastFailed[p], hasFailed) /\ UNCHANGED lost
                \/ UNCHANGED incident /\ lost' = TRUE
           ELSE UNCHANGED <<incident, lost>>
      /\ lastFailed' = [lastFailed EXCEPT ![p] = hasFailed]
      /\ status' = [x \in DOMAIN status \cup {project} |-> IF x = project THEN failed ELSE status[x]]

(* The document of a summary: the counts it was given and the tests that   *)
(* the reporter has collected so far; "of" are the tests it is about.      *)
Write(p, project, failed, of) ==
  docs' = [docs EXCEPT ![p] =
             Append(@, [project |-> project, failed |-> failed, tests |-> collected[p], of |-> of])]

Summary(p) ==
  /\ running[p] = {}
  /\ Go(p, "tests", "next")
  /\ Notify(p, Suite(p).project, Failures(Tests(p)))
  /\ Write(p, Suite(p).project, Failures(Tests(p)), Tests(p))
  /\ total' = [total EXCEPT ![p] = [failed |-> @.failed + Failures(Tests(p)),
                                    tests  |-> @.tests \o Tests(p)]]
  /\ UNCHANGED <<call, at, running, held, collected, exit, baseline>>

More(p) == at[p] < Len(call[p].suites)
AfterRuns(p) ==
  IF call[p].mode = "watch" THEN "stopped" ELSE IF call[p].baseline THEN "load" ELSE "exit"

(* The next suite of a monorepo, with the same reporter; the next run of a *)
(* watch loop, with a new one.                                             *)
NextSuite(p) ==
  /\ More(p)
  /\ Go(p, "next", "suite")
  /\ at' = [at EXCEPT ![p] = @ + 1]
  /\ IF call[p].mode = "watch" THEN buildReporter(p) ELSE UNCHANGED <<collected, lastFailed>>
  /\ UNCHANGED <<call, running, held, total, docs, incident, lost, status, exit, baseline>>
RunEnds(p) ==
  /\ ~More(p) /\ call[p].mode # "monorepo"
  /\ Go(p, "next", AfterRuns(p))
  /\ UNCHANGED <<call, at, reporting, exit, baseline>>
(* RunMonorepo gives the same reporter a summary of all suites.            *)
RunMonorepo(p) ==
  /\ ~More(p) /\ call[p].mode = "monorepo"
  /\ Go(p, "next", AfterRuns(p))
  /\ Notify(p, Root, total[p].failed)
  /\ Write(p, Root, total[p].failed, total[p].tests)
  /\ UNCHANGED <<call, at, running, held, collected, total, exit, baseline>>

-----------------------------------------------------------------------------
(* The baseline: load, compare, update and save, each without a lock.  A   *)
(* test has the duration of its last attempt.                              *)

LastRuns(p) == total[p].tests
Durations(p) == [n \in {LastRuns(p)[i].name : i \in DOMAIN LastRuns(p)} |->
                   LastRuns(p)[CHOOSE i \in DOMAIN LastRuns(p) :
                     /\ LastRuns(p)[i].name = n
                     /\ \A j \in DOMAIN LastRuns(p) : LastRuns(p)[j].name = n => j <= i].ms]
(* Fault: tests that a filtered run left out are forgotten.                *)
Fault_Update(old, new) == new
Update(old, new) ==
  [n \in DOMAIN old \cup DOMAIN new |-> IF n \in DOMAIN new THEN new[n] ELSE old[n]]

Compare(old, new) == {n \in DOMAIN old \cap DOMAIN new :
  old[n] > 0 /\ (new[n] - old[n]) * 100 > Threshold * old[n]}

(* An absent file and an empty one are both a new baseline.  Fault: the    *)
(* timings of the run are merged before they are compared.                 *)
Fault_LoadBaseline(p) ==
  /\ Go(p, "load", "truncate")
  /\ view' = [view EXCEPT ![p] = Update(file, Durations(p))]
  /\ flagged' = [flagged EXCEPT ![p] = Compare(view'[p], Durations(p))]
  /\ disturbed' = (disturbed \/ \E q \in Procs \ {p} : pc[q] \in {"truncate", "write"})
  /\ UNCHANGED <<call, at, reporting, exit, file, kept>>
LoadBaseline(p) ==
  /\ Go(p, "load", "truncate")
  /\ view' = [view EXCEPT ![p] = file]
  /\ flagged' = [flagged EXCEPT ![p] = Compare(file, Durations(p))]
  /\ disturbed' = (disturbed \/ \E q \in Procs \ {p} : pc[q] \in {"truncate", "write"})
  /\ UNCHANGED <<call, at, reporting, exit, file, kept>>
(* WriteFile truncates the file before it writes.                          *)
SaveTruncates(p) ==
  /\ Go(p, "truncate", "write")
  /\ file' = << >>
  /\ UNCHANGED <<call, at, reporting, exit, view, flagged, kept, disturbed>>
SaveWrites(p) ==
  /\ Go(p, "write", "exit")
  /\ file' = Update(view[p], Durations(p))
  /\ kept' = [n \in DOMAIN kept \cup DOMAIN Durations(p) |->
                IF n \in DOMAIN Durations(p) THEN Durations(p)[n] ELSE kept[n]]
  /\ UNCHANGED <<call, at, reporting, exit, view, flagged, disturbed>>

-----------------------------------------------------------------------------
(* Fault: the code is that of the failures the reporter was told of.       *)
Fault_Exit(p) ==
  /\ ExitWith(p, "exit", IF Count(collected[p], {"failed"}) > 0 THEN 1 ELSE 0)
  /\ UNCHANGED <<call, at, reporting, baseline>>
Exit(p) ==
  /\ ExitWith(p, "exit", IF total[p].failed > 0 THEN 1 ELSE ExitCodeForError("none"))
  /\ UNCHANGED <<call, at, reporting, baseline>>
(* The watch loop ends on a signal.                                        *)
Interrupt(p) ==
  /\ ExitWith(p, "stopped", 0)
  /\ UNCHANGED <<call, at, reporting, baseline>>
Kill(p) ==
  /\ pc[p] \notin {"start", "done"}
  /\ ExitWith(p, pc[p], 137)
  /\ disturbed' = (disturbed \/ pc[p] = "write")
  /\ UNCHANGED <<call, at, reporting, file, view, flagged, kept>>

Work(p) == \/ ConfigFails(p) \/ ArgumentsFail(p) \/ Build(p)
           \/ SuiteFails(p) \/ StartSuite(p)
           \/ TestResult(p) \/ AppendReads(p) \/ AppendWrites(p)
           \/ Summary(p) \/ NextSuite(p) \/ RunEnds(p) \/ RunMonorepo(p)
           \/ LoadBaseline(p) \/ SaveTruncates(p) \/ SaveWrites(p) \/ Exit(p)
           \/ Interrupt(p)
Next == \E p \in Procs : Work(p) \/ Kill(p)
Spec == Init /\ [][Next]_vars

-----------------------------------------------------------------------------
(* How the formats mark a test in a document.                              *)

Mark(format, outcome) ==
  CASE outcome = "passed"  -> "ok"
    [] outcome = "skipped" -> IF format \in {"gha", "prometheus", "backstage"} THEN "bad" ELSE "skip"
    [] outcome = "allowed" -> IF format = "junit" THEN "skip"
                              ELSE IF format = "prometheus" THEN "bad" ELSE "warn"
    [] outcome = "failed"  -> "bad"
Marked(format, tests) == {i \in DOMAIN tests : Mark(format, tests[i].outcome) = "bad"}
(* The status of a Backstage entity is that of its tests, not its counts.  *)
backstageOverallStatus(tests) ==
  IF tests = << >> THEN "unknown"
  ELSE IF Count(tests, {"failed", "skipped"}) > 0 THEN "unhealthy"
  ELSE IF Count(tests, {"allowed"}) > 0 THEN "degraded" ELSE "healthy"

-----------------------------------------------------------------------------
(* Properties.                                                             *)

TypeOK ==
  /\ call \in Calls
  /\ \A p \in Procs : /\ at[p] \in 1..Len(call[p].suites) \cup {1}
                       /\ DOMAIN held[p] \subseteq running[p]
                       /\ \A i \in DOMAIN held[p] : EarlierAttempts(p, i) \cap running[p] = {}
                       /\ exit[p] \in {Unset, 0, 1, 2, 3, 137}
                       /\ (exit[p] = Unset) = (pc[p] # "done")

(* The attempts of which something can be shown.                           *)
Reported(tests) == {i \in DOMAIN tests : tests[i].outcome # "unreported"}
(* A list shows attempts of a suite if each entry stands for one of them,  *)
(* and no two for the same; and all of them if they come in the order of   *)
(* the suite and none is missing.                                          *)
StandsFor(list, tests, f) == \A j \in DOMAIN list : list[j] = tests[f[j]]
ShowsSome(list, tests) == \E f \in [DOMAIN list -> Reported(tests)] :
  /\ StandsFor(list, tests, f)
  /\ \A j, k \in DOMAIN list : f[j] = f[k] => j = k
ShowsAll(list, tests) == \E f \in [DOMAIN list -> Reported(tests)] :
  /\ StandsFor(list, tests, f)
  /\ \A j, k \in DOMAIN list : j < k => f[j] < f[k]
  /\ \A i \in Reported(tests) : \E j \in DOMAIN list : f[j] = i

(* A monorepo has a document for each of its suites and one for all.       *)
Complete(p, i) == call[p].mode # "monorepo" \/ i > Len(call[p].suites)
(* Failed attempts that do not count, since another one followed.          *)
Repeated(tests) ==
  Cardinality({i \in DOMAIN tests : ~tests[i].final /\ tests[i].outcome = "failed"})
(* The document of a run, and the last of a monorepo, shows each attempt   *)
(* at the tests that it counts once and in order, the retried ones too,    *)
(* and none of an earlier run of the watch loop.  Its count of failures is *)
(* the number of entries it marks as failures, less the attempts that were *)
(* retried and with the tests that made no event; formats that mark        *)
(* skipped or allowed tests as failures as well mark no less.  In parallel *)
(* runs it may miss attempts, and still shows none twice and none that it  *)
(* is not about.  The other documents of a monorepo show tests of the      *)
(* suites before as well, none of their attempts twice.                    *)
DocumentsAgree == \A p \in Procs : \A i \in DOMAIN docs[p] :
  LET d == docs[p][i]
      shown  == d.failed - Count(d.of, {"unreported"}) + Repeated(d.of)
  IN  /\ Complete(p, i) /\ ~call[p].parallel =>
           /\ ShowsAll(d.tests, d.of)
           /\ \A f \in {"terminal", "json", "junit", "tap"} :
                Cardinality(Marked(f, d.tests)) = shown
           /\ \A f \in {"gha", "prometheus", "backstage"} :
                Cardinality(Marked(f, d.tests)) >= shown
           /\ backstageOverallStatus(d.tests) = "healthy" => shown = 0
      /\ ShowsSome(d.tests, IF Complete(p, i) THEN d.of ELSE total[p].tests)

(* The exit code tells the outcome of a call: 0 only if every suite ran    *)
(* and no test failed, with or without an event; 1 only if an argument was *)
(* bad, a suite could not be loaded or a test failed; 3 only if            *)
(* prerequisites were not met; 2 only for a configuration or an argument   *)
(* that is not valid, and always for such a configuration.  The watch loop *)
(* ends with 0 whatever the tests did.                                     *)
BadArgument(p) == ~call[p].timeout \/ ChainFails(p)
ExitTellsOutcome == \A p \in Procs :
  LET suites == call[p].suites
  IN  /\ exit[p] = 0 /\ call[p].mode \in {"run", "monorepo"} =>
           \A i \in DOMAIN suites : suites[i].loads /\ suites[i].ready /\ Failures(suites[i].tests) = 0
      /\ exit[p] = 1 => \/ BadArgument(p) \/ suites = << >>
                        \/ \E i \in DOMAIN suites : ~suites[i].loads \/ Failures(suites[i].tests) > 0
      /\ exit[p] = 2 => ~call[p].config \/ BadArgument(p)
      /\ exit[p] = 3 => \E i \in DOMAIN suites : suites[i].loads /\ ~suites[i].ready
      /\ exit[p] # Unset /\ ~call[p].config => exit[p] = 2

(* A project whose last summary had failures has an open incident, unless  *)
(* a notification was lost or a monorepo, whose projects share what the    *)
(* reporter remembers, is reported on change.                              *)
FailureRaisesIncident ==
  lost \/ (\E p \in Procs : call[p].mode = "monorepo" /\ call[p].on = "change")
       \/ \A project \in DOMAIN status : status[project] > 0 => project \in incident

(* While no save of the baseline overlaps another process or is cut short, *)
(* the file has the last timing of every test of every run that saved, the *)
(* tests that later runs left out included.                                *)
BaselineKept == ~disturbed /\ (\A p \in Procs : pc[p] # "write") => file = kept

(* Under the same condition a run has reported as regressions exactly the  *)
(* tests that it found slower, by more than the threshold, than the last   *)
(* timing that was saved.                                                  *)
RegressionsReported == \A p \in Procs :
  pc[p] \in {"truncate", "write"} /\ ~disturbed => flagged[p] = Compare(kept, Durations(p))

(* SPEC.md:244: an incident is resolved when a failing run recovers.  Not  *)
(* so: each run of the watch loop and each process builds a reporter that  *)
(* remembers no failure, and the event of a run that recovers is a trigger *)
(* or is not sent at all.                                                  *)
RecoveredMeansResolved ==
  ~lost => \A project \in DOMAIN status : status[project] = 0 => project \notin incident

(* README.md:457: "2 | Config error or invalid arguments".  Not so: a bad  *)
(* --timeout or --format ends the command with 1, as failed tests do.      *)
BadArgumentsExitWith2 == \A p \in Procs :
  call[p].mode = "run" /\ BadArgument(p) /\ exit[p] # Unset => exit[p] = 2

(* SPEC.md:1452: "Each test becomes a span".  Not so: the reporters make   *)
(* an entry or a span of each attempt at it.                               *)
EachTestBecomesASpan == \A p \in Procs : \A i \in DOMAIN docs[p] :
  LET d == docs[p][i]
  IN  Complete(p, i) /\ ~call[p].parallel =>
        Len(d.tests) = Cardinality({j \in Reported(d.of) : d.of[j].final})

=============================================================================

------------------------------- MODULE Stress -------------------------------
(***************************************************************************)
(* The stress command (cmd/stress.go) and Runner.StressTest                *)
(* (internal/runner/stress.go): one test is run many times by goroutines   *)
(* that a buffered channel, used as a semaphore, keeps at Workers at a     *)
(* time, with an optional stop at the first failure.                       *)
(*                                                                         *)
(* A run ends passed or not; a run that did not pass leaves an error       *)
(* message, except a skipped one, which leaves none.                       *)
(*                                                                         *)
(* Definitions whose comments begin with "Fault:" vary the one after them  *)
(* and take no part in Spec; in its place, each must break a property.     *)
(***************************************************************************)
EXTENDS Integers, Sequences, FiniteSetsExt

CONSTANTS
  Runs,       \* --runs
  Workers,    \* --workers
  Messages,   \* error messages a failing run may leave
  NoMessage   \* the empty error message

Run == 1..Runs

ASSUME StressAssumption ==
  /\ Runs \in Nat
  /\ Workers \in Nat \ {0}
  /\ NoMessage \notin Messages

VARIABLES
  failFast,   \* --fail-fast
  pc,         \* where the command is
  launched,   \* iterations whose goroutine has been started
  run,        \* where the goroutine of each iteration is
  msg,        \* its error message
  sem,        \* tokens in the channel
  wg,         \* the WaitGroup counter
  passes, failures,   \* the atomic counters
  errors,     \* the messages appended under mu
  durations,  \* how many durations were appended under mu
  result,     \* the StressResult once it has been built
  cleaned,    \* after_all has run and background processes are killed
  exit,       \* the exit code of the command
  late        \* history: runs launched although a failure had been counted

vars == <<failFast, pc, launched, run, msg, sem, wg, passes, failures, errors,
          durations, result, cleaned, exit, late>>

Stages == {"idle", "running", "counted", "logged", "timed", "released", "done"}
InFlight == {"running", "counted", "logged", "timed", "released"}
Holding == InFlight \ {"released"}

At(stages) == {r \in Run : run[r] \in stages}

NoResult == [total |-> -1]

Init ==
  /\ failFast \in BOOLEAN
  /\ pc = "lookup"
  /\ launched = 0
  /\ run = [r \in Run |-> "idle"]
  /\ msg = [r \in Run |-> NoMessage]
  /\ sem = 0
  /\ wg = 0
  /\ passes = 0
  /\ failures = 0
  /\ errors = <<>>
  /\ durations = 0
  /\ result = NoResult
  /\ cleaned = FALSE
  /\ exit = -1
  /\ late = 0

\* What is returned for a test that is not in the configuration.
UnknownTest ==
  [total |-> 0, passes |-> 0, failures |-> 0, reliability |-> "", groups |-> {},
   durations |-> 0]

(***************************************************************************)
(* Aggregation.  DedupErrors groups equal messages; the order it sorts     *)
(* them in is left out.  The thresholds of ReliabilityStatus are compared  *)
(* on passes * 100 and total, the pass rate being their quotient.          *)
(***************************************************************************)
DedupErrors(seq) ==
  {[message |-> m, count |-> Cardinality({i \in DOMAIN seq : seq[i] = m})] :
     m \in {seq[i] : i \in DOMAIN seq}}

ReliabilityStatus(passed, total) ==
  IF total > 0 /\ passed * 100 >= 100 * total THEN "Stable"
  ELSE IF total > 0 /\ passed * 100 >= 95 * total THEN "Flaky"
  ELSE "Unreliable"

StressResult ==
  [total |-> passes + failures, passes |-> passes, failures |-> failures,
   reliability |-> ReliabilityStatus(passes, passes + failures),
   groups |-> DedupErrors(errors), durations |-> durations]
-----------------------------------------------------------------------------
(***************************************************************************)
(* The loop of StressTest.                                                 *)
(***************************************************************************)
\* Fault: one failure is tolerated.
FailureSeenTwice == failFast /\ failures > 1

FailureSeen == failFast /\ failures > 0

\* An unknown test leaves a zero result; before_all runs, its error is dropped.
Lookup ==
  /\ pc = "lookup"
  /\ \/ pc' = "check" /\ UNCHANGED result
     \/ pc' = "report" /\ result' = UnknownTest
  /\ UNCHANGED <<failFast, launched, run, msg, sem, wg, passes, failures, errors,
                 durations, cleaned, exit, late>>

\* The check of the loop head, then wg.Add.
Admit ==
  /\ pc = "check"
  /\ launched < Runs
  /\ ~FailureSeen
  /\ wg' = wg + 1
  /\ pc' = "acquire"
  /\ UNCHANGED <<failFast, launched, run, msg, sem, passes, failures, errors,
                 durations, result, cleaned, exit, late>>

\* The send blocks while the channel is full; then the goroutine is started.
Launch ==
  /\ pc = "acquire"
  /\ sem < Workers
  /\ sem' = sem + 1
  /\ launched' = launched + 1
  /\ run' = [run EXCEPT ![launched + 1] = "running"]
  /\ late' = IF failures > 0 THEN late + 1 ELSE late
  /\ pc' = "check"
  /\ UNCHANGED <<failFast, msg, wg, passes, failures, errors, durations, result,
                 cleaned, exit>>

LeaveLoop ==
  /\ pc = "check"
  /\ launched = Runs \/ FailureSeen
  /\ pc' = "wait"
  /\ UNCHANGED <<failFast, launched, run, msg, sem, wg, passes, failures, errors,
                 durations, result, cleaned, exit, late>>

Collect ==
  /\ pc = "wait"
  /\ wg = 0
  /\ result' = StressResult
  /\ pc' = "teardown"
  /\ UNCHANGED <<failFast, launched, run, msg, sem, wg, passes, failures, errors,
                 durations, cleaned, exit, late>>

Teardown ==
  /\ pc = "teardown"
  /\ cleaned' = TRUE
  /\ pc' = "report"
  /\ UNCHANGED <<failFast, launched, run, msg, sem, wg, passes, failures, errors,
                 durations, result, exit, late>>

\* Fault: a test that is only flaky or worse is no reason to fail.
ReportUnknownOnly ==
  /\ pc = "report"
  /\ exit' = IF result.total = 0 THEN 1 ELSE 0
  /\ pc' = "exited"
  /\ UNCHANGED <<failFast, launched, run, msg, sem, wg, passes, failures, errors,
                 durations, result, cleaned, late>>

\* No run at all is reported as an unknown test, whatever the reason.
Report ==
  /\ pc = "report"
  /\ exit' = IF result.total = 0 \/ result.passes < result.total THEN 1 ELSE 0
  /\ pc' = "exited"
  /\ UNCHANGED <<failFast, launched, run, msg, sem, wg, passes, failures, errors,
                 durations, result, cleaned, late>>
-----------------------------------------------------------------------------
(***************************************************************************)
(* One goroutine.                                                          *)
(***************************************************************************)
Move(r, stage) == run' = [run EXCEPT ![r] = stage]

RunPasses(r) ==
  /\ run[r] = "running"
  /\ passes' = passes + 1
  /\ Move(r, "counted")
  /\ UNCHANGED <<failFast, pc, launched, msg, sem, wg, failures, errors, durations,
                 result, cleaned, exit, late>>

RunFails(r) ==
  /\ run[r] = "running"
  /\ failures' = failures + 1
  /\ \E m \in Messages \cup {NoMessage} : msg' = [msg EXCEPT ![r] = m]
  /\ Move(r, "counted")
  /\ UNCHANGED <<failFast, pc, launched, sem, wg, passes, errors, durations,
                 result, cleaned, exit, late>>

AppendError(r) ==
  /\ run[r] = "counted"
  /\ errors' = IF msg[r] # NoMessage THEN Append(errors, msg[r]) ELSE errors
  /\ Move(r, "logged")
  /\ UNCHANGED <<failFast, pc, launched, msg, sem, wg, passes, failures, durations,
                 result, cleaned, exit, late>>

\* Fault: a failing run returns before its duration is appended.
AppendDurationIfClean(r) ==
  /\ run[r] = "logged"
  /\ durations' = IF msg[r] = NoMessage THEN durations + 1 ELSE durations
  /\ Move(r, "timed")
  /\ UNCHANGED <<failFast, pc, launched, msg, sem, wg, passes, failures, errors,
                 result, cleaned, exit, late>>

AppendDuration(r) ==
  /\ run[r] = "logged"
  /\ durations' = durations + 1
  /\ Move(r, "timed")
  /\ UNCHANGED <<failFast, pc, launched, msg, sem, wg, passes, failures, errors,
                 result, cleaned, exit, late>>

\* Fault: the receive is not deferred, and a failing run returns before it.
ReleaseIfClean(r) ==
  /\ run[r] = "timed"
  /\ sem' = IF msg[r] = NoMessage THEN sem - 1 ELSE sem
  /\ Move(r, "released")
  /\ UNCHANGED <<failFast, pc, launched, msg, wg, passes, failures, errors,
                 durations, result, cleaned, exit, late>>

\* The deferred receive from the channel, then the deferred wg.Done.
Release(r) ==
  /\ run[r] = "timed"
  /\ sem' = sem - 1
  /\ Move(r, "released")
  /\ UNCHANGED <<failFast, pc, launched, msg, wg, passes, failures, errors,
                 durations, result, cleaned, exit, late>>

Finish(r) ==
  /\ run[r] = "released"
  /\ wg' = wg - 1
  /\ Move(r, "done")
  /\ UNCHANGED <<failFast, pc, launched, msg, sem, passes, failures, errors,
                 durations, result, cleaned, exit, late>>

MainStep == Lookup \/ Admit \/ Launch \/ LeaveLoop \/ Collect \/ Teardown \/ Report

RunStep(r) ==
  \/ RunPasses(r) \/ RunFails(r) \/ AppendError(r) \/ AppendDuration(r)
  \/ Release(r) \/ Finish(r)

Exited == pc = "exited" /\ UNCHANGED vars

Next == MainStep \/ (\E r \in Run : RunStep(r)) \/ Exited

\* A run is bounded by the timeout of its test, so every goroutine gets on.
Fairness == WF_vars(MainStep) /\ \A r \in Run : WF_vars(RunStep(r))

Spec == Init /\ [][Next]_vars /\ Fairness
-----------------------------------------------------------------------------
(***************************************************************************)
(* Properties.                                                             *)
(***************************************************************************)
Places == {"lookup", "check", "acquire", "wait", "teardown", "report", "exited"}

Results ==
  [total : Nat, passes : Nat, failures : Nat,
   reliability : {"", "Stable", "Flaky", "Unreliable"},
   groups : SUBSET [message : Messages, count : Nat], durations : Nat]

(***************************************************************************)
(* Types; the loop never starts more goroutines than it was asked for.     *)
(***************************************************************************)
TypeOK ==
  /\ failFast \in BOOLEAN
  /\ pc \in Places
  /\ launched \in 0..Runs
  /\ run \in [Run -> Stages]
  /\ msg \in [Run -> Messages \cup {NoMessage}]
  /\ sem \in 0..Workers
  /\ wg \in Nat
  /\ passes \in Nat
  /\ failures \in Nat
  /\ errors \in Seq(Messages)
  /\ durations \in Nat
  /\ result = NoResult \/ result \in Results
  /\ cleaned \in BOOLEAN
  /\ exit \in {-1, 0, 1}
  /\ late \in Nat

(***************************************************************************)
(* At most Workers runs of the test are in progress at any time (the       *)
(* channel sem of StressTest).                                             *)
(***************************************************************************)
WorkerBound == Cardinality(At({"running"})) <= Workers

(***************************************************************************)
(* The result is built when every goroutine is through: each launched run  *)
(* is in exactly one counter and has its duration (wg.Wait).               *)
(***************************************************************************)
ResultComplete ==
  result # NoResult =>
    /\ At(InFlight) = {}
    /\ result.total = launched
    /\ result.passes + result.failures = launched
    /\ result.durations = launched

(***************************************************************************)
(* The exit code and the label agree with the runs: 0 is only returned     *)
(* when every requested run was made and passed, and such a test is called *)
(* Stable (runStress, ReliabilityStatus).                                  *)
(***************************************************************************)
ExitMeansAllPassed ==
  exit = 0 => result.passes = Runs /\ result.reliability = "Stable"

(***************************************************************************)
(* The error groups count every message a run left, once: none is lost or  *)
(* doubled by concurrent appends and the grouping (errors, DedupErrors).   *)
(***************************************************************************)
ErrorsGrouped ==
  result # NoResult =>
    MapThenSumSet(LAMBDA g : g.count, result.groups) =
      Cardinality({r \in Run : msg[r] # NoMessage})

(***************************************************************************)
(* Hooks and background processes of before_all are torn down only when no *)
(* run of the test is in progress (the defer of StressTest).               *)
(***************************************************************************)
TeardownAfterRuns == cleaned => At(Holding) = {}

(***************************************************************************)
(* Under --fail-fast at most one run starts after a failure was counted:   *)
(* the one whose turn had been checked before it waited for the channel.   *)
(***************************************************************************)
AtMostOneLate == failFast => late <= 1

(***************************************************************************)
(* The command ends: the loop is never stuck on a full channel and the     *)
(* WaitGroup reaches zero.                                                 *)
(***************************************************************************)
Termination == <>(pc = "exited")

(***************************************************************************)
(* README.md:320 and the flag (cmd/stress.go:33) say that --fail-fast      *)
(* stops on the first failure.  The code checks before it blocks on the    *)
(* channel, so with one worker it starts one more run.                     *)
(***************************************************************************)
StopsOnFirstFailure ==
  [][failFast /\ launched' # launched => failures = 0]_vars
=============================================================================

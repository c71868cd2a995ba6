---------------------------- MODULE ReportProofs ----------------------------
(***************************************************************************)
(* Proofs about Report: the exit code of the run command, the baseline     *)
(* file, the incidents of notifications, and the documents of reporters.   *)
(***************************************************************************)
EXTENDS Report, FiniteSetTheorems, TLAPS

Places == {"start", "suite", "tests", "next", "stopped", "load", "truncate", "write", "exit", "done"}
Saving(p) == pc[p] \in {"truncate", "write"}

-----------------------------------------------------------------------------
(* The inductive invariant.                                                *)

Shape ==
  /\ call \in Calls
  /\ pc \in [Procs -> Places] /\ at \in [Procs -> Nat \ {0}]
  /\ exit \in [Procs -> {Unset, 0, 1, 2, 3, 137}]
  /\ DOMAIN total = Procs /\ \A p \in Procs : total[p].failed \in Nat

(* The first n suites could be run, and are free of failures if none was   *)
(* counted.                                                                *)
Fine(s) == s.loads /\ s.ready
Ran(p, n) == \A i \in DOMAIN call[p].suites : i <= n =>
  /\ Fine(call[p].suites[i])
  /\ total[p].failed = 0 => Failures(call[p].suites[i].tests) = 0

Progress(p) ==
  /\ pc[p] = "start" => at[p] = 1
  /\ pc[p] \in {"suite", "tests", "next"} => at[p] \in DOMAIN call[p].suites
  /\ pc[p] \notin {"start", "done"} => call[p].config
  /\ pc[p] = "stopped" => call[p].mode = "watch"
  /\ pc[p] \in {"suite", "tests"} /\ call[p].mode # "watch" => Ran(p, at[p] - 1)
  /\ pc[p] = "tests" => Fine(Suite(p))
  /\ pc[p] = "next" /\ call[p].mode # "watch" => Ran(p, at[p])
  /\ pc[p] \in {"load", "truncate", "write", "exit"} => Ran(p, Len(call[p].suites))

(* What may be to blame for a code that is not 0, and that failures were   *)
(* counted.                                                                *)
Failed(p) == \E i \in DOMAIN call[p].suites : Failures(call[p].suites[i].tests) > 0
Blamed(p) == \/ BadArgument(p) \/ call[p].suites = << >> \/ Failed(p)
             \/ \E i \in DOMAIN call[p].suites : ~call[p].suites[i].loads
Unmet(p)  == \E i \in DOMAIN call[p].suites : call[p].suites[i].loads /\ ~call[p].suites[i].ready

Told(p) ==
  /\ exit[p] = Unset <=> pc[p] # "done"
  /\ total[p].failed > 0 => Failed(p)
  /\ exit[p] = 0 /\ call[p].mode # "watch" => Ran(p, Len(call[p].suites)) /\ total[p].failed = 0
  /\ exit[p] = 1 => Blamed(p)
  /\ exit[p] = 3 => Unmet(p)
  /\ exit[p] = 2 <=> pc[p] = "done" /\ ~call[p].config

ExitInv == Shape /\ \A p \in Procs : Progress(p) /\ Told(p)

(* One process at a time saves, and what it has loaded is what was kept.   *)
BaselineInv ==
  /\ DOMAIN pc = Procs /\ DOMAIN total = Procs /\ DOMAIN view = Procs /\ DOMAIN flagged = Procs
  /\ ~disturbed =>
       /\ (\A p \in Procs : pc[p] # "write") => file = kept
       /\ \A p \in Procs : Saving(p) => view[p] = kept /\ flagged[p] = Compare(kept, Durations(p))
       /\ \A p, q \in Procs : Saving(p) /\ Saving(q) => p = q

-----------------------------------------------------------------------------
(* Lemmas.                                                                 *)

(* Failures are counted in natural numbers.                                *)
LEMMA FailuresNat ==
  ASSUME NEW s \in SuiteType
  PROVE  Failures(s.tests) \in Nat
<1> DEFINE F == {i \in DOMAIN s.tests : Counted(s.tests[i])}
<1>1. s.tests \in Seq(TestType)
  BY DEF SuiteType
<1>2. Len(s.tests) \in Nat /\ DOMAIN s.tests = 1..Len(s.tests)
  BY <1>1
<1>3. IsFiniteSet(1..Len(s.tests))
  <2>1. \A n \in Nat : IsFiniteSet(1..n)
    BY FS_Interval
  <2> QED
    BY <1>2, <2>1
<1>4. IsFiniteSet(F)
  BY <1>2, <1>3, FS_Subset
<1>5. Cardinality(F) \in Nat
  BY <1>4, FS_CardinalityType
<1> QED
  BY <1>5 DEF Failures

(* The suites of a call.                                                   *)
LEMMA SuitesTyped ==
  ASSUME call \in Calls, NEW p \in Procs
  PROVE  /\ call[p].suites \in Seq(SuiteType)
         /\ Len(call[p].suites) \in Nat
         /\ DOMAIN call[p].suites = 1..Len(call[p].suites)
         /\ \A i \in DOMAIN call[p].suites :
              call[p].suites[i] \in SuiteType /\ Failures(call[p].suites[i].tests) \in Nat
<1>1. call[p].suites \in Seq(SuiteType)
  BY ReportAssumption
<1>2. \A i \in DOMAIN call[p].suites : call[p].suites[i] \in SuiteType
  BY <1>1
<1> QED
  BY <1>1, <1>2, FailuresNat

(* What a process has been through depends on its own variables only.      *)
LEMMA Undisturbed ==
  ASSUME NEW q \in Procs, Progress(q), Told(q), call' = call,
         pc'[q] = pc[q], at'[q] = at[q], exit'[q] = exit[q], total'[q] = total[q]
  PROVE  Progress(q)' /\ Told(q)'
<1>1. /\ ChainFails(q)' <=> ChainFails(q)
      /\ Failed(q)' <=> Failed(q)
      /\ Unmet(q)' <=> Unmet(q)
  BY DEF ChainFails, Failed, Unmet
<1>2. Blamed(q)' <=> Blamed(q)
  BY <1>1 DEF Blamed, BadArgument
<1>3. Progress(q)'
  BY DEF Progress, Ran, Fine, Suite
<1>4. Told(q)'
  BY <1>1, <1>2 DEF Told, Ran, Fine
<1> QED
  BY <1>3, <1>4

(* And who is to blame on the call only.                                   *)
LEMMA SameBlame ==
  ASSUME NEW q, call' = call
  PROVE  (Blamed(q)' <=> Blamed(q)) /\ (Failed(q)' <=> Failed(q)) /\ (Unmet(q)' <=> Unmet(q))
BY DEF Blamed, BadArgument, ChainFails, Failed, Unmet

-----------------------------------------------------------------------------
(* The exit code.                                                          *)

LEMMA ExitInit == Init => ExitInv
<1> SUFFICES ASSUME Init PROVE ExitInv
  OBVIOUS
<1>1. Shape
  BY DEF Init, Shape, Places, NoTotal
<1>2. ASSUME NEW p \in Procs PROVE Progress(p) /\ Told(p)
  BY <1>2, ReportAssumption DEF Init, Progress, Told, NoTotal
<1> QED
  BY <1>1, <1>2 DEF ExitInv

(* A step to another place of the same process, which neither counts nor   *)
(* ends.                                                                   *)
LEMMA Moves ==
  ASSUME ExitInv, NEW p \in Procs, NEW from, NEW to \in Places \ {"done"},
         Go(p, from, to), from # "done", Progress(p)',
         call' = call, exit' = exit, total' = total,
         at' \in [Procs -> Nat \ {0}], \A q \in Procs \ {p} : at'[q] = at[q]
  PROVE  ExitInv'
<1> USE DEF ExitInv
<1>1. Shape'
  BY DEF Shape, Go
<1>2. ASSUME NEW q \in Procs \ {p} PROVE Progress(q)' /\ Told(q)'
  <2>1. pc'[q] = pc[q] /\ at'[q] = at[q] /\ exit'[q] = exit[q] /\ total'[q] = total[q]
    BY <1>2 DEF Shape, Go
  <2> QED
    BY <1>2, <2>1, Undisturbed
<1>3. Told(p)'
  <2>1. pc[p] # "done" /\ pc'[p] # "done" /\ exit'[p] = Unset
    BY DEF Shape, Go, Told
  <2> QED
    BY <2>1, ReportAssumption, SameBlame DEF Told
<1> QED
  BY <1>1, <1>2, <1>3

(* The end of a process.                                                   *)
LEMMA Ends ==
  ASSUME ExitInv, NEW p \in Procs, NEW from, NEW code \in {0, 1, 2, 3, 137},
         ExitWith(p, from, code),
         call' = call, at' = at, total' = total,
         code = 0 /\ call[p].mode # "watch" => Ran(p, Len(call[p].suites)) /\ total[p].failed = 0,
         code = 1 => Blamed(p), code = 3 => Unmet(p),
         code = 2 <=> ~call[p].config
  PROVE  ExitInv'
<1> USE DEF ExitInv
<1>1. Shape'
  BY DEF Shape, ExitWith, Go, Places
<1>2. ASSUME NEW q \in Procs \ {p} PROVE Progress(q)' /\ Told(q)'
  <2>1. pc'[q] = pc[q] /\ at'[q] = at[q] /\ exit'[q] = exit[q] /\ total'[q] = total[q]
    BY <1>2 DEF Shape, ExitWith, Go
  <2> QED
    BY <1>2, <2>1, Undisturbed
<1>3. pc'[p] = "done" /\ exit'[p] = code
  BY DEF Shape, ExitWith, Go
<1>4. Progress(p)'
  BY <1>3 DEF Progress
<1>5. Told(p)'
  BY <1>3, ReportAssumption, SameBlame DEF Told, Ran, Fine
<1> QED
  BY <1>1, <1>2, <1>4, <1>5

LEMMA StartSteps ==
  ASSUME ExitInv, NEW p \in Procs, ConfigFails(p) \/ ArgumentsFail(p) \/ Build(p)
  PROVE  ExitInv'
<1>1. CASE ConfigFails(p)
  BY <1>1, Ends DEF ConfigFails, ExitCodeForError, reporting
<1>2. CASE ArgumentsFail(p)
  <2>1. Blamed(p) /\ call[p].config /\ ExitWith(p, "start", 1)
    BY <1>2 DEF ArgumentsFail, ExitCodeForError, Blamed, BadArgument
  <2> QED
    BY <1>2, <2>1, Ends DEF ArgumentsFail, reporting
<1>3. CASE Build(p)
  <2>1. PICK to \in {"suite", "stopped"} :
          /\ Go(p, "start", to)
          /\ to = "stopped" => call[p].mode = "watch"
    BY <1>3 DEF Build
  <2>2. call[p].suites \in Seq(SuiteType) /\ call[p].suites # << >> /\ call[p].config
    BY <1>3, SuitesTyped DEF Build, ExitInv, Shape
  <2>3. at[p] = 1 /\ 1 \in DOMAIN call[p].suites
    BY <2>1, <2>2 DEF Go, ExitInv, Progress
  <2>4. Progress(p)'
    BY <1>3, <2>1, <2>2, <2>3 DEF Build, Progress, Go, Ran, ExitInv, Shape
  <2> QED
    BY <1>3, <2>1, <2>4, Moves DEF Build, Places, ExitInv, Shape
<1> QED
  BY <1>1, <1>2, <1>3

LEMMA SuiteSteps ==
  ASSUME ExitInv, NEW p \in Procs, SuiteFails(p) \/ StartSuite(p) \/ Summary(p)
  PROVE  ExitInv'
<1> USE DEF ExitInv, Shape
<1>1. pc[p] \in {"suite", "tests"} /\ at[p] \in DOMAIN call[p].suites
  BY DEF SuiteFails, StartSuite, Summary, Go, ExitWith, Progress
<1>2. Suite(p) \in SuiteType /\ Failures(Tests(p)) \in Nat
  BY <1>1, SuitesTyped DEF Suite, Tests
<1>3. CASE SuiteFails(p) /\ call[p].mode = "watch"
  <2>1. Go(p, "suite", "next")
    BY <1>3 DEF SuiteFails
  <2>2. Progress(p)'
    BY <1>3, <2>1 DEF SuiteFails, Progress, Go
  <2> QED
    BY <1>3, <2>1, <2>2, Moves DEF SuiteFails, Places, reporting
<1>4. CASE SuiteFails(p) /\ call[p].mode # "watch"
  <2>1. call[p].config
    BY <1>4 DEF SuiteFails, ExitWith, Go, Progress
  <2>2. PICK code \in {1, 3} :
          /\ ExitWith(p, "suite", code)
          /\ code = 3 <=> Suite(p).loads
    BY <1>4 DEF SuiteFails, ExitCodeForError
  <2>3. (code = 3 => Unmet(p)) /\ (code = 1 => Blamed(p))
    BY <1>1, <1>2, <1>4, <2>2 DEF SuiteFails, SuiteType, Unmet, Blamed, Suite
  <2> QED
    BY <1>4, <2>1, <2>2, <2>3, Ends DEF SuiteFails, reporting
<1>5. CASE StartSuite(p)
  <2>1. Progress(p)'
    BY <1>5 DEF StartSuite, Progress, Go, Ran, Fine, Suite
  <2> QED
    BY <1>5, <2>1, Moves DEF StartSuite, Places
<1>6. CASE Summary(p)
  <2>1. /\ Go(p, "tests", "next") /\ call' = call /\ at' = at /\ exit' = exit
        /\ total' = [total EXCEPT ![p] = [failed |-> total[p].failed + Failures(Tests(p)),
                                          tests  |-> total[p].tests \o Tests(p)]]
    BY <1>6 DEF Summary
  <2>2. total'[p].failed = total[p].failed + Failures(Tests(p))
    BY <2>1
  <2>3. total'[p].failed = 0 => total[p].failed = 0 /\ Failures(Tests(p)) = 0
    BY <1>2, <2>2
  <2>4. Shape'
    <3>1. \A q \in Procs : total'[q].failed \in Nat
      BY <1>2, <2>1, <2>2
    <3> QED
      BY <2>1, <3>1 DEF Go, Places
  <2>5. ASSUME NEW q \in Procs \ {p} PROVE Progress(q)' /\ Told(q)'
    <3>1. pc'[q] = pc[q] /\ at'[q] = at[q] /\ exit'[q] = exit[q] /\ total'[q] = total[q]
      BY <2>1, <2>5 DEF Go
    <3> QED
      BY <2>1, <2>5, <3>1, Undisturbed
  <2>6. call[p].mode # "watch" => Ran(p, at[p])'
    <3> SUFFICES ASSUME call[p].mode # "watch", NEW i \in DOMAIN call[p].suites, i <= at[p]
                 PROVE  /\ Fine(call[p].suites[i])
                        /\ total'[p].failed = 0 => Failures(call[p].suites[i].tests) = 0
      BY <2>1 DEF Ran, Fine
    <3>1. Ran(p, at[p] - 1) /\ Fine(Suite(p))
      BY <2>1 DEF Go, Progress
    <3>2. CASE i = at[p]
      BY <2>3, <3>1, <3>2 DEF Suite, Tests
    <3>3. CASE i # at[p]
      <4>1. i \in Nat /\ at[p] \in Nat
        BY SuitesTyped
      <4>2. i <= at[p] - 1
        BY <3>3, <4>1
      <4> QED
        BY <2>3, <3>1, <4>2 DEF Ran
    <3> QED
      BY <3>2, <3>3
  <2>7. Progress(p)' /\ Told(p)'
    <3>1. pc[p] = "tests" /\ pc'[p] = "next" /\ exit'[p] = exit[p] /\ exit[p] = Unset
      BY <2>1 DEF Go, Told
    <3>2. total'[p].failed > 0 => Failed(p)
      <4>1. CASE total[p].failed > 0
        BY <4>1 DEF Told
      <4>2. CASE Failures(Tests(p)) > 0
        BY <1>1, <4>2 DEF Failed, Tests, Suite
      <4> QED
        BY <1>2, <2>2, <4>1, <4>2
    <3>3. Progress(p)'
      BY <1>1, <2>1, <2>6, <3>1 DEF Progress
    <3>4. Told(p)'
      BY <2>1, <3>1, <3>2, SameBlame, ReportAssumption DEF Told
    <3> QED
      BY <3>3, <3>4
  <2> QED
    BY <2>4, <2>5, <2>7
<1> QED
  BY <1>3, <1>4, <1>5, <1>6

LEMMA NextSteps ==
  ASSUME ExitInv, NEW p \in Procs, NextSuite(p) \/ RunEnds(p) \/ RunMonorepo(p)
  PROVE  ExitInv'
<1> USE DEF ExitInv, Shape
<1>1. /\ pc[p] = "next" /\ at[p] \in DOMAIN call[p].suites
      /\ at[p] \in Nat /\ Len(call[p].suites) \in Nat
      /\ DOMAIN call[p].suites = 1..Len(call[p].suites)
  BY SuitesTyped DEF NextSuite, RunEnds, RunMonorepo, Go, Progress
<1>2. CASE NextSuite(p)
  <2>1. /\ Go(p, "next", "suite") /\ at[p] < Len(call[p].suites)
        /\ at' = [at EXCEPT ![p] = @ + 1] /\ call' = call /\ total' = total /\ exit' = exit
    BY <1>2 DEF NextSuite, More
  <2>2. at'[p] = at[p] + 1 /\ at'[p] \in DOMAIN call[p].suites /\ at'[p] - 1 = at[p]
    <3>1. at'[p] = at[p] + 1
      BY <2>1
    <3>2. \A n, m \in Nat : n \in 1..m /\ n < m => n + 1 \in 1..m /\ (n + 1) - 1 = n
      OBVIOUS
    <3>3. at[p] \in Nat /\ Len(call[p].suites) \in Nat /\ at[p] \in 1..Len(call[p].suites)
      BY <1>1
    <3>4. at[p] + 1 \in 1..Len(call[p].suites) /\ (at[p] + 1) - 1 = at[p]
      BY <2>1, <3>2, <3>3
    <3> QED
      BY <1>1, <3>1, <3>4
  <2>3. Progress(p)'
    BY <1>1, <2>1, <2>2 DEF Progress, Go, Ran, Fine
  <2> QED
    BY <2>1, <2>3, Moves DEF Places
<1>3. ASSUME NEW to \in {"stopped", "load", "exit"}, Go(p, "next", to), ~More(p),
             to = "stopped" <=> call[p].mode = "watch",
             call' = call, at' = at, total' = total, exit' = exit
      PROVE  ExitInv'
  <2>1. at[p] = Len(call[p].suites)
    BY <1>1, <1>3 DEF More
  <2>2. Progress(p)'
    BY <1>1, <1>3, <2>1 DEF Progress, Go, Ran, Fine
  <2> QED
    BY <1>3, <2>2, Moves DEF Places
<1>4. AfterRuns(p) \in {"stopped", "load", "exit"} /\ (AfterRuns(p) = "stopped" <=> call[p].mode = "watch")
  BY DEF AfterRuns
<1>5. CASE RunEnds(p)
  BY <1>3, <1>4, <1>5 DEF RunEnds, reporting
<1>6. CASE RunMonorepo(p)
  BY <1>3, <1>4, <1>6 DEF RunMonorepo
<1> QED
  BY <1>2, <1>5, <1>6

LEMMA LastSteps ==
  ASSUME ExitInv, NEW p \in Procs,
         LoadBaseline(p) \/ SaveTruncates(p) \/ SaveWrites(p) \/ Exit(p) \/ Interrupt(p) \/ Kill(p)
  PROVE  ExitInv'
<1> USE DEF ExitInv, Shape, reporting, baseline
<1>1. ASSUME NEW from \in {"load", "truncate", "write"}, NEW to \in {"truncate", "write", "exit"},
             Go(p, from, to), call' = call, at' = at, total' = total, exit' = exit
      PROVE  ExitInv'
  <2>1. Progress(p)'
    BY <1>1 DEF Progress, Go, Ran, Fine
  <2> QED
    BY <1>1, <2>1, Moves DEF Places
<1>2. CASE LoadBaseline(p)
  BY <1>1, <1>2 DEF LoadBaseline
<1>3. CASE SaveTruncates(p)
  BY <1>1, <1>3 DEF SaveTruncates
<1>4. CASE SaveWrites(p)
  BY <1>1, <1>4 DEF SaveWrites
<1>5. CASE Exit(p)
  <2>1. PICK code \in {0, 1} :
          /\ ExitWith(p, "exit", code) /\ call' = call /\ at' = at /\ total' = total
          /\ code = 0 <=> ~(total[p].failed > 0)
    BY <1>5 DEF Exit, ExitCodeForError
  <2>2. Ran(p, Len(call[p].suites)) /\ call[p].config
    BY <2>1 DEF Progress, ExitWith, Go
  <2>3. code = 0 => total[p].failed = 0
    BY <2>1
  <2>4. code = 1 => Blamed(p)
    BY <2>1 DEF Told, Blamed
  <2> QED
    BY <2>1, <2>2, <2>3, <2>4, Ends
<1>6. CASE Interrupt(p)
  <2>1. call[p].mode = "watch" /\ call[p].config
    BY <1>6 DEF Interrupt, ExitWith, Go, Progress
  <2> QED
    BY <1>6, <2>1, Ends DEF Interrupt
<1>7. CASE Kill(p)
  <2>1. call[p].config
    BY <1>7 DEF Kill, Progress
  <2> QED
    BY <1>7, <2>1, Ends DEF Kill
<1> QED
  BY <1>2, <1>3, <1>4, <1>5, <1>6, <1>7

LEMMA EventSteps ==
  ASSUME ExitInv, NEW p \in Procs, TestResult(p) \/ AppendReads(p) \/ AppendWrites(p)
  PROVE  ExitInv'
<1>1. /\ call' = call /\ pc' = pc /\ at' = at /\ exit' = exit /\ total' = total
  BY DEF TestResult, AppendReads, AppendWrites
<1>2. ASSUME NEW q \in Procs PROVE Progress(q)' /\ Told(q)'
  BY <1>1, <1>2, Undisturbed DEF ExitInv
<1> QED
  BY <1>1, <1>2 DEF ExitInv, Shape

LEMMA ExitNext == ExitInv /\ [Next]_vars => ExitInv'
<1> SUFFICES ASSUME ExitInv, [Next]_vars PROVE ExitInv'
  OBVIOUS
<1>1. CASE UNCHANGED vars
  <2>1. ASSUME NEW q \in Procs PROVE Progress(q)' /\ Told(q)'
    BY <1>1, <2>1, Undisturbed DEF ExitInv, vars, reporting, baseline
  <2> QED
    BY <1>1, <2>1 DEF ExitInv, Shape, vars, reporting, baseline
<1>2. CASE Next
  BY <1>2, StartSteps, SuiteSteps, NextSteps, LastSteps, EventSteps DEF Next, Work
<1> QED
  BY <1>1, <1>2

(* The exit code tells the outcome of every call, with any suites.         *)
THEOREM ExitSound == Spec => []ExitTellsOutcome
<1>1. ExitInv => ExitTellsOutcome
  <2> SUFFICES ASSUME ExitInv, NEW p \in Procs
               PROVE  /\ exit[p] = 0 /\ call[p].mode \in {"run", "monorepo"} =>
                           \A i \in DOMAIN call[p].suites :
                             /\ call[p].suites[i].loads /\ call[p].suites[i].ready
                             /\ Failures(call[p].suites[i].tests) = 0
                      /\ exit[p] = 1 => Blamed(p)
                      /\ exit[p] = 2 => ~call[p].config \/ BadArgument(p)
                      /\ exit[p] = 3 => Unmet(p)
                      /\ exit[p] # Unset /\ ~call[p].config => exit[p] = 2
    BY DEF ExitTellsOutcome, Blamed, Failed, Unmet
  <2>1. Told(p) /\ exit[p] \in {Unset, 0, 1, 2, 3, 137}
    BY DEF ExitInv, Shape
  <2>2. \A i \in DOMAIN call[p].suites : i <= Len(call[p].suites)
    BY SuitesTyped DEF ExitInv, Shape
  <2> QED
    BY <2>1, <2>2 DEF Told, Ran, Fine
<1> QED
  BY <1>1, ExitInit, ExitNext, PTL DEF Spec

-----------------------------------------------------------------------------
(* The baseline.                                                           *)

LEMMA BaselineInit == Init => BaselineInv
BY DEF Init, BaselineInv, Saving

(* A step of a process that saves neither before nor after it.             *)
LEMMA Elsewhere ==
  ASSUME BaselineInv, NEW p \in Procs, ~Saving(p), ~Saving(p)', baseline' = baseline,
         DOMAIN pc' = Procs, DOMAIN total' = Procs,
         \A q \in Procs \ {p} : pc'[q] = pc[q] /\ total'[q] = total[q]
  PROVE  BaselineInv'
<1>1. /\ file' = file /\ view' = view /\ flagged' = flagged
      /\ kept' = kept /\ disturbed' = disturbed
  BY DEF baseline
<1>2. \A q \in Procs : (Saving(q)' <=> Saving(q)) /\ (pc'[q] = "write" <=> pc[q] = "write")
  BY DEF Saving
<1>3. ASSUME NEW q \in Procs, Saving(q)' PROVE Saving(q) /\ Durations(q)' = Durations(q)
  <2>1. q # p /\ Saving(q)
    BY <1>2, <1>3
  <2>2. total'[q] = total[q]
    BY <2>1
  <2>3. LastRuns(q)' = LastRuns(q)
    BY <2>2 DEF LastRuns
  <2>4. Durations(q)' = Durations(q)
    BY <2>3 DEF Durations
  <2> QED
    BY <2>1, <2>4
<1>4. ASSUME NEW q \in Procs, Saving(q)'
      PROVE  Compare(kept, Durations(q))' = Compare(kept, Durations(q))
  BY <1>1, <1>3, <1>4 DEF Compare
<1>5. /\ DOMAIN pc' = Procs /\ DOMAIN total' = Procs
      /\ DOMAIN view' = Procs /\ DOMAIN flagged' = Procs
  BY <1>1 DEF BaselineInv
<1>6. CASE disturbed
  BY <1>1, <1>5, <1>6 DEF BaselineInv
<1>7. CASE ~disturbed
  <2>1. (\A q \in Procs : pc'[q] # "write") => file' = kept'
    BY <1>1, <1>2, <1>7 DEF BaselineInv
  <2>2. ASSUME NEW q \in Procs, Saving(q)'
        PROVE  view'[q] = kept' /\ flagged'[q] = Compare(kept, Durations(q))'
    BY <1>1, <1>3, <1>4, <1>7, <2>2 DEF BaselineInv
  <2>3. \A q, r \in Procs : Saving(q)' /\ Saving(r)' => q = r
    BY <1>2, <1>7 DEF BaselineInv
  <2> QED
    BY <1>5, <2>1, <2>2, <2>3 DEF BaselineInv
<1> QED
  BY <1>6, <1>7

LEMMA BaselineLoads ==
  ASSUME BaselineInv, NEW p \in Procs, LoadBaseline(p)
  PROVE  BaselineInv'
<1>1. /\ pc[p] = "load" /\ pc' = [pc EXCEPT ![p] = "truncate"]
      /\ view' = [view EXCEPT ![p] = file]
      /\ flagged' = [flagged EXCEPT ![p] = Compare(file, Durations(p))]
      /\ disturbed' = (disturbed \/ \E q \in Procs \ {p} : pc[q] \in {"truncate", "write"})
      /\ total' = total /\ file' = file /\ kept' = kept
  BY DEF LoadBaseline, Go, reporting
<1>2. /\ DOMAIN pc' = Procs /\ DOMAIN total' = Procs /\ DOMAIN view' = Procs /\ DOMAIN flagged' = Procs
  BY <1>1 DEF BaselineInv
<1>3. \A q \in Procs : Durations(q)' = Durations(q)
  BY <1>1 DEF Durations, LastRuns
<1>4. CASE disturbed'
  BY <1>2, <1>4 DEF BaselineInv
<1>5. CASE ~disturbed'
  <2>1. ~disturbed /\ \A q \in Procs \ {p} : ~Saving(q) /\ ~Saving(q)'
    BY <1>1, <1>5 DEF Saving, BaselineInv
  <2>2. \A q \in Procs : pc[q] # "write"
    BY <1>1, <2>1 DEF Saving
  <2>3. file' = kept'
    BY <1>1, <2>1, <2>2 DEF BaselineInv
  <2>4. view'[p] = kept' /\ flagged'[p] = Compare(kept', Durations(p)')
    BY <1>1, <1>3, <2>3 DEF BaselineInv
  <2>5. ASSUME NEW q \in Procs, Saving(q)'
        PROVE  q = p /\ view'[q] = kept' /\ flagged'[q] = Compare(kept, Durations(q))'
    BY <2>1, <2>4, <2>5 DEF Compare
  <2> QED
    BY <1>2, <2>3, <2>5 DEF BaselineInv
<1> QED
  BY <1>4, <1>5

LEMMA BaselineSaves ==
  ASSUME BaselineInv, NEW p \in Procs, SaveTruncates(p) \/ SaveWrites(p)
  PROVE  BaselineInv'
<1>1. /\ pc[p] \in {"truncate", "write"} /\ DOMAIN pc' = Procs
      /\ \A q \in Procs \ {p} : pc'[q] = pc[q]
      /\ view' = view /\ flagged' = flagged /\ disturbed' = disturbed /\ total' = total
  BY DEF SaveTruncates, SaveWrites, Go, BaselineInv, reporting
<1>2. \A q \in Procs : Durations(q)' = Durations(q)
  BY <1>1 DEF Durations, LastRuns
<1>3. Saving(p)
  BY <1>1 DEF Saving
<1>4. CASE disturbed
  BY <1>1, <1>4 DEF BaselineInv
<1>5. CASE ~disturbed /\ SaveTruncates(p)
  <2>1. pc'[p] = "write" /\ kept' = kept
    BY <1>5 DEF SaveTruncates, Go, BaselineInv
  <2>2. \A q \in Procs : Saving(q)' => Saving(q)
    BY <1>1, <1>3 DEF Saving
  <2> QED
    BY <1>1, <1>2, <1>5, <2>1, <2>2 DEF BaselineInv
<1>6. CASE ~disturbed /\ SaveWrites(p)
  <2>1. /\ pc'[p] = "exit" /\ file' = Update(view[p], Durations(p)) /\ kept' = Update(kept, Durations(p))
    BY <1>6 DEF SaveWrites, Update, Go, BaselineInv
  <2>2. \A q \in Procs : ~Saving(q)'
    BY <1>1, <1>3, <1>6, <2>1 DEF Saving, BaselineInv
  <2>3. view[p] = kept
    BY <1>3, <1>6 DEF BaselineInv
  <2> QED
    BY <1>1, <2>1, <2>2, <2>3 DEF BaselineInv
<1> QED
  BY <1>4, <1>5, <1>6

LEMMA BaselineKill ==
  ASSUME BaselineInv, NEW p \in Procs, Kill(p)
  PROVE  BaselineInv'
<1>1. /\ pc' = [pc EXCEPT ![p] = "done"] /\ disturbed' = (disturbed \/ pc[p] = "write")
      /\ file' = file /\ view' = view /\ flagged' = flagged /\ kept' = kept /\ total' = total
  BY DEF Kill, ExitWith, Go, reporting
<1>2. \A q \in Procs : Durations(q)' = Durations(q)
  BY <1>1 DEF Durations, LastRuns
<1>3. /\ DOMAIN pc' = Procs
      /\ \A q \in Procs : Saving(q)' => Saving(q)
      /\ pc[p] # "write" => \A q \in Procs : pc[q] = "write" => pc'[q] = "write"
  BY <1>1 DEF BaselineInv, Saving
<1>4. CASE disturbed'
  BY <1>1, <1>3, <1>4 DEF BaselineInv
<1>5. CASE ~disturbed'
  BY <1>1, <1>2, <1>3, <1>5 DEF BaselineInv
<1> QED
  BY <1>4, <1>5

LEMMA BaselineOther ==
  ASSUME BaselineInv, NEW p \in Procs,
         Work(p), ~(LoadBaseline(p) \/ SaveTruncates(p) \/ SaveWrites(p))
  PROVE  BaselineInv'
<1> DEFINE Quiet == /\ ~Saving(p) /\ ~Saving(p)' /\ baseline' = baseline
                    /\ DOMAIN pc' = Procs /\ DOMAIN total' = Procs
                    /\ \A q \in Procs \ {p} : pc'[q] = pc[q] /\ total'[q] = total[q]
<1> USE DEF BaselineInv, Saving, Go, ExitWith, reporting
<1>1. CASE ConfigFails(p) \/ ArgumentsFail(p) \/ Exit(p) \/ Interrupt(p)
  <2>1. Quiet
    BY <1>1 DEF ConfigFails, ArgumentsFail, Exit, Interrupt
  <2> QED
    BY <2>1, Elsewhere
<1>2. CASE Build(p) \/ StartSuite(p) \/ NextSuite(p)
  <2>1. Quiet
    BY <1>2 DEF Build, StartSuite, NextSuite
  <2> QED
    BY <2>1, Elsewhere
<1>3. CASE SuiteFails(p)
  <2>1. Quiet
    BY <1>3 DEF SuiteFails
  <2> QED
    BY <2>1, Elsewhere
<1>4. CASE TestResult(p) \/ AppendReads(p) \/ AppendWrites(p)
  <2>1. Quiet
    BY <1>4 DEF TestResult, AppendReads, AppendWrites
  <2> QED
    BY <2>1, Elsewhere
<1>5. CASE Summary(p)
  <2>1. Quiet
    BY <1>5 DEF Summary
  <2> QED
    BY <2>1, Elsewhere
<1>6. CASE RunEnds(p) \/ RunMonorepo(p)
  <2>1. AfterRuns(p) \notin {"truncate", "write"}
    BY DEF AfterRuns
  <2>2. Quiet
    BY <1>6, <2>1 DEF RunEnds, RunMonorepo
  <2> QED
    BY <2>2, Elsewhere
<1> QED
  BY <1>1, <1>2, <1>3, <1>4, <1>5, <1>6 DEF Work

LEMMA BaselineNext == BaselineInv /\ [Next]_vars => BaselineInv'
<1> SUFFICES ASSUME BaselineInv, [Next]_vars PROVE BaselineInv'
  OBVIOUS
<1>1. CASE UNCHANGED vars
  <2>1. /\ pc' = pc /\ total' = total /\ file' = file /\ view' = view
        /\ flagged' = flagged /\ kept' = kept /\ disturbed' = disturbed
    BY <1>1 DEF vars, reporting, baseline
  <2>2. \A q \in Procs : (Saving(q)' <=> Saving(q)) /\ Durations(q)' = Durations(q)
    BY <2>1 DEF Saving, Durations, LastRuns
  <2>3. \A q \in Procs : Compare(kept, Durations(q))' = Compare(kept, Durations(q))
    BY <2>1, <2>2 DEF Compare
  <2> QED
    BY <2>1, <2>2, <2>3 DEF BaselineInv
<1>2. CASE Next
  BY <1>2, BaselineLoads, BaselineSaves, BaselineKill, BaselineOther DEF Next
<1> QED
  BY <1>1, <1>2

(* Any number of processes with any suites that do not overlap while they  *)
(* save lose none of each other's timings.                                 *)
THEOREM BaselineSound == Spec => []BaselineKept
<1>1. BaselineInv => BaselineKept
  BY DEF BaselineInv, BaselineKept
<1> QED
  BY <1>1, BaselineInit, BaselineNext, PTL DEF Spec

(* And each compares itself with the timings that were saved last.         *)
THEOREM RegressionsSound == Spec => []RegressionsReported
<1>1. BaselineInv => RegressionsReported
  BY DEF BaselineInv, RegressionsReported, Saving
<1> QED
  BY <1>1, BaselineInit, BaselineNext, PTL DEF Spec

-----------------------------------------------------------------------------
(* Incidents.                                                              *)

(* The notifications of a monorepo that is reported on change depend on    *)
(* what the reporter remembers of another project.                         *)
SharedMemory == \E p \in Procs : call[p].mode = "monorepo" /\ call[p].on = "change"
Raised == \A project \in DOMAIN status : status[project] > 0 => project \in incident

(* Outside of a monorepo a reporter remembers nothing when it is given the *)
(* summary of a run.                                                       *)
Fresh(p) == pc[p] \in {"start", "suite", "tests"} /\ call[p].mode # "monorepo" => lastFailed[p] = Unset
IncidentInv ==
  /\ DOMAIN lastFailed = Procs /\ \A p \in Procs : Fresh(p)
  /\ lost \/ SharedMemory \/ Raised

LEMMA IncidentInit == Init => IncidentInv
BY DEF Init, IncidentInv, Fresh, Raised

(* A summary with failures is sent and opens an incident.                  *)
LEMMA NotifyRaises ==
  ASSUME IncidentInv, NEW p \in Procs, NEW project, NEW failed, Notify(p, project, failed),
         call' = call, call[p].on = "change" => lastFailed[p] = Unset \/ call[p].mode = "monorepo"
  PROVE  (lost \/ SharedMemory \/ Raised)'
<1>1. CASE lost \/ SharedMemory
  BY <1>1 DEF Notify, SharedMemory
<1>2. CASE Raised /\ ~SharedMemory /\ ~lost'
  <2>1. status' = [x \in DOMAIN status \cup {project} |-> IF x = project THEN failed ELSE status[x]]
    BY DEF Notify
  <2>2. call[p].on = "change" => lastFailed[p] = Unset
    BY <1>2 DEF SharedMemory
  <2>3. CASE failed > 0
    <3>1. shouldSend(call[p].on, lastFailed[p], TRUE)
      BY <2>2 DEF shouldSend
    <3>2. incident' = incident \cup {project}
      BY <1>2, <2>3, <3>1 DEF Notify, buildPagerDutyPayload, Resolves
    <3> QED
      BY <1>2, <2>1, <3>2 DEF Raised
  <2>4. CASE ~(failed > 0)
    <3>1. incident' \in {incident, incident \cup {project}, incident \ {project}}
      BY <1>2, <2>4 DEF Notify, buildPagerDutyPayload
    <3> QED
      BY <1>2, <2>1, <2>4, <3>1 DEF Raised
  <2> QED
    BY <2>3, <2>4
<1> QED
  BY <1>1, <1>2 DEF IncidentInv

(* A step that sends nothing, and leaves every reporter as it was or new.  *)
LEMMA Silent ==
  ASSUME IncidentInv, call' = call, incident' = incident, lost' = lost, status' = status,
         DOMAIN lastFailed' = Procs, \A p \in Procs : Fresh(p)'
  PROVE  IncidentInv'
BY DEF IncidentInv, SharedMemory, Raised

LEMMA IncidentSteps ==
  ASSUME ExitInv, IncidentInv, NEW p \in Procs, Work(p) \/ Kill(p)
  PROVE  IncidentInv'
<1> DEFINE Others == \A q \in Procs \ {p} : pc'[q] = pc[q] /\ lastFailed'[q] = lastFailed[q]
<1> USE DEF ExitInv, Shape, IncidentInv, Fresh, reporting, baseline, Go, ExitWith
<1>1. CASE ConfigFails(p) \/ ArgumentsFail(p) \/ Exit(p) \/ Interrupt(p) \/ Kill(p)
  <2>1. pc'[p] = "done" /\ Others /\ call' = call /\ UNCHANGED <<incident, lost, status, lastFailed>>
    BY <1>1 DEF ConfigFails, ArgumentsFail, Exit, Interrupt, Kill
  <2> QED
    BY <2>1, Silent
<1>2. CASE Build(p)
  <2>1. lastFailed'[p] = Unset /\ Others /\ call' = call /\ UNCHANGED <<incident, lost, status>>
        /\ DOMAIN lastFailed' = Procs
    BY <1>2 DEF Build, buildReporter
  <2> QED
    BY <2>1, Silent
<1>3. CASE SuiteFails(p) \/ LoadBaseline(p) \/ SaveTruncates(p) \/ SaveWrites(p)
  <2>1. pc'[p] \in {"next", "done", "truncate", "write", "exit"} /\ Others /\ call' = call
        /\ UNCHANGED <<incident, lost, status, lastFailed>>
    BY <1>3 DEF SuiteFails, LoadBaseline, SaveTruncates, SaveWrites
  <2> QED
    BY <2>1, Silent
<1>4. CASE StartSuite(p) \/ TestResult(p) \/ AppendReads(p) \/ AppendWrites(p)
  <2>1. pc[p] \in {"suite", "tests"} /\ Others /\ call' = call
        /\ UNCHANGED <<incident, lost, status, lastFailed>>
    BY <1>4 DEF StartSuite, TestResult, AppendReads, AppendWrites
  <2> QED
    BY <2>1, Silent
<1>5. CASE RunEnds(p)
  <2>1. pc'[p] \in {"stopped", "load", "exit"} /\ Others /\ call' = call
        /\ UNCHANGED <<incident, lost, status, lastFailed>>
    BY <1>5 DEF RunEnds, AfterRuns
  <2> QED
    BY <2>1, Silent
<1>6. CASE NextSuite(p)
  <2>1. Others /\ call' = call /\ UNCHANGED <<incident, lost, status>> /\ DOMAIN lastFailed' = Procs
    BY <1>6 DEF NextSuite, buildReporter
  <2>2. call[p].mode = "watch" => lastFailed'[p] = Unset
    BY <1>6 DEF NextSuite, buildReporter
  <2>3. call[p].mode # "run"
    <3>1. at[p] \in Nat \ {0} /\ at[p] < Len(call[p].suites)
      BY <1>6 DEF NextSuite, More
    <3>2. Len(call[p].suites) # 1
      BY <3>1, SuitesTyped
    <3> QED
      BY <3>2, ReportAssumption
  <2>4. call[p].mode \in {"watch", "monorepo"}
    BY <2>3, ReportAssumption
  <2> QED
    BY <2>1, <2>2, <2>4, Silent
<1>7. CASE Summary(p)
  <2>1. /\ Notify(p, Suite(p).project, Failures(Tests(p))) /\ call' = call
        /\ pc[p] = "tests" /\ pc'[p] = "next" /\ Others /\ DOMAIN lastFailed' = Procs
    BY <1>7 DEF Summary, Notify
  <2>2. (lost \/ SharedMemory \/ Raised)'
    BY <2>1, NotifyRaises
  <2> QED
    BY <2>1, <2>2
<1>8. CASE RunMonorepo(p)
  <2>1. /\ Notify(p, Root, total[p].failed) /\ call' = call /\ call[p].mode = "monorepo"
        /\ pc'[p] \in {"stopped", "load", "exit"} /\ Others /\ DOMAIN lastFailed' = Procs
    BY <1>8 DEF RunMonorepo, Notify, AfterRuns
  <2>2. (lost \/ SharedMemory \/ Raised)'
    BY <2>1, NotifyRaises
  <2> QED
    BY <2>1, <2>2
<1> QED
  BY <1>1, <1>2, <1>3, <1>4, <1>5, <1>6, <1>7, <1>8 DEF Work

(* Any suites of any calls: a failure that is reported has an incident.    *)
THEOREM IncidentSound == Spec => []FailureRaisesIncident
<1>1. ExitInv /\ IncidentInv /\ [Next]_vars => IncidentInv'
  <2> SUFFICES ASSUME ExitInv, IncidentInv, [Next]_vars PROVE IncidentInv'
    OBVIOUS
  <2>1. CASE UNCHANGED vars
    BY <2>1, Silent DEF vars, reporting, IncidentInv, Fresh
  <2> QED
    BY <2>1, IncidentSteps DEF Next
<1>2. IncidentInv => FailureRaisesIncident
  BY DEF IncidentInv, FailureRaisesIncident, SharedMemory, Raised
<1> QED
  BY <1>1, <1>2, ExitInit, ExitNext, IncidentInit, PTL DEF Spec


-----------------------------------------------------------------------------
(* Documents.                                                              *)

Document == [project : STRING \cup {Root}, failed : Nat,
             tests : Seq(TestType), of : Seq(TestType)]

(* A list that shows, of some tests, those of a set of places.             *)
SomeOf(list, tests, S) == \E f \in [DOMAIN list -> S] :
  /\ StandsFor(list, tests, f)
  /\ \A j, k \in DOMAIN list : f[j] = f[k] => j = k
AllOf(list, tests, S) == \E f \in [DOMAIN list -> S] :
  /\ StandsFor(list, tests, f)
  /\ \A j, k \in DOMAIN list : j < k => f[j] < f[k]
  /\ \A i \in S : \E j \in DOMAIN list : f[j] = i
Shows(p, list, tests, S) == IF call[p].parallel THEN SomeOf(list, tests, S) ELSE AllOf(list, tests, S)

(* The tests that the reporter of a process has been told of before the    *)
(* suite it is at, those with the ones of this suite, and the places of    *)
(* the latter whose event has arrived.                                     *)
Earlier(p)  == IF call[p].mode = "monorepo" THEN total[p].tests ELSE << >>
UpToNow(p)  == Earlier(p) \o Tests(p)
Pending(p)  == {Len(Earlier(p)) + i : i \in running[p]}
Arrived(p)  == Reported(UpToNow(p)) \ Pending(p)

(* While the tests of a suite run, the reporter has what has arrived, and  *)
(* so had every list that an append is about to replace.                   *)
Telling(p) ==
  /\ running[p] \subseteq Reported(Tests(p)) /\ DOMAIN held[p] \subseteq running[p]
  /\ ~call[p].parallel =>
       /\ DOMAIN held[p] = {}
       /\ \A i \in running[p] : \A j \in Reported(Tests(p)) : i <= j => j \in running[p]
  /\ Shows(p, collected[p], UpToNow(p), Arrived(p))
  /\ \A i \in DOMAIN held[p] :
       held[p][i] \in Seq(TestType) /\ SomeOf(held[p][i], UpToNow(p), Arrived(p))

(* A document of a process agrees with what it is about.                   *)
Agrees(p, i) ==
  LET d == docs[p][i]
  IN  /\ Complete(p, i) /\ ~call[p].parallel => ShowsAll(d.tests, d.of) /\ d.failed = Failures(d.of)
      /\ ShowsSome(d.tests, IF Complete(p, i) THEN d.of ELSE total[p].tests)

Reporting(p) ==
  /\ collected[p] \in Seq(TestType) /\ docs[p] \in Seq(Document)
  /\ total[p].tests \in Seq(TestType) /\ total[p].failed = Failures(total[p].tests)
  /\ pc[p] = "start" => total[p] = NoTotal /\ docs[p] = << >>
  /\ pc[p] \in {"start", "suite", "next"} => running[p] = {} /\ DOMAIN held[p] = {}
  /\ pc[p] = "tests" => Telling(p)
  /\ pc[p] = "suite" \/ (pc[p] = "next" /\ call[p].mode = "monorepo") =>
       Shows(p, collected[p], Earlier(p), Reported(Earlier(p)))
  /\ call[p].mode = "monorepo" =>
       /\ pc[p] \in {"start", "suite", "tests"} => Len(docs[p]) = at[p] - 1
       /\ pc[p] = "next" => Len(docs[p]) = at[p]
  /\ \A i \in DOMAIN docs[p] : Agrees(p, i)

DocumentInv ==
  /\ DOMAIN running = Procs /\ DOMAIN held = Procs /\ DOMAIN collected = Procs /\ DOMAIN docs = Procs
  /\ \A p \in Procs : Reporting(p)

(* Lists.                                                                  *)

LEMMA AllIsSome ==
  ASSUME NEW list \in Seq(TestType), NEW tests, NEW S \in SUBSET Nat, AllOf(list, tests, S)
  PROVE  SomeOf(list, tests, S)
<1>1. PICK f \in [DOMAIN list -> S] :
        /\ StandsFor(list, tests, f)
        /\ \A j, k \in DOMAIN list : j < k => f[j] < f[k]
  BY DEF AllOf
<1>2. DOMAIN list \subseteq Nat
  OBVIOUS
<1>3. ASSUME NEW j \in DOMAIN list, NEW k \in DOMAIN list, f[j] = f[k] PROVE j = k
  <2>1. j \in Nat /\ k \in Nat /\ f[j] \in Nat /\ f[k] \in Nat
    BY <1>2
  <2>2. ~(j < k) /\ ~(k < j)
    BY <1>1, <1>3, <2>1
  <2> QED
    BY <2>1, <2>2
<1> QED
  BY <1>1, <1>3 DEF SomeOf

(* The places of a longer suite, or more places.                           *)
LEMMA Longer ==
  ASSUME NEW list, NEW s \in Seq(TestType), NEW t \in Seq(TestType), NEW S \in SUBSET DOMAIN s
  PROVE  /\ SomeOf(list, s, S) => SomeOf(list, s \o t, S)
         /\ AllOf(list, s, S) => AllOf(list, s \o t, S)
<1>1. ASSUME NEW f \in [DOMAIN list -> S], StandsFor(list, s, f) PROVE StandsFor(list, s \o t, f)
  <2>1. \A i \in DOMAIN s : (s \o t)[i] = s[i]
    OBVIOUS
  <2> QED
    BY <1>1, <2>1 DEF StandsFor
<1>2. SomeOf(list, s, S) => SomeOf(list, s \o t, S)
  BY <1>1, Zenon DEF SomeOf
<1>3. AllOf(list, s, S) => AllOf(list, s \o t, S)
  BY <1>1, Zenon DEF AllOf
<1> QED
  BY <1>2, <1>3

LEMMA Wider ==
  ASSUME NEW list, NEW tests, NEW R, NEW S \in SUBSET R, SomeOf(list, tests, S)
  PROVE  SomeOf(list, tests, R)
<1>1. PICK f \in [DOMAIN list -> S] :
        /\ StandsFor(list, tests, f)
        /\ \A j, k \in DOMAIN list : f[j] = f[k] => j = k
  BY DEF SomeOf
<1>2. f \in [DOMAIN list -> R]
  OBVIOUS
<1> QED
  BY <1>1, <1>2 DEF SomeOf

(* An empty list shows nothing of nothing.                                 *)
LEMMA EmptyList == ASSUME NEW tests PROVE AllOf(<< >>, tests, {}) /\ SomeOf(<< >>, tests, {})
<1> DEFINE f == [j \in {} |-> 0]
<1>1. DOMAIN << >> = {}
  OBVIOUS
<1>2. f \in [DOMAIN << >> -> {}]
  BY <1>1
<1> QED
  BY <1>1, <1>2 DEF AllOf, SomeOf, StandsFor

(* One more test, at a place that is new, or after all others.             *)
LEMMA OneMore ==
  ASSUME NEW list \in Seq(TestType), NEW tests, NEW S, NEW i, tests[i] \in TestType, i \notin S
  PROVE  /\ SomeOf(list, tests, S) => SomeOf(Append(list, tests[i]), tests, S \cup {i})
         /\ AllOf(list, tests, S) /\ i \in Nat /\ S \subseteq Nat /\ (\A k \in S : k < i) =>
              AllOf(Append(list, tests[i]), tests, S \cup {i})
<1> DEFINE more == Append(list, tests[i])
           n == Len(list)
<1>1. /\ n \in Nat /\ DOMAIN list = 1..n /\ DOMAIN more = 1..n + 1
      /\ \A j \in 1..n : more[j] = list[j]
      /\ more[n + 1] = tests[i]
  OBVIOUS
<1> HIDE DEF more, n
<1>2. DOMAIN more = DOMAIN list \cup {n + 1} /\ n + 1 \notin DOMAIN list
  BY <1>1
<1>3. ASSUME NEW f \in [DOMAIN list -> S], StandsFor(list, tests, f), NEW g,
             g = [j \in DOMAIN more |-> IF j = n + 1 THEN i ELSE f[j]]
      PROVE  /\ g \in [DOMAIN more -> S \cup {i}]
             /\ StandsFor(more, tests, g)
             /\ g[n + 1] = i
             /\ \A j \in DOMAIN list : g[j] = f[j] /\ f[j] \in S
  <2>1. g[n + 1] = i /\ \A j \in DOMAIN list : g[j] = f[j] /\ f[j] \in S
    BY <1>2, <1>3
  <2>2. g \in [DOMAIN more -> S \cup {i}]
    BY <1>2, <1>3
  <2>3. StandsFor(more, tests, g)
    BY <1>1, <1>2, <1>3, <2>1 DEF StandsFor
  <2> QED
    BY <2>1, <2>2, <2>3
<1>4. ASSUME SomeOf(list, tests, S) PROVE SomeOf(more, tests, S \cup {i})
  <2>1. PICK f \in [DOMAIN list -> S] :
          /\ StandsFor(list, tests, f)
          /\ \A j, k \in DOMAIN list : f[j] = f[k] => j = k
    BY <1>4 DEF SomeOf
  <2> DEFINE g == [j \in DOMAIN more |-> IF j = n + 1 THEN i ELSE f[j]]
  <2>2. /\ g \in [DOMAIN more -> S \cup {i}]
        /\ StandsFor(more, tests, g)
        /\ g[n + 1] = i
        /\ \A j \in DOMAIN list : g[j] = f[j] /\ f[j] \in S
    BY <1>3, <2>1
  <2> HIDE DEF g
  <2>3. \A j, k \in DOMAIN more : g[j] = g[k] => j = k
    BY <1>2, <2>1, <2>2
  <2> QED
    BY <2>2, <2>3 DEF SomeOf
<1>5. ASSUME AllOf(list, tests, S), i \in Nat, S \subseteq Nat, \A k \in S : k < i
      PROVE  AllOf(more, tests, S \cup {i})
  <2>1. PICK f \in [DOMAIN list -> S] :
          /\ StandsFor(list, tests, f)
          /\ \A j, k \in DOMAIN list : j < k => f[j] < f[k]
          /\ \A r \in S : \E j \in DOMAIN list : f[j] = r
    BY <1>5 DEF AllOf
  <2> DEFINE g == [j \in DOMAIN more |-> IF j = n + 1 THEN i ELSE f[j]]
  <2>2. /\ g \in [DOMAIN more -> S \cup {i}]
        /\ StandsFor(more, tests, g)
        /\ g[n + 1] = i
        /\ \A j \in DOMAIN list : g[j] = f[j] /\ f[j] \in S
    BY <1>3, <2>1
  <2> HIDE DEF g
  <2>3. ASSUME NEW j \in DOMAIN more, NEW k \in DOMAIN more, j < k PROVE g[j] < g[k]
    <3>1. j \in DOMAIN list /\ (k \in DOMAIN list \/ k = n + 1)
      BY <1>1, <2>3
    <3> QED
      BY <1>5, <2>1, <2>2, <2>3, <3>1
  <2>4. \A r \in S \cup {i} : \E j \in DOMAIN more : g[j] = r
    BY <1>2, <2>1, <2>2
  <2> QED
    BY <2>2, <2>3, <2>4 DEF AllOf
<1> QED
  BY <1>4, <1>5 DEF more

(* Counts.                                                                 *)

LEMMA CountNat ==
  ASSUME NEW s \in Seq(TestType), NEW outcomes
  PROVE  /\ IsFiniteSet({i \in DOMAIN s : s[i].outcome \in outcomes})
         /\ Count(s, outcomes) \in Nat
<1>1. IsFiniteSet(DOMAIN s)
  <2>1. DOMAIN s = 1..Len(s) /\ Len(s) \in Nat
    OBVIOUS
  <2> QED
    BY <2>1, FS_Interval
<1>2. IsFiniteSet({i \in DOMAIN s : s[i].outcome \in outcomes})
  BY <1>1, FS_Subset
<1> QED
  BY <1>2, FS_CardinalityType DEF Count

LEMMA DisjointUnion ==
  ASSUME NEW S, NEW T, IsFiniteSet(S), IsFiniteSet(T), S \cap T = {}
  PROVE  Cardinality(S \cup T) = Cardinality(S) + Cardinality(T)
<1>1. Cardinality(S) \in Nat /\ Cardinality(T) \in Nat
  BY FS_CardinalityType
<1>2. Cardinality(S \cap T) = 0
  BY FS_EmptySet
<1>3. Cardinality(S \cup T) = Cardinality(S) + Cardinality(T) - Cardinality(S \cap T)
  BY FS_Union
<1> QED
  BY <1>1, <1>2, <1>3

(* The attempts that failed are those that count, without the tests that   *)
(* made no event, and those that were retried.                             *)
LEMMA FailuresSplit ==
  ASSUME NEW s \in Seq(TestType)
  PROVE  /\ Count(s, {"failed"}) = Failures(s) - Count(s, {"unreported"}) + Repeated(s)
         /\ Count(s, {"failed"}) \in Nat
<1> DEFINE C == {i \in DOMAIN s : Counted(s[i])}
           A == {i \in DOMAIN s : s[i].outcome \in {"failed"}}
           U == {i \in DOMAIN s : s[i].outcome \in {"unreported"}}
           F == {i \in DOMAIN s : s[i].final /\ s[i].outcome = "failed"}
           N == {i \in DOMAIN s : ~s[i].final /\ s[i].outcome = "failed"}
<1>1. IsFiniteSet(A) /\ IsFiniteSet(U) /\ Cardinality(A) \in Nat /\ Cardinality(U) \in Nat
  BY CountNat DEF Count
<1>2. F \subseteq A /\ N \subseteq A /\ A = F \cup N /\ F \cap N = {}
  OBVIOUS
<1>3. C = F \cup U /\ F \cap U = {}
  <2>1. \A i \in DOMAIN s : s[i] \in TestType
    OBVIOUS
  <2> QED
    BY <2>1 DEF Counted, TestType
<1>4. /\ IsFiniteSet(F) /\ IsFiniteSet(N)
      /\ Cardinality(F) \in Nat /\ Cardinality(N) \in Nat
  BY <1>1, <1>2, FS_Subset, FS_CardinalityType
<1>5. Cardinality(A) = Cardinality(F) + Cardinality(N) /\ Cardinality(C) = Cardinality(F) + Cardinality(U)
  BY <1>1, <1>2, <1>3, <1>4, DisjointUnion
<1> QED
  BY <1>1, <1>4, <1>5 DEF Failures, Count, Repeated

(* Two suites one after the other.                                         *)
LEMMA Joined ==
  ASSUME NEW s \in Seq(TestType), NEW t \in Seq(TestType)
  PROVE  /\ s \o t \in Seq(TestType) /\ Len(s) \in Nat
         /\ DOMAIN s = 1..Len(s) /\ DOMAIN t = 1..Len(t)
         /\ DOMAIN (s \o t) = DOMAIN s \cup {Len(s) + i : i \in DOMAIN t}
         /\ \A i \in DOMAIN s : (s \o t)[i] = s[i]
         /\ \A i \in DOMAIN t : (s \o t)[Len(s) + i] = t[i]
<1>1. /\ s \o t \in Seq(TestType) /\ Len(s) \in Nat /\ Len(t) \in Nat
      /\ DOMAIN s = 1..Len(s) /\ DOMAIN t = 1..Len(t) /\ DOMAIN (s \o t) = 1..Len(s) + Len(t)
  OBVIOUS
<1>2. \A i \in DOMAIN s : (s \o t)[i] = s[i]
  OBVIOUS
<1>3. \A i \in DOMAIN t : (s \o t)[Len(s) + i] = t[i]
  OBVIOUS
<1>4. ASSUME NEW i \in 1..Len(s) + Len(t) PROVE i \in 1..Len(s) \/ \E j \in 1..Len(t) : i = Len(s) + j
  <2>1. CASE i \in 1..Len(s)
    BY <2>1
  <2>2. CASE i \notin 1..Len(s)
    <3> DEFINE j == i - Len(s)
    <3>1. j \in 1..Len(t) /\ i = Len(s) + j
      BY <1>1, <2>2
    <3> QED
      BY <3>1
  <2> QED
    BY <2>1, <2>2
<1>5. ASSUME NEW i \in 1..Len(s) PROVE i \in 1..Len(s) + Len(t)
  BY <1>1
<1>6. ASSUME NEW i \in 1..Len(t) PROVE Len(s) + i \in 1..Len(s) + Len(t)
  BY <1>1
<1>7. DOMAIN (s \o t) = DOMAIN s \cup {Len(s) + i : i \in DOMAIN t}
  <2>1. 1..Len(s) + Len(t) = 1..Len(s) \cup {Len(s) + i : i \in 1..Len(t)}
    BY <1>4, <1>5, <1>6, Zenon
  <2> QED
    BY <1>1, <2>1
<1> QED
  BY <1>1, <1>2, <1>3, <1>7

LEMMA ReportedJoined ==
  ASSUME NEW s \in Seq(TestType), NEW t \in Seq(TestType)
  PROVE  Reported(s \o t) = Reported(s) \cup {Len(s) + i : i \in Reported(t)}
<1>1. ASSUME NEW i \in Reported(s \o t)
      PROVE  i \in Reported(s) \/ \E j \in Reported(t) : i = Len(s) + j
  <2>1. i \in DOMAIN (s \o t) /\ (s \o t)[i].outcome # "unreported"
    BY <1>1 DEF Reported
  <2>2. i \in DOMAIN s \/ \E j \in DOMAIN t : i = Len(s) + j
    BY <2>1, Joined
  <2>3. CASE i \in DOMAIN s
    BY <2>1, <2>3, Joined DEF Reported
  <2>4. ASSUME NEW j \in DOMAIN t, i = Len(s) + j PROVE j \in Reported(t)
    BY <2>1, <2>4, Joined DEF Reported
  <2> QED
    BY <2>2, <2>3, <2>4
<1>2. ASSUME NEW i \in Reported(s) PROVE i \in Reported(s \o t)
  <2>1. i \in DOMAIN s /\ s[i].outcome # "unreported"
    BY <1>2 DEF Reported
  <2> QED
    BY <2>1, Joined DEF Reported
<1>3. ASSUME NEW i \in Reported(t) PROVE Len(s) + i \in Reported(s \o t)
  <2>1. i \in DOMAIN t /\ t[i].outcome # "unreported"
    BY <1>3 DEF Reported
  <2>2. Len(s) + i \in DOMAIN (s \o t) /\ (s \o t)[Len(s) + i] = t[i]
    BY <2>1, Joined
  <2> QED
    BY <2>1, <2>2 DEF Reported
<1> QED
  BY <1>1, <1>2, <1>3

LEMMA FailuresJoined ==
  ASSUME NEW s \in Seq(TestType), NEW t \in Seq(TestType)
  PROVE  Failures(s \o t) = Failures(s) + Failures(t)
<1> DEFINE A == {i \in DOMAIN s : Counted(s[i])}
           B == {i \in DOMAIN t : Counted(t[i])}
           C == {i \in DOMAIN (s \o t) : Counted((s \o t)[i])}
           D == {Len(s) + i : i \in B}
<1>1. IsFiniteSet(A) /\ IsFiniteSet(B) /\ Cardinality(A) \in Nat /\ Cardinality(B) \in Nat
  <2>1. DOMAIN s = 1..Len(s) /\ Len(s) \in Nat /\ DOMAIN t = 1..Len(t) /\ Len(t) \in Nat
    OBVIOUS
  <2>2. IsFiniteSet(DOMAIN s) /\ IsFiniteSet(DOMAIN t)
    BY <2>1, FS_Interval
  <2> QED
    BY <2>2, FS_Subset, FS_CardinalityType
<1>2. C = A \cup D
  <2>1. ASSUME NEW i \in C PROVE i \in A \/ \E j \in B : i = Len(s) + j
    <3>1. i \in DOMAIN (s \o t) /\ Counted((s \o t)[i])
      BY <2>1
    <3>2. i \in DOMAIN s \/ \E j \in DOMAIN t : i = Len(s) + j
      BY <3>1, Joined
    <3>3. CASE i \in DOMAIN s
      BY <3>1, <3>3, Joined
    <3>4. ASSUME NEW j \in DOMAIN t, i = Len(s) + j PROVE j \in B
      BY <3>1, <3>4, Joined
    <3> QED
      BY <3>2, <3>3, <3>4
  <2>2. ASSUME NEW i \in A PROVE i \in C
    <3>1. i \in DOMAIN s /\ Counted(s[i])
      BY <2>2
    <3> QED
      BY <3>1, Joined
  <2>3. ASSUME NEW i \in B PROVE Len(s) + i \in C
    <3>1. i \in DOMAIN t /\ Counted(t[i])
      BY <2>3
    <3>2. Len(s) + i \in DOMAIN (s \o t) /\ (s \o t)[Len(s) + i] = t[i]
      BY <3>1, Joined
    <3> QED
      BY <3>1, <3>2
  <2> QED
    BY <2>1, <2>2, <2>3
<1>3. A \cap D = {}
  BY Joined
<1>4. IsFiniteSet(D) /\ Cardinality(D) = Cardinality(B)
  <2> DEFINE g == [i \in B |-> Len(s) + i]
  <2>1. g \in Bijection(B, D)
    <3>1. g \in [B -> D] /\ \A d \in D : \E i \in B : g[i] = d
      OBVIOUS
    <3>2. \A i, j \in B : g[i] = g[j] => i = j
      BY Joined
    <3> QED
      BY <3>1, <3>2 DEF Bijection, Injection, Surjection, IsInjective
  <2> QED
    BY <1>1, <2>1, FS_Bijection DEF ExistsBijection
<1>5. Cardinality(A \cup D) = Cardinality(A) + Cardinality(D)
  BY <1>1, <1>3, <1>4, DisjointUnion
<1> QED
  BY <1>2, <1>4, <1>5 DEF Failures

(* A list that shows all the tests shows as many that failed.              *)
LEMMA SameCount ==
  ASSUME NEW list \in Seq(TestType), NEW tests \in Seq(TestType), ShowsAll(list, tests)
  PROVE  Count(list, {"failed"}) = Count(tests, {"failed"})
<1> DEFINE A == {i \in DOMAIN list : list[i].outcome \in {"failed"}}
           B == {i \in DOMAIN tests : tests[i].outcome \in {"failed"}}
<1>1. PICK f \in [DOMAIN list -> Reported(tests)] :
        /\ StandsFor(list, tests, f)
        /\ \A j, k \in DOMAIN list : j < k => f[j] < f[k]
        /\ \A i \in Reported(tests) : \E j \in DOMAIN list : f[j] = i
  BY DEF ShowsAll
<1>2. DOMAIN list \subseteq Nat /\ DOMAIN tests \subseteq Nat /\ Reported(tests) \subseteq DOMAIN tests
  BY DEF Reported
<1>3. ASSUME NEW j \in DOMAIN list, NEW k \in DOMAIN list, f[j] = f[k] PROVE j = k
  <2>1. j \in Nat /\ k \in Nat /\ f[j] \in Nat /\ f[k] \in Nat
    BY <1>2
  <2>2. ~(j < k) /\ ~(k < j)
    BY <1>1, <1>3, <2>1
  <2> QED
    BY <2>1, <2>2
<1> DEFINE g == [j \in A |-> f[j]]
<1>4. g \in Bijection(A, B)
  <2>1. \A j \in A : f[j] \in B
    BY <1>1, <1>2 DEF StandsFor
  <2>2. \A i \in B : \E j \in A : f[j] = i
    <3> SUFFICES ASSUME NEW i \in B PROVE \E j \in A : f[j] = i
      OBVIOUS
    <3>1. i \in Reported(tests)
      BY DEF Reported
    <3>2. PICK j \in DOMAIN list : f[j] = i
      BY <1>1, <3>1
    <3> QED
      BY <1>1, <3>2 DEF StandsFor
  <2>3. g \in [A -> B] /\ \A i \in B : \E j \in A : g[j] = i
    BY <2>1, <2>2
  <2>4. \A j, k \in A : g[j] = g[k] => j = k
    BY <1>3
  <2> QED
    BY <2>3, <2>4 DEF Bijection, Injection, Surjection, IsInjective
<1>5. IsFiniteSet(A)
  BY CountNat
<1> QED
  BY <1>4, <1>5, FS_Bijection DEF Count, ExistsBijection

(* A list that shows all the tests marks those that failed.                *)
LEMMA MarksTell ==
  ASSUME NEW list \in Seq(TestType), NEW tests \in Seq(TestType), ShowsAll(list, tests)
  PROVE  /\ \A f \in {"terminal", "json", "junit", "tap"} :
              Cardinality(Marked(f, list)) = Failures(tests) - Count(tests, {"unreported"}) + Repeated(tests)
         /\ \A f \in {"gha", "prometheus", "backstage"} :
              Cardinality(Marked(f, list)) >= Failures(tests) - Count(tests, {"unreported"}) + Repeated(tests)
         /\ backstageOverallStatus(list) = "healthy" =>
              Failures(tests) - Count(tests, {"unreported"}) + Repeated(tests) = 0
<1> DEFINE A == {i \in DOMAIN list : list[i].outcome \in {"failed"}}
           n == Count(list, {"failed"})
<1>1. n = Failures(tests) - Count(tests, {"unreported"}) + Repeated(tests)
  BY SameCount, FailuresSplit
<1>2. Cardinality(A) = n /\ n \in Nat
  BY CountNat DEF Count
<1>3. \A i \in DOMAIN list : list[i].outcome \in {"passed", "failed", "skipped", "allowed"}
  <2>1. PICK f \in [DOMAIN list -> Reported(tests)] : StandsFor(list, tests, f)
    BY DEF ShowsAll
  <2>2. ASSUME NEW i \in DOMAIN list PROVE list[i].outcome \in {"passed", "failed", "skipped", "allowed"}
    <3>1. list[i] \in TestType
      OBVIOUS
    <3>2. list[i].outcome # "unreported"
      BY <2>1 DEF StandsFor, Reported
    <3> QED
      BY <3>1, <3>2 DEF TestType, Outcomes
  <2> QED
    BY <2>2
<1>4. ASSUME NEW f \in {"terminal", "json", "junit", "tap"} PROVE Marked(f, list) = A
  BY <1>3 DEF Marked, Mark
<1>5. ASSUME NEW f \in {"gha", "prometheus", "backstage"} PROVE Cardinality(Marked(f, list)) >= n
  <2>1. A \subseteq Marked(f, list)
    BY <1>3 DEF Marked, Mark
  <2>2. IsFiniteSet(Marked(f, list))
    <3>1. DOMAIN list = 1..Len(list) /\ Len(list) \in Nat
      OBVIOUS
    <3>2. IsFiniteSet(DOMAIN list)
      BY <3>1, FS_Interval
    <3>3. Marked(f, list) \in SUBSET DOMAIN list
      BY DEF Marked
    <3> QED
      BY <3>2, <3>3, FS_Subset
  <2>3. Cardinality(A) <= Cardinality(Marked(f, list)) /\ Cardinality(Marked(f, list)) \in Nat
    BY <2>1, <2>2, FS_Subset, FS_CardinalityType
  <2> QED
    BY <1>2, <2>3
<1>6. ASSUME backstageOverallStatus(list) = "healthy" PROVE n = 0
  <2> DEFINE B == {i \in DOMAIN list : list[i].outcome \in {"failed", "skipped"}}
  <2>1. ~(Count(list, {"failed", "skipped"}) > 0)
    BY <1>6 DEF backstageOverallStatus
  <2>2. IsFiniteSet(B) /\ Count(list, {"failed", "skipped"}) \in Nat
    BY CountNat
  <2>3. Cardinality(B) = 0
    BY <2>1, <2>2 DEF Count
  <2>4. B = {}
    BY <2>2, <2>3, FS_EmptySet
  <2>5. A = {}
    BY <2>4
  <2> QED
    BY <1>2, <2>5, FS_EmptySet
<1> QED
  BY <1>1, <1>2, <1>4, <1>5, <1>6

LEMMA Showing ==
  ASSUME NEW list, NEW tests
  PROVE  /\ ShowsSome(list, tests) <=> SomeOf(list, tests, Reported(tests))
         /\ ShowsAll(list, tests) <=> AllOf(list, tests, Reported(tests))
BY Zenon DEF ShowsSome, ShowsAll, SomeOf, AllOf

LEMMA ShowingSome ==
  ASSUME NEW p, NEW list \in Seq(TestType), NEW tests, NEW S \in SUBSET Nat, Shows(p, list, tests, S)
  PROVE  SomeOf(list, tests, S)
BY AllIsSome DEF Shows

LEMMA ReportedPlaces ==
  ASSUME NEW s \in Seq(TestType)
  PROVE  Reported(s) \subseteq DOMAIN s /\ Reported(s) \subseteq Nat \ {0}
BY DEF Reported

(* What a process has been told depends on its own variables only.         *)
LEMMA SameReport ==
  ASSUME NEW q, Reporting(q), call' = call, pc'[q] = pc[q], at'[q] = at[q],
         running'[q] = running[q], held'[q] = held[q], collected'[q] = collected[q],
         total'[q] = total[q], docs'[q] = docs[q]
  PROVE  Reporting(q)'
<1>1. Suite(q)' = Suite(q) /\ Tests(q)' = Tests(q) /\ Earlier(q)' = Earlier(q)
  BY DEF Suite, Tests, Earlier
<1>2. UpToNow(q)' = UpToNow(q) /\ Pending(q)' = Pending(q) /\ Arrived(q)' = Arrived(q)
  BY <1>1 DEF UpToNow, Pending, Arrived
<1>3. Telling(q)' <=> Telling(q)
  BY <1>1, <1>2 DEF Telling, Shows
<1>4. \A i \in DOMAIN docs[q] : Agrees(q, i)' <=> Agrees(q, i)
  BY DEF Agrees, Complete
<1> QED
  BY <1>1, <1>3, <1>4 DEF Reporting, Shows

(* It is enough to look at the process that takes a step.                  *)
Bystanders(p) ==
  /\ call' = call
  /\ DOMAIN running' = Procs /\ DOMAIN held' = Procs /\ DOMAIN collected' = Procs /\ DOMAIN docs' = Procs
  /\ \A q \in Procs \ {p} :
       /\ pc'[q] = pc[q] /\ at'[q] = at[q]
       /\ running'[q] = running[q] /\ held'[q] = held[q] /\ collected'[q] = collected[q]
       /\ total'[q] = total[q] /\ docs'[q] = docs[q]

LEMMA OneReports ==
  ASSUME DocumentInv, NEW p \in Procs, Bystanders(p), Reporting(p)'
  PROVE  DocumentInv'
<1>1. ASSUME NEW q \in Procs \ {p} PROVE Reporting(q)'
  <2>1. Reporting(q)
    BY <1>1 DEF DocumentInv
  <2> QED
    BY <1>1, <2>1, SameReport DEF Bystanders
<1> QED
  BY <1>1 DEF DocumentInv, Bystanders

(* A step to a place where no suite runs.                                  *)
LEMMA Leaves ==
  ASSUME NEW p \in Procs, Reporting(p), call' = call,
         UNCHANGED <<running, held, collected, total, docs>>,
         \/ pc'[p] \notin {"start", "suite", "tests", "next"}
         \/ pc[p] = "suite" /\ pc'[p] = "next" /\ call[p].mode # "monorepo"
  PROVE  Reporting(p)'
<1>1. \A i \in DOMAIN docs[p] : Agrees(p, i)' <=> Agrees(p, i)
  BY DEF Agrees, Complete
<1>2. pc'[p] \in {"start", "suite", "next"} => running[p] = {} /\ DOMAIN held[p] = {}
  BY DEF Reporting
<1>3. /\ collected'[p] = collected[p] /\ docs'[p] = docs[p] /\ total'[p] = total[p]
      /\ running'[p] = running[p] /\ held'[p] = held[p]
  OBVIOUS
<1>4. /\ pc'[p] # "start" /\ pc'[p] # "tests" /\ pc'[p] # "suite"
      /\ pc'[p] = "next" => call[p].mode # "monorepo"
      /\ call[p].mode = "monorepo" => pc'[p] \notin {"start", "suite", "tests", "next"}
  OBVIOUS
<1>5. \A i \in DOMAIN docs'[p] : Agrees(p, i)'
  BY <1>1, <1>3 DEF Reporting
<1> QED
  BY <1>2, <1>3, <1>4, <1>5 DEF Reporting

LEMMA DocumentInit == Init => DocumentInv
<1> SUFFICES ASSUME Init PROVE DocumentInv
  OBVIOUS
<1>1. ASSUME NEW p \in Procs PROVE Reporting(p)
  <2>1. /\ pc[p] = "start" /\ at[p] = 1 /\ running[p] = {} /\ held[p] = << >>
        /\ collected[p] = << >> /\ docs[p] = << >> /\ total[p] = NoTotal
    BY <1>1 DEF Init
  <2>2. << >> \in Seq(TestType) /\ << >> \in Seq(Document) /\ DOMAIN << >> = {} /\ Len(<< >>) = 0
    OBVIOUS
  <2>3. Failures(<< >>) = 0
    BY <2>2, FS_EmptySet DEF Failures
  <2> QED
    BY <2>1, <2>2, <2>3 DEF Reporting, NoTotal
<1> QED
  BY <1>1 DEF DocumentInv, Init

(* What is given at a place of a suite.                                    *)
LEMMA AtSuite ==
  ASSUME ExitInv, NEW p \in Procs, Reporting(p), pc[p] \in {"suite", "tests", "next"}
  PROVE  /\ at[p] \in DOMAIN call[p].suites /\ at[p] \in Nat \ {0}
         /\ Suite(p).project \in STRING /\ Failures(Tests(p)) \in Nat
         /\ Tests(p) \in Seq(TestType) /\ Earlier(p) \in Seq(TestType) /\ UpToNow(p) \in Seq(TestType)
         /\ Reported(UpToNow(p)) = Reported(Earlier(p)) \cup {Len(Earlier(p)) + i : i \in Reported(Tests(p))}
<1>1. at[p] \in DOMAIN call[p].suites /\ at[p] \in Nat \ {0}
  BY DEF ExitInv, Progress, Shape
<1>2. Suite(p) \in SuiteType /\ Failures(Tests(p)) \in Nat
  BY <1>1, SuitesTyped DEF ExitInv, Shape, Suite, Tests
<1>3. Tests(p) \in Seq(TestType) /\ Suite(p).project \in STRING
  BY <1>2 DEF SuiteType, Tests, TestType
<1>4. Earlier(p) \in Seq(TestType)
  BY DEF Earlier, Reporting
<1> QED
  BY <1>1, <1>2, <1>3, <1>4, Joined, ReportedJoined DEF UpToNow

LEMMA BuildReports ==
  ASSUME ExitInv, NEW p \in Procs, Reporting(p), DOMAIN collected = Procs, DOMAIN pc = Procs, Build(p)
  PROVE  Reporting(p)'
<1>1. /\ pc[p] = "start" /\ pc'[p] \in {"suite", "stopped"} /\ collected'[p] = << >>
      /\ UNCHANGED <<call, at, running, held, total, docs>>
  BY DEF Build, buildReporter, Go
<1>2. total'[p] = NoTotal /\ docs'[p] = << >> /\ at'[p] = 1 /\ running'[p] = {} /\ DOMAIN held'[p] = {}
  BY <1>1 DEF Reporting, ExitInv, Progress
<1>3. << >> \in Seq(TestType) /\ << >> \in Seq(Document) /\ DOMAIN << >> = {} /\ Len(<< >>) = 0
  OBVIOUS
<1>4. Earlier(p)' = << >> /\ Reported(<< >>) = {}
  BY <1>2, <1>3 DEF Earlier, NoTotal, Reported
<1>5. Shows(p, collected[p], Earlier(p), Reported(Earlier(p)))'
  <2>1. SomeOf(collected'[p], Earlier(p)', Reported(Earlier(p)')) /\ AllOf(collected'[p], Earlier(p)', Reported(Earlier(p)'))
    BY <1>1, <1>4, EmptyList
  <2> QED
    BY <2>1 DEF Shows
<1>6. total'[p].tests \in Seq(TestType) /\ total'[p].failed = Failures(total'[p].tests)
  BY <1>1 DEF Reporting
<1> QED
  BY <1>1, <1>2, <1>3, <1>5, <1>6 DEF Reporting

LEMMA StartReports ==
  ASSUME ExitInv, NEW p \in Procs, Reporting(p), DOMAIN running = Procs, StartSuite(p)
  PROVE  Reporting(p)'
<1>1. /\ pc[p] = "suite" /\ pc'[p] = "tests" /\ UNCHANGED <<call, at, held, collected, total, docs>>
      /\ running'[p] = Reported(Tests(p))
  BY DEF StartSuite, Go, Reported, ExitInv, Shape
<1>2. /\ Tests(p) \in Seq(TestType) /\ Earlier(p) \in Seq(TestType) /\ UpToNow(p) \in Seq(TestType)
      /\ Reported(UpToNow(p)) = Reported(Earlier(p)) \cup {Len(Earlier(p)) + i : i \in Reported(Tests(p))}
  BY <1>1, AtSuite
<1>3. Tests(p)' = Tests(p) /\ Earlier(p)' = Earlier(p) /\ UpToNow(p)' = UpToNow(p)
  BY <1>1 DEF Tests, Suite, Earlier, UpToNow
<1>4. Arrived(p)' = Reported(Earlier(p))
  <2>1. Reported(Earlier(p)) \subseteq 1..Len(Earlier(p)) /\ Reported(Tests(p)) \subseteq Nat \ {0}
    BY <1>2 DEF Reported
  <2>2. \A i \in Reported(Tests(p)) : Len(Earlier(p)) + i \notin Reported(Earlier(p))
    BY <1>2, <2>1
  <2>3. Pending(p)' = {Len(Earlier(p)) + i : i \in Reported(Tests(p))}
    BY <1>1, <1>3 DEF Pending
  <2> QED
    BY <1>2, <1>3, <2>2, <2>3 DEF Arrived
<1>5. Shows(p, collected[p], UpToNow(p), Arrived(p))'
  <2>1. Shows(p, collected[p], Earlier(p), Reported(Earlier(p)))
    BY <1>1 DEF Reporting
  <2>2. Shows(p, collected[p], UpToNow(p), Reported(Earlier(p)))
    BY <1>2, <2>1, Longer, ReportedPlaces DEF Shows, UpToNow
  <2> QED
    BY <1>1, <1>3, <1>4, <2>2 DEF Shows
<1>6. running[p] = {} /\ DOMAIN held'[p] = {}
  BY <1>1 DEF Reporting
<1>7. Telling(p)'
  BY <1>1, <1>3, <1>5, <1>6 DEF Telling
<1>8. \A i \in DOMAIN docs[p] : Agrees(p, i)'
  BY <1>1 DEF Agrees, Complete, Reporting
<1> QED
  BY <1>1, <1>7, <1>8 DEF Reporting

(* An event that arrives: what remains is one less.                        *)
LEMMA Arrives ==
  ASSUME ExitInv, NEW p \in Procs, Reporting(p), DOMAIN running = Procs, pc[p] = "tests",
         NEW i \in running[p], UNCHANGED <<call, at, total>>,
         running' = [running EXCEPT ![p] = @ \ {i}]
  PROVE  /\ UpToNow(p)' = UpToNow(p) /\ Tests(p)' = Tests(p)
         /\ Len(Earlier(p)) + i \in Nat
         /\ UpToNow(p)[Len(Earlier(p)) + i] = Tests(p)[i] /\ Tests(p)[i] \in TestType
         /\ Len(Earlier(p)) + i \notin Arrived(p)
         /\ Arrived(p)' = Arrived(p) \cup {Len(Earlier(p)) + i}
         /\ Arrived(p) \subseteq Nat
<1>1. /\ Tests(p) \in Seq(TestType) /\ Earlier(p) \in Seq(TestType) /\ UpToNow(p) \in Seq(TestType)
      /\ Reported(UpToNow(p)) = Reported(Earlier(p)) \cup {Len(Earlier(p)) + j : j \in Reported(Tests(p))}
  BY AtSuite
<1>2. i \in Reported(Tests(p)) /\ running[p] \subseteq Reported(Tests(p))
  BY DEF Reporting, Telling
<1>3. i \in DOMAIN Tests(p) /\ Reported(Tests(p)) \subseteq Nat \ {0} /\ Len(Earlier(p)) \in Nat
  BY <1>1, <1>2, ReportedPlaces
<1>4. Tests(p)' = Tests(p) /\ Earlier(p)' = Earlier(p) /\ UpToNow(p)' = UpToNow(p)
  BY DEF Tests, Suite, Earlier, UpToNow
<1>5. UpToNow(p)[Len(Earlier(p)) + i] = Tests(p)[i]
  BY <1>1, <1>3, Joined DEF UpToNow
<1>6. Tests(p)[i] \in TestType
  BY <1>1, <1>3
<1>7. Len(Earlier(p)) + i \in Pending(p) /\ Len(Earlier(p)) + i \in Reported(UpToNow(p))
  BY <1>1, <1>2 DEF Pending
<1>8. Pending(p)' = Pending(p) \ {Len(Earlier(p)) + i}
  <2>1. running'[p] = running[p] \ {i}
    OBVIOUS
  <2>2. \A j \in running[p] : Len(Earlier(p)) + j = Len(Earlier(p)) + i => j = i
    BY <1>2, <1>3
  <2> QED
    BY <1>4, <2>1, <2>2 DEF Pending
<1>9. Arrived(p)' = Arrived(p) \cup {Len(Earlier(p)) + i}
  BY <1>4, <1>7, <1>8 DEF Arrived
<1>10. Arrived(p) \subseteq Nat
  BY <1>1, ReportedPlaces DEF Arrived
<1>11. Len(Earlier(p)) + i \in Nat
  BY <1>2, <1>3
<1>12. Len(Earlier(p)) + i \notin Arrived(p)
  BY <1>7 DEF Arrived
<1> QED
  BY <1>4, <1>5, <1>6, <1>9, <1>10, <1>11, <1>12

LEMMA ResultReports ==
  ASSUME ExitInv, NEW p \in Procs, Reporting(p), DOMAIN running = Procs, DOMAIN collected = Procs,
         TestResult(p)
  PROVE  Reporting(p)'
<1>1. PICK i \in running[p] :
        /\ \A j \in running[p] : i <= j
        /\ collected' = [collected EXCEPT ![p] = Append(@, Tests(p)[i])]
        /\ running' = [running EXCEPT ![p] = @ \ {i}]
  BY DEF TestResult
<1>2. /\ pc[p] = "tests" /\ ~call[p].parallel /\ UNCHANGED <<call, pc, at, held, total, docs>>
      /\ collected'[p] = Append(collected[p], Tests(p)[i]) /\ running'[p] = running[p] \ {i}
  BY <1>1 DEF TestResult
<1> DEFINE k == Len(Earlier(p)) + i
<1>3. /\ UpToNow(p)' = UpToNow(p) /\ Tests(p)' = Tests(p)
      /\ k \in Nat /\ UpToNow(p)[k] = Tests(p)[i] /\ Tests(p)[i] \in TestType
      /\ k \notin Arrived(p) /\ Arrived(p)' = Arrived(p) \cup {k} /\ Arrived(p) \subseteq Nat
  BY <1>1, <1>2, Arrives
<1>4. /\ running[p] \subseteq Reported(Tests(p)) /\ DOMAIN held[p] = {}
      /\ \A r \in running[p] : \A j \in Reported(Tests(p)) : r <= j => j \in running[p]
      /\ AllOf(collected[p], UpToNow(p), Arrived(p))
  BY <1>2 DEF Reporting, Telling, Shows
<1>5. /\ Tests(p) \in Seq(TestType) /\ Earlier(p) \in Seq(TestType)
      /\ Reported(UpToNow(p)) = Reported(Earlier(p)) \cup {Len(Earlier(p)) + j : j \in Reported(Tests(p))}
      /\ Reported(Earlier(p)) \subseteq 1..Len(Earlier(p)) /\ Reported(Tests(p)) \subseteq Nat \ {0}
  BY <1>2, AtSuite DEF Reported
<1>6. ASSUME NEW r \in Arrived(p) PROVE r < k
  <2>1. CASE r \in Reported(Earlier(p))
    BY <1>1, <1>4, <1>5, <2>1
  <2>2. CASE r \notin Reported(Earlier(p))
    <3>1. PICK j \in Reported(Tests(p)) : r = Len(Earlier(p)) + j
      BY <1>5, <1>6, <2>2 DEF Arrived
    <3>2. j \notin running[p]
      BY <1>6, <3>1 DEF Arrived, Pending
    <3>3. j < i
      BY <1>1, <1>4, <1>5, <3>2
    <3> QED
      BY <1>1, <1>4, <1>5, <3>1, <3>3
  <2> QED
    BY <2>1, <2>2
<1>7. AllOf(collected'[p], UpToNow(p), Arrived(p) \cup {k})
  <2>1. collected[p] \in Seq(TestType)
    BY DEF Reporting
  <2> HIDE DEF k
  <2>2. AllOf(Append(collected[p], UpToNow(p)[k]), UpToNow(p), Arrived(p) \cup {k})
    BY <1>3, <1>4, <1>6, <2>1, OneMore
  <2> QED
    BY <1>2, <1>3, <2>2
<1>8. Telling(p)'
  <2>1. \A r \in running'[p] : \A j \in Reported(Tests(p)) : r <= j => j \in running'[p]
    BY <1>1, <1>2, <1>4, <1>5
  <2>2. running'[p] \subseteq Reported(Tests(p)) /\ DOMAIN held'[p] = {} /\ DOMAIN held'[p] \subseteq running'[p]
    BY <1>2, <1>4
  <2>3. Shows(p, collected[p], UpToNow(p), Arrived(p))'
    BY <1>2, <1>3, <1>7 DEF Shows
  <2> QED
    BY <1>2, <1>3, <2>1, <2>2, <2>3 DEF Telling
<1>9. collected'[p] \in Seq(TestType)
  BY <1>2, <1>3 DEF Reporting
<1>10. \A r \in DOMAIN docs[p] : Agrees(p, r)'
  BY <1>2 DEF Agrees, Complete, Reporting
<1> QED
  BY <1>2, <1>8, <1>9, <1>10 DEF Reporting

(* Appends that overlap: each takes up what one of them has read.          *)
LEMMA ReadReports ==
  ASSUME ExitInv, NEW p \in Procs, Reporting(p), DOMAIN held = Procs, AppendReads(p)
  PROVE  Reporting(p)'
<1>1. /\ pc[p] = "tests" /\ call[p].parallel
      /\ UNCHANGED <<call, pc, at, running, collected, total, docs>>
  BY DEF AppendReads
<1>2. PICK i \in running[p] \ DOMAIN held[p] :
        held'[p] = [j \in DOMAIN held[p] \cup {i} |-> IF j = i THEN collected[p] ELSE held[p][j]]
  BY DEF AppendReads
<1>3. Telling(p) /\ collected[p] \in Seq(TestType)
  BY <1>1 DEF Reporting
<1>4. SomeOf(collected[p], UpToNow(p), Arrived(p))
  BY <1>1, <1>3 DEF Telling, Shows
<1>5. UpToNow(p)' = UpToNow(p) /\ Arrived(p)' = Arrived(p) /\ Tests(p)' = Tests(p)
  BY <1>1 DEF UpToNow, Arrived, Pending, Earlier, Tests, Suite
<1>6. ASSUME NEW j \in DOMAIN held'[p]
      PROVE  held'[p][j] \in Seq(TestType) /\ SomeOf(held'[p][j], UpToNow(p), Arrived(p))
  <2>1. CASE j = i
    BY <1>2, <1>3, <1>4, <2>1
  <2>2. CASE j # i
    <3>1. j \in DOMAIN held[p] /\ held'[p][j] = held[p][j]
      BY <1>2, <1>6, <2>2
    <3> QED
      BY <1>3, <3>1 DEF Telling
  <2> QED
    BY <2>1, <2>2
<1>7. DOMAIN held'[p] \subseteq running[p]
  BY <1>2, <1>3 DEF Telling
<1>8. Telling(p)'
  <2>1. Shows(p, collected[p], UpToNow(p), Arrived(p))'
    BY <1>1, <1>3, <1>5 DEF Telling, Shows
  <2>2. running'[p] = running[p] /\ running[p] \subseteq Reported(Tests(p))
    BY <1>1, <1>3 DEF Telling
  <2> QED
    BY <1>1, <1>5, <1>6, <1>7, <2>1, <2>2 DEF Telling
<1>9. \A r \in DOMAIN docs[p] : Agrees(p, r)'
  BY <1>1 DEF Agrees, Complete, Reporting
<1> QED
  BY <1>1, <1>8, <1>9 DEF Reporting

LEMMA WriteReports ==
  ASSUME ExitInv, NEW p \in Procs, Reporting(p),
         DOMAIN running = Procs, DOMAIN held = Procs, DOMAIN collected = Procs, AppendWrites(p)
  PROVE  Reporting(p)'
<1>1. PICK i \in running[p] \cap DOMAIN held[p] :
        /\ collected' = [collected EXCEPT ![p] = Append(held[p][i], Tests(p)[i])]
        /\ running' = [running EXCEPT ![p] = @ \ {i}]
        /\ held' = [held EXCEPT ![p] = [j \in DOMAIN @ \ {i} |-> @[j]]]
  BY DEF AppendWrites
<1>2. /\ pc[p] = "tests" /\ UNCHANGED <<call, pc, at, total, docs>>
      /\ collected'[p] = Append(held[p][i], Tests(p)[i]) /\ running'[p] = running[p] \ {i}
      /\ held'[p] = [j \in DOMAIN held[p] \ {i} |-> held[p][j]]
  BY <1>1 DEF AppendWrites
<1> DEFINE k == Len(Earlier(p)) + i
<1>3. /\ UpToNow(p)' = UpToNow(p) /\ Tests(p)' = Tests(p)
      /\ UpToNow(p)[k] = Tests(p)[i] /\ Tests(p)[i] \in TestType
      /\ k \notin Arrived(p) /\ Arrived(p)' = Arrived(p) \cup {k}
  BY <1>1, <1>2, Arrives
<1> HIDE DEF k
<1>4. Telling(p)
  BY <1>2 DEF Reporting
<1>5. call[p].parallel /\ held[p][i] \in Seq(TestType) /\ SomeOf(held[p][i], UpToNow(p), Arrived(p))
  BY <1>1, <1>4 DEF Telling
<1>6. SomeOf(collected'[p], UpToNow(p), Arrived(p) \cup {k}) /\ collected'[p] \in Seq(TestType)
  <2>1. SomeOf(Append(held[p][i], UpToNow(p)[k]), UpToNow(p), Arrived(p) \cup {k})
    BY <1>3, <1>5, OneMore
  <2> QED
    BY <1>2, <1>3, <1>5, <2>1
<1>7. ASSUME NEW j \in DOMAIN held'[p]
      PROVE  held'[p][j] \in Seq(TestType) /\ SomeOf(held'[p][j], UpToNow(p), Arrived(p) \cup {k})
  <2>1. j \in DOMAIN held[p] /\ held'[p][j] = held[p][j]
    BY <1>2, <1>7
  <2>2. held[p][j] \in Seq(TestType) /\ SomeOf(held[p][j], UpToNow(p), Arrived(p))
    BY <1>4, <2>1 DEF Telling
  <2> QED
    BY <2>1, <2>2, Wider
<1>8. Telling(p)'
  <2>1. Shows(p, collected[p], UpToNow(p), Arrived(p))'
    BY <1>2, <1>3, <1>5, <1>6 DEF Shows
  <2>2. running'[p] \subseteq Reported(Tests(p)) /\ DOMAIN held'[p] \subseteq running'[p]
    BY <1>2, <1>4 DEF Telling
  <2> QED
    BY <1>2, <1>3, <1>5, <1>7, <2>1, <2>2 DEF Telling
<1>9. \A r \in DOMAIN docs[p] : Agrees(p, r)'
  BY <1>2 DEF Agrees, Complete, Reporting
<1> QED
  BY <1>2, <1>6, <1>8, <1>9 DEF Reporting

(* The documents written before agree still when a monorepo goes on.       *)
LEMMA StillAgrees ==
  ASSUME NEW p \in Procs, NEW i, Agrees(p, i), call' = call, docs'[p][i] = docs[p][i],
         total[p].tests \in Seq(TestType), NEW t \in Seq(TestType),
         total'[p].tests = total[p].tests \o t
  PROVE  Agrees(p, i)'
<1> DEFINE d == docs[p][i]
<1>1. Complete(p, i)' <=> Complete(p, i)
  BY DEF Complete
<1>2. CASE Complete(p, i)
  BY <1>1, <1>2 DEF Agrees
<1>3. CASE ~Complete(p, i)
  <2>1. SomeOf(d.tests, total[p].tests, Reported(total[p].tests))
    BY <1>3, Showing DEF Agrees
  <2>2. SomeOf(d.tests, total[p].tests \o t, Reported(total[p].tests))
    BY <2>1, Longer, ReportedPlaces
  <2>3. Reported(total[p].tests) \subseteq Reported(total[p].tests \o t)
    BY ReportedJoined
  <2>4. ShowsSome(d.tests, total[p].tests \o t)
    BY <2>2, <2>3, Wider, Showing
  <2> QED
    BY <1>1, <1>3, <2>4 DEF Agrees
<1> QED
  BY <1>2, <1>3

(* A document that is added.                                               *)
LEMMA Added ==
  ASSUME NEW p \in Procs, DOMAIN docs = Procs, docs[p] \in Seq(Document), NEW doc \in Document,
         docs' = [docs EXCEPT ![p] = Append(@, doc)]
  PROVE  /\ docs'[p] \in Seq(Document)
         /\ Len(docs[p]) \in Nat /\ Len(docs'[p]) = Len(docs[p]) + 1
         /\ DOMAIN docs'[p] = DOMAIN docs[p] \cup {Len(docs[p]) + 1}
         /\ docs'[p][Len(docs[p]) + 1] = doc
         /\ \A i \in DOMAIN docs[p] : docs'[p][i] = docs[p][i]
<1>1. docs'[p] = Append(docs[p], doc)
  OBVIOUS
<1>2. DOMAIN docs[p] = 1..Len(docs[p]) /\ Len(docs[p]) \in Nat
  OBVIOUS
<1> QED
  BY <1>1, <1>2

LEMMA SummaryReports ==
  ASSUME ExitInv, NEW p \in Procs, Reporting(p), DOMAIN docs = Procs, Summary(p)
  PROVE  Reporting(p)'
<1> DEFINE doc == [project |-> Suite(p).project, failed |-> Failures(Tests(p)),
                   tests |-> collected[p], of |-> Tests(p)]
<1>0. PICK n : n = Len(docs[p]) + 1
  OBVIOUS
<1>1. /\ pc[p] = "tests" /\ pc'[p] = "next" /\ running[p] = {}
      /\ UNCHANGED <<call, at, running, held, collected>>
      /\ docs' = [docs EXCEPT ![p] = Append(@, doc)]
      /\ total'[p] = [failed |-> total[p].failed + Failures(Tests(p)), tests |-> total[p].tests \o Tests(p)]
  BY DEF Summary, Write, Go, ExitInv, Shape
<1>2. /\ at[p] \in DOMAIN call[p].suites /\ at[p] \in Nat \ {0}
      /\ Suite(p).project \in STRING /\ Failures(Tests(p)) \in Nat
      /\ Tests(p) \in Seq(TestType) /\ Earlier(p) \in Seq(TestType) /\ UpToNow(p) \in Seq(TestType)
  BY <1>1, AtSuite
<1>3. /\ collected[p] \in Seq(TestType) /\ docs[p] \in Seq(Document)
      /\ total[p].tests \in Seq(TestType) /\ total[p].failed = Failures(total[p].tests)
      /\ Telling(p) /\ DOMAIN held[p] = {}
  BY <1>1 DEF Reporting, Telling
<1>4. doc \in Document
  BY <1>2, <1>3 DEF Document
<1> HIDE DEF doc
<1>5. /\ docs'[p] \in Seq(Document)
      /\ Len(docs[p]) \in Nat /\ Len(docs'[p]) = n
      /\ DOMAIN docs'[p] = DOMAIN docs[p] \cup {n}
      /\ docs'[p][n] = doc
      /\ \A i \in DOMAIN docs[p] : docs'[p][i] = docs[p][i]
  BY <1>0, <1>1, <1>3, <1>4, Added
<1>6. Arrived(p) = Reported(UpToNow(p))
  BY <1>1 DEF Arrived, Pending
<1>7. Shows(p, collected[p], UpToNow(p), Reported(UpToNow(p)))
  BY <1>3, <1>6 DEF Telling
<1>8. SomeOf(collected[p], UpToNow(p), Reported(UpToNow(p)))
  BY <1>2, <1>3, <1>7, ShowingSome, ReportedPlaces
<1>9. /\ total'[p].tests = total[p].tests \o Tests(p) /\ total'[p].tests \in Seq(TestType)
      /\ total'[p].failed = Failures(total'[p].tests)
  <2>1. Failures(total[p].tests \o Tests(p)) = Failures(total[p].tests) + Failures(Tests(p))
    BY <1>2, <1>3, FailuresJoined
  <2>2. total[p].tests \o Tests(p) \in Seq(TestType)
    BY <1>2, <1>3
  <2> QED
    BY <1>1, <1>3, <2>1, <2>2
<1>10. ASSUME call[p].mode = "monorepo"
       PROVE  /\ Earlier(p)' = UpToNow(p) /\ total'[p].tests = UpToNow(p)
              /\ n = at[p]
              /\ ~Complete(p, n)
  <2>1. Earlier(p)' = UpToNow(p) /\ total'[p].tests = UpToNow(p)
    BY <1>1, <1>9, <1>10 DEF Earlier, UpToNow
  <2>2. n = at[p]
    BY <1>0, <1>1, <1>2, <1>5, <1>10 DEF Reporting
  <2>3. ~(at[p] > Len(call[p].suites))
    BY <1>2, SuitesTyped DEF ExitInv, Shape
  <2> QED
    BY <1>10, <2>1, <2>2, <2>3 DEF Complete
<1>11. ASSUME call[p].mode # "monorepo" PROVE UpToNow(p) = Tests(p) /\ Complete(p, n)
  <2>1. << >> \o Tests(p) = Tests(p)
    BY <1>2
  <2> QED
    BY <1>11, <2>1 DEF UpToNow, Earlier, Complete
<1>12. Agrees(p, n)'
  <2>1. docs'[p][n].tests = collected[p] /\ docs'[p][n].of = Tests(p) /\ docs'[p][n].failed = Failures(Tests(p))
    BY <1>5 DEF doc
  <2>2. CASE call[p].mode = "monorepo"
    <3>1. ShowsSome(collected[p], total'[p].tests)
      BY <1>8, <1>10, <2>2, Showing
    <3>2. ~Complete(p, n)'
      BY <1>1, <1>10, <2>2 DEF Complete
    <3> QED
      BY <2>1, <3>1, <3>2 DEF Agrees
  <2>3. CASE call[p].mode # "monorepo"
    <3>1. ShowsSome(collected[p], Tests(p))
      BY <1>8, <1>11, <2>3, Showing
    <3>2. ~call[p].parallel => ShowsAll(collected[p], Tests(p))
      BY <1>7, <1>11, <2>3, Showing DEF Shows
    <3>3. Complete(p, n)' /\ call' = call
      BY <1>1, <1>11, <2>3 DEF Complete
    <3> QED
      BY <2>1, <3>1, <3>2, <3>3 DEF Agrees
  <2> QED
    BY <2>2, <2>3
<1>13. ASSUME NEW i \in DOMAIN docs[p] PROVE Agrees(p, i)'
  BY <1>1, <1>2, <1>3, <1>5, <1>9, <1>13, StillAgrees DEF Reporting
<1>14. ASSUME call[p].mode = "monorepo" PROVE Shows(p, collected[p], Earlier(p), Reported(Earlier(p)))'
  BY <1>1, <1>7, <1>10, <1>14 DEF Shows
<1>15. call[p].mode = "monorepo" => Len(docs'[p]) = at[p]
  BY <1>0, <1>5, <1>10
<1>16. \A i \in DOMAIN docs'[p] : Agrees(p, i)'
  BY <1>5, <1>12, <1>13
<1> QED
  BY <1>1, <1>3, <1>5, <1>9, <1>14, <1>15, <1>16 DEF Reporting

LEMMA NextReports ==
  ASSUME ExitInv, NEW p \in Procs, Reporting(p), DOMAIN collected = Procs, NextSuite(p)
  PROVE  Reporting(p)'
<1>1. /\ pc[p] = "next" /\ pc'[p] = "suite" /\ at[p] < Len(call[p].suites) /\ at'[p] = at[p] + 1
      /\ UNCHANGED <<call, running, held, total, docs>>
      /\ call[p].mode = "watch" => collected'[p] = << >>
      /\ call[p].mode # "watch" => collected' = collected
  BY DEF NextSuite, More, Go, buildReporter, ExitInv, Shape
<1>2. at[p] \in Nat \ {0} /\ running[p] = {} /\ DOMAIN held[p] = {}
  BY <1>1 DEF Reporting, ExitInv, Shape
<1>3. call[p].mode \in {"watch", "monorepo"}
  <2>1. Len(call[p].suites) \in Nat
    BY SuitesTyped DEF ExitInv, Shape
  <2>2. Len(call[p].suites) # 1
    <3>1. \A m \in Nat \ {0}, n \in Nat : m < n => n # 1
      OBVIOUS
    <3>2. at[p] \in Nat \ {0} /\ at[p] < Len(call[p].suites)
      BY <1>1, <1>2
    <3> QED
      BY <2>1, <3>1, <3>2
  <2>3. call \in Calls
    BY DEF ExitInv, Shape
  <2>4. call[p].mode # "run"
    BY <2>2, <2>3, ReportAssumption
  <2> QED
    BY <2>3, <2>4, ReportAssumption
<1>4. collected'[p] \in Seq(TestType) /\ Shows(p, collected[p], Earlier(p), Reported(Earlier(p)))'
  <2>1. CASE call[p].mode = "watch"
    <3>1. Earlier(p)' = << >> /\ Reported(<< >>) = {} /\ << >> \in Seq(TestType)
      BY <1>1, <2>1 DEF Earlier, Reported
    <3>2. SomeOf(<< >>, << >>, {}) /\ AllOf(<< >>, << >>, {})
      BY EmptyList
    <3> QED
      BY <1>1, <2>1, <3>1, <3>2 DEF Shows
  <2>2. CASE call[p].mode = "monorepo"
    <3>1. Shows(p, collected[p], Earlier(p), Reported(Earlier(p))) /\ collected[p] \in Seq(TestType)
      BY <1>1, <2>2 DEF Reporting
    <3>2. Earlier(p)' = Earlier(p) /\ collected' = collected
      BY <1>1, <2>2 DEF Earlier
    <3> QED
      BY <1>1, <3>1, <3>2 DEF Shows
  <2> QED
    BY <1>3, <2>1, <2>2
<1>5. call[p].mode = "monorepo" => Len(docs'[p]) = at'[p] - 1
  BY <1>1, <1>2 DEF Reporting
<1>6. \A i \in DOMAIN docs[p] : Agrees(p, i)'
  BY <1>1 DEF Agrees, Complete, Reporting
<1> QED
  BY <1>1, <1>2, <1>4, <1>5, <1>6 DEF Reporting

LEMMA MonorepoReports ==
  ASSUME ExitInv, NEW p \in Procs, Reporting(p), DOMAIN docs = Procs, RunMonorepo(p)
  PROVE  Reporting(p)'
<1> DEFINE doc == [project |-> Root, failed |-> total[p].failed,
                   tests |-> collected[p], of |-> total[p].tests]
<1>0. PICK n : n = Len(docs[p]) + 1
  OBVIOUS
<1>1. /\ pc[p] = "next" /\ pc'[p] \notin {"start", "suite", "tests", "next"}
      /\ call[p].mode = "monorepo" /\ ~(at[p] < Len(call[p].suites))
      /\ UNCHANGED <<call, at, running, held, collected, total>>
      /\ docs' = [docs EXCEPT ![p] = Append(@, doc)]
  BY DEF RunMonorepo, Write, Go, More, AfterRuns, ExitInv, Shape
<1>2. /\ collected[p] \in Seq(TestType) /\ docs[p] \in Seq(Document)
      /\ total[p].tests \in Seq(TestType) /\ total[p].failed = Failures(total[p].tests)
      /\ total[p].failed \in Nat /\ at[p] \in Nat
      /\ Shows(p, collected[p], total[p].tests, Reported(total[p].tests)) /\ Len(docs[p]) = at[p]
  BY <1>1 DEF Reporting, Earlier, ExitInv, Shape
<1>3. doc \in Document
  BY <1>2 DEF Document
<1> HIDE DEF doc
<1>4. /\ docs'[p] \in Seq(Document) /\ Len(docs[p]) \in Nat
      /\ DOMAIN docs'[p] = DOMAIN docs[p] \cup {n}
      /\ docs'[p][n] = doc
      /\ \A i \in DOMAIN docs[p] : docs'[p][i] = docs[p][i]
  BY <1>0, <1>1, <1>2, <1>3, Added
<1>5. Complete(p, n)
  <2>1. n > Len(call[p].suites)
    BY <1>0, <1>1, <1>2, SuitesTyped DEF ExitInv, Shape
  <2> QED
    BY <2>1 DEF Complete
<1>6. ShowsSome(collected[p], total[p].tests)
  BY <1>2, ShowingSome, ReportedPlaces, Showing
<1>7. ~call[p].parallel => ShowsAll(collected[p], total[p].tests)
  BY <1>2, Showing DEF Shows
<1>8. Agrees(p, n)'
  <2>1. /\ docs'[p][n].tests = collected[p] /\ docs'[p][n].of = total[p].tests
        /\ docs'[p][n].failed = Failures(total[p].tests)
    BY <1>2, <1>4 DEF doc
  <2>2. Complete(p, n)' /\ call' = call
    BY <1>1, <1>5 DEF Complete
  <2> QED
    BY <1>6, <1>7, <2>1, <2>2 DEF Agrees
<1>9. ASSUME NEW i \in DOMAIN docs[p] PROVE Agrees(p, i)'
  BY <1>1, <1>4, <1>9 DEF Agrees, Complete, Reporting
<1>10. \A i \in DOMAIN docs'[p] : Agrees(p, i)'
  BY <1>4, <1>8, <1>9
<1> QED
  BY <1>1, <1>2, <1>4, <1>10 DEF Reporting

LEMMA DocumentSteps ==
  ASSUME ExitInv, DocumentInv, NEW p \in Procs, Work(p) \/ Kill(p)
  PROVE  DocumentInv'
<1> USE DEF reporting, baseline
<1>1. Reporting(p) /\ DOMAIN pc = Procs /\ DOMAIN at = Procs /\ DOMAIN total = Procs
  BY DEF DocumentInv, ExitInv, Shape
<1>2. CASE ConfigFails(p) \/ ArgumentsFail(p) \/ Exit(p) \/ Interrupt(p) \/ Kill(p)
  <2>1. Bystanders(p) /\ pc'[p] = "done" /\ call' = call /\ UNCHANGED <<running, held, collected, total, docs>>
    BY <1>1, <1>2 DEF ConfigFails, ArgumentsFail, Exit, Interrupt, Kill, ExitWith, Go, Bystanders, DocumentInv
  <2> QED
    BY <1>1, <2>1, Leaves, OneReports
<1>3. CASE LoadBaseline(p) \/ SaveTruncates(p) \/ SaveWrites(p) \/ RunEnds(p)
  <2>1. /\ Bystanders(p) /\ pc'[p] \notin {"start", "suite", "tests", "next"} /\ call' = call
        /\ UNCHANGED <<running, held, collected, total, docs>>
    BY <1>1, <1>3 DEF LoadBaseline, SaveTruncates, SaveWrites, RunEnds, AfterRuns, Go, Bystanders, DocumentInv
  <2> QED
    BY <1>1, <2>1, Leaves, OneReports
<1>4. CASE SuiteFails(p)
  <2>1. /\ Bystanders(p) /\ pc[p] = "suite" /\ call' = call
        /\ pc'[p] = "done" \/ (pc'[p] = "next" /\ call[p].mode # "monorepo")
        /\ UNCHANGED <<running, held, collected, total, docs>>
    BY <1>1, <1>4 DEF SuiteFails, ExitWith, Go, Bystanders, DocumentInv
  <2> QED
    BY <1>1, <2>1, Leaves, OneReports
<1>5. CASE Build(p)
  <2>1. Bystanders(p)
    BY <1>1, <1>5 DEF Build, buildReporter, Go, Bystanders, DocumentInv
  <2> QED
    BY <1>1, <1>5, <2>1, BuildReports, OneReports DEF DocumentInv
<1>6. CASE StartSuite(p)
  <2>1. Bystanders(p)
    BY <1>1, <1>6 DEF StartSuite, Go, Bystanders, DocumentInv
  <2> QED
    BY <1>1, <1>6, <2>1, StartReports, OneReports DEF DocumentInv
<1>7. CASE TestResult(p)
  <2>1. Bystanders(p)
    BY <1>1, <1>7 DEF TestResult, Bystanders, DocumentInv
  <2> QED
    BY <1>1, <1>7, <2>1, ResultReports, OneReports DEF DocumentInv
<1>8. CASE AppendReads(p)
  <2>1. Bystanders(p)
    BY <1>1, <1>8 DEF AppendReads, Bystanders, DocumentInv
  <2> QED
    BY <1>1, <1>8, <2>1, ReadReports, OneReports DEF DocumentInv
<1>9. CASE AppendWrites(p)
  <2>1. Bystanders(p)
    BY <1>1, <1>9 DEF AppendWrites, Bystanders, DocumentInv
  <2> QED
    BY <1>1, <1>9, <2>1, WriteReports, OneReports DEF DocumentInv
<1>10. CASE Summary(p)
  <2>1. Bystanders(p)
    BY <1>1, <1>10 DEF Summary, Write, Go, Bystanders, DocumentInv
  <2> QED
    BY <1>1, <1>10, <2>1, SummaryReports, OneReports DEF DocumentInv
<1>11. CASE NextSuite(p)
  <2>1. Bystanders(p)
    BY <1>1, <1>11 DEF NextSuite, buildReporter, Go, Bystanders, DocumentInv
  <2> QED
    BY <1>1, <1>11, <2>1, NextReports, OneReports DEF DocumentInv
<1>12. CASE RunMonorepo(p)
  <2>1. Bystanders(p)
    BY <1>1, <1>12 DEF RunMonorepo, Write, Go, Bystanders, DocumentInv
  <2> QED
    BY <1>1, <1>12, <2>1, MonorepoReports, OneReports DEF DocumentInv
<1> QED
  BY <1>2, <1>3, <1>4, <1>5, <1>6, <1>7, <1>8, <1>9, <1>10, <1>11, <1>12 DEF Work

LEMMA DocumentsFollow == DocumentInv => DocumentsAgree
<1> SUFFICES ASSUME DocumentInv, NEW p \in Procs, NEW i \in DOMAIN docs[p]
             PROVE  LET d == docs[p][i]
                        shown == d.failed - Count(d.of, {"unreported"}) + Repeated(d.of)
                    IN  /\ Complete(p, i) /\ ~call[p].parallel =>
                             /\ ShowsAll(d.tests, d.of)
                             /\ \A f \in {"terminal", "json", "junit", "tap"} :
                                  Cardinality(Marked(f, d.tests)) = shown
                             /\ \A f \in {"gha", "prometheus", "backstage"} :
                                  Cardinality(Marked(f, d.tests)) >= shown
                             /\ backstageOverallStatus(d.tests) = "healthy" => shown = 0
                        /\ ShowsSome(d.tests, IF Complete(p, i) THEN d.of ELSE total[p].tests)
  BY DEF DocumentsAgree
<1>1. Agrees(p, i) /\ docs[p] \in Seq(Document)
  BY DEF DocumentInv, Reporting
<1>2. docs[p][i].tests \in Seq(TestType) /\ docs[p][i].of \in Seq(TestType)
  <2>1. docs[p][i] \in Document
    BY <1>1
  <2> QED
    BY <2>1 DEF Document
<1> QED
  BY <1>1, <1>2, MarksTell DEF Agrees

LEMMA DocumentsInvariant == Spec => [](ExitInv /\ DocumentInv)
<1>1. ExitInv /\ DocumentInv /\ [Next]_vars => DocumentInv'
  <2> SUFFICES ASSUME ExitInv, DocumentInv, [Next]_vars PROVE DocumentInv'
    OBVIOUS
  <2>1. CASE UNCHANGED vars
    <3>1. \A p \in Procs : Reporting(p)'
      BY <2>1, SameReport DEF vars, reporting, DocumentInv
    <3> QED
      BY <2>1, <3>1 DEF vars, reporting, DocumentInv
  <2> QED
    BY <2>1, DocumentSteps DEF Next
<1> QED
  BY <1>1, ExitInit, ExitNext, DocumentInit, PTL DEF Spec

(* Every document shows the attempts of its suite and agrees with what was *)
(* counted, with any suites of any calls and any number of retries.        *)
THEOREM DocumentsSound == Spec => []DocumentsAgree
BY DocumentsInvariant, DocumentsFollow, PTL

-----------------------------------------------------------------------------
(* Types, that only an attempt whose event is missing has an append under  *)
(* way, and that the attempts at one test do not overlap: also in a        *)
(* process that was killed.                                                *)

OneAtATime(p) == \A i \in DOMAIN held[p] : EarlierAttempts(p, i) \cap running[p] = {}
Placed(p) == /\ at[p] \in 1..Len(call[p].suites) \cup {1}
             /\ DOMAIN held[p] \subseteq running[p]
             /\ OneAtATime(p)

LEMMA PlacedStep ==
  ASSUME ExitInv, DocumentInv, \A q \in Procs : Placed(q), NEW p \in Procs, Work(p) \/ Kill(p),
         NEW q \in Procs
  PROVE  Placed(q)'
<1> USE DEF reporting, baseline
<1>1. /\ DOMAIN at = Procs /\ DOMAIN running = Procs /\ DOMAIN held = Procs
      /\ Placed(q) /\ Placed(p) /\ Reporting(p)
  BY DEF DocumentInv, ExitInv, Shape
<1>2. ASSUME UNCHANGED <<call, at, running, held>> PROVE Placed(q)'
  BY <1>1, <1>2 DEF Placed, OneAtATime, EarlierAttempts, Tests, Suite
<1>3. CASE \/ ConfigFails(p) \/ ArgumentsFail(p) \/ Build(p) \/ SuiteFails(p) \/ Summary(p)
           \/ RunEnds(p) \/ RunMonorepo(p) \/ LoadBaseline(p) \/ SaveTruncates(p) \/ SaveWrites(p)
           \/ Exit(p) \/ Interrupt(p) \/ Kill(p)
  BY <1>2, <1>3 DEF ConfigFails, ArgumentsFail, Build, SuiteFails, Summary, RunEnds, RunMonorepo,
                    LoadBaseline, SaveTruncates, SaveWrites, Exit, Interrupt, Kill
<1>4. CASE StartSuite(p) \/ TestResult(p)
  <2>1. DOMAIN held[p] = {}
    BY <1>1, <1>4 DEF StartSuite, TestResult, Go, Reporting, Telling
  <2>2. UNCHANGED <<call, at, held>> /\ (q # p => running'[q] = running[q])
    BY <1>1, <1>4 DEF StartSuite, TestResult
  <2> QED
    BY <1>1, <2>1, <2>2 DEF Placed, OneAtATime, EarlierAttempts, Tests, Suite
<1>5. CASE AppendReads(p)
  <2>1. PICK i \in running[p] :
          /\ UNCHANGED <<call, at, running>>
          /\ EarlierAttempts(p, i) \cap running[p] = {}
          /\ q # p => held'[q] = held[q]
          /\ DOMAIN held'[p] = DOMAIN held[p] \cup {i}
    BY <1>1, <1>5 DEF AppendReads
  <2> QED
    BY <1>1, <2>1 DEF Placed, OneAtATime, EarlierAttempts, Tests, Suite
<1>6. CASE AppendWrites(p)
  <2>1. PICK i \in running[p] :
          /\ UNCHANGED <<call, at>>
          /\ q # p => held'[q] = held[q] /\ running'[q] = running[q]
          /\ DOMAIN held'[p] = DOMAIN held[p] \ {i} /\ running'[p] = running[p] \ {i}
    BY <1>1, <1>6 DEF AppendWrites
  <2> QED
    BY <1>1, <2>1 DEF Placed, OneAtATime, EarlierAttempts, Tests, Suite
<1>7. CASE NextSuite(p)
  <2>1. /\ UNCHANGED <<call, running, held>> /\ at' = [at EXCEPT ![p] = @ + 1]
        /\ at[p] < Len(call[p].suites) /\ DOMAIN held[p] = {}
    BY <1>1, <1>7 DEF NextSuite, More, Go, Reporting
  <2>2. at[p] \in Nat \ {0} /\ Len(call[p].suites) \in Nat
    BY SuitesTyped DEF ExitInv, Shape
  <2>3. \A m \in Nat \ {0}, n \in Nat : m < n => m + 1 \in 1..n
    OBVIOUS
  <2>4. at'[p] \in 1..Len(call[p].suites) /\ (q # p => at'[q] = at[q])
    BY <1>1, <2>1, <2>2, <2>3
  <2> QED
    BY <1>1, <2>1, <2>4 DEF Placed, OneAtATime, EarlierAttempts, Tests, Suite
<1> QED
  BY <1>3, <1>4, <1>5, <1>6, <1>7 DEF Work

(* The types of the variables, and that appends are under way only for     *)
(* attempts whose event is missing, one at a time for each test.           *)
THEOREM TypeCorrect == Spec => []TypeOK
<1> DEFINE Here == \A p \in Procs : Placed(p)
<1>1. Init => Here
  BY DEF Init, Placed, OneAtATime
<1>2. ExitInv /\ DocumentInv /\ Here /\ [Next]_vars => Here'
  <2> SUFFICES ASSUME ExitInv, DocumentInv, Here, [Next]_vars PROVE Here'
    OBVIOUS
  <2>1. CASE UNCHANGED vars
    BY <2>1 DEF vars, reporting, Placed, OneAtATime, EarlierAttempts, Tests, Suite
  <2> QED
    BY <2>1, PlacedStep DEF Next
<1>3. ExitInv /\ Here => TypeOK
  <2> SUFFICES ASSUME ExitInv, Here, NEW p \in Procs
               PROVE  /\ at[p] \in 1..Len(call[p].suites) \cup {1}
                      /\ DOMAIN held[p] \subseteq running[p]
                      /\ \A i \in DOMAIN held[p] : EarlierAttempts(p, i) \cap running[p] = {}
                      /\ exit[p] \in {Unset, 0, 1, 2, 3, 137}
                      /\ (exit[p] = Unset) = (pc[p] # "done")
    BY DEF TypeOK, ExitInv, Shape
  <2> QED
    BY DEF Placed, OneAtATime, ExitInv, Shape, Told
<1> QED
  BY <1>1, <1>2, <1>3, DocumentsInvariant, ExitInit, ExitNext, PTL DEF Spec

=============================================================================

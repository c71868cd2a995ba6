---------------------------- MODULE StressProofs ----------------------------
(***************************************************************************)
(* Theorems about the stress command, for any number of runs and workers,  *)
(* and about the lifecycle hooks it starts with, for any list of them      *)
(* (they run in front of its runs, and of those of other commands).        *)
(*                                                                         *)
(* For the runs the argument is one inductive invariant: every counter of  *)
(* StressTest (the tokens in the channel, the WaitGroup, the atomic        *)
(* counters, the appended durations) equals the number of goroutines in    *)
(* the stages that it stands for.                                          *)
(***************************************************************************)
EXTENDS Stress, Lifecycle, TLAPS, FiniteSetTheorems

\* Stages in which a run is in one of the two counters, and in durations.
Ended == {"counted", "logged", "timed", "released", "done"}
Timed == {"timed", "released", "done"}

Started == {"running", "counted", "logged", "timed", "released", "done"}

CountersMatch ==
  /\ sem = Cardinality(At(Holding))
  /\ wg = Cardinality(At(InFlight)) + (IF pc = "acquire" THEN 1 ELSE 0)
  /\ passes + failures = Cardinality(At(Ended))
  /\ durations = Cardinality(At(Timed))

LoopBound ==
  /\ \A r \in Run : run[r] = "idle" <=> launched < r
  /\ pc = "acquire" => launched < Runs
  /\ pc = "lookup" => launched = 0

\* Why the loop was left, and what the result was built from.
ResultMatches ==
  /\ pc = "lookup" => wg = 0 /\ passes = 0 /\ failures = 0 /\ durations = 0
  /\ result # NoResult <=> pc \in {"teardown", "report", "exited"}
  /\ pc = "wait" => launched = Runs \/ FailureSeen
  /\ result # NoResult =>
       /\ wg = 0
       /\ result.total = passes + failures
       /\ result.passes = passes
       /\ result.failures = failures
       /\ result.durations = durations
       /\ result.total # 0 =>
            /\ launched = Runs \/ FailureSeen
            /\ result.reliability = ReliabilityStatus(passes, passes + failures)
  /\ pc # "exited" => exit = -1
  /\ pc = "exited" =>
       exit = IF result.total = 0 \/ result.passes < result.total THEN 1 ELSE 0

LateInv ==
  failFast => /\ late <= 1
              /\ failures = 0 \/ pc = "acquire" => late = 0

Inv == TypeOK /\ CountersMatch /\ LoopBound /\ ResultMatches /\ LateInv
-----------------------------------------------------------------------------
(***************************************************************************)
(* Lemmas.                                                                 *)
(***************************************************************************)
\* Any part of the runs of a stress test is a finite set.
LEMMA RunsFinite ==
  ASSUME NEW f, NEW S
  PROVE  /\ IsFiniteSet({r \in Run : f[r] \in S})
         /\ Cardinality({r \in Run : f[r] \in S}) \in Nat
<1>1. IsFiniteSet(Run)
  BY FS_Interval, StressAssumption DEF Run
<1> QED
  BY <1>1, FS_Subset, FS_CardinalityType

\* What moving one run to another stage does to the number of runs at S.
LEMMA MoveCount ==
  ASSUME NEW f \in [Run -> Stages], NEW r \in Run, NEW b \in Stages, NEW S,
         NEW g, g = [f EXCEPT ![r] = b]
  PROVE  Cardinality({x \in Run : g[x] \in S}) =
           Cardinality({x \in Run : f[x] \in S})
             + (IF b \in S THEN 1 ELSE 0) - (IF f[r] \in S THEN 1 ELSE 0)
<1> DEFINE A == {x \in Run : f[x] \in S}
           B == {x \in Run : g[x] \in S}
<1>1. IsFiniteSet(A) /\ Cardinality(A) \in Nat
  BY RunsFinite
<1>2. CASE b \in S
  <2>1. B = A \cup {r}
    BY <1>2
  <2>2. r \in A <=> f[r] \in S
    OBVIOUS
  <2> QED
    BY <1>1, <1>2, <2>1, <2>2, FS_AddElement
<1>3. CASE b \notin S
  <2>1. B = A \ {r}
    BY <1>3
  <2>2. r \in A <=> f[r] \in S
    OBVIOUS
  <2> QED
    BY <1>1, <1>3, <2>1, <2>2, FS_RemoveElement
<1> QED
  BY <1>2, <1>3

\* The same for the state variable run.
LEMMA Moved ==
  ASSUME TypeOK, NEW r \in Run, NEW b \in Stages, Move(r, b)
  PROVE  \A S : Cardinality(At(S)') =
                  Cardinality(At(S)) + (IF b \in S THEN 1 ELSE 0)
                                     - (IF run[r] \in S THEN 1 ELSE 0)
<1>1. run \in [Run -> Stages] /\ run' = [run EXCEPT ![r] = b]
  BY DEF TypeOK, Move
<1> QED
  BY <1>1, MoveCount DEF At

\* No run is at a set of stages whose count is zero.
LEMMA NoneAt ==
  ASSUME NEW S, Cardinality(At(S)) = 0
  PROVE  At(S) = {}
  BY RunsFinite, FS_EmptySet DEF At

\* The runs that left "idle" are the first ones, so their number is launched.
LEMMA StartedCount ==
  ASSUME TypeOK, LoopBound
  PROVE  Cardinality(At(Started)) = launched
<1>1. At(Started) = 1..launched
  BY StressAssumption DEF TypeOK, LoopBound, At, Started, Stages, Run
<1>2. launched \in Nat
  BY StressAssumption DEF TypeOK
<1> QED
  BY <1>1, <1>2, FS_Interval

\* The groups of DedupErrors have the declared type.
LEMMA DedupType ==
  ASSUME NEW seq \in Seq(Messages)
  PROVE  DedupErrors(seq) \in SUBSET [message : Messages, count : Nat]
<1>1. SUFFICES ASSUME NEW m \in {seq[k] : k \in DOMAIN seq}
               PROVE  [message |-> m, count |-> Cardinality({k \in DOMAIN seq : seq[k] = m})]
                        \in [message : Messages, count : Nat]
  BY DEF DedupErrors
<1>2. m \in Messages
  OBVIOUS
<1>3. Cardinality({k \in DOMAIN seq : seq[k] = m}) \in Nat
  <2>1. DOMAIN seq = 1..Len(seq) /\ Len(seq) \in Nat
    OBVIOUS
  <2>2. IsFiniteSet(DOMAIN seq)
    BY <2>1, FS_Interval
  <2> QED
    BY <2>2, FS_Subset, FS_CardinalityType
<1> QED
  BY <1>2, <1>3

\* A result built from counters of the right type has the right type.
LEMMA ResultType ==
  ASSUME TypeOK
  PROVE  /\ StressResult \in Results
         /\ UnknownTest \in Results
         /\ StressResult # NoResult
         /\ UnknownTest # NoResult
<1>1. DedupErrors(errors) \in SUBSET [message : Messages, count : Nat]
  BY DedupType DEF TypeOK
<1>2. ReliabilityStatus(passes, passes + failures) \in {"", "Stable", "Flaky", "Unreliable"}
  BY DEF ReliabilityStatus
<1>3. passes \in Nat /\ failures \in Nat /\ durations \in Nat /\ passes + failures \in Nat
  BY DEF TypeOK
<1>4. StressResult.total # -1 /\ UnknownTest.total # -1
  BY <1>3 DEF StressResult, UnknownTest
<1> QED
  BY <1>1, <1>2, <1>3, <1>4 DEF StressResult, UnknownTest, Results, NoResult
-----------------------------------------------------------------------------
(***************************************************************************)
(* The invariant is inductive.                                             *)
(***************************************************************************)
\* Initially nothing is launched and every counter is zero.
LEMMA InitInv == Init => Inv
<1> SUFFICES ASSUME Init PROVE Inv
  OBVIOUS
<1>1. TypeOK
  <2>1. launched \in 0..Runs /\ sem \in 0..Workers /\ exit \in {-1, 0, 1}
    BY StressAssumption DEF Init
  <2>2. run \in [Run -> Stages] /\ msg \in [Run -> Messages \cup {NoMessage}]
    BY DEF Init, Stages
  <2>3. errors \in Seq(Messages) /\ result = NoResult
    BY DEF Init
  <2>4. pc \in Places /\ failFast \in BOOLEAN /\ cleaned \in BOOLEAN
    BY DEF Init, Places
  <2> QED
    BY <2>1, <2>2, <2>3, <2>4 DEF Init, TypeOK
<1>2. \A S : "idle" \notin S => Cardinality(At(S)) = 0
  <2> TAKE S
  <2> SUFFICES ASSUME "idle" \notin S PROVE At(S) = {}
    BY FS_EmptySet
  <2> QED
    BY DEF Init, At
<1>3. CountersMatch
  BY <1>2 DEF Init, CountersMatch, Holding, InFlight, Ended, Timed
<1>4. LoopBound
  BY StressAssumption DEF Init, LoopBound, Run
<1>5. ResultMatches /\ LateInv
  BY DEF Init, ResultMatches, LateInv, NoResult
<1> QED
  BY <1>1, <1>3, <1>4, <1>5 DEF Inv

\* Each counter follows the goroutine that moves (Add, the channel, mu).
LEMMA CountersStep == Inv /\ [Next]_vars => CountersMatch'
<1> SUFFICES ASSUME Inv, [Next]_vars PROVE CountersMatch'
  OBVIOUS
<1>1. \A S : Cardinality(At(S)) \in Nat
  BY RunsFinite DEF At
<1>2. /\ TypeOK /\ CountersMatch /\ LoopBound
      /\ sem \in Int /\ wg \in Int /\ passes \in Int /\ failures \in Int
      /\ durations \in Int
  BY DEF Inv, TypeOK
<1>3. CASE UNCHANGED run /\ UNCHANGED <<sem, passes, failures, durations>>
             /\ wg' - (IF pc' = "acquire" THEN 1 ELSE 0)
                  = wg - (IF pc = "acquire" THEN 1 ELSE 0)
             /\ wg' \in Int
  <2>1. \A S : At(S)' = At(S)
    BY <1>3 DEF At
  <2> QED
    BY <1>1, <1>2, <1>3, <2>1 DEF CountersMatch
<1>4. CASE MainStep
  <2>1. CASE Lookup \/ Admit \/ LeaveLoop \/ Collect \/ Teardown \/ Report
    BY <1>2, <1>3, <2>1 DEF Lookup, Admit, LeaveLoop, Collect, Teardown, Report
  <2>2. CASE Launch
    <3>1. launched + 1 \in Run /\ run[launched + 1] = "idle"
      BY <1>2, <2>2, StressAssumption DEF Launch, LoopBound, TypeOK, Run, Stages
    <3>2. Move(launched + 1, "running")
      BY <2>2 DEF Launch, Move
    <3>3. \A S : Cardinality(At(S)') =
                   Cardinality(At(S)) + (IF "running" \in S THEN 1 ELSE 0)
                                      - (IF "idle" \in S THEN 1 ELSE 0)
      BY <1>2, <3>1, <3>2, Moved DEF Stages
    <3>4. /\ Cardinality(At(Holding)') = Cardinality(At(Holding)) + 1
          /\ Cardinality(At(InFlight)') = Cardinality(At(InFlight)) + 1
          /\ Cardinality(At(Ended)') = Cardinality(At(Ended))
          /\ Cardinality(At(Timed)') = Cardinality(At(Timed))
      BY <1>1, <3>3 DEF Holding, InFlight, Ended, Timed
    <3> QED
      BY <1>1, <1>2, <2>2, <3>4 DEF Launch, CountersMatch
  <2> QED
    BY <1>4, <2>1, <2>2 DEF MainStep
<1>5. ASSUME NEW r \in Run, RunStep(r) PROVE CountersMatch'
  <2>1. ASSUME NEW b \in Stages, Move(r, b)
        PROVE  \A S : Cardinality(At(S)') =
                        Cardinality(At(S)) + (IF b \in S THEN 1 ELSE 0)
                                           - (IF run[r] \in S THEN 1 ELSE 0)
    BY <1>2, <2>1, Moved
  <2>2. CASE RunPasses(r)
    <3>1. run[r] = "running" /\ Move(r, "counted") /\ "counted" \in Stages
      BY <2>2 DEF RunPasses, Stages
    <3>2. /\ Cardinality(At(Holding)') = Cardinality(At(Holding))
          /\ Cardinality(At(InFlight)') = Cardinality(At(InFlight))
          /\ Cardinality(At(Ended)') = Cardinality(At(Ended)) + 1
          /\ Cardinality(At(Timed)') = Cardinality(At(Timed))
      BY <1>1, <2>1, <3>1 DEF Holding, InFlight, Ended, Timed
    <3> QED
      BY <1>2, <2>2, <3>2 DEF RunPasses, CountersMatch
  <2>3. CASE RunFails(r)
    <3>1. run[r] = "running" /\ Move(r, "counted") /\ "counted" \in Stages
      BY <2>3 DEF RunFails, Stages
    <3>2. /\ Cardinality(At(Holding)') = Cardinality(At(Holding))
          /\ Cardinality(At(InFlight)') = Cardinality(At(InFlight))
          /\ Cardinality(At(Ended)') = Cardinality(At(Ended)) + 1
          /\ Cardinality(At(Timed)') = Cardinality(At(Timed))
      BY <1>1, <2>1, <3>1 DEF Holding, InFlight, Ended, Timed
    <3> QED
      BY <1>2, <2>3, <3>2 DEF RunFails, CountersMatch
  <2>4. CASE AppendError(r)
    <3>1. run[r] = "counted" /\ Move(r, "logged") /\ "logged" \in Stages
      BY <2>4 DEF AppendError, Stages
    <3>2. /\ Cardinality(At(Holding)') = Cardinality(At(Holding))
          /\ Cardinality(At(InFlight)') = Cardinality(At(InFlight))
          /\ Cardinality(At(Ended)') = Cardinality(At(Ended))
          /\ Cardinality(At(Timed)') = Cardinality(At(Timed))
      BY <1>1, <2>1, <3>1 DEF Holding, InFlight, Ended, Timed
    <3> QED
      BY <1>2, <2>4, <3>2 DEF AppendError, CountersMatch
  <2>5. CASE AppendDuration(r)
    <3>1. run[r] = "logged" /\ Move(r, "timed") /\ "timed" \in Stages
      BY <2>5 DEF AppendDuration, Stages
    <3>2. /\ Cardinality(At(Holding)') = Cardinality(At(Holding))
          /\ Cardinality(At(InFlight)') = Cardinality(At(InFlight))
          /\ Cardinality(At(Ended)') = Cardinality(At(Ended))
          /\ Cardinality(At(Timed)') = Cardinality(At(Timed)) + 1
      BY <1>1, <2>1, <3>1 DEF Holding, InFlight, Ended, Timed
    <3> QED
      BY <1>2, <2>5, <3>2 DEF AppendDuration, CountersMatch
  <2>6. CASE Release(r)
    <3>1. run[r] = "timed" /\ Move(r, "released") /\ "released" \in Stages
      BY <2>6 DEF Release, Stages
    <3>2. /\ Cardinality(At(Holding)') = Cardinality(At(Holding)) - 1
          /\ Cardinality(At(InFlight)') = Cardinality(At(InFlight))
          /\ Cardinality(At(Ended)') = Cardinality(At(Ended))
          /\ Cardinality(At(Timed)') = Cardinality(At(Timed))
      BY <1>1, <2>1, <3>1 DEF Holding, InFlight, Ended, Timed
    <3> QED
      BY <1>2, <2>6, <3>2 DEF Release, CountersMatch
  <2>7. CASE Finish(r)
    <3>1. run[r] = "released" /\ Move(r, "done") /\ "done" \in Stages
      BY <2>7 DEF Finish, Stages
    <3>2. /\ Cardinality(At(Holding)') = Cardinality(At(Holding))
          /\ Cardinality(At(InFlight)') = Cardinality(At(InFlight)) - 1
          /\ Cardinality(At(Ended)') = Cardinality(At(Ended))
          /\ Cardinality(At(Timed)') = Cardinality(At(Timed))
      BY <1>1, <2>1, <3>1 DEF Holding, InFlight, Ended, Timed
    <3> QED
      BY <1>1, <1>2, <2>7, <3>2 DEF Finish, CountersMatch
  <2> QED
    BY <1>5, <2>2, <2>3, <2>4, <2>5, <2>6, <2>7 DEF RunStep
<1>6. CASE UNCHANGED vars
  BY <1>2, <1>3, <1>6 DEF vars
<1> QED
  BY <1>4, <1>5, <1>6 DEF Next, Exited

\* A goroutine that can still move is one the WaitGroup waits for.
LEMMA MovingIsAwaited ==
  ASSUME Inv, NEW r \in Run, RunStep(r)
  PROVE  wg # 0 /\ result = NoResult
<1>1. run[r] \in InFlight
  BY DEF RunStep, RunPasses, RunFails, AppendError, AppendDuration, Release, Finish,
         InFlight
<1>2. Cardinality(At(InFlight)) # 0
  <2>1. r \in At(InFlight)
    BY <1>1 DEF At
  <2> QED
    BY <2>1, NoneAt
<1>3. wg # 0
  <2>1. wg = Cardinality(At(InFlight)) + (IF pc = "acquire" THEN 1 ELSE 0)
    BY DEF Inv, CountersMatch
  <2>2. Cardinality(At(InFlight)) \in Nat
    BY RunsFinite DEF At
  <2> QED
    BY <1>2, <2>1, <2>2
<1> QED
  BY <1>3 DEF Inv, ResultMatches

\* The loop starts the runs in order and stops at Runs (the for statement).
LEMMA LoopStep == Inv /\ [Next]_vars => LoopBound'
<1> SUFFICES ASSUME Inv, [Next]_vars PROVE LoopBound'
  OBVIOUS
<1>1. TypeOK /\ LoopBound /\ launched \in 0..Runs /\ run \in [Run -> Stages]
  BY DEF Inv, TypeOK
<1>2. CASE MainStep
  <2>1. CASE Launch
    <3>1. launched' = launched + 1 /\ pc' = "check"
          /\ run' = [run EXCEPT ![launched + 1] = "running"]
      BY <2>1 DEF Launch
    <3>2. \A r \in Run : run'[r] = "idle" <=> launched' < r
      BY <1>1, <3>1, StressAssumption DEF LoopBound, Run
    <3> QED
      BY <3>1, <3>2 DEF LoopBound
  <2>2. CASE Admit
    BY <1>1, <2>2, StressAssumption DEF Admit, LoopBound
  <2>3. CASE Lookup \/ LeaveLoop \/ Collect \/ Teardown \/ Report
    BY <1>1, <2>3 DEF Lookup, LeaveLoop, Collect, Teardown, Report, LoopBound
  <2> QED
    BY <1>2, <2>1, <2>2, <2>3 DEF MainStep
<1>3. ASSUME NEW r \in Run, RunStep(r) PROVE LoopBound'
  <2>1. /\ UNCHANGED <<pc, launched>>
        /\ run[r] # "idle"
        /\ \E b \in Stages \ {"idle"} : run' = [run EXCEPT ![r] = b]
    BY <1>3 DEF RunStep, RunPasses, RunFails, AppendError, AppendDuration, Release,
                Finish, Move, Stages
  <2> QED
    BY <1>1, <2>1 DEF LoopBound
<1>4. CASE UNCHANGED vars
  BY <1>1, <1>4 DEF vars, LoopBound
<1> QED
  BY <1>2, <1>3, <1>4 DEF Next, Exited

\* Every variable keeps its type; the two bounded counters need CountersMatch.
LEMMA TypeStep == Inv /\ [Next]_vars => TypeOK'
<1> SUFFICES ASSUME Inv, [Next]_vars PROVE TypeOK'
  OBVIOUS
<1>1. TypeOK /\ LoopBound /\ CountersMatch'
  BY CountersStep DEF Inv
<1>2. sem' \in Nat /\ wg' \in Nat
  BY <1>1, RunsFinite DEF CountersMatch, At
<1>3. CASE MainStep
  <2>1. CASE Lookup
    BY <1>1, <2>1, ResultType DEF Lookup, TypeOK, Places
  <2>2. CASE Admit
    BY <1>1, <1>2, <2>2 DEF Admit, TypeOK, Places
  <2>3. CASE Launch
    <3>1. launched' \in 0..Runs /\ sem' \in 0..Workers
      BY <1>1, <1>2, <2>3, StressAssumption DEF Launch, LoopBound, TypeOK
    <3>2. run' \in [Run -> Stages]
      BY <1>1, <2>3 DEF Launch, TypeOK, Stages
    <3>3. pc' \in Places /\ late' \in Nat
      BY <1>1, <2>3 DEF Launch, TypeOK, Places
    <3> QED
      BY <1>1, <2>3, <3>1, <3>2, <3>3 DEF Launch, TypeOK
  <2>4. CASE Collect
    BY <1>1, <2>4, ResultType DEF Collect, TypeOK, Places
  <2>5. CASE LeaveLoop \/ Teardown \/ Report
    BY <1>1, <2>5 DEF LeaveLoop, Teardown, Report, TypeOK, Places
  <2> QED
    BY <1>3, <2>1, <2>2, <2>3, <2>4, <2>5 DEF MainStep
<1>4. ASSUME NEW r \in Run, RunStep(r) PROVE TypeOK'
  <2>1. run' \in [Run -> Stages]
    <3>1. \E b \in Stages : run' = [run EXCEPT ![r] = b]
      BY <1>4 DEF RunStep, RunPasses, RunFails, AppendError, AppendDuration,
                  Release, Finish, Move, Stages
    <3> QED
      BY <1>1, <3>1 DEF TypeOK
  <2>2. CASE RunPasses(r) \/ RunFails(r)
    <3>1. msg' \in [Run -> Messages \cup {NoMessage}]
      BY <1>1, <2>2 DEF RunPasses, RunFails, TypeOK
    <3>2. passes' \in Nat /\ failures' \in Nat /\ late' \in Nat
      BY <1>1, <2>2 DEF RunPasses, RunFails, TypeOK
    <3>3. UNCHANGED <<failFast, pc, launched, sem, wg, errors, durations, result,
                      cleaned, exit>>
      BY <2>2 DEF RunPasses, RunFails
    <3> QED
      BY <1>1, <2>1, <3>1, <3>2, <3>3 DEF TypeOK
  <2>3. CASE AppendError(r)
    <3>1. msg[r] \in Messages \cup {NoMessage} /\ errors \in Seq(Messages)
      BY <1>1 DEF TypeOK
    <3>2. errors' \in Seq(Messages)
      BY <2>3, <3>1 DEF AppendError
    <3> QED
      BY <1>1, <2>1, <2>3, <3>2 DEF AppendError, TypeOK
  <2>4. CASE AppendDuration(r)
    BY <1>1, <2>1, <2>4 DEF AppendDuration, TypeOK
  <2>5. CASE Release(r)
    <3>1. sem' \in 0..Workers
      BY <1>1, <1>2, <2>5, StressAssumption DEF Release, TypeOK
    <3> QED
      BY <1>1, <2>1, <2>5, <3>1 DEF Release, TypeOK
  <2>6. CASE Finish(r)
    BY <1>1, <1>2, <2>1, <2>6 DEF Finish, TypeOK
  <2> QED
    BY <1>4, <2>2, <2>3, <2>4, <2>5, <2>6 DEF RunStep
<1>5. CASE UNCHANGED vars
  BY <1>1, <1>5 DEF vars, TypeOK
<1> QED
  BY <1>3, <1>4, <1>5 DEF Next, Exited

\* Nothing moves any more once the result has been built.
LEMMA ResultStep == Inv /\ [Next]_vars => ResultMatches'
<1> SUFFICES ASSUME Inv, [Next]_vars PROVE ResultMatches'
  OBVIOUS
<1>1. TypeOK /\ ResultMatches /\ LoopBound
  BY DEF Inv
<1>2. passes \in Nat /\ failures \in Nat /\ durations \in Nat /\ wg \in Nat
  BY <1>1 DEF TypeOK
<1>3. CASE MainStep
  <2>1. CASE Lookup
    <3>1. /\ pc = "lookup" /\ UNCHANGED <<failFast, launched, wg, passes, failures, durations, exit>>
          /\ \/ pc' = "check" /\ UNCHANGED result
             \/ pc' = "report" /\ result' = UnknownTest
      BY <2>1 DEF Lookup
    <3>2. CASE pc' = "check" /\ UNCHANGED result
      BY <1>1, <3>1, <3>2 DEF ResultMatches
    <3>3. CASE pc' = "report" /\ result' = UnknownTest
      <4>1. result' # NoResult
        BY <1>1, <3>3, ResultType
      <4>2. /\ result'.total = 0 /\ result'.passes = 0 /\ result'.failures = 0
            /\ result'.durations = 0
        BY <3>3 DEF UnknownTest
      <4> QED
        BY <1>1, <1>2, <3>1, <3>3, <4>1, <4>2 DEF ResultMatches
    <3> QED
      BY <3>1, <3>2, <3>3
  <2>2. CASE Admit \/ Launch
    BY <1>1, <2>2 DEF Admit, Launch, ResultMatches, FailureSeen
  <2>3. CASE LeaveLoop
    BY <1>1, <2>3 DEF LeaveLoop, ResultMatches, FailureSeen
  <2>4. CASE Collect
    <3>1. /\ result' = StressResult /\ pc' = "teardown" /\ pc = "wait" /\ wg = 0
          /\ UNCHANGED <<failFast, launched, wg, passes, failures, durations, exit>>
      BY <2>4 DEF Collect
    <3>2. result' # NoResult
      BY <1>1, <3>1, ResultType
    <3>3. /\ result'.total = passes + failures
          /\ result'.passes = passes /\ result'.failures = failures
          /\ result'.durations = durations
          /\ result'.reliability = ReliabilityStatus(passes, passes + failures)
      BY <3>1 DEF StressResult
    <3> QED
      BY <1>1, <3>1, <3>2, <3>3 DEF ResultMatches, FailureSeen, ReliabilityStatus
  <2>5. CASE Teardown
    BY <1>1, <2>5 DEF Teardown, ResultMatches, FailureSeen, ReliabilityStatus
  <2>6. CASE Report
    BY <1>1, <2>6 DEF Report, ResultMatches, FailureSeen, ReliabilityStatus
  <2> QED
    BY <1>3, <2>1, <2>2, <2>3, <2>4, <2>5, <2>6 DEF MainStep
<1>4. ASSUME NEW r \in Run, RunStep(r) PROVE ResultMatches'
  <2>1. wg # 0 /\ result = NoResult
    BY <1>4, MovingIsAwaited
  <2>2. UNCHANGED <<failFast, pc, launched, result, exit>> /\ failures' \in {failures, failures + 1}
    BY <1>4 DEF RunStep, RunPasses, RunFails, AppendError, AppendDuration, Release, Finish
  <2> QED
    BY <1>1, <1>2, <2>1, <2>2 DEF ResultMatches, FailureSeen
<1>5. CASE UNCHANGED vars
  BY <1>1, <1>5 DEF vars, ResultMatches, FailureSeen, ReliabilityStatus
<1> QED
  BY <1>3, <1>4, <1>5 DEF Next, Exited

\* Between the check of the loop head and the launch no second run gets by.
LEMMA LateStep == Inv /\ [Next]_vars => LateInv'
<1> SUFFICES ASSUME Inv, [Next]_vars PROVE LateInv'
  OBVIOUS
<1>1. TypeOK /\ LateInv /\ failures \in Nat /\ late \in Nat
  BY DEF Inv, TypeOK
<1>2. CASE MainStep
  <2>1. CASE Admit
    BY <1>1, <2>1 DEF Admit, LateInv, FailureSeen
  <2>2. CASE Launch
    BY <1>1, <2>2 DEF Launch, LateInv
  <2>3. CASE Lookup \/ LeaveLoop \/ Collect \/ Teardown \/ Report
    BY <1>1, <2>3 DEF Lookup, LeaveLoop, Collect, Teardown, Report, LateInv
  <2> QED
    BY <1>2, <2>1, <2>2, <2>3 DEF MainStep
<1>3. ASSUME NEW r \in Run, RunStep(r) PROVE LateInv'
  <2>1. UNCHANGED <<failFast, pc, late>> /\ failures' \in {failures, failures + 1}
    BY <1>3 DEF RunStep, RunPasses, RunFails, AppendError, AppendDuration, Release, Finish
  <2> QED
    BY <1>1, <2>1 DEF LateInv
<1>4. CASE UNCHANGED vars
  BY <1>1, <1>4 DEF vars, LateInv
<1> QED
  BY <1>2, <1>3, <1>4 DEF Next, Exited

\* All parts together.
LEMMA InductiveInv == Spec => []Inv
<1>1. Inv /\ [Next]_vars => Inv'
  BY TypeStep, CountersStep, LoopStep, ResultStep, LateStep DEF Inv
<1> QED
  BY InitInv, <1>1, PTL DEF Spec
-----------------------------------------------------------------------------
(***************************************************************************)
(* The theorems.                                                           *)
(***************************************************************************)
\* Type correctness: in particular the channel never holds more than Workers
\* tokens and the WaitGroup never goes below zero, which would panic.
THEOREM TypeCorrect == Spec => []TypeOK
  BY InductiveInv, PTL DEF Inv

\* At most Workers runs of the test are in progress (the semaphore).
THEOREM Bounded == Spec => []WorkerBound
<1>1. Inv => WorkerBound
  <2> SUFFICES ASSUME Inv PROVE Cardinality(At({"running"})) <= Workers
    BY DEF WorkerBound
  <2>1. At({"running"}) \in SUBSET At(Holding)
    BY DEF At, Holding, InFlight
  <2>2. Cardinality(At({"running"})) <= Cardinality(At(Holding))
    BY <2>1, RunsFinite, FS_Subset DEF At
  <2>3. Cardinality(At(Holding)) \in 0..Workers
    BY DEF Inv, TypeOK, CountersMatch
  <2>4. Cardinality(At({"running"})) \in Nat
    BY RunsFinite DEF At
  <2> QED
    BY <2>2, <2>3, <2>4, StressAssumption
<1> QED
  BY InductiveInv, <1>1, PTL

\* The result covers every launched run exactly once (wg.Wait).
THEOREM Complete == Spec => []ResultComplete
<1>1. Inv => ResultComplete
  <2> SUFFICES ASSUME Inv, result # NoResult
               PROVE  /\ At(InFlight) = {}
                      /\ result.total = launched
                      /\ result.passes + result.failures = launched
                      /\ result.durations = launched
    BY DEF ResultComplete
  <2>1. wg = 0 /\ pc # "acquire"
    BY DEF Inv, ResultMatches
  <2>2. At(InFlight) = {}
    <3>1. Cardinality(At(InFlight)) \in Nat
      BY RunsFinite DEF At
    <3>2. Cardinality(At(InFlight)) = 0
      BY <2>1, <3>1 DEF Inv, CountersMatch
    <3> QED
      BY <3>2, NoneAt
  <2>3. At(Started) = At(Ended) /\ At(Started) = At(Timed)
    BY <2>2 DEF At, Started, Ended, Timed, InFlight
  <2>4. passes + failures = launched /\ durations = launched
    BY <2>3, StartedCount DEF Inv, CountersMatch
  <2> QED
    BY <2>2, <2>4 DEF Inv, ResultMatches
<1> QED
  BY InductiveInv, <1>1, PTL

\* Exit code 0 means that all requested runs passed (runStress).
THEOREM ExitSound == Spec => []ExitMeansAllPassed
<1>1. Inv /\ ResultComplete => ExitMeansAllPassed
  <2> SUFFICES ASSUME Inv, ResultComplete, exit = 0
               PROVE  result.passes = Runs /\ result.reliability = "Stable"
    BY DEF ExitMeansAllPassed
  <2>1. pc = "exited" /\ result # NoResult
    BY DEF Inv, ResultMatches
  <2>2. result.total # 0 /\ ~(result.passes < result.total)
    BY <2>1 DEF Inv, ResultMatches
  <2>3. /\ passes \in Nat /\ failures \in Nat
        /\ result.total = passes + failures /\ result.passes = passes
        /\ launched = Runs \/ FailureSeen
        /\ result.reliability = ReliabilityStatus(passes, passes + failures)
    BY <2>1, <2>2 DEF Inv, ResultMatches, TypeOK
  <2>4. failures = 0 /\ passes # 0
    BY <2>2, <2>3
  <2>5. launched = Runs
    BY <2>3, <2>4 DEF FailureSeen
  <2>6. result.passes = Runs
    BY <2>1, <2>3, <2>4, <2>5 DEF ResultComplete
  <2>7. result.reliability = "Stable"
    BY <2>3, <2>4 DEF ReliabilityStatus
  <2> QED
    BY <2>6, <2>7
<1>2. Spec => []ResultComplete
  BY Complete
<1> QED
  BY InductiveInv, <1>1, <1>2, PTL

\* Under --fail-fast at most one run starts after a failure was counted.
THEOREM OneLate == Spec => []AtMostOneLate
<1>1. Inv => AtMostOneLate
  BY DEF Inv, LateInv, AtMostOneLate
<1> QED
  BY InductiveInv, <1>1, PTL

\* after_all and the cleanup of background processes wait for every run.
THEOREM TornDownLast == Spec => []TeardownAfterRuns
<1> DEFINE Cleaned == cleaned => result # NoResult
<1>1. Init => Cleaned
  BY DEF Init
<1>2. Inv /\ Cleaned /\ [Next]_vars => Cleaned'
  <2> SUFFICES ASSUME Inv, Cleaned, [Next]_vars PROVE Cleaned'
    OBVIOUS
  <2>1. TypeOK /\ ResultMatches
    BY DEF Inv
  <2>2. CASE MainStep
    <3>1. CASE Lookup \/ Collect
      BY <2>1, <3>1, ResultType DEF Lookup, Collect
    <3>2. CASE Teardown
      BY <2>1, <3>2 DEF Teardown, ResultMatches
    <3>3. CASE Admit \/ Launch \/ LeaveLoop \/ Report
      BY <3>3 DEF Admit, Launch, LeaveLoop, Report
    <3> QED
      BY <2>2, <3>1, <3>2, <3>3 DEF MainStep
  <2>3. ASSUME NEW r \in Run, RunStep(r) PROVE Cleaned'
    BY <2>3 DEF RunStep, RunPasses, RunFails, AppendError, AppendDuration, Release, Finish
  <2> QED
    BY <2>2, <2>3 DEF Next, Exited, vars
<1>3. ResultComplete /\ Cleaned => TeardownAfterRuns
  BY DEF ResultComplete, TeardownAfterRuns, At, Holding
<1>4. Spec => []ResultComplete
  BY Complete
<1> QED
  BY InductiveInv, <1>1, <1>2, <1>3, <1>4, PTL DEF Spec
-----------------------------------------------------------------------------
(***************************************************************************)
(* RunLifecycleHooks and the processes its hooks start.                    *)
(*                                                                         *)
(* The properties of failed hooks and of live processes are not inductive  *)
(* by themselves: one has to know that nothing has happened yet to the     *)
(* hooks the loop has not reached, and what the hook in progress is.       *)
(***************************************************************************)
InProgress == place \in {"foreground", "port", "capture"}

\* The hook in progress, and the hooks that have not had their turn.
LoopInv ==
  /\ InProgress => /\ i <= Len(hooks) /\ i \in ran /\ hooks[i].command
                   /\ hooks[i].alwaysRun \/ firstErr = 0
                   /\ hooks[i].background <=> place # "foreground"
                   /\ i \notin captured
  /\ place \notin {"loop", "foreground", "port", "capture"} => i = Len(hooks) + 1
  /\ \A h \in ran : h < i \/ (h = i /\ InProgress)
  /\ \A h \in failed : h < i
  /\ captured \subseteq ran
  /\ \A h \in Positions : proc[h] # "none" => h \in ran

\* After the cleanup no process is registered.
CleanupInv == place = "finished" /\ stress => registry = {}

HooksInv ==
  /\ HooksTypeOK /\ LoopInv /\ SkipRule /\ FailedHookLeavesNothing /\ NoUntrackedProcess
  /\ CleanupInv

\* The caller's steps after the loop.
Closing == ReturnFromHooks \/ TestsEnd \/ SendSigterm \/ SendSigkill
-----------------------------------------------------------------------------
\* A list of hooks has at most MaxHooks of them.
LEMMA HookPositions ==
  ASSUME HooksTypeOK
  PROVE  /\ Len(hooks) \in Nat /\ Len(hooks) <= MaxHooks /\ MaxHooks \in Nat
         /\ \A h \in 1..Len(hooks) : h \in Positions /\ hooks[h] \in Hook
<1>1. hooks \in Seq(Hook) /\ Len(hooks) <= MaxHooks /\ MaxHooks \in Nat
  BY LifecycleAssumption DEF HooksTypeOK
<1> QED
  BY <1>1 DEF Positions

LEMMA HooksInitInv == HooksInit => HooksInv
<1> SUFFICES ASSUME HooksInit PROVE HooksInv
  OBVIOUS
<1>1. Len(hooks) \in Nat
  BY LifecycleAssumption DEF HooksInit
<1>2. HooksTypeOK
  BY <1>1 DEF HooksInit, HooksTypeOK, HookPlaces
<1>3. LoopInv /\ CleanupInv
  BY DEF HooksInit, LoopInv, CleanupInv, InProgress
<1>4. SkipRule
  BY DEF HooksInit, SkipRule
<1>5. FailedHookLeavesNothing /\ NoUntrackedProcess
  BY DEF HooksInit, FailedHookLeavesNothing, NoUntrackedProcess, Alive
<1> QED
  BY <1>2, <1>3, <1>4, <1>5 DEF HooksInv

\* The loop goes on after the hook it has just executed or tried to.
LEMMA NextHookStep ==
  ASSUME HooksTypeOK, SkipRule, NEW ok \in BOOLEAN, NextHook(ok), UNCHANGED hooks,
         i <= Len(hooks), \A h \in failed : h < i, ran \cup {i} = ran',
         \A h \in ran : h <= i,
         hooks[i].command, hooks[i].alwaysRun \/ firstErr = 0
  PROVE  /\ SkipRule' /\ place' = "loop" /\ i' = i + 1 /\ i' \in 1..(Len(hooks) + 1)
         /\ firstErr' \in 0..Len(hooks) /\ failed' \in SUBSET Positions
         /\ failed' = IF ok THEN failed ELSE failed \cup {i}
<1>1. /\ i \in 1..Len(hooks) /\ i \in Positions /\ Len(hooks) \in Nat
      /\ firstErr \in 0..Len(hooks) /\ failed \in SUBSET Positions /\ ran \in SUBSET Positions
  BY HookPositions DEF HooksTypeOK, Positions
<1>2. /\ i' = i + 1 /\ place' = "loop" /\ failed' = (IF ok THEN failed ELSE failed \cup {i})
      /\ firstErr' = IF ok \/ firstErr # 0 THEN firstErr ELSE i
  BY DEF NextHook
<1>3. \A h \in Positions : h \in Int
  BY DEF Positions
<1>4. /\ failed' = {} <=> firstErr' = 0
      /\ firstErr' # 0 => firstErr' \in failed' /\ \A f \in failed' : firstErr' <= f
  BY <1>1, <1>2, <1>3 DEF SkipRule
<1>5. ASSUME NEW h \in 1..i
      PROVE  h \in ran' <=> hooks[h].command /\ (hooks[h].alwaysRun \/ \A f \in failed' : f >= h)
  <2>1. CASE h = i
    BY <1>1, <1>2, <1>3, <2>1 DEF SkipRule
  <2>2. CASE h # i
    <3>1. h \in 1..(i - 1)
      BY <1>1, <2>2
    <3>2. h \in ran' <=> h \in ran
      BY <2>2
    <3>3. (\A f \in failed' : f >= h) <=> (\A f \in failed : f >= h)
      BY <1>1, <1>2, <3>1
    <3> QED
      BY <3>1, <3>2, <3>3 DEF SkipRule
  <2> QED
    BY <2>1, <2>2
<1>6. 1..(i' - 1) = 1..i
  BY <1>1, <1>2
<1>7. SkipRule'
  BY <1>4, <1>5, <1>6 DEF SkipRule
<1> QED
  BY <1>1, <1>2, <1>7

\* What the state of a process may become without a step of the caller.
LEMMA ProcessStep ==
  ASSUME HooksInv, place # "finished", NEW h \in Positions, Process(h)
  PROVE  HooksInv'
<1>1. /\ UNCHANGED <<hooks, foreign, stress, place, i, firstErr, failed, ran, captured, registry>>
      /\ proc \in [Positions -> Alive \cup {"none", "succeeded", "exited", "killed"}]
      /\ ctx \in [Positions -> {"none", "live", "expired", "cancelled"}]
  BY DEF Process, Listen, Exit, Expire, KilledByContext, hookVars, HooksInv, HooksTypeOK
<1>2. /\ ctx' \in [Positions -> {"none", "live", "expired", "cancelled"}]
      /\ \/ proc' = proc
         \/ /\ proc[h] \in Alive
            /\ \E how \in {"listening", "succeeded", "exited", "killed"} :
                 proc' = [proc EXCEPT ![h] = how]
  BY <1>1 DEF Process, Listen, Exit, Expire, KilledByContext, Alive
<1>3. /\ proc' \in [Positions -> Alive \cup {"none", "succeeded", "exited", "killed"}]
      /\ \A g \in Positions : proc'[g] \in Alive => proc[g] \in Alive
      /\ \A g \in Positions : proc'[g] # "none" => proc[g] # "none"
  BY <1>1, <1>2 DEF Alive
<1>4. HooksTypeOK'
  BY <1>1, <1>2, <1>3 DEF HooksInv, HooksTypeOK
<1>5. LoopInv' /\ SkipRule' /\ CleanupInv'
  BY <1>1, <1>3 DEF HooksInv, LoopInv, InProgress, SkipRule, CleanupInv
<1>6. FailedHookLeavesNothing'
  <2> SUFFICES ASSUME NEW g \in failed, hooks[g].background
               PROVE  proc'[g] \notin Alive /\ g \notin captured
    BY <1>1 DEF FailedHookLeavesNothing
  <2>1. g \in Positions
    BY DEF HooksInv, HooksTypeOK
  <2> QED
    BY <1>3, <2>1 DEF HooksInv, FailedHookLeavesNothing
<1>7. NoUntrackedProcess'
  BY <1>1, <1>3 DEF HooksInv, NoUntrackedProcess
<1> QED
  BY <1>4, <1>5, <1>6, <1>7 DEF HooksInv

\* The loop passes over a hook without a command or after an error.
LEMMA SkipStep == HooksInv /\ SkipHook => HooksInv'
<1> SUFFICES ASSUME HooksInv, SkipHook PROVE HooksInv'
  OBVIOUS
<1>1. /\ place = "loop" /\ i <= Len(hooks) /\ Skipped(i) /\ i' = i + 1
      /\ UNCHANGED <<hooks, foreign, stress, place, firstErr, failed, ran, captured,
                     proc, ctx, registry>>
  BY DEF SkipHook, InLoop, procVars
<1>2. /\ i \in 1..Len(hooks) /\ Len(hooks) \in Nat /\ HooksTypeOK
      /\ failed \subseteq Positions /\ ran \subseteq Positions
  BY <1>1, HookPositions DEF HooksInv, HooksTypeOK
<1>3. HooksTypeOK'
  BY <1>1, <1>2 DEF HooksTypeOK
<1>4. \A h \in ran : h < i /\ h \in Int
  BY <1>1, <1>2 DEF HooksInv, LoopInv, InProgress, Positions
<1>5. LoopInv' /\ CleanupInv'
  <2>1. \A h \in ran : h < i + 1
    BY <1>2, <1>4
  <2>2. \A h \in failed : h < i + 1
    BY <1>2 DEF HooksInv, LoopInv, Positions
  <2> QED
    BY <1>1, <2>1, <2>2 DEF HooksInv, LoopInv, InProgress, CleanupInv
<1>6. SkipRule'
  <2>1. i \notin ran
    BY <1>2, <1>4
  <2>2. ~(hooks[i].command /\ (hooks[i].alwaysRun \/ \A f \in failed : f >= i))
    <3>1. ASSUME firstErr # 0 PROVE firstErr \in failed /\ ~(firstErr >= i)
      <4>1. firstErr \in failed
        BY <3>1 DEF HooksInv, SkipRule
      <4>2. firstErr < i
        BY <4>1 DEF HooksInv, LoopInv
      <4>3. firstErr \in Int /\ i \in Int
        BY <1>2 DEF HooksTypeOK
      <4> QED
        BY <4>1, <4>2, <4>3
    <3> QED
      BY <1>1, <3>1 DEF Skipped
  <2>3. \A h \in 1..i : h = i \/ h \in 1..(i - 1)
    BY <1>2
  <2>4. 1..(i' - 1) = 1..i
    BY <1>1, <1>2
  <2> QED
    BY <1>1, <2>1, <2>2, <2>3, <2>4 DEF HooksInv, SkipRule
<1>7. FailedHookLeavesNothing' /\ NoUntrackedProcess'
  BY <1>1 DEF HooksInv, FailedHookLeavesNothing, NoUntrackedProcess
<1> QED
  BY <1>3, <1>5, <1>6, <1>7 DEF HooksInv

\* The process of a hook cannot be started: nothing is left of it.
LEMMA StartFailsStep == HooksInv /\ StartFails => HooksInv'
<1> SUFFICES ASSUME HooksInv, StartFails PROVE HooksInv'
  OBVIOUS
<1>1. /\ place = "loop" /\ i <= Len(hooks) /\ ~Skipped(i) /\ ran' = ran \cup {i}
      /\ ctx' = [ctx EXCEPT ![i] = "live"] /\ NextHook(FALSE)
      /\ UNCHANGED <<hooks, foreign, stress, captured, proc, registry>>
  BY DEF StartFails, InLoop
<1>2. /\ i \in 1..Len(hooks) /\ i \in Positions /\ Len(hooks) \in Nat /\ HooksTypeOK /\ SkipRule
      /\ failed \subseteq Positions /\ ran \subseteq Positions
      /\ \A h \in Positions : h \in Int
  BY <1>1, HookPositions DEF HooksInv, HooksTypeOK, Positions
<1>3. /\ \A h \in ran : h < i
      /\ \A h \in failed : h < i
  BY <1>1 DEF HooksInv, LoopInv, InProgress
<1>4. \A h \in ran : h <= i
  BY <1>2, <1>3
<1>5. hooks[i].command /\ (hooks[i].alwaysRun \/ firstErr = 0)
  BY <1>1 DEF Skipped
<1>6. /\ SkipRule' /\ place' = "loop" /\ i' = i + 1 /\ i' \in 1..(Len(hooks) + 1)
      /\ firstErr' \in 0..Len(hooks) /\ failed' \in SUBSET Positions
      /\ failed' = failed \cup {i}
  BY <1>1, <1>2, <1>3, <1>4, <1>5, NextHookStep
<1>7. HooksTypeOK'
  BY <1>1, <1>2, <1>6 DEF HooksTypeOK, HookPlaces
<1>8. LoopInv' /\ CleanupInv'
  <2>1. /\ \A h \in ran' : h < i + 1
        /\ \A h \in failed' : h < i + 1
    BY <1>1, <1>2, <1>3, <1>6
  <2> QED
    BY <1>1, <1>6, <2>1 DEF HooksInv, LoopInv, InProgress, CleanupInv
<1>9. FailedHookLeavesNothing'
  <2>1. proc[i] = "none" /\ i \notin captured
    BY <1>2, <1>3 DEF HooksInv, LoopInv
  <2> QED
    BY <1>1, <1>6, <2>1 DEF HooksInv, FailedHookLeavesNothing, Alive
<1>10. NoUntrackedProcess'
  BY <1>1, <1>6 DEF HooksInv, NoUntrackedProcess
<1> QED
  BY <1>6, <1>7, <1>8, <1>9, <1>10 DEF HooksInv

\* A process is started, and registered if it is a background process.
LEMMA StartStep == HooksInv /\ StartHook => HooksInv'
<1> SUFFICES ASSUME HooksInv, StartHook PROVE HooksInv'
  OBVIOUS
<1>1. /\ place = "loop" /\ i <= Len(hooks) /\ ~Skipped(i) /\ ran' = ran \cup {i}
      /\ ctx' = [ctx EXCEPT ![i] = "live"] /\ proc' = [proc EXCEPT ![i] = "up"]
      /\ registry' = (IF hooks[i].background THEN registry \cup {i} ELSE registry)
      /\ place' = (IF ~hooks[i].background THEN "foreground"
                ELSE IF hooks[i].waitForPort THEN "port" ELSE "capture")
      /\ UNCHANGED <<hooks, foreign, stress, i, firstErr, failed, captured>>
  BY DEF StartHook, InLoop
<1>2. /\ i \in 1..Len(hooks) /\ i \in Positions /\ hooks[i] \in Hook /\ HooksTypeOK
      /\ failed \subseteq Positions /\ ran \subseteq Positions
      /\ \A h \in Positions : h \in Int
      /\ proc \in [Positions -> Alive \cup {"none", "succeeded", "exited", "killed"}]
  BY <1>1, HookPositions DEF HooksInv, HooksTypeOK, Positions
<1>3. HooksTypeOK'
  BY <1>1, <1>2 DEF HooksTypeOK, HookPlaces, Alive
<1>4. /\ \A h \in ran : h < i
      /\ \A h \in failed : h < i
  BY <1>1 DEF HooksInv, LoopInv, InProgress
<1>5. InProgress' /\ (hooks[i].background <=> place' # "foreground")
  BY <1>1, <1>2 DEF InProgress, Hook
<1>6. LoopInv'
  <2>1. hooks[i].command /\ (hooks[i].alwaysRun \/ firstErr = 0)
    BY <1>1 DEF Skipped
  <2>2. \A h \in Positions : proc'[h] # "none" => h \in ran'
    BY <1>1, <1>2 DEF HooksInv, LoopInv
  <2>3. \A h \in ran' : h < i \/ h = i
    BY <1>1, <1>4
  <2>4. captured' \subseteq ran' /\ i \notin captured
    BY <1>1, <1>2, <1>4 DEF HooksInv, LoopInv
  <2> QED
    BY <1>1, <1>4, <1>5, <2>1, <2>2, <2>3, <2>4 DEF LoopInv, InProgress
<1>7. SkipRule' /\ CleanupInv'
  <2>1. \A h \in 1..(i - 1) : h \in ran' <=> h \in ran
    BY <1>1, <1>2
  <2> QED
    BY <1>1, <1>5, <2>1 DEF HooksInv, SkipRule, CleanupInv, InProgress
<1>8. FailedHookLeavesNothing'
  <2>1. \A h \in failed : h # i
    BY <1>2, <1>4
  <2> QED
    BY <1>1, <1>2, <2>1 DEF HooksInv, FailedHookLeavesNothing
<1>9. NoUntrackedProcess'
  BY <1>1, <1>2 DEF HooksInv, NoUntrackedProcess
<1> QED
  BY <1>3, <1>6, <1>7, <1>8, <1>9 DEF HooksInv

\* A hook that was started comes to its end.  Its process is alive after that
\* only if it is a background process and the hook succeeded.
LEMMA EndHookStep ==
  ASSUME HooksInv, InProgress, NEW ok \in BOOLEAN, NextHook(ok),
         UNCHANGED <<hooks, foreign, stress, ran, ctx, registry>>,
         captured' \in {captured, captured \cup {i}},
         proc' \in [Positions -> Alive \cup {"none", "succeeded", "exited", "killed"}],
         \A h \in Positions : h # i => proc'[h] = proc[h],
         proc'[i] \in Alive => proc[i] \in Alive /\ hooks[i].background /\ ok,
         hooks[i].background /\ ~ok => captured' = captured
  PROVE  HooksInv'
<1>1. /\ i \in ran /\ i <= Len(hooks) /\ hooks[i].command /\ i \notin captured
      /\ hooks[i].alwaysRun \/ firstErr = 0
      /\ captured \subseteq ran
      /\ \A h \in failed : h < i
      /\ \A h \in ran : h < i \/ h = i
  BY DEF HooksInv, LoopInv
<1>2. /\ HooksTypeOK /\ SkipRule /\ ran \subseteq Positions /\ failed \subseteq Positions
      /\ Len(hooks) \in Nat /\ i \in Positions
      /\ \A h \in Positions : h \in Int
  BY <1>1, HookPositions DEF HooksInv, HooksTypeOK, Positions
<1>3. ran \cup {i} = ran' /\ UNCHANGED hooks
  BY <1>1
<1>4. \A h \in ran : h <= i
  BY <1>1, <1>2
<1>5. /\ SkipRule' /\ place' = "loop" /\ i' = i + 1 /\ i' \in 1..(Len(hooks) + 1)
      /\ firstErr' \in 0..Len(hooks) /\ failed' \in SUBSET Positions
      /\ failed' = IF ok THEN failed ELSE failed \cup {i}
  BY <1>1, <1>2, <1>3, <1>4, NextHookStep
<1>6. captured' \subseteq ran' /\ captured' \in SUBSET Positions
  BY <1>1, <1>2
<1>7. HooksTypeOK'
  BY <1>2, <1>3, <1>5, <1>6 DEF HooksTypeOK, HookPlaces
<1>8. LoopInv' /\ CleanupInv'
  <2>1. \A h \in ran' : h < i + 1
    BY <1>1, <1>2
  <2>2. \A h \in failed' : h < i + 1
    BY <1>1, <1>2, <1>5
  <2>3. \A h \in Positions : proc'[h] # "none" => h \in ran'
    BY <1>1 DEF HooksInv, LoopInv
  <2> QED
    BY <1>5, <1>6, <2>1, <2>2, <2>3 DEF LoopInv, InProgress, CleanupInv
<1>9. FailedHookLeavesNothing'
  <2> SUFFICES ASSUME NEW h \in failed', hooks[h].background
               PROVE  proc'[h] \notin Alive /\ h \notin captured'
    BY <1>3 DEF FailedHookLeavesNothing
  <2>1. CASE h = i
    <3>1. ~ok
      BY <1>1, <1>2, <1>5, <2>1
    <3> QED
      BY <1>1, <2>1, <3>1
  <2>2. CASE h # i
    BY <1>2, <1>5, <2>2 DEF HooksInv, FailedHookLeavesNothing
  <2> QED
    BY <2>1, <2>2
<1>10. NoUntrackedProcess'
  <2> SUFFICES ASSUME NEW h \in Positions, proc'[h] \in Alive
               PROVE  hooks[h].background /\ h \in registry
    BY DEF NoUntrackedProcess
  <2>1. proc[h] \in Alive /\ (h = i => hooks[h].background)
    OBVIOUS
  <2>2. h # i => hooks[h].background
    BY <2>1 DEF HooksInv, NoUntrackedProcess
  <2> QED
    BY <2>1, <2>2 DEF HooksInv, NoUntrackedProcess
<1> QED
  BY <1>5, <1>7, <1>8, <1>9, <1>10 DEF HooksInv

\* The command of a foreground hook has returned.
LEMMA ForegroundStep == HooksInv /\ ForegroundEnds => HooksInv'
<1> SUFFICES ASSUME HooksInv, ForegroundEnds PROVE HooksInv'
  OBVIOUS
<1>1. /\ place = "foreground" /\ proc[i] \notin Alive /\ NextHook(proc[i] = "succeeded")
      /\ captured' \in {captured, captured \cup {i}}
      /\ UNCHANGED <<hooks, foreign, stress, ran, ctx, registry>> /\ UNCHANGED proc
  BY DEF ForegroundEnds, Capture, procVars
<1>2. InProgress /\ ~hooks[i].background /\ HooksTypeOK
  BY <1>1 DEF HooksInv, LoopInv, InProgress
<1>3. proc' \in [Positions -> Alive \cup {"none", "succeeded", "exited", "killed"}]
  BY <1>1, <1>2 DEF HooksTypeOK
<1>4. PICK ok \in BOOLEAN : ok = (proc[i] = "succeeded")
  OBVIOUS
<1>5. NextHook(ok)
  BY <1>1, <1>4
<1> QED
  BY <1>1, <1>2, <1>3, <1>5, EndHookStep

\* The port of a background hook did not open in time.
LEMMA PortTimesOutStep == HooksInv /\ PortTimesOut => HooksInv'
<1> SUFFICES ASSUME HooksInv, PortTimesOut PROVE HooksInv'
  OBVIOUS
<1>1. /\ place = "port" /\ NextHook(FALSE)
      /\ proc' = [proc EXCEPT ![i] = IF @ \in Alive THEN "killed" ELSE @]
      /\ UNCHANGED <<hooks, foreign, stress, ran, ctx, registry>> /\ UNCHANGED captured
  BY DEF PortTimesOut
<1>2. InProgress /\ i \in Positions
  BY <1>1 DEF HooksInv, LoopInv, HooksTypeOK, InProgress
<1>3. proc \in [Positions -> Alive \cup {"none", "succeeded", "exited", "killed"}]
  BY DEF HooksInv, HooksTypeOK
<1>4. /\ proc' \in [Positions -> Alive \cup {"none", "succeeded", "exited", "killed"}]
      /\ proc'[i] \notin Alive
      /\ \A h \in Positions : h # i => proc'[h] = proc[h]
  BY <1>1, <1>2, <1>3 DEF Alive
<1> QED
  BY <1>1, <1>2, <1>4, EndHookStep

\* The output of a background hook was read.
LEMMA CaptureStep == HooksInv /\ CaptureBackground => HooksInv'
<1> SUFFICES ASSUME HooksInv, CaptureBackground PROVE HooksInv'
  OBVIOUS
<1>1. /\ place = "capture" /\ NextHook(TRUE) /\ captured' \in {captured, captured \cup {i}}
      /\ UNCHANGED <<hooks, foreign, stress, ran, ctx, registry>> /\ UNCHANGED proc
  BY DEF CaptureBackground, Capture, procVars
<1>2. InProgress /\ hooks[i].background
  BY <1>1 DEF HooksInv, LoopInv, InProgress
<1>3. proc' \in [Positions -> Alive \cup {"none", "succeeded", "exited", "killed"}]
  BY <1>1 DEF HooksInv, HooksTypeOK
<1> QED
  BY <1>1, <1>2, <1>3, EndHookStep

\* The port of a background hook has opened.
LEMMA PortReadyStep == HooksInv /\ PortReady => HooksInv'
<1> SUFFICES ASSUME HooksInv, PortReady PROVE HooksInv'
  OBVIOUS
<1>1. /\ place = "port" /\ place' = "capture"
      /\ UNCHANGED <<hooks, foreign, stress, i, firstErr, failed, ran, captured,
                     proc, ctx, registry>>
  BY DEF PortReady, hookVars, procVars
<1>2. HooksTypeOK'
  BY <1>1 DEF HooksInv, HooksTypeOK, HookPlaces
<1>3. LoopInv' /\ CleanupInv' /\ SkipRule'
  BY <1>1 DEF HooksInv, LoopInv, InProgress, CleanupInv, SkipRule
<1>4. FailedHookLeavesNothing' /\ NoUntrackedProcess'
  BY <1>1 DEF HooksInv, FailedHookLeavesNothing, NoUntrackedProcess
<1> QED
  BY <1>2, <1>3, <1>4 DEF HooksInv

\* After the loop the caller starts nothing, and forgets only dead processes.
LEMMA ClosingStep == HooksInv /\ Closing => HooksInv'
<1> SUFFICES ASSUME HooksInv, Closing PROVE HooksInv'
  OBVIOUS
<1>1. /\ UNCHANGED <<hooks, foreign, stress, i, firstErr, failed, ran, captured>>
      /\ place \notin {"foreground", "port", "capture", "finished"}
      /\ place' \in {"tests", "sigterm", "sigkill", "finished"}
      /\ place = "loop" => i > Len(hooks)
      /\ place' = "finished" => registry' = {} \/ ~stress
  BY DEF Closing, ReturnFromHooks, TestsEnd, SendSigterm, SendSigkill, hookVars, procVars
<1>2. /\ proc \in [Positions -> Alive \cup {"none", "succeeded", "exited", "killed"}]
      /\ ctx \in [Positions -> {"none", "live", "expired", "cancelled"}]
      /\ registry \in SUBSET Positions /\ i \in 1..(Len(hooks) + 1) /\ Len(hooks) \in Nat
  BY HookPositions DEF HooksInv, HooksTypeOK
<1>3. /\ proc' \in [Positions -> Alive \cup {"none", "succeeded", "exited", "killed"}]
      /\ ctx' \in [Positions -> {"none", "live", "expired", "cancelled"}]
      /\ registry' \in SUBSET Positions
      /\ \A h \in Positions : proc'[h] # "none" => proc[h] # "none"
      /\ \A h \in Positions : proc'[h] \in Alive => proc[h] \in Alive
      /\ \A h \in Positions : proc'[h] \in Alive /\ h \in registry => h \in registry'
  <2>1. CASE ReturnFromHooks \/ TestsEnd
    BY <1>2, <2>1 DEF ReturnFromHooks, TestsEnd, procVars
  <2>2. CASE SendSigterm
    BY <1>2, <2>2 DEF SendSigterm, Alive
  <2>3. CASE SendSigkill
    BY <1>2, <2>3 DEF SendSigkill, Alive
  <2> QED
    BY <2>1, <2>2, <2>3 DEF Closing
<1>4. HooksTypeOK'
  BY <1>1, <1>3 DEF HooksInv, HooksTypeOK, HookPlaces
<1>5. LoopInv' /\ CleanupInv' /\ SkipRule'
  <2>1. i = Len(hooks) + 1
    BY <1>1, <1>2 DEF HooksInv, LoopInv, HooksTypeOK, HookPlaces
  <2>2. SkipRule'
    BY <1>1 DEF HooksInv, SkipRule
  <2>3. CleanupInv'
    BY <1>1 DEF CleanupInv
  <2>4. LoopInv'
    BY <1>1, <1>3, <2>1 DEF HooksInv, LoopInv, InProgress
  <2> QED
    BY <2>2, <2>3, <2>4
<1>6. FailedHookLeavesNothing'
  <2> SUFFICES ASSUME NEW h \in failed, hooks[h].background
               PROVE  proc'[h] \notin Alive /\ h \notin captured
    BY <1>1 DEF FailedHookLeavesNothing
  <2>1. h \in Positions
    BY DEF HooksInv, HooksTypeOK
  <2> QED
    BY <1>3, <2>1 DEF HooksInv, FailedHookLeavesNothing
<1>7. NoUntrackedProcess'
  BY <1>1, <1>3 DEF HooksInv, NoUntrackedProcess
<1> QED
  BY <1>4, <1>5, <1>6, <1>7 DEF HooksInv
-----------------------------------------------------------------------------
\* HooksInv is inductive.
LEMMA HooksInductive == HooksSpec => []HooksInv
<1>1. HooksInv /\ [HooksNext]_lifecycleVars => HooksInv'
  <2> SUFFICES ASSUME HooksInv, [HooksNext]_lifecycleVars PROVE HooksInv'
    OBVIOUS
  <2>1. CASE Caller
    <3>1. \/ SkipHook \/ StartFails \/ StartHook \/ ForegroundEnds \/ PortReady
          \/ PortTimesOut \/ CaptureBackground \/ Closing
      BY <2>1 DEF Caller, Closing
    <3> QED
      BY <3>1, SkipStep, StartFailsStep, StartStep, ForegroundStep, PortReadyStep,
         PortTimesOutStep, CaptureStep, ClosingStep
  <2>2. CASE place # "finished" /\ \E h \in Positions : Process(h)
    BY <2>2, ProcessStep
  <2>3. CASE UNCHANGED lifecycleVars
    <3>1. UNCHANGED <<hooks, foreign, stress, place, i, firstErr, failed, ran, captured,
                      proc, ctx, registry>>
      BY <2>3 DEF lifecycleVars
    <3>2. HooksTypeOK' /\ LoopInv' /\ CleanupInv'
      BY <3>1 DEF HooksInv, HooksTypeOK, LoopInv, InProgress, CleanupInv
    <3>3. SkipRule' /\ FailedHookLeavesNothing' /\ NoUntrackedProcess'
      BY <3>1 DEF HooksInv, SkipRule, FailedHookLeavesNothing, NoUntrackedProcess
    <3> QED
      BY <3>2, <3>3 DEF HooksInv
  <2> QED
    BY <2>1, <2>2, <2>3 DEF HooksNext, Finished
<1> QED
  BY HooksInitInv, <1>1, PTL DEF HooksSpec

(***************************************************************************)
(* The index stays within the list of hooks and its one successor, also    *)
(* while the error paths of RunLifecycleHooks go on with the loop.         *)
(***************************************************************************)
THEOREM HooksTypeCorrect == HooksSpec => []HooksTypeOK
<1>1. HooksInv => HooksTypeOK
  BY DEF HooksInv
<1> QED
  BY HooksInductive, <1>1, PTL

(***************************************************************************)
(* always_run and earlier failures alone decide what is executed, and the  *)
(* first error is the one RunLifecycleHooks returns, for every list.       *)
(***************************************************************************)
THEOREM HooksSkipped == HooksSpec => []SkipRule
<1>1. HooksInv => SkipRule
  BY DEF HooksInv
<1> QED
  BY HooksInductive, <1>1, PTL

(***************************************************************************)
(* A background hook that failed has no live process and has given the     *)
(* tests no variables (the error path of waitForPort).                     *)
(***************************************************************************)
THEOREM FailedHooks == HooksSpec => []FailedHookLeavesNothing
<1>1. HooksInv => FailedHookLeavesNothing
  BY DEF HooksInv
<1> QED
  BY HooksInductive, <1>1, PTL

(***************************************************************************)
(* backgroundProcesses never misses a live background process.             *)
(***************************************************************************)
THEOREM Tracked == HooksSpec => []NoUntrackedProcess
<1>1. HooksInv => NoUntrackedProcess
  BY DEF HooksInv
<1> QED
  BY HooksInductive, <1>1, PTL

(***************************************************************************)
(* CleanupBackgroundProcesses leaves no process of a hook to a stress test *)
(* that has ended, whether or not the processes obey SIGTERM.              *)
(***************************************************************************)
THEOREM StressClean == HooksSpec => []StressLeavesNoProcess
<1>1. HooksInv => StressLeavesNoProcess
  BY DEF HooksInv, CleanupInv, NoUntrackedProcess, StressLeavesNoProcess
<1> QED
  BY HooksInductive, <1>1, PTL
=============================================================================

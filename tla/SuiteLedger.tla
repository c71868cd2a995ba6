---------------------------- MODULE SuiteLedger -----------------------------
(***************************************************************************)
(* What a run of the suite promises to whoever reads its summary, without  *)
(* saying how tests are scheduled, retried or torn down: every selected    *)
(* test gets one verdict, which never changes; after a failure under       *)
(* fail-fast the remaining verdicts are "skipped"; and the one summary     *)
(* that is published is the tally of all the verdicts.                     *)
(***************************************************************************)
EXTENDS Integers, FiniteSets

CONSTANTS
  Tests,     \* the tests of the configuration
  NoReport   \* the value of report before anything is published

VARIABLES
  plan,      \* the tests selected for this run
  failFast,  \* whether the run stops at the first failure
  verdict,   \* verdict[t]: what has been decided about t
  report     \* the published summary

ledgerVars == <<plan, failFast, verdict, report>>

Verdicts == {"passed", "failed", "skipped", "allowed"}

With(v) == {t \in plan : verdict[t] = v}

LedgerInit ==
  /\ plan = {}
  /\ failFast \in BOOLEAN
  /\ verdict = [t \in Tests |-> "none"]
  /\ report = NoReport

\* The tests of the run are fixed before the first verdict.
Plan ==
  /\ plan = {}
  /\ plan' \in SUBSET Tests
  /\ UNCHANGED <<failFast, verdict, report>>

Decide(t, v) ==
  /\ report = NoReport
  /\ t \in plan
  /\ verdict[t] = "none"
  /\ failFast /\ With("failed") # {} => v = "skipped"
  /\ verdict' = [verdict EXCEPT ![t] = v]
  /\ UNCHANGED <<plan, failFast, report>>

Publish ==
  /\ report = NoReport
  /\ \A t \in plan : verdict[t] # "none"
  /\ report' = [total   |-> Cardinality(plan),
                passed  |-> Cardinality(With("passed")),
                failed  |-> Cardinality(With("failed")),
                skipped |-> Cardinality(With("skipped")),
                allowed |-> Cardinality(With("allowed"))]
  /\ UNCHANGED <<plan, failFast, verdict>>

LedgerNext ==
  \/ Plan
  \/ \E t \in Tests, v \in Verdicts : Decide(t, v)
  \/ Publish

LedgerSpec == LedgerInit /\ [][LedgerNext]_ledgerVars
=============================================================================

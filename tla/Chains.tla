------------------------------- MODULE Chains -------------------------------
(***************************************************************************)
(* Chain detection: which of the selected tests read, in their command or  *)
(* in an assertion, a variable that another selected test extracts         *)
(* (internal/runner/varstore.go).  Run forces sequential execution as soon *)
(* as one chain exists.  A test is its index in the configuration; what a  *)
(* test extracts and what it references are sets of variable names.        *)
(***************************************************************************)
EXTENDS Integers, FiniteSets

CONSTANTS
  N,         \* number of tests in the configuration
  Extracts,  \* Extracts[t]: the variables test t extracts
  Refs       \* Refs[t]: the variables test t references as {{ .Vars.X }}

Tests == 1..N

(***************************************************************************)
(* The variables table of detectChains: the later extractor of a variable  *)
(* overwrites the earlier one, so only the last of S is remembered.        *)
(***************************************************************************)
IsExtractor(S, v, t) ==
  /\ t \in S
  /\ v \in Extracts[t]
  /\ \A u \in S : v \in Extracts[u] => u <= t

\* deps[t]: the extractors, other than t itself, of what t references
Deps(S, t) ==
  {u \in S \ {t} : \E v \in Refs[t] : IsExtractor(S, v, u)}

(***************************************************************************)
(* detectChains returns the connected components with more than one test;  *)
(* there is one as soon as some test depends on another.                   *)
(***************************************************************************)
HasChain(S) == \E t \in S : Deps(S, t) # {}
=============================================================================

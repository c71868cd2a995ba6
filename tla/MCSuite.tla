------------------------------- MODULE MCSuite ------------------------------
(***************************************************************************)
(* Four tests for TLC: the first is retried and stops on a confirmed      *)
(* trace, the second may fail, the third reads what the first extracts.    *)
(***************************************************************************)
EXTENDS Suite

MCExtracts == <<{"token"}, {}, {}, {}>>
MCRefs == <<{}, {}, {"token"}, {}>>
\* The third test refreshes the variable it reads.
ShadowExtracts == <<{"token"}, {}, {"token"}, {}>>
MCRetryCount == <<2, 0, 3, 1>>
MCTraceOnly == <<TRUE, FALSE, FALSE, FALSE>>
MCAllowFailure == <<FALSE, TRUE, FALSE, FALSE>>
MCTags == <<{"a"}, {"a"}, {"b"}, {}>>

Base == [parallel |-> FALSE, failFast |-> FALSE, dryRun |-> FALSE,
         include |-> {}, exclude |-> {}, names |-> {}, has |-> {}]
Hooks == {"before_each", "after_each"}

\* Sequential, fail-fast, chained (hence sequential), dry and parallel runs.
MCOptions ==
  {[Base EXCEPT !.has = Sections],
   [Base EXCEPT !.failFast = TRUE, !.parallel = TRUE, !.has = Hooks \cup {"plugins"}],
   [Base EXCEPT !.parallel = TRUE, !.has = {"after_each", "before_all", "after_all"}],
   [Base EXCEPT !.dryRun = TRUE, !.has = Hooks],
   [Base EXCEPT !.parallel = TRUE, !.include = {"a"}, !.has = Sections],
   [Base EXCEPT !.parallel = TRUE, !.exclude = {"a"}, !.has = Hooks],
   [Base EXCEPT !.parallel = TRUE, !.names = {1, 2, 4}, !.has = {"before_each", "auth"}]}
=============================================================================

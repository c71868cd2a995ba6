---------------------------- MODULE MCLifecycle -----------------------------
(***************************************************************************)
(* All lists of up to two hooks made of the kinds that differ in control:  *)
(* plain, always_run, a server awaited on its port, a background command   *)
(* that passes its environment, and an entry without a command; and three  *)
(* lists in which a failure is followed by two more hooks.                 *)
(***************************************************************************)
EXTENDS Lifecycle

Plain == [command |-> TRUE, background |-> FALSE, waitForPort |-> FALSE,
          alwaysRun |-> FALSE, envPass |-> TRUE]
Always == [Plain EXCEPT !.alwaysRun = TRUE, !.envPass = FALSE]
Server == [Plain EXCEPT !.background = TRUE, !.waitForPort = TRUE]
Daemon == [Plain EXCEPT !.background = TRUE, !.alwaysRun = TRUE]
Empty == [Always EXCEPT !.command = FALSE]

MCHookLists ==
  UNION {[1..n -> {Plain, Always, Server, Daemon, Empty}] : n \in 0..2}
    \cup {<<Plain, Plain, Always>>, <<Server, Plain, Daemon>>, <<Server, Always, Server>>}
=============================================================================

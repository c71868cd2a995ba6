------------------------------ MODULE MCReport ------------------------------
(* Two processes in one directory.  The second is another call of the run  *)
(* command with a baseline, or one that ends at once.                      *)
EXTENDS Report

Test(name, outcome, ms) == [name |-> name, outcome |-> outcome, ms |-> ms, final |-> TRUE]
Tried(name, outcome, ms) == [Test(name, outcome, ms) EXCEPT !.final = FALSE]
MCSuiteOf(project, tests) == [project |-> project, loads |-> TRUE, ready |-> TRUE, tests |-> tests]
Call(mode, suites) ==
  [mode |-> mode, config |-> TRUE, timeout |-> TRUE, format |-> <<"json">>, on |-> "failure",
   baseline |-> FALSE, parallel |-> FALSE, suites |-> suites]

Bad   == MCSuiteOf("api", <<Test("a", "failed", 10), Test("b", "skipped", 0), Test("c", "allowed", 5)>>)
Mute  == MCSuiteOf("api", <<Test("a", "unreported", 10), Test("b", "passed", 4)>>)
Good  == MCSuiteOf("api", <<Test("a", "passed", 10), Test("b", "passed", 4)>>)
Slow  == MCSuiteOf("api", <<Test("a", "passed", 16), Test("c", "passed", 5)>>)
Other == MCSuiteOf("web", <<Test("d", "failed", 1)>>)
(* Tests that are retried.                                                 *)
Flaky    == MCSuiteOf("api", <<Tried("a", "failed", 20), Test("a", "passed", 10), Test("b", "passed", 4)>>)
Stubborn == MCSuiteOf("api", <<Tried("a", "failed", 20), Tried("a", "skipped", 0), Test("a", "failed", 10)>>)
Unmet == [Good EXCEPT !.ready = FALSE]
Gone  == [Other EXCEPT !.loads = FALSE]

Idle == [Call("run", <<Good>>) EXCEPT !.config = FALSE]
Plain == {Call("run", <<s>>) : s \in {Bad, Mute, Good, Flaky, Stubborn, Unmet}}
         \cup {[Call("run", <<s>>) EXCEPT !.parallel = TRUE, !.on = "always"] : s \in {Bad, Good, Flaky, Stubborn}}
         \cup {[Call("run", <<Good>>) EXCEPT !.timeout = FALSE],
               [Call("run", <<Good>>) EXCEPT !.format = <<"xml">>],
               [Call("run", <<Bad>>) EXCEPT !.format = <<"junit", "gha", "junit">>]}
Monorepo == {[Call("monorepo", s) EXCEPT !.on = o, !.baseline = TRUE] :
               s \in {<<Good, Other>>, <<Bad, Other>>, <<Other, Good>>, <<Good, Gone>>, <<Flaky, Other>>,
                      <<Mute, Unmet>>, << >>},
               o \in {"failure", "always", "change"}}
Loops == {[Call("watch", s) EXCEPT !.on = o, !.format = f] :
            s \in {<<Bad, Good, Bad>>, <<Good, Unmet, Mute>>, <<Stubborn, Flaky>>},
            o \in {"failure", "always", "change"}, f \in {<<"tap">>, <<"xml">>}}
Timed == {[Call("run", <<s>>) EXCEPT !.baseline = TRUE] : s \in {Bad, Good, Flaky, Slow}}

MCCalls == {<<c, Idle>> : c \in Plain \cup Monorepo \cup Loops}
           \cup {<<c, d>> : c \in Timed, d \in Timed \cup {Idle}}

(* A test that passes on its second attempt, and arguments that are bad.   *)
Retrying == {<<Call("run", <<Flaky>>), Idle>>}
Mistaken == {<<[Call("run", <<Good>>) EXCEPT !.timeout = FALSE], Idle>>,
             <<[Call("run", <<Good>>) EXCEPT !.format = <<"xml">>], Idle>>}

(* A watch loop whose first run fails and whose second run recovers.       *)
Recovering == {<<[Call("watch", <<Bad, Good>>) EXCEPT !.on = o], Idle>> : o \in {"failure", "always", "change"}}
=============================================================================

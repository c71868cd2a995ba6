---------------------------- MODULE MCDashboard -----------------------------
(***************************************************************************)
(* Five pushes: three for one project and one for another with the API     *)
(* key, one without it; a limit of one run, two seconds and one restart.   *)
(* The three are alike, so that they may be permuted.                      *)
(***************************************************************************)
EXTENDS Dashboard, TLC

CONSTANTS api, web, a1, a2, a3, w1, x1

MCPush == {a1, a2, a3, w1, x1}
MCProjectOf == [p \in MCPush |-> IF p = w1 THEN web ELSE api]
MCAuthorised == MCPush \ {x1}
Alike == Permutations({a1, a2, a3})
=============================================================================

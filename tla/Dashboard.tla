------------------------------ MODULE Dashboard -----------------------------
(***************************************************************************)
(* The portfolio dashboard: smokesig processes that push the summary of    *)
(* their run with an HTTP request (internal/reporter/push.go), and the     *)
(* server of smokesig serve --dashboard (cmd/serve.go) that stores it in   *)
(* SQLite and prunes the oldest runs of the project (internal/dashboard).  *)
(*                                                                         *)
(* A push is made once and never repeated, so a push, the request that     *)
(* carries it, the goroutine that handles the request and the row it is    *)
(* stored in have one name.  SQLite dates a row with its      *)
(* CURRENT_TIMESTAMP, whose unit is the second.                            *)
(*                                                                         *)
(* Definitions whose comments begin with "Fault:" vary the one after them  *)
(* and take no part in Spec; in its place, each must break a property.     *)
(***************************************************************************)
EXTENDS Integers, FiniteSets

CONSTANTS
  Push,        \* the pushes, a bound on their number
  Project,     \* a set of projects
  ProjectOf,   \* the project a push is made for
  Authorised,  \* pushes with the right API key and a project
  Keep,        \* maxRunsPerProject
  LastSecond,  \* a bound on the clock
  Restarts     \* a bound on the restarts of the server

ASSUME DashboardAssumption ==
  /\ IsFiniteSet(Push)
  /\ ProjectOf \in [Push -> Project]
  /\ Authorised \subseteq Push
  /\ Keep \in Nat \ {0}
  /\ LastSecond \in Nat
  /\ Restarts \in Nat

VARIABLES
  now,       \* the clock, in seconds
  server,    \* where runServe is
  grace,     \* whether the five seconds of Shutdown are over
  restarts,  \* how often the server was started anew
  push,      \* where each push is: at the client, in its handler, answered
  rows,      \* the table runs
  at,        \* the timestamp of each row
  stored,    \* history: pushes that were inserted
  unpruned   \* history: pushes inserted since the last prune of their project

serverVars == <<server, grace, restarts>>
dbVars == <<rows, at, stored, unpruned>>
vars == <<now, serverVars, push, dbVars>>

\* The pushes whose goroutine has not answered yet.
InFlight == {p \in Push : push[p] \in {"received", "inserted", "pruned"}}
Of(project) == {p \in Push : ProjectOf[p] = project}

Init ==
  /\ now = 0
  /\ server = "up"
  /\ grace = FALSE
  /\ restarts = 0
  /\ push = [p \in Push |-> "sent"]
  /\ rows = {}
  /\ at = [p \in Push |-> 0]
  /\ stored = {}
  /\ unpruned = {}

Tick ==
  /\ now < LastSecond
  /\ now' = now + 1
  /\ UNCHANGED <<serverVars, push, dbVars>>
-----------------------------------------------------------------------------
(***************************************************************************)
(* PushReporter.Summary: one request, and a warning unless it is accepted. *)
(* A client that has stopped waiting warns, too; the handler does not look *)
(* at the context of the request and goes on, so that it is enough to      *)
(* decide with the answer whether the client still hears it.               *)
(***************************************************************************)
Goto(p, s) == push' = [push EXCEPT ![p] = s]

\* No server, or the timeout before the request is read.
GiveUp(p) ==
  /\ push[p] = "sent"
  /\ Goto(p, "warned")
  /\ UNCHANGED <<now, serverVars, dbVars>>
-----------------------------------------------------------------------------
(***************************************************************************)
(* handleResults and InsertRun.  Each statement is atomic in SQLite, and   *)
(* fails when the database is locked by another connection or closed.      *)
(***************************************************************************)
\* Shutdown lets a connection that was accepted before it send its request.
Receive(p) ==
  /\ push[p] = "sent"
  /\ Goto(p, "received")
  /\ UNCHANGED <<now, serverVars, dbVars>>

\* 403 or 400.
Reject(p) ==
  /\ push[p] = "received"
  /\ p \notin Authorised
  /\ Goto(p, "warned")
  /\ UNCHANGED <<now, serverVars, dbVars>>

\* Fault: the request is accepted before its run is stored.
InsertLater(p) ==
  /\ push[p] = "received"
  /\ p \in Authorised
  /\ server # "closed"
  /\ Goto(p, "pruned")
  /\ UNCHANGED <<now, serverVars, dbVars>>

Insert(p) ==
  /\ push[p] = "received"
  /\ p \in Authorised
  /\ server # "closed"
  /\ rows' = rows \cup {p}
  /\ at' = [at EXCEPT ![p] = now]
  /\ stored' = stored \cup {p}
  /\ unpruned' = unpruned \cup {p}
  /\ Goto(p, "inserted")
  /\ UNCHANGED <<now, serverVars>>

\* 500.
InsertFails(p) ==
  /\ push[p] = "received"
  /\ p \in Authorised
  /\ Goto(p, "warned")
  /\ UNCHANGED <<now, serverVars, dbVars>>

\* Fault: the oldest rows are kept.
NewestOldest(S) ==
  {K \in SUBSET S :
     /\ Cardinality(K) <= Keep
     /\ Cardinality(K) = Keep \/ K = S
     /\ \A k \in K, d \in S \ K : at[k] <= at[d]}

\* Fault: one row too many is kept.
NewestAndOne(S) ==
  {K \in SUBSET S :
     /\ Cardinality(K) <= Keep + 1
     /\ Cardinality(K) = Keep + 1 \/ K = S
     /\ \A k \in K, d \in S \ K : at[d] <= at[k]}

\* ORDER BY timestamp DESC LIMIT Keep, which leaves the order of rows of one
\* second open.
Newest(S) ==
  {K \in SUBSET S :
     /\ Cardinality(K) <= Keep
     /\ Cardinality(K) = Keep \/ K = S
     /\ \A k \in K, d \in S \ K : at[d] <= at[k]}

Prune(p) ==
  /\ push[p] = "inserted"
  /\ server # "closed"
  /\ \E K \in Newest(rows \cap Of(ProjectOf[p])) :
       rows' = (rows \ Of(ProjectOf[p])) \cup K
  /\ unpruned' = unpruned \ Of(ProjectOf[p])
  /\ Goto(p, "pruned")
  /\ UNCHANGED <<now, serverVars, at, stored>>

\* pruneProject looks at no error.
PruneFails(p) ==
  /\ push[p] = "inserted"
  /\ Goto(p, "pruned")
  /\ UNCHANGED <<now, serverVars, dbVars>>

\* 202.
Accept(p) ==
  /\ push[p] = "pruned"
  /\ \/ Goto(p, "accepted")
     \/ Goto(p, "warned")
  /\ UNCHANGED <<now, serverVars, dbVars>>
-----------------------------------------------------------------------------
(***************************************************************************)
(* runServe.  Shutdown makes ListenAndServe return at once; runServe then  *)
(* returns, too, through the deferred Close of the store, and the process  *)
(* ends, while Shutdown is still waiting for the handlers.                 *)
(***************************************************************************)
Terminate ==
  /\ server = "up"
  /\ server' = "stopping"
  /\ UNCHANGED <<now, grace, restarts, push, dbVars>>

CloseStore ==
  /\ server = "stopping"
  /\ server' = "closed"
  /\ UNCHANGED <<now, grace, restarts, push, dbVars>>

GraceEnds ==
  /\ server \in {"stopping", "closed"}
  /\ grace' = TRUE
  /\ UNCHANGED <<now, server, restarts, push, dbVars>>

\* What the handlers were doing is lost.
ProcessEnds ==
  /\ server = "closed"
  /\ server' = "down"
  /\ grace' = FALSE
  /\ push' = [p \in Push |-> IF p \in InFlight THEN "warned" ELSE push[p]]
  /\ UNCHANGED <<now, restarts, dbVars>>

\* The table is still there.
Restart ==
  /\ server = "down"
  /\ restarts < Restarts
  /\ restarts' = restarts + 1
  /\ server' = "up"
  /\ UNCHANGED <<now, grace, push, dbVars>>

Request(p) ==
  \/ GiveUp(p)
  \/ server # "down" /\ (\/ Receive(p) \/ Reject(p) \/ Insert(p) \/ InsertFails(p)
                         \/ Prune(p) \/ PruneFails(p) \/ Accept(p))

Next ==
  \/ Tick \/ Terminate \/ CloseStore \/ GraceEnds \/ ProcessEnds \/ Restart
  \/ \E p \in Push : Request(p)

Spec == Init /\ [][Next]_vars
-----------------------------------------------------------------------------
(***************************************************************************)
(* Properties.                                                             *)
(***************************************************************************)
(***************************************************************************)
(* Types; rows are only of runs that were pushed by authorised clients.    *)
(***************************************************************************)
TypeOK ==
  /\ now \in 0..LastSecond
  /\ server \in {"up", "stopping", "closed", "down"}
  /\ grace \in BOOLEAN
  /\ restarts \in 0..Restarts
  /\ push \in [Push -> {"sent", "received", "inserted", "pruned", "accepted", "warned"}]
  /\ at \in [Push -> 0..LastSecond]
  /\ stored \in SUBSET Authorised
  /\ rows \in SUBSET stored
  /\ unpruned \in SUBSET stored

(***************************************************************************)
(* The history of a project is bounded whatever handlers run at the same   *)
(* time, fail or are killed: beyond the limit there are at most the runs   *)
(* inserted since the last prune of the project that went through          *)
(* (InsertRun, pruneProject).                                              *)
(***************************************************************************)
HistoryBounded ==
  \A pr \in Project : Cardinality((rows \ unpruned) \cap Of(pr)) <= Keep

(***************************************************************************)
(* A run only leaves the table when the table holds as many runs of its    *)
(* project as the limit allows, none of them of an earlier second; other   *)
(* projects and concurrent prunes take nothing away (pruneProject;         *)
(* docs/DASHBOARD.md:222).                                                 *)
(***************************************************************************)
NewestKept ==
  \A p \in stored \ rows :
    Cardinality({q \in rows \cap Of(ProjectOf[p]) : at[q] >= at[p]}) >= Keep

\* The rows that GetProjects may report for a project.
Shown(pr) ==
  {p \in rows \cap Of(pr) : \A q \in rows \cap Of(pr) : at[q] <= at[p]}

(***************************************************************************)
(* A project that has ever stored a run is always listed, with a run of    *)
(* the latest second of which any run was stored, pruned ones included     *)
(* (GetProjects).                                                          *)
(***************************************************************************)
LatestSecondShown ==
  \A p \in stored :
    /\ Shown(ProjectOf[p]) # {}
    /\ \A q \in Shown(ProjectOf[p]) : at[q] >= at[p]

(***************************************************************************)
(* A client that was told that its run is stored can rely on it, also over *)
(* a restart: the run is in the table or has been pruned (handleResults).  *)
(***************************************************************************)
AcceptedStored == \A p \in Push : push[p] = "accepted" => p \in stored

(***************************************************************************)
(* docs/DASHBOARD.md:272 promises a graceful shutdown with a deadline of   *)
(* five seconds.  The process does not wait for Shutdown: it may end       *)
(* before the deadline while requests are being handled.                   *)
(***************************************************************************)
GracefulShutdown ==
  [][server' = "down" /\ server # "down" /\ ~grace => InFlight = {}]_vars
=============================================================================

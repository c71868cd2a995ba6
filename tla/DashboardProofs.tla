--------------------------- MODULE DashboardProofs --------------------------
(***************************************************************************)
(* Theorems about the dashboard, for any number of pushes and projects,    *)
(* any limit and any number of restarts.                                   *)
(*                                                                         *)
(* That the newest runs are kept is not inductive by itself: one has to    *)
(* know that a run is inserted once, so that an insertion only adds to the *)
(* rows that a pruned run is compared with.                                *)
(***************************************************************************)
EXTENDS Dashboard, TLAPS, FiniteSetTheorems

\* What a push has behind it.
StoredInv ==
  /\ \A p \in Push : push[p] \in {"sent", "received"} => p \notin stored
  /\ \A p \in Push : push[p] \in {"inserted", "pruned", "accepted"} => p \in stored

Inv == TypeOK /\ StoredInv /\ HistoryBounded /\ NewestKept

\* The rows a run that is no longer stored has to give way to.
AtLeast(p) == {q \in rows \cap Of(ProjectOf[p]) : at[q] >= at[p]}

(***************************************************************************)
(* Every set of pushes is finite.                                          *)
(***************************************************************************)
LEMMA PushesFinite ==
  ASSUME NEW S, S \subseteq Push
  PROVE  IsFiniteSet(S) /\ Cardinality(S) \in Nat
  BY DashboardAssumption, FS_Subset, FS_CardinalityType

(***************************************************************************)
(* A set of pushes is at least as large as what it includes.               *)
(***************************************************************************)
LEMMA Larger ==
  ASSUME NEW S, S \subseteq Push, NEW T, T \subseteq S
  PROVE  /\ Cardinality(T) \in Nat
         /\ Cardinality(S) \in Nat
         /\ Cardinality(T) <= Cardinality(S)
<1>1. IsFiniteSet(S) /\ Cardinality(S) \in Nat
  BY PushesFinite
<1>2. T \subseteq Push
  OBVIOUS
<1>3. Cardinality(T) \in Nat
  BY <1>2, PushesFinite
<1>4. Cardinality(T) <= Cardinality(S)
  BY <1>1, FS_Subset
<1> QED BY <1>1, <1>3, <1>4

(***************************************************************************)
(* The initial state satisfies the invariant.                              *)
(***************************************************************************)
LEMMA InitInv == Init => Inv
<1> SUFFICES ASSUME Init PROVE Inv
  OBVIOUS
<1>1. TypeOK
  <2>1. 0 \in 0..LastSecond /\ 0 \in 0..Restarts
    BY DashboardAssumption
  <2> QED BY <2>1 DEF Init, TypeOK
<1>2. StoredInv /\ NewestKept
  BY DEF Init, StoredInv, NewestKept
<1>3. HistoryBounded
  <2> SUFFICES ASSUME NEW pr \in Project
               PROVE  Cardinality((rows \ unpruned) \cap Of(pr)) <= Keep
    BY DEF HistoryBounded
  <2>1. (rows \ unpruned) \cap Of(pr) = {}
    BY DEF Init
  <2> QED BY <2>1, FS_EmptySet, DashboardAssumption
<1> QED BY <1>1, <1>2, <1>3 DEF Inv

(***************************************************************************)
(* A step that leaves the table alone keeps the invariant if a push only   *)
(* gets to a place that its run entitles it to.                            *)
(***************************************************************************)
LEMMA Elsewhere ==
  ASSUME Inv, TypeOK', UNCHANGED dbVars, StoredInv'
  PROVE  Inv'
<1>1. HistoryBounded'
  BY DEF Inv, HistoryBounded, dbVars, Of
<1>2. NewestKept'
  BY DEF Inv, NewestKept, dbVars, Of
<1> QED BY <1>1, <1>2 DEF Inv

(***************************************************************************)
(* An insertion keeps it.                                                  *)
(***************************************************************************)
LEMMA InsertStep == ASSUME NEW p \in Push, Inv, Insert(p) PROVE Inv'
<1> USE DashboardAssumption
<1>1. p \notin stored /\ p \notin rows
  BY DEF Inv, StoredInv, TypeOK, Insert
<1>2. TypeOK' /\ StoredInv'
  BY DEF Inv, TypeOK, StoredInv, Insert, Goto, serverVars
<1>3. HistoryBounded'
  <2> SUFFICES ASSUME NEW pr \in Project
               PROVE  Cardinality((rows' \ unpruned') \cap Of(pr)) <= Keep
    BY DEF HistoryBounded, Of
  <2>1. (rows' \ unpruned') \cap Of(pr) = (rows \ unpruned) \cap Of(pr)
    BY <1>1 DEF Insert
  <2> QED BY <2>1 DEF Inv, HistoryBounded
<1>4. NewestKept'
  <2> SUFFICES ASSUME NEW q \in stored' \ rows'
               PROVE  Cardinality(AtLeast(q)') >= Keep
    BY DEF NewestKept, AtLeast, Of
  <2>1. q \in stored \ rows /\ q # p
    BY DEF Insert
  <2>2. AtLeast(q) \subseteq AtLeast(q)'
    BY <2>1, <1>1 DEF AtLeast, Of, Insert, Inv, TypeOK
  <2>3. AtLeast(q)' \subseteq Push
    BY DEF AtLeast, Of
  <2>4. Cardinality(AtLeast(q)) >= Keep
    BY <2>1 DEF Inv, NewestKept, AtLeast
  <2> QED BY <2>2, <2>3, <2>4, Larger
<1> QED BY <1>2, <1>3, <1>4 DEF Inv

(***************************************************************************)
(* A prune keeps it: what it takes away is not newer than what it leaves,  *)
(* and it leaves as much as the limit allows.                              *)
(***************************************************************************)
LEMMA PruneStep == ASSUME NEW p \in Push, Inv, Prune(p) PROVE Inv'
<1> USE DashboardAssumption
<1> DEFINE mine == rows \cap Of(ProjectOf[p])
<1>1. PICK K \in Newest(mine) : rows' = (rows \ Of(ProjectOf[p])) \cup K
  BY DEF Prune
<1>2. K \subseteq mine /\ Cardinality(K) <= Keep
  BY <1>1 DEF Newest
<1>3. \/ K = mine
      \/ Cardinality(K) = Keep /\ \A k \in K, d \in mine \ K : at[d] <= at[k]
  BY <1>1 DEF Newest
<1>4. TypeOK' /\ StoredInv'
  BY <1>1, <1>2 DEF Inv, TypeOK, StoredInv, Prune, Goto, serverVars
<1>5. HistoryBounded'
  <2> SUFFICES ASSUME NEW pr \in Project
               PROVE  Cardinality((rows' \ unpruned') \cap Of(pr)) <= Keep
    BY DEF HistoryBounded, Of
  <2>1. CASE pr = ProjectOf[p]
    <3>1. (rows' \ unpruned') \cap Of(pr) \subseteq K
      BY <2>1, <1>1
    <3>2. K \subseteq Push
      BY <1>2 DEF Of
    <3> QED BY <3>1, <3>2, <1>2, Larger
  <2>2. CASE pr # ProjectOf[p]
    <3>1. Of(pr) \cap Of(ProjectOf[p]) = {}
      BY <2>2 DEF Of
    <3>2. (rows' \ unpruned') \cap Of(pr) = (rows \ unpruned) \cap Of(pr)
      BY <3>1, <1>1, <1>2 DEF Prune
    <3> QED BY <3>2 DEF Inv, HistoryBounded
  <2> QED BY <2>1, <2>2
<1>6. NewestKept'
  <2> SUFFICES ASSUME NEW q \in stored' \ rows'
               PROVE  Cardinality(AtLeast(q)') >= Keep
    BY DEF NewestKept, AtLeast, Of
  <2>1. q \in Push /\ q \in stored /\ AtLeast(q) \subseteq Push /\ AtLeast(q)' \subseteq Push
    BY DEF Prune, Inv, TypeOK, AtLeast, Of
  <2>2. \A r \in Push : at[r] \in Nat
    BY DEF Inv, TypeOK
  <2>3. CASE ProjectOf[q] # ProjectOf[p]
    <3>1. Of(ProjectOf[q]) \cap Of(ProjectOf[p]) = {}
      BY <2>3 DEF Of
    <3>2. AtLeast(q)' = AtLeast(q) /\ q \notin rows
      BY <3>1, <2>1, <1>1, <1>2 DEF AtLeast, Of, Prune
    <3> QED BY <3>2, <2>1 DEF Inv, NewestKept, AtLeast
  <2>4. CASE ProjectOf[q] = ProjectOf[p] /\ K = mine
    <3>1. rows' = rows
      BY <2>4, <1>1
    <3>2. AtLeast(q)' = AtLeast(q) /\ q \notin rows
      BY <3>1 DEF AtLeast, Of, Prune
    <3> QED BY <3>2, <2>1 DEF Inv, NewestKept, AtLeast
  <2>5. CASE /\ ProjectOf[q] = ProjectOf[p]
             /\ Cardinality(K) = Keep
             /\ \A k \in K, d \in mine \ K : at[d] <= at[k]
    <3>1. AtLeast(q)' = {k \in K : at[k] >= at[q]}
      BY <2>5, <1>1, <1>2 DEF AtLeast, Of, Prune
    <3>2. CASE \A k \in K : at[k] >= at[q]
      <4>1. AtLeast(q)' = K
        BY <3>1, <3>2
      <4> QED BY <4>1, <2>5
    <3>3. CASE \E k \in K : ~(at[k] >= at[q])
      <4>1. PICK k \in K : ~(at[k] >= at[q])
        BY <3>3
      <4>2. k \in Push
        BY <1>2 DEF Of
      <4>3. q \notin rows
        <5> SUFFICES ASSUME q \in rows PROVE FALSE
          OBVIOUS
        <5>1. q \in mine \ K
          BY <2>1, <2>5, <1>1 DEF Of
        <5> QED BY <5>1, <4>1, <4>2, <2>1, <2>2, <2>5
      <4>4. AtLeast(q) \subseteq AtLeast(q)'
        <5> SUFFICES ASSUME NEW d \in AtLeast(q) PROVE d \in AtLeast(q)'
          OBVIOUS
        <5>1. d \in mine /\ d \in Push /\ at[d] >= at[q]
          BY <2>5 DEF AtLeast, Of
        <5>2. d \in K
          BY <5>1, <4>1, <4>2, <2>1, <2>2, <2>5
        <5> QED BY <5>1, <5>2, <3>1
      <4>5. Cardinality(AtLeast(q)) >= Keep
        BY <4>3, <2>1 DEF Inv, NewestKept, AtLeast
      <4> QED BY <4>4, <4>5, <2>1, Larger
    <3> QED BY <3>2, <3>3
  <2> QED BY <2>3, <2>4, <2>5, <1>3
<1> QED BY <1>4, <1>5, <1>6 DEF Inv

\* The steps of a request that leave the table alone.
Quiet(p) ==
  GiveUp(p) \/ Receive(p) \/ Reject(p) \/ InsertFails(p) \/ PruneFails(p) \/ Accept(p)

(***************************************************************************)
(* The other steps of a request keep it.                                   *)
(***************************************************************************)
LEMMA QuietStep == ASSUME NEW p \in Push, Inv, Quiet(p) PROVE Inv'
<1> USE DashboardAssumption DEF Inv, TypeOK, StoredInv, serverVars, dbVars, Goto
<1>1. CASE GiveUp(p)
  BY <1>1, Elsewhere DEF GiveUp
<1>2. CASE Receive(p)
  BY <1>2, Elsewhere DEF Receive
<1>3. CASE Reject(p)
  BY <1>3, Elsewhere DEF Reject
<1>4. CASE InsertFails(p)
  BY <1>4, Elsewhere DEF InsertFails
<1>5. CASE PruneFails(p)
  BY <1>5, Elsewhere DEF PruneFails
<1>6. CASE Accept(p)
  BY <1>6, Elsewhere DEF Accept
<1> QED BY <1>1, <1>2, <1>3, <1>4, <1>5, <1>6 DEF Quiet

ServerStep == Tick \/ Terminate \/ CloseStore \/ GraceEnds \/ ProcessEnds \/ Restart

(***************************************************************************)
(* Clock and server keep it, at whatever point the process ends.           *)
(***************************************************************************)
LEMMA ServerKeeps == ASSUME Inv, ServerStep PROVE Inv'
<1> USE DashboardAssumption DEF Inv, TypeOK, StoredInv, serverVars, dbVars
<1>1. CASE Tick
  BY <1>1, Elsewhere DEF Tick
<1>2. CASE Terminate
  BY <1>2, Elsewhere DEF Terminate
<1>3. CASE CloseStore
  BY <1>3, Elsewhere DEF CloseStore
<1>4. CASE GraceEnds
  BY <1>4, Elsewhere DEF GraceEnds
<1>5. CASE ProcessEnds
  BY <1>5, Elsewhere DEF ProcessEnds, InFlight
<1>6. CASE Restart
  BY <1>6, Elsewhere DEF Restart
<1> QED BY <1>1, <1>2, <1>3, <1>4, <1>5, <1>6 DEF ServerStep

(***************************************************************************)
(* The invariant holds in every reachable state.                           *)
(***************************************************************************)
LEMMA InductiveInv == Spec => []Inv
<1>1. Inv /\ [Next]_vars => Inv'
  <2> SUFFICES ASSUME Inv, [Next]_vars PROVE Inv'
    OBVIOUS
  <2>1. CASE ServerStep
    BY <2>1, ServerKeeps
  <2>2. CASE \E p \in Push : Request(p)
    <3>1. PICK p \in Push : Request(p)
      BY <2>2
    <3>2. Quiet(p) \/ Insert(p) \/ Prune(p)
      BY <3>1 DEF Request, Quiet
    <3> QED BY <3>2, QuietStep, InsertStep, PruneStep
  <2>3. CASE UNCHANGED vars
    <3>1. UNCHANGED dbVars /\ UNCHANGED <<now, server, grace, restarts, push>>
      BY <2>3 DEF vars, serverVars
    <3>2. TypeOK' /\ StoredInv'
      BY <3>1 DEF Inv, TypeOK, StoredInv, dbVars
    <3> QED BY <3>1, <3>2, Elsewhere
  <2> QED BY <2>1, <2>2, <2>3 DEF Next, ServerStep
<1> QED BY <1>1, InitInv, PTL DEF Spec

(***************************************************************************)
(* Types; only runs of authorised clients are ever stored                  *)
(* (handleResults).                                                        *)
(***************************************************************************)
THEOREM TypeCorrect == Spec => []TypeOK
<1>1. Inv => TypeOK
  BY DEF Inv
<1> QED BY <1>1, InductiveInv, PTL

(***************************************************************************)
(* The history of each project is bounded, up to the runs inserted since   *)
(* its last prune (InsertRun, pruneProject).                               *)
(***************************************************************************)
THEOREM Bounded == Spec => []HistoryBounded
<1>1. Inv => HistoryBounded
  BY DEF Inv
<1> QED BY <1>1, InductiveInv, PTL

(***************************************************************************)
(* A run gives way only to as many runs of its project, of its second or   *)
(* later ones, as the limit allows (pruneProject).                         *)
(***************************************************************************)
THEOREM Kept == Spec => []NewestKept
<1>1. Inv => NewestKept
  BY DEF Inv
<1> QED BY <1>1, InductiveInv, PTL

(***************************************************************************)
(* A run that was answered with 202 has been stored (handleResults).       *)
(***************************************************************************)
THEOREM Acknowledged == Spec => []AcceptedStored
<1>1. Inv => AcceptedStored
  BY DEF Inv, StoredInv, AcceptedStored
<1> QED BY <1>1, InductiveInv, PTL

(***************************************************************************)
(* A set of numbers with a bound has a greatest one.                       *)
(***************************************************************************)
LEMMA Greatest ==
  ASSUME NEW n \in Nat, NEW T \in SUBSET (0..n), T # {}
  PROVE  \E x \in T : \A y \in T : y <= x
<1> DEFINE U == {n - x : x \in T}
           R == OpToRel(<, Nat)
<1>1. \A a, b \in Nat : <<a, b>> \in R <=> a < b
  BY DEF OpToRel
<1>2. IsWellFoundedOn(R, Nat)
  BY NatLessThanWellFounded
<1> HIDE DEF R
<1>3. U \subseteq Nat /\ U # {}
  <2>1. \A x \in 0..n : n - x \in Nat
    OBVIOUS
  <2>2. \A x \in T : n - x \in Nat
    BY <2>1
  <2>3. PICK x \in T : TRUE
    OBVIOUS
  <2>4. n - x \in U
    BY <2>3
  <2> QED BY <2>2, <2>4
<1>4. PICK u \in U : \A v \in U : ~(<<v, u>> \in R)
  <2> HIDE DEF U
  <2> QED BY <1>2, <1>3, WFMin
<1>5. PICK x \in T : u = n - x
  OBVIOUS
<1>6. ASSUME NEW y \in T PROVE y <= x
  <2>1. n - y \in U /\ n - y \in Nat /\ n - x \in Nat
    OBVIOUS
  <2>2. ~(n - y < n - x)
    BY <1>1, <1>4, <1>5, <2>1
  <2> QED BY <2>2
<1> QED BY <1>6

(***************************************************************************)
(* The page of a project shows a run of the latest second of which any run *)
(* was stored: if that run was pruned, one of its second or a later one    *)
(* was kept (GetProjects, pruneProject).                                   *)
(***************************************************************************)
THEOREM LatestShown == Spec => []LatestSecondShown
<1>1. ASSUME Inv, NEW p \in stored
      PROVE  /\ Shown(ProjectOf[p]) # {}
             /\ \A q \in Shown(ProjectOf[p]) : at[q] >= at[p]
  <2> DEFINE S == rows \cap Of(ProjectOf[p])
             T == {at[q] : q \in S}
  <2>1. /\ p \in Push /\ S \subseteq Push /\ at \in [Push -> 0..LastSecond] /\ LastSecond \in Nat
        /\ stored \subseteq Push
    BY <1>1, DashboardAssumption DEF Inv, TypeOK, Of
  <2>2. PICK r \in S : at[r] >= at[p]
    <3>1. CASE p \in rows
      BY <2>1, <3>1 DEF Of
    <3>2. CASE p \notin rows
      <4>1. Cardinality(AtLeast(p)) >= Keep /\ Keep \in Nat \ {0}
        BY <1>1, <3>2, DashboardAssumption DEF Inv, NewestKept, AtLeast
      <4>2. AtLeast(p) # {}
        BY <4>1, FS_EmptySet
      <4> QED BY <4>2 DEF AtLeast
    <3> QED BY <3>1, <3>2
  <2>3. PICK x \in T : \A y \in T : y <= x
    <3>1. T \in SUBSET (0..LastSecond) /\ T # {}
      BY <2>1, <2>2
    <3> HIDE DEF T
    <3> QED BY <2>1, <3>1, Greatest
  <2>4. PICK s \in S : at[s] = x
    BY <2>3
  <2>5. \A q \in S : at[q] <= at[s]
    BY <2>3, <2>4
  <2>6. s \in Shown(ProjectOf[p])
    BY <2>4, <2>5 DEF Shown
  <2>7. ASSUME NEW q \in Shown(ProjectOf[p]) PROVE at[q] >= at[p]
    <3>1. q \in S /\ at[r] <= at[q]
      BY <2>2, <2>7 DEF Shown
    <3>2. at[q] \in Nat /\ at[r] \in Nat /\ at[p] \in Nat
      BY <2>1, <2>2, <3>1
    <3> QED BY <2>2, <3>1, <3>2
  <2> QED BY <2>6, <2>7
<1>2. Inv => LatestSecondShown
  BY <1>1 DEF LatestSecondShown
<1> QED BY <1>2, InductiveInv, PTL
=============================================================================

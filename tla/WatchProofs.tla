----------------------------- MODULE WatchProofs ----------------------------
(***************************************************************************)
(* Proofs about Watch: however the runs that the watcher starts overlap,   *)
(* and however the credential cache is refreshed between them, no          *)
(* credential stays in the environment, and what a run held is released    *)
(* when it is done, for any number of edits.                               *)
(***************************************************************************)
EXTENDS Watch, TLAPS

-----------------------------------------------------------------------------
(* The inductive invariant.                                                *)

Exchanged == {r \in Run : kind[r] \in {"complete", "empty"}}

(* The parts of TypeOK, by who changes them.                               *)
LoopTyped ==
  /\ fallback \in Fallbacks
  /\ loop \in {"initial", "watching", "stopping", "exited"}
  /\ timer \in BOOLEAN
  /\ signalled \in BOOLEAN
FilesTyped ==
  /\ disk \in Versions
  /\ touched \in 0..Touches
  /\ events \in Seq(0..(Edits + 1))
RunsTyped ==
  /\ stage \in [Run -> Stages]
  /\ loaded \in [Run -> 0..disk]
ContextsTyped ==
  /\ kind \in [Run -> {"none", "complete", "empty", "partial", "failed"}]
  /\ cached \in Exchanged \cup {0}
  /\ ctxOf \in [Run -> Exchanged \cup {0}]
SetsTyped ==
  /\ old \subseteq Run
  /\ zeroed \subseteq Run
  /\ keyfiles \subseteq Run
  /\ handlers \subseteq Run
  /\ firing \subseteq Run
EnvTyped ==
  /\ token \in Contexts
  /\ keypath \in Contexts
Typed == LoopTyped /\ FilesTyped /\ RunsTyped /\ ContextsTyped /\ SetsTyped /\ EnvTyped

Before == {"idle", "load", "auth"}
Holding == {"inject", "tests", "unset", "cleanup", "zero"}

(* A run gets its context from an exchange, its own or an earlier one, and *)
(* has nothing before.  Only credentials grow old.                         *)
ContextInv ==
  /\ \A r \in Run : stage[r] \in Before => kind[r] = "none" /\ ctxOf[r] = 0
  /\ \A r \in Run : stage[r] \in Holding => ctxOf[r] \in Run
  /\ \A e \in Run : kind[e] \in {"complete", "empty"} => ctxOf[e] = e
  /\ \A e \in old : kind[e] = "complete"

(* What is in the environment has a run that will take it out.             *)
Injected(r) == stage[r] \in {"tests", "unset"} /\ ctxOf[r] \in Run /\ kind[ctxOf[r]] = "complete"
EnvInv == token # 0 \/ keypath # 0 => \E r \in Run : Injected(r)

(* A run that is done has released what it held.                           *)
ReleaseInv == \A r \in Run :
  /\ stage[r] = "zero" => ctxOf[r] \notin keyfiles
  /\ stage[r] = "done" /\ ctxOf[r] # 0 => ctxOf[r] \in zeroed /\ ctxOf[r] \notin keyfiles

WatchInv == Typed /\ ContextInv /\ EnvInv /\ ReleaseInv

-----------------------------------------------------------------------------
(* The parts of TypeOK are TypeOK.                                         *)
LEMMA TypedIsTypeOK == Typed => TypeOK
BY DEF Typed, TypeOK, LoopTyped, FilesTyped, RunsTyped, ContextsTyped, SetsTyped, EnvTyped, Exchanged

(* Runs are numbered from 1.                                               *)
LEMMA RunsAreNatural ==
  /\ 0 \notin Run /\ 1 \in Run /\ Contexts = Run \cup {0} /\ Versions = Run
  /\ \A r \in Run : r \in Nat
BY WatchAssumption DEF Run, Contexts, Versions

-----------------------------------------------------------------------------
(* Steps outside the runs.                                                 *)

(* Files, events and signals concern no run.                               *)
LEMMA OutsideRuns ==
  ASSUME WatchInv, UNCHANGED <<runVars, authVars, envVars>>, LoopTyped', FilesTyped', disk \in Nat,
         disk' \in Nat, disk <= disk', firing' \subseteq Run
  PROVE  WatchInv'
<1>1. UNCHANGED <<stage, loaded, ctxOf, kind, old, cached, zeroed, keyfiles, handlers, token, keypath>>
  BY DEF runVars, authVars, envVars
<1>2. RunsTyped'
  <2>1. 0..disk \subseteq 0..disk'
    OBVIOUS
  <2>2. loaded \in [Run -> 0..disk']
    BY <2>1 DEF WatchInv, Typed, RunsTyped
  <2> QED
    BY <1>1, <2>2 DEF WatchInv, Typed, RunsTyped
<1>3. ContextsTyped' /\ SetsTyped' /\ EnvTyped'
  BY <1>1 DEF WatchInv, Typed, ContextsTyped, SetsTyped, EnvTyped, Exchanged
<1>4. ContextInv' /\ EnvInv' /\ ReleaseInv'
  BY <1>1 DEF WatchInv, ContextInv, EnvInv, Injected, ReleaseInv
<1> QED
  BY <1>2, <1>3, <1>4 DEF WatchInv, Typed

(* The user changes the configuration, or touches it.                      *)
LEMMA EditKeeps == ASSUME WatchInv, Edit PROVE WatchInv'
<1>1. /\ disk <= Edits /\ disk' = disk + 1
      /\ events' = (IF loop = "watching" THEN Append(events, disk + 1) ELSE events)
      /\ UNCHANGED <<touched, loopVars, runVars, authVars, envVars>>
  BY DEF Edit
<1>2. disk \in Nat /\ disk' \in Nat /\ disk <= disk' /\ disk' \in Versions /\ disk + 1 \in 0..(Edits + 1)
  BY <1>1, WatchAssumption DEF WatchInv, Typed, FilesTyped, Versions
<1>3. events' \in Seq(0..(Edits + 1))
  <2>1. events \in Seq(0..(Edits + 1))
    BY DEF WatchInv, Typed, FilesTyped
  <2>2. Append(events, disk + 1) \in Seq(0..(Edits + 1))
    BY <1>2, <2>1
  <2> QED
    BY <1>1, <2>1, <2>2
<1>4. LoopTyped' /\ firing' \subseteq Run
  BY <1>1 DEF WatchInv, Typed, LoopTyped, SetsTyped, loopVars
<1>5. FilesTyped'
  BY <1>1, <1>2, <1>3 DEF WatchInv, Typed, FilesTyped
<1> QED
  BY <1>1, <1>2, <1>4, <1>5, OutsideRuns

LEMMA TouchKeeps == ASSUME WatchInv, Touch PROVE WatchInv'
<1>1. /\ touched < Touches /\ touched' = touched + 1 /\ events' = Append(events, 0)
      /\ UNCHANGED <<disk, loopVars, runVars, authVars, envVars>>
  BY DEF Touch
<1>2. disk \in Nat /\ 0 \in 0..(Edits + 1) /\ touched' \in 0..Touches
  BY <1>1, WatchAssumption DEF WatchInv, Typed, FilesTyped, Versions
<1>3. events' \in Seq(0..(Edits + 1))
  BY <1>1, <1>2 DEF WatchInv, Typed, FilesTyped
<1>4. LoopTyped' /\ firing' \subseteq Run
  BY <1>1 DEF WatchInv, Typed, LoopTyped, SetsTyped, loopVars
<1>5. FilesTyped'
  BY <1>1, <1>2, <1>3 DEF WatchInv, Typed, FilesTyped
<1> QED
  BY <1>1, <1>2, <1>4, <1>5, OutsideRuns

(* Signals and the loop.                                                   *)
LEMMA LoopKeeps ==
  ASSUME WatchInv, UNCHANGED <<fallback, disk, touched, runVars, authVars, envVars>>,
         loop' \in {"initial", "watching", "stopping", "exited"}, timer' \in BOOLEAN, signalled' \in BOOLEAN,
         firing' \subseteq Run, events' \in Seq(0..(Edits + 1))
  PROVE  WatchInv'
<1>1. LoopTyped' /\ FilesTyped'
  BY DEF WatchInv, Typed, LoopTyped, FilesTyped
<1>2. disk \in Nat
  BY WatchAssumption DEF WatchInv, Typed, FilesTyped, Versions
<1> QED
  BY <1>1, <1>2, OutsideRuns

LEMMA SignalKeeps == ASSUME WatchInv, Signal PROVE WatchInv'
<1>1. LoopTyped /\ FilesTyped /\ SetsTyped
  BY DEF WatchInv, Typed
<1>2. /\ signalled' = TRUE /\ firing' = handlers
      /\ UNCHANGED <<fallback, timer, disk, touched, events, runVars, authVars, envVars>>
  BY DEF Signal, fileVars
<1>3. loop' \in {"initial", "watching", "stopping", "exited"}
  BY <1>1 DEF Signal, LoopTyped
<1>4. events' \in Seq(0..(Edits + 1)) /\ timer' \in BOOLEAN
  BY <1>1, <1>2 DEF LoopTyped, FilesTyped
<1> QED
  BY <1>1, <1>2, <1>3, <1>4, LoopKeeps DEF SetsTyped

LEMMA StartWatchingKeeps == ASSUME WatchInv, StartWatching PROVE WatchInv'
<1>1. LoopTyped /\ FilesTyped /\ SetsTyped
  BY DEF WatchInv, Typed
<1>2. /\ loop' \in {"watching", "exited"}
      /\ UNCHANGED <<fallback, timer, signalled, firing, disk, touched, events, runVars, authVars, envVars>>
  BY DEF StartWatching, fileVars
<1>3. /\ events' \in Seq(0..(Edits + 1)) /\ timer' \in BOOLEAN /\ signalled' \in BOOLEAN
      /\ firing' \subseteq Run
  BY <1>1, <1>2 DEF LoopTyped, FilesTyped, SetsTyped
<1> QED
  BY <1>2, <1>3, LoopKeeps

LEMMA HandleEventKeeps == ASSUME WatchInv, HandleEvent PROVE WatchInv'
<1>1. LoopTyped /\ FilesTyped /\ SetsTyped
  BY DEF WatchInv, Typed
<1>2. /\ events # <<>> /\ events' = Tail(events) /\ timer' = (timer \/ Head(events) # 0)
      /\ UNCHANGED <<fallback, loop, signalled, firing, disk, touched, runVars, authVars, envVars>>
  BY DEF HandleEvent
<1>3. events' \in Seq(0..(Edits + 1))
  BY <1>1, <1>2 DEF FilesTyped
<1>4. /\ timer' \in BOOLEAN /\ signalled' \in BOOLEAN /\ firing' \subseteq Run
      /\ loop' \in {"initial", "watching", "stopping", "exited"}
  BY <1>1, <1>2 DEF LoopTyped, SetsTyped
<1> QED
  BY <1>2, <1>3, <1>4, LoopKeeps

LEMMA ExitKeeps == ASSUME WatchInv, Exit PROVE WatchInv'
<1>1. LoopTyped /\ FilesTyped /\ SetsTyped
  BY DEF WatchInv, Typed
<1>2. /\ loop' = "exited"
      /\ UNCHANGED <<fallback, timer, signalled, firing, disk, touched, events, runVars, authVars, envVars>>
  BY DEF Exit, fileVars
<1>3. /\ events' \in Seq(0..(Edits + 1)) /\ timer' \in BOOLEAN /\ signalled' \in BOOLEAN
      /\ firing' \subseteq Run
  BY <1>1, <1>2 DEF LoopTyped, FilesTyped, SetsTyped
<1> QED
  BY <1>2, <1>3, LoopKeeps

(* A handler only removes a keyfile.                                       *)
LEMMA HandlerKeeps == ASSUME WatchInv, NEW e \in Run, HandlerRuns(e) PROVE WatchInv'
<1>1. /\ firing' = firing \ {e} /\ keyfiles' = keyfiles \ {e} /\ handlers' = handlers \ {e}
      /\ UNCHANGED <<fallback, loop, timer, signalled, disk, touched, events, stage, loaded, ctxOf,
                     kind, old, cached, zeroed, token, keypath>>
  BY DEF HandlerRuns, fileVars, runVars, envVars
<1>2. LoopTyped' /\ FilesTyped' /\ RunsTyped' /\ EnvTyped'
  BY <1>1 DEF WatchInv, Typed, LoopTyped, FilesTyped, RunsTyped, EnvTyped
<1>3. ContextsTyped' /\ SetsTyped'
  BY <1>1 DEF WatchInv, Typed, ContextsTyped, SetsTyped, Exchanged
<1>4. ContextInv' /\ EnvInv' /\ ReleaseInv'
  BY <1>1 DEF WatchInv, ContextInv, EnvInv, Injected, ReleaseInv
<1> QED
  BY <1>2, <1>3, <1>4 DEF WatchInv, Typed

(* Time makes credentials old.                                             *)
LEMMA AgeKeeps == ASSUME WatchInv, NEW e \in Run, Age(e) PROVE WatchInv'
<1>1. /\ kind[e] = "complete" /\ old' = old \cup {e}
      /\ UNCHANGED <<fallback, loop, timer, signalled, firing, disk, touched, events, stage, loaded, ctxOf,
                     kind, cached, zeroed, keyfiles, handlers, token, keypath>>
  BY DEF Age, loopVars, fileVars, runVars, envVars
<1>2. LoopTyped' /\ FilesTyped' /\ RunsTyped' /\ EnvTyped'
  BY <1>1 DEF WatchInv, Typed, LoopTyped, FilesTyped, RunsTyped, EnvTyped
<1>3. ContextsTyped' /\ SetsTyped'
  BY <1>1 DEF WatchInv, Typed, ContextsTyped, SetsTyped, Exchanged
<1>4. ContextInv' /\ EnvInv' /\ ReleaseInv'
  BY <1>1 DEF WatchInv, ContextInv, EnvInv, Injected, ReleaseInv
<1> QED
  BY <1>2, <1>3, <1>4 DEF WatchInv, Typed

-----------------------------------------------------------------------------
(* Steps of a run.                                                         *)

(* What a run may do without touching the loop or the files.               *)
LEMMA RunSteps ==
  ASSUME WatchInv, UNCHANGED <<loopVars, fileVars>>,
         RunsTyped', ContextsTyped', SetsTyped', EnvTyped', ContextInv', EnvInv', ReleaseInv'
  PROVE  WatchInv'
<1>1. LoopTyped' /\ FilesTyped'
  BY DEF WatchInv, Typed, LoopTyped, FilesTyped, loopVars, fileVars
<1> QED
  BY <1>1 DEF WatchInv, Typed

(* A run that moves on to another stage and changes nothing else.          *)
LEMMA Moves ==
  ASSUME WatchInv, NEW r \in Run, NEW to \in Stages, stage' = [stage EXCEPT ![r] = to],
         loaded' \in [Run -> 0..disk'], UNCHANGED <<loopVars, fileVars, ctxOf, authVars, envVars>>,
         to \in Before => stage[r] \in Before,
         to \in Holding => stage[r] \in Holding,
         stage[r] \in {"tests", "unset"} => to \in {"tests", "unset"},
         to # "zero",
         to = "done" => ctxOf[r] = 0
  PROVE  WatchInv'
<1>1. UNCHANGED <<kind, old, cached, zeroed, keyfiles, handlers, firing, token, keypath>>
  BY DEF authVars, envVars, loopVars
<1>2. stage \in [Run -> Stages]
  BY DEF WatchInv, Typed, RunsTyped
<1>3. RunsTyped'
  BY <1>2 DEF RunsTyped
<1>4. ContextsTyped' /\ SetsTyped' /\ EnvTyped'
  BY <1>1 DEF WatchInv, Typed, ContextsTyped, SetsTyped, EnvTyped, Exchanged
<1>5. stage'[r] = to /\ \A s \in Run : s # r => stage'[s] = stage[s]
  BY <1>2
<1>6. ContextInv'
  BY <1>1, <1>5 DEF WatchInv, ContextInv
<1>7. EnvInv'
  <2>1. \A s \in Run : Injected(s) => Injected(s)'
    BY <1>1, <1>5 DEF Injected
  <2> QED
    BY <1>1, <2>1 DEF WatchInv, EnvInv
<1>8. ReleaseInv'
  BY <1>1, <1>5 DEF WatchInv, ReleaseInv
<1> QED
  BY <1>3, <1>4, <1>6, <1>7, <1>8, RunSteps

(* The timer starts a run.                                                 *)
LEMMA TriggerKeeps == ASSUME WatchInv, Trigger PROVE WatchInv'
<1>1. PICK r \in Run : stage[r] = "idle" /\ stage' = [stage EXCEPT ![r] = "load"]
  BY DEF Trigger
<1>2. /\ timer' = FALSE
      /\ UNCHANGED <<fallback, loop, signalled, firing, fileVars, loaded, ctxOf, authVars, envVars>>
  BY DEF Trigger
<1>3. UNCHANGED <<disk, touched, events, kind, old, cached, zeroed, keyfiles, handlers, token, keypath>>
  BY <1>2 DEF fileVars, authVars, envVars
<1>4. LoopTyped' /\ FilesTyped'
  BY <1>2, <1>3 DEF WatchInv, Typed, LoopTyped, FilesTyped
<1>5. stage \in [Run -> Stages]
  BY DEF WatchInv, Typed, RunsTyped
<1>6. RunsTyped' /\ ContextsTyped' /\ SetsTyped' /\ EnvTyped'
  BY <1>1, <1>2, <1>3 DEF WatchInv, Typed, RunsTyped, ContextsTyped, SetsTyped, EnvTyped, Exchanged, Stages
<1>7. stage'[r] = "load" /\ \A s \in Run : s # r => stage'[s] = stage[s]
  BY <1>1, <1>5
<1>8. ContextInv'
  BY <1>1, <1>2, <1>3, <1>7 DEF WatchInv, ContextInv, Before, Holding
<1>9. EnvInv'
  <2>1. \A s \in Run : Injected(s) => Injected(s)'
    BY <1>1, <1>2, <1>3, <1>7 DEF Injected
  <2> QED
    BY <1>3, <2>1 DEF WatchInv, EnvInv
<1>10. ReleaseInv'
  BY <1>2, <1>3, <1>7 DEF WatchInv, ReleaseInv
<1> QED
  BY <1>4, <1>6, <1>8, <1>9, <1>10 DEF WatchInv, Typed

(* A run reads its configuration; its tests end.                           *)
LEMMA LoadKeeps == ASSUME WatchInv, NEW r \in Run, Load(r) PROVE WatchInv'
<1>1. PICK to \in {"auth", "done"} : stage' = [stage EXCEPT ![r] = to]
  BY DEF Load, Goto
<1>2. /\ stage[r] = "load" /\ loaded' = [loaded EXCEPT ![r] = disk]
      /\ UNCHANGED <<loopVars, fileVars, ctxOf, authVars, envVars>>
  BY DEF Load
<1>3. loaded' \in [Run -> 0..disk']
  <2>1. disk \in 0..disk /\ disk' = disk
    BY <1>2, WatchAssumption DEF WatchInv, Typed, FilesTyped, Versions, fileVars
  <2> QED
    BY <1>2, <2>1 DEF WatchInv, Typed, RunsTyped
<1>4. ctxOf[r] = 0
  BY <1>2 DEF WatchInv, ContextInv, Before
<1>5. /\ to \in Stages /\ (to \in Before => stage[r] \in Before) /\ (to \in Holding => stage[r] \in Holding)
      /\ (stage[r] \in {"tests", "unset"} => to \in {"tests", "unset"}) /\ to # "zero"
  BY <1>2 DEF Stages, Before, Holding
<1> QED
  BY <1>1, <1>2, <1>3, <1>4, <1>5, Moves

LEMMA EndTestsKeeps == ASSUME WatchInv, NEW r \in Run, EndTests(r) PROVE WatchInv'
<1>1. /\ stage[r] = "tests" /\ stage' = [stage EXCEPT ![r] = "unset"]
      /\ UNCHANGED <<loopVars, fileVars, loaded, ctxOf, authVars, envVars>>
  BY DEF EndTests, Goto
<1>2. loaded' \in [Run -> 0..disk']
  BY <1>1 DEF WatchInv, Typed, RunsTyped, fileVars
<1>3. /\ "unset" \in Stages /\ "unset" \notin Before /\ stage[r] \in Holding /\ "unset" # "zero"
      /\ "unset" \in {"tests", "unset"} /\ "unset" # "done"
  BY <1>1 DEF Stages, Before, Holding
<1>4. UNCHANGED <<loopVars, fileVars, ctxOf, authVars, envVars>>
  BY <1>1
<1> QED
  BY <1>1, <1>2, <1>3, <1>4, Moves

-----------------------------------------------------------------------------
(* The exchange.                                                           *)

(* A run that is about to exchange has nothing yet, and is no one's.       *)
LEMMA AboutToExchange ==
  ASSUME WatchInv, NEW r \in Run, stage[r] = "auth"
  PROVE  /\ kind[r] = "none" /\ ctxOf[r] = 0 /\ r \notin old /\ r \notin Exchanged
         /\ \A s \in Run : ctxOf[s] # r
<1>1. kind[r] = "none" /\ ctxOf[r] = 0 /\ r \notin old
  BY DEF WatchInv, ContextInv, Before
<1>2. r \notin Exchanged
  BY <1>1 DEF Exchanged
<1> QED
  BY <1>1, <1>2, RunsAreNatural DEF WatchInv, Typed, ContextsTyped

(* An exchange that fails leaves no context, though perhaps a keyfile.     *)
LEMMA ExchangeFailsKeeps == ASSUME WatchInv, NEW r \in Run, ExchangeFails(r) PROVE WatchInv'
<1>1. /\ stage[r] = "auth" /\ stage' = [stage EXCEPT ![r] = "done"]
      /\ UNCHANGED <<loopVars, fileVars, loaded, ctxOf, old, cached, zeroed, envVars>>
  BY DEF ExchangeFails, Goto
<1>2. UNCHANGED <<disk, firing, token, keypath>>
  BY <1>1 DEF fileVars, loopVars, envVars
<1>3. PICK k \in {"failed", "partial"} : kind' = [kind EXCEPT ![r] = k]
  BY DEF ExchangeFails
<1>4. keyfiles' \in {keyfiles, keyfiles \cup {r}} /\ handlers' \in {handlers, handlers \cup {r}}
  BY DEF ExchangeFails
<1>5. /\ kind[r] = "none" /\ ctxOf[r] = 0 /\ r \notin old /\ r \notin Exchanged
      /\ \A s \in Run : ctxOf[s] # r
  BY <1>1, AboutToExchange
<1>6. stage \in [Run -> Stages] /\ kind \in [Run -> {"none", "complete", "empty", "partial", "failed"}]
  BY DEF WatchInv, Typed, RunsTyped, ContextsTyped
<1>7. stage'[r] = "done" /\ \A s \in Run : s # r => stage'[s] = stage[s]
  BY <1>1, <1>6
<1>8. kind'[r] \notin {"complete", "empty"} /\ \A s \in Run : s # r => kind'[s] = kind[s]
  BY <1>3, <1>6
<1>9. RunsTyped' /\ SetsTyped' /\ EnvTyped'
  BY <1>1, <1>2, <1>4 DEF WatchInv, Typed, RunsTyped, SetsTyped, EnvTyped, Stages
<1>10. Exchanged' = Exchanged
  BY <1>5, <1>8 DEF Exchanged
<1>11. ContextsTyped'
  <2>1. kind' \in [Run -> {"none", "complete", "empty", "partial", "failed"}]
    BY <1>3, <1>6
  <2> QED
    BY <1>1, <1>10, <2>1 DEF WatchInv, Typed, ContextsTyped
<1>12. ContextInv'
  <2>1. \A s \in Run : stage'[s] \in Before => kind'[s] = "none" /\ ctxOf'[s] = 0
    BY <1>1, <1>7, <1>8 DEF WatchInv, ContextInv, Before
  <2>2. \A s \in Run : stage'[s] \in Holding => ctxOf'[s] \in Run
    BY <1>1, <1>7 DEF WatchInv, ContextInv, Holding
  <2>3. \A e \in Run : kind'[e] \in {"complete", "empty"} => ctxOf'[e] = e
    BY <1>1, <1>8 DEF WatchInv, ContextInv
  <2>4. \A e \in old' : kind'[e] = "complete"
    BY <1>1, <1>5, <1>8 DEF WatchInv, ContextInv, Typed, SetsTyped
  <2> QED
    BY <2>1, <2>2, <2>3, <2>4 DEF ContextInv
<1>13. EnvInv'
  <2>1. \A s \in Run : Injected(s) => Injected(s)'
    BY <1>1, <1>5, <1>7, <1>8 DEF Injected
  <2> QED
    BY <1>2, <2>1 DEF WatchInv, EnvInv
<1>14. ReleaseInv'
  BY <1>1, <1>4, <1>5, <1>7 DEF WatchInv, ReleaseInv
<1> QED
  BY <1>1, <1>9, <1>11, <1>12, <1>13, <1>14, RunSteps

(* A cached context gets another holder.                                   *)
LEMMA UseCachedKeeps == ASSUME WatchInv, NEW r \in Run, UseCached(r) PROVE WatchInv'
<1>1. /\ stage[r] = "auth" /\ stage' = [stage EXCEPT ![r] = "inject"]
      /\ cached # 0 /\ ctxOf' = [ctxOf EXCEPT ![r] = cached]
      /\ UNCHANGED <<loopVars, fileVars, loaded, authVars, envVars>>
  BY DEF UseCached, Goto
<1>2. UNCHANGED <<disk, firing, kind, old, cached, zeroed, keyfiles, handlers, token, keypath>>
  BY <1>1 DEF fileVars, loopVars, authVars, envVars
<1>3. kind[r] = "none"
  BY <1>1, AboutToExchange
<1>4. stage \in [Run -> Stages] /\ ctxOf \in [Run -> Exchanged \cup {0}] /\ cached \in Exchanged
  BY <1>1 DEF WatchInv, Typed, RunsTyped, ContextsTyped
<1>5. stage'[r] = "inject" /\ \A s \in Run : s # r => stage'[s] = stage[s]
  BY <1>1, <1>4
<1>6. ctxOf'[r] = cached /\ \A s \in Run : s # r => ctxOf'[s] = ctxOf[s]
  BY <1>1, <1>4
<1>7. RunsTyped' /\ SetsTyped' /\ EnvTyped'
  BY <1>1, <1>2 DEF WatchInv, Typed, RunsTyped, SetsTyped, EnvTyped, Stages
<1>8. ContextsTyped'
  <2>1. Exchanged' = Exchanged
    BY <1>2 DEF Exchanged
  <2>2. ctxOf' \in [Run -> Exchanged \cup {0}]
    BY <1>1, <1>4
  <2> QED
    BY <1>2, <2>1, <2>2 DEF WatchInv, Typed, ContextsTyped
<1>9. ContextInv'
  <2>1. cached \in Run
    BY <1>4 DEF Exchanged
  <2> QED
    BY <1>2, <1>3, <1>5, <1>6, <2>1 DEF WatchInv, ContextInv, Before, Holding
<1>10. EnvInv'
  <2>1. \A s \in Run : Injected(s) => Injected(s)'
    BY <1>1, <1>2, <1>5, <1>6 DEF Injected
  <2> QED
    BY <1>2, <2>1 DEF WatchInv, EnvInv
<1>11. ReleaseInv'
  BY <1>2, <1>5, <1>6 DEF WatchInv, ReleaseInv
<1> QED
  BY <1>1, <1>7, <1>8, <1>9, <1>10, <1>11, RunSteps

(* A new context, which overwrites the cached one.                         *)
LEMMA ExchangeKeeps == ASSUME WatchInv, NEW r \in Run, Exchange(r) PROVE WatchInv'
<1>1. /\ stage[r] = "auth" /\ stage' = [stage EXCEPT ![r] = "inject"]
      /\ zeroed' = zeroed \cup ({cached} \ {0}) /\ cached' = r /\ ctxOf' = [ctxOf EXCEPT ![r] = r]
      /\ UNCHANGED <<loopVars, fileVars, loaded, old, envVars>>
  BY DEF Exchange, Goto
<1>2. UNCHANGED <<disk, firing, token, keypath>>
  BY <1>1 DEF fileVars, loopVars, envVars
<1>3. PICK k \in {"complete", "empty"} : kind' = [kind EXCEPT ![r] = k]
  BY DEF Exchange
<1>4. keyfiles' \in {keyfiles, keyfiles \cup {r}} /\ handlers' \in {handlers, handlers \cup {r}}
  BY DEF Exchange
<1>5. /\ kind[r] = "none" /\ ctxOf[r] = 0 /\ r \notin old /\ r \notin Exchanged
      /\ \A s \in Run : ctxOf[s] # r
  BY <1>1, AboutToExchange
<1>6. /\ stage \in [Run -> Stages] /\ kind \in [Run -> {"none", "complete", "empty", "partial", "failed"}]
      /\ ctxOf \in [Run -> Exchanged \cup {0}] /\ cached \in Exchanged \cup {0}
  BY DEF WatchInv, Typed, RunsTyped, ContextsTyped
<1>7. stage'[r] = "inject" /\ \A s \in Run : s # r => stage'[s] = stage[s]
  BY <1>1, <1>6
<1>8. kind'[r] \in {"complete", "empty"} /\ \A s \in Run : s # r => kind'[s] = kind[s]
  BY <1>3, <1>6
<1>9. ctxOf'[r] = r /\ \A s \in Run : s # r => ctxOf'[s] = ctxOf[s]
  BY <1>1, <1>6
<1>10. Exchanged' = Exchanged \cup {r}
  BY <1>8 DEF Exchanged
<1>11. RunsTyped' /\ EnvTyped'
  BY <1>1, <1>2 DEF WatchInv, Typed, RunsTyped, EnvTyped, Stages
<1>12. SetsTyped'
  <2>1. {cached} \ {0} \subseteq Run
    BY <1>6 DEF Exchanged
  <2> QED
    BY <1>1, <1>2, <1>4, <2>1 DEF WatchInv, Typed, SetsTyped
<1>13. ContextsTyped'
  <2>1. kind' \in [Run -> {"none", "complete", "empty", "partial", "failed"}]
    BY <1>3, <1>6
  <2>2. ctxOf' \in [Run -> Exchanged' \cup {0}]
    BY <1>1, <1>6, <1>10
  <2> QED
    BY <1>1, <1>10, <2>1, <2>2 DEF ContextsTyped
<1>14. ContextInv'
  <2>1. \A s \in Run : stage'[s] \in Before => kind'[s] = "none" /\ ctxOf'[s] = 0
    BY <1>7, <1>8, <1>9 DEF WatchInv, ContextInv, Before
  <2>2. \A s \in Run : stage'[s] \in Holding => ctxOf'[s] \in Run
    BY <1>7, <1>9 DEF WatchInv, ContextInv, Holding
  <2>3. \A e \in Run : kind'[e] \in {"complete", "empty"} => ctxOf'[e] = e
    BY <1>8, <1>9 DEF WatchInv, ContextInv
  <2>4. \A e \in old' : kind'[e] = "complete"
    BY <1>1, <1>5, <1>8 DEF WatchInv, ContextInv, Typed, SetsTyped
  <2> QED
    BY <2>1, <2>2, <2>3, <2>4 DEF ContextInv
<1>15. EnvInv'
  <2>1. \A s \in Run : Injected(s) => Injected(s)'
    BY <1>1, <1>5, <1>7, <1>8, <1>9 DEF Injected
  <2> QED
    BY <1>2, <2>1 DEF WatchInv, EnvInv
<1>16. ReleaseInv'
  BY <1>1, <1>4, <1>5, <1>7, <1>9 DEF WatchInv, ReleaseInv
<1> QED
  BY <1>1, <1>11, <1>12, <1>13, <1>14, <1>15, <1>16, RunSteps

-----------------------------------------------------------------------------
(* What a run does with its context.                                       *)

(* A run that holds a context moves on and may release some of it.         *)
LEMMA HolderSteps ==
  ASSUME WatchInv, NEW r \in Run, stage[r] \in Holding, NEW to \in Stages \ Before,
         stage' = [stage EXCEPT ![r] = to],
         UNCHANGED <<loopVars, fileVars, loaded, ctxOf, kind, old, cached, handlers>>,
         zeroed \subseteq zeroed', zeroed' \subseteq Run, keyfiles' \subseteq keyfiles,
         EnvTyped', EnvInv',
         to = "zero" => ctxOf[r] \notin keyfiles',
         to = "done" => ctxOf[r] \in zeroed' /\ ctxOf[r] \notin keyfiles'
  PROVE  WatchInv'
<1>1. UNCHANGED <<disk, firing>>
  BY DEF fileVars, loopVars
<1>2. stage \in [Run -> Stages] /\ to \in Stages /\ to \notin Before
  BY DEF WatchInv, Typed, RunsTyped
<1>3. stage'[r] = to /\ \A s \in Run : s # r => stage'[s] = stage[s]
  BY <1>2
<1>4. RunsTyped'
  BY <1>1, <1>2 DEF WatchInv, Typed, RunsTyped
<1>5. ContextsTyped' /\ SetsTyped'
  BY <1>1 DEF WatchInv, Typed, ContextsTyped, SetsTyped, Exchanged
<1>6. ContextInv'
  BY <1>2, <1>3 DEF WatchInv, ContextInv
<1>7. ReleaseInv'
  BY <1>3 DEF WatchInv, ReleaseInv
<1> QED
  BY <1>4, <1>5, <1>6, <1>7, RunSteps

(* Credentials go into the environment, and are taken out of it.           *)
LEMMA InjectKeeps == ASSUME WatchInv, NEW r \in Run, Inject(r) PROVE WatchInv'
<1>1. /\ stage[r] = "inject" /\ stage' = [stage EXCEPT ![r] = "tests"]
      /\ token' = (IF HasCredentials(r) /\ ctxOf[r] \notin zeroed THEN ctxOf[r] ELSE token)
      /\ keypath' = (IF HasCredentials(r) THEN ctxOf[r] ELSE keypath)
      /\ UNCHANGED <<loopVars, fileVars, loaded, ctxOf, authVars>>
  BY DEF Inject, Goto
<1>2. UNCHANGED <<kind, old, cached, zeroed, keyfiles, handlers>>
  BY <1>1 DEF authVars
<1>3. stage[r] \in Holding /\ "tests" \in Stages \ Before
  BY <1>1 DEF Holding, Stages, Before
<1>4. ctxOf[r] \in Run
  BY <1>3 DEF WatchInv, ContextInv
<1>5. stage \in [Run -> Stages]
  BY DEF WatchInv, Typed, RunsTyped
<1>6. EnvTyped'
  BY <1>1, <1>4, RunsAreNatural DEF WatchInv, Typed, EnvTyped
<1>7. EnvInv'
  <2>1. CASE HasCredentials(r)
    <3>1. Injected(r)'
      BY <1>1, <1>2, <1>4, <1>5, <2>1 DEF Injected, HasCredentials
    <3> QED
      BY <3>1 DEF EnvInv
  <2>2. CASE ~HasCredentials(r)
    <3>1. UNCHANGED <<token, keypath>>
      BY <1>1, <2>2
    <3>2. \A s \in Run : Injected(s) => Injected(s)'
      BY <1>1, <1>2, <1>5 DEF Injected
    <3> QED
      BY <3>1, <3>2 DEF WatchInv, EnvInv
  <2> QED
    BY <2>1, <2>2
<1>8. zeroed \subseteq zeroed' /\ zeroed' \subseteq Run /\ keyfiles' \subseteq keyfiles
  BY <1>2 DEF WatchInv, Typed, SetsTyped
<1> QED
  BY <1>1, <1>2, <1>3, <1>6, <1>7, <1>8, HolderSteps

LEMMA UnsetKeeps == ASSUME WatchInv, NEW r \in Run, Unset(r) PROVE WatchInv'
<1>1. /\ stage[r] = "unset" /\ stage' = [stage EXCEPT ![r] = "cleanup"]
      /\ IF HasCredentials(r) THEN token' = 0 /\ keypath' = 0 ELSE UNCHANGED envVars
      /\ UNCHANGED <<loopVars, fileVars, loaded, ctxOf, authVars>>
  BY DEF Unset, Goto
<1>2. UNCHANGED <<kind, old, cached, zeroed, keyfiles, handlers>>
  BY <1>1 DEF authVars
<1>3. stage[r] \in Holding /\ "cleanup" \in Stages \ Before
  BY <1>1 DEF Holding, Stages, Before
<1>4. stage \in [Run -> Stages]
  BY DEF WatchInv, Typed, RunsTyped
<1>5. CASE HasCredentials(r)
  <2>1. token' = 0 /\ keypath' = 0
    BY <1>1, <1>5
  <2>2. EnvTyped' /\ EnvInv'
    BY <2>1, RunsAreNatural DEF EnvTyped, EnvInv
  <2>3. zeroed \subseteq zeroed' /\ zeroed' \subseteq Run /\ keyfiles' \subseteq keyfiles
    BY <1>2 DEF WatchInv, Typed, SetsTyped
  <2> QED
    BY <1>1, <1>2, <1>3, <2>2, <2>3, HolderSteps
<1>6. CASE ~HasCredentials(r)
  <2>1. UNCHANGED <<token, keypath>>
    BY <1>1, <1>6 DEF envVars
  <2>2. \A s \in Run : Injected(s) => Injected(s)'
    BY <1>1, <1>2, <1>4, <1>6 DEF Injected, HasCredentials
  <2>3. EnvTyped' /\ EnvInv'
    BY <2>1, <2>2 DEF WatchInv, Typed, EnvTyped, EnvInv
  <2>4. zeroed \subseteq zeroed' /\ zeroed' \subseteq Run /\ keyfiles' \subseteq keyfiles
    BY <1>2 DEF WatchInv, Typed, SetsTyped
  <2> QED
    BY <1>1, <1>2, <1>3, <2>3, <2>4, HolderSteps
<1> QED
  BY <1>5, <1>6

(* The keyfile is removed, and the credentials are overwritten.            *)
LEMMA CleanupKeeps == ASSUME WatchInv, NEW r \in Run, CleanupKeyfiles(r) PROVE WatchInv'
<1>1. /\ stage[r] = "cleanup" /\ stage' = [stage EXCEPT ![r] = "zero"]
      /\ keyfiles' = keyfiles \ {ctxOf[r]}
      /\ UNCHANGED <<loopVars, fileVars, loaded, ctxOf, kind, old, cached, zeroed, handlers, envVars>>
  BY DEF CleanupKeyfiles, Goto
<1>2. UNCHANGED <<token, keypath>>
  BY <1>1 DEF envVars
<1>3. stage[r] \in Holding /\ "zero" \in Stages \ Before
  BY <1>1 DEF Holding, Stages, Before
<1>4. stage \in [Run -> Stages]
  BY DEF WatchInv, Typed, RunsTyped
<1>5. \A s \in Run : Injected(s) => Injected(s)'
  BY <1>1, <1>4 DEF Injected
<1>6. EnvTyped' /\ EnvInv'
  BY <1>2, <1>5 DEF WatchInv, Typed, EnvTyped, EnvInv
<1>7. zeroed \subseteq zeroed' /\ zeroed' \subseteq Run /\ keyfiles' \subseteq keyfiles /\ ctxOf[r] \notin keyfiles'
  BY <1>1 DEF WatchInv, Typed, SetsTyped
<1> QED
  BY <1>1, <1>3, <1>6, <1>7, HolderSteps

LEMMA ZeroAllKeeps == ASSUME WatchInv, NEW r \in Run, ZeroAll(r) PROVE WatchInv'
<1>1. /\ stage[r] = "zero" /\ stage' = [stage EXCEPT ![r] = "done"]
      /\ zeroed' = zeroed \cup {ctxOf[r]}
      /\ UNCHANGED <<loopVars, fileVars, loaded, ctxOf, kind, old, cached, keyfiles, handlers, envVars>>
  BY DEF ZeroAll, Goto
<1>2. UNCHANGED <<token, keypath>>
  BY <1>1 DEF envVars
<1>3. stage[r] \in Holding /\ "done" \in Stages \ Before
  BY <1>1 DEF Holding, Stages, Before
<1>4. stage \in [Run -> Stages]
  BY DEF WatchInv, Typed, RunsTyped
<1>5. \A s \in Run : Injected(s) => Injected(s)'
  BY <1>1, <1>4 DEF Injected
<1>6. EnvTyped' /\ EnvInv'
  BY <1>2, <1>5 DEF WatchInv, Typed, EnvTyped, EnvInv
<1>7. ctxOf[r] \in Run /\ ctxOf[r] \notin keyfiles
  BY <1>1, <1>3 DEF WatchInv, ContextInv, ReleaseInv
<1>8. /\ zeroed \subseteq zeroed' /\ zeroed' \subseteq Run /\ keyfiles' \subseteq keyfiles
      /\ ctxOf[r] \in zeroed' /\ ctxOf[r] \notin keyfiles'
  BY <1>1, <1>7 DEF WatchInv, Typed, SetsTyped
<1> QED
  BY <1>1, <1>3, <1>6, <1>8, HolderSteps

-----------------------------------------------------------------------------
(* The theorems.                                                           *)

(* The invariant holds at the start, and each step keeps it.               *)
LEMMA InvInit == Init => WatchInv
<1> SUFFICES ASSUME Init PROVE WatchInv
  OBVIOUS
<1>1. LoopTyped /\ FilesTyped
  <2>1. LoopTyped
    BY DEF Init, LoopTyped
  <2>2. disk \in Versions /\ touched \in 0..Touches
    BY RunsAreNatural, WatchAssumption DEF Init
  <2>3. events \in Seq(0..(Edits + 1))
    BY DEF Init
  <2> QED
    BY <2>1, <2>2, <2>3 DEF FilesTyped
<1>2. /\ \A r \in Run : stage[r] \in {"load", "idle"} /\ kind[r] = "none" /\ ctxOf[r] = 0
      /\ old = {} /\ zeroed = {} /\ keyfiles = {} /\ handlers = {} /\ firing = {}
      /\ token = 0 /\ keypath = 0
  BY DEF Init
<1>3. RunsTyped
  <2>1. 0 \in 0..disk
    BY DEF Init
  <2> QED
    BY <2>1 DEF Init, RunsTyped, Stages
<1>4. ContextsTyped /\ SetsTyped /\ EnvTyped
  BY <1>2, RunsAreNatural DEF Init, ContextsTyped, SetsTyped, EnvTyped
<1>5. ContextInv /\ EnvInv /\ ReleaseInv
  BY <1>2 DEF ContextInv, EnvInv, ReleaseInv, Holding, Before
<1> QED
  BY <1>1, <1>3, <1>4, <1>5 DEF WatchInv, Typed

LEMMA InvStutters == WatchInv /\ UNCHANGED vars => WatchInv'
<1> SUFFICES ASSUME WatchInv, UNCHANGED vars PROVE WatchInv'
  OBVIOUS
<1>1. UNCHANGED <<fallback, loop, timer, signalled, firing, disk, touched, events, runVars, authVars, envVars>>
  BY DEF vars, loopVars, fileVars
<1>2. LoopTyped' /\ FilesTyped' /\ firing' \subseteq Run
  BY <1>1 DEF WatchInv, Typed, LoopTyped, FilesTyped, SetsTyped
<1>3. disk \in Nat /\ disk' \in Nat /\ disk <= disk'
  BY <1>1, WatchAssumption DEF WatchInv, Typed, FilesTyped, Versions
<1> QED
  BY <1>1, <1>2, <1>3, OutsideRuns

LEMMA InvStep == WatchInv /\ [Next]_vars => WatchInv'
<1> SUFFICES ASSUME WatchInv, [Next]_vars PROVE WatchInv'
  OBVIOUS
<1>1. CASE Running
  <2>1. CASE Edit \/ Touch \/ Signal \/ LoopStep \/ Trigger
    BY <2>1, EditKeeps, TouchKeeps, SignalKeeps, StartWatchingKeeps, HandleEventKeeps, ExitKeeps,
       TriggerKeeps DEF LoopStep
  <2>2. ASSUME NEW r \in Run, RunStep(r) PROVE WatchInv'
    BY <2>2, LoadKeeps, ExchangeFailsKeeps, UseCachedKeeps, ExchangeKeeps, InjectKeeps, EndTestsKeeps,
       UnsetKeeps, CleanupKeeps, ZeroAllKeeps DEF RunStep
  <2>3. ASSUME NEW r \in Run, Age(r) \/ HandlerRuns(r) PROVE WatchInv'
    BY <2>3, AgeKeeps, HandlerKeeps
  <2> QED
    BY <1>1, <2>1, <2>2, <2>3 DEF Running
<1>2. CASE UNCHANGED vars
  BY <1>2, InvStutters
<1> QED
  BY <1>1, <1>2 DEF Next, Exited, Resting

(* Overlapping runs, a shared cache and signals keep to the invariant.     *)
THEOREM WatchSound == Spec => []WatchInv
<1> QED
  BY InvInit, InvStep, PTL DEF Spec

(* Every variable keeps its type, and what is cached or handed to a run is *)
(* the result of an exchange that succeeded (ExchangeAllCached).           *)
THEOREM WatchTyped == Spec => []TypeOK
<1>1. WatchInv => TypeOK
  BY TypedIsTypeOK DEF WatchInv
<1> QED
  BY <1>1, WatchSound, PTL

(* However many edits trigger overlapping runs, credentials are in the     *)
(* environment only while some run is between its injection and its removal *)
(* of them (the deferred Unsetenv calls of Run).                           *)
THEOREM NoneAtRest == Spec => []NoCredentialsAtRest
<1>1. WatchInv => NoCredentialsAtRest
  BY DEF WatchInv, EnvInv, Injected, NoCredentialsAtRest
<1> QED
  BY <1>1, WatchSound, PTL

(* When the last run that holds a context is done, its credentials are     *)
(* overwritten and its keyfile is gone (CleanupKeyfiles and ZeroAll).      *)
THEOREM AllReleased == Spec => []ContextsReleased
<1>1. WatchInv => ContextsReleased
  <2> SUFFICES ASSUME WatchInv, NEW e \in Run, kind[e] = "complete",
                      \A r \in Run : ctxOf[r] = e => stage[r] = "done"
               PROVE  e \in zeroed /\ e \notin keyfiles
    BY DEF ContextsReleased
  <2>1. ctxOf[e] = e /\ e # 0
    BY RunsAreNatural DEF WatchInv, ContextInv
  <2>2. stage[e] = "done"
    BY <2>1
  <2> QED
    BY <2>1, <2>2 DEF WatchInv, ReleaseInv
<1> QED
  BY <1>1, WatchSound, PTL

=============================================================================

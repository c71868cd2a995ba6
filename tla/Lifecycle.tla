------------------------------ MODULE Lifecycle -----------------------------
(***************************************************************************)
(* The before_all hooks of a run or of a stress test: RunLifecycleHooks,   *)
(* waitForPort and CleanupBackgroundProcesses                              *)
(* (internal/runner/lifecycle.go), with the processes the hooks start and  *)
(* the timeout context each of them lives under.                           *)
(*                                                                         *)
(* A hook is its position in the list.  A process is the shell that        *)
(* os/exec starts for it; exec.CommandContext kills it as soon as its      *)
(* context is done, also when nobody waits for it.                         *)
(*                                                                         *)
(* Definitions whose comments begin with "Fault:" vary the one after them  *)
(* and take no part in HooksSpec; in place of it, each must break one of   *)
(* the properties.                                                         *)
(***************************************************************************)
EXTENDS Integers, Sequences, FiniteSets

CONSTANTS
  MaxHooks,  \* a bound on the length of a list
  HookLists  \* the lists of hooks a run may be configured with

Hook == [command : BOOLEAN,     \* whether there is a command at all
         background : BOOLEAN, waitForPort : BOOLEAN,
         alwaysRun : BOOLEAN, envPass : BOOLEAN]

ASSUME LifecycleAssumption ==
  /\ MaxHooks \in Nat
  /\ HookLists \subseteq {list \in Seq(Hook) : Len(list) <= MaxHooks}

Positions == 1..MaxHooks

VARIABLES
  hooks,      \* the list of this run
  foreign,    \* whether some other process listens on the awaited ports
  stress,     \* whether StressTest runs the hooks, else Run does
  place,      \* where the caller is
  i,          \* the hook being executed
  firstErr,   \* the hook whose error is returned, 0 without one
  failed,     \* history: hooks that ended in an error
  ran,        \* history: hooks that were executed
  captured,   \* hooks whose KEY=VALUE lines are in envCopy
  proc,       \* the process of each hook
  ctx,        \* its context
  registry    \* backgroundProcesses

lifecycleVars == <<hooks, foreign, stress, place, i, firstErr, failed, ran, captured,
          proc, ctx, registry>>
procVars == <<proc, ctx, registry>>
hookVars == <<i, firstErr, failed, ran, captured>>

Alive == {"up", "listening"}

HooksInit ==
  /\ hooks \in HookLists
  /\ foreign \in BOOLEAN
  /\ stress \in BOOLEAN
  /\ place = "loop"
  /\ i = 1
  /\ firstErr = 0
  /\ failed = {}
  /\ ran = {}
  /\ captured = {}
  /\ proc = [h \in Positions |-> "none"]
  /\ ctx = [h \in Positions |-> "none"]
  /\ registry = {}
-----------------------------------------------------------------------------
(***************************************************************************)
(* The loop of RunLifecycleHooks.                                          *)
(***************************************************************************)
Skipped(h) == ~hooks[h].command \/ (firstErr # 0 /\ ~hooks[h].alwaysRun)

InLoop == place = "loop" /\ i <= Len(hooks)

SkipHook ==
  /\ InLoop
  /\ Skipped(i)
  /\ i' = i + 1
  /\ UNCHANGED <<hooks, foreign, stress, place, firstErr, failed, ran, captured, procVars>>

\* On to the next hook, with or without an error of this one.
NextHook(ok) ==
  /\ i' = i + 1
  /\ place' = "loop"
  /\ IF ok THEN UNCHANGED <<firstErr, failed>>
           ELSE /\ firstErr' = (IF firstErr = 0 THEN i ELSE firstErr)
                /\ failed' = failed \cup {i}

StartFails ==
  /\ InLoop
  /\ ~Skipped(i)
  /\ ran' = ran \cup {i}
  /\ ctx' = [ctx EXCEPT ![i] = "live"]
  /\ NextHook(FALSE)
  /\ UNCHANGED <<hooks, foreign, stress, captured, proc, registry>>

\* Only background processes are registered.
StartHook ==
  /\ InLoop
  /\ ~Skipped(i)
  /\ ran' = ran \cup {i}
  /\ ctx' = [ctx EXCEPT ![i] = "live"]
  /\ proc' = [proc EXCEPT ![i] = "up"]
  /\ IF hooks[i].background
     THEN /\ registry' = registry \cup {i}
          /\ place' = IF hooks[i].waitForPort THEN "port" ELSE "capture"
     ELSE /\ place' = "foreground"
          /\ UNCHANGED registry
  /\ UNCHANGED <<hooks, foreign, stress, i, firstErr, failed, captured>>

\* A hook may or may not have printed its KEY=VALUE lines.
Capture ==
  captured' \in IF hooks[i].envPass THEN {captured, captured \cup {i}} ELSE {captured}

\* cmd.Run returns; lines printed before a failure are captured all the same.
ForegroundEnds ==
  /\ place = "foreground"
  /\ proc[i] \notin Alive
  /\ NextHook(proc[i] = "succeeded")
  /\ Capture
  /\ UNCHANGED <<hooks, foreign, stress, ran, procVars>>

\* Any listener answers the dial, not only the hook's own process.
PortReady ==
  /\ place = "port"
  /\ proc[i] = "listening" \/ foreign
  /\ place' = "capture"
  /\ UNCHANGED <<hooks, foreign, stress, hookVars, procVars>>

\* Fault: the process whose port never opened is left alone.
PortTimesOutOnly ==
  /\ place = "port"
  /\ NextHook(FALSE)
  /\ UNCHANGED <<hooks, foreign, stress, ran, captured, procVars>>

\* startup_timeout is over or the context done: SIGKILL, but it stays registered.
PortTimesOut ==
  /\ place = "port"
  /\ proc' = [proc EXCEPT ![i] = IF @ \in Alive THEN "killed" ELSE @]
  /\ NextHook(FALSE)
  /\ UNCHANGED <<hooks, foreign, stress, ran, captured, ctx, registry>>

\* The buffer is read while the process may still write it.
CaptureBackground ==
  /\ place = "capture"
  /\ Capture
  /\ NextHook(TRUE)
  /\ UNCHANGED <<hooks, foreign, stress, ran, procVars>>

\* Returning runs the deferred cancel of every hook.  Run gives up on an error,
\* StressTest ignores it.
ReturnFromHooks ==
  /\ place = "loop"
  /\ i > Len(hooks)
  /\ ctx' = [h \in Positions |-> IF ctx[h] = "live" THEN "cancelled" ELSE ctx[h]]
  /\ place' = IF firstErr # 0 /\ ~stress THEN "finished" ELSE "tests"
  /\ UNCHANGED <<hooks, foreign, stress, hookVars, proc, registry>>
-----------------------------------------------------------------------------
(***************************************************************************)
(* After the hooks: the tests, and CleanupBackgroundProcesses, which only  *)
(* StressTest calls.                                                       *)
(***************************************************************************)
TestsEnd ==
  /\ place = "tests"
  /\ place' = IF stress THEN "sigterm" ELSE "finished"
  /\ UNCHANGED <<hooks, foreign, stress, hookVars, procVars>>

\* A process may end on SIGTERM or ignore it.
SendSigterm ==
  /\ place = "sigterm"
  /\ \E obeying \in SUBSET registry :
       proc' = [h \in Positions |->
                  IF h \in obeying /\ proc[h] \in Alive THEN "killed" ELSE proc[h]]
  /\ place' = "sigkill"
  /\ UNCHANGED <<hooks, foreign, stress, hookVars, ctx, registry>>

\* Fault: the registry is emptied before its processes are killed.
SendSigkillToNone ==
  /\ place = "sigkill"
  /\ registry' = {}
  /\ place' = "finished"
  /\ UNCHANGED <<hooks, foreign, stress, hookVars, proc, ctx>>

SendSigkill ==
  /\ place = "sigkill"
  /\ proc' = [h \in Positions |->
                IF h \in registry /\ proc[h] \in Alive THEN "killed" ELSE proc[h]]
  /\ registry' = {}
  /\ place' = "finished"
  /\ UNCHANGED <<hooks, foreign, stress, hookVars, ctx>>
-----------------------------------------------------------------------------
(***************************************************************************)
(* The processes and their contexts.                                       *)
(***************************************************************************)
Listen(h) ==
  /\ proc[h] = "up"
  /\ ~foreign
  /\ hooks[h].waitForPort
  /\ proc' = [proc EXCEPT ![h] = "listening"]
  /\ UNCHANGED <<hooks, foreign, stress, place, hookVars, ctx, registry>>

Exit(h) ==
  /\ proc[h] \in Alive
  /\ \E how \in {"succeeded", "exited"} : proc' = [proc EXCEPT ![h] = how]
  /\ UNCHANGED <<hooks, foreign, stress, place, hookVars, ctx, registry>>

\* Fault: the timeout only covers background hooks.
ExpireBackground(h) ==
  /\ ctx[h] = "live"
  /\ hooks[h].background
  /\ ctx' = [ctx EXCEPT ![h] = "expired"]
  /\ UNCHANGED <<hooks, foreign, stress, place, hookVars, proc, registry>>

\* The hook's timeout, which also covers what its background process does later.
Expire(h) ==
  /\ ctx[h] = "live"
  /\ ctx' = [ctx EXCEPT ![h] = "expired"]
  /\ UNCHANGED <<hooks, foreign, stress, place, hookVars, proc, registry>>

KilledByContext(h) ==
  /\ proc[h] \in Alive
  /\ ctx[h] \in {"expired", "cancelled"}
  /\ proc' = [proc EXCEPT ![h] = "killed"]
  /\ UNCHANGED <<hooks, foreign, stress, place, hookVars, ctx, registry>>

Caller ==
  \/ SkipHook \/ StartFails \/ StartHook \/ ForegroundEnds \/ PortReady
  \/ PortTimesOut \/ CaptureBackground \/ ReturnFromHooks
  \/ TestsEnd \/ SendSigterm \/ SendSigkill

Process(h) == Listen(h) \/ Exit(h) \/ Expire(h) \/ KilledByContext(h)

Finished == place = "finished" /\ UNCHANGED lifecycleVars

HooksNext ==
  \/ Caller
  \/ place # "finished" /\ \E h \in Positions : Process(h)
  \/ Finished

\* The caller gets on, timers fire, and the watcher of a done context kills.
HooksFairness ==
  /\ WF_lifecycleVars(Caller)
  /\ \A h \in Positions : WF_lifecycleVars(place # "finished" /\ (Expire(h) \/ KilledByContext(h)))

HooksSpec == HooksInit /\ [][HooksNext]_lifecycleVars /\ HooksFairness
-----------------------------------------------------------------------------
(***************************************************************************)
(* Properties.                                                             *)
(***************************************************************************)
HookPlaces == {"loop", "foreground", "port", "capture", "tests", "sigterm", "sigkill",
           "finished"}

(***************************************************************************)
(* Types; the loop index stays within the list.                            *)
(***************************************************************************)
HooksTypeOK ==
  /\ hooks \in HookLists
  /\ foreign \in BOOLEAN
  /\ stress \in BOOLEAN
  /\ place \in HookPlaces
  /\ i \in 1..(Len(hooks) + 1)
  /\ firstErr \in 0..Len(hooks)
  /\ failed \in SUBSET Positions
  /\ ran \in SUBSET Positions
  /\ captured \in SUBSET Positions
  /\ proc \in [Positions -> Alive \cup {"none", "succeeded", "exited", "killed"}]
  /\ ctx \in [Positions -> {"none", "live", "expired", "cancelled"}]
  /\ registry \in SUBSET Positions

(***************************************************************************)
(* Which of the hooks passed so far were executed is decided by always_run *)
(* and by earlier failures alone, and the error returned is that of the    *)
(* first hook that failed, not of a later always_run one                   *)
(* (RunLifecycleHooks: skipDueToError and firstErr).                       *)
(***************************************************************************)
SkipRule ==
  /\ \A h \in 1..(i - 1) :
       h \in ran <=> /\ hooks[h].command
                     /\ hooks[h].alwaysRun \/ \A f \in failed : f >= h
  /\ failed = {} <=> firstErr = 0
  /\ firstErr # 0 => firstErr \in failed /\ \A f \in failed : firstErr <= f

(***************************************************************************)
(* A background process whose port never became ready is not left behind:  *)
(* it is dead as soon as its hook has failed, and the tests get none of    *)
(* the variables it printed (the error path of waitForPort).               *)
(***************************************************************************)
FailedHookLeavesNothing ==
  \A h \in failed : hooks[h].background => proc[h] \notin Alive /\ h \notin captured

(***************************************************************************)
(* A live background process is always in the registry, so that cleanup    *)
(* can find it, and a foreground process never outlives its hook           *)
(* (backgroundProcesses).                                                  *)
(***************************************************************************)
NoUntrackedProcess ==
  \A h \in Positions : proc[h] \in Alive =>
    IF hooks[h].background THEN h \in registry ELSE place = "foreground" /\ i = h

(***************************************************************************)
(* After a stress test no process of a hook is alive, whether or not it    *)
(* obeys SIGTERM (CleanupBackgroundProcesses).                             *)
(***************************************************************************)
StressLeavesNoProcess ==
  stress /\ place = "finished" => \A h \in Positions : proc[h] \notin Alive

(***************************************************************************)
(* The hooks return and the run ends: a command that hangs and a port that *)
(* never opens are both cut off by a timeout.                              *)
(***************************************************************************)
HooksEnd == <>(place = "finished")

(***************************************************************************)
(* docs/LIFECYCLE.md:115 says that background hooks start the services the *)
(* tests depend on.  Returning from RunLifecycleHooks cancels the contexts *)
(* of their processes, which os/exec answers by killing them.              *)
(***************************************************************************)
ServicesOutliveHooks ==
  [][\A h \in Positions :
       place = "tests" /\ place' = "tests" /\ proc[h] = "listening" /\ ctx[h] # "expired" =>
         proc'[h] # "killed"]_lifecycleVars
=============================================================================

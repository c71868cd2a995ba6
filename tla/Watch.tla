-------------------------------- MODULE Watch -------------------------------
(***************************************************************************)
(* smokesig run --watch with an auth section: the loop of runWatch         *)
(* (cmd/run.go), the runs it triggers, which may overlap, and what they    *)
(* share: the credential cache of ExchangeAllCached (internal/auth),       *)
(* the process environment, and the keyfiles of GCP profiles with their    *)
(* signal handlers.                                                        *)
(*                                                                         *)
(* Run 1 is the initial run, each later one is started by the debounce     *)
(* timer.  A run exchanges credentials at most once, so the AuthContext    *)
(* that run r creates is named r; 0 is none.  The configuration has one    *)
(* version per edit.  What a run does between injecting the credentials    *)
(* and removing them again is module Suite.                                *)
(*                                                                         *)
(* Definitions whose comments begin with "Fault:" vary the one after them  *)
(* and take no part in Spec; in its place, each must break a property.     *)
(***************************************************************************)
EXTENDS Integers, Sequences

CONSTANTS
  Edits,     \* a bound on the changes of the configuration
  Touches,   \* a bound on the chmod-only events
  Fallbacks  \* the values of auth.fallback to look at

ASSUME WatchAssumption ==
  /\ Edits \in Nat
  /\ Touches \in Nat
  /\ Fallbacks \subseteq {"fail", "env"}

\* The timer fires at most once per relevant event.
Run == 1..(Edits + 1)
Contexts == 0..(Edits + 1)
Versions == 1..(Edits + 1)

VARIABLES
  fallback,  \* auth.fallback
  loop,      \* where runWatch is
  disk,      \* the version of the configuration on disk
  touched,   \* chmod-only events so far
  events,    \* the events of the watcher that the loop has not read
  timer,     \* whether the debounce timer is armed
  signalled, \* whether the user has interrupted the program
  firing,    \* keyfile handlers that have received the signal
  stage,     \* where a run is
  loaded,    \* the version a run has loaded, 0 before
  ctxOf,     \* the AuthContext of a run
  kind,      \* what has become of the exchange of a run
  old,       \* contexts with credentials in the refresh window
  cached,    \* cachedCtx
  zeroed,    \* contexts whose credentials are overwritten
  keyfiles,  \* contexts whose keyfile exists
  handlers,  \* contexts whose signal handler is registered
  token,     \* the context whose token is in the environment
  keypath    \* the context whose keyfile the environment names

loopVars == <<fallback, loop, timer, signalled, firing>>
fileVars == <<disk, touched, events>>
runVars == <<stage, loaded, ctxOf>>
authVars == <<kind, old, cached, zeroed, keyfiles, handlers>>
envVars == <<token, keypath>>
vars == <<loopVars, fileVars, runVars, authVars, envVars>>

Init ==
  /\ fallback \in Fallbacks
  /\ loop = "initial"
  /\ timer = FALSE
  /\ signalled = FALSE
  /\ firing = {}
  /\ disk = 1
  /\ touched = 0
  /\ events = <<>>
  /\ stage = [r \in Run |-> IF r = 1 THEN "load" ELSE "idle"]
  /\ loaded = [r \in Run |-> 0]
  /\ ctxOf = [r \in Run |-> 0]
  /\ kind = [r \in Run |-> "none"]
  /\ old = {}
  /\ cached = 0
  /\ zeroed = {}
  /\ keyfiles = {}
  /\ handlers = {}
  /\ token = 0
  /\ keypath = 0
-----------------------------------------------------------------------------
(***************************************************************************)
(* The user and the file system.                                           *)
(***************************************************************************)
\* Changes made before the watcher exists produce no event.
Edit ==
  /\ disk <= Edits
  /\ disk' = disk + 1
  /\ events' = IF loop = "watching" THEN Append(events, disk + 1) ELSE events
  /\ UNCHANGED <<touched, loopVars, runVars, authVars, envVars>>

\* An event that is chmod-only stands as 0.
Touch ==
  /\ loop = "watching"
  /\ touched < Touches
  /\ touched' = touched + 1
  /\ events' = Append(events, 0)
  /\ UNCHANGED <<disk, loopVars, runVars, authVars, envVars>>

\* SIGINT or SIGTERM.  A registered keyfile handler replaces the default action,
\* so an interrupt during the initial run does not end the program.
Signal ==
  /\ ~signalled
  /\ signalled' = TRUE
  /\ firing' = handlers
  /\ loop' = IF loop = "initial" /\ handlers = {} THEN "exited"
             ELSE IF loop = "watching" THEN "stopping" ELSE loop
  /\ UNCHANGED <<fallback, timer, fileVars, runVars, authVars, envVars>>

\* The goroutine of ExchangeGCP that waits for a signal.
HandlerRuns(e) ==
  /\ e \in firing
  /\ firing' = firing \ {e}
  /\ keyfiles' = keyfiles \ {e}
  /\ handlers' = handlers \ {e}
  /\ UNCHANGED <<fallback, loop, timer, signalled, fileVars, runVars, kind, old, cached, zeroed, envVars>>
-----------------------------------------------------------------------------
(***************************************************************************)
(* runWatch.                                                               *)
(***************************************************************************)
StartWatching ==
  /\ loop = "initial"
  /\ stage[1] = "done"
  /\ loop' \in {"watching", "exited"}
  /\ UNCHANGED <<fallback, timer, signalled, firing, fileVars, runVars, authVars, envVars>>

\* Fault: the timer is stopped before the kind of event is looked at.
HandleEventStopsFirst ==
  /\ loop = "watching"
  /\ events # <<>>
  /\ events' = Tail(events)
  /\ timer' = (Head(events) # 0)
  /\ UNCHANGED <<fallback, loop, signalled, firing, disk, touched, runVars, authVars, envVars>>

\* A relevant event stops the timer, if it has not fired, and arms a new one.
HandleEvent ==
  /\ loop = "watching"
  /\ events # <<>>
  /\ events' = Tail(events)
  /\ timer' = (timer \/ Head(events) # 0)
  /\ UNCHANGED <<fallback, loop, signalled, firing, disk, touched, runVars, authVars, envVars>>

\* AfterFunc calls trigger in a goroutine of its own: earlier runs may go on.
Trigger ==
  /\ timer
  /\ timer' = FALSE
  /\ \E r \in Run :
       /\ stage[r] = "idle"
       /\ \A s \in 1..(r - 1) : stage[s] # "idle"
       /\ stage' = [stage EXCEPT ![r] = "load"]
  /\ UNCHANGED <<fallback, loop, signalled, firing, fileVars, loaded, ctxOf, authVars, envVars>>

\* runWatch returns and the program ends, whatever its goroutines are doing.
Exit ==
  /\ loop = "stopping"
  /\ loop' = "exited"
  /\ UNCHANGED <<fallback, timer, signalled, firing, fileVars, runVars, authVars, envVars>>
-----------------------------------------------------------------------------
(***************************************************************************)
(* One run: runOnce and the auth section of Runner.Run.                    *)
(***************************************************************************)
Goto(r, s) == stage' = [stage EXCEPT ![r] = s]

Load(r) ==
  /\ stage[r] = "load"
  /\ loaded' = [loaded EXCEPT ![r] = disk]
  /\ Goto(r, "auth") \/ Goto(r, "done")
  /\ UNCHANGED <<loopVars, fileVars, ctxOf, authVars, envVars>>

\* A context without profiles never needs a refresh.
NeedsRefresh(e) == e \in old

\* ExchangeAll fails, perhaps after an earlier profile left its keyfile behind.
ExchangeFails(r) ==
  /\ stage[r] = "auth"
  /\ cached = 0 \/ NeedsRefresh(cached)
  /\ fallback = "fail"
  /\ \/ /\ kind' = [kind EXCEPT ![r] = "failed"]
        /\ UNCHANGED <<keyfiles, handlers>>
     \/ /\ kind' = [kind EXCEPT ![r] = "partial"]
        /\ keyfiles' = keyfiles \cup {r}
        /\ handlers' = handlers \cup {r}
  /\ Goto(r, "done")
  /\ UNCHANGED <<loopVars, fileVars, loaded, ctxOf, old, cached, zeroed, envVars>>

UseCached(r) ==
  /\ stage[r] = "auth"
  /\ cached # 0
  /\ ~NeedsRefresh(cached)
  /\ ctxOf' = [ctxOf EXCEPT ![r] = cached]
  /\ Goto(r, "inject")
  /\ UNCHANGED <<loopVars, fileVars, loaded, authVars, envVars>>

\* The old context is zeroed and the new one cached, all under cachedMu.
Exchange(r) ==
  /\ stage[r] = "auth"
  /\ cached = 0 \/ NeedsRefresh(cached)
  /\ \/ /\ kind' = [kind EXCEPT ![r] = "complete"]
        /\ keyfiles' = keyfiles \cup {r}
        /\ handlers' = handlers \cup {r}
     \/ /\ fallback = "env"
        /\ kind' = [kind EXCEPT ![r] = "empty"]
        /\ UNCHANGED <<keyfiles, handlers>>
  /\ zeroed' = zeroed \cup ({cached} \ {0})
  /\ cached' = r
  /\ ctxOf' = [ctxOf EXCEPT ![r] = r]
  /\ Goto(r, "inject")
  /\ UNCHANGED <<loopVars, fileVars, loaded, old, envVars>>

HasCredentials(r) == kind[ctxOf[r]] = "complete"

\* Setenv refuses a token of zero bytes, and nobody looks at its error.
Inject(r) ==
  /\ stage[r] = "inject"
  /\ token' = IF HasCredentials(r) /\ ctxOf[r] \notin zeroed THEN ctxOf[r] ELSE token
  /\ keypath' = IF HasCredentials(r) THEN ctxOf[r] ELSE keypath
  /\ Goto(r, "tests")
  /\ UNCHANGED <<loopVars, fileVars, loaded, ctxOf, authVars>>

\* Plugins are loaded and tests run, or a plugin fails to load.
EndTests(r) ==
  /\ stage[r] = "tests"
  /\ Goto(r, "unset")
  /\ UNCHANGED <<loopVars, fileVars, loaded, ctxOf, authVars, envVars>>

\* Fault: overwritten credentials are taken for absent ones.
UnsetUnlessZeroed(r) ==
  /\ stage[r] = "unset"
  /\ IF HasCredentials(r) /\ ctxOf[r] \notin zeroed
     THEN token' = 0 /\ keypath' = 0 ELSE UNCHANGED envVars
  /\ Goto(r, "cleanup")
  /\ UNCHANGED <<loopVars, fileVars, loaded, ctxOf, authVars>>

Unset(r) ==
  /\ stage[r] = "unset"
  /\ IF HasCredentials(r) THEN token' = 0 /\ keypath' = 0 ELSE UNCHANGED envVars
  /\ Goto(r, "cleanup")
  /\ UNCHANGED <<loopVars, fileVars, loaded, ctxOf, authVars>>

\* Fault: a run cleans up what is cached, which another run may have replaced.
CleanupCached(r) ==
  /\ stage[r] = "cleanup"
  /\ keyfiles' = keyfiles \ {cached}
  /\ Goto(r, "zero")
  /\ UNCHANGED <<loopVars, fileVars, loaded, ctxOf, kind, old, cached, zeroed, handlers,
                 envVars>>

CleanupKeyfiles(r) ==
  /\ stage[r] = "cleanup"
  /\ keyfiles' = keyfiles \ {ctxOf[r]}
  /\ Goto(r, "zero")
  /\ UNCHANGED <<loopVars, fileVars, loaded, ctxOf, kind, old, cached, zeroed, handlers,
                 envVars>>

\* The context stays cached.
ZeroAll(r) ==
  /\ stage[r] = "zero"
  /\ zeroed' = zeroed \cup {ctxOf[r]}
  /\ Goto(r, "done")
  /\ UNCHANGED <<loopVars, fileVars, loaded, ctxOf, kind, old, cached, keyfiles, handlers,
                 envVars>>

\* Time passes: the credentials of e come into the refresh window.
Age(e) ==
  /\ kind[e] = "complete"
  /\ e \notin old
  /\ old' = old \cup {e}
  /\ UNCHANGED <<loopVars, fileVars, runVars, kind, cached, zeroed, keyfiles, handlers, envVars>>

RunStep(r) ==
  \/ Load(r) \/ ExchangeFails(r) \/ UseCached(r) \/ Exchange(r) \/ Inject(r)
  \/ EndTests(r) \/ Unset(r) \/ CleanupKeyfiles(r) \/ ZeroAll(r)

LoopStep == StartWatching \/ HandleEvent \/ Exit

Running ==
  \/ Edit \/ Touch \/ Signal \/ LoopStep \/ Trigger
  \/ \E r \in Run : RunStep(r) \/ Age(r) \/ HandlerRuns(r)

\* After the exit of the program only its files are left.
Exited == loop = "exited" /\ UNCHANGED vars

\* Nobody edits or interrupts any more, and everything has come to rest.
Resting == loop = "watching" /\ disk = Edits + 1 /\ events = <<>> /\ UNCHANGED vars

Next == (loop # "exited" /\ Running) \/ Exited \/ Resting

(***************************************************************************)
(* The loop reads its channels, the timer fires, and runs get on (module   *)
(* Suite: Termination); the user need not do anything.                     *)
(***************************************************************************)
Fairness ==
  /\ WF_vars(LoopStep)
  /\ WF_vars(loop # "exited" /\ Trigger)
  /\ \A r \in Run : WF_vars(loop # "exited" /\ RunStep(r))

Spec == Init /\ [][Next]_vars /\ Fairness
-----------------------------------------------------------------------------
(***************************************************************************)
(* Properties.                                                             *)
(***************************************************************************)
Stages == {"idle", "load", "auth", "inject", "tests", "unset", "cleanup", "zero", "done"}

(***************************************************************************)
(* Types; what is cached or handed to a run is the result of an exchange   *)
(* that succeeded (ExchangeAllCached returns early on an error).           *)
(***************************************************************************)
TypeOK ==
  /\ fallback \in Fallbacks
  /\ loop \in {"initial", "watching", "stopping", "exited"}
  /\ timer \in BOOLEAN
  /\ signalled \in BOOLEAN
  /\ disk \in Versions
  /\ touched \in 0..Touches
  /\ events \in Seq(0..(Edits + 1))
  /\ stage \in [Run -> Stages]
  /\ loaded \in [Run -> 0..disk]
  /\ kind \in [Run -> {"none", "complete", "empty", "partial", "failed"}]
  /\ LET exchanged == {r \in Run : kind[r] \in {"complete", "empty"}}
     IN  cached \in exchanged \cup {0} /\ ctxOf \in [Run -> exchanged \cup {0}]
  /\ {old, zeroed, keyfiles, handlers, firing} \subseteq SUBSET Run
  /\ token \in Contexts
  /\ keypath \in Contexts

(***************************************************************************)
(* However runs overlap and share contexts, credentials are in the         *)
(* environment only while some run is between its injection and its        *)
(* removal of them (the deferred Unsetenv calls of Run).                   *)
(***************************************************************************)
NoCredentialsAtRest ==
  (\A r \in Run : stage[r] \notin {"tests", "unset"}) => token = 0 /\ keypath = 0

(***************************************************************************)
(* When the last run that holds a context is done, its credentials are     *)
(* overwritten and its keyfile is gone, also if another run refreshed the  *)
(* cache meanwhile (the deferred CleanupKeyfiles and ZeroAll of Run).      *)
(***************************************************************************)
ContextsReleased ==
  \A e \in Run :
    kind[e] = "complete" /\ (\A r \in Run : ctxOf[r] = e => stage[r] = "done") =>
      e \in zeroed /\ e \notin keyfiles

(***************************************************************************)
(* A change that the watcher reports is picked up by a run that loads it   *)
(* or a later version, whatever other events come in between, unless the   *)
(* user stops the program first (debounce and trigger of runWatch).        *)
(***************************************************************************)
ChangesPickedUp ==
  \A v \in Versions :
    (events # <<>> /\ Head(events) = v) ~>
      ((\E r \in Run : loaded[r] >= v) \/ loop \in {"stopping", "exited"})

(***************************************************************************)
(* internal/auth/exchange.go:67 says that ExchangeAllCached returns cached *)
(* credentials if still valid.  A run zeroes its context on the way out    *)
(* and leaves it in the cache, where the expiration alone is looked at.    *)
(***************************************************************************)
CachedCredentialsLive ==
  [][\A r \in Run : ctxOf'[r] # ctxOf[r] => ctxOf'[r] \notin zeroed]_vars

(***************************************************************************)
(* internal/auth/provider_gcp.go:124 says of the signal handler that it    *)
(* covers abnormal termination.  In watch mode runWatch returns on the     *)
(* same signal and the program may end before the handler has run.         *)
(***************************************************************************)
KeyfilesGoneOnExit ==
  loop = "exited" => \A e \in Run : kind[e] = "complete" => e \notin keyfiles
=============================================================================

------------------------------- MODULE Attempt -------------------------------
(***************************************************************************)
(* One attempt of each of several tests (runTestOnce), running one after   *)
(* another or side by side in one process: the variables of the process    *)
(* that hold credentials, the variables tests hand to each other, and the  *)
(* deferred calls that put things back.  What the assertions decide is     *)
(* module Verdicts.  Retries and the order of tests are module Suite.      *)
(***************************************************************************)
EXTENDS Verdicts, Sequences

CONSTANTS Tests,
          Suites,         \* what may be configured: settings.parallel and a record for each test
          Observed(_, _)  \* the observations a kind of assertion may make of a check

(* A test record: auth, the profile it names or Unset; run, whether it has *)
(* a command; refers, whether that command refers to the one variable of   *)
(* the suite; guarded, whether it would start a test runner inside a run;  *)
(* cleanup, skip, allow; extract, whether it stores the variable; expect,  *)
(* its checks by kind.                                                     *)

AssertionKinds ==
  {"exit", "output", "env", "file", "size", "process", "http", "json", "ssl", "time", "probe",
   "grpc", "container", "image", "url", "service", "s3", "version", "credential", "graphql",
   "deep_link", "dns", "compose", "ping", "k8s", "ios", "android", "docs", "plugin"}
(* The types of the fields that an assertion calculates with or whose      *)
(* values it tells apart.                                                  *)
WellFormed(c, kind, o) ==
  CASE kind = "size"      -> o.size \in Nat /\ {c.min, c.max} \subseteq Nat \cup {Unset}
    [] kind = "ssl"       -> o.daysLeft \in Int /\ c.minDays \in Nat
    [] kind = "http"      -> o.io \in {"ok", "request", "body"}
    [] kind \in {"url", "service", "s3"} -> o.status \in Nat
    [] kind = "graphql"   -> o.json \in {"invalid", "errors", "absent", "data"}
    [] kind = "deep_link" -> c.tier \in {"auto", "full-resolve", "web"} /\ o.tools \subseteq {"adb", "xcrun"}
    [] kind = "compose"   -> o.services = << >> <=> DOMAIN o.services = {}
    [] kind = "plugin"    -> o.details \subseteq BOOLEAN
    [] kind = "docs"      -> /\ DOMAIN o.help = 1 .. Len(o.help) /\ Len(o.help) \in Nat
                             /\ \A i \in DOMAIN o.help :
                                  o.help[i].kind # "entry" => o.help[i].name = Unset
    [] OTHER              -> TRUE

ASSUME AttemptAssumption ==
  /\ Unset # "nothing"
  /\ \A s \in Suites :
       /\ s.parallel \in BOOLEAN
       /\ \A t \in Tests :
            /\ s.spec[t].skip \in BOOLEAN /\ s.spec[t].cleanup \in BOOLEAN
            /\ s.spec[t].guarded \in BOOLEAN
            /\ \A k \in DOMAIN s.spec[t].expect :
                 /\ k \in AssertionKinds
                 /\ \A o \in Observed(k, s.spec[t].expect[k]) : WellFormed(s.spec[t].expect[k], k, o)

VARIABLES
  parallel, \* settings.parallel
  spec,     \* the record of each test
  pc,       \* where each attempt is
  env,      \* the credential in the environment of the process, or Unset
  saved,    \* the credential an attempt has put aside
  stored,   \* the test whose value the variable holds, Unset before the first
  shell,    \* what each command saw: its credential and its text
  exit,     \* how each command ended
  obs,      \* what the assertions of each test observed
  result,   \* the outcome of each attempt
  reports,  \* how often it was reported
  cleaned   \* the credentials its cleanup commands saw, one for each run

config == <<parallel, spec>>
vars == <<parallel, spec, pc, env, saved, stored, shell, exit, obs, result, reports, cleaned>>

NotRun == [auth |-> "none", text |-> "none"]

Init ==
  /\ \E s \in Suites : parallel = s.parallel /\ spec = s.spec
  /\ pc = [t \in Tests |-> "idle"]
  /\ env = Unset /\ stored = Unset
  /\ saved = [t \in Tests |-> "nothing"]
  /\ shell = [t \in Tests |-> NotRun]
  /\ exit = [t \in Tests |-> 0]
  /\ obs = [t \in Tests |-> << >>]
  /\ result = [t \in Tests |-> "none"]
  /\ reports = [t \in Tests |-> 0]
  /\ cleaned = [t \in Tests |-> << >>]

Go(t, from, to) == pc[t] = from /\ pc' = [pc EXCEPT ![t] = to]
ReportAs(t, outcome) ==
  /\ result' = [result EXCEPT ![t] = outcome]
  /\ reports' = [reports EXCEPT ![t] = @ + 1]

-----------------------------------------------------------------------------
(* TestStart; skip_if ends the attempt before anything is deferred.        *)
(* Fault: a test waits for the others of its list, later ones included. *)
Fault_Waiting(t) == ~parallel /\ \E u \in Tests \ {t} : pc[u] # "done"
Waiting(t) == ~parallel /\ \E u \in Tests \ {t} : pc[u] \notin {"idle", "done"}
Begin(t) ==
  /\ ~spec[t].skip /\ ~Waiting(t)
  /\ Go(t, "idle", IF spec[t].auth = Unset THEN "command" ELSE "save")
  /\ UNCHANGED <<config, env, saved, stored, shell, exit, obs, result, reports, cleaned>>
SkipIf(t) ==
  /\ spec[t].skip /\ ~Waiting(t)
  /\ Go(t, "idle", "done")
  /\ ReportAs(t, "skipped")
  /\ UNCHANGED <<config, env, saved, stored, shell, exit, obs, cleaned>>

(* The variables of the profile are saved, then set.                       *)
SaveEnv(t) ==
  /\ Go(t, "save", "swap")
  /\ saved' = [saved EXCEPT ![t] = env]
  /\ UNCHANGED <<config, env, stored, shell, exit, obs, result, reports, cleaned>>
SwapEnv(t) ==
  /\ Go(t, "swap", "command")
  /\ env' = spec[t].auth
  /\ UNCHANGED <<config, saved, stored, shell, exit, obs, result, reports, cleaned>>

(* The command: no command at all goes straight to the assertions; a       *)
(* guarded one is skipped; any other starts with the environment of now.   *)
(* A reference that cannot be resolved leaves the text as it was written.  *)
NoCommand(t) ==
  /\ ~spec[t].run
  /\ Go(t, "command", "assess")
  /\ UNCHANGED <<config, env, saved, stored, shell, exit, obs, result, reports, cleaned>>
RecursionGuard(t) ==
  /\ spec[t].run /\ spec[t].guarded
  /\ Go(t, "command", "restore")
  /\ ReportAs(t, "skipped")
  /\ UNCHANGED <<config, env, saved, stored, shell, exit, obs, cleaned>>
ResolveTemplate(t) ==
  IF ~spec[t].refers THEN "plain" ELSE IF stored = Unset THEN "raw" ELSE "resolved"
StartCommand(t) ==
  /\ spec[t].run /\ ~spec[t].guarded
  /\ Go(t, "command", "running")
  /\ shell' = [shell EXCEPT ![t] = [auth |-> env, text |-> ResolveTemplate(t)]]
  /\ UNCHANGED <<config, env, saved, stored, exit, obs, result, reports, cleaned>>

(* The command exits, or the timeout kills it (-1); in both cases the      *)
(* assertions decide.  If it could not be run at all the attempt fails.    *)
EndCommand(t) ==
  /\ Go(t, "running", "assess")
  /\ \E e \in {-1, 0, 1} : exit' = [exit EXCEPT ![t] = e]
  /\ UNCHANGED <<config, env, saved, stored, shell, obs, result, reports, cleaned>>
CommandError(t) ==
  /\ Go(t, "running", "restore")
  /\ ReportAs(t, IF spec[t].allow THEN "allowed" ELSE "failed")
  /\ UNCHANGED <<config, env, saved, stored, shell, exit, obs, cleaned>>

-----------------------------------------------------------------------------
(* All configured assertions are evaluated, none is cut short by another:  *)
(* what they decide, in the order of the code.  "probe" is any assertion   *)
(* whose answer is only whether a conversation of module Probes went well. *)
CheckTool(c, kind, o) ==
  CASE kind = "compose"    -> CheckDockerComposeHealthy(c, o)
    [] kind = "ping"       -> CheckPing(o)
    [] kind = "k8s"        -> CheckK8sResource(c, o)
    [] kind = "ios"        -> CheckIOSSimulator(c, o)
    [] kind = "android"    -> CheckAndroidEmulator(o)
    [] kind = "docs"       -> CheckDocIntegrity(c, o)
    [] kind = "plugin"     -> PluginResults(o)
CheckReply(c, kind, o) ==
  CASE kind = "credential" -> CheckCredential(c, o)
    [] kind = "graphql"    -> CheckGraphQL(c, o)
    [] kind = "deep_link"  -> CheckDeepLink(c, o)
    [] kind = "dns"        -> CheckDNS(c, o)
    [] OTHER               -> CheckTool(c, kind, o)
CheckServer(c, kind, o) ==
  CASE kind = "probe"      -> One("probe", o.io = "ok")
    [] kind = "grpc"       -> CheckGRPCHealth(o)
    [] kind = "container"  -> CheckDockerContainerRunning(o)
    [] kind = "image"      -> CheckDockerImageExists(o)
    [] kind = "url"        -> CheckURLReachable(c, o)
    [] kind = "service"    -> CheckServiceReachable(o)
    [] kind = "s3"         -> CheckS3Bucket(o)
    [] kind = "version"    -> CheckVersion(c, o)
    [] OTHER               -> CheckReply(c, kind, o)
Check(t, kind, o) ==
  LET c == spec[t].expect[kind]
  IN  CASE kind = "exit"    -> CheckExitCode(c, [exit |-> exit[t]])
        [] kind = "output"  -> CheckOutput(c, o)
        [] kind = "env"     -> CheckEnvExists(o)
        [] kind = "file"    -> CheckFileExists(o)
        [] kind = "size"    -> CheckFileSize(c, o)
        [] kind = "process" -> CheckProcessRunning(c, o)
        [] kind = "http"    -> CheckHTTP(c, o)
        [] kind = "json"    -> CheckJSONField(c, o)
        [] kind = "ssl"     -> CheckSSLCert(c, o)
        [] kind = "time"    -> CheckResponseTime(c, o)
        [] OTHER            -> CheckServer(c, kind, o)

(* Fault: the results of a plugin that failed to run are left out. *)
Fault_Results(t) ==
  UNION {Check(t, k, obs[t][k]) : k \in {x \in DOMAIN obs[t] : x # "plugin" \/ obs[t][x].io = "ok"}}

Results(t) == UNION {Check(t, k, obs[t][k]) : k \in DOMAIN obs[t]}

Assess(t) ==
  /\ pc[t] = "assess"
  /\ \E k \in DOMAIN spec[t].expect \ DOMAIN obs[t] : \E o \in Observed(k, spec[t].expect[k]) :
       obs' = [obs EXCEPT ![t] = [x \in DOMAIN @ \cup {k} |-> IF x = k THEN o ELSE @[x]]]
  /\ UNCHANGED <<config, pc, env, saved, stored, shell, exit, result, reports, cleaned>>

(* Values are stored for later tests only by a test that passed, and an    *)
(* empty value is not stored.                                              *)
(* Fault: values are extracted before the assertions are looked at. *)
Fault_processExtracts(t) ==
  IF spec[t].extract THEN stored' \in {t, stored} ELSE UNCHANGED stored
processExtracts(t) ==
  IF AllPassed(Results(t)) /\ spec[t].extract THEN stored' \in {t, stored}
                                             ELSE UNCHANGED stored
Report(t) ==
  /\ DOMAIN obs[t] = DOMAIN spec[t].expect
  /\ Go(t, "assess", "restore")
  /\ processExtracts(t)
  /\ ReportAs(t, IF AllPassed(Results(t)) THEN "passed"
                 ELSE IF spec[t].allow THEN "allowed" ELSE "failed")
  /\ UNCHANGED <<config, env, saved, shell, exit, obs, cleaned>>

-----------------------------------------------------------------------------
(* The deferred calls, last deferred first: the environment, then cleanup. *)
(* Fault: cleanup is skipped after a command that did not exit with 0. *)
Fault_AfterRestore(t) == IF spec[t].cleanup /\ exit[t] = 0 THEN "cleanup" ELSE "done"
AfterRestore(t) == IF spec[t].cleanup THEN "cleanup" ELSE "done"
(* Fault: only an attempt whose command ran puts the environment back. *)
Fault_RestoreEnv(t) ==
  /\ Go(t, "restore", AfterRestore(t))
  /\ env' = IF saved[t] = "nothing" \/ obs[t] = << >> THEN env ELSE saved[t]
  /\ UNCHANGED <<config, saved, stored, shell, exit, obs, result, reports, cleaned>>
RestoreEnv(t) ==
  /\ Go(t, "restore", AfterRestore(t))
  /\ env' = IF saved[t] = "nothing" THEN env ELSE saved[t]
  /\ UNCHANGED <<config, saved, stored, shell, exit, obs, result, reports, cleaned>>
Cleanup(t) ==
  /\ Go(t, "cleanup", "done")
  /\ cleaned' = [cleaned EXCEPT ![t] = Append(@, env)]
  /\ UNCHANGED <<config, env, saved, stored, shell, exit, obs, result, reports>>

Step(t) == \/ Begin(t) \/ SkipIf(t) \/ SaveEnv(t) \/ SwapEnv(t)
           \/ NoCommand(t) \/ RecursionGuard(t) \/ StartCommand(t)
           \/ EndCommand(t) \/ CommandError(t)
           \/ Assess(t) \/ Report(t) \/ RestoreEnv(t) \/ Cleanup(t)
Next == \E t \in Tests : Step(t)

(* Each attempt runs in a goroutine of its own or in the only one; the     *)
(* command ends because it exits or because its timeout kills it.          *)
Spec == Init /\ [][Next]_vars /\ \A t \in Tests : WF_vars(Step(t))

-----------------------------------------------------------------------------
Outcomes == {"none", "skipped", "passed", "allowed", "failed"}

TypeOK ==
  /\ parallel \in BOOLEAN
  /\ pc \in [Tests -> {"idle", "save", "swap", "command", "running", "assess",
                       "restore", "cleanup", "done"}]
  /\ result \in [Tests -> Outcomes]
  /\ exit \in [Tests -> {-1, 0, 1}]
  /\ stored \in Tests \cup {Unset}

(* What a deep_link check claims: the files that are looked at name the    *)
(* app, and every tool that is there opens the link.                       *)
DeepLinkClaim(c, o) ==
  /\ (c.web /\ c.checkAssetlinks # FALSE) =>
       \E s \in o.assetlinks.statements :
          s.handlesAllUrls /\ c.package \in {Unset, s.package}
  /\ (c.web /\ c.checkAASA # FALSE) =>
       \E a \in o.aasa : \E id \in a.appIDs : c.bundle \in {Unset, id}
  /\ (c.tier # "web" /\ "adb" \in o.tools) => o.adb = "resolved"
  /\ (c.tier # "web" /\ "xcrun" \in o.tools) => o.xcrun = "opened"
  /\ c.tier = "full-resolve" => o.tools # {}

(* What a configured check claims, in terms of what was observed.          *)
Claim(c, k, e, o) ==
  CASE k = "exit"       -> c.exit # Unset => e = c.exit
    [] k = "output"     -> /\ {c.contains, c.matches} \ {Unset} \subseteq o.stdout
                           /\ {c.errContains, c.errMatches} \ {Unset} \subseteq o.stderr
    [] k = "time"       -> c.limit = Unset \/ o.elapsed <= c.limit
    [] k = "json"       -> /\ o.json = "present"
                           /\ {c.contains, c.matches, c.equals} \ {Unset} \subseteq o.value
    [] k = "env"        -> o.env \notin {Unset, ""}
    [] k = "size"       -> o.io = "ok" /\ o.size \in (IF c.min = Unset THEN 0 ELSE c.min)
                                                   .. (IF c.max = Unset THEN o.size ELSE c.max)
    [] k = "credential" -> /\ o.io = "ok" /\ {c.contains} \ {Unset} \subseteq o.text
                           /\ c.source = "env" => o.text # {}
    [] k = "process"    -> o.io = "ok" /\ o.text # {}
    [] k = "version"    -> o.io = "ok" /\ c.pattern \in o.text
    [] k = "ping"       -> o.io = "ok" /\ ~o.allLost
    [] k = "container"  -> o.io = "ok" /\ o.running
    [] k = "compose"    -> /\ o.io = "ok" /\ DOMAIN o.services # {}
                           /\ \A s \in (IF c.services = {} THEN DOMAIN o.services ELSE c.services) :
                                 /\ s \in DOMAIN o.services
                                 /\ o.services[s].state = "running"
                                 /\ o.services[s].health # "unhealthy"
    [] k = "k8s"        -> o.io = "ok" /\ (c.condition = Unset \/ o.status = "True")
    [] k = "ios"        -> o.io = "ok" /\ \E d \in o.devices : d.state = "Booted"
                                        /\ {c.os, c.device} \ {Unset} \subseteq d.runtime \cup d.name
    [] k = "android"    -> o.io = "ok" /\ o.booted
    [] k = "http"       -> /\ o.io = "ok" /\ c.status \in {Unset, o.status}
                           /\ {c.contains, c.matches} \ {Unset} \subseteq o.body
                           /\ {c.header} \ {Unset} \subseteq o.header
    [] k = "ssl"        -> /\ o.io = "ok" /\ o.daysLeft >= c.minDays /\ o.daysLeft >= 0
                           /\ o.trusted \/ c.allowSelfSigned
    [] k = "url"        -> o.io = "ok" /\ IF c.status = Unset THEN o.status \div 100 = 2
                                          ELSE o.status = c.status
    [] k \in {"service", "s3"} -> o.io = "ok" /\ o.status \div 100 = 2
    [] k = "dns"        -> o.io = "ok" /\ {c.expectedIP} \ {Unset} \subseteq o.addrs
    [] k = "grpc"       -> o.tagged /\ o.io = "ok" /\ o.status = "SERVING"
    [] k = "graphql"    -> /\ o.io = "ok" /\ o.json \notin {"invalid", "errors"}
                           /\ o.status = (IF c.status = Unset THEN 200 ELSE c.status)
                           /\ c.types \subseteq o.types
                           /\ {c.contains} \ {Unset} \subseteq o.body
    [] k = "deep_link"  -> DeepLinkClaim(c, o)
    [] k = "docs"       -> /\ \A d \in o.docs : d.readable /\ (c.examples => d.failing = {})
                           /\ \A i \in DOMAIN o.help : o.help[i].kind = "commands" =>
                                LET x == IF i < Len(o.help) THEN o.help[i + 1].name ELSE Unset
                                IN  x \notin {Unset} \cup c.ignore =>
                                      \E d \in o.docs : x \in d.commands
    [] k = "plugin"     -> o.io = "ok" /\ o.pass
    [] OTHER            -> o.io = "ok"

(* The observations that a test passes on without what it claims.          *)
(* A service that compose does not list is not missed                      *)
(* (assertion_docker.go:104); types are not looked for in a reply without  *)
(* data (assertion_graphql.go:118); a plugin that refuses and gives only   *)
(* passing details is not heard (runner.go:1000).                          *)
Loophole(c, k, o) ==
  \/ k = "compose" /\ o.io = "ok" /\ ~(c.services \subseteq DOMAIN o.services)
  \/ k = "graphql" /\ o.io = "ok" /\ o.json = "absent"
  \/ k = "plugin" /\ o.io = "ok" /\ o.details = {TRUE}

(* A test that is reported as passed observed everything its checks claim, *)
(* whatever could not be read, parsed or reached along the way; the three  *)
(* loopholes are the only exceptions.                                      *)
PassIsWarranted ==
  \A t \in Tests : result[t] = "passed" =>
    \A k \in DOMAIN spec[t].expect :
      LET c == spec[t].expect[k]
          o == obs[t][k]
      IN  Claim(c, k, exit[t], o) \/ Loophole(c, k, o)

(* An attempt that is over was reported once, and if it got past skip_if   *)
(* its cleanup ran once, on every way out.                                 *)
LeavesInOrder ==
  \A t \in Tests : pc[t] = "done" =>
    /\ reports[t] = 1
    /\ Len(cleaned[t]) = IF spec[t].cleanup /\ ~spec[t].skip THEN 1 ELSE 0

(* One after another, attempts do not see each other's credentials: every  *)
(* command runs under its own profile, every cleanup under none, and none  *)
(* is left in the environment.                                             *)
CredentialsKeptApart ==
  ~parallel =>
    /\ \A t \in Tests : /\ shell[t].auth \in {spec[t].auth, "none"}
                         /\ \A i \in DOMAIN cleaned[t] : cleaned[t][i] = Unset
    /\ (\A t \in Tests : pc[t] \in {"idle", "done"}) => env = Unset

(* What docs/brainstorming/2026-05-29-oidc-cloud-integration.md:371 says   *)
(* of the override, in whatever order tests run: it is undone.             *)
OverrideIsUndone == (\A t \in Tests : pc[t] = "done") => env = Unset

(* A value is handed on at most by the test that is being reported, and    *)
(* only if it is reported as passed: the value of a test that failed, was  *)
(* skipped or could not run never reaches the command of another.          *)
OnlyPassingTestsHandOn ==
  [][stored' # stored => result'[stored'] = "passed" /\ reports[stored'] = 0]_vars

(* Every attempt ends, cleaned up.                                         *)
EveryAttemptEnds == \A t \in Tests : <>(pc[t] = "done")

=============================================================================

------------------------------ MODULE Authoring ------------------------------
(***************************************************************************)
(* The commands and the tools of the MCP server that write .smokesig.yaml: *)
(* init, audit --fix, migrate goss and observe, and the test that an agent *)
(* pastes; and those that read it.  Nothing keeps two of them apart, and   *)
(* the file is truncated before it is written.                             *)
(***************************************************************************)
EXTENDS Detector, TLC

CONSTANTS Procs,     \* processes at work in one directory
          Work,      \* directories, files and jobs to begin with
          Shared,    \* the tests of the file that others may include
          Unset

(* A job: cmd, force (to overwrite), and what the command is about.        *)
VARIABLES
  dir,       \* the marks of the directory
  before,    \* the file at the start: a document, or Unset
  file,      \* the file now
  job,       \* what each process is for
  pc,        \* where it is
  loaded,    \* what it has loaded
  advice,    \* the recommendations of its last audit
  doc,       \* what it writes
  outcome,   \* how it ended
  disturbed  \* the processes during whose work another one wrote

vars == <<dir, before, file, job, pc, loaded, advice, doc, outcome, disturbed>>

Init ==
  /\ \E w \in Work : dir = w.dir /\ before = w.file /\ job = w.jobs
  /\ file = before
  /\ pc = [p \in Procs |-> "start"]
  /\ loaded = [p \in Procs |-> Unset] /\ doc = [p \in Procs |-> Unset]
  /\ advice = [p \in Procs |-> << >>] /\ outcome = [p \in Procs |-> ""]
  /\ disturbed = {}

Go(p, from, to) == pc[p] = from /\ pc' = [pc EXCEPT ![p] = to]
End(p, from, how) == Go(p, from, "done") /\ outcome' = [outcome EXCEPT ![p] = how]

-----------------------------------------------------------------------------
(* Loading and validating.  An empty file is a document without a version. *)
(* Loading executes the file as a template in which there is nothing but   *)
(* the environment: whatever else stands in braces has no value.  A trace  *)
(* is looked for at a collector that the test or the file has to name; no  *)
(* test that is generated does.                                            *)

Empty  == [ok |-> TRUE, version |-> 0, project |-> "", includes |-> << >>, tests |-> << >>, jaeger |-> FALSE]
Broken == [Empty EXCEPT !.ok = FALSE]
processTemplate(t) == [t EXCEPT !.text = IF @ = "template" THEN "no value" ELSE @]
Load(f) ==
  [f EXCEPT !.tests = FlattenSeq([i \in DOMAIN f.includes |-> Shared]) \o [i \in DOMAIN @ |-> processTemplate(@[i])]]
Loads(f) == f # Unset /\ f.ok
ValidTest(t, jaeger) == /\ t.name # "" /\ (t.run \/ t.kinds \cap Standalone # {}) /\ t.filled
                        /\ "otel_trace" \in t.kinds => jaeger
Valid(cfg) == /\ cfg.version = 1 /\ cfg.project # "" /\ cfg.tests # << >>
              /\ \A i \in DOMAIN cfg.tests : ValidTest(cfg.tests[i], cfg.jaeger)

-----------------------------------------------------------------------------
(* Generating.                                                             *)

(* Goss: a resource is its key, whether the attribute that its kind is     *)
(* about holds or has a value, and the other attributes that it has.  What *)
(* does not hold is dropped without a warning; so are the headers of http. *)
Translation(name, kinds, warned) == [tests |-> <<Test(name, TRUE, FALSE, kinds)>>, warned |-> warned]
Nothing(warned) == [tests |-> << >>, warned |-> warned]

translateProcess(r) ==
  IF r.holds THEN Translation("process", {"exit_code", "process_running"}, FALSE) ELSE Nothing(FALSE)
translatePort(r) ==
  CASE ~r.holds                -> Nothing(FALSE)
    [] r.holds /\ "malformed" \in r.attrs -> Nothing(TRUE)
    [] OTHER                   -> Translation("port", {"exit_code", "port_listening"}, FALSE)
translateCommand(r) ==
  Translation("command", IF r.holds THEN {"exit_code", "stdout_contains"} ELSE {}, "several" \in r.attrs)
translateFile(r) ==
  LET unmapped == Has(r.attrs, {"mode", "owner", "group", "contains", "filetype", "checksum", "size"})
  IN  IF r.holds THEN Translation("file", {"exit_code", "file_exists"}, unmapped) ELSE Nothing(unmapped)
translateHTTP(r) == Translation("http", {"http"}, "several" \in r.attrs)
translatePackage(r) ==
  IF r.holds THEN Translation("package", {"exit_code"}, "version" \in r.attrs) ELSE Nothing(FALSE)
translateService(r) ==
  LET check == <<Test("service", TRUE, FALSE, {"exit_code", "stdout_contains"})>>
  IN  [tests |-> If(r.holds, check) \o If("enabled" \in r.attrs, check), warned |-> r.holds]
translateAddr(r) ==
  CASE ~r.holds                -> Nothing(FALSE)
    [] r.holds /\ "no port" \in r.attrs -> Translation("addr", {"exit_code"}, TRUE)
    [] OTHER                   -> Translation("addr", {"port_listening"}, FALSE)
(* user, group, dns, interface, mount and kernel-param.                    *)
translateByCommand(r) ==
  LET value == IF r.key = "kernel-param" THEN {"stdout_contains"} ELSE {}
  IN  IF r.holds THEN Translation(r.key, {"exit_code"} \cup value, TRUE) ELSE Nothing(FALSE)
Translate(r) ==
  CASE r.key = "process" -> translateProcess(r) [] r.key = "port" -> translatePort(r)
    [] r.key = "command" -> translateCommand(r) [] r.key = "file" -> translateFile(r)
    [] r.key = "http"    -> translateHTTP(r)    [] r.key = "package" -> translatePackage(r)
    [] r.key = "service" -> translateService(r) [] r.key = "addr" -> translateAddr(r)
    [] r.key = "gossfile" -> Nothing(FALSE)     [] OTHER -> translateByCommand(r)
(* What is emitted has tests and nothing else.                             *)
Emit(resources) == [Empty EXCEPT !.tests = FlattenSeq([i \in DOMAIN resources |-> Translate(resources[i]).tests])]
Unmappable(resources) == \E i \in DOMAIN resources : Translate(resources[i]).warned

(* What the observed command printed, listened on and created.             *)
Generate(seen) ==
  Document("command",
    <<Command("command-exit")>>
    \o If("stdout" \in seen, <<Alone("stdout-check", "stdout_contains")>>)
    \o If("port" \in seen,   <<Alone("port", "port_listening")>>)
    \o If("file" \in seen,   <<Alone("file", "file_exists")>>)
    \o If({"port", "page"} \subseteq seen, <<Alone("http", "http")>>))

(* The MCP server's snippets, with the values that it fills in: of kinds   *)
(* it does not know only a comment, of a trace no collector.               *)
SnippetStandalone ==
  {"port_listening", "process_running", "http", "ssl_cert", "redis_ping", "memcached_version",
   "postgres_ping", "mysql_ping", "grpc_health", "docker_container_running", "docker_image_exists",
   "url_reachable", "service_reachable", "s3_bucket", "version_check", "websocket", "otel_trace",
   "credential_check", "graphql"}
SnippetKinds == SnippetStandalone \cup
  {"exit_code", "stdout_contains", "stdout_matches", "stderr_contains", "stderr_matches",
   "file_exists", "env_exists", "json_field", "response_time_ms"}
generateTestYAML(kind) == Test("snippet", kind \notin SnippetStandalone, FALSE, {kind} \cap SnippetKinds)

-----------------------------------------------------------------------------
(* Auditing.  A recommendation is what its message asks for, one of which  *)
(* will do, and what it costs.                                             *)

Advise(condition, weight, asks) == If(condition, <<[asks |-> asks, weight |-> weight]>>)
(* Fault: a kind of assertion that is configured is not noticed.           *)
Fault_collectUsedAssertions(cfg) ==
  (UNION {cfg.tests[i].kinds : i \in DOMAIN cfg.tests}) \ {"docker_compose_healthy"}
collectUsedAssertions(cfg) == UNION {cfg.tests[i].kinds : i \in DOMAIN cfg.tests}
checkAssertionCoverage(used) ==
  LET Lacks(type, kind) == IsType(type, dir) /\ kind \notin used
      images == {"docker_container_running", "docker_image_exists"}
  IN  Advise(Lacks("go", "doc_integrity") /\ "cmd" \in dir, 2, {"doc_integrity"})
      \o Advise(IsType("docker", dir) /\ images \cap used = {}, 2, images)
      \o Advise("Dockerfile" \in dir /\ "docker_image_exists" \notin used, 1, {"docker_image_exists"})
      \o Advise(".env.example" \in dir /\ "env_exists" \notin used, 2, {"env_exists"})
      \o Advise(Lacks("go", "http") /\ "http.ListenAndServe" \in dir, 2, {"http"})
      \o Advise(Lacks("node", "http") /\ Has(dir, {"script start", "script dev"}), 1, {"http"})
      \o Advise("docker-compose.yml" \in dir /\ "docker_compose_healthy" \notin used, 1, {"docker_compose_healthy"})
      \o Advise(Lacks("helm", "k8s_resource"), 1, {"k8s_resource"})
      \o Advise(Lacks("react-native", "deep_link"), 1, {"deep_link"})
      \o Advise(Lacks("ios", "ios_simulator"), 1, {"ios_simulator"})
      \o Advise(Lacks("android", "android_emulator"), 1, {"android_emulator"})
checkBaselineTests(cfg, used) ==
  Advise(~\E i \in DOMAIN cfg.tests : cfg.tests[i].build, 2, {"build test"})
  \o Advise("exit_code" \notin used, 2, {"exit_code"})
Audit(f) ==
  LET cfg  == Load(f)
      used == collectUsedAssertions(cfg)
  IN  CASE f = Unset -> Advise(TRUE, 10, {"init"})
        [] f # Unset /\ ~f.ok -> Advise(TRUE, 10, {"validate"})
        [] OTHER -> Advise(".smoke.yaml" \in dir, 2, {"rename"})
                    \o checkAssertionCoverage(used) \o checkBaselineTests(cfg, used)
Score(recommendations, tests) ==
  Max({0, 10 - FoldLeft(LAMBDA sum, r : sum + r.weight, 0, recommendations) - IF tests = << >> THEN 3 ELSE 0})

(* A fix for what is missing, where there is one; both messages that speak *)
(* of images get one each.                                                 *)
generateFixTests(r) ==
  LET buildable == SelectSeq(Detect(dir), LAMBDA type : type \in {"go", "node", "rust", "python"})
  IN  CASE "doc_integrity" \in r.asks -> <<Alone("Documentation sync", "doc_integrity")>>
        [] "docker_image_exists" \in r.asks ->
             <<Test("Docker image builds", TRUE, TRUE, {"exit_code", "docker_image_exists"})>>
        [] "env_exists" \in r.asks -> <<Test("Required env vars", TRUE, FALSE, {"env_exists"})>>
        [] "http" \in r.asks       -> <<Alone("HTTP health check", "http")>>
        [] "build test" \in r.asks -> If(buildable # << >>, <<Building("Build")>>)
        [] "docker_compose_healthy" \in r.asks ->
             <<Alone("Docker Compose services healthy", "docker_compose_healthy")>>
        [] OTHER -> << >>
Fixes(recommendations) == FlattenSeq([i \in DOMAIN recommendations |-> generateFixTests(recommendations[i])])
(* The configuration is written as it was loaded, with the fixes behind:   *)
(* its includes are kept, and what they include is written as well.        *)
(* Fault: what the file leaves out is filled in.                           *)
Fault_applyFixes(cfg, tests) == [cfg EXCEPT !.version = 1, !.project = "dir", !.tests = @ \o tests]
applyFixes(cfg, tests) == [cfg EXCEPT !.tests = @ \o tests]

-----------------------------------------------------------------------------
(* The processes.                                                          *)

Does(p, cmd) == job[p].cmd = cmd /\ pc[p] = "start"
Exists(p) == file # Unset /\ ~job[p].force
Stop(p, from, how) == End(p, from, how) /\ UNCHANGED <<dir, before, file, job, loaded, advice, doc, disturbed>>
Compose(p, from, text) ==
  /\ Go(p, from, "truncate") /\ doc' = [doc EXCEPT ![p] = text]
  /\ UNCHANGED <<dir, before, file, job, loaded, advice, outcome, disturbed>>

InitRefuses(p) == /\ Does(p, "init")
                  /\ Exists(p) \/ "stopped" \in job[p].flags
                  /\ Stop(p, "start", "refused")
RunInit(p) ==
  /\ Does(p, "init") /\ ~Exists(p) /\ "stopped" \notin job[p].flags
  /\ Compose(p, "start", IF "container" \in job[p].flags THEN InspectContainer(job[p].ports)
                         ELSE GenerateConfig(dir, "docs" \in job[p].flags))
SmokeInitRefuses(p) == /\ Does(p, "smoke_init")
                       /\ Detect(dir) = << >> \/ Exists(p)
                       /\ Stop(p, "start", "refused")
SmokeInit(p) == /\ Does(p, "smoke_init") /\ Detect(dir) # << >> /\ ~Exists(p)
                /\ Compose(p, "start", GenerateConfig(dir, FALSE))
MigrateRefuses(p) ==
  /\ Does(p, "migrate")
  /\ \/ "strict" \in job[p].flags /\ Unmappable(job[p].resources)
     \/ Exists(p)
  /\ Stop(p, "start", "refused")
RunMigrate(p) ==
  /\ Does(p, "migrate") /\ ~Exists(p)
  /\ "strict" \in job[p].flags => ~Unmappable(job[p].resources)
  /\ Compose(p, "start", Emit(job[p].resources))
(* Observe does not look whether there is a file; who runs it may decline. *)
ObserveDeclined(p) == /\ Does(p, "observe") /\ "quiet" \notin job[p].flags
                      /\ Stop(p, "start", "refused")
RunObserve(p) == Does(p, "observe") /\ Compose(p, "start", Generate(job[p].flags))
(* An agent appends the snippet it got to the text of the file.            *)
Paste(p) ==
  /\ Does(p, "generate_test") /\ Loads(file)
  /\ Compose(p, "start", [file EXCEPT !.tests = Append(@, generateTestYAML(job[p].kind))])
PasteFails(p) == Does(p, "generate_test") /\ ~Loads(file) /\ Stop(p, "start", "refused")

(* audit --fix: the audit and the fix each load the file.                  *)
RunAudit(p) ==
  /\ Does(p, "fix")
  /\ IF file = Unset THEN End(p, "start", "no config") ELSE Go(p, "start", "fix") /\ outcome' = outcome
  /\ advice' = [advice EXCEPT ![p] = Audit(file)]
  /\ UNCHANGED <<dir, before, file, job, loaded, doc, disturbed>>
FixFails(p) == ~Loads(file) /\ Stop(p, "fix", "fix error")
NothingToFix(p) == Loads(file) /\ Fixes(advice[p]) = << >> /\ Stop(p, "fix", "audited")
Fix(p) ==
  /\ Loads(file) /\ Fixes(advice[p]) # << >>
  /\ Go(p, "fix", "truncate")
  /\ loaded' = [loaded EXCEPT ![p] = Load(file)]
  /\ doc' = [doc EXCEPT ![p] = applyFixes(Load(file), Fixes(advice[p]))]
  /\ UNCHANGED <<dir, before, file, job, advice, outcome, disturbed>>
AuditAgain(p) ==
  /\ End(p, "audit again", "fixed")
  /\ advice' = [advice EXCEPT ![p] = Audit(file)]
  /\ UNCHANGED <<dir, before, file, job, loaded, doc, disturbed>>

(* smokesig validate, and smoke_run, which does not validate.              *)
Read(p) ==
  /\ Does(p, "validate") \/ Does(p, "smoke_run")
  /\ End(p, "start", IF ~Loads(file) THEN "refused"
                  ELSE IF job[p].cmd = "smoke_run" THEN "run"
                  ELSE IF Valid(Load(file)) THEN "valid" ELSE "invalid")
  /\ loaded' = [loaded EXCEPT ![p] = IF Loads(file) THEN Load(file) ELSE Unset]
  /\ UNCHANGED <<dir, before, file, job, advice, doc, disturbed>>

Disturbed(p) == disturbed \cup {q \in Procs \ {p} : pc[q] \notin {"start", "done"}}
Truncate(p) ==
  /\ Go(p, "truncate", "write")
  /\ file' = Empty /\ disturbed' = Disturbed(p)
  /\ UNCHANGED <<dir, before, job, loaded, advice, doc, outcome>>
(* What another one has written since stays behind a shorter text: it does *)
(* not parse, or its last tests are read as well.                          *)
Tails(p) == {[doc[p] EXCEPT !.tests = @ \o SubSeq(file.tests, i, Len(file.tests))] : i \in 1..Len(file.tests)}
Write(p) ==
  /\ pc[p] = "write"
  /\ IF job[p].cmd = "fix" THEN Go(p, "write", "audit again") /\ outcome' = outcome
                           ELSE End(p, "write", "written")
  /\ file' \in {doc[p]} \cup IF file \in {Empty, doc[p]} THEN {} ELSE {Broken} \cup Tails(p)
  /\ disturbed' = Disturbed(p)
  /\ UNCHANGED <<dir, before, job, loaded, advice, doc>>
Kill(p) == pc[p] # "start" /\ pc[p] # "done" /\ Stop(p, pc[p], "killed")

Step(p) == \/ InitRefuses(p) \/ RunInit(p) \/ SmokeInitRefuses(p) \/ SmokeInit(p)
           \/ MigrateRefuses(p) \/ RunMigrate(p) \/ ObserveDeclined(p) \/ RunObserve(p)
           \/ Paste(p) \/ PasteFails(p) \/ RunAudit(p) \/ FixFails(p) \/ NothingToFix(p)
           \/ Fix(p) \/ AuditAgain(p) \/ Read(p) \/ Truncate(p) \/ Write(p)
Next == \E p \in Procs : Step(p) \/ Kill(p)
Spec == Init /\ [][Next]_vars

-----------------------------------------------------------------------------
(* Properties.                                                             *)

(* The audit that follows a fix, undisturbed by others, finds nothing more *)
(* that could be fixed, so that the next fix will add nothing, and it is   *)
(* no worse than the audit before.                                         *)
FixSettles == \A p \in Procs : outcome[p] = "fixed" /\ p \notin disturbed =>
  /\ Fixes(advice[p]) = << >>
  /\ Score(advice[p], doc[p].tests) >= Score(Audit(loaded[p]), loaded[p].tests)

(* What a command writes can be used.  init writes a valid configuration   *)
(* for every known type of project and for containers, all of whose text   *)
(* survives loading but the first command for a container.  A fix leaves a *)
(* valid file valid; so does a snippet of any kind but a trace in a file   *)
(* that names no collector.  What is migrated lacks but version and        *)
(* project.  What is observed is valid just if nothing was printed or      *)
(* created: those tests have no command.                                   *)
Container(p) == job[p].cmd = "init" /\ "container" \in job[p].flags
InitiatedIsValid(p) ==
  /\ Valid(doc[p]) \/ (job[p].cmd = "init" /\ doc[p].tests = << >> /\ Detect(dir) = << >>)
  /\ \A i \in DOMAIN doc[p].tests : Load(doc[p]).tests[i] = doc[p].tests[i] \/ (Container(p) /\ i = 1)
PastedIsValid(p) ==
  Valid(Load([doc[p] EXCEPT !.tests = Front(@)])) =>
    (Valid(Load(doc[p])) <=> (job[p].kind = "otel_trace" => doc[p].jaeger))
GeneratedIsValid == \A p \in Procs : doc[p] # Unset =>
  /\ job[p].cmd \in {"init", "smoke_init"} => InitiatedIsValid(p)
  /\ job[p].cmd = "fix" /\ Valid(loaded[p]) => Valid(doc[p])
  /\ job[p].cmd = "generate_test" => PastedIsValid(p)
  /\ job[p].cmd = "migrate" =>
       doc[p].tests = << >> \/ Valid([doc[p] EXCEPT !.version = 1, !.project = "dir"])
  /\ job[p].cmd = "observe" => (Valid(doc[p]) <=> job[p].flags \cap {"stdout", "file"} = {})

(* What validates is whole: it has all tests of the file as it was in the  *)
(* beginning, or all of one that a command generated.  A load that fell    *)
(* into the time between truncating and writing is not taken for valid,    *)
(* nor is what a fix makes of it.                                          *)
Elements(seq) == {seq[i] : i \in DOMAIN seq}
Sources == ({before} \ {Unset}) \cup {doc[p] : p \in {q \in Procs : job[q].cmd # "fix" /\ doc[q] # Unset}}
ValidMeansWhole == \A p \in Procs : outcome[p] = "valid" =>
  \E source \in Sources : source.version = 1 /\ Elements(Load(source).tests) \subseteq Elements(loaded[p].tests)

(* README.md:37: the Goss configuration is converted to one of SmokeSig.   *)
(* What is written has no version and no project, and run refuses it.      *)
MigratedIsValid == \A p \in Procs :
  job[p].cmd = "migrate" /\ doc[p] # Unset /\ doc[p].tests # << >> => Valid(doc[p])
(* README.md:29: observing a command generates a configuration with the    *)
(* appropriate assertions.  Those on what it printed or created make the   *)
(* configuration one that run refuses.                                     *)
ObservedIsValid == \A p \in Procs : job[p].cmd = "observe" /\ doc[p] # Unset => Valid(doc[p])
(* internal/mcp/server.go:197: what one gets back is valid YAML to add to  *)
(* .smokesig.yaml.  The snippet for a trace names no collector.            *)
SnippetIsValid == \A p \in Procs :
  job[p].cmd = "generate_test" /\ doc[p] # Unset /\ Valid(Load([doc[p] EXCEPT !.tests = Front(@)])) => Valid(Load(doc[p]))
(* README.md:324: a configuration is generated from a running container.   *)
(* Its first test, once loaded, asks docker for something else.            *)
ContainerAsked == \A p \in Procs : doc[p] # Unset /\ Container(p) => Load(doc[p]).tests[1] = doc[p].tests[1]
(* cmd/audit.go:80: a fix appends to the configuration.  One that includes *)
(* others has their tests twice from then on.                              *)
FixAppends == \A p \in Procs :
  job[p].cmd = "fix" /\ doc[p] # Unset => Load(doc[p]) = applyFixes(loaded[p], Fixes(advice[p]))
=============================================================================

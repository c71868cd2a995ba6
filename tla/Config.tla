------------------------------- MODULE Config -------------------------------
(***************************************************************************)
(* How a configuration comes about: a file is read, its includes are put   *)
(* in front of it one after another, the document that it extends is       *)
(* fetched from a server or taken from a cache on disk that all processes  *)
(* share, the file of an environment is merged, flags override, and the    *)
(* result is validated, except in the suites of a monorepo.                *)
(***************************************************************************)
EXTENDS Kinds, Integers, Sequences, FiniteSets, TLC

CONSTANTS Procs,      \* processes that load a configuration
          Orders,     \* what each may be asked to load
          Files,      \* the files on disk: a document for each path, or Unset
          Remote,     \* the documents that the server publishes, in order
          MaxDepth,   \* how deep includes may go; 10 in the code
          Unset

(* A document: ok (its template and its YAML can be read), version,        *)
(* project, settings, otel, auth, notifications, lifecycle, prereqs,       *)
(* tests, plugins, includes (paths) and extends, "" or where to find it.   *)
(* An order: path, env (the path of an environment's file, or ""), flags   *)
(* and validate.                                                           *)

EmptyDoc ==
  [ok |-> TRUE, version |-> 0, project |-> "",
   settings |-> [timeout |-> 0, fail_fast |-> FALSE, parallel |-> FALSE, monorepo |-> FALSE,
                 allow_plugin_exec |-> FALSE],
   otel |-> [enabled |-> FALSE, jaeger_url |-> ""],
   auth |-> [profiles |-> << >>, fallback |-> ""], notifications |-> << >>, lifecycle |-> << >>,
   prereqs |-> << >>, tests |-> << >>, plugins |-> << >>, includes |-> << >>, extends |-> ""]

Elements(seq) == {seq[i] : i \in DOMAIN seq}
IsSequence(seq) == seq \in Seq(Elements(seq))
IsDocument(doc) ==
  /\ DOMAIN doc = DOMAIN EmptyDoc
  /\ IsSequence(doc.prereqs) /\ IsSequence(doc.tests) /\ IsSequence(doc.includes)

(* Files is what may be found on the disk at the paths that come up: those *)
(* of the orders and of the includes, Unset where nothing is.  No path is  *)
(* empty or a URL.                                                         *)
ASSUME ConfigAssumption ==
  /\ MaxDepth \in Nat
  /\ \A f \in DOMAIN Files :
       Files[f] # Unset => IsDocument(Files[f]) /\ Elements(Files[f].includes) \subseteq DOMAIN Files
  /\ "" \notin DOMAIN Files /\ "http" \notin DOMAIN Files
  /\ IsSequence(Remote) /\ Remote # << >> /\ \A i \in DOMAIN Remote : IsDocument(Remote[i])
  /\ \A o \in Orders : \A p \in Procs :
       o[p].path \in DOMAIN Files /\ o[p].env \in DOMAIN Files \cup {""}

VARIABLES
  order,   \* what each process loads
  pc,      \* where it is
  stack,   \* the files it has open, the innermost last: a path, its document and the next include
  phase,   \* whether it loads the "main" file or that of the environment, "env"
  main,    \* what the main file came to
  entry,   \* what it has read from the cache
  cache,   \* the cache entry on disk: etag and body are versions, 0 is none; or Unset
  server,  \* the version that the server publishes
  result,  \* an error, or "" and a configuration
  used     \* the versions each process has merged, whether its own file extends them,
           \* and whether they are what the server answered, if it did

vars == <<order, pc, stack, phase, main, entry, cache, server, result, used>>

Top(p) == stack[p][Len(stack[p])]
Frame(path) == [path |-> path, doc |-> EmptyDoc, next |-> 1]

Init ==
  /\ order \in Orders
  /\ pc = [p \in Procs |-> "open"]
  /\ stack = [p \in Procs |-> <<Frame(order[p].path)>>]
  /\ phase = [p \in Procs |-> "main"]
  /\ main = [p \in Procs |-> EmptyDoc]
  /\ entry = [p \in Procs |-> Unset]
  /\ cache = Unset /\ server = 1
  /\ result = [p \in Procs |-> Unset] /\ used = [p \in Procs |-> {}]

Go(p, from, to) == pc[p] = from /\ pc' = [pc EXCEPT ![p] = to]
Error(error) == [error |-> error, cfg |-> EmptyDoc]
Fail(p, from, error) ==
  /\ Go(p, from, "done") /\ result' = [result EXCEPT ![p] = Error(error)]
  /\ UNCHANGED <<order, stack, phase, main, entry, cache, server, used>>
Replaced(s, frame) == [s EXCEPT ![Len(s)] = frame]

-----------------------------------------------------------------------------
(* Files and their includes.                                               *)

(* Fault: off by one.                                                      *)
Fault_TooDeep(p) == Len(stack[p]) - 1 >= MaxDepth
TooDeep(p) == Len(stack[p]) - 1 > MaxDepth
OpenFails(p) ==
  LET file == Files[Top(p).path]
  IN  \/ TooDeep(p) /\ Fail(p, "open", "include depth exceeded")
      \/ ~TooDeep(p) /\ file = Unset /\ Fail(p, "open", "reading config")
      \/ ~TooDeep(p) /\ file # Unset /\ ~file.ok /\ Fail(p, "open", "parsing config")
Open(p) ==
  LET file == Files[Top(p).path]
  IN  /\ ~TooDeep(p) /\ file # Unset /\ file.ok
      /\ Go(p, "open", "includes")
      /\ stack' = [stack EXCEPT ![p] = Replaced(@, [Top(p) EXCEPT !.doc = file])]
      /\ UNCHANGED <<order, phase, main, entry, cache, server, result, used>>

Include(p) ==
  /\ Top(p).next <= Len(Top(p).doc.includes)
  /\ Go(p, "includes", "open")
  /\ stack' = [stack EXCEPT ![p] =
                 Append(Replaced(@, [Top(p) EXCEPT !.next = @ + 1]),
                        Frame(Top(p).doc.includes[Top(p).next]))]
  /\ UNCHANGED <<order, phase, main, entry, cache, server, result, used>>

(* The prerequisites and the tests of an included file come first, all     *)
(* else in it is left out.  Fault: they replace those of an include before.*)
Fault_Included(doc, included, own) ==
  [doc EXCEPT !.prereqs = included.prereqs \o own.prereqs, !.tests = included.tests \o own.tests]
Included(doc, included, own) ==
  [doc EXCEPT !.prereqs = included.prereqs \o @, !.tests = included.tests \o @]
Return(p) ==
  LET depth  == Len(stack[p])
      parent == stack[p][depth - 1]
  IN  /\ depth > 1
      /\ Go(p, "return", "includes")
      /\ stack' = [stack EXCEPT ![p] = Replaced(SubSeq(@, 1, depth - 1),
                     [parent EXCEPT !.doc = Included(@, Top(p).doc, Files[parent.path])])]
      /\ UNCHANGED <<order, phase, main, entry, cache, server, result, used>>

-----------------------------------------------------------------------------
(* The document that a file extends.                                       *)

Pick(default, preferred, value) == IF preferred THEN value ELSE default
(* The local document is laid over the remote one, field by field; what is *)
(* not listed is the remote's.                                             *)
MergeConfigs(base, overlay) ==
  LET s == overlay.settings
      o == overlay.otel
  IN  [base EXCEPT
        !.project  = Pick(@, overlay.project # "", overlay.project),
        !.settings = [timeout   |-> Pick(@.timeout, s.timeout > 0, s.timeout),
                      fail_fast |-> s.fail_fast, parallel |-> s.parallel, monorepo |-> s.monorepo,
                      allow_plugin_exec |-> @.allow_plugin_exec \/ s.allow_plugin_exec],
        !.otel     = [enabled |-> o.enabled, jaeger_url |-> Pick(@.jaeger_url, o.jaeger_url # "", o.jaeger_url)],
        !.includes = Pick(@, overlay.includes # << >>, overlay.includes),
        !.prereqs  = @ \o overlay.prereqs,
        !.tests    = @ \o overlay.tests,
        !.plugins  = overlay.plugins @@ @,
        !.extends  = ""]

Extends(p, to) ==
  /\ Top(p).next > Len(Top(p).doc.includes)
  /\ Go(p, "includes", to)
Alone(p) ==
  /\ Top(p).doc.extends = "" /\ Extends(p, "return")
  /\ UNCHANGED <<order, stack, phase, main, entry, cache, server, result, used>>
(* A file URL is read without the cache.                                   *)
ExtendFile(p) ==
  LET file == Files[Top(p).doc.extends]
  IN  /\ Top(p).doc.extends \in DOMAIN Files
      /\ file # Unset /\ file.ok
      /\ Extends(p, "return")
      /\ stack' = [stack EXCEPT ![p] = Replaced(@, [Top(p) EXCEPT !.doc = MergeConfigs(file, @)])]
      /\ UNCHANGED <<order, phase, main, entry, cache, server, result, used>>
ResolveFails(p) ==
  LET url == Top(p).doc.extends
  IN  /\ Top(p).next > Len(Top(p).doc.includes)
      /\ url \notin {"", "http"}
      /\ url \in DOMAIN Files => Files[url] = Unset \/ ~Files[url].ok
      /\ Fail(p, "includes", "resolving extends")

(* fetchHTTP: what the cache holds, if anything, decides on the request.   *)
readCache(p) ==
  /\ Top(p).doc.extends = "http" /\ Extends(p, "request")
  /\ entry' = [entry EXCEPT ![p] = cache]
  /\ UNCHANGED <<order, stack, phase, main, cache, server, result, used>>

Uses(p, body, current) ==
  LET own == Len(stack[p]) = 1 /\ phase[p] = "main"
  IN  used' = [used EXCEPT ![p] = @ \cup {[own |-> own, body |-> body, current |-> current]}]
NotModified(p) ==
  /\ entry[p] # Unset /\ entry[p].etag = server
  /\ Go(p, "request", "merge")
  /\ Uses(p, entry[p].body, entry[p].body = server)
  /\ UNCHANGED <<order, stack, phase, main, entry, cache, server, result>>
(* A network error, a status that is not 200 or a body that breaks off: an *)
(* entry of the cache will do, an empty one as well.                       *)
NoAnswer(p) ==
  \/ /\ entry[p] # Unset
     /\ Go(p, "request", "merge")
     /\ Uses(p, entry[p].body, TRUE)
     /\ UNCHANGED <<order, stack, phase, main, entry, cache, server, result>>
  \/ entry[p] = Unset /\ Fail(p, "request", "fetching URL")
NotYAML(p) == Fail(p, "request", "invalid YAML from remote")
(* The server may tag what it sends.  Fault: the tag of the entry is kept. *)
Fault_Fetched(p, tagged) ==
  [etag |-> IF entry[p] # Unset THEN server ELSE 0, body |-> IF entry[p] # Unset THEN entry[p].body ELSE server]
Fetched(p, tagged) == [etag |-> IF tagged THEN server ELSE 0, body |-> server]
Answer(p) ==
  /\ Go(p, "request", "truncate")
  /\ \E tagged \in BOOLEAN : entry' = [entry EXCEPT ![p] = Fetched(p, tagged)]
  /\ Uses(p, entry'[p].body, entry'[p].body = server)
  /\ UNCHANGED <<order, stack, phase, main, cache, server, result>>

(* writeCache: the file is truncated and then written; a failure is logged.*)
CacheTruncated(p) ==
  /\ Go(p, "truncate", "write")
  /\ cache' = [etag |-> 0, body |-> 0]
  /\ UNCHANGED <<order, stack, phase, main, entry, server, result, used>>
writeCache(p) ==
  /\ Go(p, "write", "merge")
  /\ cache' = entry[p]
  /\ UNCHANGED <<order, stack, phase, main, entry, server, result, used>>
CacheNotWritten(p) ==
  /\ Go(p, "truncate", "merge")
  /\ UNCHANGED <<order, stack, phase, main, entry, cache, server, result, used>>

(* An empty entry is a document without a version.                         *)
RemoteDoc(body) == IF body = 0 THEN EmptyDoc ELSE Remote[body]
Merge(p) ==
  /\ Go(p, "merge", "return")
  /\ RemoteDoc(entry[p].body).ok
  /\ stack' = [stack EXCEPT ![p] = Replaced(@, [Top(p) EXCEPT
                 !.doc = MergeConfigs(RemoteDoc(entry[p].body), @)])]
  /\ entry' = [entry EXCEPT ![p] = Unset]
  /\ UNCHANGED <<order, phase, main, cache, server, result, used>>
MergeFails(p) ==
  /\ pc[p] = "merge" /\ ~RemoteDoc(entry[p].body).ok
  /\ Fail(p, "merge", "processing template in remote config")

-----------------------------------------------------------------------------
(* The file of an environment, the flags, and the validation.              *)

MergeEnv(base, env) ==
  [base EXCEPT
    !.settings = [timeout   |-> Pick(@.timeout, env.settings.timeout > 0, env.settings.timeout),
                  fail_fast |-> @.fail_fast \/ env.settings.fail_fast,
                  parallel  |-> @.parallel \/ env.settings.parallel,
                  monorepo  |-> @.monorepo,
                  allow_plugin_exec |-> @.allow_plugin_exec \/ env.settings.allow_plugin_exec],
    !.prereqs = env.prereqs \o @,
    !.tests   = @ \o env.tests,
    !.plugins = env.plugins @@ @]

(* --no-otel, --no-auth and --otel-collector.                              *)
Override(cfg, flags) ==
  [cfg EXCEPT
    !.otel = [enabled    |-> "collector" \in flags \/ (@.enabled /\ "no-otel" \notin flags),
              jaeger_url |-> Pick(@.jaeger_url, "collector" \in flags, "http")],
    !.auth = IF "no-auth" \in flags THEN [@ EXCEPT !.profiles = << >>] ELSE @]

(* The fields that a kind of assertion requires, and those with a format.  *)
(* A test's checks map a kind to what is filled in and what is malformed.  *)
Required(kind) ==
  CASE kind \in {"url_reachable", "service_reachable", "websocket", "graphql"} -> {"url"}
    [] kind = "docker_container_running" -> {"name"}
    [] kind = "docker_image_exists"      -> {"image"}
    [] kind = "s3_bucket"                -> {"bucket"}
    [] kind = "version_check"            -> {"command", "pattern"}
    [] kind = "credential_check"         -> {"source", "name"}
    [] kind \in {"ping", "ldap_bind"}    -> {"host"}
    [] kind = "kafka_broker"             -> {"brokers"}
    [] kind = "mqtt_ping"                -> {"broker"}
    [] kind = "k8s_resource"             -> {"namespace", "kind", "name"}
    [] kind = "file_size"                -> {"path"}
    [] kind = "doc_integrity"            -> {"binary", "docs"}
    [] OTHER                             -> {}
Wellformed(kind) ==
  CASE kind \in {"url_reachable", "service_reachable"} -> {"url"}
    [] kind = "version_check"    -> {"pattern"}
    [] kind = "websocket"        -> {"url", "expect_matches"}
    [] kind = "credential_check" -> {"source"}
    [] kind = "otel_trace"       -> {"backend", "jaeger_url", "min_spans"}
    [] kind = "file_size"        -> {"bounds"}
    [] OTHER                     -> {}
ValidTrace(check, cfg) ==
  /\ "jaeger_url" \in check.has \/ cfg.otel.jaeger_url # ""
  /\ check.has \cap {"honeycomb", "datadog"} # {} => "api_key" \in check.has

ValidTest(t, cfg) ==
  /\ t.name # ""
  /\ t.run \/ DOMAIN t.checks \cap Standalone # {} \/ t.plugins # {}
  /\ t.retry # Unset => t.retry.count >= 1 /\ t.retry.backoff > 0
                        /\ (t.retry.trace_only => "otel_trace" \in DOMAIN t.checks)
  /\ \A kind \in DOMAIN t.checks :
       /\ Required(kind) \subseteq t.checks[kind].has
       /\ Wellformed(kind) \cap t.checks[kind].bad = {}
       /\ kind = "otel_trace" => ValidTrace(t.checks[kind], cfg)
  /\ t.plugins \subseteq DOMAIN cfg.plugins
ValidOTel(cfg) == cfg.otel.enabled => cfg.otel.jaeger_url \in {"http", "https"}
(* Profiles: name, provider, filled and malformed fields.  Without any the *)
(* profiles that tests name are not looked for.                            *)
ProfileFields(provider) ==
  CASE provider = "aws"   -> {"role_arn"}
    [] provider = "gcp"   -> {"workload_identity_provider", "service_account_email"}
    [] provider = "azure" -> {"tenant_id", "client_id"}
ValidAuth(cfg) ==
  LET profiles == cfg.auth.profiles
      names    == {profiles[i].name : i \in DOMAIN profiles}
  IN  profiles # << >> =>
        /\ cfg.auth.fallback \in {"", "env", "fail"}
        /\ Cardinality(names) = Len(profiles)
        /\ \A i \in DOMAIN profiles :
             /\ profiles[i].provider \in {"aws", "gcp", "azure"}
             /\ ProfileFields(profiles[i].provider) \subseteq profiles[i].has
             /\ profiles[i].bad \cap {"role_arn", "gcp_credential_format", "session_duration"} = {}
        /\ \A i \in DOMAIN cfg.tests : cfg.tests[i].auth \in names \cup {""}
ValidNotifications(cfg) == \A i \in DOMAIN cfg.notifications :
  LET n == cfg.notifications[i]
  IN  n.url # "" /\ n.format \in {"slack", "pagerduty", "json"}
      /\ n.on \in {"", "failure", "always", "change"}
ValidHooks(cfg) == \A i \in DOMAIN cfg.lifecycle :
  LET h == cfg.lifecycle[i]
  IN  h.command # "" /\ (h.background /\ h.at \in {"before_all", "before_each"} => h.bounded)
ValidPlugins(cfg) == \A name \in DOMAIN cfg.plugins :
  LET capabilities == cfg.plugins[name].capabilities
  IN  /\ cfg.plugins[name].path # ""
      /\ capabilities \subseteq {"network", "env", "time", "fs_read", "exec"}
      /\ "exec" \in capabilities => cfg.settings.allow_plugin_exec
Validate(cfg) ==
  /\ cfg.version = 1 /\ cfg.project # "" /\ cfg.tests # << >>
  /\ \A i \in DOMAIN cfg.tests : ValidTest(cfg.tests[i], cfg)
  /\ ValidOTel(cfg) /\ ValidAuth(cfg) /\ ValidNotifications(cfg) /\ ValidHooks(cfg) /\ ValidPlugins(cfg)

LoadEnv(p) ==
  /\ Len(stack[p]) = 1 /\ phase[p] = "main" /\ order[p].env # ""
  /\ Go(p, "return", "open")
  /\ main' = [main EXCEPT ![p] = Top(p).doc]
  /\ phase' = [phase EXCEPT ![p] = "env"]
  /\ stack' = [stack EXCEPT ![p] = <<Frame(order[p].env)>>]
  /\ UNCHANGED <<order, entry, cache, server, result, used>>
Loaded(p) ==
  Override(IF phase[p] = "env" THEN MergeEnv(main[p], Top(p).doc) ELSE Top(p).doc, order[p].flags)
Finish(p) ==
  /\ Len(stack[p]) = 1 /\ (phase[p] = "env" \/ order[p].env = "")
  /\ Go(p, "return", "done")
  /\ result' = [result EXCEPT ![p] =
                  IF order[p].validate => Validate(Loaded(p))
                  THEN [error |-> "", cfg |-> Loaded(p)] ELSE Error("validation failed")]
  /\ UNCHANGED <<order, stack, phase, main, entry, cache, server, used>>

-----------------------------------------------------------------------------
Kill(p) ==
  /\ pc[p] # "done"
  /\ pc' = [pc EXCEPT ![p] = "done"] /\ result' = [result EXCEPT ![p] = Error("killed")]
  /\ UNCHANGED <<order, stack, phase, main, entry, cache, server, used>>
Publish ==
  /\ server < Len(Remote)
  /\ server' = server + 1
  /\ UNCHANGED <<order, pc, stack, phase, main, entry, cache, result, used>>

Step(p) == \/ OpenFails(p) \/ Open(p) \/ Include(p) \/ Return(p)
           \/ Alone(p) \/ ExtendFile(p) \/ ResolveFails(p) \/ readCache(p)
           \/ NotModified(p) \/ NoAnswer(p) \/ NotYAML(p) \/ Answer(p)
           \/ CacheTruncated(p) \/ writeCache(p) \/ CacheNotWritten(p)
           \/ Merge(p) \/ MergeFails(p) \/ LoadEnv(p) \/ Finish(p)
Next == Publish \/ \E p \in Procs : Step(p) \/ Kill(p)
(* A request has a deadline of 30 seconds, everything else is local.       *)
Spec == Init /\ [][Next]_vars

-----------------------------------------------------------------------------
(* Properties.                                                             *)

Succeeds(p) == result[p] # Unset /\ result[p].error = ""
Includes(f) == IF Files[f] = Unset THEN {} ELSE Elements(Files[f].includes)
(* The files that a path includes over so many steps.                      *)
Level(path) ==
  LET level[d \in 0..MaxDepth + 1] ==
        IF d = 0 THEN {path} ELSE UNION {Includes(f) : f \in level[d - 1]}
  IN  level
Reached(path) == UNION {Level(path)[d] : d \in 0..MaxDepth}
Paths(p) == {order[p].path} \cup ({order[p].env} \ {""})
FilesOf(p) ==
  LET reached == UNION {Reached(path) : path \in Paths(p)}
  IN  reached \cup ({Files[f].extends : f \in reached} \cap DOMAIN Files)

(* Loading loses and invents nothing: a configuration has exactly the      *)
(* prerequisites and tests of the files that it reaches by includes, of    *)
(* those of the environment's and of the documents they extend; and its    *)
(* own tests run in order and after all that it includes or extends.       *)
NothingLost == \A p \in Procs : Succeeds(p) =>
  LET cfg     == result[p].cfg
      docs    == {Files[f] : f \in FilesOf(p)} \cup {RemoteDoc(u.body) : u \in used[p]}
      own     == Files[order[p].path].tests
      shared  == (UNION {Elements(d.tests) : d \in docs})
                   \ (UNION {Elements(Files[f].tests) : f \in Paths(p)})
  IN  /\ Elements(cfg.tests) = UNION {Elements(d.tests) : d \in docs}
      /\ Elements(cfg.prereqs) = UNION {Elements(d.prereqs) : d \in docs}
      /\ \E n \in 0..Len(cfg.tests) - Len(own) :
           /\ SubSeq(cfg.tests, n + 1, n + Len(own)) = own
           /\ order[p].env = "" => n + Len(own) = Len(cfg.tests)
           /\ \A i \in DOMAIN cfg.tests : cfg.tests[i] \in shared /\ i > n + Len(own) => order[p].env # ""

(* Includes that go more than MaxDepth deep, which those in a circle do,   *)
(* never load, and none are refused for their depth that do not.           *)
DepthIsExact == \A p \in Procs : result[p] # Unset =>
  LET deep == \E path \in Paths(p) : Level(path)[MaxDepth + 1] # {}
  IN  /\ Succeeds(p) => ~deep
      /\ result[p].error = "include depth exceeded" => deep

(* A validated configuration has merged documents that the server did      *)
(* publish, and where the server answered the one it published then.  The  *)
(* empty entry, which a writer of the cache leaves while it writes or when *)
(* it is killed, fails the validation if the file itself extends it, since *)
(* it has no version.  Nobody looks at the version of a file that is       *)
(* included, nor at an environment's: there it goes unnoticed.             *)
RemoteIsPublished == \A p \in Procs :
  Succeeds(p) /\ order[p].validate => \A u \in used[p] :
    u.current /\ u.body \in 0..server /\ (u.own => u.body # 0)

(* SPEC.md:34: the local configuration overlays the remote one.  Not so:   *)
(* its auth, lifecycle and notifications are those of the remote.          *)
LocalOverlaysRemote == \A p \in Procs : Succeeds(p) =>
  LET own == Files[order[p].path]
      cfg == result[p].cfg
  IN  /\ own.auth # EmptyDoc.auth /\ "no-auth" \notin order[p].flags => cfg.auth = own.auth
      /\ own.lifecycle # << >> => cfg.lifecycle = own.lifecycle
      /\ own.notifications # << >> => cfg.notifications = own.notifications

=============================================================================

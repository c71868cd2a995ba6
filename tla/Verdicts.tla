------------------------------ MODULE Verdicts ------------------------------
(***************************************************************************)
(* What each assertion of internal/runner decides once its observation is  *)
(* in hand.  An assertion gets its check c (the fields of the              *)
(* configuration, Unset where the author left one out) and an observation  *)
(* o (what the command, the file, the server or the tool answered), and    *)
(* returns the set of its results.  How a networked assertion obtains the  *)
(* observation is module Probes.                                           *)
(*                                                                         *)
(* A text is the set of the fragments it contains; a pattern is the        *)
(* fragment it matches, or BadRegex, which does not compile.  o.io is "ok" *)
(* when the observation could be made at all.                              *)
(***************************************************************************)
EXTENDS Integers, FiniteSets, Sequences

CONSTANTS Unset,      \* a field the configuration leaves out
          BadRegex    \* a pattern that does not compile

Result(type, passed) == [type |-> type, passed |-> passed]
One(type, passed) == {Result(type, passed)}
When(cond, type, passed) == IF cond THEN One(type, passed) ELSE {}

AllPassed(results) == \A r \in results : r.passed

(* regexp.MatchString answers an error for a bad pattern; every caller     *)
(* reports that as a failed result.                                        *)
Matches(text, pattern) == pattern # BadRegex /\ pattern \in text

-----------------------------------------------------------------------------
(* Assertions on the command that ran.                                     *)

CheckExitCode(c, o) == When(c.exit # Unset, "exit_code", o.exit = c.exit)

CheckOutput(c, o) ==
  When(c.contains # Unset, "stdout_contains", c.contains \in o.stdout)
    \cup When(c.matches # Unset, "stdout_matches", Matches(o.stdout, c.matches))
    \cup When(c.errContains # Unset, "stderr_contains", c.errContains \in o.stderr)
    \cup When(c.errMatches # Unset, "stderr_matches", Matches(o.stderr, c.errMatches))

CheckResponseTime(c, o) ==
  When(c.limit # Unset, "response_time_ms", o.elapsed <= c.limit)

(* The value of a JSON field of the command's output.  A check that names  *)
(* a field and nothing else has no result at all when the field is there.  *)
CheckJSONField(c, o) ==
  IF o.json # "present" THEN One("json_field", FALSE)
  ELSE When(c.equals # Unset, "json_field_equals", o.value = {c.equals})
         \cup When(c.contains # Unset, "json_field_contains", c.contains \in o.value)
         \cup When(c.matches # Unset, "json_field_matches", Matches(o.value, c.matches))

-----------------------------------------------------------------------------
(* Assertions on the machine: environment, files, credentials, processes.  *)

CheckEnvExists(o) == One("env_exists", o.env \notin {Unset, ""})

CheckFileExists(o) == One("file_exists", o.io = "ok")

CheckFileSize(c, o) ==
  One("file_size", /\ o.io = "ok"
                   /\ c.min # Unset => o.size >= c.min
                   /\ c.max # Unset => o.size <= c.max)

(* The source of a credential is the environment, a file or a command; an  *)
(* empty variable counts as absent, an empty file or output does not.      *)
CheckCredential(c, o) ==
  One("credential_check",
      /\ c.source \in {"env", "file", "exec"}
      /\ o.io = "ok"
      /\ c.source = "env" => o.text # {}
      /\ c.contains # Unset => c.contains \in o.text)

CheckProcessRunning(c, o) ==
  One("process_running", c.name # "" /\ o.io = "ok" /\ o.text # {})

CheckVersion(c, o) == One("version_check", o.io = "ok" /\ Matches(o.text, c.pattern))

CheckPing(o) == One("ping", o.io = "ok" /\ ~o.allLost)

-----------------------------------------------------------------------------
(* Assertions answered by a tool: docker, kubectl, xcrun, adb.             *)

CheckDockerContainerRunning(o) ==
  One("docker_container_running", o.io = "ok" /\ o.running)
CheckDockerImageExists(o) == One("docker_image_exists", o.io = "ok")

(* o.services maps each listed service to its state and health; c.services *)
(* filters the listed ones, and an empty filter keeps all.                 *)
CheckDockerComposeHealthy(c, o) ==
  LET kept == IF c.services = {} THEN DOMAIN o.services
              ELSE DOMAIN o.services \cap c.services
  IN  One("docker_compose_healthy",
          /\ o.io = "ok"
          /\ o.services # << >>
          /\ \A s \in kept : /\ o.services[s].state = "running"
                             /\ o.services[s].health \in {"", "healthy"})

CheckK8sResource(c, o) ==
  One("k8s_resource", o.io = "ok" /\ (c.condition # Unset => o.status = "True"))

(* o.devices is the set of simulators listed, each with its state, runtime *)
(* and name (sets of fragments); filters that are Unset keep every one.    *)
CheckIOSSimulator(c, o) ==
  One("ios_simulator",
      /\ o.io = "ok"
      /\ \E d \in o.devices : /\ d.state = "Booted"
                              /\ c.os # Unset => c.os \in d.runtime
                              /\ c.device # Unset => c.device \in d.name)

CheckAndroidEmulator(o) == One("android_emulator", o.io = "ok" /\ o.booted)

-----------------------------------------------------------------------------
(* Assertions answered by a server over HTTP, TLS, DNS or gRPC.            *)

CheckHTTP(c, o) ==
  IF o.io = "request" THEN One("http_request", FALSE)
  ELSE IF o.io = "body" THEN One("http_body", FALSE)
  ELSE When(c.status # Unset, "http_status", o.status = c.status)
         \cup When(c.contains # Unset, "http_body_contains", c.contains \in o.body)
         \cup When(c.matches # Unset, "http_body_matches", Matches(o.body, c.matches))
         \cup When(c.header # Unset, "http_header_contains", c.header \in o.header)

CheckSSLCert(c, o) ==
  One("ssl_cert", /\ o.io = "ok"
                  /\ o.trusted \/ c.allowSelfSigned
                  /\ o.daysLeft >= 0
                  /\ c.minDays > 0 => o.daysLeft >= c.minDays)

is2xx(status) == status \in 200 .. 299

CheckURLReachable(c, o) ==
  One("url_reachable", o.io = "ok" /\ IF c.status # Unset THEN o.status = c.status
                                      ELSE is2xx(o.status))
CheckServiceReachable(o) == One("service_reachable", o.io = "ok" /\ is2xx(o.status))
CheckS3Bucket(o) == One("s3_bucket", o.io = "ok" /\ o.status # 403 /\ is2xx(o.status))

CheckDNS(c, o) ==
  One("dns_resolve", /\ c.recordType \in {"A", "AAAA", "TXT", "MX", "CNAME"}
                     /\ o.io = "ok"
                     /\ c.expectedIP # Unset => c.expectedIP \in o.addrs)

(* Built without the grpc tag the assertion always fails, and says so.     *)
CheckGRPCHealth(o) == One("grpc_health", o.tagged /\ o.io = "ok" /\ o.status = "SERVING")

(* A reply that is not JSON, or that carries errors, stops the checks.  A  *)
(* reply without data ("absent") leaves the expected types unchecked.      *)
CheckGraphQL(c, o) ==
  IF o.io # "ok" THEN One("graphql_request", FALSE)
  ELSE One("graphql_status", o.status = (IF c.status = Unset THEN 200 ELSE c.status))
    \cup (IF o.json = "invalid" THEN One("graphql_parse", FALSE)
          ELSE IF o.json = "errors" THEN One("graphql_errors", FALSE)
          ELSE When(c.types # {} /\ o.json = "data", "graphql_types", c.types \subseteq o.types)
                 \cup When(c.contains # Unset, "graphql_contains", c.contains \in o.body)
                 \cup When(c.types = {} /\ c.contains = Unset, "graphql_introspection", TRUE))

-----------------------------------------------------------------------------
(* Deep links.  Each web check may be switched off; the resolving tools    *)
(* are tried for "auto" and "full-resolve".                                *)

CheckAssetlinks(c, o) ==
  One("deep_link.assetlinks",
      /\ o.assetlinks.io = "ok" /\ o.assetlinks.status = 200
      /\ o.assetlinks.json = "data"
      /\ \E s \in o.assetlinks.statements :
            /\ s.handlesAllUrls /\ s.namespace = "android_app"
            /\ c.package # Unset => s.package = c.package)

(* Two well-known places are tried; whatever goes wrong with one of them,  *)
(* the other one decides.                                                  *)
CheckAASA(c, o) ==
  One("deep_link.aasa",
      \E a \in o.aasa : /\ a.io = "ok" /\ a.status = 200 /\ a.json = "data"
                        /\ \E id \in a.appIDs : c.bundle \in {Unset, id})

resolveDeepLink(o) ==
  When("adb" \in o.tools, "deep_link.resolve.android", o.adb = "resolved")
    \cup When("xcrun" \in o.tools, "deep_link.resolve.ios", o.xcrun = "opened")

CheckDeepLink(c, o) ==
  (IF c.web THEN (IF c.checkAssetlinks # FALSE THEN CheckAssetlinks(c, o) ELSE {})
                   \cup (IF c.checkAASA # FALSE THEN CheckAASA(c, o) ELSE {})
            ELSE {})
    \cup (IF c.tier \notin {"auto", "full-resolve"} THEN {}
          ELSE IF o.tools # {} THEN resolveDeepLink(o)
          ELSE When(c.tier = "full-resolve", "deep_link.resolve", FALSE))

-----------------------------------------------------------------------------
(* Documentation against the program's own help.  o.help is its lines,     *)
(* each a heading ("commands" or another "section"), a "blank" or an       *)
(* "entry" with the name it begins with (Unset if that is no name);        *)
(* o.flags[x] is what the help of command x mentions, o.docs the files.    *)

(* Entries count from a heading of commands up to a blank or another       *)
(* heading.                                                                *)
parseHelpCommands(help) ==
  {help[i].name : i \in {i \in DOMAIN help :
     /\ help[i].kind = "entry"
     /\ \E j \in 1 .. i - 1 : /\ help[j].kind = "commands"
                            /\ \A m \in j + 1 .. i - 1 : help[m].kind \notin {"blank", "section"}}}
    \ {Unset}

(* One unreadable file spoils the comparison, but only that file's         *)
(* examples are left out.                                                  *)
parseDocFiles(o) == [commands |-> UNION {d.commands : d \in o.docs},
                     flags    |-> UNION {d.flags : d \in o.docs}]
checkDocExamples(o) == UNION {d.failing : d \in {d \in o.docs : d.readable}}

CheckDocIntegrity(c, o) ==
  LET actual       == parseHelpCommands(o.help) \ c.ignore
      doc          == parseDocFiles(o)
      undocumented == actual \ doc.commands
      stale        == (doc.commands \ actual) \ c.ignore
      flags        == (UNION {o.flags[x] : x \in actual \cap DOMAIN o.flags}) \ doc.flags
      examples     == IF c.examples THEN checkDocExamples(o) ELSE {}
  IN  One("doc_integrity", /\ o.binary /\ o.help # << >> /\ \A d \in o.docs : d.readable
                           /\ undocumented \cup stale \cup flags \cup examples = {})

-----------------------------------------------------------------------------
(* A plugin's answer: an error fails the test; otherwise each detail is a  *)
(* result, and a bare refusal (no detail) is one of its own.               *)

PluginResults(o) ==
  IF o.io # "ok" THEN One("plugin:error", FALSE)
  ELSE {Result("plugin:detail", d) : d \in o.details}
         \cup When(~o.pass /\ o.details = {}, "plugin", FALSE)

=============================================================================

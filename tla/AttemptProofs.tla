---------------------------- MODULE AttemptProofs ----------------------------
(***************************************************************************)
(* Proofs about Attempt and Verdicts: what results that all passed are     *)
(* enough for, the ways out of an attempt, what tests hand to each other,  *)
(* and the credentials in the environment.                                 *)
(***************************************************************************)
EXTENDS Attempt, TLAPS

-----------------------------------------------------------------------------
(* The assertions: one lemma for each kind of check that is more than one  *)
(* condition, and Verdict for all of them.                                 *)

(* Results that were put together all passed only if each part did.        *)
LEMMA AllOfTwo ==
  ASSUME NEW A, NEW B, AllPassed(A \cup B)
  PROVE  AllPassed(A) /\ AllPassed(B)
BY DEF AllPassed

LEMMA AllOfFour ==
  ASSUME NEW A, NEW B, NEW C, NEW D, AllPassed(A \cup B \cup C \cup D)
  PROVE  AllPassed(A) /\ AllPassed(B) /\ AllPassed(C) /\ AllPassed(D)
BY DEF AllPassed

LEMMA OutputSound ==
  ASSUME NEW c, NEW o, AllPassed(CheckOutput(c, o))
  PROVE  /\ {c.contains, c.matches} \ {Unset} \subseteq o.stdout
         /\ {c.errContains, c.errMatches} \ {Unset} \subseteq o.stderr
<1> DEFINE A == When(c.contains # Unset, "stdout_contains", c.contains \in o.stdout)
           B == When(c.matches # Unset, "stdout_matches", Matches(o.stdout, c.matches))
           C == When(c.errContains # Unset, "stderr_contains", c.errContains \in o.stderr)
           D == When(c.errMatches # Unset, "stderr_matches", Matches(o.stderr, c.errMatches))
<1>0. AllPassed(A \cup B \cup C \cup D)
  BY DEF CheckOutput
<1>1. AllPassed(A) /\ AllPassed(B) /\ AllPassed(C) /\ AllPassed(D)
  <2> HIDE DEF A, B, C, D
  <2> QED
    BY <1>0, AllOfFour
<1>2. c.contains # Unset => c.contains \in o.stdout
  BY <1>1 DEF AllPassed, When, One, Result
<1>3. c.matches # Unset => Matches(o.stdout, c.matches)
  BY <1>1 DEF AllPassed, When, One, Result
<1>4. c.errContains # Unset => c.errContains \in o.stderr
  BY <1>1 DEF AllPassed, When, One, Result
<1>5. c.errMatches # Unset => Matches(o.stderr, c.errMatches)
  BY <1>1 DEF AllPassed, When, One, Result
<1> QED
  BY <1>2, <1>3, <1>4, <1>5 DEF Matches

LEMMA SizeSound ==
  ASSUME NEW c, NEW o, o.size \in Nat, {c.min, c.max} \subseteq Nat \cup {Unset},
         AllPassed(CheckFileSize(c, o))
  PROVE  /\ o.io = "ok"
         /\ o.size \in (IF c.min = Unset THEN 0 ELSE c.min)
                         .. (IF c.max = Unset THEN o.size ELSE c.max)
<1>1. o.io = "ok" /\ (c.min # Unset => o.size >= c.min) /\ (c.max # Unset => o.size <= c.max)
  BY DEF CheckFileSize, AllPassed, One, Result
<1> QED
  BY <1>1

LEMMA HTTPSound ==
  ASSUME NEW c, NEW o, o.io \in {"ok", "request", "body"}, AllPassed(CheckHTTP(c, o))
  PROVE  /\ o.io = "ok" /\ c.status \in {Unset, o.status}
         /\ {c.contains, c.matches} \ {Unset} \subseteq o.body
         /\ {c.header} \ {Unset} \subseteq o.header
<1>1. o.io = "ok"
  BY DEF CheckHTTP, AllPassed, One, Result
<1> DEFINE A == When(c.status # Unset, "http_status", o.status = c.status)
           B == When(c.contains # Unset, "http_body_contains", c.contains \in o.body)
           C == When(c.matches # Unset, "http_body_matches", Matches(o.body, c.matches))
           D == When(c.header # Unset, "http_header_contains", c.header \in o.header)
<1>2. AllPassed(A \cup B \cup C \cup D)
  BY <1>1 DEF CheckHTTP
<1>3. AllPassed(A) /\ AllPassed(B) /\ AllPassed(C) /\ AllPassed(D)
  <2> HIDE DEF A, B, C, D
  <2> QED
    BY <1>2, AllOfFour
<1>4. c.status # Unset => o.status = c.status
  BY <1>3 DEF AllPassed, When, One, Result
<1>5. c.contains # Unset => c.contains \in o.body
  BY <1>3 DEF AllPassed, When, One, Result
<1>6. c.matches # Unset => Matches(o.body, c.matches)
  BY <1>3 DEF AllPassed, When, One, Result
<1>7. c.header # Unset => c.header \in o.header
  BY <1>3 DEF AllPassed, When, One, Result
<1> QED
  BY <1>1, <1>4, <1>5, <1>6, <1>7 DEF Matches

LEMMA JSONSound ==
  ASSUME NEW c, NEW o, AllPassed(CheckJSONField(c, o))
  PROVE  /\ o.json = "present"
         /\ {c.contains, c.matches, c.equals} \ {Unset} \subseteq o.value
<1>1. o.json = "present"
  BY DEF CheckJSONField, AllPassed, One, Result
<1> DEFINE A == When(c.equals # Unset, "json_field_equals", o.value = {c.equals})
           B == When(c.contains # Unset, "json_field_contains", c.contains \in o.value)
           C == When(c.matches # Unset, "json_field_matches", Matches(o.value, c.matches))
<1>2. AllPassed((A \cup B) \cup C)
  BY <1>1 DEF CheckJSONField
<1>3. AllPassed(A) /\ AllPassed(B) /\ AllPassed(C)
  <2> HIDE DEF A, B, C
  <2> QED
    BY <1>2, AllOfTwo
<1>4. c.equals # Unset => o.value = {c.equals}
  BY <1>3 DEF AllPassed, When, One, Result
<1>5. c.contains # Unset => c.contains \in o.value
  BY <1>3 DEF AllPassed, When, One, Result
<1>6. c.matches # Unset => Matches(o.value, c.matches)
  BY <1>3 DEF AllPassed, When, One, Result
<1> QED
  BY <1>1, <1>4, <1>5, <1>6 DEF Matches

LEMMA SSLSound ==
  ASSUME NEW c, NEW o, o.daysLeft \in Int, c.minDays \in Nat, AllPassed(CheckSSLCert(c, o))
  PROVE  /\ o.io = "ok" /\ o.daysLeft >= c.minDays /\ o.daysLeft >= 0
         /\ o.trusted \/ c.allowSelfSigned
<1>1. /\ o.io = "ok" /\ (o.trusted \/ c.allowSelfSigned)
      /\ o.daysLeft >= 0 /\ (c.minDays > 0 => o.daysLeft >= c.minDays)
  BY DEF CheckSSLCert, AllPassed, One, Result
<1> QED
  BY <1>1

LEMMA StatusSound ==
  ASSUME NEW s \in Nat, is2xx(s)
  PROVE  s \div 100 = 2
BY DEF is2xx

LEMMA URLSound ==
  ASSUME NEW c, NEW o, o.status \in Nat, AllPassed(CheckURLReachable(c, o))
  PROVE  o.io = "ok" /\ IF c.status = Unset THEN o.status \div 100 = 2 ELSE o.status = c.status
<1>1. /\ o.io = "ok"
      /\ c.status # Unset => o.status = c.status
      /\ c.status = Unset => is2xx(o.status)
  BY DEF CheckURLReachable, AllPassed, One, Result
<1> QED
  BY <1>1, StatusSound

LEMMA ServiceSound ==
  ASSUME NEW o, o.status \in Nat, AllPassed(CheckServiceReachable(o)) \/ AllPassed(CheckS3Bucket(o))
  PROVE  o.io = "ok" /\ o.status \div 100 = 2
<1>1. o.io = "ok" /\ is2xx(o.status)
  BY DEF CheckServiceReachable, CheckS3Bucket, AllPassed, One, Result
<1> QED
  BY <1>1, StatusSound

LEMMA GraphQLSound ==
  ASSUME NEW c, NEW o, o.json \in {"invalid", "errors", "data"}, AllPassed(CheckGraphQL(c, o))
  PROVE  /\ o.io = "ok" /\ o.json \notin {"invalid", "errors"}
         /\ o.status = (IF c.status = Unset THEN 200 ELSE c.status)
         /\ c.types \subseteq o.types
         /\ {c.contains} \ {Unset} \subseteq o.body
<1>1. o.io = "ok"
  BY DEF CheckGraphQL, AllPassed, One, Result
<1> DEFINE S == One("graphql_status", o.status = (IF c.status = Unset THEN 200 ELSE c.status))
           A == When(c.types # {} /\ o.json = "data", "graphql_types", c.types \subseteq o.types)
           B == When(c.contains # Unset, "graphql_contains", c.contains \in o.body)
           C == When(c.types = {} /\ c.contains = Unset, "graphql_introspection", TRUE)
           R == IF o.json = "invalid" THEN One("graphql_parse", FALSE)
                ELSE IF o.json = "errors" THEN One("graphql_errors", FALSE)
                ELSE A \cup B \cup C
<1>2. AllPassed(S \cup R)
  BY <1>1 DEF CheckGraphQL
<1>3. AllPassed(S) /\ AllPassed(R)
  <2> HIDE DEF S, R
  <2> QED
    BY <1>2, AllOfTwo
<1>4. o.status = (IF c.status = Unset THEN 200 ELSE c.status)
  BY <1>3 DEF AllPassed, One, Result
<1>5. o.json # "invalid" /\ o.json # "errors"
  <2> HIDE DEF A, B, C
  <2> QED
    BY <1>3 DEF AllPassed, One, Result
<1>6. AllPassed((A \cup B) \cup C)
  <2> HIDE DEF A, B, C
  <2> QED
    BY <1>3, <1>5
<1>7. AllPassed(A) /\ AllPassed(B)
  <2> HIDE DEF A, B, C
  <2> QED
    BY <1>6, AllOfTwo
<1>8. c.types # {} => c.types \subseteq o.types
  BY <1>5, <1>7 DEF AllPassed, When, One, Result
<1>9. c.contains # Unset => c.contains \in o.body
  BY <1>7 DEF AllPassed, When, One, Result
<1> QED
  BY <1>1, <1>4, <1>5, <1>8, <1>9

LEMMA DeepLinkSound ==
  ASSUME NEW c, NEW e, NEW o, c.tier \in {"auto", "full-resolve", "web"}, o.tools \subseteq {"adb", "xcrun"},
         AllPassed(CheckDeepLink(c, o))
  PROVE  Claim(c, "deep_link", e, o)
<1> DEFINE A == IF c.checkAssetlinks # FALSE THEN CheckAssetlinks(c, o) ELSE {}
           B == IF c.checkAASA # FALSE THEN CheckAASA(c, o) ELSE {}
           W == IF c.web THEN A \cup B ELSE {}
           R == IF c.tier \notin {"auto", "full-resolve"} THEN {}
                ELSE IF o.tools # {} THEN resolveDeepLink(o)
                ELSE When(c.tier = "full-resolve", "deep_link.resolve", FALSE)
<1>0. AllPassed(W) /\ AllPassed(R)
  <2>1. AllPassed(W \cup R)
    BY DEF CheckDeepLink
  <2> HIDE DEF W, R
  <2> QED
    BY <2>1, AllOfTwo
<1>1. c.web => AllPassed(A) /\ AllPassed(B)
  <2> HIDE DEF A, B
  <2> QED
    BY <1>0, AllOfTwo
<1>2. /\ c.web /\ c.checkAssetlinks # FALSE => AllPassed(CheckAssetlinks(c, o))
      /\ c.web /\ c.checkAASA # FALSE => AllPassed(CheckAASA(c, o))
  BY <1>1
<1>3. c.tier # "web" /\ o.tools # {} => AllPassed(resolveDeepLink(o))
  BY <1>0
<1>4. c.tier = "full-resolve" => o.tools # {}
  BY <1>0 DEF AllPassed, When, One, Result
<1>5. AllPassed(CheckAssetlinks(c, o)) =>
        \E s \in o.assetlinks.statements : s.handlesAllUrls /\ c.package \in {Unset, s.package}
  BY DEF CheckAssetlinks, AllPassed, One, Result
<1>6. AllPassed(CheckAASA(c, o)) => \E a \in o.aasa : \E id \in a.appIDs : c.bundle \in {Unset, id}
  BY DEF CheckAASA, AllPassed, One, Result
<1>7. ASSUME AllPassed(resolveDeepLink(o))
      PROVE  ("adb" \in o.tools => o.adb = "resolved") /\ ("xcrun" \in o.tools => o.xcrun = "opened")
  <2> DEFINE P == When("adb" \in o.tools, "deep_link.resolve.android", o.adb = "resolved")
             Q == When("xcrun" \in o.tools, "deep_link.resolve.ios", o.xcrun = "opened")
  <2>1. AllPassed(P \cup Q)
    BY <1>7 DEF resolveDeepLink
  <2>2. AllPassed(P) /\ AllPassed(Q)
    <3> HIDE DEF P, Q
    <3> QED
      BY <2>1, AllOfTwo
  <2>3. "adb" \in o.tools => o.adb = "resolved"
    BY <2>2 DEF AllPassed, When, One, Result
  <2>4. "xcrun" \in o.tools => o.xcrun = "opened"
    BY <2>2 DEF AllPassed, When, One, Result
  <2> QED
    BY <2>3, <2>4
<1>8. DeepLinkClaim(c, o)
  BY <1>2, <1>3, <1>4, <1>5, <1>6, <1>7 DEF DeepLinkClaim
<1> QED
  BY <1>8 DEF Claim

LEMMA DocsSound ==
  ASSUME NEW c, NEW o, AllPassed(CheckDocIntegrity(c, o)),
         DOMAIN o.help = 1 .. Len(o.help), Len(o.help) \in Nat,
         \A i \in DOMAIN o.help : o.help[i].kind # "entry" => o.help[i].name = Unset
  PROVE  /\ \A d \in o.docs : d.readable /\ (c.examples => d.failing = {})
         /\ \A i \in DOMAIN o.help : o.help[i].kind = "commands" =>
              LET x == IF i < Len(o.help) THEN o.help[i + 1].name ELSE Unset
              IN  x \notin {Unset} \cup c.ignore => \E d \in o.docs : x \in d.commands
<1>1. /\ \A d \in o.docs : d.readable
      /\ (parseHelpCommands(o.help) \ c.ignore) \ parseDocFiles(o).commands = {}
      /\ c.examples => checkDocExamples(o) = {}
  BY DEF CheckDocIntegrity, AllPassed, One, Result
<1>2. ASSUME c.examples, NEW d \in o.docs PROVE d.failing = {}
  BY <1>1, <1>2 DEF checkDocExamples
<1>3. ASSUME NEW i \in DOMAIN o.help, o.help[i].kind = "commands", i < Len(o.help),
             o.help[i + 1].name \notin {Unset} \cup c.ignore
      PROVE  \E d \in o.docs : o.help[i + 1].name \in d.commands
  <2>1. i \in Nat /\ i + 1 \in DOMAIN o.help /\ i \in 1 .. (i + 1) - 1
    BY <1>3
  <2>2. o.help[i + 1].kind = "entry"
    BY <1>3, <2>1
  <2>3. \A m \in i + 1 .. (i + 1) - 1 : FALSE
    BY <2>1
  <2>4. o.help[i + 1].name \in parseHelpCommands(o.help)
    BY <1>3, <2>1, <2>2, <2>3 DEF parseHelpCommands
  <2>5. o.help[i + 1].name \in parseDocFiles(o).commands
    BY <1>1, <1>3, <2>4
  <2> QED
    BY <2>5 DEF parseDocFiles
<1> QED
  BY <1>1, <1>2, <1>3

LEMMA PluginSound ==
  ASSUME NEW o, o.details \subseteq BOOLEAN, AllPassed(PluginResults(o))
  PROVE  o.io = "ok" /\ (o.pass \/ o.details = {TRUE})
<1>1. o.io = "ok"
  BY DEF PluginResults, AllPassed, One, Result
<1> DEFINE A == {Result("plugin:detail", d) : d \in o.details}
           B == When(~o.pass /\ o.details = {}, "plugin", FALSE)
<1>2. AllPassed(A) /\ AllPassed(B)
  <2>1. AllPassed(A \cup B)
    BY <1>1 DEF PluginResults
  <2> HIDE DEF A, B
  <2> QED
    BY <2>1, AllOfTwo
<1>3. ASSUME NEW d \in o.details PROVE d = TRUE
  <2>1. Result("plugin:detail", d) \in A
    OBVIOUS
  <2>2. Result("plugin:detail", d).passed
    BY <1>2, <2>1 DEF AllPassed
  <2> QED
    BY <2>2 DEF Result
<1>4. ~o.pass => o.details # {}
  BY <1>2 DEF AllPassed, When, One, Result
<1> QED
  BY <1>1, <1>3, <1>4

LEMMA ComposeSound ==
  ASSUME NEW c, NEW o, o.services = << >> <=> DOMAIN o.services = {},
         c.services \subseteq DOMAIN o.services, AllPassed(CheckDockerComposeHealthy(c, o))
  PROVE  /\ DOMAIN o.services # {}
         /\ \A s \in (IF c.services = {} THEN DOMAIN o.services ELSE c.services) :
              /\ s \in DOMAIN o.services
              /\ o.services[s].state = "running"
              /\ o.services[s].health # "unhealthy"
BY DEF CheckDockerComposeHealthy, AllPassed, One, Result

-----------------------------------------------------------------------------
(* Every kind: a check whose results all passed has observed what it       *)
(* claims, or got through one of the loopholes.                            *)
LEMMA Verdict ==
  ASSUME NEW t, NEW k \in AssertionKinds, NEW o, WellFormed(spec[t].expect[k], k, o),
         AllPassed(Check(t, k, o))
  PROVE  Claim(spec[t].expect[k], k, exit[t], o) \/ Loophole(spec[t].expect[k], k, o)
<1> DEFINE c == spec[t].expect[k]
<1>1. CASE k = "exit"
  BY <1>1 DEF Check, AllPassed, One, When, Result, Claim, Loophole, CheckExitCode
<1>2. CASE k = "output"
  <2>1. AllPassed(CheckOutput(c, o))
    BY <1>2 DEF Check
  <2> QED
    BY <2>1, <1>2, OutputSound DEF Claim, Loophole
<1>3. CASE k = "env"
  BY <1>3 DEF Check, AllPassed, One, When, Result, Claim, Loophole, CheckEnvExists
<1>4. CASE k = "file"
  BY <1>4 DEF Check, AllPassed, One, When, Result, Claim, Loophole, CheckFileExists
<1>5. CASE k = "size"
  <2>1. AllPassed(CheckFileSize(c, o))
    BY <1>5 DEF Check
  <2>2. o.size \in Nat /\ {c.min, c.max} \subseteq Nat \cup {Unset}
    BY <1>5 DEF WellFormed
  <2> QED
    BY <2>1, <2>2, <1>5, SizeSound DEF Claim, Loophole
<1>6. CASE k = "process"
  BY <1>6 DEF Check, AllPassed, One, When, Result, Claim, Loophole, CheckProcessRunning
<1>7. CASE k = "http"
  <2>1. AllPassed(CheckHTTP(c, o))
    BY <1>7 DEF Check
  <2>2. o.io \in {"ok", "request", "body"}
    BY <1>7 DEF WellFormed
  <2> QED
    BY <2>1, <2>2, <1>7, HTTPSound DEF Claim, Loophole
<1>8. CASE k = "json"
  <2>1. AllPassed(CheckJSONField(c, o))
    BY <1>8 DEF Check
  <2> QED
    BY <2>1, <1>8, JSONSound DEF Claim, Loophole
<1>9. CASE k = "ssl"
  <2>1. AllPassed(CheckSSLCert(c, o))
    BY <1>9 DEF Check
  <2>2. o.daysLeft \in Int /\ c.minDays \in Nat
    BY <1>9 DEF WellFormed
  <2> QED
    BY <2>1, <2>2, <1>9, SSLSound DEF Claim, Loophole
<1>10. CASE k = "time"
  BY <1>10 DEF Check, AllPassed, One, When, Result, Claim, Loophole, CheckResponseTime
<1>11. CASE k = "probe"
  BY <1>11 DEF Check, AllPassed, One, When, Result, Claim, Loophole, CheckServer
<1>12. CASE k = "grpc"
  BY <1>12 DEF Check, AllPassed, One, When, Result, Claim, Loophole, CheckServer, CheckGRPCHealth
<1>13. CASE k = "container"
  BY <1>13 DEF Check, AllPassed, One, When, Result, Claim, Loophole, CheckServer, CheckDockerContainerRunning
<1>14. CASE k = "image"
  BY <1>14 DEF Check, AllPassed, One, When, Result, Claim, Loophole, CheckServer, CheckDockerImageExists
<1>15. CASE k = "url"
  <2>1. AllPassed(CheckURLReachable(c, o))
    BY <1>15 DEF Check, CheckServer
  <2>2. o.status \in Nat
    BY <1>15 DEF WellFormed
  <2> QED
    BY <2>1, <2>2, <1>15, URLSound DEF Claim, Loophole
<1>16. CASE k = "service"
  <2>1. AllPassed(CheckServiceReachable(o))
    BY <1>16 DEF Check, CheckServer
  <2>2. o.status \in Nat
    BY <1>16 DEF WellFormed
  <2> QED
    BY <2>1, <2>2, <1>16, ServiceSound DEF Claim, Loophole
<1>17. CASE k = "s3"
  <2>1. AllPassed(CheckS3Bucket(o))
    BY <1>17 DEF Check, CheckServer
  <2>2. o.status \in Nat
    BY <1>17 DEF WellFormed
  <2> QED
    BY <2>1, <2>2, <1>17, ServiceSound DEF Claim, Loophole
<1>18. CASE k = "version"
  BY <1>18 DEF Check, AllPassed, One, When, Result, Claim, Loophole, CheckServer, CheckVersion, Matches
<1>19. CASE k = "credential"
  BY <1>19 DEF Check, AllPassed, One, When, Result, Claim, Loophole, CheckServer, CheckReply, CheckCredential
<1>20. CASE k = "graphql"
  <2>1. AllPassed(CheckGraphQL(c, o))
    BY <1>20 DEF Check, CheckServer, CheckReply
  <2>2. o.json \in {"invalid", "errors", "absent", "data"}
    BY <1>20 DEF WellFormed
  <2>3. CASE o.json = "absent"
    <3>1. o.io = "ok"
      BY <2>1 DEF CheckGraphQL, AllPassed, One, Result
    <3> QED
      BY <1>20, <2>3, <3>1 DEF Loophole
  <2>4. CASE o.json # "absent"
    BY <1>20, <2>1, <2>2, <2>4, GraphQLSound DEF Claim
  <2> QED
    BY <2>3, <2>4
<1>21. CASE k = "deep_link"
  <2>1. AllPassed(CheckDeepLink(c, o))
    BY <1>21 DEF Check, CheckServer, CheckReply
  <2>2. c.tier \in {"auto", "full-resolve", "web"} /\ o.tools \subseteq {"adb", "xcrun"}
    BY <1>21 DEF WellFormed
  <2> HIDE DEF c
  <2>3. Claim(c, "deep_link", exit[t], o)
    BY <2>1, <2>2, DeepLinkSound
  <2> QED
    BY <1>21, <2>3 DEF c
<1>22. CASE k = "dns"
  BY <1>22 DEF Check, AllPassed, One, When, Result, Claim, Loophole, CheckServer, CheckReply, CheckDNS
<1>23. CASE k = "compose"
  <2>1. AllPassed(CheckDockerComposeHealthy(c, o))
    BY <1>23 DEF Check, CheckServer, CheckReply, CheckTool
  <2>2. o.services = << >> <=> DOMAIN o.services = {}
    BY <1>23 DEF WellFormed
  <2>3. o.io = "ok"
    BY <2>1 DEF CheckDockerComposeHealthy, AllPassed, One, Result
  <2>4. CASE ~(c.services \subseteq DOMAIN o.services)
    BY <1>23, <2>3, <2>4 DEF Loophole
  <2>5. CASE c.services \subseteq DOMAIN o.services
    BY <1>23, <2>1, <2>2, <2>3, <2>5, ComposeSound DEF Claim
  <2> QED
    BY <2>4, <2>5
<1>24. CASE k = "ping"
  BY <1>24 DEF Check, AllPassed, One, When, Result, Claim, Loophole, CheckServer, CheckReply, CheckTool, CheckPing
<1>25. CASE k = "k8s"
  BY <1>25 DEF Check, AllPassed, One, When, Result, Claim, Loophole, CheckServer, CheckReply, CheckTool, CheckK8sResource
<1>26. CASE k = "ios"
  BY <1>26 DEF Check, AllPassed, One, When, Result, Claim, Loophole, CheckServer, CheckReply, CheckTool, CheckIOSSimulator
<1>27. CASE k = "android"
  BY <1>27 DEF Check, AllPassed, One, When, Result, Claim, Loophole, CheckServer, CheckReply, CheckTool, CheckAndroidEmulator
<1>28. CASE k = "docs"
  <2>1. AllPassed(CheckDocIntegrity(c, o))
    BY <1>28 DEF Check, CheckServer, CheckReply, CheckTool
  <2>2. /\ DOMAIN o.help = 1 .. Len(o.help) /\ Len(o.help) \in Nat
         /\ \A i \in DOMAIN o.help : o.help[i].kind # "entry" => o.help[i].name = Unset
    BY <1>28 DEF WellFormed
  <2> QED
    BY <2>1, <2>2, <1>28, DocsSound DEF Claim, Loophole
<1>29. CASE k = "plugin"
  <2>1. AllPassed(PluginResults(o))
    BY <1>29 DEF Check, CheckServer, CheckReply, CheckTool
  <2>2. o.details \subseteq BOOLEAN
    BY <1>29 DEF WellFormed
  <2> QED
    BY <2>1, <2>2, <1>29, PluginSound DEF Claim, Loophole
<1> QED
  BY <1>1, <1>2, <1>3, <1>4, <1>5, <1>6, <1>7, <1>8, <1>9, <1>10, <1>11, <1>12, <1>13, <1>14, <1>15, <1>16, <1>17, <1>18, <1>19, <1>20, <1>21, <1>22, <1>23, <1>24, <1>25, <1>26, <1>27, <1>28, <1>29 DEF AssertionKinds

-----------------------------------------------------------------------------
(* The attempts.                                                           *)

Early  == {"idle", "save", "swap", "command", "running", "assess"}
Phases == Early \cup {"restore", "cleanup", "done"}
Active(t) == pc[t] \notin {"idle", "done"}

-----------------------------------------------------------------------------
(* The inductive invariant.                                                *)

Shape ==
  /\ \E s \in Suites : parallel = s.parallel /\ spec = s.spec
  /\ pc \in [Tests -> Phases]
  /\ exit \in [Tests -> {-1, 0, 1}]
  /\ result \in [Tests -> Outcomes]
  /\ stored \in Tests \cup {Unset}
  /\ reports \in [Tests -> Nat]
  /\ DOMAIN saved = Tests /\ DOMAIN shell = Tests /\ DOMAIN cleaned = Tests

(* An attempt is reported on its way to the deferred calls, and of these   *)
(* the cleanup is the last.                                                *)
Order(t) ==
  /\ pc[t] \in Early => reports[t] = 0 /\ cleaned[t] = << >>
  /\ Active(t) => ~spec[t].skip
  /\ pc[t] \in {"restore", "cleanup"} => reports[t] = 1 /\ cleaned[t] = << >>
  /\ pc[t] = "cleanup" => spec[t].cleanup
  /\ pc[t] = "done" => /\ reports[t] = 1
                       /\ Len(cleaned[t]) = IF spec[t].cleanup /\ ~spec[t].skip THEN 1 ELSE 0

(* One attempt at a time has the environment, and what it has put aside    *)
(* is that there was no credential.                                        *)
Holds(t) ==
  /\ pc[t] \in {"idle", "save"} => saved[t] = "nothing"
  /\ spec[t].auth = Unset => pc[t] \notin {"save", "swap"} /\ saved[t] = "nothing"
  /\ spec[t].auth # Unset /\ Active(t) /\ pc[t] # "save" => saved[t] = Unset
  /\ Active(t) => env = IF pc[t] \in {"save", "swap", "cleanup"} THEN Unset ELSE spec[t].auth
  /\ shell[t].auth \in {spec[t].auth, "none"}
  /\ \A i \in DOMAIN cleaned[t] : cleaned[t][i] = Unset
EnvInv ==
  ~parallel => /\ \A t, u \in Tests : Active(t) /\ Active(u) => t = u
               /\ (\A t \in Tests : ~Active(t)) => env = Unset
               /\ \A t \in Tests : Holds(t)

OrderInv == Shape /\ \A t \in Tests : Order(t)
AttemptInv == OrderInv /\ EnvInv

-----------------------------------------------------------------------------
(* What is configured has the types that are assumed of it.                *)
LEMMA Configured ==
  ASSUME Shape, NEW t \in Tests
  PROVE  /\ parallel \in BOOLEAN /\ spec[t].skip \in BOOLEAN
         /\ spec[t].cleanup \in BOOLEAN /\ spec[t].guarded \in BOOLEAN
BY AttemptAssumption DEF Shape

LEMMA OrderInit == Init => OrderInv
<1> SUFFICES ASSUME Init PROVE OrderInv
  OBVIOUS
<1>1. Shape
  BY DEF Init, Shape, Phases, Early, Outcomes
<1>2. \A t \in Tests : Order(t)
  BY DEF Init, Order, Early, Active
<1> QED
  BY <1>1, <1>2 DEF OrderInv

(* A step of one attempt leaves the order of the others alone.             *)
LEMMA OrderOthers ==
  ASSUME NEW t, NEW u, t # u, Order(u), spec' = spec,
         pc'[u] = pc[u], reports'[u] = reports[u], cleaned'[u] = cleaned[u]
  PROVE  Order(u)'
BY DEF Order, Active, Early

LEMMA ShapeNext ==
  ASSUME Shape, NEW t \in Tests, Step(t)
  PROVE  Shape'
<1> USE DEF Shape, Phases, Early, Outcomes, config, Go, ReportAs
<1>1. CASE Begin(t) \/ SkipIf(t)
  BY <1>1 DEF Begin, SkipIf
<1>2. CASE SaveEnv(t) \/ SwapEnv(t)
  BY <1>2 DEF SaveEnv, SwapEnv
<1>3. CASE NoCommand(t) \/ RecursionGuard(t) \/ StartCommand(t)
  BY <1>3 DEF NoCommand, RecursionGuard, StartCommand
<1>4. CASE EndCommand(t) \/ CommandError(t)
  BY <1>4 DEF EndCommand, CommandError
<1>5. CASE Assess(t)
  BY <1>5 DEF Assess
<1>6. CASE Report(t)
  BY <1>6 DEF Report, processExtracts
<1>7. CASE RestoreEnv(t) \/ Cleanup(t)
  BY <1>7 DEF RestoreEnv, AfterRestore, Cleanup
<1> QED
  BY <1>1, <1>2, <1>3, <1>4, <1>5, <1>6, <1>7 DEF Step

(* What changes in a step of an attempt is its own.                        *)
LEMMA OwnSteps ==
  ASSUME Shape, NEW t \in Tests, Step(t), NEW u \in Tests \ {t}
  PROVE  /\ parallel' = parallel /\ spec' = spec
         /\ pc'[u] = pc[u] /\ reports'[u] = reports[u] /\ cleaned'[u] = cleaned[u]
         /\ saved'[u] = saved[u] /\ shell'[u] = shell[u]
<1> USE DEF Shape, config, Go, ReportAs
<1>1. CASE Begin(t) \/ SkipIf(t) \/ SaveEnv(t) \/ SwapEnv(t)
  BY <1>1 DEF Begin, SkipIf, SaveEnv, SwapEnv
<1>2. CASE NoCommand(t) \/ RecursionGuard(t) \/ StartCommand(t)
  BY <1>2 DEF NoCommand, RecursionGuard, StartCommand
<1>3. CASE EndCommand(t) \/ CommandError(t) \/ Assess(t) \/ Report(t)
  BY <1>3 DEF EndCommand, CommandError, Assess, Report
<1>4. CASE RestoreEnv(t) \/ Cleanup(t)
  BY <1>4 DEF RestoreEnv, Cleanup
<1> QED
  BY <1>1, <1>2, <1>3, <1>4 DEF Step

LEMMA OrderStep ==
  ASSUME OrderInv, NEW t \in Tests, Step(t)
  PROVE  OrderInv'
<1>1. Shape' /\ spec' = spec
  BY ShapeNext DEF OrderInv, Step, config, Begin, SkipIf, SaveEnv, SwapEnv, NoCommand,
     RecursionGuard, StartCommand, EndCommand, CommandError, Assess, Report, RestoreEnv, Cleanup
<1>2. ASSUME NEW u \in Tests \ {t} PROVE Order(u)'
  BY <1>2, OwnSteps, OrderOthers DEF OrderInv
<1>3. Order(t)'
  <2> USE DEF OrderInv, Shape, Order, Active, Early, Go, ReportAs
  <2>1. spec[t].skip \in BOOLEAN /\ spec[t].cleanup \in BOOLEAN /\ spec[t].guarded \in BOOLEAN
    BY Configured
  <2>2. CASE Begin(t)
    BY <1>1, <2>1, <2>2 DEF Begin
  <2>3. CASE SkipIf(t)
    BY <1>1, <2>1, <2>3 DEF SkipIf
  <2>4. CASE SaveEnv(t) \/ SwapEnv(t)
    BY <1>1, <2>4 DEF SaveEnv, SwapEnv
  <2>5. CASE NoCommand(t) \/ StartCommand(t) \/ EndCommand(t)
    BY <1>1, <2>5 DEF NoCommand, StartCommand, EndCommand
  <2>6. CASE RecursionGuard(t) \/ CommandError(t)
    BY <1>1, <2>6 DEF RecursionGuard, CommandError
  <2>7. CASE Assess(t)
    BY <1>1, <2>7 DEF Assess
  <2>8. CASE Report(t)
    BY <1>1, <2>8 DEF Report
  <2>9. CASE RestoreEnv(t)
    BY <1>1, <2>1, <2>9 DEF RestoreEnv, AfterRestore
  <2>10. CASE Cleanup(t)
    <3>1. cleaned'[t] = Append(<< >>, env)
      BY <2>10 DEF Cleanup
    <3>2. Len(cleaned'[t]) = 1
      BY <3>1
    <3> QED
      BY <1>1, <2>1, <2>10, <3>2 DEF Cleanup
  <2> QED
    BY <2>2, <2>3, <2>4, <2>5, <2>6, <2>7, <2>8, <2>9, <2>10 DEF Step
<1> QED
  BY <1>1, <1>2, <1>3 DEF OrderInv

LEMMA OrderNext == OrderInv /\ [Next]_vars => OrderInv'
<1> SUFFICES ASSUME OrderInv, [Next]_vars PROVE OrderInv'
  OBVIOUS
<1>1. CASE UNCHANGED vars
  BY <1>1 DEF OrderInv, Shape, Order, Active, Early, vars
<1>2. CASE Next
  BY <1>2, OrderStep DEF Next
<1> QED
  BY <1>1, <1>2

(* The variables have their types.                                         *)
THEOREM TypeCorrect == Spec => []TypeOK
<1>1. OrderInv => TypeOK
  BY AttemptAssumption DEF OrderInv, Shape, TypeOK, Phases, Early
<1> QED
  BY <1>1, OrderInit, OrderNext, PTL DEF Spec

(* Any attempt that is over was reported once and cleaned up once.         *)
THEOREM LeftInOrder == Spec => []LeavesInOrder
<1>1. OrderInv => LeavesInOrder
  BY DEF OrderInv, Order, LeavesInOrder
<1> QED
  BY <1>1, OrderInit, OrderNext, PTL DEF Spec

(* Only a test that passes hands a value on, in any order of attempts.     *)
THEOREM HandedOn == Spec => OnlyPassingTestsHandOn
<1>1. ASSUME OrderInv, NEW t \in Tests, Step(t), stored' # stored
      PROVE  result'[stored'] = "passed" /\ reports[stored'] = 0
  <2>1. Report(t)
    BY <1>1 DEF Step, Begin, SkipIf, SaveEnv, SwapEnv, NoCommand, RecursionGuard, StartCommand,
       EndCommand, CommandError, Assess, RestoreEnv, Cleanup
  <2>2. AllPassed(Results(t)) /\ stored' = t
    BY <1>1, <2>1 DEF Report, processExtracts
  <2>3. result'[t] = "passed"
    BY <1>1, <2>1, <2>2 DEF Report, ReportAs, OrderInv, Shape
  <2>4. reports[t] = 0
    BY <1>1, <2>1 DEF Report, Go, OrderInv, Order, Early
  <2> QED
    BY <2>2, <2>3, <2>4
<1>2. OrderInv /\ [Next]_vars =>
        [stored' # stored => result'[stored'] = "passed" /\ reports[stored'] = 0]_vars
  BY <1>1 DEF Next
<1> QED
  BY <1>2, OrderInit, OrderNext, PTL DEF Spec, OnlyPassingTestsHandOn

-----------------------------------------------------------------------------
(* Credentials.                                                            *)

LEMMA EnvInit == Init => EnvInv
BY AttemptAssumption DEF Init, EnvInv, Holds, Active, NotRun

(* One after another: when an attempt takes a step no other is under way.  *)
LEMMA OneAtATime ==
  ASSUME AttemptInv, ~parallel, NEW t \in Tests, Step(t), NEW u \in Tests \ {t}
  PROVE  ~Active(u)
<1>1. CASE Active(t)
  BY <1>1 DEF AttemptInv, EnvInv
<1>2. CASE ~Active(t)
  <2>1. ~Waiting(t)
    BY <1>2 DEF Active, Go, Step, Begin, SkipIf, SaveEnv, SwapEnv, NoCommand, RecursionGuard,
       StartCommand, EndCommand, CommandError, Assess, Report, RestoreEnv, Cleanup
  <2> QED
    BY <2>1 DEF Waiting, Active
<1> QED
  BY <1>1, <1>2

(* Each step keeps what the attempt that takes it holds, and leaves no     *)
(* credential behind.                                                      *)
LEMMA HoldsStep ==
  ASSUME AttemptInv, ~parallel, NEW t \in Tests, Step(t)
  PROVE  Holds(t)' /\ (~Active(t)' => env' = Unset)
<1> DEFINE Kept == Holds(t)' /\ (~Active(t)' => env' = Unset)
<1>1. Holds(t) /\ Unset # "nothing"
  BY AttemptAssumption DEF AttemptInv, EnvInv
<1>2. ~Active(t) => env = Unset
  BY OneAtATime DEF AttemptInv, EnvInv
<1>3. /\ pc \in [Tests -> Phases] /\ DOMAIN saved = Tests /\ DOMAIN shell = Tests
      /\ DOMAIN cleaned = Tests
  BY DEF AttemptInv, OrderInv, Shape
<1> USE DEF Holds, Active, Go, config
<1>4. CASE Begin(t) \/ SkipIf(t)
  BY <1>1, <1>2, <1>3, <1>4 DEF Begin, SkipIf
<1>5. CASE SaveEnv(t)
  BY <1>1, <1>3, <1>5 DEF SaveEnv
<1>6. CASE SwapEnv(t)
  BY <1>1, <1>3, <1>6 DEF SwapEnv
<1>7. CASE NoCommand(t) \/ RecursionGuard(t)
  BY <1>1, <1>3, <1>7 DEF NoCommand, RecursionGuard
<1>8. CASE StartCommand(t)
  BY <1>1, <1>3, <1>8 DEF StartCommand
<1>9. CASE EndCommand(t) \/ CommandError(t)
  BY <1>1, <1>3, <1>9 DEF EndCommand, CommandError
<1>10. CASE Assess(t) \/ Report(t)
  BY <1>1, <1>3, <1>10 DEF Assess, Report
<1>11. CASE RestoreEnv(t)
  BY <1>1, <1>3, <1>11 DEF RestoreEnv, AfterRestore
<1>12. CASE Cleanup(t)
  <2>1. cleaned[t] = << >>
    BY <1>12 DEF Cleanup, AttemptInv, OrderInv, Order
  <2>2. cleaned'[t] = <<env>> /\ env = Unset /\ env' = env
    BY <1>1, <1>3, <1>12, <2>1 DEF Cleanup
  <2>3. \A i \in DOMAIN cleaned'[t] : cleaned'[t][i] = Unset
    BY <2>2
  <2> QED
    BY <1>1, <1>3, <1>12, <2>2, <2>3 DEF Cleanup
<1> QED
  BY <1>4, <1>5, <1>6, <1>7, <1>8, <1>9, <1>10, <1>11, <1>12 DEF Step

LEMMA EnvStep ==
  ASSUME AttemptInv, NEW t \in Tests, Step(t)
  PROVE  EnvInv'
<1> SUFFICES ASSUME ~parallel' PROVE /\ \A u, v \in Tests : Active(u)' /\ Active(v)' => u = v
                                     /\ (\A u \in Tests : ~Active(u)') => env' = Unset
                                     /\ \A u \in Tests : Holds(u)'
  BY DEF EnvInv
<1>1. ~parallel
  BY DEF config, Step, Begin, SkipIf, SaveEnv, SwapEnv, NoCommand, RecursionGuard, StartCommand,
     EndCommand, CommandError, Assess, Report, RestoreEnv, Cleanup
<1>2. ASSUME NEW u \in Tests \ {t} PROVE ~Active(u)' /\ Holds(u)'
  <2>1. ~Active(u) /\ Holds(u)
    BY <1>1, <1>2, OneAtATime DEF AttemptInv, EnvInv
  <2>2. /\ spec' = spec /\ pc'[u] = pc[u] /\ cleaned'[u] = cleaned[u]
        /\ saved'[u] = saved[u] /\ shell'[u] = shell[u]
    BY <1>2, OwnSteps DEF AttemptInv, OrderInv
  <2> QED
    BY <2>1, <2>2 DEF Active, Holds
<1>3. Holds(t)' /\ (~Active(t)' => env' = Unset)
  BY <1>1, HoldsStep
<1> QED
  BY <1>2, <1>3

LEMMA AttemptNext == AttemptInv /\ [Next]_vars => AttemptInv'
<1> SUFFICES ASSUME AttemptInv, [Next]_vars PROVE AttemptInv'
  OBVIOUS
<1>1. OrderInv'
  BY OrderNext DEF AttemptInv
<1>2. CASE UNCHANGED vars
  BY <1>1, <1>2 DEF AttemptInv, EnvInv, Holds, Active, vars
<1>3. CASE Next
  BY <1>1, <1>3, EnvStep DEF Next, AttemptInv
<1> QED
  BY <1>2, <1>3

(* One after another, any number of attempts keep their credentials apart. *)
THEOREM KeptApart == Spec => []CredentialsKeptApart
<1>1. Init => AttemptInv
  BY OrderInit, EnvInit DEF AttemptInv
<1>2. AttemptInv => CredentialsKeptApart
  BY DEF AttemptInv, EnvInv, Holds, Active, CredentialsKeptApart
<1> QED
  BY <1>1, <1>2, AttemptNext, PTL DEF Spec

-----------------------------------------------------------------------------
(* Verdicts.                                                               *)

(* What is observed belongs to a configured check, and a pass is given     *)
(* after all of them are looked at; nothing is observed after that.        *)
Warranted(t) ==
  \A k \in DOMAIN spec[t].expect :
    \/ Claim(spec[t].expect[k], k, exit[t], obs[t][k])
    \/ Loophole(spec[t].expect[k], k, obs[t][k])
VerdictOf(t) ==
  /\ \A k \in DOMAIN obs[t] : /\ k \in DOMAIN spec[t].expect
                              /\ obs[t][k] \in Observed(k, spec[t].expect[k])
  /\ result[t] = "passed" => pc[t] \notin Early /\ Warranted(t)
VerdictInv == /\ Shape /\ DOMAIN obs = Tests
              /\ \A t \in Tests : VerdictOf(t)

LEMMA VerdictInit == Init => VerdictInv
<1>1. Init => Shape
  BY OrderInit DEF OrderInv
<1> QED
  BY <1>1 DEF Init, VerdictInv, VerdictOf

(* The checks of a test that all passed observed what they claim.          *)
LEMMA PassedChecks ==
  ASSUME VerdictInv, NEW t \in Tests, DOMAIN obs[t] = DOMAIN spec[t].expect, AllPassed(Results(t))
  PROVE  Warranted(t)
<1> SUFFICES ASSUME NEW k \in DOMAIN spec[t].expect
             PROVE  \/ Claim(spec[t].expect[k], k, exit[t], obs[t][k])
                    \/ Loophole(spec[t].expect[k], k, obs[t][k])
  BY DEF Warranted
<1>1. obs[t][k] \in Observed(k, spec[t].expect[k])
  BY DEF VerdictInv, VerdictOf
<1>2. k \in AssertionKinds /\ WellFormed(spec[t].expect[k], k, obs[t][k])
  BY <1>1, AttemptAssumption DEF VerdictInv, Shape
<1>3. AllPassed(Check(t, k, obs[t][k]))
  BY DEF AllPassed, Results
<1> QED
  BY <1>2, <1>3, Verdict

LEMMA VerdictStep ==
  ASSUME VerdictInv, NEW t \in Tests, Step(t)
  PROVE  VerdictInv'
<1>1. Shape' /\ spec' = spec
  BY ShapeNext DEF VerdictInv, Step, config, Begin, SkipIf, SaveEnv, SwapEnv, NoCommand,
     RecursionGuard, StartCommand, EndCommand, CommandError, Assess, Report, RestoreEnv, Cleanup
<1>2. DOMAIN obs' = Tests
  BY DEF VerdictInv, Step, config, Begin, SkipIf, SaveEnv, SwapEnv, NoCommand,
     RecursionGuard, StartCommand, EndCommand, CommandError, Assess, Report, RestoreEnv, Cleanup
<1>3. ASSUME NEW u \in Tests \ {t} PROVE VerdictOf(u)'
  <2>1. pc'[u] = pc[u]
    BY <1>3, OwnSteps DEF VerdictInv
  <2>2. obs'[u] = obs[u] /\ exit'[u] = exit[u] /\ result'[u] = result[u]
    BY <1>3 DEF VerdictInv, Shape, ReportAs, Step, Begin, SkipIf, SaveEnv, SwapEnv, NoCommand,
       RecursionGuard, StartCommand, EndCommand, CommandError, Assess, Report, RestoreEnv, Cleanup
  <2> QED
    BY <1>1, <2>1, <2>2 DEF VerdictInv, VerdictOf, Warranted
<1>4. VerdictOf(t)'
  <2>1. VerdictOf(t) /\ DOMAIN obs = Tests /\ DOMAIN result = Tests /\ DOMAIN pc = Tests
    BY DEF VerdictInv, Shape
  <2> USE DEF Go, Early
  <2>2. CASE Begin(t) \/ SaveEnv(t) \/ SwapEnv(t) \/ NoCommand(t) \/ StartCommand(t)
    BY <1>1, <2>1, <2>2 DEF VerdictOf, Begin, SaveEnv, SwapEnv, NoCommand, StartCommand
  <2>3. CASE SkipIf(t) \/ RecursionGuard(t) \/ CommandError(t)
    BY <1>1, <2>1, <2>3 DEF VerdictOf, ReportAs, SkipIf, RecursionGuard, CommandError
  <2>4. CASE EndCommand(t)
    BY <1>1, <2>1, <2>4 DEF VerdictOf, EndCommand
  <2>5. CASE Assess(t)
    BY <1>1, <2>1, <2>5 DEF VerdictOf, Assess
  <2>6. CASE Report(t)
    <3>1. obs' = obs /\ exit' = exit
      BY <2>6 DEF Report
    <3>2. result'[t] = "passed" => Warranted(t)
      BY <2>1, <2>6, PassedChecks DEF Report, ReportAs
    <3>3. pc'[t] = "restore"
      BY <2>1, <2>6 DEF Report
    <3> QED
      BY <1>1, <2>1, <3>1, <3>2, <3>3 DEF VerdictOf, Warranted
  <2>7. CASE RestoreEnv(t) \/ Cleanup(t)
    BY <1>1, <2>1, <2>7 DEF VerdictOf, Warranted, RestoreEnv, AfterRestore, Cleanup
  <2> QED
    BY <2>2, <2>3, <2>4, <2>5, <2>6, <2>7 DEF Step
<1> QED
  BY <1>1, <1>2, <1>3, <1>4 DEF VerdictInv

(* A test that is reported as passed observed everything its checks claim, *)
(* for any tests, any checks of the 29 kinds and anything they observe,    *)
(* but for the three loopholes.                                            *)
THEOREM PassWarranted == Spec => []PassIsWarranted
<1>1. VerdictInv => PassIsWarranted
  BY DEF VerdictInv, VerdictOf, Warranted, PassIsWarranted
<1>2. VerdictInv /\ UNCHANGED vars => VerdictInv'
  BY DEF VerdictInv, VerdictOf, Warranted, Shape, vars
<1>3. VerdictInv /\ [Next]_vars => VerdictInv'
  BY <1>2, VerdictStep DEF Next
<1> QED
  BY <1>1, <1>3, VerdictInit, PTL DEF Spec

=============================================================================

----------------------------- MODULE MCAttempt -----------------------------
(* Two tests, one after another and side by side: the first takes one of   *)
(* the interesting ways through an attempt, the second refers to what it   *)
(* stores.  And a test alone, with each kind of assertion, its checks and  *)
(* observations as below: each field at the values that its assertion      *)
(* tells apart.                                                            *)
EXTENDS Attempt, TLC

CONSTANTS t1, t2, p1, p2   \* the tests and their profiles

Test(auth, run, expect) ==
  [auth |-> auth, run |-> run, refers |-> FALSE, guarded |-> FALSE, cleanup |-> TRUE,
   skip |-> FALSE, allow |-> FALSE, extract |-> FALSE, expect |-> expect]

Exit0 == [exit |-> [exit |-> 0]]
Expecting(kind, checks) == {[x \in {kind} |-> c] : c \in checks}
Status == {Unset, 404}
Text   == {Unset, "word"}
Regex  == {Unset, "word", BadRegex}

Checks ==
  Expecting("exit", [exit : {0, 1}])
    \cup Expecting("output", [contains : Text, matches : Regex, errContains : {Unset},
                              errMatches : Regex])
    \cup Expecting("time", [limit : {1}])
    \cup Expecting("json", [equals : Text, contains : Text, matches : Regex])
    \cup Expecting("size", [min : {Unset, 1}, max : {Unset, 2}])
    \cup Expecting("credential", [source : {"env", "file", "vault"}, contains : Text])
    \cup Expecting("process", [name : {"", "sshd"}])
    \cup Expecting("version", [pattern : {"word", BadRegex}])
    \cup Expecting("compose", [services : {{}, {"db"}, {"db", "web"}}])
    \cup Expecting("k8s", [condition : {Unset, "Ready"}])
    \cup Expecting("ios", [os : {Unset, "17"}, device : {Unset, "phone"}])
    \cup Expecting("http", [status : {Unset, 200}, contains : Text, matches : Regex,
                            header : Text])
    \cup Expecting("ssl", [allowSelfSigned : BOOLEAN, minDays : {0, 7}])
    \cup Expecting("url", [status : Status])
    \cup Expecting("dns", [recordType : {"A", "SRV"}, expectedIP : {Unset, "ip"}])
    \cup Expecting("graphql", [status : Status, types : {{}, {"User"}}, contains : Text])
    \cup Expecting("deep_link", [web : BOOLEAN, checkAssetlinks : {Unset, FALSE},
                                 checkAASA : {Unset, FALSE}, package : {Unset, "app"},
                                 bundle : {Unset, "id"}, tier : {"auto", "full-resolve", "web"}])
    \cup Expecting("docs", [ignore : {{}, {"debug"}}, examples : BOOLEAN])
    \cup UNION {Expecting(k, {<< >>}) : k \in {"env", "file", "ping", "container", "image",
                                               "android", "service", "s3", "grpc", "plugin", "probe"}}

Service == [state : {"running", "exited"}, health : {"", "healthy", "unhealthy"}]
Device  == [state : {"Booted", "Shutdown"}, runtime : {{"17"}, {"16"}}, name : {{"phone"}}]
Fetched == [io : {"ok"}, status : {200, 404}, json : {"data"}, appIDs : {{"id"}, {"x"}}]
Linked  == [io : {"ok", "failed"}, status : {200}, json : {"data"},
            statements : {{}, {[handlesAllUrls |-> TRUE, namespace |-> "android_app",
                                package |-> "app"]}}]
Line(kind, name) == [kind |-> kind, name |-> name]
Helps == {<< >>,
          <<Line("commands", Unset), Line("entry", "run"), Line("section", Unset),
            Line("entry", "word")>>,
          <<Line("entry", "word"), Line("commands", Unset), Line("entry", "run"),
            Line("entry", "debug"), Line("blank", Unset)>>}
Doc   == [readable : BOOLEAN, commands : {{"run"}, {"run", "debug"}, {}}, flags : {{}, {"all"}},
          failing : {{}, {"ex"}}]
Io == {"ok", "failed"}
Fragments == {{}, {"word"}}

MCObserved(kind, c) ==
  CASE kind = "exit"       -> {<< >>}
    [] kind = "output"     -> [stdout : Fragments, stderr : Fragments]
    [] kind = "time"       -> [elapsed : {1, 2}]
    [] kind = "json"       -> [json : {"invalid", "missing", "present"}, value : Fragments]
    [] kind = "env"        -> [env : {Unset, "", "word"}]
    [] kind = "size"       -> [io : Io, size : 0 .. 3]
    [] kind = "credential" -> [io : IF c.source = "env" THEN {"ok"} ELSE Io, text : Fragments]
    [] kind \in {"process", "version"} -> [io : Io, text : Fragments]
    [] kind = "ping"       -> [io : Io, allLost : BOOLEAN]
    [] kind = "container"  -> [io : Io, running : BOOLEAN]
    [] kind = "compose"    -> [io : Io, services : UNION {[d -> Service] : d \in {{}, {"db"}, {"web"}}}]
    [] kind = "k8s"        -> [io : Io, status : {"True", "False"}]
    [] kind = "ios"        -> [io : Io, devices : {{}} \cup {{d} : d \in Device}]
    [] kind = "android"    -> [io : Io, booted : BOOLEAN]
    [] kind = "http"       -> [io : {"ok", "request", "body"}, status : {200, 500},
                               body : Fragments, header : Fragments]
    [] kind = "ssl"        -> [io : Io, trusted : BOOLEAN, daysLeft : {-1, 0, 6, 7}]
    [] kind \in {"url", "service", "s3"} -> [io : Io, status : {200, 299, 300, 403, 404}]
    [] kind = "dns"        -> [io : IF c.recordType = "SRV" THEN {"failed"} ELSE Io,
                               addrs : {{}, {"ip"}}]
    [] kind = "grpc"       -> [tagged : BOOLEAN, io : Io, status : {"SERVING", "UNKNOWN"}]
    [] kind = "graphql"    -> [io : Io, status : {200, 404},
                               json : {"invalid", "errors", "data"}, types : {{}, {"User"}},
                               body : Fragments]
                              \cup [io : {"ok"}, status : {200}, json : {"absent"},
                                    types : {{}}, body : Fragments]
    [] kind = "deep_link"  -> [assetlinks : Linked, aasa : {{a} : a \in Fetched},
                               tools : {{}, {"adb"}, {"xcrun"}},
                               adb : {"resolved", "error"}, xcrun : {"opened", "error"}]
    [] kind = "docs"       -> [binary : BOOLEAN, help : Helps, flags : {<< >>, [run |-> {"all"}]},
                               docs : {{d} : d \in Doc}]
    [] kind = "plugin"     -> [io : Io, pass : BOOLEAN, details : SUBSET BOOLEAN]
    [] OTHER               -> [io : Io]

First ==
  {[Test(p1, TRUE, Exit0) EXCEPT !.cleanup = x, !.extract = TRUE] : x \in BOOLEAN}
    \cup {[Test(p1, TRUE, Exit0) EXCEPT !.guarded = TRUE],
          [Test(p1, FALSE, [file |-> << >>]) EXCEPT !.allow = TRUE, !.extract = TRUE],
          [Test(Unset, TRUE, Exit0) EXCEPT !.skip = TRUE],
          Test(Unset, TRUE, [exit |-> [exit |-> 1], plugin |-> << >>])}
Second == {[Test(p2, TRUE, Exit0) EXCEPT !.refers = TRUE],
           [Test(Unset, TRUE, Exit0) EXCEPT !.refers = TRUE, !.allow = TRUE]}
Skipped == [Test(Unset, TRUE, Exit0) EXCEPT !.skip = TRUE]
Third   == {Test(Unset, FALSE, e) : e \in Checks}

Suite(p, x, y) == [parallel |-> p, spec |-> (t1 :> x @@ t2 :> y)]

MCTests  == {t1, t2}
MCSuites == {Suite(p, x, y) : p \in BOOLEAN, x \in First, y \in Second}
              \cup {Suite(FALSE, Skipped, y) : y \in Third}
SideBySide == {s \in MCSuites : s.parallel}
=============================================================================

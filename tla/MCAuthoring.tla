---------------------------- MODULE MCAuthoring ----------------------------
(* Three processes in one directory: directories of all types for init, a  *)
(* few for the others.                                                     *)
EXTENDS Authoring

Idle == [cmd |-> "validate", force |-> FALSE, flags |-> {}, ports |-> << >>, resources |-> << >>, kind |-> ""]
Job(cmd) == [Idle EXCEPT !.cmd = cmd]
Flagged(cmd, flags) == [Job(cmd) EXCEPT !.flags = flags]
Forced(j) == [j EXCEPT !.force = TRUE]

Singles == {{mark} : mark \in UNION {Marks[type] : type \in DOMAIN Marks}}
Special ==
  {{}, {"app.json", "metro.config.js"}, {"pubspec.yaml", "sdk: flutter"}, {"pubspec.yaml"}, {"Podfile"},
   {"build.gradle"}, {"package.json", "build.gradle"}, {"Package.swift"}, {"config.toml", "content"},
   {"_config.yml", "Gemfile"}, {"go.mod", "main.go"}, {"package.json", "bin", "SPEC.md", "script start"},
   {"pyproject.toml", "[project.scripts]"}, {"Cargo.toml", "src/main.rs", "README.md"}, {"README.md"},
   {"go.mod", "cmd", "README.md", "Dockerfile", ".env.example", "http.ListenAndServe"},
   {"go.mod", "docker-compose.yml", ".smoke.yaml"}, {"Chart.yaml", "Dockerfile", "requirements.txt"}}
Directories == Singles \cup Special
Busy == {{"go.mod", "cmd", "README.md", "docker-compose.yml"}, {"package.json", "script start"}}

Own  == Document("dir", <<Command("own")>>)
MCShared == <<Command("shared")>>
Files == {Unset, Own, [Own EXCEPT !.includes = <<"shared">>], [Own EXCEPT !.version = 0],
          Broken, [Own EXCEPT !.tests[1].run = FALSE]}

Resource(key, holds, attrs) == [key |-> key, holds |-> holds, attrs |-> attrs]
Resources ==
  {<<Resource(key, holds, {})>> : holds \in BOOLEAN,
     key \in {"process", "port", "file", "http", "addr", "command", "service", "kernel-param", "package",
              "user", "group", "dns", "interface", "mount", "gossfile"}}
  \cup {<<Resource("port", TRUE, {"malformed"}), Resource("service", TRUE, {"enabled"})>>,
        <<Resource("addr", TRUE, {"no port"}), Resource("package", TRUE, {"version"})>>,
        <<Resource("command", TRUE, {"several"}), Resource("file", FALSE, {"mode"})>>}
Migrations == {[Job("migrate") EXCEPT !.resources = r, !.flags = flags] : r \in Resources, flags \in {{}, {"strict"}}}
Snippets == {[Job("generate_test") EXCEPT !.kind = k] : k \in {"http", "json_field", "dns_resolve"}}
Inits == {Job("init"), Flagged("init", {"docs"}), Flagged("init", {"stopped"}), Job("smoke_init")}
         \cup {Forced([Flagged("init", {"container"}) EXCEPT !.ports = ports]) : ports \in {<< >>, <<8080, 22>>}}
Observations == {Flagged("observe", seen) : seen \in {{"quiet"}, {"stdout", "quiet"}, {"port", "page"}}}
AllSnippets == {[Job("generate_test") EXCEPT !.kind = k] : k \in SnippetKinds \cup {"dns_resolve"}}
AllObservations == {Flagged("observe", seen) : seen \in SUBSET {"stdout", "file", "port", "page"}}

(* Alone, whatever there is; then two or three at a time.                  *)
Alone1 == [dir : Directories, file : Files, jobs : {<<j, Job("fix"), Job("validate")>> : j \in Inits}]
Busy2  == [dir : Busy, file : Files,
           jobs : {<<j, k, Job("validate")>> : j \in Inits \cup Snippets \cup Observations, k \in {Job("fix"), Job("smoke_init")}}
                  \cup {<<Job("fix"), Job("fix"), Job("validate")>>, <<Job("fix"), Job("smoke_run"), Job("validate")>>}]
Moved  == [dir : {{}}, file : {Unset, Own}, jobs : {<<j, Job("validate"), Job("smoke_run")>> : j \in Migrations}]
Pasted == [dir : {{}}, file : {Own, [Own EXCEPT !.jaeger = TRUE], [Own EXCEPT !.version = 0], Broken},
           jobs : {<<j, Job("fix"), Job("validate")>> : j \in AllSnippets \cup AllObservations}]
MCWork == Alone1 \cup Busy2 \cup Moved \cup Pasted
=============================================================================

------------------------------ MODULE Detector ------------------------------
(***************************************************************************)
(* What SmokeSig makes of a project it has not seen before: the types of   *)
(* project that the files in a directory stand for, and the configuration  *)
(* that is generated for them, or for a running container.                 *)
(*                                                                         *)
(* A directory is the set of marks found in it: names of files, globs that *)
(* match, and what the files say, such as "dep react-native".  A test is   *)
(* its name, whether it has a command, whether name or command speak of    *)
(* building, the kinds of its assertions, whether these are filled in, and *)
(* whether there are braces in its command that loading takes for a        *)
(* template.                                                               *)
(***************************************************************************)
EXTENDS Kinds, Integers, Sequences, FiniteSets, SequencesExt

Test(name, run, build, kinds) ==
  [name |-> name, run |-> run, build |-> build, kinds |-> kinds, filled |-> TRUE, text |-> "plain"]
Command(name)  == Test(name, TRUE, FALSE, {"exit_code"})
Building(name) == Test(name, TRUE, TRUE, {"exit_code"})
Alone(name, kind) == Test(name, FALSE, FALSE, {kind})
If(condition, seq) == IF condition THEN seq ELSE << >>

-----------------------------------------------------------------------------
(* Types of projects.                                                      *)

ProjectTypes ==
  <<"go", "node", "python", "docker", "rust", "react-native", "flutter", "ios", "android", "java",
    "java-gradle", "dotnet", "ruby", "php", "deno", "terraform", "helm", "kustomize", "serverless",
    "zig", "elixir", "scala", "swift-server", "dart-server", "hugo", "astro", "jekyll", "make",
    "cmake", "haskell", "lua">>

(* The marks of which one is enough.                                       *)
Marks ==
  [go |-> {"go.mod"}, node |-> {"package.json"}, rust |-> {"Cargo.toml"}, java |-> {"pom.xml"},
   python |-> {"pyproject.toml", "requirements.txt", "setup.py"},
   docker |-> {"Dockerfile", "docker-compose.yml"}, dotnet |-> {"*.csproj", "*.sln"},
   ruby |-> {"Gemfile"}, php |-> {"composer.json"}, deno |-> {"deno.json", "deno.jsonc"},
   terraform |-> {"*.tf"}, helm |-> {"Chart.yaml"}, zig |-> {"build.zig"}, elixir |-> {"mix.exs"},
   kustomize |-> {"kustomization.yaml", "kustomization.yml"}, scala |-> {"build.sbt"},
   serverless |-> {"serverless.yml", "serverless.yaml"}, astro |-> {"astro.config.*"},
   make |-> {"Makefile"}, cmake |-> {"CMakeLists.txt"}, haskell |-> {"stack.yaml", "*.cabal"},
   lua |-> {"*.rockspec"}]
Gradle == {"build.gradle", "build.gradle.kts"}
XCode  == {"*.xcodeproj", "*.xcworkspace"}

Has(dir, marks) == dir \cap marks # {}
ReactNative(dir) == /\ "app.json" \in dir
                    /\ {"package.json", "dep react-native"} \subseteq dir \/ "metro.config.js" \in dir
Flutter(dir) == {"pubspec.yaml", "sdk: flutter"} \subseteq dir
Native(dir)  == ~ReactNative(dir) /\ ~Flutter(dir)
IsType(type, dir) ==
  CASE type = "react-native" -> ReactNative(dir)
    [] type = "flutter"      -> Flutter(dir)
    [] type = "ios"          -> Native(dir) /\ Has(dir, XCode \cup {"Podfile"})
    [] type = "android"      -> Native(dir) /\ Has(dir, Gradle) /\ ~Has(dir, {"go.mod", "package.json"})
    [] type = "java-gradle"  -> "package.json" \in dir /\ Has(dir, Gradle)
    [] type = "swift-server" -> "Package.swift" \in dir /\ ~Has(dir, XCode)
    [] type = "dart-server"  -> "pubspec.yaml" \in dir /\ ~Flutter(dir)
    [] type = "hugo"         -> Has(dir, {"hugo.toml", "hugo.yaml"}) \/ {"config.toml", "content"} \subseteq dir
    [] type = "jekyll"       -> {"_config.yml", "Gemfile"} \subseteq dir
    [] OTHER                 -> Has(dir, Marks[type])
Detect(dir) == SelectSeq(ProjectTypes, LAMBDA type : IsType(type, dir))

(* The directory holds a program with a command line of its own.           *)
IsCLI(type, dir) ==
  CASE type = "go"     -> Has(dir, {"cmd", "main.go"})
    [] type = "node"   -> {"package.json", "bin"} \subseteq dir
    [] type = "python" -> {"pyproject.toml", "[project.scripts]"} \subseteq dir
    [] type = "rust"   -> {"Cargo.toml"} \subseteq dir /\ Has(dir, {"[[bin]]", "src/main.rs"})
    [] OTHER           -> FALSE
DetectCLI(dir) == \E i \in DOMAIN Detect(dir) : IsCLI(Detect(dir)[i], dir)
DocFiles == {"README.md", "CLAUDE.md", "docs/USAGE.md", "SPEC.md"}
DetectDocFiles(dir) == dir \cap DocFiles

-----------------------------------------------------------------------------
(* The generated configuration.  Of bun and npm only the commands differ.  *)

Compiled == <<Building("Compiles"), Command("Tests pass")>>
Built    == <<Building("Builds"), Command("Tests pass")>>
Sites(type) ==
  CASE type \in {"swift-server", "haskell"} -> Built
    [] type = "dart-server" -> <<Command("Dependencies"), Command("Tests pass")>>
    [] type = "astro"       -> <<Command("Type check"), Building("Builds")>>
    [] type = "cmake"       -> <<Building("Configures"), Building("Builds")>>
    [] type \in {"hugo", "jekyll"} -> <<Building("Site builds")>>
    [] type \in {"make", "lua"}    -> <<Building("Builds")>>
Infrastructure(type) ==
  CASE type = "terraform"   -> <<Command("Valid configuration"), Command("Formatted")>>
    [] type = "helm"        -> <<Command("Chart lint"), Command("Template renders")>>
    [] type = "kustomize"   -> <<Command("Renders manifests")>>
    [] type = "serverless"  -> <<Command("Valid configuration")>>
    [] type = "zig"         -> <<Building("Builds"), Building("Tests pass")>>
    [] type = "elixir"      -> <<Command("Dependencies")>> \o Compiled
    [] type = "scala"       -> Compiled
    [] OTHER                -> Sites(type)
Platforms(type, dir) ==
  CASE type \in {"java", "java-gradle", "dotnet"} -> Compiled
    [] type = "ruby" -> <<Command("Dependencies")>> \o If("Rakefile" \in dir, <<Command("Rake tasks pass")>>)
    [] type = "php"  -> <<Command("Dependencies"), Command("Syntax check")>>
    [] type = "deno" -> <<Command("Type check"), Command("Tests pass")>>
    [] OTHER         -> Infrastructure(type)
Tests(type, dir) ==
  CASE type \in {"go", "rust"} -> Compiled
    [] type = "node"   -> <<Command("Dependencies")>> \o If("script lint" \in dir, <<Command("Lint")>>)
    [] type = "python" -> <<Command("Import check")>>
    [] type = "docker" -> <<Building("Docker build")>>
    [] type = "react-native" -> <<Alone("Deep link scheme configured", "deep_link")>>
    [] type \in {"flutter", "ios", "android"} -> <<Alone("Universal link config valid", "deep_link")>>
    [] OTHER           -> Platforms(type, dir)

Document(project, tests) ==
  [ok |-> TRUE, version |-> 1, project |-> project, includes |-> << >>, tests |-> tests, jaeger |-> FALSE]

(* Fault: it is not noticed that there is no documentation.                *)
Fault_appendDocIntegrity(dir, forced) ==
  If(DetectCLI(dir) \/ forced,
     <<[Alone("Docs in sync", "doc_integrity") EXCEPT !.filled = DetectDocFiles(dir) # {}]>>)
appendDocIntegrity(dir, forced) ==
  If((DetectCLI(dir) \/ forced) /\ DetectDocFiles(dir) # {}, <<Alone("Docs in sync", "doc_integrity")>>)
GenerateConfig(dir, forced) ==
  LET types == Detect(dir)
  IN  Document("dir", FlattenSeq([i \in DOMAIN types |-> Tests(types[i], dir)]) \o appendDocIntegrity(dir, forced))

(* A container is the ports it listens on, whichever tool tells, in order. *)
(* docker is asked whether it runs with a template of docker's own, which  *)
(* goes into the file as it is.                                            *)
HTTPPorts == {80, 443, 8080, 8000, 8443, 3000, 4000, 5000, 9000}
InspectContainer(ports) ==
  LET Listening == Test("Port is listening", TRUE, FALSE, {"port_listening"})
      Endpoint  == Test("HTTP endpoint on port", TRUE, FALSE, {"http"})
  IN  Document("container",
        <<[Test("Container is running", TRUE, FALSE, {"exit_code", "stdout_contains"}) EXCEPT !.text = "template"]>>
        \o [i \in DOMAIN ports |-> Listening]
        \o [i \in 1..Len(SelectSeq(ports, LAMBDA port : port \in HTTPPorts)) |-> Endpoint])
=============================================================================

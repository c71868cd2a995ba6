------------------------------ MODULE MCConfig ------------------------------
(* Small trees of files, a server with three versions of one document, two   *)
(* processes that share the cache.                                         *)
EXTENDS Config

Doc(name) ==
  [EmptyDoc EXCEPT !.version = 1, !.project = name, !.prereqs = <<name>>,
     !.tests = <<[name |-> name, run |-> TRUE, checks |-> << >>, retry |-> Unset, auth |-> "",
                  plugins |-> {}]>>]

MCFiles ==
  [plain   |-> [Doc("plain") EXCEPT !.auth.profiles =
                  <<[name |-> "ci", provider |-> "aws", has |-> {"role_arn"}, bad |-> {}]>>],
   top     |-> [Doc("top") EXCEPT !.includes = <<"left", "right">>],
   left    |-> [Doc("left") EXCEPT !.includes = <<"leaf">>],
   right   |-> [Doc("right") EXCEPT !.includes = <<"leaf">>],
   leaf    |-> [Doc("leaf") EXCEPT !.plugins = ("p" :> [path |-> "p.wasm", capabilities |-> {"env"}])],
   deep    |-> [Doc("deep") EXCEPT !.includes = <<"top">>],
   circle  |-> [Doc("circle") EXCEPT !.includes = <<"circle">>],
   broken  |-> [Doc("broken") EXCEPT !.ok = FALSE],
   far     |-> [Doc("far") EXCEPT !.extends = "http", !.includes = <<"leaf">>,
                  !.lifecycle = <<[at |-> "before_all", command |-> "up", background |-> TRUE, bounded |-> TRUE]>>],
   lib     |-> [Doc("lib") EXCEPT !.extends = "http"],
   base    |-> [Doc("base") EXCEPT !.includes = <<"lib">>],
   near    |-> [Doc("near") EXCEPT !.extends = "leaf", !.tests[1].checks =
                  ("websocket" :> [has |-> {"url"}, bad |-> {}])],
   lost    |-> [Doc("lost") EXCEPT !.extends = "ftp"],
   staging |-> [Doc("staging") EXCEPT !.includes = <<"leaf">>, !.settings.fail_fast = TRUE,
                  !.notifications = <<[url |-> "https", format |-> "slack", on |-> ""]>>],
   gone    |-> Unset]
MCRemote == <<Doc("remote"), [Doc("remote2") EXCEPT !.settings.timeout = 30], [Doc("remote3") EXCEPT !.ok = FALSE]>>

Order(path, env, flags, validate) == [path |-> path, env |-> env, flags |-> flags, validate |-> validate]
Local == {Order(f, "", {}, TRUE) : f \in DOMAIN MCFiles}
         \cup {Order(f, "staging", {"collector", "no-auth"}, TRUE) : f \in {"plain", "top", "near"}}
         \cup {Order("plain", "gone", {"no-otel"}, TRUE)}
Shared == {Order("far", "", {}, FALSE), Order("far", "staging", {}, TRUE),
           Order("base", "", {}, TRUE)}
MCOrders == {<<o, Order("plain", "", {}, TRUE)>> : o \in Local} \cup {<<o, Order("far", "", {}, TRUE)>> : o \in Shared}
Overlaid == {<<o, Order("plain", "", {}, TRUE)>> : o \in Shared}
=============================================================================

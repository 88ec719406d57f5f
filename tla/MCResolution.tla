---------------------------- MODULE MCResolution ----------------------------
(***************************************************************************)
(* Small inputs for Resolution and LoadPlan: every shape of three calls    *)
(* over two importable suites, every combination of layers of one          *)
(* variable, pairs of backends, triples of services, and plan files in     *)
(* which names are bound twice and limits are met, exceeded and overflown. *)
(* And small instances of where suites, settings and profiles come from:   *)
(* the package's gateway, the caches, the suite reader and the managed     *)
(* profiles; and the documents of mocks and reports.  A behaviour is about *)
(* one of them (part).                                                     *)
(***************************************************************************)
EXTENDS Resolution, LoadPlan, Gateway, CatalogCache, SuiteReader, Profiles, MockSchema, StepReports

Call(fn, var, after) ==
    [fn |-> fn, name |-> "-", var |-> var, op |-> "run", after |-> after, onFailure |-> {}, resetMocks |-> {}, soft |-> FALSE,
     ref |-> "", image |-> TRUE, typed |-> TRUE, plan |-> TRUE, env |-> <<>>]
Import(alias, var, after) == [Call("suite", var, after) EXCEPT !.ref = alias]
Dependency(name) ==
    [ref |-> [name |-> name, suffix |-> ""], version |-> "", profile |-> "", inputs |-> "IN" :> "i"]

Suite(id, calls, hook) ==
    [id |-> id, repository |-> "repo/" \o id, version |-> "1", valid |-> TRUE, calls |-> calls, hook |-> hook,
     manifest |-> "b" :> Dependency("b") @@ "c" :> Dependency("c") @@ "a" :> Dependency("repo/a"), locks |-> <<>>,
     profiles |-> <<[fileName |-> "q", default |-> FALSE], [fileName |-> "p", default |-> id = "b"]>>,
     profileEnv |-> "p" :> [env |-> "E" :> "p",
                            services |-> <<"db">> :> ("E" :> "db") @@ <<"n", "t">> :> ("E" :> "nt")]]

Hook == <<Call("task", "up", {}), Call("task", "wait", {1}), Call("task", "warm", {})>>

FirstCalls == {Call("task", "x", {}), Import("b", "x", {}), Import("c", "x", {})}
SecondCalls == {Call("task", "y", {}), Call("task", "y", {1}), Import("c", "y", {1}), Import("b", "y", {}), Import("b", "y", {1})}
ThirdCalls ==
    {[c EXCEPT !.after = s] : c \in {Call("task", "", {}), Import("b", "z", {}), Import("c", "z", {})}, s \in SUBSET {1, 2}} \cup
    {[Call("task", "z", {2}) EXCEPT !.onFailure = {1}], [Call("test", "z", {}) EXCEPT !.resetMocks = {1}],
     [Call("plugin", "", {2}) EXCEPT !.name = "scan"]}

SuitesA == {Suite("a", <<x, y, z>>, h) : x \in FirstCalls, y \in SecondCalls, z \in ThirdCalls, h \in {NoHook, Hook}}
SuitesB ==
    {Suite("b", <<Call("service", "db", {}), Call("mock", "api", {})>>, NoHook),
     Suite("b", <<Call("task", "m", {}), Import("c", "n", {1}), Call("task", "k", {2})>>, Hook),
     Suite("b", <<Call("task", "m", {}), Import("c", "n", {}), Import("c", "o", {1})>>, NoHook)}
SuitesC ==
    {Suite("c", <<Call("task", "t", {}), Call("task", "u", {1}), Call("task", "v", {1})>>, NoHook),
     Suite("c", <<Call("mock", "t", {})>>, Hook)}

\* Suites that are refused, one reason each, and dependencies by version.
OddA == Suite("a", <<Import("b", "x", {})>>, NoHook)
OddB == Suite("b", <<Call("mock", "m", {})>>, NoHook)
OldB == [Suite("b0", <<Call("mock", "old", {})>>, NoHook) EXCEPT !.repository = "repo/b", !.version = "0"]
ByEntry(dep) == <<[OddA EXCEPT !.manifest = "b" :> dep], OddB, OldB>>
Entry(name, suffix, version) == [Dependency(name) EXCEPT !.ref = [name |-> name, suffix |-> suffix], !.version = version]
OddCatalogs ==
    {<<[OddA EXCEPT !.valid = FALSE], OddB>>, <<[OddA EXCEPT !.calls = <<>>], OddB>>, <<[OddA EXCEPT !.manifest = <<>>], OddB>>,
     <<OddA, Suite("b", <<Import("a", "back", {})>>, NoHook)>>, <<OddA, [OddB EXCEPT !.hook = <<Import("c", "x", {})>>]>>,
     <<Suite("a", <<Call("service", "s", {}), [Call("task", "t", {}) EXCEPT !.name = "s"]>>, NoHook)>>,
     <<Suite("a", <<[Call("service", "s", {}) EXCEPT !.image = FALSE]>>, NoHook)>>,
     <<Suite("a", <<[Call("traffic", "s", {}) EXCEPT !.plan = FALSE]>>, NoHook)>>,
     ByEntry(Entry("repo/b", "0", "")), ByEntry(Entry("repo/b", "1", "0")), ByEntry(Entry("repo/b", "latest", "")),
     ByEntry(Entry("repo/b", "sha", "")), ByEntry(Entry("repo/b", "2", "")), ByEntry(Entry("", "", "")),
     ByEntry([Entry("b", "", "1") EXCEPT !.profile = "q"]), ByEntry([Entry("b", "", "1") EXCEPT !.profile = "r"]),
     <<[OddA EXCEPT !.manifest = "b" :> Entry("repo/b", "sha", ""), !.locks = "b" :> [NoLock EXCEPT !.version = "1"]], OddB, OldB>>}

MCCatalogs == {<<a, b, c>> : a \in SuitesA, b \in SuitesB, c \in SuitesC} \cup OddCatalogs

-----------------------------------------------------------------------------
Maybe(value) == {NoMap, "K" :> value}
Quantity(n) == [typo |-> FALSE, n |-> n]
Service(env, memory) == [env |-> env, devices |-> <<>>, memory |-> memory, cpu |-> Quantity(1)]
Record(id, extends, env, services, secrets) ==
    [id |-> id, fileName |-> id, extends |-> extends, env |-> env, services |-> services, network |-> "", secrets |-> secrets,
     tags |-> IF id = "root" THEN {"gpu"} ELSE {}]
Secret(scheme, provider) == <<[key |-> "K", scheme |-> scheme, provider |-> provider]>>
Settings(provider, address, overrides) ==
    [provider |-> provider, overrides |-> overrides, address |-> address, token |-> TRUE, vault |-> "K" :> "vault"]
Chains == {<<"leaf", "root", "">>, <<"leaf", "base", "">>, <<"leaf", "gone", "">>, <<"leaf", "root", "leaf">>}

MCProfileInputs ==
    {[records |-> <<Record(ch[1], ch[2], leaf, IF svc = NoMap THEN NoMap ELSE "db" :> Service(svc, Quantity(0)), ref),
                    Record("root", ch[3], root, "db" :> Service("K" :> "root db", Quantity(5)), <<>>)>>,
      fileName |-> "leaf", settings |-> set, processEnv |-> "K" :> "process", node |-> [id |-> "db", name |-> "db", env |-> own]]
        : ch \in Chains, leaf \in Maybe("leaf"), root \in Maybe("root"), svc \in Maybe("leaf db"), own \in Maybe("own"),
          ref \in {<<>>, Secret("vault", ""), Secret("secrets", ""), Secret("", ""), Secret("", "aws")},
          set \in {Settings("none", "", "K" :> "override"), Settings("vault", "far", NoMap), Settings("vault", "blocked", NoMap),
                   Settings("local", "far", NoMap)}}

-----------------------------------------------------------------------------
Agent(id, type, default, tags, up) == [id |-> id, type |-> type, enabled |-> TRUE, default |-> default, tags |-> tags, up |-> up]
Agents(id) ==
    {Agent(id, t, d, g, TRUE) : t \in {"docker", "k8s"}, d \in BOOLEAN, g \in {{}, {"gpu"}}} \cup
    {Agent(id, "remote-agent", FALSE, {"gpu"}, FALSE), Agent(id, "bogus", TRUE, {"gpu"}, TRUE),
     [Agent(id, "local", TRUE, {"gpu"}, TRUE) EXCEPT !.enabled = FALSE]}

MCLaunchInputs ==
    {[agents |-> <<a1, a2>>, mode |-> m, requested |-> r, required |-> g]
        : a1 \in Agents("a1"), a2 \in Agents("a2"), m \in {"unset", "local", "remote", "hybrid"},
          r \in {"unset", "auto", "a1", "a3"}, g \in {{}, {"gpu"}}}

Services == {[suite |-> s, name |-> n, kind |-> k] : s \in {<<>>, <<"root">>, <<"x">>, <<"x", "y">>},
                                                     n \in {<<"db">>, <<"api">>, <<"y", "db">>}, k \in {"service", "task"}}
MCNameInputs == {[nodes |-> <<n1, n2, n3>>, root |-> <<"root">>] : n1, n2, n3 \in Services}

-----------------------------------------------------------------------------
Statement(call, name) ==
    [call |-> call, name |-> name, usable |-> TRUE, items |-> <<>>, shape |-> <<>>, checks |-> <<>>, request |-> "r", wait |-> "none",
     weight |-> 0, inline |-> 0, duration |-> 1, users |-> 1]
StageOf(duration, users) == [Statement("stage", "s") EXCEPT !.duration = duration, !.users = users]
Opening == <<[Statement("request", "r") EXCEPT !.inline = 1], Statement("threshold", "h"), Statement("wait", "w"),
             [Statement("task", "t") EXCEPT !.checks = <<"h">>], [Statement("user", "u") EXCEPT !.items = <<"t">>, !.wait = "w"]>>
Again == {<<>>, <<Statement("request", "r")>>, <<Statement("task", "t")>>, <<Statement("task", "u")>>,
          <<[Statement("user", "u") EXCEPT !.items = <<"t", "t">>]>>, <<[Statement("user", "u") EXCEPT !.items = <<"t", "t", "t">>]>>,
          <<Statement("comment", "t")>>, <<Statement("user", "u")>>}
PlanOf(shape) == [Statement("plan", "none") EXCEPT !.items = <<"u">>, !.shape = shape, !.checks = <<"h">>]
Shapes(n) == [i \in 1..n |-> "s"]
Refused1 == {<<[Statement(c, "x") EXCEPT !.usable = FALSE]>> : c \in {"request", "wait", "threshold"}} \cup
            {<<Statement("plan", "none")>>, <<StageOf(0, 1)>>, <<[Statement("task", "t") EXCEPT !.request = "none"]>>,
             <<[Statement("user", "u") EXCEPT !.items = <<"t">>]>>, <<[PlanOf(<<"s">>) EXCEPT !.items = <<"no">>]>>}

MCPlanFiles ==
    {Opening \o a \o <<StageOf(d, n)>> \o b \o <<PlanOf(Shapes(k))>> \o a
        : a \in Again, b \in Again, d \in {1, 2, 15}, n \in {-1, 1, 2, 3}, k \in 0..3} \cup
    Refused1 \cup {Opening \o <<StageOf(1, 1), PlanOf(<<"s">>), PlanOf(<<"s">>)>>,
                   Opening \o <<StageOf(1, 3), [Statement("stage", "z") EXCEPT !.users = 1], PlanOf(<<"s", "z">>)>>}

-----------------------------------------------------------------------------
(* The files of a package: mock metadata on three surfaces and the API       *)
(* descriptions that may go with it; create-order has two that claim it.     *)

Meta(surface, adapter, id, runtime) ==
    [surface |-> surface, adapter |-> adapter, id |-> id, runtime |-> runtime]

MCMetas ==
    {Meta("shop", "rest", "create-order", <<"orders">>), Meta("shop", "rest", "get-order", <<"orders", "7">>),
     Meta("soap", "rest", "claim", <<"ClaimService">>), Meta("shop", "grpc", "track", <<"track">>),
     Meta("shop", "rest", "latest", <<"orders", "latest">>),
     Meta("bus", "async", "event", <<"event">>), Meta("bus", "async", "notice", <<"notice">>)}

Operation(id, method, path, host) == [id |-> id, method |-> method, path |-> path, host |-> host]

MCDescriptions ==
    {Operation("createOrder", "POST", <<"orders">>, "http"), Operation("getOrder", "GET", <<"orders", "{id}">>, ""),
     Operation("latest", "GET", <<"orders", "latest">>, ""),
     Operation("create_order", "PUT", <<"orders", "{key}">>, "http"), Operation("event", "POST", <<"event">>, "mqtt"),
     Operation("notice", "POST", <<"notice">>, "amqp")}

\* Three suites: b imports a, c imports both.
MCImports == [p \in {"a", "b", "c"} |-> CASE p = "a" -> {} [] p = "b" -> {"a"} [] p = "c" -> {"a", "b"}]

\* The profiles of three versions of a package, the last with none to launch.
Profile(file, default) == [file |-> file, default |-> default]
MCReleases == <<<<Profile("base", FALSE), Profile("local", TRUE), Profile("ci", FALSE)>>,
                <<Profile("ci", TRUE), Profile("perf", TRUE)>>, <<Profile("base", TRUE)>>>>

-----------------------------------------------------------------------------
VARIABLE part
mcVars == <<part, resolutionVars, planVars, gatewayVars, cacheVars, suiteVars, profileVars, field, reportVars>>

NoQuestion == question = "none" /\ input = <<>> /\ answered = FALSE /\ answer = <<>>
NoPlan ==
    /\ statements = <<>> /\ variant = "smoke" /\ rate = 0 /\ next = 1 /\ bound = <<>> /\ spec = <<>>
    /\ foundPlan = FALSE /\ tally = NoTally /\ planResult = "none"

MCInit ==
    /\ \/ part = "plan" /\ PlanInit /\ NoQuestion
       \/ part = "resolution" /\ ResolutionInit /\ NoPlan
       \/ part \in {"gateway", "caches", "suites", "profiles", "schema", "reports"} /\ NoQuestion /\ NoPlan
    /\ GatewayInit /\ CacheInit /\ ReaderInit /\ ProfilesInit /\ SchemaInit /\ ReportsInit

\* What stays as it is while one part runs.
OthersStay(p) ==
    /\ p # "plan" => UNCHANGED planVars
    /\ p # "resolution" => UNCHANGED resolutionVars
    /\ p # "gateway" => UNCHANGED gatewayVars
    /\ p # "caches" => UNCHANGED cacheVars
    /\ p # "suites" => UNCHANGED suiteVars
    /\ p # "profiles" => UNCHANGED profileVars
    /\ p # "schema" => UNCHANGED field
    /\ p # "reports" => UNCHANGED reportVars

MCNext ==
    /\ UNCHANGED part
    /\ \/ part = "plan" /\ PlanNext /\ OthersStay("plan")
       \/ part = "resolution" /\ ResolutionNext /\ OthersStay("resolution")
       \/ part = "gateway" /\ GatewayNext /\ OthersStay("gateway")
       \/ part = "caches" /\ CacheNext /\ OthersStay("caches")
       \/ part = "suites" /\ ReaderNext /\ OthersStay("suites")
       \/ part = "profiles" /\ ProfilesNext /\ OthersStay("profiles")
       \/ part = "schema" /\ SchemaNext /\ OthersStay("schema")
       \/ part = "reports" /\ ReportsNext /\ OthersStay("reports")

MCSpec == MCInit /\ [][MCNext]_mcVars

-----------------------------------------------------------------------------
\* A suite's mocks answer what its documents describe: the sidecar's routes
\* reach the operations of the mock engine (gateway parsers, apisix routes),
\* and what a schema renders has the type it declares (mocking/schema_runtime.go).
MocksAsDescribed == DescribedRoutesReach /\ RenderedConforms
=============================================================================

----------------------------- MODULE Resolution -----------------------------
(***************************************************************************)
(* What has to be settled before a run starts, each question answered in   *)
(* one step: the graph of a suite, the overlay of a profile, the backend   *)
(* and the host names.  The properties compare the answers with            *)
(* definitions that do not follow the code's way of computing them.        *)
(***************************************************************************)
EXTENDS SuiteTopology, ProfileOverlay, LaunchPlan, FiniteSetsExt

CONSTANTS
    Catalogs,      \* catalogs whose first suite is resolved
    ProfileInputs, \* [records, fileName, settings, processEnv, node]
    LaunchInputs,  \* [agents, mode, requested, required]
    NameInputs     \* [nodes, root]

\* The settings list their agents.
ASSUME LaunchAssumption == \A l \in LaunchInputs : DOMAIN l.agents \subseteq Nat

VARIABLES question, input, answered, answer

resolutionVars == <<question, input, answered, answer>>

ResolutionInit ==
    /\ \/ question = "suite" /\ input \in Catalogs
       \/ question = "profile" /\ input \in ProfileInputs
       \/ question = "backend" /\ input \in LaunchInputs
       \/ question = "names" /\ input \in NameInputs
    /\ answered = FALSE /\ answer = <<>>

Answer(q, value) ==
    /\ question = q /\ ~answered /\ answered' = TRUE
    /\ answer' = value /\ UNCHANGED <<question, input>>

AnswerSuite == Answer("suite", ResolveSuite(input, input[1].id))

AnswerProfile ==
    LET overlay == RuntimeOverlay(input.records, input.fileName, input.settings, input.processEnv)
    IN Answer("profile", [err |-> overlay.err, env |-> NodeRuntimeEnv(overlay, input.node),
                          devices |-> NodeDevices(overlay, input.node), memory |-> NodeMemory(overlay, input.node),
                          cpu |-> NodeCPU(overlay, input.node), network |-> ExecutionNetwork(overlay),
                          tags |-> ProfileAgentTags(input.records, input.fileName)])

AnswerBackend == Answer("backend", ResolveBackend(input.agents, input.mode, input.requested, input.required))

AnswerNames ==
    Answer("names", [i \in DOMAIN input.nodes |-> AliasesForNode(input.nodes, input.root, input.nodes[i])])

ResolutionNext == AnswerSuite \/ AnswerProfile \/ AnswerBackend \/ AnswerNames

ResolutionSpec == ResolutionInit /\ [][ResolutionNext]_resolutionVars

-----------------------------------------------------------------------------
(* Suites.  An occurrence is a place where a suite is expanded: the path   *)
(* of its nodes and the suite.                                             *)

Target(catalog, suite, alias) == ResolveDependency(catalog, alias, suite.manifest[alias], Lock(suite, alias)).suite

Occurrences(catalog) ==
    LET at[k \in 0..Len(catalog)] ==
            IF k = 0 THEN {[path |-> <<>>, suite |-> catalog[1]]}
            ELSE LET above == at[k - 1] IN above \cup
                 UNION {{[path |-> Append(o.path, AssignID(o.suite.calls, i)),
                          suite |-> Target(catalog, o.suite, o.suite.calls[i].ref)]
                            : i \in {j \in DOMAIN o.suite.calls : o.suite.calls[j].fn = "suite"}} : o \in above}
    IN at[Len(catalog)]

\* The nodes of a result below a path, and all that a node waits for.
Below(nodes, path) == {n.id : n \in {m \in Range(nodes) : IsPrefix(path, m.id)}}

Ancestors(nodes) ==
    LET up[k \in 0..Len(nodes)] ==
            IF k = 0 THEN [d \in IDs(nodes) |-> {}]
            ELSE LET n     == nodes[k]
                     above == up[k - 1]
                 IN Once([above EXCEPT ![n.id] = n.dependsOn \cup UNION {above[d] : d \in n.dependsOn}])
    IN up[Len(nodes)]

\* The calls that call j of a suite says it comes after; on_failure is an
\* ordering edge too for the steps that keep it.
SaysAfter(calls, j) == calls[j].after \cup (IF calls[j].fn \in {"suite", "plugin"} THEN {} ELSE calls[j].onFailure)

\* However suites import one another, a resolved graph keeps the order every
\* suite file asks for: all steps a call stands for wait for all steps of the
\* calls it names, the pre-hook of a suite comes before the rest of that
\* suite, no step is lost, and dependencies come first (the order the queue
\* relies on, and resolveTopology's promise).
WrittenOrderKept ==
    question = "suite" /\ answered /\ answer.err = "" =>
        LET nodes == answer.nodes
            anc   == Ancestors(nodes)
            before(xs, ys) == \A x \in xs, y \in ys : x \in anc[y]
        IN /\ \A i \in DOMAIN nodes : \A d \in nodes[i].dependsOn :
                 \E k \in 1..(i - 1) : nodes[k].id = d /\ nodes[k].level < nodes[i].level
           /\ \A o \in Occurrences(input) :
                 LET place(i) == Below(nodes, Append(o.path, AssignID(o.suite.calls, i)))
                     hook     == Below(nodes, o.path \o PreHookNamespace)
                 IN /\ \A j \in DOMAIN o.suite.calls :
                          /\ place(j) # {}
                          /\ \A i \in SaysAfter(o.suite.calls, j) : before(place(i), place(j))
                    /\ Cardinality(hook) = Len(o.suite.hook)
                    /\ before(hook, Below(nodes, o.path) \ hook)

-----------------------------------------------------------------------------
\* The maps a step's environment is made of, the strongest first: secrets,
\* the service entry of the profile and of those it extends, the step itself,
\* the platform's overrides, the profile's env and what it inherits.
Layers ==
    LET chain  == Reverse(ProfileChain(input.records, SelectSeq(input.records, LAMBDA r : r.fileName = input.fileName)[1].id).chain)
        docs   == [i \in DOMAIN chain |-> chain[i].env]
        entry  == [i \in DOMAIN chain |-> IF input.node.id \in DOMAIN chain[i].services
                                          THEN chain[i].services[input.node.id].env ELSE NoMap]
        refs   == UNION {Range(chain[i].secrets) : i \in DOMAIN chain}
        last(k) == LET i == Min({j \in DOMAIN chain : \E r \in Range(chain[j].secrets) : r.key = k})
                   IN CHOOSE r \in Range(chain[i].secrets) : r.key = k
        got(k) == ResolveSecret(last(k), input.settings, input.processEnv)
        secret == [k \in {r.key : r \in {q \in refs : got(q.key).status = "ok"}} |-> got(k).value]
    IN <<secret>> \o entry \o <<input.node.env, input.settings.overrides>> \o docs

\* A step that starts sees the value of the strongest layer that sets a variable,
\* and no variable that no layer sets.
EnvironmentIsLayered ==
    question = "profile" /\ answered /\ answer.err = "" =>
        /\ DOMAIN answer.env = UNION {DOMAIN Layers[i] : i \in DOMAIN Layers}
        /\ \A k \in DOMAIN answer.env :
              answer.env[k] = Layers[Min({i \in DOMAIN Layers : k \in DOMAIN Layers[i]})][k]

\* A launch goes to a backend that is up and that the deployment mode allows,
\* and to one that carries the profile's tags unless it was asked for by name;
\* it is refused only when there is no such backend, and the default goes first.
BackendHonoursProfile ==
    question = "backend" /\ answered =>
        LET fits(a) == /\ input.mode = "remote" => BackendKind(a.type) # "local"
                       /\ input.mode \notin {"remote", "hybrid"} => BackendKind(a.type) = "local"
            usable == {a \in Range(input.agents) : /\ a.enabled /\ a.up /\ input.required \subseteq a.tags
                                                   /\ BackendKind(a.type) \in BackendKinds /\ fits(a)}
        IN /\ answer.err = "none" => answer.backend.up /\ fits(answer.backend)
           /\ input.requested \in AnyBackend =>
                 /\ answer.err = "none" => answer.missing = {} /\ input.required \subseteq answer.backend.tags
                 /\ usable # {} => answer.err = "none" /\ answer.backend \in usable
                 /\ (\E a \in usable : a.default) => answer.backend.default
           /\ input.requested \notin AnyBackend /\ answer.err = "none" =>
                 answer.backend.id = input.requested /\ answer.missing = input.required \ answer.backend.tags

\* "A name resolves to one container or to nothing" (network_plan.go), where
\* the qualified names of the services differ (a suite is expanded once, and no
\* other way to split a name is a suite and a service too) and no service is
\* called like one of them.
NamesAreUnambiguous ==
    question = "names" /\ answered =>
        LET nodes        == input.nodes
            services     == {i \in DOMAIN nodes : AddressableKind(nodes[i])}
            qualified(i) == QualifiedAlias(NodeOwner(nodes[i], input.root), nodes[i].name)
        IN /\ \A i, j \in services : i # j => qualified(i) # qualified(j)
           /\ \A i, j \in services : nodes[i].name # qualified(j)
           => \A i, j \in DOMAIN nodes : i # j => answer[i] \cap answer[j] = {}

\* A run is placed where its profile and the mode ask for, and the services of
\* its suites can be reached by names that mean one of them.
LaunchSound == BackendHonoursProfile /\ NamesAreUnambiguous
=============================================================================

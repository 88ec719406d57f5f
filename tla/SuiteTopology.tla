--------------------------- MODULE SuiteTopology ----------------------------
(***************************************************************************)
(* From suite files to the graph an execution runs (suites: topology.go,   *)
(* dependency_runtime.go, pre_hook.go, starlark_eval.go).                  *)
(*                                                                         *)
(* A suite.star file is the sequence of step calls its evaluation makes.   *)
(* An id is the sequence of its path segments ("a/b" is <<"a", "b">>), a   *)
(* dependency list is a set, and a result is either an error or the sorted *)
(* nodes.  The catalog is the sequence of known suites in the order of     *)
(* their ids.  Data that no decision here depends on (images, commands,    *)
(* exports, expectations) is carried along by the code and left out.       *)
(***************************************************************************)
EXTENDS Naturals, Sequences, SequencesExt, FiniteSets, TLC

CONSTANT Digests    \* the ref suffixes that start with "sha256:"

NoHook == <<>>
NoLock == [version |-> "", profile |-> "", inputs |-> <<>>]
Failed(why) == [err |-> why, nodes |-> <<>>]

\* The same function; combining it with the empty one makes TLC compute it once.
Once(f) == f @@ <<>>

-----------------------------------------------------------------------------
(* Evaluation of a suite file.  A call holds the function, the name        *)
(* argument ("-" = not given), the longest global variable bound to its    *)
(* result (""  = none) and the earlier calls its lists refer to.           *)

Soft(c) == IF c.fn = "plugin" THEN c.op \in {"watch", "monitor"} ELSE c.soft

\* A builder refuses a service without an image, a plugin step without a name
\* and arguments of the wrong type.
Refused(c) ==
    \/ ~c.typed
    \/ c.fn = "service" /\ ~c.image
    \/ c.fn = "plugin" /\ c.name \in {"-", ""}

AssignID(calls, i) ==
    IF calls[i].name # "-" THEN calls[i].name
    ELSE IF calls[i].var # "" THEN calls[i].var
    ELSE "node_" \o ToString(i - 1)

\* Nodes without an id cannot be named in a list.
NamedIDs(calls, S) == {<<AssignID(calls, j)>> : j \in {k \in S : AssignID(calls, k) # ""}}

\* A plugin step keeps its name and "after"; every other keyword becomes
\* configuration of the plugin.
PluginNode(calls, i) ==
    [id |-> <<AssignID(calls, i)>>, kind |-> "plugin", ref |-> "", dependsOn |-> NamedIDs(calls, calls[i].after),
     onFailure |-> {}, resetMocks |-> {}, continueOnFailure |-> Soft(calls[i]), plan |-> TRUE, env |-> <<>>]

BuiltNode(calls, i) ==
    [id |-> <<AssignID(calls, i)>>, kind |-> calls[i].fn, ref |-> calls[i].ref,
     dependsOn |-> NamedIDs(calls, calls[i].after), onFailure |-> NamedIDs(calls, calls[i].onFailure),
     resetMocks |-> NamedIDs(calls, calls[i].resetMocks), continueOnFailure |-> Soft(calls[i]),
     plan |-> calls[i].plan, env |-> calls[i].env]

RawNodes(calls) ==
    Once([i \in DOMAIN calls |-> IF calls[i].fn = "plugin" THEN PluginNode(calls, i) ELSE BuiltNode(calls, i)])

EvalFails(calls) == calls = <<>> \/ \E c \in Range(calls) : Refused(c)

-----------------------------------------------------------------------------
(* Resolution of a dependency: which suite of the catalog, in which        *)
(* version and with which profile.                                         *)

Pinned(ref) == ref.suffix \in Digests
UsesLatest(ref) == ref.suffix = "latest"
FirstNonEmpty(a, b) == IF a # "" THEN a ELSE b

\* mergeStringMaps: the overlay wins.
Merge(base, overlay) == overlay @@ base

Version(entry, lock) ==
    FirstNonEmpty(FirstNonEmpty(entry.version, IF Pinned(entry.ref) THEN lock.version ELSE entry.ref.suffix),
                  lock.version)

Mismatched(entry) ==
    /\ entry.version # "" /\ entry.ref.suffix # "" /\ ~Pinned(entry.ref)
    /\ entry.version # entry.ref.suffix

\* The profile marked as default, or the first.
DefaultLaunchProfile(suite) ==
    LET marked == SelectSeq(suite.profiles, LAMBDA p : p.default)
    IN  IF suite.profiles = <<>> THEN "" ELSE Head(marked \o suite.profiles).fileName

\* The profile asked for, or the suite's default; "?" when it does not exist.
DependencyProfile(suite, requested) ==
    IF requested = "" THEN DefaultLaunchProfile(suite)
    ELSE IF \E p \in Range(suite.profiles) : p.fileName = requested THEN requested ELSE "?"

ResolveDependency(catalog, alias, entry, lock) ==
    LET version    == Version(entry, lock)
        candidates == SelectSeq(catalog, LAMBDA s : entry.ref.name \in {s.id, s.repository})
        matching   == SelectSeq(candidates, LAMBDA s : version \in {"", s.version})
        error(why) == [err |-> why]
    IN IF entry.ref.name = "" THEN error("missing ref")
       ELSE IF Mismatched(entry) THEN error("mismatched version")
       ELSE IF UsesLatest(entry.ref) \/ version = "latest" THEN error("latest")
       ELSE IF matching = <<>> THEN error("unresolved")
       ELSE LET suite   == Head(matching)
                profile == DependencyProfile(suite, FirstNonEmpty(entry.profile, lock.profile))
            IN IF profile = "?" THEN error("no such profile")
               ELSE [err |-> "", alias |-> alias, suite |-> suite, profile |-> profile,
                     version |-> FirstNonEmpty(version, suite.version),
                     inputs |-> Merge(lock.inputs, entry.inputs)]

\* env of the profile file: its own, then that of the service of this id, which
\* within the suite is also its name and may be that of a nested suite's node.
ProfileRuntimeEnv(suite, profile, id) ==
    IF profile \notin DOMAIN suite.profileEnv THEN <<>>
    ELSE LET file == suite.profileEnv[profile]
         IN Merge(file.env, IF id \in DOMAIN file.services THEN file.services[id] ELSE <<>>)

DependencyRuntimeEnv(node, dependency) ==
    Merge(Merge(ProfileRuntimeEnv(dependency.suite, dependency.profile, node.id), dependency.inputs),
          "ALIAS" :> dependency.alias @@ "SUITE" :> dependency.suite.id @@ "PROFILE" :> dependency.profile)

-----------------------------------------------------------------------------
(* Expansion of an imported suite: its nodes under the id of the call,     *)
(* its entries (nothing to wait for), exits (nobody waits) and mocks.      *)

Under(prefix, ids) == {prefix \o id : id \in ids}
IDs(nodes) == {n.id : n \in Range(nodes)}
DependedOn(nodes) == UNION {n.dependsOn : n \in Range(nodes)}

NamespaceImported(raw, nodes, dependency) ==
    Once([i \in DOMAIN nodes |->
        [nodes[i] EXCEPT !.id = raw.id \o @,
                         !.dependsOn = Under(raw.id, @ \cap IDs(nodes)),
                         !.onFailure = Under(raw.id, @ \cap IDs(nodes)),
                         !.resetMocks = Under(raw.id, @ \cap IDs(nodes)),
                         !.alias = FirstNonEmpty(@, dependency.alias),
                         !.profile = FirstNonEmpty(@, dependency.profile),
                         !.env = Merge(@, DependencyRuntimeEnv(nodes[i], dependency))]])

EntryIDs(nodes) == {n.id : n \in {m \in Range(nodes) : m.dependsOn = {}}}
ExitIDs(nodes) == IDs(nodes) \ DependedOn(nodes)
MockIDs(nodes) == {n.id : n \in {m \in Range(nodes) : m.kind = "mock"}}

\* Mutant: what comes after an import waits for its first steps only.
ExpandToEntries(ids, imports) ==
    UNION {IF d \in DOMAIN imports THEN EntryIDs(imports[d]) ELSE {d} : d \in ids}

\* imports maps the id of an import call to its expanded nodes.
ExpandDependencies(ids, imports) ==
    UNION {IF d \in DOMAIN imports THEN ExitIDs(imports[d]) ELSE {d} : d \in ids}

ExpandMockTargets(ids, imports) ==
    UNION {IF d \in DOMAIN imports /\ MockIDs(imports[d]) # {} THEN MockIDs(imports[d]) ELSE {d} : d \in ids}

NodeFromRaw(raw, suite, imports) ==
    [id |-> raw.id, kind |-> raw.kind, dependsOn |-> ExpandDependencies(raw.dependsOn \cup raw.onFailure, imports),
     onFailure |-> ExpandDependencies(raw.onFailure, imports),
     resetMocks |-> ExpandMockTargets(raw.resetMocks, imports), continueOnFailure |-> raw.continueOnFailure,
     suite |-> suite.id, alias |-> "", profile |-> "", env |-> raw.env, level |-> 0]

\* The entries of an import wait for what the import call waits for.
ExpandImport(raw, imports) ==
    LET nodes == imports[raw.id]
    IN [i \in DOMAIN nodes |->
           IF nodes[i].dependsOn = {}
           THEN [nodes[i] EXCEPT !.dependsOn = ExpandDependencies(raw.dependsOn, imports)] ELSE nodes[i]]

Expand(raws, suite, imports) ==
    FlattenSeq([i \in DOMAIN raws |-> IF raws[i].kind = "suite" THEN ExpandImport(raws[i], imports)
                                      ELSE <<NodeFromRaw(raws[i], suite, imports)>>])

-----------------------------------------------------------------------------
(* The pre-hook: steps that every step of the suite waits for.             *)

PreHookNamespace == <<"pre-hook">>

PreHookNodes(suite) ==
    LET raws  == RawNodes(suite.hook)
        plain == [i \in DOMAIN raws |-> NodeFromRaw(raws[i], suite, <<>>)]
    IN [i \in DOMAIN plain |->
           [plain[i] EXCEPT !.id = PreHookNamespace \o @, !.dependsOn = Under(PreHookNamespace, @),
                            !.onFailure = Under(PreHookNamespace, @), !.resetMocks = Under(PreHookNamespace, @)]]

PreHookFails(suite) ==
    suite.hook # NoHook /\ (EvalFails(suite.hook) \/ \E c \in Range(suite.hook) : c.fn = "suite" \/ ~c.plan)

Gates(hook) == IDs(hook) \ DependedOn(hook)

PrependPreHook(nodes, hook) ==
    IF hook = <<>> THEN nodes
    ELSE hook \o [i \in DOMAIN nodes |->
                     IF nodes[i].dependsOn = {} THEN [nodes[i] EXCEPT !.dependsOn = Gates(hook)] ELSE nodes[i]]

-----------------------------------------------------------------------------
(* Checks and order of the finished graph.                                 *)

Duplicated(nodes) == Cardinality(IDs(nodes)) # Len(nodes)

BadReset(nodes) ==
    \E n \in Range(nodes) :
        n.resetMocks # {} /\ (n.kind # "test" \/ ~(n.resetMocks \subseteq MockIDs(nodes)))

MissingDependency(nodes) == ~(DependedOn(nodes) \subseteq IDs(nodes))

\* Rounds of the worklist: the nodes placed after k rounds.
Placed(nodes, k) ==
    LET placed[r \in 0..k] ==
            IF r = 0 THEN {}
            ELSE LET before == placed[r - 1]
                 IN {i \in DOMAIN nodes : nodes[i].dependsOn \subseteq {nodes[j].id : j \in before}}
    IN placed[k]

\* The nodes of one round in the order they were written.
Layer(nodes, k) ==
    LET fresh  == {nodes[i].id : i \in Placed(nodes, k) \ Placed(nodes, k - 1)}
        chosen == SelectSeq(nodes, LAMBDA n : n.id \in fresh)
    IN Once([i \in DOMAIN chosen |-> [chosen[i] EXCEPT !.level = k - 1]])

ResolveOrder(nodes) ==
    IF Duplicated(nodes) THEN Failed("duplicate step")
    ELSE IF BadReset(nodes) THEN Failed("reset_mocks")
    ELSE IF MissingDependency(nodes) THEN Failed("missing dependency")
    ELSE IF Placed(nodes, Len(nodes)) # DOMAIN nodes THEN Failed("cycle")
    ELSE [err |-> "", nodes |-> FlattenSeq([k \in DOMAIN nodes |-> Layer(nodes, k)])]

-----------------------------------------------------------------------------
(* The whole of it for one suite, given the results of what it imports     *)
(* (child[a] for the alias a).                                             *)

Aliases(suite) == {c.ref : c \in {d \in Range(suite.calls) : d.fn = "suite"}}

Lock(suite, alias) == IF alias \in DOMAIN suite.locks THEN suite.locks[alias] ELSE NoLock

Imports(suite, dependency, child) ==
    LET raws == SelectSeq(RawNodes(suite.calls), LAMBDA r : r.kind = "suite")
    IN Once([d \in IDs(raws) |->
                LET raw == CHOOSE r \in Range(raws) : r.id = d
                IN NamespaceImported(raw, child[raw.ref].nodes, dependency[raw.ref])])

Assemble(suite, dependency, child) ==
    LET expanded == Expand(RawNodes(suite.calls), suite, Imports(suite, dependency, child))
    IN ResolveOrder(PrependPreHook(expanded, PreHookNodes(suite)))

\* resolveSuite.  stack is the chain of imports with the suite itself last; the
\* code's cache only saves work, since a suite is cached when it has succeeded.
ResolveSuite(catalog, root) ==
    LET suiteOf(id) == CHOOSE s \in Range(catalog) : s.id = id
        resolve[stack \in Seq({s.id : s \in Range(catalog)})] ==
            LET suite      == suiteOf(Last(stack))
                dependency == Once([a \in Aliases(suite) \cap DOMAIN suite.manifest |->
                                       ResolveDependency(catalog, a, suite.manifest[a], Lock(suite, a))])
                unresolved == {a \in DOMAIN dependency : dependency[a].err # ""}
            IN IF ~suite.valid THEN Failed("invalid package")
               ELSE IF Contains(Front(stack), suite.id) THEN Failed("nested suite cycle")
               ELSE IF EvalFails(suite.calls) THEN Failed("starlark")
               ELSE IF DOMAIN dependency # Aliases(suite) THEN Failed("missing alias")
               ELSE IF unresolved # {} THEN Failed(dependency[CHOOSE a \in unresolved : TRUE].err)
               ELSE LET child  == Once([a \in Aliases(suite) |-> resolve[Append(stack, dependency[a].suite.id)]])
                        broken == {a \in DOMAIN child : child[a].err # ""}
                    IN IF broken # {} THEN Failed(child[CHOOSE a \in broken : TRUE].err)
                       ELSE IF \E c \in Range(suite.calls) : ~c.plan THEN Failed("plan")
                       ELSE IF PreHookFails(suite) THEN Failed("pre-hook")
                       ELSE Assemble(suite, dependency, child)
    IN resolve[<<root>>]
=============================================================================

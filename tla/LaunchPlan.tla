----------------------------- MODULE LaunchPlan -----------------------------
(***************************************************************************)
(* Two choices made when a run is launched: the backend it runs on         *)
(* (execution/backend.go) and the names its services answer to on the      *)
(* execution network (execution/network_plan.go).                          *)
(***************************************************************************)
EXTENDS Naturals, Sequences, SequencesExt

-----------------------------------------------------------------------------
(* Backends.  An agent of the settings is [id, type, enabled, default,     *)
(* tags, up]; tags are compared without case, which is left out.  A list   *)
(* of the code's is the set of its positions among the agents.             *)

BackendKind(type) ==
    IF type \in {"unset", "local", "docker"} THEN "local"
    ELSE IF type \in {"kubernetes", "k8s"} THEN "kubernetes"
    ELSE IF type \in {"remote", "remote-agent", "remote-docker"} THEN "remote" ELSE type

BackendKinds == {"local", "kubernetes", "remote"}

\* ModeAllowsAgent: an unset mode is read as local.
IsLocalAgentType(type) == type \in {"unset", "local", "docker"}

ModeAllows(mode, type) ==
    \/ mode = "hybrid"
    \/ mode = "remote" /\ ~IsLocalAgentType(type)
    \/ mode \notin {"hybrid", "remote"} /\ IsLocalAgentType(type)

FallbackBackend == [id |-> "local-docker", type |-> "local", enabled |-> TRUE, default |-> TRUE, tags |-> {}, up |-> TRUE]

Buildable(agents) == {i \in DOMAIN agents : agents[i].enabled /\ BackendKind(agents[i].type) \in BackendKinds}

\* backendCatalog: the agents, or the host's Docker when none of them is a
\* backend and the mode allows it.
Catalog(agents, mode) ==
    IF Buildable(agents) = {} /\ ModeAllows(mode, "local") THEN <<FallbackBackend>> ELSE agents

Allowed(agents, mode) == {i \in Buildable(agents) : ModeAllows(mode, agents[i].type)}
Excluded(agents, mode) == {i \in Buildable(agents) : ~ModeAllows(mode, agents[i].type)}

MissingTags(agent, required) == required \ agent.tags

First(positions) == CHOOSE i \in positions : \A j \in positions : i <= j

Chosen(agent, required) == [err |-> "none", backend |-> agent, missing |-> MissingTags(agent, required)]
NotChosen(why) == [err |-> why]

ResolveRequested(agents, mode, requested, required) ==
    LET named(positions) == {i \in positions : agents[i].id = requested}
        agent            == agents[First(named(Allowed(agents, mode)))]
    IN IF named(Allowed(agents, mode)) = {}
       THEN NotChosen(IF named(Excluded(agents, mode)) # {} THEN "mode" ELSE "absent")
       ELSE IF agent.up THEN Chosen(agent, required) ELSE NotChosen("unavailable")

\* Mutant: the default backend is taken before the tags are looked at.
ResolveAutoDefaultFirst(agents, mode, required) ==
    LET up       == {i \in Allowed(agents, mode) : agents[i].up}
        defaults == {i \in up : agents[i].default}
        others   == {i \in up : MissingTags(agents[i], required) = {}}
    IN IF defaults # {} THEN Chosen(agents[First(defaults)], required)
       ELSE IF others # {} THEN Chosen(agents[First(others)], required) ELSE NotChosen("unavailable")

ResolveAuto(agents, mode, required) ==
    LET carrying(positions) == {i \in positions : MissingTags(agents[i], required) = {}}
        candidates          == carrying(Allowed(agents, mode))
        up                  == {i \in candidates : agents[i].up}
        defaults            == {i \in up : agents[i].default}
    IN IF Allowed(agents, mode) = {} THEN NotChosen("mode")
       ELSE IF candidates = {} THEN NotChosen(IF carrying(Excluded(agents, mode)) # {} THEN "mode" ELSE "untagged")
       ELSE IF defaults # {} THEN Chosen(agents[First(defaults)], required)
       ELSE IF up # {} THEN Chosen(agents[First(up)], required)
       ELSE NotChosen("unavailable")

\* What a launch asks for when any backend will do.
AnyBackend == {"unset", "auto"}

ResolveBackend(agents, mode, requested, required) ==
    IF requested \notin AnyBackend THEN ResolveRequested(Catalog(agents, mode), mode, requested, required)
    ELSE ResolveAuto(Catalog(agents, mode), mode, required)

-----------------------------------------------------------------------------
(* Names.  A node is [suite, name, kind]; a host name is the sequence of   *)
(* its parts between hyphens, so a qualified name can meet a declared one. *)

AddressableKind(node) == node.kind = "service"
NodeOwner(node, root) == IF node.suite # <<>> THEN node.suite ELSE root
NetworkAlias(node) == node.name
QualifiedAlias(owner, alias) == owner \o alias

Claimants(nodes, root, alias) ==
    {NodeOwner(n, root) : n \in {m \in Range(nodes) : AddressableKind(m) /\ NetworkAlias(m) = alias}}

\* Mutant: the suite that is run is not counted as a claimant.
ContestedByImports(nodes, root) ==
    {a \in {NetworkAlias(n) : n \in Range(nodes)} : \E o, p \in Claimants(nodes, root, a) \ {root} : o # p}

Contested(nodes, root) ==
    {a \in {NetworkAlias(n) : n \in Range(nodes)} : \E o, p \in Claimants(nodes, root, a) : o # p}

AliasesForNode(nodes, root, node) ==
    IF ~AddressableKind(node) \/ NetworkAlias(node) = <<>> THEN {}
    ELSE LET owner == NodeOwner(node, root)
             alias == NetworkAlias(node)
         IN IF alias \notin Contested(nodes, root) \/ owner = root THEN {alias}
            ELSE {QualifiedAlias(owner, alias)}
=============================================================================

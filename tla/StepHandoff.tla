---------------------------- MODULE StepHandoff -----------------------------
(***************************************************************************)
(* What a step's container is started with (execution/runtime.go,          *)
(* runner/remote.go, agent/proto_convert.go, cmd/agent/main.go).           *)
(*                                                                         *)
(* runNode puts the step together; a step that runs a container on an      *)
(* agent becomes a request, travels as JSON or as a protobuf message, and  *)
(* becomes a step again on the agent's host.  Fields that are copied whole everywhere are one      *)
(* token each; those that a conversion treats specially keep their values. *)
(*                                                                         *)
(* Plugins run in the sidecar, outside the execution's network: a service  *)
(* a plugin's configuration names publishes the port on the host when it   *)
(* starts, and the configuration is rewritten when the plugin starts.      *)
(***************************************************************************)
EXTENDS Integers, Sequences

CONSTANTS
    ControlPlaneHost,   \* the host in AGENT_CONTROL_PLANE_URL, "none" without one
    StepLease,          \* the lease runNode asks for, and the least an agent gets
    LeastLease,
    PluginSuites,       \* suites: for every node its name, and the <<host, port>> its plugin names
    MaxNodes            \* bound: the nodes of a suite

\* A node's name is its id (assignIDs), of which resolveTopology refuses two.
ASSUME HandoffAssumption ==
    /\ StepLease \in Nat /\ LeastLease \in Nat /\ MaxNodes \in Nat
    /\ \A nodes \in PluginSuites :
          /\ nodes # <<>> /\ DOMAIN nodes \subseteq 1..MaxNodes
          /\ \A i, j \in DOMAIN nodes : nodes[i].name = nodes[j].name => i = j

VARIABLES
    handed,      \* the step on its way: how far, by which route, its fields
    topology,    \* the nodes of a suite: name, the <<host, port>> its plugin's configuration names
    published,   \* published[i]: the ports node i has bound on the host while it runs
    config,      \* config[i]: what the plugin of node i was started with, and which ports were found
    resolves     \* the backend tells host ports (Docker, Kubernetes); the remote one does not

pluginVars == <<topology, published, config, resolves>>
handoffVars == <<handed, pluginVars>>

-----------------------------------------------------------------------------
\* The suite: where files are looked up and where the gateway is.

\* The package a node's file belongs to: that of the suite it came from, or
\* the suite that is run when that one was not resolved.
NodeSourceFiles(owner, packages) == IF owner \in DOMAIN packages THEN packages[owner] ELSE packages["suite"]

\* The file itself, or under tasks/ or tests/.
ResolveNodeFileContent(owner, packages) ==
    LET files == NodeSourceFiles(owner, packages)
    IN  IF files = {} THEN "none" ELSE CHOOSE content \in files : TRUE

SidecarNeeded(kinds) == kinds \cap {"mock", "traffic", "security", "plugin"} # {}

URL(host, port) == [host |-> host, port |-> port]

\* One address per mock, or one when only other nodes need the sidecar;
\* without a running sidecar, the names mocks would have.
ResolveGatewayURLs(kinds, mocks, running) ==
    IF ~SidecarNeeded(kinds) THEN <<>>
    ELSE IF running THEN [i \in 1..(IF mocks = 0 THEN 1 ELSE mocks) |-> URL("127.0.0.1", 32768)]
    ELSE [i \in 1..mocks |-> URL("mock", 9080)]

FirstOrNone(urls) == IF urls = <<>> THEN URL("none", 0) ELSE urls[1]

\* runNode: the step as its backend gets it.
RunNode(kind, image, owner, packages, kinds, mocks, running, expectExit, memory) ==
    LET urls == ResolveGatewayURLs(kinds, mocks, running)
    IN  [identity |-> "step", kind |-> kind, image |-> image, content |-> ResolveNodeFileContent(owner, packages), env |-> "env", aliases |-> "aliases",
         exports |-> "exports", gateway |-> FirstOrNone(urls), gateways |-> urls, expectExit |-> expectExit,
         memory |-> memory, index |-> 7, lease |-> StepLease, collects |-> TRUE, plugins |-> TRUE]

-----------------------------------------------------------------------------
\* To the agent.

\* A task or a test with commands or a file, and a service with an image.
StepRequiresContainer(step) ==
    \/ step.kind \in {"task", "test"} /\ step.content # "empty"
    \/ step.kind = "service" /\ step.image # "none"

\* Remote.Run: the security and plugin parts, the ports and the callback for
\* collected files stay behind.
ToStepRequest(step) ==
    [step EXCEPT !.collects = FALSE, !.plugins = FALSE, !.lease = IF @ > LeastLease THEN @ ELSE LeastLease]

\* JSON replaces what is no UTF-8.
JSONText(content) == IF content = "latin1" THEN "replaced" ELSE content

\* Mutant: an expected exit code of 0 is not sent.
EvaluationNonZero(expectExit) == expectExit \ {0}

\* The exit code is a pointer, so 0 differs from none.
EvaluationToProto(expectExit) == expectExit

\* Protobuf strings have to be UTF-8; the lease is sent when positive.
NotSent == -1
StepRequestToProto(request) ==
    [request EXCEPT !.expectExit = EvaluationToProto(@), !.lease = IF @ > 0 THEN @ ELSE NotSent]
ProtoToStepRequest(message) == [message EXCEPT !.lease = IF @ = NotSent THEN 0 ELSE @]

Loopback == {"127.0.0.1", "localhost", "::1"}

\* A loopback URL is pointed at another host and keeps its port.
RewriteLoopbackURL(url, host) ==
    IF host # "none" /\ url.host \in Loopback THEN [url EXCEPT !.host = host] ELSE url

\* The agent's executor: positions, labels and the lease are not passed on.
ToStepSpec(request) ==
    [request EXCEPT !.gateway = RewriteLoopbackURL(@, ControlPlaneHost),
                    !.gateways = [i \in DOMAIN @ |-> RewriteLoopbackURL(@[i], ControlPlaneHost)],
                    !.index = 0, !.lease = 0]

Nowhere == [at |-> "none", route |-> "none", step |-> <<>>, planned |-> <<>>]

PlanStep(route, kind, image, owner, content, kinds, mocks, running, expectExit, memory) ==
    /\ handed.at = "none"
    /\ LET packages == [suite |-> {content}, dependency |-> {"other"}]
           step     == RunNode(kind, image, owner, packages, kinds, mocks, running, expectExit, memory)
       IN  handed' = [at |-> IF route = "local" THEN "spec" ELSE "planned", route |-> route, step |-> step, planned |-> step]
    /\ UNCHANGED pluginVars

Move1(at, step) == handed' = [handed EXCEPT !.at = at, !.step = step] /\ UNCHANGED pluginVars

\* Steps without a container run in the control plane, as they are: log,
\* plugin, security, traffic and mock steps, and those with nothing to run.
Dispatch ==
    /\ handed.at = "planned"
    /\ IF StepRequiresContainer(handed.step) THEN Move1("request", ToStepRequest(handed.step))
       ELSE Move1("in_process", handed.step)

TravelsAsJSON ==
    /\ handed.at = "request" /\ handed.route = "json"
    /\ Move1("arrived", [handed.step EXCEPT !.content = JSONText(@)])

TravelsAsProto ==
    /\ handed.at = "request" /\ handed.route = "proto"
    /\ IF handed.step.content = "latin1" THEN Move1("refused", handed.step)
       ELSE Move1("arrived", ProtoToStepRequest(StepRequestToProto(handed.step)))

AgentExecutes == handed.at = "arrived" /\ Move1("spec", ToStepSpec(handed.step))

-----------------------------------------------------------------------------
\* Plugins and the services they name.

Refs(nodes) == UNION {nodes[i].refs : i \in DOMAIN nodes}
NodeNames(nodes) == {nodes[i].name : i \in DOMAIN nodes}

PluginHostPortRefs(nodes, name) == {ref[2] : ref \in {r \in Refs(nodes) : r[1] = name}}

NotStarted == [refs |-> {}, up |-> [i \in 1..MaxNodes |-> {}]]

PlanPlugins ==
    /\ topology = <<>> /\ topology' \in PluginSuites /\ resolves' \in BOOLEAN
    /\ UNCHANGED <<handed, published, config>>

\* The ports to publish are not part of what an agent gets.
ServiceStarts(i) ==
    /\ i \in DOMAIN topology /\ published[i] = {} /\ resolves
    /\ published' = [published EXCEPT ![i] = PluginHostPortRefs(topology, topology[i].name)]
    /\ published[i] # published'[i] /\ UNCHANGED <<handed, topology, config, resolves>>

ServiceEnds(i) ==
    /\ published[i] # {} /\ published' = [published EXCEPT ![i] = {}]
    /\ UNCHANGED <<handed, topology, config, resolves>>

\* What the backend finds of the ports: a container that cannot be inspected
\* has none.
Found(failing) == [i \in 1..MaxNodes |-> IF i \in failing THEN {} ELSE published[i]]

HostPort(found, i, port) == IF port \in found[i] THEN <<"host.docker.internal", i, port>> ELSE <<>>

\* Mutant: the first node is taken.
FirstNode(name) == 1

NodeIDByName(name) ==
    CHOOSE i \in DOMAIN topology : topology[i].name = name /\ \A j \in DOMAIN topology : topology[j].name = name => i >= j

\* A reference that cannot be resolved is left as it is.
RewritePluginConfig(refs, found) ==
    IF ~resolves THEN refs
    ELSE {IF ref[1] \in NodeNames(topology) /\ HostPort(found, NodeIDByName(ref[1]), ref[2]) # <<>>
          THEN HostPort(found, NodeIDByName(ref[1]), ref[2]) ELSE ref : ref \in refs}

PluginStarts(i, failing) ==
    /\ i \in DOMAIN topology /\ topology[i].refs # {}
    /\ config' = [config EXCEPT ![i] = [refs |-> RewritePluginConfig(topology[i].refs, Found(failing)),
                                       up |-> Found(failing)]]
    /\ UNCHANGED <<handed, topology, published, resolves>>

HandoffInit ==
    /\ handed = Nowhere /\ topology = <<>>
    /\ published = [i \in 1..MaxNodes |-> {}] /\ config = [i \in 1..MaxNodes |-> NotStarted]
    /\ resolves = TRUE

PlanNode ==
    /\ topology = <<>>
    /\ \E route \in {"local", "json", "proto"}, kind \in {"task", "service", "plugin"}, image \in {"image", "none"},
          owner \in {"suite", "dependency", "unresolved"}, content \in {"empty", "text", "latin1"},
          others \in SUBSET {"mock", "traffic"}, mocks \in 0..2,
          running \in BOOLEAN, expectExit \in {{}, {0}, {3}}, memory \in {0, 512} :
          /\ mocks > 0 <=> "mock" \in others
          /\ kind # "task" => expectExit = {} /\ memory = 512
          /\ PlanStep(route, kind, image, owner, content, {kind} \cup others, mocks, running, expectExit, memory)

HandoffNext ==
    \/ PlanNode \/ Dispatch \/ TravelsAsJSON \/ TravelsAsProto \/ AgentExecutes
    \/ (handed = Nowhere /\ PlanPlugins)
    \/ \E i \in 1..MaxNodes : ServiceStarts(i) \/ ServiceEnds(i) \/ \E failing \in SUBSET (1..MaxNodes) : PluginStarts(i, failing)

HandoffSpec == HandoffInit /\ [][HandoffNext]_handoffVars

-----------------------------------------------------------------------------
\* A container runs the same whichever backend starts it: the script, the
\* environment, the names on the network, the expectations, zero exit codes
\* included, and the limits are those the control plane planned, the lease is
\* never shorter than planned, and no gateway is left at the agent's own
\* loopback; and a step an agent gets is one for which it starts a container.
\* Files that are no UTF-8 arrive changed or not at all, and what an agent's
\* step exports is not collected.
StepsArriveWhole ==
    LET s == handed.step p == handed.planned
    IN  /\ handed.at \in {"request", "arrived"} => s.lease >= p.lease
        /\ handed.at = "spec" =>
             /\ s.identity = p.identity /\ s.env = p.env /\ s.aliases = p.aliases /\ s.exports = p.exports
             /\ p.content # "latin1" => s.content = p.content
             /\ s.expectExit = p.expectExit /\ s.memory = p.memory
             /\ handed.route # "local" => StepRequiresContainer(s)
             /\ DOMAIN s.gateways = DOMAIN p.gateways
             /\ \A i \in DOMAIN s.gateways :
                  /\ s.gateways[i].port = p.gateways[i].port
                  /\ handed.route # "local" /\ ControlPlaneHost \notin Loopback \cup {"none"} => s.gateways[i].host \notin Loopback

\* A plugin started while the services it names are up, and found up, reaches
\* each of them, at the port it names, through the host; a name that is no node
\* of the suite is left alone.  The ports a service publishes are those any
\* plugin of the suite will ask for, although it starts first.  On the remote
\* backend nothing is published and the configuration stays as it is written.
PluginsReachServices ==
    \A i \in DOMAIN topology : \A ref \in topology[i].refs : config[i] # NotStarted =>
        /\ \A k \in DOMAIN topology : topology[k].name = ref[1] /\ config[i].up[k] # {} =>
              <<"host.docker.internal", k, ref[2]>> \in config[i].refs
        /\ ~resolves \/ (\A k \in DOMAIN topology : topology[k].name # ref[1]) => ref \in config[i].refs

\* A step is the same wherever it runs, and finds the services it names.
HandoffSound == StepsArriveWhole /\ PluginsReachServices
=============================================================================

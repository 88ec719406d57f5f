------------------------------ MODULE Backends ------------------------------
(***************************************************************************)
(* The backends of the runner package: what running the steps of one       *)
(* execution leaves on a host or in a cluster, and who removes it.         *)
(*                                                                         *)
(*   local       Local.Run on the control plane, containers in its Docker  *)
(*   kubernetes  Kubernetes.Run, pods in a namespace                       *)
(*   remote      Remote.Run, which keeps what the control plane executes   *)
(*               itself and sends container steps to an agent, where       *)
(*               cmd/agent runs them with the agent's Local backend        *)
(*                                                                         *)
(* A box is a step's container or pod.  A box of a task or test belongs to *)
(* the call that runs the step; the container of a service belongs to a    *)
(* goroutine (its keeper) that outlives the call, the pod of a service to  *)
(* DestroyExecution.  Calls of the daemon and of the API server may fail,  *)
(* and the deferred removals ignore it: box then stays as it is.           *)
(***************************************************************************)
EXTENDS Naturals, FiniteSets

CONSTANTS
    Steps,        \* the steps of the execution
    Shapes,       \* the step specifications to choose from, see StepShape
    DaemonFails   \* may the Docker daemon become unreachable during the run

VARIABLES
    backend,      \* the backend the execution runs on
    docker,       \* dockerAvailable: what the last ping of the daemon said
    spec,         \* spec[s]: the StepSpec of s
    at,           \* at[s]: where the call that runs s is
    result,       \* result[s]: what Run returned
    box,          \* box[s]: the container or pod of s
    ran,          \* ran[s]: the furthest the container of s got (history)
    net,          \* the execution's network, or its headless Service and volume claim:
                  \* no, yes, or kept because its removal failed
    keeper,       \* keeper[s]: is a goroutine watching over the service container of s
    forwards,     \* forwards[s]: port-forwards registered for the pod of s
    exported,     \* exported[s]: was the step's artifact handed to OnArtifact
    ctxDone,      \* the steps whose context has ended
    unremoved,    \* the steps for whose box a removal failed
    life,         \* the execution on this backend: new, ready, broken, crashed, released
    after         \* after[s]: is s a step that was running across the release (across),
                  \* or one that started since then (since)

vars == <<backend, docker, spec, at, result, box, ran, net, keeper, forwards,
          exported, ctxDone, unremoved, life, after>>

BackendKinds == {"local", "kubernetes", "remote"}
Places == {"idle", "simulated", "create", "start", "wait", "window", "forward", "done"}

\* What of a StepSpec the backends look at: file is the script asset (named but
\* not in the package = missing), ports the PublishPorts, expect the exit code
\* of the evaluation, on the trigger of its artifact export (no = no export), call
\* the plugin call or security variant against the registered ones, threshold the
\* metric of a security step's "<= 0" threshold.
StepShape ==
    [kind : {"log", "task", "test", "service", "plugin", "security", "traffic", "mock"},
     file : {"none", "missing", "shipped"}, commands : BOOLEAN,
     image : {"none", "default", "named"}, ports : 0..2, load : BOOLEAN, gateway : BOOLEAN,
     call : {"none", "unknown", "unsupported", "usable"}, threshold : {"none", "total", "failed"},
     expect : {"none", "zero", "nonzero", "logs"}, on : {"no", "success", "failure", "always"}]

ASSUME BackendsAssumption == Shapes \subseteq StepShape /\ DaemonFails \in BOOLEAN

-----------------------------------------------------------------------------
\* Routing a step.

Kind(s) == spec[s].kind

RequireResolvedStepFile(s) ==
    ~(Kind(s) \in {"task", "test", "service"} /\ spec[s].file = "missing")

StepRequiresContainer(s) ==
    \/ Kind(s) \in {"task", "test"} /\ (spec[s].commands \/ spec[s].file = "shipped")
    \/ Kind(s) = "service" /\ spec[s].image = "named"

\* resolveStepImage has a default image for task.run and test.run only.
ResolvesImage(s) ==
    spec[s].image = "named" \/ (spec[s].image = "default" /\ Kind(s) \in {"task", "test"})

IsDetachedService(s) == Kind(s) = "service" /\ ResolvesImage(s)

RunsInProcess(s) == Kind(s) \in {"plugin", "security"} \/ (Kind(s) = "traffic" /\ spec[s].load)

\* Local.Run, on the control plane or on an agent.
LocalRoute(s) ==
    CASE Kind(s) = "log"                        -> "log"
      [] ~RequireResolvedStepFile(s)            -> "unresolved"
      [] Kind(s) # "log" /\ RunsInProcess(s)    -> "inprocess"
      [] StepRequiresContainer(s) /\ docker /\ RequireResolvedStepFile(s) -> "container"
      [] OTHER                                  -> "simulated"

KubernetesRoute(s) ==
    CASE Kind(s) = "log"                        -> "log"
      [] ~RequireResolvedStepFile(s)            -> "unresolved"
      [] Kind(s) # "log" /\ RunsInProcess(s)    -> "inprocess"
      [] StepRequiresContainer(s) /\ RequireResolvedStepFile(s) -> "container"
      [] OTHER                                  -> "simulated"

\* Remote.Run: only a step that needs a container reaches the agent, whose
\* Local.Run then routes it again.
RemoteRoute(s) ==
    CASE Kind(s) = "log"              -> "log"
      [] RunsInProcess(s)             -> "inprocess"
      [] StepRequiresContainer(s)     -> LocalRoute(s)
      [] OTHER                        -> "simulated"

Route(s) ==
    CASE backend = "local"      -> LocalRoute(s)
      [] backend = "kubernetes" -> KubernetesRoute(s)
      [] backend = "remote"     -> RemoteRoute(s)

\* evaluateStepExpectations: every caller passes exit code 0.
Expectations(s) ==
    CASE spec[s].expect = "nonzero" -> {"error"}
      [] spec[s].expect = "logs"    -> {"ok", "error"}
      [] OTHER                      -> {"ok"}

\* canUsePlugin and executePlugin: the step passes only on the sidecar's word.
Replies == {"unreachable", "refused", "unreadable", "notPassed", "passed"}
CanUsePlugin(s) == spec[s].gateway /\ spec[s].call = "usable"
PluginResults(s) ==
    IF CanUsePlugin(s) THEN {IF r = "passed" THEN "ok" ELSE "error" : r \in Replies} ELSE {"error"}

\* executeSecurityStep: a failed check fails the step unless it has thresholds.
SecurityVerdict(s, failed, findings) ==
    CASE spec[s].threshold = "none"   -> IF failed > 0 THEN "error" ELSE "ok"
      [] spec[s].threshold = "total"  -> IF findings <= 0 THEN "ok" ELSE "error"
      [] spec[s].threshold = "failed" -> IF failed <= 0 THEN "ok" ELSE "error"
SecurityResults(s) ==
    {"error"} \cup (IF spec[s].gateway /\ spec[s].call = "usable"
                    THEN {SecurityVerdict(s, f, n) : f \in 0..1, n \in 0..1} ELSE {})

\* runInProcessStep.  LoadStep has the traffic step.
InProcessResults(s) ==
    CASE Kind(s) = "plugin"   -> PluginResults(s)
      [] Kind(s) = "security" -> SecurityResults(s)
      [] Kind(s) = "traffic"  -> {"error"} \cup Expectations(s)

ArtifactTriggerMatches(s, status) == spec[s].on \in {status, "always"}

\* The agent passes the job's context on for services too.
JobContextEnded(s) == s \in ctxDone

\* The context Local.Run was given: a service on an agent is started with the
\* scope of its execution, every other step with the context of its job.  The
\* release ends the scope; a service that starts after it is given a new one.
\* On the control plane the context derives from the background context.
StepContextEnded(s) ==
    IF backend = "remote" /\ IsDetachedService(s)
    THEN life = "released" /\ after[s] # "since"
    ELSE s \in ctxDone

-----------------------------------------------------------------------------
\* Actions.

BackendsInit ==
    /\ backend \in BackendKinds
    /\ spec \in [Steps -> Shapes]
    /\ docker = TRUE /\ net = "no" /\ ctxDone = {} /\ unremoved = {} /\ life = "new"
    /\ at = [s \in Steps |-> "idle"] /\ result = [s \in Steps |-> "none"]
    /\ box = [s \in Steps |-> "absent"] /\ ran = [s \in Steps |-> "no"]
    /\ keeper = [s \in Steps |-> FALSE] /\ exported = [s \in Steps |-> FALSE]
    /\ forwards = [s \in Steps |-> 0] /\ after = [s \in Steps |-> "no"]

\* The execution's network is there already, is created, or cannot be created.
SetupNetwork ==
    /\ \/ net' = (IF docker THEN "yes" ELSE "no") /\ life' = "ready"
       \/ docker /\ net' = net /\ life' = "broken"
    /\ UNCHANGED docker

\* The headless Service, then the volume claim: the second may fail alone.
SetupSharedObjects ==
    /\ \/ net' = "yes" /\ life' = "ready"
       \/ net' \in {"no", "yes"} /\ life' = "broken"
    /\ UNCHANGED docker

\* An agent sets its network up with its first step.
SetupExecution ==
    /\ life = "new"
    /\ CASE backend = "local"      -> SetupNetwork
         [] backend = "kubernetes" -> SetupSharedObjects
         [] backend = "remote"     -> life' = "ready" /\ UNCHANGED <<docker, net>>
    /\ UNCHANGED <<backend, spec, at, result, box, ran, keeper, forwards, exported, ctxDone, unremoved, after>>

Return(s, r) == at' = [at EXCEPT ![s] = "done"] /\ result' = [result EXCEPT ![s] = r]
Goto(s, p) == at' = [at EXCEPT ![s] = p] /\ UNCHANGED result

\* A removal whose error is ignored.
Remove(s) ==
    \/ box' = [box EXCEPT ![s] = "absent"] /\ UNCHANGED unremoved
    \/ UNCHANGED box /\ unremoved' = unremoved \cup {s}

\* Start of Run.  On an agent the execution's network is set up first.  An agent
\* may start a step it claimed before its lease lapsed, and the queue one that
\* it claims while Close gives up waiting, after the execution was released.
RunStep(s) ==
    /\ life \in {"ready", "released"} /\ at[s] = "idle"
    /\ CASE Route(s) = "log"        -> Return(s, "ok")
         [] Route(s) = "unresolved" -> Return(s, "error")
         [] Route(s) = "inprocess"  -> \E r \in InProcessResults(s) : Return(s, r)
         [] Route(s) = "simulated"  -> Goto(s, "simulated")
         [] Route(s) = "container"  -> Goto(s, "create") \/ (backend = "remote" /\ Return(s, "error"))
    /\ net' = IF backend = "remote" /\ at'[s] = "create" THEN "yes" ELSE net
    /\ after' = [after EXCEPT ![s] = IF life = "released" THEN "since" ELSE @]
    /\ UNCHANGED <<backend, docker, spec, box, ran, keeper, forwards, exported, ctxDone, unremoved, life>>

\* The simulated delay ends, or the context does.
SimulatedEnds(s) ==
    /\ at[s] = "simulated"
    /\ \/ s \in ctxDone /\ Return(s, "canceled")
       \/ \E r \in Expectations(s) : Return(s, r)
    /\ UNCHANGED <<backend, docker, spec, box, ran, net, keeper, forwards, exported, ctxDone, unremoved, life, after>>

\* runInDocker up to ContainerCreate: the image, the workspace, the memory limit,
\* a pull or the creation itself may fail.
CreateContainer(s) ==
    /\ at[s] = "create" /\ backend # "kubernetes"
    /\ \/ Return(s, "error") /\ UNCHANGED <<box, ran>>
       \/ /\ ResolvesImage(s) /\ Goto(s, "start")
          /\ box' = [box EXCEPT ![s] = "created"] /\ ran' = [ran EXCEPT ![s] = "created"]
    /\ UNCHANGED <<backend, docker, spec, net, keeper, forwards, exported, ctxDone, unremoved, life, after>>

CreatePod(s) ==
    /\ at[s] = "create" /\ backend = "kubernetes"
    /\ \/ Return(s, "error") /\ UNCHANGED <<box, ran>>
       \/ /\ ResolvesImage(s) /\ Goto(s, "wait")
          /\ box' = [box EXCEPT ![s] = "pending"] /\ ran' = [ran EXCEPT ![s] = "created"]
    /\ UNCHANGED <<backend, docker, spec, net, keeper, forwards, exported, ctxDone, unremoved, life, after>>

\* The container of a failed start, a service's too, which no defer removes.
LeaveUnstarted(s) == UNCHANGED <<box, unremoved>>
RemoveUnstarted(s) == Remove(s)

\* ContainerStart.  A container that does not start is removed, a service's too;
\* the keeper of a service that starts is on its way.
StartBox(s) ==
    /\ at[s] = "start"
    /\ \/ Return(s, "error") /\ RemoveUnstarted(s) /\ UNCHANGED <<ran, keeper>>
       \/ /\ box[s] = "created"
          /\ Goto(s, IF IsDetachedService(s) THEN "window" ELSE "wait")
          /\ box' = [box EXCEPT ![s] = "running"]
          /\ ran' = [ran EXCEPT ![s] = "up"]
          /\ keeper' = [keeper EXCEPT ![s] = IsDetachedService(s)]
          /\ UNCHANGED unremoved
    /\ UNCHANGED <<backend, docker, spec, net, forwards, exported, ctxDone, life, after>>

\* The kubelet admits the pod or gives up on it.
PodAdmitted(s) ==
    /\ box[s] = "pending"
    /\ box' = [box EXCEPT ![s] = "running"] /\ ran' = [ran EXCEPT ![s] = "up"]
    /\ UNCHANGED <<backend, docker, spec, at, result, net, keeper, forwards, exported, ctxDone, unremoved, life, after>>

PodStartFailure(s) ==
    /\ box[s] = "pending"
    /\ box' = [box EXCEPT ![s] = "stuck"]
    /\ UNCHANGED <<backend, docker, spec, at, result, ran, net, keeper, forwards, exported, ctxDone, unremoved, life, after>>

\* The step's process ends.
BoxExits(s) ==
    /\ box[s] = "running"
    /\ \E code \in {"exit0", "exit1"} :
          box' = [box EXCEPT ![s] = code] /\ ran' = [ran EXCEPT ![s] = code]
    /\ UNCHANGED <<backend, docker, spec, at, result, net, keeper, forwards, exported, ctxDone, unremoved, life, after>>

\* An exit code other than 0 fails the step before its expectations are read.
ExitResultsUnchecked(s) == Expectations(s)
ExitResults(s) == IF box[s] = "exit0" THEN Expectations(s) ELSE {"error"}

\* runInDocker after the wait for a task or test: the artifacts of the exit
\* status are exported whether or not the step failed.
ContainerWaitEnds(s) ==
    /\ at[s] = "wait" /\ backend # "kubernetes"
    /\ \/ StepContextEnded(s) /\ Return(s, "canceled") /\ UNCHANGED exported
       \/ Return(s, "error") /\ UNCHANGED exported
       \/ /\ box[s] \in {"exit0", "exit1"}
          /\ exported' = [exported EXCEPT ![s] =
                ArtifactTriggerMatches(s, IF box[s] = "exit0" THEN "success" ELSE "failure")]
          /\ \E r \in ExitResults(s) : Return(s, r)
    /\ Remove(s)
    /\ UNCHANGED <<backend, docker, spec, ran, net, keeper, forwards, ctxDone, life, after>>

\* The 500 ms window of a service container.  A wait whose context has ended
\* says nothing, so that the window closes as if the service were up.
CrashWindowEnds(s) ==
    /\ at[s] = "window" /\ backend # "kubernetes"
    /\ \/ (box[s] = "running" \/ StepContextEnded(s)) /\ Return(s, "ok")
       \/ box[s] # "running" /\ Return(s, "error")
    /\ UNCHANGED <<backend, docker, spec, box, ran, net, keeper, forwards, exported, ctxDone, unremoved, life, after>>

\* The goroutine that owns a service container stops and removes it.
KeeperWakes(s) == StepContextEnded(s) \/ box[s] # "running"

KeeperRemoves(s) ==
    /\ keeper[s]
    /\ KeeperWakes(s)
    /\ keeper' = [keeper EXCEPT ![s] = FALSE]
    /\ Remove(s)
    /\ UNCHANGED <<backend, docker, spec, at, result, ran, net, forwards, exported, ctxDone, life, after>>

\* waitForStepContainer and runPod after it: a failed step returns before its
\* artifacts are collected; the pod is deleted on every path.
PodWaitEnds(s) ==
    /\ at[s] = "wait" /\ backend = "kubernetes" /\ ~IsDetachedService(s)
    /\ \/ Return(s, "error") /\ UNCHANGED exported
       \/ /\ box[s] = "exit0"
          /\ exported' = [exported EXCEPT ![s] = ArtifactTriggerMatches(s, "success")]
          /\ \E r \in Expectations(s) : Return(s, r)
    /\ Remove(s)
    /\ UNCHANGED <<backend, docker, spec, ran, net, keeper, forwards, ctxDone, life, after>>

\* waitForServiceRunning: watch, crash window and second look; a service pod
\* that does not come up is removed.
ServicePodWaitEnds(s) ==
    /\ at[s] \in {"wait", "window"} /\ backend = "kubernetes" /\ IsDetachedService(s)
    /\ \/ Return(s, "error") /\ Remove(s)
       \/ /\ box[s] = "running"
          /\ Goto(s, IF at[s] = "wait" THEN "window" ELSE "forward")
          /\ UNCHANGED <<box, unremoved>>
    /\ UNCHANGED <<backend, docker, spec, ran, net, keeper, forwards, exported, ctxDone, life, after>>

\* forwardServicePorts opens one forward after the other.
ForwardPort(s) ==
    /\ at[s] = "forward"
    /\ \/ forwards[s] = spec[s].ports /\ Return(s, "ok") /\ UNCHANGED <<forwards, box, unremoved>>
       \/ /\ forwards[s] < spec[s].ports
          /\ \/ forwards' = [forwards EXCEPT ![s] = @ + 1] /\ UNCHANGED <<at, result, box, unremoved>>
             \/ Return(s, "error") /\ Remove(s) /\ UNCHANGED forwards
    /\ UNCHANGED <<backend, docker, spec, ran, net, keeper, exported, ctxDone, life, after>>

\* The job of a step on an agent ends with the step, or is canceled before.
JobContextEnds(s) ==
    /\ backend = "remote" /\ at[s] # "idle" /\ s \notin ctxDone
    /\ ctxDone' = ctxDone \cup {s}
    /\ UNCHANGED <<backend, docker, spec, at, result, box, ran, net, keeper, forwards, exported, unremoved, life, after>>

\* pingDocker, from any IsAvailable, records that the daemon is gone or back.
DockerPinged ==
    /\ DaemonFails /\ docker' = ~docker /\ life \in {"new", "ready"}
    /\ UNCHANGED <<backend, spec, at, result, box, ran, net, keeper, forwards, exported, ctxDone, unremoved, life, after>>

LeaveForwards == UNCHANGED forwards
CloseForwards == forwards' = [s \in Steps |-> 0]

\* The boxes the daemon or the API server lists and removes; any call may fail.
RemoveBoxes ==
    \E left \in SUBSET {s \in Steps : box[s] # "absent"} :
       /\ box' = [s \in Steps |-> IF s \in left THEN box[s] ELSE "absent"]
       /\ unremoved' = left

RemoveNet == net' \in {"no", IF net = "no" THEN "no" ELSE "kept"}

\* RemoveExecutionNetwork: by label, whatever is still attached is disconnected,
\* and no failure is reported.
RemoveExecutionNetwork == RemoveBoxes /\ RemoveNet /\ UNCHANGED forwards

\* Kubernetes.DestroyExecution: forwards first, then pods, Service and claim.
DestroySharedObjects == CloseForwards /\ RemoveBoxes /\ RemoveNet

RemoveAll ==
    /\ IF backend = "kubernetes" THEN DestroySharedObjects ELSE RemoveExecutionNetwork
    /\ life' = "released"
    /\ after' = [s \in Steps |-> IF at[s] \in {"idle", "done"} THEN "no" ELSE "across"]
    /\ UNCHANGED <<backend, docker, spec, at, result, ran, keeper, exported, ctxDone>>

\* The execution has finished, or Close has waited long enough.  Steps may still
\* run: those Close did not wait for, and on an agent one whose lease lapsed.
DestroyExecution == life \in {"ready", "broken"} /\ RemoveAll

\* The process that ran the steps dies with its goroutines and its forwards.
BackendCrashes ==
    /\ life \in {"ready", "released"}
    /\ life' = "crashed"
    /\ at' = [s \in Steps |-> "done"]
    /\ result' = [s \in Steps |-> IF at[s] = "done" THEN result[s] ELSE "lost"]
    /\ keeper' = [s \in Steps |-> FALSE]
    /\ forwards' = [s \in Steps |-> 0]
    /\ UNCHANGED <<backend, docker, spec, box, ran, net, exported, ctxDone, unremoved, after>>

\* The Environments page removes what a crashed process left.
Reap == life = "crashed" /\ RemoveAll

BoxStep(s) ==
    \/ CreateContainer(s) \/ CreatePod(s) \/ StartBox(s) \/ PodAdmitted(s) \/ PodStartFailure(s) \/ BoxExits(s)
    \/ ContainerWaitEnds(s) \/ CrashWindowEnds(s) \/ KeeperRemoves(s)
    \/ PodWaitEnds(s) \/ ServicePodWaitEnds(s) \/ ForwardPort(s)

BackendsNext ==
    \/ SetupExecution \/ DockerPinged \/ DestroyExecution \/ BackendCrashes \/ Reap
    \/ \E s \in Steps : RunStep(s) \/ SimulatedEnds(s) \/ JobContextEnds(s) \/ BoxStep(s)

BackendsSpec == BackendsInit /\ [][BackendsNext]_vars

-----------------------------------------------------------------------------
\* Properties.

\* A container or pod always has someone who will remove it: the call that runs
\* its step, the keeper of a service container, or, for the pod of a service
\* that came up, DestroyExecution.  "A failed start therefore has no owner at
\* all" (docker_exec.go) is the case this rules out.  Only a failed removal or
\* a crash leaves a box to the removal by label.  (A service that was not waited
\* for and whose pod came up after the release has lost that owner.)
EveryBoxHasAnOwner ==
    \A s \in Steps : box[s] # "absent" =>
        \/ at[s] \notin {"idle", "done"}
        \/ keeper[s]
        \/ /\ backend = "kubernetes" /\ IsDetachedService(s) /\ result[s] = "ok"
           /\ life # "released" \/ after[s] # "no"
        \/ s \in unremoved
        \/ life = "crashed"

\* After the release (or the reap of a crashed process) nothing of the execution
\* is left, no box, no network and no port-forward, except what Docker or the API
\* server failed to remove and what belongs to a step that was still running or
\* started later: on an agent one whose lease had lapsed, anywhere one that Close
\* did not wait for.  The network is back only if there is such a step.
ReleasedLeavesNothing ==
    life = "released" =>
        /\ \A s \in Steps : after[s] = "no" =>
              (box[s] = "absent" \/ s \in unremoved) /\ forwards[s] = 0
        /\ net = "yes" => \E s \in Steps : after[s] # "no"

\* A step that got as far as a container passes only if that container ran: to
\* the exit code 0, or, for a service, to the end of its crash window.
PassedMeansRan ==
    \A s \in Steps : result[s] = "ok" /\ ran[s] # "no" =>
        ran[s] = "exit0" \/ (IsDetachedService(s) /\ ran[s] # "created")

\* A service that has been reported started stays up for the steps after it:
\* only its own exit or the end of the execution removes a running box.  ("The
\* job's context ends once the service is up, which stopped it a second later -
\* kafka never served the steps after it", cmd/agent.)
ServiceStaysUp ==
    [][\A s \in Steps :
          result[s] = "ok" /\ box[s] = "running" /\ box'[s] = "absent" => life' = "released"]_vars
=============================================================================

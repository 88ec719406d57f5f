---------------------------- MODULE Environments ----------------------------
(***************************************************************************)
(* The inventory of what runs left behind, and its cleanup (environments/, *)
(* execution/inventory.go, runner/inventory*.go, kubernetes_inventory.go,  *)
(* the agent's inventory and reap endpoints).                              *)
(*                                                                         *)
(* A run has containers, a network and volumes on the control plane's      *)
(* Docker or on another backend.  On the host it is a zombie when a        *)
(* container runs and the process in its label is not found; elsewhere     *)
(* when the control plane does not own the run.  Two minutes are one bit:  *)
(* whether a run's last event is older.                                    *)
(***************************************************************************)
EXTENDS Naturals, FiniteSets

CONSTANTS
    HostRuns,                \* the runs on the control plane's Docker
    AgentRuns, ClusterRuns,  \* the runs on an agent's Docker and in a Kubernetes namespace
    Pids,                    \* process ids the control plane may get
    MaxRuns,                 \* bound: runs that boot
    MaxTrouble               \* bound: restarts, outages of backends, failed calls

VARIABLES
    run,         \* run[r]: none, running, failing (failed, handlers still run), ended, lost
    quietRun,    \* quietRun[r]: the last event of r, not on the host, is two minutes old
    evicted,     \* runs the control plane no longer keeps a record of
    box,         \* box[r]: its containers or pods: none, running, exited, failed, succeeded
    net,         \* net[r]: its network, headless service or claim exists
    label,       \* label[r]: the process id on the containers of a run on the host
    pid,         \* the control plane's process id
    processes,   \* the process ids in use, by it and by others
    ps,          \* the processes can be listed
    docker,      \* the host's Docker: up, partial (containers cannot be inspected), down
    reaching,    \* the other backends answer
    reap,        \* the reap under way: the containers and networks it listed, and its step
    trouble

environmentVars == <<run, quietRun, evicted, box, net, label, pid, processes, ps, docker, reaching, reap, trouble>>
hostVars == <<label, pid, processes>>
runVars == <<run, quietRun, evicted, hostVars>>
outsideVars == <<ps, docker, reaching>>

RemoteRuns == AgentRuns \cup ClusterRuns
Runs == HostRuns \cup RemoteRuns
NoReap == [boxes |-> {}, nets |-> {}, all |-> FALSE, at |-> "idle"]

EnvironmentsInit ==
    /\ run = [r \in Runs |-> "none"] /\ quietRun = [r \in Runs |-> FALSE]
    /\ box = [r \in Runs |-> "none"] /\ net = [r \in Runs |-> FALSE]
    /\ pid = (CHOOSE p \in Pids : TRUE) /\ label = [r \in HostRuns |-> pid]
    /\ evicted = {} /\ processes = {pid} /\ ps = TRUE
    /\ docker = "up" /\ reaching = TRUE /\ reap = NoReap /\ trouble = 0

Trouble == trouble < MaxTrouble /\ trouble' = trouble + 1
Smooth == UNCHANGED trouble

-----------------------------------------------------------------------------
(* What is listed.  The host's Docker is asked for containers, networks and *)
(* volumes one by one, and what it cannot list is left out; an agent or a   *)
(* cluster answers for everything or for nothing.                           *)

HostBox(r) == IF docker = "up" THEN box[r] ELSE "none"
HostListed(r) == docker # "down" /\ (HostBox(r) # "none" \/ net[r])
AgentListed(r) == reaching /\ (box[r] # "none" \/ net[r])
ClusterListed(r) == reaching /\ (box[r] # "none" \/ net[r])

Listed(r) ==
    CASE r \in HostRuns -> HostListed(r) [] r \in AgentRuns -> AgentListed(r) [] OTHER -> ClusterListed(r)
BoxState(r) == IF r \in HostRuns THEN HostBox(r) ELSE box[r]

\* What cannot be listed is taken for gone.
Alive(p) == ps /\ p \in processes

\* Mutant: what was saved as running is taken for owned after a restart too.
OwnedByStatus(r) ==
    r \notin evicted /\ (run[r] \in {"running", "lost"} \/ (run[r] \in {"failing", "ended"} /\ ~quietRun[r]))

\* This process booted the run and keeps it, and it has not failed or ended or
\* had an event just now.
RunOwned(r) == r \notin evicted /\ (run[r] = "running" \/ (run[r] \in {"failing", "ended"} /\ ~quietRun[r]))

\* A process id means nothing on another machine.
IsZombie(r) == IF r \in HostRuns THEN BoxState(r) = "running" /\ ~Alive(label[r]) ELSE ~RunOwned(r)

SandboxStatus(r) ==
    IF IsZombie(r) THEN "Zombie"
    ELSE CASE BoxState(r) \in {"exited", "failed"} -> "Degraded"
           [] BoxState(r) = "running"              -> "Running"
           [] OTHER                                -> "Residual"

\* A backend that does not answer costs a warning, not the page.
Snapshot == [r \in Runs |-> IF Listed(r) THEN SandboxStatus(r) ELSE "absent"]

-----------------------------------------------------------------------------
(* Runs, as far as the inventory sees them.                                 *)

Boot(r) ==
    /\ run[r] = "none" /\ Cardinality({q \in Runs : run[q] # "none"}) < MaxRuns
    /\ run' = [run EXCEPT ![r] = "running"] /\ net' = [net EXCEPT ![r] = TRUE]
    /\ label' = [q \in HostRuns |-> IF q = r THEN pid ELSE label[q]] /\ quietRun' = [quietRun EXCEPT ![r] = FALSE]
    /\ Smooth /\ UNCHANGED <<evicted, box, pid, processes, outsideVars, reap>>

StepStarts(r) ==
    /\ run[r] \in {"running", "failing"} /\ net[r] /\ box[r] # "running"
    /\ box' = [box EXCEPT ![r] = "running"] /\ quietRun' = [quietRun EXCEPT ![r] = FALSE]
    /\ Smooth /\ UNCHANGED <<run, evicted, net, hostVars, outsideVars, reap>>

\* A pod that ended shows its phase, a container only that it exited.
ContainerExits(r) ==
    /\ box[r] = "running"
    /\ \E s \in IF r \in ClusterRuns THEN {"failed", "succeeded"} ELSE {"exited"} : box' = [box EXCEPT ![r] = s]
    /\ Smooth /\ UNCHANGED <<runVars, net, outsideVars, reap>>

\* A hard failure decides the status while the failure's handlers still run.
StepFails(r) ==
    /\ run[r] = "running"
    /\ run' = [run EXCEPT ![r] = "failing"] /\ quietRun' = [quietRun EXCEPT ![r] = FALSE]
    /\ Smooth /\ UNCHANGED <<evicted, box, net, hostVars, outsideVars, reap>>

LastStepEnds(r) ==
    /\ run[r] \in {"running", "failing"}
    /\ run' = [run EXCEPT ![r] = "ended"] /\ quietRun' = [quietRun EXCEPT ![r] = FALSE]
    /\ Smooth /\ UNCHANGED <<evicted, box, net, hostVars, outsideVars, reap>>

\* Launches push the oldest records with a final status out, also that of a
\* failed run whose handlers still run.  On the host nobody asks for it.
EvictRun(r) ==
    /\ r \in RemoteRuns /\ run[r] \in {"failing", "ended"} /\ r \notin evicted /\ evicted' = evicted \cup {r}
    /\ Smooth /\ UNCHANGED <<run, quietRun, box, net, hostVars, outsideVars, reap>>

\* Only the runs of other backends, and only once failed or ended, are judged by
\* the age of the last event on record.
TwoMinutesPass(r) ==
    /\ r \in RemoteRuns /\ r \notin evicted /\ run[r] \in {"failing", "ended"} /\ ~quietRun[r]
    /\ quietRun' = [quietRun EXCEPT ![r] = TRUE]
    /\ Smooth /\ UNCHANGED <<run, evicted, box, net, hostVars, outsideVars, reap>>

\* What an execution left is removed: the containers, then the network, which
\* stays while one of them runs; a failed call is only logged.
Removed(rs, boxes, nets) ==
    /\ boxes \subseteq rs /\ nets \subseteq rs
    /\ box' = [r \in Runs |-> IF r \in boxes THEN "none" ELSE box[r]]
    /\ net' = [r \in Runs |-> net[r] /\ ~(r \in nets /\ box'[r] # "running")]
    /\ IF boxes = rs /\ nets = rs THEN Smooth ELSE Trouble

\* The backend removes what the run left once it ended.
DestroyExecution(r) ==
    /\ run[r] = "ended" /\ (box[r] # "none" \/ net[r])
    /\ \E boxes, nets \in SUBSET {r} : Removed({r}, boxes, nets)
    /\ UNCHANGED <<runVars, outsideVars, reap>>

\* The control plane stops and starts again, with any process id: it owns none
\* of the runs it shows, and other processes may have taken ids by then.
ProcessRestarts ==
    /\ run' = [r \in Runs |-> IF run[r] = "none" THEN "none" ELSE "lost"]
    /\ quietRun' = [r \in Runs |-> FALSE] /\ evicted' = {}
    /\ pid' \in Pids /\ (\E others \in SUBSET Pids : processes' = others \cup {pid'})
    /\ reap' = NoReap /\ Trouble
    /\ UNCHANGED <<box, net, label, outsideVars>>

BackendsComeAndGo ==
    /\ \/ docker' \in {"up", "partial", "down"} \ {docker} /\ UNCHANGED <<reaching, ps>> /\ Trouble
       \/ reaching' = ~reaching /\ UNCHANGED <<docker, ps>> /\ Trouble
       \/ ps' = ~ps /\ UNCHANGED <<docker, reaching>> /\ Smooth
    /\ UNCHANGED <<runVars, box, net, reap>>

-----------------------------------------------------------------------------
(* Reaping.                                                                 *)

HostReap(rs, all) ==
    [boxes |-> {r \in rs : HostBox(r) # "none"}, nets |-> {r \in rs : net[r]}, all |-> all, at |-> "containers"]

\* The page asks for one environment, as it is listed now.
ReapSandbox(r) ==
    /\ reap = NoReap /\ Listed(r)
    /\ \/ /\ r \in HostRuns /\ reap' = HostReap({r}, FALSE) /\ UNCHANGED <<box, net>> /\ Smooth
       \/ /\ r \in RemoteRuns /\ UNCHANGED reap
          /\ \E boxes, nets \in SUBSET {r} : Removed({r}, boxes, nets)
    /\ UNCHANGED <<runVars, outsideVars>>

\* With the host's Docker down only the other backends are cleaned.
ReapAll ==
    /\ reap = NoReap
    /\ reap' = IF docker = "down" THEN [NoReap EXCEPT !.at = "remote"] ELSE HostReap(HostRuns, TRUE)
    /\ Smooth /\ UNCHANGED <<runVars, box, net, outsideVars>>

\* docker rm -f of the containers that were listed.
ReapContainers ==
    /\ reap.at = "containers" /\ reap' = [reap EXCEPT !.at = "networks"]
    /\ \/ box' = [r \in Runs |-> IF r \in reap.boxes /\ docker # "down" THEN "none" ELSE box[r]] /\ Smooth
       \/ UNCHANGED box /\ Trouble
    /\ UNCHANGED <<runVars, net, outsideVars>>

\* docker network rm and volume rm of those that were listed; a network with a
\* running container is refused.
ReapNetworks ==
    /\ reap.at = "networks" /\ reap' = IF reap.all THEN [NoReap EXCEPT !.at = "remote"] ELSE NoReap
    /\ \/ net' = [r \in Runs |-> net[r] /\ ~(r \in reap.nets /\ box[r] # "running" /\ docker # "down")] /\ Smooth
       \/ UNCHANGED net /\ Trouble
    /\ UNCHANGED <<runVars, box, outsideVars>>

\* Every run that the other backends list now; one that fails is passed over.
ReapAllRemote ==
    /\ reap.at = "remote" /\ reap' = NoReap
    /\ LET listed == {r \in RemoteRuns : Listed(r)}
       IN \E boxes, nets \in SUBSET listed : Removed(listed, boxes, nets)
    /\ UNCHANGED <<runVars, outsideVars>>

EnvironmentsNext ==
    \/ \E r \in Runs : \/ Boot(r) \/ StepStarts(r) \/ ContainerExits(r) \/ StepFails(r) \/ LastStepEnds(r)
                       \/ EvictRun(r) \/ TwoMinutesPass(r) \/ DestroyExecution(r) \/ ReapSandbox(r)
    \/ ReapAll \/ ReapContainers \/ ReapNetworks \/ ReapAllRemote
    \/ ProcessRestarts \/ BackendsComeAndGo

EnvironmentsSpec == EnvironmentsInit /\ [][EnvironmentsNext]_environmentVars

-----------------------------------------------------------------------------
\* The page tells leaks from runs, whatever crashed, was reaped half-way or
\* cannot be reached: what a run left behind that this process does not run is
\* shown as a zombie (on the host, while a container runs and no process has
\* taken the dead one's id), and a run that has not failed, or whose last event
\* is less than two minutes old, is not, unless on the host the processes
\* cannot be listed or elsewhere its record was evicted.  A failed run whose
\* handlers are silent for two minutes is shown as one although it is under way.
ZombiesAreLost ==
    \A r \in {q \in Runs : Listed(q)} :
        /\ run[r] = "lost" /\ (r \in HostRuns => BoxState(r) = "running" /\ label[r] \notin processes)
              => Snapshot[r] = "Zombie"
        /\ (run[r] = "running" \/ (run[r] \in {"failing", "ended"} /\ ~quietRun[r]))
              /\ (IF r \in HostRuns THEN ps ELSE r \notin evicted)
              => Snapshot[r] # "Zombie"
=============================================================================

--------------------------- MODULE BackendsProofs ---------------------------
(***************************************************************************)
(* Machine-checked proofs about Backends.tla, for any steps of any shape   *)
(* on each of the three backends, with calls of the daemon and of the API  *)
(* server failing and the process crashing at any point.                   *)
(*                                                                         *)
(* The invariant follows one step: what its call has done so far decides   *)
(* what box there can be, how far its container got and who removes it.    *)
(* The last part is about traffic steps (LoadStep.tla), for any plan.      *)
(***************************************************************************)
EXTENDS Backends, LoadStep, FiniteSetTheorems, WellFoundedInduction, TLAPS

-----------------------------------------------------------------------------
(* The inductive invariant *)

Boxes  == {"absent", "created", "pending", "stuck", "running", "exit0", "exit1"}
Result == {"none", "ok", "error", "canceled", "lost"}

\* Every variable has the type the code gives it.
BackendsTyped ==
    /\ backend \in BackendKinds /\ docker \in BOOLEAN /\ net \in {"no", "yes", "kept"}
    /\ spec \in [Steps -> Shapes]
    /\ at \in [Steps -> Places] /\ result \in [Steps -> Result]
    /\ box \in [Steps -> Boxes] /\ ran \in [Steps -> {"no", "created", "up", "exit0", "exit1"}]
    /\ keeper \in [Steps -> BOOLEAN] /\ exported \in [Steps -> BOOLEAN]
    /\ forwards \in [Steps -> Nat]
    /\ ctxDone \subseteq Steps /\ unremoved \subseteq Steps
    /\ life \in {"new", "ready", "broken", "crashed", "released"}
    /\ after \in [Steps -> {"no", "across", "since"}]

\* A call returns at its end, has no box before it creates one, and only the
\* call of a service goes through a crash window.
Called(s) ==
    /\ at[s] # "done" => result[s] = "none"
    /\ at[s] \in {"idle", "simulated", "create"} => box[s] = "absent" /\ ran[s] = "no"
    /\ at[s] \in {"window", "forward"} => IsDetachedService(s) /\ ran[s] \in {"up", "exit0", "exit1"}
    /\ at[s] = "forward" => backend = "kubernetes"
    /\ at[s] = "start" => backend # "kubernetes"
    /\ at[s] = "window" /\ backend # "kubernetes" /\ box[s] # "absent" => keeper[s] \/ s \in unremoved

\* Keepers are for service containers, forwards for pods.
Kept(s) ==
    /\ keeper[s] => IsDetachedService(s) /\ backend # "kubernetes"
    /\ forwards[s] # 0 => backend = "kubernetes"

\* The case of EveryBoxHasAnOwner for one step.
Owned(s) ==
    box[s] # "absent" =>
        \/ at[s] \notin {"idle", "done"}
        \/ keeper[s]
        \/ /\ backend = "kubernetes" /\ IsDetachedService(s) /\ result[s] = "ok"
           /\ life # "released" \/ after[s] # "no"
        \/ s \in unremoved
        \/ life = "crashed"

\* How far the container got, and that a step that passed cannot lose that: if
\* it is no service its box does not run again.
Reached(s) ==
    /\ box[s] # "absent" => ran[s] # "no"
    /\ box[s] = "running" => ran[s] = "up"
    /\ box[s] \in {"exit0", "exit1"} => ran[s] = box[s]
    /\ result[s] = "ok" /\ ran[s] # "no" =>
          \/ ran[s] = "exit0" /\ box[s] \in {"absent", "exit0"}
          \/ IsDetachedService(s) /\ ran[s] \in {"up", "exit0", "exit1"}

StepInv(s) == Called(s) /\ Kept(s) /\ Owned(s) /\ Reached(s)

\* Calls are over when the process is gone, and those that are not when the
\* execution is released are known; only an agent's jobs have a context that ends.
Settled ==
    /\ life = "crashed" => \A s \in Steps : at[s] \in {"idle", "done"}
    /\ life = "released" => \A s \in Steps : after[s] = "no" => at[s] \in {"idle", "done"}
    /\ backend # "remote" => ctxDone = {}

BackendsInv ==
    /\ BackendsTyped /\ Settled /\ ReleasedLeavesNothing
    /\ \A s \in Steps : StepInv(s)

-----------------------------------------------------------------------------
(* Routing *)

\* Only the three in-process kinds are run in process, and they report a result.
LEMMA Routed ==
    ASSUME BackendsTyped, NEW s \in Steps
    PROVE  /\ Expectations(s) \subseteq {"ok", "error"}
           /\ Route(s) = "inprocess" => InProcessResults(s) \subseteq {"ok", "error"}
<1>1. Expectations(s) \subseteq {"ok", "error"}
  BY DEF Expectations
<1>2. PluginResults(s) \subseteq {"ok", "error"}
  BY DEF PluginResults
<1>3. SecurityResults(s) \subseteq {"ok", "error"}
  <2>1. spec[s] \in StepShape
    BY BackendsAssumption DEF BackendsAssumption, BackendsTyped
  <2>2. \A f, n \in 0..1 : SecurityVerdict(s, f, n) \in {"ok", "error"}
    BY <2>1 DEF SecurityVerdict, StepShape
  <2> QED BY <2>2 DEF SecurityResults
<1>4. Route(s) = "inprocess" => Kind(s) \in {"plugin", "security", "traffic"}
  BY DEF Route, LocalRoute, KubernetesRoute, RemoteRoute, RunsInProcess, BackendsTyped, BackendKinds
<1> QED BY <1>1, <1>2, <1>3, <1>4 DEF InProcessResults

\* How Run begins: it answers at once, simulates the step or creates a box.
LEMMA RunStepMoves ==
    ASSUME BackendsTyped, NEW s \in Steps, RunStep(s)
    PROVE  \/ \E r \in {"ok", "error"} : Return(s, r)
           \/ \E p \in {"simulated", "create"} : Goto(s, p)
<1>1. Route(s) \in {"log", "unresolved", "inprocess", "simulated", "container"}
  BY DEF Route, LocalRoute, KubernetesRoute, RemoteRoute, BackendsTyped, BackendKinds
<1>2. CASE Route(s) \in {"log", "unresolved"}
  BY <1>2 DEF RunStep
<1>3. CASE Route(s) = "inprocess"
  <2>1. \E r \in InProcessResults(s) : Return(s, r)
    BY <1>3 DEF RunStep
  <2> QED BY <1>3, <2>1, Routed
<1>4. CASE Route(s) \in {"simulated", "container"}
  BY <1>4 DEF RunStep
<1> QED BY <1>1, <1>2, <1>3, <1>4

-----------------------------------------------------------------------------
(* Types *)

\* The initial states have the invariant.
LEMMA BackendsInvInit == BackendsInit => BackendsInv
<1> SUFFICES ASSUME BackendsInit PROVE BackendsInv
  OBVIOUS
<1> USE DEF BackendsInit
<1>1. BackendsTyped
  BY DEF BackendsTyped, Places, Boxes, Result
<1>2. Settled /\ ReleasedLeavesNothing
  BY DEF Settled, ReleasedLeavesNothing
<1>3. ASSUME NEW s \in Steps PROVE StepInv(s)
  BY DEF StepInv, Called, Kept, Owned, Reached
<1> QED BY <1>1, <1>2, <1>3 DEF BackendsInv

\* Every step keeps the types.
LEMMA BackendsTypeStep ==
    ASSUME BackendsTyped, [BackendsNext]_vars
    PROVE  BackendsTyped'
<1> USE DEF BackendsTyped
<1>1. CASE SetupExecution
  BY <1>1 DEF SetupExecution, SetupNetwork, SetupSharedObjects, BackendKinds
<1>2. CASE DockerPinged
  BY <1>2 DEF DockerPinged
<1>3. ASSUME RemoveAll PROVE BackendsTyped'
  <2>1. /\ box' \in [Steps -> Boxes] /\ unremoved' \subseteq Steps /\ forwards' \in [Steps -> Nat]
        /\ net' \in {"no", "yes", "kept"}
    <3>1. RemoveBoxes /\ RemoveNet /\ (CloseForwards \/ UNCHANGED forwards)
      BY <1>3 DEF RemoveAll, DestroySharedObjects, RemoveExecutionNetwork
    <3>2. box' \in [Steps -> Boxes] /\ unremoved' \subseteq Steps
      BY <3>1 DEF RemoveBoxes, Boxes
    <3>3. forwards' \in [Steps -> Nat]
      BY <3>1 DEF CloseForwards
    <3>4. net' \in {"no", "yes", "kept"}
      BY <3>1 DEF RemoveNet
    <3> QED BY <3>2, <3>3, <3>4
  <2> QED BY <1>3, <2>1 DEF RemoveAll
<1>4. CASE BackendCrashes
  BY <1>4 DEF BackendCrashes, Places, Result
<1>5. ASSUME NEW s \in Steps, RunStep(s) PROVE BackendsTyped'
  <2>1. \/ \E r \in Result : Return(s, r)
        \/ \E p \in Places : Goto(s, p)
    BY <1>5, RunStepMoves DEF Places, Result
  <2>2. at' \in [Steps -> Places] /\ result' \in [Steps -> Result]
    BY <2>1 DEF Return, Goto, Places
  <2>3. net' \in {"no", "yes", "kept"} /\ after' \in [Steps -> {"no", "across", "since"}]
    BY <1>5 DEF RunStep
  <2> QED BY <1>5, <2>2, <2>3 DEF RunStep
<1>6. ASSUME NEW s \in Steps, SimulatedEnds(s) PROVE BackendsTyped'
  BY <1>6, Routed DEF SimulatedEnds, Return, Places, Result
<1>7. ASSUME NEW s \in Steps, JobContextEnds(s) PROVE BackendsTyped'
  BY <1>7 DEF JobContextEnds
<1>8. ASSUME NEW s \in Steps, CreateContainer(s) \/ CreatePod(s) PROVE BackendsTyped'
  BY <1>8 DEF CreateContainer, CreatePod, Return, Goto, Places, Result, Boxes
<1>9. ASSUME NEW s \in Steps, StartBox(s) PROVE BackendsTyped'
  <2>1. IsDetachedService(s) \in BOOLEAN
    BY DEF IsDetachedService
  <2> QED BY <1>9, <2>1 DEF StartBox, RemoveUnstarted, Remove, Return, Goto, Places, Result, Boxes
<1>10. ASSUME NEW s \in Steps, PodAdmitted(s) \/ PodStartFailure(s) \/ BoxExits(s) PROVE BackendsTyped'
  BY <1>10 DEF PodAdmitted, PodStartFailure, BoxExits, Boxes
<1>11. ASSUME NEW s \in Steps, ContainerWaitEnds(s) PROVE BackendsTyped'
  <2>1. \A x : ArtifactTriggerMatches(s, x) \in BOOLEAN
    BY DEF ArtifactTriggerMatches
  <2>2. ExitResults(s) \subseteq {"ok", "error"}
    BY Routed DEF ExitResults
  <2> QED BY <1>11, <2>1, <2>2 DEF ContainerWaitEnds, Remove, Return, Places, Result, Boxes
<1>12. ASSUME NEW s \in Steps, CrashWindowEnds(s) PROVE BackendsTyped'
  BY <1>12 DEF CrashWindowEnds, Return, Places, Result
<1>13. ASSUME NEW s \in Steps, KeeperRemoves(s) PROVE BackendsTyped'
  BY <1>13 DEF KeeperRemoves, Remove, Boxes
<1>14. ASSUME NEW s \in Steps, PodWaitEnds(s) PROVE BackendsTyped'
  <2>1. \A x : ArtifactTriggerMatches(s, x) \in BOOLEAN
    BY DEF ArtifactTriggerMatches
  <2> QED BY <1>14, <2>1, Routed DEF PodWaitEnds, Remove, Return, Places, Result, Boxes
<1>15. ASSUME NEW s \in Steps, ServicePodWaitEnds(s) PROVE BackendsTyped'
  BY <1>15 DEF ServicePodWaitEnds, Remove, Return, Goto, Places, Result, Boxes
<1>16. ASSUME NEW s \in Steps, ForwardPort(s) PROVE BackendsTyped'
  BY <1>16 DEF ForwardPort, Remove, Return, Places, Result, Boxes
<1>17. CASE UNCHANGED vars
  BY <1>17 DEF vars
<1> QED
  BY <1>1, <1>2, <1>3, <1>4, <1>5, <1>6, <1>7, <1>8, <1>9, <1>10, <1>11, <1>12, <1>13, <1>14,
     <1>15, <1>16, <1>17
  DEF BackendsNext, BoxStep, DestroyExecution, Reap

-----------------------------------------------------------------------------
(* One step's call, box and keeper *)

\* A service stays one, and no call changes the backend.
LEMMA SpecForGood ==
    ASSUME [BackendsNext]_vars
    PROVE  /\ backend' = backend /\ spec' = spec
           /\ \A s \in Steps : IsDetachedService(s)' <=> IsDetachedService(s)
<1>1. backend' = backend /\ spec' = spec
  BY DEF BackendsNext, vars, SetupExecution, DockerPinged, DestroyExecution, RemoveAll, BackendCrashes,
         Reap, RunStep, SimulatedEnds, JobContextEnds, BoxStep, CreateContainer, CreatePod, StartBox,
         PodAdmitted, PodStartFailure, BoxExits, ContainerWaitEnds, CrashWindowEnds, KeeperRemoves,
         PodWaitEnds, ServicePodWaitEnds, ForwardPort
<1> QED BY <1>1 DEF IsDetachedService, Kind, ResolvesImage

\* Every step keeps what is known of the call, the box and the keeper of s.
LEMMA StepInvStep ==
    ASSUME BackendsInv, [BackendsNext]_vars, NEW s \in Steps
    PROVE  StepInv(s)'
<1>0. /\ BackendsTyped /\ BackendsTyped' /\ Settled /\ StepInv(s) /\ backend' = backend
      /\ IsDetachedService(s)' <=> IsDetachedService(s)
  BY BackendsTypeStep, SpecForGood DEF BackendsInv
<1> USE DEF StepInv, Called, Kept, Owned, Reached
<1>1. ASSUME at'[s] = at[s], result'[s] = result[s], box'[s] = box[s], ran'[s] = ran[s],
             keeper'[s] = keeper[s], forwards'[s] = forwards[s],
             s \in unremoved => s \in unremoved', life = "crashed" => life' = "crashed",
             life' = "released" => life = "released", after[s] # "no" => after'[s] # "no"
      PROVE  StepInv(s)'
  BY <1>0, <1>1
<1>2. ASSUME NEW u \in Steps, u # s, RunStep(u) \/ SimulatedEnds(u) \/ BoxStep(u)
      PROVE  StepInv(s)'
  <2>1. UNCHANGED life
    BY <1>2 DEF RunStep, SimulatedEnds, BoxStep, CreateContainer, CreatePod, StartBox,
         PodAdmitted, PodStartFailure, BoxExits, ContainerWaitEnds, CrashWindowEnds, KeeperRemoves,
         PodWaitEnds, ServicePodWaitEnds, ForwardPort
  <2>2. at'[s] = at[s] /\ result'[s] = result[s]
    <3>1. ASSUME NEW r, Return(u, r) \/ Goto(u, r) PROVE at'[s] = at[s] /\ result'[s] = result[s]
      BY <1>0, <1>2, <3>1 DEF Return, Goto, BackendsTyped
    <3>2. CASE UNCHANGED <<at, result>>
      BY <3>2
    <3>3. CASE RunStep(u)
      BY <1>0, <3>1, <3>3, RunStepMoves
    <3> QED
      BY <1>2, <3>1, <3>2, <3>3
      DEF SimulatedEnds, BoxStep, CreateContainer, CreatePod, StartBox,
         PodAdmitted, PodStartFailure, BoxExits, ContainerWaitEnds, CrashWindowEnds, KeeperRemoves,
         PodWaitEnds, ServicePodWaitEnds, ForwardPort
  <2>3. box'[s] = box[s] /\ (s \in unremoved => s \in unremoved')
    BY <1>0, <1>2 DEF RunStep, SimulatedEnds, BoxStep, CreateContainer, CreatePod, StartBox,
         RemoveUnstarted, Remove, BackendsTyped,
         PodAdmitted, PodStartFailure, BoxExits, ContainerWaitEnds, CrashWindowEnds, KeeperRemoves,
         PodWaitEnds, ServicePodWaitEnds, ForwardPort
  <2>4. ran'[s] = ran[s]
    BY <1>0, <1>2 DEF RunStep, SimulatedEnds, BoxStep, CreateContainer, CreatePod, StartBox,
         BackendsTyped,
         PodAdmitted, PodStartFailure, BoxExits, ContainerWaitEnds, CrashWindowEnds, KeeperRemoves,
         PodWaitEnds, ServicePodWaitEnds, ForwardPort
  <2>5. keeper'[s] = keeper[s] /\ forwards'[s] = forwards[s]
    BY <1>0, <1>2 DEF RunStep, SimulatedEnds, BoxStep, CreateContainer, CreatePod, StartBox,
         BackendsTyped,
         PodAdmitted, PodStartFailure, BoxExits, ContainerWaitEnds, CrashWindowEnds, KeeperRemoves,
         PodWaitEnds, ServicePodWaitEnds, ForwardPort
  <2>6. after'[s] = after[s]
    BY <1>0, <1>2 DEF RunStep, SimulatedEnds, BoxStep, CreateContainer, CreatePod, StartBox,
         BackendsTyped,
         PodAdmitted, PodStartFailure, BoxExits, ContainerWaitEnds, CrashWindowEnds, KeeperRemoves,
         PodWaitEnds, ServicePodWaitEnds, ForwardPort
  <2> QED BY <1>1, <2>1, <2>2, <2>3, <2>4, <2>5, <2>6
<1>3. CASE RunStep(s)
  <2>1. at[s] = "idle" /\ UNCHANGED <<box, ran, keeper, forwards, unremoved, life>>
    BY <1>3 DEF RunStep
  <2>2. at'[s] \in {"done", "simulated", "create"} /\ (at'[s] # "done" => result'[s] = "none")
    BY <1>0, <1>3, <2>1, RunStepMoves DEF Return, Goto, BackendsTyped
  <2> QED BY <1>0, <2>1, <2>2
<1>4. CASE SimulatedEnds(s)
  <2>1. at[s] = "simulated" /\ UNCHANGED <<box, ran, keeper, forwards, unremoved, life>> /\ at'[s] = "done"
    BY <1>0, <1>4 DEF SimulatedEnds, Return, BackendsTyped
  <2> QED BY <1>0, <2>1
<1>5. CASE CreateContainer(s) \/ CreatePod(s)
  <2>1. at[s] = "create" /\ UNCHANGED <<keeper, forwards, unremoved, life>>
    BY <1>5 DEF CreateContainer, CreatePod
  <2>2. \/ at'[s] = "done" /\ result'[s] = "error" /\ UNCHANGED <<box, ran>>
        \/ /\ (at'[s] = "start" /\ backend # "kubernetes") \/ at'[s] = "wait"
           /\ result' = result
           /\ box'[s] \in {"created", "pending"} /\ ran'[s] = "created"
    BY <1>0, <1>5 DEF CreateContainer, CreatePod, Return, Goto, BackendsTyped
  <2> QED BY <1>0, <2>1, <2>2
<1>6. CASE StartBox(s)
  <2>1. at[s] = "start" /\ UNCHANGED <<forwards, life>>
    BY <1>6 DEF StartBox
  <2>2. CASE Return(s, "error") /\ Remove(s) /\ UNCHANGED <<ran, keeper>>
    BY <1>0, <2>1, <2>2 DEF Return, Remove, BackendsTyped
  <2>3. CASE /\ Goto(s, IF IsDetachedService(s) THEN "window" ELSE "wait")
             /\ box' = [box EXCEPT ![s] = "running"] /\ ran' = [ran EXCEPT ![s] = "up"]
             /\ keeper' = [keeper EXCEPT ![s] = IsDetachedService(s)] /\ UNCHANGED unremoved
    <3>1. /\ at'[s] \in {"wait", "window"} /\ (at'[s] = "window" => IsDetachedService(s))
          /\ result' = result /\ box'[s] = "running" /\ ran'[s] = "up"
      BY <1>0, <2>3 DEF Goto, BackendsTyped
    <3>2. keeper'[s] <=> IsDetachedService(s)
      BY <1>0, <2>3, Zenon DEF BackendsTyped
    <3> QED BY <1>0, <2>1, <2>3, <3>1, <3>2
  <2> QED BY <1>6, <2>2, <2>3 DEF StartBox, RemoveUnstarted
<1>7. CASE PodAdmitted(s) \/ PodStartFailure(s) \/ BoxExits(s)
  <2>1. UNCHANGED <<at, result, keeper, forwards, unremoved, life, after>>
    BY <1>7 DEF PodAdmitted, PodStartFailure, BoxExits
  <2>2. \/ box[s] = "pending" /\ box'[s] = "running" /\ ran'[s] = "up"
        \/ box[s] = "pending" /\ box'[s] = "stuck" /\ ran'[s] = ran[s]
        \/ box[s] = "running" /\ box'[s] \in {"exit0", "exit1"} /\ ran'[s] = box'[s]
    BY <1>0, <1>7 DEF PodAdmitted, PodStartFailure, BoxExits, BackendsTyped
  <2> QED BY <1>0, <2>1, <2>2
<1>8. CASE ContainerWaitEnds(s) \/ PodWaitEnds(s)
  <2>1. at[s] = "wait" /\ UNCHANGED <<ran, keeper, forwards, life>> /\ Remove(s)
    BY <1>8 DEF ContainerWaitEnds, PodWaitEnds
  <2>2. at'[s] = "done" /\ (result'[s] = "ok" => box[s] = "exit0")
    BY <1>0, <1>8, Routed DEF ContainerWaitEnds, PodWaitEnds, ExitResults, Return, BackendsTyped
  <2>3. box'[s] \in {"absent", box[s]} /\ (box'[s] # "absent" => s \in unremoved')
    BY <1>0, <2>1 DEF Remove, BackendsTyped
  <2> QED BY <1>0, <2>1, <2>2, <2>3
<1>9. CASE CrashWindowEnds(s)
  <2>1. /\ at[s] = "window" /\ backend # "kubernetes" /\ at'[s] = "done"
        /\ UNCHANGED <<box, ran, keeper, forwards, unremoved, life>>
    BY <1>0, <1>9 DEF CrashWindowEnds, Return, BackendsTyped
  <2> QED BY <1>0, <2>1
<1>10. CASE KeeperRemoves(s)
  <2>1. ~keeper'[s] /\ UNCHANGED <<at, result, ran, forwards, life>>
    BY <1>0, <1>10 DEF KeeperRemoves, BackendsTyped
  <2>2. box'[s] \in {"absent", box[s]} /\ (box'[s] # "absent" => s \in unremoved')
    BY <1>0, <1>10 DEF KeeperRemoves, Remove, BackendsTyped
  <2> QED BY <1>0, <2>1, <2>2
<1>11. CASE ServicePodWaitEnds(s) \/ ForwardPort(s)
  <2>0. life = "released" => after[s] # "no"
    BY <1>0, <1>11 DEF ServicePodWaitEnds, ForwardPort, Settled
  <2>1. /\ at[s] \in {"wait", "window", "forward"} /\ UNCHANGED <<ran, keeper, life, after>>
        /\ backend = "kubernetes" /\ IsDetachedService(s)
    BY <1>0, <1>11 DEF ServicePodWaitEnds, ForwardPort
  <2>2. \/ /\ at'[s] = "done" /\ result'[s] = "error"
           /\ box'[s] \in {"absent", box[s]} /\ (box'[s] # "absent" => s \in unremoved')
        \/ /\ at'[s] \in {"window", "forward"} /\ result'[s] = result[s] /\ UNCHANGED <<box, unremoved>>
           /\ at[s] = "forward" \/ box[s] = "running"
        \/ at[s] = "forward" /\ at'[s] = "done" /\ result'[s] = "ok" /\ UNCHANGED <<box, unremoved>>
    <3>1. CASE Return(s, "error") /\ Remove(s)
      BY <1>0, <3>1 DEF Return, Remove, BackendsTyped
    <3>2. CASE ServicePodWaitEnds(s) /\ ~(Return(s, "error") /\ Remove(s))
      BY <1>0, <3>2 DEF ServicePodWaitEnds, Goto, BackendsTyped
    <3>3. CASE ForwardPort(s) /\ ~(Return(s, "error") /\ Remove(s))
      BY <1>0, <3>3 DEF ForwardPort, Return, BackendsTyped
    <3> QED BY <1>11, <3>1, <3>2, <3>3
  <2> QED BY <1>0, <2>0, <2>1, <2>2
<1>12. CASE BackendCrashes
  <2>1. /\ life' = "crashed" /\ at'[s] = "done" /\ ~keeper'[s] /\ forwards'[s] = 0
        /\ UNCHANGED <<box, ran>> /\ result'[s] \in {"lost", result[s]}
    BY <1>0, <1>12 DEF BackendCrashes, BackendsTyped
  <2> QED BY <1>0, <2>1
<1>13. ASSUME RemoveAll PROVE StepInv(s)'
  <2>1. /\ UNCHANGED <<at, result, ran, keeper>>
        /\ forwards'[s] \in {0, forwards[s]}
    BY <1>0, <1>13
    DEF RemoveAll, DestroySharedObjects, RemoveExecutionNetwork, CloseForwards, BackendsTyped
  <2>2. box'[s] \in {"absent", box[s]} /\ (box'[s] # "absent" => s \in unremoved')
    <3>1. RemoveBoxes
      BY <1>13 DEF RemoveAll, DestroySharedObjects, RemoveExecutionNetwork
    <3> QED BY <3>1 DEF RemoveBoxes
  <2> QED BY <1>0, <1>13, <2>1, <2>2
<1>14. CASE DestroyExecution \/ Reap
  BY <1>0, <1>13, <1>14 DEF DestroyExecution, Reap
<1>15. CASE SetupExecution \/ DockerPinged \/ (\E u \in Steps : JobContextEnds(u)) \/ UNCHANGED vars
  <2>1. UNCHANGED <<at, result, box, ran, keeper, forwards, unremoved, after>>
    BY <1>15 DEF SetupExecution, DockerPinged, JobContextEnds, vars
  <2>2. (life = "crashed" => life' = "crashed") /\ (life' = "released" => life = "released")
    BY <1>0, <1>15
    DEF SetupExecution, SetupNetwork, SetupSharedObjects, DockerPinged, JobContextEnds, vars, BackendsTyped,
        BackendKinds
  <2> QED BY <1>1, <2>1, <2>2
<1> QED
  BY <1>2, <1>3, <1>4, <1>5, <1>6, <1>7, <1>8, <1>9, <1>10, <1>11, <1>12, <1>14, <1>15
  DEF BackendsNext, BoxStep

-----------------------------------------------------------------------------
(* The execution as a whole *)

\* No call of a step that was over at the release touches its box after it, and
\* nothing but such a step sets the network up again.
LEMMA AfterTheRelease ==
    ASSUME BackendsInv, [BackendsNext]_vars, life = "released", life' = "released"
    PROVE  /\ \A s \in Steps : after'[s] = "no" =>
                 /\ after[s] = "no" /\ forwards'[s] = forwards[s]
                 /\ box[s] = "absent" => box'[s] = "absent"
                 /\ s \in unremoved => s \in unremoved'
           /\ net' = "yes" => net = "yes" \/ \E s \in Steps : after'[s] # "no"
           /\ \A s \in Steps : after[s] # "no" => after'[s] # "no"
<1>0. BackendsTyped /\ \A s \in Steps : after[s] = "no" => at[s] \in {"idle", "done"}
  BY DEF BackendsInv, Settled
<1> DEFINE Kept1(s) == /\ after'[s] = "no" =>
                             /\ after[s] = "no" /\ forwards'[s] = forwards[s]
                             /\ box[s] = "absent" => box'[s] = "absent"
                             /\ s \in unremoved => s \in unremoved'
                       /\ after[s] # "no" => after'[s] # "no"
           Back == net' = "yes" => net = "yes" \/ \E s \in Steps : after'[s] # "no"
<1> SUFFICES Back /\ \A s \in Steps : Kept1(s)
  OBVIOUS
<1>1. ~SetupExecution /\ ~DestroyExecution /\ ~BackendCrashes /\ ~Reap
  BY DEF SetupExecution, DestroyExecution, BackendCrashes, Reap
<1>2. ASSUME NEW u \in Steps, RunStep(u) PROVE Back /\ \A s \in Steps : Kept1(s)
  <2>1. after'[u] = "since" /\ \A s \in Steps : s # u => after'[s] = after[s]
    BY <1>0, <1>2 DEF RunStep, BackendsTyped
  <2> QED BY <1>2, <2>1 DEF RunStep
<1>3. ASSUME NEW u \in Steps, at[u] \notin {"idle", "done"}, UNCHANGED <<net, after>>,
             \A s \in Steps \ {u} : box'[s] = box[s] /\ forwards'[s] = forwards[s],
             unremoved \subseteq unremoved'
      PROVE  Back /\ \A s \in Steps : Kept1(s)
  <2>1. after[u] # "no"
    BY <1>0, <1>3
  <2> QED BY <1>3, <2>1
<1>4. ASSUME NEW u \in Steps,
             \/ SimulatedEnds(u) \/ CreateContainer(u) \/ CreatePod(u) \/ StartBox(u) \/ ContainerWaitEnds(u)
             \/ CrashWindowEnds(u) \/ PodWaitEnds(u) \/ ServicePodWaitEnds(u) \/ ForwardPort(u)
      PROVE  Back /\ \A s \in Steps : Kept1(s)
  <2>1. at[u] \notin {"idle", "done"} /\ UNCHANGED <<net, after>>
    BY <1>4 DEF SimulatedEnds, CreateContainer, CreatePod, StartBox, ContainerWaitEnds,
                CrashWindowEnds, PodWaitEnds, ServicePodWaitEnds, ForwardPort
  <2>2. \A s \in Steps \ {u} : box'[s] = box[s]
    BY <1>0, <1>4 DEF SimulatedEnds, CreateContainer, CreatePod, StartBox, ContainerWaitEnds,
                CrashWindowEnds, PodWaitEnds, ServicePodWaitEnds, ForwardPort, RemoveUnstarted, Remove,
                BackendsTyped
  <2>3. unremoved \subseteq unremoved'
    BY <1>4 DEF SimulatedEnds, CreateContainer, CreatePod, StartBox, ContainerWaitEnds,
                CrashWindowEnds, PodWaitEnds, ServicePodWaitEnds, ForwardPort, RemoveUnstarted, Remove
  <2>4. \A s \in Steps \ {u} : forwards'[s] = forwards[s]
    BY <1>0, <1>4 DEF SimulatedEnds, CreateContainer, CreatePod, StartBox, ContainerWaitEnds,
                CrashWindowEnds, PodWaitEnds, ServicePodWaitEnds, ForwardPort, BackendsTyped
  <2> QED BY <1>3, <2>1, <2>2, <2>3, <2>4
<1>5. ASSUME NEW u \in Steps, PodAdmitted(u) \/ PodStartFailure(u) \/ BoxExits(u) \/ KeeperRemoves(u)
      PROVE  Back /\ \A s \in Steps : Kept1(s)
  BY <1>0, <1>5 DEF PodAdmitted, PodStartFailure, BoxExits, KeeperRemoves, Remove, BackendsTyped
<1>6. CASE DockerPinged \/ (\E u \in Steps : JobContextEnds(u)) \/ UNCHANGED vars
  BY <1>6 DEF DockerPinged, JobContextEnds, vars
<1> QED BY <1>1, <1>2, <1>4, <1>5, <1>6 DEF BackendsNext, BoxStep

\* A release is the work of RemoveAll, and a crash that of BackendCrashes.
LEMMA EndsByCrashOrRelease ==
    ASSUME BackendsTyped, [BackendsNext]_vars, life' # life
    PROVE  /\ life' = "crashed" => BackendCrashes
           /\ life' = "released" => RemoveAll
<1>1. SetupExecution => life' \notin {"crashed", "released"}
  BY DEF SetupExecution, SetupNetwork, SetupSharedObjects, BackendsTyped, BackendKinds
<1> QED
  BY <1>1
  DEF BackendsNext, vars, DockerPinged, DestroyExecution, RemoveAll, BackendCrashes, Reap, RunStep,
      SimulatedEnds, JobContextEnds, BoxStep, CreateContainer, CreatePod, StartBox, PodAdmitted,
      PodStartFailure, BoxExits, ContainerWaitEnds, CrashWindowEnds, KeeperRemoves, PodWaitEnds,
      ServicePodWaitEnds, ForwardPort

\* A call that is over stays over, and one that begins after the release is known.
LEMMA CallsBegin ==
    ASSUME BackendsTyped, [BackendsNext]_vars, NEW s \in Steps,
           at[s] \in {"idle", "done"}, at'[s] \notin {"idle", "done"}
    PROVE  RunStep(s)
<1>1. ASSUME NEW u \in Steps, u # s, RunStep(u) \/ SimulatedEnds(u) \/ BoxStep(u) PROVE at'[s] = at[s]
  <2>1. ASSUME NEW r, Return(u, r) \/ Goto(u, r) PROVE at'[s] = at[s]
    BY <1>1, <2>1 DEF Return, Goto, BackendsTyped
  <2>2. CASE RunStep(u)
    BY <2>1, <2>2, RunStepMoves
  <2> QED
    BY <1>1, <2>1, <2>2
    DEF SimulatedEnds, BoxStep, CreateContainer, CreatePod, StartBox, PodAdmitted, PodStartFailure, BoxExits,
        ContainerWaitEnds, CrashWindowEnds, KeeperRemoves, PodWaitEnds, ServicePodWaitEnds, ForwardPort
<1>2. ASSUME SimulatedEnds(s) \/ BoxStep(s) PROVE FALSE
  BY <1>2 DEF SimulatedEnds, BoxStep, CreateContainer, CreatePod, StartBox, PodAdmitted, PodStartFailure,
        BoxExits, ContainerWaitEnds, CrashWindowEnds, KeeperRemoves, PodWaitEnds, ServicePodWaitEnds, ForwardPort
<1>3. ASSUME \/ SetupExecution \/ DockerPinged \/ DestroyExecution \/ Reap \/ BackendCrashes
             \/ (\E u \in Steps : JobContextEnds(u)) \/ UNCHANGED vars
      PROVE  FALSE
  BY <1>3 DEF SetupExecution, DockerPinged, DestroyExecution, Reap, RemoveAll, BackendCrashes, JobContextEnds, vars
<1> QED BY <1>1, <1>2, <1>3 DEF BackendsNext

\* Calls stay over, and only an agent's jobs have a context that ends.
LEMMA SettledStep ==
    ASSUME BackendsInv, [BackendsNext]_vars
    PROVE  Settled'
<1>0. BackendsTyped /\ Settled /\ backend' = backend
  BY SpecForGood DEF BackendsInv
<1>1. ctxDone' = ctxDone \/ backend = "remote"
  BY DEF BackendsNext, vars, SetupExecution, DockerPinged, DestroyExecution, RemoveAll, BackendCrashes,
         Reap, RunStep, SimulatedEnds, JobContextEnds, BoxStep, CreateContainer, CreatePod, StartBox,
         PodAdmitted, PodStartFailure, BoxExits, ContainerWaitEnds, CrashWindowEnds, KeeperRemoves,
         PodWaitEnds, ServicePodWaitEnds, ForwardPort
<1>2. ASSUME life' = "crashed", NEW s \in Steps PROVE at'[s] \in {"idle", "done"}
  <2>1. CASE life = "crashed"
    BY <1>0, <2>1, CallsBegin DEF Settled, RunStep
  <2>2. CASE BackendCrashes
    BY <2>2 DEF BackendCrashes
  <2> QED BY <1>0, <1>2, <2>1, <2>2, EndsByCrashOrRelease
<1>3. ASSUME life' = "released", NEW s \in Steps, after'[s] = "no" PROVE at'[s] \in {"idle", "done"}
  <2>1. CASE life = "released"
    <3>1. ~RunStep(s)
      BY <1>0, <1>3, <2>1 DEF RunStep, BackendsTyped
    <3>2. at[s] \in {"idle", "done"}
      BY <1>0, <1>3, <2>1, AfterTheRelease DEF Settled
    <3> QED BY <1>0, <3>1, <3>2, CallsBegin
  <2>2. CASE RemoveAll
    BY <1>3, <2>2 DEF RemoveAll
  <2> QED BY <1>0, <1>3, <2>1, <2>2, EndsByCrashOrRelease
<1> QED BY <1>0, <1>1, <1>2, <1>3 DEF Settled

\* What a release leaves nothing of stays gone.
LEMMA ReleaseStep ==
    ASSUME BackendsInv, [BackendsNext]_vars
    PROVE  ReleasedLeavesNothing'
<1>0. BackendsTyped /\ ReleasedLeavesNothing /\ \A s \in Steps : Kept(s)
  BY DEF BackendsInv, StepInv
<1> SUFFICES ASSUME life' = "released" PROVE ReleasedLeavesNothing'
  BY DEF ReleasedLeavesNothing
<1>1. CASE RemoveAll
  <2>1. RemoveBoxes /\ net' # "yes"
    BY <1>1 DEF RemoveAll, DestroySharedObjects, RemoveExecutionNetwork, RemoveNet
  <2>2. \A s \in Steps : box'[s] = "absent" \/ s \in unremoved'
    BY <2>1 DEF RemoveBoxes
  <2>4. \A s \in Steps : forwards'[s] = 0
    BY <1>0, <1>1
    DEF RemoveAll, DestroySharedObjects, RemoveExecutionNetwork, CloseForwards, Kept, BackendsTyped
  <2> QED BY <2>1, <2>2, <2>4 DEF ReleasedLeavesNothing
<1>2. CASE life = "released"
  BY <1>0, <1>2, AfterTheRelease DEF ReleasedLeavesNothing
<1> QED BY <1>0, <1>1, <1>2, EndsByCrashOrRelease

-----------------------------------------------------------------------------
(* Theorems *)

\* The invariant holds in every state of the backends.
THEOREM BackendsInvariant == BackendsSpec => []BackendsInv
<1>1. BackendsInv /\ [BackendsNext]_vars => BackendsInv'
  BY BackendsTypeStep, SettledStep, ReleaseStep, StepInvStep DEF BackendsInv
<1> QED BY <1>1, BackendsInvInit, PTL DEF BackendsSpec

\* Every container or pod has someone who will remove it, also after failed
\* starts, waits and forwards (docker_exec.go, kubernetes_pods.go).
THEOREM BoxesOwned == BackendsSpec => []EveryBoxHasAnOwner
<1>1. BackendsInv => EveryBoxHasAnOwner
  BY DEF BackendsInv, StepInv, Owned, EveryBoxHasAnOwner
<1> QED BY <1>1, BackendsInvariant, PTL

\* After a release or reap there is no box, network or port-forward but what the
\* daemon failed to remove and what a step that was not waited for brings
\* (RemoveExecutionNetwork, DestroyExecution, Close, a lapsed lease).
THEOREM ReleaseIsComplete == BackendsSpec => []ReleasedLeavesNothing
<1>1. BackendsInv => ReleasedLeavesNothing
  BY DEF BackendsInv
<1> QED BY <1>1, BackendsInvariant, PTL

\* No step with a container passes on less than that container's exit code 0,
\* or, for a service, its start (runInDocker, runPod).
THEOREM PassesOnlyIfRan == BackendsSpec => []PassedMeansRan
<1>1. BackendsInv => PassedMeansRan
  BY DEF BackendsInv, StepInv, Reached, PassedMeansRan
<1> QED BY <1>1, BackendsInvariant, PTL

\* Nothing but the end of the execution removes the box of a running service
\* that was reported started (the keeper in docker_exec.go, cmd/agent).
THEOREM ServicesStayUp == BackendsSpec => ServiceStaysUp
<1> DEFINE Stays == \A s \in Steps :
          result[s] = "ok" /\ box[s] = "running" /\ box'[s] = "absent" => life' = "released"
<1>1. BackendsInv /\ [BackendsNext]_vars => [Stays]_vars
  <2> SUFFICES ASSUME BackendsInv, BackendsNext, NEW s \in Steps,
                      result[s] = "ok", box[s] = "running", box'[s] = "absent"
               PROVE  life' = "released"
    BY DEF vars
  <2>0. BackendsTyped /\ Settled /\ at[s] = "done" /\ (keeper[s] => IsDetachedService(s) /\ backend # "kubernetes")
    BY DEF BackendsInv, StepInv, Called, Kept
  <2>1. CASE DestroyExecution \/ Reap
    BY <2>1 DEF DestroyExecution, Reap, RemoveAll
  <2>2. ASSUME NEW u \in Steps, BoxStep(u), ~KeeperRemoves(u) PROVE FALSE
    <3>1. CASE u = s
      BY <2>0, <2>2, <3>1
      DEF BoxStep, CreateContainer, CreatePod, StartBox, PodAdmitted, PodStartFailure, BoxExits,
          ContainerWaitEnds, CrashWindowEnds, PodWaitEnds, ServicePodWaitEnds, ForwardPort, BackendsTyped
    <3>2. CASE u # s
      BY <2>0, <2>2, <3>2
      DEF BoxStep, CreateContainer, CreatePod, StartBox, RemoveUnstarted, Remove, PodAdmitted,
          PodStartFailure, BoxExits, ContainerWaitEnds, CrashWindowEnds, PodWaitEnds,
          ServicePodWaitEnds, ForwardPort, BackendsTyped
    <3> QED BY <3>1, <3>2
  <2>3. ASSUME NEW u \in Steps, KeeperRemoves(u) PROVE life' = "released"
    <3>1. u = s /\ keeper[s] /\ life' = life /\ StepContextEnded(s)
      BY <2>0, <2>3 DEF KeeperRemoves, KeeperWakes, Remove, BackendsTyped
    <3>2. backend = "remote"
      BY <2>0, <3>1 DEF StepContextEnded, Settled
    <3> QED BY <2>0, <3>1, <3>2 DEF StepContextEnded
  <2> QED
    BY <2>1, <2>2, <2>3
    DEF BackendsNext, SetupExecution, DockerPinged, BackendCrashes, RunStep, SimulatedEnds, JobContextEnds
<1> QED BY <1>1, BackendsInvariant, PTL DEF BackendsSpec, ServiceStaysUp

-----------------------------------------------------------------------------
(* Traffic steps (LoadStep.tla): what a histogram says of its samples *)

\* A set of naturals has a least element, and a greatest one if it is bounded.
LEMMA LeastOf ==
  ASSUME NEW S \in SUBSET Nat, S # {}
  PROVE  \E x \in S : \A y \in S : x <= y
  <1> DEFINE Less == {ss \in Nat \X Nat : ss[1] < ss[2]}
  <1>1. Less = OpToRel(<, Nat)
    BY Zenon DEF OpToRel
  <1>2. IsWellFoundedOn(Less, Nat)
    BY <1>1, NatLessThanWellFounded, Zenon
  <1>3. PICK x \in S : \A y \in S : <<y, x>> \notin Less
    <2> HIDE DEF Less
    <2>1. QED
      BY <1>2, WFMin
  <1>4. ASSUME NEW y \in S PROVE x <= y
    <2>1. x \in Nat /\ y \in Nat
      OBVIOUS
    <2>2. y < x => <<y, x>> \in Less
      BY <2>1
    <2>3. QED
      BY <1>3, <2>1, <2>2
  <1>5. QED
    BY <1>4

LEMMA GreatestOf ==
  ASSUME NEW S \in SUBSET Nat, S # {}, NEW bound \in Nat, \A y \in S : y <= bound
  PROVE  \E x \in S : \A y \in S : y <= x
  <1> DEFINE gaps == {d \in Nat : bound - d \in S}
  <1>1. PICK z \in S : TRUE
    OBVIOUS
  <1>2. bound - z \in gaps
    <2>1. z \in Nat /\ z <= bound
      OBVIOUS
    <2>2. bound - z \in Nat /\ bound - (bound - z) = z
      BY <2>1
    <2>3. QED
      BY <2>2
  <1>3. PICK d \in gaps : \A e \in gaps : d <= e
    <2>1. gaps \in SUBSET Nat /\ gaps # {}
      BY <1>2
    <2> HIDE DEF gaps
    <2>2. QED
      BY <2>1, LeastOf
  <1>4. ASSUME NEW y \in S PROVE y <= bound - d
    <2>1. y \in Nat /\ y <= bound /\ d \in Nat
      OBVIOUS
    <2>2. bound - y \in gaps
      <3>1. bound - y \in Nat /\ bound - (bound - y) = y
        BY <2>1
      <3>2. QED
        BY <3>1
    <2>3. d <= bound - y
      BY <1>3, <2>2
    <2>4. QED
      BY <2>1, <2>3
  <1>5. QED
    BY <1>4

\* A bucket is a natural that its latencies do not fall below nor more than
\* double, and buckets are in the order of their latencies.
LEMMA BucketBounds ==
  ASSUME NEW ms \in Nat
  PROVE  /\ BucketLatencyMs(ms) \in Nat
         /\ BucketLatencyMs(ms) <= ms /\ ms <= 2 * BucketLatencyMs(ms)
  BY DEF BucketLatencyMs, MaxOf

LEMMA BucketsInOrder ==
  ASSUME NEW low \in Nat, NEW high \in Nat, low <= high
  PROVE  BucketLatencyMs(low) <= BucketLatencyMs(high)
  BY DEF BucketLatencyMs, MaxOf

\* The histogram counts exactly these samples, each in the bucket of its latency.
HistogramOf(b, s) ==
    /\ b.count = Len(s) /\ b.maxMs \in Nat
    /\ DOMAIN b.m = {BucketLatencyMs(s[i]) : i \in 1..Len(s)}
    /\ \A k \in DOMAIN b.m : b.m[k] = {i \in 1..Len(s) : BucketLatencyMs(s[i]) = k}
    /\ \A i \in 1..Len(s) : s[i] <= b.maxMs
    /\ IF s = <<>> THEN b.maxMs = 0 ELSE \E i \in 1..Len(s) : s[i] = b.maxMs

LEMMA EmptyHistogram ==
  HistogramOf(NoLatencies, <<>>)
  <1>1. NoLatencies.count = 0 /\ NoLatencies.maxMs = 0 /\ DOMAIN NoLatencies.m = {}
    BY DEF NoLatencies, NoMap
  <1>2. Len(<<>>) = 0 /\ 1..0 = {}
    OBVIOUS
  <1>3. QED
    BY <1>1, <1>2 DEF HistogramOf

LEMMA AddKeepsHistogram ==
  ASSUME NEW b, NEW s \in Seq(Nat), HistogramOf(b, s), NEW ms \in Nat
  PROVE  HistogramOf(AddMs(b, ms), Append(s, ms))
  <1> DEFINE t == Append(s, ms)
             n == Len(s)
             key == BucketLatencyMs(ms)
             c == AddMs(b, ms)
  <1>1. /\ n \in Nat /\ Len(t) = n + 1 /\ t # <<>> /\ t[n + 1] = ms
        /\ \A i \in 1..n : t[i] = s[i] /\ s[i] \in Nat
        /\ 1..(n + 1) = (1..n) \cup {n + 1}
    OBVIOUS
  <1>2. /\ c.m = Count(b.m, key, n + 1) /\ c.count = n + 1 /\ c.maxMs = MaxOf(b.maxMs, ms)
    BY DEF AddMs, HistogramOf
  <1>3. c.count = Len(t) /\ c.maxMs \in Nat
    BY <1>1, <1>2 DEF MaxOf, HistogramOf
  <1>4. DOMAIN c.m = DOMAIN b.m \cup {key}
    BY <1>2 DEF Count
  <1> HIDE DEF t, n, key, c
  <1>5. DOMAIN c.m = {BucketLatencyMs(t[i]) : i \in 1..Len(t)}
    <2>1. {BucketLatencyMs(t[i]) : i \in 1..Len(t)} = {BucketLatencyMs(s[i]) : i \in 1..n} \cup {BucketLatencyMs(ms)}
      BY <1>1
    <2>2. QED
      BY <1>4, <2>1 DEF HistogramOf, n, key
  <1>6. ASSUME NEW k \in DOMAIN c.m
        PROVE  c.m[k] = {i \in 1..Len(t) : BucketLatencyMs(t[i]) = k}
    <2>1. c.m[k] = (IF k \in DOMAIN b.m THEN b.m[k] ELSE {}) \cup (IF k = key THEN {n + 1} ELSE {})
      BY <1>2, <1>4 DEF Count
    <2>2. (IF k \in DOMAIN b.m THEN b.m[k] ELSE {}) = {i \in 1..n : BucketLatencyMs(s[i]) = k}
      BY DEF HistogramOf, n
    <2>3. {i \in 1..Len(t) : BucketLatencyMs(t[i]) = k}
             = {i \in 1..n : BucketLatencyMs(s[i]) = k} \cup (IF k = key THEN {n + 1} ELSE {})
      BY <1>1 DEF key
    <2>4. QED
      BY <2>1, <2>2, <2>3
  <1>7. \A i \in 1..Len(t) : t[i] <= c.maxMs
    <2>1. b.maxMs \in Nat /\ \A i \in 1..n : s[i] <= b.maxMs
      BY DEF HistogramOf, n
    <2>2. c.maxMs \in Nat /\ b.maxMs <= c.maxMs /\ ms <= c.maxMs
      BY <1>2, <2>1 DEF MaxOf
    <2>3. QED
      BY <1>1, <2>1, <2>2
  <1>8. \E i \in 1..Len(t) : t[i] = c.maxMs
    <2>1. CASE b.maxMs >= ms /\ s # <<>>
      <3>1. PICK i \in 1..n : s[i] = b.maxMs
        BY <2>1 DEF HistogramOf, n
      <3>2. t[i] = c.maxMs /\ i \in 1..Len(t)
        BY <1>1, <1>2, <2>1, <3>1 DEF MaxOf
      <3>3. QED
        BY <3>2
    <2>2. CASE ~(b.maxMs >= ms)
      BY <1>1, <1>2, <2>2 DEF MaxOf
    <2>3. CASE s = <<>>
      BY <1>1, <1>2, <2>3 DEF MaxOf, HistogramOf
    <2>4. QED
      BY <2>1, <2>2, <2>3
  <1>9. HistogramOf(c, t)
    BY <1>1, <1>3, <1>5, <1>6, <1>7, <1>8 DEF HistogramOf
  <1>10. QED
    BY <1>9 DEF t, c

\* The samples counted up to a bucket are those whose latency is in that bucket
\* or a lower one.
UpTo(b, k) == UNION {b.m[j] : j \in {i \in DOMAIN b.m : i <= k}}

LEMMA UpToCounts ==
  ASSUME NEW b, NEW s \in Seq(Nat), HistogramOf(b, s), NEW k \in Nat
  PROVE  UpTo(b, k) = {i \in 1..Len(s) : BucketLatencyMs(s[i]) <= k}
  <1>1. ASSUME NEW i \in UpTo(b, k) PROVE i \in 1..Len(s) /\ BucketLatencyMs(s[i]) <= k
    <2>1. PICK j \in DOMAIN b.m : j <= k /\ i \in b.m[j]
      BY DEF UpTo
    <2>2. QED
      BY <2>1 DEF HistogramOf
  <1>2. ASSUME NEW i \in 1..Len(s), BucketLatencyMs(s[i]) <= k PROVE i \in UpTo(b, k)
    <2>1. BucketLatencyMs(s[i]) \in DOMAIN b.m /\ i \in b.m[BucketLatencyMs(s[i])]
      BY DEF HistogramOf
    <2>2. QED
      BY <1>2, <2>1 DEF UpTo
  <1>3. QED
    BY <1>1, <1>2

\* More samples are counted than subsets of them, never more than there are.
LEMMA CountsGrow ==
  ASSUME NEW n \in Nat, NEW S, NEW T, S \subseteq T, T \subseteq 1..n
  PROVE  /\ Cardinality(S) \in Nat /\ Cardinality(T) \in Nat
         /\ Cardinality(S) <= Cardinality(T) /\ Cardinality(1..n) = n
  <1>1. IsFiniteSet(1..n) /\ Cardinality(1..n) = n
    BY FS_Interval
  <1>2. IsFiniteSet(T) /\ IsFiniteSet(S)
    BY <1>1, FS_Subset
  <1>3. Cardinality(S) <= Cardinality(T)
    BY <1>2, FS_Subset
  <1>4. QED
    BY <1>1, <1>2, <1>3, FS_CardinalityType

\* How many samples are at most ms, and the least sample that reaches a rank.
Ranked(s, ms) == Cardinality({i \in DOMAIN s : s[i] <= ms})
Exact(s, target) ==
    CHOOSE ms \in Range(s) : Ranked(s, ms) >= target /\ \A o \in Range(s) : Ranked(s, o) >= target => ms <= o

LEMMA ExactExists ==
  ASSUME NEW b, NEW s \in Seq(Nat), HistogramOf(b, s), NEW target \in 1..Len(s)
  PROVE  /\ Exact(s, target) \in Range(s) /\ Exact(s, target) \in Nat
         /\ Ranked(s, Exact(s, target)) >= target
         /\ \A o \in Range(s) : Ranked(s, o) >= target => Exact(s, target) <= o
  <1> DEFINE good == {ms \in Range(s) : Ranked(s, ms) >= target}
  <1>1. DOMAIN s = 1..Len(s) /\ Len(s) \in Nat /\ Range(s) = {s[i] : i \in 1..Len(s)} /\ Range(s) \subseteq Nat
    BY DEF Range
  <1>2. b.maxMs \in good
    <2>0. s # <<>>
      BY <1>1
    <2>1. PICK i \in 1..Len(s) : s[i] = b.maxMs
      BY <2>0, Zenon DEF HistogramOf
    <2>2. {j \in DOMAIN s : s[j] <= b.maxMs} = 1..Len(s)
      BY <1>1 DEF HistogramOf
    <2>3. Ranked(s, b.maxMs) = Len(s)
      BY <1>1, <2>2, CountsGrow DEF Ranked
    <2>4. b.maxMs \in Range(s)
      BY <1>1, <2>1
    <2>5. QED
      BY <1>1, <2>3, <2>4
  <1>3. \E ms \in good : \A o \in good : ms <= o
    <2>1. good \in SUBSET Nat /\ good # {}
      BY <1>1, <1>2
    <2> HIDE DEF good
    <2>2. QED
      BY <2>1, LeastOf
  <1>4. \E ms \in Range(s) : Ranked(s, ms) >= target /\ \A o \in Range(s) : Ranked(s, o) >= target => ms <= o
    BY <1>3
  <1>5. /\ Exact(s, target) \in Range(s) /\ Ranked(s, Exact(s, target)) >= target
        /\ \A o \in Range(s) : Ranked(s, o) >= target => Exact(s, target) <= o
    BY <1>4, Zenon DEF Exact
  <1>6. QED
    BY <1>1, <1>5

\* The first bucket up to which enough samples are counted is the bucket of the
\* sample that has the rank.
Reach(b, target) == {k \in DOMAIN b.m : Cardinality(UpTo(b, k)) >= target}

LEMMA FirstBucketIsExact ==
  ASSUME NEW b, NEW s \in Seq(Nat), HistogramOf(b, s), NEW target \in 1..Len(s)
  PROVE  /\ BucketLatencyMs(Exact(s, target)) \in Reach(b, target)
         /\ \A k \in Reach(b, target) : BucketLatencyMs(Exact(s, target)) <= k
         /\ Reach(b, target) \subseteq Nat
  <1> DEFINE reach == {k \in DOMAIN b.m : Cardinality(UpTo(b, k)) >= target}
             exact == Exact(s, target)
             top == BucketLatencyMs(exact)
             below(ms) == {i \in 1..Len(s) : s[i] <= ms}
             counted(k) == {i \in 1..Len(s) : BucketLatencyMs(s[i]) <= k}
  <1>1. DOMAIN s = 1..Len(s) /\ Len(s) \in Nat /\ Range(s) = {s[i] : i \in 1..Len(s)}
        /\ \A i \in 1..Len(s) : s[i] \in Nat
    BY DEF Range
  <1>2. /\ exact \in Range(s) /\ exact \in Nat /\ Ranked(s, exact) >= target
        /\ \A o \in Range(s) : Ranked(s, o) >= target => exact <= o
    BY ExactExists
  <1>3. /\ DOMAIN b.m = {BucketLatencyMs(s[i]) : i \in 1..Len(s)}
        /\ \A k \in DOMAIN b.m : k \in Nat /\ UpTo(b, k) = counted(k)
    <2>1. DOMAIN b.m = {BucketLatencyMs(s[i]) : i \in 1..Len(s)}
      BY DEF HistogramOf
    <2>2. ASSUME NEW k \in DOMAIN b.m PROVE k \in Nat
      BY <1>1, <2>1, BucketBounds
    <2>3. QED
      BY <2>1, <2>2, UpToCounts
  <1> HIDE DEF exact
  <1>4. top \in reach
    <2>1. top \in DOMAIN b.m
      BY <1>1, <1>2, <1>3
    <2>2. below(exact) \subseteq counted(top)
      BY <1>1, <1>2, BucketsInOrder
    <2>3. Ranked(s, exact) = Cardinality(below(exact))
      BY <1>1 DEF Ranked
    <2>4. /\ Cardinality(below(exact)) \in Nat /\ Cardinality(counted(top)) \in Nat
          /\ Cardinality(below(exact)) <= Cardinality(counted(top))
      <3> HIDE DEF top
      <3>1. counted(top) \subseteq 1..Len(s)
        OBVIOUS
      <3> HIDE DEF below, counted
      <3>2. QED
        BY <1>1, <2>2, <3>1, CountsGrow
    <2>5. Cardinality(counted(top)) >= target
      BY <1>2, <2>3, <2>4
    <2>6. QED
      BY <1>3, <2>1, <2>5
  <1>5. ASSUME NEW k \in reach PROVE top <= k
    <2>1. k \in DOMAIN b.m /\ k \in Nat /\ Cardinality(counted(k)) >= target
      BY <1>3
    <2> DEFINE lower == {s[i] : i \in counted(k)}
    <2>2. lower \in SUBSET Nat /\ lower # {}
      <3>1. PICK i \in 1..Len(s) : k = BucketLatencyMs(s[i])
        BY <1>3, <2>1
      <3>2. i \in counted(k)
        BY <2>1, <3>1
      <3>3. QED
        BY <1>1, <3>2
    <2>3. \A y \in lower : y <= 2 * k
      <3>1. ASSUME NEW i \in counted(k) PROVE s[i] <= 2 * k
        <4>1. s[i] \in Nat /\ BucketLatencyMs(s[i]) <= k
          BY <1>1
        <4>2. BucketLatencyMs(s[i]) \in Nat /\ s[i] <= 2 * BucketLatencyMs(s[i])
          BY <4>1, BucketBounds
        <4>3. QED
          BY <2>1, <4>1, <4>2
      <3>2. QED
        BY <3>1
    <2>4. PICK e \in lower : \A y \in lower : y <= e
      <3> HIDE DEF lower
      <3>1. 2 * k \in Nat
        BY <2>1
      <3>2. QED
        BY <2>2, <2>3, <3>1, GreatestOf
    <2>5. e \in Range(s) /\ e \in Nat /\ BucketLatencyMs(e) <= k
      BY <1>1, <2>2, <2>4
    <2>6. counted(k) \subseteq below(e)
      BY <2>4
    <2>7. Ranked(s, e) >= target
      <3>1. Ranked(s, e) = Cardinality(below(e))
        BY <1>1 DEF Ranked
      <3>2. /\ Cardinality(counted(k)) \in Nat /\ Cardinality(below(e)) \in Nat
            /\ Cardinality(counted(k)) <= Cardinality(below(e))
        <4>1. below(e) \subseteq 1..Len(s)
          OBVIOUS
        <4> HIDE DEF below, counted
        <4>2. QED
          BY <1>1, <2>6, <4>1, CountsGrow
      <3>3. QED
        BY <2>1, <3>1, <3>2
    <2>8. exact <= e
      BY <1>2, <2>5, <2>7
    <2>9. top <= BucketLatencyMs(e)
      BY <1>2, <2>5, <2>8, BucketsInOrder
    <2>10. top \in Nat /\ BucketLatencyMs(e) \in Nat
      BY <1>2, <2>5, BucketBounds
    <2>11. QED
      BY <2>1, <2>5, <2>9, <2>10
  <1>6. QED
    BY <1>3, <1>4, <1>5 DEF exact, Reach

\* The percentiles the code asks for, and the rank of one, rounded up, which is
\* the rank of some sample.
Percents == {50, 90, 95, 99}
RoundUp(p, n) == (p * n + 99) \div 100

LEMMA RankInRange ==
  ASSUME NEW p \in Percents, NEW n \in Nat \ {0}
  PROVE  Rank(p, n) = RoundUp(p, n) /\ RoundUp(p, n) \in 1..n
  <1>1. CASE p = 50
    BY <1>1 DEF Rank, MaxOf, RoundUp
  <1>2. CASE p = 90
    BY <1>2 DEF Rank, MaxOf, RoundUp
  <1>3. CASE p = 95
    BY <1>3 DEF Rank, MaxOf, RoundUp
  <1>4. CASE p = 99
    BY <1>4 DEF Rank, MaxOf, RoundUp
  <1>5. QED
    BY <1>1, <1>2, <1>3, <1>4 DEF Percents

\* A percentile read from a histogram is the bucket of the sample of that rank.
LEMMA PercentileExact ==
  ASSUME NEW b, NEW s \in Seq(Nat), HistogramOf(b, s), s # <<>>, NEW p \in Percents
  PROVE  Percentile(b, p) = BucketLatencyMs(Exact(s, RoundUp(p, Len(s))))
  <1> DEFINE target == Rank(p, b.count)
             reach == Reach(b, target)
             top == BucketLatencyMs(Exact(s, target))
  <1>1. Len(s) \in Nat \ {0} /\ b.count = Len(s) /\ b.count # 0
    BY DEF HistogramOf
  <1>2. target = RoundUp(p, Len(s)) /\ target \in 1..Len(s)
    BY <1>1, RankInRange
  <1>3. top \in reach /\ (\A k \in reach : top <= k) /\ reach \subseteq Nat
    BY <1>2, FirstBucketIsExact
  <1>4. Percentile(b, p) = IF reach = {} THEN CHOOSE k \in DOMAIN b.m : \A j \in DOMAIN b.m : j <= k
                           ELSE CHOOSE k \in reach : \A j \in reach : k <= j
    BY <1>1, Zenon DEF Percentile, UpTo, Reach
  <1> HIDE DEF reach, top
  <1>5. (CHOOSE k \in reach : \A j \in reach : k <= j) = top
    <2>1. PICK k \in reach : k = (CHOOSE x \in reach : \A j \in reach : x <= j) /\ \A j \in reach : k <= j
      BY <1>3, Zenon
    <2>2. k \in Nat /\ top \in Nat /\ k <= top /\ top <= k
      BY <1>3, <2>1
    <2>3. QED
      BY <2>1, <2>2
  <1>6. Percentile(b, p) = top
    BY <1>3, <1>4, <1>5
  <1>7. QED
    BY <1>2, <1>6 DEF top, target
-----------------------------------------------------------------------------
(* Traffic steps: the verdict *)

\* The runner's own traffic never fails and its histogram is that of its
\* samples; what the sidecar reports has no samples, and passes with failures
\* only where the plan names an error rate.
LoadIndInv ==
    /\ samples \in Seq(Nat)
    /\ stats = [requests |-> stats.requests, failures |-> stats.failures, peakUsers |-> stats.peakUsers,
                lat |-> stats.lat, perSecond |-> stats.perSecond, samplers |-> stats.samplers, stages |-> stats.stages,
                seconds |-> stats.seconds]
    /\ ~UsesSidecar => HistogramOf(stats.lat, samples) /\ stats.failures = 0 /\ stats.requests = Len(samples)
    /\ UsesSidecar => samples = <<>> /\ due = 0
    /\ UsesSidecar /\ verdict = "ok" =>
          stats.failures = 0 \/ \E t \in plan.thresholds : t.metric = "error_rate"
    /\ SilencePassesNoLimit

LEMMA LoadStarts == LoadInit => LoadIndInv
  BY EmptyHistogram DEF LoadInit, LoadIndInv, NoStats, SilencePassesNoLimit

\* The default threshold: without an error rate of its own a plan holds only
\* when nothing failed.
LEMMA DefaultErrorRate ==
  ASSUME NEW st, st.failures \in Nat, st.requests \in Nat, st.failures <= st.requests, ThresholdsHold(st)
  PROVE  st.failures = 0 \/ \E t \in plan.thresholds : t.metric = "error_rate"
  <1> SUFFICES ASSUME ~ \E t \in plan.thresholds : t.metric = "error_rate"
               PROVE  st.failures = 0
    OBVIOUS
  <1> DEFINE zero == [metric |-> "error_rate", op |-> "<=", value |-> 0, sampler |-> "all"]
  <1>1. zero \in Thresholds
    BY DEF Thresholds
  <1>2. ThresholdHolds(st, zero)
    BY <1>1 DEF ThresholdsHold
  <1>3. Compare(ErrorRate(st), "<=", 0)
    BY <1>2 DEF ThresholdHolds
  <1>4. ErrorRate(st)[1] <= 0 * ErrorRate(st)[2]
    BY <1>3 DEF Compare
  <1>5. QED
    BY <1>4 DEF ErrorRate

\* A limit of a latency holds only of a histogram that has counted something.
LEMMA LimitNeedsSamples ==
  ASSUME NEW st, ThresholdsHold(st), NEW t \in plan.thresholds, t.metric \in LatencyMetrics, t.sampler = "all"
  PROVE  st.lat.count > 0
  <1>1. ThresholdHolds(st, t)
    BY DEF ThresholdsHold, Thresholds
  <1>2. HasMetric(st, t)
    BY <1>1 DEF ThresholdHolds
  <1>3. QED
    BY <1>2 DEF HasMetric

LEMMA LoadStepsKeep == LoadIndInv /\ [LoadNext]_loadVars => LoadIndInv'
  <1> SUFFICES ASSUME LoadIndInv, [LoadNext]_loadVars PROVE LoadIndInv'
    OBVIOUS
  <1>1. CASE BeginStage
    <2>1. ~UsesSidecar /\ ~UsesSidecar' /\ plan' = plan
      BY <1>1 DEF BeginStage, UsesSidecar
    <2>2. CASE plan.variant = "scalability"
      <3>1. /\ samples' = <<>> /\ stats'.lat = NoLatencies /\ stats'.failures = 0 /\ stats'.requests = 0
            /\ verdict' = "running"
            /\ stats' = [requests |-> stats'.requests, failures |-> stats'.failures, peakUsers |-> stats'.peakUsers,
                         lat |-> stats'.lat, perSecond |-> stats'.perSecond, samplers |-> stats'.samplers, stages |-> stats'.stages,
                seconds |-> stats'.seconds]
        BY <1>1, <2>2 DEF BeginStage, NoStats
      <3>2. QED
        BY <2>1, <3>1, EmptyHistogram DEF LoadIndInv, SilencePassesNoLimit
    <2>3. CASE plan.variant # "scalability"
      <3>1. /\ samples' = samples /\ stats'.lat = stats.lat /\ stats'.failures = stats.failures
            /\ stats'.requests = stats.requests /\ verdict' = "running"
            /\ stats' = [requests |-> stats'.requests, failures |-> stats'.failures, peakUsers |-> stats'.peakUsers,
                         lat |-> stats'.lat, perSecond |-> stats'.perSecond, samplers |-> stats'.samplers, stages |-> stats'.stages,
                seconds |-> stats'.seconds]
        BY <1>1, <2>3 DEF BeginStage, LoadIndInv
      <3>2. QED
        BY <2>1, <3>1 DEF LoadIndInv, SilencePassesNoLimit
    <2>4. QED
      BY <2>2, <2>3
  <1>2. CASE SyntheticResult
    <2>1. ~UsesSidecar /\ ~UsesSidecar'
      BY <1>2 DEF SyntheticResult, UsesSidecar, LoadIndInv
    <2>1a. PICK x \in SyntheticSamples :
             stats' = RecordResult(stats, x[1], x[2], FALSE) /\ samples' = Append(samples, x[2])
      BY <1>2 DEF SyntheticResult
    <2> DEFINE ms == x[2]
    <2>2. stats' = RecordResult(stats, x[1], ms, FALSE) /\ samples' = Append(samples, ms)
      BY <2>1a
    <2>3. ms \in Nat
      <3>1. (ms = 45) \/ (ms \in Latencies)
        BY <2>1a DEF SyntheticSamples
      <3>2. 45 \in Nat /\ Latencies \subseteq Nat
        BY LoadAssumption
      <3>3. QED
        BY <3>1, <3>2, Zenon
    <2> HIDE DEF ms
    <2>4. /\ stats'.lat = AddMs(stats.lat, ms) /\ stats'.failures = stats.failures
          /\ stats'.requests = stats.requests + 1
          /\ stats' = [requests |-> stats'.requests, failures |-> stats'.failures, peakUsers |-> stats'.peakUsers,
                       lat |-> stats'.lat, perSecond |-> stats'.perSecond, samplers |-> stats'.samplers, stages |-> stats'.stages,
                seconds |-> stats'.seconds]
      BY <2>2 DEF RecordResult, LoadIndInv
    <2>5. HistogramOf(stats.lat, samples)' /\ stats'.failures = 0
      BY <2>1, <2>2, <2>3, <2>4, AddKeepsHistogram DEF LoadIndInv
    <2>6. samples' \in Seq(Nat) /\ Len(samples') = Len(samples) + 1
      BY <2>2, <2>3 DEF LoadIndInv
    <2>7. SilencePassesNoLimit'
      BY <1>2 DEF SyntheticResult, SilencePassesNoLimit
    <2>8. QED
      BY <2>1, <2>4, <2>5, <2>6, <2>7 DEF LoadIndInv
  <1>3. CASE LoadCanceled
    BY <1>3 DEF LoadCanceled, LoadIndInv, UsesSidecar, SilencePassesNoLimit
  <1>4. CASE EndStage
    <2>1. UsesSidecar => verdict' = verdict
      BY <1>4 DEF EndStage, UsesSidecar
    <2>2. QED
      BY <1>4, <2>1 DEF EndStage, LoadIndInv, UsesSidecar, SilencePassesNoLimit
  <1>5. CASE SidecarAnswers
    <2>1. /\ UsesSidecar /\ UsesSidecar' /\ UNCHANGED <<plan, samples, due>>
      BY <1>5 DEF SidecarAnswers, UsesSidecar
    <2>2. CASE verdict' = "failed" /\ UNCHANGED stats
      BY <2>1, <2>2 DEF LoadIndInv, SilencePassesNoLimit
    <2>3. CASE \E lo \in Latencies, hi \in Latencies, n \in Totals, sec \in Seconds : \E f \in 0..n :
                  /\ lo <= hi
                  /\ stats' = ApplyAPISIXResult(stats,
                        [total |-> n, failures |-> f, min |-> lo, p50 |-> lo, p95 |-> hi, p99 |-> hi, max |-> hi, seconds |-> sec])
                  /\ verdict' = IF ThresholdsHold(stats') THEN "ok" ELSE "failed"
      <3>1. PICK lo \in Latencies, hi \in Latencies, n \in Totals, sec \in Seconds : \E f \in 0..n :
                  /\ lo <= hi
                  /\ stats' = ApplyAPISIXResult(stats,
                        [total |-> n, failures |-> f, min |-> lo, p50 |-> lo, p95 |-> hi, p99 |-> hi, max |-> hi, seconds |-> sec])
                  /\ verdict' = IF ThresholdsHold(stats') THEN "ok" ELSE "failed"
        BY <2>3
      <3>2. PICK f \in 0..n :
                  /\ stats' = ApplyAPISIXResult(stats,
                        [total |-> n, failures |-> f, min |-> lo, p50 |-> lo, p95 |-> hi, p99 |-> hi, max |-> hi, seconds |-> sec])
                  /\ verdict' = IF ThresholdsHold(stats') THEN "ok" ELSE "failed"
        BY <3>1
      <3>3. /\ stats'.failures = f /\ stats'.requests = n
            /\ stats' = [requests |-> stats'.requests, failures |-> stats'.failures, peakUsers |-> stats'.peakUsers,
                         lat |-> stats'.lat, perSecond |-> stats'.perSecond, samplers |-> stats'.samplers, stages |-> stats'.stages,
                seconds |-> stats'.seconds]
        BY <3>2 DEF ApplyAPISIXResult, LoadIndInv
      <3>4. n \in Nat /\ f \in Nat /\ f <= n
        BY LoadAssumption
      <3>5. ThresholdsHold(stats') => stats'.failures = 0 \/ \E t \in plan.thresholds : t.metric = "error_rate"
        BY <3>3, <3>4, DefaultErrorRate
      <3>6. n = 0 => stats'.lat.count = 0
        BY <3>2 DEF ApplyAPISIXResult, SyntheticBuckets, NoLatencies, LoadIndInv
      <3>7. SilencePassesNoLimit'
        <4> SUFFICES ASSUME verdict' = "ok", NEW t \in plan.thresholds, t.metric \in LatencyMetrics, t.sampler = "all"
                     PROVE  stats'.requests > 0
          BY <2>1 DEF SilencePassesNoLimit
        <4>1. ThresholdsHold(stats')
          BY <3>2
        <4>2. stats'.lat.count > 0
          BY <4>1, LimitNeedsSamples
        <4>3. QED
          BY <3>3, <3>4, <3>6, <4>2
      <3>8. QED
        BY <2>1, <3>2, <3>3, <3>5, <3>7 DEF LoadIndInv
    <2>4. QED
      BY <1>5, <2>2, <2>3 DEF SidecarAnswers
  <1>6. CASE FinalizeLoadStep
    <2>1. ~UsesSidecar /\ ~UsesSidecar' /\ UNCHANGED <<plan, stats, samples>>
      BY <1>6 DEF FinalizeLoadStep, UsesSidecar
    <2>2. SilencePassesNoLimit'
      <3> SUFFICES ASSUME verdict' = "ok", NEW t \in plan.thresholds, t.metric \in LatencyMetrics, t.sampler = "all"
                   PROVE  stats.requests > 0
        BY <2>1 DEF SilencePassesNoLimit
      <3>1. ThresholdsHold(stats)
        BY <1>6 DEF FinalizeLoadStep
      <3>2. stats.lat.count > 0
        BY <3>1, LimitNeedsSamples
      <3>3. stats.lat.count = Len(samples) /\ stats.requests = Len(samples)
        BY <2>1 DEF LoadIndInv, HistogramOf
      <3>4. QED
        BY <3>2, <3>3
    <2>3. QED
      BY <2>1, <2>2 DEF LoadIndInv
  <1>7. CASE UNCHANGED loadVars
    BY <1>7 DEF loadVars, LoadIndInv, UsesSidecar, SilencePassesNoLimit
  <1>8. QED
    BY <1>1, <1>2, <1>3, <1>4, <1>5, <1>6, <1>7 DEF LoadNext

LEMMA LoadInvSound == LoadIndInv => LoadVerdictSound
  <1> SUFFICES ASSUME LoadIndInv PROVE LoadVerdictSound
    OBVIOUS
  <1>1. PercentileIsOfASample
    <2> SUFFICES ASSUME samples # <<>>, NEW p \in Percents
                 PROVE  Percentile(stats.lat, p) = BucketLatencyMs(Exact(samples, RoundUp(p, Len(samples))))
      BY Zenon DEF PercentileIsOfASample, Exact, Ranked, Percents, RoundUp
    <2>1. HistogramOf(stats.lat, samples) /\ samples \in Seq(Nat)
      BY DEF LoadIndInv
    <2>2. QED
      BY <2>1, PercentileExact
  <1>2. FailuresFailTheStep
    BY DEF LoadIndInv, FailuresFailTheStep
  <1>3. QED
    BY <1>1, <1>2 DEF LoadVerdictSound, LoadIndInv

\* A traffic step is judged by what it sent, for any plan, latencies and answer
\* of the sidecar: percentiles are those of the samples, however the histogram
\* rounds them, a failed request fails the step unless the plan names an error
\* rate of its own, and limits of latencies do not pass a step that sent nothing
\* (executeLoadStep, evaluateLoadThresholds).
THEOREM TrafficJudged == LoadSpec => []LoadVerdictSound
  <1>1. LoadInit => LoadIndInv
    BY LoadStarts
  <1>2. LoadIndInv /\ [LoadNext]_loadVars => LoadIndInv'
    BY LoadStepsKeep
  <1>3. LoadIndInv => LoadVerdictSound
    BY LoadInvSound
  <1>4. QED
    BY <1>1, <1>2, <1>3, PTL DEF LoadSpec
=============================================================================

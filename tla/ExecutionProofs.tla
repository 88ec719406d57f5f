--------------------------- MODULE ExecutionProofs ---------------------------
(***************************************************************************)
(* Machine-checked proofs about Execution.tla, for every suite, every      *)
(* number of runs and every setting of the bounds.                         *)
(*                                                                         *)
(* The service uses the queue as QueueProofs assumes of its callers (every *)
(* behaviour of the service is one of QueueSpec), so all that is proved of *)
(* the queue holds under the service.  The invariant ServiceInv ties the   *)
(* place of a step in runNode to its goroutine and to the record of its    *)
(* run; the safety properties follow from its parts.                       *)
(***************************************************************************)
EXTENDS Execution, QueueProofs, SequenceTheorems

-----------------------------------------------------------------------------
(* The inductive invariant *)

\* Where runNode (or OnCanceled) and bootExecution may be.
NodePlaces == {"none", "start", "exec", "mark", "destroy", "teardown", "prune", "return", "done"}
BootPlaces == {"none", "resolve", "setup", "sidecar", "destroy", "teardown", "prune", "done"}

PlacesOK == (\A t \in Tasks : pc[t] \in NodePlaces) /\ (\A e \in Groups : pc[e] \in BootPlaces)

\* Releasing a run is over three steps.
Releasing == {"destroy", "teardown", "prune"}

\* markNodeTerminal has been called for t.
Marked(t)   == pc[t] \in Releasing \cup {"return", "done"}
MarkedOf(e) == {t \in Steps(e) : Marked(t)}

\* Callbacks are only outstanding while the dispatcher runs them.
CallbacksRun == dispatcher # "notify" => callbacks = {}

\* Only a prepared run that booted to the end is in the queue, and a run is on
\* record only once it was created.
BootLife(e) ==
    /\ arrival[e] # 0 => pc[e] = "done" /\ prepared[e]
    /\ pc[e] \in {"setup", "sidecar"} => prepared[e]
    /\ Known(e) => pc[e] # "none"

\* runNode is only entered by the task's goroutine or by the dispatcher's
\* callback, and both leave it at its end with the result of the plan.
NodeLife(t) ==
    /\ pc[t] # "none" => routine[t] # "none" \/ t \in callbacks \cup notified
    /\ routine[t] \in {"returned", "done"} => pc[t] = "done" /\ outcome[t] = RunResult(t)
    /\ t \in notified => pc[t] = "done"

\* A plan is made when the step is about to be marked; only the Kubernetes
\* backend of the control plane has a step canceled, and a report comes from a step that a backend was given.
PlanLife(t) ==
    /\ pc[t] \in {"none", "start", "exec"} => plan[t] = "none"
    /\ pc[t] \notin {"none", "start", "exec"} => plan[t] # "none"
    /\ plan[t] \in {"cancel", "drop"} => t \notin Remote
    /\ plan[t] = "continue" => t \in ContinueOnFailure
    /\ plan[t] = "fail" => t \notin ContinueOnFailure
    /\ t \in reports => pc[t] \notin {"none", "start"} /\ plan[t] # "skip" /\ t \in Remote

\* A step is not terminal before it is marked; while its run is on record the
\* mark is there, and a skipped step stays skipped.
Recorded(t) ==
    /\ ~Marked(t) => verdict[t] = "none" /\ step[t] \notin TerminalStep
    /\ Marked(t) /\ Known(Group[t]) => verdict[t] = MarkStatus(t)
    /\ Marked(t) /\ Known(Group[t]) /\ plan[t] \in {"skip", "drop"} => step[t] = "skipped"

\* The counter of a run on record is the number of its marked steps.
Counted(e) ==
    /\ completed[e] <= Cardinality(MarkedOf(e))
    /\ Known(e) => completed[e] = Cardinality(MarkedOf(e))

\* A step releases its run only after every step of it has been marked.
LastReleases == \A x, u \in Tasks : pc[x] \in Releasing /\ Group[u] = Group[x] => Marked(u)

\* Whoever tears a run down is alone and first.
OneTeardown ==
    /\ \A x, y \in Finishers :
            pc[x] = "teardown" /\ pc[y] = "teardown" /\ RunOf(x) = RunOf(y) => x = y
    /\ \A x \in Finishers :
            pc[x] = "teardown" => released[RunOf(x)] /\ resources[RunOf(x)] # "down"
    /\ \A e \in Groups : resources[e] = "down" => released[e]

\* Until Close destroys what is left, a run that is in the queue has its
\* backend, or all its steps have been marked.
BackendUp(e) ==
    closing \in {"open", "boots", "drain"} =>
        /\ pc[e] = "sidecar" => resources[e] = "up"
        /\ arrival[e] # 0 => resources[e] = "up" \/ \A u \in Steps(e) : Marked(u)

\* A step of a run on record goes ahead on dependencies that returned without
\* being skipped.
Founded(t) ==
    pc[t] \in {"start", "exec"} /\ Known(Group[t]) =>
        \A d \in HardDependencies(t) : pc[d] = "done" /\ plan[d] \in {"healthy", "continue"}

ServiceInv ==
    /\ PlacesOK /\ CallbacksRun /\ LastReleases /\ OneTeardown
    /\ \A e \in Groups : BootLife(e) /\ Counted(e) /\ BackendUp(e)
    /\ \A t \in Tasks : NodeLife(t) /\ PlanLife(t) /\ Recorded(t) /\ Founded(t)

-----------------------------------------------------------------------------
(* Eviction and types *)

\* Eviction keeps a suffix of the order.
LEMMA EvictedSuffix ==
    ASSUME NEW order \in Seq(Groups)
    PROVE  /\ Evicted(order) \in Seq(Groups)
           /\ \A i \in 1..Len(Evicted(order)) :
                \E j \in 1..Len(order) : Evicted(order)[i] = order[j]
<1> DEFINE Goes(k) == \A i \in 1..k : i <= Len(order) - MaxStored /\ status[order[i]] \in Ended
           gone == {k \in 1..Len(order) : Goes(k)}
<1>1. IsFiniteSet(1..Len(order)) /\ Cardinality(1..Len(order)) = Len(order)
  <2>1. Len(order) \in Nat
    OBVIOUS
  <2>2. 1 \in Int /\ Len(order) \in Int
    BY <2>1
  <2>3. /\ IsFiniteSet(1..Len(order))
        /\ Cardinality(1..Len(order)) = IF 1 > Len(order) THEN 0 ELSE Len(order) - 1 + 1
    BY <2>2, FS_Interval, Zenon
  <2> QED BY <2>1, <2>3
<1>2. gone \subseteq 1..Len(order)
  OBVIOUS
<1>3. Cardinality(gone) \in Nat /\ Cardinality(gone) <= Len(order)
  <2> HIDE DEF gone
  <2> QED BY <1>1, <1>2, FS_Subset, FS_CardinalityType
<1>4. Evicted(order) = SubSeq(order, Cardinality(gone) + 1, Len(order))
  BY DEF Evicted
<1> HIDE DEF gone
<1>5. ASSUME NEW m \in Nat, m <= Len(order)
      PROVE  /\ SubSeq(order, m + 1, Len(order)) \in Seq(Groups)
             /\ \A i \in 1..Len(SubSeq(order, m + 1, Len(order))) :
                  /\ m + i \in 1..Len(order)
                  /\ SubSeq(order, m + 1, Len(order))[i] = order[m + i]
  BY <1>5, SubSeqProperties
<1> QED BY <1>3, <1>4, <1>5

\* A run comes on record only by its own launch, and never comes back.
LEMMA KnownOnlyByLaunch ==
    ASSUME ServiceTypeOK, [Next]_vars, NEW e \in Groups, Known(e)', ~Known(e)
    PROVE  CreateExecution(e)
<1>1. ASSUME NEW f \in Groups, CreateExecution(f) PROVE CreateExecution(e)
  <2>1. Append(runOrder, f) \in Seq(Groups)
    BY DEF ServiceTypeOK
  <2>2. PICK i \in 1..Len(runOrder') : runOrder'[i] = e
    BY DEF Known
  <2>3. PICK j \in 1..Len(Append(runOrder, f)) : e = Append(runOrder, f)[j]
    BY <1>1, <2>1, <2>2, EvictedSuffix DEF CreateExecution
  <2>4. e = f
    BY <2>3 DEF Known, ServiceTypeOK
  <2> QED BY <1>1, <2>4
<1>2. CASE UNCHANGED runOrder
  BY <1>2 DEF Known
<1> QED
  BY <1>1, <1>2 DEF Next, vars, serviceVars, Dispatch, Expiry, CloseQueue, CloseStep, BootsWaited,
     Drained, CloseReturns, CloseDestroys, BootStep, BootResolve, BootSetup, BootEnqueue,
     BootFails, FinishStep, Destroy, Teardown, Prune, NodeStep, Check, Start, Mark, Return,
     BeginCallback, EndCallback, TaskRoutine, Leases, SendReport, LandReport, BackendReturns

\* Steps belong to runs, and whoever finishes a run finishes one there is.
LEMMA RunsAreGroups ==
    /\ \A t \in Tasks : Group[t] \in Groups /\ t \notin Groups /\ RunOf(t) = Group[t]
    /\ \A e \in Groups : RunOf(e) = e
    /\ \A x \in Finishers : RunOf(x) \in Groups /\ (x \in Tasks \/ x \in Groups)
<1>1. Tasks \cap Groups = {} /\ Group \in [Tasks -> Groups]
  BY QueueAssumption, ExecutionAssumption DEF QueueAssumption, ExecutionAssumption
<1> QED BY <1>1 DEF RunOf, Finishers

\* Every step of the service keeps the type invariant.
LEMMA ServiceTypeStep == ServiceTypeOK /\ [Next]_vars => ServiceTypeOK'
<1> SUFFICES ASSUME ServiceTypeOK, [Next]_vars PROVE ServiceTypeOK'
  OBVIOUS
<1> USE RunsAreGroups
<1>1. ASSUME NEW e \in Groups, CreateExecution(e) PROVE ServiceTypeOK'
  <2>1. Append(runOrder, e) \in Seq(Groups)
    BY DEF ServiceTypeOK
  <2>2. runOrder' \in Seq(Groups)
    BY <1>1, <2>1, EvictedSuffix DEF CreateExecution
  <2> QED BY <1>1, <2>2 DEF CreateExecution, Goto, ServiceTypeOK
<1>2. ASSUME NEW e \in Groups, BootResolve(e) PROVE ServiceTypeOK'
  BY <1>2 DEF BootResolve, Goto, ServiceTypeOK
<1>3. ASSUME NEW e \in Groups, BootSetup(e) PROVE ServiceTypeOK'
  BY <1>3 DEF BootSetup, Goto, ServiceTypeOK
<1>4. ASSUME NEW e \in Groups, BootEnqueue(e) PROVE ServiceTypeOK'
  BY <1>4 DEF BootEnqueue, Goto, ServiceTypeOK
<1>5. ASSUME NEW e \in Groups, BootFails(e) PROVE ServiceTypeOK'
  BY <1>5 DEF BootFails, Goto, ServiceTypeOK, Ended
<1>6. ASSUME NEW x \in Finishers, Destroy(x) PROVE ServiceTypeOK'
  BY <1>6 DEF Destroy, Goto, ServiceTypeOK
<1>7. ASSUME NEW x \in Finishers, Teardown(x) PROVE ServiceTypeOK'
  BY <1>7 DEF Teardown, Goto, ServiceTypeOK
<1>8. ASSUME NEW x \in Finishers, Prune(x) PROVE ServiceTypeOK'
  BY <1>8 DEF Prune, Goto, ServiceTypeOK
<1>9. ASSUME NEW t \in Tasks, Check(t) PROVE ServiceTypeOK'
  <2>1. t \in Finishers /\ \E place \in {"mark", "start"} : pc' = [pc EXCEPT ![t] = place]
    BY <1>9 DEF Check, Goto, Finishers
  <2>2. plan' = [plan EXCEPT ![t] = "skip"] \/ plan' = plan
    BY <1>9 DEF Check
  <2> QED BY <1>9, <2>1, <2>2 DEF Check, ServiceTypeOK
<1>10. ASSUME NEW t \in Tasks, Start(t) PROVE ServiceTypeOK'
  BY <1>10 DEF Start, AppendEvent, Goto, ServiceTypeOK
<1>11. ASSUME NEW t \in Tasks, Mark(t) PROVE ServiceTypeOK'
  <2>1. MarkStatus(t) \in TerminalStep
    BY DEF MarkStatus, TerminalStep
  <2>2. step' \in [Tasks -> {"none", "pending", "running"} \cup TerminalStep]
        /\ verdict' \in [Tasks -> {"none"} \cup TerminalStep]
    BY <1>11, <2>1 DEF Mark, ServiceTypeOK
  <2>3. completed' \in [Groups -> Nat]
    BY <1>11 DEF Mark, ServiceTypeOK
  <2>4. status' \in [Groups -> {"none", "Booting"} \cup Ended]
    BY <1>11 DEF Mark, ServiceTypeOK, Ended
  <2>5. pc' \in [Finishers -> {"none", "resolve", "setup", "sidecar", "start", "exec", "mark",
                               "destroy", "teardown", "prune", "return", "done"}]
    BY <1>11 DEF Mark, Goto, ServiceTypeOK
  <2> QED BY <1>11, <2>2, <2>3, <2>4, <2>5 DEF Mark, ServiceTypeOK
<1>12. ASSUME NEW t \in Tasks, Return(t) PROVE ServiceTypeOK'
  BY <1>12 DEF Return, ContinuedEvent, AppendEvent, Goto, ServiceTypeOK, TerminalStep
<1>13. ASSUME NEW t \in Tasks, BeginCallback(t) PROVE ServiceTypeOK'
  BY <1>13 DEF BeginCallback, Goto, ServiceTypeOK
<1>14. ASSUME NEW t \in Tasks, EndCallback(t) PROVE ServiceTypeOK'
  BY <1>14 DEF EndCallback, Goto, ServiceTypeOK
<1>15. ASSUME NEW t \in Tasks, NEW r, BackendReturns(t, r) PROVE ServiceTypeOK'
  BY <1>15 DEF BackendReturns, Goto, ServiceTypeOK
<1>16. ASSUME NEW t \in Tasks, SendReport(t) \/ LandReport(t) PROVE ServiceTypeOK'
  BY <1>16 DEF SendReport, LandReport, AppendEvent, ServiceTypeOK
<1>17. ASSUME NEW e \in Groups, CloseDestroys(e) PROVE ServiceTypeOK'
  BY <1>17 DEF CloseDestroys, ServiceTypeOK
<1>18. CASE CloseQueue \/ BootsWaited \/ Drained \/ CloseReturns
  BY <1>18 DEF CloseQueue, BootsWaited, Drained, CloseReturns, ServiceTypeOK
<1>19. CASE UNCHANGED serviceVars
  BY <1>19 DEF serviceVars, ServiceTypeOK
<1> QED
  BY <1>1, <1>2, <1>3, <1>4, <1>5, <1>6, <1>7, <1>8, <1>9, <1>10, <1>11, <1>12, <1>13, <1>14,
     <1>15, <1>16, <1>17, <1>18, <1>19
  DEF Next, vars, Dispatch, Expiry, CloseStep, BootStep, FinishStep, NodeStep, TaskRoutine, Leases

\* Every variable of a new service has its type.
LEMMA ServiceTypeInit == Init => ServiceTypeOK
<1>1. ASSUME ServiceInit PROVE ServiceTypeOK
  <2> USE <1>1
  <2>1. runOrder \in Seq(Groups) /\ completed \in [Groups -> Nat]
    BY DEF ServiceInit
  <2>2. prepared \in [Groups -> BOOLEAN] /\ released \in [Groups -> BOOLEAN]
    BY DEF ServiceInit
  <2>3. /\ status \in [Groups -> {"none", "Booting"} \cup Ended]
        /\ resources \in [Groups -> {"none", "up", "down"}]
        /\ step \in [Tasks -> {"none", "pending", "running"} \cup TerminalStep]
        /\ verdict \in [Tasks -> {"none"} \cup TerminalStep]
        /\ plan \in [Tasks -> {"none", "healthy", "skip", "fail", "cancel", "continue", "drop"}]
    BY DEF ServiceInit
  <2>4. pc \in [Finishers -> {"none", "resolve", "setup", "sidecar", "start", "exec", "mark",
                              "destroy", "teardown", "prune", "return", "done"}]
    BY DEF ServiceInit
  <2> QED BY <2>1, <2>2, <2>3, <2>4 DEF ServiceInit, ServiceTypeOK
<1> QED BY <1>1 DEF Init

\* Every variable of the service keeps its type in every behaviour.
THEOREM ServiceTypeCorrect == Spec => []ServiceTypeOK
  BY ServiceTypeInit, ServiceTypeStep, PTL DEF Spec

-----------------------------------------------------------------------------
(* The service as a caller of the queue *)

Typed == QueueTypeOK /\ Lifecycle /\ ServiceTypeOK

\* When a run is pruned none of its tasks is pending: it never reached the
\* queue, or all its steps have been marked.
LEMMA PruneIsSettled == Typed /\ ServiceInv => PruneWhenSettled
<1> SUFFICES ASSUME Typed, ServiceInv, NEW x \in Finishers, pc[x] = "prune",
                    NEW t \in Tasks, Group[t] = RunOf(x), state[t] = "pending"
             PROVE  FALSE
  BY DEF PruneWhenSettled, Prunable
<1>1. /\ arrival[Group[t]] = 0 => state[t] = "absent"
      /\ routine[t] = "none" /\ t \notin callbacks \cup notified
  BY DEF Typed, Lifecycle, TaskLife
<1>2. pc[t] = "none"
  BY <1>1 DEF ServiceInv, NodeLife
<1>3. CASE x \in Groups
  BY <1>1, <1>3, RunsAreGroups DEF ServiceInv, BootLife
<1>4. CASE x \in Tasks
  BY <1>2, <1>4, RunsAreGroups DEF ServiceInv, LastReleases, Releasing, Marked
<1> QED BY <1>3, <1>4, RunsAreGroups

\* Every step of the service is a step of the queue or leaves it alone.
LEMMA StepOfQueue == Typed /\ ServiceInv /\ [Next]_vars => [QueueNext]_queueVars
<1> SUFFICES ASSUME Typed, ServiceInv, [Next]_vars PROVE [QueueNext]_queueVars
  OBVIOUS
<1> USE RunsAreGroups
<1>1. CASE Dispatch \/ Expiry \/ CloseQueue
  BY <1>1 DEF Dispatch, Expiry, CloseQueue, QueueNext, QueueStep
<1>2. ASSUME NEW t \in Tasks, TaskRoutine(t) \/ Leases(t) PROVE [QueueNext]_queueVars
  BY <1>2 DEF TaskRoutine, Leases, QueueNext, QueueStep
<1>3. ASSUME NEW e \in Groups, BootEnqueue(e) PROVE [QueueNext]_queueVars
  BY <1>3 DEF BootEnqueue, QueueNext
<1>4. ASSUME NEW x \in Finishers, Prune(x) PROVE [QueueNext]_queueVars
  <2>1. Prunable(RunOf(x))
    BY <1>4, PruneIsSettled DEF Prune, PruneWhenSettled
  <2> QED BY <1>4, <2>1 DEF Prune, QueueNext
<1>5. ASSUME NEW t \in Tasks, Mark(t) PROVE [QueueNext]_queueVars
  <2>1. CancelRunningGroup(Group[t]) \/ UNCHANGED queueVars
    BY <1>5 DEF Mark
  <2> QED BY <2>1 DEF QueueNext
<1>6. ASSUME NEW t \in Tasks, Return(t) PROVE [QueueNext]_queueVars
  <2>1. RunResult(t) \in Outcomes \ {"none"}
    BY DEF RunResult, Outcomes
  <2> QED BY <1>6, <2>1 DEF Return, QueueNext
<1>7. ASSUME NEW t \in Tasks, EndCallback(t) PROVE [QueueNext]_queueVars
  BY <1>7 DEF EndCallback, QueueNext
<1>8. CASE UNCHANGED queueVars
  BY <1>8
<1> QED
  BY <1>1, <1>2, <1>3, <1>4, <1>5, <1>6, <1>7, <1>8
  DEF Next, vars, CloseStep, BootsWaited, Drained, CloseReturns, CloseDestroys, BootStep,
      CreateExecution, BootResolve, BootSetup, BootFails, FinishStep, Destroy, Teardown,
      NodeStep, Check, Start, BeginCallback, SendReport, LandReport, BackendReturns

\* A step of the queue's own goroutines.
QueueOnly ==
    \/ Dispatch \/ Expiry
    \/ \E t \in Tasks : TaskRoutine(t) \/ Leases(t)

\* What such a step leaves alone: it enqueues nothing, returns from no task and
\* ends no callback; the callbacks of a scan are all outstanding after it.
LEMMA QueueOnlyFrame ==
    ASSUME QueueTypeOK, CallbacksRun, QueueOnly
    PROVE  /\ UNCHANGED <<serviceVars, arrival, notified, outcome>>
           /\ CallbacksRun'
           /\ callbacks \subseteq callbacks'
           /\ \A t \in Tasks :
                /\ routine[t] # "none" => routine'[t] # "none"
                /\ routine'[t] \in {"returned", "done"} => routine[t] \in {"returned", "done"}
<1>1. CASE Claim /\ UNCHANGED serviceVars
  BY <1>1 DEF Claim, CallbacksRun
<1>2. CASE (Launch \/ Idle \/ Wake \/ Stop) /\ UNCHANGED serviceVars
  BY <1>2 DEF Launch, Idle, Wake, Stop, CallbacksRun, QueueTypeOK
<1>3. CASE ExpiryScan /\ UNCHANGED serviceVars
  BY <1>3 DEF ExpiryScan, CallbacksRun
<1>4. ASSUME NEW u \in Tasks, AttachCancel(u) \/ FinishReturned(u) \/ Expire(u) \/ Lapse(u) \/ RenewLease(u),
             UNCHANGED serviceVars
      PROVE  /\ UNCHANGED <<serviceVars, arrival, notified, outcome, callbacks, dispatcher>>
             /\ \A t \in Tasks :
                  /\ routine[t] # "none" => routine'[t] # "none"
                  /\ routine'[t] \in {"returned", "done"} => routine[t] \in {"returned", "done"}
  BY <1>4 DEF AttachCancel, FinishReturned, Expire, Lapse, RenewLease, QueueTypeOK
<1> QED
  BY <1>1, <1>2, <1>3, <1>4
  DEF QueueOnly, Dispatch, Expiry, TaskRoutine, Leases, CallbacksRun

-----------------------------------------------------------------------------
(* The parts of the invariant, each kept by every step *)

\* runNode and bootExecution stay within their places.
LEMMA PlacesStep == Typed /\ PlacesOK /\ [Next]_vars => PlacesOK'
<1> SUFFICES ASSUME Typed, PlacesOK, [Next]_vars PROVE PlacesOK'
  OBVIOUS
<1>1. ASSUME NEW x \in Finishers, NEW place, Goto(x, place),
             x \in Tasks => place \in NodePlaces, x \in Groups => place \in BootPlaces
      PROVE  PlacesOK'
  BY <1>1 DEF Typed, ServiceTypeOK, PlacesOK, Goto, Finishers
<1> USE RunsAreGroups DEF NodePlaces, BootPlaces, Finishers
<1>2. ASSUME NEW e \in Groups, CreateExecution(e) \/ BootStep(e) PROVE PlacesOK'
  BY <1>1, <1>2
  DEF CreateExecution, BootStep, BootResolve, BootSetup, BootEnqueue, BootFails
<1>3. ASSUME NEW x \in Finishers, FinishStep(x) PROVE PlacesOK'
  BY <1>1, <1>3 DEF FinishStep, Destroy, Teardown, Prune
<1>4. ASSUME NEW t \in Tasks, NodeStep(t) \/ \E r : BackendReturns(t, r) PROVE PlacesOK'
  BY <1>1, <1>4
  DEF NodeStep, Check, Start, Mark, Return, BeginCallback, EndCallback, BackendReturns
<1>5. CASE UNCHANGED pc
  BY <1>5 DEF PlacesOK
<1> QED
  BY <1>2, <1>3, <1>4, <1>5
  DEF Next, vars, serviceVars, Dispatch, Expiry, TaskRoutine, Leases, CloseQueue, CloseStep,
      BootsWaited, Drained, CloseReturns, CloseDestroys, SendReport, LandReport

\* The service's own steps leave the dispatcher, the goroutines and the leases
\* of the queue alone, but for the returns of runNode and of a callback.
LEMMA ServiceFrame ==
    ASSUME [Next]_vars
    PROVE  \/ QueueOnly
           \/ \E t \in Tasks : EndCallback(t) \/ Return(t)
           \/ UNCHANGED <<dispatcher, claimed, callbacks, routine, lease, expiring>>
<1> DEFINE Left == UNCHANGED <<dispatcher, claimed, callbacks, routine, lease, expiring>>
<1>1. ASSUME CloseQueue \/ CloseStep PROVE Left
  BY <1>1 DEF CloseQueue, Close, CloseStep, BootsWaited, Drained, CloseReturns, CloseDestroys, queueVars
<1>2. ASSUME NEW e \in Groups, CreateExecution(e) \/ BootStep(e) PROVE Left
  BY <1>2 DEF CreateExecution, BootStep, BootResolve, BootSetup, BootEnqueue, Enqueue, BootFails, queueVars
<1>3. ASSUME NEW x \in Finishers, FinishStep(x) PROVE Left
  BY <1>3 DEF FinishStep, Destroy, Teardown, Prune, PruneGroup, queueVars
<1>4. ASSUME NEW t \in Tasks, Check(t) \/ Start(t) \/ Mark(t) \/ BeginCallback(t) PROVE Left
  BY <1>4 DEF Check, Start, Mark, CancelRunningGroup, BeginCallback, queueVars
<1>5. ASSUME NEW t \in Tasks, 
             SendReport(t) \/ LandReport(t) \/ \E result \in {"ok", "error", "canceled"} : BackendReturns(t, result)
      PROVE  Left
  BY <1>5 DEF SendReport, LandReport, BackendReturns, queueVars
<1>6. ASSUME UNCHANGED vars PROVE Left
  BY <1>6 DEF vars, queueVars
<1> HIDE DEF Left
<1> DEFINE Back == \E t \in Tasks : EndCallback(t) \/ Return(t)
<1>7. ASSUME NEW t \in Tasks, NodeStep(t) PROVE Back \/ Left
  BY <1>4, <1>7 DEF NodeStep
<1>8. ASSUME NEW t \in Tasks, TaskRoutine(t) \/ Leases(t) PROVE QueueOnly
  BY <1>8 DEF QueueOnly
<1>9. ASSUME Dispatch \/ Expiry PROVE QueueOnly
  BY <1>9 DEF QueueOnly
<1> HIDE DEF Back
<1>10. QueueOnly \/ Back \/ Left
  BY <1>1, <1>2, <1>3, <1>5, <1>6, <1>7, <1>8, <1>9 DEF Next
<1> QED BY <1>10 DEF Left, Back

\* The callbacks of a scan are run before the dispatcher goes on.
LEMMA CallbacksStep == Typed /\ CallbacksRun /\ [Next]_vars => CallbacksRun'
<1> SUFFICES ASSUME Typed, CallbacksRun, [Next]_vars PROVE CallbacksRun'
  OBVIOUS
<1>1. CASE QueueOnly
  BY <1>1, QueueOnlyFrame DEF Typed
<1>2. ASSUME NEW t \in Tasks, EndCallback(t) PROVE CallbacksRun'
  BY <1>2 DEF EndCallback, Notify, CallbacksRun
<1>3. ASSUME NEW t \in Tasks, Return(t) PROVE CallbacksRun'
  BY <1>3 DEF Return, RunReturns, CallbacksRun
<1>4. CASE UNCHANGED <<dispatcher, callbacks>>
  BY <1>4 DEF CallbacksRun
<1> QED BY <1>1, <1>2, <1>3, <1>4, ServiceFrame

\* Only a booted run is in the queue, only a created one on record.
LEMMA BootLifeStep ==
    ASSUME Typed, CallbacksRun, [Next]_vars, NEW f \in Groups, BootLife(f)
    PROVE  BootLife(f)'
<1> USE RunsAreGroups DEF Typed, ServiceTypeOK, QueueTypeOK, BootLife, Goto
<1>1. CASE QueueOnly
  BY <1>1, QueueOnlyFrame DEF serviceVars, Known
<1>2. ASSUME NEW e \in Groups, CreateExecution(e) PROVE BootLife(f)'
  <2>1. Known(f)' => Known(f) \/ f = e
    <3> SUFFICES ASSUME Known(f)', ~Known(f) PROVE f = e
      OBVIOUS
    <3>1. CreateExecution(f)
      BY KnownOnlyByLaunch
    <3> QED BY <3>1, <1>2 DEF CreateExecution, Finishers
  <2> QED BY <1>2, <2>1 DEF CreateExecution, Finishers, queueVars
<1>3. ASSUME NEW e \in Groups, BootResolve(e) \/ BootSetup(e) \/ BootFails(e) PROVE BootLife(f)'
  <2>1. UNCHANGED <<runOrder, arrival>> /\ pc[e] \in {"resolve", "setup", "sidecar"} /\ e \in Finishers
    BY <1>3 DEF BootResolve, BootSetup, BootFails, Finishers, queueVars
  <2>2. /\ pc' = [pc EXCEPT ![e] = pc'[e]] /\ pc'[e] \in {"setup", "sidecar", "destroy"}
        /\ f = e /\ pc'[e] \in {"setup", "sidecar"} => prepared'[e]
    <3>1. CASE BootResolve(e)
      BY <2>1, <3>1 DEF BootResolve
    <3>2. CASE BootSetup(e)
      BY <2>1, <3>2 DEF BootSetup
    <3>3. CASE BootFails(e)
      BY <2>1, <3>3 DEF BootFails
    <3> QED BY <1>3, <3>1, <3>2, <3>3
  <2>3. \A g \in Groups : g # e => prepared'[g] = prepared[g]
    BY <1>3 DEF BootResolve, BootSetup, BootFails
  <2>4. f \in Finishers
    BY DEF Finishers
  <2> QED BY <2>1, <2>2, <2>3, <2>4 DEF Known
<1>4. ASSUME NEW e \in Groups, BootEnqueue(e) PROVE BootLife(f)'
  BY <1>4 DEF BootEnqueue, Enqueue, Known, Finishers
<1>5. ASSUME NEW x \in Finishers, Destroy(x) \/ Teardown(x) \/ Prune(x) PROVE BootLife(f)'
  <2>1. UNCHANGED <<prepared, runOrder, arrival>>
    BY <1>5 DEF Destroy, Teardown, Prune, PruneGroup, queueVars
  <2>2. pc[x] \notin {"setup", "sidecar", "done", "none"} /\ pc'[x] \notin {"setup", "sidecar", "none"}
    BY <1>5 DEF Destroy, Teardown, Prune
  <2>3. pc' = [pc EXCEPT ![x] = pc'[x]] /\ f \in Finishers
    BY <1>5 DEF Destroy, Teardown, Prune, Finishers
  <2> QED BY <2>1, <2>2, <2>3 DEF Known
<1>6. ASSUME UNCHANGED <<prepared, runOrder, arrival>>, pc'[f] = pc[f] PROVE BootLife(f)'
  BY <1>6 DEF Known
<1>7. ASSUME NEW t \in Tasks, NodeStep(t) \/ (\E r : BackendReturns(t, r))
                              \/ SendReport(t) \/ LandReport(t)
      PROVE  UNCHANGED <<prepared, runOrder, arrival>> /\ pc'[f] = pc[f]
  BY <1>7
  DEF NodeStep, Check, Start, Mark, CancelRunningGroup, Return, RunReturns, BeginCallback,
      EndCallback, Notify, SendReport, LandReport, BackendReturns, Finishers, queueVars
<1>8. CASE UNCHANGED vars \/ CloseQueue \/ CloseStep
  BY <1>8, <1>6
  DEF vars, queueVars, serviceVars, CloseQueue, Close, CloseStep, BootsWaited, Drained, CloseReturns,
      CloseDestroys
<1> QED
  BY <1>1, <1>2, <1>3, <1>4, <1>5, <1>6, <1>7, <1>8 DEF Next, QueueOnly, BootStep, FinishStep

\* What becomes of a step of the queue's task in a step of the service.
LEMMA NodeLifeStep ==
    ASSUME Typed, PlacesOK, CallbacksRun, [Next]_vars, NEW u \in Tasks, NodeLife(u)
    PROVE  NodeLife(u)'
<1> USE RunsAreGroups DEF Typed, ServiceTypeOK, QueueTypeOK, NodeLife, Goto
<1>1. CASE QueueOnly
  BY <1>1, QueueOnlyFrame DEF serviceVars, RunResult
<1>2. ASSUME UNCHANGED <<routine, callbacks, notified, outcome, plan>>, pc'[u] = pc[u]
      PROVE  NodeLife(u)'
  BY <1>2 DEF RunResult
<1>3. ASSUME NEW e \in Groups, CreateExecution(e) \/ BootStep(e)
      PROVE  UNCHANGED <<routine, callbacks, notified, outcome, plan>> /\ pc'[u] = pc[u]
  BY <1>3
  DEF CreateExecution, BootStep, BootResolve, BootSetup, BootEnqueue, Enqueue, BootFails,
      Finishers, queueVars
<1>4. ASSUME NEW x \in Finishers, FinishStep(x) PROVE NodeLife(u)'
  <2>1. /\ UNCHANGED <<routine, callbacks, notified, outcome, plan>>
        /\ pc[x] \in Releasing
        /\ pc' = [pc EXCEPT ![x] = pc'[x]]
        /\ x \in Tasks => pc'[x] # "none"
    BY <1>4 DEF FinishStep, Destroy, Teardown, Prune, PruneGroup, Releasing, queueVars, Finishers
  <2> QED BY <2>1 DEF RunResult, Releasing, Finishers
<1>5. ASSUME NEW t \in Tasks, Check(t) \/ Start(t) \/ BeginCallback(t) \/ (\E r : BackendReturns(t, r))
      PROVE  NodeLife(u)'
  <2>1. UNCHANGED <<routine, callbacks, notified, outcome>>
    BY <1>5 DEF Check, Start, BeginCallback, BackendReturns, queueVars
  <2>2. /\ \A v \in Tasks : v # t => pc'[v] = pc[v] /\ plan'[v] = plan[v]
        /\ pc[t] # "done"
        /\ routine[t] # "none" \/ t \in callbacks \/ pc[t] # "none"
    BY <1>5 DEF Check, Start, BeginCallback, BackendReturns, Finishers
  <2> QED BY <2>1, <2>2 DEF RunResult
<1>6. ASSUME NEW t \in Tasks, Mark(t) PROVE NodeLife(u)'
  <2>1. /\ UNCHANGED <<routine, callbacks, notified, outcome, plan>>
        /\ \A v \in Tasks : v # t => pc'[v] = pc[v]
        /\ pc[t] = "mark"
    BY <1>6 DEF Mark, CancelRunningGroup, Finishers, queueVars
  <2> QED BY <2>1 DEF RunResult
<1>7. ASSUME NEW t \in Tasks, Return(t) PROVE NodeLife(u)'
  BY <1>7 DEF Return, RunReturns, RunResult, Finishers
<1>8. ASSUME NEW t \in Tasks, EndCallback(t) PROVE NodeLife(u)'
  BY <1>8 DEF EndCallback, Notify, RunResult, Finishers
<1>9. ASSUME NEW t \in Tasks, SendReport(t) \/ LandReport(t) PROVE NodeLife(u)'
  BY <1>2, <1>9 DEF SendReport, LandReport, queueVars
<1>10. CASE UNCHANGED vars \/ CloseQueue \/ CloseStep
  BY <1>2, <1>10
  DEF vars, queueVars, serviceVars, CloseQueue, Close, CloseStep, BootsWaited, Drained, CloseReturns,
      CloseDestroys
<1> QED
  BY <1>1, <1>2, <1>3, <1>4, <1>5, <1>6, <1>7, <1>8, <1>9, <1>10 DEF Next, QueueOnly, NodeStep

\* Plans are made once, and reports come only from steps a backend was given.
LEMMA PlanLifeStep ==
    ASSUME Typed, PlacesOK, CallbacksRun, [Next]_vars, NEW u \in Tasks, PlanLife(u)
    PROVE  PlanLife(u)'
<1> USE RunsAreGroups DEF Typed, ServiceTypeOK, PlanLife, Goto
<1>1. ASSUME UNCHANGED <<plan, reports>>, pc'[u] = pc[u] PROVE PlanLife(u)'
  BY <1>1
<1>2. CASE QueueOnly
  BY <1>1, <1>2, QueueOnlyFrame DEF serviceVars
<1>3. ASSUME NEW e \in Groups, CreateExecution(e) \/ BootStep(e) PROVE PlanLife(u)'
  BY <1>1, <1>3
  DEF CreateExecution, BootStep, BootResolve, BootSetup, BootEnqueue, BootFails, Finishers
<1>4. ASSUME NEW x \in Finishers, FinishStep(x) PROVE PlanLife(u)'
  BY <1>4 DEF FinishStep, Destroy, Teardown, Prune, Finishers
<1>5. ASSUME NEW t \in Tasks, Check(t) \/ Start(t) \/ BeginCallback(t) PROVE PlanLife(u)'
  BY <1>5 DEF Check, Start, BeginCallback, Finishers
<1>6. ASSUME NEW t \in Tasks, NEW r, BackendReturns(t, r) PROVE PlanLife(u)'
  <2>1. KubeServices \cap Remote = {}
    BY ExecutionAssumption DEF ExecutionAssumption
  <2> QED BY <1>6, <2>1 DEF BackendReturns, BackendResults, Finishers
<1>7. ASSUME NEW t \in Tasks, Mark(t) \/ Return(t) \/ EndCallback(t) PROVE PlanLife(u)'
  BY <1>7 DEF Mark, Return, EndCallback, Finishers
<1>8. ASSUME NEW t \in Tasks, SendReport(t) \/ LandReport(t) PROVE PlanLife(u)'
  BY <1>8 DEF SendReport, LandReport
<1>9. CASE UNCHANGED vars \/ CloseQueue \/ CloseStep
  BY <1>1, <1>9
  DEF vars, serviceVars, CloseQueue, CloseStep, BootsWaited, Drained, CloseReturns, CloseDestroys
<1> QED
  BY <1>2, <1>3, <1>4, <1>5, <1>6, <1>7, <1>8, <1>9 DEF Next, QueueOnly, NodeStep

\* A step that runNode has been entered for is in the queue, and its run has
\* booted.
LEMMA EnteredIsBooted ==
    ASSUME Typed, NEW u \in Tasks, BootLife(Group[u]), NodeLife(u), pc[u] # "none"
    PROVE  arrival[Group[u]] # 0 /\ pc[Group[u]] = "done" /\ prepared[Group[u]]
  BY DEF Typed, Lifecycle, TaskLife, BootLife, NodeLife

\* A mark is for good, its plan with it, and only markNodeTerminal makes one.
LEMMA MarkedForGood ==
    ASSUME Typed, PlacesOK, CallbacksRun, [Next]_vars, NEW u \in Tasks
    PROVE  /\ Marked(u) => Marked(u)' /\ plan'[u] = plan[u]
           /\ Marked(u)' => Marked(u) \/ Mark(u)
           /\ pc'[u] \in Releasing => pc[u] \in Releasing \/ Mark(u)
           /\ pc[u] = "done" => pc'[u] = "done"
<1> USE RunsAreGroups DEF Typed, ServiceTypeOK, Goto, Marked, Releasing
<1>1. CASE plan'[u] = plan[u] /\ pc'[u] = pc[u]
  BY <1>1
<1>2. CASE QueueOnly
  BY <1>1, <1>2, QueueOnlyFrame DEF serviceVars
<1>3. ASSUME NEW e \in Groups, CreateExecution(e) \/ BootStep(e)
      PROVE  plan'[u] = plan[u] /\ pc'[u] = pc[u]
  BY <1>3
  DEF CreateExecution, BootStep, BootResolve, BootSetup, BootEnqueue, BootFails, Finishers
<1>4. ASSUME NEW x \in Finishers, FinishStep(x)
      PROVE  /\ plan' = plan
             /\ pc'[u] = pc[u] \/ (pc[u] \in Releasing /\ pc'[u] \in {"teardown", "prune", "return"})
  BY <1>4 DEF FinishStep, Destroy, Teardown, Prune, Finishers
<1>5. ASSUME NEW t \in Tasks,
             Check(t) \/ Start(t) \/ BeginCallback(t) \/ (\E r : BackendReturns(t, r))
      PROVE  \/ plan'[u] = plan[u] /\ pc'[u] = pc[u]
             \/ ~Marked(u) /\ ~Marked(u)'
  BY <1>5 DEF Check, Start, BeginCallback, BackendReturns, Finishers
<1>6. ASSUME NEW t \in Tasks, Mark(t)
      PROVE  plan' = plan /\ (pc'[u] = pc[u] \/ (u = t /\ pc[u] = "mark"))
  BY <1>6 DEF Mark, Finishers
<1>7. ASSUME NEW t \in Tasks, Return(t) \/ EndCallback(t)
      PROVE  plan' = plan /\ (pc'[u] = pc[u] \/ (pc[u] = "return" /\ pc'[u] = "done"))
  BY <1>7 DEF Return, EndCallback, Finishers
<1>8. ASSUME NEW t \in Tasks, SendReport(t) \/ LandReport(t) PROVE UNCHANGED <<plan, pc>>
  BY <1>8 DEF SendReport, LandReport
<1>9. CASE UNCHANGED vars \/ CloseQueue \/ CloseStep
  BY <1>1, <1>9
  DEF vars, serviceVars, CloseQueue, CloseStep, BootsWaited, Drained, CloseReturns, CloseDestroys
<1> QED
  BY <1>1, <1>2, <1>3, <1>4, <1>5, <1>6, <1>7, <1>8, <1>9 DEF Next, QueueOnly, NodeStep

\* A run that is on record was so before, unless none of its steps has been
\* entered yet.
LEMMA KnownBefore ==
    ASSUME Typed, [Next]_vars, NEW u \in Tasks, BootLife(Group[u]), NodeLife(u), Known(Group[u])',
           pc[u] # "none"
    PROVE  Known(Group[u])
<1>1. CASE ~Known(Group[u])
  <2>1. CreateExecution(Group[u])
    BY <1>1, KnownOnlyByLaunch, RunsAreGroups DEF Typed
  <2> QED BY <2>1, EnteredIsBooted DEF CreateExecution
<1> QED BY <1>1

\* The record of a step follows its marks.
LEMMA RecordedStep ==
    ASSUME Typed, PlacesOK, CallbacksRun, [Next]_vars, NEW u \in Tasks,
           BootLife(Group[u]), NodeLife(u), PlanLife(u), Recorded(u)
    PROVE  Recorded(u)'
<1> USE RunsAreGroups DEF Typed, ServiceTypeOK
<1>1. Marked(u) => Marked(u)' /\ MarkStatus(u)' = MarkStatus(u) /\ plan'[u] = plan[u]
  BY MarkedForGood DEF MarkStatus
<1>2. Marked(u) /\ Known(Group[u])' => Known(Group[u])
  BY KnownBefore DEF Marked, Releasing
<1>3. ASSUME verdict'[u] = verdict[u], ~Mark(u),
             \/ step'[u] = step[u]
             \/ ~Marked(u) /\ step'[u] \notin TerminalStep
             \/ Marked(u) /\ plan[u] \notin {"skip", "drop"}
      PROVE  Recorded(u)'
  <2>1. Marked(u)' <=> Marked(u)
    BY <1>3, MarkedForGood
  <2> QED BY <1>1, <1>2, <1>3, <2>1 DEF Recorded
<1>4. CASE Mark(u)
  <2>1. pc[u] = "mark" /\ ~Marked(u)
    BY <1>4 DEF Mark, Marked, Releasing
  <2>2. /\ Known(Group[u])' <=> Known(Group[u])
        /\ MarkStatus(u)' = MarkStatus(u) /\ plan' = plan
    BY <1>4 DEF Mark, Known, MarkStatus
  <2>3. Marked(u)'
    BY <1>4 DEF Mark, Goto, Marked, Releasing, Finishers
  <2>4. Known(Group[u]) => verdict'[u] = MarkStatus(u) /\ step'[u] = MarkStatus(u)
    BY <1>4, <2>1 DEF Mark, Recorded
  <2>5. plan[u] \in {"skip", "drop"} => MarkStatus(u) = "skipped"
    BY DEF MarkStatus
  <2> QED BY <2>2, <2>3, <2>4, <2>5 DEF Recorded
<1>5. CASE QueueOnly /\ ~Mark(u)
  BY <1>3, <1>5, QueueOnlyFrame DEF serviceVars
<1>6. ASSUME NEW e \in Groups, BootResolve(e), ~Mark(u) PROVE Recorded(u)'
  <2>1. Group[u] = e => ~Marked(u)
    BY <1>6, EnteredIsBooted DEF BootResolve, Marked, Releasing
  <2> QED BY <1>3, <1>6, <2>1 DEF BootResolve, TerminalStep
<1>7. ASSUME NEW t \in Tasks, Start(t), ~Mark(u) PROVE Recorded(u)'
  <2>1. t = u => ~Marked(u)
    BY <1>7 DEF Start, Marked, Releasing
  <2>2. "running" \notin TerminalStep
    BY DEF TerminalStep
  <2> QED BY <1>3, <1>7, <2>1, <2>2 DEF Start, AppendEvent
<1>8. ASSUME NEW t \in Tasks, Mark(t), ~Mark(u) PROVE Recorded(u)'
  <2>1. t # u
    BY <1>8
  <2>2. verdict'[u] = verdict[u] /\ step'[u] = step[u]
    BY <1>8, <2>1 DEF Mark
  <2> QED BY <1>3, <1>8, <2>2
<1>9. ASSUME NEW t \in Tasks, Return(t), ~Mark(u) PROVE Recorded(u)'
  <2>1. t = u => Marked(u)
    BY <1>9 DEF Return, Marked
  <2>2. step'[u] = step[u] \/ (t = u /\ plan[u] = "continue")
    BY <1>9 DEF Return, ContinuedEvent, AppendEvent
  <2> QED BY <1>3, <1>9, <2>1, <2>2 DEF Return
<1>10. ASSUME NEW t \in Tasks, LandReport(t), ~Mark(u) PROVE Recorded(u)'
  <2>1. step'[u] = step[u] \/ (t = u /\ step'[u] = "running")
    BY <1>10 DEF LandReport, AppendEvent
  <2>2. t = u => plan[u] \notin {"skip", "drop"}
    BY <1>10 DEF LandReport, PlanLife
  <2> QED BY <1>3, <1>10, <2>1, <2>2 DEF LandReport, TerminalStep
<1>11. CASE UNCHANGED <<verdict, step>> /\ ~Mark(u)
  BY <1>3, <1>11
<1> QED
  BY <1>4, <1>5, <1>6, <1>7, <1>8, <1>9, <1>10, <1>11
  DEF Next, vars, serviceVars, QueueOnly, CloseQueue, CloseStep, BootsWaited, Drained, CloseReturns,
      CloseDestroys, CreateExecution, BootStep, BootSetup, BootEnqueue, BootFails, FinishStep,
      Destroy, Teardown, Prune, NodeStep, Check, BeginCallback, EndCallback, SendReport,
      BackendReturns

\* Steps are finitely many, the marked ones among them too.
LEMMA StepsFinite ==
    ASSUME NEW e \in Groups
    PROVE  /\ IsFiniteSet(Steps(e)) /\ Cardinality(Steps(e)) \in Nat
           /\ IsFiniteSet(MarkedOf(e)) /\ Cardinality(MarkedOf(e)) \in Nat
           /\ MarkedOf(e) \subseteq Steps(e)
<1>1. IsFiniteSet(Tasks)
  BY QueueAssumption DEF QueueAssumption
<1>2. Steps(e) \subseteq Tasks /\ MarkedOf(e) \subseteq Steps(e)
  BY DEF Steps, MarkedOf
<1> QED BY <1>1, <1>2, FS_Subset, FS_CardinalityType

\* markNodeTerminal marks one step more, and counts it if the run is on record.
LEMMA MarkCounts ==
    ASSUME Typed, NEW t \in Tasks, Mark(t), Recorded(t), Counted(Group[t])
    PROVE  /\ Counted(Group[t])'
           /\ Cardinality(MarkedOf(Group[t]))' = Cardinality(MarkedOf(Group[t])) + 1
           /\ completed'[Group[t]] = IF Known(Group[t]) THEN completed[Group[t]] + 1
                                     ELSE completed[Group[t]]
<1> DEFINE e == Group[t]
<1>1. e \in Groups
  BY RunsAreGroups
<1>2. ~Marked(t) /\ t \in Steps(e)
  BY DEF Mark, Marked, Releasing, Steps
<1>3. MarkedOf(e)' = MarkedOf(e) \cup {t} /\ t \notin MarkedOf(e)
  BY <1>2, RunsAreGroups
  DEF Mark, Goto, Marked, Releasing, MarkedOf, Steps, Typed, ServiceTypeOK, Finishers
<1>4. Cardinality(MarkedOf(e)') = Cardinality(MarkedOf(e)) + 1
  BY <1>1, <1>3, StepsFinite, FS_AddElement
<1>5. step[t] \notin TerminalStep
  BY <1>2 DEF Recorded
<1>6. completed'[e] = IF Known(e) THEN completed[e] + 1 ELSE completed[e]
  BY <1>1, <1>5 DEF Mark, Typed, ServiceTypeOK
<1>7. Known(e)' <=> Known(e)
  BY DEF Mark, Known
<1>8. completed[e] \in Nat /\ Cardinality(MarkedOf(e)) \in Nat
  BY <1>1, StepsFinite DEF Typed, ServiceTypeOK
<1> QED BY <1>4, <1>6, <1>7, <1>8 DEF Counted

\* The counter of a run follows its marks.
LEMMA CountedStep ==
    ASSUME Typed, PlacesOK, CallbacksRun, [Next]_vars,
           \A e \in Groups : BootLife(e), \A t \in Tasks : NodeLife(t) /\ Recorded(t),
           NEW f \in Groups, Counted(f)
    PROVE  Counted(f)'
<1>1. CASE \E t \in Steps(f) : Mark(t)
  BY <1>1, MarkCounts DEF Steps
<1>2. CASE ~\E t \in Steps(f) : Mark(t)
  <2>1. MarkedOf(f)' = MarkedOf(f)
    BY <1>2, MarkedForGood DEF MarkedOf, Steps
  <2>2. completed'[f] = completed[f]
    <3>1. ASSUME NEW t \in Tasks, Mark(t) PROVE completed'[f] = completed[f]
      <4>1. Group[t] # f
        BY <1>2, <3>1 DEF Steps
      <4> QED BY <3>1, <4>1 DEF Mark, Typed, ServiceTypeOK
    <3>2. CASE UNCHANGED completed
      BY <3>2
    <3> QED
      BY <3>1, <3>2
      DEF Next, vars, serviceVars, Dispatch, Expiry, CloseQueue, CloseStep, BootsWaited, Drained,
          CloseReturns, CloseDestroys, CreateExecution, BootStep, BootResolve, BootSetup,
          BootEnqueue, BootFails, FinishStep, Destroy, Teardown, Prune, NodeStep, Check, Start,
          Return, BeginCallback, EndCallback, TaskRoutine, Leases, SendReport, LandReport,
          BackendReturns
  <2>3. CASE Known(f)' => Known(f)
    BY <2>1, <2>2, <2>3 DEF Counted
  <2>4. CASE Known(f)' /\ ~Known(f)
    <3>1. pc[f] = "none"
      BY <2>4, KnownOnlyByLaunch DEF Typed, CreateExecution
    <3>2. MarkedOf(f) = {}
      BY <3>1, EnteredIsBooted, RunsAreGroups DEF MarkedOf, Steps, Marked, Releasing
    <3>3. Cardinality(MarkedOf(f)) = 0 /\ completed[f] \in Nat
      BY <3>2, FS_EmptySet DEF Typed, ServiceTypeOK
    <3> QED BY <2>1, <2>2, <3>3 DEF Counted
  <2> QED BY <2>3, <2>4
<1> QED BY <1>1, <1>2

\* A step is the last to be marked when the run is complete.
LEMMA LastReleasesStep ==
    ASSUME Typed, PlacesOK, CallbacksRun, LastReleases, [Next]_vars,
           \A e \in Groups : BootLife(e) /\ Counted(e),
           \A t \in Tasks : NodeLife(t) /\ Recorded(t)
    PROVE  LastReleases'
<1> SUFFICES ASSUME NEW x \in Tasks, NEW u \in Tasks, pc'[x] \in Releasing, Group[u] = Group[x]
             PROVE  Marked(u)'
  BY DEF LastReleases
<1>1. CASE pc[x] \in Releasing
  BY <1>1, MarkedForGood DEF LastReleases
<1>2. CASE Mark(x)
  <2> DEFINE e == Group[x]
  <2>1. /\ e \in Groups /\ pc[x] = "mark" /\ prepared[e]
        /\ Known(e) /\ Complete(e, completed'[e])
    <3>1. e \in Groups /\ pc[x] = "mark"
      BY <1>2, RunsAreGroups DEF Mark
    <3>2. prepared[e]
      BY <3>1, EnteredIsBooted
    <3>3. pc'[x] = "destroy" /\ Known(e)
      BY <1>2, RunsAreGroups DEF Mark, Goto, Releasing, Typed, ServiceTypeOK, Finishers
    <3>4. Complete(e, completed'[e])
      BY <1>2, <3>1, <3>3 DEF Mark, Goto, Typed, ServiceTypeOK, Finishers
    <3> QED BY <3>1, <3>2, <3>3, <3>4
  <2>2. completed'[e] >= Cardinality(Steps(e))
    BY <2>1 DEF Complete, Total
  <2>3. completed'[e] <= Cardinality(MarkedOf(e))'
    BY <1>2, <2>1, MarkCounts DEF Counted
  <2>4. Steps(e)' = Steps(e)
    BY DEF Steps
  <2>5. /\ MarkedOf(e)' \subseteq Steps(e) /\ IsFiniteSet(Steps(e))
        /\ Cardinality(MarkedOf(e)') \in Nat /\ Cardinality(Steps(e)) \in Nat
    <3>1. MarkedOf(e)' \subseteq Steps(e)
      BY DEF MarkedOf, Steps
    <3> QED BY <2>1, <3>1, StepsFinite, FS_Subset, FS_CardinalityType
  <2>6. completed'[e] \in Nat
    BY <2>1, ServiceTypeStep DEF Typed, ServiceTypeOK
  <2>7. Cardinality(MarkedOf(e)') = Cardinality(Steps(e))
    <3>1. Cardinality(MarkedOf(e)') <= Cardinality(Steps(e))
      BY <2>5, FS_Subset
    <3> QED BY <2>2, <2>3, <2>5, <2>6, <3>1
  <2>8. MarkedOf(e)' = Steps(e)
    BY <2>5, <2>7, FS_Subset
  <2> QED BY <2>8 DEF MarkedOf, Steps
<1> QED BY <1>1, <1>2, MarkedForGood

\* released is what keeps teardowns apart.
LEMMA OneTeardownStep ==
    ASSUME Typed, PlacesOK, CallbacksRun, OneTeardown, [Next]_vars
    PROVE  OneTeardown'
<1> USE RunsAreGroups DEF Typed, ServiceTypeOK, OneTeardown
<1>1. ASSUME UNCHANGED released,
             \A x \in Finishers : pc'[x] = "teardown" => pc[x] = "teardown",
             \A e \in Groups : resources'[e] = "down" => resources[e] = "down"
      PROVE  OneTeardown'
  BY <1>1 DEF RunOf
<1>2. CASE QueueOnly
  BY <1>1, <1>2, QueueOnlyFrame DEF serviceVars
<1>3. ASSUME NEW e \in Groups, CreateExecution(e) \/ BootStep(e) PROVE OneTeardown'
  BY <1>1, <1>3
  DEF CreateExecution, BootStep, BootResolve, BootSetup, BootEnqueue, BootFails, Goto, Finishers
<1>4. ASSUME NEW y \in Finishers, Destroy(y) PROVE OneTeardown'
  <2>1. CASE pc'[y] = "teardown"
    <3>1. /\ ~released[RunOf(y)] /\ released'[RunOf(y)] = TRUE /\ resources' = resources
          /\ \A e \in Groups : released[e] => released'[e]
          /\ \A x \in Finishers : x # y => pc'[x] = pc[x]
      BY <1>4, <2>1 DEF Destroy, Goto
    <3>2. ASSUME NEW x \in Finishers, pc'[x] = "teardown", x # y PROVE RunOf(x) # RunOf(y)
      BY <3>1, <3>2
    <3>3. \A x \in Finishers : RunOf(x)' = RunOf(x) /\ RunOf(x) \in Groups
      BY DEF RunOf
    <3>4. \A e \in Groups : resources[e] = "down" => released[e]
      OBVIOUS
    <3>5. ASSUME NEW x \in Finishers, pc'[x] = "teardown"
          PROVE  released'[RunOf(x)] /\ resources'[RunOf(x)] # "down"
      BY <3>1, <3>3, <3>4, <3>5
    <3>6. \A x, z \in Finishers :
             pc'[x] = "teardown" /\ pc'[z] = "teardown" /\ RunOf(x) = RunOf(z) => x = z
      BY <3>1, <3>2
    <3> QED BY <3>1, <3>3, <3>4, <3>5, <3>6
  <2>2. CASE pc'[y] # "teardown"
    <3>1. /\ resources' = resources
          /\ \A e \in Groups : released[e] => released'[e]
          /\ \A x \in Finishers : x # y => pc'[x] = pc[x]
      BY <1>4 DEF Destroy, Goto
    <3> QED BY <2>2, <3>1 DEF RunOf
  <2> QED BY <2>1, <2>2
<1>5. ASSUME NEW y \in Finishers, Teardown(y) PROVE OneTeardown'
  <2>1. /\ released' = released /\ released[RunOf(y)] /\ pc[y] = "teardown"
        /\ pc'[y] = "prune"
        /\ \A x \in Finishers : x # y => pc'[x] = pc[x]
        /\ \A e \in Groups : e # RunOf(y) => resources'[e] = resources[e]
    BY <1>5 DEF Teardown, Goto
  <2>2. \A x \in Finishers : pc'[x] = "teardown" => pc[x] = "teardown" /\ RunOf(x) # RunOf(y)
    BY <2>1
  <2> QED BY <2>1, <2>2 DEF RunOf
<1>6. ASSUME NEW y \in Finishers, Prune(y) PROVE OneTeardown'
  BY <1>1, <1>6 DEF Prune, Goto
<1>7. ASSUME NEW t \in Tasks,
             NodeStep(t) \/ (\E r : BackendReturns(t, r)) \/ SendReport(t) \/ LandReport(t)
      PROVE  OneTeardown'
  BY <1>1, <1>7
  DEF NodeStep, Check, Start, Mark, Return, BeginCallback, EndCallback, SendReport, LandReport,
      BackendReturns, Goto, Finishers
<1>8. ASSUME NEW e \in Groups, CloseDestroys(e) PROVE OneTeardown'
  <2>1. /\ pc' = pc
        /\ released' = [released EXCEPT ![e] = released[e] \/ Known(e)]
        /\ resources' = [resources EXCEPT ![e] =
                            IF Known(e) /\ ~released[e] THEN "down" ELSE resources[e]]
    BY <1>8 DEF CloseDestroys
  <2>2. \A f \in Groups : released[f] => released'[f]
    BY <2>1
  <2>3. CASE Known(e) /\ ~released[e]
    <3>1. \A f \in Groups : f # e => resources'[f] = resources[f]
      BY <2>1
    <3>2. released'[e]
      BY <2>1, <2>3
    <3> QED BY <2>1, <2>2, <2>3, <3>1, <3>2 DEF RunOf
  <2>4. CASE ~(Known(e) /\ ~released[e])
    <3>1. \A f \in Groups : resources'[f] = resources[f]
      BY <2>1, <2>4
    <3> QED BY <2>1, <2>2, <3>1 DEF RunOf
  <2> QED BY <2>3, <2>4
<1>9. CASE UNCHANGED vars \/ CloseQueue \/ BootsWaited \/ Drained \/ CloseReturns
  BY <1>1, <1>9 DEF vars, serviceVars, CloseQueue, BootsWaited, Drained, CloseReturns
<1> QED
  BY <1>2, <1>3, <1>4, <1>5, <1>6, <1>7, <1>8, <1>9 DEF Next, QueueOnly, FinishStep, CloseStep

\* A backend goes only when its steps have been marked, or with Close.
LEMMA BackendUpStep ==
    ASSUME Typed, PlacesOK, CallbacksRun, LastReleases, [Next]_vars,
           \A e \in Groups : BootLife(e), \A t \in Tasks : NodeLife(t),
           NEW f \in Groups, BackendUp(f)
    PROVE  BackendUp(f)'
<1> USE RunsAreGroups DEF Typed, ServiceTypeOK, QueueTypeOK, Goto
<1>0. /\ Steps(f)' = Steps(f)
      /\ \A u \in Steps(f) : Marked(u) => Marked(u)'
  BY MarkedForGood DEF Steps
<1>1. ASSUME closing' \in {"open", "boots", "drain"} => closing \in {"open", "boots", "drain"},
             pc'[f] = "sidecar" => pc[f] = "sidecar",
             arrival'[f] # 0 => arrival[f] # 0,
             resources[f] = "up" => resources'[f] = "up"
      PROVE  BackendUp(f)'
  BY <1>0, <1>1 DEF BackendUp
<1>2. CASE QueueOnly
  BY <1>1, <1>2, QueueOnlyFrame DEF serviceVars
<1>3. ASSUME NEW e \in Groups, CreateExecution(e) \/ BootResolve(e) \/ BootFails(e)
      PROVE  BackendUp(f)'
  BY <1>1, <1>3 DEF CreateExecution, BootResolve, BootFails, Finishers, queueVars
<1>4. ASSUME NEW e \in Groups, BootSetup(e) PROVE BackendUp(f)'
  <2>1. CASE e = f
    BY <1>4, <2>1 DEF BootSetup, BackendUp
  <2>2. CASE e # f
    BY <1>1, <1>4, <2>2 DEF BootSetup, Finishers, queueVars
  <2> QED BY <2>1, <2>2
<1>5. ASSUME NEW e \in Groups, BootEnqueue(e) PROVE BackendUp(f)'
  <2>1. CASE e = f
    <3>1. pc[f] = "sidecar" /\ pc'[f] = "done" /\ UNCHANGED <<resources, closing>>
      BY <1>5, <2>1 DEF BootEnqueue, Finishers
    <3> QED BY <3>1 DEF BackendUp
  <2>2. CASE e # f
    BY <1>1, <1>5, <2>2 DEF BootEnqueue, Enqueue, Finishers
  <2> QED BY <2>1, <2>2
<1>6. ASSUME NEW y \in Finishers, Destroy(y) \/ Prune(y) PROVE BackendUp(f)'
  BY <1>1, <1>6 DEF Destroy, Prune, PruneGroup, Finishers, queueVars
<1>7. ASSUME NEW y \in Finishers, Teardown(y) PROVE BackendUp(f)'
  <2>1. CASE RunOf(y) # f
    BY <1>1, <1>7, <2>1 DEF Teardown, Finishers, queueVars
  <2>2. CASE y = f
    <3>1. arrival[f] = 0
      BY <1>7, <2>2 DEF Teardown, BootLife
    <3> QED BY <1>7, <2>2, <3>1 DEF Teardown, BackendUp, Finishers, queueVars
  <2>3. CASE y \in Tasks /\ Group[y] = f
    <3>1. \A u \in Steps(f) : Marked(u)
      BY <1>7, <2>3 DEF Teardown, LastReleases, Releasing, Steps
    <3>2. pc'[f] = pc[f] /\ pc[f] # "sidecar"
      BY <1>7, <2>3, EnteredIsBooted DEF Teardown, Finishers
    <3> QED BY <1>0, <3>1, <3>2 DEF BackendUp
  <2> QED BY <2>1, <2>2, <2>3
<1>8. ASSUME NEW t \in Tasks,
             NodeStep(t) \/ (\E r : BackendReturns(t, r)) \/ SendReport(t) \/ LandReport(t)
      PROVE  UNCHANGED <<closing, resources, arrival>> /\ pc'[f] = pc[f]
  BY <1>8
  DEF NodeStep, Check, Start, Mark, CancelRunningGroup, Return, RunReturns, BeginCallback,
      EndCallback, Notify, SendReport, LandReport, BackendReturns, Finishers, queueVars
<1>9. ASSUME NEW e \in Groups, CloseDestroys(e) PROVE BackendUp(f)'
  BY <1>9 DEF CloseDestroys, BackendUp
<1>10. CASE UNCHANGED vars \/ CloseQueue \/ BootsWaited \/ Drained \/ CloseReturns
  BY <1>1, <1>10
  DEF vars, serviceVars, queueVars, CloseQueue, Close, BootsWaited, Drained, CloseReturns
<1> QED
  BY <1>1, <1>2, <1>3, <1>4, <1>5, <1>6, <1>7, <1>8, <1>9, <1>10
  DEF Next, QueueOnly, BootStep, FinishStep, CloseStep

\* Hard dependencies are steps of the same run, listed among DependsOn.
LEMMA HardEdges ==
    ASSUME NEW t \in Tasks, NEW d \in HardDependencies(t)
    PROVE  /\ d \in Tasks /\ Group[d] = Group[t]
           /\ \E i \in 1..Len(DependsOn[t]) : DependsOn[t][i] = d
<1>1. d \in Tasks
  BY HardDependenciesAreTasks
<1>2. Group[d] = Group[t]
  BY TopologicalOrder DEF TopologicalOrder, HardDependencies
<1>3. \E i \in 1..Len(DependsOn[t]) : DependsOn[t][i] = d
  <2>1. HardDependencies(t) = {DependsOn[t][i] : i \in 1..Len(DependsOn[t])} \ OnFailure[t]
    BY EdgesSplit DEF EdgesSplit, HardDependencies
  <2> QED BY <2>1
<1> QED BY <1>1, <1>2, <1>3

\* runNode goes on to the backend only from its check.
LEMMA OnlyCheckStarts ==
    ASSUME Typed, CallbacksRun, [Next]_vars, NEW t \in Tasks, pc'[t] \in {"start", "exec"}
    PROVE  pc[t] \in {"start", "exec"} \/ (Check(t) /\ pc'[t] = "start")
<1> SUFFICES ASSUME pc'[t] # pc[t] PROVE pc[t] = "start" \/ (Check(t) /\ pc'[t] = "start")
  OBVIOUS
<1> USE RunsAreGroups
<1> USE DEF Typed, ServiceTypeOK, Goto
<1>1. CASE QueueOnly
  BY <1>1, QueueOnlyFrame DEF serviceVars
<1>2. ASSUME NEW e \in Groups, CreateExecution(e) \/ BootStep(e) PROVE pc'[t] = pc[t]
  BY <1>2
  DEF CreateExecution, BootStep, BootResolve, BootSetup, BootEnqueue, BootFails, Finishers
<1>3. ASSUME NEW x \in Finishers, FinishStep(x) PROVE FALSE
  BY <1>3 DEF FinishStep, Destroy, Teardown, Prune, Finishers
<1>4. ASSUME NEW u \in Tasks, Check(u) PROVE Check(t) /\ pc'[t] = "start"
  <2>1. u = t
    BY <1>4 DEF Check, Finishers
  <2> QED BY <1>4, <2>1 DEF Check, Finishers
<1>5. ASSUME NEW u \in Tasks, Start(u) PROVE pc[t] = "start"
  BY <1>5 DEF Start, Finishers
<1>6. ASSUME NEW u \in Tasks, Mark(u) \/ Return(u) \/ BeginCallback(u) \/ EndCallback(u)
                              \/ (\E r : BackendReturns(u, r))
      PROVE  FALSE
  BY <1>6 DEF Mark, Return, BeginCallback, EndCallback, BackendReturns, Finishers
<1>7. CASE UNCHANGED pc
  BY <1>7
<1> QED
  BY <1>1, <1>2, <1>3, <1>4, <1>5, <1>6, <1>7
  DEF Next, vars, serviceVars, QueueOnly, CloseQueue, CloseStep, BootsWaited, Drained, CloseReturns,
      CloseDestroys, NodeStep, SendReport, LandReport

\* A step that shouldSkipNode lets pass, of a run on record, has dependencies
\* that returned nil and were not skipped.
LEMMA FoundedStep ==
    ASSUME Typed, PlacesOK, CallbacksRun, DependenciesReturned, [Next]_vars,
           \A e \in Groups : BootLife(e),
           \A u \in Tasks : NodeLife(u) /\ PlanLife(u) /\ Recorded(u),
           NEW t \in Tasks, Founded(t)
    PROVE  Founded(t)'
<1> SUFFICES ASSUME pc'[t] \in {"start", "exec"}, Known(Group[t])', NEW d \in HardDependencies(t)
             PROVE  pc'[d] = "done" /\ plan'[d] \in {"healthy", "continue"}
  BY DEF Founded, HardDependencies
<1> USE RunsAreGroups
<1>0. d \in Tasks /\ Group[d] = Group[t]
  BY HardEdges
<1>1. CASE pc[t] \in {"start", "exec"}
  <2>1. Known(Group[t])
    BY <1>1, KnownBefore
  <2>2. pc[d] = "done" /\ plan[d] \in {"healthy", "continue"}
    BY <1>1, <2>1 DEF Founded
  <2> QED BY <1>0, <2>2, MarkedForGood DEF Marked
<1>2. CASE Check(t) /\ pc'[t] = "start"
  <2>1. routine[t] # "none" /\ UNCHANGED runOrder
    BY <1>2 DEF Check
  <2>2. Known(Group[t])
    BY <2>1 DEF Known
  <2>3. Returned(d)
    BY <2>1 DEF DependenciesReturned
  <2>4. pc[d] = "done" /\ RunResult(d) = "ok"
    BY <1>0, <2>3 DEF Returned, NodeLife
  <2>5. plan[d] \in {"healthy", "skip", "drop", "continue"}
    <3>1. plan[d] # "none" /\ plan[d] \in {"none", "healthy", "skip", "fail", "cancel", "continue", "drop"}
      BY <1>0, <2>4 DEF PlanLife, Typed, ServiceTypeOK
    <3>2. plan[d] # "fail" /\ plan[d] # "cancel"
      BY <2>4 DEF RunResult
    <3> QED BY <3>1, <3>2
  <2>6. ~ShouldSkip(t)
    BY <1>2, <2>2 DEF Check, Goto, Typed, ServiceTypeOK, Finishers
  <2>7. step[d] # "skipped"
    BY <2>6, HardEdges DEF ShouldSkip
  <2>8. plan[d] \notin {"skip", "drop"}
    BY <1>0, <2>2, <2>4, <2>7 DEF Recorded, Marked
  <2> QED BY <1>0, <2>4, <2>5, <2>8, MarkedForGood DEF Marked
<1>3. pc[t] \in {"start", "exec"} \/ (Check(t) /\ pc'[t] = "start")
  BY OnlyCheckStarts
<1> QED BY <1>1, <1>2, <1>3

-----------------------------------------------------------------------------
(* The invariant holds, and the properties follow *)

IndInv == Typed /\ DependenciesReturned /\ ServiceInv

\* The invariant holds initially.
LEMMA InvInit == Init => IndInv
<1> SUFFICES ASSUME Init PROVE IndInv
  OBVIOUS
<1> USE RunsAreGroups
<1>1. ASSUME NEW e \in Groups PROVE MarkedOf(e) = {} /\ Cardinality(MarkedOf(e)) = 0 /\ ~Known(e)
  <2>1. MarkedOf(e) = {} /\ ~Known(e)
    BY DEF Init, ServiceInit, MarkedOf, Steps, Marked, Releasing, Known, Finishers
  <2> QED BY <2>1, FS_EmptySet
<1>2. ASSUME NEW e \in Groups PROVE BootLife(e) /\ Counted(e) /\ BackendUp(e)
  BY <1>1 DEF Init, QueueInit, ServiceInit, BootLife, Counted, BackendUp, Finishers
<1>3. ASSUME NEW t \in Tasks PROVE NodeLife(t) /\ PlanLife(t) /\ Recorded(t) /\ Founded(t)
  BY DEF Init, QueueInit, ServiceInit, NodeLife, PlanLife, Recorded, Founded, Marked, Releasing,
         TerminalStep, Finishers
<1>4. PlacesOK /\ CallbacksRun /\ LastReleases /\ OneTeardown
  BY DEF Init, QueueInit, ServiceInit, PlacesOK, NodePlaces, BootPlaces, CallbacksRun, LastReleases,
         OneTeardown, Releasing, Finishers
<1>5. Typed /\ DependenciesReturned
  BY ServiceTypeInit, TypeInit, LifecycleInit, DependenciesReturnedInit DEF Init, Typed
<1> QED BY <1>2, <1>3, <1>4, <1>5 DEF IndInv, ServiceInv

\* Every step keeps it.
LEMMA InvStep == IndInv /\ [Next]_vars => IndInv'
<1> SUFFICES ASSUME IndInv, [Next]_vars PROVE IndInv'
  OBVIOUS
<1>0. /\ Typed /\ DependenciesReturned /\ ServiceInv
      /\ PlacesOK /\ CallbacksRun /\ LastReleases /\ OneTeardown
      /\ \A e \in Groups : BootLife(e) /\ Counted(e) /\ BackendUp(e)
      /\ \A t \in Tasks : NodeLife(t) /\ PlanLife(t) /\ Recorded(t) /\ Founded(t)
      /\ \A t \in Tasks : Group[t] \in Groups
  BY RunsAreGroups DEF IndInv, ServiceInv
<1>1. [QueueNext]_queueVars
  BY <1>0, StepOfQueue
<1>2. Typed' /\ DependenciesReturned'
  BY <1>0, <1>1, TypeStep, LifecycleStep, DependenciesReturnedStep, ServiceTypeStep DEF Typed
<1>3. PlacesOK' /\ CallbacksRun' /\ LastReleases' /\ OneTeardown'
  BY <1>0, PlacesStep, CallbacksStep, LastReleasesStep, OneTeardownStep
<1>4. ASSUME NEW e \in Groups PROVE (BootLife(e) /\ Counted(e) /\ BackendUp(e))'
  BY <1>0, BootLifeStep, CountedStep, BackendUpStep
<1>5. ASSUME NEW t \in Tasks PROVE (NodeLife(t) /\ PlanLife(t) /\ Recorded(t) /\ Founded(t))'
  BY <1>0, NodeLifeStep, PlanLifeStep, RecordedStep, FoundedStep
<1> QED BY <1>2, <1>3, <1>4, <1>5 DEF IndInv, ServiceInv

\* The invariant holds in every behaviour of the service.
THEOREM ServiceInvariant == Spec => []IndInv
  BY InvInit, InvStep, PTL DEF Spec

\* The service is a caller the queue's theorems are about: whatever the boots,
\* the steps, the callbacks and Close do, every behaviour is one of QueueSpec.
THEOREM ServiceUsesQueue == Spec => QueueSpec
<1>1. IndInv /\ [Next]_vars => [QueueNext]_queueVars
  BY StepOfQueue DEF IndInv
<1>2. Init => QueueInit
  BY DEF Init
<1> QED BY <1>1, <1>2, ServiceInvariant, PTL DEF Spec, QueueSpec

\* PruneGroup finds no pending task of the run, whoever releases it.
THEOREM PrunedWhenSettled == Spec => []PruneWhenSettled
<1>1. IndInv => PruneWhenSettled
  BY PruneIsSettled DEF IndInv
<1> QED BY <1>1, ServiceInvariant, PTL

\* DestroyExecution is called at most once for a run: the last step, a failed
\* boot and Close meet at released.
THEOREM DestroyOnce == Spec => []DestroyedOnce
<1>1. IndInv => DestroyedOnce
  <2> SUFFICES ASSUME IndInv, NEW e \in Groups
               PROVE  Cardinality({x \in Finishers : RunOf(x) = e /\ pc[x] = "teardown"})
                        + (IF resources[e] = "down" THEN 1 ELSE 0) <= 1
    BY DEF DestroyedOnce
  <2> DEFINE tearing == {x \in Finishers : RunOf(x) = e /\ pc[x] = "teardown"}
  <2>1. /\ \A x, y \in tearing : x = y
        /\ tearing # {} => resources[e] # "down"
    BY DEF IndInv, ServiceInv, OneTeardown
  <2>2. CASE tearing = {}
    BY <2>2, FS_EmptySet
  <2>3. CASE tearing # {}
    <3>1. PICK x \in tearing : tearing = {x}
      BY <2>1, <2>3
    <3>2. Cardinality(tearing) = 1
      <4> HIDE DEF tearing
      <4> QED BY <3>1, FS_Singleton
    <3> QED BY <2>1, <2>3, <3>2
  <2> QED BY <2>2, <2>3
<1> QED BY <1>1, ServiceInvariant, PTL

\* Until Close goes on to destroy what is left, a backend runs a step only
\* between SetupExecution and DestroyExecution, also when runs are evicted,
\* leases lapse and reports land late.
THEOREM LiveBackend ==
    Spec => [](closing \in {"open", "boots", "drain"} => StepsRunOnLiveBackend)
<1>1. IndInv => (closing \in {"open", "boots", "drain"} => StepsRunOnLiveBackend)
  <2> SUFFICES ASSUME IndInv, closing \in {"open", "boots", "drain"}, NEW t \in Tasks,
                      pc[t] = "exec"
               PROVE  resources[Group[t]] = "up"
    BY DEF StepsRunOnLiveBackend
  <2>1. /\ Typed /\ BootLife(Group[t]) /\ NodeLife(t) /\ BackendUp(Group[t])
        /\ t \in Steps(Group[t])
    BY RunsAreGroups DEF IndInv, ServiceInv, Steps
  <2>2. arrival[Group[t]] # 0
    BY <2>1, EnteredIsBooted
  <2>3. ~Marked(t)
    BY DEF Marked, Releasing
  <2> QED BY <2>1, <2>2, <2>3 DEF BackendUp
<1> QED BY <1>1, ServiceInvariant, PTL

\* A step of a run on record executes only on dependencies that ended healthy,
\* or failed with continue_on_failure.
THEOREM GoodDependencies == Spec => []RunsOnGoodDependencies
<1>1. IndInv => RunsOnGoodDependencies
  <2> SUFFICES ASSUME IndInv, NEW t \in Tasks, pc[t] = "exec", Known(Group[t]),
                      NEW d \in HardDependencies(t)
               PROVE  \/ verdict[d] = "healthy"
                      \/ verdict[d] = "failed" /\ d \in ContinueOnFailure /\ plan[d] # "cancel"
    BY DEF RunsOnGoodDependencies, HardDependencies
  <2>1. d \in Tasks /\ Group[d] = Group[t]
    BY HardEdges
  <2>2. pc[d] = "done" /\ plan[d] \in {"healthy", "continue"}
    BY DEF IndInv, ServiceInv, Founded
  <2>3. verdict[d] = MarkStatus(d)
    BY <2>1, <2>2 DEF IndInv, ServiceInv, Recorded, Marked
  <2>4. plan[d] = "continue" => d \in ContinueOnFailure
    BY <2>1 DEF IndInv, ServiceInv, PlanLife
  <2> QED BY <2>2, <2>3, <2>4 DEF MarkStatus
<1> QED BY <1>1, ServiceInvariant, PTL

\* What is proved of the queue holds under the service: its steps run in
\* dependency order, each is run or reported canceled and not both, pools are
\* counted and kept to their capacity, and no wake-up is lost.
THEOREM QueueUnderService ==
    Spec => [](/\ RunAfterHardDependencies /\ RunOrNotifyNotBoth
               /\ SlotsAreExact /\ NoLostWakeup)
  BY ServiceUsesQueue, RunOrder, RunOrNotify, SlotsExact, WakeupNeverLost, PTL
=============================================================================

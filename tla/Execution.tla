------------------------------ MODULE Execution ------------------------------
(***************************************************************************)
(* The execution service of the control plane, composed with the queue it  *)
(* runs on (src/backend/internal/execution: runtime.go, flow.go,           *)
(* telemetry.go, remote_workers.go).                                       *)
(*                                                                         *)
(* A group of the queue is one execution, a task is one step of it.  An    *)
(* execution is created, booted by a goroutine of its own, and handed to   *)
(* the queue as one batch.  The queue then calls back: Task.Run is         *)
(* runNode, Task.OnCanceled marks the step skipped.  Whoever marks the     *)
(* last step releases the backend and prunes the queue's entries.          *)
(*                                                                         *)
(* pc gives the place of a step in runNode (or in its OnCanceled callback, *)
(* which the dispatcher runs) and of an execution in bootExecution.  Each  *)
(* action is one critical section of s.mu or one call out of it.           *)
(***************************************************************************)
EXTENDS Queue

CONSTANTS
    DependsOn,         \* TopologyNode.DependsOn, on_failure edges included
    OnFailure,         \* TopologyNode.OnFailure
    ContinueOnFailure, \* the steps with continue_on_failure
    Remote,            \* the steps that run on a remote agent
    KubeServices,      \* the services the control plane itself starts on Kubernetes
    Lapsing,           \* bound: the steps whose queue lease may lapse
    MaxBoots,          \* maxConcurrentExecutions
    MaxStored,         \* maxStoredExecutions
    Stoppable,         \* bound: whether the service may be closed
    DrainTimesOut      \* bound: whether Close may give up waiting

HardOf(t) == SelectSeq(DependsOn[t], LAMBDA d : d \notin OnFailure[t])
SoftOf(t) == {d \in OnFailure[t] : \E i \in 1..Len(DependsOn[t]) : DependsOn[t][i] = d}

\* bootExecution splits the edges of a node between the queue's two kinds.
ASSUME ExecutionAssumption ==
    /\ DependsOn \in [Tasks -> Seq(Tasks)]
    /\ OnFailure \in [Tasks -> SUBSET Tasks]
    /\ ContinueOnFailure \subseteq Tasks /\ Remote \subseteq Tasks
    /\ KubeServices \subseteq Tasks \ Remote /\ Lapsing \subseteq Tasks
    /\ \A t \in Tasks : Dependencies[t] = HardOf(t) /\ SoftDependencies[t] = SoftOf(t)
    /\ Tasks \cap Groups = {}
    /\ MaxBoots \in Nat \ {0} /\ MaxStored \in Nat \ {0}
    /\ Stoppable \in BOOLEAN /\ DrainTimesOut \in BOOLEAN

\* resolveTopology lists a node's on_failure edges among its DependsOn, so the
\* split loses none.
ASSUME EdgesSplit ==
    \A t \in Tasks :
        LET edges == {DependsOn[t][i] : i \in 1..Len(DependsOn[t])}
        IN  /\ OnFailure[t] \subseteq edges
            /\ {Dependencies[t][i] : i \in 1..Len(Dependencies[t])} = edges \ OnFailure[t]

VARIABLES
    runOrder,  \* s.order, which lists exactly the keys of s.executions
    status,    \* record.Status
    prepared,  \* total, stepStatus and backend have been set
    step,      \* stepStatus
    completed, \* completed
    verdict,   \* the terminal event of the step in record.Events
    released,  \* released
    resources, \* what the backend holds for the execution
    pc,        \* where each step and each boot is
    plan,      \* how runNode has decided to mark the step
    reports,   \* state reports of remote steps past the coordinator's check
    closing,   \* where Close is
    doomed     \* the executions Close still has to destroy

serviceVars == <<runOrder, status, prepared, step, completed, verdict, released,
                 resources, pc, plan, reports, closing, doomed>>
vars == <<queueVars, serviceVars>>

Finishers == Tasks \cup Groups
RunOf(x)  == IF x \in Groups THEN x ELSE Group[x]
Steps(e)  == {t \in Tasks : Group[t] = e}
Known(e)  == \E i \in 1..Len(runOrder) : runOrder[i] = e
Total(e)  == IF prepared[e] THEN Cardinality(Steps(e)) ELSE 0
Goto(x, place) == pc' = [pc EXCEPT ![x] = place]

TerminalStep == {"healthy", "failed", "skipped"}
Ended        == {"Healthy", "Failed"}

ServiceInit ==
    /\ runOrder = <<>>
    /\ status = [e \in Groups |-> "none"]
    /\ prepared = [e \in Groups |-> FALSE]
    /\ step = [t \in Tasks |-> "none"]
    /\ completed = [e \in Groups |-> 0]
    /\ verdict = [t \in Tasks |-> "none"]
    /\ released = [e \in Groups |-> FALSE]
    /\ resources = [e \in Groups |-> "none"]
    /\ pc = [x \in Finishers |-> "none"]
    /\ plan = [t \in Tasks |-> "none"]
    /\ reports = {}
    /\ closing = "open"
    /\ doomed = {}

-----------------------------------------------------------------------------
(* CreateExecution *)

\* evictOldExecutionsLocked drops the oldest entries while there are too many
\* and they have ended.
Evicted(order) ==
    LET Goes(k) == \A i \in 1..k : i <= Len(order) - MaxStored /\ status[order[i]] \in Ended
    IN  SubSeq(order, Cardinality({k \in 1..Len(order) : Goes(k)}) + 1, Len(order))

Booting == {e \in Groups : pc[e] \notin {"none", "done"}}

\* The semaphore bounds the boots in progress; a full one rejects the launch.
\* Nothing keeps a launch from coming after Close.
CreateExecution(e) ==
    /\ pc[e] = "none"
    /\ Cardinality(Booting) < MaxBoots
    /\ runOrder' = Evicted(Append(runOrder, e))
    /\ status' = [status EXCEPT ![e] = "Booting"]
    /\ Goto(e, "resolve")
    /\ UNCHANGED <<queueVars, prepared, step, completed, verdict, released, resources,
                   plan, reports, closing, doomed>>

-----------------------------------------------------------------------------
(* bootExecution *)

\* Topology and profile overlay resolve, and the record is filled in.
BootResolve(e) ==
    /\ pc[e] = "resolve"
    /\ Goto(e, "setup")
    /\ prepared' = [prepared EXCEPT ![e] = TRUE]
    /\ step' = [t \in Tasks |-> IF Group[t] = e THEN "pending" ELSE step[t]]
    /\ UNCHANGED <<queueVars, runOrder, status, completed, verdict, released, resources,
                   plan, reports, closing, doomed>>

BootSetup(e) ==
    /\ pc[e] = "setup"
    /\ resources' = [resources EXCEPT ![e] = "up"]
    /\ Goto(e, "sidecar")
    /\ UNCHANGED <<queueVars, runOrder, status, prepared, step, completed, verdict,
                   released, plan, reports, closing, doomed>>

\* Enqueue cannot fail here: every task has a Run and an id that starts with
\* the fresh execution id, so the branch that deletes the record is not taken.
BootEnqueue(e) ==
    /\ pc[e] = "sidecar"
    /\ Enqueue(e)
    /\ Goto(e, "done")
    /\ UNCHANGED <<runOrder, status, prepared, step, completed, verdict, released,
                   resources, plan, reports, closing, doomed>>

\* failBootedExecution: any of the three stages fails; a backend setup that
\* fails may have created some of its resources.
BootFails(e) ==
    /\ pc[e] \in {"resolve", "setup", "sidecar"}
    /\ \/ UNCHANGED resources
       \/ pc[e] = "setup" /\ resources' = [resources EXCEPT ![e] = "up"]
    /\ status' = [status EXCEPT ![e] = IF Known(e) THEN "Failed" ELSE @]
    /\ Goto(e, "destroy")
    /\ UNCHANGED <<queueVars, runOrder, prepared, step, completed, verdict, released, plan,
                   reports, closing, doomed>>

-----------------------------------------------------------------------------
(* finishExecutionObservation: destroyExecutionBackend, then PruneGroup *)

\* Mutant: a failed run is not released.
DestroyUnlessFailed(x) ==
    LET e == RunOf(x)
        mine == Known(e) /\ ~released[e] /\ status[e] # "Failed"
    IN  /\ pc[x] = "destroy"
        /\ released' = [released EXCEPT ![e] = @ \/ mine]
        /\ Goto(x, IF mine /\ prepared[e] THEN "teardown" ELSE "prune")
        /\ UNCHANGED <<queueVars, runOrder, status, prepared, step, completed, verdict,
                       resources, plan, reports, closing, doomed>>

\* Mutant: released is not looked at.
DestroyUnguarded(x) ==
    LET e == RunOf(x)
    IN  /\ pc[x] = "destroy"
        /\ released' = [released EXCEPT ![e] = @ \/ Known(e)]
        /\ Goto(x, IF Known(e) /\ prepared[e] THEN "teardown" ELSE "prune")
        /\ UNCHANGED <<queueVars, runOrder, status, prepared, step, completed, verdict,
                       resources, plan, reports, closing, doomed>>

\* Under s.mu: only the first caller that still finds the record goes on.
Destroy(x) ==
    LET e == RunOf(x)
        mine == Known(e) /\ ~released[e]
    IN  /\ pc[x] = "destroy"
        /\ released' = [released EXCEPT ![e] = @ \/ mine]
        /\ Goto(x, IF mine /\ prepared[e] THEN "teardown" ELSE "prune")
        /\ UNCHANGED <<queueVars, runOrder, status, prepared, step, completed, verdict,
                       resources, plan, reports, closing, doomed>>

Teardown(x) ==
    /\ pc[x] = "teardown"
    /\ resources' = [resources EXCEPT ![RunOf(x)] = "down"]
    /\ Goto(x, "prune")
    /\ UNCHANGED <<queueVars, runOrder, status, prepared, step, completed, verdict, released,
                   plan, reports, closing, doomed>>

Prune(x) ==
    /\ pc[x] = "prune"
    /\ PruneGroup(RunOf(x))
    /\ Goto(x, IF x \in Groups THEN "done" ELSE "return")
    /\ UNCHANGED <<runOrder, status, prepared, step, completed, verdict, released, resources,
                   plan, reports, closing, doomed>>

-----------------------------------------------------------------------------
(* flow.go: which steps are skipped *)

\* A set of steps that holds what its members depend on.
Closed(S) == \A u \in S : \A i \in 1..Len(DependsOn[u]) : DependsOn[u][i] \in S

\* The steps t depends on, directly or not, and t itself.
Upstream ==
    [t \in Tasks |-> {u \in Tasks : \A S \in SUBSET Tasks : t \in S /\ Closed(S) => u \in S}]

Triggered(t) == \E d \in OnFailure[t] : step[d] = "failed"

\* isFailurePathNodeLocked
FailurePath(t) == \E u \in Upstream[t] : Triggered(u)

\* Mutant: a failed dependency skips its handler too.
ShouldSkipFailedCause(t) ==
    \/ OnFailure[t] # {} /\ ~Triggered(t)
    \/ \E i \in 1..Len(DependsOn[t]) :
        step[DependsOn[t][i]] \in {"skipped", "failed"} /\ DependsOn[t][i] \notin ContinueOnFailure
    \/ status[Group[t]] = "Failed" /\ ~FailurePath(t)

\* shouldSkipNode, for a record that has not been evicted
ShouldSkip(t) ==
    \/ OnFailure[t] # {} /\ ~Triggered(t)
    \/ \E i \in 1..Len(DependsOn[t]) :
        LET d == DependsOn[t][i]
        IN  \/ step[d] = "skipped"
            \/ step[d] = "failed" /\ d \notin OnFailure[t] /\ d \notin ContinueOnFailure
    \/ status[Group[t]] = "Failed" /\ ~FailurePath(t)

-----------------------------------------------------------------------------
(* runNode, called by the queue as Task.Run *)

Check(t) ==
    /\ routine[t] = "running" /\ pc[t] = "none"
    /\ IF Known(Group[t]) /\ ShouldSkip(t)
       THEN Goto(t, "mark") /\ plan' = [plan EXCEPT ![t] = "skip"]
       ELSE Goto(t, "start") /\ UNCHANGED plan
    /\ UNCHANGED <<queueVars, runOrder, status, prepared, step, completed, verdict, released,
                   resources, reports, closing, doomed>>

\* appendEvent with a known step status overwrites the step's status.
AppendEvent(t, new) == step' = [step EXCEPT ![t] = IF Known(Group[t]) THEN new ELSE @]

Start(t) ==
    /\ pc[t] = "start"
    /\ AppendEvent(t, "running")
    /\ Goto(t, "exec")
    /\ UNCHANGED <<queueVars, runOrder, status, prepared, completed, verdict, released,
                   resources, plan, reports, closing, doomed>>

\* What backend.Run (or the mock reset before it) may return.  The step's
\* context derives from the background context and never ends; Canceled comes
\* from waitForServiceRunning, whose own limit may run out while a service that
\* does run is watched for an early crash.  (An agent sends the text of an error,
\* which is no Canceled any more.)
BackendResults(t) == {"ok", "error"} \cup (IF t \in KubeServices THEN {"canceled"} ELSE {})

\* backend.Run returns and runNode decides how to mark the step.
BackendReturns(t, result) ==
    LET failed == Known(Group[t]) /\ status[Group[t]] = "Failed"
    IN  /\ pc[t] = "exec"
        /\ result \in BackendResults(t)
        /\ plan' = [plan EXCEPT ![t] =
              CASE result = "ok"                                      -> "healthy"
                [] result = "canceled" /\ failed /\ ~FailurePath(t)   -> "drop"
                [] result = "canceled" /\ ~(failed /\ ~FailurePath(t)) -> "cancel"
                [] result = "error" /\ t \in ContinueOnFailure        -> "continue"
                [] OTHER                                              -> "fail"]
        /\ Goto(t, "mark")
        /\ UNCHANGED <<queueVars, runOrder, status, prepared, step, completed, verdict,
                       released, resources, reports, closing, doomed>>

MarkStatus(t) == CASE plan[t] = "healthy" -> "healthy"
                   [] plan[t] \in {"skip", "drop"} -> "skipped"
                   [] OTHER               -> "failed"
HardFailure(t) == plan[t] \in {"fail", "cancel"}
RunResult(t)   == CASE plan[t] = "fail"   -> "error"
                    [] plan[t] = "cancel" -> "canceled"
                    [] OTHER              -> "ok"

\* Mutant: one step too early.
CompleteEarly(e, done) == done + 1 >= Total(e)
\* Mutant: one step too late.
CompleteLate(e, done) == done > Total(e)
Complete(e, done) == done >= Total(e)

\* markNodeTerminal, with the CancelRunningGroup of the first hard failure.
Mark(t) ==
    LET e == Group[t]
        fresh == Known(e) /\ step[t] \notin TerminalStep
        done  == IF fresh THEN completed[e] + 1 ELSE completed[e]
        full  == Complete(e, done) /\ (fresh \/ Total(e) > 0)
        fails == fresh /\ HardFailure(t)
    IN  /\ pc[t] = "mark"
        /\ step' = [step EXCEPT ![t] = IF fresh THEN MarkStatus(t) ELSE @]
        /\ verdict' = [verdict EXCEPT ![t] = IF fresh THEN MarkStatus(t) ELSE @]
        /\ completed' = [completed EXCEPT ![e] = done]
        /\ status' = [status EXCEPT ![e] =
              CASE fails                                     -> "Failed"
                [] ~fails /\ fresh /\ full /\ @ # "Failed"   -> "Healthy"
                [] OTHER                                     -> @]
        /\ IF fails /\ status[e] # "Failed" THEN CancelRunningGroup(e) ELSE UNCHANGED queueVars
        /\ Goto(t, IF Known(e) /\ full THEN "destroy" ELSE "return")
        /\ UNCHANGED <<runOrder, prepared, released, resources, plan, reports, closing, doomed>>

\* A step with continue_on_failure records a second event before it returns.
ContinuedEvent(t) == AppendEvent(t, "failed")

\* runNode returns to the queue.
Return(t) ==
    /\ pc[t] = "return"
    /\ RunReturns(t, RunResult(t))
    /\ IF plan[t] = "continue" THEN ContinuedEvent(t) ELSE UNCHANGED step
    /\ Goto(t, "done")
    /\ UNCHANGED <<runOrder, status, prepared, completed, verdict, released, resources,
                   plan, reports, closing, doomed>>

-----------------------------------------------------------------------------
(* OnCanceled, called by the dispatcher from claim *)

BeginCallback(t) ==
    /\ dispatcher = "notify" /\ t \in callbacks
    /\ \A u \in callbacks : ~Before(u, t)
    /\ pc[t] = "none"
    /\ plan' = [plan EXCEPT ![t] = "skip"]
    /\ Goto(t, "mark")
    /\ UNCHANGED <<queueVars, runOrder, status, prepared, step, completed, verdict, released,
                   resources, reports, closing, doomed>>

EndCallback(t) ==
    /\ pc[t] = "return"
    /\ Notify(t)
    /\ Goto(t, "done")
    /\ UNCHANGED <<runOrder, status, prepared, step, completed, verdict, released, resources,
                   plan, reports, closing, doomed>>

-----------------------------------------------------------------------------
(* Reports of remote steps (AssignmentState) *)

\* Coordinator.ReportState checks, under its own mutex, that the assignment
\* is not completed, and calls the observer after releasing it.
SendReport(t) ==
    /\ t \in Remote /\ pc[t] = "exec" /\ t \notin reports
    /\ reports' = reports \cup {t}
    /\ UNCHANGED <<queueVars, runOrder, status, prepared, step, completed, verdict, released,
                   resources, pc, plan, closing, doomed>>

LandReport(t) ==
    /\ t \in reports
    /\ reports' = reports \ {t}
    /\ AppendEvent(t, "running")
    /\ UNCHANGED <<queueVars, runOrder, status, prepared, completed, verdict, released,
                   resources, pc, plan, closing, doomed>>

-----------------------------------------------------------------------------
(* Service.Close *)

CloseQueue ==
    /\ Stoppable /\ closing = "open"
    /\ Close
    /\ closing' = "boots"
    /\ UNCHANGED <<runOrder, status, prepared, step, completed, verdict, released, resources,
                   pc, plan, reports, doomed>>

\* waitFor(&s.boots) ends.
BootsWaited ==
    /\ closing = "boots"
    /\ Booting = {} \/ DrainTimesOut
    /\ closing' = "drain"
    /\ UNCHANGED <<queueVars, runOrder, status, prepared, step, completed, verdict, released,
                   resources, pc, plan, reports, doomed>>

\* queue.Drain returns, and the executions not released yet are collected.
Drained ==
    /\ closing = "drain"
    /\ InFlight = {} \/ DrainTimesOut
    /\ closing' = "destroy"
    /\ doomed' = {e \in Groups : Known(e) /\ prepared[e] /\ ~released[e]}
    /\ UNCHANGED <<queueVars, runOrder, status, prepared, step, completed, verdict, released,
                   resources, pc, plan, reports>>

CloseDestroys(e) ==
    /\ closing = "destroy" /\ e \in doomed
    /\ doomed' = doomed \ {e}
    /\ released' = [released EXCEPT ![e] = @ \/ Known(e)]
    /\ resources' = [resources EXCEPT ![e] = IF Known(e) /\ ~released[e] THEN "down" ELSE @]
    /\ UNCHANGED <<queueVars, runOrder, status, prepared, step, completed, verdict, pc, plan,
                   reports, closing>>

CloseReturns ==
    /\ closing = "destroy" /\ doomed = {}
    /\ closing' = "closed"
    /\ UNCHANGED <<queueVars, runOrder, status, prepared, step, completed, verdict, released,
                   resources, pc, plan, reports, doomed>>

-----------------------------------------------------------------------------
Init == QueueInit /\ ServiceInit

BootStep(e) == BootResolve(e) \/ BootSetup(e) \/ BootEnqueue(e) \/ BootFails(e)

FinishStep(x) == Destroy(x) \/ Teardown(x) \/ Prune(x)

NodeStep(t) == Check(t) \/ Start(t) \/ Mark(t) \/ Return(t) \/ BeginCallback(t) \/ EndCallback(t)

Dispatch == (Claim \/ Launch \/ Idle \/ Wake \/ Stop) /\ UNCHANGED serviceVars

TaskRoutine(t) == (AttachCancel(t) \/ FinishReturned(t) \/ Expire(t)) /\ UNCHANGED serviceVars

Leases(t) == t \in Lapsing /\ (Lapse(t) \/ RenewLease(t)) /\ UNCHANGED serviceVars

Expiry == ExpiryScan /\ UNCHANGED serviceVars

CloseStep == BootsWaited \/ Drained \/ CloseReturns \/ \E e \in Groups : CloseDestroys(e)

Next ==
    \/ Dispatch \/ Expiry
    \/ CloseQueue \/ CloseStep
    \/ \E e \in Groups : CreateExecution(e) \/ BootStep(e)
    \/ \E x \in Finishers : FinishStep(x)
    \/ \E t \in Tasks :
        \/ NodeStep(t) \/ TaskRoutine(t) \/ Leases(t)
        \/ SendReport(t) \/ LandReport(t)
        \/ \E result \in {"ok", "error", "canceled"} : BackendReturns(t, result)

Spec == Init /\ [][Next]_vars

\* Goroutines that can run do run, and backends end the steps they are given;
\* nothing makes a launch, a lapse, a report or a shutdown happen.
Fairness ==
    /\ WF_vars(Dispatch)
    /\ \A x \in Finishers : WF_vars(FinishStep(x))
    /\ \A e \in Groups : WF_vars(BootStep(e))
    /\ \A t \in Tasks :
        /\ WF_vars(NodeStep(t))
        /\ WF_vars(TaskRoutine(t))
        /\ WF_vars(\E result \in {"ok", "error", "canceled"} : BackendReturns(t, result))

FairSpec == Spec /\ Fairness

-----------------------------------------------------------------------------
(* Properties *)

\* Every variable of the service has the type the code gives it.
ServiceTypeOK ==
    /\ runOrder \in Seq(Groups)
    /\ status \in [Groups -> {"none", "Booting"} \cup Ended]
    /\ prepared \in [Groups -> BOOLEAN] /\ released \in [Groups -> BOOLEAN]
    /\ step \in [Tasks -> {"none", "pending", "running"} \cup TerminalStep]
    /\ verdict \in [Tasks -> {"none"} \cup TerminalStep]
    /\ completed \in [Groups -> Nat]
    /\ resources \in [Groups -> {"none", "up", "down"}]
    /\ pc \in [Finishers -> {"none", "resolve", "setup", "sidecar", "start", "exec", "mark",
                             "destroy", "teardown", "prune", "return", "done"}]
    /\ plan \in [Tasks -> {"none", "healthy", "skip", "fail", "cancel", "continue", "drop"}]
    /\ reports \subseteq Remote
    /\ closing \in {"open", "boots", "drain", "destroy", "closed"}
    /\ doomed \subseteq Groups

\* A backend executes a step only between the execution's SetupExecution and
\* DestroyExecution, in a service that is not told to stop.  (Close destroys the
\* backends that are up after it has waited, and the dispatcher may start a step
\* later still; LiveBackend in ExecutionProofs says until when it holds then.)
StepsRunOnLiveBackend == \A t \in Tasks : pc[t] = "exec" => resources[Group[t]] = "up"

\* DestroyExecution is called at most once for a run, however the last step, a
\* failed boot and Close race to release it.
DestroyedOnce ==
    \A e \in Groups :
        LET tearing == {x \in Finishers : RunOf(x) = e /\ pc[x] = "teardown"}
        IN  Cardinality(tearing) + (IF resources[e] = "down" THEN 1 ELSE 0) <= 1

\* The service prunes a group only when the queue holds none of its tasks
\* pending, so no entry can lose a dependency it still waits for.
PruneWhenSettled == \A x \in Finishers : pc[x] = "prune" => Prunable(RunOf(x))

\* A step of a run that is still on record executes only on top of results it
\* may build on: each ordinary dependency ended healthy, or failed with
\* continue_on_failure without being canceled.  (shouldSkipNode lets every step of an evicted run go
\* ahead, also one whose dependency was skipped.)
RunsOnGoodDependencies ==
    \A t \in Tasks : pc[t] = "exec" /\ Known(Group[t]) =>
        \A i \in 1..Len(Dependencies[t]) :
            LET d == Dependencies[t][i]
            IN  \/ verdict[d] = "healthy"
                \/ verdict[d] = "failed" /\ d \in ContinueOnFailure /\ plan[d] # "cancel"

\* A failure handler whose step failed is not skipped, unless one of its
\* ordinary dependencies did not succeed ("activates rollback or contingency
\* nodes ... when one of the referenced nodes fails").
ActivatedHandlerRuns ==
    \A t \in Tasks : verdict[t] = "skipped" /\ (\E d \in OnFailure[t] : verdict[d] = "failed") =>
        \E i \in 1..Len(Dependencies[t]) : verdict[Dependencies[t][i]] \in {"failed", "skipped"}

\* Every launched run ends, whatever its steps return and however it boots.
EveryRunEnds == \A e \in Groups : (status[e] = "Booting") ~> (status[e] \in Ended)

\* What a backend set up for a run is eventually torn down.
ResourcesReleased == \A e \in Groups : (resources[e] = "up") ~> (resources[e] = "down")

\* What a watcher sees of the service: the runs on record and their status, the
\* steps handed to a backend, the terminal events of the steps and the resources
\* of the backends.  The event of a canceled step says so.
Begun == {t \in Tasks : pc[t] \in {"start", "exec"}
                        \/ plan[t] \in {"healthy", "fail", "cancel", "continue", "drop"}}

Event(t) == IF verdict[t] = "failed" /\ plan[t] = "cancel" THEN "canceled" ELSE verdict[t]

Abstract == INSTANCE AbstractRun WITH
    Needs   <- [t \in Tasks |-> {Dependencies[t][i] : i \in 1..Len(Dependencies[t])}],
    Causes  <- Upstream,
    phase   <- status,
    known   <- {runOrder[i] : i \in 1..Len(runOrder)},
    begun   <- Begun,
    outcome <- [t \in Tasks |-> Event(t)],
    backend <- resources,
    open    <- (closing = "open")

\* The service implements the abstract run: whatever the queue, the dispatcher
\* and the goroutines do, each step settles once and only as the suite allows,
\* the run's status is the one its outcomes call for, and its resources are
\* there from the boot until the last step has settled.  After a hard failure no
\* step of an unrelated branch is begun any more ("a hard failure stops
\* unrelated branches, but any activated on_failure=[...] branch can still run"),
\* with two exceptions: a step that a backend already runs goes on and may still
\* end healthy, since the cancelation of its queue entry does not reach the
\* backend, and a run evicted from the record is not looked after.
RefinesAbstractRun == Abstract!RunSpec

=============================================================================

-------------------------- MODULE RefinementProofs --------------------------
(***************************************************************************)
(* The execution service implements AbstractRun, for every suite graph,    *)
(* every number of runs and every capacity, eviction included, as long as  *)
(* no lease lapses, no state report of an agent is under way and the       *)
(* service is not closed.  Each of the three hypotheses is needed: a       *)
(* lapsed lease has a step's dependants skipped before the step has an     *)
(* outcome, a late report undoes one, and Close destroys a backend that a  *)
(* boot then sets up again.                                                *)
(***************************************************************************)
EXTENDS ExecutionProofs

Undisturbed == ~Stoppable /\ Remote = {} /\ Lapsing = {}

-----------------------------------------------------------------------------
(* The inductive invariant, on top of IndInv *)

\* What Undisturbed excludes does not happen.
Calm == closing = "open" /\ reports = {} /\ expiring = {} /\ \A t \in Tasks : lease[t] # "lapsed"

Edges(t) == {DependsOn[t][i] : i \in 1..Len(DependsOn[t])}

\* What the state of an entry says about the step: a failed entry is a step
\* that failed, a canceled one is a step that was canceled or has its callback,
\* which skips the step and has a cause, and an entry is gone only when the whole run has been marked.
EntryMeans(t) ==
    /\ state[t] = "failed" => pc[t] = "done" /\ plan[t] = "fail"
    /\ state[t] = "canceled" =>
          t \in callbacks \cup notified \/ (pc[t] = "done" /\ plan[t] = "cancel")
    /\ state[t] = "absent" /\ arrival[Group[t]] # 0 => \A u \in Steps(Group[t]) : Marked(u)
    /\ t \in callbacks \cup notified /\ pc[t] # "none" => plan[t] = "skip"
    /\ t \in callbacks =>
          \E d \in HardDependencies(t) :
              d \in callbacks \cup notified \/ (pc[d] = "done" /\ plan[d] \in {"fail", "cancel"})

\* A task is started only when every step it comes after is through, those
\* whose callbacks the claiming scan still had to run included.
DepsDone(t) ==
    /\ claimed = t => \A d \in Edges(t) : pc[d] = "done" \/ d \in callbacks
    /\ routine[t] # "none" => \A d \in Edges(t) : pc[d] = "done"

StepIsVerdict(t) == Marked(t) /\ Known(Group[t]) => step[t] = verdict[t]

\* A backend was given the step, or is about to be.
Ran(t) == pc[t] \in {"start", "exec"} \/ plan[t] \in {"healthy", "fail", "cancel", "continue", "drop"}

\* A step that ran had nothing skipped upstream of it and was due.
RanWell(t) ==
    Known(Group[t]) /\ Ran(t) =>
        /\ \A u \in Upstream[t] : u # t => pc[u] = "done" /\ plan[u] \notin {"skip", "drop"}
        /\ \A d \in HardDependencies(t) : plan[d] \in {"healthy", "continue"}
        /\ OnFailure[t] # {} => \E d \in OnFailure[t] : plan[d] \in {"fail", "cancel", "continue"}

\* The reason to skip a step, once it cannot go away any more.
Justified(t) ==
    \/ \E d \in HardDependencies(t) :
          \/ verdict[d] = "skipped"
          \/ verdict[d] = "failed" /\ (d \notin ContinueOnFailure \/ plan[d] = "cancel")
    \/ OnFailure[t] # {} /\ \A d \in OnFailure[t] : verdict[d] = "healthy"
    \/ \E d \in OnFailure[t] : verdict[d] = "skipped"
    \/ status[Group[t]] = "Failed" /\ \A u \in Upstream[t] : \A d \in OnFailure[u] : verdict[d] = "healthy"

SkipJustified(t) == plan[t] \in {"skip", "drop"} /\ ~Marked(t) /\ Known(Group[t]) => Justified(t)

\* The status and the backend of a run, by the place of its boot.
RunLife(e) ==
    /\ pc[e] = "none" => status[e] = "none"
    /\ pc[e] \in {"none", "resolve", "setup"} => resources[e] = "none"
    /\ pc[e] \in {"resolve", "setup", "sidecar"} => status[e] = "Booting" /\ Known(e)
    /\ pc[e] \in Releasing => status[e] = "Failed"
    /\ arrival[e] # 0 => status[e] # "none"
    /\ status[e] = "Healthy" => \A u \in Steps(e) : Marked(u)

\* Whoever tears a run down does so when it is over.
OverWhenReleased(x) ==
    pc[x] \in {"destroy", "teardown"} =>
        status[Group[x]] \in Ended /\ \A u \in Steps(Group[x]) : verdict[u] # "none"

RefInv ==
    /\ Calm
    /\ \A e \in Groups : RunLife(e)
    /\ \A t \in Tasks :
        /\ EntryMeans(t) /\ DepsDone(t) /\ StepIsVerdict(t)
        /\ RanWell(t) /\ SkipJustified(t) /\ OverWhenReleased(t)

-----------------------------------------------------------------------------
(* The graph of a suite *)

\* The edges of a step are its hard and its soft ones, and all go to earlier
\* steps of the same run.
LEMMA EdgeFacts ==
    ASSUME NEW t \in Tasks
    PROVE  /\ Edges(t) = HardDependencies(t) \cup OnFailure[t]
           /\ SoftDependencies[t] = OnFailure[t]
           /\ \A d \in Edges(t) : d \in Tasks /\ Group[d] = Group[t] /\ Place[d] < Place[t]
<1>1. /\ DependsOn[t] \in Seq(Tasks) /\ OnFailure[t] \subseteq Tasks
      /\ SoftDependencies[t] = SoftOf(t)
  BY ExecutionAssumption DEF ExecutionAssumption
<1>2. OnFailure[t] \subseteq Edges(t) /\ HardDependencies(t) = Edges(t) \ OnFailure[t]
  BY EdgesSplit DEF EdgesSplit, Edges, HardDependencies
<1>3. SoftDependencies[t] = OnFailure[t]
  BY <1>1, <1>2 DEF SoftOf, Edges
<1>4. \A d \in HardDependencies(t) : Group[d] = Group[t] /\ Place[d] < Place[t]
  BY TopologicalOrder DEF TopologicalOrder, HardDependencies
<1>5. \A d \in OnFailure[t] : Group[d] = Group[t] /\ Place[d] < Place[t]
  BY <1>3, TopologicalOrder DEF TopologicalOrder
<1>6. Edges(t) \subseteq Tasks
  BY <1>1 DEF Edges
<1> QED BY <1>2, <1>3, <1>4, <1>5, <1>6

\* Upstream is reflexive and transitive, and unfolds along the edges.
LEMMA UpstreamFacts ==
    ASSUME NEW t \in Tasks
    PROVE  /\ t \in Upstream[t] /\ Upstream[t] \subseteq Tasks
           /\ \A u \in Upstream[t] : Edges(u) \subseteq Upstream[t]
           /\ \A u \in Upstream[t] : Place[u] <= Place[t] /\ Group[u] = Group[t]
           /\ \A u \in Upstream[t] : u = t \/ \E d \in Edges(t) : u \in Upstream[d]
<1>1. Upstream[t] = {u \in Tasks : \A S \in SUBSET Tasks : t \in S /\ Closed(S) => u \in S}
  BY DEF Upstream
<1>2. t \in Upstream[t] /\ Upstream[t] \subseteq Tasks
  BY <1>1
<1>3. \A S \in SUBSET Tasks : Closed(S) <=> \A u \in S : Edges(u) \subseteq S
  BY DEF Closed, Edges
<1>4. ASSUME NEW u \in Upstream[t], NEW d \in Edges(u) PROVE d \in Upstream[t]
  <2>1. u \in Tasks /\ d \in Tasks
    BY <1>1, EdgeFacts
  <2> SUFFICES ASSUME NEW S \in SUBSET Tasks, t \in S, Closed(S) PROVE d \in S
    BY <1>1, <2>1
  <2>2. u \in S
    BY <1>1
  <2> QED BY <1>3, <2>2
<1>5. ASSUME NEW u \in Upstream[t] PROVE Place[u] <= Place[t] /\ Group[u] = Group[t]
  <2> DEFINE S == {v \in Tasks : Place[v] <= Place[t] /\ Group[v] = Group[t]}
  <2>1. \A v \in Tasks : Place[v] \in Nat
    BY QueueAssumption DEF QueueAssumption
  <2>2. S \in SUBSET Tasks /\ t \in S
    BY <2>1
  <2>3. ASSUME NEW v \in S, NEW d \in Edges(v) PROVE d \in S
    BY <2>1, EdgeFacts
  <2>4. Closed(S)
    BY <1>3, <2>2, <2>3
  <2>5. u \in S
    <3> HIDE DEF S
    <3> QED BY <1>1, <2>2, <2>4
  <2> QED BY <2>5
<1>6. ASSUME NEW u \in Upstream[t], u # t PROVE \E d \in Edges(t) : u \in Upstream[d]
  <2> DEFINE S == {v \in Tasks : v = t \/ \E d \in Edges(t) : v \in Upstream[d]}
  <2>1. S \in SUBSET Tasks /\ t \in S
    OBVIOUS
  <2>2. ASSUME NEW v \in S, NEW d \in Edges(v) PROVE d \in S
    <3>1. v \in Tasks /\ d \in Tasks
      BY EdgeFacts
    <3>2. CASE v = t
      <4>1. d \in Upstream[d]
        BY <3>1 DEF Upstream
      <4> QED BY <3>1, <3>2, <4>1, <2>2
    <3>3. CASE \E f \in Edges(t) : v \in Upstream[f]
      <4>1. PICK f \in Edges(t) : v \in Upstream[f]
        BY <3>3
      <4>2. f \in Tasks
        BY EdgeFacts
      <4>3. \A T \in SUBSET Tasks : f \in T /\ Closed(T) => v \in T
        BY <4>1, <4>2 DEF Upstream
      <4>4. \A T \in SUBSET Tasks : f \in T /\ Closed(T) => d \in T
        BY <1>3, <2>2, <4>3
      <4>5. d \in Upstream[f]
        BY <3>1, <4>2, <4>4 DEF Upstream
      <4> QED BY <3>1, <4>5
    <3> QED BY <3>2, <3>3
  <2>3. Closed(S)
    BY <1>3, <2>1, <2>2
  <2>4. u \in S
    <3> HIDE DEF S
    <3> QED BY <1>1, <2>1, <2>3
  <2> QED BY <1>6, <2>4
<1> QED BY <1>2, <1>4, <1>5, <1>6

-----------------------------------------------------------------------------
(* What the steps leave alone *)

\* Nothing lapses, reports or closes.
LEMMA CalmStep == Undisturbed /\ Typed /\ Calm /\ [Next]_vars => Calm'
<1> SUFFICES ASSUME Undisturbed, Typed, Calm, [Next]_vars PROVE Calm'
  OBVIOUS
<1> USE DEF Typed, QueueTypeOK, Calm
<1>1. CASE Claim /\ UNCHANGED serviceVars
  <2>1. \A t \in Tasks : lease'[t] \in {"live", lease[t]}
    BY <1>1 DEF Claim
  <2> QED BY <1>1, <2>1 DEF Claim, serviceVars
<1>2. CASE (Launch \/ Idle \/ Wake \/ Stop) /\ UNCHANGED serviceVars
  BY <1>2 DEF Launch, Idle, Wake, Stop, serviceVars
<1>3. CASE Expiry
  BY <1>3 DEF Expiry, ExpiryScan, Lapsed
<1>4. ASSUME NEW t \in Tasks, TaskRoutine(t) PROVE Calm'
  <2>1. ~Expire(t)
    BY DEF Expire
  <2>2. \A u \in Tasks : lease'[u] \in {"none", lease[u]}
    BY <1>4, <2>1 DEF TaskRoutine, AttachCancel, FinishReturned, Finish
  <2> QED BY <1>4, <2>1, <2>2 DEF TaskRoutine, AttachCancel, FinishReturned, serviceVars
<1>5. ASSUME NEW t \in Tasks, Leases(t) \/ SendReport(t) \/ LandReport(t) PROVE FALSE
  BY <1>5 DEF Undisturbed, Leases, SendReport, LandReport
<1>6. CASE CloseQueue \/ CloseStep
  BY <1>6 DEF Undisturbed, CloseQueue, CloseStep, BootsWaited, Drained, CloseReturns, CloseDestroys
<1>7. CASE UNCHANGED <<closing, reports, expiring, lease>>
  BY <1>7
<1>8. CASE QueueOnly
  BY <1>1, <1>2, <1>3, <1>4, <1>5, <1>8 DEF QueueOnly, Dispatch
<1>9. ASSUME NEW e \in Groups, CreateExecution(e) \/ BootStep(e) PROVE UNCHANGED <<closing, reports>>
  BY <1>9 DEF CreateExecution, BootStep, BootResolve, BootSetup, BootEnqueue, BootFails
<1>10. ASSUME NEW x \in Finishers, FinishStep(x) PROVE UNCHANGED <<closing, reports>>
  BY <1>10 DEF FinishStep, Destroy, Teardown, Prune
<1>11. ASSUME NEW t \in Tasks, NodeStep(t) \/ \E result : BackendReturns(t, result)
       PROVE  UNCHANGED <<closing, reports>>
  BY <1>11 DEF NodeStep, Check, Start, Mark, Return, BeginCallback, EndCallback, BackendReturns
<1>12. CASE UNCHANGED vars
  BY <1>7, <1>12 DEF vars, queueVars, serviceVars
<1>13. ASSUME NEW t \in Tasks, EndCallback(t) \/ Return(t) PROVE UNCHANGED <<expiring, lease>>
  BY <1>13 DEF EndCallback, Notify, Return, RunReturns
<1>14. CASE UNCHANGED <<expiring, lease>>
  BY <1>5, <1>6, <1>7, <1>8, <1>9, <1>10, <1>11, <1>12, <1>14 DEF Next, QueueOnly
<1> QED BY <1>8, <1>13, <1>14, ServiceFrame

\* The parts of IndInv as the proofs below use them.
LEMMA InvParts ==
    ASSUME IndInv
    PROVE  /\ Typed /\ ServiceTypeOK /\ PlacesOK /\ CallbacksRun /\ LastReleases /\ OneTeardown
           /\ \A e \in Groups : BootLife(e) /\ Counted(e) /\ BackendUp(e)
           /\ \A t \in Tasks : /\ NodeLife(t) /\ PlanLife(t) /\ Recorded(t) /\ Founded(t)
                               /\ TaskLife(t) /\ BootLife(Group[t])
  BY RunsAreGroups DEF IndInv, ServiceInv, Typed, Lifecycle

\* The queue's own steps when nothing lapses.
LEMMA CalmQueueSteps ==
    ASSUME Undisturbed, Calm, QueueOnly
    PROVE  /\ UNCHANGED serviceVars
           /\ \/ Claim \/ Launch \/ Idle \/ Wake \/ Stop
              \/ \E t \in Tasks : AttachCancel(t) \/ FinishReturned(t)
<1>1. ~Expiry
  BY DEF Expiry, ExpiryScan, Lapsed, Calm
<1>2. \A t \in Tasks : ~Expire(t) /\ ~Leases(t)
  BY DEF Expire, Leases, Undisturbed, Calm
<1> QED BY <1>1, <1>2 DEF QueueOnly, Dispatch, TaskRoutine

\* A plan that has been made stays.
LEMMA PlanForGood ==
    ASSUME IndInv, [Next]_vars, NEW t \in Tasks, plan[t] # "none"
    PROVE  plan'[t] = plan[t]
<1>1. pc[t] \notin {"none", "start", "exec"} /\ plan \in [Tasks -> {"none", "healthy", "skip", "fail", "cancel", "continue", "drop"}]
  BY InvParts DEF PlanLife, ServiceTypeOK
<1>2. ASSUME NEW u \in Tasks, Check(u) \/ BeginCallback(u) \/ (\E r : BackendReturns(u, r))
      PROVE  plan'[t] = plan[t]
  BY <1>1, <1>2 DEF Check, BeginCallback, BackendReturns
<1>3. CASE UNCHANGED plan
  BY <1>3
<1> QED
  BY <1>2, <1>3
  DEF Next, vars, serviceVars, Dispatch, Expiry, CloseQueue, CloseStep, BootsWaited, Drained,
      CloseReturns, CloseDestroys, CreateExecution, BootStep, BootResolve, BootSetup, BootEnqueue,
      BootFails, FinishStep, Destroy, Teardown, Prune, NodeStep, Start, Mark, Return, EndCallback,
      TaskRoutine, Leases, SendReport, LandReport

\* A verdict is given once.
LEMMA VerdictForGood ==
    ASSUME IndInv, [Next]_vars, NEW t \in Tasks, verdict[t] # "none"
    PROVE  verdict'[t] = verdict[t]
<1>1. Marked(t) /\ verdict \in [Tasks -> {"none"} \cup TerminalStep]
  BY InvParts DEF Recorded, ServiceTypeOK
<1>2. ASSUME NEW u \in Tasks, Mark(u) PROVE verdict'[t] = verdict[t]
  <2>1. u # t
    BY <1>1, <1>2 DEF Mark, Marked, Releasing
  <2> QED BY <1>1, <1>2, <2>1 DEF Mark
<1>3. CASE UNCHANGED verdict
  BY <1>3
<1> QED
  BY <1>2, <1>3
  DEF Next, vars, serviceVars, Dispatch, Expiry, CloseQueue, CloseStep, BootsWaited, Drained,
      CloseReturns, CloseDestroys, CreateExecution, BootStep, BootResolve, BootSetup, BootEnqueue,
      BootFails, FinishStep, Destroy, Teardown, Prune, NodeStep, Check, Start, Return, BeginCallback,
      EndCallback, BackendReturns, TaskRoutine, Leases, SendReport, LandReport

\* What can become of the status of a run after its launch.
LEMMA StatusMoves ==
    ASSUME IndInv, [Next]_vars, NEW e \in Groups, pc[e] # "none"
    PROVE  \/ status'[e] = status[e]
           \/ BootFails(e) /\ status'[e] = "Failed"
           \/ \E t \in Steps(e) : Mark(t) /\ status'[e] \in Ended
<1>0. status \in [Groups -> {"none", "Booting"} \cup Ended]
  BY InvParts DEF ServiceTypeOK
<1>1. ASSUME NEW f \in Groups, CreateExecution(f) PROVE status'[e] = status[e]
  BY <1>0, <1>1 DEF CreateExecution
<1>2. ASSUME NEW f \in Groups, BootFails(f)
      PROVE  status'[e] = status[e] \/ (BootFails(e) /\ status'[e] = "Failed")
  <2>1. CASE f = e
    BY <1>0, <1>2, <2>1 DEF BootFails
  <2>2. CASE f # e
    BY <1>0, <1>2, <2>2 DEF BootFails
  <2> QED BY <2>1, <2>2
<1>3. ASSUME NEW t \in Tasks, Mark(t)
      PROVE  status'[e] = status[e] \/ (t \in Steps(e) /\ status'[e] \in Ended)
  BY <1>0, <1>3 DEF Mark, Steps, Ended
<1>4. CASE UNCHANGED status
  BY <1>4
<1> QED
  BY <1>1, <1>2, <1>3, <1>4
  DEF Next, vars, serviceVars, Dispatch, Expiry, CloseQueue, CloseStep, BootsWaited, Drained, Steps,
      CloseReturns, CloseDestroys, BootStep, BootResolve, BootSetup, BootEnqueue,
      FinishStep, Destroy, Teardown, Prune, NodeStep, Check, Start, Return, BeginCallback,
      EndCallback, BackendReturns, TaskRoutine, Leases, SendReport, LandReport

\* A failed run stays failed.
LEMMA FailedForGood ==
    ASSUME IndInv, [Next]_vars, NEW e \in Groups, pc[e] # "none", status[e] = "Failed"
    PROVE  status'[e] = "Failed"
<1>1. ASSUME NEW t \in Steps(e), Mark(t) PROVE status'[e] = "Failed"
  BY <1>1, InvParts DEF Mark, Steps, ServiceTypeOK
<1> QED BY <1>1, StatusMoves

-----------------------------------------------------------------------------
(* The parts of the invariant *)

\* Started tasks keep their dependencies done.
LEMMA DepsDoneStep ==
    ASSUME Undisturbed, IndInv, Calm, [Next]_vars, \A u \in Tasks : EntryMeans(u),
           NEW t \in Tasks, DepsDone(t)
    PROVE  DepsDone(t)'
<1>0. /\ Edges(t)' = Edges(t) /\ NoTask \notin Tasks
      /\ \A d \in Edges(t) : d \in Tasks
      /\ \A d \in Edges(t) : pc[d] = "done" => pc'[d] = "done"
  BY InvParts, EdgeFacts, MarkedForGood, QueueAssumption DEF Edges, QueueAssumption
<1>1. ASSUME claimed' = t => claimed = t, routine'[t] # "none" => routine[t] # "none",
             \A d \in Edges(t) : d \in callbacks => d \in callbacks' \/ pc'[d] = "done"
      PROVE  DepsDone(t)'
  BY <1>0, <1>1 DEF DepsDone
<1>2. CASE Claim
  <2>0. callbacks = {} /\ QueueTypeOK /\ routine' = routine
    BY <1>2, InvParts DEF Claim, CallbacksRun, Typed
  <2>1. PICK limit \in Capacities, first \in Pending \cup {NoTask}, C \in SUBSET Pending :
           /\ first # NoTask => first \in Pending /\ Startable(first, C, limit)
           /\ claimed' = first /\ callbacks' = C
    BY <1>2, <2>0, ClaimFacts
  <2>2. CASE claimed' # t
    BY <1>1, <2>0, <2>2
  <2>3. CASE claimed' = t
    <3>1. Ready(t, C)
      BY <1>0, <2>1, <2>3 DEF Startable
    <3>2. ASSUME NEW d \in Edges(t), Seen(d, t, C) \in Terminal
          PROVE  pc[d] = "done" \/ d \in C
      <4>1. CASE d \in C
        BY <4>1
      <4>2. CASE d \notin C
        <5>1. state[d] \in Terminal /\ d \in Tasks
          BY <1>0, <3>2, <4>2 DEF Seen
        <5>2. CASE state[d] = "succeeded"
          BY <5>1, <5>2, InvParts DEF TaskLife, NodeLife
        <5>3. CASE state[d] = "failed"
          BY <5>1, <5>3 DEF EntryMeans
        <5>4. CASE state[d] = "canceled"
          BY <2>0, <5>1, <5>4, InvParts DEF EntryMeans, NodeLife
        <5> QED BY <5>1, <5>2, <5>3, <5>4 DEF Terminal
      <4> QED BY <4>1, <4>2
    <3>3. \A d \in Edges(t) : Seen(d, t, C) \in Terminal
      BY <3>1, EdgeFacts DEF Ready, HardDependencies, Terminal
    <3>4. \A d \in Edges(t) : pc'[d] = "done" \/ d \in callbacks'
      BY <1>0, <2>1, <3>2, <3>3
    <3>5. routine'[t] = "none"
      BY <2>0, <2>1, <2>3, <1>0, InvParts DEF TaskLife, Pending
    <3> QED BY <1>0, <3>4, <3>5 DEF DepsDone
  <2> QED BY <2>2, <2>3
<1>3. CASE Launch
  <2>1. /\ callbacks = {} /\ callbacks' = {} /\ claimed' = NoTask
        /\ routine'[t] # "none" => routine[t] # "none" \/ claimed = t
    BY <1>3, InvParts DEF Launch, Typed, QueueTypeOK
  <2> QED BY <1>0, <2>1 DEF DepsDone
<1>4. CASE Idle \/ Wake \/ Stop
  BY <1>1, <1>4 DEF Idle, Wake, Stop
<1>5. ASSUME NEW u \in Tasks, AttachCancel(u) \/ FinishReturned(u) PROVE DepsDone(t)'
  BY <1>1, <1>5, InvParts DEF AttachCancel, FinishReturned, Typed, QueueTypeOK
<1>6. CASE QueueOnly
  BY <1>2, <1>3, <1>4, <1>5, <1>6, CalmQueueSteps
<1>7. ASSUME NEW u \in Tasks, EndCallback(u) PROVE DepsDone(t)'
  <2>1. /\ UNCHANGED <<claimed, routine>>
        /\ callbacks' = callbacks \ {u} /\ pc'[u] = "done"
    BY <1>7, InvParts DEF EndCallback, Notify, Goto, ServiceTypeOK, Finishers
  <2> QED BY <1>1, <2>1
<1>8. ASSUME NEW u \in Tasks, Return(u) PROVE DepsDone(t)'
  BY <1>1, <1>8, InvParts DEF Return, RunReturns, Typed, QueueTypeOK
<1>9. CASE UNCHANGED <<claimed, routine, callbacks>>
  BY <1>1, <1>9
<1> QED
  BY <1>6, <1>7, <1>8, <1>9, ServiceFrame

\* A task the scan cancels has a dependency that was canceled or failed.
LEMMA CanceledHasCause ==
    ASSUME IndInv, \A u \in Tasks : EntryMeans(u), callbacks = {},
           NEW C \in SUBSET Pending, NEW t \in C, Doomed(t, C)
    PROVE  \E d \in HardDependencies(t) :
              d \in C \/ d \in notified \/ (pc[d] = "done" /\ plan[d] \in {"fail", "cancel"})
<1>1. PICK i \in 1..Len(Dependencies[t]) :
          Seen(Dependencies[t][i], t, C) \in {"absent", "failed", "canceled"}
  BY DEF Doomed
<1> DEFINE d == Dependencies[t][i]
<1>2. /\ t \in Tasks /\ state[t] = "pending"
      /\ d \in HardDependencies(t)
  BY DEF Pending, HardDependencies
<1>3. d \in Tasks /\ Group[d] = Group[t]
  BY <1>2, HardEdges
<1> HIDE DEF d
<1>4. CASE d \in C
  BY <1>2, <1>4
<1>5. CASE d \notin C
  <2>1. state[d] \in {"absent", "failed", "canceled"}
    BY <1>1, <1>5 DEF Seen, d
  <2>2. CASE state[d] = "absent"
    <3>1. arrival[Group[t]] # 0 /\ t \in Steps(Group[d])
      BY <1>2, <1>3, InvParts DEF TaskLife, Steps
    <3>2. Marked(t)
      BY <1>3, <2>2, <3>1 DEF EntryMeans
    <3> QED BY <1>2, <3>2, InvParts DEF Marked, Releasing, NodeLife, TaskLife
  <2>3. CASE state[d] # "absent"
    BY <1>2, <1>3, <2>1, <2>3 DEF EntryMeans
  <2> QED BY <2>2, <2>3
<1> QED BY <1>4, <1>5

\* The meaning of an entry's state is kept.
LEMMA EntryMeansStep ==
    ASSUME Undisturbed, IndInv, Calm, [Next]_vars, \A u \in Tasks : EntryMeans(u), NEW t \in Tasks
    PROVE  EntryMeans(t)'
<1>0. /\ EntryMeans(t) /\ NodeLife(t) /\ TaskLife(t) /\ PlanLife(t)
      /\ QueueTypeOK /\ ServiceTypeOK
      /\ Group[t] \in Groups /\ t \notin Groups
  BY InvParts, RunsAreGroups DEF Typed
<1>1. /\ \A u \in Steps(Group[t]) : Marked(u) => Marked(u)'
      /\ Steps(Group[t])' = Steps(Group[t])
      /\ HardDependencies(t)' = HardDependencies(t)
  BY InvParts, MarkedForGood DEF Steps, HardDependencies
<1>2. \A d \in Tasks : pc[d] = "done" /\ plan[d] \in {"fail", "cancel"} => pc'[d] = "done" /\ plan'[d] = plan[d]
  BY InvParts, MarkedForGood, PlanForGood
<1>3. \A d \in HardDependencies(t) : d \in Tasks
  BY HardEdges
<1>4. ASSUME state'[t] = state[t], arrival'[Group[t]] = arrival[Group[t]],
             callbacks' \subseteq callbacks, callbacks' \cup notified' = callbacks \cup notified,
             pc[t] = "none" /\ pc'[t] # "none" /\ t \in callbacks \cup notified => plan'[t] = "skip"
      PROVE  EntryMeans(t)'
  <2>1. plan[t] = "skip" => plan'[t] = "skip"
    BY PlanForGood
  <2>2. state'[t] = "failed" => pc'[t] = "done" /\ plan'[t] = "fail"
    BY <1>0, <1>2, <1>4 DEF EntryMeans
  <2>3. state'[t] = "canceled" =>
           t \in callbacks' \cup notified' \/ (pc'[t] = "done" /\ plan'[t] = "cancel")
    BY <1>0, <1>2, <1>4 DEF EntryMeans
  <2>4. state'[t] = "absent" /\ arrival'[Group[t]] # 0 => \A u \in Steps(Group[t]) : Marked(u)'
    BY <1>0, <1>1, <1>4 DEF EntryMeans
  <2>5. t \in callbacks' \cup notified' /\ pc'[t] # "none" => plan'[t] = "skip"
    BY <1>0, <1>4, <2>1 DEF EntryMeans
  <2>6. t \in callbacks' => \E d \in HardDependencies(t) :
              d \in callbacks' \cup notified' \/ (pc'[d] = "done" /\ plan'[d] \in {"fail", "cancel"})
    BY <1>0, <1>2, <1>3, <1>4 DEF EntryMeans
  <2> QED BY <1>1, <2>2, <2>3, <2>4, <2>5, <2>6 DEF EntryMeans
<1>5. CASE Claim /\ UNCHANGED serviceVars
  <2>0. callbacks = {} /\ notified' = notified /\ arrival' = arrival
    BY <1>5, InvParts DEF Claim, CallbacksRun
  <2>1. PICK first \in Pending \cup {NoTask}, C \in SUBSET Pending :
           /\ C = {u \in Pending : (first = NoTask \/ Before(u, first)) /\ Doomed(u, C)}
           /\ state' = [u \in Tasks |-> CASE u = first -> "running"
                                         [] u \in C   -> "canceled"
                                         [] OTHER     -> state[u]]
           /\ callbacks' = C
    BY <1>5 DEF Claim
  <2>2. pc' = pc /\ plan' = plan /\ \A u \in Tasks : Marked(u)' = Marked(u)
    BY <1>5 DEF serviceVars, Marked
  <2>3. state'[t] = "running" \/ (t \in C /\ state'[t] = "canceled") \/ (t \notin C /\ state'[t] = state[t])
    BY <2>1
  <2>4. t \in C => pc[t] = "none" /\ Doomed(t, C)
    BY <1>0, <2>1 DEF Pending, NodeLife, TaskLife
  <2>5. t \in C => \E d \in HardDependencies(t) :
              d \in C \/ d \in notified \/ (pc[d] = "done" /\ plan[d] \in {"fail", "cancel"})
    BY <2>0, <2>4, CanceledHasCause
  <2> QED BY <1>0, <1>1, <2>0, <2>1, <2>2, <2>3, <2>4, <2>5 DEF EntryMeans
<1>6. CASE (Launch \/ Idle \/ Wake \/ Stop \/ \E u \in Tasks : AttachCancel(u)) /\ UNCHANGED serviceVars
  BY <1>4, <1>6 DEF Launch, Idle, Wake, Stop, AttachCancel, serviceVars
<1>7. ASSUME NEW u \in Tasks, FinishReturned(u), UNCHANGED serviceVars PROVE EntryMeans(t)'
  <2>0. UNCHANGED <<arrival, callbacks, notified, pc, plan>>
    BY <1>7 DEF FinishReturned, serviceVars
  <2>1. CASE state'[t] = state[t]
    BY <1>4, <2>0, <2>1
  <2>2. CASE state'[t] # state[t]
    <3>1. u = t /\ state'[t] = StateOf(outcome[t]) /\ routine[t] = "returned"
      BY <1>0, <1>7, <2>2 DEF FinishReturned, Finish, QueueTypeOK
    <3>2. pc[t] = "done" /\ outcome[t] = RunResult(t)
      BY <1>0, <3>1 DEF NodeLife
    <3>3. \/ state'[t] = "succeeded"
          \/ state'[t] = "failed" /\ plan[t] = "fail"
          \/ state'[t] = "canceled" /\ plan[t] = "cancel"
      BY <3>1, <3>2 DEF StateOf, RunResult
    <3>4. t \notin callbacks \cup notified
      BY <1>0, <3>1 DEF TaskLife
    <3> QED BY <1>0, <2>0, <3>2, <3>3, <3>4 DEF EntryMeans
  <2> QED BY <2>1, <2>2
<1>8. CASE QueueOnly
  BY <1>5, <1>6, <1>7, <1>8, CalmQueueSteps
<1>9. ASSUME NEW e \in Groups, BootEnqueue(e) PROVE EntryMeans(t)'
  <2>1. UNCHANGED <<callbacks, notified, plan>> /\ pc'[t] = pc[t]
    BY <1>0, <1>9 DEF BootEnqueue, Enqueue, Goto, ServiceTypeOK, Finishers
  <2>2. CASE Group[t] # e
    BY <1>0, <1>4, <1>9, <2>1, <2>2 DEF BootEnqueue, Enqueue, QueueTypeOK
  <2>3. CASE Group[t] = e
    <3>1. t \notin callbacks \cup notified
      BY <1>0, <1>9, <2>3 DEF BootEnqueue, Enqueue, TaskLife
    <3>2. state'[t] = "pending"
      BY <1>9, <2>3 DEF BootEnqueue, Enqueue
    <3> QED BY <2>1, <3>1, <3>2 DEF EntryMeans
  <2> QED BY <2>2, <2>3
<1>10. ASSUME NEW x \in Finishers, Prune(x) PROVE EntryMeans(t)'
  <2>1. /\ UNCHANGED <<arrival, callbacks, notified, plan>>
        /\ pc[t] = "none" => pc'[t] = "none"
    BY <1>0, <1>10 DEF Prune, PruneGroup, Goto, ServiceTypeOK, Finishers
  <2>2. CASE state'[t] = state[t]
    BY <1>4, <2>1, <2>2
  <2>3. CASE state'[t] # state[t]
    <3>1. Group[t] = RunOf(x) /\ state'[t] = "absent" /\ state[t] # "absent" /\ pc[x] = "prune"
      BY <1>10, <2>3 DEF Prune, PruneGroup, Prunes, Terminal
    <3>2. x \in Tasks /\ Group[x] = Group[t]
      BY <1>0, <3>1, RunsAreGroups, InvParts DEF TaskLife, BootLife
    <3>3. \A u \in Steps(Group[t]) : Marked(u)
      BY <3>1, <3>2, InvParts DEF LastReleases, Releasing, Steps
    <3>4. t \in callbacks \cup notified /\ pc'[t] # "none" => plan'[t] = "skip"
      BY <1>0, <2>1 DEF EntryMeans
    <3>5. t \in callbacks' => \E d \in HardDependencies(t) :
              d \in callbacks' \cup notified' \/ (pc'[d] = "done" /\ plan'[d] \in {"fail", "cancel"})
      BY <1>0, <1>2, <1>3, <2>1 DEF EntryMeans
    <3> QED BY <1>1, <2>1, <3>1, <3>3, <3>4, <3>5 DEF EntryMeans
  <2> QED BY <2>2, <2>3
<1>11. ASSUME NEW u \in Tasks, Check(u) PROVE EntryMeans(t)'
  <2>1. /\ UNCHANGED <<state, arrival, callbacks, notified>>
        /\ u # t => pc'[t] = pc[t]
        /\ u = t => t \notin callbacks \cup notified
    BY <1>0, <1>11 DEF Check, Goto, ServiceTypeOK, Finishers, TaskLife, queueVars
  <2> QED BY <1>4, <2>1
<1>12. ASSUME NEW u \in Tasks, BeginCallback(u) PROVE EntryMeans(t)'
  <2>1. /\ UNCHANGED <<state, arrival, callbacks, notified>>
        /\ u # t => pc'[t] = pc[t]
        /\ u = t => plan'[t] = "skip"
    BY <1>0, <1>12 DEF BeginCallback, Goto, ServiceTypeOK, Finishers, queueVars
  <2> QED BY <1>4, <2>1
<1>13. ASSUME NEW u \in Tasks,
              Start(u) \/ Mark(u) \/ Return(u) \/ EndCallback(u) \/ (\E r : BackendReturns(u, r))
       PROVE  EntryMeans(t)'
  <2>1. /\ UNCHANGED <<state, arrival>>
        /\ callbacks' \subseteq callbacks /\ callbacks' \cup notified' = callbacks \cup notified
        /\ pc[t] = "none" => pc'[t] = "none"
    BY <1>0, <1>13
    DEF Start, Mark, CancelRunningGroup, Return, RunReturns, EndCallback, Notify, BackendReturns,
        Goto, ServiceTypeOK, Finishers, queueVars
  <2> QED BY <1>4, <2>1
<1>14. ASSUME NEW x \in Finishers, Destroy(x) \/ Teardown(x) PROVE EntryMeans(t)'
  <2>1. /\ UNCHANGED <<state, arrival, callbacks, notified>>
        /\ pc[t] = "none" => pc'[t] = "none"
    BY <1>0, <1>14 DEF Destroy, Teardown, Goto, ServiceTypeOK, Finishers, queueVars
  <2> QED BY <1>4, <2>1
<1>15. ASSUME NEW e \in Groups, CreateExecution(e) \/ BootResolve(e) \/ BootSetup(e) \/ BootFails(e)
       PROVE  EntryMeans(t)'
  <2>1. UNCHANGED <<state, arrival, callbacks, notified>> /\ pc'[t] = pc[t]
    BY <1>0, <1>15
    DEF CreateExecution, BootResolve, BootSetup, BootFails, Goto, ServiceTypeOK, Finishers, queueVars
  <2> QED BY <1>4, <2>1
<1>16. CASE UNCHANGED <<queueVars, pc>>
  BY <1>4, <1>16 DEF queueVars
<1>17. ~CloseQueue /\ ~CloseStep
  BY DEF Calm, Undisturbed, CloseQueue, CloseStep, BootsWaited, Drained, CloseReturns, CloseDestroys
<1> QED
  BY <1>8, <1>9, <1>10, <1>11, <1>12, <1>13, <1>14, <1>15, <1>16, <1>17
  DEF Next, vars, serviceVars, QueueOnly, BootStep, FinishStep, NodeStep, SendReport, LandReport

\* The status of a marked step stays its verdict.
LEMMA StepIsVerdictStep ==
    ASSUME Undisturbed, IndInv, Calm, [Next]_vars, NEW t \in Tasks, StepIsVerdict(t)
    PROVE  StepIsVerdict(t)'
<1>0. /\ NodeLife(t) /\ BootLife(Group[t]) /\ Recorded(t) /\ Typed /\ PlacesOK /\ CallbacksRun
      /\ ServiceTypeOK
  BY InvParts
<1>1. CASE Mark(t)
  <2>1. step[t] \notin TerminalStep /\ (Known(Group[t])' <=> Known(Group[t]))
    BY <1>0, <1>1 DEF Mark, Recorded, Marked, Releasing, Known
  <2>2. Known(Group[t]) => step'[t] = MarkStatus(t) /\ verdict'[t] = MarkStatus(t)
    BY <1>0, <1>1, <2>1 DEF Mark, ServiceTypeOK
  <2> QED BY <2>1, <2>2 DEF StepIsVerdict
<1>2. CASE ~Mark(t)
  <2> SUFFICES ASSUME Marked(t)', Known(Group[t])' PROVE step'[t] = verdict'[t]
    BY DEF StepIsVerdict
  <2>1. Marked(t) /\ pc[t] # "none"
    BY <1>0, <1>2, MarkedForGood DEF Marked, Releasing
  <2>2. Known(Group[t])
    BY <1>0, <2>1, KnownBefore
  <2>3. step[t] = verdict[t] /\ verdict[t] = MarkStatus(t) /\ verdict[t] # "none"
    BY <1>0, <2>1, <2>2 DEF StepIsVerdict, Recorded, MarkStatus
  <2>4. verdict'[t] = verdict[t]
    BY <2>3, VerdictForGood
  <2>5. step'[t] = step[t]
    <3>1. ASSUME NEW e \in Groups, BootResolve(e) PROVE step'[t] = step[t]
      <4>1. Group[t] # e
        BY <1>0, <2>1, <3>1, EnteredIsBooted DEF BootResolve
      <4> QED BY <3>1, <4>1 DEF BootResolve
    <3>2. ASSUME NEW u \in Tasks, Start(u) PROVE step'[t] = step[t]
      BY <1>0, <2>1, <3>2 DEF Start, AppendEvent, ServiceTypeOK, Marked, Releasing
    <3>3. ASSUME NEW u \in Tasks, Mark(u) PROVE step'[t] = step[t]
      <4>1. u # t
        BY <1>2, <3>3
      <4> QED BY <1>0, <3>3, <4>1 DEF Mark, ServiceTypeOK
    <3>4. ASSUME NEW u \in Tasks, Return(u) PROVE step'[t] = step[t]
      BY <1>0, <2>3, <3>4 DEF Return, ContinuedEvent, AppendEvent, ServiceTypeOK, MarkStatus
    <3>5. ASSUME NEW u \in Tasks PROVE ~LandReport(u)
      BY DEF LandReport, Calm
    <3>6. CASE UNCHANGED step
      BY <3>6
    <3> QED
      BY <3>1, <3>2, <3>3, <3>4, <3>5, <3>6
      DEF Next, vars, serviceVars, Dispatch, Expiry, TaskRoutine, Leases, CloseQueue, CloseStep,
          BootsWaited, Drained, CloseReturns, CloseDestroys, CreateExecution, BootStep, BootSetup,
          BootEnqueue, BootFails, FinishStep, Destroy, Teardown, Prune, NodeStep, Check,
          BeginCallback, EndCallback, BackendReturns, SendReport
  <2> QED BY <2>3, <2>4, <2>5
<1> QED BY <1>1, <1>2

\* A step about to be checked whose direct dependencies were not skipped has
\* nothing skipped upstream, and all of it is through.
LEMMA UpstreamRan ==
    ASSUME IndInv, RefInv, NEW t \in Tasks, routine[t] # "none", Known(Group[t]),
           \A d \in Edges(t) : step[d] # "skipped"
    PROVE  \A u \in Upstream[t] : u # t => pc[u] = "done" /\ plan[u] \in {"healthy", "fail", "cancel", "continue"}
<1>1. ASSUME NEW d \in Edges(t)
      PROVE  d \in Tasks /\ Group[d] = Group[t] /\ pc[d] = "done" /\ plan[d] \in {"healthy", "fail", "cancel", "continue"}
  <2>1. d \in Tasks /\ Group[d] = Group[t]
    BY EdgeFacts
  <2>2. pc[d] = "done"
    BY DEF RefInv, DepsDone
  <2>3. plan[d] \notin {"skip", "drop"}
    BY <2>1, <2>2, InvParts DEF Recorded, Marked
  <2> QED BY <2>1, <2>2, <2>3, InvParts DEF PlanLife, ServiceTypeOK
<1>2. ASSUME NEW u \in Upstream[t], u # t
      PROVE  pc[u] = "done" /\ plan[u] \in {"healthy", "fail", "cancel", "continue"}
  <2>1. PICK d \in Edges(t) : u \in Upstream[d]
    BY <1>2, UpstreamFacts
  <2>2. u \in Tasks
    BY UpstreamFacts
  <2>3. CASE u = d
    BY <1>1, <2>3
  <2>4. CASE u # d
    <3>1. pc[u] = "done" /\ plan[u] \notin {"skip", "drop"}
      BY <1>1, <2>1, <2>4 DEF RefInv, RanWell, Ran
    <3> QED BY <2>2, <3>1, InvParts DEF PlanLife, ServiceTypeOK
  <2> QED BY <2>3, <2>4
<1> QED BY <1>2

\* A step that ran keeps what it ran on, and one that passes its check has it.
LEMMA RanWellStep ==
    ASSUME IndInv, RefInv, [Next]_vars, NEW t \in Tasks
    PROVE  RanWell(t)'
<1>0. /\ NodeLife(t) /\ BootLife(Group[t]) /\ PlanLife(t) /\ PlanLife(t)' /\ Typed /\ CallbacksRun
      /\ PlacesOK /\ ServiceTypeOK /\ RanWell(t)
  BY InvParts, PlanLifeStep DEF RefInv
<1>1. /\ Upstream[t] \subseteq Tasks /\ HardDependencies(t) \subseteq Upstream[t]
      /\ OnFailure[t] \subseteq Upstream[t] /\ t \notin Edges(t)
      /\ Edges(t) = HardDependencies(t) \cup OnFailure[t]
      /\ HardDependencies(t)' = HardDependencies(t)
  <2>1. Place[t] \in Nat
    BY QueueAssumption DEF QueueAssumption
  <2> QED BY <2>1, EdgeFacts, UpstreamFacts DEF HardDependencies
<1> SUFFICES ASSUME Known(Group[t])', Ran(t)'
             PROVE  /\ \A u \in Upstream[t] : u # t => pc'[u] = "done" /\ plan'[u] \notin {"skip", "drop"}
                    /\ \A d \in HardDependencies(t) : plan'[d] \in {"healthy", "continue"}
                    /\ OnFailure[t] # {} => \E d \in OnFailure[t] : plan'[d] \in {"fail", "cancel", "continue"}
  BY <1>1 DEF RanWell, HardDependencies
<1>2. ASSUME Known(Group[t]),
             \A u \in Upstream[t] : u # t => pc[u] = "done" /\ plan[u] \notin {"skip", "drop"},
             \A d \in HardDependencies(t) : plan[d] \in {"healthy", "continue"},
             OnFailure[t] # {} => \E d \in OnFailure[t] : plan[d] \in {"fail", "cancel", "continue"}
      PROVE  /\ \A u \in Upstream[t] : u # t => pc'[u] = "done" /\ plan'[u] \notin {"skip", "drop"}
             /\ \A d \in HardDependencies(t) : plan'[d] \in {"healthy", "continue"}
             /\ OnFailure[t] # {} => \E d \in OnFailure[t] : plan'[d] \in {"fail", "cancel", "continue"}
  <2>1. \A u \in Upstream[t] : u # t => pc'[u] = "done" /\ plan'[u] = plan[u]
    BY <1>0, <1>1, <1>2, MarkedForGood DEF Marked
  <2> QED BY <1>1, <1>2, <2>1
<1>3. CASE Ran(t)
  <2>1. pc[t] # "none"
    BY <1>0, <1>3 DEF Ran, PlanLife
  <2>2. Known(Group[t])
    BY <1>0, <2>1, KnownBefore
  <2> QED BY <1>0, <1>2, <1>3, <2>2 DEF RanWell
<1>4. CASE Check(t) /\ pc'[t] = "start"
  <2>1. routine[t] # "none" /\ Known(Group[t])
    BY <1>4 DEF Check, Known
  <2>2. ~ShouldSkip(t)
    BY <1>0, <1>4, <2>1 DEF Check, Goto, ServiceTypeOK, Finishers
  <2>3. \A d \in Edges(t) : step[d] # "skipped"
    BY <2>2 DEF ShouldSkip, Edges
  <2>4. \A u \in Upstream[t] : u # t => pc[u] = "done" /\ plan[u] \in {"healthy", "fail", "cancel", "continue"}
    BY <2>1, <2>3, UpstreamRan
  <2>5. ASSUME NEW d \in HardDependencies(t) PROVE plan[d] \in {"healthy", "continue"}
    <3>1. d \in Tasks /\ Returned(d)
      BY <2>1, HardEdges DEF IndInv, DependenciesReturned
    <3>2. RunResult(d) = "ok"
      BY <3>1, InvParts DEF Returned, NodeLife
    <3>3. plan[d] \in {"healthy", "fail", "cancel", "continue"}
      BY <1>1, <2>4
    <3> QED BY <3>2, <3>3 DEF RunResult
  <2>6. OnFailure[t] # {} => \E d \in OnFailure[t] : plan[d] \in {"fail", "cancel", "continue"}
    <3> SUFFICES ASSUME OnFailure[t] # {} PROVE \E d \in OnFailure[t] : plan[d] \in {"fail", "cancel", "continue"}
      OBVIOUS
    <3>1. PICK d \in OnFailure[t] : step[d] = "failed"
      BY <2>2 DEF ShouldSkip, Triggered
    <3>2. d \in Tasks /\ Group[d] = Group[t] /\ pc[d] = "done"
      BY <2>1, EdgeFacts DEF RefInv, DepsDone
    <3>3. MarkStatus(d) = "failed"
      BY <2>1, <3>1, <3>2, InvParts DEF RefInv, StepIsVerdict, Recorded, Marked
    <3>4. plan[d] \in {"healthy", "fail", "cancel", "continue"}
      BY <1>1, <2>4
    <3> QED BY <3>3, <3>4 DEF MarkStatus
  <2> QED BY <1>2, <2>1, <2>4, <2>5, <2>6
<1>5. Ran(t) \/ (Check(t) /\ pc'[t] = "start")
  <2>1. CASE pc'[t] \in {"start", "exec"}
    BY <1>0, <2>1, OnlyCheckStarts DEF Ran
  <2>2. CASE plan'[t] \in {"healthy", "fail", "cancel", "continue", "drop"} /\ ~Ran(t)
    <3>1. plan[t] \in {"none", "skip"}
      BY <1>0, <2>2 DEF Ran, PlanLife, ServiceTypeOK
    <3>2. plan[t] = "none"
      BY <2>2, <3>1, PlanForGood
    <3>3. ASSUME NEW u \in Tasks, Check(u) \/ BeginCallback(u) PROVE FALSE
      BY <1>0, <2>2, <3>2, <3>3 DEF Check, BeginCallback, ServiceTypeOK
    <3>4. ASSUME NEW u \in Tasks, NEW r, BackendReturns(u, r) PROVE FALSE
      BY <1>0, <2>2, <3>2, <3>4 DEF BackendReturns, ServiceTypeOK, Ran
    <3>5. CASE UNCHANGED plan
      BY <2>2, <3>2, <3>5
    <3> QED
      BY <3>3, <3>4, <3>5
      DEF Next, vars, serviceVars, Dispatch, Expiry, CloseQueue, CloseStep, BootsWaited, Drained,
          CloseReturns, CloseDestroys, CreateExecution, BootStep, BootResolve, BootSetup, BootEnqueue,
          BootFails, FinishStep, Destroy, Teardown, Prune, NodeStep, Start, Mark, Return, EndCallback,
          TaskRoutine, Leases, SendReport, LandReport
  <2> QED BY <2>1, <2>2 DEF Ran
<1> QED BY <1>3, <1>4, <1>5

\* Whatever makes shouldSkipNode answer yes is a lasting reason: the outcomes
\* it rests on are final.
LEMMA CheckJustified ==
    ASSUME IndInv, RefInv, NEW t \in Tasks, routine[t] # "none", Known(Group[t]), ShouldSkip(t)
    PROVE  Justified(t)
<1>1. /\ Edges(t) = HardDependencies(t) \cup OnFailure[t]
      /\ \A d \in Edges(t) : d \in Tasks /\ Group[d] = Group[t] /\ Place[d] < Place[t]
  BY EdgeFacts
<1>2. ASSUME NEW d \in Tasks, Group[d] = Group[t], pc[d] = "done"
      PROVE  step[d] = verdict[d] /\ verdict[d] \in TerminalStep
  <2>1. Marked(d)
    BY <1>2 DEF Marked
  <2>2. step[d] = verdict[d] /\ verdict[d] = MarkStatus(d)
    BY <1>2, <2>1, InvParts DEF RefInv, StepIsVerdict, Recorded
  <2> QED BY <2>2 DEF MarkStatus, TerminalStep
<1>3. \A d \in Edges(t) : step[d] = verdict[d] /\ verdict[d] \in TerminalStep
  BY <1>1, <1>2 DEF RefInv, DepsDone
<1>4. CASE OnFailure[t] # {} /\ ~Triggered(t)
  <2>1. \A d \in OnFailure[t] : verdict[d] \in {"healthy", "skipped"}
    BY <1>1, <1>3, <1>4 DEF Triggered, TerminalStep
  <2> QED BY <1>4, <2>1 DEF Justified
<1>5. CASE \E d \in Edges(t) :
              step[d] = "skipped" \/ (step[d] = "failed" /\ d \notin OnFailure[t] /\ d \notin ContinueOnFailure)
  BY <1>1, <1>3, <1>5 DEF Justified
<1>6. CASE status[Group[t]] = "Failed" /\ ~FailurePath(t) /\ \A d \in Edges(t) : step[d] # "skipped"
  <2>1. ASSUME NEW u \in Upstream[t], NEW d \in OnFailure[u] PROVE verdict[d] = "healthy"
    <3>1. u \in Tasks /\ Edges(u) \subseteq Upstream[t] /\ Place[u] <= Place[t] /\ Group[u] = Group[t]
      BY UpstreamFacts
    <3>2. d \in Edges(u) /\ d \in Tasks /\ Group[d] = Group[t] /\ Place[d] < Place[u]
      BY <3>1, EdgeFacts
    <3>3. d \in Upstream[t] /\ d # t
      <4>1. Place[d] \in Nat /\ Place[u] \in Nat /\ Place[t] \in Nat
        BY <3>1, <3>2, QueueAssumption DEF QueueAssumption
      <4> QED BY <3>1, <3>2, <4>1
    <3>4. pc[d] = "done" /\ plan[d] \in {"healthy", "fail", "cancel", "continue"}
      BY <1>6, <3>3, UpstreamRan
    <3>5. verdict[d] = MarkStatus(d) /\ step[d] = verdict[d]
      BY <1>2, <3>2, <3>4, InvParts DEF Recorded, Marked
    <3>6. step[d] # "failed"
      BY <1>6 DEF FailurePath, Triggered
    <3> QED BY <3>4, <3>5, <3>6 DEF MarkStatus
  <2> QED BY <1>6, <2>1 DEF Justified
<1> QED BY <1>4, <1>5, <1>6 DEF ShouldSkip, Edges

\* The queue cancels a step only after a dependency that was skipped or failed.
LEMMA CallbackJustified ==
    ASSUME IndInv, RefInv, NEW t \in callbacks, \A u \in callbacks : ~Before(u, t), Known(Group[t])
    PROVE  Justified(t)
<1>1. t \in Tasks
  BY InvParts DEF Typed, QueueTypeOK
<1>2. PICK d \in HardDependencies(t) :
          d \in callbacks \cup notified \/ (pc[d] = "done" /\ plan[d] \in {"fail", "cancel"})
  BY <1>1 DEF RefInv, EntryMeans
<1>3. d \in Tasks /\ Group[d] = Group[t] /\ Place[d] < Place[t]
  BY <1>1, <1>2, EdgeFacts
<1>4. d \notin callbacks
  BY <1>3 DEF Before
<1>5. pc[d] = "done" /\ plan[d] \in {"skip", "fail", "cancel"}
  BY <1>2, <1>3, <1>4, InvParts DEF RefInv, EntryMeans, NodeLife
<1>6. verdict[d] = MarkStatus(d) /\ (plan[d] = "fail" => d \notin ContinueOnFailure)
  BY <1>3, <1>5, InvParts DEF Recorded, Marked, PlanLife
<1> QED BY <1>5, <1>6 DEF MarkStatus, Justified

\* A step that was canceled in a failed run is dropped only off every failure
\* branch: what is upstream of it is through, and healthy where it is handled.
LEMMA DropJustified ==
    ASSUME IndInv, RefInv, NEW t \in Tasks, pc[t] = "exec", Known(Group[t]),
           status[Group[t]] = "Failed", ~FailurePath(t)
    PROVE  Justified(t)
<1>1. ASSUME NEW u \in Upstream[t], NEW d \in OnFailure[u] PROVE verdict[d] = "healthy"
  <2>1. u \in Tasks /\ Edges(u) \subseteq Upstream[t] /\ Place[u] <= Place[t] /\ Group[u] = Group[t]
    BY UpstreamFacts
  <2>2. d \in Edges(u) /\ d \in Tasks /\ Group[d] = Group[t] /\ Place[d] < Place[u]
    BY <2>1, EdgeFacts
  <2>3. d \in Upstream[t] /\ d # t
    <3>1. Place[d] \in Nat /\ Place[u] \in Nat /\ Place[t] \in Nat
      BY <2>1, <2>2, QueueAssumption DEF QueueAssumption
    <3> QED BY <2>1, <2>2, <3>1
  <2>4. pc[d] = "done" /\ plan[d] \notin {"skip", "drop"}
    BY <2>3 DEF RefInv, RanWell, Ran
  <2>5. verdict[d] = MarkStatus(d) /\ step[d] = verdict[d]
    BY <2>2, <2>4, InvParts DEF RefInv, StepIsVerdict, Recorded, Marked
  <2>6. step[d] # "failed"
    BY DEF FailurePath, Triggered
  <2> QED BY <2>4, <2>5, <2>6 DEF MarkStatus
<1> QED BY <1>1 DEF Justified

\* A reason to skip a step lasts.
LEMMA JustifiedForGood ==
    ASSUME IndInv, [Next]_vars, NEW t \in Tasks, pc[Group[t]] # "none", Justified(t)
    PROVE  Justified(t)'
<1>1. /\ Upstream[t] \subseteq Tasks /\ Group[t] \in Groups
      /\ HardDependencies(t)' = HardDependencies(t) /\ HardDependencies(t) \subseteq Tasks
      /\ \A u \in Tasks : OnFailure[u] \subseteq Tasks
  BY UpstreamFacts, EdgeFacts, RunsAreGroups DEF HardDependencies
<1>2. \A d \in Tasks : verdict[d] # "none" => verdict'[d] = verdict[d]
  BY VerdictForGood
<1>3. status[Group[t]] = "Failed" => status'[Group[t]] = "Failed"
  BY <1>1, FailedForGood
<1>4. CASE \E d \in HardDependencies(t) :
          \/ verdict[d] = "skipped"
          \/ verdict[d] = "failed" /\ (d \notin ContinueOnFailure \/ plan[d] = "cancel")
  <2>1. PICK d \in HardDependencies(t) :
          \/ verdict[d] = "skipped"
          \/ verdict[d] = "failed" /\ (d \notin ContinueOnFailure \/ plan[d] = "cancel")
    BY <1>4
  <2>2. d \in Tasks /\ verdict'[d] = verdict[d] /\ (plan[d] = "cancel" => plan'[d] = "cancel")
    BY <1>1, <1>2, <2>1, PlanForGood
  <2> QED BY <1>1, <2>1, <2>2 DEF Justified
<1>5. CASE OnFailure[t] # {} /\ \A d \in OnFailure[t] : verdict[d] = "healthy"
  BY <1>1, <1>2, <1>5 DEF Justified
<1>6. CASE \E d \in OnFailure[t] : verdict[d] = "skipped"
  BY <1>1, <1>2, <1>6 DEF Justified
<1>7. CASE status[Group[t]] = "Failed" /\ \A u \in Upstream[t] : \A d \in OnFailure[u] : verdict[d] = "healthy"
  BY <1>1, <1>2, <1>3, <1>7 DEF Justified
<1> QED BY <1>4, <1>5, <1>6, <1>7 DEF Justified

\* Every step that is about to be skipped has a reason.
LEMMA SkipJustifiedStep ==
    ASSUME IndInv, RefInv, [Next]_vars, NEW t \in Tasks
    PROVE  SkipJustified(t)'
<1>0. /\ NodeLife(t) /\ BootLife(Group[t]) /\ PlanLife(t) /\ Typed /\ PlacesOK /\ CallbacksRun
      /\ ServiceTypeOK /\ SkipJustified(t)
  BY InvParts DEF RefInv
<1> SUFFICES ASSUME plan'[t] \in {"skip", "drop"}, ~Marked(t)', Known(Group[t])' PROVE Justified(t)'
  BY DEF SkipJustified
<1>1. ~Marked(t)
  BY <1>0, MarkedForGood
<1>2. CASE plan[t] \in {"skip", "drop"}
  <2>1. pc[t] # "none"
    BY <1>0, <1>2 DEF PlanLife
  <2>2. Known(Group[t]) /\ pc[Group[t]] # "none"
    BY <1>0, <2>1, KnownBefore DEF BootLife
  <2> QED BY <1>0, <1>1, <1>2, <2>2, JustifiedForGood DEF SkipJustified
<1>3. CASE plan[t] \notin {"skip", "drop"}
  <2>1. ASSUME NEW u \in Tasks, Check(u) PROVE Justified(t)'
    <3>1. u = t /\ Known(Group[t]) /\ ShouldSkip(t) /\ routine[t] # "none"
      BY <1>0, <1>3, <2>1 DEF Check, ServiceTypeOK
    <3>2. Justified(t) /\ pc[Group[t]] # "none"
      BY <1>0, <3>1, CheckJustified DEF BootLife
    <3> QED BY <3>2, JustifiedForGood
  <2>2. ASSUME NEW u \in Tasks, BeginCallback(u) PROVE Justified(t)'
    <3>1. u = t /\ t \in callbacks /\ \A v \in callbacks : ~Before(v, t)
      BY <1>0, <1>3, <2>2 DEF BeginCallback, ServiceTypeOK
    <3>2. Known(Group[t])
      BY <2>2 DEF BeginCallback, Known
    <3>3. Justified(t) /\ pc[Group[t]] # "none"
      BY <1>0, <3>1, <3>2, CallbackJustified DEF BootLife
    <3> QED BY <3>3, JustifiedForGood
  <2>3. ASSUME NEW u \in Tasks, NEW r, BackendReturns(u, r) PROVE Justified(t)'
    <3>1. u = t /\ Known(Group[t]) /\ status[Group[t]] = "Failed" /\ ~FailurePath(t) /\ pc[t] = "exec"
      BY <1>0, <1>3, <2>3 DEF BackendReturns, ServiceTypeOK
    <3>2. Justified(t) /\ pc[Group[t]] # "none"
      BY <1>0, <3>1, DropJustified DEF BootLife
    <3> QED BY <3>2, JustifiedForGood
  <2>4. CASE UNCHANGED plan
    BY <1>3, <2>4
  <2> QED
    BY <2>1, <2>2, <2>3, <2>4
    DEF Next, vars, serviceVars, Dispatch, Expiry, CloseQueue, CloseStep, BootsWaited, Drained,
        CloseReturns, CloseDestroys, CreateExecution, BootStep, BootResolve, BootSetup, BootEnqueue,
        BootFails, FinishStep, Destroy, Teardown, Prune, NodeStep, Start, Mark, Return, EndCallback,
        TaskRoutine, Leases, SendReport, LandReport
<1> QED BY <1>2, <1>3

-----------------------------------------------------------------------------
(* markNodeTerminal, the launch and the life of a run *)

\* What markNodeTerminal does to a run on record: it gives the step its
\* verdict, and finds the run complete exactly when this was its last step.
LEMMA KnownMark ==
    ASSUME IndInv, [Next]_vars, NEW t \in Tasks, Mark(t), Known(Group[t])
    PROVE  /\ verdict[t] = "none" /\ verdict' = [verdict EXCEPT ![t] = MarkStatus(t)]
           /\ pc'[t] \in {"destroy", "return"}
           /\ pc'[t] = "destroy" <=> \A u \in Steps(Group[t]) : verdict'[u] # "none"
           /\ \A u \in Steps(Group[t]) : Marked(u)' <=> verdict'[u] # "none"
           /\ status' = [status EXCEPT ![Group[t]] =
                            CASE HardFailure(t)                         -> "Failed"
                              [] ~HardFailure(t) /\ pc'[t] = "destroy" /\ @ # "Failed" -> "Healthy"
                              [] OTHER                                  -> @]
<1> DEFINE e == Group[t]
<1>0. /\ e \in Groups /\ ServiceTypeOK /\ ServiceTypeOK' /\ Typed /\ Recorded(t) /\ Counted(e)
      /\ NodeLife(t) /\ BootLife(e) /\ t \in Finishers
  BY InvParts, RunsAreGroups, ServiceTypeStep DEF Finishers
<1>1. ~Marked(t) /\ pc[t] = "mark" /\ t \in Steps(e) /\ prepared[e]
  BY <1>0, EnteredIsBooted DEF Mark, Marked, Releasing, Steps
<1>2. verdict[t] = "none" /\ step[t] \notin TerminalStep
  BY <1>0, <1>1 DEF Recorded
<1> DEFINE full == Complete(e, completed[e] + 1)
<1>3. /\ verdict' = [verdict EXCEPT ![t] = MarkStatus(t)]
      /\ pc'[t] = IF full THEN "destroy" ELSE "return"
      /\ status' = [status EXCEPT ![e] =
                            CASE HardFailure(t)         -> "Failed"
                              [] ~HardFailure(t) /\ full /\ @ # "Failed" -> "Healthy"
                              [] OTHER                  -> @]
  BY <1>0, <1>2 DEF Mark, Goto, ServiceTypeOK
<1>4. Cardinality(MarkedOf(e)') = completed[e] + 1
  BY <1>0, MarkCounts DEF Counted
<1>5. MarkedOf(e)' \subseteq Steps(e) /\ IsFiniteSet(Steps(e)) /\ Cardinality(Steps(e)) \in Nat
  BY <1>0, StepsFinite DEF MarkedOf, Steps
<1>6. completed[e] + 1 \in Nat
  BY <1>0 DEF ServiceTypeOK
<1>7. full <=> MarkedOf(e)' = Steps(e)
  <2>1. full <=> Cardinality(MarkedOf(e)') >= Cardinality(Steps(e))
    BY <1>1, <1>4 DEF Complete, Total
  <2>2. Cardinality(MarkedOf(e)') <= Cardinality(Steps(e))
    BY <1>5, FS_Subset
  <2>3. Cardinality(MarkedOf(e)') = Cardinality(Steps(e)) => MarkedOf(e)' = Steps(e)
    BY <1>5, FS_Subset
  <2> HIDE DEF full
  <2> QED BY <1>4, <1>5, <1>6, <2>1, <2>2, <2>3
<1>8. ASSUME NEW u \in Steps(e) PROVE Marked(u)' <=> verdict'[u] # "none"
  <2>1. u \in Tasks /\ Group[u] = e /\ Recorded(u)' /\ Known(e)'
    BY InvStep, InvParts DEF Steps, Mark, Known, IndInv, ServiceInv
  <2>2. MarkStatus(u)' # "none"
    BY DEF MarkStatus
  <2> QED BY <2>1, <2>2 DEF Recorded
<1>9. full <=> \A u \in Steps(e) : verdict'[u] # "none"
  <2> HIDE DEF full
  <2> QED BY <1>7, <1>8 DEF MarkedOf, Steps
<1>10. pc'[t] = "destroy" <=> full
  <2> HIDE DEF full
  <2> QED BY <1>3
<1> HIDE DEF full
<1> QED BY <1>2, <1>3, <1>8, <1>9, <1>10

\* An evicted run is not told of its steps any more.
LEMMA UnknownMark ==
    ASSUME IndInv, NEW t \in Tasks, Mark(t), ~Known(Group[t])
    PROVE  verdict' = verdict /\ status' = status /\ pc'[t] = "return"
<1>0. ServiceTypeOK /\ Group[t] \in Groups /\ t \in Finishers
  BY InvParts, RunsAreGroups DEF Finishers
<1> QED BY <1>0 DEF Mark, Goto, ServiceTypeOK

\* A run that has not ended is not evicted.
LEMMA EvictionKeeps ==
    ASSUME NEW order \in Seq(Groups), NEW j \in 1..Len(order), status[order[j]] \notin Ended
    PROVE  \E i \in 1..Len(Evicted(order)) : Evicted(order)[i] = order[j]
<1>0. ASSUME NEW n \in Nat PROVE IsFiniteSet(1..n) /\ Cardinality(1..n) = n
  <2>1. 1 \in Int /\ n \in Int
    OBVIOUS
  <2>2. IsFiniteSet(1..n) /\ Cardinality(1..n) = IF 1 > n THEN 0 ELSE n - 1 + 1
    BY <2>1, FS_Interval, Zenon
  <2> QED BY <2>2
<1> DEFINE Goes(k) == \A i \in 1..k : i <= Len(order) - MaxStored /\ status[order[i]] \in Ended
           gone == {k \in 1..Len(order) : Goes(k)}
           m == Cardinality(gone)
<1>1. j \in Nat /\ j - 1 \in Nat /\ Len(order) \in Nat /\ j <= Len(order)
  OBVIOUS
<1>2. gone \subseteq 1..(j - 1)
  <2> SUFFICES ASSUME NEW k \in 1..Len(order), Goes(k), k >= j PROVE FALSE
    BY <1>1
  <2> QED OBVIOUS
<1>3. m \in Nat /\ m <= j - 1
  <2> HIDE DEF gone
  <2>1. IsFiniteSet(1..(j - 1)) /\ Cardinality(1..(j - 1)) = j - 1
    BY <1>0, <1>1
  <2>2. IsFiniteSet(gone) /\ Cardinality(gone) <= j - 1
    <3>1. IsFiniteSet(gone) /\ Cardinality(gone) <= Cardinality(1..(j - 1))
      BY <1>2, <2>1, FS_Subset, Zenon
    <3> QED BY <2>1, <3>1
  <2> QED BY <2>2, FS_CardinalityType
<1>4. Evicted(order) = SubSeq(order, m + 1, Len(order))
  BY DEF Evicted
<1> HIDE DEF m, gone
<1>5. /\ j - m \in 1..Len(SubSeq(order, m + 1, Len(order)))
      /\ SubSeq(order, m + 1, Len(order))[j - m] = order[j]
  BY <1>1, <1>3, SubSeqProperties
<1> QED BY <1>4, <1>5

\* A launch puts its run on record, and keeps on record those that have not ended.
LEMMA LaunchKeeps ==
    ASSUME IndInv, RefInv, NEW f \in Groups, CreateExecution(f),
           NEW e \in Groups, e = f \/ (Known(e) /\ status[e] \notin Ended)
    PROVE  Known(e)'
<1>1. /\ Append(runOrder, f) \in Seq(Groups) /\ Len(Append(runOrder, f)) = Len(runOrder) + 1
      /\ Append(runOrder, f)[Len(runOrder) + 1] = f /\ Len(runOrder) \in Nat
      /\ \A i \in 1..Len(runOrder) : Append(runOrder, f)[i] = runOrder[i]
  BY InvParts DEF ServiceTypeOK
<1>2. status[e] \notin Ended
  BY DEF RefInv, RunLife, CreateExecution, Ended
<1>3. PICK j \in 1..Len(Append(runOrder, f)) : Append(runOrder, f)[j] = e
  <2>1. CASE e = f
    BY <1>1, <2>1
  <2>2. CASE Known(e)
    <3>1. PICK i \in 1..Len(runOrder) : runOrder[i] = e
      BY <2>2 DEF Known
    <3>2. i \in 1..Len(Append(runOrder, f))
      BY <1>1
    <3> QED BY <1>1, <3>1, <3>2
  <2> QED BY <2>1, <2>2
<1>4. \E i \in 1..Len(runOrder') : runOrder'[i] = e
  BY <1>1, <1>2, <1>3, EvictionKeeps DEF CreateExecution
<1> QED BY <1>4 DEF Known

\* The status and the backend of a run follow its boot.
LEMMA RunLifeStep ==
    ASSUME Undisturbed, IndInv, RefInv, [Next]_vars, NEW e \in Groups
    PROVE  RunLife(e)'
<1>0. /\ ServiceTypeOK /\ Typed /\ PlacesOK /\ CallbacksRun /\ BootLife(e) /\ RunLife(e) /\ Calm
      /\ Steps(e) \subseteq Tasks /\ Steps(e)' = Steps(e) /\ e \in Finishers /\ e \notin Tasks
  BY InvParts, RunsAreGroups DEF RefInv, Steps, Finishers
<1>1. \A u \in Steps(e) : Marked(u) => Marked(u)'
  BY <1>0, MarkedForGood
<1>2. ASSUME pc'[e] = pc[e], status'[e] = status[e], resources'[e] = resources[e],
             arrival'[e] = arrival[e],
             pc[e] \in {"resolve", "setup", "sidecar"} => Known(e)'
      PROVE  RunLife(e)'
  BY <1>0, <1>1, <1>2 DEF RunLife
<1>3. ASSUME NEW f \in Groups, CreateExecution(f) PROVE RunLife(e)'
  <2>1. CASE f = e
    <3>1. /\ pc'[e] = "resolve" /\ status'[e] = "Booting" /\ resources'[e] = "none"
      BY <1>0, <1>3, <2>1 DEF CreateExecution, Goto, ServiceTypeOK, RunLife
    <3>2. Known(e)'
      BY <1>3, <2>1, LaunchKeeps
    <3> QED BY <3>1, <3>2 DEF RunLife, Releasing
  <2>2. CASE f # e
    <3>1. pc'[e] = pc[e] /\ status'[e] = status[e] /\ resources' = resources /\ arrival' = arrival
      BY <1>0, <1>3, <2>2 DEF CreateExecution, Goto, ServiceTypeOK, queueVars
    <3>2. pc[e] \in {"resolve", "setup", "sidecar"} => Known(e)'
      BY <1>0, <1>3, LaunchKeeps DEF RunLife, Ended
    <3> QED BY <1>2, <3>1, <3>2
  <2> QED BY <2>1, <2>2
<1>4. ASSUME UNCHANGED runOrder PROVE pc[e] \in {"resolve", "setup", "sidecar"} => Known(e)'
  BY <1>0, <1>4 DEF RunLife, Known
<1>5. ASSUME NEW f \in Groups, BootStep(f) PROVE RunLife(e)'
  <2>0. UNCHANGED runOrder
    BY <1>5 DEF BootStep, BootResolve, BootSetup, BootEnqueue, BootFails
  <2>1. CASE f # e
    <3>1. pc'[e] = pc[e] /\ status'[e] = status[e] /\ resources'[e] = resources[e] /\ arrival'[e] = arrival[e]
      BY <1>0, <1>5, <2>1
      DEF BootStep, BootResolve, BootSetup, BootEnqueue, Enqueue, BootFails, Goto, ServiceTypeOK,
          Typed, QueueTypeOK, queueVars
    <3> QED BY <1>2, <1>4, <2>0, <3>1
  <2>2. CASE f = e /\ (BootResolve(e) \/ BootSetup(e))
    <3>1. pc[e] \in {"resolve", "setup"} /\ status' = status /\ arrival' = arrival
      BY <2>2 DEF BootResolve, BootSetup, queueVars
    <3>2. \/ pc'[e] = "setup" /\ resources' = resources
          \/ pc'[e] = "sidecar"
      BY <1>0, <2>2 DEF BootResolve, BootSetup, Goto, ServiceTypeOK
    <3> QED BY <1>0, <1>4, <2>0, <3>1, <3>2 DEF RunLife, Releasing
  <2>3. CASE f = e /\ BootEnqueue(e)
    <3>1. pc[e] = "sidecar" /\ status' = status /\ pc'[e] = "done"
      BY <1>0, <2>3 DEF BootEnqueue, Goto, ServiceTypeOK
    <3> QED BY <1>0, <3>1 DEF RunLife, Releasing
  <2>4. CASE f = e /\ BootFails(e)
    <3>1. pc[e] \in {"resolve", "setup", "sidecar"} /\ pc'[e] = "destroy"
      BY <1>0, <2>4 DEF BootFails, Goto, ServiceTypeOK
    <3>2. Known(e)
      BY <1>0, <3>1 DEF RunLife
    <3>3. status'[e] = "Failed"
      BY <1>0, <2>4, <3>2 DEF BootFails, ServiceTypeOK
    <3> QED BY <3>1, <3>3 DEF RunLife
  <2> QED BY <1>5, <2>1, <2>2, <2>3, <2>4 DEF BootStep
<1>6. ASSUME NEW x \in Finishers, FinishStep(x) PROVE RunLife(e)'
  <2>0. UNCHANGED <<runOrder, status, arrival>>
    BY <1>6 DEF FinishStep, Destroy, Teardown, Prune, PruneGroup, queueVars
  <2>1. CASE x = e
    <3>1. pc[e] \in Releasing /\ pc'[e] \in {"teardown", "prune", "done"}
      BY <1>0, <1>6, <2>1, RunsAreGroups DEF FinishStep, Destroy, Teardown, Prune, Goto, ServiceTypeOK, Releasing
    <3> QED BY <1>0, <1>1, <2>0, <3>1 DEF RunLife, Releasing
  <2>2. CASE x # e
    <3>1. pc'[e] = pc[e]
      BY <1>0, <1>6, <2>2 DEF FinishStep, Destroy, Teardown, Prune, Goto, ServiceTypeOK
    <3>2. CASE resources'[e] = resources[e]
      BY <1>2, <1>4, <2>0, <3>1, <3>2
    <3>3. CASE resources'[e] # resources[e]
      <4>1. x \in Tasks /\ Group[x] = e /\ pc[x] # "none"
        BY <1>0, <1>6, <2>2, <3>3, RunsAreGroups DEF FinishStep, Destroy, Teardown, Prune, ServiceTypeOK
      <4>2. pc[e] = "done"
        BY <1>0, <4>1, EnteredIsBooted, InvParts
      <4> QED BY <1>0, <1>1, <2>0, <3>1, <4>2 DEF RunLife, Releasing
    <3> QED BY <3>2, <3>3
  <2> QED BY <2>1, <2>2
<1>7. ASSUME NEW t \in Tasks, Mark(t) PROVE RunLife(e)'
  <2>0. UNCHANGED <<runOrder, resources, arrival>> /\ pc'[e] = pc[e]
    BY <1>0, <1>7 DEF Mark, CancelRunningGroup, Goto, ServiceTypeOK, queueVars
  <2>1. CASE status'[e] = status[e]
    BY <1>2, <1>4, <2>0, <2>1
  <2>2. CASE status'[e] # status[e]
    <3>1. Known(Group[t]) /\ Group[t] = e
      BY <1>0, <1>7, <2>2, UnknownMark, KnownMark DEF ServiceTypeOK
    <3>2. pc[e] = "done"
      BY <1>0, <1>7, <3>1, EnteredIsBooted, InvParts DEF Mark
    <3>0. status' = [status EXCEPT ![e] =
                          CASE HardFailure(t)                         -> "Failed"
                            [] ~HardFailure(t) /\ pc'[t] = "destroy" /\ @ # "Failed" -> "Healthy"
                            [] OTHER                                  -> @]
      BY <1>7, <3>1, KnownMark, Zenon
    <3>3. status'[e] \in {"Failed", "Healthy", status[e]}
      BY <1>0, <3>0 DEF ServiceTypeOK
    <3>4. status'[e] = "Healthy" => \A u \in Steps(e) : Marked(u)'
      <4>1. status'[e] = "Healthy" => pc'[t] = "destroy"
        BY <1>0, <2>2, <3>0 DEF ServiceTypeOK
      <4> QED BY <1>7, <3>1, <4>1, KnownMark, Zenon
    <3> QED BY <1>0, <2>0, <2>2, <3>2, <3>3, <3>4 DEF RunLife, Releasing
  <2> QED BY <2>1, <2>2
<1>8. ASSUME NEW t \in Tasks,
             Check(t) \/ Start(t) \/ Return(t) \/ BeginCallback(t) \/ EndCallback(t) \/ (\E r : BackendReturns(t, r))
      PROVE  RunLife(e)'
  <2>1. UNCHANGED <<runOrder, status, resources, arrival>> /\ pc'[e] = pc[e]
    BY <1>0, <1>8
    DEF Check, Start, Return, RunReturns, BeginCallback, EndCallback, Notify, BackendReturns, Goto,
        ServiceTypeOK, queueVars
  <2> QED BY <1>2, <1>4, <2>1
<1>9. CASE QueueOnly
  <2>1. UNCHANGED <<serviceVars, arrival>>
    BY <1>0, <1>9, QueueOnlyFrame DEF Typed
  <2> QED BY <1>2, <1>4, <2>1 DEF serviceVars
<1>10. CASE UNCHANGED vars
  BY <1>2, <1>4, <1>10 DEF vars, serviceVars, queueVars
<1>11. ~CloseQueue /\ ~CloseStep /\ \A t \in Tasks : ~SendReport(t) /\ ~LandReport(t)
  BY <1>0
  DEF Calm, Undisturbed, CloseQueue, CloseStep, BootsWaited, Drained, CloseReturns, CloseDestroys,
      SendReport, LandReport
<1> QED
  BY <1>3, <1>5, <1>6, <1>7, <1>8, <1>9, <1>10, <1>11 DEF Next, NodeStep, QueueOnly

\* A step tears its run down when the run has ended and every step has a
\* verdict.
LEMMA OverWhenReleasedStep ==
    ASSUME IndInv, RefInv, [Next]_vars, NEW x \in Tasks
    PROVE  OverWhenReleased(x)'
<1> DEFINE e == Group[x]
<1>0. /\ ServiceTypeOK /\ Typed /\ PlacesOK /\ CallbacksRun /\ OverWhenReleased(x) /\ e \in Groups
      /\ NodeLife(x) /\ BootLife(e) /\ Steps(e) \subseteq Tasks /\ Steps(e)' = Steps(e) /\ x \in Finishers
  BY InvParts, RunsAreGroups DEF RefInv, Steps, Finishers
<1> SUFFICES ASSUME pc'[x] \in {"destroy", "teardown"}
             PROVE  status'[e] \in Ended /\ \A u \in Steps(e) : verdict'[u] # "none"
  BY <1>0 DEF OverWhenReleased
<1>1. CASE pc[x] \in {"destroy", "teardown"}
  <2>1. pc[e] = "done" /\ status[e] \in Ended
    BY <1>0, <1>1, EnteredIsBooted DEF OverWhenReleased
  <2>2. status'[e] \in Ended
    BY <1>0, <2>1, StatusMoves DEF Ended
  <2> QED BY <1>0, <1>1, <2>2, VerdictForGood DEF OverWhenReleased
<1>2. CASE Mark(x)
  <2>1. Known(e) /\ pc'[x] = "destroy"
    BY <1>2, UnknownMark, KnownMark
  <2>2. \A u \in Steps(e) : verdict'[u] # "none"
    BY <1>2, <2>1, KnownMark
  <2>3. status'[e] \in Ended
    BY <1>0, <1>2, <2>1, KnownMark DEF Ended, ServiceTypeOK
  <2> QED BY <2>2, <2>3
<1>3. pc[x] # "prune"
  <2> SUFFICES ASSUME pc[x] = "prune" PROVE FALSE
    OBVIOUS
  <2>1. ASSUME NEW y \in Finishers, FinishStep(y) PROVE pc'[x] \in {"prune", "return"}
    BY <1>0, <2>1, RunsAreGroups DEF FinishStep, Destroy, Teardown, Prune, Goto, ServiceTypeOK
  <2>2. ASSUME NEW f \in Groups, CreateExecution(f) \/ BootStep(f) PROVE pc'[x] = "prune"
    BY <1>0, <2>2, RunsAreGroups
    DEF CreateExecution, BootStep, BootResolve, BootSetup, BootEnqueue, BootFails, Goto, ServiceTypeOK
  <2>3. ASSUME NEW t \in Tasks, NodeStep(t) \/ (\E r : BackendReturns(t, r)) PROVE pc'[x] = "prune"
    BY <1>0, <2>3
    DEF NodeStep, Check, Start, Mark, Return, BeginCallback, EndCallback, BackendReturns, Goto, ServiceTypeOK
  <2>4. CASE UNCHANGED pc
    BY <2>4
  <2> QED
    BY <2>1, <2>2, <2>3, <2>4
    DEF Next, vars, serviceVars, Dispatch, Expiry, CloseQueue, CloseStep, BootsWaited, Drained,
        CloseReturns, CloseDestroys, TaskRoutine, Leases, SendReport, LandReport
<1> QED BY <1>0, <1>1, <1>2, <1>3, MarkedForGood DEF Releasing

-----------------------------------------------------------------------------
(* The refinement *)

\* The invariant holds initially.
LEMMA RefInit == Init => RefInv
<1> SUFFICES ASSUME Init PROVE RefInv
  OBVIOUS
<1> USE DEF Init, QueueInit, ServiceInit
<1>1. Calm
  BY DEF Calm
<1>2. ASSUME NEW e \in Groups PROVE RunLife(e)
  BY DEF RunLife, Releasing, Finishers
<1>3. ASSUME NEW t \in Tasks
      PROVE  /\ EntryMeans(t) /\ DepsDone(t) /\ StepIsVerdict(t)
             /\ RanWell(t) /\ SkipJustified(t) /\ OverWhenReleased(t)
  <2>1. /\ pc[t] = "none" /\ plan[t] = "none" /\ routine[t] = "none" /\ state[t] = "absent"
        /\ arrival[Group[t]] = 0 /\ claimed # t
    BY RunsAreGroups, QueueAssumption DEF Finishers, QueueAssumption
  <2>2. ~Marked(t) /\ ~Ran(t)
    BY <2>1 DEF Marked, Releasing, Ran
  <2> QED
    BY <2>1, <2>2
    DEF EntryMeans, DepsDone, StepIsVerdict, RanWell, SkipJustified, OverWhenReleased
<1> QED BY <1>1, <1>2, <1>3 DEF RefInv

\* Every step keeps it while nothing disturbs the service.
LEMMA RefStep ==
    ASSUME Undisturbed, IndInv, RefInv, [Next]_vars
    PROVE  RefInv'
<1>0. Typed /\ Calm /\ \A t \in Tasks : EntryMeans(t) /\ DepsDone(t) /\ StepIsVerdict(t)
  BY InvParts DEF RefInv
<1>1. Calm'
  BY <1>0, CalmStep
<1>2. \A e \in Groups : RunLife(e)'
  BY RunLifeStep
<1>3. \A t \in Tasks : EntryMeans(t)' /\ DepsDone(t)' /\ StepIsVerdict(t)'
  BY <1>0, EntryMeansStep, DepsDoneStep, StepIsVerdictStep
<1>4. \A t \in Tasks : RanWell(t)' /\ SkipJustified(t)' /\ OverWhenReleased(t)'
  BY RanWellStep, SkipJustifiedStep, OverWhenReleasedStep
<1> QED BY <1>1, <1>2, <1>3, <1>4 DEF RefInv

\* Before its boot is through, a run has no outcomes.
LEMMA NoOutcomeBeforeBoot ==
    ASSUME IndInv, NEW e \in Groups, pc[e] # "done", NEW t \in Steps(e)
    PROVE  verdict[t] = "none"
<1>1. t \in Tasks /\ Group[t] = e
  BY DEF Steps
<1>2. pc[t] = "none"
  BY <1>1, EnteredIsBooted, InvParts
<1> QED BY <1>1, <1>2, InvParts DEF Recorded, Marked, Releasing

\* A step that a backend was given stays one, and only runNode's check makes one.
LEMMA BegunForGood ==
    ASSUME IndInv, [Next]_vars, NEW t \in Tasks
    PROVE  Ran(t)' <=> Ran(t) \/ (Check(t) /\ pc'[t] = "start")
<1>0. /\ ServiceTypeOK /\ Typed /\ CallbacksRun /\ PlanLife(t) /\ t \in Finishers
      /\ plan[t] \in {"none", "healthy", "skip", "fail", "cancel", "continue", "drop"}
  BY InvParts DEF Finishers, ServiceTypeOK
<1>1. CASE plan[t] # "none"
  <2>1. plan'[t] = plan[t] /\ pc[t] \notin {"none", "start", "exec"}
    BY <1>0, <1>1, PlanForGood DEF PlanLife
  <2>2. ~Check(t) /\ pc'[t] \notin {"start", "exec"}
    BY <1>0, <2>1, OnlyCheckStarts DEF Check
  <2> QED BY <2>1, <2>2 DEF Ran
<1>2. ASSUME plan[t] = "none", NEW r, BackendReturns(t, r)
      PROVE  Ran(t) /\ Ran(t)'
  BY <1>0, <1>2 DEF BackendReturns, Ran, ServiceTypeOK
<1>3. ASSUME plan[t] = "none", pc[t] \in {"start", "exec"}, \A r : ~BackendReturns(t, r)
      PROVE  pc'[t] \in {"start", "exec"}
  <2> USE RunsAreGroups DEF Typed, ServiceTypeOK, Goto
  <2>1. ASSUME NEW e \in Groups, CreateExecution(e) \/ BootStep(e) PROVE pc'[t] = pc[t]
    BY <1>0, <2>1
    DEF CreateExecution, BootStep, BootResolve, BootSetup, BootEnqueue, BootFails, Finishers
  <2>2. ASSUME NEW x \in Finishers, FinishStep(x) PROVE pc'[t] = pc[t]
    BY <1>0, <1>3, <2>2 DEF FinishStep, Destroy, Teardown, Prune, Finishers
  <2>3. ASSUME NEW u \in Tasks, NodeStep(u) PROVE pc'[t] \in {"start", "exec"}
    BY <1>0, <1>3, <2>3
    DEF NodeStep, Check, Start, Mark, Return, BeginCallback, EndCallback, Finishers
  <2>4. ASSUME NEW u \in Tasks, NEW r, BackendReturns(u, r) PROVE pc'[t] = pc[t]
    <3>1. u # t
      BY <1>3, <2>4
    <3> QED BY <1>0, <2>4, <3>1 DEF BackendReturns, Finishers
  <2>5. CASE UNCHANGED pc
    BY <1>3, <2>5
  <2> QED
    BY <1>3, <2>1, <2>2, <2>3, <2>4, <2>5
    DEF Next, vars, serviceVars, Dispatch, Expiry, CloseQueue, CloseStep, BootsWaited, Drained,
        CloseReturns, CloseDestroys, TaskRoutine, Leases, SendReport, LandReport
<1>4. CASE plan[t] = "none" /\ pc[t] \in {"start", "exec"}
  BY <1>2, <1>3, <1>4 DEF Ran
<1>5. CASE plan[t] = "none" /\ pc[t] \notin {"start", "exec"}
  <2>1. pc'[t] \in {"start", "exec"} => Check(t) /\ pc'[t] = "start"
    BY <1>0, <1>5, OnlyCheckStarts
  <2>2. \A r : ~BackendReturns(t, r)
    BY <1>5 DEF BackendReturns
  <2>3. plan'[t] \in {"none", "skip"}
    <3>1. ASSUME NEW u \in Tasks, Check(u) \/ BeginCallback(u) PROVE plan'[t] \in {plan[t], "skip"}
      BY <1>0, <3>1 DEF Check, BeginCallback, ServiceTypeOK
    <3>2. ASSUME NEW u \in Tasks, NEW r, BackendReturns(u, r) PROVE plan'[t] = plan[t]
      <4>1. u # t
        BY <2>2, <3>2
      <4> QED BY <1>0, <3>2, <4>1 DEF BackendReturns, ServiceTypeOK
    <3>3. CASE UNCHANGED plan
      BY <1>5, <3>3
    <3> QED
      BY <1>5, <3>1, <3>2, <3>3
      DEF Next, vars, serviceVars, Dispatch, Expiry, CloseQueue, CloseStep, BootsWaited, Drained,
          CloseReturns, CloseDestroys, CreateExecution, BootStep, BootResolve, BootSetup, BootEnqueue,
          BootFails, FinishStep, Destroy, Teardown, Prune, NodeStep, Start, Mark, Return, EndCallback,
          TaskRoutine, Leases, SendReport, LandReport
  <2> QED BY <1>5, <2>1, <2>3 DEF Ran
<1> QED BY <1>1, <1>4, <1>5

\* The set of begun steps grows by the step whose check passes, and else stays.
LEMMA BegunMoves ==
    ASSUME IndInv, [Next]_vars
    PROVE  /\ \A t \in Tasks : Check(t) /\ pc'[t] = "start" => t \notin Begun /\ Begun' = Begun \cup {t}
           /\ (\A t \in Tasks : ~(Check(t) /\ pc'[t] = "start")) => Begun' = Begun
<1>1. /\ Begun = {t \in Tasks : Ran(t)} /\ Begun' = {t \in Tasks : Ran(t)'}
      /\ \A t \in Tasks : Ran(t)' <=> Ran(t) \/ (Check(t) /\ pc'[t] = "start")
  BY BegunForGood DEF Begun, Ran
<1>2. ASSUME NEW t \in Tasks, Check(t), pc'[t] = "start"
      PROVE  t \notin Begun /\ Begun' = Begun \cup {t}
  <2>1. pc[t] = "none" /\ plan[t] = "none"
    BY <1>2, InvParts DEF Check, PlanLife
  <2>2. ASSUME NEW u \in Tasks, u # t, Check(u) /\ pc'[u] = "start" PROVE Ran(u)
    BY <1>2, <2>2, InvParts DEF Check, Goto, ServiceTypeOK, Finishers, Ran
  <2> QED BY <1>1, <1>2, <2>1, <2>2 DEF Ran
<1>3. (\A t \in Tasks : ~(Check(t) /\ pc'[t] = "start")) => Begun' = Begun
  BY <1>1
<1> QED BY <1>2, <1>3

\* What AbstractRun sees of a step's end changes only when the step is marked.
LEMMA EventMoves ==
    ASSUME IndInv, [Next]_vars, NEW t \in Tasks, verdict'[t] = verdict[t]
    PROVE  Event(t)' = Event(t)
<1>1. CASE verdict[t] = "none"
  BY <1>1 DEF Event
<1>2. CASE verdict[t] # "none"
  <2>1. Marked(t)
    BY <1>2, InvParts DEF Recorded
  <2>2. plan'[t] = plan[t]
    BY <2>1, InvParts, MarkedForGood
  <2> QED BY <2>2 DEF Event
<1> QED BY <1>1, <1>2

MarkEvent(t) == IF plan[t] = "cancel" THEN "canceled" ELSE MarkStatus(t)

\* What AbstractRun calls well ended and what activates a handler.
LEMMA AbstractOutcomes ==
    ASSUME ServiceTypeOK
    PROVE  /\ \A d \in Tasks : Abstract!Good(d) <=>
                 \/ verdict[d] = "healthy"
                 \/ verdict[d] = "failed" /\ d \in ContinueOnFailure /\ plan[d] # "cancel"
           /\ \A t \in Tasks : Abstract!Activated(t) <=> \E d \in OnFailure[t] : verdict[d] = "failed"
           /\ \A t \in Tasks : Abstract!OnFailureBranch(t) <=>
                 \E u \in Upstream[t] : \E d \in OnFailure[u] : verdict[d] = "failed"
<1>1. ASSUME NEW d \in Tasks
      PROVE  /\ [u \in Tasks |-> Event(u)][d] \in {"failed", "canceled"} <=> verdict[d] = "failed"
             /\ [u \in Tasks |-> Event(u)][d] = "healthy" <=> verdict[d] = "healthy"
             /\ [u \in Tasks |-> Event(u)][d] = "failed" <=> verdict[d] = "failed" /\ plan[d] # "cancel"
  <2>1. verdict[d] # "canceled"
    BY DEF ServiceTypeOK, TerminalStep
  <2> QED BY <2>1 DEF Event
<1>2. \A t \in Tasks : OnFailure[t] \subseteq Tasks /\ Upstream[t] \subseteq Tasks
  BY ExecutionAssumption, UpstreamFacts DEF ExecutionAssumption
<1>3. \A d \in Tasks : Abstract!Good(d) <=>
          \/ verdict[d] = "healthy"
          \/ verdict[d] = "failed" /\ d \in ContinueOnFailure /\ plan[d] # "cancel"
  BY <1>1, Zenon DEF Abstract!Good
<1>4. \A t \in Tasks : Abstract!Activated(t) <=> \E d \in OnFailure[t] : verdict[d] = "failed"
  BY <1>1, <1>2, Zenon DEF Abstract!Activated
<1>5. \A t \in Tasks : Abstract!OnFailureBranch(t) <=>
          \E u \in Upstream[t] : \E d \in OnFailure[u] : verdict[d] = "failed"
  BY <1>2, <1>4, Zenon DEF Abstract!OnFailureBranch
<1> QED BY <1>3, <1>4, <1>5

\* A step of a run on record that passes runNode's check is due.
LEMMA CheckIsDue ==
    ASSUME IndInv, RefInv, NEW t \in Tasks, Check(t), pc'[t] = "start", Known(Group[t])
    PROVE  Abstract!Due(t)
<1>0. ServiceTypeOK /\ routine[t] # "none"
  BY InvParts DEF Check
<1>1. ~ShouldSkip(t)
  BY <1>0 DEF Check, Goto, ServiceTypeOK, Finishers
<1>2. /\ Edges(t) = HardDependencies(t) \cup OnFailure[t]
      /\ \A d \in Edges(t) : d \in Tasks /\ Group[d] = Group[t]
  BY EdgeFacts
<1>3. \A d \in Edges(t) : step[d] # "skipped"
  BY <1>1 DEF ShouldSkip, Edges
<1>4. ASSUME NEW d \in Tasks, Group[d] = Group[t], pc[d] = "done"
      PROVE  step[d] = verdict[d] /\ verdict[d] = MarkStatus(d)
  BY <1>4, InvParts DEF RefInv, StepIsVerdict, Recorded, Marked
<1>5. ASSUME NEW d \in HardDependencies(t) PROVE Abstract!Good(d)
  <2>1. d \in Tasks /\ d \in Edges(t) /\ Returned(d)
    BY <1>0, <1>2, HardEdges DEF IndInv, DependenciesReturned
  <2>2. RunResult(d) = "ok" /\ pc[d] = "done"
    BY <2>1, InvParts DEF Returned, NodeLife
  <2>3. verdict[d] = MarkStatus(d) /\ MarkStatus(d) # "skipped"
    BY <1>2, <1>3, <1>4, <2>1, <2>2
  <2>4. plan[d] \in {"none", "healthy", "skip", "fail", "cancel", "continue", "drop"} /\ plan[d] # "none"
    BY <1>0, <2>1, <2>2, InvParts DEF ServiceTypeOK, PlanLife
  <2>5. plan[d] \in {"healthy", "continue"}
    <3>1. plan[d] # "fail" /\ plan[d] # "cancel"
      BY <2>2 DEF RunResult
    <3>2. plan[d] # "skip" /\ plan[d] # "drop"
      BY <2>3 DEF MarkStatus
    <3> QED BY <2>4, <3>1, <3>2
  <2>6. plan[d] = "continue" => d \in ContinueOnFailure
    BY <2>1, InvParts DEF PlanLife
  <2>7. \/ verdict[d] = "healthy"
        \/ verdict[d] = "failed" /\ d \in ContinueOnFailure /\ plan[d] # "cancel"
    BY <2>3, <2>5, <2>6 DEF MarkStatus
  <2> QED BY <1>0, <2>1, <2>7, AbstractOutcomes
<1>6. OnFailure[t] # {} => Abstract!Activated(t)
  <2> SUFFICES ASSUME OnFailure[t] # {} PROVE \E d \in OnFailure[t] : verdict[d] = "failed"
    BY <1>0, AbstractOutcomes
  <2>1. PICK d \in OnFailure[t] : step[d] = "failed"
    BY <1>1 DEF ShouldSkip, Triggered
  <2>2. d \in Tasks /\ Group[d] = Group[t] /\ pc[d] = "done"
    BY <1>0, <1>2 DEF RefInv, DepsDone
  <2> QED BY <1>4, <2>1, <2>2
<1>7. status[Group[t]] = "Failed" => Abstract!OnFailureBranch(t)
  <2> SUFFICES ASSUME status[Group[t]] = "Failed"
               PROVE  \E u \in Upstream[t] : \E d \in OnFailure[u] : verdict[d] = "failed"
    BY <1>0, AbstractOutcomes
  <2>1. PICK u \in Upstream[t] : \E d \in OnFailure[u] : step[d] = "failed"
    BY <1>1 DEF ShouldSkip, FailurePath, Triggered
  <2>2. PICK d \in OnFailure[u] : step[d] = "failed"
    BY <2>1
  <2>3. u \in Tasks /\ Group[u] = Group[t]
    BY UpstreamFacts
  <2>4. d \in Tasks /\ Group[d] = Group[t]
    BY <2>3, EdgeFacts
  <2>5. Marked(d)
    BY <2>2, <2>4, InvParts DEF Recorded, TerminalStep
  <2>6. verdict[d] = "failed"
    BY <2>2, <2>4, <2>5 DEF RefInv, StepIsVerdict
  <2> QED BY <2>6
<1> QED BY <1>5, <1>6, <1>7, Zenon DEF Abstract!Due, HardDependencies

\* A check that passes begins the step in AbstractRun.
LEMMA CheckBegins ==
    ASSUME Undisturbed, IndInv, RefInv, [Next]_vars, NEW t \in Tasks, Check(t), pc'[t] = "start"
    PROVE  Abstract!Begin(t)
<1> DEFINE e == Group[t]
<1>0. /\ e \in Groups /\ ServiceTypeOK /\ Typed /\ BackendUp(e) /\ NodeLife(t) /\ BootLife(e)
      /\ Recorded(t) /\ closing = "open" /\ TaskLife(t)
  BY InvParts, RunsAreGroups DEF RefInv, Calm
<1>1. pc[t] = "none" /\ routine[t] # "none" /\ ~Marked(t) /\ t \in Steps(e)
  BY DEF Check, Marked, Releasing, Steps
<1>2. resources[e] = "up"
  BY <1>0, <1>1 DEF BackendUp, TaskLife
<1>3. verdict[t] = "none" /\ [u \in Tasks |-> Event(u)][t] = "none"
  BY <1>0, <1>1 DEF Recorded, Event
<1>4. t \notin Begun /\ Begun' = Begun \cup {t}
  BY BegunMoves
<1>5. UNCHANGED <<status, runOrder, verdict, resources, closing>>
  BY DEF Check
<1>6. [u \in Tasks |-> Event(u)]' = [u \in Tasks |-> Event(u)]
  BY <1>5, EventMoves
<1>7. e \in {runOrder[i] : i \in 1..Len(runOrder)} => Abstract!Due(t)
  BY CheckIsDue DEF Known
<1> QED BY <1>2, <1>3, <1>4, <1>5, <1>6, <1>7 DEF Abstract!Begin

\* Marking a step of a run on record settles it in AbstractRun.
LEMMA MarkSettles ==
    ASSUME IndInv, RefInv, [Next]_vars, NEW t \in Tasks, Mark(t), Known(Group[t])
    PROVE  Abstract!Settle(t, MarkEvent(t))
<1> DEFINE e == Group[t]
           events == [u \in Tasks |-> Event(u)]
<1>0. /\ e \in Groups /\ ServiceTypeOK /\ Typed /\ RunLife(e) /\ BackendUp(e) /\ PlanLife(t)
      /\ RanWell(t) /\ SkipJustified(t) /\ NodeLife(t) /\ BootLife(e) /\ closing = "open"
  BY InvParts, RunsAreGroups DEF RefInv, Calm
<1>1. ~Marked(t) /\ pc[t] = "mark" /\ t \in Steps(e) /\ arrival[e] # 0 /\ pc[e] = "done"
  BY <1>0, EnteredIsBooted DEF Mark, Marked, Releasing, Steps
<1>2. status[e] \in {"Booting", "Failed"}
  BY <1>0, <1>1 DEF RunLife, ServiceTypeOK, Ended
<1>3. plan[t] \in {"healthy", "skip", "fail", "cancel", "continue", "drop"}
  BY <1>0, <1>1 DEF PlanLife, ServiceTypeOK
<1>4. /\ verdict[t] = "none" /\ verdict' = [verdict EXCEPT ![t] = MarkStatus(t)]
      /\ pc'[t] = "destroy" <=> \A u \in Steps(e) : verdict'[u] # "none"
      /\ status' = [status EXCEPT ![e] =
                            CASE HardFailure(t)                         -> "Failed"
                              [] ~HardFailure(t) /\ pc'[t] = "destroy" /\ @ # "Failed" -> "Healthy"
                              [] OTHER                                  -> @]
      /\ UNCHANGED <<resources, closing, runOrder, plan>>
  BY KnownMark, Zenon DEF Mark
<1>5. events[t] = "none" /\ events' = [events EXCEPT ![t] = MarkEvent(t)]
  <2>1. Event(t) = "none"
    BY <1>4 DEF Event
  <2>2. verdict'[t] = MarkStatus(t)
    BY <1>0, <1>4 DEF ServiceTypeOK
  <2>3. Event(t)' = MarkEvent(t)
    BY <1>3, <1>4, <2>2 DEF Event, MarkEvent, MarkStatus
  <2>4. ASSUME NEW u \in Tasks, u # t PROVE Event(u)' = Event(u)
    <3>1. verdict'[u] = verdict[u]
      BY <1>0, <1>4, <2>4 DEF ServiceTypeOK
    <3> QED BY <3>1, EventMoves
  <2> QED BY <2>1, <2>3, <2>4
<1>6. \A u \in Steps(e) : verdict'[u] # "none" <=> events'[u] # "none"
  BY DEF Event, Steps
<1>7. Begun' = Begun
  <2>1. \A u \in Tasks : ~(Check(u) /\ pc'[u] = "start")
    BY <1>0, <1>1 DEF Check, Mark, Goto, ServiceTypeOK, Finishers
  <2> QED BY <2>1, BegunMoves
<1>8. ASSUME plan[t] \in {"skip", "drop"} PROVE MarkEvent(t) = "skipped" /\ Abstract!Excused(t)
  <2>0. MarkEvent(t) = "skipped"
    BY <1>8 DEF MarkStatus, MarkEvent
  <2>1. Justified(t) /\ HardDependencies(t) \subseteq Tasks /\ OnFailure[t] \subseteq Tasks
    BY <1>0, <1>1, <1>8, EdgeFacts DEF SkipJustified
  <2>2. \A d \in Tasks : /\ (verdict[d] = "skipped" => events[d] = "skipped")
                        /\ (verdict[d] = "healthy" => events[d] = "healthy")
                        /\ (verdict[d] # "none" => events[d] # "none")
    BY DEF Event
  <2>3. CASE \E d \in HardDependencies(t) :
          \/ verdict[d] = "skipped"
          \/ verdict[d] = "failed" /\ (d \notin ContinueOnFailure \/ plan[d] = "cancel")
    <3>1. PICK d \in HardDependencies(t) :
          \/ verdict[d] = "skipped"
          \/ verdict[d] = "failed" /\ (d \notin ContinueOnFailure \/ plan[d] = "cancel")
      BY <2>3
    <3>2. d \in Tasks /\ events[d] # "none" /\ ~Abstract!Good(d)
      BY <1>0, <2>1, <2>2, <3>1, AbstractOutcomes
    <3> QED BY <2>0, <3>2, Zenon DEF Abstract!Excused, HardDependencies
  <2>4. CASE OnFailure[t] # {} /\ \A d \in OnFailure[t] : verdict[d] = "healthy"
    BY <2>0, <2>1, <2>2, <2>4 DEF Abstract!Excused
  <2>5. CASE \E d \in OnFailure[t] : verdict[d] = "skipped"
    BY <2>0, <2>1, <2>2, <2>5 DEF Abstract!Excused
  <2>6. CASE status[e] = "Failed" /\ \A u \in Upstream[t] : \A d \in OnFailure[u] : verdict[d] = "healthy"
    <3>1. ~Abstract!OnFailureBranch(t)
      BY <1>0, <2>6, AbstractOutcomes
    <3> QED BY <2>0, <2>6, <3>1 DEF Abstract!Excused
  <2> QED BY <2>1, <2>3, <2>4, <2>5, <2>6 DEF Justified
<1>9. ASSUME plan[t] \notin {"skip", "drop"}
      PROVE  MarkEvent(t) # "skipped" /\ t \in Begun /\ resources[e] = "up"
  <2>1. MarkEvent(t) # "skipped" /\ t \in Begun
    BY <1>3, <1>9 DEF MarkStatus, MarkEvent, Begun
  <2>2. resources[e] = "up"
    BY <1>0, <1>1 DEF BackendUp
  <2> QED BY <2>1, <2>2
<1>10. HardFailure(t) <=> MarkEvent(t) = "canceled" \/ (MarkEvent(t) = "failed" /\ t \notin ContinueOnFailure)
  BY <1>0, <1>3 DEF HardFailure, MarkStatus, MarkEvent, PlanLife
<1> HIDE DEF events
<1>11. status' = [status EXCEPT ![e] =
          CASE MarkEvent(t) = "canceled" \/ (MarkEvent(t) = "failed" /\ t \notin ContinueOnFailure) -> "Failed"
            [] ~(MarkEvent(t) = "canceled" \/ (MarkEvent(t) = "failed" /\ t \notin ContinueOnFailure))
               /\ @ # "Failed" /\ \A u \in Steps(e) : events'[u] # "none" -> "Healthy"
            [] OTHER -> @]
  BY <1>4, <1>6, <1>10
<1>12. e \in {runOrder[i] : i \in 1..Len(runOrder)} /\ UNCHANGED {runOrder[i] : i \in 1..Len(runOrder)}
  BY <1>4 DEF Known
<1>13. \/ MarkEvent(t) = "skipped" /\ Abstract!Excused(t)
       \/ MarkEvent(t) # "skipped" /\ t \in Begun /\ resources[e] = "up"
  BY <1>3, <1>8, <1>9
<1> QED BY <1>2, <1>4, <1>5, <1>7, <1>11, <1>12, <1>13, Zenon DEF Abstract!Settle, Abstract!Members, Steps, events

\* A launch puts its run on record, where others that have ended may fall off.
LEMMA CreateLaunches ==
    ASSUME Undisturbed, IndInv, RefInv, [Next]_vars, NEW e \in Groups, CreateExecution(e)
    PROVE  Abstract!Launch(e)
<1> DEFINE old == {runOrder[i] : i \in 1..Len(runOrder)}
           new == {runOrder'[i] : i \in 1..Len(runOrder')}
<1>0. ServiceTypeOK /\ ServiceTypeOK' /\ Typed
  BY InvParts, ServiceTypeStep
<1>1. status[e] = "none" /\ status' = [status EXCEPT ![e] = "Booting"]
      /\ UNCHANGED <<verdict, resources, closing, plan>>
  BY DEF CreateExecution, RefInv, RunLife
<1>2. old \subseteq Groups /\ new \subseteq Groups
  BY <1>0 DEF ServiceTypeOK
<1>3. \A f \in Groups : (f \in old <=> Known(f)) /\ (f \in new <=> Known(f)')
  BY DEF Known
<1> HIDE DEF old, new
<1>4. \A f \in new : f = e \/ f \in old
  <2> SUFFICES ASSUME NEW f \in new, f \notin old PROVE f = e
    OBVIOUS
  <2>1. CreateExecution(f)
    BY <1>0, <1>2, <1>3, KnownOnlyByLaunch DEF Typed
  <2> QED BY <1>0, <1>1, <2>1 DEF CreateExecution, ServiceTypeOK
<1>5. e \in new /\ \A f \in old \ new : status[f] \in {"Healthy", "Failed"}
  BY <1>2, <1>3, LaunchKeeps DEF Ended
<1>6. Begun' = Begun
  <2>1. \A u \in Tasks : ~(Check(u) /\ pc'[u] = "start")
    BY <1>0, RunsAreGroups DEF Check, CreateExecution, Goto, ServiceTypeOK, Finishers
  <2> QED BY <2>1, BegunMoves
<1>7. [u \in Tasks |-> Event(u)]' = [u \in Tasks |-> Event(u)]
  BY <1>1, EventMoves
<1> QED BY <1>1, <1>4, <1>5, <1>6, <1>7 DEF Abstract!Launch, old, new

\* Every step of the service is a step of AbstractRun, or leaves what it is
\* about alone.
LEMMA StepRefines ==
    ASSUME Undisturbed, IndInv, RefInv, [Next]_vars
    PROVE  [Abstract!RunNext]_(Abstract!runVars)
<1>0. ServiceTypeOK /\ Calm /\ closing = "open" /\ Calm' /\ closing' = "open"
  BY InvParts, CalmStep DEF RefInv, Calm
<1>1. CASE \E t \in Tasks : Check(t) /\ pc'[t] = "start"
  BY <1>1, CheckBegins DEF Abstract!RunNext
<1>2. CASE \E t \in Tasks : Mark(t) /\ Known(Group[t])
  <2>1. PICK t \in Tasks : Mark(t) /\ Known(Group[t])
    BY <1>2
  <2>2. Abstract!Settle(t, MarkEvent(t)) /\ MarkEvent(t) \in {"healthy", "failed", "canceled", "skipped"}
    BY <2>1, MarkSettles DEF MarkStatus, MarkEvent
  <2> QED BY <2>2 DEF Abstract!RunNext
<1>3. CASE \E e \in Groups : CreateExecution(e)
  BY <1>3, CreateLaunches DEF Abstract!RunNext
<1>4. CASE /\ ~\E t \in Tasks : Check(t) /\ pc'[t] = "start"
           /\ ~\E t \in Tasks : Mark(t) /\ Known(Group[t])
           /\ ~\E e \in Groups : CreateExecution(e)
  <2>1. Begun' = Begun
    BY <1>4, BegunMoves
  <2>2. UNCHANGED <<verdict, runOrder>>
    <3>1. ASSUME NEW t \in Tasks, Mark(t) PROVE UNCHANGED <<verdict, runOrder>>
      BY <1>4, <3>1, UnknownMark DEF Mark
    <3> QED
      BY <1>4, <3>1
      DEF Next, vars, serviceVars, Dispatch, Expiry, TaskRoutine, Leases, BootStep, BootResolve,
          BootSetup, BootEnqueue, BootFails, FinishStep, Destroy, Teardown, Prune, NodeStep, Check,
          Start, Return, BeginCallback, EndCallback, BackendReturns, SendReport, LandReport,
          CloseQueue, CloseStep, BootsWaited, Drained, CloseReturns, CloseDestroys
  <2>3. [u \in Tasks |-> Event(u)]' = [u \in Tasks |-> Event(u)]
    BY <2>2, EventMoves
  <2>4. ASSUME NEW e \in Groups, BootSetup(e) PROVE Abstract!Acquire(e)
    <3>1. status[e] = "Booting" /\ resources[e] = "none"
      BY <2>4 DEF BootSetup, RefInv, RunLife
    <3> QED BY <2>1, <2>2, <2>3, <2>4, <3>1 DEF BootSetup, Abstract!Acquire
  <2>5. ASSUME NEW e \in Groups, BootFails(e) PROVE Abstract!Abort(e)
    <3>1. status[e] = "Booting" /\ Known(e) /\ pc[e] # "done"
      BY <2>5 DEF BootFails, RefInv, RunLife
    <3>2. \A t \in Abstract!Members(e) : t \in Tasks /\ [u \in Tasks |-> Event(u)][t] = "none"
      BY <3>1, NoOutcomeBeforeBoot DEF Abstract!Members, Steps, Event
    <3>3. /\ status' = [status EXCEPT ![e] = "Failed"]
          /\ resources' \in {resources, [resources EXCEPT ![e] = "up"]}
      BY <2>5, <3>1 DEF BootFails
    <3> QED BY <1>0, <2>1, <2>2, <2>3, <3>1, <3>2, <3>3 DEF Abstract!Abort
  <2>6. ASSUME NEW x \in Finishers, Teardown(x) PROVE Abstract!Release(RunOf(x)) /\ RunOf(x) \in Groups
    <3> DEFINE e == RunOf(x)
    <3>1. /\ e \in Groups /\ resources[e] # "down" /\ pc[x] = "teardown"
          /\ resources' = [resources EXCEPT ![e] = "down"] /\ status' = status
      BY <2>6, RunsAreGroups, InvParts DEF Teardown, OneTeardown
    <3>2. \A t \in Tasks : [u \in Tasks |-> Event(u)][t] = "none" <=> verdict[t] = "none"
      BY DEF Event
    <3>3. CASE x \in Tasks
      <4>1. status[e] \in Ended /\ \A u \in Steps(e) : verdict[u] # "none"
        BY <3>1, <3>3, RunsAreGroups DEF RefInv, OverWhenReleased
      <4>2. \A t \in Abstract!Members(e) : [u \in Tasks |-> Event(u)][t] # "none"
        BY <3>2, <4>1 DEF Abstract!Members, Steps
      <4> QED BY <1>0, <2>1, <2>2, <2>3, <3>1, <4>1, <4>2 DEF Abstract!Release, Ended
    <3>4. CASE x \in Groups
      <4>1. status[e] = "Failed" /\ \A u \in Steps(e) : verdict[u] = "none"
        BY <3>1, <3>4, RunsAreGroups, NoOutcomeBeforeBoot DEF RefInv, RunLife, Releasing
      <4>2. \A t \in Abstract!Members(e) : [u \in Tasks |-> Event(u)][t] = "none"
        BY <3>2, <4>1 DEF Abstract!Members, Steps
      <4> QED BY <1>0, <2>1, <2>2, <2>3, <3>1, <4>1, <4>2 DEF Abstract!Release
    <3> QED BY <3>1, <3>3, <3>4 DEF Finishers
  <2>7. CASE UNCHANGED <<status, resources>>
    BY <1>0, <2>1, <2>2, <2>3, <2>7 DEF Abstract!runVars
  <2>8. ASSUME NEW t \in Tasks, Mark(t) PROVE UNCHANGED <<status, resources>>
    BY <1>4, <2>8, UnknownMark DEF Mark
  <2>9. ~CloseQueue /\ ~CloseStep
    BY <1>0 DEF Undisturbed, CloseQueue, CloseStep, BootsWaited, Drained, CloseReturns, CloseDestroys
  <2>10. CASE \/ \E e \in Groups : BootSetup(e) \/ BootFails(e)
              \/ \E x \in Finishers : Teardown(x)
    BY <2>4, <2>5, <2>6, <2>10 DEF Abstract!RunNext
  <2> QED
    BY <1>4, <2>7, <2>8, <2>9, <2>10
    DEF Next, vars, serviceVars, Dispatch, Expiry, TaskRoutine, Leases, BootStep, BootResolve,
        BootEnqueue, FinishStep, Destroy, Prune, NodeStep, Check, Start, Return, BeginCallback,
        EndCallback, BackendReturns, SendReport, LandReport
<1> QED BY <1>1, <1>2, <1>3, <1>4

\* Without a lapsed lease, a report under way or a shutdown, the invariant of
\* the refinement holds in every state of the service.
THEOREM UndisturbedInvariant == ASSUME Undisturbed PROVE Spec => []RefInv
<1>1. Init => RefInv
  BY RefInit
<1>2. IndInv /\ RefInv /\ [Next]_vars => RefInv'
  BY RefStep
<1>3. Spec => []IndInv
  BY ServiceInvariant
<1> QED BY <1>1, <1>2, <1>3, PTL DEF Spec

\* The service implements AbstractRun (runtime.go, flow.go and the queue they
\* run on): each step settles once and only as the suite allows, the status
\* follows from the outcomes, and the backend lives from the boot to the last
\* outcome, for every suite, any number of runs and any capacity.
THEOREM ServiceRefinesRun == ASSUME Undisturbed PROVE Spec => RefinesAbstractRun
<1>1. Init => Abstract!RunInit
  <2> SUFFICES ASSUME Init PROVE Abstract!RunInit
    OBVIOUS
  <2>1. {runOrder[i] : i \in 1..Len(runOrder)} = {}
    BY DEF Init, ServiceInit
  <2>2. Begun = {}
    BY DEF Init, ServiceInit, Begun, Finishers
  <2>3. [t \in Tasks |-> Event(t)] = [t \in Tasks |-> "none"]
    BY DEF Init, ServiceInit, Event
  <2> QED BY <2>1, <2>2, <2>3 DEF Init, ServiceInit, Abstract!RunInit
<1>2. IndInv /\ RefInv /\ [Next]_vars => [Abstract!RunNext]_(Abstract!runVars)
  BY StepRefines
<1>3. Spec => []IndInv
  BY ServiceInvariant
<1>4. Spec => []RefInv
  BY UndisturbedInvariant
<1> QED BY <1>1, <1>2, <1>3, <1>4, PTL DEF Spec, RefinesAbstractRun, Abstract!RunSpec
=============================================================================

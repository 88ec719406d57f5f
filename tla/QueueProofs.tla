----------------------------- MODULE QueueProofs -----------------------------
(***************************************************************************)
(* Machine-checked proofs about Queue.tla, for every set of tasks, groups, *)
(* pools and capacities that satisfies the module's assumptions.           *)
(***************************************************************************)
EXTENDS Queue, FiniteSetTheorems, TLAPS

-----------------------------------------------------------------------------
(* Type correctness *)

\* The number of groups enqueued so far is a number, so arrival stamps are.
LEMMA ArrivalStamp ==
    /\ Cardinality({h \in Groups : arrival[h] # 0}) \in Nat
    /\ 1 + Cardinality({h \in Groups : arrival[h] # 0}) \in Nat \ {0}
<1>1. IsFiniteSet({h \in Groups : arrival[h] # 0})
  BY FS_Subset, QueueAssumption DEF QueueAssumption
<1>2. Cardinality({h \in Groups : arrival[h] # 0}) \in Nat
  BY <1>1, FS_CardinalityType
<1> QED BY <1>2

\* finish keeps every variable it assigns within its type.
LEMMA FinishType ==
    ASSUME QueueTypeOK, NEW t \in Tasks, NEW result, Finish(t, result)
    PROVE  /\ state' \in [Tasks -> States]
           /\ counted' \in [Tasks -> BOOLEAN]
           /\ lease' \in [Tasks -> {"none", "live", "lapsed"}]
           /\ attached' \in [Tasks -> BOOLEAN]
           /\ running' \in [Pools -> Int]
           /\ wake' \in BOOLEAN
<1>1. CASE Settled(t)
  BY <1>1 DEF Finish, QueueTypeOK
<1>2. CASE ~Settled(t)
  <2>1. StateOf(result) \in States
    BY DEF StateOf, States, Terminal
  <2>2. Pool[t] \in Pools
    BY QueueAssumption DEF QueueAssumption
  <2>3. running' \in [Pools -> Int]
    <3>1. running' = [running EXCEPT ![Pool[t]] = IF counted[t] THEN @ - 1 ELSE @]
      BY <1>2 DEF Finish
    <3> QED BY <2>2, <3>1 DEF QueueTypeOK
  <2>4. /\ state' = [state EXCEPT ![t] = StateOf(result)] /\ counted' = [counted EXCEPT ![t] = FALSE]
        /\ lease' = [lease EXCEPT ![t] = "none"] /\ attached' = [attached EXCEPT ![t] = FALSE] /\ wake' = TRUE
    BY <1>2 DEF Finish, Signal
  <2> QED BY <2>1, <2>3, <2>4 DEF QueueTypeOK
<1> QED BY <1>1, <1>2

\* Claim keeps the type invariant.
LEMMA ClaimType == QueueTypeOK /\ Claim => QueueTypeOK'
<1> SUFFICES ASSUME QueueTypeOK, Claim PROVE QueueTypeOK'
  OBVIOUS
<1>1. PICK limit \in Capacities, first \in Pending \cup {NoTask}, C \in SUBSET Pending :
        /\ state' = [t \in Tasks |-> CASE t = first -> "running"
                                       [] t \in C   -> "canceled"
                                       [] OTHER     -> state[t]]
        /\ counted' = [t \in Tasks |-> t = first \/ counted[t]]
        /\ lease' = [t \in Tasks |-> IF t = first THEN "live" ELSE lease[t]]
        /\ running' = [p \in Pools |->
              IF first # NoTask /\ p = Pool[first] THEN running[p] + 1 ELSE running[p]]
        /\ claimed' = first
        /\ callbacks' = C
  BY DEF Claim
<1>2. state' \in [Tasks -> States]
  BY <1>1 DEF QueueTypeOK, States, Terminal
<1>3. counted' \in [Tasks -> BOOLEAN] /\ lease' \in [Tasks -> {"none", "live", "lapsed"}]
  BY <1>1 DEF QueueTypeOK
<1>4. running' \in [Pools -> Int]
  BY <1>1 DEF QueueTypeOK
<1>5. claimed' \in Tasks \cup {NoTask} /\ callbacks' \subseteq Tasks
  BY <1>1 DEF Pending
<1> QED BY <1>2, <1>3, <1>4, <1>5 DEF Claim, QueueTypeOK

\* Every step of the queue and of its callers keeps the type invariant.
LEMMA TypeStep == QueueTypeOK /\ [QueueNext]_queueVars => QueueTypeOK'
<1> SUFFICES ASSUME QueueTypeOK, [QueueNext]_queueVars PROVE QueueTypeOK'
  OBVIOUS
<1>1. CASE Claim
  BY <1>1, ClaimType
<1>2. CASE Launch
  BY <1>2 DEF Launch, QueueTypeOK
<1>3. CASE Idle
  BY <1>3 DEF Idle, QueueTypeOK
<1>4. CASE Wake
  BY <1>4 DEF Wake, QueueTypeOK
<1>5. CASE Stop
  BY <1>5 DEF Stop, QueueTypeOK
<1>6. CASE ExpiryScan
  BY <1>6 DEF ExpiryScan, Lapsed, QueueTypeOK
<1>7. ASSUME NEW t \in Tasks, AttachCancel(t) PROVE QueueTypeOK'
  BY <1>7 DEF AttachCancel, QueueTypeOK
<1>8. ASSUME NEW t \in Tasks, FinishReturned(t) PROVE QueueTypeOK'
  BY <1>8, FinishType DEF FinishReturned, QueueTypeOK
<1>9. ASSUME NEW t \in Tasks, Lapse(t) PROVE QueueTypeOK'
  BY <1>9 DEF Lapse, QueueTypeOK
<1>10. ASSUME NEW t \in Tasks, RenewLease(t) PROVE QueueTypeOK'
  BY <1>10 DEF RenewLease, QueueTypeOK
<1>11. ASSUME NEW t \in Tasks, Expire(t) PROVE QueueTypeOK'
  BY <1>11, FinishType DEF Expire, QueueTypeOK
<1>12. CASE Close
  BY <1>12 DEF Close, QueueTypeOK
<1>13. ASSUME NEW g \in Groups, Enqueue(g) PROVE QueueTypeOK'
  BY <1>13, ArrivalStamp DEF Enqueue, Signal, QueueTypeOK, States
<1>14. ASSUME NEW g \in Groups, CancelGroup(g) PROVE QueueTypeOK'
  BY <1>14 DEF CancelGroup, Signal, QueueTypeOK, States, Terminal
<1>15. ASSUME NEW g \in Groups, CancelRunningGroup(g) PROVE QueueTypeOK'
  BY <1>15 DEF CancelRunningGroup, QueueTypeOK
<1>16. ASSUME NEW g \in Groups, PruneGroup(g) PROVE QueueTypeOK'
  BY <1>16 DEF PruneGroup, QueueTypeOK, States
<1>17. ASSUME NEW t \in Tasks, Notify(t) PROVE QueueTypeOK'
  BY <1>17 DEF Notify, QueueTypeOK
<1>18. ASSUME NEW t \in Tasks, NEW r \in Outcomes \ {"none"}, RunReturns(t, r)
       PROVE  QueueTypeOK'
  BY <1>18 DEF RunReturns, QueueTypeOK
<1>19. CASE UNCHANGED queueVars
  BY <1>19 DEF queueVars, QueueTypeOK
<1> QED
  BY <1>1, <1>2, <1>3, <1>4, <1>5, <1>6, <1>7, <1>8, <1>9, <1>10, <1>11, <1>12,
     <1>13, <1>14, <1>15, <1>16, <1>17, <1>18, <1>19 DEF QueueNext, QueueStep

\* Every variable of a new queue has its type.
LEMMA TypeInit == QueueInit => QueueTypeOK
<1> SUFFICES ASSUME QueueInit PROVE QueueTypeOK
  OBVIOUS
<1>1. arrival \in [Groups -> Nat] /\ running \in [Pools -> Int]
  BY DEF QueueInit
<1>2. state \in [Tasks -> States] /\ outcome \in [Tasks -> Outcomes]
  BY DEF QueueInit, States, Outcomes
<1>3. /\ counted \in [Tasks -> BOOLEAN]
      /\ attached \in [Tasks -> BOOLEAN]
      /\ ctxDone \in [Tasks -> BOOLEAN]
  BY DEF QueueInit
<1>4. lease \in [Tasks -> {"none", "live", "lapsed"}]
  BY DEF QueueInit
<1>5. routine \in [Tasks -> {"none", "spawned", "running", "returned", "done"}]
  BY DEF QueueInit
<1>6. wake \in BOOLEAN /\ closed \in BOOLEAN
  BY DEF QueueInit
<1>7. /\ dispatcher \in {"claim", "notify", "wait", "exited"}
      /\ claimed \in Tasks \cup {NoTask}
      /\ callbacks \subseteq Tasks /\ notified \subseteq Tasks /\ expiring \subseteq Tasks
  BY DEF QueueInit
<1> QED BY <1>1, <1>2, <1>3, <1>4, <1>5, <1>6, <1>7 DEF QueueTypeOK

\* Every variable of the queue keeps its type in every behaviour.
THEOREM TypeCorrect == QueueSpec => []QueueTypeOK
  BY TypeInit, TypeStep, PTL DEF QueueSpec

-----------------------------------------------------------------------------
(* The life of a task *)

\* What ties an entry's state to the task's goroutine, the dispatcher's local
\* variable and the callbacks: an entry that was never enqueued or is pending
\* has been neither started nor reported, a claimed task has no goroutine yet,
\* and only a goroutine that returned nil leaves a succeeded entry.
TaskLife(t) ==
    /\ arrival[Group[t]] = 0 =>
          state[t] = "absent" /\ routine[t] = "none" /\ claimed # t
          /\ t \notin callbacks \cup notified
    /\ state[t] = "pending" =>
          routine[t] = "none" /\ claimed # t /\ t \notin callbacks \cup notified
    /\ claimed = t => routine[t] = "none"
    /\ state[t] = "succeeded" => routine[t] = "done" /\ outcome[t] = "ok"
    /\ t \in callbacks \cup notified => routine[t] = "none" /\ claimed # t

Lifecycle == \A t \in Tasks : TaskLife(t)

\* The first scanned item is not itself among those scanned before it.
LEMMA ClaimFacts ==
    ASSUME QueueTypeOK, Claim
    PROVE  \E limit \in Capacities, first \in Pending \cup {NoTask}, C \in SUBSET Pending :
             /\ first \notin C
             /\ \A u \in Pending : first = NoTask /\ u \notin C => ~Doomed(u, C)
             /\ \A u \in Pending : first = NoTask => ~Startable(u, C, limit)
             /\ first # NoTask => first \in Pending /\ Startable(first, C, limit)
             /\ state' = [t \in Tasks |-> CASE t = first -> "running"
                                            [] t \in C   -> "canceled"
                                            [] OTHER     -> state[t]]
             /\ counted' = [t \in Tasks |-> t = first \/ counted[t]]
             /\ running' = [p \in Pools |->
                   IF first # NoTask /\ p = Pool[first] THEN running[p] + 1 ELSE running[p]]
             /\ claimed' = first
             /\ callbacks' = C
<1>1. PICK limit \in Capacities, first \in Pending \cup {NoTask}, C \in SUBSET Pending :
        /\ C = {u \in Pending : (first = NoTask \/ Before(u, first)) /\ Doomed(u, C)}
        /\ \A u \in Pending : (first = NoTask \/ Before(u, first)) => ~Startable(u, C, limit)
        /\ first # NoTask => Startable(first, C, limit)
        /\ state' = [t \in Tasks |-> CASE t = first -> "running"
                                       [] t \in C   -> "canceled"
                                       [] OTHER     -> state[t]]
        /\ counted' = [t \in Tasks |-> t = first \/ counted[t]]
        /\ running' = [p \in Pools |->
              IF first # NoTask /\ p = Pool[first] THEN running[p] + 1 ELSE running[p]]
        /\ claimed' = first
        /\ callbacks' = C
  BY DEF Claim
<1>2. first \notin C
  <2> SUFFICES ASSUME first \in C PROVE FALSE
    OBVIOUS
  <2>1. first \in Tasks /\ first # NoTask
    BY QueueAssumption DEF Pending, QueueAssumption
  <2>2. Before(first, first)
    BY <1>1, <2>1
  <2>3. arrival[Group[first]] \in Nat /\ Place[first] \in Nat
    BY <2>1, QueueAssumption DEF QueueAssumption, QueueTypeOK
  <2> QED BY <2>2, <2>3 DEF Before
<1>3. \A u \in Pending : first = NoTask /\ u \notin C => ~Doomed(u, C)
  BY <1>1
<1>4. first # NoTask => first \in Pending
  OBVIOUS
<1> QED BY <1>1, <1>2, <1>3, <1>4

\* Lifecycle is inductive, relative to the type invariant.
LEMMA LifecycleStep ==
    QueueTypeOK /\ Lifecycle /\ [QueueNext]_queueVars => Lifecycle'
<1> SUFFICES ASSUME QueueTypeOK, Lifecycle, [QueueNext]_queueVars, NEW t \in Tasks
             PROVE  TaskLife(t)'
  BY DEF Lifecycle
<1>0. /\ TaskLife(t)
      /\ Group[t] \in Groups
      /\ NoTask \notin Tasks
  BY QueueAssumption DEF Lifecycle, QueueAssumption
<1>1. CASE Claim
  <2>1. PICK first \in Pending \cup {NoTask}, C \in SUBSET Pending :
           /\ first \notin C
           /\ state' = [u \in Tasks |-> CASE u = first -> "running"
                                          [] u \in C   -> "canceled"
                                          [] OTHER     -> state[u]]
           /\ claimed' = first
           /\ callbacks' = C
    BY <1>1, ClaimFacts
  <2>2. UNCHANGED <<arrival, notified, routine, outcome>>
    BY <1>1 DEF Claim
  <2>3. CASE t = first
    BY <1>0, <2>1, <2>2, <2>3 DEF TaskLife, Pending
  <2>4. CASE t # first /\ t \in C
    BY <1>0, <2>1, <2>2, <2>4 DEF TaskLife, Pending
  <2>5. CASE t # first /\ t \notin C
    BY <1>0, <2>1, <2>2, <2>5 DEF TaskLife, Pending
  <2> QED BY <2>3, <2>4, <2>5
<1>2. CASE Launch
  BY <1>0, <1>2 DEF Launch, TaskLife, QueueTypeOK
<1>3. CASE Idle \/ Wake \/ Stop
  BY <1>0, <1>3 DEF Idle, Wake, Stop, TaskLife
<1>4. CASE ExpiryScan
  BY <1>0, <1>4 DEF ExpiryScan, TaskLife
<1>5. ASSUME NEW u \in Tasks, AttachCancel(u) PROVE TaskLife(t)'
  BY <1>0, <1>5 DEF AttachCancel, TaskLife, QueueTypeOK
<1>6. ASSUME NEW u \in Tasks, FinishReturned(u) PROVE TaskLife(t)'
  <2>1. CASE t # u
    BY <1>0, <1>6, <2>1 DEF FinishReturned, Finish, TaskLife, QueueTypeOK
  <2>2. CASE t = u /\ Settled(u)
    BY <1>0, <1>6, <2>2 DEF FinishReturned, Finish, TaskLife, QueueTypeOK, Settled
  <2>3. CASE t = u /\ ~Settled(u)
    <3>1. state'[t] = StateOf(outcome[t]) /\ routine'[t] = "done"
      BY <1>6, <2>3 DEF FinishReturned, Finish, QueueTypeOK
    <3>2. StateOf(outcome[t]) = "succeeded" => outcome[t] = "ok"
      BY DEF StateOf
    <3>3. StateOf(outcome[t]) # "pending"
      BY DEF StateOf
    <3>4. UNCHANGED <<arrival, claimed, callbacks, notified, outcome>>
      BY <1>6 DEF FinishReturned
    <3>5. routine[t] = "returned" /\ arrival[Group[t]] # 0
      BY <1>0, <1>6, <2>3 DEF FinishReturned, TaskLife, Settled
    <3> QED BY <1>0, <3>1, <3>2, <3>3, <3>4, <3>5 DEF TaskLife
  <2> QED BY <2>1, <2>2, <2>3
<1>7. ASSUME NEW u \in Tasks, Lapse(u) \/ RenewLease(u) PROVE TaskLife(t)'
  BY <1>0, <1>7 DEF Lapse, RenewLease, TaskLife
<1>8. ASSUME NEW u \in Tasks, Expire(u) PROVE TaskLife(t)'
  <2>1. UNCHANGED <<arrival, claimed, callbacks, notified, routine, outcome>>
    BY <1>8 DEF Expire
  <2>2. CASE t # u \/ Settled(u)
    BY <1>0, <1>8, <2>1, <2>2 DEF Expire, Finish, TaskLife, QueueTypeOK
  <2>3. CASE t = u /\ ~Settled(u)
    <3>1. state'[t] = "failed"
      BY <1>8, <2>3 DEF Expire, Finish, QueueTypeOK, StateOf
    <3>2. arrival[Group[t]] # 0
      BY <1>0, <2>3 DEF TaskLife, Settled
    <3> QED BY <1>0, <2>1, <3>1, <3>2 DEF TaskLife
  <2> QED BY <2>2, <2>3
<1>9. CASE Close
  BY <1>0, <1>9 DEF Close, TaskLife
<1>10. ASSUME NEW g \in Groups, Enqueue(g) PROVE TaskLife(t)'
  <2>1. arrival'[g] # 0
    BY <1>10, ArrivalStamp DEF Enqueue, QueueTypeOK
  <2> QED BY <1>0, <1>10, <2>1 DEF Enqueue, TaskLife, QueueTypeOK
<1>11. ASSUME NEW g \in Groups, CancelGroup(g) PROVE TaskLife(t)'
  BY <1>0, <1>11 DEF CancelGroup, TaskLife, QueueTypeOK
<1>12. ASSUME NEW g \in Groups, CancelRunningGroup(g) PROVE TaskLife(t)'
  BY <1>0, <1>12 DEF CancelRunningGroup, TaskLife
<1>13. ASSUME NEW g \in Groups, PruneGroup(g) PROVE TaskLife(t)'
  BY <1>0, <1>13 DEF PruneGroup, Prunes, Terminal, TaskLife, QueueTypeOK
<1>14. ASSUME NEW u \in Tasks, Notify(u) PROVE TaskLife(t)'
  BY <1>0, <1>14 DEF Notify, TaskLife
<1>15. ASSUME NEW u \in Tasks, NEW r \in Outcomes \ {"none"}, RunReturns(u, r)
       PROVE  TaskLife(t)'
  BY <1>0, <1>15 DEF RunReturns, TaskLife, QueueTypeOK
<1>16. CASE UNCHANGED queueVars
  BY <1>0, <1>16 DEF queueVars, TaskLife
<1> QED
  BY <1>1, <1>2, <1>3, <1>4, <1>5, <1>6, <1>7, <1>8, <1>9, <1>10, <1>11, <1>12,
     <1>13, <1>14, <1>15, <1>16 DEF QueueNext, QueueStep

\* A new queue has no tasks.
LEMMA LifecycleInit == QueueInit => Lifecycle
  BY QueueAssumption DEF QueueInit, Lifecycle, TaskLife, QueueAssumption

\* The life of every task is respected in every behaviour.
THEOREM LifecycleHolds == QueueSpec => []Lifecycle
  BY LifecycleInit, LifecycleStep, TypeCorrect, PTL DEF QueueSpec

\* A task is either run or reported canceled, never both.
THEOREM RunOrNotify == QueueSpec => []RunOrNotifyNotBoth
<1>1. QueueTypeOK /\ Lifecycle => RunOrNotifyNotBoth
  BY DEF QueueTypeOK, Lifecycle, TaskLife, RunOrNotifyNotBoth
<1> QED BY <1>1, TypeCorrect, LifecycleHolds, PTL

\* A settled entry is never settled again, whoever finishes it late.
THEOREM SettledStays == QueueSpec => SettledForever
<1>1. QueueTypeOK /\ Lifecycle /\ [QueueNext]_queueVars =>
        [\A t \in Tasks : state[t] \in Terminal => state'[t] \in {state[t], "absent"}]_queueVars
  <2> SUFFICES ASSUME QueueTypeOK, Lifecycle, QueueNext, NEW t \in Tasks, state[t] \in Terminal
               PROVE  state'[t] \in {state[t], "absent"}
    OBVIOUS
  <2>0. Settled(t)
    BY DEF Settled
  <2>1. CASE Claim
    <3>1. PICK first \in Pending \cup {NoTask}, C \in SUBSET Pending :
             state' = [u \in Tasks |-> CASE u = first -> "running"
                                         [] u \in C   -> "canceled"
                                         [] OTHER     -> state[u]]
      BY <2>1, ClaimFacts
    <3>2. t # first /\ t \notin C
      BY QueueAssumption DEF Pending, Terminal, QueueAssumption
    <3> QED BY <3>1, <3>2
  <2>2. ASSUME NEW u \in Tasks, FinishReturned(u) \/ Expire(u)
        PROVE  state'[t] = state[t]
    <3>1. CASE u = t
      BY <2>0, <2>2, <3>1 DEF FinishReturned, Expire, Finish
    <3>2. CASE u # t
      BY <2>2, <3>2 DEF FinishReturned, Expire, Finish, QueueTypeOK
    <3> QED BY <3>1, <3>2
  <2>3. ASSUME NEW g \in Groups, Enqueue(g) PROVE state'[t] = state[t]
    BY <2>3 DEF Enqueue, Lifecycle, TaskLife, Terminal
  <2>4. ASSUME NEW g \in Groups, CancelGroup(g) PROVE state'[t] = state[t]
    BY <2>4 DEF CancelGroup, Terminal
  <2>5. ASSUME NEW g \in Groups, PruneGroup(g) PROVE state'[t] \in {state[t], "absent"}
    BY <2>5 DEF PruneGroup
  <2>6. CASE state' = state
    BY <2>6
  <2> QED
    BY <2>1, <2>2, <2>3, <2>4, <2>5, <2>6
    DEF QueueNext, QueueStep, Launch, Idle, Wake, Stop, ExpiryScan, AttachCancel, Lapse,
        RenewLease, Close, CancelRunningGroup, Notify, RunReturns
<1> QED BY <1>1, TypeCorrect, LifecycleHolds, PTL DEF QueueSpec, SettledForever

-----------------------------------------------------------------------------
(* Order of runs *)

HardDependencies(t) == {Dependencies[t][i] : i \in 1..Len(Dependencies[t])}

Returned(d) == routine[d] = "done" /\ outcome[d] = "ok"

\* The strengthening of RunAfterHardDependencies: it already holds of a task
\* the dispatcher has claimed and not launched yet.
DependenciesReturned ==
    \A t \in Tasks : routine[t] # "none" \/ claimed = t =>
        \A d \in HardDependencies(t) : Returned(d)

\* Hard dependencies are tasks.
LEMMA HardDependenciesAreTasks == \A t \in Tasks : HardDependencies(t) \subseteq Tasks
  BY QueueAssumption DEF QueueAssumption, HardDependencies

\* A goroutine that has returned nil and finished stays as it is.
LEMMA ReturnedStays ==
    ASSUME QueueTypeOK, Lifecycle, [QueueNext]_queueVars, NEW d \in Tasks, Returned(d)
    PROVE  Returned(d)'
<1>1. CASE Launch
  BY <1>1 DEF Launch, Returned, Lifecycle, TaskLife, QueueTypeOK
<1>2. ASSUME NEW t \in Tasks, AttachCancel(t) PROVE Returned(d)'
  BY <1>2 DEF AttachCancel, Returned, QueueTypeOK
<1>3. ASSUME NEW t \in Tasks, FinishReturned(t) PROVE Returned(d)'
  BY <1>3 DEF FinishReturned, Returned, QueueTypeOK
<1>4. ASSUME NEW t \in Tasks, NEW r \in Outcomes \ {"none"}, RunReturns(t, r)
      PROVE  Returned(d)'
  BY <1>4 DEF RunReturns, Returned, QueueTypeOK
<1>5. CASE UNCHANGED <<routine, outcome>>
  BY <1>5 DEF Returned
<1> QED
  BY <1>1, <1>2, <1>3, <1>4, <1>5
  DEF QueueNext, QueueStep, Claim, Idle, Wake, Stop, ExpiryScan, Lapse, RenewLease, Expire,
      Close, Enqueue, CancelGroup, CancelRunningGroup, PruneGroup, Notify, queueVars

\* DependenciesReturned is inductive, relative to the earlier invariants.
LEMMA DependenciesReturnedStep ==
    QueueTypeOK /\ Lifecycle /\ DependenciesReturned /\ [QueueNext]_queueVars
        => DependenciesReturned'
<1> SUFFICES ASSUME QueueTypeOK, Lifecycle, DependenciesReturned, [QueueNext]_queueVars,
                    NEW t \in Tasks, (routine[t] # "none" \/ claimed = t)',
                    NEW d \in HardDependencies(t)
             PROVE  Returned(d)'
  BY DEF DependenciesReturned, HardDependencies
<1>1. d \in Tasks
  BY HardDependenciesAreTasks
<1>2. CASE routine[t] # "none" \/ claimed = t
  BY <1>1, <1>2, ReturnedStays DEF DependenciesReturned
<1>3. CASE routine[t] = "none" /\ claimed # t
  <2>1. CASE Claim
    <3>1. PICK limit \in Capacities, first \in Pending \cup {NoTask}, C \in SUBSET Pending :
             /\ first # NoTask => first \in Pending /\ Startable(first, C, limit)
             /\ claimed' = first
      BY <2>1, ClaimFacts
    <3>2. first = t /\ t # NoTask
      BY <1>3, <2>1, <3>1, QueueAssumption DEF Claim, QueueAssumption
    <3>3. \A i \in 1..Len(Dependencies[t]) : Seen(Dependencies[t][i], t, C) = "succeeded"
      BY <3>1, <3>2 DEF Startable, Ready
    <3>4. state[d] = "succeeded"
      BY <3>3 DEF HardDependencies, Seen
    <3>5. Returned(d)
      BY <1>1, <3>4 DEF Lifecycle, TaskLife, Returned
    <3> QED BY <1>1, <3>5, ReturnedStays
  <2>2. CASE Launch
    BY <1>3, <2>2, QueueAssumption DEF Launch, QueueTypeOK, QueueAssumption
  <2>3. ASSUME NEW u \in Tasks, AttachCancel(u) PROVE FALSE
    BY <1>3, <2>3 DEF AttachCancel, QueueTypeOK
  <2>4. ASSUME NEW u \in Tasks, FinishReturned(u) PROVE FALSE
    BY <1>3, <2>4 DEF FinishReturned, QueueTypeOK
  <2>5. ASSUME NEW u \in Tasks, NEW r \in Outcomes \ {"none"}, RunReturns(u, r)
        PROVE  FALSE
    BY <1>3, <2>5 DEF RunReturns, QueueTypeOK
  <2>6. CASE UNCHANGED <<routine, claimed>>
    BY <1>3, <2>6
  <2> QED
    BY <2>1, <2>2, <2>3, <2>4, <2>5, <2>6
    DEF QueueNext, QueueStep, Idle, Wake, Stop, ExpiryScan, Lapse, RenewLease, Expire,
        Close, Enqueue, CancelGroup, CancelRunningGroup, PruneGroup, Notify, queueVars
<1> QED BY <1>2, <1>3

\* A new queue has started nothing.
LEMMA DependenciesReturnedInit == QueueInit => DependenciesReturned
  BY QueueAssumption DEF QueueInit, DependenciesReturned, QueueAssumption

\* A task is run only after every hard dependency's Run returned nil.
THEOREM RunOrder == QueueSpec => []RunAfterHardDependencies
<1>1. DependenciesReturned => RunAfterHardDependencies
  BY DEF DependenciesReturned, RunAfterHardDependencies, HardDependencies, Returned
<1> QED
  BY <1>1, DependenciesReturnedInit, DependenciesReturnedStep, TypeCorrect, LifecycleHolds, PTL DEF QueueSpec

-----------------------------------------------------------------------------
(* Pool slots *)

RunningIn(p) == {t \in Tasks : Pool[t] = p /\ state[t] = "running"}

\* The strengthening of SlotsAreExact: the slot flag of an entry is set
\* exactly while the entry is running, so finish releases what claim took.
SlotsHeld ==
    /\ \A t \in Tasks : counted[t] <=> state[t] = "running"
    /\ \A p \in Pools : running[p] = Cardinality(RunningIn(p))

\* The running tasks of a pool are finitely many.
LEMMA RunningFinite == \A p \in Pools : IsFiniteSet(RunningIn(p)) /\ Cardinality(RunningIn(p)) \in Nat
  BY FS_Subset, FS_CardinalityType, QueueAssumption DEF RunningIn, QueueAssumption

\* finish gives back exactly the slot of the entry it settles.
LEMMA FinishReleases ==
    ASSUME QueueTypeOK, SlotsHeld, NEW t \in Tasks, NEW result, Finish(t, result)
    PROVE  SlotsHeld'
<1>1. CASE Settled(t)
  BY <1>1 DEF Finish, SlotsHeld, RunningIn
<1>2. CASE ~Settled(t)
  <2>1. StateOf(result) # "running"
    BY DEF StateOf
  <2>2. /\ state' = [state EXCEPT ![t] = StateOf(result)]
        /\ counted' = [counted EXCEPT ![t] = FALSE]
        /\ running' = [running EXCEPT ![Pool[t]] = IF counted[t] THEN @ - 1 ELSE @]
    BY <1>2 DEF Finish
  <2>3. \A u \in Tasks : counted'[u] <=> state'[u] = "running"
    BY <2>1, <2>2 DEF SlotsHeld, QueueTypeOK
  <2>4. ASSUME NEW p \in Pools PROVE running'[p] = Cardinality(RunningIn(p)')
    <3>1. CASE p = Pool[t] /\ state[t] = "running"
      <4>1. RunningIn(p)' = RunningIn(p) \ {t} /\ t \in RunningIn(p)
        BY <2>1, <2>2, <3>1 DEF RunningIn, QueueTypeOK
      <4>2. Cardinality(RunningIn(p)') = Cardinality(RunningIn(p)) - 1
        BY <4>1, RunningFinite, FS_RemoveElement
      <4> QED BY <2>2, <3>1, <4>2 DEF SlotsHeld, QueueTypeOK
    <3>2. CASE ~(p = Pool[t] /\ state[t] = "running")
      <4>1. RunningIn(p)' = RunningIn(p)
        BY <2>1, <2>2, <3>2 DEF RunningIn, QueueTypeOK
      <4>2. running'[p] = running[p]
        BY <2>2, <3>2 DEF SlotsHeld, QueueTypeOK
      <4> QED BY <4>1, <4>2 DEF SlotsHeld
    <3> QED BY <3>1, <3>2
  <2> QED BY <2>3, <2>4 DEF SlotsHeld
<1> QED BY <1>1, <1>2

\* claim takes exactly one slot, in the pool of the task it starts.
LEMMA ClaimTakes == QueueTypeOK /\ SlotsHeld /\ Claim => SlotsHeld'
<1> SUFFICES ASSUME QueueTypeOK, SlotsHeld, Claim PROVE SlotsHeld'
  OBVIOUS
<1>1. PICK first \in Pending \cup {NoTask}, C \in SUBSET Pending :
        /\ first \notin C
        /\ first # NoTask => first \in Pending
        /\ state' = [t \in Tasks |-> CASE t = first -> "running"
                                       [] t \in C   -> "canceled"
                                       [] OTHER     -> state[t]]
        /\ counted' = [t \in Tasks |-> t = first \/ counted[t]]
        /\ running' = [p \in Pools |->
              IF first # NoTask /\ p = Pool[first] THEN running[p] + 1 ELSE running[p]]
  BY ClaimFacts
<1>2. \A t \in Tasks : state'[t] = "running" <=> t = first \/ state[t] = "running"
  BY <1>1 DEF Pending
<1>3. \A t \in Tasks : counted'[t] <=> state'[t] = "running"
  BY <1>1, <1>2 DEF SlotsHeld
<1>4. ASSUME NEW p \in Pools PROVE running'[p] = Cardinality(RunningIn(p)')
  <2>1. CASE first # NoTask /\ p = Pool[first]
    <3>1. RunningIn(p)' = RunningIn(p) \cup {first} /\ first \notin RunningIn(p)
      BY <1>1, <1>2, <2>1 DEF RunningIn, Pending
    <3>2. Cardinality(RunningIn(p)') = Cardinality(RunningIn(p)) + 1
      BY <3>1, RunningFinite, FS_AddElement
    <3> QED BY <1>1, <2>1, <3>2 DEF SlotsHeld
  <2>2. CASE ~(first # NoTask /\ p = Pool[first])
    <3>1. RunningIn(p)' = RunningIn(p)
      BY <1>2, <2>2, QueueAssumption DEF RunningIn, QueueAssumption
    <3> QED BY <1>1, <2>2, <3>1 DEF SlotsHeld
  <2> QED BY <2>1, <2>2
<1> QED BY <1>3, <1>4 DEF SlotsHeld

\* SlotsHeld is inductive, relative to the earlier invariants.
LEMMA SlotsHeldStep ==
    QueueTypeOK /\ Lifecycle /\ SlotsHeld /\ [QueueNext]_queueVars => SlotsHeld'
<1> SUFFICES ASSUME QueueTypeOK, Lifecycle, SlotsHeld, [QueueNext]_queueVars PROVE SlotsHeld'
  OBVIOUS
<1>1. CASE Claim
  BY <1>1, ClaimTakes
<1>2. ASSUME NEW t \in Tasks, FinishReturned(t) PROVE SlotsHeld'
  BY <1>2, FinishReleases DEF FinishReturned
<1>3. ASSUME NEW t \in Tasks, Expire(t) PROVE SlotsHeld'
  BY <1>3, FinishReleases DEF Expire
<1>4. ASSUME UNCHANGED <<counted, running>>,
             \A t \in Tasks : state'[t] = "running" <=> state[t] = "running"
      PROVE  SlotsHeld'
  <2>1. \A p \in Pools : RunningIn(p)' = RunningIn(p)
    BY <1>4 DEF RunningIn
  <2> QED BY <1>4, <2>1 DEF SlotsHeld
<1>5. ASSUME NEW g \in Groups, Enqueue(g) PROVE SlotsHeld'
  BY <1>4, <1>5 DEF Enqueue, Lifecycle, TaskLife
<1>6. ASSUME NEW g \in Groups, CancelGroup(g) PROVE SlotsHeld'
  BY <1>4, <1>6 DEF CancelGroup
<1>7. ASSUME NEW g \in Groups, PruneGroup(g) PROVE SlotsHeld'
  BY <1>4, <1>7 DEF PruneGroup, Prunes, Terminal
<1>8. CASE UNCHANGED <<counted, running, state>>
  BY <1>4, <1>8
<1> QED
  BY <1>1, <1>2, <1>3, <1>5, <1>6, <1>7, <1>8
  DEF QueueNext, QueueStep, Launch, Idle, Wake, Stop, ExpiryScan, AttachCancel, Lapse,
      RenewLease, Close, CancelRunningGroup, Notify, RunReturns, queueVars

\* The slot bookkeeping is exact in every behaviour.
THEOREM SlotsAlwaysHeld == QueueSpec => []SlotsHeld
<1>1. QueueInit => SlotsHeld
  <2> SUFFICES ASSUME QueueInit, NEW p \in Pools PROVE Cardinality(RunningIn(p)) = 0
    BY DEF QueueInit, SlotsHeld
  <2>1. RunningIn(p) = {}
    BY DEF QueueInit, RunningIn
  <2> QED BY <2>1, FS_EmptySet
<1> QED BY <1>1, SlotsHeldStep, TypeCorrect, LifecycleHolds, PTL DEF QueueSpec

\* No counter exceeds the largest capacity its pool reported.
CapacityRespected ==
    \A p \in Pools :
        0 \notin Limits[p] => \E limit \in Limits[p] : running[p] <= limit

\* CapacityRespected is inductive: claim starts a task only below a limit the
\* pool reported, and nothing else raises a counter.
LEMMA CapacityStep ==
    QueueTypeOK /\ CapacityRespected /\ [QueueNext]_queueVars => CapacityRespected'
<1> SUFFICES ASSUME QueueTypeOK, CapacityRespected, [QueueNext]_queueVars,
                    NEW p \in Pools, 0 \notin Limits[p]
             PROVE  \E limit \in Limits[p] : running'[p] <= limit
  BY DEF CapacityRespected
<1>0. PICK old \in Limits[p] : running[p] <= old
  BY DEF CapacityRespected
<1>1. /\ old \in Nat /\ running[p] \in Int
      /\ Limits[p] \subseteq Nat
  BY QueueAssumption DEF QueueAssumption, QueueTypeOK
<1>2. CASE Claim
  <2>1. PICK limit \in Capacities, first \in Pending \cup {NoTask}, C \in SUBSET Pending :
          /\ first # NoTask => first \in Pending /\ Startable(first, C, limit)
          /\ running' = [q \in Pools |->
                IF first # NoTask /\ q = Pool[first] THEN running[q] + 1 ELSE running[q]]
    BY <1>2, ClaimFacts
  <2>2. CASE first # NoTask /\ p = Pool[first]
    <3>1. limit[p] \in Limits[p]
      BY DEF Capacities
    <3>2. limit[p] \in Nat /\ limit[p] > 0
      BY <1>1, <3>1
    <3>3. running[p] < limit[p]
      BY <2>1, <2>2, <3>2 DEF Startable, HasRoom
    <3>4. running'[p] <= limit[p]
      BY <1>1, <2>1, <2>2, <3>2, <3>3
    <3> QED BY <3>1, <3>4
  <2>3. CASE ~(first # NoTask /\ p = Pool[first])
    BY <1>0, <2>1, <2>3
  <2> QED BY <2>2, <2>3
<1>3. ASSUME NEW t \in Tasks, FinishReturned(t) \/ Expire(t)
      PROVE  running'[p] <= old
  BY <1>0, <1>1, <1>3 DEF FinishReturned, Expire, Finish, QueueTypeOK
<1>4. CASE UNCHANGED running
  BY <1>0, <1>4
<1> QED
  BY <1>0, <1>2, <1>3, <1>4
  DEF QueueNext, QueueStep, Launch, Idle, Wake, Stop, ExpiryScan, AttachCancel, Lapse,
      RenewLease, Close, Enqueue, CancelGroup, CancelRunningGroup, PruneGroup, Notify,
      RunReturns, queueVars

\* A pool's counter is the number of its running entries, whichever of the
\* expiry loop and the task's goroutine finishes an entry first, and never more
\* of them hold a slot than the pool has.
THEOREM SlotsExact == QueueSpec => []SlotsAreExact
<1>1. QueueInit => CapacityRespected
  BY QueueAssumption DEF QueueInit, CapacityRespected, QueueAssumption
<1>2. QueueSpec => []CapacityRespected
  BY <1>1, CapacityStep, TypeCorrect, PTL DEF QueueSpec
<1>3. SlotsHeld /\ CapacityRespected => SlotsAreExact
  BY DEF SlotsHeld, CapacityRespected, SlotsAreExact, RunningIn
<1> QED BY <1>2, <1>3, SlotsAlwaysHeld, PTL

-----------------------------------------------------------------------------
(* Wake-ups *)

\* A scan that starts here neither cancels nor starts t, at least while the
\* pool reports its smallest capacity.
Stuck(t) ==
    /\ ~Doomed(t, {})
    /\ Ready(t, {}) => \E limit \in Limits[Pool[t]] : ~HasRoom(Pool[t], limit)

\* The dispatcher is past a scan that claimed nothing.
Resting == dispatcher = "wait" \/ (dispatcher = "notify" /\ claimed = NoTask)

\* The strengthening of NoLostWakeup: it holds from the end of the scan on,
\* while the callbacks run and before the dispatcher reaches its select.
RestIsJustified == Resting /\ ~wake => \A t \in Pending : Stuck(t)

\* Whether a task is stuck depends only on its dependencies' states and on its
\* pool's counter.
LEMMA StuckFrame ==
    ASSUME NEW t \in Tasks, Stuck(t),
           \A d \in Tasks : Group[d] = Group[t] => state'[d] = state[d],
           running'[Pool[t]] = running[Pool[t]]
    PROVE  Stuck(t)'
<1>1. \A i \in 1..Len(Dependencies[t]) :
          /\ Dependencies[t][i] \in Tasks
          /\ Group[Dependencies[t][i]] = Group[t]
  BY QueueAssumption, TopologicalOrder DEF QueueAssumption, TopologicalOrder
<1>2. \A d \in SoftDependencies[t] : d \in Tasks /\ Group[d] = Group[t]
  BY QueueAssumption, TopologicalOrder DEF QueueAssumption, TopologicalOrder
<1>3. \A i \in 1..Len(Dependencies[t]) :
          Seen(Dependencies[t][i], t, {})' = Seen(Dependencies[t][i], t, {})
  BY <1>1 DEF Seen
<1>4. \A d \in SoftDependencies[t] : Seen(d, t, {})' = Seen(d, t, {})
  BY <1>2 DEF Seen
<1>5. Doomed(t, {})' <=> Doomed(t, {})
  <2>1. \A i \in 1..Len(Dependencies[t]) : \A j \in 1..(i-1) : j \in 1..Len(Dependencies[t])
    BY QueueAssumption DEF QueueAssumption
  <2> QED BY <1>3, <2>1 DEF Doomed
<1>6. Ready(t, {})' <=> Ready(t, {})
  BY <1>3, <1>4 DEF Ready
<1> QED BY <1>5, <1>6 DEF Stuck, HasRoom

\* After a scan that claims nothing every task left pending is stuck: its
\* dependencies come earlier in the order, so the scan saw their final state.
LEMMA ScanLeavesStuck ==
    ASSUME QueueTypeOK, Claim, claimed' = NoTask, NEW t \in Pending'
    PROVE  Stuck(t)'
<1>1. PICK limit \in Capacities, first \in Pending \cup {NoTask}, C \in SUBSET Pending :
        /\ \A u \in Pending : first = NoTask /\ u \notin C => ~Doomed(u, C)
        /\ \A u \in Pending : first = NoTask => ~Startable(u, C, limit)
        /\ state' = [u \in Tasks |-> CASE u = first -> "running"
                                       [] u \in C   -> "canceled"
                                       [] OTHER     -> state[u]]
        /\ running' = [p \in Pools |->
              IF first # NoTask /\ p = Pool[first] THEN running[p] + 1 ELSE running[p]]
        /\ claimed' = first
  BY ClaimFacts
<1>2. first = NoTask /\ NoTask \notin Tasks /\ t \in Tasks
  BY <1>1, QueueAssumption DEF QueueAssumption, Pending
<1>3. t \in Pending /\ t \notin C
  BY <1>1, <1>2 DEF Pending
<1>4. ASSUME NEW d \in Tasks, Group[d] = Group[t], Place[d] < Place[t]
      PROVE  Seen(d, t, {})' = Seen(d, t, C)
  <2>1. Before(d, t)
    BY <1>4 DEF Before
  <2>2. state'[d] = IF d \in C THEN "canceled" ELSE state[d]
    BY <1>1, <1>2
  <2> QED BY <2>1, <2>2 DEF Seen
<1>5. \A i \in 1..Len(Dependencies[t]) :
          Seen(Dependencies[t][i], t, {})' = Seen(Dependencies[t][i], t, C)
  BY <1>2, <1>4, QueueAssumption, TopologicalOrder DEF QueueAssumption, TopologicalOrder
<1>6. \A d \in SoftDependencies[t] : Seen(d, t, {})' = Seen(d, t, C)
  BY <1>2, <1>4, QueueAssumption, TopologicalOrder DEF QueueAssumption, TopologicalOrder
<1>7. ~Doomed(t, {})'
  <2>1. \A i \in 1..Len(Dependencies[t]) : \A j \in 1..(i-1) : j \in 1..Len(Dependencies[t])
    BY <1>2, QueueAssumption DEF QueueAssumption
  <2>2. ~Doomed(t, C)
    BY <1>1, <1>2, <1>3
  <2> QED BY <1>5, <2>1, <2>2 DEF Doomed
<1>8. ASSUME Ready(t, {})' PROVE \E l \in Limits[Pool[t]] : ~HasRoom(Pool[t], l)'
  <2>1. Ready(t, C)
    BY <1>5, <1>6, <1>8 DEF Ready
  <2>2. ~HasRoom(Pool[t], limit[Pool[t]])
    BY <1>1, <1>2, <1>3, <2>1 DEF Startable, Pending
  <2>3. Pool[t] \in Pools
    BY <1>2, QueueAssumption DEF QueueAssumption
  <2>4. limit[Pool[t]] \in Limits[Pool[t]]
    BY <2>3 DEF Capacities
  <2>5. running'[Pool[t]] = running[Pool[t]]
    BY <1>1, <1>2, <2>3
  <2> QED BY <2>2, <2>4, <2>5 DEF HasRoom
<1> QED BY <1>7, <1>8 DEF Stuck

\* RestIsJustified is inductive, relative to the type invariant: whatever
\* could unblock a task leaves a token in wakeCh.
LEMMA RestStep ==
    QueueTypeOK /\ RestIsJustified /\ [QueueNext]_queueVars => RestIsJustified'
<1> SUFFICES ASSUME QueueTypeOK, RestIsJustified, [QueueNext]_queueVars,
                    Resting', ~wake', NEW t \in Pending'
             PROVE  Stuck(t)'
  BY DEF RestIsJustified
<1>0. t \in Tasks
  BY DEF Pending
<1>1. CASE Claim
  BY <1>1, ScanLeavesStuck DEF Claim, Resting
<1>2. ASSUME Resting, ~wake, UNCHANGED <<state, running>> PROVE Stuck(t)'
  <2>1. Stuck(t)
    BY <1>2 DEF RestIsJustified, Pending
  <2> QED BY <1>0, <1>2, <2>1, StuckFrame
<1>3. CASE Launch
  BY <1>3 DEF Launch, Resting
<1>4. CASE Idle
  BY <1>2, <1>4 DEF Idle, Resting
<1>5. CASE Wake \/ Stop
  BY <1>5 DEF Wake, Stop, Resting
<1>6. CASE ExpiryScan \/ Close
  BY <1>2, <1>6 DEF ExpiryScan, Close, Resting
<1>7. ASSUME NEW u \in Tasks,
             AttachCancel(u) \/ Lapse(u) \/ RenewLease(u) \/ Notify(u)
      PROVE  Stuck(t)'
  BY <1>2, <1>7 DEF AttachCancel, Lapse, RenewLease, Notify, Resting
<1>8. ASSUME NEW u \in Tasks, FinishReturned(u) \/ Expire(u) PROVE Stuck(t)'
  BY <1>2, <1>8 DEF FinishReturned, Expire, Finish, Signal, Resting
<1>9. ASSUME NEW g \in Groups, Enqueue(g) \/ CancelGroup(g) PROVE Stuck(t)'
  BY <1>9 DEF Enqueue, CancelGroup, Signal
<1>10. ASSUME NEW g \in Groups, CancelRunningGroup(g) PROVE Stuck(t)'
  BY <1>2, <1>10 DEF CancelRunningGroup, Resting
<1>11. ASSUME NEW g \in Groups, Prunable(g), PruneGroup(g) PROVE Stuck(t)'
  <2>1. state[t] = "pending" /\ Group[t] # g
    BY <1>0, <1>11 DEF PruneGroup, Prunable, Pending
  <2>2. Stuck(t)
    BY <1>0, <1>11, <2>1 DEF PruneGroup, Resting, RestIsJustified, Pending
  <2>3. \A d \in Tasks : Group[d] = Group[t] => state'[d] = state[d]
    BY <1>11, <2>1 DEF PruneGroup
  <2> QED BY <1>0, <1>11, <2>2, <2>3, StuckFrame DEF PruneGroup
<1>12. ASSUME NEW u \in Tasks, NEW r \in Outcomes \ {"none"}, RunReturns(u, r)
       PROVE  Stuck(t)'
  BY <1>2, <1>12 DEF RunReturns, Resting
<1>13. CASE UNCHANGED queueVars
  BY <1>2, <1>13 DEF queueVars, Resting
<1> QED
  BY <1>1, <1>3, <1>4, <1>5, <1>6, <1>7, <1>8, <1>9, <1>10, <1>11, <1>12, <1>13
  DEF QueueNext, QueueStep

\* The dispatcher never sleeps on a task that it could start or cancel.
THEOREM WakeupNeverLost == QueueSpec => []NoLostWakeup
<1>1. QueueInit => RestIsJustified
  BY DEF QueueInit, RestIsJustified, Resting
<1>2. RestIsJustified => NoLostWakeup
  BY DEF RestIsJustified, Resting, NoLostWakeup, Stuck
<1> QED BY <1>1, <1>2, RestStep, TypeCorrect, PTL DEF QueueSpec

=============================================================================

-------------------------------- MODULE Queue --------------------------------
(***************************************************************************)
(* The in-memory task queue of the control plane                           *)
(* (src/backend/internal/queue/queue.go, type Memory).                     *)
(*                                                                         *)
(* One dispatcher goroutine claims tasks whose dependencies are met and    *)
(* whose pool has room, and starts one goroutine per claimed task.  A      *)
(* ticking expiry loop fails tasks whose lease was not renewed in time.    *)
(* Callers enqueue batches, cancel groups and prune finished groups.       *)
(*                                                                         *)
(* Each action below is one critical section of the mutex m.mu, or one     *)
(* step that runs outside it.  Time is abstracted to whether a lease has   *)
(* lapsed: deadlines come from time.Now().UTC(), which drops Go's          *)
(* monotonic reading, so any running lease may be found lapsed.            *)
(***************************************************************************)
EXTENDS Integers, FiniteSets, Sequences

CONSTANTS
    Tasks,            \* task ids
    Groups,           \* group ids (one execution enqueues one group)
    Pools,            \* capacity pools (one per backend)
    Group,            \* Task.Group
    Pool,             \* Task.Pool
    Place,            \* position of a task in the batch it is enqueued with
    Dependencies,     \* Task.Dependencies, a sequence: the scan is ordered
    SoftDependencies, \* Task.SoftDependencies
    Limits,           \* what a pool's Capacity() may answer; 0 is no limit
    NoTask            \* "claim returned false"

\* Enqueue is called with the topologically sorted nodes of one suite, so a
\* dependency is always listed before its dependants, in the same group.
ASSUME QueueAssumption ==
    /\ IsFiniteSet(Tasks) /\ IsFiniteSet(Groups)
    /\ Group \in [Tasks -> Groups]
    /\ Pool \in [Tasks -> Pools]
    /\ Place \in [Tasks -> Nat]
    /\ \A t, u \in Tasks : Group[t] = Group[u] /\ Place[t] = Place[u] => t = u
    /\ Dependencies \in [Tasks -> Seq(Tasks)]
    /\ SoftDependencies \in [Tasks -> SUBSET Tasks]
    /\ Limits \in [Pools -> (SUBSET Nat) \ {{}}]
    /\ NoTask \notin Tasks

ASSUME TopologicalOrder ==
    \A t \in Tasks :
        /\ \A i \in 1..Len(Dependencies[t]) :
                /\ Group[Dependencies[t][i]] = Group[t]
                /\ Place[Dependencies[t][i]] < Place[t]
        /\ \A d \in SoftDependencies[t] :
                Group[d] = Group[t] /\ Place[d] < Place[t]

VARIABLES
    arrival,    \* when a group was enqueued (0: not yet); orders m.order
    state,      \* Entry.State, "absent" when there is no entry
    counted,    \* entry.counted
    lease,      \* Entry.LeaseDeadline: none (zero), live or lapsed
    attached,   \* entry.cancel # nil
    ctxDone,    \* the cancel function of the task's context was called
    running,    \* Memory.running
    wake,       \* wakeCh holds its one token
    closed,     \* m.ctx is canceled
    dispatcher, \* where the dispatch goroutine is
    claimed,    \* the task claim returned
    callbacks,  \* OnCanceled callbacks claim still has to run
    notified,   \* tasks whose OnCanceled callback has run
    routine,    \* where the task's own goroutine is
    outcome,    \* what Task.Run returned
    expiring    \* ids the expiry loop collected and has not finished yet

queueVars == <<arrival, state, counted, lease, attached, ctxDone, running,
               wake, closed, dispatcher, claimed, callbacks, notified,
               routine, outcome, expiring>>

Terminal == {"succeeded", "failed", "canceled"}
States   == {"absent", "pending", "running"} \cup Terminal
Outcomes == {"none", "ok", "canceled", "error"}

\* inFlight counts these goroutines.
InFlight == {t \in Tasks : routine[t] \in {"spawned", "running", "returned"}}

-----------------------------------------------------------------------------
(* NewMemory *)
QueueInit ==
    /\ arrival = [g \in Groups |-> 0]
    /\ state = [t \in Tasks |-> "absent"]
    /\ counted = [t \in Tasks |-> FALSE]
    /\ lease = [t \in Tasks |-> "none"]
    /\ attached = [t \in Tasks |-> FALSE]
    /\ ctxDone = [t \in Tasks |-> FALSE]
    /\ running = [p \in Pools |-> 0]
    /\ wake = FALSE
    /\ closed = FALSE
    /\ dispatcher = "claim"
    /\ claimed = NoTask
    /\ callbacks = {}
    /\ notified = {}
    /\ routine = [t \in Tasks |-> "none"]
    /\ outcome = [t \in Tasks |-> "none"]
    /\ expiring = {}

-----------------------------------------------------------------------------
(* Callers *)

\* Mutant: the token is not left.
SignalDropped == wake' = wake

\* signal: leave a token in wakeCh unless there is one.
Signal == wake' = TRUE

\* Enqueue: the whole batch or nothing.  Task ids carry a fresh execution id,
\* so the duplicate check never fires for a group that was not enqueued yet.
Enqueue(g) ==
    /\ arrival[g] = 0
    /\ arrival' = [arrival EXCEPT ![g] =
                      1 + Cardinality({h \in Groups : arrival[h] # 0})]
    /\ state' = [t \in Tasks |-> IF Group[t] = g THEN "pending" ELSE state[t]]
    /\ Signal
    /\ UNCHANGED <<counted, lease, attached, ctxDone, running, closed,
                   dispatcher, claimed, callbacks, notified, routine, outcome,
                   expiring>>

\* The running tasks of a group whose cancel function is attached.
Cancelable(g) == {t \in Tasks : Group[t] = g /\ state[t] = "running" /\ attached[t]}

\* Mutant: running tasks are reported canceled too.
CancelGroupReportingRunning(g) ==
    /\ state' = [t \in Tasks |-> IF Group[t] = g /\ state[t] = "pending"
                                 THEN "canceled" ELSE state[t]]
    /\ callbacks' = callbacks \cup {t \in Tasks : Group[t] = g /\ state[t] \in {"pending", "running"}}
    /\ wake' = TRUE
    /\ UNCHANGED <<arrival, counted, lease, attached, ctxDone, running, closed,
                   dispatcher, claimed, notified, routine, outcome, expiring>>

CancelGroup(g) ==
    /\ state' = [t \in Tasks |-> IF Group[t] = g /\ state[t] = "pending"
                                 THEN "canceled" ELSE state[t]]
    /\ ctxDone' = [t \in Tasks |-> ctxDone[t] \/ t \in Cancelable(g)]
    /\ Signal
    /\ UNCHANGED <<arrival, counted, lease, attached, running, closed,
                   dispatcher, claimed, callbacks, notified, routine, outcome,
                   expiring>>

CancelRunningGroup(g) ==
    /\ ctxDone' = [t \in Tasks |-> ctxDone[t] \/ t \in Cancelable(g)]
    /\ UNCHANGED <<arrival, state, counted, lease, attached, running, wake,
                   closed, dispatcher, claimed, callbacks, notified, routine,
                   outcome, expiring>>

\* PruneGroup drops the terminal entries of the group and wakes nobody.
Prunes(t) == state[t] \in Terminal

PruneGroup(g) ==
    /\ state' = [t \in Tasks |-> IF Group[t] = g /\ Prunes(t)
                                 THEN "absent" ELSE state[t]]
    /\ UNCHANGED <<arrival, counted, lease, attached, ctxDone, running, wake,
                   closed, dispatcher, claimed, callbacks, notified, routine,
                   outcome, expiring>>

Close ==
    /\ ~closed
    /\ closed' = TRUE
    /\ UNCHANGED <<arrival, state, counted, lease, attached, ctxDone, running,
                   wake, dispatcher, claimed, callbacks, notified, routine,
                   outcome, expiring>>

-----------------------------------------------------------------------------
(* claim: one scan of m.order under the mutex *)

\* t comes before u in m.order.
Before(t, u) ==
    \/ arrival[Group[t]] < arrival[Group[u]]
    \/ Group[t] = Group[u] /\ Place[t] < Place[u]

Pending == {t \in Tasks : state[t] = "pending"}

\* The state the scan sees for d when it reaches t: the tasks in C, scanned
\* earlier, have just been canceled by this very scan.
Seen(d, t, C) == IF d \in C /\ Before(d, t) THEN "canceled" ELSE state[d]

\* The scan of a task's dependencies stops at the first one that has not
\* succeeded; only if that one can no longer succeed is the task canceled.
Doomed(t, C) ==
    \E i \in 1..Len(Dependencies[t]) :
        /\ Seen(Dependencies[t][i], t, C) \in {"absent", "failed", "canceled"}
        /\ \A j \in 1..(i-1) : Seen(Dependencies[t][j], t, C) = "succeeded"

\* Mutant: hard dependencies only have to be settled.
ReadyOnceSettled(t, C) ==
    /\ \A i \in 1..Len(Dependencies[t]) :
            Seen(Dependencies[t][i], t, C) \in Terminal
    /\ \A d \in SoftDependencies[t] : Seen(d, t, C) \in Terminal

Ready(t, C) ==
    /\ \A i \in 1..Len(Dependencies[t]) :
            Seen(Dependencies[t][i], t, C) = "succeeded"
    /\ \A d \in SoftDependencies[t] : Seen(d, t, C) \in Terminal

HasRoom(p, limit) == limit > 0 => running[p] < limit

Startable(t, C, limit) ==
    state[t] = "pending" /\ Ready(t, C) /\ HasRoom(Pool[t], limit[Pool[t]])

\* Capacity is asked at most once per pool and claim.
Capacities == {limit \in [Pools -> UNION {Limits[p] : p \in Pools}] :
                    \A p \in Pools : limit[p] \in Limits[p]}

Claim ==
    /\ dispatcher = "claim"
    /\ \E limit \in Capacities, first \in Pending \cup {NoTask}, C \in SUBSET Pending :
        LET Scanned(u) == first = NoTask \/ Before(u, first)
        IN  /\ C = {u \in Pending : Scanned(u) /\ Doomed(u, C)}
            /\ \A u \in Pending : Scanned(u) => ~Startable(u, C, limit)
            /\ first # NoTask => Startable(first, C, limit)
            /\ state' = [t \in Tasks |-> CASE t = first -> "running"
                                           [] t \in C   -> "canceled"
                                           [] OTHER     -> state[t]]
            /\ counted' = [t \in Tasks |-> t = first \/ counted[t]]
            /\ lease' = [t \in Tasks |-> IF t = first THEN "live" ELSE lease[t]]
            /\ running' = [p \in Pools |->
                  IF first # NoTask /\ p = Pool[first] THEN running[p] + 1 ELSE running[p]]
            /\ claimed' = first
            /\ callbacks' = C
    /\ dispatcher' = "notify"
    /\ UNCHANGED <<arrival, attached, ctxDone, wake, closed, notified, routine,
                   outcome, expiring>>

\* After the unlock claim runs the callbacks, in scan order.
Notify(t) ==
    /\ dispatcher = "notify"
    /\ t \in callbacks
    /\ \A u \in callbacks : ~Before(u, t)
    /\ callbacks' = callbacks \ {t}
    /\ notified' = notified \cup {t}
    /\ UNCHANGED <<arrival, state, counted, lease, attached, ctxDone, running,
                   wake, closed, dispatcher, claimed, routine, outcome, expiring>>

\* dispatch: inFlight.Add(1), go m.run(task), and claim again.
Launch ==
    /\ dispatcher = "notify" /\ callbacks = {} /\ claimed # NoTask
    /\ routine' = [routine EXCEPT ![claimed] = "spawned"]
    /\ claimed' = NoTask
    /\ dispatcher' = "claim"
    /\ UNCHANGED <<arrival, state, counted, lease, attached, ctxDone, running,
                   wake, closed, callbacks, notified, outcome, expiring>>

\* dispatch: nothing could be claimed, wait in the select.
Idle ==
    /\ dispatcher = "notify" /\ callbacks = {} /\ claimed = NoTask
    /\ dispatcher' = "wait"
    /\ UNCHANGED <<arrival, state, counted, lease, attached, ctxDone, running,
                   wake, closed, claimed, callbacks, notified, routine, outcome,
                   expiring>>

\* dispatch: the select picks either ready case, also after Close.
Wake ==
    /\ dispatcher = "wait" /\ wake
    /\ wake' = FALSE
    /\ dispatcher' = "claim"
    /\ UNCHANGED <<arrival, state, counted, lease, attached, ctxDone, running,
                   closed, claimed, callbacks, notified, routine, outcome,
                   expiring>>

Stop ==
    /\ dispatcher = "wait" /\ closed
    /\ dispatcher' = "exited"
    /\ UNCHANGED <<arrival, state, counted, lease, attached, ctxDone, running,
                   wake, closed, claimed, callbacks, notified, routine, outcome,
                   expiring>>

-----------------------------------------------------------------------------
(* run: the task's goroutine *)

AttachCancel(t) ==
    /\ routine[t] = "spawned"
    /\ attached' = [attached EXCEPT ![t] = state[t] = "running"]
    /\ ctxDone' = [ctxDone EXCEPT ![t] = @ \/ state[t] # "running"]
    /\ routine' = [routine EXCEPT ![t] = "running"]
    /\ UNCHANGED <<arrival, state, counted, lease, running, wake, closed,
                   dispatcher, claimed, callbacks, notified, outcome, expiring>>

\* Task.Run returns; the renewal goroutine is stopped before finish.
RunReturns(t, result) ==
    /\ routine[t] = "running"
    /\ routine' = [routine EXCEPT ![t] = "returned"]
    /\ outcome' = [outcome EXCEPT ![t] = result]
    /\ UNCHANGED <<arrival, state, counted, lease, attached, ctxDone, running,
                   wake, closed, dispatcher, claimed, callbacks, notified,
                   expiring>>

\* finish leaves an entry alone that is gone or already terminal.
Settled(t) == state[t] \in Terminal \cup {"absent"}

\* The state finish gives an entry for the error it is handed.
StateOf(result) == CASE result = "canceled" -> "canceled"
                     [] result = "ok"       -> "succeeded"
                     [] OTHER               -> "failed"

\* Mutant: the slot is released before the entry's state is looked at.
FinishFreesFirst(t, result) ==
    /\ running' = [running EXCEPT ![Pool[t]] = @ - 1]
    /\ IF Settled(t)
       THEN UNCHANGED <<state, counted, lease, attached, wake>>
       ELSE /\ attached' = [attached EXCEPT ![t] = FALSE]
            /\ counted' = [counted EXCEPT ![t] = FALSE]
            /\ lease' = [lease EXCEPT ![t] = "none"]
            /\ state' = [state EXCEPT ![t] = StateOf(result)]
            /\ Signal

\* finish: releases the pool slot once and settles the entry.
Finish(t, result) ==
    IF Settled(t)
    THEN UNCHANGED <<state, counted, lease, attached, running, wake>>
    ELSE /\ attached' = [attached EXCEPT ![t] = FALSE]
         /\ counted' = [counted EXCEPT ![t] = FALSE]
         /\ running' = [running EXCEPT ![Pool[t]] = IF counted[t] THEN @ - 1 ELSE @]
         /\ lease' = [lease EXCEPT ![t] = "none"]
         /\ state' = [state EXCEPT ![t] = StateOf(result)]
         /\ Signal

FinishReturned(t) ==
    /\ routine[t] = "returned"
    /\ routine' = [routine EXCEPT ![t] = "done"]
    /\ Finish(t, outcome[t])
    /\ UNCHANGED <<arrival, ctxDone, closed, dispatcher, claimed, callbacks,
                   notified, outcome, expiring>>

-----------------------------------------------------------------------------
(* Leases *)

\* The wall clock passes the deadline of t.
Lapse(t) ==
    /\ lease[t] = "live"
    /\ lease' = [lease EXCEPT ![t] = "lapsed"]
    /\ UNCHANGED <<arrival, state, counted, attached, ctxDone, running, wake,
                   closed, dispatcher, claimed, callbacks, notified, routine,
                   outcome, expiring>>

\* renewLease, until the run returns or the queue closes.
RenewLease(t) ==
    /\ routine[t] = "running" /\ ~closed
    /\ state[t] = "running"
    /\ lease' = [lease EXCEPT ![t] = "live"]
    /\ UNCHANGED <<arrival, state, counted, attached, ctxDone, running, wake,
                   closed, dispatcher, claimed, callbacks, notified, routine,
                   outcome, expiring>>

Lapsed == {t \in Tasks : state[t] = "running" /\ lease[t] = "lapsed"}

\* expiryLoop, under the mutex: collect and cancel.
ExpiryScan ==
    /\ expiring = {} /\ ~closed
    /\ Lapsed # {}
    /\ expiring' = Lapsed
    /\ ctxDone' = [t \in Tasks |-> ctxDone[t] \/ (t \in Lapsed /\ attached[t])]
    /\ UNCHANGED <<arrival, state, counted, lease, attached, running, wake,
                   closed, dispatcher, claimed, callbacks, notified, routine,
                   outcome>>

\* expiryLoop, outside it: finish each with DeadlineExceeded.
Expire(t) ==
    /\ t \in expiring
    /\ expiring' = expiring \ {t}
    /\ Finish(t, "error")
    /\ UNCHANGED <<arrival, ctxDone, closed, dispatcher, claimed, callbacks,
                   notified, routine, outcome>>

-----------------------------------------------------------------------------
(* What the queue's own goroutines do, without its callers. *)
QueueStep ==
    \/ Claim \/ Launch \/ Idle \/ Wake \/ Stop
    \/ ExpiryScan
    \/ \E t \in Tasks :
        AttachCancel(t) \/ FinishReturned(t) \/ Lapse(t) \/ RenewLease(t) \/ Expire(t)

\* A caller prunes a group once none of its tasks is pending any more
\* (Execution.tla checks that the service keeps to this).
Prunable(g) == \A t \in Tasks : Group[t] = g => state[t] # "pending"

QueueNext ==
    \/ QueueStep
    \/ Close
    \/ \E g \in Groups :
        Enqueue(g) \/ CancelGroup(g) \/ CancelRunningGroup(g)
        \/ (Prunable(g) /\ PruneGroup(g))
    \/ \E t \in Tasks : Notify(t) \/ \E r \in Outcomes \ {"none"} : RunReturns(t, r)

QueueSpec == QueueInit /\ [][QueueNext]_queueVars

\* The Go scheduler runs every goroutine that can run, and tasks return.
QueueFairness ==
    /\ WF_queueVars(Claim \/ Launch \/ Idle \/ Wake \/ Stop)
    /\ \A t \in Tasks :
        /\ WF_queueVars(Notify(t))
        /\ WF_queueVars(AttachCancel(t))
        /\ WF_queueVars(\E r \in Outcomes \ {"none"} : RunReturns(t, r))
        /\ WF_queueVars(FinishReturned(t))

FairQueueSpec == QueueSpec /\ QueueFairness

-----------------------------------------------------------------------------
(* Properties *)

\* Every variable has the type its declaration in queue.go gives it.
QueueTypeOK ==
    /\ arrival \in [Groups -> Nat]
    /\ state \in [Tasks -> States]
    /\ counted \in [Tasks -> BOOLEAN]
    /\ lease \in [Tasks -> {"none", "live", "lapsed"}]
    /\ attached \in [Tasks -> BOOLEAN]
    /\ ctxDone \in [Tasks -> BOOLEAN]
    /\ running \in [Pools -> Int]
    /\ wake \in BOOLEAN
    /\ closed \in BOOLEAN
    /\ dispatcher \in {"claim", "notify", "wait", "exited"}
    /\ claimed \in Tasks \cup {NoTask}
    /\ callbacks \subseteq Tasks
    /\ notified \subseteq Tasks
    /\ routine \in [Tasks -> {"none", "spawned", "running", "returned", "done"}]
    /\ outcome \in [Tasks -> Outcomes]
    /\ expiring \subseteq Tasks

\* No slot is lost and none is given back twice, however the expiry loop and the
\* task's own goroutine race to finish an entry that PruneGroup may have dropped
\* meanwhile: a pool's counter is the number of its running entries ("released
\* exactly once however it finishes"), and these never exceed the largest
\* capacity the pool reported.  (A Run that goes on after its lease lapsed has
\* given its slot back: it is not counted any more.)
SlotsAreExact ==
    \A p \in Pools :
        LET held == {t \in Tasks : Pool[t] = p /\ state[t] = "running"}
        IN  /\ running[p] = Cardinality(held)
            /\ 0 \notin Limits[p] => \E limit \in Limits[p] : Cardinality(held) <= limit

\* A task's Run is entered only after the Run of each hard dependency returned
\* nil, also when leases lapse, groups are canceled or entries are pruned.
RunAfterHardDependencies ==
    \A t \in Tasks : routine[t] # "none" =>
        \A i \in 1..Len(Dependencies[t]) :
            LET d == Dependencies[t][i]
            IN  routine[d] = "done" /\ outcome[d] = "ok"

\* A task is either run or reported canceled, never both: the callers count
\* each task's completion once on each path.
RunOrNotifyNotBoth ==
    \A t \in callbacks \cup notified : routine[t] = "none" /\ t # claimed

\* No wake-up is lost: while the dispatcher sleeps with no token in wakeCh,
\* the scan would neither start nor cancel anything, whatever smallest
\* capacity a pool may report.  (finish and Enqueue signal; prune does not.)
NoLostWakeup ==
    dispatcher = "wait" /\ ~wake =>
        \A t \in Pending :
            /\ ~Doomed(t, {})
            /\ Ready(t, {}) => \E limit \in Limits[Pool[t]] : ~HasRoom(Pool[t], limit)

\* A settled entry never changes again, except to be pruned: late results and
\* late lease expiries are ignored by finish.
SettledForever ==
    [][\A t \in Tasks : state[t] \in Terminal => state'[t] \in {state[t], "absent"}]_queueVars

\* Every enqueued task is eventually settled unless the queue closes: no task
\* waits forever although tasks return.
EveryTaskSettles ==
    \A t \in Tasks : (state[t] = "pending") ~> (state[t] \in Terminal \cup {"absent"} \/ closed)

=============================================================================

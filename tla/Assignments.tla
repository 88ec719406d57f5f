---------------------------- MODULE Assignments ----------------------------
(***************************************************************************)
(* How a step reaches a remote agent and how its result comes back:        *)
(*   internal/agent/coordinator.go and runtime_cache.go   the coordinator  *)
(*   internal/agent/broker_dispatcher.go                  its callers      *)
(*   internal/agent/worker.go, cmd/agent/main.go          the agent        *)
(*                                                                         *)
(* A job is a step or the release job of an execution.  All jobs here are  *)
(* for one backend, so for one agent id; the agent claims them with one    *)
(* loop per slot.  Calls of the agent go over HTTP: a request or a         *)
(* response may be lost, and a Complete may arrive late.  Either process   *)
(* may crash and come back.                                                *)
(*                                                                         *)
(* Time passes in ticks.  lease counts down to the deadline the            *)
(* coordinator set, silent counts up from the agent's last good renewal.   *)
(***************************************************************************)
EXTENDS Naturals, FiniteSets

CONSTANTS
    Steps,       \* jobs dispatched for steps
    Releases,    \* release jobs
    ReleaseOf,   \* the release job of a step's execution
    Slots,       \* claim loops of the agent
    TTL,         \* LeaseTTL in ticks
    NoJob,       \* a slot holds no job
    Unreliable,  \* bound: whether calls of the agent may be lost
    MaxCrashes,  \* bound: crashes of the agent
    MaxRestarts  \* bound: restarts of the control plane

Jobs == Steps \cup Releases

ASSUME AssignmentsAssumption ==
    /\ IsFiniteSet(Jobs) /\ Steps \cap Releases = {} /\ NoJob \notin Jobs
    /\ ReleaseOf \in [Steps -> Releases]
    /\ TTL \in Nat \ {0}
    /\ Unreliable \in BOOLEAN /\ MaxCrashes \in Nat /\ MaxRestarts \in Nat

VARIABLES
    \* the coordinator
    status,          \* entry.status, "absent" without an entry
    claimed,         \* entry.claimedBy is the agent
    cancelRequested, \* entry.cancelRequested
    lease,           \* ticks until entry.leaseDeadline
    err,             \* entry.err
    saved,           \* the jobs in the last snapshot saved
    \* Dispatch and Release, one call per job
    dispatch,        \* where the call is
    result,          \* what Wait returned
    \* the agent
    pc,              \* where the slot is in runAssignment
    job,             \* the job it holds
    silent,          \* ticks since renewed, at most TTL
    ctxDone,         \* jobCtx is canceled
    runErr,          \* what the executor returned
    host,            \* the executions with containers or a network on the host
    scopes,          \* executionScopes.ctxs
    \* the network, the bounds and a history
    completes,       \* Complete calls on their way
    crashes, restarts,
    succeeded,       \* history: jobs whose executor returned nil, undisturbed
    refused          \* history: releases for which Docker did not remove everything

coordinatorVars == <<status, claimed, cancelRequested, lease, err, saved>>
callerVars == <<dispatch, result>>
slotVars == <<pc, job, silent, ctxDone, runErr>>
hostVars == <<host, scopes>>
boundVars == <<crashes, restarts, succeeded, refused>>
vars == <<coordinatorVars, callerVars, slotVars, hostVars, completes, boundVars>>

Done == {"Succeeded", "Failed", "Canceled"}
Completed(j) == status[j] \in Done
Execution(j) == IF j \in Releases THEN j ELSE ReleaseOf[j]

Init ==
    /\ status = [j \in Jobs |-> "absent"]
    /\ claimed = [j \in Jobs |-> FALSE]
    /\ cancelRequested = [j \in Jobs |-> FALSE]
    /\ lease = [j \in Jobs |-> 0]
    /\ err = [j \in Jobs |-> "none"]
    /\ saved = {}
    /\ dispatch = [j \in Jobs |-> "none"]
    /\ result = [j \in Jobs |-> "none"]
    /\ pc = [s \in Slots |-> "idle"]
    /\ job = [s \in Slots |-> NoJob]
    /\ silent = [s \in Slots |-> 0]
    /\ ctxDone = [s \in Slots |-> FALSE]
    /\ runErr = [s \in Slots |-> "none"]
    /\ host = {}
    /\ scopes = {}
    /\ completes = {}
    /\ crashes = 0
    /\ restarts = 0
    /\ succeeded = {} /\ refused = {}

-----------------------------------------------------------------------------
(* Dispatch and Release *)

\* The execution service dispatches a step while its execution runs, and the
\* release job once every dispatched step has returned.  Job ids are fresh.
MaySubmit(j) ==
    IF j \in Steps
    THEN dispatch[ReleaseOf[j]] = "none"
    ELSE \A t \in Steps : ReleaseOf[t] = j => dispatch[t] \in {"none", "returned"}

Submit(j) ==
    /\ dispatch[j] = "none" /\ status[j] = "absent" /\ MaySubmit(j)
    /\ status' = [status EXCEPT ![j] = "Pending"]
    /\ dispatch' = [dispatch EXCEPT ![j] = "wait"]
    /\ UNCHANGED <<claimed, cancelRequested, lease, err, saved, result, slotVars, hostVars,
                   completes, boundVars>>

\* Wait returns because entry.done is closed.
WaitDone(j) ==
    /\ dispatch[j] = "wait" /\ Completed(j)
    /\ dispatch' = [dispatch EXCEPT ![j] = "cleanup"]
    /\ result' = [result EXCEPT ![j] = err[j]]
    /\ UNCHANGED <<coordinatorVars, slotVars, hostVars, completes, boundVars>>

\* Wait returns because its context ended, and cancels the job.  A step is
\* dispatched with a context that never ends, a release waits two minutes.
WaitTimesOut(j) ==
    /\ j \in Releases /\ dispatch[j] = "wait"
    /\ status' = [status EXCEPT ![j] = IF @ = "Pending" THEN "Canceled" ELSE @]
    /\ err' = [err EXCEPT ![j] = IF status[j] = "Pending" THEN "canceled" ELSE @]
    /\ cancelRequested' = [cancelRequested EXCEPT ![j] = @ \/ status[j] = "Running"]
    /\ dispatch' = [dispatch EXCEPT ![j] = "cleanup"]
    /\ result' = [result EXCEPT ![j] = "timeout"]
    /\ UNCHANGED <<claimed, lease, saved, slotVars, hostVars, completes, boundVars>>

Cleanup(j) ==
    /\ dispatch[j] = "cleanup"
    /\ status' = [status EXCEPT ![j] = "absent"]
    /\ claimed' = [claimed EXCEPT ![j] = FALSE]
    /\ cancelRequested' = [cancelRequested EXCEPT ![j] = FALSE]
    /\ lease' = [lease EXCEPT ![j] = 0]
    /\ err' = [err EXCEPT ![j] = "none"]
    /\ dispatch' = [dispatch EXCEPT ![j] = "returned"]
    /\ UNCHANGED <<saved, result, slotVars, hostVars, completes, boundVars>>

-----------------------------------------------------------------------------
(* The coordinator's timers, and its restart *)

\* Mutant: only leases nobody claimed lapse.
LapsedUnclaimed(j) == status[j] = "Running" /\ lease[j] = 0 /\ ~claimed[j]
Lapsed(j) == status[j] = "Running" /\ lease[j] = 0

LiveJobs(s) == {j \in Jobs : s[j] \in {"Pending", "Running"}}

\* One round of expiryLoop, which ends in persistAssignments.
ExpiryScan ==
    /\ status' = [j \in Jobs |-> IF Lapsed(j) THEN "Failed" ELSE status[j]]
    /\ err' = [j \in Jobs |-> IF Lapsed(j) THEN "lapsed" ELSE err[j]]
    /\ saved' = LiveJobs(status')
    /\ UNCHANGED <<claimed, cancelRequested, lease, callerVars, slotVars, hostVars, completes,
                   boundVars>>

\* schedulePersist's timer fires.
Persist ==
    /\ saved' = LiveJobs(status)
    /\ UNCHANGED <<status, claimed, cancelRequested, lease, err, callerVars, slotVars, hostVars,
                   completes, boundVars>>

\* The control plane dies with its executions; restoreAssignments brings back
\* the saved jobs as pending ones that nobody waits for.
ControlPlaneRestarts ==
    /\ restarts < MaxRestarts
    /\ restarts' = restarts + 1
    /\ status' = [j \in Jobs |-> IF j \in saved THEN "Pending" ELSE "absent"]
    /\ claimed' = [j \in Jobs |-> FALSE]
    /\ cancelRequested' = [j \in Jobs |-> FALSE]
    /\ lease' = [j \in Jobs |-> 0]
    /\ err' = [j \in Jobs |-> "none"]
    /\ dispatch' = [j \in Jobs |-> IF dispatch[j] = "returned" THEN "returned" ELSE "lost"]
    /\ UNCHANGED <<saved, result, slotVars, hostVars, completes, crashes, succeeded,
                   refused>>

-----------------------------------------------------------------------------
(* The agent *)

\* Mutant: a running job is handed out again.
ClaimableAny(j) == status[j] \in {"Pending", "Running"}
Claimable(j) == status[j] = "Pending"

\* Worker.Run: ClaimNext.  The coordinator hands out any pending job of the
\* agent; the agent may never see the answer.
Claim(s, j, answered) ==
    /\ pc[s] = "idle" /\ Claimable(j)
    /\ answered \/ Unreliable
    /\ status' = [status EXCEPT ![j] = "Running"]
    /\ claimed' = [claimed EXCEPT ![j] = TRUE]
    /\ lease' = [lease EXCEPT ![j] = TTL]
    /\ pc' = [pc EXCEPT ![s] = IF answered THEN "claimed" ELSE @]
    /\ job' = [job EXCEPT ![s] = IF answered THEN j ELSE @]
    /\ UNCHANGED <<cancelRequested, err, saved, callerVars, silent, ctxDone, runErr, hostVars,
                   completes, boundVars>>

\* The two state reports are sent, extendLease starts.
StartJob(s) ==
    /\ pc[s] = "claimed"
    /\ pc' = [pc EXCEPT ![s] = IF job[s] \in Releases THEN "release" ELSE "setup"]
    /\ UNCHANGED <<coordinatorVars, callerVars, job, silent, ctxDone, runErr, hostVars,
                   completes, boundVars>>

\* The executor of a step creates the execution's network on the host ...
SetupNetwork(s) ==
    /\ pc[s] = "setup"
    /\ host' = host \cup {Execution(job[s])}
    /\ pc' = [pc EXCEPT ![s] = "track"]
    /\ UNCHANGED <<coordinatorVars, callerVars, job, silent, ctxDone, runErr, scopes, completes,
                   boundVars>>

SetupFails(s) ==
    /\ pc[s] = "setup"
    /\ runErr' = [runErr EXCEPT ![s] = "error"]
    /\ pc' = [pc EXCEPT ![s] = "complete"]
    /\ UNCHANGED <<coordinatorVars, callerVars, job, silent, ctxDone, hostVars, completes,
                   boundVars>>

\* ... and records the execution before it runs the step.
Track(s) ==
    /\ pc[s] = "track"
    /\ scopes' = scopes \cup {Execution(job[s])}
    /\ pc' = [pc EXCEPT ![s] = "run"]
    /\ UNCHANGED <<coordinatorVars, callerVars, job, silent, ctxDone, runErr, host, completes,
                   boundVars>>

\* What localBackend.Run may return.  A service's container stays behind in
\* the execution's network.
StepEnds(s, outcome) ==
    /\ pc[s] = "run"
    /\ outcome = "canceled" => ctxDone[s]
    /\ runErr' = [runErr EXCEPT ![s] = outcome]
    /\ succeeded' = IF outcome = "ok" /\ ~ctxDone[s] THEN succeeded \cup {job[s]} ELSE succeeded
    /\ pc' = [pc EXCEPT ![s] = "complete"]
    /\ UNCHANGED <<coordinatorVars, callerVars, job, silent, ctxDone, hostVars, completes,
                   crashes, restarts, refused>>

\* destroyExecution: the scope first ...
EndScope(s) ==
    /\ pc[s] = "release"
    /\ scopes' = scopes \ {Execution(job[s])}
    /\ pc' = [pc EXCEPT ![s] = "remove"]
    /\ UNCHANGED <<coordinatorVars, callerVars, job, silent, ctxDone, runErr, host, completes,
                   boundVars>>

\* ... then the containers and the network, with every error of Docker dropped,
\* and the workspace, whose error is the job's.
RemoveNetwork(s, removed, cleared) ==
    /\ pc[s] = "remove"
    /\ host' = IF removed THEN host \ {job[s]} ELSE host
    /\ refused' = IF removed THEN refused ELSE refused \cup {job[s]}
    /\ runErr' = [runErr EXCEPT ![s] = IF cleared THEN "ok" ELSE "error"]
    /\ succeeded' = IF cleared /\ ~ctxDone[s] THEN succeeded \cup {job[s]} ELSE succeeded
    /\ pc' = [pc EXCEPT ![s] = "complete"]
    /\ UNCHANGED <<coordinatorVars, callerVars, job, silent, ctxDone, scopes, completes,
                   crashes, restarts>>

\* Mutant: an ended context is not looked at.
CompleteErrorIgnoringContext(s) == IF runErr[s] = "ok" THEN "ok" ELSE "error"

\* What the agent reports: its context's error counts even if the executor
\* returned nil.
CompleteError(s) == IF runErr[s] = "ok" /\ ~ctxDone[s] THEN "ok" ELSE "error"

\* The result is sent once; the loop goes on whatever becomes of the call.
SendComplete(s) ==
    /\ pc[s] = "complete"
    /\ completes' = completes \cup {[job |-> job[s], error |-> CompleteError(s)]}
    /\ pc' = [pc EXCEPT ![s] = "idle"]
    /\ job' = [job EXCEPT ![s] = NoJob]
    /\ silent' = [silent EXCEPT ![s] = 0]
    /\ ctxDone' = [ctxDone EXCEPT ![s] = FALSE]
    /\ runErr' = [runErr EXCEPT ![s] = "none"]
    /\ UNCHANGED <<coordinatorVars, callerVars, hostVars, boundVars>>

\* Mutant: a late result is taken.
AcceptedWhenOver(j) == status[j] # "absent" /\ claimed[j]

\* Complete's checks: the entry exists, is the caller's, and is not over.
Accepted(j) == status[j] # "absent" /\ claimed[j] /\ ~Completed(j)

\* Complete arrives at the coordinator.
Complete(m) ==
    LET j == m.job
        outcome == CASE cancelRequested[j] -> "canceled"
                     [] m.error # "ok" /\ ~cancelRequested[j] -> "error"
                     [] OTHER -> "ok"
    IN  /\ m \in completes
        /\ completes' = completes \ {m}
        /\ status' = [status EXCEPT ![j] =
              CASE ~Accepted(j)                            -> @
                [] Accepted(j) /\ outcome = "canceled"     -> "Canceled"
                [] Accepted(j) /\ outcome = "error"        -> "Failed"
                [] OTHER                                   -> "Succeeded"]
        /\ err' = [err EXCEPT ![j] = IF Accepted(j) THEN outcome ELSE @]
        /\ lease' = [lease EXCEPT ![j] = IF Accepted(j) THEN 0 ELSE @]
        /\ UNCHANGED <<claimed, cancelRequested, saved, callerVars, slotVars, hostVars,
                       boundVars>>

LoseComplete(m) ==
    /\ Unreliable /\ m \in completes
    /\ completes' = completes \ {m}
    /\ UNCHANGED <<coordinatorVars, callerVars, slotVars, hostVars, boundVars>>

\* extendLease runs from the start of the job; a renewal under way when the
\* executor returns may still end the job's context.
Renewing(s) ==
    pc[s] \in {"setup", "track", "run", "release", "remove", "complete"} /\ ~ctxDone[s]

\* Extend renews only a running job, and answers without error for any other
\* entry it still has.
Extends(j) == status[j] = "Running" /\ claimed[j]

\* A renewal: delivered or not, answered or not.  Without an answer the agent
\* retries until it has been silent for a whole TTL, then stops the step.
Renew(s, delivered, answered) ==
    LET j == job[s]
        good == delivered /\ answered /\ status[j] # "absent"
    IN  /\ Renewing(s)
        /\ (delivered /\ answered) \/ Unreliable
        /\ lease' = [lease EXCEPT ![j] = IF delivered /\ Extends(j) THEN TTL ELSE @]
        /\ silent' = [silent EXCEPT ![s] = IF good THEN 0 ELSE @]
        /\ ctxDone' = [ctxDone EXCEPT ![s] = IF good THEN cancelRequested[j] ELSE silent[s] = TTL]
        /\ UNCHANGED <<status, claimed, cancelRequested, err, saved, callerVars, pc, job, runErr,
                       hostVars, completes, boundVars>>

\* The agent process dies and starts again; containers outlive it.
AgentCrashes ==
    /\ crashes < MaxCrashes
    /\ crashes' = crashes + 1
    /\ pc' = [s \in Slots |-> "idle"]
    /\ job' = [s \in Slots |-> NoJob]
    /\ silent' = [s \in Slots |-> 0]
    /\ ctxDone' = [s \in Slots |-> FALSE]
    /\ runErr' = [s \in Slots |-> "none"]
    /\ scopes' = {}
    /\ UNCHANGED <<coordinatorVars, callerVars, host, completes, restarts, succeeded,
                   refused>>

-----------------------------------------------------------------------------
Tick ==
    /\ lease' = [j \in Jobs |-> IF lease[j] > 0 THEN lease[j] - 1 ELSE 0]
    /\ silent' = [s \in Slots |-> IF Renewing(s) /\ silent[s] < TTL THEN silent[s] + 1 ELSE silent[s]]
    /\ UNCHANGED <<status, claimed, cancelRequested, err, saved, callerVars, pc, job, ctxDone,
                   runErr, hostVars, completes, boundVars>>

CallerStep(j) == WaitDone(j) \/ Cleanup(j)

SlotStep(s) ==
    \/ StartJob(s) \/ SetupNetwork(s) \/ SetupFails(s) \/ Track(s) \/ EndScope(s) \/ SendComplete(s)
    \/ \E removed, cleared \in BOOLEAN : RemoveNetwork(s, removed, cleared)
    \/ \E outcome \in {"ok", "error", "canceled"} : StepEnds(s, outcome)

ClaimStep(s) == \E j \in Jobs, answered \in BOOLEAN : Claim(s, j, answered)

RenewStep(s) == \E delivered, answered \in BOOLEAN : Renew(s, delivered, answered)

Next ==
    \/ \E j \in Jobs : Submit(j) \/ CallerStep(j) \/ WaitTimesOut(j)
    \/ \E s \in Slots : SlotStep(s) \/ ClaimStep(s) \/ RenewStep(s)
    \/ \E m \in completes : Complete(m) \/ LoseComplete(m)
    \/ ExpiryScan \/ Persist \/ Tick
    \/ AgentCrashes \/ ControlPlaneRestarts

Spec == Init /\ [][Next]_vars

\* Goroutines are scheduled, executors end, agents poll and time passes; no
\* call has to arrive, and nothing has to be dispatched, persisted or to crash.
FairSpec ==
    /\ Spec
    /\ WF_vars(ExpiryScan) /\ WF_vars(Tick)
    /\ \A j \in Jobs : WF_vars(CallerStep(j))
    /\ \A s \in Slots : WF_vars(SlotStep(s)) /\ WF_vars(ClaimStep(s))

-----------------------------------------------------------------------------
(* Properties *)

\* Every variable has the type the code gives it.
TypeOK ==
    /\ status \in [Jobs -> {"absent", "Pending", "Running"} \cup Done]
    /\ claimed \in [Jobs -> BOOLEAN] /\ cancelRequested \in [Jobs -> BOOLEAN]
    /\ lease \in [Jobs -> 0..TTL]
    /\ err \in [Jobs -> {"none", "ok", "error", "canceled", "lapsed"}]
    /\ saved \subseteq Jobs
    /\ dispatch \in [Jobs -> {"none", "wait", "cleanup", "returned", "lost"}]
    /\ result \in [Jobs -> {"none", "ok", "error", "canceled", "lapsed", "timeout"}]
    /\ pc \in [Slots -> {"idle", "claimed", "setup", "track", "run", "release", "remove", "complete"}]
    /\ job \in [Slots -> Jobs \cup {NoJob}]
    /\ silent \in [Slots -> 0..TTL] /\ ctxDone \in [Slots -> BOOLEAN]
    /\ runErr \in [Slots -> {"none", "ok", "error", "canceled"}]
    /\ host \subseteq Releases /\ scopes \subseteq Releases
    /\ completes \subseteq [job : Jobs, error : {"ok", "error"}]
    /\ crashes \in Nat /\ restarts \in Nat
    /\ succeeded \subseteq Jobs /\ refused \subseteq Releases

\* While the control plane stays up, no job is run by two slots at once, nor
\* run again while its result is on its way: lost answers, lapsed leases and
\* agent crashes never hand a job out a second time.
RunByOne ==
    restarts = 0 => \A j \in Jobs :
        Cardinality({s \in Slots : job[s] = j}) + Cardinality({m \in completes : m.job = j}) <= 1

\* Dispatch reports success only for a job that an agent ran to the end
\* without losing its context; and when a release is reported successful while
\* the control plane stayed up, the host keeps something of its execution
\* ("remove what it left on this host") only if Docker did not remove it, which
\* RemoveExecutionNetwork does not report, or if a step of it was given up by
\* its lease or its caller, and so may have started late.
SuccessIsEarned ==
    /\ \A j \in Jobs : result[j] = "ok" => j \in succeeded
    /\ \A r \in Releases : (restarts = 0 /\ result[r] = "ok" /\ r \in host \ refused) =>
          \E j \in Steps : ReleaseOf[j] = r /\ result[j] \in {"lapsed", "timeout"}

\* The result of a job is decided once: neither a late Complete nor the expiry
\* loop changes it, and its done channel is closed only once.
ResultFinal ==
    [][restarts' = restarts =>
        \A j \in Jobs : Completed(j) => status'[j] \in {status[j], "absent"}]_vars

\* Every call of Dispatch and Release returns, whatever the agent loses, and
\* every job leaves the coordinator again ("dropped from the coordinator once
\* done"), unless the control plane that made the call goes down.
DispatchReturns ==
    \A j \in Jobs :
        /\ (dispatch[j] = "wait") ~> (dispatch[j] = "returned" \/ restarts > 0)
        /\ (status[j] # "absent") ~> (status[j] = "absent" \/ restarts > 0)
=============================================================================

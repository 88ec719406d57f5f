------------------------- MODULE AssignmentsProofs -------------------------
(***************************************************************************)
(* Machine-checked proofs about Assignments.tla, for every set of steps,   *)
(* releases and slots, every TTL and any number of crashes and restarts.   *)
(***************************************************************************)
EXTENDS Assignments, FiniteSetTheorems, TLAPS

-----------------------------------------------------------------------------
(* Type correctness *)

\* The type of what the coordinator and its callers keep ...
CallerTypes ==
    /\ status \in [Jobs -> {"absent", "Pending", "Running"} \cup Done]
    /\ claimed \in [Jobs -> BOOLEAN] /\ cancelRequested \in [Jobs -> BOOLEAN]
    /\ lease \in [Jobs -> 0..TTL]
    /\ err \in [Jobs -> {"none", "ok", "error", "canceled", "lapsed"}]
    /\ saved \subseteq Jobs
    /\ dispatch \in [Jobs -> {"none", "wait", "cleanup", "returned", "lost"}]
    /\ result \in [Jobs -> {"none", "ok", "error", "canceled", "lapsed", "timeout"}]

\* ... and of what the agent and the network hold; a slot that is not idle
\* holds a job, of the kind its place is for.
StepPlaces == {"claimed", "setup", "track", "run", "complete"}
ReleasePlaces == {"claimed", "release", "remove", "complete"}

SlotHolds(s) ==
    \/ pc[s] = "idle" /\ job[s] = NoJob
    \/ pc[s] \in StepPlaces /\ job[s] \in Steps
    \/ pc[s] \in ReleasePlaces /\ job[s] \in Releases

AgentTypes ==
    /\ pc \in [Slots -> {"idle", "claimed", "setup", "track", "run", "release", "remove", "complete"}]
    /\ job \in [Slots -> Jobs \cup {NoJob}]
    /\ silent \in [Slots -> 0..TTL] /\ ctxDone \in [Slots -> BOOLEAN]
    /\ runErr \in [Slots -> {"none", "ok", "error", "canceled"}]
    /\ host \subseteq Releases /\ scopes \subseteq Releases
    /\ completes \subseteq [job : Jobs, error : {"ok", "error"}]
    /\ crashes \in Nat /\ restarts \in Nat
    /\ succeeded \subseteq Jobs /\ refused \subseteq Releases
    /\ \A s \in Slots : SlotHolds(s)

Typed == CallerTypes /\ AgentTypes

\* The coordinator's half of every step.
LEMMA CallerTypesStep == Typed /\ [Next]_vars => CallerTypes'
<1> SUFFICES ASSUME Typed, [Next]_vars PROVE CallerTypes'
  OBVIOUS
<1> USE DEF Typed, CallerTypes, AgentTypes, SlotHolds, Done
<1>0. TTL \in Nat \ {0} /\ NoJob \notin Jobs /\ Steps \subseteq Jobs /\ Releases \subseteq Jobs
  BY AssignmentsAssumption DEF AssignmentsAssumption, Jobs
<1>1. ASSUME NEW j \in Jobs, Submit(j) PROVE CallerTypes'
  BY <1>1 DEF Submit
<1>2. ASSUME NEW j \in Jobs, WaitDone(j) PROVE CallerTypes'
  BY <1>2 DEF WaitDone, coordinatorVars
<1>3. ASSUME NEW j \in Jobs, Cleanup(j) PROVE CallerTypes'
  BY <1>0, <1>3 DEF Cleanup
<1>4. ASSUME NEW j \in Jobs, WaitTimesOut(j) PROVE CallerTypes'
  BY <1>4 DEF WaitTimesOut
<1>5. ASSUME NEW s \in Slots, NEW j \in Jobs, NEW answered \in BOOLEAN, Claim(s, j, answered)
      PROVE  CallerTypes'
  BY <1>0, <1>5 DEF Claim, callerVars
<1>6. ASSUME NEW s \in Slots, SlotStep(s) PROVE CallerTypes'
  BY <1>6 DEF SlotStep, StartJob, SetupNetwork, SetupFails, Track, EndScope, RemoveNetwork, SendComplete,
              StepEnds, coordinatorVars, callerVars
<1>7. ASSUME NEW s \in Slots, NEW delivered \in BOOLEAN, NEW answered \in BOOLEAN,
             Renew(s, delivered, answered)
      PROVE  CallerTypes'
  <2>1. job[s] \in Jobs
    BY <1>0, <1>7 DEF Renew, Renewing
  <2>2. lease' \in [Jobs -> 0..TTL]
    BY <1>0, <1>7, <2>1 DEF Renew
  <2> QED BY <1>7, <2>2 DEF Renew, callerVars
<1>8. ASSUME NEW m \in completes, Complete(m) PROVE CallerTypes'
  <2>1. m.job \in Jobs
    OBVIOUS
  <2>2. lease' \in [Jobs -> 0..TTL]
    BY <1>0, <1>8, <2>1 DEF Complete
  <2>3. err' \in [Jobs -> {"none", "ok", "error", "canceled", "lapsed"}]
    BY <1>8, <2>1 DEF Complete
  <2>4. status' \in [Jobs -> {"absent", "Pending", "Running"} \cup Done]
    BY <1>8, <2>1 DEF Complete
  <2> QED BY <1>8, <2>2, <2>3, <2>4 DEF Complete, callerVars
<1>9. ASSUME NEW m \in completes, LoseComplete(m) PROVE CallerTypes'
  BY <1>9 DEF LoseComplete, coordinatorVars, callerVars
<1>10. CASE ExpiryScan
  BY <1>10 DEF ExpiryScan, LiveJobs, callerVars
<1>11. CASE Persist
  BY <1>11 DEF Persist, LiveJobs, callerVars
<1>12. CASE Tick
  <2>1. lease' \in [Jobs -> 0..TTL]
    BY <1>0, <1>12 DEF Tick
  <2> QED BY <1>12, <2>1 DEF Tick, callerVars
<1>13. CASE AgentCrashes
  BY <1>13 DEF AgentCrashes, coordinatorVars, callerVars
<1>14. CASE ControlPlaneRestarts
  BY <1>0, <1>14 DEF ControlPlaneRestarts
<1>15. CASE UNCHANGED vars
  BY <1>15 DEF vars, coordinatorVars, callerVars
<1> QED
  BY <1>1, <1>2, <1>3, <1>4, <1>5, <1>6, <1>7, <1>8, <1>9, <1>10, <1>11, <1>12, <1>13, <1>14, <1>15
  DEF Next, CallerStep, ClaimStep, RenewStep

\* The agent's half of every step.
LEMMA AgentTypesStep == Typed /\ [Next]_vars => AgentTypes'
<1> SUFFICES ASSUME Typed, [Next]_vars PROVE AgentTypes'
  OBVIOUS
<1> USE DEF Typed, AgentTypes
<1>0. /\ TTL \in Nat \ {0} /\ NoJob \notin Jobs /\ Steps \cap Releases = {}
      /\ Jobs = Steps \cup Releases
      /\ \A j \in Jobs : Execution(j) \in Releases
  BY AssignmentsAssumption DEF AssignmentsAssumption, Jobs, Execution
<1>1. ASSUME NEW j \in Jobs, Submit(j) \/ WaitDone(j) \/ Cleanup(j) \/ WaitTimesOut(j) PROVE AgentTypes'
  BY <1>1 DEF Submit, WaitDone, Cleanup, WaitTimesOut, slotVars, hostVars, boundVars, SlotHolds
<1>2. ASSUME NEW s \in Slots, NEW j \in Jobs, NEW answered \in BOOLEAN, Claim(s, j, answered)
      PROVE  AgentTypes'
  BY <1>0, <1>2 DEF Claim, hostVars, boundVars, SlotHolds, StepPlaces, ReleasePlaces
<1>3. ASSUME NEW s \in Slots, StartJob(s) PROVE AgentTypes'
  BY <1>0, <1>3 DEF StartJob, hostVars, boundVars, SlotHolds, StepPlaces, ReleasePlaces
<1>4. ASSUME NEW s \in Slots, SetupNetwork(s) PROVE AgentTypes'
  BY <1>0, <1>4 DEF SetupNetwork, boundVars, SlotHolds, StepPlaces, ReleasePlaces
<1>5. ASSUME NEW s \in Slots, SetupFails(s) PROVE AgentTypes'
  BY <1>0, <1>5 DEF SetupFails, hostVars, boundVars, SlotHolds, StepPlaces, ReleasePlaces
<1>6. ASSUME NEW s \in Slots, Track(s) PROVE AgentTypes'
  BY <1>0, <1>6 DEF Track, boundVars, SlotHolds, StepPlaces, ReleasePlaces
<1>7. ASSUME NEW s \in Slots, EndScope(s) PROVE AgentTypes'
  BY <1>0, <1>7 DEF EndScope, boundVars, SlotHolds, StepPlaces, ReleasePlaces
<1>8. ASSUME NEW s \in Slots, NEW removed \in BOOLEAN, NEW cleared \in BOOLEAN,
             RemoveNetwork(s, removed, cleared)
      PROVE  AgentTypes'
  BY <1>0, <1>8 DEF RemoveNetwork, SlotHolds, StepPlaces, ReleasePlaces
<1>9. ASSUME NEW s \in Slots, SendComplete(s) PROVE AgentTypes'
  <2>1. job[s] \in Jobs
    BY <1>0, <1>9 DEF SendComplete, SlotHolds, StepPlaces, ReleasePlaces
  <2>2. completes' \subseteq [job : Jobs, error : {"ok", "error"}]
    BY <1>9, <2>1 DEF SendComplete, CompleteError
  <2>3. \A t \in Slots : SlotHolds(t)'
    BY <1>9 DEF SendComplete, SlotHolds
  <2> QED BY <1>0, <1>9, <2>2, <2>3 DEF SendComplete, hostVars, boundVars
<1>10. ASSUME NEW s \in Slots, NEW outcome \in {"ok", "error", "canceled"}, StepEnds(s, outcome)
       PROVE  AgentTypes'
  BY <1>0, <1>10 DEF StepEnds, hostVars, SlotHolds, StepPlaces, ReleasePlaces
<1>11. ASSUME NEW s \in Slots, NEW delivered \in BOOLEAN, NEW answered \in BOOLEAN,
              Renew(s, delivered, answered)
       PROVE  AgentTypes'
  <2>1. job[s] \in Jobs
    BY <1>0, <1>11 DEF Renew, Renewing, SlotHolds
  <2>2. silent' \in [Slots -> 0..TTL]
    BY <1>0, <1>11, <2>1 DEF Renew
  <2>3. PICK b \in BOOLEAN : ctxDone' = [ctxDone EXCEPT ![s] = b]
    <3>1. cancelRequested[job[s]] \in BOOLEAN
      BY <2>1 DEF CallerTypes
    <3>2. (silent[s] = TTL) \in BOOLEAN
      OBVIOUS
    <3> QED BY <1>11, <3>1, <3>2, Zenon DEF Renew
  <2>4. ctxDone' \in [Slots -> BOOLEAN]
    BY <2>3
  <2> QED BY <1>11, <2>2, <2>4 DEF Renew, hostVars, boundVars, SlotHolds
<1>12. ASSUME NEW m \in completes, Complete(m) \/ LoseComplete(m) PROVE AgentTypes'
  BY <1>12 DEF Complete, LoseComplete, slotVars, hostVars, boundVars, SlotHolds
<1>13. CASE ExpiryScan \/ Persist
  BY <1>13 DEF ExpiryScan, Persist, slotVars, hostVars, boundVars, SlotHolds
<1>14. CASE Tick
  <2>1. silent' \in [Slots -> 0..TTL]
    BY <1>0, <1>14 DEF Tick
  <2> QED BY <1>14, <2>1 DEF Tick, hostVars, boundVars, SlotHolds
<1>15. CASE AgentCrashes
  BY <1>0, <1>15 DEF AgentCrashes, SlotHolds
<1>16. CASE ControlPlaneRestarts
  BY <1>16 DEF ControlPlaneRestarts, slotVars, hostVars, SlotHolds
<1>17. CASE UNCHANGED vars
  BY <1>17 DEF vars, slotVars, hostVars, boundVars, SlotHolds
<1> QED
  BY <1>1, <1>2, <1>3, <1>4, <1>5, <1>6, <1>7, <1>8, <1>9, <1>10, <1>11, <1>12, <1>13, <1>14, <1>15,
     <1>16, <1>17
  DEF Next, CallerStep, SlotStep, ClaimStep, RenewStep

\* Every variable keeps its type, and a slot its place, in every behaviour.
LEMMA TypedAlways == Spec => []Typed
<1>1. Init => CallerTypes
  BY AssignmentsAssumption DEF AssignmentsAssumption, Init, CallerTypes
<1>2. Init => AgentTypes
  BY AssignmentsAssumption DEF AssignmentsAssumption, Init, AgentTypes, SlotHolds
<1> QED BY <1>1, <1>2, CallerTypesStep, AgentTypesStep, PTL DEF Spec, Typed

\* Type correctness of the coordinator, its callers and the agent.
THEOREM AssignmentsTypeCorrect == Spec => []TypeOK
<1>1. Typed => TypeOK
  BY DEF Typed, CallerTypes, AgentTypes, TypeOK
<1> QED BY <1>1, TypedAlways, PTL

-----------------------------------------------------------------------------
(* A result is decided once *)

\* No step but a restart changes the status of a job that is over, except to
\* drop the job: ResultFinal, whatever calls are late, lost or repeated.
THEOREM ResultDecidedOnce == Spec => ResultFinal
<1>1. Typed /\ [Next]_vars =>
        [restarts' = restarts => \A j \in Jobs : Completed(j) => status'[j] \in {status[j], "absent"}]_vars
  <2> SUFFICES ASSUME Typed, Next, restarts' = restarts, NEW j \in Jobs, Completed(j)
               PROVE  status'[j] \in {status[j], "absent"}
    OBVIOUS
  <2> USE DEF Completed, Done
  <2>0. status \in [Jobs -> {"absent", "Pending", "Running"} \cup Done] /\ restarts \in Nat
    BY DEF Typed, CallerTypes, AgentTypes
  <2>1. ASSUME NEW i \in Jobs, Submit(i) \/ WaitDone(i) \/ Cleanup(i) \/ WaitTimesOut(i)
        PROVE  status'[j] \in {status[j], "absent"}
    BY <2>0, <2>1 DEF Submit, WaitDone, Cleanup, WaitTimesOut, coordinatorVars
  <2>2. ASSUME NEW s \in Slots, SlotStep(s) \/ RenewStep(s) PROVE status'[j] = status[j]
    BY <2>2 DEF SlotStep, RenewStep, StartJob, SetupNetwork, SetupFails, Track, EndScope, RemoveNetwork,
                SendComplete, StepEnds, Renew, coordinatorVars
  <2>3. ASSUME NEW s \in Slots, NEW i \in Jobs, NEW answered \in BOOLEAN, Claim(s, i, answered)
        PROVE  status'[j] = status[j]
    BY <2>0, <2>3 DEF Claim, Claimable
  <2>4. ASSUME NEW m \in completes, Complete(m) PROVE status'[j] = status[j]
    <3>1. CASE m.job = j
      BY <2>0, <2>4, <3>1 DEF Complete, Accepted
    <3>2. CASE m.job # j
      BY <2>0, <2>4, <3>2 DEF Complete
    <3> QED BY <3>1, <3>2
  <2>5. ASSUME NEW m \in completes, LoseComplete(m) PROVE status'[j] = status[j]
    BY <2>5 DEF LoseComplete, coordinatorVars
  <2>6. CASE ExpiryScan
    BY <2>0, <2>6 DEF ExpiryScan, Lapsed
  <2>7. CASE Persist \/ Tick \/ AgentCrashes
    BY <2>7 DEF Persist, Tick, AgentCrashes, coordinatorVars
  <2>8. CASE ControlPlaneRestarts
    BY <2>0, <2>8 DEF ControlPlaneRestarts
  <2> QED BY <2>1, <2>2, <2>3, <2>4, <2>5, <2>6, <2>7, <2>8 DEF Next, CallerStep, ClaimStep
<1> QED BY <1>1, TypedAlways, PTL DEF Spec, ResultFinal

-----------------------------------------------------------------------------
(* A job is handed out once *)

\* No slot holds job j and no result of it is on its way.
NotOut(j) == (\A s \in Slots : job[s] # j) /\ (\A m \in completes : m.job # j)

\* While the control plane stays up, a job is with one slot or on its way back
\* once; with neither while it has not been dispatched or is pending, which it
\* never is again after Wait has returned.
OutOnce(j) ==
    /\ dispatch[j] = "none" => status[j] = "absent"
    /\ dispatch[j] \in {"cleanup", "returned"} => status[j] # "Pending"
    /\ dispatch[j] = "none" \/ status[j] = "Pending" => NotOut(j)
    /\ \A s, t \in Slots : job[s] = j /\ job[t] = j => s = t
    /\ \A m, n \in completes : m.job = j /\ n.job = j => m = n
    /\ \A s \in Slots, m \in completes : ~(job[s] = j /\ m.job = j)

HandedOutOnce == restarts = 0 => \A j \in Jobs : OutOnce(j)

\* A successful run leaves its trace in succeeded before anything reports it,
\* and errors are recorded exactly for jobs that are over.
Earned ==
    /\ \A s \in Slots : runErr[s] # "none" => pc[s] = "complete"
    /\ \A s \in Slots : runErr[s] = "ok" /\ ~ctxDone[s] => job[s] \in succeeded
    /\ \A m \in completes : m.error = "ok" => m.job \in succeeded
    /\ \A j \in Jobs : err[j] = "ok" \/ result[j] = "ok" => j \in succeeded
    /\ \A j \in Jobs : err[j] # "none" <=> status[j] \in Done

\* Nobody cancels a step, so a step that has returned was reported by the agent
\* or given up by its lease.
StepsNotCanceled ==
    \A t \in Steps : ~cancelRequested[t] /\ err[t] # "canceled" /\ result[t] \notin {"canceled", "timeout"}

\* While the control plane stays up, Wait has returned exactly where there is a
\* result, a job whose result the agent reported is out no more, and a release
\* is submitted only once the steps of its execution have returned.
Returned ==
    restarts = 0 =>
        /\ \A j \in Jobs : result[j] # "none" <=> dispatch[j] \in {"cleanup", "returned"}
        /\ \A j \in Jobs : {err[j], result[j]} \cap {"ok", "error"} # {} => NotOut(j)
        /\ \A t \in Steps : dispatch[ReleaseOf[t]] # "none" => dispatch[t] \in {"none", "returned"}

\* The agent has been through the release r.
Removed(r) ==
    \/ \E s \in Slots : job[s] = r /\ runErr[s] = "ok"
    \/ \E m \in completes : m.job = r /\ m.error = "ok"
    \/ err[r] = "ok" \/ result[r] = "ok"

\* What Docker removed is put back only by a step that was given up by its lease.
RemovedForGood ==
    restarts = 0 =>
        \A r \in Releases : Removed(r) /\ r \in host \ refused =>
            \E t \in Steps : ReleaseOf[t] = r /\ result[t] = "lapsed"

\* Steps of a slot other than SendComplete touch neither job nor completes nor
\* anything of the coordinator or its callers.
SlotWorks(s) ==
    \/ StartJob(s) \/ SetupNetwork(s) \/ SetupFails(s) \/ Track(s) \/ EndScope(s)
    \/ \E removed, cleared \in BOOLEAN : RemoveNetwork(s, removed, cleared)
    \/ \E outcome \in {"ok", "error", "canceled"} : StepEnds(s, outcome)

LEMMA SlotWorksFrame ==
    ASSUME NEW s \in Slots, SlotWorks(s)
    PROVE  UNCHANGED <<status, claimed, cancelRequested, lease, err, saved, dispatch, result, job, silent,
                       ctxDone, completes, crashes, restarts>>
  BY DEF SlotWorks, StartJob, SetupNetwork, SetupFails, Track, EndScope, RemoveNetwork, StepEnds,
         coordinatorVars, callerVars, boundVars

\* HandedOutOnce is inductive, relative to the types.
LEMMA HandedOutOnceStep == Typed /\ HandedOutOnce /\ [Next]_vars => HandedOutOnce'
<1> SUFFICES ASSUME Typed, HandedOutOnce, [Next]_vars, restarts' = 0, NEW j \in Jobs
             PROVE  OutOnce(j)'
  BY DEF HandedOutOnce
<1>0. /\ restarts \in Nat /\ NoJob \notin Jobs
      /\ status \in [Jobs -> {"absent", "Pending", "Running"} \cup Done]
      /\ dispatch \in [Jobs -> {"none", "wait", "cleanup", "returned", "lost"}]
      /\ job \in [Slots -> Jobs \cup {NoJob}]
      /\ completes \subseteq [job : Jobs, error : {"ok", "error"}]
  BY AssignmentsAssumption DEF AssignmentsAssumption, Typed, CallerTypes, AgentTypes
<1>1. restarts = 0 /\ UNCHANGED restarts
  BY <1>0 DEF Next, CallerStep, SlotStep, ClaimStep, RenewStep, Submit, WaitDone, Cleanup, WaitTimesOut,
              StartJob, SetupNetwork, SetupFails, Track, EndScope, RemoveNetwork, SendComplete, StepEnds,
              Claim, Renew, Complete, LoseComplete, ExpiryScan, Persist, Tick, AgentCrashes,
              ControlPlaneRestarts, vars, boundVars
<1>2. OutOnce(j)
  BY <1>1 DEF HandedOutOnce
<1> USE DEF OutOnce, NotOut
<1>3. ASSUME NEW i \in Jobs, Submit(i) PROVE OutOnce(j)'
  BY <1>0, <1>2, <1>3 DEF Submit, slotVars
<1>4. ASSUME NEW i \in Jobs, WaitDone(i) PROVE OutOnce(j)'
  BY <1>0, <1>2, <1>4 DEF WaitDone, Completed, Done, coordinatorVars, slotVars
<1>5. ASSUME NEW i \in Jobs, Cleanup(i) \/ WaitTimesOut(i) PROVE OutOnce(j)'
  BY <1>0, <1>2, <1>5 DEF Cleanup, WaitTimesOut, slotVars
<1>6. ASSUME NEW s \in Slots, NEW i \in Jobs, NEW answered \in BOOLEAN, Claim(s, i, answered)
      PROVE  OutOnce(j)'
  <2>1. pc[s] = "idle" /\ job[s] = NoJob
    BY <1>6 DEF Claim, Typed, AgentTypes, SlotHolds, StepPlaces, ReleasePlaces
  <2>2. CASE i = j
    BY <1>0, <1>2, <1>6, <2>1, <2>2 DEF Claim, Claimable, callerVars
  <2>3. CASE i # j
    BY <1>0, <1>2, <1>6, <2>1, <2>3 DEF Claim, Claimable, callerVars
  <2> QED BY <2>2, <2>3
<1>7. ASSUME NEW s \in Slots, SlotWorks(s) PROVE OutOnce(j)'
  BY <1>2, <1>7, SlotWorksFrame
<1>8. ASSUME NEW s \in Slots, SendComplete(s) PROVE OutOnce(j)'
  BY <1>0, <1>2, <1>8 DEF SendComplete, coordinatorVars, callerVars
<1>9. ASSUME NEW s \in Slots, RenewStep(s) PROVE OutOnce(j)'
  BY <1>2, <1>9 DEF RenewStep, Renew, callerVars
<1>10. ASSUME NEW m \in completes, Complete(m) PROVE OutOnce(j)'
  <2>1. status'[j] = "Pending" => status[j] = "Pending"
    BY <1>0, <1>10 DEF Complete
  <2>2. status[j] = "absent" => status'[j] = "absent"
    BY <1>0, <1>10 DEF Complete, Accepted
  <2> QED BY <1>0, <1>2, <1>10, <2>1, <2>2 DEF Complete, callerVars, slotVars
<1>11. ASSUME NEW m \in completes, LoseComplete(m) PROVE OutOnce(j)'
  BY <1>2, <1>11 DEF LoseComplete, coordinatorVars, callerVars, slotVars
<1>12. CASE ExpiryScan
  BY <1>0, <1>2, <1>12 DEF ExpiryScan, Lapsed, callerVars, slotVars
<1>13. CASE Persist \/ Tick
  BY <1>2, <1>13 DEF Persist, Tick, callerVars, slotVars
<1>14. CASE AgentCrashes
  BY <1>0, <1>2, <1>14 DEF AgentCrashes, coordinatorVars, callerVars
<1>15. CASE ControlPlaneRestarts
  BY <1>0, <1>1, <1>15 DEF ControlPlaneRestarts
<1>16. CASE UNCHANGED vars
  BY <1>2, <1>16 DEF vars, coordinatorVars, callerVars, slotVars
<1> QED
  BY <1>3, <1>4, <1>5, <1>6, <1>7, <1>8, <1>9, <1>10, <1>11, <1>12, <1>13, <1>14, <1>15, <1>16
  DEF Next, CallerStep, SlotStep, SlotWorks, ClaimStep

LEMMA HandedOutOnceAlways == Spec => []HandedOutOnce
<1>1. Init => HandedOutOnce
  BY AssignmentsAssumption DEF AssignmentsAssumption, Init, HandedOutOnce, OutOnce, NotOut
<1> QED BY <1>1, HandedOutOnceStep, TypedAlways, PTL DEF Spec

\* A set any two members of which are equal has at most one.
LEMMA AtMostOne ==
    ASSUME NEW S, \A x, y \in S : x = y
    PROVE  Cardinality(S) \in {0, 1} /\ (Cardinality(S) = 0 => S = {})
<1>1. CASE S = {}
  BY <1>1, FS_EmptySet
<1>2. CASE S # {}
  <2>1. PICK x : S = {x}
    BY <1>2
  <2> QED BY <2>1, FS_Singleton
<1> QED BY <1>1, <1>2

\* RunByOne for any number of slots: while the control plane stays up no job is
\* with two slots, or with a slot and on its way back, or on its way back twice.
THEOREM JobRunByOne == Spec => []RunByOne
<1>1. Typed /\ HandedOutOnce => RunByOne
  <2> SUFFICES ASSUME Typed, HandedOutOnce, restarts = 0, NEW j \in Jobs
               PROVE  Cardinality({s \in Slots : job[s] = j}) + Cardinality({m \in completes : m.job = j}) <= 1
    BY DEF RunByOne
  <2>1. OutOnce(j)
    BY DEF HandedOutOnce
  <2> DEFINE H == {s \in Slots : job[s] = j}
             M == {m \in completes : m.job = j}
  <2>2. Cardinality(H) \in {0, 1} /\ (Cardinality(H) = 0 => H = {})
    BY <2>1, AtMostOne DEF OutOnce
  <2>3. Cardinality(M) \in {0, 1} /\ (Cardinality(M) = 0 => M = {})
    BY <2>1, AtMostOne DEF OutOnce
  <2>4. H = {} \/ M = {}
    BY <2>1 DEF OutOnce
  <2>5. H = {} => Cardinality(H) = 0
    BY FS_EmptySet
  <2>6. M = {} => Cardinality(M) = 0
    BY FS_EmptySet
  <2> HIDE DEF H, M
  <2>7. Cardinality(H) + Cardinality(M) <= 1
    BY <2>2, <2>3, <2>4, <2>5, <2>6
  <2> QED BY <2>7 DEF H, M
<1> QED BY <1>1, TypedAlways, HandedOutOnceAlways, PTL

-----------------------------------------------------------------------------
(* Success is earned *)

\* Earned is inductive, restarts and crashes included.
LEMMA EarnedStep == Typed /\ Earned /\ [Next]_vars => Earned'
<1> SUFFICES ASSUME Typed, Earned, [Next]_vars PROVE Earned'
  OBVIOUS
<1>0. NoJob \notin Jobs /\ Jobs = Steps \cup Releases
  BY AssignmentsAssumption DEF AssignmentsAssumption, Jobs
<1> USE DEF Typed, CallerTypes, AgentTypes, Earned, Done
<1>1. ASSUME NEW j \in Jobs, Submit(j) PROVE Earned'
  BY <1>1 DEF Submit, slotVars, boundVars
<1>2. ASSUME NEW j \in Jobs, WaitDone(j) PROVE Earned'
  BY <1>2 DEF WaitDone, coordinatorVars, slotVars, boundVars
<1>3. ASSUME NEW j \in Jobs, Cleanup(j) PROVE Earned'
  BY <1>3 DEF Cleanup, slotVars, boundVars
<1>4. ASSUME NEW j \in Jobs, WaitTimesOut(j) PROVE Earned'
  BY <1>4 DEF WaitTimesOut, slotVars, boundVars
<1>5. ASSUME NEW s \in Slots, NEW j \in Jobs, NEW answered \in BOOLEAN, Claim(s, j, answered)
      PROVE  Earned'
  BY <1>5 DEF Claim, Claimable, callerVars, boundVars
<1>6. ASSUME NEW s \in Slots, StartJob(s) \/ SetupNetwork(s) \/ SetupFails(s) \/ Track(s) \/ EndScope(s)
      PROVE  Earned'
  BY <1>6 DEF StartJob, SetupNetwork, SetupFails, Track, EndScope, coordinatorVars, callerVars, boundVars
<1>7. ASSUME NEW s \in Slots, NEW removed \in BOOLEAN, NEW cleared \in BOOLEAN,
             RemoveNetwork(s, removed, cleared)
      PROVE  Earned'
  BY <1>7 DEF RemoveNetwork, coordinatorVars, callerVars
<1>8. ASSUME NEW s \in Slots, NEW outcome \in {"ok", "error", "canceled"}, StepEnds(s, outcome)
      PROVE  Earned'
  BY <1>8 DEF StepEnds, coordinatorVars, callerVars
<1>9. ASSUME NEW s \in Slots, SendComplete(s) PROVE Earned'
  BY <1>9 DEF SendComplete, CompleteError, coordinatorVars, callerVars, boundVars
<1>10. ASSUME NEW s \in Slots, NEW delivered \in BOOLEAN, NEW answered \in BOOLEAN,
              Renew(s, delivered, answered)
       PROVE  Earned'
  <2>1. \A t \in Slots : ctxDone[t] => ctxDone'[t]
    BY <1>10 DEF Renew, Renewing
  <2> QED BY <1>10, <2>1 DEF Renew, callerVars, boundVars
<1>11. ASSUME NEW m \in completes, Complete(m) PROVE Earned'
  <2>1. m.job \in Jobs
    OBVIOUS
  <2>2. \A j \in Jobs : err'[j] = "ok" => err[j] = "ok" \/ (j = m.job /\ m.error = "ok")
    BY <1>11, <2>1 DEF Complete
  <2>3. \A j \in Jobs : err'[j] # "none" <=> status'[j] \in Done
    <3> SUFFICES ASSUME NEW j \in Jobs PROVE err'[j] # "none" <=> status'[j] \in Done
      OBVIOUS
    <3>1. CASE j # m.job \/ ~Accepted(j)
      BY <1>11, <2>1, <3>1 DEF Complete
    <3>2. CASE j = m.job /\ Accepted(j)
      BY <1>11, <2>1, <3>2 DEF Complete
    <3> QED BY <3>1, <3>2
  <2> QED BY <1>11, <2>2, <2>3 DEF Complete, callerVars, slotVars, boundVars
<1>12. ASSUME NEW m \in completes, LoseComplete(m) PROVE Earned'
  BY <1>12 DEF LoseComplete, coordinatorVars, callerVars, slotVars, boundVars
<1>13. CASE ExpiryScan
  BY <1>13 DEF ExpiryScan, Lapsed, callerVars, slotVars, boundVars
<1>14. CASE Persist \/ Tick
  BY <1>14 DEF Persist, Tick, callerVars, slotVars, boundVars
<1>15. CASE AgentCrashes
  BY <1>15 DEF AgentCrashes, coordinatorVars, callerVars
<1>16. CASE ControlPlaneRestarts
  BY <1>16 DEF ControlPlaneRestarts, slotVars
<1>17. CASE UNCHANGED vars
  BY <1>17 DEF vars, coordinatorVars, callerVars, slotVars, boundVars
<1> QED
  BY <1>1, <1>2, <1>3, <1>4, <1>5, <1>6, <1>7, <1>8, <1>9, <1>10, <1>11, <1>12, <1>13, <1>14, <1>15,
     <1>16, <1>17
  DEF Next, CallerStep, SlotStep, ClaimStep, RenewStep

\* So is StepsNotCanceled.
LEMMA StepsNotCanceledStep == Typed /\ StepsNotCanceled /\ [Next]_vars => StepsNotCanceled'
<1> SUFFICES ASSUME Typed, StepsNotCanceled, [Next]_vars, NEW t \in Steps
             PROVE  ~cancelRequested'[t] /\ err'[t] # "canceled" /\ result'[t] \notin {"canceled", "timeout"}
  BY DEF StepsNotCanceled
<1>0. t \in Jobs /\ t \notin Releases
  BY AssignmentsAssumption DEF AssignmentsAssumption, Jobs
<1> USE DEF Typed, CallerTypes, StepsNotCanceled
<1>1. ASSUME NEW j \in Jobs, Submit(j) \/ WaitDone(j) \/ Cleanup(j)
      PROVE  ~cancelRequested'[t] /\ err'[t] # "canceled" /\ result'[t] \notin {"canceled", "timeout"}
  BY <1>0, <1>1 DEF Submit, WaitDone, Cleanup, coordinatorVars
<1>2. ASSUME NEW j \in Jobs, WaitTimesOut(j)
      PROVE  ~cancelRequested'[t] /\ err'[t] # "canceled" /\ result'[t] \notin {"canceled", "timeout"}
  BY <1>0, <1>2 DEF WaitTimesOut
<1>3. ASSUME NEW s \in Slots, SlotStep(s) \/ ClaimStep(s) \/ RenewStep(s)
      PROVE  UNCHANGED <<cancelRequested, err, result>>
  BY <1>3 DEF SlotStep, ClaimStep, RenewStep, StartJob, SetupNetwork, SetupFails, Track, EndScope,
              RemoveNetwork, SendComplete, StepEnds, Claim, Renew, coordinatorVars, callerVars
<1>4. ASSUME NEW m \in completes, Complete(m)
      PROVE  ~cancelRequested'[t] /\ err'[t] # "canceled" /\ result'[t] \notin {"canceled", "timeout"}
  <2>1. CASE m.job = t
    BY <1>0, <1>4, <2>1 DEF Complete, callerVars
  <2>2. CASE m.job # t
    BY <1>0, <1>4, <2>2 DEF Complete, callerVars
  <2> QED BY <2>1, <2>2
<1>5. ASSUME NEW m \in completes, LoseComplete(m)
      PROVE  UNCHANGED <<cancelRequested, err, result>>
  BY <1>5 DEF LoseComplete, coordinatorVars, callerVars
<1>6. CASE ExpiryScan
  BY <1>0, <1>6 DEF ExpiryScan, callerVars
<1>7. CASE Persist \/ Tick \/ AgentCrashes
  BY <1>7 DEF Persist, Tick, AgentCrashes, coordinatorVars, callerVars
<1>8. CASE ControlPlaneRestarts
  BY <1>0, <1>8 DEF ControlPlaneRestarts
<1>9. CASE UNCHANGED vars
  BY <1>9 DEF vars, coordinatorVars, callerVars
<1> QED BY <1>1, <1>2, <1>3, <1>4, <1>5, <1>6, <1>7, <1>8, <1>9 DEF Next, CallerStep

\* What Returned and RemovedForGood rest on.
Grounds == Typed /\ HandedOutOnce /\ Earned /\ StepsNotCanceled

\* The control plane is up before a step after which it has not been restarted.
LEMMA NoRestart == Typed /\ [Next]_vars /\ restarts' = 0 => restarts = 0 /\ ~ControlPlaneRestarts
  BY DEF Typed, AgentTypes, Next, CallerStep, SlotStep, ClaimStep, RenewStep, Submit, WaitDone, Cleanup,
         WaitTimesOut, StartJob, SetupNetwork, SetupFails, Track, EndScope, RemoveNetwork, SendComplete,
         StepEnds, Claim, Renew, Complete, LoseComplete, ExpiryScan, Persist, Tick, AgentCrashes,
         ControlPlaneRestarts, vars, boundVars

\* What Wait returned, and to whom, while the control plane stays up.
LEMMA ReturnedStep == Grounds /\ Returned /\ [Next]_vars => Returned'
<1> SUFFICES ASSUME Grounds, Returned, [Next]_vars, restarts' = 0 PROVE Returned'
  BY DEF Returned
<1> DEFINE Results(j) == result[j] # "none" <=> dispatch[j] \in {"cleanup", "returned"}
           Reported(j) == {err[j], result[j]} \cap {"ok", "error"} # {} => NotOut(j)
           Waited(t) == dispatch[ReleaseOf[t]] # "none" => dispatch[t] \in {"none", "returned"}
           Kept == /\ \A j \in Jobs : Results(j)' /\ Reported(j)'
                   /\ \A t \in Steps : Waited(t)'
<1> SUFFICES Kept
  BY DEF Returned
<1>0. /\ NoJob \notin Jobs /\ Steps \cap Releases = {} /\ Steps \subseteq Jobs /\ Releases \subseteq Jobs
      /\ \A t \in Steps : ReleaseOf[t] \in Releases
  BY AssignmentsAssumption DEF AssignmentsAssumption, Jobs
<1>1. restarts = 0 /\ ~ControlPlaneRestarts
  BY NoRestart DEF Grounds
<1>2. /\ \A j \in Jobs : Results(j) /\ Reported(j) /\ OutOnce(j)
      /\ \A t \in Steps : Waited(t)
  BY <1>1 DEF Returned, Grounds, HandedOutOnce
<1>3. /\ status \in [Jobs -> {"absent", "Pending", "Running"} \cup Done]
      /\ dispatch \in [Jobs -> {"none", "wait", "cleanup", "returned", "lost"}]
      /\ err \in [Jobs -> {"none", "ok", "error", "canceled", "lapsed"}]
      /\ result \in [Jobs -> {"none", "ok", "error", "canceled", "lapsed", "timeout"}]
      /\ job \in [Slots -> Jobs \cup {NoJob}]
      /\ completes \subseteq [job : Jobs, error : {"ok", "error"}]
      /\ \A j \in Jobs : err[j] # "none" <=> status[j] \in Done
  BY DEF Grounds, Typed, CallerTypes, AgentTypes, Earned
<1> USE DEF NotOut
<1>4. ASSUME NEW j \in Jobs, Submit(j) PROVE Kept
  <2>1. \A i \in Jobs : Results(i)' /\ Reported(i)'
    BY <1>2, <1>3, <1>4 DEF Submit, slotVars
  <2>2. \A t \in Steps : Waited(t)'
    BY <1>0, <1>2, <1>3, <1>4 DEF Submit, MaySubmit
  <2> QED BY <2>1, <2>2
<1>5. ASSUME NEW j \in Jobs, WaitDone(j) PROVE Kept
  <2>1. \A i \in Jobs : Results(i)' /\ Reported(i)'
    BY <1>2, <1>3, <1>5 DEF WaitDone, Completed, coordinatorVars, slotVars
  <2>2. \A t \in Steps : Waited(t)'
    BY <1>0, <1>2, <1>3, <1>5 DEF WaitDone
  <2> QED BY <2>1, <2>2
<1>6. ASSUME NEW j \in Jobs, WaitTimesOut(j) PROVE Kept
  <2>1. \A i \in Jobs : Results(i)' /\ Reported(i)'
    BY <1>2, <1>3, <1>6 DEF WaitTimesOut, slotVars
  <2>2. \A t \in Steps : Waited(t)'
    BY <1>0, <1>2, <1>3, <1>6 DEF WaitTimesOut
  <2> QED BY <2>1, <2>2
<1>7. ASSUME NEW j \in Jobs, Cleanup(j) PROVE Kept
  <2>1. \A i \in Jobs : Results(i)' /\ Reported(i)'
    BY <1>2, <1>3, <1>7 DEF Cleanup, slotVars
  <2>2. \A t \in Steps : Waited(t)'
    BY <1>0, <1>2, <1>3, <1>7 DEF Cleanup
  <2> QED BY <2>1, <2>2
<1>8. ASSUME NEW s \in Slots, NEW j \in Jobs, NEW answered \in BOOLEAN, Claim(s, j, answered) PROVE Kept
  <2>1. err[j] = "none" /\ result[j] = "none"
    BY <1>2, <1>3, <1>8 DEF Claim, Claimable, OutOnce, Done
  <2> QED BY <1>2, <1>3, <1>8, <2>1 DEF Claim, callerVars
<1>9. ASSUME NEW s \in Slots, SlotWorks(s) PROVE Kept
  BY <1>2, <1>9, SlotWorksFrame
<1>10. ASSUME NEW s \in Slots, SendComplete(s) PROVE Kept
  <2>1. job[s] \in Jobs
    BY <1>10 DEF SendComplete, Grounds, Typed, AgentTypes, SlotHolds, StepPlaces, ReleasePlaces, Jobs
  <2> QED BY <1>0, <1>2, <1>3, <1>10, <2>1 DEF SendComplete, coordinatorVars, callerVars
<1>11. ASSUME NEW s \in Slots, RenewStep(s) PROVE Kept
  BY <1>2, <1>11 DEF RenewStep, Renew, callerVars
<1>12. ASSUME NEW m \in completes, Complete(m) PROVE Kept
  <2>1. \A j \in Jobs : err'[j] # err[j] => j = m.job
    BY <1>3, <1>12 DEF Complete
  <2>2. \A s \in Slots : job[s] # m.job
    BY <1>2, <1>3, <1>12 DEF OutOnce
  <2>3. \A n \in completes' : n.job # m.job
    BY <1>2, <1>3, <1>12 DEF Complete, OutOnce
  <2>4. UNCHANGED <<dispatch, result, job>> /\ completes' \subseteq completes
    BY <1>12 DEF Complete, callerVars, slotVars
  <2> QED BY <1>2, <2>1, <2>2, <2>3, <2>4
<1>13. ASSUME NEW m \in completes, LoseComplete(m) PROVE Kept
  BY <1>2, <1>13 DEF LoseComplete, coordinatorVars, callerVars, slotVars
<1>14. CASE ExpiryScan
  BY <1>2, <1>3, <1>14 DEF ExpiryScan, Lapsed, callerVars, slotVars
<1>15. CASE Persist \/ Tick
  BY <1>2, <1>15 DEF Persist, Tick, callerVars, slotVars
<1>16. CASE AgentCrashes
  BY <1>0, <1>2, <1>3, <1>16 DEF AgentCrashes, coordinatorVars, callerVars
<1>17. CASE UNCHANGED vars
  BY <1>2, <1>17 DEF vars, coordinatorVars, callerVars, slotVars
<1> QED
  BY <1>1, <1>4, <1>5, <1>6, <1>7, <1>8, <1>9, <1>10, <1>11, <1>12, <1>13, <1>14, <1>15, <1>16, <1>17
  DEF Next, CallerStep, SlotStep, SlotWorks, ClaimStep

\* A step that sets up its network after its release has removed the execution
\* was given up by its lease.
LEMMA LateStepLapsed ==
    ASSUME Grounds, Returned, restarts = 0, NEW t \in Steps, Removed(ReleaseOf[t]),
           NEW s \in Slots, job[s] = t
    PROVE  result[t] = "lapsed"
<1>0. t \in Jobs /\ ReleaseOf[t] \in Jobs
  BY AssignmentsAssumption DEF AssignmentsAssumption, Jobs
<1>1. OutOnce(t) /\ OutOnce(ReleaseOf[t])
  BY <1>0 DEF Grounds, HandedOutOnce
<1>2. dispatch[ReleaseOf[t]] # "none"
  <2>1. ~NotOut(ReleaseOf[t]) \/ err[ReleaseOf[t]] = "ok" \/ result[ReleaseOf[t]] = "ok"
    BY DEF Removed, NotOut
  <2>2. err[ReleaseOf[t]] = "ok" => status[ReleaseOf[t]] # "absent"
    BY <1>0 DEF Grounds, Earned, Done
  <2>3. result[ReleaseOf[t]] = "ok" => dispatch[ReleaseOf[t]] \in {"cleanup", "returned"}
    BY <1>0 DEF Returned
  <2> QED BY <1>1, <2>1, <2>2, <2>3 DEF OutOnce
<1>3. dispatch[t] \in {"none", "returned"}
  BY <1>2 DEF Returned
<1>4. ~NotOut(t)
  BY DEF NotOut
<1>5. dispatch[t] = "returned" /\ result[t] # "none"
  BY <1>0, <1>1, <1>3, <1>4 DEF OutOnce, Returned
<1>6. result[t] \notin {"ok", "error", "canceled", "timeout"}
  BY <1>0, <1>4 DEF Returned, Grounds, StepsNotCanceled
<1> QED BY <1>0, <1>5, <1>6 DEF Grounds, Typed, CallerTypes

\* RemovedForGood is inductive.
LEMMA RemovedForGoodStep == Grounds /\ Returned /\ RemovedForGood /\ [Next]_vars => RemovedForGood'
<1> SUFFICES ASSUME Grounds, Returned, RemovedForGood, [Next]_vars, restarts' = 0,
                    NEW r \in Releases, Removed(r)', r \in host', r \notin refused'
             PROVE  \E t \in Steps : ReleaseOf[t] = r /\ result'[t] = "lapsed"
  BY DEF RemovedForGood
<1> DEFINE Late == \E t \in Steps : ReleaseOf[t] = r /\ result'[t] = "lapsed"
<1>0. /\ r \in Jobs /\ NoJob \notin Jobs /\ Steps \cap Releases = {} /\ Steps \subseteq Jobs
      /\ \A t \in Steps : ReleaseOf[t] \in Releases
  BY AssignmentsAssumption DEF AssignmentsAssumption, Jobs
<1>1. restarts = 0 /\ ~ControlPlaneRestarts
  BY NoRestart DEF Grounds
<1>2. Removed(r) /\ r \in host => \E t \in Steps : ReleaseOf[t] = r /\ result[t] = "lapsed"
  <2>1. refused \subseteq refused'
    BY DEF Next, CallerStep, SlotStep, ClaimStep, RenewStep, Submit, WaitDone, Cleanup,
         WaitTimesOut, StartJob, SetupNetwork, SetupFails, Track, EndScope, RemoveNetwork, SendComplete,
         StepEnds, Claim, Renew, Complete, LoseComplete, ExpiryScan, Persist, Tick, AgentCrashes,
         ControlPlaneRestarts, vars, boundVars
  <2> QED BY <1>1, <2>1 DEF RemovedForGood
<1>3. /\ dispatch \in [Jobs -> {"none", "wait", "cleanup", "returned", "lost"}]
      /\ err \in [Jobs -> {"none", "ok", "error", "canceled", "lapsed"}]
      /\ result \in [Jobs -> {"none", "ok", "error", "canceled", "lapsed", "timeout"}]
      /\ runErr \in [Slots -> {"none", "ok", "error", "canceled"}]
      /\ job \in [Slots -> Jobs \cup {NoJob}]
      /\ completes \subseteq [job : Jobs, error : {"ok", "error"}]
      /\ \A s \in Slots : runErr[s] # "none" => pc[s] = "complete"
      /\ \A s \in Slots : SlotHolds(s)
  BY DEF Grounds, Typed, CallerTypes, AgentTypes, Earned
<1>4. \A j \in Jobs : result[j] # "none" <=> dispatch[j] \in {"cleanup", "returned"}
  BY <1>1 DEF Returned
<1> USE DEF Removed
<1>5. ASSUME NEW j \in Jobs, Submit(j) PROVE Late
  BY <1>2, <1>5 DEF Submit, slotVars, hostVars
<1>6. ASSUME NEW j \in Jobs, WaitDone(j) PROVE Late
  <2>1. Removed(r)
    BY <1>0, <1>3, <1>6 DEF WaitDone, coordinatorVars, slotVars
  <2>2. \A t \in Steps : result[t] = "lapsed" => result'[t] = "lapsed"
    BY <1>0, <1>3, <1>4, <1>6 DEF WaitDone
  <2> QED BY <1>2, <1>6, <2>1, <2>2 DEF WaitDone, hostVars
<1>7. ASSUME NEW j \in Jobs, WaitTimesOut(j) PROVE Late
  <2>1. Removed(r)
    BY <1>0, <1>3, <1>7 DEF WaitTimesOut, slotVars
  <2>2. \A t \in Steps : result[t] = "lapsed" => result'[t] = "lapsed"
    BY <1>0, <1>3, <1>7 DEF WaitTimesOut
  <2> QED BY <1>2, <1>7, <2>1, <2>2 DEF WaitTimesOut, hostVars
<1>8. ASSUME NEW j \in Jobs, Cleanup(j) PROVE Late
  BY <1>0, <1>2, <1>3, <1>8 DEF Cleanup, slotVars, hostVars
<1>9. ASSUME NEW s \in Slots, NEW j \in Jobs, NEW answered \in BOOLEAN, Claim(s, j, answered) PROVE Late
  BY <1>2, <1>3, <1>9 DEF Claim, callerVars, hostVars
<1>10. ASSUME NEW s \in Slots, StartJob(s) \/ SetupFails(s) \/ Track(s) \/ EndScope(s) PROVE Late
  BY <1>2, <1>3, <1>10 DEF StartJob, SetupFails, Track, EndScope, coordinatorVars, callerVars, hostVars
<1>11. ASSUME NEW s \in Slots, SetupNetwork(s) PROVE Late
  <2>1. Removed(r) /\ UNCHANGED result
    BY <1>11 DEF SetupNetwork, coordinatorVars, callerVars
  <2>2. CASE r \in host
    BY <1>2, <2>1, <2>2
  <2>3. CASE r \notin host
    <3>1. job[s] \in Steps
      BY <1>3, <1>11 DEF SetupNetwork, SlotHolds, ReleasePlaces
    <3>2. ReleaseOf[job[s]] = r
      BY <1>0, <1>11, <2>3, <3>1 DEF SetupNetwork, Execution
    <3>3. result[job[s]] = "lapsed"
      BY <1>1, <2>1, <3>1, <3>2, LateStepLapsed
    <3> QED BY <2>1, <3>1, <3>2, <3>3
  <2> QED BY <2>2, <2>3
<1>12. ASSUME NEW s \in Slots, NEW removed \in BOOLEAN, NEW cleared \in BOOLEAN,
             RemoveNetwork(s, removed, cleared)
      PROVE  Late
  <2>1. job[s] # r /\ r \in host
    BY <1>12 DEF RemoveNetwork
  <2>2. Removed(r)
    BY <1>3, <1>12, <2>1 DEF RemoveNetwork, coordinatorVars, callerVars
  <2> QED BY <1>2, <1>12, <2>1, <2>2 DEF RemoveNetwork, callerVars
<1>13. ASSUME NEW s \in Slots, NEW outcome \in {"ok", "error", "canceled"}, StepEnds(s, outcome) PROVE Late
  <2>1. job[s] # r
    BY <1>0, <1>3, <1>13 DEF StepEnds, SlotHolds, ReleasePlaces
  <2>2. Removed(r)
    BY <1>3, <1>13, <2>1 DEF StepEnds, coordinatorVars, callerVars
  <2> QED BY <1>2, <1>13, <2>2 DEF StepEnds, callerVars, hostVars
<1>14. ASSUME NEW s \in Slots, SendComplete(s) PROVE Late
  <2>1. Removed(r)
    BY <1>0, <1>3, <1>14 DEF SendComplete, CompleteError, coordinatorVars, callerVars
  <2> QED BY <1>2, <1>14, <2>1 DEF SendComplete, callerVars, hostVars
<1>15. ASSUME NEW s \in Slots, RenewStep(s) PROVE Late
  BY <1>2, <1>15 DEF RenewStep, Renew, callerVars, hostVars
<1>16. ASSUME NEW m \in completes, Complete(m) PROVE Late
  <2>1. err'[r] = "ok" => err[r] = "ok" \/ (m.job = r /\ m.error = "ok")
    BY <1>0, <1>3, <1>16 DEF Complete
  <2>2. Removed(r)
    BY <1>16, <2>1 DEF Complete, callerVars, slotVars
  <2> QED BY <1>2, <1>16, <2>2 DEF Complete, callerVars, hostVars
<1>17. ASSUME NEW m \in completes, LoseComplete(m) PROVE Late
  BY <1>2, <1>17 DEF LoseComplete, coordinatorVars, callerVars, slotVars, hostVars
<1>18. CASE ExpiryScan
  BY <1>0, <1>2, <1>18 DEF ExpiryScan, callerVars, slotVars, hostVars
<1>19. CASE Persist \/ Tick
  BY <1>2, <1>19 DEF Persist, Tick, callerVars, slotVars, hostVars
<1>20. CASE AgentCrashes
  BY <1>2, <1>20 DEF AgentCrashes, coordinatorVars, callerVars
<1>21. CASE UNCHANGED vars
  BY <1>2, <1>21 DEF vars, coordinatorVars, callerVars, slotVars, hostVars
<1> QED
  BY <1>1, <1>5, <1>6, <1>7, <1>8, <1>9, <1>10, <1>11, <1>12, <1>13, <1>14, <1>15, <1>16, <1>17, <1>18,
     <1>19, <1>20, <1>21
  DEF Next, CallerStep, SlotStep, ClaimStep

\* SuccessIsEarned in general: Dispatch reports success only for a job that an
\* agent ran to its end undisturbed, and a release that is reported successful
\* leaves nothing on the host unless Docker refused to remove it or one of its
\* steps was given up by its lease.
THEOREM SuccessEarned == Spec => []SuccessIsEarned
<1>1. Init => Earned /\ StepsNotCanceled /\ Returned /\ RemovedForGood
  <2> SUFFICES ASSUME Init PROVE Earned /\ StepsNotCanceled /\ Returned /\ RemovedForGood
    OBVIOUS
  <2>0. Steps \subseteq Jobs /\ Releases \subseteq Jobs /\ \A t \in Steps : ReleaseOf[t] \in Releases
    BY AssignmentsAssumption DEF AssignmentsAssumption, Jobs
  <2>1. Earned /\ StepsNotCanceled
    BY <2>0 DEF Init, Earned, StepsNotCanceled, Done
  <2>2. Returned /\ RemovedForGood
    BY <2>0 DEF Init, Returned, RemovedForGood
  <2> QED BY <2>1, <2>2
<1>2. Earned /\ RemovedForGood => SuccessIsEarned
  BY DEF Earned, RemovedForGood, Removed, SuccessIsEarned
<1> QED
  BY <1>1, <1>2, TypedAlways, HandedOutOnceAlways, EarnedStep, StepsNotCanceledStep, ReturnedStep,
     RemovedForGoodStep, PTL
  DEF Spec, Grounds
=============================================================================

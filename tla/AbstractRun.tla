---------------------------- MODULE AbstractRun ----------------------------
(***************************************************************************)
(* What a launched run promises to whoever watches it, without the queue,  *)
(* the goroutines, the leases or the callbacks that bring it about: runs   *)
(* start, their steps begin and settle once each in an order the suite     *)
(* allows, the status of the run is a function of the outcomes, and the    *)
(* backend's resources live from the boot to the last outcome.             *)
(* Execution.tla is checked against this specification.                    *)
(***************************************************************************)
EXTENDS Naturals

CONSTANTS
    Tasks,             \* the steps of all runs
    Groups,            \* the runs
    Group,             \* the run of a step
    Needs,             \* the ordinary dependencies of a step
    Causes,            \* what a step comes after, directly or not, and itself
    OnFailure,         \* the steps whose failure a handler handles
    ContinueOnFailure  \* the steps whose failure the run survives

VARIABLES
    phase,    \* per run: none, Booting, Healthy or Failed
    known,    \* the runs on record
    begun,    \* the steps a backend was asked to run
    outcome,  \* per step: none, healthy, failed, canceled or skipped
    backend,  \* per run: none, up or down
    open      \* the service has not been told to stop

runVars == <<phase, known, begun, outcome, backend, open>>

RunInit ==
    /\ phase = [e \in Groups |-> "none"]
    /\ known = {} /\ begun = {}
    /\ outcome = [t \in Tasks |-> "none"]
    /\ backend = [e \in Groups |-> "none"]
    /\ open = TRUE

Members(e) == {t \in Tasks : Group[t] = e}
Good(t)    == outcome[t] = "healthy" \/ (outcome[t] = "failed" /\ t \in ContinueOnFailure)
Activated(t) == \E d \in OnFailure[t] : outcome[d] \in {"failed", "canceled"}
OnFailureBranch(t) == \E u \in Causes[t] : Activated(u)

\* A step is due when what it needs has ended well, when, for a handler, a step
\* it handles has failed, and when the run has not failed or the step is on an
\* activated failure branch.
Due(t) ==
    /\ \A d \in Needs[t] : Good(d)
    /\ OnFailure[t] # {} => Activated(t)
    /\ phase[Group[t]] = "Failed" => OnFailureBranch(t)

\* A step is let go when something it needs did not end well, when it handles
\* failures that did not happen or one of the steps it handles was let go, or
\* when the run has failed and the step is on no activated failure branch.
Excused(t) ==
    \/ \E d \in Needs[t] : outcome[d] # "none" /\ ~Good(d)
    \/ OnFailure[t] # {} /\ \A d \in OnFailure[t] : outcome[d] = "healthy"
    \/ \E d \in OnFailure[t] : outcome[d] = "skipped"
    \/ phase[Group[t]] = "Failed" /\ ~OnFailureBranch(t)

\* A run is launched, and runs that have ended may fall off the record.
Launch(e) ==
    /\ phase[e] = "none"
    /\ phase' = [phase EXCEPT ![e] = "Booting"]
    /\ known' \subseteq known \cup {e} /\ e \in known'
    /\ \A f \in known \ known' : phase[f] \in {"Healthy", "Failed"}
    /\ UNCHANGED <<begun, outcome, backend, open>>

\* The boot fails before any step has been scheduled, perhaps after the backend
\* has created some of its resources.
Abort(e) ==
    /\ phase[e] = "Booting"
    /\ \A t \in Members(e) : outcome[t] = "none"
    /\ phase' = [phase EXCEPT ![e] = "Failed"]
    /\ backend' \in {backend, [backend EXCEPT ![e] = "up"]}
    /\ UNCHANGED <<known, begun, outcome, open>>

Acquire(e) ==
    /\ phase[e] = "Booting" /\ backend[e] = "none"
    /\ backend' = [backend EXCEPT ![e] = "up"]
    /\ UNCHANGED <<phase, known, begun, outcome, open>>

\* A due step is handed to the backend; whether one is due is not asked for a
\* run that is off the record.
Begin(t) ==
    /\ t \notin begun /\ outcome[t] = "none" /\ backend[Group[t]] = "up"
    /\ Group[t] \in known => Due(t)
    /\ begun' = begun \cup {t}
    /\ UNCHANGED <<phase, known, outcome, backend, open>>

\* A step ends as the backend says or is let go.  A canceled step fails its run
\* even if the run would survive the step's failure.
Settle(t, result) ==
    LET e == Group[t]
        fatal == result = "canceled" \/ (result = "failed" /\ t \notin ContinueOnFailure)
    IN  /\ phase[e] \in {"Booting", "Failed"} /\ e \in known /\ outcome[t] = "none"
        /\ \/ result = "skipped" /\ Excused(t)
           \/ result # "skipped" /\ t \in begun /\ backend[e] = "up"
        /\ outcome' = [outcome EXCEPT ![t] = result]
        /\ phase' = [phase EXCEPT ![e] =
              CASE fatal -> "Failed"
                [] ~fatal /\ @ # "Failed" /\ \A u \in Members(e) : outcome'[u] # "none" -> "Healthy"
                [] OTHER -> @]
        /\ UNCHANGED <<known, begun, backend, open>>

\* The resources go when the run is over, or when the service stops.
Release(e) ==
    /\ backend[e] # "down"
    /\ \/ ~open
       \/ /\ phase[e] \in {"Healthy", "Failed"}
          /\ \/ \A t \in Members(e) : outcome[t] = "none"
             \/ \A t \in Members(e) : outcome[t] # "none"
    /\ backend' = [backend EXCEPT ![e] = "down"]
    /\ UNCHANGED <<phase, known, begun, outcome, open>>

StopService == open /\ open' = FALSE /\ UNCHANGED <<phase, known, begun, outcome, backend>>

RunNext ==
    \/ StopService
    \/ \E e \in Groups : Launch(e) \/ Abort(e) \/ Acquire(e) \/ Release(e)
    \/ \E t \in Tasks : Begin(t)
    \/ \E t \in Tasks, result \in {"healthy", "failed", "canceled", "skipped"} : Settle(t, result)

RunSpec == RunInit /\ [][RunNext]_runVars
=============================================================================

------------------------------ MODULE CronJobs ------------------------------
(***************************************************************************)
(* One scheduled job: its record in the store, its entries in the          *)
(* scheduler, the requests that change it and the runs its entries start   *)
(* (cronjobs/service.go, handler.go, the store's cron functions).  Nothing *)
(* is locked: a request changes scheduler and store in separate steps,     *)
(* firings overlap with requests and with each other, and a firing works   *)
(* on the copy of the job it has loaded.                                   *)
(***************************************************************************)
EXTENDS Naturals, FiniteSets

CONSTANTS
    CronClients,             \* requests under way at once
    Firings,                 \* bound: runs of the job, numbered from 1
    Targets,                 \* the suites of the job
    MaxEdits, MaxRestarts    \* bounds: requests, and restarts of the control plane

ASSUME CronAssumption == Firings \in Nat /\ Targets \in Nat

VARIABLES
    cronJob,      \* the job in the store: whether it is there, enabled, and its last error
    entries,     \* entries of the scheduler that run this job
    entryID,     \* the one Service.entryIDs knows, 0 for none
    edit,     \* edit[c]: the operation, how far it is, and what it asks for
    firing,      \* firing[k]: how far, the copy of the job, the suite under way, the results
    execution,   \* execution[k][i]: the status of the execution firing k started for suite i
    edits, restarts

cronVars == <<cronJob, entries, entryID, edit, firing, execution, edits, restarts>>

NoEdit == [op |-> "none", at |-> "idle", enabled |-> FALSE]
NoFiring == [at |-> "idle", job |-> FALSE, suite |-> 1, results |-> [i \in 1..Targets |-> "none"], report |-> "none"]

CronInit ==
    /\ cronJob = [there |-> FALSE, enabled |-> FALSE, error |-> FALSE]
    /\ entries = {} /\ entryID = 0
    /\ edit = [c \in CronClients |-> NoEdit]
    /\ firing = [k \in 1..Firings |-> NoFiring]
    /\ execution = [k \in 1..Firings |-> [i \in 1..Targets |-> "none"]]
    /\ edits = 0 /\ restarts = 0

-----------------------------------------------------------------------------
\* Requests.

Submit(c, op, enabled) ==
    /\ edit[c].at = "idle" /\ edits < MaxEdits /\ edits' = edits + 1
    /\ op = "create" <=> edits = 0
    /\ edit' = [edit EXCEPT ![c] =
                     [op |-> op, at |-> IF op = "create" THEN "store" ELSE "unschedule", enabled |-> enabled]]
    /\ UNCHANGED <<cronJob, entries, entryID, firing, execution, restarts>>

\* Create stores first and schedules then; the others begin here.
Unschedule(c) ==
    /\ edit[c].at = "unschedule"
    /\ entries' = entries \ {entryID} /\ entryID' = 0
    /\ edit' = [edit EXCEPT ![c].at =
                     IF edit[c].op = "update" /\ edit[c].enabled THEN "schedule" ELSE "store"]
    /\ UNCHANGED <<cronJob, firing, execution, edits, restarts>>

Schedule(c) ==
    /\ edit[c].at = "schedule"
    /\ LET id == CHOOSE n \in 1..(Cardinality(entries) + 1) : n \notin entries
       IN  entries' = entries \cup {id} /\ entryID' = id
    /\ edit' = [edit EXCEPT ![c] = IF @.op = "create" THEN NoEdit ELSE [@ EXCEPT !.at = "store"]]
    /\ UNCHANGED <<cronJob, firing, execution, edits, restarts>>

\* The store replaces the job or finds none; a failed call changes nothing,
\* and an entry scheduled by then stays.
StoreJob(c, written) ==
    /\ edit[c].at = "store"
    /\ \/ /\ written /\ (edit[c].op = "create" \/ cronJob.there)
          /\ cronJob' = [there |-> edit[c].op # "delete", enabled |-> edit[c].enabled, error |-> FALSE]
          /\ edit' = [edit EXCEPT ![c] =
                           IF @.op = "create" /\ @.enabled THEN [@ EXCEPT !.at = "schedule"] ELSE NoEdit]
       \/ ~written /\ UNCHANGED cronJob /\ edit' = [edit EXCEPT ![c] = NoEdit]
    /\ UNCHANGED <<entries, entryID, firing, execution, edits, restarts>>

-----------------------------------------------------------------------------
\* Firings.

FiringAt(k, at) == firing' = [firing EXCEPT ![k].at = at]

\* The scheduler starts an entry's function whatever earlier runs of it do.
Fire(k) ==
    /\ entries # {} /\ firing[k].at = "idle" /\ \A l \in 1..(k - 1) : firing[l].at # "idle"
    /\ FiringAt(k, "loading")
    /\ UNCHANGED <<cronJob, entries, entryID, edit, execution, edits, restarts>>

\* The job is loaded now, if it can be, and whether it is enabled is not
\* looked at.
LoadJob(k, loaded) ==
    /\ firing[k].at = "loading"
    /\ firing' = [firing EXCEPT ![k].at = IF ~(loaded /\ cronJob.there) THEN "ended"
                                          ELSE IF Targets = 0 THEN "reporting" ELSE "creating",
                                ![k].job = cronJob.enabled]
    /\ UNCHANGED <<cronJob, entries, entryID, edit, execution, edits, restarts>>

\* The result of one suite; the suites run one after the other.
Result(k, result) ==
    firing' = [firing EXCEPT ![k].results[firing[k].suite] = result,
                             ![k].suite = @ + 1,
                             ![k].at = IF firing[k].suite = Targets THEN "reporting" ELSE "creating"]

RunSuite(k, accepted) ==
    /\ firing[k].at = "creating"
    /\ IF accepted
       THEN FiringAt(k, "waiting") /\ execution' = [execution EXCEPT ![k][firing[k].suite] = "running"]
       ELSE Result(k, "error") /\ UNCHANGED execution
    /\ UNCHANGED <<cronJob, entries, entryID, edit, edits, restarts>>

ExecutionEnds(k, i, status) ==
    /\ execution[k][i] = "running" /\ status \in {"healthy", "failed"}
    /\ execution' = [execution EXCEPT ![k][i] = status]
    /\ UNCHANGED <<cronJob, entries, entryID, edit, firing, edits, restarts>>

\* Mutant: the wait gives the execution it has when the ten minutes are over.
TimedOutRecord(k) == execution[k][firing[k].suite]

TimedOut(k) == "error"

\* The execution is polled until it is terminal, the ten minutes or the
\* firing's context are over, or it cannot be read.
WaitForExecution(k) ==
    /\ firing[k].at = "waiting"
    /\ \/ /\ execution[k][firing[k].suite] \in {"healthy", "failed"}
          /\ Result(k, execution[k][firing[k].suite])
       \/ Result(k, TimedOut(k))
    /\ UNCHANGED <<cronJob, entries, entryID, edit, execution, edits, restarts>>

\* All suites passed unless one has an error or a record that says failed.
FormatResults(results) == IF \E i \in 1..Targets : results[i] \in {"error", "failed"} THEN "failed" ELSE "passed"

\* The report goes out by email and Slack; either may fail, or never answer:
\* neither call has a limit.
Report(k, sent) ==
    /\ firing[k].at = "reporting"
    /\ firing' = [firing EXCEPT ![k].at = IF sent THEN "saving" ELSE "saving_error",
                                ![k].report = FormatResults(firing[k].results)]
    /\ UNCHANGED <<cronJob, entries, entryID, edit, execution, edits, restarts>>

\* The copy of the job goes back whole, with the time and error of this run,
\* unless the store fails or the firing's half hour is over.
SaveRun(k, written) ==
    /\ firing[k].at \in {"saving", "saving_error"} /\ FiringAt(k, "ended")
    /\ cronJob' = IF written /\ cronJob.there
                 THEN [there |-> TRUE, enabled |-> firing[k].job, error |-> firing[k].at = "saving_error"] ELSE cronJob
    /\ UNCHANGED <<entries, entryID, edit, execution, edits, restarts>>

\* The control plane stops: requests and firings are lost, and Start
\* schedules what the store says is enabled.
SchedulerRestarts ==
    /\ restarts < MaxRestarts /\ restarts' = restarts + 1
    /\ edit' = [c \in CronClients |-> NoEdit]
    /\ firing' = [k \in 1..Firings |-> IF firing[k].at = "idle" THEN firing[k] ELSE [firing[k] EXCEPT !.at = "ended"]]
    /\ entries' = (IF cronJob.there /\ cronJob.enabled THEN {1} ELSE {})
    /\ entryID' = (IF cronJob.there /\ cronJob.enabled THEN 1 ELSE 0)
    /\ UNCHANGED <<cronJob, execution, edits>>

FiringStep(k) ==
    WaitForExecution(k) \/ \E b \in BOOLEAN : LoadJob(k, b) \/ RunSuite(k, b) \/ SaveRun(k, b)

CronNext ==
    \/ \E c \in CronClients :
         \/ \E op \in {"create", "update"}, enabled \in BOOLEAN : Submit(c, op, enabled)
         \/ Submit(c, "delete", FALSE) \/ Unschedule(c) \/ Schedule(c)
         \/ \E written \in BOOLEAN : StoreJob(c, written)
    \/ \E k \in 1..Firings : Fire(k) \/ FiringStep(k) \/ (\E sent \in BOOLEAN : Report(k, sent))
                             \/ \E i \in 1..Targets, status \in {"healthy", "failed"} : ExecutionEnds(k, i, status)
    \/ SchedulerRestarts

\* A firing's own goroutine runs on, and its waits have limits; a mail server
\* or a webhook that takes the report need never answer (Report).
CronFairness == \A k \in 1..Firings : WF_cronVars(FiringStep(k))

CronSpec == CronInit /\ [][CronNext]_cronVars /\ CronFairness

-----------------------------------------------------------------------------
\* A report that says all suites passed is true of executions that have
\* ended, whatever timed out, was refused, was edited or restarted meanwhile.
ReportTrue(k) == firing[k].report = "passed" => \A i \in 1..Targets : execution[k][i] = "healthy"

\* Every report is true, of whichever firing.
PassedReportsTrue == \A k \in 1..Firings : ReportTrue(k)

\* That, and a job that fires comes to its report although an execution may
\* never end; one that has sent it comes to its end.
CronReportsHonest ==
    /\ [](\A k \in 1..Firings : ReportTrue(k))
    /\ \A k \in 1..Firings : []<>(firing[k].at \in {"idle", "reporting", "ended"})

\* docs/cron-jobs.md: "Setting `enabled: false` suspends scheduling without
\* deleting the job or its history."  Only a request enables a job again.
DisabledStaysDisabled ==
    [][(cronJob.there /\ ~cronJob.enabled /\ cronJob'.enabled) => \E c \in CronClients : edit[c].at = "store"]_cronVars
=============================================================================

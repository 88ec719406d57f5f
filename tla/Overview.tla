------------------------------ MODULE Overview ------------------------------
(***************************************************************************)
(* The overview of all executions (engine/, engine/watchers, execution/    *)
(* syncObservers and snapshotExecution).  Whoever changes an execution     *)
(* takes a snapshot of it afterwards and dispatches that to the store;     *)
(* the store replaces its copy under its lock and sends the new overview   *)
(* to its subscribers after it.  Change, snapshot, dispatch and send are   *)
(* separate steps, and those of two goroutines mix.  The boot changes an   *)
(* execution and syncs nothing.                                            *)
(*                                                                         *)
(* updatedAt is the number of changes an execution, or the store, has      *)
(* seen; an overview on its way is its updatedAt.                          *)
(***************************************************************************)
EXTENDS Naturals, Sequences, FiniteSets

CONSTANTS
    Shown,           \* executions
    Nodes,           \* the steps of each
    Syncs,           \* goroutines that change executions
    ChannelSize,     \* places of a subscriber's channel (8 in the code)
    MaxSyncs         \* bound: changes and syncs

ASSUME OverviewAssumption == IsFiniteSet(Nodes)

VARIABLES
    executions,      \* executions[e]: the record, NoRecord before the launch or after eviction
    sync,            \* sync[g]: where g is after its change, and what it carries
    overview,        \* the store: the snapshot of each execution, and updatedAt
    watch,           \* one subscriber: none, open or closed, its channel, what it shows
    panicked,        \* a send met the closed channel
    overtaken,       \* history: executions shown as they are and then, by an older snapshot
                     \*   or a boot, as they were, until they are shown as they are again
    missed,          \* history: the subscriber's last overview was dropped or overtaken
    syncs

overviewVars == <<executions, sync, overview, watch, panicked, overtaken, missed, syncs>>

NoRecord ==
    [status |-> "none", step |-> [n \in Nodes |-> "none"], completed |-> 0, updatedAt |-> 0,
     late |-> FALSE]     \* history: a step was reported to run after its end
Idle == [at |-> "idle"]
Terminal == {"healthy", "failed", "skipped"}

OverviewInit ==
    /\ executions = [e \in Shown |-> NoRecord] /\ sync = [g \in Syncs |-> Idle]
    /\ overview = [of |-> [e \in Shown |-> NoRecord], updatedAt |-> 0]
    /\ watch = [at |-> "none", channel |-> <<>>, shows |-> 0, latest |-> 0]
    /\ panicked = FALSE /\ overtaken = {} /\ missed = FALSE /\ syncs = 0

-----------------------------------------------------------------------------
\* Changes of an execution.  Each ends with a call of syncObservers.

Changes(g, e, record) ==
    /\ sync[g] = Idle /\ syncs < MaxSyncs /\ syncs' = syncs + 1
    /\ executions' = [executions EXCEPT ![e] = [record EXCEPT !.updatedAt = syncs + 1]]
    /\ sync' = [sync EXCEPT ![g] = [at |-> "changed", execution |-> e]]
    /\ UNCHANGED <<overview, watch, panicked, overtaken, missed>>

LaunchShown(g, e) ==
    /\ executions[e] = NoRecord /\ overview.of[e] = NoRecord
    /\ Changes(g, e, [NoRecord EXCEPT !.status = "Booting"])

\* The boot: the steps are known.  No observer hears of it.
BootShown(e) ==
    /\ executions[e].status = "Booting" /\ \A n \in Nodes : executions[e].step[n] = "none"
    /\ executions' = [executions EXCEPT ![e].step = [n \in Nodes |-> "pending"]]
    /\ overtaken' = overtaken \cup {e}
    /\ UNCHANGED <<sync, overview, watch, panicked, missed, syncs>>

\* failBootedExecution, with the event that follows its change.
FailBooted(g, e) ==
    /\ executions[e].status = "Booting" /\ \A n \in Nodes : executions[e].step[n] \in {"none", "pending"}
    /\ Changes(g, e, [executions[e] EXCEPT !.status = "Failed"])

\* An event with the status of a step, whatever that of the step is: a worker's
\* report may come after the step's end.
AppendEvent(g, e, n) ==
    /\ executions[e].status # "none" /\ executions[e].step[n] # "none"
    /\ Changes(g, e, [executions[e] EXCEPT !.step[n] = "running", !.late = @ \/ executions[e].step[n] \in Terminal])

\* The record with step n at its end, and the status of the run that follows
\* when as many steps have been marked as there are.
Marked(record, n, status, hardFailure) ==
    LET ended == [record EXCEPT !.step[n] = status, !.completed = @ + 1,
                                !.status = IF hardFailure THEN "Failed" ELSE @]
    IN [ended EXCEPT !.status = IF ended.completed >= Cardinality(Nodes) /\ @ # "Failed" THEN "Healthy" ELSE @]

Markable(e, n) == executions[e].status # "none" /\ executions[e].step[n] \in {"pending", "running"}

\* Mutant: observers hear of the step only when the run's status changes.
MarkSyncingStatus(g, e, n, status, hardFailure) ==
    LET marked == Marked(executions[e], n, status, hardFailure)
    IN /\ Markable(e, n)
       /\ IF marked.status # executions[e].status THEN Changes(g, e, marked)
          ELSE /\ executions' = [executions EXCEPT ![e] = marked]
               /\ UNCHANGED <<sync, overview, watch, panicked, overtaken, missed, syncs>>

MarkNodeTerminal(g, e, n, status, hardFailure) ==
    Markable(e, n) /\ Changes(g, e, Marked(executions[e], n, status, hardFailure))

\* registerStepArtifacts and events without a step's status change no step.
SyncAgain(g, e) == executions[e].status # "none" /\ Changes(g, e, executions[e])

\* evictOldExecutionsLocked, during another launch.
Evict(e) ==
    /\ executions[e].status \in {"Healthy", "Failed"}
    /\ executions' = [executions EXCEPT ![e] = NoRecord]
    /\ UNCHANGED <<sync, overview, watch, panicked, overtaken, missed, syncs>>

-----------------------------------------------------------------------------
\* syncObservers.  The counts of a snapshot are those of its steps.

CountsOf(record) ==
    [s \in {"none", "pending", "running"} \cup Terminal |-> Cardinality({n \in Nodes : record.step[n] = s})]

SnapshotExecution(g) ==
    [at |-> "taken", execution |-> sync[g].execution, snapshot |-> executions[sync[g].execution]]

\* An execution that was evicted in the meantime is not synced.
TakeSnapshot(g) ==
    /\ sync[g].at = "changed"
    /\ sync' = [sync EXCEPT ![g] = IF executions[@.execution] = NoRecord THEN Idle ELSE SnapshotExecution(g)]
    /\ UNCHANGED <<executions, overview, watch, panicked, overtaken, missed, syncs>>

\* UpsertExecutionAction: the snapshot takes the place of the last one.
Upsert(e, snapshot) == [of |-> [overview.of EXCEPT ![e] = snapshot], updatedAt |-> overview.updatedAt + 1]

\* The overview and the subscribers are those of this moment.
DispatchUpsert(g) ==
    /\ sync[g].at = "taken"
    /\ LET e == sync[g].execution
           new == sync[g].snapshot
       IN /\ overview' = Upsert(e, new)
          /\ overtaken' = IF new = executions[e] THEN overtaken \ {e}
                          ELSE IF overview.of[e] = executions[e] THEN overtaken \cup {e} ELSE overtaken
    /\ sync' = [sync EXCEPT ![g] = IF watch.at = "open" THEN [at |-> "sending", overview |-> overview'.updatedAt] ELSE Idle]
    /\ UNCHANGED <<executions, watch, panicked, missed, syncs>>

\* A full channel drops the overview; the channel of a subscriber that has left
\* is closed, and sending to it panics.
Send(g) ==
    /\ sync[g].at = "sending" /\ sync' = [sync EXCEPT ![g] = Idle]
    /\ LET new == sync[g].overview
           dropped == Len(watch.channel) = ChannelSize
       IN IF watch.at = "closed"
          THEN panicked' = TRUE /\ UNCHANGED <<watch, missed>>
          ELSE /\ watch' = IF dropped THEN watch
                           ELSE [watch EXCEPT !.channel = Append(@, new), !.latest = new]
               /\ missed' = (dropped \/ new < watch.latest \/ (missed /\ new < overview.updatedAt))
               /\ UNCHANGED panicked
    /\ UNCHANGED <<executions, overview, overtaken, syncs>>

-----------------------------------------------------------------------------
\* A subscriber.

Subscribed == [at |-> "open", channel |-> <<overview.updatedAt>>, shows |-> 0, latest |-> overview.updatedAt]

\* Mutant: the channel starts without the overview there is.
SubscribeEmpty ==
    /\ watch.at = "none"
    /\ watch' = [Subscribed EXCEPT !.channel = <<>>, !.latest = 0]
    /\ UNCHANGED <<executions, sync, overview, panicked, overtaken, missed, syncs>>

Subscribe ==
    /\ watch.at = "none" /\ watch' = Subscribed
    /\ UNCHANGED <<executions, sync, overview, panicked, overtaken, missed, syncs>>

StreamOverview ==
    /\ watch.at = "open" /\ watch.channel # <<>>
    /\ watch' = [watch EXCEPT !.channel = Tail(@), !.shows = Head(watch.channel)]
    /\ UNCHANGED <<executions, sync, overview, panicked, overtaken, missed, syncs>>

Unsubscribe ==
    /\ watch.at = "open" /\ watch' = [watch EXCEPT !.at = "closed", !.channel = <<>>, !.shows = 0, !.latest = 0] /\ missed' = FALSE
    /\ UNCHANGED <<executions, sync, overview, panicked, overtaken, syncs>>

OverviewNext ==
    /\ ~panicked
    /\ \/ \E g \in Syncs : TakeSnapshot(g) \/ DispatchUpsert(g) \/ Send(g)
       \/ \E g \in Syncs, e \in Shown :
             \/ LaunchShown(g, e) \/ FailBooted(g, e) \/ SyncAgain(g, e)
             \/ \E n \in Nodes : \/ AppendEvent(g, e, n) \/ MarkNodeTerminal(g, e, n, "failed", TRUE)
                                 \/ \E s \in Terminal : MarkNodeTerminal(g, e, n, s, FALSE)
       \/ \E e \in Shown : BootShown(e) \/ Evict(e)
       \/ Subscribe \/ StreamOverview \/ Unsubscribe

OverviewSpec == OverviewInit /\ [][OverviewNext]_overviewVars

-----------------------------------------------------------------------------
\* Once those who changed an execution have synced it, the overview shows it as
\* it is, or an older snapshot or its boot came after it was shown so, or it is
\* no longer kept (engine.Store.Dispatch); a run is shown as healthy only with
\* every step at its end, unless a step of it was reported to run after that;
\* and a subscriber that has read its channel shows the overview, unless one
\* was dropped or overtaken on its way.
OverviewCatchesUp ==
    /\ \A e \in Shown :
          /\ \/ \E g \in Syncs : sync[g].at \in {"changed", "taken"} /\ sync[g].execution = e
             \/ executions[e] \in {NoRecord, overview.of[e]} \/ e \in overtaken
          /\ overview.of[e].status = "Healthy" /\ ~overview.of[e].late =>
                \A s \in {"none", "pending", "running"} : CountsOf(overview.of[e])[s] = 0
    /\ (watch.at = "open" /\ watch.channel = <<>> /\ ~missed /\ \A g \in Syncs : sync[g].at # "sending")
          => watch.shows = overview.updatedAt
=============================================================================

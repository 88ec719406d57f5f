# BabelSuite: a TLA+ verification project

BabelSuite runs *suites*: graphs of services, mocks, load generators, tests and
tasks. A control plane resolves a suite to a topologically sorted graph, runs its
steps in dependency order on local, Docker, Kubernetes or remote backends, and
tells its users what happened. This project models the Go backend
(`src/backend`): the task queue and the execution service on top of it, the
protocol that carries steps to remote agents, the backends, the reading of suites,
plans and profiles, and the services around them where requests overlap, stores
fail or data is converted.

Contents: [inventory](#inventory), [modules](#modules-and-the-code-they-model),
[runs](#runs), [bounds](#bounds), [fairness](#fairness), [proofs](#proofs),
[disagreements found](#where-the-code-and-its-documentation-disagree),
[limits](#what-the-models-leave-out), [not modelled](#not-modelled), [plan](#plan).

## Inventory

### How the parts interact

```
 web UI / CLI / MCP / cron jobs            auth: accounts, resets, throttle, SSO
        | CreateExecution
        v
 suite reader -> topology, load plans      profiles -> overlays    settings -> backend choice
        |   (OCI packages, caches)              |                        |
        +---------------------------------------+------------------------+
        v
 execution service ---- Enqueue, CancelRunningGroup, PruneGroup ---> queue
   |   ^    ^   <------- Task.Run (runNode), Task.OnCanceled -------   |
   |   |    |                                                 one goroutine per task
   |   |    +-- AssignmentState / AssignmentLog (observer)
   |   +------- event and log streams -> pages; saves; reports and artifacts
   v
 backend: local | docker | kubernetes | remote ----+---- Dispatch, Release (broker)
   |  containers, pods, sidecar, inventory         |            v
   |                                               |     agent coordinator <-- claim, extend,
   |                                               |            |             state, complete
   |                                               |       runtime file           |
   +-- mock service, APISIX gateway                +-- direct HTTP --> agent worker and host
                                                        registry <-- register, heartbeat
```

### Components

| Component | State | Operations | What is hard | What makes it correct |
|---|---|---|---|---|
| **Queue** (`internal/queue`) | entries with state, lease and cancel function; per-pool running counts; a one-token wake channel; in-flight group | `Enqueue`, `claim`, `run`, `finish`, `renewLease`, `expiryLoop`, `CancelGroup`, `CancelRunningGroup`, `PruneGroup`, `Close`, `Drain` | one dispatcher, one goroutine and one renewer per task and an expiry loop race under one mutex; callbacks run outside it | dependants start only after their dependencies succeeded; slots are neither lost nor freed twice; a task is run or reported canceled, not both; no lost wake-up; every task settles |
| **Execution service** (`internal/execution`) | records, step statuses, completion counters, released flags, boot semaphore | `CreateExecution`, `bootExecution`, `runNode`, `markNodeTerminal`, `shouldSkipNode`, `appendEvent`, `destroyExecutionBackend`, `evictOldExecutionsLocked`, `Close` | steps of one run finish at once; failure handlers; `Close`, the last step and a failed boot all release the same run | the last step is noticed once; no step runs on a failed dependency, and none of another branch begins after a hard failure; handlers run when and only when something failed; resources are set up and destroyed once; every run ends |
| **Agent coordinator, broker dispatcher** (`internal/agent`, `runner/remote.go`) | assignments with status, claimer, lease; debounced snapshot in the runtime file | `Submit`, `Wait`, `Cleanup`, `Claim`, `Extend`, `ReportState`, `Complete`, `Cancel`, expiry, persist, restore | lost and late calls, lapsing leases, restart of either side | a job is handed out once; its result is decided once; success is earned; every `Dispatch` returns |
| **Agent worker and host** (`worker.go`, `cmd/agent`) | slots, the lease clock, execution scopes, containers and networks on the host | claim loop, `extendLease`, the executor, release, heartbeat, shutdown | a step that outlives its lease; a crash that forgets what the host holds | what an execution left on a host is removed by its release, unless Docker fails or a step that was given up starts late |
| **Agent registry** (`registry.go`, `runtime_store.go`) | the runtime file, a map in memory | register, heartbeat, unregister, sweep | load-modify-save without a lock around it | no lost update is final |
| **Direct dispatch** (`http_dispatcher.go`, `service.go`) | the jobs of an agent, a stream per job | dispatch, watch, cancel, clean up | a cancel that overtakes the job it cancels; broken streams | a dispatch says what the agent did, if the agent said it; a canceled step stops |
| **Backends** (`runner`) | containers, pods, networks, claims, keepers, port-forwards | setup, run, wait, remove, destroy, reap | daemon calls fail, contexts end, containers crash | everything created has someone who removes it; what passed ran |
| **Traffic, plugin and security steps** (`load_executor.go` …) | statistics of a plan | stages, samples, thresholds | rebuilt histograms, boundaries of classes | the verdict is that of the requests sent |
| **Suite sidecar** (`docker_exec.go`) | one container per suite and profile | `EnsureSuiteSidecar` | executions boot at once, under no lock | a sidecar that was reported ready is kept |
| **Suites** (`suites`) | none | evaluation, import expansion, pre-hooks, layering, load plans | cycles, duplicate ids, aliases and locks of imported suites | the result keeps the order every file asks for (Queue and Execution rely on it) |
| **Profiles, launch** (`profile_runtime.go`, `backend.go`, `network_plan.go`, `profiles`) | stored profile records | overlays, secrets, backend choice, host names; create, update, delete, default | layers, contested names, package versions | the strongest layer wins; names mean one service; the chosen default stays |
| **Runtime persistence** (`runtime_store.go`, `runtime_cache.go`) | documents and cache | debounced save, restore | saves overtaking each other, restart in mid-run | the last change a save was scheduled for is saved in the end |
| **Overview store** (`engine`, `engine/watchers`) | a copy of every execution, subscriber channels | snapshot, dispatch, send, subscribe | four separate steps of every goroutine that changes an execution; full and closed channels | the overview shows every execution as it ended, unless a snapshot was overtaken |
| **Streams** (`eventstream`, `logstream`, `sse.ts`) | record lists, subscriber channels, cursors | append, subscribe, reconnect, refresh | delivery outside the lock, full channels, broken connections | a subscription has no gap and no overlap; the page catches up |
| **Environments** (`environments`, inventories) | containers, networks and their labels | inventory, reap one or all | process ids after restarts, partial failures | lost runs are shown as leaks, and runs under way are not, as far as `ps` and the records tell |
| **Cron jobs** (`cronjobs`) | jobs in the store, scheduler entries | create, update, delete, fire | a long firing against a concurrent update | a report is true; a firing comes to its report |
| **Mock service** (`mocking`) | state per key, keys per suite | resolve, reset, render | load-modify-store by concurrent requests | a reset is a fresh start; values have their declared types |
| **Step hand-over, reports** (`proto_convert.go`, `artifacts.go`, `report_formats.go`) | none | conversion, port publication, collection, counting | two wire formats, optional fields | a container runs the same wherever it is started; each case of a report that is read whole is counted once |
| **Suite reader, gateway** (`app/suite_bridge.go`, `apisix`) | cached definitions | warm-up, read, two parsers of the same files | map order, reads during the warm-up | routes reach the mock they are for; warmed suites are resolved |
| **Caches** (`cachehub`, `platform/cache.go`, `store/cache.go`, `catalog/cache.go`) | entries, scope stamp | read-through, write, bump | fills overtaken by saves, outages of the hub and the store | staleness has only these two causes |
| **Authentication** (`auth`) | users, workspaces, tokens, windows, cookies | sign-up, sign-in, refresh, reset, limits, single sign-on | two-step writes, sliding windows, tabs that share a cookie | see `SignInSound` |
| **Catalog and platform settings, database stores, HTTP and telemetry, generators, clients** | | | little of it is concurrent or decides anything | [not modelled](#not-modelled) |

`PROJECT.json` lists every component with its status, and under `hazards` each
place where the code is exposed to something hard to test, with the properties
that would catch it going wrong.

## Modules and the code they model

### `Queue`

One action per critical section of `Memory.mu`, and one for each thing that
happens outside it.

| Code | Model |
|---|---|
| `Memory.entries`, `order` | `state` (`"absent"` without an entry), `arrival` and `Place` for the order |
| `entry.counted`, `LeaseDeadline`, `cancel` | `counted`, `lease`, `attached`; `ctxDone` for the effect of `cancel` |
| `running`, `wakeCh`, `ctx` | `running`, `wake`, `closed` |
| the dispatch goroutine | `dispatcher`, `claimed`, `callbacks`; `Claim`, `Notify`, `Launch`, `Idle`, `Wake`, `Stop` |
| `run` | `routine`, `outcome`; `AttachCancel`, `RunReturns`, `FinishReturned` |
| `renewLease`, `expiryLoop` | `RenewLease`; `ExpiryScan` under the mutex, `Expire` for each `finish` after it |

`Claim` is a whole scan of `m.order`. The scan cancels doomed tasks as it goes
and later tasks see these cancelations, so the set `C` it cancels is the solution
of `C = {u : u is scanned and doomed given C}`. Dependencies come earlier in the
order, hence there is one solution. The pool's `Capacity()` is a function the
caller passes in: any value in `Limits` may be answered, afresh in every claim.

Time is reduced to "the deadline has passed". Deadlines are UTC wall-clock times
without a monotonic reading, so nothing rules out that a lease is found lapsed at
any moment of a run.

### `Execution`, which extends `Queue`

A queue group is an execution, a task is a step. `pc` is the place of a step
inside `runNode` or its `OnCanceled` callback, and of an execution inside
`bootExecution`; `finishExecutionObservation` is shared by both. `Dependencies` and
`SoftDependencies` of the queue are computed from `DependsOn` and `OnFailure` the
way `bootExecution` does it (`ExecutionAssumption`). `verdict` records the terminal
event `markNodeTerminal` appends; `step` is `stepStatus`, which later events may
overwrite.

Actions follow the critical sections of `s.mu`: `Check`, `Start`,
`BackendReturns`, `Mark`, `Return` for `runNode`; `Destroy`, `Teardown`, `Prune` for
the release; `CloseQueue`, `BootsWaited`, `Drained`, `CloseDestroys`, `CloseReturns`
for `Close`. `SendReport` and `LandReport` are the two halves of a state report
of a remote agent: the coordinator's check under its mutex, and the observer's call
of `appendEvent` after it.

`runNode` has branches for a canceled step, and `BackendReturns` has them too. The step's
context derives from the background context and never ends, but `waitForServiceRunning` answers
"canceled" when its own fifteen minutes run out while it watches a service for an early crash
(`kubernetes_services.go:352`). So `BackendResults` has "canceled" for the steps in `KubeServices`: the run
fails even if it would survive a failure of the step, or, if it has failed already, the step is marked
skipped (plan `"drop"`). Nothing keeps a launch from coming after `Close`.

### `Assignments`

Jobs are steps and the release job of their execution, all for one agent, which
has one claim loop per slot. The coordinator's entry is `status`, `claimed`,
`cancelRequested`, `lease`, `err`; `saved` is the last snapshot in the runtime
file. `dispatch` is the place of the `Dispatch` or `Release` call that owns a job.
Each slot has its place in `runAssignment`, the time since its last good renewal
(`silent`) and its job context (`ctxDone`). `host` is what exists on the agent's
machine, `scopes` what the agent process remembers of it. A removal reports success whatever Docker
answered (`docker_exec.go:103`): `RemoveNetwork` may leave everything where it is, which the history variable
`refused` remembers, or return the error of `os.RemoveAll`.

A call of the agent is one request and one answer: a claim or a renewal may lose
either, a `Complete` travels as a message that may be lost or come late. Both clocks
advance with `Tick`. An agent crash empties every slot and forgets the scopes;
containers and networks stay. A control-plane restart keeps only `saved`.

Here the variables of `Execution` for a remote step correspond to one pass of a job
through `dispatch`: a step is in `pc = "exec"` while its job is waited for.

### `AbstractRun`, and the refinement

What a launched run promises to whoever watches it, without queue, goroutines, leases or
callbacks: a run is launched, its resources are acquired, a step begins only when the graph allows it
(`Due`: after a hard failure only on an activated failure branch), settles once as the backend says or is let go
(`Excused`), the run's status follows from the outcomes, and its resources go when the last step has settled.
`Execution` contains

```
Abstract == INSTANCE AbstractRun WITH phase <- status, known <- (the runs of runOrder), begun <- Begun,
                                      outcome <- (the terminal event), backend <- resources,
                                      open <- (closing = "open"), ...
```

Two things the code does are part of the promise because nothing prevents them: a step that a backend already
runs when the run fails goes on to its own end (`Begin` asks whether a step is due, `Settle` does not ask
again), and a step of a run that was evicted begins whether it is due or not (`known`).

and `RefinesAbstractRun` (`Abstract!RunSpec`) is a property of the run `execution`. It
is not one of `execution_disturbed`: a `Close` that stops waiting releases a run before its
steps settled, and its boot may then set up what was released.

### `Backends`, `LoadStep`, `Sidecar`

`Backends` is one execution on one backend. `at[s]` is the place of the call that runs step `s` (`Local.Run`,
`Kubernetes.Run`, `Remote.Run` and the agent's `Local`), chosen by `Route` from the step's kind, file, image and
gateway the way the three `Run` methods branch. `box[s]` is its container or pod: created, started, exited or
removed by `CreateContainer`, `StartBox`, `BoxExits`, `Remove`. A service container has a keeper (`KeeperWakes`,
`KeeperRemoves`), the goroutine that outlives the call. Each call of the daemon may fail, the job's context may
end at any point, the process may crash; `DestroyExecution` and `Reap` remove what is left. Nothing keeps the
release from coming while a step runs or before one starts: an agent's lease may have lapsed, `Close` may have
stopped waiting. `after` tells those steps from the others, and `net` is the execution's network, which a late
step brings back and whose removal may fail (`"kept"`).

`LoadStep` is `executeLoadStep`: stages (`BeginStage`, `SyntheticResult` for each result of a second's batch,
`SidecarAnswers`, `EndStage`), statistics with the code's latency classes (`BucketLatencyMs`, `Percentile`), and
the judgement (`FinalizeLoadStep`), whose thresholds are on percentiles, rates of errors and the average rate of
requests. A plan without tasks records results of a kind of its own (`SyntheticSamples`), and a threshold on a
latency that nothing was measured for fails (`HasMetric`). A counter of a class is the set of the samples it
counted, so that running totals are cardinalities; `samples` remembers every latency, so that percentiles can be
compared with those of the samples themselves.

`Sidecar` has one action per Docker call of `EnsureSuiteSidecar`.

### `SuiteTopology`, `ProfileOverlay`, `LaunchPlan`, composed by `Resolution`; `LoadPlan`

Pure code as operators. `SuiteTopology` evaluates the calls of a suite file, finds the suites it
imports by alias, version and lock, expands them with their pre-hooks and sorts the result in layers
(`ResolveSuite`). `ProfileOverlay` follows a chain of profiles and layers a step's
environment, secrets and limits. `LaunchPlan` chooses the backend (a list of backends is the set of its
positions in the settings) and names the services. In `Resolution`
each question is one step, and the properties compare the answer with definitions that
do not compute it the code's way: `WrittenOrderKept` reads the order off the files, for every call
and every import, and does not expand anything. `LoadPlan` reads a plan statement by
statement (`ParseRequest` … `ApplyPlan`), then goes through the stages and the users one by one as
`validateLoadSpec` does (`BeginValidation`, `ValidateStage`, `StagesValidated`, `ValidateUser`, `AcceptPlan`); the
running totals are in `tally`, the duration with the width of `time.Duration` (`Wrap`).

### `AgentRegistry`, `DirectDispatch`, `StepHandoff`

`AgentRegistry`: `operation[p]` is the copy of the whole runtime file an operation has
loaded; `Load` and `Save` are separate steps, as nothing locks the file between them. Heartbeat
age is one bit.

`DirectDispatch`: client, watcher and the agent's handler of one streamed request, the cancel request that may
come before the job is registered, and connections that break or end. A request ends with the context it derives
from; a stream that ends cleanly without a result is taken for success (`http_dispatcher.go:120`).

`StepHandoff`: `RunNode` puts a step together, `ToStepRequest`, `StepRequestToProto`, `ProtoToStepRequest` and
`ToStepSpec` carry it over. A step for which no container would be started (log, plugin, security, traffic, a
simulated one) stays in the control plane's process and is never sent (`remote.go:126`), so no load plan
travels. Fields copied whole are one token; the ones a conversion treats specially keep their values. Its second
half is how plugins reach services: which ports are published, and when a plugin's configuration is rewritten.
Only a backend that is a `HostPortResolver` does either (`resolves`), and an inspection of a running container
may fail (`PluginStarts`).

### `RuntimePersistence`, `Overview`, `EventStream`, `Environments`, `CronJobs`

`RuntimePersistence`: a record is the number of changes it has seen. `TimerFires` clears
the flag, `CopyExecutions` copies under the lock, `SaveRecord` and `SaveLog` write one
document each; two saves may be under way. The boot of an execution changes it and schedules no save (`boot`), and a
failed write of the cache is ignored (`CacheFails`).

`Overview`: a goroutine changes an execution, takes a snapshot of it, dispatches that to the store and sends the
new overview to the subscriber, in four steps; `overtaken` and `missed` are the history of what was replaced by
an older snapshot, dropped by a full channel or delivered out of order. `AppendEvent` sets a step's status
whatever it was, so a report that comes late changes a step that has ended (`late`). The model stops where a
send meets a closed channel, as the program does. `RecordsCatchUp` in `MCServices` is the conjunction of
`PersistCatchesUp` and `OverviewCatchesUp`.

`EventStream`: `Append1` (list and subscribers, under the lock) and `Publish` (the send,
after it) are separate; `Subscribe` replays and registers under one lock; the page
reconnects with its cursor and reads the whole record from time to time.

`Environments`: containers and networks with the process id in their label, the three inventories, the page's
judgement (`IsZombie`) and the steps of a reap. `ps` is whether the processes can be listed (if not, every one
counts as gone), and `evicted` are the runs without a record.

`CronJobs`: a request unschedules, schedules and stores in separate steps; a firing
loads the job first and writes the same copy back last. Both calls of the store may fail, and the report a
firing sends has no limit of time.

### `Accounts`, `PasswordReset`, `Throttle`, `SingleSignOn`

Each store call is a step of its own, and may fail without effect (`StoreFails`) or after it was applied
(`AnswerLost`); `orphaned` are the accounts whose workspace their own request then removed. `Throttle` has the
sliding windows of the rate limit and the lockout: every admitted request and every failure has a number and a
time, and what the code's lists remember is a set of numbers. `SingleSignOn` has the tabs of one browser that
share a state cookie. `SignInSound` in `MCServices` is the conjunction of `AccountsWhole`, `LinksWorkOnce`,
`WindowsRespected` and `SignedInAsAsked`; each has a mutant of its own.

### `MockService`, `MockSchema`, `StepReports`, `Gateway`

`MockService`: a call loads its state, is matched, may wait, and stores what the transition makes of the copy it
loaded, under the mutation key if there is one, which may be another than it loaded from. Every call that stores
adds a mark, its suite and the suite's life (the number of its resets), and state is the set of marks that went
into it; `escaped` are the marks a reset could not reach. `MockSchema`: a field of a CUE document becomes a
schema node, is rendered and validated; a value is its kind and the parsers that accept its text. `StepReports`:
exports, artifacts and the counting of JUnit and CTRF documents, against `AllCases`, which counts the cases
themselves; documents may state any part of their counts and have cases beside nested suites, and `ReadWhole`
are those the code reads whole. `Gateway`: the package's files are parsed twice, each time in an order Go's maps
choose (`Passes`); a request sent to a route must reach the operation the route is for, which is the first that
fits, so that operations whose paths overlap are excepted (`Overlapped`).

### `CatalogCache`, `SuiteReader`, `Profiles`

`CatalogCache`: look-up, read of the store and fill are separate steps of every user, as are the writes of a
save and its read-back, each of which may fail when the hub or the store is out; values are version numbers, and
`excused` is the history of what a failed call or an overtaken fill left. `SuiteReader`: the warm-up lists,
stores, takes a snapshot and resolves, next to `Get`. `Profiles`: every operation merges, changes, normalises
and saves the whole list under the mutex; a launch whose read of the store fails takes the package's profiles
alone (`LaunchProfiles`). What the code filters is given by its places in the list (`LaunchOptions`, `Marked`,
`RecordsAt`).

## Runs

Passing runs:

| Run | Question | Answer |
|---|---|---|
| `queue` | Can the dispatcher, the tasks, the expiry loop and callers that cancel, prune and close confuse the queue? | No: a pool's count is the number of its running entries and within its capacity, tasks run in order, are run or reported canceled; no wake-up is lost and every task settles. |
| `execution` | Does a run with a failure branch, an unrelated branch and `continue_on_failure` behave as `AbstractRun` promises, with any boot stage failing? | Yes, canceled services included: nothing of another branch begins after a hard failure; no step runs outside its backend's life, the run ends and its resources are released. |
| `execution_disturbed` | What survives lapsing leases, late reports, eviction and a `Close` that stops waiting? | A run is destroyed at most once and pruned only when settled; no step of a run on record runs on a bad dependency. |
| `assignments` | What survives lost and late calls, lapsing leases, an agent crash and a restart of the control plane? | No job is run by two slots while the control plane stays up, its result is decided once, success is reported only for a job that was run to its end, and a release that succeeded leaves only what Docker kept or a step that was given up made late. |
| `assignments_liveness` | Does every `Dispatch` and `Release` return? | Yes, and nothing stays in the coordinator, although calls are lost and the agent crashes. |
| `runner` | Do backends leave anything behind, or judge wrongly? | No box without an owner; after a release nothing is left but what could not be removed and what steps made that ran across it or came later; no pass without a run, services stay up, thresholds read the percentiles of the samples, failed requests count and silence passes no limit. |
| `resolution` | Does resolution mean what the files say? | Yes: written order, strongest layer, profile and mode, unambiguous names, plans as their statements say and within limits; gateway routes reach their operations and mock values have their types, warmed suites are resolved, caches follow their stores unless a call failed or was overtaken, launches that can read the store use the chosen default profile, and reports that are read whole count each case once, the others never too many. |
| `services_fair` | Do registry, stream, direct dispatch and cron jobs come to the right end under faults? | Yes: registry and page catch up, a dispatch says what happened (or that the answer ended without saying) and a canceled step stops, reports are true and firings come to theirs. |
| `services` | Do persistence, overview, environments, accounts, resets, limits, single sign-on, mock state and step hand-over keep their promises under overlapping requests and failing stores? | Yes, with the exceptions their comments state: what is saved and shown catches up, lost runs are zombies and runs under way are not, sign-in and resets are sound, reset mocks start afresh, steps arrive as planned and plugins find the services that are up. |

The parts of `services`, `services_fair` and `resolution` share no state. A behaviour is about one
of them (`part`) and the others stay as they start, so a run is the union of their state spaces, not
the product.

The mutants in `PROJECT.json` pair each property with a plausible mistake in the
code that violates it; a property made of named parts has one for every part.

`late_report`, `cron_disabled` and `sidecar_taken` end with a counterexample; see
[below](#where-the-code-and-its-documentation-disagree).

Deadlock is checked in `Assignments`, where time always passes. It is off elsewhere: a queue
that was closed, a run that has ended, a question that is answered or a service whose bounds are used up
stops.

## Bounds

* `queue`: three tasks, the second needing the first and the third only waiting
  for it, on one slot. Two tasks that become ready together compete for the slot; with
  leases lapsing, a task may still run while the next one starts. Larger queues,
  pools and capacities that change are covered by the proofs.
* `execution`: six steps. `health` after `primary`, `rollback` on its failure,
  `notify` after `rollback`, and a separate branch `lint` (continue on failure) with
  `report`; two slots. This is the suite of the code's own test of failure hooks
  with an unrelated branch added: the smallest graph in which skipping, a handler
  chain and a tolerated failure meet. Three of them, of every kind, may be Kubernetes services, whose result may be
  "canceled". One launch.
* `execution_disturbed`: two runs on one slot, `MaxStored` 1 so that the second
  launch evicts the first once it has ended; only `primary` is remote and lapses
  (`Lapsing`), `Close` may happen (`Stoppable`) and give up (`DrainTimesOut`).
* `assignments`: one step, one release job, two slots: enough for two slots to
  meet in one job, and for a late step to meet its release. `TTL` is two ticks, so a
  renewal can be missed once without the lease lapsing. One crash, one restart.
* `assignments_liveness`: one slot, one crash, no restart.
* `runner`: two steps in every pair of eleven shapes (one for each branch of the routes) on
  three backends, any call failing; five traffic plans over both kinds of stages and
  both sources of results, with latencies on both sides of the edges of the histogram's classes and sidecars that
  answer with none, one or thirteen requests (a histogram of shares that round).
* `resolution`: every shape of three calls over two importable suites with and without
  pre-hooks, and one catalog for each refusal; every combination of layers of one variable; pairs of backends;
  triples of services; plans with names bound twice and with limits met, exceeded and
  overflown. Durations have five bits and limits are single digits, so that sums overflow as 64 bits do
  past the real limits. Two users of a cache and one outage, three suites that import one another, three versions of a
  package: two with other defaults, one with nothing to launch.
* `services_fair`: two agents, one of which may stop or crash, and one fault: enough for two
  loads before either save. Two writers, three events, the smallest channels, one
  broken connection: an overtaken and a dropped event. One firing over two suites, three edits,
  one restart. `cron_disabled` has two firings.
* `services`: two actors and one fault for each service (two saves, two requests with a failing store call, two
  tabs); two mock calls of two suites over two keys, two resets and three stores: a copy from key to key around
  a reset; one execution of two steps that two goroutines change three times, and a channel of one place: a
  snapshot overtaken, an overview dropped and one sent to a closed channel; three reset links over two people;
  windows of two with limits of three and two. With these bounds the mutants of every property are caught.
* `sidecar_taken`: two boots, three containers.

## Fairness

* Every goroutine of the control plane that can take a step takes it eventually (the Go scheduler): the
  dispatcher, a task's goroutine, the boot, the release; in `services_fair` the save of an operation that has
  loaded the file, the send of an appended event, the steps of a firing but its report, the watcher and the
  handler of a dispatch.
* `Task.Run`, backends and executors return eventually; in `DirectDispatch` only an
  executor whose context has ended does.
* Agents poll and send heartbeats, time passes and the expiry loops tick (their tickers); a page
  that is open subscribes, receives and refreshes (its timers).
* Nothing is assumed of launches, lapses, renewals, reports, cancelations, persistence, delivery of a call,
  crashes, shutdown, edits, the end of an execution a cron job waits for (the wait has a limit), or the report
  of a firing: `http.Post` and `smtp.SendMail` get neither a context nor a deadline (`cronjobs/service.go:313`,
  `:321`), so a firing may hang in it.

Weak fairness is enough throughout: none of the fair steps is disabled again by a
competitor for ever.

## Proofs

TLC looks at small instances; the theorems below hold for every value of the constants: any suites, runs,
slots, agents, requests, and any bounds. Each safety theorem rests on an inductive invariant, a conjunction of
named parts with a comment on what each says, in the module named; its lemmas show that every action keeps it.
They were tried with TLC on small instances before they were proved.

| Module | What the theorems state |
|---|---|
| `QueueProofs` | the queue's safety properties |
| `ExecutionProofs` | the execution service's, and that it is a `QueueSpec` caller |
| `RefinementProofs` | the service implements `AbstractRun` |
| `AssignmentsProofs` | the agent protocol's |
| `BackendsProofs` | the life of containers and pods; the verdict of traffic steps |
| `EventStreamProofs` | a subscription has no gap and no overlap; direct dispatch and cron jobs tell the truth |
| `StoresProofs` | the suite reader's warm-up, the caches; choice of the backend, names on the network, traffic plans, the default profile |
| `ServicesProofs` | environments, accounts, resets, limits, single sign-on, saves of executions, overview, mock state, step hand-over |

Assumptions on the constants, each evaluated by TLC in the runs that use the module: `QueueAssumption` (types;
places are distinct within a batch), `TopologicalOrder` (dependencies are in the same batch, before their
dependants, which is how the suites package sorts them), `ExecutionAssumption` and `EdgesSplit` (hard and soft
dependencies are computed from `DependsOn` and `OnFailure` as `bootExecution` does), `AssignmentsAssumption`
(finitely many jobs, each step has a release, a lease lasts at least a tick), `BackendsAssumption`,
`LinksAssumption`, `StreamAssumption`, `CacheAssumption`, `CronAssumption`, `LoadAssumption`,
`LaunchAssumption`, `OverviewAssumption` (types of the bounds and inputs, finite sets), `MockAssumption` (the
word for "no key" is no key), `ThrottleAssumption` (limits are positive, as the handlers and the lockout set
them), `HandoffAssumption` (a resolved topology has no two nodes of one name: `assignIDs` makes the name the id,
and `resolveTopology` refuses two of one id), `PlanAssumption` (statements have the types the parser gives them;
the duration limit is below the range of `time.Duration`), `ReleasesAssumption` (no two profiles of a package
have one name: `perf.yaml` beside `perf.yml` is excluded).

### Queue

| Theorem | Property | Strengthening it needs |
|---|---|---|
| `TypeCorrect` | `QueueTypeOK` | inductive as it stands |
| `RunOrNotify` | `RunOrNotifyNotBoth` | `Lifecycle`: for each task, which combinations of entry state, goroutine, claim and callback can occur (a task that was started was claimed once; a canceled one was never claimed) |
| `SettledStays` | `SettledForever` | `Lifecycle`, since only `Claim` and `finish` write states and both look at them first |
| `RunOrder` | `RunAfterHardDependencies` | `DependenciesReturned`: the fact for a claimed but not yet started task, and that an entry is "succeeded" only after its `Run` returned nil (a lapse can only fail it) |
| `SlotsExact` | `SlotsAreExact` | `SlotsHeld`: `counted` holds exactly for running entries, so each release finds what its claim took and a slot is never freed twice; with the check in `Claim` the entries stay within the largest capacity reported |
| `WakeupNeverLost` | `NoLostWakeup` | `RestIsJustified`: from the end of a scan that found nothing until the dispatcher sleeps, either a token is waiting or no task can be started or canceled; every action that can change the second leaves the first. Pruning leaves no token, and is harmless because nothing pending is in a group when it is pruned |

That callers prune only settled groups (`Prunable`) is part of the queue's specification. `ServiceUsesQueue`
shows that the execution service keeps to it.

`QueueTypeOK` and `SettledForever` are proved and need no run of
their own; the others are also properties of the run `queue`.

### Execution service

| Theorem | Property |
|---|---|
| `ServiceTypeCorrect` | `ServiceTypeOK` |
| `ServiceInvariant` | `IndInv`, below |
| `ServiceUsesQueue` | every behaviour of `Execution` is one of `QueueSpec` |
| `QueueUnderService` | hence the queue's theorems hold under the service |
| `PrunedWhenSettled` | `PruneWhenSettled` |
| `DestroyOnce` | `DestroyedOnce` |
| `LiveBackend` | `StepsRunOnLiveBackend`, until `Close` goes on to destroy what is left |
| `GoodDependencies` | `RunsOnGoodDependencies` |

They hold with everything that disturbs a run: lapsing leases, late reports, eviction, shutdown. `IndInv` is the
queue's types and `Lifecycle`, `DependenciesReturned`, and `ServiceInv`, whose parts tie the two modules together.
`NodeLife` says that a step is inside `runNode` only while its goroutine or its callback is, and that what the
queue is told is the step's own result; `PlanLife` and `Recorded` that a step is marked once, with the status it
was planned to have; `Counted` that the counter is the number of marked steps, so that `LastReleases` (whoever
releases a run does so when all its steps are marked) follows from "this was the last one". From this come
`PrunedWhenSettled`, which in turn is what `ServiceUsesQueue` needs, and, with `OneTeardown` (the released
flag admits one caller) and `BackendUp`, the backend's life. `Founded` carries the queue's order of returns over to
outcomes: a dependency that returned nil was healthy, tolerated, or skipped, and `shouldSkipNode` excludes the last.

`LiveBackend` stops where the code does: after `Close` has given up waiting, steps may still run on a
backend it destroys (listed [below](#where-the-code-and-its-documentation-disagree)).

### Refinement

`ServiceRefinesRun` is `Undisturbed => (Spec => RefinesAbstractRun)`, with `Undisturbed == ~Stoppable /\ Remote
= {} /\ Lapsing = {}`, which is the instance of the run `execution`; there it holds for every suite, any number
of runs, eviction, canceled services and failing boots included. Each hypothesis is needed, and each is a
behaviour of the code that breaks the promise: a lease that lapses has dependants skipped before the step has an
outcome; a late report takes an outcome back (`late_report`); `Close` releases runs whose steps have not
settled.

`RefInv` (theorem `UndisturbedInvariant`) says what the queue's entries mean for outcomes (`EntryMeans`), that a
step starts when all it comes after is through (`DepsDone`), that a step that ran had nothing skipped upstream
(`RanWell`), and why a step that was planned to be skipped is excused, in terms that later events cannot change
(`SkipJustified`): `shouldSkipNode` reads statuses at one moment and marks at a later one. The transitive
`Upstream` is defined as the least closed set, which gives its two defining properties without induction.

### Agents, backends, streams, stores, services

| Theorem | Property | Invariant, and why it is needed |
|---|---|---|
| `AssignmentsTypeCorrect` | the module's type invariant | with the places a slot can be in for each kind of job |
| `ResultDecidedOnce` | `ResultFinal` | types suffice: every writer of a result looks at the status first |
| `JobRunByOne` | `RunByOne` | `OutOnce`: a pending job is with no slot and no message, and is never pending again after `Wait` returned |
| `SuccessEarned` | `SuccessIsEarned` | `Earned` follows "ok" from the slot over the message and the entry to the caller; the half about hosts needs `Returned` (a release is submitted after its steps returned), `StepsNotCanceled` and `RemovedForGood` (what a removal left is `refused`, what came later is of a step that was given up) |
| `BackendsInvariant`, `BoxesOwned`, `ReleaseIsComplete`, `PassesOnlyIfRan` | `EveryBoxHasAnOwner`, `ReleasedLeavesNothing`, `PassedMeansRan` | `Called`, `Kept`, `Owned`, `Reached`: the place of a call decides what box there can be and who removes it; `Settled`: a crash leaves no call under way, and those under way at a release are known (`after`) |
| `ServicesStayUp` | `ServiceStaysUp` | the same |
| `TrafficJudged` | `LoadVerdictSound` | `LoadIndInv`: what holds between samples, failures and the verdict; the histogram is that of the samples (`HistogramOf`: each sample is counted once, in its class). `FirstBucketIsExact` is the arithmetic: the first class whose running total reaches a rank is the class of the sample of that rank, since classes are monotone |
| `SubscriptionsExact` | `SubscriptionExact` | `OpenExact`: what is due is the disjoint union of received, buffered, coming and lost, and only what was appended after the channel was made can be coming or lost |
| `DispatchesHonest` | `DispatchHonest`, the safety half of `DirectDispatchFaithful` | `DispatchInv`: a connection that has ended has ended the job's context, or there is no job; "ok" is the agent's word or that of a stream that ended without one |
| `CronReportsTrue` | `PassedReportsTrue`, the safety half of `CronReportsHonest` | `FiringSound`: suites come one after the other, and a healthy result is that of an execution that has ended so, which nothing changes any more |
| `WarmUpResolves` | `WarmSuitesResolved` | `ReaderInv`: entries not written since the snapshot are as the snapshot, then as resolved from it |
| `CachesFollow` | `CachesFollowStores` | `CacheInv`: entries follow from the moment a save touched them, unless a call of it failed; nothing is listed under a stamp not reached yet (`NothingAhead`); a listing under the current stamp is current unless a save is still to bump it |
| `LaunchesAreSound` | `LaunchSound` | that an answer is the answer to its question; the rest is about `ResolveBackend` and `AliasesForNode`, for all settings and all nodes |
| `PlansAreSound` | `AcceptedPlanSound` | `ReadInv`: above every statement each name has the value it was given last, and every value is made of what its own names stood for (`BoundOk`); `TallyInv`: the running totals are of what was checked, and the duration is exact until it passes the range; `PhaseInv`: what each phase took for granted |
| `DefaultStays` | `DefaultIsTheChosen` | `ProfilesInv`: stored ids are distinct and the merged list's default is the chosen one. Merging, normalising and saving keep a default that is marked once (`Settled`), wherever it stands in package and document; what a launch falls back to is found in the package |
| `ZombiesTold` | `ZombiesAreLost` | `EnvironmentsInv`: this process's runs on the host carry its process id, and that id is among the processes |
| `ResetLinksWorkOnce` | `LinksWorkOnce` | `ResetInv`: an unused link's token waits in the store, a used one is with one reset |
| `SignedInByOwnLogin` | `SignedInAsAsked` | `SsoInv`: a cookie that names a tab's login was set by that login |
| `AccountsStayWhole` | `AccountsWhole` | `AccountsInv`: what each request in flight holds, and that no two hold one workspace; the account of a call that failed after it was applied is known (`orphaned`) |
| `PersistenceCatchesUp` | `PersistCatchesUp` | `PersistInv`: a save nothing disturbs carries the executions as they are for what it has not written yet, but those booted since |
| `OverviewShowsAll` | `OverviewCatchesUp` | `OverviewInv`: a snapshot is the execution as it is or an older one; the newest is shown or on its way (`ToBeShown`); a healthy one has all steps at their end or a late report (`SoundRecords`); the last overview in a channel is the last that was sent (`WatchFollows`) |
| `WindowsHold` | `WindowsRespected` | `NothingForgotten`: what is in the present window is remembered although lists are pruned; `FewCompare`: failures and comparisons under way together stay below the limit plus the callers |
| `ResetsStartAfresh` | `ResetStartsAfresh` | `KeysRegistered`: a reset of a suite forgets exactly the keys its calls have stored; `WaitingFresh`: what a waiting call will store is of the present life or has escaped |
| `HandoffsAreSound` | `HandoffSound` | `HandedIsConverted`: at each place the step is what the conversions so far make of the planned one; `PluginsInv`: where ports are resolved, a running service has published every port a plugin names |
| `SignInIsSound`, `RecordsAllCatchUp` | `SignInSound`, `RecordsCatchUp` | none of their own: a step of the composition `MCServices` is a step or a stutter of each service, so the theorems about the services hold in it |

`LinksWorkOnce`, `SignedInAsAsked`, `WindowsRespected` and `AccountsWhole` are the conjuncts of `SignInSound`;
`PersistCatchesUp` and `OverviewCatchesUp` are `RecordsCatchUp`.

What the proofs changed. `OverviewCatchesUp` could not be proved as first stated, and three goroutines show why:
the newest snapshot of an execution is shown, overtaken by the oldest, and that one replaced by the one in the
middle, which looks like a step forward but is still not the execution as it is. With two goroutines, as in the
run, this cannot happen; the history variable `overtaken` is now cleared only by the execution as it is.
`RunsOnGoodDependencies` turned out to be false for steps of a failed run that was evicted while they wait:
nothing about them is recorded any more, so a step runs on a skipped dependency. The property is now about runs
on record, and the behaviour is listed below.

Others were true in the run and false in general, and are now stated with what they need, or their models were wrong
where no instance had looked:

* `LaunchSound`: a launch that asks for "auto" is like one that asks for nothing; a mode the code does not know
  is local; and with four nodes a suite `a-b` with a service `c` and a suite `a` with a service `b-c` share a
  qualified name.
* `HandoffSound`: a control plane that is told it is at a loopback address leaves the addresses of gateways as
  they are.
* `CronReportsHonest`: a job without suites reports at once.
* `LoadVerdictSound`: a sidecar that says it sent nothing leaves no histogram, and a stage of zero seconds runs
  for one.
* `DefaultIsTheChosen`: where a package brings nothing to launch there is no default, and the first profile a user
  creates becomes it without being asked to. Two files of a package with one name are merged as two records of one id,
  of which operations see the first.

### Only model-checked

* All liveness: `EveryTaskSettles`, `EveryRunEnds`, `ResourcesReleased`, `DispatchReturns`, and the
  properties of `services_fair` but `SubscriptionExact`. The prover has no support for fairness.
* What recursive definitions compute for every input, for which the prover would need induction over data:
  `WrittenOrderKept` over the expansion and the layers of `SuiteTopology`, `EnvironmentIsLayered` over a chain
  of profiles that is folded, `ReportsCountCases` over nested suites of a report, and `MocksAsDescribed` over
  nested schemas and passes over a package's files.

## Where the code and its documentation disagree

Each is a run that TLC ends with a counterexample; `PROJECT.json` quotes the lines.

* `late_report`: a state report of an agent that lands after its step was marked
  failed sets the status back to running, and the failure handler is skipped.
* `cron_disabled`: a job that is disabled while it runs is written back enabled when the run ends.
* `sidecar_taken`: of two executions of a suite that boot together, the second removes the
  sidecar the first was told is running.

Also met while modelling. The models contain these behaviours (the properties are stated so that they are
allowed, with the exception in the property's comment) or lie next to them.

Queue and executions:

* The expiry loop frees the slot of a task that is still inside `Run`; the pool then runs more tasks
  than its capacity (`queue.go:291` against `:24`). `SlotsAreExact` is about entries.
* The context the queue cancels after a hard failure is not the one steps run in, so
  unrelated branches that are executing go on (`runtime.go:490`, `docs/suite-authoring.md:232`).
* The dispatcher may start a step after `Close` drained the queue, on a backend that `Close` destroys
  (`queue.go:242`, `runner.go:121`).
* A failed run whose other steps still run can be evicted and is then never released
  (`runtime.go:873`); its steps that still wait then run on skipped dependencies, since nothing is recorded
  of them (`flow.go:138`); evicted executions are never deleted from the store.
* A handler of two steps, one of which depends on the other, is skipped when the first fails, since the
  second is then skipped.
* A Kubernetes service whose crash window outlasts the limit of fifteen minutes is reported canceled although nothing
  canceled it (`kubernetes_services.go:352`), and fails the run even with `continue_on_failure`.
* The boot of an execution is not saved until something else changes (`runtime.go:291`), and a failed write of
  the cache is ignored (`runtime_cache.go:101`); a step reported late shows as running in a healthy run
  (`runtime.go:691`).
* `PruneGroup` called by the last step leaves the entries that have not returned yet;
  `Close` may return while an `OnCanceled` callback still tears a backend down.
* The overview store's `Dispatch` may send on a channel that was just closed (`engine/store.go:39`); snapshots
  of one execution may overtake each other, and the older one, or one in the middle, stays (`runtime.go:787`);
  an execution evicted before its last sync stays in the overview as it was.

Agents:

* A step that starts after its lease lapsed and its execution was released leaves a network behind
  (`cmd/agent/main.go:76`).
* A release is reported successful whatever Docker failed to remove (`docker_exec.go:103`), and may run while a
  step whose lease has lapsed still does.
* A stream of the direct dispatcher that ends cleanly without a result is taken for success
  (`http_dispatcher.go:120`).
* A job restored after a restart has no caller that drops it, and may run a second time.
* An agent whose renewal was taken but not answered stops a step before its lease ends.
* After a restart of an agent its old slots are shown until its record is written again.
* The direct dispatcher's client gives up after 30 seconds.
* Agents collect no exports; a plugin's addresses are not rewritten on the remote backend (`runtime.go:1050`);
  step files that are not UTF-8 are changed on the way.

Backends and runner:

* On the remote backend a test whose script is missing is simulated.
* A reap counts what it listed, also where `docker rm` failed; a process id that is used again hides a leak.
* A failing run that is silent for two minutes is shown as a leak (`docs/api.md`). So is a run under way when
  `ps` fails (`environments/runtime.go:40`), and one elsewhere whose record was evicted (`inventory.go:64`).

Suites, mocks and gateway:

* `on_failure` of a plugin step is dropped (`starlark_eval.go:853`, `docs/plugins.md:114`).
* HTTP routes of operations no API file describes do not reach the mock (`suite_bridge.go`, `render.go:55`); a
  surface of several adapters gets the protocol of whichever comes first.
* A definition whose pull failed is cached without files for good (`suite_bridge.go:117`), and a `Get` that began
  early may overwrite the entry of the warm-up (`:697`).
* Required headers of a mock are never enforced (`cue_schema.go:199`, `schema_runtime.go:538`); two calls that
  increment one counter may count once; state keys are shared by all suites; what a mutation key copies to a key
  its suite never stored survives the suite's reset (`state.go:57`).
* Of two operations whose paths overlap (`/orders/{id}`, `/orders/latest`) the mock answers with the one that
  comes first.
* Version comparison is not transitive (`version.go:45`).

Services:

* An update of a cron job is scheduled before the store has accepted it, and two updates at once leave an entry of the
  scheduler that no one knows.
* A report to Slack or by mail has no limit of time (`cronjobs/service.go:313`, `:321`).
* Seeding leaves a workspace when the creation of its user fails; an account whose creation is applied but
  answered with an error loses its workspace (`handler.go:266`).
* Two password resets in flight may land in either order, and a failed update spends the link.
* A settings cache may be filled with what a save has just replaced (`platform/cache.go:36`); a save whose
  read-back fails leaves the old entry (`:46`); a scope stamp that cannot be read is taken for "0".
* A profile of the package that was deleted comes back (`docs/profiles.md:34`); a launch that cannot read the
  store uses the package's own default (`profiles/service.go:256`); a profile created as the default is not the
  default when there is one already.
* The event client does not reconnect after a stream that ended cleanly, and the log stream has no refresh.
* Two exports of one name and format are one artifact (`artifacts.go:148`); a JUnit suite that states some
  outcomes and not others is not counted (`report_formats.go:122`), its cases beside nested suites are dropped
  (`:105`); a CTRF report that states only others counts them twice.

## What the models leave out

* The text of logs, events, spans, metrics, mails, templates and configuration documents.
* Failure of `DestroyExecution`, which is logged and not tried again.
* `CloseDestroys` sets the flag and tears down in one step; in the code another
  caller can only find the flag set in between and go away.
* A snapshot of the coordinator is written in one step.
* Suites without steps.
* Comparison without case, trimming and other normal forms of names, except where two of them meet (`Gateway`,
  `StepHandoff`).
* Cryptography: a token that verifies is the one that was issued.
* `Backends` is about one execution; executions share nothing but the sidecar, which has its own module.

## Not modelled

* **Catalog and platform settings**: discovery in registries and the normal form of a settings document. What
  settings mean is in `LaunchPlan`, what their caches do in `CatalogCache`.
* **Database stores**: statements of a driver. The calls that matter to a component are steps of its module.
* **HTTP server, wiring, telemetry**: no state of their own.
* **Starlark interpreter, older textual topology syntax, example generator, standard library**: parsing and text.
* **Command line, MCP server, web UI**: clients of the HTTP API, but for the page in `EventStream`.
* Generated protobuf code.

## Plan

Modules: done, in the order queue and execution, assignments, abstract run, backends, resolution, services.

Proofs: done for every safety property of the passing runs but the four under
[only model-checked](#only-model-checked). Left:

1. The four: each needs induction over a recursive definition. `EnvironmentIsLayered` is the nearest, if the chain
   were given by its positions; that would make the model the reference it is compared with.
2. Liveness, once the prover supports fairness: `EveryTaskSettles` and `EveryRunEnds` first, from `NoLostWakeup`
   and `IndInv`, which are proved.
3. `AgentRegistry` has no safety property of its own: any lost update is allowed, and that none is final is liveness.

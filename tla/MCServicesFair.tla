---------------------------- MODULE MCServicesFair --------------------------
(***************************************************************************)
(* Small instances of the services whose properties are about what         *)
(* eventually happens, or about single steps: the agent registry, the      *)
(* event stream of a page, the direct dispatcher and cron jobs.  They      *)
(* share no state, so a behaviour is about one of them (part) and the      *)
(* others stay as they start.                                              *)
(***************************************************************************)
EXTENDS AgentRegistry, EventStream, DirectDispatch, CronJobs

CONSTANT Parts

VARIABLE part

vars == <<registryVars, streamVars, dispatchVars, cronVars, part>>

MCInit ==
    /\ part \in Parts
    /\ RegistryInit /\ StreamInit /\ DispatchInit /\ CronInit

MCNext ==
    /\ UNCHANGED part
    /\ \/ /\ part = "registry" /\ RegistryNext
          /\ UNCHANGED <<streamVars, dispatchVars, cronVars>>
       \/ /\ part = "stream" /\ StreamNext
          /\ UNCHANGED <<registryVars, dispatchVars, cronVars>>
       \/ /\ part = "dispatch" /\ DispatchNext
          /\ UNCHANGED <<registryVars, streamVars, cronVars>>
       \/ /\ part = "cron" /\ CronNext
          /\ UNCHANGED <<registryVars, streamVars, dispatchVars>>

\* Each part has the fairness of its own module, restricted to the behaviours
\* that are about it.
RegistryRuns(A) == part = "registry" /\ A
StreamRuns(A)   == part = "stream" /\ A
DispatchRuns(A) == part = "dispatch" /\ A
CronRuns(A)     == part = "cron" /\ A

MCFairness ==
    /\ \A a \in Agents : WF_registryVars(RegistryRuns(Load(a))) /\ WF_registryVars(RegistryRuns(Save(a)))
    /\ WF_registryVars(RegistryRuns(SweepLoads)) /\ WF_registryVars(RegistryRuns(SweepSaves))
    /\ WF_registryVars(RegistryRuns(TimePasses))
    /\ \A w \in Writers : WF_streamVars(StreamRuns(Publish(w)))
    /\ WF_streamVars(StreamRuns(Subscribe)) /\ WF_streamVars(StreamRuns(Receive))
    /\ WF_streamVars(StreamRuns(Refresh)) /\ WF_streamVars(StreamRuns(RefreshArrives))
    /\ WF_dispatchVars(DispatchRuns(Post)) /\ WF_dispatchVars(DispatchRuns(Answered200))
    /\ WF_dispatchVars(DispatchRuns(ReadDone)) /\ WF_dispatchVars(DispatchRuns(Cleanup))
    /\ WF_dispatchVars(DispatchRuns(ReadFails)) /\ WF_dispatchVars(DispatchRuns(RequestEnds))
    /\ WF_dispatchVars(DispatchRuns(WatcherWakes)) /\ WF_dispatchVars(DispatchRuns(CancelJob))
    /\ WF_dispatchVars(DispatchRuns(WatcherDrops)) /\ WF_dispatchVars(DispatchRuns(RegisterJob))
    /\ WF_dispatchVars(DispatchRuns(StreamEnds)) /\ WF_dispatchVars(DispatchRuns(stopping /\ ExecutorReturns))
    /\ \A k \in 1..Firings : WF_cronVars(CronRuns(FiringStep(k)))

MCSpec == MCInit /\ [][MCNext]_vars /\ MCFairness
=============================================================================

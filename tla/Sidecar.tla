------------------------------ MODULE Sidecar -------------------------------
(***************************************************************************)
(* EnsureSuiteSidecar: the long-lived APISIX container that serves one     *)
(* suite and profile, shared by its executions.  Every execution that      *)
(* boots calls it, from a goroutine of its own and under no lock; its      *)
(* steps then read the container's address when they start                 *)
(* (SuiteSidecarURL).  Docker knows one container by a name.               *)
(***************************************************************************)
EXTENDS Naturals

CONSTANTS
    Boots,        \* the executions that boot
    MaxStarts     \* how many containers are created in all, a bound

VARIABLES
    boot,         \* boot[c]: where the call of c is
    mine,         \* mine[c]: the container c created, 0 = none
    sidecar,      \* the container that holds the name, 0 = none
    sidecarState, \* its state: none, created, running, exited
    started       \* how many containers have been created

sidecarVars == <<boot, mine, sidecar, sidecarState, started>>

SidecarInit ==
    /\ boot = [c \in Boots |-> "boot"] /\ mine = [c \in Boots |-> 0]
    /\ sidecar = 0 /\ sidecarState = "none" /\ started = 0

BootAt(c, p) == boot' = [boot EXCEPT ![c] = p]
SidecarGone == sidecar' = 0 /\ sidecarState' = "none"

\* ensureSuiteSidecar: a suite that needs no sidecar calls nothing; settings that
\* cannot be loaded fail the boot.
EnsureSuiteSidecar(c) ==
    /\ boot[c] = "boot" /\ (BootAt(c, "inspect") \/ BootAt(c, "failed"))
    /\ UNCHANGED <<mine, sidecar, sidecarState, started>>

Inspect(c) ==
    /\ boot[c] = "inspect"
    /\ BootAt(c, IF sidecarState = "running" THEN "ready" ELSE "configure")
    /\ UNCHANGED <<mine, sidecar, sidecarState, started>>

\* The configuration is written, then whatever holds the name is removed.
RemoveStale(c) ==
    /\ boot[c] = "configure"
    /\ \/ BootAt(c, "failed") /\ UNCHANGED <<sidecar, sidecarState>>
       \/ BootAt(c, "create") /\ SidecarGone
    /\ UNCHANGED <<mine, started>>

\* The name is taken, the image cannot be pulled, or the container is created.
CreateSidecar(c) ==
    /\ boot[c] = "create" /\ started < MaxStarts
    /\ \/ BootAt(c, "failed") /\ UNCHANGED <<mine, sidecar, sidecarState, started>>
       \/ /\ sidecar = 0 /\ BootAt(c, "start")
          /\ started' = started + 1 /\ sidecar' = started'
          /\ sidecarState' = "created" /\ mine' = [mine EXCEPT ![c] = started']

\* A container that does not start, or that someone removed, fails the call.
StartSidecar(c) ==
    /\ boot[c] = "start"
    /\ \/ BootAt(c, "failed") /\ (IF sidecar = mine[c] THEN SidecarGone ELSE UNCHANGED <<sidecar, sidecarState>>)
       \/ /\ sidecar = mine[c] /\ BootAt(c, "window")
          /\ sidecarState' = "running" /\ UNCHANGED sidecar
    /\ UNCHANGED <<mine, started>>

\* The window that catches an immediate crash; the container is not removed.
SidecarWindow(c) ==
    /\ boot[c] = "window"
    /\ BootAt(c, IF sidecar = mine[c] /\ sidecarState = "running" THEN "ready" ELSE "failed")
    /\ UNCHANGED <<mine, sidecar, sidecarState, started>>

\* The execution has run its steps.
BootedRunEnds(c) ==
    /\ boot[c] = "ready" /\ BootAt(c, "boot")
    /\ UNCHANGED <<mine, sidecar, sidecarState, started>>

SidecarExits ==
    /\ sidecarState = "running" /\ sidecarState' = "exited"
    /\ UNCHANGED <<boot, mine, sidecar, started>>

SidecarNext ==
    \/ SidecarExits
    \/ \E c \in Boots : \/ EnsureSuiteSidecar(c) \/ Inspect(c) \/ RemoveStale(c) \/ CreateSidecar(c) \/ StartSidecar(c)
                        \/ SidecarWindow(c) \/ BootedRunEnds(c)

SidecarSpec == SidecarInit /\ [][SidecarNext]_sidecarVars

\* "Idempotent - safe to call before every execution" (docker_exec.go): a call
\* never takes a running sidecar away from an execution that was told it runs.
ReadySidecarKept ==
    [][\A c \in Boots :
          boot[c] = "ready" /\ boot'[c] = "ready" /\ sidecarState = "running" => sidecar' = sidecar]_sidecarVars
=============================================================================

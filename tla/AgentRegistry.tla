--------------------------- MODULE AgentRegistry ----------------------------
(***************************************************************************)
(* Agents make themselves known (agent/registry.go, runtime_store.go,      *)
(* gateway.go, control_plane_client.go, cmd/agent/main.go).                *)
(*                                                                         *)
(* An agent registers, sends heartbeats and registers again when one       *)
(* fails.  The registry keeps all agents in one file: every operation      *)
(* loads the whole file, changes its own record and saves the file, and    *)
(* nothing keeps two operations apart.  A sweep marks agents offline whose *)
(* heartbeat is too old.  When the file cannot be read or written the      *)
(* operation falls back to a map in memory.                                *)
(*                                                                         *)
(* Time is one bit per record: its heartbeat is older than the expiry or   *)
(* not.                                                                    *)
(***************************************************************************)
EXTENDS Naturals

CONSTANTS
    Agents,       \* the agents' ids
    Flaky,        \* bound: the agents that may stop or crash
    MaxFaults     \* bound: failed reads and writes, lost answers, restarts of the control plane

VARIABLES
    file,         \* the runtime file: agent -> record, or Corrupt
    memory,       \* Registry.agents, the map used when the file fails
    operation,    \* operation[p]: the operation p has loaded the file for
    agent,        \* agent[a]: "down", "retrying", "registered" or "stopping"
    faults

registryVars == <<file, memory, operation, agent, faults>>

Sweep == "sweep"
NoOperation == [op |-> "none", file |-> <<>>, old |-> FALSE]
NoRecord == [status |-> "none", old |-> FALSE]
NoAgents == [a \in Agents |-> NoRecord]
Corrupt == <<>>

RegistryInit ==
    /\ file = NoAgents /\ memory = NoAgents
    /\ operation = [p \in Agents \cup {Sweep} |-> NoOperation]
    /\ agent = [a \in Agents |-> "down"] /\ faults = 0

Fault == faults < MaxFaults /\ faults' = faults + 1
Up(a) == agent[a] \in {"retrying", "registered"}

\* What the other components see of an agent.
Get(a) == IF file = Corrupt THEN memory[a] ELSE file[a]
IsAvailable(a) == Get(a).status = "online"

-----------------------------------------------------------------------------
\* The changes of one record.

Registered(old) == [status |-> "online", old |-> old]
Beaten(record, old) == [record EXCEPT !.status = "online", !.old = old]
Offline(record) == [record EXCEPT !.status = "offline", !.old = FALSE]   \* the age of an offline record is never read
Expired(record) == record.status = "online" /\ record.old

ExpireStaleAgents(records) ==
    [a \in Agents |-> IF Expired(records[a]) THEN Offline(records[a]) ELSE records[a]]

\* An operation on a map of records; "absent" when it finds no record.
Apply(op, a, records, old) ==
    CASE op = "register"   -> [records EXCEPT ![a] = Registered(old)]
      [] op = "heartbeat"  -> [records EXCEPT ![a] = Beaten(@, old)]
      [] op = "unregister" -> [records EXCEPT ![a] = Offline(@)]

Missing(op, a, records) == op # "register" /\ records[a] = NoRecord

\* Mutant: the agent waits for a better heartbeat instead of registering again.
KeepGoing(a, ok) ==
    agent' = [agent EXCEPT ![a] = CASE @ \in {"stopping", "down"} -> "down"
                                    [] @ = "retrying" /\ ok      -> "registered"
                                    [] OTHER                     -> @]

\* registerAndHeartbeat on the answer: a heartbeat that fails means registering
\* again.
Answered(a, ok) ==
    agent' = [agent EXCEPT ![a] = CASE @ \in {"stopping", "down"} -> "down"
                                    [] OTHER -> IF ok THEN "registered" ELSE "retrying"]

\* The operation done on the map in memory, under the lock.
InMemory(op, a, old) ==
    IF Missing(op, a, memory)
    THEN Answered(a, op = "unregister") /\ UNCHANGED memory
    ELSE memory' = Apply(op, a, memory, old) /\ Answered(a, TRUE)

-----------------------------------------------------------------------------
\* Operations of an agent: the request arrives and loads the file (an agent
\* started anew waits for the last request of the one before) ...

AgentStarts(a) ==
    /\ agent[a] = "down" /\ operation[a] = NoOperation
    /\ agent' = [agent EXCEPT ![a] = "retrying"]
    /\ UNCHANGED <<file, memory, operation, faults>>

Operation(a) ==
    CASE agent[a] = "retrying"   -> "register"
      [] agent[a] = "registered" -> "heartbeat"
      [] agent[a] = "stopping"   -> "unregister"

Load(a) ==
    /\ agent[a] # "down" /\ operation[a] = NoOperation
    /\ \/ /\ file # Corrupt
          /\ operation' = [operation EXCEPT ![a] = [op |-> Operation(a), file |-> file, old |-> FALSE]]
          /\ UNCHANGED <<memory, agent, faults>>
       \/ /\ IF file = Corrupt THEN UNCHANGED faults ELSE Fault
          /\ InMemory(Operation(a), a, FALSE) /\ UNCHANGED operation
    /\ UNCHANGED file

\* ... and saves it with its own record changed.  A heartbeat of an unknown
\* agent is refused; unregistering one falls through to the map in memory.
Save(a) ==
    LET r == operation[a]
    IN /\ r # NoOperation /\ operation' = [operation EXCEPT ![a] = NoOperation]
       /\ IF Missing(r.op, a, r.file)
          THEN /\ UNCHANGED <<file, faults>>
               /\ IF r.op = "heartbeat" THEN Answered(a, FALSE) /\ UNCHANGED memory
                  ELSE InMemory(r.op, a, r.old)
          ELSE \/ /\ file' = Apply(r.op, a, r.file, r.old) /\ Answered(a, TRUE)
                  /\ UNCHANGED <<memory, faults>>
               \/ /\ Fault /\ UNCHANGED file
                  /\ IF r.op = "unregister" THEN Answered(a, TRUE) /\ UNCHANGED memory
                     ELSE InMemory(r.op, a, r.old)

\* The answer is lost, or takes longer than the client waits.
AnswerLost(a) ==
    /\ operation[a] # NoOperation /\ Fault
    /\ file' = IF Missing(operation[a].op, a, operation[a].file) THEN file
               ELSE Apply(operation[a].op, a, operation[a].file, operation[a].old)
    /\ Answered(a, FALSE) /\ operation' = [operation EXCEPT ![a] = NoOperation]
    /\ UNCHANGED memory

\* SIGTERM: the agent unregisters before it goes.
AgentStops(a) ==
    /\ a \in Flaky /\ Up(a) /\ operation[a] = NoOperation
    /\ agent' = [agent EXCEPT ![a] = "stopping"]
    /\ UNCHANGED <<file, memory, operation, faults>>

AgentCrashes(a) ==
    /\ a \in Flaky /\ Up(a)
    /\ agent' = [agent EXCEPT ![a] = "down"]
    /\ UNCHANGED <<file, memory, operation, faults>>

-----------------------------------------------------------------------------
\* The sweep, every ten seconds.

SweepLoads ==
    /\ operation[Sweep] = NoOperation
    /\ \/ /\ file # Corrupt
          /\ operation' = [operation EXCEPT ![Sweep] = [op |-> "sweep", file |-> file, old |-> FALSE]]
          /\ UNCHANGED memory
       \/ /\ file = Corrupt /\ memory' = ExpireStaleAgents(memory) /\ UNCHANGED operation
    /\ UNCHANGED <<file, agent, faults>>

\* It saves only when it changed something.
SweepSaves ==
    LET swept == ExpireStaleAgents(operation[Sweep].file)
    IN /\ operation[Sweep] # NoOperation /\ operation' = [operation EXCEPT ![Sweep] = NoOperation]
       /\ \/ file' = (IF swept = operation[Sweep].file THEN file ELSE swept) /\ UNCHANGED faults
          \/ Fault /\ UNCHANGED file
       /\ UNCHANGED <<memory, agent>>

-----------------------------------------------------------------------------
\* Half a minute passes: all heartbeats so far are too old, those of requests
\* that wait for the file included.
Age(records) == [a \in Agents |-> [records[a] EXCEPT !.old = records[a].status = "online"]]

TimePasses ==
    /\ file' = (IF file = Corrupt THEN Corrupt ELSE Age(file)) /\ memory' = Age(memory)
    /\ operation' = [p \in DOMAIN operation |->
          IF operation[p] = NoOperation THEN NoOperation ELSE [operation[p] EXCEPT !.file = Age(@), !.old = p # Sweep]]
    /\ <<file, memory, operation>>' # <<file, memory, operation>>
    /\ UNCHANGED <<agent, faults>>

\* The control plane restarts: requests fail, memory is gone.  os.WriteFile
\* truncates the file before it writes, so a save cut short leaves no agent or
\* a text that cannot be parsed.
RegistryRestarts ==
    /\ Fault /\ operation' = [p \in DOMAIN operation |-> NoOperation] /\ memory' = NoAgents
    /\ file' \in {file} \cup (IF \E p \in DOMAIN operation : operation[p] # NoOperation THEN {NoAgents, Corrupt} ELSE {})
    /\ agent' = [a \in Agents |-> IF operation[a] = NoOperation \/ agent[a] = "down" THEN agent[a]
                                  ELSE IF agent[a] = "stopping" THEN "down" ELSE "retrying"]

RegistryNext ==
    \/ \E a \in Agents : AgentStarts(a) \/ Load(a) \/ Save(a) \/ AnswerLost(a) \/ AgentStops(a) \/ AgentCrashes(a)
    \/ SweepLoads \/ SweepSaves \/ TimePasses \/ RegistryRestarts

\* Requests are answered, agents keep sending them, the ticker of the sweep
\* ticks and time goes on.
RegistryFairness ==
    /\ \A a \in Agents : WF_registryVars(Load(a)) /\ WF_registryVars(Save(a))
    /\ WF_registryVars(SweepLoads) /\ WF_registryVars(SweepSaves) /\ WF_registryVars(TimePasses)

RegistrySpec == RegistryInit /\ [][RegistryNext]_registryVars /\ RegistryFairness

-----------------------------------------------------------------------------
\* Whatever updates overwrite each other, an agent that stays up is found
\* available again and again, and one that stays away is again and again not
\* offered: no lost save is final.
RegistryFollowsAgents ==
    \A a \in Agents :
        /\ <>[]Up(a) => []<>IsAvailable(a)
        /\ <>[](agent[a] = "down") => []<>(~IsAvailable(a))
=============================================================================
